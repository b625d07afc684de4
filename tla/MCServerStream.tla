---------------------------- MODULE MCServerStream ----------------------------
(* Instances of ServerStream for TLC. *)
EXTENDS ServerStream

\* No content-length, an empty body, and one a body may meet or exceed.
MCLengths == {-1, 0, 2}
===============================================================================
