----------------------------- MODULE MCBodyBuffer -----------------------------
(* An instance of BodyBuffer for TLC. *)
EXTENDS BodyBuffer
===============================================================================
