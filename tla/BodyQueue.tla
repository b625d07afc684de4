------------------------------ MODULE BodyQueue -------------------------------
(***************************************************************************)
(* What a stream promises of a request body, with no chunks and no         *)
(* pointers: at most Limit bytes are held, and the reader gets every byte  *)
(* that was accepted, once, in order.  A byte is its position in the body. *)
(***************************************************************************)
EXTENDS Integers, Sequences

CONSTANT Limit      \* bytes that may be held

VARIABLES
  put,              \* bytes accepted so far
  got,              \* bytes handed to the reader so far
  out               \* what the current or last read has copied out

queueVars == <<put, got, out>>

Init == put = 0 /\ got = 0 /\ out = <<>>

Accept ==
  /\ put' \in (put + 1)..(got + Limit)
  /\ UNCHANGED <<got, out>>

BeginRead ==
  /\ out' = <<>>
  /\ UNCHANGED <<put, got>>

\* The next bytes, behind those that this read has copied already.
Copy ==
  /\ got' \in (got + 1)..put
  /\ out' = [i \in 1..(Len(out) + got' - got) |->
               IF i <= Len(out) THEN out[i] ELSE got + i - Len(out)]
  /\ UNCHANGED put

Next == Accept \/ BeginRead \/ Copy

Spec == Init /\ [][Next]_queueVars
===============================================================================
