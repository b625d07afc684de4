------------------------------ MODULE MCAlarmLoop -----------------------------
(* An instance of AlarmLoop for TLC: no symmetry, because of the liveness. *)
EXTENDS AlarmLoop
===============================================================================
