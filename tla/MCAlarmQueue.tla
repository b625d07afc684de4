----------------------------- MODULE MCAlarmQueue -----------------------------
(* Instances of AlarmQueue for TLC. *)
EXTENDS AlarmQueue, TLC

\* Alarms and nodes are addresses: they are only compared.
Symmetry == Permutations(Alarms) \cup Permutations(Nodes)
===============================================================================
