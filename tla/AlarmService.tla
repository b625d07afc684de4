----------------------------- MODULE AlarmService -----------------------------
(***************************************************************************)
(* What the users of an alarm rely on, with no queue: an alarm is armed    *)
(* with one deadline at a time, the last one it was given, and its         *)
(* delegate runs at most once for it, not before the deadline has passed   *)
(* and never after the alarm was cancelled, destroyed or shut down.        *)
(***************************************************************************)
EXTENDS Integers

CONSTANTS
  Alarms,
  Nobody,       \* no alarm's delegate is running
  MaxTime

VARIABLES
  armed,        \* the deadline of every alarm, 0 when it has none
  running,      \* the alarm whose delegate is running, or Nobody
  now           \* the time of the current or last round

serviceVars == <<armed, running, now>>

Init ==
  /\ armed = [a \in Alarms |-> 0]
  /\ running = Nobody
  /\ now = 0

Arm(a, t) ==
  /\ armed' = [armed EXCEPT ![a] = t]
  /\ UNCHANGED <<running, now>>

Disarm(a) ==
  /\ armed[a] # 0
  /\ armed' = [armed EXCEPT ![a] = 0]
  /\ UNCHANGED <<running, now>>

BeginRound(t) ==
  /\ running = Nobody
  /\ now' = t
  /\ UNCHANGED <<armed, running>>

Fire(a) ==
  /\ running = Nobody
  /\ armed[a] \in 1..now
  /\ armed' = [armed EXCEPT ![a] = 0]
  /\ running' = a
  /\ UNCHANGED now

Return ==
  /\ running # Nobody
  /\ running' = Nobody
  /\ UNCHANGED <<armed, now>>

DisarmAll ==
  /\ running = Nobody
  /\ armed' = [a \in Alarms |-> 0]
  /\ UNCHANGED <<running, now>>

Next ==
  \/ \E a \in Alarms : Disarm(a) \/ Fire(a)
  \/ \E a \in Alarms, t \in 1..MaxTime : Arm(a, t)
  \/ \E t \in 1..MaxTime : BeginRound(t)
  \/ Return
  \/ DisarmAll

Spec == Init /\ [][Next]_serviceVars
===============================================================================
