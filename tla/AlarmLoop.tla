------------------------------ MODULE AlarmLoop -------------------------------
(***************************************************************************)
(* The alarm queue driven by the event loop of the embedding server.       *)
(*                                                                         *)
(* The queue counts microseconds; the C API of src/tQuicStack.cc counts    *)
(* milliseconds.  The server asks quic_stack_next_alarm_time when to wake  *)
(* up, sleeps until its own millisecond clock has reached that time, and   *)
(* then calls quic_stack_on_alarm_timeout with its clock.  The server is   *)
(* not part of the repository: its loop is the use the two functions are   *)
(* made for.                                                               *)
(***************************************************************************)
EXTENDS AlarmQueue, FiniteSets

CONSTANT
  UsPerMs       \* 1000 in the code

\* Entries are objects in memory: there are finitely many.
ASSUME AlarmLoopAssumption ==
  /\ UsPerMs \in Nat \ {0}
  /\ IsFiniteSet(Nodes)

VARIABLE
  clock         \* the time, in us, up to MaxTime

loopVars == <<vars, clock>>

ClockMs == clock \div UsPerMs

\* Mutant: the wake-up time is rounded up.
NextAlarmTimeRoundedUp == (NextAlarmTimeInUs + UsPerMs - 1) \div UsPerMs

\* tQuicStack::NextAlarmTime
NextAlarmTime == NextAlarmTimeInUs \div UsPerMs

\* Mutant: milliseconds are passed as microseconds.
OnAlarmTimeoutInMs ==
  /\ NextAlarmTime > 0
  /\ NextAlarmTime <= ClockMs
  /\ CallTimeoutAlarms(ClockMs)
  /\ UNCHANGED clock

\* tQuicStack::OnAlarmTimeout, called when the wake-up time has come.
OnAlarmTimeout ==
  /\ NextAlarmTime > 0
  /\ NextAlarmTime <= ClockMs
  /\ CallTimeoutAlarms(ClockMs * UsPerMs)
  /\ UNCHANGED clock

Tick ==
  /\ clock < MaxTime
  /\ clock' = clock + 1
  /\ UNCHANGED vars

\* Deadlines are times since the epoch, so never in the first millisecond, and
\* the clock gets a millisecond past them.  A delegate that keeps setting
\* deadlines that have passed keeps its own round going (OnlyOldAlarmsFire of
\* AlarmQueue); here every delegate sets times to come.
DeadlineAllowed(t) ==
  t \in UsPerMs..(MaxTime - UsPerMs) /\ (pc = "delegate" => t > now)

UseAlarms ==
  /\ \/ \E a \in Alarms : CreateAlarm(a) \/ DestroyAlarm(a) \/ Cancel(a)
     \/ \E a \in Alarms, t \in Times :
          DeadlineAllowed(t) /\ (Set(a, t) \/ Update(a, t))
  /\ UNCHANGED clock

RoundStep == (Visit \/ CallbackReturns \/ RoundEnds) /\ UNCHANGED clock

LoopInit == Init /\ clock = 0

LoopNext == UseAlarms \/ OnAlarmTimeout \/ RoundStep \/ Tick

\* Time passes, the server's loop calls the stack when its timer expires, and
\* delegates return; nobody has to use an alarm.
LoopSpec ==
  /\ LoopInit
  /\ [][LoopNext]_loopVars
  /\ WF_loopVars(Tick)
  /\ WF_loopVars(OnAlarmTimeout)
  /\ WF_loopVars((Visit \/ RoundEnds) /\ UNCHANGED clock)
  /\ WF_loopVars(CallbackReturns /\ UNCHANGED clock)

\* Whatever is in the map, a server that sleeps until quic_stack_next_alarm_time
\* does not sleep past a deadline: the stack never answers "no alarm" (0) or a
\* later millisecond while an alarm is set.
WakeUpInTime ==
  pc = "idle" => \A a \in alive :
    deadline[a] # 0 => NextAlarmTime \in 1..(deadline[a] \div UsPerMs)

\* A set alarm that nobody touches again fires, although the stack truncates
\* the wake-up time and the server calls it before the deadline has passed.
SetAlarmFires ==
  \A a \in Alarms, t \in Times :
    (a \in alive /\ deadline[a] = t) ~> ~(a \in alive /\ deadline[a] = t)
===============================================================================
