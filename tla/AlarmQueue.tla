------------------------------ MODULE AlarmQueue ------------------------------
(***************************************************************************)
(* The alarm event queue of the stack (src/tQuicAlarmFactory.cc).          *)
(*                                                                         *)
(* tQuicAlarmEventQueue keeps a std::multimap from deadlines to alarm      *)
(* callbacks.  A tQuicAlarm registers itself in the map and keeps the      *)
(* iterator (token_) of its entry.  CallTimeoutAlarms walks the map while  *)
(* the callbacks it fires set, cancel, update, create and destroy alarms,  *)
(* that is, while they insert into and erase from the map being walked.    *)
(*                                                                         *)
(* A map entry is a node: its identity stands for its address, and the     *)
(* address of an erased node may be given to a later one.  A token that    *)
(* outlives its node therefore shows up as a token of nothing, or of       *)
(* somebody else's entry.                                                  *)
(***************************************************************************)
EXTENDS Integers

CONSTANTS
  Alarms,       \* addresses of tQuicAlarm objects
  Nodes,        \* addresses of entries of alarm_map_
  NoNode,       \* alarm_map_.end(), and a token_ never assigned
  MaxTime,      \* bound on the deadlines and times considered, in us
  Granularity   \* of QuicAlarm::Update, in us

ASSUME AlarmQueueAssumption ==
  /\ NoNode \notin Nodes \cup Alarms
  /\ MaxTime \in Nat
  /\ Granularity \in Nat

VARIABLES
  alarm_map,    \* alarm_map_: [at: node -> entry, before: order of the nodes]
  all_alarms,   \* all_alarms_
  skip,         \* alarms_reregistered_and_should_be_skipped_
  alive,        \* the alarms that exist (created, not yet destroyed)
  registered,   \* registered_ of every alarm's event
  token,        \* token_ of every alarm's event
  deadline,     \* QuicAlarm::deadline_, 0 when not set
  pc,           \* where the queue is: see PCs
  cur,          \* the iterator i of CallTimeoutAlarms
  now,          \* its argument now_in_us
  owed          \* history: alarms due when the round began and not touched,
                \* fired or destroyed since

mapVars == <<alarm_map, all_alarms, skip>>
alarmVars == <<alive, registered, token, deadline>>
roundVars == <<pc, cur, now>>
vars == <<mapVars, alarmVars, roundVars, owed>>

\* "idle": no call in progress; "scan": at the head of the loop of
\* CallTimeoutAlarms; "delegate": inside the delegate called by Fire();
\* "fired": OnAlarm() returned; "down": the queue was destroyed.
PCs == {"idle", "scan", "delegate", "fired", "down"}
Times == 1..MaxTime
Entries == [key : Times, cb : Alarms]

(***************************************************************************)
(* std::multimap.  An entry is inserted behind those with the same key.    *)
(***************************************************************************)
InMap == DOMAIN alarm_map.at

MapInsert(m, n, t, a) ==
  [at |-> [x \in DOMAIN m.at \cup {n} |->
              IF x = n THEN [key |-> t, cb |-> a] ELSE m.at[x]],
   before |-> m.before
      \cup {<<x, n>> : x \in {y \in DOMAIN m.at : m.at[y].key <= t}}
      \cup {<<n, x>> : x \in {y \in DOMAIN m.at : m.at[y].key > t}}]

MapErase(m, n) ==
  [at |-> [x \in DOMAIN m.at \ {n} |-> m.at[x]],
   before |-> {p \in m.before : p[1] # n /\ p[2] # n}]

\* n is the first of the nodes S.
IsFirst(n, S) == n \in S /\ \A m \in S \ {n} : <<n, m>> \in alarm_map.before

\* n is begin() of the map, or end() when S is empty.
IsFront(n, S) == IF S = {} THEN n = NoNode ELSE IsFirst(n, S)

\* The nodes the iterator i still has before it.
After(i) == {n \in InMap : <<i, n>> \in alarm_map.before}

(***************************************************************************)
(* tQuicAlarmEventQueue and tQuicAlarmEvent, as the alarms use them.       *)
(***************************************************************************)
RegisterAlarm(m, t, a) ==
  IF a \in all_alarms
  THEN /\ alarm_map' = m
       /\ UNCHANGED <<all_alarms, registered, token>>
  ELSE \E n \in Nodes \ DOMAIN m.at :
         /\ alarm_map' = MapInsert(m, n, t, a)
         /\ all_alarms' = all_alarms \cup {a}
         /\ registered' = [registered EXCEPT ![a] = TRUE]
         /\ token' = [token EXCEPT ![a] = n]

\* Mutant: all_alarms_ keeps the alarm.
UnregisterKeepsInSet(n) ==
  /\ alarm_map' = MapErase(alarm_map, n)
  /\ registered' = [registered EXCEPT ![alarm_map.at[n].cb] = FALSE]
  /\ UNCHANGED <<all_alarms, token>>

UnregisterAlarm(n) ==
  LET a == alarm_map.at[n].cb
  IN  /\ alarm_map' = MapErase(alarm_map, n)
      /\ all_alarms' = all_alarms \ {a}
      /\ registered' = [registered EXCEPT ![a] = FALSE]
      /\ UNCHANGED token

UnregisterIfRegistered(a) ==
  IF registered[a]
  THEN UnregisterAlarm(token[a])
  ELSE UNCHANGED <<alarm_map, all_alarms, registered, token>>

ReregisterAlarm(a, t) ==
  LET m == MapErase(alarm_map, token[a])
  IN  \E n \in Nodes \ DOMAIN m.at :
        /\ alarm_map' = MapInsert(m, n, t, alarm_map.at[token[a]].cb)
        /\ token' = [token EXCEPT ![a] = n]
        /\ UNCHANGED <<all_alarms, registered>>

\* Mutant: an alarm that has an entry keeps it.
UpdateOnlyRegisters(a, t) == RegisterAlarm(alarm_map, t, a)

UpdateImpl(a, t) ==
  IF registered[a] THEN ReregisterAlarm(a, t) ELSE RegisterAlarm(alarm_map, t, a)

\* QuicAlarmImpl::OnAlarm leaves it to Fire to register the alarm again.
OnAlarmResult == 0

(***************************************************************************)
(* What connections and sessions do with their alarms (QuicAlarm), between *)
(* two calls of the queue or from within a delegate that it is running.    *)
(***************************************************************************)
CanCall == pc \in {"idle", "delegate"}
Touch(a) == owed' = owed \ {a}

CreateAlarm(a) ==
  /\ CanCall
  /\ a \notin alive
  /\ alive' = alive \cup {a}
  /\ registered' = [registered EXCEPT ![a] = FALSE]
  /\ token' = [token EXCEPT ![a] = NoNode]
  /\ deadline' = [deadline EXCEPT ![a] = 0]
  /\ UNCHANGED <<mapVars, roundVars, owed>>

DestroyAlarm(a) ==
  /\ CanCall \/ pc = "down"
  /\ a \in alive
  /\ alive' = alive \ {a}
  /\ UnregisterIfRegistered(a)
  /\ Touch(a)
  /\ UNCHANGED <<skip, deadline, roundVars>>

Set(a, t) ==
  /\ CanCall
  /\ a \in alive
  /\ deadline[a] = 0
  /\ deadline' = [deadline EXCEPT ![a] = t]
  /\ RegisterAlarm(alarm_map, t, a)
  /\ Touch(a)
  /\ UNCHANGED <<skip, alive, roundVars>>

Cancel(a) ==
  /\ CanCall
  /\ a \in alive
  /\ deadline[a] # 0
  /\ deadline' = [deadline EXCEPT ![a] = 0]
  /\ UnregisterIfRegistered(a)
  /\ Touch(a)
  /\ UNCHANGED <<skip, alive, roundVars>>

Update(a, t) ==
  /\ CanCall
  /\ a \in alive
  /\ t - deadline[a] >= Granularity \/ deadline[a] - t >= Granularity
  /\ deadline' = [deadline EXCEPT ![a] = t]
  /\ IF deadline[a] # 0 THEN UpdateImpl(a, t) ELSE RegisterAlarm(alarm_map, t, a)
  /\ Touch(a)
  /\ UNCHANGED <<skip, alive, roundVars>>

(***************************************************************************)
(* CallTimeoutAlarms, one step per visit of the loop head and one per      *)
(* return of a callback.                                                   *)
(***************************************************************************)
Due(a, t) == registered[a] /\ deadline[a] <= t

CallTimeoutAlarms(t) ==
  /\ pc = "idle"
  /\ pc' = "scan"
  /\ now' = t
  /\ \E n \in InMap \cup {NoNode} : IsFront(n, InMap) /\ cur' = n
  /\ owed' = {a \in Alarms : Due(a, t)}
  /\ UNCHANGED <<mapVars, alarmVars>>

\* ++i
Advance == \E n \in InMap \cup {NoNode} : IsFront(n, After(cur)) /\ cur' = n

\* Mutant: registered_ is cleared only after the delegate ran.
VisitKeepsRegistered ==
  /\ pc = "scan"
  /\ cur # NoNode
  /\ alarm_map.at[cur].key <= now
  /\ LET a == alarm_map.at[cur].cb
     IN  /\ deadline' = [deadline EXCEPT ![a] = 0]
         /\ pc' = "delegate"
         /\ Touch(a)
  /\ UNCHANGED <<mapVars, alive, registered, token, cur, now>>

\* The entry at i is due.  OnAlarm() clears registered_ and Fire() the
\* deadline before the delegate runs; the entry itself is still in the map.
Visit ==
  /\ pc = "scan"
  /\ cur # NoNode
  /\ alarm_map.at[cur].key <= now
  /\ LET a == alarm_map.at[cur].cb
     IN  IF a \in skip
         THEN Advance /\ UNCHANGED <<mapVars, alarmVars, pc, now, owed>>
         ELSE /\ all_alarms' = all_alarms \ {a}
              /\ registered' = [registered EXCEPT ![a] = FALSE]
              /\ deadline' = [deadline EXCEPT ![a] = 0]
              /\ pc' = IF deadline[a] # 0 THEN "delegate" ELSE "fired"
              /\ Touch(a)
              /\ UNCHANGED <<alarm_map, skip, alive, token, cur, now>>

CallbackReturns ==
  LET m == MapErase(alarm_map, cur)
      a == alarm_map.at[cur].cb
  IN  /\ pc \in {"delegate", "fired"}
      /\ pc' = "scan"
      /\ Advance
      /\ skip' = IF OnAlarmResult \in 1..now THEN skip \cup {a} ELSE skip
      /\ IF OnAlarmResult > 0
         THEN RegisterAlarm(m, OnAlarmResult, a)
         ELSE alarm_map' = m /\ UNCHANGED <<all_alarms, registered, token>>
      /\ UNCHANGED <<alive, deadline, now, owed>>

\* Mutant: the loop stops at an alarm that is due right now.
RoundEndsAtNow ==
  /\ pc = "scan"
  /\ cur # NoNode => alarm_map.at[cur].key >= now
  /\ pc' = "idle"
  /\ cur' = NoNode
  /\ skip' = {}
  /\ UNCHANGED <<alarm_map, all_alarms, alarmVars, now, owed>>

RoundEnds ==
  /\ pc = "scan"
  /\ cur # NoNode => alarm_map.at[cur].key > now
  /\ pc' = "idle"
  /\ cur' = NoNode
  /\ skip' = {}
  /\ UNCHANGED <<alarm_map, all_alarms, alarmVars, now, owed>>

\* The deadline of the first entry, 0 when there is none.
NextAlarmTimeInUs ==
  IF InMap = {} THEN 0
  ELSE alarm_map.at[CHOOSE n \in InMap : IsFirst(n, InMap)].key

(***************************************************************************)
(* The factory and its queue are destroyed and created with the stack.     *)
(***************************************************************************)
EmptyMap == [at |-> [n \in {} |-> n], before |-> {}]

\* Mutant: the map is dropped without a word to its alarms.
ShutdownUnannounced ==
  /\ pc = "idle"
  /\ pc' = "down"
  /\ alarm_map' = EmptyMap
  /\ all_alarms' = {}
  /\ UNCHANGED <<skip, alarmVars, cur, now, owed>>

\* CleanupTimeToAlarmCBMap: OnShutdown of every alarm still in the map.
Shutdown ==
  /\ pc = "idle"
  /\ pc' = "down"
  /\ registered' = [a \in Alarms |->
       registered[a] /\ a \notin {alarm_map.at[n].cb : n \in InMap}]
  /\ alarm_map' = EmptyMap
  /\ all_alarms' = {}
  /\ UNCHANGED <<skip, alive, token, deadline, cur, now, owed>>

\* A new stack, once the alarms of the old one are gone.
Startup ==
  /\ pc = "down"
  /\ alive = {}
  /\ pc' = "idle"
  /\ UNCHANGED <<mapVars, alarmVars, cur, now, owed>>

Init ==
  /\ alarm_map = EmptyMap
  /\ all_alarms = {}
  /\ skip = {}
  /\ alive = {}
  /\ registered = [a \in Alarms |-> FALSE]
  /\ token = [a \in Alarms |-> NoNode]
  /\ deadline = [a \in Alarms |-> 0]
  /\ pc = "idle"
  /\ cur = NoNode
  /\ now = 0
  /\ owed = {}

Next ==
  \/ \E a \in Alarms : CreateAlarm(a) \/ DestroyAlarm(a) \/ Cancel(a)
  \/ \E a \in Alarms, t \in Times : Set(a, t) \/ Update(a, t)
  \/ \E t \in Times : CallTimeoutAlarms(t)
  \/ Visit
  \/ CallbackReturns
  \/ RoundEnds
  \/ Shutdown
  \/ Startup

Spec == Init /\ [][Next]_vars

(***************************************************************************)
(* Properties.                                                             *)
(***************************************************************************)
MapType(m) ==
  /\ DOMAIN m.at \subseteq Nodes
  /\ m.at \in [DOMAIN m.at -> Entries]
  /\ m.before \subseteq (DOMAIN m.at) \X (DOMAIN m.at)

\* Every variable has its type (the containers and members of
\* tQuicAlarmFactory.hh).
TypeOK ==
  /\ MapType(alarm_map)
  /\ all_alarms \subseteq Alarms
  /\ skip \subseteq Alarms
  /\ alive \subseteq Alarms
  /\ registered \in [Alarms -> BOOLEAN]
  /\ token \in [Alarms -> Nodes \cup {NoNode}]
  /\ deadline \in [Alarms -> Times \cup {0}]
  /\ pc \in PCs
  /\ cur \in Nodes \cup {NoNode}
  /\ now \in Times \cup {0}
  /\ owed \subseteq Alarms

\* The entry whose callback is running: it stays in the map until it returns.
Firing == IF pc \in {"delegate", "fired"} THEN {cur} ELSE {}

\* Every entry that CallTimeoutAlarms may still visit belongs to an alarm that
\* exists, is registered and holds this very entry as its token, so that no
\* callback of a destroyed or cancelled alarm is ever called (line 79).
EntriesBelong ==
  \A n \in InMap \ Firing :
    LET a == alarm_map.at[n].cb
    IN  a \in alive /\ registered[a] /\ token[a] = n

\* The token of a registered alarm is a valid iterator to its own entry, under
\* the deadline it was last given, so that UnregisterAlarm and ReregisterAlarm
\* (lines 35, 45) erase the right entry.
TokensValid ==
  \A a \in Alarms : registered[a] =>
    /\ token[a] \in InMap \ Firing
    /\ alarm_map.at[token[a]] = [key |-> deadline[a], cb |-> a]

\* all_alarms_ and the deadline of an alarm say the same as registered_, so
\* that RegisterAlarm never returns early (line 21) and leaves a set alarm
\* without an entry.
RegistrationAgrees ==
  /\ all_alarms = {a \in Alarms : registered[a]}
  /\ pc # "down" => \A a \in alive : registered[a] <=> deadline[a] # 0

QueueConsistent == EntriesBelong /\ TokensValid /\ RegistrationAgrees

\* The iterator of CallTimeoutAlarms survives whatever callbacks erase: while a
\* callback runs and at the head of the loop it is end() or an entry (lines
\* 64, 83).
IteratorValid ==
  /\ pc = "scan" => cur \in InMap \cup {NoNode}
  /\ pc \in {"delegate", "fired"} => cur \in InMap

\* A round fires every alarm that was due when it began, unless a callback
\* cancelled, moved or destroyed it first: the walk never loses an entry.
RoundComplete == pc = "idle" => owed = {}

\* After the queue's destructor no alarm believes to be registered, so the
\* destructors of the alarms that outlive it do not use the queue (line 151).
ShutdownDetaches == pc = "down" => \A a \in Alarms : ~registered[a]

\* The deadline an alarm's user last gave it, while there is a queue to honour
\* it, and the alarm whose delegate runs.
Armed == [a \in Alarms |-> IF a \in alive /\ pc # "down" THEN deadline[a] ELSE 0]
Running == IF pc = "delegate" THEN alarm_map.at[cur].cb ELSE NoNode

Service == INSTANCE AlarmService WITH
  armed <- Armed, running <- Running, now <- now, Nobody <- NoNode

\* The queue implements AlarmService: a delegate runs at most once for each
\* deadline, never before it and never after the alarm was cancelled, moved
\* to a later deadline or destroyed, whatever other callbacks did in between.
ImplementsService == Service!Spec

\* The entries of the map are in one order, that of their keys.
MapOrdered(m) ==
  /\ \A x \in DOMAIN m.at : <<x, x>> \notin m.before
  /\ \A x, y \in DOMAIN m.at : x # y => (<<x, y>> \in m.before <=> <<y, x>> \notin m.before)
  /\ \A x, y, z \in DOMAIN m.at :
       <<x, y>> \in m.before /\ <<y, z>> \in m.before => <<x, z>> \in m.before
  /\ \A x, y \in DOMAIN m.at : <<x, y>> \in m.before => m.at[x].key <= m.at[y].key

\* Nothing is returned by OnAlarm, so nothing is ever skipped; a visited alarm
\* is always set, so Fire never returns early; between rounds there is no
\* iterator, and after the destructor no entry.
RoundShape ==
  /\ skip = {}
  /\ pc # "fired"
  /\ pc \in {"idle", "down"} => cur = NoNode
  /\ pc = "down" => InMap = {}

\* What is still owed lies at the iterator or behind it.
OwedAhead ==
  /\ pc \in {"idle", "down"} => owed = {}
  /\ \A a \in owed :
       /\ registered[a]
       /\ deadline[a] <= now
       /\ cur # NoNode
       /\ token[a] = cur \/ <<cur, token[a]>> \in alarm_map.before

\* The inductive invariant of the queue: CallTimeoutAlarms and every use of an
\* alarm from a delegate keep the map, the tokens, the iterator and what is
\* owed in step.
IInv ==
  /\ TypeOK
  /\ QueueConsistent
  /\ IteratorValid
  /\ MapOrdered(alarm_map)
  /\ RoundShape
  /\ OwedAhead

\* The comment of CallTimeoutAlarms (lines 69-70): an alarm is executed only
\* if it was not registered in this loop itself.
OnlyOldAlarmsFire ==
  [][pc = "scan" /\ pc' = "delegate" => alarm_map.at[cur].cb \in owed]_vars
===============================================================================
