--------------------------- MODULE AlarmQueueProofs ---------------------------
(***************************************************************************)
(* The alarm queue for any number of alarms, any deadlines and any number  *)
(* of rounds: IInv is inductive, and with it the properties that           *)
(* MCAlarmQueue checks on an instance.                                     *)
(***************************************************************************)
EXTENDS AlarmLoop, FiniteSetTheorems, TLAPS

(***************************************************************************)
(* The multimap.                                                           *)
(***************************************************************************)

\* Erasing a node (alarm_map_.erase) keeps the other entries and their order.
LEMMA EraseFacts ==
  ASSUME NEW m, NEW n, MapType(m), NEW e, e = MapErase(m, n)
  PROVE  /\ DOMAIN e.at = DOMAIN m.at \ {n}
         /\ \A x \in DOMAIN e.at : e.at[x] = m.at[x]
         /\ \A x, y \in DOMAIN e.at : <<x, y>> \in e.before <=> <<x, y>> \in m.before
         /\ MapType(e)
  BY DEF MapErase, MapType

\* Erasing a node keeps the map ordered.
LEMMA EraseOrdered ==
  ASSUME NEW m, NEW n, MapType(m), MapOrdered(m)
  PROVE  MapOrdered(MapErase(m, n))
  BY EraseFacts DEF MapOrdered

\* Inserting a node keeps the other entries and their order, and puts the new
\* one behind those with the same key.
LEMMA InsertFacts ==
  ASSUME NEW m, NEW n \in Nodes, NEW t \in Times, NEW a \in Alarms,
         n \notin DOMAIN m.at, MapType(m)
  PROVE  LET i == MapInsert(m, n, t, a) IN
         /\ DOMAIN i.at = DOMAIN m.at \cup {n}
         /\ i.at[n] = [key |-> t, cb |-> a]
         /\ \A x \in DOMAIN m.at : i.at[x] = m.at[x]
         /\ \A x, y \in DOMAIN m.at : <<x, y>> \in i.before <=> <<x, y>> \in m.before
         /\ \A x \in DOMAIN m.at : <<x, n>> \in i.before <=> m.at[x].key <= t
         /\ \A x \in DOMAIN m.at : <<n, x>> \in i.before <=> m.at[x].key > t
         /\ <<n, n>> \notin i.before
         /\ MapType(i)
  BY DEF MapInsert, MapType, Entries, Times

\* Inserting a node keeps the map ordered (std::multimap::insert).
LEMMA InsertOrdered ==
  ASSUME NEW m, NEW n \in Nodes, NEW t \in Times, NEW a \in Alarms,
         n \notin DOMAIN m.at, MapType(m), MapOrdered(m)
  PROVE  MapOrdered(MapInsert(m, n, t, a))
<1> DEFINE i == MapInsert(m, n, t, a)
<1>1. /\ DOMAIN i.at = DOMAIN m.at \cup {n}
      /\ i.at[n] = [key |-> t, cb |-> a]
      /\ \A x \in DOMAIN m.at : i.at[x] = m.at[x]
      /\ \A x, y \in DOMAIN m.at : <<x, y>> \in i.before <=> <<x, y>> \in m.before
      /\ \A x \in DOMAIN m.at : <<x, n>> \in i.before <=> m.at[x].key <= t
      /\ \A x \in DOMAIN m.at : <<n, x>> \in i.before <=> m.at[x].key > t
      /\ <<n, n>> \notin i.before
  BY InsertFacts
<1>2. t \in Int /\ \A x \in DOMAIN m.at : m.at[x].key \in Int
  BY AlarmQueueAssumption DEF MapType, Entries, Times
<1> HIDE DEF i
<1>3. \A x \in DOMAIN i.at : <<x, x>> \notin i.before
  BY Zenon, <1>1 DEF MapOrdered
<1>4. ASSUME NEW x \in DOMAIN i.at, NEW y \in DOMAIN i.at, x # y
      PROVE  <<x, y>> \in i.before <=> <<y, x>> \notin i.before
  <2>1. CASE x = n
    <3>1. y \in DOMAIN m.at /\ m.at[y].key \in Int
      BY <1>1, <1>2, <1>4, <2>1
    <3> QED BY <3>1, <1>1, <1>2, <2>1
  <2>2. CASE y = n
    <3>1. x \in DOMAIN m.at /\ m.at[x].key \in Int
      BY <1>1, <1>2, <1>4, <2>2
    <3> QED BY <3>1, <1>1, <1>2, <2>2
  <2>3. CASE x # n /\ y # n
    BY <1>1, <1>4, <2>3 DEF MapOrdered
  <2> QED BY <2>1, <2>2, <2>3
<1>5. ASSUME NEW x \in DOMAIN i.at, NEW y \in DOMAIN i.at, NEW z \in DOMAIN i.at,
             <<x, y>> \in i.before, <<y, z>> \in i.before
      PROVE  <<x, z>> \in i.before
  <2>1. CASE x = n
    BY <1>1, <1>2, <1>5, <2>1 DEF MapOrdered
  <2>2. CASE y = n
    <3>1. x \in DOMAIN m.at /\ z \in DOMAIN m.at /\ x # z
      BY <1>1, <1>2, <1>5, <2>2
    <3>2. <<z, x>> \notin m.before
      BY <3>1, <1>1, <1>2, <1>5, <2>2 DEF MapOrdered
    <3> QED BY <3>1, <3>2, <1>1 DEF MapOrdered
  <2>3. CASE z = n
    BY <1>1, <1>2, <1>5, <2>3 DEF MapOrdered
  <2>4. CASE x # n /\ y # n /\ z # n
    BY <1>1, <1>5, <2>4 DEF MapOrdered
  <2> QED BY <2>1, <2>2, <2>3, <2>4
<1>6. \A x, y \in DOMAIN i.at : <<x, y>> \in i.before => i.at[x].key <= i.at[y].key
  BY <1>1, <1>2 DEF MapOrdered
<1> QED
  <2>1. MapOrdered(i)
    BY <1>3, <1>4, <1>5, <1>6 DEF MapOrdered
  <2> QED BY <2>1 DEF i

(***************************************************************************)
(* The inductive invariant.                                                *)
(***************************************************************************)

\* A set alarm of a running queue is registered, and only such an alarm is.
LEMMA SetIsRegistered ==
  ASSUME IInv, CanCall, NEW a \in alive
  PROVE  /\ a \in Alarms
         /\ registered[a] <=> deadline[a] # 0
         /\ registered[a] <=> a \in all_alarms
  BY DEF IInv, TypeOK, QueueConsistent, RegistrationAgrees, CanCall

\* A registered alarm exists, and its token is its entry.
LEMMA RegisteredHasEntry ==
  ASSUME IInv, NEW a \in Alarms, registered[a]
  PROVE  /\ a \in alive
         /\ token[a] \in InMap \ Firing
         /\ alarm_map.at[token[a]].cb = a
         /\ alarm_map.at[token[a]].key = deadline[a]
<1>1. /\ token[a] \in InMap \ Firing
      /\ alarm_map.at[token[a]] = [key |-> deadline[a], cb |-> a]
  BY DEF IInv, QueueConsistent, TokensValid
<1>2. alarm_map.at[token[a]].cb = a /\ alarm_map.at[token[a]].key = deadline[a]
  BY <1>1
<1>3. a \in alive
  BY <1>1, <1>2 DEF IInv, QueueConsistent, EntriesBelong
<1> QED BY <1>1, <1>2, <1>3

\* Registering an alarm that has no entry (RegisterAlarm, from Set or Update)
\* preserves the invariant.
LEMMA RegisterStep ==
  ASSUME IInv, CanCall, NEW a \in alive, NEW t \in Times, ~registered[a],
         RegisterAlarm(alarm_map, t, a), Touch(a),
         deadline' = [deadline EXCEPT ![a] = t],
         UNCHANGED <<skip, alive, roundVars>>
  PROVE  IInv'
<1>1. /\ a \in Alarms /\ a \notin all_alarms
      /\ TypeOK /\ MapType(alarm_map) /\ MapOrdered(alarm_map)
      /\ EntriesBelong /\ TokensValid /\ RegistrationAgrees
      /\ IteratorValid /\ RoundShape /\ OwedAhead
  BY SetIsRegistered DEF IInv, QueueConsistent, TypeOK
<1>2. PICK n \in Nodes \ InMap :
         /\ alarm_map' = MapInsert(alarm_map, n, t, a)
         /\ all_alarms' = all_alarms \cup {a}
         /\ registered' = [registered EXCEPT ![a] = TRUE]
         /\ token' = [token EXCEPT ![a] = n]
  BY <1>1 DEF RegisterAlarm, InMap
<1>3. /\ InMap' = InMap \cup {n}
      /\ alarm_map'.at[n] = [key |-> t, cb |-> a]
      /\ \A x \in InMap : alarm_map'.at[x] = alarm_map.at[x]
      /\ \A x, y \in InMap :
           <<x, y>> \in alarm_map'.before <=> <<x, y>> \in alarm_map.before
      /\ MapType(alarm_map')
  <2> DEFINE i == MapInsert(alarm_map, n, t, a)
  <2>1. n \in Nodes /\ n \notin DOMAIN alarm_map.at /\ MapType(alarm_map) /\ a \in Alarms
    BY <1>1 DEF InMap
  <2>2. /\ DOMAIN i.at = DOMAIN alarm_map.at \cup {n}
        /\ i.at[n] = [key |-> t, cb |-> a]
        /\ \A x \in DOMAIN alarm_map.at : i.at[x] = alarm_map.at[x]
    BY <2>1 DEF MapInsert
  <2>3. \A x, y \in DOMAIN alarm_map.at : <<x, y>> \in i.before <=> <<x, y>> \in alarm_map.before
    BY Zenon, <2>1, InsertFacts
  <2>4. MapType(i)
    BY Zenon, <2>1, InsertFacts
  <2>5. alarm_map' = i
    BY <1>2
  <2> HIDE DEF i
  <2> QED BY <2>2, <2>3, <2>4, <2>5, <1>1 DEF InMap
<1>4. MapOrdered(alarm_map')
  BY <1>1, <1>2, InsertOrdered DEF InMap
<1>5. UNCHANGED <<skip, alive, pc, cur, now>> /\ pc \in {"idle", "delegate"}
  BY DEF roundVars, CanCall
<1>6. TypeOK'
  BY <1>1, <1>2, <1>3, <1>5 DEF TypeOK, Touch
<1>7. Firing' = Firing /\ Firing \subseteq InMap
  BY Zenon, <1>1, <1>5 DEF Firing, IteratorValid
<1>8. EntriesBelong'
  BY <1>1, <1>2, <1>3, <1>5, <1>7 DEF EntriesBelong, TypeOK
<1>9. TokensValid'
  BY <1>1, <1>2, <1>3, <1>5, <1>7 DEF TokensValid, TypeOK
<1>10. RegistrationAgrees'
  BY <1>1, <1>2, <1>5, AlarmQueueAssumption DEF RegistrationAgrees, TypeOK, Times
<1>11. IteratorValid' /\ RoundShape'
  BY <1>1, <1>3, <1>5 DEF IteratorValid, RoundShape
<1>12. OwedAhead'
  BY Zenon, <1>1, <1>2, <1>3, <1>5, <1>7 DEF OwedAhead, Touch, TypeOK, TokensValid, IteratorValid
<1> QED
  BY <1>4, <1>6, <1>8, <1>9, <1>10, <1>11, <1>12 DEF IInv, QueueConsistent

\* Erasing the entry of a registered alarm (UnregisterAlarm, from Cancel or
\* from the destructor) preserves the invariant.
LEMMA UnregisterStep ==
  ASSUME IInv, CanCall, NEW a \in alive, registered[a],
         UnregisterAlarm(token[a]), Touch(a),
         UNCHANGED <<skip, roundVars>>,
         \/ alive' = alive /\ deadline' = [deadline EXCEPT ![a] = 0]
         \/ alive' = alive \ {a} /\ deadline' = deadline
  PROVE  IInv'
<1> DEFINE n == token[a]
<1>1. /\ a \in Alarms
      /\ TypeOK /\ MapType(alarm_map) /\ MapOrdered(alarm_map)
      /\ EntriesBelong /\ TokensValid /\ RegistrationAgrees
      /\ IteratorValid /\ RoundShape /\ OwedAhead
  BY SetIsRegistered DEF IInv, QueueConsistent, TypeOK
<1>2. n \in InMap \ Firing /\ alarm_map.at[n].cb = a
  BY <1>1, RegisteredHasEntry
<1>3. /\ alarm_map' = MapErase(alarm_map, n)
      /\ all_alarms' = all_alarms \ {a}
      /\ registered' = [registered EXCEPT ![a] = FALSE]
      /\ token' = token
  BY <1>2 DEF UnregisterAlarm
<1> HIDE DEF n
<1>4. /\ InMap' = InMap \ {n}
      /\ \A x \in InMap' : alarm_map'.at[x] = alarm_map.at[x]
      /\ \A x, y \in InMap' :
           <<x, y>> \in alarm_map'.before <=> <<x, y>> \in alarm_map.before
      /\ MapType(alarm_map')
  BY <1>1, <1>3, EraseFacts DEF InMap
<1>5. MapOrdered(alarm_map')
  BY <1>1, <1>3, EraseOrdered
<1>6. UNCHANGED <<skip, pc, cur, now>> /\ pc \in {"idle", "delegate"}
  BY DEF roundVars, CanCall
<1>7. TypeOK'
  BY <1>1, <1>3, <1>4, <1>6 DEF TypeOK, Touch
<1>8. Firing' = Firing /\ Firing \subseteq InMap
  BY <1>1, <1>6 DEF Firing, IteratorValid
<1>9. \A b \in Alarms : registered'[b] <=> registered[b] /\ b # a
  BY <1>1, <1>3 DEF TypeOK
<1>10. \A b \in Alarms \ {a} : (b \in alive' <=> b \in alive) /\ deadline'[b] = deadline[b]
  BY <1>1 DEF TypeOK
<1>11. EntriesBelong'
  <2> SUFFICES ASSUME NEW x \in InMap' \ Firing'
               PROVE  LET b == alarm_map'.at[x].cb
                      IN  b \in alive' /\ registered'[b] /\ token'[b] = x
    BY DEF EntriesBelong
  <2>1. x \in InMap \ Firing /\ x # n /\ alarm_map'.at[x] = alarm_map.at[x]
    BY <1>4, <1>8
  <2> DEFINE b == alarm_map.at[x].cb
  <2>2. b \in alive /\ registered[b] /\ token[b] = x /\ b \in Alarms
    BY <2>1, <1>1 DEF EntriesBelong, TypeOK
  <2>3. b # a
    BY <2>1, <2>2 DEF n
  <2> QED BY <2>1, <2>2, <2>3, <1>3, <1>9, <1>10
<1>12. TokensValid'
  <2> SUFFICES ASSUME NEW b \in Alarms, registered'[b]
               PROVE  /\ token'[b] \in InMap' \ Firing'
                      /\ alarm_map'.at[token'[b]] = [key |-> deadline'[b], cb |-> b]
    BY DEF TokensValid
  <2>1. registered[b] /\ b # a
    BY <1>9
  <2>2. token[b] \in InMap \ Firing /\ alarm_map.at[token[b]] = [key |-> deadline[b], cb |-> b]
    BY <2>1, <1>1 DEF TokensValid
  <2>3. token[b] # n
    BY <2>1, <2>2, <1>2
  <2> QED BY <2>1, <2>2, <2>3, <1>3, <1>4, <1>8, <1>10
<1>13. RegistrationAgrees'
  BY <1>1, <1>3, <1>6, <1>9, <1>10 DEF RegistrationAgrees, TypeOK
<1>14. IteratorValid' /\ RoundShape'
  BY <1>1, <1>2, <1>4, <1>6 DEF IteratorValid, RoundShape, Firing
<1>15. OwedAhead'
  BY Zenon, <1>1, <1>2, <1>3, <1>4, <1>6, <1>9, <1>10, <1>12
     DEF OwedAhead, Touch, TypeOK, TokensValid, IteratorValid, Firing
<1> QED
  BY <1>5, <1>7, <1>11, <1>12, <1>13, <1>14, <1>15 DEF IInv, QueueConsistent

\* Moving the entry of a registered alarm to a new deadline (ReregisterAlarm,
\* from Update) preserves the invariant.
LEMMA ReregisterStep ==
  ASSUME IInv, CanCall, NEW a \in alive, NEW t \in Times, registered[a],
         ReregisterAlarm(a, t), Touch(a),
         deadline' = [deadline EXCEPT ![a] = t],
         UNCHANGED <<skip, alive, roundVars>>
  PROVE  IInv'
<1> DEFINE o == token[a]
           m == MapErase(alarm_map, o)
<1>1. /\ a \in Alarms
      /\ TypeOK /\ MapType(alarm_map) /\ MapOrdered(alarm_map)
      /\ EntriesBelong /\ TokensValid /\ RegistrationAgrees
      /\ IteratorValid /\ RoundShape /\ OwedAhead
  BY SetIsRegistered DEF IInv, QueueConsistent, TypeOK
<1>2. o \in InMap \ Firing /\ alarm_map.at[o].cb = a
  BY <1>1, RegisteredHasEntry
<1>3. /\ DOMAIN m.at = InMap \ {o}
      /\ \A x \in DOMAIN m.at : m.at[x] = alarm_map.at[x]
      /\ \A x, y \in DOMAIN m.at : <<x, y>> \in m.before <=> <<x, y>> \in alarm_map.before
      /\ MapType(m)
  BY <1>1, EraseFacts DEF InMap
<1>4. MapOrdered(m)
  BY <1>1, EraseOrdered
<1>5. PICK n \in Nodes \ DOMAIN m.at :
         /\ alarm_map' = MapInsert(m, n, t, a)
         /\ token' = [token EXCEPT ![a] = n]
         /\ UNCHANGED <<all_alarms, registered>>
  BY Zenon, <1>2 DEF ReregisterAlarm
<1> HIDE DEF m, o
<1>6. /\ InMap' = (InMap \ {o}) \cup {n}
      /\ alarm_map'.at[n] = [key |-> t, cb |-> a]
      /\ \A x \in InMap \ {o} : alarm_map'.at[x] = alarm_map.at[x]
      /\ \A x, y \in InMap \ {o} :
           <<x, y>> \in alarm_map'.before <=> <<x, y>> \in alarm_map.before
      /\ MapType(alarm_map')
  <2> DEFINE i == MapInsert(m, n, t, a)
  <2>1. n \in Nodes /\ n \notin DOMAIN m.at /\ MapType(m) /\ a \in Alarms
    BY <1>1, <1>3 DEF InMap
  <2>2. /\ DOMAIN i.at = DOMAIN m.at \cup {n}
        /\ i.at[n] = [key |-> t, cb |-> a]
        /\ \A x \in DOMAIN m.at : i.at[x] = m.at[x]
    BY <2>1 DEF MapInsert
  <2>3. \A x, y \in DOMAIN m.at : <<x, y>> \in i.before <=> <<x, y>> \in m.before
    BY Zenon, <2>1, InsertFacts
  <2>4. MapType(i)
    BY Zenon, <2>1, InsertFacts
  <2>5. alarm_map' = i
    BY <1>5
  <2> HIDE DEF i
  <2> QED BY <2>2, <2>3, <2>4, <2>5, <1>1, <1>3 DEF InMap
<1>7. MapOrdered(alarm_map')
  BY <1>1, <1>3, <1>4, <1>5, InsertOrdered
<1>8. UNCHANGED <<skip, alive, pc, cur, now>> /\ pc \in {"idle", "delegate"}
  BY Zenon DEF roundVars, CanCall
<1>9. TypeOK'
  BY <1>1, <1>5, <1>6, <1>8 DEF TypeOK, Touch
<1>10. Firing' = Firing /\ Firing \subseteq InMap /\ n \notin Firing
  BY <1>1, <1>2, <1>3, <1>8 DEF Firing, IteratorValid
<1>11. \A b \in Alarms \ {a} : token'[b] = token[b] /\ deadline'[b] = deadline[b]
  BY <1>1, <1>5 DEF TypeOK
<1>12. token'[a] = n /\ deadline'[a] = t
  BY <1>1, <1>5 DEF TypeOK
<1>13. \A b \in Alarms \ {a} : registered[b] =>
          /\ token[b] \in InMap \ Firing /\ token[b] # o
          /\ alarm_map.at[token[b]] = [key |-> deadline[b], cb |-> b]
  BY <1>1, <1>2 DEF TokensValid
<1>14. EntriesBelong'
  <2> SUFFICES ASSUME NEW x \in InMap' \ Firing'
               PROVE  LET b == alarm_map'.at[x].cb
                      IN  b \in alive' /\ registered'[b] /\ token'[b] = x
    BY Zenon DEF EntriesBelong
  <2>1. CASE x = n
    BY <2>1, <1>5, <1>6, <1>8, <1>12
  <2>2. CASE x # n
    <3>1. x \in InMap \ Firing /\ x # o /\ alarm_map'.at[x] = alarm_map.at[x]
      BY <2>2, <1>6, <1>10
    <3> DEFINE b == alarm_map.at[x].cb
    <3>2. b \in alive /\ registered[b] /\ token[b] = x /\ b \in Alarms
      BY Zenon, <3>1, <1>1 DEF EntriesBelong, TypeOK
    <3>3. b # a
      BY <3>1, <3>2 DEF o
    <3> QED BY <3>1, <3>2, <3>3, <1>5, <1>8, <1>11
  <2> QED BY <2>1, <2>2
<1>15. TokensValid'
  <2> SUFFICES ASSUME NEW b \in Alarms, registered'[b]
               PROVE  /\ token'[b] \in InMap' \ Firing'
                      /\ alarm_map'.at[token'[b]] = [key |-> deadline'[b], cb |-> b]
    BY DEF TokensValid
  <2>1. CASE b = a
    BY <2>1, <1>6, <1>10, <1>12
  <2>2. CASE b # a
    <3>1. /\ registered[b] /\ token'[b] = token[b] /\ deadline'[b] = deadline[b]
          /\ token[b] \in InMap \ Firing /\ token[b] # o
          /\ alarm_map.at[token[b]] = [key |-> deadline[b], cb |-> b]
      BY Zenon, <2>2, <1>5, <1>11, <1>13
    <3>2. alarm_map'.at[token[b]] = alarm_map.at[token[b]]
      BY <3>1, <1>6
    <3> QED BY <3>1, <3>2, <1>6, <1>10
  <2> QED BY <2>1, <2>2
<1>16. RegistrationAgrees'
  BY <1>1, <1>5, <1>8, <1>11, <1>12, AlarmQueueAssumption DEF RegistrationAgrees, Times, TypeOK
<1>17. IteratorValid' /\ RoundShape'
  BY <1>1, <1>2, <1>6, <1>8 DEF IteratorValid, RoundShape, Firing
<1>18. OwedAhead'
  <2>1. pc = "idle" => owed' = {}
    BY <1>1 DEF OwedAhead, Touch
  <2>2. ASSUME NEW b \in owed', pc = "delegate"
        PROVE  /\ registered'[b] /\ deadline'[b] <= now /\ cur # NoNode
               /\ token'[b] = cur \/ <<cur, token'[b]>> \in alarm_map'.before
    <3>1. b \in owed /\ b \in Alarms /\ b # a
      BY <1>1 DEF Touch, TypeOK
    <3>2. /\ registered[b] /\ deadline[b] <= now /\ cur # NoNode
          /\ token[b] = cur \/ <<cur, token[b]>> \in alarm_map.before
      BY <3>1, <1>1 DEF OwedAhead
    <3>3. cur \in InMap \ {o} /\ token[b] \in InMap \ {o}
      BY Zenon, <1>1, <1>2, <1>13, <2>2, <3>1, <3>2 DEF IteratorValid, Firing
    <3> QED BY <1>5, <1>6, <1>11, <3>1, <3>2, <3>3
  <2> QED BY <1>8, <2>1, <2>2 DEF OwedAhead
<1> QED
  BY <1>7, <1>9, <1>14, <1>15, <1>16, <1>17, <1>18 DEF IInv, QueueConsistent

\* Set, Cancel and Update of a QuicAlarm preserve the invariant.
LEMMA UseStep ==
  ASSUME IInv, NEW a \in Alarms, NEW t \in Times, Set(a, t) \/ Cancel(a) \/ Update(a, t)
  PROVE  IInv'
<1>1. CASE Set(a, t)
  BY Zenon, <1>1, SetIsRegistered, RegisterStep DEF Set
<1>2. CASE Cancel(a)
  <2>1. registered[a]
    BY <1>2, SetIsRegistered DEF Cancel
  <2> QED BY Zenon, <1>2, <2>1, UnregisterStep DEF Cancel, UnregisterIfRegistered
<1>3. CASE Update(a, t)
  <2>1. CASE deadline[a] # 0
    <3>1. registered[a]
      BY <1>3, <2>1, SetIsRegistered DEF Update
    <3> QED BY Zenon, <1>3, <2>1, <3>1, ReregisterStep DEF Update, UpdateImpl
  <2>2. CASE deadline[a] = 0
    <3>1. ~registered[a]
      BY <1>3, <2>2, SetIsRegistered DEF Update
    <3> QED BY Zenon, <1>3, <2>2, <3>1, RegisterStep DEF Update
  <2> QED BY <2>1, <2>2
<1> QED BY <1>1, <1>2, <1>3

\* A step that leaves the map alone leaves it in order.
LEMMA OrderKept ==
  ASSUME IInv, alarm_map' = alarm_map
  PROVE  MapOrdered(alarm_map)'
<1>1. MapOrdered(alarm_map)
  BY DEF IInv
<1> QED BY <1>1

\* The destructor of an alarm, registered or not, preserves the invariant.
LEMMA DestroyStep ==
  ASSUME IInv, NEW a \in Alarms, DestroyAlarm(a)
  PROVE  IInv'
<1>1. CASE registered[a]
  <2>1. pc # "down"
    BY Zenon, <1>1 DEF IInv, RoundShape, QueueConsistent, TokensValid
  <2> QED BY <1>1, <2>1, UnregisterStep DEF DestroyAlarm, UnregisterIfRegistered
<1>2. CASE ~registered[a]
  <2>1. /\ UNCHANGED <<alarm_map, all_alarms, registered, token, skip, deadline, pc, cur, now>>
        /\ alive' = alive \ {a} /\ owed' = owed \ {a}
    BY <1>2 DEF DestroyAlarm, UnregisterIfRegistered, Touch, roundVars
  <2>2. InMap' = InMap /\ Firing' = Firing
    BY <2>1 DEF InMap, Firing
  <2>3. /\ TypeOK' /\ MapOrdered(alarm_map)'
        /\ IteratorValid' /\ RoundShape' /\ OwedAhead'
    <3>1. TypeOK'
      BY <2>1, <2>2 DEF IInv, TypeOK, MapType
    <3>2. MapOrdered(alarm_map)'
      BY <2>1, OrderKept
    <3>3. IteratorValid' /\ RoundShape'
      BY <2>1, <2>2 DEF IInv, IteratorValid, RoundShape
    <3>4. OwedAhead'
      BY Zenon, <2>1 DEF IInv, OwedAhead
    <3> QED BY <3>1, <3>2, <3>3, <3>4
  <2>4. EntriesBelong' /\ TokensValid' /\ RegistrationAgrees'
    BY <1>2, <2>1, <2>2
       DEF IInv, QueueConsistent, EntriesBelong, TokensValid, RegistrationAgrees
  <2> QED BY <2>3, <2>4 DEF IInv, QueueConsistent
<1> QED BY <1>1, <1>2

\* A new alarm is not registered and has no deadline; an entry that is still
\* being fired may bear its address.
LEMMA CreateStep ==
  ASSUME IInv, NEW a \in Alarms, CreateAlarm(a)
  PROVE  IInv'
<1>1. ~registered[a]
  BY RegisteredHasEntry DEF CreateAlarm
<1>2. /\ UNCHANGED <<alarm_map, all_alarms, skip, pc, cur, now, owed>>
      /\ alive' = alive \cup {a}
      /\ registered' = [registered EXCEPT ![a] = FALSE]
      /\ token' = [token EXCEPT ![a] = NoNode]
      /\ deadline' = [deadline EXCEPT ![a] = 0]
  BY DEF CreateAlarm, mapVars, roundVars
<1>3. InMap' = InMap /\ Firing' = Firing
  BY Zenon, <1>2 DEF InMap, Firing
<1>4. TypeOK'
  BY <1>2, <1>3 DEF IInv, TypeOK, MapType
<1>5. registered' = registered
  BY <1>1, <1>2 DEF IInv, TypeOK
<1>6. \A b \in Alarms \ {a} : token'[b] = token[b] /\ deadline'[b] = deadline[b]
  BY Zenon, <1>2 DEF IInv, TypeOK
<1>7. EntriesBelong'
  <2> SUFFICES ASSUME NEW x \in InMap \ Firing
               PROVE  LET b == alarm_map.at[x].cb
                      IN  b \in alive' /\ registered[b] /\ token'[b] = x
    BY <1>2, <1>3, <1>5 DEF EntriesBelong
  <2>1. /\ alarm_map.at[x].cb \in alive /\ registered[alarm_map.at[x].cb]
        /\ token[alarm_map.at[x].cb] = x
    BY DEF IInv, QueueConsistent, EntriesBelong
  <2> QED BY <2>1, <1>1, <1>2, <1>6 DEF IInv, TypeOK
<1>8. TokensValid'
  BY <1>1, <1>2, <1>3, <1>5, <1>6 DEF IInv, QueueConsistent, TokensValid
<1>9. RegistrationAgrees'
  BY <1>1, <1>2, <1>5, <1>6 DEF IInv, TypeOK, QueueConsistent, RegistrationAgrees
<1>10. MapOrdered(alarm_map)' /\ IteratorValid' /\ RoundShape'
  <2>1. MapOrdered(alarm_map)'
    BY <1>2, OrderKept
  <2> QED BY <2>1, <1>2, <1>3 DEF IInv, IteratorValid, RoundShape
<1>11. OwedAhead'
  <2>1. ASSUME NEW b \in owed
        PROVE  registered'[b] /\ token'[b] = token[b] /\ deadline'[b] = deadline[b]
    <3>1. registered[b] /\ b \in Alarms
      BY Zenon DEF IInv, OwedAhead, TypeOK
    <3> QED BY <1>1, <1>5, <1>6, <3>1
  <2> QED BY <1>2, <2>1 DEF IInv, OwedAhead
<1> QED BY <1>4, <1>7, <1>8, <1>9, <1>10, <1>11 DEF IInv, QueueConsistent

\* CallTimeoutAlarms enters its loop at begin(), with everything that is due
\* at or behind it.
LEMMA BeginStep ==
  ASSUME IInv, NEW t \in Times, CallTimeoutAlarms(t)
  PROVE  IInv'
<1>1. /\ UNCHANGED <<alarm_map, all_alarms, skip, alive, registered, token, deadline>>
      /\ pc = "idle" /\ pc' = "scan" /\ now' = t
      /\ owed' = {a \in Alarms : registered[a] /\ deadline[a] <= t}
  BY DEF CallTimeoutAlarms, mapVars, alarmVars, Due
<1>2. PICK n \in InMap \cup {NoNode} : IsFront(n, InMap) /\ cur' = n
  BY DEF CallTimeoutAlarms
<1>3. InMap' = InMap /\ Firing' = {} /\ Firing = {} /\ InMap \subseteq Nodes
  BY <1>1 DEF InMap, Firing, IInv, TypeOK, MapType
<1>4. TypeOK'
  BY <1>1, <1>2, <1>3 DEF IInv, TypeOK, MapType, PCs
<1>5. EntriesBelong' /\ TokensValid' /\ RegistrationAgrees'
  BY Zenon, <1>1, <1>3 DEF IInv, QueueConsistent, EntriesBelong, TokensValid, RegistrationAgrees
<1>6. MapOrdered(alarm_map)' /\ IteratorValid' /\ RoundShape'
  BY <1>1, <1>2, <1>3 DEF IInv, MapOrdered, IteratorValid, RoundShape
<1>7. OwedAhead'
  <2> SUFFICES ASSUME NEW a \in owed'
               PROVE  /\ registered[a] /\ deadline[a] <= t
                      /\ n # NoNode
                      /\ token[a] = n \/ <<n, token[a]>> \in alarm_map.before
    BY <1>1, <1>2 DEF OwedAhead
  <2>1. a \in Alarms /\ registered[a] /\ deadline[a] <= t
    BY <1>1
  <2>2. token[a] \in InMap
    BY <2>1, RegisteredHasEntry
  <2>3. IsFirst(n, InMap)
    BY <1>2, <2>2 DEF IsFront
  <2>4. n # NoNode
    BY <2>3, <1>3, AlarmQueueAssumption DEF IsFirst
  <2> QED BY <2>1, <2>2, <2>3, <2>4 DEF IsFirst
<1> QED BY <1>4, <1>5, <1>6, <1>7 DEF IInv, QueueConsistent

\* Calling OnAlarm() of the alarm at the iterator preserves the invariant.
LEMMA VisitStep ==
  ASSUME IInv, Visit
  PROVE  IInv'
<1> DEFINE a == alarm_map.at[cur].cb
<1>1. /\ pc = "scan" /\ cur \in InMap /\ Firing = {}
      /\ a \in alive /\ registered[a] /\ token[a] = cur /\ a \in Alarms
      /\ deadline[a] # 0
  <2>1. pc = "scan" /\ cur \in InMap /\ Firing = {}
    BY DEF Visit, IInv, IteratorValid, Firing
  <2>2. a \in alive /\ registered[a] /\ token[a] = cur /\ a \in Alarms
    BY <2>1 DEF IInv, QueueConsistent, EntriesBelong, TypeOK
  <2>3. deadline[a] # 0
    BY Zenon, <2>1, <2>2 DEF IInv, QueueConsistent, RegistrationAgrees
  <2> QED BY <2>1, <2>2, <2>3
<1>2. /\ all_alarms' = all_alarms \ {a}
      /\ registered' = [registered EXCEPT ![a] = FALSE]
      /\ deadline' = [deadline EXCEPT ![a] = 0]
      /\ pc' = "delegate"
      /\ owed' = owed \ {a}
      /\ UNCHANGED <<alarm_map, skip, alive, token, cur, now>>
  BY <1>1 DEF Visit, IInv, RoundShape, Touch
<1>3. InMap' = InMap /\ Firing' = {cur}
  BY <1>2 DEF InMap, Firing
<1> HIDE DEF a
<1>4. \A b \in Alarms : registered'[b] <=> registered[b] /\ b # a
  BY <1>1, <1>2 DEF IInv, TypeOK
<1>5. \A b \in Alarms \ {a} : deadline'[b] = deadline[b]
  BY <1>2 DEF IInv, TypeOK
<1>6. TypeOK'
  BY Zenon, <1>2, <1>3 DEF IInv, TypeOK, MapType, PCs
<1>7. EntriesBelong'
  <2> SUFFICES ASSUME NEW x \in InMap \ {cur}
               PROVE  LET b == alarm_map.at[x].cb
                      IN  b \in alive /\ registered'[b] /\ token[b] = x
    BY <1>2, <1>3 DEF EntriesBelong
  <2>1. /\ alarm_map.at[x].cb \in alive /\ registered[alarm_map.at[x].cb]
        /\ token[alarm_map.at[x].cb] = x
    BY <1>1 DEF IInv, QueueConsistent, EntriesBelong
  <2> QED BY <2>1, <1>1, <1>4 DEF IInv, TypeOK
<1>8. TokensValid'
  <2> SUFFICES ASSUME NEW b \in Alarms, registered'[b]
               PROVE  /\ token[b] \in InMap \ {cur}
                      /\ alarm_map.at[token[b]] = [key |-> deadline'[b], cb |-> b]
    BY <1>2, <1>3 DEF TokensValid
  <2>1. registered[b] /\ b # a
    BY <1>4
  <2>2. token[b] \in InMap /\ alarm_map.at[token[b]] = [key |-> deadline[b], cb |-> b]
    BY <2>1 DEF IInv, QueueConsistent, TokensValid
  <2>3. token[b] # cur
    BY <2>1, RegisteredHasEntry DEF a
  <2> QED BY <2>1, <2>2, <2>3, <1>5
<1>9. RegistrationAgrees'
  BY <1>1, <1>2, <1>4, <1>5 DEF IInv, TypeOK, QueueConsistent, RegistrationAgrees
<1>10. MapOrdered(alarm_map)' /\ IteratorValid' /\ RoundShape'
  BY <1>1, <1>2, <1>3 DEF IInv, MapOrdered, IteratorValid, RoundShape
<1>11. OwedAhead'
  BY <1>1, <1>2, <1>4, <1>5 DEF IInv, TypeOK, OwedAhead
<1> QED BY Zenon, <1>6, <1>7, <1>8, <1>9, <1>10, <1>11 DEF IInv, QueueConsistent

\* When a callback returns, its entry is erased and the iterator moves to the
\* entry that follows it in the map as the callback left it.
LEMMA ReturnStep ==
  ASSUME IInv, CallbackReturns
  PROVE  IInv'
<1>1. /\ pc = "delegate" /\ pc' = "scan" /\ cur \in InMap /\ Firing = {cur}
      /\ alarm_map' = MapErase(alarm_map, cur)
      /\ UNCHANGED <<all_alarms, skip, registered, token, alive, deadline, now, owed>>
  BY DEF CallbackReturns, OnAlarmResult, IInv, RoundShape, IteratorValid, Firing
<1>2. PICK n \in InMap \cup {NoNode} : IsFront(n, After(cur)) /\ cur' = n
  BY DEF CallbackReturns, Advance
<1>3. /\ TypeOK /\ MapType(alarm_map) /\ MapOrdered(alarm_map)
      /\ EntriesBelong /\ TokensValid /\ RegistrationAgrees /\ OwedAhead
      /\ RoundShape /\ InMap \subseteq Nodes
  BY Zenon DEF IInv, QueueConsistent, TypeOK, MapType, InMap
<1>4. /\ InMap' = InMap \ {cur} /\ Firing' = {}
      /\ \A x \in InMap' : alarm_map'.at[x] = alarm_map.at[x]
      /\ \A x, y \in InMap' :
           <<x, y>> \in alarm_map'.before <=> <<x, y>> \in alarm_map.before
      /\ MapType(alarm_map')
  BY <1>1, <1>3, EraseFacts DEF InMap, Firing
<1>5. MapOrdered(alarm_map')
  BY <1>1, <1>3, EraseOrdered
<1>6. TypeOK'
  BY <1>1, <1>2, <1>3, <1>4 DEF TypeOK, PCs
<1>7. EntriesBelong'
  BY <1>1, <1>3, <1>4 DEF EntriesBelong
<1>8. TokensValid'
  BY <1>1, <1>3, <1>4 DEF TokensValid
<1>9. RegistrationAgrees'
  BY <1>1, <1>3 DEF RegistrationAgrees
<1>10. n = NoNode \/ n \in InMap \ {cur}
  <2>1. cur \notin After(cur)
    BY Zenon, <1>1, <1>3 DEF After, MapOrdered, InMap
  <2> QED BY <1>2, <2>1 DEF IsFront, IsFirst
<1>11. IteratorValid' /\ RoundShape'
  BY Zenon, <1>1, <1>2, <1>3, <1>4, <1>10 DEF IteratorValid, RoundShape
<1>12. OwedAhead'
  <2> SUFFICES ASSUME NEW b \in owed
               PROVE  /\ registered[b] /\ deadline[b] <= now /\ n # NoNode
                      /\ token[b] = n \/ <<n, token[b]>> \in alarm_map'.before
    BY <1>1, <1>2 DEF OwedAhead
  <2>1. /\ b \in Alarms /\ registered[b] /\ deadline[b] <= now
        /\ token[b] = cur \/ <<cur, token[b]>> \in alarm_map.before
    BY Zenon, <1>3 DEF OwedAhead, TypeOK
  <2>2. token[b] \in InMap \ {cur}
    BY <1>1, <2>1, RegisteredHasEntry
  <2>3. token[b] \in After(cur)
    BY <2>1, <2>2 DEF After
  <2>4. IsFirst(n, After(cur))
    BY <1>2, <2>3 DEF IsFront
  <2>5. n \in InMap \ {cur} /\ n # NoNode
    BY <1>3, <1>10, <2>4, AlarmQueueAssumption DEF IsFirst, After
  <2> QED BY <1>4, <2>1, <2>2, <2>3, <2>4, <2>5 DEF IsFirst
<1> QED BY <1>5, <1>6, <1>7, <1>8, <1>9, <1>11, <1>12 DEF IInv, QueueConsistent

\* A round ends at end() or at an entry that is not due; nothing that was owed
\* can lie there or beyond.
LEMMA EndStep ==
  ASSUME IInv, RoundEnds
  PROVE  IInv'
<1>1. /\ pc = "scan" /\ pc' = "idle" /\ cur' = NoNode /\ skip' = {}
      /\ cur # NoNode => alarm_map.at[cur].key > now
      /\ UNCHANGED <<alarm_map, all_alarms, alive, registered, token, deadline, now, owed>>
  BY DEF RoundEnds, alarmVars
<1>2. InMap' = InMap /\ Firing' = {} /\ Firing = {}
  BY Zenon, <1>1 DEF InMap, Firing
<1>3. owed = {}
  <2> SUFFICES ASSUME NEW b \in owed PROVE FALSE
    OBVIOUS
  <2>1. /\ b \in Alarms /\ registered[b] /\ deadline[b] <= now /\ cur # NoNode
        /\ token[b] = cur \/ <<cur, token[b]>> \in alarm_map.before
    BY Zenon DEF IInv, OwedAhead, TypeOK
  <2>2. token[b] \in InMap /\ alarm_map.at[token[b]].key = deadline[b] /\ cur \in InMap
    BY Zenon, <1>1, <2>1, RegisteredHasEntry DEF IInv, IteratorValid
  <2>3. alarm_map.at[cur].key <= deadline[b]
    BY <2>1, <2>2, AlarmQueueAssumption
       DEF IInv, MapOrdered, InMap, TypeOK, MapType, Entries, Times
  <2>4. alarm_map.at[cur].key \in Int /\ deadline[b] \in Int /\ now \in Int
    BY <2>1, <2>2, AlarmQueueAssumption DEF IInv, TypeOK, MapType, InMap, Entries, Times
  <2> QED BY <1>1, <2>1, <2>3, <2>4
<1>4. TypeOK'
  BY Zenon, <1>1, <1>2 DEF IInv, TypeOK, MapType, PCs
<1>5. EntriesBelong' /\ TokensValid' /\ RegistrationAgrees'
  BY Zenon, <1>1, <1>2 DEF IInv, QueueConsistent, EntriesBelong, TokensValid, RegistrationAgrees
<1>6. MapOrdered(alarm_map)' /\ IteratorValid' /\ RoundShape' /\ OwedAhead'
  <2>1. MapOrdered(alarm_map)'
    BY <1>1, OrderKept
  <2>2. OwedAhead'
    BY Zenon, <1>1, <1>3 DEF OwedAhead
  <2> QED BY <2>1, <2>2, <1>1, <1>2 DEF IInv, IteratorValid, RoundShape
<1> QED BY <1>4, <1>5, <1>6 DEF IInv, QueueConsistent

\* The destructor of the queue detaches every alarm that is still in the map.
LEMMA ShutdownStep ==
  ASSUME IInv, Shutdown
  PROVE  IInv'
<1>1. /\ pc = "idle" /\ pc' = "down" /\ alarm_map' = EmptyMap /\ all_alarms' = {}
      /\ UNCHANGED <<skip, alive, token, deadline, cur, now, owed>>
  BY DEF Shutdown
<1>2. DOMAIN EmptyMap.at = {} /\ EmptyMap.before = {}
  BY DEF EmptyMap
<1>3. MapType(alarm_map') /\ MapOrdered(alarm_map') /\ InMap' = {}
  BY <1>1, <1>2 DEF MapType, MapOrdered, InMap, EmptyMap
<1>4. registered' = [a \in Alarms |-> FALSE]
  <2>1. \A a \in Alarms : registered[a] => a \in {alarm_map.at[n].cb : n \in InMap}
    BY RegisteredHasEntry
  <2> QED BY Zenon, <2>1 DEF Shutdown
<1>5. TypeOK'
  BY <1>1, <1>3, <1>4 DEF IInv, TypeOK, PCs
<1> QED BY Zenon, <1>1, <1>3, <1>4, <1>5
  DEF IInv, QueueConsistent, EntriesBelong, TokensValid, RegistrationAgrees,
      IteratorValid, RoundShape, OwedAhead

\* A new queue starts as empty as the old one ended.
LEMMA StartupStep ==
  ASSUME IInv, Startup
  PROVE  IInv'
<1>1. /\ pc = "down" /\ pc' = "idle" /\ alive = {}
      /\ UNCHANGED <<alarm_map, all_alarms, skip, alive, registered, token, deadline,
                     cur, now, owed>>
  BY DEF Startup, mapVars, alarmVars
<1>2. InMap' = InMap /\ Firing' = {} /\ Firing = {}
  BY Zenon, <1>1 DEF InMap, Firing
<1>3. TypeOK'
  BY <1>1 DEF IInv, TypeOK, MapType, PCs
<1>4. MapOrdered(alarm_map)'
  BY Zenon, <1>1, OrderKept
<1>5. QueueConsistent'
  BY Zenon, <1>1, <1>2 DEF IInv, QueueConsistent, EntriesBelong, TokensValid, RegistrationAgrees
<1>6. IteratorValid' /\ RoundShape' /\ OwedAhead'
  BY Zenon, <1>1, <1>2 DEF IInv, IteratorValid, RoundShape, OwedAhead
<1> QED BY <1>3, <1>4, <1>5, <1>6 DEF IInv

\* The empty queue of a new stack satisfies the invariant.
LEMMA InitIInv == Init => IInv
<1> SUFFICES ASSUME Init PROVE IInv
  OBVIOUS
<1>1. DOMAIN alarm_map.at = {} /\ alarm_map.before = {} /\ InMap = {}
  BY DEF Init, EmptyMap, InMap
<1>2. MapType(alarm_map) /\ MapOrdered(alarm_map)
  BY <1>1 DEF MapType, MapOrdered, Init, EmptyMap
<1>3. TypeOK
  BY <1>2 DEF Init, TypeOK, PCs
<1> QED BY <1>1, <1>2, <1>3
  DEF Init, IInv, QueueConsistent, EntriesBelong, TokensValid, RegistrationAgrees,
      IteratorValid, RoundShape, OwedAhead

\* Every step of the queue and of its users preserves the invariant.
LEMMA NextIInv == IInv /\ [Next]_vars => IInv'
<1> SUFFICES ASSUME IInv, [Next]_vars PROVE IInv'
  OBVIOUS
<1>1. CASE UNCHANGED vars
  <2>1. /\ UNCHANGED <<alarm_map, all_alarms, skip, alive, registered, token, deadline,
                       pc, cur, now, owed>>
        /\ InMap' = InMap /\ Firing' = Firing
    BY <1>1 DEF vars, mapVars, alarmVars, roundVars, InMap, Firing
  <2>2. TypeOK' /\ MapOrdered(alarm_map)'
    <3>1. TypeOK'
      BY <2>1 DEF IInv, TypeOK, MapType
    <3>2. MapOrdered(alarm_map)'
      BY Zenon, <2>1, OrderKept
    <3> QED BY Zenon, <3>1, <3>2
  <2>3. EntriesBelong' /\ TokensValid'
    BY SMTT(30), <2>1 DEF IInv, QueueConsistent, EntriesBelong, TokensValid
  <2>4. RegistrationAgrees' /\ IteratorValid'
    BY <2>1 DEF IInv, QueueConsistent, RegistrationAgrees, IteratorValid
  <2>5. RoundShape' /\ OwedAhead'
    BY <2>1 DEF IInv, RoundShape, OwedAhead
  <2> QED BY <2>2, <2>3, <2>4, <2>5 DEF IInv, QueueConsistent
<1>2. ASSUME NEW a \in Alarms, CreateAlarm(a) \/ DestroyAlarm(a) PROVE IInv'
  BY <1>2, CreateStep, DestroyStep
<1>3. ASSUME NEW a \in Alarms, Cancel(a) PROVE IInv'
  <2>1. deadline[a] \in Times
    BY <1>3 DEF Cancel, IInv, TypeOK
  <2> QED BY <1>3, <2>1, UseStep
<1>4. ASSUME NEW a \in Alarms, NEW t \in Times, Set(a, t) \/ Update(a, t) PROVE IInv'
  BY <1>4, UseStep
<1>5. CASE \E t \in Times : CallTimeoutAlarms(t)
  BY <1>5, BeginStep
<1>6. CASE Visit \/ CallbackReturns \/ RoundEnds
  BY <1>6, VisitStep, ReturnStep, EndStep
<1>7. CASE Shutdown \/ Startup
  BY <1>7, ShutdownStep, StartupStep
<1> QED BY <1>1, <1>2, <1>3, <1>4, <1>5, <1>6, <1>7 DEF Next

\* Every reachable state of the alarm queue satisfies the invariant.
THEOREM QueueInvariant == Spec => []IInv
  BY InitIInv, NextIInv, PTL DEF Spec

\* Whatever the callbacks of alarms do to the queue that is firing them, every
\* variable keeps its type, every entry belongs to a live registered alarm,
\* every token is valid, and all_alarms_ agrees.
THEOREM QueueIsConsistent == Spec => [](TypeOK /\ QueueConsistent)
<1>1. IInv => TypeOK /\ QueueConsistent
  BY DEF IInv
<1> QED BY <1>1, QueueInvariant, PTL

\* The iterator with which CallTimeoutAlarms walks the map is never invalid.
THEOREM IteratorStaysValid == Spec => []IteratorValid
<1>1. IInv => IteratorValid
  BY DEF IInv
<1> QED BY <1>1, QueueInvariant, PTL

\* A round of CallTimeoutAlarms fires every alarm due at its start that no
\* callback cancelled, moved or destroyed.
THEOREM RoundsAreComplete == Spec => []RoundComplete
<1>1. IInv => RoundComplete
  BY DEF IInv, OwedAhead, RoundComplete
<1> QED BY <1>1, QueueInvariant, PTL

\* Alarms that outlive the queue do not believe to be registered with it.
THEOREM ShutdownIsClean == Spec => []ShutdownDetaches
<1>1. IInv => ShutdownDetaches
  BY Zenon DEF IInv, RoundShape, QueueConsistent, TokensValid, ShutdownDetaches
<1> QED BY <1>1, QueueInvariant, PTL

(***************************************************************************)
(* The queue implements AlarmService.                                      *)
(***************************************************************************)

ArmedByDeadline ==
  Armed = [a \in Alarms |-> IF registered[a] THEN deadline[a] ELSE 0]

\* In a consistent state the deadline the queue holds is the alarm's own, and
\* so it is after a step.
LEMMA ArmedIsDeadline == (IInv => ArmedByDeadline) /\ (IInv' => ArmedByDeadline')
<1>1. IInv => ArmedByDeadline
  <2> SUFFICES ASSUME IInv, NEW a \in Alarms
               PROVE  Armed[a] = IF registered[a] THEN deadline[a] ELSE 0
    BY DEF Armed, ArmedByDeadline
  <2>1. CASE registered[a]
    <3>1. a \in alive /\ pc # "down"
      BY <2>1, RegisteredHasEntry DEF IInv, RoundShape
    <3> QED BY <2>1, <3>1 DEF Armed
  <2>2. CASE ~registered[a]
    BY <2>2 DEF Armed, IInv, QueueConsistent, RegistrationAgrees
  <2> QED BY <2>1, <2>2
<1> QED BY <1>1, PTL

\* While a callback runs, its alarm is the one running; no alarm is NoNode.
LEMMA RunningIsFiring ==
  ASSUME IInv
  PROVE  /\ pc # "delegate" => Running = NoNode
         /\ pc = "delegate" => Running = alarm_map.at[cur].cb /\ Running # NoNode
<1>1. ASSUME pc = "delegate" PROVE alarm_map.at[cur].cb \in Alarms
  BY Zenon, <1>1 DEF IInv, IteratorValid, TypeOK, MapType, InMap, Entries
<1> QED BY <1>1, AlarmQueueAssumption DEF Running

\* Registering from within a delegate leaves the entry being fired alone.
LEMMA RegisterKeepsFiring ==
  ASSUME IInv, NEW a \in alive, NEW t \in Times, CanCall, ~registered[a],
         RegisterAlarm(alarm_map, t, a)
  PROVE  /\ registered' = [registered EXCEPT ![a] = TRUE]
         /\ pc = "delegate" => alarm_map'.at[cur] = alarm_map.at[cur]
<1>1. a \in Alarms /\ a \notin all_alarms
  BY SetIsRegistered
<1>2. PICK n \in Nodes \ DOMAIN alarm_map.at :
         /\ alarm_map' = MapInsert(alarm_map, n, t, a)
         /\ registered' = [registered EXCEPT ![a] = TRUE]
  BY <1>1 DEF RegisterAlarm
<1>3. pc = "delegate" => cur \in DOMAIN alarm_map.at
  BY Zenon DEF IInv, IteratorValid, InMap
<1> QED BY <1>2, <1>3 DEF MapInsert

\* Erasing another entry (UnregisterAlarm) leaves the one being fired alone.
LEMMA UnregisterKeepsFiring ==
  ASSUME IInv, NEW a \in Alarms, registered[a], UnregisterAlarm(token[a])
  PROVE  /\ registered' = [registered EXCEPT ![a] = FALSE]
         /\ pc = "delegate" => alarm_map'.at[cur] = alarm_map.at[cur]
<1>1. token[a] \in InMap \ Firing /\ alarm_map.at[token[a]].cb = a
  BY RegisteredHasEntry
<1>2. pc = "delegate" => cur \in DOMAIN alarm_map.at \ {token[a]}
  BY Zenon, <1>1 DEF IInv, IteratorValid, InMap, Firing
<1> QED BY <1>1, <1>2 DEF UnregisterAlarm, MapErase

\* Moving an entry (ReregisterAlarm) leaves the one being fired alone.
LEMMA ReregisterKeepsFiring ==
  ASSUME IInv, NEW a \in Alarms, NEW t \in Times, registered[a], ReregisterAlarm(a, t)
  PROVE  /\ registered' = registered
         /\ pc = "delegate" => alarm_map'.at[cur] = alarm_map.at[cur]
<1>1. token[a] \in InMap \ Firing /\ alarm_map.at[token[a]].cb = a
  BY RegisteredHasEntry
<1> DEFINE m == MapErase(alarm_map, token[a])
<1>2. pc = "delegate" => cur \in DOMAIN m.at /\ m.at[cur] = alarm_map.at[cur]
  BY Zenon, <1>1 DEF IInv, IteratorValid, InMap, Firing, MapErase
<1>3. PICK n \in Nodes \ DOMAIN m.at : alarm_map' = MapInsert(m, n, t, a)
  BY Zenon, <1>1 DEF ReregisterAlarm
<1> HIDE DEF m
<1>4. pc = "delegate" => alarm_map'.at[cur] = alarm_map.at[cur]
  BY Zenon, <1>2, <1>3 DEF MapInsert
<1> QED BY Zenon, <1>4 DEF ReregisterAlarm

\* What a user's step does to the deadline the queue holds for the alarm, and
\* to the alarm whose delegate runs.
LEMMA UseEffect ==
  ASSUME IInv, NEW a \in Alarms, NEW t \in Times,
         Set(a, t) \/ Update(a, t)
  PROVE  /\ registered' = [registered EXCEPT ![a] = TRUE]
         /\ deadline' = [deadline EXCEPT ![a] = t]
         /\ UNCHANGED <<pc, cur, now>>
         /\ pc = "delegate" => alarm_map'.at[cur] = alarm_map.at[cur]
<1>1. UNCHANGED <<pc, cur, now>> /\ deadline' = [deadline EXCEPT ![a] = t] /\ CanCall /\ a \in alive
  BY DEF Set, Update, roundVars
<1>2. registered[a] <=> deadline[a] # 0
  BY Zenon, <1>1, SetIsRegistered
<1>3. CASE ~registered[a]
  <2>1. RegisterAlarm(alarm_map, t, a)
    BY <1>2, <1>3 DEF Set, Update
  <2> QED BY Zenon, <1>1, <1>3, <2>1, RegisterKeepsFiring
<1>4. CASE registered[a]
  <2>1. ReregisterAlarm(a, t)
    BY <1>2, <1>4 DEF Set, Update, UpdateImpl
  <2>2. registered' = registered /\ (pc = "delegate" => alarm_map'.at[cur] = alarm_map.at[cur])
    BY Zenon, <1>4, <2>1, ReregisterKeepsFiring
  <2>3. registered' = [registered EXCEPT ![a] = TRUE]
    BY <1>4, <2>2 DEF IInv, TypeOK
  <2> QED BY Zenon, <1>1, <2>2, <2>3
<1> QED BY SMTT(30), <1>3, <1>4

\* Set and Update arm the alarm in AlarmService.
LEMMA ArmRefines ==
  ASSUME IInv, IInv', NEW a \in Alarms, NEW t \in Times, Set(a, t) \/ Update(a, t)
  PROVE  Service!Next
<1>1. /\ registered' = [registered EXCEPT ![a] = TRUE]
      /\ deadline' = [deadline EXCEPT ![a] = t]
      /\ UNCHANGED <<pc, cur, now>>
      /\ pc = "delegate" => alarm_map'.at[cur] = alarm_map.at[cur]
  BY UseEffect
<1>2. Running' = Running
  BY Zenon, <1>1 DEF Running
<1>3. /\ Armed = [b \in Alarms |-> IF registered[b] THEN deadline[b] ELSE 0]
      /\ Armed' = [b \in Alarms |-> IF registered'[b] THEN deadline'[b] ELSE 0]
  BY Zenon, ArmedIsDeadline DEF ArmedByDeadline
<1>4. Armed' = [Armed EXCEPT ![a] = t]
  BY Zenon, <1>1, <1>3 DEF IInv, TypeOK
<1>5. Service!Arm(a, t)
  BY <1>1, <1>2, <1>4 DEF Service!Arm
<1> QED BY Zenon, <1>5 DEF Service!Next, Times

\* Cancel disarms the alarm, the destructor too if it was armed, and a new
\* alarm is not armed.
LEMMA DisarmRefines ==
  ASSUME IInv, IInv', NEW a \in Alarms, Cancel(a) \/ DestroyAlarm(a) \/ CreateAlarm(a)
  PROVE  Service!Next \/ UNCHANGED Service!serviceVars
<1>1. UNCHANGED <<pc, cur, now>>
  BY Zenon DEF CreateAlarm, DestroyAlarm, Cancel, roundVars
<1>2. /\ Armed = [b \in Alarms |-> IF registered[b] THEN deadline[b] ELSE 0]
      /\ Armed' = [b \in Alarms |-> IF registered'[b] THEN deadline'[b] ELSE 0]
  BY ArmedIsDeadline DEF ArmedByDeadline
<1>3. CASE registered[a]
  <2>1. a \in alive /\ deadline[a] # 0
    <3>1. a \in alive
      BY <1>3, RegisteredHasEntry
    <3>2. pc # "down"
      BY Zenon, <1>3, RegisteredHasEntry DEF IInv, RoundShape
    <3> QED BY Zenon, <1>3, <3>1, <3>2 DEF IInv, QueueConsistent, RegistrationAgrees
  <2>2. UnregisterAlarm(token[a]) /\ \A b \in Alarms \ {a} : deadline'[b] = deadline[b]
    BY <1>3, <2>1 DEF Cancel, DestroyAlarm, CreateAlarm, UnregisterIfRegistered, IInv, TypeOK
  <2>3. /\ registered' = [registered EXCEPT ![a] = FALSE]
        /\ pc = "delegate" => alarm_map'.at[cur] = alarm_map.at[cur]
    BY Zenon, <1>3, <2>2, UnregisterKeepsFiring
  <2>4. Running' = Running
    BY Zenon, <1>1, <2>3 DEF Running
  <2>5. Armed[a] # 0 /\ Armed' = [Armed EXCEPT ![a] = 0]
    BY <1>2, <1>3, <2>1, <2>2, <2>3 DEF IInv, TypeOK
  <2>6. Service!Disarm(a)
    BY <1>1, <2>4, <2>5 DEF Service!Disarm
  <2> QED BY Zenon, <2>6 DEF Service!Next
<1>4. CASE ~registered[a]
  <2>1. alarm_map' = alarm_map /\ registered' = registered
    <3>1. CASE Cancel(a)
      BY Zenon, <1>4, <3>1 DEF Cancel, UnregisterIfRegistered
    <3>2. CASE DestroyAlarm(a)
      BY Zenon, <1>4, <3>2 DEF DestroyAlarm, UnregisterIfRegistered
    <3>3. CASE CreateAlarm(a)
      BY Zenon, <1>4, <3>3 DEF CreateAlarm, mapVars, IInv, TypeOK
    <3> QED BY <3>1, <3>2, <3>3
  <2>2. \A b \in Alarms \ {a} : deadline'[b] = deadline[b]
    BY DEF Cancel, DestroyAlarm, CreateAlarm, IInv, TypeOK
  <2>3. Armed' = Armed
    BY <1>2, <1>4, <2>1, <2>2
  <2>4. Running' = Running
    BY Zenon, <1>1, <2>1 DEF Running
  <2> QED BY <1>1, <2>3, <2>4 DEF Service!serviceVars
<1> QED BY <1>3, <1>4

\* A visit of an entry fires its alarm in AlarmService, in time.
LEMMA VisitRefines ==
  ASSUME IInv, IInv', Visit
  PROVE  Service!Next
<1> DEFINE a == alarm_map.at[cur].cb
<1>1. /\ pc = "scan" /\ cur \in InMap /\ a \in Alarms /\ registered[a] /\ token[a] = cur
      /\ alarm_map.at[cur].key <= now /\ alarm_map.at[cur].key \in Times
  BY Zenon DEF Visit, IInv, IteratorValid, QueueConsistent, EntriesBelong, TypeOK, MapType, InMap,
         Firing, Entries
<1>2. deadline[a] = alarm_map.at[cur].key /\ deadline[a] # 0
  <2>1. deadline[a] = alarm_map.at[cur].key
    BY Zenon, <1>1, RegisteredHasEntry
  <2> QED BY <1>1, <2>1, AlarmQueueAssumption DEF Times
<1>3. /\ registered' = [registered EXCEPT ![a] = FALSE]
      /\ deadline' = [deadline EXCEPT ![a] = 0]
      /\ pc' = "delegate"
      /\ UNCHANGED <<alarm_map, cur, now>>
  BY Zenon, <1>2 DEF Visit, IInv, RoundShape
<1>4. Running = NoNode /\ Running' = a
  BY Zenon, <1>1, <1>3 DEF Running
<1>5. /\ Armed = [b \in Alarms |-> IF registered[b] THEN deadline[b] ELSE 0]
      /\ Armed' = [b \in Alarms |-> IF registered'[b] THEN deadline'[b] ELSE 0]
  BY Zenon, ArmedIsDeadline DEF ArmedByDeadline
<1>6. Armed[a] \in 1..now
  <2>1. Armed[a] = deadline[a]
    BY <1>1, <1>5
  <2>2. now \in Nat /\ deadline[a] \in Nat
    <3>1. now \in Times \cup {0}
      BY DEF IInv, TypeOK
    <3>2. deadline[a] \in Times
      BY <1>1, <1>2
    <3> QED BY <3>1, <3>2, AlarmQueueAssumption DEF Times
  <2> QED BY SMTT(30), <1>1, <1>2, <2>1, <2>2
<1>7. Armed' = [Armed EXCEPT ![a] = 0]
  BY Zenon, <1>1, <1>3, <1>5 DEF IInv, TypeOK
<1>8. Service!Fire(a)
  BY <1>3, <1>4, <1>6, <1>7 DEF Service!Fire
<1> QED BY <1>1, <1>8 DEF Service!Next

\* The return of a callback is Return; the other steps of a round do nothing
\* in AlarmService but set its time, and the destructor disarms every alarm.
LEMMA RoundRefines ==
  ASSUME IInv, IInv',
         \/ \E t \in Times : CallTimeoutAlarms(t)
         \/ CallbackReturns \/ RoundEnds \/ Shutdown \/ Startup
  PROVE  Service!Next \/ UNCHANGED Service!serviceVars
<1>1. /\ Armed = [b \in Alarms |-> IF registered[b] THEN deadline[b] ELSE 0]
      /\ Armed' = [b \in Alarms |-> IF registered'[b] THEN deadline'[b] ELSE 0]
  BY ArmedIsDeadline DEF ArmedByDeadline
<1>2. ASSUME NEW t \in Times, CallTimeoutAlarms(t)
      PROVE  Service!Next
  <2>1. /\ pc = "idle" /\ pc' = "scan" /\ now' = t /\ UNCHANGED <<registered, deadline>>
    BY <1>2 DEF CallTimeoutAlarms, alarmVars
  <2>2. Running = NoNode /\ Running' = NoNode /\ Armed' = Armed
    BY <1>1, <2>1 DEF Running
  <2>3. Service!BeginRound(t)
    BY <2>1, <2>2 DEF Service!BeginRound
  <2> QED BY <2>3 DEF Service!Next, Times
<1>3. CASE CallbackReturns
  <2>1. /\ pc = "delegate" /\ pc' = "scan" /\ UNCHANGED <<registered, deadline, now>>
    BY SMTT(30), <1>3 DEF CallbackReturns, OnAlarmResult, IInv, RoundShape
  <2>2. Running # NoNode /\ Running' = NoNode /\ Armed' = Armed
    BY <1>1, <2>1, RunningIsFiring DEF Running
  <2>3. Service!Return
    BY <2>1, <2>2 DEF Service!Return
  <2> QED BY Zenon, <2>3 DEF Service!Next
<1>4. CASE RoundEnds \/ Startup
  <2>1. /\ pc # "delegate" /\ pc' # "delegate" /\ UNCHANGED <<registered, deadline, now>>
    BY Zenon, <1>4 DEF RoundEnds, Startup, alarmVars
  <2>2. UNCHANGED <<Running, Armed, now>>
    BY <1>1, <2>1 DEF Running
  <2> QED BY Zenon, <2>2 DEF Service!serviceVars
<1>5. CASE Shutdown
  <2>1. pc = "idle" /\ pc' = "down" /\ now' = now
    BY Zenon, <1>5 DEF Shutdown
  <2>2. \A b \in Alarms : ~registered'[b]
    BY Zenon, <1>5, RegisteredHasEntry DEF Shutdown
  <2>3. Running = NoNode /\ Running' = NoNode /\ Armed' = [b \in Alarms |-> 0]
    BY <1>1, <2>1, <2>2 DEF Running
  <2>4. Service!DisarmAll
    BY <2>1, <2>3 DEF Service!DisarmAll
  <2> QED BY <2>4 DEF Service!Next
<1> QED BY <1>2, <1>3, <1>4, <1>5

\* The queue implements AlarmService: a delegate runs at most once for each
\* deadline its alarm was given, not before it, and never for a deadline that
\* was cancelled, replaced or dropped with the alarm.
THEOREM QueueImplementsService == Spec => ImplementsService
<1>1. Init => Service!Init
  BY DEF Init, Service!Init, Armed, Running
<1>2. IInv /\ IInv' /\ [Next]_vars => [Service!Next]_(Service!serviceVars)
  <2> SUFFICES ASSUME IInv, IInv', [Next]_vars
               PROVE  Service!Next \/ UNCHANGED Service!serviceVars
    OBVIOUS
  <2>1. CASE UNCHANGED vars
    BY <2>1 DEF vars, mapVars, alarmVars, roundVars, Service!serviceVars, Armed, Running
  <2>2. ASSUME NEW a \in Alarms, CreateAlarm(a) \/ DestroyAlarm(a) \/ Cancel(a)
        PROVE  Service!Next \/ UNCHANGED Service!serviceVars
    BY <2>2, DisarmRefines
  <2>3. ASSUME NEW a \in Alarms, NEW t \in Times, Set(a, t) \/ Update(a, t)
        PROVE  Service!Next
    BY <2>3, ArmRefines
  <2>4. CASE Visit
    BY <2>4, VisitRefines
  <2>5. CASE \/ \E t \in Times : CallTimeoutAlarms(t)
             \/ CallbackReturns \/ RoundEnds \/ Shutdown \/ Startup
    BY <2>5, RoundRefines
  <2> QED BY <2>1, <2>2, <2>3, <2>4, <2>5 DEF Next
<1> QED BY <1>1, <1>2, QueueInvariant, PTL DEF Spec, ImplementsService, Service!Spec

(***************************************************************************)
(* The event loop around the queue, for any resolution of the server's     *)
(* clock: each of its steps is a step of the queue, so that the theorems   *)
(* above hold of it, and the wake-up time is never past a deadline.        *)
(***************************************************************************)

(***************************************************************************)
(* Milliseconds.                                                           *)
(***************************************************************************)
LEMMA Milliseconds ==
  ASSUME NEW a \in Nat, NEW b \in Nat, a <= b
  PROVE  /\ a \div UsPerMs \in Nat
         /\ a \div UsPerMs <= b \div UsPerMs
         /\ UsPerMs <= a => 1 <= a \div UsPerMs
         /\ (a \div UsPerMs) * UsPerMs <= a
         /\ 1 <= a \div UsPerMs => UsPerMs <= (a \div UsPerMs) * UsPerMs
  <1> DEFINE u == UsPerMs
  <1>1. u \in Nat \ {0}
    BY AlarmLoopAssumption
  <1> HIDE DEF u
  <1>2. a \div u \in Nat
    BY <1>1
  <1>3. a \div u <= b \div u
    BY <1>1
  <1>4. u <= a => 1 <= a \div u
    BY <1>1
  <1>5. (a \div u) * u <= a
    BY <1>1
  <1>6. \A d \in Nat : 1 <= d => u <= d * u
    BY <1>1
  <1> QED BY Zenon, <1>2, <1>3, <1>4, <1>5, <1>6 DEF u

(***************************************************************************)
(* The inductive invariant: nothing in the map is due in the first         *)
(* millisecond, which the answer 0 of quic_stack_next_alarm_time stands    *)
(* for.                                                                    *)
(***************************************************************************)
KeysLate(m) == \A n \in DOMAIN m.at : m.at[n].key >= UsPerMs

LoopInv ==
  /\ IInv
  /\ clock \in 0..MaxTime
  /\ KeysLate(alarm_map)

\* A finite set with a strict order has a first element: one with as little as
\* possible before it.
LEMMA OrderHasFirst ==
  ASSUME NEW S, NEW before, S # {}, IsFiniteSet(S),
         \A x, y \in S : x # y => (<<x, y>> \in before <=> <<y, x>> \notin before),
         \A x \in S : <<x, x>> \notin before,
         \A x, y, z \in S : <<x, y>> \in before /\ <<y, z>> \in before => <<x, z>> \in before
  PROVE  \E x \in S : \A y \in S \ {x} : <<x, y>> \in before
  <1> DEFINE Below(x) == {y \in S : <<y, x>> \in before}
             belows == {Below(x) : x \in S}
  <1>1. IsWellFoundedOn(StrictSubsetOrdering(S), SUBSET S)
    <2>1. FiniteSubsetsOf(S) = SUBSET S
      BY Zenon, FS_FiniteSubsetsOfFinite
    <2>2. IsWellFoundedOn(StrictSubsetOrdering(S), FiniteSubsetsOf(S))
      BY ONLY FS_StrictSubsetOrderingWellFounded
    <2> QED BY ONLY <2>1, <2>2, Zenon
  <1>2. belows \subseteq SUBSET S /\ belows # {}
    <2>1. \A x \in S : Below(x) \subseteq S
      OBVIOUS
    <2> HIDE DEF Below
    <2>2. belows # {}
      <3>1. PICK x \in S : TRUE
        OBVIOUS
      <3>2. Below(x) \in belows
        BY Zenon
      <3> QED BY Zenon, <3>2
    <2>3. \A c \in belows : c \subseteq S
      BY <2>1
    <2> HIDE DEF belows
    <2> QED BY <2>2, <2>3
  <1> HIDE DEF belows
  <1>3. PICK b \in belows : \A c \in belows : ~(<<c, b>> \in StrictSubsetOrdering(S))
    BY Zenon, <1>1, <1>2, WFMin
  <1>4. PICK x \in S : b = Below(x)
    BY Zenon, <1>3 DEF belows
  <1>5. ASSUME NEW y \in S \ {x}, <<x, y>> \notin before PROVE FALSE
    <2>1. <<y, x>> \in before
      BY Zenon, <1>5
    <2>2. /\ Below(y) \in SUBSET S /\ Below(x) \in SUBSET S
          /\ Below(y) \subseteq Below(x) /\ y \in Below(x) /\ y \notin Below(y)
      BY <1>5, <2>1
    <2> HIDE DEF Below
    <2>3. Below(y) \in belows
      <3>1. y \in S
        BY Zenon, <1>5
      <3> QED BY Zenon, <3>1 DEF belows
    <2>4. <<Below(y), b>> \in StrictSubsetOrdering(S)
      BY <1>4, <2>2 DEF StrictSubsetOrdering
    <2> QED BY Zenon, <1>3, <2>3, <2>4
  <1> QED BY Zenon, <1>5

\* The map has a first entry (begin), unless it is empty.
LEMMA MapHasFirst ==
  ASSUME IInv, InMap # {}
  PROVE  \E n \in InMap : IsFirst(n, InMap)
  <1>1. IsFiniteSet(InMap)
    <2>1. InMap \in SUBSET Nodes
      BY DEF IInv, TypeOK, MapType, InMap
    <2> QED BY <2>1, AlarmLoopAssumption, FS_Subset
  <1>2. /\ \A x, y \in InMap : x # y => (<<x, y>> \in alarm_map.before <=> <<y, x>> \notin alarm_map.before)
        /\ \A x \in InMap : <<x, x>> \notin alarm_map.before
        /\ \A x, y, z \in InMap :
             <<x, y>> \in alarm_map.before /\ <<y, z>> \in alarm_map.before => <<x, z>> \in alarm_map.before
    BY Zenon DEF IInv, MapOrdered, InMap
  <1>3. \E x \in InMap : \A y \in InMap \ {x} : <<x, y>> \in alarm_map.before
    BY Zenon, <1>1, <1>2, OrderHasFirst
  <1> QED BY <1>3 DEF IsFirst

\* NextAlarmTimeInUs is the earliest deadline in the map.
LEMMA NextIsEarliest ==
  ASSUME LoopInv
  PROVE  /\ NextAlarmTimeInUs \in Nat
         /\ InMap = {} => NextAlarmTimeInUs = 0
         /\ \A n \in InMap : NextAlarmTimeInUs \in UsPerMs..alarm_map.at[n].key
  <1>1. CASE InMap = {}
    BY <1>1 DEF NextAlarmTimeInUs
  <1>2. CASE InMap # {}
    <2> DEFINE f == CHOOSE n \in InMap : IsFirst(n, InMap)
    <2>1. f \in InMap /\ IsFirst(f, InMap)
      <3>1. \E n \in InMap : IsFirst(n, InMap)
        BY <1>2, MapHasFirst DEF LoopInv
      <3> QED BY Zenon, <3>1
    <2>2. NextAlarmTimeInUs = alarm_map.at[f].key
      BY Zenon, <1>2 DEF NextAlarmTimeInUs
    <2> HIDE DEF f
    <2>3. \A n \in InMap : alarm_map.at[n].key \in Nat /\ alarm_map.at[n].key >= UsPerMs
      BY AlarmQueueAssumption DEF LoopInv, IInv, TypeOK, MapType, InMap, Entries, Times, KeysLate
    <2>4. \A n \in InMap : alarm_map.at[f].key <= alarm_map.at[n].key
      <3> SUFFICES ASSUME NEW n \in InMap PROVE alarm_map.at[f].key <= alarm_map.at[n].key
        OBVIOUS
      <3>1. CASE n = f
        BY <2>1, <2>3, <3>1
      <3>2. CASE n # f
        BY Zenon, <2>1, <3>2 DEF LoopInv, IInv, MapOrdered, IsFirst, InMap
      <3> QED BY <3>1, <3>2
    <2> QED BY <1>2, <2>1, <2>2, <2>3, <2>4, AlarmLoopAssumption
  <1> QED BY <1>1, <1>2

\* The round that OnAlarmTimeout begins is one the queue allows.
LEMMA TimeoutIsRound ==
  ASSUME LoopInv, OnAlarmTimeout
  PROVE  \E t \in Times : CallTimeoutAlarms(t)
  <1>1. clock \in Nat /\ clock <= MaxTime /\ MaxTime \in Nat
    BY AlarmQueueAssumption DEF LoopInv
  <1>2. NextAlarmTime \in Nat
    BY NextIsEarliest, Milliseconds DEF NextAlarmTime
  <1>3. ClockMs \in Nat /\ ClockMs * UsPerMs <= clock /\ (1 <= ClockMs => UsPerMs <= ClockMs * UsPerMs)
    BY <1>1, Milliseconds DEF ClockMs
  <1>4. 1 <= ClockMs /\ CallTimeoutAlarms(ClockMs * UsPerMs)
    BY <1>2, <1>3 DEF OnAlarmTimeout
  <1>5. ClockMs * UsPerMs \in Nat
    BY <1>3, AlarmLoopAssumption
  <1>6. ClockMs * UsPerMs \in Times
    BY <1>1, <1>3, <1>4, <1>5, AlarmLoopAssumption DEF Times
  <1> QED BY <1>4, <1>6

\* Every step of the loop is a step of the queue or leaves it alone.
LEMMA LoopStepIsQueueStep ==
  ASSUME LoopInv, [LoopNext]_loopVars
  PROVE  [Next]_vars
  <1>1. CASE UseAlarms
    BY Zenon, <1>1 DEF UseAlarms, Next
  <1>2. CASE OnAlarmTimeout
    BY Zenon, <1>2, TimeoutIsRound DEF Next
  <1>3. CASE RoundStep
    BY Zenon, <1>3 DEF RoundStep, Next
  <1>4. CASE Tick \/ UNCHANGED loopVars
    BY Zenon, <1>4 DEF Tick, loopVars
  <1> QED BY Zenon, <1>1, <1>2, <1>3, <1>4 DEF LoopNext

\* Inserting a late key, and erasing, keep the keys late.
LEMMA InsertKeepsLate ==
  ASSUME NEW m, MapType(m), KeysLate(m), NEW n \in Nodes, n \notin DOMAIN m.at,
         NEW t \in Times, t >= UsPerMs, NEW a \in Alarms
  PROVE  KeysLate(MapInsert(m, n, t, a))
  <1> DEFINE i == MapInsert(m, n, t, a)
  <1>1. /\ DOMAIN i.at = DOMAIN m.at \cup {n}
        /\ i.at[n] = [key |-> t, cb |-> a]
        /\ \A x \in DOMAIN m.at : i.at[x] = m.at[x]
    BY Zenon DEF MapInsert
  <1> HIDE DEF i
  <1>2. KeysLate(i)
    BY <1>1 DEF KeysLate
  <1> QED BY <1>2 DEF i

LEMMA EraseKeepsLate ==
  ASSUME NEW m, NEW n, MapType(m), KeysLate(m)
  PROVE  KeysLate(MapErase(m, n)) /\ MapType(MapErase(m, n))
  BY EraseFacts DEF KeysLate

LEMMA UnregisterKeepsLate ==
  ASSUME MapType(alarm_map), KeysLate(alarm_map), NEW a, UnregisterIfRegistered(a)
  PROVE  KeysLate(alarm_map')
  <1>1. alarm_map' = alarm_map \/ alarm_map' = MapErase(alarm_map, token[a])
    BY Zenon DEF UnregisterIfRegistered, UnregisterAlarm
  <1>2. KeysLate(MapErase(alarm_map, token[a]))
    BY EraseKeepsLate
  <1> QED BY Zenon, <1>1, <1>2

LEMMA UseKeepsLate ==
  ASSUME LoopInv, UseAlarms
  PROVE  KeysLate(alarm_map')
  <1>1. MapType(alarm_map) /\ KeysLate(alarm_map)
    BY DEF LoopInv, IInv, TypeOK
  <1>2. ASSUME NEW a \in Alarms, CreateAlarm(a) \/ DestroyAlarm(a) \/ Cancel(a)
        PROVE  KeysLate(alarm_map')
    <2>1. alarm_map' = alarm_map \/ UnregisterIfRegistered(a)
      BY Zenon, <1>2 DEF CreateAlarm, DestroyAlarm, Cancel, mapVars
    <2> QED BY Zenon, <1>1, <2>1, UnregisterKeepsLate
  <1>3. ASSUME NEW a \in Alarms, NEW t \in Times, DeadlineAllowed(t), Set(a, t) \/ Update(a, t)
        PROVE  KeysLate(alarm_map')
    <2>1. t >= UsPerMs
      BY <1>3, AlarmLoopAssumption, AlarmQueueAssumption DEF DeadlineAllowed
    <2>2. RegisterAlarm(alarm_map, t, a) \/ (registered[a] /\ ReregisterAlarm(a, t))
      BY Zenon, <1>3 DEF Set, Update, UpdateImpl
    <2>3. CASE RegisterAlarm(alarm_map, t, a)
      <3>1. alarm_map' = alarm_map \/ \E n \in Nodes \ InMap : alarm_map' = MapInsert(alarm_map, n, t, a)
        BY Zenon, <2>3 DEF RegisterAlarm, InMap
      <3> QED BY <1>1, <2>1, <3>1, InsertKeepsLate DEF InMap
    <2>4. CASE registered[a] /\ ReregisterAlarm(a, t)
      <3> DEFINE m == MapErase(alarm_map, token[a])
      <3>1. MapType(m) /\ KeysLate(m)
        BY <1>1, EraseKeepsLate
      <3>2. alarm_map.at[token[a]].cb = a
        BY Zenon, <1>3, <2>4, RegisteredHasEntry DEF LoopInv
      <3>3. PICK n \in Nodes \ DOMAIN m.at : alarm_map' = MapInsert(m, n, t, a)
        BY Zenon, <2>4, <3>2 DEF ReregisterAlarm
      <3> HIDE DEF m
      <3> QED BY <1>3, <2>1, <3>1, <3>3, InsertKeepsLate
    <2> QED BY <2>2, <2>3, <2>4
  <1> QED BY Zenon, <1>2, <1>3 DEF UseAlarms

LEMMA RoundKeepsLate ==
  ASSUME LoopInv, RoundStep
  PROVE  KeysLate(alarm_map')
  <1>1. alarm_map' = alarm_map \/ alarm_map' = MapErase(alarm_map, cur)
    <2>1. OnAlarmResult = 0 /\ ~(0 > 0)
      BY DEF OnAlarmResult
    <2> QED BY Zenon, <2>1 DEF RoundStep, Visit, CallbackReturns, RoundEnds, mapVars
  <1> QED BY Zenon, <1>1, EraseKeepsLate DEF LoopInv, IInv, TypeOK

LEMMA LoopInitInv == LoopInit => LoopInv
  <1> SUFFICES ASSUME LoopInit PROVE LoopInv
    OBVIOUS
  <1>1. clock \in 0..MaxTime
    BY AlarmQueueAssumption DEF LoopInit
  <1>2. KeysLate(alarm_map)
    BY DEF LoopInit, Init, EmptyMap, KeysLate
  <1> QED BY <1>1, <1>2, InitIInv DEF LoopInit, LoopInv

LEMMA LoopNextInv == LoopInv /\ [LoopNext]_loopVars => LoopInv'
  <1> SUFFICES ASSUME LoopInv, [LoopNext]_loopVars PROVE LoopInv'
    OBVIOUS
  <1>1. IInv'
    BY LoopStepIsQueueStep, NextIInv DEF LoopInv
  <1>2. clock' \in 0..MaxTime
    <2>1. CASE Tick
      BY <2>1, AlarmQueueAssumption DEF Tick, LoopInv
    <2>2. CASE ~Tick
      BY Zenon, <2>2 DEF LoopNext, UseAlarms, OnAlarmTimeout, RoundStep, loopVars, LoopInv
    <2> QED BY <2>1, <2>2
  <1>3. KeysLate(alarm_map')
    <2>1. CASE OnAlarmTimeout \/ Tick \/ UNCHANGED loopVars
      BY Zenon, <2>1 DEF OnAlarmTimeout, CallTimeoutAlarms, mapVars, Tick, loopVars, vars, LoopInv
    <2> QED BY Zenon, <2>1, UseKeepsLate, RoundKeepsLate DEF LoopNext
  <1> QED BY <1>1, <1>2, <1>3 DEF LoopInv

\* The specification without its fairness.
LEMMA LoopInvariant == LoopInit /\ [][LoopNext]_loopVars => []LoopInv
  BY LoopInitInv, LoopNextInv, PTL

\* The loop of the server uses the queue as the queue allows: what is proved of
\* the queue (tQuicAlarmEventQueue) holds when it is driven through
\* quic_stack_next_alarm_time and quic_stack_on_alarm_timeout.
THEOREM LoopDrivesQueue == LoopSpec => Spec
  <1>1. LoopInit => Init
    BY DEF LoopInit
  <1>2. LoopInv /\ [LoopNext]_loopVars => [Next]_vars
    BY LoopStepIsQueueStep
  <1>3. LoopInit /\ [][LoopNext]_loopVars => Init /\ [][Next]_vars
    BY <1>1, <1>2, LoopInvariant, PTL
  <1> QED BY <1>3, PTL DEF LoopSpec, Spec

\* The stack never answers quic_stack_next_alarm_time with "no alarm" (0) or a
\* later millisecond than that of a deadline, while an alarm is set.
THEOREM WakesUpInTime == LoopSpec => []WakeUpInTime
  <1>1. LoopInv => WakeUpInTime
    <2> SUFFICES ASSUME LoopInv, pc = "idle", NEW a \in alive, deadline[a] # 0
                 PROVE  NextAlarmTime \in 1..(deadline[a] \div UsPerMs)
      BY DEF WakeUpInTime
    <2>1. a \in Alarms /\ registered[a]
      BY SetIsRegistered DEF LoopInv, CanCall
    <2>2. token[a] \in InMap /\ alarm_map.at[token[a]].key = deadline[a]
      BY <2>1, RegisteredHasEntry DEF LoopInv
    <2>3. deadline[a] \in Nat
      BY <2>1, AlarmQueueAssumption DEF LoopInv, IInv, TypeOK, Times
    <2>4. NextAlarmTimeInUs \in Nat /\ NextAlarmTimeInUs \in UsPerMs..deadline[a]
      BY <2>2, NextIsEarliest
    <2>5. NextAlarmTimeInUs <= deadline[a] /\ UsPerMs <= NextAlarmTimeInUs
      BY <2>3, <2>4, AlarmLoopAssumption
    <2>6. /\ NextAlarmTimeInUs \div UsPerMs \in Nat
          /\ NextAlarmTimeInUs \div UsPerMs <= deadline[a] \div UsPerMs
          /\ 1 <= NextAlarmTimeInUs \div UsPerMs
      BY <2>3, <2>4, <2>5, Milliseconds
    <2>7. deadline[a] \div UsPerMs \in Nat
      BY <2>3, Milliseconds
    <2> QED BY <2>6, <2>7 DEF NextAlarmTime
  <1> QED BY <1>1, LoopInvariant, PTL DEF LoopSpec
===============================================================================
