------------------------------ MODULE StackProofs ------------------------------
(***************************************************************************)
(* Proofs about Stack, for any connections, streams and number of          *)
(* requests.  They need one thing of the outside: an application that uses *)
(* ids after their end meets no connection id a second time.               *)
(***************************************************************************)
EXTENDS Stack, TLAPS

LateIdsAreUsedUp == ~(CidsComeBack /\ LateCalls)

\* A stream in the map belongs to a live session, its id is used up, and it has
\* no other id.
StreamsLive ==
  /\ \A id \in Ids : stream[id] # 0 => GetSession(id) /\ id \in used
  /\ \A i, j \in Ids : stream[i] # 0 /\ stream[i] = stream[j] => i = j

\* What the application works on is the announced stream of that id.
AppFollows == \A id \in Ids : app[id] # 0 => app[id] = stream[id] /\ app[id] \in past \cap is_new_ok

CallbacksKept == \A id \in waits : app[id] # 0 /\ app[id] \in cb

\* A request that ended left an id that names it or nothing.
LateFindsItself == LateCalls => \A p \in ended : stream[p[1]] \in {0, p[2]} /\ p[1] \in used

\* A stream that has called OnRequestClose has cleared is_new_ok_.
ToldOnce == \A r \in Requests : closes[r] = 0 \/ (closes[r] = 1 /\ r <= created /\ r \notin is_new_ok)

IInv == TypeOK /\ StreamsLive /\ AppFollows /\ CallbacksKept /\ LateFindsItself /\ ToldOnce

\* A call for a request finds the stream of that request or none.
LEMMA CallFinds ==
  ASSUME IInv, NEW id \in Ids, NEW r, Calls(id, r)
  PROVE  /\ stream[id] \in {0, r}
         /\ GetStream(id) \in {0, r}
         /\ app[id] = r => stream[id] = r /\ GetStream(id) = r /\ r # 0
  <1>1. CASE app[id] = r
    BY <1>1 DEF Calls, IInv, AppFollows, StreamsLive, GetStream
  <1>2. CASE app[id] # r
    <2>1. LateCalls /\ <<id, r>> \in ended
      BY <1>2 DEF Calls
    <2>2. stream[id] \in {0, r}
      BY <2>1 DEF IInv, LateFindsItself
    <2> QED BY <1>2, <2>2 DEF GetStream
  <1> QED BY <1>1, <1>2

LEMMA InitIInv == Init => IInv
  BY StackAssumption DEF Init, IInv, TypeOK, StreamsLive, AppFollows, CallbacksKept,
     LateFindsItself, ToldOnce, Ids, GetSession, Requests

\* The streams of ids leave the map, the application being done with them.
LEMMA LeaveMapStep ==
  ASSUME IInv, NEW ids \in SUBSET Ids, LeaveMap(ids), UNCHANGED <<used, created>>,
         \A id \in Ids : GetSession(id) => GetSession(id)' \/ id \in ids
  PROVE  /\ stream' \in [Ids -> 0..created] /\ cb' \subseteq 1..created
         /\ StreamsLive'
         /\ \A id \in Ids : stream'[id] \in {0, stream[id]}
         /\ \A id \in Ids \ ids : stream'[id] = stream[id] /\ (stream[id] # 0 /\ stream[id] \in cb => stream[id] \in cb')
  <1>1. stream' \in [Ids -> 0..created] /\ cb' \subseteq 1..created
    <2>1. created \in Nat /\ stream \in [Ids -> 0..created] /\ cb \subseteq 1..created
      BY StackAssumption DEF IInv, TypeOK
    <2>2. 0 \in 0..created
      BY <2>1
    <2> QED BY Zenon, <2>1, <2>2 DEF LeaveMap
  <1>2. \A id \in Ids : stream'[id] = IF id \in ids THEN 0 ELSE stream[id]
    BY DEF LeaveMap
  <1>3. StreamsLive'
    <2>1. ASSUME NEW id \in Ids, stream'[id] # 0 PROVE GetSession(id)' /\ id \in used'
      BY <1>2, <2>1 DEF IInv, StreamsLive
    <2>2. ASSUME NEW i \in Ids, NEW j \in Ids, stream'[i] # 0, stream'[i] = stream'[j] PROVE i = j
      BY <1>2, <2>2 DEF IInv, StreamsLive
    <2> QED BY <2>1, <2>2 DEF StreamsLive
  <1>4. ASSUME NEW id \in Ids \ ids, stream[id] # 0, stream[id] \in cb PROVE stream[id] \in cb'
    BY <1>4 DEF LeaveMap, IInv, StreamsLive
  <1> QED BY <1>1, <1>2, <1>3, <1>4

\* The application is done with requests.
LEMMA ForgetStep ==
  ASSUME IInv, NEW rs, Forget(rs), 0 \notin rs
  PROVE  /\ app' \in [Ids -> 0..created] /\ waits' \subseteq Ids /\ ended' \subseteq Ids \X (1..created)
         /\ \A id \in Ids : app'[id] = IF app[id] \in rs THEN 0 ELSE app[id]
         /\ \A id \in waits' : id \in waits /\ app'[id] = app[id]
         /\ \A p \in ended' : p \in ended \/ (p[1] \in Ids /\ p[2] = app[p[1]] /\ p[2] # 0)
  <1>1. app' \in [Ids -> 0..created] /\ waits' \subseteq Ids
    BY DEF Forget, IInv, TypeOK
  <1>2. \A id \in Ids : app'[id] = IF app[id] \in rs THEN 0 ELSE app[id]
    BY DEF Forget
  <1>3. \A id \in waits' : id \in waits /\ app'[id] = app[id]
    BY <1>2 DEF Forget, IInv, TypeOK
  <1>4. \A p \in ended' : p \in ended \/ \E id \in Ids : p = <<id, app[id]>> /\ app[id] # 0
    BY DEF Forget
  <1>5. ended' \subseteq Ids \X (1..created)
    BY <1>4 DEF IInv, TypeOK
  <1> QED BY <1>1, <1>2, <1>3, <1>4, <1>5

\* The end of streams, with or without their session.
LEMMA OnCloseStep ==
  ASSUME IInv, NEW rs \in SUBSET (0..created), OnClose(rs), NEW ids \in SUBSET Ids,
         LeaveMap(ids) \/ UNCHANGED <<stream, cb>>, \A id \in ids : stream[id] = 0 \/ stream[id] \in rs,
         UNCHANGED <<used, dropped, created, past>>,
         session' \in [Cids -> {"none", "live", "wait"}],
         \A id \in Ids : GetSession(id) => GetSession(id)' \/ (id \in ids /\ LeaveMap(ids))
  PROVE  IInv'
  <1>1. PICK told \in Report(rs) : OnRequestClose(told)
    BY DEF OnClose
  <1>2. is_new_ok' = is_new_ok \ rs
    BY DEF OnClose
  <1>3. told \subseteq rs \cap is_new_ok /\ rs \cap is_new_ok \cap past \subseteq told
    BY <1>1 DEF Report
  <1>4. 0 \notin told
    BY <1>3 DEF IInv, TypeOK
  <1>5. Forget(told) /\ closes' = [r \in Requests |-> IF r \in told THEN closes[r] + 1 ELSE closes[r]]
    BY <1>1 DEF OnRequestClose
  <1>6. /\ stream' \in [Ids -> 0..created] /\ cb' \subseteq 1..created /\ StreamsLive'
        /\ \A id \in Ids : stream'[id] \in {0, stream[id]}
        /\ \A id \in Ids \ ids : stream'[id] = stream[id] /\ (stream[id] # 0 /\ stream[id] \in cb => stream[id] \in cb')
    <2>1. CASE LeaveMap(ids)
      BY <2>1, LeaveMapStep
    <2>2. CASE ~LeaveMap(ids)
      BY <2>2 DEF IInv, TypeOK, StreamsLive
    <2> QED BY <2>1, <2>2
  <1>7. \A id \in Ids : app'[id] = IF app[id] \in told THEN 0 ELSE app[id]
    BY <1>4, <1>5, ForgetStep
  <1>8. \A id \in Ids : app'[id] # 0 => app'[id] = app[id] /\ app[id] \notin rs
    BY <1>3, <1>7 DEF IInv, AppFollows
  <1>9. TypeOK'
    <2>1. app' \in [Ids -> 0..created] /\ waits' \subseteq Ids /\ ended' \subseteq Ids \X (1..created)
      BY <1>4, <1>5, ForgetStep
    <2>2. closes' \in [Requests -> Nat]
      BY <1>5 DEF IInv, TypeOK
    <2> QED BY <1>2, <1>6, <2>1, <2>2 DEF IInv, TypeOK
  <1>10. AppFollows'
    BY <1>2, <1>6, <1>8 DEF IInv, AppFollows
  <1>11. CallbacksKept'
    <2>1. ASSUME NEW id \in waits' PROVE app'[id] # 0 /\ app'[id] \in cb'
      <3>1. id \in waits /\ id \in Ids /\ app'[id] = app[id]
        BY <1>4, <1>5, ForgetStep DEF IInv, TypeOK
      <3>2. app[id] # 0 /\ app[id] \in cb /\ app[id] = stream[id]
        BY <3>1 DEF IInv, CallbacksKept, AppFollows
      <3>3. id \notin ids
        BY <1>8, <3>1, <3>2
      <3> QED BY <1>6, <3>1, <3>2, <3>3
    <2> QED BY <2>1 DEF CallbacksKept
  <1>12. LateFindsItself'
    <2>1. ASSUME LateCalls, NEW p \in ended' PROVE stream'[p[1]] \in {0, p[2]} /\ p[1] \in used
      <3>1. p \in ended \/ (p[1] \in Ids /\ p[2] = app[p[1]] /\ p[2] # 0)
        BY <1>4, <1>5, ForgetStep
      <3>2. CASE p \in ended
        <4>1. p[1] \in Ids
          BY <3>2 DEF IInv, TypeOK
        <4> QED BY <1>6, <2>1, <3>2, <4>1 DEF IInv, LateFindsItself
      <3>3. CASE p[1] \in Ids /\ p[2] = app[p[1]] /\ p[2] # 0
        BY <1>6, <3>3 DEF IInv, AppFollows, StreamsLive
      <3> QED BY <3>1, <3>2, <3>3
    <2> QED BY <2>1 DEF LateFindsItself
  <1>13. ToldOnce'
    <2>1. ASSUME NEW r \in Requests
          PROVE  closes'[r] = 0 \/ (closes'[r] = 1 /\ r <= created /\ r \notin is_new_ok')
      <3>1. closes'[r] = IF r \in told THEN closes[r] + 1 ELSE closes[r]
        BY <1>5
      <3>2. closes[r] = 0 \/ (closes[r] = 1 /\ r <= created /\ r \notin is_new_ok)
        BY DEF IInv, ToldOnce
      <3>3. r \in told => r \in is_new_ok /\ r \in rs /\ r <= created
        BY <1>3 DEF IInv, TypeOK
      <3> QED BY <1>2, <3>1, <3>2, <3>3
    <2> QED BY <2>1 DEF ToldOnce
  <1> QED BY <1>6, <1>9, <1>10, <1>11, <1>12, <1>13 DEF IInv

LEMMA NextIInv ==
  ASSUME LateIdsAreUsedUp
  PROVE  IInv /\ [Next]_vars => IInv'
  <1> SUFFICES ASSUME IInv, [Next]_vars PROVE IInv'
    OBVIOUS
  <1>1. ASSUME NEW c \in Cids, CreateQuicSession(c) PROVE IInv'
    BY <1>1 DEF CreateQuicSession, appVars, IInv, TypeOK, StreamsLive, AppFollows, CallbacksKept,
       LateFindsItself, ToldOnce, GetSession, Ids
  <1>2. ASSUME NEW c \in Cids, ConnectionCloses(c) PROVE IInv'
    <2> DEFINE ids == OfSession(c)
               rs == {stream[id] : id \in ids}
    <2>1. ids \in SUBSET Ids /\ rs \in SUBSET (0..created)
      BY DEF OfSession, IInv, TypeOK
    <2>2. \A id \in Ids : GetSession(id) => GetSession(id)' \/ id \in ids
      BY <1>2 DEF ConnectionCloses, GetSession, OfSession, IInv, TypeOK, Ids
    <2>3. /\ OnClose(rs) /\ LeaveMap(ids) /\ UNCHANGED <<used, dropped, created, past>>
          /\ session' \in [Cids -> {"none", "live", "wait"}]
      BY <1>2 DEF ConnectionCloses, IInv, TypeOK
    <2>4. \A id \in ids : stream[id] \in rs
      OBVIOUS
    <2> HIDE DEF ids, rs
    <2> QED BY <2>1, <2>2, <2>3, <2>4, OnCloseStep
  <1>3. ASSUME NEW c \in Cids, TimeWaitEnds(c) PROVE IInv'
    <2>1. ~LateCalls
      BY <1>3 DEF TimeWaitEnds, LateIdsAreUsedUp
    <2>2. StreamsLive'
      BY <1>3 DEF TimeWaitEnds, IInv, TypeOK, StreamsLive, GetSession, OfSession, Ids
    <2> QED BY <1>3, <2>1, <2>2 DEF TimeWaitEnds, appVars, IInv, TypeOK, AppFollows, CallbacksKept,
       LateFindsItself, ToldOnce
  <1>4. ASSUME NEW id \in Ids, CreateIncomingStream(id) PROVE IInv'
    <2>1. stream[id] = 0 /\ app[id] = 0
      BY <1>4 DEF CreateIncomingStream, IInv, StreamsLive, AppFollows
    <2>2. TypeOK'
      BY <1>4, StackAssumption DEF CreateIncomingStream, appVars, IInv, TypeOK
    <2>3. \A i \in Ids : stream'[i] = IF i = id THEN created + 1 ELSE stream[i]
      BY <1>4 DEF CreateIncomingStream, IInv, TypeOK
    <2>4. StreamsLive'
      <3>1. \A i \in Ids : stream[i] \in 0..created
        BY DEF IInv, TypeOK
      <3>2. ASSUME NEW i \in Ids, NEW j \in Ids, stream'[i] # 0, stream'[i] = stream'[j] PROVE i = j
        BY <2>3, <3>1, <3>2 DEF IInv, TypeOK, StreamsLive
      <3>3. ASSUME NEW i \in Ids, stream'[i] # 0 PROVE GetSession(i)' /\ i \in used'
        BY <1>4, <2>3, <3>3 DEF CreateIncomingStream, IInv, StreamsLive, GetSession
      <3> QED BY <3>2, <3>3 DEF StreamsLive
    <2>5. AppFollows' /\ CallbacksKept'
      BY <1>4, <2>1, <2>3 DEF CreateIncomingStream, appVars, IInv, TypeOK, AppFollows, CallbacksKept
    <2>6. LateFindsItself'
      BY <1>4, <2>3 DEF CreateIncomingStream, appVars, IInv, TypeOK, LateFindsItself
    <2>7. ToldOnce'
      BY <1>4 DEF CreateIncomingStream, appVars, IInv, TypeOK, ToldOnce, Requests
    <2> QED BY <2>2, <2>4, <2>5, <2>6, <2>7 DEF IInv
  <1>5. ASSUME NEW id \in Ids, NEW served \in BOOLEAN, OnRequestHeader(id, served) PROVE IInv'
    <2>1. app[id] = 0 /\ stream[id] \in 1..created
      BY <1>5 DEF OnRequestHeader, IInv, TypeOK, AppFollows
    <2>2. CASE served
      <3>1. TypeOK'
        <4>1. app' \in [Ids -> 0..created] /\ past' \subseteq 1..created
          BY <1>5, <2>1, <2>2 DEF OnRequestHeader, IInv, TypeOK
        <4> QED BY Zenon, <1>5, <2>2, <4>1 DEF OnRequestHeader, IInv, TypeOK
      <3>3. AppFollows'
        BY <1>5, <2>1, <2>2 DEF OnRequestHeader, IInv, TypeOK, AppFollows
      <3>2. CallbacksKept'
        BY <1>5, <2>1, <2>2 DEF OnRequestHeader, IInv, TypeOK, CallbacksKept
      <3>4. StreamsLive' /\ LateFindsItself'
        BY Zenon, <1>5 DEF OnRequestHeader, IInv, StreamsLive, LateFindsItself, GetSession
      <3>5. ToldOnce'
        BY Zenon, <1>5, <2>2 DEF OnRequestHeader, IInv, ToldOnce
      <3> QED BY Zenon, <3>1, <3>2, <3>3, <3>4, <3>5 DEF IInv
    <2>3. CASE ~served
      <3>1. AppFollows'
        BY SMTT(30), <1>5, <2>3 DEF OnRequestHeader, IInv, AppFollows
      <3> QED BY <1>5, <2>3, <3>1 DEF OnRequestHeader, IInv, TypeOK, StreamsLive, CallbacksKept, LateFindsItself,
         ToldOnce, GetSession
    <2> QED BY <2>2, <2>3
  <1>6. ASSUME NEW id \in Ids, stream[id] # 0, OnClose({stream[id]}), OnStreamClosed(id),
               UNCHANGED <<session, used, dropped, created, past>>
        PROVE  IInv'
    <2>1. {stream[id]} \in SUBSET (0..created) /\ {id} \in SUBSET Ids
      BY DEF IInv, TypeOK
    <2>2. LeaveMap({id}) \/ UNCHANGED <<stream, cb>>
      BY <1>6 DEF OnStreamClosed
    <2>3. \A i \in Ids : GetSession(i) => GetSession(i)'
      BY <1>6 DEF GetSession
    <2>4. session' \in [Cids -> {"none", "live", "wait"}]
      BY <1>6 DEF IInv, TypeOK
    <2> QED BY <1>6, <2>1, <2>2, <2>3, <2>4, OnCloseStep
  <1>7. ASSUME NEW id \in Ids, StreamCloses(id) PROVE IInv'
    BY <1>6, <1>7 DEF StreamCloses
  <1>8. ASSUME NEW id \in Ids, NEW r, r # 0, app[id] = r, Forget({r}),
               LeaveMap({id}) \/ UNCHANGED <<stream, cb>>, is_new_ok' \in {is_new_ok, is_new_ok \ {r}},
               dropped' \subseteq 1..created, UNCHANGED <<session, used, created, past, closes>>
        PROVE  IInv'
    <2>1. r = stream[id] /\ r \in 1..created
      BY <1>8 DEF IInv, TypeOK, AppFollows
    <2>2. /\ app' \in [Ids -> 0..created] /\ waits' \subseteq Ids /\ ended' \subseteq Ids \X (1..created)
          /\ \A i \in Ids : app'[i] = IF app[i] = r THEN 0 ELSE app[i]
          /\ \A i \in waits' : i \in waits /\ app'[i] = app[i]
          /\ \A p \in ended' : p \in ended \/ (p[1] \in Ids /\ p[2] = app[p[1]] /\ p[2] # 0)
      BY <1>8, <2>1, ForgetStep
    <2>3. /\ stream' \in [Ids -> 0..created] /\ cb' \subseteq 1..created /\ StreamsLive'
          /\ \A i \in Ids : stream'[i] \in {0, stream[i]}
          /\ \A i \in Ids \ {id} : stream'[i] = stream[i] /\ (stream[i] # 0 /\ stream[i] \in cb => stream[i] \in cb')
      <3>1. CASE LeaveMap({id})
        <4>1. \A i \in Ids : GetSession(i) => GetSession(i)'
          BY <1>8 DEF GetSession
        <4> QED BY <1>8, <3>1, <4>1, LeaveMapStep
      <3>2. CASE UNCHANGED <<stream, cb>>
        BY <1>8, <3>2 DEF IInv, TypeOK, StreamsLive, GetSession
      <3> QED BY <1>8, <3>1, <3>2
    <2>4. \A i \in Ids : app'[i] # 0 => i # id /\ app'[i] = app[i] /\ app[i] # r
      BY <1>8, <2>2
    <2>5. TypeOK'
      BY <1>8, <2>2, <2>3 DEF IInv, TypeOK
    <2>6. AppFollows'
      BY <1>8, <2>3, <2>4 DEF IInv, AppFollows
    <2>7. CallbacksKept'
      BY <2>2, <2>3, <2>4 DEF IInv, TypeOK, CallbacksKept, AppFollows
    <2>8. LateFindsItself'
      <3>1. ASSUME LateCalls, NEW p \in ended' PROVE stream'[p[1]] \in {0, p[2]} /\ p[1] \in used
        <4>1. CASE p \in ended
          BY <2>3, <3>1, <4>1 DEF IInv, TypeOK, LateFindsItself
        <4>2. CASE p[1] \in Ids /\ p[2] = app[p[1]] /\ p[2] # 0
          BY <2>3, <4>2 DEF IInv, AppFollows, StreamsLive
        <4> QED BY <2>2, <4>1, <4>2
      <3> QED BY <1>8, <3>1 DEF LateFindsItself
    <2>9. ToldOnce'
      BY <1>8 DEF IInv, ToldOnce
    <2> QED BY <2>3, <2>5, <2>6, <2>7, <2>8, <2>9 DEF IInv
  <1>9. ASSUME NEW id \in Ids, CallbackRejects(id) PROVE IInv'
    <2>1. CASE OnClose({stream[id]}) /\ OnStreamClosed(id)
      BY <1>6, <1>9, <2>1 DEF CallbackRejects
    <2>2. CASE is_new_ok' = is_new_ok \ {stream[id]} /\ Forget({app[id]}) /\ UNCHANGED <<stream, cb, closes>>
      <3>1. dropped' \subseteq 1..created
        BY <1>9 DEF CallbackRejects, IInv, TypeOK
      <3> QED BY <1>8, <1>9, <2>2, <3>1 DEF CallbackRejects
    <2> QED BY <1>9, <2>1, <2>2 DEF CallbackRejects
  <1>10. ASSUME NEW id \in Ids, NEW r \in Requests, CloseStream(id, r) PROVE IInv'
    <2>1. LeaveMap({id}) \/ UNCHANGED <<stream, cb>>
      BY <1>10 DEF CloseStream
    <2>2. dropped' \subseteq 1..created
      <3>1. stream[id] \in 0..created /\ dropped \subseteq 1..created
        BY DEF IInv, TypeOK
      <3>2. dropped' \in {dropped, dropped \cup ({stream[id]} \ {0})}
        BY <1>10 DEF CloseStream
      <3> QED BY <3>1, <3>2 DEF IInv, TypeOK
    <2>3. CASE app[id] = r
      BY <1>8, <1>10, <2>1, <2>2, <2>3 DEF CloseStream, Calls
    <2>4. CASE app[id] # r
      <3>1. app[id] = 0
        <4>1. stream[id] \in {0, r}
          BY <1>10, CallFinds DEF CloseStream
        <4> QED BY <2>4, <4>1 DEF IInv, AppFollows
      <3>2. /\ stream' \in [Ids -> 0..created] /\ cb' \subseteq 1..created /\ StreamsLive'
            /\ \A i \in Ids : stream'[i] \in {0, stream[i]}
            /\ \A i \in Ids \ {id} : stream'[i] = stream[i] /\ (stream[i] # 0 /\ stream[i] \in cb => stream[i] \in cb')
        <4>1. CASE LeaveMap({id})
          <5>1. \A i \in Ids : GetSession(i) => GetSession(i)'
            BY <1>10 DEF CloseStream, GetSession
          <5> QED BY <1>10, <4>1, <5>1, LeaveMapStep DEF CloseStream
        <4>2. CASE UNCHANGED <<stream, cb>>
          BY <1>10, <4>2 DEF CloseStream, IInv, TypeOK, StreamsLive, GetSession
        <4> QED BY <2>1, <4>1, <4>2
      <3>3. UNCHANGED <<session, used, is_new_ok, created, past, closes, app, waits, ended>>
        BY <1>10, <2>4 DEF CloseStream
      <3>4. TypeOK'
        BY <2>2, <3>2, <3>3 DEF IInv, TypeOK
      <3>5. AppFollows'
        BY <3>1, <3>2, <3>3 DEF IInv, AppFollows
      <3>6. CallbacksKept'
        BY <3>1, <3>2, <3>3 DEF IInv, TypeOK, CallbacksKept, AppFollows
      <3>7. LateFindsItself' /\ ToldOnce'
        BY <3>2, <3>3 DEF IInv, TypeOK, LateFindsItself, ToldOnce
      <3> QED BY <3>2, <3>4, <3>5, <3>6, <3>7 DEF IInv
    <2> QED BY <2>3, <2>4
  <1>11. ASSUME NEW r \in Requests, DroppedCloses(r) PROVE IInv'
    <2>1. {r} \in SUBSET (0..created) /\ {} \in SUBSET Ids
      BY <1>11 DEF DroppedCloses, IInv, TypeOK
    <2>2. \A i \in Ids : GetSession(i) => GetSession(i)'
      BY <1>11 DEF DroppedCloses, GetSession
    <2>3. session' \in [Cids -> {"none", "live", "wait"}]
      BY <1>11 DEF DroppedCloses, IInv, TypeOK
    <2> QED BY <1>11, <2>1, <2>2, <2>3, OnCloseStep DEF DroppedCloses
  <1>12. ASSUME NEW r \in Requests, DroppedIsDeleted(r) PROVE IInv'
    BY <1>12 DEF DroppedIsDeleted, appVars, IInv, TypeOK, StreamsLive, AppFollows, CallbacksKept,
       LateFindsItself, ToldOnce, GetSession
  <1>13. ASSUME NEW id \in Ids, NEW r \in Requests, AddOnCanWriteCallback(id, r) PROVE IInv'
    <2>1. /\ app[id] = r => GetStream(id) = r /\ r # 0
          /\ GetStream(id) \in 0..created
      BY <1>13, CallFinds DEF AddOnCanWriteCallback, GetStream, IInv, TypeOK
    <2>2. cb \subseteq cb' /\ cb' \subseteq 1..created /\ (app[id] = r => r \in cb')
      <3>1. cb' = IF GetStream(id) # 0 THEN cb \cup {GetStream(id)} ELSE cb
        BY <1>13 DEF AddOnCanWriteCallback
      <3>2. cb \subseteq 1..created /\ created \in Nat
        BY StackAssumption DEF IInv, TypeOK
      <3>3. CASE GetStream(id) = 0
        BY <2>1, <3>1, <3>2, <3>3
      <3>4. CASE GetStream(id) # 0
        <4>1. GetStream(id) \in 1..created
          BY <2>1, <3>2, <3>4
        <4> QED BY Zenon, <2>1, <3>1, <3>2, <3>4, <4>1
      <3> QED BY <3>3, <3>4
    <2>3. CallbacksKept'
      BY <1>13, <2>1, <2>2 DEF AddOnCanWriteCallback, IInv, CallbacksKept
    <2> QED BY <1>13, <2>2, <2>3 DEF AddOnCanWriteCallback, IInv, TypeOK, StreamsLive, AppFollows,
       LateFindsItself, ToldOnce, GetSession
  <1>14. ASSUME NEW id \in Ids, OnCanWriteNewData(id) PROVE IInv'
    <2>1. CallbacksKept'
      <3>1. ASSUME NEW i \in waits' PROVE app'[i] # 0 /\ app'[i] \in cb'
        <4>1. i \in waits /\ i # id /\ i \in Ids /\ app'[i] = app[i] /\ cb' = cb \ {stream[id]}
          BY <1>14, <3>1 DEF OnCanWriteNewData, IInv, TypeOK
        <4>2. app[i] # 0 /\ app[i] \in cb /\ app[i] = stream[i]
          BY <4>1 DEF IInv, CallbacksKept, AppFollows
        <4> QED BY <4>1, <4>2 DEF IInv, StreamsLive
      <3> QED BY <3>1 DEF CallbacksKept
    <2> QED BY <1>14, <2>1 DEF OnCanWriteNewData, IInv, TypeOK, StreamsLive, AppFollows,
       LateFindsItself, ToldOnce, GetSession
  <1>15. ASSUME UNCHANGED vars PROVE IInv'
    BY <1>15 DEF vars, streamVars, appVars, IInv, TypeOK, StreamsLive, AppFollows, CallbacksKept,
       LateFindsItself, ToldOnce, GetSession
  <1> QED BY <1>1, <1>2, <1>3, <1>4, <1>5, <1>7, <1>9, <1>10, <1>11, <1>12, <1>13, <1>14, <1>15 DEF Next

LEMMA StackInvariant ==
  ASSUME LateIdsAreUsedUp
  PROVE  Spec => []IInv
  BY InitIInv, NextIInv, PTL DEF Spec

LEMMA IInvIsRight == IInv => RightStream /\ TypeOK
  <1> SUFFICES ASSUME IInv PROVE RightStream /\ TypeOK
    OBVIOUS
  <1>1. Reachable
    BY DEF IInv, Reachable, AppFollows, StreamsLive, CallbacksKept, GetStream
  <1>2. ASSUME NEW id \in Ids, NEW r \in Requests PROVE Reached(id, r) \subseteq {r}
    BY CallFinds DEF Reached
  <1> QED BY <1>1, <1>2 DEF RightStream, NoMixUp, IInv

\* A call with a request id reaches the stream the id was given for or none,
\* whatever connections and streams came and went (GetSession and GetStream),
\* if the application drops ids with their requests, or ids are used once.
THEOREM CallsReachTheirStream ==
  ASSUME LateIdsAreUsedUp
  PROVE  Spec => []RightStream
  BY IInvIsRight, StackInvariant, PTL

\* The application is told of the end of a request at most once (OnClose), also
\* of one it has closed (CloseStream) or rejected, and whatever an unset qsi_
\* holds.
THEOREM EndToldOnce ==
  ASSUME LateIdsAreUsedUp
  PROVE  Spec => [](\A r \in Requests : closes[r] \in {0, 1})
  <1>1. IInv => \A r \in Requests : closes[r] \in {0, 1}
    BY DEF IInv, ToldOnce
  <1> QED BY <1>1, StackInvariant, PTL

(***************************************************************************)
(* The stack implements the table of requests.                             *)
(***************************************************************************)
over == (1..created) \ is_new_ok
tableVars == <<app, past, over, closes>>

LEMMA OnCloseRefines ==
  ASSUME IInv, NEW rs \in SUBSET (0..created), OnClose(rs), UNCHANGED <<created, past>>
  PROVE  Table!Next
  <1>1. PICK told \in Report(rs) : OnRequestClose(told)
    BY DEF OnClose
  <1> DEFINE untold == (rs \cap is_new_ok) \ told
  <1>2. told \subseteq rs \cap is_new_ok /\ rs \cap is_new_ok \cap past \subseteq told /\ (StrayCloses \/ told \subseteq past)
    BY <1>1 DEF Report
  <1>3. is_new_ok \subseteq 1..created /\ is_new_ok' = is_new_ok \ rs
    BY DEF OnClose, IInv, TypeOK
  <1>4. (1..created') \ is_new_ok' = ((1..created) \ is_new_ok) \cup told \cup untold
    <2>1. created' = created
      OBVIOUS
    <2> QED BY Zenon, <1>2, <1>3, <2>1
  <1>5. told \in SUBSET Requests /\ untold \in SUBSET Requests
    BY <1>2, <1>3, StackAssumption DEF IInv, TypeOK, Requests
  <1>6. /\ closes' = [r \in Requests |-> IF r \in told THEN closes[r] + 1 ELSE closes[r]]
        /\ app' = [id \in Ids |-> IF app[id] \in told THEN 0 ELSE app[id]]
    BY <1>1 DEF OnRequestClose, Forget
  <1>7. /\ (told \cup untold) \cap ((1..created) \ is_new_ok) = {} /\ told \cap untold = {}
        /\ untold \cap past = {}
    BY Zenon, <1>2
  <1>8. Table!End(told, untold)
    BY Zenon, <1>2, <1>4, <1>6, <1>7 DEF Table!End
  <1> QED BY Zenon, <1>5, <1>8 DEF Table!Next

\* The application is done with the request of an id, and with no other.
LEMMA ForgetOne ==
  ASSUME IInv, NEW id \in Ids, app[id] # 0, Forget({app[id]})
  PROVE  app' = [app EXCEPT ![id] = 0]
  <1>1. ASSUME NEW i \in Ids, app[i] = app[id] PROVE i = id
    BY <1>1 DEF IInv, AppFollows, StreamsLive
  <1>2. app \in [Ids -> 0..created]
    BY DEF IInv, TypeOK
  <1>3. app' = [i \in Ids |-> IF app[i] \in {app[id]} THEN 0 ELSE app[i]]
    BY DEF Forget
  <1> QED BY <1>1, <1>2, <1>3

LEMMA StepRefines ==
  ASSUME IInv, [Next]_vars
  PROVE  [Table!Next]_tableVars
  <1> USE DEF tableVars, over
  <1>1. ASSUME NEW id \in Ids, StreamCloses(id) PROVE Table!Next
    <2>1. {stream[id]} \in SUBSET (0..created)
      BY DEF IInv, TypeOK
    <2> QED BY <1>1, <2>1, OnCloseRefines DEF StreamCloses
  <1>2. ASSUME NEW c \in Cids, ConnectionCloses(c) PROVE Table!Next
    <2>1. {stream[id] : id \in OfSession(c)} \in SUBSET (0..created)
      BY DEF OfSession, IInv, TypeOK
    <2> QED BY Zenon, <1>2, <2>1, OnCloseRefines DEF ConnectionCloses
  <1>3. ASSUME NEW r \in Requests, DroppedCloses(r) PROVE Table!Next
    <2>1. {r} \in SUBSET (0..created)
      BY <1>3 DEF DroppedCloses, IInv, TypeOK
    <2> QED BY <1>3, <2>1, OnCloseRefines DEF DroppedCloses
  <1>4. ASSUME NEW id \in Ids, NEW served \in BOOLEAN, OnRequestHeader(id, served) PROVE Table!Next
    <2>1. stream[id] \in Requests /\ stream[id] \in is_new_ok /\ stream[id] \notin past /\ stream[id] \in 1..created
      BY <1>4, StackAssumption DEF OnRequestHeader, IInv, TypeOK, Requests
    <2>2. app[id] = 0
      BY <1>4 DEF OnRequestHeader, IInv, AppFollows
    <2>3. CASE served
      <3>1. Table!Announce(id, stream[id])
        BY Zenon, <1>4, <2>1, <2>2, <2>3 DEF OnRequestHeader, Table!Announce
      <3> QED BY Zenon, <2>1, <3>1 DEF Table!Next
    <2>4. CASE ~served
      <3>1. is_new_ok' = is_new_ok \ {stream[id]} /\ UNCHANGED <<created, past, app, closes>>
        BY <1>4, <2>4 DEF OnRequestHeader
      <3>2. (1..created') \ is_new_ok' = ((1..created) \ is_new_ok) \cup {} \cup {stream[id]}
        <4>1. created' = created
          BY <3>1
        <4> QED BY Zenon, <2>1, <3>1, <4>1
      <3>3. /\ closes' = [r \in Requests |-> IF r \in {} THEN closes[r] + 1 ELSE closes[r]]
            /\ app' = [i \in Ids |-> IF app[i] \in {} THEN 0 ELSE app[i]]
        BY <3>1 DEF IInv, TypeOK
      <3>4. Table!End({}, {stream[id]})
        BY Zenon, <2>1, <3>1, <3>2, <3>3 DEF Table!End
      <3>5. {} \in SUBSET Requests /\ {stream[id]} \in SUBSET Requests
        BY <2>1
      <3> QED BY Zenon, <3>4, <3>5 DEF Table!Next
    <2> QED BY <2>3, <2>4
  <1>5. ASSUME NEW id \in Ids, CallbackRejects(id) PROVE Table!Next
    <2>1. CASE OnClose({stream[id]})
      <3>1. {stream[id]} \in SUBSET (0..created)
        BY DEF IInv, TypeOK
      <3> QED BY <1>5, <2>1, <3>1, OnCloseRefines DEF CallbackRejects
    <2>2. CASE is_new_ok' = is_new_ok \ {stream[id]} /\ Forget({app[id]}) /\ UNCHANGED <<stream, cb, closes>>
      <3>1. app[id] # 0 /\ stream[id] = app[id] /\ created' = created /\ past' = past
        BY <1>5 DEF CallbackRejects
      <3>2. app[id] \in is_new_ok /\ app[id] \in 1..created
        BY <3>1 DEF IInv, TypeOK, AppFollows
      <3>3. app' = [app EXCEPT ![id] = 0]
        BY <2>2, <3>1, ForgetOne
      <3>4. (1..created') \ is_new_ok' = ((1..created) \ is_new_ok) \cup {app[id]}
        BY Zenon, <2>2, <3>1, <3>2
      <3>5. Table!Reject(id)
        BY Zenon, <2>2, <3>1, <3>2, <3>3, <3>4 DEF Table!Reject
      <3> QED BY Zenon, <3>5 DEF Table!Next
    <2> QED BY <1>5, <2>1, <2>2 DEF CallbackRejects
  <1>6. ASSUME NEW id \in Ids, NEW r \in Requests, CloseStream(id, r) PROVE Table!Next \/ UNCHANGED tableVars
    <2>1. UNCHANGED <<is_new_ok, created, past, closes>>
      BY <1>6 DEF CloseStream
    <2>2. CASE app[id] = r
      <3>1. app[id] # 0 /\ Forget({app[id]})
        BY <1>6, <2>2 DEF CloseStream, Calls
      <3>2. app' = [app EXCEPT ![id] = 0]
        BY <3>1, ForgetOne
      <3>3. Table!Leave(id)
        BY Zenon, <2>1, <3>1, <3>2 DEF Table!Leave
      <3> QED BY Zenon, <3>3 DEF Table!Next
    <2>3. CASE app[id] # r
      BY <1>6, <2>1, <2>3 DEF CloseStream
    <2> QED BY <2>2, <2>3
  <1>7. ASSUME NEW c \in Cids, CreateQuicSession(c) \/ TimeWaitEnds(c) PROVE UNCHANGED tableVars
    BY <1>7 DEF CreateQuicSession, TimeWaitEnds, appVars
  <1>8. ASSUME NEW id \in Ids, CreateIncomingStream(id) PROVE UNCHANGED tableVars
    <2>1. UNCHANGED <<app, past, closes>> /\ created' = created + 1 /\ is_new_ok' = is_new_ok \cup {created + 1}
      BY <1>8 DEF CreateIncomingStream, appVars
    <2>2. created \in Nat
      BY StackAssumption DEF IInv, TypeOK
    <2>3. (1..created') \ is_new_ok' = (1..created) \ is_new_ok
      BY <2>1, <2>2
    <2> QED BY <2>1, <2>3
  <1>9. ASSUME NEW r \in Requests, DroppedIsDeleted(r) PROVE UNCHANGED tableVars
    BY <1>9 DEF DroppedIsDeleted, appVars
  <1>10. ASSUME NEW id \in Ids, OnCanWriteNewData(id) \/ \E r \in Requests : AddOnCanWriteCallback(id, r)
         PROVE  UNCHANGED tableVars
    BY <1>10 DEF AddOnCanWriteCallback, OnCanWriteNewData
  <1>11. ASSUME UNCHANGED vars PROVE UNCHANGED tableVars
    BY <1>11 DEF vars, streamVars, appVars
  <1> QED BY <1>1, <1>2, <1>3, <1>4, <1>5, <1>6, <1>7, <1>8, <1>9, <1>10, <1>11 DEF Next

\* The stack implements RequestTable (OnRequestHeader, OnRequestBody, OnClose and
\* CloseStream): a request is announced at most once, under an id the application
\* has no other request for; it stays with the application until this gives it
\* up or is told of its end; it is told of it at most once, not before the
\* announcement unless qsi_ is unset, and hears no more of it afterwards.
THEOREM StackImplementsTable ==
  ASSUME LateIdsAreUsedUp
  PROVE  Spec => ImplementsTable
  <1>1. Init => Table!Init
    BY DEF Init, Table!Init
  <1>2. IInv /\ [Next]_vars => [Table!Next]_<<app, past, (1..created) \ is_new_ok, closes>>
    BY StepRefines DEF tableVars, over
  <1> QED BY <1>1, <1>2, StackInvariant, PTL DEF Spec, ImplementsTable, Table!Spec
================================================================================
