----------------------------- MODULE ServerProofs -----------------------------
(***************************************************************************)
(* Proofs about the parts of Server, each for any values of its constants: *)
(* the connections and their writing (Dispatcher), the certificates        *)
(* (Identity), the configs of workers (ServerConfig); those about requests *)
(* are in StackProofs.                                                     *)
(***************************************************************************)
EXTENDS Server, StackProofs, FiniteSetTheorems

(***************************************************************************)
(* Dispatcher.                                                             *)
(***************************************************************************)
WriteTyped ==
  /\ conn \in [Peers -> {"none", "hello", "live", "closed"}]
  /\ writer \in BOOLEAN /\ callback \in BOOLEAN /\ full \in BOOLEAN /\ armed \in BOOLEAN
  /\ unsent \subseteq Peers /\ blocked \subseteq Peers /\ serving \subseteq Peers

\* Nobody writes before quic_stack_init_writer has set the callback.
CallbackFirst == (writer => callback) /\ (serving # {} => writer)

\* A connection that is refused while the list is served is listed again only
\* when its turn is over.
ServedOnce == blocked \cap serving = {}

\* As long as a connection is listed the writer refuses everybody, so that no
\* connection sends behind the back of the list.
ListedMeansFull == blocked # {} => full

ConnInv == WriteTyped /\ CallbackFirst /\ ServedOnce /\ ListedMeansFull /\ D!NoLostWakeUp

LEMMA ConnInit == D!Init => ConnInv
  BY Zenon DEF D!Init, ConnInv, WriteTyped, CallbackFirst, ServedOnce, ListedMeansFull, D!NoLostWakeUp

\* Connections that write, being listed by nobody else, are listed if refused.
LEMMA WriteStep ==
  ASSUME ConnInv, NEW cs \in SUBSET Peers, D!Write(cs), callback,
         UNCHANGED <<writer, callback>>,
         serving' = serving \ cs,
         conn' \in [Peers -> {"none", "hello", "live", "closed"}],
         \A c \in Peers : conn[c] = "live" \/ c \in cs => conn'[c] = "live"
  PROVE  ConnInv'
  <1>1. PICK refused \in SUBSET cs :
          /\ full => refused = cs
          /\ full' = (full \/ refused # {})
          /\ unsent' = (unsent \ cs) \cup refused
          /\ blocked' = blocked \cup refused
          /\ armed' = (armed \/ (refused # {} /\ callback))
    BY DEF D!Write, D!OnWriteBlocked
  <1>2. armed' = (armed \/ refused # {})
    BY <1>1
  <1>3. WriteTyped' /\ CallbackFirst' /\ ServedOnce'
    <2>1. unsent' \subseteq Peers /\ blocked' \subseteq Peers /\ serving' \subseteq Peers
      BY <1>1 DEF ConnInv, WriteTyped
    <2>2. full' \in BOOLEAN /\ armed' \in BOOLEAN
      BY <1>1, <1>2 DEF ConnInv, WriteTyped
    <2>3. CallbackFirst'
      BY DEF ConnInv, CallbackFirst
    <2>4. ServedOnce'
      BY <1>1 DEF ConnInv, ServedOnce
    <2> QED BY <2>1, <2>2, <2>3, <2>4 DEF ConnInv, WriteTyped
  <1>4. ListedMeansFull'
    BY Zenon, <1>1 DEF ConnInv, ListedMeansFull
  <1>5. D!NoLostWakeUp'
    <2>1. unsent' = blocked' \cup serving'
      <3>1. unsent = blocked \cup serving
        BY DEF ConnInv, D!NoLostWakeUp
      <3>2. blocked \cap cs \subseteq refused
        BY <1>1 DEF ConnInv, ListedMeansFull
      <3> QED BY <1>1, <3>1, <3>2
    <2>2. (blocked' # {} => armed') /\ (full' => armed')
      BY Zenon, <1>1, <1>2 DEF ConnInv, D!NoLostWakeUp
    <2>3. \A c \in blocked' \cup serving' : conn'[c] = "live"
      BY <1>1 DEF ConnInv, WriteTyped, D!NoLostWakeUp
    <2> QED BY <2>1, <2>2, <2>3 DEF D!NoLostWakeUp
  <1> QED BY <1>3, <1>4, <1>5 DEF ConnInv

LEMMA ConnNext == ConnInv /\ [D!Next]_(D!vars) => ConnInv'
  <1> SUFFICES ASSUME ConnInv, [D!Next]_(D!vars) PROVE ConnInv'
    OBVIOUS
  <1> DEFINE Unwritten == UNCHANGED <<writer, callback, unsent, blocked, serving, full, armed>>
  <1>0. ASSUME Unwritten, conn' \in [Peers -> {"none", "hello", "live", "closed"}],
               \A c \in Peers : conn[c] = "live" => conn'[c] = "live"
        PROVE  ConnInv'
    BY <1>0 DEF ConnInv, WriteTyped, CallbackFirst, ServedOnce, ListedMeansFull, D!NoLostWakeUp
  <1>10. D!Idle => callback /\ serving = {}
    BY DEF D!Idle, ConnInv, CallbackFirst
  <1>1. CASE D!InitializeWithWriter
    BY <1>1 DEF D!InitializeWithWriter, D!connVars, D!writeVars, ConnInv, WriteTyped, CallbackFirst, ServedOnce,
       ListedMeansFull, D!NoLostWakeUp
  <1>2. CASE D!OnCanWrite
    BY Zenon, <1>2 DEF D!OnCanWrite, D!Idle, D!connVars, ConnInv, WriteTyped, CallbackFirst, ServedOnce,
       ListedMeansFull, D!NoLostWakeUp
  <1>3. ASSUME NEW max \in 1..D!Cardinality(Peers), D!ProcessBufferedChlos(max) PROVE ConnInv'
    <2>1. PICK served \in SUBSET {c \in Peers : conn[c] = "hello"} :
            /\ conn' = [c \in Peers |-> IF c \in served THEN "live" ELSE conn[c]]
            /\ D!Write(served)
      BY <1>3 DEF D!ProcessBufferedChlos
    <2>2. served \in SUBSET Peers /\ serving' = serving \ served
      BY <1>3, <1>10 DEF D!ProcessBufferedChlos
    <2>3. conn' \in [Peers -> {"none", "hello", "live", "closed"}]
      BY <2>1 DEF ConnInv, WriteTyped
    <2> QED BY <1>3, <1>10, <2>1, <2>2, <2>3, WriteStep DEF D!ProcessBufferedChlos
  <1>4. ASSUME NEW c \in Peers, D!PacketHello(c) PROVE ConnInv'
    <2>1. CASE allowed = 0
      <3>1. Unwritten /\ conn[c] = "none" /\ conn' = [conn EXCEPT ![c] = "hello"]
        BY <1>4, <2>1 DEF D!PacketHello, D!writeVars
      <3> QED BY <1>0, <3>1 DEF ConnInv, WriteTyped
    <2>2. CASE allowed # 0
      <3>1. /\ D!Write({c}) /\ conn' = [conn EXCEPT ![c] = "live"]
            /\ UNCHANGED <<writer, callback>> /\ serving' = serving \ {c} /\ callback
        BY <1>4, <1>10, <2>2 DEF D!PacketHello, D!CreateQuicSession
      <3> QED BY <3>1, WriteStep DEF ConnInv, WriteTyped
    <2> QED BY <2>1, <2>2
  <1>5. ASSUME NEW c \in Peers, D!PacketData(c) PROVE ConnInv'
    <2>1. /\ D!Write({c}) /\ UNCHANGED <<writer, callback, conn>> /\ serving' = serving \ {c}
          /\ callback /\ conn[c] = "live"
      BY <1>5, <1>10 DEF D!PacketData, D!connVars
    <2> QED BY <2>1, WriteStep DEF ConnInv, WriteTyped
  <1>6. ASSUME NEW c \in Peers, D!PacketClose(c) PROVE ConnInv'
    <2>1. WriteTyped' /\ CallbackFirst' /\ ServedOnce' /\ ListedMeansFull'
      BY <1>6, <1>10 DEF D!PacketClose, ConnInv, WriteTyped, CallbackFirst, ServedOnce, ListedMeansFull
    <2>2. D!NoLostWakeUp'
      BY <1>6, <1>10 DEF D!PacketClose, ConnInv, WriteTyped, D!NoLostWakeUp
    <2> QED BY <2>1, <2>2 DEF ConnInv
  <1>7. ASSUME NEW c \in Peers, NEW code \in ErrorCodes, D!OnRstStreamReceived(c, code) PROVE ConnInv'
    <2>1. Unwritten /\ UNCHANGED conn
      BY <1>7 DEF D!OnRstStreamReceived, D!connVars, D!writeVars
    <2> QED BY <1>0, <2>1 DEF ConnInv, WriteTyped
  <1>8. ASSUME NEW c \in Peers, D!OnBlockedWriterCanWrite(c) PROVE ConnInv'
    <2>1. /\ D!Write({c}) /\ UNCHANGED <<writer, callback, conn>> /\ serving' = serving \ {c}
          /\ callback /\ conn[c] = "live"
      BY <1>8 DEF D!OnBlockedWriterCanWrite, D!connVars, ConnInv, CallbackFirst, D!NoLostWakeUp
    <2> QED BY <2>1, WriteStep DEF ConnInv, WriteTyped
  <1>9. CASE UNCHANGED D!vars
    BY <1>0, <1>9 DEF D!vars, D!connVars, D!writeVars, ConnInv, WriteTyped
  <1> QED BY <1>1, <1>2, <1>3, <1>4, <1>5, <1>6, <1>7, <1>8, <1>9 DEF D!Next

\* Whatever the socket refuses and whenever (OnWriteBlocked, also from within
\* OnCanWrite): packets wait only for a connection that is listed or about to
\* be served, and the application watches the socket as long as one is listed.
THEOREM NoWakeUpIsLost == D!Spec => []NoLostWakeUp
  <1>1. ConnInv => NoLostWakeUp
    BY DEF ConnInv, NoLostWakeUp
  <1> QED BY <1>1, ConnInit, ConnNext, PTL DEF D!Spec

\* What the limit on new sessions and the counters of resets may be.
CountsTyped ==
  /\ allowed \in 0..D!Cardinality(Peers)
  /\ DOMAIN rst \subseteq ErrorCodes
  /\ \A e \in DOMAIN rst : rst[e] \in 1..MaxRst

LEMMA PeersCounted ==
  ASSUME NEW S \in SUBSET Peers
  PROVE  D!Cardinality(S) \in Nat
  <1>1. Cardinality(S) \in Nat
    BY ServerAssumption, FS_Subset, FS_CardinalityType
  <1>2. D!Cardinality(S) = Cardinality(S)
    BY Zenon DEF D!Cardinality, Cardinality
  <1> QED BY <1>1, <1>2

LEMMA CountsInit == D!Init => CountsTyped
  <1>1. D!Cardinality(Peers) \in Nat
    BY PeersCounted
  <1> QED BY <1>1 DEF D!Init, CountsTyped

LEMMA CountsNext == ConnInv /\ CountsTyped /\ [D!Next]_(D!vars) => CountsTyped'
  <1> SUFFICES ASSUME ConnInv, CountsTyped, [D!Next]_(D!vars) PROVE CountsTyped'
    OBVIOUS
  <1>0. D!Cardinality(Peers) \in Nat
    BY PeersCounted
  <1>1. ASSUME UNCHANGED <<allowed, rst>> PROVE CountsTyped'
    BY <1>1 DEF CountsTyped
  <1>2. CASE D!InitializeWithWriter \/ D!OnCanWrite \/ UNCHANGED D!vars
    BY Zenon, <1>1, <1>2 DEF D!InitializeWithWriter, D!OnCanWrite, D!connVars, D!vars
  <1>3. ASSUME NEW max \in 1..D!Cardinality(Peers), D!ProcessBufferedChlos(max) PROVE CountsTyped'
    <2>1. PICK served \in SUBSET {c \in Peers : conn[c] = "hello"} :
            D!Cardinality(served) <= max /\ allowed' = max - D!Cardinality(served)
      BY Zenon, <1>3 DEF D!ProcessBufferedChlos
    <2>2. D!Cardinality(served) \in Nat
      BY PeersCounted
    <2>3. rst' = rst
      BY Zenon, <1>3 DEF D!ProcessBufferedChlos
    <2> QED BY <1>0, <1>3, <2>1, <2>2, <2>3 DEF CountsTyped
  <1>4. ASSUME NEW c \in Peers, D!PacketHello(c) PROVE CountsTyped'
    <2>1. rst' = rst /\ (IF allowed = 0 THEN allowed' = allowed ELSE allowed' = allowed - 1)
      BY Zenon, <1>4 DEF D!PacketHello
    <2> QED BY <1>0, <2>1 DEF CountsTyped
  <1>5. ASSUME NEW c \in Peers, D!PacketData(c) \/ D!PacketClose(c) \/ D!OnBlockedWriterCanWrite(c)
        PROVE  CountsTyped'
    BY Zenon, <1>1, <1>5 DEF D!PacketData, D!PacketClose, D!OnBlockedWriterCanWrite, D!connVars
  <1>6. ASSUME NEW c \in Peers, NEW code \in ErrorCodes, D!OnRstStreamReceived(c, code) PROVE CountsTyped'
    <2>1. /\ rst' = [e \in DOMAIN rst \cup {code} |->
                       IF e \notin DOMAIN rst THEN 1 ELSE IF e = code THEN rst[e] + 1 ELSE rst[e]]
          /\ D!GetRstErrorCount(code) < MaxRst /\ allowed' = allowed
      BY Zenon, <1>6 DEF D!OnRstStreamReceived, D!connVars
    <2>2. ASSUME NEW e \in DOMAIN rst' PROVE rst'[e] \in 1..MaxRst
      <3>1. CASE e \notin DOMAIN rst
        BY <2>1, <2>2, <3>1, ServerAssumption DEF D!GetRstErrorCount
      <3>2. CASE e \in DOMAIN rst /\ e = code
        BY <2>1, <2>2, <3>2, ServerAssumption DEF D!GetRstErrorCount, CountsTyped
      <3>3. CASE e \in DOMAIN rst /\ e # code
        BY <2>1, <2>2, <3>3 DEF CountsTyped
      <3> QED BY <3>1, <3>2, <3>3
    <2>3. DOMAIN rst' \subseteq ErrorCodes
      BY <2>1 DEF CountsTyped
    <2> QED BY <2>1, <2>2, <2>3 DEF CountsTyped
  <1> QED BY Zenon, <1>2, <1>3, <1>4, <1>5, <1>6 DEF D!Next

LEMMA ConnectionsTyped == D!Spec => []D!TypeOK
  <1>1. ConnInv /\ CountsTyped => D!TypeOK
    BY Zenon DEF ConnInv, WriteTyped, CountsTyped, D!TypeOK
  <1> QED BY <1>1, ConnInit, ConnNext, CountsInit, CountsNext, PTL DEF D!Spec

\* The sessions created in a turn of the event loop are never more than
\* ProcessBufferedChlos allowed, and every variable of the stack and of the
\* dispatcher has its type.
THEOREM ServerStaysTyped ==
  ASSUME LateIdsAreUsedUp
  PROVE  Spec /\ D!Spec => []ServerTyped
  <1>1. IInv => TypeOK
    BY DEF IInv
  <1>2. TypeOK /\ D!TypeOK => ServerTyped
    BY DEF ServerTyped
  <1> QED BY <1>1, <1>2, ConnectionsTyped, StackInvariant, PTL

(***************************************************************************)
(* Identity.                                                               *)
(***************************************************************************)
\* Identities are numbered by the calls that added them.
ServersTyped ==
  /\ adds \in Nat
  /\ servers \in Seq([name : Names, ctx : Nat \ {0}])

Matching(h) == {i \in DOMAIN servers : I!MatchPattern(h, servers[i].name)}

IsFirst(i, is) == i \in is /\ \A j \in is : i <= j

\* GetServerIdentifyByName finds the first identity that matches.
FirstIsFound ==
  \A h \in Hosts : \A i \in Nat :
    ServersTyped /\ IsFirst(i, Matching(h)) => I!GetServerIdentifyByName(h) = servers[i]

LEMMA FindsFirst == FirstIsFound
  <1> SUFFICES ASSUME NEW h \in Hosts, NEW i \in Nat, ServersTyped, IsFirst(i, Matching(h))
               PROVE  I!GetServerIdentifyByName(h) = servers[i]
    BY DEF FirstIsFound
  <1>1. i \in Matching(h) /\ \A j \in Matching(h) : i <= j
    BY DEF IsFirst
  <1>2. \A j \in Matching(h) : (\A k \in Matching(h) : j <= k) => j = i
    BY <1>1 DEF ServersTyped, Matching
  <1>3. (CHOOSE j \in Matching(h) : \A k \in Matching(h) : j <= k) = i
    BY Zenon, <1>1, <1>2
  <1> QED BY Zenon, <1>1, <1>3 DEF I!GetServerIdentifyByName, Matching

LEMMA FindsFirstNext == FirstIsFound'
  BY FindsFirst, PTL

LEMMA NoneMatches ==
  ASSUME NEW h, Matching(h) = {}
  PROVE  I!GetServerIdentifyByName(h) = I!None
  BY DEF I!GetServerIdentifyByName, Matching

LEMMA InitTyped == I!Init => ServersTyped
  BY DEF I!Init, ServersTyped

\* A call adds an identity behind the others or none.
LEMMA AddEffect ==
  ASSUME ServersTyped, NEW name \in Names, NEW file \in Files, I!AddCertificate(name, file)
  PROVE  servers' = servers \/ servers' = Append(servers, [name |-> name, ctx |-> adds + 1])
  BY Zenon DEF I!AddCertificate, I!AddServerIdentify

LEMMA NextTyped == ServersTyped /\ [I!Next]_(I!vars) => ServersTyped'
  <1> SUFFICES ASSUME ServersTyped, [I!Next]_(I!vars) PROVE ServersTyped'
    OBVIOUS
  <1>1. ASSUME NEW name \in Names, NEW file \in Files, I!AddCertificate(name, file) PROVE ServersTyped'
    <2>1. adds' = adds + 1
      BY Zenon, <1>1 DEF I!AddCertificate
    <2>2. [name |-> name, ctx |-> adds + 1] \in [name : Names, ctx : Nat \ {0}]
      BY DEF ServersTyped
    <2>3. servers' \in Seq([name : Names, ctx : Nat \ {0}])
      <3> DEFINE S == [name : Names, ctx : Nat \ {0}]
      <3> HIDE DEF S
      <3>1. \A s \in S : Append(servers, s) \in Seq(S)
        BY DEF ServersTyped, S
      <3> QED BY Zenon, <1>1, <2>2, <3>1, AddEffect DEF ServersTyped, S
    <2> QED BY <2>1, <2>3 DEF ServersTyped
  <1>2. CASE UNCHANGED I!vars
    BY <1>2 DEF I!vars, ServersTyped
  <1> QED BY <1>1, <1>2 DEF I!Next

Less == {p \in Nat \X Nat : p[1] < p[2]}

\* A set of natural numbers that is not empty has a least element.
LEMMA HasLeast ==
  ASSUME NEW is \in SUBSET Nat, is # {}
  PROVE  \E i \in is : \A j \in is : i <= j
  <1>1. IsWellFoundedOn(Less, Nat)
    BY NatLessThanWellFounded DEF Less, OpToRel
  <1>2. \E i \in is : \A j \in is : ~(<<j, i>> \in Less)
    BY Zenon, <1>1, WFMin
  <1>3. \A i, j \in Nat : <<j, i>> \in Less <=> j < i
    BY DEF Less
  <1>4. PICK i \in is : \A j \in is : ~(<<j, i>> \in Less)
    BY <1>2
  <1>5. ASSUME NEW j \in is PROVE i <= j
    <2>1. i \in Nat /\ j \in Nat /\ ~(j < i)
      BY Zenon, <1>3, <1>4
    <2> QED BY <2>1
  <1> QED BY <1>5

\* An identity added behind the others is never the first for a host that had one.
LEMMA AppendKeepsFirst ==
  ASSUME ServersTyped, ServersTyped', NEW s \in [name : Names, ctx : Nat \ {0}],
         servers' = Append(servers, s), NEW h \in Hosts, I!GetServerIdentifyByName(h) # I!None
  PROVE  I!GetServerIdentifyByName(h)' = I!GetServerIdentifyByName(h)
  <1>1. Matching(h) # {} /\ Matching(h) \in SUBSET Nat
    BY NoneMatches DEF Matching, ServersTyped
  <1>2. PICK i \in Matching(h) : IsFirst(i, Matching(h))
    BY <1>1, HasLeast DEF IsFirst
  <1>3. i \in DOMAIN servers /\ \A j \in DOMAIN servers : servers'[j] = servers[j] /\ j \in DOMAIN servers'
    BY <1>2 DEF Matching, ServersTyped
  <1>4. \A j \in DOMAIN servers' : j \in DOMAIN servers \/ i <= j
    BY <1>3 DEF ServersTyped
  <1>5. Matching(h)' = {j \in DOMAIN servers' : I!MatchPattern(h, servers'[j].name)}
    BY DEF Matching, I!MatchPattern, I!StarAt
  <1>6. IsFirst(i, Matching(h))'
    BY <1>2, <1>3, <1>4, <1>5 DEF IsFirst, Matching
  <1>7. I!GetServerIdentifyByName(h)' = servers'[i]
    <2>1. i \in Nat
      BY <1>1
    <2> QED BY Zenon, <1>6, <2>1, FindsFirstNext DEF FirstIsFound
  <1>8. I!GetServerIdentifyByName(h) = servers[i]
    BY <1>1, <1>2, FindsFirst DEF FirstIsFound
  <1> QED BY <1>3, <1>7, <1>8

\* A host keeps the server identity it once has: AddServerIdentify appends, and
\* GetServerIdentifyByName takes the first that matches.
LEMMA IdentitiesStay == I!Spec => I!IdentityStable
  <1>1. ASSUME ServersTyped, ServersTyped', [I!Next]_(I!vars), NEW h \in Hosts, I!GetServerIdentifyByName(h) # I!None
        PROVE  I!GetServerIdentifyByName(h)' = I!GetServerIdentifyByName(h)
    <2>1. CASE servers' = servers
      BY <2>1 DEF I!GetServerIdentifyByName
    <2>2. ASSUME NEW name \in Names, NEW file \in Files, I!AddCertificate(name, file)
          PROVE  I!GetServerIdentifyByName(h)' = I!GetServerIdentifyByName(h)
      <3>1. [name |-> name, ctx |-> adds + 1] \in [name : Names, ctx : Nat \ {0}]
        BY <1>1 DEF ServersTyped
      <3> QED BY Zenon, <1>1, <2>1, <2>2, <3>1, AddEffect, AppendKeepsFirst
    <2> QED BY <1>1, <2>1, <2>2 DEF I!Next, I!vars
  <1>2. ServersTyped /\ ServersTyped' /\ [I!Next]_(I!vars) =>
          [\A h \in Hosts : I!GetServerIdentifyByName(h) # I!None =>
             I!GetServerIdentifyByName(h)' = I!GetServerIdentifyByName(h)]_(I!vars)
    BY <1>1
  <1> QED BY <1>2, InitTyped, NextTyped, PTL DEF I!Spec, I!IdentityStable

(***************************************************************************)
(* The certificates: the map knows the names of all certificates, and for  *)
(* each the newest with it.                                                *)
(***************************************************************************)
Certificates == [sans : SUBSET Seq(STRING), ctx : Nat]

CertsTyped == adds \in Nat /\ certificates \in Seq(Certificates)

MapFollows ==
  /\ \A i \in DOMAIN certificates : certificates[i].sans \subseteq DOMAIN certificate_map
  /\ \A n \in DOMAIN certificate_map : \E i \in DOMAIN certificates :
       /\ n \in certificates[i].sans /\ certificate_map[n] = certificates[i]
       /\ \A j \in DOMAIN certificates : n \in certificates[j].sans => i <= j

LEMMA CertsInit == I!Init => CertsTyped /\ MapFollows
  BY DEF I!Init, CertsTyped, MapFollows

\* A certificate before all others takes its names and leaves the rest.
LEMMA PushFront ==
  ASSUME CertsTyped, MapFollows, NEW c \in Certificates,
         certificates' = <<c>> \o certificates,
         certificate_map' = [n \in DOMAIN certificate_map \cup c.sans |->
                               IF n \in c.sans THEN c ELSE certificate_map[n]]
  PROVE  MapFollows'
  <1>1. /\ DOMAIN certificates = 1..Len(certificates) /\ Len(certificates) \in Nat
        /\ DOMAIN certificates' = 1..(Len(certificates) + 1)
        /\ certificates'[1] = c
        /\ \A i \in 1..Len(certificates) : i + 1 \in DOMAIN certificates' /\ certificates'[i + 1] = certificates[i]
    BY DEF CertsTyped
  <1>2. \A i \in DOMAIN certificates' : i = 1 \/ \E k \in 1..Len(certificates) : i = k + 1
    <2> SUFFICES ASSUME NEW i \in DOMAIN certificates', i # 1 PROVE \E k \in 1..Len(certificates) : i = k + 1
      OBVIOUS
    <2>1. i - 1 \in 1..Len(certificates) /\ i = (i - 1) + 1
      BY <1>1
    <2> QED BY <2>1
  <1>3. ASSUME NEW i \in DOMAIN certificates' PROVE certificates'[i].sans \subseteq DOMAIN certificate_map'
    <2>1. CASE i = 1
      BY <1>1, <2>1
    <2>2. ASSUME NEW k \in 1..Len(certificates), i = k + 1
          PROVE  certificates'[i].sans \subseteq DOMAIN certificate_map'
      BY ONLY MapFollows, <1>1, <2>2,
              certificate_map' = [n \in DOMAIN certificate_map \cup c.sans |->
                               IF n \in c.sans THEN c ELSE certificate_map[n]]
         DEF MapFollows
    <2> QED BY Zenon, <1>2, <1>3, <2>1, <2>2
  <1>4. ASSUME NEW n \in DOMAIN certificate_map'
        PROVE  \E i \in DOMAIN certificates' :
                 /\ n \in certificates'[i].sans /\ certificate_map'[n] = certificates'[i]
                 /\ \A j \in DOMAIN certificates' : n \in certificates'[j].sans => i <= j
    <2>1. CASE n \in c.sans
      <3>1. 1 \in DOMAIN certificates' /\ \A j \in DOMAIN certificates' : 1 <= j
        BY <1>1
      <3>2. certificate_map'[n] = c
        BY <1>4, <2>1
      <3> QED BY Zenon, <1>1, <2>1, <3>1, <3>2
    <2>2. CASE n \notin c.sans
      <3>1. n \in DOMAIN certificate_map /\ certificate_map'[n] = certificate_map[n]
        BY <1>4, <2>2
      <3>2. PICK i \in DOMAIN certificates :
              /\ n \in certificates[i].sans /\ certificate_map[n] = certificates[i]
              /\ \A j \in DOMAIN certificates : n \in certificates[j].sans => i <= j
        BY <3>1 DEF MapFollows
      <3>3. /\ i + 1 \in DOMAIN certificates'
            /\ n \in certificates'[i + 1].sans /\ certificate_map'[n] = certificates'[i + 1]
        BY <1>1, <3>1, <3>2
      <3>4. ASSUME NEW j \in DOMAIN certificates', n \in certificates'[j].sans PROVE i + 1 <= j
        <4>1. j # 1
          BY <1>1, <2>2, <3>4
        <4>2. PICK k \in 1..Len(certificates) : j = k + 1
          BY <1>2, <3>4, <4>1
        <4>3. n \in certificates[k].sans
          BY <1>1, <3>4, <4>2
        <4>4. i <= k
          BY <1>1, <3>2, <4>3
        <4> QED BY <1>1, <4>2, <4>4
      <3> QED BY <3>3, <3>4
    <2> QED BY Zenon, <2>1, <2>2
  <1> QED BY Zenon, <1>3, <1>4 DEF MapFollows

LEMMA CertsNext == CertsTyped /\ MapFollows /\ [I!Next]_(I!vars) => CertsTyped' /\ MapFollows'
  <1> SUFFICES ASSUME CertsTyped, MapFollows, [I!Next]_(I!vars) PROVE CertsTyped' /\ MapFollows'
    OBVIOUS
  <1>1. ASSUME UNCHANGED <<certificates, certificate_map>>, adds' \in Nat PROVE CertsTyped' /\ MapFollows'
    BY <1>1 DEF CertsTyped, MapFollows
  <1>2. ASSUME NEW name \in Names, NEW file \in Files, I!AddCertificate(name, file)
        PROVE  CertsTyped' /\ MapFollows'
    <2> DEFINE c == [sans |-> file.sans, ctx |-> adds + 1]
    <2>0. adds' = adds + 1
      BY Zenon, <1>2 DEF I!AddCertificate
    <2>1. adds' \in Nat /\ adds + 1 \in Nat
      BY <2>0 DEF CertsTyped
    <2>2. CASE file.state # "good"
      <3>1. UNCHANGED <<certificates, certificate_map>>
        BY Zenon, <1>2, <2>2 DEF I!AddCertificate, I!AddCertificateChainFromPath, I!AddCertificateChain
      <3> QED BY <1>1, <2>1, <3>1
    <2>3. CASE file.state = "good"
      <3>1. /\ certificates' = <<c>> \o certificates
            /\ certificate_map' = [n \in DOMAIN certificate_map \cup file.sans |->
                                     IF n \in file.sans THEN c ELSE certificate_map[n]]
        BY Zenon, <1>2, <2>3 DEF I!AddCertificate, I!AddCertificateChainFromPath, I!AddCertificateChain
      <3>2. c \in Certificates /\ c.sans = file.sans
        BY <1>2, <2>1, ServerAssumption DEF Certificates
      <3> HIDE DEF c
      <3>3. MapFollows'
        BY <3>1, <3>2, PushFront
      <3>4. certificates' \in Seq(Certificates)
        BY <3>1, <3>2 DEF CertsTyped
      <3> QED BY <2>1, <3>3, <3>4 DEF CertsTyped
    <2> QED BY <2>2, <2>3
  <1>3. CASE UNCHANGED I!vars
    BY <1>1, <1>3 DEF I!vars, CertsTyped
  <1> QED BY <1>2, <1>3 DEF I!Next

\* The least index is the one CHOOSE finds.
LEMMA LeastChosen ==
  ASSUME NEW is \in SUBSET Nat, NEW i \in is, \A j \in is : i <= j
  PROVE  (CHOOSE k \in is : \A j \in is : k <= j) = i
  <1> DEFINE k == CHOOSE k \in is : \A j \in is : k <= j
  <1>1. k \in is /\ \A j \in is : k <= j
    BY Zenon
  <1> HIDE DEF k
  <1>2. k = i
    BY <1>1
  <1> QED BY Zenon, <1>2 DEF k

\* The one pattern that covers a host without being it is the wildcard that
\* GetCertificate looks for.
LEMMA WildcardCovers ==
  ASSUME NEW h \in Seq(STRING), NEW san \in Seq(STRING)
  PROVE  /\ I!Covers(san, h) /\ san # h => I!DotAt(h) # {} /\ san = I!Wildcard(h)
         /\ I!DotAt(h) # {} /\ san = I!Wildcard(h) => I!Covers(san, h)
  <1>0. Len(h) \in Nat /\ Len(san) \in Nat /\ I!DotAt(h) \in SUBSET Nat
    BY DEF I!DotAt
  <1>1. ASSUME NEW d \in I!DotAt(h), \A j \in I!DotAt(h) : d <= j
        PROVE  I!Wildcard(h) = <<"*">> \o SubSeq(h, d, Len(h))
    <2>1. (CHOOSE k \in I!DotAt(h) : \A j \in I!DotAt(h) : k <= j) = d
      BY ONLY <1>0, <1>1, LeastChosen
    <2> QED BY Zenon, <2>1 DEF I!Wildcard
  <1>2. ASSUME I!Covers(san, h), san # h PROVE I!DotAt(h) # {} /\ san = I!Wildcard(h)
    <2>1. san # <<>> /\ san[1] = "*"
      BY Zenon, <1>2 DEF I!Covers
    <2>2. PICK d \in I!DotAt(h) : /\ SubSeq(h, d, Len(h)) = SubSeq(san, 2, Len(san))
                                  /\ \A j \in 1..(d - 1) : h[j] # "."
      BY Zenon, <1>2 DEF I!Covers
    <2>3. \A j \in I!DotAt(h) : d <= j
      BY <1>0, <2>2 DEF I!DotAt
    <2>4. san = <<"*">> \o SubSeq(san, 2, Len(san))
      BY <2>1
    <2> QED BY Zenon, <1>1, <2>2, <2>3, <2>4
  <1>3. ASSUME I!DotAt(h) # {}, san = I!Wildcard(h) PROVE I!Covers(san, h)
    <2>1. PICK d \in I!DotAt(h) : \A j \in I!DotAt(h) : d <= j
      BY ONLY <1>0, <1>3, HasLeast
    <2>2. san = <<"*">> \o SubSeq(h, d, Len(h))
      BY Zenon, <1>1, <1>3, <2>1
    <2>3. d \in 1..Len(h) /\ SubSeq(h, d, Len(h)) \in Seq(STRING)
      BY DEF I!DotAt
    <2>4. san # <<>> /\ san[1] = "*" /\ SubSeq(san, 2, Len(san)) = SubSeq(h, d, Len(h))
      BY ONLY <2>2, <2>3, h \in Seq(STRING)
    <2>5. \A j \in 1..(d - 1) : h[j] # "."
      BY <1>0, <2>1, <2>3 DEF I!DotAt
    <2> QED BY Zenon, <2>4, <2>5 DEF I!Covers
  <1> QED BY Zenon, <1>2, <1>3

\* What the map has for a name is the newest certificate with that name.
LEMMA MapHasNewest ==
  ASSUME CertsTyped, MapFollows, NEW n
  PROVE  /\ n \in DOMAIN certificate_map <=> I!Naming(n) # {}
         /\ I!Naming(n) # {} => certificate_map[n] = I!Newest(I!Naming(n))
  <1>1. n \in DOMAIN certificate_map <=> I!Naming(n) # {}
    BY Zenon DEF MapFollows, I!Naming
  <1>2. ASSUME n \in DOMAIN certificate_map PROVE certificate_map[n] = I!Newest(I!Naming(n))
    <2>1. PICK i \in DOMAIN certificates :
            /\ n \in certificates[i].sans /\ certificate_map[n] = certificates[i]
            /\ \A j \in DOMAIN certificates : n \in certificates[j].sans => i <= j
      BY Zenon, <1>2 DEF MapFollows
    <2>2. i \in I!Naming(n) /\ \A j \in I!Naming(n) : i <= j
      BY Zenon, <2>1 DEF I!Naming
    <2>3. I!Naming(n) \in SUBSET Nat
      BY DEF I!Naming, CertsTyped
    <2>4. (CHOOSE k \in I!Naming(n) : \A j \in I!Naming(n) : k <= j) = i
      BY ONLY <2>2, <2>3, LeastChosen
    <2> QED BY Zenon, <2>1, <2>4 DEF I!Newest
  <1> QED BY Zenon, <1>1, <1>2

LEMMA FollowedIsNewest == CertsTyped /\ MapFollows => I!NewestThatCovers
  <1> SUFFICES ASSUME CertsTyped, MapFollows, NEW h \in Hosts
               PROVE  /\ I!Naming(h) # {} => I!GetCertificate(h) = I!Newest(I!Naming(h))
                      /\ I!Naming(h) = {} /\ I!Covering(h) # {}
                           => I!GetCertificate(h) = I!Newest(I!Covering(h))
    BY Zenon DEF I!NewestThatCovers
  <1>1. ASSUME I!Naming(h) # {} PROVE I!GetCertificate(h) = I!Newest(I!Naming(h))
    <2>1. h \in DOMAIN certificate_map /\ certificate_map[h] = I!Newest(I!Naming(h))
      BY Zenon, <1>1, MapHasNewest
    <2>2. I!GetCertificate(h) = certificate_map[h]
      BY <2>1 DEF I!GetCertificate
    <2> QED BY Zenon, <2>1, <2>2
  <1>2. ASSUME I!Naming(h) = {}, I!Covering(h) # {}
        PROVE  I!GetCertificate(h) = I!Newest(I!Covering(h))
    <2>0. h \in Seq(STRING)
      BY Zenon, ServerAssumption
    <2>1. ASSUME NEW i \in DOMAIN certificates, NEW san \in certificates[i].sans
          PROVE  san \in Seq(STRING) /\ san # h
      <3>0. certificates[i] \in Certificates
        BY DEF CertsTyped
      <3>1. certificates[i].sans \in SUBSET Seq(STRING)
        BY ONLY <3>0 DEF Certificates
      <3>2. h \notin certificates[i].sans
        BY Zenon, <1>2 DEF I!Naming
      <3> QED BY Zenon, <3>1, <3>2
    <2>2. I!DotAt(h) # {}
      BY Zenon, <1>2, <2>0, <2>1, WildcardCovers DEF I!Covering
    <2>3. I!Covering(h) = I!Naming(I!Wildcard(h))
      <3>1. ASSUME NEW i \in DOMAIN certificates
            PROVE  (\E san \in certificates[i].sans : I!Covers(san, h))
                     <=> I!Wildcard(h) \in certificates[i].sans
        BY Zenon, <2>0, <2>1, <2>2, WildcardCovers
      <3> QED BY Zenon, <3>1 DEF I!Covering, I!Naming
    <2>4. /\ I!Wildcard(h) \in DOMAIN certificate_map
          /\ certificate_map[I!Wildcard(h)] = I!Newest(I!Covering(h))
      BY Zenon, <1>2, <2>3, MapHasNewest
    <2>5. h \notin DOMAIN certificate_map
      BY Zenon, <1>2, MapHasNewest
    <2>6. I!GetCertificate(h) = certificate_map[I!Wildcard(h)]
      BY <2>2, <2>4, <2>5 DEF I!GetCertificate
    <2> QED BY Zenon, <2>4, <2>6
  <1> QED BY Zenon, <1>1, <1>2

\* Whatever quic_stack_add_certificate is called with, a client gets the newest
\* certificate that names its host and else the newest with a wildcard for it,
\* and no later call hands a host from one identity to another.
THEOREM CertificatesStay == I!Spec => CertificatesKept
  <1>1. CertsTyped /\ MapFollows => I!NewestThatCovers
    BY FollowedIsNewest
  <1> QED BY <1>1, CertsInit, CertsNext, IdentitiesStay, PTL DEF I!Spec, CertificatesKept

(***************************************************************************)
(* ServerConfig.                                                           *)
(***************************************************************************)
Config(n, seed) == W!GenerateConfigProtobuf(W!InitializeConfigOptions(n), seed)

InCluster(n) == n # NoName /\ W!Prefix(n) # <<>>

\* Every config was made by a start of some worker.
Configs == {Config(n, s) : n \in HostNames \cup {NoName}, s \in Nat}

HandedOut(c) ==
  \E n \in HostNames \cup {NoName}, s \in Nat :
    c = [scid |-> Config(n, s).scid, msg |-> Config(n, s).msg]

FromStart ==
  /\ starts \in Nat
  /\ host \in [Workers -> HostNames \cup {NoName}]
  /\ running \in [Workers -> {W!Off} \cup Configs]
  /\ \A w \in Workers : running[w] # W!Off => \E s \in Nat : running[w] = Config(host[w], s)
  /\ \A c \in cached : HandedOut(c)

\* The config of a machine in a cluster is a function of the prefix.
LEMMA ClusterConfig ==
  ASSUME NEW n, NEW seed, InCluster(n)
  PROVE  LET id == W!Truncated(16, W!SHA256(W!Prefix(n)))
             msg == [PUBS |-> <<W!SHA256(id)>>, EXPY |-> W!scfgExpiryTime, ORBT |-> W!Truncated(8, W!SHA256(W!Prefix(n)))]
         IN  Config(n, seed) = [scid |-> id, msg |-> msg, key |-> <<W!SHA256(id)>>]
  <1> DEFINE id == W!Truncated(16, W!SHA256(W!Prefix(n)))
             orbit == W!Truncated(8, W!SHA256(W!Prefix(n)))
             options == W!InitializeConfigOptions(n)
  <1>1. options = [id |-> id, orbit |-> orbit, expiry_time |-> W!scfgExpiryTime]
    BY DEF InCluster, W!InitializeConfigOptions
  <1>2. id # <<>> /\ orbit # <<>> /\ W!scfgExpiryTime # <<>>
    BY DEF W!Truncated, W!scfgExpiryTime
  <1> HIDE DEF id, orbit, options
  <1>0. options.id = id /\ options.orbit = orbit /\ options.expiry_time = W!scfgExpiryTime
    BY ONLY <1>1
  <1>3. W!PrivateKey(options, seed) = W!SHA256(id)
    BY Zenon, <1>0, <1>2 DEF W!PrivateKey
  <1>4. \A msg : W!Scid(options, msg) = id
    BY Zenon, <1>0, <1>2 DEF W!Scid
  <1>5. <<W!PrivateKey(options, seed)>> \o (IF P256 THEN <<W!Random("P256", seed)>> ELSE <<>>) = <<W!SHA256(id)>>
    BY <1>3, ServerAssumption
  <1>6. W!GenerateConfigProtobuf(options, seed) =
          [scid |-> id, msg |-> [PUBS |-> <<W!SHA256(id)>>, EXPY |-> W!scfgExpiryTime, ORBT |-> orbit],
           key |-> <<W!SHA256(id)>>]
    BY Zenon, <1>0, <1>2, <1>4, <1>5 DEF W!GenerateConfigProtobuf
  <1> QED BY Zenon, <1>6 DEF Config, id, orbit, options

\* A config holds the public values to its keys, whatever the machine.
LEMMA ConfigShape ==
  ASSUME NEW n, NEW seed
  PROVE  /\ Config(n, seed).key = Config(n, seed).msg.PUBS
         /\ \E p, e, o : Config(n, seed).msg = [PUBS |-> p, EXPY |-> e, ORBT |-> o]
  <1>1. \E id, p, e, o : Config(n, seed) = [scid |-> id, msg |-> [PUBS |-> p, EXPY |-> e, ORBT |-> o], key |-> p]
    BY Zenon DEF Config, W!GenerateConfigProtobuf
  <1>2. PICK id, p, e, o : Config(n, seed) = [scid |-> id, msg |-> [PUBS |-> p, EXPY |-> e, ORBT |-> o], key |-> p]
    BY Zenon, <1>1
  <1>3. Config(n, seed).msg = [PUBS |-> p, EXPY |-> e, ORBT |-> o] /\ Config(n, seed).key = p
    BY <1>2
  <1>4. Config(n, seed).msg.PUBS = p
    BY <1>3
  <1> QED BY Zenon, <1>3, <1>4

\* A digest tells its inputs apart, also when it is cut short.
LEMMA DigestInjective ==
  ASSUME NEW k, NEW a, NEW b, W!Truncated(k, W!SHA256(a)) = W!Truncated(k, W!SHA256(b))
  PROVE  a = b
  <1>1. W!Truncated(k, W!SHA256(a))[2][2] = a /\ W!Truncated(k, W!SHA256(b))[2][2] = b
    BY DEF W!Truncated, W!SHA256
  <1> QED BY <1>1

\* Outside a cluster the SCID is the digest of the config.
LEMMA LoneScid ==
  ASSUME NEW n, NEW seed, ~InCluster(n)
  PROVE  Config(n, seed).scid = W!Truncated(16, W!SHA256(W!Serialized(Config(n, seed).msg)))
  <1>1. W!InitializeConfigOptions(n).id = <<>>
    BY DEF InCluster, W!InitializeConfigOptions
  <1> QED BY Zenon, <1>1 DEF Config, W!GenerateConfigProtobuf, W!Scid

LEMMA SameScid ==
  ASSUME NEW m \in HostNames \cup {NoName}, NEW n \in HostNames \cup {NoName}, NEW s, NEW t,
         Config(m, s).scid = Config(n, t).scid
  PROVE  Config(m, s).msg = Config(n, t).msg
  <1>1. ASSUME NEW k \in HostNames \cup {NoName}, NEW l \in HostNames \cup {NoName}, NEW u, NEW v,
               InCluster(k), ~InCluster(l)
        PROVE  Config(k, u).scid # Config(l, v).scid
    <2>1. Config(k, u).scid = W!Truncated(16, W!SHA256(W!Prefix(k)))
      BY <1>1, ClusterConfig
    <2>2. Config(l, v).scid = W!Truncated(16, W!SHA256(W!Serialized(Config(l, v).msg)))
      BY <1>1, LoneScid
    <2>3. W!Prefix(k) # W!Serialized(Config(l, v).msg)
      <3>1. W!Prefix(k)[1] # "SCFG"
        BY Zenon, <1>1, ServerAssumption DEF InCluster
      <3>2. W!Serialized(Config(l, v).msg)[1] = "SCFG"
        BY DEF W!Serialized
      <3> QED BY <3>1, <3>2
    <2> QED BY <2>1, <2>2, <2>3, DigestInjective
  <1>2. CASE InCluster(m) /\ InCluster(n)
    <2>1. Config(m, s).scid = W!Truncated(16, W!SHA256(W!Prefix(m))) /\ Config(n, t).scid = W!Truncated(16, W!SHA256(W!Prefix(n)))
      BY <1>2, ClusterConfig
    <2>2. W!Prefix(m) = W!Prefix(n)
      BY Zenon, <2>1, DigestInjective
    <2> QED BY <1>2, <2>2, ClusterConfig
  <1>3. CASE ~InCluster(m) /\ ~InCluster(n)
    <2>1. W!Serialized(Config(m, s).msg) = W!Serialized(Config(n, t).msg)
      BY <1>3, LoneScid, DigestInjective
    <2>2. PICK p, e, o : Config(m, s).msg = [PUBS |-> p, EXPY |-> e, ORBT |-> o]
      BY Zenon, ConfigShape
    <2>3. PICK q, f, r : Config(n, t).msg = [PUBS |-> q, EXPY |-> f, ORBT |-> r]
      BY Zenon, ConfigShape
    <2>4. W!Serialized(Config(m, s).msg) = <<"SCFG", p, e, o>>
      BY ONLY <2>2 DEF W!Serialized
    <2>5. W!Serialized(Config(n, t).msg) = <<"SCFG", q, f, r>>
      BY ONLY <2>3 DEF W!Serialized
    <2>6. <<"SCFG", p, e, o>> = <<"SCFG", q, f, r>>
      BY Zenon, <2>1, <2>4, <2>5
    <2>7. p = q /\ e = f /\ o = r
      BY Zenon, <2>6
    <2> QED BY Zenon, <2>2, <2>3, <2>7
  <1> QED BY <1>1, <1>2, <1>3

LEMMA InitFromStart == W!Init => FromStart
  BY DEF W!Init, FromStart

LEMMA NextFromStart == FromStart /\ [W!Next]_(W!vars) => FromStart'
  <1> SUFFICES ASSUME FromStart, [W!Next]_(W!vars) PROVE FromStart'
    OBVIOUS
  <1>1. ASSUME NEW w \in Workers, W!Start(w) PROVE FromStart'
    <2>1. running' = [running EXCEPT ![w] = Config(host[w], starts + 1)] /\ starts' = starts + 1
      BY <1>1 DEF W!Start, Config
    <2>2. host[w] \in HostNames \cup {NoName} /\ starts + 1 \in Nat
      BY DEF FromStart
    <2>3. Config(host[w], starts + 1) \in Configs
      BY <2>2 DEF Configs
    <2> QED BY <1>1, <2>1, <2>2, <2>3 DEF W!Start, FromStart
  <1>2. ASSUME NEW w \in Workers, W!Crash(w) PROVE FromStart'
    BY <1>2 DEF W!Crash, FromStart
  <1>3. ASSUME NEW w \in Workers, W!Handshake(w) PROVE FromStart'
    <2>1. PICK s \in Nat : running[w] = Config(host[w], s)
      BY <1>3 DEF W!Handshake, FromStart
    <2>2. host[w] \in HostNames \cup {NoName}
      BY DEF FromStart
    <2>3. cached' = cached \cup {[scid |-> Config(host[w], s).scid, msg |-> Config(host[w], s).msg]}
      BY <1>3, <2>1 DEF W!Handshake
    <2>4. HandedOut([scid |-> Config(host[w], s).scid, msg |-> Config(host[w], s).msg])
      BY Zenon, <2>2 DEF HandedOut
    <2>5. \A c \in cached' : HandedOut(c)
      BY Zenon, <2>3, <2>4 DEF FromStart
    <2> QED BY Zenon, <1>3, <2>5 DEF W!Handshake, FromStart
  <1>4. CASE UNCHANGED W!vars
    BY <1>4 DEF W!vars, FromStart
  <1> QED BY <1>1, <1>2, <1>3, <1>4 DEF W!Next

\* A worker that recognizes the SCID of a client's config has its private keys.
LEMMA ScidIsConfig == FromStart => W!ScidMeansConfig
  <1> SUFFICES ASSUME FromStart, NEW w \in Workers, NEW c \in cached,
                      running[w] # W!Off, running[w].scid = c.scid
               PROVE  running[w].key = c.msg.PUBS /\ running[w].msg = c.msg
    BY DEF W!ScidMeansConfig
  <1>1. PICK s \in Nat : running[w] = Config(host[w], s)
    BY Zenon DEF FromStart
  <1>2. PICK n \in HostNames \cup {NoName}, t \in Nat : c = [scid |-> Config(n, t).scid, msg |-> Config(n, t).msg]
    BY Zenon DEF FromStart, HandedOut
  <1>3. host[w] \in HostNames \cup {NoName}
    BY DEF FromStart
  <1>6. c.scid = Config(n, t).scid /\ c.msg = Config(n, t).msg
    BY ONLY <1>2
  <1>4. Config(host[w], s).msg = Config(n, t).msg
    <2>1. Config(host[w], s).scid = Config(n, t).scid
      BY Zenon, <1>1, <1>6
    <2> QED BY <1>3, <2>1, SameScid
  <1>5. Config(host[w], s).key = Config(host[w], s).msg.PUBS
    BY ConfigShape
  <1> QED BY Zenon, <1>1, <1>6, <1>4, <1>5

\* The running workers of a cluster have one config.
LEMMA ClusterHasOneConfig == FromStart => W!ClusterShares
  <1> SUFFICES ASSUME FromStart, NEW v \in Workers, NEW w \in Workers,
                      running[v] # W!Off, running[w] # W!Off, host[v] # NoName, host[w] # NoName,
                      W!Prefix(host[v]) = W!Prefix(host[w]), W!Prefix(host[v]) # <<>>
               PROVE  running[v] = running[w]
    BY DEF W!ClusterShares
  <1>1. PICK s \in Nat : running[v] = Config(host[v], s)
    BY Zenon DEF FromStart
  <1>2. PICK t \in Nat : running[w] = Config(host[w], t)
    BY Zenon DEF FromStart
  <1>3. InCluster(host[v]) /\ InCluster(host[w])
    BY DEF InCluster
  <1> QED BY <1>1, <1>2, <1>3, ClusterConfig

\* A worker that recognizes the SCID of a client's config has its private keys,
\* whichever worker made the config and whatever was restarted since, and the
\* running workers of a cluster have one config (GenerateConfigProtobuf and
\* InitializeConfigOptions, which takes the prefix that the hosts share).
THEOREM ConfigsAreUnderstood == W!Spec => []ConfigsUnderstood
  <1>1. FromStart => ConfigsUnderstood
    BY ScidIsConfig, ClusterHasOneConfig DEF ConfigsUnderstood
  <1> QED BY <1>1, InitFromStart, NextFromStart, PTL DEF W!Spec

(***************************************************************************)
(* The server as a whole: its steps are steps of its parts.                *)
(***************************************************************************)
LP == INSTANCE StackProofs WITH CidsComeBack <- FALSE, LateCalls <- TRUE

\* Late and LP are instances of the same module with the same constants.
LEMMA LateSteps == [Late!Next]_vars => [LP!Next]_(LP!vars)
  BY Zenon DEF Late!Next, LP!Next, vars, streamVars, appVars,
     LP!vars, LP!streamVars, LP!appVars, Late!streamVars, Late!appVars,
     Late!Ids, LP!Ids, Late!OfSession, LP!OfSession, Late!GetSession, LP!GetSession, Late!GetStream,
     LP!GetStream, Late!CreateQuicSession, LP!CreateQuicSession, Late!CreateIncomingStream,
     LP!CreateIncomingStream, Late!OnRequestHeader, LP!OnRequestHeader, Late!Forget, LP!Forget,
     Late!Requests, LP!Requests, Late!OnRequestClose, LP!OnRequestClose, Late!Report, LP!Report,
     Late!OnClose, LP!OnClose, Late!LeaveMap, LP!LeaveMap, Late!OnStreamClosed, LP!OnStreamClosed,
     Late!StreamCloses, LP!StreamCloses, Late!ConnectionCloses, LP!ConnectionCloses,
     Late!TimeWaitEnds, LP!TimeWaitEnds, Late!CallbackRejects, LP!CallbackRejects, Late!Calls,
     LP!Calls, Late!CloseStream, LP!CloseStream, Late!DroppedCloses, LP!DroppedCloses,
     Late!DroppedIsDeleted, LP!DroppedIsDeleted, Late!AddOnCanWriteCallback,
     LP!AddOnCanWriteCallback, Late!OnCanWriteNewData, LP!OnCanWriteNewData

LEMMA PartsStep ==
  ASSUME [ServerNext]_allVars
  PROVE  /\ [D!Next]_(D!vars) /\ [I!Next]_(I!vars) /\ [W!Next]_(W!vars)
         /\ part' = part
         /\ part # "late" => [Next]_vars
         /\ part = "late" => [LP!Next]_(LP!vars)
  <1>1. UNCHANGED connVars => UNCHANGED D!vars
    BY Zenon DEF connVars, D!vars, D!connVars, D!writeVars
  <1>2. UNCHANGED certVars => UNCHANGED I!vars
    BY Zenon DEF certVars, I!vars
  <1>3. UNCHANGED configVars => UNCHANGED W!vars
    BY Zenon DEF configVars, W!vars
  <1>4. CASE part = "requests" /\ Next /\ UNCHANGED <<part, connVars, certVars, configVars>>
    BY Zenon, <1>1, <1>2, <1>3, <1>4
  <1>5. CASE part = "late" /\ Late!Next /\ UNCHANGED <<part, connVars, certVars, configVars>>
    BY Zenon, <1>1, <1>2, <1>3, <1>5, LateSteps
  <1>6. CASE /\ D!Next \/ UNCHANGED connVars
             /\ I!Next \/ UNCHANGED certVars
             /\ W!Next \/ UNCHANGED configVars
             /\ UNCHANGED <<vars, part>>
    BY Zenon, <1>1, <1>2, <1>3, <1>6, LateSteps
  <1> QED BY Zenon, <1>4, <1>5, <1>6 DEF ServerNext, allVars

\* The assumption of Stack, for Late.
LEMMA LateAssumption ==
  MaxRequests \in Nat /\ FALSE \in BOOLEAN /\ TRUE \in BOOLEAN /\ StrayCloses \in BOOLEAN
  BY StackAssumption

RequestsInv == IF part = "late" THEN LP!IInv ELSE IInv

LEMMA RequestsInit == ServerInit => RequestsInv
  <1>1. Init => LP!Init
    BY Zenon DEF Init, LP!Init, Ids, LP!Ids, Requests, LP!Requests
  <1> QED BY Zenon, <1>1, InitIInv, LateAssumption, LP!InitIInv DEF ServerInit, RequestsInv

LEMMA RequestsNext ==
  ASSUME LateIdsAreUsedUp
  PROVE  RequestsInv /\ [ServerNext]_allVars => RequestsInv'
  <1> SUFFICES ASSUME RequestsInv, [ServerNext]_allVars PROVE RequestsInv'
    OBVIOUS
  <1>1. CASE part = "late"
    <2>1. LP!IInv /\ [LP!Next]_(LP!vars) /\ part' = "late"
      BY Zenon, <1>1, PartsStep DEF RequestsInv
    <2>2. LP!LateIdsAreUsedUp
      BY DEF LP!LateIdsAreUsedUp
    <2>3. LP!IInv'
      BY Zenon, <2>1, <2>2, LateAssumption, LP!NextIInv
    <2> QED BY Zenon, <2>1, <2>3 DEF RequestsInv
  <1>2. CASE part # "late"
    <2>1. IInv /\ [Next]_vars /\ part' # "late"
      BY Zenon, <1>2, PartsStep DEF RequestsInv
    <2>2. IInv'
      BY Zenon, <2>1, NextIInv
    <2> QED BY Zenon, <2>1, <2>2 DEF RequestsInv
  <1> QED BY Zenon, <1>1, <1>2

LEMMA RequestsRight == RequestsInv => RightStream /\ TypeOK
  <1>1. LP!RightStream => RightStream
    <2>1. LP!Reachable => Reachable
      BY Zenon DEF LP!Reachable, Reachable, LP!GetStream, GetStream, LP!GetSession, GetSession, LP!Ids, Ids
    <2>2. ASSUME NEW id, NEW r PROVE Reached(id, r) \subseteq LP!Reached(id, r)
      BY Zenon DEF Reached, LP!Reached, Calls, LP!Calls, LP!GetStream, GetStream, LP!GetSession, GetSession
    <2>3. LP!NoMixUp => NoMixUp
      BY Zenon, <2>2 DEF LP!NoMixUp, NoMixUp, LP!Ids, Ids, LP!Requests, Requests
    <2> QED BY Zenon, <2>1, <2>3 DEF LP!RightStream, RightStream
  <1>2. LP!TypeOK => TypeOK
    BY Zenon DEF LP!TypeOK, TypeOK, LP!Ids, Ids, LP!Requests, Requests
  <1> QED BY Zenon, <1>1, <1>2, IInvIsRight, LateAssumption, LP!IInvIsRight DEF RequestsInv

LEMMA RequestsRefine ==
  ASSUME RequestsInv, [ServerNext]_allVars
  PROVE  [Table!Next]_tableVars
  <1>1. CASE part = "late"
    <2>1. LP!IInv /\ [LP!Next]_(LP!vars)
      BY Zenon, <1>1, PartsStep DEF RequestsInv
    <2>2. [LP!Table!Next]_(LP!tableVars)
      BY Zenon, <2>1, LateAssumption, LP!StepRefines
    <2> QED BY Zenon, <2>2 DEF tableVars, LP!tableVars, Table!Next, LP!Table!Next, Table!Announce,
               LP!Table!Announce, Table!Leave, LP!Table!Leave, Table!Reject, LP!Table!Reject,
               Table!End, LP!Table!End, Ids, LP!Ids, Requests, LP!Requests, over, LP!over
  <1>2. CASE part # "late"
    <2>1. IInv /\ [Next]_vars
      BY Zenon, <1>2, PartsStep DEF RequestsInv
    <2> QED BY Zenon, <2>1, StepRefines
  <1> QED BY Zenon, <1>1, <1>2

\* Everything that Server promises and that is no liveness, for its
\* specification as a whole.
THEOREM ServerIsSafe ==
  ASSUME LateIdsAreUsedUp
  PROVE  ServerSpec => /\ []ServerTyped /\ []RightStream /\ []NoLostWakeUp /\ []ConfigsUnderstood
                       /\ ImplementsTable /\ CertificatesKept
  <1>1. ServerSpec => ServerInit /\ [][ServerNext]_allVars
    BY PTL DEF ServerSpec
  <1>2. ServerInit => D!Init /\ I!Init /\ W!Init /\ Table!Init
    <2>1. Init => Table!Init
      BY DEF Init, Table!Init
    <2> QED BY Zenon, <2>1 DEF ServerInit
  <1>3. [ServerNext]_allVars => [D!Next]_(D!vars) /\ [I!Next]_(I!vars) /\ [W!Next]_(W!vars)
    BY Zenon, PartsStep
  <1>4. ServerSpec => D!Spec /\ I!Spec /\ W!Spec
    BY <1>1, <1>2, <1>3, PTL DEF D!Spec, I!Spec, W!Spec
  <1>5. ServerSpec => []RequestsInv
    BY <1>1, RequestsInit, RequestsNext, PTL
  <1>6. RequestsInv /\ [ServerNext]_allVars => [Table!Next]_<<app, past, (1..created) \ is_new_ok, closes>>
    BY Zenon, RequestsRefine DEF tableVars, over
  <1>7. ServerSpec => ImplementsTable
    BY <1>1, <1>2, <1>5, <1>6, PTL DEF ImplementsTable, Table!Spec
  <1>8. TypeOK /\ D!TypeOK => ServerTyped
    BY DEF ServerTyped
  <1>9. ServerSpec => []ServerTyped
    BY <1>4, <1>5, <1>8, RequestsRight, ConnectionsTyped, PTL
  <1> QED BY <1>4, <1>5, <1>7, <1>9, RequestsRight, NoWakeUpIsLost, ConfigsAreUnderstood,
             CertificatesStay, PTL
===============================================================================
