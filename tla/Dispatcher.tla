------------------------------ MODULE Dispatcher ------------------------------
(***************************************************************************)
(* Connections and their writing (src/tQuicDispatcher.cc and the calls     *)
(* src/tQuicStack.cc passes on to it).                                     *)
(*                                                                         *)
(* The dispatcher keeps client hellos until the event loop of the          *)
(* application allows sessions to be created, and a list of connections    *)
(* whose writes the socket refused.  A refused write calls the application *)
(* back, which then watches the socket and calls OnCanWrite once it is     *)
(* writable.  The base class QuicDispatcher and the application's event    *)
(* loop are not in this repository: they are modelled by what the stack    *)
(* asks of them.                                                           *)
(***************************************************************************)
EXTENDS Integers, FiniteSets

CONSTANTS
  Cids,         \* connection ids
  ErrorCodes,   \* QuicRstStreamErrorCode
  MaxRst        \* bound on the counted resets

VARIABLES
  writer,       \* InitializeWithWriter was called
  callback,     \* write_blocked_cb_.OnCanWriteCallback is set
  session,      \* [Cids -> "none", "hello" (buffered), "live" or "closed"]
  allowed,      \* new_sessions_allowed_per_event_loop_
  unsent,       \* connections with packets the socket refused
  blocked,      \* write_blocked_list_
  serving,      \* temp_list of QuicDispatcher::OnCanWrite
  full,         \* the writer is write blocked
  armed,        \* the application watches the socket for writability
  rst           \* rst_error_map_

connVars == <<session, allowed>>
writeVars == <<unsent, blocked, serving, full, armed>>
vars == <<writer, callback, connVars, writeVars, rst>>

Idle == writer /\ serving = {}

HasChlosBuffered == \E c \in Cids : session[c] = "hello"
HasPendingWrites == blocked # {}

\* quic_stack_init_writer: the writer first, the callback behind it.
InitializeWithWriter ==
  /\ ~writer
  /\ writer' = TRUE
  /\ callback' = TRUE
  /\ UNCHANGED <<connVars, writeVars, rst>>

\* Mutant: the application is not called back.
OnWriteBlocked_Silent(cs) ==
  /\ blocked' = blocked \cup cs
  /\ UNCHANGED armed

\* The base class lists the connections, and for each the application is called
\* back: it watches the socket from now on.
OnWriteBlocked(cs) ==
  /\ blocked' = blocked \cup cs
  /\ armed' = (armed \/ (cs # {} /\ callback))

\* Connections write, one by one: the socket takes a packet, or refuses it and
\* blocks the writer until OnCanWrite.  A blocked writer refuses everybody.
Write(cs) ==
  \E refused \in SUBSET cs :
    /\ full => refused = cs
    /\ full' = (full \/ refused # {})
    /\ unsent' = (unsent \ cs) \cup refused
    /\ OnWriteBlocked(refused)

\* The session answers the client hello.
CreateQuicSession(c) ==
  /\ session' = [session EXCEPT ![c] = "live"]
  /\ Write({c})

(***************************************************************************)
(* ProcessPacket, by what the packet brings.                               *)
(***************************************************************************)
\* Mutant: the limit is not looked at.
PacketHello_Unlimited(c) ==
  /\ Idle /\ session[c] = "none"
  /\ allowed' = allowed - 1
  /\ CreateQuicSession(c)
  /\ UNCHANGED <<writer, callback, serving, rst>>

PacketHello(c) ==
  /\ Idle /\ session[c] = "none"
  /\ IF allowed = 0
     THEN /\ session' = [session EXCEPT ![c] = "hello"]
          /\ UNCHANGED <<allowed, writeVars>>
     ELSE /\ allowed' = allowed - 1
          /\ CreateQuicSession(c)
          /\ UNCHANGED serving
  /\ UNCHANGED <<writer, callback, rst>>

PacketData(c) ==
  /\ Idle /\ session[c] = "live"
  /\ Write({c})
  /\ UNCHANGED <<writer, callback, connVars, serving, rst>>

\* The connection is closed and leaves the list of the blocked writers.
PacketClose(c) ==
  /\ Idle /\ session[c] = "live"
  /\ session' = [session EXCEPT ![c] = "closed"]
  /\ unsent' = unsent \ {c}
  /\ blocked' = blocked \ {c}
  /\ UNCHANGED <<writer, callback, allowed, serving, full, armed, rst>>

GetRstErrorCount(code) == IF code \in DOMAIN rst THEN rst[code] ELSE 0

OnRstStreamReceived(c, code) ==
  /\ Idle /\ session[c] = "live"
  /\ GetRstErrorCount(code) < MaxRst
  /\ rst' = [e \in DOMAIN rst \cup {code} |->
               IF e \notin DOMAIN rst THEN 1 ELSE IF e = code THEN rst[e] + 1 ELSE rst[e]]
  /\ UNCHANGED <<writer, callback, connVars, writeVars>>

(***************************************************************************)
(* The calls of the application's event loop.                              *)
(***************************************************************************)
\* Mutant: the sessions allowed are set, the buffered hellos left where they are.
ProcessBufferedChlos_Kept(max) ==
  /\ Idle
  /\ allowed' = max
  /\ UNCHANGED <<writer, callback, session, writeVars, rst>>

\* Up to max buffered hellos get their session; what remains of max is for the
\* hellos of this turn of the event loop.
ProcessBufferedChlos(max) ==
  /\ Idle
  /\ \E served \in SUBSET {c \in Cids : session[c] = "hello"} :
       /\ Cardinality(served) <= max
       /\ Cardinality(served) < max => \A c \in Cids \ served : session[c] # "hello"
       /\ allowed' = max - Cardinality(served)
       /\ session' = [c \in Cids |-> IF c \in served THEN "live" ELSE session[c]]
       /\ Write(served)
  /\ UNCHANGED <<writer, callback, serving, rst>>

\* Mutant: the writer stays blocked.
OnCanWrite_StaysFull ==
  /\ Idle /\ armed
  /\ armed' = FALSE
  /\ serving' = blocked
  /\ blocked' = {}
  /\ UNCHANGED <<writer, callback, connVars, unsent, full, rst>>

\* The watched socket is writable: the watch is over and every listed
\* connection is given a chance to write.
OnCanWrite ==
  /\ Idle /\ armed
  /\ armed' = FALSE
  /\ full' = FALSE
  /\ serving' = blocked
  /\ blocked' = {}
  /\ UNCHANGED <<writer, callback, connVars, unsent, rst>>

OnBlockedWriterCanWrite(c) ==
  /\ c \in serving
  /\ serving' = serving \ {c}
  /\ Write({c})
  /\ UNCHANGED <<writer, callback, connVars, rst>>

Init ==
  /\ writer = FALSE /\ callback = FALSE
  /\ session = [c \in Cids |-> "none"]
  /\ allowed = 0
  /\ unsent = {} /\ blocked = {} /\ serving = {}
  /\ full = FALSE /\ armed = FALSE
  /\ rst = [e \in {} |-> 0]

Next ==
  \/ InitializeWithWriter
  \/ OnCanWrite
  \/ \E max \in 1..Cardinality(Cids) : ProcessBufferedChlos(max)
  \/ \E c \in Cids :
       \/ PacketHello(c)
       \/ PacketData(c)
       \/ PacketClose(c)
       \/ \E code \in ErrorCodes : OnRstStreamReceived(c, code)
       \/ OnBlockedWriterCanWrite(c)

Spec == Init /\ [][Next]_vars

\* The event loop turns: it lets hellos in, serves the socket it watches, and a
\* call of OnCanWrite ends.  Both calls wait for other handlers to return, so
\* they are possible again and again rather than all the time.  A socket that is offered a packet again and again
\* takes it some time.
Fairness ==
  /\ SF_vars(\E max \in 1..Cardinality(Cids) : HasChlosBuffered /\ ProcessBufferedChlos(max))
  /\ SF_vars(OnCanWrite)
  /\ \A c \in Cids :
       /\ WF_vars(OnBlockedWriterCanWrite(c))
       /\ SF_vars(OnBlockedWriterCanWrite(c) /\ c \notin unsent')

FairSpec == Spec /\ Fairness

TypeOK ==
  /\ writer \in BOOLEAN /\ callback \in BOOLEAN
  /\ session \in [Cids -> {"none", "hello", "live", "closed"}]
  /\ allowed \in 0..Cardinality(Cids)
  /\ unsent \subseteq Cids /\ blocked \subseteq Cids /\ serving \subseteq Cids
  /\ full \in BOOLEAN /\ armed \in BOOLEAN
  /\ DOMAIN rst \subseteq ErrorCodes /\ \A e \in DOMAIN rst : rst[e] \in 1..MaxRst

\* What a refused write leaves behind: the connection is listed, or about to be
\* served, and the application watches the socket for every listed connection.
\* Otherwise the packets would wait for an event nobody waits for.
NoLostWakeUp ==
  /\ unsent = blocked \cup serving
  /\ blocked # {} => armed
  /\ \A c \in blocked \cup serving : session[c] = "live"
  /\ full => blocked # {} \/ armed

\* Packets the socket refused get sent, or their connection ends.
RefusedIsSent == \A c \in Cids : c \in unsent ~> c \notin unsent

\* A client hello that is kept back gets its session.
HelloServed == \A c \in Cids : session[c] = "hello" ~> session[c] = "live"

===============================================================================
