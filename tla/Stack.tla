--------------------------------- MODULE Stack --------------------------------
(***************************************************************************)
(* Requests and their ids (src/tQuicStack.cc, src/tQuicServerSession.cc,   *)
(* the id of src/tQuicServerStream.cc).                                    *)
(*                                                                         *)
(* The application names a request by the id of its connection and of its  *)
(* stream.  Every call looks the connection up among the live ones, then   *)
(* the stream among the active ones of the connection.  A connection id is *)
(* chosen by the client, kept back for a while after the connection ended  *)
(* and free again after that; a stream id is used once per connection.     *)
(* Sessions and streams come and go with the library quiche, which is not  *)
(* in this repository; the stream itself is module ServerStream.           *)
(***************************************************************************)
EXTENDS Naturals

CONSTANTS
  Cids,          \* connection ids
  StreamIds,
  MaxRequests,   \* bound on the streams ever created
  CidsComeBack,  \* connection ids are kept back for a while only
  LateCalls,     \* the application calls for a request after its end
  StrayCloses    \* qsi_, which no constructor sets, need not be null

ASSUME StackAssumption ==
  /\ MaxRequests \in Nat
  /\ CidsComeBack \in BOOLEAN /\ LateCalls \in BOOLEAN /\ StrayCloses \in BOOLEAN

VARIABLES
  session,   \* [Cids -> "none", "live" or "wait" (on the time-wait list)]
  used,      \* the stream ids a connection has used
  stream,    \* [Ids -> the request of the stream in the session's map, or 0]
  dropped,   \* streams CloseStream took off the map, before they are deleted
  is_new_ok, \* streams whose is_new_ok_ is set
  cb,        \* streams with a can_write_cb_
  created,   \* the number of streams created: requests are 1..created
  app,       \* the application: [Ids -> the request it works on, or 0]
  waits,     \* the application: ids it expects a can-write callback for
  ended,     \* the application: <<id, request>> of requests it is done with
  past,      \* history: the requests announced, whose qsi_ is thus set
  closes     \* history: [requests -> the number of calls of OnRequestClose]

streamVars == <<session, used, stream, dropped, is_new_ok, cb, created>>
appVars == <<app, waits, ended, past, closes>>
vars == <<streamVars, appVars>>

Ids == Cids \X StreamIds
OfSession(c) == {id \in Ids : id[1] = c}
Requests == 1..MaxRequests

GetSession(id) == session[id[1]] = "live"
GetStream(id) == IF GetSession(id) THEN stream[id] ELSE 0

CreateQuicSession(c) ==
  /\ session[c] = "none"
  /\ session' = [session EXCEPT ![c] = "live"]
  /\ UNCHANGED <<used, stream, dropped, is_new_ok, cb, created, appVars>>

\* Mutant: a stream id is free again with its stream.
CreateIncomingStream_Again(id) ==
  /\ GetSession(id) /\ stream[id] = 0
  /\ created < MaxRequests
  /\ created' = created + 1
  /\ used' = used \cup {id}
  /\ stream' = [stream EXCEPT ![id] = created + 1]
  /\ is_new_ok' = is_new_ok \cup {created + 1}
  /\ UNCHANGED <<session, dropped, cb, appVars>>

\* ShouldCreateIncomingStream: the session is open and the stream id new.
CreateIncomingStream(id) ==
  /\ GetSession(id) /\ id \notin used
  /\ created < MaxRequests
  /\ created' = created + 1
  /\ used' = used \cup {id}
  /\ stream' = [stream EXCEPT ![id] = created + 1]
  /\ is_new_ok' = is_new_ok \cup {created + 1}
  /\ UNCHANGED <<session, dropped, cb, appVars>>

\* OnRequestHeader up to the callback, with the id of SetRequestID.  A request
\* for a host that is not served gets a 403 response and no callback, now or
\* later; one that names no host changes nothing here.
OnRequestHeader(id, served) ==
  /\ stream[id] \in is_new_ok \ past
  /\ IF served
     THEN /\ past' = past \cup {stream[id]}
          /\ app' = [app EXCEPT ![id] = stream[id]]
          /\ UNCHANGED is_new_ok
     ELSE is_new_ok' = is_new_ok \ {stream[id]} /\ UNCHANGED <<past, app>>
  /\ UNCHANGED <<session, used, stream, dropped, cb, created, waits, ended, closes>>

(***************************************************************************)
(* The end of streams.                                                     *)
(***************************************************************************)
\* The application is done with these requests.
Forget(rs) ==
  /\ app' = [id \in Ids |-> IF app[id] \in rs THEN 0 ELSE app[id]]
  /\ waits' = {id \in waits : app[id] \notin rs}
  /\ ended' = ended \cup {<<id, app[id]>> : id \in {i \in Ids : app[i] \in rs}}

OnRequestClose(rs) ==
  /\ closes' = [r \in Requests |-> IF r \in rs THEN closes[r] + 1 ELSE closes[r]]
  /\ Forget(rs)

\* The streams of rs that call OnRequestClose: is_new_ok_ && qsi_, and qsi_ may
\* be anything as long as OnRequestHeader has not assigned it.
Report(rs) ==
  LET announced == rs \cap is_new_ok \cap past
      unassigned == IF StrayCloses THEN (rs \cap is_new_ok) \ past ELSE {}
  IN {announced \cup stray : stray \in SUBSET unassigned}

\* Mutant: is_new_ok_ stays set.
OnClose_StillNew(rs) ==
  /\ \E told \in Report(rs) : OnRequestClose(told)
  /\ UNCHANGED is_new_ok

\* Mutant: the end of a stream that still waits to write is not reported.
OnClose_Waiting(rs) ==
  /\ \E told \in Report(rs) : OnRequestClose(told \ cb)
  /\ is_new_ok' = is_new_ok \ rs

\* tQuicServerStream::OnClose, of the streams rs.
OnClose(rs) ==
  /\ \E told \in Report(rs) : OnRequestClose(told)
  /\ is_new_ok' = is_new_ok \ rs

\* QuicSession::OnStreamClosed: the stream leaves the map, unless data it sent
\* is still to be acknowledged; then calls go on finding it.
LeaveMap(ids) ==
  /\ stream' = [id \in Ids |-> IF id \in ids THEN 0 ELSE stream[id]]
  /\ cb' = cb \ {stream[id] : id \in ids}
OnStreamClosed(id) == LeaveMap({id}) \/ UNCHANGED <<stream, cb>>

\* Both sides of the stream get closed, by the peer or behind the response.
StreamCloses(id) ==
  /\ stream[id] # 0
  /\ OnClose({stream[id]}) /\ OnStreamClosed(id)
  /\ UNCHANGED <<session, used, dropped, created, past>>

\* A connection ends: by the peer, an error or the idle timeout.
ConnectionCloses(c) ==
  /\ session[c] = "live"
  /\ session' = [session EXCEPT ![c] = "wait"]
  /\ OnClose({stream[id] : id \in OfSession(c)}) /\ LeaveMap(OfSession(c))
  /\ UNCHANGED <<used, dropped, created, past>>

TimeWaitEnds(c) ==
  /\ CidsComeBack
  /\ session[c] = "wait"
  /\ session' = [session EXCEPT ![c] = "none"]
  /\ used' = used \ OfSession(c)
  /\ UNCHANGED <<stream, dropped, is_new_ok, cb, created, appVars>>

\* OnRequestHeader and OnRequestBody once the callback returned an error.  The
\* error response goes out first: if the stream closes with it, OnClose still
\* finds is_new_ok_ set and reports the end of the rejected request.
CallbackRejects(id) ==
  /\ app[id] # 0 /\ stream[id] = app[id]
  /\ \/ OnClose({stream[id]}) /\ OnStreamClosed(id)
     \/ /\ is_new_ok' = is_new_ok \ {stream[id]}
        /\ Forget({app[id]})
        /\ UNCHANGED <<stream, cb, closes>>
  /\ UNCHANGED <<session, used, dropped, created, past>>

(***************************************************************************)
(* The calls of the application for request r under an id: quic_stack_...  *)
(* and the method of tQuicStack behind it.                                 *)
(***************************************************************************)
Calls(id, r) == r # 0 /\ (app[id] = r \/ (LateCalls /\ <<id, r>> \in ended))

\* What ReadRequestBody, WriteResponseHeader and WriteResponseBody act on; with
\* no stream they return QUIC_STACK_SERVER.
Reached(id, r) == IF Calls(id, r) THEN {GetStream(id)} \ {0} ELSE {}

\* Mutant: all streams of the session go.
CloseStream_Session(id, r) ==
  /\ Calls(id, r)
  /\ GetSession(id)
  /\ LeaveMap(OfSession(id[1]))
  /\ dropped' = dropped \cup ({stream[id]} \ {0})
  /\ IF app[id] = r THEN Forget({r}) ELSE UNCHANGED <<app, waits, ended>>
  /\ UNCHANGED <<session, used, is_new_ok, created, past, closes>>

\* The session takes the stream for closed, but it is not: is_new_ok_ stays set,
\* and when the stream or its connection closes, in the map or out of it, the
\* application is told of the end of a request it has closed.
CloseStream(id, r) ==
  /\ Calls(id, r)
  /\ GetSession(id)
  /\ \/ LeaveMap({id}) /\ dropped' = dropped \cup ({stream[id]} \ {0})
     \/ UNCHANGED <<stream, cb, dropped>>
  /\ IF app[id] = r THEN Forget({r}) ELSE UNCHANGED <<app, waits, ended>>
  /\ UNCHANGED <<session, used, is_new_ok, created, past, closes>>

\* A stream out of the map lives until the session deletes it, in the call that
\* dropped it and a while after; that call may still close it.
DroppedCloses(r) ==
  /\ r \in dropped
  /\ OnClose({r})
  /\ UNCHANGED <<session, used, stream, dropped, cb, created, past>>
DroppedIsDeleted(r) ==
  /\ r \in dropped
  /\ dropped' = dropped \ {r}
  /\ UNCHANGED <<session, used, stream, is_new_ok, cb, created, appVars>>

\* Without a stream the callback is dropped and nobody is told.
AddOnCanWriteCallback(id, r) ==
  /\ Calls(id, r)
  /\ cb' = IF GetStream(id) # 0 THEN cb \cup {GetStream(id)} ELSE cb
  /\ waits' = IF app[id] = r THEN waits \cup {id} ELSE waits
  /\ UNCHANGED <<session, used, stream, dropped, is_new_ok, created, app, ended, past, closes>>

\* Called on streams whose response is not finished.
OnCanWriteNewData(id) ==
  /\ stream[id] \in cb \cap is_new_ok
  /\ cb' = cb \ {stream[id]}
  /\ waits' = waits \ {id}
  /\ UNCHANGED <<session, used, stream, dropped, is_new_ok, created, app, ended, past, closes>>

Init ==
  /\ session = [c \in Cids |-> "none"]
  /\ used = {} /\ dropped = {} /\ is_new_ok = {} /\ cb = {} /\ created = 0
  /\ stream = [id \in Ids |-> 0] /\ app = [id \in Ids |-> 0]
  /\ waits = {} /\ ended = {} /\ past = {}
  /\ closes = [r \in Requests |-> 0]

Next ==
  \/ \E c \in Cids : CreateQuicSession(c) \/ ConnectionCloses(c) \/ TimeWaitEnds(c)
  \/ \E r \in Requests : DroppedCloses(r) \/ DroppedIsDeleted(r)
  \/ \E id \in Ids :
       \/ CreateIncomingStream(id)
       \/ \E served \in BOOLEAN : OnRequestHeader(id, served)
       \/ StreamCloses(id) \/ CallbackRejects(id)
       \/ OnCanWriteNewData(id)
       \/ \E r \in Requests :
            CloseStream(id, r) \/ AddOnCanWriteCallback(id, r)

Spec == Init /\ [][Next]_vars

\* A connection does not live for ever: the idle timeout ends it at the latest.
FairSpec == Spec /\ \A c \in Cids : WF_vars(ConnectionCloses(c))

TypeOK ==
  /\ session \in [Cids -> {"none", "live", "wait"}]
  /\ used \subseteq Ids /\ waits \subseteq Ids
  /\ created \in 0..MaxRequests
  /\ dropped \subseteq 1..created /\ is_new_ok \subseteq 1..created /\ cb \subseteq 1..created
  /\ stream \in [Ids -> 0..created] /\ app \in [Ids -> 0..created]
  /\ ended \subseteq Ids \X (1..created)
  /\ past \subseteq 1..created
  /\ closes \in [Requests -> Nat]

\* The requests of the application and the streams of the stack agree: what the
\* application works on under an id is what a call with that id finds, and will
\* report its end; and a can-write callback it waits for is kept by that stream.
Reachable ==
  \A id \in Ids :
    /\ app[id] # 0 => GetStream(id) = app[id] /\ app[id] \in is_new_ok
    /\ id \in waits => app[id] \in cb

\* No call for one request reaches another: not even one that comes after the
\* end of its request.
NoMixUp == \A id \in Ids, r \in Requests : Reached(id, r) \subseteq {r}

\* A call with a request id reaches the stream the id was given for, or none.
RightStream == Reachable /\ NoMixUp

\* A request is over when its stream will call back no more.
Table == INSTANCE RequestTable
  WITH NoRequest <- 0, StrayEnds <- StrayCloses, open <- app, over <- (1..created) \ is_new_ok

\* The stack keeps the promise of its interface: a request is announced once,
\* under an id of its own; it stays with the application until that gives it up
\* (CloseStream, or an error from its callback) or OnRequestClose is called; and
\* OnRequestClose is called at most once for it, never before OnRequestHeader
\* (but for the stray call of an unset qsi_) and never followed by it.
ImplementsTable == Table!Spec

\* Every request the application works on comes to an end: with its stream
\* (OnClose) or its connection.
Ends == \A id \in Ids : app[id] # 0 ~> app[id] = 0

===============================================================================
