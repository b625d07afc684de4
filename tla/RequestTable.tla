----------------------------- MODULE RequestTable -----------------------------
(***************************************************************************)
(* What the stack promises the application (src/quic_stack_api.h): a       *)
(* request is announced once, under an id no other request of the          *)
(* application has.  It is over at most once, and then the application     *)
(* hears no more of it; the application is told so with one call of        *)
(* OnRequestClose, unless it has just rejected the request, or the request *)
(* was never announced.                                                    *)
(***************************************************************************)
EXTENDS Naturals

CONSTANTS Ids, Requests, NoRequest,
          StrayEnds   \* the end of a request may be told that was not announced

VARIABLES
  open,     \* [Ids -> the request the application works on under this id]
  past,     \* the requests that were announced
  over,     \* the requests the application hears no more of
  closes    \* [Requests -> the number of calls of OnRequestClose]

Init ==
  /\ open = [id \in Ids |-> NoRequest] /\ past = {}
  /\ over = {} /\ closes = [r \in Requests |-> 0]

Announce(id, r) ==
  /\ open[id] = NoRequest
  /\ r \notin past \cup over
  /\ open' = [open EXCEPT ![id] = r]
  /\ past' = past \cup {r}
  /\ UNCHANGED <<over, closes>>

\* The application closes a request; it may be told of its end all the same.
Leave(id) ==
  /\ open[id] # NoRequest
  /\ open' = [open EXCEPT ![id] = NoRequest]
  /\ UNCHANGED <<past, over, closes>>

\* The application rejects a request, and hears no more of it.
Reject(id) ==
  /\ open[id] # NoRequest /\ open[id] \notin over
  /\ open' = [open EXCEPT ![id] = NoRequest]
  /\ over' = over \cup {open[id]}
  /\ UNCHANGED <<past, closes>>

\* Requests are over, the ones of a connection together.  The application is
\* told, except of some that were not announced.
End(told, untold) ==
  /\ (told \cup untold) \cap over = {} /\ told \cap untold = {}
  /\ untold \cap past = {} /\ (StrayEnds \/ told \subseteq past)
  /\ over' = over \cup told \cup untold
  /\ closes' = [r \in Requests |-> IF r \in told THEN closes[r] + 1 ELSE closes[r]]
  /\ open' = [id \in Ids |-> IF open[id] \in told THEN NoRequest ELSE open[id]]
  /\ UNCHANGED past

Next ==
  \/ \E id \in Ids : Leave(id) \/ Reject(id) \/ \E r \in Requests : Announce(id, r)
  \/ \E told, untold \in SUBSET Requests : End(told, untold)

Spec == Init /\ [][Next]_<<open, past, over, closes>>
===============================================================================
