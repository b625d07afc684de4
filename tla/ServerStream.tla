----------------------------- MODULE ServerStream -----------------------------
(***************************************************************************)
(* The life of one request stream (src/tQuicServerStream.cc).              *)
(*                                                                         *)
(* A tQuicServerStream collects the headers and the body of a request,     *)
(* announces it to the application with OnRequestHeader and OnRequestBody  *)
(* once the client's FIN has been read, buffers the application's response *)
(* and sends it when the application says it is complete, answers by       *)
(* itself what it cannot announce, and reports its end with OnRequestClose.*)
(*                                                                         *)
(* A callback of the application is a state of its own (pc), in which the  *)
(* application calls back into the stream.  The QuicSpdyStream below the   *)
(* stream (library quiche, not in this repository) is modelled by what the *)
(* stream sees of it: readable bytes, the FIN, the closing of its two      *)
(* sides, and the dropping of what is written behind a FIN.                *)
(***************************************************************************)
EXTENDS Integers, Sequences

CONSTANTS
  Transports,       \* what http3 may be
  Hosts,            \* what :authority may name: "none", "known", "unknown"
  Lengths,          \* what content-length may say: -1 when it is missing
  Callbacks,        \* can-write callbacks of the application
  FreshPointer,     \* what the constructor may find in qsi_: "null", "garbage"
  NoCallback,       \* nullptr
  MaxBufferSize,    \* of the body buffer
  MaxBody,          \* bound on the bytes of the request body
  MaxWrite          \* bound on the bytes and on the limit of a write

ASSUME ServerStreamAssumption ==
  /\ Transports \subseteq BOOLEAN
  /\ Hosts \subseteq {"none", "known", "unknown"}
  /\ Lengths \subseteq Nat \cup {-1}
  /\ FreshPointer \subseteq {"null", "garbage"}
  /\ NoCallback \notin Callbacks
  /\ MaxBufferSize \in Nat /\ MaxBody \in Nat /\ MaxWrite \in Nat

VARIABLES
  http3,            \* VersionUsesHttp3: HTTP/3, or else gQUIC, with headers on a
                    \* stream of their own
  content_length,   \* content_length_
  header_sent,      \* header_sent_
  request_host,     \* request_host_
  parsed,           \* raw_header_str_ holds a request CopyAndValidateHeaders accepted
  qsi,              \* qsi_: "garbage", "null", or "set" to an identity
  is_new_ok,        \* is_new_ok_
  body,             \* body_->total_size()
  can_write_cb,     \* can_write_cb_
  response,         \* response_headers_, response_body_, response_trailers_,
                    \* and whether the application passed fin
  pc,               \* where the stream is: see PCs
  caller,           \* who called OnRequestHeader: "headers" or "body"
  headers,          \* QuicSpdyStream: the headers delivered, "none", "initial"
                    \* or "trailing"
  received,         \* QuicSpdyStream: body bytes received
  readable,         \* QuicSpdyStream: body bytes not marked consumed
  fin,              \* QuicSpdyStream: FIN received
  read_closed,      \* QuicSpdyStream: read side closed
  write_closed,     \* write_side_closed()
  fin_buffered,     \* fin_buffered()
  sent,             \* the responses put on the wire
  calls,            \* history: the callbacks made for this request
  taken,            \* history: body bytes the application has read
  rejected,         \* history: a callback answered with an error
  waiting           \* history: the can-write callback the application waits for

requestVars == <<content_length, header_sent, request_host, parsed>>
inputVars == <<headers, received, readable, fin>>
closeVars == <<is_new_ok, read_closed, write_closed, calls>>
outputVars == <<fin_buffered, sent>>
callbackVars == <<can_write_cb, waiting>>
vars == <<http3, requestVars, qsi, body, callbackVars, response, pc, caller, inputVars,
          closeVars, outputVars, taken, rejected>>

\* "idle": no call in progress; "reading": in the loop of OnBodyAvailable;
\* "header", "body": at OnRequestHeader, OnRequestBody; "...Cb": in a callback.
PCs == {"idle", "reading", "header", "headerCb", "body", "bodyCb", "canWriteCb"}

EmptyResponse == [headers |-> FALSE, body |-> 0, trailers |-> FALSE, fin |-> FALSE]

Called(c) == \E i \in DOMAIN calls : calls[i] = c

(***************************************************************************)
(* Closing and writing.                                                    *)
(***************************************************************************)
\* Mutant: OnClose does not remember that it was called.
OnCloseForgets(r, w, ok) ==
  LET closes == r /\ w /\ ~(read_closed /\ write_closed)
  IN  /\ read_closed' = r
      /\ write_closed' = w
      /\ calls' = IF closes /\ is_new_ok /\ qsi' # "null" THEN Append(calls, "close") ELSE calls
      /\ is_new_ok' = (is_new_ok /\ ok)

\* The read and the write side get closed or not; when both are, the stream is
\* closed and OnClose runs.  ok: the step does not clear is_new_ok_ behind it.
OnClose(r, w, ok) ==
  LET closes == r /\ w /\ ~(read_closed /\ write_closed)
  IN  /\ read_closed' = r
      /\ write_closed' = w
      /\ calls' = IF closes /\ is_new_ok /\ qsi' # "null" THEN Append(calls, "close") ELSE calls
      /\ is_new_ok' = (is_new_ok /\ ok /\ ~closes)

\* Mutant: the body goes out without a FIN.
SendWithoutFin(resp, ok) ==
  /\ sent' = IF http3 /\ (fin_buffered \/ write_closed) THEN sent ELSE Append(sent, resp)
  /\ is_new_ok' = (is_new_ok /\ ok)
  /\ UNCHANGED <<fin_buffered, read_closed, write_closed, calls>>

\* A response ends with a FIN, sent at once or kept for later.  HTTP/3 drops
\* what follows a FIN; the headers stream of gQUIC does not know about it.
SendHeadersAndBodyAndTrailers(resp, ok) ==
  /\ sent' = IF http3 /\ (fin_buffered \/ write_closed) THEN sent ELSE Append(sent, resp)
  /\ fin_buffered' = TRUE
  /\ \E finSent \in BOOLEAN :
       /\ ~http3 /\ resp.body = 0 => finSent
       /\ OnClose(read_closed, write_closed \/ finSent, ok)

SendErrorResponseInternal(code, ok) ==
  SendHeadersAndBodyAndTrailers([by |-> code, body |-> 3, trailers |-> FALSE], ok)

SendErrorResponse(ok) == SendErrorResponseInternal("500", ok)

(***************************************************************************)
(* The request arrives.                                                    *)
(***************************************************************************)
\* CopyAndValidateHeaders: a header list it rejects may have named a host and
\* a length before the entry at fault.
CopyAndValidateHeaders(valid, host, length) ==
  /\ parsed' = valid
  /\ request_host' = host
  /\ content_length' = length

OnInitialHeadersComplete(withFin, valid, host, length) ==
  /\ pc = "idle" /\ headers = "none" /\ ~read_closed
  /\ withFin => ~http3 /\ received = 0
  /\ headers' = "initial"
  /\ fin' = (fin \/ withFin)
  /\ CopyAndValidateHeaders(valid, host, length)
  /\ IF valid THEN UNCHANGED <<closeVars, outputVars, qsi>>
     ELSE UNCHANGED qsi /\ SendErrorResponse(TRUE)
  /\ pc' = IF withFin THEN "header" ELSE "reading"
  /\ caller' = "headers"
  /\ UNCHANGED <<header_sent, body, callbackVars, response, received, readable, taken, rejected>>

\* Body bytes, a FIN, or both.  Until the headers are consumed the sequencer
\* keeps them; afterwards OnBodyAvailable is called.
OnStreamFrame(n, withFin) ==
  /\ pc = "idle" /\ ~fin /\ ~read_closed
  /\ http3 => headers # "none"
  /\ headers = "trailing" => http3 /\ n = 0
  /\ n > 0 \/ withFin
  /\ received + n <= MaxBody
  /\ received' = received + n
  /\ readable' = readable + n
  /\ fin' = withFin
  /\ pc' = IF headers # "none" THEN "reading" ELSE "idle"
  /\ UNCHANGED <<requestVars, qsi, body, callbackVars, response, caller, headers,
                 closeVars, outputVars, taken, rejected>>

OnTrailingHeadersComplete ==
  /\ pc = "idle" /\ headers = "initial" /\ ~fin /\ ~read_closed
  /\ headers' = "trailing"
  /\ UNCHANGED qsi
  /\ SendErrorResponse(TRUE)
  /\ UNCHANGED <<requestVars, body, callbackVars, response, pc, caller, received, readable, fin,
                 taken, rejected>>

\* Mutant: a region that cannot be kept is marked consumed.
ReadRegionDrops(n) ==
  /\ pc = "reading"
  /\ n <= readable
  /\ readable' = readable - n
  /\ body' = IF body + n > MaxBufferSize THEN body ELSE body + n
  /\ UNCHANGED <<requestVars, qsi, callbackVars, response, pc, caller, headers, received, fin,
                 closeVars, outputVars, taken, rejected>>

\* Mutant: the answer of Append is not looked at, and there is no limit.
ReadRegionUnbounded(n) ==
  /\ pc = "reading"
  /\ n <= readable
  /\ body' = body + n
  /\ readable' = readable - n
  /\ UNCHANGED <<requestVars, qsi, callbackVars, response, pc, caller, headers, received, fin,
                 closeVars, outputVars, taken, rejected>>

\* A turn of the loop of OnBodyAvailable.  A region is appended as a whole; one
\* that is not marked consumed is there again the next time.
ReadRegion(n) ==
  /\ pc = "reading"
  /\ n <= readable
  /\ UNCHANGED qsi
  /\ LET fits == body + n <= MaxBufferSize
         tooLong == content_length >= 0 /\ body + n > content_length
     IN  /\ body' = IF fits THEN body + n ELSE body
         /\ IF fits /\ ~tooLong
            THEN readable' = readable - n /\ UNCHANGED <<pc, closeVars, outputVars>>
            ELSE pc' = "idle" /\ UNCHANGED readable /\ SendErrorResponse(TRUE)
  /\ UNCHANGED <<requestVars, callbackVars, response, caller, headers, received, fin, taken, rejected>>

\* Mutant: a response that was sent already does not end the request.
BodyReadGoesOn ==
  /\ pc = "reading"
  /\ readable = 0
  /\ UNCHANGED qsi
  /\ IF ~fin
     THEN pc' = "idle" /\ UNCHANGED <<closeVars, content_length>>
     ELSE /\ OnClose(TRUE, write_closed, TRUE)
          /\ content_length' = IF content_length < 0 THEN body ELSE content_length
          /\ pc' = IF header_sent THEN "body" ELSE "header"
  /\ caller' = "body"
  /\ UNCHANGED <<header_sent, request_host, parsed, body, callbackVars, response, inputVars,
                 outputVars, taken, rejected>>

\* The rest of OnBodyAvailable: OnFinRead closes the read side.
BodyRead ==
  /\ pc = "reading"
  /\ readable = 0
  /\ UNCHANGED qsi
  /\ IF ~fin
     THEN pc' = "idle" /\ UNCHANGED <<closeVars, content_length>>
     ELSE /\ OnClose(TRUE, write_closed, TRUE)
          /\ IF write_closed \/ fin_buffered
             THEN pc' = "idle" /\ UNCHANGED content_length
             ELSE /\ content_length' = IF content_length < 0 THEN body ELSE content_length
                  /\ pc' = IF header_sent THEN "body" ELSE "header"
  /\ caller' = "body"
  /\ UNCHANGED <<header_sent, request_host, parsed, body, callbackVars, response, inputVars,
                 outputVars, taken, rejected>>

(***************************************************************************)
(* The request is announced.                                               *)
(***************************************************************************)
\* What follows OnRequestHeader in its caller.
HeaderDone ==
  /\ header_sent' = TRUE
  /\ pc' = IF caller = "headers" THEN "reading" ELSE "body"

\* Mutant: a request for a host that is not served is dropped silently.
OnRequestHeaderSilent ==
  /\ pc = "header"
  /\ IF request_host = "known"
     THEN qsi' = "set" /\ calls' = Append(calls, "header") /\ pc' = "headerCb"
          /\ UNCHANGED <<header_sent, is_new_ok>>
     ELSE qsi' = "null" /\ is_new_ok' = FALSE /\ HeaderDone /\ UNCHANGED calls
  /\ UNCHANGED <<content_length, request_host, parsed, body, callbackVars, response, caller,
                 inputVars, read_closed, write_closed, outputVars, taken, rejected>>

OnRequestHeader ==
  /\ pc = "header"
  /\ CASE request_host = "none" -> HeaderDone /\ UNCHANGED <<qsi, closeVars, outputVars>>
       [] request_host = "unknown" ->
            qsi' = "null" /\ SendErrorResponseInternal("403", FALSE) /\ HeaderDone
       [] request_host = "known" ->
            /\ qsi' = "set"
            /\ calls' = Append(calls, "header")
            /\ pc' = "headerCb"
            /\ UNCHANGED <<header_sent, is_new_ok, read_closed, write_closed, outputVars>>
  /\ UNCHANGED <<content_length, request_host, parsed, body, callbackVars, response, caller,
                 inputVars, taken, rejected>>

\* Mutant: an application that rejects a request is asked for its body.
HeaderCbReturnsOk(ok) ==
  /\ pc = "headerCb"
  /\ UNCHANGED qsi
  /\ rejected' = (rejected \/ ~ok)
  /\ IF ok THEN UNCHANGED <<closeVars, outputVars>> ELSE SendErrorResponse(TRUE)
  /\ HeaderDone
  /\ UNCHANGED <<content_length, request_host, parsed, body, callbackVars, response, caller,
                 inputVars, taken>>

HeaderCbReturns(ok) ==
  /\ pc = "headerCb"
  /\ UNCHANGED qsi
  /\ rejected' = (rejected \/ ~ok)
  /\ IF ok THEN UNCHANGED <<closeVars, outputVars>> ELSE SendErrorResponse(FALSE)
  /\ HeaderDone
  /\ UNCHANGED <<content_length, request_host, parsed, body, callbackVars, response, caller,
                 inputVars, taken>>

OnRequestBody ==
  /\ pc = "body"
  /\ IF is_new_ok /\ qsi # "null"
     THEN pc' = "bodyCb" /\ calls' = Append(calls, "body")
     ELSE pc' = "idle" /\ UNCHANGED calls
  /\ UNCHANGED <<requestVars, qsi, body, callbackVars, response, caller, inputVars, is_new_ok,
                 read_closed, write_closed, outputVars, taken, rejected>>

BodyCbReturns(ok) ==
  /\ pc = "bodyCb"
  /\ pc' = "idle"
  /\ UNCHANGED qsi
  /\ rejected' = (rejected \/ ~ok)
  /\ IF ok THEN UNCHANGED <<closeVars, outputVars>> ELSE SendErrorResponse(FALSE)
  /\ UNCHANGED <<requestVars, body, callbackVars, response, caller, inputVars, taken>>

(***************************************************************************)
(* The application: it works on a request it was told of and has neither   *)
(* rejected nor been told to close, between calls or from within a         *)
(* callback; it writes the response headers once and says fin once.        *)
(***************************************************************************)
AppActs ==
  /\ pc \in {"idle", "headerCb", "bodyCb", "canWriteCb"}
  /\ Called("header")
  /\ is_new_ok

ReadRequestBody(n) ==
  /\ AppActs
  /\ n <= body
  /\ body' = body - n
  /\ taken' = taken + n
  /\ UNCHANGED <<requestVars, qsi, callbackVars, response, pc, caller, inputVars, closeVars,
                 outputVars, rejected>>

\* FlushResponse: the response as it stands, with an empty block of trailers.
FlushResponse(resp) ==
  SendHeadersAndBodyAndTrailers([by |-> "app", body |-> resp.body, trailers |-> FALSE], TRUE)

\* FlushResponse when the application says fin.
Written(resp) ==
  /\ response' = resp
  /\ UNCHANGED qsi
  /\ IF resp.fin THEN FlushResponse(resp) ELSE UNCHANGED <<closeVars, outputVars>>
  /\ UNCHANGED <<requestVars, body, callbackVars, pc, caller, inputVars, taken, rejected>>

WriteResponseHeader(trailers, withFin) ==
  /\ AppActs
  /\ ~response.headers
  /\ Written([headers |-> TRUE, body |-> 0, trailers |-> trailers, fin |-> withFin])

\* BufferedDataBytes(): what an error response may have left to send.
Buffered == IF fin_buffered /\ ~write_closed THEN 0..MaxWrite ELSE {0}

WriteResponseBody(n, limit, trailers, withFin) ==
  /\ AppActs
  /\ response.headers /\ ~response.fin
  /\ response.body + n <= MaxWrite
  /\ \E buffered \in Buffered :
       LET room == IF buffered >= limit THEN 0 ELSE limit - buffered
           size == IF limit = 0 \/ room > n THEN n ELSE room
       IN  Written([headers |-> TRUE, body |-> response.body + size,
                    trailers |-> response.trailers \/ trailers, fin |-> withFin])

AddOnCanWriteCallback(c) ==
  /\ AppActs
  /\ can_write_cb' = c
  /\ waiting' = c
  /\ UNCHANGED <<requestVars, qsi, body, response, pc, caller, inputVars, closeVars, outputVars,
                 taken, rejected>>

\* The callback is taken off before it is called.
OnCanWriteNewData ==
  /\ pc = "idle" /\ ~fin_buffered /\ ~write_closed
  /\ can_write_cb # NoCallback
  /\ can_write_cb' = NoCallback
  /\ waiting' = NoCallback
  /\ pc' = "canWriteCb"
  /\ UNCHANGED <<requestVars, qsi, body, response, caller, inputVars, closeVars, outputVars,
                 taken, rejected>>

\* Mutant: can_write_cb_ is cleared after the call.
CanWriteCbClears ==
  /\ pc = "canWriteCb"
  /\ pc' = "idle"
  /\ can_write_cb' = NoCallback
  /\ UNCHANGED <<requestVars, qsi, body, waiting, response, caller, inputVars, closeVars,
                 outputVars, taken, rejected>>

CanWriteCbReturns ==
  /\ pc = "canWriteCb"
  /\ pc' = "idle"
  /\ UNCHANGED <<requestVars, qsi, body, callbackVars, response, caller, inputVars, closeVars,
                 outputVars, taken, rejected>>

(***************************************************************************)
(* The connection: the FIN leaves, or the stream or the connection is      *)
(* reset, which closes both sides.                                         *)
(***************************************************************************)
FinSent ==
  /\ pc = "idle" /\ fin_buffered /\ ~write_closed
  /\ UNCHANGED qsi
  /\ OnClose(read_closed, TRUE, TRUE)
  /\ UNCHANGED <<requestVars, body, callbackVars, response, pc, caller, inputVars, outputVars,
                 taken, rejected>>

Reset ==
  /\ pc = "idle"
  /\ ~(read_closed /\ write_closed)
  /\ UNCHANGED qsi
  /\ OnClose(TRUE, TRUE, TRUE)
  /\ UNCHANGED <<requestVars, body, callbackVars, response, pc, caller, inputVars, outputVars,
                 taken, rejected>>

Init ==
  /\ http3 \in Transports
  /\ content_length = -1
  /\ header_sent = FALSE
  /\ request_host = "none"
  /\ parsed = FALSE
  /\ qsi \in FreshPointer
  /\ is_new_ok = TRUE
  /\ body = 0
  /\ can_write_cb = NoCallback
  /\ response = EmptyResponse
  /\ pc = "idle"
  /\ caller = "headers"
  /\ headers = "none"
  /\ received = 0
  /\ readable = 0
  /\ fin = FALSE
  /\ read_closed = FALSE
  /\ write_closed = FALSE
  /\ fin_buffered = FALSE
  /\ sent = <<>>
  /\ calls = <<>>
  /\ taken = 0
  /\ rejected = FALSE
  /\ waiting = NoCallback

ClientStep ==
  /\ \/ \E withFin, valid \in BOOLEAN, host \in Hosts, length \in Lengths :
          OnInitialHeadersComplete(withFin, valid, host, length)
     \/ \E n \in 0..MaxBody, withFin \in BOOLEAN : OnStreamFrame(n, withFin)
     \/ OnTrailingHeadersComplete
     \/ Reset
  /\ UNCHANGED http3

StreamStep ==
  /\ \/ \E n \in 1..MaxBody : ReadRegion(n)
     \/ BodyRead
     \/ OnRequestHeader
     \/ OnRequestBody
  /\ UNCHANGED http3

CallbackReturns ==
  /\ \/ \E ok \in BOOLEAN : HeaderCbReturns(ok) \/ BodyCbReturns(ok)
     \/ CanWriteCbReturns
  /\ UNCHANGED http3

AppStep ==
  /\ \/ \E n \in 1..MaxBody : ReadRequestBody(n)
     \/ \E trailers, withFin \in BOOLEAN : WriteResponseHeader(trailers, withFin)
     \/ \E n, limit \in 0..MaxWrite, trailers, withFin \in BOOLEAN :
          WriteResponseBody(n, limit, trailers, withFin)
     \/ \E c \in Callbacks : AddOnCanWriteCallback(c)
  /\ UNCHANGED http3

WriterStep == (OnCanWriteNewData \/ FinSent) /\ UNCHANGED http3

Next == ClientStep \/ StreamStep \/ CallbackReturns \/ AppStep \/ WriterStep

Spec == Init /\ [][Next]_vars

\* Frames are processed as they come, callbacks return, and an application
\* that was told of a request completes its response.
AppFinishes ==
  /\ \/ \E trailers \in BOOLEAN : WriteResponseHeader(trailers, TRUE)
     \/ \E n, limit \in 0..MaxWrite, trailers \in BOOLEAN :
          WriteResponseBody(n, limit, trailers, TRUE)
  /\ UNCHANGED http3

FairSpec ==
  /\ Spec
  /\ WF_vars(StreamStep)
  /\ WF_vars(CallbackReturns)
  /\ WF_vars(AppFinishes)

(***************************************************************************)
(* Properties.                                                             *)
(***************************************************************************)
Responses == [by : {"500", "403", "app"}, body : Nat, trailers : BOOLEAN]

\* Every variable has its type (the members of tQuicServerStream, the state of
\* the QuicSpdyStream it sees, and the histories).
TypeOK ==
  /\ http3 \in BOOLEAN
  /\ content_length \in Nat \cup {-1}
  /\ request_host \in {"none", "known", "unknown"}
  /\ {header_sent, parsed, is_new_ok, fin, read_closed, write_closed, fin_buffered, rejected}
       \subseteq BOOLEAN
  /\ qsi \in {"garbage", "null", "set"}
  /\ body \in 0..MaxBufferSize
  /\ {can_write_cb, waiting} \subseteq Callbacks \cup {NoCallback}
  /\ response \in [headers : BOOLEAN, body : 0..MaxWrite, trailers : BOOLEAN, fin : BOOLEAN]
  /\ pc \in PCs
  /\ caller \in {"headers", "body"}
  /\ headers \in {"none", "initial", "trailing"}
  /\ received \in 0..MaxBody
  /\ readable \in 0..received
  /\ sent \in Seq(Responses)
  /\ calls \in Seq({"header", "body", "close"})
  /\ taken \in 0..MaxBody

\* The application sees a request begin, then its body, then its end, each at
\* most once and nothing after the end, although its own calls from within
\* the callbacks may close the stream.  Only for a request that was never
\* announced, and whose qsi_ is what the constructor found there, the others
\* may come without the first.
CallbackOrder ==
  \/ calls \in {<<>>, <<"header">>, <<"header", "body">>, <<"header", "close">>,
               <<"header", "body", "close">>}
  \/ qsi = "garbage" /\ calls \in {<<"body">>, <<"close">>, <<"body", "close">>}

\* The callbacks as quic_stack_api.h lists them: OnRequestClose (and the body)
\* is of a request, which the application knows from OnRequestHeader.
AnnouncedFirst == calls # <<>> => calls[1] = "header"

\* An application that answered a callback with an error is not asked to go on
\* with the request (is_new_ok_, lines 191-195, 207-210).
RejectedIsFinal == [][rejected => calls' \in {calls, Append(calls, "close")}]_vars

\* A request is announced only when all of it was read: the buffer and what
\* the application took from it are the whole body, each byte once, and no
\* longer than content-length said.  In particular a region that was appended
\* but not consumed (line 258), and so is read twice, is never announced.
AnnouncedWhole ==
  Called("header") =>
    /\ fin
    /\ readable = 0
    /\ body + taken = received
    /\ content_length >= 0 => received <= content_length

\* tQuicServerStream.hh: the stream aggregates data, and on fin sends an HTTP
\* response.  One, whatever errors the stream itself answers before, between
\* and after the application's calls.
OneResponse == Len(sent) <= 1

\* Over HTTP/3, where a FIN never comes with the headers and what is written
\* behind a FIN is dropped, errors do no harm: only a request whose headers were
\* parsed is announced (quic_stack_api.h, OnRequestHeader), and there is one
\* response.
Http3Sound == http3 => OneResponse /\ (Called("header") => parsed)

\* The callback that the application waits for is the one the stream will
\* call, also when it was added from within the previous one (lines 301-306).
WakeUpKept == can_write_cb = waiting

Complete == headers # "none" /\ fin
Settled == sent # <<>> \/ (read_closed /\ write_closed)

\* A request whose headers and FIN have arrived is answered by the application
\* or by the stream, or the stream is reset.
RequestAnswered == Complete ~> Settled

\* The same for the requests that name a host.
NamedRequestAnswered == (Complete /\ request_host # "none") ~> Settled
===============================================================================
