---------------------------- MODULE MCHttpParser ----------------------------
(* Connections for the HTTP parser, and what is to hold however their bytes   *)
(* are cut into calls and whichever callbacks pause.                          *)
EXTENDS HttpParser, SequencesExt

(* One call with the first n bytes and no callback that pauses: the reference. *)
OneShot(n) ==
  LET f == Frame(http_parser_init(Settings.type, parser.lenient), SubSeq(input, 1, n), <<>>, 0, "pause", hc)
  IN IF n = 0 THEN [f EXCEPT !.ret = 0] ELSE Executed(f)

Uninterrupted == Settings.turns = {0}

(* Cutting the bytes into calls changes nothing: after any sequence of calls   *)
(* the parser's state and everything it reported are those of one call with    *)
(* all the bytes so far, and a message is refused with the same error at the   *)
(* same byte.  (http_parser_execute re-creates its marks from the state, and   *)
(* counts header bytes across calls, so that what one call would refuse for    *)
(* its length is refused in any number of calls.)                              *)
SplitInvariance ==
  ~eof /\ Uninterrupted => IF parser.errno = "HPE_OK" THEN ParserOf(OneShot(pos)) = parser /\ OneShot(pos).log = log
          ELSE OneShot(pos + 1).errno = parser.errno /\ OneShot(pos + 1).ret = pos

(* Pausing changes nothing either: when the whole input has been taken after   *)
(* any pauses and resumptions, nothing was lost, repeated or reordered.  Only  *)
(* the count of header bytes is left out: a pause forgets those of its call.   *)
PauseTransparency ==
  (parser.errno = "HPE_OK" /\ ~eof /\ (exited \/ pos = Len(input))) =>
    /\ OneShot(pos).log = log
    /\ [ParserOf(OneShot(pos)) EXCEPT !.nread = 0] = [parser EXCEPT !.nread = 0]

(* What may follow what in the callbacks of one connection. *)
Follows ==
  [message_begin |-> {"url", "status"},
   url |-> {"header_field", "headers_complete"}, status |-> {"header_field", "headers_complete"},
   header_field |-> {"header_value"}, header_value |-> {"header_field", "headers_complete", "chunk_complete"},
   headers_complete |-> {"message_complete", "body", "chunk_header"},
   chunk_header |-> {"body", "header_field", "chunk_complete"},
   body |-> {"message_complete", "chunk_complete"},
   chunk_complete |-> {"chunk_header", "message_complete"},
   message_complete |-> {"message_begin"}]

(* The callbacks of a connection form messages: begin, start line, headers,    *)
(* body or chunks, complete, in this order and none missing.                   *)
CallbackProtocol ==
  /\ log # <<>> => log[1].cb = "message_begin"
  /\ \A i \in 1..(Len(log) - 1) : log[i + 1].cb \in Follows[log[i].cb]

LowerText(s) == FoldLeft(LAMBDA acc, i : acc \o IF At(s, i) \in ALPHA THEN LOWER(At(s, i)) ELSE At(s, i), "", [i \in 1..Len(s) |-> i])
Digits(s) == FoldLeft(LAMBDA acc, i : IF At(s, i) \in NUM THEN 10 * acc + DigitVal(At(s, i)) ELSE acc, 0, [i \in 1..Len(s) |-> i])
BodyBytes(b, e) == FoldLeft(LAMBDA acc, ev : acc + IF ev.cb = "body" THEN Len(ev.data) ELSE 0, 0, SubSeq(log, b, e))

(* What is reported as body is what the framing announced: a chunk has exactly *)
(* the bytes of its size line, and a message with a Content-Length that many,  *)
(* never the reserved value ULLONG_MAX.                                        *)
BodyAsFramed ==
  \A i \in 1..Len(log) :
    /\ log[i].cb = "chunk_header" =>
         \/ log[i].n > 0 /\ i + 1 < Len(log) /\ log[i + 1].cb = "body" /\ Len(log[i + 1].data) = log[i].n
         \/ log[i].n = 0 /\ \A j \in {i + 1} \cap DOMAIN log : log[j].cb # "body"
         \/ log[i].n > 0 /\ i + 1 >= Len(log) /\ BodyBytes(i, Len(log)) <= log[i].n
    /\ log[i].cb = "header_field" /\ LowerText(log[i].data) = "content-length" /\ hc = 0 =>
         \A e \in (i + 1)..Len(log) :
           /\ log[e].cb = "message_complete"
           /\ \A j \in i..(e - 1) : log[j].cb \notin {"message_complete", "chunk_header"}
           => BodyBytes(i, e) = Digits(log[i + 1].data)

(* A caller that keeps feeding and resuming is done after finitely many calls, *)
(* even if every call is paused by its first callback.                         *)
Terminates == <>(exited \/ eof \/ pos = Len(input) \/ parser.errno \notin {"HPE_OK", "HPE_PAUSED"})

MethodNames ==
  {"DELETE", "GET", "HEAD", "POST", "PUT", "CONNECT", "OPTIONS", "TRACE", "COPY", "LOCK", "MKCOL", "MOVE", "PROPFIND",
   "PROPPATCH", "SEARCH", "UNLOCK", "BIND", "REBIND", "UNBIND", "ACL", "REPORT", "MKACTIVITY", "CHECKOUT", "MERGE",
   "M-SEARCH", "NOTIFY", "SUBSCRIBE", "UNSUBSCRIBE", "PATCH", "PURGE", "MKCALENDAR", "LINK", "UNLINK", "SOURCE"}

(* Matching a method by switching from name to name accepts exactly the names  *)
(* of HTTP_METHOD_MAP, and reports the one that was read.                      *)
MethodExact ==
  (caller = "methods" /\ (pos = Len(input) \/ parser.errno # "HPE_OK")) =>
    /\ parser.errno = "HPE_OK" <=> \E m \in MethodNames : input = m \o " "
    /\ parser.errno = "HPE_OK" => input = parser.method \o " "

(* What a connection is reported to hold is what its bytes say: messages whose *)
(* parts come in order, with the method that was written and the body that was *)
(* announced.                                                                  *)
ReportedAsWritten == CallbackProtocol /\ BodyAsFramed /\ MethodExact

---------------------------------------------------------------------------
MCRequests ==
  {"POST /a?b#c HTTP/1.1\r\nHost: x\r\nContent-Length: 3\r\n\r\nabcGET / HTTP/1.1\r\n\r\n\r\nBAD",
   "PUT /x HTTP/1.1\r\nTransfer-Encoding: a, chunked\r\n\r\n3;a=b\r\nabc\r\n0B\r\n0123456789A\r\n0\r\nT: u\r\n\r\nHEAD * HTTP/1.0\r\n\r\nX",
   "GET http://u@h:1/ HTTP/1.1\nConnection: keep-alive, Upgrade\nUpgrade: ws\n\nraw",
   "CONNECT h:1 HTTP/1.1\r\nProxy-Connection: keep-alive\r\n\r\nraw",
   "GET / HTTP/1.1\r\nConnection: a,\r\n close\r\nX:\r\n \r\nY: z\r\n w\r\nContent-Length: 2\r\n \r\n\r\nab\r\nG",
   "SOURCE / ICE/1.0\r\nConnection: closed, keep-alive \r\n\r\nGET /\r\n\r\n\r\n"}

MCResponses ==
  {"HTTP/1.1 200 OK\r\nContent-Length: 2\r\n\r\nhiHTTP/1.1 204\r\n\r\nHTTP/1.1 200 \r\nA:\r\n\r\ntail",
   "HTTP/1.1 101 Sw\r\nUpgrade: a\r\nConnection: x,upgrade\r\n\r\nraw",
   "HTTP/1.0 404 No\nTransfer-Encoding: x\n\nrest",
   "HTTP/1.1 200 OK\r\nTransfer-Encoding: chunked\r\n\r\n2\r\nab\r\n00\r\n\r\nHTTP/1.0 304 N\r\nContent-Length: 0\r\n\r\n"}

MCRefused ==
  {"GET / HTTP/1.1\r\nContent-Length: 1\r\nContent-Length: 1\r\n\r\n", "GET / HTTP/1.1\r\nContent-Length: 2 5\r\n\r\n",
   "GET / HTTP/1.1\r\nContent-Length:\r\n\r\n", "GET / HTTP/1.1\r\nContent-Length: 258\r\n\r\nab", "GET / HTTP/1.1\r\nContent-Length: x\r\n",
   "GET / HTTP/1.1\r\nContent-Length: 1\r\nTransfer-Encoding: chunked\r\n\r\n", "GET / HTTP/1.1\r\nTransfer-Encoding: chunkedx\r\n\r\n",
   "PUT / HTTP/1.1\r\nTransfer-Encoding: chunked\r\n\r\nff\r\n", "PUT / HTTP/1.1\r\nTransfer-Encoding: chunked\r\n\r\n1\r\naX",
   "PUT / HTTP/1.1\r\nTransfer-Encoding: chunked\r\n\r\ng", "GET / HTTP/1.1\r\nA\f: b\r\n", "GET / HTTP/1.1\r\nA: \fb\r\n",
   "GET / HTTP/1.1\r\nA: b\rC", "GET / HTTP/1.1\r\r", "GET / HTTP/x", "GET / X", "GET / HTTP/1.1\r\nA:\rb", "GET / HTTP/1.1\r\n\rb",
   "GET h HTTP", "GET ^ HTTP", "gET", "GEX", "MKXY", "HX", "HTTP/1.1 2000", "HTTP/1.1 x", "HTTP/1.1x", "HTTP/11", "HTTX", " "}

MCAll == MCRequests \cup MCResponses \cup MCRefused

(* Two method names crossed over at every place. *)
MCMethods ==
  UNION {{SubSeq(a, 1, i) \o SubSeq(b, i + 1, Len(b)) \o " " : i \in {j \in 0..4 : j <= Len(a) /\ j <= Len(b)}} :
         a \in MethodNames, b \in MethodNames}

MCLong == {"GET /a HTTP/1.1\r\nAbcd: efgh\r\nHi: jk\r\n\r\n", "GET /a HTTP/1.1\r\nAbcdefghi: k\r\n\r\n", "HTTP/1.1 200 OK\nAb: c\nDefghijkl:\n m\n\n",
           "GET /abcdefghijklmnopqrstuvw HTTP/1.1\r\n\r\n"}
MCUpgrade == {"PUT / HTTP/1.1\r\nUpgrade: a\r\nConnection: upgrade\r\nContent-Length: 2\r\n\r\nab"}
MCPaused ==
  MCUpgrade \cup
  {"GET /x HTTP/1.1\nA: b\nC:\n\nGET /", "PUT / HTTP/1.1\nTransfer-Encoding: chunked\n\n2\r\nab\r\n0\r\nT: u\r\n\r\nG",
   "HTTP/1.1 204 N\n\nHTTP/1.0 200 OK\r\nA: b\r\n c\r\n\r\ntail", "CONNECT h:1 HTTP/1.1\n\nraw"}

Whole == [type |-> "BOTH", limit |-> 400, sizes |-> {1, 2, 7}, turns |-> {0}, outcomes |-> {"pause"}, returns |-> {0, 1}, eof |-> TRUE]
MCCallers ==
  [whole |-> Whole,
   limited |-> [Whole EXCEPT !.limit = 28, !.sizes = {1, 3}, !.returns = {0}],
   pausing |-> [Whole EXCEPT !.sizes = {1}, !.turns = {0, 1}, !.outcomes = {"pause", "fail"}, !.returns = {0, 2}],
   methods |-> [Whole EXCEPT !.type = "REQUEST", !.sizes = {}, !.returns = {0}, !.eof = FALSE]]
MCInputs == [whole |-> MCAll, limited |-> MCLong, pausing |-> MCPaused, methods |-> MCMethods]
=============================================================================
