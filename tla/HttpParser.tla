----------------------------- MODULE HttpParser -----------------------------
(* http_parser/http_parser.c: the incremental HTTP/1 parser.  The caller      *)
(* feeds it the bytes of a connection in calls of http_parser_execute of any  *)
(* length; it calls back with what it recognises, and a callback may pause or *)
(* fail the call.  States, flags and errors keep their names.  A call is one  *)
(* action; inside it the record f holds the parser's fields and the locals:   *)
(* the cursor p (from 1), the marks, nread, and ret once the call is to       *)
(* return (-1 before).                                                        *)
EXTENDS HttpUrl, FiniteSetsExt, Sequences

CONSTANTS ULLONG_MAX,      \* largest uint64_t, and "no content length"
          Callers,         \* who uses the parser and how: a function to records of
                           \*   type:    "REQUEST", "RESPONSE" or "BOTH"
                           \*   limit:   passed to http_parser_set_max_header_size
                           \*   sizes:   how many bytes a call is given, if not all
                           \*   turns:   which callback of a call ends it; 0 for none
                           \*   outcomes: how it does: "pause" or "fail"
                           \*   returns: what on_headers_complete returns
                           \*   eof:     whether the connection may end
          Inputs           \* what a connection of each caller may carry
ASSUME ULLONG_MAXAssumption == ULLONG_MAX \in Nat /\ ULLONG_MAX >= 16
ASSUME CallersAssumption == \A c \in DOMAIN Callers : Callers[c].limit \in Nat /\ Callers[c].sizes \subseteq Nat
(* What the proofs need to know of texts: digits have their values, and a part *)
(* of a text has the length it was cut to.                                     *)
ASSUME DigitAssumption == (\A ch \in NUM : DigitVal(ch) \in 0..9) /\ (\A ch \in HEX : unhex(ch) \in 0..15)
ASSUME InputAssumption ==
  /\ Len("") = 0
  /\ \A c \in DOMAIN Callers : \A text \in Inputs[c] :
       Len(text) \in Nat /\ \A i \in 0..Len(text) : \A n \in 0..(Len(text) - i) : Len(SubSeq(text, i + 1, i + n)) = n

VARIABLES caller, \* one of Callers
          parser, \* struct http_parser between calls
          input, pos, eof, exited, \* the connection, what was consumed, its end
          hc,     \* on_headers_complete's return value for this connection
          log,    \* callbacks made, consecutive data callbacks of a kind joined
          failed  \* assertions of the code that did not hold
vars == <<caller, parser, input, pos, eof, exited, hc, log, failed>>

Settings == Callers[caller]
max_header_size == Settings.limit

DataCallbacks == {"url", "status", "header_field", "header_value", "body"}
NoMarks == [cb \in DataCallbacks |-> 0]

http_parser_init(t, lenient) ==
  [type |-> t, lenient |-> lenient, hs |-> "h_general", index |-> 0, flags |-> {}, te |-> FALSE, nread |-> 0,
   content_length |-> 0, major |-> 0, minor |-> 0, code |-> 0, method |-> "DELETE", errno |-> "HPE_OK", upgrade |-> FALSE,
   st |-> CASE t = "REQUEST" -> "s_start_req" [] t = "RESPONSE" -> "s_start_res" [] OTHER -> "s_start_req_or_res"]

---------------------------------------------------------------------------
(* The macros: state changes, errors, marks, callbacks, header size. *)

Running(f) == f.ret = -1
Then(f, Op(_)) == IF Running(f) THEN Op(f) ELSE f
Four(f, Op(_)) == Then(Then(Then(Op(f), Op), Op), Op)
Goto(f, s) == [f EXCEPT !.st = s]
Error(f, e) == [f EXCEPT !.errno = e, !.ret = f.p - 1, !.saved = f.nread]
Check(f, name, cond) == IF cond THEN f ELSE [f EXCEPT !.failed = @ \cup {name}]
MARK(f, cb) == [f EXCEPT !.mark[cb] = IF @ = 0 THEN f.p ELSE @]
RETURN(f, used) == [f EXCEPT !.ret = used, !.saved = f.nread]

Logged(l, ev) ==
  IF l # <<>> /\ l[Len(l)].cb = ev.cb /\ ev.cb \in DataCallbacks
  THEN [l EXCEPT ![Len(l)].data = @ \o ev.data] ELSE Append(l, ev)

(* A callback that pauses leaves parser->nread as it was when the call began; *)
(* one that fails goes through SET_ERRNO, which stores the local.             *)
Callback(f, cb, data, used) ==
  LET g == [Check(f, "errno is OK at a callback", f.errno = "HPE_OK")
              EXCEPT !.log = Logged(@, [cb |-> cb, data |-> data, n |-> IF cb = "chunk_header" THEN f.content_length ELSE 0]),
                     !.turn = @ - 1]
  IN IF f.turn # 1 THEN g
     ELSE IF f.outcome = "pause" THEN [g EXCEPT !.errno = "HPE_PAUSED", !.ret = used]
     ELSE [g EXCEPT !.errno = "HPE_CB_" \o cb, !.ret = used, !.saved = f.nread]

CALLBACK_NOTIFY(f, cb) == Callback(f, cb, "", f.p)
(* Mutant: the byte is consumed as in CALLBACK_NOTIFY. *)
CALLBACK_NOTIFY_NOADVANCE_Consumes(f, cb) == Callback(f, cb, "", f.p)
CALLBACK_NOTIFY_NOADVANCE(f, cb) == Callback(f, cb, "", f.p - 1)
(* Mutant: the mark is not cleared. *)
CALLBACK_DATA_Kept(f, cb, last, used) ==
  IF f.mark[cb] = 0 THEN f ELSE Callback(f, cb, SubSeq(f.data, f.mark[cb], last), used)
CALLBACK_DATA_(f, cb, last, used) ==
  IF f.mark[cb] = 0 THEN f
  ELSE Then(Callback(f, cb, SubSeq(f.data, f.mark[cb], last), used), LAMBDA g : [g EXCEPT !.mark[cb] = 0])
CALLBACK_DATA(f, cb) == CALLBACK_DATA_(f, cb, f.p - 1, f.p)
CALLBACK_DATA_NOADVANCE(f, cb) == CALLBACK_DATA_(f, cb, f.p - 1, f.p - 1)

COUNT_HEADER_SIZE(f, n) ==
  LET g == [f EXCEPT !.nread = @ + n] IN IF g.nread > max_header_size THEN Error(g, "HPE_HEADER_OVERFLOW") ELSE g
PARSING_HEADER(s) == s \notin {"s_chunk_data", "s_chunk_data_almost_done", "s_chunk_data_done",
                               "s_body_identity", "s_body_identity_eof", "s_message_done"}

---------------------------------------------------------------------------
(* Does the message end only with the connection; may another one follow? *)
http_message_needs_eof(f) ==
  /\ f.type # "REQUEST"
  /\ f.code \div 100 # 1 /\ f.code \notin {204, 304} /\ "F_SKIPBODY" \notin f.flags
  /\ \/ f.te /\ "F_CHUNKED" \notin f.flags
     \/ "F_CHUNKED" \notin f.flags /\ f.content_length = ULLONG_MAX

http_should_keep_alive(f) ==
  /\ IF f.major > 0 /\ f.minor > 0 THEN "F_CONNECTION_CLOSE" \notin f.flags ELSE "F_CONNECTION_KEEP_ALIVE" \in f.flags
  /\ ~http_message_needs_eof(f)

NEW_MESSAGE(f) ==
  Goto(f, IF http_should_keep_alive(f) THEN IF f.type = "REQUEST" THEN "s_start_req" ELSE "s_start_res" ELSE "s_dead")

---------------------------------------------------------------------------
(* States that accept one character, or one digit, and go on. *)
STRICT == "HPE_STRICT"
Literal ==
  [s_res_H |-> <<"T", "s_res_HT", STRICT>>, s_res_HT |-> <<"T", "s_res_HTT", STRICT>>,
   s_res_HTT |-> <<"P", "s_res_HTTP", STRICT>>, s_res_HTTP |-> <<"/", "s_res_http_major", STRICT>>,
   s_res_http_dot |-> <<".", "s_res_http_minor", "HPE_INVALID_VERSION">>,
   s_res_http_end |-> <<" ", "s_res_first_status_code", "HPE_INVALID_VERSION">>,
   s_res_line_almost_done |-> <<"\n", "s_header_field_start", STRICT>>,
   s_req_http_H |-> <<"T", "s_req_http_HT", STRICT>>, s_req_http_HT |-> <<"T", "s_req_http_HTT", STRICT>>,
   s_req_http_HTT |-> <<"P", "s_req_http_HTTP", STRICT>>, s_req_http_I |-> <<"C", "s_req_http_IC", STRICT>>,
   s_req_http_IC |-> <<"E", "s_req_http_HTTP", STRICT>>, s_req_http_HTTP |-> <<"/", "s_req_http_major", STRICT>>,
   s_req_http_dot |-> <<".", "s_req_http_minor", "HPE_INVALID_VERSION">>,
   s_req_line_almost_done |-> <<"\n", "s_header_field_start", "HPE_LF_EXPECTED">>,
   s_header_almost_done |-> <<"\n", "s_header_value_lws", "HPE_LF_EXPECTED">>,
   s_header_value_discard_ws_almost_done |-> <<"\n", "s_header_value_discard_lws", STRICT>>]

LiteralState(f, ch) ==
  IF ch = Literal[f.st][1] THEN Goto(f, Literal[f.st][2]) ELSE Error(f, Literal[f.st][3])

VersionState(f, ch) ==
  IF ch \notin NUM THEN Error(f, "HPE_INVALID_VERSION") ELSE
  CASE f.st = "s_req_http_major" -> [f EXCEPT !.major = DigitVal(ch), !.st = "s_req_http_dot"]
    [] f.st = "s_res_http_major" -> [f EXCEPT !.major = DigitVal(ch), !.st = "s_res_http_dot"]
    [] f.st = "s_req_http_minor" -> [f EXCEPT !.minor = DigitVal(ch), !.st = "s_req_http_end"]
    [] f.st = "s_res_http_minor" -> [f EXCEPT !.minor = DigitVal(ch), !.st = "s_res_http_end"]

---------------------------------------------------------------------------
(* Between messages, and the first byte of one. *)
Fresh(f) == [f EXCEPT !.flags = {}, !.te = FALSE, !.content_length = ULLONG_MAX]

FirstMethod ==
  [A |-> "ACL", B |-> "BIND", C |-> "CONNECT", D |-> "DELETE", G |-> "GET", H |-> "HEAD", L |-> "LOCK", M |-> "MKCOL",
   N |-> "NOTIFY", O |-> "OPTIONS", P |-> "POST", R |-> "REPORT", S |-> "SUBSCRIBE", T |-> "TRACE", U |-> "UNLOCK"]

StartReq(f, ch) ==
  IF ch \notin DOMAIN FirstMethod THEN Error(Fresh(f), "HPE_INVALID_METHOD")
  ELSE CALLBACK_NOTIFY([Fresh(f) EXCEPT !.method = FirstMethod[ch], !.index = 1, !.st = "s_req_method"], "message_begin")

StartState(f, ch) ==
  IF ch \in CRLF THEN f ELSE
  CASE f.st = "s_dead" -> Error(f, "HPE_CLOSED_CONNECTION")
    [] f.st = "s_start_req" -> StartReq(f, ch)
    [] f.st = "s_start_res" -> IF ch = "H" THEN CALLBACK_NOTIFY(Goto(Fresh(f), "s_res_H"), "message_begin")
                               ELSE Error(Fresh(f), "HPE_INVALID_CONSTANT")
    [] f.st = "s_start_req_or_res" -> IF ch = "H" THEN CALLBACK_NOTIFY(Goto(Fresh(f), "s_res_or_resp_H"), "message_begin")
                                      ELSE StartReq([f EXCEPT !.type = "REQUEST", !.st = "s_start_req"], ch)

ReqOrRes(f, ch) ==
  CASE ch = "T" -> [f EXCEPT !.type = "RESPONSE", !.st = "s_res_HT"]
    [] ch = "E" -> [f EXCEPT !.type = "REQUEST", !.method = "HEAD", !.index = 2, !.st = "s_req_method"]
    [] OTHER -> Error(f, "HPE_INVALID_CONSTANT")

(* The method is matched against one name at a time; these are the places    *)
(* where another name is taken up: name, index, byte, new name.              *)
MethodSwitches ==
  {<<"POST", 1, "U", "PUT">>, <<"POST", 1, "A", "PATCH">>, <<"POST", 1, "R", "PROPFIND">>, <<"PUT", 2, "R", "PURGE">>,
   <<"CONNECT", 1, "H", "CHECKOUT">>, <<"CONNECT", 2, "P", "COPY">>, <<"MKCOL", 1, "O", "MOVE">>,
   <<"MKCOL", 1, "E", "MERGE">>, <<"MKCOL", 1, "-", "M-SEARCH">>, <<"MKCOL", 2, "A", "MKACTIVITY">>,
   <<"MKCOL", 3, "A", "MKCALENDAR">>, <<"SUBSCRIBE", 1, "E", "SEARCH">>, <<"SUBSCRIBE", 1, "O", "SOURCE">>,
   <<"REPORT", 2, "B", "REBIND">>, <<"PROPFIND", 4, "P", "PROPPATCH">>, <<"LOCK", 1, "I", "LINK">>,
   <<"UNLOCK", 2, "S", "UNSUBSCRIBE">>, <<"UNLOCK", 2, "B", "UNBIND">>, <<"UNLOCK", 3, "I", "UNLINK">>}
(* Mutant: MKCALENDAR is taken up one byte too early. *)
MethodSwitch_Early == (MethodSwitches \ {<<"MKCOL", 3, "A", "MKCALENDAR">>, <<"MKCOL", 2, "A", "MKACTIVITY">>})
                        \cup {<<"MKCOL", 2, "A", "MKCALENDAR">>}
MethodSwitch == MethodSwitches

MethodState(f, ch) ==
  LET expected == At(f.method, f.index + 1)
      switch == {x \in MethodSwitch : x[1] = f.method /\ x[2] = f.index /\ x[3] = ch}
      g == [f EXCEPT !.index = @ + 1]
  IN CASE ch = " " /\ expected = "" -> Goto(g, "s_req_spaces_before_url")
       [] ch = expected -> g
       [] ch # expected /\ switch # {} -> [g EXCEPT !.method = (CHOOSE x \in switch : TRUE)[4]]
       [] OTHER -> Error(f, "HPE_INVALID_METHOD")

---------------------------------------------------------------------------
(* The rest of the request line and of the status line. *)
UrlStates == {"s_req_schema", "s_req_schema_slash", "s_req_schema_slash_slash", "s_req_server_start", "s_req_server",
              "s_req_server_with_at", "s_req_path", "s_req_query_string_start", "s_req_query_string",
              "s_req_fragment_start", "s_req_fragment"}
UrlMayEnd == UrlStates \ {"s_req_schema", "s_req_schema_slash", "s_req_schema_slash_slash", "s_req_server_start"}

UrlByte(f, s, ch) ==
  IF parse_url_char(s, ch) = "s_dead" THEN Error(Goto(f, "s_dead"), "HPE_INVALID_URL") ELSE Goto(f, parse_url_char(s, ch))

UrlState(f, ch) ==
  CASE f.st = "s_req_spaces_before_url" ->
         IF ch = " " THEN f
         ELSE UrlByte(MARK(f, "url"), IF f.method = "CONNECT" THEN "s_req_server_start" ELSE f.st, ch)
    [] f.st \in UrlMayEnd /\ ch = " " -> CALLBACK_DATA(Goto(f, "s_req_http_start"), "url")
    [] f.st \in UrlMayEnd /\ ch \in CRLF ->
         CALLBACK_DATA([f EXCEPT !.major = 0, !.minor = 9,
                                 !.st = IF ch = "\r" THEN "s_req_line_almost_done" ELSE "s_header_field_start"], "url")
    [] f.st \in UrlStates \ UrlMayEnd /\ ch \in CRLF \cup {" "} -> Error(f, "HPE_INVALID_URL")
    [] OTHER -> UrlByte(f, f.st, ch)

RequestLineEnd(f, ch) ==
  CASE f.st = "s_req_http_start" /\ ch = " " -> f
    [] f.st = "s_req_http_start" /\ ch = "H" -> Goto(f, "s_req_http_H")
    [] f.st = "s_req_http_start" /\ ch = "I" /\ f.method = "SOURCE" -> Goto(f, "s_req_http_I")
    [] f.st = "s_req_http_end" /\ ch = "\r" -> Goto(f, "s_req_line_almost_done")
    [] f.st = "s_req_http_end" /\ ch = "\n" -> Goto(f, "s_header_field_start")
    [] OTHER -> Error(f, IF f.st = "s_req_http_end" THEN "HPE_INVALID_VERSION" ELSE "HPE_INVALID_CONSTANT")

ResStatus(f, ch) ==
  CASE ch = "\r" -> CALLBACK_DATA(Goto(f, "s_res_line_almost_done"), "status")
    [] ch = "\n" -> CALLBACK_DATA(Goto(f, "s_header_field_start"), "status")
    [] OTHER -> f

ResStatusStart(f, ch) ==
  LET g == [MARK(f, "status") EXCEPT !.st = "s_res_status", !.index = 0] IN IF ch \in CRLF THEN ResStatus(g, ch) ELSE g

StatusCode(f, ch) ==
  CASE ch \in NUM /\ f.st = "s_res_first_status_code" -> [f EXCEPT !.code = DigitVal(ch), !.st = "s_res_status_code"]
    [] ch \in NUM /\ f.st = "s_res_status_code" ->
         LET g == [f EXCEPT !.code = 10 * @ + DigitVal(ch)] IN IF g.code > 999 THEN Error(g, "HPE_INVALID_STATUS") ELSE g
    [] ch = " " -> IF f.st = "s_res_status_code" THEN Goto(f, "s_res_status_start") ELSE f
    [] ch \in CRLF /\ f.st = "s_res_status_code" -> ResStatusStart(f, ch)
    [] OTHER -> Error(f, "HPE_INVALID_STATUS")

---------------------------------------------------------------------------
(* A header field: the names that matter are matched while they are read. *)
(* A word being matched: the word, the state once it is whole, and otherwise. *)
Word(text, whole, other) == [text |-> text, whole |-> whole, other |-> other]
FieldWords ==
  [h_matching_connection |-> Word("connection", "h_connection", "h_general"),
   h_matching_proxy_connection |-> Word("proxy-connection", "h_connection", "h_general"),
   h_matching_content_length |-> Word("content-length", "h_content_length", "h_general"),
   h_matching_transfer_encoding |-> Word("transfer-encoding", "h_transfer_encoding", "h_general"),
   h_matching_upgrade |-> Word("upgrade", "h_upgrade", "h_general")]
ValueWords ==
  [h_matching_transfer_encoding_chunked |->
     Word("chunked", "h_transfer_encoding_chunked", "h_matching_transfer_encoding_token"),
   h_matching_connection_keep_alive |-> Word("keep-alive", "h_connection_keep_alive", "h_matching_connection_token"),
   h_matching_connection_close |-> Word("close", "h_connection_close", "h_matching_connection_token"),
   h_matching_connection_upgrade |-> Word("upgrade", "h_connection_upgrade", "h_matching_connection_token")]

MatchWord(f, w, c) ==
  [f EXCEPT !.index = @ + 1,
            !.hs = IF c # At(w.text, f.index + 2) THEN w.other
                   ELSE IF f.index + 2 = Len(w.text) THEN w.whole ELSE @]

WholeNames == {"h_connection", "h_content_length", "h_transfer_encoding", "h_upgrade"}
FieldChar(f, c) ==
  CASE f.hs \in DOMAIN FieldWords ->
         LET g == MatchWord(f, FieldWords[f.hs], c) IN [g EXCEPT !.te = @ \/ g.hs = "h_transfer_encoding"]
    [] f.hs = "h_C" -> [f EXCEPT !.index = @ + 1, !.hs = IF c = "o" THEN "h_CO" ELSE "h_general"]
    [] f.hs = "h_CO" -> [f EXCEPT !.index = @ + 1, !.hs = IF c = "n" THEN "h_CON" ELSE "h_general"]
    [] f.hs = "h_CON" -> [f EXCEPT !.index = @ + 1, !.hs = CASE c = "n" -> "h_matching_connection"
                                                             [] c = "t" -> "h_matching_content_length"
                                                             [] OTHER -> "h_general"]
    [] f.hs \in WholeNames \cup {"h_general"} -> [f EXCEPT !.hs = "h_general"] \* a name that goes on is another name
    [] OTHER -> Check(f, "header state known", FALSE)

(* The name is matched byte by byte, then the loop has run out of bytes or is  *)
(* at one that is no part of a name.                                           *)
FieldTurn(f) == [FieldChar(f, TOKEN(At(f.data, f.p))) EXCEPT !.p = @ + 1]
FieldTurns(f, n) == LET M[k \in 0..n] == IF k = 0 THEN f ELSE FieldTurn(M[k - 1]) IN M[n]
FieldEnd(f, start) ==
  IF f.p > Len(f.data) THEN COUNT_HEADER_SIZE([f EXCEPT !.p = @ - 1], f.p - 1 - start)
  ELSE Then(COUNT_HEADER_SIZE(f, f.p - start),
            LAMBDA g : IF At(f.data, f.p) = ":" THEN CALLBACK_DATA(Goto(g, "s_header_value_discard_ws"), "header_field")
                       ELSE Error(g, "HPE_INVALID_HEADER_TOKEN"))
FieldLoop(f) ==
  LET ends == {q \in f.p..Len(f.data) : TOKEN(At(f.data, q)) = ""}
      end == IF ends = {} THEN Len(f.data) + 1 ELSE Min(ends)
  IN FieldEnd(FieldTurns(f, end - f.p), f.p)

---------------------------------------------------------------------------
(* A header value: its first byte, the others, and what it turned out to be. *)
ConnectionWord(c, other) ==
  CASE c = "k" -> "h_matching_connection_keep_alive"
    [] c = "c" -> "h_matching_connection_close"
    [] c = "u" -> "h_matching_connection_upgrade"
    [] OTHER -> other

ValueStart(f, ch) ==
  LET c == LOWER(ch)
      g == [MARK(f, "header_value") EXCEPT !.st = "s_header_value", !.index = 0]
  IN CASE f.hs = "h_upgrade" -> [g EXCEPT !.flags = @ \cup {"F_UPGRADE"}, !.hs = "h_general"]
       [] f.hs = "h_transfer_encoding" ->
            [g EXCEPT !.hs = IF c = "c" THEN "h_matching_transfer_encoding_chunked" ELSE "h_matching_transfer_encoding_token"]
       [] f.hs = "h_content_length" ->
            IF ch \notin NUM THEN Error(g, "HPE_INVALID_CONTENT_LENGTH")
            ELSE IF "F_CONTENTLENGTH" \in f.flags THEN Error(g, "HPE_UNEXPECTED_CONTENT_LENGTH")
            ELSE [g EXCEPT !.flags = @ \cup {"F_CONTENTLENGTH"}, !.content_length = DigitVal(ch), !.hs = "h_content_length_num"]
       [] f.hs = "h_connection" -> [g EXCEPT !.hs = ConnectionWord(c, "h_matching_connection_token")]
       [] f.hs \in {"h_matching_transfer_encoding_token_start", "h_content_length_ws", "h_matching_connection_token_start"} -> g
       [] OTHER -> [g EXCEPT !.hs = "h_general"]

DiscardWs(f, ch) ==
  CASE ch \in LWS -> f
    [] ch = "\r" -> Goto(f, "s_header_value_discard_ws_almost_done")
    [] ch = "\n" -> Goto(f, "s_header_value_discard_lws")
    [] OTHER -> ValueStart(f, ch)

(* Mutant: the limit of a division without the conservative margin. *)
ContentLengthDigit_Tight(f, ch) ==
  IF ch = " " THEN [f EXCEPT !.hs = "h_content_length_ws"]
  ELSE IF ch \notin NUM \/ ULLONG_MAX \div 10 < f.content_length THEN Error(f, "HPE_INVALID_CONTENT_LENGTH")
  ELSE [f EXCEPT !.content_length = (10 * @ + DigitVal(ch)) % (ULLONG_MAX + 1)]
ContentLengthDigit(f, ch) ==
  IF ch = " " THEN [f EXCEPT !.hs = "h_content_length_ws"]
  ELSE IF ch \notin NUM \/ (ULLONG_MAX - 10) \div 10 < f.content_length THEN Error(f, "HPE_INVALID_CONTENT_LENGTH")
  ELSE [f EXCEPT !.content_length = (10 * @ + DigitVal(ch)) % (ULLONG_MAX + 1)]

FlagOf ==
  [h_connection_keep_alive |-> "F_CONNECTION_KEEP_ALIVE", h_connection_close |-> "F_CONNECTION_CLOSE",
   h_connection_upgrade |-> "F_CONNECTION_UPGRADE", h_transfer_encoding_chunked |-> "F_CHUNKED"]
Recognised(f) == IF f.hs \in DOMAIN FlagOf THEN [f EXCEPT !.flags = @ \cup {FlagOf[f.hs]}] ELSE f

(* In a list, the byte where an element may start (the byte was lower-cased first). *)
ListStart(f, c) ==
  [f EXCEPT !.hs =
     CASE f.hs = "h_matching_transfer_encoding_token_start" /\ TOKEN(c) # "" ->
            IF c = "c" THEN "h_matching_transfer_encoding_chunked" ELSE "h_matching_transfer_encoding_token"
       [] f.hs = "h_matching_connection_token_start" /\ TOKEN(c) # "" -> ConnectionWord(c, "h_matching_connection_token")
       [] TOKEN(c) = "" -> IF c \in LWS THEN @ ELSE "h_general"]

ValueChar(f, ch) ==
  LET c == LOWER(ch) IN
  CASE f.hs \in {"h_connection", "h_transfer_encoding"} -> Check(f, "value state reached", FALSE)
    [] f.hs = "h_content_length" -> IF ch = " " THEN f ELSE ContentLengthDigit([f EXCEPT !.hs = "h_content_length_num"], ch)
    [] f.hs = "h_content_length_num" -> ContentLengthDigit(f, ch)
    [] f.hs = "h_content_length_ws" -> IF ch = " " THEN f ELSE Error(f, "HPE_INVALID_CONTENT_LENGTH")
    [] f.hs \in {"h_matching_transfer_encoding_token_start", "h_matching_connection_token_start"} -> ListStart(f, c)
    [] f.hs \in DOMAIN ValueWords -> MatchWord(f, ValueWords[f.hs], c)
    [] f.hs = "h_matching_transfer_encoding_token" ->
         IF ch = "," THEN [f EXCEPT !.hs = "h_matching_transfer_encoding_token_start", !.index = 0] ELSE f
    [] f.hs = "h_matching_connection_token" ->
         IF ch = "," THEN [f EXCEPT !.hs = "h_matching_connection_token_start", !.index = 0] ELSE f
    [] f.hs = "h_transfer_encoding_chunked" ->
         IF ch = " " THEN f ELSE [f EXCEPT !.hs = "h_matching_transfer_encoding_token"]
    [] f.hs \in {"h_connection_keep_alive", "h_connection_close", "h_connection_upgrade"} ->
         CASE ch = "," -> [Recognised(f) EXCEPT !.hs = "h_matching_connection_token_start", !.index = 0]
           [] ch = " " -> f
           [] OTHER -> [f EXCEPT !.hs = "h_matching_connection_token"]
    [] OTHER -> [f EXCEPT !.hs = "h_general"]

(* In h_general the loop runs ahead, at most max_header_size bytes; when it   *)
(* is stopped by that limit the byte there is passed over unread.             *)
RunAhead(f) ==
  LET pe == f.p + IF Len(f.data) - f.p + 1 < max_header_size THEN Len(f.data) - f.p + 1 ELSE max_header_size
      stops == {q \in f.p..(pe - 1) : At(f.data, q) \in CRLF \/ (~f.lenient /\ ~IS_HEADER_CHAR(At(f.data, q)))}
      q == CHOOSE x \in stops : \A y \in stops : x <= y
  IN IF stops = {} THEN [f EXCEPT !.p = IF pe > Len(f.data) THEN pe ELSE pe + 1]
     ELSE IF At(f.data, q) \in CRLF THEN [f EXCEPT !.p = q]
     ELSE Error([f EXCEPT !.p = q], "HPE_INVALID_HEADER_TOKEN")

(* The loop goes on to a CR, a LF, a byte it refuses or the end of the bytes. *)
Refuses(f, ch) == ~f.lenient /\ ~IS_HEADER_CHAR(ch)
ValueTurn(f) ==
  LET ch == At(f.data, f.p) IN
  IF f.p > Len(f.data) \/ ch \in CRLF \/ Refuses(f, ch) THEN f
  ELSE IF f.hs = "h_general" THEN RunAhead(f)
  ELSE Then(ValueChar(f, ch), LAMBDA g : [g EXCEPT !.p = @ + 1])
FourValueTurns(f) == Four(f, ValueTurn)
SixteenValueTurns(f) == Four(f, FourValueTurns)
ValueTurns(f, n) == LET V[k \in 0..n] == IF k = 0 THEN f ELSE Then(V[k - 1], SixteenValueTurns) IN V[n]
ValueEnd(f, start) ==
  LET ch == At(f.data, f.p) IN
  CASE f.p > Len(f.data) -> COUNT_HEADER_SIZE([f EXCEPT !.p = Len(f.data)], Len(f.data) - start)
    [] ch = "\r" -> Then(CALLBACK_DATA(Goto(f, "s_header_almost_done"), "header_value"),
                         LAMBDA g : COUNT_HEADER_SIZE(g, g.p - start))
    [] ch = "\n" -> Then(Then(COUNT_HEADER_SIZE(Goto(f, "s_header_almost_done"), f.p - start),
                              LAMBDA g : CALLBACK_DATA_NOADVANCE(g, "header_value")),
                         LAMBDA g : LiteralState(g, ch))
    [] OTHER -> Error(f, "HPE_INVALID_HEADER_TOKEN")
ValueLoop(f) == Then(ValueTurns(f, (Len(f.data) - f.p) \div 16 + 1), LAMBDA g : ValueEnd(g, f.p))

---------------------------------------------------------------------------
(* The end of the message, of the headers, and the body. *)
(* Mutant: the end of the message is not reported. *)
MessageDone_Silent(f) == NEW_MESSAGE(f)
MessageDone(f) ==
  Then(CALLBACK_NOTIFY(NEW_MESSAGE(f), "message_complete"), LAMBDA g : IF g.upgrade THEN RETURN(g, g.p) ELSE g)

HeadersDone(f, ch) ==
  LET g == [f EXCEPT !.nread = 0, !.saved = 0]
      Complete(x) == CALLBACK_NOTIFY(NEW_MESSAGE(x), "message_complete")
      chunked == "F_CHUNKED" \in f.flags
      skip == "F_SKIPBODY" \in f.flags
      hasBody == chunked \/ f.content_length \notin {0, ULLONG_MAX}
  IN IF ch # "\n" THEN Error(f, STRICT)
     ELSE IF f.upgrade /\ (f.method = "CONNECT" \/ skip \/ ~hasBody) THEN Then(Complete(g), LAMBDA x : RETURN(x, x.p))
     ELSE IF skip THEN Complete(g)
     ELSE IF chunked THEN Goto(g, "s_chunk_size_start")
     ELSE IF f.te THEN IF f.type = "REQUEST" /\ ~f.lenient THEN Error(g, "HPE_INVALID_TRANSFER_ENCODING")
                       ELSE Goto(g, "s_body_identity_eof")
     ELSE IF f.content_length = 0 THEN Complete(g)
     ELSE IF f.content_length # ULLONG_MAX THEN Goto(g, "s_body_identity")
     ELSE IF http_message_needs_eof(f) THEN Goto(g, "s_body_identity_eof") ELSE Complete(g)

(* on_headers_complete returns 0, 1 for no body, 2 for no body and an upgrade; *)
(* unlike the other callbacks a pause here does store nread.                   *)
HeadersComplete(f) ==
  LET g == Callback(f, "headers_complete", "", f.p - 1)
  IN [g EXCEPT !.saved = IF Running(g) THEN @ ELSE f.nread,
               !.upgrade = @ \/ (f.hc = 2 /\ g.errno \in {"HPE_OK", "HPE_PAUSED"}),
               !.flags = IF f.hc = 0 \/ g.errno \notin {"HPE_OK", "HPE_PAUSED"} THEN @ ELSE @ \cup {"F_SKIPBODY"}]

HeadersAlmostDone(f, ch) ==
  IF ch # "\n" THEN Error(f, STRICT)
  ELSE IF "F_TRAILING" \in f.flags
  THEN Then(CALLBACK_NOTIFY_NOADVANCE(Goto(f, "s_message_done"), "chunk_complete"), MessageDone)
  ELSE IF f.te /\ "F_CONTENTLENGTH" \in f.flags /\ (~f.lenient \/ "F_CHUNKED" \in f.flags)
  THEN Error(f, "HPE_UNEXPECTED_CONTENT_LENGTH")
  ELSE Then(HeadersComplete([f EXCEPT !.st = "s_headers_done",
                                      !.upgrade = IF {"F_UPGRADE", "F_CONNECTION_UPGRADE"} \subseteq f.flags
                                                  THEN f.type = "REQUEST" \/ f.code = 101 ELSE f.method = "CONNECT"]),
            LAMBDA g : HeadersDone(g, ch))

HeaderFieldStart(f, ch) ==
  CASE ch = "\r" -> Goto(f, "s_headers_almost_done")
    [] ch = "\n" -> HeadersAlmostDone(Goto(f, "s_headers_almost_done"), ch)
    [] OTHER ->
         IF TOKEN(ch) = "" THEN Error(f, "HPE_INVALID_HEADER_TOKEN")
         ELSE [MARK(f, "header_field") EXCEPT !.index = 0, !.st = "s_header_field",
                 !.hs = CASE TOKEN(ch) = "c" -> "h_C"
                          [] TOKEN(ch) = "p" -> "h_matching_proxy_connection"
                          [] TOKEN(ch) = "t" -> "h_matching_transfer_encoding"
                          [] TOKEN(ch) = "u" -> "h_matching_upgrade"
                          [] OTHER -> "h_general"]

(* After the line of a value: a continuation line, or the next header. *)
ValueLws(f, ch) ==
  IF ch \in LWS THEN ValueStart([f EXCEPT !.hs = IF @ = "h_content_length_num" THEN "h_content_length_ws" ELSE @], ch)
  ELSE HeaderFieldStart(Goto(Recognised(f), "s_header_field_start"), ch)

DiscardLws(f, ch) ==
  CASE ch \in LWS -> Goto(f, "s_header_value_discard_ws")
    [] ch \notin LWS /\ f.hs = "h_content_length" -> Error(f, "HPE_INVALID_CONTENT_LENGTH")
    [] OTHER -> Then(CALLBACK_DATA_NOADVANCE(Goto(MARK(Recognised(f), "header_value"), "s_header_field_start"), "header_value"),
                     LAMBDA g : HeaderFieldStart(g, ch))

(* Takes what the call has of the body; p stays on the last byte taken. *)
TakeBody(f) ==
  LET left == Len(f.data) - f.p + 1
      to_read == IF f.content_length < left THEN f.content_length ELSE left
  IN [Check(MARK(f, "body"), "body length known", f.content_length \notin {0, ULLONG_MAX})
        EXCEPT !.content_length = @ - to_read, !.p = @ + to_read - 1]

BodyState(f) ==
  CASE f.st = "s_body_identity_eof" -> [MARK(f, "body") EXCEPT !.p = Len(f.data)]
    [] f.st = "s_body_identity" ->
         LET g == TakeBody(f)
         IN IF g.content_length # 0 THEN g
            ELSE Then(CALLBACK_DATA_(Goto(g, "s_message_done"), "body", g.p, g.p - 1), MessageDone)
    [] f.st = "s_message_done" -> MessageDone(f)

(* Every state of a chunk begins with this assertion. *)
InChunk(f) == Check(f, "F_CHUNKED in a chunk", "F_CHUNKED" \in f.flags)

ChunkSize(f, ch) ==
  CASE f.st = "s_chunk_size_start" ->
         LET g == Check(f, "one byte read at a chunk size", f.nread = 1)
         IN IF ch \in HEX THEN [g EXCEPT !.content_length = unhex(ch), !.st = "s_chunk_size"] ELSE Error(g, "HPE_INVALID_CHUNK_SIZE")
    [] ch = "\r" /\ f.st \in {"s_chunk_size", "s_chunk_parameters"} -> Goto(f, "s_chunk_size_almost_done")
    [] f.st = "s_chunk_size" /\ ch \in HEX ->
         IF (ULLONG_MAX - 16) \div 16 < f.content_length THEN Error(f, "HPE_INVALID_CONTENT_LENGTH")
         ELSE [f EXCEPT !.content_length = (16 * @ + unhex(ch)) % (ULLONG_MAX + 1)]
    [] f.st = "s_chunk_size" /\ ch \in {";", " "} -> Goto(f, "s_chunk_parameters")
    [] f.st = "s_chunk_parameters" /\ ch # "\r" -> f
    [] OTHER -> Error(f, "HPE_INVALID_CHUNK_SIZE")

ChunkState(f, ch) ==
  LET g == [f EXCEPT !.nread = 0, !.saved = 0] IN
  CASE f.st = "s_chunk_size_almost_done" ->
         IF ch # "\n" THEN Error(f, STRICT)
         ELSE CALLBACK_NOTIFY(IF f.content_length = 0 THEN [g EXCEPT !.flags = @ \cup {"F_TRAILING"}, !.st = "s_header_field_start"]
                              ELSE Goto(g, "s_chunk_data"), "chunk_header")
    [] f.st = "s_chunk_data" -> LET h == TakeBody(f) IN IF h.content_length = 0 THEN Goto(h, "s_chunk_data_almost_done") ELSE h
    [] f.st = "s_chunk_data_almost_done" ->
         LET h == Check(f, "chunk data left", f.content_length = 0)
         IN IF ch # "\r" THEN Error(h, STRICT) ELSE CALLBACK_DATA(Goto(h, "s_chunk_data_done"), "body")
    [] f.st = "s_chunk_data_done" ->
         IF ch # "\n" THEN Error(f, STRICT) ELSE CALLBACK_NOTIFY(Goto(g, "s_chunk_size_start"), "chunk_complete")

---------------------------------------------------------------------------
(* http_parser_execute: one byte, all bytes, one call. *)
Step(f) ==
  LET ch == At(f.data, f.p) IN
  CASE f.st \in DOMAIN Literal -> LiteralState(f, ch)
    [] f.st \in {"s_dead", "s_start_req_or_res", "s_start_res", "s_start_req"} -> StartState(f, ch)
    [] f.st = "s_res_or_resp_H" -> ReqOrRes(f, ch)
    [] f.st \in {"s_req_http_major", "s_req_http_minor", "s_res_http_major", "s_res_http_minor"} -> VersionState(f, ch)
    [] f.st \in {"s_res_first_status_code", "s_res_status_code"} -> StatusCode(f, ch)
    [] f.st = "s_res_status_start" -> ResStatusStart(f, ch)
    [] f.st = "s_res_status" -> ResStatus(f, ch)
    [] f.st = "s_req_method" -> MethodState(f, ch)
    [] f.st \in UrlStates \cup {"s_req_spaces_before_url"} -> UrlState(f, ch)
    [] f.st \in {"s_req_http_start", "s_req_http_end"} -> RequestLineEnd(f, ch)
    [] f.st = "s_header_field_start" -> HeaderFieldStart(f, ch)
    [] f.st = "s_header_field" -> FieldLoop(f)
    [] f.st = "s_header_value_discard_ws" -> DiscardWs(f, ch)
    [] f.st = "s_header_value_start" -> ValueStart(f, ch)
    [] f.st = "s_header_value" -> ValueLoop(f)
    [] f.st = "s_header_value_lws" -> ValueLws(f, ch)
    [] f.st = "s_header_value_discard_lws" -> DiscardLws(f, ch)
    [] f.st = "s_headers_almost_done" -> HeadersAlmostDone(f, ch)
    [] f.st = "s_headers_done" -> HeadersDone(f, ch)
    [] f.st \in {"s_body_identity", "s_body_identity_eof", "s_message_done"} -> BodyState(f)
    [] f.st \in {"s_chunk_size_start", "s_chunk_size", "s_chunk_parameters"} -> ChunkSize(InChunk(f), ch)
    [] f.st \in {"s_chunk_size_almost_done", "s_chunk_data", "s_chunk_data_almost_done", "s_chunk_data_done"} ->
         ChunkState(InChunk(f), ch)
    [] OTHER -> Error(Check(f, "unhandled state", FALSE), "HPE_INVALID_INTERNAL_STATE")

(* Out of bytes: the text of the pending mark, of which there is at most one. *)
AtEnd(f) ==
  LET Pending(h, cb) == Then(h, LAMBDA x : CALLBACK_DATA_NOADVANCE(x, cb))
      g == Check(f, "one mark", \A a, b \in DataCallbacks : f.mark[a] # 0 /\ f.mark[b] # 0 => a = b)
  IN Then(Pending(Pending(Pending(Pending(Pending(g, "header_field"), "header_value"), "url"), "body"), "status"),
          LAMBDA h : RETURN(h, Len(f.data)))

OneByte(f) ==
  IF f.p > Len(f.data) THEN AtEnd(f)
  ELSE Then(Then(IF PARSING_HEADER(f.st) THEN COUNT_HEADER_SIZE(f, 1) ELSE f, Step), LAMBDA g : [g EXCEPT !.p = @ + 1])

(* The loop over the bytes: 64 * n turns, or fewer when the call returns. *)
FourTurns(f) == Four(f, OneByte)
SixteenTurns(f) == Four(f, FourTurns)
SixtyFourTurns(f) == Four(f, SixteenTurns)
Loop(f, n) == LET L[k \in 0..n] == IF k = 0 THEN f ELSE Then(L[k - 1], SixtyFourTurns) IN L[n]

(* The parser's fields and the locals of a call. *)
Locals(p, data, l, turn, outcome, headers_return, mark) ==
  LET q == [data |-> data, p |-> 1, ret |-> -1, saved |-> p.nread, log |-> l, failed |-> {},
            turn |-> turn, outcome |-> outcome, hc |-> headers_return, mark |-> mark]
  IN [k \in DOMAIN p \cup DOMAIN q |-> IF k \in DOMAIN p THEN p[k] ELSE q[k]]
(* Mutant: a value cut by the end of a call is not marked again. *)
Frame_ValueUnmarked(p, data, l, turn, outcome, headers_return) ==
  Locals(p, data, l, turn, outcome, headers_return,
         [NoMarks EXCEPT !["header_field"] = IF p.st = "s_header_field" THEN 1 ELSE 0,
                         !["url"] = IF p.st \in UrlStates THEN 1 ELSE 0,
                         !["status"] = IF p.st = "s_res_status" THEN 1 ELSE 0])
Frame(p, data, l, turn, outcome, headers_return) ==
  Locals(p, data, l, turn, outcome, headers_return,
         [NoMarks EXCEPT !["header_field"] = IF p.st = "s_header_field" THEN 1 ELSE 0,
                         !["header_value"] = IF p.st = "s_header_value" THEN 1 ELSE 0,
                         !["url"] = IF p.st \in UrlStates THEN 1 ELSE 0,
                         !["status"] = IF p.st = "s_res_status" THEN 1 ELSE 0])

ExecuteEof(f) ==
  CASE f.st = "s_body_identity_eof" ->
         Then(CALLBACK_NOTIFY_NOADVANCE(f, "message_complete"), LAMBDA g : [g EXCEPT !.ret = 0])
    [] f.st \in {"s_dead", "s_start_req_or_res", "s_start_res", "s_start_req"} -> [f EXCEPT !.ret = 0]
    [] OTHER -> [f EXCEPT !.errno = "HPE_INVALID_EOF_STATE", !.ret = 1, !.saved = f.nread]

Executed(f) == IF f.data = "" THEN ExecuteEof(f) ELSE Loop(f, Len(f.data) \div 64 + 1)
ParserOf(f) == [k \in DOMAIN http_parser_init("BOTH", FALSE) |-> IF k = "nread" THEN f.saved ELSE f[k]]

---------------------------------------------------------------------------
Init ==
  /\ caller \in DOMAIN Callers
  /\ input \in Inputs[caller] /\ hc \in Settings.returns
  /\ parser = http_parser_init(Settings.type, FALSE)
  /\ pos = 0 /\ eof = FALSE /\ exited = FALSE /\ log = <<>> /\ failed = {}

Apply(f) ==
  /\ parser' = ParserOf(f)
  /\ log' = f.log
  /\ failed' = failed \cup f.failed

(* A call with the next n bytes, unless the parser has failed or handed the  *)
(* connection over; its k-th callback, if k > 0, pauses or fails it.         *)
http_parser_execute(n, k, outcome) ==
  /\ parser.errno = "HPE_OK" /\ ~eof /\ ~exited
  /\ pos + n <= Len(input)
  /\ LET f == Executed(Frame(parser, SubSeq(input, pos + 1, pos + n), log, k, outcome, hc))
     IN /\ Apply(f)
        /\ pos' = pos + f.ret
        /\ exited' = (f.errno \in {"HPE_OK", "HPE_PAUSED"} /\ f.upgrade /\ f.log[Len(f.log)].cb = "message_complete")
  /\ UNCHANGED <<caller, input, eof, hc>>

(* The connection ends, here or earlier than its input: a call with no bytes. *)
EndOfFile(k, outcome) ==
  /\ Settings.eof /\ parser.errno = "HPE_OK" /\ ~eof /\ ~exited
  /\ Apply(Executed(Frame(parser, "", log, k, outcome, hc)))
  /\ eof' = TRUE
  /\ UNCHANGED <<caller, input, pos, exited, hc>>

(* Mutant: only a parser without error may change, so a pause is for ever. *)
http_parser_pause_ForEver(paused) ==
  /\ parser.errno = IF paused THEN "HPE_OK" ELSE "HPE_PAUSED"
  /\ parser' = [parser EXCEPT !.errno = IF paused THEN "HPE_PAUSED" ELSE @]
  /\ UNCHANGED <<caller, input, pos, eof, exited, hc, log, failed>>
(* http_parser_pause from outside a callback. *)
http_parser_pause(paused) ==
  /\ parser.errno = IF paused THEN "HPE_OK" ELSE "HPE_PAUSED"
  /\ parser' = [parser EXCEPT !.errno = IF paused THEN "HPE_PAUSED" ELSE "HPE_OK"]
  /\ UNCHANGED <<caller, input, pos, eof, exited, hc, log, failed>>

Feed ==
  \E k \in Settings.turns, outcome \in Settings.outcomes, n \in Settings.sizes \cup {Len(input) - pos} :
    n > 0 /\ http_parser_execute(n, k, outcome)
Resume == http_parser_pause(FALSE)
Next ==
  \/ Feed
  \/ \E k \in Settings.turns, outcome \in Settings.outcomes : EndOfFile(k, outcome)
  \/ Resume

Spec == Init /\ [][Next]_vars

(* The assertions written in http_parser_execute and its macros hold in every  *)
(* call, and a call returns having taken no more bytes than it was given.      *)
AssertionsHold == failed = {} /\ pos \in 0..Len(input)

(* The caller resumes a paused parser and goes on feeding one it may feed.    *)
(* The second is weak fairness of Feed with ENABLED <<Feed>>_vars written out  *)
(* as CanFeed: a call always consumes a byte or pauses or fails, and the only  *)
(* other step from such a state, the end of the connection, is taken once.     *)
CanFeed == parser.errno = "HPE_OK" /\ ~eof /\ ~exited /\ pos < Len(input)
FairSpec == Spec /\ WF_vars(Resume) /\ ([]<>~CanFeed \/ []<><<TRUE>>_vars)
=============================================================================
