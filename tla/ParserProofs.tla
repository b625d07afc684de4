---------------------------- MODULE ParserProofs ----------------------------
(* The asserts in http_parser_execute, for every text, every way of cutting *)
(* it into calls, every limit on the header bytes and every callback that   *)
(* pauses or fails. The argument follows the code: a predicate on the       *)
(* locals of a call (In: before a byte; Out: after it) is kept by every     *)
(* case of the switch, one lemma per state or group of states (StepFine     *)
(* puts them together), by the loops in s_header_field and s_header_value,  *)
(* by the loop over the bytes, which also ends the call (LoopFine), and so  *)
(* by http_parser_execute; what of it concerns the parser (Ready) holds     *)
(* between calls. The assertions need what the state says of the other      *)
(* fields (Known): in a state of a chunk F_CHUNKED is set, in a state that  *)
(* takes body bytes content_length is neither 0 nor ULLONG_MAX, no mark is  *)
(* set but the one of the state's text (Marked).                            *)
EXTENDS HttpParser, WellFoundedInduction, TLAPS

FrameFields ==
  {"type", "lenient", "hs", "index", "flags", "te", "nread", "content_length", "major", "minor", "code", "method",
   "errno", "upgrade", "st", "data", "p", "ret", "saved", "log", "failed", "turn", "outcome", "hc", "mark"}

LiteralStates ==
  {"s_res_H", "s_res_HT", "s_res_HTT", "s_res_HTTP", "s_res_http_dot", "s_res_http_end", "s_res_line_almost_done",
   "s_req_http_H", "s_req_http_HT", "s_req_http_HTT", "s_req_http_I", "s_req_http_IC", "s_req_http_HTTP",
   "s_req_http_dot", "s_req_line_almost_done", "s_header_almost_done", "s_header_value_discard_ws_almost_done"}
(* States in which nothing is being collected and nothing is known. *)
QuietStates ==
  LiteralStates \cup
  {"s_dead", "s_start_req_or_res", "s_start_res", "s_start_req", "s_res_or_resp_H", "s_req_http_major",
   "s_req_http_minor", "s_res_http_major", "s_res_http_minor", "s_res_first_status_code", "s_res_status_code",
   "s_res_status_start", "s_req_method", "s_req_spaces_before_url", "s_req_http_start", "s_req_http_end",
   "s_header_field_start", "s_header_value_discard_ws", "s_header_value_start", "s_header_value_lws",
   "s_header_value_discard_lws", "s_headers_almost_done", "s_headers_done", "s_message_done"}
ChunkStates == {"s_chunk_size_start", "s_chunk_size", "s_chunk_parameters", "s_chunk_size_almost_done",
                "s_chunk_data", "s_chunk_data_almost_done", "s_chunk_data_done"}
BodyStates == {"s_body_identity", "s_body_identity_eof", "s_chunk_data", "s_chunk_data_almost_done"}
States == QuietStates \cup UrlStates \cup ChunkStates \cup BodyStates
            \cup {"s_res_status", "s_header_field", "s_header_value"}

(* What the name of a header may have been matched to. *)
FieldStates ==
  {"h_general", "h_C", "h_CO", "h_CON", "h_matching_connection", "h_matching_proxy_connection", "h_matching_content_length",
   "h_matching_transfer_encoding", "h_matching_upgrade", "h_connection", "h_content_length", "h_transfer_encoding", "h_upgrade"}

(* What the state says of the other fields; of the parser between calls too. *)
Known(f) ==
  /\ f.st \in States
  /\ f.content_length \in 0..ULLONG_MAX
  /\ f.st \in ChunkStates => "F_CHUNKED" \in f.flags
  /\ f.st \in {"s_body_identity", "s_chunk_data"} => f.content_length # 0
  /\ f.st \in {"s_body_identity", "s_chunk_size", "s_chunk_parameters", "s_chunk_size_almost_done", "s_chunk_data"}
       => f.content_length # ULLONG_MAX
  /\ f.st = "s_chunk_data_almost_done" => f.content_length = 0
  /\ f.st = "s_header_value" => f.hs \notin {"h_connection", "h_transfer_encoding"}
  /\ f.st = "s_header_field" => f.hs \in FieldStates

(* A mark is set only in the states that collect its text. *)
Marked(f) ==
  /\ f.mark \in [DataCallbacks -> Nat]
  /\ f.mark["url"] # 0 => f.st \in UrlStates
  /\ f.mark["status"] # 0 => f.st = "s_res_status"
  /\ f.mark["header_field"] # 0 => f.st = "s_header_field"
  /\ f.mark["header_value"] # 0 => f.st = "s_header_value"
  /\ f.mark["body"] # 0 => f.st \in BodyStates

Whole(f, job) == DOMAIN f = FrameFields /\ f.failed = {} /\ f.data = job[1] /\ Len(f.data) \in Nat /\ job[2] \in Nat

Goes(f, c, job) ==
  /\ Whole(f, job) /\ f.ret = -1 /\ f.errno = "HPE_OK" /\ f.p \in 1..Len(f.data) /\ f.p >= job[2]
  /\ Known(f)
  /\ f.st = "s_chunk_size_start" => f.saved = 0 /\ f.nread = c
(* The same where the cursor may have run out of bytes. *)
Live(f, job) ==
  /\ Whole(f, job) /\ f.ret = -1 /\ f.errno = "HPE_OK" /\ f.p \in 1..(Len(f.data) + 1) /\ f.p >= job[2]
  /\ Known(f)
  /\ f.st = "s_chunk_size_start" => f.saved = 0 /\ f.nread = 0
Over(f, job) ==
  /\ Whole(f, job) /\ f.ret \in 0..Len(f.data)
  /\ f.errno \in {"HPE_OK", "HPE_PAUSED"} => Known(f) /\ (f.st = "s_chunk_size_start" => f.saved = 0)
In(f, job) == Goes(f, 1, job) /\ Marked(f)
Out(f, job) == Over(f, job) \/ (Goes(f, 0, job) /\ Marked(f))

(* g differs from f in nothing of this but the marks. *)
Near(f, g) ==
  DOMAIN g = FrameFields /\ g.data = f.data /\ g.p = f.p /\ g.ret = f.ret /\ g.errno = f.errno /\ g.failed = f.failed
Like(f, g) ==
  /\ Near(f, g) /\ g.st = f.st /\ g.hs = f.hs /\ g.flags = f.flags /\ g.content_length = f.content_length
  /\ g.nread = f.nread /\ g.saved = f.saved

(* What a callback or a mark leaves alone keeps the predicates. *)
LEMMA LikeGoes ==
  ASSUME NEW job, NEW f, NEW g, Like(f, g), NEW c, Goes(f, c, job)
  PROVE  Goes(g, c, job)
  BY DEF Like, Near, Goes, Whole, Known

LEMMA LikeLive ==
  ASSUME NEW job, NEW f, NEW g, Like(f, g), Live(f, job)
  PROVE  Live(g, job)
  BY DEF Like, Near, Live, Whole, Known

LEMMA GoesLive == ASSUME NEW job, NEW f, Goes(f, 0, job) PROVE Live(f, job)
  BY DEF Goes, Live, Whole

LEMMA LikeMarked ==
  ASSUME NEW f, NEW g, g.mark = f.mark, g.st = f.st, Marked(f)
  PROVE  Marked(g)
  BY Zenon DEF Marked

LEMMA OverStops == ASSUME NEW job, NEW f, Over(f, job) PROVE ~Running(f)
  BY DEF Over, Whole, Running

LEMMA GoesRuns == ASSUME NEW job, NEW f, NEW c, Goes(f, c, job) PROVE Running(f)
  BY DEF Goes, Running

LEMMA LiveRuns == ASSUME NEW job, NEW f, Live(f, job) PROVE Running(f)
  BY DEF Live, Running

(* A quiet state is none of the others, so that all marks are clear in it. *)
LEMMA QuietFacts ==
  ASSUME NEW s \in QuietStates
  PROVE  /\ s \in States /\ s \notin ChunkStates /\ s \notin UrlStates /\ s \notin BodyStates
         /\ s \notin {"s_res_status", "s_header_field", "s_header_value"}
  BY DEF QuietStates, LiteralStates, States, ChunkStates, UrlStates, BodyStates

LEMMA QuietUnmarked ==
  ASSUME NEW f, Marked(f), f.st \in QuietStates
  PROVE  f.mark = NoMarks
  BY QuietFacts DEF Marked, NoMarks, DataCallbacks

LEMMA NothingMarked == ASSUME NEW f, f.mark = NoMarks PROVE Marked(f)
  BY DEF Marked, NoMarks, DataCallbacks

(* States that say nothing of the other fields. *)
PlainStates == QuietStates \cup UrlStates \cup {"s_res_status", "s_body_identity_eof"}

LEMMA PlainFacts ==
  ASSUME NEW s \in PlainStates
  PROVE  s \in States /\ s \notin ChunkStates /\ s \notin {"s_body_identity", "s_header_value", "s_header_field"}
<1>1. ASSUME s \in UrlStates PROVE s \in States /\ s \notin ChunkStates /\ s \notin {"s_body_identity", "s_header_value", "s_header_field"}
  BY <1>1 DEF States, UrlStates, ChunkStates
<1>2. ASSUME s \in {"s_res_status", "s_body_identity_eof"}
      PROVE  s \in States /\ s \notin ChunkStates /\ s \notin {"s_body_identity", "s_header_value", "s_header_field"}
  BY <1>2 DEF States, BodyStates, ChunkStates
<1>3. ASSUME s \in QuietStates PROVE s \in States /\ s \notin ChunkStates /\ s \notin {"s_body_identity", "s_header_value", "s_header_field"}
  BY <1>3, QuietFacts DEF BodyStates
<1>4. QED
  BY <1>1, <1>2, <1>3 DEF PlainStates

LEMMA Moves ==
  ASSUME NEW job, NEW f, NEW c, Goes(f, c, job), NEW g, Near(f, g), g.st \in PlainStates, g.content_length \in 0..ULLONG_MAX, NEW d
  PROVE  Goes(g, d, job)
  BY PlainFacts DEF Near, Goes, Whole, Known, ChunkStates

(* SET_ERRNO and goto error: the call returns with the bytes taken so far. *)
LEMMA ErrorFine ==
  ASSUME NEW job, NEW f, NEW c, Goes(f, c, job), NEW e, e \notin {"HPE_OK", "HPE_PAUSED"}
  PROVE  Over(Error(f, e), job)
  BY DEF Error, Goes, Over, Whole, FrameFields

(* What a callback may do: return 0, pause the parser or fail. *)
LEMMA CallbackFine ==
  ASSUME NEW job, NEW f, Live(f, job), NEW cb, NEW data, NEW used \in 0..Len(f.data)
  PROVE  \/ Like(f, Callback(f, cb, data, used)) /\ Callback(f, cb, data, used).mark = f.mark
         \/ Over(Callback(f, cb, data, used), job)
<1> DEFINE g == Callback(f, cb, data, used)
           l == Logged(f.log, [cb |-> cb, data |-> data, n |-> IF cb = "chunk_header" THEN f.content_length ELSE 0])
           t == f.turn - 1
           e == "HPE_CB_" \o cb
           g1 == [f EXCEPT !.log = l, !.turn = t]
           g2 == [f EXCEPT !.log = l, !.turn = t, !.errno = "HPE_PAUSED", !.ret = used]
           g3 == [f EXCEPT !.log = l, !.turn = t, !.errno = e, !.ret = used, !.saved = f.nread]
<1>1. DOMAIN f = FrameFields
  BY DEF Live, Whole
<1>2. g = g1 \/ g = g2 \/ g = g3
  <2>1. Check(f, "errno is OK at a callback", f.errno = "HPE_OK") = f
    BY Zenon DEF Check, Live
  <2>2. QED
    BY Zenon, <2>1 DEF Callback
<1> HIDE DEF l, e, t, g
<1>3. Like(f, g1) /\ g1.mark = f.mark
  BY <1>1 DEF Like, Near, FrameFields
<1>4. Over(g2, job)
  BY <1>1 DEF Over, Live, Whole, Known, FrameFields
<1>5. Over(g3, job)
  BY <1>1 DEF Over, Live, Whole, Known, FrameFields
<1>6. QED
  BY Zenon, <1>2, <1>3, <1>4, <1>5 DEF g

(* CALLBACK_NOTIFY and CALLBACK_NOTIFY_NOADVANCE. *)
LEMMA NotifyFine ==
  ASSUME NEW job, NEW f, Goes(f, 0, job), Marked(f), NEW cb
  PROVE  /\ Out(CALLBACK_NOTIFY(f, cb), job)
         /\ Out(CALLBACK_NOTIFY_NOADVANCE(f, cb), job)
<1>1. f.p \in 0..Len(f.data) /\ f.p - 1 \in 0..Len(f.data)
  BY DEF Goes, Whole
<1>2. ASSUME NEW used \in 0..Len(f.data) PROVE Out(Callback(f, cb, "", used), job)
  <2> DEFINE g == Callback(f, cb, "", used)
  <2>1. (Like(f, g) /\ g.mark = f.mark) \/ Over(g, job)
    BY Zenon, CallbackFine, GoesLive
  <2> HIDE DEF g
  <2>2. Like(f, g) /\ g.mark = f.mark => Goes(g, 0, job) /\ Marked(g)
    BY Zenon, LikeGoes, LikeMarked DEF Like
  <2>3. QED
    BY Zenon, <2>1, <2>2 DEF Out, g
<1>3. QED
  BY Zenon, <1>1, <1>2 DEF CALLBACK_NOTIFY, CALLBACK_NOTIFY_NOADVANCE

(* A data callback, once its mark is the only one that no longer fits. *)
MarkedBut(f, cb) == Marked([f EXCEPT !.mark[cb] = 0])

(* CALLBACK_DATA and CALLBACK_DATA_NOADVANCE report the marked text and    *)
(* clear the mark.                                                         *)
LEMMA DataLive ==
  ASSUME NEW job, NEW f, Live(f, job), f.mark \in [DataCallbacks -> Nat], NEW cb \in DataCallbacks,
         MarkedBut(f, cb), NEW last, NEW used \in 0..Len(f.data)
  PROVE  \/ Over(CALLBACK_DATA_(f, cb, last, used), job)
         \/ /\ Like(f, CALLBACK_DATA_(f, cb, last, used))
            /\ Live(CALLBACK_DATA_(f, cb, last, used), job) /\ Marked(CALLBACK_DATA_(f, cb, last, used))
<1> DEFINE c == Callback(f, cb, SubSeq(f.data, f.mark[cb], last), used)
           d == CALLBACK_DATA_(f, cb, last, used)
<1>1. DOMAIN f = FrameFields
  BY DEF Live, Whole
<1>2. CASE f.mark[cb] = 0
  <2>1. d = f
    BY Zenon, <1>2 DEF CALLBACK_DATA_
  <2>2. [f.mark EXCEPT ![cb] = 0] = f.mark
    BY <1>2
  <2>3. Marked(f)
    <3>1. [f EXCEPT !.mark[cb] = 0].mark = [f.mark EXCEPT ![cb] = 0] /\ [f EXCEPT !.mark[cb] = 0].st = f.st
      BY <1>1 DEF FrameFields
    <3>2. QED
      BY Zenon, <2>2, <3>1, LikeMarked DEF MarkedBut
  <2>4. Like(f, f)
    BY Zenon, <1>1 DEF Like, Near
  <2>5. QED
    BY Zenon, <2>1, <2>3, <2>4
<1>3. CASE f.mark[cb] # 0
  <2>1. (Like(f, c) /\ c.mark = f.mark) \/ Over(c, job)
    BY Zenon, CallbackFine
  <2>2. d = IF Running(c) THEN [c EXCEPT !.mark[cb] = 0] ELSE c
    BY Zenon, <1>3 DEF CALLBACK_DATA_, Then
  <2> HIDE DEF c, d
  <2>3. CASE Over(c, job)
    BY Zenon, <2>2, <2>3, OverStops DEF d
  <2>4. CASE Like(f, c) /\ c.mark = f.mark
    <3>1. Live(c, job)
      BY Zenon, <2>4, LikeLive
    <3>2. d = [c EXCEPT !.mark[cb] = 0]
      BY Zenon, <2>2, <3>1, LiveRuns
    <3>3. DOMAIN c = FrameFields
      BY Zenon, <2>4 DEF Like, Near
    <3>4. Like(c, d) /\ d.mark = [c.mark EXCEPT ![cb] = 0]
      BY <3>2, <3>3 DEF Like, Near, FrameFields
    <3>5. Like(f, d) /\ Live(d, job)
      BY Zenon, <2>4, <3>1, <3>4, LikeLive DEF Like, Near
    <3>6. [f EXCEPT !.mark[cb] = 0].mark = [f.mark EXCEPT ![cb] = 0] /\ [f EXCEPT !.mark[cb] = 0].st = f.st
      BY <1>1 DEF FrameFields
    <3>7. d.mark = [f EXCEPT !.mark[cb] = 0].mark /\ d.st = [f EXCEPT !.mark[cb] = 0].st
      BY Zenon, <2>4, <3>4, <3>5, <3>6 DEF Like
    <3>8. Marked(d)
      BY Zenon, <3>7, LikeMarked DEF MarkedBut
    <3>9. QED
      BY Zenon, <3>5, <3>8 DEF d
  <2>5. QED
    BY Zenon, <2>1, <2>3, <2>4
<1>4. QED
  BY Zenon, <1>2, <1>3

LEMMA DataFine ==
  ASSUME NEW job, NEW f, Goes(f, 0, job), f.mark \in [DataCallbacks -> Nat], NEW cb \in DataCallbacks,
         MarkedBut(f, cb), NEW last, NEW used \in 0..Len(f.data)
  PROVE  \/ Over(CALLBACK_DATA_(f, cb, last, used), job)
         \/ /\ Like(f, CALLBACK_DATA_(f, cb, last, used))
            /\ Goes(CALLBACK_DATA_(f, cb, last, used), 0, job) /\ Marked(CALLBACK_DATA_(f, cb, last, used))
<1> DEFINE d == CALLBACK_DATA_(f, cb, last, used)
<1>1. Over(d, job) \/ (Like(f, d) /\ Live(d, job) /\ Marked(d))
  BY Zenon, GoesLive, DataLive
<1> HIDE DEF d
<1>2. QED
  BY Zenon, <1>1, LikeGoes DEF d
---------------------------------------------------------------------------
(* One byte in each state. *)
LEMMA LiteralTable ==
  /\ DOMAIN Literal = LiteralStates
  /\ \A s \in LiteralStates : Literal[s][2] \in QuietStates /\ Literal[s][3] \notin {"HPE_OK", "HPE_PAUSED"}
  BY DEF Literal, LiteralStates, QuietStates, STRICT

LEMMA QuietMove ==
  ASSUME NEW job, NEW f, In(f, job), f.st \in QuietStates, NEW g, Near(f, g), g.mark = f.mark,
         g.st \in QuietStates, g.content_length \in 0..ULLONG_MAX
  PROVE  Goes(g, 0, job) /\ Marked(g) /\ In(g, job) /\ Out(g, job)
<1>1. g.st \in PlainStates
  BY DEF PlainStates
<1>2. QED
  BY Zenon, <1>1, Moves, QuietUnmarked, NothingMarked DEF In, Out

(* The states that expect one character. *)
LEMMA LiteralFine == ASSUME NEW job, NEW f, In(f, job), f.st \in DOMAIN Literal, NEW ch PROVE Out(LiteralState(f, ch), job)
<1>1. f.st \in LiteralStates /\ f.st \in QuietStates
  BY LiteralTable DEF QuietStates
<1>2. CASE ch = Literal[f.st][1]
  <2> DEFINE g == Goto(f, Literal[f.st][2])
  <2>1. Near(f, g) /\ g.mark = f.mark /\ g.st = Literal[f.st][2] /\ g.content_length = f.content_length
    BY DEF Goto, Near, In, Goes, Whole, FrameFields
  <2>2. f.content_length \in 0..ULLONG_MAX
    BY Zenon DEF In, Goes, Known
  <2> HIDE DEF g
  <2>3. Out(g, job)
    BY Zenon, <1>1, <2>1, <2>2, LiteralTable, QuietMove
  <2>4. QED
    BY Zenon, <1>2, <2>3 DEF LiteralState, g
<1>3. CASE ch # Literal[f.st][1]
  BY Zenon, <1>1, <1>3, LiteralTable, ErrorFine DEF LiteralState, Out, In
<1>4. QED
  BY Zenon, <1>2, <1>3

LEMMA InFacts == ASSUME NEW job, NEW f, In(f, job) PROVE DOMAIN f = FrameFields /\ f.content_length \in 0..ULLONG_MAX /\ Running(f)
  BY Zenon, GoesRuns DEF In, Goes, Whole, Known

(* s_start_req *)
LEMMA StartReqFine == ASSUME NEW job, NEW f, In(f, job), f.st \in QuietStates, NEW ch PROVE Out(StartReq(f, ch), job)
<1> DEFINE e == Fresh(f)
           g == [Fresh(f) EXCEPT !.method = FirstMethod[ch], !.index = 1, !.st = "s_req_method"]
<1>1. Near(f, e) /\ e.mark = f.mark /\ e.st = f.st /\ e.content_length = ULLONG_MAX
  BY InFacts DEF Fresh, Near, FrameFields
<1>2. Near(f, g) /\ g.mark = f.mark /\ g.st = "s_req_method" /\ g.content_length = ULLONG_MAX
  BY InFacts DEF Fresh, Near, FrameFields
<1> HIDE DEF e, g
<1>3. ULLONG_MAX \in 0..ULLONG_MAX /\ "s_req_method" \in QuietStates
  BY ULLONG_MAXAssumption DEF QuietStates
<1>4. Goes(e, 0, job)
  BY Zenon, <1>1, <1>3, QuietMove
<1>5. Goes(g, 0, job) /\ Marked(g)
  BY Zenon, <1>2, <1>3, QuietMove
<1>6. Over(Error(e, "HPE_INVALID_METHOD"), job)
  BY <1>4, ErrorFine
<1>7. Out(CALLBACK_NOTIFY(g, "message_begin"), job)
  BY Zenon, <1>5, NotifyFine
<1>8. QED
  BY Zenon, <1>6, <1>7 DEF StartReq, Out, e, g

(* s_start_req_or_res, s_start_res and s_start_req. *)
LEMMA StartFine ==
  ASSUME NEW job, NEW f, In(f, job), f.st \in {"s_dead", "s_start_req_or_res", "s_start_res", "s_start_req"}, NEW ch
  PROVE  Out(StartState(f, ch), job)
<1>1. f.st \in QuietStates
  BY DEF QuietStates
<1>2. Out(f, job)
  BY Zenon, <1>1, InFacts, QuietMove DEF Near
<1>3. Over(Error(f, "HPE_CLOSED_CONNECTION"), job) /\ Out(StartReq(f, ch), job)
  BY <1>1, ErrorFine, StartReqFine DEF In
<1>4. ASSUME NEW s \in {"s_res_H", "s_res_or_resp_H"}
      PROVE  Out(CALLBACK_NOTIFY(Goto(Fresh(f), s), "message_begin"), job)
  <2> DEFINE g == Goto(Fresh(f), s)
  <2>1. Near(f, g) /\ g.mark = f.mark /\ g.st = s /\ g.content_length = ULLONG_MAX
    BY InFacts DEF Fresh, Goto, Near, FrameFields
  <2>2. ULLONG_MAX \in 0..ULLONG_MAX /\ s \in QuietStates
    BY ULLONG_MAXAssumption DEF QuietStates, LiteralStates
  <2> HIDE DEF g
  <2>3. Goes(g, 0, job) /\ Marked(g)
    BY Zenon, <1>1, <2>1, <2>2, QuietMove
  <2>4. QED
    BY Zenon, <2>3, NotifyFine DEF g
<1>5. Over(Error(Fresh(f), "HPE_INVALID_CONSTANT"), job)
  <2> DEFINE g == Fresh(f)
  <2>1. Near(f, g) /\ g.mark = f.mark /\ g.st = f.st /\ g.content_length = ULLONG_MAX
    BY InFacts DEF Fresh, Goto, Near, FrameFields
  <2>2. ULLONG_MAX \in 0..ULLONG_MAX
    BY ULLONG_MAXAssumption
  <2> HIDE DEF g
  <2>3. Goes(g, 0, job)
    BY Zenon, <1>1, <2>1, <2>2, QuietMove
  <2>4. Over(Error(g, "HPE_INVALID_CONSTANT"), job)
    BY <2>3, ErrorFine
  <2>5. QED
    BY Zenon, <2>4 DEF g
<1>6. Out(StartReq([f EXCEPT !.type = "REQUEST", !.st = "s_start_req"], ch), job)
  <2> DEFINE g == [f EXCEPT !.type = "REQUEST", !.st = "s_start_req"]
  <2>1. Near(f, g) /\ g.mark = f.mark /\ g.st = "s_start_req" /\ g.content_length = f.content_length
    BY InFacts DEF Near, FrameFields
  <2>2. "s_start_req" \in QuietStates
    BY DEF QuietStates
  <2> HIDE DEF g
  <2>3. In(g, job) /\ g.st \in QuietStates
    BY Zenon, <1>1, <2>1, <2>2, InFacts, QuietMove
  <2>4. QED
    BY Zenon, <2>3, StartReqFine DEF g
<1>7. QED
  BY <1>2, <1>3, <1>4, <1>5, <1>6 DEF StartState, Out

(* s_res_or_resp_H *)
LEMMA ReqOrResFine == ASSUME NEW job, NEW f, In(f, job), f.st = "s_res_or_resp_H", NEW ch PROVE Out(ReqOrRes(f, ch), job)
<1> DEFINE g == [f EXCEPT !.type = "RESPONSE", !.st = "s_res_HT"]
           h == [f EXCEPT !.type = "REQUEST", !.method = "HEAD", !.index = 2, !.st = "s_req_method"]
<1>1. f.st \in QuietStates /\ "s_res_HT" \in QuietStates /\ "s_req_method" \in QuietStates
  BY DEF QuietStates, LiteralStates
<1>2. Near(f, g) /\ g.mark = f.mark /\ g.st = "s_res_HT" /\ g.content_length = f.content_length
  BY InFacts DEF Near, FrameFields
<1>3. Near(f, h) /\ h.mark = f.mark /\ h.st = "s_req_method" /\ h.content_length = f.content_length
  BY InFacts DEF Near, FrameFields
<1> HIDE DEF g, h
<1>4. Out(g, job) /\ Out(h, job)
  BY Zenon, <1>1, <1>2, <1>3, InFacts, QuietMove
<1>5. Over(Error(f, "HPE_INVALID_CONSTANT"), job)
  BY ErrorFine DEF In
<1>6. QED
  BY <1>4, <1>5 DEF ReqOrRes, Out, g, h

LEMMA GotoFine ==
  ASSUME NEW job, NEW f, In(f, job), f.st \in QuietStates, NEW s \in QuietStates
  PROVE  Out(Goto(f, s), job) /\ In(Goto(f, s), job) /\ Goto(f, s).st = s
<1>1. Near(f, Goto(f, s)) /\ Goto(f, s).mark = f.mark /\ Goto(f, s).st = s /\ Goto(f, s).content_length = f.content_length
  BY InFacts DEF Goto, Near, FrameFields
<1>2. QED
  BY Zenon, <1>1, InFacts, QuietMove

LEMMA StayFine == ASSUME NEW job, NEW f, In(f, job), f.st # "s_chunk_size_start" PROVE Out(f, job) /\ Goes(f, 0, job)
  BY DEF In, Out, Goes

LEMMA InError == ASSUME NEW job, NEW f, In(f, job), NEW e, e \notin {"HPE_OK", "HPE_PAUSED"} PROVE Out(Error(f, e), job)
  BY Zenon, ErrorFine DEF In, Out

(* The digits of a version. *)
LEMMA VersionFine ==
  ASSUME NEW job, NEW f, In(f, job), f.st \in {"s_req_http_major", "s_req_http_minor", "s_res_http_major", "s_res_http_minor"}, NEW ch
  PROVE  Out(VersionState(f, ch), job)
<1>1. f.st \in QuietStates
  BY DEF QuietStates
<1>2. CASE ch \notin NUM
  BY <1>2, InError DEF VersionState
<1>3. ASSUME NEW s \in {"s_req_http_dot", "s_res_http_dot"}
      PROVE  Out([f EXCEPT !.major = DigitVal(ch), !.st = s], job)
  <2> DEFINE g == [f EXCEPT !.major = DigitVal(ch), !.st = s]
  <2>1. Near(f, g) /\ g.mark = f.mark /\ g.st = s /\ g.content_length = f.content_length
    BY InFacts DEF Near, FrameFields
  <2>2. s \in QuietStates
    BY DEF QuietStates, LiteralStates
  <2> HIDE DEF g
  <2>3. Out(g, job)
    BY Zenon, <1>1, <2>1, <2>2, InFacts, QuietMove
  <2>4. QED
    BY Zenon, <2>3 DEF g
<1>4. ASSUME NEW s \in {"s_req_http_end", "s_res_http_end"}
      PROVE  Out([f EXCEPT !.minor = DigitVal(ch), !.st = s], job)
  <2> DEFINE g == [f EXCEPT !.minor = DigitVal(ch), !.st = s]
  <2>1. Near(f, g) /\ g.mark = f.mark /\ g.st = s /\ g.content_length = f.content_length
    BY InFacts DEF Near, FrameFields
  <2>2. s \in QuietStates
    BY DEF QuietStates, LiteralStates
  <2> HIDE DEF g
  <2>3. Out(g, job)
    BY Zenon, <1>1, <2>1, <2>2, InFacts, QuietMove
  <2>4. QED
    BY Zenon, <2>3 DEF g
<1>5. QED
  BY <1>2, <1>3, <1>4 DEF VersionState

(* s_req_method *)
LEMMA MethodFine == ASSUME NEW job, NEW f, In(f, job), f.st = "s_req_method", NEW ch PROVE Out(MethodState(f, ch), job)
<1> DEFINE g == [f EXCEPT !.index = @ + 1]
           switch == {x \in MethodSwitch : x[1] = f.method /\ x[2] = f.index /\ x[3] = ch}
           m == (CHOOSE x \in switch : TRUE)[4]
           h == [g EXCEPT !.method = m]
           u == Goto(g, "s_req_spaces_before_url")
<1>1. f.st \in QuietStates /\ "s_req_spaces_before_url" \in QuietStates
  BY DEF QuietStates
<1> HIDE DEF switch, m
<1>2. Near(f, g) /\ g.mark = f.mark /\ g.st = f.st /\ g.content_length = f.content_length
  BY InFacts DEF Near, FrameFields
<1>3. Near(f, h) /\ h.mark = f.mark /\ h.st = f.st /\ h.content_length = f.content_length
  BY InFacts DEF Near, FrameFields
<1>4. Near(f, u) /\ u.mark = f.mark /\ u.st = "s_req_spaces_before_url" /\ u.content_length = f.content_length
  BY InFacts DEF Near, FrameFields, Goto
<1> HIDE DEF g, h, u
<1>5. Out(g, job) /\ Out(h, job) /\ Out(u, job)
  BY Zenon, <1>1, <1>2, <1>3, <1>4, InFacts, QuietMove
<1>6. Out(Error(f, "HPE_INVALID_METHOD"), job)
  BY InError
<1>7. QED
  BY Zenon, <1>5, <1>6 DEF MethodState, g, h, u, m, switch

LEMMA RequestLineEndFine ==
  ASSUME NEW job, NEW f, In(f, job), f.st \in {"s_req_http_start", "s_req_http_end"}, NEW ch
  PROVE  Out(RequestLineEnd(f, ch), job)
<1>1. f.st \in QuietStates /\ {"s_req_http_H", "s_req_http_I", "s_req_line_almost_done", "s_header_field_start"} \subseteq QuietStates
  BY DEF QuietStates, LiteralStates
<1>2. Out(f, job)
  BY StayFine
<1>3. Out(Error(f, "HPE_INVALID_VERSION"), job) /\ Out(Error(f, "HPE_INVALID_CONSTANT"), job)
  BY InError
<1>4. QED
  BY Zenon, <1>1, <1>2, <1>3, GotoFine DEF RequestLineEnd

(* A mark is made where there was none, or kept. *)
LEMMA MarkEffect ==
  ASSUME NEW f, DOMAIN f = FrameFields, f.mark \in [DataCallbacks -> Nat], f.p \in Nat, NEW cb \in DataCallbacks
  PROVE  /\ Like(f, MARK(f, cb))
         /\ MARK(f, cb).mark = [f.mark EXCEPT ![cb] = IF @ = 0 THEN f.p ELSE @]
         /\ MARK(f, cb).mark \in [DataCallbacks -> Nat]
  BY DEF MARK, Like, Near, FrameFields

OnlyMark(f, cb) == f.mark \in [DataCallbacks -> Nat] /\ \A o \in DataCallbacks : o # cb => f.mark[o] = 0

LEMMA OnlyOneMark ==
  ASSUME NEW f, Marked(f)
  PROVE  /\ f.st \in UrlStates => OnlyMark(f, "url")
         /\ f.st = "s_res_status" => OnlyMark(f, "status")
         /\ f.st = "s_header_field" => OnlyMark(f, "header_field")
         /\ f.st = "s_header_value" => OnlyMark(f, "header_value")
         /\ f.st \in BodyStates => OnlyMark(f, "body")
         /\ f.st \in QuietStates => \A cb \in DataCallbacks : OnlyMark(f, cb)
<1>1. f.st \in QuietStates => \A cb \in DataCallbacks : OnlyMark(f, cb)
  BY QuietUnmarked DEF OnlyMark, NoMarks
<1>2. QED
  BY <1>1 DEF Marked, OnlyMark, DataCallbacks, UrlStates, BodyStates

LEMMA OnlyMarkFits ==
  ASSUME NEW g, DOMAIN g = FrameFields, NEW cb \in DataCallbacks, OnlyMark(g, cb)
  PROVE  MarkedBut(g, cb)
<1> DEFINE h == [g EXCEPT !.mark[cb] = 0]
<1>1. h.mark = [g.mark EXCEPT ![cb] = 0]
  BY DEF FrameFields
<1>2. [g.mark EXCEPT ![cb] = 0] = NoMarks
  BY DEF OnlyMark, NoMarks
<1>3. QED
  BY Zenon, <1>1, <1>2, NothingMarked DEF MarkedBut

LEMMA OnlyMarkMarked ==
  ASSUME NEW f, NEW cb \in DataCallbacks, OnlyMark(f, cb),
         cb = "url" => f.st \in UrlStates, cb = "status" => f.st = "s_res_status",
         cb = "header_field" => f.st = "s_header_field", cb = "header_value" => f.st = "s_header_value",
         cb = "body" => f.st \in BodyStates
  PROVE  Marked(f)
  BY DEF OnlyMark, Marked, DataCallbacks

(* The text collected is reported on the way to a quiet state. *)
LEMMA FlushFine ==
  ASSUME NEW job, NEW g, Goes(g, 0, job), NEW cb \in DataCallbacks, OnlyMark(g, cb)
  PROVE  /\ Out(CALLBACK_DATA(g, cb), job)
         /\ \/ Over(CALLBACK_DATA(g, cb), job)
            \/ Like(g, CALLBACK_DATA(g, cb)) /\ Goes(CALLBACK_DATA(g, cb), 0, job) /\ Marked(CALLBACK_DATA(g, cb))
         /\ \/ Over(CALLBACK_DATA_NOADVANCE(g, cb), job)
            \/ /\ Like(g, CALLBACK_DATA_NOADVANCE(g, cb))
               /\ Goes(CALLBACK_DATA_NOADVANCE(g, cb), 0, job) /\ Marked(CALLBACK_DATA_NOADVANCE(g, cb))
<1>1. g.p \in 0..Len(g.data) /\ g.p - 1 \in 0..Len(g.data)
  BY DEF Goes, Whole
<1>2. MarkedBut(g, cb) /\ g.mark \in [DataCallbacks -> Nat]
  BY Zenon, OnlyMarkFits DEF Goes, Whole, OnlyMark
<1>3. QED
  BY Zenon, <1>1, <1>2, DataFine DEF CALLBACK_DATA, CALLBACK_DATA_NOADVANCE, Out

(* s_res_status *)
LEMMA ResStatusFine == ASSUME NEW job, NEW f, In(f, job), f.st = "s_res_status", NEW ch PROVE Out(ResStatus(f, ch), job)
<1>1. OnlyMark(f, "status") /\ "status" \in DataCallbacks
  BY OnlyOneMark DEF In, DataCallbacks
<1>2. ASSUME NEW s \in {"s_res_line_almost_done", "s_header_field_start"} PROVE Out(CALLBACK_DATA(Goto(f, s), "status"), job)
  <2> DEFINE g == Goto(f, s)
  <2>1. Near(f, g) /\ g.mark = f.mark /\ g.st = s /\ g.content_length = f.content_length
    BY InFacts DEF Goto, Near, FrameFields
  <2>2. s \in PlainStates
    BY DEF PlainStates, QuietStates, LiteralStates
  <2> HIDE DEF g
  <2>3. Goes(g, 0, job) /\ OnlyMark(g, "status")
    BY Zenon, <1>1, <2>1, <2>2, InFacts, Moves DEF In, OnlyMark
  <2>4. QED
    BY Zenon, <1>1, <2>3, FlushFine DEF g
<1>3. Out(f, job)
  BY StayFine
<1>4. QED
  BY <1>2, <1>3 DEF ResStatus

(* s_res_status_start *)
LEMMA ResStatusStartFine ==
  ASSUME NEW job, NEW f, In(f, job), f.st \in {"s_res_status_code", "s_res_status_start"}, NEW ch
  PROVE  Out(ResStatusStart(f, ch), job)
<1> DEFINE g == [MARK(f, "status") EXCEPT !.st = "s_res_status", !.index = 0]
           m == MARK(f, "status")
<1>1. "status" \in DataCallbacks /\ f.st \in QuietStates /\ "s_res_status" \in PlainStates /\ f.p \in Nat
  BY DEF DataCallbacks, QuietStates, PlainStates, In, Goes, Whole
<1>2. Like(f, m) /\ m.mark = [f.mark EXCEPT !["status"] = IF @ = 0 THEN f.p ELSE @]
  <2>1. DOMAIN f = FrameFields /\ f.mark \in [DataCallbacks -> Nat]
    BY Zenon, InFacts DEF In, Marked
  <2>2. QED
    BY Zenon, <1>1, <2>1, MarkEffect
<1> HIDE DEF m
<1>3. Near(f, g) /\ g.mark = m.mark /\ g.st = "s_res_status" /\ g.content_length = f.content_length
  BY <1>2 DEF Like, Near, FrameFields, m
<1>4. OnlyMark(f, "status")
  BY Zenon, <1>1, OnlyOneMark DEF In
<1>5. OnlyMark(g, "status")
  BY <1>1, <1>2, <1>3, <1>4 DEF OnlyMark
<1> HIDE DEF g
<1>6. Marked(g)
  BY <1>1, <1>3, <1>5, OnlyMarkMarked
<1>7. In(g, job) /\ Out(g, job)
  BY Zenon, <1>1, <1>3, <1>6, InFacts, Moves DEF In, Out
<1>8. Out(ResStatus(g, ch), job)
  BY Zenon, <1>3, <1>7, ResStatusFine
<1>9. QED
  BY Zenon, <1>7, <1>8 DEF ResStatusStart, g

(* The digits of a status code. *)
LEMMA StatusCodeFine ==
  ASSUME NEW job, NEW f, In(f, job), f.st \in {"s_res_first_status_code", "s_res_status_code"}, NEW ch
  PROVE  Out(StatusCode(f, ch), job)
<1> DEFINE g == [f EXCEPT !.code = DigitVal(ch), !.st = "s_res_status_code"]
           h == [f EXCEPT !.code = 10 * @ + DigitVal(ch)]
<1>1. f.st \in QuietStates /\ "s_res_status_code" \in QuietStates /\ "s_res_status_start" \in QuietStates
  BY DEF QuietStates
<1>2. Near(f, g) /\ g.mark = f.mark /\ g.st = "s_res_status_code" /\ g.content_length = f.content_length
  BY InFacts DEF Near, FrameFields
<1>3. Near(f, h) /\ h.mark = f.mark /\ h.st = f.st /\ h.content_length = f.content_length
  BY InFacts DEF Near, FrameFields
<1> HIDE DEF g, h
<1>4. Out(g, job) /\ Out(h, job) /\ In(h, job)
  BY Zenon, <1>1, <1>2, <1>3, InFacts, QuietMove
<1>5. Out(Error(h, "HPE_INVALID_STATUS"), job) /\ Out(Error(f, "HPE_INVALID_STATUS"), job)
  BY <1>4, InError
<1>6. Out(Goto(f, "s_res_status_start"), job)
  BY Zenon, <1>1, GotoFine
<1>7. Out(f, job)
  BY StayFine
<1>8. f.st = "s_res_status_code" => Out(ResStatusStart(f, ch), job)
  BY ResStatusStartFine
<1> DEFINE big == h.code > 999
           digit == ch \in NUM
           more == f.st = "s_res_status_code"
           e == Error(h, "HPE_INVALID_STATUS")
           d == Error(f, "HPE_INVALID_STATUS")
           w == Goto(f, "s_res_status_start")
           l == ResStatusStart(f, ch)
           end == ch \in CRLF
<1>9. StatusCode(f, ch) = CASE digit /\ f.st = "s_res_first_status_code" -> g
                            [] digit /\ more -> IF big THEN e ELSE h
                            [] ch = " " -> IF more THEN w ELSE f
                            [] end /\ more -> l
                            [] OTHER -> d
  BY Zenon DEF StatusCode, g, h
<1> HIDE DEF big, digit, more, e, d, w, l, end
<1>10. Out(e, job) /\ Out(d, job) /\ Out(w, job) /\ (more => Out(l, job))
  BY Zenon, <1>5, <1>6, <1>8 DEF e, d, w, l, more
<1>11. QED
  BY Zenon, <1>4, <1>7, <1>9, <1>10

(* parse_url_char stays in the states of a URL, or refuses. *)
LEMMA UrlTarget == ASSUME NEW s, NEW ch PROVE parse_url_char(s, ch) \in UrlStates \cup {"s_dead"}
<1> DEFINE T == UrlStates \cup {"s_dead"}
           a == IS_USERINFO_CHAR(ch)
           b == IS_URL_CHAR(ch)
           c == ch \in ALPHA
<1>1. {"s_req_path", "s_req_schema", "s_req_schema_slash", "s_req_schema_slash_slash", "s_req_server_start", "s_dead",
       "s_req_query_string_start", "s_req_server_with_at", "s_req_server", "s_req_query_string", "s_req_fragment_start",
       "s_req_fragment"} \subseteq T
  BY DEF UrlStates
<1> HIDE DEF T, a, b, c
<1>2. parse_url_char(s, ch) \in T
  BY <1>1 DEF parse_url_char, a, b, c
<1>3. QED
  BY <1>2 DEF T

LEMMA UrlByteFine ==
  ASSUME NEW job, NEW f, NEW c, Goes(f, c, job), OnlyMark(f, "url"), NEW s, NEW ch
  PROVE  Out(UrlByte(f, s, ch), job)
<1> DEFINE u == parse_url_char(s, ch)
           g == Goto(f, u)
<1>1. u \in UrlStates \cup {"s_dead"}
  BY Zenon, UrlTarget
<1>2. u \in PlainStates
  BY <1>1 DEF PlainStates, QuietStates
<1> HIDE DEF u
<1>3. Near(f, g) /\ g.mark = f.mark /\ g.st = u /\ g.content_length = f.content_length
  BY DEF Near, FrameFields, Goto, Goes, Whole
<1> HIDE DEF g
<1>4. Goes(g, 0, job)
  <2>1. g.content_length \in 0..ULLONG_MAX
    BY <1>3 DEF Goes, Known
  <2>2. QED
    BY Zenon, <1>2, <1>3, <2>1, Moves
<1>5. CASE u = "s_dead"
  <2>1. Over(Error(g, "HPE_INVALID_URL"), job)
    BY <1>4, ErrorFine
  <2>2. QED
    BY Zenon, <1>5, <2>1 DEF UrlByte, Out, u, g
<1>6. CASE u # "s_dead"
  <2>1. OnlyMark(g, "url") /\ g.st \in UrlStates /\ "url" \in DataCallbacks
    BY <1>1, <1>3, <1>6 DEF OnlyMark, DataCallbacks
  <2>2. Marked(g)
    BY <2>1, OnlyMarkMarked
  <2>3. QED
    BY Zenon, <1>4, <1>6, <2>2 DEF UrlByte, Out, u, g
<1>7. QED
  BY Zenon, <1>5, <1>6

(* The states of a URL, and the blank or line end that ends it. *)
LEMMA UrlFine ==
  ASSUME NEW job, NEW f, In(f, job), f.st \in UrlStates \cup {"s_req_spaces_before_url"}, NEW ch
  PROVE  Out(UrlState(f, ch), job)
<1>1. "url" \in DataCallbacks /\ f.p \in Nat /\ Out(f, job)
  BY StayFine DEF DataCallbacks, In, Goes, Whole, UrlStates
<1>2. OnlyMark(f, "url")
  BY <1>1, OnlyOneMark DEF In, QuietStates
<1>3. ASSUME NEW s PROVE Out(UrlByte(MARK(f, "url"), s, ch), job)
  <2> DEFINE m == MARK(f, "url")
  <2>1. Like(f, m) /\ m.mark = [f.mark EXCEPT !["url"] = IF @ = 0 THEN f.p ELSE @]
    <3>1. DOMAIN f = FrameFields /\ f.mark \in [DataCallbacks -> Nat]
      BY Zenon, InFacts DEF In, Marked
    <3>2. QED
      BY Zenon, <1>1, <3>1, MarkEffect
  <2> HIDE DEF m
  <2>2. Goes(m, 1, job)
    BY Zenon, <2>1, LikeGoes DEF In
  <2>3. OnlyMark(m, "url")
    BY <1>1, <1>2, <2>1 DEF OnlyMark
  <2>4. QED
    BY Zenon, <2>2, <2>3, UrlByteFine DEF m
<1>4. Out(UrlByte(f, f.st, ch), job) /\ Out(Error(f, "HPE_INVALID_URL"), job)
  BY <1>2, UrlByteFine, InError DEF In
<1>5. Out(CALLBACK_DATA(Goto(f, "s_req_http_start"), "url"), job)
  <2> DEFINE g == Goto(f, "s_req_http_start")
  <2>1. Near(f, g) /\ g.mark = f.mark /\ g.st = "s_req_http_start" /\ g.content_length = f.content_length
    BY InFacts DEF Near, FrameFields, Goto
  <2>2. "s_req_http_start" \in PlainStates
    BY DEF PlainStates, QuietStates
  <2> HIDE DEF g
  <2>3. Goes(g, 0, job) /\ OnlyMark(g, "url")
    BY Zenon, <1>2, <2>1, <2>2, InFacts, Moves DEF In, OnlyMark
  <2>4. QED
    BY Zenon, <1>1, <2>3, FlushFine DEF g
<1>6. ASSUME NEW s \in {"s_req_line_almost_done", "s_header_field_start"}
      PROVE  Out(CALLBACK_DATA([f EXCEPT !.major = 0, !.minor = 9, !.st = s], "url"), job)
  <2> DEFINE g == [f EXCEPT !.major = 0, !.minor = 9, !.st = s]
  <2>1. Near(f, g) /\ g.mark = f.mark /\ g.st = s /\ g.content_length = f.content_length
    BY InFacts DEF Near, FrameFields
  <2>2. s \in PlainStates
    BY DEF PlainStates, QuietStates, LiteralStates
  <2> HIDE DEF g
  <2>3. Goes(g, 0, job) /\ OnlyMark(g, "url")
    BY Zenon, <1>2, <2>1, <2>2, InFacts, Moves DEF In, OnlyMark
  <2>4. QED
    BY Zenon, <1>1, <2>3, FlushFine DEF g
<1>7. Out(CALLBACK_DATA([f EXCEPT !.major = 0, !.minor = 9,
                                  !.st = IF ch = "\r" THEN "s_req_line_almost_done" ELSE "s_header_field_start"], "url"), job)
  <2> DEFINE s == IF ch = "\r" THEN "s_req_line_almost_done" ELSE "s_header_field_start"
  <2>1. s \in {"s_req_line_almost_done", "s_header_field_start"}
    BY Zenon
  <2> HIDE DEF s
  <2>2. QED
    BY Zenon, <1>6, <2>1 DEF s
<1>8. QED
  BY Zenon, <1>1, <1>3, <1>4, <1>5, <1>7 DEF UrlState

---------------------------------------------------------------------------
(* The loops inside a byte: over a name and over a value. *)
Less == {p \in Nat \X Nat : p[1] < p[2]}

(* A set of positions that is not empty has a first one. *)
LEMMA HasLeast ==
  ASSUME NEW is \in SUBSET Nat, is # {}
  PROVE  \E i \in is : \A j \in is : i <= j
<1>1. IsWellFoundedOn(Less, Nat)
  BY NatLessThanWellFounded DEF Less, OpToRel
<1>2. PICK i \in is : \A j \in is : ~(<<j, i>> \in Less)
  BY Zenon, <1>1, WFMin
<1>3. \A a, b \in Nat : <<a, b>> \in Less <=> a < b
  BY DEF Less
<1>4. ASSUME NEW j \in is PROVE i <= j
  <2>1. i \in Nat /\ j \in Nat /\ ~(j < i)
    BY Zenon, <1>2, <1>3
  <2> QED BY <2>1
<1>5. QED
  BY Zenon, <1>4

LEMMA MinIn == ASSUME NEW S \in SUBSET Nat, S # {} PROVE Min(S) \in S /\ \A y \in S : Min(S) <= y
  BY Zenon, HasLeast DEF Min

(* As Near, but the cursor may be elsewhere. *)
LEMMA MovesOn ==
  ASSUME NEW job, NEW f, NEW c, Goes(f, c, job), NEW g, DOMAIN g = FrameFields, g.data = f.data, g.ret = f.ret, g.errno = f.errno,
         g.failed = f.failed, g.p \in f.p..Len(f.data), g.st \in PlainStates, g.content_length \in 0..ULLONG_MAX, NEW d
  PROVE  Goes(g, d, job)
  BY PlainFacts DEF Goes, Whole, Known, ChunkStates

(* COUNT_HEADER_SIZE: too many header bytes end the call, otherwise only   *)
(* nread moves.                                                            *)
LEMMA CountFine ==
  ASSUME NEW job, NEW f, NEW c, Goes(f, c, job), f.st # "s_chunk_size_start", NEW n
  PROVE  \/ Over(COUNT_HEADER_SIZE(f, n), job)
         \/ /\ Near(f, COUNT_HEADER_SIZE(f, n)) /\ COUNT_HEADER_SIZE(f, n).mark = f.mark
            /\ COUNT_HEADER_SIZE(f, n).st = f.st /\ COUNT_HEADER_SIZE(f, n).content_length = f.content_length
            /\ Goes(COUNT_HEADER_SIZE(f, n), 0, job)
<1> DEFINE m == f.nread + n
           g == [f EXCEPT !.nread = m]
<1> HIDE DEF m
<1>1. DOMAIN f = FrameFields
  BY DEF Goes, Whole
<1>2. Near(f, g) /\ g.mark = f.mark /\ g.st = f.st /\ g.content_length = f.content_length /\ g.flags = f.flags /\ g.hs = f.hs
  BY <1>1 DEF Near, FrameFields
<1>3. COUNT_HEADER_SIZE(f, n) = g \/ COUNT_HEADER_SIZE(f, n) = Error(g, "HPE_HEADER_OVERFLOW")
  BY Zenon DEF COUNT_HEADER_SIZE, m
<1> HIDE DEF g
<1>4. Goes(g, 0, job)
  BY <1>2 DEF Near, Goes, Whole, Known
<1>5. Over(Error(g, "HPE_HEADER_OVERFLOW"), job)
  BY <1>4, ErrorFine
<1>6. QED
  BY Zenon, <1>2, <1>3, <1>4, <1>5

(* Turns of a loop, as a function defined by recursion. *)
Turn(loop, f) ==
  IF loop = "field" THEN FieldTurn(f) ELSE IF loop = "value" THEN Then(f, SixteenValueTurns) ELSE Then(f, SixtyFourTurns)
Runs(loop, f, n, t) == t = [k \in 0..n |-> t[k]] /\ t[0] = f /\ \A k \in 1..n : t[k] = Turn(loop, t[k - 1])

(* The recursive function that repeats the turns is what its definition    *)
(* says.                                                                   *)
LEMMA TurnsExist ==
  ASSUME NEW loop, NEW f, NEW n \in Nat
  PROVE  \E t : Runs(loop, f, n, t)
<1> DEFINE good == {m \in 0..n : \E t : Runs(loop, f, m, t)}
           bad == {m \in 0..n : m \notin good}
<1> SUFFICES ASSUME bad # {} PROVE FALSE
  <2>1. n \in 0..n
    OBVIOUS
  <2> QED BY Zenon, <2>1
<1>1. PICK m \in bad : \A j \in bad : m <= j
  <2>1. bad \in SUBSET Nat
    <3>1. \A j \in bad : j \in 0..n
      BY Zenon
    <3>2. \A j \in 0..n : j \in Nat
      OBVIOUS
    <3> QED BY Zenon, <3>1, <3>2
  <2> HIDE DEF bad
  <2> QED BY <2>1, HasLeast
<1>2. m \in 0..n /\ m \notin good
  BY Zenon, <1>1
<1>3. m # 0
  <2> DEFINE t == [k \in 0..0 |-> f]
  <2>1. t = [k \in 0..0 |-> t[k]] /\ t[0] = f /\ \A k \in 1..0 : FALSE
    OBVIOUS
  <2>2. 0 \in 0..n
    OBVIOUS
  <2> HIDE DEF t
  <2>3. Runs(loop, f, 0, t)
    BY Zenon, <2>1 DEF Runs
  <2> QED BY Zenon, <1>2, <2>2, <2>3
<1>4. m \in 1..n /\ m - 1 \in 0..n /\ ~(m <= m - 1)
  BY <1>2, <1>3
<1>5. m - 1 \in good
  BY Zenon, <1>1, <1>4
<1>6. PICK t : Runs(loop, f, m - 1, t)
  BY Zenon, <1>5
<1> DEFINE last == Turn(loop, t[m - 1])
           u == [k \in 0..m |-> IF k = m THEN last ELSE t[k]]
<1> HIDE DEF last
<1>7. u = [k \in 0..m |-> u[k]] /\ u[0] = f
  BY <1>4, <1>6 DEF Runs
<1>8. ASSUME NEW k \in 1..m PROVE u[k] = Turn(loop, u[k - 1])
  <2>1. u[k - 1] = t[k - 1]
    BY <1>4
  <2>2. CASE k = m
    <3>1. u[k] = last
      BY <1>4, <2>2
    <3> QED BY Zenon, <2>1, <2>2, <3>1 DEF last
  <2>3. CASE k # m
    <3>1. k \in 1..(m - 1) /\ u[k] = t[k]
      BY <1>4, <2>3
    <3> QED BY Zenon, <1>6, <2>1, <3>1 DEF Runs
  <2> QED BY Zenon, <2>2, <2>3
<1> HIDE DEF u
<1>9. Runs(loop, f, m, u)
  BY Zenon, <1>7, <1>8 DEF Runs
<1> QED BY Zenon, <1>2, <1>9

(* In the loop over a name only these fields change. *)
FieldLike(f, g) ==
  /\ DOMAIN g = FrameFields /\ g.data = f.data /\ g.ret = f.ret /\ g.errno = f.errno /\ g.failed = f.failed
  /\ g.st = f.st /\ g.mark = f.mark /\ g.content_length = f.content_length /\ g.hs \in FieldStates

LEMMA FieldLikeGoes ==
  ASSUME NEW job, NEW f, In(f, job), f.st = "s_header_field", NEW g, FieldLike(f, g), g.p \in f.p..Len(f.data)
  PROVE  Goes(g, 0, job)
  BY DEF FieldLike, In, Goes, Whole, Known, ChunkStates

(* A byte of a name: the matching goes on in one of FieldStates. *)
LEMMA FieldTurnFine ==
  ASSUME NEW f, NEW g, FieldLike(f, g)
  PROVE  FieldLike(f, FieldTurn(g)) /\ FieldTurn(g).p = g.p + 1
<1> DEFINE c == TOKEN(At(g.data, g.p))
           r == FieldChar(g, c)
<1>1. FieldTurn(g) = [r EXCEPT !.p = @ + 1]
  BY Zenon DEF FieldTurn
<1>2. DOMAIN FieldWords = {"h_matching_connection", "h_matching_proxy_connection", "h_matching_content_length",
                           "h_matching_transfer_encoding", "h_matching_upgrade"}
  BY DEF FieldWords
<1>3. ASSUME NEW h \in FieldStates, NEW i, NEW t
      PROVE  /\ FieldLike(f, [g EXCEPT !.hs = h]) /\ [g EXCEPT !.hs = h].p = g.p
             /\ FieldLike(f, [g EXCEPT !.index = i, !.hs = h]) /\ [g EXCEPT !.index = i, !.hs = h].p = g.p
             /\ FieldLike(f, [[g EXCEPT !.index = i, !.hs = h] EXCEPT !.te = t])
             /\ [[g EXCEPT !.index = i, !.hs = h] EXCEPT !.te = t].p = g.p
  BY DEF FieldLike, FrameFields
<1>4. g.hs \in FieldStates /\ "h_general" \in FieldStates /\ WholeNames \subseteq FieldStates
  BY DEF FieldLike, FieldStates, WholeNames
<1> HIDE DEF c
<1> DEFINE Good(x) == FieldLike(f, x) /\ x.p = g.p
           m == MatchWord(g, FieldWords[g.hs], c)
           r1 == [m EXCEPT !.te = m.te \/ m.hs = "h_transfer_encoding"]
           r2 == [g EXCEPT !.index = g.index + 1, !.hs = IF c = "o" THEN "h_CO" ELSE "h_general"]
           r3 == [g EXCEPT !.index = g.index + 1, !.hs = IF c = "n" THEN "h_CON" ELSE "h_general"]
           r4 == [g EXCEPT !.index = g.index + 1, !.hs = CASE c = "n" -> "h_matching_connection"
                                                           [] c = "t" -> "h_matching_content_length"
                                                           [] OTHER -> "h_general"]
           r5 == [g EXCEPT !.hs = "h_general"]
           r6 == Check(g, "header state known", FALSE)
<1>5. r = CASE g.hs \in DOMAIN FieldWords -> r1
            [] g.hs = "h_C" -> r2
            [] g.hs = "h_CO" -> r3
            [] g.hs = "h_CON" -> r4
            [] g.hs \in WholeNames \cup {"h_general"} -> r5
            [] OTHER -> r6
  BY Zenon DEF FieldChar
<1>6. ASSUME g.hs \in DOMAIN FieldWords PROVE Good(r1)
  <2> DEFINE w == FieldWords[g.hs]
             i == g.index + 1
             h == IF c # At(w.text, g.index + 2) THEN w.other ELSE IF g.index + 2 = Len(w.text) THEN w.whole ELSE g.hs
             t == m.te \/ m.hs = "h_transfer_encoding"
  <2>1. w.other = "h_general" /\ w.whole \in WholeNames
    BY <1>2, <1>6 DEF FieldWords, Word, WholeNames
  <2> HIDE DEF w, i
  <2>2. h \in FieldStates
    BY Zenon, <1>4, <2>1
  <2> HIDE DEF h
  <2>3. m = [g EXCEPT !.index = i, !.hs = h]
    BY Zenon DEF MatchWord, h, i, w
  <2> HIDE DEF m, t
  <2>4. Good([[g EXCEPT !.index = i, !.hs = h] EXCEPT !.te = t])
    BY Zenon, <1>3, <2>2
  <2> HIDE DEF Good
  <2>5. QED
    BY Zenon, <2>3, <2>4 DEF t
<1>7. Good(r2) /\ Good(r3) /\ Good(r4) /\ Good(r5)
  <2> DEFINE i == g.index + 1
             h2 == IF c = "o" THEN "h_CO" ELSE "h_general"
             h3 == IF c = "n" THEN "h_CON" ELSE "h_general"
             h4 == CASE c = "n" -> "h_matching_connection" [] c = "t" -> "h_matching_content_length" [] OTHER -> "h_general"
  <2>1. h2 \in FieldStates /\ h3 \in FieldStates
    BY DEF FieldStates
  <2>2. h4 \in FieldStates
    BY DEF FieldStates
  <2> HIDE DEF i, h2, h3, h4
  <2>3. \A h \in FieldStates : Good([g EXCEPT !.index = i, !.hs = h]) /\ Good([g EXCEPT !.hs = h])
    BY Zenon, <1>3
  <2>4. Good([g EXCEPT !.index = i, !.hs = h2]) /\ Good([g EXCEPT !.index = i, !.hs = h3])
    BY Zenon, <2>1, <2>3
  <2>5. Good([g EXCEPT !.index = i, !.hs = h4]) /\ Good(r5)
    BY Zenon, <1>4, <2>2, <2>3
  <2> HIDE DEF Good
  <2>6. QED
    BY Zenon, <2>4, <2>5 DEF h2, h3, h4, i
<1>8. g.hs \in DOMAIN FieldWords \/ g.hs \in {"h_C", "h_CO", "h_CON"} \/ g.hs \in WholeNames \cup {"h_general"}
  BY <1>2, <1>4 DEF FieldStates, WholeNames
<1>9. Good(r)
  <2> HIDE DEF Good, r, r1, r2, r3, r4, r5, r6
  <2>1. QED
    BY <1>5, <1>6, <1>7, <1>8
<1> HIDE DEF r
<1>10. QED
  BY <1>1, <1>9 DEF FieldLike, FrameFields

LEMMA FieldTurnsFine ==
  ASSUME NEW f, FieldLike(f, f), NEW n \in Nat, f.p \in Nat
  PROVE  FieldLike(f, FieldTurns(f, n)) /\ FieldTurns(f, n).p = f.p + n
<1> DEFINE V == CHOOSE t : t = [k \in 0..n |-> IF k = 0 THEN f ELSE FieldTurn(t[k - 1])]
<1>1. PICK t : Runs("field", f, n, t)
  BY Zenon, TurnsExist
<1>2. t = [k \in 0..n |-> IF k = 0 THEN f ELSE Turn("field", t[k - 1])]
  <2>1. ASSUME NEW k \in 0..n PROVE t[k] = IF k = 0 THEN f ELSE Turn("field", t[k - 1])
    <3>1. k = 0 \/ k \in 1..n
      OBVIOUS
    <3>2. QED
      BY Zenon, <1>1, <3>1 DEF Runs
  <2>2. t = [k \in 0..n |-> t[k]]
    BY Zenon, <1>1 DEF Runs
  <2>3. QED
    BY Zenon, <2>1, <2>2
<1>3. \A x : Turn("field", x) = FieldTurn(x)
  BY Zenon DEF Turn
<1>4. t = [k \in 0..n |-> IF k = 0 THEN f ELSE FieldTurn(t[k - 1])]
  BY Zenon, <1>2, <1>3
<1>5. V = [k \in 0..n |-> IF k = 0 THEN f ELSE FieldTurn(V[k - 1])]
  BY Zenon, <1>4
<1>6. FieldTurns(f, n) = V[n]
  BY Zenon DEF FieldTurns
<1> HIDE DEF V
<1> DEFINE Fine(k) == FieldLike(f, V[k]) /\ V[k].p = f.p + k
           bad == {k \in 0..n : ~Fine(k)}
<1>7. CASE bad = {}
  <2>1. n \in 0..n
    OBVIOUS
  <2>2. Fine(n)
    BY Zenon, <1>7, <2>1
  <2> QED BY Zenon, <1>6, <2>2
<1>8. CASE bad # {}
  <2>1. PICK m \in bad : \A j \in bad : m <= j
    <3>1. bad \in SUBSET Nat
      <4>1. \A j \in bad : j \in 0..n
        BY Zenon
      <4>2. \A j \in 0..n : j \in Nat
        OBVIOUS
      <4> QED BY Zenon, <4>1, <4>2
    <3> HIDE DEF bad
    <3> QED BY <1>8, <3>1, HasLeast
  <2>2. m \in 0..n /\ ~Fine(m)
    BY Zenon, <2>1
  <2>3. m # 0
    <3>1. f.p + 0 = f.p /\ 0 \in 0..n
      OBVIOUS
    <3>2. V[0] = f
      BY Zenon, <1>5, <3>1
    <3>3. Fine(0)
      BY Zenon, <3>1, <3>2
    <3> QED BY Zenon, <2>2, <3>3
  <2>4. m - 1 \in 0..n /\ ~(m <= m - 1) /\ f.p + m = f.p + (m - 1) + 1
    BY <2>2, <2>3
  <2>5. Fine(m - 1)
    BY Zenon, <2>1, <2>4
  <2>6. V[m] = FieldTurn(V[m - 1])
    BY Zenon, <1>5, <2>2, <2>3
  <2>7. FieldLike(f, V[m]) /\ V[m].p = V[m - 1].p + 1
    BY Zenon, <2>5, <2>6, FieldTurnFine
  <2>8. Fine(m)
    BY Zenon, <2>4, <2>5, <2>7
  <2> QED BY Zenon, <2>2, <2>8
<1>9. QED
  BY Zenon, <1>7, <1>8

(* The byte on which the loop of s_header_field stops. *)
LEMMA FieldEndFine ==
  ASSUME NEW job, NEW f, In(f, job), f.st = "s_header_field", NEW g, FieldLike(f, g), g.p \in f.p..(Len(f.data) + 1), NEW start
  PROVE  Out(FieldEnd(g, start), job)
<1>0. /\ DOMAIN g = FrameFields /\ g.data = f.data /\ g.ret = f.ret /\ g.errno = f.errno /\ g.failed = f.failed
      /\ g.st = f.st /\ g.mark = f.mark /\ g.content_length = f.content_length /\ g.hs \in FieldStates
  BY Zenon DEF FieldLike
<1>1. OnlyMark(f, "header_field") /\ "header_field" \in DataCallbacks /\ f.p \in Nat /\ f.p >= 1 /\ Len(f.data) \in Nat
  BY OnlyOneMark DEF In, DataCallbacks, Goes, Whole
<1>2. "s_header_value_discard_ws" \in PlainStates
  BY DEF PlainStates, QuietStates
<1>3. OnlyMark(g, "header_field")
  BY Zenon, <1>0, <1>1 DEF OnlyMark
<1>4. CASE g.p > Len(g.data)
  <2> DEFINE h == [g EXCEPT !.p = @ - 1]
             n == g.p - 1 - start
             r == COUNT_HEADER_SIZE(h, n)
  <2>1. /\ DOMAIN h = FrameFields /\ h.data = g.data /\ h.ret = g.ret /\ h.errno = g.errno /\ h.failed = g.failed
        /\ h.p = g.p - 1 /\ h.st = g.st /\ h.mark = g.mark /\ h.content_length = g.content_length /\ h.hs = g.hs
    BY <1>0 DEF FrameFields
  <2>2. h.p \in f.p..Len(f.data)
    BY <1>0, <1>1, <1>4, <2>1 DEF In, Goes
  <2> HIDE DEF h, n
  <2>3. Goes(h, 0, job)
    <3>1. FieldLike(f, h)
      BY Zenon, <1>0, <2>1 DEF FieldLike
    <3>2. QED
      BY Zenon, <2>2, <3>1, FieldLikeGoes
  <2>4. Over(r, job) \/ (r.mark = h.mark /\ r.st = h.st /\ Goes(r, 0, job))
    BY <1>0, <2>1, <2>3, CountFine
  <2> HIDE DEF r
  <2>5. r.mark = h.mark /\ r.st = h.st => Marked(r)
    BY Zenon, <1>0, <2>1, LikeMarked DEF In
  <2>6. Out(r, job)
    BY Zenon, <2>4, <2>5 DEF Out
  <2>7. QED
    BY Zenon, <1>4, <2>6 DEF FieldEnd, r, h, n
<1>5. CASE ~(g.p > Len(g.data))
  <2> DEFINE n == g.p - start
             r == COUNT_HEADER_SIZE(g, n)
             v == Goto(r, "s_header_value_discard_ws")
  <2> HIDE DEF n
  <2>1. g.p \in f.p..Len(f.data)
    BY <1>0, <1>1, <1>5
  <2>2. Goes(g, 0, job)
    BY Zenon, <2>1, FieldLikeGoes
  <2>3. Over(r, job) \/ (Near(g, r) /\ r.mark = g.mark /\ r.content_length = g.content_length /\ Goes(r, 0, job))
    BY <1>0, <2>2, CountFine
  <2> HIDE DEF r
  <2>4. CASE Over(r, job)
    BY Zenon, <1>5, <2>4, OverStops DEF FieldEnd, Then, Out, r, n
  <2>5. CASE Near(g, r) /\ r.mark = g.mark /\ r.content_length = g.content_length /\ Goes(r, 0, job)
    <3>1. Near(r, v) /\ v.mark = r.mark /\ v.st = "s_header_value_discard_ws" /\ v.content_length = r.content_length
      BY <2>5 DEF Near, FrameFields, Goto
    <3> HIDE DEF v
    <3>2. Goes(v, 0, job) /\ OnlyMark(v, "header_field")
      BY Zenon, <1>0, <1>2, <1>3, <2>5, <3>1, InFacts, Moves DEF OnlyMark
    <3>3. Out(CALLBACK_DATA(v, "header_field"), job)
      BY Zenon, <1>1, <3>2, FlushFine
    <3>4. Over(Error(r, "HPE_INVALID_HEADER_TOKEN"), job)
      BY <2>5, ErrorFine
    <3>5. Running(r)
      BY Zenon, <2>5, GoesRuns
    <3>6. QED
      BY Zenon, <1>5, <3>3, <3>4, <3>5 DEF FieldEnd, Then, Out, r, n, v
  <2>6. QED
    BY Zenon, <2>3, <2>4, <2>5
<1>6. QED
  BY Zenon, <1>4, <1>5

(* s_header_field *)
LEMMA FieldFine == ASSUME NEW job, NEW f, In(f, job), f.st = "s_header_field" PROVE Out(FieldLoop(f), job)
<1> DEFINE ends == {q \in f.p..Len(f.data) : TOKEN(At(f.data, q)) = ""}
           q == IF ends = {} THEN Len(f.data) + 1 ELSE Min(ends)
           n == q - f.p
           g == FieldTurns(f, n)
<1>1. f.p \in 1..Len(f.data) /\ Len(f.data) \in Nat
  BY DEF In, Goes, Whole
<1>2. ends \in SUBSET Nat /\ \A x \in ends : x \in f.p..Len(f.data)
  <2>1. \A x \in ends : x \in f.p..Len(f.data)
    BY Zenon
  <2>2. \A x \in f.p..Len(f.data) : x \in Nat
    BY <1>1
  <2>3. QED
    BY Zenon, <2>1, <2>2
<1> HIDE DEF ends
<1>3. q \in f.p..(Len(f.data) + 1)
  <2>1. ASSUME ends # {} PROVE Min(ends) \in f.p..Len(f.data)
    BY Zenon, <1>2, <2>1, MinIn
  <2>2. Len(f.data) + 1 \in f.p..(Len(f.data) + 1) /\ \A x \in f.p..Len(f.data) : x \in f.p..(Len(f.data) + 1)
    BY <1>1
  <2>3. QED
    BY Zenon, <2>1, <2>2
<1> HIDE DEF q
<1>4. n \in Nat /\ f.p + n = q /\ f.p \in Nat
  BY <1>1, <1>3
<1> HIDE DEF n
<1>5. FieldLike(f, f)
  BY Zenon, InFacts DEF FieldLike, In, Goes, Known
<1>6. FieldLike(f, g) /\ g.p = q
  BY Zenon, <1>4, <1>5, FieldTurnsFine
<1> HIDE DEF g
<1>7. Out(FieldEnd(g, f.p), job)
  BY Zenon, <1>3, <1>6, FieldEndFine
<1>8. QED
  BY Zenon, <1>7 DEF FieldLoop, g, n, q, ends

(* Inside the loop over a value, where the cursor may have run out of bytes. *)
ValueRuns(f, job) ==
  /\ Whole(f, job) /\ f.ret = -1 /\ f.errno = "HPE_OK" /\ Len(f.data) # 0 /\ f.p \in 1..(Len(f.data) + 1)
  /\ f.p >= job[2] /\ Len(f.data) >= job[2]
  /\ f.content_length \in 0..ULLONG_MAX /\ f.hs \notin {"h_connection", "h_transfer_encoding"}
  /\ f.st = "s_header_value" /\ OnlyMark(f, "header_value")
ValueOut(f, job) == ValueRuns(f, job) \/ Over(f, job)
Keeps(f, g) ==
  /\ DOMAIN g = FrameFields /\ g.data = f.data /\ g.ret = f.ret /\ g.errno = f.errno /\ g.failed = f.failed
  /\ g.st = f.st /\ g.mark = f.mark
  /\ g.content_length \in 0..ULLONG_MAX /\ g.hs \notin {"h_connection", "h_transfer_encoding"}

LEMMA KeepsRuns == ASSUME NEW job, NEW f, ValueRuns(f, job), NEW g, Keeps(f, g), g.p \in 1..(Len(f.data) + 1), g.p >= job[2] PROVE ValueRuns(g, job)
  BY Zenon DEF Keeps, ValueRuns, Whole, OnlyMark

LEMMA RunsIn == ASSUME NEW job, NEW f, ValueRuns(f, job), f.p <= Len(f.data) PROVE Goes(f, 0, job) /\ Goes(f, 1, job) /\ Marked(f)
<1>1. Goes(f, 0, job) /\ Goes(f, 1, job)
  BY DEF ValueRuns, Goes, Whole, Known, States, ChunkStates
<1>2. "header_value" \in DataCallbacks
  BY DEF DataCallbacks
<1>3. Marked(f)
  BY <1>2, OnlyMarkMarked DEF ValueRuns
<1>4. QED
  BY <1>1, <1>3

LEMMA InRuns == ASSUME NEW job, NEW f, In(f, job), f.st = "s_header_value" PROVE ValueRuns(f, job) /\ f.p <= Len(f.data)
  BY OnlyOneMark DEF In, Goes, ValueRuns, Known, Whole

LEMMA ValueError ==
  ASSUME NEW job, NEW f, ValueRuns(f, job), NEW e, e \notin {"HPE_OK", "HPE_PAUSED"}
  PROVE  Over(Error(f, e), job)
  BY DEF Error, ValueRuns, Over, Whole, FrameFields

(* What one byte of a value may do. *)
Kept(f, g, job) == Over(g, job) \/ (Keeps(f, g) /\ g.p = f.p)

(* The state of a header value that is read for its meaning. *)
LEMMA HsFine ==
  ASSUME NEW job, NEW f, ValueRuns(f, job), NEW hs, hs \notin {"h_connection", "h_transfer_encoding"}, NEW i
  PROVE  /\ Kept(f, f, job) /\ Kept(f, [f EXCEPT !.hs = hs], job)
         /\ Kept(f, [f EXCEPT !.hs = hs, !.index = i], job) /\ Kept(f, [f EXCEPT !.index = i, !.hs = hs], job)
<1>1. DOMAIN f = FrameFields /\ f.content_length \in 0..ULLONG_MAX /\ f.hs \notin {"h_connection", "h_transfer_encoding"}
  BY DEF ValueRuns, Whole
<1>2. Kept(f, f, job)
  BY <1>1 DEF Keeps, Kept
<1>3. Kept(f, [f EXCEPT !.hs = hs], job)
  <2>1. Keeps(f, [f EXCEPT !.hs = hs]) /\ [f EXCEPT !.hs = hs].p = f.p
    BY <1>1 DEF Keeps, FrameFields
  <2> QED BY <2>1 DEF Kept
<1>4. Kept(f, [f EXCEPT !.hs = hs, !.index = i], job)
  <2>1. Keeps(f, [f EXCEPT !.hs = hs, !.index = i]) /\ [f EXCEPT !.hs = hs, !.index = i].p = f.p
    BY <1>1 DEF Keeps, FrameFields
  <2> QED BY <2>1 DEF Kept
<1>5. Kept(f, [f EXCEPT !.index = i, !.hs = hs], job)
  <2>1. Keeps(f, [f EXCEPT !.index = i, !.hs = hs]) /\ [f EXCEPT !.index = i, !.hs = hs].p = f.p
    BY <1>1 DEF Keeps, FrameFields
  <2> QED BY <2>1 DEF Kept
<1>6. QED
  BY Zenon, <1>2, <1>3, <1>4, <1>5

(* A digit of a Content-Length: no overflow, and never ULLONG_MAX. *)
LEMMA DigitFine == ASSUME NEW job, NEW f, ValueRuns(f, job), NEW ch PROVE Kept(f, ContentLengthDigit(f, ch), job)
<1>1. CASE ch = " "
  <2>1. "h_content_length_ws" \notin {"h_connection", "h_transfer_encoding"}
    OBVIOUS
  <2>2. QED
    BY Zenon, <1>1, <2>1, HsFine DEF ContentLengthDigit
<1>2. CASE ch # " " /\ (ch \notin NUM \/ (ULLONG_MAX - 10) \div 10 < f.content_length)
  <2>1. Over(Error(f, "HPE_INVALID_CONTENT_LENGTH"), job)
    BY ValueError
  <2>2. QED
    BY Zenon, <1>2, <2>1 DEF ContentLengthDigit, Kept
<1>3. CASE ch # " " /\ ~(ch \notin NUM \/ (ULLONG_MAX - 10) \div 10 < f.content_length)
  <2> DEFINE n == (10 * f.content_length + DigitVal(ch)) % (ULLONG_MAX + 1)
             g == [f EXCEPT !.content_length = n]
  <2>1. DigitVal(ch) \in 0..9 /\ f.content_length \in Nat /\ ULLONG_MAX \in Nat
    <3>1. DigitVal(ch) \in 0..9
      BY Zenon, <1>3, DigitAssumption
    <3>2. QED
      BY <3>1, ULLONG_MAXAssumption DEF ValueRuns
  <2>2. n \in 0..ULLONG_MAX
    BY <2>1
  <2> HIDE DEF n
  <2>3. Keeps(f, g) /\ g.p = f.p
    BY <2>2 DEF Keeps, ValueRuns, Whole, FrameFields
  <2>4. QED
    BY Zenon, <1>3, <2>3 DEF ContentLengthDigit, Kept, n
<1>4. QED
  BY Zenon, <1>1, <1>2, <1>3

LEMMA ListStartFine ==
  ASSUME NEW job, NEW f, ValueRuns(f, job), NEW c,
         f.hs \in {"h_matching_transfer_encoding_token_start", "h_matching_connection_token_start"}
  PROVE  Kept(f, ListStart(f, c), job)
<1> DEFINE hs == CASE f.hs = "h_matching_transfer_encoding_token_start" /\ TOKEN(c) # "" ->
                        IF c = "c" THEN "h_matching_transfer_encoding_chunked" ELSE "h_matching_transfer_encoding_token"
                   [] f.hs = "h_matching_connection_token_start" /\ TOKEN(c) # "" ->
                        ConnectionWord(c, "h_matching_connection_token")
                   [] TOKEN(c) = "" -> IF c \in LWS THEN f.hs ELSE "h_general"
<1>1. ConnectionWord(c, "h_matching_connection_token") \notin {"h_connection", "h_transfer_encoding"}
  BY DEF ConnectionWord
<1>2. hs \notin {"h_connection", "h_transfer_encoding"}
  BY Zenon, <1>1
<1> HIDE DEF hs
<1>3. Kept(f, [f EXCEPT !.hs = hs], job)
  BY Zenon, <1>2, HsFine
<1>4. QED
  BY Zenon, <1>3 DEF ListStart, hs

LEMMA MatchFine ==
  ASSUME NEW job, NEW f, ValueRuns(f, job), NEW c, f.hs \in DOMAIN ValueWords
  PROVE  Kept(f, MatchWord(f, ValueWords[f.hs], c), job)
<1> DEFINE w == ValueWords[f.hs]
           i == f.index + 1
           hs == IF c # At(w.text, f.index + 2) THEN w.other ELSE IF f.index + 2 = Len(w.text) THEN w.whole ELSE f.hs
<1>1. w.other \notin {"h_connection", "h_transfer_encoding"} /\ w.whole \notin {"h_connection", "h_transfer_encoding"}
  BY DEF ValueWords, Word
<1>2. f.hs \notin {"h_connection", "h_transfer_encoding"}
  BY DEF ValueRuns
<1> HIDE DEF w, i
<1>3. hs \notin {"h_connection", "h_transfer_encoding"}
  BY Zenon, <1>1, <1>2
<1> HIDE DEF hs
<1>4. Kept(f, [f EXCEPT !.index = i, !.hs = hs], job)
  BY Zenon, <1>3, HsFine
<1>5. QED
  BY Zenon, <1>4 DEF MatchWord, hs, i, w

LEMMA RecognisedFine ==
  ASSUME NEW f, DOMAIN f = FrameFields
  PROVE  /\ Near(f, Recognised(f)) /\ Recognised(f).mark = f.mark /\ Recognised(f).st = f.st
         /\ Recognised(f).content_length = f.content_length /\ Recognised(f).hs = f.hs
<1> DEFINE fl == f.flags \cup {FlagOf[f.hs]}
           g == [f EXCEPT !.flags = fl]
<1> HIDE DEF fl
<1>1. Near(f, g) /\ g.mark = f.mark /\ g.st = f.st /\ g.content_length = f.content_length /\ g.hs = f.hs
  BY DEF Near, FrameFields
<1>2. Near(f, f)
  BY DEF Near
<1>3. Recognised(f) = f \/ Recognised(f) = g
  BY Zenon DEF Recognised, fl
<1> HIDE DEF g
<1>4. QED
  BY Zenon, <1>1, <1>2, <1>3

(* A byte of a header value, in each of the h_ states. *)
LEMMA ValueCharFine == ASSUME NEW job, NEW f, ValueRuns(f, job), NEW ch PROVE Kept(f, ValueChar(f, ch), job)
<1> DEFINE c == LOWER(ch)
           n == [f EXCEPT !.hs = "h_content_length_num"]
           t == [f EXCEPT !.hs = "h_matching_transfer_encoding_token_start", !.index = 0]
           u == [f EXCEPT !.hs = "h_matching_connection_token_start", !.index = 0]
           v == [f EXCEPT !.hs = "h_matching_transfer_encoding_token"]
           w == [Recognised(f) EXCEPT !.hs = "h_matching_connection_token_start", !.index = 0]
           x == [f EXCEPT !.hs = "h_matching_connection_token"]
           y == [f EXCEPT !.hs = "h_general"]
<1> HIDE DEF c
<1>1. f.hs \notin {"h_connection", "h_transfer_encoding"} /\ DOMAIN f = FrameFields
  BY DEF ValueRuns, Whole
<1>2. Kept(f, f, job) /\ Kept(f, t, job) /\ Kept(f, u, job) /\ Kept(f, v, job) /\ Kept(f, x, job) /\ Kept(f, y, job)
  <2> DEFINE bad == {"h_connection", "h_transfer_encoding"}
  <2>1. /\ "h_matching_transfer_encoding_token_start" \notin bad /\ "h_matching_connection_token_start" \notin bad
        /\ "h_matching_transfer_encoding_token" \notin bad /\ "h_matching_connection_token" \notin bad
        /\ "h_general" \notin bad
    OBVIOUS
  <2>2. \A h : h \notin bad => Kept(f, f, job) /\ Kept(f, [f EXCEPT !.hs = h], job) /\ Kept(f, [f EXCEPT !.hs = h, !.index = 0], job)
    BY Zenon, HsFine
  <2>3. QED
    BY Zenon, <2>1, <2>2
<1>3. Kept(f, ContentLengthDigit(f, ch), job) /\ Kept(f, Error(f, "HPE_INVALID_CONTENT_LENGTH"), job)
  BY DigitFine, ValueError DEF Kept
<1>4. Kept(f, ContentLengthDigit(n, ch), job)
  <2>1. Keeps(f, n) /\ n.p = f.p
    BY DEF Keeps, FrameFields, ValueRuns, Whole
  <2> HIDE DEF n
  <2>2. ValueRuns(n, job)
    BY <2>1, KeepsRuns DEF ValueRuns
  <2>3. Kept(n, ContentLengthDigit(n, ch), job)
    BY <2>2, DigitFine
  <2>4. QED
    BY Zenon, <2>1, <2>3 DEF Kept, Keeps
<1>5. Kept(f, w, job)
  <2> DEFINE r == Recognised(f)
  <2>1. Near(f, r) /\ r.mark = f.mark /\ r.st = f.st /\ r.content_length = f.content_length /\ r.hs = f.hs
    BY Zenon, <1>1, RecognisedFine
  <2> HIDE DEF r
  <2>2. Keeps(f, w) /\ w.p = f.p
    BY <2>1 DEF Keeps, Near, FrameFields, ValueRuns, r
  <2>3. QED
    BY Zenon, <2>2 DEF Kept
<1>6. f.hs \in {"h_matching_transfer_encoding_token_start", "h_matching_connection_token_start"} => Kept(f, ListStart(f, c), job)
  BY ListStartFine
<1>7. f.hs \in DOMAIN ValueWords => Kept(f, MatchWord(f, ValueWords[f.hs], c), job)
  BY MatchFine
<1> HIDE DEF n, t, u, v, w, x, y
<1>8. QED
  BY Zenon, <1>1, <1>2, <1>3, <1>4, <1>5, <1>6, <1>7 DEF ValueChar, c, n, t, u, v, w, x, y

(* h_general: on to the next line end. *)
LEMMA RunAheadFine ==
  ASSUME NEW job, NEW f, ValueRuns(f, job), f.p <= Len(f.data), max_header_size \in Nat
  PROVE  ValueOut(RunAhead(f), job)
<1> DEFINE pe == f.p + IF Len(f.data) - f.p + 1 < max_header_size THEN Len(f.data) - f.p + 1 ELSE max_header_size
           stops == {q \in f.p..(pe - 1) : At(f.data, q) \in CRLF \/ (~f.lenient /\ ~IS_HEADER_CHAR(At(f.data, q)))}
           q == CHOOSE x \in stops : \A y \in stops : x <= y
<1>1. f.p \in 1..Len(f.data) /\ Len(f.data) \in Nat
  BY DEF ValueRuns, Whole
<1>2. pe \in f.p..(Len(f.data) + 1)
  BY <1>1
<1> HIDE DEF pe
<1>3. \A x \in stops : x \in f.p..Len(f.data)
  <2>1. \A x \in stops : x \in f.p..(pe - 1)
    BY Zenon
  <2>2. \A x \in f.p..(pe - 1) : x \in f.p..Len(f.data)
    BY <1>1, <1>2
  <2>3. QED
    BY Zenon, <2>1, <2>2
<1> HIDE DEF stops
<1>4. ASSUME NEW x \in f.p..(Len(f.data) + 1) PROVE ValueRuns([f EXCEPT !.p = x], job)
  <2> DEFINE g == [f EXCEPT !.p = x]
  <2>1. Keeps(f, g) /\ g.p = x
    BY DEF Keeps, FrameFields, ValueRuns, Whole
  <2> HIDE DEF g
  <2>2. g.p \in 1..(Len(f.data) + 1) /\ g.p >= job[2]
    BY <1>1, <2>1 DEF ValueRuns, Whole
  <2>3. ValueRuns(g, job)
    BY Zenon, <2>1, <2>2, KeepsRuns
  <2>4. QED
    BY Zenon, <2>3 DEF g
<1>5. CASE stops = {}
  <2> DEFINE x == IF pe > Len(f.data) THEN pe ELSE pe + 1
  <2>1. x \in f.p..(Len(f.data) + 1)
    BY <1>1, <1>2
  <2> HIDE DEF x
  <2>2. QED
    BY Zenon, <1>4, <1>5, <2>1 DEF RunAhead, ValueOut, x, stops, pe
<1>6. CASE stops # {}
  <2>1. stops \in SUBSET Nat
    <3>1. \A x \in f.p..Len(f.data) : x \in Nat
      BY <1>1
    <3>2. QED
      BY Zenon, <1>3, <3>1
  <2>2. \E x \in stops : \A y \in stops : x <= y
    BY Zenon, <1>6, <2>1, HasLeast
  <2>3. q \in stops
    BY Zenon, <2>2
  <2> HIDE DEF q
  <2>4. q \in f.p..(Len(f.data) + 1)
    BY <1>1, <1>3, <2>3
  <2>5. ValueRuns([f EXCEPT !.p = q], job)
    BY Zenon, <1>4, <2>4
  <2>6. Over(Error([f EXCEPT !.p = q], "HPE_INVALID_HEADER_TOKEN"), job)
    BY <2>5, ValueError
  <2>7. QED
    BY Zenon, <1>6, <2>5, <2>6 DEF RunAhead, ValueOut, q, stops, pe
<1>7. QED
  BY Zenon, <1>5, <1>6

(* One turn of the loop of s_header_value. *)
LEMMA ValueTurnFine ==
  ASSUME NEW job, NEW f, ValueRuns(f, job), max_header_size \in Nat
  PROVE  ValueOut(ValueTurn(f), job)
<1> DEFINE ch == At(f.data, f.p)
           v == ValueChar(f, ch)
           g == [v EXCEPT !.p = @ + 1]
<1>1. CASE f.p > Len(f.data) \/ ch \in CRLF \/ Refuses(f, ch)
  BY Zenon, <1>1 DEF ValueTurn, ValueOut
<1>2. CASE ~(f.p > Len(f.data) \/ ch \in CRLF \/ Refuses(f, ch))
  <2>1. f.p \in 1..Len(f.data) /\ Len(f.data) \in Nat
    BY <1>2 DEF ValueRuns, Whole
  <2>2. CASE f.hs = "h_general"
    <3>1. ValueOut(RunAhead(f), job)
      BY <2>1, RunAheadFine
    <3>2. QED
      BY Zenon, <1>2, <2>2, <3>1 DEF ValueTurn
  <2>3. CASE f.hs # "h_general"
    <3>1. Kept(f, v, job)
      BY Zenon, ValueCharFine
    <3>2. ValueTurn(f) = IF Running(v) THEN g ELSE v
      BY Zenon, <1>2, <2>3 DEF ValueTurn, Then
    <3> HIDE DEF ch, v
    <3>3. CASE Over(v, job)
      BY Zenon, <3>2, <3>3, OverStops DEF ValueOut
    <3>4. CASE Keeps(f, v) /\ v.p = f.p
      <4>1. Running(v)
        BY <3>4 DEF Keeps, Running, ValueRuns
      <4>2. Keeps(f, g) /\ g.p = f.p + 1
        BY <3>4 DEF Keeps, FrameFields
      <4> HIDE DEF g
      <4>3. g.p \in 1..(Len(f.data) + 1) /\ g.p >= job[2]
        BY <2>1, <4>2 DEF ValueRuns, Whole
      <4>4. ValueRuns(g, job)
        BY Zenon, <4>2, <4>3, KeepsRuns
      <4>5. QED
        BY Zenon, <3>2, <4>1, <4>4 DEF ValueOut
    <3>5. QED
      BY Zenon, <3>1, <3>3, <3>4 DEF Kept
  <2>4. QED
    BY Zenon, <2>2, <2>3
<1>3. QED
  BY Zenon, <1>1, <1>2

LEMMA ValueThen ==
  ASSUME NEW job, NEW f, ValueOut(f, job), max_header_size \in Nat
  PROVE  ValueOut(Then(f, SixteenValueTurns), job)
<1>1. ASSUME NEW g, ValueOut(g, job) PROVE ValueOut(Then(g, ValueTurn), job)
  <2>1. CASE ValueRuns(g, job)
    <3>1. ValueOut(ValueTurn(g), job)
      BY Zenon, <2>1, ValueTurnFine
    <3>2. QED
      BY Zenon, <1>1, <3>1 DEF Then
  <2>2. CASE Over(g, job)
    BY Zenon, <1>1, <2>2, OverStops DEF Then
  <2>3. QED
    BY Zenon, <1>1, <2>1, <2>2 DEF ValueOut
<1>2. ASSUME NEW g, ValueOut(g, job) PROVE ValueOut(Then(g, FourValueTurns), job)
  <2> DEFINE g1 == Then(g, ValueTurn)
             g2 == Then(g1, ValueTurn)
             g3 == Then(g2, ValueTurn)
             g4 == Then(g3, ValueTurn)
  <2>1. ValueOut(g1, job)
    BY Zenon, <1>1, <1>2
  <2> HIDE DEF g1
  <2>2. ValueOut(g2, job)
    BY Zenon, <1>1, <2>1
  <2> HIDE DEF g2
  <2>3. ValueOut(g3, job)
    BY Zenon, <1>1, <2>2
  <2> HIDE DEF g3
  <2>4. ValueOut(g4, job)
    BY Zenon, <1>1, <2>3
  <2> HIDE DEF g4
  <2>5. CASE Running(g)
    <3>1. g1 = ValueTurn(g)
      BY Zenon, <2>5 DEF g1, Then
    <3>2. FourValueTurns(g) = g4
      BY Zenon, <3>1 DEF FourValueTurns, Four, g4, g3, g2
    <3>3. QED
      BY Zenon, <2>4, <2>5, <3>2 DEF Then
  <2>6. CASE ~Running(g)
    BY Zenon, <1>2, <2>6 DEF Then
  <2>7. QED
    BY Zenon, <2>5, <2>6
<1>3. ASSUME NEW g, ValueOut(g, job) PROVE ValueOut(Then(g, SixteenValueTurns), job)
  <2> DEFINE g1 == Then(g, FourValueTurns)
             g2 == Then(g1, FourValueTurns)
             g3 == Then(g2, FourValueTurns)
             g4 == Then(g3, FourValueTurns)
  <2>1. ValueOut(g1, job)
    BY Zenon, <1>2, <1>3
  <2> HIDE DEF g1
  <2>2. ValueOut(g2, job)
    BY Zenon, <1>2, <2>1
  <2> HIDE DEF g2
  <2>3. ValueOut(g3, job)
    BY Zenon, <1>2, <2>2
  <2> HIDE DEF g3
  <2>4. ValueOut(g4, job)
    BY Zenon, <1>2, <2>3
  <2> HIDE DEF g4
  <2>5. CASE Running(g)
    <3>1. g1 = FourValueTurns(g)
      BY Zenon, <2>5 DEF g1, Then
    <3>2. SixteenValueTurns(g) = g4
      BY Zenon, <3>1 DEF SixteenValueTurns, Four, g4, g3, g2
    <3>3. QED
      BY Zenon, <2>4, <2>5, <3>2 DEF Then
  <2>6. CASE ~Running(g)
    BY Zenon, <1>3, <2>6 DEF Then
  <2>7. QED
    BY Zenon, <2>5, <2>6
<1>4. QED
  BY Zenon, <1>3

(* The loop of s_header_value leaves a cursor within the bytes of the      *)
(* call.                                                                   *)
LEMMA ValueTurnsFine ==
  ASSUME NEW job, NEW f, ValueOut(f, job), NEW n \in Nat, max_header_size \in Nat
  PROVE  ValueOut(ValueTurns(f, n), job)
<1> DEFINE V == CHOOSE t : t = [k \in 0..n |-> IF k = 0 THEN f ELSE Then(t[k - 1], SixteenValueTurns)]
<1>1. PICK t : Runs("value", f, n, t)
  BY Zenon, TurnsExist
<1>2. t = [k \in 0..n |-> IF k = 0 THEN f ELSE Turn("value", t[k - 1])]
  <2>1. ASSUME NEW k \in 0..n PROVE t[k] = IF k = 0 THEN f ELSE Turn("value", t[k - 1])
    <3>1. k = 0 \/ k \in 1..n
      OBVIOUS
    <3>2. QED
      BY Zenon, <1>1, <3>1 DEF Runs
  <2>2. t = [k \in 0..n |-> t[k]]
    BY Zenon, <1>1 DEF Runs
  <2>3. QED
    BY Zenon, <2>1, <2>2
<1>3. \A x : Turn("value", x) = Then(x, SixteenValueTurns)
  BY Zenon DEF Turn
<1>4. t = [k \in 0..n |-> IF k = 0 THEN f ELSE Then(t[k - 1], SixteenValueTurns)]
  BY Zenon, <1>2, <1>3
<1>5. V = [k \in 0..n |-> IF k = 0 THEN f ELSE Then(V[k - 1], SixteenValueTurns)]
  BY Zenon, <1>4
<1>6. ValueTurns(f, n) = V[n]
  BY Zenon DEF ValueTurns
<1> HIDE DEF V
<1> DEFINE bad == {k \in 0..n : ~ValueOut(V[k], job)}
<1>7. CASE bad = {}
  <2>1. n \in 0..n
    OBVIOUS
  <2> QED BY Zenon, <1>6, <1>7, <2>1
<1>8. CASE bad # {}
  <2>1. PICK m \in bad : \A j \in bad : m <= j
    <3>1. bad \in SUBSET Nat
      <4>1. \A j \in bad : j \in 0..n
        BY Zenon
      <4>2. \A j \in 0..n : j \in Nat
        OBVIOUS
      <4> QED BY Zenon, <4>1, <4>2
    <3> HIDE DEF bad
    <3> QED BY <1>8, <3>1, HasLeast
  <2>2. m \in 0..n /\ ~ValueOut(V[m], job)
    BY Zenon, <2>1
  <2>3. m # 0
    BY Zenon, <1>5, <2>2
  <2>4. m - 1 \in 0..n /\ ~(m <= m - 1)
    BY <2>2, <2>3
  <2>5. ValueOut(V[m - 1], job)
    BY Zenon, <2>1, <2>4
  <2>6. V[m] = Then(V[m - 1], SixteenValueTurns)
    BY Zenon, <1>5, <2>2, <2>3
  <2> QED BY Zenon, <2>2, <2>5, <2>6, ValueThen
<1>9. QED
  BY Zenon, <1>7, <1>8

LEMMA StillIn == ASSUME NEW job, NEW f, Goes(f, 0, job), Marked(f), f.st # "s_chunk_size_start" PROVE In(f, job)
  BY DEF In, Goes

LEMMA CountOut ==
  ASSUME NEW job, NEW f, Goes(f, 0, job), Marked(f), f.st # "s_chunk_size_start", NEW n
  PROVE  Out(COUNT_HEADER_SIZE(f, n), job)
<1> DEFINE g == COUNT_HEADER_SIZE(f, n)
<1>1. Over(g, job) \/ (g.mark = f.mark /\ g.st = f.st /\ Goes(g, 0, job))
  BY Zenon, CountFine
<1> HIDE DEF g
<1>2. Out(g, job)
  BY Zenon, <1>1, LikeMarked DEF Out
<1>3. QED
  BY Zenon, <1>2 DEF g

(* After the loop of s_header_value. *)
LEMMA ValueEndFine == ASSUME NEW job, NEW f, ValueRuns(f, job), NEW start PROVE Out(ValueEnd(f, start), job)
<1> DEFINE ch == At(f.data, f.p)
           b == "s_header_almost_done"
           g == Goto(f, b)
<1>1. f.p \in 1..(Len(f.data) + 1) /\ Len(f.data) \in Nat /\ Len(f.data) # 0 /\ DOMAIN f = FrameFields
  BY DEF ValueRuns, Whole
<1>2. b \in PlainStates /\ b \in LiteralStates /\ b # "s_chunk_size_start" /\ "header_value" \in DataCallbacks
  BY DEF PlainStates, QuietStates, LiteralStates, DataCallbacks
<1>3. CASE f.p > Len(f.data)
  <2> DEFINE h == [f EXCEPT !.p = Len(f.data)]
             n == Len(f.data) - start
  <2>1. Keeps(f, h) /\ h.p = Len(f.data)
    BY <1>1 DEF Keeps, ValueRuns, FrameFields
  <2> HIDE DEF h, n
  <2>2. h.p \in 1..(Len(f.data) + 1) /\ h.p <= Len(h.data) /\ h.p >= job[2]
    BY <1>1, <2>1 DEF Keeps, ValueRuns
  <2>3. ValueRuns(h, job)
    BY Zenon, <2>1, <2>2, KeepsRuns
  <2>4. Goes(h, 0, job) /\ Marked(h) /\ h.st # "s_chunk_size_start"
    BY <2>2, <2>3, RunsIn DEF ValueRuns
  <2>5. Out(COUNT_HEADER_SIZE(h, n), job)
    BY Zenon, <2>4, CountOut
  <2>6. ~(f.p > Len(f.data)) \/ ValueEnd(f, start) = COUNT_HEADER_SIZE(h, n)
    <3>1. ch = ""
      <4>1. f.p \notin 1..Len(f.data)
        BY <1>1, <1>3
      <4>2. QED
        BY Zenon, <4>1 DEF At
    <3>2. ch # "\r" /\ ch # "\n"
      BY Zenon, <3>1
    <3>3. QED
      BY Zenon, <1>3, <3>2 DEF ValueEnd, h, n
  <2>7. QED
    BY Zenon, <1>3, <2>5, <2>6
<1>4. CASE ~(f.p > Len(f.data))
  <2>1. f.p <= Len(f.data)
    BY <1>1, <1>4
  <2>2. Goes(f, 0, job) /\ OnlyMark(f, "header_value")
    BY Zenon, <2>1, RunsIn DEF ValueRuns
  <2>3. Near(f, g) /\ g.mark = f.mark /\ g.st = b /\ g.content_length = f.content_length
    BY <1>1 DEF Near, Goto, FrameFields
  <2> HIDE DEF g
  <2>4. Goes(g, 0, job) /\ OnlyMark(g, "header_value")
    BY Zenon, <1>2, <2>2, <2>3, Moves DEF OnlyMark, Goes, Known
  <2>5. CASE ch = "\r"
    <3> DEFINE d == CALLBACK_DATA(g, "header_value")
               r == COUNT_HEADER_SIZE(d, d.p - start)
    <3>1. Over(d, job) \/ (Like(g, d) /\ Goes(d, 0, job) /\ Marked(d))
      BY Zenon, <1>2, <2>4, FlushFine
    <3>2. ch # "\n"
      BY <2>5
    <3>3. ValueEnd(f, start) = IF Running(d) THEN r ELSE d
      BY Zenon, <1>4, <2>5, <3>2 DEF ValueEnd, Then, g
    <3> HIDE DEF d
    <3>4. Like(g, d) /\ Goes(d, 0, job) /\ Marked(d) => Out(r, job)
      BY Zenon, <1>2, <2>3, CountOut DEF Like
    <3> HIDE DEF r
    <3>5. QED
      BY Zenon, <3>1, <3>3, <3>4, OverStops, GoesRuns DEF Out
  <2>6. CASE ch = "\n"
    <3> DEFINE n == f.p - start
               r == COUNT_HEADER_SIZE(g, n)
               d == CALLBACK_DATA_NOADVANCE(r, "header_value")
               e == LiteralState(d, ch)
    <3> HIDE DEF n
    <3>1. Over(r, job) \/ (Near(g, r) /\ r.mark = g.mark /\ r.st = g.st /\ Goes(r, 0, job))
      <4>1. g.st # "s_chunk_size_start" /\ Goes(g, 0, job)
        BY Zenon, <1>2, <2>3, <2>4
      <4>2. QED
        BY Zenon, <4>1, CountFine
    <3>2. ch # "\r"
      BY <2>6
    <3>3. ValueEnd(f, start) = Then(Then(r, LAMBDA x : CALLBACK_DATA_NOADVANCE(x, "header_value")), LAMBDA x : LiteralState(x, ch))
      BY Zenon, <1>4, <2>6, <3>2 DEF ValueEnd, g, n
    <3> HIDE DEF r
    <3>4. CASE Over(r, job)
      <4>1. Then(r, LAMBDA x : CALLBACK_DATA_NOADVANCE(x, "header_value")) = r
        BY Zenon, <3>4, OverStops DEF Then
      <4>2. QED
        BY Zenon, <3>3, <3>4, <4>1, OverStops DEF Then, Out
    <3>5. CASE Near(g, r) /\ r.mark = g.mark /\ r.st = g.st /\ Goes(r, 0, job)
      <4>1. Then(r, LAMBDA x : CALLBACK_DATA_NOADVANCE(x, "header_value")) = d
        BY Zenon, <3>5, GoesRuns DEF Then
      <4>2. Over(d, job) \/ (Like(r, d) /\ Goes(d, 0, job) /\ Marked(d))
        BY Zenon, <1>2, <2>4, <3>5, FlushFine DEF OnlyMark
      <4> HIDE DEF d
      <4>3. CASE Over(d, job)
        BY Zenon, <3>3, <4>1, <4>3, OverStops DEF Then, Out
      <4>4. CASE Like(r, d) /\ Goes(d, 0, job) /\ Marked(d)
        <5>1. In(d, job) /\ d.st \in LiteralStates
          BY Zenon, <1>2, <2>3, <3>5, <4>4, StillIn DEF Like
        <5>2. Out(LiteralState(d, ch), job) /\ Running(d)
          BY Zenon, <4>4, <5>1, LiteralFine, LiteralTable, GoesRuns
        <5>3. QED
          BY Zenon, <3>3, <4>1, <5>2 DEF Then
      <4>5. QED
        BY Zenon, <4>2, <4>3, <4>4
    <3>6. QED
      BY Zenon, <3>1, <3>4, <3>5
  <2>7. CASE ch # "\r" /\ ch # "\n"
    <3>1. Over(Error(f, "HPE_INVALID_HEADER_TOKEN"), job)
      BY <2>2, ErrorFine
    <3>2. QED
      BY Zenon, <1>4, <2>7, <3>1 DEF ValueEnd, Out
  <2>8. QED
    BY Zenon, <2>5, <2>6, <2>7
<1>5. QED
  BY Zenon, <1>3, <1>4

(* s_header_value *)
LEMMA ValueFine == ASSUME NEW job, NEW f, In(f, job), f.st = "s_header_value", max_header_size \in Nat PROVE Out(ValueLoop(f), job)
<1> DEFINE n == (Len(f.data) - f.p) \div 16 + 1
           v == ValueTurns(f, n)
<1>1. ValueRuns(f, job)
  BY InRuns
<1>2. n \in Nat
  BY DEF In, Goes, Whole
<1> HIDE DEF n
<1>3. ValueOut(v, job)
  BY Zenon, <1>1, <1>2, ValueTurnsFine DEF ValueOut
<1>4. ValueLoop(f) = IF Running(v) THEN ValueEnd(v, f.p) ELSE v
  BY Zenon DEF ValueLoop, Then, n
<1> HIDE DEF v
<1>5. ValueRuns(v, job) => Running(v)
  BY Zenon DEF ValueRuns, Running
<1>6. QED
  BY Zenon, <1>3, <1>4, <1>5, ValueEndFine, OverStops DEF ValueOut, Out

---------------------------------------------------------------------------
(* The rest of the headers. *)
LEMMA ValueBegins ==
  ASSUME NEW job, NEW f, In(f, job), f.st \in QuietStates, NEW g, Near(f, g), g.mark = MARK(f, "header_value").mark,
         g.st = "s_header_value", g.content_length \in 0..ULLONG_MAX, g.hs \notin {"h_connection", "h_transfer_encoding"}
  PROVE  Goes(g, 0, job) /\ Out(g, job)
<1>1. Goes(g, 0, job)
  BY DEF In, Goes, Near, Whole, Known, States, ChunkStates
<1>2. "header_value" \in DataCallbacks /\ f.p \in Nat
  BY DEF DataCallbacks, In, Goes, Whole
<1>3. g.mark = [f.mark EXCEPT !["header_value"] = IF @ = 0 THEN f.p ELSE @]
  <2>1. DOMAIN f = FrameFields /\ f.mark \in [DataCallbacks -> Nat]
    BY Zenon, InFacts DEF In, Marked
  <2>2. QED
    BY <1>2, <2>1, MarkEffect
<1>4. OnlyMark(f, "header_value")
  BY Zenon, <1>2, OnlyOneMark DEF In
<1>5. OnlyMark(g, "header_value")
  BY <1>2, <1>3, <1>4 DEF OnlyMark
<1>6. Marked(g)
  BY <1>2, <1>5, OnlyMarkMarked
<1>7. QED
  BY Zenon, <1>1, <1>6 DEF Out

(* s_header_value_start: the first byte says how the value is read. *)
LEMMA ValueStartFine == ASSUME NEW job, NEW f, In(f, job), f.st \in QuietStates, NEW ch PROVE Out(ValueStart(f, ch), job)
<1> DEFINE c == LOWER(ch)
           m == MARK(f, "header_value")
           g == [MARK(f, "header_value") EXCEPT !.st = "s_header_value", !.index = 0]
           bad == {"h_connection", "h_transfer_encoding"}
<1> HIDE DEF c
<1>1. Near(f, m) /\ m.content_length = f.content_length /\ m.hs = f.hs
  <2>1. "header_value" \in DataCallbacks /\ f.p \in Nat
    BY DEF DataCallbacks, In, Goes, Whole
  <2>2. QED
    BY Zenon, <2>1, InFacts, MarkEffect DEF In, Marked, Like
<1>2. g = [m EXCEPT !.st = "s_header_value", !.index = 0]
  BY Zenon
<1> HIDE DEF m, g
<1>3. Near(f, g) /\ g.mark = m.mark /\ g.st = "s_header_value" /\ g.content_length = f.content_length /\ g.hs = f.hs
  BY <1>1, <1>2 DEF Near, FrameFields
<1>4. f.content_length \in 0..ULLONG_MAX
  BY InFacts
<1>5. ASSUME NEW h, h \notin bad PROVE Out([g EXCEPT !.hs = h], job)
  <2> DEFINE x == [g EXCEPT !.hs = h]
  <2>1. Near(f, x) /\ x.mark = m.mark /\ x.st = "s_header_value" /\ x.content_length = f.content_length /\ x.hs = h
    BY <1>3 DEF Near, FrameFields
  <2> HIDE DEF x
  <2>2. Out(x, job)
    BY Zenon, <1>4, <1>5, <2>1, ValueBegins DEF m
  <2>3. QED
    BY Zenon, <2>2 DEF x
<1>6. Out([g EXCEPT !.flags = @ \cup {"F_UPGRADE"}, !.hs = "h_general"], job)
  <2> DEFINE x == [g EXCEPT !.flags = @ \cup {"F_UPGRADE"}, !.hs = "h_general"]
  <2>1. Near(f, x) /\ x.mark = m.mark /\ x.st = "s_header_value" /\ x.content_length = f.content_length /\ x.hs \notin bad
    BY <1>3 DEF Near, FrameFields
  <2> HIDE DEF x
  <2>2. Out(x, job)
    BY Zenon, <1>4, <2>1, ValueBegins DEF m
  <2>3. QED
    BY Zenon, <2>2 DEF x
<1>7. ASSUME NEW e, e \notin {"HPE_OK", "HPE_PAUSED"} PROVE f.hs = "h_content_length" => Out(Error(g, e), job)
  <2> SUFFICES ASSUME f.hs = "h_content_length" PROVE Out(Error(g, e), job)
    OBVIOUS
  <2>1. g.hs \notin bad
    BY <1>3
  <2>2. Goes(g, 0, job)
    BY Zenon, <1>3, <1>4, <2>1, ValueBegins DEF m
  <2>3. QED
    BY Zenon, <1>7, <2>2, ErrorFine DEF Out
<1>8. ch \in NUM => Out([g EXCEPT !.flags = @ \cup {"F_CONTENTLENGTH"}, !.content_length = DigitVal(ch), !.hs = "h_content_length_num"], job)
  <2> SUFFICES ASSUME ch \in NUM
               PROVE  Out([g EXCEPT !.flags = @ \cup {"F_CONTENTLENGTH"}, !.content_length = DigitVal(ch), !.hs = "h_content_length_num"], job)
    OBVIOUS
  <2> DEFINE v == DigitVal(ch)
             x == [g EXCEPT !.flags = @ \cup {"F_CONTENTLENGTH"}, !.content_length = v, !.hs = "h_content_length_num"]
  <2>1. v \in 0..9
    BY Zenon, DigitAssumption
  <2> HIDE DEF v
  <2>2. Near(f, x) /\ x.mark = m.mark /\ x.st = "s_header_value" /\ x.content_length = v /\ x.hs \notin bad
    BY <1>3 DEF Near, FrameFields
  <2>3. v \in 0..ULLONG_MAX
    BY <2>1, ULLONG_MAXAssumption
  <2> HIDE DEF x
  <2>4. Out(x, job)
    BY Zenon, <2>2, <2>3, ValueBegins DEF m
  <2>5. QED
    BY Zenon, <2>4 DEF x, v
<1>9. f.hs \notin bad => Out(g, job)
  BY Zenon, <1>3, <1>4, ValueBegins DEF m
<1>10. ConnectionWord(c, "h_matching_connection_token") \notin bad
  BY DEF ConnectionWord
<1>11. QED
  <2> DEFINE t == IF c = "c" THEN "h_matching_transfer_encoding_chunked" ELSE "h_matching_transfer_encoding_token"
             w == ConnectionWord(c, "h_matching_connection_token")
             g1 == [g EXCEPT !.flags = @ \cup {"F_UPGRADE"}, !.hs = "h_general"]
             g2 == [g EXCEPT !.hs = t]
             g3 == [g EXCEPT !.flags = @ \cup {"F_CONTENTLENGTH"}, !.content_length = DigitVal(ch), !.hs = "h_content_length_num"]
             g4 == [g EXCEPT !.hs = w]
             g5 == [g EXCEPT !.hs = "h_general"]
             e1 == Error(g, "HPE_INVALID_CONTENT_LENGTH")
             e2 == Error(g, "HPE_UNEXPECTED_CONTENT_LENGTH")
  <2>1. t \notin bad /\ "h_general" \notin bad
    OBVIOUS
  <2>2. Out(g1, job) /\ Out(g2, job) /\ (ch \in NUM => Out(g3, job)) /\ Out(g4, job) /\ Out(g5, job)
    BY Zenon, <1>5, <1>6, <1>8, <1>10, <2>1
  <2>3. f.hs = "h_content_length" => Out(e1, job) /\ Out(e2, job)
    BY <1>7
  <2>4. ValueStart(f, ch) =
          CASE f.hs = "h_upgrade" -> g1
            [] f.hs = "h_transfer_encoding" -> g2
            [] f.hs = "h_content_length" ->
                 IF ch \notin NUM THEN e1 ELSE IF "F_CONTENTLENGTH" \in f.flags THEN e2 ELSE g3
            [] f.hs = "h_connection" -> g4
            [] f.hs \in {"h_matching_transfer_encoding_token_start", "h_content_length_ws", "h_matching_connection_token_start"} -> g
            [] OTHER -> g5
    BY Zenon DEF ValueStart, g, c
  <2> HIDE DEF g1, g2, g3, g4, g5, e1, e2
  <2>5. QED
    BY <1>9, <2>2, <2>3, <2>4

(* s_header_value_discard_ws *)
LEMMA DiscardWsFine == ASSUME NEW job, NEW f, In(f, job), f.st = "s_header_value_discard_ws", NEW ch PROVE Out(DiscardWs(f, ch), job)
<1>1. /\ f.st \in QuietStates /\ f.st # "s_chunk_size_start"
      /\ "s_header_value_discard_ws_almost_done" \in QuietStates /\ "s_header_value_discard_lws" \in QuietStates
  BY DEF QuietStates, LiteralStates
<1>2. Out(Goto(f, "s_header_value_discard_ws_almost_done"), job) /\ Out(Goto(f, "s_header_value_discard_lws"), job)
  BY Zenon, <1>1, GotoFine
<1>3. Out(f, job) /\ Out(ValueStart(f, ch), job)
  BY Zenon, <1>1, StayFine, ValueStartFine
<1>4. QED
  BY <1>2, <1>3 DEF DiscardWs

(* The end of a message: the state is one of between messages. *)
LEMMA NewMessageFine ==
  ASSUME NEW job, NEW f, NEW c, Goes(f, c, job), f.mark = NoMarks
  PROVE  Goes(NEW_MESSAGE(f), 0, job) /\ Marked(NEW_MESSAGE(f)) /\ NEW_MESSAGE(f).st \in QuietStates
<1> DEFINE s == IF http_should_keep_alive(f) THEN IF f.type = "REQUEST" THEN "s_start_req" ELSE "s_start_res" ELSE "s_dead"
           g == Goto(f, s)
<1>1. s \in {"s_start_req", "s_start_res", "s_dead"}
  BY Zenon
<1> HIDE DEF s
<1>2. s \in QuietStates /\ s \in PlainStates
  BY <1>1 DEF PlainStates, QuietStates
<1>3. Near(f, g) /\ g.mark = f.mark /\ g.st = s /\ g.content_length = f.content_length
  BY DEF Near, Goto, FrameFields, Goes, Whole
<1> HIDE DEF g
<1>4. Goes(g, 0, job) /\ Marked(g)
  <2>1. g.content_length \in 0..ULLONG_MAX
    BY <1>3 DEF Goes, Known
  <2>2. QED
    BY Zenon, <1>2, <1>3, <2>1, Moves, NothingMarked
<1>5. QED
  BY Zenon, <1>2, <1>3, <1>4 DEF NEW_MESSAGE, g, s

(* on_message_complete *)
LEMMA CompleteFine ==
  ASSUME NEW job, NEW f, NEW c, Goes(f, c, job), f.mark = NoMarks
  PROVE  Out(CALLBACK_NOTIFY(NEW_MESSAGE(f), "message_complete"), job)
  BY Zenon, NewMessageFine, NotifyFine

LEMMA ReturnFine == ASSUME NEW job, NEW f, Goes(f, 0, job) PROVE Over(RETURN(f, f.p), job)
<1> DEFINE g == RETURN(f, f.p)
<1>1. /\ DOMAIN g = FrameFields /\ g.data = f.data /\ g.failed = f.failed /\ g.ret = f.p /\ g.errno = f.errno /\ g.st = f.st
      /\ g.saved = f.nread /\ g.flags = f.flags /\ g.hs = f.hs /\ g.content_length = f.content_length
  BY DEF RETURN, FrameFields, Goes, Whole
<1> HIDE DEF g
<1>2. Over(g, job)
  BY <1>1 DEF Over, Goes, Whole, Known
<1>3. QED
  BY Zenon, <1>2 DEF g

(* s_message_done *)
LEMMA MessageDoneFine ==
  ASSUME NEW job, NEW f, NEW c, Goes(f, c, job), f.mark = NoMarks
  PROVE  Out(MessageDone(f), job)
<1> DEFINE d == CALLBACK_NOTIFY(NEW_MESSAGE(f), "message_complete")
<1>1. Out(d, job)
  BY Zenon, CompleteFine
<1>2. MessageDone(f) = d \/ (Running(d) /\ MessageDone(f) = RETURN(d, d.p))
  BY Zenon DEF MessageDone, Then
<1> HIDE DEF d
<1>3. QED
  BY Zenon, <1>1, <1>2, ReturnFine, OverStops DEF Out

(* s_headers_done: which body follows. *)
LEMMA HeadersDoneFine == ASSUME NEW job, NEW f, In(f, job), f.st = "s_headers_done", NEW ch PROVE Out(HeadersDone(f, ch), job)
<1> DEFINE g == [f EXCEPT !.nread = 0, !.saved = 0]
           d == CALLBACK_NOTIFY(NEW_MESSAGE(g), "message_complete")
           t == Then(d, LAMBDA x : RETURN(x, x.p))
           hasBody == "F_CHUNKED" \in f.flags \/ f.content_length \notin {0, ULLONG_MAX}
           skip == "F_SKIPBODY" \in f.flags
<1>1. f.st \in QuietStates
  BY DEF QuietStates
<1>2. /\ Near(f, g) /\ g.mark = f.mark /\ g.st = f.st /\ g.content_length = f.content_length
      /\ g.flags = f.flags /\ g.nread = 0 /\ g.saved = 0
  BY InFacts DEF Near, FrameFields
<1> HIDE DEF g
<1>3. Goes(g, 0, job) /\ Marked(g) /\ g.mark = NoMarks
  BY Zenon, <1>1, <1>2, InFacts, QuietMove, QuietUnmarked
<1>4. Out(d, job)
  BY Zenon, <1>3, CompleteFine
<1> HIDE DEF d
<1>5. Out(t, job)
  BY Zenon, <1>4, ReturnFine, OverStops, GoesRuns DEF Then, Out
<1> HIDE DEF t
<1>6. Out(Error(f, STRICT), job) /\ Out(Error(g, "HPE_INVALID_TRANSFER_ENCODING"), job)
  BY <1>3, InError, ErrorFine DEF STRICT, Out
<1>7. Out(Goto(g, "s_body_identity_eof"), job)
  <2> DEFINE h == Goto(g, "s_body_identity_eof")
  <2>1. Near(g, h) /\ h.mark = g.mark /\ h.st = "s_body_identity_eof" /\ h.content_length = g.content_length
    BY <1>2 DEF Near, FrameFields, Goto
  <2>2. "s_body_identity_eof" \in PlainStates
    BY DEF PlainStates
  <2> HIDE DEF h
  <2>3. Goes(h, 0, job) /\ Marked(h)
    BY Zenon, <1>2, <1>3, <2>1, <2>2, InFacts, Moves, NothingMarked
  <2>4. QED
    BY Zenon, <2>3 DEF Out, h
<1>8. "F_CHUNKED" \in f.flags => Out(Goto(g, "s_chunk_size_start"), job)
  <2> SUFFICES ASSUME "F_CHUNKED" \in f.flags PROVE Out(Goto(g, "s_chunk_size_start"), job)
    OBVIOUS
  <2> DEFINE h == Goto(g, "s_chunk_size_start")
  <2>1. /\ Near(g, h) /\ h.mark = g.mark /\ h.st = "s_chunk_size_start" /\ h.content_length = g.content_length
        /\ h.flags = g.flags /\ h.nread = 0 /\ h.saved = 0
    BY <1>2 DEF Near, FrameFields, Goto
  <2> HIDE DEF h
  <2>2. Goes(h, 0, job)
    BY <1>2, <1>3, <2>1 DEF Goes, Near, Whole, Known, States, ChunkStates
  <2>3. Marked(h)
    BY Zenon, <1>3, <2>1, NothingMarked
  <2>4. QED
    BY Zenon, <2>2, <2>3 DEF Out, h
<1>9. f.content_length # 0 /\ f.content_length # ULLONG_MAX => Out(Goto(g, "s_body_identity"), job)
  <2> SUFFICES ASSUME f.content_length # 0 /\ f.content_length # ULLONG_MAX PROVE Out(Goto(g, "s_body_identity"), job)
    OBVIOUS
  <2> DEFINE h == Goto(g, "s_body_identity")
  <2>1. Near(g, h) /\ h.mark = g.mark /\ h.st = "s_body_identity" /\ h.content_length = g.content_length
    BY <1>2 DEF Near, FrameFields, Goto
  <2> HIDE DEF h
  <2>2. Goes(h, 0, job)
    BY <1>2, <1>3, <2>1 DEF Goes, Near, Whole, Known, States, ChunkStates, BodyStates
  <2>3. Marked(h)
    BY Zenon, <1>3, <2>1, NothingMarked
  <2>4. QED
    BY Zenon, <2>2, <2>3 DEF Out, h
<1>10. HeadersDone(f, ch) =
         IF ch # "\n" THEN Error(f, STRICT)
         ELSE IF f.upgrade /\ (f.method = "CONNECT" \/ skip \/ ~hasBody) THEN t
         ELSE IF skip THEN d
         ELSE IF "F_CHUNKED" \in f.flags THEN Goto(g, "s_chunk_size_start")
         ELSE IF f.te THEN IF f.type = "REQUEST" /\ ~f.lenient THEN Error(g, "HPE_INVALID_TRANSFER_ENCODING")
                           ELSE Goto(g, "s_body_identity_eof")
         ELSE IF f.content_length = 0 THEN d
         ELSE IF f.content_length # ULLONG_MAX THEN Goto(g, "s_body_identity")
         ELSE IF http_message_needs_eof(f) THEN Goto(g, "s_body_identity_eof") ELSE d
  BY Zenon DEF HeadersDone, d, g, t
<1>11. QED
  BY Zenon, <1>4, <1>5, <1>6, <1>7, <1>8, <1>9, <1>10

Stays(f, g) == DOMAIN g = FrameFields /\ g.st = f.st /\ g.p = f.p

LEMMA CallbackStays ==
  ASSUME NEW f, DOMAIN f = FrameFields, f.errno = "HPE_OK", NEW cb, NEW data, NEW used
  PROVE  Stays(f, Callback(f, cb, data, used))
<1> DEFINE g == Callback(f, cb, data, used)
           l == Logged(f.log, [cb |-> cb, data |-> data, n |-> IF cb = "chunk_header" THEN f.content_length ELSE 0])
           t == f.turn - 1
           e == "HPE_CB_" \o cb
           g1 == [f EXCEPT !.log = l, !.turn = t]
           g2 == [f EXCEPT !.log = l, !.turn = t, !.errno = "HPE_PAUSED", !.ret = used]
           g3 == [f EXCEPT !.log = l, !.turn = t, !.errno = e, !.ret = used, !.saved = f.nread]
<1>1. g = g1 \/ g = g2 \/ g = g3
  <2>1. Check(f, "errno is OK at a callback", f.errno = "HPE_OK") = f
    BY Zenon DEF Check
  <2>2. QED
    BY Zenon, <2>1 DEF Callback
<1> HIDE DEF l, e, t, g
<1>2. Stays(f, g1)
  BY DEF Stays, FrameFields
<1>3. Stays(f, g2)
  BY DEF Stays, FrameFields
<1>4. Stays(f, g3)
  BY DEF Stays, FrameFields
<1> HIDE DEF g1, g2, g3
<1>5. QED
  BY Zenon, <1>1, <1>2, <1>3, <1>4 DEF g

(* on_headers_complete, and what it returns. *)
LEMMA HeadersCompleteFine ==
  ASSUME NEW job, NEW f, In(f, job), f.st = "s_headers_done"
  PROVE  Over(HeadersComplete(f), job) \/ (In(HeadersComplete(f), job) /\ HeadersComplete(f).st = "s_headers_done")
<1> DEFINE g == Callback(f, "headers_complete", "", f.p - 1)
           fine == g.errno \in {"HPE_OK", "HPE_PAUSED"}
           s == IF Running(g) THEN g.saved ELSE f.nread
           u == g.upgrade \/ (f.hc = 2 /\ fine)
           fl == IF f.hc = 0 \/ ~fine THEN g.flags ELSE g.flags \cup {"F_SKIPBODY"}
           r == [g EXCEPT !.saved = s, !.upgrade = u, !.flags = fl]
<1>1. f.st \in QuietStates /\ f.p - 1 \in 0..Len(f.data) /\ f.errno = "HPE_OK" /\ Goes(f, 0, job)
  BY StayFine DEF QuietStates, In, Goes, Whole
<1>2. (Like(f, g) /\ g.mark = f.mark) \/ Over(g, job)
  BY Zenon, <1>1, CallbackFine, GoesLive
<1>3. DOMAIN g = FrameFields /\ g.st = f.st
  <2>1. DOMAIN f = FrameFields
    BY Zenon, InFacts
  <2>2. Stays(f, g)
    BY Zenon, <1>1, <2>1, CallbackStays
  <2> HIDE DEF g
  <2>3. QED
    BY Zenon, <2>2 DEF Stays
<1>4. HeadersComplete(f) = r
  BY Zenon DEF HeadersComplete
<1> HIDE DEF g, s, u, fl
<1>5. /\ DOMAIN r = FrameFields /\ r.data = g.data /\ r.p = g.p /\ r.ret = g.ret /\ r.errno = g.errno /\ r.failed = g.failed
      /\ r.mark = g.mark /\ r.st = g.st /\ r.content_length = g.content_length /\ r.hs = g.hs
  BY <1>3 DEF FrameFields
<1> HIDE DEF r
<1>6. CASE Like(f, g) /\ g.mark = f.mark
  <2>1. Near(f, r) /\ r.mark = f.mark /\ r.st = f.st /\ r.content_length = f.content_length
    BY Zenon, <1>5, <1>6 DEF Like, Near
  <2>2. In(r, job)
    BY Zenon, <1>1, <2>1, InFacts, QuietMove
  <2>3. QED
    BY Zenon, <1>4, <2>1, <2>2
<1>7. CASE Over(g, job)
  <2>1. r.st = "s_headers_done" /\ "s_headers_done" \notin ChunkStates
    BY <1>3, <1>5 DEF ChunkStates
  <2>2. Over(r, job)
    BY <1>5, <1>7, <2>1 DEF Over, Whole, Known
  <2>3. QED
    BY Zenon, <1>4, <2>2
<1>8. QED
  BY Zenon, <1>2, <1>6, <1>7

(* s_headers_almost_done *)
LEMMA HeadersAlmostDoneFine ==
  ASSUME NEW job, NEW f, In(f, job), f.st = "s_headers_almost_done", NEW ch
  PROVE  Out(HeadersAlmostDone(f, ch), job)
<1> DEFINE m == Goto(f, "s_message_done")
           d == CALLBACK_NOTIFY_NOADVANCE(m, "chunk_complete")
           v == IF {"F_UPGRADE", "F_CONNECTION_UPGRADE"} \subseteq f.flags
                THEN f.type = "REQUEST" \/ f.code = 101 ELSE f.method = "CONNECT"
           g == [f EXCEPT !.st = "s_headers_done", !.upgrade = v]
           h == HeadersComplete(g)
           e == Then(h, LAMBDA x : HeadersDone(x, ch))
<1>1. f.st \in QuietStates /\ "s_message_done" \in QuietStates /\ "s_headers_done" \in QuietStates
  BY DEF QuietStates
<1>2. Goes(m, 0, job) /\ Marked(m) /\ m.st = "s_message_done" /\ DOMAIN m = FrameFields /\ m.errno = "HPE_OK"
  <2>1. In(m, job) /\ m.st = "s_message_done"
    BY Zenon, <1>1, GotoFine
  <2> HIDE DEF m
  <2>2. QED
    BY <2>1, StayFine DEF In, Goes, Whole
<1> HIDE DEF m
<1>3. Out(d, job) /\ d.st = "s_message_done"
  <2>1. Out(d, job)
    BY Zenon, <1>2, NotifyFine
  <2>2. Stays(m, d)
    BY Zenon, <1>2, CallbackStays DEF CALLBACK_NOTIFY_NOADVANCE
  <2> HIDE DEF d
  <2>3. QED
    BY Zenon, <1>2, <2>1, <2>2 DEF Stays
<1> HIDE DEF d
<1>4. Out(Then(d, MessageDone), job)
  <2>1. CASE Over(d, job)
    BY Zenon, <2>1, OverStops DEF Then, Out
  <2>2. CASE Goes(d, 0, job) /\ Marked(d)
    <3>1. d.mark = NoMarks
      BY Zenon, <1>1, <1>3, <2>2, QuietUnmarked
    <3>2. Out(MessageDone(d), job) /\ Running(d)
      BY Zenon, <2>2, <3>1, MessageDoneFine, GoesRuns
    <3>3. QED
      BY Zenon, <3>2 DEF Then
  <2>3. QED
    BY Zenon, <1>3, <2>1, <2>2 DEF Out
<1> HIDE DEF v
<1>5. Near(f, g) /\ g.mark = f.mark /\ g.st = "s_headers_done" /\ g.content_length = f.content_length
  BY InFacts DEF Near, FrameFields
<1> HIDE DEF g
<1>6. In(g, job)
  BY Zenon, <1>1, <1>5, InFacts, QuietMove
<1>7. Over(h, job) \/ (In(h, job) /\ h.st = "s_headers_done")
  BY Zenon, <1>5, <1>6, HeadersCompleteFine
<1> HIDE DEF h
<1>8. Out(e, job)
  BY Zenon, <1>7, HeadersDoneFine, OverStops, InFacts DEF Then, Out
<1> HIDE DEF e
<1>9. Out(Error(f, STRICT), job) /\ Out(Error(f, "HPE_UNEXPECTED_CONTENT_LENGTH"), job)
  BY InError DEF STRICT
<1>10. HeadersAlmostDone(f, ch) =
         IF ch # "\n" THEN Error(f, STRICT)
         ELSE IF "F_TRAILING" \in f.flags THEN Then(d, MessageDone)
         ELSE IF f.te /\ "F_CONTENTLENGTH" \in f.flags /\ (~f.lenient \/ "F_CHUNKED" \in f.flags)
         THEN Error(f, "HPE_UNEXPECTED_CONTENT_LENGTH") ELSE e
  BY Zenon DEF HeadersAlmostDone, d, m, e, h, g, v
<1>11. QED
  BY Zenon, <1>4, <1>8, <1>9, <1>10

(* s_header_field_start *)
LEMMA HeaderFieldStartFine ==
  ASSUME NEW job, NEW f, In(f, job), f.st = "s_header_field_start", NEW ch
  PROVE  Out(HeaderFieldStart(f, ch), job)
<1> DEFINE a == Goto(f, "s_headers_almost_done")
           m == MARK(f, "header_field")
           hs == CASE TOKEN(ch) = "c" -> "h_C"
                   [] TOKEN(ch) = "p" -> "h_matching_proxy_connection"
                   [] TOKEN(ch) = "t" -> "h_matching_transfer_encoding"
                   [] TOKEN(ch) = "u" -> "h_matching_upgrade"
                   [] OTHER -> "h_general"
           g == [m EXCEPT !.index = 0, !.st = "s_header_field", !.hs = hs]
<1>1. f.st \in QuietStates /\ "s_headers_almost_done" \in QuietStates
  BY DEF QuietStates
<1>2. Out(a, job) /\ In(a, job) /\ a.st = "s_headers_almost_done"
  BY Zenon, <1>1, GotoFine
<1> HIDE DEF a
<1>3. Out(HeadersAlmostDone(a, ch), job)
  BY Zenon, <1>2, HeadersAlmostDoneFine
<1>4. Out(Error(f, "HPE_INVALID_HEADER_TOKEN"), job)
  BY InError
<1>5. Out(g, job)
  <2>1. "header_field" \in DataCallbacks /\ f.p \in Nat
    BY DEF DataCallbacks, In, Goes, Whole
  <2>2. DOMAIN f = FrameFields /\ f.mark \in [DataCallbacks -> Nat]
    BY Zenon, InFacts DEF In, Marked
  <2>3. Like(f, m) /\ m.mark = [f.mark EXCEPT !["header_field"] = IF @ = 0 THEN f.p ELSE @]
    BY <2>1, <2>2, MarkEffect
  <2>0. hs \in FieldStates
    <3> DEFINE c == TOKEN(ch)
    <3> HIDE DEF c
    <3>1. hs \in {"h_C", "h_matching_proxy_connection", "h_matching_transfer_encoding", "h_matching_upgrade", "h_general"}
      BY DEF c
    <3> HIDE DEF hs
    <3>2. QED
      BY <3>1 DEF FieldStates
  <2> HIDE DEF m, hs
  <2>4. /\ Near(f, g) /\ g.mark = m.mark /\ g.st = "s_header_field" /\ g.content_length = f.content_length
        /\ g.hs = hs
    BY <2>3 DEF Like, Near, FrameFields
  <2> HIDE DEF g
  <2>5. OnlyMark(f, "header_field")
    BY Zenon, <1>1, <2>1, OnlyOneMark DEF In
  <2>6. OnlyMark(g, "header_field")
    BY <2>1, <2>3, <2>4, <2>5 DEF OnlyMark
  <2>7. Marked(g)
    BY <2>1, <2>4, <2>6, OnlyMarkMarked
  <2>8. Goes(g, 0, job)
    BY <2>0, <2>4 DEF In, Near, Goes, Whole, Known, States, ChunkStates
  <2>9. QED
    BY Zenon, <2>7, <2>8 DEF Out
<1> HIDE DEF g
<1>6. HeaderFieldStart(f, ch) = CASE ch = "\r" -> a
                                  [] ch = "\n" -> HeadersAlmostDone(a, ch)
                                  [] OTHER -> IF TOKEN(ch) = "" THEN Error(f, "HPE_INVALID_HEADER_TOKEN") ELSE g
  BY Zenon DEF HeaderFieldStart, a, g, m, hs
<1>7. QED
  BY Zenon, <1>2, <1>3, <1>4, <1>5, <1>6

(* s_header_value_lws *)
LEMMA ValueLwsFine == ASSUME NEW job, NEW f, In(f, job), f.st = "s_header_value_lws", NEW ch PROVE Out(ValueLws(f, ch), job)
<1> DEFINE hs == IF f.hs = "h_content_length_num" THEN "h_content_length_ws" ELSE f.hs
           g == [f EXCEPT !.hs = hs]
           r == Recognised(f)
           h == Goto(r, "s_header_field_start")
<1>1. f.st \in QuietStates /\ "s_header_field_start" \in QuietStates
  BY DEF QuietStates
<1> HIDE DEF hs
<1>2. Near(f, g) /\ g.mark = f.mark /\ g.st = f.st /\ g.content_length = f.content_length
  BY InFacts DEF Near, FrameFields
<1> HIDE DEF g
<1>3. In(g, job) /\ g.st \in QuietStates
  BY Zenon, <1>1, <1>2, InFacts, QuietMove
<1>4. Out(ValueStart(g, ch), job)
  BY Zenon, <1>3, ValueStartFine
<1>5. Near(f, r) /\ r.mark = f.mark /\ r.st = f.st /\ r.content_length = f.content_length
  BY Zenon, InFacts, RecognisedFine
<1> HIDE DEF r
<1>6. In(r, job) /\ r.st \in QuietStates
  BY Zenon, <1>1, <1>5, InFacts, QuietMove
<1>7. In(h, job) /\ h.st = "s_header_field_start"
  BY Zenon, <1>1, <1>6, GotoFine
<1> HIDE DEF h
<1>8. Out(HeaderFieldStart(h, ch), job)
  BY Zenon, <1>7, HeaderFieldStartFine
<1>9. QED
  BY Zenon, <1>4, <1>8 DEF ValueLws, g, h, r, hs

(* s_header_value_discard_lws *)
LEMMA DiscardLwsFine == ASSUME NEW job, NEW f, In(f, job), f.st = "s_header_value_discard_lws", NEW ch PROVE Out(DiscardLws(f, ch), job)
<1> DEFINE r == Recognised(f)
           m == MARK(r, "header_value")
           h == Goto(m, "s_header_field_start")
           d == CALLBACK_DATA_NOADVANCE(h, "header_value")
           e == Then(d, LAMBDA x : HeaderFieldStart(x, ch))
<1>1. /\ f.st \in QuietStates /\ "s_header_value_discard_ws" \in QuietStates /\ "s_header_field_start" \in PlainStates
      /\ "s_header_field_start" # "s_chunk_size_start"
  BY DEF QuietStates, PlainStates
<1>2. Out(Goto(f, "s_header_value_discard_ws"), job)
  BY Zenon, <1>1, GotoFine
<1>3. Out(Error(f, "HPE_INVALID_CONTENT_LENGTH"), job)
  BY InError
<1>4. Out(e, job)
  <2>1. Near(f, r) /\ r.mark = f.mark /\ r.st = f.st /\ r.content_length = f.content_length
    BY Zenon, InFacts, RecognisedFine
  <2> HIDE DEF r
  <2>2. In(r, job) /\ r.st \in QuietStates
    BY Zenon, <1>1, <2>1, InFacts, QuietMove
  <2>3. "header_value" \in DataCallbacks /\ r.p \in Nat
    BY <2>2 DEF DataCallbacks, In, Goes, Whole
  <2>4. DOMAIN r = FrameFields /\ r.mark \in [DataCallbacks -> Nat]
    BY Zenon, <2>2, InFacts DEF In, Marked
  <2>5. Like(r, m) /\ m.mark = [r.mark EXCEPT !["header_value"] = IF @ = 0 THEN r.p ELSE @]
    BY <2>3, <2>4, MarkEffect
  <2>6. OnlyMark(r, "header_value")
    BY Zenon, <2>2, <2>3, OnlyOneMark DEF In
  <2> HIDE DEF m
  <2>7. Near(r, h) /\ h.mark = m.mark /\ h.st = "s_header_field_start" /\ h.content_length = r.content_length
    BY <2>5 DEF Like, Near, FrameFields, Goto
  <2> HIDE DEF h
  <2>8. OnlyMark(h, "header_value")
    BY <2>3, <2>5, <2>6, <2>7 DEF OnlyMark
  <2>9. Goes(h, 0, job)
    BY Zenon, <1>1, <2>2, <2>7, InFacts, Moves DEF In
  <2>10. Over(d, job) \/ (Like(h, d) /\ Goes(d, 0, job) /\ Marked(d))
    BY Zenon, <2>3, <2>8, <2>9, FlushFine
  <2> HIDE DEF d
  <2>11. CASE Over(d, job)
    BY Zenon, <2>11, OverStops DEF Then, Out
  <2>12. CASE Like(h, d) /\ Goes(d, 0, job) /\ Marked(d)
    <3>1. In(d, job) /\ d.st = "s_header_field_start"
      BY Zenon, <1>1, <2>7, <2>12, StillIn DEF Like
    <3>2. Out(HeaderFieldStart(d, ch), job) /\ Running(d)
      BY Zenon, <3>1, HeaderFieldStartFine, InFacts
    <3>3. QED
      BY Zenon, <3>2 DEF Then
  <2>13. QED
    BY Zenon, <2>10, <2>11, <2>12
<1> HIDE DEF e
<1>5. DiscardLws(f, ch) = CASE ch \in LWS -> Goto(f, "s_header_value_discard_ws")
                            [] ch \notin LWS /\ f.hs = "h_content_length" -> Error(f, "HPE_INVALID_CONTENT_LENGTH")
                            [] OTHER -> e
  BY Zenon DEF DiscardLws, e, d, h, m, r
<1>6. QED
  BY <1>2, <1>3, <1>4, <1>5
---------------------------------------------------------------------------
(* The body. *)
LEMMA BodyMark ==
  ASSUME NEW job, NEW f, In(f, job), f.st \in BodyStates
  PROVE  Like(f, MARK(f, "body")) /\ OnlyMark(MARK(f, "body"), "body")
<1> DEFINE m == MARK(f, "body")
<1>1. "body" \in DataCallbacks /\ f.p \in Nat
  BY DEF DataCallbacks, In, Goes, Whole
<1>2. DOMAIN f = FrameFields /\ f.mark \in [DataCallbacks -> Nat]
  BY Zenon, InFacts DEF In, Marked
<1>3. Like(f, m) /\ m.mark = [f.mark EXCEPT !["body"] = IF @ = 0 THEN f.p ELSE @]
  BY <1>1, <1>2, MarkEffect
<1>4. OnlyMark(f, "body")
  BY Zenon, OnlyOneMark DEF In
<1> HIDE DEF m
<1>5. OnlyMark(m, "body")
  BY <1>1, <1>3, <1>4 DEF OnlyMark
<1>6. QED
  BY Zenon, <1>3, <1>5 DEF m

(* Body bytes are taken up to the end of the call or of the body;          *)
(* content_length counts down.                                             *)
LEMMA TakeBodyFine ==
  ASSUME NEW job, NEW f, In(f, job), f.st \in {"s_body_identity", "s_chunk_data"}
  PROVE  LET g == TakeBody(f)
         IN /\ DOMAIN g = FrameFields /\ g.data = f.data /\ g.ret = f.ret /\ g.errno = f.errno /\ g.failed = f.failed
            /\ g.p \in f.p..Len(f.data) /\ g.st = f.st /\ g.flags = f.flags
            /\ g.content_length \in 0..ULLONG_MAX /\ g.content_length # ULLONG_MAX /\ OnlyMark(g, "body")
<1> DEFINE m == MARK(f, "body")
           left == Len(f.data) - f.p + 1
           to_read == IF f.content_length < left THEN f.content_length ELSE left
           q == f.p + to_read - 1
           n == f.content_length - to_read
           g == [m EXCEPT !.content_length = n, !.p = q]
<1>1. f.st \in BodyStates
  BY DEF BodyStates
<1>2. Like(f, m) /\ OnlyMark(m, "body")
  BY Zenon, <1>1, BodyMark
<1>3. /\ f.content_length \in 0..ULLONG_MAX /\ f.content_length # 0 /\ f.content_length # ULLONG_MAX
      /\ f.p \in 1..Len(f.data) /\ Len(f.data) \in Nat
  BY DEF In, Goes, Known, Whole
<1> HIDE DEF m
<1>4. q \in f.p..Len(f.data) /\ n \in 0..ULLONG_MAX /\ n # ULLONG_MAX
  <2>1. f.content_length \in Nat /\ left \in Nat /\ left >= 1 /\ f.content_length >= 1
    BY <1>3
  <2>2. to_read \in {f.content_length, left} /\ to_read <= f.content_length /\ to_read <= left
    BY <2>1
  <2> HIDE DEF to_read
  <2>3. to_read \in Nat /\ to_read >= 1
    BY <2>1, <2>2
  <2>4. q \in f.p..Len(f.data)
    BY <1>3, <2>2, <2>3
  <2>5. n \in 0..ULLONG_MAX /\ n # ULLONG_MAX
    BY <1>3, <2>1, <2>2, <2>3, ULLONG_MAXAssumption
  <2>6. QED
    BY <2>4, <2>5
<1>5. Check(m, "body length known", f.content_length \notin {0, ULLONG_MAX}) = m
  BY Zenon, <1>3 DEF Check
<1>6. m.content_length = f.content_length /\ m.p = f.p
  BY Zenon, <1>2 DEF Like, Near
<1>7. TakeBody(f) = g
  BY Zenon, <1>5, <1>6 DEF TakeBody, m
<1> HIDE DEF q, n
<1>8. /\ DOMAIN g = FrameFields /\ g.data = f.data /\ g.ret = f.ret /\ g.errno = f.errno /\ g.failed = f.failed
      /\ g.p = q /\ g.st = f.st /\ g.flags = f.flags /\ g.content_length = n /\ g.mark = m.mark
  BY <1>2 DEF Like, Near, FrameFields
<1> HIDE DEF g
<1>9. OnlyMark(g, "body")
  BY Zenon, <1>2, <1>8 DEF OnlyMark
<1>10. QED
  BY Zenon, <1>4, <1>7, <1>8, <1>9

(* s_body_identity, s_body_identity_eof and s_message_done. *)
LEMMA BodyFine ==
  ASSUME NEW job, NEW f, In(f, job), f.st \in {"s_body_identity", "s_body_identity_eof", "s_message_done"}
  PROVE  Out(BodyState(f), job)
<1>1. "body" \in DataCallbacks /\ Len(f.data) \in Nat /\ f.p \in 1..Len(f.data)
  BY DEF DataCallbacks, In, Goes, Whole
<1>2. CASE f.st = "s_body_identity_eof"
  <2> DEFINE m == MARK(f, "body")
             g == [m EXCEPT !.p = Len(f.data)]
  <2>1. f.st \in BodyStates /\ f.st \in PlainStates
    BY <1>2 DEF BodyStates, PlainStates
  <2>2. Like(f, m) /\ OnlyMark(m, "body")
    BY Zenon, <2>1, BodyMark
  <2>3. BodyState(f) = g
    BY <1>2 DEF BodyState
  <2> HIDE DEF m
  <2>4. /\ DOMAIN g = FrameFields /\ g.data = f.data /\ g.ret = f.ret /\ g.errno = f.errno /\ g.failed = f.failed
        /\ g.p = Len(f.data) /\ g.st = f.st /\ g.content_length = f.content_length /\ g.mark = m.mark
    BY <2>2 DEF Like, Near, FrameFields
  <2> HIDE DEF g
  <2>5. g.p \in f.p..Len(f.data)
    BY <1>1, <2>4
  <2>6. Goes(g, 0, job)
    BY Zenon, <2>1, <2>4, <2>5, InFacts, MovesOn DEF In
  <2>7. OnlyMark(g, "body")
    BY Zenon, <2>2, <2>4 DEF OnlyMark
  <2>8. Marked(g)
    BY <1>1, <2>1, <2>4, <2>7, OnlyMarkMarked
  <2>9. QED
    BY Zenon, <2>3, <2>6, <2>8 DEF Out
<1>3. CASE f.st = "s_message_done"
  <2>1. f.st \in QuietStates
    BY <1>3 DEF QuietStates
  <2>2. Out(MessageDone(f), job)
    BY Zenon, <2>1, QuietUnmarked, MessageDoneFine DEF In
  <2>3. BodyState(f) = MessageDone(f)
    BY <1>3 DEF BodyState
  <2>4. QED
    BY Zenon, <2>2, <2>3
<1>4. CASE f.st = "s_body_identity"
  <2> DEFINE g == TakeBody(f)
             h == Goto(g, "s_message_done")
             d == CALLBACK_DATA_(h, "body", g.p, g.p - 1)
  <2>1. /\ DOMAIN g = FrameFields /\ g.data = f.data /\ g.ret = f.ret /\ g.errno = f.errno /\ g.failed = f.failed
        /\ g.p \in f.p..Len(f.data) /\ g.st = f.st /\ g.flags = f.flags
        /\ g.content_length \in 0..ULLONG_MAX /\ g.content_length # ULLONG_MAX /\ OnlyMark(g, "body")
    BY <1>4, TakeBodyFine
  <2>2. BodyState(f) = IF g.content_length # 0 THEN g ELSE Then(d, MessageDone)
    BY <1>4 DEF BodyState
  <2> HIDE DEF g
  <2>3. CASE g.content_length # 0
    <3>1. Goes(g, 0, job)
      BY <1>4, <2>1, <2>3 DEF In, Goes, Whole, Known, ChunkStates, States
    <3>2. g.st \in BodyStates
      BY <1>4, <2>1 DEF BodyStates
    <3>3. Marked(g)
      BY <1>1, <2>1, <3>2, OnlyMarkMarked
    <3>4. QED
      BY Zenon, <2>2, <2>3, <3>1, <3>3 DEF Out
  <2>4. CASE g.content_length = 0
    <3>1. /\ DOMAIN h = FrameFields /\ h.data = g.data /\ h.ret = g.ret /\ h.errno = g.errno /\ h.failed = g.failed
          /\ h.p = g.p /\ h.st = "s_message_done" /\ h.content_length = g.content_length /\ h.mark = g.mark
      BY <2>1 DEF Goto, FrameFields
    <3>2. "s_message_done" \in QuietStates /\ "s_message_done" \in PlainStates
      BY DEF QuietStates, PlainStates
    <3> HIDE DEF h
    <3>3. Goes(h, 0, job)
      BY Zenon, <2>1, <3>1, <3>2, MovesOn DEF In
    <3>4. OnlyMark(h, "body") /\ g.p - 1 \in 0..Len(h.data)
      BY <1>1, <2>1, <3>1 DEF OnlyMark
    <3>5. MarkedBut(h, "body") /\ h.mark \in [DataCallbacks -> Nat]
      BY Zenon, <1>1, <3>1, <3>4, OnlyMarkFits DEF OnlyMark
    <3>6. Over(d, job) \/ (Like(h, d) /\ Goes(d, 0, job) /\ Marked(d))
      BY Zenon, <1>1, <3>3, <3>4, <3>5, DataFine
    <3>7. BodyState(f) = Then(d, MessageDone)
      BY Zenon, <2>2, <2>4
    <3> HIDE DEF d
    <3>8. CASE Over(d, job)
      BY Zenon, <3>7, <3>8, OverStops DEF Then, Out
    <3>9. CASE Like(h, d) /\ Goes(d, 0, job) /\ Marked(d)
      <4>1. d.mark = NoMarks
        BY Zenon, <3>1, <3>2, <3>9, QuietUnmarked DEF Like
      <4>2. Out(MessageDone(d), job) /\ Running(d)
        BY Zenon, <3>9, <4>1, MessageDoneFine, GoesRuns
      <4>3. QED
        BY Zenon, <3>7, <4>2 DEF Then
    <3>10. QED
      BY Zenon, <3>6, <3>8, <3>9
  <2>5. QED
    BY Zenon, <2>3, <2>4
<1>5. QED
  BY <1>2, <1>3, <1>4

---------------------------------------------------------------------------
(* Chunks. *)
LEMMA ChunkUnmarked ==
  ASSUME NEW f, Marked(f), f.st \in ChunkStates \ {"s_chunk_data", "s_chunk_data_almost_done"}
  PROVE  f.mark = NoMarks
  BY DEF Marked, NoMarks, DataCallbacks, ChunkStates, UrlStates, BodyStates

(* F_CHUNKED is set in every state of a chunk. *)
LEMMA InChunkFine == ASSUME NEW job, NEW f, In(f, job), f.st \in ChunkStates PROVE InChunk(f) = f
  BY Zenon DEF In, Goes, Known, InChunk, Check

LEMMA ChunkMove ==
  ASSUME NEW job, NEW f, In(f, job), f.st \in ChunkStates \ {"s_chunk_data", "s_chunk_data_almost_done"},
         NEW g, Near(f, g), g.mark = f.mark, g.flags = f.flags, g.content_length \in 0..ULLONG_MAX,
         g.st \in {"s_chunk_size", "s_chunk_parameters", "s_chunk_size_almost_done"}, g.content_length # ULLONG_MAX
  PROVE  Out(g, job) /\ Goes(g, 0, job)
<1>1. Goes(g, 0, job)
  BY DEF In, Goes, Near, Whole, Known, States, ChunkStates
<1>2. Marked(g)
  BY Zenon, ChunkUnmarked, NothingMarked DEF In
<1>3. QED
  BY Zenon, <1>1, <1>2 DEF Out

(* A digit of a chunk size: no overflow, and never ULLONG_MAX. *)
LEMMA HexRoom ==
  ASSUME NEW n \in Nat, ~((ULLONG_MAX - 16) \div 16 < n), NEW d \in 0..15
  PROVE  (16 * n + d) % (ULLONG_MAX + 1) \in 0..ULLONG_MAX /\ (16 * n + d) % (ULLONG_MAX + 1) # ULLONG_MAX
<1>1. ULLONG_MAX \in Nat /\ ULLONG_MAX >= 16
  BY ULLONG_MAXAssumption
<1> DEFINE q == (ULLONG_MAX - 16) \div 16
<1>2. q \in Int /\ 16 * q <= ULLONG_MAX - 16
  BY <1>1
<1> HIDE DEF q
<1>3. n <= q
  BY <1>2 DEF q
<1>4. 16 * n + d \in Nat /\ 16 * n + d < ULLONG_MAX
  BY <1>1, <1>2, <1>3
<1> DEFINE m == 16 * n + d
<1> HIDE DEF m
<1>5. m \in Nat /\ m < ULLONG_MAX
  BY <1>4 DEF m
<1>6. m % (ULLONG_MAX + 1) = m
  BY <1>1, <1>5
<1>7. QED
  BY <1>1, <1>5, <1>6 DEF m

(* s_chunk_size_start and s_chunk_size. *)
LEMMA ChunkSizeFine ==
  ASSUME NEW job, NEW f, In(f, job), f.st \in {"s_chunk_size_start", "s_chunk_size", "s_chunk_parameters"}, NEW ch
  PROVE  Out(ChunkSize(f, ch), job)
<1>1. f.st \in ChunkStates \ {"s_chunk_data", "s_chunk_data_almost_done"}
  BY DEF ChunkStates
<1>2. ch \in HEX => unhex(ch) \in 0..15
  BY Zenon, DigitAssumption
<1>3. CASE f.st = "s_chunk_size_start"
  <2> DEFINE v == unhex(ch)
             g == [f EXCEPT !.content_length = v, !.st = "s_chunk_size"]
  <2>1. Check(f, "one byte read at a chunk size", f.nread = 1) = f
    BY Zenon, <1>3 DEF Check, In, Goes
  <2>2. ChunkSize(f, ch) = IF ch \in HEX THEN g ELSE Error(f, "HPE_INVALID_CHUNK_SIZE")
    BY Zenon, <1>3, <2>1 DEF ChunkSize
  <2>3. Out(Error(f, "HPE_INVALID_CHUNK_SIZE"), job)
    BY InError
  <2>4. ASSUME ch \in HEX PROVE Out(g, job)
    <3>1. v \in 0..15
      BY Zenon, <1>2, <2>4
    <3> HIDE DEF v
    <3>2. v \in 0..ULLONG_MAX /\ v # ULLONG_MAX
      BY <3>1, ULLONG_MAXAssumption
    <3>3. Near(f, g) /\ g.mark = f.mark /\ g.flags = f.flags /\ g.content_length = v /\ g.st = "s_chunk_size"
      BY InFacts DEF Near, FrameFields
    <3> HIDE DEF g
    <3>4. QED
      BY <1>1, <3>2, <3>3, ChunkMove
  <2>5. QED
    BY Zenon, <2>2, <2>3, <2>4
<1>4. CASE f.st # "s_chunk_size_start"
  <2> DEFINE a == Goto(f, "s_chunk_size_almost_done")
             b == Goto(f, "s_chunk_parameters")
             n == (16 * f.content_length + unhex(ch)) % (ULLONG_MAX + 1)
             g == [f EXCEPT !.content_length = n]
  <2>1. f.st \in {"s_chunk_size", "s_chunk_parameters"}
    BY <1>4
  <2>2. f.content_length \in 0..ULLONG_MAX /\ f.content_length # ULLONG_MAX
    BY <2>1 DEF In, Goes, Known
  <2>3. Out(a, job)
    <3>1. Near(f, a) /\ a.mark = f.mark /\ a.flags = f.flags /\ a.content_length = f.content_length /\ a.st = "s_chunk_size_almost_done"
      BY InFacts DEF Near, FrameFields, Goto
    <3> HIDE DEF a
    <3>2. QED
      BY <1>1, <2>2, <3>1, ChunkMove
  <2>4. Out(b, job)
    <3>1. Near(f, b) /\ b.mark = f.mark /\ b.flags = f.flags /\ b.content_length = f.content_length /\ b.st = "s_chunk_parameters"
      BY InFacts DEF Near, FrameFields, Goto
    <3> HIDE DEF b
    <3>2. QED
      BY <1>1, <2>2, <3>1, ChunkMove
  <2>5. Out(f, job)
    BY <1>4, StayFine
  <2>6. Out(Error(f, "HPE_INVALID_CONTENT_LENGTH"), job) /\ Out(Error(f, "HPE_INVALID_CHUNK_SIZE"), job)
    BY InError
  <2>7. ch \in HEX /\ ~((ULLONG_MAX - 16) \div 16 < f.content_length) /\ f.st = "s_chunk_size" => Out(g, job)
    <3> SUFFICES ASSUME ch \in HEX, ~((ULLONG_MAX - 16) \div 16 < f.content_length), f.st = "s_chunk_size" PROVE Out(g, job)
      OBVIOUS
    <3>1. n \in 0..ULLONG_MAX /\ n # ULLONG_MAX
      <4>1. f.content_length \in Nat
        BY <2>2, ULLONG_MAXAssumption
      <4>2. QED
        BY Zenon, <1>2, <4>1, HexRoom
    <3> HIDE DEF n
    <3>2. Near(f, g) /\ g.mark = f.mark /\ g.flags = f.flags /\ g.content_length = n /\ g.st = "s_chunk_size"
      BY InFacts DEF Near, FrameFields
    <3> HIDE DEF g
    <3>3. QED
      BY <1>1, <3>1, <3>2, ChunkMove
  <2> HIDE DEF a, b, g
  <2>8. ChunkSize(f, ch) =
          CASE ch = "\r" /\ f.st \in {"s_chunk_size", "s_chunk_parameters"} -> a
            [] f.st = "s_chunk_size" /\ ch \in HEX ->
                 IF (ULLONG_MAX - 16) \div 16 < f.content_length THEN Error(f, "HPE_INVALID_CONTENT_LENGTH") ELSE g
            [] f.st = "s_chunk_size" /\ ch \in {";", " "} -> b
            [] f.st = "s_chunk_parameters" /\ ch # "\r" -> f
            [] OTHER -> Error(f, "HPE_INVALID_CHUNK_SIZE")
    BY <1>4 DEF ChunkSize, a, b, g
  <2> HIDE DEF n
  <2>9. QED
    BY Zenon, <2>3, <2>4, <2>5, <2>6, <2>7, <2>8
<1>5. QED
  BY Zenon, <1>3, <1>4

(* The states of a chunk. *)
LEMMA ChunkFine ==
  ASSUME NEW job, NEW f, In(f, job),
         f.st \in {"s_chunk_size_almost_done", "s_chunk_data", "s_chunk_data_almost_done", "s_chunk_data_done"}, NEW ch
  PROVE  Out(ChunkState(f, ch), job)
<1> DEFINE g == [f EXCEPT !.nread = 0, !.saved = 0]
           t == [g EXCEPT !.flags = @ \cup {"F_TRAILING"}, !.st = "s_header_field_start"]
           u == Goto(g, "s_chunk_data")
           n == IF f.content_length = 0 THEN t ELSE u
           h == TakeBody(f)
           z == Goto(f, "s_chunk_data_done")
           y == Goto(g, "s_chunk_size_start")
<1>1. "F_CHUNKED" \in f.flags /\ f.content_length \in 0..ULLONG_MAX
  BY DEF In, Goes, Known, ChunkStates
<1>3. /\ Near(f, g) /\ g.mark = f.mark /\ g.st = f.st /\ g.content_length = f.content_length
      /\ g.flags = f.flags /\ g.nread = 0 /\ g.saved = 0
  BY InFacts DEF Near, FrameFields
<1> HIDE DEF g
<1>4. Out(Error(f, STRICT), job)
  BY InError DEF STRICT
<1>5. CASE f.st = "s_chunk_size_almost_done"
  <2>1. f.mark = NoMarks /\ f.content_length # ULLONG_MAX
    BY <1>5, ChunkUnmarked DEF In, Goes, Known, ChunkStates
  <2>2. Goes(t, 0, job)
    <3>1. Near(f, t) /\ t.st = "s_header_field_start" /\ t.content_length = f.content_length
      BY <1>3 DEF Near, FrameFields
    <3>2. "s_header_field_start" \in PlainStates
      BY DEF PlainStates, QuietStates
    <3> HIDE DEF t
    <3>3. QED
      BY Zenon, <1>1, <3>1, <3>2, Moves DEF In
  <2>3. ASSUME f.content_length # 0 PROVE Goes(u, 0, job)
    <3>1. Near(f, u) /\ u.st = "s_chunk_data" /\ u.content_length = f.content_length /\ u.flags = f.flags
      BY <1>3 DEF Near, FrameFields, Goto
    <3> HIDE DEF u
    <3>2. QED
      BY <1>1, <2>1, <2>3, <3>1 DEF In, Goes, Near, Whole, Known, States, ChunkStates
  <2>4. t.mark = NoMarks /\ u.mark = NoMarks
    BY <1>3, <2>1 DEF Near, FrameFields, Goto
  <2> HIDE DEF t, u
  <2>5. Goes(n, 0, job) /\ Marked(n)
    BY Zenon, <2>2, <2>3, <2>4, NothingMarked
  <2>6. ChunkState(f, ch) = IF ch # "\n" THEN Error(f, STRICT) ELSE CALLBACK_NOTIFY(n, "chunk_header")
    <3>1. f.st # "s_chunk_data" /\ f.st # "s_chunk_data_almost_done" /\ f.st # "s_chunk_data_done"
      BY <1>5
    <3>2. QED
      BY Zenon, <1>5, <3>1 DEF ChunkState, n, t, u, g
  <2> HIDE DEF n
  <2>7. QED
    BY Zenon, <1>4, <2>5, <2>6, NotifyFine
<1>6. CASE f.st = "s_chunk_data"
  <2> DEFINE e == Goto(h, "s_chunk_data_almost_done")
  <2>1. /\ DOMAIN h = FrameFields /\ h.data = f.data /\ h.ret = f.ret /\ h.errno = f.errno /\ h.failed = f.failed
        /\ h.p \in f.p..Len(f.data) /\ h.st = f.st /\ h.flags = f.flags
        /\ h.content_length \in 0..ULLONG_MAX /\ h.content_length # ULLONG_MAX /\ OnlyMark(h, "body")
    BY <1>6, TakeBodyFine
  <2>2. ChunkState(f, ch) = IF h.content_length = 0 THEN e ELSE h
    BY <1>6 DEF ChunkState
  <2> HIDE DEF h
  <2>3. "body" \in DataCallbacks /\ "s_chunk_data" \in BodyStates /\ "s_chunk_data_almost_done" \in BodyStates
    BY DEF DataCallbacks, BodyStates
  <2>4. CASE h.content_length # 0
    <3>1. Goes(h, 0, job)
      BY <1>1, <1>6, <2>1, <2>4 DEF In, Goes, Whole, Known, ChunkStates, States
    <3>2. Marked(h)
      BY <1>6, <2>1, <2>3, OnlyMarkMarked
    <3>3. QED
      BY Zenon, <2>2, <2>4, <3>1, <3>2 DEF Out
  <2>5. CASE h.content_length = 0
    <3>1. /\ DOMAIN e = FrameFields /\ e.data = h.data /\ e.ret = h.ret /\ e.errno = h.errno /\ e.failed = h.failed
          /\ e.p = h.p /\ e.st = "s_chunk_data_almost_done" /\ e.flags = h.flags
          /\ e.content_length = h.content_length /\ e.mark = h.mark
      BY <2>1 DEF Goto, FrameFields
    <3> HIDE DEF e
    <3>2. Goes(e, 0, job)
      BY <1>1, <1>6, <2>1, <2>5, <3>1 DEF In, Goes, Whole, Known, ChunkStates, States
    <3>3. OnlyMark(e, "body")
      BY Zenon, <2>1, <3>1 DEF OnlyMark
    <3>4. Marked(e)
      BY <2>3, <3>1, <3>3, OnlyMarkMarked
    <3>5. QED
      BY Zenon, <2>2, <2>5, <3>2, <3>4 DEF Out
  <2>6. QED
    BY Zenon, <2>4, <2>5
<1>7. CASE f.st = "s_chunk_data_almost_done"
  <2>1. Check(f, "chunk data left", f.content_length = 0) = f
    BY Zenon, <1>7 DEF Check, In, Goes, Known
  <2>2. ChunkState(f, ch) = IF ch # "\r" THEN Error(f, STRICT) ELSE CALLBACK_DATA(z, "body")
    BY Zenon, <1>7, <2>1 DEF ChunkState
  <2>3. Near(f, z) /\ z.mark = f.mark /\ z.st = "s_chunk_data_done" /\ z.content_length = f.content_length /\ z.flags = f.flags
    BY InFacts DEF Near, FrameFields, Goto
  <2> HIDE DEF z
  <2>4. Goes(z, 0, job)
    BY <1>1, <2>3 DEF In, Goes, Near, Whole, Known, States, ChunkStates
  <2>5. "body" \in DataCallbacks /\ f.st \in BodyStates
    BY <1>7 DEF DataCallbacks, BodyStates
  <2>6. OnlyMark(z, "body")
    <3>1. OnlyMark(f, "body")
      BY Zenon, <2>5, OnlyOneMark DEF In
    <3>2. QED
      BY Zenon, <2>3, <3>1 DEF OnlyMark
  <2>7. QED
    BY Zenon, <1>4, <2>2, <2>4, <2>5, <2>6, FlushFine
<1>8. CASE f.st = "s_chunk_data_done"
  <2>1. ChunkState(f, ch) = IF ch # "\n" THEN Error(f, STRICT) ELSE CALLBACK_NOTIFY(y, "chunk_complete")
    BY <1>8 DEF ChunkState, g
  <2>2. /\ Near(f, y) /\ y.mark = f.mark /\ y.st = "s_chunk_size_start" /\ y.content_length = f.content_length
        /\ y.flags = f.flags /\ y.nread = 0 /\ y.saved = 0
    BY <1>3 DEF Near, FrameFields, Goto
  <2> HIDE DEF y
  <2>3. Goes(y, 0, job)
    BY <1>1, <2>2 DEF In, Goes, Near, Whole, Known, States, ChunkStates
  <2>4. f.mark = NoMarks
    BY <1>8, ChunkUnmarked DEF In, ChunkStates
  <2>5. Marked(y)
    BY Zenon, <2>2, <2>4, NothingMarked
  <2>6. QED
    BY Zenon, <1>4, <2>1, <2>3, <2>5, NotifyFine
<1>9. QED
  BY <1>5, <1>6, <1>7, <1>8

---------------------------------------------------------------------------
(* One byte, all bytes, one call. *)
LEMMA StepFine == ASSUME NEW job, NEW f, In(f, job), max_header_size \in Nat PROVE Out(Step(f), job)
<1> DEFINE ch == At(f.data, f.p)
           r1 == LiteralState(f, ch)
           r2 == StartState(f, ch)
           r3 == ReqOrRes(f, ch)
           r4 == VersionState(f, ch)
           r5 == StatusCode(f, ch)
           r6 == ResStatusStart(f, ch)
           r7 == ResStatus(f, ch)
           r8 == MethodState(f, ch)
           r9 == UrlState(f, ch)
           r10 == RequestLineEnd(f, ch)
           r11 == HeaderFieldStart(f, ch)
           r12 == FieldLoop(f)
           r13 == DiscardWs(f, ch)
           r14 == ValueStart(f, ch)
           r15 == ValueLoop(f)
           r16 == ValueLws(f, ch)
           r17 == DiscardLws(f, ch)
           r18 == HeadersAlmostDone(f, ch)
           r19 == HeadersDone(f, ch)
           r20 == BodyState(f)
           r21 == ChunkSize(InChunk(f), ch)
           r22 == ChunkState(InChunk(f), ch)
           r == Error(Check(f, "unhandled state", FALSE), "HPE_INVALID_INTERNAL_STATE")
           s == f.st
<1> HIDE DEF ch
<1>0. s \in States
  BY DEF In, Goes, Known
<1>1. s \in LiteralStates => Out(r1, job)
  BY Zenon, LiteralTable, LiteralFine
<1>2. s \in {"s_dead", "s_start_req_or_res", "s_start_res", "s_start_req"} => Out(r2, job)
  BY Zenon, StartFine
<1>3. s = "s_res_or_resp_H" => Out(r3, job)
  BY Zenon, ReqOrResFine
<1>4. s \in {"s_req_http_major", "s_req_http_minor", "s_res_http_major", "s_res_http_minor"} => Out(r4, job)
  BY Zenon, VersionFine
<1>5. s \in {"s_res_first_status_code", "s_res_status_code"} => Out(r5, job)
  BY Zenon, StatusCodeFine
<1>6. s = "s_res_status_start" => Out(r6, job)
  BY ResStatusStartFine
<1>7. s = "s_res_status" => Out(r7, job)
  BY Zenon, ResStatusFine
<1>8. s = "s_req_method" => Out(r8, job)
  BY Zenon, MethodFine
<1>9. s \in UrlStates \cup {"s_req_spaces_before_url"} => Out(r9, job)
  BY Zenon, UrlFine
<1>10. s \in {"s_req_http_start", "s_req_http_end"} => Out(r10, job)
  BY Zenon, RequestLineEndFine
<1>11. s = "s_header_field_start" => Out(r11, job)
  BY Zenon, HeaderFieldStartFine
<1>12. s = "s_header_field" => Out(r12, job)
  BY Zenon, FieldFine
<1>13. s = "s_header_value_discard_ws" => Out(r13, job)
  BY Zenon, DiscardWsFine
<1>14. s = "s_header_value_start" => Out(r14, job)
  <2>1. "s_header_value_start" \in QuietStates
    BY DEF QuietStates
  <2>2. QED
    BY Zenon, <2>1, ValueStartFine
<1>15. s = "s_header_value" => Out(r15, job)
  BY Zenon, ValueFine
<1>16. s = "s_header_value_lws" => Out(r16, job)
  BY Zenon, ValueLwsFine
<1>17. s = "s_header_value_discard_lws" => Out(r17, job)
  BY Zenon, DiscardLwsFine
<1>18. s = "s_headers_almost_done" => Out(r18, job)
  BY Zenon, HeadersAlmostDoneFine
<1>19. s = "s_headers_done" => Out(r19, job)
  BY Zenon, HeadersDoneFine
<1>20. s \in {"s_body_identity", "s_body_identity_eof", "s_message_done"} => Out(r20, job)
  BY Zenon, BodyFine
<1>21. s \in {"s_chunk_size_start", "s_chunk_size", "s_chunk_parameters"} => Out(r21, job)
  <2>1. ASSUME s \in {"s_chunk_size_start", "s_chunk_size", "s_chunk_parameters"} PROVE InChunk(f) = f
    BY <2>1, InChunkFine DEF ChunkStates
  <2>2. QED
    BY Zenon, <2>1, ChunkSizeFine
<1>22. s \in {"s_chunk_size_almost_done", "s_chunk_data", "s_chunk_data_almost_done", "s_chunk_data_done"} => Out(r22, job)
  <2>1. ASSUME s \in {"s_chunk_size_almost_done", "s_chunk_data", "s_chunk_data_almost_done", "s_chunk_data_done"}
        PROVE  InChunk(f) = f
    BY <2>1, InChunkFine DEF ChunkStates
  <2>2. QED
    BY Zenon, <2>1, ChunkFine
<1>23. \/ s \in LiteralStates
       \/ s \in {"s_dead", "s_start_req_or_res", "s_start_res", "s_start_req"}
       \/ s = "s_res_or_resp_H"
       \/ s \in {"s_req_http_major", "s_req_http_minor", "s_res_http_major", "s_res_http_minor"}
       \/ s \in {"s_res_first_status_code", "s_res_status_code"}
       \/ s \in {"s_res_status_start", "s_res_status", "s_req_method"}
       \/ s \in UrlStates \cup {"s_req_spaces_before_url"}
       \/ s \in {"s_req_http_start", "s_req_http_end"}
       \/ s \in {"s_header_field_start", "s_header_field", "s_header_value_discard_ws", "s_header_value_start",
                    "s_header_value", "s_header_value_lws", "s_header_value_discard_lws", "s_headers_almost_done", "s_headers_done"}
       \/ s \in {"s_body_identity", "s_body_identity_eof", "s_message_done"}
       \/ s \in {"s_chunk_size_start", "s_chunk_size", "s_chunk_parameters"}
       \/ s \in {"s_chunk_size_almost_done", "s_chunk_data", "s_chunk_data_almost_done", "s_chunk_data_done"}
  BY <1>0 DEF States, QuietStates, ChunkStates, BodyStates
<1>24. DOMAIN Literal = LiteralStates
  BY LiteralTable
<1>25. Step(f) =
      CASE s \in LiteralStates -> r1
        [] s \in {"s_dead", "s_start_req_or_res", "s_start_res", "s_start_req"} -> r2
        [] s = "s_res_or_resp_H" -> r3
        [] s \in {"s_req_http_major", "s_req_http_minor", "s_res_http_major", "s_res_http_minor"} -> r4
        [] s \in {"s_res_first_status_code", "s_res_status_code"} -> r5
        [] s = "s_res_status_start" -> r6
        [] s = "s_res_status" -> r7
        [] s = "s_req_method" -> r8
        [] s \in UrlStates \cup {"s_req_spaces_before_url"} -> r9
        [] s \in {"s_req_http_start", "s_req_http_end"} -> r10
        [] s = "s_header_field_start" -> r11
        [] s = "s_header_field" -> r12
        [] s = "s_header_value_discard_ws" -> r13
        [] s = "s_header_value_start" -> r14
        [] s = "s_header_value" -> r15
        [] s = "s_header_value_lws" -> r16
        [] s = "s_header_value_discard_lws" -> r17
        [] s = "s_headers_almost_done" -> r18
        [] s = "s_headers_done" -> r19
        [] s \in {"s_body_identity", "s_body_identity_eof", "s_message_done"} -> r20
        [] s \in {"s_chunk_size_start", "s_chunk_size", "s_chunk_parameters"} -> r21
        [] s \in {"s_chunk_size_almost_done", "s_chunk_data", "s_chunk_data_almost_done", "s_chunk_data_done"} -> r22
        [] OTHER -> r
  BY Zenon, <1>24 DEF Step, ch
<1> HIDE DEF r1, r2, r3, r4, r5, r6, r7, r8, r9, r10, r11, r12, r13, r14, r15, r16, r17, r18, r19, r20, r21, r22, r, s
<1>26. QED
  BY <1>1, <1>2, <1>3, <1>4, <1>5, <1>6, <1>7, <1>8, <1>9, <1>10, <1>11, <1>12, <1>13, <1>14, <1>15, <1>16, <1>17,
     <1>18, <1>19, <1>20, <1>21, <1>22, <1>23, <1>25

LEMMA MarkedClear == ASSUME NEW f, DOMAIN f = FrameFields, Marked(f), NEW cb \in DataCallbacks PROVE MarkedBut(f, cb)
<1> DEFINE g == [f EXCEPT !.mark[cb] = 0]
<1>1. g.mark = [f.mark EXCEPT ![cb] = 0] /\ g.st = f.st
  BY DEF FrameFields
<1> HIDE DEF g
<1>2. \A o \in DataCallbacks : g.mark[o] # 0 => f.mark[o] # 0
  BY <1>1 DEF Marked
<1>3. g.mark \in [DataCallbacks -> Nat]
  BY <1>1 DEF Marked
<1>4. Marked(g)
  BY <1>1, <1>2, <1>3 DEF Marked, DataCallbacks
<1>5. QED
  BY Zenon, <1>4 DEF MarkedBut, g

(* Between two bytes, and after the last. *)
Between(f, job) == Over(f, job) \/ (Live(f, job) /\ Marked(f))
Ended(f, job) == Over(f, job) \/ (Live(f, job) /\ Marked(f) /\ f.p = Len(f.data) + 1)
Pended(f, cb) == Then(f, LAMBDA x : CALLBACK_DATA_NOADVANCE(x, cb))

(* The texts still marked when the bytes run out are reported. *)
LEMMA PendingFine ==
  ASSUME NEW job, NEW f, Ended(f, job), NEW cb \in DataCallbacks
  PROVE  Ended(Pended(f, cb), job)
<1> DEFINE g == CALLBACK_DATA_(f, cb, f.p - 1, f.p - 1)
<1>1. Pended(f, cb) = IF Running(f) THEN g ELSE f
  BY Zenon DEF Pended, Then, CALLBACK_DATA_NOADVANCE
<1>2. CASE Over(f, job)
  BY Zenon, <1>1, <1>2, OverStops DEF Ended
<1>3. CASE Live(f, job) /\ Marked(f) /\ f.p = Len(f.data) + 1
  <2>1. DOMAIN f = FrameFields /\ f.p - 1 \in 0..Len(f.data)
    BY <1>3 DEF Live, Whole
  <2>2. MarkedBut(f, cb) /\ f.mark \in [DataCallbacks -> Nat]
    BY Zenon, <1>3, <2>1, MarkedClear DEF Marked
  <2>3. Over(g, job) \/ (Like(f, g) /\ Live(g, job) /\ Marked(g))
    BY Zenon, <1>3, <2>1, <2>2, DataLive
  <2> HIDE DEF g
  <2>4. Like(f, g) => g.p = Len(g.data) + 1
    BY Zenon, <1>3 DEF Like, Near
  <2>5. Ended(g, job) /\ Running(f)
    BY Zenon, <1>3, <2>3, <2>4, LiveRuns DEF Ended
  <2>6. QED
    BY Zenon, <1>1, <2>5
<1>4. QED
  BY Zenon, <1>2, <1>3 DEF Ended

(* The end of the loop over the bytes: the call returns their number, or   *)
(* what a callback left.                                                   *)
LEMMA AtEndFine ==
  ASSUME NEW job, NEW f, Live(f, job), Marked(f), f.p = Len(f.data) + 1
  PROVE  Over(AtEnd(f), job)
<1> DEFINE g1 == Pended(f, "header_field")
           g2 == Pended(g1, "header_value")
           g3 == Pended(g2, "url")
           g4 == Pended(g3, "body")
           g5 == Pended(g4, "status")
           e == RETURN(g5, Len(f.data))
<1>1. Check(f, "one mark", \A a, b \in DataCallbacks : f.mark[a] # 0 /\ f.mark[b] # 0 => a = b) = f
  <2>1. \A a, b \in DataCallbacks : f.mark[a] # 0 /\ f.mark[b] # 0 => a = b
    BY DEF Marked, DataCallbacks, UrlStates, BodyStates
  <2>2. QED
    BY Zenon, <2>1 DEF Check
<1>2. AtEnd(f) = IF Running(g5) THEN e ELSE g5
  <2>1. AtEnd(f) = Then(g5, LAMBDA h : RETURN(h, Len(f.data)))
    BY Zenon, <1>1 DEF AtEnd, Pended
  <2> HIDE DEF g5
  <2>2. QED
    BY Zenon, <2>1 DEF Then
<1>3. "header_field" \in DataCallbacks /\ "header_value" \in DataCallbacks /\ "url" \in DataCallbacks
      /\ "body" \in DataCallbacks /\ "status" \in DataCallbacks
  BY DEF DataCallbacks
<1>4. Ended(f, job)
  BY Zenon DEF Ended
<1>5. Ended(g5, job)
  BY Zenon, <1>3, <1>4, PendingFine
<1> HIDE DEF g5
<1>6. CASE Over(g5, job)
  BY Zenon, <1>2, <1>6, OverStops
<1>7. CASE Live(g5, job)
  <2>1. g5.data = f.data
    BY Zenon, <1>7 DEF Live, Whole
  <2>2. Over(e, job)
    BY <1>7, <2>1 DEF RETURN, Live, Over, Whole, Known, FrameFields
  <2>3. QED
    BY Zenon, <1>2, <1>7, <2>2, LiveRuns
<1>8. QED
  BY Zenon, <1>5, <1>6, <1>7 DEF Ended

(* COUNT_HEADER_SIZE(1), for the states that parse header bytes. *)
LEMMA CountByte ==
  ASSUME NEW job, NEW f, Goes(f, 0, job), Marked(f)
  PROVE  Over(COUNT_HEADER_SIZE(f, 1), job) \/ In(COUNT_HEADER_SIZE(f, 1), job)
<1> DEFINE n == 1
           r == COUNT_HEADER_SIZE(f, n)
<1> HIDE DEF n
<1>1. CASE f.st # "s_chunk_size_start"
  <2>1. \/ Over(r, job)
        \/ /\ Near(f, r) /\ r.mark = f.mark /\ r.st = f.st /\ r.content_length = f.content_length
           /\ Goes(r, 0, job)
    BY Zenon, <1>1, CountFine
  <2> HIDE DEF r
  <2>2. r.mark = f.mark /\ r.st = f.st /\ Goes(r, 0, job) => Marked(r) /\ r.st # "s_chunk_size_start"
    BY Zenon, <1>1, LikeMarked
  <2>3. r.mark = f.mark /\ r.st = f.st /\ Goes(r, 0, job) => In(r, job)
    BY Zenon, <2>2, StillIn
  <2>4. QED
    BY Zenon, <2>1, <2>3 DEF r, n
<1>2. CASE f.st = "s_chunk_size_start"
  <2> DEFINE g == [f EXCEPT !.nread = f.nread + n]
  <2>1. r = g \/ r = Error(g, "HPE_HEADER_OVERFLOW")
    BY Zenon DEF COUNT_HEADER_SIZE
  <2>2. /\ Near(f, g) /\ g.mark = f.mark /\ g.st = f.st /\ g.content_length = f.content_length /\ g.flags = f.flags
        /\ g.hs = f.hs /\ g.saved = f.saved /\ g.nread = 1
    BY <1>2 DEF Near, FrameFields, Goes, Whole, n
  <2> HIDE DEF g, r
  <2>3. Goes(g, 1, job)
    BY <2>2 DEF Near, Goes, Whole, Known
  <2>4. Over(Error(g, "HPE_HEADER_OVERFLOW"), job)
    BY <2>3, ErrorFine
  <2>5. Marked(g)
    BY Zenon, <2>2, LikeMarked
  <2>6. QED
    BY Zenon, <2>1, <2>3, <2>4, <2>5 DEF In, r, n
<1>3. QED
  BY Zenon, <1>1, <1>2

(* One turn of the loop over the bytes moves the cursor on, or the call returns. *)
LEMMA OneByteFine ==
  ASSUME NEW data, NEW low, NEW f, Live(f, <<data, low>>), Marked(f), max_header_size \in Nat
  PROVE  Between(OneByte(f), <<data, low + 1>>)
<1> DEFINE job == <<data, low>>
           here == <<data, f.p>>
           next == <<data, low + 1>>
           c == IF PARSING_HEADER(f.st) THEN COUNT_HEADER_SIZE(f, 1) ELSE f
           s == Then(c, Step)
           g == [s EXCEPT !.p = @ + 1]
<1>1. /\ f.p \in 1..(Len(f.data) + 1) /\ f.p >= low /\ low \in Nat /\ Len(f.data) \in Nat /\ f.data = data
      /\ here[1] = data /\ here[2] = f.p /\ next[1] = data /\ next[2] = low + 1
  BY DEF Live, Whole
<1>2. ASSUME NEW x, NEW j, j[1] = data, Over(x, j) PROVE Over(x, next)
  BY <1>1, <1>2 DEF Over, Whole
<1>3. CASE f.p > Len(f.data)
  <2>1. f.p = Len(f.data) + 1
    BY <1>1, <1>3
  <2>2. Over(AtEnd(f), job) /\ job[1] = data
    BY Zenon, <2>1, AtEndFine
  <2> HIDE DEF next
  <2>3. QED
    BY Zenon, <1>2, <1>3, <2>2 DEF OneByte, Between, next
<1>4. CASE ~(f.p > Len(f.data))
  <2>1. Goes(f, 0, here)
    BY <1>1, <1>4 DEF Live, Goes, Whole
  <2> HIDE DEF here, next
  <2>2. Over(c, here) \/ In(c, here)
    <3>1. CASE PARSING_HEADER(f.st)
      BY Zenon, <2>1, <3>1, CountByte
    <3>2. CASE ~PARSING_HEADER(f.st)
      <4>1. f.st # "s_chunk_size_start"
        BY <3>2 DEF PARSING_HEADER
      <4>2. QED
        BY Zenon, <2>1, <3>2, <4>1, StillIn
    <3>3. QED
      BY Zenon, <3>1, <3>2
  <2> HIDE DEF c
  <2>3. Out(s, here)
    <3>1. CASE Over(c, here)
      BY Zenon, <3>1, OverStops DEF Then, Out
    <3>2. CASE In(c, here)
      <4>1. Running(c) /\ Out(Step(c), here)
        BY Zenon, <3>2, InFacts, StepFine
      <4>2. QED
        BY Zenon, <4>1 DEF Then
    <3>3. QED
      BY Zenon, <2>2, <3>1, <3>2
  <2> HIDE DEF s
  <2>4. OneByte(f) = IF Running(s) THEN g ELSE s
    BY Zenon, <1>4 DEF OneByte, Then, c, s
  <2>5. CASE Over(s, here)
    BY Zenon, <1>1, <1>2, <2>4, <2>5, OverStops DEF Between, next
  <2>6. CASE Goes(s, 0, here) /\ Marked(s)
    <3>1. /\ DOMAIN g = FrameFields /\ g.data = s.data /\ g.ret = s.ret /\ g.errno = s.errno /\ g.failed = s.failed
          /\ g.p = s.p + 1 /\ g.st = s.st /\ g.content_length = s.content_length /\ g.flags = s.flags /\ g.hs = s.hs
          /\ g.saved = s.saved /\ g.nread = s.nread /\ g.mark = s.mark
      BY <2>6 DEF Goes, Whole, FrameFields
    <3> HIDE DEF g
    <3>2. Live(g, next)
      BY <1>1, <2>6, <3>1 DEF Goes, Live, Whole, Known
    <3>3. Marked(g)
      BY Zenon, <2>6, <3>1, LikeMarked
    <3>4. QED
      BY Zenon, <2>4, <2>6, <3>2, <3>3, GoesRuns DEF Between, next
  <2>7. QED
    BY Zenon, <2>3, <2>5, <2>6 DEF Out
<1>5. QED
  BY Zenon, <1>3, <1>4

(* Sixty-four turns move it as many bytes on. *)
LEMMA TurnsFine ==
  ASSUME NEW data, NEW low \in Nat, NEW f, Between(f, <<data, low>>), max_header_size \in Nat
  PROVE  Between(Then(f, SixtyFourTurns), <<data, low + 64>>)
<1>1. ASSUME NEW g, NEW k \in Nat, Between(g, <<data, k>>)
      PROVE  Between(Then(g, OneByte), <<data, k + 1>>)
  <2>1. CASE Live(g, <<data, k>>) /\ Marked(g)
    <3>1. Running(g) /\ Between(OneByte(g), <<data, k + 1>>)
      BY Zenon, <2>1, LiveRuns, OneByteFine
    <3>2. QED
      BY Zenon, <3>1 DEF Then
  <2>2. CASE Over(g, <<data, k>>)
    <3>1. Over(g, <<data, k + 1>>)
      BY <2>2 DEF Over, Whole
    <3>2. QED
      BY Zenon, <2>2, <3>1, OverStops DEF Then, Between
  <2>3. QED
    BY Zenon, <1>1, <2>1, <2>2 DEF Between
<1>2. ASSUME NEW g, NEW k \in Nat, Between(g, <<data, k>>)
      PROVE  Between(Then(g, FourTurns), <<data, k + 4>>)
  <2> DEFINE g1 == Then(g, OneByte)
             g2 == Then(g1, OneByte)
             g3 == Then(g2, OneByte)
             g4 == Then(g3, OneByte)
  <2>1. Between(g1, <<data, k + 1>>)
    BY Zenon, <1>1, <1>2
  <2> HIDE DEF g1
  <2>2. Between(g2, <<data, (k + 1) + 1>>)
    BY <1>1, <2>1
  <2> HIDE DEF g2
  <2>3. Between(g3, <<data, ((k + 1) + 1) + 1>>)
    BY <1>1, <2>2
  <2> HIDE DEF g3
  <2>4. Between(g4, <<data, (((k + 1) + 1) + 1) + 1>>)
    BY <1>1, <2>3
  <2> HIDE DEF g4
  <2>5. (((k + 1) + 1) + 1) + 1 = k + 4
    OBVIOUS
  <2>6. CASE Running(g)
    <3>1. g1 = OneByte(g)
      BY Zenon, <2>6 DEF g1, Then
    <3>2. FourTurns(g) = g4
      BY Zenon, <3>1 DEF FourTurns, Four, g4, g3, g2
    <3>3. QED
      BY Zenon, <2>4, <2>5, <2>6, <3>2 DEF Then
  <2>7. CASE ~Running(g)
    <3>1. Over(g, <<data, k>>)
      BY Zenon, <1>2, <2>7, LiveRuns DEF Between
    <3>2. Over(g, <<data, k + 4>>)
      BY <3>1 DEF Over, Whole
    <3>3. QED
      BY Zenon, <2>7, <3>2 DEF Then, Between
  <2>8. QED
    BY Zenon, <2>6, <2>7
<1>3. ASSUME NEW g, NEW k \in Nat, Between(g, <<data, k>>)
      PROVE  Between(Then(g, SixteenTurns), <<data, k + 16>>)
  <2> DEFINE g1 == Then(g, FourTurns)
             g2 == Then(g1, FourTurns)
             g3 == Then(g2, FourTurns)
             g4 == Then(g3, FourTurns)
  <2>1. Between(g1, <<data, k + 4>>)
    BY Zenon, <1>2, <1>3
  <2> HIDE DEF g1
  <2>2. Between(g2, <<data, (k + 4) + 4>>)
    BY <1>2, <2>1
  <2> HIDE DEF g2
  <2>3. Between(g3, <<data, ((k + 4) + 4) + 4>>)
    BY <1>2, <2>2
  <2> HIDE DEF g3
  <2>4. Between(g4, <<data, (((k + 4) + 4) + 4) + 4>>)
    BY <1>2, <2>3
  <2> HIDE DEF g4
  <2>5. (((k + 4) + 4) + 4) + 4 = k + 16
    OBVIOUS
  <2>6. CASE Running(g)
    <3>1. g1 = FourTurns(g)
      BY Zenon, <2>6 DEF g1, Then
    <3>2. SixteenTurns(g) = g4
      BY Zenon, <3>1 DEF SixteenTurns, Four, g4, g3, g2
    <3>3. QED
      BY Zenon, <2>4, <2>5, <2>6, <3>2 DEF Then
  <2>7. CASE ~Running(g)
    <3>1. Over(g, <<data, k>>)
      BY Zenon, <1>3, <2>7, LiveRuns DEF Between
    <3>2. Over(g, <<data, k + 16>>)
      BY <3>1 DEF Over, Whole
    <3>3. QED
      BY Zenon, <2>7, <3>2 DEF Then, Between
  <2>8. QED
    BY Zenon, <2>6, <2>7
<1>4. ASSUME NEW g, NEW k \in Nat, Between(g, <<data, k>>)
      PROVE  Between(Then(g, SixtyFourTurns), <<data, k + 64>>)
  <2> DEFINE g1 == Then(g, SixteenTurns)
             g2 == Then(g1, SixteenTurns)
             g3 == Then(g2, SixteenTurns)
             g4 == Then(g3, SixteenTurns)
  <2>1. Between(g1, <<data, k + 16>>)
    BY Zenon, <1>3, <1>4
  <2> HIDE DEF g1
  <2>2. Between(g2, <<data, (k + 16) + 16>>)
    BY <1>3, <2>1
  <2> HIDE DEF g2
  <2>3. Between(g3, <<data, ((k + 16) + 16) + 16>>)
    BY <1>3, <2>2
  <2> HIDE DEF g3
  <2>4. Between(g4, <<data, (((k + 16) + 16) + 16) + 16>>)
    BY <1>3, <2>3
  <2> HIDE DEF g4
  <2>5. (((k + 16) + 16) + 16) + 16 = k + 64
    OBVIOUS
  <2>6. CASE Running(g)
    <3>1. g1 = SixteenTurns(g)
      BY Zenon, <2>6 DEF g1, Then
    <3>2. SixtyFourTurns(g) = g4
      BY Zenon, <3>1 DEF SixtyFourTurns, Four, g4, g3, g2
    <3>3. QED
      BY Zenon, <2>4, <2>5, <2>6, <3>2 DEF Then
  <2>7. CASE ~Running(g)
    <3>1. Over(g, <<data, k>>)
      BY Zenon, <1>4, <2>7, LiveRuns DEF Between
    <3>2. Over(g, <<data, k + 64>>)
      BY <3>1 DEF Over, Whole
    <3>3. QED
      BY Zenon, <2>7, <3>2 DEF Then, Between
  <2>8. QED
    BY Zenon, <2>6, <2>7
<1>5. QED
  BY Zenon, <1>4

(* The loop over the bytes ends: the call returns. *)
LEMMA LoopFine ==
  ASSUME NEW data, NEW f, Between(f, <<data, 1>>), Len(data) \in Nat, max_header_size \in Nat,
         NEW n \in Nat, 64 * n > Len(data)
  PROVE  Over(Loop(f, n), <<data, 1>>)
<1> DEFINE L == CHOOSE t : t = [k \in 0..n |-> IF k = 0 THEN f ELSE Then(t[k - 1], SixtyFourTurns)]
<1>1. PICK t : Runs("byte", f, n, t)
  BY Zenon, TurnsExist
<1>2. t = [k \in 0..n |-> IF k = 0 THEN f ELSE Turn("byte", t[k - 1])]
  <2>1. ASSUME NEW k \in 0..n PROVE t[k] = IF k = 0 THEN f ELSE Turn("byte", t[k - 1])
    <3>1. k = 0 \/ k \in 1..n
      OBVIOUS
    <3>2. QED
      BY Zenon, <1>1, <3>1 DEF Runs
  <2>2. t = [k \in 0..n |-> t[k]]
    BY Zenon, <1>1 DEF Runs
  <2>3. QED
    BY Zenon, <2>1, <2>2
<1>3. \A x : Turn("byte", x) = Then(x, SixtyFourTurns)
  <2>1. "byte" # "value"
    OBVIOUS
  <2>2. QED
    BY Zenon, <2>1 DEF Turn
<1>4. t = [k \in 0..n |-> IF k = 0 THEN f ELSE Then(t[k - 1], SixtyFourTurns)]
  BY Zenon, <1>2, <1>3
<1>5. L = [k \in 0..n |-> IF k = 0 THEN f ELSE Then(L[k - 1], SixtyFourTurns)]
  BY Zenon, <1>4
<1>6. Loop(f, n) = L[n]
  BY Zenon DEF Loop
<1> HIDE DEF L
<1> DEFINE AtTurn(k) == <<data, 1 + 64 * k>>
           bad == {k \in 0..n : ~Between(L[k], AtTurn(k))}
<1>7. CASE bad = {}
  <2>1. n \in 0..n
    OBVIOUS
  <2>2. Between(L[n], AtTurn(n))
    BY Zenon, <1>7, <2>1
  <2> DEFINE g == L[n]
  <2>3. ~Live(g, AtTurn(n))
    BY DEF Live, Whole
  <2>4. Over(g, AtTurn(n))
    BY Zenon, <2>2, <2>3 DEF Between
  <2> HIDE DEF g
  <2>5. Over(g, <<data, 1>>)
    BY <2>4 DEF Over, Whole
  <2>6. QED
    BY Zenon, <1>6, <2>5 DEF g
<1>8. CASE bad # {}
  <2>1. PICK m \in bad : \A j \in bad : m <= j
    <3>1. bad \in SUBSET Nat
      <4>1. \A j \in bad : j \in 0..n
        BY Zenon
      <4>2. \A j \in 0..n : j \in Nat
        OBVIOUS
      <4> QED BY Zenon, <4>1, <4>2
    <3> HIDE DEF bad
    <3> QED BY <1>8, <3>1, HasLeast
  <2>2. m \in 0..n /\ ~Between(L[m], AtTurn(m))
    BY Zenon, <2>1
  <2>3. m # 0
    <3>1. 0 \in 0..n /\ 1 + 64 * 0 = 1
      OBVIOUS
    <3>2. L[0] = f
      BY Zenon, <1>5, <3>1
    <3>3. QED
      BY Zenon, <2>2, <3>1, <3>2
  <2>4. m - 1 \in 0..n /\ ~(m <= m - 1)
    BY <2>2, <2>3
  <2>5. Between(L[m - 1], AtTurn(m - 1))
    BY Zenon, <2>1, <2>4
  <2>6. L[m] = Then(L[m - 1], SixtyFourTurns)
    BY Zenon, <1>5, <2>2, <2>3
  <2> DEFINE low == 1 + 64 * (m - 1)
  <2>7. low \in Nat /\ low + 64 = 1 + 64 * m
    BY <2>4
  <2> HIDE DEF low
  <2>8. Between(L[m - 1], <<data, low>>)
    BY Zenon, <2>5 DEF low
  <2>9. Between(L[m], <<data, low + 64>>)
    BY Zenon, <2>6, <2>7, <2>8, TurnsFine
  <2> QED BY Zenon, <2>2, <2>7, <2>9
<1>9. QED
  BY Zenon, <1>7, <1>8

---------------------------------------------------------------------------
(* The calls. *)
ParserFields ==
  {"type", "lenient", "hs", "index", "flags", "te", "nread", "content_length", "major", "minor", "code", "method",
   "errno", "upgrade", "st"}
Ready(p) ==
  /\ DOMAIN p = ParserFields
  /\ p.errno \in {"HPE_OK", "HPE_PAUSED"} => Known(p) /\ (p.st = "s_chunk_size_start" => p.nread = 0)

LEMMA InitFields == ASSUME NEW t, NEW lenient PROVE DOMAIN http_parser_init(t, lenient) = ParserFields
  BY DEF http_parser_init, ParserFields

(* The locals of a call, with the marks that the state re-creates. *)
LEMMA FrameFine ==
  ASSUME NEW p, Ready(p), p.errno = "HPE_OK", NEW data, Len(data) \in Nat, NEW l, NEW turn, NEW outcome, NEW h
  PROVE  LET f == Frame(p, data, l, turn, outcome, h) IN Live(f, <<data, 1>>) /\ Marked(f)
<1> DEFINE mark == [NoMarks EXCEPT !["header_field"] = IF p.st = "s_header_field" THEN 1 ELSE 0,
                                   !["header_value"] = IF p.st = "s_header_value" THEN 1 ELSE 0,
                                   !["url"] = IF p.st \in UrlStates THEN 1 ELSE 0,
                                   !["status"] = IF p.st = "s_res_status" THEN 1 ELSE 0]
           q == [data |-> data, p |-> 1, ret |-> -1, saved |-> p.nread, log |-> l, failed |-> {},
                 turn |-> turn, outcome |-> outcome, hc |-> h, mark |-> mark]
           f == [k \in DOMAIN p \cup DOMAIN q |-> IF k \in DOMAIN p THEN p[k] ELSE q[k]]
<1>1. Frame(p, data, l, turn, outcome, h) = f
  <2>1. Frame(p, data, l, turn, outcome, h) = Locals(p, data, l, turn, outcome, h, mark)
    BY Zenon DEF Frame
  <2> HIDE DEF mark
  <2>2. Locals(p, data, l, turn, outcome, h, mark) = f
    BY Zenon DEF Locals
  <2> HIDE DEF f
  <2>3. QED
    BY Zenon, <2>1, <2>2
<1>2. /\ mark \in [DataCallbacks -> Nat]
      /\ mark["url"] # 0 => p.st \in UrlStates
      /\ mark["status"] # 0 => p.st = "s_res_status"
      /\ mark["header_field"] # 0 => p.st = "s_header_field"
      /\ mark["header_value"] # 0 => p.st = "s_header_value"
      /\ mark["body"] = 0
  BY DEF NoMarks, DataCallbacks
<1> HIDE DEF mark
<1>3. DOMAIN p = ParserFields
  BY DEF Ready
<1>4. DOMAIN q = {"data", "p", "ret", "saved", "log", "failed", "turn", "outcome", "hc", "mark"}
  OBVIOUS
<1>5. /\ q.data = data /\ q.p = 1 /\ q.ret = -1 /\ q.saved = p.nread /\ q.failed = {} /\ q.mark = mark
  OBVIOUS
<1> HIDE DEF q
<1>6. DOMAIN f = FrameFields
  BY <1>3, <1>4 DEF ParserFields, FrameFields
<1>7. /\ f.data = data /\ f.p = 1 /\ f.ret = -1 /\ f.saved = p.nread /\ f.failed = {} /\ f.mark = mark
  BY <1>3, <1>4, <1>5 DEF ParserFields
<1>8. /\ f.errno = p.errno /\ f.st = p.st /\ f.content_length = p.content_length /\ f.flags = p.flags /\ f.hs = p.hs
      /\ f.nread = p.nread
  BY <1>3, <1>4 DEF ParserFields
<1> HIDE DEF f
<1>9. Live(f, <<data, 1>>)
  BY <1>6, <1>7, <1>8 DEF Ready, Live, Whole, Known
<1>10. Marked(f)
  BY <1>2, <1>7, <1>8 DEF Marked
<1>11. QED
  BY Zenon, <1>1, <1>9, <1>10

(* What a call leaves in the parser. *)
LEMMA ParserOfFine ==
  ASSUME NEW f, DOMAIN f = FrameFields,
         f.errno \in {"HPE_OK", "HPE_PAUSED"} => Known(f) /\ (f.st = "s_chunk_size_start" => f.saved = 0)
  PROVE  Ready(ParserOf(f))
<1> DEFINE p == [k \in ParserFields |-> IF k = "nread" THEN f.saved ELSE f[k]]
<1>1. ParserOf(f) = p
  BY Zenon, InitFields DEF ParserOf
<1>2. /\ DOMAIN p = ParserFields /\ p.nread = f.saved /\ p.errno = f.errno /\ p.st = f.st
      /\ p.content_length = f.content_length /\ p.flags = f.flags /\ p.hs = f.hs
  BY DEF ParserFields
<1> HIDE DEF p
<1>3. Ready(p)
  BY <1>2 DEF Ready, Known
<1>4. QED
  BY Zenon, <1>1, <1>3

Empty(data) == data = ""

(* A call with bytes takes at most those, and every assertion in it holds. *)
LEMMA ExecutedFine ==
  ASSUME NEW data, NEW f, Live(f, <<data, 1>>), Marked(f), ~Empty(data), max_header_size \in Nat
  PROVE  Over(Executed(f), <<data, 1>>)
<1> DEFINE n == Len(data) \div 64 + 1
<1>1. f.data = data /\ Len(data) \in Nat
  BY DEF Live, Whole
<1>2. n \in Nat /\ 64 * n > Len(data)
  BY <1>1
<1> HIDE DEF n
<1>3. Over(Loop(f, n), <<data, 1>>)
  BY Zenon, <1>1, <1>2, LoopFine DEF Between
<1>4. Executed(f) = Loop(f, n)
  BY Zenon, <1>1 DEF Executed, Empty, n
<1>5. QED
  BY Zenon, <1>3, <1>4

(* A call without bytes: the end of the connection. *)
LEMMA EofFine ==
  ASSUME NEW data, NEW f, Live(f, <<data, 1>>), Empty(data), Len(data) = 0
  PROVE  Executed(f).failed = {} /\ Ready(ParserOf(Executed(f)))
<1> DEFINE Fits(x) == DOMAIN x = FrameFields /\ x.failed = {} /\ (x.errno \in {"HPE_OK", "HPE_PAUSED"} => Known(x) /\ (x.st = "s_chunk_size_start" => x.saved = 0))
           c == CALLBACK_NOTIFY_NOADVANCE(f, "message_complete")
           g == [c EXCEPT !.ret = 0]
           h == [f EXCEPT !.ret = 0]
           e == [f EXCEPT !.errno = "HPE_INVALID_EOF_STATE", !.ret = 1, !.saved = f.nread]
           eof_states == {"s_dead", "s_start_req_or_res", "s_start_res", "s_start_req"}
<1>1. DOMAIN f = FrameFields /\ f.data = data /\ f.failed = {} /\ Known(f) /\ (f.st = "s_chunk_size_start" => f.saved = 0)
      /\ f.p = 1
  BY DEF Live, Whole
<1>2. Executed(f) = ExecuteEof(f)
  BY Zenon, <1>1 DEF Executed, Empty
<1>3. Fits(h) /\ Fits(e)
  BY <1>1 DEF FrameFields, Known
<1>4. Over(c, <<data, 1>>) \/ Like(f, c)
  <2> DEFINE used == f.p - 1
  <2>1. used \in 0..Len(f.data)
    BY <1>1
  <2> HIDE DEF used
  <2>2. QED
    BY Zenon, <2>1, CallbackFine DEF CALLBACK_NOTIFY_NOADVANCE, used
<1> HIDE DEF c
<1>5. Like(f, c) => Fits(g)
  BY <1>1 DEF Like, Near, FrameFields, Known
<1>6. Over(c, <<data, 1>>) => Fits(c)
  BY DEF Over, Whole
<1>7. Like(f, c) => Running(c)
  BY DEF Like, Near, Live, Running
<1>8. Over(c, <<data, 1>>) => ~Running(c)
  BY Zenon, OverStops
<1> DEFINE t == Then(c, LAMBDA x : [x EXCEPT !.ret = 0])
<1>9. t = IF Running(c) THEN g ELSE c
  BY Zenon DEF Then
<1> HIDE DEF g, h, e, Fits
<1>10. Fits(t)
  BY Zenon, <1>4, <1>5, <1>6, <1>7, <1>8, <1>9
<1> HIDE DEF t
<1>11. ExecuteEof(f) \in {t, h, e}
  <2>1. CASE f.st = "s_body_identity_eof"
    BY <2>1 DEF ExecuteEof, t, c
  <2>2. CASE f.st \in eof_states
    BY <2>2 DEF ExecuteEof, h
  <2>3. CASE f.st # "s_body_identity_eof" /\ f.st \notin eof_states
    BY <2>3 DEF ExecuteEof, e
  <2>4. QED
    BY Zenon, <2>1, <2>2, <2>3
<1>12. Fits(ExecuteEof(f))
  BY Zenon, <1>3, <1>10, <1>11
<1>13. Fits(Executed(f))
  BY Zenon, <1>2, <1>12
<1>14. QED
  BY Zenon, <1>13, ParserOfFine DEF Fits

(* What the text of a call is. *)
LEMMA CallText ==
  ASSUME NEW c \in DOMAIN Callers, NEW text \in Inputs[c], NEW i \in 0..Len(text), NEW n \in Nat, n > 0, i + n <= Len(text)
  PROVE  LET data == SubSeq(text, i + 1, i + n) IN Len(data) = n /\ ~Empty(data)
<1> DEFINE data == SubSeq(text, i + 1, i + n)
<1>1. Len(text) \in Nat
  BY Zenon, InputAssumption
<1>2. n \in 0..(Len(text) - i)
  BY <1>1
<1>3. Len(data) = n
  BY Zenon, <1>2, InputAssumption
<1>4. n # 0
  OBVIOUS
<1> HIDE DEF data
<1>5. ~Empty(data)
  BY Zenon, <1>3, <1>4, InputAssumption DEF Empty
<1>6. QED
  BY Zenon, <1>3, <1>5 DEF data

---------------------------------------------------------------------------
(* Between calls. The assertions hold in a call because of Ready, which is *)
(* therefore part of the inductive invariant: the state, the flags and the *)
(* length that one call leaves are what the next one starts from.          *)
ParserInv ==
  /\ caller \in DOMAIN Callers /\ input \in Inputs[caller]
  /\ pos \in 0..Len(input) /\ failed = {}
  /\ Ready(parser)

LEMMA InitReady == ASSUME NEW t, NEW lenient PROVE Ready(http_parser_init(t, lenient))
<1> DEFINE p == http_parser_init(t, lenient)
           s == CASE t = "REQUEST" -> "s_start_req" [] t = "RESPONSE" -> "s_start_res" [] OTHER -> "s_start_req_or_res"
<1>1. s \in {"s_start_req", "s_start_res", "s_start_req_or_res"}
  <2>1. "REQUEST" # "RESPONSE"
    OBVIOUS
  <2>2. QED
    BY <2>1
<1> HIDE DEF s
<1>2. p.st = s /\ p.content_length = 0 /\ p.hs = "h_general" /\ p.nread = 0
  BY DEF http_parser_init, s
<1>3. DOMAIN p = ParserFields
  BY Zenon, InitFields
<1> HIDE DEF p
<1>4. s \in QuietStates /\ s # "s_chunk_size_start" /\ s # "s_header_value"
  BY <1>1 DEF QuietStates
<1>5. Known(p)
  BY <1>2, <1>4, QuietFacts, ULLONG_MAXAssumption DEF Known, BodyStates
<1>6. Ready(p)
  BY Zenon, <1>2, <1>3, <1>4, <1>5 DEF Ready
<1>7. QED
  BY Zenon, <1>6 DEF p

(* http_parser_execute: the cursor of the connection moves by what the     *)
(* call took.                                                              *)
LEMMA ExecuteKeeps ==
  ASSUME ParserInv, NEW n \in Nat, n > 0, NEW k, NEW outcome, http_parser_execute(n, k, outcome)
  PROVE  ParserInv' /\ pos' \in pos..(pos + n)
<1> DEFINE data == SubSeq(input, pos + 1, pos + n)
           f == Frame(parser, data, log, k, outcome, hc)
           r == Executed(f)
           job == <<data, 1>>
<1>1. /\ parser.errno = "HPE_OK" /\ pos + n <= Len(input)
      /\ parser' = ParserOf(r) /\ failed' = failed \cup r.failed /\ pos' = pos + r.ret
      /\ caller' = caller /\ input' = input
  BY Zenon DEF http_parser_execute, Apply
<1>2. caller \in DOMAIN Callers /\ input \in Inputs[caller] /\ pos \in 0..Len(input) /\ failed = {} /\ Ready(parser)
  BY Zenon DEF ParserInv
<1>3. Len(data) = n /\ ~Empty(data)
  BY Zenon, <1>1, <1>2, CallText
<1>4. Len(input) \in Nat /\ max_header_size \in Nat
  BY Zenon, <1>2, InputAssumption, CallersAssumption DEF max_header_size, Settings
<1> HIDE DEF data
<1>5. Live(f, job) /\ Marked(f)
  BY Zenon, <1>1, <1>2, <1>3, FrameFine
<1> HIDE DEF f
<1>6. Over(r, job)
  BY Zenon, <1>3, <1>4, <1>5, ExecutedFine
<1> HIDE DEF r
<1>7. /\ DOMAIN r = FrameFields /\ r.failed = {} /\ r.ret \in 0..n
      /\ r.errno \in {"HPE_OK", "HPE_PAUSED"} => Known(r) /\ (r.st = "s_chunk_size_start" => r.saved = 0)
  BY <1>3, <1>6 DEF Over, Whole
<1>8. Ready(ParserOf(r))
  BY Zenon, <1>7, ParserOfFine
<1>9. pos' \in 0..Len(input) /\ pos' \in pos..(pos + n)
  BY <1>1, <1>2, <1>4, <1>7
<1>10. failed' = {}
  BY <1>1, <1>2, <1>7
<1>11. Ready(parser)' /\ (caller \in DOMAIN Callers /\ input \in Inputs[caller] /\ pos \in 0..Len(input))'
  BY Zenon, <1>1, <1>2, <1>8, <1>9
<1>12. QED
  BY Zenon, <1>9, <1>10, <1>11 DEF ParserInv

LEMMA EndOfFileKeeps ==
  ASSUME ParserInv, NEW k, NEW outcome, EndOfFile(k, outcome)
  PROVE  ParserInv' /\ pos' = pos
<1> DEFINE data == ""
           f == Frame(parser, data, log, k, outcome, hc)
           r == Executed(f)
<1>1. /\ parser.errno = "HPE_OK" /\ parser' = ParserOf(r) /\ failed' = failed \cup r.failed
      /\ caller' = caller /\ input' = input /\ pos' = pos
  BY Zenon DEF EndOfFile, Apply
<1>2. Empty(data) /\ Len(data) = 0
  BY Zenon, InputAssumption DEF Empty
<1> HIDE DEF data
<1>3. Len(data) \in Nat
  BY <1>2
<1>4. Live(f, <<data, 1>>)
  BY Zenon, <1>1, <1>3, FrameFine DEF ParserInv
<1> HIDE DEF f
<1>5. r.failed = {} /\ Ready(ParserOf(r))
  BY Zenon, <1>2, <1>4, EofFine
<1> HIDE DEF r
<1>6. failed' = {}
  BY <1>1, <1>5 DEF ParserInv
<1>7. QED
  BY Zenon, <1>1, <1>5, <1>6 DEF ParserInv

LEMMA ResumeKeeps == ASSUME ParserInv, Resume PROVE ParserInv' /\ pos' = pos
<1>1. parser.errno = "HPE_PAUSED" /\ parser' = [parser EXCEPT !.errno = "HPE_OK"]
      /\ UNCHANGED <<caller, input, pos, failed>>
  BY DEF Resume, http_parser_pause
<1>2. Ready(parser) => Ready(parser')
  BY <1>1 DEF Ready, ParserFields, Known
<1>3. QED
  BY Zenon, <1>1, <1>2 DEF ParserInv

LEMMA NextKeeps == ASSUME ParserInv, [Next]_vars PROVE ParserInv' /\ pos' >= pos
<1>1. pos \in Int
  BY DEF ParserInv
<1>2. ASSUME Feed PROVE ParserInv' /\ pos' >= pos
  <2>1. PICK k \in Settings.turns, outcome \in Settings.outcomes, n \in Settings.sizes \cup {Len(input) - pos} :
          n > 0 /\ http_parser_execute(n, k, outcome)
    BY Zenon, <1>2 DEF Feed
  <2>2. Settings.sizes \subseteq Nat /\ Len(input) \in Nat
    BY Zenon, InputAssumption, CallersAssumption DEF ParserInv, Settings
  <2>3. n \in Nat
    BY <2>1, <2>2 DEF ParserInv
  <2>4. ParserInv' /\ pos' \in pos..(pos + n)
    BY Zenon, <2>1, <2>3, ExecuteKeeps
  <2>5. pos' >= pos
    BY <1>1, <2>3, <2>4
  <2>6. QED
    BY Zenon, <2>4, <2>5
<1>3. ASSUME NEW k, NEW outcome, EndOfFile(k, outcome) PROVE ParserInv' /\ pos' >= pos
  <2>1. ParserInv' /\ pos' = pos
    BY Zenon, <1>3, EndOfFileKeeps
  <2>2. QED
    BY <1>1, <2>1
<1>4. ASSUME Resume PROVE ParserInv' /\ pos' >= pos
  <2>1. ParserInv' /\ pos' = pos
    BY Zenon, <1>4, ResumeKeeps
  <2>2. QED
    BY <1>1, <2>1
<1>5. ASSUME UNCHANGED vars PROVE ParserInv' /\ pos' >= pos
  <2>1. caller' = caller /\ input' = input /\ pos' = pos /\ failed' = failed /\ parser' = parser
    BY <1>5 DEF vars
  <2>2. ParserInv'
    BY Zenon, <2>1 DEF ParserInv
  <2>3. QED
    BY <1>1, <2>1, <2>2
<1>6. QED
  BY Zenon, <1>2, <1>3, <1>4, <1>5 DEF Next

LEMMA InitKeeps == Init => ParserInv
<1> SUFFICES ASSUME Init PROVE ParserInv
  OBVIOUS
<1>1. caller \in DOMAIN Callers /\ input \in Inputs[caller] /\ failed = {} /\ pos = 0 /\ Ready(parser)
  BY Zenon, InitReady DEF Init
<1>2. Len(input) \in Nat
  BY Zenon, <1>1, InputAssumption
<1>3. pos \in 0..Len(input)
  BY <1>1, <1>2
<1>4. QED
  BY Zenon, <1>1, <1>3 DEF ParserInv

(* However a connection is cut into calls of http_parser_execute, whatever *)
(* its callbacks return, pauses and resumptions included, the parser is    *)
(* left in a state from which the next call can go on: the flags and the   *)
(* length that its state counts on are there.                              *)
THEOREM ParserSafe == Spec => []ParserInv
<1>1. ParserInv /\ [Next]_vars => ParserInv'
  BY Zenon, NextKeeps
<1>2. QED
  BY <1>1, InitKeeps, PTL DEF Spec

(* Every assert in http_parser_execute and in the macros it uses holds in  *)
(* every call, for any bytes, cut in any way, any limit on the header      *)
(* bytes, and any callbacks; and a call returns having taken no more bytes *)
(* than it was given.                                                      *)
THEOREM AssertionsNeverFail == Spec => []AssertionsHold
<1>1. ParserInv => AssertionsHold
  BY Zenon DEF ParserInv, AssertionsHold
<1>2. QED
  BY <1>1, ParserSafe, PTL

(* No call, paused, failed or not, gives back bytes that an earlier one    *)
(* has taken.                                                              *)
THEOREM NothingTakenBack == Spec => [][pos' >= pos]_vars
<1>1. ParserInv /\ [Next]_vars => [pos' >= pos]_vars
  BY Zenon, NextKeeps
<1>2. QED
  BY <1>1, ParserSafe, PTL DEF Spec
=============================================================================
