-------------------------- MODULE ServerStreamProofs --------------------------
(***************************************************************************)
(* Proofs about ServerStream, for any sizes of buffers, bodies and writes, *)
(* over either transport, and whatever the constructor, which does not     *)
(* initialize it, finds in qsi_.                                           *)
(***************************************************************************)
EXTENDS ServerStream, SequenceTheorems, TLAPS

\* The callbacks a request may have seen.
N == <<>>
H == <<"header">>
HB == <<"header", "body">>
HC == <<"header", "close">>
HBC == <<"header", "body", "close">>
B == <<"body">>
C == <<"close">>
BC == <<"body", "close">>

Announced == {H, HB, HC, HBC}
Stray == {B, C, BC}              \* of a request that was not announced
WithBody == {HB, HBC, B, BC}
Closed == {HC, HBC, C, BC}
Seen == {N} \cup Announced \cup Stray

\* Where the stream is, what it has been through and what was reported of it.
OrderInv ==
  /\ calls \in Seen
  /\ calls \in Announced <=> qsi = "set"
  /\ calls \in Stray => qsi = "garbage"
  /\ calls \in Closed => ~is_new_ok
  /\ calls \in WithBody => read_closed /\ pc \in {"idle", "bodyCb", "canWriteCb"}
  /\ calls = C => read_closed /\ pc \in {"idle", "canWriteCb"}
  /\ pc = "reading" => ~read_closed
  /\ pc \in {"header", "headerCb"} => ~header_sent /\ (caller = "headers" <=> ~read_closed)
  /\ pc = "header" => calls = N
  /\ pc = "headerCb" => calls \in Announced
  /\ pc = "bodyCb" => calls \in WithBody
  /\ pc = "body" => read_closed
  /\ calls \in Announced => header_sent \/ pc = "headerCb"
  /\ headers = "none" => ~header_sent /\ calls \in {N, C} /\ pc \in {"idle", "canWriteCb"}
  /\ rejected => ~is_new_ok /\ calls # N

\* Where the bytes of the body are: as long as no error was answered, in the
\* buffer, with the application or not yet read.
WholeInv ==
  /\ calls \in Announced \/ pc = "header" =>
       /\ fin /\ readable = 0 /\ body + taken = received
       /\ content_length >= 0 => received <= content_length
  /\ calls \notin Announced => taken = 0
  /\ ~fin_buffered =>
       /\ body + taken + readable = received
       /\ calls \notin Announced /\ content_length >= 0 => body <= content_length
  /\ headers = "none" => body = 0 /\ readable = received
  /\ calls \in Announced /\ pc = "reading" => received = 0
  /\ pc \in {"header", "headerCb"} /\ caller = "headers" => received = 0

\* Over HTTP/3 the FIN of an error keeps the request from being announced.
Http3Inv ==
  http3 =>
    /\ sent = <<>> \/ (Len(sent) = 1 /\ fin_buffered)
    /\ headers # "none" /\ ~parsed => fin_buffered
    /\ calls \in Announced \/ pc = "header" => parsed

IInv == TypeOK /\ OrderInv /\ WholeInv /\ Http3Inv /\ WakeUpKept

(***************************************************************************)
(* The callbacks, and what closing and sending do to them.                 *)
(***************************************************************************)
Callback == {"header", "body", "close"}

LEMMA StoriesTyped == \A c \in Seen : c \in Seq(Callback)
  <1>1. N \in Seq(Callback) /\ H \in Seq(Callback) /\ B \in Seq(Callback) /\ C \in Seq(Callback)
    BY DEF N, H, B, C, Callback
  <1>2. HB \in Seq(Callback)
    BY DEF HB, Callback
  <1>3. HC \in Seq(Callback)
    BY DEF HC, Callback
  <1>4. HBC \in Seq(Callback)
    BY DEF HBC, Callback
  <1>5. BC \in Seq(Callback)
    BY DEF BC, Callback
  <1> QED BY <1>1, <1>2, <1>3, <1>4, <1>5 DEF Seen, Announced, Stray

LEMMA IsAppend ==
  ASSUME NEW s \in Seq(Callback), NEW c \in Callback, NEW t \in Seq(Callback),
         Len(t) = Len(s) + 1, \A i \in 1..Len(s) : t[i] = s[i], t[Len(s) + 1] = c
  PROVE  Append(s, c) = t
  <1>1. Append(s, c) \in Seq(Callback) /\ Len(Append(s, c)) = Len(s) + 1
    BY AppendProperties
  <1>2. \A i \in 1..(Len(s) + 1) : Append(s, c)[i] = t[i]
    BY AppendProperties
  <1> QED BY <1>1, <1>2, SeqEqual

LEMMA Appended ==
  /\ Append(N, "header") = H /\ Append(H, "body") = HB
  /\ Append(H, "close") = HC /\ Append(HB, "close") = HBC
  /\ Append(N, "body") = B /\ Append(N, "close") = C /\ Append(B, "close") = BC
  <1>1. Append(N, "header") = H /\ Append(N, "body") = B /\ Append(N, "close") = C
    BY DEF N, H, B, C
  <1>2. "body" \in Callback /\ "close" \in Callback
    BY DEF Callback
  <1>3. H \in Seq(Callback) /\ HB \in Seq(Callback) /\ HC \in Seq(Callback) /\ HBC \in Seq(Callback)
        /\ B \in Seq(Callback) /\ BC \in Seq(Callback)
    BY Zenon, StoriesTyped DEF Seen, Announced, Stray
  <1>4. Append(H, "body") = HB
    <2>1. Len(HB) = Len(H) + 1 /\ (\A i \in 1..Len(H) : HB[i] = H[i]) /\ HB[Len(H) + 1] = "body"
      BY DEF H, HB
    <2> QED BY <1>2, <1>3, <2>1, IsAppend
  <1>5. Append(H, "close") = HC
    <2>1. Len(HC) = Len(H) + 1 /\ (\A i \in 1..Len(H) : HC[i] = H[i]) /\ HC[Len(H) + 1] = "close"
      BY DEF H, HC
    <2> QED BY <1>2, <1>3, <2>1, IsAppend
  <1>6. Append(HB, "close") = HBC
    <2>1. Len(HBC) = Len(HB) + 1 /\ (\A i \in 1..Len(HB) : HBC[i] = HB[i]) /\ HBC[Len(HB) + 1] = "close"
      BY DEF HB, HBC
    <2> QED BY <1>2, <1>3, <2>1, IsAppend
  <1>7. Append(B, "close") = BC
    <2>1. Len(BC) = Len(B) + 1 /\ (\A i \in 1..Len(B) : BC[i] = B[i]) /\ BC[Len(B) + 1] = "close"
      BY DEF B, BC
    <2> QED BY <1>2, <1>3, <2>1, IsAppend
  <1> QED BY <1>1, <1>4, <1>5, <1>6, <1>7

LEMMA Different ==
  /\ N # H /\ N # HB /\ N # HC /\ N # HBC /\ N # B /\ N # C /\ N # BC
  /\ H # HB /\ H # HC /\ H # HBC /\ H # B /\ H # C /\ H # BC
  /\ HB # HC /\ HB # HBC /\ HB # B /\ HB # C /\ HB # BC
  /\ HC # HBC /\ HC # B /\ HC # C /\ HC # BC
  /\ HBC # B /\ HBC # C /\ HBC # BC /\ B # C /\ B # BC /\ C # BC
  <1>1. N # H /\ N # HB /\ N # HC /\ N # HBC /\ N # B /\ N # C /\ N # BC
    BY DEF N, H, HB, HC, HBC, B, C, BC
  <1>2. H # HB /\ H # HC /\ H # HBC /\ H # B /\ H # C /\ H # BC
    BY DEF H, HB, HC, HBC, B, C, BC
  <1>3. HB # HC /\ HB # HBC /\ HB # B /\ HB # C /\ HB # BC
    BY DEF HB, HC, HBC, B, C, BC
  <1>4. HC # HBC /\ HC # B /\ HC # C /\ HC # BC
    BY DEF HC, HBC, B, C, BC
  <1>5. HBC # B /\ HBC # C /\ HBC # BC /\ B # C /\ B # BC /\ C # BC
    BY DEF HBC, B, C, BC
  <1> QED BY <1>1, <1>2, <1>3, <1>4, <1>5

\* What the steps need of these sets.
LEMMA Stories ==
  /\ N \in Seen /\ N \notin Announced /\ N \notin Stray /\ N \notin WithBody /\ N \notin Closed /\ N # C
  /\ H \in Seen /\ H \in Announced /\ H \notin Stray /\ H \notin WithBody /\ H \notin Closed /\ H # N /\ H # C
  /\ HB \in Seen /\ HB \in Announced /\ HB \notin Stray /\ HB \in WithBody /\ HB \notin Closed /\ HB # N /\ HB # C
  /\ B \in Seen /\ B \notin Announced /\ B \in Stray /\ B \in WithBody /\ B \notin Closed /\ B # N /\ B # C
  /\ \A c \in Seen :
       /\ c \in Announced \/ c \in WithBody \/ c \in {N, C}
       /\ c \in Announced /\ c \notin WithBody /\ c \notin Closed => c = H
       /\ c \in Announced => c # N /\ c # C /\ c \notin Stray
       /\ c \in WithBody => c # N /\ c # C
  /\ C \notin Announced /\ C \notin WithBody /\ C \in Stray /\ C \in Closed /\ C \in Seen
  <1> USE Different DEF Seen, Announced, Stray, WithBody, Closed
  <1>1. /\ N \in Seen /\ N \notin Announced /\ N \notin Stray /\ N \notin WithBody /\ N \notin Closed /\ N # C
        /\ C \notin Announced /\ C \notin WithBody /\ C \in Stray /\ C \in Closed /\ C \in Seen
    OBVIOUS
  <1>2. H \in Seen /\ H \in Announced /\ H \notin Stray /\ H \notin WithBody /\ H \notin Closed /\ H # N /\ H # C
    OBVIOUS
  <1>3. HB \in Seen /\ HB \in Announced /\ HB \notin Stray /\ HB \in WithBody /\ HB \notin Closed /\ HB # N /\ HB # C
    OBVIOUS
  <1>4. B \in Seen /\ B \notin Announced /\ B \in Stray /\ B \in WithBody /\ B \notin Closed /\ B # N /\ B # C
    OBVIOUS
  <1>5. \A c \in Seen :
       /\ c \in Announced \/ c \in WithBody \/ c \in {N, C}
       /\ c \in Announced /\ c \notin WithBody /\ c \notin Closed => c = H
       /\ c \in Announced => c # N /\ c # C /\ c \notin Stray
       /\ c \in WithBody => c # N /\ c # C
    OBVIOUS
  <1> HIDE DEF Seen, Announced, Stray, WithBody, Closed
  <1> QED BY <1>1, <1>2, <1>3, <1>4, <1>5

LEMMA CalledHeader ==
  ASSUME OrderInv
  PROVE  Called("header") <=> calls \in Announced
  <1>1. CASE calls \in {N, B, C, BC}
    <2>1. ~Called("header")
      BY <1>1 DEF Called, N, B, C, BC
    <2> QED BY <1>1, <2>1, Different DEF Announced
  <1>2. CASE calls \in Announced
    <2>1. 1 \in DOMAIN calls /\ calls[1] = "header"
      BY <1>2 DEF H, HB, HC, HBC, Announced
    <2> QED BY <1>2, <2>1 DEF Called
  <1> QED BY <1>1, <1>2 DEF OrderInv, Seen, Stray

LEMMA Bools ==
  ASSUME TypeOK
  PROVE  /\ http3 \in BOOLEAN /\ header_sent \in BOOLEAN /\ parsed \in BOOLEAN /\ is_new_ok \in BOOLEAN
         /\ fin \in BOOLEAN /\ read_closed \in BOOLEAN /\ write_closed \in BOOLEAN
         /\ fin_buffered \in BOOLEAN /\ rejected \in BOOLEAN
  BY DEF TypeOK

\* OnClose reports the end of a request at most, and then only once.
MayClose ==
  /\ \/ calls' = calls
     \/ /\ calls' = Append(calls, "close") /\ is_new_ok /\ qsi' # "null"
        /\ ~is_new_ok' /\ read_closed' /\ write_closed'
  /\ is_new_ok' \in BOOLEAN
  /\ is_new_ok' => is_new_ok

LEMMA OnCloseEffect ==
  ASSUME TypeOK, NEW r \in BOOLEAN, NEW w \in BOOLEAN, NEW ok \in BOOLEAN, OnClose(r, w, ok)
  PROVE  MayClose /\ read_closed' = r /\ write_closed' = w /\ (is_new_ok' => ok)
  BY Bools DEF OnClose, MayClose

\* What a response does: it leaves a FIN behind, and keeps the read side.
Sends ==
  /\ MayClose
  /\ read_closed' = read_closed /\ write_closed' \in BOOLEAN /\ fin_buffered' = TRUE
  /\ sent' \in Seq(Responses)
  /\ http3 /\ (sent = <<>> \/ (Len(sent) = 1 /\ fin_buffered)) => sent' = <<>> \/ Len(sent') = 1

LEMMA SendEffect ==
  ASSUME TypeOK, NEW resp \in Responses, NEW ok \in BOOLEAN, SendHeadersAndBodyAndTrailers(resp, ok)
  PROVE  Sends /\ (is_new_ok' => ok)
  <1>1. PICK finSent \in BOOLEAN : OnClose(read_closed, write_closed \/ finSent, ok)
    BY DEF SendHeadersAndBodyAndTrailers
  <1>2. /\ MayClose /\ read_closed' = read_closed /\ write_closed' = (write_closed \/ finSent)
        /\ is_new_ok' => ok
    BY <1>1, OnCloseEffect, Bools
  <1>3. sent' = IF http3 /\ (fin_buffered \/ write_closed) THEN sent ELSE Append(sent, resp)
    BY DEF SendHeadersAndBodyAndTrailers
  <1>4. sent \in Seq(Responses)
    BY DEF TypeOK
  <1>5. sent' \in Seq(Responses)
    BY <1>3, <1>4
  <1>6. http3 /\ (sent = <<>> \/ (Len(sent) = 1 /\ fin_buffered)) => sent' = <<>> \/ Len(sent') = 1
    BY <1>3, <1>4
  <1> QED BY <1>2, <1>5, <1>6 DEF Sends, SendHeadersAndBodyAndTrailers

LEMMA ErrorEffect ==
  ASSUME TypeOK, NEW code \in {"500", "403"}, NEW ok \in BOOLEAN, SendErrorResponseInternal(code, ok)
  PROVE  Sends /\ (is_new_ok' => ok)
  <1>1. [by |-> code, body |-> 3, trailers |-> FALSE] \in Responses
    BY DEF Responses
  <1> QED BY <1>1, SendEffect DEF SendErrorResponseInternal

\* The end of a request changes nothing else of its story.
SameStory ==
  /\ calls' \in Seen
  /\ calls' \in Announced <=> calls \in Announced
  /\ calls' \in WithBody <=> calls \in WithBody
  /\ calls' \in Stray => qsi = "garbage"
  /\ calls' \in Closed => ~is_new_ok'
  /\ calls # N => calls' # N
  /\ calls' = C => calls = C \/ (calls = N /\ read_closed' /\ write_closed')
  /\ is_new_ok' => is_new_ok

LEMMA StoryKept ==
  ASSUME TypeOK, OrderInv, MayClose \/ UNCHANGED <<calls, is_new_ok>>, qsi' \in {qsi, "null"}
  PROVE  SameStory
  <1>1. CASE calls' = calls
    BY <1>1 DEF OrderInv, MayClose, SameStory
  <1>2. CASE calls' # calls
    <2>1. calls' = Append(calls, "close") /\ is_new_ok /\ qsi # "null" /\ ~is_new_ok' /\ read_closed' /\ write_closed'
      BY <1>2 DEF MayClose
    <2>2. calls \in {N, H, HB, B}
      BY <2>1 DEF OrderInv, Seen, Announced, Stray, Closed
    <2>3. calls \in {N, B} => qsi = "garbage"
      <3>1. calls \in {N, B} => qsi # "set"
        BY Stories DEF OrderInv
      <3> QED BY <2>1, <3>1 DEF TypeOK
    <2>4. \/ calls = N /\ calls' = C
          \/ calls = H /\ calls' = HC
          \/ calls = HB /\ calls' = HBC
          \/ calls = B /\ calls' = BC
      BY Zenon, <2>1, <2>2, Appended
    <2> QED BY <2>1, <2>3, <2>4, Different DEF SameStory, Seen, Announced, Stray, WithBody, Closed
  <1> QED BY <1>1, <1>2

LEMMA CallsTyped ==
  ASSUME SameStory
  PROVE  calls' \in Seq({"header", "body", "close"})
  BY StoriesTyped DEF SameStory, Callback

(***************************************************************************)
(* The request arrives.                                                    *)
(***************************************************************************)
LEMMA HeadersStep ==
  ASSUME IInv, NEW withFin \in BOOLEAN, NEW valid \in BOOLEAN, NEW host \in Hosts, NEW length \in Lengths,
         OnInitialHeadersComplete(withFin, valid, host, length), http3' = http3
  PROVE  IInv'
  <1> USE DEF IInv, OnInitialHeadersComplete, CopyAndValidateHeaders, callbackVars
  <1>1. \/ valid /\ UNCHANGED <<closeVars, outputVars>>
        \/ ~valid /\ Sends
    BY Zenon, ErrorEffect DEF SendErrorResponse
  <1>2. SameStory
    BY Zenon, <1>1, StoryKept DEF Sends, closeVars
  <1>8. read_closed = FALSE /\ calls = N
    BY Stories, Bools DEF OrderInv
  <1>9. read_closed' = FALSE /\ calls' = N
    <2>1. read_closed' = FALSE
      BY Zenon, <1>1, <1>8 DEF Sends, closeVars
    <2> QED BY Zenon, <1>1, <1>8, <2>1 DEF Sends, MayClose, closeVars
  <1>3. /\ read_closed' = read_closed /\ write_closed' \in BOOLEAN /\ is_new_ok' \in BOOLEAN
        /\ fin_buffered' \in BOOLEAN /\ (~valid => fin_buffered') /\ sent' \in Seq(Responses)
    BY Zenon, <1>1, Bools DEF Sends, MayClose, closeVars, outputVars, TypeOK
  <1>4. TypeOK'
    <2>1. content_length' \in Nat \cup {-1} /\ request_host' \in {"none", "known", "unknown"}
      BY ServerStreamAssumption
    <2>2. parsed' \in BOOLEAN /\ fin' \in BOOLEAN /\ pc' \in PCs
      BY Bools DEF PCs
    <2>3. /\ UNCHANGED <<header_sent, qsi, body, can_write_cb, waiting, response, received, readable, taken, rejected>>
          /\ headers' = "initial" /\ caller' = "headers"
      BY Zenon
    <2> HIDE DEF OnInitialHeadersComplete
    <2> QED BY <1>2, <1>3, <2>1, <2>2, <2>3, CallsTyped, Bools DEF TypeOK
  <1>5. OrderInv'
    BY Zenon, <1>2, <1>3, <1>8, <1>9, Stories DEF OrderInv, SameStory
  <1>6. WholeInv'
    BY <1>3, <1>8, <1>9, Bools, Stories, ServerStreamAssumption DEF WholeInv, OrderInv, TypeOK
  <1>7. Http3Inv'
    BY <1>1, <1>2, <1>3, <1>8, <1>9, Bools, Stories DEF Http3Inv, OrderInv, SameStory, Sends, outputVars
  <1> QED BY <1>4, <1>5, <1>6, <1>7 DEF WakeUpKept

LEMMA FrameStep ==
  ASSUME IInv, NEW n \in 0..MaxBody, NEW withFin \in BOOLEAN, OnStreamFrame(n, withFin), http3' = http3
  PROVE  IInv'
  <1> USE DEF IInv, OnStreamFrame, requestVars, callbackVars, closeVars, outputVars
  <1>1. TypeOK'
    BY ServerStreamAssumption DEF TypeOK, PCs
  <1>2. OrderInv'
    BY DEF OrderInv
  <1>3. WholeInv'
    BY Bools DEF WholeInv, OrderInv, TypeOK
  <1>4. Http3Inv'
    BY DEF Http3Inv
  <1> QED BY <1>1, <1>2, <1>3, <1>4 DEF WakeUpKept

LEMMA TrailersStep ==
  ASSUME IInv, OnTrailingHeadersComplete, http3' = http3
  PROVE  IInv'
  <1> USE DEF IInv, OnTrailingHeadersComplete, requestVars, callbackVars
  <1>1. Sends
    BY Zenon, ErrorEffect DEF SendErrorResponse
  <1>2. SameStory
    BY <1>1, StoryKept DEF Sends
  <1>3. TypeOK'
    BY <1>1, <1>2, CallsTyped, Bools DEF TypeOK, Sends, MayClose
  <1>4. OrderInv'
    BY <1>1, <1>2 DEF OrderInv, SameStory, Sends
  <1>5. WholeInv'
    BY <1>1, <1>2 DEF WholeInv, SameStory, Sends
  <1>6. Http3Inv'
    BY <1>1, <1>2 DEF Http3Inv, SameStory, Sends
  <1> QED BY <1>3, <1>4, <1>5, <1>6 DEF WakeUpKept

\* A region is read only as long as the request has not been announced.
LEMMA RegionStep ==
  ASSUME IInv, NEW n \in 1..MaxBody, ReadRegion(n), http3' = http3
  PROVE  IInv'
  <1> USE DEF IInv, ReadRegion, requestVars, callbackVars
  <1>1. calls = N /\ taken = 0
    <2>1. calls \notin Announced
      BY DEF WholeInv, TypeOK
    <2>2. calls \notin WithBody /\ calls # C
      BY DEF OrderInv
    <2> QED BY <2>1, <2>2, Stories DEF WholeInv, OrderInv
  <1>2. \/ /\ body' = body + n /\ readable' = readable - n /\ UNCHANGED <<pc, closeVars, outputVars>>
           /\ body + n <= MaxBufferSize /\ (content_length >= 0 => body + n <= content_length)
        \/ /\ body' \in 0..MaxBufferSize /\ readable' = readable /\ pc' = "idle" /\ Sends
    <2>1. content_length \in Int /\ body \in Nat /\ n \in Nat /\ body <= MaxBufferSize
      BY ServerStreamAssumption DEF TypeOK
    <2>2. CASE body + n <= MaxBufferSize /\ ~(content_length >= 0 /\ body + n > content_length)
      BY <2>1, <2>2
    <2>3. CASE ~(body + n <= MaxBufferSize /\ ~(content_length >= 0 /\ body + n > content_length))
      <3>1. SendErrorResponse(TRUE) /\ readable' = readable /\ pc' = "idle"
        BY Zenon, <2>1, <2>3
      <3>2. Sends
        BY Zenon, <3>1, ErrorEffect DEF SendErrorResponse
      <3>3. body' \in 0..MaxBufferSize
        BY <2>1, ServerStreamAssumption
      <3> QED BY <3>1, <3>2, <3>3
    <2> QED BY <2>2, <2>3
  <1>3. SameStory
    BY <1>2, StoryKept DEF Sends, closeVars
  <1>4. TypeOK'
    <2>1. /\ MaxBufferSize \in Nat /\ body \in 0..MaxBufferSize /\ received \in Nat
          /\ readable \in 0..received /\ n \in 1..readable
      BY ServerStreamAssumption DEF TypeOK
    <2>2. body' \in 0..MaxBufferSize /\ readable' \in 0..received
      BY ONLY <1>2, <2>1
    <2>3. /\ is_new_ok' \in BOOLEAN /\ read_closed' \in BOOLEAN /\ write_closed' \in BOOLEAN
          /\ fin_buffered' \in BOOLEAN /\ sent' \in Seq(Responses) /\ pc' \in PCs
      BY Zenon, <1>2, Bools DEF Sends, MayClose, PCs, TypeOK, closeVars, outputVars
    <2> QED BY <1>3, <2>2, <2>3, CallsTyped, Bools DEF TypeOK
  <1>8. read_closed' = FALSE /\ calls' = N
    <2>1. read_closed = FALSE
      BY Bools DEF OrderInv
    <2>2. read_closed' = FALSE
      BY Zenon, <1>2, <2>1 DEF Sends, closeVars
    <2> QED BY Zenon, <1>1, <1>2, <2>2 DEF Sends, MayClose, closeVars
  <1>5. OrderInv'
    BY <1>1, <1>2, <1>3, <1>8 DEF OrderInv, SameStory, Sends, closeVars
  <1>6. WholeInv'
    <2>1. body \in Nat /\ readable \in Nat /\ received \in Nat /\ n \in Nat /\ content_length \in Int
      BY ServerStreamAssumption DEF TypeOK
    <2>2. calls' \notin Announced /\ calls \notin Announced /\ headers # "none" /\ pc' \notin {"header", "headerCb"}
      BY <1>1, <1>2, <1>8, Stories DEF OrderInv
    <2>3. CASE body' = body + n /\ readable' = readable - n /\ UNCHANGED outputVars
               /\ (content_length >= 0 => body + n <= content_length)
      BY <1>1, <2>1, <2>2, <2>3 DEF WholeInv, outputVars
    <2>4. CASE Sends
      BY <1>1, <2>2, <2>4 DEF WholeInv, Sends
    <2> QED BY <1>2, <2>3, <2>4
  <1>7. Http3Inv'
    BY <1>2, <1>3, Bools DEF Http3Inv, SameStory, Sends, closeVars, outputVars
  <1> QED BY <1>4, <1>5, <1>6, <1>7 DEF WakeUpKept

LEMMA BodyReadStep ==
  ASSUME IInv, BodyRead, http3' = http3
  PROVE  IInv'
  <1> USE DEF IInv, BodyRead, inputVars, callbackVars, outputVars
  <1>1. \/ ~fin /\ pc' = "idle" /\ UNCHANGED <<closeVars, content_length>>
        \/ /\ fin /\ MayClose /\ read_closed' = TRUE /\ write_closed' = write_closed
           /\ \/ pc' = "idle" /\ UNCHANGED content_length
              \/ /\ ~write_closed /\ ~fin_buffered
                 /\ content_length' = IF content_length < 0 THEN body ELSE content_length
                 /\ pc' = IF header_sent THEN "body" ELSE "header"
    BY Zenon, OnCloseEffect, Bools
  <1>2. SameStory
    BY <1>1, StoryKept DEF closeVars
  <1>3. pc' = "header" => calls = N /\ ~header_sent
    BY <1>1, Stories DEF OrderInv
  <1>8. pc' # "idle" => calls' = calls
    <2> SUFFICES ASSUME pc' # "idle" PROVE calls' = calls
      OBVIOUS
    <2>1. MayClose /\ write_closed' = FALSE
      BY <1>1, Bools
    <2> QED BY Zenon, <2>1 DEF MayClose
  <1>4. TypeOK'
    <2>1. content_length' \in Nat \cup {-1} /\ pc' \in PCs
      BY <1>1 DEF TypeOK, PCs
    <2>2. is_new_ok' \in BOOLEAN /\ read_closed' \in BOOLEAN /\ write_closed' \in BOOLEAN
      BY Zenon, <1>1, Bools DEF MayClose, closeVars
    <2> QED BY SMTT(30), <1>2, <2>1, <2>2, CallsTyped, Bools DEF TypeOK
  <1>5. OrderInv'
    <2>1. CASE UNCHANGED closeVars /\ pc' = "idle"
      BY Zenon, <1>2, <2>1 DEF OrderInv, SameStory, closeVars
    <2>2. CASE read_closed' = TRUE
      BY Zenon, <1>1, <1>2, <1>3, <1>8, <2>2 DEF OrderInv, SameStory
    <2> QED BY <1>1, <2>1, <2>2
  <1>6. WholeInv'
    BY SMTT(30), <1>1, <1>2, <1>3, Stories DEF WholeInv, OrderInv, SameStory, TypeOK, closeVars
  <1>7. Http3Inv'
    BY SMTT(30), <1>1, <1>2, <1>3, Stories, Bools DEF Http3Inv, OrderInv, SameStory, closeVars
  <1> QED BY <1>4, <1>5, <1>6, <1>7 DEF WakeUpKept

(***************************************************************************)
(* The request is announced.                                               *)
(***************************************************************************)
\* The caller of OnRequestHeader goes on, be the request announced or not.
LEMMA DoneStep ==
  ASSUME IInv, pc \in {"header", "headerCb"}, HeaderDone, SameStory, http3' = http3,
         read_closed' = read_closed, calls' \in Announced <=> qsi' = "set", calls' \in Stray => qsi' = "garbage",
         UNCHANGED <<content_length, request_host, parsed, body, callbackVars, response, caller, inputVars, taken>>,
         pc = "header" => rejected' = rejected /\ calls' = calls,
         rejected' \in BOOLEAN, rejected' => ~is_new_ok' /\ calls # N,
         qsi' \in {"garbage", "null", "set"}, is_new_ok' \in BOOLEAN, write_closed' \in BOOLEAN,
         fin_buffered' \in BOOLEAN, fin_buffered => fin_buffered', sent' \in Seq(Responses),
         http3 => sent' = <<>> \/ (Len(sent') = 1 /\ fin_buffered')
  PROVE  IInv'
  <1> USE DEF IInv, HeaderDone, callbackVars, inputVars
  <1>1. TypeOK'
    <2>1. pc' \in PCs
      BY Zenon DEF PCs
    <2> QED BY <2>1, CallsTyped, Bools DEF TypeOK
  <1>2. OrderInv'
    BY Zenon, Stories DEF OrderInv, SameStory, TypeOK
  <1>3. WholeInv'
    BY Bools, Stories DEF WholeInv, OrderInv, SameStory, TypeOK
  <1>4. Http3Inv'
    BY Bools DEF Http3Inv, OrderInv, SameStory
  <1> QED BY Zenon, <1>1, <1>2, <1>3, <1>4 DEF WakeUpKept

LEMMA HeaderStep ==
  ASSUME IInv, OnRequestHeader, http3' = http3
  PROVE  IInv'
  <1> USE DEF IInv, OnRequestHeader
  <1>0. calls = N /\ qsi # "set" /\ pc = "header" /\ ~rejected
    BY Stories DEF OrderInv
  <1>1. request_host \in {"none", "known", "unknown"} /\ sent \in Seq(Responses) /\ qsi \in {"garbage", "null", "set"}
    BY Zenon DEF TypeOK
  <1>2. CASE request_host = "none"
    <2>1. HeaderDone /\ UNCHANGED <<qsi, closeVars, outputVars>>
      BY <1>2
    <2>2. SameStory
      BY <2>1, StoryKept DEF closeVars
    <2> QED BY <1>0, <1>1, <2>1, <2>2, DoneStep, Bools DEF closeVars, outputVars, OrderInv, Http3Inv
  <1>3. CASE request_host = "unknown"
    <2>1. HeaderDone /\ qsi' = "null" /\ SendErrorResponseInternal("403", FALSE)
      BY Zenon, <1>3
    <2>2. Sends
      BY Zenon, <2>1, ErrorEffect
    <2>3. SameStory /\ calls' = N
      BY <1>0, <2>1, <2>2, StoryKept DEF Sends, MayClose
    <2> QED BY <1>0, <1>1, <2>1, <2>2, <2>3, DoneStep, Bools, Stories DEF Sends, MayClose, Http3Inv
  <1>4. CASE request_host = "known"
    <2>1. /\ qsi' = "set" /\ calls' = H /\ pc' = "headerCb"
          /\ UNCHANGED <<header_sent, is_new_ok, read_closed, write_closed, outputVars>>
      BY Zenon, <1>0, <1>4, Appended
    <2>2. calls' \in Seq({"header", "body", "close"})
      BY <2>1, Stories, StoriesTyped DEF Callback
    <2> USE DEF callbackVars, inputVars, outputVars
    <2>3. TypeOK'
      BY <2>1, <2>2, Bools DEF TypeOK, PCs
    <2>4. OrderInv'
      BY <1>0, <2>1, Stories DEF OrderInv
    <2>5. WholeInv'
      BY <1>0, <2>1, Stories DEF WholeInv, TypeOK
    <2>6. Http3Inv'
      BY Zenon, <1>0, <2>1, Stories DEF Http3Inv
    <2> QED BY <2>3, <2>4, <2>5, <2>6 DEF WakeUpKept
  <1> QED BY <1>1, <1>2, <1>3, <1>4

LEMMA HeaderReturnStep ==
  ASSUME IInv, NEW ok \in BOOLEAN, HeaderCbReturns(ok), http3' = http3
  PROVE  IInv'
  <1> USE DEF IInv, HeaderCbReturns
  <1>1. calls # N /\ qsi = "set" /\ calls \in Announced /\ pc = "headerCb" /\ sent \in Seq(Responses) /\ qsi \in {"garbage", "null", "set"}
    BY Stories DEF OrderInv, TypeOK
  <1>2. \/ ok /\ UNCHANGED <<closeVars, outputVars>>
        \/ ~ok /\ Sends /\ ~is_new_ok'
    BY Zenon, ErrorEffect DEF SendErrorResponse, Sends, MayClose
  <1>3. SameStory
    BY <1>2, StoryKept DEF Sends, closeVars
  <1>4. rejected' \in BOOLEAN /\ (rejected' => ~is_new_ok')
    BY <1>2, Bools DEF OrderInv, closeVars
  <1>5. /\ is_new_ok' \in BOOLEAN /\ write_closed' \in BOOLEAN /\ fin_buffered' \in BOOLEAN
        /\ fin_buffered => fin_buffered'
        /\ read_closed' = read_closed /\ sent' \in Seq(Responses)
        /\ http3 => sent' = <<>> \/ (Len(sent') = 1 /\ fin_buffered')
    BY Zenon, <1>1, <1>2, Bools DEF Sends, MayClose, closeVars, outputVars, Http3Inv
  <1>6. calls' \in Announced /\ calls' \notin Stray
    BY <1>1, <1>3, Stories DEF SameStory
  <1> QED BY Zenon, <1>1, <1>3, <1>4, <1>5, <1>6, DoneStep

LEMMA BodyStep ==
  ASSUME IInv, OnRequestBody, http3' = http3
  PROVE  IInv'
  <1> USE DEF IInv, OnRequestBody, requestVars, callbackVars, inputVars, outputVars
  <1>1. \/ pc' = "idle" /\ calls' = calls
        \/ pc' = "bodyCb" /\ calls = H /\ calls' = HB
        \/ pc' = "bodyCb" /\ calls = N /\ calls' = B /\ qsi = "garbage"
    <2>1. CASE is_new_ok /\ qsi # "null"
      <3>1. pc' = "bodyCb" /\ calls' = Append(calls, "body")
        BY Zenon, <2>1
      <3>2. calls \in Seen /\ calls \notin WithBody /\ calls \notin Closed /\ calls # C
        BY <2>1 DEF OrderInv
      <3>3. calls = H \/ (calls = N /\ qsi = "garbage")
        BY <2>1, <3>2, Stories DEF OrderInv, TypeOK
      <3> QED BY Zenon, <3>1, <3>3, Appended
    <2>2. CASE ~(is_new_ok /\ qsi # "null")
      BY Zenon, <2>2
    <2> QED BY <2>1, <2>2
  <1>2. calls' \in Seq({"header", "body", "close"})
    BY <1>1, Stories, StoriesTyped DEF OrderInv, Callback
  <1>3. TypeOK'
    BY SMTT(30), <1>1, <1>2 DEF TypeOK, PCs
  <1>4. OrderInv'
    BY <1>1, Stories DEF OrderInv
  <1>5. WholeInv'
    BY <1>1, Stories DEF WholeInv
  <1>6. Http3Inv'
    BY <1>1, Stories DEF Http3Inv
  <1> QED BY <1>3, <1>4, <1>5, <1>6 DEF WakeUpKept

(***************************************************************************)
(* The application answers, and the stream ends.                           *)
(***************************************************************************)
ResponseType == [headers : BOOLEAN, body : 0..MaxWrite, trailers : BOOLEAN, fin : BOOLEAN]

LEMMA AnswerStep ==
  ASSUME IInv, SameStory, http3' = http3,
         UNCHANGED <<requestVars, qsi, body, callbackVars, caller, inputVars, taken>>,
         pc \in {"idle", "headerCb", "bodyCb", "canWriteCb"}, pc' = pc \/ (pc # "headerCb" /\ pc' = "idle"),
         read_closed' = read_closed \/ (read_closed' = TRUE /\ pc = "idle"),
         rejected' \in BOOLEAN, rejected' => ~is_new_ok' /\ calls # N, response' \in ResponseType,
         is_new_ok' \in BOOLEAN, write_closed' \in BOOLEAN,
         fin_buffered' \in BOOLEAN, fin_buffered => fin_buffered', sent' \in Seq(Responses),
         http3 => sent' = <<>> \/ (Len(sent') = 1 /\ fin_buffered')
  PROVE  IInv'
  <1> USE DEF IInv, requestVars, callbackVars, inputVars
  <1>1. TypeOK'
    <2>1. pc' \in PCs /\ read_closed' \in BOOLEAN
      BY Zenon, Bools DEF PCs
    <2> QED BY <2>1, CallsTyped, Bools DEF TypeOK, ResponseType
  <1>2. OrderInv'
    BY Stories DEF OrderInv, SameStory
  <1>3. WholeInv'
    BY Bools DEF WholeInv, SameStory
  <1>4. Http3Inv'
    BY Bools DEF Http3Inv, SameStory
  <1> QED BY Zenon, <1>1, <1>2, <1>3, <1>4 DEF WakeUpKept

LEMMA BodyReturnStep ==
  ASSUME IInv, NEW ok \in BOOLEAN, BodyCbReturns(ok), http3' = http3
  PROVE  IInv'
  <1> USE DEF IInv, BodyCbReturns
  <1>1. calls # N /\ sent \in Seq(Responses) /\ response \in ResponseType
    BY Stories DEF OrderInv, TypeOK, ResponseType
  <1>2. \/ ok /\ UNCHANGED <<closeVars, outputVars>>
        \/ ~ok /\ Sends /\ ~is_new_ok'
    BY Zenon, ErrorEffect DEF SendErrorResponse, Sends, MayClose
  <1>3. SameStory
    BY <1>2, StoryKept DEF Sends, closeVars
  <1>4. rejected' \in BOOLEAN /\ (rejected' => ~is_new_ok')
    <2>1. rejected' = (rejected \/ ~ok) /\ (rejected => ~is_new_ok)
      BY DEF OrderInv
    <2>2. is_new_ok' = is_new_ok \/ ~is_new_ok'
      BY <1>2 DEF closeVars
    <2>3. ~ok => ~is_new_ok'
      BY <1>2
    <2> HIDE DEF BodyCbReturns
    <2> QED BY <2>1, <2>2, <2>3, Bools
  <1>5. /\ is_new_ok' \in BOOLEAN /\ write_closed' \in BOOLEAN /\ fin_buffered' \in BOOLEAN
        /\ fin_buffered => fin_buffered'
        /\ read_closed' = read_closed /\ sent' \in Seq(Responses)
        /\ http3 => sent' = <<>> \/ (Len(sent') = 1 /\ fin_buffered')
    BY Zenon, <1>1, <1>2, Bools DEF Sends, MayClose, closeVars, outputVars, Http3Inv
  <1> QED BY <1>1, <1>3, <1>4, <1>5, AnswerStep

LEMMA WrittenStep ==
  ASSUME IInv, AppActs, NEW resp \in ResponseType, Written(resp), http3' = http3
  PROVE  IInv'
  <1> USE DEF IInv, Written
  <1>1. sent \in Seq(Responses) /\ pc \in {"idle", "headerCb", "bodyCb", "canWriteCb"} /\ ~rejected
    BY DEF OrderInv, TypeOK, AppActs
  <1>2. [by |-> "app", body |-> resp.body, trailers |-> FALSE] \in Responses
    BY ServerStreamAssumption DEF ResponseType, Responses
  <1>3. UNCHANGED <<closeVars, outputVars>> \/ Sends
    BY Zenon, <1>2, SendEffect DEF FlushResponse
  <1>4. SameStory
    BY <1>3, StoryKept DEF Sends, closeVars
  <1>5. /\ is_new_ok' \in BOOLEAN /\ write_closed' \in BOOLEAN /\ fin_buffered' \in BOOLEAN
        /\ fin_buffered => fin_buffered'
        /\ read_closed' = read_closed /\ sent' \in Seq(Responses)
        /\ http3 => sent' = <<>> \/ (Len(sent') = 1 /\ fin_buffered')
    BY Zenon, <1>1, <1>3, Bools DEF Sends, MayClose, closeVars, outputVars, Http3Inv
  <1> QED BY <1>1, <1>4, <1>5, AnswerStep, Bools

LEMMA WriteHeaderStep ==
  ASSUME IInv, NEW trailers \in BOOLEAN, NEW withFin \in BOOLEAN,
         WriteResponseHeader(trailers, withFin), http3' = http3
  PROVE  IInv'
  <1>1. [headers |-> TRUE, body |-> 0, trailers |-> trailers, fin |-> withFin] \in ResponseType
    BY ServerStreamAssumption DEF ResponseType
  <1> QED BY <1>1, WrittenStep DEF WriteResponseHeader

LEMMA WriteBodyStep ==
  ASSUME IInv, NEW n \in 0..MaxWrite, NEW limit \in 0..MaxWrite, NEW trailers \in BOOLEAN, NEW withFin \in BOOLEAN,
         WriteResponseBody(n, limit, trailers, withFin), http3' = http3
  PROVE  IInv'
  <1> DEFINE room(buffered) == IF buffered >= limit THEN 0 ELSE limit - buffered
             size(buffered) == IF limit = 0 \/ room(buffered) > n THEN n ELSE room(buffered)
             resp(buffered) == [headers |-> TRUE, body |-> response.body + size(buffered),
                                trailers |-> response.trailers \/ trailers, fin |-> withFin]
  <1>1. PICK buffered \in Buffered : Written(resp(buffered))
    BY Zenon DEF WriteResponseBody
  <1>2. /\ response.body \in 0..MaxWrite /\ response.trailers \in BOOLEAN
        /\ response.body + n <= MaxWrite /\ AppActs /\ buffered \in Nat
    BY ServerStreamAssumption DEF IInv, TypeOK, WriteResponseBody, Buffered
  <1>3. size(buffered) \in 0..n
    BY <1>2, ServerStreamAssumption
  <1> HIDE DEF size
  <1>4. resp(buffered) \in ResponseType
    BY <1>2, <1>3, ServerStreamAssumption DEF ResponseType
  <1> HIDE DEF resp
  <1> QED BY <1>1, <1>2, <1>4, WrittenStep

LEMMA EndStep ==
  ASSUME IInv, FinSent \/ Reset, http3' = http3
  PROVE  IInv'
  <1> USE DEF IInv
  <1>1. /\ pc = "idle" /\ sent \in Seq(Responses) /\ response \in ResponseType
        /\ UNCHANGED <<requestVars, qsi, body, callbackVars, response, pc, caller, inputVars, outputVars,
                       taken, rejected>>
    BY Zenon DEF FinSent, Reset, TypeOK, ResponseType
  <1>2. MayClose /\ read_closed' \in {read_closed, TRUE} /\ write_closed' = TRUE
    BY Zenon, OnCloseEffect, Bools DEF FinSent, Reset
  <1>3. SameStory
    BY <1>1, <1>2, StoryKept
  <1>4. is_new_ok' \in BOOLEAN /\ (rejected' => ~is_new_ok' /\ calls # N)
    BY <1>1, <1>2 DEF MayClose, OrderInv
  <1> QED BY Zenon, <1>1, <1>2, <1>3, <1>4, AnswerStep, Bools DEF outputVars, Http3Inv

LEMMA ReadStep ==
  ASSUME IInv, NEW n \in 1..MaxBody, ReadRequestBody(n), http3' = http3
  PROVE  IInv'
  <1> USE DEF IInv, ReadRequestBody, requestVars, callbackVars, inputVars, closeVars, outputVars
  <1>1. calls \in Announced
    BY Zenon, CalledHeader DEF AppActs
  <1>2. TypeOK'
    BY <1>1, ServerStreamAssumption DEF TypeOK, WholeInv
  <1>3. OrderInv'
    BY DEF OrderInv
  <1>4. WholeInv'
    BY <1>1 DEF WholeInv, TypeOK
  <1>5. Http3Inv'
    BY DEF Http3Inv
  <1> QED BY <1>2, <1>3, <1>4, <1>5 DEF WakeUpKept

LEMMA CallbackStep ==
  ASSUME IInv, http3' = http3,
         (\E c \in Callbacks : AddOnCanWriteCallback(c)) \/ OnCanWriteNewData \/ CanWriteCbReturns
  PROVE  IInv'
  <1> USE DEF IInv, AddOnCanWriteCallback, OnCanWriteNewData, CanWriteCbReturns, requestVars, inputVars,
              closeVars, outputVars, callbackVars
  <1>1. TypeOK'
    BY SMTT(30) DEF TypeOK, PCs
  <1>2. OrderInv'
    BY DEF OrderInv
  <1>3. WholeInv'
    BY DEF WholeInv
  <1>4. Http3Inv'
    BY DEF Http3Inv
  <1> QED BY Zenon, <1>1, <1>2, <1>3, <1>4 DEF WakeUpKept

LEMMA InitIInv == Init => IInv
  <1> SUFFICES ASSUME Init PROVE IInv
    OBVIOUS
  <1> USE DEF Init
  <1>1. qsi \in {"null", "garbage"} /\ calls = N
    BY ServerStreamAssumption DEF N
  <1>2. TypeOK
    <2>1. response \in [headers : BOOLEAN, body : 0..MaxWrite, trailers : BOOLEAN, fin : BOOLEAN]
      BY ServerStreamAssumption DEF EmptyResponse
    <2>2. sent \in Seq(Responses) /\ calls \in Seq({"header", "body", "close"})
      OBVIOUS
    <2>3. {header_sent, parsed, is_new_ok, fin, read_closed, write_closed, fin_buffered, rejected} \subseteq BOOLEAN
      BY Zenon
    <2>4. body \in 0..MaxBufferSize /\ received \in 0..MaxBody /\ readable \in 0..received /\ taken \in 0..MaxBody
      BY ServerStreamAssumption
    <2> QED BY Zenon, <1>1, <2>1, <2>2, <2>3, <2>4, ServerStreamAssumption DEF TypeOK, PCs
  <1>3. OrderInv
    BY <1>1, Stories DEF OrderInv
  <1>4. WholeInv
    BY <1>1, Stories DEF WholeInv
  <1>5. Http3Inv
    BY <1>1, Stories DEF Http3Inv
  <1> QED BY <1>2, <1>3, <1>4, <1>5 DEF IInv, WakeUpKept

LEMMA NextIInv == IInv /\ [Next]_vars => IInv'
  <1> SUFFICES ASSUME IInv, [Next]_vars PROVE IInv'
    OBVIOUS
  <1>1. CASE ClientStep
    BY <1>1, HeadersStep, FrameStep, TrailersStep, EndStep DEF ClientStep
  <1>2. CASE StreamStep
    BY <1>2, RegionStep, BodyReadStep, HeaderStep, BodyStep DEF StreamStep
  <1>3. CASE CallbackReturns
    BY <1>3, HeaderReturnStep, BodyReturnStep, CallbackStep DEF CallbackReturns
  <1>4. CASE AppStep
    BY <1>4, ReadStep, WriteHeaderStep, WriteBodyStep, CallbackStep DEF AppStep
  <1>5. CASE WriterStep
    BY Zenon, <1>5, CallbackStep, EndStep DEF WriterStep
  <1>6. CASE UNCHANGED vars
    <2> USE <1>6 DEF vars, requestVars, callbackVars, inputVars, closeVars, outputVars, IInv
    <2>1. TypeOK'
      BY DEF TypeOK
    <2>2. OrderInv'
      BY DEF OrderInv
    <2>3. WholeInv'
      BY DEF WholeInv
    <2>4. Http3Inv' /\ WakeUpKept'
      BY DEF Http3Inv, WakeUpKept
    <2> QED BY Zenon, <2>1, <2>2, <2>3, <2>4
  <1> QED BY <1>1, <1>2, <1>3, <1>4, <1>5, <1>6 DEF Next

LEMMA StreamInvariant == Spec => []IInv
  BY InitIInv, NextIInv, PTL DEF Spec

(***************************************************************************)
(* The theorems.                                                           *)
(***************************************************************************)
\* OnRequestHeader, OnRequestBody and OnRequestClose come in this order, each
\* at most once and nothing after the end, whatever the client sends and the
\* application does from within them, over either transport; and they begin
\* with OnRequestHeader, unless qsi_ is unset.
THEOREM CallbacksInOrder == Spec => []CallbackOrder
  <1>1. IInv => CallbackOrder
    BY DEF IInv, OrderInv, CallbackOrder, Seen, Announced, Stray, N, H, HB, HC, HBC, B, C, BC
  <1> QED BY <1>1, StreamInvariant, PTL

\* A request is announced only when its whole body was read once, and is no
\* longer than its content-length (OnBodyAvailable).
THEOREM AnnouncementsAreWhole == Spec => []AnnouncedWhole
  <1>1. IInv => AnnouncedWhole
    BY CalledHeader DEF IInv, WholeInv, AnnouncedWhole
  <1> QED BY <1>1, StreamInvariant, PTL

\* Over HTTP/3 a request is announced only if its headers were parsed, and is
\* given one response at most (OnInitialHeadersComplete, SendErrorResponse).
THEOREM Http3IsSound == Spec => []Http3Sound
  <1>1. IInv => Http3Sound
    <2> SUFFICES ASSUME IInv, http3 PROVE OneResponse /\ (Called("header") => parsed)
      BY DEF Http3Sound
    <2>1. Len(sent) <= 1
      <3>1. CASE sent = <<>>
        BY <3>1
      <3>2. CASE Len(sent) = 1
        BY <3>2
      <3> QED BY <3>1, <3>2 DEF IInv, Http3Inv
    <2> QED BY <2>1, CalledHeader DEF IInv, Http3Inv, OneResponse
  <1> QED BY <1>1, StreamInvariant, PTL

\* The callback the application waits for is the one the stream keeps
\* (AddOnCanWriteCallback, OnCanWriteNewData).
THEOREM WakeUpsAreKept == Spec => []WakeUpKept
  <1>1. IInv => WakeUpKept
    BY DEF IInv
  <1> QED BY <1>1, StreamInvariant, PTL

\* Every variable has its type: among them the bytes of the body in its buffer
\* (OnBodyAvailable), which never pass max_buffer_size_.
THEOREM StreamStaysTyped == Spec => []TypeOK
  <1>1. IInv => TypeOK
    BY DEF IInv
  <1> QED BY <1>1, StreamInvariant, PTL

\* An application that answered a callback with an error hears of the end of
\* the request at most (is_new_ok_).
THEOREM RejectionIsFinal == Spec => RejectedIsFinal
  <1>1. IInv /\ [Next]_vars => [rejected => calls' \in {calls, Append(calls, "close")}]_vars
    <2> SUFFICES ASSUME IInv, Next, rejected PROVE calls' \in {calls, Append(calls, "close")}
      OBVIOUS
    <2>1. ~is_new_ok /\ calls # N /\ pc # "header"
      BY DEF IInv, OrderInv
    <2>2. MayClose => calls' \in {calls, Append(calls, "close")}
      BY DEF MayClose
    <2> USE DEF closeVars
    <2>3. CASE ClientStep
      <3>1. ASSUME NEW withFin \in BOOLEAN, NEW valid \in BOOLEAN, NEW host \in Hosts, NEW length \in Lengths,
                   OnInitialHeadersComplete(withFin, valid, host, length)
            PROVE  calls' = calls \/ MayClose
        BY Zenon, <3>1, ErrorEffect DEF IInv, OnInitialHeadersComplete, SendErrorResponse, Sends
      <3>2. ASSUME NEW n \in 0..MaxBody, NEW withFin \in BOOLEAN, OnStreamFrame(n, withFin) PROVE calls' = calls
        BY <3>2 DEF OnStreamFrame
      <3>3. OnTrailingHeadersComplete => MayClose
        BY Zenon, ErrorEffect DEF IInv, OnTrailingHeadersComplete, SendErrorResponse, Sends
      <3>4. Reset => MayClose
        BY Zenon, OnCloseEffect DEF IInv, Reset
      <3> QED BY <2>2, <2>3, <3>1, <3>2, <3>3, <3>4 DEF ClientStep
    <2>4. CASE StreamStep
      <3>1. ASSUME NEW n \in 1..MaxBody, ReadRegion(n) PROVE calls' = calls \/ MayClose
        BY Zenon, <3>1, ErrorEffect DEF IInv, ReadRegion, SendErrorResponse, Sends
      <3>2. BodyRead => calls' = calls \/ MayClose
        BY Zenon, OnCloseEffect, Bools DEF IInv, BodyRead
      <3>3. ~OnRequestHeader
        BY Zenon, <2>1 DEF OnRequestHeader
      <3>4. OnRequestBody => calls' = calls
        BY <2>1 DEF OnRequestBody
      <3> QED BY <2>2, <2>4, <3>1, <3>2, <3>3, <3>4 DEF StreamStep
    <2>5. CASE CallbackReturns
      <3>1. ASSUME NEW ok \in BOOLEAN, HeaderCbReturns(ok) \/ BodyCbReturns(ok) PROVE calls' = calls \/ MayClose
        BY Zenon, <3>1, ErrorEffect DEF IInv, HeaderCbReturns, BodyCbReturns, SendErrorResponse, Sends
      <3>2. CanWriteCbReturns => calls' = calls
        BY DEF CanWriteCbReturns
      <3> QED BY <2>2, <2>5, <3>1, <3>2 DEF CallbackReturns
    <2>6. ~AppStep
      BY Zenon, <2>1 DEF AppStep, ReadRequestBody, WriteResponseHeader, WriteResponseBody, AddOnCanWriteCallback, AppActs
    <2>7. CASE WriterStep
      <3>1. OnCanWriteNewData => calls' = calls
        BY DEF OnCanWriteNewData
      <3>2. FinSent => MayClose
        BY Zenon, OnCloseEffect, Bools DEF IInv, FinSent
      <3> QED BY <2>2, <2>7, <3>1, <3>2 DEF WriterStep
    <2> QED BY <2>3, <2>4, <2>5, <2>6, <2>7 DEF Next
  <1> QED BY <1>1, StreamInvariant, PTL DEF Spec, RejectedIsFinal
===============================================================================
