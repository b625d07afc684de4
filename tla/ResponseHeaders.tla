--------------------------- MODULE ResponseHeaders ---------------------------
(* http_parser/http_response_headers.cc: one text, raw_headers_, and the        *)
(* vector parsed_ of iterators into it, rebuilt by Parse after every change.    *)
EXTENDS HttpFields

CONSTANT INT_MAX  \* largest response code

(* The status line. *)
ParseVersion(line) ==
  LET dot == Find(line, 5, {"."})
  IN IF /\ StartsWith(ToLowerASCII(line), "http") /\ At(line, 5) = "/"
        /\ At(line, 6) \in NUM /\ At(line, dot + 1) \in NUM
     THEN <<DigitVal(At(line, 6)), DigitVal(At(line, dot + 1))>> ELSE <<0, 0>>
ClampVersion(v, has_headers) ==
  CASE v = <<0, 9>> /\ ~has_headers -> v
    [] v = <<2, 0>> -> v
    [] v # <<2, 0>> /\ (v[1] > 1 \/ (v[1] = 1 /\ v[2] >= 1)) -> <<1, 1>>
    [] OTHER -> <<1, 0>>
VersionText(v) == "HTTP/" \o ToString(v[1]) \o "." \o ToString(v[2])
StatusLine(version, rest, code) == [text |-> VersionText(version) \o rest, version |-> version, code |-> code]
ReasonPhrase_SpaceKept(line, end) == Cut(line, end, Max({end - 1} \cup {i \in end..Len(line) : At(line, i) # " "}))
ReasonPhrase(line, end) ==
  Cut(line, FindNot(line, end, {" "}), Max({end - 1} \cup {i \in end..Len(line) : At(line, i) # " "}))
CodeAndPhrase(line, version, code, end) ==
  LET text == ReasonPhrase(line, end)
  IN IF " " \notin CharsOf(line) THEN StatusLine(version, " 200 OK", 200)
     ELSE IF end = code THEN StatusLine(version, " 200", 200)
     ELSE StatusLine(version, " " \o Cut(line, code, end - 1) \o (IF text = "" THEN "" ELSE " " \o text),
                     SimpleAtoi(Cut(line, code, Len(line)), -INT_MAX - 1, INT_MAX).v)
ParseStatusLine(line, has_headers) ==
  LET code == FindNot(line, Find(line, 1, {" "}), {" "})
  IN CodeAndPhrase(line, ClampVersion(ParseVersion(line), has_headers), code, FindNot(line, code, NUM))

(* The header lines: a value list becomes an entry and its continuations,      *)
(* which have an empty name.                                                   *)
NoName == <<1, 0>>
is_continuation(p) == p.name = NoName
AddToParsed(raw, h) ==
  LET values == ValuesIterator(raw, h.values, ",", FALSE)
  IN IF h.values[1] > h.values[2] \/ IsNonCoalescingHeader(Span(raw, h.name)) THEN <<[name |-> h.name, value |-> h.values]>>
     ELSE [k \in DOMAIN values |-> [name |-> IF k = 1 THEN h.name ELSE NoName, value |-> values[k]]]
EndWithNulls(s) ==
  LET n == Len(s) IN IF At(s, n) # NUL THEN s \o NUL \o NUL ELSE IF At(s, n - 1) # NUL THEN s \o NUL ELSE s
ParseLines(raw, lines) == FlattenSeq([k \in DOMAIN lines |-> AddToParsed(raw, lines[k])])
ParseHeaders(status, raw) ==
  [raw |-> raw, version |-> status.version, code |-> status.code,
   parsed |-> ParseLines(raw, HeadersIterator(raw, <<Len(status.text) + 2, Len(raw)>>, {NUL}))]
BehindStatus(status, rest) == ParseHeaders(status, EndWithNulls(status.text \o NUL \o rest))
HasEmbeddedNulls(s) == \E i \in 1..Len(s) : At(s, i) = NUL
Parse(raw_input) ==
  LET line_end == Find(raw_input, 1, {NUL})
      has_headers == line_end < Len(raw_input) /\ At(raw_input, line_end + 1) # NUL
  IN IF HasEmbeddedNulls(raw_input)
     THEN BehindStatus(ParseStatusLine(Cut(raw_input, 1, line_end - 1), has_headers),
                       Cut(raw_input, line_end + 1, Len(raw_input)))
     ELSE BehindStatus(ParseStatusLine(raw_input, FALSE), "")
TryToCreate(input) == IF HasEmbeddedNulls(input) THEN {} ELSE {Parse(AssembleRawHeaders(input))}

(* Reading. *)
HeadsIn(o) == SelectSeq([i \in DOMAIN o.parsed |-> i], LAMBDA i : ~is_continuation(o.parsed[i]))
LastValue(o, i) == First({k \in (i + 1)..Len(o.parsed) : ~is_continuation(o.parsed[k])}, Len(o.parsed) + 1) - 1
NameAt(o, i) == Span(o.raw, o.parsed[i].name)
WholeValue(o, i) == Cut(o.raw, o.parsed[i].value[1], o.parsed[LastValue(o, i)].value[2])
EnumerateHeaderLines(o) == LET h == HeadsIn(o) IN [k \in DOMAIN h |-> <<NameAt(o, h[k]), WholeValue(o, h[k])>>]
GetStatusLine(o) == Cut(o.raw, 1, Find(o.raw, 1, {NUL}) - 1)
FindHeader(o, from, name) ==
  First({i \in from..Len(o.parsed) : ~is_continuation(o.parsed[i]) /\ ToLowerASCII(NameAt(o, i)) = ToLowerASCII(name)}, npos)
(* One call: where it finds a value, npos at the end; iter is that place + 1.  *)
EnumerateHeader_HeadsOnly(o, iter, name) == IF iter > Len(o.parsed) THEN npos ELSE FindHeader(o, iter, name)
EnumerateHeader(o, iter, name) ==
  IF iter > Len(o.parsed) THEN npos
  ELSE IF is_continuation(o.parsed[iter]) THEN iter ELSE FindHeader(o, iter, name)
AllValues(o, name) ==
  LET E[iter \in 1..(Len(o.parsed) + 2)] ==
        LET i == EnumerateHeader(o, iter, name) IN IF i = npos THEN <<>> ELSE <<Span(o.raw, o.parsed[i].value)>> \o E[i + 1]
  IN E[1]
GetNormalizedHeader(o, name) ==
  LET found == SelectSeq(HeadsIn(o), LAMBDA i : ToLowerASCII(NameAt(o, i)) = ToLowerASCII(name))
      J[k \in 1..Len(found)] == WholeValue(o, found[k]) \o (IF k = Len(found) THEN "" ELSE ", " \o J[k + 1])
  IN [found |-> found # <<>>, value |-> IF found = <<>> THEN "" ELSE J[1]]
HasHeader(o, name) == FindHeader(o, 1, name) # npos
HasHeaderValue(o, name, value) == \E v \in ToSet(AllValues(o, name)) : ToLowerASCII(v) = ToLowerASCII(value)

(* Writing: every operation builds a new text and parses it. *)
Joined(texts) == LET J[k \in 0..Len(texts)] == IF k = 0 THEN "" ELSE J[k - 1] \o texts[k] \o NUL IN J[Len(texts)]
LineText(o, i) == Cut(o.raw, o.parsed[i].name[1], o.parsed[LastValue(o, i)].value[2])
HeaderNames(o) == {ToLowerASCII(NameAt(o, i)) : i \in ToSet(HeadsIn(o))}
LinesText(o, names) ==
  LET kept == SelectSeq(HeadsIn(o), LAMBDA i : ToLowerASCII(NameAt(o, i)) \in names) IN Joined([k \in DOMAIN kept |-> LineText(o, kept[k])])
MergeWithHeaders(o, raw, remove) == Parse(raw \o LinesText(o, HeaderNames(o) \ remove) \o NUL)
RemoveHeaders_CaseKept(o, names) == MergeWithHeaders(o, GetStatusLine(o) \o NUL, names)
RemoveHeaders(o, names) == MergeWithHeaders(o, GetStatusLine(o) \o NUL, {ToLowerASCII(n) : n \in names})
RemoveHeaderLine(o, name, value) ==
  LET kept == SelectSeq(EnumerateHeaderLines(o), LAMBDA l : ~(ToLowerASCII(l[1]) = ToLowerASCII(name) /\ l[2] = value))
  IN Parse(GetStatusLine(o) \o NUL \o Joined([k \in DOMAIN kept |-> kept[k][1] \o ": " \o kept[k][2]]) \o NUL)
AddHeader(o, name, value) == Parse(Cut(o.raw, 1, Len(o.raw) - 1) \o name \o ": " \o value \o NUL \o NUL)
SetHeader(o, name, value) == AddHeader(RemoveHeaders(o, {name}), name, value)
ReplaceStatusLine(o, new_status) == MergeWithHeaders(o, new_status \o NUL, {})
(* Edit after edit; like TryToCreate, a set that holds the resulting object.   *)
UpdateWithNewRange(o, range, resource_size, replace_status_line) ==
  LET bare == {RemoveHeaders(b, {"Content-Range"}) : b \in {RemoveHeaders(o, {"Content-Length"})}}
      partial == IF replace_status_line THEN {ReplaceStatusLine(b, "HTTP/1.1 206 Partial Content") : b \in bare} ELSE bare
      ranged == {AddHeader(b, "Content-Range", ContentRange(range, resource_size)) : b \in partial}
  IN {AddHeader(b, "Content-Length", ToString(range.last - range.first + 1)) : b \in ranged}

kNonUpdatedHeaders ==
  {"connection", "proxy-connection", "keep-alive", "www-authenticate", "proxy-authenticate", "proxy-authorization",
   "te", "trailer", "transfer-encoding", "upgrade", "content-location", "content-md5", "etag", "content-encoding",
   "content-range", "content-type", "content-length", "x-frame-options", "x-xss-protection"}
ShouldUpdateHeader(name) ==
  LET n == ToLowerASCII(name)
  IN n \notin kNonUpdatedHeaders /\ ~StartsWith(n, "x-content-") /\ ~StartsWith(n, "x-webkit-")
Update(o, new) ==
  LET updated == {n \in HeaderNames(new) : ShouldUpdateHeader(n)}
  IN MergeWithHeaders(o, GetStatusLine(o) \o NUL \o LinesText(new, updated), updated)
=============================================================================
