----------------------------- MODULE HttpFields -----------------------------
(* http_parser/http_util.cc and net/base/parse_number.cc: the values of       *)
(* single header fields.                                                      *)
EXTENDS HttpUtil, RangeSpec

(* ParseContentType: the parameters from the semicolon at position o on, then *)
(* what they and the type do to the values of earlier Content-Type headers.   *)
QuotedParam_Unescaped(s, from) ==
  LET close == Find(s, from, {"\""}) IN [end |-> close, text |-> Cut(s, from, close - 1)]
QuotedParam(s, from) ==
  LET R[k \in from..(Len(s) + 1)] ==
        IF k > Len(s) \/ At(s, k) = "\"" THEN [end |-> k, text |-> ""]
        ELSE LET j == IF At(s, k) = "\\" /\ k < Len(s) THEN k + 1 ELSE k
                 rest == R[j + 1]
             IN [end |-> rest.end, text |-> At(s, j) \o rest.text]
  IN R[from]
(* A parameter and where it ends: its value starts at v, and is read to the   *)
(* next semicolon or to the closing quote.                                    *)
ParamTo(s, name, read) == [param |-> <<<<name, TrimLWS(read.text)>>>>, end |-> Find(s, read.end, {";"})]
UnquotedParam(s, v) == LET semi == Find(s, v, {";"}) IN [end |-> semi, text |-> Cut(s, v, semi - 1)]
ParamValue(s, name, v) ==
  IF v > Len(s) \/ At(s, v) = ";" THEN [param |-> <<>>, end |-> v]
  ELSE ParamTo(s, name, IF At(s, v) = "\"" THEN QuotedParam(s, v + 1) ELSE UnquotedParam(s, v))
ParamAt(s, n, e) ==
  IF At(s, e) # "=" THEN [param |-> <<>>, end |-> e] ELSE ParamValue(s, Cut(s, n, e - 1), FindNot(s, e + 1, LWS))
NextParam(s, n) == ParamAt(s, n, Find(s, n, {";", "="}))
Params(s, o) ==
  LET P[k \in o..(Len(s) + 1)] ==
        IF k > Len(s) THEN <<>>
        ELSE LET next == NextParam(s, FindNot(s, k + 1, LWS)) IN next.param \o P[next.end]
  IN P[o]
Param(params, name) ==
  LET k == First({i \in DOMAIN params : ToLowerASCII(params[i][1]) = name}, 0)
  IN [has |-> k > 0, value |-> IF k > 0 THEN params[k][2] ELSE ""]

NoContentType == [mime_type |-> "", charset |-> "", had_charset |-> FALSE, boundary |-> ""]

SetType_KeepCharset(st, type, charset) ==
  [st EXCEPT !.mime_type = type,
             !.had_charset = @ \/ charset.has,
             !.charset = IF charset.has THEN ToLowerASCII(charset.value) ELSE @]
SetType(st, type, charset) ==
  LET eq == st.mime_type # "" /\ type = st.mime_type
      update == (~eq /\ st.had_charset) \/ charset.has
  IN [st EXCEPT !.mime_type = type,
                !.had_charset = @ \/ update,
                !.charset = IF update THEN ToLowerASCII(charset.value) ELSE @]
SetBoundary(st, boundary) == [st EXCEPT !.boundary = IF boundary.has THEN boundary.value ELSE @]
TypeAndParams(s, st, type, params) ==
  LET withBoundary == SetBoundary(st, Param(params, "boundary"))
  IN IF s = "*/*" \/ "/" \notin CharsOf(s) THEN withBoundary
     ELSE SetType(withBoundary, ToLowerASCII(type), Param(params, "charset"))
ParseContentType(s, st) ==
  LET type_val == FindNot(s, 1, LWS)
      type_end == Find(s, type_val, LWS \cup {";", "("})
  IN TypeAndParams(s, st, Cut(s, type_val, type_end - 1), Params(s, Find(s, type_end, {";"})))

(* Ranges.  Both parsers convert a piece of the text through its data()       *)
(* pointer, and ParseRangeHeader reads last-byte-pos from first_byte_pos.     *)
GetHeaderValue(r) ==
  "bytes=" \o (IF IsSuffixByteRange(r) THEN "-" \o ToString(r.suffix)
               ELSE ToString(r.first) \o "-" \o (IF HasLastBytePosition(r) THEN ToString(r.last) ELSE ""))
RangeFrom(n, hasFirst, hasLast) ==
  LET r == IF hasFirst /\ hasLast THEN Bounded(n.v, n.v) ELSE IF hasFirst THEN RightUnbounded(n.v) ELSE Suffix(n.v)
  IN [ok |-> (hasFirst \/ hasLast) /\ n.ok /\ IsValid(r), range |-> r]
RangeOf(s, sp) ==
  LET minus == Find(Cut(s, 1, sp[2]), sp[1], {"-"})
      Piece(first, last) == RangeFrom(StringToInt64(s, first), first[1] <= first[2], last[1] <= last[2])
  IN IF minus > sp[2] THEN [ok |-> FALSE, range |-> HttpByteRange]
     ELSE Piece(TrimSpan(s, <<sp[1], minus - 1>>), TrimSpan(s, <<minus + 1, sp[2]>>))
UntilBadRange(ranges) ==
  LET bad == First({k \in DOMAIN ranges : ~ranges[k].ok}, Len(ranges) + 1)
  IN [ok |-> bad > Len(ranges) /\ bad > 1, ranges |-> [k \in 1..(bad - 1) |-> ranges[k].range]]
RangesIn(s, values) == UntilBadRange([k \in DOMAIN values |-> RangeOf(s, values[k])])
ParseRangeHeader(s) ==
  LET eq == Find(s, 1, {"="})
  IN IF eq > Len(s) \/ ToLowerASCII(TrimLWS(Cut(s, 1, eq - 1))) # "bytes" THEN [ok |-> FALSE, ranges |-> <<>>]
     ELSE RangesIn(s, ValuesIterator(s, <<eq + 1, Len(s)>>, ",", TRUE))

ContentRange(r, size) == "bytes " \o ToString(r.first) \o "-" \o ToString(r.last) \o "/" \o ToString(size)
ContentRangeOf(a, b, n) ==
  IF a.ok /\ a.v >= 0 /\ b.ok /\ b.v >= a.v /\ n.ok /\ n.v > b.v
  THEN [ok |-> TRUE, first |-> a.v, last |-> b.v, length |-> n.v]
  ELSE [ok |-> FALSE, first |-> -1, last |-> -1, length |-> -1]
ParseContentRangeHeaderFor206(spec) ==
  LET NumberAt(from, to) == StringToInt64(spec, TrimSpan(spec, <<from, to>>))
      After(from, c) == Find(Cut(spec, 1, TrimSpan(spec, <<1, Len(spec)>>)[2]), from, {c})
      Parts(t, space, minus, slash) ==
        IF slash > t[2] \/ ToLowerASCII(TrimLWS(Cut(spec, t[1], space - 1))) # "bytes"
        THEN [ok |-> FALSE, first |-> -1, last |-> -1, length |-> -1]
        ELSE ContentRangeOf(NumberAt(space + 1, minus - 1), NumberAt(minus + 1, slash - 1), NumberAt(slash + 1, t[2]))
      FromMinus(t, space, minus) == Parts(t, space, minus, After(minus + 1, "/"))
      FromSpace(t, space) == FromMinus(t, space, After(space + 1, "-"))
      FromStart(t) == FromSpace(t, After(t[1], " "))
  IN FromStart(TrimSpan(spec, <<1, Len(spec)>>))

(* ParseAcceptEncoding, entry by entry: what the entry adds, or a refusal. *)
QValue(q) ==
  IF At(q, 1) = "1" THEN IF q \in {"1", "1.", "1.0", "1.00", "1.000"} THEN "one" ELSE "bad"
  ELSE IF At(q, 1) # "0" THEN "bad"
  ELSE IF Len(q) = 1 THEN "zero"
  ELSE IF Len(q) <= 2 \/ Len(q) > 5 \/ At(q, 2) # "." \/ (\E i \in 3..Len(q) : At(q, i) \notin NUM) THEN "bad"
  ELSE IF \E i \in 3..Len(q) : At(q, i) # "0" THEN "some" ELSE "zero"
Weight(params) ==
  LET equals == Find(params, 1, {"="})
  IN IF equals > Len(params) \/ ToLowerASCII(TrimLWS(Cut(params, 1, equals - 1))) # "q" THEN "bad"
     ELSE QValue(TrimLWS(Cut(params, equals + 1, Len(params))))
Weighed(encoding, weight) ==
  [ok |-> CharsOf(encoding) \cap LWS = {} /\ weight # "bad",
   add |-> IF weight \in {"one", "some"} THEN {ToLowerASCII(encoding)} ELSE {}]
EncodingEntry(token) ==
  LET entry == TrimLWS(token)
      semicolon == Find(entry, 1, {";"})
  IN Weighed(TrimLWS(Cut(entry, 1, semicolon - 1)),
             IF semicolon > Len(entry) THEN "one" ELSE Weight(TrimLWS(Cut(entry, semicolon + 1, Len(entry)))))

Aliases == {{"gzip", "x-gzip"}, {"compress", "x-compress"}}
Augment_OneWay(encodings) ==
  IF encodings = {} THEN {"*"}
  ELSE encodings \cup {"identity"} \cup (IF "gzip" \in encodings THEN {"x-gzip"} ELSE {})
Augment(encodings) ==
  IF encodings = {} THEN {"*"}
  ELSE encodings \cup {"identity"} \cup UNION {a \in Aliases : a \cap encodings # {}}
ParseAcceptEncoding(s) ==
  LET parsed == {EncodingEntry(e) : e \in ToSet(Split(s, {","}))}
  IN IF "\"" \in CharsOf(s) \/ (\E e \in parsed : ~e.ok) THEN [ok |-> FALSE, encodings |-> {}]
     ELSE [ok |-> TRUE, encodings |-> Augment(UNION {e.add : e \in parsed})]
ParseContentEncoding(s) ==
  LET parsed == {TrimLWS(e) : e \in ToSet(Split(s, {","}))}
  IN IF CharsOf(s) \cap CharsOf("\"=;*") # {} \/ (\E e \in parsed : CharsOf(e) \cap LWS # {}) THEN [ok |-> FALSE, encodings |-> {}]
     ELSE [ok |-> TRUE, encodings |-> {ToLowerASCII(e) : e \in parsed}]

(* Language lists; SplitString(SPLIT_WANT_ALL, TRIM_WHITESPACE). *)
SplitTrimmed(s, delim) ==
  LET t == TextOf(s, Tokens(s, <<1, Len(s)>>, {delim}, {}))
  IN IF s = "" THEN <<>> ELSE [k \in DOMAIN t |-> TrimLWS(t[k])]
GetBaseLanguageCode(code) == IF code = "" THEN "" ELSE SplitTrimmed(code, "-")[1]
AddLanguageCode(b, language) ==
  IF language \in b.seen THEN b
  ELSE [str |-> IF b.str = "" THEN language ELSE b.str \o "," \o language, seen |-> b.seen \cup {language}]
AddLanguage_Eager(b, languages, i) ==
  AddLanguageCode(AddLanguageCode(b, languages[i]), GetBaseLanguageCode(languages[i]))
AddLanguage(b, languages, i) ==
  LET base == GetBaseLanguageCode(languages[i])
      added == AddLanguageCode(b, languages[i])
  IN IF i = Len(languages) \/ GetBaseLanguageCode(languages[i + 1]) # base THEN AddLanguageCode(added, base) ELSE added
AddLanguages(languages) ==
  LET B[i \in 0..Len(languages)] == IF i = 0 THEN [str |-> "", seen |-> {}] ELSE AddLanguage(B[i - 1], languages, i)
  IN B[Len(languages)].str
ExpandLanguageList(prefs) ==
  AddLanguages(SplitTrimmed(prefs, ","))
WithQValues(languages) ==
  LET G[i \in 0..Len(languages)] ==
        CASE i = 0 -> ""
          [] i = 1 -> languages[1]
          [] OTHER -> G[i - 1] \o "," \o languages[i] \o ";q=0." \o ToString(Max({11 - i, 1}))
  IN G[Len(languages)]
GenerateAcceptLanguageHeader(list) == WithQValues(Split(list, {","}))

(* net/base/parse_number.cc, for a type with the values lo..hi. *)
ParseIntHelper_Signed(s, non_negative, lo, hi) ==
  LET r == SimpleAtoi(s, lo, hi)
  IN IF s = "" \/ At(s, 1) \notin NUM \cup {"+", "-"} THEN [ok |-> FALSE, v |-> 0, error |-> "PARSE"]
     ELSE [ok |-> r.ok, v |-> r.v, error |-> IF r.ok THEN "" ELSE "PARSE"]
ParseIntHelper(s, non_negative, lo, hi) ==
  LET negative == At(s, 1) = "-"
      numeric == IF negative THEN Cut(s, 2, Len(s)) ELSE s
      Error(e) == [ok |-> FALSE, v |-> 0, error |-> e]
      Converted(r) ==
        IF r.ok THEN [ok |-> TRUE, v |-> r.v, error |-> ""]
        ELSE IF numeric # "" /\ CharsOf(numeric) \subseteq NUM THEN Error(IF negative THEN "UNDERFLOW" ELSE "OVERFLOW")
        ELSE Error("PARSE")
  IN IF At(s, 1) \notin NUM /\ (non_negative \/ ~negative) THEN Error("PARSE") ELSE Converted(SimpleAtoi(s, lo, hi))
=============================================================================
