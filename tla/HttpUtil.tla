------------------------------ MODULE HttpUtil ------------------------------
(* http_parser/http_util.cc: the functions on header text.  A span is a pair  *)
(* <<first, last>> of positions of a text, as the code's pairs of iterators;  *)
(* it is empty when last = first - 1.  StringTokenizer (googleurl) and        *)
(* SimpleAtoi (abseil) are outside the repository.                            *)
EXTENDS Text, Widths, FiniteSets, SequencesExt

NUL == "\f"  \* stands for the byte 0, which a TLA+ string cannot hold
npos == -1

Cut(s, a, b) == IF a > b THEN "" ELSE SubSeq(s, a, b)
Span(s, sp) == Cut(s, sp[1], sp[2])
MapChars(s, Op(_)) ==
  LET M[a, b \in 1..Len(s)] == IF a = b THEN Op(At(s, a)) ELSE LET m == (a + b) \div 2 IN M[a, m] \o M[m + 1, b]
  IN IF s = "" THEN "" ELSE M[1, Len(s)]
ToLowerASCII(s) == MapChars(s, LAMBDA c : IF c \in ALPHA THEN LOWER(c) ELSE c)
First(S, none) == IF S = {} THEN none ELSE Min(S)
Find(s, from, chars) == First({i \in from..Len(s) : At(s, i) \in chars}, Len(s) + 1)
FindNot(s, from, chars) == First({i \in from..Len(s) : At(s, i) \notin chars}, Len(s) + 1)
StartsWith(s, prefix) == Len(s) >= Len(prefix) /\ Cut(s, 1, Len(prefix)) = prefix

IsLWS(c) == c \in LWS
IsQuote(c) == c = "\""
Separators == CharsOf("()<>@,;:\\\"/[]?={}")
IsTokenChar(c) == c \in Printable /\ c \notin Separators
IsToken(s) == s # "" /\ \A c \in CharsOf(s) : IsTokenChar(c)
IsParmName(s) == s # "" /\ \A c \in CharsOf(s) : IsTokenChar(c) /\ c \notin CharsOf("*'%")
IsValidHeaderValue(s) == CharsOf(s) \cap {NUL, "\r", "\n"} = {}
IsNonCoalescingHeader(name) ==
  ToLowerASCII(name) \in {"date", "expires", "last-modified", "location", "retry-after", "set-cookie",
                          "www-authenticate", "proxy-authenticate", "strict-transport-security"}

TrimSpan(s, sp) ==
  LET solid == {i \in sp[1]..sp[2] : ~IsLWS(At(s, i))}
  IN IF solid = {} THEN <<sp[2] + 1, sp[2]>> ELSE <<Min(solid), Max(solid)>>
TrimLWS(s) == Span(s, TrimSpan(s, <<1, Len(s)>>))

(* StringTokenizer: the spans between delimiters outside quotes; a backslash  *)
(* in quotes protects the character after it.                                 *)
QuoteState(s, quotes) ==
  LET Q[i \in 0..Len(s)] ==
        IF i = 0 THEN "out"
        ELSE LET before == Q[i - 1]
             IN CASE before = "escape" -> "in"
                  [] before = "in" -> IF At(s, i) = "\\" THEN "escape" ELSE IF At(s, i) \in quotes THEN "out" ELSE "in"
                  [] OTHER -> IF At(s, i) \in quotes THEN "in" ELSE "out"
  IN Q
NonEmpty(spans) == SelectSeq(spans, LAMBDA t : t[1] <= t[2])
Spans(from, ends) == [k \in 1..(Len(ends) - 1) |-> <<from + ends[k], from + ends[k + 1] - 2>>]
Ends(text, delims, quotes) ==
  LET q == QuoteState(text, quotes)
  IN SelectSeq([i \in 1..(Len(text) + 2) |-> i - 1],
       LAMBDA i : i \in {0, Len(text) + 1} \/ (At(text, i) \in delims /\ (quotes = {} \/ q[i - 1] = "out")))
Tokens(s, sp, delims, quotes) == Spans(sp[1], Ends(Span(s, sp), delims, quotes))
TextOf(s, spans) == [k \in DOMAIN spans |-> Span(s, spans[k])]
Split(s, delims) == TextOf(s, NonEmpty(Tokens(s, <<1, Len(s)>>, delims, {})))

(* SimpleAtoi: white space around an optional sign and digits; on a bad       *)
(* character the value read so far is stored, on overflow the nearest bound.  *)
Digit(p, sign, c, lo, hi) ==
  LET n == 10 * p.v + sign * DigitVal(c)
  IN IF p.end THEN p
     ELSE IF c \notin NUM THEN [p EXCEPT !.end = TRUE, !.ok = FALSE]
     ELSE IF n > hi THEN [v |-> hi, end |-> TRUE, ok |-> FALSE]
     ELSE IF n < lo THEN [v |-> lo, end |-> TRUE, ok |-> FALSE]
     ELSE [v |-> n, end |-> FALSE, ok |-> TRUE]
Number(digits, sign, lo, hi) ==
  LET V[i \in 0..Len(digits)] ==
        IF i = 0 THEN [v |-> 0, end |-> FALSE, ok |-> digits # ""]
        ELSE Digit(V[i - 1], sign, At(digits, i), lo, hi)
  IN IF sign = -1 /\ lo = 0 THEN [ok |-> FALSE, v |-> 0] ELSE [ok |-> V[Len(digits)].ok, v |-> V[Len(digits)].v]
Signed(t, lo, hi) ==
  Number(Cut(t, IF At(t, 1) \in {"+", "-"} THEN 2 ELSE 1, Len(t)), IF At(t, 1) = "-" THEN -1 ELSE 1, lo, hi)
SimpleAtoi(s, lo, hi) ==
  LET solid == {i \in 1..Len(s) : At(s, i) \notin LWS \cup CRLF}
  IN Signed(IF solid = {} THEN "" ELSE SubSeq(s, Min(solid), Max(solid)), lo, hi)

(* StringToInt64 is given a StringPiece but reads in.data() to the NUL, that  *)
(* is to the end of the text the piece was cut from.                          *)
StringToInt64(s, sp) == SimpleAtoi(Cut(s, sp[1], Find(s, sp[1], {NUL}) - 1), -INT64_MAX - 1, INT64_MAX)

(* Quoted strings. *)
Failed == [ok |-> FALSE, out |-> ""]
UnquoteImpl(str, strict_quotes) ==
  LET inner == Cut(str, 2, Len(str) - 1)
      U[i \in 0..Len(inner)] ==
        IF i = 0 THEN [ok |-> TRUE, esc |-> FALSE, out |-> ""]
        ELSE LET p == U[i - 1] IN LET c == At(inner, i) IN
             IF c = "\\" /\ ~p.esc THEN [p EXCEPT !.esc = TRUE]
             ELSE [ok |-> p.ok /\ ~(strict_quotes /\ ~p.esc /\ IsQuote(c)), esc |-> FALSE, out |-> p.out \o c]
      u == U[Len(inner)]
  IN IF Len(str) < 2 \/ ~IsQuote(At(str, 1)) \/ ~IsQuote(At(str, Len(str))) THEN Failed
     ELSE IF ~u.ok \/ (strict_quotes /\ u.esc) THEN Failed
     ELSE [ok |-> TRUE, out |-> u.out]
Unquote(str) == LET u == UnquoteImpl(str, FALSE) IN IF u.ok THEN u.out ELSE str
StrictUnquote(str) == UnquoteImpl(str, TRUE)

Quote_Unescaped(str) == "\"" \o MapChars(str, LAMBDA c : IF c = "\"" THEN "\\" \o c ELSE c) \o "\""
Quote(str) == "\"" \o MapChars(str, LAMBDA c : IF c \in {"\"", "\\"} THEN "\\" \o c ELSE c) \o "\""

(* Status line and header lines. *)
LocateStartOfStatusLine(buf) ==
  First({i \in 0..Min({Len(buf) - 4, 4}) : ToLowerASCII(SubSeq(buf, i + 1, i + 4)) = "http"}, npos)

LocateEndOfHeadersHelper_AnyCr(buf, i, accept_empty_header_list) ==
  LET W[k \in 0..Len(buf)] ==
        IF k = 0 THEN accept_empty_header_list
        ELSE At(buf, k) = "\n" \/ (At(buf, k) = "\r" /\ W[k - 1])
  IN First({k \in (i + 1)..Len(buf) : At(buf, k) = "\n" /\ W[k - 1]}, npos)

LocateEndOfHeadersHelper(buf, i, accept_empty_header_list) ==
  LET S[k \in i..Len(buf)] ==  \* after buf[k]: last_c and was_lf
        IF k = i THEN IF accept_empty_header_list THEN [last_c |-> "\n", was_lf |-> TRUE] ELSE [last_c |-> NUL, was_lf |-> FALSE]
        ELSE [last_c |-> At(buf, k),
              was_lf |-> At(buf, k) = "\n" \/ (At(buf, k) = "\r" /\ S[k - 1].last_c = "\n")]
  IN First({k \in (i + 1)..Len(buf) : At(buf, k) = "\n" /\ S[k - 1].was_lf}, npos)
LocateEndOfHeaders(buf, i) == LocateEndOfHeadersHelper(buf, i, FALSE)
LocateEndOfAdditionalHeaders(buf, i) == LocateEndOfHeadersHelper(buf, i, TRUE)

IsLineSegmentContinuable(line) ==
  /\ ":" \in CharsOf(line)
  /\ At(line, 1) # ":"
  /\ ~IsLWS(At(line, 1))

JoinLine_Forgetful(acc, line) ==
  LET continues == acc.continuable /\ IsLWS(At(line, 1))
  IN [raw |-> acc.raw \o (IF continues THEN " " \o Cut(line, FindNot(line, 1, LWS), Len(line)) ELSE "\n" \o line),
      continuable |-> IsLineSegmentContinuable(line)]
JoinLine(acc, line) ==
  IF acc.continuable /\ IsLWS(At(line, 1))
  THEN [acc EXCEPT !.raw = @ \o " " \o Cut(line, FindNot(line, 1, LWS), Len(line))]
  ELSE [raw |-> acc.raw \o "\n" \o line, continuable |-> IsLineSegmentContinuable(line)]

JoinLines(text) ==
  LET status_line_end == Find(text, 1, CRLF)
  IN FoldLeft(JoinLine, [raw |-> Cut(text, 1, status_line_end - 1), continuable |-> FALSE],
              Split(Cut(text, status_line_end, Len(text)), CRLF)).raw
AssembleRawHeaders(input) ==
  LET start == LocateStartOfStatusLine(input)
  IN MapChars(JoinLines(IF start = npos THEN input ELSE Cut(input, start + 1, Len(input))) \o "\n\n",
              LAMBDA c : CASE c = NUL -> "" [] c = "\n" -> NUL [] OTHER -> c)

ConvertHeadersBackToHTTPResponse(str) ==
  FoldLeft(LAMBDA acc, line : acc \o line \o "\r\n", "", Split(str, {NUL})) \o "\r\n"

(* HeadersIterator: the well-formed lines of a span, as spans of name and values. *)
NameAndValues(s, sp, colon) ==
  LET name == TrimSpan(s, <<sp[1], colon - 1>>)
  IN [ok |-> colon <= sp[2] /\ colon > sp[1] /\ ~IsLWS(At(s, sp[1])) /\ IsToken(Span(s, name)),
      name |-> name, values |-> TrimSpan(s, <<colon + 1, sp[2]>>)]
HeaderLine(s, sp) == NameAndValues(s, sp, Find(Cut(s, 1, sp[2]), sp[1], {":"}))
HeadersIterator(s, sp, delim) ==
  LET t == NonEmpty(Tokens(s, sp, delim, {}))
  IN SelectSeq([k \in DOMAIN t |-> HeaderLine(s, t[k])], LAMBDA h : h.ok)

ValuesIterator(s, sp, delimiter, ignore_empty_values) ==
  LET t == Tokens(s, sp, {delimiter}, {"\""})
      v == [k \in DOMAIN t |-> TrimSpan(s, t[k])]
  IN IF ignore_empty_values THEN NonEmpty(v) ELSE v

(* NameValuePairsIterator::GetNext on one property; a dangling quote is       *)
(* dropped unless quotes are strict.                                          *)
PairOf(name, value, found, values_optional, strict_quotes) ==
  LET dangling == ~IsQuote(At(value, Len(value))) \/ Len(value) = 1
      quoted == IsQuote(At(value, 1))
  IN [valid |-> /\ name # ""
                /\ found \/ values_optional
                /\ found => value # "" /\ ~\E c \in CharsOf(name) : IsQuote(c)
                /\ quoted /\ strict_quotes => StrictUnquote(value).ok,
      name |-> TrimLWS(name),
      value |-> IF ~quoted THEN value
                ELSE IF strict_quotes THEN StrictUnquote(value).out
                ELSE IF dangling THEN Cut(value, 2, Len(value)) ELSE Unquote(value)]
Pair(prop, values_optional, strict_quotes) ==
  LET equals == Find(prop, 1, {"="})
  IN PairOf(Cut(prop, 1, equals - 1), TrimLWS(Cut(prop, equals + 1, Len(prop))), equals <= Len(prop),
            values_optional, strict_quotes)
UntilBad(p) ==
  LET bad == First({k \in DOMAIN p : ~p[k].valid}, Len(p) + 1)
  IN [valid |-> bad > Len(p), pairs |-> [k \in 1..(bad - 1) |-> <<p[k].name, p[k].value>>]]
NameValuePairs(s, delimiter, values_optional, strict_quotes) ==
  LET v == TextOf(s, ValuesIterator(s, <<1, Len(s)>>, delimiter, TRUE))
  IN UntilBad([k \in DOMAIN v |-> Pair(v[k], values_optional, strict_quotes)])
=============================================================================
