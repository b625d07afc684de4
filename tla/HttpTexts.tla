----------------------------- MODULE HttpTexts -----------------------------
(* The functions of http_parser/ and net/base that turn one text into another *)
(* or into values.  A behaviour picks one kind of text and lets it grow word  *)
(* by word from one of the kind's beginnings, so that every text of up to so  *)
(* many words is a state; each property is about the texts of one kind.       *)
EXTENDS HttpFields

E == INSTANCE Escape
Url == INSTANCE HttpUrl WITH U16 <- 100

CONSTANT Chosen  \* kinds of texts

VARIABLES kind, text, words
vars == <<kind, text, words>>

From(starts, wordsOf, max) == [starts |-> starts, words |-> wordsOf, max |-> max]
Kinds ==
  [url |-> From({"/", "a", "a://", "a://a", "a://[1", "a:1", "[1"}, CharsOf("a19/:?#@[].%"), 3),
   lines |-> From({"", "x http", "http\na:b\r\n", "http\r\n a:"}, {"http", "a:", "b", " ", "\r", "\n", ":"}, 4),
   pairs |-> From({""}, CharsOf("\"\\; =x,"), 4),
   params |-> From({""}, CharsOf("\"\\; =X"), 4),
   types |-> From({""}, {"a/b", "c/d", ";", "charset=", "X", "\"", " ", "*/*"}, 4),
   encodings |-> From({""}, {"gzip", "x-compress", "*", ",", " ", ";q=", "0", ".5", "\""}, 4),
   languages |-> From({"en", "fr-ca", "a,b,c,d,e,f,g,h"}, {",en", ",en-us", ", en-gb", ",fr", ",fr-ca"}, 4),
   numbers |-> From({""}, {"0", "1", "2", "7", "8", "-", "+", " "}, 4),
   ranges |-> From({"bytes=", "bytes "}, {"0", "1", "2", "-", "/"}, 5),
   bytes |-> From({<<>>}, {<<b>> : b \in {32, 37, 43, 38, 50, 65, 200}}
                            \cup {<<97, 109, 112, 59>>, <<38, 108, 116, 59>>}, 4)]

Init == kind \in Chosen /\ text \in Kinds[kind].starts /\ words = 0
AppendWord ==
  /\ words < Kinds[kind].max /\ words' = words + 1
  /\ \E w \in Kinds[kind].words : text' = text \o w
  /\ UNCHANGED kind
Spec == Init /\ [][AppendWord]_vars

Halves == {<<Cut(text, 1, i), Cut(text, i + 1, Len(text))>> : i \in 0..Len(text)}
Numeral(s) == LET V[i \in 0..Len(s)] == IF i = 0 THEN 0 ELSE 10 * V[i - 1] + DigitVal(At(s, i)) IN V[Len(s)]

---------------------------------------------------------------------------
(* http_parser_parse_url *)

FieldText(Parsed, f) == IF f \in Parsed.set THEN SubSeq(text, Parsed.data[f].off + 1, Parsed.data[f].off + Parsed.data[f].len) ELSE ""

FirstIn(s, from, set) ==
  IF \E i \in from..Len(s) : At(s, i) \in set
  THEN CHOOSE i \in from..Len(s) : At(s, i) \in set /\ \A j \in from..(i - 1) : At(s, j) \notin set
  ELSE Len(s) + 1

(* The fields as the delimiters of the whole text define them. *)
HostPort(s) ==
  LET bracketed == At(s, 1) = "["
      e == FirstIn(s, 1, {IF bracketed THEN "]" ELSE ":"})
  IN [HOST |-> SubSeq(s, IF bracketed THEN 2 ELSE 1, e - 1),
      PORT |-> SubSeq(s, (IF bracketed THEN e + 1 ELSE e) + 1, Len(s))]
Authority(s) ==
  LET at == FirstIn(s, 1, {"@"})
  IN [USERINFO |-> IF at > Len(s) THEN "" ELSE SubSeq(s, 1, at - 1)]
     @@ HostPort(IF at > Len(s) THEN s ELSE SubSeq(s, at + 1, Len(s)))
QueryAndFragment(s) ==  \* from the delimiter of the path on
  LET h == FirstIn(s, 1, {"#"})
  IN [QUERY |-> IF At(s, 1) = "?" THEN SubSeq(s, 2, h - 1) ELSE "",
      FRAGMENT |-> SubSeq(s, FirstIn(s, h, CharsOf(s) \ {"#"}), Len(s))]
FromPath(s) ==
  LET q == FirstIn(s, 1, {"?", "#"}) IN [PATH |-> SubSeq(s, 1, q - 1)] @@ QueryAndFragment(SubSeq(s, q, Len(s)))
FromAuthority(s) ==
  LET p == FirstIn(s, 1, {"/", "?"}) IN Authority(SubSeq(s, 1, p - 1)) @@ FromPath(SubSeq(s, p, Len(s)))
Reference(is_connect) ==
  LET scheme == IF ~is_connect /\ At(text, 1) \in ALPHA THEN FirstIn(text, 1, {":"}) - 1 ELSE 0
  IN [SCHEMA |-> SubSeq(text, 1, scheme)]
     @@ (IF is_connect \/ scheme > 0 THEN FromAuthority(SubSeq(text, IF scheme > 0 THEN scheme + 4 ELSE 1, Len(text)))
         ELSE Authority("") @@ FromPath(text))

AsDelimited(parsed, reference) ==
  parsed.ok => /\ \A f \in Url!Fields : FieldText(parsed, f) = reference[f]
               /\ \A f \in parsed.set : FieldText(parsed, f) # ""

(* When http_parser_parse_url accepts a URL, each of the seven fields that its *)
(* two automata, walking the bytes with 16-bit offsets, have marked is exactly *)
(* the text the delimiters enclose, and a field is set only when not empty.    *)
FieldsAsDelimited ==
  kind = "url" => \A is_connect \in BOOLEAN : AsDelimited(Url!http_parser_parse_url(text, is_connect), Reference(is_connect))

PortRead(parsed) == parsed.ok => parsed.port = Numeral(FieldText(parsed, "PORT"))

(* The port http_parser_parse_url stores in a uint16_t is the number written in *)
(* the URL: a port that does not fit is refused, never truncated.               *)
PortAsWritten == kind = "url" => \A is_connect \in BOOLEAN : PortRead(Url!http_parser_parse_url(text, is_connect))

---------------------------------------------------------------------------
(* Header lines and quoted values *)

(* Joining continuation lines and writing the headers back out loses nothing  *)
(* a second reading would see: AssembleRawHeaders undoes                      *)
(* ConvertHeadersBackToHTTPResponse on everything it has produced itself from *)
(* a text with a status line.                                                 *)
LinesSettle ==
  kind = "lines" =>
  LET raw == AssembleRawHeaders(text)
  IN LocateStartOfStatusLine(text) # npos => AssembleRawHeaders(ConvertHeadersBackToHTTPResponse(raw)) = raw

BlankLineAt(s, from, k) ==
  /\ At(s, k) = "\n"
  /\ \/ k > from + 1 /\ At(s, k - 1) = "\n"
     \/ k > from + 2 /\ At(s, k - 1) = "\r" /\ At(s, k - 2) = "\n"

(* The headers end at the first LF[CR]LF, wherever the search starts, and the *)
(* headers of a part or a trailer, which have no status line, end where they  *)
(* would with one line break before them.                                     *)
EndOfHeaders ==
  kind = "lines" => \A i \in 0..Len(text) :
    /\ LocateEndOfHeaders(text, i) = First({k \in (i + 1)..Len(text) : BlankLineAt(text, i, k)}, npos)
    /\ LET whole == LocateEndOfHeaders("\n" \o Cut(text, i + 1, Len(text)), 0)
       IN LocateEndOfAdditionalHeaders(text, i) = IF whole = npos THEN npos ELSE whole - 1 + i

(* Whatever characters two values hold, quotes, backslashes, delimiters and   *)
(* spaces included, Quote writes them so that the name-value iterator, strict *)
(* about quotes or not, reads back exactly those two pairs.                   *)
QuotedPairsSurvive ==
  kind = "pairs" => \A i \in 0..Len(text), strict_quotes \in BOOLEAN, values_optional \in BOOLEAN :
    LET v == Cut(text, 1, i)
        w == Cut(text, i + 1, Len(text))
    IN NameValuePairs("a=" \o Quote(v) \o "; b = " \o Quote(w), ";", values_optional, strict_quotes)
         = [valid |-> TRUE, pairs |-> <<<<"a", v>>, <<"b", w>>>>]

---------------------------------------------------------------------------
(* Values of fields *)

(* A quoted boundary and charset come out of ParseContentType as Quote put    *)
(* them in (trimmed, the charset in lower case), whatever they hold, the      *)
(* semicolons and quotes that delimit parameters included.                    *)
QuotedParamsSurvive ==
  kind = "params" =>
  \A h \in Halves :
    ParseContentType("t/s;boundary=" \o Quote(h[1]) \o "; charset = x;charset=" \o Quote(h[2]), NoContentType)
      = [mime_type |-> "t/s", boundary |-> TrimLWS(h[1]), had_charset |-> TRUE, charset |-> ToLowerASCII(TrimLWS(h[2]))]

OneOfTwo(one, two, both) ==
  /\ both.mime_type \in {one.mime_type, two.mime_type}
  /\ both.charset # "" => \E t \in {one, two} : t.mime_type = both.mime_type /\ t.charset = both.charset

(* The charset reported after several Content-Type headers was given by a     *)
(* header for the reported type: one that changes the type does not leave the *)
(* charset of another.                                                        *)
CharsetOfType ==
  kind = "types" =>
  \A h \in Halves :
    LET one == ParseContentType(h[1], NoContentType)
    IN OneOfTwo(one, ParseContentType(h[2], NoContentType), ParseContentType(h[2], one))

UnionOf(a, b, ab) ==
  /\ ab.ok <=> a.ok /\ b.ok
  /\ ab.ok => /\ ab.encodings \in {a.encodings \cup b.encodings, (a.encodings \cup b.encodings) \ {"*"}}
              /\ \A s \in Aliases : s \subseteq ab.encodings \/ s \cap ab.encodings = {}

(* An Accept-Encoding list means what its parts mean: it is well-formed when  *)
(* they are, allows what one of them allows (all encodings when none is       *)
(* named), and treats the two names of gzip and of compress alike.            *)
EncodingsUnion ==
  kind = "encodings" =>
  \A h \in Halves :
    UnionOf(ParseAcceptEncoding(h[1]), ParseAcceptEncoding(h[2]), ParseAcceptEncoding(h[1] \o "," \o h[2]))

Expansion(expanded, wanted, listed, qvalues) ==
  LET Place(x) == CHOOSE k \in DOMAIN listed : listed[k] = x
      New(j) == wanted[j] \notin UNION {{wanted[k], GetBaseLanguageCode(wanted[k])} : k \in 1..(j - 1)}
  IN /\ \A i, j \in DOMAIN listed : listed[i] = listed[j] => i = j
     /\ Range(listed) = UNION {{l, GetBaseLanguageCode(l)} : l \in Range(wanted)}
     /\ \A i, j \in DOMAIN wanted : i < j /\ New(j) => Place(wanted[i]) < Place(wanted[j])
     /\ \A i \in 2..Len(wanted) :
          LET base == GetBaseLanguageCode(wanted[i])
          IN /\ GetBaseLanguageCode(wanted[i - 1]) = base
             /\ base \notin {wanted[i - 1], wanted[i]} \cup {GetBaseLanguageCode(wanted[k]) : k \in 1..(i - 2)}
             => Place(wanted[i]) < Place(base)
     /\ ExpandLanguageList(expanded) = expanded
     /\ qvalues.ok /\ Range(listed) \subseteq qvalues.encodings

(* ExpandLanguageList lists every language of the preferences and its base,   *)
(* each once; a language comes before those first wanted after it, unless one *)
(* is the base that an earlier family brought in; a base follows the run of   *)
(* its regional variants; and expanding again changes nothing.  The           *)
(* Accept-Language header of the result gives every language a weight that    *)
(* the parsing of qvalues accepts and finds positive.                         *)
LanguagesExpanded ==
  kind = "languages" =>
  LET expanded == ExpandLanguageList(text)
  IN Expansion(expanded, SplitTrimmed(text, ","), SplitTrimmed(expanded, ","),
               ParseAcceptEncoding(GenerateAcceptLanguageHeader(expanded)))

Digits(s) == s # "" /\ CharsOf(s) \subseteq NUM
Low == -INT64_MAX - 1

(* The digits of a text without the spaces behind them, and its minus sign.   *)
Written(s, signed) ==
  LET number == Cut(s, 1, Max({0} \cup {i \in 1..Len(s) : At(s, i) # " "}))
      negative == signed /\ At(s, 1) = "-"
      digits == IF negative THEN Cut(number, 2, Len(number)) ELSE number
  IN [negative |-> negative, digits |-> digits, spaced |-> number # s]
ExactlyRead(r, w, v) ==
  IF ~Digits(w.digits) THEN ~r.ok /\ r.error = "PARSE"
  ELSE IF v \in Low..INT64_MAX THEN r.ok /\ r.v = v
  ELSE ~r.ok /\ r.error = IF w.spaced THEN "PARSE" ELSE IF w.negative THEN "UNDERFLOW" ELSE "OVERFLOW"

(* ParseIntHelper reads a number exactly or refuses it: it accepts digits,    *)
(* behind a minus sign where negative numbers are allowed, whose value is in  *)
(* range, returns that value, and names the bound that a number crosses;      *)
(* anything else is a parse error.  Spaces behind the digits do not count,    *)
(* though the formats of parse_number.h, 1*DIGIT and ["-"] 1*DIGIT, have      *)
(* none, except that a number out of range is then a parse error.             *)
NumbersExact ==
  kind = "numbers" => \A signed \in BOOLEAN :
    LET w == Written(text, signed)
        magnitude == IF Digits(w.digits) THEN Numeral(w.digits) ELSE 0
    IN ExactlyRead(ParseIntHelper(text, ~signed, IF signed THEN Low ELSE 0, INT64_MAX), w,
                   IF w.negative THEN -magnitude ELSE magnitude)

Asked == {Bounded(a, b) : a, b \in 0..2} \cup {RightUnbounded(a) : a \in 0..2} \cup {Suffix(n) : n \in 1..2}

(* "Parses the value of a "Range" header as defined in RFC 7233 Section 2.1." *)
(* and "returns true if all three values are present and valid for a 206      *)
(* response" (http_util.hh): the value HttpByteRange::GetHeaderValue writes   *)
(* for a valid range, and the Content-Range UpdateWithNewRange writes for it, *)
(* are read back as that range.                                               *)
RangesReadBack ==
  kind = "ranges" => \A r \in {q \in Asked : IsValid(q)} :
    /\ text = GetHeaderValue(r) => ParseRangeHeader(text) = [ok |-> TRUE, ranges |-> <<r>>]
    /\ \A size \in 1..3 :
         HasLastBytePosition(r) /\ r.last < size /\ text = ContentRange(r, size) =>
           ParseContentRangeHeaderFor206(text) = [ok |-> TRUE, first |-> r.first, last |-> r.last, length |-> size]

---------------------------------------------------------------------------
(* Escapes *)

(* The reference: percent sequences back to bytes, then, for a form, + to      *)
(* space before them (UnescapeURLComponent of googleurl).                      *)
HexValue(c) == CASE c \in 48..57 -> c - 48 [] c \in 65..70 -> c - 55 [] OTHER -> c - 87
Unescape(t, plus) ==
  LET U[i \in 1..(Len(t) + 1)] ==
        IF i > Len(t) THEN <<>>
        ELSE IF E!IsEscape(t, i) THEN <<16 * HexValue(t[i + 1]) + HexValue(t[i + 2])>> \o U[i + 3]
        ELSE <<IF plus /\ t[i] = E!Plus THEN E!Space ELSE t[i]>> \o U[i + 1]
  IN U[1]

(* Every escape that also escapes % can be undone, whatever the text already   *)
(* contains, with spaces written as + or not.                                  *)
EscapesUndone ==
  kind = "bytes" =>
  /\ \A e \in {E!EscapeAllExceptUnreserved(text), E!EscapePath(text), E!EscapeNonASCIIAndPercent(text)} : Unescape(e, FALSE) = text
  /\ \A plus \in BOOLEAN : /\ Unescape(E!EscapeQueryParamValue(text, plus), plus) = text
                           /\ Unescape(E!EscapeUrlEncodedData(text, plus), plus) = text

(* "We %XX everything except ... a valid percent escape sequence (%XX)":       *)
(* escaping a value for an external handler again changes nothing.             *)
HandlerStable == kind = "bytes" => LET e == E!EscapeExternalHandlerValue(text) IN E!EscapeExternalHandlerValue(e) = e

(* Text made safe for HTML reads back as itself, also when it looks escaped.   *)
HtmlUndone == kind = "bytes" => E!UnescapeForHTML(E!EscapeForHTML(text)) = text
=============================================================================
