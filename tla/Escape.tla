------------------------------- MODULE Escape -------------------------------
(* net/base/escape.cc.  A text is a sequence of bytes. *)
EXTENDS Integers, SequencesExt

(* Charmap: 256 bits, here in half words so that they fit TLC's integers. *)
InCharmap(map, c) == (map[c \div 16 + 1] \div 2^(c % 16)) % 2 = 1
Controls == <<65535, 65535>>
HighHalf == [i \in 1..8 |-> 65535]
Charmap(a, b, c, d, e, f) == Controls \o <<a, b, c, d, e, f>> \o HighHalf
kUnreservedCharmap == Charmap(\h9fff, \hfc00, \h0001, \h7800, \h0001, \hb800)
kQueryCharmap == Charmap(\h987d, \hfc00, \h0001, \h7800, \h0001, \hb800)
kPathCharmap == Charmap(\h002d, \hd400, \h0000, \h7800, \h0001, \hb800)
kUrlEscape == Charmap(\h08fd, \hf800, \h0001, \h7800, \h0001, \hb800)
kExternalHandlerCharmap == Charmap(\h0025, \h5000, \h0000, \h5000, \h0001, \hb800)
kNonASCIICharmapAndPercent == <<0, 0, \h0020, 0, 0, 0, 0, 0>> \o HighHalf

Percent == 37
Plus == 43
Space == 32
IntToHex(i) == IF i < 10 THEN 48 + i ELSE 55 + i
IsHexDigit(c) == c \in (48..57) \cup (65..70) \cup (97..102)
EscapedByte(c) == <<Percent, IntToHex(c \div 16), IntToHex(c % 16)>>
IsEscape_Short(text, i) == text[i] = Percent /\ i + 2 < Len(text) /\ IsHexDigit(text[i + 1]) /\ IsHexDigit(text[i + 2])
IsEscape(text, i) == text[i] = Percent /\ i + 2 <= Len(text) /\ IsHexDigit(text[i + 1]) /\ IsHexDigit(text[i + 2])
Escape_KeepPlus(text, map, use_plus, keep_escaped) ==
  FlattenSeq([i \in DOMAIN text |->
    IF use_plus /\ text[i] = Space THEN <<Plus>>
    ELSE IF InCharmap(map, text[i]) /\ text[i] # Plus THEN EscapedByte(text[i]) ELSE <<text[i]>>])
Escape(text, map, use_plus, keep_escaped) ==
  FlattenSeq([i \in DOMAIN text |->
    IF use_plus /\ text[i] = Space THEN <<Plus>>
    ELSE IF keep_escaped /\ IsEscape(text, i) THEN <<Percent>>
    ELSE IF InCharmap(map, text[i]) THEN EscapedByte(text[i]) ELSE <<text[i]>>])

EscapeAllExceptUnreserved(text) == Escape(text, kUnreservedCharmap, FALSE, FALSE)
EscapeQueryParamValue(text, use_plus) == Escape(text, kQueryCharmap, use_plus, FALSE)
EscapePath(text) == Escape(text, kPathCharmap, FALSE, FALSE)
EscapeUrlEncodedData(text, use_plus) == Escape(text, kUrlEscape, use_plus, FALSE)
EscapeNonASCIIAndPercent(text) == Escape(text, kNonASCIICharmapAndPercent, FALSE, FALSE)
EscapeExternalHandlerValue(text) == Escape(text, kExternalHandlerCharmap, FALSE, TRUE)

(* HTML: the characters  < > & " '  and their names. *)
kCharsToEscape ==
  <<[key |-> 60, code |-> <<38, 108, 116, 59>>], [key |-> 62, code |-> <<38, 103, 116, 59>>],
    [key |-> 38, code |-> <<38, 97, 109, 112, 59>>], [key |-> 34, code |-> <<38, 113, 117, 111, 116, 59>>],
    [key |-> 39, code |-> <<38, 35, 51, 57, 59>>]>>
AppendEscapedCharForHTML_KeepAmp(c) ==
  LET e == SelectSeq(kCharsToEscape, LAMBDA x : x.key = c /\ c # 38) IN IF e = <<>> THEN <<c>> ELSE e[1].code
AppendEscapedCharForHTML(c) ==
  LET e == SelectSeq(kCharsToEscape, LAMBDA x : x.key = c) IN IF e = <<>> THEN <<c>> ELSE e[1].code
EscapeForHTML(text) == FlattenSeq([i \in DOMAIN text |-> AppendEscapedCharForHTML(text[i])])
(* One pass; the character put in place of a code is not looked at again. *)
CodesAt(text, i) == SelectSeq(kCharsToEscape, LAMBDA x : i + Len(x.code) - 1 <= Len(text) /\ SubSeq(text, i, i + Len(x.code) - 1) = x.code)
UnescapeForHTML(text) ==
  LET U[i \in 1..(Len(text) + 1)] ==
        LET codes == CodesAt(text, i)
        IN IF i > Len(text) THEN <<>>
           ELSE IF codes = <<>> THEN <<text[i]>> \o U[i + 1] ELSE <<codes[1].key>> \o U[i + Len(codes[1].code)]
  IN U[1]
=============================================================================
