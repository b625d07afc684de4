-------------------------------- MODULE Text --------------------------------
(* Characters as the parsers of http_parser/ classify them.  A text is a     *)
(* TLA+ string, that is a sequence of characters; a character is a string of *)
(* length one.                                                               *)
EXTENDS Naturals, Sequences

At(s, i) == IF i \in 1..Len(s) THEN SubSeq(s, i, i) ELSE ""
CharsOf(s) == {At(s, i) : i \in 1..Len(s)}

ALPHA == CharsOf("ABCDEFGHIJKLMNOPQRSTUVWXYZabcdefghijklmnopqrstuvwxyz")
NUM == CharsOf("0123456789")
HEX == NUM \cup CharsOf("abcdefABCDEF")
CRLF == {"\r", "\n"}
LWS == {" ", "\t"}

DigitVal(c) == CHOOSE d \in 0..9 : At("0123456789", d + 1) = c
unhex(c) == CHOOSE d \in 0..15 : c \in {At("0123456789abcdef", d + 1), At("0123456789ABCDEF", d + 1)}

(* LOWER sets bit 5: a letter becomes lower case, a tab becomes ')', and so on. *)
(* A TLA+ string cannot hold a backquote or a DEL: they are named.              *)
Bit5Clear == "ABCDEFGHIJKLMNOPQRSTUVWXYZ[\\]^\t\r\n"
Bit5Set == "abcdefghijklmnopqrstuvwxyz{|}~)-*"
LowerTable == [c \in CharsOf(Bit5Clear) |-> At(Bit5Set, CHOOSE i \in 1..Len(Bit5Clear) : At(Bit5Clear, i) = c)]
LOWER(c) == CASE c \in DOMAIN LowerTable -> LowerTable[c]
              [] c = "@" -> "backquote"
              [] c = "_" -> "DEL"
              [] OTHER -> c

(* tokens[]: the characters of an RFC 2616 token; TOKEN also lower-cases. *)
TokenChars == ALPHA \cup NUM \cup CharsOf("!#$%&'*+-.^_|~") \cup {"backquote"}
TOKEN(c) == IF c \notin TokenChars THEN "" ELSE IF c \in ALPHA THEN LOWER(c) ELSE c

(* normal_url_char[]: every printable character except space, '#' and '?'. *)
Printable == ALPHA \cup NUM \cup CharsOf("!\"#$%&'()*+,-./:;<=>?@[\\]^_{|}~") \cup {"backquote"}
UrlChars == Printable \ {"#", "?"}
MarkChars == CharsOf("-_.!~*'()")
UserinfoChars == ALPHA \cup NUM \cup MarkChars \cup CharsOf("%;:&=+$,")
HeaderChars == Printable \cup CRLF \cup LWS
IS_URL_CHAR(c) == c \in UrlChars
IS_USERINFO_CHAR(c) == c \in UserinfoChars
IS_HOST_CHAR(c) == c \in ALPHA \cup NUM \cup {".", "-"}
IS_HEADER_CHAR(c) == c \in HeaderChars
=============================================================================
