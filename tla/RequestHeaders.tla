--------------------------- MODULE RequestHeaders ---------------------------
(* http_parser/http_request_headers.cc: an ordered vector of headers, one per  *)
(* name without regard to case.                                                *)
EXTENDS HttpUtil

CONSTANTS Keys, Values,   \* arguments of the setters
          Blocks,         \* texts given to AddHeadersFromString
          Others,         \* header vectors given to MergeFrom
          MaxHeaders

VARIABLE headers_  \* sequence of <<key, value>>
vars == <<headers_>>

Same(a, b) == ToLowerASCII(a) = ToLowerASCII(b)
FindHeader_Cased(h, key) == First({i \in DOMAIN h : h[i][1] = key}, npos)
FindHeader(h, key) == First({i \in DOMAIN h : Same(h[i][1], key)}, npos)
SetHeaderInternal(h, key, value) ==
  LET i == FindHeader(h, key) IN IF i = npos THEN Append(h, <<key, value>>) ELSE [h EXCEPT ![i][2] = value]

IsValidHeaderName(s) == IsToken(s)
AddHeaderFromString_LastColon(h, line) ==
  LET end == Max({0} \cup {i \in 1..Len(line) : At(line, i) = ":"})
      key == Cut(line, 1, end - 1)
      value == TrimLWS(Cut(line, end + 1, Len(line)))
  IN IF end = 0 \/ ~IsValidHeaderName(key) THEN h ELSE SetHeaderInternal(h, key, value)
AddHeaderFromString(h, line) ==
  LET end == Find(line, 1, {":"})
      key == Cut(line, 1, end - 1)
      value == TrimLWS(Cut(line, end + 1, Len(line)))
  IN IF end > Len(line) \/ ~IsValidHeaderName(key) \/ ~IsValidHeaderValue(value) THEN h
     ELSE SetHeaderInternal(h, key, value)

(* SplitStringPieceUsingSubstr (googleurl): the non-empty pieces between CRLFs, *)
(* without the white space around them.                                         *)
Lines(s) ==
  LET breaks == SelectSeq([i \in 1..Len(s) |-> i], LAMBDA i : At(s, i) = "\r" /\ At(s, i + 1) = "\n")
      starts == <<1>> \o [k \in DOMAIN breaks |-> breaks[k] + 2]
      ends == Append(breaks, Len(s) + 1)
      Trimmed(a, b) == LET solid == {i \in a..b : At(s, i) \notin LWS \cup CRLF} IN IF solid = {} THEN "" ELSE Cut(s, Min(solid), Max(solid))
  IN SelectSeq([k \in DOMAIN starts |-> Trimmed(starts[k], ends[k] - 1)], LAMBDA l : l # "")
AddHeadersFromString(h, text) ==
  LET lines == Lines(text)
      A[k \in 0..Len(lines)] == IF k = 0 THEN h ELSE AddHeaderFromString(A[k - 1], lines[k])
  IN A[Len(lines)]
MergeFrom(h, other) ==
  LET M[k \in 0..Len(other)] == IF k = 0 THEN h ELSE SetHeaderInternal(M[k - 1], other[k][1], other[k][2]) IN M[Len(other)]
HeadersText(h) ==
  LET T[k \in 0..Len(h)] == IF k = 0 THEN "" ELSE T[k - 1] \o h[k][1] \o ": " \o h[k][2] \o "\r\n" IN T[Len(h)] \o "\r\n"

(* The lines of a text and the headers of a vector can be counted.             *)
Readable == (\A b \in Blocks : Len(Lines(b)) \in Nat) /\ (\A o \in Others : Len(o) \in Nat)

Init == headers_ = <<>>
SetHeader(key, value) == headers_' = SetHeaderInternal(headers_, key, value)
SetHeaderIfMissing(key, value) == FindHeader(headers_, key) = npos /\ headers_' = Append(headers_, <<key, value>>)
RemoveHeader(key) == FindHeader(headers_, key) # npos /\ headers_' = RemoveAt(headers_, FindHeader(headers_, key))
Clear == headers_' = <<>>
Next ==
  /\ \/ \E k \in Keys, v \in Values : SetHeader(k, v) \/ SetHeaderIfMissing(k, v)
     \/ \E k \in Keys : RemoveHeader(k)
     \/ \E b \in Blocks : headers_' = AddHeadersFromString(headers_, b)
     \/ \E o \in Others : headers_' = MergeFrom(headers_, o)
     \/ Clear
  /\ Len(headers_') <= MaxHeaders
Spec == Init /\ [][Next]_vars

(* However a header was added (set, merged, read from text), its name has one  *)
(* value, so that GetHeader and the serialised request agree.                  *)
OneValuePerName == \A i, j \in DOMAIN headers_ : Same(headers_[i][1], headers_[j][1]) => i = j

(* The text ToString writes reads back as the same headers in the same order.  *)
(* The spaces and tabs around a value, which SetHeader and MergeFrom keep, are  *)
(* lost: AddHeaderFromString trims the value it reads.                          *)
TextReadsBack ==
  AddHeadersFromString(<<>>, HeadersText(headers_)) = [i \in DOMAIN headers_ |-> <<headers_[i][1], TrimLWS(headers_[i][2])>>]
=============================================================================
