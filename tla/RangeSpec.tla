------------------------------ MODULE RangeSpec ------------------------------
(* http_parser/http_byte_range.cc: the values of an HttpByteRange and the      *)
(* functions of them.                                                          *)
EXTENDS Widths

int64_t == (-INT64_MAX - 1)..INT64_MAX
kPositionNotSpecified == -1

HttpByteRange == [first |-> kPositionNotSpecified, last |-> kPositionNotSpecified, suffix |-> kPositionNotSpecified]
Bounded(a, b) == [HttpByteRange EXCEPT !.first = a, !.last = b]
RightUnbounded(a) == [HttpByteRange EXCEPT !.first = a]
Suffix(n) == [HttpByteRange EXCEPT !.suffix = n]

IsSuffixByteRange(r) == r.suffix # kPositionNotSpecified
HasFirstBytePosition(r) == r.first # kPositionNotSpecified
HasLastBytePosition(r) == r.last # kPositionNotSpecified
IsValid(r) ==
  \/ r.suffix > 0
  \/ r.first >= 0 /\ (r.last = kPositionNotSpecified \/ r.last >= r.first)

Smaller(a, b) == IF a < b THEN a ELSE b

SuffixStart_Unclamped(r, size) == size - r.suffix
SuffixStart(r, size) == size - Smaller(size, r.suffix)

(* The new first and last byte positions and the returned value. *)
Bounds(r, size) ==
  IF ~HasFirstBytePosition(r) /\ ~HasLastBytePosition(r) /\ ~IsSuffixByteRange(r) THEN [ok |-> TRUE, first |-> 0, last |-> size - 1]
  ELSE IF ~IsValid(r) THEN [ok |-> FALSE, first |-> r.first, last |-> r.last]
  ELSE IF IsSuffixByteRange(r) THEN [ok |-> TRUE, first |-> SuffixStart(r, size), last |-> size - 1]
  ELSE IF r.first >= size THEN [ok |-> FALSE, first |-> r.first, last |-> r.last]
  ELSE [ok |-> TRUE, first |-> r.first, last |-> IF HasLastBytePosition(r) THEN Smaller(size - 1, r.last) ELSE size - 1]
=============================================================================
