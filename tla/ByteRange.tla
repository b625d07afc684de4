------------------------------ MODULE ByteRange ------------------------------
(* http_parser/http_byte_range.cc: the range a request asks for and the        *)
(* bounds computed for it once the size of the resource is known.              *)
EXTENDS RangeSpec

VARIABLES range,                 \* the object: first_byte_position_, last_byte_position_, suffix_length_
          has_computed_bounds,
          asked,                 \* the range as it was constructed
          computed               \* size and result of the ComputeBounds call that did the work, size -1 before it
vars == <<range, has_computed_bounds, asked, computed>>

Init ==
  /\ range \in {HttpByteRange} \cup {Bounded(a, b) : a \in int64_t, b \in int64_t}
               \cup {RightUnbounded(a) : a \in int64_t} \cup {Suffix(n) : n \in int64_t}
  /\ has_computed_bounds = FALSE
  /\ asked = range
  /\ computed = [size |-> -1, ok |-> FALSE]

(* A call for a negative size, or a second call, returns FALSE at once, be it  *)
(* that the first one failed.                                                 *)
ComputeBounds(size) ==
  /\ size >= 0
  /\ ~has_computed_bounds
  /\ has_computed_bounds' = TRUE
  /\ LET b == Bounds(range, size)
     IN /\ range' = [range EXCEPT !.first = b.first, !.last = b.last]
        /\ computed' = [size |-> size, ok |-> b.ok]
  /\ UNCHANGED asked
ComputeBoundsRefused(size) ==
  /\ size < 0 \/ has_computed_bounds
  /\ UNCHANGED vars

Next == \E size \in int64_t : ComputeBounds(size) \/ ComputeBoundsRefused(size)
Spec == Init /\ [][Next]_vars

(* ComputeBounds returned TRUE: the bounds lie in the resource, never below    *)
(* its first byte nor beyond its last, cover nothing the range did not ask     *)
(* for, and are empty only when the resource is, even for sizes and suffix     *)
(* lengths at the ends of int64_t.                                             *)
WithinResource ==
  computed.ok =>
    /\ 0 <= range.first /\ range.last < computed.size
    /\ computed.size > 0 => range.first <= range.last
    /\ asked.first >= 0 /\ asked.suffix <= 0 => range.first = asked.first
    /\ asked.last >= 0 /\ asked.suffix <= 0 => range.last <= asked.last
    /\ asked.suffix > 0 => range.last - range.first < asked.suffix
=============================================================================
