----------------------------- MODULE HttpProofs -----------------------------
(* Two classes of http_parser/ that keep state between calls.  ByteRange: the  *)
(* bounds lie in the resource, for an integer type of any width.  CacheEntry:  *)
(* what RequiresValidation answers as time passes, for any responses, delays   *)
(* and times for which no age wraps around (TimesFit); that the numbers read    *)
(* from the directives and from Age are numbers of their types (TypeOK) is a    *)
(* fact about every text, which the model checker checks: a hypothesis here.    *)
EXTENDS ByteRange, CacheEntry, TLAPS

Ranges == [first : Int, last : Int, suffix : Int]

(* A constructed range has a first position or a suffix length, never both;   *)
(* with both, a suffix length below zero would put the bounds past the end.   *)
OneKind(r) == r.suffix = -1 \/ r.first = -1

(* The object changes only in the call that computes its bounds. *)
IInv ==
  /\ range \in Ranges
  /\ asked \in Ranges /\ OneKind(asked)
  /\ has_computed_bounds \in BOOLEAN
  /\ computed \in [size : Int, ok : BOOLEAN]
  /\ ~has_computed_bounds => range = asked /\ ~computed.ok
  /\ WithinResource

LEMMA Int64IsInt == int64_t \subseteq Int /\ Int64 \subseteq Int
  BY INT64_MAXAssumption DEF int64_t, Int64

(* A range as constructed has no other field than the positions. *)
LEMMA InitHolds == Init => IInv
<1> SUFFICES ASSUME Init PROVE IInv
  OBVIOUS
<1>1. range \in Ranges /\ OneKind(range)
  <2>1. CASE range = HttpByteRange
    BY <2>1 DEF Ranges, HttpByteRange, kPositionNotSpecified, OneKind
  <2>2. ASSUME NEW a \in int64_t, NEW b \in int64_t, range = Bounded(a, b) PROVE range \in Ranges /\ OneKind(range)
    <3>1. a \in Int /\ b \in Int
      BY <2>2, Int64IsInt
    <3>2. range = [first |-> a, last |-> b, suffix |-> -1]
      BY Zenon, <2>2 DEF HttpByteRange, Bounded, kPositionNotSpecified
    <3>3. QED
      BY <3>1, <3>2 DEF Ranges, OneKind
  <2>3. ASSUME NEW a \in int64_t, range = RightUnbounded(a) PROVE range \in Ranges /\ OneKind(range)
    BY <2>3, Int64IsInt DEF Ranges, HttpByteRange, RightUnbounded, kPositionNotSpecified, OneKind
  <2>4. ASSUME NEW n \in int64_t, range = Suffix(n) PROVE range \in Ranges /\ OneKind(range)
    BY <2>4, Int64IsInt DEF Ranges, HttpByteRange, Suffix, kPositionNotSpecified, OneKind
  <2>5. QED
    BY <2>1, <2>2, <2>3, <2>4 DEF Init
<1>2. asked = range /\ has_computed_bounds = FALSE /\ computed = [size |-> -1, ok |-> FALSE]
  BY DEF Init
<1>3. computed \in [size : Int, ok : BOOLEAN] /\ computed.ok = FALSE
  BY <1>2
<1>4. WithinResource
  BY <1>3 DEF WithinResource
<1> HIDE DEF WithinResource
<1>5. QED
  BY Zenon, <1>1, <1>2, <1>3, <1>4 DEF IInv

(* What Bounds returns, case by case of its IFs. *)
LEMMA BoundsWithin ==
  ASSUME NEW r \in Ranges, OneKind(r), NEW size \in Int, size >= 0
  PROVE  LET b == Bounds(r, size) IN
         /\ b.ok \in BOOLEAN /\ b.first \in Int /\ b.last \in Int
         /\ b.ok => /\ 0 <= b.first /\ b.last < size
                    /\ size > 0 => b.first <= b.last
                    /\ r.first >= 0 /\ r.suffix <= 0 => b.first = r.first
                    /\ r.last >= 0 /\ r.suffix <= 0 => b.last <= r.last
                    /\ r.suffix > 0 => b.last - b.first < r.suffix
<1>1. CASE ~HasFirstBytePosition(r) /\ ~HasLastBytePosition(r) /\ ~IsSuffixByteRange(r)
  BY <1>1 DEF Bounds, Ranges, HasFirstBytePosition, HasLastBytePosition, IsSuffixByteRange, kPositionNotSpecified
<1>2. CASE ~(~HasFirstBytePosition(r) /\ ~HasLastBytePosition(r) /\ ~IsSuffixByteRange(r)) /\ ~IsValid(r)
  BY <1>2 DEF Bounds, Ranges
<1>3. CASE IsValid(r) /\ IsSuffixByteRange(r)
  <2>1. Bounds(r, size) = [ok |-> TRUE, first |-> SuffixStart(r, size), last |-> size - 1]
    BY <1>3 DEF Bounds
  <2>2. r.suffix \in Int /\ r.first \in Int /\ r.last \in Int /\ r.suffix # -1
    BY <1>3 DEF Ranges, IsSuffixByteRange, kPositionNotSpecified
  <2>3. r.suffix > 0
    BY <1>3, <2>2 DEF IsValid, OneKind
  <2>4. QED
    BY <2>1, <2>2, <2>3 DEF SuffixStart, Smaller
<1>4. CASE IsValid(r) /\ ~IsSuffixByteRange(r)
  <2>1. r.suffix = -1 /\ r.first \in Nat /\ r.last \in Int /\ HasFirstBytePosition(r) /\ (r.last = -1 \/ r.last >= r.first)
    BY <1>4 DEF Ranges, IsValid, IsSuffixByteRange, HasFirstBytePosition, kPositionNotSpecified
  <2>2. CASE r.first >= size
    <3>1. Bounds(r, size) = [ok |-> FALSE, first |-> r.first, last |-> r.last]
      BY <1>4, <2>1, <2>2 DEF Bounds
    <3>2. QED
      BY <2>1, <3>1
  <2>3. CASE ~(r.first >= size) /\ HasLastBytePosition(r)
    <3>1. Bounds(r, size) = [ok |-> TRUE, first |-> r.first, last |-> Smaller(size - 1, r.last)]
      BY <1>4, <2>1, <2>3 DEF Bounds
    <3>2. r.last # -1
      BY <2>3 DEF HasLastBytePosition, kPositionNotSpecified
    <3>3. QED
      BY <2>1, <2>3, <3>1, <3>2 DEF Smaller
  <2>4. CASE ~(r.first >= size) /\ ~HasLastBytePosition(r)
    <3>1. Bounds(r, size) = [ok |-> TRUE, first |-> r.first, last |-> size - 1]
      BY <1>4, <2>1, <2>4 DEF Bounds
    <3>2. r.last = -1
      BY <2>4 DEF HasLastBytePosition, kPositionNotSpecified
    <3>3. QED
      BY <2>1, <2>4, <3>1, <3>2
  <2>5. QED
    BY <2>2, <2>3, <2>4
<1>5. QED
  BY <1>1, <1>2, <1>3, <1>4

LEMMA StepHolds == IInv /\ [Next]_vars => IInv'
<1> SUFFICES ASSUME IInv, [Next]_vars PROVE IInv'
  OBVIOUS
<1>1. CASE UNCHANGED vars
  BY <1>1 DEF IInv, vars, WithinResource
<1>2. ASSUME NEW size \in int64_t, ComputeBounds(size) PROVE IInv'
  <2> DEFINE b == Bounds(range, size)
  <2>1. size \in Int /\ size >= 0 /\ range \in Ranges /\ range = asked /\ OneKind(range)
    BY <1>2, Int64IsInt DEF ComputeBounds, IInv
  <2>2. /\ b.ok \in BOOLEAN /\ b.first \in Int /\ b.last \in Int
        /\ b.ok => /\ 0 <= b.first /\ b.last < size
                   /\ size > 0 => b.first <= b.last
                   /\ asked.first >= 0 /\ asked.suffix <= 0 => b.first = asked.first
                   /\ asked.last >= 0 /\ asked.suffix <= 0 => b.last <= asked.last
                   /\ asked.suffix > 0 => b.last - b.first < asked.suffix
    BY <2>1, BoundsWithin
  <2> HIDE DEF b
  <2>3. range' = [range EXCEPT !.first = b.first, !.last = b.last] /\ computed' = [size |-> size, ok |-> b.ok]
        /\ has_computed_bounds' = TRUE /\ asked' = asked
    BY <1>2 DEF ComputeBounds, b
  <2>4. range'.first = b.first /\ range'.last = b.last /\ range' \in Ranges
    BY Zenon, <2>1, <2>2, <2>3 DEF Ranges
  <2>5. WithinResource'
    BY <2>2, <2>3, <2>4 DEF WithinResource
  <2>6. QED
    BY <2>1, <2>2, <2>3, <2>4, <2>5 DEF IInv
<1>3. ASSUME NEW size \in int64_t, ComputeBoundsRefused(size) PROVE IInv'
  BY <1>1, <1>3 DEF ComputeBoundsRefused
<1>4. QED
  BY <1>1, <1>2, <1>3 DEF Next

(* Whatever range was constructed and whatever sizes ComputeBounds is called   *)
(* with, bounds it reports as computed lie in the resource and in the range.   *)
THEOREM BoundsAlwaysWithin == Spec => []WithinResource
<1>1. IInv => WithinResource
  BY DEF IInv
<1>2. QED
  BY <1>1, InitHolds, StepHolds, PTL DEF Spec

---------------------------------------------------------------------------
(* A stored response. *)

LEMMA MaxOfTwo ==
  ASSUME NEW a \in Int, NEW b \in Int
  PROVE  Max({a, b}) = IF a >= b THEN a ELSE b
<1> DEFINE m == IF a >= b THEN a ELSE b
<1>1. m \in {a, b} /\ \A y \in {a, b} : m >= y
  OBVIOUS
<1>2. ASSUME NEW x \in {a, b}, \A y \in {a, b} : x >= y PROVE x = m
  <2>1. x >= a /\ x >= b /\ (x = a \/ x = b)
    BY Zenon, <1>2
  <2>2. QED
    BY <2>1
<1> HIDE DEF m
<1>3. (CHOOSE x \in {a, b} : \A y \in {a, b} : x >= y) = m
  BY Zenon, <1>1, <1>2
<1>4. QED
  BY Zenon, <1>3 DEF Max, m

(* No header is read as a time, so the lifetimes do not depend on the clock.   *)
LEMMA LifetimesOfHeaders ==
  ASSUME NEW o, NEW r, NEW s
  PROVE  GetFreshnessLifetimes(o, r) = GetFreshnessLifetimes(o, s)
<1>1. None.found = FALSE
  BY DEF None
<1>2. QED
  BY Zenon, <1>1 DEF GetFreshnessLifetimes, FreshFor, GetTimeValuedHeader

(* QuicTime::Delta: what fits is kept, anything else becomes an integer. *)
LEMMA WrapKeeps == ASSUME NEW x \in Int64 PROVE Wrap(x) = x
  BY Zenon DEF Wrap

LEMMA WrapIsInt == ASSUME NEW x \in Int PROVE Wrap(x) \in Int
<1> DEFINE w == 2 * (INT64_MAX + 1)
<1>1. w \in Nat /\ w > 0 /\ INT64_MAX \in Int
  BY INT64_MAXAssumption
<1> HIDE DEF w
<1>2. (x + INT64_MAX + 1) % w \in Int
  BY <1>1
<1>3. Wrap(x) = x \/ Wrap(x) = ((x + INT64_MAX + 1) % w) - INT64_MAX - 1
  BY Zenon DEF Wrap, w
<1>4. QED
  BY <1>1, <1>2, <1>3

(* The current age: the Age header and the time since the request.            *)
LEMMA AgeIsSinceRequest ==
  ASSUME NEW o, NEW req \in Int, NEW res \in Int, NEW t \in Int, req <= res, res <= t,
         GetAgeValue(o).value \in Nat, GetAgeValue(o).value + (t - req) <= INT64_MAX
  PROVE  GetCurrentAge(o, req, res, t) = GetAgeValue(o).value + (t - req)
<1> DEFINE a == GetAgeValue(o).value
<1>1. None.found = FALSE
  BY DEF None
<1>2. DateOf(o, res) = res
  BY Zenon, <1>1 DEF DateOf, GetTimeValuedHeader
<1>3. a \in Nat /\ a + (t - req) <= INT64_MAX
  OBVIOUS
<1>4. GetCurrentAge(o, req, res, t) = Plus(Max({Max({0, res - res}), Plus(a, res - req)}), t - res)
  BY Zenon, <1>2 DEF GetCurrentAge
<1> HIDE DEF a
<1>5. a + (res - req) \in Int64 /\ a + (res - req) \in Nat /\ (a + (res - req)) + (t - res) = a + (t - req)
  BY <1>3, INT64_MAXAssumption DEF Int64
<1>6. a + (t - req) \in Int64
  BY <1>3, INT64_MAXAssumption DEF Int64
<1>7. Plus(a, res - req) = a + (res - req)
  BY Zenon, <1>5, WrapKeeps DEF Plus
<1>8. Max({0, res - res}) = 0
  BY MaxOfTwo
<1>9. Max({0, a + (res - req)}) = a + (res - req)
  BY <1>5, MaxOfTwo
<1>10. GetCurrentAge(o, req, res, t) = Plus(a + (res - req), t - res)
  BY Zenon, <1>4, <1>7, <1>8, <1>9
<1>11. Plus(a + (res - req), t - res) = a + (t - req)
  BY Zenon, <1>5, <1>6, WrapKeeps DEF Plus
<1>12. QED
  BY Zenon, <1>10, <1>11 DEF a

(* Validation: the older, the less fresh. *)
LEMMA OlderIsNotFresher ==
  ASSUME NEW l, l.freshness \in Int, l.staleness \in Int, NEW a \in Int, NEW b \in Int, a <= b
  PROVE  Freshness(Validation(l, b)) <= Freshness(Validation(l, a))
<1>1. Freshness("NONE") = 2 /\ Freshness("ASYNCHRONOUS") = 1 /\ Freshness("SYNCHRONOUS") = 0
  BY DEF Freshness
<1>2. CASE l = Lifetimes(0, 0)
  BY <1>1, <1>2 DEF Validation
<1>3. CASE l # Lifetimes(0, 0)
  <2> DEFINE f == l.freshness
             s == l.staleness
             p == Plus(f, s)
  <2>1. \A x : Validation(l, x) = IF f > x THEN "NONE" ELSE IF p > x THEN "ASYNCHRONOUS" ELSE "SYNCHRONOUS"
    BY Zenon, <1>3 DEF Validation
  <2>2. f \in Int /\ s \in Int /\ f + s \in Int
    OBVIOUS
  <2>3. p \in Int
    BY Zenon, <2>2, WrapIsInt DEF Plus
  <2> HIDE DEF f, s, p
  <2>4. QED
    BY <1>1, <2>1, <2>2, <2>3
<1>4. QED
  BY Zenon, <1>2, <1>3

(* The inductive invariant: the verdict is that of the entry as it is, and the *)
(* request, the response and the present come in this order, between the times *)
(* for which an age cannot wrap around.                                        *)
EntryInv ==
  /\ request_time \in Int /\ response_time \in Int /\ now \in Int
  /\ 0 <= request_time /\ request_time <= response_time /\ response_time <= now /\ now <= MaxTime
  /\ verdict = RequiresValidation(headers, request_time, response_time, now)

LEMMA EntryInit == ASSUME TimesFit PROVE CacheInit => EntryInv
  BY DEF TimesFit, CacheInit, EntryInv

LEMMA EntryNext == ASSUME TimesFit, EntryInv, [CacheNext]_cacheVars PROVE EntryInv'
<1>1. CASE Tick
  <2>1. /\ now < MaxTime /\ now' = now + 1 /\ request_time' = request_time /\ response_time' = response_time /\ headers' = headers
        /\ verdict' = RequiresValidation(headers, request_time, response_time, now + 1)
    BY Zenon, <1>1 DEF Tick
  <2>2. verdict' = RequiresValidation(headers', request_time', response_time', now')
    BY Zenon, <2>1
  <2>3. /\ now \in Int /\ request_time \in Int /\ response_time \in Int
        /\ 0 <= request_time /\ request_time <= response_time /\ response_time <= now
    BY Zenon DEF EntryInv
  <2>4. /\ now' \in Int /\ request_time' \in Int /\ response_time' \in Int
        /\ 0 <= request_time' /\ request_time' <= response_time' /\ response_time' <= now' /\ now' <= MaxTime
    BY <2>1, <2>3 DEF TimesFit
  <2>5. QED
    BY Zenon, <2>2, <2>4 DEF EntryInv
<1>2. CASE Revalidate
  <2>1. PICK d \in 0..MaxDelay :
          /\ now + d <= MaxTime
          /\ now' = now + d /\ request_time' = now /\ response_time' = now + d
          /\ verdict' = RequiresValidation(headers', now, now + d, now + d)
    BY Zenon, <1>2 DEF Revalidate
  <2>2. verdict' = RequiresValidation(headers', request_time', response_time', now')
    BY Zenon, <2>1
  <2>3. now \in Int /\ 0 <= now
    BY DEF EntryInv
  <2>4. /\ now' \in Int /\ request_time' \in Int /\ response_time' \in Int
        /\ 0 <= request_time' /\ request_time' <= response_time' /\ response_time' <= now' /\ now' <= MaxTime
    BY <2>1, <2>3 DEF TimesFit
  <2>5. QED
    BY Zenon, <2>2, <2>4 DEF EntryInv
<1>3. CASE UNCHANGED cacheVars
  BY Zenon, <1>3 DEF cacheVars, EntryInv
<1>4. QED
  BY Zenon, <1>1, <1>2, <1>3 DEF CacheNext

(* The verdict in a state of the invariant. *)
VerdictKnown ==
  /\ GetAgeValue(headers).value \in Nat
  /\ GetFreshnessLifetimes(headers, response_time).freshness \in Int64
  /\ GetFreshnessLifetimes(headers, response_time).staleness \in Int64
  /\ verdict = Validation(GetFreshnessLifetimes(headers, response_time), GetAgeValue(headers).value + (now - request_time))

LEMMA VerdictOfAge == ASSUME TimesFit PROVE EntryInv /\ TypeOK => VerdictKnown
<1> SUFFICES ASSUME EntryInv, TypeOK PROVE VerdictKnown
  BY Zenon
<1> DEFINE a == GetAgeValue(headers).value
           most == UINT32_MAX * Second
<1>1. most \in Nat /\ most + MaxTime <= INT64_MAX /\ MaxTime \in Nat
  BY DEF TimesFit
<1>2. a \in 0..most
  BY Zenon DEF TypeOK
<1>3. {GetFreshnessLifetimes(headers, response_time).freshness, GetFreshnessLifetimes(headers, response_time).staleness}
        \subseteq Int64
  BY Zenon DEF TypeOK
<1>4. /\ GetFreshnessLifetimes(headers, response_time).freshness \in Int64
      /\ GetFreshnessLifetimes(headers, response_time).staleness \in Int64
  BY Zenon, <1>3
<1>5. /\ request_time \in Int /\ response_time \in Int /\ now \in Int
      /\ 0 <= request_time /\ request_time <= response_time /\ response_time <= now /\ now <= MaxTime
      /\ verdict = RequiresValidation(headers, request_time, response_time, now)
  BY Zenon DEF EntryInv
<1> HIDE DEF a, most
<1>6. a \in Nat /\ a + (now - request_time) <= INT64_MAX
  BY <1>1, <1>2, <1>5, INT64_MAXAssumption
<1>7. GetCurrentAge(headers, request_time, response_time, now) = a + (now - request_time)
  BY Zenon, <1>5, <1>6, AgeIsSinceRequest DEF a
<1>8. QED
  BY Zenon, <1>4, <1>5, <1>6, <1>7 DEF RequiresValidation, VerdictKnown, a

(* RequiresValidation: time never makes an entry fresher, until a response     *)
(* updates it.                                                                 *)
THEOREM TimeNeverRefreshes ==
  ASSUME TimesFit
  PROVE  CacheSpec /\ []TypeOK => NeverFresher
<1> DEFINE Older == UNCHANGED <<headers, request_time>> => Freshness(verdict') <= Freshness(verdict)
<1>1. ASSUME EntryInv, VerdictKnown, VerdictKnown', [CacheNext]_cacheVars PROVE [Older]_cacheVars
  <2> SUFFICES ASSUME CacheNext, UNCHANGED <<headers, request_time>>
               PROVE  Freshness(verdict') <= Freshness(verdict)
    BY Zenon, <1>1
  <2> DEFINE l == GetFreshnessLifetimes(headers, response_time)
             a == GetAgeValue(headers).value
  <2>1. EntryInv'
    BY Zenon, <1>1, EntryNext
  <2>2. l.freshness \in Int64 /\ l.staleness \in Int64 /\ a \in Nat /\ verdict = Validation(l, a + (now - request_time))
    BY Zenon, <1>1 DEF VerdictKnown
  <2>3. verdict' = Validation(GetFreshnessLifetimes(headers', response_time'), GetAgeValue(headers').value + (now' - request_time'))
    BY Zenon, <1>1 DEF VerdictKnown
  <2>4. GetFreshnessLifetimes(headers', response_time') = l /\ GetAgeValue(headers').value = a /\ request_time' = request_time
    BY Zenon, LifetimesOfHeaders
  <2>5. verdict' = Validation(l, a + (now' - request_time))
    BY Zenon, <2>3, <2>4
  <2> HIDE DEF l, a
  <2>6. request_time \in Int /\ now \in Int
    BY Zenon, <1>1 DEF EntryInv
  <2>7. now' \in Int
    BY Zenon, <2>1 DEF EntryInv
  <2>8. now <= now'
    <3>1. CASE Tick
      BY <2>6, <3>1 DEF Tick
    <3>2. CASE Revalidate
      BY <2>6, <3>2 DEF Revalidate, TimesFit
    <3>3. QED
      BY Zenon, <3>1, <3>2 DEF CacheNext
  <2>9. a + (now - request_time) \in Int /\ a + (now' - request_time) \in Int
        /\ a + (now - request_time) <= a + (now' - request_time)
    <3>1. \A x \in Nat : \A r, m, n \in Int :
            m <= n => x + (m - r) \in Int /\ x + (n - r) \in Int /\ x + (m - r) <= x + (n - r)
      OBVIOUS
    <3>2. QED
      BY Zenon, <2>2, <2>6, <2>7, <2>8, <3>1
  <2>10. QED
    BY Zenon, <2>2, <2>5, <2>9, Int64IsInt, OlderIsNotFresher
<1>2. CacheInit => EntryInv
  BY Zenon, EntryInit
<1>3. EntryInv /\ [CacheNext]_cacheVars => EntryInv'
  BY Zenon, EntryNext
<1>4. QED
  BY <1>1, <1>2, <1>3, VerdictOfAge, PTL DEF CacheSpec, NeverFresher

(* RequiresValidation answers NONE only for an entry younger, since the        *)
(* request that fetched it, than its lifetime and without no-cache, and        *)
(* ASYNCHRONOUS never with must-revalidate.                                    *)
THEOREM FreshWhileUsed ==
  ASSUME TimesFit
  PROVE  CacheSpec /\ []TypeOK => []UsedWhileFresh
<1>1. EntryInv /\ TypeOK => UsedWhileFresh
  <2> SUFFICES ASSUME EntryInv, TypeOK PROVE UsedWhileFresh
    BY Zenon
  <2> DEFINE l == GetFreshnessLifetimes(headers, response_time)
             a == GetAgeValue(headers).value
             age == a + (now - request_time)
  <2>1. l.freshness \in Int64 /\ l.freshness \in Int /\ a \in Nat /\ verdict = Validation(l, age)
    BY Zenon, VerdictOfAge, Int64IsInt DEF VerdictKnown
  <2>2. request_time \in Int /\ now \in Int
    BY Zenon DEF EntryInv
  <2>3. NeverFresh(headers) => l = Lifetimes(0, 0)
    BY Zenon DEF GetFreshnessLifetimes
  <2>4. MustRevalidate(headers) => l.staleness = 0
    BY DEF GetFreshnessLifetimes, FreshFor, Lifetimes
  <2> HIDE DEF l, a
  <2>5. age \in Int /\ now - request_time <= age
    BY <2>1, <2>2
  <2> HIDE DEF age
  <2>6. verdict = "NONE" => l # Lifetimes(0, 0) /\ l.freshness > age
    BY <2>1 DEF Validation
  <2>7. verdict = "ASYNCHRONOUS" => ~(l.freshness > age) /\ Plus(l.freshness, l.staleness) > age
    BY Zenon, <2>1 DEF Validation
  <2>8. verdict = "NONE" => now - request_time < l.freshness
    BY <2>1, <2>2, <2>5, <2>6
  <2>9. verdict = "ASYNCHRONOUS" => ~MustRevalidate(headers)
    <3>1. l.freshness + 0 = l.freshness
      BY <2>1
    <3>2. Plus(l.freshness, 0) = l.freshness
      BY Zenon, <2>1, <3>1, WrapKeeps DEF Plus
    <3>3. QED
      BY Zenon, <2>4, <2>7, <3>2
  <2>10. QED
    BY Zenon, <2>3, <2>6, <2>8, <2>9 DEF UsedWhileFresh, l
<1>2. CacheInit => EntryInv
  BY Zenon, EntryInit
<1>3. EntryInv /\ [CacheNext]_cacheVars => EntryInv'
  BY Zenon, EntryNext
<1>4. QED
  BY <1>1, <1>2, <1>3, PTL DEF CacheSpec
=============================================================================
