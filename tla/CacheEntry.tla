----------------------------- MODULE CacheEntry -----------------------------
(* The freshness of a stored response, http_response_headers.cc: what a cache  *)
(* that keeps HttpResponseHeaders is told as time passes and as 304 responses  *)
(* update the entry.  Headers hold seconds; QuicTime and QuicTime::Delta hold  *)
(* microseconds in an int64_t, and do not check their arithmetic.              *)
EXTENDS ResponseHeaders

CONSTANTS Responses,     \* responses as received
          NotModified,   \* 304 responses
          UINT32_MAX,    \* where an Age saturates
          Second,        \* in microseconds
          MaxTime, MaxDelay

VARIABLES headers, request_time, response_time, now,
          verdict  \* the last answer of RequiresValidation
cacheVars == <<headers, request_time, response_time, now, verdict>>

(* QuicTime::Delta: a value that does not fit wraps around. *)
Int64 == (-INT64_MAX - 1)..INT64_MAX
Wrap(x) == IF x \in Int64 THEN x ELSE ((x + INT64_MAX + 1) % (2 * (INT64_MAX + 1))) - INT64_MAX - 1
FromSeconds(s) == Wrap(s * Second)
Plus(d, e) == Wrap(d + e)
Infinite == INT64_MAX

None == [found |-> FALSE, value |-> 0]
GetCacheControlDirective(o, directive) ==
  LET n == Len(directive)
      named == SelectSeq(AllValues(o, "cache-control"), LAMBDA v :
                 Len(v) > n + 1 /\ StartsWith(ToLowerASCII(v), directive) /\ At(v, n + 1) = "=")
  IN IF named = <<>> THEN None
     ELSE [found |-> TRUE, value |-> FromSeconds(StringToInt64(named[1], <<n + 2, Len(named[1])>>).v)]
AgeFrom(age) ==
  IF ~age.ok /\ age.error # "OVERFLOW" THEN None
  ELSE [found |-> TRUE, value |-> FromSeconds(IF age.ok THEN age.v ELSE UINT32_MAX)]
GetAgeValue(o) ==
  LET values == AllValues(o, "Age")
  IN IF values = <<>> THEN None ELSE AgeFrom(ParseIntHelper(values[1], TRUE, 0, UINT32_MAX))
GetTimeValuedHeader(o, name) == None

Lifetimes(f, s) == [freshness |-> f, staleness |-> s]
NeverFresh(o) ==
  \/ HasHeaderValue(o, "cache-control", "no-cache") \/ HasHeaderValue(o, "cache-control", "no-store")
  \/ HasHeaderValue(o, "pragma", "no-cache")
MustRevalidate(o) == HasHeaderValue(o, "cache-control", "must-revalidate")
DateOf(o, received) == LET d == GetTimeValuedHeader(o, "Date") IN IF d.found THEN d.value ELSE received
GetFreshnessLifetimes_Stale(o, received) ==
  LET max_age == GetCacheControlDirective(o, "max-age")
  IN Lifetimes(IF max_age.found THEN max_age.value ELSE 0, GetCacheControlDirective(o, "stale-while-revalidate").value)
FreshFor(o, staleness, max_age, expires, modified, date) ==
  IF max_age.found THEN Lifetimes(max_age.value, staleness)
  ELSE IF expires.found THEN Lifetimes(Max({0, expires.value - date}), staleness)
  ELSE IF o.code \in {200, 203, 206} /\ ~MustRevalidate(o) /\ modified.found /\ modified.value <= date
       THEN Lifetimes((date - modified.value) \div 10, staleness)
  ELSE IF o.code \in {300, 301, 308, 410} THEN Lifetimes(Infinite, 0)
  ELSE Lifetimes(0, staleness)
GetFreshnessLifetimes(o, received) ==
  IF NeverFresh(o) THEN Lifetimes(0, 0)
  ELSE FreshFor(o, IF MustRevalidate(o) THEN 0 ELSE GetCacheControlDirective(o, "stale-while-revalidate").value,
                GetCacheControlDirective(o, "max-age"), GetTimeValuedHeader(o, "Expires"),
                GetTimeValuedHeader(o, "Last-Modified"), DateOf(o, received))
GetCurrentAge_Reversed(o, requested, received, current) == GetAgeValue(o).value + (received - requested) + (received - current)
GetCurrentAge(o, requested, received, current) ==
  LET apparent_age == Max({0, received - DateOf(o, received)})
      corrected_age_value == Plus(GetAgeValue(o).value, received - requested)
  IN Plus(Max({apparent_age, corrected_age_value}), current - received)
Validation(l, age) ==
  IF l = Lifetimes(0, 0) THEN "SYNCHRONOUS"
  ELSE IF l.freshness > age THEN "NONE"
  ELSE IF Plus(l.freshness, l.staleness) > age THEN "ASYNCHRONOUS" ELSE "SYNCHRONOUS"
RequiresValidation(o, requested, received, current) ==
  Validation(GetFreshnessLifetimes(o, received), GetCurrentAge(o, requested, received, current))

(* The cache. *)
(* An Age and the times at which the entry is looked at are far from 2^63. *)
TimesFit ==
  /\ Second \in Nat /\ UINT32_MAX \in Nat /\ MaxTime \in Nat /\ MaxDelay \in 0..MaxTime
  /\ UINT32_MAX * Second + MaxTime <= INT64_MAX
CacheInit ==
  /\ headers \in UNION {TryToCreate(r) : r \in Responses}
  /\ request_time = 0 /\ response_time \in 0..MaxDelay /\ now = response_time
  /\ verdict = RequiresValidation(headers, request_time, response_time, now)
Tick ==
  /\ now < MaxTime /\ now' = now + 1
  /\ verdict' = RequiresValidation(headers, request_time, response_time, now + 1)
  /\ UNCHANGED <<headers, request_time, response_time>>
Revalidate ==
  /\ verdict # "NONE"
  /\ \E new \in UNION {TryToCreate(r) : r \in NotModified}, d \in 0..MaxDelay :
       \E updated \in {Update(headers, new)} :
         /\ now + d <= MaxTime
         /\ headers' = updated /\ request_time' = now /\ response_time' = now + d /\ now' = now + d
         /\ verdict' = RequiresValidation(updated, now, now + d, now + d)
CacheNext == Tick \/ Revalidate
CacheSpec == CacheInit /\ [][CacheNext]_cacheVars

(* Time never makes an entry fresher: NONE, then ASYNCHRONOUS, then            *)
(* SYNCHRONOUS, whatever the mix of directives, until a response updates it.   *)
Freshness(v) == CASE v = "NONE" -> 2 [] v = "ASYNCHRONOUS" -> 1 [] OTHER -> 0
NeverFresher == [][UNCHANGED <<headers, request_time>> => Freshness(verdict') <= Freshness(verdict)]_cacheVars

(* What the directives and the Age header hold is read as numbers of the       *)
(* types the code gives them, after 304 responses too.                         *)
TypeOK ==
  /\ LET l == GetFreshnessLifetimes(headers, response_time)
     IN {l.freshness, l.staleness} \subseteq Int64
  /\ GetAgeValue(headers).value \in 0..(UINT32_MAX * Second)

(* An entry is used without asking the server only while it is younger, from   *)
(* the request that fetched it, than its freshness, never when it says         *)
(* no-cache; and with must-revalidate it is not used while it is being         *)
(* validated, updates by 304 included.                                         *)
UsedWhileFresh ==
  /\ verdict = "NONE" => /\ ~NeverFresh(headers)
                         /\ now - request_time < GetFreshnessLifetimes(headers, response_time).freshness
  /\ verdict = "ASYNCHRONOUS" => ~MustRevalidate(headers)

(* And that freshness is a max-age it carries, or its code is fresh for ever.  *)
(* The exception is a max-age whose microseconds are no int64_t: it wraps in   *)
(* FromSeconds, one below -2^63 microseconds to a lifetime of ages.            *)
MaxAges(o) ==
  {n \in Int64 : \E v \in ToSet(AllValues(o, "cache-control")) : ToLowerASCII(v) = "max-age=" \o ToString(n)}
WithinMaxAge ==
  verdict = "NONE" =>
    \/ headers.code \in {300, 301, 308, 410}
    \/ \E n \in MaxAges(headers) : now - request_time < n * Second \/ n * Second \notin Int64
=============================================================================
