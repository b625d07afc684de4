----------------------------- MODULE HeaderEdits -----------------------------
(* A response's headers under any sequence of the operations that change them. *)
EXTENDS ResponseHeaders

CONSTANTS Inputs,          \* responses as received
          Names, Values,   \* arguments of the operations
          StatusLines,     \* arguments of ReplaceStatusLine
          NewHeaders,      \* 304 and 206 responses passed to Update
          Ranges,          \* <<range, size>> passed to UpdateWithNewRange
          MaxOps

VARIABLES headers,  \* the HttpResponseHeaders
          ops       \* operations so far
vars == <<headers, ops>>

Init == headers \in UNION {TryToCreate(i) : i \in Inputs} /\ ops = 0

Change(o) == ops < MaxOps /\ ops' = ops + 1 /\ headers' = o
Next ==
  \/ \E n \in Names, v \in Values : Change(AddHeader(headers, n, v))
  \/ \E n \in Names, v \in Values : Change(SetHeader(headers, n, v))
  \/ \E n \in Names, v \in Values : Change(RemoveHeaderLine(headers, n, v))
  \/ \E n \in Names : Change(RemoveHeaders(headers, {n}))
  \/ Change(RemoveHeaders(headers, Names))
  \/ \E st \in StatusLines : Change(ReplaceStatusLine(headers, st))
  \/ \E new \in UNION {TryToCreate(i) : i \in NewHeaders} : Change(Update(headers, new))
  \/ /\ ops < MaxOps
     /\ \E r \in Ranges, replace \in BOOLEAN : \E o \in UpdateWithNewRange(headers, r[1], r[2], replace) : Change(o)
Spec == Init /\ [][Next]_vars

(* Whatever was done, the text is in the form Parse produces: parsing it again *)
(* (as a cache that stores raw_headers_ does) gives the same object.           *)
Settled == Parse(headers.raw) = headers

(* Splitting the value GetNormalizedHeader joins gives the values              *)
(* EnumerateHeader visits, each once and in order.                             *)
EnumerationAgrees ==
  \A n \in {m \in Names : ~IsNonCoalescingHeader(m) /\ HasHeader(headers, m)} :
    LET text == GetNormalizedHeader(headers, n).value
        parts == ValuesIterator(text, <<1, Len(text)>>, ",", FALSE)
    IN AllValues(headers, n) = (IF text = "" THEN <<"">> ELSE [k \in DOMAIN parts |-> Span(text, parts[k])])

List == INSTANCE HeaderList WITH
          Fold <- ToLowerASCII, Trim <- TrimLWS, Kept <- LAMBDA n : ~ShouldUpdateHeader(n),
          Statuses <- {LET s == ParseStatusLine(l, FALSE) IN <<s.version, s.code>> : l \in StatusLines},
          Responses <- {EnumerateHeaderLines(o) : o \in UNION {TryToCreate(i) : i \in NewHeaders}},
          Ranges <- {<<ContentRange(r[1], r[2]), ToString(r[1].last - r[1].first + 1)>> : r \in Ranges},
          status <- <<headers.version, headers.code>>, lines <- EnumerateHeaderLines(headers)

(* The operations act on the list of lines as HeaderList says: an edit keeps   *)
(* every other line, its spelling, its place and the status.                   *)
ImplementsList == List!Spec
=============================================================================
