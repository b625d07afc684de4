---------------------------- MODULE RequestProofs ----------------------------
(* Proofs about request headers, for any names, values and texts: a name has   *)
(* one value.  The functions that set header after header are defined by       *)
(* recursion; induction is used in the form of first-order facts.              *)
EXTENDS RequestHeaders, FiniteSetTheorems, TLAPS

Less == {p \in Nat \X Nat : p[1] < p[2]}

\* A set of natural numbers that is not empty has a least element.
LEMMA HasLeast ==
  ASSUME NEW is \in SUBSET Nat, is # {}
  PROVE  \E i \in is : \A j \in is : i <= j
  <1>1. IsWellFoundedOn(Less, Nat)
    BY NatLessThanWellFounded DEF Less, OpToRel
  <1>2. \E i \in is : \A j \in is : ~(<<j, i>> \in Less)
    BY Zenon, <1>1, WFMin
  <1>3. \A i, j \in Nat : <<j, i>> \in Less <=> j < i
    BY DEF Less
  <1>4. PICK i \in is : \A j \in is : ~(<<j, i>> \in Less)
    BY <1>2
  <1>5. ASSUME NEW j \in is PROVE i <= j
    <2>1. i \in Nat /\ j \in Nat /\ ~(j < i)
      BY Zenon, <1>3, <1>4
    <2> QED BY <2>1
  <1> QED BY <1>5

\* What holds of the first value and is handed from each value to the next
\* holds of all: X is the set of the values it holds of.
LEMMA StepsStayIn ==
  ASSUME NEW X, NEW n \in Nat, NEW f, f[0] \in X,
         \A k \in 1..n : f[k - 1] \in X => f[k] \in X
  PROVE  \A k \in 0..n : f[k] \in X
  <1> DEFINE out == {k \in 0..n : f[k] \notin X}
  <1> SUFFICES ASSUME out # {} PROVE FALSE
    OBVIOUS
  <1>1. PICK i \in out : \A j \in out : i <= j
    <2>1. out \in SUBSET Nat
      OBVIOUS
    <2> HIDE DEF out
    <2> QED BY <2>1, HasLeast
  <1>2. i # 0 /\ i \in 1..n /\ i - 1 \in 0..n /\ ~(i <= i - 1)
    BY <1>1
  <1>3. f[i - 1] \in X
    BY <1>1, <1>2
  <1> QED BY <1>1, <1>2, <1>3

\* The prefix of a function defined by recursion.
Extends(g, m, a, step) == g[0] = a /\ \A k \in 1..m : g[k] = step[<<k, g[k - 1]>>]

\* A function can be defined by recursion: from a value and a step.
LEMMA RecursionWorks ==
  ASSUME NEW X, NEW n \in Nat, NEW a \in X, NEW step \in [(1..n) \X X -> X]
  PROVE  \E g \in [0..n -> X] : Extends(g, n, a, step)
  <1> DEFINE good == {m \in 0..n : \E g \in [0..m -> X] : Extends(g, m, a, step)}
             bad == {m \in 0..n : m \notin good}
  <1> SUFFICES ASSUME bad # {} PROVE FALSE
    <2>1. n \in 0..n
      OBVIOUS
    <2> QED BY Zenon, <2>1
  <1>1. PICK m \in bad : \A j \in bad : m <= j
    <2>1. bad \in SUBSET Nat
      OBVIOUS
    <2> HIDE DEF bad
    <2> QED BY <2>1, HasLeast
  <1>2. m # 0
    <2>1. [k \in 0..0 |-> a] \in [0..0 -> X] /\ Extends([k \in 0..0 |-> a], 0, a, step)
      BY DEF Extends
    <2>2. 0 \in good
      <3>1. 0 \in 0..n
        OBVIOUS
      <3> QED BY Zenon, <2>1, <3>1
    <2> QED BY Zenon, <1>1, <2>2
  <1>3. m \in 1..n /\ m - 1 \in 0..n /\ ~(m <= m - 1)
    BY <1>1, <1>2
  <1>4. m - 1 \in good
    BY Zenon, <1>1, <1>3
  <1>5. PICK g \in [0..(m - 1) -> X] : Extends(g, m - 1, a, step)
    BY Zenon, <1>4
  <1> DEFINE h == [k \in 0..m |-> IF k = m THEN step[<<m, g[m - 1]>>] ELSE g[k]]
  <1>6. h \in [0..m -> X]
    BY <1>3, <1>5
  <1>7. Extends(h, m, a, step)
    <2>1. h[0] = a
      BY <1>3, <1>5 DEF Extends
    <2>2. ASSUME NEW k \in 1..m PROVE h[k] = step[<<k, h[k - 1]>>]
      <3>1. k - 1 \in 0..m /\ k - 1 # m /\ h[k - 1] = g[k - 1]
        BY <1>3, <2>2
      <3>2. CASE k = m
        BY <1>3, <3>1, <3>2
      <3>3. CASE k # m
        <4>1. k \in 1..(m - 1) /\ h[k] = g[k]
          BY <1>3, <3>3
        <4> QED BY <1>5, <3>1, <4>1 DEF Extends
      <3> QED BY <3>2, <3>3
    <2> QED BY Zenon, <2>1, <2>2 DEF Extends
  <1>8. m \in good
    BY Zenon, <1>1, <1>6, <1>7
  <1> QED BY <1>1, <1>8
---------------------------------------------------------------------------
(* RequestHeaders: a name has one value.                                       *)
Distinct(h) == \A i, j \in DOMAIN h : Same(h[i][1], h[j][1]) => i = j
Vectors(N, V) == {h \in Seq(N \X V) : Distinct(h)}

(* FindHeader finds the header with a name, if there is one. *)
LEMMA HeaderFound ==
  ASSUME NEW N, NEW V, NEW h \in Seq(N \X V), NEW key
  PROVE  \/ /\ FindHeader(h, key) = npos
            /\ \A i \in DOMAIN h : ~Same(h[i][1], key)
         \/ /\ FindHeader(h, key) \in DOMAIN h /\ FindHeader(h, key) # npos
            /\ Same(h[FindHeader(h, key)][1], key)
<1> DEFINE is == {i \in DOMAIN h : Same(h[i][1], key)}
<1>1. DOMAIN h = 1..Len(h) /\ Len(h) \in Nat
  OBVIOUS
<1>2. CASE is = {}
  BY Zenon, <1>2 DEF FindHeader, First
<1>3. CASE is # {}
  <2>1. is \in SUBSET Nat
    BY <1>1
  <2>2. \E i \in is : \A j \in is : i <= j
    BY Zenon, <1>3, <2>1, HasLeast
  <2>3. FindHeader(h, key) = Min(is)
    BY Zenon, <1>3 DEF FindHeader, First
  <2>4. Min(is) \in is
    BY Zenon, <2>2 DEF Min
  <2>5. FindHeader(h, key) # npos
    BY <2>1, <2>3, <2>4 DEF npos
  <2>6. QED
    BY Zenon, <2>3, <2>4, <2>5
<1>4. QED
  BY Zenon, <1>2, <1>3

(* Setting a header replaces the value of its name or adds the name. *)
LEMMA SetKeepsDistinct ==
  ASSUME NEW N, NEW V, NEW h \in Vectors(N, V), NEW key \in N, NEW value \in V
  PROVE  SetHeaderInternal(h, key, value) \in Vectors(N, V)
<1> DEFINE i == FindHeader(h, key)
<1>1. h \in Seq(N \X V) /\ Distinct(h)
  BY DEF Vectors
<1>2. CASE i = npos
  <2>1. SetHeaderInternal(h, key, value) = Append(h, <<key, value>>)
    BY Zenon, <1>2 DEF SetHeaderInternal
  <2>2. \A k \in DOMAIN h : ~Same(h[k][1], key)
    BY Zenon, <1>1, <1>2, HeaderFound
  <2>3. \A k \in DOMAIN h : ~Same(key, h[k][1])
    BY Zenon, <2>2 DEF Same
  <2>4. <<key, value>> \in N \X V /\ <<key, value>>[1] = key
    OBVIOUS
  <2>5. Append(h, <<key, value>>) \in Seq(N \X V)
    BY <1>1, <2>4
  <2>6. Distinct(Append(h, <<key, value>>))
    BY <1>1, <2>2, <2>3, <2>4 DEF Distinct
  <2>7. QED
    BY Zenon, <2>1, <2>5, <2>6 DEF Vectors
<1>3. CASE i # npos
  <2>1. SetHeaderInternal(h, key, value) = [h EXCEPT ![i][2] = value]
    BY Zenon, <1>3 DEF SetHeaderInternal
  <2>2. i \in DOMAIN h
    BY Zenon, <1>1, <1>3, HeaderFound
  <2> HIDE DEF i
  <2> DEFINE g == [h EXCEPT ![i][2] = value]
  <2>3. DOMAIN g = DOMAIN h /\ DOMAIN h = 1..Len(h) /\ Len(h) \in Nat
    BY <1>1
  <2>4. \A k \in DOMAIN h : g[k] \in N \X V /\ g[k][1] = h[k][1]
    BY <1>1, <2>2
  <2>5. g \in Seq(N \X V)
    BY <1>1, <2>2, <2>3, <2>4
  <2>6. Distinct(g)
    BY Zenon, <1>1, <2>3, <2>4 DEF Distinct
  <2>7. QED
    BY Zenon, <2>1, <2>5, <2>6 DEF Vectors
<1>4. QED
  BY Zenon, <1>2, <1>3

(* MergeFrom and AddHeadersFromString set header after header. *)
LEMMA MergeKeepsDistinct ==
  ASSUME NEW N, NEW V, NEW h \in Vectors(N, V), NEW other, Len(other) \in Nat,
         \A k \in 1..Len(other) : other[k][1] \in N /\ other[k][2] \in V
  PROVE  MergeFrom(h, other) \in Vectors(N, V)
<1> DEFINE n == Len(other)
           Set(g, k) == SetHeaderInternal(g, other[k][1], other[k][2])
           step == [p \in (1..n) \X Vectors(N, V) |-> Set(p[2], p[1])]
           Merging(M) == M = [k \in 0..n |-> IF k = 0 THEN h ELSE Set(M[k - 1], k)]
           M == CHOOSE f : Merging(f)
<1>1. \A k \in 1..n : \A g \in Vectors(N, V) : Set(g, k) \in Vectors(N, V)
  BY Zenon, SetKeepsDistinct
<1> HIDE DEF Set, n
<1>2. n \in Nat
  BY DEF n
<1>3. step \in [(1..n) \X Vectors(N, V) -> Vectors(N, V)]
  BY <1>1
<1>4. PICK g \in [0..n -> Vectors(N, V)] : Extends(g, n, h, step)
  BY Zenon, <1>2, <1>3, RecursionWorks
<1>5. Merging(g)
  <2>1. ASSUME NEW k \in 1..n PROVE g[k] = Set(g[k - 1], k)
    <3>1. g[k - 1] \in Vectors(N, V)
      BY <1>2, <1>4
    <3>2. step[<<k, g[k - 1]>>] = Set(g[k - 1], k)
      BY <3>1
    <3>3. QED
      BY Zenon, <1>4, <3>2 DEF Extends
  <2>2. \A k \in 0..n : g[k] = IF k = 0 THEN h ELSE Set(g[k - 1], k)
    <3>1. g[0] = h
      BY Zenon, <1>4 DEF Extends
    <3>2. \A k \in 0..n : k = 0 \/ k \in 1..n
      BY <1>2
    <3>3. QED
      BY Zenon, <2>1, <3>1, <3>2
  <2>3. QED
    BY Zenon, <2>2
<1> HIDE DEF step
<1>6. Merging(M)
  BY Zenon, <1>5
<1> HIDE DEF M
<1>7. M[0] = h /\ \A k \in 1..n : M[k] = Set(M[k - 1], k)
  <2>1. \A k \in 0..n : M[k] = IF k = 0 THEN h ELSE Set(M[k - 1], k)
    BY Zenon, <1>6
  <2>2. 0 \in 0..n /\ \A k \in 1..n : k \in 0..n /\ k # 0
    BY <1>2
  <2>3. QED
    BY Zenon, <2>1, <2>2
<1>8. \A k \in 0..n : M[k] \in Vectors(N, V)
  <2>1. \A k \in 1..n : M[k - 1] \in Vectors(N, V) => M[k] \in Vectors(N, V)
    BY Zenon, <1>1, <1>7
  <2>2. M[0] \in Vectors(N, V)
    BY Zenon, <1>7
  <2>3. QED
    BY Zenon, <1>2, <2>1, <2>2, StepsStayIn
<1>9. MergeFrom(h, other) = M[n]
  BY Zenon DEF MergeFrom, M, Set, n
<1>10. QED
  BY <1>2, <1>8, <1>9

KeyOf(line) == Cut(line, 1, Find(line, 1, {":"}) - 1)
ValueOf(line) == TrimLWS(Cut(line, Find(line, 1, {":"}) + 1, Len(line)))

LEMMA LinesKeepDistinct ==
  ASSUME NEW N, NEW V, NEW h \in Vectors(N, V), NEW b, Len(Lines(b)) \in Nat,
         \A k \in 1..Len(Lines(b)) : KeyOf(Lines(b)[k]) \in N /\ ValueOf(Lines(b)[k]) \in V
  PROVE  AddHeadersFromString(h, b) \in Vectors(N, V)
<1> DEFINE n == Len(Lines(b))
           Add(g, k) == AddHeaderFromString(g, Lines(b)[k])
           step == [p \in (1..n) \X Vectors(N, V) |-> Add(p[2], p[1])]
           Adding(A) == A = [k \in 0..n |-> IF k = 0 THEN h ELSE Add(A[k - 1], k)]
           A == CHOOSE f : Adding(f)
<1>1. ASSUME NEW k \in 1..n, NEW g \in Vectors(N, V) PROVE Add(g, k) \in Vectors(N, V)
  <2>1. \/ Add(g, k) = g
        \/ Add(g, k) = SetHeaderInternal(g, KeyOf(Lines(b)[k]), ValueOf(Lines(b)[k]))
    BY Zenon DEF AddHeaderFromString, KeyOf, ValueOf
  <2>2. QED
    BY Zenon, <2>1, SetKeepsDistinct
<1> HIDE DEF Add, n
<1>2. n \in Nat
  BY DEF n
<1>3. step \in [(1..n) \X Vectors(N, V) -> Vectors(N, V)]
  BY <1>1
<1>4. PICK g \in [0..n -> Vectors(N, V)] : Extends(g, n, h, step)
  BY Zenon, <1>2, <1>3, RecursionWorks
<1>5. Adding(g)
  <2>1. ASSUME NEW k \in 1..n PROVE g[k] = Add(g[k - 1], k)
    <3>1. g[k - 1] \in Vectors(N, V)
      BY <1>2, <1>4
    <3>2. step[<<k, g[k - 1]>>] = Add(g[k - 1], k)
      BY <3>1
    <3>3. QED
      BY Zenon, <1>4, <3>2 DEF Extends
  <2>2. \A k \in 0..n : g[k] = IF k = 0 THEN h ELSE Add(g[k - 1], k)
    <3>1. g[0] = h
      BY Zenon, <1>4 DEF Extends
    <3>2. \A k \in 0..n : k = 0 \/ k \in 1..n
      BY <1>2
    <3>3. QED
      BY Zenon, <2>1, <3>1, <3>2
  <2>3. QED
    BY Zenon, <2>2
<1> HIDE DEF step
<1>6. Adding(A)
  BY Zenon, <1>5
<1> HIDE DEF A
<1>7. A[0] = h /\ \A k \in 1..n : A[k] = Add(A[k - 1], k)
  <2>1. \A k \in 0..n : A[k] = IF k = 0 THEN h ELSE Add(A[k - 1], k)
    BY Zenon, <1>6
  <2>2. 0 \in 0..n /\ \A k \in 1..n : k \in 0..n /\ k # 0
    BY <1>2
  <2>3. QED
    BY Zenon, <2>1, <2>2
<1>8. \A k \in 0..n : A[k] \in Vectors(N, V)
  <2>1. \A k \in 1..n : A[k - 1] \in Vectors(N, V) => A[k] \in Vectors(N, V)
    BY Zenon, <1>1, <1>7
  <2>2. A[0] \in Vectors(N, V)
    BY Zenon, <1>7
  <2>3. QED
    BY Zenon, <1>2, <2>1, <2>2, StepsStayIn
<1>9. AddHeadersFromString(h, b) = A[n]
  BY Zenon DEF AddHeadersFromString, A, Add, n
<1>10. QED
  BY <1>2, <1>8, <1>9

BlockNames(b) == {KeyOf(Lines(b)[k]) : k \in 1..Len(Lines(b))}
BlockValues(b) == {ValueOf(Lines(b)[k]) : k \in 1..Len(Lines(b))}
OtherNames(o) == {o[k][1] : k \in 1..Len(o)}
OtherValues(o) == {o[k][2] : k \in 1..Len(o)}
FieldNames == Keys \cup (UNION {BlockNames(b) : b \in Blocks}) \cup UNION {OtherNames(o) : o \in Others}
FieldValues == Values \cup (UNION {BlockValues(b) : b \in Blocks}) \cup UNION {OtherValues(o) : o \in Others}

HeadersInv == headers_ \in Vectors(FieldNames, FieldValues)

LEMMA HeadersNext ==
  ASSUME Readable, HeadersInv, [Next]_vars
  PROVE  HeadersInv'
<1>1. headers_ \in Seq(FieldNames \X FieldValues) /\ Distinct(headers_)
  BY Zenon DEF HeadersInv, Vectors
<1>2. ASSUME NEW key \in Keys, NEW value \in Values PROVE key \in FieldNames /\ value \in FieldValues
  BY Zenon DEF FieldNames, FieldValues
<1>3. ASSUME NEW key \in Keys, NEW value \in Values, SetHeader(key, value) PROVE HeadersInv'
  BY Zenon, <1>2, <1>3, SetKeepsDistinct DEF SetHeader, HeadersInv
<1>4. ASSUME NEW key \in Keys, NEW value \in Values, SetHeaderIfMissing(key, value) PROVE HeadersInv'
  <2>1. headers_' = SetHeaderInternal(headers_, key, value)
    BY Zenon, <1>4 DEF SetHeaderIfMissing, SetHeaderInternal
  <2>2. QED
    BY Zenon, <1>2, <2>1, SetKeepsDistinct DEF HeadersInv
<1>5. ASSUME NEW key \in Keys, RemoveHeader(key) PROVE HeadersInv'
  <2> DEFINE i == FindHeader(headers_, key)
             n == Len(headers_)
  <2>1. i \in DOMAIN headers_
    BY Zenon, <1>1, <1>5, HeaderFound DEF RemoveHeader
  <2>2. headers_' = SubSeq(headers_, 1, i - 1) \o SubSeq(headers_, i + 1, Len(headers_))
    BY Zenon, <1>5 DEF RemoveHeader, RemoveAt
  <2> HIDE DEF i
  <2>3. n \in Nat /\ i \in 1..n
    BY <1>1, <2>1
  <2> DEFINE m(k) == IF k < i THEN k ELSE k + 1
             left == SubSeq(headers_, 1, i - 1)
             right == SubSeq(headers_, i + 1, n)
  <2>4. /\ left \in Seq(FieldNames \X FieldValues) /\ Len(left) = i - 1
        /\ \A k \in 1..(i - 1) : left[k] = headers_[k]
    BY <1>1, <2>3
  <2>5. /\ right \in Seq(FieldNames \X FieldValues) /\ Len(right) = n - i
        /\ \A k \in 1..(n - i) : right[k] = headers_[i + k]
    BY <1>1, <2>3
  <2> HIDE DEF left, right
  <2>6. headers_' \in Seq(FieldNames \X FieldValues) /\ Len(headers_') = n - 1
    <3>1. headers_' = left \o right
      BY Zenon, <2>2 DEF left, right
    <3>2. QED
      BY <2>3, <2>4, <2>5, <3>1
  <2>7. \A k \in 1..(n - 1) : headers_'[k] = headers_[m(k)]
    <3>1. headers_' = left \o right
      BY Zenon, <2>2 DEF left, right
    <3>2. \A k \in 1..(i - 1) : headers_'[k] = left[k]
      BY <2>3, <2>4, <2>5, <3>1
    <3>3. \A k \in i..(n - 1) : headers_'[k] = right[k - (i - 1)]
      BY <2>3, <2>4, <2>5, <3>1
    <3>4. \A k \in i..(n - 1) : headers_'[k] = headers_[k + 1]
      <4>1. ASSUME NEW k \in i..(n - 1) PROVE k - (i - 1) \in 1..(n - i) /\ i + (k - (i - 1)) = k + 1
        BY <2>3
      <4>2. QED
        BY Zenon, <2>5, <3>3, <4>1
    <3>5. QED
      BY <2>3, <2>4, <3>2, <3>4
  <2>8. DOMAIN headers_' = 1..(n - 1) /\ DOMAIN headers_ = 1..n
    BY <1>1, <2>3, <2>6
  <2>9. \A k \in 1..(n - 1) : m(k) \in 1..n
    BY <2>3
  <2>10. \A j, k \in 1..(n - 1) : m(j) = m(k) => j = k
    BY <2>3
  <2> HIDE DEF m
  <2>11. ASSUME NEW j \in DOMAIN headers_', NEW k \in DOMAIN headers_', Same(headers_'[j][1], headers_'[k][1])
         PROVE  j = k
    <3>1. j \in 1..(n - 1) /\ k \in 1..(n - 1)
      BY Zenon, <2>8
    <3>2. m(j) \in DOMAIN headers_ /\ m(k) \in DOMAIN headers_
      BY Zenon, <2>8, <2>9, <3>1
    <3>3. Same(headers_[m(j)][1], headers_[m(k)][1])
      BY Zenon, <2>7, <2>11, <3>1
    <3>4. QED
      BY Zenon, <1>1, <2>10, <3>1, <3>2, <3>3 DEF Distinct
  <2>12. QED
    BY Zenon, <2>6, <2>11 DEF HeadersInv, Vectors, Distinct
<1>6. ASSUME NEW b \in Blocks, headers_' = AddHeadersFromString(headers_, b) PROVE HeadersInv'
  <2>1. Len(Lines(b)) \in Nat
    BY Zenon DEF Readable
  <2>2. ASSUME NEW k \in 1..Len(Lines(b)) PROVE KeyOf(Lines(b)[k]) \in FieldNames /\ ValueOf(Lines(b)[k]) \in FieldValues
    <3>1. KeyOf(Lines(b)[k]) \in BlockNames(b) /\ ValueOf(Lines(b)[k]) \in BlockValues(b)
      BY Zenon DEF BlockNames, BlockValues
    <3>2. QED
      BY Zenon, <3>1 DEF FieldNames, FieldValues
  <2>3. QED
    BY Zenon, <1>6, <2>1, <2>2, LinesKeepDistinct DEF HeadersInv
<1>7. ASSUME NEW o \in Others, headers_' = MergeFrom(headers_, o) PROVE HeadersInv'
  <2>1. Len(o) \in Nat
    BY Zenon DEF Readable
  <2>2. ASSUME NEW k \in 1..Len(o) PROVE o[k][1] \in FieldNames /\ o[k][2] \in FieldValues
    <3>1. o[k][1] \in OtherNames(o) /\ o[k][2] \in OtherValues(o)
      BY DEF OtherNames, OtherValues
    <3>2. OtherNames(o) \subseteq FieldNames /\ OtherValues(o) \subseteq FieldValues
      BY Zenon DEF FieldNames, FieldValues
    <3>3. QED
      BY <3>1, <3>2
  <2>3. QED
    BY Zenon, <1>7, <2>1, <2>2, MergeKeepsDistinct DEF HeadersInv
<1>8. CASE Clear
  <2>1. headers_' = <<>>
    BY Zenon, <1>8 DEF Clear
  <2>2. QED
    BY <2>1 DEF HeadersInv, Vectors, Distinct
<1>9. CASE UNCHANGED vars
  BY Zenon, <1>9 DEF vars, HeadersInv
<1>10. QED
  BY Zenon, <1>3, <1>4, <1>5, <1>6, <1>7, <1>8, <1>9 DEF Next

(* However headers are added (SetHeader, MergeFrom, AddHeadersFromString) and  *)
(* removed, a name has one value, without regard to case.                      *)
THEOREM NamesStayDistinct ==
  ASSUME Readable
  PROVE  Spec => []OneValuePerName
<1>1. Init => HeadersInv
  BY DEF Init, HeadersInv, Vectors, Distinct
<1>2. HeadersInv /\ [Next]_vars => HeadersInv'
  BY Zenon, HeadersNext
<1>3. HeadersInv => OneValuePerName
  BY Zenon DEF HeadersInv, Vectors, Distinct, OneValuePerName
<1>4. QED
  BY <1>1, <1>2, <1>3, PTL DEF Spec
=============================================================================
