--------------------------- MODULE BodyBufferProofs ---------------------------
(***************************************************************************)
(* Proofs about the body buffer: its invariant is inductive, and it        *)
(* implements a queue of bytes, for every size of buffer, body and read.   *)
(***************************************************************************)
EXTENDS BodyBuffer, SequenceTheorems, TLAPS

\* The new body buffer is empty.
LEMMA InitIInv == Init => IInv
  BY BodyBufferAssumption
     DEF Init, IInv, TypeOK, BufferHoldsRest, PendingAccepted, WithinLimit, ReadInOrder, IsEmpty,
         Null

\* The strings of a queue of strings.
LEMMA PendingFacts ==
  ASSUME NEW s \in Seq(Pending)
  PROVE  /\ Len(s) \in Nat
         /\ s = <<>> <=> Len(s) = 0
         /\ \A i \in 1..Len(s) : s[i].first \in Nat /\ s[i].size \in Nat \ {0}
<1>1. Len(s) \in Nat /\ (s = <<>> <=> Len(s) = 0)
  BY EmptySeq, LenProperties
<1>2. ASSUME NEW i \in 1..Len(s) PROVE s[i].first \in Nat /\ s[i].size \in Nat \ {0}
  <2>1. s[i] \in Pending
    BY ElementOfSeq
  <2> QED BY <2>1 DEF Pending
<1> QED BY <1>1, <1>2

\* What is accepted by Append goes behind what is there.
LEMMA AppendStep ==
  ASSUME IInv, NEW n \in 0..MaxBytes, AppendBody(n)
  PROVE  IInv'
<1> USE DEF IInv, TypeOK, Null
<1>1. CASE n = 0 \/ total_size + n > MaxBufferSize
  BY <1>1 DEF AppendBody, bufferVars, readVars, BufferHoldsRest, PendingAccepted, WithinLimit,
                     ReadInOrder, IsEmpty
<1>2. CASE ~(n = 0 \/ total_size + n > MaxBufferSize)
  <2> DEFINE s == [first |-> put, size |-> n]
  <2>1. /\ pending_data' = Append(pending_data, s)
        /\ total_size' = total_size + n
        /\ data' = IF Len(pending_data) + 1 = 1 THEN put ELSE data
        /\ put' = put + n /\ put' <= MaxBytes
        /\ UNCHANGED <<pc, len, read_bytes, buf, result, got>>
    BY <1>2 DEF AppendBody, readVars
  <2>2. s \in Pending /\ s.first = put /\ s.size = n
    BY <1>2, BodyBufferAssumption DEF Pending
  <2> HIDE DEF s
  <2>3. /\ pending_data' \in Seq(Pending)
        /\ Len(pending_data') = Len(pending_data) + 1
        /\ pending_data'[Len(pending_data) + 1] = s
        /\ \A i \in 1..Len(pending_data) : pending_data'[i] = pending_data[i]
    BY <2>1, <2>2
  <2>4. TypeOK'
    BY <2>1, <2>3, BodyBufferAssumption
  <2>5. BufferHoldsRest'
    <3>1. IsEmpty <=> Len(pending_data) = 0
      BY DEF IsEmpty
    <3>2. ~IsEmpty'
      BY <2>3 DEF IsEmpty
    <3>3. total_size' = put' - got'
      BY <2>1 DEF BufferHoldsRest
    <3>4. /\ data' = got'
          /\ pending_data'[1].first <= data'
          /\ data' < pending_data'[1].first + pending_data'[1].size
      <4>1. CASE IsEmpty
        BY <1>2, <2>1, <2>2, <2>3, <3>1, <4>1 DEF BufferHoldsRest
      <4>2. CASE ~IsEmpty
        BY <2>1, <2>3, <3>1, <4>2 DEF BufferHoldsRest
      <4> QED BY <4>1, <4>2
    <3>5. LET last == pending_data'[Len(pending_data')] IN last.first + last.size = put'
      BY <2>1, <2>2, <2>3
    <3>6. ASSUME NEW i \in 1..(Len(pending_data') - 1)
          PROVE  pending_data'[i + 1].first = pending_data'[i].first + pending_data'[i].size
      <4>1. CASE i = Len(pending_data)
        BY <2>2, <2>3, <3>1, <4>1 DEF BufferHoldsRest
      <4>2. CASE i # Len(pending_data)
        <5>1. i \in 1..(Len(pending_data) - 1) /\ i + 1 \in 1..Len(pending_data)
          BY <2>3, <4>2
        <5>2. pending_data'[i] = pending_data[i] /\ pending_data'[i + 1] = pending_data[i + 1]
          BY <2>3, <5>1
        <5>3. pending_data[i + 1].first = pending_data[i].first + pending_data[i].size
          BY <5>1 DEF BufferHoldsRest
        <5> QED BY <5>2, <5>3
      <4> QED BY <4>1, <4>2
    <3> QED BY Zenon, <3>2, <3>3, <3>4, <3>5, <3>6 DEF BufferHoldsRest
  <2>6. WithinLimit' /\ ReadInOrder'
    BY <1>2, <2>1, BodyBufferAssumption DEF WithinLimit, ReadInOrder
  <2>7. PendingAccepted'
    <3> SUFFICES ASSUME NEW i \in 1..Len(pending_data')
                 PROVE  pending_data'[i].first + pending_data'[i].size <= put'
      BY DEF PendingAccepted
    <3>1. CASE i = Len(pending_data) + 1
      BY <2>1, <2>2, <2>3, <3>1
    <3>2. CASE i \in 1..Len(pending_data)
      <4>1. pending_data[i].first \in Nat /\ pending_data[i].size \in Nat
        BY <3>2, PendingFacts
      <4> QED BY <2>1, <2>3, <3>2, <4>1 DEF PendingAccepted
    <3> QED BY <2>3, <3>1, <3>2
  <2> QED BY Zenon, <2>4, <2>5, <2>6, <2>7
<1> QED BY <1>1, <1>2

\* What a buffer that is not empty has to write next (GetSizeToWrite).
LEMMA SizeToWrite ==
  ASSUME IInv, ~IsEmpty
  PROVE  LET head == pending_data[1] IN
         /\ data = got /\ head.first <= data /\ data < head.first + head.size
         /\ GetSizeToWrite = head.first + head.size - data
         /\ GetSizeToWrite \in Nat /\ GetSizeToWrite > 0
<1> DEFINE head == pending_data[1]
<1>1. head.first \in Nat /\ head.size \in Nat /\ got \in Nat
  BY PendingFacts DEF IsEmpty, IInv, TypeOK
<1>2. data = got /\ head.first <= data /\ data < head.first + head.size
  BY DEF IInv, BufferHoldsRest
<1>3. GetSizeToWrite = head.size - (data - head.first)
  BY DEF GetSizeToWrite
<1> QED BY <1>1, <1>2, <1>3

\* A turn of the loop of ReadRequestBody consumes no more than the first
\* string has left, so DidConsume moves data_ or drops that string.
LEMMA CopyStep ==
  ASSUME IInv, CopyOut
  PROVE  IInv'
<1> USE DEF IInv, TypeOK, Null
<1> DEFINE n == IF len <= GetSizeToWrite THEN len ELSE GetSizeToWrite
           head == pending_data[1]
           rest == Tail(pending_data)
<1>1. /\ pc = "read" /\ ~IsEmpty /\ len > 0
      /\ buf' = [i \in 1..(read_bytes + n) |->
                   IF i <= read_bytes THEN buf[i] ELSE data + i - read_bytes]
      /\ DidConsume(n)
      /\ len' = len - n /\ read_bytes' = read_bytes + n /\ got' = got + n
      /\ UNCHANGED <<pc, result, put>>
  BY DEF CopyOut
<1>2. /\ Len(pending_data) \in Nat /\ Len(pending_data) > 0
      /\ head.first \in Nat /\ head.size \in Nat
  BY <1>1, PendingFacts DEF IsEmpty
<1>3. /\ data = got /\ head.first <= data /\ data < head.first + head.size
      /\ GetSizeToWrite = head.first + head.size - data
      /\ GetSizeToWrite \in Nat /\ GetSizeToWrite > 0
  BY <1>1, SizeToWrite
<1>4. n \in Nat /\ n > 0 /\ n <= len /\ n <= GetSizeToWrite /\ (n < GetSizeToWrite \/ n = GetSizeToWrite)
  BY <1>1, <1>3
<1> HIDE DEF n
<1>5. head.first + head.size <= put /\ total_size = put - got /\ n <= total_size
  <2>1. head.first + head.size <= put
    BY <1>2 DEF PendingAccepted
  <2>2. total_size = put - got
    BY DEF BufferHoldsRest
  <2>3. put \in Nat /\ got \in Nat
    BY BodyBufferAssumption
  <2> HIDE DEF IInv, TypeOK, head
  <2> QED BY <1>2, <1>3, <1>4, <2>1, <2>2, <2>3
<1>6. total_size' = total_size - n
  BY <1>1 DEF DidConsume
<1>7. ReadInOrder' /\ buf' \in [1..read_bytes' -> Nat]
  <2>1. \A i \in 1..read_bytes : buf[i] = got - read_bytes + i /\ buf[i] \in Nat
    BY DEF ReadInOrder
  <2>2. ASSUME NEW i \in 1..read_bytes'
        PROVE  buf'[i] = got' - read_bytes' + i /\ buf'[i] \in Nat
    <3>1. CASE i <= read_bytes
      BY <1>1, <1>4, <2>1, <3>1
    <3>2. CASE ~(i <= read_bytes)
      BY <1>1, <1>3, <1>4, <3>2
    <3> QED BY <3>1, <3>2
  <2> QED BY Zenon, <1>1, <2>2 DEF ReadInOrder
<1>8. CASE n < GetSizeToWrite
  <2>1. data' = data + n /\ pending_data' = pending_data
    BY <1>1, <1>8 DEF DidConsume
  <2>2. TypeOK' /\ WithinLimit'
    BY <1>1, <1>3, <1>4, <1>5, <1>6, <1>7, <2>1, BodyBufferAssumption DEF WithinLimit
  <2>3. PendingAccepted'
    BY <1>1, <2>1 DEF PendingAccepted
  <2>4. BufferHoldsRest'
    <3>1. total_size' = put' - got' /\ data' = got'
      BY <1>1, <1>3, <1>4, <1>5, <1>6, <2>1
    <3>2. head.first <= data' /\ data' < head.first + head.size
      BY <1>2, <1>3, <1>4, <1>8, <2>1
    <3> QED BY <1>1, <2>1, <3>1, <3>2 DEF BufferHoldsRest, IsEmpty
  <2> QED BY <1>7, <2>2, <2>3, <2>4
<1>9. CASE ~(n < GetSizeToWrite)
  <2>1. /\ pending_data' = rest
        /\ data' = IF rest = <<>> THEN -1 ELSE rest[1].first
    BY Zenon, <1>1, <1>9 DEF DidConsume
  <2>2. /\ rest \in Seq(Pending) /\ Len(rest) = Len(pending_data) - 1
        /\ \A i \in 1..Len(rest) : i + 1 \in 1..Len(pending_data) /\ rest[i] = pending_data[i + 1]
        /\ rest = <<>> <=> Len(rest) = 0
    <3>1. /\ rest \in Seq(Pending) /\ Len(rest) = Len(pending_data) - 1
          /\ \A i \in 1..Len(rest) : rest[i] = pending_data[i + 1]
      BY <1>1, HeadTailProperties DEF IsEmpty
    <3>2. rest = <<>> <=> Len(rest) = 0
      BY <3>1, PendingFacts
    <3> QED BY SMTT(30), <1>2, <3>1, <3>2
  <2> HIDE DEF rest
  <2>3. /\ n = head.first + head.size - data
        /\ got' = head.first + head.size
    <3>1. n = GetSizeToWrite
      BY <1>4, <1>9
    <3>2. got' = got + n /\ got \in Nat
      BY <1>1
    <3> HIDE DEF IInv, TypeOK, head
    <3> QED BY <1>2, <1>3, <3>1, <3>2
  <2>4. PendingAccepted'
    BY Zenon, <1>1, <2>1, <2>2 DEF PendingAccepted
  <2>5. rest # <<>> => rest[1].first \in Nat /\ rest[1].size \in Nat \ {0}
    BY <2>2, PendingFacts
  <2>6. TypeOK' /\ WithinLimit'
    BY <1>1, <1>4, <1>5, <1>6, <1>7, <2>1, <2>2, <2>5, BodyBufferAssumption DEF WithinLimit
  <2>7. rest # <<>> => rest[1].first = head.first + head.size
    <3>1. ASSUME rest # <<>>
          PROVE  /\ 1 \in 1..(Len(pending_data) - 1)
                 /\ rest[1] = pending_data[2]
      BY <1>2, <2>2, <3>1
    <3>2. ASSUME rest # <<>>
          PROVE  pending_data[1 + 1].first = head.first + head.size
      BY <3>1, <3>2 DEF BufferHoldsRest
    <3> QED BY <3>1, <3>2
  <2>8. rest = <<>> => head.first + head.size = put
    <3>1. rest = <<>> => Len(pending_data) = 1
      BY <1>2, <2>2
    <3> QED BY Zenon, <1>1, <3>1 DEF BufferHoldsRest
  <2>9. ASSUME NEW i \in 1..(Len(rest) - 1)
        PROVE  rest[i + 1].first = rest[i].first + rest[i].size
    <3>1. /\ i \in 1..Len(rest) /\ i + 1 \in 1..Len(rest)
          /\ i + 1 \in 1..(Len(pending_data) - 1)
      BY <1>2, <2>2
    <3>2. rest[i] = pending_data[i + 1] /\ rest[i + 1] = pending_data[(i + 1) + 1]
      BY <2>2, <3>1
    <3>3. pending_data[(i + 1) + 1].first = pending_data[i + 1].first + pending_data[i + 1].size
      BY <3>1 DEF BufferHoldsRest
    <3> QED BY <3>2, <3>3
  <2>10. rest # <<>> => LET last == rest[Len(rest)] IN last.first + last.size = put
    <3>1. rest # <<>> => rest[Len(rest)] = pending_data[Len(pending_data)]
      BY <1>2, <2>2
    <3> QED BY <1>1, <3>1 DEF BufferHoldsRest
  <2>11. BufferHoldsRest'
    <3>1. total_size' = put' - got'
      BY <1>1, <1>4, <1>5, <1>6
    <3>2. IsEmpty' => data' = -1 /\ total_size' = 0
      BY <1>1, <2>1, <2>3, <2>8, <3>1 DEF IsEmpty
    <3>3. ~IsEmpty' =>
            /\ data' = got' /\ pending_data'[1].first <= data'
            /\ data' < pending_data'[1].first + pending_data'[1].size
      BY SMTT(30), <2>1, <2>3, <2>5, <2>7 DEF IsEmpty
    <3>4. ~IsEmpty' =>
            LET last == pending_data'[Len(pending_data')] IN last.first + last.size = put'
      BY <1>1, <2>1, <2>10 DEF IsEmpty
    <3> QED BY <2>1, <2>9, <3>1, <3>2, <3>3, <3>4 DEF BufferHoldsRest
  <2> QED BY Zenon, <1>7, <2>4, <2>6, <2>11
<1> QED BY <1>8, <1>9

\* The call and the return of ReadRequestBody leave the buffer alone.
LEMMA ReadStep ==
  ASSUME IInv, (\E l \in 0..MaxLen : ReadRequestBody(l)) \/ ReadReturns
  PROVE  IInv'
<1> USE DEF IInv, TypeOK
<1>1. UNCHANGED <<pending_data, data, total_size, put, got>>
  BY DEF ReadRequestBody, ReadReturns, bufferVars
<1>2. BufferHoldsRest' /\ PendingAccepted' /\ WithinLimit'
  BY <1>1 DEF BufferHoldsRest, PendingAccepted, WithinLimit, IsEmpty
<1>3. CASE \E l \in 0..MaxLen : ReadRequestBody(l)
  <2>1. PICK l \in 0..MaxLen : ReadRequestBody(l)
    BY <1>3
  <2>2. pc' = "read" /\ len' = l /\ read_bytes' = 0 /\ buf' = <<>> /\ result' = result
    BY <2>1 DEF ReadRequestBody
  <2> QED BY <1>1, <1>2, <2>2, BodyBufferAssumption DEF ReadInOrder
<1>4. CASE ReadReturns
  <2>1. /\ pc' = "idle" /\ UNCHANGED <<len, read_bytes, buf>>
        /\ result' \in Nat \cup {QUIC_STACK_SERVER, QUIC_STACK_STREAM_CLOSED}
    BY <1>4 DEF ReadReturns
  <2> QED BY <1>1, <1>2, <2>1 DEF ReadInOrder
<1> QED BY <1>3, <1>4

\* Every step preserves the invariant.
LEMMA NextIInv == IInv /\ [Next]_vars => IInv'
<1> SUFFICES ASSUME IInv, [Next]_vars PROVE IInv'
  OBVIOUS
<1>1. CASE UNCHANGED vars
  BY <1>1 DEF vars, bufferVars, readVars, IInv, TypeOK, BufferHoldsRest, PendingAccepted,
              WithinLimit, ReadInOrder, IsEmpty
<1>2. CASE Next
  BY <1>2, AppendStep, CopyStep, ReadStep DEF Next
<1> QED BY <1>1, <1>2

\* Every reachable state of the buffer satisfies the invariant.
THEOREM BufferInvariant == Spec => []IInv
  BY InitIInv, NextIInv, PTL DEF Spec

\* The deque of strings, data_ and total_size_ always hold exactly the bytes
\* that Append accepted and ReadRequestBody has not copied.
THEOREM BufferIsConsistent == Spec => [](TypeOK /\ BufferHoldsRest)
<1>1. IInv => TypeOK /\ BufferHoldsRest
  BY DEF IInv
<1> QED BY <1>1, BufferInvariant, PTL

\* The buffer never holds more than max_buffer_size_ bytes.
THEOREM BufferIsBounded == Spec => []WithinLimit
<1>1. IInv => WithinLimit
  BY DEF IInv
<1> QED BY <1>1, BufferInvariant, PTL

\* Successive reads copy the body in order, without gaps or repetitions.
THEOREM ReadsAreInOrder == Spec => []ReadInOrder
<1>1. IInv => ReadInOrder
  BY DEF IInv
<1> QED BY <1>1, BufferInvariant, PTL

\* ReadRequestBody answers QUIC_STACK_STREAM_CLOSED only when everything that
\* was accepted has been read.
THEOREM ReadsAnswerTruly == Spec => ReadAnswers
<1>1. IInv /\ [Next]_vars => [AnswerOfRead]_vars
  <2> SUFFICES ASSUME IInv, Next, pc = "read", pc' = "idle"
               PROVE  AnswerOfRead
    BY DEF AnswerOfRead
  <2>1. ReadReturns
    BY DEF Next, AppendBody, readVars, ReadRequestBody, CopyOut
  <2>2. IsEmpty <=> got = put
    <3>1. IsEmpty => got = put
      BY DEF IInv, TypeOK, BufferHoldsRest
    <3>2. ASSUME ~IsEmpty PROVE got < put
      <4>1. Len(pending_data) \in Nat /\ Len(pending_data) > 0 /\ pending_data[1].first \in Nat
            /\ pending_data[1].size \in Nat
        BY <3>2, PendingFacts DEF IInv, TypeOK, IsEmpty
      <4>2. data = got /\ data < pending_data[1].first + pending_data[1].size
        BY <3>2 DEF IInv, BufferHoldsRest
      <4>3. pending_data[1].first + pending_data[1].size <= put
        BY <4>1 DEF IInv, PendingAccepted
      <4> QED BY <4>1, <4>2, <4>3 DEF IInv, TypeOK
    <3> QED BY <3>1, <3>2 DEF IInv, TypeOK
  <2>3. got \in Nat /\ put \in Nat /\ got <= put /\ read_bytes \in Nat
    BY BodyBufferAssumption DEF IInv, TypeOK, BufferHoldsRest
  <2>4. CASE read_bytes > 0
    BY <2>1, <2>3, <2>4 DEF ReadReturns, AnswerOfRead, QUIC_STACK_SERVER, QUIC_STACK_STREAM_CLOSED
  <2>5. CASE ~(read_bytes > 0)
    BY <2>1, <2>2, <2>3, <2>5
       DEF ReadReturns, AnswerOfRead, QUIC_STACK_SERVER, QUIC_STACK_STREAM_CLOSED
  <2> QED BY <2>4, <2>5
<1> QED BY <1>1, BufferInvariant, PTL DEF Spec, ReadAnswers

\* QueuedWriteIOBuffer and ReadRequestBody implement a bounded queue of bytes.
THEOREM BufferImplementsQueue == Spec => ImplementsQueue
<1>1. Init => Queue!Init
  BY DEF Init, Queue!Init
<1>2. IInv /\ IInv' /\ [Next]_vars => [Queue!Next]_(Queue!queueVars)
  <2> SUFFICES ASSUME IInv, IInv', [Next]_vars
               PROVE  Queue!Next \/ UNCHANGED Queue!queueVars
    OBVIOUS
  <2>1. CASE UNCHANGED vars
    BY <2>1 DEF vars, readVars, Queue!queueVars
  <2>2. ASSUME NEW n \in 0..MaxBytes, AppendBody(n)
        PROVE  Queue!Next \/ UNCHANGED Queue!queueVars
    <3>1. CASE n = 0 \/ total_size + n > MaxBufferSize
      BY <2>2, <3>1 DEF AppendBody, readVars, Queue!queueVars
    <3>2. CASE ~(n = 0 \/ total_size + n > MaxBufferSize)
      <4>1. put' = put + n /\ UNCHANGED <<got, buf>> /\ n \in Nat /\ n > 0
        BY <2>2, <3>2, BodyBufferAssumption DEF AppendBody, readVars
      <4>2. put' \in (put + 1)..(got + MaxBufferSize)
        BY <3>2, <4>1, BodyBufferAssumption DEF IInv, TypeOK, BufferHoldsRest
      <4> QED BY <4>1, <4>2 DEF Queue!Next, Queue!Accept
    <3> QED BY <3>1, <3>2
  <2>3. ASSUME NEW l \in 0..MaxLen, ReadRequestBody(l)
        PROVE  Queue!Next
    BY <2>3 DEF ReadRequestBody, Queue!Next, Queue!BeginRead
  <2>4. CASE CopyOut
    <3> DEFINE n == IF len <= GetSizeToWrite THEN len ELSE GetSizeToWrite
    <3>1. /\ ~IsEmpty
          /\ buf' = [i \in 1..(read_bytes + n) |->
                       IF i <= read_bytes THEN buf[i] ELSE data + i - read_bytes]
          /\ got' = got + n /\ total_size' = total_size - n /\ put' = put
      BY <2>4 DEF CopyOut, DidConsume
    <3>2. data = got /\ total_size' = put' - got' /\ total_size' \in Nat
      BY <3>1 DEF IInv, BufferHoldsRest, TypeOK
    <3>3. n \in Nat /\ n > 0
      BY <2>4, SizeToWrite DEF CopyOut, IInv, TypeOK
    <3>4. Len(buf) = read_bytes
      BY DEF IInv, TypeOK
    <3> HIDE DEF n
    <3>5. got' \in (got + 1)..put /\ got' - got = n
      BY <3>1, <3>2, <3>3 DEF IInv, TypeOK
    <3>6. buf' = [i \in 1..(Len(buf) + got' - got) |->
                    IF i <= Len(buf) THEN buf[i] ELSE got + i - Len(buf)]
      <4>1. Len(buf) + got' - got = read_bytes + n
        BY <3>1, <3>3, <3>4 DEF IInv, TypeOK
      <4> QED BY <3>1, <3>2, <3>4, <4>1
    <3> QED BY Zenon, <3>1, <3>5, <3>6 DEF Queue!Next, Queue!Copy
  <2>5. CASE ReadReturns
    BY <2>5 DEF ReadReturns, Queue!queueVars
  <2> QED BY <2>1, <2>2, <2>3, <2>4, <2>5 DEF Next
<1> QED BY <1>1, <1>2, BufferInvariant, PTL DEF Spec, ImplementsQueue, Queue!Spec
===============================================================================
