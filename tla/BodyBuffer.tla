------------------------------ MODULE BodyBuffer ------------------------------
(***************************************************************************)
(* The request body of a stream (src/tQuicServerStream.cc):                *)
(* QueuedWriteIOBuffer and tQuicServerStream::ReadRequestBody.             *)
(*                                                                         *)
(* The buffer is a deque of strings with a pointer data_ into the first    *)
(* one, and a size that is kept beside them.  A byte is its position in    *)
(* the body, so a string is the position of its first byte and its size,   *)
(* and data_ is the position of the byte it points at.                     *)
(***************************************************************************)
EXTENDS Integers, Sequences

CONSTANTS
  MaxBufferSize,    \* max_buffer_size_
  MaxBytes,         \* bound on the length of the body
  MaxLen            \* bound on the len of ReadRequestBody

ASSUME BodyBufferAssumption ==
  MaxBufferSize \in Nat /\ MaxBytes \in Nat /\ MaxLen \in Nat

VARIABLES
  pending_data,     \* pending_data_
  data,             \* data_
  total_size,       \* total_size_
  pc,               \* "idle", or "read" at the loop head of ReadRequestBody
  len,              \* its len
  read_bytes,       \* its read_bytes, and after it returned still
  buf,              \* the caller's buffer: place -> byte
  result,           \* what the last call returned
  put,              \* history: bytes accepted by Append
  got               \* history: bytes copied to callers

bufferVars == <<pending_data, data, total_size>>
readVars == <<pc, len, read_bytes, buf, result>>
vars == <<bufferVars, readVars, put, got>>

QUIC_STACK_SERVER == -2
QUIC_STACK_STREAM_CLOSED == -4
Null == -1          \* nullptr

Pending == [first : Nat, size : Nat \ {0}]

IsEmpty == pending_data = <<>>

GetSizeToWrite ==
  IF IsEmpty THEN 0
  ELSE LET consumed == data - pending_data[1].first
       IN  pending_data[1].size - consumed

\* Mutant: data_ is moved to every new string.
AppendMovesData(n) ==
  /\ pc = "idle"
  /\ put + n <= MaxBytes
  /\ n # 0 /\ total_size + n <= MaxBufferSize
  /\ pending_data' = Append(pending_data, [first |-> put, size |-> n])
  /\ total_size' = total_size + n
  /\ data' = put
  /\ put' = put + n
  /\ UNCHANGED <<readVars, got>>

\* Append of n bytes: all of them, or none.
AppendBody(n) ==
  /\ pc = "idle"
  /\ put + n <= MaxBytes
  /\ IF n = 0 \/ total_size + n > MaxBufferSize
     THEN UNCHANGED <<bufferVars, put>>
     ELSE /\ pending_data' = Append(pending_data, [first |-> put, size |-> n])
          /\ total_size' = total_size + n
          /\ data' = IF Len(pending_data) + 1 = 1 THEN put ELSE data
          /\ put' = put + n
  /\ UNCHANGED <<readVars, got>>

\* Mutant: a string consumed in part is dropped.
DidConsumeDrops(size) ==
  /\ pending_data' = Tail(pending_data)
  /\ data' = IF Tail(pending_data) = <<>> THEN Null ELSE Tail(pending_data)[1].first
  /\ total_size' = total_size - size

\* Mutant: the size is not brought down when a string is finished.
DidConsumeKeepsSize(size) ==
  IF size < GetSizeToWrite
  THEN /\ data' = data + size
       /\ total_size' = total_size - size
       /\ UNCHANGED pending_data
  ELSE /\ pending_data' = Tail(pending_data)
       /\ data' = IF Tail(pending_data) = <<>> THEN Null ELSE Tail(pending_data)[1].first
       /\ UNCHANGED total_size

DidConsume(size) ==
  /\ IF size < GetSizeToWrite
     THEN data' = data + size /\ UNCHANGED pending_data
     ELSE /\ pending_data' = Tail(pending_data)
          /\ data' = IF Tail(pending_data) = <<>> THEN Null ELSE Tail(pending_data)[1].first
  /\ total_size' = total_size - size

(***************************************************************************)
(* ReadRequestBody(data, l), one step per turn of its loop.                *)
(***************************************************************************)
ReadRequestBody(l) ==
  /\ pc = "idle"
  /\ pc' = "read"
  /\ len' = l
  /\ read_bytes' = 0
  /\ buf' = <<>>
  /\ UNCHANGED <<bufferVars, result, put, got>>

CopyOut ==
  /\ pc = "read"
  /\ ~IsEmpty
  /\ len > 0
  /\ LET n == IF len <= GetSizeToWrite THEN len ELSE GetSizeToWrite
     IN  /\ buf' = [i \in 1..(read_bytes + n) |->
                      IF i <= read_bytes THEN buf[i] ELSE data + i - read_bytes]
         /\ DidConsume(n)
         /\ len' = len - n
         /\ read_bytes' = read_bytes + n
         /\ got' = got + n
  /\ UNCHANGED <<pc, result, put>>

\* Mutant: an answer of 0 bytes is the end of the body.
ReadReturnsEndEarly ==
  /\ pc = "read"
  /\ IsEmpty \/ len = 0
  /\ pc' = "idle"
  /\ result' = IF read_bytes > 0 THEN read_bytes ELSE QUIC_STACK_STREAM_CLOSED
  /\ UNCHANGED <<bufferVars, len, read_bytes, buf, put, got>>

ReadReturns ==
  /\ pc = "read"
  /\ IsEmpty \/ len = 0
  /\ pc' = "idle"
  /\ result' = IF read_bytes > 0 THEN read_bytes
               ELSE IF IsEmpty THEN QUIC_STACK_STREAM_CLOSED
               ELSE QUIC_STACK_SERVER
  /\ UNCHANGED <<bufferVars, len, read_bytes, buf, put, got>>

Init ==
  /\ pending_data = <<>>
  /\ data = Null
  /\ total_size = 0
  /\ pc = "idle"
  /\ len = 0
  /\ read_bytes = 0
  /\ buf = <<>>
  /\ result = 0
  /\ put = 0
  /\ got = 0

Next ==
  \/ \E n \in 0..MaxBytes : AppendBody(n)
  \/ \E l \in 0..MaxLen : ReadRequestBody(l)
  \/ CopyOut
  \/ ReadReturns

Spec == Init /\ [][Next]_vars

(***************************************************************************)
(* Properties.                                                             *)
(***************************************************************************)
\* Every variable has its type (the members of QueuedWriteIOBuffer and the
\* locals of ReadRequestBody).
TypeOK ==
  /\ pending_data \in Seq(Pending)
  /\ data \in Nat \cup {Null}
  /\ total_size \in Nat
  /\ pc \in {"idle", "read"}
  /\ len \in Nat
  /\ read_bytes \in Nat
  /\ buf \in [1..read_bytes -> Nat]
  /\ result \in Nat \cup {QUIC_STACK_SERVER, QUIC_STACK_STREAM_CLOSED}
  /\ put \in 0..MaxBytes
  /\ got \in Nat

\* The strings hold exactly the bytes accepted and not yet read, in order and
\* without a gap; data_ points at the next byte to read; and total_size_ is
\* their number.  The assertions of DidConsume and GetSizeToWrite (lines 106,
\* 123, 127, 129) hold for that reason.
BufferHoldsRest ==
  /\ total_size = put - got
  /\ IsEmpty => data = Null /\ total_size = 0
  /\ ~IsEmpty =>
       /\ data = got
       /\ pending_data[1].first <= data
       /\ data < pending_data[1].first + pending_data[1].size
       /\ LET last == pending_data[Len(pending_data)] IN last.first + last.size = put
  /\ \A i \in 1..(Len(pending_data) - 1) :
       pending_data[i + 1].first = pending_data[i].first + pending_data[i].size

\* No more than max_buffer_size_ bytes are ever held (line 89).
WithinLimit == total_size <= MaxBufferSize

\* A call of ReadRequestBody that runs over several strings puts the bytes
\* that follow those of the previous calls, in order, into the caller's buffer.
ReadInOrder == \A i \in 1..read_bytes : buf[i] = got - read_bytes + i

\* QUIC_STACK_STREAM_CLOSED says that every byte has been read; any other
\* answer says how many bytes were copied, or that none were asked for.
AnswerOfRead ==
  pc = "read" /\ pc' = "idle" =>
    CASE result' = QUIC_STACK_STREAM_CLOSED -> got = put /\ read_bytes = 0
      [] result' = QUIC_STACK_SERVER -> got < put /\ read_bytes = 0
      [] OTHER -> result' = read_bytes /\ read_bytes > 0

ReadAnswers == [][AnswerOfRead]_vars

Queue == INSTANCE BodyQueue WITH
  Limit <- MaxBufferSize, put <- put, got <- got, out <- buf

\* The buffer of strings is a queue of bytes: nothing is lost, repeated or
\* reordered between Append and the caller of ReadRequestBody.
ImplementsQueue == Queue!Spec

\* No string reaches beyond what Append accepted.
PendingAccepted ==
  \A i \in 1..Len(pending_data) : pending_data[i].first + pending_data[i].size <= put

\* The inductive invariant: what Append, DidConsume and ReadRequestBody keep.
IInv == TypeOK /\ BufferHoldsRest /\ PendingAccepted /\ WithinLimit /\ ReadInOrder
===============================================================================
