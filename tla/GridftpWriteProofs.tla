------------------------- MODULE GridftpWriteProofs -------------------------
(***************************************************************************)
(* Proofs about the upload data path, for any number of buffers, any block *)
(* size, concurrency, size of libcurl's buffer and length of the file, any *)
(* order of the server's answers, and any failures.                        *)
(*                                                                         *)
(* The inductive invariant has two halves.  DataInv says where each byte   *)
(* of the file is: not sent yet, in the answer of one read, in one pending *)
(* block or in the body, never in two places (Apart), nowhere else while   *)
(* no call failed (Covered).  Control says what the curl thread knows at   *)
(* each of its steps.                                                      *)
(*                                                                         *)
(* What an upload promises to its caller comes last: a section of the file *)
(* takes no byte beyond its end, and the upload implements Transfer.  Both *)
(* are promises about sections of whole blocks (WholeBlocks) and servers   *)
(* that send no empty read but at eof.  They rest on the order in which a  *)
(* server that is told a length hands out the file: the answered reads are *)
(* the first m of the outstanding ones, and what is unsent starts at s     *)
(* (InOrder).  While nothing went wrong and the file did not end,          *)
(* everything is in whole blocks: the pending ones reach from the offset   *)
(* to block q, the answered reads follow without a gap, and the            *)
(* outstanding reads end within the section (Aligned).                     *)
(***************************************************************************)
EXTENDS GridftpWrite, DataLemmas

Pending == ToSet(pending_buffers)

\* The bytes of the file that the server answered the read of b with
Answered(b) == answer[b].offset .. (answer[b].offset + answer[b].nbytes - 1)

BufferRecord == [transfer_offset : Int, buffer_used : Int, data : Nat]
AnswerRecord == [filled : BOOLEAN, offset : Nat, nbytes : Nat, eof : BOOLEAN,
                 result : {OK} \cup Errors]

\* TypeOK in parts: the data, the flags, the thread, what it has asked for
TypeData ==
  /\ offset \in Nat
  /\ end_offset \in Nat \cup {NoEnd}
  /\ pending_buffers \in Seq(Buffer)
  /\ registered_buffers \subseteq Buffer
  /\ free_buffers \subseteq Buffer
  /\ buf \in [Buffer -> BufferRecord]
  /\ posted \in Seq(Buffer)
  /\ answer \in [Buffer -> AnswerRecord]
  /\ unsent \subseteq 0..(FileLen - 1)

TypeFlags == eof \in BOOLEAN /\ eofp \in BOOLEAN /\ signalled \in BOOLEAN

TypeControl ==
  /\ result \in {OK} \cup Errors
  /\ pc \in {"curl", "waiting", "sent", "freed"} \cup Locked
  /\ buffer_filled \in 0..CurlSize
  /\ outcome \in {"running", "ok", "failed"}
  /\ faults \in 0..MaxFaults

TypeCounts == bytes_registered \in Int /\ asked \in [Buffer -> Int]

\* BufferOwnership without what the buffers hold
Owners ==
  /\ \A j, k \in DOMAIN pending_buffers :
       pending_buffers[j] = pending_buffers[k] => j = k
  /\ Pending \cap (registered_buffers \cup free_buffers) = {}
  /\ registered_buffers \cap free_buffers = {}
  /\ \A j, k \in DOMAIN posted : posted[j] = posted[k] => j = k
  /\ ToSet(posted) = registered_buffers
  /\ IsFiniteSet(registered_buffers)

\* Only a registered read can have an answer.  One that failed has no data, and
\* one with eof came when everything was sent.
Answers ==
  \A b \in Buffer :
    /\ b \notin registered_buffers \/ ~answer[b].filled => answer[b] = NoAnswer
    /\ answer[b].result # OK => answer[b].nbytes = 0 /\ ~answer[b].eof /\ faults > 0
    /\ answer[b].eof => unsent = {}
    /\ answer[b].filled /\ answer[b].result = OK /\ answer[b].nbytes = 0 =>
         EmptyReads \/ answer[b].eof

\* No byte of the file is in two places
Apart ==
  /\ offset <= FileLen
  /\ \A o \in unsent : offset <= o
  /\ \A b \in Buffer : \A o \in Answered(b) :
       /\ offset <= o
       /\ o < FileLen
       /\ o \notin unsent
       /\ \A c \in Buffer \ {b} : o \notin Answered(c)
       /\ \A c \in Pending : o \notin Block(c)
  /\ \A b \in Pending : \A o \in Block(b) : o < FileLen /\ o \notin unsent

\* While no call failed, every byte of the file is in one
Covered ==
  result = OK =>
    \A o \in 0..(FileLen - 1) :
      \/ o < offset
      \/ o \in unsent
      \/ \E b \in Pending : o \in Block(b)
      \/ \E b \in Buffer : o \in Answered(b)

BodyIsPrefix == body \in Seq(Nat) /\ body = [k \in 1..offset |-> k - 1]

DataInv ==
  TypeData /\ Owners /\ Answers /\ Apart /\ Covered /\ Sorted /\ BodyIsPrefix

\* What the curl thread relies on after it looked
Control ==
  /\ pc \in {"loop", "register", "waiting"} => offset # end_offset /\ buffer_filled = 0
  /\ pc = "register" => result = OK /\ ~eof /\ ~is_transfer_offset_ready
  /\ pc = "copy" =>
       /\ result = OK
       /\ buffer_filled > 0 \/ is_transfer_offset_ready \/ is_reading_complete
  /\ result # OK => faults > 0
  /\ outcome = "running" <=> pc \notin {"sent", "freed"}

IInv == DataInv /\ TypeFlags /\ TypeControl /\ Control /\ EofpIsEndOfFile

----------------------------------------------------------------------------
\* What the proofs use of the assumption on the constants.
LEMMA Bounds ==
  /\ BlockSize \in Nat \ {0}
  /\ Concurrency \in Nat \ {0}
  /\ CurlSize \in Nat \ {0}
  /\ FileLen \in Nat
  /\ Lengths \subseteq Nat \cup {-1}
  /\ MaxFaults \in Nat
  BY GridftpWriteAssumption

\* Buffers as records: two with the same fields, one partly copied, one reset.
LEMMA SameBlock ==
  ASSUME NEW p \in BufferRecord, NEW q \in BufferRecord,
         p.transfer_offset = q.transfer_offset, p.buffer_used = q.buffer_used,
         p.data = q.data
  PROVE  p = q
  BY DEF BufferRecord

LEMMA PartialBlock ==
  ASSUME NEW p \in BufferRecord, NEW n \in Nat
  PROVE  AfterPartialCopy(p, n) =
           [transfer_offset |-> p.transfer_offset + n,
            buffer_used |-> p.buffer_used - n,
            data |-> p.data + n]
  <1> DEFINE x == p.transfer_offset + n
             y == p.buffer_used - n
             z == p.data + n
  <1>1. x \in Int /\ y \in Int /\ z \in Nat
    BY DEF BufferRecord
  <1>2. AfterPartialCopy(p, n) = [p EXCEPT !.transfer_offset = x, !.buffer_used = y, !.data = z]
    BY DEF AfterPartialCopy
  <1> HIDE DEF x, y, z
  <1>3. /\ AfterPartialCopy(p, n) \in BufferRecord
        /\ AfterPartialCopy(p, n).transfer_offset = x
        /\ AfterPartialCopy(p, n).buffer_used = y
        /\ AfterPartialCopy(p, n).data = z
    BY <1>1, <1>2 DEF BufferRecord
  <1>4. [transfer_offset |-> x, buffer_used |-> y, data |-> z] \in BufferRecord
    BY <1>1 DEF BufferRecord
  <1>5. AfterPartialCopy(p, n) = [transfer_offset |-> x, buffer_used |-> y, data |-> z]
    BY <1>3, <1>4, SameBlock
  <1> QED
    BY <1>5 DEF x, y, z

LEMMA ResetBlock ==
  ASSUME NEW p \in BufferRecord, NEW x \in Int, NEW y \in Int
  PROVE  /\ Reset(p, x, y) \in BufferRecord
         /\ Reset(p, x, y).buffer_used = y
  BY DEF Reset, BufferRecord

LEMMA InitIInv == Init => IInv
  <1> SUFFICES ASSUME Init PROVE IInv
    OBVIOUS
  <1> USE Bounds DEF Init
  <1>1. TypeData
    <2>1. pending_buffers \in Seq(Buffer) /\ posted \in Seq(Buffer)
      BY EmptySeq
    <2>2. buf \in [Buffer -> BufferRecord]
      BY DEF BufferRecord
    <2>3. NoAnswer \in AnswerRecord
      BY DEF NoAnswer, AnswerRecord, OK, Errors
    <2>4. answer \in [Buffer -> AnswerRecord]
      BY <2>3
    <2> QED
      BY <2>1, <2>2, <2>4 DEF TypeData, NoEnd
  <1>2. TypeFlags
    BY DEF TypeFlags
  <1>3. TypeControl
    BY DEF TypeControl, OK, Errors
  <1>4. Owners
    BY SetOfEmpty, FS_EmptySet DEF Owners, Pending
  <1>5. \A b \in Buffer : answer[b] = NoAnswer /\ Answered(b) = {}
    BY DEF Answered, NoAnswer
  <1>6. Answers
    BY <1>5 DEF Answers, NoAnswer
  <1>7. Pending = {}
    BY SetOfEmpty DEF Pending
  <1>8. Apart /\ Covered
    BY <1>5, <1>7 DEF Apart, Covered
  <1>9. Sorted
    BY DEF Sorted
  <1>10. BodyIsPrefix
    <2>1. <<>> = [k \in 1..0 |-> k - 1]
      <3>1. 1..0 = {}
        OBVIOUS
      <3> QED
        BY <3>1
    <2> QED
      BY <2>1, EmptySeq DEF BodyIsPrefix
  <1>11. Control /\ EofpIsEndOfFile
    BY DEF Control, EofpIsEndOfFile, OK
  <1> QED
    BY <1>1, <1>2, <1>3, <1>4, <1>6, <1>8, <1>9, <1>10, <1>11 DEF IInv, DataInv

----------------------------------------------------------------------------
\* Steps that touch no list, buffer, answer or byte.
DataAlone ==
  UNCHANGED <<offset, end_offset, lists, posted, answer, unsent, body>>

LEMMA DataAloneStep ==
  ASSUME DataInv, DataAlone, result' = OK => result = OK,
         faults \in Nat, faults' \in Nat, faults' >= faults
  PROVE  DataInv'
  <1> USE DEF DataAlone, lists
  <1>1. TypeData' /\ Owners' /\ BodyIsPrefix'
    BY DEF DataInv, TypeData, Owners, Pending, BodyIsPrefix
  <1>2. Answers'
    BY DEF DataInv, Answers
  <1>3. Apart' /\ Covered' /\ Sorted'
    BY DEF DataInv, Apart, Covered, Sorted, Pending, Answered, Block
  <1> QED
    BY <1>1, <1>2, <1>3 DEF DataInv

\* The buffer globus_i_dsi_rest_buffer_get returns is on no other list.
LEMMA Obtained ==
  ASSUME DataInv, NEW b \in obtainable
  PROVE  b \in Buffer /\ b \notin registered_buffers /\ b \notin Pending
  BY DEF DataInv, TypeData, Owners, obtainable, allocated, Pending

\* Changing only the transfer_offset of a buffer that is not pending hurts nobody.
LEMMA OtherBuffer ==
  ASSUME DataInv, NEW b \in Buffer, b \notin Pending,
         buf' = [buf EXCEPT ![b].transfer_offset = -1],
         UNCHANGED <<offset, pending_buffers, answer, unsent, body>>,
         result' = OK => result = OK
  PROVE  /\ buf' \in [Buffer -> BufferRecord]
         /\ Apart' /\ Covered' /\ Sorted' /\ BodyIsPrefix'
         /\ \A c \in Buffer : buf'[c].buffer_used = buf[c].buffer_used
  <1>1. /\ \A c \in Buffer : /\ buf'[c].data = buf[c].data
                             /\ buf'[c].buffer_used = buf[c].buffer_used
        /\ \A c \in Pending : buf'[c] = buf[c]
        /\ buf' \in [Buffer -> BufferRecord]
    BY DEF DataInv, TypeData, BufferRecord
  <1>2. Pending \subseteq Buffer /\ Pending' = Pending
        /\ \A j \in DOMAIN pending_buffers : pending_buffers[j] \in Pending
    BY DEF Pending, ToSet, DataInv, TypeData
  <1>3. \A c \in Pending : Block(c)' = Block(c)
    BY <1>1, <1>2 DEF Block
  <1>4. \A c \in Buffer : Answered(c)' = Answered(c)
    BY DEF Answered
  <1>5. Apart' /\ Covered'
    BY <1>2, <1>3, <1>4 DEF DataInv, Apart, Covered
  <1>6. Sorted'
    <2>1. \A j \in DOMAIN pending_buffers : \A k \in 1..(j - 1) : k \in DOMAIN pending_buffers
      BY LenProperties DEF DataInv, TypeData
    <2> QED
      BY <1>1, <1>2, <2>1 DEF DataInv, Sorted
  <1>7. BodyIsPrefix'
    BY DEF DataInv, BodyIsPrefix
  <1> QED
    BY <1>1, <1>5, <1>6, <1>7

LEMMA RegisterReadData == ASSUME DataInv, RegisterRead PROVE DataInv'
  <1> DEFINE b == CHOOSE b \in obtainable : TRUE
  <1>1. b \in Buffer /\ b \notin registered_buffers /\ b \notin Pending
    BY Obtained DEF RegisterRead
  <1>2. /\ registered_buffers' = registered_buffers \cup {b}
        /\ free_buffers' = free_buffers \ {b}
        /\ buf' = [buf EXCEPT ![b].transfer_offset = -1]
        /\ posted' = Append(posted, b)
        /\ UNCHANGED <<offset, end_offset, pending_buffers, answer, unsent, body, result, faults>>
    BY DEF RegisterRead, flags, curlvars
  <1> HIDE DEF b
  <1>3. /\ buf' \in [Buffer -> BufferRecord]
        /\ Apart' /\ Covered' /\ Sorted' /\ BodyIsPrefix'
    BY <1>1, <1>2, OtherBuffer
  <1>4. /\ posted' \in Seq(Buffer)
        /\ ToSet(posted') = ToSet(posted) \cup {b}
        /\ \A i, j \in DOMAIN posted' : posted'[i] = posted'[j] => i = j
    <2>1. b \notin ToSet(posted) /\ posted \in Seq(Buffer)
      BY <1>1 DEF DataInv, Owners, TypeData
    <2> QED
      BY <1>1, <1>2, <2>1, Appended DEF DataInv, Owners
  <1>5. TypeData'
    BY <1>1, <1>2, <1>3, <1>4 DEF DataInv, TypeData
  <1>6. Owners'
    <2>1. IsFiniteSet(registered_buffers')
      BY <1>2, FS_AddElement DEF DataInv, Owners
    <2> QED
      BY <1>1, <1>2, <1>4, <2>1 DEF DataInv, Owners, Pending
  <1>7. Answers'
    BY <1>1, <1>2 DEF DataInv, Answers
  <1> QED
    BY <1>3, <1>5, <1>6, <1>7 DEF DataInv

LEMMA RegisterFailData ==
  ASSUME DataInv, RegisterFail, faults \in Nat PROVE DataInv'
  <1> DEFINE b == CHOOSE b \in obtainable : TRUE
  <1>1. b \in Buffer /\ b \notin registered_buffers /\ b \notin Pending
    BY Obtained DEF RegisterFail
  <1>2. /\ free_buffers' = free_buffers \cup {b}
        /\ buf' = [buf EXCEPT ![b].transfer_offset = -1]
        /\ result' = OK => result = OK
        /\ faults' = faults + 1
        /\ UNCHANGED <<offset, end_offset, pending_buffers, registered_buffers, posted,
                       answer, unsent, body>>
    BY DEF RegisterFail, RegisterReturn, FirstError, servervars, Fault, OK
  <1> HIDE DEF b
  <1>3. /\ buf' \in [Buffer -> BufferRecord]
        /\ Apart' /\ Covered' /\ Sorted' /\ BodyIsPrefix'
    BY <1>1, <1>2, OtherBuffer
  <1>4. TypeData'
    BY <1>1, <1>2, <1>3 DEF DataInv, TypeData
  <1>5. Owners'
    BY <1>1, <1>2 DEF DataInv, Owners, Pending
  <1>6. Answers'
    BY <1>2 DEF DataInv, Answers
  <1> QED
    BY <1>3, <1>4, <1>5, <1>6 DEF DataInv

LEMMA CleanupData == ASSUME DataInv, Cleanup PROVE DataInv'
  <1> USE DEF Cleanup, flags, locals, curlvars, servervars
  <1>1. TypeData' /\ Owners' /\ BodyIsPrefix'
    BY DEF DataInv, TypeData, Owners, Pending, BodyIsPrefix
  <1>2. Answers'
    BY DEF DataInv, Answers
  <1>3. Apart' /\ Covered' /\ Sorted'
    BY DEF DataInv, Apart, Covered, Sorted, Pending, Answered, Block
  <1> QED
    BY <1>1, <1>2, <1>3 DEF DataInv
\* The pending blocks, by buffer rather than by place.
LEMMA PendingBlocks ==
  ASSUME DataInv
  PROVE  /\ Pending \subseteq Buffer
         /\ \A b \in Pending :
              /\ buf[b] \in BufferRecord
              /\ buf[b].transfer_offset = buf[b].data
              /\ buf[b].buffer_used > 0
              /\ buf[b].data >= offset
              /\ buf[b].data + buf[b].buffer_used <= FileLen
  <1>1. DOMAIN pending_buffers = 1..Len(pending_buffers)
        /\ \A j \in DOMAIN pending_buffers : pending_buffers[j] \in Buffer
    BY LenProperties, ElementOfSeq DEF DataInv, TypeData
  <1>2. Pending \subseteq Buffer
    BY <1>1 DEF Pending, ToSet
  <1>3. \A b \in Pending :
          /\ buf[b] \in BufferRecord
          /\ buf[b].transfer_offset = buf[b].data
          /\ buf[b].buffer_used > 0
          /\ buf[b].data >= offset
    BY <1>1, <1>2 DEF DataInv, TypeData, Sorted, Pending, ToSet
  <1>4. ASSUME NEW b \in Pending PROVE buf[b].data + buf[b].buffer_used <= FileLen
    <2> DEFINE d == buf[b].data
               u == buf[b].buffer_used
    <2>1. d \in Nat /\ u \in Int /\ u > 0
      BY <1>3 DEF BufferRecord
    <2>2. \A o \in d .. (d + u - 1) : o < FileLen
      BY DEF DataInv, Apart, Block
    <2> HIDE DEF d, u
    <2>3. d + u - 1 \in d .. (d + u - 1)
      BY <2>1
    <2>4. d + u - 1 < FileLen
      BY <2>2, <2>3
    <2> QED
      BY <2>1, <2>4, Bounds DEF d, u
  <1> QED
    BY <1>2, <1>3, <1>4

\* The block the copy loop takes, and how much of it.
LEMMA CopyBlock ==
  ASSUME DataInv, TypeControl, CopyNext
  PROVE  LET b == Head(pending_buffers)
             n == to_copy(b)
         IN  /\ b \in Pending
             /\ b = pending_buffers[1]
             /\ buf[b].transfer_offset = offset
             /\ buf[b].data = offset
             /\ buf[b].buffer_used \in Nat
             /\ n \in Nat \ {0}
             /\ n <= buf[b].buffer_used
             /\ buffer_filled + n <= CurlSize
             /\ \A c \in Pending \ {b} : buf[c].data >= offset + buf[b].buffer_used
  <1> DEFINE b == Head(pending_buffers)
             u == buf[b].buffer_used
             n == to_copy(b)
  <1>1. /\ pending_buffers # <<>>
        /\ buf[b].transfer_offset = offset
        /\ buffer_filled < CurlSize
    BY DEF CopyNext, is_transfer_offset_ready
  <1>2. /\ b = pending_buffers[1]
        /\ b \in Pending
        /\ DOMAIN pending_buffers = 1..Len(pending_buffers)
        /\ Len(pending_buffers) \in Nat \ {0}
    BY <1>1, Beheaded, LenProperties DEF DataInv, TypeData, Owners, Pending
  <1>3. u \in Nat \ {0} /\ buf[b].data = offset
    BY <1>1, <1>2, PendingBlocks DEF BufferRecord
  <1>4. n \in Nat \ {0} /\ n <= u /\ buffer_filled + n <= CurlSize
    <2> HIDE DEF b
    <2>1. n = IF CurlSize - buffer_filled < u THEN CurlSize - buffer_filled ELSE u
      BY DEF to_copy
    <2> HIDE DEF n, u
    <2> QED
      BY <1>1, <1>3, <2>1, Bounds DEF TypeControl
  <1>5. ASSUME NEW c \in Pending \ {b} PROVE buf[c].data >= offset + u
    <2>1. PICK j \in DOMAIN pending_buffers : pending_buffers[j] = c
      BY DEF Pending, ToSet
    <2>2. 1 \in 1..(j - 1)
      BY <1>2, <2>1
    <2>3. buf[pending_buffers[1]].transfer_offset + buf[pending_buffers[1]].buffer_used
            <= buf[c].transfer_offset
      BY <2>1, <2>2 DEF DataInv, Sorted
    <2>4. buf[c].transfer_offset = buf[c].data /\ buf[c].data \in Nat
      BY PendingBlocks DEF BufferRecord
    <2> HIDE DEF b
    <2> QED
      BY <1>1, <1>2, <2>3, <2>4 DEF u
  <1> QED
    BY <1>1, <1>2, <1>3, <1>4, <1>5

\* Bytes appended to a prefix of the file extend it.
LEMMA PrefixExtended ==
  ASSUME NEW a \in Nat, NEW n \in Nat
  PROVE  [k \in 1..a |-> k - 1] \o [k \in 1..n |-> a + k - 1] = [k \in 1..(a + n) |-> k - 1]
  <1> DEFINE s == [k \in 1..a |-> k - 1]
             t == [k \in 1..n |-> a + k - 1]
             r == [k \in 1..(a + n) |-> k - 1]
  <1>1. s \in Seq(Int) /\ Len(s) = a /\ \A k \in 1..a : s[k] = k - 1
    OBVIOUS
  <1>2. t \in Seq(Int) /\ Len(t) = n /\ \A k \in 1..n : t[k] = a + k - 1
    OBVIOUS
  <1>3. r \in Seq(Int) /\ Len(r) = a + n /\ \A k \in 1..(a + n) : r[k] = k - 1
    OBVIOUS
  <1> HIDE DEF s, t, r
  <1>4. /\ s \o t \in Seq(Int)
        /\ Len(s \o t) = a + n
        /\ \A k \in 1..(a + n) : (s \o t)[k] = IF k <= a THEN s[k] ELSE t[k - a]
    BY <1>1, <1>2, ConcatProperties
  <1>5. ASSUME NEW k \in 1..(a + n) PROVE (s \o t)[k] = r[k]
    <2>1. CASE k <= a
      BY <1>1, <1>3, <1>4, <2>1
    <2>2. CASE ~(k <= a)
      <3>1. k - a \in 1..n /\ a + (k - a) - 1 = k - 1
        BY <2>2
      <3> QED
        BY <1>2, <1>3, <1>4, <2>2, <3>1
    <2> QED
      BY <2>1, <2>2
  <1>6. s \o t = r
    BY <1>3, <1>4, <1>5, SeqEqual
  <1> QED
    BY <1>6 DEF s, t, r

\* Both branches of Copy, told by what they leave of the block.
LEMMA CopyShape ==
  ASSUME DataInv, TypeControl, Copy
  PROVE  LET b == Head(pending_buffers)
             n == to_copy(b)
         IN  /\ offset' = offset + n
             /\ body' = body \o [k \in 1..n |-> offset + k - 1]
             /\ buf' \in [Buffer -> BufferRecord]
             /\ \A c \in Buffer \ {b} : buf'[c] = buf[c]
             /\ \/ /\ n < buf[b].buffer_used
                   /\ pending_buffers' = pending_buffers
                   /\ free_buffers' = free_buffers
                   /\ buf'[b] = [transfer_offset |-> offset + n,
                                 buffer_used |-> buf[b].buffer_used - n,
                                 data |-> offset + n]
                \/ /\ n = buf[b].buffer_used
                   /\ pending_buffers' = Tail(pending_buffers)
                   /\ free_buffers' = free_buffers \cup {b}
                   /\ buf'[b].buffer_used = 0
             /\ UNCHANGED <<result, eof, eofp, end_offset, registered_buffers, posted,
                            asked, answer, unsent, faults, pc>>
  <1> DEFINE b == Head(pending_buffers)
             n == to_copy(b)
             u == buf[b].buffer_used
  <1>1. CopyNext
    BY DEF Copy
  <1>2. /\ b \in Pending
        /\ buf[b].transfer_offset = offset
        /\ buf[b].data = offset
        /\ u \in Nat
        /\ n \in Nat \ {0}
        /\ n <= u
    BY <1>1, CopyBlock
  <1>3. b \in Buffer /\ buf[b] \in BufferRecord /\ offset \in Nat
        /\ buf \in [Buffer -> BufferRecord]
    BY <1>2, PendingBlocks DEF DataInv, TypeData
  <1>4. /\ offset' = offset + n
        /\ body' = body \o [k \in 1..n |-> buf[b].data + k - 1]
        /\ IF n < u
           THEN /\ buf' = [buf EXCEPT ![b] = AfterPartialCopy(@, n)]
                /\ UNCHANGED <<pending_buffers, free_buffers>>
           ELSE /\ buf' = [buf EXCEPT ![b] = Reset(@, -1, 0)]
                /\ pending_buffers' = Tail(pending_buffers)
                /\ free_buffers' = free_buffers \cup {b}
        /\ UNCHANGED <<result, eof, eofp, end_offset, registered_buffers, posted,
                       asked, answer, unsent, faults, pc>>
    BY DEF Copy, flags, servervars
  <1> HIDE DEF b, n
  <1>5. CASE n < u
    <2> DEFINE rest == [transfer_offset |-> offset + n, buffer_used |-> u - n, data |-> offset + n]
    <2>1. AfterPartialCopy(buf[b], n) = rest
      BY <1>2, <1>3, PartialBlock
    <2>2. rest \in BufferRecord
      BY <1>2, <1>3 DEF BufferRecord
    <2>3. buf' = [buf EXCEPT ![b] = rest]
      BY <1>4, <1>5, <2>1
    <2> HIDE DEF rest
    <2>4. /\ buf' \in [Buffer -> BufferRecord]
          /\ buf'[b] = rest
          /\ \A c \in Buffer \ {b} : buf'[c] = buf[c]
      BY <1>3, <2>2, <2>3
    <2> QED
      BY <1>2, <1>4, <1>5, <2>4 DEF b, n, rest
  <1>6. CASE ~(n < u)
    <2>1. n = u
      BY <1>2, <1>6
    <2>2. buf' = [buf EXCEPT ![b] = Reset(buf[b], -1, 0)]
      BY <1>4, <1>6
    <2>3. /\ buf' \in [Buffer -> BufferRecord]
          /\ buf'[b].buffer_used = 0
          /\ \A c \in Buffer \ {b} : buf'[c] = buf[c]
      <3>1. Reset(buf[b], -1, 0) \in BufferRecord /\ Reset(buf[b], -1, 0).buffer_used = 0
        BY <1>3, ResetBlock
      <3> QED
        BY <1>3, <2>2, <3>1
    <2> QED
      BY <1>2, <1>4, <1>6, <2>1, <2>3 DEF b, n
  <1> QED
    BY <1>5, <1>6

LEMMA CopyData == ASSUME DataInv, TypeControl, Copy PROVE DataInv'
  <1>0. PICK b, n, u : b = Head(pending_buffers) /\ n = to_copy(b) /\ u = buf[b].buffer_used
    OBVIOUS
  <1>1. /\ b \in Pending
        /\ b = pending_buffers[1]
        /\ buf[b].transfer_offset = offset
        /\ buf[b].data = offset
        /\ u = buf[b].buffer_used
        /\ u \in Nat
        /\ n \in Nat \ {0}
        /\ n <= u
        /\ \A c \in Pending \ {b} : buf[c].data >= offset + u
    BY <1>0, CopyBlock DEF Copy
  <1>2. /\ offset' = offset + n
        /\ body' = body \o [k \in 1..n |-> offset + k - 1]
        /\ buf' \in [Buffer -> BufferRecord]
        /\ \A c \in Buffer \ {b} : buf'[c] = buf[c]
        /\ UNCHANGED <<result, end_offset, registered_buffers, posted, answer, unsent, faults>>
    BY <1>0, CopyShape
  <1>3. \/ /\ n < u
           /\ pending_buffers' = pending_buffers
           /\ free_buffers' = free_buffers
           /\ buf'[b] = [transfer_offset |-> offset + n, buffer_used |-> u - n,
                         data |-> offset + n]
        \/ /\ n = u
           /\ pending_buffers' = Tail(pending_buffers)
           /\ free_buffers' = free_buffers \cup {b}
    BY <1>0, CopyShape
  <1>4. /\ pending_buffers \in Seq(Buffer)
        /\ pending_buffers # <<>>
        /\ b \in Buffer
        /\ offset \in Nat
        /\ \A i, j \in DOMAIN pending_buffers : pending_buffers[i] = pending_buffers[j] => i = j
    BY <1>1, PendingBlocks DEF Copy, CopyNext, is_transfer_offset_ready, DataInv, TypeData,
       Owners
  <1>5. /\ Len(pending_buffers) \in Nat \ {0}
        /\ DOMAIN pending_buffers = 1..Len(pending_buffers)
        /\ Tail(pending_buffers) \in Seq(Buffer)
        /\ DOMAIN Tail(pending_buffers) = 1..(Len(pending_buffers) - 1)
        /\ \A i \in 1..(Len(pending_buffers) - 1) :
             /\ Tail(pending_buffers)[i] = pending_buffers[i + 1]
             /\ Tail(pending_buffers)[i] # b
        /\ ToSet(Tail(pending_buffers)) = Pending \ {b}
        /\ \A i, j \in DOMAIN Tail(pending_buffers) :
             Tail(pending_buffers)[i] = Tail(pending_buffers)[j] => i = j
    BY <1>1, <1>4, Beheaded, LenProperties DEF Pending
  <1>6. TypeData'
    <2>1. pending_buffers' \in Seq(Buffer) /\ free_buffers' \subseteq Buffer
      BY <1>3, <1>4, <1>5 DEF DataInv, TypeData
    <2>2. offset' \in Nat
      BY <1>1, <1>2, <1>4
    <2> QED
      BY <1>2, <2>1, <2>2 DEF DataInv, TypeData
  <1>7. \/ Pending' = Pending /\ n < u
        \/ Pending' = Pending \ {b} /\ n = u
    BY <1>3, <1>5 DEF Pending
  <1>8. Owners'
    <2>1. CASE pending_buffers' = pending_buffers /\ free_buffers' = free_buffers
      BY <1>2, <2>1 DEF DataInv, Owners, Pending
    <2>2. CASE pending_buffers' = Tail(pending_buffers) /\ free_buffers' = free_buffers \cup {b}
      <3>1. Pending' = Pending \ {b}
        BY <1>5, <2>2 DEF Pending
      <3> QED
        BY <1>1, <1>2, <1>5, <2>2, <3>1 DEF DataInv, Owners
    <2> QED
      BY <1>3, <2>1, <2>2
  <1>9. Answers'
    BY <1>2 DEF DataInv, Answers
  <1>10. /\ \A c \in Pending \ {b} : Block(c)' = Block(c)
         /\ Block(b) = offset .. (offset + u - 1)
         /\ b \in Pending' => Block(b)' = (offset + n) .. (offset + u - 1)
         /\ \A c \in Buffer : Answered(c)' = Answered(c)
    <2>1. \A c \in Pending \ {b} : c \in Buffer \ {b}
      BY PendingBlocks
    <2>2. \A c \in Pending \ {b} : Block(c)' = Block(c)
      BY <1>2, <2>1 DEF Block
    <2>3. Block(b) = offset .. (offset + u - 1)
      BY <1>1 DEF Block
    <2>4. b \in Pending' => Block(b)' = (offset + n) .. (offset + u - 1)
      <3>1. CASE n < u
        <4>1. buf'[b].data = offset + n /\ buf'[b].buffer_used = u - n
          BY <1>3, <3>1, <1>1
        <4>2. (offset + n) + (u - n) - 1 = offset + u - 1
          BY <1>1, <1>4
        <4> QED
          BY <4>1, <4>2 DEF Block
      <3>2. CASE ~(n < u)
        BY <1>7, <3>2
      <3> QED
        BY <3>1, <3>2
    <2>5. \A c \in Buffer : Answered(c)' = Answered(c)
      BY <1>2 DEF Answered
    <2> QED
      BY <2>2, <2>3, <2>4, <2>5
  <1>11. offset + u <= FileLen
    BY <1>1, PendingBlocks
  <1>12. Pending' \subseteq Pending
    BY <1>7
  <1>13. Apart'
    <2>1. offset' <= FileLen
      BY <1>1, <1>2, <1>4, <1>11, Bounds
    <2>2. ASSUME NEW o \in unsent PROVE offset' <= o
      <3>1. o \in Int /\ offset <= o
        BY DEF DataInv, Apart, TypeData
      <3>2. o \notin Block(b)
        BY <1>1 DEF DataInv, Apart
      <3> QED
        BY <1>1, <1>2, <1>4, <1>10, <3>1, <3>2, SMTT(30)
    <2>3. ASSUME NEW c \in Buffer, NEW o \in Answered(c)
          PROVE  /\ offset' <= o
                 /\ o < FileLen
                 /\ o \notin unsent
                 /\ \A d \in Buffer \ {c} : o \notin Answered(d)
                 /\ \A d \in Pending' : o \notin Block(d)'
      <3>1. /\ offset <= o
            /\ o < FileLen
            /\ o \notin unsent
            /\ \A d \in Buffer \ {c} : o \notin Answered(d)
            /\ \A d \in Pending : o \notin Block(d)
        BY DEF DataInv, Apart
      <3>2. o \in Int
        BY DEF Answered
      <3>3. offset' <= o
        BY <1>1, <1>2, <1>4, <1>10, <3>1, <3>2, SMTT(30)
      <3>4. ASSUME NEW d \in Pending' PROVE o \notin Block(d)'
        <4>1. CASE d = b
          BY <1>1, <1>4, <1>10, <3>1, <4>1
        <4>2. CASE d # b
          BY <1>10, <1>12, <3>1, <4>2
        <4> QED
          BY <4>1, <4>2
      <3> QED
        BY <3>1, <3>3, <3>4
    <2>4. ASSUME NEW c \in Pending', NEW o \in Block(c)'
          PROVE  o < FileLen /\ o \notin unsent
      <3>1. o \in Block(c)
        <4>1. CASE c = b
          BY <1>1, <1>4, <1>10, <4>1
        <4>2. CASE c # b
          BY <1>10, <1>12, <4>2
        <4> QED
          BY <4>1, <4>2
      <3> QED
        BY <1>12, <3>1 DEF DataInv, Apart
    <2> QED
      BY <1>2, <1>10, <2>1, <2>2, <2>3, <2>4 DEF Apart
  <1>14. Covered'
    <2> SUFFICES ASSUME result = OK, NEW o \in 0..(FileLen - 1)
                 PROVE  \/ o < offset'
                        \/ o \in unsent
                        \/ \E c \in Pending' : o \in Block(c)'
                        \/ \E c \in Buffer : o \in Answered(c)
      BY <1>2, <1>10 DEF Covered
    <2>1. \/ o < offset
          \/ o \in unsent
          \/ \E c \in Pending : o \in Block(c)
          \/ \E c \in Buffer : o \in Answered(c)
      BY DEF DataInv, Covered
    <2>2. CASE o < offset
      BY <1>1, <1>2, <1>4, <2>2
    <2>3. CASE \E c \in Pending \ {b} : o \in Block(c)
      BY <1>7, <1>10, <2>3
    <2>4. CASE o \in Block(b)
      <3>1. CASE o < offset + n
        BY <1>2, <3>1
      <3>2. CASE ~(o < offset + n)
        <4>1. n < u /\ b \in Pending'
          BY <1>1, <1>4, <1>7, <1>10, <2>4, <3>2
        <4>2. o \in Block(b)'
          BY <1>1, <1>4, <1>10, <2>4, <3>2, <4>1
        <4> QED
          BY <4>1, <4>2
      <3> QED
        BY <3>1, <3>2
    <2> QED
      BY <2>1, <2>2, <2>3, <2>4
  <1>15. Sorted'
    <2> DEFINE Place(j) == IF pending_buffers' = pending_buffers THEN j ELSE j + 1
    <2>1. ASSUME NEW j \in DOMAIN pending_buffers'
          PROVE  /\ Place(j) \in DOMAIN pending_buffers
                 /\ pending_buffers'[j] = pending_buffers[Place(j)]
                 /\ \A k \in 1..(j - 1) : /\ Place(k) \in 1..(Place(j) - 1)
                                          /\ k \in DOMAIN pending_buffers'
                                          /\ Place(k) \in DOMAIN pending_buffers
                                          /\ pending_buffers'[k] = pending_buffers[Place(k)]
      <3>1. CASE pending_buffers' = pending_buffers
        BY <1>5, <3>1
      <3>2. CASE pending_buffers' # pending_buffers
        <4>1. pending_buffers' = Tail(pending_buffers)
          BY <1>3, <3>2
        <4>2. j \in 1..(Len(pending_buffers) - 1)
          BY <1>5, <4>1
        <4>3. \A k \in 1..(j - 1) : /\ k \in 1..(Len(pending_buffers) - 1)
                                    /\ k + 1 \in 1..Len(pending_buffers)
                                    /\ k + 1 \in 1..((j + 1) - 1)
          BY <1>5, <4>2
        <4>4. \A i : Place(i) = i + 1
          BY <3>2
        <4> HIDE DEF Place
        <4> QED
          BY <1>5, <4>1, <4>2, <4>3, <4>4
      <3> QED
        BY <3>1, <3>2
    <2> HIDE DEF Place
    <2> DEFINE to(c) == buf[c].transfer_offset
               end(c) == buf[c].transfer_offset + buf[c].buffer_used
    <2>2. ASSUME NEW c \in Pending'
          PROVE  /\ buf'[c].transfer_offset = buf'[c].data
                 /\ buf'[c].buffer_used > 0
                 /\ buf'[c].transfer_offset >= offset'
                 /\ buf'[c].transfer_offset >= to(c)
                 /\ buf'[c].transfer_offset + buf'[c].buffer_used = end(c)
                 /\ buf'[c].transfer_offset \in Int
                 /\ to(c) \in Int
                 /\ end(c) \in Int
      <3>1. CASE c = b
        <4>1. n < u
          BY <1>7, <3>1, <1>1
        <4>2. buf'[b] = [transfer_offset |-> offset + n, buffer_used |-> u - n,
                         data |-> offset + n]
          BY <1>3, <4>1, <1>1
        <4>3. /\ buf'[b].transfer_offset = offset + n
              /\ buf'[b].buffer_used = u - n
              /\ buf'[b].data = offset + n
          BY <4>2
        <4>4. to(b) = offset /\ end(b) = offset + u
          BY <1>1
        <4> HIDE DEF to, end
        <4> QED
          BY <1>1, <1>2, <1>4, <3>1, <4>1, <4>3, <4>4, SMTT(30)
      <3>2. CASE c # b
        <4>1. c \in Pending \ {b} /\ c \in Buffer \ {b}
          BY <1>12, <3>2, PendingBlocks
        <4>2. buf'[c] = buf[c]
          BY <1>2, <4>1
        <4>3. /\ buf[c] \in BufferRecord
              /\ buf[c].transfer_offset = buf[c].data
              /\ buf[c].buffer_used > 0
              /\ buf[c].data >= offset + u
          BY <1>1, <4>1, PendingBlocks
        <4>4. /\ buf[c].transfer_offset \in Int
              /\ buf[c].buffer_used \in Int
              /\ buf[c].data \in Nat
          BY <4>3 DEF BufferRecord
        <4>5. offset' <= buf[c].data
          BY <1>1, <1>2, <1>4, <4>3, <4>4, SMTT(30)
        <4>6. end(c) \in Int /\ to(c) \in Int /\ to(c) = buf[c].transfer_offset
          BY <4>4
        <4> QED
          BY <4>2, <4>3, <4>4, <4>5, <4>6
      <3> QED
        BY <3>1, <3>2
    <2>3. \A j \in DOMAIN pending_buffers' : pending_buffers'[j] \in Pending'
      BY DEF Pending, ToSet
    <2>4. ASSUME NEW j \in DOMAIN pending_buffers', NEW k \in 1..(j - 1)
          PROVE  buf'[pending_buffers'[k]].transfer_offset
                   + buf'[pending_buffers'[k]].buffer_used
                   <= buf'[pending_buffers'[j]].transfer_offset
      <3>1. end(pending_buffers'[k]) <= to(pending_buffers'[j])
        BY <2>1 DEF DataInv, Sorted
      <3>2. pending_buffers'[j] \in Pending' /\ pending_buffers'[k] \in Pending'
        BY <2>1, <2>3
      <3> HIDE DEF to, end
      <3> QED
        BY <2>2, <3>1, <3>2
    <2> QED
      BY <2>2, <2>3, <2>4 DEF Sorted
  <1>16. BodyIsPrefix'
    <2>1. body = [k \in 1..offset |-> k - 1]
      BY DEF DataInv, BodyIsPrefix
    <2>2. body' = [k \in 1..(offset + n) |-> k - 1]
      BY <1>1, <1>2, <1>4, <2>1, PrefixExtended
    <2>3. [k \in 1..(offset + n) |-> k - 1] \in Seq(Nat)
      BY <1>1, <1>4
    <2> QED
      BY <1>2, <2>2, <2>3 DEF BodyIsPrefix
  <1> QED
    BY <1>6, <1>8, <1>9, <1>13, <1>14, <1>15, <1>16 DEF DataInv
----------------------------------------------------------------------------
\* The buffer of a read that is outstanding.
LEMMA PostedBuffer ==
  ASSUME DataInv, NEW k \in Reads
  PROVE  /\ posted[k] \in Buffer
         /\ posted[k] \in registered_buffers
         /\ posted[k] \notin Pending
         /\ posted[k] \notin free_buffers
         /\ k \in DOMAIN posted
  <1>1. posted \in Seq(Buffer) /\ DOMAIN posted = 1..Len(posted) /\ posted[k] \in Buffer
    BY LenProperties, ElementOfSeq DEF DataInv, TypeData, Reads
  <1>2. posted[k] \in ToSet(posted)
    BY <1>1 DEF ToSet, Reads
  <1> QED
    BY <1>1, <1>2 DEF DataInv, Owners, Reads

\* An answer moves bytes from the unsent ones to one read.
LEMMA AnswerData ==
  ASSUME DataInv, faults \in Nat, faults' \in Nat, faults' >= faults,
         NEW k \in Reads, NEW a \in AnswerRecord,
         ~answer[posted[k]].filled,
         answer' = [answer EXCEPT ![posted[k]] = a],
         a.filled,
         a.offset .. (a.offset + a.nbytes - 1) \subseteq unsent,
         unsent' = unsent \ (a.offset .. (a.offset + a.nbytes - 1)),
         a.result # OK => a.nbytes = 0 /\ ~a.eof /\ faults' > 0,
         a.eof => unsent' = {},
         a.result = OK /\ a.nbytes = 0 => EmptyReads \/ a.eof,
         UNCHANGED <<offset, end_offset, lists, posted, body, result>>
  PROVE  DataInv'
  <1> USE DEF lists
  <1>0. PICK b \in registered_buffers : b = posted[k]
    BY PostedBuffer
  <1>1. b \in Buffer /\ b \notin Pending
    BY <1>0, PostedBuffer
  <1>2. /\ answer'[b] = a
        /\ \A c \in Buffer \ {b} : answer'[c] = answer[c]
        /\ answer' \in [Buffer -> AnswerRecord]
    BY <1>0, <1>1 DEF DataInv, TypeData
  <1>3. answer[b] = NoAnswer
    BY <1>0, <1>1 DEF DataInv, Answers
  <1> DEFINE new == a.offset .. (a.offset + a.nbytes - 1)
  <1>4. /\ Answered(b) = {}
        /\ Answered(b)' = new
        /\ \A c \in Buffer \ {b} : Answered(c)' = Answered(c)
    BY <1>2, <1>3 DEF Answered, NoAnswer
  <1>5. new \subseteq unsent /\ unsent' = unsent \ new
    OBVIOUS
  <1>6. unsent \subseteq 0..(FileLen - 1)
    BY DEF DataInv, TypeData
  <1> HIDE DEF new
  <1>7. Pending' = Pending /\ \A c \in Pending : Block(c)' = Block(c)
    BY DEF Pending, Block
  <1>8. TypeData' /\ Owners' /\ BodyIsPrefix' /\ Sorted'
    BY <1>2, <1>5 DEF DataInv, TypeData, Owners, Pending, BodyIsPrefix, Sorted
  <1>9. Answers'
    <2> SUFFICES ASSUME NEW c \in Buffer
                 PROVE  /\ c \notin registered_buffers \/ ~answer'[c].filled => answer'[c] = NoAnswer
                        /\ answer'[c].result # OK =>
                             answer'[c].nbytes = 0 /\ ~answer'[c].eof /\ faults' > 0
                        /\ answer'[c].eof => unsent' = {}
                        /\ answer'[c].filled /\ answer'[c].result = OK /\ answer'[c].nbytes = 0 =>
                             EmptyReads \/ answer'[c].eof
      BY DEF Answers
    <2>1. CASE c = b
      BY <1>0, <1>2, <2>1
    <2>2. CASE c # b
      <3>1. answer'[c] = answer[c]
        BY <1>2, <2>2
      <3>2. unsent = {} => unsent' = {}
        BY <1>5
      <3> QED
        BY <3>1, <3>2 DEF DataInv, Answers
    <2> QED
      BY <2>1, <2>2
  <1>10. Apart'
    <2>1. offset <= FileLen /\ \A o \in unsent' : offset <= o
      BY <1>5 DEF DataInv, Apart
    <2>2. ASSUME NEW c \in Buffer, NEW o \in Answered(c)'
          PROVE  /\ offset <= o
                 /\ o < FileLen
                 /\ o \notin unsent'
                 /\ \A d \in Buffer \ {c} : o \notin Answered(d)'
                 /\ \A d \in Pending : o \notin Block(d)
      <3>1. CASE c = b
        <4>1. o \in unsent /\ o \in 0..(FileLen - 1) /\ o \notin unsent'
          BY <1>4, <1>5, <1>6, <3>1
        <4> QED
          BY <1>4, <3>1, <4>1, Bounds DEF DataInv, Apart
      <3>2. CASE c # b
        <4>1. o \in Answered(c)
          BY <1>4, <3>2
        <4>2. /\ offset <= o
              /\ o < FileLen
              /\ o \notin unsent
              /\ \A d \in Buffer \ {c} : o \notin Answered(d)
              /\ \A d \in Pending : o \notin Block(d)
          BY <4>1 DEF DataInv, Apart
        <4> QED
          BY <1>4, <1>5, <4>2
      <3> QED
        BY <3>1, <3>2
    <2>3. \A c \in Pending : \A o \in Block(c) : o < FileLen /\ o \notin unsent'
      BY <1>5 DEF DataInv, Apart
    <2> QED
      BY <1>7, <2>1, <2>2, <2>3 DEF Apart
  <1>11. Covered'
    <2> SUFFICES ASSUME result = OK, NEW o \in 0..(FileLen - 1)
                 PROVE  \/ o < offset
                        \/ o \in unsent'
                        \/ \E c \in Pending : o \in Block(c)
                        \/ \E c \in Buffer : o \in Answered(c)'
      BY <1>7 DEF Covered
    <2>1. \/ o < offset
          \/ o \in unsent
          \/ \E c \in Pending : o \in Block(c)
          \/ \E c \in Buffer : o \in Answered(c)
      BY DEF DataInv, Covered
    <2>2. CASE o \in unsent
      BY <1>1, <1>4, <1>5, <2>2
    <2>3. CASE \E c \in Buffer : o \in Answered(c)
      BY <1>4, <2>3
    <2> QED
      BY <2>1, <2>2, <2>3
  <1> QED
    BY <1>8, <1>9, <1>10, <1>11 DEF DataInv

\* What the server may answer, and the bytes it takes for that.
LEMMA AnswerShape ==
  ASSUME DataInv, faults \in Nat, NEW k \in Reads,
         ServerData(k) \/ ServerNothing(k) \/ ServerError(k)
  PROVE  \E a \in AnswerRecord :
           /\ ~answer[posted[k]].filled
           /\ answer' = [answer EXCEPT ![posted[k]] = a]
           /\ a.filled
           /\ a.offset .. (a.offset + a.nbytes - 1) \subseteq unsent
           /\ unsent' = unsent \ (a.offset .. (a.offset + a.nbytes - 1))
           /\ a.result # OK => a.nbytes = 0 /\ ~a.eof /\ faults' > 0
           /\ a.eof => unsent' = {}
           /\ a.result = OK /\ a.nbytes = 0 => EmptyReads \/ a.eof
           /\ a.nbytes > 0 => /\ unsent # {}
                              /\ a.nbytes <= asked[posted[k]]
                              /\ Ordered => /\ \A u \in unsent : a.offset <= u
                                            /\ a.nbytes < asked[posted[k]] =>
                                                 a.offset + a.nbytes = FileLen
           /\ a.result = OK /\ a.nbytes = 0 => EmptyReads \/ unsent = {}
           /\ Ordered => \A j \in 1..(k - 1) : answer[posted[j]].filled
           /\ faults' \in Nat /\ faults' >= faults
           /\ UNCHANGED <<offset, end_offset, lists, posted, asked, body, result, pc, eof,
                          eofp, outcome, buffer_filled, signalled, bytes_registered>>
  <1> DEFINE new(o, n, e, r) ==
               [filled |-> TRUE, offset |-> o, nbytes |-> n, eof |-> e, result |-> r]
  <1>0. faults' \in Nat /\ faults' >= faults
    <2>1. faults' = faults \/ faults' = faults + 1
      BY DEF ServerData, ServerNothing, ServerError, Fault
    <2> QED
      BY <2>1
  <1>1. CASE ServerData(k)
    <2>1. PICK o \in unsent, n \in 1..asked[posted[k]] :
            /\ o..(o + n - 1) \subseteq unsent
            /\ Ordered => /\ \A u \in unsent : o <= u
                          /\ n < asked[posted[k]] => o + n = FileLen
            /\ unsent' = unsent \ (o..(o + n - 1))
            /\ \E e \in BOOLEAN : (e => unsent' = {}) /\ Answer(posted[k], o, n, e, OK)
      BY <1>1 DEF ServerData
    <2>2. PICK e \in BOOLEAN : (e => unsent' = {}) /\ Answer(posted[k], o, n, e, OK)
      BY <2>1
    <2>3. o \in Nat /\ n \in Nat \ {0} /\ n <= asked[posted[k]]
      BY DEF DataInv, TypeData
    <2>4. new(o, n, e, OK) \in AnswerRecord
      BY <2>3 DEF AnswerRecord
    <2>5. answer' = [answer EXCEPT ![posted[k]] = new(o, n, e, OK)]
      BY <2>2 DEF Answer
    <2>6. /\ ~answer[posted[k]].filled
          /\ Ordered => \A j \in 1..(k - 1) : answer[posted[j]].filled
          /\ UNCHANGED <<offset, end_offset, lists, posted, asked, body, result, pc, eof,
                         eofp, outcome, buffer_filled, signalled, bytes_registered>>
      BY <1>1 DEF ServerData, Answerable, progvars, flags, locals, curlvars
    <2>7. /\ new(o, n, e, OK).filled
          /\ new(o, n, e, OK).offset = o
          /\ new(o, n, e, OK).nbytes = n
          /\ new(o, n, e, OK).eof = e
          /\ new(o, n, e, OK).result = OK
      OBVIOUS
    <2> HIDE DEF new
    <2> WITNESS new(o, n, e, OK) \in AnswerRecord
    <2> QED
      BY <1>0, <2>1, <2>2, <2>3, <2>4, <2>5, <2>6, <2>7
  <1>2. CASE ServerNothing(k)
    <2>0. PICK e \in BOOLEAN : e = (unsent = {})
      OBVIOUS
    <2>1. PICK o \in {0, FileLen} : Answer(posted[k], o, 0, e, OK)
      BY <1>2, <2>0 DEF ServerNothing
    <2>2. o \in Nat
      BY Bounds
    <2>7. new(o, 0, e, OK) \in AnswerRecord
      BY <2>2 DEF AnswerRecord
    <2>3. answer' = [answer EXCEPT ![posted[k]] = new(o, 0, e, OK)]
      BY <2>1 DEF Answer
    <2>4. /\ ~answer[posted[k]].filled
          /\ Ordered => \A j \in 1..(k - 1) : answer[posted[j]].filled
          /\ unsent' = unsent
          /\ EmptyReads \/ unsent = {}
          /\ UNCHANGED <<offset, end_offset, lists, posted, asked, body, result, pc, eof,
                         eofp, outcome, buffer_filled, signalled, bytes_registered>>
      BY <1>2 DEF ServerNothing, Answerable, progvars, flags, locals, curlvars
    <2>5. o .. (o + 0 - 1) = {}
      BY <2>2
    <2>6. /\ new(o, 0, e, OK).filled
          /\ new(o, 0, e, OK).offset = o
          /\ new(o, 0, e, OK).nbytes = 0
          /\ new(o, 0, e, OK).result = OK
      OBVIOUS
    <2>8. new(o, 0, e, OK).eof <=> unsent = {}
      BY <2>0
    <2>9. ~(0 > 0)
      OBVIOUS
    <2> HIDE DEF new
    <2> WITNESS new(o, 0, e, OK) \in AnswerRecord
    <2> QED
      BY <1>0, <2>3, <2>4, <2>5, <2>6, <2>8, <2>9 DEF OK
  <1>3. CASE ServerError(k)
    <2>1. new(0, 0, FALSE, "read_failed") \in AnswerRecord
      BY DEF AnswerRecord, Errors
    <2>2. answer' = [answer EXCEPT ![posted[k]] = new(0, 0, FALSE, "read_failed")]
      BY <1>3 DEF ServerError, Answer
    <2>3. /\ ~answer[posted[k]].filled
          /\ Ordered => \A j \in 1..(k - 1) : answer[posted[j]].filled
          /\ unsent' = unsent
          /\ faults' > 0
          /\ UNCHANGED <<offset, end_offset, lists, posted, asked, body, result, pc, eof,
                         eofp, outcome, buffer_filled, signalled, bytes_registered>>
      BY <1>3 DEF ServerError, Answerable, progvars, flags, locals, curlvars, Fault
    <2>4. 0 .. (0 + 0 - 1) = {}
      OBVIOUS
    <2>5. /\ new(0, 0, FALSE, "read_failed").filled
          /\ new(0, 0, FALSE, "read_failed").offset = 0
          /\ new(0, 0, FALSE, "read_failed").nbytes = 0
          /\ ~new(0, 0, FALSE, "read_failed").eof
          /\ new(0, 0, FALSE, "read_failed").result # OK
      BY DEF OK
    <2> HIDE DEF new
    <2> WITNESS new(0, 0, FALSE, "read_failed") \in AnswerRecord
    <2>6. ~(0 > 0)
      OBVIOUS
    <2> QED
      BY <1>0, <2>1, <2>2, <2>3, <2>4, <2>5, <2>6
  <1> QED
    BY <1>1, <1>2, <1>3

LEMMA ServerDataStep ==
  ASSUME DataInv, faults \in Nat, NEW k \in Reads,
         ServerData(k) \/ ServerNothing(k) \/ ServerError(k)
  PROVE  DataInv'
  <1>1. PICK a \in AnswerRecord :
          /\ ~answer[posted[k]].filled
          /\ answer' = [answer EXCEPT ![posted[k]] = a]
          /\ a.filled
          /\ a.offset .. (a.offset + a.nbytes - 1) \subseteq unsent
          /\ unsent' = unsent \ (a.offset .. (a.offset + a.nbytes - 1))
          /\ a.result # OK => a.nbytes = 0 /\ ~a.eof /\ faults' > 0
          /\ a.eof => unsent' = {}
          /\ a.result = OK /\ a.nbytes = 0 => EmptyReads \/ a.eof
          /\ faults' \in Nat /\ faults' >= faults
          /\ UNCHANGED <<offset, end_offset, lists, posted, body, result>>
    BY AnswerShape
  <1> QED
    BY <1>1, AnswerData

\* What every callback does to the lists and the answers.
LEMMA CallbackLists ==
  ASSUME DataInv, NEW k \in Reads, NEW bad \in BOOLEAN, CallbackStart(k, bad),
         NEW b, b = posted[k]
  PROVE  /\ b \in Buffer /\ b \in registered_buffers
         /\ b \notin Pending /\ b \notin free_buffers
         /\ answer[b].filled
         /\ registered_buffers' = registered_buffers \ {b}
         /\ posted' = RemoveAt(posted, k)
         /\ posted' \in Seq(Buffer)
         /\ ToSet(posted') = registered_buffers'
         /\ \A i, j \in DOMAIN posted' : posted'[i] = posted'[j] => i = j
         /\ IsFiniteSet(registered_buffers')
         /\ answer' \in [Buffer -> AnswerRecord]
         /\ answer'[b] = NoAnswer
         /\ \A c \in Buffer \ {b} : answer'[c] = answer[c]
         /\ Answered(b)' = {}
         /\ \A c \in Buffer \ {b} : Answered(c)' = Answered(c)
         /\ Answers'
         /\ result' = OK => result = OK /\ answer[b].result = OK
         /\ ~bad => result' = OK
         /\ bad => result' # OK
         /\ UNCHANGED <<offset, end_offset, pc, locals, curlvars, asked, unsent, faults>>
  <1>1. /\ b \in Buffer /\ b \in registered_buffers
        /\ b \notin Pending /\ b \notin free_buffers
    BY PostedBuffer
  <1>2. /\ answer[b].filled
        /\ registered_buffers' = registered_buffers \ {b}
        /\ posted' = RemoveAt(posted, k)
        /\ answer' = [answer EXCEPT ![b] = NoAnswer]
        /\ result' = FirstError(result, answer[b].result)
        /\ bad <=> (result' # OK)
        /\ UNCHANGED <<offset, end_offset, pc, locals, curlvars, asked, unsent, faults>>
    BY DEF CallbackStart, Unregister
  <1>3. /\ posted' \in Seq(Buffer)
        /\ ToSet(posted') = registered_buffers'
        /\ \A i, j \in DOMAIN posted' : posted'[i] = posted'[j] => i = j
    <2>1. /\ posted \in Seq(Buffer)
          /\ k \in 1..Len(posted)
          /\ \A i, j \in DOMAIN posted : posted[i] = posted[j] => i = j
          /\ ToSet(posted) = registered_buffers
      BY DEF DataInv, TypeData, Owners, Reads
    <2>2. /\ RemoveAt(posted, k) \in Seq(Buffer)
          /\ ToSet(RemoveAt(posted, k)) = ToSet(posted) \ {posted[k]}
          /\ \A i, j \in DOMAIN RemoveAt(posted, k) :
               RemoveAt(posted, k)[i] = RemoveAt(posted, k)[j] => i = j
      BY <2>1, Removed
    <2> QED
      BY <1>2, <2>1, <2>2
  <1>4. IsFiniteSet(registered_buffers')
    BY <1>2, FS_RemoveElement DEF DataInv, Owners
  <1>5. NoAnswer \in AnswerRecord
    BY DEF NoAnswer, AnswerRecord, OK, Errors
  <1>6. /\ answer' \in [Buffer -> AnswerRecord]
        /\ answer'[b] = NoAnswer
        /\ \A c \in Buffer \ {b} : answer'[c] = answer[c]
    BY <1>1, <1>2, <1>5 DEF DataInv, TypeData
  <1>7. Answered(b)' = {} /\ \A c \in Buffer \ {b} : Answered(c)' = Answered(c)
    BY <1>6 DEF Answered, NoAnswer
  <1>8. Answers'
    <2> SUFFICES ASSUME NEW c \in Buffer
                 PROVE  /\ c \notin registered_buffers' \/ ~answer'[c].filled =>
                             answer'[c] = NoAnswer
                        /\ answer'[c].result # OK =>
                             answer'[c].nbytes = 0 /\ ~answer'[c].eof /\ faults > 0
                        /\ answer'[c].eof => unsent = {}
                        /\ answer'[c].filled /\ answer'[c].result = OK /\ answer'[c].nbytes = 0 =>
                             EmptyReads \/ answer'[c].eof
      BY <1>2 DEF Answers
    <2>1. CASE c = b
      BY <1>6, <2>1 DEF NoAnswer
    <2>2. CASE c # b
      BY <1>2, <1>6, <2>2 DEF DataInv, Answers
    <2> QED
      BY <2>1, <2>2
  <1>9. result' = OK => result = OK /\ answer[b].result = OK
    BY <1>2 DEF FirstError
  <1> QED
    BY <1>1, <1>2, <1>3, <1>4, <1>6, <1>7, <1>8, <1>9

\* A callback that frees its buffer: no data, or data that a failure drops.
LEMMA CallbackFreeData ==
  ASSUME DataInv, NEW k \in Reads, NEW bad \in BOOLEAN, CallbackStart(k, bad),
         NEW r \in BufferRecord,
         buf' = [buf EXCEPT ![posted[k]] = r],
         free_buffers' = free_buffers \cup {posted[k]},
         UNCHANGED pending_buffers,
         bad \/ answer[posted[k]].nbytes = 0
  PROVE  DataInv'
  <1>0. PICK b : b = posted[k]
    OBVIOUS
  <1>1. /\ b \in Buffer /\ b \in registered_buffers
        /\ b \notin Pending
        /\ registered_buffers' = registered_buffers \ {b}
        /\ posted' \in Seq(Buffer)
        /\ ToSet(posted') = registered_buffers'
        /\ \A i, j \in DOMAIN posted' : posted'[i] = posted'[j] => i = j
        /\ IsFiniteSet(registered_buffers')
        /\ answer' \in [Buffer -> AnswerRecord]
        /\ Answered(b)' = {}
        /\ \A c \in Buffer \ {b} : Answered(c)' = Answered(c)
        /\ Answers'
        /\ result' = OK => result = OK
        /\ bad => result' # OK
        /\ UNCHANGED <<offset, end_offset, curlvars, unsent, faults>>
    <2>1. CASE bad = TRUE
      BY <1>0, <2>1, CallbackLists
    <2>2. CASE bad = FALSE
      BY <1>0, <2>2, CallbackLists
    <2> QED
      BY <2>1, <2>2
  <1>2. /\ buf' \in [Buffer -> BufferRecord]
        /\ \A c \in Buffer \ {b} : buf'[c] = buf[c]
    BY <1>0, <1>1 DEF DataInv, TypeData
  <1>3. /\ Pending' = Pending
        /\ \A c \in Pending : c \in Buffer \ {b}
        /\ \A j \in DOMAIN pending_buffers : pending_buffers[j] \in Pending
    BY <1>1, PendingBlocks DEF Pending, ToSet
  <1>4. \A c \in Pending : Block(c)' = Block(c)
    BY <1>2, <1>3 DEF Block
  <1>5. TypeData'
    BY <1>0, <1>1, <1>2 DEF DataInv, TypeData
  <1>6. Owners'
    BY <1>0, <1>1, <1>3 DEF DataInv, Owners
  <1>7. Apart'
    <2>1. \A c \in Buffer : Answered(c)' \subseteq Answered(c)
      BY <1>1
    <2> QED
      BY <1>1, <1>3, <1>4, <2>1 DEF DataInv, Apart
  <1>8. Covered'
    <2>1. ~bad => Answered(b) = {}
      <3>1. answer[b].offset \in Int
        BY <1>1 DEF DataInv, TypeData, AnswerRecord
      <3>2. \A o \in Int : o .. (o + 0 - 1) = {}
        OBVIOUS
      <3> QED
        BY <1>0, <3>1, <3>2 DEF Answered
    <2>2. result' = OK => \A c \in Buffer : Answered(c)' = Answered(c)
      BY <1>1, <2>1
    <2> QED
      BY <1>1, <1>3, <1>4, <2>2 DEF DataInv, Covered
  <1>9. Sorted'
    <2>1. \A j \in DOMAIN pending_buffers : \A i \in 1..(j - 1) : i \in DOMAIN pending_buffers
      BY LenProperties DEF DataInv, TypeData
    <2>2. \A j \in DOMAIN pending_buffers : buf'[pending_buffers[j]] = buf[pending_buffers[j]]
      BY <1>2, <1>3
    <2> QED
      BY <1>1, <2>1, <2>2 DEF DataInv, Sorted
  <1>10. BodyIsPrefix'
    BY <1>1 DEF DataInv, BodyIsPrefix, curlvars
  <1> QED
    BY <1>1, <1>5, <1>6, <1>7, <1>8, <1>9, <1>10 DEF DataInv

LEMMA CallbackBadData == ASSUME DataInv, NEW k \in Reads, CallbackBad(k) PROVE DataInv'
  <1>1. posted[k] \in Buffer /\ buf[posted[k]] \in BufferRecord
    BY PostedBuffer DEF DataInv, TypeData
  <1>2. PICK r \in BufferRecord : r = Reset(buf[posted[k]], 0, 0)
    BY <1>1, ResetBlock
  <1>3. /\ CallbackStart(k, TRUE)
        /\ buf' = [buf EXCEPT ![posted[k]] = r]
        /\ free_buffers' = free_buffers \cup {posted[k]}
        /\ UNCHANGED pending_buffers
    BY <1>2 DEF CallbackBad
  <1> QED
    BY <1>3, CallbackFreeData

LEMMA CallbackEmptyData == ASSUME DataInv, NEW k \in Reads, CallbackEmpty(k) PROVE DataInv'
  <1>1. posted[k] \in Buffer /\ buf[posted[k]] \in BufferRecord
    BY PostedBuffer DEF DataInv, TypeData
  <1>2. PICK r \in BufferRecord : r = Reset(buf[posted[k]], -1, UsedUp)
    BY <1>1, ResetBlock DEF UsedUp
  <1>3. /\ CallbackStart(k, FALSE)
        /\ ~has_data(answer[posted[k]])
        /\ buf' = [buf EXCEPT ![posted[k]] = r]
        /\ free_buffers' = free_buffers \cup {posted[k]}
        /\ UNCHANGED pending_buffers
    BY <1>2 DEF CallbackEmpty
  <1>4. answer[posted[k]].nbytes = 0
    <2>1. answer[posted[k]].nbytes \in Nat
      BY <1>1 DEF DataInv, TypeData, AnswerRecord
    <2> QED
      BY <1>3, <2>1 DEF has_data
  <1> QED
    BY <1>3, <1>4, CallbackFreeData

\* A callback that brings data puts its block where the pending ones stay sorted:
\* those before it end at its start or earlier, those after it start at its end or
\* later, because no byte is in two places.
LEMMA InsertionPoint ==
  ASSUME DataInv, NEW b \in Buffer, b \notin Pending,
         NEW o \in Nat, NEW n \in Nat \ {0},
         o = answer[b].offset, n = answer[b].nbytes,
         NEW p \in 0..Len(pending_buffers),
         EndBefore(p, o),
         p < Len(pending_buffers) => ~EndBefore(p + 1, o)
  PROVE  /\ \A i \in 1..p :
              buf[pending_buffers[i]].transfer_offset + buf[pending_buffers[i]].buffer_used <= o
         /\ \A i \in (p + 1)..Len(pending_buffers) :
              o + n <= buf[pending_buffers[i]].transfer_offset
  <1> DEFINE c(i) == pending_buffers[i]
             to(i) == buf[c(i)].transfer_offset
             used(i) == buf[c(i)].buffer_used
             L == Len(pending_buffers)
  <1>1. /\ L \in Nat
        /\ DOMAIN pending_buffers = 1..L
        /\ \A i \in 1..L : c(i) \in Pending
    BY LenProperties DEF DataInv, TypeData, Pending, ToSet
  <1>2. \A i \in 1..L : /\ to(i) \in Int
                        /\ used(i) \in Int
                        /\ used(i) > 0
                        /\ buf[c(i)].data = to(i)
    BY <1>1, PendingBlocks DEF BufferRecord
  <1>3. \A i \in 1..p : to(i) + used(i) <= o
    BY DEF EndBefore
  <1>4. \A i \in 1..L : \A j \in 1..(i - 1) : to(j) + used(j) <= to(i)
    BY <1>1 DEF DataInv, Sorted
  <1>5. ASSUME p < L PROVE o + n <= to(p + 1)
    <2>1. p + 1 \in 1..L /\ \A j \in 1..(p + 1) : j \in 1..p \/ j = p + 1
      BY <1>1, <1>5
    <2>2. ~(to(p + 1) + used(p + 1) <= o)
      BY <1>3, <1>5, <2>1 DEF EndBefore
    <2>3. \A q \in Block(c(p + 1)) : q \notin Answered(b)
      BY <1>1, <2>1 DEF DataInv, Apart
    <2>4. Block(c(p + 1)) = to(p + 1) .. (to(p + 1) + used(p + 1) - 1)
      BY <1>2, <2>1 DEF Block
    <2>5. Answered(b) = o .. (o + n - 1)
      BY DEF Answered
    <2> HIDE DEF to, used, c
    <2>6. to(p + 1) \in Int /\ used(p + 1) \in Int /\ used(p + 1) > 0
      BY <1>2, <2>1
    <2> DEFINE x == to(p + 1)
               m == used(p + 1)
    <2>7. \A q \in x .. (x + m - 1) : q \notin o .. (o + n - 1)
      BY <2>3, <2>4, <2>5
    <2>8. x \in Int /\ m \in Int /\ m > 0 /\ ~(x + m <= o) /\ o \in Int /\ n \in Int /\ n > 0
      BY <2>2, <2>6
    <2> HIDE DEF x, m
    <2>9. o + n <= x
      BY <2>7, <2>8, IntervalsApart
    <2> QED
      BY <2>9 DEF x
  <1>6. ASSUME NEW i \in (p + 1)..L PROVE o + n <= to(i)
    <2>1. p < L /\ p + 1 \in 1..L /\ i \in 1..L /\ (i = p + 1 \/ p + 1 \in 1..(i - 1))
      BY <1>1
    <2>2. i = p + 1 \/ to(p + 1) + used(p + 1) <= to(i)
      BY <1>4, <2>1
    <2>3. to(p + 1) \in Int /\ used(p + 1) \in Int /\ used(p + 1) > 0 /\ to(i) \in Int
      BY <1>2, <2>1
    <2> HIDE DEF to, used, L
    <2> QED
      BY <1>5, <2>1, <2>2, <2>3, SMTT(30)
  <1> QED
    BY <1>3, <1>6

LEMMA CallbackDataData == ASSUME DataInv, NEW k \in Reads, CallbackData(k) PROVE DataInv'
  <1>0. PICK b, o, n : /\ b = posted[k]
                       /\ o = answer[b].offset
                       /\ n = answer[b].nbytes
    OBVIOUS
  <1>1. CallbackStart(k, FALSE)
    BY DEF CallbackData
  <1>2. /\ b \in Buffer /\ b \in registered_buffers
        /\ b \notin Pending /\ b \notin free_buffers
        /\ registered_buffers' = registered_buffers \ {b}
        /\ posted' \in Seq(Buffer)
        /\ ToSet(posted') = registered_buffers'
        /\ \A i, j \in DOMAIN posted' : posted'[i] = posted'[j] => i = j
        /\ IsFiniteSet(registered_buffers')
        /\ answer' \in [Buffer -> AnswerRecord]
        /\ Answered(b)' = {}
        /\ \A c \in Buffer \ {b} : Answered(c)' = Answered(c)
        /\ Answers'
        /\ result' = OK => result = OK
        /\ UNCHANGED <<offset, end_offset, curlvars, unsent, faults>>
    BY <1>0, <1>1, CallbackLists
  <1>3. o \in Nat /\ n \in Nat \ {0}
    <2>1. o \in Nat /\ n \in Nat
      BY <1>0, <1>2 DEF DataInv, TypeData, AnswerRecord
    <2>2. n > 0
      BY <1>0 DEF CallbackData, has_data
    <2> QED
      BY <2>1, <2>2
  <1>4. PICK p \in 0..Len(pending_buffers) :
          /\ EndBefore(p, o)
          /\ p < Len(pending_buffers) => ~EndBefore(p + 1, o)
          /\ pending_buffers' = InsertAt(pending_buffers, p + 1, b)
    BY <1>0 DEF CallbackData
  <1> DEFINE L == Len(pending_buffers)
             blk == [transfer_offset |-> o, buffer_used |-> n, data |-> o]
  <1>5. /\ buf' = [buf EXCEPT ![b] = blk]
        /\ free_buffers' = free_buffers
    BY <1>0 DEF CallbackData
  <1>6. /\ blk \in BufferRecord
        /\ blk.transfer_offset = o
        /\ blk.buffer_used = n
        /\ blk.data = o
    BY <1>3 DEF BufferRecord
  <1> HIDE DEF blk
  <1>7. /\ buf' \in [Buffer -> BufferRecord]
        /\ buf'[b].transfer_offset = o
        /\ buf'[b].buffer_used = n
        /\ buf'[b].data = o
        /\ \A c \in Buffer \ {b} : buf'[c] = buf[c]
    BY <1>2, <1>5, <1>6 DEF DataInv, TypeData
  <1>8. /\ pending_buffers \in Seq(Buffer)
        /\ L \in Nat
        /\ DOMAIN pending_buffers = 1..L
        /\ \A i \in 1..L : pending_buffers[i] \in Pending
        /\ \A i, j \in 1..L : pending_buffers[i] = pending_buffers[j] => i = j
    BY LenProperties DEF DataInv, TypeData, Owners, Pending, ToSet
  <1>9. /\ pending_buffers' \in Seq(Buffer)
        /\ DOMAIN pending_buffers' = 1..(L + 1)
        /\ \A i \in 1..p : pending_buffers'[i] = pending_buffers[i]
        /\ pending_buffers'[p + 1] = b
        /\ \A i \in (p + 2)..(L + 1) : pending_buffers'[i] = pending_buffers[i - 1]
        /\ ToSet(pending_buffers') = ToSet(pending_buffers) \cup {b}
    <2> HIDE DEF L
    <2>0. PICK s \in Seq(Buffer) : s = pending_buffers /\ L = Len(s)
      BY <1>8 DEF L
    <2>1. p \in 0..Len(s) /\ b \in Buffer
      BY <1>2, <2>0
    <2> DEFINE t == InsertAt(s, p + 1, b)
    <2>2. /\ t \in Seq(Buffer)
          /\ DOMAIN t = 1..(Len(s) + 1)
          /\ \A i \in 1..p : t[i] = s[i]
          /\ t[p + 1] = b
          /\ \A i \in (p + 2)..(Len(s) + 1) : t[i] = s[i - 1]
          /\ ToSet(t) = ToSet(s) \cup {b}
      <3>1. t \in Seq(Buffer)
        BY <2>1, Inserted
      <3>2. DOMAIN t = 1..(Len(s) + 1)
        BY <2>1, Inserted
      <3>3. ASSUME NEW i \in 1..p PROVE t[i] = s[i]
        BY <2>1, Inserted
      <3>4. t[p + 1] = b
        BY <2>1, Inserted
      <3>5. ASSUME NEW i \in (p + 2)..(Len(s) + 1) PROVE t[i] = s[i - 1]
        BY <2>1, Inserted
      <3>6. ToSet(t) = ToSet(s) \cup {b}
        BY <2>1, Inserted
      <3> HIDE DEF t
      <3> QED
        BY <3>1, <3>2, <3>3, <3>4, <3>5, <3>6
    <2>3. pending_buffers' = t
      BY <1>4, <2>0
    <2> HIDE DEF t
    <2> QED
      BY <2>0, <2>2, <2>3
  <1>10. /\ Pending' = Pending \cup {b}
         /\ \A c \in Pending : c \in Buffer \ {b}
    BY <1>2, <1>9, PendingBlocks DEF Pending
  <1>11. /\ \A c \in Pending : Block(c)' = Block(c)
         /\ Block(b)' = o .. (o + n - 1)
         /\ Answered(b) = o .. (o + n - 1)
    BY <1>0, <1>7, <1>10 DEF Block, Answered
  \* where each place of the new list was in the old one
  <1> DEFINE was(i) == IF i <= p THEN i ELSE i - 1
  <1>12. ASSUME NEW i \in 1..(L + 1)
         PROVE  \/ i = p + 1 /\ pending_buffers'[i] = b
                \/ /\ i # p + 1
                   /\ was(i) \in 1..L
                   /\ pending_buffers'[i] = pending_buffers[was(i)]
                   /\ pending_buffers'[i] \in Pending
    <2>1. CASE i <= p
      <3>1. i \in 1..p /\ i \in 1..L
        BY <1>8, <2>1
      <3> QED
        BY <1>8, <1>9, <2>1, <3>1
    <2>2. CASE i = p + 1
      BY <1>9, <2>2
    <2>3. CASE i > p + 1
      <3>1. i \in (p + 2)..(L + 1) /\ i - 1 \in 1..L /\ ~(i <= p)
        BY <1>8, <2>3
      <3> QED
        BY <1>8, <1>9, <2>3, <3>1
    <2> QED
      BY <1>8, <2>1, <2>2, <2>3
  <1>13. \A i, j \in 1..(L + 1) : i # p + 1 /\ j # p + 1 =>
           /\ was(i) = was(j) => i = j
           /\ j < i => was(j) \in 1..(was(i) - 1)
    BY <1>8
  <1> HIDE DEF was
  <1>14. TypeData'
    BY <1>2, <1>5, <1>7, <1>9 DEF DataInv, TypeData
  <1>15. Owners'
    <2>1. ASSUME NEW i \in 1..(L + 1), NEW j \in 1..(L + 1),
                 pending_buffers'[i] = pending_buffers'[j]
          PROVE  i = j
      BY <1>2, <1>8, <1>12, <1>13, <2>1
    <2> QED
      BY <1>2, <1>5, <1>9, <1>10, <2>1 DEF DataInv, Owners
  <1>16. Apart'
    <2>1. \A c \in Buffer \ {b} : \A q \in Answered(c) : q \notin Answered(b)
      BY <1>2 DEF DataInv, Apart
    <2>2. \A q \in Answered(b) : q < FileLen /\ q \notin unsent
      BY <1>2 DEF DataInv, Apart
    <2> QED
      BY <1>2, <1>10, <1>11, <2>1, <2>2 DEF DataInv, Apart
  <1>17. Covered'
    BY <1>2, <1>10, <1>11 DEF DataInv, Covered
  <1>18. Sorted'
    <2>1. /\ \A i \in 1..p :
               buf[pending_buffers[i]].transfer_offset + buf[pending_buffers[i]].buffer_used <= o
          /\ \A i \in (p + 1)..L : o + n <= buf[pending_buffers[i]].transfer_offset
      BY <1>0, <1>2, <1>3, <1>4, InsertionPoint
    <2>2. \A i \in 1..L : /\ buf'[pending_buffers[i]] = buf[pending_buffers[i]]
                          /\ buf[pending_buffers[i]].transfer_offset = buf[pending_buffers[i]].data
                          /\ buf[pending_buffers[i]].buffer_used > 0
                          /\ buf[pending_buffers[i]].transfer_offset >= offset
      BY <1>7, <1>8, <1>10, PendingBlocks
    <2>3. offset <= o
      <3>1. o \in Answered(b)
        BY <1>3, <1>11
      <3> QED
        BY <1>2, <3>1 DEF DataInv, Apart
    <2>4. ASSUME NEW i \in 1..(L + 1)
          PROVE  /\ buf'[pending_buffers'[i]].transfer_offset = buf'[pending_buffers'[i]].data
                 /\ buf'[pending_buffers'[i]].buffer_used > 0
                 /\ buf'[pending_buffers'[i]].transfer_offset >= offset
      <3>1. CASE i = p + 1
        <4>1. pending_buffers'[i] = b /\ n > 0 /\ o >= offset
          BY <1>3, <1>9, <2>3, <3>1 DEF DataInv, TypeData
        <4> QED
          BY <1>7, <4>1
      <3>2. CASE i # p + 1
        BY <1>12, <2>2, <3>2
      <3> QED
        BY <3>1, <3>2
    <2>5. ASSUME NEW i \in 1..(L + 1), NEW j \in 1..(i - 1)
          PROVE  buf'[pending_buffers'[j]].transfer_offset + buf'[pending_buffers'[j]].buffer_used
                   <= buf'[pending_buffers'[i]].transfer_offset
      <3>1. j \in 1..(L + 1) /\ j < i
        BY <1>8
      <3>2. CASE i = p + 1
        <4>1. j \in 1..p /\ j \in 1..L
          BY <1>8, <3>2
        <4> QED
          BY <1>7, <1>9, <2>1, <2>2, <3>2, <4>1
      <3>3. CASE j = p + 1
        <4>1. i - 1 \in (p + 1)..L /\ i - 1 \in 1..L /\ i \in (p + 2)..(L + 1)
          BY <1>8, <3>3
        <4>2. /\ pending_buffers'[i] = pending_buffers[i - 1]
              /\ pending_buffers'[j] = b
          BY <1>9, <3>3, <4>1
        <4>3. o + n <= buf'[pending_buffers[i - 1]].transfer_offset
          BY <2>1, <2>2, <4>1
        <4> QED
          BY <1>7, <4>2, <4>3
      <3>4. CASE i # p + 1 /\ j # p + 1
        <4>1. /\ was(i) \in 1..L /\ pending_buffers'[i] = pending_buffers[was(i)]
              /\ was(j) \in 1..L /\ pending_buffers'[j] = pending_buffers[was(j)]
          BY <1>12, <3>1, <3>4
        <4>2. was(j) \in 1..(was(i) - 1)
          BY <1>13, <3>1, <3>4
        <4>3. buf[pending_buffers[was(j)]].transfer_offset
                + buf[pending_buffers[was(j)]].buffer_used
                <= buf[pending_buffers[was(i)]].transfer_offset
          BY <1>8, <4>1, <4>2 DEF DataInv, Sorted
        <4> QED
          BY <2>2, <4>1, <4>3
      <3> QED
        BY <3>2, <3>3, <3>4
    <2> QED
      BY <1>2, <1>9, <2>4, <2>5 DEF Sorted
  <1>19. BodyIsPrefix'
    BY <1>2 DEF DataInv, BodyIsPrefix, curlvars
  <1> QED
    BY <1>2, <1>14, <1>15, <1>16, <1>17, <1>18, <1>19 DEF DataInv

----------------------------------------------------------------------------
\* faults only counts up.
LEMMA FaultsGrow ==
  ASSUME faults \in 0..MaxFaults, [Next]_vars
  PROVE  faults' \in 0..MaxFaults /\ faults' >= faults
  <1>1. faults \in Nat /\ faults <= MaxFaults /\ MaxFaults \in Nat
    BY Bounds
  <1>2. faults' = faults \/ (faults < MaxFaults /\ faults' = faults + 1)
    <2> USE DEF Fault
    <2>1. CASE CurlThread
      BY <2>1 DEF CurlThread, WriteEnter, WriteReady, WriteNotReady, RegisterEnough,
         RegisterRead, Wake, Copy, CopyDone, Cleanup
    <2>2. CASE CurlFaults
      BY <2>2 DEF CurlFaults, RegisterNoMemory, RegisterFail, WakeSpurious, CurlStop
    <2>3. CASE Server \/ ServerFaults
      BY <2>3 DEF Server, ServerFaults, ServerData, ServerNothing, ServerError
    <2>4. CASE Callback
      BY <2>4 DEF Callback, CallbackBad, CallbackEmpty, CallbackData, CallbackStart
    <2>5. CASE Finished \/ UNCHANGED vars
      BY <2>5 DEF Finished, vars
    <2> QED
      BY <2>1, <2>2, <2>3, <2>4, <2>5 DEF Next
  <1> QED
    BY <1>1, <1>2

\* Every step keeps DataInv: an action that moves a byte has a lemma above, the
\* others leave the data alone.
LEMMA DataStep == ASSUME DataInv, TypeControl, [Next]_vars PROVE DataInv'
  <1>1. faults \in Nat /\ faults' \in Nat /\ faults' >= faults
    BY FaultsGrow, Bounds DEF TypeControl
  <1>2. ASSUME DataAlone, result' = OK => result = OK PROVE DataInv'
    BY <1>1, <1>2, DataAloneStep
  <1> USE DEF DataAlone, flags, lists, locals, curlvars, servervars
  <1>3. CASE CurlThread
    <2>1. CASE WriteEnter \/ WriteReady \/ RegisterEnough \/ Wake \/ CopyDone
      <3>1. DataAlone
        BY <2>1 DEF WriteEnter, WriteReady, RegisterEnough, Wake, CopyDone
      <3>2. result' = OK => result = OK
        BY <2>1 DEF WriteEnter, WriteReady, RegisterEnough, RegisterReturn, FirstError, Wake,
           CopyDone
      <3> QED
        BY <1>2, <3>1, <3>2
    <2>2. CASE WriteNotReady
      BY <1>2, <2>2 DEF WriteNotReady, RegisterReturn, FirstError
    <2>3. CASE RegisterRead
      BY <2>3, RegisterReadData
    <2>4. CASE Copy
      BY <2>4, CopyData
    <2>5. CASE Cleanup
      BY <2>5, CleanupData
    <2> QED
      BY <1>3, <2>1, <2>2, <2>3, <2>4, <2>5 DEF CurlThread
  <1>4. CASE CurlFaults
    <2>1. CASE RegisterNoMemory \/ WakeSpurious \/ CurlStop
      <3>1. DataAlone
        BY <2>1 DEF RegisterNoMemory, WakeSpurious, CurlStop
      <3>2. result' = OK => result = OK
        BY <2>1 DEF RegisterNoMemory, RegisterReturn, FirstError, WakeSpurious, CurlStop
      <3> QED
        BY <1>2, <3>1, <3>2
    <2>2. CASE RegisterFail
      BY <1>1, <2>2, RegisterFailData
    <2> QED
      BY <1>4, <2>1, <2>2 DEF CurlFaults
  <1>5. CASE Server \/ ServerFaults
    BY <1>1, <1>5, ServerDataStep DEF Server, ServerFaults
  <1>6. CASE Callback
    BY <1>6, CallbackBadData, CallbackEmptyData, CallbackDataData DEF Callback
  <1>7. CASE Finished \/ UNCHANGED vars
    BY <1>2, <1>7 DEF Finished, vars
  <1> QED
    BY <1>3, <1>4, <1>5, <1>6, <1>7 DEF Next

\* Only the head of the pending blocks decides whether the next bytes are there.
LEMMA ReadyAlone ==
  ASSUME DataInv, NEW b, b \notin Pending, DOMAIN buf' = DOMAIN buf,
         \A c \in Buffer \ {b} : buf'[c] = buf[c],
         UNCHANGED <<offset, pending_buffers>>
  PROVE  is_transfer_offset_ready' = is_transfer_offset_ready
  <1>1. CASE pending_buffers = <<>>
    BY <1>1 DEF is_transfer_offset_ready
  <1>2. CASE pending_buffers # <<>>
    <2>1. Head(pending_buffers) \in Pending /\ Head(pending_buffers) \in Buffer
      BY <1>2, Beheaded DEF DataInv, TypeData, Owners, Pending
    <2>2. buf'[Head(pending_buffers)] = buf[Head(pending_buffers)]
      BY <2>1
    <2> QED
      BY <1>2, <2>2 DEF is_transfer_offset_ready
  <1> QED
    BY <1>1, <1>2

\* Every step keeps what the curl thread knows, and the flags.
Thread == TypeFlags /\ TypeControl /\ Control /\ EofpIsEndOfFile

LEMMA CurlThreadStep == ASSUME DataInv, Thread, CurlThread PROVE Thread'
  <1>0. /\ faults' \in 0..MaxFaults
        /\ faults' = faults
    <2>1. faults' = faults
      BY DEF CurlThread, WriteEnter, WriteReady, WriteNotReady, RegisterEnough,
         RegisterRead, Wake, Copy, CopyDone, Cleanup
    <2> QED
      BY <2>1 DEF Thread, TypeControl
  <1> USE DEF Thread, flags, lists, locals, curlvars, servervars, Locked
  <1>1. CASE WriteEnter
    <2>1. TypeFlags'
      BY <1>1 DEF WriteEnter, TypeFlags
    <2>2. TypeControl'
      BY <1>0, <1>1, Bounds DEF WriteEnter, TypeControl, Return, OK
    <2>3. Control' /\ EofpIsEndOfFile'
      BY <1>0, <1>1 DEF WriteEnter, Control, Return, EofpIsEndOfFile, OK
    <2> QED
      BY <2>1, <2>2, <2>3
  <1>2. CASE WriteReady
    <2>1. TypeFlags' /\ EofpIsEndOfFile'
      BY <1>2 DEF WriteReady, TypeFlags, EofpIsEndOfFile
    <2>2. TypeControl'
      BY <1>0, <1>2 DEF WriteReady, TypeControl, Return, OK
    <2>3. is_transfer_offset_ready' = is_transfer_offset_ready
          /\ is_reading_complete' = is_reading_complete
      BY <1>2 DEF WriteReady, is_transfer_offset_ready, is_reading_complete
    <2>4. Control'
      BY <1>0, <1>2, <2>3 DEF WriteReady, Control, Return, OK
    <2> QED
      BY <2>1, <2>2, <2>4
  <1>3. CASE WriteNotReady
    <2>1. TypeFlags' /\ EofpIsEndOfFile'
      BY <1>3 DEF WriteNotReady, TypeFlags, EofpIsEndOfFile
    <2>2. result' = result
      BY <1>3 DEF WriteNotReady, RegisterReturn, FirstError
    <2>3. TypeControl'
      BY <1>0, <1>3, <2>2 DEF WriteNotReady, TypeControl, RegisterReturn, Return, OK
    <2>4. is_transfer_offset_ready' = is_transfer_offset_ready
      BY <1>3 DEF WriteNotReady, is_transfer_offset_ready
    <2>5. Control'
      BY <1>0, <1>3, <2>2, <2>4 DEF WriteNotReady, Control, RegisterReturn, Return, OK
    <2> QED
      BY <2>1, <2>3, <2>5
  <1>4. CASE RegisterEnough
    <2>1. TypeFlags' /\ EofpIsEndOfFile'
      BY <1>4 DEF RegisterEnough, TypeFlags, EofpIsEndOfFile
    <2>2. result' = result
      BY <1>4 DEF RegisterEnough, RegisterReturn, FirstError
    <2>3. TypeControl'
      BY <1>0, <1>4, <2>2 DEF RegisterEnough, TypeControl, RegisterReturn, Return, OK
    <2>4. Control'
      BY <1>0, <1>4, <2>2 DEF RegisterEnough, Control, RegisterReturn, Return, OK
    <2> QED
      BY <2>1, <2>3, <2>4
  <1>5. CASE RegisterRead
    <2>1. TypeFlags' /\ EofpIsEndOfFile' /\ TypeControl'
      BY <1>0, <1>5 DEF RegisterRead, TypeFlags, EofpIsEndOfFile, TypeControl
    <2>2. PICK b \in obtainable : buf' = [buf EXCEPT ![b].transfer_offset = -1]
      BY <1>5 DEF RegisterRead
    <2>3. is_transfer_offset_ready' = is_transfer_offset_ready
      BY <1>5, <2>2, Obtained, ReadyAlone DEF RegisterRead, DataInv, TypeData
    <2>4. Control'
      BY <1>0, <1>5, <2>3 DEF RegisterRead, Control
    <2> QED
      BY <2>1, <2>4
  <1>6. CASE Wake
    <2>1. TypeFlags' /\ EofpIsEndOfFile' /\ TypeControl'
      BY <1>0, <1>6 DEF Wake, TypeFlags, EofpIsEndOfFile, TypeControl
    <2>2. Control'
      BY <1>0, <1>6 DEF Wake, Control
    <2> QED
      BY <2>1, <2>2
  <1>7. CASE Copy
    <2>1. TypeFlags' /\ EofpIsEndOfFile'
      BY <1>7 DEF Copy, TypeFlags, EofpIsEndOfFile
    <2>2. PICK n \in Nat \ {0} : buffer_filled' = buffer_filled + n
                                 /\ buffer_filled + n <= CurlSize
      BY <1>7, CopyBlock DEF Copy
    <2>3. buffer_filled \in 0..CurlSize
      BY DEF TypeControl
    <2>4. buffer_filled' \in 0..CurlSize /\ buffer_filled' > 0
      BY <2>2, <2>3, Bounds
    <2>5. TypeControl'
      BY <1>0, <1>7, <2>4 DEF Copy, TypeControl
    <2>6. Control'
      BY <1>0, <1>7, <2>4 DEF Copy, Control
    <2> QED
      BY <2>1, <2>5, <2>6
  <1>8. CASE CopyDone
    <2>1. TypeFlags' /\ EofpIsEndOfFile'
      BY <1>8 DEF CopyDone, TypeFlags, EofpIsEndOfFile
    <2>2. TypeControl'
      BY <1>0, <1>8 DEF CopyDone, TypeControl, Return, OK
    <2>3. Control'
      BY <1>0, <1>8 DEF CopyDone, Control, Return, OK
    <2> QED
      BY <2>1, <2>2, <2>3
  <1>9. CASE Cleanup
    <2>1. TypeFlags' /\ EofpIsEndOfFile' /\ TypeControl'
      BY <1>0, <1>9 DEF Cleanup, TypeFlags, EofpIsEndOfFile, TypeControl
    <2>2. Control'
      BY <1>0, <1>9 DEF Cleanup, Control
    <2> QED
      BY <2>1, <2>2
  <1> QED
    BY <1>1, <1>2, <1>3, <1>4, <1>5, <1>6, <1>7, <1>8, <1>9 DEF CurlThread

LEMMA CurlFaultsStep == ASSUME DataInv, Thread, CurlFaults PROVE Thread'
  <1>0. faults' \in 0..MaxFaults /\ faults' > 0
    <2>1. faults < MaxFaults /\ faults' = faults + 1 /\ faults \in Nat
      BY Bounds DEF CurlFaults, RegisterNoMemory, RegisterFail, WakeSpurious, CurlStop, Fault,
         Thread, TypeControl
    <2> QED
      BY <2>1, Bounds
  <1> USE DEF Thread, flags, lists, locals, curlvars, servervars, Locked
  <1>1. CASE RegisterNoMemory
    <2>1. TypeFlags' /\ EofpIsEndOfFile'
      BY <1>1 DEF RegisterNoMemory, TypeFlags, EofpIsEndOfFile
    <2>2. result' \in {OK} \cup Errors /\ result' # OK
      BY <1>1 DEF RegisterNoMemory, RegisterReturn, FirstError, TypeControl, Errors, OK
    <2>3. TypeControl'
      BY <1>0, <1>1, <2>2 DEF RegisterNoMemory, TypeControl, RegisterReturn, Return, OK
    <2>4. Control'
      BY <1>0, <1>1, <2>2 DEF RegisterNoMemory, Control, RegisterReturn, Return, OK
    <2> QED
      BY <2>1, <2>3, <2>4
  <1>2. CASE RegisterFail
    <2>1. TypeFlags' /\ EofpIsEndOfFile'
      BY <1>2 DEF RegisterFail, TypeFlags, EofpIsEndOfFile
    <2>2. result' \in {OK} \cup Errors /\ result' # OK
      BY <1>2 DEF RegisterFail, RegisterReturn, FirstError, TypeControl, Errors, OK
    <2>3. TypeControl'
      BY <1>0, <1>2, <2>2 DEF RegisterFail, TypeControl, RegisterReturn, Return, OK
    <2>4. Control'
      BY <1>0, <1>2, <2>2 DEF RegisterFail, Control, RegisterReturn, Return, OK
    <2> QED
      BY <2>1, <2>3, <2>4
  <1>3. CASE WakeSpurious
    <2>1. TypeFlags' /\ EofpIsEndOfFile' /\ TypeControl'
      BY <1>0, <1>3 DEF WakeSpurious, TypeFlags, EofpIsEndOfFile, TypeControl
    <2>2. Control'
      BY <1>0, <1>3 DEF WakeSpurious, Control
    <2> QED
      BY <2>1, <2>2
  <1>4. CASE CurlStop
    <2>1. TypeFlags' /\ EofpIsEndOfFile' /\ TypeControl'
      BY <1>0, <1>4 DEF CurlStop, TypeFlags, EofpIsEndOfFile, TypeControl
    <2>2. Control'
      BY <1>0, <1>4 DEF CurlStop, Control
    <2> QED
      BY <2>1, <2>2
  <1> QED
    BY <1>1, <1>2, <1>3, <1>4 DEF CurlFaults

LEMMA ServerThreadStep ==
  ASSUME DataInv, Thread, faults' \in 0..MaxFaults, NEW k \in Reads,
         ServerData(k) \/ ServerNothing(k) \/ ServerError(k)
  PROVE  Thread'
  <1>1. /\ unsent = {} => unsent' = {}
        /\ faults' >= faults
        /\ faults' \in Nat
        /\ UNCHANGED <<offset, end_offset, lists, posted, asked, body, result, pc, eof,
                       eofp, outcome, buffer_filled, signalled, bytes_registered>>
    BY AnswerShape, Bounds DEF Thread, TypeControl
  <1>2. is_transfer_offset_ready' = is_transfer_offset_ready
        /\ is_reading_complete' = is_reading_complete
    BY <1>1 DEF is_transfer_offset_ready, is_reading_complete, lists
  <1>3. TypeFlags' /\ TypeControl' /\ EofpIsEndOfFile'
    BY <1>1 DEF Thread, TypeFlags, TypeControl, EofpIsEndOfFile
  <1>4. faults > 0 => faults' > 0
    BY <1>1, Bounds DEF Thread, TypeControl
  <1>5. Control'
    BY <1>1, <1>2, <1>4 DEF Thread, Control
  <1> QED
    BY <1>3, <1>5 DEF Thread

LEMMA CallbackThreadStep ==
  ASSUME DataInv, Thread, NEW k \in Reads,
         CallbackBad(k) \/ CallbackEmpty(k) \/ CallbackData(k)
  PROVE  Thread'
  <1> DEFINE a == answer[posted[k]]
  <1>1. PICK bad \in BOOLEAN : CallbackStart(k, bad)
    BY DEF CallbackBad, CallbackEmpty, CallbackData
  <1>2. /\ pc \notin Locked
        /\ result' = FirstError(result, a.result)
        /\ eofp' = (eofp \/ a.eof)
        /\ eof' = (eof \/ a.eof \/ at_end(a) \/ bad)
        /\ UNCHANGED <<offset, end_offset, pc, buffer_filled, outcome, unsent, faults>>
    BY <1>1 DEF CallbackStart, ReportEof, locals, curlvars
  <1>3. /\ a \in AnswerRecord
        /\ a.result # OK => faults > 0
        /\ a.eof => unsent = {}
    BY PostedBuffer DEF DataInv, TypeData, Answers
  <1>4. signalled' \in BOOLEAN
    BY DEF CallbackBad, CallbackEmpty, CallbackData, Signal, Thread, TypeFlags
  <1>5. TypeFlags'
    BY <1>2, <1>4 DEF Thread, TypeFlags
  <1>6. result' \in {OK} \cup Errors /\ (result' # OK => faults > 0)
    BY <1>2, <1>3 DEF Thread, TypeControl, Control, FirstError, AnswerRecord
  <1>7. TypeControl'
    BY <1>2, <1>6 DEF Thread, TypeControl
  <1>8. Control'
    BY <1>2, <1>6 DEF Thread, Control, Locked
  <1>9. EofpIsEndOfFile'
    BY <1>2, <1>3 DEF Thread, EofpIsEndOfFile
  <1> QED
    BY <1>5, <1>7, <1>8, <1>9 DEF Thread

LEMMA NextIInv == ASSUME IInv, [Next]_vars PROVE IInv'
  <1>1. DataInv /\ Thread
    BY DEF IInv, Thread
  <1>2. DataInv'
    BY <1>1, DataStep DEF Thread
  <1>3. Thread'
    <2>1. CASE CurlThread
      BY <1>1, <2>1, CurlThreadStep
    <2>2. CASE CurlFaults
      BY <1>1, <2>2, CurlFaultsStep
    <2>3. CASE Server \/ ServerFaults
      <3>1. faults' \in 0..MaxFaults
        BY <1>1, FaultsGrow DEF Thread, TypeControl
      <3> QED
        BY <1>1, <2>3, <3>1, ServerThreadStep DEF Server, ServerFaults
    <2>4. CASE Callback
      BY <1>1, <2>4, CallbackThreadStep DEF Callback
    <2>5. CASE Finished \/ UNCHANGED vars
      <3>1. UNCHANGED vars
        BY <2>5 DEF Finished
      <3> QED
        BY <1>1, <3>1 DEF vars, flags, lists, locals, curlvars, servervars, Thread, TypeFlags,
           TypeControl, Control, EofpIsEndOfFile, is_transfer_offset_ready, is_reading_complete
    <2> QED
      BY <2>1, <2>2, <2>3, <2>4, <2>5 DEF Next
  <1> QED
    BY <1>2, <1>3 DEF IInv, Thread

\* What a reachable state of the upload satisfies.
THEOREM Invariant == Spec => []IInv
  BY InitIInv, NextIInv, PTL DEF Spec

\* The body is the file up to the offset, in order, however the blocks came.
THEOREM BodyInOrderHolds == Spec => []BodyInOrder
  <1>1. IInv => BodyInOrder
    BY DEF IInv, DataInv, BodyIsPrefix, BodyInOrder
  <1> QED
    BY <1>1, Invariant, PTL

\* No byte the server handed out is dropped while no call failed.
THEOREM NoByteLostHolds == Spec => []NoByteLost
  <1>1. IInv => NoByteLost
    <2> SUFFICES ASSUME DataInv, result = OK, NEW o \in 0..(FileLen - 1), o \notin unsent
                 PROVE  \/ o \in ToSet(body)
                        \/ \E b \in ToSet(pending_buffers) : o \in Block(b)
                        \/ \E b \in ToSet(posted) : o \in Answered(b)
      BY DEF IInv, NoByteLost, Answered
    <2>1. \/ o < offset
          \/ \E b \in Pending : o \in Block(b)
          \/ \E b \in Buffer : o \in Answered(b)
      BY DEF DataInv, Covered
    <2>2. CASE o < offset
      <3>1. offset \in Nat /\ body = [k \in 1..offset |-> k - 1]
        BY DEF DataInv, TypeData, BodyIsPrefix
      <3>2. o + 1 \in 1..offset /\ (o + 1) - 1 = o
        BY <2>2, <3>1
      <3>3. o + 1 \in DOMAIN body /\ body[o + 1] = o
        BY <3>1, <3>2
      <3> QED
        BY <3>3 DEF ToSet
    <2>3. ASSUME NEW b \in Buffer, o \in Answered(b) PROVE b \in ToSet(posted)
      <3>1. NoAnswer.offset .. (NoAnswer.offset + NoAnswer.nbytes - 1) = {}
        BY DEF NoAnswer
      <3>2. answer[b] # NoAnswer
        BY <2>3, <3>1 DEF Answered
      <3> QED
        BY <3>2 DEF DataInv, Answers, Owners
    <2> QED
      BY <2>1, <2>2, <2>3 DEF Pending
  <1> QED
    BY <1>1, Invariant, PTL

\* The eof the application is told means that everything was sent.
THEOREM EofpIsEndOfFileHolds == Spec => []EofpIsEndOfFile
  <1>1. IInv => EofpIsEndOfFile
    BY DEF IInv
  <1> QED
    BY <1>1, Invariant, PTL

----------------------------------------------------------------------------
\* What was asked of the server is a number.
LEMMA CountsStep == ASSUME DataInv, TypeCounts, [Next]_vars PROVE TypeCounts'
  <1> USE DEF TypeCounts, flags, lists, locals, curlvars, servervars
  <1>1. CASE CurlThread
    <2>1. CASE WriteNotReady
      <3>1. bytes_available \in Int
        <4> DEFINE f == [b \in Buffer |-> BlockSize - buf[b].buffer_used]
        <4>1. \A b \in registered_buffers : f[b] \in Int
          BY Bounds DEF DataInv, TypeData, BufferRecord
        <4>2. IsFiniteSet(registered_buffers)
          BY DEF DataInv, Owners
        <4> HIDE DEF f
        <4>3. FoldFunctionOnSet(+, 0, f, registered_buffers) \in Int
          BY <4>1, <4>2, SumIsInteger
        <4> QED
          BY <4>3 DEF f, bytes_available
      <3> QED
        BY <2>1, <3>1 DEF WriteNotReady
    <2>2. CASE RegisterRead
      <3>1. this_read \in Int
        <4>1. remaining \in Int
          BY DEF remaining, DataInv, TypeData, NoEnd
        <4> QED
          BY <4>1, Bounds DEF this_read
      <3>2. PICK n \in Int : /\ \E b : asked' = [asked EXCEPT ![b] = n]
                            /\ bytes_registered' = bytes_registered + n
        BY <2>2, <3>1 DEF RegisterRead
      <3>3. asked' \in [Buffer -> Int]
        BY <3>2
      <3>4. bytes_registered' \in Int
        BY <3>2
      <3> QED
        BY <3>3, <3>4
    <2>3. CASE ~WriteNotReady /\ ~RegisterRead
      BY <1>1, <2>3 DEF CurlThread, WriteEnter, WriteReady, RegisterEnough, Wake, Copy,
         CopyDone, Cleanup
    <2> QED
      BY <2>1, <2>2, <2>3
  <1>2. CASE CurlFaults
    BY <1>2 DEF CurlFaults, RegisterNoMemory, RegisterFail, WakeSpurious, CurlStop
  <1>3. CASE Server \/ ServerFaults
    BY <1>3 DEF Server, ServerFaults, ServerData, ServerNothing, ServerError, progvars
  <1>4. CASE Callback
    BY <1>4 DEF Callback, CallbackBad, CallbackEmpty, CallbackData, CallbackStart
  <1>5. CASE Finished \/ UNCHANGED vars
    BY <1>5 DEF Finished, vars
  <1> QED
    BY <1>1, <1>2, <1>3, <1>4, <1>5 DEF Next

\* The state keeps the types of the C structure, the server and libcurl.
THEOREM TypeOKHolds == Spec => []TypeOK
  <1>1. Init => TypeCounts
    BY DEF Init, TypeCounts
  <1>2. IInv /\ TypeCounts /\ [Next]_vars => TypeCounts'
    BY CountsStep DEF IInv
  <1>3. IInv /\ TypeCounts => TypeOK
    BY DEF IInv, DataInv, TypeData, TypeFlags, TypeControl, TypeCounts, BodyIsPrefix, TypeOK,
       BufferRecord, AnswerRecord
  <1> QED
    BY <1>1, <1>2, <1>3, Invariant, PTL DEF Spec

----------------------------------------------------------------------------
\* Without empty reads, a buffer outside the pending list holds nothing until eof,
\* and one that is registered ever after.
Empties ==
  /\ ~eof => \A b \in Buffer \ Pending : buf[b].buffer_used = 0
  /\ \A b \in registered_buffers : buf[b].buffer_used = 0

\* A read that brings nothing and did not fail brings eof.
LEMMA EmptyIsEof ==
  ASSUME ~EmptyReads, DataInv, NEW k \in Reads, CallbackEmpty(k)
  PROVE  answer[posted[k]].eof
  <1>1. posted[k] \in Buffer /\ answer[posted[k]] \in AnswerRecord
    BY PostedBuffer DEF DataInv, TypeData
  <1>2. /\ answer[posted[k]].filled
        /\ ~has_data(answer[posted[k]])
        /\ result' = OK
        /\ result' = FirstError(result, answer[posted[k]].result)
    BY DEF CallbackEmpty, CallbackStart
  <1>3. answer[posted[k]].result = OK
    BY <1>2 DEF FirstError
  <1>4. answer[posted[k]].nbytes = 0
    BY <1>1, <1>2 DEF has_data, AnswerRecord
  <1> QED
    BY <1>1, <1>2, <1>3, <1>4 DEF DataInv, Answers

\* A block that arrives is one more pending block.
LEMMA PendingGrows ==
  ASSUME DataInv, NEW k \in Reads, CallbackData(k)
  PROVE  Pending' = Pending \cup {posted[k]}
  <1>1. pending_buffers \in Seq(Buffer) /\ posted[k] \in Buffer
    BY PostedBuffer DEF DataInv, TypeData
  <1>2. PICK p \in 0..Len(pending_buffers) :
          pending_buffers' = InsertAt(pending_buffers, p + 1, posted[k])
    BY DEF CallbackData
  <1>3. ToSet(InsertAt(pending_buffers, p + 1, posted[k])) = ToSet(pending_buffers) \cup {posted[k]}
    BY <1>1, Inserted
  <1> QED
    BY <1>2, <1>3 DEF Pending

LEMMA EmptiesStep ==
  ASSUME ~EmptyReads, IInv, Empties, [Next]_vars PROVE Empties'
  <1> USE DEF flags, lists, locals, curlvars, servervars, Pending
  <1>0. DataInv /\ TypeControl /\ TypeFlags /\ Control
    BY DEF IInv
  <1>1. CASE CurlThread
    <2>1. CASE RegisterRead
      <3>1. PICK b \in obtainable : /\ buf' = [buf EXCEPT ![b].transfer_offset = -1]
                                    /\ registered_buffers' = registered_buffers \cup {b}
                                    /\ UNCHANGED <<eof, pending_buffers>>
        BY <2>1 DEF RegisterRead
      <3>2. b \in Buffer /\ b \notin Pending
        BY <1>0, Obtained
      <3>3. \A c \in Buffer : buf'[c].buffer_used = buf[c].buffer_used
        BY <1>0, <3>1, <3>2 DEF DataInv, TypeData, BufferRecord
      <3>4. ~eof
        BY <1>0, <2>1 DEF RegisterRead, Control
      <3>5. registered_buffers \subseteq Buffer
        BY <1>0 DEF DataInv, TypeData
      <3> QED
        BY <3>1, <3>2, <3>3, <3>4, <3>5 DEF Empties
    <2>2. CASE Copy
      <3>1. PICK b \in Pending :
              /\ buf' \in [Buffer -> BufferRecord]
              /\ \A c \in Buffer \ {b} : buf'[c] = buf[c]
              /\ \/ pending_buffers' = pending_buffers
                 \/ pending_buffers' = Tail(pending_buffers) /\ buf'[b].buffer_used = 0
              /\ b = Head(pending_buffers)
              /\ UNCHANGED <<eof, registered_buffers>>
        BY <1>0, <2>2, CopyShape, CopyBlock DEF Copy
      <3>2. Pending' = Pending \/ (Pending' = Pending \ {b} /\ buf'[b].buffer_used = 0)
        <4>1. pending_buffers # <<>>
          BY <2>2 DEF Copy, CopyNext, is_transfer_offset_ready
        <4>2. ToSet(Tail(pending_buffers)) = Pending \ {b}
          BY <1>0, <3>1, <4>1, Beheaded DEF DataInv, TypeData, Owners
        <4> QED
          BY <3>1, <4>2
      <3>3. registered_buffers \subseteq Buffer /\ b \notin registered_buffers
        BY <1>0 DEF DataInv, TypeData, Owners
      <3> QED
        BY <3>1, <3>2, <3>3 DEF Empties
    <2>3. CASE ~RegisterRead /\ ~Copy
      <3>1. UNCHANGED <<pending_buffers, registered_buffers, buf>> /\ (eof => eof')
        BY <1>0, <1>1, <2>3 DEF CurlThread, WriteEnter, WriteReady, WriteNotReady, RegisterEnough,
           Wake, CopyDone, Cleanup, TypeFlags
      <3> QED
        BY <3>1 DEF Empties
    <2> QED
      BY <2>1, <2>2, <2>3
  <1>2. CASE CurlFaults
    <2>1. CASE RegisterFail
      <3>1. PICK b \in obtainable : /\ buf' = [buf EXCEPT ![b].transfer_offset = -1]
                                    /\ UNCHANGED <<eof, pending_buffers, registered_buffers>>
        BY <2>1 DEF RegisterFail
      <3>2. b \in Buffer
        BY <1>0, Obtained
      <3>3. \A c \in Buffer : buf'[c].buffer_used = buf[c].buffer_used
        BY <1>0, <3>1, <3>2 DEF DataInv, TypeData, BufferRecord
      <3>4. registered_buffers \subseteq Buffer
        BY <1>0 DEF DataInv, TypeData
      <3> QED
        BY <3>1, <3>3, <3>4 DEF Empties
    <2>2. CASE ~RegisterFail
      <3>1. UNCHANGED <<pending_buffers, registered_buffers, buf, eof>>
        BY <1>2, <2>2 DEF CurlFaults, RegisterNoMemory, WakeSpurious, CurlStop
      <3> QED
        BY <3>1 DEF Empties
    <2> QED
      BY <2>1, <2>2
  <1>3. CASE Server \/ ServerFaults
    <2>1. UNCHANGED <<pending_buffers, registered_buffers, buf, eof>>
      BY <1>3 DEF Server, ServerFaults, ServerData, ServerNothing, ServerError, progvars
    <2> QED
      BY <2>1 DEF Empties
  <1>4. CASE Callback
    <2>1. PICK k \in Reads : CallbackBad(k) \/ CallbackEmpty(k) \/ CallbackData(k)
      BY <1>4 DEF Callback
    <2>2. PICK b, bad : b = posted[k] /\ bad \in BOOLEAN /\ CallbackStart(k, bad)
      BY <2>1 DEF CallbackBad, CallbackEmpty, CallbackData
    <2>3. /\ b \in Buffer
          /\ registered_buffers' = registered_buffers \ {b}
          /\ eof' = (eof \/ answer[b].eof \/ at_end(answer[b]) \/ bad)
      BY <1>0, <2>2, PostedBuffer DEF CallbackStart, Unregister
    <2>4. \A c \in Buffer \ {b} : buf'[c] = buf[c]
      BY <1>0, <2>1, <2>2 DEF CallbackBad, CallbackEmpty, CallbackData, DataInv, TypeData
    <2>5. \A c \in registered_buffers' : buf'[c].buffer_used = 0
      BY <1>0, <2>3, <2>4 DEF DataInv, TypeData, Empties
    <2>6. CASE CallbackBad(k) \/ CallbackEmpty(k)
      <3>1. eof'
        <4>1. CASE CallbackBad(k)
          BY <4>1 DEF CallbackBad, CallbackStart
        <4>2. CASE CallbackEmpty(k)
          BY <1>0, <4>2, EmptyIsEof DEF CallbackEmpty, CallbackStart
        <4> QED
          BY <2>6, <4>1, <4>2
      <3> QED
        BY <2>5, <3>1 DEF Empties
    <2>7. CASE CallbackData(k)
      <3>1. Pending' = Pending \cup {b}
        BY <1>0, <2>2, <2>7, PendingGrows
      <3>2. eof => eof'
        BY <2>3
      <3> QED
        BY <2>4, <2>5, <3>1, <3>2 DEF Empties
    <2> QED
      BY <2>1, <2>6, <2>7
  <1>5. CASE Finished \/ UNCHANGED vars
    BY <1>5 DEF Finished, vars, Empties
  <1> QED
    BY <1>1, <1>2, <1>3, <1>4, <1>5 DEF Next

LEMMA InitEmpties == Init => Empties
  <1>1. ASSUME Init, NEW b \in Buffer PROVE buf[b].buffer_used = 0
    BY <1>1 DEF Init
  <1> QED
    BY <1>1 DEF Init, Empties

LEMMA EmptiesHold == ~EmptyReads => (Spec => []Empties)
  <1> SUFFICES ASSUME ~EmptyReads PROVE Spec => []Empties
    OBVIOUS
  <1>1. IInv /\ Empties /\ [Next]_vars => Empties'
    BY EmptiesStep
  <1> QED
    BY <1>1, InitEmpties, Invariant, PTL DEF Spec

\* A buffer is on one list, once; a free one is empty while reads may be registered;
\* the server has the registered ones.
THEOREM BufferOwnershipHolds == ~EmptyReads => (Spec => []BufferOwnership)
  <1> SUFFICES ASSUME ~EmptyReads PROVE Spec => []BufferOwnership
    OBVIOUS
  <1>1. Spec => []Empties
    BY EmptiesHold
  <1>2. IInv /\ Empties => BufferOwnership
    BY DEF IInv, DataInv, TypeData, Owners, Empties, BufferOwnership, FreeBuffersEmpty, Pending
  <1> QED
    BY <1>1, <1>2, Invariant, PTL

----------------------------------------------------------------------------
\* Before it waits, the thread has a read registered: an empty list asked for
\* nothing, so a read is wanted as long as the offset is not the end.
Awake == NoLostWakeup /\ (pc = "register" /\ registered_buffers = {} => bytes_registered = 0)

LEMMA ReadWanted ==
  ASSUME IInv, pc = "register", registered_buffers = {}, bytes_registered = 0
  PROVE  read_wanted
  <1>1. offset # end_offset /\ offset \in Nat /\ end_offset \in Nat \cup {NoEnd}
    BY DEF IInv, DataInv, TypeData, Control
  <1>2. remaining = 0 => end_offset = NoEnd
    BY <1>1 DEF remaining, NoEnd
  <1>3. Cardinality(registered_buffers) = 0
    BY FS_EmptySet
  <1> QED
    BY <1>2, <1>3, Bounds DEF read_wanted

\* The step into "waiting", and the calls that keep the thread in "register".
LEMMA AwakeCurlThread == ASSUME IInv, Awake, CurlThread PROVE Awake'
  <1> USE DEF flags, lists, locals, curlvars, servervars, Locked
  <1>0. DataInv /\ Control
    BY DEF IInv
  <1>1. CASE WriteNotReady
    <2>1. result' = result
      BY <1>1 DEF WriteNotReady, RegisterReturn, FirstError
    <2>2. UNCHANGED <<is_transfer_offset_ready, is_reading_complete, registered_buffers>>
      BY <1>1 DEF WriteNotReady, is_transfer_offset_ready, is_reading_complete
    <2>3. /\ ~is_transfer_offset_ready
          /\ ~is_reading_complete
      BY <1>1 DEF WriteNotReady
    <2>4. CASE result = OK /\ ~eof
      <3>1. pc' = "register" /\ bytes_registered' = bytes_available
        BY <1>1, <2>4 DEF WriteNotReady
      <3>2. registered_buffers = {} => bytes_available = 0
        <4> DEFINE f == [b \in Buffer |-> BlockSize - buf[b].buffer_used]
        <4> HIDE DEF f
        <4>1. registered_buffers = {} => FoldFunctionOnSet(+, 0, f, registered_buffers) = 0
          BY SumOfNothing
        <4> QED
          BY <4>1 DEF f, bytes_available
      <3> QED
        BY <2>2, <3>1, <3>2 DEF Awake, NoLostWakeup
    <2>5. CASE ~(result = OK /\ ~eof)
      <3>1. RegisterReturn(OK)
        BY <1>1, <2>5 DEF WriteNotReady
      <3>2. result' # OK => (pc' # "waiting" \/ registered_buffers # {})
        BY <3>1 DEF RegisterReturn, Return
      <3>3. eof => registered_buffers # {}
        BY <2>3 DEF is_reading_complete
      <3>4. pc' # "register"
        BY <3>1 DEF RegisterReturn, Return
      <3> QED
        BY <2>1, <2>2, <2>3, <2>5, <3>2, <3>3, <3>4 DEF Awake, NoLostWakeup
    <2> QED
      BY <2>4, <2>5
  <1>2. CASE RegisterEnough
    <2>1. result' = result /\ pc = "register"
      BY <1>2 DEF RegisterEnough, RegisterReturn, FirstError
    <2>2. UNCHANGED <<is_transfer_offset_ready, is_reading_complete, registered_buffers>>
      BY <1>2 DEF RegisterEnough, is_transfer_offset_ready, is_reading_complete
    <2>3. ~is_transfer_offset_ready /\ ~is_reading_complete /\ result = OK
      BY <1>0, <2>1 DEF Control, is_reading_complete
    <2>4. registered_buffers # {}
      BY <1>2, <2>1, ReadWanted DEF RegisterEnough, Awake
    <2>5. pc' # "register"
      BY <1>2 DEF RegisterEnough, RegisterReturn, Return
    <2> QED
      BY <2>2, <2>3, <2>4, <2>5 DEF Awake, NoLostWakeup
  <1>3. CASE RegisterRead
    <2>1. pc' = "register" /\ registered_buffers' # {}
      BY <1>3 DEF RegisterRead
    <2> QED
      BY <2>1 DEF Awake, NoLostWakeup
  <1>4. CASE ~WriteNotReady /\ ~RegisterEnough /\ ~RegisterRead
    <2>1. pc' # "register" /\ pc' # "waiting"
      BY <1>4 DEF CurlThread, WriteEnter, WriteReady, Wake, Copy, CopyDone, Cleanup, Return
    <2> QED
      BY <2>1 DEF Awake, NoLostWakeup
  <1> QED
    BY <1>1, <1>2, <1>3, <1>4

LEMMA AwakeCurlFaults == ASSUME IInv, Awake, CurlFaults PROVE Awake'
  <1> USE DEF flags, lists, locals, curlvars, servervars
  <1>0. DataInv /\ Control
    BY DEF IInv
  <1>1. CASE RegisterNoMemory \/ RegisterFail
    <2>1. /\ pc = "register"
          /\ pc' # "waiting" \/ registered_buffers # {}
          /\ pc' # "register"
          /\ UNCHANGED <<eof, registered_buffers>>
      <3>1. CASE RegisterNoMemory
        BY <3>1 DEF RegisterNoMemory, RegisterReturn, Return, FirstError, OK
      <3>2. CASE RegisterFail
        BY <3>2 DEF RegisterFail, RegisterReturn, Return, FirstError, OK
      <3> QED
        BY <1>1, <3>1, <3>2
    <2>2. ~is_transfer_offset_ready /\ ~eof
      BY <1>0, <2>1 DEF Control
    <2>3. is_transfer_offset_ready' = is_transfer_offset_ready
      <3>1. CASE RegisterNoMemory
        BY <3>1 DEF RegisterNoMemory, is_transfer_offset_ready
      <3>2. CASE RegisterFail
        <4>1. PICK b \in obtainable : buf' = [buf EXCEPT ![b].transfer_offset = -1]
          BY <3>2 DEF RegisterFail
        <4> QED
          BY <1>0, <3>2, <4>1, Obtained, ReadyAlone DEF RegisterFail, DataInv, TypeData
      <3> QED
        BY <1>1, <3>1, <3>2
    <2> QED
      BY <2>1, <2>2, <2>3 DEF Awake, NoLostWakeup, is_reading_complete
  <1>2. CASE WakeSpurious \/ CurlStop
    <2>1. pc' # "register" /\ pc' # "waiting"
      BY <1>2 DEF WakeSpurious, CurlStop
    <2> QED
      BY <2>1 DEF Awake, NoLostWakeup
  <1> QED
    BY <1>1, <1>2 DEF CurlFaults

\* Whatever a callback brings while the thread waits, it signals.
LEMMA AwakeCallback == ASSUME ~EmptyReads, IInv, Callback PROVE Awake'
  <1>1. PICK k \in Reads : CallbackBad(k) \/ CallbackEmpty(k) \/ CallbackData(k)
    BY DEF Callback
  <1>2. pc' = pc /\ pc # "register"
    BY <1>1 DEF CallbackBad, CallbackEmpty, CallbackData, CallbackStart, Locked
  <1>3. CallbackBad(k) => Signal
    BY DEF CallbackBad
  <1>4. CallbackEmpty(k) => Signal
    BY EmptyIsEof DEF IInv, CallbackEmpty, signal
  <1>5. CallbackData(k) => Signal
    BY DEF CallbackData, signal, has_data
  <1>6. pc = "waiting" => signalled'
    BY <1>1, <1>3, <1>4, <1>5 DEF Signal
  <1> QED
    BY <1>2, <1>6 DEF Awake, NoLostWakeup

LEMMA AwakeStep == ASSUME ~EmptyReads, IInv, Awake, [Next]_vars PROVE Awake'
  <1>1. CASE Server \/ ServerFaults
    <2>1. UNCHANGED progvars
      BY <1>1 DEF Server, ServerFaults, ServerData, ServerNothing, ServerError
    <2> QED
      BY <2>1 DEF progvars, flags, lists, locals, Awake, NoLostWakeup, is_transfer_offset_ready,
         is_reading_complete
  <1>2. CASE Finished \/ UNCHANGED vars
    BY <1>2 DEF Finished, vars, flags, lists, locals, Awake, NoLostWakeup,
       is_transfer_offset_ready, is_reading_complete
  <1> QED
    BY <1>1, <1>2, AwakeCurlThread, AwakeCurlFaults, AwakeCallback DEF Next

\* The curl thread sleeps unsignalled only on a false condition, with a read
\* outstanding whose callback will signal.
THEOREM NoLostWakeupHolds == ~EmptyReads => (Spec => []NoLostWakeup)
  <1> SUFFICES ASSUME ~EmptyReads PROVE Spec => []NoLostWakeup
    OBVIOUS
  <1>1. Init => Awake
    BY DEF Init, Awake, NoLostWakeup
  <1>2. IInv /\ Awake /\ [Next]_vars => Awake'
    BY AwakeStep
  <1>3. Awake => NoLostWakeup
    BY DEF Awake
  <1> QED
    BY <1>1, <1>2, <1>3, Invariant, PTL DEF Spec

----------------------------------------------------------------------------
\* A section to upload ends where a block of the server ends
WholeBlocks == \A l \in Lengths \ {NoEnd} : \E n \in Nat : l = BlockSize * n

\* The bytes of n blocks
Blocks(n) == BlockSize * n

\* The server answered the first m outstanding reads
Answering(m) ==
  /\ \A k \in 1..m : answer[posted[k]].filled
  /\ \A k \in (m + 1)..Len(posted) : ~answer[posted[k]].filled

\* What the other reads can take ends in the section
Within(m, s) ==
  IF s = FileLen THEN FileLen <= end_offset
  ELSE s + Blocks(Len(posted) - m) <= end_offset

\* None of the first j answers is an error
Good(j) == \A i \in 1..j : answer[posted[i]].result = OK

\* The pending blocks are what there is from the offset to block q
Gapless(q) ==
  /\ offset <= Blocks(q)
  /\ \A o \in offset .. (Blocks(q) - 1) : \E b \in Pending : o \in Block(b)
  /\ \A b \in Pending : buf[b].data + buf[b].buffer_used <= Blocks(q)

\* Each read is answered with the next block, and the last of them is in the section
Served(m, s, q) ==
  /\ Blocks(q + Len(posted)) <= end_offset
  /\ s <= Blocks(q + m)
  /\ Good(m) => s = Blocks(q + m)
  /\ \A j \in 1..m : Good(j) => /\ answer[posted[j]].nbytes = BlockSize
                                /\ answer[posted[j]].offset = Blocks(q + (j - 1))

\* Each read asks for a block, and the thread that registers more has counted them
Asked ==
  /\ \A j \in Reads : asked[posted[j]] = BlockSize
  /\ pc = "register" => bytes_registered = Blocks(Len(posted))

Aligned(m, s, q) == Gapless(q) /\ Served(m, s, q) /\ Asked

InOrder ==
  \E m \in 0..Len(posted), s \in 0..FileLen :
    /\ Answering(m)
    /\ unsent = s .. (FileLen - 1)
    /\ Within(m, s)
    /\ result = OK /\ ~eof /\ s < FileLen => \E q \in Nat : Aligned(m, s, q)

AskedSmall == \A b \in Buffer : asked[b] <= BlockSize

\* eof without an error means that the file or the section has ended
Ended ==
  eof /\ result = OK => unsent = {} \/ (Ordered /\ \A o \in unsent : end_offset <= o)

OInv ==
  /\ IInv /\ Empties /\ TypeCounts
  /\ end_offset \in Lengths
  /\ Ordered => InOrder
  /\ AskedSmall
  /\ Ended

----------------------------------------------------------------------------
LEMMA BlockArithmetic ==
  /\ Blocks(0) = 0
  /\ \A n \in Nat : Blocks(n) \in Nat /\ Blocks(n + 1) = Blocks(n) + BlockSize
  /\ \A i, j \in Nat : Blocks(i) < Blocks(j) => Blocks(i) + BlockSize <= Blocks(j)
  <1>1. Blocks(0) = 0
    BY Bounds DEF Blocks
  <1>2. ASSUME NEW n \in Nat
        PROVE  Blocks(n) \in Nat /\ Blocks(n + 1) = Blocks(n) + BlockSize
    BY Bounds DEF Blocks
  <1>3. ASSUME NEW i \in Nat, NEW j \in Nat, Blocks(i) < Blocks(j)
        PROVE  Blocks(i) + BlockSize <= Blocks(j)
    <2>1. PICK c \in Nat \ {0} : c = BlockSize
      BY Bounds
    <2>2. i < j
      <3>1. i >= j => c * i >= c * j
        BY <2>1
      <3> QED
        BY <1>3, <2>1, <3>1 DEF Blocks
    <2>3. PICK d \in Nat : j = (i + 1) + d
      <3>1. j - (i + 1) \in Nat /\ j = (i + 1) + (j - (i + 1))
        BY <2>2
      <3> QED
        BY <3>1
    <2>4. c * j = c * i + c + c * d /\ c * d \in Nat /\ c * i \in Nat
      BY <2>1, <2>3
    <2> QED
      BY <2>1, <2>4 DEF Blocks
  <1> QED
    BY <1>1, <1>2, <1>3

\* The lengths of lists, and what is outstanding, as numbers.
LEMMA Posted ==
  ASSUME DataInv
  PROVE  /\ Len(posted) \in Nat
         /\ DOMAIN posted = 1..Len(posted)
         /\ \A k \in Reads : posted[k] \in Buffer
         /\ Cardinality(registered_buffers) = Len(posted)
         /\ offset \in Nat /\ end_offset \in Nat \cup {NoEnd}
  <1>1. posted \in Seq(Buffer)
    BY DEF DataInv, TypeData
  <1>2. Cardinality(ToSet(posted)) = Len(posted)
    BY <1>1, CountOfList DEF DataInv, Owners
  <1> QED
    BY <1>1, <1>2, LenProperties, ElementOfSeq DEF DataInv, TypeData, Owners, Reads

\* A pending block with the byte at the offset is the first, and it is ready.
LEMMA HeadAtOffset ==
  ASSUME DataInv, NEW b \in Pending, offset \in Block(b)
  PROVE  is_transfer_offset_ready
  <1>1. /\ buf[b] \in BufferRecord
        /\ buf[b].transfer_offset = buf[b].data
        /\ buf[b].data >= offset
    BY PendingBlocks
  <1>2. buf[b].transfer_offset = offset /\ offset \in Nat
    BY <1>1 DEF Block, BufferRecord, DataInv, TypeData
  <1>3. pending_buffers \in Seq(Buffer)
    BY DEF DataInv, TypeData
  <1>4. PICK j \in DOMAIN pending_buffers : pending_buffers[j] = b
    BY DEF Pending, ToSet
  <1>5. Len(pending_buffers) \in Nat /\ DOMAIN pending_buffers = 1..Len(pending_buffers)
    BY <1>3, LenProperties
  <1>6. pending_buffers # <<>>
    BY <1>3, <1>4, <1>5, EmptySeq
  <1>7. Head(pending_buffers) = pending_buffers[1] /\ pending_buffers[1] \in Pending
    BY <1>3, <1>6, Beheaded DEF DataInv, Owners, Pending
  <1>8. j = 1
    <2> SUFFICES ASSUME j # 1 PROVE FALSE
      OBVIOUS
    <2> DEFINE t == buf[pending_buffers[1]].transfer_offset
               u == buf[pending_buffers[1]].buffer_used
    <2>1. 1 \in 1..(j - 1)
      BY <1>5
    <2>2. t + u <= offset
      BY <1>2, <1>4, <2>1 DEF DataInv, Sorted
    <2>3. t \in Int /\ u \in Int /\ u > 0 /\ t >= offset
      BY <1>7, PendingBlocks DEF BufferRecord
    <2> QED
      BY <1>2, <2>2, <2>3
  <1> QED
    BY <1>2, <1>4, <1>6, <1>7, <1>8 DEF is_transfer_offset_ready

\* Waiting for the byte at the offset, the thread has nothing pending.
LEMMA NothingPending ==
  ASSUME DataInv, ~is_transfer_offset_ready, NEW q \in Nat, Gapless(q)
  PROVE  Pending = {} /\ offset = Blocks(q)
  <1>1. offset \in Nat /\ Blocks(q) \in Nat
    BY BlockArithmetic DEF DataInv, TypeData
  <1>2. offset = Blocks(q)
    <2> SUFFICES ASSUME offset < Blocks(q) PROVE FALSE
      BY <1>1 DEF Gapless
    <2>1. offset \in offset .. (Blocks(q) - 1)
      BY <1>1
    <2>2. PICK b \in Pending : offset \in Block(b)
      BY <2>1 DEF Gapless
    <2> QED
      BY <2>2, HeadAtOffset
  <1>3. ASSUME NEW b \in Pending PROVE FALSE
    <2> DEFINE d == buf[b].data
               u == buf[b].buffer_used
    <2>1. d \in Int /\ u \in Int /\ u > 0 /\ d >= offset
      BY PendingBlocks DEF BufferRecord
    <2>2. d + u <= Blocks(q)
      BY DEF Gapless
    <2> QED
      BY <1>1, <1>2, <2>1, <2>2
  <1> QED
    BY <1>2, <1>3

----------------------------------------------------------------------------
LEMMA InitInOrder == Init /\ end_offset \in Nat => InOrder
  <1> SUFFICES ASSUME Init, end_offset \in Nat PROVE InOrder
    OBVIOUS
  <1>1. Len(posted) = 0 /\ posted = <<>> /\ Reads = {}
    BY DEF Init, Reads
  <1>2. Answering(0)
    BY <1>1 DEF Answering
  <1>3. Within(0, 0)
    <2>1. Len(posted) - 0 = 0
      BY <1>1
    <2> QED
      BY <2>1, Bounds, BlockArithmetic DEF Within
  <1>4. Aligned(0, 0, 0)
    <2>1. Pending = {}
      BY SetOfEmpty DEF Init, Pending
    <2>2. Gapless(0)
      BY <2>1, BlockArithmetic DEF Init, Gapless
    <2>3. Served(0, 0, 0)
      BY <1>1, BlockArithmetic DEF Served
    <2>4. Asked
      BY <1>1 DEF Asked, Init
    <2> QED
      BY <2>2, <2>3, <2>4 DEF Aligned
  <1>5. 0 \in 0..Len(posted) /\ 0 \in 0..FileLen
    BY <1>1, Bounds
  <1>6. unsent = 0 .. (FileLen - 1)
    BY DEF Init
  <1> QED
    BY <1>2, <1>3, <1>4, <1>5, <1>6 DEF InOrder

\* Steps that touch neither the reads nor, unless the request is over, the blocks.
LEMMA QuietOrder ==
  ASSUME InOrder,
         UNCHANGED <<posted, asked, answer, unsent, offset, end_offset, pending_buffers>>,
         result' = OK /\ ~eof' => result = OK /\ ~eof /\ buf' = buf,
         result' = OK /\ ~eof' /\ pc' = "register" =>
           \/ pc = "register" /\ bytes_registered' = bytes_registered
           \/ bytes_registered' = Blocks(Len(posted))
  PROVE  InOrder'
  <1>1. PICK m \in 0..Len(posted), s \in 0..FileLen :
          /\ Answering(m)
          /\ unsent = s .. (FileLen - 1)
          /\ Within(m, s)
          /\ result = OK /\ ~eof /\ s < FileLen => \E q \in Nat : Aligned(m, s, q)
    BY DEF InOrder
  <1>2. Answering(m)' /\ Within(m, s)'
    BY <1>1 DEF Answering, Within
  <1>3. ASSUME result' = OK, ~eof', s < FileLen PROVE \E q \in Nat : Aligned(m, s, q)'
    <2>1. PICK q \in Nat : Aligned(m, s, q)
      BY <1>1, <1>3
    <2>2. Gapless(q)'
      BY <1>3, <2>1 DEF Aligned, Gapless, Block, Pending
    <2>3. Served(m, s, q)'
      BY <2>1 DEF Aligned, Served, Good
    <2>4. Asked'
      BY <1>3, <2>1 DEF Aligned, Asked, Reads
    <2> QED
      BY <2>2, <2>3, <2>4 DEF Aligned
  <1> QED
    BY <1>1, <1>2, <1>3 DEF InOrder

\* In a section of whole blocks there is room for a whole block, or none is wanted.
LEMMA WholeRead ==
  ASSUME OInv, Ordered, WholeBlocks, pc = "register", read_wanted,
         NEW m, NEW s, NEW q \in Nat, Aligned(m, s, q)
  PROVE  this_read = BlockSize /\ Blocks(q + Len(posted)) + BlockSize <= end_offset
  <1>1. /\ Len(posted) \in Nat
        /\ end_offset \in Nat \cup {NoEnd}
    BY Posted DEF OInv, IInv
  <1>2. PICK n \in Nat : end_offset = Blocks(n)
    BY DEF OInv, Ordered, WholeBlocks, Blocks
  <1>3. offset = Blocks(q)
    BY NothingPending DEF OInv, IInv, Control, Aligned
  <1>4. bytes_registered = Blocks(Len(posted))
    BY DEF Aligned, Asked
  <1>5. Blocks(q + Len(posted)) = Blocks(q) + Blocks(Len(posted))
    <2>1. PICK c \in Nat : c = BlockSize
      BY Bounds
    <2>2. \A i, j \in Nat : c * (i + j) = c * i + c * j
      BY <2>1
    <2> QED
      BY <1>1, <2>1, <2>2 DEF Blocks
  <1>6. q + Len(posted) \in Nat
    BY <1>1
  <1>7. /\ Blocks(q) \in Nat /\ Blocks(Len(posted)) \in Nat
        /\ Blocks(n) \in Nat /\ Blocks(q + Len(posted)) \in Nat
    BY <1>1, <1>6, BlockArithmetic
  <1>8. remaining = Blocks(n) - Blocks(q + Len(posted))
    BY <1>2, <1>3, <1>4, <1>5, <1>7 DEF remaining
  <1>9. Blocks(q + Len(posted)) < Blocks(n)
    BY <1>2, <1>7, <1>8 DEF read_wanted, Ordered, Aligned, Served
  <1>10. Blocks(q + Len(posted)) + BlockSize <= Blocks(n)
    BY <1>6, <1>9, BlockArithmetic
  <1>11. ~(remaining < BlockSize)
    BY <1>7, <1>8, <1>10, Bounds
  <1> QED
    BY <1>2, <1>10, <1>11 DEF this_read

\* One more read asks for one more block.
LEMMA RegisterOrder ==
  ASSUME OInv, Ordered, WholeBlocks, RegisterRead PROVE InOrder'
  <1>0. DataInv /\ pc = "register" /\ read_wanted /\ result = OK /\ ~eof
    BY DEF OInv, IInv, Control, RegisterRead
  <1>1. PICK m \in 0..Len(posted), s \in 0..FileLen :
          /\ Answering(m)
          /\ unsent = s .. (FileLen - 1)
          /\ Within(m, s)
          /\ result = OK /\ ~eof /\ s < FileLen => \E q \in Nat : Aligned(m, s, q)
    BY DEF OInv, InOrder
  <1> DEFINE c == CHOOSE b \in obtainable : TRUE
             L == Len(posted)
  <1>2. PICK b \in obtainable : b = c
    BY DEF RegisterRead
  <1>3. /\ buf' = [buf EXCEPT ![b].transfer_offset = -1]
        /\ posted' = Append(posted, b)
        /\ asked' = [asked EXCEPT ![b] = this_read]
        /\ bytes_registered' = bytes_registered + this_read
        /\ UNCHANGED <<result, eof, offset, end_offset, pending_buffers, pc, answer, unsent>>
    BY <1>2 DEF RegisterRead, flags
  <1> HIDE DEF c
  <1>4. b \in Buffer /\ b \notin registered_buffers /\ b \notin Pending
    BY <1>0, Obtained
  <1>5. /\ L \in Nat /\ DOMAIN posted = 1..L
        /\ posted \in Seq(Buffer)
        /\ b \notin ToSet(posted)
        /\ \A k \in 1..L : posted[k] \in Buffer
    BY <1>0, <1>4, Posted DEF DataInv, TypeData, Owners, Reads
  <1>6. /\ Len(posted') = L + 1
        /\ \A k \in 1..L : posted'[k] = posted[k] /\ posted[k] # b
        /\ posted'[L + 1] = b
    BY <1>3, <1>5, AppendProperties DEF ToSet
  <1> HIDE DEF L
  <1>7. ~answer[b].filled
    BY <1>0, <1>4 DEF DataInv, Answers, NoAnswer
  <1>8. Answering(m)'
    <2>1. ASSUME NEW k \in 1..m PROVE answer'[posted'[k]].filled
      <3>1. k \in 1..L
        BY <1>5 DEF L
      <3> QED
        BY <1>1, <1>3, <1>6, <3>1 DEF Answering
    <2>2. ASSUME NEW k \in (m + 1)..(L + 1) PROVE ~answer'[posted'[k]].filled
      <3>1. CASE k = L + 1
        BY <1>3, <1>6, <1>7, <3>1
      <3>2. CASE k # L + 1
        <4>1. k \in (m + 1)..L /\ k \in 1..L
          BY <1>5, <3>2 DEF L
        <4> QED
          BY <1>1, <1>3, <1>6, <4>1 DEF Answering, L
      <3> QED
        BY <3>1, <3>2
    <2> QED
      BY <1>6, <2>1, <2>2 DEF Answering
  <1>9. ASSUME s < FileLen, NEW q \in Nat, Aligned(m, s, q)
        PROVE  Aligned(m, s, q)' /\ s + Blocks((L + 1) - m) <= end_offset
    <2>1. this_read = BlockSize /\ Blocks(q + L) + BlockSize <= end_offset
      BY <1>0, <1>9, WholeRead DEF L
    <2>2. Blocks(q + (L + 1)) <= end_offset /\ Blocks(L + 1) = Blocks(L) + BlockSize
      <3>1. q + (L + 1) = (q + L) + 1 /\ q + L \in Nat
        BY <1>5
      <3> QED
        BY <1>5, <2>1, <3>1, BlockArithmetic
    <2>3. Gapless(q)'
      <3>1. \A x \in Pending : buf'[x] = buf[x]
        BY <1>0, <1>3, <1>4, PendingBlocks DEF DataInv, TypeData
      <3> QED
        BY <1>3, <1>9, <3>1 DEF Aligned, Gapless, Block, Pending
    <2>4. Served(m, s, q)'
      <3>1. \A k \in 1..m : posted'[k] = posted[k]
        BY <1>5, <1>6 DEF L
      <3>2. \A j \in 1..m : Good(j)' <=> Good(j)
        BY <1>3, <3>1 DEF Good
      <3>3. Good(m)' <=> Good(m)
        BY <1>3, <3>1 DEF Good
      <3> QED
        BY <1>3, <1>6, <1>9, <2>2, <3>1, <3>2, <3>3 DEF Aligned, Served
    <2>5. Asked'
      <3>1. ASSUME NEW k \in 1..(L + 1) PROVE asked'[posted'[k]] = BlockSize
        <4>1. asked \in [Buffer -> Int]
          BY DEF OInv, TypeCounts
        <4>2. CASE k = L + 1
          BY <1>3, <1>4, <1>6, <2>1, <4>1, <4>2
        <4>3. CASE k # L + 1
          <5>1. k \in 1..L
            BY <1>5, <4>3
          <5> QED
            BY <1>3, <1>5, <1>6, <1>9, <4>1, <5>1 DEF Aligned, Asked, Reads, L
        <4> QED
          BY <4>2, <4>3
      <3>2. bytes_registered' = Blocks(L + 1)
        BY <1>0, <1>3, <1>9, <2>1, <2>2 DEF Aligned, Asked, L
      <3> QED
        BY <1>3, <1>6, <3>1, <3>2 DEF Asked, Reads
    <2>6. s + Blocks((L + 1) - m) <= end_offset
      <3>1. PICK u \in Nat : u = (L + 1) - m /\ (q + m) + u = q + (L + 1)
        BY <1>5, SMTT(30) DEF L
      <3>2. Blocks((q + m) + u) = Blocks(q + m) + Blocks(u)
        <4>1. PICK d \in Nat : d = BlockSize
          BY Bounds
        <4>2. \A i, j \in Nat : d * (i + j) = d * i + d * j
          BY <4>1
        <4>3. q + m \in Nat
          BY <1>5
        <4> QED
          BY <3>1, <4>1, <4>2, <4>3 DEF Blocks
      <3>3. Blocks(q + m) \in Nat /\ Blocks(u) \in Nat /\ end_offset \in Int
        <4>1. q + m \in Nat
          BY <1>5 DEF L
        <4>2. end_offset \in Nat \cup {NoEnd}
          BY <1>0 DEF DataInv, TypeData
        <4> QED
          BY <3>1, <4>1, <4>2, BlockArithmetic DEF NoEnd
      <3>4. s <= Blocks(q + m)
        BY <1>9 DEF Aligned, Served
      <3> QED
        BY <2>2, <3>1, <3>2, <3>3, <3>4
    <2> QED
      BY <2>3, <2>4, <2>5, <2>6 DEF Aligned
  <1>10. Within(m, s)'
    <2>1. CASE s = FileLen
      BY <1>1, <1>3, <2>1 DEF Within
    <2>2. CASE s # FileLen
      <3>1. s < FileLen
        BY <2>2, Bounds
      <3>2. PICK q \in Nat : Aligned(m, s, q)
        BY <1>0, <1>1, <3>1
      <3> QED
        BY <1>3, <1>6, <1>9, <2>2, <3>1, <3>2 DEF Within
    <2> QED
      BY <2>1, <2>2
  <1>11. m \in 0..Len(posted')
    BY <1>5, <1>6 DEF L
  <1>12. result' = OK /\ ~eof' /\ s < FileLen => \E q \in Nat : Aligned(m, s, q)'
    BY <1>0, <1>1, <1>9
  <1> QED
    BY <1>1, <1>3, <1>8, <1>10, <1>11, <1>12 DEF InOrder

\* What is copied was pending, up to the same block.
LEMMA CopyGapless ==
  ASSUME DataInv, TypeControl, Copy, NEW q \in Nat, Gapless(q) PROVE Gapless(q)'
  <1> DEFINE h == Head(pending_buffers)
             c == to_copy(h)
  <1>1. PICK b \in Pending, n \in Nat \ {0} :
          /\ b = h /\ n = c
          /\ buf[b].data = offset
          /\ buf[b].buffer_used \in Nat
          /\ n <= buf[b].buffer_used
          /\ offset' = offset + n
          /\ \A x \in Buffer \ {b} : buf'[x] = buf[x]
          /\ \/ /\ n < buf[b].buffer_used
                /\ pending_buffers' = pending_buffers
                /\ buf'[b] = [transfer_offset |-> offset + n,
                              buffer_used |-> buf[b].buffer_used - n,
                              data |-> offset + n]
             \/ /\ n = buf[b].buffer_used
                /\ pending_buffers' = Tail(pending_buffers)
    BY CopyBlock, CopyShape DEF Copy
  <1>2. offset \in Nat /\ Blocks(q) \in Nat
    BY BlockArithmetic DEF DataInv, TypeData
  <1>3. /\ Pending \subseteq Buffer
        /\ \A x \in Pending : buf[x].data \in Nat /\ buf[x].buffer_used \in Int
    BY PendingBlocks DEF BufferRecord
  <1>4. buf[b].data + buf[b].buffer_used <= Blocks(q)
    BY DEF Gapless
  <1>5. CASE n < buf[b].buffer_used
    <2>1. /\ Pending' = Pending
          /\ buf'[b].data = offset + n
          /\ buf'[b].buffer_used = buf[b].buffer_used - n
      BY <1>1, <1>5 DEF Pending
    <2>2. offset' <= Blocks(q)
      BY <1>1, <1>2, <1>4
    <2>3. ASSUME NEW o \in offset' .. (Blocks(q) - 1)
          PROVE  \E x \in Pending' : o \in Block(x)'
      <3>1. o \in offset .. (Blocks(q) - 1)
        BY <1>1, <1>2
      <3>2. PICK x \in Pending : o \in Block(x)
        BY <3>1 DEF Gapless
      <3>3. CASE x = b
        <4>1. o \in offset .. (offset + buf[b].buffer_used - 1)
          BY <1>1, <3>2, <3>3 DEF Block
        <4>2. o \in (offset + n) .. (offset + n + (buf[b].buffer_used - n) - 1)
          BY <1>1, <1>2, <4>1, SMTT(30)
        <4>3. o \in buf'[b].data .. (buf'[b].data + buf'[b].buffer_used - 1)
          BY <2>1, <4>2
        <4>4. b \in Pending'
          BY <2>1
        <4> QED
          BY <4>3, <4>4 DEF Block
      <3>4. CASE x # b
        BY <1>1, <1>3, <2>1, <3>2, <3>4 DEF Block
      <3> QED
        BY <3>3, <3>4
    <2>4. ASSUME NEW x \in Pending PROVE buf'[x].data + buf'[x].buffer_used <= Blocks(q)
      <3>1. CASE x = b
        BY <1>1, <1>2, <1>4, <2>1, <3>1
      <3>2. CASE x # b
        BY <1>1, <1>3, <3>2 DEF Gapless
      <3> QED
        BY <3>1, <3>2
    <2> QED
      BY <2>1, <2>2, <2>3, <2>4 DEF Gapless, Blocks
  <1>6. CASE n = buf[b].buffer_used
    <2>1. Pending' = Pending \ {b}
      <3>1. pending_buffers # <<>>
        BY DEF Copy, CopyNext, is_transfer_offset_ready
      <3>2. /\ Head(pending_buffers) = pending_buffers[1]
            /\ ToSet(Tail(pending_buffers)) = ToSet(pending_buffers) \ {pending_buffers[1]}
        <4>1. pending_buffers \in Seq(Buffer)
          BY DEF DataInv, TypeData
        <4>2. \A i, j \in DOMAIN pending_buffers :
                pending_buffers[i] = pending_buffers[j] => i = j
          BY DEF DataInv, Owners
        <4> QED
          BY <3>1, <4>1, <4>2, Beheaded
      <3>3. pending_buffers' = Tail(pending_buffers)
        <4>1. ~(n < buf[b].buffer_used)
          BY <1>1, <1>6
        <4> QED
          BY <1>1, <4>1
      <3>4. b = pending_buffers[1]
        BY <1>1, <3>2
      <3>5. ToSet(pending_buffers') = ToSet(pending_buffers) \ {b}
        BY <3>2, <3>3, <3>4
      <3> QED
        BY <3>5 DEF Pending
    <2>2. offset' <= Blocks(q)
      BY <1>1, <1>2, <1>4, <1>6
    <2>3. ASSUME NEW o \in offset' .. (Blocks(q) - 1)
          PROVE  \E x \in Pending' : o \in Block(x)'
      <3>1. o \in offset .. (Blocks(q) - 1) /\ ~(o < offset + n)
        BY <1>1, <1>2
      <3>2. PICK x \in Pending : o \in Block(x)
        BY <3>1 DEF Gapless
      <3>3. x # b
        BY <1>1, <1>2, <1>6, <3>1, <3>2 DEF Block
      <3> QED
        BY <1>1, <1>3, <2>1, <3>2, <3>3 DEF Block
    <2>4. ASSUME NEW x \in Pending' PROVE buf'[x].data + buf'[x].buffer_used <= Blocks(q)
      BY <1>1, <1>3, <2>1 DEF Gapless
    <2> QED
      BY <2>2, <2>3, <2>4 DEF Gapless, Blocks
  <1> QED
    BY <1>1, <1>5, <1>6

LEMMA CopyOrder == ASSUME OInv, Ordered, Copy PROVE InOrder'
  <1>1. PICK m \in 0..Len(posted), s \in 0..FileLen :
          /\ Answering(m)
          /\ unsent = s .. (FileLen - 1)
          /\ Within(m, s)
          /\ result = OK /\ ~eof /\ s < FileLen => \E q \in Nat : Aligned(m, s, q)
    BY DEF OInv, InOrder
  <1>2. UNCHANGED <<result, eof, end_offset, posted, asked, answer, unsent, pc>> /\ pc = "copy"
    BY DEF Copy, flags, servervars
  <1>3. Answering(m)' /\ Within(m, s)'
    BY <1>1, <1>2 DEF Answering, Within
  <1>4. ASSUME NEW q \in Nat, Aligned(m, s, q) PROVE Aligned(m, s, q)'
    <2>1. Gapless(q)'
      BY <1>4, CopyGapless DEF OInv, IInv, Aligned
    <2>2. Served(m, s, q)' /\ Asked'
      BY <1>2, <1>4 DEF Aligned, Served, Good, Asked, Reads
    <2> QED
      BY <2>1, <2>2 DEF Aligned
  <1> QED
    BY <1>1, <1>2, <1>3, <1>4 DEF InOrder

\* A server that answers in order answers the next read, with the next bytes.
LEMMA NextAnswered ==
  ASSUME DataInv, NEW k \in Reads, NEW m \in 0..Len(posted), Answering(m),
         ~answer[posted[k]].filled, \A j \in 1..(k - 1) : answer[posted[j]].filled
  PROVE  k = m + 1
  <1>1. Len(posted) \in Nat /\ k \in 1..Len(posted)
    BY Posted DEF Reads
  <1>2. ~(k <= m)
    BY <1>1 DEF Answering
  <1>3. ~(m + 1 < k)
    <2> SUFFICES ASSUME m + 1 < k PROVE FALSE
      OBVIOUS
    <2>1. m + 1 \in 1..(k - 1) /\ m + 1 \in (m + 1)..Len(posted)
      BY <1>1
    <2> QED
      BY <2>1 DEF Answering
  <1> QED
    BY <1>1, <1>2, <1>3

LEMMA AnswerOrder ==
  ASSUME OInv, Ordered, ~EmptyReads, NEW k \in Reads,
         ServerData(k) \/ ServerNothing(k) \/ ServerError(k)
  PROVE  InOrder'
  <1>0. DataInv /\ faults \in Nat
    BY Bounds DEF OInv, IInv, TypeControl
  <1>1. PICK m \in 0..Len(posted), s \in 0..FileLen :
          /\ Answering(m)
          /\ unsent = s .. (FileLen - 1)
          /\ Within(m, s)
          /\ result = OK /\ ~eof /\ s < FileLen => \E q \in Nat : Aligned(m, s, q)
    BY DEF OInv, InOrder
  <1>2. PICK a \in AnswerRecord :
            /\ ~answer[posted[k]].filled
            /\ answer' = [answer EXCEPT ![posted[k]] = a]
            /\ a.filled
            /\ a.offset .. (a.offset + a.nbytes - 1) \subseteq unsent
            /\ unsent' = unsent \ (a.offset .. (a.offset + a.nbytes - 1))
            /\ a.nbytes > 0 => /\ unsent # {}
                               /\ a.nbytes <= asked[posted[k]]
                               /\ Ordered => /\ \A u \in unsent : a.offset <= u
                                             /\ a.nbytes < asked[posted[k]] =>
                                                  a.offset + a.nbytes = FileLen
            /\ a.result = OK /\ a.nbytes = 0 => EmptyReads \/ unsent = {}
            /\ a.result # OK => a.nbytes = 0
            /\ Ordered => \A j \in 1..(k - 1) : answer[posted[j]].filled
            /\ UNCHANGED <<offset, end_offset, lists, posted, asked, result, pc, eof,
                           bytes_registered>>
    BY <1>0, AnswerShape
  <1>3. k = m + 1
    BY <1>0, <1>1, <1>2, NextAnswered
  <1> DEFINE L == Len(posted)
             x == posted[k]
             n == a.nbytes
  <1>4. /\ L \in Nat /\ k \in 1..L
        /\ \A j \in 1..L : posted[j] \in Buffer
        /\ n \in Nat /\ a.offset \in Nat
    BY <1>0, Posted DEF Reads, AnswerRecord
  <1>5. /\ answer'[x] = a
        /\ \A j \in 1..L : j # k => answer'[posted[j]] = answer[posted[j]]
    <2>1. answer \in [Buffer -> AnswerRecord]
      BY <1>0 DEF DataInv, TypeData
    <2>2. \A j \in 1..L : j # k => posted[j] # x
      BY <1>0, <1>4, Posted DEF DataInv, Owners
    <2> QED
      BY <1>2, <1>4, <2>1, <2>2
  <1>6. s + n \in 0..FileLen /\ unsent' = (s + n) .. (FileLen - 1) /\ (n > 0 => a.offset = s)
    <2>1. CASE n = 0
      BY <1>1, <1>2, <1>4, <2>1, Bounds
    <2>2. CASE n > 0
      <3>1. s \in unsent /\ s < FileLen
        BY <1>1, <1>2, <2>2, Bounds
      <3>2. a.offset \in a.offset .. (a.offset + n - 1)
        BY <1>4, <2>2
      <3>3. a.offset = s
        BY <1>1, <1>2, <1>4, <2>2, <3>1, <3>2
      <3>4. s + n - 1 \in s .. (s + n - 1)
        BY <2>2, <1>4
      <3>5. s + n - 1 < FileLen
        BY <1>1, <1>2, <3>3, <3>4, Bounds
      <3>6. unsent' = (s .. (FileLen - 1)) \ (s .. (s + n - 1))
        BY <1>1, <1>2, <3>3
      <3> HIDE DEF n
      <3>7. unsent' = (s + n) .. (FileLen - 1)
        BY <1>4, <3>6, <3>5, Bounds DEF n
      <3> QED
        BY <1>4, <3>3, <3>5, <3>7, Bounds DEF n
    <2> QED
      BY <1>4, <2>1, <2>2
  <1>7. Answering(m + 1)'
    <2>1. ASSUME NEW j \in 1..(m + 1) PROVE answer'[posted[j]].filled
      <3>1. CASE j = m + 1
        BY <1>2, <1>3, <1>5, <3>1
      <3>2. CASE j # m + 1
        <4>1. j \in 1..m /\ j \in 1..L
          BY <1>4, <3>2
        <4> QED
          BY <1>1, <1>3, <1>5, <3>2, <4>1 DEF Answering
      <3> QED
        BY <3>1, <3>2
    <2>2. ASSUME NEW j \in (m + 2)..L PROVE ~answer'[posted[j]].filled
      <3>1. j \in (m + 1)..L /\ j \in 1..L /\ j # m + 1
        BY <1>4
      <3> QED
        BY <1>1, <1>3, <1>5, <3>1 DEF Answering
    <2>3. (m + 1) + 1 = m + 2
      OBVIOUS
    <2> QED
      BY <1>2, <2>1, <2>2, <2>3 DEF Answering
  <1>8. n <= BlockSize /\ Blocks(L - m) = Blocks(L - (m + 1)) + BlockSize
        /\ Blocks(L - (m + 1)) \in Nat /\ end_offset \in Int
    <2>1. L - (m + 1) \in Nat /\ (L - (m + 1)) + 1 = L - m
      BY <1>3, <1>4
    <2>2. n <= BlockSize
      <3>1. n > 0 => n <= asked[x]
        BY <1>2
      <3>2. asked[x] <= BlockSize /\ asked[x] \in Int
        BY <1>4 DEF OInv, AskedSmall, TypeCounts
      <3> QED
        BY <1>4, <3>1, <3>2, Bounds
    <2>3. end_offset \in Int
      BY <1>0, Posted DEF NoEnd
    <2> HIDE DEF L
    <2>4. Blocks((L - (m + 1)) + 1) = Blocks(L - (m + 1)) + BlockSize
      BY <2>1, BlockArithmetic
    <2> QED
      BY <2>1, <2>2, <2>3, <2>4, BlockArithmetic
  <1>9. Within(m + 1, s + n)'
    <2>1. CASE s = FileLen
      <3>1. s + n = FileLen
        BY <1>4, <1>6, <2>1, Bounds
      <3> QED
        BY <1>1, <1>2, <2>1, <3>1 DEF Within
    <2>2. CASE s # FileLen
      <3>1. s + Blocks(L - m) <= end_offset
        BY <1>1, <2>2 DEF Within
      <3>2. (s + n) + Blocks(L - (m + 1)) <= end_offset /\ s + n <= end_offset
        BY <1>4, <1>8, <3>1, Bounds, SMTT(30)
      <3> QED
        BY <1>2, <3>2 DEF Within
    <2> QED
      BY <2>1, <2>2
  <1>10. ASSUME s + n < FileLen, NEW q \in Nat, Aligned(m, s, q)
         PROVE  Aligned(m + 1, s + n, q)'
    <2>1. Gapless(q)'
      BY <1>2, <1>10 DEF Aligned, Gapless, Block, Pending, lists
    <2>2. Asked'
      BY <1>2, <1>10 DEF Aligned, Asked, Reads
    <2>3. asked[x] = BlockSize
      BY <1>10 DEF Aligned, Asked
    <2>4. n = BlockSize \/ (n = 0 /\ a.result # OK)
      <3>1. CASE n = 0
        <4>1. s \in unsent
          BY <1>1, <1>10, <3>1, Bounds
        <4> QED
          BY <1>2, <3>1, <4>1
      <3>2. CASE n > 0
        <4>1. a.offset + n = s + n /\ s + n # FileLen
          BY <1>6, <1>10, <3>2, Bounds
        <4> QED
          BY <1>2, <1>4, <2>3, <3>2, <4>1, Bounds
      <3> QED
        BY <1>4, <3>1, <3>2
    <2>5. q + m \in Nat /\ (q + m) + 1 = q + (m + 1) /\ Blocks(q + m) \in Nat
          /\ Blocks(q + (m + 1)) = Blocks(q + m) + BlockSize
      <3>1. q + m \in Nat /\ (q + m) + 1 = q + (m + 1)
        BY <1>4
      <3> QED
        BY <3>1, BlockArithmetic
    <2>6. \A j \in 1..m : Good(j)' <=> Good(j)
      <3>1. \A j \in 1..m : \A i \in 1..j : i \in 1..L /\ i # k
        BY <1>3, <1>4
      <3> QED
        BY <1>2, <1>5, <3>1 DEF Good
    <2>7. Good(m + 1)' => Good(m) /\ a.result = OK
      <3>1. \A i \in 1..m : i \in 1..(m + 1) /\ i \in 1..L /\ i # k
        BY <1>3, <1>4
      <3>2. m + 1 \in 1..(m + 1)
        OBVIOUS
      <3> QED
        BY <1>2, <1>3, <1>5, <3>1, <3>2 DEF Good
    <2>8. s + n <= Blocks(q + (m + 1))
      BY <1>10, <2>4, <2>5, Bounds DEF Aligned, Served
    <2>9. Good(m + 1)' => s + n = Blocks(q + (m + 1))
      BY <1>10, <2>4, <2>5, <2>7, Bounds DEF Aligned, Served
    <2>10. ASSUME NEW j \in 1..(m + 1), Good(j)'
           PROVE  /\ answer'[posted[j]].nbytes = BlockSize
                  /\ answer'[posted[j]].offset = Blocks(q + (j - 1))
      <3>1. CASE j = m + 1
        <4>1. Good(m) /\ a.result = OK
          BY <2>7, <2>10, <3>1
        <4>2. n = BlockSize /\ n > 0 /\ j - 1 = m
          BY <2>4, <3>1, <4>1, Bounds
        <4>3. a.offset = Blocks(q + m)
          BY <1>6, <1>10, <4>1, <4>2 DEF Aligned, Served
        <4> QED
          BY <1>3, <1>5, <3>1, <4>2, <4>3
      <3>2. CASE j # m + 1
        <4>1. j \in 1..m /\ j \in 1..L /\ j # k
          BY <1>3, <1>4, <3>2
        <4> QED
          BY <1>5, <1>10, <2>6, <2>10, <4>1 DEF Aligned, Served
      <3> QED
        BY <3>1, <3>2
    <2>11. Blocks(q + Len(posted')) <= end_offset'
      BY <1>2, <1>10 DEF Aligned, Served
    <2> QED
      BY <1>2, <2>1, <2>2, <2>8, <2>9, <2>10, <2>11 DEF Aligned, Served
  <1>11. result' = OK /\ ~eof' /\ s + n < FileLen => \E q \in Nat : Aligned(m + 1, s + n, q)'
    BY <1>1, <1>2, <1>4, <1>10, Bounds
  <1>12. m + 1 \in 0..Len(posted')
    BY <1>2, <1>3, <1>4
  <1> QED
    BY <1>6, <1>7, <1>9, <1>11, <1>12 DEF InOrder

\* A server that answers in order runs the callback of the first read: the others
\* and their answers move up one place.
LEMMA FirstRemoved ==
  ASSUME DataInv, Ordered, NEW k \in Reads, NEW bad \in BOOLEAN, CallbackStart(k, bad)
  PROVE  /\ k = 1
         /\ Len(posted) \in Nat \ {0}
         /\ Len(posted') = Len(posted) - 1
         /\ \A i \in 1..(Len(posted) - 1) :
              /\ posted'[i] = posted[i + 1]
              /\ posted[i + 1] \in Buffer
              /\ answer'[posted[i + 1]] = answer[posted[i + 1]]
         /\ answer[posted[1]].filled
         /\ UNCHANGED <<offset, end_offset, pc, asked, unsent, bytes_registered>>
  <1>1. k = 1 /\ answer[posted[k]].filled /\ posted' = RemoveAt(posted, k)
        /\ UNCHANGED <<offset, end_offset, pc, asked, unsent, bytes_registered>>
    BY DEF CallbackStart, locals
  <1>2. /\ Len(posted) \in Nat \ {0}
        /\ DOMAIN posted = 1..Len(posted)
        /\ \A j \in 1..Len(posted) : posted[j] \in Buffer
    BY <1>1, Posted DEF Reads
  <1>3. posted \in Seq(Buffer) /\ answer \in [Buffer -> AnswerRecord]
    BY DEF DataInv, TypeData
  <1>4. \A i, j \in DOMAIN posted : posted[i] = posted[j] => i = j
    BY DEF DataInv, Owners
  <1>5. k \in 1..Len(posted)
    BY DEF Reads
  <1>6. Len(RemoveAt(posted, k)) = Len(posted) - 1
    BY <1>3, <1>4, <1>5, Removed
  <1>7. \A i \in k..(Len(posted) - 1) : RemoveAt(posted, k)[i] = posted[i + 1]
    BY <1>3, <1>4, <1>5, Removed
  <1>8. ASSUME NEW i \in 1..(Len(posted) - 1)
        PROVE  /\ posted'[i] = posted[i + 1]
               /\ posted[i + 1] \in Buffer
               /\ answer'[posted[i + 1]] = answer[posted[i + 1]]
    <2>1. i + 1 \in 1..Len(posted) /\ i + 1 # k
      BY <1>1, <1>2
    <2>2. posted[i + 1] # posted[k]
      BY <1>2, <1>4, <1>5, <2>1
    <2>3. answer'[posted[i + 1]] = answer[posted[i + 1]]
      BY <1>2, <1>3, <2>1, <2>2 DEF CallbackStart
    <2> QED
      BY <1>1, <1>2, <1>7, <2>1, <2>3
  <1> QED
    BY <1>1, <1>2, <1>6, <1>8

\* The block of the first answer joins the pending ones, right after the last.
LEMMA DataGapless ==
  ASSUME DataInv, Ordered, NEW k \in Reads, CallbackData(k),
         NEW m \in Nat \ {0}, NEW s, NEW q \in Nat, Aligned(m, s, q)
  PROVE  Gapless(q + 1)'
  <1>1. PICK b : b = posted[k]
    OBVIOUS
  <1>2. PICK a : a = answer[b]
    OBVIOUS
  <1>3. k = 1 /\ offset' = offset
    BY FirstRemoved DEF CallbackData
  <1>4. a.result = OK
    <2>1. FirstError(result, a.result) = OK
      BY <1>1, <1>2 DEF CallbackData, CallbackStart
    <2> QED
      BY <2>1 DEF FirstError
  <1>5. a.nbytes = BlockSize /\ a.offset = Blocks(q)
    <2>1. 1 \in 1..m /\ Good(1) /\ q + (1 - 1) = q
      <3>1. \A i \in 1..1 : i = 1
        OBVIOUS
      <3> QED
        BY <1>1, <1>2, <1>3, <1>4, <3>1 DEF Good
    <2> QED
      BY <1>1, <1>2, <1>3, <2>1 DEF Aligned, Served
  <1>6. Pending' = Pending \cup {b}
    BY <1>1, PendingGrows
  <1>7. b \in Buffer /\ b \notin Pending
    BY <1>1, PostedBuffer
  <1>8. /\ buf'[b].data = Blocks(q) /\ buf'[b].buffer_used = BlockSize
        /\ \A x \in Buffer \ {b} : buf'[x] = buf[x]
    BY <1>1, <1>2, <1>5, <1>7 DEF CallbackData, DataInv, TypeData
  <1>9. /\ Blocks(q) \in Nat /\ Blocks(q + 1) = Blocks(q) + BlockSize
        /\ offset \in Nat
    BY BlockArithmetic DEF DataInv, TypeData
  <1>10. Pending \subseteq Buffer
         /\ \A x \in Pending : buf[x].data \in Nat /\ buf[x].buffer_used \in Int
    BY PendingBlocks DEF BufferRecord
  <1>11. offset' <= Blocks(q + 1)
    BY <1>3, <1>9, Bounds DEF Aligned, Gapless
  <1>12. ASSUME NEW o \in offset' .. (Blocks(q + 1) - 1)
         PROVE  \E x \in Pending' :
                  o \in buf'[x].data .. (buf'[x].data + buf'[x].buffer_used - 1)
    <2>1. CASE o < Blocks(q)
      <3>1. o \in offset .. (Blocks(q) - 1)
        BY <1>3, <1>9, <2>1
      <3>2. PICK x \in Pending : o \in Block(x)
        BY <3>1 DEF Aligned, Gapless
      <3>3. o \in buf[x].data .. (buf[x].data + buf[x].buffer_used - 1)
        BY <3>2 DEF Block
      <3>4. x \in Pending' /\ buf'[x] = buf[x]
        BY <1>6, <1>7, <1>8, <1>10
      <3> QED
        BY <3>3, <3>4
    <2>2. CASE o >= Blocks(q)
      <3>1. o \in Blocks(q) .. (Blocks(q) + BlockSize - 1)
        BY <1>3, <1>9, <2>2, Bounds
      <3> QED
        BY <1>6, <1>8, <3>1
    <2>3. o < Blocks(q) \/ o >= Blocks(q)
      BY <1>3, <1>9, Bounds
    <2> QED
      BY <2>1, <2>2, <2>3
  <1>13. ASSUME NEW x \in Pending' PROVE buf'[x].data + buf'[x].buffer_used <= Blocks(q + 1)
    <2>1. CASE x = b
      BY <1>8, <1>9, <2>1, Bounds
    <2>2. CASE x # b
      <3>1. buf[x].data + buf[x].buffer_used <= Blocks(q)
        BY <1>6, <2>2 DEF Aligned, Gapless
      <3>2. buf[x].data \in Nat /\ buf[x].buffer_used \in Int /\ buf'[x] = buf[x]
        BY <1>6, <1>8, <1>10, <2>2
      <3> QED
        BY <1>9, <3>1, <3>2, Bounds
    <2> QED
      BY <2>1, <2>2
  <1> QED
    BY <1>11, <1>12, <1>13 DEF Gapless, Blocks, Block

LEMMA CallbackOrder ==
  ASSUME OInv, Ordered, ~EmptyReads, NEW k \in Reads,
         CallbackBad(k) \/ CallbackEmpty(k) \/ CallbackData(k)
  PROVE  InOrder'
  <1>0. DataInv
    BY DEF OInv, IInv
  <1>1. PICK m \in 0..Len(posted), s \in 0..FileLen :
          /\ Answering(m)
          /\ unsent = s .. (FileLen - 1)
          /\ Within(m, s)
          /\ result = OK /\ ~eof /\ s < FileLen => \E q \in Nat : Aligned(m, s, q)
    BY DEF OInv, InOrder
  <1>2. PICK bad \in BOOLEAN : CallbackStart(k, bad)
    BY DEF CallbackBad, CallbackEmpty, CallbackData
  <1>3. /\ k = 1
        /\ Len(posted) \in Nat \ {0}
        /\ Len(posted') = Len(posted) - 1
        /\ \A i \in 1..(Len(posted) - 1) :
             /\ posted'[i] = posted[i + 1]
             /\ posted[i + 1] \in Buffer
             /\ answer'[posted[i + 1]] = answer[posted[i + 1]]
        /\ answer[posted[1]].filled
        /\ UNCHANGED <<offset, end_offset, pc, asked, unsent, bytes_registered>>
    <2>1. CASE bad = TRUE
      BY <1>0, <1>2, <2>1, FirstRemoved
    <2>2. CASE bad = FALSE
      BY <1>0, <1>2, <2>2, FirstRemoved
    <2> QED
      BY <2>1, <2>2
  <1> DEFINE L == Len(posted)
  <1>4. m >= 1
    BY <1>1, <1>3 DEF Answering
  <1>5. Answering(m - 1)'
    <2>1. ASSUME NEW i \in 1..(m - 1) PROVE answer'[posted'[i]].filled
      <3>1. i \in 1..(L - 1) /\ i + 1 \in 1..m
        BY <1>3
      <3> QED
        BY <1>1, <1>3, <3>1 DEF Answering
    <2>2. ASSUME NEW i \in m..(L - 1) PROVE ~answer'[posted'[i]].filled
      <3>1. i \in 1..(L - 1) /\ i + 1 \in (m + 1)..L
        BY <1>3, <1>4
      <3> QED
        BY <1>1, <1>3, <3>1 DEF Answering
    <2>3. (m - 1) + 1 = m
      OBVIOUS
    <2> QED
      BY <1>3, <2>1, <2>2, <2>3 DEF Answering
  <1>6. Within(m - 1, s)'
    <2>1. Len(posted') - (m - 1) = L - m
      BY <1>3
    <2> QED
      BY <1>1, <1>3, <2>1 DEF Within
  <1>7. ASSUME result' = OK, ~eof', s < FileLen
        PROVE  \E q \in Nat : Aligned(m - 1, s, q)'
    <2>1. CallbackData(k)
      <3>1. ~CallbackBad(k)
        BY <1>7 DEF CallbackBad, CallbackStart
      <3>2. ~CallbackEmpty(k)
        BY <1>0, <1>7, EmptyIsEof DEF CallbackEmpty, CallbackStart
      <3> QED
        BY <3>1, <3>2
    <2>2. result = OK /\ answer[posted[1]].result = OK /\ ~eof
      <3>1. FirstError(result, answer[posted[1]].result) = OK /\ ~eof
        BY <1>2, <1>3, <1>7 DEF CallbackStart
      <3> QED
        BY <3>1 DEF FirstError
    <2>3. PICK q \in Nat : Aligned(m, s, q)
      BY <1>1, <1>7, <2>2
    <2>4. Gapless(q + 1)'
      BY <1>0, <1>4, <2>1, <2>3, DataGapless
    <2>5. Asked'
      <3>1. ASSUME NEW i \in 1..(L - 1) PROVE asked'[posted'[i]] = BlockSize
        <4>1. i + 1 \in 1..L
          BY <1>3
        <4> QED
          BY <1>3, <2>3, <4>1 DEF Aligned, Asked, Reads
      <3>2. pc' # "register"
        BY <1>2 DEF CallbackStart, Locked
      <3> QED
        BY <1>3, <3>1, <3>2 DEF Asked, Reads
    <2>6. Served(m - 1, s, q + 1)'
      <3>1. /\ (q + 1) + (L - 1) = q + L
            /\ (q + 1) + (m - 1) = q + m
        BY <1>3
      <3>2. \A j \in 1..(m - 1) : Good(j)' => Good(j + 1)
        <4> SUFFICES ASSUME NEW j \in 1..(m - 1), Good(j)', NEW i \in 1..(j + 1)
                     PROVE  answer[posted[i]].result = OK
          BY DEF Good
        <4>1. CASE i = 1
          BY <2>2, <4>1
        <4>2. CASE i # 1
          <5>1. i - 1 \in 1..j /\ i - 1 \in 1..(L - 1) /\ (i - 1) + 1 = i
            BY <1>3, <4>2
          <5>2. answer'[posted'[i - 1]].result = OK
            BY <5>1 DEF Good
          <5> QED
            BY <1>3, <5>1, <5>2
        <4> QED
          BY <4>1, <4>2
      <3>3. Good(m - 1)' => Good(m)
        <4> SUFFICES ASSUME Good(m - 1)', NEW i \in 1..m
                     PROVE  answer[posted[i]].result = OK
          BY DEF Good
        <4>1. CASE i = 1
          BY <2>2, <4>1
        <4>2. CASE i # 1
          <5>1. i - 1 \in 1..(m - 1) /\ i - 1 \in 1..(L - 1) /\ (i - 1) + 1 = i
            BY <1>3, <4>2
          <5>2. answer'[posted'[i - 1]].result = OK
            BY <5>1 DEF Good
          <5> QED
            BY <1>3, <5>1, <5>2
        <4> QED
          BY <4>1, <4>2
      <3>4. Blocks((q + 1) + Len(posted')) <= end_offset'
        BY <1>3, <2>3, <3>1 DEF Aligned, Served
      <3>5. s <= Blocks((q + 1) + (m - 1))
        BY <2>3, <3>1 DEF Aligned, Served
      <3>6. Good(m - 1)' => s = Blocks((q + 1) + (m - 1))
        BY <2>3, <3>1, <3>3 DEF Aligned, Served
      <3>7. ASSUME NEW j \in 1..(m - 1), Good(j)'
            PROVE  /\ answer'[posted'[j]].nbytes = BlockSize
                   /\ answer'[posted'[j]].offset = Blocks((q + 1) + (j - 1))
        <4>1. j + 1 \in 1..m /\ j \in 1..(L - 1) /\ q + ((j + 1) - 1) = (q + 1) + (j - 1)
          BY <1>3
        <4>2. Good(j + 1)
          BY <3>2, <3>7
        <4>3. /\ answer[posted[j + 1]].nbytes = BlockSize
              /\ answer[posted[j + 1]].offset = Blocks(q + ((j + 1) - 1))
          BY <2>3, <4>1, <4>2 DEF Aligned, Served
        <4>4. answer'[posted'[j]] = answer[posted[j + 1]]
          BY <1>3, <4>1
        <4> QED
          BY <4>1, <4>3, <4>4
      <3> QED
        BY <3>4, <3>5, <3>6, <3>7 DEF Served, Blocks
    <2>7. Aligned(m - 1, s, q + 1)'
      BY <2>4, <2>5, <2>6 DEF Aligned
    <2> QED
      BY <2>7
  <1>8. m - 1 \in 0..Len(posted')
    BY <1>3, <1>4
  <1> QED
    BY <1>1, <1>3, <1>5, <1>6, <1>7, <1>8 DEF InOrder

----------------------------------------------------------------------------
\* What the thread counts as available is a block for each outstanding read.
LEMMA Available == ASSUME OInv PROVE bytes_available = Blocks(Len(posted))
  <1>1. /\ registered_buffers \subseteq Buffer
        /\ IsFiniteSet(registered_buffers)
        /\ Cardinality(registered_buffers) = Len(posted)
    BY Posted DEF OInv, IInv, DataInv, TypeData, Owners
  <1> DEFINE f == [b \in Buffer |-> BlockSize - buf[b].buffer_used]
  <1>2. PICK c \in Int : c = BlockSize
    BY Bounds
  <1>3. \A b \in registered_buffers : f[b] = c
    BY <1>1, <1>2 DEF OInv, Empties
  <1> HIDE DEF f
  <1>4. FoldFunctionOnSet(+, 0, f, registered_buffers) = c * Cardinality(registered_buffers)
    BY <1>1, <1>3, SumOfConstant
  <1>5. bytes_available = c * Cardinality(registered_buffers)
    BY <1>4 DEF f, bytes_available
  <1> QED
    BY <1>1, <1>2, <1>5 DEF Blocks

LEMMA EndConstant == ASSUME [Next]_vars PROVE end_offset' = end_offset
  <1>1. CASE CurlThread \/ CurlFaults
    BY <1>1 DEF CurlThread, CurlFaults, WriteEnter, WriteReady, WriteNotReady, RegisterEnough,
       RegisterRead, Wake, Copy, CopyDone, Cleanup, RegisterNoMemory, RegisterFail,
       WakeSpurious, CurlStop
  <1>2. CASE Server \/ ServerFaults
    BY <1>2 DEF Server, ServerFaults, ServerData, ServerNothing, ServerError, progvars
  <1>3. CASE Callback
    BY <1>3 DEF Callback, CallbackBad, CallbackEmpty, CallbackData, CallbackStart
  <1>4. CASE Finished \/ UNCHANGED vars
    BY <1>4 DEF Finished, vars
  <1> QED
    BY <1>1, <1>2, <1>3, <1>4 DEF Next

LEMMA InOrderStep ==
  ASSUME OInv, ~EmptyReads, WholeBlocks, [Next]_vars, Ordered PROVE InOrder'
  <1> USE DEF flags, lists, locals, curlvars, servervars
  <1>0. InOrder
    BY DEF OInv
  <1>1. CASE CurlThread
    <2>1. CASE RegisterRead
      BY <2>1, RegisterOrder
    <2>2. CASE Copy
      BY <2>2, CopyOrder
    <2>3. CASE WriteNotReady
      <3>1. bytes_registered' = Blocks(Len(posted)) \/ pc' # "register"
        BY <2>3, Available DEF WriteNotReady, RegisterReturn, Return
      <3>2. result' = OK => result = OK
        BY <2>3 DEF WriteNotReady, RegisterReturn, FirstError
      <3> QED
        BY <1>0, <2>3, <3>1, <3>2, QuietOrder DEF WriteNotReady
    <2>4. CASE WriteEnter
      <3>1. eof => eof'
        BY <2>4 DEF WriteEnter, OInv, IInv, TypeFlags
      <3>2. pc' # "register"
        BY <2>4 DEF WriteEnter, Return
      <3> QED
        BY <1>0, <2>4, <3>1, <3>2, QuietOrder DEF WriteEnter
    <2>5. CASE RegisterEnough
      <3>1. result' = result /\ pc' # "register"
        BY <2>5 DEF RegisterEnough, RegisterReturn, FirstError, Return
      <3> QED
        BY <1>0, <2>5, <3>1, QuietOrder DEF RegisterEnough
    <2>6. CASE WriteReady \/ Wake \/ CopyDone \/ Cleanup
      <3>1. pc' # "register"
        BY <2>6 DEF WriteReady, Wake, CopyDone, Cleanup, Return
      <3>2. UNCHANGED <<posted, asked, answer, unsent, offset, end_offset, pending_buffers,
                        result, eof, buf>>
        BY <2>6 DEF WriteReady, Wake, CopyDone, Cleanup
      <3> QED
        BY <1>0, <3>1, <3>2, QuietOrder
    <2> QED
      BY <1>1, <2>1, <2>2, <2>3, <2>4, <2>5, <2>6 DEF CurlThread
  <1>2. CASE CurlFaults
    <2>1. CASE RegisterNoMemory
      <3>1. result' # OK
        BY <2>1 DEF RegisterNoMemory, RegisterReturn, FirstError, OK
      <3> QED
        BY <1>0, <2>1, <3>1, QuietOrder DEF RegisterNoMemory
    <2>2. CASE RegisterFail
      <3>1. result' # OK
        BY <2>2 DEF RegisterFail, RegisterReturn, FirstError, OK
      <3> QED
        BY <1>0, <2>2, <3>1, QuietOrder DEF RegisterFail
    <2>3. CASE WakeSpurious \/ CurlStop
      <3>1. pc' # "register"
        BY <2>3 DEF WakeSpurious, CurlStop
      <3>2. UNCHANGED <<posted, asked, answer, unsent, offset, end_offset, pending_buffers,
                        result, eof, buf>>
        BY <2>3 DEF WakeSpurious, CurlStop
      <3> QED
        BY <1>0, <3>1, <3>2, QuietOrder
    <2> QED
      BY <1>2, <2>1, <2>2, <2>3 DEF CurlFaults
  <1>3. CASE Server \/ ServerFaults
    BY <1>3, AnswerOrder DEF Server, ServerFaults
  <1>4. CASE Callback
    BY <1>4, CallbackOrder DEF Callback
  <1>5. CASE Finished \/ UNCHANGED vars
    <2>1. UNCHANGED vars
      BY <1>5 DEF Finished
    <2> QED
      BY <1>0, <2>1, QuietOrder DEF vars
  <1> QED
    BY <1>1, <1>2, <1>3, <1>4, <1>5 DEF Next

LEMMA AskedSmallStep == ASSUME OInv, [Next]_vars PROVE AskedSmall'
  <1>0. asked \in [Buffer -> Int] /\ \A b \in Buffer : asked[b] <= BlockSize
    BY DEF OInv, TypeCounts, AskedSmall
  <1>1. CASE RegisterRead
    <2>1. PICK b \in obtainable : asked' = [asked EXCEPT ![b] = this_read]
      BY <1>1 DEF RegisterRead
    <2>2. this_read <= BlockSize
      <3>1. CASE end_offset # NoEnd /\ 0 <= remaining /\ remaining < BlockSize
        <4>1. remaining \in Int
          <5>1. offset \in Nat /\ end_offset \in Nat \cup {NoEnd} /\ bytes_registered \in Int
            BY DEF OInv, IInv, DataInv, TypeData, TypeCounts
          <5> QED
            BY <5>1 DEF remaining, NoEnd
        <4> QED
          BY <3>1, <4>1, Bounds DEF this_read
      <3>2. CASE ~(end_offset # NoEnd /\ 0 <= remaining /\ remaining < BlockSize)
        BY <3>2, Bounds DEF this_read
      <3> QED
        BY <3>1, <3>2
    <2> QED
      BY <1>0, <2>1, <2>2 DEF AskedSmall
  <1>2. CASE ~RegisterRead
    <2>1. asked' = asked
      <3>1. CASE CurlThread \/ CurlFaults
        BY <1>2, <3>1 DEF CurlThread, CurlFaults, WriteEnter, WriteReady, WriteNotReady,
           RegisterEnough, Wake, Copy, CopyDone, Cleanup, RegisterNoMemory, RegisterFail,
           WakeSpurious, CurlStop, servervars
      <3>2. CASE Server \/ ServerFaults
        BY <3>2 DEF Server, ServerFaults, ServerData, ServerNothing, ServerError
      <3>3. CASE Callback
        BY <3>3 DEF Callback, CallbackBad, CallbackEmpty, CallbackData, CallbackStart
      <3>4. CASE Finished \/ UNCHANGED vars
        BY <3>4 DEF Finished, vars, servervars
      <3> QED
        BY <3>1, <3>2, <3>3, <3>4 DEF Next
    <2> QED
      BY <1>0, <2>1 DEF AskedSmall
  <1> QED
    BY <1>1, <1>2

\* The callback that ends a section has, or follows, the last of its bytes.
LEMMA SectionEnds ==
  ASSUME OInv, ~EmptyReads, NEW k \in Reads, CallbackStart(k, FALSE),
         NEW b, b = posted[k], at_end(answer[b])
  PROVE  unsent = {} \/ (Ordered /\ \A o \in unsent : end_offset <= o)
  <1>0. DataInv
    BY DEF OInv, IInv
  <1>1. /\ b \in Buffer
        /\ answer[b].filled
        /\ answer[b].offset \in Nat
        /\ answer[b].nbytes \in Nat
    BY <1>0, PostedBuffer DEF CallbackStart, DataInv, TypeData, AnswerRecord
  <1>2. answer[b].result = OK
    BY <1>0, CallbackLists DEF CallbackStart, FirstError, OK
  <1>3. CASE answer[b].nbytes = 0
    BY <1>0, <1>1, <1>2, <1>3 DEF DataInv, Answers
  <1>4. CASE answer[b].nbytes > 0
    <2> DEFINE x == answer[b].offset
               n == answer[b].nbytes
    <2>1. end_offset = x + n /\ end_offset \in Nat /\ n > 0 /\ x \in Nat /\ n \in Nat
      BY <1>1, <1>4 DEF at_end
    <2>2. Ordered
      BY <2>1 DEF Ordered, NoEnd
    <2>3. end_offset - 1 \in x .. (x + n - 1)
      BY <2>1
    <2>4. end_offset - 1 < FileLen /\ end_offset - 1 \notin unsent
      BY <1>0, <1>1, <2>3 DEF DataInv, Apart, Answered
    <2>5. PICK s \in 0..FileLen : unsent = s .. (FileLen - 1)
      BY <2>2 DEF OInv, InOrder
    <2>6. s > end_offset - 1
      BY <2>1, <2>4, <2>5, Bounds
    <2> QED
      BY <2>1, <2>2, <2>5, <2>6, Bounds
  <1> QED
    BY <1>1, <1>3, <1>4

LEMMA EndedStep == ASSUME OInv, ~EmptyReads, [Next]_vars PROVE Ended'
  <1> USE DEF flags
  <1>0. Ended /\ DataInv /\ end_offset' = end_offset
    BY EndConstant DEF OInv, IInv
  <1>1. CASE eof' = eof /\ unsent' \subseteq unsent /\ (result' = OK => result = OK)
    BY <1>0, <1>1 DEF Ended, Ordered
  <1>2. CASE WriteEnter
    <2>1. CASE offset = end_offset
      <3>1. unsent' = unsent
        BY <1>2 DEF WriteEnter, servervars
      <3>2. \A o \in unsent : end_offset <= o
        BY <1>0, <2>1 DEF DataInv, Apart
      <3>3. end_offset # NoEnd
        BY <1>0, <2>1 DEF DataInv, TypeData, NoEnd
      <3> QED
        BY <1>0, <3>1, <3>2, <3>3 DEF Ended, Ordered
    <2>2. CASE offset # end_offset
      BY <1>1, <1>2, <2>2 DEF WriteEnter, servervars
    <2> QED
      BY <2>1, <2>2
  <1>3. CASE CurlThread /\ ~WriteEnter
    BY <1>1, <1>3 DEF CurlThread, WriteReady, WriteNotReady, RegisterEnough,
       RegisterRead, Wake, Copy, CopyDone, Cleanup, servervars, RegisterReturn, FirstError
  <1>4. CASE CurlFaults
    BY <1>1, <1>4 DEF CurlFaults, RegisterNoMemory, RegisterFail, WakeSpurious, CurlStop,
       servervars, RegisterReturn, FirstError
  <1>5. CASE Server \/ ServerFaults
    BY <1>1, <1>5 DEF Server, ServerFaults, ServerData, ServerNothing, ServerError, progvars
  <1>6. CASE Callback
    <2>1. PICK k \in Reads : CallbackBad(k) \/ CallbackEmpty(k) \/ CallbackData(k)
      BY <1>6 DEF Callback
    <2>2. CASE CallbackStart(k, TRUE)
      BY <2>2 DEF CallbackStart, Ended
    <2>3. CASE CallbackStart(k, FALSE)
      <3>1. PICK b : b = posted[k]
        OBVIOUS
      <3>2. /\ b \in Buffer
            /\ eof' = (eof \/ answer[b].eof \/ at_end(answer[b]))
            /\ unsent' = unsent
            /\ result' = OK => result = OK
        BY <1>0, <2>3, <3>1, CallbackLists, PostedBuffer DEF CallbackStart
      <3>3. answer[b].eof => unsent = {}
        BY <1>0, <3>2 DEF DataInv, Answers
      <3>4. at_end(answer[b]) => unsent = {} \/ (Ordered /\ \A o \in unsent : end_offset <= o)
        BY <2>3, <3>1, SectionEnds
      <3> QED
        BY <1>0, <3>2, <3>3, <3>4 DEF Ended, Ordered
    <2> QED
      BY <2>1, <2>2, <2>3 DEF CallbackBad, CallbackEmpty, CallbackData
  <1>7. CASE Finished \/ UNCHANGED vars
    BY <1>1, <1>7 DEF Finished, vars, servervars
  <1> QED
    BY <1>2, <1>3, <1>4, <1>5, <1>6, <1>7 DEF Next

LEMMA OrderHolds == ~EmptyReads /\ WholeBlocks => (Spec => []OInv)
  <1> SUFFICES ASSUME ~EmptyReads, WholeBlocks PROVE Spec => []OInv
    OBVIOUS
  <1>1. Init => OInv
    <2> SUFFICES ASSUME Init PROVE OInv
      OBVIOUS
    <2>1. IInv /\ Empties
      BY InitIInv, InitEmpties
    <2>2. TypeCounts /\ AskedSmall /\ Ended
      BY Bounds DEF Init, TypeCounts, AskedSmall, Ended
    <2>3. Ordered => InOrder
      BY <2>1, InitInOrder DEF Ordered, IInv, DataInv, TypeData
    <2>4. end_offset \in Lengths
      BY DEF Init
    <2> QED
      BY <2>1, <2>2, <2>3, <2>4 DEF OInv
  <1>2. OInv /\ [Next]_vars => OInv'
    <2> SUFFICES ASSUME OInv, [Next]_vars PROVE OInv'
      OBVIOUS
    <2>1. IInv' /\ Empties' /\ TypeCounts'
      BY NextIInv, EmptiesStep, CountsStep DEF OInv, IInv
    <2>2. Ordered' => InOrder'
      BY EndConstant, InOrderStep DEF Ordered
    <2>3. AskedSmall' /\ Ended' /\ end_offset' \in Lengths
      BY AskedSmallStep, EndedStep, EndConstant DEF OInv
    <2> QED
      BY <2>1, <2>2, <2>3 DEF OInv
  <1> QED
    BY <1>1, <1>2, PTL DEF Spec

\* An upload of `length` bytes, a whole number of blocks, leaves the rest of the file
\* to the next request, however many reads are outstanding and however it fails.
THEOREM SectionUntouchedHolds == ~EmptyReads /\ WholeBlocks => (Spec => []SectionUntouched)
  <1> SUFFICES ASSUME ~EmptyReads, WholeBlocks PROVE Spec => []SectionUntouched
    OBVIOUS
  <1>1. OInv => SectionUntouched
    <2> SUFFICES ASSUME OInv, Ordered PROVE end_offset .. (FileLen - 1) \subseteq unsent
      BY DEF SectionUntouched
    <2>1. PICK m \in 0..Len(posted), s \in 0..FileLen :
            unsent = s .. (FileLen - 1) /\ Within(m, s)
      BY DEF OInv, InOrder
    <2>2. end_offset \in Nat /\ Len(posted) - m \in Nat
      BY Posted DEF OInv, IInv, Ordered
    <2>3. \/ s = FileLen /\ FileLen <= end_offset
          \/ s <= end_offset
      <3>1. Blocks(Len(posted) - m) \in Nat
        BY <2>2, BlockArithmetic
      <3> QED
        BY <2>1, <2>2, <3>1 DEF Within
    <2> QED
      BY <2>1, <2>2, <2>3, Bounds
  <1> QED
    BY <1>1, OrderHolds, PTL

----------------------------------------------------------------------------
\* The body is as long as the offset, and never longer than the section.
BodyBounded ==
  /\ Len(body) = offset /\ offset \in Nat
  /\ Section \in Nat /\ offset <= Section
  /\ faults \in Nat

LEMMA BodySize == OInv /\ SectionUntouched => BodyBounded
  <1> SUFFICES ASSUME OInv, SectionUntouched PROVE BodyBounded
    OBVIOUS
  <1>1. offset \in Nat /\ end_offset \in Nat \cup {NoEnd} /\ faults \in Nat
    BY Bounds DEF OInv, IInv, DataInv, TypeData, TypeControl
  <1>2. Len(body) = offset
    <2>1. /\ DOMAIN body = 1..Len(body) /\ Len(body) \in Nat
          /\ body = [k \in 1..offset |-> k - 1]
      BY LenProperties DEF OInv, IInv, DataInv, BodyIsPrefix
    <2>2. 1..Len(body) = 1..offset
      BY <2>1
    <2>3. Cardinality(1..Len(body)) = Len(body) /\ Cardinality(1..offset) = offset
      BY <1>1, <2>1, FS_Interval
    <2> QED
      BY <2>2, <2>3
  <1>3. Section \in Nat /\ offset <= Section
    <2>1. offset <= FileLen /\ \A o \in unsent : offset <= o
      BY DEF OInv, IInv, DataInv, Apart
    <2>2. CASE Ordered /\ end_offset < FileLen
      <3>1. end_offset \in Nat
        BY <1>1, <2>2 DEF Ordered
      <3>2. end_offset \in unsent
        BY <2>2, <3>1, Bounds DEF SectionUntouched
      <3> QED
        BY <2>1, <2>2, <3>1, <3>2 DEF Section
    <2>3. CASE ~(Ordered /\ end_offset < FileLen)
      BY <2>1, <2>3, Bounds DEF Section
    <2> QED
      BY <2>2, <2>3
  <1> QED
    BY <1>1, <1>2, <1>3 DEF BodyBounded

LEMMA BodySizeNext == OInv' /\ SectionUntouched' => BodyBounded'
  BY BodySize, PTL

\* A call that found the end of the upload with nothing to copy has sent it all.
LEMMA EmptyCallIsEnd ==
  ASSUME OInv, SectionUntouched, pc = "copy", ~CopyNext, buffer_filled = 0
  PROVE  offset = Section
  <1>1. /\ DataInv /\ result = OK
        /\ ~is_transfer_offset_ready
        /\ is_reading_complete
    BY Bounds DEF OInv, IInv, Control, CopyNext
  <1>2. eof /\ registered_buffers = {}
    BY <1>1 DEF is_reading_complete
  <1>3. offset \in Nat /\ Section \in Nat /\ offset <= Section /\ end_offset \in Nat \cup {NoEnd}
    BY <1>1, BodySize DEF BodyBounded, DataInv, TypeData
  <1>4. offset < FileLen => offset \in unsent
    <2> SUFFICES ASSUME offset < FileLen PROVE offset \in unsent
      OBVIOUS
    <2>1. offset \in 0..(FileLen - 1)
      BY <1>3, Bounds
    <2>2. \A b \in Pending : offset \notin Block(b)
      BY <1>1, HeadAtOffset
    <2>3. \A b \in Buffer : Answered(b) = {}
      <3>1. \A b \in Buffer : answer[b] = NoAnswer
        BY <1>1, <1>2 DEF DataInv, Answers
      <3> QED
        BY <3>1 DEF Answered, NoAnswer
    <2>4. ~(offset < offset)
      BY <1>3
    <2> QED
      BY <1>1, <2>1, <2>2, <2>3, <2>4 DEF DataInv, Covered
  <1>5. offset < FileLen => Ordered /\ end_offset <= offset
    BY <1>1, <1>2, <1>4 DEF OInv, Ended
  <1> QED
    BY <1>3, <1>5, Bounds DEF Section, Ordered

\* Every step of the upload is a step of Transfer, or none.
LEMMA UploadStep ==
  ASSUME OInv, OInv', SectionUntouched, SectionUntouched', [Next]_vars
  PROVE  [Upload!Next]_(Upload!vars)
  <1> USE DEF flags, lists, locals, curlvars, servervars
  <1>0. /\ Len(body) = offset /\ offset \in Nat
        /\ Section \in Nat /\ offset <= Section
        /\ Len(body') = offset' /\ offset' \in Nat
        /\ offset' <= Section'
        /\ faults \in Nat /\ faults' \in Nat
    BY BodySize, BodySizeNext DEF BodyBounded
  <1>1. Section' = Section
    BY EndConstant DEF Section, Ordered
  <1>2. faults' >= faults
    BY FaultsGrow DEF OInv, IInv, TypeControl
  <1>3. outcome = "running" <=> pc \notin {"sent", "freed"}
    BY DEF OInv, IInv, Control
  <1>4. result # OK => faults > 0
    BY DEF OInv, IInv, Control
  <1>5. result' # OK => faults' > 0
    BY DEF OInv, IInv, Control
  <1>6. CASE UNCHANGED <<body, outcome>>
    <2>1. CASE (faults' > 0) = (faults > 0)
      BY <1>1, <1>6, <2>1 DEF Upload!vars
    <2>2. CASE (faults' > 0) # (faults > 0)
      <3>1. (faults' > 0) = TRUE
        BY <1>0, <1>2, <2>2
      <3> QED
        BY <1>1, <1>6, <3>1 DEF Upload!Next, Upload!Disturb
    <2> QED
      BY <2>1, <2>2
  <1>7. CASE /\ outcome = "running" /\ outcome' = "failed"
             /\ faults' > 0
             /\ UNCHANGED body
    BY <1>1, <1>7 DEF Upload!Next, Upload!Fail
  <1>8. CASE /\ outcome = "running" /\ outcome' = "ok"
             /\ offset = Section
             /\ UNCHANGED <<body, faults>>
    BY <1>0, <1>1, <1>8 DEF Upload!Next, Upload!Succeed
  <1>9. CASE WriteEnter
    <2>1. CASE offset = end_offset
      <3>1. outcome' = "ok" /\ outcome = "running" /\ UNCHANGED <<body, faults>>
        BY <1>3, <1>9, <2>1 DEF WriteEnter, Return
      <3>2. Ordered
        BY <1>0, <2>1 DEF Ordered, NoEnd
      <3>3. offset <= FileLen
        BY DEF OInv, IInv, DataInv, Apart
      <3>4. offset = Section
        BY <1>0, <2>1, <3>2, <3>3, Bounds DEF Section
      <3> QED
        BY <1>8, <3>1, <3>4
    <2>2. CASE offset # end_offset
      BY <1>6, <1>9, <2>2 DEF WriteEnter
    <2> QED
      BY <2>1, <2>2
  <1>10. CASE WriteReady
    <2>1. CASE result # OK
      <3>1. outcome' = "failed" /\ outcome = "running" /\ UNCHANGED <<body, faults>>
        BY <1>3, <1>10, <2>1 DEF WriteReady, Return
      <3> QED
        BY <1>4, <1>7, <2>1, <3>1
    <2>2. CASE result = OK
      BY <1>6, <1>10, <2>2 DEF WriteReady
    <2> QED
      BY <2>1, <2>2
  <1>11. CASE /\ pc \in {"loop", "register"}
              /\ \E r : RegisterReturn(r)
              /\ UNCHANGED body
    <2>1. PICK r : RegisterReturn(r)
      BY <1>11
    <2>2. CASE result' # OK /\ registered_buffers = {}
      <3>1. outcome' = "failed" /\ outcome = "running"
        BY <1>3, <1>11, <2>1, <2>2 DEF RegisterReturn, Return
      <3> QED
        BY <1>5, <1>7, <1>11, <2>2, <3>1
    <2>3. CASE ~(result' # OK /\ registered_buffers = {})
      BY <1>6, <1>11, <2>1, <2>3 DEF RegisterReturn
    <2> QED
      BY <2>2, <2>3
  <1>12. CASE WriteNotReady
    BY <1>6, <1>11, <1>12 DEF WriteNotReady
  <1>13. CASE RegisterEnough \/ RegisterNoMemory \/ RegisterFail
    BY <1>11, <1>13 DEF RegisterEnough, RegisterNoMemory, RegisterFail
  <1>14. CASE RegisterRead \/ Wake \/ Cleanup \/ WakeSpurious
    BY <1>6, <1>14 DEF RegisterRead, Wake, Cleanup, WakeSpurious
  <1>15. CASE Copy
    <2>1. PICK n \in Nat \ {0} : offset' = offset + n
      BY <1>15, CopyShape, CopyBlock DEF Copy, OInv, IInv
    <2>2. outcome' = outcome /\ faults' = faults /\ outcome # "ok"
      BY <1>3, <1>15 DEF Copy
    <2>3. n \in 1 .. (Section - offset) /\ Len(body') = Len(body) + n
      BY <1>0, <1>1, <2>1
    <2>4. \E i \in 1 .. (Section - Len(body)) : Len(body') = Len(body) + i
      BY <1>0, <2>3
    <2> QED
      BY <1>1, <2>2, <2>4 DEF Upload!Next, Upload!Move
  <1>16. CASE CopyDone
    <2>1. CASE buffer_filled > 0
      BY <1>6, <1>16, <2>1 DEF CopyDone, Return
    <2>2. CASE ~(buffer_filled > 0)
      <3>1. buffer_filled = 0
        BY <2>2, Bounds DEF OInv, IInv, TypeControl
      <3>2. offset = Section
        BY <1>16, <3>1, EmptyCallIsEnd DEF CopyDone
      <3>3. outcome' = "ok" /\ outcome = "running" /\ UNCHANGED <<body, faults>>
        BY <1>3, <1>16, <2>2 DEF CopyDone, Return
      <3> QED
        BY <1>8, <3>2, <3>3
    <2> QED
      BY <2>1, <2>2
  <1>17. CASE CurlStop
    <2>1. outcome' = "failed" /\ outcome = "running" /\ UNCHANGED body /\ faults' > 0
      BY <1>0, <1>3, <1>17 DEF CurlStop, Fault
    <2> QED
      BY <1>7, <2>1
  <1>18. CASE Server \/ ServerFaults
    BY <1>6, <1>18 DEF Server, ServerFaults, ServerData, ServerNothing, ServerError, progvars
  <1>19. CASE Callback
    BY <1>6, <1>19 DEF Callback, CallbackBad, CallbackEmpty, CallbackData, CallbackStart
  <1>20. CASE Finished \/ UNCHANGED vars
    BY <1>6, <1>20 DEF Finished, vars
  <1> QED
    BY <1>9, <1>10, <1>12, <1>13, <1>14, <1>15, <1>16, <1>17, <1>18, <1>19, <1>20
       DEF Next, CurlThread, CurlFaults

\* The upload implements Transfer: the body only grows, libcurl is told that it ended
\* only when it has the whole section, and the upload fails only after a call of
\* malloc, the server or libcurl failed.
THEOREM UploadImplementsTransfer == ~EmptyReads /\ WholeBlocks => (Spec => UploadIsTransfer)
  <1> SUFFICES ASSUME ~EmptyReads, WholeBlocks PROVE Spec => Upload!Spec
    BY DEF UploadIsTransfer
  <1>1. Init => Upload!Init
    <2> SUFFICES ASSUME Init PROVE Upload!Init
      OBVIOUS
    <2>1. end_offset \in Nat \cup {-1}
      BY Bounds DEF Init
    <2>2. Section \in Nat
      BY <2>1, Bounds DEF Section, Ordered, NoEnd
    <2> QED
      BY <2>2 DEF Init, Upload!Init
  <1>2. /\ OInv /\ OInv' /\ SectionUntouched /\ SectionUntouched'
        /\ [Next]_vars
        => [Upload!Next]_(Upload!vars)
    BY UploadStep
  <1>3. Spec => []OInv /\ []SectionUntouched
    BY OrderHolds, SectionUntouchedHolds
  <1> QED
    BY <1>1, <1>2, <1>3, PTL DEF Spec, Upload!Spec
=============================================================================
