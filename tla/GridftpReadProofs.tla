-------------------------- MODULE GridftpReadProofs --------------------------
(***************************************************************************)
(* Proofs about the download data path, for any number of buffers, any     *)
(* block size, concurrency and response length, and any failures.          *)
(*                                                                         *)
(* The inductive invariant IInv adds to the properties of GridftpRead what *)
(* makes them inductive: where the position in the response is held        *)
(* (Layout), and that what is in flight, pending or gathered never shares  *)
(* a buffer (Owners).                                                      *)
(***************************************************************************)
EXTENDS GridftpRead, FiniteSetTheorems, SequenceTheorems, TLAPS

\* TypeOK in three parts: the buffers and the writes, the flags, everything else
TypeBuffers ==
  /\ offset \in Nat
  /\ pending_buffers \in Seq(Buffer)
  /\ current_buffer \in Buffer \cup {None}
  /\ registered_buffers \subseteq Buffer
  /\ registered_buffers_count \in Nat
  /\ free_buffers \subseteq Buffer
  /\ buf \in [Buffer -> [buffer_len : Nat, buffer_used : Nat, data : Nat]]
  /\ posted \subseteq [buffer : Buffer, offset : Nat, nbytes : Nat, data : Nat]

TypeFlags == locked \in BOOLEAN /\ signalled \in BOOLEAN /\ eof \in BOOLEAN

TypeControl ==
  /\ result \in {OK, "no_memory", "register_failed"}
  /\ pc \in {"curl", "loop", "waiting", "send", "drain", "draining", "stopped",
             "cleaning", "freed"}
  /\ buffer_length \in Nat
  /\ call_result \in {OK, "register_failed"}
  /\ given \in 0..BodyLen
  /\ outcome \in {"running", "ok", "failed"}
  /\ written \subseteq Nat
  /\ faults \in 0..MaxFaults

\* Bytes of the response taken from libcurl and not left in its chunk
position == given - buffer_length

\* What the buffer that is being filled, or the one to be sent, holds
Layout ==
  /\ pc \in {"curl", "loop", "waiting"} => pending_buffers = <<>>
  /\ pending_buffers # <<>> =>
       /\ Len(pending_buffers) = 1
       /\ current_buffer = None
       /\ buf[pending_buffers[1]].data = offset
       /\ buf[pending_buffers[1]].buffer_used > 0
       /\ offset + buf[pending_buffers[1]].buffer_used = position
  /\ pending_buffers = <<>> /\ current_buffer # None =>
       /\ buf[current_buffer].data = offset
       /\ buf[current_buffer].buffer_used > 0
       /\ buf[current_buffer].buffer_used < buf[current_buffer].buffer_len
       /\ offset + buf[current_buffer].buffer_used = position
  /\ pending_buffers = <<>> /\ current_buffer = None => offset = position

\* Every buffer has room for something, and the free ones are empty
FreeEmpty ==
  /\ \A b \in allocated \cup ({current_buffer} \ {None}) : buf[b].buffer_len > 0
  /\ \A b \in free_buffers : buf[b].buffer_used = 0

\* No buffer is in two places; one nobody owns is empty
Owners ==
  /\ registered_buffers \cap free_buffers = {}
  /\ current_buffer \notin registered_buffers \cup free_buffers
  /\ \A k \in DOMAIN pending_buffers :
       /\ pending_buffers[k] \notin registered_buffers \cup free_buffers
       /\ pending_buffers[k] # current_buffer
  /\ \A b \in Buffer \ (allocated \cup {current_buffer}) : buf[b].buffer_used = 0

\* Inside a call, the chunk and the mutex
CallState ==
  /\ buffer_length <= given
  /\ locked => pc \in {"curl", "loop", "send", "drain", "stopped"}
  /\ pc \in {"loop", "send", "drain"} => locked
  /\ pc \in {"loop", "waiting"} /\ ~eof => buffer_length > 0
  /\ eof => buffer_length = 0
  /\ pc = "curl" /\ ~locked => buffer_length = 0
  /\ pc \in {"drain", "draining"} => eof

\* Nothing is outstanding when the request has succeeded or is gone
Quiet ==
  /\ pc = "freed" => posted = {}
  /\ outcome = "ok" => posted = {} /\ pc \in {"stopped", "cleaning", "freed"}

IInv ==
  /\ TypeBuffers
  /\ TypeFlags
  /\ TypeControl
  /\ IsFiniteSet(registered_buffers)
  /\ CounterMatches
  /\ Layout
  /\ FreeEmpty
  /\ Owners
  /\ CallState
  /\ Quiet
  /\ WritesInPlace
  /\ NoLostWakeup

----------------------------------------------------------------------------
\* What the proofs use of the assumption on the constants.
LEMMA Bounds ==
  /\ None \notin Buffer
  /\ BlockSize \in Nat \ {0}
  /\ Concurrency \in Nat \ {0}
  /\ BodyLen \in Nat
  /\ MaxChunk \in Nat
  /\ MaxFaults \in Nat
  BY GridftpReadAssumption

LEMMA TypeParts == TypeOK <=> TypeBuffers /\ TypeFlags /\ TypeControl
  BY DEF TypeOK, TypeBuffers, TypeFlags, TypeControl

LEMMA SmallerBounds ==
  ASSUME NEW a \in Int, NEW b \in Int
  PROVE  /\ Smaller(a, b) \in Int
         /\ Smaller(a, b) <= a
         /\ Smaller(a, b) <= b
         /\ a > 0 /\ b > 0 => Smaller(a, b) > 0
  BY DEF Smaller

\* An empty pending list, and one with the one block it ever holds.
LEMMA NoPending == ToSet(<<>>) = {}
  BY DEF ToSet

LEMMA OnePending ==
  ASSUME NEW S, NEW s \in Seq(S), Len(s) = 1
  PROVE  /\ s # <<>>
         /\ s[1] \in S
         /\ DOMAIN s = {1}
         /\ ToSet(s) = {s[1]}
         /\ Head(s) = s[1]
         /\ Tail(s) = <<>>
  <1>1. s # <<>> /\ Len(Tail(s)) = 0 /\ Tail(s) \in Seq(S)
    BY HeadTailProperties, EmptySeq
  <1>2. Tail(s) = <<>>
    BY <1>1, EmptySeq
  <1>3. DOMAIN s = {1}
    BY LenProperties
  <1> QED
    BY <1>1, <1>2, <1>3, LenProperties DEF ToSet

LEMMA FirstPending ==
  ASSUME NEW S, NEW b \in S
  PROVE  /\ Append(<<>>, b) \in Seq(S)
         /\ Append(<<>>, b) # <<>>
         /\ Len(Append(<<>>, b)) = 1
         /\ Append(<<>>, b)[1] = b
         /\ ToSet(Append(<<>>, b)) = {b}
  <1>1. <<>> \in Seq(S) /\ Len(<<>>) = 0
    BY EmptySeq
  <1>2. /\ Append(<<>>, b) \in Seq(S)
        /\ Append(<<>>, b) # <<>>
        /\ Len(Append(<<>>, b)) = 1
        /\ Append(<<>>, b)[1] = b
    BY <1>1, AppendProperties
  <1> QED
    BY <1>2, OnePending

\* The initial state satisfies the invariant.
LEMMA InitIInv == Init => IInv
  <1> SUFFICES ASSUME Init PROVE IInv
    OBVIOUS
  <1> USE Bounds DEF Init, OK
  <1>0. pending_buffers \in Seq(Buffer)
    BY EmptySeq
  <1>1. TypeBuffers
    BY <1>0 DEF TypeBuffers
  <1>5. TypeControl
    BY DEF TypeControl
  <1>6. TypeFlags
    BY DEF TypeFlags
  <1>2. IsFiniteSet(registered_buffers) /\ CounterMatches
    BY FS_EmptySet DEF CounterMatches
  <1>3. Layout
    BY DEF Layout, position
  <1>4. FreeEmpty /\ Owners /\ CallState /\ Quiet /\ WritesInPlace /\ NoLostWakeup
    BY NoPending DEF FreeEmpty, Owners, allocated, CallState, Quiet, WritesInPlace,
       NoLostWakeup, Waiting
  <1> QED
    BY <1>1, <1>2, <1>3, <1>4, <1>5, <1>6 DEF IInv

\* Steps that leave every list, buffer and write alone keep who owns what.
LEMMA ListsAlone ==
  ASSUME IInv, UNCHANGED <<offset, lists, posted>>
  PROVE  /\ TypeBuffers'
         /\ IsFiniteSet(registered_buffers')
         /\ CounterMatches'
         /\ FreeEmpty'
         /\ Owners'
         /\ WritesInPlace'
  BY DEF IInv, TypeBuffers, CounterMatches, FreeEmpty, Owners, allocated, WritesInPlace, lists

LEMMA Together ==
  ASSUME IInv, UNCHANGED <<offset, lists, posted>>,
         TypeFlags', TypeControl', Layout', CallState', Quiet', NoLostWakeup'
  PROVE  IInv'
  BY ListsAlone DEF IInv

LEMMA ReadEnterStep == ASSUME IInv, ReadEnter PROVE IInv'
  <1>a. MaxChunk \in Int /\ BodyLen - given \in Int
    BY Bounds DEF IInv, TypeControl
  <1>0. Smaller(MaxChunk, BodyLen - given) \in Int
        /\ Smaller(MaxChunk, BodyLen - given) <= BodyLen - given
    BY <1>a, SmallerBounds
  <1> USE Bounds DEF IInv, ReadEnter, OK
  <1>1. TypeControl'
    BY <1>0 DEF TypeControl, lists
  <1>9. TypeFlags'
    BY DEF TypeFlags, locals
  <1>2. Layout'
    BY <1>0 DEF TypeControl, TypeBuffers, Layout, CallState, position, lists
  <1>3. CallState' /\ Quiet' /\ NoLostWakeup'
    BY <1>0 DEF TypeControl, TypeBuffers, CallState, Quiet, NoLostWakeup, Waiting
  <1> QED
    BY <1>1, <1>2, <1>3, <1>9, Together DEF lists, locals

LEMMA ReadWaitStep == ASSUME IInv, ReadWait PROVE IInv'
  <1> USE Bounds DEF IInv, OK, ReadWait
  <1>1. TypeControl'
    BY DEF TypeControl, lists, locals
  <1>9. TypeFlags'
    BY DEF TypeFlags, locals
  <1>2. Layout' /\ CallState' /\ Quiet'
    BY DEF Layout, CallState, Quiet, position, lists, locals
  <1>3. posted # {}
    BY FS_EmptySet, SMTT(30) DEF CounterMatches, TypeControl, TypeBuffers, window_full
  <1>4. NoLostWakeup'
    BY <1>3 DEF NoLostWakeup, window_full, lists
  <1> QED
    BY <1>1, <1>2, <1>4, <1>9, Together DEF lists, locals

LEMMA ReadNoMemoryStep == ASSUME IInv, ReadNoMemory PROVE IInv'
  <1> USE Bounds DEF IInv, OK, ReadNoMemory
  <1>1. TypeControl'
    BY DEF TypeControl, lists, locals, Fault
  <1>9. TypeFlags'
    BY DEF TypeFlags, locals
  <1>2. Layout' /\ CallState' /\ Quiet' /\ NoLostWakeup'
    BY DEF Layout, CallState, Quiet, NoLostWakeup, Waiting, position, lists, locals
  <1> QED
    BY <1>1, <1>2, <1>9, Together DEF lists, locals

LEMMA SendRefuseStep == ASSUME IInv, SendRefuse PROVE IInv'
  <1> USE Bounds DEF IInv, OK, SendRefuse, Return
  <1>1. TypeControl'
    BY DEF TypeControl, lists, locals, Fault, FirstError
  <1>9. TypeFlags'
    BY DEF TypeFlags, locals
  <1>2. Layout'
    BY DEF Layout, position, lists, locals
  <1>3. CallState'
    BY DEF TypeControl, CallState, locals
  <1>4. Quiet' /\ NoLostWakeup'
    BY DEF CallState, Quiet, NoLostWakeup, Waiting
  <1> QED
    BY <1>1, <1>2, <1>3, <1>4, <1>9, Together DEF lists, locals

LEMMA SendDoneStep == ASSUME IInv, SendDone PROVE IInv'
  <1> USE Bounds DEF IInv, OK, SendDone, Return
  <1>1. TypeControl'
    BY DEF TypeControl, lists, locals
  <1>9. TypeFlags'
    BY DEF TypeFlags, locals
  <1>2. Layout'
    BY DEF Layout, position, lists, locals
  <1>3. CallState'
    <2>1. CASE eof
      BY <2>1 DEF CallState, locals
    <2>2. CASE ~eof /\ buffer_length > 0
      BY <2>2 DEF CallState, locals
    <2>3. CASE ~eof /\ buffer_length = 0
      BY <2>3 DEF CallState, locals
    <2> QED
      BY <2>1, <2>2, <2>3 DEF TypeControl
  <1>4. Quiet' /\ NoLostWakeup'
    BY DEF CallState, Quiet, NoLostWakeup, Waiting
  <1> QED
    BY <1>1, <1>2, <1>3, <1>4, <1>9, Together DEF lists, locals

LEMMA ReadDrainStep == ASSUME IInv, ReadDrain PROVE IInv'
  <1> USE Bounds DEF IInv, OK, ReadDrain, Return
  <1>1. TypeControl'
    BY DEF TypeControl, lists, locals
  <1>9. TypeFlags'
    BY DEF TypeFlags, locals
  <1>2. registered_buffers_count = 0 <=> posted = {}
    BY FS_EmptySet DEF CounterMatches
  <1>3. Layout' /\ CallState'
    BY DEF TypeControl, TypeBuffers, Layout, CallState, position, lists, locals
  <1>4. Quiet' /\ NoLostWakeup'
    BY <1>2 DEF Quiet, CallState, NoLostWakeup, Waiting
  <1> QED
    BY <1>1, <1>3, <1>4, <1>9, Together DEF lists, locals

LEMMA WakeStep == ASSUME IInv, Wake PROVE IInv'
  <1> USE Bounds DEF IInv, Wake, WakeUp, Waiting, OK
  <1>1. TypeControl'
    BY DEF TypeControl, lists, locals
  <1>9. TypeFlags'
    BY DEF TypeFlags, locals
  <1>2. Layout'
    BY DEF Layout, position, lists, locals
  <1>3. CallState'
    BY DEF TypeControl, CallState, locals
  <1>4. Quiet' /\ NoLostWakeup'
    BY DEF Quiet, NoLostWakeup
  <1> QED
    BY <1>1, <1>2, <1>3, <1>4, <1>9, Together DEF lists, locals

LEMMA WakeSpuriousStep == ASSUME IInv, WakeSpurious PROVE IInv'
  <1> USE Bounds DEF IInv, WakeSpurious, WakeUp, Waiting, OK
  <1>1. TypeControl'
    BY DEF TypeControl, lists, locals, Fault
  <1>9. TypeFlags'
    BY DEF TypeFlags, locals
  <1>2. Layout'
    BY DEF Layout, position, lists, locals
  <1>3. CallState'
    BY DEF TypeControl, CallState, locals
  <1>4. Quiet' /\ NoLostWakeup'
    BY DEF Quiet, NoLostWakeup
  <1> QED
    BY <1>1, <1>2, <1>3, <1>4, <1>9, Together DEF lists, locals

LEMMA CurlStopStep == ASSUME IInv, CurlStop PROVE IInv'
  <1> USE Bounds DEF IInv, CurlStop, OK
  <1>1. TypeControl'
    BY DEF TypeControl, lists, locals, Fault
  <1>9. TypeFlags'
    BY DEF TypeFlags, locals
  <1>2. Layout'
    BY DEF Layout, position, lists, locals
  <1>3. CallState'
    BY DEF CallState, lists, locals
  <1>4. Quiet' /\ NoLostWakeup'
    BY DEF Quiet, NoLostWakeup, Waiting
  <1> QED
    BY <1>1, <1>2, <1>3, <1>4, <1>9, Together DEF lists, locals

LEMMA CleanupStep == ASSUME IInv, Cleanup PROVE IInv'
  <1> USE Bounds DEF IInv, Cleanup, cleanup_ready, OK
  <1>1. TypeControl' /\ TypeBuffers'
    BY DEF TypeControl, TypeBuffers, lists, locals
  <1>2. TypeFlags'
    BY DEF TypeFlags, locals
  <1>3. registered_buffers_count = 0 <=> posted = {}
    BY FS_EmptySet DEF CounterMatches
  <1>4. IsFiniteSet(registered_buffers') /\ CounterMatches' /\ WritesInPlace'
    BY DEF CounterMatches, WritesInPlace
  <1>5. Layout' /\ CallState'
    BY DEF Layout, CallState, position, locals
  <1>6. Quiet' /\ NoLostWakeup'
    BY <1>3 DEF Quiet, NoLostWakeup, Waiting
  <1>7. FreeEmpty' /\ Owners'
    BY DEF FreeEmpty, Owners, allocated
  <1> QED
    BY <1>1, <1>2, <1>4, <1>5, <1>6, <1>7

\* A block that goes to the server now, and one that does not yet.
LEMMA EnqueueCases ==
  ASSUME NEW b, NEW block, Enqueue(b, block)
  PROVE  \/ /\ block_complete(block)
            /\ pending_buffers' = Append(pending_buffers, b)
            /\ current_buffer' = None
         \/ /\ ~block_complete(block)
            /\ UNCHANGED pending_buffers
            /\ current_buffer' = b
  BY DEF Enqueue

LEMMA ReadLastStep == ASSUME IInv, ReadLast PROVE IInv'
  <1>1. pending_buffers = <<>>
    BY DEF IInv, ReadLast, Layout
  <1>2. TypeControl'
    BY DEF IInv, ReadLast, TypeControl, lists, locals
  <1>3. TypeFlags'
    BY DEF IInv, ReadLast, TypeFlags, locals
  <1>4. CallState'
    BY DEF IInv, ReadLast, CallState, locals
  <1>5. IsFiniteSet(registered_buffers') /\ CounterMatches' /\ WritesInPlace'
    BY DEF IInv, ReadLast, CounterMatches, WritesInPlace
  <1>6. Quiet' /\ NoLostWakeup'
    BY DEF IInv, ReadLast, CallState, Quiet, NoLostWakeup, Waiting, OK
  <1>7. CASE current_buffer = None
    <2>1. UNCHANGED <<pending_buffers, current_buffer>>
      BY <1>7 DEF ReadLast
    <2>2. TypeBuffers'
      BY <2>1 DEF IInv, ReadLast, TypeBuffers
    <2>3. Layout' /\ FreeEmpty' /\ Owners'
      BY <1>1, <1>7, <2>1 DEF IInv, ReadLast, Layout, FreeEmpty, Owners, allocated,
         position, locals
    <2> QED
      BY <1>2, <1>3, <1>4, <1>5, <1>6, <2>2, <2>3 DEF IInv
  <1>8. CASE current_buffer # None
    <2>1. current_buffer \in Buffer
      BY <1>8 DEF IInv, TypeBuffers
    <2>2. pending_buffers' = Append(<<>>, current_buffer) /\ current_buffer' = None
      BY <1>1, <1>8, EnqueueCases DEF IInv, ReadLast, block_complete, Layout
    <2>3. /\ pending_buffers' \in Seq(Buffer)
          /\ pending_buffers' # <<>>
          /\ Len(pending_buffers') = 1
          /\ pending_buffers'[1] = current_buffer
          /\ ToSet(pending_buffers') = {current_buffer}
          /\ DOMAIN pending_buffers' = {1}
      BY <2>1, <2>2, FirstPending, OnePending
    <2>4. TypeBuffers'
      BY <2>2, <2>3 DEF IInv, ReadLast, TypeBuffers
    <2>5. Layout'
      BY <1>1, <1>8, <2>2, <2>3 DEF IInv, ReadLast, Layout, position, locals
    <2>6. allocated' = allocated \cup {current_buffer}
      BY <1>1, <2>2, <2>3, NoPending DEF ReadLast, allocated
    <2>7. FreeEmpty'
      BY <1>8, <2>2, <2>6 DEF IInv, ReadLast, FreeEmpty
    <2>8. Owners'
      BY <1>1, <1>8, <2>1, <2>2, <2>3, <2>6, Bounds DEF IInv, ReadLast, Owners, TypeBuffers
    <2> QED
      BY <1>2, <1>3, <1>4, <1>5, <1>6, <2>4, <2>5, <2>7, <2>8 DEF IInv
  <1> QED
    BY <1>7, <1>8

\* What the pending block is when there is one.
LEMMA PendingBlock ==
  ASSUME IInv, pending_buffers # <<>>
  PROVE  /\ Head(pending_buffers) = pending_buffers[1]
         /\ Tail(pending_buffers) = <<>>
         /\ pending_buffers[1] \in Buffer
         /\ ToSet(pending_buffers) = {pending_buffers[1]}
         /\ DOMAIN pending_buffers = {1}
         /\ current_buffer = None
         /\ buf[pending_buffers[1]].data = offset
         /\ buf[pending_buffers[1]].buffer_used > 0
         /\ offset + buf[pending_buffers[1]].buffer_used = position
  <1>1. Len(pending_buffers) = 1 /\ pending_buffers \in Seq(Buffer)
    BY DEF IInv, Layout, TypeBuffers
  <1> QED
    BY <1>1, OnePending DEF IInv, Layout

LEMMA SendAcceptStep == ASSUME IInv, SendAccept PROVE IInv'
  <1> DEFINE b == pending_buffers[1]
             w == [buffer |-> b, offset |-> offset,
                   nbytes |-> buf[b].buffer_used, data |-> buf[b].data]
  <1>1. /\ b \in Buffer
        /\ ToSet(pending_buffers) = {b}
        /\ DOMAIN pending_buffers = {1}
        /\ current_buffer = None
        /\ buf[b].data = offset
        /\ offset + buf[b].buffer_used = position
    BY PendingBlock DEF SendAccept
  <1>2. /\ posted' = posted \cup {w}
        /\ registered_buffers' = registered_buffers \cup {b}
        /\ registered_buffers_count' = registered_buffers_count + 1
        /\ offset' = offset + buf[b].buffer_used
        /\ pending_buffers' = <<>>
    BY PendingBlock DEF SendAccept, count_after, offset_after
  <1>3. b \notin registered_buffers \cup free_buffers
    BY <1>1 DEF IInv, Owners
  <1>4. buf[b] \in [buffer_len : Nat, buffer_used : Nat, data : Nat] /\ offset \in Nat
    BY <1>1 DEF IInv, TypeBuffers
  <1>5. TypeBuffers'
    BY <1>1, <1>2, <1>4, EmptySeq, SMTT(30) DEF IInv, SendAccept, TypeBuffers
  <1>6. TypeFlags' /\ TypeControl'
    BY DEF IInv, SendAccept, TypeFlags, TypeControl, locals
  <1>7. IsFiniteSet(registered_buffers') /\ CounterMatches'
    <2>1. IsFiniteSet(registered_buffers')
          /\ registered_buffers_count' = Cardinality(registered_buffers')
      BY <1>2, <1>3, FS_AddElement DEF IInv, CounterMatches
    <2>2. \A v \in posted : v.buffer # b
      BY <1>3 DEF IInv, CounterMatches
    <2>3. \A v, u \in posted' : v.buffer = u.buffer => v = u
      BY <1>2, <2>2 DEF IInv, CounterMatches
    <2>4. registered_buffers' = {v.buffer : v \in posted'}
      <3>1. {v.buffer : v \in posted'} = {v.buffer : v \in posted} \cup {w.buffer}
        BY <1>2
      <3>2. w.buffer = b
        OBVIOUS
      <3> QED
        BY <1>2, <3>1, <3>2 DEF IInv, CounterMatches
    <2> QED
      BY <2>1, <2>3, <2>4 DEF CounterMatches
  <1>8. Layout'
    BY <1>1, <1>2 DEF SendAccept, Layout, position, locals
  <1>9. allocated' = allocated
    BY <1>1, <1>2, NoPending DEF SendAccept, allocated
  <1>10. FreeEmpty'
    BY <1>9 DEF IInv, SendAccept, FreeEmpty
  <1>11. Owners'
    BY <1>1, <1>2, <1>3, <1>9, Bounds DEF IInv, SendAccept, Owners
  <1>12. CallState' /\ Quiet' /\ NoLostWakeup'
    BY DEF IInv, SendAccept, CallState, Quiet, NoLostWakeup, Waiting, locals
  <1>13. WritesInPlace'
    BY <1>1, <1>2 DEF IInv, SendAccept, WritesInPlace
  <1> QED
    BY <1>5, <1>6, <1>7, <1>8, <1>10, <1>11, <1>12, <1>13 DEF IInv

LEMMA CallbackStep == ASSUME IInv, NEW w \in posted, Callback(w) PROVE IInv'
  <1> DEFINE b == w.buffer
  <1>1. /\ b \in Buffer
        /\ b \in registered_buffers
        /\ w.offset \in Nat
        /\ w.nbytes \in Nat
    BY DEF IInv, TypeBuffers, CounterMatches
  <1>2. /\ b \notin free_buffers
        /\ b # current_buffer
        /\ \A k \in DOMAIN pending_buffers : pending_buffers[k] # b
    BY <1>1 DEF IInv, Owners
  <1>3. /\ posted' = posted \ {w}
        /\ registered_buffers' = registered_buffers \ {b}
        /\ free_buffers' = free_buffers \cup {b}
        /\ buf' = [buf EXCEPT ![b].buffer_used = 0]
        /\ registered_buffers_count' = registered_buffers_count - 1
        /\ UNCHANGED <<offset, pending_buffers, current_buffer>>
    BY DEF Callback
  <1>4. IsFiniteSet(registered_buffers')
        /\ registered_buffers_count' = Cardinality(registered_buffers')
        /\ registered_buffers_count' \in Nat
    <2>1. /\ IsFiniteSet(registered_buffers \ {b})
          /\ Cardinality(registered_buffers \ {b}) = Cardinality(registered_buffers) - 1
      BY <1>1, FS_RemoveElement DEF IInv
    <2>2. Cardinality(registered_buffers \ {b}) \in Nat
      BY <2>1, FS_CardinalityType
    <2> QED
      BY <1>3, <2>1, <2>2 DEF IInv, CounterMatches
  <1>5. \A v \in posted' : v.buffer # b
    BY <1>3 DEF IInv, CounterMatches
  <1>6. CounterMatches'
    BY <1>3, <1>4, <1>5 DEF IInv, CounterMatches
  <1>7. /\ buf[b] \in [buffer_len : Nat, buffer_used : Nat, data : Nat]
        /\ buf'[b] = [buf[b] EXCEPT !.buffer_used = 0]
        /\ \A c \in Buffer \ {b} : buf'[c] = buf[c]
    BY <1>1, <1>3 DEF IInv, TypeBuffers
  <1>8. TypeBuffers'
    BY <1>1, <1>3, <1>4, <1>7 DEF IInv, TypeBuffers
  <1>9. TypeFlags'
    BY DEF IInv, Callback, TypeFlags, locals, signal, Waiting
  <1>10. TypeControl'
    <2>1. Positions(w.offset, w.nbytes) \subseteq Nat
      BY <1>1 DEF Positions
    <2>2. written' \subseteq Nat /\ faults' \in 0..MaxFaults
      BY <2>1, Bounds DEF IInv, Callback, TypeControl, Fault
    <2> QED
      BY <2>2 DEF IInv, Callback, TypeControl, locals
  <1>11. allocated' = allocated
    BY <1>1, <1>3 DEF allocated
  <1>12. FreeEmpty'
    BY <1>1, <1>3, <1>7, <1>11, SMTT(30) DEF IInv, FreeEmpty, TypeBuffers
  <1>13. Owners'
    BY <1>1, <1>2, <1>3, <1>7, <1>11 DEF IInv, Owners
  <1>14. Layout'
    <2>1. pending_buffers # <<>> => buf'[pending_buffers[1]] = buf[pending_buffers[1]]
      BY <1>2, <1>7, PendingBlock
    <2>2. current_buffer # None => buf'[current_buffer] = buf[current_buffer]
      BY <1>2, <1>7 DEF IInv, TypeBuffers
    <2> QED
      BY <1>3, <2>1, <2>2 DEF IInv, Callback, Layout, position, locals
  <1>15. CallState' /\ Quiet'
    BY DEF IInv, Callback, CallState, Quiet, locals
  <1>16. NoLostWakeup'
    BY DEF Callback, NoLostWakeup, signal, Waiting
  <1>17. WritesInPlace'
    BY <1>3, <1>5, <1>7 DEF IInv, WritesInPlace, TypeBuffers
  <1> QED
    BY <1>4, <1>6, <1>8, <1>9, <1>10, <1>12, <1>13, <1>14, <1>15, <1>16, <1>17 DEF IInv

\* The buffer globus_i_dsi_rest_buffer_get returns has room, belongs to nobody
\* else, and what it holds ends where the response has got to.
LEMMA ObtainedBuffer ==
  ASSUME IInv, pc = "loop", ~eof, NEW b \in obtainable
  PROVE  /\ b \in Buffer
         /\ b \notin registered_buffers
         /\ room_in(b) \in Nat
         /\ buf[b].buffer_used \in Nat
         /\ buf[b].buffer_used < room_in(b)
         /\ buf[b].buffer_used > 0 => buf[b].data = offset
         /\ offset + buf[b].buffer_used = position
         /\ current_buffer # None => b = current_buffer
         /\ b \in free_buffers \cup {current_buffer} => room_in(b) = buf[b].buffer_len
  <1>1. pending_buffers = <<>> /\ ToSet(pending_buffers) = {}
    BY NoPending DEF IInv, Layout
  <1>2. b \in Buffer
    BY DEF IInv, TypeBuffers, obtainable
  <1>3. buf[b] \in [buffer_len : Nat, buffer_used : Nat, data : Nat]
    BY <1>2 DEF IInv, TypeBuffers
  <1>4. CASE current_buffer # None
    <2>1. b = current_buffer
      BY <1>4 DEF obtainable
    <2>2. room_in(b) = buf[b].buffer_len
      BY <2>1 DEF room_in
    <2>3. b \notin registered_buffers
      BY <2>1 DEF IInv, Owners
    <2> QED
      BY <1>1, <1>2, <1>3, <1>4, <2>1, <2>2, <2>3 DEF IInv, Layout
  <1>5. CASE current_buffer = None /\ b \in free_buffers
    <2>1. b \in allocated
      BY <1>5 DEF allocated
    <2>2. room_in(b) = buf[b].buffer_len /\ buf[b].buffer_len > 0 /\ buf[b].buffer_used = 0
      BY <1>5, <2>1 DEF IInv, FreeEmpty, room_in
    <2>3. b \notin registered_buffers
      BY <1>5 DEF IInv, Owners
    <2>4. offset = position /\ offset \in Nat
      BY <1>1, <1>5 DEF IInv, Layout, TypeBuffers
    <2> QED
      BY <1>2, <1>3, <1>5, <2>2, <2>3, <2>4
  <1>6. CASE current_buffer = None /\ b \notin free_buffers
    <2>1. b \notin allocated
      BY <1>6 DEF obtainable
    <2>2. b # current_buffer
      BY <1>2, <1>6, Bounds
    <2>3. buf[b].buffer_used = 0 /\ b \notin registered_buffers
      BY <1>2, <2>1, <2>2 DEF IInv, Owners, allocated
    <2>4. room_in(b) = Larger(buffer_length, BlockSize)
      BY <2>1, <2>2 DEF room_in
    <2>5. room_in(b) \in Nat /\ room_in(b) > 0
      BY <2>4, Bounds DEF IInv, TypeControl, Larger
    <2>6. offset = position /\ offset \in Nat
      BY <1>1, <1>6 DEF IInv, Layout, TypeBuffers
    <2> QED
      BY <1>2, <1>3, <1>6, <2>2, <2>3, <2>5, <2>6
  <1> QED
    BY <1>4, <1>5, <1>6

LEMMA ReadCopyStep == ASSUME IInv, ReadCopy PROVE IInv'
  <1> DEFINE b == CHOOSE c \in obtainable : TRUE
             used == buf[b].buffer_used
             n == Smaller(buffer_length, room_in(b) - used)
             block == Appended(b, n)
  <1>1. pc = "loop" /\ ~eof /\ b \in obtainable
    BY DEF ReadCopy
  <1>2. /\ b \in Buffer
        /\ b \notin registered_buffers
        /\ room_in(b) \in Nat
        /\ used \in Nat
        /\ used < room_in(b)
        /\ used > 0 => buf[b].data = offset
        /\ offset + used = position
        /\ current_buffer # None => b = current_buffer
    BY <1>1, ObtainedBuffer
  <1>3. buffer_length \in Nat \ {0} /\ given \in Nat /\ offset \in Nat
        /\ buffer_length <= given
    BY <1>1, Bounds DEF IInv, TypeControl, TypeBuffers, CallState
  <1>4. n \in Nat \ {0} /\ n <= buffer_length /\ n <= room_in(b) - used
    <2> DEFINE room == room_in(b) - used
    <2>1. buffer_length \in Int /\ buffer_length > 0 /\ room \in Int /\ room > 0
      BY <1>2, <1>3
    <2> HIDE DEF room
    <2>2. /\ Smaller(buffer_length, room) \in Nat \ {0}
          /\ Smaller(buffer_length, room) <= buffer_length
          /\ Smaller(buffer_length, room) <= room
      BY <2>1, SmallerBounds
    <2> QED
      BY <2>2 DEF room
  <1>5. /\ buf' = [buf EXCEPT ![b] = block]
        /\ buffer_length' = buffer_length - n
        /\ free_buffers' = free_buffers \ {b}
        /\ Enqueue(b, block)
        /\ pc' = "send"
        /\ UNCHANGED <<given, offset, registered_buffers, registered_buffers_count,
                       posted, eof, locked>>
    BY DEF ReadCopy
  <1>6. /\ block.buffer_len = room_in(b)
        /\ block.buffer_used = used + n
        /\ block.data = offset
    BY <1>2, <1>3 DEF Appended, position
  <1>7. block \in [buffer_len : Nat, buffer_used : Nat, data : Nat]
    BY <1>2, <1>3, <1>4, <1>6 DEF Appended
  <1>8. /\ buf'[b] = block
        /\ \A c \in Buffer \ {b} : buf'[c] = buf[c]
        /\ buf' \in [Buffer -> [buffer_len : Nat, buffer_used : Nat, data : Nat]]
    BY <1>2, <1>5, <1>7 DEF IInv, TypeBuffers
  <1>9. pending_buffers = <<>> /\ ToSet(pending_buffers) = {}
    BY <1>1, NoPending DEF IInv, Layout
  <1>10. /\ Append(<<>>, b) \in Seq(Buffer)
         /\ Append(<<>>, b) # <<>>
         /\ Len(Append(<<>>, b)) = 1
         /\ Append(<<>>, b)[1] = b
         /\ ToSet(Append(<<>>, b)) = {b}
         /\ DOMAIN Append(<<>>, b) = {1}
    BY <1>2, FirstPending, OnePending
  <1>11. \/ pending_buffers' = Append(<<>>, b) /\ current_buffer' = None
         \/ /\ pending_buffers' = <<>>
            /\ current_buffer' = b
            /\ block.buffer_used < block.buffer_len
    <2>1. block_complete(block) \/ block.buffer_used < block.buffer_len
      BY <1>2, <1>4, <1>6 DEF block_complete
    <2> QED
      BY <1>5, <1>9, <2>1, EnqueueCases
  <1>12. TypeBuffers'
    <2>1. pending_buffers' \in Seq(Buffer)
      BY <1>10, <1>11, EmptySeq
    <2>2. current_buffer' \in Buffer \cup {None}
      BY <1>2, <1>11
    <2> QED
      BY <1>5, <1>8, <2>1, <2>2 DEF IInv, TypeBuffers
  <1>13. TypeFlags'
    BY DEF IInv, ReadCopy, TypeFlags
  <1>14. TypeControl'
    BY <1>3, <1>4, <1>5 DEF IInv, ReadCopy, TypeControl
  <1>15. IsFiniteSet(registered_buffers') /\ CounterMatches'
    BY <1>5 DEF IInv, CounterMatches
  <1>16. offset + block.buffer_used = position' /\ block.buffer_used > 0
    BY <1>2, <1>3, <1>4, <1>5, <1>6 DEF position
  <1>17. Layout'
    BY <1>2, <1>5, <1>6, <1>8, <1>10, <1>11, <1>16, Bounds, ZenonT(40) DEF Layout
  <1>18. allocated' \cup ({current_buffer'} \ {None})
           = allocated \cup ({current_buffer} \ {None}) \cup {b}
    BY <1>2, <1>5, <1>9, <1>10, <1>11, NoPending, Bounds DEF allocated
  <1>19. FreeEmpty'
    <2>1. buf'[b].buffer_len > 0
      BY <1>2, <1>6, <1>8
    <2>2. free_buffers' \subseteq Buffer \ {b} /\ free_buffers' \subseteq free_buffers
      BY <1>5 DEF IInv, TypeBuffers
    <2>3. \A c \in free_buffers' : buf'[c].buffer_used = 0
      BY <1>8, <2>2 DEF IInv, FreeEmpty
    <2>4. allocated \cup ({current_buffer} \ {None}) \subseteq Buffer
      BY <1>9 DEF IInv, TypeBuffers, allocated
    <2>5. \A c \in allocated \cup ({current_buffer} \ {None}) : buf'[c].buffer_len > 0
      BY <1>8, <2>1, <2>4 DEF IInv, FreeEmpty
    <2> QED
      BY <1>18, <2>1, <2>3, <2>5 DEF FreeEmpty
  <1>20. Owners'
    <2>1. /\ registered_buffers' \cap free_buffers' = {}
          /\ b \notin registered_buffers' \cup free_buffers'
          /\ None \notin registered_buffers' \cup free_buffers'
      BY <1>2, <1>5, Bounds DEF IInv, Owners, TypeBuffers
    <2>2. b # None
      BY <1>2, Bounds
    <2>3. /\ current_buffer' \notin registered_buffers' \cup free_buffers'
          /\ \A k \in DOMAIN pending_buffers' :
               /\ pending_buffers'[k] \notin registered_buffers' \cup free_buffers'
               /\ pending_buffers'[k] # current_buffer'
      <3>1. CASE pending_buffers' = Append(<<>>, b) /\ current_buffer' = None
        BY <1>10, <2>1, <2>2, <3>1
      <3>2. CASE pending_buffers' = <<>> /\ current_buffer' = b
        BY <2>1, <3>2
      <3> QED
        BY <1>11, <3>1, <3>2
    <2>4. \A c \in Buffer \ (allocated' \cup {current_buffer'}) :
            c \in Buffer \ (allocated \cup {current_buffer}) /\ c # b
      BY <1>18, Bounds
    <2>5. \A c \in Buffer \ (allocated' \cup {current_buffer'}) : buf'[c].buffer_used = 0
      BY <1>8, <2>4 DEF IInv, Owners
    <2> QED
      BY <2>1, <2>3, <2>5 DEF Owners
  <1>21. CallState'
    BY <1>1, <1>3, <1>4, <1>5 DEF IInv, CallState
  <1>22. Quiet' /\ NoLostWakeup'
    BY <1>1, <1>5 DEF IInv, ReadCopy, Quiet, NoLostWakeup, Waiting
  <1>23. WritesInPlace'
    <2>1. \A w \in posted : w.buffer \in Buffer \ {b}
      BY <1>2 DEF IInv, TypeBuffers, CounterMatches
    <2> QED
      BY <1>5, <1>8, <2>1 DEF IInv, WritesInPlace
  <1> QED
    BY <1>12, <1>13, <1>14, <1>15, <1>17, <1>19, <1>20, <1>21, <1>22, <1>23 DEF IInv

\* Nothing changes.
LEMMA StutterStep == ASSUME IInv, UNCHANGED vars PROVE IInv'
  <1>1. TypeControl' /\ TypeFlags'
    BY DEF IInv, vars, TypeControl, TypeFlags, locals
  <1>2. Layout' /\ CallState' /\ Quiet' /\ NoLostWakeup'
    BY DEF IInv, vars, lists, locals, Layout, CallState, Quiet, NoLostWakeup, Waiting,
       window_full, position
  <1> QED
    BY <1>1, <1>2, Together DEF vars

LEMMA NextIInv == IInv /\ [Next]_vars => IInv'
  <1> SUFFICES ASSUME IInv, [Next]_vars PROVE IInv'
    OBVIOUS
  <1>1. CASE CurlThread
    BY <1>1, ReadEnterStep, ReadWaitStep, ReadCopyStep, ReadLastStep, SendAcceptStep,
       SendDoneStep, ReadDrainStep, WakeStep, CleanupStep DEF CurlThread
  <1>2. CASE CurlFaults
    BY <1>2, ReadNoMemoryStep, SendRefuseStep, WakeSpuriousStep, CurlStopStep
       DEF CurlFaults
  <1>3. CASE Server
    BY <1>3, CallbackStep DEF Server
  <1>4. CASE Finished \/ UNCHANGED vars
    BY <1>4, StutterStep DEF Finished
  <1> QED
    BY <1>1, <1>2, <1>3, <1>4 DEF Next

----------------------------------------------------------------------------
\* The inductive invariant holds in every state.
THEOREM Invariant == Spec => []IInv
  BY InitIInv, NextIInv, PTL DEF Spec

\* The state always has the types of the C structure, whatever the failures.
THEOREM TypesHold == Spec => []TypeOK
  <1>1. IInv => TypeOK
    BY TypeParts DEF IInv
  <1> QED
    BY <1>1, Invariant, PTL

\* registered_buffers_count, which send_pending and the write callback keep under
\* the mutex, is at all times the number of writes outstanding.
THEOREM CounterHolds == Spec => []CounterMatches
  <1>1. IInv => CounterMatches
    BY DEF IInv
  <1> QED
    BY <1>1, Invariant, PTL

\* No buffer of the download is ever in two places: being filled, pending,
\* registered with the server, or free.
THEOREM OwnershipHolds == Spec => []BufferOwnership
  <1>1. IInv => BufferOwnership
    <2> SUFFICES ASSUME IInv PROVE BufferOwnership
      OBVIOUS
    <2>1. CASE pending_buffers = <<>>
      <3>1. ToSet(pending_buffers) = {} /\ DOMAIN pending_buffers = {}
        BY <2>1, NoPending
      <3> QED
        BY <3>1 DEF IInv, Owners, BufferOwnership, allocated
    <2>2. CASE pending_buffers # <<>>
      BY <2>2, PendingBlock DEF IInv, Owners, BufferOwnership, allocated
    <2> QED
      BY <2>1, <2>2
  <1> QED
    BY <1>1, Invariant, PTL

\* A write handed to the server goes to its place in the file, and nobody touches
\* its buffer until the callback.
THEOREM WritesInPlaceHolds == Spec => []WritesInPlace
  <1>1. IInv => WritesInPlace
    BY DEF IInv
  <1> QED
    BY <1>1, Invariant, PTL

\* The thread never sleeps when nobody will wake it up.
THEOREM NoLostWakeupHolds == Spec => []NoLostWakeup
  <1>1. IInv => NoLostWakeup
    BY DEF IInv
  <1> QED
    BY <1>1, Invariant, PTL

\* The cleanup frees the structure only when every callback has run.
THEOREM CleanupWaitsHolds == Spec => []CleanupWaits
  <1>1. IInv => CleanupWaits
    BY DEF IInv, Quiet, CleanupWaits
  <1> QED
    BY <1>1, Invariant, PTL
----------------------------------------------------------------------------
(***************************************************************************)
(* What the download promises to its caller: no byte of the response is    *)
(* lost, and it implements Transfer.  Both are promises about a server     *)
(* that never reports a failed write (ServerWrites): the callback ignores  *)
(* what it reports.                                                        *)
(*                                                                         *)
(* RInv adds to IInv that the file has, or is about to get, every byte up  *)
(* to offset, and no other (Reached), and what the last call leaves behind *)
(* (LastCall).                                                             *)
(***************************************************************************)
ServerWrites == WriteResults \subseteq {OK}

\* The positions a write puts its bytes at, of each one the server has
InFlight == UNION {Positions(w.offset, w.nbytes) : w \in posted}

\* offset is where the bytes written and being written end, with no gap
Reached == written \cup InFlight = 0 .. (offset - 1)

\* The last call comes after the whole response and sends all that is left of it
LastCall ==
  /\ eof => given = BodyLen
  /\ pc = "send" /\ eof => current_buffer = None
  /\ pc \in {"drain", "draining"} /\ call_result = OK =>
       pending_buffers = <<>> /\ current_buffer = None

\* An error has a cause, and the request ends with its outcome
Outcome ==
  /\ call_result # OK => faults > 0
  /\ outcome # "running" => pc \in {"stopped", "cleaning", "freed"}

RInv == IInv /\ Reached /\ LastCall /\ Outcome

----------------------------------------------------------------------------
LEMMA InitRInv == Init => RInv
  <1> SUFFICES ASSUME Init PROVE RInv
    OBVIOUS
  <1>1. Reached
    BY DEF Init, Reached, InFlight
  <1>2. LastCall /\ Outcome
    BY DEF Init, LastCall, Outcome, OK
  <1> QED
    BY <1>1, <1>2, InitIInv DEF RInv

\* The buffer at the head of the pending ones holds the bytes from offset on.
LEMMA SentBlock ==
  ASSUME IInv, pending_buffers # <<>>
  PROVE  /\ Head(pending_buffers) = pending_buffers[1]
         /\ Tail(pending_buffers) = <<>>
         /\ offset_after(Head(pending_buffers)) \in Nat
         /\ buf[Head(pending_buffers)].buffer_used \in Nat
  <1>1. /\ pending_buffers[1] \in Buffer
        /\ Head(pending_buffers) = pending_buffers[1]
        /\ Tail(pending_buffers) = <<>>
    BY OnePending, SMTT(30) DEF IInv, TypeBuffers, Layout
  <1>2. buf[pending_buffers[1]] \in [buffer_len : Nat, buffer_used : Nat, data : Nat]
    BY <1>1 DEF IInv, TypeBuffers
  <1> QED
    BY <1>1, <1>2, SMTT(30) DEF IInv, TypeBuffers, offset_after

LEMMA JoinedIntervals ==
  ASSUME NEW a \in Nat, NEW n \in Nat
  PROVE  0 .. (a + n - 1) = (0 .. (a - 1)) \cup (a .. (a + n - 1))
  OBVIOUS

\* A block sent extends what the file is going to hold by its length.
LEMMA SendReached == ASSUME RInv, SendAccept PROVE Reached'
  <1> DEFINE b == Head(pending_buffers)
             n == buf[b].buffer_used
             w == [buffer |-> b, offset |-> offset, nbytes |-> n, data |-> buf[b].data]
  <1>1. offset \in Nat /\ n \in Nat /\ offset' = offset + n
    BY SentBlock DEF RInv, IInv, TypeBuffers, SendAccept, offset_after
  <1>2. posted' = posted \cup {w} /\ written' = written
    BY DEF SendAccept
  <1>2a. w.offset = offset /\ w.nbytes = n
    OBVIOUS
  <1> HIDE DEF w
  <1>3. InFlight' = InFlight \cup Positions(offset, n)
    BY <1>2, <1>2a DEF InFlight
  <1>4. Positions(offset, n) = offset .. (offset + n - 1)
    BY DEF Positions
  <1> HIDE DEF n
  <1>5. 0 .. (offset + n - 1) = (0 .. (offset - 1)) \cup (offset .. (offset + n - 1))
    BY <1>1, JoinedIntervals
  <1> QED
    BY <1>1, <1>2, <1>3, <1>4, <1>5 DEF RInv, Reached

\* A callback moves the bytes of its write from the server to the file.
LEMMA CallbackReached ==
  ASSUME RInv, ServerWrites, NEW w \in posted, Callback(w)
  PROVE  /\ written' = written \cup Positions(w.offset, w.nbytes)
         /\ UNCHANGED faults
         /\ Reached'
  <1>1. /\ posted' = posted \ {w}
        /\ written' = written \cup Positions(w.offset, w.nbytes)
        /\ UNCHANGED <<faults, offset>>
    BY DEF Callback, ServerWrites
  <1>2. written' \cup InFlight' = written \cup InFlight
    BY <1>1 DEF InFlight
  <1> QED
    BY <1>1, <1>2 DEF RInv, Reached

LEMMA ReachedStep == RInv /\ ServerWrites /\ [Next]_vars => Reached'
  <1> SUFFICES ASSUME RInv, ServerWrites, [Next]_vars PROVE Reached'
    OBVIOUS
  <1>1. CASE UNCHANGED <<offset, posted, written>>
    BY <1>1 DEF RInv, Reached, InFlight
  <1>2. CASE SendAccept
    BY <1>2, SendReached
  <1>3. CASE Server
    BY <1>3, CallbackReached DEF Server
  <1>4. CASE CurlThread /\ ~SendAccept
    BY <1>1, <1>4 DEF CurlThread, ReadEnter, ReadWait, ReadCopy, ReadLast, SendDone,
       ReadDrain, Wake, Cleanup
  <1>5. CASE CurlFaults \/ Finished \/ UNCHANGED vars
    BY <1>1, <1>5 DEF CurlFaults, ReadNoMemory, SendRefuse, WakeSpurious, CurlStop,
       Finished, vars
  <1> QED
    BY <1>2, <1>3, <1>4, <1>5 DEF Next

\* The last call leaves no block half filled.
LEMMA LastSends == ASSUME RInv, ReadLast PROVE current_buffer' = None
  <1>1. pending_buffers = <<>>
    BY DEF RInv, IInv, ReadLast, Layout
  <1>2. CASE current_buffer # None
    BY <1>1, <1>2, EnqueueCases DEF RInv, IInv, ReadLast, Layout, block_complete
  <1>3. CASE current_buffer = None
    BY <1>3 DEF ReadLast
  <1> QED
    BY <1>2, <1>3

LEMMA LastCallStep == RInv /\ [Next]_vars => LastCall'
  <1> SUFFICES ASSUME RInv, [Next]_vars PROVE LastCall'
    OBVIOUS
  <1> USE DEF RInv, LastCall, OK
  <1>1. CASE ReadEnter \/ ReadWait \/ ReadCopy \/ ReadDrain \/ Wake \/ Cleanup
    BY <1>1 DEF ReadEnter, ReadWait, ReadCopy, ReadDrain, Return, Wake, WakeUp, Cleanup,
       lists, locals
  <1>2. CASE ReadLast
    BY <1>2, LastSends DEF ReadLast, locals
  <1>3. CASE SendAccept
    BY <1>3 DEF SendAccept, locals
  <1>4. CASE SendDone
    BY <1>4 DEF SendDone, Return, lists, locals
  <1>5. CASE CurlFaults
    BY <1>5 DEF CurlFaults, ReadNoMemory, SendRefuse, Return, WakeSpurious, WakeUp,
       CurlStop, lists, locals
  <1>6. CASE Server
    BY <1>6 DEF Server, Callback, locals
  <1>7. CASE Finished \/ UNCHANGED vars
    BY <1>7 DEF Finished, vars, lists, locals
  <1> QED
    BY <1>1, <1>2, <1>3, <1>4, <1>5, <1>6, <1>7 DEF Next, CurlThread

LEMMA OutcomeStep == RInv /\ [Next]_vars => Outcome'
  <1> SUFFICES ASSUME RInv, [Next]_vars PROVE Outcome'
    OBVIOUS
  <1>0. faults \in Nat
    BY Bounds DEF RInv, IInv, TypeControl
  <1> USE <1>0 DEF RInv, Outcome, OK
  <1>1. CASE ReadEnter \/ ReadWait \/ ReadCopy \/ ReadLast \/ SendAccept
    BY <1>1 DEF ReadEnter, ReadWait, ReadCopy, ReadLast, SendAccept, locals
  <1>2. CASE SendDone \/ ReadDrain
    BY <1>2 DEF SendDone, ReadDrain, Return, locals
  <1>3. CASE Wake \/ Cleanup
    BY <1>3 DEF Wake, WakeUp, Cleanup, locals
  <1>4. CASE CurlFaults
    BY <1>4 DEF CurlFaults, ReadNoMemory, SendRefuse, Return, WakeSpurious, WakeUp,
       CurlStop, Fault, locals
  <1>5. CASE Server
    <2> PICK w \in posted : Callback(w)
      BY <1>5 DEF Server
    <2>1. faults' \in {faults, faults + 1}
      BY DEF Callback, Fault
    <2> QED
      BY <2>1 DEF Callback, locals
  <1>6. CASE Finished \/ UNCHANGED vars
    BY <1>6 DEF Finished, vars, locals
  <1> QED
    BY <1>1, <1>2, <1>3, <1>4, <1>5, <1>6 DEF Next, CurlThread

LEMMA NextRInv == RInv /\ ServerWrites /\ [Next]_vars => RInv'
  BY NextIInv, ReachedStep, LastCallStep, OutcomeStep DEF RInv

\* The strengthened invariant holds in every state, if every write succeeds.
THEOREM ReachedHolds == ServerWrites => (Spec => []RInv)
  <1> SUFFICES ASSUME ServerWrites PROVE Spec => []RInv
    OBVIOUS
  <1>1. RInv /\ [Next]_vars => RInv'
    BY NextRInv
  <1> QED
    BY InitRInv, <1>1, PTL DEF Spec
\* No byte taken from libcurl is dropped or overwritten on its way to the file,
\* by read_gridftp_op and the write callback together, if every write succeeds.
THEOREM NoByteLostHolds == ServerWrites => (Spec => []NoByteLost)
  <1> SUFFICES ASSUME ServerWrites PROVE Spec => []NoByteLost
    OBVIOUS
  <1>1. RInv => NoByteLost
    <2> SUFFICES ASSUME RInv PROVE NoByteLost
      OBVIOUS
    <2> DEFINE kept == ToSet(pending_buffers) \cup ({current_buffer} \ {None})
               gathered == UNION {Positions(buf[b].data, buf[b].buffer_used) : b \in kept}
    <2>0. NoByteLost <=> 0 .. (position - 1) \subseteq written \cup InFlight \cup gathered
      BY DEF NoByteLost, InFlight, position
    <2> HIDE DEF gathered
    <2>1. offset \in Nat /\ 0 .. (offset - 1) = written \cup InFlight
      BY DEF RInv, IInv, TypeBuffers, Reached
    <2>2. CASE kept = {}
      <3>1. pending_buffers = <<>> /\ current_buffer = None
        BY <2>2, PendingBlock DEF RInv, IInv
      <3>2. offset = position
        BY <3>1 DEF RInv, IInv, Layout
      <3> QED
        BY <2>0, <2>1, <3>2
    <2>3. CASE kept # {}
      <3>1. PICK b \in kept : /\ buf[b].data = offset
                              /\ offset + buf[b].buffer_used = position
                              /\ buf[b].buffer_used \in Nat
        <4>1. CASE pending_buffers # <<>>
          BY <4>1, PendingBlock, SentBlock DEF RInv, IInv, Layout
        <4>2. CASE pending_buffers = <<>>
          <5>1. current_buffer \in Buffer /\ current_buffer \in kept
            BY <2>3, <4>2, NoPending DEF RInv, IInv, TypeBuffers
          <5>2. buf[current_buffer] \in [buffer_len : Nat, buffer_used : Nat, data : Nat]
            BY <5>1 DEF RInv, IInv, TypeBuffers
          <5> QED
            BY <4>2, <5>1, <5>2, Bounds DEF RInv, IInv, Layout
        <4> QED
          BY <4>1, <4>2
      <3> DEFINE n == buf[b].buffer_used
      <3>2. position = offset + n /\ n \in Nat
        BY <2>1, <3>1
      <3> HIDE DEF n
      <3>3. 0 .. (position - 1) = (0 .. (offset - 1)) \cup (offset .. (offset + n - 1))
        BY <2>1, <3>2, JoinedIntervals
      <3>4. (offset .. (offset + n - 1)) \subseteq gathered
        BY <3>1 DEF Positions, n, gathered
      <3> QED
        BY <2>0, <2>1, <3>3, <3>4
    <2> QED
      BY <2>2, <2>3
  <1> QED
    BY <1>1, ReachedHolds, PTL
----------------------------------------------------------------------------
\* What is written is finite, and counts at most the bytes of the response.
WrittenBounded ==
  /\ IsFiniteSet(written)
  /\ Cardinality(written) \in Nat
  /\ Cardinality(written) <= BodyLen
  /\ posted = {} /\ offset = BodyLen => Cardinality(written) = BodyLen

LEMMA WrittenSize == RInv => WrittenBounded
  <1> SUFFICES ASSUME RInv PROVE WrittenBounded
    OBVIOUS
  <1>1. offset \in 0..BodyLen
    <2>1. offset \in Nat /\ position <= BodyLen
      BY Bounds DEF RInv, IInv, TypeBuffers, TypeControl, position
    <2>2. offset <= position
      <3>1. CASE pending_buffers # <<>>
        BY <2>1, <3>1, PendingBlock, SentBlock, Bounds
           DEF RInv, IInv, TypeControl, position
      <3>2. CASE pending_buffers = <<>> /\ current_buffer # None
        <4>1. buf[current_buffer] \in [buffer_len : Nat, buffer_used : Nat, data : Nat]
          BY <3>2 DEF RInv, IInv, TypeBuffers
        <4> QED
          BY <2>1, <3>2, <4>1 DEF RInv, IInv, Layout
      <3>3. CASE pending_buffers = <<>> /\ current_buffer = None
        BY <2>1, <3>3 DEF RInv, IInv, Layout
      <3> QED
        BY <3>1, <3>2, <3>3
    <2> QED
      BY <2>1, <2>2, Bounds DEF RInv, IInv, TypeControl, position
  <1>2. IsFiniteSet(0 .. (offset - 1)) /\ Cardinality(0 .. (offset - 1)) = offset
    BY <1>1, FS_Interval
  <1>3. written \subseteq 0 .. (offset - 1)
    BY DEF RInv, Reached
  <1>4. /\ IsFiniteSet(written)
        /\ Cardinality(written) <= offset
        /\ Cardinality(written) \in Nat
    BY <1>2, <1>3, FS_Subset, FS_CardinalityType
  <1>5. posted = {} => written = 0 .. (offset - 1)
    BY DEF RInv, Reached, InFlight
  <1> QED
    BY <1>1, <1>2, <1>4, <1>5, Bounds DEF WrittenBounded

LEMMA WrittenSizeNext == RInv' => WrittenBounded'
  BY WrittenSize, PTL

\* A request that ends well has written everything.
LEMMA SuccessIsComplete ==
  ASSUME RInv, ReadDrain, registered_buffers_count = 0, call_result = OK
  PROVE  Cardinality(written) = BodyLen
  <1>1. posted = {}
    <2>1. registered_buffers = {}
      BY FS_EmptySet DEF RInv, IInv, CounterMatches
    <2> QED
      BY <2>1 DEF RInv, IInv, CounterMatches
  <1>2. offset = position /\ buffer_length = 0 /\ given = BodyLen
    BY DEF RInv, IInv, ReadDrain, CallState, LastCall, Layout
  <1>3. offset = BodyLen
    BY <1>2, Bounds DEF position
  <1> QED
    BY <1>1, <1>3, WrittenSize DEF WrittenBounded

\* What is written so far stays so.
LEMMA WrittenGrows == RInv /\ ServerWrites /\ [Next]_vars => written \subseteq written'
  <1> SUFFICES ASSUME RInv, ServerWrites, [Next]_vars PROVE written \subseteq written'
    OBVIOUS
  <1>1. CASE Server
    BY <1>1, CallbackReached DEF Server
  <1>2. CASE CurlThread
    BY <1>2 DEF CurlThread, ReadEnter, ReadWait, ReadCopy, ReadLast, SendAccept, SendDone,
       ReadDrain, Wake, Cleanup
  <1>3. CASE CurlFaults \/ Finished \/ UNCHANGED vars
    BY <1>3 DEF CurlFaults, ReadNoMemory, SendRefuse, WakeSpurious, CurlStop, Finished,
       vars
  <1> QED
    BY <1>1, <1>2, <1>3 DEF Next

\* Every step of the download is a step of Transfer, or none.
LEMMA DownloadStep ==
  RInv /\ RInv' /\ ServerWrites /\ [Next]_vars => [Download!Next]_(Download!vars)
  <1> SUFFICES ASSUME RInv, RInv', ServerWrites, [Next]_vars
               PROVE  [Download!Next]_(Download!vars)
    OBVIOUS
  <1> DEFINE moved == Cardinality(written)
  <1>1. faults \in Nat
    BY Bounds DEF RInv, IInv, TypeControl
  <1>2. CASE /\ UNCHANGED <<written, outcome>>
             /\ faults' = faults
    BY <1>2 DEF Download!vars
  <1>3. CASE /\ UNCHANGED <<written, outcome>>
             /\ faults' = faults + 1
    BY <1>1, <1>3 DEF Download!Next, Download!Disturb
  <1>4. CASE /\ UNCHANGED written
             /\ faults' > 0
             /\ outcome = "running"
             /\ outcome' = "failed"
    BY <1>4 DEF Download!Next, Download!Fail
  <1>5. CASE CurlThread /\ ~SendDone /\ ~ReadDrain
    BY <1>2, <1>5 DEF CurlThread, ReadEnter, ReadWait, ReadCopy, ReadLast, SendAccept,
       Wake, Cleanup
  <1>6. CASE SendDone
    BY <1>2, <1>6 DEF SendDone, Return, OK
  <1>7. CASE ReadDrain
    <2>1. outcome = "running"
      BY <1>7 DEF RInv, Outcome, ReadDrain
    <2>2. CASE registered_buffers_count # 0
      BY <1>2, <1>7, <2>2 DEF ReadDrain
    <2>3. CASE registered_buffers_count = 0 /\ call_result # OK
      <3>1. faults > 0
        BY <2>3 DEF RInv, Outcome
      <3> QED
        BY <1>4, <1>7, <2>1, <2>3, <3>1 DEF ReadDrain, Return
    <2>4. CASE registered_buffers_count = 0 /\ call_result = OK
      <3>1. moved = BodyLen
        BY <1>7, <2>4, SuccessIsComplete
      <3>2. outcome' = "ok" /\ UNCHANGED <<written, faults>>
        BY <1>7, <2>4 DEF ReadDrain, Return, RInv, IInv, CallState
      <3> QED
        BY <2>1, <3>1, <3>2 DEF Download!Next, Download!Succeed
    <2> QED
      BY <2>2, <2>3, <2>4
  <1>8. CASE CurlFaults
    <2>1. faults' = faults + 1 /\ written' = written
      BY <1>8 DEF CurlFaults, ReadNoMemory, SendRefuse, WakeSpurious, CurlStop, Fault
    <2>2. outcome' = outcome \/ (outcome = "running" /\ outcome' = "failed")
      BY <1>8 DEF CurlFaults, ReadNoMemory, SendRefuse, Return, WakeSpurious, CurlStop,
         RInv, Outcome, OK
    <2> QED
      BY <1>1, <1>3, <1>4, <2>1, <2>2
  <1>9. CASE Server
    <2> PICK w \in posted : Callback(w)
      BY <1>9 DEF Server
    <2>1. faults' = faults /\ outcome' = outcome
      BY CallbackReached DEF Callback
    <2>2. outcome # "ok"
      BY DEF RInv, IInv, Quiet
    <2>3. /\ moved \in Nat
          /\ IsFiniteSet(written')
          /\ moved' \in Nat
          /\ moved' <= BodyLen
      BY WrittenSize, WrittenSizeNext DEF WrittenBounded
    <2>4. written \subseteq written' /\ moved <= moved'
      BY <2>3, WrittenGrows, FS_Subset
    <2>5. CASE moved' = moved
      BY <2>1, <2>5 DEF Download!vars
    <2>6. CASE moved' # moved
      <3>1. moved' - moved \in 1 .. (BodyLen - moved)
        BY <2>3, <2>4, <2>6, Bounds
      <3>2. \E n \in 1 .. (BodyLen - moved) : moved' = moved + n
        BY <2>3, <3>1
      <3> QED
        BY <2>1, <2>2, <3>2 DEF Download!Next, Download!Move
    <2> QED
      BY <2>5, <2>6
  <1>10. CASE Finished \/ UNCHANGED vars
    BY <1>2, <1>10 DEF Finished, vars
  <1> QED
    BY <1>5, <1>6, <1>7, <1>8, <1>9, <1>10 DEF Next

\* The download implements Transfer: the bytes in the file only grow in number,
\* libcurl is told of success only when all of them are there, and an error has
\* a cause outside read_gridftp_op.
THEOREM DownloadImplementsTransfer == ServerWrites => (Spec => DownloadIsTransfer)
  <1> SUFFICES ASSUME ServerWrites PROVE Spec => Download!Spec
    BY DEF DownloadIsTransfer
  <1>1. Init => Download!Init
    BY Bounds, FS_EmptySet DEF Init, Download!Init
  <1>2. RInv /\ RInv' /\ [Next]_vars => [Download!Next]_(Download!vars)
    BY DownloadStep
  <1>3. Spec => []RInv
    BY ReachedHolds
  <1> QED
    BY <1>1, <1>2, <1>3, PTL DEF Spec, Download!Spec
=============================================================================
