---------------------------- MODULE GridftpWrite ----------------------------
(***************************************************************************)
(* The upload data path of globus-dsi-rest (write_gridftp_op.c): data read *)
(* from a GridFTP data channel becomes the body of a REST request.         *)
(*                                                                         *)
(* Two parties share one globus_i_dsi_rest_gridftp_op_arg_t under a mutex  *)
(* and a condition variable: the thread inside libcurl, which calls the    *)
(* write callback for the next bytes of the body, and the GridFTP server,  *)
(* which completes registered reads, in any order, by calling              *)
(* globus_l_dsi_rest_gridftp_read_callback.  A critical section of the     *)
(* curl thread is a run of steps whose pc is in Locked; a callback of the  *)
(* server is one step and needs the mutex to be free.                      *)
(*                                                                         *)
(* The lists free_buffers and registered_buffers are sets here: they are   *)
(* only searched by address or popped, and which free buffer is reused is  *)
(* not observable.  pending_buffers is a sequence, the code keeps it       *)
(* sorted.                                                                 *)
(***************************************************************************)
EXTENDS Integers, FiniteSets, Sequences, SequencesExt

CONSTANTS
  Buffer,        \* identities of the buffers malloc can hand out
  BlockSize,     \* globus_gridftp_server_get_block_size
  Concurrency,   \* globus_gridftp_server_get_optimal_concurrency
  CurlSize,      \* buffer_length of each call of libcurl
  FileLen,       \* bytes the GridFTP client has to send
  Lengths,       \* values of gridftp_op_arg->length, -1 for all data
  MaxFaults,     \* bound on the adverse events of the environment
  EmptyReads     \* may the server complete a read with no data and no eof?

ASSUME GridftpWriteAssumption ==
  /\ BlockSize \in Nat \ {0}
  /\ Concurrency \in Nat \ {0}
  /\ CurlSize \in Nat \ {0}
  /\ FileLen \in Nat
  /\ Lengths \subseteq Nat \cup {-1}
  /\ MaxFaults \in Nat
  /\ EmptyReads \in BOOLEAN

OK == "ok"
Errors == {"no_memory", "register_failed", "read_failed"}
\* (uint64_t) -1, the end_offset of a transfer of all data
NoEnd == -1
\* buffer_used = UINT64_C(-1), left behind by an empty read
UsedUp == -1
NoAnswer == [filled |-> FALSE, offset |-> 0, nbytes |-> 0, eof |-> FALSE, result |-> OK]

VARIABLES
  \* globus_i_dsi_rest_gridftp_op_arg_t
  result, offset, end_offset, eof, eofp,
  pending_buffers, registered_buffers, free_buffers,
  buf,               \* Buffer -> its transfer_offset, buffer_used and contents
  \* the thread inside libcurl
  pc, signalled,     \* where it is; whether its cond_wait was signalled
  bytes_registered, buffer_filled,
  \* libcurl: the body it was given, how the upload ended for it
  body, outcome,
  \* the GridFTP server: outstanding reads in order of registration, what
  \* each asked for and its answer, the bytes it has not handed out
  posted, asked, answer, unsent,
  faults             \* adverse events so far

flags == <<result, eof, eofp>>
lists == <<pending_buffers, registered_buffers, free_buffers, buf>>
locals == <<bytes_registered, buffer_filled>>
curlvars == <<body, outcome>>
servervars == <<posted, asked, answer, unsent>>
vars == <<flags, offset, end_offset, lists, pc, signalled, locals, curlvars,
          servervars, faults>>

\* The curl thread holds the mutex
Locked == {"loop", "register", "copy"}
\* The environment does something adverse
Fault == faults < MaxFaults /\ faults' = faults + 1
FirstError(old, new) == IF old = OK THEN new ELSE old
\* With a length, the DSI makes the server deliver in order
Ordered == end_offset # NoEnd

----------------------------------------------------------------------------
\* Predicates and helpers of write_gridftp_op.c

is_transfer_offset_ready ==
  /\ pending_buffers # <<>>
  /\ buf[Head(pending_buffers)].transfer_offset = offset

Mutant_CompleteAtEof == eof

is_reading_complete == eof /\ registered_buffers = {}

\* globus_l_dsi_rest_count_buffers: bytes_available of the registered list
bytes_available ==
  FoldFunctionOnSet(+, 0, [b \in Buffer |-> BlockSize - buf[b].buffer_used],
                    registered_buffers)

\* A buffer malloc returned is on one of the lists until it is freed
allocated == registered_buffers \cup free_buffers \cup ToSet(pending_buffers)

\* globus_i_dsi_rest_buffer_get: reuse a free buffer, or malloc another
obtainable == IF free_buffers # {} THEN free_buffers ELSE Buffer \ allocated

Mutant_IgnoreRegistered == end_offset - offset

remaining == end_offset - offset - bytes_registered

\* `remaining` is signed and buffer_len is not: a negative one compares as huge
this_read ==
  IF end_offset # NoEnd /\ 0 <= remaining /\ remaining < BlockSize
  THEN remaining
  ELSE BlockSize

\* Register another read?
read_wanted ==
  /\ Cardinality(registered_buffers) < Concurrency
  /\ ~(end_offset # NoEnd /\ remaining = 0)

Mutant_AppendAtTail(k, off) == TRUE

\* The blocks of pending_buffers[1..k] end at or before off
EndBefore(k, off) ==
  \A j \in 1..k :
    LET p == buf[pending_buffers[j]]
    IN  p.transfer_offset + p.buffer_used <= off

----------------------------------------------------------------------------
Init ==
  /\ result = OK
  /\ offset = 0
  /\ end_offset \in Lengths
  /\ eof = FALSE
  /\ eofp = FALSE
  /\ pending_buffers = <<>>
  /\ registered_buffers = {}
  /\ free_buffers = {}
  /\ buf = [b \in Buffer |-> [transfer_offset |-> -1, buffer_used |-> 0, data |-> 0]]
  /\ pc = "curl"
  /\ signalled = FALSE
  /\ bytes_registered = 0
  /\ buffer_filled = 0
  /\ body = <<>>
  /\ outcome = "running"
  /\ posted = <<>>
  /\ asked = [b \in Buffer |-> 0]
  /\ answer = [b \in Buffer |-> NoAnswer]
  /\ unsent = 0..(FileLen - 1)
  /\ faults = 0

----------------------------------------------------------------------------
\* The curl thread: one call of globus_l_dsi_rest_write_gridftp_op

\* The call returns n bytes and result r.  globus_i_dsi_rest_read_data hands
\* n to libcurl, for which no bytes are the end of the body.
Return(n, r) ==
  /\ pc' = IF n > 0 THEN "curl" ELSE "sent"
  /\ outcome' = IF n > 0 THEN outcome ELSE IF r = OK THEN "ok" ELSE "failed"

WriteEnter ==
  /\ pc = "curl"
  /\ buffer_filled' = 0
  /\ IF offset = end_offset
     THEN eof' = TRUE /\ Return(0, OK)
     ELSE pc' = "loop" /\ UNCHANGED <<eof, outcome>>
  /\ UNCHANGED <<result, eofp, offset, end_offset, lists, signalled,
                 bytes_registered, body, servervars, faults>>

\* The condition of the wait loop is false
WriteReady ==
  /\ pc = "loop"
  /\ is_transfer_offset_ready \/ is_reading_complete
  /\ IF result # OK
     THEN Return(0, result)
     ELSE pc' = "copy" /\ UNCHANGED outcome
  /\ UNCHANGED <<flags, offset, end_offset, lists, signalled, locals, body,
                 servervars, faults>>

\* register_reads returned r: wait, unless there is nothing to wait for
RegisterReturn(r) ==
  /\ result' = FirstError(result, r)
  /\ IF result' # OK /\ registered_buffers = {}
     THEN Return(0, result')
     ELSE pc' = "waiting" /\ UNCHANGED outcome

WriteNotReady ==
  /\ pc = "loop"
  /\ ~is_transfer_offset_ready
  /\ ~is_reading_complete
  /\ IF result = OK /\ ~eof
     THEN /\ pc' = "register"
          /\ bytes_registered' = bytes_available
          /\ UNCHANGED <<result, outcome>>
     ELSE RegisterReturn(OK) /\ UNCHANGED bytes_registered
  /\ UNCHANGED <<eof, eofp, offset, end_offset, lists, signalled,
                 buffer_filled, body, servervars, faults>>

RegisterEnough ==
  /\ pc = "register"
  /\ ~read_wanted
  /\ RegisterReturn(OK)
  /\ UNCHANGED <<eof, eofp, offset, end_offset, lists, signalled, locals, body,
                 servervars, faults>>

RegisterNoMemory ==
  /\ pc = "register"
  /\ read_wanted
  /\ free_buffers = {}
  /\ Fault
  /\ RegisterReturn("no_memory")
  /\ UNCHANGED <<eof, eofp, offset, end_offset, lists, signalled, locals, body,
                 servervars>>

\* globus_gridftp_server_register_read accepts the buffer
RegisterRead ==
  /\ pc = "register"
  /\ read_wanted
  /\ obtainable # {}
  /\ LET b == CHOOSE b \in obtainable : TRUE
     IN  /\ registered_buffers' = registered_buffers \cup {b}
         /\ free_buffers' = free_buffers \ {b}
         /\ buf' = [buf EXCEPT ![b].transfer_offset = -1]
         /\ posted' = Append(posted, b)
         /\ asked' = [asked EXCEPT ![b] = this_read]
  /\ bytes_registered' = bytes_registered + this_read
  /\ UNCHANGED <<flags, offset, end_offset, pending_buffers, pc, signalled,
                 buffer_filled, curlvars, answer, unsent, faults>>

\* ... or refuses it
RegisterFail ==
  /\ pc = "register"
  /\ read_wanted
  /\ obtainable # {}
  /\ Fault
  /\ LET b == CHOOSE b \in obtainable : TRUE
     IN  /\ free_buffers' = free_buffers \cup {b}
         /\ buf' = [buf EXCEPT ![b].transfer_offset = -1]
  /\ RegisterReturn("register_failed")
  /\ UNCHANGED <<eof, eofp, offset, end_offset, pending_buffers,
                 registered_buffers, signalled, locals, body, servervars>>

\* globus_cond_wait returns, because of a signal or for no reason
Wake ==
  /\ pc = "waiting"
  /\ signalled
  /\ pc' = "loop"
  /\ signalled' = FALSE
  /\ UNCHANGED <<flags, offset, end_offset, lists, locals, curlvars, servervars,
                 faults>>

WakeSpurious ==
  /\ pc = "waiting"
  /\ ~signalled
  /\ Fault
  /\ pc' = "loop"
  /\ UNCHANGED <<flags, offset, end_offset, lists, signalled, locals, curlvars,
                 servervars>>

Mutant_NoClamp(b) == buf[b].buffer_used

to_copy(b) ==
  LET room == CurlSize - buffer_filled
  IN  IF room < buf[b].buffer_used THEN room ELSE buf[b].buffer_used

Mutant_NoMemmove(p, n) ==
  [p EXCEPT !.transfer_offset = @ + n, !.buffer_used = @ - n]

\* What is left of a block after its first n bytes were copied
AfterPartialCopy(p, n) ==
  [p EXCEPT !.transfer_offset = @ + n, !.buffer_used = @ - n, !.data = @ + n]

\* A buffer on its way to free_buffers; what it contains is left alone
Reset(p, to, used) == [p EXCEPT !.transfer_offset = to, !.buffer_used = used]

CopyNext == buffer_filled < CurlSize /\ is_transfer_offset_ready

\* Copy from the block at the offset, and free its buffer once it is empty
Copy ==
  /\ pc = "copy"
  /\ CopyNext
  /\ LET b == Head(pending_buffers)
         n == to_copy(b)
     IN  /\ body' = body \o [k \in 1..n |-> buf[b].data + k - 1]
         /\ buffer_filled' = buffer_filled + n
         /\ offset' = offset + n
         /\ IF n < buf[b].buffer_used
            THEN /\ buf' = [buf EXCEPT ![b] = AfterPartialCopy(@, n)]
                 /\ UNCHANGED <<pending_buffers, free_buffers>>
            ELSE /\ buf' = [buf EXCEPT ![b] = Reset(@, -1, 0)]
                 /\ pending_buffers' = Tail(pending_buffers)
                 /\ free_buffers' = free_buffers \cup {b}
  /\ UNCHANGED <<flags, end_offset, registered_buffers, pc, signalled,
                 bytes_registered, outcome, servervars, faults>>

CopyDone ==
  /\ pc = "copy"
  /\ ~CopyNext
  /\ Return(buffer_filled, OK)
  /\ UNCHANGED <<flags, offset, end_offset, lists, signalled, locals, body,
                 servervars, faults>>

\* Between two calls libcurl gives the upload up: a timeout, a connection
\* that broke, a progress callback that failed
CurlStop ==
  /\ pc = "curl"
  /\ Fault
  /\ pc' = "sent"
  /\ outcome' = "failed"
  /\ UNCHANGED <<flags, offset, end_offset, lists, signalled, locals, body,
                 servervars>>

\* globus_l_dsi_rest_request_cleanup_write_part
Cleanup ==
  /\ pc = "sent"
  /\ pc' = "freed"
  /\ free_buffers' = {}
  /\ UNCHANGED <<flags, offset, end_offset, pending_buffers, registered_buffers,
                 buf, signalled, locals, curlvars, servervars, faults>>

----------------------------------------------------------------------------
\* The GridFTP server answers outstanding reads

Answer(b, o, n, e, r) ==
  answer' = [answer EXCEPT ![b] =
    [filled |-> TRUE, offset |-> o, nbytes |-> n, eof |-> e, result |-> r]]

Answerable(k) ==
  /\ ~answer[posted[k]].filled
  /\ Ordered => \A j \in 1..(k - 1) : answer[posted[j]].filled

progvars == <<flags, offset, end_offset, lists, pc, signalled, locals, curlvars>>

\* Any block that was not sent yet.  In order: the next bytes, as many as fit.
ServerData(k) ==
  /\ Answerable(k)
  /\ \E o \in unsent, n \in 1..asked[posted[k]] :
       /\ o..(o + n - 1) \subseteq unsent
       /\ Ordered => /\ \A u \in unsent : o <= u
                     /\ n < asked[posted[k]] => o + n = FileLen
       /\ unsent' = unsent \ (o..(o + n - 1))
       /\ \E e \in BOOLEAN : (e => unsent' = {}) /\ Answer(posted[k], o, n, e, OK)
  /\ UNCHANGED <<progvars, posted, asked, faults>>

\* No data: at the end of the file, or (EmptyReads) at any time
ServerNothing(k) ==
  /\ Answerable(k)
  /\ IF unsent = {} THEN UNCHANGED faults ELSE EmptyReads /\ Fault
  /\ \E o \in {0, FileLen} :
       (unsent = {} => o = FileLen) /\ Answer(posted[k], o, 0, unsent = {}, OK)
  /\ UNCHANGED <<progvars, posted, asked, unsent>>

ServerError(k) ==
  /\ Answerable(k)
  /\ Fault
  /\ Answer(posted[k], 0, 0, FALSE, "read_failed")
  /\ UNCHANGED <<progvars, posted, asked, unsent>>

----------------------------------------------------------------------------
\* globus_l_dsi_rest_gridftp_read_callback, run by the server with its answer

at_end(a) == end_offset # 0 /\ a.offset + a.nbytes = end_offset

Mutant_EofOfSection(a) == eofp' = (eofp \/ a.eof \/ at_end(a))

\* The application sees the eof of the server only
ReportEof(a) == eofp' = (eofp \/ a.eof)

Mutant_KeepBadBuffer(b) ==
  registered_buffers' =
    IF answer[b].result = OK THEN registered_buffers \ {b} ELSE registered_buffers

Unregister(b) == registered_buffers' = registered_buffers \ {b}

\* What every callback does: note the result, take the buffer off the list of
\* registered ones.  bad is whether this or an earlier call failed.
CallbackStart(k, bad) ==
  LET a == answer[posted[k]]
  IN  /\ pc \notin Locked
      /\ pc # "freed"
      /\ a.filled
      /\ Ordered => k = 1
      /\ result' = FirstError(result, a.result)
      /\ bad <=> (result' # OK)
      /\ ReportEof(a)
      /\ eof' = (eof \/ a.eof \/ at_end(a) \/ bad)
      /\ Unregister(posted[k])
      /\ posted' = RemoveAt(posted, k)
      /\ answer' = [answer EXCEPT ![posted[k]] = NoAnswer]
      /\ UNCHANGED <<offset, end_offset, pc, locals, curlvars, asked, unsent, faults>>

Signal == signalled' = (signalled \/ pc = "waiting")

Mutant_SignalData(a) == a.nbytes > 0

\* Is the waiting thread signalled after a good read?
signal(a) == a.nbytes > 0 \/ a.eof \/ at_end(a)

Mutant_NoDataWithEof(a) == a.nbytes > 0 /\ ~a.eof

has_data(a) == a.nbytes > 0

CallbackBad(k) ==
  /\ CallbackStart(k, TRUE)
  /\ buf' = [buf EXCEPT ![posted[k]] = Reset(@, 0, 0)]
  /\ free_buffers' = free_buffers \cup {posted[k]}
  /\ Signal
  /\ UNCHANGED pending_buffers

CallbackEmpty(k) ==
  LET a == answer[posted[k]]
  IN  /\ CallbackStart(k, FALSE)
      /\ ~has_data(a)
      /\ buf' = [buf EXCEPT ![posted[k]] = Reset(@, -1, UsedUp)]
      /\ free_buffers' = free_buffers \cup {posted[k]}
      /\ IF signal(a) THEN Signal ELSE UNCHANGED signalled
      /\ UNCHANGED pending_buffers

CallbackData(k) ==
  LET a == answer[posted[k]]
  IN  /\ CallbackStart(k, FALSE)
      /\ has_data(a)
      /\ buf' = [buf EXCEPT ![posted[k]] =
                   [transfer_offset |-> a.offset, buffer_used |-> a.nbytes,
                    data |-> a.offset]]
      /\ \E p \in 0..Len(pending_buffers) :
           /\ EndBefore(p, a.offset)
           /\ p < Len(pending_buffers) => ~EndBefore(p + 1, a.offset)
           /\ pending_buffers' = InsertAt(pending_buffers, p + 1, posted[k])
      /\ IF signal(a) THEN Signal ELSE UNCHANGED signalled
      /\ UNCHANGED free_buffers

Finished == pc = "freed" /\ UNCHANGED vars

----------------------------------------------------------------------------
CurlThread ==
  \/ WriteEnter \/ WriteReady \/ WriteNotReady
  \/ RegisterEnough \/ RegisterRead
  \/ Wake \/ Copy \/ CopyDone
  \/ Cleanup

CurlFaults == RegisterNoMemory \/ RegisterFail \/ WakeSpurious \/ CurlStop

Reads == 1..Len(posted)

Server == \E k \in Reads : ServerData(k) \/ ServerNothing(k)
ServerFaults == \E k \in Reads : ServerError(k)
Callback == \E k \in Reads : CallbackBad(k) \/ CallbackEmpty(k) \/ CallbackData(k)

Next ==
  \/ CurlThread \/ CurlFaults
  \/ Server \/ ServerFaults
  \/ Callback
  \/ Finished

Spec == Init /\ [][Next]_vars

\* The thread runs, the server answers every read and runs its callback
Fairness == WF_vars(CurlThread) /\ WF_vars(Server) /\ WF_vars(Callback)

LiveSpec == Spec /\ Fairness

----------------------------------------------------------------------------
Block(b) == buf[b].data .. (buf[b].data + buf[b].buffer_used - 1)

\* The state has the types of the C structure, the server and libcurl.
TypeOK ==
  /\ result \in {OK} \cup Errors
  /\ offset \in Nat
  /\ end_offset \in Nat \cup {NoEnd}
  /\ eof \in BOOLEAN
  /\ eofp \in BOOLEAN
  /\ pending_buffers \in Seq(Buffer)
  /\ registered_buffers \subseteq Buffer
  /\ free_buffers \subseteq Buffer
  /\ buf \in [Buffer -> [transfer_offset : Int, buffer_used : Int, data : Nat]]
  /\ pc \in {"curl", "waiting", "sent", "freed"} \cup Locked
  /\ signalled \in BOOLEAN
  /\ bytes_registered \in Int
  /\ buffer_filled \in 0..CurlSize
  /\ body \in Seq(Nat)
  /\ outcome \in {"running", "ok", "failed"}
  /\ posted \in Seq(Buffer)
  /\ asked \in [Buffer -> Int]
  /\ answer \in [Buffer -> [filled : BOOLEAN, offset : Nat, nbytes : Nat,
                            eof : BOOLEAN, result : {OK} \cup Errors]]
  /\ unsent \subseteq 0..(FileLen - 1)
  /\ faults \in 0..MaxFaults

\* While reads may still be registered, a free buffer holds nothing: register_reads
\* asserts it of the buffer it takes (write_gridftp_op.c:461).
FreeBuffersEmpty == ~eof => \A b \in free_buffers : buf[b].buffer_used = 0

\* A buffer is on at most one list, once, and can be reused when it is free.  The reads
\* the server has outstanding are those on the registered list, so the callback finds
\* its buffer there, as it asserts (write_gridftp_op.c:284).
BufferOwnership ==
  /\ \A j, k \in DOMAIN pending_buffers :
       pending_buffers[j] = pending_buffers[k] => j = k
  /\ ToSet(pending_buffers) \cap (registered_buffers \cup free_buffers) = {}
  /\ registered_buffers \cap free_buffers = {}
  /\ FreeBuffersEmpty
  /\ \A j, k \in DOMAIN posted : posted[j] = posted[k] => j = k
  /\ ToSet(posted) = registered_buffers

\* The pending blocks are sorted, do not overlap and lie after the offset.
Sorted ==
  \A j \in DOMAIN pending_buffers :
    LET p == buf[pending_buffers[j]]
    IN  /\ p.transfer_offset = p.data
        /\ p.buffer_used > 0
        /\ p.transfer_offset >= offset
        /\ \A k \in 1..(j - 1) :
             LET q == buf[pending_buffers[k]]
             IN  q.transfer_offset + q.buffer_used <= p.transfer_offset

\* The body libcurl was given is the file from its start to the offset, in order,
\* whatever order the blocks arrived in and however the copies split them.  What is
\* to follow is pending: sorted, without overlaps, after the offset.
BodyInOrder ==
  /\ body = [k \in 1..offset |-> k - 1]
  /\ Sorted

\* As long as no call failed, a byte the server handed out is in the body, in a
\* pending block, or in an answer whose callback has not run: none is dropped.
NoByteLost ==
  result = OK =>
    (0..(FileLen - 1)) \ unsent \subseteq
      ToSet(body)
      \cup (UNION {Block(b) : b \in ToSet(pending_buffers)})
      \cup (UNION {answer[b].offset .. (answer[b].offset + answer[b].nbytes - 1) :
                     b \in ToSet(posted)})

\* The curl thread sleeps unsignalled only on a false condition and with a read
\* outstanding whose callback can wake it up.
NoLostWakeup ==
  pc = "waiting" /\ ~signalled =>
    /\ ~is_transfer_offset_ready
    /\ ~is_reading_complete
    /\ registered_buffers # {}

\* The structure is freed only when the server has no read outstanding on it.
ReadsEndBeforeCleanup == pc = "freed" => posted = <<>>

\* An upload of `length` bytes leaves the rest of the file to the next request.
SectionUntouched == Ordered => end_offset..(FileLen - 1) \subseteq unsent

\* The application's eof says that the file ended, not that the section did.
EofpIsEndOfFile == eofp => unsent = {}

\* The upload implements Transfer: the body grows towards the whole section (or
\* what the file has of it), success means it got there, failure has a cause.
Section == IF Ordered /\ end_offset < FileLen THEN end_offset ELSE FileLen
Upload == INSTANCE Transfer WITH
  total <- Section, moved <- Len(body), disturbed <- faults > 0
UploadIsTransfer == Upload!Spec

\* Every upload comes to an end: no wait of the curl thread lasts for ever.
UploadEnds == <>(pc = "freed")
=============================================================================
