---------------------------- MODULE GridftpRead -----------------------------
(***************************************************************************)
(* The download data path of globus-dsi-rest (read_gridftp_op.c): the body *)
(* of a REST response is written to a GridFTP data channel.                *)
(*                                                                         *)
(* The thread inside libcurl hands the response to                         *)
(* globus_l_dsi_rest_read_gridftp_op chunk by chunk, and once more with no *)
(* data when the response is complete.  The chunks are gathered in blocks, *)
(* a full block is registered as a write with the GridFTP server, which    *)
(* writes the blocks in any order and calls                                *)
(* globus_l_dsi_rest_gridftp_write_callback for each.  The two share a     *)
(* mutex and a condition variable.  When the request is over, its cleanup  *)
(* waits for the callbacks it still expects.                               *)
(*                                                                         *)
(* free_buffers and registered_buffers are sets here: they are only        *)
(* searched by address or popped.                                          *)
(***************************************************************************)
EXTENDS Integers, FiniteSets, Sequences, SequencesExt

CONSTANTS
  Buffer,        \* identities of the buffers malloc can hand out
  None,          \* no current_buffer
  BlockSize,     \* globus_gridftp_server_get_block_size
  Concurrency,   \* globus_gridftp_server_get_optimal_concurrency
  BodyLen,       \* bytes of the response
  MaxChunk,      \* the most libcurl passes in one call
  WriteResults,  \* results of a write the server may report
  MaxFaults      \* bound on the adverse events of the environment

OK == "ok"

ASSUME GridftpReadAssumption ==
  /\ None \notin Buffer
  /\ BlockSize \in Nat \ {0}
  /\ Concurrency \in Nat \ {0}
  /\ BodyLen \in Nat
  /\ MaxChunk \in Nat
  /\ WriteResults \subseteq {OK, "write_failed"}
  /\ MaxFaults \in Nat

VARIABLES
  \* globus_i_dsi_rest_gridftp_op_arg_t
  locked, result, offset, pending_buffers, current_buffer,
  registered_buffers, registered_buffers_count, free_buffers,
  buf,               \* Buffer -> buffer_len, buffer_used, contents
  \* the thread inside libcurl
  pc, signalled, eof, buffer_length, call_result,
  \* libcurl: bytes of the body it handed over, how the download ended
  given, outcome,
  \* the GridFTP server: writes outstanding, file positions written
  posted, written,
  faults

lists == <<pending_buffers, current_buffer, registered_buffers,
           registered_buffers_count, free_buffers, buf>>
locals == <<eof, buffer_length, call_result>>
vars == <<locked, result, offset, lists, pc, signalled, locals, given, outcome,
          posted, written, faults>>

Fault == faults < MaxFaults /\ faults' = faults + 1
FirstError(old, new) == IF old = OK THEN new ELSE old
Smaller(a, b) == IF a < b THEN a ELSE b
Larger(a, b) == IF a < b THEN b ELSE a

Init ==
  /\ locked = FALSE
  /\ result = OK
  /\ offset = 0
  /\ pending_buffers = <<>>
  /\ current_buffer = None
  /\ registered_buffers = {}
  /\ registered_buffers_count = 0
  /\ free_buffers = {}
  /\ buf = [b \in Buffer |-> [buffer_len |-> 0, buffer_used |-> 0, data |-> 0]]
  /\ pc = "curl"
  /\ signalled = FALSE
  /\ eof = FALSE
  /\ buffer_length = 0
  /\ call_result = OK
  /\ given = 0
  /\ outcome = "running"
  /\ posted = {}
  /\ written = {}
  /\ faults = 0

----------------------------------------------------------------------------
\* One call of globus_l_dsi_rest_read_gridftp_op

\* globus_i_dsi_rest_write_data, or the last call of the request's perform
ReadEnter ==
  /\ pc = "curl"
  /\ ~locked
  /\ locked' = TRUE
  /\ pc' = "loop"
  /\ call_result' = OK
  /\ \/ /\ \E n \in 1..Smaller(MaxChunk, BodyLen - given) :
              given' = given + n /\ buffer_length' = n
        /\ eof' = FALSE
     \/ /\ given = BodyLen
        /\ eof' = TRUE
        /\ buffer_length' = 0
        /\ UNCHANGED given
  /\ UNCHANGED <<result, offset, lists, signalled, outcome, posted, written, faults>>

\* The call returns r.  An error, or the end of the last call, ends the request.
Return(r) ==
  /\ locked' = FALSE
  /\ pc' = IF eof \/ r # OK THEN "stopped" ELSE "curl"
  /\ outcome' = IF r # OK THEN "failed" ELSE IF eof THEN "ok" ELSE outcome

window_full == registered_buffers_count >= Concurrency

\* No room for another write: globus_cond_wait
ReadWait ==
  /\ pc = "loop"
  /\ ~eof
  /\ window_full
  /\ pc' = "waiting"
  /\ locked' = FALSE
  /\ UNCHANGED <<result, offset, lists, signalled, locals, given, outcome, posted,
                 written, faults>>

\* Every buffer malloc returned that was not freed
allocated == registered_buffers \cup free_buffers \cup ToSet(pending_buffers)

Mutant_FreeFirst ==
  IF free_buffers # {} THEN free_buffers
  ELSE IF current_buffer # None THEN {current_buffer} ELSE Buffer \ allocated

\* globus_i_dsi_rest_buffer_get: the current buffer, a free one or a new one
obtainable ==
  IF current_buffer # None THEN {current_buffer}
  ELSE IF free_buffers # {} THEN free_buffers ELSE Buffer \ allocated

\* A new buffer has room for the chunk, and for a block at least
room_in(b) ==
  IF b \in allocated \cup {current_buffer}
  THEN buf[b].buffer_len
  ELSE Larger(buffer_length, BlockSize)

\* The block with n more bytes, the first of them at this position of the body
Appended(b, n) ==
  LET used == buf[b].buffer_used
  IN  [buffer_len |-> room_in(b),
       buffer_used |-> used + n,
       data |-> IF used = 0 THEN given - buffer_length ELSE buf[b].data]

Mutant_EnqueueFullOnly(block) == block.buffer_used = block.buffer_len

\* Does the block go to the server now?
block_complete(block) ==
  \/ eof /\ block.buffer_used > 0
  \/ block.buffer_used = block.buffer_len

Mutant_KeepCurrent(b, block) ==
  /\ pending_buffers' = IF block_complete(block)
                        THEN Append(pending_buffers, b) ELSE pending_buffers
  /\ current_buffer' = b

Enqueue(b, block) ==
  IF block_complete(block)
  THEN pending_buffers' = Append(pending_buffers, b) /\ current_buffer' = None
  ELSE current_buffer' = b /\ UNCHANGED pending_buffers

\* Copy what fits in a block
ReadCopy ==
  /\ pc = "loop"
  /\ ~eof
  /\ ~window_full
  /\ obtainable # {}
  /\ LET b == CHOOSE b \in obtainable : TRUE
         n == Smaller(buffer_length, room_in(b) - buf[b].buffer_used)
     IN  /\ buf' = [buf EXCEPT ![b] = Appended(b, n)]
         /\ buffer_length' = buffer_length - n
         /\ free_buffers' = free_buffers \ {b}
         /\ Enqueue(b, Appended(b, n))
  /\ pc' = "send"
  /\ UNCHANGED <<locked, result, offset, registered_buffers,
                 registered_buffers_count, signalled, eof, call_result, given,
                 outcome, posted, written, faults>>

\* malloc fails: the call returns success, the chunk is gone and the mutex is
\* still locked
ReadNoMemory ==
  /\ pc = "loop"
  /\ ~eof
  /\ ~window_full
  /\ current_buffer = None
  /\ free_buffers = {}
  /\ Fault
  /\ result' = "no_memory"
  /\ pc' = "curl"
  /\ UNCHANGED <<locked, offset, lists, signalled, locals, given, outcome, posted,
                 written>>

\* The last call sends what the current buffer holds
ReadLast ==
  /\ pc = "loop"
  /\ eof
  /\ IF current_buffer = None
     THEN UNCHANGED <<pending_buffers, current_buffer>>
     ELSE Enqueue(current_buffer, buf[current_buffer])
  /\ pc' = "send"
  /\ UNCHANGED <<locked, result, offset, registered_buffers,
                 registered_buffers_count, free_buffers, buf, signalled, locals,
                 given, outcome, posted, written, faults>>

Mutant_SameOffset(b) == offset

offset_after(b) == offset + buf[b].buffer_used

Mutant_NotCounted == registered_buffers_count

count_after == registered_buffers_count + 1

\* globus_l_dsi_rest_send_pending, for the block at the head
SendAccept ==
  /\ pc = "send"
  /\ pending_buffers # <<>>
  /\ LET b == Head(pending_buffers)
     IN  /\ posted' = posted \cup
              {[buffer |-> b, offset |-> offset,
               nbytes |-> buf[b].buffer_used, data |-> buf[b].data]}
         /\ registered_buffers' = registered_buffers \cup {b}
         /\ registered_buffers_count' = count_after
         /\ offset' = offset_after(b)
         /\ pending_buffers' = Tail(pending_buffers)
  /\ UNCHANGED <<locked, result, current_buffer, free_buffers, buf, pc, signalled,
                 locals, given, outcome, written, faults>>

\* The server refuses the write.  The block stays pending.
SendRefuse ==
  /\ pc = "send"
  /\ pending_buffers # <<>>
  /\ Fault
  /\ result' = FirstError(result, "register_failed")
  /\ call_result' = "register_failed"
  /\ IF eof
     THEN pc' = "drain" /\ UNCHANGED <<locked, outcome>>
     ELSE Return("register_failed")
  /\ UNCHANGED <<offset, lists, signalled, eof, buffer_length, given, posted, written>>

SendDone ==
  /\ pc = "send"
  /\ pending_buffers = <<>>
  /\ IF buffer_length > 0 \/ eof
     THEN pc' = (IF eof THEN "drain" ELSE "loop") /\ UNCHANGED <<locked, outcome>>
     ELSE Return(OK)
  /\ UNCHANGED <<result, offset, lists, signalled, locals, given, posted, written,
                 faults>>

\* The last call returns once no write is outstanding
ReadDrain ==
  /\ pc = "drain"
  /\ IF registered_buffers_count # 0
     THEN pc' = "draining" /\ locked' = FALSE /\ UNCHANGED outcome
     ELSE Return(call_result)
  /\ UNCHANGED <<result, offset, lists, signalled, locals, given, posted, written,
                 faults>>

Waiting == pc \in {"waiting", "draining", "cleaning"}

\* globus_cond_wait returns with the mutex locked; the cleanup locks it anew
WakeUp ==
  \/ pc = "waiting" /\ pc' = "loop" /\ locked' = TRUE
  \/ pc = "draining" /\ pc' = "drain" /\ locked' = TRUE
  \/ pc = "cleaning" /\ pc' = "stopped" /\ UNCHANGED locked

Wake ==
  /\ Waiting
  /\ signalled
  /\ WakeUp
  /\ signalled' = FALSE
  /\ UNCHANGED <<result, offset, lists, locals, given, outcome, posted, written,
                 faults>>

WakeSpurious ==
  /\ Waiting
  /\ ~signalled
  /\ Fault
  /\ WakeUp
  /\ UNCHANGED <<result, offset, lists, signalled, locals, given, outcome, posted,
                 written>>

----------------------------------------------------------------------------
\* Between two calls libcurl fails: a timeout, a broken connection, a progress
\* callback's error.  There is no last call then.
CurlStop ==
  /\ pc = "curl"
  /\ Fault
  /\ pc' = "stopped"
  /\ outcome' = "failed"
  /\ UNCHANGED <<locked, result, offset, lists, signalled, locals, given, posted,
                 written>>

Mutant_CleanupNow == TRUE

cleanup_ready == registered_buffers_count = 0

\* globus_l_dsi_rest_request_cleanup_read_part, its lock and wait in one step
Cleanup ==
  /\ pc = "stopped"
  /\ ~locked
  /\ IF cleanup_ready
     THEN pc' = "freed" /\ free_buffers' = {}
     ELSE pc' = "cleaning" /\ UNCHANGED free_buffers
  /\ UNCHANGED <<locked, result, offset, pending_buffers, current_buffer,
                 registered_buffers, registered_buffers_count, buf, signalled,
                 locals, given, outcome, posted, written, faults>>

----------------------------------------------------------------------------
Positions(start, n) == start .. (start + n - 1)

Mutant_SignalLast == registered_buffers_count' = 0

Mutant_SignalWriter == pc = "waiting"

\* Whether the callback signals the condition variable: always
signal == TRUE

\* globus_l_dsi_rest_gridftp_write_callback for the write w, whatever its result
Callback(w) ==
  /\ ~locked
  /\ posted' = posted \ {w}
  /\ \E r \in WriteResults :
       IF r = OK
       THEN written' = written \cup Positions(w.offset, w.nbytes) /\ UNCHANGED faults
       ELSE Fault /\ UNCHANGED written
  /\ registered_buffers' = registered_buffers \ {w.buffer}
  /\ free_buffers' = free_buffers \cup {w.buffer}
  /\ buf' = [buf EXCEPT ![w.buffer].buffer_used = 0]
  /\ registered_buffers_count' = registered_buffers_count - 1
  /\ signalled' = (signalled \/ (signal /\ Waiting))
  /\ UNCHANGED <<result, offset, pending_buffers, current_buffer, locked, pc, locals,
                 given, outcome>>

\* Over, or everyone blocked on the mutex that ReadNoMemory left locked
Finished ==
  /\ pc = "freed" \/ (locked /\ pc \in {"curl", "stopped"})
  /\ UNCHANGED vars

----------------------------------------------------------------------------
CurlThread ==
  \/ ReadEnter \/ ReadWait \/ ReadCopy \/ ReadLast
  \/ SendAccept \/ SendDone \/ ReadDrain
  \/ Wake \/ Cleanup

CurlFaults == ReadNoMemory \/ SendRefuse \/ WakeSpurious \/ CurlStop

Server == \E w \in posted : Callback(w)

Next == CurlThread \/ CurlFaults \/ Server \/ Finished

Spec == Init /\ [][Next]_vars

\* The thread runs and the server completes every write
Fairness == WF_vars(CurlThread) /\ WF_vars(Server)

LiveSpec == Spec /\ Fairness

----------------------------------------------------------------------------
\* The state has the types of the C structure, the server and libcurl.
TypeOK ==
  /\ locked \in BOOLEAN
  /\ result \in {OK, "no_memory", "register_failed"}
  /\ offset \in Nat
  /\ pending_buffers \in Seq(Buffer)
  /\ current_buffer \in Buffer \cup {None}
  /\ registered_buffers \subseteq Buffer
  /\ registered_buffers_count \in Nat
  /\ free_buffers \subseteq Buffer
  /\ buf \in [Buffer -> [buffer_len : Nat, buffer_used : Nat, data : Nat]]
  /\ pc \in {"curl", "loop", "waiting", "send", "drain", "draining", "stopped",
             "cleaning", "freed"}
  /\ signalled \in BOOLEAN
  /\ eof \in BOOLEAN
  /\ buffer_length \in Nat
  /\ call_result \in {OK, "register_failed"}
  /\ given \in 0..BodyLen
  /\ outcome \in {"running", "ok", "failed"}
  /\ posted \subseteq [buffer : Buffer, offset : Nat, nbytes : Nat, data : Nat]
  /\ written \subseteq Nat
  /\ faults \in 0..MaxFaults

\* registered_buffers_count is the number of writes the server has outstanding,
\* one for each buffer of registered_buffers: what both waits for zero rely on.
CounterMatches ==
  /\ registered_buffers_count = Cardinality(registered_buffers)
  /\ registered_buffers = {w.buffer : w \in posted}
  /\ \A v, w \in posted : v.buffer = w.buffer => v = w

\* A buffer is in one place only: on one list, or the current one.
BufferOwnership ==
  /\ \A j, k \in DOMAIN pending_buffers :
       pending_buffers[j] = pending_buffers[k] => j = k
  /\ ToSet(pending_buffers) \cap (registered_buffers \cup free_buffers) = {}
  /\ registered_buffers \cap free_buffers = {}
  /\ current_buffer \notin allocated

\* Each outstanding write puts its bytes where they are in the response, and the
\* buffer the server reads from still holds them.
WritesInPlace ==
  \A w \in posted :
    /\ w.offset = w.data
    /\ buf[w.buffer].data = w.data
    /\ buf[w.buffer].buffer_used = w.nbytes

\* Every byte taken from libcurl is written, being written, or in a buffer that
\* will be: a block is neither dropped nor overwritten.
NoByteLost ==
  (0 .. (given - buffer_length - 1)) \subseteq
    written
    \cup (UNION {Positions(w.offset, w.nbytes) : w \in posted})
    \cup (UNION {Positions(buf[b].data, buf[b].buffer_used) :
                   b \in ToSet(pending_buffers) \cup ({current_buffer} \ {None})})

\* A thread that sleeps unsignalled has a reason to, and a write whose callback
\* will wake it up.
NoLostWakeup ==
  Waiting /\ ~signalled =>
    /\ posted # {}
    /\ pc = "waiting" => window_full

\* The structure is freed only when no callback can use it any more.
CleanupWaits == pc = "freed" => posted = {}

\* The download implements Transfer: what is written grows to the whole response,
\* success means it got there, failure has a cause.
Download == INSTANCE Transfer WITH
  total <- BodyLen, moved <- Cardinality(written), disturbed <- faults > 0
DownloadIsTransfer == Download!Spec

\* Every download comes to an end, unless an allocation failed.
DownloadEnds == <>(pc = "freed" \/ result = "no_memory")
=============================================================================
