# TLA+ models of globus-dsi-rest

globus-dsi-rest is a C library for GridFTP storage interfaces (DSIs) that talk
to REST services. A DSI calls `globus_dsi_rest_request` with a method, a URI,
headers and a set of callbacks; the library runs the request in libcurl, in a
thread of its own when there is a completion callback. The callbacks that
produce the body of the request or consume the body of the response are the
DSI's own or one of the library's: blocks of memory, JSON, forms, multipart
messages, and the two that connect the body to a GridFTP data channel.

## Inventory

| Part | State | Operations | What makes it hard | What makes it correct |
|---|---|---|---|---|
| Upload data path (`write_gridftp_op.c`) | lists of registered, pending and free buffers, offset, eof, result, under a mutex and a condition | libcurl asks for the next bytes; reads are registered ahead; the server completes them in any order | two threads, a condition variable, out-of-order data, failures half-way, sections of a file | the body is the file in order, whole when success is reported; no wait for ever; nothing used after it is freed |
| Download data path (`read_gridftp_op.c`) | current and pending block, registered writes with their count, free buffers, offset, result | libcurl hands over chunks; blocks are gathered and written; completion of each write; a last call that drains | the same, a bounded window, a cleanup that must wait | every byte at its place, success only when all are written, the state outlives the callbacks |
| Buffer pool (`buffer_get.c`) | lists of the two paths | get a buffer | reuse while in flight | a buffer is in one place |
| Request lifecycle (`request.c`, `perform.c`, `request_cleanup.c`, `header.c`, `read_data.c`, `write_data.c`, `xferinfo.c`, `progress.c`) | the request structure, its result, response code and headers | prepare, perform (in a thread or not), the functions libcurl calls, merge of results, cleanup, completion | who frees, in what order; which of several errors is reported; 100 Continue | freed and completed once, first error reported, error bodies not stored |
| Handle cache, module (`handle_get.c`, `handle_release.c`, `module.c`) | array of idle handles under a mutex | get, configure, reset, release, activate, deactivate | several threads, a full or empty cache | one owner per handle, none leaked, none with another's request |
| Share locks (`module.c`) | a reader-writer mutex and an owner per kind of data | lock, unlock (libcurl does not say which kind of lock it releases) | the owner is written and read in steps of their own | a lock is released as it was taken |
| Preparation of callbacks (`request.c`) | arguments replaced by the library's own copies | one function per kind of callback | an error half-way, the cleanup of what was made | nothing freed that is not the library's, nothing left |
| Multipart writer and block writers (`write_multipart.c`, `multipart_boundary_prepare.c`, `write_block*.c`, `write_form.c`, `write_json.c`) | index of the part or block, offset, boundary being written | next bytes of the body | boundaries and parts split over calls of any size | the body is the parts with their boundaries, and it ends |
| Multipart reader (`read_multipart.c`) | index of the part, state of the match, partial boundary, header buffer | a chunk of the response | boundaries and headers split over chunks | each part gets its own bytes, once, and is told of its end |
| JSON reader, response callback (`read_json.c`, `response.c`) | a growing buffer; the values wanted | accumulate, parse; copy | allocation failure | plain sequential code |
| Idle timeout (`progress_idle_timeout.c`) | last amounts and time | progress callback | a clock, a callback that comes late or seldom | times out only if idle; a request with a timeout ends |
| URI, header, form helpers; tables (`uri_escape.c`, `uri_add_query.c`, `encode_form_data.c`, `add_header.c`, `compute_headers.c`, `header_parse.c`, `set_request.c`, `error_is_retryable.c`) | none | strings to strings | sizes of buffers | the buffer is large enough, the output decodes to the input |

The parts meet in the request: its preparation creates the state of a data
path, libcurl calls the data path through `read_data.c` and `write_data.c`, the
GridFTP server calls it back from threads of its own, and the cleanup frees it.
All requests share the handle cache and the locks of the shared libcurl data.
The hazards this leads to are listed with their lines in `PROJECT.json`.

## Modules

| Module | Models |
|---|---|
| `Transfer` | What a data path promises: bytes moved only grow, success means all of them, failure has a cause outside. |
| `GridftpWrite`, `MCGridftpWrite` | The upload data path. |
| `GridftpRead`, `MCGridftpRead` | The download data path. |
| `GridftpReadProofs` | Theorems about `GridftpRead`: its invariants; the bytes of the response and the refinement of `Transfer`. |
| `GridftpWriteProofs` | Theorems about `GridftpWrite`: its invariants; sections of the file and the refinement of `Transfer`. |
| `Request` | One request, with arbitrary callbacks of the user and libcurl as its environment. |
| `IdleTimeout`, `MCRequest` | The idle timeout; extends `Request` with its timer and with time. |
| `IdleTimeoutProofs` | Theorems about `Request` and `IdleTimeout`. |
| `RequestMemory`, `MCRequestMemory` | What the preparation of a request allocates, part by part, and what its cleanup frees. |
| `RequestMemoryProofs` | Theorems about `RequestMemory`. |
| `SharedHandles`, `MCSharedHandles` | Handle cache, activation, share locks, for any number of threads. |
| `SharedHandlesProofs` | Theorems about `SharedHandles`. |
| `WriteMultipart` | The multipart writer over the block and blocks writers and writers of the DSI; also implements `Transfer`. |
| `ReadMultipart` | The reader of a multipart response, for any body. |
| `Multipart`, `MCMultipart` | Both, end to end: the reader is given what the writer sent. |
| `MultipartProofs` | Theorems about `WriteMultipart`, and that the reader comes to no more parts than there are. |
| `MultipartReadProofs` | The theorem about `Multipart` that each part is given its own bytes. |
| `DataLemmas` | Lemmas that the proofs share: least numbers, sums of functions, what the operators on sequences do to a sequence and its set, joining and cutting sequences, intervals. |

Names of variables and actions follow the code; the "map" of `PROJECT.json`
gives the lines of each definition.

**GridftpWrite.** The variables are the fields of
`globus_i_dsi_rest_gridftp_op_arg_t`, the position of the curl thread, and the
server's outstanding reads with their answers. One call of the write callback
is a run of steps (`WriteEnter`, `WriteReady`/`WriteNotReady`, the `Register*`
actions of `register_reads`, `Copy`, `CopyDone`) in which the thread holds the
mutex (`Locked`); a server callback is one step that needs the mutex free.
Buffers carry the position of their contents in the file instead of bytes, so
the body is the sequence of positions given to libcurl. `remaining` is negative
where the code's is, and the comparison with an unsigned length keeps its
meaning (`this_read`). The server may answer in any order with any length of
data it has left; when a section was asked for, it delivers in order, as
`globus_dsi_rest.h:524-525` demands.

**GridftpRead.** The same correspondence for `read_gridftp_op.c`. A chunk is
the count of bytes libcurl passes. `locked` is explicit because one path
(`ReadNoMemory`) returns without unlocking.

**Request.** `caller` is the call of `globus_dsi_rest_request`, `worker` the
transfer, in a thread when there is a completion callback. `Transfer` contains
the functions libcurl calls; each user callback succeeds or fails at every
call. libcurl is modelled by the order of its calls and by giving up when a
callback does not process its data. The method decides, as in
`set_request.c`, whether libcurl sends a body and whether it passes one on
(never for HEAD and DELETE): `sends_body` and `no_body`. libcurl passes every
response to the header function, those before the final one too (`Respond`):
100 Continue, other 1xx responses and a proxy's answer to CONNECT. The code
starts over after 100 only; any other is to it the final response, which
`others` remembers. Ghost variables: calls made, `first_error`, `final`,
`interims`, `others`.

**IdleTimeout.** The steps of `Request` take no time; a `Tick` does. `Progress`
is the progress callback, which compares the amounts of its last call with
those of now. The clock is the computer's wall clock in the code and is taken
to go forward. `stalled` counts, independently of the timer, the ticks since
data last moved; time is kept no further than the callback can tell.

**RequestMemory.** A request is a tree of parts, named by their paths; a piece
of memory is a kind of allocation at a path. `side`, `path`, `stage` and `made`
are the place of the preparation: in the tree to write, the tree to read or the
rest of `globus_dsi_rest_request`, at which part, before or after that part's
own parts, and how many of its `steps` are made. The recursion of the code goes
down with `FirstPart`, on with `NextPart` and back with `AfterParts`. A step
succeeds or, if the configuration admits it (`Failures`), fails, which frees
what the way out of the code frees; `Recoverable` are the failures after which
the cleanup finds all that it expects. `args` says whose the argument of a part
is. The transfer's own allocations are
`Receive`, `Continue`, `BoundarySent` and `BoundaryDue`, and the blocks of its
data channels. Each of the lists of blocks is one piece, which is there while
the list is not empty; `Move` takes a block from one list, or a new one
(`buffer_get.c`), to another, and the actions from `RegisterRead` to
`WriteCallback` are the moves the data paths make, whatever order they come in.
`Cleanup` waits for the writes of downloads as the code does, and not for the
reads of uploads, frees what `request_cleanup.c` frees, which finds the
library's structures by the callback alone, and notes in `misused` where it
takes something else for one.

**SharedHandles.** A critical section of the cache's mutex is one action; what
happens between two of them (creating, configuring, resetting a handle) is an
action of its own. A share lock is taken in two steps, mutex then owner, and
released in two, owner then mutex.

**WriteMultipart.** One call of libcurl is `Call`, the iterations of the loop
(`CallBlock`, `CallUser` or `CallBlocks` with its own loop, then `PartGoesOn` or
`PartEnds`) and `Return`, which is `read_data.c`. The writers share the buffer
of the call, and each continues where its offsets say. What
is sent is a sequence of symbols, each with its part, block and position, so the
body can be compared with the message: `"nl"` is CR LF, `"dd"` two hyphens,
`"X"` the boundary string, `"h"` a header, the others data. A part that is
itself a multipart message is a writer of the DSI's own kind, which the
properties of this module justify.

**ReadMultipart, Multipart.** `Chunk` is a call of libcurl, `ScanMatch` and
`ScanMismatch` are the iterations of the inner loop, and what the outer loop
does with the result is an action per branch. `read_result` is what the call
returns: the result of the last line of headers that it parsed, which may be
malformed or find no memory; libcurl makes no call after one that failed. The
reader sees the text of the
symbols only. What the code reads outside its buffers or leaves uninitialized
is a symbol of its own (`"outside"`, `"not initialized"`). `Multipart` gives
the reader the body that the writer sent, as a server that returns what it
stored would, cut into chunks independently; this leaves the module two
descriptions of the same format, the writer's and the scanner's, to agree.
`ReadMultipart` calls the part index `read_index`, as the writer has one too.

`free_buffers` and `registered_buffers` are linked lists in the code and sets
here: they are only searched by address or popped at the head, and which free
buffer is reused cannot be observed.

## Runs

| Run | Bounds | Shows |
|---|---|---|
| `upload` | 5 buffers, blocks of 2, 2 reads, libcurl buffers of 3, a file of 4 bytes; all of it, nothing, the first 2 or all 4 bytes as sections; 2 faults | The safety properties of the upload, `UploadIsTransfer` (refinement) and `UploadEnds` (liveness) |
| `download` | 5 buffers, blocks of 2, window of 3, 8 bytes in chunks up to 5; 2 faults | The same for the download, when the server reports no failed write |
| `request` | PUT, GET, DELETE and a method set_request does not know (POST is treated as PUT, HEAD as DELETE); up to two of the responses 100, 103 and 200 (of a proxy) before the final one, final codes 200 and 404, 2 pieces of upload, 2 chunks of response; combinations of callbacks (a data channel reader with a response callback); an idle timeout of 2 ticks | Cleanup, completion, errors, `TimeoutOnlyIfIdle`, `RequestEnds` |
| `request_memory` | every kind of part alone, with and without headers, and in pairs and nested messages; the failures that the code recovers from | No part is left out of the preparation (`AllPrepared`); the cleanup frees everything but blocks that are on no free list (`OnlyBuffersLeft`), and nothing that is not the library's (`UsersMemoryKept`) |
| `shared_handles` | 4 threads, 5 handles, a cache of 2, 2 kinds of data, threads and handles symmetric | Ownership of handles, leaks, matching unlocks |
| `multipart` | messages of one and two parts of every kind, with empty parts and blocks and with data that looks like a boundary, and one of three; buffers of 1 to 9 symbols, chunks of 5 to 10 and the rest; 1 fault | The body is the message however it is cut, and the reader gives each part its bytes (`PartsReceived`); `BodyIsTransfer` (refinement), `MessageEnds` (liveness) |
| `write_multipart_plain` | two parts without a boundary | Finding: such a message never ends |
| `write_multipart_blocks` | a block of 2 after a block of 1 | Finding: more is copied than fits |
| `upload_section` | a section of 3 bytes in blocks of 2 | Finding: more than the section is read from the channel |
| `upload_cleanup` | as `upload`, 1 fault | Finding: state freed under outstanding reads |
| `download_write_error` | as `download`, failing writes | Finding: a failed write is reported as success |
| `request_continue` | a data channel reader without a response callback | Finding: after 100 Continue an error body is stored |

The bounds reach the cases that matter: blocks and libcurl's buffers of
different sizes, so blocks are copied in parts and chunks span blocks; the last
block partly filled; more chunks than the window, so waits happen; more reads
than one outstanding, so answers are reordered; two faults, so that an error
meets another error or a spurious wake-up; more threads than the cache has room
for; boundaries, of 5 to 9 symbols with the headers, longer than some of
libcurl's buffers and shorter than others, so that they are cut in two or more;
chunks that end inside a boundary, inside headers and inside what only looks
like a boundary; and a timeout of 2, so that the callback may come in each of
the ticks before it and after it. The only bound inside a guard of a module is
`MaxFaults` (adverse events of the environment: failed allocations,
registrations and reads, spurious wake-ups, libcurl giving up), with
`MaxInterim`, `MaxUpload` and `MaxBody` for the length of a request.

**Assumptions about the environment.** A transfer starts at offset 0. An
outstanding read gets at most what it asked for; in ordered mode the blocks are
full except the last of the file, and callbacks come in order. The passing
upload run takes an empty read to mean the end of the file (`EmptyReads`
admits others; the code then asserts, at `write_gridftp_op.c:461`, on a buffer
whose `buffer_used` is -1, or sleeps without a signal). The model stops an
upload at its cleanup: what a late callback does to freed memory is not
described, `ReadsEndBeforeCleanup` says that it must not happen. The module is
deactivated when no request is left. A multipart message has a part (the
preparation reads the headers of the first), and in the passing run all blocks
of a blocks writer but the first non-empty one have at most one byte, which
keeps it within its buffer (`write_blocks.c:51-54`; the run
`write_multipart_blocks` has others). A response comes in chunks not shorter
than the longest boundary (5 symbols) except the last, the data of a part does
not begin with something that looks like the start of a boundary, and the
client expects as many parts as there are; what the reader does otherwise is
under "What the runs leave out". libcurl holds one share lock at a time and
releases it in the thread that took it.

**Fairness.** `LiveSpec` of the data paths assumes that the thread runs
(`WF(CurlThread)`), that the server answers each read and runs each callback
(`WF(Server)`, `WF(Callback)`), as a thread scheduler and the server's event
loop provide. Nothing adverse is fair. That libcurl brings a transfer to an end
(`WF(Transfer)` in `Request`) is libcurl's promise for a connection that ends.
It is not assumed for a request with an idle timeout: there `IdleLiveSpec`
makes only the caller, the thread, time and the calls of the progress callback
fair, and the server may stop at any point, which is what the timeout is for.
`DownloadEnds` leaves out a failed allocation, after which the code keeps the
mutex locked for ever (`read_gridftp_op.c:100-105`), and `MessageEnds` the
messages without a boundary and the responses whose reader returns an error. `Multipart` is sequential: its fairness says that
libcurl asks until the body ends, that it passes on what it receives, and that
the code runs. The other properties need no fairness.

## Properties

Each property has a comment that says what it means in its module. Those that
took most to state: `NoLostWakeup` (a thread that sleeps without a signal has a
reason to, and somebody left to wake it up), `NoByteLost` (every byte is
accounted for in one of the places it may be), `BodyInOrder` (with the order of
the pending buffers that it depends on), `CounterMatches` (the counter two
waits rely on), `FirstErrorReturned` (of the errors of callbacks, the first is
reported and none is lost), `TimeoutOnlyIfIdle` (however late the progress
callback is called), `UsersMemoryKept` and `OnlyBuffersLeft`, `UnlockMatches`,
`NothingLost` of the multipart writer (what libcurl has, the buffer and what
the writers have left make up the message) and `PartsReceived` of the reader.
The refinements `UploadIsTransfer`, `BodyIsTransfer` and `DownloadIsTransfer`
map the moved bytes to the length of the body and to the set of positions
written. `globus_dsi_rest.h:615-619` says that the multipart writer goes on
with the next part after an error of one; the code returns the error and asks
the same part again, which is what is modelled. A run that expects a violation
checks one property which the repository states and the code does not meet; the
"findings" quote both.

## Proofs

`GridftpReadProofs` proves for every number of buffers, block size,
concurrency, response length and bound on the faults that the download
satisfies `TypeOK`, `CounterMatches`, `BufferOwnership`, `WritesInPlace`,
`NoLostWakeup` and `CleanupWaits`. None of these is inductive. `IInv` adds
`Layout` (which position of the response the pending or current block holds:
at most one block is pending, and it or the current one starts at `offset` and
ends where the chunk begins), `FreeEmpty` and `Owners` (a buffer is in one
place), `CallState` (what the variables of a call hold at each place in it) and
`Quiet` (what is true once the request is over). There is one lemma per action,
and `NextIInv` puts them together. The proofs assume `GridftpReadAssumption`
only, which the runs evaluate.

`SharedHandlesProofs` proves all invariants of `SharedHandles` for any number
of threads, handles and kinds of data and any cache size. `IInv` has two halves
that share only the places of the threads, and each half is preserved by the
other's steps (`HandlesKeepLocks`, `LocksKeepHandles`). The half of the handles
adds where a thread has a handle and that it is reset before it is cached; the
half of the locks adds that an owner field is set only while the writer is
between the two steps of locking and of unlocking, which is why comparing it
with the current thread tells a writer from a reader without a lock.

`IdleTimeoutProofs` proves the safety properties of a request with or without an
idle timeout, `EndedOnce`, `FirstErrorReturned`, `ResponseFirst` and
`TimeoutOnlyIfIdle`, for any callbacks, status codes, lengths of the bodies and
timeout. `IInv` has a part for each question: `Control` says where caller and
transfer are relative to each other and what was freed and completed by then,
`Replies` how far the responses have come and how often the response callback was
called for them (with it, the response code is that of the response unless one
other than 100 came before it), `Errors` which result
has the first error, `Timer` that the timer has counted no more than the time
since data moved, unless the next call will see that data did. Each part is
preserved by every step (`ControlKept` and its like), with the others as
assumptions where they are needed. `OnlySuccessStored` is proved for requests in
which a data channel reader comes with a response callback, which is what the
run `request` checks; without that assumption it is false (`request_continue`). It
and the half of `ResponseFirst` that says that the callback is called once and for
the final response are claimed for transfers without a response before the final
one but 100 Continue; with one they are false too, as
"What the runs leave out" describes.

`GridftpReadProofs` also proves that no byte of a response is lost (`NoByteLost`)
and that a download implements `Transfer`. Both hold while the server does not
fail a write (`ServerWrites`, the assumption of the run `download`; the run
`download_write_error` shows that a failed write ends in success). Its invariant
`RInv` adds to `IInv` which positions are already written, as the place
(`Reached`) that the reader has come to.

`GridftpWriteProofs` proves for any number of buffers, block size, concurrency,
size of libcurl's buffer and file length, any order of the server's answers and
any failures that an upload satisfies `TypeOK`, `BodyInOrder`, `NoByteLost` and
`EofpIsEndOfFile`. `IInv` says where each byte of the file is: not sent yet, in
the answer of one read, in one pending block or in the body, never in two places
(`Apart`), and nowhere else while no call failed (`Covered`). With `Empties` (a
free buffer holds nothing) and `Awake` (who is going to signal a sleeping
thread) it gives `BufferOwnership` and `NoLostWakeup`, both under `~EmptyReads`,
the assumption of the run `upload`: a read that completes with neither data nor
eof leaves a buffer pending that is never ready, the hazard at
`write_gridftp_op.c:344`.

`GridftpWriteProofs` also proves `SectionUntouched` and that an upload implements
`Transfer`, with `~EmptyReads` and for sections of whole blocks (`WholeBlocks`).
Other lengths need more than the code does: reads are registered for whole
blocks, and the run `upload_section` shows one that takes bytes past the end of
its section. The invariant `OInv` describes a server that answers in order, as it
must when it is told a length: the first m outstanding reads are answered, what
is unsent starts at one position, and while nothing failed the pending blocks and
the answers follow each other without a gap and the outstanding reads end within
the section (`Aligned`). Once the section or the file has ended, every byte the
body still misses is in a pending block (`Ended`), which is why success means all
of it.

`MultipartProofs` proves for any messages, any sizes of libcurl's buffers and
any failures that no byte of a message is lost or repeated (`NothingLost`) and
that the body implements `Transfer` (`BodyIsTransfer`). The invariant is `WInv`,
what the writers know at each of their steps, with `Whole`, which has all the
content: what libcurl has, joined with the buffer and what is `Left` to write,
is the message. Every step but `Return` keeps both `sent` and `Left`, and
`Return` moves the buffer from the one to the other. `Ending` and `BytesFrom`
are folds over the message; `EndingIs` and `BytesFromIs` unfold them by one part
or block, which is all the steps need. When the body ends without an error no
boundary and no part is left (`Errors`), so what was sent is the message: success
means all of it. `WithinBuffer` holds under `ShortBlocks`, the assumption of the
run `multipart`; the run `write_multipart_blocks` shows that it is needed.

`MultipartTypes` adds the reader, for any chunks. That `read_index` stays in range
is not a matter of types: a reader that found one boundary too many would call
a part that does not exist. It depends on the message, in which the boundary
strings are numbered in order (`MessageNumbered`, by induction from the last
part), and on the scanner, which cannot take a boundary for found without the
boundary string that is next (`Ahead`). `Matched` bounds what is kept of a
boundary that is split over chunks, also where `scanned - match_counter` wraps
around.

`MultipartReadProofs` proves `PartsReceived`: however a message is cut into buffers
on its way out and into chunks on its way in, each part is given its own bytes in
order, is told of the end only when it has all of them, and all are told when the
message ends. The reader knows only how much of a boundary it has matched; the
proof has the message beside it. `From`, `HeadAt` and `DataAt` say where the
boundary, the headers and the data of a part begin in the message, and `PartsAre`
that this is what is there: headers with an empty line at their end and no other,
data without the boundary string. The invariant is `PInv`: the reader is in the
preface, in the headers of a part, in its data or behind the last boundary
(`Located`); what it has matched is the text in front of `base + scanned`
(`Newlines`, `Dashes`); the part has the data up to some place q, and
`boundary_buffer` has the data from q to `base`, where the chunk begins (`DataOn`);
and the parts before have everything, those behind nothing (`Given`). The places
alone are not inductive: a part is told of its end too early if all that the
reader has of a chunk is the start of a boundary. `DataOn` therefore also says that
what is left of a chunk is as long as a boundary, starts the data, or ends the
message. There is one lemma for each of the four places. The lemmas `NewlinesGoOn`
and `DashesGoOn` say why the scan, which keeps at most one symbol after a mismatch,
misses nothing: what does not go on with the empty line is no end of a line, and
between the first symbol of a boundary and the boundary string, which no data has,
the first symbol does not come again.

The theorem has two hypotheses, and both are the code's (the list of what the runs
leave out has the cases). `LongChunks`: a chunk but the last is not shorter than a
boundary, so that a boundary spans two chunks at most; the case `outside` of
`PartialMatch` is then unreachable. `Recognised`: the parts have headers, and data
that does not begin with CR LF. The run `multipart` checks the property for
messages and chunks that meet both.

`RequestMemoryProofs` proves for trees of parts of any depth and width that the
preparation leaves no part out (`AllPrepared`) and that a part with an argument
of the library's own has its structure (`TypeOK`), whichever steps fail; and,
for the failures in `Recoverable`, that the cleanup frees all that was allocated
but the blocks it does not look for (`OnlyBuffersLeft`) and touches nothing of the
user's (`UsersMemoryKept`). With other failures the last two are false (below). The recursion is a walk over paths: a
part has been come to if it is above the present one, comes before it, or is
below it once its own parts are done (`PassedAt`), and the lemmas `PassDown`,
`PassAcross` and `PassUp` say which part each step of the walk adds to those,
exactly one or none. `IInv` relates this order to what is allocated: `Order`,
the parts that have an argument are those that were come to; `Arguments` and
`Structures`, what a part has by the step it is at, and all of it once it is no
longer the present one (`SettledPart`); `Pieced`, whatever is allocated belongs
to a part that was come to and is of a sort the cleanup knows for it; `Above`,
the arrays on the way down to such a part are there, so the cleanup reaches it.
`WhereItFails` turns the failures the code recovers from into the places they
can happen at, and `FailureLeaves` shows that each leaves nothing but that. The blocks are a part
of `Pieced`: `MovesStep` shows that none is on a list that is not its side's, so
what the cleanup leaves is on one of those it does not look for.

Left to TLC:

- Liveness under fairness: `UploadEnds`, `DownloadEnds`, `RequestEnds`,
  `MessageEnds`.
- The properties of the runs that expect a violation.

The library's induction theorems take an operator as a parameter and cannot be
used with the installed provers. The inductions that were needed (sums, joined
sequences, the parts of a message) are by a least counterexample (`LeastNat`).

## What the runs leave out

These cases are outside the bounds or the assumptions of the passing runs, and
no run is about them. Each was seen while translating the code.

Data path and request:

- A response before the final one that is not 100 Continue (102, 103, or a
  proxy's to CONNECT) is taken for the final one (`header.c:86`). The response
  callback is called for it, and again, with its code, at the end of the headers
  of the final response, whose status line is skipped as a header without a
  colon (`header_parse.c:59`). `response_code` stays that of the first, and the
  body of a 404 goes to the data channel. The run `request` admits such
  responses. `ResponseFirst` says what still holds for them, that the callback
  comes before the body and at most once for each response; its other half and
  `OnlySuccessStored` exclude them (`others`), and TLC refutes both at once if
  they do not.
- A failed callback that consumes data does not end the transfer: `read_data.c:89`
  gives libcurl the count as if all were well, and an error looks to the server
  like the end of the body (`globus_dsi_rest.h:163-165` says that the operation
  ends). The request reports the error afterwards (`FirstErrorReturned`).
- A POST or PUT without a write callback ends with an error at the first call
  for data.

Preparation and cleanup. Of the blocks of a data channel the cleanup frees those
on the free list only (`request_cleanup.c:107-113`, `182-188`). The pending
blocks of an upload, which hold data that was never sent, and the registered
ones are lost; so are the pending blocks of a download and the current one, when
it is given up before its last call. `OnlyBuffersLeft` says that no more than
that is left. With any one of these failures admitted in `Failures`,
TLC finds `UsersMemoryKept` violated: the headers of a part with a library
writer; the text of JSON or of a form; the mutex or condition of a data path to
the channel, and the structure or the mutex of one from it; the structure of the
multipart reader; the boundary string and the header made for it. With the
header that JSON and forms add, `OnlyBuffersLeft` is violated: its name and value
are lost. The run admits the other failures of allocations the code checks;
those it does not check cannot fail in the model.

Multipart reader (`read_multipart.c`):

- Headers of a part that arrive in two chunks are overwritten (line 135);
  `PartsReceived` asks for the headers only when they came in one. What is parsed
  is then not a header, and the response may end there with an error
  (`read_result`); of several lines only the last one's result is kept (line 157).
- A boundary that spans three chunks makes `scanned - match_counter` wrap
  around (line 214), and data that begins with what looks like a boundary makes
  it 0, and a call without data tells the part that it is over.
- The results of the callbacks of the parts are ignored.
- What follows the final boundary is given to a part that does not exist, and so
  is what follows the boundary of the last part the client expects.
- A part without headers is not recognised, and the boundary that is read from
  the `Content-Type` loses its last character when it is quoted or followed by a
  space (`header.c:145`, `header.c:159`).

Idle timeout: a callback that blocks for longer than the timeout counts as
idle, and the clock may be set.

## Not modelled, and the plan

The plan of the proofs is complete: each invariant and each refinement that a
passing run checks has its theorem.

Not planned: the sizes of escaped and encoded strings and the table of errors
that may be retried, which are functions of one argument without state; the
copying of header values in `response.c`; wording of errors and debug output;
the JSON parser, libcurl and the GridFTP server beyond the behaviour described
above; tests and packaging.
