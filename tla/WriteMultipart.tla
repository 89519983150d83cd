--------------------------- MODULE WriteMultipart ---------------------------
(***************************************************************************)
(* The multipart writer of globus-dsi-rest (write_multipart.c) over the    *)
(* writers of its parts: the block and blocks writers (write_block.c,      *)
(* write_blocks.c; the JSON and form writers are the block writer over an  *)
(* encoded block) and the DSI's own writers.  libcurl asks for the body in *)
(* buffers of any size through globus_i_dsi_rest_read_data; each call      *)
(* continues a part or a boundary where the last one ran out of buffer.    *)
(*                                                                         *)
(* Text is a sequence of symbols: "nl" for CR LF, "dd" for two hyphens,    *)
(* "X" for the boundary string, "h" for a header, anything else for data.  *)
(* What is sent is <<part, block, k, symbol>>; block 0 is the boundary,    *)
(* with the part's headers, that precedes the part.  Parts count from 0,   *)
(* as in the code.                                                         *)
(***************************************************************************)
EXTENDS Integers, Sequences, SequencesExt

CONSTANTS
  Messages,        \* the messages that may be sent: content type and parts
  BufferLengths,   \* sizes of the buffers libcurl may ask to fill
  MaxFaults        \* bound on failed allocations and part writers

Kinds == {"block", "blocks", "user"}

\* headers: how many a part has; blocks: the text of its blocks
PartType == [kind : Kinds, headers : Nat, blocks : Seq(Seq(STRING))]
\* content_type: no such header, a multipart type with or without a boundary, or
\* another type
MessageType ==
  [content_type : {"none", "multipart", "no_boundary", "other"}, parts : Seq(PartType)]

ASSUME WriteMultipartAssumption ==
  /\ Messages \subseteq MessageType
  /\ \A message \in Messages :
       /\ message.parts # <<>>
       /\ \A part \in ToSet(message.parts) :
            /\ \A text \in ToSet(part.blocks) : "X" \notin ToSet(text)
            /\ part.kind # "blocks" => Len(part.blocks) = 1
  /\ BufferLengths \subseteq Nat \ {0}
  /\ MaxFaults \in Nat

OK == "ok"
\* No boundary is being written
NULL == -1

VARIABLES
  message, pc,
  \* globus_i_dsi_rest_write_multipart_arg_t: is there a boundary string; the part
  \* being written; the boundary being written, by the part it precedes
  boundary, part_index, current_boundary, current_boundary_offset,
  \* for each part its current block and the offset in it
  position,
  \* the call: size of the buffer, what it holds, result; bytes the last part
  \* writer gave, and the buffer size write_blocks works with
  buffer_length, buffer, result, this_copy, blocks_length,
  \* request->result, and the body libcurl has
  request_result, sent,
  faults

multipart == <<boundary, part_index, current_boundary, current_boundary_offset>>
call == <<buffer_length, result>>
writer == <<position, this_copy, blocks_length>>
transfer == <<request_result, sent>>
vars == <<message, pc, multipart, writer, call, buffer, transfer, faults>>

num_parts == Len(message.parts)
part(i) == message.parts[i + 1]
copied == Len(buffer)
room == buffer_length - copied
Smaller(m, n) == IF m < n THEN m ELSE n
FirstError(old, new) == IF old = OK THEN new ELSE old
Fault == faults < MaxFaults /\ faults' = faults + 1

----------------------------------------------------------------------------
\* globus_l_dsi_rest_prepare_write_multipart_callback

Mutant_FoundOnly == message.content_type = "multipart"

\* A boundary is found in a multipart Content-Type, or made when there is none
has_boundary == message.content_type \in {"none", "multipart"}

\* The library's copy of the argument of a block writer.  For JSON and a form it is
\* a block with the encoded text.
fresh == [block |-> 1, offset |-> 0]

Init ==
  /\ message \in Messages
  /\ pc = "prepare"
  /\ boundary = FALSE
  /\ part_index = 0
  /\ current_boundary = NULL
  /\ current_boundary_offset = 0
  /\ position = [i \in 0..(num_parts - 1) |-> fresh]
  /\ buffer_length = 0
  /\ buffer = <<>>
  /\ result = OK
  /\ this_copy = 0
  /\ blocks_length = 0
  /\ request_result = OK
  /\ sent = <<>>
  /\ faults = 0

\* The boundary of the first part is ready before the first call
first_boundary == IF has_boundary THEN 0 ELSE NULL

Prepare ==
  /\ pc = "prepare"
  /\ pc' = "idle"
  /\ boundary' = has_boundary
  /\ current_boundary' = first_boundary
  /\ UNCHANGED <<message, part_index, current_boundary_offset, writer, call, buffer,
                 transfer, faults>>

\* The boundary or a part cannot be prepared: the request is not performed
PrepareFails ==
  /\ pc = "prepare"
  /\ Fault
  /\ pc' = "ended"
  /\ request_result' = "not_prepared"
  /\ UNCHANGED <<message, multipart, writer, call, buffer, sent>>

----------------------------------------------------------------------------
\* The boundaries

\* globus_l_dsi_rest_prepare_boundary, for part i or the final one
boundary_text(i) ==
  IF i = num_parts THEN <<"nl", "dd", "X", "dd", "nl">>
  ELSE <<"nl", "dd", "X", "nl">> \o FlattenSeq([j \in 1..part(i).headers |-> <<"h", "nl">>])
       \o <<"nl">>

\* What is sent for block b of part i, if text is its text
Symbols(i, b, text) == [k \in DOMAIN text |-> <<i, b, k, text[k]>>]

Mutant_KeepOffset(i, n) == current_boundary_offset + n

\* The offset in current_boundary when n more bytes of it are written
offset_after(i, n) ==
  IF current_boundary_offset + n = Len(boundary_text(i)) THEN 0
  ELSE current_boundary_offset + n

\* globus_l_dsi_rest_write_boundary: as much of boundary i as there is space for
WriteBoundary(i, written, space) ==
  LET text == Symbols(i, 0, boundary_text(i))
      n == Smaller(space, Len(text) - current_boundary_offset)
  IN /\ buffer' = written
          \o SubSeq(text, current_boundary_offset + 1, current_boundary_offset + n)
     /\ current_boundary' = IF current_boundary_offset + n = Len(text) THEN NULL ELSE i
     /\ current_boundary_offset' = offset_after(i, n)

----------------------------------------------------------------------------
\* globus_l_dsi_rest_write_multipart

\* libcurl asks for more, and gets the rest of a boundary first
Call ==
  /\ pc = "idle"
  /\ pc' = "loop"
  /\ buffer_length' \in BufferLengths
  /\ result' = OK
  /\ IF current_boundary # NULL
     THEN WriteBoundary(current_boundary, <<>>, buffer_length')
     ELSE UNCHANGED <<current_boundary, current_boundary_offset, buffer>>
  /\ UNCHANGED <<message, boundary, part_index, writer, transfer, faults>>

goes_on == copied < buffer_length /\ part_index < num_parts

\* The current part is asked for more
PartCalled(kind) ==
  /\ pc = "loop"
  /\ goes_on
  /\ part(part_index).kind = kind
  /\ UNCHANGED <<message, multipart, call, transfer>>

at == position[part_index]
block == Symbols(part_index, at.block, part(part_index).blocks[at.block])
left == Len(block) - at.offset
\* The next n bytes of the part
Bytes(n) == SubSeq(block, at.offset + 1, at.offset + n)

Mutant_WholeBlock(space) == left
amount(space) == Smaller(left, space)

\* The part writer gives n bytes
Give(n) ==
  /\ pc' = "returned"
  /\ buffer' = buffer \o Bytes(n)
  /\ position' = [position EXCEPT ![part_index].offset = @ + n]
  /\ this_copy' = n
  /\ UNCHANGED <<blocks_length, faults>>

\* globus_l_dsi_rest_write_block
CallBlock == PartCalled("block") /\ Give(amount(room))

\* A writer of the DSI gives what it likes, nothing at its end only
CallUser ==
  /\ PartCalled("user")
  /\ \E n \in 0..amount(room) : (n = 0 <=> left = 0) /\ Give(n)

\* ... or fails
CallUserFails ==
  /\ pc = "loop"
  /\ goes_on
  /\ part(part_index).kind = "user"
  /\ Fault
  /\ result' = "part_failed"
  /\ pc' = "return"
  /\ UNCHANGED <<message, multipart, writer, buffer_length, buffer, transfer>>

\* globus_l_dsi_rest_write_blocks is called with what is left of the buffer
CallBlocks ==
  /\ PartCalled("blocks")
  /\ pc' = "blocks"
  /\ this_copy' = 0
  /\ blocks_length' = room
  /\ UNCHANGED <<position, buffer, faults>>

blocks_go_on ==
  /\ at.block <= Len(part(part_index).blocks)
  /\ this_copy < blocks_length

Mutant_SkipRest(n) == [block |-> at.block + 1, offset |-> 0]

\* Where write_blocks goes on after n bytes: in the same block or the next one
advanced(n) ==
  IF n = left THEN [block |-> at.block + 1, offset |-> 0]
  ELSE [at EXCEPT !.offset = @ + n]

\* One block: the amount is limited by the buffer's size, not by the room in it
BlocksCopy ==
  /\ pc = "blocks"
  /\ blocks_go_on
  /\ LET n == amount(blocks_length)
     IN /\ buffer' = buffer \o Bytes(n)
        /\ this_copy' = this_copy + n
        /\ position' = [position EXCEPT ![part_index] = advanced(n)]
  /\ UNCHANGED <<message, pc, multipart, blocks_length, call, transfer, faults>>

BlocksReturn ==
  /\ pc = "blocks"
  /\ ~blocks_go_on
  /\ pc' = "returned"
  /\ UNCHANGED <<message, multipart, writer, call, buffer, transfer, faults>>

\* The part has more
PartGoesOn ==
  /\ pc = "returned"
  /\ this_copy > 0
  /\ pc' = "loop"
  /\ UNCHANGED <<message, multipart, writer, call, buffer, transfer, faults>>

\* The part is over: the next boundary, or the final one, and as much of it as fits
PartEnds ==
  /\ pc = "returned"
  /\ this_copy = 0
  /\ boundary
  /\ pc' = "loop"
  /\ part_index' = part_index + 1
  /\ WriteBoundary(part_index + 1, buffer, room)
  /\ UNCHANGED <<message, boundary, writer, call, transfer, faults>>

\* No memory for the boundary
BoundaryFails ==
  /\ pc = "returned"
  /\ this_copy = 0
  /\ boundary
  /\ Fault
  /\ result' = "no_memory"
  /\ pc' = "return"
  /\ UNCHANGED <<message, multipart, writer, buffer_length, buffer, transfer>>

\* The part is over, and part_index is not advanced without a boundary
PlainPartEnds ==
  /\ pc = "returned"
  /\ this_copy = 0
  /\ ~boundary
  /\ pc' = "loop"
  /\ UNCHANGED <<message, multipart, writer, call, buffer, transfer, faults>>

\* The locals of a call end with it
NoLocals == buffer_length' = 0 /\ result' = OK /\ this_copy' = 0 /\ blocks_length' = 0

Mutant_IgnoreResult == request_result
recorded == FirstError(request_result, result)

\* globus_i_dsi_rest_read_data: the result is recorded, and libcurl takes an empty
\* buffer for the end of the body
Return ==
  /\ pc = "return" \/ (pc = "loop" /\ ~goes_on)
  /\ pc' = IF copied = 0 THEN "ended" ELSE "idle"
  /\ sent' = sent \o buffer
  /\ buffer' = <<>>
  /\ request_result' = recorded
  /\ NoLocals
  /\ UNCHANGED <<message, multipart, position, faults>>

Finished == pc = "ended" /\ UNCHANGED vars

Steps ==
  \/ Prepare \/ Call \/ CallBlock \/ CallUser \/ CallBlocks \/ BlocksCopy \/ BlocksReturn
  \/ PartGoesOn \/ PartEnds \/ PlainPartEnds \/ Return

Next == Steps \/ PrepareFails \/ CallUserFails \/ BoundaryFails \/ Finished

Spec == Init /\ [][Next]_vars

\* libcurl asks until the body ends, and the code runs
LiveSpec == Spec /\ WF_vars(Steps)

----------------------------------------------------------------------------
\* Properties

\* globus_dsi_rest.h:599-605: which messages have boundaries between their parts
delimited == message.content_type \notin {"no_boundary", "other"}

\* What part i has to say, from its block b on, and the boundary before it
BytesFrom(i, b) ==
  FlattenSeq([k \in 1..(Len(part(i).blocks) + 1 - b) |->
                Symbols(i, b + k - 1, part(i).blocks[b + k - 1])])
BytesOf(i) == BytesFrom(i, 1)
BoundaryOf(i) == IF delimited THEN Symbols(i, 0, boundary_text(i)) ELSE <<>>

\* The parts from i on, each after its boundary, and the final boundary
Ending(i) ==
  FlattenSeq([j \in 1..(num_parts - i) |-> BoundaryOf(i + j - 1) \o BytesOf(i + j - 1)])
  \o BoundaryOf(num_parts)
Message == Ending(0)

\* Types; a boundary is being written only if there is one, never past its end.
TypeOK ==
  /\ message \in Messages
  /\ pc \in {"prepare", "idle", "loop", "blocks", "returned", "return", "ended"}
  /\ boundary \in BOOLEAN
  /\ part_index \in 0..num_parts
  /\ current_boundary \in {NULL} \cup 0..num_parts
  /\ IF current_boundary = NULL THEN current_boundary_offset = 0
     ELSE current_boundary_offset \in 0..(Len(boundary_text(current_boundary)) - 1)
  /\ \A i \in 0..(num_parts - 1) : position[i] \in [block : Nat, offset : Nat]
  /\ {buffer_length, this_copy, blocks_length} \subseteq Nat
  /\ result \in {OK, "part_failed", "no_memory"}
  /\ request_result \in {OK, "not_prepared", "part_failed", "no_memory"}
  /\ faults \in 0..MaxFaults

\* The rest of what is being written: of a boundary, of a part, and what follows
RestOfBoundary ==
  IF current_boundary = NULL THEN <<>>
  ELSE SubSeq(BoundaryOf(current_boundary), current_boundary_offset + 1,
              Len(boundary_text(current_boundary)))
RestOf(i, p) ==
  LET text == part(i).blocks[p.block]
  IN IF p.block > Len(part(i).blocks) THEN <<>>
     ELSE SubSeq(Symbols(i, p.block, text), p.offset + 1, Len(text)) \o BytesFrom(i, p.block + 1)
RestOfParts ==
  IF part_index = num_parts THEN <<>> ELSE RestOf(part_index, at) \o Ending(part_index + 1)

\* However the body is cut into buffers, what libcurl has, what is in the buffer and
\* what the writers have left make up the message: parts in order, each once, each
\* after its own boundary.
NothingLost ==
  pc # "prepare" /\ request_result # "not_prepared" =>
    sent \o buffer \o RestOfBoundary \o RestOfParts = Message

\* What write_multipart.c asserts after each piece (lines 73, 100 and 141): the
\* writers stay within the buffer they are given.
WithinBuffer == copied <= buffer_length

\* The body is a transfer of the message: an upload that ends without an error has
\* sent all of it, although an error of a part looks like the end to libcurl.
Body == INSTANCE Transfer WITH
  total <- Len(Message), moved <- Len(sent), disturbed <- faults > 0,
  outcome <- IF pc # "ended" THEN "running" ELSE IF request_result = OK THEN "ok" ELSE "failed"
BodyIsTransfer == Body!Spec

\* globus_dsi_rest.h:603-605: without a boundary, "the different parts are
\* concatenated without any boundary".  So such a message comes to its end too.
PlainMessageEnds == <>(pc = "ended")
=============================================================================
