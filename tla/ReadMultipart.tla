---------------------------- MODULE ReadMultipart ---------------------------
(***************************************************************************)
(* The reader of a multipart response (read_multipart.c).  libcurl gives   *)
(* the body in chunks; a chunk is scanned for the boundary that is due,    *)
(* and what comes before it goes to the callback of the current part.  A   *)
(* boundary may be split over chunks: what looks like the start of one is  *)
(* kept in boundary_buffer until it is known not to be.                    *)
(*                                                                         *)
(* A symbol of the body is <<part, block, k, text>>, as WriteMultipart     *)
(* sends it; the reader looks at the text alone.                           *)
(***************************************************************************)
EXTENDS Integers, Sequences, SequencesExt

CONSTANT ChunkLengths   \* sizes of the chunks libcurl may give, but for the last

\* Given by the request, and not changed here: the body of the response, and the
\* number of parts the client expects
VARIABLES body, num_parts

VARIABLES
  \* globus_i_dsi_rest_read_multipart_arg_t; read_index is its part_index
  read_index, need_header, match_counter, boundary_buffer, header_buffer,
  \* the call: buffer starts after `base` symbols of the body and ends with symbol
  \* `limit`; how much of it is scanned; the result
  base, limit, scanned, read_result,
  \* the callbacks of the parts: the data they were given, how often they were called
  \* without any, which means the end, and the headers
  received, ends, headers

state == <<read_index, need_header, match_counter, boundary_buffer, header_buffer>>
call == <<base, limit, scanned, read_result>>
parts == <<received, ends, headers>>
vars == <<state, call, parts>>

Indices == 0..(num_parts - 1)

\* globus_l_dsi_rest_prepare_read_multipart_callback
Init ==
  /\ read_index = -1
  /\ need_header = FALSE
  /\ match_counter = 0
  /\ boundary_buffer = <<>>
  /\ header_buffer = <<>>
  /\ base = 0
  /\ limit = 0
  /\ scanned = 0
  /\ read_result = "ok"
  /\ received = [i \in Indices |-> <<>>]
  /\ ends = [i \in Indices |-> 0]
  /\ headers = [i \in Indices |-> <<>>]

\* What the reader is looking for
boundary ==
  IF need_header THEN <<"nl", "nl">>
  ELSE IF read_index = -1 THEN <<"dd", "X", "nl">>
  ELSE IF read_index = num_parts - 1 THEN <<"nl", "dd", "X", "dd", "nl">>
  ELSE <<"nl", "dd", "X", "nl">>

found == match_counter = Len(boundary)
scanning == base + scanned < limit /\ ~found

\* The first n symbols of buffer
First(n) == SubSeq(body, base + 1, base + n)

\* The callback of the current part is called; there is none for the preface
Call(data) ==
  IF read_index = -1 THEN UNCHANGED <<received, ends>>
  ELSE IF data = <<>>
  THEN ends' = [ends EXCEPT ![read_index] = @ + 1] /\ UNCHANGED received
  ELSE received' = [received EXCEPT ![read_index] = @ \o data] /\ UNCHANGED ends

----------------------------------------------------------------------------
\* globus_l_dsi_rest_read_multipart

\* libcurl gives no more after a call that failed (write_data.c)
Chunk ==
  /\ base = limit
  /\ read_result = "ok"
  /\ base < Len(body)
  /\ \/ \E n \in ChunkLengths : base + n < Len(body) /\ limit' = base + n
     \/ limit' = Len(body)
  /\ scanned' = 0
  /\ UNCHANGED <<state, base, read_result, parts>>

\* A symbol that goes on with the boundary
ScanMatch ==
  /\ scanning
  /\ body[base + scanned + 1][4] = boundary[match_counter + 1]
  /\ match_counter' = match_counter + 1
  /\ scanned' = scanned + 1
  /\ UNCHANGED <<read_index, need_header, boundary_buffer, header_buffer, base, limit, read_result, parts>>

Mutant_NeverStarts(text) == 0

\* A symbol that does not go on with the boundary may start it
restarted(text) == IF text = boundary[1] THEN 1 ELSE 0

\* ... and what earlier chunks had of it is data after all
ScanMismatch ==
  /\ scanning
  /\ body[base + scanned + 1][4] # boundary[match_counter + 1]
  /\ match_counter' = restarted(body[base + scanned + 1][4])
  /\ scanned' = scanned + 1
  /\ IF boundary_buffer = <<>> THEN UNCHANGED <<received, ends>> ELSE Call(boundary_buffer)
  /\ boundary_buffer' = <<>>
  /\ UNCHANGED <<read_index, need_header, header_buffer, base, limit, read_result,
                 headers>>

\* The loop over buffer goes on behind what was scanned
Advance ==
  /\ base < limit
  /\ ~scanning
  /\ base' = base + scanned
  /\ scanned' = 0
  /\ UNCHANGED limit

\* The header buffer grows by what was scanned, which is copied to its start: what
\* earlier chunks left there is overwritten, and the end is not initialized.
header_text ==
  LET n == Len(header_buffer)
  IN First(scanned) \o SubSeq(header_buffer, scanned + 1, n)
     \o [k \in 1..(IF n < scanned THEN n ELSE scanned) |-> <<"not initialized">>]

HeaderGoesOn ==
  /\ need_header
  /\ ~found
  /\ Advance
  /\ header_buffer' = header_text
  /\ UNCHANGED <<read_index, need_header, match_counter, boundary_buffer, read_result, parts>>

\* The empty line: the headers go to the response_callback of the part.  The result is
\* that of the last line parsed, which may be malformed, or find no memory; the loop over
\* buffer goes on all the same.
HeaderEnds ==
  /\ need_header
  /\ found
  /\ Advance
  /\ headers' = [headers EXCEPT ![read_index] = header_text]
  /\ header_buffer' = <<>>
  /\ need_header' = FALSE
  /\ match_counter' = 0
  /\ read_result' \in {"ok", "error"}
  /\ UNCHANGED <<read_index, boundary_buffer, received, ends>>

\* A complete boundary: to the headers of the next part, if there is one
Next_part ==
  /\ read_index' = read_index + 1
  /\ need_header' = (read_index + 1 < num_parts)
  /\ match_counter' = 0
  /\ boundary_buffer' = <<>>

PrefaceEnds ==
  /\ ~need_header
  /\ found
  /\ read_index = -1
  /\ Advance
  /\ Next_part
  /\ UNCHANGED <<header_buffer, read_result, parts>>

Mutant_WithBoundary == First(scanned)

\* What buffer has before the boundary
before_boundary == First(scanned - Len(boundary))

\* The part gets the rest of its data and a call without any
PartEnds ==
  /\ ~need_header
  /\ found
  /\ read_index # -1
  /\ Advance
  /\ Next_part
  /\ received' = [received EXCEPT ![read_index] = @ \o before_boundary]
  /\ ends' = [ends EXCEPT ![read_index] = @ + 1]
  /\ UNCHANGED <<header_buffer, read_result, headers>>

Mutant_Unbuffered(kept) == <<>>

\* What is kept of a boundary that may go on in the next chunk
buffered(kept) == boundary_buffer \o kept

\* scanned - match_counter wraps around when the boundary is split over more than two
\* chunks: what the callback and memcpy then read is outside buffer.
outside == scanned < match_counter

PartialMatch ==
  /\ ~need_header
  /\ ~found
  /\ match_counter > 0
  /\ Advance
  /\ IF outside
     THEN /\ Call(<<<<"outside">>>>)
          /\ boundary_buffer' = buffered(<<<<"outside">>>>)
     ELSE /\ Call(First(scanned - match_counter))
          /\ boundary_buffer' = buffered(SubSeq(First(scanned), scanned - match_counter + 1, scanned))
  /\ UNCHANGED <<read_index, need_header, match_counter, header_buffer, read_result, headers>>

NoMatch ==
  /\ ~need_header
  /\ match_counter = 0
  /\ Advance
  /\ Call(First(limit - base))
  /\ boundary_buffer' = <<>>
  /\ UNCHANGED <<read_index, need_header, match_counter, header_buffer, read_result, headers>>

Next ==
  \/ Chunk \/ ScanMatch \/ ScanMismatch \/ HeaderGoesOn \/ HeaderEnds \/ PrefaceEnds
  \/ PartEnds \/ PartialMatch \/ NoMatch

----------------------------------------------------------------------------
\* The reader's state has its types; buffer stays within the body, and what is kept of
\* a boundary is not longer than it.
TypeOK ==
  /\ read_index \in -1..num_parts
  /\ need_header \in BOOLEAN
  /\ match_counter \in 0..Len(boundary)
  /\ Len(boundary_buffer) <= 5
  /\ need_header => read_index \in Indices
  /\ base + scanned <= limit
  /\ limit <= Len(body)
  /\ read_result \in {"ok", "error"}
  /\ \A i \in Indices : ends[i] \in Nat

over == base = Len(body)

\* A call returned an error: the request is over
failed == base = limit /\ read_result # "ok"
=============================================================================
