------------------------------ MODULE Multipart -----------------------------
(***************************************************************************)
(* The multipart writer and the multipart reader, end to end: a server     *)
(* returns the message it was sent, and the library reads it back.  The    *)
(* body is cut into buffers on its way out and into chunks on its way in,  *)
(* independently of each other and of its parts.                           *)
(***************************************************************************)
EXTENDS WriteMultipart

CONSTANT ChunkLengths

ASSUME MultipartAssumption == ChunkLengths \subseteq Nat \ {0}

VARIABLES read_index, need_header, match_counter, boundary_buffer, header_buffer,
          base, limit, scanned, read_result, received, ends, headers

\* A message with boundaries is returned once all of it was sent
response == IF delimited /\ pc = "ended" /\ request_result = OK THEN sent ELSE <<>>

Reader == INSTANCE ReadMultipart WITH body <- response

reader == <<read_index, need_header, match_counter, boundary_buffer, header_buffer, base,
            limit, scanned, read_result, received, ends, headers>>
all_vars == <<vars, reader>>

Writing(step) == step /\ UNCHANGED reader
Reading == Reader!Next /\ UNCHANGED vars

MultipartInit == Init /\ Reader!Init
MultipartNext == Writing(Next) \/ Reading

MultipartSpec == MultipartInit /\ [][MultipartNext]_all_vars
MultipartLiveSpec ==
  MultipartSpec /\ WF_all_vars(Writing(Steps)) /\ WF_all_vars(Reading)

----------------------------------------------------------------------------
\* The writer and the reader have their types.
MultipartTypeOK == TypeOK /\ Reader!TypeOK

\* What the response callback of part i is to get: the part's headers
HeadersOf(i) ==
  SubSeq(BoundaryOf(i), 5, Len(BoundaryOf(i)))

\* However the body is cut, the reader gives each part its own bytes in order, tells
\* it of the end only when it has all of them, and has told every part when the body
\* ends.  Its headers are its own too, if they came in one chunk.
PartsReceived ==
  pc = "ended" =>
    /\ \A i \in Reader!Indices :
         /\ IsPrefix(received[i], BytesOf(i))
         /\ ends[i] > 0 => received[i] = BytesOf(i)
         /\ headers[i] = <<>> \/ <<"not initialized">> \in ToSet(headers[i])
              \/ headers[i] = HeadersOf(i)
    /\ response # <<>> /\ Reader!over => \A i \in Reader!Indices : ends[i] > 0

\* A message with a boundary comes to its end, and when it was sent, every part of the
\* response does, or the reader returns the error of a header.
MessageEnds ==
  delimited =>
    <>/\ pc = "ended"
      /\ request_result = OK => Reader!failed \/ \A i \in Reader!Indices : ends[i] > 0
=============================================================================
