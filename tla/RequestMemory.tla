---------------------------- MODULE RequestMemory ---------------------------
(***************************************************************************)
(* What a request owns.  globus_dsi_rest_request replaces the arguments of *)
(* the library's own callbacks by structures of its own, part by part for  *)
(* a multipart message (request.c), the transfer adds to them, and the     *)
(* cleanup frees them (request_cleanup.c).  Preparation may fail at any    *)
(* step; what exists by then is freed partly by the steps on the way out   *)
(* and partly by the cleanup, which can tell the library's structures from *)
(* the user's by the callback alone.                                       *)
(*                                                                         *)
(* A part is named by its path: <<>> is the request, <<2, 1>> the first    *)
(* part of its second part.  A piece of memory is <<what, side, path>>.    *)
(***************************************************************************)
EXTENDS Naturals, Sequences, SequencesExt

CONSTANTS
  Requests,   \* the requests that may be made: a tree of parts to write, and to read
  Failures    \* the steps that may fail: <<side, kind of part, step>>

WriteKinds == {"none", "user", "block", "blocks", "json", "form", "gridftp", "multipart"}
ReadKinds == {"none", "user", "json", "gridftp", "multipart"}

\* parts: how many a part has itself; headers: does it come with any; content_type: is
\* a Content-Type among them?
Node(kinds) == [kind : kinds, parts : Nat, headers : BOOLEAN,
                content_type : {"none", "multipart", "other"}]

\* The parts of a message are its children, numbered from 1, and so are theirs
IsTree(tree, kinds) ==
  /\ <<>> \in DOMAIN tree
  /\ \A p \in DOMAIN tree :
       /\ p \in Seq(Nat)
       /\ tree[p] \in Node(kinds)
       /\ tree[p].parts > 0 => tree[p].kind = "multipart"
       /\ tree[p].content_type # "none" => tree[p].headers
       /\ \A i \in 1..tree[p].parts : Append(p, i) \in DOMAIN tree
       /\ \A k \in 1..Len(p) :
            /\ SubSeq(p, 1, k - 1) \in DOMAIN tree
            /\ p[k] \in 1..tree[SubSeq(p, 1, k - 1)].parts

ASSUME RequestMemoryAssumption ==
  \A r \in Requests : IsTree(r.write, WriteKinds) /\ IsTree(r.read, ReadKinds)

VARIABLES
  request,
  \* "prepare", "run", "cleanup", "done"
  pc,
  \* where the preparation is: "write", "read", or the rest of the request; the part it
  \* is at, "before" or "after" the parts of that part; the steps it has made there
  side, path, stage, made,
  \* the memory the library has allocated, and the argument of each part: not set yet,
  \* the user's, the library's own, or a null pointer
  heap, args,
  \* the parts for which the cleanup touches what is not the library's, or nothing
  misused

place == <<side, path, stage, made>>
vars == <<request, pc, place, heap, args, misused>>

\* The library's memory is in pieces, an allocation or a mutex with its condition
Piece(what, s, p) == <<what, s, p>>
Pieces(whats, s, p) == {<<what, s, p>> : what \in whats}

Sides == {"write", "read"}
Tree(s) == IF s = "write" THEN request.write ELSE request.read
kind(s, p) == IF s = "request" THEN "request" ELSE Tree(s)[p].kind
parts(s, p) == Tree(s)[p].parts

Init ==
  /\ request \in Requests
  /\ pc = "prepare"
  /\ side = "write" /\ path = <<>> /\ stage = "before" /\ made = 0
  /\ heap = {}
  /\ args = [s \in Sides |->
               [p \in DOMAIN Tree(s) |-> IF s = "write" /\ p = <<>> THEN "user" ELSE "unset"]]
  /\ misused = {}

----------------------------------------------------------------------------
\* The order of the preparation

\* globus_l_dsi_rest_prepare_write_callbacks for one part, but for its own parts
kind_steps(node) ==
  CASE node.kind = "block" -> <<"arg">>
    [] node.kind = "blocks" -> <<"blocks", "arg">>
    [] node.kind \in {"json", "form"} -> <<"text", "arg", "added">>
    [] node.kind = "gridftp" -> <<"arg", "mutex">>
    [] node.kind = "multipart" ->
         CASE node.content_type = "none" -> <<"arg", "boundary", "added", "parts">>
           [] node.content_type = "multipart" -> <<"arg", "boundary", "parts">>
           [] OTHER -> <<"arg", "parts">>
    [] OTHER -> <<>>

write_steps(node) == (IF node.headers THEN <<"headers">> ELSE <<>>) \o kind_steps(node)

\* ... and after them
write_last(node) ==
  IF node.kind = "multipart" /\ node.content_type # "other" THEN <<"current_boundary">> ELSE <<>>

\* globus_l_dsi_rest_prepare_read_callbacks
read_steps(node) ==
  CASE node.kind = "json" -> <<"arg">>
    [] node.kind = "gridftp" -> <<"arg", "mutex">>
    [] node.kind = "multipart" -> <<"arg", "parts">>
    [] OTHER -> <<>>

\* globus_dsi_rest_request
request_steps == <<"handle", "complete_uri", "request_headers", "method", "thread">>

steps ==
  CASE side = "request" -> request_steps
    [] side = "write" /\ stage = "before" -> write_steps(request.write[path])
    [] side = "write" /\ stage = "after" -> write_last(request.write[path])
    [] side = "read" /\ stage = "before" -> read_steps(request.read[path])
    [] OTHER -> <<>>

step == steps[made + 1]
preparing == pc = "prepare" /\ made < Len(steps)
all_made == pc = "prepare" /\ made = Len(steps)

\* The part is given its callback and the argument of the user
Prepare(s, p) ==
  /\ side' = s /\ path' = p /\ stage' = "before" /\ made' = 0
  /\ args' = [args EXCEPT ![s][p] = "user"]
  /\ UNCHANGED <<request, pc, heap, misused>>

\* The recursion over the parts of a message: down to its first part, from a part to
\* the next one, and back to the message after the last
FirstPart ==
  /\ all_made /\ side \in Sides /\ stage = "before"
  /\ parts(side, path) > 0
  /\ Prepare(side, Append(path, 1))

Mutant_LastLeftOut == Last(path) + 1 < parts(side, Front(path))

another == Last(path) < parts(side, Front(path))

NextPart ==
  /\ all_made /\ side \in Sides /\ stage = "after" /\ path # <<>>
  /\ another
  /\ Prepare(side, Append(Front(path), Last(path) + 1))

AfterParts ==
  /\ all_made /\ side \in Sides
  /\ \/ stage = "before" /\ parts(side, path) = 0 /\ path' = path
     \/ stage = "after" /\ path # <<>> /\ ~another /\ path' = Front(path)
  /\ stage' = "after" /\ made' = 0
  /\ UNCHANGED <<request, pc, side, heap, args, misused>>

StartRead ==
  /\ all_made /\ side = "write" /\ stage = "after" /\ path = <<>>
  /\ Prepare("read", <<>>)

StartRequest ==
  /\ all_made /\ side = "read" /\ stage = "after" /\ path = <<>>
  /\ side' = "request" /\ made' = 0
  /\ UNCHANGED <<request, pc, path, stage, heap, args, misused>>

Run ==
  /\ all_made /\ side = "request"
  /\ pc' = "run"
  /\ UNCHANGED <<request, place, heap, args, misused>>

----------------------------------------------------------------------------
\* A step of the preparation

Mutant_AssignEarly == IF kind(side, path) = "json" THEN "text" ELSE "arg"

\* The step after which the part has the library's own argument
assigned == IF kind(side, path) = "gridftp" THEN "mutex" ELSE "arg"

arg_after == IF step = assigned THEN "own" ELSE args[side][path]

\* globus_l_dsi_rest_add_part_header keeps the header among those it has to free, and
\* in the list of the part
allocated ==
  CASE step = "added" -> Pieces({"added", "headers"}, side, path)
    [] step \in {"method", "thread"} -> {}
    [] OTHER -> {Piece(step, side, path)}

StepSucceeds ==
  /\ preparing
  /\ heap' = heap \cup allocated
  /\ args' = IF side = "request" THEN args ELSE [args EXCEPT ![side][path] = arg_after]
  /\ made' = made + 1
  /\ UNCHANGED <<request, pc, side, path, stage, misused>>

\* What the steps on the way out of a failure free: headers and boundary of the part
\* and of those it is in
freed_on_failure ==
  CASE side = "write" -> UNION {Pieces({"headers", "boundary"}, "write", q) : q \in Prefixes(path)}
    [] side = "read" /\ step = "mutex" -> {Piece("arg", side, path)}
    [] OTHER -> {}

\* A header that could not be added is lost
lost_on_failure == IF step = "added" THEN {Piece("strings", side, path)} ELSE {}

Mutant_KeepArgument == args[side][path]

arg_on_failure ==
  IF side = "read" /\ step \in {"arg", "mutex"} THEN "null" ELSE args[side][path]

StepFails ==
  /\ preparing
  /\ <<side, kind(side, path), step>> \in Failures
  /\ heap' = (heap \ freed_on_failure) \cup lost_on_failure
  /\ args' = IF side = "request" THEN args ELSE [args EXCEPT ![side][path] = arg_on_failure]
  /\ pc' = "cleanup"
  /\ UNCHANGED <<request, place, misused>>

\* The failures after which the cleanup finds all that it expects
Recoverable ==
  {<<"write", "multipart", "current_boundary">>, <<"read", "json", "arg">>,
   <<"read", "multipart", "parts">>}
  \cup {<<"write", k, "headers">> : k \in {"none", "user"}}
  \cup ({"request"} \X {"request"} \X
         {"handle", "complete_uri", "request_headers", "method", "thread"})

----------------------------------------------------------------------------
\* The transfer

\* What reading a response adds to a part: its headers (header_parse.c), the text of
\* read_json.c, the boundary found by header.c, the buffers of read_multipart.c; for the
\* blocks of a data channel see below
added_by_reading(p) ==
  {"response_headers"}
  \cup CASE kind("read", p) = "json" -> {"buffer"}
         [] kind("read", p) = "multipart" -> {"boundary", "boundary_buffer", "header_buffer"}
         [] OTHER -> {}

Receive ==
  /\ pc = "run"
  /\ \E p \in DOMAIN request.read : \E what \in added_by_reading(p) :
       heap' = heap \cup {Piece(what, "read", p)}
  /\ UNCHANGED <<request, pc, place, args, misused>>

\* header.c: the headers of a 100 Continue are forgotten
Continue ==
  /\ pc = "run"
  /\ heap' = heap \ {Piece("response_headers", "read", <<>>)}
  /\ UNCHANGED <<request, pc, place, args, misused>>

\* write_multipart.c: a boundary was written
BoundarySent ==
  /\ pc = "run"
  /\ \E p \in DOMAIN request.write : heap' = heap \ {Piece("current_boundary", "write", p)}
  /\ UNCHANGED <<request, pc, place, args, misused>>

\* ... and the one after the next part is due
BoundaryDue ==
  /\ pc = "run"
  /\ \E p \in DOMAIN request.write :
       /\ Piece("boundary", "write", p) \in heap
       /\ heap' = heap \cup {Piece("current_boundary", "write", p)}
  /\ UNCHANGED <<request, pc, place, args, misused>>

----------------------------------------------------------------------------
\* The blocks of the data channels.  A list of them is a piece of memory, which is there
\* while the list is not empty; how many it has is left out.  current_buffer is a list of
\* one.
channels(s) == {p \in DOMAIN Tree(s) : kind(s, p) = "gridftp"}

\* buffer_get.c allocates a block when none is free
available(s, p, from) ==
  IF from = "new" THEN Piece("free_buffers", s, p) \notin heap ELSE Piece(from, s, p) \in heap

\* What may be left when a list has given one away
taken(s, p, from) ==
  CASE from = "new" -> {heap}
    [] from = "current_buffer" -> {heap \ {Piece(from, s, p)}}
    [] OTHER -> {heap, heap \ {Piece(from, s, p)}}

Move(s, p, from, to) ==
  /\ pc = "run"
  /\ available(s, p, from)
  /\ \E rest \in taken(s, p, from) : heap' = rest \cup {Piece(to, s, p)}
  /\ UNCHANGED <<request, pc, place, args, misused>>

\* An upload asks the server to read into a block, which may refuse
RegisterRead ==
  \E p \in channels("write"), from \in {"new", "free_buffers"},
     to \in {"registered_buffers", "free_buffers"} : Move("write", p, from, to)

\* The block has data, or has none
ReadCallback ==
  \E p \in channels("write"), to \in {"pending_buffers", "free_buffers"} :
    Move("write", p, "registered_buffers", to)

\* libcurl has all of a block
BlockCopied == \E p \in channels("write") : Move("write", p, "pending_buffers", "free_buffers")

\* A download begins a block, ends it and has the server write it, which may refuse
BlockBegun ==
  \E p \in channels("read"), from \in {"new", "free_buffers"} :
    /\ Piece("current_buffer", "read", p) \notin heap
    /\ Move("read", p, from, "current_buffer")

BlockEnded == \E p \in channels("read") : Move("read", p, "current_buffer", "pending_buffers")

RegisterWrite ==
  \E p \in channels("read") : Move("read", p, "pending_buffers", "registered_buffers")

WriteCallback ==
  \E p \in channels("read") : Move("read", p, "registered_buffers", "free_buffers")

----------------------------------------------------------------------------
\* globus_i_dsi_rest_request_cleanup

\* The parts it comes to: those whose array is there
reached(s) ==
  {p \in DOMAIN Tree(s) : \A q \in Prefixes(p) \ {p} : Piece("parts", s, q) \in heap}

\* The structures it frees with the argument of a part
owned_by_write(k) ==
  CASE k = "block" -> {"arg"}
    [] k = "blocks" -> {"arg", "blocks"}
    [] k \in {"json", "form"} -> {"arg", "text"}
    [] k = "gridftp" -> {"arg", "mutex", "free_buffers"}
    [] k = "multipart" -> {"arg", "boundary", "current_boundary", "parts"}
    [] OTHER -> {}

Mutant_KeepFree(k) ==
  CASE k = "json" -> {"arg", "buffer"}
    [] k = "gridftp" -> {"arg", "mutex"}
    [] k = "multipart" -> {"arg", "parts", "boundary", "boundary_buffer", "header_buffer"}
    [] OTHER -> {}

owned_by_read(k) ==
  CASE k = "json" -> {"arg", "buffer"}
    [] k = "gridftp" -> {"arg", "mutex", "free_buffers"}
    [] k = "multipart" -> {"arg", "parts", "boundary", "boundary_buffer", "header_buffer"}
    [] OTHER -> {}

freed_by_write(p) ==
  {"headers", "added"}
  \cup IF args["write"][p] = "own" THEN owned_by_write(kind("write", p)) ELSE {}

freed_by_read(p) ==
  {"response_headers"}
  \cup IF args["read"][p] = "own" THEN owned_by_read(kind("read", p)) ELSE {}

freed ==
  Pieces({"handle", "complete_uri", "request_headers"}, "request", <<>>)
  \cup (UNION {Pieces(freed_by_write(p), "write", p) : p \in reached("write")})
  \cup (UNION {Pieces(freed_by_read(p), "read", p) : p \in reached("read")})

\* It takes the argument of a callback of the library for the library's own, a null
\* pointer only where the code does not look, and goes through the parts of a message
\* to write although there is no array
misuses(s, p) ==
  /\ kind(s, p) \notin {"none", "user"}
  /\ \/ args[s][p] = "user"
     \/ args[s][p] = "null" /\ kind(s, p) # "json"
     \/ /\ s = "write"
        /\ kind(s, p) = "multipart"
        /\ args[s][p] = "own"
        /\ Tree(s)[p].parts > 0
        /\ Piece("parts", s, p) \notin heap

\* It waits for the writes of downloads, but not for the reads of uploads
writes_over ==
  \A p \in reached("read") \cap channels("read") :
    Piece("registered_buffers", "read", p) \notin heap

Cleanup ==
  /\ pc \in {"run", "cleanup"}
  /\ writes_over
  /\ pc' = "done"
  /\ misused' = UNION {{s} \X {p \in reached(s) : misuses(s, p)} : s \in Sides}
  /\ heap' = heap \ freed
  /\ UNCHANGED <<request, place, args>>

Done == pc = "done" /\ UNCHANGED vars

Next ==
  \/ StepSucceeds \/ StepFails
  \/ FirstPart \/ NextPart \/ AfterParts \/ StartRead \/ StartRequest \/ Run
  \/ Receive \/ Continue \/ BoundarySent \/ BoundaryDue
  \/ RegisterRead \/ ReadCallback \/ BlockCopied
  \/ BlockBegun \/ BlockEnded \/ RegisterWrite \/ WriteCallback
  \/ Cleanup \/ Done

Spec == Init /\ [][Next]_vars

----------------------------------------------------------------------------
\* Types; a part with an argument of the library's own has its structure.
TypeOK ==
  /\ request \in Requests
  /\ pc \in {"prepare", "run", "cleanup", "done"}
  /\ side \in Sides \cup {"request"} /\ stage \in {"before", "after"}
  /\ IF side = "request" THEN path = <<>> ELSE path \in DOMAIN Tree(side)
  /\ made \in 0..Len(steps)
  /\ \A s \in Sides : \A p \in DOMAIN Tree(s) :
       /\ args[s][p] \in {"unset", "user", "own", "null"}
       /\ args[s][p] = "own" /\ pc # "done" => Piece("arg", s, p) \in heap

\* When the transfer starts, every part of every message has been prepared, however
\* deep it is: a part that needs a structure of the library's own has it, and the user's
\* argument is kept only where the callback is the user's.
AllPrepared ==
  pc = "run" =>
    \A s \in Sides : \A p \in DOMAIN Tree(s) :
      args[s][p] = IF kind(s, p) \in {"none", "user"} THEN "user" ELSE "own"

\* Whichever step of the preparation fails, and however far the transfer went, the
\* cleanup touches only structures that the library made: never the arguments that
\* are the user's, and never a structure that is not there.
UsersMemoryKept == misused = {}

\* The blocks of a data channel that the cleanup does not look for: those that an upload
\* has not sent or that the server still reads into, those that a download has not had
\* written
not_looked_for(s) ==
  IF s = "write" THEN {"pending_buffers", "registered_buffers"}
  ELSE {"pending_buffers", "current_buffer"}

\* When a request is over, all that was allocated for it is freed, whichever step of the
\* preparation failed, but for the blocks of a data channel that are on no free list.  No
\* block of a download is left that the server is still writing.
OnlyBuffersLeft ==
  pc = "done" =>
    \A x \in heap : \E s \in Sides : \E p \in channels(s) : x \in Pieces(not_looked_for(s), s, p)
=============================================================================
