------------------------------ MODULE Transfer ------------------------------
(***************************************************************************)
(* What either direction of the GridFTP data path, and the multipart       *)
(* writer, promise to their caller without threads, buffers or callbacks:  *)
(* `total` bytes are moved, the number moved only grows, a transfer        *)
(* reports success only when every byte has been moved, and it fails only  *)
(* after something outside of it (a failed call of the GridFTP server, of  *)
(* malloc, of a writer of the DSI) went wrong, or when libcurl gives up.   *)
(* GridftpWrite, GridftpRead and WriteMultipart implement this module.     *)
(***************************************************************************)
EXTENDS Naturals

VARIABLES
  total,      \* bytes there are to move
  moved,      \* bytes moved so far
  disturbed,  \* whether something outside went wrong
  outcome     \* "running", "ok" or "failed"

vars == <<total, moved, disturbed, outcome>>

Init ==
  /\ total \in Nat
  /\ moved = 0
  /\ disturbed \in BOOLEAN
  /\ outcome = "running"

\* Blocks that were on their way when the transfer failed may still arrive
Move ==
  /\ outcome # "ok"
  /\ \E n \in 1..(total - moved) : moved' = moved + n
  /\ disturbed' \in {disturbed, TRUE}
  /\ UNCHANGED <<total, outcome>>

Disturb ==
  /\ disturbed' = TRUE
  /\ UNCHANGED <<total, moved, outcome>>

Succeed ==
  /\ outcome = "running"
  /\ moved = total
  /\ outcome' = "ok"
  /\ UNCHANGED <<total, moved, disturbed>>

Fail ==
  /\ outcome = "running"
  /\ disturbed' = TRUE
  /\ outcome' = "failed"
  /\ UNCHANGED <<total, moved>>

Next == Move \/ Disturb \/ Succeed \/ Fail

Spec == Init /\ [][Next]_vars
=============================================================================
