-------------------------- MODULE IdleTimeoutProofs --------------------------
(***************************************************************************)
(* Proofs about a request and its idle timeout, for any callbacks, status  *)
(* codes, lengths of the bodies and timeout.                               *)
(*                                                                         *)
(* The invariant has a part for each question: Control says where the      *)
(* caller and the transfer are with respect to each other and what was     *)
(* freed and reported by then, Replies how far the response has come,      *)
(* Errors which of the results has the first error, Timer how the timer    *)
(* relates to the time that data has not moved.                            *)
(***************************************************************************)
EXTENDS IdleTimeout, TLAPS

Refusals == {"refused", "not_prepared", "no_thread"}

Types ==
  /\ shape \in Shapes
  /\ caller \in {"calling", "performing", "performed", "returned"}
  /\ returned \in Results \cup Refusals
  /\ worker \in {"no", "transfer", "final", "merge", "cleanup", "complete", "done"}
  /\ perform_result \in Results
  /\ result \in Results
  /\ completed \in Results
  /\ first_error \in Results

Amounts ==
  /\ uploads \in 0..MaxUpload
  /\ chunks \in 0..MaxBody
  /\ upload \in {"open", "done"}
  /\ idle \in 0..(Timeout + 1)
  /\ stalled \in 0..(Timeout + 1)

Flags == stored \in BOOLEAN /\ final \in BOOLEAN /\ others \in BOOLEAN

\* Before the transfer there is nothing to clean up or to report but refusals; with a
\* thread the thread does both, one after the other, without one the caller cleans up
Control ==
  /\ caller = "calling" => worker = "no" /\ returned = OK
  /\ worker = "no" =>
       /\ completions = 0
       /\ caller \in {"calling", "performed", "returned"}
       /\ caller = "performed" => returned = "no_thread" /\ shape.complete
       /\ caller = "returned" => returned \in Refusals
       /\ frees = IF caller = "returned" /\ returned # "refused" THEN 1 ELSE 0
  /\ worker # "no" => returned \in Results
  /\ worker # "no" /\ shape.complete =>
       /\ returned = OK
       /\ caller \in {"performed", "returned"}
       /\ frees = IF worker \in {"complete", "done"} THEN 1 ELSE 0
       /\ completions = IF worker = "done" THEN 1 ELSE 0
  /\ worker # "no" /\ ~shape.complete =>
       /\ worker \in {"transfer", "final", "merge", "done"}
       /\ worker # "done" => caller = "performing" /\ returned = OK
       /\ worker = "done" => caller \in {"performed", "returned"}
       /\ frees = IF caller = "returned" THEN 1 ELSE 0
       /\ completions = 0

\* While libcurl goes on, the response callback has been called for the final response
\* before the body, and no more than once for each response, and the code of a 100
\* Continue is forgotten before the next.  If none but 100 Continue comes before the
\* final one, it has not been called until then, and the response code is that of the
\* response.
Replies ==
  /\ wire \in {"status", "headers", "body"}
  /\ response_code \in Codes \cup Interims \cup {0}
  /\ server_code \in Codes \cup Interims \cup {0}
  /\ interims \in 0..MaxInterim
  /\ response_calls \in 0..(interims + 1)
  /\ final_calls \in {0, 1}
  /\ worker \in {"no", "transfer", "final"} => final_calls = 0
  /\ worker = "no" => wire = "status"
  /\ worker = "final" => wire = "body"
  /\ worker \in {"no", "transfer", "final"} =>
       /\ wire = "status" => ~final /\ response_calls <= interims
       /\ wire = "headers" => response_calls < interims + (IF final THEN 1 ELSE 0)
       /\ wire = "body" => final
       /\ shape.response /\ wire = "body" => response_calls > 0
       /\ shape.response /\ (wire = "status" \/ final) => response_code # 100
  /\ worker \in {"no", "transfer", "final"} /\ shape.response /\ ~others =>
       /\ wire = "status" => response_code = 0
       /\ wire # "status" => response_code = server_code /\ server_code # 0
       /\ wire # "status" => (final <=> server_code # 100)
       /\ response_calls = IF wire = "body" THEN 1 ELSE 0
  /\ shape.response =>
       /\ response_calls > 0 /\ ~others => response_calls = 1 /\ final
       /\ chunks > 0 \/ final_calls > 0 => response_calls > 0
       /\ shape.reader = "gridftp" /\ ~others => ~stored

\* Does a callback have an answer to every call for data?
answers == sends_body => shape.writer

\* There is no body to ask for but one that is sent.
\* The transfer records the first error; at its end it is in the result or the one of
\* libcurl, and from there it is reported
Errors ==
  /\ upload = "open" => sends_body
  /\ worker = "no" => first_error = OK /\ result = OK /\ perform_result = OK
  /\ worker = "transfer" => perform_result = OK
  /\ worker \in {"transfer", "final"} =>
       /\ result = OK => first_error = OK
       /\ answers => result = first_error
       /\ first_error # "response_error"
  /\ worker = "merge" =>
       /\ merged = OK => first_error = OK
       /\ answers /\ first_error \notin {OK, "response_error"} => merged = first_error
  /\ worker \in {"cleanup", "complete", "done"} =>
       /\ perform_result = OK => first_error = OK
       /\ answers /\ first_error \notin {OK, "response_error"} => perform_result = first_error
  /\ worker = "done" => reported = perform_result

\* Unless the callback will see that data has moved, the timer has not counted more
\* than the time since
Timer ==
  /\ last_amt_read \in 0..chunks
  /\ last_amt_written \in 0..uploads
  /\ ~active => idle <= stalled
  /\ first_error = "timed_out" => stalled > Timeout /\ worker \notin {"no", "transfer"}

IInv == Types /\ Amounts /\ Flags /\ Control /\ Replies /\ Errors /\ Timer

----------------------------------------------------------------------------
\* What Moving and the timer's own steps are, without the action they are given.
LEMMA StepCases ==
  ASSUME IdleNext
  PROVE  \/ /\ Caller \/ Transfer \/ Thread \/ Over
            /\ stalled' = IF <<chunks, uploads>>' = <<chunks, uploads>> THEN stalled ELSE 0
            /\ UNCHANGED <<idle, last_amt_read, last_amt_written>>
         \/ Tick
         \/ Progress
  BY DEF IdleNext, Moving, Next, amounts, amt_read, amt_written

LEMMA ControlKept ==
  ASSUME Types, Control, IdleNext
  PROVE  Control'
  <1> USE DEF Types, Control, Results, Refusals
  <1>1. CASE Refused \/ PrepareFails \/ PerformFails
    BY <1>1 DEF Refused, PrepareFails, PerformFails, report
  <1>2. CASE Perform
    BY <1>2 DEF Perform, performer, report
  <1>3. CASE RequestReturns
    BY <1>3 DEF RequestReturns, callers_request, report, OK
  <1>4. CASE ReadData \/ StatusLine \/ StatusLineBad \/ HeaderBad
    BY <1>4 DEF ReadData, StatusLine, StatusLineBad, HeaderBad, CurlError, report
  <1>5. CASE HeaderEnd \/ WriteData \/ ProgressFails \/ CurlFails \/ CurlSucceeds
    BY <1>5 DEF HeaderEnd, WriteData, ProgressFails, ProgressError, CurlFails, CurlSucceeds,
         CurlError, ContinueIf, report
  <1>6. CASE FinalRead
    BY <1>6 DEF FinalRead, report
  <1>7. CASE Merge
    BY <1>7 DEF Merge, merged, FirstOf, after_merge, report
  <1>8. CASE ThreadCleanup \/ Complete
    BY <1>8 DEF ThreadCleanup, Complete, report
  <1>9. CASE Over \/ Tick
    BY <1>9 DEF Over, Tick, vars, report
  <1>10. CASE Progress
    BY <1>10 DEF Progress, ProgressError, CurlError, vars, report
  <1> QED
    BY <1>1, <1>2, <1>3, <1>4, <1>5, <1>6, <1>7, <1>8, <1>9, <1>10, StepCases
    DEF Caller, Transfer, Thread
LEMMA TypesKept ==
  ASSUME Types, IdleNext
  PROVE  Types'
  <1> USE DEF Types, Results, Refusals, OK, request, report
  <1>1. CASE Caller
    BY <1>1 DEF Caller, Refused, PrepareFails, Perform, PerformFails, RequestReturns, performer
  <1>2. CASE ReadData \/ StatusLine \/ StatusLineBad \/ HeaderBad
    BY <1>2 DEF ReadData, StatusLine, StatusLineBad, HeaderBad, CurlError, Record, Note, FirstOf
  <1>3. CASE HeaderEnd
    BY <1>3 DEF HeaderEnd, CurlError, ContinueIf, Note, FirstOf
  <1>4. CASE WriteData
    BY <1>4 DEF WriteData, CurlError, ContinueIf, Record, Note, FirstOf
  <1>5. CASE ProgressFails \/ CurlFails \/ CurlSucceeds
    BY <1>5 DEF ProgressFails, ProgressError, CurlFails, CurlSucceeds, CurlError, Record, Note,
         FirstOf
  <1>6. CASE Thread
    BY <1>6 DEF Thread, FinalRead, Merge, ThreadCleanup, Complete, merged, FirstOf, after_merge,
         Note
  <1>7. CASE Over \/ Tick \/ Progress
    BY <1>7 DEF Over, Tick, Progress, ProgressError, CurlError, Record, Note, FirstOf, vars
  <1> QED
    BY <1>1, <1>2, <1>3, <1>4, <1>5, <1>6, <1>7, StepCases DEF Transfer

\* What libcurl has moved changes in two actions only, and counts up.
LEMMA DataSteps ==
  ASSUME Amounts, IdleNext
  PROVE  /\ uploads' \in 0..MaxUpload
         /\ chunks' \in 0..MaxBody
         /\ uploads <= uploads' /\ chunks <= chunks'
         /\ worker # "transfer" => UNCHANGED <<uploads, chunks>>
         /\ upload' \in {"open", "done"}
  <1> USE RequestAssumption DEF Amounts
  <1>1. CASE ReadData
    BY <1>1 DEF ReadData, reading
  <1>2. CASE WriteData
    BY <1>2 DEF WriteData, sending, reading
  <1>3. CASE Caller
    BY <1>3 DEF Caller, Refused, PrepareFails, Perform, PerformFails, RequestReturns, sending,
         reading
  <1>4. CASE StatusLine \/ StatusLineBad \/ HeaderBad \/ HeaderEnd \/ ProgressFails
             \/ CurlFails \/ CurlSucceeds
    BY <1>4 DEF StatusLine, StatusLineBad, HeaderBad, HeaderEnd, ProgressFails, ProgressError,
         CurlFails, CurlSucceeds, sending, reading
  <1>5. CASE Thread
    BY <1>5 DEF Thread, FinalRead, Merge, ThreadCleanup, Complete, sending, reading
  <1>6. CASE Over \/ Tick \/ Progress
    BY <1>6 DEF Over, Tick, Progress, ProgressError, vars, sending, reading
  <1> QED
    BY <1>1, <1>2, <1>3, <1>4, <1>5, <1>6, StepCases DEF Transfer

LEMMA FlagsKept ==
  ASSUME Flags, IdleNext
  PROVE  Flags'
  <1>1. CASE WriteData
    BY <1>1 DEF WriteData, Flags, reading, server
  <1>2. CASE StatusLine
    BY <1>2 DEF StatusLine, Respond, Flags, reading
  <1>3. CASE ~WriteData /\ ~StatusLine
    <2>1. UNCHANGED <<stored, final, others>>
      BY <1>3, StepCases DEF Caller, Refused, PrepareFails, Perform, PerformFails,
         RequestReturns, Transfer, ReadData, StatusLineBad, HeaderBad, HeaderEnd,
         ProgressFails, ProgressError, CurlFails, CurlSucceeds, Thread, FinalRead, Merge,
         ThreadCleanup, Complete, Over, Tick, Progress, vars, reading, server
    <2> QED
      BY <2>1 DEF Flags
  <1> QED
    BY <1>1, <1>2, <1>3

LEMMA AmountsKept ==
  ASSUME Amounts, IdleNext
  PROVE  Amounts'
  <1>1. idle' \in 0..(Timeout + 1) /\ stalled' \in 0..(Timeout + 1)
    BY StepCases, TimeoutAssumption DEF Amounts, Tick, Progress, Later, idle_now
  <1> QED
    BY <1>1, DataSteps DEF Amounts

\* Only the progress callback times out, and what data moves it has not seen yet.
LEMMA TimerKept ==
  ASSUME Types, Amounts, Control, Timer, IdleNext
  PROVE  Timer'
  <1> USE TimeoutAssumption, RequestAssumption
      DEF Amounts, Timer, active, amt_read, amt_written
  <1>1. CASE /\ Caller \/ Transfer \/ Thread \/ Over
             /\ stalled' = IF <<chunks, uploads>>' = <<chunks, uploads>> THEN stalled ELSE 0
             /\ UNCHANGED <<idle, last_amt_read, last_amt_written>>
    <2>1. /\ last_amt_read' \in 0..chunks'
          /\ last_amt_written' \in 0..uploads'
          /\ ~active' => idle' <= stalled'
      BY <1>1, DataSteps
    <2>2. first_error' = "timed_out" => first_error = "timed_out"
      BY <1>1 DEF Types, Caller, Refused, PrepareFails, Perform, PerformFails,
         RequestReturns, Transfer, ReadData, StatusLine, StatusLineBad, HeaderBad, HeaderEnd,
         WriteData, ProgressFails, ProgressError, CurlFails, CurlSucceeds, Thread, FinalRead,
         Merge, ThreadCleanup, Complete, Over, vars, Note, FirstOf, OK
    <2>3. worker \notin {"no", "transfer"} => worker' \notin {"no", "transfer"}
      BY <1>1 DEF Types, Control, Caller, Refused, PrepareFails, Perform, PerformFails,
         RequestReturns, Transfer, ReadData, StatusLine, StatusLineBad, HeaderBad, HeaderEnd,
         WriteData, ProgressFails, ProgressError, CurlFails, CurlSucceeds, Thread, FinalRead,
         Merge, ThreadCleanup, Complete, after_merge, Over, vars
    <2>4. worker \notin {"no", "transfer"} => stalled' = stalled
      BY <1>1, DataSteps
    <2> QED
      BY <2>1, <2>2, <2>3, <2>4
  <1>2. CASE Tick
    BY <1>2 DEF Tick, timed, Later, vars, sending, reading, amounts
  <1>3. CASE Progress
    <2>1. /\ last_amt_read' \in 0..chunks'
          /\ last_amt_written' \in 0..uploads'
          /\ idle' <= stalled'
      BY <1>3 DEF Progress, ProgressError, idle_now, vars, sending, reading
    <2>2. first_error' = "timed_out" => stalled' > Timeout /\ worker' = "merge"
      BY <1>3 DEF Progress, timed, ProgressError, CurlError, Note, FirstOf, idle_now, vars
    <2> QED
      BY <2>1, <2>2
  <1> QED
    BY <1>1, <1>2, <1>3, StepCases
\* Replies knows the phases of the transfer, the response and the calls for it; the
\* steps that change none of these keep it.
LEMMA RepliesKept ==
  ASSUME Types, Amounts, Flags, Control, Replies, IdleNext
  PROVE  Replies'
  <1> USE RequestAssumption
      DEF Types, Amounts, Flags, Control, Replies, server, request, reading, sending
  <1>1. CASE Caller
    BY <1>1 DEF Caller, Refused, PrepareFails, Perform, PerformFails, RequestReturns
  <1>2. CASE ReadData \/ ProgressFails \/ CurlFails \/ CurlSucceeds
    BY <1>2 DEF ReadData, ProgressFails, ProgressError, CurlFails, CurlSucceeds, CurlError
  <1>3. CASE StatusLine
    BY <1>3 DEF StatusLine, Respond
  <1>4. CASE StatusLineBad \/ HeaderBad
    BY <1>4 DEF StatusLineBad, HeaderBad, CurlError
  <1>5. CASE HeaderEnd
    <2>1. /\ worker = "transfer" /\ wire = "headers"
          /\ wire' = IF final THEN "body" ELSE "status"
          /\ worker' \in {"transfer", "merge"}
          /\ UNCHANGED <<shape, server_code, final, interims, others, chunks, stored,
                         final_calls>>
      BY <1>5 DEF HeaderEnd, CurlError, ContinueIf
    <2>2. CASE shape.response /\ is_continue
      <3>1. response_calls' = response_calls /\ response_code' = 0
        BY ONLY <1>5, <2>2, Zenon DEF HeaderEnd, parses_headers
      <3> QED
        BY <2>1, <2>2, <3>1 DEF is_continue
    <2>3. CASE shape.response /\ ~is_continue
      <3>1. response_calls' = response_calls + 1 /\ response_code' = response_code
        BY ONLY <1>5, <2>3, Zenon DEF HeaderEnd, parses_headers
      <3> QED
        BY <2>1, <2>3, <3>1 DEF is_continue
    <2>4. CASE ~shape.response
      BY <1>5, <2>1, <2>4 DEF HeaderEnd, is_continue
    <2> QED
      BY <2>2, <2>3, <2>4
  <1>6. CASE WriteData
    BY <1>6 DEF WriteData, refused, CurlError, ContinueIf
  <1>7. CASE FinalRead
    BY <1>7 DEF FinalRead
  <1>8. CASE Merge \/ ThreadCleanup \/ Complete
    BY <1>8 DEF Merge, ThreadCleanup, Complete, after_merge
  <1>9. CASE Over \/ Tick \/ Progress
    BY <1>9 DEF Over, Tick, Progress, timed, ProgressError, CurlError, vars
  <1> QED
    BY <1>1, <1>2, <1>3, <1>4, <1>5, <1>6, <1>7, <1>8, <1>9, StepCases
    DEF Caller, Transfer, Thread

\* The first error is in the result of the request from the callback that returns it to
\* the report.
LEMMA ErrorsKept ==
  ASSUME Types, Control, Errors, IdleNext
  PROVE  Errors'
  <1> USE DEF Types, Control, Errors, Results, Refusals, answers, sends_body, merged, FirstOf,
          reported, OK, request, report, sending
  <1>1. CASE Caller
    BY <1>1 DEF Caller, Refused, PrepareFails, Perform, PerformFails, RequestReturns, performer
  <1>2. CASE ReadData
    BY <1>2 DEF ReadData, Record, Note
  <1>3. CASE StatusLine \/ StatusLineBad \/ HeaderBad
    BY <1>3 DEF StatusLine, StatusLineBad, HeaderBad, CurlError, Record
  <1>4. CASE HeaderEnd
    BY <1>4 DEF HeaderEnd, CurlError, ContinueIf, Note
  <1>5. CASE WriteData
    BY <1>5 DEF WriteData, CurlError, ContinueIf, Record, Note
  <1>6. CASE ProgressFails \/ CurlFails \/ CurlSucceeds
    BY <1>6 DEF ProgressFails, ProgressError, CurlFails, CurlSucceeds, CurlError, Record, Note
  <1>7. CASE FinalRead
    BY <1>7 DEF FinalRead, Note
  <1>8. CASE Merge
    BY <1>8 DEF Merge, after_merge
  <1>9. CASE ThreadCleanup \/ Complete
    BY <1>9 DEF ThreadCleanup, Complete
  <1>10. CASE Over \/ Tick
    BY <1>10 DEF Over, Tick, vars
  <1>11. CASE Progress
    BY <1>11 DEF Progress, timed, ProgressError, CurlError, Record, Note, vars
  <1> QED
    BY <1>1, <1>2, <1>3, <1>4, <1>5, <1>6, <1>7, <1>8, <1>9, <1>10, <1>11, StepCases
    DEF Caller, Transfer, Thread

LEMMA InitIInv == IdleInit => IInv
  <1> SUFFICES ASSUME IdleInit PROVE IInv
    OBVIOUS
  <1> USE RequestAssumption, TimeoutAssumption DEF IdleInit, Init
  <1>1. Types /\ Control /\ Errors
    BY DEF Types, Control, Errors, Results, OK
  <1>2. Replies
    BY DEF Replies
  <1>3. Flags
    BY DEF Flags
  <1>4. Amounts
    BY DEF Amounts
  <1>5. Timer
    BY DEF Timer, active, amt_read, amt_written, OK
  <1> QED
    BY <1>1, <1>2, <1>3, <1>4, <1>5 DEF IInv

LEMMA NextIInv == IInv /\ [IdleNext]_idle_vars => IInv'
  <1>1. ASSUME IInv, IdleNext PROVE IInv'
    BY <1>1, TypesKept, AmountsKept, FlagsKept, ControlKept, RepliesKept, ErrorsKept, TimerKept DEF IInv
  <1>2. ASSUME IInv, UNCHANGED idle_vars PROVE IInv'
    <2>1. UNCHANGED <<vars, idle, last_amt_read, last_amt_written, stalled>>
      BY <1>2 DEF idle_vars, timer, amounts
    <2>2. Types' /\ Control' /\ Errors'
      BY <1>2, <2>1 DEF IInv, Types, Control, Errors, vars, request, report, answers, sends_body,
         merged, FirstOf, reported, sending
    <2>3. Amounts' /\ Flags' /\ Replies'
      BY <1>2, <2>1 DEF IInv, Amounts, Flags, Replies, vars, request, server, sending, reading
    <2>4. Timer'
      BY <1>2, <2>1 DEF IInv, Timer, active, amt_read, amt_written, vars, sending, reading
    <2> QED
      BY <2>2, <2>3, <2>4 DEF IInv
  <1> QED
    BY <1>1, <1>2

\* The inductive invariant holds of every request, with or without an idle timeout.
THEOREM Invariant == IdleSpec => []IInv
  BY InitIInv, NextIInv, PTL DEF IdleSpec

\* The state of a request and of its timer always has its types.
THEOREM TypesHold == IdleSpec => []IdleTypeOK
  <1>1. IInv => TypeOK
    <2> SUFFICES ASSUME IInv PROVE TypeOK
      OBVIOUS
    <2>1. stored \in BOOLEAN /\ final \in BOOLEAN /\ others \in BOOLEAN
      BY DEF IInv, Flags
    <2>2. /\ frees \in 0..1
          /\ completions \in 0..1
      BY DEF IInv, Types, Control
    <2>3. /\ response_calls \in 0..(MaxInterim + 1)
          /\ final_calls \in 0..1
      BY RequestAssumption DEF IInv, Replies
    <2> QED
      BY <2>1, <2>2, <2>3 DEF IInv, Types, Amounts, Replies, Refusals, TypeOK
  <1>2. IInv => IdleTypeOK
    BY <1>1, RequestAssumption DEF IInv, Amounts, Timer, IdleTypeOK
  <1> QED
    BY <1>2, Invariant, PTL

\* A request is cleaned up and completed once, by the caller or its thread, whatever
\* fails in between (request.c, perform.c).
THEOREM EndedOnceHolds == IdleSpec => []EndedOnce
  <1>1. IInv => EndedOnce
    BY DEF IInv, Types, Control, EndedOnce, over, Results, Refusals, OK
  <1> QED
    BY <1>1, Invariant, PTL

\* The user hears of every error of a callback, and of the first one of those that move
\* data (perform.c, read_data.c, write_data.c, xferinfo.c).
THEOREM FirstErrorHolds == IdleSpec => []FirstErrorReturned
  <1>1. IInv => FirstErrorReturned
    BY DEF IInv, Types, Control, Errors, FirstErrorReturned, over, reported, answers, Results,
       Refusals, OK
  <1> QED
    BY <1>1, Invariant, PTL

\* The response callback comes before the body, at most once for each response, and once
\* in all for the final one if no response but 100 Continue precedes it (header.c).
THEOREM ResponseFirstHolds == IdleSpec => []ResponseFirst
  <1>1. IInv => ResponseFirst
    BY RequestAssumption DEF IInv, Replies, ResponseFirst
  <1> QED
    BY <1>1, Invariant, PTL

\* A request that has a response callback, which resets the response code after a
\* 100 Continue, writes no body of an error response to the data channel, if no other
\* response precedes the final one (header.c, write_data.c).
THEOREM OnlySuccessHolds ==
  (\A s \in Shapes : s.reader = "gridftp" => s.response) => (IdleSpec => []OnlySuccessStored)
  <1> SUFFICES ASSUME \A s \in Shapes : s.reader = "gridftp" => s.response
               PROVE  IdleSpec => []OnlySuccessStored
    OBVIOUS
  <1>1. IInv => OnlySuccessStored
    BY DEF IInv, Types, Replies, OnlySuccessStored
  <1> QED
    BY <1>1, Invariant, PTL

\* A request times out only when no data has moved for longer than the timeout
\* (progress_idle_timeout.c).
THEOREM TimeoutHolds == IdleSpec => []TimeoutOnlyIfIdle
  <1>1. IInv => TimeoutOnlyIfIdle
    BY DEF IInv, Timer, TimeoutOnlyIfIdle
  <1> QED
    BY <1>1, Invariant, PTL
=============================================================================
