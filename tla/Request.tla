------------------------------ MODULE Request -------------------------------
(***************************************************************************)
(* One REST request, from the call of globus_dsi_rest_request to its last  *)
(* report: preparation, the transfer inside libcurl with the callbacks it  *)
(* makes (header.c, read_data.c, write_data.c, xferinfo.c), the last call  *)
(* of the read callback and the merge of the results (perform.c), and the  *)
(* cleanup (request_cleanup.c).                                            *)
(*                                                                         *)
(* With a complete_callback the transfer runs in a thread of its own,      *)
(* concurrently with the return of globus_dsi_rest_request; without one    *)
(* the caller runs it.  The user's callbacks are arbitrary: each may fail  *)
(* at any call.  libcurl is modelled by the order of its callbacks and by  *)
(* what it does with what they return.                                     *)
(***************************************************************************)
EXTENDS Naturals

CONSTANTS
  Shapes,        \* the callbacks a request may come with
  Codes,         \* status codes of the server's final responses
  Interims,      \* and of those before it: 100 Continue, others, a proxy's to CONNECT
  MaxInterim,    \* bound on the responses before the final one
  MaxUpload,     \* bound on the pieces of the request's body
  MaxBody        \* bound on the chunks of the response's body

OK == "ok"

\* The method; is there a complete, a response, a data_write_callback; which
\* progress_callback and which data_read_callback is there?
ASSUME RequestAssumption ==
  /\ Shapes \subseteq [method : {"HEAD", "GET", "PUT", "POST", "DELETE", "other"},
                       complete : BOOLEAN, response : BOOLEAN, writer : BOOLEAN,
                       progress : {"none", "user", "idle"},
                       reader : {"none", "gridftp", "multipart", "other"}]
  /\ Codes \subseteq Nat \ {0, 100}
  /\ Interims \subseteq Nat \ {0}
  /\ MaxInterim \in Nat
  /\ MaxUpload \in Nat
  /\ MaxBody \in Nat

VARIABLES
  shape,
  \* the call of globus_dsi_rest_request, and what it returned
  caller, returned,
  \* whoever runs the transfer: "no" before it starts
  worker, perform_result,
  \* globus_i_dsi_rest_request_t
  result, response_code, frees,
  \* libcurl and the server: what the header function is given next, the status of
  \* the response it belongs to, is that the final one, the responses before it so far,
  \* is one of them no 100 Continue, state of the upload
  wire, server_code, final, interims, others, upload, uploads,
  \* calls of the user's callbacks
  response_calls, chunks, stored, final_calls, completions, completed,
  \* the first error a callback of the user returned
  first_error

request == <<result, response_code>>
server == <<wire, server_code, final, interims, others>>
sending == <<upload, uploads>>
reading == <<chunks, stored, final_calls>>
report == <<completions, completed>>
vars == <<shape, caller, returned, worker, perform_result, request, frees, server,
          sending, response_calls, reading, report, first_error>>

FirstOf(old, new) == IF old = OK THEN new ELSE old

\* r is what a callback of the user returned
Note(r) == first_error' = FirstOf(first_error, r)

\* globus_i_dsi_rest_set_request: the body goes with the method, and for a method it
\* does not know with the callbacks
sends_body ==
  \/ shape.method \in {"PUT", "POST"}
  \/ shape.method = "other" /\ shape.writer

\* A request without a body, for which libcurl does not read that of the response
no_body ==
  \/ shape.method \in {"HEAD", "DELETE"}
  \/ shape.method = "other" /\ ~shape.writer /\ shape.reader = "none"

Init ==
  /\ shape \in Shapes
  /\ caller = "calling"
  /\ returned = OK
  /\ worker = "no"
  /\ perform_result = OK
  /\ result = OK
  /\ response_code = 0
  /\ frees = 0
  /\ wire = "status"
  /\ server_code = 0
  /\ final = FALSE
  /\ interims = 0
  /\ others = FALSE
  /\ upload = IF sends_body THEN "open" ELSE "done"
  /\ uploads = 0
  /\ response_calls = 0
  /\ chunks = 0
  /\ stored = FALSE
  /\ final_calls = 0
  /\ completions = 0
  /\ completed = OK
  /\ first_error = OK

----------------------------------------------------------------------------
\* globus_dsi_rest_request

\* No method or URI, or no memory for the request itself
Refused ==
  /\ caller = "calling"
  /\ caller' = "returned"
  /\ returned' = "refused"
  /\ UNCHANGED <<shape, worker, perform_result, request, frees, server, sending,
                 response_calls, reading, report, first_error>>

\* The callbacks, the handle, the URI, the headers or the method cannot be set up
PrepareFails ==
  /\ caller = "calling"
  /\ caller' = "returned"
  /\ returned' = "not_prepared"
  /\ frees' = frees + 1
  /\ UNCHANGED <<shape, worker, perform_result, request, server, sending,
                 response_calls, reading, report, first_error>>

Mutant_JoinThread == "performing"

\* The caller waits for its own transfer, not for a thread's
performer == IF shape.complete THEN "performed" ELSE "performing"

\* globus_i_dsi_rest_perform
Perform ==
  /\ caller = "calling"
  /\ worker' = "transfer"
  /\ caller' = performer
  /\ UNCHANGED <<shape, returned, perform_result, request, frees, server, sending,
                 response_calls, reading, report, first_error>>

PerformFails ==
  /\ caller = "calling"
  /\ shape.complete
  /\ caller' = "performed"
  /\ returned' = "no_thread"
  /\ UNCHANGED <<shape, worker, perform_result, request, frees, server, sending,
                 response_calls, reading, report, first_error>>

Mutant_AlwaysCleanup == TRUE

\* Is the request the caller's to clean up?
callers_request == returned # OK \/ ~shape.complete

RequestReturns ==
  /\ caller = "performed"
  /\ frees' = IF callers_request THEN frees + 1 ELSE frees
  /\ caller' = "returned"
  /\ UNCHANGED <<shape, returned, worker, perform_result, request, server, sending,
                 response_calls, reading, report, first_error>>

----------------------------------------------------------------------------
\* The transfer: curl_easy_perform and its callbacks

\* curl_easy_perform returns an error
CurlError ==
  /\ worker' = "merge"
  /\ perform_result' = "curl_error"

\* libcurl goes on, or gives up because the callback did not process its data
ContinueIf(r) ==
  IF r = OK THEN UNCHANGED <<worker, perform_result>> ELSE CurlError

Mutant_LastError(r) == result' = IF r = OK THEN result ELSE r

Record(r) == result' = FirstOf(result, r)

\* globus_i_dsi_rest_read_data: an error is recorded, but what libcurl sees is the
\* number of bytes processed
ReadData ==
  /\ worker = "transfer"
  /\ upload = "open"
  /\ IF shape.writer
     THEN \E n \in {0, 1}, r \in {OK, "write_error"} :
            /\ uploads + n <= MaxUpload
            /\ uploads' = uploads + n
            /\ upload' = IF n = 0 THEN "done" ELSE "open"
            /\ Record(r)
            /\ Note(r)
     ELSE /\ Record("unexpected_data")
          /\ upload' = "done"
          /\ UNCHANGED <<uploads, first_error>>
  /\ UNCHANGED <<shape, caller, returned, worker, perform_result, response_code,
                 frees, server, response_calls, reading, report>>

\* The next response: the final one, or another before it
Respond ==
  /\ \/ /\ server_code' \in Codes
        /\ final' = TRUE
        /\ UNCHANGED <<interims, others>>
     \/ /\ interims < MaxInterim
        /\ server_code' \in Interims
        /\ interims' = interims + 1
        /\ others' = (others \/ server_code' # 100)
        /\ UNCHANGED final
  /\ wire' = "headers"

\* globus_i_dsi_rest_header, for the status line of a response.  It is parsed only
\* when no response code is known; otherwise it is a header without a colon, which
\* globus_i_dsi_rest_header_parse skips.
StatusLine ==
  /\ worker = "transfer"
  /\ wire = "status"
  /\ Respond
  /\ response_code' = IF response_code = 0 THEN server_code' ELSE response_code
  /\ UNCHANGED <<shape, caller, returned, worker, perform_result, result, frees,
                 sending, response_calls, reading, report, first_error>>

\* A status line sscanf does not match, or not to its end (no reason phrase)
StatusLineBad ==
  /\ worker = "transfer"
  /\ wire = "status"
  /\ response_code = 0
  /\ response_code' \in Codes \cup Interims \cup {0}
  /\ CurlError
  /\ UNCHANGED <<shape, caller, returned, result, frees, server, sending,
                 response_calls, reading, report, first_error>>

\* Does anyone care for the headers?
parses_headers == shape.response \/ shape.reader = "multipart"

\* A header globus_i_dsi_rest_header_parse refuses, or a trailer behind the body
HeaderBad ==
  /\ worker = "transfer"
  /\ wire # "status"
  /\ parses_headers
  /\ Record("parse_error")
  /\ CurlError
  /\ UNCHANGED <<shape, caller, returned, response_code, frees, server, sending,
                 response_calls, reading, report, first_error>>

Mutant_KeepContinue == FALSE

\* Is this a response to forget?
is_continue == response_code = 100

\* The empty line after the headers.  The response code is forgotten after a 100
\* Continue only: any other response is taken for the final one, its status stays and
\* the callback is called again for the next.
HeaderEnd ==
  /\ worker = "transfer"
  /\ wire = "headers"
  /\ wire' = IF final THEN "body" ELSE "status"
  /\ \/ /\ ~parses_headers \/ (~is_continue /\ ~shape.response)
        /\ UNCHANGED <<response_code, response_calls, worker, perform_result, first_error>>
     \/ /\ parses_headers
        /\ is_continue
        /\ response_code' = 0
        /\ UNCHANGED <<response_calls, worker, perform_result, first_error>>
     \/ /\ shape.response
        /\ ~is_continue
        /\ response_calls' = response_calls + 1
        /\ \E r \in {OK, "response_error"} : Note(r) /\ ContinueIf(r)
        /\ UNCHANGED response_code
  /\ UNCHANGED <<shape, caller, returned, result, frees, server_code, final,
                 interims, others, sending, reading, report>>

Mutant_WriteAnything == FALSE

\* An error response is no content for the data channel
refused == response_code >= 300 /\ shape.reader = "gridftp"

\* globus_i_dsi_rest_write_data
WriteData ==
  /\ worker = "transfer"
  /\ wire = "body"
  /\ ~no_body
  /\ chunks < MaxBody
  /\ \/ /\ refused \/ shape.reader = "none"
        /\ Record("unexpected_data")
        /\ CurlError
        /\ UNCHANGED <<reading, first_error>>
     \/ /\ ~refused
        /\ shape.reader # "none"
        /\ chunks' = chunks + 1
        /\ stored' = (stored \/ server_code >= 300)
        /\ \E r \in {OK, "read_error"} : Record(r) /\ Note(r) /\ ContinueIf(r)
        /\ UNCHANGED final_calls
  /\ UNCHANGED <<shape, caller, returned, response_code, frees, server, sending,
                 response_calls, report>>

\* globus_i_dsi_rest_xferinfo, when the progress callback fails with r
ProgressError(r) ==
  /\ worker = "transfer"
  /\ Record(r)
  /\ Note(r)
  /\ CurlError
  /\ UNCHANGED <<shape, caller, returned, response_code, frees, server, sending,
                 response_calls, reading, report>>

\* A progress callback of the DSI may fail at any time; for the library's own, see
\* IdleTimeout
ProgressFails == shape.progress = "user" /\ ProgressError("progress_error")

\* libcurl fails by itself
CurlFails ==
  /\ worker = "transfer"
  /\ CurlError
  /\ UNCHANGED <<shape, caller, returned, request, frees, server, sending,
                 response_calls, reading, report, first_error>>

\* The whole response is there, and the upload is over or the server refused it
CurlSucceeds ==
  /\ worker = "transfer"
  /\ wire = "body"
  /\ upload = "done" \/ server_code >= 300
  /\ worker' = "final"
  /\ UNCHANGED <<shape, caller, returned, perform_result, request, frees, server,
                 sending, response_calls, reading, report, first_error>>

----------------------------------------------------------------------------
\* globus_l_dsi_rest_perform after curl_easy_perform, and its thread

\* The last call of the read callback
FinalRead ==
  /\ worker = "final"
  /\ worker' = "merge"
  /\ IF shape.reader # "none"
     THEN /\ final_calls' = final_calls + 1
          /\ \E r \in {OK, "read_error"} : perform_result' = r /\ Note(r)
     ELSE UNCHANGED <<final_calls, perform_result, first_error>>
  /\ UNCHANGED <<shape, caller, returned, request, frees, server, sending,
                 response_calls, chunks, stored, report>>

Mutant_CurlOnly == perform_result

\* What the transfer came to
merged == FirstOf(result, perform_result)

Mutant_NoCleanup == IF shape.complete THEN "complete" ELSE "done"

\* A thread cleans up, then reports
after_merge == IF shape.complete THEN "cleanup" ELSE "done"

\* perform_fail, and the return to the caller without a complete_callback
Merge ==
  /\ worker = "merge"
  /\ result' = merged
  /\ perform_result' = merged
  /\ worker' = after_merge
  /\ IF shape.complete
     THEN UNCHANGED <<caller, returned>>
     ELSE caller' = "performed" /\ returned' = merged
  /\ UNCHANGED <<shape, response_code, frees, server, sending, response_calls,
                 reading, report, first_error>>

\* The thread cleans up ...
ThreadCleanup ==
  /\ worker = "cleanup"
  /\ frees' = frees + 1
  /\ worker' = "complete"
  /\ UNCHANGED <<shape, caller, returned, perform_result, request, server, sending,
                 response_calls, reading, report, first_error>>

\* ... and calls the complete_callback, from its copies
Complete ==
  /\ worker = "complete"
  /\ completions' = completions + 1
  /\ completed' = perform_result
  /\ worker' = "done"
  /\ UNCHANGED <<shape, caller, returned, perform_result, request, frees, server,
                 sending, response_calls, reading, first_error>>

over == caller = "returned" /\ worker \in {"no", "done"}

Over == over /\ UNCHANGED vars

----------------------------------------------------------------------------
Caller == Refused \/ PrepareFails \/ Perform \/ PerformFails \/ RequestReturns

Transfer ==
  \/ ReadData \/ StatusLine \/ StatusLineBad \/ HeaderBad \/ HeaderEnd
  \/ WriteData \/ ProgressFails \/ CurlFails \/ CurlSucceeds

Thread == FinalRead \/ Merge \/ ThreadCleanup \/ Complete

Next == Caller \/ Transfer \/ Thread \/ Over

Spec == Init /\ [][Next]_vars

\* The threads run, and libcurl brings every transfer to an end
LiveSpec == Spec /\ WF_vars(Caller) /\ WF_vars(Transfer) /\ WF_vars(Thread)

----------------------------------------------------------------------------
Results == {OK, "curl_error", "parse_error", "unexpected_data", "write_error",
            "read_error", "response_error", "progress_error", "timed_out"}

\* The request, its threads and its reports have their types.
TypeOK ==
  /\ shape \in Shapes
  /\ caller \in {"calling", "performing", "performed", "returned"}
  /\ returned \in Results \cup {"refused", "not_prepared", "no_thread"}
  /\ worker \in {"no", "transfer", "final", "merge", "cleanup", "complete", "done"}
  /\ perform_result \in Results
  /\ result \in Results
  /\ response_code \in Codes \cup Interims \cup {0}
  /\ frees \in 0..1
  /\ wire \in {"status", "headers", "body"}
  /\ server_code \in Codes \cup Interims \cup {0}
  /\ final \in BOOLEAN
  /\ interims \in 0..MaxInterim
  /\ others \in BOOLEAN
  /\ upload \in {"open", "done"}
  /\ uploads \in 0..MaxUpload
  /\ response_calls \in 0..(MaxInterim + 1)
  /\ chunks \in 0..MaxBody
  /\ stored \in BOOLEAN
  /\ final_calls \in 0..1
  /\ completions \in 0..1
  /\ completed \in Results
  /\ first_error \in Results

\* What the user is told of the transfer in the end
reported == IF shape.complete THEN completed ELSE returned

\* The user is told of an error if a callback failed, and of the first error of the
\* read, write and progress callbacks, whatever failed after it.
FirstErrorReturned ==
  over =>
    /\ reported = OK => first_error = OK
    /\ first_error \notin {OK, "response_error"} /\ (sends_body => shape.writer)
         => reported = first_error

\* A request is cleaned up exactly once, by the caller or by its thread, and not at
\* all when there is none.  The complete_callback is called exactly once for a request
\* that was accepted, never for one that was not, and after everything else.
EndedOnce ==
  /\ frees <= 1
  /\ completions > 0 => completions = 1 /\ worker = "done" /\ frees = 1
  /\ over => /\ frees = 0 <=> returned = "refused"
             /\ completions = 1 <=> shape.complete /\ returned = OK

\* header.c: the response callback has been called before anything of the body is
\* passed on, and at most once for each response.  It is called once in all, and for the
\* final response, if no response but 100 Continue comes before that.
ResponseFirst ==
  shape.response =>
    /\ chunks > 0 \/ final_calls > 0 => response_calls > 0
    /\ response_calls > 0 /\ ~others => response_calls = 1 /\ final
    /\ response_calls <= interims + 1

\* write_data.c:79: "Don't write non-2xy content to gridftp data channel".  If no
\* response but 100 Continue comes before the final one, what goes to the data channel
\* is never the body of an error response.  (After another, header.c does not read
\* the status of the final one, and it may be.)
OnlySuccessStored == shape.reader = "gridftp" /\ ~others => ~stored

\* Every request comes to an end.
RequestEnds == <>over
=============================================================================
