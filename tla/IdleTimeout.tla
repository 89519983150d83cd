----------------------------- MODULE IdleTimeout ----------------------------
(***************************************************************************)
(* The idle timeout (progress_idle_timeout.c) of a Request: libcurl calls  *)
(* the progress callback from time to time with the amounts it has moved   *)
(* so far, and the callback ends the request when they have not changed    *)
(* for longer than the timeout.                                            *)
(*                                                                         *)
(* Time passes in ticks, while a transfer with an idle timeout runs.  A    *)
(* time is kept as the ticks that have passed since, and no further than   *)
(* the callback can tell.  The clock is the computer's own and is taken to *)
(* go forward only.                                                        *)
(***************************************************************************)
EXTENDS Request

CONSTANT Timeout   \* idle_timeout, in ticks

ASSUME TimeoutAssumption == Timeout \in Nat

VARIABLES
  \* globus_i_dsi_rest_idle_arg_t: ticks since last_activity, and the amounts
  idle, last_amt_read, last_amt_written,
  \* ticks since the transfer began or data was last read or written
  stalled

amounts == <<last_amt_read, last_amt_written>>
timer == <<idle, amounts, stalled>>

\* What libcurl tells of the transfer so far
amt_read == chunks
amt_written == uploads

IdleInit ==
  /\ Init
  /\ idle = 0
  /\ last_amt_read = 0
  /\ last_amt_written = 0
  /\ stalled = 0

\* A step of the request takes no time, and may move data
Moving(step) ==
  /\ step
  /\ stalled' = IF <<amt_read, amt_written>>' = <<amt_read, amt_written>> THEN stalled ELSE 0
  /\ UNCHANGED <<idle, amounts>>

timed == shape.progress = "idle" /\ worker = "transfer"
Later(ticks) == IF ticks > Timeout THEN ticks ELSE ticks + 1

Tick ==
  /\ timed
  /\ idle' = Later(idle)
  /\ stalled' = Later(stalled)
  /\ UNCHANGED <<vars, amounts>>

Mutant_ReadOnly == amt_read # last_amt_read

\* Has data moved since the last call?
active == amt_read # last_amt_read \/ amt_written # last_amt_written

Mutant_Always == 0

\* Ticks since the last_activity, which is now if there was any
idle_now == IF active THEN 0 ELSE idle

\* globus_l_dsi_rest_progress_idle_timeout, called from globus_i_dsi_rest_xferinfo
Progress ==
  /\ timed
  /\ last_amt_read' = amt_read
  /\ last_amt_written' = amt_written
  /\ idle' = idle_now
  /\ IF idle_now > Timeout THEN ProgressError("timed_out") ELSE UNCHANGED vars
  /\ UNCHANGED stalled

IdleNext == Moving(Next) \/ Tick \/ Progress

idle_vars == <<vars, timer>>

IdleSpec == IdleInit /\ [][IdleNext]_idle_vars

\* The threads run, time passes and libcurl calls the progress callback.  It brings a
\* transfer to an end by itself only if there is no idle timeout to do so: with one,
\* the server may stop at any point and never go on.
Patient == shape.progress # "idle" /\ Transfer

IdleLiveSpec ==
  /\ IdleSpec
  /\ WF_idle_vars(Moving(Caller))
  /\ WF_idle_vars(Moving(Patient))
  /\ WF_idle_vars(Moving(Thread))
  /\ WF_idle_vars(Tick)
  /\ WF_idle_vars(Progress)

----------------------------------------------------------------------------
\* The request and its timer have their types.
IdleTypeOK ==
  /\ TypeOK
  /\ idle \in 0..(Timeout + 1)
  /\ stalled \in 0..(Timeout + 1)
  /\ last_amt_read \in 0..MaxBody
  /\ last_amt_written \in 0..MaxUpload

\* globus_dsi_rest.h:723-724: "number of milliseconds without any data read or written
\* that triggers the timeout".  A request times out only if no data has moved, in
\* either direction, for longer than the timeout, however late or seldom libcurl calls.
TimeoutOnlyIfIdle == first_error = "timed_out" => stalled > Timeout
=============================================================================
