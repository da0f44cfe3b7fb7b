------------------------------ MODULE RmSingle ------------------------------
(***************************************************************************)
(* rm of one key (S3._rm_single, src/boto3_s3/s3.py): the request runs on  *)
(* a daemon worker, started from a throwaway thread, and the calling       *)
(* thread waits for it through Ctrl-C: the first is held until the outcome *)
(* is recorded, a second silences the record, a third stops the wait       *)
(* (_send_through_interrupt).                                              *)
(*                                                                         *)
(* Abstraction.  A request is applied by the service or not, and answers   *)
(* or fails; a failure that aws-cli would lose (no response, on botocore)  *)
(* is "lost", an AssertionError "bug".  A request that raised may still    *)
(* have been applied.  The grace of one second for the worker to begin is  *)
(* longer than a spawned thread takes.                                     *)
(***************************************************************************)
EXTENDS Interrupts, Sequences

VARIABLES
  rm,                        \* the calling thread: "off", "ready", "grace", "waiting",
                             \* "settled", then "over"
  request,                   \* "none", "queued", "out", or how it ended
  applied,                   \* the service deleted the object
  held,                      \* interrupts held back: 0, 1, or 2 - the record is silenced
  rmRecords,                 \* what on_result was told
  rmEnd,                     \* what the call returned or raised; "none" while it runs
  token                      \* the cancel token: "none" passed, "live" or "cancelled"

rmVars == <<rm, request, applied, held, rmRecords, rmEnd, token>>

RmInit ==
  /\ rm = "off" /\ request = "none" /\ applied = FALSE /\ held = 0
  /\ rmRecords = << >> /\ rmEnd = "none" /\ token = "none"

Answered == {"ok", "failed", "lost", "bug", "unstarted"}

RmReturns(end) == rm' = "over" /\ rmEnd' = end

\* rm polls the token once the single key is through; a cancelled one raises there.
Polled == IF token = "cancelled" THEN "cancelled" ELSE "ok"

\* on_result: the callback may cancel the token, and it may raise (the end "error").
RmRecord(outcome) ==
  /\ rmRecords' = Append(rmRecords, outcome)
  /\ token' \in {token} \cup (IF token = "live" THEN {"cancelled"} ELSE {})

-----------------------------------------------------------------------------
(* Before the request.                                                     *)

\* The caller is S3.rm, with or without a token.
RmCalled(tokens) ==
  /\ rm = "off" /\ rm' = "ready" /\ token' \in tokens
  /\ UNCHANGED <<request, applied, held, rmRecords, rmEnd, interrupts>>

TokenCancels ==
  /\ rm # "over" /\ token = "live" /\ token' = "cancelled"
  /\ UNCHANGED <<rm, request, applied, held, rmRecords, rmEnd, interrupts>>

\* rm's first poll of the token.
RmRefused ==
  /\ rm = "ready" /\ token = "cancelled" /\ RmReturns("cancelled")
  /\ UNCHANGED <<request, applied, held, rmRecords, token, interrupts>>

RmExcluded ==
  /\ rm = "ready" /\ RmReturns(Polled)
  /\ UNCHANGED <<request, applied, held, rmRecords, token, interrupts>>

RmDryrun ==
  /\ rm = "ready" /\ RmRecord("DRYRUN")
  /\ RmReturns("error") \/ RmReturns(IF token' = "cancelled" THEN "cancelled" ELSE "ok")
  /\ UNCHANGED <<request, applied, held, interrupts>>

\* The filter raises, or the client or the engine cannot be built: not this key failing.
RmUnbuilt ==
  /\ rm = "ready" /\ RmReturns("error")
  /\ UNCHANGED <<request, applied, held, rmRecords, token, interrupts>>

-----------------------------------------------------------------------------
(* The request and the wait for it.                                        *)

RmSends ==
  /\ rm = "ready" /\ rm' = "waiting" /\ request' = "queued"
  /\ UNCHANGED <<applied, held, rmRecords, rmEnd, token, interrupts>>

\* The spawn is one C call: the interrupt comes before it, and there is no request, or
\* after it, and the caller gives the worker a moment to begin.
RmSpawnInterrupted ==
  /\ rm = "ready" /\ CtrlC
  /\ \/ RmReturns("interrupt") /\ UNCHANGED request
     \/ rm' = "grace" /\ request' = "queued" /\ UNCHANGED rmEnd
  /\ UNCHANGED <<applied, held, rmRecords, token>>

WorkerBegins ==
  /\ request = "queued" /\ request' \in {"out", "unstarted"}
  /\ UNCHANGED <<rm, applied, held, rmRecords, rmEnd, token, interrupts>>

RequestEnds ==
  /\ request = "out"
  /\ \/ request' = "ok" /\ applied' = TRUE
     \/ request' \in {"failed", "lost"} /\ applied' \in BOOLEAN
     \/ request' = "bug" /\ UNCHANGED applied
  /\ UNCHANGED <<rm, held, rmRecords, rmEnd, token, interrupts>>

\* The worker has begun: wait for it like for one interrupted later.  One that never
\* will has no request.
RmGraceEnds ==
  /\ rm = "grace" /\ request # "queued"
  /\ IF request = "unstarted"
     THEN RmReturns("interrupt") /\ UNCHANGED held
     ELSE rm' = "waiting" /\ held' = 1 /\ UNCHANGED rmEnd
  /\ UNCHANGED <<request, applied, rmRecords, token, interrupts>>

\* An interrupt while the caller waits; a second one during the grace already ends it.
RmWaitInterrupted ==
  /\ rm \in {"grace", "waiting"} /\ CtrlC
  /\ IF rm = "waiting" /\ held < 2
     THEN held' = held + 1 /\ UNCHANGED <<rm, rmEnd>>
     ELSE RmReturns("interrupt") /\ UNCHANGED held
  /\ UNCHANGED <<request, applied, rmRecords, token>>

RmSettled ==
  /\ rm = "waiting" /\ request \in Answered /\ rm' = "settled"
  /\ UNCHANGED <<request, applied, held, rmRecords, rmEnd, token, interrupts>>

-----------------------------------------------------------------------------
(* The outcome.                                                            *)

\* raise_if_held, then the end of a call nobody interrupted.
HeldOr(end) == RmReturns(IF held > 0 THEN "interrupt" ELSE end)

RmSucceeds ==
  /\ rm = "settled" /\ request = "ok"
  /\ IF held < 2 THEN RmRecord("SUCCEEDED") ELSE UNCHANGED <<rmRecords, token>>
  /\ \/ HeldOr(IF token' = "cancelled" THEN "cancelled" ELSE "ok")
     \/ held < 2 /\ RmReturns("error")
  /\ UNCHANGED <<request, applied, held, interrupts>>

\* A failure after a Ctrl-C is not recorded.
RmFails ==
  /\ rm = "settled" /\ request \in {"failed", "unstarted"}
  /\ IF held = 0 THEN RmRecord("FAILED") ELSE UNCHANGED <<rmRecords, token>>
  /\ \/ HeldOr(IF token' = "cancelled" THEN "cancelled" ELSE "batch")
     \/ held = 0 /\ RmReturns("error")
  /\ UNCHANGED <<request, applied, held, interrupts>>

\* Lost as aws-cli loses it: no record, no failure.  An AssertionError goes on as it is.
RmLost ==
  /\ rm = "settled" /\ request \in {"lost", "bug"}
  /\ IF request = "lost" THEN HeldOr(Polled) ELSE RmReturns("bug")
  /\ UNCHANGED <<request, applied, held, rmRecords, token, interrupts>>

\* Past the wait nothing holds an interrupt back.
RmInterrupted ==
  /\ rm = "settled" /\ CtrlC /\ RmReturns("interrupt")
  /\ UNCHANGED <<request, applied, held, rmRecords, token>>

RmWorker == WorkerBegins \/ RequestEnds
RmCaller ==
  \/ RmRefused \/ RmExcluded \/ RmDryrun \/ RmUnbuilt \/ RmSends \/ RmGraceEnds
  \/ RmSettled \/ RmSucceeds \/ RmFails \/ RmLost
RmDisturbed == RmSpawnInterrupted \/ RmWaitInterrupted \/ RmInterrupted \/ TokenCancels

-----------------------------------------------------------------------------
(* Properties.                                                             *)

RmTypeOK ==
  /\ rm \in {"off", "ready", "grace", "waiting", "settled", "over"}
  /\ request \in {"none", "queued", "out"} \cup Answered
  /\ applied \in BOOLEAN /\ held \in 0 .. 2 /\ token \in {"none", "live", "cancelled"}
  /\ rmRecords \in {<< >>} \cup {<<r>> : r \in {"DRYRUN", "SUCCEEDED", "FAILED"}}
  /\ rmEnd \in {"none", "ok", "batch", "error", "interrupt", "bug", "cancelled"}
  /\ rm = "over" <=> rmEnd # "none"

\* What a delete reports is what became of it: a success is recorded only if the object
\* is gone; a call that returns normally leaves no request behind and has recorded the
\* delete, unless aws-cli loses the failure as well; and no request is abandoned before
\* the third Ctrl-C, or the second while the worker has not begun (s3.py:361-362, "A
\* third stops waiting").
DeleteIsReported ==
  /\ rmRecords = <<"SUCCEEDED">> => applied
  /\ rmEnd = "ok" /\ applied => rmRecords = <<"SUCCEEDED">> \/ request = "lost"
  /\ rmEnd \in {"ok", "batch"} => request \in {"none"} \cup Answered
  /\ rm = "over" /\ request \in {"queued", "out"} =>
       interrupts >= 3 \/ (interrupts = 2 /\ held = 0)

\* A Ctrl-C held back is raised in the end, unless something louder ends the call.
HeldIsRaised == rm = "over" /\ held > 0 => rmEnd \in {"interrupt", "error", "bug"}
=============================================================================
