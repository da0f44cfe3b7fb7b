---------------------------- MODULE Transferrer -----------------------------
(***************************************************************************)
(* A transfer run (src/boto3_s3/transfer.py, driven by S3._run_transfer    *)
(* and S3.sync): the submission loop hands items to an s3transfer engine,  *)
(* the engine settles them on its own threads, each item's done            *)
(* subscribers delete a moved source and report the outcome, a watcher     *)
(* thread acts on an immediate cancel, and __exit__ drains or folds the    *)
(* engine.                                                                 *)
(*                                                                         *)
(* Everything between two lines that touch shared state interleaves: the   *)
(* engine settles an item before or after the loop tracks its future, the  *)
(* watcher sweeps the tracked futures while another is being accepted, a   *)
(* completion beats or loses to the cancel, a callback raises on a thread  *)
(* that cannot raise to the caller.                                        *)
(*                                                                         *)
(* Abstraction.  Items are numbered in submission order; the engine        *)
(* (external) is what src relies on of s3transfer's two managers; the      *)
(* executors run threaded; a run carries a token that may never be used.   *)
(***************************************************************************)
EXTENDS Naturals, FiniteSets

CONSTANTS
  NumItems,                  \* bound: items the producer may yield
  Slots,                     \* items the engine holds before a submission blocks
  Engines,                   \* the managers considered: "classic", "crt"
  Drivers,                   \* the loops considered: "cp", "sync"
  MaxFaults                  \* bound: interrupts and callback exceptions, together

Items == 1 .. NumItems

ASSUME TransferrerAssumption ==
  /\ NumItems \in Nat /\ Slots \in Nat \ {0} /\ MaxFaults \in Nat
  /\ Engines \subseteq {"classic", "crt"} /\ Drivers \subseteq {"cp", "sync"}

VARIABLES
  engine, driver,            \* fixed for the run
  move,                      \* is_move
  token,                     \* the cancel token: "none", "graceful" or "immediate"
  \* the submission loop
  cpc,                       \* where the loop is
  sent,                      \* the item last handed to submit
  exc,                       \* what is unwinding: "none", "cancelled" or "fatal"
  ended,                     \* how the operation ended for the caller
  \* the engine: per item
  phase,                     \* where the item is
  status,                    \* the outcome stored on its future: "none" before, "over" after
  asked,                     \* requests of the CRT engine that were told to cancel
  landed, sourceGone,        \* items written to the destination; moved sources deleted
  \* the Transferrer
  tracked,                   \* _futures
  initiated,                 \* _cancel_initiated
  pending,                   \* _pending_raise is set
  record,                    \* the record of each item, "none" before
  \* the watcher
  wpc, snap,                 \* where it is; the futures it still has to cancel
  faults                     \* interrupts and callback exceptions so far (bounded)

fixed == <<engine, driver, move>>
loopVars == <<cpc, sent, exc, ended>>
futures == <<phase, status, asked>>
effects == <<landed, sourceGone>>
watcherVars == <<wpc, snap>>
vars == <<fixed, token, loopVars, futures, effects, tracked, initiated, pending, record,
          watcherVars, faults>>

Init ==
  /\ engine \in Engines /\ driver \in Drivers /\ move \in BOOLEAN
  /\ token = "none"
  /\ cpc = (IF driver = "cp" THEN "check" ELSE "pull")
  /\ sent = 0 /\ exc = "none" /\ ended = "running"
  /\ phase = [i \in Items |-> "unsent"] /\ status = [i \in Items |-> "none"] /\ asked = {}
  /\ landed = {} /\ sourceGone = {}
  /\ tracked = {} /\ initiated = FALSE /\ pending = FALSE
  /\ record = [i \in Items |-> "none"]
  /\ wpc = "poll" /\ snap = {}
  /\ faults = 0

Done(i) == status[i] # "none"
Live == {i \in Items : phase[i] \notin {"unsent", "over"}}
Unsettled == {i \in Items : phase[i] \in {"queued", "running"} /\ ~Done(i)}

\* _note_raise: the first exception is kept for the caller.
Note == pending' = TRUE

\* future.cancel() of each: a settled future ignores it.  The classic engine
\* stores the cancellation at once, and one that had not started is over; the
\* CRT engine passes it on to the request.
CancelFutures(S) ==
  LET hit == S \cap Unsettled
  IN IF engine = "classic"
     THEN /\ status' = [i \in Items |-> IF i \in hit THEN "cancelled" ELSE status[i]]
          /\ phase' = [i \in Items |->
                         IF i \in hit /\ phase[i] = "queued" THEN "recording" ELSE phase[i]]
          /\ UNCHANGED asked
     ELSE asked' = asked \cup hit /\ UNCHANGED <<status, phase>>

-----------------------------------------------------------------------------
(* The submission loop.                                                    *)

Raise(what) == cpc' = "exit" /\ exc' = what

\* cp polls the token before it pulls an item, and so once more after the last
\* one; sync polls it after the pull.
CheckPointSkipped == "pull"
CheckPoint == IF driver = "cp" THEN "check" ELSE "pull"
CheckedAt == IF driver = "cp" THEN "pull" ELSE "submit"
PulledAt == IF driver = "cp" THEN "submit" ELSE "check"

Check ==
  /\ cpc = "check"
  /\ IF token # "none"
     THEN Raise("cancelled")
     ELSE cpc' = CheckedAt /\ UNCHANGED exc
  /\ UNCHANGED <<fixed, token, sent, ended, futures, effects, tracked, initiated, pending,
                 record, watcherVars, faults>>

\* The producer yields, ends, or raises.
Pull ==
  /\ cpc = "pull"
  /\ \/ sent < NumItems /\ cpc' = PulledAt /\ UNCHANGED exc
     \/ cpc' = "exit" /\ UNCHANGED exc
     \/ Raise("fatal")
  /\ UNCHANGED <<fixed, token, sent, ended, futures, effects, tracked, initiated, pending,
                 record, watcherVars, faults>>

\* submit: the engine accepts the item once it has a slot.
Accept ==
  /\ cpc = "submit" /\ Cardinality(Live) < Slots
  /\ sent' = sent + 1
  /\ phase' = [phase EXCEPT ![sent + 1] = IF engine = "classic" THEN "queued" ELSE "running"]
  /\ cpc' = "track"
  /\ UNCHANGED <<fixed, token, exc, ended, status, asked, effects, tracked, initiated, pending,
                 record, watcherVars, faults>>

\* The parameter mapping or the engine refuses the item: no record, the run ends.
Refuse ==
  /\ cpc = "submit"
  /\ sent' = sent + 1
  /\ Raise("fatal")
  /\ UNCHANGED <<fixed, token, ended, futures, effects, tracked, initiated, pending,
                 record, watcherVars, faults>>

\* A source the library itself finds unusable: the item fails on the calling
\* thread and is not handed over.  An exception of on_result leaves submit, which
\* owes nothing more if it is the one noted.
FailAtOnce ==
  /\ cpc = "submit"
  /\ sent' = sent + 1
  /\ phase' = [phase EXCEPT ![sent + 1] = "over"]
  /\ status' = [status EXCEPT ![sent + 1] = "over"]
  /\ record' = [record EXCEPT ![sent + 1] = "failed"]
  /\ \/ cpc' = "owed" /\ UNCHANGED <<exc, faults>>
     \/ /\ faults < MaxFaults
        /\ faults' = faults + 1
        /\ Raise("fatal")
  /\ UNCHANGED <<fixed, token, ended, asked, effects, tracked, initiated, pending,
                 watcherVars>>

\* _track_future adds the future, then forgets it if it is done by now.
Track ==
  /\ cpc = "track"
  /\ tracked' = tracked \cup {sent}
  /\ cpc' = "recheck"
  /\ UNCHANGED <<fixed, token, sent, exc, ended, futures, effects, initiated, pending,
                 record, watcherVars, faults>>

RecheckNothing ==
  /\ cpc = "recheck"
  /\ cpc' = "owed"
  /\ UNCHANGED <<fixed, token, sent, exc, ended, futures, effects, tracked, initiated, pending,
                 record, watcherVars, faults>>
Recheck ==
  /\ cpc = "recheck"
  /\ tracked' = (IF Done(sent) THEN tracked \ {sent} ELSE tracked)
  /\ cpc' = "owed"
  /\ UNCHANGED <<fixed, token, sent, exc, ended, futures, effects, initiated, pending,
                 record, watcherVars, faults>>

\* _raise_pending at the end of submit.
RaiseOwed ==
  /\ cpc = "owed"
  /\ pending' = FALSE
  /\ IF pending THEN Raise("fatal") ELSE cpc' = CheckPoint /\ UNCHANGED exc
  /\ UNCHANGED <<fixed, token, sent, ended, futures, effects, tracked, initiated, record,
                 watcherVars, faults>>

\* A Ctrl-C in the loop, in submit included.
Interrupt ==
  /\ cpc \in {"check", "pull", "submit", "track", "recheck", "owed"} /\ faults < MaxFaults
  /\ faults' = faults + 1
  /\ Raise("fatal")
  /\ UNCHANGED <<fixed, token, sent, ended, futures, effects, tracked, initiated, pending,
                 record, watcherVars>>

-----------------------------------------------------------------------------
(* __exit__.                                                               *)

\* Drain, or manager.__exit__, which cancels everything accepted: a graceful
\* token's CancelledError drains.  The token's own CancelledError puts the flag up.
NeverDrains == FALSE
GracefulDrain == exc = "cancelled" /\ token = "graceful"
Exit ==
  /\ cpc = "exit"
  /\ cpc' = "drain"
  /\ IF exc # "none" /\ ~GracefulDrain
     THEN initiated' = (initiated \/ exc = "cancelled") /\ CancelFutures(Items)
     ELSE UNCHANGED <<initiated, futures>>
  /\ UNCHANGED <<fixed, token, sent, exc, ended, effects, tracked, pending, record,
                 watcherVars, faults>>

\* A Ctrl-C in the drain: both managers cancel what is left; the classic one
\* re-raises it, the CRT one discards it.
InterruptDrain ==
  /\ cpc = "drain" /\ faults < MaxFaults
  /\ faults' = faults + 1
  /\ CancelFutures(Items)
  /\ exc' = (IF engine = "classic" THEN "fatal" ELSE exc)
  /\ UNCHANGED <<fixed, token, cpc, sent, ended, effects, tracked, initiated, pending,
                 record, watcherVars>>

\* Every accepted item is over, its subscribers included.
Drained ==
  /\ cpc = "drain" /\ Live = {}
  /\ cpc' = "unwatch"
  /\ UNCHANGED <<fixed, token, sent, exc, ended, futures, effects, tracked, initiated, pending,
                 record, watcherVars, faults>>

UnwatchOwesNothing ==
  /\ cpc = "unwatch" /\ wpc = "done"
  /\ cpc' = "verdict"
  /\ UNCHANGED <<fixed, token, sent, exc, ended, futures, effects, tracked, initiated, pending,
                 record, watcherVars, faults>>

\* watcher.join(), then what is still owed to a caller nothing else was raised to.
Unwatch ==
  /\ cpc = "unwatch" /\ wpc = "done"
  /\ cpc' = "verdict"
  /\ IF exc = "none" /\ pending
     THEN exc' = "fatal" /\ pending' = FALSE
     ELSE UNCHANGED <<exc, pending>>
  /\ UNCHANGED <<fixed, token, sent, ended, futures, effects, tracked, initiated, record,
                 watcherVars, faults>>

\* What the operation does after the with block: the last poll of the token,
\* then BatchError if any item failed.
Verdict ==
  /\ cpc = "verdict"
  /\ cpc' = "out"
  /\ ended' = IF exc = "fatal" THEN "raised"
              ELSE IF exc = "cancelled" \/ token # "none" THEN "cancelled"
              ELSE IF \E i \in Items : record[i] = "failed" THEN "batch"
              ELSE "returned"
  /\ UNCHANGED <<fixed, token, sent, exc, futures, effects, tracked, initiated, pending,
                 record, watcherVars, faults>>

Loop ==
  \/ Check \/ Pull \/ Accept \/ Refuse \/ FailAtOnce \/ Track \/ Recheck \/ RaiseOwed
  \/ Exit \/ Drained \/ Unwatch \/ Verdict

-----------------------------------------------------------------------------
(* The engine, and the done subscribers it runs for each item.             *)

Start(i) ==
  /\ phase[i] = "queued"
  /\ phase' = [phase EXCEPT ![i] = "running"]
  /\ UNCHANGED <<fixed, token, loopVars, status, asked, effects, tracked, initiated, pending,
                 record, watcherVars, faults>>

\* The done subscribers follow: the source delete of a move, then the record.
Settle(i, outcome) ==
  /\ status' = [status EXCEPT ![i] = outcome]
  /\ asked' = asked \ {i}
  /\ phase' = [phase EXCEPT ![i] = IF move /\ outcome = "success" THEN "deleting" ELSE "recording"]

\* The bytes are at the destination: a completion wins over a cancel.
Succeed(i) ==
  /\ phase[i] = "running"
  /\ landed' = landed \cup {i}
  /\ Settle(i, "success")
  /\ UNCHANGED <<fixed, token, loopVars, sourceGone, tracked, initiated, pending,
                 record, watcherVars, faults>>

\* The transfer fails - a service fault, no response at all, a failed
\* If-None-Match, the cancellation type thrown by the caller's own stream - or
\* acts on the cancel it was asked for.
Fail(i) ==
  /\ phase[i] = "running"
  /\ IF engine = "classic"
     THEN IF Done(i) THEN Settle(i, status[i])
          ELSE \E outcome \in {"fault", "lost", "exists", "thrown"} : Settle(i, outcome)
     ELSE \E outcome \in {"fault", "lost", "exists"}
                          \cup (IF i \in asked THEN {"crtCancelled"} ELSE {}) : Settle(i, outcome)
  /\ UNCHANGED <<fixed, token, loopVars, effects, tracked, initiated, pending,
                 record, watcherVars, faults>>

\* The caller's own code raises a BaseException on a worker.  _TaskGuard notes it
\* and cancels the transfer; on the CRT engine _GuardedReader notes it and the
\* request fails.
Guarded == IF engine = "classic" THEN "cancelled" ELSE "fault"
RaiseInTask(i) ==
  /\ phase[i] = "running" /\ faults < MaxFaults
  /\ faults' = faults + 1
  /\ Note
  /\ Settle(i, IF Done(i) THEN status[i] ELSE Guarded)
  /\ UNCHANGED <<fixed, token, loopVars, effects, tracked, initiated, record, watcherVars>>

\* _DeleteSource: a delete that fails, or is interrupted after it may have gone
\* out, becomes the outcome of the item.
DeleteSource(i) ==
  /\ phase[i] = "deleting"
  /\ phase' = [phase EXCEPT ![i] = "recording"]
  /\ \/ /\ sourceGone' = sourceGone \cup {i}
        /\ UNCHANGED <<status, faults>>
     \/ /\ \E outcome \in {"fault", "lost", "thrown"} : status' = [status EXCEPT ![i] = outcome]
        /\ UNCHANGED <<sourceGone, faults>>
     \/ /\ faults < MaxFaults
        /\ faults' = faults + 1
        /\ status' = [status EXCEPT ![i] = "interrupt"]
        /\ sourceGone' \in {sourceGone, sourceGone \cup {i}}
  /\ UNCHANGED <<fixed, token, loopVars, asked, landed, tracked, initiated, pending,
                 record, watcherVars>>

\* _is_cancellation: the classic coordinator knows whether cancel() settled it;
\* on the CRT engine only a cancel this run's token ordered counts.
IsCancellation(i) ==
  \/ status[i] = "cancelled"
  \/ engine = "crt" /\ status[i] \in {"crtCancelled", "thrown"} /\ initiated

\* _record_success and _record_failure.
Outcome(i) ==
  CASE status[i] = "success" -> "succeeded"
    [] status[i] = "interrupt" \/ IsCancellation(i) -> "cancelled"
    [] status[i] = "lost" -> "lost"
    [] status[i] = "exists" -> "skipped"
    [] OTHER -> "failed"

\* _Completion and _ForgetFuture: classify, count, hand the record to on_result -
\* whose exception is noted, as is an interrupt that became the outcome - and stop
\* tracking the future.
Record(i) ==
  /\ phase[i] = "recording"
  /\ record' = [record EXCEPT ![i] = Outcome(i)]
  /\ \/ /\ IF status[i] = "interrupt" THEN Note ELSE UNCHANGED pending
        /\ UNCHANGED faults
     \/ /\ Outcome(i) # "lost" /\ faults < MaxFaults
        /\ faults' = faults + 1
        /\ Note
  /\ phase' = [phase EXCEPT ![i] = "over"]
  /\ status' = [status EXCEPT ![i] = "over"]
  /\ tracked' = tracked \ {i}
  /\ UNCHANGED <<fixed, token, loopVars, asked, effects, initiated, watcherVars>>

Work(i) == Start(i) \/ Succeed(i) \/ Fail(i) \/ DeleteSource(i) \/ Record(i)

-----------------------------------------------------------------------------
(* The watcher, and the token.                                             *)

WatchPollFlagless ==
  /\ wpc = "poll"
  /\ IF cpc = "unwatch"
     THEN wpc' = "done"
     ELSE token = "immediate" /\ wpc' = "snapshot"
  /\ UNCHANGED <<fixed, token, loopVars, futures, effects, tracked, initiated, pending, record,
                 snap, faults>>
WatchPollDeaf ==
  /\ wpc = "poll" /\ token = "immediate"
  /\ wpc' = "snapshot"
  /\ initiated' = TRUE
  /\ UNCHANGED <<fixed, token, loopVars, futures, effects, tracked, pending, record,
                 snap, faults>>

\* Every 0.1 s until the shutdown is done: at an immediate token one sweep, for
\* which the flag goes up first.
WatchPoll ==
  /\ wpc = "poll"
  /\ IF cpc = "unwatch"
     THEN wpc' = "done" /\ UNCHANGED initiated
     ELSE /\ token = "immediate"
          /\ wpc' = "snapshot"
          /\ initiated' = TRUE
  /\ UNCHANGED <<fixed, token, loopVars, futures, effects, tracked, pending, record,
                 snap, faults>>

WatchSnapshot ==
  /\ wpc = "snapshot"
  /\ snap' = tracked
  /\ wpc' = "sweep"
  /\ UNCHANGED <<fixed, token, loopVars, futures, effects, tracked, initiated, pending, record,
                 faults>>

WatchSweep ==
  /\ wpc = "sweep"
  /\ \/ \E i \in snap : CancelFutures({i}) /\ snap' = snap \ {i} /\ UNCHANGED wpc
     \/ snap = {} /\ wpc' = "done" /\ UNCHANGED <<futures, snap>>
  /\ UNCHANGED <<fixed, token, loopVars, effects, tracked, initiated, pending, record,
                 faults>>

Watcher == WatchPoll \/ WatchSnapshot \/ WatchSweep

\* CancelToken.cancel(mode), before the operation is over.
Cancel(mode) ==
  /\ cpc # "out"
  /\ token \in (IF mode = "graceful" THEN {"none"} ELSE {"none", "graceful"})
  /\ token' = mode
  /\ UNCHANGED <<fixed, loopVars, futures, effects, tracked, initiated, pending,
                 record, watcherVars, faults>>

Finished == cpc = "out" /\ UNCHANGED vars

Next ==
  \/ Loop \/ Interrupt \/ InterruptDrain
  \/ \E i \in Items : Work(i) \/ RaiseInTask(i)
  \/ Watcher
  \/ \E mode \in {"graceful", "immediate"} : Cancel(mode)
  \/ Finished

\* The threads run; a transfer that was accepted ends (botocore's and the CRT's
\* timeouts), and the producer's pull returns.
Fairness ==
  /\ WF_vars(Loop) /\ WF_vars(Watcher)
  /\ \A i \in Items : WF_vars(Work(i))

SafeSpec == Init /\ [][Next]_vars
Spec == SafeSpec /\ Fairness

-----------------------------------------------------------------------------
(* Properties.                                                             *)

TypeOK ==
  /\ engine \in Engines /\ driver \in Drivers /\ move \in BOOLEAN
  /\ token \in {"none", "graceful", "immediate"}
  /\ cpc \in {"check", "pull", "submit", "track", "recheck", "owed",
              "exit", "drain", "unwatch", "verdict", "out"}
  /\ sent \in 0 .. NumItems /\ exc \in {"none", "cancelled", "fatal"}
  /\ ended \in {"running", "raised", "cancelled", "batch", "returned"}
  /\ phase \in [Items -> {"unsent", "queued", "running", "deleting",
                          "recording", "over"}]
  /\ status \in [Items -> {"none", "success", "cancelled", "fault", "lost", "exists", "thrown",
                           "crtCancelled", "interrupt", "over"}]
  /\ asked \subseteq Items /\ landed \subseteq Items /\ sourceGone \subseteq Items
  /\ tracked \subseteq 1 .. sent /\ snap \subseteq 1 .. sent
  /\ Cardinality(Live) <= Slots
  /\ initiated \in BOOLEAN /\ pending \in BOOLEAN
  /\ record \in [Items -> {"none", "succeeded", "failed", "skipped", "cancelled", "lost"}]
  /\ wpc \in {"poll", "snapshot", "sweep", "done"}
  /\ faults \in 0 .. MaxFaults
  \* The tracked futures are bounded by the outstanding work: a future that settled while
  \* it was being handed over is not kept, unless a Ctrl-C ends the run there.
  /\ \A i \in tracked : phase[i] = "over" => i = sent /\ (cpc = "recheck" \/ exc = "fatal")

\* A graceful cancel drains: unless something else ends the run, no accepted item
\* is revoked.
GracefulDrains ==
  token # "immediate" /\ faults = 0 /\ exc # "fatal" =>
    asked = {} /\ \A i \in Items : record[i] # "cancelled"

\* On the CRT engine an item revoked by the token's order alone is CANCELLED,
\* never FAILED: whoever sees the revocation sees the flag.
OrderedIsCancelled ==
  [][\A i \in Items : status[i] = "crtCancelled" /\ record'[i] = "failed" =>
       faults > 0 \/ exc = "fatal"]_vars

\* The operation returns normally only when all it accepted is done and nothing
\* is owed to the caller: no item revoked or failed, no exception swallowed.
NormalReturnMeansDone ==
  ended = "returned" =>
    /\ \A i \in 1 .. sent : record[i] \in {"succeeded", "skipped", "lost"}
    /\ ~pending

\* Once an immediate cancel has been acted on, no transfer of the drain is left
\* that was not told.
ImmediateReachesAll ==
  cpc = "drain" /\ token = "immediate" /\ wpc = "done" => Unsettled \subseteq asked

\* The run seen from outside: the loop still takes items, and it read the token for
\* the one it is about to hand over.
Open == cpc \in {"check", "pull", "submit", "track", "recheck", "owed"}
Polled == cpc = "submit" \/ (driver = "cp" /\ cpc = "pull")

Ledger == INSTANCE TransferLedger
            WITH open <- Open, polled <- Polled, held <- Live, owed <- pending

\* Loop, engine, subscribers and watcher together keep what a transfer run promises
\* (TransferLedger): order, one true record for each item, no item revoked without a
\* reason the caller learns, no exception swallowed, nothing outstanding at the end.
LedgerSpec == Ledger!Spec

\* The run ends: neither the drain nor the watcher waits for the other.
RunEnds == cpc = "exit" ~> cpc = "out"
=============================================================================
