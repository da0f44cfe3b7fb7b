------------------------------ MODULE Deleter -------------------------------
(***************************************************************************)
(* The S3Deleter (src/boto3_s3/deleter.py): a caller submits entries, a    *)
(* single worker thread deletes them in batches, falling back to one       *)
(* DeleteObject per key where the batch request cannot decide, and reports *)
(* one record per entry.                                                   *)
(*                                                                         *)
(* Four parties interleave: the caller (submit, flush, close, and the wait *)
(* for the batch in flight), the worker, the pool that sends single keys   *)
(* concurrently, and whoever cancels the token.  The service answers as it *)
(* likes, truthfully: a key it reports no error for is gone.               *)
(*                                                                         *)
(* Abstraction.  Entries are numbered in submission order, so the buffer   *)
(* is always the interval dispatched+1 .. submitted and a batch is an      *)
(* interval too.  A key is a model value.  The rollup counters are the     *)
(* lengths of the records by outcome.                                      *)
(***************************************************************************)
EXTENDS Naturals, Sequences, FiniteSets

CONSTANTS
  NumEntries,                \* bound: entries the caller may submit
  Keys,                      \* object keys
  KeyMaps,                   \* the keys of the entries, one choice per map; entries may share one
  Batchable,                 \* the keys XML 1.0 can carry (_delete_objects_compatible)
  BatchSize,                 \* batch_size
  Concurrency,               \* _RESEND_CONCURRENCY
  Postures,                  \* the constructor postures considered
  Raisable,                  \* what on_result may raise: "raised", or "timeout" for a TimeoutError
  MaxFaults                  \* bound: KeyboardInterrupts in the caller and exceptions
                             \* that escape on_result or a request, together

Entries == 1 .. NumEntries

ASSUME DeleterAssumption ==
  /\ NumEntries \in Nat
  /\ KeyMaps \subseteq [Entries -> Keys]
  /\ Batchable \subseteq Keys
  /\ Postures \subseteq [crt : BOOLEAN, resend : BOOLEAN, capture : BOOLEAN]
  /\ \A p \in Postures : p.crt => p.resend       \* _resend_transient
  /\ Raisable \subseteq {"raised", "timeout"}
  /\ BatchSize \in Nat \ {0} /\ Concurrency \in Nat \ {0}
  /\ MaxFaults \in Nat

VARIABLES
  posture,                   \* [crt, resend, capture]: fixed by the constructor
  keyOf,                     \* the key of each entry
  token,                     \* the cancel token: "none", "graceful" or "immediate"
  \* the caller
  cpc,                       \* where the caller is
  call,                      \* the method in progress: "submit", "flush", "close" or "none"
  submitted, dispatched,     \* the buffer is the interval between them
  pending,                   \* _pending: the batch in flight, 0 for None
  awaited,                   \* the batch _wait_pending took, 0 for None
  abandoned,                 \* _abandoned
  interrupts,                \* KeyboardInterrupts delivered (bounded)
  \* the executor: batch b is entries Batch(b), its future is fut[b]
  ends,                      \* the last entry of each dispatched batch
  fut,                       \* "queued", "running", "done", "cancelled", or one of Failed
  \* the worker and its pool
  wpc,                       \* where the worker is
  todo, inflight,            \* entries of the present pool not started, and out
  result,                    \* errors[] and lost[] of the batch: per entry
  next,                      \* the next entry to record
  boom,                      \* a pool request raised AssertionError
  raises,                    \* exceptions raised so far (bounded)
  \* the service, and what the outside saw
  gone,                      \* keys the service has deleted and answered for
  records,                   \* the records, in the order on_result got them
  surfaced,                  \* history: batches whose exception the caller got
  closeCall,                 \* history: the close() call that ended the run
  escaped                    \* history: an interrupt broke the final shutdown wait

callerVars == <<cpc, call, submitted, dispatched, pending, awaited, abandoned, interrupts>>
workerVars == <<wpc, todo, inflight, result, next, boom, raises>>
history == <<surfaced, closeCall, escaped>>
fixed == <<posture, keyOf>>
vars == <<fixed, token, callerVars, ends, fut, workerVars, gone, records, history>>

FirstOverlapping(b) == IF b = 1 THEN 1 ELSE ends[b - 1]
First(b) == IF b = 1 THEN 1 ELSE ends[b - 1] + 1
Batch(b) == First(b) .. ends[b]
Batches == 1 .. Len(ends)
BatchOf(e) == CHOOSE b \in Batches : e \in Batch(b)
Running == CHOOSE b \in Batches : fut[b] = "running"
Failed == {"raised", "timeout"}
Ended == {"done", "cancelled"} \cup Failed
Lost == {"dropped", "skipped"}

Cancelled == token # "none"
Buffered == submitted - dispatched

Init ==
  /\ posture \in Postures /\ keyOf \in KeyMaps
  /\ token = "none"
  /\ cpc = "idle" /\ call = "none" /\ submitted = 0 /\ dispatched = 0
  /\ pending = 0 /\ awaited = 0 /\ abandoned = FALSE /\ interrupts = 0
  /\ ends = <<>> /\ fut = <<>>
  /\ wpc = "idle" /\ todo = {} /\ inflight = {} /\ next = 0 /\ boom = FALSE /\ raises = 0
  /\ result = [e \in Entries |-> "ok"]
  /\ gone = {} /\ records = <<>>
  /\ surfaced = <<>> /\ closeCall = [flush |-> TRUE, token |-> "none"] /\ escaped = FALSE

-----------------------------------------------------------------------------
(* The caller.                                                             *)

\* submit: buffer the entry, and flush a full buffer.
Submit ==
  /\ cpc = "idle" /\ submitted < NumEntries
  /\ submitted' = submitted + 1
  /\ IF Buffered + 1 >= BatchSize
     THEN cpc' = "flush" /\ call' = "submit"
     ELSE UNCHANGED <<cpc, call>>
  /\ UNCHANGED <<fixed, token, dispatched, pending, awaited, abandoned, interrupts,
                 ends, fut, workerVars, gone, records, history>>

Flush ==
  /\ cpc = "idle" /\ Buffered > 0
  /\ cpc' = "flush" /\ call' = "flush"
  /\ UNCHANGED <<fixed, token, submitted, dispatched, pending, awaited, abandoned, interrupts,
                 ends, fut, workerVars, gone, records, history>>

\* _wait_pending takes the batch in flight before it waits, so that a failed
\* batch is reported once; with none in flight the caller goes on at once.
TakePendingKept(waitAt, goOn) ==
  /\ awaited' = pending
  /\ cpc' = IF pending = 0 THEN goOn ELSE waitAt
  /\ UNCHANGED pending
TakePending(waitAt, goOn) ==
  /\ awaited' = pending
  /\ pending' = 0
  /\ cpc' = IF pending = 0 THEN goOn ELSE waitAt

\* close(flush): what makes it an abandonment is decided first.  A graceful
\* cancel drains what was accepted, so leaving under one abandons nothing.
AbandonsEvenGraceful(flush) == ~flush
Abandons(flush) == ~flush /\ token # "graceful"
Close(flush) ==
  /\ cpc = "idle"
  /\ abandoned' = (abandoned \/ Abandons(flush))
  /\ closeCall' = [flush |-> flush, token |-> token]
  /\ call' = "close"
  /\ IF flush /\ ~Cancelled
     THEN cpc' = "flush" /\ UNCHANGED <<pending, awaited>>
     ELSE TakePending("lastWait", "shutdown")
  /\ UNCHANGED <<fixed, token, submitted, dispatched, interrupts,
                 ends, fut, workerVars, gone, records, surfaced, escaped>>

\* flush() returns into the method that called it.
FlushReturns ==
  IF call = "close"
  THEN TakePending("lastWait", "shutdown") /\ UNCHANGED call
  ELSE cpc' = "idle" /\ call' = "none" /\ UNCHANGED <<pending, awaited>>

\* `while self._buffer`, the first cancel check, and the entry of _wait_pending.
FlushLoop ==
  /\ cpc = "flush"
  /\ IF Buffered = 0 \/ Cancelled
     THEN FlushReturns
     ELSE TakePending("wait", "dispatch") /\ UNCHANGED call
  /\ UNCHANGED <<fixed, token, submitted, dispatched, abandoned, interrupts,
                 ends, fut, workerVars, gone, records, history>>

SliceUnclipped(a, b) == a
Smaller(a, b) == IF a < b THEN a ELSE b

RecheckDropped ==
  /\ cpc = "dispatch" /\ cpc' = "slice"
  /\ UNCHANGED <<fixed, token, call, submitted, dispatched, pending, awaited, abandoned,
                 interrupts, ends, fut, workerVars, gone, records, history>>

\* The second cancel check; a cancel that comes after it does not stop the batch.
Recheck ==
  /\ cpc = "dispatch"
  /\ IF Cancelled
     THEN FlushReturns
     ELSE cpc' = "slice" /\ UNCHANGED <<call, pending, awaited>>
  /\ UNCHANGED <<fixed, token, submitted, dispatched, abandoned, interrupts,
                 ends, fut, workerVars, gone, records, history>>

\* One batch off the head of the buffer goes to the executor.
Dispatch ==
  /\ cpc = "slice"
  /\ dispatched' = Smaller(dispatched + BatchSize, submitted)
  /\ ends' = Append(ends, dispatched')
  /\ fut' = Append(fut, "queued")
  /\ pending' = Len(ends')
  /\ cpc' = "flush"
  /\ UNCHANGED <<fixed, token, call, submitted, awaited, abandoned, interrupts,
                 workerVars, gone, records, history>>

\* _wait_pending under an immediate cancel: the future is cancelled if the
\* executor has not started it.
CancelQueued ==
  /\ cpc \in {"wait", "lastWait"} /\ token = "immediate"
  /\ fut[awaited] = "queued"
  /\ fut' = [fut EXCEPT ![awaited] = "cancelled"]
  /\ UNCHANGED <<fixed, token, callerVars, ends, workerVars, gone, records, history>>

\* The exception leaves the method: close() abandons the run and shuts down,
\* the others hand it to the application.
Throw ==
  /\ awaited' = 0
  /\ IF call = "close"
     THEN cpc' = "shutdown" /\ abandoned' = TRUE /\ UNCHANGED call
     ELSE cpc' = "idle" /\ call' = "none" /\ UNCHANGED abandoned

\* What the poll of _wait_pending takes for an answer.  `except FutureTimeoutError:
\* continue` means the poll's own timeout, but from Python 3.11 on that class is
\* TimeoutError, and a batch that raised one looks unfinished at every poll.
ResolvedNotCancelled == {"done", "raised"}
Resolved == {"done", "raised", "cancelled"}

\* The awaited batch is over: go on, or re-raise what it raised.
WaitReturns ==
  /\ cpc \in {"wait", "lastWait"} /\ fut[awaited] \in Resolved
  /\ IF fut[awaited] = "raised"
     THEN Throw /\ surfaced' = Append(surfaced, awaited)
     ELSE /\ awaited' = 0
          /\ cpc' = IF cpc = "wait" THEN "dispatch" ELSE "shutdown"
          /\ UNCHANGED <<call, abandoned, surfaced>>
  /\ UNCHANGED <<fixed, token, submitted, dispatched, pending, interrupts,
                 ends, fut, workerVars, gone, records, closeCall, escaped>>

\* The poll times out, or takes what it got for that, and the loop goes round.
Poll ==
  /\ cpc \in {"wait", "lastWait"} /\ fut[awaited] \notin Resolved
  /\ UNCHANGED vars

\* A KeyboardInterrupt lands in the wait: the reference to the batch is lost.
InterruptWait ==
  /\ cpc \in {"wait", "lastWait"} /\ interrupts + raises < MaxFaults
  /\ interrupts' = interrupts + 1
  /\ Throw
  /\ UNCHANGED <<fixed, token, submitted, dispatched, pending,
                 ends, fut, workerVars, gone, records, history>>

\* `executor.shutdown(wait=True)`: every batch handed over has ended.
Shutdown ==
  /\ cpc = "shutdown"
  /\ \A b \in Batches : fut[b] \in Ended
  /\ cpc' = "closed"
  /\ UNCHANGED <<fixed, token, call, submitted, dispatched, pending, awaited, abandoned,
                 interrupts, ends, fut, workerVars, gone, records, history>>

InterruptShutdown ==
  /\ cpc = "shutdown" /\ interrupts + raises < MaxFaults
  /\ interrupts' = interrupts + 1
  /\ escaped' = TRUE
  /\ cpc' = "closed"
  /\ UNCHANGED <<fixed, token, call, submitted, dispatched, pending, awaited, abandoned,
                 ends, fut, workerVars, gone, records, surfaced, closeCall>>

CallerStep == FlushLoop \/ Recheck \/ Dispatch \/ CancelQueued \/ WaitReturns \/ Shutdown

-----------------------------------------------------------------------------
(* The worker.                                                             *)

BatchableOf(b) == {e \in Batch(b) : keyOf[e] \in Batchable}
SinglesOf(b) == Batch(b) \ BatchableOf(b)
KeysOf(es) == {keyOf[e] : e \in es}

\* The executor's one thread starts the oldest queued batch.
Take ==
  /\ wpc = "idle"
  /\ \E b \in Batches :
       /\ fut[b] = "queued"
       /\ \A c \in 1 .. b - 1 : fut[c] # "queued"
       /\ fut' = [fut EXCEPT ![b] = "running"]
       /\ next' = First(b)
       /\ IF BatchableOf(b) # {}
          THEN wpc' = "request" /\ UNCHANGED todo
          ELSE wpc' = "singles" /\ todo' = SinglesOf(b)
  /\ UNCHANGED <<fixed, token, callerVars, ends, inflight, result, boom, raises,
                 gone, records, history>>

\* The batch ends by an exception: no record of it follows.
RaiseBatch(what) ==
  /\ wpc' = "idle"
  /\ fut' = [fut EXCEPT ![Running] = what]

\* The request as a whole fails: whatever it did, nothing is known of any key,
\* and every key goes out again on its own.
RequestFails ==
  /\ wpc = "request"
  /\ wpc' = "resend"
  /\ todo' = BatchableOf(Running)
  /\ UNCHANGED <<fixed, token, callerVars, ends, fut, inflight, result, next, boom, raises,
                 gone, records, history>>

\* An AssertionError out of the request is no request outcome.
RequestRaises ==
  /\ wpc = "request" /\ interrupts + raises < MaxFaults
  /\ raises' = raises + 1
  /\ RaiseBatch("raised")
  /\ UNCHANGED <<fixed, token, callerVars, ends, todo, inflight, result, next, boom,
                 gone, records, history>>

\* _fail_unconfirmed: with an error entry nobody can attribute, a key without
\* evidence of its own fails.
Unconfirmed(answer) ==
  IF \E k \in DOMAIN answer : answer[k] = "garbled"
  THEN {k \in DOMAIN answer : answer[k] = "garbled"
                               \/ (answer[k] = "deleted" /\ ~posture.capture)}
  ELSE {}

\* The request answers: each key deleted, or reported under its name as a lasting
\* or a passing fault, or reported under a name that was not sent.
RequestAnswers ==
  /\ wpc = "request"
  /\ \E answer \in [KeysOf(BatchableOf(Running)) -> {"deleted", "hard", "transient", "garbled"}] :
       LET again == {e \in BatchableOf(Running) : posture.resend /\ answer[keyOf[e]] = "transient"}
           failed == {e \in BatchableOf(Running) \ again :
                        answer[keyOf[e]] \in {"hard", "transient"}
                        \/ keyOf[e] \in Unconfirmed(answer)}
       IN /\ gone' = gone \cup {k \in DOMAIN answer : answer[k] = "deleted"}
          /\ result' = [e \in Entries |-> IF e \in failed THEN "failed" ELSE result[e]]
          /\ todo' = again
  /\ wpc' = "resend"
  /\ UNCHANGED <<fixed, token, callerVars, ends, fut, inflight, next, boom, raises,
                 records, history>>

\* _send_singly: an entry is not sent once the run is abandoned or the token
\* is in immediate mode.
Stopped == abandoned \/ token = "immediate"

SendStart(e) ==
  /\ e \in todo /\ Cardinality(inflight) < Concurrency
  /\ todo' = todo \ {e}
  /\ IF Stopped
     THEN result' = [result EXCEPT ![e] = "skipped"] /\ UNCHANGED inflight
     ELSE inflight' = inflight \cup {e} /\ UNCHANGED result
  /\ UNCHANGED <<fixed, token, callerVars, ends, fut, wpc, next, boom, raises,
                 gone, records, history>>

\* _run_delete_object comes back: deleted, failed, or - on botocore only - lost
\* without a response.
SendEnd(e) ==
  /\ e \in inflight
  /\ inflight' = inflight \ {e}
  /\ \/ /\ gone' = gone \cup {keyOf[e]}
        /\ UNCHANGED <<result, boom, raises>>
     \/ /\ \E r \in {"failed"} \cup (IF posture.crt THEN {} ELSE {"dropped"}) :
             result' = [result EXCEPT ![e] = r]
        /\ UNCHANGED <<gone, boom, raises>>
     \/ /\ interrupts + raises < MaxFaults
        /\ raises' = raises + 1
        /\ boom' = TRUE
        /\ UNCHANGED <<result, gone>>
  /\ UNCHANGED <<fixed, token, callerVars, ends, fut, wpc, todo, next, records, history>>

\* The pool is joined; then the keys the batch could not carry, then the records.
PoolEnds ==
  /\ wpc \in {"resend", "singles"} /\ todo = {} /\ inflight = {}
  /\ boom' = FALSE
  /\ IF boom
     THEN RaiseBatch("raised") /\ UNCHANGED todo
     ELSE /\ UNCHANGED fut
          /\ IF wpc = "resend" /\ SinglesOf(Running) # {}
             THEN wpc' = "singles" /\ todo' = SinglesOf(Running)
             ELSE wpc' = "record" /\ UNCHANGED todo
  /\ UNCHANGED <<fixed, token, callerVars, ends, inflight, result, next, raises,
                 gone, records, history>>

\* One entry of the batch, in submission order; on_result may raise, and then
\* the rest of the batch gets no record.
Record ==
  /\ wpc = "record" /\ next \in Batch(Running)
  /\ next' = next + 1
  /\ IF result[next] \in Lost
     THEN UNCHANGED <<records, wpc, fut, raises>>
     ELSE /\ records' = Append(records,
                [entry |-> next, outcome |-> IF result[next] = "ok" THEN "succeeded" ELSE "failed"])
          /\ \/ UNCHANGED <<wpc, fut, raises>>
             \/ /\ interrupts + raises < MaxFaults
                /\ raises' = raises + 1
                /\ \E what \in Raisable : RaiseBatch(what)
  /\ UNCHANGED <<fixed, token, callerVars, ends, todo, inflight, result, boom, gone, history>>

BatchEnds ==
  /\ wpc = "record" /\ next \notin Batch(Running)
  /\ wpc' = "idle"
  /\ fut' = [fut EXCEPT ![Running] = "done"]
  /\ UNCHANGED <<fixed, token, callerVars, ends, todo, inflight, result, next, boom, raises,
                 gone, records, history>>

Worker ==
  \/ Take \/ RequestFails \/ RequestRaises \/ RequestAnswers
  \/ \E e \in Entries : SendStart(e) \/ SendEnd(e)
  \/ PoolEnds \/ Record \/ BatchEnds

-----------------------------------------------------------------------------

\* CancelToken.cancel(mode): the mode only ever escalates.  A cancel after the
\* run is over is left out: nothing reads it.
Cancel(mode) ==
  /\ ~(cpc = "closed" /\ wpc = "idle")
  /\ token \in (IF mode = "graceful" THEN {"none"} ELSE {"none", "graceful"})
  /\ token' = mode
  /\ UNCHANGED <<fixed, callerVars, ends, fut, workerVars, gone, records, history>>

Finished ==
  /\ cpc = "closed" /\ wpc = "idle" /\ \A b \in Batches : fut[b] \in Ended
  /\ UNCHANGED vars

Next ==
  \/ Submit \/ Flush \/ \E flush \in BOOLEAN : Close(flush)
  \/ CallerStep \/ Poll \/ InterruptWait \/ InterruptShutdown
  \/ Worker
  \/ \E mode \in {"graceful", "immediate"} : Cancel(mode)
  \/ Finished

\* The threads run and every request comes back (botocore's and the CRT's
\* timeouts); what the application calls, and whether it cancels, is its own.
Fairness == WF_vars(CallerStep) /\ WF_vars(Worker)

SafeSpec == Init /\ [][Next]_vars
Spec == SafeSpec /\ Fairness

-----------------------------------------------------------------------------
(* Properties.                                                             *)

TypeOK ==
  /\ posture \in Postures /\ keyOf \in KeyMaps
  /\ token \in {"none", "graceful", "immediate"}
  /\ cpc \in {"idle", "flush", "wait", "dispatch", "slice", "lastWait", "shutdown", "closed"}
  /\ call \in {"none", "submit", "flush", "close"}
  /\ submitted \in 0 .. NumEntries /\ dispatched \in 0 .. submitted
  /\ pending \in 0 .. Len(ends) /\ awaited \in 0 .. Len(ends)
  /\ abandoned \in BOOLEAN /\ interrupts \in 0 .. MaxFaults
  /\ ends \in Seq(Entries) /\ Len(fut) = Len(ends)
  /\ fut \in Seq({"queued", "running"} \cup Ended)
  /\ wpc \in {"idle", "request", "resend", "singles", "record"}
  /\ todo \subseteq Entries /\ inflight \subseteq Entries
  /\ result \in [Entries -> {"ok", "failed"} \cup Lost]
  /\ next \in Nat /\ boom \in BOOLEAN /\ raises \in 0 .. MaxFaults
  /\ gone \subseteq Keys
  /\ records \in Seq([entry : Entries, outcome : {"succeeded", "failed"}])
  /\ surfaced \in Seq(Nat) /\ escaped \in BOOLEAN
  /\ closeCall \in [flush : BOOLEAN, token : {"none", "graceful", "immediate"}]

\* A record of success is never invented: the service did delete that key.
NoFalseSuccess ==
  \A i \in DOMAIN records :
    records[i].outcome = "succeeded" => keyOf[records[i].entry] \in gone

\* Records come in submission order, and no entry gets two - across batches,
\* concurrent re-sends, raising callbacks and interrupted waits.
RecordsInOrder ==
  \A i, j \in DOMAIN records : i < j => records[i].entry < records[j].entry

\* Why the run may have stopped short of what was submitted.
CutShort ==
  \/ token = "immediate"
  \/ interrupts > 0
  \/ surfaced # <<>>
  \/ ~closeCall.flush /\ closeCall.token # "graceful"

\* Once closed, every entry is recorded or accounted for: never dispatched
\* because the run was cancelled or cut short, in a batch that raised or was
\* cancelled before it started, not re-sent because the run was cut short, or
\* lost by botocore the way aws-cli loses it.  In particular a graceful cancel
\* drains the batch in flight.
ClosedAccountsForAll ==
  cpc = "closed" /\ ~escaped =>
    \A e \in 1 .. submitted :
      \/ \E i \in DOMAIN records : records[i].entry = e
      \/ e > dispatched /\ (Cancelled \/ CutShort)
      \/ e <= dispatched /\
           \/ fut[BatchOf(e)] \in Failed
           \/ fut[BatchOf(e)] = "cancelled" /\ token = "immediate"
           \/ fut[BatchOf(e)] = "done" /\ result[e] = "dropped" /\ ~posture.crt
           \/ fut[BatchOf(e)] = "done" /\ result[e] = "skipped" /\ CutShort

\* What the worker raised reaches the caller, and reaches it once; only an
\* interrupted wait can lose it.
WorkerErrorSurfacesOnce ==
  /\ \A i, j \in DOMAIN surfaced : surfaced[i] = surfaced[j] => i = j
  /\ cpc = "closed" /\ interrupts = 0 =>
       \A b \in Batches : fut[b] \in Failed => \E i \in DOMAIN surfaced : surfaced[i] = b

\* How far an entry got, as the abstract ledger tells it.
Out(e) ==
  \E b \in Batches : e \in Batch(b) /\ (fut[b] = "queued" \/ (fut[b] = "running" /\ e >= next))
Reported(e, outcome) ==
  \E i \in DOMAIN records : records[i].entry = e /\ records[i].outcome = outcome
Stage(e) ==
  CASE e > submitted -> "unseen"
    [] e \in dispatched + 1 .. submitted -> "buffered"
    [] e <= dispatched /\ Out(e) -> "out"
    [] OTHER -> IF Reported(e, "succeeded") THEN "succeeded"
                ELSE IF Reported(e, "failed") THEN "failed"
                ELSE IF result[e] = "dropped" THEN "lost" ELSE "void"

Ledger == INSTANCE DeleteLedger WITH
  crt <- posture.crt,
  stage <- [e \in Entries |-> Stage(e)],
  cleared <- cpc = "slice",
  cut <- IF interrupts > 0 THEN "interrupted"
         ELSE IF surfaced # <<>> \/ (~closeCall.flush /\ closeCall.token # "graceful")
              THEN "short" ELSE "no",
  ended <- IF cpc # "closed" THEN "open" ELSE IF escaped THEN "broken" ELSE "closed"

\* The deleter keeps the promises of its docstrings: batches go out in order, one at a
\* time and each only after the token was read once more, so that a cancel lets out at
\* most the one batch the caller had already cleared; only keys in flight are deleted; an entry is reported
\* once, in order and truly; and a closed deleter has nothing in flight, nothing given
\* up without a reason, and does nothing more.
LedgerSpec == Ledger!Spec

\* Every call returns, whatever batch it waits for and however it is cancelled.
CallsReturn == call # "none" ~> cpc \in {"idle", "closed"}
=============================================================================
