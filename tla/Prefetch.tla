------------------------------ MODULE Prefetch ------------------------------
(***************************************************************************)
(* One call of `prefetch` (src/boto3_s3/concurrency.py): a worker thread   *)
(* pulls pages from a slow source into a bounded queue while the consumer  *)
(* iterates them, until the consumer leaves the context.                   *)
(*                                                                         *)
(* The worker and the consumer interleave at every access to the state     *)
(* they share: the queue, the stop event, the cancel token and the error   *)
(* list.  In particular the worker tests its flags and touches the queue   *)
(* in separate steps, so a flag may change in between, and a put that is   *)
(* already blocked may succeed after the consumer drained the queue.       *)
(*                                                                         *)
(* Abstraction.  A page stands for its items (the consumer flattens a page *)
(* locally); pages are numbered in source order, and the numbers are what  *)
(* lets the properties see a gap, a repetition or a reordering.            *)
(***************************************************************************)
EXTENDS Naturals, Sequences

CONSTANTS
  NumPages,                  \* pages the source holds before StopIteration
  QueueSizes,                \* the queue_size arguments considered
  MaxInterrupts              \* bound: KeyboardInterrupts delivered to the consumer

ASSUME PrefetchAssumption ==
  /\ NumPages \in Nat
  /\ QueueSizes \subseteq Nat \ {0}     \* queue_size <= 0 raises ValueError
  /\ MaxInterrupts \in Nat

VARIABLES
  queueSize,                 \* argument: capacity of the queue
  reusable,                  \* argument: reusable_after_interrupt
  q,                         \* the queue, head first: page numbers and the end marker
  stop,                      \* the stop event
  cancelled,                 \* cancel_token.cancelled
  marked,                    \* the process-wide _interrupt_unwinding flag
  error,                     \* the source raised, and the worker kept the exception
  wpc,                       \* where the worker is
  pulled,                    \* pages the source has returned
  cpc,                       \* where the consumer is
  got,                       \* the last page handed to the consumer, 0 before the first
  interrupted,               \* this context unwinds on a KeyboardInterrupt
  interrupts,                \* KeyboardInterrupts delivered (bounded)
  escaped,                   \* history: an interrupt broke into the teardown itself
  late                       \* history: pages returned or queued since stop or cancel

args == <<queueSize, reusable>>
flags == <<stop, cancelled, marked>>
workerVars == <<wpc, pulled, error, late>>
consumerVars == <<cpc, got, interrupted, interrupts, escaped>>
vars == <<args, q, flags, workerVars, consumerVars>>

END == 0                     \* the end-of-stream sentinel; pages are 1 .. NumPages

WorkerPCs == {"start", "check", "pull", "returned", "put", "offer",
              "putEnd", "offerEnd", "done"}
ConsumerPCs == {"app", "get", "ended", "raised", "drain", "join", "out"}

Init ==
  /\ queueSize \in QueueSizes
  /\ reusable \in BOOLEAN
  /\ q = <<>>
  /\ stop = FALSE /\ cancelled = FALSE /\ marked = FALSE
  /\ wpc = "start" /\ pulled = 0 /\ error = FALSE /\ late = 0
  /\ cpc = "app" /\ got = 0
  /\ interrupted = FALSE /\ interrupts = 0 /\ escaped = FALSE

StoppingIgnoresCancel == stop
Stopping == stop \/ cancelled
NeverFull == FALSE
Full == Len(q) >= queueSize
Late == IF stop \/ cancelled THEN late + 1 ELSE late

-----------------------------------------------------------------------------
(* The worker: _produce and _put.                                          *)

\* iter(pages): it may already raise.
Start ==
  /\ wpc = "start"
  /\ \/ wpc' = "check" /\ UNCHANGED error
     \/ wpc' = "putEnd" /\ error' = TRUE
  /\ UNCHANGED <<args, q, flags, pulled, late, consumerVars>>

\* `while not _stopping()`
Check ==
  /\ wpc = "check"
  /\ wpc' = IF Stopping THEN "putEnd" ELSE "pull"
  /\ UNCHANGED <<args, q, flags, pulled, error, late, consumerVars>>

\* `next(source)` comes back: a page, StopIteration, or an exception.
Pull ==
  /\ wpc = "pull"
  /\ \/ /\ pulled < NumPages
        /\ pulled' = pulled + 1
        /\ late' = Late
        /\ wpc' = "returned"
        /\ UNCHANGED error
     \/ /\ pulled = NumPages
        /\ wpc' = "putEnd"
        /\ UNCHANGED <<pulled, error, late>>
     \/ /\ error' = TRUE
        /\ wpc' = "putEnd"
        /\ UNCHANGED <<pulled, late>>
  /\ UNCHANGED <<args, q, flags, consumerVars>>

\* The second `if _stopping(): break`: the page that came back is discarded.
Returned ==
  /\ wpc = "returned"
  /\ wpc' = IF Stopping THEN "putEnd" ELSE "put"
  /\ UNCHANGED <<args, q, flags, pulled, error, late, consumerVars>>

\* `_put(chunk)` tests the flags before every attempt; it drops the page and
\* returns when either is up.
Put ==
  /\ wpc = "put"
  /\ wpc' = IF Stopping THEN "check" ELSE "offer"
  /\ UNCHANGED <<args, q, flags, pulled, error, late, consumerVars>>

OfferDropsWhenFull ==
  /\ wpc = "offer"
  /\ wpc' = "check"
  /\ IF Full THEN UNCHANGED <<q, late>> ELSE q' = Append(q, pulled) /\ late' = Late
  /\ UNCHANGED <<args, flags, pulled, error, consumerVars>>

\* One `q.put(chunk, timeout=...)`: it goes in, or it times out on a full queue.
Offer ==
  /\ wpc = "offer"
  /\ \/ /\ ~Full
        /\ q' = Append(q, pulled)
        /\ late' = Late
        /\ wpc' = "check"
     \/ /\ Full
        /\ wpc' = "put"
        /\ UNCHANGED <<q, late>>
  /\ UNCHANGED <<args, flags, pulled, error, consumerVars>>

PutEndUnfinished ==
  /\ wpc = "putEnd"
  /\ wpc' = IF Stopping THEN "done" ELSE "offerEnd"
  /\ UNCHANGED <<args, q, flags, pulled, error, late, consumerVars>>
PutEndDeaf ==
  /\ wpc = "putEnd"
  /\ wpc' = "offerEnd"
  /\ UNCHANGED <<args, q, flags, pulled, error, late, consumerVars>>

\* `_put(_END, finish=True)`: only the stop event gives up on it.
PutEnd ==
  /\ wpc = "putEnd"
  /\ wpc' = IF stop THEN "done" ELSE "offerEnd"
  /\ UNCHANGED <<args, q, flags, pulled, error, late, consumerVars>>

OfferEnd ==
  /\ wpc = "offerEnd"
  /\ \/ ~Full /\ q' = Append(q, END) /\ wpc' = "done"
     \/ Full /\ wpc' = "putEnd" /\ UNCHANGED q
  /\ UNCHANGED <<args, flags, pulled, error, late, consumerVars>>

Worker == Start \/ Check \/ Pull \/ Returned \/ Put \/ Offer \/ PutEnd \/ OfferEnd

-----------------------------------------------------------------------------
(* The consumer: _consume, and the context manager's exit.                 *)

\* The application asks for more than the page in hand.
Ask ==
  /\ cpc = "app"
  /\ cpc' = "get"
  /\ UNCHANGED <<args, q, flags, workerVars, got, interrupted, interrupts, escaped>>

\* The untimed `q.get()` returns.
Get ==
  /\ cpc = "get"
  /\ q # <<>>
  /\ q' = Tail(q)
  /\ IF Head(q) = END
     THEN /\ cpc' = IF error THEN "raised" ELSE "ended"
          /\ UNCHANGED got
     ELSE cpc' = "app" /\ got' = Head(q)
  /\ UNCHANGED <<args, flags, workerVars, interrupted, interrupts, escaped>>

\* The body ends, breaks early, or unwinds on an exception: the `finally`
\* sets the stop event first.
Exit ==
  /\ cpc \in {"app", "ended", "raised"}
  /\ stop' = TRUE
  /\ cpc' = "drain"
  /\ UNCHANGED <<args, q, cancelled, marked, workerVars, got, interrupted, interrupts, escaped>>

\* A KeyboardInterrupt lands in the body or in the blocked pull.
Interrupt ==
  /\ cpc \in {"app", "get"}
  /\ interrupts < MaxInterrupts
  /\ interrupts' = interrupts + 1
  /\ interrupted' = TRUE
  /\ stop' = TRUE
  /\ cpc' = "drain"
  /\ UNCHANGED <<args, q, cancelled, marked, workerVars, got, escaped>>

\* `q.get_nowait()` until Empty, then the join policy: wait for the worker, or
\* leave it to die with the process.
JoinsUnlessInterrupted == ~interrupted
Joins == reusable \/ ~(interrupted \/ marked)
Drain ==
  /\ cpc = "drain"
  /\ \/ q # <<>> /\ q' = Tail(q) /\ UNCHANGED cpc
     \/ q = <<>> /\ cpc' = (IF Joins THEN "join" ELSE "out") /\ UNCHANGED q
  /\ UNCHANGED <<args, flags, workerVars, got, interrupted, interrupts, escaped>>

Join ==
  /\ cpc = "join"
  /\ wpc = "done"
  /\ cpc' = "out"
  /\ UNCHANGED <<args, q, flags, workerVars, got, interrupted, interrupts, escaped>>

\* A further KeyboardInterrupt breaks out of the teardown, join included.
InterruptTeardown ==
  /\ cpc \in {"drain", "join"}
  /\ interrupts < MaxInterrupts
  /\ interrupts' = interrupts + 1
  /\ escaped' = TRUE
  /\ cpc' = "out"
  /\ UNCHANGED <<args, q, flags, workerVars, got, interrupted>>

-----------------------------------------------------------------------------
(* The rest of the process.                                                *)

\* CancelToken.cancel, from any thread; the flag is never cleared.
Cancel ==
  /\ ~cancelled
  /\ cancelled' = TRUE
  /\ UNCHANGED <<args, q, stop, marked, workerVars, consumerVars>>

\* mark_interrupt_unwinding: an operation with the process-fatal posture, this
\* one or another, began to unwind on a KeyboardInterrupt.
MarkInterruptUnwinding ==
  /\ ~marked
  /\ marked' = TRUE
  /\ UNCHANGED <<args, q, stop, cancelled, workerVars, consumerVars>>

\* Nothing left to do once the context is left and the worker has ended.
Finished ==
  /\ cpc = "out" /\ wpc = "done"
  /\ UNCHANGED vars

Next ==
  \/ Worker
  \/ Ask \/ Get \/ Exit \/ Interrupt \/ Drain \/ Join \/ InterruptTeardown
  \/ Cancel \/ MarkInterruptUnwinding
  \/ Finished

\* The threads run, and a page pull eventually returns (botocore's timeouts for
\* S3; asked of every other source).  The application owes nothing: it may stop
\* asking, never leave, never cancel.
Fairness == WF_vars(Worker) /\ WF_vars(Get) /\ WF_vars(Drain) /\ WF_vars(Join)

SafeSpec == Init /\ [][Next]_vars
Spec == SafeSpec /\ Fairness

-----------------------------------------------------------------------------
(* Properties.                                                             *)

\* Types, and the memory bound of the docstring: never more than queue_size
\* entries queued.
TypeOK ==
  /\ queueSize \in QueueSizes /\ reusable \in BOOLEAN
  /\ q \in Seq(0 .. NumPages) /\ Len(q) <= queueSize
  /\ stop \in BOOLEAN /\ cancelled \in BOOLEAN /\ marked \in BOOLEAN
  /\ wpc \in WorkerPCs /\ pulled \in 0 .. NumPages /\ error \in BOOLEAN /\ late \in Nat
  /\ cpc \in ConsumerPCs /\ got \in 0 .. NumPages
  /\ interrupted \in BOOLEAN /\ interrupts \in 0 .. MaxInterrupts /\ escaped \in BOOLEAN

\* The abstract stream's state, read off this one.
StreamFault == IF error THEN pulled + 1 ELSE 0
StreamStatus ==
  IF cpc \in {"app", "get"} THEN "open"
  ELSE IF cpc = "ended" THEN "ended"
  ELSE IF cpc = "raised" THEN "failed"
  ELSE "closed"

\* What the consumer sees is the stream PageStream promises: in order, whole
\* unless cancelled, the source's failure after everything that preceded it.
Stream == INSTANCE PageStream WITH
  delivered <- got,
  fault <- StreamFault,
  status <- StreamStatus
StreamSpec == Stream!Spec

\* After the stop event or the cancel is up, the worker brings at most one page
\* further: the one it was pulling (then it is discarded) or the one it held
\* (then it pulls no more).
AtMostOneLatePage == late <= 1

\* A context that was left without a KeyboardInterrupt breaking the teardown,
\* and not under the process-fatal posture, leaves no worker behind.
NoSurvivingWorker ==
  (cpc = "out" /\ ~escaped /\ (reusable \/ ~(interrupted \/ marked))) => wpc = "done"

\* The docstring's promise that the process-fatal posture is the single opt-out
\* from "no worker survives the operation".  A KeyboardInterrupt that lands in
\* the join itself breaks it under the reusable posture.
NoWorkerWhenReusable == cpc = "out" /\ reusable => wpc = "done"

\* A consumer blocked in its pull is always answered: with a page, the end or
\* the error, whatever the queue held when the worker finished or was cancelled.
PullAnswered == cpc = "get" ~> cpc # "get"

\* Leaving the context ends: the join never waits for a worker that is itself
\* blocked on the full queue.
ExitCompletes == cpc = "drain" ~> cpc = "out"
=============================================================================
