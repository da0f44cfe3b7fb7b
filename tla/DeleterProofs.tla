--------------------------- MODULE DeleterProofs ----------------------------
(***************************************************************************)
(* The safety of Deleter for every number of entries, every assignment of  *)
(* keys to them, every batch size and depth of the pool, every posture of  *)
(* the client and any bound on its faults.                                 *)
(*                                                                         *)
(* Three things are strengthened.  The batches are successive intervals    *)
(* that one worker runs in order, so that the records still to come are of *)
(* later entries than those there are (BatchesOK, QueueOK, RecordsOK).     *)
(* While a batch runs, a key that counts as deleted was named by an answer *)
(* or is still to be sent (Evidence).  And a batch that is not over, or    *)
(* failed, is in the caller's hands until its error was told (Errors),     *)
(* while what the worker passed is recorded or lost for a reason           *)
(* (Recorded, Reasons).                                                    *)
(***************************************************************************)
EXTENDS Deleter, FiniteSetTheorems, SequenceTheorems, TLAPS

\* Where the caller is tells which batch it holds, and what its close found.
CallerOK ==
  /\ cpc = "idle" <=> call = "none"
  /\ cpc \in {"lastWait", "shutdown", "closed"} => call = "close"
  /\ cpc \in {"wait", "lastWait"} <=> awaited # 0
  /\ cpc \in {"wait", "lastWait", "dispatch", "slice", "shutdown", "closed"} => pending = 0
  /\ cpc \in {"wait", "dispatch", "slice"} => dispatched < submitted
  /\ call # "close" => closeCall.flush /\ ~abandoned
  /\ escaped => cpc = "closed" /\ interrupts > 0
  /\ cpc = "closed" /\ ~escaped => \A b \in Batches : fut[b] \in Ended

\* The batches are the successive intervals of what was dispatched.
BatchesOK ==
  /\ dispatched = IF Len(ends) = 0 THEN 0 ELSE ends[Len(ends)]
  /\ \A b, c \in Batches : b < c => ends[b] < ends[c]
  /\ \A e \in 1 .. dispatched : \E b \in Batches : e \in Batch(b)

\* One worker runs the batches in order: nothing after a batch that is not over has
\* started.
QueueOK ==
  /\ wpc = "idle" <=> \A b \in Batches : fut[b] # "running"
  /\ \A b, c \in Batches : b < c /\ fut[b] \in {"queued", "running"} =>
     fut[c] \in {"queued", "cancelled"}
  /\ \A b \in Batches : fut[b] = "cancelled" => token = "immediate"

\* The worker and its pool stay within the running batch.
WorkerOK ==
  /\ wpc \in {"idle", "request", "record"} => todo = {} /\ inflight = {} /\ ~boom
  /\ \A b \in Batches : fut[b] = "running" =>
       /\ next \in First(b) .. ends[b] + 1
       /\ wpc # "record" => next = First(b)
       /\ todo \subseteq Batch(b) /\ inflight \subseteq Batch(b)

\* A key that no answer told of is still to be sent, or the batch is about to raise.
Told(e) == e \in todo \cup inflight \/ boom \/ (result[e] = "ok" => keyOf[e] \in gone)

\* And so of every entry of the running batch, once its answer is in.
Evidence ==
  \A b \in Batches : fut[b] = "running" =>
    \A e \in Batch(b) :
      wpc \in {"singles", "record"} \/ (wpc = "resend" /\ keyOf[e] \in Batchable) => Told(e)

\* The records stay ahead of nothing: those to come are of later entries.
RecordsOK ==
  \A i \in DOMAIN records :
    /\ records[i].entry <= dispatched
    /\ \A b \in Batches : fut[b] = "queued" => records[i].entry < First(b)
    /\ \A b \in Batches : fut[b] = "running" => records[i].entry < next

\* What the worker passed is recorded, or lost for a reason.
Settled(e) == result[e] \in Lost \/ \E i \in DOMAIN records : records[i].entry = e

\* The entries of a batch that is done, or that the worker is past in the running one.
Recorded ==
  \A b \in Batches : \A e \in Batch(b) :
    fut[b] = "done" \/ (fut[b] = "running" /\ e < next) => Settled(e)

\* An entry is lost, or not dispatched, only for a reason that stays visible.
Reasons ==
  /\ abandoned => interrupts > 0 \/ surfaced # << >>
                  \/ (~closeCall.flush /\ closeCall.token # "graceful")
  /\ \A e \in Entries : result[e] = "skipped" => CutShort
  /\ \A e \in Entries : result[e] = "dropped" => ~posture.crt
  /\ cpc \in {"lastWait", "shutdown", "closed"} /\ dispatched < submitted => Cancelled \/ CutShort

\* A batch that is not over, or failed, is in the caller's hands until it is told.
SurfacedBatch(b) == \E i \in DOMAIN surfaced : surfaced[i] = b

Errors ==
  /\ \A i \in DOMAIN surfaced : /\ surfaced[i] \in Batches /\ fut[surfaced[i]] = "raised"
                                /\ surfaced[i] \notin {pending, awaited}
  /\ \A i, j \in DOMAIN surfaced : surfaced[i] = surfaced[j] => i = j
  /\ interrupts = 0 => \A b \in Batches : fut[b] \in {"queued", "running"} \cup Failed
                          => b \in {pending, awaited} \/ SurfacedBatch(b)

\* What the invariant says of the worker and of its records.
WorkerPart ==
  /\ WorkerOK /\ Evidence /\ RecordsOK /\ RecordsInOrder /\ NoFalseSuccess /\ Recorded

\* The inductive invariant.
IInv == TypeOK /\ CallerOK /\ BatchesOK /\ QueueOK /\ WorkerPart /\ Reasons /\ Errors

-----------------------------------------------------------------------------
USE DeleterAssumption DEF DeleterAssumption
USE DEF Entries, Failed, Ended, Lost, Cancelled, Buffered, callerVars, workerVars, history, fixed

\* No step.
Stutter == UNCHANGED vars

\* A record is of an entry, and tells one of two outcomes.
LEMMA RecordTyped ==
  ASSUME IInv
  PROVE  \A i \in DOMAIN records : /\ records[i].entry \in Entries
                                  /\ records[i].outcome \in {"succeeded", "failed"}
<1> DEFINE R == [entry : Entries, outcome : {"succeeded", "failed"}]
<1>1. records \in Seq(R)
  BY DEF IInv, TypeOK
<1>2. \A r \in R : r.entry \in Entries /\ r.outcome \in {"succeeded", "failed"}
  OBVIOUS
<1> HIDE DEF R
<1>3. \A i \in DOMAIN records : records[i] \in R
  BY <1>1
<1> QED BY <1>2, <1>3

\* The batch the worker runs is the only one that is running.
LEMMA RunningIs ==
  ASSUME IInv, wpc # "idle"
  PROVE  /\ Running \in Batches /\ fut[Running] = "running"
         /\ \A b \in Batches : fut[b] = "running" => b = Running
<1>1. \E b \in Batches : fut[b] = "running"
  BY DEF IInv, QueueOK
<1>2. Running \in Batches /\ fut[Running] = "running"
  BY <1>1 DEF Running
<1>3. \A b \in Batches : b \in Nat
  BY DEF Batches
<1> QED BY <1>2, <1>3 DEF IInv, QueueOK

\* Batches do not overlap, and lie within the entries.
LEMMA Disjoint ==
  ASSUME IInv
  PROVE  /\ \A b \in Batches : /\ ends[b] \in Entries /\ First(b) \in Entries
                                  /\ First(b) <= ends[b]
                               /\ ends[b] <= dispatched /\ Batch(b) \subseteq Entries /\ b \in Nat
         /\ \A b, c \in Batches : b < c => ends[b] < First(c)
         /\ \A b, c \in Batches : \A e \in Batch(b) : e \in Batch(c) => b = c
<1>1. ends \in Seq(Entries) /\ dispatched \in Nat /\ Len(ends) \in Nat /\ BatchesOK
  BY DEF IInv, TypeOK
<1>2. \A b \in 1 .. Len(ends) : ends[b] \in Entries
  BY <1>1
<1>3. \A b \in Batches : b \in Nat /\ b \in 1 .. Len(ends)
  BY <1>1 DEF Batches
<1>4. \A b, c \in Batches : b < c => ends[b] < First(c)
  <2> SUFFICES ASSUME NEW b \in Batches, NEW c \in Batches, b < c PROVE ends[b] < First(c)
    OBVIOUS
  <2>1. c - 1 \in Batches /\ First(c) = ends[c - 1] + 1 /\ (b = c - 1 \/ b < c - 1)
    BY <1>1, <1>3 DEF Batches, First
  <2>2. b < c - 1 => ends[b] < ends[c - 1]
    BY <1>1, <2>1 DEF BatchesOK
  <2> QED BY <1>2, <1>3, <2>1, <2>2
<1>5. \A b \in Batches : First(b) \in Entries /\ First(b) <= ends[b]
  <2> SUFFICES ASSUME NEW b \in Batches PROVE First(b) \in Entries /\ First(b) <= ends[b]
    OBVIOUS
  <2>1. CASE b = 1
    BY <1>2, <1>3, <2>1 DEF First
  <2>2. CASE b # 1
    <3>1. b - 1 \in Batches /\ b - 1 < b /\ First(b) = ends[b - 1] + 1
      BY <1>1, <1>3, <2>2 DEF Batches, First
    <3>2. ends[b - 1] < ends[b] /\ ends[b] \in Entries /\ ends[b - 1] \in Entries
      BY <1>1, <1>2, <1>3, <3>1 DEF BatchesOK
    <3> QED BY <3>1, <3>2
  <2> QED BY <2>1, <2>2
<1>6. \A b \in Batches : ends[b] <= dispatched
  <2> SUFFICES ASSUME NEW b \in Batches PROVE ends[b] <= dispatched
    OBVIOUS
  <2>1. Len(ends) \in Batches /\ dispatched = ends[Len(ends)] /\ (b = Len(ends) \/ b < Len(ends))
    BY <1>1, <1>3 DEF Batches, BatchesOK
  <2> QED BY <1>1, <1>2, <1>3, <2>1 DEF BatchesOK
<1>7. \A b \in Batches : Batch(b) \subseteq Entries
  BY <1>2, <1>3, <1>5 DEF Batch
<1>8. \A b, c \in Batches : \A e \in Batch(b) : e \in Batch(c) => b = c
  <2> SUFFICES ASSUME NEW b \in Batches, NEW c \in Batches, NEW e \in Batch(b), e \in Batch(c),
          b < c
               PROVE  FALSE
    BY <1>3
  <2>1. e <= ends[b] /\ e >= First(c) /\ ends[b] < First(c)
    BY <1>4 DEF Batch
  <2> QED BY <1>2, <1>3, <1>5, <1>7, <2>1
<1> QED BY <1>2, <1>3, <1>4, <1>5, <1>6, <1>7, <1>8

\* The batches are what they were as long as none is dispatched.
LEMMA SameBatches ==
  ASSUME ends' = ends
  PROVE  /\ Batches' = Batches
         /\ \A b \in Batches : Batch(b)' = Batch(b) /\ First(b)' = First(b)
BY DEF Batches, Batch, First

\* What the caller does with its own state does not concern the worker.
LEMMA WorkerFrame ==
  ASSUME IInv, UNCHANGED <<ends, fut, workerVars, dispatched, gone, records, keyOf>>
  PROVE  BatchesOK' /\ WorkerPart'
<1>1. BatchesOK'
  BY SameBatches DEF IInv, BatchesOK
<1>2. WorkerOK' /\ Evidence'
  BY SameBatches DEF IInv, WorkerPart, WorkerOK, Evidence, Told
<1>3. RecordsOK' /\ RecordsInOrder' /\ NoFalseSuccess'
  BY SameBatches DEF IInv, WorkerPart, RecordsOK, RecordsInOrder, NoFalseSuccess
<1>4. Recorded'
  BY SameBatches DEF IInv, WorkerPart, Recorded, Settled
<1> QED BY <1>1, <1>2, <1>3, <1>4 DEF WorkerPart

\* submit appends to the buffer, and goes on to flush it when it is full.
LEMMA SubmitKeeps == ASSUME IInv, Submit PROVE IInv'
<1>0. /\ UNCHANGED <<ends, fut, workerVars, dispatched, gone, records, keyOf>>
      /\ Batches' = Batches
  BY SameBatches DEF Submit
<1>1. BatchesOK' /\ WorkerPart'
  BY <1>0, WorkerFrame
<1>2. TypeOK'
  BY <1>0 DEF IInv, TypeOK, Submit
<1>3. CallerOK'
  BY <1>0 DEF IInv, TypeOK, CallerOK, Submit
<1>4. QueueOK'
  BY <1>0 DEF IInv, TypeOK, QueueOK, Submit
<1>5. Reasons'
  BY DEF IInv, TypeOK, Reasons, CutShort, Submit
<1>6. Errors'
  BY <1>0 DEF IInv, TypeOK, Errors, SurfacedBatch, Submit
<1> QED BY <1>1, <1>2, <1>3, <1>4, <1>5, <1>6 DEF IInv

\* flush sets out to dispatch what is buffered.
LEMMA FlushKeeps == ASSUME IInv, Flush PROVE IInv'
<1>0. /\ UNCHANGED <<ends, fut, workerVars, dispatched, gone, records, keyOf>>
      /\ Batches' = Batches
  BY SameBatches DEF Flush
<1>1. BatchesOK' /\ WorkerPart'
  BY <1>0, WorkerFrame
<1>2. TypeOK'
  BY <1>0 DEF IInv, TypeOK, Flush
<1>3. CallerOK'
  BY <1>0 DEF IInv, TypeOK, CallerOK, Flush
<1>4. QueueOK'
  BY <1>0 DEF IInv, TypeOK, QueueOK, Flush
<1>5. Reasons'
  BY DEF IInv, TypeOK, Reasons, CutShort, Flush
<1>6. Errors'
  BY <1>0 DEF IInv, TypeOK, Errors, SurfacedBatch, Flush
<1> QED BY <1>1, <1>2, <1>3, <1>4, <1>5, <1>6 DEF IInv

\* close sets out to dispatch the rest, or abandons it.
LEMMA CloseKeeps == ASSUME NEW flush \in BOOLEAN, IInv, Close(flush) PROVE IInv'
<1>0. /\ UNCHANGED <<ends, fut, workerVars, dispatched, gone, records, keyOf>>
      /\ Batches' = Batches
  BY SameBatches DEF Close, TakePending
<1>1. BatchesOK' /\ WorkerPart'
  BY <1>0, WorkerFrame
<1>2. TypeOK'
  BY <1>0 DEF IInv, TypeOK, Close, TakePending
<1>3. CallerOK'
  BY <1>0 DEF IInv, TypeOK, CallerOK, Close, TakePending
<1>4. QueueOK'
  BY <1>0 DEF IInv, TypeOK, QueueOK, Close, TakePending
<1>5. Reasons'
  BY DEF IInv, TypeOK, CallerOK, Reasons, CutShort, Close, TakePending, Abandons
<1>6. Errors'
  BY <1>0 DEF IInv, TypeOK, CallerOK, Errors, SurfacedBatch, Close, TakePending
<1> QED BY <1>1, <1>2, <1>3, <1>4, <1>5, <1>6 DEF IInv

\* The flush goes on: it waits for the batch in flight, dispatches, or is done.
LEMMA FlushLoopKeeps == ASSUME IInv, FlushLoop PROVE IInv'
<1>0. /\ UNCHANGED <<ends, fut, workerVars, dispatched, gone, records, keyOf>>
      /\ Batches' = Batches
  BY SameBatches DEF FlushLoop, FlushReturns, TakePending
<1>1. BatchesOK' /\ WorkerPart'
  BY <1>0, WorkerFrame
<1>2. TypeOK'
  BY <1>0 DEF IInv, TypeOK, FlushLoop, FlushReturns, TakePending
<1>3. CallerOK'
  BY <1>0 DEF IInv, TypeOK, CallerOK, FlushLoop, FlushReturns, TakePending
<1>4. QueueOK'
  BY <1>0 DEF IInv, TypeOK, QueueOK, FlushLoop, FlushReturns, TakePending
<1>5. Reasons'
  <2>1. UNCHANGED <<abandoned, interrupts, surfaced, closeCall, token, result, posture,
                    dispatched, submitted>>
    BY DEF FlushLoop, FlushReturns, TakePending
  <2>2. cpc' \in {"lastWait", "shutdown", "closed"}
          => submitted - dispatched = 0 \/ token # "none"
    BY DEF FlushLoop, TakePending
  <2>3. dispatched < submitted => submitted - dispatched # 0
    BY DEF IInv, TypeOK
  <2> QED BY <2>1, <2>2, <2>3 DEF IInv, Reasons, CutShort
<1>6. Errors'
  BY <1>0 DEF IInv, TypeOK, CallerOK, Errors, SurfacedBatch, FlushLoop, FlushReturns,
         TakePending
<1> QED BY <1>1, <1>2, <1>3, <1>4, <1>5, <1>6 DEF IInv

\* The wait returns: what the worker raised surfaces here, once.
LEMMA WaitReturnsKeeps == ASSUME IInv, WaitReturns PROVE IInv'
<1>0. /\ UNCHANGED <<ends, fut, workerVars, dispatched, gone, records, keyOf>>
      /\ Batches' = Batches
  BY SameBatches DEF WaitReturns, Throw
<1>1. BatchesOK' /\ WorkerPart'
  BY <1>0, WorkerFrame
<1>2. TypeOK'
  <2>1. /\ cpc' \in {"idle", "dispatch", "shutdown"} /\ call' \in {"none", call}
        /\ awaited' = 0 /\ abandoned' \in BOOLEAN
    BY DEF IInv, TypeOK, WaitReturns, Throw
  <2>2. surfaced' \in Seq(Nat)
    <3>1. awaited \in Nat /\ surfaced \in Seq(Nat)
      BY DEF IInv, TypeOK
    <3>2. surfaced' \in {surfaced, Append(surfaced, awaited)}
      BY DEF WaitReturns
    <3> QED BY <3>1, <3>2, AppendProperties
  <2>3. UNCHANGED <<token, submitted, pending, interrupts, closeCall, escaped, posture>>
    BY DEF WaitReturns
  <2> QED BY <1>0, <2>1, <2>2, <2>3 DEF IInv, TypeOK
<1>3. CallerOK'
  BY <1>0 DEF IInv, TypeOK, CallerOK, WaitReturns, Throw
<1>4. QueueOK'
  BY <1>0 DEF IInv, TypeOK, QueueOK, WaitReturns, Throw
<1>5. Reasons'
  <2>1. UNCHANGED <<interrupts, closeCall, token, result, posture, dispatched, submitted>>
    BY DEF WaitReturns, Throw
  <2>2. \/ /\ UNCHANGED <<abandoned, surfaced>>
           /\ cpc' = "dispatch" \/ cpc = "lastWait"
        \/ surfaced' = Append(surfaced, awaited)
    BY DEF WaitReturns, Throw
  <2>3. Append(surfaced, awaited) # << >>
    <3>1. awaited \in Nat /\ surfaced \in Seq(Nat)
      BY DEF IInv, TypeOK
    <3> QED BY <3>1, AppendProperties
  <2> QED BY <2>1, <2>2, <2>3 DEF IInv, Reasons, CutShort
<1>6. Errors'
  <2>0. /\ surfaced \in Seq(Nat) /\ awaited \in Batches /\ awaited \in Nat /\ awaited # 0
        /\ pending = 0 /\ awaited' = 0 /\ pending' = 0
           /\ fut[awaited] \in {"done", "raised", "cancelled"}
        /\ interrupts' = interrupts /\ \A b \in Batches : b # 0
    BY DEF IInv, TypeOK, CallerOK, Batches, WaitReturns, Throw, Resolved
  <2>1. Errors
    BY DEF IInv
  <2>2. CASE fut[awaited] # "raised"
    <3>1. surfaced' = surfaced
      BY <2>2 DEF WaitReturns
    <3>2. \A b \in Batches : fut[b] \in {"queued", "running"} \cup Failed
            /\ b \in {pending, awaited} => b \in {pending', awaited'}
      BY <2>0, <2>2
    <3> QED BY <1>0, <2>0, <2>1, <2>2, <3>1, <3>2 DEF Errors, SurfacedBatch
  <2>3. CASE fut[awaited] = "raised"
    <3>1. surfaced' = Append(surfaced, awaited)
      BY <2>3 DEF WaitReturns
    <3>2. /\ Len(surfaced') = Len(surfaced) + 1 /\ Len(surfaced) \in Nat
          /\ \A i \in 1 .. Len(surfaced) : surfaced'[i] = surfaced[i]
          /\ surfaced'[Len(surfaced) + 1] = awaited
          /\ DOMAIN surfaced' = 1 .. Len(surfaced) + 1 /\ DOMAIN surfaced = 1 .. Len(surfaced)
      BY <2>0, <3>1, AppendProperties
    <3>3. \A i \in DOMAIN surfaced' : i \in DOMAIN surfaced \/ i = Len(surfaced) + 1
      BY <3>2
    <3>4. \A i \in DOMAIN surfaced : surfaced[i] \in Batches /\ surfaced[i] # awaited
      BY <2>1 DEF Errors
    <3>5. \A i \in DOMAIN surfaced' : /\ surfaced'[i] \in Batches /\ fut[surfaced'[i]] = "raised"
                                      /\ surfaced'[i] # 0
      BY <2>0, <2>1, <2>3, <3>2, <3>3, <3>4 DEF Errors
    <3>6. \A i, j \in DOMAIN surfaced' : surfaced'[i] = surfaced'[j] => i = j
      BY <2>1, <3>2, <3>3, <3>4 DEF Errors
    <3>7. \A b \in Batches : SurfacedBatch(b) \/ b = awaited => SurfacedBatch(b)'
      BY <3>2 DEF SurfacedBatch
    <3> QED BY <1>0, <2>0, <2>1, <3>5, <3>6, <3>7 DEF Errors
  <2> QED BY <2>2, <2>3
<1> QED BY <1>1, <1>2, <1>3, <1>4, <1>5, <1>6 DEF IInv

\* The shutdown of the executor has waited for everything that was dispatched.
LEMMA ShutdownKeeps == ASSUME IInv, Shutdown PROVE IInv'
<1>0. /\ UNCHANGED <<ends, fut, workerVars, dispatched, gone, records, keyOf>>
      /\ Batches' = Batches
  BY SameBatches DEF Shutdown
<1>1. BatchesOK' /\ WorkerPart'
  BY <1>0, WorkerFrame
<1>2. TypeOK'
  BY <1>0 DEF IInv, TypeOK, Shutdown
<1>3. CallerOK'
  BY <1>0 DEF IInv, TypeOK, CallerOK, Shutdown
<1>4. QueueOK'
  BY <1>0 DEF IInv, TypeOK, QueueOK, Shutdown
<1>5. Reasons'
  BY DEF IInv, TypeOK, Reasons, CutShort, Shutdown
<1>6. Errors'
  BY <1>0 DEF IInv, TypeOK, Errors, SurfacedBatch, Shutdown
<1> QED BY <1>1, <1>2, <1>3, <1>4, <1>5, <1>6 DEF IInv

\* A Ctrl-C in the wait leaves the batch with the worker.
LEMMA InterruptWaitKeeps == ASSUME IInv, InterruptWait PROVE IInv'
<1>0. /\ UNCHANGED <<ends, fut, workerVars, dispatched, gone, records, keyOf>>
      /\ Batches' = Batches
  BY SameBatches DEF InterruptWait, Throw
<1>1. BatchesOK' /\ WorkerPart'
  BY <1>0, WorkerFrame
<1>2. TypeOK'
  <2>1. /\ cpc' \in {"idle", "shutdown"} /\ call' \in {"none", call}
        /\ awaited' = 0 /\ abandoned' \in BOOLEAN
    BY DEF IInv, TypeOK, InterruptWait, Throw
  <2>2. interrupts' \in 0 .. MaxFaults
    BY DEF IInv, TypeOK, InterruptWait
  <2>3. UNCHANGED <<token, submitted, pending, surfaced, closeCall, escaped, posture>>
    BY DEF InterruptWait
  <2> QED BY <1>0, <2>1, <2>2, <2>3 DEF IInv, TypeOK
<1>3. CallerOK'
  BY <1>0 DEF IInv, TypeOK, CallerOK, InterruptWait, Throw
<1>4. QueueOK'
  BY <1>0 DEF IInv, TypeOK, QueueOK, InterruptWait, Throw
<1>5. Reasons'
  BY DEF IInv, TypeOK, Reasons, CutShort, InterruptWait, Throw
<1>6. Errors'
  BY <1>0 DEF IInv, TypeOK, CallerOK, Errors, InterruptWait, Throw
<1> QED BY <1>1, <1>2, <1>3, <1>4, <1>5, <1>6 DEF IInv

\* A Ctrl-C in the shutdown leaves the worker behind.
LEMMA InterruptShutdownKeeps == ASSUME IInv, InterruptShutdown PROVE IInv'
<1>0. /\ UNCHANGED <<ends, fut, workerVars, dispatched, gone, records, keyOf>>
      /\ Batches' = Batches
  BY SameBatches DEF InterruptShutdown
<1>1. BatchesOK' /\ WorkerPart'
  BY <1>0, WorkerFrame
<1>2. TypeOK'
  BY <1>0 DEF IInv, TypeOK, InterruptShutdown
<1>3. CallerOK'
  BY <1>0 DEF IInv, TypeOK, CallerOK, InterruptShutdown
<1>4. QueueOK'
  BY <1>0 DEF IInv, TypeOK, QueueOK, InterruptShutdown
<1>5. Reasons'
  BY DEF IInv, TypeOK, Reasons, CutShort, InterruptShutdown
<1>6. Errors'
  BY <1>0 DEF IInv, TypeOK, Errors, InterruptShutdown
<1> QED BY <1>1, <1>2, <1>3, <1>4, <1>5, <1>6 DEF IInv

\* The token escalates.
LEMMA CancelKeeps == ASSUME NEW mode \in {"graceful", "immediate"}, IInv, Cancel(mode) PROVE IInv'
<1>0. /\ UNCHANGED <<ends, fut, workerVars, dispatched, gone, records, keyOf>>
      /\ Batches' = Batches
  BY SameBatches DEF Cancel
<1>1. BatchesOK' /\ WorkerPart'
  BY <1>0, WorkerFrame
<1>2. TypeOK'
  BY <1>0 DEF IInv, TypeOK, Cancel
<1>3. CallerOK'
  BY <1>0 DEF IInv, TypeOK, CallerOK, Cancel
<1>4. QueueOK'
  BY <1>0 DEF IInv, TypeOK, QueueOK, Cancel
<1>5. Reasons'
  BY DEF IInv, TypeOK, Reasons, CutShort, Cancel
<1>6. Errors'
  BY <1>0 DEF IInv, TypeOK, Errors, SurfacedBatch, Cancel
<1> QED BY <1>1, <1>2, <1>3, <1>4, <1>5, <1>6 DEF IInv

\* A step that changes nothing keeps the invariant.
LEMMA StutterKeeps == ASSUME IInv, Stutter PROVE IInv'
<1>0. /\ UNCHANGED <<ends, fut, workerVars, dispatched, gone, records, keyOf>>
      /\ Batches' = Batches
  BY SameBatches DEF Stutter, vars
<1>1. BatchesOK' /\ WorkerPart'
  BY <1>0, WorkerFrame
<1>2. TypeOK'
  BY <1>0 DEF IInv, TypeOK, Stutter, vars
<1>3. CallerOK'
  BY <1>0 DEF IInv, TypeOK, CallerOK, Stutter, vars
<1>4. QueueOK'
  BY <1>0 DEF IInv, TypeOK, QueueOK, Stutter, vars
<1>5. Reasons'
  BY DEF IInv, TypeOK, Reasons, CutShort, Stutter, vars
<1>6. Errors'
  BY <1>0 DEF IInv, TypeOK, Errors, SurfacedBatch, Stutter, vars
<1> QED BY <1>1, <1>2, <1>3, <1>4, <1>5, <1>6 DEF IInv

\* A future that was cancelled in the queue leaves the rest of the queue in order.
LEMMA CancelQueuedKeeps == ASSUME IInv, CancelQueued PROVE IInv'
<1>0. /\ token = "immediate" /\ awaited \in Batches /\ fut[awaited] = "queued"
      /\ Len(fut') = Len(fut) /\ fut' \in Seq({"queued", "running"} \cup Ended)
      /\ fut'[awaited] = "cancelled" /\ \A b \in Batches : b # awaited => fut'[b] = fut[b]
      /\ UNCHANGED <<fixed, token, callerVars, ends, workerVars, gone, records, history>>
      /\ Batches' = Batches
  BY SameBatches DEF IInv, TypeOK, CallerOK, Batches, CancelQueued
<1>1. TypeOK'
  BY <1>0 DEF IInv, TypeOK
<1>2. CallerOK' /\ BatchesOK'
  BY <1>0, SameBatches DEF IInv, CallerOK, BatchesOK
<1>3. QueueOK'
  BY <1>0 DEF IInv, QueueOK
<1>4. WorkerOK' /\ Evidence'
  BY <1>0, SameBatches DEF IInv, WorkerPart, WorkerOK, Evidence, Told
<1>5. RecordsOK' /\ RecordsInOrder' /\ NoFalseSuccess'
  BY <1>0, SameBatches DEF IInv, WorkerPart, RecordsOK, RecordsInOrder, NoFalseSuccess
<1>6. Recorded'
  BY <1>0, SameBatches DEF IInv, WorkerPart, Recorded, Settled
<1>7. Reasons'
  BY <1>0 DEF IInv, Reasons, CutShort
<1>8. Errors'
  BY <1>0 DEF IInv, Errors, SurfacedBatch
<1> QED BY <1>1, <1>2, <1>3, <1>4, <1>5, <1>6, <1>7, <1>8 DEF IInv, WorkerPart

-----------------------------------------------------------------------------
(* The worker.                                                             *)

\* What the worker does concerns the caller only through the futures: the state of the
\* caller stays right if no future goes back and none is cancelled.
LEMMA CallerFrame ==
  ASSUME IInv, UNCHANGED <<fixed, token, callerVars, ends, history>>,
         \A b \in Batches : fut[b] \in Ended => fut'[b] = fut[b],
         \A b \in Batches : fut'[b] = "cancelled" => fut[b] = "cancelled"
  PROVE  CallerOK' /\ BatchesOK' /\ Errors'
<1>1. CallerOK'
  BY SameBatches DEF IInv, CallerOK
<1>2. BatchesOK'
  BY SameBatches DEF IInv, BatchesOK
<1>3. Errors'
  <2>1. \A i \in DOMAIN surfaced : surfaced[i] \in Batches /\ fut'[surfaced[i]] = "raised"
    BY DEF IInv, Errors
  <2>2. \A b \in Batches : fut'[b] \in {"queued", "running"} \cup Failed
                             => fut[b] \in {"queued", "running"} \cup Failed
    <3>1. fut \in Seq({"queued", "running"} \cup Ended) /\ Len(fut) = Len(ends)
      BY DEF IInv, TypeOK
    <3>2. \A b \in Batches : fut[b] \in {"queued", "running"} \cup Ended
      BY <3>1 DEF Batches
    <3> QED BY <3>2
  <2> QED BY <2>1, <2>2, SameBatches DEF IInv, Errors, SurfacedBatch
<1> QED BY <1>1, <1>2, <1>3

\* The end of the running batch: the worker is idle, the queue goes on behind it.
LEMMA BatchOver ==
  ASSUME IInv, wpc # "idle", NEW d \in {"done"} \cup Failed,
         fut' = [fut EXCEPT ![Running] = d], wpc' = "idle",
         UNCHANGED <<fixed, token, callerVars, ends, history>>
  PROVE  /\ Len(fut') = Len(fut) /\ fut' \in Seq({"queued", "running"} \cup Ended)
         /\ Running \in Batches /\ fut'[Running] = d
         /\ \A b \in Batches : b # Running => fut'[b] = fut[b]
         /\ \A b \in Batches : fut'[b] # "running"
         /\ CallerOK' /\ BatchesOK' /\ Errors' /\ QueueOK'
<1>1. /\ Len(fut') = Len(fut) /\ fut' \in Seq({"queued", "running"} \cup Ended)
      /\ Running \in Batches /\ fut[Running] = "running" /\ fut'[Running] = d
      /\ \A b \in Batches : b # Running => fut'[b] = fut[b]
  BY RunningIs DEF IInv, TypeOK, Batches
<1>2. \A b \in Batches : fut'[b] # "running"
  BY <1>1, RunningIs
<1>3. CallerOK' /\ BatchesOK' /\ Errors'
  BY <1>1, CallerFrame
<1>4. QueueOK'
  BY <1>1, <1>2, SameBatches DEF IInv, QueueOK
<1> QED BY <1>1, <1>2, <1>3, <1>4

\* Taking the oldest queued batch: it runs, and what follows it has not started.
LEMMA TakeKeeps == ASSUME IInv, Take PROVE IInv'
<1>0. PICK b \in Batches :
        /\ fut[b] = "queued" /\ \A c \in Batches : c < b => fut[c] # "queued"
        /\ fut' = [fut EXCEPT ![b] = "running"] /\ next' = First(b)
        /\ \/ wpc' = "request" /\ todo' = todo
           \/ wpc' = "singles" /\ todo' = SinglesOf(b) /\ BatchableOf(b) = {}
  <2>1. \A b, c \in Batches : c < b => c \in 1 .. b - 1
    BY DEF Batches
  <2> QED BY <2>1 DEF Take
<1>1. /\ wpc = "idle" /\ wpc' # "idle"
      /\ UNCHANGED <<fixed, token, callerVars, ends, inflight, result, boom, raises,
                     gone, records, history>>
  BY <1>0 DEF Take
<1>2. /\ Len(fut') = Len(fut) /\ fut' \in Seq({"queued", "running"} \cup Ended)
      /\ fut'[b] = "running" /\ \A c \in Batches : c # b => fut'[c] = fut[c]
      /\ \A c \in Batches : fut[c] # "running" /\ c \in Nat
  BY <1>0, <1>1 DEF IInv, TypeOK, QueueOK, Batches
<1>3. /\ First(b) \in Entries /\ First(b) <= ends[b] /\ ends[b] \in Entries
         /\ Batch(b) \subseteq Entries
  BY Disjoint
<1>4. todo' \subseteq Batch(b)
  BY <1>0, <1>1 DEF IInv, WorkerPart, WorkerOK, SinglesOf
<1>5. TypeOK'
  BY <1>0, <1>1, <1>2, <1>3, <1>4 DEF IInv, TypeOK
<1>6. CallerOK' /\ BatchesOK' /\ Errors'
  BY <1>0, <1>1, <1>2, CallerFrame
<1>7. QueueOK'
  BY <1>0, <1>1, <1>2, SameBatches DEF IInv, QueueOK
<1>8. WorkerOK'
  <2>1. todo = {} /\ inflight = {} /\ ~boom
    BY <1>1 DEF IInv, WorkerPart, WorkerOK
  <2> QED BY <1>0, <1>1, <1>2, <1>3, <1>4, <2>1, SameBatches DEF WorkerOK
<1>9. Evidence'
  <2>1. wpc' = "singles" => \A e \in Batch(b) : e \in todo'
    BY <1>0 DEF SinglesOf
  <2> QED BY <1>0, <1>1, <1>2, <2>1, SameBatches DEF Evidence, Told
<1>10. RecordsOK' /\ RecordsInOrder' /\ NoFalseSuccess'
  BY <1>0, <1>1, <1>2, SameBatches DEF IInv, WorkerPart, RecordsOK, RecordsInOrder,
         NoFalseSuccess
<1>11. Recorded'
  <2>1. \A e \in Batch(b) : ~(e < next')
    BY <1>0, <1>3 DEF Batch
  <2> QED BY <1>1, <1>2, <2>1, SameBatches DEF IInv, WorkerPart, Recorded, Settled
<1>12. Reasons'
  BY <1>1 DEF IInv, Reasons, CutShort
<1> QED BY <1>5, <1>6, <1>7, <1>8, <1>9, <1>10, <1>11, <1>12 DEF IInv, WorkerPart

\* The batch request as a whole fails: every key goes out again.
LEMMA RequestFailsKeeps == ASSUME IInv, RequestFails PROVE IInv'
<1>0. /\ wpc = "request" /\ wpc' = "resend" /\ todo' = BatchableOf(Running)
      /\ UNCHANGED <<fixed, token, callerVars, ends, fut, inflight, result, next, boom, raises,
                     gone, records, history>>
      /\ inflight = {} /\ ~boom
      /\ Running \in Batches /\ \A b \in Batches : fut[b] = "running" => b = Running
  BY RunningIs DEF IInv, WorkerPart, WorkerOK, RequestFails
<1>1. BatchableOf(Running) \subseteq Batch(Running) /\ Batch(Running) \subseteq Entries
  BY <1>0, Disjoint DEF BatchableOf
<1>2. TypeOK' /\ QueueOK'
  BY <1>0, <1>1, SameBatches DEF IInv, TypeOK, QueueOK
<1>3. CallerOK' /\ BatchesOK' /\ Errors'
  BY <1>0, CallerFrame
<1>4. WorkerOK'
  BY <1>0, <1>1, SameBatches DEF IInv, WorkerPart, WorkerOK
<1>5. Evidence'
  <2>1. \A e \in Batch(Running) : keyOf[e] \in Batchable => e \in todo'
    BY <1>0 DEF BatchableOf
  <2> QED BY <1>0, <2>1, SameBatches DEF Evidence, Told
<1>6. RecordsOK' /\ RecordsInOrder' /\ NoFalseSuccess'
  BY <1>0, SameBatches DEF IInv, WorkerPart, RecordsOK, RecordsInOrder, NoFalseSuccess
<1>7. Recorded'
  BY <1>0, SameBatches DEF IInv, WorkerPart, Recorded, Settled
<1>8. Reasons'
  BY <1>0 DEF IInv, Reasons, CutShort
<1> QED BY <1>2, <1>3, <1>4, <1>5, <1>6, <1>7, <1>8 DEF IInv, WorkerPart

\* An exception out of the request: no record of the batch follows.
LEMMA RequestRaisesKeeps == ASSUME IInv, RequestRaises PROVE IInv'
<1>0. /\ wpc = "request" /\ wpc' = "idle" /\ fut' = [fut EXCEPT ![Running] = "raised"]
      /\ UNCHANGED <<fixed, token, callerVars, ends, todo, inflight, result, next, boom,
                     gone, records, history>>
      /\ todo = {} /\ inflight = {} /\ ~boom
  BY DEF IInv, WorkerPart, WorkerOK, RequestRaises, RaiseBatch
<1>1. /\ Len(fut') = Len(fut) /\ fut' \in Seq({"queued", "running"} \cup Ended)
      /\ Running \in Batches /\ fut'[Running] = "raised"
      /\ \A b \in Batches : b # Running => fut'[b] = fut[b]
      /\ \A b \in Batches : fut'[b] # "running"
      /\ CallerOK' /\ BatchesOK' /\ Errors' /\ QueueOK'
  BY <1>0, BatchOver
<1>2. raises' \in 0 .. MaxFaults
  BY DEF IInv, TypeOK, RequestRaises
<1>3. TypeOK'
  BY <1>0, <1>1, <1>2 DEF IInv, TypeOK
<1>4. WorkerOK' /\ Evidence'
  BY <1>0, <1>1, SameBatches DEF WorkerOK, Evidence
<1>5. RecordsOK' /\ RecordsInOrder' /\ NoFalseSuccess'
  BY <1>0, <1>1, SameBatches DEF IInv, WorkerPart, RecordsOK, RecordsInOrder, NoFalseSuccess
<1>6. Recorded'
  BY <1>0, <1>1, SameBatches DEF IInv, WorkerPart, Recorded, Settled
<1>7. Reasons'
  BY <1>0 DEF IInv, Reasons, CutShort
<1> QED BY <1>1, <1>3, <1>4, <1>5, <1>6, <1>7 DEF IInv, WorkerPart

\* Until it records, the worker changes only what it knows of its own batch: the
\* records, and what settled the other batches, stay.
LEMMA ResultsFrame ==
  ASSUME IInv, wpc \in {"request", "resend", "singles"},
         UNCHANGED <<fixed, token, callerVars, ends, fut, next, records, history>>,
         \A e \in Entries : e \notin Batch(Running) => result'[e] = result[e],
         gone \subseteq gone'
  PROVE  /\ CallerOK' /\ BatchesOK' /\ Errors'
         /\ RecordsOK' /\ RecordsInOrder' /\ NoFalseSuccess' /\ Recorded'
<1>0. /\ Running \in Batches /\ \A b \in Batches : fut[b] = "running" => b = Running
      /\ fut[Running] = "running"
  BY RunningIs
<1>1. CallerOK' /\ BatchesOK' /\ Errors'
  BY CallerFrame
<1>2. RecordsOK' /\ RecordsInOrder' /\ NoFalseSuccess'
  BY SameBatches DEF IInv, WorkerPart, RecordsOK, RecordsInOrder, NoFalseSuccess
<1>3. Recorded'
  <2> SUFFICES ASSUME NEW b \in Batches, NEW e \in Batch(b),
                      fut[b] = "done" \/ (fut[b] = "running" /\ e < next)
               PROVE  Settled(e)'
    BY SameBatches DEF Recorded
  <2>1. CASE fut[b] = "done"
    <3>1. e \in Entries /\ e \notin Batch(Running)
      BY <1>0, <2>1, Disjoint
    <3>2. Settled(e)
      BY <2>1 DEF IInv, WorkerPart, Recorded
    <3> QED BY <3>1, <3>2 DEF Settled
  <2>2. CASE fut[b] = "running"
    <3>1. next = First(b) /\ First(b) \in Entries /\ e \in Entries /\ e >= First(b)
      BY <2>2, Disjoint DEF IInv, WorkerPart, WorkerOK, Batch
    <3> QED BY <2>2, <3>1
  <2> QED BY <2>1, <2>2
<1> QED BY <1>1, <1>2, <1>3

\* The request answers key by key; an entry it says nothing good of fails or goes again.
LEMMA RequestAnswersKeeps == ASSUME IInv, RequestAnswers PROVE IInv'
<1> DEFINE mine == BatchableOf(Running)
<1>0. /\ wpc = "request" /\ wpc' = "resend"
      /\ UNCHANGED <<fixed, token, callerVars, ends, fut, inflight, next, boom, raises,
                     records, history>>
      /\ inflight = {} /\ ~boom
      /\ Running \in Batches /\ \A b \in Batches : fut[b] = "running" => b = Running
  BY RunningIs DEF IInv, WorkerPart, WorkerOK, RequestAnswers
<1>1. mine \subseteq Batch(Running) /\ Batch(Running) \subseteq Entries
      /\ \A e \in Batch(Running) : keyOf[e] \in Batchable => e \in mine
  BY <1>0, Disjoint DEF BatchableOf
<1>2. /\ todo' \subseteq mine /\ gone \subseteq gone' /\ gone' \subseteq Keys
      /\ result' \in [Entries -> {"ok", "failed"} \cup Lost]
      /\ \A e \in Entries : result'[e] \in {"failed", result[e]}
      /\ \A e \in Entries : e \notin mine => result'[e] = result[e]
      /\ \A e \in mine : e \in todo' \/ (result'[e] = "ok" => keyOf[e] \in gone')
  <2>1. PICK answer \in [KeysOf(mine) -> {"deleted", "hard", "transient", "garbled"}] :
          LET again == {e \in mine : posture.resend /\ answer[keyOf[e]] = "transient"}
              failed == {e \in mine \ again : answer[keyOf[e]] \in {"hard", "transient"}
                                              \/ keyOf[e] \in Unconfirmed(answer)}
          IN /\ gone' = gone \cup {k \in DOMAIN answer : answer[k] = "deleted"}
             /\ result' = [e \in Entries |-> IF e \in failed THEN "failed" ELSE result[e]]
             /\ todo' = again
    BY DEF RequestAnswers
  <2>2. result \in [Entries -> {"ok", "failed"} \cup Lost] /\ keyOf \in [Entries -> Keys]
          /\ gone \subseteq Keys
    BY DEF IInv, TypeOK
  <2>3. DOMAIN answer = KeysOf(mine) /\ KeysOf(mine) \subseteq Keys
          /\ \A e \in mine : keyOf[e] \in KeysOf(mine)
    BY <1>1, <2>2 DEF KeysOf
  <2>4. \A e \in mine : answer[keyOf[e]] \in {"deleted", "hard", "transient", "garbled"}
    BY <2>3
  <2>5. \A k \in DOMAIN answer : answer[k] = "garbled" => k \in Unconfirmed(answer)
    BY DEF Unconfirmed
  <2>6. \A e \in mine : e \in todo' \/ (result'[e] = "ok" => keyOf[e] \in gone')
    BY <1>1, <2>1, <2>3, <2>4, <2>5
  <2>7. todo' \subseteq mine /\ gone \subseteq gone' /\ gone' \subseteq Keys
    BY <2>1, <2>2, <2>3
  <2>8. /\ result' \in [Entries -> {"ok", "failed"} \cup Lost]
        /\ \A e \in Entries : result'[e] \in {"failed", result[e]}
        /\ \A e \in Entries : e \notin mine => result'[e] = result[e]
    BY <2>1, <2>2
  <2> QED BY <2>6, <2>7, <2>8
<1>3. CallerOK' /\ BatchesOK' /\ Errors' /\ RecordsOK' /\ RecordsInOrder' /\ NoFalseSuccess'
        /\ Recorded'
  BY <1>0, <1>1, <1>2, ResultsFrame
<1>4. TypeOK' /\ QueueOK'
  BY <1>0, <1>1, <1>2, SameBatches DEF IInv, TypeOK, QueueOK
<1>5. WorkerOK'
  BY <1>0, <1>1, <1>2, SameBatches DEF IInv, WorkerPart, WorkerOK
<1>6. Evidence'
  BY <1>0, <1>1, <1>2, SameBatches DEF Evidence, Told
<1>7. Reasons'
  BY <1>0, <1>2 DEF IInv, Reasons, CutShort
<1> QED BY <1>3, <1>4, <1>5, <1>6, <1>7 DEF IInv, WorkerPart

\* A single goes out, or is skipped because the run is cut short.
LEMMA SendStartKeeps == ASSUME IInv, NEW x \in Entries, SendStart(x) PROVE IInv'
<1>0. /\ x \in todo /\ todo' = todo \ {x}
      /\ UNCHANGED <<fixed, token, callerVars, ends, fut, wpc, next, boom, raises,
                     gone, records, history>>
      /\ wpc \in {"resend", "singles"}
      /\ Running \in Batches /\ \A b \in Batches : fut[b] = "running" => b = Running
      /\ fut[Running] = "running"
  <2>1. wpc \in {"resend", "singles"}
    BY DEF IInv, TypeOK, WorkerPart, WorkerOK, SendStart
  <2> QED BY <2>1, RunningIs DEF SendStart
<1>1. x \in Batch(Running) /\ todo \subseteq Batch(Running) /\ inflight \subseteq Batch(Running)
      /\ Batch(Running) \subseteq Entries
  BY <1>0, Disjoint DEF IInv, WorkerPart, WorkerOK
<1>2. \/ /\ inflight' = inflight /\ (abandoned \/ token = "immediate")
         /\ result' \in [Entries -> {"ok", "failed"} \cup Lost] /\ result'[x] = "skipped"
         /\ \A e \in Entries : e # x => result'[e] = result[e]
      \/ inflight' = inflight \cup {x} /\ result' = result
  BY DEF IInv, TypeOK, SendStart, Stopped
<1>3. /\ inflight \subseteq inflight' /\ inflight' \subseteq inflight \cup {x}
      /\ result' \in [Entries -> {"ok", "failed"} \cup Lost]
      /\ \A e \in Entries : e # x => result'[e] = result[e]
      /\ x \in inflight' \/ result'[x] = "skipped"
  <2>1. result \in [Entries -> {"ok", "failed"} \cup Lost]
    BY DEF IInv, TypeOK
  <2>2. CASE inflight' = inflight \cup {x} /\ result' = result
    BY <2>1, <2>2
  <2>3. CASE ~(inflight' = inflight \cup {x} /\ result' = result)
    BY <1>2, <2>3
  <2> QED BY <2>2, <2>3
<1>4. CallerOK' /\ BatchesOK' /\ Errors' /\ RecordsOK' /\ RecordsInOrder' /\ NoFalseSuccess'
        /\ Recorded'
  BY <1>0, <1>1, <1>3, ResultsFrame
<1>5. TypeOK'
  BY <1>0, <1>1, <1>3 DEF IInv, TypeOK
<1>6. QueueOK' /\ WorkerOK'
  BY <1>0, <1>1, <1>3, SameBatches DEF IInv, QueueOK, WorkerPart, WorkerOK
<1>e. Evidence'
  <2>1. \A e \in Batch(Running) : Told(e) => Told(e)'
    BY <1>0, <1>1, <1>3 DEF Told
  <2> QED BY <1>0, <2>1, SameBatches DEF IInv, WorkerPart, Evidence
<1>7. Reasons'
  BY <1>0, <1>2 DEF IInv, Reasons, CutShort
<1> QED BY <1>4, <1>5, <1>6, <1>7, <1>e DEF IInv, WorkerPart

\* A single comes back: deleted, failed, lost without an answer, or with an exception.
LEMMA SendEndKeeps == ASSUME IInv, NEW x \in Entries, SendEnd(x) PROVE IInv'
<1>0. /\ x \in inflight /\ inflight' = inflight \ {x}
      /\ UNCHANGED <<fixed, token, callerVars, ends, fut, wpc, todo, next, records, history>>
      /\ wpc \in {"resend", "singles"}
      /\ Running \in Batches /\ \A b \in Batches : fut[b] = "running" => b = Running
      /\ fut[Running] = "running"
  <2>1. wpc \in {"resend", "singles"}
    BY DEF IInv, TypeOK, WorkerPart, WorkerOK, SendEnd
  <2> QED BY <2>1, RunningIs DEF SendEnd
<1>1. x \in Batch(Running) /\ todo \subseteq Batch(Running) /\ inflight \subseteq Batch(Running)
      /\ Batch(Running) \subseteq Entries
  BY <1>0, Disjoint DEF IInv, WorkerPart, WorkerOK
<1>2. /\ result' \in [Entries -> {"ok", "failed"} \cup Lost]
      /\ \A e \in Entries : e # x => result'[e] = result[e]
      /\ gone \subseteq gone' /\ gone' \subseteq Keys /\ boom' \in BOOLEAN /\ (boom => boom')
      /\ boom' \/ result'[x] # "ok" \/ keyOf[x] \in gone'
      /\ result'[x] \in {result[x], "failed", "dropped"}
      /\ result'[x] = "dropped" => ~posture.crt \/ result[x] = "dropped"
      /\ raises' \in 0 .. MaxFaults
  <2>1. /\ result \in [Entries -> {"ok", "failed"} \cup Lost] /\ keyOf[x] \in Keys
           /\ gone \subseteq Keys
        /\ boom \in BOOLEAN /\ raises \in 0 .. MaxFaults /\ interrupts \in 0 .. MaxFaults
    BY DEF IInv, TypeOK
  <2>2. CASE gone' = gone \cup {keyOf[x]} /\ UNCHANGED <<result, boom, raises>>
    BY <2>1, <2>2
  <2>3. CASE /\ \E r \in {"failed"} \cup (IF posture.crt THEN {} ELSE {"dropped"}) :
                  result' = [result EXCEPT ![x] = r]
             /\ UNCHANGED <<gone, boom, raises>>
    BY <2>1, <2>3
  <2>4. CASE /\ interrupts + raises < MaxFaults /\ raises' = raises + 1 /\ boom' = TRUE
             /\ UNCHANGED <<result, gone>>
    BY <2>1, <2>4
  <2> QED BY <2>2, <2>3, <2>4 DEF SendEnd
<1>3. CallerOK' /\ BatchesOK' /\ Errors' /\ RecordsOK' /\ RecordsInOrder' /\ NoFalseSuccess'
        /\ Recorded'
  BY <1>0, <1>1, <1>2, ResultsFrame
<1>4. TypeOK' /\ QueueOK'
  BY <1>0, <1>1, <1>2, SameBatches DEF IInv, TypeOK, QueueOK
<1>5. WorkerOK'
  <2>1. WorkerOK /\ wpc' \notin {"idle", "request", "record"}
    BY <1>0 DEF IInv, WorkerPart
  <2>2. /\ \A b \in Batches : Batch(b)' = Batch(b) /\ First(b)' = First(b)
        /\ Batches' = Batches /\ UNCHANGED <<ends, fut, next, wpc, todo>>
    BY <1>0, SameBatches
  <2>3. inflight' \subseteq inflight
    BY <1>0
  <2> QED BY <2>1, <2>2, <2>3 DEF WorkerOK
<1>6. Evidence'
  <2>1. \A e \in Batch(Running) : Told(e) => Told(e)'
    BY <1>0, <1>1, <1>2 DEF Told
  <2> QED BY <1>0, <2>1, SameBatches DEF IInv, WorkerPart, Evidence
<1>7. Reasons'
  BY <1>0, <1>2 DEF IInv, Reasons, CutShort
<1> QED BY <1>3, <1>4, <1>5, <1>6, <1>7 DEF IInv, WorkerPart

\* The pool is joined: the batch raises what a single raised, or goes on.
LEMMA PoolEndsKeeps == ASSUME IInv, PoolEnds PROVE IInv'
<1>0. /\ wpc \in {"resend", "singles"} /\ todo = {} /\ inflight = {} /\ boom' = FALSE
      /\ UNCHANGED <<fixed, token, callerVars, ends, inflight, result, next, raises,
                     gone, records, history>>
      /\ Running \in Batches /\ \A b \in Batches : fut[b] = "running" => b = Running
      /\ fut[Running] = "running"
  BY RunningIs DEF PoolEnds
<1>1. RecordsInOrder' /\ NoFalseSuccess' /\ Reasons'
  BY <1>0 DEF IInv, WorkerPart, RecordsInOrder, NoFalseSuccess, Reasons, CutShort
<1>2. CASE boom
  <2>0. wpc' = "idle" /\ fut' = [fut EXCEPT ![Running] = "raised"] /\ todo' = todo
    BY <1>2 DEF PoolEnds, RaiseBatch
  <2>1. /\ Len(fut') = Len(fut) /\ fut' \in Seq({"queued", "running"} \cup Ended)
        /\ fut'[Running] = "raised"
        /\ \A b \in Batches : b # Running => fut'[b] = fut[b]
        /\ \A b \in Batches : fut'[b] # "running"
        /\ CallerOK' /\ BatchesOK' /\ Errors' /\ QueueOK'
    BY <1>0, <2>0, BatchOver
  <2>2. TypeOK'
    <3>1. boom' \in BOOLEAN /\ wpc' \in {"idle", "request", "resend", "singles", "record"}
      BY <1>0, <2>0
    <3> QED BY <1>0, <2>0, <2>1, <3>1 DEF IInv, TypeOK
  <2>3. WorkerOK' /\ Evidence'
    BY <1>0, <2>0, <2>1, SameBatches DEF WorkerOK, Evidence
  <2>4. RecordsOK'
    BY <1>0, <2>1, SameBatches DEF IInv, WorkerPart, RecordsOK
  <2>5. Recorded'
    BY <1>0, <2>1, SameBatches DEF IInv, WorkerPart, Recorded, Settled
  <2> QED BY <1>1, <2>1, <2>2, <2>3, <2>4, <2>5 DEF IInv, WorkerPart
<1>3. CASE ~boom
  <2>0. /\ fut' = fut /\ boom' = boom
        /\ \/ wpc = "resend" /\ wpc' = "singles" /\ todo' = SinglesOf(Running)
           \/ /\ wpc' = "record" /\ todo' = todo
              /\ wpc = "resend" => SinglesOf(Running) = {}
    BY <1>0, <1>3 DEF IInv, TypeOK, PoolEnds
  <2>1. SinglesOf(Running) \subseteq Batch(Running) /\ Batch(Running) \subseteq Entries
    BY <1>0, Disjoint DEF SinglesOf
  <2>2. CallerOK' /\ BatchesOK' /\ Errors'
    BY <1>0, <2>0, CallerFrame
  <2>3. TypeOK' /\ QueueOK'
    BY <1>0, <2>0, <2>1, SameBatches DEF IInv, TypeOK, QueueOK
  <2>4. WorkerOK'
    BY <1>0, <1>3, <2>0, <2>1, SameBatches DEF IInv, WorkerPart, WorkerOK
  <2>5. Evidence'
    <3>1. \A e \in Batch(Running) : keyOf[e] \in Batchable \/ e \in SinglesOf(Running)
      BY DEF SinglesOf, BatchableOf
    <3>2. \A e \in Batch(Running) : keyOf[e] \in Batchable \/ wpc = "singles" => Told(e)
      BY <1>0 DEF IInv, WorkerPart, Evidence
    <3>3. \A e \in Batch(Running) : Told(e) => Told(e)'
      BY <1>0, <1>3, <2>0 DEF Told
    <3>4. \A e \in Batch(Running) : Told(e)'
      <4> SUFFICES ASSUME NEW e \in Batch(Running) PROVE Told(e)'
        OBVIOUS
      <4>1. CASE keyOf[e] \in Batchable \/ wpc = "singles"
        BY <3>2, <3>3, <4>1
      <4>2. CASE keyOf[e] \notin Batchable /\ wpc = "resend"
        BY <2>0, <3>1, <4>2 DEF Told
      <4> QED BY <1>0, <4>1, <4>2
    <3> QED BY <1>0, <2>0, <3>4, SameBatches DEF Evidence
  <2>6. RecordsOK'
    BY <1>0, <2>0, SameBatches DEF IInv, WorkerPart, RecordsOK
  <2>7. Recorded'
    BY <1>0, <2>0, SameBatches DEF IInv, WorkerPart, Recorded, Settled
  <2> QED BY <1>1, <2>2, <2>3, <2>4, <2>5, <2>6, <2>7 DEF IInv, WorkerPart
<1> QED BY <1>2, <1>3

\* One entry is recorded or lost; what on_result raises ends the batch.
LEMMA RecordKeeps == ASSUME IInv, Record PROVE IInv'
<1>0. /\ wpc = "record" /\ next \in Batch(Running) /\ next' = next + 1
      /\ UNCHANGED <<fixed, token, callerVars, ends, todo, inflight, result, boom, gone, history>>
      /\ todo = {} /\ inflight = {} /\ ~boom
      /\ Running \in Batches /\ \A b \in Batches : fut[b] = "running" => b = Running
      /\ fut[Running] = "running"
  BY RunningIs DEF IInv, WorkerPart, WorkerOK, Record
<1>1. /\ next \in Entries /\ next <= ends[Running] /\ First(Running) <= next
      /\ First(Running) \in Entries /\ ends[Running] \in Entries /\ ends[Running] <= dispatched
      /\ dispatched \in Nat
      /\ \A b \in Batches : fut[b] = "queued" => next < First(b) /\ First(b) \in Entries
  <2>1. /\ next \in Entries /\ next <= ends[Running] /\ First(Running) <= next
        /\ First(Running) \in Entries /\ ends[Running] \in Entries /\ ends[Running] <= dispatched
        /\ dispatched \in Nat
    BY <1>0, Disjoint DEF Batch, IInv, TypeOK
  <2>2. \A b \in Batches : fut[b] = "queued" => Running < b
    <3>1. \A b \in Batches : b \in Nat
      BY Disjoint
    <3> QED BY <1>0, <3>1 DEF IInv, QueueOK
  <2>3. \A b \in Batches : fut[b] = "queued" => ends[Running] < First(b) /\ First(b) \in Entries
    BY <1>0, <2>2, Disjoint
  <2> QED BY <2>1, <2>3
<1>2. result[next] = "ok" => keyOf[next] \in gone
  BY <1>0 DEF IInv, WorkerPart, Evidence, Told
<1>3. Reasons'
  BY <1>0 DEF IInv, Reasons, CutShort
\* What the record adds to records, if it adds one.
<1> DEFINE new == [entry |-> next,
        outcome |-> IF result[next] = "ok" THEN "succeeded" ELSE "failed"]
<1>4. \/ result[next] \in Lost /\ UNCHANGED <<records, wpc, fut, raises>>
      \/ /\ records' = Append(records, new)
         /\ \/ UNCHANGED <<wpc, fut, raises>>
            \/ /\ raises' \in 0 .. MaxFaults /\ wpc' = "idle"
               /\ \E what \in Failed : fut' = [fut EXCEPT ![Running] = what]
  <2>1. CASE result[next] \in Lost
    BY <2>1 DEF Record
  <2>2. CASE result[next] \notin Lost
    <3>1. records' = Append(records, new)
      BY <2>2 DEF Record
    <3>2. CASE UNCHANGED <<wpc, fut, raises>>
      BY <3>1, <3>2
    <3>3. ASSUME NEW what \in Raisable, RaiseBatch(what), interrupts + raises < MaxFaults,
                 raises' = raises + 1
          PROVE  /\ raises' \in 0 .. MaxFaults /\ wpc' = "idle" /\ what \in Failed
                 /\ fut' = [fut EXCEPT ![Running] = what]
      BY <3>3 DEF IInv, TypeOK, RaiseBatch
    <3> QED BY <2>2, <3>1, <3>2, <3>3 DEF Record
  <2> QED BY <2>1, <2>2
<1>n. PICK n \in Entries : n = next
  BY <1>1
<1>5. /\ records' \in Seq([entry : Entries, outcome : {"succeeded", "failed"}])
      /\ RecordsInOrder' /\ NoFalseSuccess'
      /\ \A i \in DOMAIN records' : records'[i].entry <= next /\ records'[i].entry \in Entries
      /\ \A e \in Entries : Settled(e) => Settled(e)'
      /\ Settled(n)'
  <2>1. /\ records \in Seq([entry : Entries, outcome : {"succeeded", "failed"}])
        /\ new \in [entry : Entries, outcome : {"succeeded", "failed"}]
    BY <1>1 DEF IInv, TypeOK
  <2>2. \A i \in DOMAIN records : records[i].entry < next /\ records[i].entry \in Entries
    <3>1. \A i \in DOMAIN records : records[i].entry \in Entries
      BY RecordTyped
    <3>2. \A i \in DOMAIN records : records[i].entry < next
      BY <1>0 DEF IInv, WorkerPart, RecordsOK
    <3> QED BY <3>1, <3>2
  <2>3. CASE records' = records /\ result[next] \in Lost
    <3>1. RecordsInOrder' /\ NoFalseSuccess'
      BY <1>0, <2>3 DEF IInv, WorkerPart, RecordsInOrder, NoFalseSuccess
    <3>2. \A i \in DOMAIN records' : records'[i].entry <= next /\ records'[i].entry \in Entries
      BY <1>1, <2>2, <2>3
    <3>3. Settled(n)' /\ \A e \in Entries : Settled(e) => Settled(e)'
      BY <1>0, <1>n, <2>3 DEF Settled
    <3> QED BY <2>1, <2>3, <3>1, <3>2, <3>3
  <2>4. CASE records' = Append(records, new)
    <3>1. /\ records' \in Seq([entry : Entries, outcome : {"succeeded", "failed"}])
          /\ Len(records) \in Nat /\ Len(records') = Len(records) + 1
          /\ DOMAIN records = 1 .. Len(records) /\ DOMAIN records' = 1 .. Len(records) + 1
          /\ \A i \in 1 .. Len(records) : records'[i] = records[i]
          /\ records'[Len(records) + 1] = new
      BY <2>1, <2>4, AppendProperties
    <3>2. \A i \in DOMAIN records' : i \in DOMAIN records \/ i = Len(records) + 1
      BY <3>1
    <3>3. new.entry = next /\ (new.outcome = "succeeded" => keyOf[next] \in gone)
      BY <1>2
    <3>4. RecordsInOrder'
      <4> SUFFICES ASSUME NEW i \in DOMAIN records', NEW j \in DOMAIN records', i < j
                   PROVE  records'[i].entry < records'[j].entry
        BY DEF RecordsInOrder
      <4>1. i \in DOMAIN records
        BY <3>1
      <4>2. CASE j \in DOMAIN records
        BY <3>1, <4>1, <4>2 DEF IInv, WorkerPart, RecordsInOrder
      <4>3. CASE j = Len(records) + 1
        BY <2>2, <3>1, <3>3, <4>1, <4>3
      <4> QED BY <3>2, <4>2, <4>3
    <3>5. NoFalseSuccess'
      BY <1>0, <3>1, <3>2, <3>3 DEF IInv, WorkerPart, NoFalseSuccess
    <3>6. \A i \in DOMAIN records' : records'[i].entry <= next /\ records'[i].entry \in Entries
      <4>1. \A i \in DOMAIN records : records'[i].entry < next /\ records'[i].entry \in Entries
        BY <2>2, <3>1
      <4>2. records'[Len(records) + 1].entry = next
        BY <3>1, <3>3
      <4> QED BY <1>1, <3>2, <4>1, <4>2
    <3>7. \A e \in Entries : Settled(e) => Settled(e)'
      BY <1>0, <3>1 DEF Settled
    <3>8. Settled(n)'
      <4>1. records'[Len(records) + 1].entry = next /\ Len(records) + 1 \in DOMAIN records'
        BY <3>1, <3>3
      <4> QED BY <1>n, <4>1 DEF Settled
    <3> QED BY <3>1, <3>4, <3>5, <3>6, <3>7, <3>8
  <2> QED BY <1>4, <2>3, <2>4
<1>6. \A b \in Batches : /\ fut[b] = "done" => \A e \in Batch(b) : Settled(e)'
                         /\ fut[b] = "running" => \A e \in Batch(b) : e < next + 1 => Settled(e)'
  <2> SUFFICES ASSUME NEW b \in Batches, NEW e \in Batch(b),
                      fut[b] = "done" \/ (fut[b] = "running" /\ e < next + 1)
               PROVE  Settled(e)'
    OBVIOUS
  <2>1. e \in Entries /\ (e < next + 1 => e < next \/ e = next)
    BY <1>1, Disjoint
  <2>2. fut[b] = "done" \/ e < next => Settled(e)
    BY DEF IInv, WorkerPart, Recorded
  <2>3. e = next => Settled(e)'
    BY <1>5, <1>n
  <2> QED BY <1>5, <2>1, <2>2, <2>3
<1>7. CASE UNCHANGED <<wpc, fut, raises>>
  <2>1. TypeOK'
    BY <1>0, <1>1, <1>5, <1>7 DEF IInv, TypeOK
  <2>2. CallerOK' /\ BatchesOK' /\ Errors'
    BY <1>0, <1>7, CallerFrame
  <2>3. QueueOK' /\ WorkerOK'
    BY <1>0, <1>1, <1>7, SameBatches DEF IInv, QueueOK, WorkerOK
  <2>4. Evidence'
    BY <1>0, <1>7, SameBatches DEF IInv, WorkerPart, Evidence, Told
  <2>5. RecordsOK'
    BY <1>0, <1>1, <1>5, <1>7, SameBatches DEF RecordsOK
  <2>6. Recorded'
    BY <1>0, <1>6, <1>7, SameBatches DEF Recorded
  <2> QED BY <1>3, <1>5, <2>1, <2>2, <2>3, <2>4, <2>5, <2>6 DEF IInv, WorkerPart
<1>8. ASSUME NEW what \in Failed, fut' = [fut EXCEPT ![Running] = what], wpc' = "idle",
             raises' \in 0 .. MaxFaults
      PROVE  IInv'
  <2>1. /\ Len(fut') = Len(fut) /\ fut' \in Seq({"queued", "running"} \cup Ended)
        /\ fut'[Running] = what
        /\ \A b \in Batches : b # Running => fut'[b] = fut[b]
        /\ \A b \in Batches : fut'[b] # "running"
        /\ CallerOK' /\ BatchesOK' /\ Errors' /\ QueueOK'
    BY <1>0, <1>8, BatchOver
  <2>2. TypeOK'
    <3>1. next' \in Nat /\ wpc' \in {"idle", "request", "resend", "singles", "record"}
          /\ Len(fut') = Len(ends')
      BY <1>0, <1>1, <1>8, <2>1 DEF IInv, TypeOK
    <3>2. TypeOK
      BY DEF IInv
    <3> QED BY <1>0, <1>5, <1>8, <2>1, <3>1, <3>2 DEF TypeOK
  <2>3. WorkerOK' /\ Evidence'
    BY <1>0, <1>8, <2>1, SameBatches DEF WorkerOK, Evidence
  <2>4. RecordsOK'
    <3> SUFFICES ASSUME NEW i \in DOMAIN records' PROVE
          /\ records'[i].entry <= dispatched
          /\ \A b \in Batches : fut'[b] = "queued" => records'[i].entry < First(b)
      BY <1>0, <2>1, SameBatches DEF RecordsOK
    <3>1. records'[i].entry <= next /\ records'[i].entry \in Nat /\ next \in Nat
      BY <1>1, <1>5
    <3>2. next <= dispatched
      BY <1>1
    <3>3. \A b \in Batches : fut'[b] = "queued" => next < First(b) /\ First(b) \in Nat
      BY <1>0, <1>1, <2>1
    <3> QED BY <1>1, <3>1, <3>2, <3>3
  <2>5. Recorded'
    BY <1>0, <1>6, <2>1, SameBatches DEF Recorded
  <2> QED BY <1>3, <1>5, <2>1, <2>2, <2>3, <2>4, <2>5 DEF IInv, WorkerPart
<1> QED BY <1>4, <1>7, <1>8

\* Past its last entry the batch is done.
LEMMA BatchEndsKeeps == ASSUME IInv, BatchEnds PROVE IInv'
<1>0. /\ wpc = "record" /\ next \notin Batch(Running) /\ wpc' = "idle"
      /\ fut' = [fut EXCEPT ![Running] = "done"]
      /\ UNCHANGED <<fixed, token, callerVars, ends, todo, inflight, result, next, boom, raises,
                     gone, records, history>>
      /\ todo = {} /\ inflight = {} /\ ~boom /\ fut[Running] = "running"
  BY RunningIs DEF IInv, WorkerPart, WorkerOK, BatchEnds
<1>1. /\ Len(fut') = Len(fut) /\ fut' \in Seq({"queued", "running"} \cup Ended)
      /\ Running \in Batches /\ fut'[Running] = "done"
      /\ \A b \in Batches : b # Running => fut'[b] = fut[b]
      /\ \A b \in Batches : fut'[b] # "running"
      /\ CallerOK' /\ BatchesOK' /\ Errors' /\ QueueOK'
  BY <1>0, BatchOver
<1>2. TypeOK'
  BY <1>0, <1>1 DEF IInv, TypeOK
<1>3. WorkerOK' /\ Evidence'
  BY <1>0, <1>1, SameBatches DEF WorkerOK, Evidence
<1>4. RecordsOK' /\ RecordsInOrder' /\ NoFalseSuccess'
  BY <1>0, <1>1, SameBatches DEF IInv, WorkerPart, RecordsOK, RecordsInOrder, NoFalseSuccess
<1>5. Recorded'
  <2>1. \A e \in Batch(Running) : e < next
    <3>1. /\ next \in First(Running) .. ends[Running] + 1 /\ ends[Running] \in Entries
          /\ First(Running) \in Entries
      BY <1>0, <1>1, Disjoint DEF IInv, WorkerPart, WorkerOK
    <3> QED BY <1>0, <3>1 DEF Batch
  <2> QED BY <1>0, <1>1, <2>1, SameBatches DEF IInv, WorkerPart, Recorded, Settled
<1>6. Reasons'
  BY <1>0 DEF IInv, Reasons, CutShort
<1> QED BY <1>1, <1>2, <1>3, <1>4, <1>5, <1>6 DEF IInv, WorkerPart

-----------------------------------------------------------------------------
(* Dispatch.                                                               *)

\* A new batch takes up where the last one ends, and leaves the others alone.
LEMMA NewBatch ==
  ASSUME IInv, NEW d \in Entries, dispatched < d, ends' = Append(ends, d)
  PROVE  /\ ends' \in Seq(Entries) /\ Len(ends) \in Nat /\ Len(ends') = Len(ends) + 1
         /\ Batches' = Batches \cup {Len(ends')} /\ Len(ends') \notin Batches
         /\ Len(ends') \in Batches'
         /\ \A b \in Batches : b < Len(ends') /\ b \in Nat
         /\ \A b \in Batches : ends'[b] = ends[b] /\ Batch(b)' = Batch(b) /\ First(b)' = First(b)
         /\ ends'[Len(ends')] = d
         /\ \A b \in Batches' : b = Len(ends') => Batch(b)' = dispatched + 1 .. d
         /\ \A b \in Batches' : b = Len(ends') => First(b)' = dispatched + 1
<1>1. /\ ends \in Seq(Entries) /\ Len(ends) \in Nat /\ dispatched \in Nat
      /\ dispatched = IF Len(ends) = 0 THEN 0 ELSE ends[Len(ends)]
  BY DEF IInv, TypeOK, BatchesOK
<1>2. /\ ends' \in Seq(Entries) /\ Len(ends') = Len(ends) + 1
      /\ \A b \in 1 .. Len(ends) : ends'[b] = ends[b]
      /\ ends'[Len(ends) + 1] = d
  BY <1>1, AppendProperties
<1>3. /\ Batches' = Batches \cup {Len(ends')} /\ Len(ends') \notin Batches
         /\ Len(ends') \in Batches'
      /\ \A b \in Batches : b < Len(ends') /\ b \in Nat
  BY <1>1, <1>2 DEF Batches
<1>4. \A b \in Batches : First(b)' = First(b)
  BY <1>1, <1>2 DEF First, Batches
<1>5. \A b \in Batches : ends'[b] = ends[b] /\ Batch(b)' = Batch(b)
  BY <1>1, <1>2, <1>4 DEF Batches, Batch
<1>6. \A b \in Batches' : b = Len(ends') => First(b)' = dispatched + 1
  BY <1>1, <1>2 DEF First
<1>7. \A b \in Batches' : b = Len(ends') => Batch(b)' = dispatched + 1 .. d
  BY <1>1, <1>2, <1>6 DEF Batch
<1> QED BY <1>1, <1>2, <1>3, <1>4, <1>5, <1>6, <1>7

\* The token is read once more: the caller leaves, or goes on to its batch.
LEMMA RecheckKeeps == ASSUME IInv, Recheck PROVE IInv'
<1>1. /\ UNCHANGED <<ends, fut, workerVars, dispatched, gone, records, keyOf>>
      /\ Batches' = Batches /\ cpc = "dispatch"
  BY SameBatches DEF Recheck
<1>2. /\ UNCHANGED <<token, submitted, abandoned, interrupts, closeCall, escaped, posture,
                     surfaced>>
      /\ pending = 0 /\ awaited = 0 /\ awaited' = 0 /\ pending' = 0
      /\ \/ Cancelled /\ call = "close" /\ cpc' = "shutdown" /\ call' = call
         \/ Cancelled /\ call # "close" /\ cpc' = "idle" /\ call' = "none"
         \/ cpc' = "slice" /\ call' = call
  BY DEF IInv, CallerOK, Recheck, FlushReturns, TakePending
<1>3. BatchesOK' /\ WorkerPart'
  BY <1>1, WorkerFrame
<1>4. TypeOK' /\ QueueOK'
  BY <1>1, <1>2 DEF IInv, TypeOK, QueueOK
<1>5. CallerOK' /\ Reasons' /\ Errors'
  BY <1>1, <1>2 DEF IInv, CallerOK, Reasons, CutShort, Errors, SurfacedBatch
<1> QED BY <1>3, <1>4, <1>5 DEF IInv

\* A batch is dispatched behind those that are queued; it overlaps none.
LEMMA DispatchKeeps == ASSUME IInv, Dispatch PROVE IInv'
<1> DEFINE new == Len(ends')
<1>0. /\ cpc = "slice" /\ cpc' = "flush" /\ ends' = Append(ends, dispatched')
      /\ dispatched' = Smaller(dispatched + BatchSize, submitted)
      /\ fut' = Append(fut, "queued") /\ pending' = Len(ends')
      /\ UNCHANGED <<fixed, token, submitted, abandoned, interrupts, call, awaited,
                     workerVars, gone, records, history>>
  BY DEF Dispatch
<1>1. /\ dispatched' \in Entries /\ dispatched < dispatched' /\ dispatched' <= submitted
      /\ dispatched \in Nat /\ pending = 0 /\ awaited = 0 /\ call \notin {"none"}
  BY <1>0 DEF IInv, TypeOK, CallerOK, Smaller
<1>2. /\ ends' \in Seq(Entries) /\ Len(ends) \in Nat /\ Len(ends') = Len(ends) + 1
      /\ Batches' = Batches \cup {new} /\ new \notin Batches /\ new \in Batches'
      /\ \A b \in Batches : b < new /\ b \in Nat
      /\ \A b \in Batches : ends'[b] = ends[b] /\ Batch(b)' = Batch(b) /\ First(b)' = First(b)
      /\ ends'[new] = dispatched'
      /\ \A b \in Batches' : b = new => Batch(b)' = dispatched + 1 .. dispatched'
      /\ \A b \in Batches' : b = new => First(b)' = dispatched + 1
  BY <1>0, <1>1, NewBatch
<1>3. /\ fut' \in Seq({"queued", "running"} \cup Ended) /\ Len(fut') = new
      /\ \A b \in Batches : fut'[b] = fut[b]
      /\ fut'[new] = "queued"
  <2>1. fut \in Seq({"queued", "running"} \cup Ended) /\ Len(fut) = Len(ends)
    BY DEF IInv, TypeOK
  <2> QED BY <1>0, <1>2, <2>1, AppendProperties DEF Batches
<1>s. /\ \A b \in Batches' : \/ b \in Batches /\ fut'[b] = fut[b]
                             \/ b = new /\ fut'[b] = "queued"
      /\ new \in Nat /\ new # 0 /\ \A b \in Batches : ~(new < b)
  BY <1>2, <1>3
<1>4. TypeOK'
  <2>1. pending' \in 0 .. Len(ends') /\ awaited' \in 0 .. Len(ends')
          /\ dispatched' \in 0 .. submitted'
    BY <1>0, <1>1, <1>2
  <2> QED BY <1>0, <1>2, <1>3, <2>1 DEF IInv, TypeOK
<1>5. CallerOK'
  BY <1>0, <1>1 DEF IInv, CallerOK
<1>6. BatchesOK'
  <2>1. dispatched' = IF Len(ends') = 0 THEN 0 ELSE ends'[Len(ends')]
    BY <1>2
  <2>2. \A b, c \in Batches' : b < c => ends'[b] < ends'[c]
    <3>1. \A b \in Batches : ends[b] < dispatched' /\ ends[b] \in Entries
      BY <1>1, Disjoint
    <3>2. \A b, c \in Batches' : b < c => b \in Batches /\ (c \in Batches \/ c = new)
      BY <1>2
    <3>3. \A b, c \in Batches : b < c => ends[b] < ends[c]
      BY DEF IInv, BatchesOK
    <3> QED BY <1>2, <3>1, <3>2, <3>3
  <2>3. \A e \in 1 .. dispatched' : \E b \in Batches' : e \in Batch(b)'
    <3> SUFFICES ASSUME NEW e \in 1 .. dispatched' PROVE \E b \in Batches' : e \in Batch(b)'
      OBVIOUS
    <3>1. CASE e <= dispatched
      <4>1. PICK b \in Batches : e \in Batch(b)
        BY <1>1, <3>1 DEF IInv, BatchesOK
      <4> QED BY <1>2, <4>1
    <3>2. CASE e > dispatched
      <4>1. e \in dispatched + 1 .. dispatched'
        BY <1>1, <3>2
      <4>2. PICK b \in Batches' : b = new
        BY <1>2
      <4> QED BY <1>2, <4>1, <4>2
    <3> QED BY <1>1, <3>1, <3>2
  <2> QED BY <2>1, <2>2, <2>3 DEF BatchesOK
<1>7. QueueOK'
  <2> HIDE DEF new
  <2>1. \A b, c \in Batches' : b < c /\ fut'[b] \in {"queued", "running"}
                              => fut'[c] \in {"queued", "cancelled"}
    <3> SUFFICES ASSUME NEW b \in Batches', NEW c \in Batches', b < c,
                        fut'[b] \in {"queued", "running"}
                 PROVE  fut'[c] \in {"queued", "cancelled"}
      OBVIOUS
    <3>1. c = new => fut'[c] = "queued"
      BY <1>s, <1>2
    <3>2. c # new => c \in Batches /\ fut'[c] = fut[c]
      BY <1>s
    <3>3. c # new => b \in Batches /\ fut'[b] = fut[b]
      BY <1>s, <3>2
    <3> QED BY <3>1, <3>2, <3>3 DEF IInv, QueueOK
  <2>2. \A b \in Batches : b \in Batches' /\ fut'[b] = fut[b]
    BY <1>2, <1>3
  <2>3. wpc' = "idle" <=> \A b \in Batches' : fut'[b] # "running"
    BY <1>0, <1>s, <2>2 DEF IInv, QueueOK
  <2>4. \A b \in Batches' : fut'[b] = "cancelled" => token' = "immediate"
    BY <1>0, <1>s DEF IInv, QueueOK
  <2> QED BY <2>1, <2>3, <2>4 DEF QueueOK
<1>8. WorkerOK' /\ Evidence'
  <2> HIDE DEF new
  <2>1. \A b \in Batches' : fut'[b] = "running" => b \in Batches /\ fut[b] = "running"
    BY <1>s
  <2>2. WorkerOK /\ Evidence
    BY DEF IInv, WorkerPart
  <2>3. UNCHANGED <<wpc, todo, inflight, result, next, boom, gone, keyOf>>
    BY <1>0
  <2>4. \A b \in Batches : First(b)' = First(b) /\ Batch(b)' = Batch(b) /\ ends'[b] = ends[b]
    BY <1>2
  <2>5. WorkerOK'
    BY <2>1, <2>2, <2>3, <2>4 DEF WorkerOK
  <2>6. Evidence'
    BY <2>1, <2>2, <2>3, <2>4 DEF Evidence, Told
  <2> QED BY <2>5, <2>6
<1>9. RecordsOK'
  <2> SUFFICES ASSUME NEW i \in DOMAIN records PROVE
        /\ records[i].entry <= dispatched'
        /\ \A b \in Batches' : fut'[b] = "queued" => records[i].entry < First(b)'
        /\ \A b \in Batches' : fut'[b] = "running" => records[i].entry < next
    BY <1>0 DEF RecordsOK
  <2>1. records[i].entry \in Entries /\ records[i].entry <= dispatched
    BY RecordTyped DEF IInv, WorkerPart, RecordsOK
  <2>2. records[i].entry <= dispatched' /\ records[i].entry < dispatched + 1
    BY <1>1, <2>1
  <2> QED BY <1>2, <1>3, <2>2 DEF IInv, WorkerPart, RecordsOK
<1>10. RecordsInOrder' /\ NoFalseSuccess'
  BY <1>0 DEF IInv, WorkerPart, RecordsInOrder, NoFalseSuccess
<1>11. Recorded'
  <2> HIDE DEF new
  <2>1. \A b \in Batches' : fut'[b] \in {"done", "running"} => b \in Batches /\ fut[b] = fut'[b]
    BY <1>s
  <2>2. \A b \in Batches : Batch(b)' = Batch(b)
    BY <1>2
  <2>3. UNCHANGED <<result, records, next>> /\ Recorded
    BY <1>0 DEF IInv, WorkerPart
  <2> QED BY <2>1, <2>2, <2>3 DEF Recorded, Settled
<1>12. Reasons'
  BY <1>0 DEF IInv, Reasons, CutShort
<1>13. Errors'
  <2>1. \A i \in DOMAIN surfaced : surfaced[i] \in Batches /\ fut'[surfaced[i]] = "raised"
                                   /\ surfaced[i] \notin {pending', awaited'}
    BY <1>0, <1>1, <1>2, <1>3 DEF IInv, Errors
  <2>2. interrupts = 0 => \A b \in Batches : fut[b] \in {"queued", "running"} \cup Failed
                            => SurfacedBatch(b)
    <3>1. \A b \in Batches : b \notin {pending, awaited}
      BY <1>1 DEF Batches
    <3> QED BY <3>1 DEF IInv, Errors
  <2>3. interrupts = 0 => \A b \in Batches' : fut'[b] \in {"queued", "running"} \cup Failed
                            => b \in {pending', awaited'} \/ SurfacedBatch(b)
    BY <1>0, <1>s, <2>2
  <2>4. surfaced' = surfaced /\ interrupts' = interrupts /\ \A b \in Batches : b \in Batches'
    BY <1>0, <1>2
  <2>5. \A i, j \in DOMAIN surfaced : surfaced[i] = surfaced[j] => i = j
    BY DEF IInv, Errors
  <2> QED BY <2>1, <2>3, <2>4, <2>5 DEF Errors, SurfacedBatch
<1> QED BY <1>4, <1>5, <1>6, <1>7, <1>8, <1>9, <1>10, <1>11, <1>12, <1>13
       DEF IInv, WorkerPart

-----------------------------------------------------------------------------
(* The invariant, and what follows from it.                                *)

\* Before the first call nothing is buffered, dispatched or recorded.
LEMMA Initially == Init => IInv
<1> SUFFICES ASSUME Init PROVE IInv
  OBVIOUS
<1>1. Batches = {} /\ Len(ends) = 0 /\ DOMAIN records = {} /\ DOMAIN surfaced = {}
  BY DEF Init, Batches
<1>2. TypeOK
  <2>1. /\ ends \in Seq(Entries) /\ Len(fut) = Len(ends)
           /\ fut \in Seq({"queued", "running"} \cup Ended)
        /\ records \in Seq([entry : Entries, outcome : {"succeeded", "failed"}])
        /\ surfaced \in Seq(Nat)
    BY DEF Init
  <2>2. result \in [Entries -> {"ok", "failed"} \cup Lost]
    BY DEF Init
  <2>3. closeCall \in [flush : BOOLEAN, token : {"none", "graceful", "immediate"}]
    BY DEF Init
  <2>4. abandoned \in BOOLEAN /\ escaped \in BOOLEAN /\ boom \in BOOLEAN
    BY DEF Init
  <2>5. /\ submitted \in 0 .. NumEntries /\ dispatched \in 0 .. submitted
        /\ pending \in 0 .. Len(ends) /\ awaited \in 0 .. Len(ends)
        /\ interrupts \in 0 .. MaxFaults /\ raises \in 0 .. MaxFaults /\ next \in Nat
    BY <1>1 DEF Init
  <2> QED BY <2>1, <2>2, <2>3, <2>4, <2>5 DEF Init, TypeOK
<1>3. CallerOK /\ BatchesOK /\ QueueOK
  BY <1>1 DEF Init, CallerOK, BatchesOK, QueueOK
<1>4. WorkerPart
  BY <1>1 DEF Init, WorkerPart, WorkerOK, Evidence, RecordsOK, RecordsInOrder, NoFalseSuccess,
         Recorded
<1>5. Reasons /\ Errors
  BY <1>1 DEF Init, Reasons, Errors
<1> QED BY <1>2, <1>3, <1>4, <1>5 DEF IInv

\* Every step of the caller, the worker, its pool and the cancelling party keeps it.
LEMMA Inductive == IInv /\ [Next]_vars => IInv'
<1> SUFFICES ASSUME IInv, [Next]_vars PROVE IInv'
  OBVIOUS
<1>1. CASE Submit \/ Flush \/ \E flush \in BOOLEAN : Close(flush)
  BY <1>1, SubmitKeeps, FlushKeeps, CloseKeeps
<1>2. CASE CallerStep
  BY <1>2, FlushLoopKeeps, RecheckKeeps, DispatchKeeps, CancelQueuedKeeps, WaitReturnsKeeps, ShutdownKeeps
     DEF CallerStep
<1>3. CASE InterruptWait \/ InterruptShutdown
  BY <1>3, InterruptWaitKeeps, InterruptShutdownKeeps
<1>4. CASE Worker
  <2>1. CASE Take \/ RequestFails \/ RequestRaises \/ RequestAnswers
    BY <2>1, TakeKeeps, RequestFailsKeeps, RequestRaisesKeeps, RequestAnswersKeeps
  <2>2. CASE \E e \in Entries : SendStart(e) \/ SendEnd(e)
    BY <2>2, SendStartKeeps, SendEndKeeps
  <2>3. CASE PoolEnds \/ Record \/ BatchEnds
    BY <2>3, PoolEndsKeeps, RecordKeeps, BatchEndsKeeps
  <2> QED BY <1>4, <2>1, <2>2, <2>3 DEF Worker
<1>5. CASE \E mode \in {"graceful", "immediate"} : Cancel(mode)
  BY <1>5, CancelKeeps
<1>6. CASE Poll \/ Finished \/ UNCHANGED vars
  BY <1>6, StutterKeeps DEF Poll, Finished, Stutter
<1> QED BY <1>1, <1>2, <1>3, <1>4, <1>5, <1>6 DEF Next

\* The inductive invariant holds in every reachable state.
LEMMA Invariance == SafeSpec => []IInv
<1> QED
  BY Initially, Inductive, PTL DEF SafeSpec

\* The types: the buffer, the batches cut off it and the futures fit together.
THEOREM DeleterTyped == SafeSpec => []TypeOK
<1>1. IInv => TypeOK
  BY DEF IInv
<1> QED
  BY <1>1, Invariance, PTL

\* on_result gets its records in the order of submission, and none twice.
THEOREM RecordsComeInOrder == SafeSpec => []RecordsInOrder
<1>1. IInv => RecordsInOrder
  BY DEF IInv, WorkerPart
<1> QED
  BY <1>1, Invariance, PTL

\* A record of success is never invented.
THEOREM SuccessIsTrue == SafeSpec => []NoFalseSuccess
<1>1. IInv => NoFalseSuccess
  BY DEF IInv, WorkerPart
<1> QED
  BY <1>1, Invariance, PTL

\* Once closed, every entry is recorded or accounted for.
THEOREM CloseAccounts == SafeSpec => []ClosedAccountsForAll
<1>1. ASSUME IInv, cpc = "closed", ~escaped, NEW e \in 1 .. submitted
      PROVE  \/ \E i \in DOMAIN records : records[i].entry = e
             \/ e > dispatched /\ (Cancelled \/ CutShort)
             \/ e <= dispatched /\
                  \/ fut[BatchOf(e)] \in Failed
                  \/ fut[BatchOf(e)] = "cancelled" /\ token = "immediate"
                  \/ fut[BatchOf(e)] = "done" /\ result[e] = "dropped" /\ ~posture.crt
                  \/ fut[BatchOf(e)] = "done" /\ result[e] = "skipped" /\ CutShort
  <2>0. e \in Entries /\ e \in Nat /\ dispatched \in Nat /\ submitted \in Nat
    BY <1>1 DEF IInv, TypeOK
  <2>1. CASE e > dispatched
    BY <1>1, <2>0, <2>1 DEF IInv, Reasons
  <2>2. CASE e <= dispatched
    <3>1. \E b \in Batches : e \in Batch(b)
      BY <1>1, <2>0, <2>2 DEF IInv, BatchesOK
    <3>2. BatchOf(e) \in Batches /\ e \in Batch(BatchOf(e))
      BY <3>1 DEF BatchOf
    <3>3. fut[BatchOf(e)] \in Ended
      BY <1>1, <3>2 DEF IInv, CallerOK
    <3>4. CASE fut[BatchOf(e)] = "done"
      <4>1. Settled(e)
        BY <1>1, <3>2, <3>4 DEF IInv, WorkerPart, Recorded
      <4> QED BY <1>1, <2>0, <2>2, <3>4, <4>1 DEF Settled, IInv, Reasons
    <3>5. CASE fut[BatchOf(e)] = "cancelled"
      BY <1>1, <2>2, <3>2, <3>5 DEF IInv, QueueOK
    <3> QED BY <2>2, <3>3, <3>4, <3>5
  <2> QED BY <2>0, <2>1, <2>2
<1>2. IInv => ClosedAccountsForAll
  BY <1>1 DEF ClosedAccountsForAll
<1> QED
  BY <1>2, Invariance, PTL

\* What the worker raised reaches the caller, and reaches it once.
THEOREM ErrorSurfacesOnce == SafeSpec => []WorkerErrorSurfacesOnce
<1>1. ASSUME IInv PROVE WorkerErrorSurfacesOnce
  <2>1. cpc = "closed" => \A b \in Batches : b \notin {pending, awaited}
    BY <1>1 DEF IInv, CallerOK, Batches
  <2> QED BY <1>1, <2>1 DEF IInv, Errors, SurfacedBatch, WorkerErrorSurfacesOnce
<1> QED
  BY <1>1, Invariance, PTL

-----------------------------------------------------------------------------
(* The refinement of DeleteLedger, under the mapping of Deleter.           *)

\* How the ledger sees the run.
Cut == IF interrupts > 0 THEN "interrupted"
       ELSE IF surfaced # << >> \/ (~closeCall.flush /\ closeCall.token # "graceful")
            THEN "short" ELSE "no"
End == IF cpc # "closed" THEN "open" ELSE IF escaped THEN "broken" ELSE "closed"
Cleared == cpc = "slice"

\* What became of an entry that is in flight no more.
Past(e) == IF Reported(e, "succeeded") THEN "succeeded"
           ELSE IF Reported(e, "failed") THEN "failed"
           ELSE IF result[e] = "dropped" THEN "lost" ELSE "void"

\* What the ledger tells of an entry, by where the deleter has it.
StageTold(e) ==
  /\ e > submitted <=> Stage(e) = "unseen"
  /\ e \in dispatched + 1 .. submitted <=> Stage(e) = "buffered"
  /\ e <= dispatched /\ Out(e) <=> Stage(e) = "out"
  /\ e <= dispatched /\ ~Out(e) => Stage(e) = Past(e)
  /\ Past(e) \in {"succeeded", "failed", "lost", "void"}

\* The stage of an entry is the one the buffer, its batch and the records tell.
LEMMA StageIs == ASSUME IInv, NEW e \in Entries PROVE StageTold(e)
<1>1. submitted \in Nat /\ dispatched \in Nat /\ dispatched <= submitted /\ e \in Nat
  BY DEF IInv, TypeOK
<1>2. Past(e) \in {"succeeded", "failed", "lost", "void"}
  BY DEF Past
<1>3. Stage(e) = IF e > submitted THEN "unseen"
                 ELSE IF e > dispatched THEN "buffered"
                 ELSE IF Out(e) THEN "out" ELSE Past(e)
  BY <1>1 DEF Stage, Past
<1> QED BY <1>1, <1>2, <1>3 DEF StageTold

\* And so after a step.
LEMMA StageBecomes == ASSUME IInv', NEW e \in Entries PROVE StageTold(e)'
<1>1. submitted' \in Nat /\ dispatched' \in Nat /\ dispatched' <= submitted' /\ e \in Nat
  BY DEF IInv, TypeOK
<1>2. Past(e)' \in {"succeeded", "failed", "lost", "void"}
  BY DEF Past
<1>3. Stage(e)' = IF e > submitted' THEN "unseen"
                  ELSE IF e > dispatched' THEN "buffered"
                  ELSE IF Out(e)' THEN "out" ELSE Past(e)'
  BY <1>1 DEF Stage, Past
<1> QED BY <1>1, <1>2, <1>3 DEF StageTold, Past, Out, Stage

\* An entry is in flight while its batch is queued, or running and not past it.
LEMMA OutOf ==
  ASSUME IInv, NEW b \in Batches, NEW e \in Batch(b)
  PROVE  Out(e) <=> (fut[b] = "queued" \/ (fut[b] = "running" /\ e >= next))
BY Disjoint DEF Out

\* No record is of an entry in flight, which lies within what was dispatched.
LEMMA OutUnreported ==
  ASSUME IInv, NEW e \in Entries, Out(e)
  PROVE  e <= dispatched /\ ~Reported(e, "succeeded") /\ ~Reported(e, "failed")
<1>1. PICK b \in Batches :
        e \in Batch(b) /\ (fut[b] = "queued" \/ (fut[b] = "running" /\ e >= next))
  BY DEF Out
<1>t. dispatched \in Nat /\ next \in Nat
  BY DEF IInv, TypeOK
<1>d. /\ ends[b] \in Entries /\ First(b) \in Entries /\ ends[b] <= dispatched
  BY Disjoint
<1>2. e <= ends[b] /\ First(b) <= e /\ e <= dispatched
  BY <1>1, <1>t, <1>d DEF Batch
<1>3. \A i \in DOMAIN records : records[i].entry \in Entries /\ records[i].entry # e
  BY <1>1, <1>2, <1>t, <1>d, RecordTyped DEF IInv, WorkerPart, RecordsOK
<1> QED BY <1>2, <1>3 DEF Reported

\* An entry keeps its stage as long as it stays in flight, or out of it.
LEMMA StageStays ==
  ASSUME IInv, IInv', NEW e \in Entries, UNCHANGED <<submitted, dispatched, records>>,
         Out(e)' <=> Out(e), ~Out(e) => result'[e] = result[e]
  PROVE  Stage(e)' = Stage(e)
<1>1. StageTold(e) /\ StageTold(e)'
  BY StageIs, StageBecomes DEF StageTold
<1>2. ~Out(e) => Past(e)' = Past(e)
  BY DEF Past, Reported
<1>3. submitted \in Nat /\ dispatched \in Nat
  BY DEF IInv, TypeOK
<1> QED BY <1>1, <1>2, <1>3 DEF StageTold

\* Nothing the ledger sees changes: it stutters.
LEMMA Stands ==
  ASSUME \A e \in Entries : Stage(e)' = Stage(e), UNCHANGED <<fixed, token, gone>>,
         Cleared' = Cleared, Cut' = Cut, End' = End
  PROVE  UNCHANGED Ledger!vars
BY DEF Ledger!vars, Ledger!fixed, Cleared, Cut, End

\* Entries leave flight, and at most the first of them with a record that is true.
LEMMA Settles ==
  ASSUME IInv, IInv', UNCHANGED <<fixed, token, gone, result, submitted, dispatched>>,
         Cleared' = Cleared, Cut' = Cut, End' = End, End # "closed",
         \A e \in Entries : Out(e)' => Out(e),
         \A e \in Entries : \A o \in {"succeeded", "failed"} :
           /\ Reported(e, o) => Reported(e, o)'
           /\ Reported(e, o)' /\ ~Reported(e, o) =>
                /\ Out(e) /\ \A d \in 1 .. e - 1 : ~Out(d)
                /\ o = "succeeded" => keyOf[e] \in gone
  PROVE  Ledger!Next
<1>1. \A e \in Entries : Stage(e)' # Stage(e) =>
        /\ Out(e) /\ ~Out(e)' /\ Stage(e) = "out" /\ Stage(e)' = Past(e)'
        /\ Past(e)' \in {"succeeded", "failed", "lost", "void"}
  <2> SUFFICES ASSUME NEW e \in Entries, Stage(e)' # Stage(e)
               PROVE  /\ Out(e) /\ ~Out(e)' /\ Stage(e) = "out" /\ Stage(e)' = Past(e)'
                      /\ Past(e)' \in {"succeeded", "failed", "lost", "void"}
    OBVIOUS
  <2>1. StageTold(e) /\ StageTold(e)'
    BY StageIs, StageBecomes DEF StageTold
  <2>n. submitted \in Nat /\ dispatched \in Nat
    BY DEF IInv, TypeOK
  <2>2. ~Out(e) => ~Out(e)' /\ Past(e)' = Past(e)
    BY DEF Past
  <2>3. Out(e)
    BY <2>1, <2>n, <2>2 DEF StageTold
  <2> QED BY <2>1, <2>n, <2>3, OutUnreported DEF StageTold
<1>2. \A e \in Entries : Stage(e) = "out" => Out(e)
  BY StageIs DEF StageTold
<1>3. \A e \in Entries : Stage(e)' \in {"succeeded", "failed"} /\ Stage(e)' # Stage(e) =>
        /\ \A d \in 1 .. e - 1 : d \in Entries => Stage(d) # "out"
        /\ Stage(e)' = "succeeded" => keyOf[e] \in gone
  <2> SUFFICES ASSUME NEW e \in Entries, Stage(e)' \in {"succeeded", "failed"},
                      Stage(e)' # Stage(e)
               PROVE  /\ \A d \in 1 .. e - 1 : d \in Entries => Stage(d) # "out"
                      /\ Stage(e)' = "succeeded" => keyOf[e] \in gone
    OBVIOUS
  <2>1. Out(e) /\ Past(e)' = Stage(e)'
    BY <1>1
  <2>2. PICK o \in {"succeeded", "failed"} : o = Stage(e)'
    OBVIOUS
  <2>3. Reported(e, o)'
    BY <2>1, <2>2 DEF Past
  <2>4. ~Reported(e, o)
    BY <2>1, OutUnreported
  <2> QED BY <1>2, <2>2, <2>3, <2>4
<1>4. \A e \in Entries : Stage(e)' = "lost" /\ Stage(e)' # Stage(e) => ~posture.crt
  BY <1>1 DEF Past, IInv, Reasons
<1>5. Ledger!Settle
  <2>1. \A e \in Entries : Stage(e)' \in Ledger!Stages
    <3>1. \A e \in Entries : StageTold(e)'
      BY StageBecomes DEF StageTold
    <3>2. submitted' \in Nat /\ dispatched' \in Nat
      BY DEF IInv, TypeOK
    <3> QED BY <3>1, <3>2 DEF StageTold, Ledger!Stages, Ledger!Reported, Ledger!Unreported
  <2>2. [e \in Entries |-> Stage(e)'] \in [Ledger!Entries -> Ledger!Stages]
    BY <2>1 DEF Ledger!Entries
  <2>3. Ledger!Changed = {e \in Entries : Stage(e)' # Stage(e)}
    BY DEF Ledger!Changed, Ledger!Entries
  <2>4. Ledger!Told = {e \in Entries : Stage(e)' # Stage(e)
                                       /\ Stage(e)' \in {"succeeded", "failed"}}
    BY <2>3 DEF Ledger!Told, Ledger!Reported
  <2>5. \A e \in Ledger!Told : Ledger!Before(e) \cap Ledger!At("out") = {}
    BY <1>3, <2>4 DEF Ledger!Before, Ledger!At, Ledger!Entries
  <2> QED BY <1>1, <1>3, <1>4, <2>2, <2>3, <2>4, <2>5
         DEF Ledger!Settle, Ledger!fixed, Ledger!Reported, Ledger!Unreported, Cleared, Cut, End
<1> QED BY <1>5 DEF Ledger!Next, End

\* The ledger's initial states.
LEMMA LedgerInit == Init => Ledger!Init
<1> SUFFICES ASSUME Init PROVE Ledger!Init
  OBVIOUS
<1>1. keyOf \in [Entries -> Keys] /\ posture.crt \in BOOLEAN
  BY DEF Init
<1>2. \A e \in Entries : Stage(e) = "unseen"
  BY DEF Init, Stage
<1> QED BY <1>1, <1>2 DEF Init, Ledger!Init, Ledger!Entries

\* Out only depends on the batches, their futures and how far the worker got.
LEMMA OutSame ==
  ASSUME UNCHANGED <<ends, fut, next>>
  PROVE  \A e \in Entries : Out(e)' <=> Out(e)
BY SameBatches DEF Out

\* As long as the buffer, the batches and the records stay, every entry does.
LEMMA StagesStay ==
  ASSUME IInv, IInv', UNCHANGED <<submitted, dispatched, ends, fut, next, records, result>>
  PROVE  \A e \in Entries : Stage(e)' = Stage(e)
BY OutSame, StageStays

\* A submitted entry is accepted, in its turn.
LEMMA SubmitAccepts == ASSUME IInv, IInv', Submit PROVE Ledger!Next
<1> DEFINE e0 == submitted + 1
<1>1. /\ cpc = "idle" /\ e0 \in Entries /\ submitted' = e0
      /\ submitted \in Nat /\ dispatched \in Nat /\ dispatched <= submitted
      /\ cpc' \in {"idle", "flush"}
      /\ UNCHANGED <<fixed, token, dispatched, interrupts, ends, fut, next, records, result,
                     gone, history>>
  BY DEF Submit, IInv, TypeOK
<1>2. \A e \in Entries : Stage(e)' = IF e = e0 THEN "buffered" ELSE Stage(e)
  <2> SUFFICES ASSUME NEW e \in Entries
               PROVE  Stage(e)' = IF e = e0 THEN "buffered" ELSE Stage(e)
    OBVIOUS
  <2>1. StageTold(e) /\ StageTold(e)'
    BY StageIs, StageBecomes DEF StageTold
  <2>2. (Out(e)' <=> Out(e)) /\ Past(e)' = Past(e)
    BY <1>1, OutSame DEF Past, Reported
  <2> QED BY <1>1, <2>1, <2>2 DEF StageTold
<1>3. \A e \in Entries : Stage(e) = "unseen" <=> e > submitted
  BY StageIs DEF StageTold
<1>4. Ledger!At("unseen") = {e \in Entries : e > submitted}
  BY <1>3 DEF Ledger!At, Ledger!Entries
<1>5. e0 \in Ledger!At("unseen") /\ Ledger!Before(e0) \cap Ledger!At("unseen") = {}
  BY <1>1, <1>4 DEF Ledger!Before
<1>6. Ledger!Moves({e0}, "buffered")
  BY <1>2 DEF Ledger!Moves, Ledger!Entries
<1>7. Ledger!Accept
  BY <1>1, <1>5, <1>6 DEF Ledger!Accept, Ledger!fixed, Cleared
<1> QED BY <1>1, <1>7 DEF Ledger!Next

\* A batch is handed over: the head of the buffer, with no other in flight unless an
\* interrupt broke the wait for it.
LEMMA DispatchHandsOver == ASSUME IInv, IInv', Dispatch PROVE Ledger!Next
<1> DEFINE new == Len(ends')
<1>1. /\ cpc = "slice" /\ cpc' = "flush" /\ ends' = Append(ends, dispatched')
      /\ dispatched' = Smaller(dispatched + BatchSize, submitted)
      /\ fut' = Append(fut, "queued")
      /\ UNCHANGED <<fixed, token, submitted, interrupts, next, result, gone, records, history>>
  BY DEF Dispatch
<1>2. /\ dispatched' \in Entries /\ dispatched < dispatched' /\ dispatched' <= submitted
      /\ dispatched \in Nat /\ submitted \in Nat /\ dispatched' <= dispatched + BatchSize
      /\ pending = 0 /\ awaited = 0
  BY <1>1 DEF IInv, TypeOK, CallerOK, Smaller
<1>3. /\ Batches' = Batches \cup {new} /\ new \notin Batches /\ new \in Batches'
      /\ \A b \in Batches : Batch(b)' = Batch(b)
      /\ \A b \in Batches' : b = new => Batch(b)' = dispatched + 1 .. dispatched'
      /\ Len(ends') = Len(ends) + 1 /\ Len(ends) \in Nat
  BY <1>1, <1>2, NewBatch
<1>4. /\ \A b \in Batches : fut'[b] = fut[b]
      /\ fut'[new] = "queued"
  <2>1. fut \in Seq({"queued", "running"} \cup Ended) /\ Len(fut) = Len(ends)
    BY DEF IInv, TypeOK
  <2> QED BY <1>1, <1>3, <2>1, AppendProperties DEF Batches
<1> HIDE DEF new
<1>5. \A e \in Entries : e \in dispatched + 1 .. dispatched' => Out(e)'
  <2> SUFFICES ASSUME NEW e \in Entries, e \in dispatched + 1 .. dispatched' PROVE Out(e)'
    OBVIOUS
  <2>1. PICK b \in Batches' : b = new
    BY <1>3
  <2>2. e \in Batch(b)' /\ fut'[b] = "queued"
    BY <1>3, <1>4, <2>1
  <2> QED BY <2>2 DEF Out
<1>6. \A e \in Entries : e <= dispatched => (Out(e)' <=> Out(e))
  <2> SUFFICES ASSUME NEW e \in Entries, e <= dispatched PROVE Out(e)' <=> Out(e)
    OBVIOUS
  <2>1. \A b \in Batches' : e \in Batch(b)' => b \in Batches
    BY <1>2, <1>3
  <2>2. \A b \in Batches : b \in Batches' /\ fut'[b] = fut[b] /\ Batch(b)' = Batch(b)
    BY <1>3, <1>4
  <2> QED BY <1>1, <2>1, <2>2 DEF Out
<1>7. \A e \in Entries :
        Stage(e)' = IF e \in dispatched + 1 .. dispatched' THEN "out" ELSE Stage(e)
  <2> SUFFICES ASSUME NEW e \in Entries
               PROVE  Stage(e)' = IF e \in dispatched + 1 .. dispatched' THEN "out" ELSE Stage(e)
    OBVIOUS
  <2>1. StageTold(e) /\ StageTold(e)'
    BY StageIs, StageBecomes DEF StageTold
  <2>2. Past(e)' = Past(e)
    BY <1>1 DEF Past, Reported
  <2>3. /\ e <= dispatched => (Out(e)' <=> Out(e))
        /\ e \in dispatched + 1 .. dispatched' => Out(e)'
    BY <1>5, <1>6
  <2> QED BY <1>1, <1>2, <2>1, <2>2, <2>3 DEF StageTold
<1>8. Ledger!At("buffered") = {e \in Entries : e \in dispatched + 1 .. submitted}
  BY StageIs DEF StageTold, Ledger!At, Ledger!Entries
<1>9. /\ dispatched' \in Ledger!At("buffered")
      /\ Ledger!At("buffered") \cap 1 .. dispatched' = dispatched + 1 .. dispatched'
  BY <1>2, <1>8
<1>10. \A e \in dispatched + 1 .. dispatched' : dispatched' < e + BatchSize
  BY <1>2
<1>11. Ledger!Moves(dispatched + 1 .. dispatched', "out")
  BY <1>7 DEF Ledger!Moves, Ledger!Entries
<1>12. Ledger!At("out") = {} \/ Cut = "interrupted"
  <2>1. CASE interrupts = 0
    <3>1. \A b \in Batches : fut[b] \notin {"queued", "running"}
      <4>1. \A b \in Batches : b \notin {pending, awaited}
        BY <1>2 DEF Batches
      <4> QED BY <2>1, <4>1 DEF IInv, Errors, SurfacedBatch
    <3>2. \A e \in Entries : ~Out(e)
      BY <3>1 DEF Out
    <3> QED BY <3>2, StageIs DEF StageTold, Ledger!At, Ledger!Entries
  <2>2. CASE interrupts # 0
    BY <2>2 DEF Cut, IInv, TypeOK
  <2> QED BY <2>1, <2>2
<1>13. Ledger!HandOver
  BY <1>1, <1>9, <1>10, <1>11, <1>12 DEF Ledger!HandOver, Ledger!fixed, Cut
<1> QED BY <1>1, <1>13 DEF Ledger!Next

\* The caller's steps that neither accept nor hand over leave every entry where it is,
\* but for a batch cancelled in the queue.
LEMMA CancelGivesUp == ASSUME IInv, IInv', CancelQueued PROVE Ledger!Next
<1>1. /\ awaited \in Batches /\ fut[awaited] = "queued" /\ cpc # "closed"
      /\ fut'[awaited] = "cancelled" /\ \A b \in Batches : b # awaited => fut'[b] = fut[b]
      /\ UNCHANGED <<fixed, token, callerVars, ends, workerVars, gone, records, history>>
  BY DEF IInv, TypeOK, CallerOK, Batches, CancelQueued
<1>2. \A e \in Entries : Out(e)' => Out(e)
  BY <1>1, SameBatches DEF Out
<1>3. \A e \in Entries, o \in {"succeeded", "failed"} : Reported(e, o)' <=> Reported(e, o)
  BY <1>1 DEF Reported
<1>4. Cleared' = Cleared /\ Cut' = Cut /\ End' = End /\ End # "closed"
  BY <1>1 DEF Cleared, Cut, End
<1> QED BY <1>1, <1>2, <1>3, <1>4, Settles

\* The exception a caller gets, an interrupt or an abandoning close cuts the run short;
\* nothing else changes what cut it.
LEMMA CutMoves ==
  ASSUME IInv, IInv', \A e \in Entries : Stage(e)' = Stage(e), UNCHANGED <<fixed, token, gone>>,
         End = "open", End' = "open", Cleared' = Cleared,
         Cut' = Cut \/ Cut' = "interrupted" \/ (Cut = "no" /\ Cut' = "short")
  PROVE  [Ledger!Next]_(Ledger!vars)
<1>1. CASE Cut' = Cut
  BY <1>1, Stands
<1>2. CASE Cut' = "interrupted" \/ (Cut = "no" /\ Cut' = "short")
  <2>1. Ledger!CutShort
    BY <1>2 DEF Ledger!CutShort, Ledger!fixed, Cleared, Cut, End
  <2> QED BY <2>1 DEF Ledger!Next, End
<1> QED BY <1>1, <1>2

\* A close tells the ledger no more than whether it abandons the run.
LEMMA CloseCuts ==
  ASSUME IInv, IInv', NEW flush \in BOOLEAN, Close(flush) PROVE [Ledger!Next]_(Ledger!vars)
<1>1. /\ cpc = "idle" /\ cpc' \notin {"slice", "closed"}
      /\ UNCHANGED <<fixed, token, submitted, dispatched, interrupts, ends, fut, workerVars, gone,
                     records, surfaced, escaped>>
  BY DEF Close, TakePending
<1>2. \A e \in Entries : Stage(e)' = Stage(e)
  BY <1>1, StagesStay
<1>3. closeCall.flush
  BY <1>1 DEF IInv, CallerOK
<1>4. Cut' = Cut \/ (Cut = "no" /\ Cut' = "short")
  BY <1>1, <1>3 DEF Cut
<1>5. End = "open" /\ End' = "open" /\ Cleared' = Cleared
  BY <1>1 DEF End, Cleared
<1> QED BY <1>1, <1>2, <1>4, <1>5, CutMoves

\* A wait that ends, or is broken off, tells of an exception at most.
LEMMA WaitCuts ==
  ASSUME IInv, IInv', WaitReturns \/ InterruptWait PROVE [Ledger!Next]_(Ledger!vars)
<1>1. /\ cpc \notin {"slice", "closed"} /\ cpc' \notin {"slice", "closed"}
      /\ UNCHANGED <<fixed, token, submitted, dispatched, ends, fut, workerVars, gone,
                     records, closeCall, escaped>>
  BY DEF WaitReturns, InterruptWait, Throw
<1>2. \A e \in Entries : Stage(e)' = Stage(e)
  BY <1>1, StagesStay
<1>3. End = "open" /\ End' = "open" /\ Cleared' = Cleared
  BY <1>1 DEF End, Cleared
<1>4. CASE WaitReturns
  <2>1. UNCHANGED interrupts /\ (surfaced' = surfaced \/ surfaced' = Append(surfaced, awaited))
    BY <1>4 DEF WaitReturns
  <2>2. surfaced \in Seq(Nat) /\ awaited \in Nat
    BY DEF IInv, TypeOK
  <2>3. Append(surfaced, awaited) # << >>
    BY <2>2
  <2>4. Cut' = Cut \/ (Cut = "no" /\ Cut' = "short")
    BY <1>1, <2>1, <2>3 DEF Cut
  <2> QED BY <1>1, <1>2, <1>3, <2>4, CutMoves
<1>5. CASE InterruptWait
  <2>1. interrupts' > 0
    BY <1>5 DEF InterruptWait, IInv, TypeOK
  <2>2. Cut' = "interrupted"
    BY <2>1 DEF Cut
  <2> QED BY <1>1, <1>2, <1>3, <2>2, CutMoves
<1> QED BY <1>4, <1>5

\* A deleter that closes has nothing in flight, and a reason for what it gave up.
LEMMA ShutdownCloses == ASSUME IInv, IInv', Shutdown PROVE Ledger!Next
<1>1. /\ cpc = "shutdown" /\ cpc' = "closed" /\ ~escaped /\ ~escaped'
      /\ \A b \in Batches : fut[b] \in Ended
      /\ UNCHANGED <<fixed, token, submitted, dispatched, interrupts, ends, fut, next, result, gone,
                     records, history>>
      /\ pending = 0 /\ awaited = 0
  BY DEF Shutdown, IInv, CallerOK
<1>2. \A e \in Entries : Stage(e)' = Stage(e)
  BY <1>1, StagesStay
<1>3. \A e \in Entries : ~Out(e)
  BY <1>1 DEF Out
<1>4. Ledger!At("out") = {}
  BY <1>3, StageIs DEF StageTold, Ledger!At, Ledger!Entries
<1>5. CutShort \/ Cancelled => token # "none" \/ Cut # "no"
  BY DEF CutShort, Cut
<1>6. CutShort => token = "immediate" \/ Cut # "no"
  BY DEF CutShort, Cut
<1>7. Ledger!At("buffered") # {} => token # "none" \/ Cut # "no"
  <2> SUFFICES ASSUME NEW e \in Entries, Stage(e) = "buffered" PROVE token # "none" \/ Cut # "no"
    BY DEF Ledger!At, Ledger!Entries
  <2>1. e \in dispatched + 1 .. submitted
    BY StageIs DEF StageTold
  <2>2. dispatched < submitted
    BY <2>1 DEF IInv, TypeOK
  <2> QED BY <1>1, <1>5, <2>2 DEF IInv, Reasons
<1>8. Ledger!At("void") # {} => token = "immediate" \/ Cut # "no"
  <2> SUFFICES ASSUME NEW e \in Entries, Stage(e) = "void"
               PROVE  token = "immediate" \/ Cut # "no"
    BY DEF Ledger!At, Ledger!Entries
  <2>1. e \in Nat /\ dispatched \in Nat /\ submitted \in Nat /\ dispatched <= submitted
    BY DEF IInv, TypeOK
  <2>2. e \in 1 .. dispatched
    BY <2>1, StageIs DEF StageTold
  <2>3. PICK b \in Batches : e \in Batch(b)
    BY <2>2 DEF IInv, BatchesOK
  <2>4. Past(e) = "void"
    BY <1>3, <2>1, <2>2, StageIs DEF StageTold
  <2>5. CASE fut[b] = "done"
    <3>1. Settled(e)
      BY <2>3, <2>5 DEF IInv, WorkerPart, Recorded
    <3>2. \A i \in DOMAIN records : records[i].outcome \in {"succeeded", "failed"}
      BY RecordTyped
    <3>3. \A i \in DOMAIN records : records[i].entry # e
      BY <2>4, <3>2 DEF Past, Reported
    <3>4. result[e] = "skipped"
      BY <2>4, <3>1, <3>3 DEF Settled, Past
    <3> QED BY <1>6, <3>4 DEF IInv, Reasons
  <2>6. CASE fut[b] = "cancelled"
    BY <2>6 DEF IInv, QueueOK
  <2>7. CASE fut[b] \in Failed
    <3>1. interrupts = 0 => b \in {pending, awaited} \/ SurfacedBatch(b)
      BY <2>7 DEF IInv, Errors
    <3>2. b \notin {pending, awaited}
      BY <1>1 DEF Batches
    <3>3. interrupts = 0 => surfaced # << >>
      BY <3>1, <3>2 DEF SurfacedBatch
    <3> QED BY <3>3 DEF Cut, IInv, TypeOK
  <2> QED BY <1>1, <2>5, <2>6, <2>7
<1>9. Ledger!Close
  BY <1>1, <1>2, <1>4, <1>7, <1>8 DEF Ledger!Close, Ledger!fixed, Cleared, Cut
<1> QED BY <1>1, <1>9 DEF Ledger!Next

\* The last wait broken: the worker is left behind.
LEMMA ShutdownBreaks == ASSUME IInv, IInv', InterruptShutdown PROVE Ledger!Next
<1>1. /\ cpc = "shutdown" /\ cpc' = "closed" /\ escaped' /\ interrupts' > 0
      /\ UNCHANGED <<fixed, token, submitted, dispatched, ends, fut, next, result, gone, records>>
  BY DEF InterruptShutdown, IInv, TypeOK
<1>2. \A e \in Entries : Stage(e)' = Stage(e)
  BY <1>1, StagesStay
<1>3. Ledger!BreakOff
  BY <1>1, <1>2 DEF Ledger!BreakOff, Ledger!fixed, Cleared
<1> QED BY <1>1, <1>3 DEF Ledger!Next

\* The token escalates while the run goes on.
LEMMA CancelCancels ==
  ASSUME IInv, IInv', NEW mode \in {"graceful", "immediate"}, Cancel(mode) PROVE Ledger!Next
<1>1. /\ token' = mode /\ (mode = "graceful" => token = "none")
      /\ ~(cpc = "closed" /\ wpc = "idle")
      /\ UNCHANGED <<fixed, callerVars, ends, fut, workerVars, gone, records, history>>
  BY DEF Cancel
<1>2. \A e \in Entries : Stage(e)' = Stage(e)
  BY <1>1, StagesStay
<1>3. cpc = "closed" => escaped
  BY <1>1 DEF IInv, CallerOK, QueueOK
<1>4. Ledger!Cancel
  BY <1>1, <1>2 DEF Ledger!Cancel, Ledger!fixed, Cleared
<1> QED BY <1>3, <1>4 DEF Ledger!Next

\* The caller changes nothing the ledger sees.
LEMMA CallerStands ==
  ASSUME IInv, IInv', cpc \notin {"slice", "closed"}, cpc' \notin {"slice", "closed"},
         UNCHANGED <<fixed, token, submitted, dispatched, interrupts, ends, fut, next, result, gone,
                     records, history>>
  PROVE  UNCHANGED Ledger!vars
<1>1. \A e \in Entries : Stage(e)' = Stage(e)
  BY StagesStay
<1>2. Cleared' = Cleared /\ Cut' = Cut /\ End' = End
  BY DEF Cleared, Cut, End
<1> QED BY <1>1, <1>2, Stands

\* The token is read for the next batch.
LEMMA RecheckClears == ASSUME IInv, IInv', Recheck PROVE [Ledger!Next]_(Ledger!vars)
<1>1. /\ cpc = "dispatch" /\ cpc' # "closed"
      /\ UNCHANGED <<fixed, token, submitted, dispatched, interrupts, ends, fut, next, result,
                     gone, records, history>>
  BY DEF Recheck, FlushReturns, TakePending
<1>2. CASE cpc' = "slice"
  <2>1. token = "none"
    BY <1>2 DEF Recheck, FlushReturns, TakePending
  <2>2. \A e \in Entries : Stage(e)' = Stage(e)
    BY <1>1, StagesStay
  <2>3. Ledger!Clear
    BY <1>1, <1>2, <2>1, <2>2 DEF Ledger!Clear, Ledger!fixed
  <2> QED BY <1>1, <2>3 DEF Ledger!Next
<1>3. CASE cpc' # "slice"
  BY <1>1, <1>3, CallerStands
<1> QED BY <1>2, <1>3

\* While the worker runs a batch, the run is not over.
LEMMA WorkerOpen ==
  ASSUME IInv, wpc # "idle", UNCHANGED <<callerVars, history>>
  PROVE  End # "closed" /\ End' = End /\ Cut' = Cut /\ Cleared' = Cleared
<1>1. cpc = "closed" => escaped
  BY RunningIs DEF IInv, CallerOK
<1> QED BY <1>1 DEF End, Cut, Cleared

\* A queued batch that starts stays in flight as a whole.
LEMMA TakeStands == ASSUME IInv, IInv', Take PROVE UNCHANGED Ledger!vars
<1>1. PICK b \in Batches :
        /\ fut[b] = "queued" /\ fut' = [fut EXCEPT ![b] = "running"] /\ next' = First(b)
  BY DEF Take
<1>2. /\ wpc = "idle" /\ \A c \in Batches : fut[c] # "running"
      /\ UNCHANGED <<fixed, token, callerVars, ends, result, gone, records, history>>
  BY DEF Take, IInv, QueueOK
<1>3. fut'[b] = "running" /\ \A c \in Batches : c # b => fut'[c] = fut[c]
  <2>1. fut \in Seq({"queued", "running"} \cup Ended) /\ Len(fut) = Len(ends)
    BY DEF IInv, TypeOK
  <2> QED BY <1>1, <2>1 DEF Batches
<1>4. \A e \in Entries : Out(e)' <=> Out(e)
  <2> SUFFICES ASSUME NEW e \in Entries PROVE Out(e)' <=> Out(e)
    OBVIOUS
  <2>1. e \in Batch(b) => e >= First(b)
    BY DEF Batch
  <2>2. Out(e) => Out(e)'
    BY <1>1, <1>2, <1>3, <2>1, SameBatches DEF Out
  <2>3. Out(e)' => Out(e)
    BY <1>1, <1>2, <1>3, SameBatches DEF Out
  <2> QED BY <2>2, <2>3
<1>5. \A e \in Entries : Stage(e)' = Stage(e)
  BY <1>2, <1>4, StageStays
<1> QED BY <1>2, <1>5, Stands DEF Cleared, Cut, End

\* Before the records, all of the running batch is in flight.
LEMMA RunningIsOut ==
  ASSUME IInv, wpc \notin {"idle", "record"}
  PROVE  \A e \in Batch(Running) : e \in Entries /\ Out(e)
<1>1. Running \in Batches /\ fut[Running] = "running" /\ next = First(Running)
  BY RunningIs DEF IInv, WorkerPart, WorkerOK
<1>2. \A e \in Batch(Running) : e \in Entries /\ e >= First(Running)
  BY <1>1, Disjoint DEF Batch
<1> QED BY <1>1, <1>2 DEF Out

\* The requests of a batch, and what they answer, concern entries in flight only: their
\* keys may go.
LEMMA WorkDeletes ==
  ASSUME IInv, IInv', wpc \notin {"idle", "record"},
         UNCHANGED <<fixed, token, callerVars, ends, fut, next, records, history>>,
         \A e \in Entries : result'[e] # result[e] => e \in Batch(Running),
         NEW S \in SUBSET Batch(Running), gone' = gone \cup KeysOf(S)
  PROVE  Ledger!Next
<1>1. \A e \in Batch(Running) : e \in Entries /\ Out(e)
  BY RunningIsOut
<1>2. \A e \in Entries : Stage(e)' = Stage(e)
  BY <1>1, OutSame, StageStays
<1>3. End # "closed" /\ End' = End /\ Cut' = Cut /\ Cleared' = Cleared
  BY WorkerOpen
<1>4. S \in SUBSET Ledger!At("out")
  BY <1>1, StageIs, OutUnreported DEF StageTold, Ledger!At, Ledger!Entries
<1>5. gone' = gone \cup {keyOf[e] : e \in S}
  BY DEF KeysOf
<1>6. Ledger!Delete
  BY <1>2, <1>3, <1>4, <1>5 DEF Ledger!Delete, Ledger!fixed, Cleared, Cut, End
<1> QED BY <1>3, <1>6 DEF Ledger!Next, End

\* A pool that was joined, or a batch request that raised: the batch goes on, or gives up
\* the entries it still had in flight.
LEMMA BatchGivesUp ==
  ASSUME IInv, IInv', wpc # "idle", NEW d, d \notin {"queued", "running"},
         fut' = fut \/ fut' = [fut EXCEPT ![Running] = d],
         UNCHANGED <<fixed, token, callerVars, ends, next, result, gone, records, history>>
  PROVE  Ledger!Next
<1>0. Running \in Batches
  BY RunningIs
<1>1. \A b \in Batches : b # Running => fut'[b] = fut[b]
  <2>1. fut \in Seq({"queued", "running"} \cup Ended) /\ Len(fut) = Len(ends)
    BY DEF IInv, TypeOK
  <2> QED BY <2>1 DEF Batches
<1>2. fut'[Running] = fut[Running] \/ fut'[Running] = d
  <2>1. fut \in Seq({"queued", "running"} \cup Ended) /\ Len(fut) = Len(ends)
    BY DEF IInv, TypeOK
  <2> QED BY <1>0, <2>1 DEF Batches
<1>3. \A e \in Entries : Out(e)' => Out(e)
  BY <1>1, <1>2, SameBatches DEF Out
<1>4. \A e \in Entries, o \in {"succeeded", "failed"} : Reported(e, o)' <=> Reported(e, o)
  BY DEF Reported
<1>5. End # "closed" /\ End' = End /\ Cut' = Cut /\ Cleared' = Cleared
  BY WorkerOpen
<1> QED BY <1>3, <1>4, <1>5, Settles

\* One entry of the batch is done with: it is the first in flight, it leaves with the
\* record its result tells, or with none; a callback that raises takes the rest along.
LEMMA RecordSettles == ASSUME IInv, IInv', Record PROVE Ledger!Next
<1>1. /\ wpc = "record" /\ next \in Batch(Running) /\ next' = next + 1
      /\ UNCHANGED <<fixed, token, callerVars, ends, result, gone, history>>
      /\ Running \in Batches /\ fut[Running] = "running"
      /\ \A b \in Batches : fut[b] = "running" => b = Running
  BY RunningIs DEF Record
<1>2. next \in Entries /\ next \in Nat
  BY <1>1, Disjoint
<1>3. \/ fut' = fut
      \/ \E what \in Failed : fut' = [fut EXCEPT ![Running] = what]
  BY DEF Record, RaiseBatch
<1>4. \A b \in Batches : fut'[b] \in {"queued", "running"} => fut'[b] = fut[b]
  <2>1. fut \in Seq({"queued", "running"} \cup Ended) /\ Len(fut) = Len(ends)
    BY DEF IInv, TypeOK
  <2> QED BY <1>1, <1>3, <2>1 DEF Batches
<1>5. \A e \in Entries : Out(e)' => Out(e)
  <2> SUFFICES ASSUME NEW e \in Entries, Out(e)' PROVE Out(e)
    OBVIOUS
  <2>1. PICK b \in Batches : /\ e \in Batch(b)
                             /\ fut'[b] = "queued" \/ (fut'[b] = "running" /\ e >= next + 1)
    BY <1>1, SameBatches DEF Out
  <2> QED BY <1>2, <1>4, <2>1 DEF Out
<1>6. Out(next) /\ \A d \in Entries : d < next => ~Out(d)
  <2>1. Out(next)
    BY <1>1, <1>2, OutOf
  <2>2. ASSUME NEW d \in Entries, d < next, Out(d) PROVE FALSE
    <3>1. PICK b \in Batches :
            d \in Batch(b) /\ (fut[b] = "queued" \/ (fut[b] = "running" /\ d >= next))
      BY <2>2 DEF Out
    <3>2. fut[b] = "queued" /\ b # Running
      BY <1>1, <1>2, <2>2, <3>1
    <3>3. Running < b \/ b < Running
      BY <1>1, <3>2, Disjoint
    <3>4. ~(b < Running)
      BY <1>1, <3>2 DEF IInv, QueueOK
    <3>5. ends[Running] < First(b) /\ First(b) <= d /\ next <= ends[Running]
      <4>1. ends[Running] < First(b)
        BY <1>1, <3>3, <3>4, Disjoint
      <4>2. First(b) <= d /\ next <= ends[Running]
        BY <1>1, <3>1 DEF Batch
      <4> QED BY <4>1, <4>2
    <3>6. ends[Running] \in Entries /\ First(b) \in Entries
      BY <1>1, Disjoint
    <3> QED BY <1>2, <2>2, <3>5, <3>6
  <2> QED BY <2>1, <2>2
<1> DEFINE new == [entry |-> next,
        outcome |-> IF result[next] = "ok" THEN "succeeded" ELSE "failed"]
<1>7. records' = records \/ records' = Append(records, new)
  BY DEF Record
<1>8. /\ \A i \in DOMAIN records : i \in DOMAIN records' /\ records'[i] = records[i]
      /\ \A i \in DOMAIN records' : i \in DOMAIN records \/ records'[i] = new
  <2>1. /\ records \in Seq([entry : Entries, outcome : {"succeeded", "failed"}])
        /\ new \in [entry : Entries, outcome : {"succeeded", "failed"}]
    BY <1>2 DEF IInv, TypeOK
  <2> HIDE DEF new
  <2>2. CASE records' = records
    BY <2>2
  <2>3. CASE records' = Append(records, new)
    <3>1. /\ Len(records) \in Nat /\ Len(records') = Len(records) + 1
          /\ \A i \in 1 .. Len(records) : records'[i] = records[i]
          /\ records'[Len(records) + 1] = new
      BY <2>1, <2>3, AppendProperties
    <3>2. DOMAIN records = 1 .. Len(records) /\ DOMAIN records' = 1 .. Len(records')
      BY <2>1, <2>3
    <3> QED BY <3>1, <3>2
  <2> QED BY <1>7, <2>2, <2>3
<1>9. /\ new.entry = next
      /\ new.outcome = "succeeded" => result[next] = "ok"
  OBVIOUS
<1> HIDE DEF new
<1>10. result[next] = "ok" => keyOf[next] \in gone
  BY <1>1 DEF IInv, WorkerPart, WorkerOK, Evidence, Told
<1>11. \A e \in Entries : \A o \in {"succeeded", "failed"} :
           /\ Reported(e, o) => Reported(e, o)'
           /\ Reported(e, o)' /\ ~Reported(e, o) =>
                /\ Out(e) /\ \A d \in 1 .. e - 1 : ~Out(d)
                /\ o = "succeeded" => keyOf[e] \in gone
  <2> SUFFICES ASSUME NEW e \in Entries, NEW o \in {"succeeded", "failed"}
               PROVE  /\ Reported(e, o) => Reported(e, o)'
                      /\ Reported(e, o)' /\ ~Reported(e, o) =>
                           /\ Out(e) /\ \A d \in 1 .. e - 1 : ~Out(d)
                           /\ o = "succeeded" => keyOf[e] \in gone
    OBVIOUS
  <2>1. Reported(e, o) => Reported(e, o)'
    BY <1>8 DEF Reported
  <2>2. Reported(e, o)' /\ ~Reported(e, o) => e = next /\ new.outcome = o
    BY <1>8, <1>9 DEF Reported
  <2>3. \A d \in 1 .. next - 1 : d \in Entries /\ d < next
    BY <1>2
  <2> QED BY <1>6, <1>9, <1>10, <2>1, <2>2, <2>3
<1>12. End # "closed" /\ End' = End /\ Cut' = Cut /\ Cleared' = Cleared
  BY <1>1, WorkerOpen
<1> QED BY <1>1, <1>5, <1>11, <1>12, Settles

\* Every step of the deleter and its surroundings is a step of the ledger, or none.
LEMMA LedgerStep == IInv /\ IInv' /\ [Next]_vars => [Ledger!Next]_(Ledger!vars)
<1> SUFFICES ASSUME IInv, IInv', [Next]_vars PROVE [Ledger!Next]_(Ledger!vars)
  OBVIOUS
<1>1. CASE Submit
  BY <1>1, SubmitAccepts
<1>2. CASE Flush \/ FlushLoop
  <2>1. /\ cpc \notin {"slice", "closed"} /\ cpc' \notin {"slice", "closed"}
        /\ UNCHANGED <<fixed, token, submitted, dispatched, interrupts, ends, fut, next, result, gone,
                       records, history>>
    BY <1>2 DEF Flush, FlushLoop, FlushReturns, TakePending
  <2> QED BY <2>1, CallerStands
<1>3. CASE \E flush \in BOOLEAN : Close(flush)
  BY <1>3, CloseCuts
<1>4. CASE Recheck \/ Dispatch \/ CancelQueued \/ Shutdown \/ InterruptShutdown
  BY <1>4, RecheckClears, DispatchHandsOver, CancelGivesUp, ShutdownCloses, ShutdownBreaks
<1>5. CASE WaitReturns \/ InterruptWait
  BY <1>5, WaitCuts
<1>6. CASE \E mode \in {"graceful", "immediate"} : Cancel(mode)
  BY <1>6, CancelCancels
<1>7. CASE Take
  BY <1>7, TakeStands
<1>8. CASE RequestFails \/ RequestRaises \/ PoolEnds
  <2>1. /\ wpc # "idle"
        /\ fut' = fut \/ fut' = [fut EXCEPT ![Running] = "raised"]
        /\ UNCHANGED <<fixed, token, callerVars, ends, next, result, gone, records, history>>
    BY <1>8 DEF RequestFails, RequestRaises, PoolEnds, RaiseBatch
  <2> QED BY <2>1, BatchGivesUp
<1>9. CASE BatchEnds
  <2>1. /\ wpc # "idle"
        /\ fut' = fut \/ fut' = [fut EXCEPT ![Running] = "done"]
        /\ UNCHANGED <<fixed, token, callerVars, ends, next, result, gone, records, history>>
    BY <1>9 DEF BatchEnds
  <2> QED BY <2>1, BatchGivesUp
<1>10. CASE Record
  BY <1>10, RecordSettles
<1>11. CASE RequestAnswers
  <2>1. Running \in Batches
    BY <1>11, RunningIs DEF RequestAnswers
  <2>2. PICK answer \in [KeysOf(BatchableOf(Running)) ->
                           {"deleted", "hard", "transient", "garbled"}] :
          /\ gone' = gone \cup {k \in DOMAIN answer : answer[k] = "deleted"}
          /\ \A e \in Entries : result'[e] # result[e] => e \in BatchableOf(Running)
    BY <1>11 DEF RequestAnswers, IInv, TypeOK
  <2> DEFINE S == {e \in BatchableOf(Running) : answer[keyOf[e]] = "deleted"}
  <2>3. S \in SUBSET Batch(Running) /\ gone' = gone \cup KeysOf(S)
    BY <2>2 DEF KeysOf, BatchableOf
  <2>4. \A e \in Entries : result'[e] # result[e] => e \in Batch(Running)
    BY <2>2 DEF BatchableOf
  <2>5. /\ wpc \notin {"idle", "record"}
        /\ UNCHANGED <<fixed, token, callerVars, ends, fut, next, records, history>>
    BY <1>11 DEF RequestAnswers
  <2> HIDE DEF S
  <2> QED BY <2>3, <2>4, <2>5, WorkDeletes
<1>12. CASE \E e \in Entries : SendStart(e) \/ SendEnd(e)
  <2>1. PICK x \in Entries : SendStart(x) \/ SendEnd(x)
    BY <1>12
  <2>2. /\ UNCHANGED <<fixed, token, callerVars, ends, fut, next, records, history>>
        /\ x \in todo \cup inflight
        /\ \A e \in Entries : result'[e] # result[e] => e = x
        /\ gone' = gone \/ gone' = gone \cup {keyOf[x]}
    BY <2>1 DEF SendStart, SendEnd, IInv, TypeOK
  <2>3. wpc \notin {"idle", "record"}
    BY <2>2 DEF IInv, WorkerPart, WorkerOK
  <2>4. x \in Batch(Running)
    BY <2>2, <2>3, RunningIs DEF IInv, WorkerPart, WorkerOK
  <2>5. PICK S \in SUBSET Batch(Running) : gone' = gone \cup KeysOf(S)
    <3>1. KeysOf({}) = {} /\ KeysOf({x}) = {keyOf[x]}
      BY DEF KeysOf
    <3> QED BY <2>2, <2>4, <3>1
  <2> QED BY <2>2, <2>3, <2>4, <2>5, WorkDeletes
<1>13. CASE Poll \/ Finished \/ UNCHANGED vars
  <2>1. UNCHANGED vars
    BY <1>13 DEF Poll, Finished
  <2>2. \A e \in Entries : Stage(e)' = Stage(e)
    BY <2>1, StagesStay DEF vars
  <2> QED BY <2>1, <2>2, Stands DEF vars, Cleared, Cut, End
<1> QED BY <1>1, <1>2, <1>3, <1>4, <1>5, <1>6, <1>7, <1>8, <1>9, <1>10, <1>11, <1>12, <1>13
       DEF Next, CallerStep, Worker

\* The deleter keeps the promises of its docstrings, for every number of entries, every
\* size of a batch, every key shared by entries, every cancellation, fault and Ctrl-C.
THEOREM DeleterKeepsLedger == SafeSpec => LedgerSpec
<1> QED
  BY LedgerInit, LedgerStep, Invariance, PTL DEF SafeSpec, LedgerSpec, Ledger!Spec
=============================================================================
