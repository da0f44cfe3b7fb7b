---- MODULE CommandLineProofs ----
(***************************************************************************)
(* The exit code of an invocation, and what a delete and a transfer say of *)
(* themselves, for every number of interrupts, results, workers and alias  *)
(* expansions that the assumptions of the modules admit.                   *)
(*                                                                         *)
(* The exit code speaks for what ran before, so the invariant says what    *)
(* can have begun at each stage (StageOK).  What finish promises of the    *)
(* screen is a fact of the queue: a result that is due is in it once or in *)
(* the hand of the one worker that reported it (DueOK, HandsOK, QueueOK),  *)
(* and behind the shutdown marker come only results of scans that outlived *)
(* a run that died (MarkerOK).  What rm raises is a fact of the one call:  *)
(* an interrupt held back was pressed, and the answer says whether the     *)
(* object is gone (CallOK, AnswerOK).                                      *)
(***************************************************************************)
EXTENDS CommandLine, TLAPS

-----------------------------------------------------------------------------
(* The delete of one key.                                                  *)

\* How far the call is, and what it can have behind it.
CallOK ==
  /\ rm \in {"off", "ready"} => request = "none" /\ held = 0
  /\ rm \in {"grace", "waiting", "settled"} => request # "none"
  /\ rm # "over" => rmRecords = << >>
  /\ rm = "settled" => request \in Answered
  /\ rm = "grace" => held = 0 /\ interrupts > 0
  /\ held <= interrupts

\* What an answer says of the object, and what a normal return says of the request.
AnswerOK ==
  /\ applied => request \in {"ok", "failed", "lost"}
  /\ request = "ok" => applied
  /\ rmEnd = "ok" => request \in {"none", "ok", "lost"}

\* The invariant of the delete.
RmInv == RmTypeOK /\ CallOK /\ AnswerOK /\ DeleteIsReported /\ HeldIsRaised

-----------------------------------------------------------------------------
(* The printer.                                                            *)

\* The run was cut off.
Died == run \in {"fatal", "interrupt", "bug"}

\* The run is over.
Ended == run \notin {"off", "going"}

\* A result of a scan that outlived its run.
Stray(n) == owner[n] \in Scans /\ Died

\* The types, the counts without a bound among them.
PrinterTypes ==
  /\ PrinterTypeOK
  /\ queue \in Seq(Nat) /\ owner \in Seq(Workers) /\ warned \in Nat /\ failed \in Nat

\* Nothing was reported before the run starts.
NothingYet ==
  run = "off" =>
    /\ fate = << >> /\ queue = << >> /\ \A w \in Workers : at[w] = "idle"
    /\ printer = "off" /\ fin = "off" /\ finEnd = "none" /\ warned = 0 /\ failed = 0

\* A worker holds one result of its own that is due and not queued; behind the end of the
\* run only scans of a dead one hold any.
HandsOK ==
  \A w \in Workers : at[w] # "idle" =>
    /\ record[w] \in DOMAIN fate /\ fate[record[w]] = "due" /\ owner[record[w]] = w
    /\ \A n \in DOMAIN queue : queue[n] # record[w]
    /\ Ended => Died /\ w \in Scans

\* Each entry of the queue is one due result, or the one marker.
QueueOK ==
  /\ \A n \in DOMAIN queue :
       queue[n] # Shutdown => queue[n] \in DOMAIN fate /\ fate[queue[n]] = "due"
  /\ \A m, n \in DOMAIN queue : queue[m] = queue[n] => m = n

\* Behind the marker only strays come.
MarkerOK ==
  /\ \A m, n \in DOMAIN queue : queue[m] = Shutdown /\ m < n => Stray(queue[n])
  /\ \A n \in DOMAIN queue : queue[n] = Shutdown => marker = "in" /\ printer # "drained"
  /\ printer = "drained" => marker = "in" /\ \A n \in DOMAIN queue : Stray(queue[n])

\* A due result is on its way.
DueOK ==
  \A n \in DOMAIN fate : fate[n] = "due" =>
    \/ \E m \in DOMAIN queue : queue[m] = n
    \/ at[owner[n]] # "idle" /\ record[owner[n]] = n

\* One is being written, and what did not reach the screen has its reason.
FatesOK ==
  /\ \A n \in DOMAIN fate : fate[n] = "writing" => printer = "write"
  /\ \A m, n \in DOMAIN fate : fate[m] = "writing" /\ fate[n] = "writing" => m = n
  /\ \A n \in DOMAIN fate : fate[n] = "dead" => pressed = 2
  /\ \A n \in DOMAIN fate : fate[n] \in {"dropped", "discarded"} => Stray(n)

\* finish: it follows the run, sends one marker, and waits for it.
FinishOK ==
  /\ fin \notin {"off", "running"} => Ended
  /\ fin \in {"flagged", "waiting", "discarding"} => finished
  /\ fin \in {"off", "running"} => ~finished
  /\ finished => Ended
  /\ marker # "none" => finished
  /\ fin = "flagged" => marker = "none"
  /\ fin = "discarding" \/ (fin = "over" /\ finished /\ pressed < 2) => printer = "drained"
  /\ fin = "off" <=> run = "off"
  /\ pressed > 0 \/ finEnd = "interrupt" => interrupts > 0
  /\ run = "ok" => failed = 0

\* The invariant of the printer.
PrinterInv ==
  /\ PrinterTypes /\ NothingYet /\ HandsOK /\ QueueOK /\ MarkerOK /\ DueOK /\ FatesOK
  /\ FinishOK

-----------------------------------------------------------------------------
(* The invocation.                                                         *)

\* The types of the invocation: only one that has exited has a code.
CommandTypes ==
  /\ interrupts \in 0 .. MaxInterrupts
  /\ stage \in {"startup", "library", "top", "layer", "value", "resolve", "leaf", "gates",
                "prompt", "fallback", "rebuild", "transfer", "rm", "op", "exit"}
  /\ command \in Commands \cup {"none", "transfer"} /\ outcome \in Ends
  /\ trial \in BOOLEAN /\ cancelled \in BOOLEAN /\ sent \in {"no", "handled", "yes"}
  /\ expansions \in 0 .. MaxExpansions
  /\ stage = "exit" <=> rc # "none"

\* What has begun at a stage.
StageOK ==
  /\ stage \in {"transfer", "rm", "op"} => todo = << >>
  /\ stage \notin {"op", "exit"} => sent # "yes"
  /\ stage = "op" /\ sent = "yes" => command = "rb"
  /\ stage \notin {"transfer", "exit"} => run = "off"
  /\ stage \notin {"rm", "exit"} => rm = "off"
  /\ stage = "exit" => rm \in {"off", "over"} /\ fin \in {"off", "over"}

\* The invariant of the invocation.
CommandInv == CommandTypes /\ StageOK /\ ExitCodeTrue

\* The inductive invariant.
IInv == RmInv /\ PrinterInv /\ CommandInv

\* A cancel of the token.
LEMMA TokenCancelsKeeps ==
  ASSUME RmInv, interrupts \in Nat, TokenCancels
  PROVE  RmInv'
<1>1. RmTypeOK'
  BY DEF RmInv, RmTypeOK, TokenCancels
<1>2. CallOK'
  BY DEF RmInv, CallOK, TokenCancels
<1>3. AnswerOK'
  BY DEF RmInv, AnswerOK, TokenCancels
<1>4. DeleteIsReported'
  BY DEF RmInv, DeleteIsReported, TokenCancels
<1>5. HeldIsRaised'
  BY DEF HeldIsRaised, TokenCancels
<1> QED
  BY <1>1, <1>2, <1>3, <1>4, <1>5 DEF RmInv

\* The call is refused before anything is sent.
LEMMA RmRefusedKeeps ==
  ASSUME RmInv, interrupts \in Nat, RmRefused
  PROVE  RmInv'
<1>1. RmTypeOK'
  BY DEF RmInv, RmTypeOK, RmRefused, RmReturns
<1>2. CallOK'
  BY DEF RmInv, CallOK, RmRefused, RmReturns
<1>3. AnswerOK'
  BY DEF RmInv, CallOK, AnswerOK, RmRefused
<1>4. DeleteIsReported'
  BY DEF RmInv, CallOK, AnswerOK, DeleteIsReported, RmRefused
<1>5. HeldIsRaised'
  BY DEF RmInv, CallOK, HeldIsRaised, RmRefused
<1> QED
  BY <1>1, <1>2, <1>3, <1>4, <1>5 DEF RmInv

\* A filter excludes the key.
LEMMA RmExcludedKeeps ==
  ASSUME RmInv, interrupts \in Nat, RmExcluded
  PROVE  RmInv'
<1>1. RmTypeOK'
  BY DEF RmInv, RmTypeOK, RmExcluded, RmReturns, Polled
<1>2. CallOK'
  BY DEF RmInv, CallOK, RmExcluded, RmReturns
<1>3. AnswerOK'
  BY DEF RmInv, CallOK, AnswerOK, RmExcluded
<1>4. DeleteIsReported'
  BY DEF RmInv, CallOK, AnswerOK, DeleteIsReported, RmExcluded
<1>5. HeldIsRaised'
  BY DEF RmInv, CallOK, HeldIsRaised, RmExcluded
<1> QED
  BY <1>1, <1>2, <1>3, <1>4, <1>5 DEF RmInv

\* A dry run only records.
LEMMA RmDryrunKeeps ==
  ASSUME RmInv, interrupts \in Nat, RmDryrun
  PROVE  RmInv'
<1>1. RmTypeOK'
  BY DEF RmInv, RmTypeOK, CallOK, RmDryrun, RmReturns, RmRecord
<1>2. CallOK'
  BY DEF RmInv, CallOK, RmDryrun, RmReturns
<1>3. AnswerOK'
  BY DEF RmInv, CallOK, AnswerOK, RmDryrun
<1>4. DeleteIsReported'
  BY DEF RmInv, CallOK, AnswerOK, DeleteIsReported, RmDryrun, RmRecord
<1>5. HeldIsRaised'
  BY DEF RmInv, CallOK, HeldIsRaised, RmDryrun
<1> QED
  BY <1>1, <1>2, <1>3, <1>4, <1>5 DEF RmInv

\* The request cannot be built.
LEMMA RmUnbuiltKeeps ==
  ASSUME RmInv, interrupts \in Nat, RmUnbuilt
  PROVE  RmInv'
<1>1. RmTypeOK'
  BY DEF RmInv, RmTypeOK, RmUnbuilt, RmReturns
<1>2. CallOK'
  BY DEF RmInv, CallOK, RmUnbuilt, RmReturns
<1>3. AnswerOK'
  BY DEF RmInv, CallOK, AnswerOK, RmUnbuilt
<1>4. DeleteIsReported'
  BY DEF RmInv, CallOK, AnswerOK, DeleteIsReported, RmUnbuilt
<1>5. HeldIsRaised'
  BY DEF RmInv, CallOK, HeldIsRaised, RmUnbuilt
<1> QED
  BY <1>1, <1>2, <1>3, <1>4, <1>5 DEF RmInv

\* The request goes to the worker, and the caller waits.
LEMMA RmSendsKeeps ==
  ASSUME RmInv, interrupts \in Nat, RmSends
  PROVE  RmInv'
<1>1. RmTypeOK'
  BY DEF RmInv, RmTypeOK, RmSends
<1>2. CallOK'
  BY DEF RmInv, CallOK, RmSends
<1>3. AnswerOK'
  BY DEF RmInv, RmTypeOK, CallOK, AnswerOK, RmSends
<1>4. DeleteIsReported'
  BY DEF RmInv, RmTypeOK, DeleteIsReported, RmSends
<1>5. HeldIsRaised'
  BY DEF HeldIsRaised, RmSends
<1> QED
  BY <1>1, <1>2, <1>3, <1>4, <1>5 DEF RmInv

\* Ctrl-C while the worker is being spawned.
LEMMA RmSpawnInterruptedKeeps ==
  ASSUME RmInv, interrupts \in Nat, RmSpawnInterrupted
  PROVE  RmInv'
<1>1. RmTypeOK'
  BY DEF RmInv, RmTypeOK, RmSpawnInterrupted, RmReturns
<1>2. CallOK'
  BY DEF RmInv, CallOK, RmSpawnInterrupted, RmReturns, CtrlC
<1>3. AnswerOK'
  BY DEF RmInv, RmTypeOK, CallOK, AnswerOK, RmSpawnInterrupted
<1>4. DeleteIsReported'
  BY DEF RmInv, RmTypeOK, CallOK, AnswerOK, DeleteIsReported, RmSpawnInterrupted
<1>5. HeldIsRaised'
  BY DEF RmInv, CallOK, HeldIsRaised, RmSpawnInterrupted
<1> QED
  BY <1>1, <1>2, <1>3, <1>4, <1>5 DEF RmInv

\* The worker takes the request.
LEMMA WorkerBeginsKeeps ==
  ASSUME RmInv, interrupts \in Nat, WorkerBegins
  PROVE  RmInv'
<1>1. RmTypeOK'
  BY DEF RmInv, RmTypeOK, Answered, WorkerBegins
<1>2. CallOK'
  BY DEF RmInv, CallOK, Answered, WorkerBegins
<1>3. AnswerOK'
  BY DEF RmInv, AnswerOK, WorkerBegins
<1>4. DeleteIsReported'
  BY DEF RmInv, DeleteIsReported, Answered, WorkerBegins
<1>5. HeldIsRaised'
  BY DEF RmInv, HeldIsRaised, WorkerBegins
<1> QED
  BY <1>1, <1>2, <1>3, <1>4, <1>5 DEF RmInv

\* The service answers, and the object is gone or not.
LEMMA RequestEndsKeeps ==
  ASSUME RmInv, interrupts \in Nat, RequestEnds
  PROVE  RmInv'
<1>1. RmTypeOK'
  BY DEF RmInv, RmTypeOK, Answered, RequestEnds
<1>2. CallOK'
  BY DEF RmInv, CallOK, Answered, RequestEnds
<1>3. AnswerOK'
  BY DEF RmInv, AnswerOK, RequestEnds
<1>4. DeleteIsReported'
  BY DEF RmInv, AnswerOK, DeleteIsReported, Answered, RequestEnds
<1>5. HeldIsRaised'
  BY DEF RmInv, HeldIsRaised, RequestEnds
<1> QED
  BY <1>1, <1>2, <1>3, <1>4, <1>5 DEF RmInv

\* A request that no worker took by the end of the grace is given up.
LEMMA RmGraceEndsKeeps ==
  ASSUME RmInv, interrupts \in Nat, RmGraceEnds
  PROVE  RmInv'
<1>1. RmTypeOK'
  BY DEF RmInv, RmTypeOK, RmGraceEnds, RmReturns
<1>2. CallOK'
  BY DEF RmInv, CallOK, RmGraceEnds, RmReturns
<1>3. AnswerOK'
  BY DEF RmInv, AnswerOK, RmGraceEnds, RmReturns
<1>4. DeleteIsReported'
  BY DEF RmInv, RmTypeOK, AnswerOK, DeleteIsReported, RmGraceEnds
<1>5. HeldIsRaised'
  BY DEF RmInv, CallOK, HeldIsRaised, RmGraceEnds
<1> QED
  BY <1>1, <1>2, <1>3, <1>4, <1>5 DEF RmInv

\* Ctrl-C in the wait is held back until the third.
LEMMA RmWaitInterruptedKeeps ==
  ASSUME RmInv, interrupts \in Nat, RmWaitInterrupted
  PROVE  RmInv'
<1>1. RmTypeOK'
  BY DEF RmInv, RmTypeOK, RmWaitInterrupted, RmReturns
<1>2. CallOK'
  BY DEF RmInv, RmTypeOK, CallOK, RmWaitInterrupted, RmReturns, CtrlC
<1>3. AnswerOK'
  BY DEF RmInv, AnswerOK, RmWaitInterrupted, RmReturns
<1>4. DeleteIsReported'
  BY DEF RmInv, RmTypeOK, CallOK, DeleteIsReported, RmWaitInterrupted, RmReturns, CtrlC
<1>5. HeldIsRaised'
  BY DEF HeldIsRaised, RmWaitInterrupted, RmReturns
<1> QED
  BY <1>1, <1>2, <1>3, <1>4, <1>5 DEF RmInv

\* The caller has the answer.
LEMMA RmSettledKeeps ==
  ASSUME RmInv, interrupts \in Nat, RmSettled
  PROVE  RmInv'
<1>1. RmTypeOK'
  BY DEF RmInv, RmTypeOK, RmSettled
<1>2. CallOK'
  BY DEF RmInv, CallOK, RmSettled
<1>3. AnswerOK'
  BY DEF RmInv, AnswerOK, RmSettled
<1>4. DeleteIsReported'
  BY DEF RmInv, DeleteIsReported, RmSettled
<1>5. HeldIsRaised'
  BY DEF HeldIsRaised, RmSettled
<1> QED
  BY <1>1, <1>2, <1>3, <1>4, <1>5 DEF RmInv

\* A success is recorded.
LEMMA RmSucceedsKeeps ==
  ASSUME RmInv, interrupts \in Nat, RmSucceeds
  PROVE  RmInv'
<1>1. RmTypeOK'
  BY DEF RmInv, RmTypeOK, CallOK, RmSucceeds, RmReturns, RmRecord, HeldOr
<1>2. CallOK'
  BY DEF RmInv, CallOK, RmSucceeds, RmReturns, HeldOr
<1>3. AnswerOK'
  BY DEF RmInv, AnswerOK, RmSucceeds
<1>4. DeleteIsReported'
  BY DEF RmInv, RmTypeOK, CallOK, AnswerOK, DeleteIsReported, RmSucceeds, RmReturns, RmRecord,
         HeldOr
<1>5. HeldIsRaised'
  BY DEF HeldIsRaised, RmSucceeds, RmReturns, HeldOr
<1> QED
  BY <1>1, <1>2, <1>3, <1>4, <1>5 DEF RmInv

\* A failure is recorded and raised.
LEMMA RmFailsKeeps ==
  ASSUME RmInv, interrupts \in Nat, RmFails
  PROVE  RmInv'
<1>1. RmTypeOK'
  BY DEF RmInv, RmTypeOK, CallOK, RmFails, RmReturns, RmRecord, HeldOr
<1>2. CallOK'
  BY DEF RmInv, CallOK, RmFails, RmReturns, HeldOr
<1>3. AnswerOK'
  BY DEF RmInv, AnswerOK, RmFails, RmReturns, HeldOr
<1>4. DeleteIsReported'
  BY DEF RmInv, RmTypeOK, DeleteIsReported, RmFails, RmReturns, RmRecord, HeldOr
<1>5. HeldIsRaised'
  BY DEF HeldIsRaised, RmFails, RmReturns, HeldOr
<1> QED
  BY <1>1, <1>2, <1>3, <1>4, <1>5 DEF RmInv

\* A failure that aws-cli loses as well is not told.
LEMMA RmLostKeeps ==
  ASSUME RmInv, interrupts \in Nat, RmLost
  PROVE  RmInv'
<1>1. RmTypeOK'
  BY DEF RmInv, RmTypeOK, RmLost, RmReturns, HeldOr, Polled
<1>2. CallOK'
  BY DEF RmInv, CallOK, RmLost, RmReturns, HeldOr
<1>3. AnswerOK'
  BY DEF RmInv, AnswerOK, RmLost, RmReturns
<1>4. DeleteIsReported'
  BY DEF RmInv, RmTypeOK, AnswerOK, DeleteIsReported, RmLost
<1>5. HeldIsRaised'
  BY DEF HeldIsRaised, RmLost, RmReturns, HeldOr
<1> QED
  BY <1>1, <1>2, <1>3, <1>4, <1>5 DEF RmInv

\* An interrupt held back surfaces after the answer.
LEMMA RmInterruptedKeeps ==
  ASSUME RmInv, interrupts \in Nat, RmInterrupted
  PROVE  RmInv'
<1>1. RmTypeOK'
  BY DEF RmInv, RmTypeOK, RmInterrupted, RmReturns
<1>2. CallOK'
  BY DEF RmInv, RmTypeOK, CallOK, RmInterrupted, RmReturns, CtrlC
<1>3. AnswerOK'
  BY DEF RmInv, AnswerOK, RmInterrupted, RmReturns
<1>4. DeleteIsReported'
  BY DEF RmInv, CallOK, DeleteIsReported, Answered, RmInterrupted, RmReturns
<1>5. HeldIsRaised'
  BY DEF HeldIsRaised, RmInterrupted, RmReturns
<1> QED
  BY <1>1, <1>2, <1>3, <1>4, <1>5 DEF RmInv

\* The run and its printer thread start.
LEMMA PrinterStartsKeeps ==
  ASSUME PrinterInv, interrupts \in Nat, PrinterStarts
  PROVE  PrinterInv'
<1>1. PrinterTypes'
  BY DEF PrinterInv, PrinterTypes, PrinterTypeOK, resultVars, PrinterStarts
<1>2. NothingYet'
  BY DEF NothingYet, PrinterStarts
<1>3. HandsOK'
  BY DEF PrinterInv, NothingYet, HandsOK, resultVars, PrinterStarts
<1>4. QueueOK'
  BY DEF PrinterInv, NothingYet, QueueOK, PrinterStarts
<1>5. MarkerOK'
  BY DEF PrinterInv, NothingYet, MarkerOK, PrinterStarts
<1>6. DueOK'
  BY DEF PrinterInv, DueOK, resultVars, PrinterStarts
<1>7. FatesOK'
  BY DEF PrinterInv, NothingYet, FatesOK, resultVars, PrinterStarts
<1>8. FinishOK'
  BY DEF PrinterInv, FinishOK, PrinterStarts
<1> QED
  BY <1>1, <1>2, <1>3, <1>4, <1>5, <1>6, <1>7, <1>8 DEF PrinterInv

\* The run returns: it is ok only if nothing failed.
LEMMA RunReturnsKeeps ==
  ASSUME PrinterInv, interrupts \in Nat, RunReturns
  PROVE  PrinterInv'
<1>1. PrinterTypes'
  BY DEF PrinterInv, PrinterTypes, PrinterTypeOK, resultVars, threadVars, finishVars,
         RunReturns
<1>2. NothingYet'
  BY DEF NothingYet, RunReturns
<1>3. HandsOK'
  BY DEF HandsOK, resultVars, RunReturns
<1>4. QueueOK'
  BY DEF PrinterInv, QueueOK, resultVars, threadVars, RunReturns
<1>5. MarkerOK'
  BY DEF PrinterInv, MarkerOK, FinishOK, Ended, threadVars, RunReturns
<1>6. DueOK'
  BY DEF PrinterInv, DueOK, resultVars, threadVars, RunReturns
<1>7. FatesOK'
  BY DEF PrinterInv, FatesOK, Died, Stray, resultVars, threadVars, finishVars, RunReturns
<1>8. FinishOK'
  BY DEF PrinterInv, PrinterTypes, FinishOK, Ended, resultVars, finishVars, RunReturns
<1> QED
  BY <1>1, <1>2, <1>3, <1>4, <1>5, <1>6, <1>7, <1>8 DEF PrinterInv

\* The run raises; its scans may live on.
LEMMA RunRaisesKeeps ==
  ASSUME PrinterInv, interrupts \in Nat, RunRaises
  PROVE  PrinterInv'
<1>1. PrinterTypes'
  BY DEF PrinterInv, PrinterTypes, PrinterTypeOK, resultVars, threadVars, finishVars, RunRaises
<1>2. NothingYet'
  BY DEF NothingYet, RunRaises
<1>3. HandsOK'
  BY DEF PrinterInv, HandsOK, Died, resultVars, threadVars, RunRaises
<1>4. QueueOK'
  BY DEF PrinterInv, QueueOK, resultVars, threadVars, RunRaises
<1>5. MarkerOK'
  BY DEF PrinterInv, MarkerOK, FinishOK, Ended, threadVars, RunRaises
<1>6. DueOK'
  BY DEF PrinterInv, DueOK, resultVars, threadVars, RunRaises
<1>7. FatesOK'
  BY DEF PrinterInv, FatesOK, Died, Stray, resultVars, threadVars, finishVars, RunRaises
<1>8. FinishOK'
  BY DEF PrinterInv, FinishOK, Ended, finishVars, RunRaises
<1> QED
  BY <1>1, <1>2, <1>3, <1>4, <1>5, <1>6, <1>7, <1>8 DEF PrinterInv

\* Ctrl-C ends the run.
LEMMA RunInterruptedKeeps ==
  ASSUME PrinterInv, interrupts \in Nat, RunInterrupted
  PROVE  PrinterInv'
<1>1. PrinterTypes'
  BY DEF PrinterInv, PrinterTypes, PrinterTypeOK, resultVars, threadVars, finishVars,
         RunInterrupted
<1>2. NothingYet'
  BY DEF NothingYet, RunInterrupted
<1>3. HandsOK'
  BY DEF PrinterInv, HandsOK, Died, resultVars, threadVars, RunInterrupted
<1>4. QueueOK'
  BY DEF PrinterInv, QueueOK, resultVars, threadVars, RunInterrupted
<1>5. MarkerOK'
  BY DEF PrinterInv, MarkerOK, FinishOK, Ended, threadVars, RunInterrupted
<1>6. DueOK'
  BY DEF PrinterInv, DueOK, resultVars, threadVars, RunInterrupted
<1>7. FatesOK'
  BY DEF PrinterInv, FatesOK, Died, Stray, resultVars, threadVars, finishVars, RunInterrupted
<1>8. FinishOK'
  BY DEF PrinterInv, FinishOK, Ended, finishVars, RunInterrupted, CtrlC
<1> QED
  BY <1>1, <1>2, <1>3, <1>4, <1>5, <1>6, <1>7, <1>8 DEF PrinterInv

\* A line is written, or the stream refuses it.
LEMMA WriteKeeps ==
  ASSUME PrinterInv, interrupts \in Nat, Write
  PROVE  PrinterInv'
<1>1. PrinterTypes'
  BY DEF PrinterInv, PrinterTypes, PrinterTypeOK, finishVars, Write
<1>2. NothingYet'
  BY DEF PrinterInv, NothingYet, Write
<1>3. HandsOK'
  BY DEF PrinterInv, HandsOK, Ended, Died, Write
<1>4. QueueOK'
  BY DEF PrinterInv, QueueOK, Write
<1>5. MarkerOK'
  BY DEF PrinterInv, MarkerOK, Died, Stray, finishVars, Write
<1>6. DueOK'
  BY DEF PrinterInv, DueOK, Write
<1>7. FatesOK'
  BY DEF PrinterInv, FatesOK, Ended, Died, Stray, finishVars, Write
<1>8. FinishOK'
  BY DEF PrinterInv, FinishOK, Ended, finishVars, Write
<1> QED
  BY <1>1, <1>2, <1>3, <1>4, <1>5, <1>6, <1>7, <1>8 DEF PrinterInv

\* The stream stops taking output.
LEMMA StreamStallsKeeps ==
  ASSUME PrinterInv, interrupts \in Nat, StreamStalls
  PROVE  PrinterInv'
<1>1. PrinterTypes'
  BY DEF PrinterInv, PrinterTypes, PrinterTypeOK, resultVars, finishVars, StreamStalls
<1>2. NothingYet'
  BY DEF PrinterInv, NothingYet, StreamStalls
<1>3. HandsOK'
  BY DEF PrinterInv, HandsOK, Ended, Died, resultVars, StreamStalls
<1>4. QueueOK'
  BY DEF PrinterInv, QueueOK, resultVars, StreamStalls
<1>5. MarkerOK'
  BY DEF PrinterInv, MarkerOK, Died, Stray, resultVars, finishVars, StreamStalls
<1>6. DueOK'
  BY DEF PrinterInv, DueOK, resultVars, StreamStalls
<1>7. FatesOK'
  BY DEF PrinterInv, FatesOK, Died, Stray, resultVars, finishVars, StreamStalls
<1>8. FinishOK'
  BY DEF PrinterInv, FinishOK, Ended, resultVars, finishVars, StreamStalls
<1> QED
  BY <1>1, <1>2, <1>3, <1>4, <1>5, <1>6, <1>7, <1>8 DEF PrinterInv

\* finish begins when the run has ended.
LEMMA FinishStartsKeeps ==
  ASSUME PrinterInv, interrupts \in Nat, FinishStarts
  PROVE  PrinterInv'
<1>1. PrinterTypes'
  BY DEF PrinterInv, PrinterTypes, PrinterTypeOK, resultVars, threadVars, FinishStarts
<1>2. NothingYet'
  BY DEF NothingYet, FinishStarts
<1>3. HandsOK'
  BY DEF PrinterInv, HandsOK, Ended, Died, resultVars, threadVars, FinishStarts
<1>4. QueueOK'
  BY DEF PrinterInv, QueueOK, resultVars, threadVars, FinishStarts
<1>5. MarkerOK'
  BY DEF PrinterInv, MarkerOK, FinishOK, threadVars, FinishStarts
<1>6. DueOK'
  BY DEF PrinterInv, DueOK, resultVars, threadVars, FinishStarts
<1>7. FatesOK'
  BY DEF PrinterInv, FatesOK, Died, Stray, resultVars, threadVars, FinishStarts
<1>8. FinishOK'
  BY DEF PrinterInv, FinishOK, Ended, resultVars, FinishStarts
<1> QED
  BY <1>1, <1>2, <1>3, <1>4, <1>5, <1>6, <1>7, <1>8 DEF PrinterInv

\* The helper has sent the marker.
LEMMA MarkerSentKeeps ==
  ASSUME PrinterInv, interrupts \in Nat, MarkerSent
  PROVE  PrinterInv'
<1>1. PrinterTypes'
  BY DEF PrinterInv, PrinterTypes, PrinterTypeOK, resultVars, threadVars, MarkerSent
<1>2. NothingYet'
  BY DEF PrinterInv, NothingYet, MarkerSent
<1>3. HandsOK'
  BY DEF PrinterInv, HandsOK, FinishOK, Died, resultVars, threadVars, MarkerSent
<1>4. QueueOK'
  BY DEF PrinterInv, QueueOK, resultVars, threadVars, MarkerSent
<1>5. MarkerOK'
  BY DEF PrinterInv, MarkerOK, FinishOK, threadVars, MarkerSent
<1>6. DueOK'
  BY DEF PrinterInv, DueOK, resultVars, threadVars, MarkerSent
<1>7. FatesOK'
  BY DEF PrinterInv, FatesOK, Died, Stray, resultVars, threadVars, MarkerSent
<1>8. FinishOK'
  BY DEF PrinterInv, FinishOK, Ended, resultVars, MarkerSent
<1> QED
  BY <1>1, <1>2, <1>3, <1>4, <1>5, <1>6, <1>7, <1>8 DEF PrinterInv

\* The first Ctrl-C in finish.
LEMMA FinishInterruptedKeeps ==
  ASSUME PrinterInv, interrupts \in Nat, FinishInterrupted
  PROVE  PrinterInv'
<1>1. PrinterTypes'
  BY DEF PrinterInv, PrinterTypes, PrinterTypeOK, resultVars, threadVars, FinishInterrupted,
         FinishOver
<1>2. NothingYet'
  BY DEF PrinterInv, NothingYet, FinishInterrupted
<1>3. HandsOK'
  BY DEF PrinterInv, HandsOK, FinishOK, Died, resultVars, threadVars, FinishInterrupted
<1>4. QueueOK'
  BY DEF PrinterInv, QueueOK, resultVars, threadVars, FinishInterrupted
<1>5. MarkerOK'
  BY DEF PrinterInv, MarkerOK, Died, Stray, resultVars, threadVars, FinishInterrupted
<1>6. DueOK'
  BY DEF PrinterInv, DueOK, resultVars, threadVars, FinishInterrupted
<1>7. FatesOK'
  BY DEF PrinterInv, FatesOK, Died, Stray, resultVars, threadVars, FinishInterrupted
<1>8. FinishOK'
  BY DEF PrinterInv, FinishOK, Ended, resultVars, FinishInterrupted, CtrlC, FinishOver
<1> QED
  BY <1>1, <1>2, <1>3, <1>4, <1>5, <1>6, <1>7, <1>8 DEF PrinterInv

\* The second Ctrl-C in finish gives the rest of the screen up.
LEMMA FinishCutKeeps ==
  ASSUME PrinterInv, interrupts \in Nat, FinishCut
  PROVE  PrinterInv'
<1>1. PrinterTypes'
  BY DEF PrinterInv, PrinterTypes, PrinterTypeOK, resultVars, threadVars, FinishCut, FinishOver
<1>2. NothingYet'
  BY DEF NothingYet, FinishCut
<1>3. HandsOK'
  BY DEF PrinterInv, HandsOK, Ended, Died, resultVars, threadVars, FinishCut
<1>4. QueueOK'
  BY DEF PrinterInv, QueueOK, resultVars, threadVars, FinishCut
<1>5. MarkerOK'
  BY DEF PrinterInv, MarkerOK, Died, Stray, resultVars, threadVars, FinishCut
<1>6. DueOK'
  BY DEF PrinterInv, DueOK, resultVars, threadVars, FinishCut
<1>7. FatesOK'
  BY DEF PrinterInv, FatesOK, Died, Stray, resultVars, threadVars, FinishCut
<1>8. FinishOK'
  BY DEF PrinterInv, FinishOK, Ended, resultVars, threadVars, FinishCut, CtrlC, FinishOver
<1> QED
  BY <1>1, <1>2, <1>3, <1>4, <1>5, <1>6, <1>7, <1>8 DEF PrinterInv

\* The thread is gone, and finish turns to what came behind the marker.
LEMMA DrainedKeeps ==
  ASSUME PrinterInv, interrupts \in Nat, Drained
  PROVE  PrinterInv'
<1>1. PrinterTypes'
  BY DEF PrinterInv, PrinterTypes, PrinterTypeOK, resultVars, threadVars, Drained
<1>2. NothingYet'
  BY DEF PrinterInv, NothingYet, Drained
<1>3. HandsOK'
  BY DEF PrinterInv, HandsOK, FinishOK, Died, resultVars, threadVars, Drained
<1>4. QueueOK'
  BY DEF PrinterInv, QueueOK, resultVars, threadVars, Drained
<1>5. MarkerOK'
  BY DEF PrinterInv, MarkerOK, Died, Stray, resultVars, threadVars, Drained
<1>6. DueOK'
  BY DEF PrinterInv, DueOK, resultVars, threadVars, Drained
<1>7. FatesOK'
  BY DEF PrinterInv, FatesOK, Died, Stray, resultVars, Drained
<1>8. FinishOK'
  BY DEF PrinterInv, FinishOK, Ended, resultVars, threadVars, Drained
<1> QED
  BY <1>1, <1>2, <1>3, <1>4, <1>5, <1>6, <1>7, <1>8 DEF PrinterInv

\* What Append does to a sequence.
LEMMA Appended ==
  ASSUME NEW T, NEW s \in Seq(T), NEW x \in T
  PROVE  /\ Append(s, x) \in Seq(T) /\ Len(s) \in Nat /\ Len(Append(s, x)) = Len(s) + 1
         /\ DOMAIN s = 1 .. Len(s) /\ DOMAIN Append(s, x) = 1 .. Len(s) + 1
         /\ Append(s, x)[Len(s) + 1] = x
         /\ \A n \in DOMAIN s : n \in DOMAIN Append(s, x) /\ Append(s, x)[n] = s[n]
         /\ \A n \in DOMAIN Append(s, x) : n \in DOMAIN s \/ n = Len(s) + 1
         /\ \A n \in DOMAIN s : n < Len(s) + 1
OBVIOUS

\* What Tail does to a sequence.
LEMMA Popped ==
  ASSUME NEW T, NEW s \in Seq(T), s # << >>
  PROVE  /\ Tail(s) \in Seq(T) /\ Len(s) \in Nat /\ Len(Tail(s)) = Len(s) - 1
         /\ 1 \in DOMAIN s /\ Head(s) = s[1]
         /\ \A n \in DOMAIN Tail(s) : n + 1 \in DOMAIN s /\ Tail(s)[n] = s[n + 1]
         /\ \A n \in DOMAIN s : n # 1 => n - 1 \in DOMAIN Tail(s) /\ Tail(s)[n - 1] = s[n]
         /\ \A n \in DOMAIN Tail(s) : n \in Nat /\ 1 < n + 1
OBVIOUS

\* A result enters the queue: the hand of its worker is empty again.
LEMMA PutKeeps ==
  ASSUME PrinterInv, interrupts \in Nat, NEW w \in Workers, Put(w)
  PROVE  PrinterInv'
<1> DEFINE r == record[w]
           end == Len(queue) + 1
<1>1. /\ r \in DOMAIN fate /\ fate[r] = "due" /\ owner[r] = w
      /\ \A n \in DOMAIN queue : queue[n] # r
      /\ Ended => Stray(r)
  BY DEF PrinterInv, HandsOK, Put, Stray
<1>2. r \in Nat /\ r # Shutdown
  BY <1>1 DEF PrinterInv, PrinterTypes, PrinterTypeOK, Shutdown
<1>3. /\ DOMAIN queue' = 1 .. end /\ DOMAIN queue = 1 .. Len(queue) /\ Len(queue) \in Nat
      /\ queue'[end] = r /\ end \in DOMAIN queue'
      /\ \A n \in DOMAIN queue : n \in DOMAIN queue' /\ queue'[n] = queue[n] /\ n < end
      /\ \A n \in DOMAIN queue' : n \in DOMAIN queue \/ n = end
  BY <1>2, Appended DEF PrinterInv, PrinterTypes, Put
<1>4. /\ at' = [at EXCEPT ![w] = "idle"]
      /\ UNCHANGED <<run, record, fate, owner, marker, printer>>
  BY DEF Put, finishVars
<1>5. at \in [Workers -> {"idle", "counted", "putting"}] /\ owner \in Seq(Workers)
  BY DEF PrinterInv, PrinterTypes, PrinterTypeOK
<1> HIDE DEF r, end
<1>6. QueueOK'
  <2>1. \A n \in DOMAIN queue' :
          queue'[n] # Shutdown => queue'[n] \in DOMAIN fate' /\ fate'[queue'[n]] = "due"
    BY <1>1, <1>3, <1>4 DEF PrinterInv, QueueOK
  <2>2. \A m, n \in DOMAIN queue' : queue'[m] = queue'[n] => m = n
    BY <1>1, <1>3 DEF PrinterInv, QueueOK
  <2> QED
    BY <2>1, <2>2 DEF QueueOK
<1>7. MarkerOK'
  <2>1. printer = "drained" \/ (\E n \in DOMAIN queue : queue[n] = Shutdown) => Stray(r)
    BY <1>1 DEF PrinterInv, MarkerOK, FinishOK
  <2>2. \A m, n \in DOMAIN queue' :
          queue'[m] = Shutdown /\ m < n => owner[queue'[n]] \in Scans /\ Died
    <3> SUFFICES ASSUME NEW m \in DOMAIN queue', NEW n \in DOMAIN queue',
                        queue'[m] = Shutdown, m < n
                 PROVE  owner[queue'[n]] \in Scans /\ Died
      OBVIOUS
    <3>1. m \in DOMAIN queue /\ queue[m] = Shutdown
      BY <1>2, <1>3
    <3> QED
      BY <1>3, <2>1, <3>1 DEF PrinterInv, MarkerOK, Stray
  <2>3. \A n \in DOMAIN queue' : queue'[n] = Shutdown => marker = "in" /\ printer # "drained"
    BY <1>2, <1>3 DEF PrinterInv, MarkerOK
  <2>4. printer = "drained" =>
          marker = "in" /\ \A n \in DOMAIN queue' : owner[queue'[n]] \in Scans /\ Died
    BY <1>3, <2>1 DEF PrinterInv, MarkerOK, Stray
  <2> QED
    BY <1>4, <2>2, <2>3, <2>4 DEF MarkerOK, Stray, Died
<1>8. DueOK'
  <2> SUFFICES ASSUME NEW n \in DOMAIN fate', fate'[n] = "due"
               PROVE  \/ \E m \in DOMAIN queue' : queue'[m] = n
                      \/ at'[owner'[n]] # "idle" /\ record'[owner'[n]] = n
    BY DEF DueOK
  <2>1. n \in DOMAIN fate /\ fate[n] = "due"
    BY <1>4
  <2>2. CASE \E m \in DOMAIN queue : queue[m] = n
    BY <1>3, <2>2
  <2>3. CASE at[owner[n]] # "idle" /\ record[owner[n]] = n
    <3>1. CASE owner[n] = w
      BY <1>3, <2>3, <3>1 DEF r
    <3>2. CASE owner[n] # w
      BY <1>4, <1>5, <2>3, <3>2
    <3> QED
      BY <3>1, <3>2
  <2> QED
    BY <2>1, <2>2, <2>3 DEF PrinterInv, DueOK
<1>9. PrinterTypes'
  BY TransferPrinterAssumption DEF PrinterInv, PrinterTypes, NothingYet, HandsOK, MarkerOK,
         FatesOK, FinishOK, PrinterTypeOK, finishVars, Put
<1>10. NothingYet'
  BY DEF PrinterInv, NothingYet, Put
<1>11. HandsOK'
  BY DEF PrinterInv, PrinterTypes, HandsOK, QueueOK, MarkerOK, DueOK, FatesOK, FinishOK,
         PrinterTypeOK, Ended, Died, finishVars, Put
<1>12. FatesOK'
  BY DEF PrinterInv, FatesOK, Died, Stray, finishVars, Put
<1>13. FinishOK'
  BY DEF PrinterInv, FinishOK, Ended, finishVars, Put
<1> QED
  BY <1>6, <1>7, <1>8, <1>9, <1>10, <1>11, <1>12, <1>13 DEF PrinterInv

\* The marker enters the queue, once.
LEMMA MarkerPutKeeps ==
  ASSUME PrinterInv, interrupts \in Nat, MarkerPut
  PROVE  PrinterInv'
<1> DEFINE end == Len(queue) + 1
<1>1. /\ DOMAIN queue' = 1 .. end /\ DOMAIN queue = 1 .. Len(queue) /\ Len(queue) \in Nat
      /\ queue'[end] = Shutdown /\ end \in DOMAIN queue'
      /\ \A n \in DOMAIN queue : n \in DOMAIN queue' /\ queue'[n] = queue[n] /\ n < end
      /\ \A n \in DOMAIN queue' : n \in DOMAIN queue \/ n = end
  <2>1. Shutdown \in Nat
    BY DEF Shutdown
  <2> QED
    BY <2>1, Appended DEF PrinterInv, PrinterTypes, MarkerPut
<1>2. UNCHANGED <<at, record, fate, owner>>
  BY DEF MarkerPut, resultVars
<1>3. \A n \in DOMAIN queue : queue[n] # Shutdown
  BY DEF PrinterInv, MarkerOK, MarkerPut
<1> HIDE DEF end
<1>4. QueueOK'
  <2>1. \A n \in DOMAIN queue' :
          queue'[n] # Shutdown => queue'[n] \in DOMAIN fate' /\ fate'[queue'[n]] = "due"
    BY <1>1, <1>2 DEF PrinterInv, QueueOK
  <2>2. \A m, n \in DOMAIN queue' : queue'[m] = queue'[n] => m = n
    BY <1>1, <1>3 DEF PrinterInv, QueueOK
  <2> QED
    BY <2>1, <2>2 DEF QueueOK
<1>5. DueOK'
  <2>1. \A n \in DOMAIN fate : (\E m \in DOMAIN queue : queue[m] = n) =>
                                \E m \in DOMAIN queue' : queue'[m] = n
    BY <1>1
  <2> QED
    BY <1>2, <2>1 DEF PrinterInv, DueOK
<1>6. PrinterTypes'
  BY TransferPrinterAssumption DEF PrinterInv, PrinterTypes, QueueOK, FinishOK, PrinterTypeOK,
         Ended, Shutdown, resultVars, MarkerPut
<1>7. NothingYet'
  BY DEF PrinterInv, NothingYet, FinishOK, MarkerPut
<1>8. HandsOK'
  <2>1. \A w \in Workers : at[w] # "idle" => \A n \in DOMAIN queue' : queue'[n] # record[w]
    <3>1. Shutdown \notin DOMAIN fate
      BY DEF PrinterInv, PrinterTypes, PrinterTypeOK, Shutdown
    <3> QED
      BY <1>1, <3>1 DEF PrinterInv, HandsOK
  <2>2. UNCHANGED run
    BY DEF MarkerPut
  <2> QED
    BY <1>2, <2>1, <2>2 DEF PrinterInv, HandsOK, Ended, Died
<1>9. MarkerOK'
  BY DEF PrinterInv, MarkerOK, resultVars, MarkerPut
<1>10. FatesOK'
  BY DEF PrinterInv, FatesOK, Died, Stray, resultVars, MarkerPut
<1>11. FinishOK'
  BY DEF PrinterInv, FinishOK, Ended, resultVars, MarkerPut
<1> QED
  BY <1>4, <1>5, <1>6, <1>7, <1>8, <1>9, <1>10, <1>11 DEF PrinterInv

\* A worker drops its result if finish has begun: then it is a stray.
LEMMA CheckFinishedKeeps ==
  ASSUME PrinterInv, interrupts \in Nat, NEW w \in Workers, CheckFinished(w)
  PROVE  PrinterInv'
<1> DEFINE r == record[w]
<1>1. /\ at[w] = "counted" /\ r \in DOMAIN fate /\ fate[r] = "due" /\ owner[r] = w
      /\ Ended => Stray(r)
      /\ \A n \in DOMAIN queue : queue[n] # r
  BY DEF PrinterInv, HandsOK, CheckFinished, Stray
<1>2. UNCHANGED <<run, record, owner, queue, printer, pressed, finished, warned, failed>>
  BY DEF CheckFinished, threadVars, finishVars
<1>3. \/ finished /\ at' = [at EXCEPT ![w] = "idle"] /\ fate' = [fate EXCEPT ![r] = "dropped"]
      \/ at' = [at EXCEPT ![w] = "putting"] /\ fate' = fate
  BY DEF CheckFinished
<1>4. /\ at \in [Workers -> {"idle", "counted", "putting"}] /\ owner \in Seq(Workers)
      /\ fate \in Seq({"due", "silent", "writing", "written", "refused", "dead", "dropped",
                       "discarded"})
      /\ DOMAIN owner = DOMAIN fate
  BY DEF PrinterInv, PrinterTypes, PrinterTypeOK
<1> HIDE DEF r
<1>5. /\ fate' \in Seq({"due", "silent", "writing", "written", "refused", "dead", "dropped",
                        "discarded"})
      /\ Len(fate') = Len(fate) /\ DOMAIN fate' = DOMAIN fate
  BY <1>1, <1>3, <1>4
<1>6. PrinterTypes'
  <2>1. \A n \in DOMAIN queue : queue[n] # Shutdown => fate'[queue[n]] = "due"
    BY <1>1, <1>3, <1>4 DEF PrinterInv, QueueOK
  <2>2. at' \in [Workers -> {"idle", "counted", "putting"}]
    BY <1>3, <1>4
  <2> QED
    BY <1>5, <2>1, <2>2 DEF PrinterInv, PrinterTypes, PrinterTypeOK, CheckFinished, threadVars,
           finishVars
<1>7. DueOK'
  <2> SUFFICES ASSUME NEW n \in DOMAIN fate', fate'[n] = "due"
               PROVE  \/ \E m \in DOMAIN queue' : queue'[m] = n
                      \/ at'[owner'[n]] # "idle" /\ record'[owner'[n]] = n
    BY DEF DueOK
  <2>1. n \in DOMAIN fate /\ fate[n] = "due" /\ owner[n] \in Workers
    BY <1>1, <1>3, <1>4, <1>5
  <2>2. CASE \E m \in DOMAIN queue : queue[m] = n
    BY <1>2, <2>2
  <2>3. CASE at[owner[n]] # "idle" /\ record[owner[n]] = n
    <3>1. CASE finished /\ at' = [at EXCEPT ![w] = "idle"] /\
               fate' = [fate EXCEPT ![r] = "dropped"]
      <4>1. n # r
        BY <1>1, <3>1
      <4>2. owner[n] # w
        BY <2>3, <4>1 DEF r
      <4> QED
        BY <1>2, <1>4, <2>1, <2>3, <3>1, <4>2
    <3>2. CASE at' = [at EXCEPT ![w] = "putting"] /\ fate' = fate
      BY <1>2, <1>4, <2>1, <2>3, <3>2
    <3> QED
      BY <1>3, <3>1, <3>2
  <2> QED
    BY <2>1, <2>2, <2>3 DEF PrinterInv, DueOK
<1>8. FatesOK'
  <2>1. \A n \in DOMAIN fate : fate'[n] # fate[n] => n = r /\ fate'[n] = "dropped" /\ Stray(r)
    BY <1>1, <1>3, <1>4 DEF PrinterInv, FinishOK
  <2>2. \A n \in DOMAIN fate' : fate'[n] = "writing" => printer' = "write"
    BY <1>2, <1>5, <2>1 DEF PrinterInv, FatesOK
  <2>3. \A m, n \in DOMAIN fate' : fate'[m] = "writing" /\ fate'[n] = "writing" => m = n
    BY <1>5, <2>1 DEF PrinterInv, FatesOK
  <2>4. \A n \in DOMAIN fate' : fate'[n] = "dead" => pressed' = 2
    BY <1>2, <1>5, <2>1 DEF PrinterInv, FatesOK
  <2>5. \A n \in DOMAIN fate' : fate'[n] \in {"dropped", "discarded"} =>
                                owner'[n] \in Scans /\ Died'
    BY <1>2, <1>5, <2>1 DEF PrinterInv, FatesOK, Stray, Died
  <2> QED
    BY <2>2, <2>3, <2>4, <2>5 DEF FatesOK, Stray
<1>9. NothingYet'
  BY DEF PrinterInv, NothingYet, CheckFinished
<1>10. HandsOK'
  BY DEF PrinterInv, PrinterTypes, HandsOK, QueueOK, DueOK, FatesOK, PrinterTypeOK, Ended,
         Died, threadVars, CheckFinished
<1>11. QueueOK'
  BY DEF PrinterInv, HandsOK, QueueOK, Died, Stray, threadVars, finishVars, CheckFinished
<1>12. MarkerOK'
  BY DEF PrinterInv, MarkerOK, Died, Stray, threadVars, finishVars, CheckFinished
<1>13. FinishOK'
  BY DEF PrinterInv, FinishOK, Ended, threadVars, finishVars, CheckFinished
<1> QED
  BY <1>6, <1>7, <1>8, <1>9, <1>10, <1>11, <1>12, <1>13 DEF PrinterInv

\* What can become of a result.
Fates == {"due", "silent", "writing", "written", "refused", "dead", "dropped", "discarded"}

\* The queue without its head, whose result has a fate now.
PopFacts ==
  /\ queue \in Seq(Nat) /\ queue' \in Seq(Nat) /\ Len(queue) \in Nat
  /\ Len(queue') = Len(queue) - 1
  /\ 1 \in DOMAIN queue /\ queue[1] = Head(queue)
  /\ \A n \in DOMAIN queue' :
       n \in Nat /\ n + 1 \in DOMAIN queue /\ queue'[n] = queue[n + 1] /\ n + 1 # 1 /\ 1 < n + 1
  /\ \A n \in DOMAIN queue : n # 1 => \E m \in DOMAIN queue' : queue'[m] = queue[n]

\* Taking the head of the queue is as PopFacts says.
LEMMA PopHolds ==
  ASSUME PrinterInv, queue # << >>, queue' = Tail(queue)
  PROVE  PopFacts
<1>1. queue \in Seq(Nat)
  BY DEF PrinterInv, PrinterTypes
<1>2. /\ queue' \in Seq(Nat) /\ Len(queue) \in Nat /\ Len(queue') = Len(queue) - 1
      /\ 1 \in DOMAIN queue /\ queue[1] = Head(queue)
  BY <1>1, Popped
<1>3. \A n \in DOMAIN queue' :
        n \in Nat /\ n + 1 \in DOMAIN queue /\ queue'[n] = queue[n + 1] /\ 1 < n + 1
  BY <1>1, Popped
<1>4. \A n \in DOMAIN queue : n # 1 => n - 1 \in DOMAIN queue' /\ queue'[n - 1] = queue[n]
  BY <1>1, Popped
<1>5. \A n \in DOMAIN queue' : n + 1 # 1
  BY <1>3
<1>6. \A n \in DOMAIN queue : n # 1 => \E m \in DOMAIN queue' : queue'[m] = queue[n]
  BY <1>4
<1> QED
  BY <1>1, <1>2, <1>3, <1>5, <1>6 DEF PopFacts

\* Without its head the queue keeps its shape, and no hand held the head.
LEMMA PopKeeps ==
  ASSUME PrinterInv, PopFacts, UNCHANGED <<run, at, record, owner>>,
         fate' \in Seq(Fates), Len(fate') = Len(fate),
         \A n \in DOMAIN fate : n # Head(queue) => fate'[n] = fate[n],
         Head(queue) # Shutdown => fate'[Head(queue)] # "due"
  PROVE  /\ DOMAIN fate' = DOMAIN fate
         /\ Head(queue) # Shutdown => Head(queue) \in DOMAIN fate /\ fate[Head(queue)] = "due"
         /\ \A n \in DOMAIN queue' : queue'[n] # Head(queue)
         /\ QueueOK' /\ DueOK' /\ HandsOK'
<1> DEFINE h == Head(queue)
<1>1. PopFacts
  OBVIOUS
<1>2. h # Shutdown => h \in DOMAIN fate /\ fate[h] = "due"
  BY <1>1 DEF PrinterInv, QueueOK, PopFacts
<1>3. \A n \in DOMAIN queue' : queue'[n] # h
  <2>1. \A n \in DOMAIN queue' : queue'[n] = queue[n + 1] /\ n + 1 \in DOMAIN queue /\ n + 1 # 1
    BY DEF PopFacts
  <2>2. 1 \in DOMAIN queue /\ queue[1] = h
    BY DEF PopFacts
  <2> HIDE DEF h
  <2> QED
    BY <2>1, <2>2 DEF PrinterInv, QueueOK
<1>4. DOMAIN fate' = DOMAIN fate
  OBVIOUS
<1>5. \A w \in Workers : at[w] # "idle" => record[w] # h
  <2>1. 1 \in DOMAIN queue /\ queue[1] = h
    BY DEF PopFacts
  <2> HIDE DEF h
  <2> QED
    BY <2>1 DEF PrinterInv, HandsOK
<1> HIDE DEF h
<1>6. QueueOK'
  <2>1. \A n \in DOMAIN queue' :
          queue'[n] # Shutdown => queue'[n] \in DOMAIN fate' /\ fate'[queue'[n]] = "due"
    BY <1>1, <1>3, <1>4 DEF PrinterInv, QueueOK, PopFacts, h
  <2>2. \A m, n \in DOMAIN queue' : queue'[m] = queue'[n] => m = n
    <3> SUFFICES ASSUME NEW m \in DOMAIN queue', NEW n \in DOMAIN queue', queue'[m] = queue'[n]
                 PROVE  m = n
      OBVIOUS
    <3>1. m + 1 = n + 1
      BY <1>1 DEF PrinterInv, QueueOK, PopFacts
    <3> QED
      BY <1>1, <3>1
  <2> QED
    BY <2>1, <2>2 DEF QueueOK
<1>7. DueOK'
  <2> SUFFICES ASSUME NEW n \in DOMAIN fate', fate'[n] = "due"
               PROVE  \/ \E m \in DOMAIN queue' : queue'[m] = n
                      \/ at'[owner'[n]] # "idle" /\ record'[owner'[n]] = n
    BY DEF DueOK
  <2>1. n # h /\ fate[n] = "due"
    <3>1. CASE h = Shutdown
      <4>1. n # Shutdown
        BY <1>4 DEF Shutdown
      <4> QED
        BY <1>4, <3>1, <4>1
    <3>2. CASE h # Shutdown
      BY <1>4, <3>2 DEF h
    <3> QED
      BY <3>1, <3>2
  <2>2. CASE \E m \in DOMAIN queue : queue[m] = n
    <3>1. PICK m \in DOMAIN queue : queue[m] = n
      BY <2>2
    <3>2. m # 1
      BY <2>1, <3>1 DEF h
    <3> QED
      BY <1>1, <3>1, <3>2 DEF PopFacts
  <2>3. CASE at[owner[n]] # "idle" /\ record[owner[n]] = n
    BY <2>3
  <2> QED
    BY <1>4, <2>1, <2>2, <2>3 DEF PrinterInv, DueOK
<1>8. HandsOK'
  <2>1. \A w \in Workers : at'[w] # "idle" =>
          record'[w] \in DOMAIN fate' /\ fate'[record'[w]] = "due" /\ owner'[record'[w]] = w
    BY <1>4, <1>5 DEF PrinterInv, HandsOK, h
  <2>2. \A w \in Workers : at'[w] # "idle" =>
          \A n \in DOMAIN queue' : queue'[n] # record'[w]
    <3>1. \A n \in DOMAIN queue' : \E m \in DOMAIN queue : queue'[n] = queue[m]
      BY <1>1 DEF PopFacts
    <3>2. \A w \in Workers : at[w] # "idle" => \A m \in DOMAIN queue : queue[m] # record[w]
      BY DEF PrinterInv, HandsOK
    <3>3. at' = at /\ record' = record
      OBVIOUS
    <3> QED
      BY <3>1, <3>2, <3>3
  <2>3. \A w \in Workers : at'[w] # "idle" => (Ended' => Died' /\ w \in Scans)
    BY DEF PrinterInv, HandsOK, Ended, Died
  <2> QED
    BY <2>1, <2>2, <2>3 DEF HandsOK
<1> QED
  BY <1>2, <1>3, <1>4, <1>6, <1>7, <1>8 DEF h

\* The thread takes the head: the marker ends it, a result is written next.
LEMMA GetKeeps ==
  ASSUME PrinterInv, interrupts \in Nat, Get
  PROVE  PrinterInv'
<1> DEFINE h == Head(queue)
<1>1. /\ queue # << >> /\ queue' = Tail(queue) /\ printer = "get"
      /\ UNCHANGED <<run, quiet, at, record, owner, stopped, warned, failed, stalled>>
      /\ UNCHANGED <<fin, finished, marker, pressed, finEnd, interrupts>>
  BY DEF Get, finishVars
<1>2. \/ h = Shutdown /\ printer' = "drained" /\ fate' = fate
      \/ h # Shutdown /\ pressed = 2 /\ fate' = [fate EXCEPT ![h] = "dead"] /\ printer' = printer
      \/ h # Shutdown /\ fate' = [fate EXCEPT ![h] = "writing"] /\ printer' = "write"
  BY DEF Get
<1>3. fate \in Seq(Fates) /\ Shutdown \notin DOMAIN fate
  BY DEF PrinterInv, PrinterTypes, PrinterTypeOK, Fates, Shutdown
<1>4. h # Shutdown => h \in DOMAIN fate
  <2>1. 1 \in DOMAIN queue /\ queue[1] = h
    BY <1>1, Popped DEF PrinterInv, PrinterTypes
  <2> QED
    BY <2>1 DEF PrinterInv, QueueOK
<1> HIDE DEF h
<1>5. /\ fate' \in Seq(Fates) /\ Len(fate') = Len(fate)
      /\ \A n \in DOMAIN fate : n # h => fate'[n] = fate[n]
      /\ h # Shutdown => /\ fate'[h] \in {"dead", "writing"}
                         /\ fate'[h] = "dead" => pressed = 2
                         /\ fate'[h] = "writing" => printer' = "write"
  <2>1. "dead" \in Fates /\ "writing" \in Fates
    BY DEF Fates
  <2> QED
    BY <1>2, <1>3, <1>4, <2>1
<1>6. /\ PopFacts /\ DOMAIN fate' = DOMAIN fate
      /\ \A n \in DOMAIN queue' : queue'[n] # h
      /\ QueueOK' /\ DueOK' /\ HandsOK'
  <2>1. h # Shutdown => fate'[h] # "due"
    BY <1>5
  <2> QED
    BY <1>1, <1>5, <2>1, PopHolds, PopKeeps DEF h
<1>7. PrinterTypes'
  <2>1. \A n \in DOMAIN queue' : queue'[n] = Shutdown \/ fate'[queue'[n]] = "due"
    BY <1>6 DEF QueueOK, Shutdown
  <2>2. Len(queue') <= QueueMax
    BY <1>6, TransferPrinterAssumption DEF PrinterInv, PrinterTypes, PrinterTypeOK, PopFacts
  <2>3. printer' \in {"off", "get", "write", "drained"}
    BY <1>1, <1>2
  <2> QED
    BY <1>1, <1>5, <1>6, <2>1, <2>2, <2>3 DEF PrinterInv, PrinterTypes, PrinterTypeOK, Fates
<1>8. MarkerOK'
  <2>1. \A m, n \in DOMAIN queue' :
          queue'[m] = Shutdown /\ m < n => owner[queue'[n]] \in Scans /\ Died
    <3> SUFFICES ASSUME NEW m \in DOMAIN queue', NEW n \in DOMAIN queue',
                        queue'[m] = Shutdown, m < n
                 PROVE  owner[queue'[n]] \in Scans /\ Died
      OBVIOUS
    <3>1. m + 1 < n + 1 /\ m + 1 \in DOMAIN queue /\ n + 1 \in DOMAIN queue
      BY <1>6 DEF PopFacts
    <3>2. queue[m + 1] = Shutdown /\ queue'[n] = queue[n + 1]
      BY <1>6 DEF PopFacts
    <3> QED
      BY <3>1, <3>2 DEF PrinterInv, MarkerOK, Stray
  <2>2. CASE h = Shutdown
    <3>1. marker = "in"
      BY <1>6, <2>2 DEF PrinterInv, MarkerOK, PopFacts, h
    <3>2. \A n \in DOMAIN queue' : owner[queue'[n]] \in Scans /\ Died
      BY <1>6, <2>2 DEF PrinterInv, MarkerOK, PopFacts, h, Stray
    <3>3. \A n \in DOMAIN queue' : queue'[n] # Shutdown
      BY <1>6, <2>2
    <3> QED
      BY <1>1, <2>1, <3>1, <3>2, <3>3 DEF MarkerOK, Stray, Died
  <2>3. CASE h # Shutdown
    <3>1. printer' # "drained"
      BY <1>1, <1>2, <2>3
    <3>2. \A n \in DOMAIN queue' : queue'[n] = Shutdown => marker = "in"
      BY <1>6 DEF PrinterInv, MarkerOK, PopFacts
    <3> QED
      BY <1>1, <2>1, <3>1, <3>2 DEF MarkerOK, Stray, Died
  <2> QED
    BY <2>2, <2>3
<1>9. FatesOK'
  <2>1. \A n \in DOMAIN fate : fate[n] # "writing"
    BY <1>1 DEF PrinterInv, FatesOK
  <2>2. \A n \in DOMAIN fate : fate'[n] = fate[n] \/ (n = h /\ h # Shutdown)
    BY <1>3, <1>5
  <2>3. \A n \in DOMAIN fate' : fate'[n] = "writing" => printer' = "write"
    BY <1>5, <1>6, <2>1, <2>2
  <2>4. \A m, n \in DOMAIN fate' : fate'[m] = "writing" /\ fate'[n] = "writing" => m = n
    BY <1>6, <2>1, <2>2
  <2>5. \A n \in DOMAIN fate' : fate'[n] = "dead" => pressed' = 2
    BY <1>1, <1>5, <1>6, <2>2 DEF PrinterInv, FatesOK
  <2>6. \A n \in DOMAIN fate' : fate'[n] \in {"dropped", "discarded"} =>
                                owner'[n] \in Scans /\ Died'
    BY <1>1, <1>5, <1>6, <2>2 DEF PrinterInv, FatesOK, Stray, Died
  <2> QED
    BY <2>3, <2>4, <2>5, <2>6 DEF FatesOK, Stray
<1>10. NothingYet'
  BY DEF PrinterInv, NothingYet, Get
<1>11. FinishOK'
  BY DEF PrinterInv, FinishOK, Ended, finishVars, Get
<1> QED
  BY <1>6, <1>7, <1>8, <1>9, <1>10, <1>11 DEF PrinterInv

\* finish throws away what stands behind the marker.
LEMMA DiscardKeeps ==
  ASSUME PrinterInv, interrupts \in Nat, Discard
  PROVE  PrinterInv'
<1> DEFINE h == Head(queue)
<1>1. /\ fin = "discarding" /\ printer = "drained"
      /\ UNCHANGED <<run, quiet, at, record, owner, stopped, warned, failed, printer, stalled>>
      /\ UNCHANGED <<finished, marker, pressed, interrupts>>
  BY DEF PrinterInv, FinishOK, Discard
<1>2. CASE queue = << >>
  <2>1. queue' = queue /\ fate' = fate /\ fin' = "over"
        /\ finEnd' = IF pressed > 0 THEN "interrupt" ELSE "ok"
    BY <1>2 DEF Discard, FinishOver
  <2>2. Ended /\ finished
    BY <1>1 DEF PrinterInv, FinishOK
  <2> USE <1>1, <2>1, <2>2 DEF PrinterInv
  <2>3. PrinterTypes'
    BY DEF PrinterTypes, PrinterTypeOK
  <2>4. NothingYet'
    BY DEF NothingYet
  <2>5. HandsOK'
    BY DEF HandsOK, Died
  <2>6. QueueOK'
    BY DEF QueueOK
  <2>7. MarkerOK'
    BY DEF MarkerOK, Stray, Died
  <2>8. DueOK'
    BY DEF DueOK
  <2>9. FatesOK'
    BY DEF FatesOK, Stray, Died
  <2>10. FinishOK'
    BY DEF FinishOK, Ended
  <2> QED
    BY <2>3, <2>4, <2>5, <2>6, <2>7, <2>8, <2>9, <2>10
<1>3. CASE queue # << >>
  <2>1. /\ queue' = Tail(queue) /\ UNCHANGED <<fin, finEnd>>
        /\ fate' = IF h = Shutdown THEN fate ELSE [fate EXCEPT ![h] = "discarded"]
    BY <1>3 DEF Discard
  <2>2. 1 \in DOMAIN queue /\ queue[1] = h
    BY <1>3, Popped DEF PrinterInv, PrinterTypes
  <2>3. h # Shutdown /\ Stray(h) /\ h \in DOMAIN fate
    <3>1. h # Shutdown /\ Stray(h)
      BY <1>1, <2>2 DEF PrinterInv, MarkerOK
    <3> QED
      BY <2>2, <3>1 DEF PrinterInv, QueueOK
  <2>4. fate \in Seq(Fates)
    BY DEF PrinterInv, PrinterTypes, PrinterTypeOK, Fates
  <2> HIDE DEF h
  <2>5. /\ fate' \in Seq(Fates) /\ Len(fate') = Len(fate)
        /\ \A n \in DOMAIN fate : n # h => fate'[n] = fate[n]
        /\ fate'[h] = "discarded"
    <3>1. "discarded" \in Fates
      BY DEF Fates
    <3> QED
      BY <2>1, <2>3, <2>4, <3>1
  <2>6. /\ PopFacts /\ DOMAIN fate' = DOMAIN fate
        /\ QueueOK' /\ DueOK' /\ HandsOK'
    <3>1. fate'[h] # "due"
      BY <2>5
    <3> QED
      BY <1>1, <1>3, <2>1, <2>5, <3>1, PopHolds, PopKeeps DEF h
  <2>7. PrinterTypes'
    <3>1. \A n \in DOMAIN queue' : queue'[n] = Shutdown \/ fate'[queue'[n]] = "due"
      BY <2>6 DEF QueueOK, Shutdown
    <3>2. Len(queue') <= QueueMax
      BY <2>6, TransferPrinterAssumption DEF PrinterInv, PrinterTypes, PrinterTypeOK, PopFacts
    <3> QED
      BY <1>1, <2>1, <2>5, <2>6, <3>1, <3>2 DEF PrinterInv, PrinterTypes, PrinterTypeOK,
             PopFacts, Fates
  <2>8. MarkerOK'
    <3>1. marker = "in" /\ \A n \in DOMAIN queue : owner[queue[n]] \in Scans /\ Died
      BY <1>1 DEF PrinterInv, MarkerOK, Stray
    <3>2. \A n \in DOMAIN queue' : owner[queue'[n]] \in Scans /\ Died
      BY <2>6, <3>1 DEF PopFacts
    <3>3. \A n \in DOMAIN queue' : queue'[n] # Shutdown
      BY <1>1, <2>6 DEF PrinterInv, MarkerOK, PopFacts
    <3> QED
      BY <1>1, <3>1, <3>2, <3>3 DEF MarkerOK, Stray, Died
  <2>9. FatesOK'
    <3>1. \A n \in DOMAIN fate : fate'[n] = fate[n] \/ (n = h /\ fate'[n] = "discarded")
      BY <2>5
    <3>2. \A n \in DOMAIN fate' : fate'[n] # "writing"
      BY <1>1, <2>6, <3>1 DEF PrinterInv, FatesOK
    <3>3. \A n \in DOMAIN fate' : fate'[n] = "dead" => pressed' = 2
      BY <1>1, <2>6, <3>1 DEF PrinterInv, FatesOK
    <3>4. \A n \in DOMAIN fate' : fate'[n] \in {"dropped", "discarded"} =>
                                  owner'[n] \in Scans /\ Died'
      BY <1>1, <2>3, <2>6, <3>1 DEF PrinterInv, FatesOK, Stray, Died
    <3> QED
      BY <3>2, <3>3, <3>4 DEF FatesOK, Stray
  <2>10. NothingYet'
    BY <1>1 DEF PrinterInv, NothingYet
  <2>11. FinishOK'
    BY <1>1, <2>1 DEF PrinterInv, FinishOK, Ended
  <2> QED
    BY <2>6, <2>7, <2>8, <2>9, <2>10, <2>11 DEF PrinterInv
<1> QED
  BY <1>2, <1>3

\* A worker reports a result: it is due in its hand, or has no line.
LEMMA CountKeeps ==
  ASSUME PrinterInv, interrupts \in Nat, NEW w \in Workers, Count(w)
  PROVE  PrinterInv'
<1> DEFINE new == Len(fate) + 1
<1>1. /\ at[w] = "idle" /\ Alive(w) /\ Len(fate) < MaxResults
      /\ UNCHANGED <<run, quiet, queue, printer, stalled>>
      /\ UNCHANGED <<fin, finished, marker, pressed, finEnd, interrupts>>
  BY DEF Count, threadVars, finishVars
<1>2. PICK kind \in Kinds :
        LET passes == ~stopped \/ kind = "notice" IN
        /\ warned' = warned + (IF passes /\ kind = "warned" THEN 1 ELSE 0)
        /\ failed' = failed + (IF passes /\ kind = "failed" THEN 1 ELSE 0)
        /\ stopped' = (stopped \/ kind = "cancelled")
        /\ owner' = Append(owner, w)
        /\ IF passes /\ Shown(kind)
           THEN /\ fate' = Append(fate, "due")
                /\ at' = [at EXCEPT ![w] = "counted"]
                /\ record' = [record EXCEPT ![w] = Len(fate')]
           ELSE fate' = Append(fate, "silent") /\ UNCHANGED <<at, record>>
  BY DEF Count
<1>3. /\ fate \in Seq(Fates) /\ owner \in Seq(Workers) /\ Len(owner) = Len(fate)
      /\ Len(fate) \in Nat /\ warned \in Nat /\ failed \in Nat /\ stopped \in BOOLEAN
      /\ at \in [Workers -> {"idle", "counted", "putting"}]
      /\ record \in [Workers -> 0 .. MaxResults] /\ MaxResults \in Nat
      /\ warned + failed <= Len(fate)
  BY TransferPrinterAssumption DEF PrinterInv, PrinterTypes, PrinterTypeOK, Fates
<1>4. PICK fresh \in {"due", "silent"} :
        /\ fate' = Append(fate, fresh)
        /\ fresh = "due" => /\ at' = [at EXCEPT ![w] = "counted"]
                            /\ record' = [record EXCEPT ![w] = Len(fate')]
        /\ fresh = "silent" => UNCHANGED <<at, record>>
  BY <1>2
<1>5. /\ fate' \in Seq(Fates) /\ Len(fate') = new
      /\ DOMAIN fate = 1 .. Len(fate) /\ DOMAIN fate' = 1 .. new /\ fate'[new] = fresh
      /\ \A n \in DOMAIN fate : n \in DOMAIN fate' /\ fate'[n] = fate[n] /\ n < new
      /\ \A n \in DOMAIN fate' : n \in DOMAIN fate \/ n = new
  <2>1. "due" \in Fates /\ "silent" \in Fates
    BY DEF Fates
  <2>2. fresh \in Fates
    BY <1>4, <2>1
  <2> QED
    BY <1>3, <1>4, <2>2, Appended
<1>6. /\ owner' \in Seq(Workers) /\ Len(owner') = new /\ owner'[new] = w
      /\ \A n \in DOMAIN fate : owner'[n] = owner[n] /\ owner[n] \in Workers
  BY <1>2, <1>3, Appended
<1>7. /\ at' \in [Workers -> {"idle", "counted", "putting"}]
      /\ record' \in [Workers -> 0 .. MaxResults]
      /\ \A v \in Workers \ {w} : at'[v] = at[v] /\ record'[v] = record[v]
      /\ at'[w] # "idle" => fresh = "due" /\ record'[w] = new
      /\ fresh = "due" => at'[w] # "idle" /\ record'[w] = new
  <2>1. new \in 0 .. MaxResults /\ Len(fate') = new
    BY <1>1, <1>3, <1>5
  <2>2. CASE fresh = "due"
    <3>1. at' = [at EXCEPT ![w] = "counted"] /\ record' = [record EXCEPT ![w] = new]
      BY <1>4, <2>1, <2>2
    <3> HIDE DEF new
    <3> QED
      BY <1>3, <2>1, <2>2, <3>1
  <2>3. CASE fresh = "silent"
    BY <1>1, <1>3, <1>4, <2>3
  <2> QED
    BY <1>4, <2>2, <2>3
<1>8. /\ warned' \in Nat /\ failed' \in Nat /\ stopped' \in BOOLEAN
      /\ warned' + failed' <= new
      /\ run = "ok" => failed' = failed
  <2>1. run # "ok"
    BY <1>1 DEF Alive
  <2>2. CASE kind = "warned"
    BY <1>2, <1>3, <2>1, <2>2
  <2>3. CASE kind # "warned"
    BY <1>2, <1>3, <2>1, <2>3
  <2> QED
    BY <2>2, <2>3
<1>9. \A n \in DOMAIN queue :
        queue[n] # Shutdown => queue[n] \in DOMAIN fate /\ fate[queue[n]] = "due"
  BY DEF PrinterInv, QueueOK
<1>10. run # "off" /\ (Ended => Died /\ w \in Scans)
  BY <1>1 DEF Alive, Ended, Died
<1> HIDE DEF new
<1>11. PrinterTypes'
  <2>1. \A n \in DOMAIN queue' : queue'[n] = Shutdown' \/ fate'[queue'[n]] = "due"
    BY <1>1, <1>5, <1>9 DEF Shutdown
  <2>2. Len(fate') <= MaxResults /\ Len(owner') = Len(fate')
    BY <1>1, <1>3, <1>5, <1>6 DEF new
  <2> QED
    <3>1. {quiet', stopped', stalled', finished'} \subseteq BOOLEAN
      BY <1>1, <1>8 DEF PrinterInv, PrinterTypes, PrinterTypeOK
    <3>2. Len(queue') <= QueueMax /\ queue' \in Seq(Nat) /\ warned' + failed' <= Len(fate')
      BY <1>1, <1>5, <1>8 DEF PrinterInv, PrinterTypes, PrinterTypeOK
    <3>3. /\ run' \in {"off", "going", "ok", "batch", "fatal", "interrupt", "bug"}
          /\ printer' \in {"off", "get", "write", "drained"}
          /\ fin' \in {"off", "running", "flagged", "waiting", "discarding", "over"}
          /\ marker' \in {"none", "putting", "in"} /\ pressed' \in 0 .. 2
          /\ finEnd' \in {"none", "ok", "interrupt"}
      BY <1>1 DEF PrinterInv, PrinterTypes, PrinterTypeOK
    <3> QED
      BY <1>5, <1>6, <1>7, <1>8, <2>1, <2>2, <3>1, <3>2, <3>3
         DEF PrinterTypes, PrinterTypeOK, Fates
<1>12. NothingYet'
  BY <1>1, <1>10 DEF NothingYet
<1>13. HandsOK'
  <2> SUFFICES ASSUME NEW v \in Workers, at'[v] # "idle"
               PROVE  /\ record'[v] \in DOMAIN fate' /\ fate'[record'[v]] = "due"
                      /\ owner'[record'[v]] = v
                      /\ \A n \in DOMAIN queue' : queue'[n] # record'[v]
                      /\ Ended' => Died' /\ v \in Scans
    BY DEF HandsOK
  <2>1. Ended' = Ended /\ Died' = Died
    BY <1>1 DEF Ended, Died
  <2>2. CASE v = w
    <3>1. \A n \in DOMAIN queue : queue[n] # new
      <4>1. new \notin DOMAIN fate /\ new # Shutdown
        BY <1>3, <1>5 DEF new, Shutdown
      <4> QED
        BY <1>9, <4>1
    <3> QED
      BY <1>1, <1>3, <1>5, <1>6, <1>7, <1>10, <2>1, <2>2, <3>1 DEF new
  <2>3. CASE v # w
    BY <1>1, <1>5, <1>6, <1>7, <2>1, <2>3 DEF PrinterInv, HandsOK
  <2> QED
    BY <2>2, <2>3
<1>14. QueueOK'
  BY <1>1, <1>5, <1>9 DEF PrinterInv, QueueOK
<1>15. MarkerOK'
  <2>1. \A n \in DOMAIN queue : Stray(queue[n]) => queue[n] \in DOMAIN fate \/ queue[n] = Shutdown
    BY <1>9
  <2>2. \A m, n \in DOMAIN queue : queue[m] = Shutdown /\ m < n =>
          owner'[queue[n]] \in Scans /\ Died
    <3> SUFFICES ASSUME NEW m \in DOMAIN queue, NEW n \in DOMAIN queue,
                        queue[m] = Shutdown, m < n
                 PROVE  owner'[queue[n]] \in Scans /\ Died
      OBVIOUS
    <3>1. queue[n] # Shutdown
      <4>1. m # n
        BY DEF PrinterInv, PrinterTypes
      <4> QED
        BY <4>1 DEF PrinterInv, QueueOK
    <3> QED
      BY <1>6, <1>9, <3>1 DEF PrinterInv, MarkerOK, Stray
  <2>3. printer = "drained" => \A n \in DOMAIN queue : owner'[queue[n]] \in Scans /\ Died
    BY <1>6, <1>9 DEF PrinterInv, MarkerOK, Stray
  <2> QED
    BY <1>1, <2>2, <2>3 DEF PrinterInv, MarkerOK, Stray, Died
<1>16. DueOK'
  <2> SUFFICES ASSUME NEW n \in DOMAIN fate', fate'[n] = "due"
               PROVE  \/ \E m \in DOMAIN queue' : queue'[m] = n
                      \/ at'[owner'[n]] # "idle" /\ record'[owner'[n]] = n
    BY DEF DueOK
  <2>1. CASE n = new
    BY <1>5, <1>6, <1>7, <2>1
  <2>2. CASE n \in DOMAIN fate
    <3>1. fate[n] = "due" /\ owner'[n] = owner[n] /\ owner[n] \in Workers
      BY <1>5, <1>6, <2>2
    <3> QED
      BY <1>1, <1>7, <2>2, <3>1 DEF PrinterInv, DueOK
  <2> QED
    BY <1>5, <2>1, <2>2
<1>17. FatesOK'
  <2>1. fate'[new] \in {"due", "silent"}
    BY <1>5
  <2>2. \A n \in DOMAIN fate' : fate'[n] = "writing" => printer' = "write"
    BY <1>1, <1>5, <2>1 DEF PrinterInv, FatesOK
  <2>3. \A m, n \in DOMAIN fate' : fate'[m] = "writing" /\ fate'[n] = "writing" => m = n
    BY <1>5, <2>1 DEF PrinterInv, FatesOK
  <2>4. \A n \in DOMAIN fate' : fate'[n] = "dead" => pressed' = 2
    BY <1>1, <1>5, <2>1 DEF PrinterInv, FatesOK
  <2>5. \A n \in DOMAIN fate' : fate'[n] \in {"dropped", "discarded"} =>
                                owner'[n] \in Scans /\ Died'
    BY <1>1, <1>5, <1>6, <2>1 DEF PrinterInv, FatesOK, Stray, Died
  <2> QED
    BY <2>2, <2>3, <2>4, <2>5 DEF FatesOK, Stray
<1>18. FinishOK'
  <2>1. run = "ok" => failed' = 0
    BY <1>8 DEF PrinterInv, FinishOK
  <2> QED
    BY <1>1, <2>1 DEF PrinterInv, FinishOK, Ended
<1> QED
  BY <1>11, <1>12, <1>13, <1>14, <1>15, <1>16, <1>17, <1>18 DEF PrinterInv

-----------------------------------------------------------------------------
(* The invocation.                                                         *)

\* Interrupts are counted, and never undone.
Counted == interrupts' \in 0 .. MaxInterrupts /\ interrupts <= interrupts'

\* A step counts at most one Ctrl-C.
LEMMA Counting ==
  ASSUME interrupts \in 0 .. MaxInterrupts, CtrlC \/ UNCHANGED interrupts
  PROVE  Counted
BY InterruptsAssumption DEF Counted, CtrlC

\* A step elsewhere leaves the delete and the printer alone.
LEMMA ElsewhereKeeps ==
  ASSUME RmInv, PrinterInv, CommandInv, Counted, Elsewhere
  PROVE  RmInv' /\ PrinterInv'
<1>1. interrupts \in Nat /\ interrupts' \in Nat /\ interrupts <= interrupts'
  BY InterruptsAssumption DEF CommandInv, CommandTypes, Counted
<1>2. RmInv'
  BY <1>1 DEF Elsewhere, rmVars, RmInv, RmTypeOK, CallOK, AnswerOK, DeleteIsReported,
         HeldIsRaised
<1>3. PrinterInv'
  <2> USE <1>1 DEF Elsewhere, printerVars, resultVars, threadVars, finishVars
  <2>1. PrinterTypes'
    BY DEF PrinterInv, PrinterTypes, PrinterTypeOK
  <2>2. NothingYet'
    BY DEF PrinterInv, NothingYet
  <2>3. HandsOK'
    BY DEF PrinterInv, HandsOK, Ended, Died
  <2>4. QueueOK' /\ MarkerOK'
    BY DEF PrinterInv, QueueOK, MarkerOK, Stray, Died
  <2>5. DueOK' /\ FatesOK'
    BY DEF PrinterInv, DueOK, FatesOK, Stray, Died
  <2>6. FinishOK'
    BY DEF PrinterInv, FinishOK, Ended
  <2> QED
    BY <2>1, <2>2, <2>3, <2>4, <2>5, <2>6 DEF PrinterInv
<1> QED
  BY <1>2, <1>3

\* Nothing that ran failed, warned or was interrupted.
Spotless ==
  /\ run \in {"off", "ok"} /\ warned = 0 /\ failed = 0 /\ held = 0 /\ finEnd # "interrupt"
  /\ request \in {"none", "ok", "lost"}

\* Outside a transfer and a delete none of either has begun.
LEMMA SpotlessBefore ==
  ASSUME RmInv, PrinterInv, CommandInv, stage \notin {"transfer", "rm", "exit"}
  PROVE  Spotless /\ run = "off" /\ rm = "off" /\ fin = "off"
<1>1. run = "off" /\ rm = "off"
  BY DEF CommandInv, StageOK
<1>2. request = "none" /\ held = 0
  BY <1>1 DEF RmInv, CallOK
<1>3. fin = "off" /\ finEnd = "none" /\ warned = 0 /\ failed = 0
  BY <1>1 DEF PrinterInv, NothingYet
<1> QED
  BY <1>1, <1>2, <1>3 DEF Spotless

\* The codes an invocation ends with.
ExitCodes == {"0", "1", "2", "130", "252", "253", "254", "255", "raised", "returned"}

\* The code says no more and no less than what happened.
Fits(code, end) ==
  /\ code \in ExitCodes /\ end \in Ends
  /\ code = "252" =>
       /\ sent # "yes" /\ end \notin {"done", "failed", "rejected"}
       /\ stage \notin {"transfer", "rm"}
  /\ end # "shell" =>
       /\ code \in {"0", "returned"} => end \in {"none", "read", "done"} /\ Spotless
       /\ code = "2" => run = "ok" /\ failed = 0 /\ warned > 0
       /\ code = "254" => end \in {"answered", "rejected"}
       /\ code = "130" => interrupts > 0 \/ cancelled

\* An invocation that leaves with a code that fits keeps the invariant.
LEMMA LeaveKeeps ==
  ASSUME RmInv, PrinterInv, CommandInv, NEW code, NEW end, Leave(code, end), Fits(code, end),
         stage # "exit", rm \in {"off", "over"}, fin \in {"off", "over"}, Counted, Elsewhere
  PROVE  IInv'
<1>1. RmInv' /\ PrinterInv'
  BY ElsewhereKeeps
<1>2. /\ UNCHANGED <<rm, request, held, run, warned, failed, fin, finEnd>>
      /\ rc = "none"
  BY DEF Elsewhere, rmVars, printerVars, resultVars, finishVars, CommandInv, CommandTypes
<1>3. interrupts' \in 0 .. MaxInterrupts /\ (interrupts > 0 => interrupts' > 0)
  BY InterruptsAssumption DEF CommandInv, CommandTypes, Counted
<1> DEFINE after == CASE end \in {"done", "failed", "rejected"} -> "yes"
                      [] end = "handled" /\ sent = "no" -> "handled"
                      [] OTHER -> sent
<1>4. after \in {"no", "handled", "yes"} /\ (after = "yes" => sent = "yes" \/ end \in {"done", "failed", "rejected"})
  BY DEF CommandInv, CommandTypes
<1> HIDE DEF after
<1>5. CASE trial /\ code = "252"
  <2>1. /\ stage' = "fallback" /\ todo' = << >> /\ trial' = FALSE /\ command' = "none"
        /\ expansions' = 0 /\ UNCHANGED <<cancelled, rc>> /\ outcome' = end
        /\ sent' = after
    BY <1>5 DEF Leave, Goes, after
  <2>2. sent' # "yes" /\ end \in Ends /\ run = "off" /\ rm = "off"
    BY <1>4, <1>5, <2>1 DEF Fits, CommandInv, StageOK
  <2>3. CommandTypes'
    <3>1. 0 \in 0 .. MaxExpansions
      BY CommandLineAssumption
    <3>2. stage' = "exit" <=> rc' # "none"
      BY <1>2, <2>1
    <3>3. cancelled' \in BOOLEAN /\ trial' \in BOOLEAN
      BY <2>1 DEF CommandInv, CommandTypes
    <3> QED
      BY <1>3, <1>4, <2>1, <2>2, <3>1, <3>2, <3>3 DEF CommandTypes
  <2>4. StageOK'
    BY <1>2, <2>1, <2>2 DEF StageOK
  <2>5. ExitCodeTrue'
    BY <1>2, <2>1, <2>2 DEF ExitCodeTrue
  <2> QED
    BY <1>1, <2>3, <2>4, <2>5 DEF IInv, CommandInv
<1>6. CASE ~(trial /\ code = "252")
  <2>1. /\ stage' = "exit" /\ todo' = << >> /\ rc' = code /\ outcome' = end
        /\ UNCHANGED <<command, trial, expansions, cancelled>>
        /\ sent' = after
    BY <1>6 DEF Leave, Goes, after
  <2>2. CommandTypes'
    BY <1>2, <1>3, <1>4, <2>1 DEF CommandInv, CommandTypes, Fits, ExitCodes
  <2>3. StageOK'
    BY <1>2, <2>1 DEF StageOK
  <2>4. rc' = "252" => sent' # "yes"
    BY <1>4, <2>1 DEF Fits
  <2>5. ExitCodeTrue'
    BY <1>2, <1>3, <2>1, <2>4 DEF ExitCodeTrue, Fits, Spotless
  <2> QED
    BY <1>1, <2>2, <2>3, <2>5 DEF IInv, CommandInv
<1> QED
  BY <1>5, <1>6

\* Refused, or done, before anything but one request began.
Plain(code, end) ==
  /\ code \in {"0", "1", "252", "253", "254", "255", "raised"} /\ end \in Ends
  /\ code = "252" => sent # "yes" /\ end \notin {"done", "failed", "rejected"}
  /\ code = "0" => end \in {"none", "shell", "read", "done"}
  /\ code = "254" => end \in {"answered", "rejected"}

\* A plain code fits wherever neither a transfer nor a delete has begun.
LEMMA LeavePlainKeeps ==
  ASSUME RmInv, PrinterInv, CommandInv, NEW code, NEW end, Leave(code, end), Plain(code, end),
         stage \notin {"transfer", "rm", "exit"}, Counted, Elsewhere
  PROVE  IInv'
<1>1. Spotless /\ rm = "off" /\ fin = "off"
  BY SpotlessBefore
<1>2. Fits(code, end)
  BY <1>1 DEF Fits, Plain, ExitCodes
<1> QED
  BY <1>1, <1>2, LeaveKeeps

\* The exit codes of a failure: 254 only for an answer of the service, which is told from
\* what nobody answered by how the run is said to have ended.
LEMMA FailureCodes ==
  ASSUME NEW failure, NEW code \in Codes(failure), NEW end \in Ends
  PROVE  /\ code \in {"0", "252", "253", "254", "255", "raised"}
         /\ EndedBy(failure, end) \in Ends
         /\ code = "254" => EndedBy(failure, end) \in {"answered", "rejected"}
         /\ code \in {"0", "252"} => EndedBy(failure, end) = end
<1>1. /\ ExitCodeFor(failure) \in {"0", "252", "253", "254", "255"}
      /\ ExitCodeFor(failure) = "254" => failure.server
      /\ ExitCodeFor(failure) \in {"0", "252"} => ~failure.server
  BY DEF ExitCodeFor
<1>2. code = ExitCodeFor(failure) \/ code \in {"255", "raised"}
  BY DEF Codes
<1>3. EndedBy(failure, end) \in Ends
  BY DEF EndedBy, Ends
<1>4. /\ failure.server => EndedBy(failure, end) \in {"answered", "rejected"}
      /\ ~failure.server => EndedBy(failure, end) = end
  BY DEF EndedBy
<1> QED
  BY <1>1, <1>2, <1>3, <1>4

\* The places an invocation passes through before a command runs, and in one.
Before == {"startup", "library", "top", "layer", "value", "resolve", "leaf", "gates",
           "prompt", "fallback", "rebuild"}

\* A move between the layers begins nothing, but for the op of rb --force.
LEMMA MoveKeeps ==
  ASSUME RmInv, PrinterInv, CommandInv, stage \in Before, stage' \in Before \cup {"op"},
         stage' = "op" => todo' = << >>,
         command' \in Commands \cup {"none", "transfer"}, trial' \in BOOLEAN,
         expansions' \in 0 .. MaxExpansions, UNCHANGED <<outcome, cancelled, rc>>,
         UNCHANGED sent \/ (stage' = "op" /\ command' = "rb" /\ sent' = "yes"),
         Counted, Elsewhere
  PROVE  IInv'
<1>1. RmInv' /\ PrinterInv'
  BY ElsewhereKeeps
<1>2. UNCHANGED <<rm, run, fin>> /\ rc = "none" /\ rm = "off" /\ run = "off" /\ sent # "yes"
  BY DEF Elsewhere, rmVars, printerVars, finishVars, CommandInv, CommandTypes, StageOK, Before
<1>3. CommandTypes'
  BY <1>2 DEF CommandInv, CommandTypes, Counted, Before
<1>4. StageOK'
  BY <1>2 DEF StageOK, Before
<1>5. ExitCodeTrue'
  BY <1>2 DEF ExitCodeTrue
<1> QED
  BY <1>1, <1>3, <1>4, <1>5 DEF IInv, CommandInv

\* The next gate passes.
LEMMA PassesKeeps ==
  ASSUME RmInv, PrinterInv, CommandInv, Passes
  PROVE  IInv'
<1>1. Counted
  BY Counting DEF Passes, CommandInv, CommandTypes
<1>2. RmInv' /\ PrinterInv'
  BY <1>1, ElsewhereKeeps DEF Passes
<1>3. /\ UNCHANGED <<stage, command, trial, expansions, sent, outcome, cancelled, rc>>
      /\ UNCHANGED <<rm, request, held, run, warned, failed, fin, finEnd, interrupts>>
      /\ stage \notin {"transfer", "rm", "op"}
  BY DEF Passes, Elsewhere, resultOfRun, rmVars, printerVars, resultVars, finishVars,
         CommandInv, StageOK
<1>4. CommandTypes' /\ StageOK' /\ ExitCodeTrue'
  BY <1>3 DEF CommandInv, CommandTypes, StageOK, ExitCodeTrue
<1> QED
  BY <1>2, <1>4 DEF IInv, CommandInv

\* A gate refuses the invocation.
LEMMA RefusedKeeps ==
  ASSUME RmInv, PrinterInv, CommandInv, Refused
  PROVE  IInv'
<1>1. PICK failure \in Head(todo).failures : \E code \in Codes(failure) :
        Leave(code, EndedBy(failure, "none"))
  BY DEF Refused
<1>2. PICK code \in Codes(failure) : Leave(code, EndedBy(failure, "none"))
  BY <1>1
<1>3. stage \notin {"transfer", "rm", "op", "exit"} /\ sent # "yes"
  BY DEF Refused, CommandInv, StageOK
<1> DEFINE end == EndedBy(failure, "none")
<1>4. Plain(code, end)
  <2>1. "none" \in Ends
    BY DEF Ends
  <2>2. /\ code \in {"0", "252", "253", "254", "255", "raised"} /\ end \in Ends
        /\ code = "254" => end \in {"answered", "rejected"}
        /\ code \in {"0", "252"} => end = "none"
    BY <1>2, <2>1, FailureCodes
  <2> HIDE DEF end
  <2> QED
    BY <1>3, <2>2 DEF Plain
<1>5. Counted /\ Elsewhere
  BY Counting DEF Refused, CommandInv, CommandTypes
<1> QED
  BY <1>2, <1>3, <1>4, <1>5, LeavePlainKeeps

\* Ctrl-C before a command runs is exit 130.
LEMMA InterruptedKeeps ==
  ASSUME RmInv, PrinterInv, CommandInv, Interrupted
  PROVE  IInv'
<1>1. Counted
  BY Counting DEF Interrupted, CommandInv, CommandTypes
<1>2. RmInv' /\ PrinterInv'
  BY <1>1, ElsewhereKeeps DEF Interrupted
<1>3. /\ stage' = "exit" /\ todo' = << >> /\ rc' = "130"
      /\ UNCHANGED <<command, trial, expansions, sent, outcome, cancelled>>
      /\ UNCHANGED <<rm, fin>>
      /\ stage \notin {"transfer", "rm", "exit"}
      /\ interrupts' = interrupts + 1
  BY DEF Interrupted, Goes, CtrlC, Elsewhere, rmVars, printerVars, finishVars
<1>4. rm = "off" /\ fin = "off" /\ interrupts \in Nat
  BY <1>3, SpotlessBefore, InterruptsAssumption DEF CommandInv, CommandTypes
<1>5. CommandTypes'
  BY <1>1, <1>3 DEF CommandInv, CommandTypes, Counted
<1>6. StageOK'
  BY <1>3, <1>4 DEF StageOK
<1>7. ExitCodeTrue'
  BY <1>3, <1>4 DEF ExitCodeTrue
<1> QED
  BY <1>2, <1>5, <1>6, <1>7 DEF IInv, CommandInv

\* A step from one layer to another is a move.
LEMMA OnwardMoves ==
  ASSUME RmInv, PrinterInv, CommandInv, NEW place \in Before, NEW to \in Before, NEW gates,
         Onward(place, to, gates),
         command' \in Commands \cup {"none", "transfer"}, trial' \in BOOLEAN,
         expansions' \in 0 .. MaxExpansions
  PROVE  IInv'
<1>1. /\ stage \in Before /\ stage' \in Before /\ Elsewhere
      /\ UNCHANGED <<outcome, cancelled, rc, sent, interrupts>>
  BY DEF Onward, Goes, resultOfRun
<1>2. Counted
  BY <1>1, Counting DEF CommandInv, CommandTypes
<1>3. stage' # "op"
  BY <1>1 DEF Before
<1> QED
  BY <1>1, <1>2, <1>3, MoveKeeps

\* The types of the command and of the expansions.
LEMMA Expansions ==
  ASSUME CommandInv
  PROVE  /\ expansions \in 0 .. MaxExpansions /\ 0 \in 0 .. MaxExpansions /\ MaxExpansions \in Nat
         /\ command \in Commands \cup {"none", "transfer"} /\ trial \in BOOLEAN
BY CommandLineAssumption DEF CommandInv, CommandTypes

\* The prompt mode is resolved.
LEMMA ModeResolvedKeeps ==
  ASSUME RmInv, PrinterInv, CommandInv, ModeResolved
  PROVE  IInv'
<1>1. "startup" \in Before /\ "prompt" \in Before /\ "top" \in Before
  BY DEF Before
<1>2. /\ command' \in Commands \cup {"none", "transfer"} /\ trial' \in BOOLEAN
      /\ expansions' \in 0 .. MaxExpansions
  BY Expansions DEF ModeResolved
<1>3. Onward("startup", "prompt", << >>) \/ Onward("startup", "top", TopLevel)
  BY DEF ModeResolved
<1> QED
  BY <1>1, <1>2, <1>3, OnwardMoves

\* The prompt returns arguments to parse.
LEMMA PromptedKeeps ==
  ASSUME RmInv, PrinterInv, CommandInv, Prompted
  PROVE  IInv'
<1>1. {"prompt", "top", "fallback", "rebuild"} \subseteq Before
  BY DEF Before
<1>2. /\ command' \in Commands \cup {"none", "transfer"} /\ trial' \in BOOLEAN
      /\ expansions' \in 0 .. MaxExpansions
  BY Expansions DEF Prompted
<1>3. \/ Onward("prompt", "top", TopLevel)
      \/ Onward("fallback", "rebuild", Driver)
      \/ Onward("rebuild", "top", TopLevel)
  BY DEF Prompted
<1> QED
  BY <1>1, <1>2, <1>3, OnwardMoves

\* The prompt ends the invocation.
LEMMA PromptEndsKeeps ==
  ASSUME RmInv, PrinterInv, CommandInv, PromptEnds
  PROVE  IInv'
<1>1. Counted
  BY Counting DEF PromptEnds, CommandInv, CommandTypes
<1>2. RmInv' /\ PrinterInv'
  BY <1>1, ElsewhereKeeps DEF PromptEnds
<1>3. /\ stage' = "exit" /\ todo' = << >>
      /\ UNCHANGED <<command, trial, expansions, sent, outcome, interrupts>>
      /\ UNCHANGED <<rm, fin>>
      /\ stage \notin {"transfer", "rm", "op", "exit"}
      /\ \/ rc' \in {"252", "255"} /\ UNCHANGED cancelled
         \/ rc' = "130" /\ cancelled' = TRUE
  BY DEF PromptEnds, Goes, Elsewhere, rmVars, printerVars, finishVars
<1>4. rm = "off" /\ fin = "off" /\ sent # "yes"
  BY <1>3, SpotlessBefore DEF CommandInv, StageOK
<1>5. CommandTypes'
  BY <1>1, <1>3 DEF CommandInv, CommandTypes
<1>6. StageOK'
  BY <1>3, <1>4 DEF StageOK
<1>7. ExitCodeTrue'
  BY <1>3, <1>4 DEF ExitCodeTrue
<1> QED
  BY <1>2, <1>5, <1>6, <1>7 DEF IInv, CommandInv

\* A layer without an alias leads to the next.
LEMMA UnaliasedKeeps ==
  ASSUME RmInv, PrinterInv, CommandInv, Unaliased
  PROVE  IInv'
<1>1. {"top", "layer", "value", "resolve"} \subseteq Before
  BY DEF Before
<1>2. /\ command' \in Commands \cup {"none", "transfer"} /\ trial' \in BOOLEAN
      /\ expansions' \in 0 .. MaxExpansions
  BY Expansions DEF Unaliased
<1>3. \/ Onward("top", "layer", << >>)
      \/ Onward("layer", "resolve", << >>)
      \/ Onward("value", "layer", << >>)
      \/ Onward("value", "resolve", << >>)
  BY DEF Unaliased
<1> QED
  BY <1>1, <1>2, <1>3, OnwardMoves

\* An alias expands, until the depth is spent.
LEMMA ExpandsKeeps ==
  ASSUME RmInv, PrinterInv, CommandInv, Expands
  PROVE  IInv'
<1>1. Counted /\ Elsewhere /\ stage \in {"layer", "resolve"}
  BY Counting DEF Expands, CommandInv, CommandTypes
<1>2. CASE expansions < MaxExpansions
  <2>1. /\ stage' = "value" /\ expansions' = expansions + 1
        /\ UNCHANGED <<command, trial, sent, outcome, cancelled, rc>>
    BY <1>2 DEF Expands, Goes, resultOfRun
  <2>2. expansions' \in 0 .. MaxExpansions
    BY <1>2, <2>1, Expansions
  <2>3. stage \in Before /\ stage' \in Before /\ stage' # "op"
    BY <1>1, <2>1 DEF Before
  <2> QED
    BY <1>1, <2>1, <2>2, <2>3, Expansions, MoveKeeps
<1>3. CASE ~(expansions < MaxExpansions)
  <2>1. Leave("255", "none")
    BY <1>3 DEF Expands
  <2>2. Plain("255", "none")
    BY DEF Plain, Ends
  <2> QED
    BY <1>1, <2>1, <2>2, LeavePlainKeeps
<1> QED
  BY <1>2, <1>3

\* An alias runs a shell command, whose status is the exit code.
LEMMA ShellRunsKeeps ==
  ASSUME RmInv, PrinterInv, CommandInv, ShellRuns
  PROVE  IInv'
<1>1. PICK status \in {"0", "1", "252"} : Leave(status, "shell")
  BY DEF ShellRuns
<1>2. Counted /\ Elsewhere /\ stage \in {"layer", "resolve"}
  BY Counting DEF ShellRuns, CommandInv, CommandTypes
<1>3. sent # "yes"
  BY <1>2 DEF CommandInv, StageOK
<1>4. Plain(status, "shell")
  BY <1>3 DEF Plain, Ends
<1> QED
  BY <1>1, <1>2, <1>4, LeavePlainKeeps

\* No command is named.
LEMMA NoCommandKeeps ==
  ASSUME RmInv, PrinterInv, CommandInv, NoCommand
  PROVE  IInv'
<1>1. PICK failure \in {Shows, Usage} : \E code \in Codes(failure) : Leave(code, "none")
  BY DEF NoCommand
<1>2. PICK code \in Codes(failure) : Leave(code, "none")
  BY <1>1
<1>3. Counted /\ Elsewhere /\ stage = "resolve"
  BY Counting DEF NoCommand, CommandInv, CommandTypes
<1>4. sent # "yes"
  BY <1>3 DEF CommandInv, StageOK
<1>5. Plain(code, "none")
  <2>1. ~failure.server
    BY DEF Shows, Usage, Err
  <2>2. code \in {"0", "252", "253", "254", "255", "raised"}
    BY <1>2, FailureCodes DEF Ends
  <2>3. code # "254"
    BY <1>2, <2>1 DEF Codes, ExitCodeFor
  <2> QED
    BY <1>4, <2>2, <2>3 DEF Plain, Ends
<1> QED
  BY <1>2, <1>3, <1>5, LeavePlainKeeps

\* The command is resolved.
LEMMA ResolvesKeeps ==
  ASSUME RmInv, PrinterInv, CommandInv, Resolves
  PROVE  IInv'
<1>1. {"resolve", "value", "leaf"} \subseteq Before
  BY DEF Before
<1>2. /\ command' \in Commands \cup {"none", "transfer"} /\ trial' \in BOOLEAN
      /\ expansions' \in 0 .. MaxExpansions
  BY Expansions DEF Resolves
<1>3. Onward("resolve", "leaf", Leaf) \/ Onward("value", "leaf", Leaf)
  BY DEF Resolves
<1> QED
  BY <1>1, <1>2, <1>3, OnwardMoves

\* The gates of the command are next.
LEMMA RunsKeeps ==
  ASSUME RmInv, PrinterInv, CommandInv, Runs
  PROVE  IInv'
<1>1. "leaf" \in Before /\ "gates" \in Before
  BY DEF Before
<1>2. /\ command' \in Commands \cup {"none", "transfer"} /\ trial' \in BOOLEAN
      /\ expansions' \in 0 .. MaxExpansions
  BY Expansions DEF Runs, Operation
<1>3. Onward("leaf", "gates", GatesOf[command])
  BY DEF Runs
<1> QED
  BY <1>1, <1>2, <1>3, OnwardMoves

\* A command begins that has a part of its own.
LEMMA TransferStartsKeeps ==
  ASSUME RmInv, PrinterInv, CommandInv, TransferStarts
  PROVE  IInv'
<1>1. /\ stage = "gates" /\ stage' = "transfer" /\ todo' = << >> /\ trial' = FALSE
      /\ UNCHANGED <<command, expansions, sent, outcome, cancelled, rc, interrupts>>
      /\ UNCHANGED rmVars /\ PrinterStarts
  BY DEF TransferStarts, Goes, resultOfRun, PrinterStarts
<1>2. sent # "yes" /\ rm = "off" /\ rc = "none" /\ interrupts \in Nat
  BY <1>1, InterruptsAssumption DEF CommandInv, CommandTypes, StageOK
<1>3. RmInv'
  BY <1>1 DEF rmVars, RmInv, RmTypeOK, CallOK, AnswerOK, DeleteIsReported, HeldIsRaised
<1>4. PrinterInv'
  BY <1>1, <1>2, PrinterStartsKeeps
<1>5. CommandTypes'
  BY <1>1 DEF CommandInv, CommandTypes
<1>6. StageOK'
  BY <1>1, <1>2 DEF rmVars, StageOK
<1>7. ExitCodeTrue'
  BY <1>1, <1>2 DEF ExitCodeTrue
<1> QED
  BY <1>3, <1>4, <1>5, <1>6, <1>7 DEF IInv, CommandInv

\* A delete that is called starts from nothing.
LEMMA RmCalledKeeps ==
  ASSUME RmInv, NEW tokens \in SUBSET {"none", "live"}, RmCalled(tokens)
  PROVE  RmInv'
BY DEF RmCalled, RmInv, RmTypeOK, CallOK, AnswerOK, DeleteIsReported, HeldIsRaised

\* A delete begins with nothing behind it.
LEMMA DeleteBegins ==
  ASSUME RmInv, PrinterInv, CommandInv, stage \in {"gates", "library"},
         stage' = "rm", todo' = << >>, NEW tokens \in SUBSET {"none", "live"}, RmCalled(tokens),
         UNCHANGED <<command, trial, expansions, sent, outcome, cancelled, rc, printerVars>>
  PROVE  IInv'
<1>1. RmInv' /\ UNCHANGED interrupts
  BY RmCalledKeeps DEF RmCalled
<1>2. PrinterInv'
  <2> USE <1>1 DEF printerVars, resultVars, threadVars, finishVars
  <2>1. PrinterTypes'
    BY DEF PrinterInv, PrinterTypes, PrinterTypeOK
  <2>2. NothingYet' /\ HandsOK'
    BY DEF PrinterInv, NothingYet, HandsOK, Ended, Died
  <2>3. QueueOK' /\ MarkerOK'
    BY DEF PrinterInv, QueueOK, MarkerOK, Stray, Died
  <2>4. DueOK' /\ FatesOK'
    BY DEF PrinterInv, DueOK, FatesOK, Stray, Died
  <2>5. FinishOK'
    BY DEF PrinterInv, FinishOK, Ended
  <2> QED
    BY <2>1, <2>2, <2>3, <2>4, <2>5 DEF PrinterInv
<1>3. sent # "yes" /\ rc = "none" /\ run = "off" /\ run' = run
  BY DEF CommandInv, CommandTypes, StageOK, printerVars
<1>4. CommandTypes'
  BY <1>1 DEF CommandInv, CommandTypes
<1>5. StageOK' /\ ExitCodeTrue'
  BY <1>3 DEF StageOK, ExitCodeTrue
<1> QED
  BY <1>1, <1>2, <1>4, <1>5 DEF IInv, CommandInv

\* rm of one key begins.
LEMMA RmStartsKeeps ==
  ASSUME RmInv, PrinterInv, CommandInv, RmStarts
  PROVE  IInv'
<1>1. /\ stage = "gates" /\ stage' = "rm" /\ todo' = << >> /\ RmCalled({"none"})
      /\ UNCHANGED <<command, trial, expansions, sent, outcome, cancelled, rc, printerVars>>
  BY DEF RmStarts, Span, Goes, resultOfRun
<1>2. {"none"} \in SUBSET {"none", "live"}
  OBVIOUS
<1> QED
  BY <1>1, <1>2, DeleteBegins

\* A program calls the library itself.
LEMMA LibraryCallsKeeps ==
  ASSUME RmInv, PrinterInv, CommandInv, LibraryCalls
  PROVE  IInv'
<1>1. /\ stage = "library" /\ stage' = "rm" /\ todo' = << >> /\ RmCalled({"none", "live"})
      /\ UNCHANGED <<command, trial, expansions, sent, outcome, cancelled, rc, printerVars>>
  BY DEF LibraryCalls, Goes, resultOfRun
<1>2. {"none", "live"} \in SUBSET {"none", "live"}
  OBVIOUS
<1> QED
  BY <1>1, <1>2, DeleteBegins

\* A command ends.
LEMMA TransferEndsKeeps ==
  ASSUME RmInv, PrinterInv, CommandInv, TransferEnds
  PROVE  IInv'
<1> DEFINE code == CASE finEnd = "interrupt" -> "130"
                     [] finEnd = "ok" /\ run = "ok" -> IF warned > 0 THEN "2" ELSE "0"
                     [] finEnd = "ok" /\ run = "bug" -> "raised"
                     [] OTHER -> "1"
           end == IF run = "ok" THEN "done" ELSE "failed"
<1>1. Leave(code, end) /\ stage = "transfer" /\ fin = "over" /\ Elsewhere
  BY DEF TransferEnds
<1>2. Counted
  BY Counting DEF TransferEnds, CommandInv, CommandTypes
<1>3. rm = "off" /\ request = "none" /\ held = 0
  BY <1>1 DEF CommandInv, StageOK, RmInv, CallOK
<1>4. code = "130" => interrupts > 0
  BY DEF PrinterInv, FinishOK
<1>5. warned \in Nat /\ (run = "ok" => failed = 0)
  BY DEF PrinterInv, PrinterTypes, FinishOK
<1>6. code \in {"130", "2", "0", "raised", "1"} /\ end \in Ends
  BY DEF Ends
<1>7. code = "2" => run = "ok" /\ warned > 0
  OBVIOUS
<1>8. code = "0" => run = "ok" /\ warned = 0 /\ finEnd = "ok" /\ end = "done"
  BY <1>5
<1> HIDE DEF code, end
<1>9. Fits(code, end)
  BY <1>3, <1>4, <1>5, <1>6, <1>7, <1>8 DEF Fits, ExitCodes, Spotless
<1> QED
  BY <1>1, <1>2, <1>3, <1>9, LeaveKeeps

\* rm of one key ends with the code of what it raised.
LEMMA RmEndsKeeps ==
  ASSUME RmInv, PrinterInv, CommandInv, RmEnds
  PROVE  IInv'
<1> DEFINE code == IF command = "rm" THEN SpanCode(rmEnd)
                   ELSE IF rmEnd = "ok" THEN "returned" ELSE "raised"
           end == CASE request = "none" -> IF rmEnd = "ok" THEN "read" ELSE "unsent"
                    [] OTHER -> IF rmEnd = "ok" THEN "done" ELSE "failed"
<1>1. Leave(code, end) /\ stage = "rm" /\ rm = "over" /\ Elsewhere
  BY DEF RmEnds
<1>2. Counted
  BY Counting DEF RmEnds, CommandInv, CommandTypes
<1>3. run = "off" /\ fin = "off" /\ finEnd = "none" /\ warned = 0 /\ failed = 0
  BY <1>1 DEF CommandInv, StageOK, PrinterInv, NothingYet
<1>4. rmEnd = "ok" => request \in {"none", "ok", "lost"} /\ held = 0
  BY <1>1 DEF RmInv, RmTypeOK, AnswerOK, HeldIsRaised
<1>5. code \in {"0", "1", "raised", "returned"} /\ end \in Ends
  BY DEF SpanCode, Ends
<1>6. code \in {"0", "returned"} => rmEnd = "ok" /\ end \in {"read", "done"}
  BY DEF SpanCode
<1> HIDE DEF code, end
<1>7. Fits(code, end)
  BY <1>3, <1>4, <1>5, <1>6 DEF Fits, ExitCodes, Spotless
<1> QED
  BY <1>1, <1>2, <1>3, <1>7, LeaveKeeps

\* A sweep that fails leaves with one of the codes of its failures.
LEMMA SweepFailsKeeps ==
  ASSUME RmInv, PrinterInv, CommandInv, NEW codes, SweepFails(codes), Elsewhere,
         \A end \in SweepFailures : codes[end] \in {"1", "255", "raised"},
         stage = "gates"
  PROVE  IInv'
<1>1. Counted
  BY Counting DEF SweepFails, CommandInv, CommandTypes
<1>2. PICK code \in {"1", "255", "raised"}, end \in {"failed", "unsent"} : Leave(code, end)
  BY DEF SweepFails, SweepFailures
<1>3. Plain(code, end)
  BY DEF Plain, Ends
<1> QED
  BY <1>1, <1>2, <1>3, LeavePlainKeeps

\* rm --recursive, whole.
LEMMA RmSweepsKeeps ==
  ASSUME RmInv, PrinterInv, CommandInv, RmSweeps
  PROVE  IInv'
<1>1. stage = "gates" /\ Elsewhere
  BY DEF RmSweeps
<1>2. ASSUME NEW end \in {"done", "read"}, Leave("0", end), UNCHANGED interrupts
      PROVE  IInv'
  <2>1. Plain("0", end)
    BY DEF Plain, Ends
  <2>2. Counted
    BY <1>2, Counting DEF CommandInv, CommandTypes
  <2> QED
    BY <1>1, <1>2, <2>1, <2>2, LeavePlainKeeps
<1>3. ASSUME SweepFails([end \in SweepFailures |-> SpanCode(end)])
      PROVE  IInv'
  <2> DEFINE codes == [end \in SweepFailures |-> SpanCode(end)]
  <2>1. \A end \in SweepFailures : codes[end] \in {"1", "255", "raised"}
    BY DEF SweepFailures, SpanCode
  <2> QED
    BY <1>1, <1>3, <2>1, SweepFailsKeeps
<1> QED
  BY <1>2, <1>3 DEF RmSweeps

\* The sweep of rb --force, whole: only after it the bucket goes.
LEMMA ForceSweepsKeeps ==
  ASSUME RmInv, PrinterInv, CommandInv, ForceSweeps
  PROVE  IInv'
<1>1. stage = "gates" /\ Elsewhere /\ sent # "yes" /\ command = "rb"
  BY DEF ForceSweeps, CommandInv, StageOK
<1>2. ASSUME SweepFails([end \in SweepFailures |-> ForceCode(end)])
      PROVE  IInv'
  <2> DEFINE codes == [end \in SweepFailures |-> ForceCode(end)]
  <2>1. ExitCodeFor(Value) = "255"
    BY DEF ExitCodeFor, Value, Err
  <2>2. \A end \in SweepFailures : codes[end] \in {"1", "255", "raised"}
    BY <2>1 DEF SweepFailures, ForceCode
  <2> QED
    BY <1>1, <1>2, <2>2, SweepFailsKeeps
<1>3. ASSUME NEW gate, NEW failure \in gate.failures, NEW code \in Codes(failure),
             Leave(code, EndedBy(failure, "none")), UNCHANGED interrupts
      PROVE  IInv'
  <2> DEFINE end == EndedBy(failure, "none")
  <2>1. Plain(code, end)
    <3>1. "none" \in Ends
      BY DEF Ends
    <3>2. /\ code \in {"0", "252", "253", "254", "255", "raised"} /\ end \in Ends
          /\ code = "254" => end \in {"answered", "rejected"}
          /\ code \in {"0", "252"} => end = "none"
      BY <1>3, <3>1, FailureCodes
    <3> HIDE DEF end
    <3> QED
      BY <1>1, <3>2 DEF Plain
  <2>2. Counted
    BY <1>3, Counting DEF CommandInv, CommandTypes
  <2> QED
    BY <1>1, <1>3, <2>1, <2>2, LeavePlainKeeps
<1>4. ASSUME Goes("op", << >>), sent' = "yes",
             UNCHANGED <<command, trial, expansions, outcome, cancelled, rc, interrupts>>
      PROVE  IInv'
  <2>1. Counted
    BY <1>4, Counting DEF CommandInv, CommandTypes
  <2>2. stage \in Before /\ stage' = "op" /\ todo' = << >>
    BY <1>1, <1>4 DEF Before, Goes
  <2>3. /\ command' \in Commands \cup {"none", "transfer"} /\ command' = "rb"
        /\ trial' \in BOOLEAN /\ expansions' \in 0 .. MaxExpansions
    BY <1>1, <1>4, Expansions
  <2> QED
    BY <1>1, <1>4, <2>1, <2>2, <2>3, MoveKeeps
<1> QED
  BY <1>2, <1>3, <1>4 DEF ForceSweeps

\* A command of one request begins.
LEMMA OpStartsKeeps ==
  ASSUME RmInv, PrinterInv, CommandInv, OpStarts
  PROVE  IInv'
<1>1. /\ stage = "gates" /\ stage' = "op" /\ todo' = << >> /\ Elsewhere
      /\ UNCHANGED <<command, trial, expansions, sent, outcome, cancelled, rc, interrupts>>
  BY DEF OpStarts, Span, Goes, resultOfRun
<1>2. Counted
  BY <1>1, Counting DEF CommandInv, CommandTypes
<1>3. stage \in Before
  BY <1>1 DEF Before
<1> QED
  BY <1>1, <1>2, <1>3, Expansions, MoveKeeps

\* What the library's calls of one request raise.
Raised == {Usage, Config, Unusable, General} \cup Rejections

\* No failure of a request is taken for a page of help.
LEMMA NeverShown ==
  ASSUME NEW failure \in Raised
  PROVE  "0" \notin Codes(failure)
<1>1. ExitCodeFor(failure) # "0"
  <2>1. CASE failure \in {Usage, Config, Unusable, General}
    BY <2>1 DEF Usage, Config, Unusable, General, Err, ExitCodeFor
  <2>2. CASE failure \in Rejections
    <3>1. failure.server = TRUE
      BY <2>2 DEF Rejections
    <3> QED
      BY <3>1 DEF ExitCodeFor
  <2> QED
    BY <2>1, <2>2 DEF Raised
<1> QED
  BY <1>1 DEF Codes

\* What a request raises decides the exit code.
LEMMA RaisesKeeps ==
  ASSUME RmInv, PrinterInv, CommandInv, NEW failures, NEW end \in {"unsent", "failed", "handled"},
         Raises(failures, end), stage = "op", sent # "yes", UNCHANGED interrupts, Elsewhere,
         failures \subseteq Raised,
         end = "failed" => \A failure \in failures : "252" \notin Codes(failure)
  PROVE  IInv'
<1>1. PICK failure \in failures : \E code \in Codes(failure) :
        Leave(code, EndedBy(failure, end))
  BY DEF Raises
<1>2. PICK code \in Codes(failure) : Leave(code, EndedBy(failure, end))
  BY <1>1
<1> DEFINE ended == EndedBy(failure, end)
<1>3. Plain(code, ended)
  <2>1. end \in Ends
    BY DEF Ends
  <2>2. /\ code \in {"0", "252", "253", "254", "255", "raised"} /\ ended \in Ends
        /\ code = "254" => ended \in {"answered", "rejected"}
        /\ code \in {"0", "252"} => ended = end
    BY <1>2, <2>1, FailureCodes
  <2>3. code # "0" /\ (code = "252" => end # "failed")
    BY <1>2, NeverShown
  <2> HIDE DEF ended
  <2> QED
    BY <2>2, <2>3 DEF Plain
<1>4. Counted
  BY Counting DEF CommandInv, CommandTypes
<1> QED
  BY <1>2, <1>3, <1>4, LeavePlainKeeps

\* mb and rb.
LEMMA BucketOpKeeps ==
  ASSUME RmInv, PrinterInv, CommandInv, BucketOp
  PROVE  IInv'
<1>1. stage = "op" /\ Elsewhere /\ Counted
  BY Counting DEF BucketOp, CommandInv, CommandTypes
<1>2. PICK code \in {"0", "1"}, end \in Ends : Leave(code, end) /\ (code = "0" => end = "done")
  <2>1. ASSUME NEW call, DOMAIN call \subseteq Ends, NEW end \in DOMAIN call,
               NEW failure \in call[end], Leave("1", EndedBy(failure, end))
        PROVE  \E e \in Ends : Leave("1", e)
    BY <2>1 DEF EndedBy, Ends
  <2>2. DOMAIN RbCall \subseteq Ends /\ DOMAIN MbCall \subseteq Ends
    BY DEF RbCall, MbCall, Single, Ends
  <2>3. "done" \in Ends
    BY DEF Ends
  <2> QED
    BY <2>1, <2>2, <2>3 DEF BucketOp
<1>3. Plain(code, end)
  BY <1>2 DEF Plain, Ends
<1> QED
  BY <1>1, <1>2, <1>3, LeavePlainKeeps

\* ls.
LEMMA ListOpKeeps ==
  ASSUME RmInv, PrinterInv, CommandInv, ListOp
  PROVE  IInv'
<1>1. stage = "op" /\ Elsewhere /\ UNCHANGED interrupts /\ sent # "yes"
  BY DEF ListOp, CommandInv, StageOK
<1>2. ASSUME NEW code \in {"0", "1"}, Leave(code, "read")
      PROVE  IInv'
  <2>1. Plain(code, "read")
    BY DEF Plain, Ends
  <2>2. Counted
    BY <1>1, Counting DEF CommandInv, CommandTypes
  <2> QED
    BY <1>1, <1>2, <2>1, <2>2, LeavePlainKeeps
<1>3. ASSUME Raises(LsCall.unsent, "unsent")
      PROVE  IInv'
  <2>1. LsCall.unsent \subseteq Raised
    BY DEF LsCall, Target, HandlerFails, Raised
  <2> QED
    BY <1>1, <1>3, <2>1, RaisesKeeps
<1> QED
  BY <1>2, <1>3 DEF ListOp

\* presign.
LEMMA PresignOpKeeps ==
  ASSUME RmInv, PrinterInv, CommandInv, PresignOp
  PROVE  IInv'
<1>1. stage = "op" /\ Elsewhere /\ UNCHANGED interrupts /\ sent # "yes"
  BY DEF PresignOp, CommandInv, StageOK
<1>2. ASSUME Leave("0", "read")
      PROVE  IInv'
  <2>1. Plain("0", "read")
    BY DEF Plain, Ends
  <2>2. Counted
    BY <1>1, Counting DEF CommandInv, CommandTypes
  <2> QED
    BY <1>1, <1>2, <2>1, <2>2, LeavePlainKeeps
<1>3. ASSUME Raises(PresignCall.unsent, "unsent")
      PROVE  IInv'
  <2>1. PresignCall.unsent \subseteq Raised
    BY DEF PresignCall, Target, Raised
  <2> QED
    BY <1>1, <1>3, <2>1, RaisesKeeps
<1> QED
  BY <1>2, <1>3 DEF PresignOp

\* Once a change was sent the library itself raises nothing a usage error is made of.
LEMMA SentRaises ==
  ASSUME NEW failure \in {General} \cup Rejections
  PROVE  "252" \notin Codes(failure)
<1>2. ExitCodeFor(failure) \in {"254", "255"}
  <2>1. CASE failure = General
    BY <2>1 DEF General, Err, ExitCodeFor
  <2>2. CASE failure \in Rejections
    <3>1. failure.server = TRUE
      BY <2>2 DEF Rejections
    <3> QED
      BY <3>1 DEF ExitCodeFor
  <2> QED
    BY <2>1, <2>2
<1> QED
  BY <1>2 DEF Codes

\* website.
LEMMA WebsiteOpKeeps ==
  ASSUME RmInv, PrinterInv, CommandInv, WebsiteOp
  PROVE  IInv'
<1>1. stage = "op" /\ Elsewhere /\ UNCHANGED interrupts /\ sent # "yes"
  BY DEF WebsiteOp, CommandInv, StageOK
<1>2. ASSUME Leave("0", "done")
      PROVE  IInv'
  <2>1. Plain("0", "done")
    BY DEF Plain, Ends
  <2>2. Counted
    BY <1>1, Counting DEF CommandInv, CommandTypes
  <2> QED
    BY <1>1, <1>2, <2>1, <2>2, LeavePlainKeeps
<1>3. ASSUME Raises(WebsiteCall["unsent"], "unsent")
      PROVE  IInv'
  <2>1. WebsiteCall["unsent"] \subseteq Raised
    BY DEF WebsiteCall, Single, Target, HandlerFails, Raised
  <2> QED
    BY <1>1, <1>3, <2>1, RaisesKeeps
<1>4. ASSUME Raises(WebsiteCall["failed"], "failed")
      PROVE  IInv'
  <2>1. \A failure \in WebsiteCall["failed"] : "252" \notin Codes(failure)
    BY SentRaises DEF WebsiteCall, Single
  <2>2. WebsiteCall["failed"] \subseteq Raised
    BY DEF WebsiteCall, Single, Raised
  <2> QED
    BY <1>1, <1>4, <2>1, <2>2, RaisesKeeps
<1>5. ASSUME Raises(WebsiteCall["handled"], "handled")
      PROVE  IInv'
  <2>1. WebsiteCall["handled"] \subseteq Raised
    BY DEF WebsiteCall, Single, HandlerFails, Raised
  <2> QED
    BY <1>1, <1>5, <2>1, RaisesKeeps
<1>6. DOMAIN WebsiteCall = {"unsent", "failed", "handled"}
  BY DEF WebsiteCall, Single
<1> QED
  BY <1>2, <1>3, <1>4, <1>5, <1>6 DEF WebsiteOp

-----------------------------------------------------------------------------
(* The threads of a delete, and of the printer.                            *)

\* The steps of a delete.
RmSteps == RmWorker \/ RmCaller \/ RmDisturbed

\* Every step of a delete keeps its invariant.
LEMMA RmStepsKeep ==
  ASSUME RmInv, interrupts \in Nat, RmSteps
  PROVE  RmInv'
BY TokenCancelsKeeps, RmRefusedKeeps, RmExcludedKeeps, RmDryrunKeeps, RmUnbuiltKeeps,
     RmSendsKeeps, RmSpawnInterruptedKeeps, WorkerBeginsKeeps, RequestEndsKeeps,
     RmGraceEndsKeeps, RmWaitInterruptedKeeps, RmSettledKeeps, RmSucceedsKeeps, RmFailsKeeps,
     RmLostKeeps, RmInterruptedKeeps
   DEF RmSteps, RmWorker, RmCaller, RmDisturbed

\* A delete that is over, or never began, stays as it is, but for a request that nobody
\* waits for.
LEMMA RmFrame ==
  ASSUME RmInv, RmSteps, rm \in {"off", "over"}
  PROVE  /\ UNCHANGED <<rm, held, interrupts>>
         /\ (request \notin {"queued", "out"} => request' = request)
<1>1. rm = "off" => request = "none"
  BY DEF RmInv, CallOK
<1> QED
  BY <1>1 DEF RmSteps, RmWorker, RmCaller, RmDisturbed, TokenCancels, RmRefused, RmExcluded,
         RmDryrun, RmUnbuilt, RmSends, RmSpawnInterrupted, WorkerBegins, RequestEnds,
         RmGraceEnds, RmWaitInterrupted, RmSettled, RmSucceeds, RmFails, RmLost, RmInterrupted

\* A step of a delete counts at most one Ctrl-C.
LEMMA RmCounts ==
  ASSUME RmSteps
  PROVE  CtrlC \/ UNCHANGED interrupts
BY DEF RmSteps, RmWorker, RmCaller, RmDisturbed, TokenCancels, RmRefused, RmExcluded, RmDryrun,
       RmUnbuilt, RmSends, RmSpawnInterrupted, WorkerBegins, RequestEnds, RmGraceEnds,
       RmWaitInterrupted, RmSettled, RmSucceeds, RmFails, RmLost, RmInterrupted

\* A step of a delete keeps the invariant of the whole.
LEMMA RmStepsInCommand ==
  ASSUME RmInv, PrinterInv, CommandInv, RmSteps, OutsideRm
  PROVE  IInv'
<1>1. Counted
  BY RmCounts, Counting DEF CommandInv, CommandTypes
<1>2. interrupts \in Nat /\ interrupts' \in Nat /\ interrupts <= interrupts'
  BY <1>1, InterruptsAssumption DEF CommandInv, CommandTypes, Counted
<1>3. RmInv'
  BY <1>2, RmStepsKeep
<1>4. /\ UNCHANGED <<stage, todo, command, trial, expansions, sent, outcome, cancelled, rc>>
      /\ UNCHANGED <<run, warned, failed, fin, finEnd>>
  BY DEF OutsideRm, placeVars, resultOfRun, printerVars, resultVars, finishVars
<1>5. PrinterInv'
  <2> USE <1>2 DEF OutsideRm, printerVars, resultVars, threadVars, finishVars
  <2>1. PrinterTypes'
    BY DEF PrinterInv, PrinterTypes, PrinterTypeOK
  <2>2. NothingYet' /\ HandsOK'
    BY DEF PrinterInv, NothingYet, HandsOK, Ended, Died
  <2>3. QueueOK' /\ MarkerOK'
    BY DEF PrinterInv, QueueOK, MarkerOK, Stray, Died
  <2>4. DueOK' /\ FatesOK'
    BY DEF PrinterInv, DueOK, FatesOK, Stray, Died
  <2>5. FinishOK'
    BY DEF PrinterInv, FinishOK, Ended
  <2> QED
    BY <2>1, <2>2, <2>3, <2>4, <2>5 DEF PrinterInv
<1>6. CommandTypes'
  BY <1>1, <1>4 DEF CommandInv, CommandTypes, Counted
<1>7. StageOK'
  BY <1>4, RmFrame DEF CommandInv, StageOK
<1>8. ExitCodeTrue'
  <2>1. CASE stage = "exit"
    <3>1. held' = held /\ (request \in {"none", "ok", "lost"} => request' = request)
      BY <2>1, RmFrame DEF CommandInv, StageOK
    <3>2. interrupts > 0 => interrupts' > 0
      BY <1>2
    <3> QED
      BY <1>4, <3>1, <3>2 DEF CommandInv, ExitCodeTrue
  <2>2. CASE stage # "exit"
    BY <1>4, <2>2 DEF CommandInv, ExitCodeTrue
  <2> QED
    BY <2>1, <2>2
<1> QED
  BY <1>3, <1>5, <1>6, <1>7, <1>8 DEF IInv, CommandInv

\* The steps of the printer and of its run.
PrinterSteps ==
  WorkerSteps \/ PrinterThread \/ Finish \/ MarkerPut \/ RunEnds \/ PrinterDisturbed

\* Every step of the printer keeps its invariant.
LEMMA PrinterStepsKeep ==
  ASSUME PrinterInv, interrupts \in Nat, PrinterSteps
  PROVE  PrinterInv'
BY CountKeeps, CheckFinishedKeeps, PutKeeps, RunReturnsKeeps, RunRaisesKeeps,
     RunInterruptedKeeps, GetKeeps, WriteKeeps, StreamStallsKeeps, FinishStartsKeeps,
     MarkerSentKeeps, MarkerPutKeeps, FinishInterruptedKeeps, FinishCutKeeps, DrainedKeeps,
     DiscardKeeps
   DEF PrinterSteps, WorkerSteps, PrinterThread, Finish, RunEnds, PrinterDisturbed

\* Nothing moves before the run, how a run ended stays, and so does what a run that did
\* not die has counted, and what finish came to.
LEMMA PrinterFrame ==
  ASSUME PrinterInv, PrinterSteps
  PROVE  /\ CtrlC \/ UNCHANGED interrupts
         /\ run # "going" => run' = run
         /\ run \in {"off", "ok", "batch"} => UNCHANGED <<warned, failed>>
         /\ fin \in {"off", "over"} => UNCHANGED <<fin, finEnd>>
BY DEF PrinterSteps, WorkerSteps, PrinterThread, Finish, RunEnds, PrinterDisturbed, Count,
       CheckFinished, Put, RunReturns, RunRaises, RunInterrupted, Get, Write, StreamStalls,
       FinishStarts, MarkerSent, MarkerPut, FinishInterrupted, FinishCut, Drained, Discard,
       Alive, resultVars, finishVars

\* A step of the printer keeps the invariant of the whole.
LEMMA PrinterStepsInCommand ==
  ASSUME RmInv, PrinterInv, CommandInv, PrinterSteps, OutsidePrinter
  PROVE  IInv'
<1>1. Counted
  BY PrinterFrame, Counting DEF CommandInv, CommandTypes
<1>2. interrupts \in Nat /\ interrupts' \in Nat /\ interrupts <= interrupts'
  BY <1>1, InterruptsAssumption DEF CommandInv, CommandTypes, Counted
<1>3. PrinterInv'
  BY <1>2, PrinterStepsKeep
<1>4. /\ UNCHANGED <<stage, todo, command, trial, expansions, sent, outcome, cancelled, rc>>
      /\ UNCHANGED <<rm, request, held, rmVars>>
  BY DEF OutsidePrinter, placeVars, resultOfRun, rmVars
<1>5. RmInv'
  BY <1>2, <1>4 DEF rmVars, RmInv, RmTypeOK, CallOK, AnswerOK, DeleteIsReported, HeldIsRaised
<1>6. CommandTypes'
  BY <1>1, <1>4 DEF CommandInv, CommandTypes, Counted
<1>7. StageOK'
  BY <1>4, PrinterFrame DEF CommandInv, StageOK
<1>8. ExitCodeTrue'
  <2>1. CASE stage = "exit"
    <3>1. fin \in {"off", "over"}
      BY <2>1 DEF CommandInv, StageOK
    <3>2. /\ finEnd' = finEnd
          /\ run \in {"off", "ok"} => run' = run /\ UNCHANGED <<warned, failed>>
      BY <3>1, PrinterFrame
    <3>3. interrupts > 0 => interrupts' > 0
      BY <1>2
    <3> QED
      BY <1>4, <3>2, <3>3 DEF CommandInv, ExitCodeTrue
  <2>2. CASE stage # "exit"
    BY <1>4, <2>2 DEF CommandInv, ExitCodeTrue
  <2> QED
    BY <2>1, <2>2
<1> QED
  BY <1>3, <1>5, <1>6, <1>7, <1>8 DEF IInv, CommandInv

-----------------------------------------------------------------------------
(* The theorems.                                                           *)

\* Nothing has begun.
LEMMA Initially ==
  ASSUME Init
  PROVE  IInv
<1>1. RmInv
  <2>1. /\ interrupts = 0 /\ rm = "off" /\ request = "none" /\ applied = FALSE /\ held = 0
        /\ rmRecords = << >> /\ rmEnd = "none" /\ token = "none"
    BY DEF Init, RmInit, InterruptsInit
  <2>2. RmTypeOK
    <3>1. rmRecords \in {<< >>} \cup {<<r>> : r \in {"DRYRUN", "SUCCEEDED", "FAILED"}}
      BY <2>1
    <3>2. (rm = "over") <=> (rmEnd # "none")
      BY <2>1
    <3>3. held \in 0 .. 2
      BY <2>1
    <3>4. applied \in BOOLEAN
      BY <2>1
    <3> QED
      BY Zenon, <2>1, <3>1, <3>2, <3>3, <3>4 DEF RmTypeOK
  <2>3. CallOK
    BY <2>1 DEF CallOK
  <2>4. AnswerOK
    BY <2>1 DEF AnswerOK
  <2>5. << >> # <<"SUCCEEDED">>
    OBVIOUS
  <2>6. DeleteIsReported /\ HeldIsRaised
    BY <2>1, <2>5 DEF DeleteIsReported, HeldIsRaised
  <2> QED
    BY <2>2, <2>3, <2>4, <2>6 DEF RmInv
<1>2. PrinterInv
  <2>1. PrinterTypes
    <3>1. /\ at \in [Workers -> {"idle", "counted", "putting"}]
          /\ record \in [Workers -> 0 .. MaxResults]
      BY TransferPrinterAssumption DEF Init, PrinterInit
    <3>2. /\ fate = << >> /\ owner = << >> /\ queue = << >> /\ warned = 0 /\ failed = 0
          /\ run = "off" /\ printer = "off" /\ fin = "off" /\ marker = "none"
          /\ pressed = 0 /\ finEnd = "none"
      BY DEF Init, PrinterInit
    <3>3. {quiet, stopped, stalled, finished} \subseteq BOOLEAN
      BY DEF Init, PrinterInit
    <3>4. 0 <= MaxResults /\ 0 <= QueueMax
      BY TransferPrinterAssumption
    <3> QED
      BY <3>1, <3>2, <3>3, <3>4 DEF PrinterTypes, PrinterTypeOK
  <2>2. NothingYet /\ HandsOK /\ QueueOK /\ MarkerOK /\ DueOK /\ FatesOK /\ FinishOK
    BY DEF Init, PrinterInit, NothingYet, HandsOK, QueueOK, MarkerOK, DueOK, FatesOK, FinishOK
  <2> QED
    BY <2>1, <2>2 DEF PrinterInv
<1>3. CommandInv
  <2>1. /\ interrupts = 0 /\ rm = "off" /\ run = "off" /\ stage \in {"startup", "library"}
        /\ command = "none" /\ trial = FALSE /\ expansions = 0 /\ sent = "no"
        /\ outcome = "none" /\ cancelled = FALSE /\ rc = "none"
    BY DEF Init, InterruptsInit, RmInit, PrinterInit
  <2>2. 0 \in 0 .. MaxInterrupts /\ 0 \in 0 .. MaxExpansions
    BY CommandLineAssumption, InterruptsAssumption
  <2>3. CommandTypes
    BY <2>1, <2>2 DEF CommandTypes, Ends
  <2>4. StageOK /\ ExitCodeTrue
    BY <2>1 DEF StageOK, ExitCodeTrue
  <2> QED
    BY <2>3, <2>4 DEF CommandInv
<1> QED
  BY <1>1, <1>2, <1>3 DEF IInv

\* A step that changes nothing keeps the invariant.
LEMMA StutterKeeps ==
  ASSUME IInv, UNCHANGED vars
  PROVE  IInv'
<1>1. /\ UNCHANGED <<stage, todo, command, trial, expansions, sent, outcome, cancelled, rc>>
      /\ UNCHANGED <<rm, request, held, run, warned, failed, fin, finEnd, interrupts>>
      /\ Elsewhere
  BY DEF vars, placeVars, resultOfRun, Elsewhere, rmVars, printerVars, resultVars, finishVars
<1>2. Counted
  BY <1>1, Counting DEF IInv, CommandInv, CommandTypes
<1>3. RmInv' /\ PrinterInv'
  BY <1>1, <1>2, ElsewhereKeeps DEF IInv
<1>4. CommandTypes' /\ StageOK' /\ ExitCodeTrue'
  BY <1>1 DEF IInv, CommandInv, CommandTypes, StageOK, ExitCodeTrue
<1> QED
  BY <1>3, <1>4 DEF IInv, CommandInv

\* Every step keeps the invariant.
LEMMA StepKeeps ==
  ASSUME IInv, [Next]_vars
  PROVE  IInv'
<1>1. RmInv /\ PrinterInv /\ CommandInv
  BY DEF IInv
<1>2. CASE Layers
  BY <1>1, <1>2, ModeResolvedKeeps, PromptedKeeps, PromptEndsKeeps, UnaliasedKeeps, ExpandsKeeps,
     ShellRunsKeeps, NoCommandKeeps, ResolvesKeeps, RunsKeeps
     DEF Layers
<1>3. CASE Operations
  BY <1>1, <1>3, TransferStartsKeeps, TransferEndsKeeps, RmStartsKeeps, LibraryCallsKeeps,
     RmEndsKeeps, RmSweepsKeeps, ForceSweepsKeeps, OpStartsKeeps, BucketOpKeeps, ListOpKeeps,
     PresignOpKeeps, WebsiteOpKeeps
     DEF Operations
<1>4. CASE Passes \/ Refused \/ Interrupted
  BY <1>1, <1>4, PassesKeeps, RefusedKeeps, InterruptedKeeps
<1>5. CASE RmSteps /\ OutsideRm
  BY <1>1, <1>5, RmStepsInCommand
<1>6. CASE PrinterSteps /\ OutsidePrinter
  BY <1>1, <1>6, PrinterStepsInCommand
<1>7. CASE UNCHANGED vars
  BY <1>7, StutterKeeps
<1> QED
  BY <1>2, <1>3, <1>4, <1>5, <1>6, <1>7 DEF Next, RmSteps, PrinterSteps

\* The inductive invariant holds in every reachable state.
LEMMA IInvHolds == Spec => []IInv
BY Initially, StepKeeps, PTL DEF Spec

\* The types the runs check hold for every value of the constants.
THEOREM CommandTyped == Spec => []TypeOK
<1>1. IInv => TypeOK
  BY DEF IInv, RmInv, PrinterInv, PrinterTypes, CommandInv, CommandTypes, TypeOK
<1> QED
  BY <1>1, IInvHolds, PTL

\* The exit code tells what happened: 0 only if nothing that was asked for failed, was
\* warned about or interrupted, 2 only for warnings, 254 only if an answer of the service
\* was the failure, 252 only if no change was sent or a plugin's handler failed behind it,
\* 130 only for a Ctrl-C or a prompt the user left (cli.py: exit_code_for, main).
THEOREM ExitCodesAreTrue == Spec => []ExitCodeTrue
<1>1. IInv => ExitCodeTrue
  BY DEF IInv, CommandInv
<1> QED
  BY <1>1, IInvHolds, PTL

\* Once finish has returned undisturbed, a result is on the screen, has no line, was
\* refused by the stream, or is a stray.
LEMMA DrainedLines ==
  ASSUME PrinterInv
  PROVE  LinesAreOut
<1> SUFFICES ASSUME fin = "over", finished, pressed < 2, NEW n \in DOMAIN fate
             PROVE  fate[n] \in {"silent", "written", "refused"} \/ Stray(n)
  BY DEF LinesAreOut, Stray, Died
<1>1. printer = "drained" /\ Ended
  BY DEF PrinterInv, FinishOK
<1>2. CASE fate[n] = "due"
  <2>1. CASE \E m \in DOMAIN queue : queue[m] = n
    BY <1>1, <2>1 DEF PrinterInv, MarkerOK
  <2>2. CASE at[owner[n]] # "idle" /\ record[owner[n]] = n
    <3>1. owner[n] \in Workers
      BY DEF PrinterInv, PrinterTypes, PrinterTypeOK
    <3> QED
      BY <1>1, <2>2, <3>1 DEF PrinterInv, HandsOK, Stray
  <2> QED
    BY <1>2, <2>1, <2>2 DEF PrinterInv, DueOK
<1>3. fate[n] # "writing"
  BY <1>1 DEF PrinterInv, FatesOK
<1>4. fate[n] # "dead"
  BY DEF PrinterInv, FatesOK
<1>5. fate[n] \in {"dropped", "discarded"} => Stray(n)
  BY DEF PrinterInv, FatesOK
<1>6. fate[n] \in Fates
  BY DEF PrinterInv, PrinterTypes, PrinterTypeOK, Fates
<1> QED
  BY <1>2, <1>3, <1>4, <1>5, <1>6 DEF Fates

\* What is on the screen is what happened: a recorded success means that the object is
\* gone, an interrupt held back is raised, and every result has its line when finish has
\* returned undisturbed, but for those of scans that outlived their run (s3.py: rm;
\* progress.py: finish).
THEOREM ReportsAreTrueAlways == Spec => []ReportsAreTrue
<1>1. IInv => ReportsAreTrue
  BY DrainedLines DEF IInv, RmInv, ReportsAreTrue
<1> QED
  BY <1>1, IInvHolds, PTL

====
