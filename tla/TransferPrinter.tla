-------------------------- MODULE TransferPrinter --------------------------
(***************************************************************************)
(* TransferPrinter (src/cli/src/boto3_s3_cli/progress.py): threads of the  *)
(* run count their results under a lock and put what is to be printed into *)
(* a bounded queue; a daemon thread renders it; finish() drains the queue  *)
(* through Ctrl-C.  A stream may refuse a write, or stall.                 *)
(*                                                                         *)
(* Abstraction.  A result is "line" (a success, a dry run or a repaint),   *)
(* "failed", "warned", "cancelled" or "notice"; quiet is the printer that  *)
(* prints notices only.  The run's engine joins its workers, a scan worker *)
(* may outlive a run that died.  The lock, the throttle of the meter and   *)
(* the wording are left out.                                               *)
(***************************************************************************)
EXTENDS Interrupts, Sequences, FiniteSets

CONSTANTS
  Workers,                   \* threads of the run that report results
  Scans,                     \* those of them that may outlive a run that died
  MaxResults,                \* bound: results reported
  QueueMax                   \* _QUEUE_MAX

\* A survivor's put must find room once finish has emptied the queue.
ASSUME TransferPrinterAssumption ==
  /\ Scans \subseteq Workers /\ IsFiniteSet(Workers)
  /\ MaxResults \in Nat /\ QueueMax \in Nat \ {0} /\ Cardinality(Scans) <= QueueMax

VARIABLES
  run,                       \* "off", "going", or how the run ended
  quiet,                     \* fixed
  at,                        \* per worker: "idle", "counted" or "putting"
  record,                    \* per worker: the number of the result in its hands
  fate,                      \* per result: "due" until it is written, lost or dropped
  owner,                     \* per result: the worker
  queue,                     \* result numbers, and Shutdown
  stopped, warned, failed,   \* _stopped and the counts
  printer,                   \* the thread: "off", "get", "write", "drained"
  stalled,                   \* the stream takes nothing any more
  fin,                       \* finish(): "off", "running", "flagged", "waiting",
                             \* "discarding", then "over"
  finished, marker,          \* _finished; the marker: "none", "putting", "in"
  pressed,                   \* Ctrl-Cs held by finish: 0, 1, or 2 - the output is dead
  finEnd                     \* "none", "ok" or "interrupt"

resultVars == <<at, record, fate, owner, stopped, warned, failed>>
threadVars == <<queue, printer, stalled>>
finishVars == <<fin, finished, marker, pressed, finEnd>>
printerVars == <<run, quiet, resultVars, threadVars, finishVars>>

Shutdown == 0

PrinterInit ==
  /\ run = "off" /\ quiet = FALSE
  /\ at = [w \in Workers |-> "idle"] /\ record = [w \in Workers |-> 0]
  /\ fate = << >> /\ owner = << >> /\ queue = << >>
  /\ stopped = FALSE /\ warned = 0 /\ failed = 0
  /\ printer = "off" /\ stalled = FALSE
  /\ fin = "off" /\ finished = FALSE /\ marker = "none" /\ pressed = 0 /\ finEnd = "none"

-----------------------------------------------------------------------------
(* The run and its workers.                                                *)

\* build_printer, and the with block of finish_transfer: the thread is started.
PrinterStarts ==
  /\ run = "off" /\ run' = "going" /\ quiet' \in BOOLEAN
  /\ fin' = "running" /\ printer' = "get"
  /\ UNCHANGED <<resultVars, queue, stalled, finished, marker, pressed, finEnd, interrupts>>

\* A worker still reports while the run goes on; a scan also after it died.
Alive(w) == run = "going" \/ (run \in {"fatal", "interrupt", "bug"} /\ w \in Scans)

Kinds == {"line", "failed", "warned", "cancelled", "notice"}
Shown(kind) == kind = "notice" \/ (~quiet /\ kind # "cancelled")

\* on_result under the lock.  After the first CANCELLED only notices get through; a
\* CANCELLED is what a run that is being cancelled reports.
Count(w) ==
  /\ at[w] = "idle" /\ Alive(w) /\ Len(fate) < MaxResults
  /\ \E kind \in Kinds :
       LET passes == ~stopped \/ kind = "notice" IN
       /\ warned' = warned + (IF passes /\ kind = "warned" THEN 1 ELSE 0)
       /\ failed' = failed + (IF passes /\ kind = "failed" THEN 1 ELSE 0)
       /\ stopped' = (stopped \/ kind = "cancelled")
       /\ owner' = Append(owner, w)
       /\ IF passes /\ Shown(kind)
          THEN /\ fate' = Append(fate, "due")
               /\ at' = [at EXCEPT ![w] = "counted"]
               /\ record' = [record EXCEPT ![w] = Len(fate')]
          ELSE fate' = Append(fate, "silent") /\ UNCHANGED <<at, record>>
  /\ UNCHANGED <<run, quiet, threadVars, finishVars, interrupts>>

PutUnchecked(w) ==
  /\ at[w] = "counted" /\ at' = [at EXCEPT ![w] = "putting"]
  /\ UNCHANGED <<run, quiet, record, fate, owner, stopped, warned, failed, threadVars,
                 finishVars, interrupts>>

\* `if not self._finished`, outside the lock: past the flag the record is dropped.
CheckFinished(w) ==
  /\ at[w] = "counted"
  /\ IF finished
     THEN at' = [at EXCEPT ![w] = "idle"] /\ fate' = [fate EXCEPT ![record[w]] = "dropped"]
     ELSE at' = [at EXCEPT ![w] = "putting"] /\ UNCHANGED fate
  /\ UNCHANGED <<run, quiet, record, owner, stopped, warned, failed, threadVars, finishVars,
                 interrupts>>

PutUnbounded(w) ==
  /\ at[w] = "putting"
  /\ queue' = Append(queue, record[w]) /\ at' = [at EXCEPT ![w] = "idle"]
  /\ UNCHANGED <<run, quiet, record, fate, owner, stopped, warned, failed, printer, stalled,
                 finishVars, interrupts>>

\* queue.put: blocks on a full queue.
Put(w) ==
  /\ at[w] = "putting" /\ Len(queue) < QueueMax
  /\ queue' = Append(queue, record[w]) /\ at' = [at EXCEPT ![w] = "idle"]
  /\ UNCHANGED <<run, quiet, record, fate, owner, stopped, warned, failed, printer, stalled,
                 finishVars, interrupts>>

\* The library call ends, its engine's workers joined.  A normal return and a BatchError
\* leave no scan behind either, and only the latter follows a failure.
RunReturns ==
  /\ run = "going" /\ \A w \in Workers : at[w] = "idle"
  /\ ~stopped /\ run' = (IF failed > 0 THEN "batch" ELSE "ok")
  /\ UNCHANGED <<quiet, resultVars, threadVars, finishVars, interrupts>>

RunRaises ==
  /\ run = "going" /\ \A w \in Workers \ Scans : at[w] = "idle"
  /\ run' \in {"fatal", "bug"}
  /\ UNCHANGED <<quiet, resultVars, threadVars, finishVars, interrupts>>

\* Ctrl-C in the run: it cancels, joins its engine and raises KeyboardInterrupt.
RunInterrupted ==
  /\ run = "going" /\ \A w \in Workers \ Scans : at[w] = "idle"
  /\ CtrlC /\ run' = "interrupt"
  /\ UNCHANGED <<quiet, resultVars, threadVars, finishVars>>

-----------------------------------------------------------------------------
(* The printer thread.                                                     *)

\* The record at the head of the queue; a dead output drops it.
Get ==
  /\ printer = "get" /\ queue # << >> /\ queue' = Tail(queue)
  /\ IF Head(queue) = Shutdown
     THEN printer' = "drained" /\ UNCHANGED <<fate>>
     ELSE IF pressed = 2
          THEN fate' = [fate EXCEPT ![Head(queue)] = "dead"] /\ UNCHANGED printer
          ELSE fate' = [fate EXCEPT ![Head(queue)] = "writing"] /\ printer' = "write"
  /\ UNCHANGED <<run, quiet, at, record, owner, stopped, warned, failed, stalled, finishVars,
                 interrupts>>

\* A stream that cannot take the line costs this record's write and no other.
Write ==
  /\ printer = "write" /\ ~stalled /\ printer' = "get"
  /\ \E n \in DOMAIN fate :
       fate[n] = "writing" /\ \E end \in {"written", "refused"} : fate' = [fate EXCEPT ![n] = end]
  /\ UNCHANGED <<run, quiet, at, record, owner, stopped, warned, failed, queue, stalled,
                 finishVars, interrupts>>

\* The terminal takes nothing any more, and the write does not return.
StreamStalls ==
  /\ printer = "write" /\ ~stalled /\ stalled' = TRUE
  /\ UNCHANGED <<run, quiet, resultVars, queue, printer, finishVars, interrupts>>

-----------------------------------------------------------------------------
(* finish(), on the main thread once the run has ended.                    *)

FinishOver(end) == fin' = "over" /\ finEnd' = end

FinishStarts ==
  /\ fin = "running" /\ run \notin {"off", "going"} /\ fin' = "flagged" /\ finished' = TRUE
  /\ UNCHANGED <<run, quiet, resultVars, threadVars, marker, pressed, finEnd, interrupts>>

\* The marker goes in from a throwaway thread, since the put may block.
MarkerSent ==
  /\ fin = "flagged" /\ fin' = "waiting" /\ marker' = "putting"
  /\ UNCHANGED <<run, quiet, resultVars, threadVars, finished, pressed, finEnd, interrupts>>

MarkerPut ==
  /\ marker = "putting" /\ Len(queue) < QueueMax
  /\ queue' = Append(queue, Shutdown) /\ marker' = "in"
  /\ UNCHANGED <<run, quiet, resultVars, printer, stalled, fin, finished, pressed, finEnd,
                 interrupts>>

\* The first Ctrl-C is held, a second ends the output, a third the wait.
FinishInterrupted ==
  /\ fin \in {"flagged", "waiting"} /\ CtrlC
  /\ IF pressed < 2
     THEN pressed' = pressed + 1 /\ UNCHANGED <<fin, finEnd>>
     ELSE FinishOver("interrupt") /\ UNCHANGED pressed
  /\ UNCHANGED <<run, quiet, resultVars, threadVars, finished, marker>>

\* Before and after the wait nothing holds it.
FinishCut ==
  /\ fin \in {"running", "discarding"} /\ run \notin {"off", "going"} /\ CtrlC
  /\ FinishOver("interrupt")
  /\ UNCHANGED <<run, quiet, resultVars, threadVars, finished, marker, pressed>>

DiscardUndrained ==
  /\ fin = "waiting" /\ fin' = "discarding"
  /\ UNCHANGED <<run, quiet, resultVars, threadVars, finished, marker, pressed, finEnd,
                 interrupts>>

Drained ==
  /\ fin = "waiting" /\ printer = "drained" /\ fin' = "discarding"
  /\ UNCHANGED <<run, quiet, resultVars, threadVars, finished, marker, pressed, finEnd,
                 interrupts>>

\* What slipped in around the flag is thrown away, until the queue is empty.
Discard ==
  /\ fin = "discarding"
  /\ IF queue = << >>
     THEN /\ FinishOver(IF pressed > 0 THEN "interrupt" ELSE "ok")
          /\ UNCHANGED <<queue, fate>>
     ELSE /\ queue' = Tail(queue)
          /\ fate' = IF Head(queue) = Shutdown THEN fate
                     ELSE [fate EXCEPT ![Head(queue)] = "discarded"]
          /\ UNCHANGED <<fin, finEnd>>
  /\ UNCHANGED <<run, quiet, at, record, owner, stopped, warned, failed, printer, stalled,
                 finished, marker, pressed, interrupts>>

WorkerSteps == \E w \in Workers : CheckFinished(w) \/ Put(w)
PrinterThread == Get \/ Write
Finish == FinishStarts \/ MarkerSent \/ Drained \/ Discard
PrinterDisturbed ==
  \/ StreamStalls \/ RunInterrupted \/ FinishInterrupted \/ FinishCut
  \/ \E w \in Workers : Count(w)

-----------------------------------------------------------------------------
(* Properties.                                                             *)

PrinterTypeOK ==
  /\ run \in {"off", "going", "ok", "batch", "fatal", "interrupt", "bug"}
  /\ at \in [Workers -> {"idle", "counted", "putting"}]
  /\ record \in [Workers -> 0 .. MaxResults]
  /\ fate \in Seq({"due", "silent", "writing", "written", "refused", "dead", "dropped",
                   "discarded"})
  /\ Len(owner) = Len(fate) /\ Len(fate) <= MaxResults /\ Len(queue) <= QueueMax
  /\ \A n \in DOMAIN queue : queue[n] = Shutdown \/ fate[queue[n]] = "due"
  /\ warned + failed <= Len(fate) /\ {quiet, stopped, stalled, finished} \subseteq BOOLEAN
  /\ printer \in {"off", "get", "write", "drained"}
  /\ fin \in {"off", "running", "flagged", "waiting", "discarding", "over"}
  /\ marker \in {"none", "putting", "in"} /\ pressed \in 0 .. 2
  /\ finEnd \in {"none", "ok", "interrupt"}

\* Once finish is over nothing is on its way any more, and every line of a worker the run
\* has joined was written, or refused by its stream, unless a second Ctrl-C ended the
\* output: "every queued line is written ... before the exit code is derived"
\* (transferargs.py:998-999).
LinesAreOut ==
  fin = "over" /\ finished /\ pressed < 2 =>
    \A n \in DOMAIN fate :
      \/ fate[n] \in {"silent", "written", "refused"}
      \/ owner[n] \in Scans /\ run \in {"fatal", "interrupt", "bug"}
=============================================================================
