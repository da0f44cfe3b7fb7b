----------------------------- MODULE SyncPairs ------------------------------
(***************************************************************************)
(* The pair loop of S3.sync (_run_sync_pairs and the unwinding around it,  *)
(* src/boto3_s3/s3.py).  The loop pulls pairs in key order, decides each   *)
(* inline or on the caller's pool, and acts on the accepted ones on its    *)
(* own thread: a copy goes to the Transferrer, an orphan to the S3Deleter. *)
(* Pooled decisions complete in any order while the token escalates, a     *)
(* decision, an action or the producer raises, or a Ctrl-C lands anywhere; *)
(* the loop then settles what it accepted before it lets the exception go. *)
(*                                                                         *)
(* Abstraction.  A pair is its number.  One pool serves every pooled lane. *)
(* A pool worker takes any queued decision, or none: the pool is the       *)
(* caller's.  What happens inside submit belongs to Transferrer and        *)
(* Deleter; here an action settles some time after it was handed over.     *)
(***************************************************************************)
EXTENDS Naturals, FiniteSets, Sequences, TLC

CONSTANTS
  NumPairs,                  \* pairs the comparison yields, unless it raises
  Workers,                   \* the pool's worker count
  Plans,                     \* the runs considered: [lane, pooled, off]
  MaxInterrupts              \* bound: Ctrl-Cs that land on the calling thread

Pairs == 1 .. NumPairs
Lanes == {"create", "update", "delete"}

ASSUME SyncPairsAssumption ==
  /\ NumPairs \in Nat /\ Workers \in Nat \ {0} /\ MaxInterrupts \in Nat
  /\ Plans \subseteq [lane : [Pairs -> Lanes], pooled : SUBSET Lanes,
                      off : SUBSET {"update", "delete"}]

VARIABLES
  plan,                      \* fixed for the run
  pc, cur, got,              \* where the loop is, the pair it pulled, the pair it consumes
  filling,                   \* the first loop, which fills the window
  inflight, pending, done,   \* as in the source: counter, accepted futures, completions
  firm,                      \* settle_pending's cancel argument
  exc,                       \* what is unwinding
  decision,                  \* the decision on each pair, inline or its future's state
  acted, effect,             \* pairs handed to submit, and how that ended
  token,                     \* the cancel token
  revoked,                   \* the caller cancelled a future of its pool itself
  late,                      \* decisions and actions begun since the token was set
  interrupts, escaped        \* Ctrl-Cs so far; one of them broke the settling

loop == <<pc, cur, got, filling, inflight, pending, firm, exc>>
outcome == <<acted, effect>>
environment == <<token, revoked, interrupts, escaped>>
vars == <<plan, loop, done, decision, outcome, environment, late>>

Off(p) == plan.lane[p] \in plan.off
Pooled(p) == plan.lane[p] \in plan.pooled /\ ~Off(p)
HasPool == plan.pooled \ plan.off # {}
Cap == Workers

Over == {"true", "false", "failed", "cancelled"}
Out == {p \in Pairs : Pooled(p) /\ decision[p] \in {"queued", "running"}}

Init ==
  /\ plan \in Plans
  /\ pc = "start" /\ cur = 0 /\ got = 0 /\ filling = TRUE
  /\ inflight = 0 /\ pending = {} /\ done = << >> /\ firm = FALSE /\ exc = "none"
  /\ decision = [p \in Pairs |-> "none"]
  /\ acted = {} /\ effect = [p \in Pairs |-> "none"]
  /\ token = "none" /\ revoked = FALSE /\ late = 0
  /\ interrupts = 0 /\ escaped = FALSE

-----------------------------------------------------------------------------
(* Control.                                                                *)

Goto(where) == pc' = where /\ UNCHANGED <<cur, got, filling, inflight, pending, firm, exc>>

\* An exception leaves the loop through its finally, which only the pooled path has.
RaiseSkipsFinally(what) ==
  /\ exc' = what /\ pc' = "exit" /\ firm' = TRUE
  /\ UNCHANGED <<cur, got, filling, inflight, pending>>
Raise(what) ==
  /\ exc' = what
  /\ pc' = IF HasPool /\ pending # {} THEN "finally" ELSE "exit"
  /\ firm' = TRUE
  /\ UNCHANGED <<cur, got, filling, inflight, pending>>

\* A decision or an action that starts although the token is already set.
Begins == late' = IF token = "none" THEN late ELSE late + 1

\* stop_if_cancelled at each of the places that call it, and where the loop goes on.
Polls == [start |-> "pull", check |-> "route", decided |-> "act", top |-> "get",
          gotten |-> "result"]

Poll ==
  /\ pc \in DOMAIN Polls /\ (pc = "top" => inflight > 0)
  /\ IF token = "none"
     THEN Goto(Polls[pc])
     ELSE /\ pc' = "stopping" /\ firm' = (token = "immediate")
          /\ UNCHANGED <<cur, got, filling, inflight, pending, exc>>
  /\ UNCHANGED <<plan, done, decision, outcome, environment, late>>

\* The comparison yields the next pair, ends, or raises.
Pull ==
  /\ pc = "pull"
  /\ \/ /\ cur < NumPairs /\ cur' = cur + 1 /\ pc' = "check"
        /\ UNCHANGED <<got, filling, inflight, pending, firm, exc>>
     \/ /\ cur = NumPairs /\ pc' = (IF HasPool THEN "top" ELSE "exit") /\ filling' = FALSE
        /\ UNCHANGED <<cur, got, inflight, pending, firm, exc>>
     \/ Raise("fatal")
  /\ UNCHANGED <<plan, done, decision, outcome, environment, late>>

\* handle: the pair of a lane that is off is dropped, an inline one is decided
\* here, a pooled one is submitted to the caller's executor, which may refuse.
Route ==
  /\ pc = "route"
  /\ \/ /\ Off(cur) /\ Goto("pull")
        /\ decision' = [decision EXCEPT ![cur] = "off"]
        /\ UNCHANGED late
     \/ /\ ~Off(cur) /\ ~Pooled(cur) /\ Goto("decide") /\ Begins
        /\ decision' = [decision EXCEPT ![cur] = "running"]
     \/ /\ Pooled(cur) /\ Goto("handed") /\ Begins
        /\ decision' = [decision EXCEPT ![cur] = "queued"]
     \/ Pooled(cur) /\ Raise("fatal") /\ UNCHANGED <<decision, late>>
  /\ UNCHANGED <<plan, done, outcome, environment>>

DecideUnpolled ==
  /\ pc = "decide"
  /\ \E d \in Over \ {"cancelled"} :
       /\ decision' = [decision EXCEPT ![cur] = d]
       /\ IF d = "failed" THEN Raise("fatal") ELSE Goto("act")
  /\ UNCHANGED <<plan, done, outcome, environment, late>>

Decide ==
  /\ pc = "decide"
  /\ \E d \in Over \ {"cancelled"} :
       /\ decision' = [decision EXCEPT ![cur] = d]
       /\ IF d = "failed" THEN Raise("fatal") ELSE Goto("decided")
  /\ UNCHANGED <<plan, done, outcome, environment, late>>

RegisterBeyondWindow ==
  /\ pc = "handed"
  /\ pending' = pending \cup {cur} /\ inflight' = inflight + 1
  /\ done' = IF decision[cur] \in Over THEN Append(done, cur) ELSE done
  /\ pc' = IF filling THEN "pull" ELSE "top"
  /\ UNCHANGED <<plan, cur, got, filling, firm, exc, decision, outcome, environment, late>>

\* The future joins pending and gets its callback, which runs at once if it is over.
Register ==
  /\ pc = "handed"
  /\ pending' = pending \cup {cur} /\ inflight' = inflight + 1
  /\ done' = IF decision[cur] \in Over THEN Append(done, cur) ELSE done
  /\ filling' = (filling /\ inflight' < Cap)
  /\ pc' = IF filling' THEN "pull" ELSE "top"
  /\ UNCHANGED <<plan, cur, got, firm, exc, decision, outcome, environment, late>>

\* Nothing is in flight after the stream ended: the loop is over.
WindowEmpty ==
  /\ pc = "top" /\ inflight = 0
  /\ Goto("exit")
  /\ UNCHANGED <<plan, done, decision, outcome, environment, late>>

\* The next completion, or the timeout of the get.
Get ==
  /\ pc = "get"
  /\ IF done = << >>
     THEN Goto("top") /\ UNCHANGED done
     ELSE /\ got' = Head(done) /\ done' = Tail(done)
          /\ pending' = pending \ {got'} /\ inflight' = inflight - 1
          /\ pc' = "gotten"
          /\ UNCHANGED <<cur, filling, firm, exc>>
  /\ UNCHANGED <<plan, decision, outcome, environment, late>>

\* future.result() raises the decision's exception, or that it was cancelled.
Result ==
  /\ pc = "result"
  /\ IF decision[got] \in {"failed", "cancelled"} THEN Raise("fatal") ELSE Goto("act")
  /\ UNCHANGED <<plan, done, decision, outcome, environment, late>>

\* submit hands an accepted pair over and may raise; then the loop asks for the next.
Act ==
  /\ pc = "act"
  /\ LET p == IF got = 0 THEN cur ELSE got
     IN IF decision[p] = "true"
        THEN /\ Begins
             /\ \/ acted' = acted \cup {p} /\ pc' = "pull" /\ UNCHANGED <<exc, firm>>
                \/ acted' \in {acted, acted \cup {p}} /\ Raise("fatal")
        ELSE pc' = "pull" /\ UNCHANGED <<acted, exc, firm, late>>
  /\ got' = IF pc' = "pull" THEN 0 ELSE got
  /\ UNCHANGED <<plan, cur, filling, inflight, pending, done, decision, effect, environment>>

SettleIgnoresEscalation ==
  /\ pc \in {"stopping", "finally"}
  /\ decision' = [p \in Pairs |-> IF firm /\ p \in pending /\ decision[p] = "queued"
                                  THEN "cancelled" ELSE decision[p]]
  /\ IF \E p \in pending : decision'[p] \notin Over
     THEN UNCHANGED loop
     ELSE IF pc = "stopping" THEN Raise("cancelled") ELSE Goto("exit")
  /\ UNCHANGED <<plan, done, outcome, environment, late>>

SettleAlwaysCancels ==
  /\ pc \in {"stopping", "finally"}
  /\ decision' = [p \in Pairs |-> IF p \in pending /\ decision[p] = "queued"
                                  THEN "cancelled" ELSE decision[p]]
  /\ IF \E p \in pending : decision'[p] \notin Over
     THEN UNCHANGED loop
     ELSE IF pc = "stopping" THEN Raise("cancelled") ELSE Goto("exit")
  /\ UNCHANGED <<plan, done, outcome, environment, late>>

\* One pass of settle_pending: look at the token again, cancel what has not started
\* if so told, and go on once nothing accepted is still out.
Settle ==
  /\ pc \in {"stopping", "finally"}
  /\ LET cancel == firm \/ token = "immediate"
     IN decision' = [p \in Pairs |-> IF cancel /\ p \in pending /\ decision[p] = "queued"
                                     THEN "cancelled" ELSE decision[p]]
  /\ IF \E p \in pending : decision'[p] \notin Over
     THEN firm' = (firm \/ token = "immediate")
          /\ UNCHANGED <<pc, cur, got, filling, inflight, pending, exc>>
     ELSE IF pc = "stopping" THEN Raise("cancelled") ELSE Goto("exit")
  /\ UNCHANGED <<plan, done, outcome, environment, late>>

-----------------------------------------------------------------------------
(* The unwinding: the deleter leaves first, then the Transferrer, then the *)
(* verdict.  A clean exit waits for everything handed over; either exit    *)
(* may raise what it owes.                                                 *)

Unsettled(lanes) == {p \in acted : plan.lane[p] \in lanes /\ effect[p] = "none"}

Leave(here, lanes, next) ==
  /\ pc = here
  /\ exc = "none" => Unsettled(lanes) = {}
  /\ pc' = next /\ exc' \in (IF exc = "none" THEN {"none", "fatal"} ELSE {exc})
  /\ UNCHANGED <<plan, cur, got, filling, inflight, pending, firm, done, decision, outcome,
                 environment, late>>

ExitDeletes == Leave("exit", {"delete"}, "drain")
ExitTransfers == Leave("drain", {"create", "update"}, "verdict")

\* The token is polled once more; then the failures of both sides make a BatchError.
Verdict ==
  /\ pc = "verdict" /\ pc' = "out"
  /\ exc' = IF exc # "none" THEN exc
            ELSE IF token # "none" THEN "cancelled"
            ELSE IF \E p \in acted : effect[p] = "failed" THEN "batch" ELSE "none"
  /\ UNCHANGED <<plan, cur, got, filling, inflight, pending, firm, done, decision, outcome,
                 environment, late>>

-----------------------------------------------------------------------------
(* Everything else: the pool, the engines, the caller, Ctrl-C.             *)

StartDecision(p) ==
  /\ Pooled(p) /\ decision[p] = "queued"
  /\ Cardinality({q \in Pairs : Pooled(q) /\ decision[q] = "running"}) < Workers
  /\ decision' = [decision EXCEPT ![p] = "running"]
  /\ UNCHANGED <<plan, loop, done, outcome, environment, late>>

\* The completion runs the callback, if it is registered by now.
EndDecision(p, d) ==
  /\ decision' = [decision EXCEPT ![p] = d]
  /\ done' = IF p \in pending THEN Append(done, p) ELSE done
  /\ UNCHANGED <<plan, loop, outcome, late, token, interrupts, escaped>>

FinishDecision(p) ==
  /\ Pooled(p) /\ decision[p] = "running"
  /\ \E d \in Over \ {"cancelled"} : EndDecision(p, d)
  /\ UNCHANGED revoked

\* The caller shuts its pool down and cancels what waits there.
RevokeDecision(p) ==
  /\ Pooled(p) /\ decision[p] = "queued"
  /\ EndDecision(p, "cancelled")
  /\ revoked' = TRUE

\* The Transferrer or the deleter settles an item.
SettleItem(p) ==
  /\ p \in acted /\ effect[p] = "none" /\ pc # "out"
  /\ \E e \in {"ok", "failed"} : effect' = [effect EXCEPT ![p] = e]
  /\ UNCHANGED <<plan, loop, done, decision, acted, environment, late>>

Cancel ==
  /\ \/ token = "none" /\ token' \in {"graceful", "immediate"}
     \/ token = "graceful" /\ token' = "immediate"
  /\ UNCHANGED <<plan, loop, done, decision, outcome, revoked, interrupts, escaped, late>>

\* A Ctrl-C unwinds from wherever the thread is.  A future just submitted is not in
\* pending yet; the finally, interrupted, settles no more.
Interrupt ==
  /\ pc # "out" /\ interrupts < MaxInterrupts
  /\ interrupts' = interrupts + 1
  /\ IF pc \in {"exit", "drain", "verdict"}
     THEN exc' = "interrupt" /\ UNCHANGED <<pc, cur, got, filling, inflight, pending, firm, escaped>>
     ELSE IF pc = "finally"
          THEN /\ exc' = "interrupt" /\ pc' = "exit" /\ escaped' = TRUE
               /\ UNCHANGED <<cur, got, filling, inflight, pending, firm>>
          ELSE Raise("interrupt") /\ escaped' = (pc = "handed")
  /\ decision' = IF pc = "decide" THEN [decision EXCEPT ![cur] = "failed"] ELSE decision
  /\ UNCHANGED <<plan, done, outcome, token, revoked, late>>

Finished == pc = "out" /\ UNCHANGED vars

Loop == \/ Poll \/ Pull \/ Route \/ Decide \/ Register \/ WindowEmpty \/ Get \/ Result \/ Act
        \/ Settle \/ ExitDeletes \/ ExitTransfers \/ Verdict

Next == \/ Loop \/ Interrupt \/ Cancel \/ Finished
        \/ \E p \in Pairs : StartDecision(p) \/ FinishDecision(p) \/ RevokeDecision(p)
                            \/ SettleItem(p)

\* The calling thread runs; a decision that started ends.  Nothing says that the
\* caller's pool ever starts a queued one, or that anybody cancels.
Fairness == WF_vars(Loop) /\ \A p \in Pairs : WF_vars(FinishDecision(p))

Spec == Init /\ [][Next]_vars /\ Fairness

-----------------------------------------------------------------------------
(* Properties.                                                             *)

\* The types, and the window: never more accepted decisions out than the pool has
\* workers (_pool_window, "the caller's pool never blocks on submit, so holding the
\* bound is ours").
TypeOK ==
  /\ plan \in Plans
  /\ pc \in DOMAIN Polls \cup {Polls[w] : w \in DOMAIN Polls}
            \cup {"decide", "handed", "stopping", "finally", "exit", "drain", "verdict", "out"}
  /\ cur \in 0 .. NumPairs /\ got \in 0 .. NumPairs
  /\ filling \in BOOLEAN /\ firm \in BOOLEAN /\ revoked \in BOOLEAN /\ escaped \in BOOLEAN
  /\ inflight \in 0 .. Cap /\ pending \subseteq Pairs /\ done \in Seq(Pairs)
  /\ exc \in {"none", "cancelled", "fatal", "interrupt", "batch"}
  /\ decision \in [Pairs -> {"none", "off", "queued", "running"} \cup Over]
  /\ acted \subseteq Pairs /\ effect \in [Pairs -> {"none", "ok", "failed"}]
  /\ token \in {"none", "graceful", "immediate"}
  /\ late \in Nat /\ interrupts \in 0 .. MaxInterrupts

\* How far a pair got, as the abstract ledger tells it.
Stage(p) ==
  CASE effect[p] = "ok" -> "done"
    [] effect[p] = "failed" -> "failed"
    [] p \in acted /\ effect[p] = "none" -> "acted"
    [] decision[p] = "true" /\ p \notin acted -> "accepted"
    [] decision[p] = "false" -> "rejected"
    [] decision[p] = "off" -> "skipped"
    [] decision[p] \in {"failed", "cancelled"} -> "void"
    [] decision[p] \in {"queued", "running"} -> "deciding"
    [] OTHER -> "unseen"

Ledger == INSTANCE PairLedger WITH
  stage <- [p \in Pairs |-> Stage(p)],
  ended <- IF pc # "out" THEN "running"
           ELSE IF escaped THEN "broken"
           ELSE IF exc = "none" THEN "returned"
           ELSE IF exc = "batch" THEN "batch_error" ELSE "raised"

\* The loop implements the ledger: nothing is decided or acted on twice, a normal
\* return means that every accepted pair succeeded, and no decision outlives an
\* operation that raises (docstring of _run_sync_pairs, "so none outlive the
\* operation"), unless a Ctrl-C broke the hand-over or the finally itself.
LedgerSpec == Ledger!Spec

\* A graceful cancellation awaits the outstanding decisions and cancels none of
\* them, whatever the order they end in (docstring of _run_sync_pairs).
GracefulAwaits ==
  exc = "cancelled" /\ token = "graceful" /\ ~revoked
    => \A p \in Pairs : decision[p] # "cancelled"

\* The token is polled between any two of the loop's decisions and actions: at most
\* one of them begins after the cancellation.
AtMostOneLateStep == late <= 1

\* An immediate cancellation ends the loop even if the caller's pool never runs a
\* queued decision, also when it arrives while a graceful settle already waits
\* (docstring of settle_pending, "would otherwise pin this loop forever").
ImmediateEnds == token = "immediate" ~> pc \in {"exit", "drain", "verdict", "out"}
=============================================================================
