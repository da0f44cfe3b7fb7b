-------------------------- MODULE SyncPairsProofs ---------------------------
(***************************************************************************)
(* The safety of SyncPairs for every number of pairs, every pool, every    *)
(* set of plans and every bound on Ctrl-Cs, and that the loop implements   *)
(* PairLedger.                                                             *)
(*                                                                         *)
(* Three things are strengthened.  The window holds because the counter    *)
(* counts the accepted decisions and every done entry is one of them, once *)
(* (WindowOK, DoneOK).  Nothing accepted is skipped because each pair that *)
(* was pulled is closed, accepted or in the loop's hand (NothingSkipped,   *)
(* PairsOK).  And a decision is cancelled only for a reason that stays     *)
(* visible: the token, the caller, or what is unwinding                    *)
(* (CancelledForReason).                                                   *)
(***************************************************************************)
EXTENDS SyncPairs, FiniteSetTheorems, SequenceTheorems, TLAPS

\* The loop is running, or has been left.
Looping == {"start", "pull", "check", "route", "decide", "decided", "act", "handed", "top", "get",
            "gotten", "result"}
Left == {"exit", "drain", "verdict", "out"}

\* What the place of the loop says of the pair in hand, and of what unwinds.
LoopOK ==
  /\ pc \in Looping \cup {"stopping"} => exc = "none" /\ (firm => token = "immediate")
  /\ pc \in {"route", "check", "decide", "decided", "handed"} => cur \in Pairs /\ got = 0
  /\ pc \in {"start", "pull", "top", "get"} => got = 0
  /\ pc \in {"route", "check"} => decision[cur] = "none"
  /\ pc = "decide" => decision[cur] = "running" /\ ~Pooled(cur)
  /\ pc = "handed" => Pooled(cur) /\ decision[cur] \in {"queued", "running"} \cup Over
                      /\ cur \notin pending \cup acted
  /\ pc = "decided" => decision[cur] \in {"true", "false"} /\ cur \notin acted /\ ~Pooled(cur)
  /\ pc \in {"gotten", "result"} => got \in Pairs
  /\ got # 0 => Pooled(got) /\ decision[got] \in Over /\ got \notin pending
  /\ got # 0 /\ pc \in Looping => got \notin acted
  /\ pc = "act" =>
       IF got = 0 THEN cur \in Pairs /\ ~Pooled(cur) /\ cur \notin acted
                       /\ decision[cur] \in {"true", "false"}
                  ELSE decision[got] \in {"true", "false"}
  /\ exc = "batch" => pc = "out"
  /\ pc = "finally" => exc # "none"
  /\ escaped => exc # "none" /\ pc \in Left \cup {"finally"}

\* What has been decided and done, pair by pair.
PairOK(p) ==
  /\ p > cur => decision[p] = "none"
  /\ p < cur => decision[p] # "none"
  /\ p = cur /\ decision[p] = "none" =>
     pc \in {"check", "route"} \/ exc # "none" \/ pc = "stopping"
  /\ p \in pending => Pooled(p) /\ p \notin acted
     /\ decision[p] \in {"queued", "running"} \cup Over
  /\ p \in acted => decision[p] = "true"
  /\ effect[p] # "none" => p \in acted
  /\ decision[p] \in {"queued", "running"} =>
       IF Pooled(p) THEN p \in pending \/ (p = cur /\ pc = "handed") \/ escaped
                    ELSE p = cur /\ pc = "decide"

\* The same of every pair.
PairsOK == \A p \in Pairs : PairOK(p)

\* The completions are those of accepted decisions, each once.
DoneOK ==
  /\ \A k \in 1 .. Len(done) : done[k] \in pending /\ decision[done[k]] \in Over
  /\ \A k, m \in 1 .. Len(done) : done[k] = done[m] => k = m

\* The window: the counter counts the accepted decisions, and a decision is handed over
\* only while it has room.
WindowOK ==
  /\ inflight = Cardinality(pending)
  /\ pc \in Looping \ {"top", "get"} => inflight < Cap
  /\ pc = "get" => inflight > 0
  /\ filling => inflight < Cap \/ pc \notin Looping
  /\ pending # {} => HasPool

\* No accepted pair is left behind on the way to a normal return.
InHand == IF got # 0 THEN {got}
          ELSE IF pc \in {"check", "route", "decide", "decided", "handed",
                          "act"} THEN {cur} ELSE {}

\* Nothing is left to be done about a pair.
Closed(p) == decision[p] \in {"off", "false"} \/ p \in acted

NothingSkipped ==
  /\ exc = "none" /\ pc # "stopping" =>
       \A p \in Pairs : p <= cur => Closed(p) \/ p \in pending \cup InHand
  /\ pc = "top" => inflight > 0 \/ cur = NumPairs
  /\ pc \in Left /\ exc \in {"none", "batch"} => cur = NumPairs /\ pending = {} /\ got = 0

\* What the unwinding has waited for, and how it told the end.
SettledOK ==
  /\ exc \in {"none", "batch"} =>
       /\ pc \in {"drain", "verdict", "out"} => Unsettled({"delete"}) = {}
       /\ pc \in {"verdict", "out"} => Unsettled({"create", "update"}) = {}
  /\ exc = "batch" => \E p \in acted : effect[p] = "failed"
  /\ exc = "none" /\ pc = "out" => \A p \in acted : effect[p] # "failed"

\* No decision outlives the loop, unless a Ctrl-C broke the settling.
NoneOut == pc \in Left /\ ~escaped => \A p \in pending : decision[p] \in Over

\* Only an immediate cancel, the caller, or another exception cancels a decision.
CancelledForReason ==
  /\ exc \in {"none", "cancelled"} /\ token # "immediate" /\ ~revoked =>
       \A p \in Pairs : decision[p] # "cancelled"
  /\ pc = "stopping" \/ exc = "cancelled" => token # "none"
  /\ pc = "finally" /\ exc = "cancelled" => \A p \in pending : decision[p] \in Over

\* What may begin next was cleared by a poll.
ClearedByPoll ==
  /\ late <= 1
  /\ token = "none" => late = 0
  /\ pc \in {"route", "result", "act"} => late = 0

\* The inductive invariant.
IInv ==
  /\ TypeOK /\ LoopOK /\ PairsOK /\ DoneOK /\ WindowOK
  /\ NothingSkipped /\ SettledOK /\ NoneOut /\ CancelledForReason /\ ClearedByPoll

-----------------------------------------------------------------------------
USE SyncPairsAssumption DEF SyncPairsAssumption
USE DEF Pairs, Over, loop, outcome, environment, Looping, Left

\* No step.
Stutter == UNCHANGED vars

\* The places at which the loop polls the token, and where it goes on from each.
LEMMA PollsAre ==
  /\ DOMAIN Polls = {"start", "check", "decided", "top", "gotten"}
  /\ Polls["start"] = "pull" /\ Polls["check"] = "route" /\ Polls["decided"] = "act"
  /\ Polls["top"] = "get" /\ Polls["gotten"] = "result"
BY DEF Polls

\* The places of the loop, as the type invariant lists them.
LEMMA Places ==
  DOMAIN Polls \cup {Polls[w] : w \in DOMAIN Polls}
    \cup {"decide", "handed", "stopping", "finally", "exit", "drain", "verdict", "out"}
  = Looping \cup Left \cup {"stopping", "finally"}
BY PollsAre

\* Where a poll leads from each place.
PollMoves == {<<"start", "pull">>, <<"check", "route">>, <<"decided", "act">>, <<"top", "get">>,
              <<"gotten", "result">>}

\* A poll lets the loop go on, or sends it to settle what is out.
LEMMA PollGoes ==
  ASSUME Poll
  PROVE  /\ UNCHANGED <<plan, cur, got, filling, inflight, pending, exc, done, decision, outcome,
                        environment, late>>
         /\ pc \in {"start", "check", "decided", "top", "gotten"} /\ (pc = "top" => inflight > 0)
         /\ \/ token = "none" /\ <<pc, pc'>> \in PollMoves /\ firm' = firm
            \/ token # "none" /\ pc' = "stopping" /\ firm' = (token = "immediate")
<1>1. pc \in {"start", "check", "decided", "top", "gotten"} /\ (pc = "top" => inflight > 0)
  BY PollsAre DEF Poll
<1>2. UNCHANGED <<plan, cur, got, filling, inflight, pending, exc, done, decision, outcome,
                  environment, late>>
  BY DEF Poll, Goto
<1>3. CASE token = "none"
  <2>1. pc' = Polls[pc] /\ firm' = firm
    BY <1>3 DEF Poll, Goto
  <2> QED BY <1>1, <1>2, <1>3, <2>1, PollsAre DEF PollMoves
<1>4. CASE token # "none"
  BY <1>1, <1>2, <1>4 DEF Poll
<1> QED BY <1>3, <1>4

\* The accepted decisions are finitely many.
LEMMA PendingFinite ==
  ASSUME NEW S \in SUBSET Pairs
  PROVE  IsFiniteSet(S) /\ Cardinality(S) \in Nat /\ (Cardinality(S) = 0 <=> S = {})
<1>1. IsFiniteSet(Pairs)
  BY FS_Interval
<1> QED BY <1>1, FS_Subset, FS_CardinalityType, FS_EmptySet

\* A completion is put at the end of done, and taken from its head.
LEMMA Appended ==
  ASSUME NEW T, NEW q \in Seq(T), NEW x \in T
  PROVE  /\ Append(q, x) \in Seq(T) /\ Len(Append(q, x)) = Len(q) + 1 /\ Len(q) \in Nat
         /\ \A k \in 1 .. Len(q) : Append(q, x)[k] = q[k]
         /\ Append(q, x)[Len(q) + 1] = x
BY AppendProperties

\* The rest of done holds the other completions, in their order.
LEMMA Taken ==
  ASSUME NEW T, NEW q \in Seq(T), q # << >>
  PROVE  /\ Head(q) = q[1] /\ Head(q) \in T /\ 1 \in 1 .. Len(q)
         /\ Tail(q) \in Seq(T) /\ Len(Tail(q)) = Len(q) - 1 /\ Len(q) \in Nat
         /\ \A k \in 1 .. Len(Tail(q)) : k + 1 \in 1 .. Len(q) /\ Tail(q)[k] = q[k + 1]
<1>1. Head(q) = q[1] /\ Head(q) \in T /\ Tail(q) \in Seq(T) /\ Len(Tail(q)) = Len(q) - 1
      /\ Len(q) \in Nat /\ Len(q) # 0
  BY HeadTailProperties, EmptySeq
<1>2. \A k \in 1 .. Len(Tail(q)) : k + 1 \in 1 .. Len(q) /\ Tail(q)[k] = q[k + 1]
  BY <1>1
<1> QED BY <1>1, <1>2

\* What is over stays over, and is announced once: DoneOK survives a step that adds to
\* done at most an accepted decision that was still out.
LEMMA DoneGrows ==
  ASSUME IInv, NEW p \in Pairs, decision[p] \notin Over, pending' = pending,
         done' = IF p \in pending THEN Append(done, p) ELSE done,
         decision'[p] \in Over, \A k \in Pairs \ {p} : decision'[k] = decision[k]
  PROVE  done' \in Seq(Pairs) /\ DoneOK'
<1>1. done \in Seq(Pairs) /\ DoneOK
  BY DEF IInv, TypeOK
<1>2. CASE p \notin pending
  BY <1>1, <1>2 DEF DoneOK
<1>3. CASE p \in pending
  <2>1. /\ done' \in Seq(Pairs) /\ Len(done') = Len(done) + 1 /\ Len(done) \in Nat
        /\ \A k \in 1 .. Len(done) : done'[k] = done[k]
        /\ done'[Len(done) + 1] = p
    BY <1>1, <1>3, Appended
  <2>2. \A k \in 1 .. Len(done) : done[k] \in pending /\ done[k] # p
          /\ decision'[done[k]] \in Over
    BY <1>1 DEF DoneOK, IInv, TypeOK
  <2>3. \A k \in 1 .. Len(done') : k \in 1 .. Len(done) \/ k = Len(done) + 1
    BY <2>1
  <2>4. DoneOK'
    BY <1>1, <1>3, <2>1, <2>2, <2>3 DEF DoneOK
  <2> QED BY <2>1, <2>4
<1> QED BY <1>2, <1>3

\* A poll keeps the invariant: it clears what begins next, or sends the loop to settle.
LEMMA PollKeeps == ASSUME IInv, Poll PROVE IInv'
<1>1. TypeOK'
  <2>1. pc' \in Looping \cup Left \cup {"stopping", "finally"}
    BY PollGoes DEF PollMoves
  <2>2. firm' \in BOOLEAN
    BY PollGoes DEF IInv, TypeOK
  <2>3. UNCHANGED <<plan, cur, got, filling, inflight, pending, exc, done, decision, outcome,
                   environment, late>>
    BY PollGoes
  <2> QED BY <2>1, <2>2, <2>3, Places DEF IInv, TypeOK
<1>2. LoopOK'
  BY PollGoes DEF IInv, TypeOK, LoopOK, Pooled, Off, PollMoves
<1>3. PairsOK'
  BY PollGoes DEF IInv, TypeOK, PairsOK, PairOK, Pooled, Off, PollMoves
<1>4. DoneOK'
  BY PollGoes DEF IInv, TypeOK, DoneOK
<1>5. WindowOK'
  BY PollGoes DEF IInv, TypeOK, WindowOK, HasPool, PollMoves
<1>6. NothingSkipped'
  BY PollGoes DEF IInv, TypeOK, NothingSkipped, InHand, Closed, PollMoves
<1>7. SettledOK'
  BY PollGoes DEF IInv, TypeOK, LoopOK, SettledOK, PollMoves
<1>8. NoneOut'
  BY PollGoes DEF IInv, TypeOK, NoneOut, PollMoves
<1>9. CancelledForReason'
  BY PollGoes DEF IInv, TypeOK, CancelledForReason, PollMoves
<1>10. ClearedByPoll'
  BY PollGoes DEF IInv, TypeOK, ClearedByPoll
<1> QED BY <1>1, <1>2, <1>3, <1>4, <1>5, <1>6, <1>7, <1>8, <1>9, <1>10 DEF IInv

\* The next pair is the first that nothing has been decided about.
LEMMA PullKeeps == ASSUME IInv, Pull PROVE IInv'
<1>1. TypeOK'
  <2>1. pc' \in Looping \cup Left \cup {"stopping", "finally"}
    BY DEF Pull, Raise
  <2>2. cur' \in 0 .. NumPairs
    BY DEF IInv, TypeOK, Pull, Raise
  <2>3. filling' \in BOOLEAN /\ firm' \in BOOLEAN
    BY DEF IInv, TypeOK, Pull, Raise
  <2>4. exc' \in {"none", "cancelled", "fatal", "interrupt", "batch"}
    BY DEF IInv, TypeOK, Pull, Raise
  <2>5. UNCHANGED <<plan, got, inflight, pending, done, decision, outcome, environment, late>>
    BY DEF Pull, Raise
  <2> QED BY <2>1, <2>2, <2>3, <2>4, <2>5, Places DEF IInv, TypeOK
<1>2. LoopOK'
  BY DEF IInv, TypeOK, LoopOK, PairsOK, PairOK, Pull, Raise
<1>3. PairsOK'
  BY DEF IInv, TypeOK, LoopOK, PairsOK, PairOK, Pooled, Off, Pull, Raise
<1>4. DoneOK'
  BY DEF IInv, TypeOK, DoneOK, Pull, Raise
<1>5. WindowOK'
  BY DEF IInv, TypeOK, WindowOK, HasPool, Pull, Raise
<1>6. NothingSkipped'
  BY DEF IInv, TypeOK, LoopOK, WindowOK, NothingSkipped, InHand, Closed, Pull, Raise
<1>7. SettledOK'
  BY DEF IInv, TypeOK, SettledOK, Pull, Raise
<1>8. NoneOut'
  BY DEF IInv, TypeOK, WindowOK, NoneOut, Pull, Raise
<1>9. CancelledForReason'
  BY DEF IInv, TypeOK, CancelledForReason, Pull, Raise
<1>10. ClearedByPoll'
  BY DEF IInv, TypeOK, ClearedByPoll, Pull, Raise
<1> QED BY <1>1, <1>2, <1>3, <1>4, <1>5, <1>6, <1>7, <1>8, <1>9, <1>10 DEF IInv

\* A pair is dropped, decided inline, or handed to the pool: then it is in hand.
LEMMA RouteKeeps == ASSUME IInv, Route PROVE IInv'
<1>0. /\ pc = "route" /\ cur \in Pairs /\ decision[cur] = "none" /\ got = 0 /\ exc = "none"
      /\ cur \notin pending \cup acted /\ \A k \in 1 .. Len(done) : done[k] # cur
  BY DEF IInv, TypeOK, LoopOK, PairsOK, PairOK, DoneOK, Route
<1>1. TypeOK'
  <2>1. pc' \in Looping \cup Left \cup {"stopping", "finally"}
    BY DEF Route, Goto, Raise
  <2>2. decision' \in [Pairs -> {"none", "off", "queued", "running"} \cup Over]
    BY DEF IInv, TypeOK, Route
  <2>3. firm' \in BOOLEAN /\ exc' \in {"none", "cancelled", "fatal", "interrupt", "batch"}
    BY DEF IInv, TypeOK, Route, Goto, Raise
  <2>4. late' \in Nat
    BY DEF IInv, TypeOK, Route, Begins
  <2>5. UNCHANGED <<plan, cur, got, filling, inflight, pending, done, outcome, environment>>
    BY DEF Route, Goto, Raise
  <2> QED BY <2>1, <2>2, <2>3, <2>4, <2>5, Places DEF IInv, TypeOK
<1>2. LoopOK'
  <2>1. CASE UNCHANGED decision
    BY <1>0, <2>1 DEF IInv, TypeOK, LoopOK, Route, Raise
  <2>2. CASE decision' # decision
    <3>1. /\ pc' \in {"pull", "decide", "handed"}
          /\ pc' = "decide" => decision'[cur] = "running" /\ ~Pooled(cur)
          /\ pc' = "handed" => decision'[cur] = "queued" /\ Pooled(cur)
          /\ UNCHANGED <<plan, cur, got, filling, inflight, pending, firm, exc, done, outcome,
                         environment>>
      BY <1>0, <2>2 DEF IInv, TypeOK, Route, Goto, Raise
    <3> QED BY <1>0, <3>1 DEF IInv, TypeOK, LoopOK, Pooled, Off
  <2> QED BY <2>1, <2>2
<1>3. PairsOK'
  BY DEF IInv, TypeOK, LoopOK, PairsOK, PairOK, Pooled, Off, Route, Goto, Raise
<1>4. DoneOK'
  BY <1>0 DEF IInv, TypeOK, DoneOK, Route, Goto, Raise
<1>5. WindowOK'
  BY DEF IInv, TypeOK, WindowOK, HasPool, Route, Goto, Raise
<1>6. NothingSkipped'
  BY DEF IInv, TypeOK, LoopOK, NothingSkipped, InHand, Closed, Route, Goto, Raise
<1>7. SettledOK'
  BY DEF IInv, TypeOK, SettledOK, Route, Goto, Raise
<1>8. NoneOut'
  BY DEF IInv, TypeOK, WindowOK, NoneOut, Route, Goto, Raise
<1>9. CancelledForReason'
  BY DEF IInv, TypeOK, CancelledForReason, Route, Goto, Raise
<1>10. ClearedByPoll'
  BY DEF IInv, TypeOK, ClearedByPoll, Route, Goto, Raise, Begins
<1> QED BY <1>1, <1>2, <1>3, <1>4, <1>5, <1>6, <1>7, <1>8, <1>9, <1>10 DEF IInv

\* An inline decision ends, or raises out of the loop.
LEMMA DecideKeeps == ASSUME IInv, Decide PROVE IInv'
<1>1. TypeOK'
  <2>1. pc' \in Looping \cup Left \cup {"stopping", "finally"}
    BY DEF Decide, Goto, Raise
  <2>2. decision' \in [Pairs -> {"none", "off", "queued", "running"} \cup Over]
    BY DEF IInv, TypeOK, Decide
  <2>3. firm' \in BOOLEAN /\ exc' \in {"none", "cancelled", "fatal", "interrupt", "batch"}
    BY DEF IInv, TypeOK, Decide, Goto, Raise
  <2>4. UNCHANGED <<plan, cur, got, filling, inflight, pending, done, outcome, environment, late>>
    BY DEF Decide, Goto, Raise
  <2> QED BY <2>1, <2>2, <2>3, <2>4, Places DEF IInv, TypeOK
<1>2. LoopOK'
  BY DEF IInv, TypeOK, LoopOK, PairsOK, PairOK, Pooled, Off, Decide, Goto, Raise
<1>3. PairsOK'
  BY DEF IInv, TypeOK, LoopOK, PairsOK, PairOK, Pooled, Off, Decide, Goto, Raise
<1>4. DoneOK'
  BY DEF IInv, TypeOK, DoneOK, Decide, Goto, Raise
<1>5. WindowOK'
  BY DEF IInv, TypeOK, WindowOK, HasPool, Decide, Goto, Raise
<1>6. NothingSkipped'
  BY DEF IInv, TypeOK, LoopOK, NothingSkipped, InHand, Closed, Decide, Goto, Raise
<1>7. SettledOK'
  BY DEF IInv, TypeOK, SettledOK, Decide, Goto, Raise
<1>8. NoneOut'
  BY DEF IInv, TypeOK, WindowOK, NoneOut, Decide, Goto, Raise
<1>9. CancelledForReason'
  BY DEF IInv, TypeOK, CancelledForReason, Decide, Goto, Raise
<1>10. ClearedByPoll'
  BY DEF IInv, TypeOK, ClearedByPoll, Decide, Goto, Raise
<1> QED BY <1>1, <1>2, <1>3, <1>4, <1>5, <1>6, <1>7, <1>8, <1>9, <1>10 DEF IInv

\* Registering a decision makes the counter and the accepted decisions grow by one.
LEMMA RegisterKeeps == ASSUME IInv, Register PROVE IInv'
<1>0. /\ pc = "handed" /\ cur \in Pairs /\ cur \notin pending /\ Pooled(cur) /\ inflight < Workers
      /\ IsFiniteSet(pending) /\ inflight = Cardinality(pending) /\ inflight \in Nat
      /\ pending' = pending \cup {cur} /\ inflight' = inflight + 1
  BY PendingFinite DEF IInv, TypeOK, LoopOK, WindowOK, Cap, Register
<1>d. done' \in Seq(Pairs) /\ DoneOK'
  <2>1. done \in Seq(Pairs) /\ \A k \in 1 .. Len(done) : done[k] # cur
    BY <1>0 DEF IInv, TypeOK, DoneOK
  <2>2. CASE decision[cur] \notin Over
    BY <1>0, <2>1, <2>2 DEF IInv, DoneOK, Register
  <2>3. CASE decision[cur] \in Over
    <3>1. /\ done' \in Seq(Pairs) /\ Len(done') = Len(done) + 1 /\ Len(done) \in Nat
          /\ \A k \in 1 .. Len(done) : done'[k] = done[k]
          /\ done'[Len(done) + 1] = cur
      BY <1>0, <2>1, <2>3, Appended DEF Register
    <3>2. \A k \in 1 .. Len(done') : k \in 1 .. Len(done) \/ k = Len(done) + 1
      BY <3>1
    <3> QED BY <1>0, <2>1, <2>3, <3>1, <3>2 DEF IInv, DoneOK, Register
  <2> QED BY <2>2, <2>3
<1>1. TypeOK'
  <2>1. pc' \in Looping \cup Left \cup {"stopping", "finally"}
    BY DEF Register
  <2>2. pending' \subseteq Pairs /\ inflight' \in 0 .. Workers
    BY DEF IInv, TypeOK, LoopOK, WindowOK, Cap, Register
  <2>3. done' \in Seq(Pairs)
    BY <1>d
  <2>4. filling' \in BOOLEAN
    BY DEF IInv, TypeOK, Register
  <2>5. UNCHANGED <<plan, cur, got, firm, exc, decision, outcome, environment, late>>
    BY DEF Register
  <2> QED BY <2>1, <2>2, <2>3, <2>4, <2>5, Places DEF IInv, TypeOK, Cap
<1>2. LoopOK'
  BY DEF IInv, TypeOK, LoopOK, Register
<1>3. PairsOK'
  BY DEF IInv, TypeOK, LoopOK, PairsOK, PairOK, Pooled, Off, Register
<1>4. DoneOK'
  BY <1>d
<1>5. WindowOK'
  <2>1. inflight' = Cardinality(pending')
    BY <1>0, FS_AddElement
  <2>2. HasPool
    BY <1>0 DEF IInv, TypeOK, HasPool, Pooled, Off
  <2> QED BY <1>0, <2>1, <2>2 DEF IInv, TypeOK, WindowOK, HasPool, Register
<1>6. NothingSkipped'
  BY DEF IInv, TypeOK, NothingSkipped, InHand, Closed, Register
<1>7. SettledOK'
  BY DEF IInv, TypeOK, SettledOK, Register
<1>8. NoneOut'
  BY DEF IInv, TypeOK, NoneOut, Register
<1>9. CancelledForReason'
  BY DEF IInv, TypeOK, CancelledForReason, Register
<1>10. ClearedByPoll'
  BY DEF IInv, TypeOK, ClearedByPoll, Register
<1> QED BY <1>1, <1>2, <1>3, <1>4, <1>5, <1>6, <1>7, <1>8, <1>9, <1>10 DEF IInv

\* The second loop ends once every accepted decision was consumed.
LEMMA WindowEmptyKeeps == ASSUME IInv, WindowEmpty PROVE IInv'
<1>0. pending = {}
  BY PendingFinite DEF IInv, TypeOK, WindowOK, WindowEmpty
<1>1. TypeOK'
  BY Places DEF IInv, TypeOK, WindowEmpty, Goto
<1>2. LoopOK'
  BY <1>0 DEF IInv, TypeOK, LoopOK, WindowEmpty, Goto
<1>3. PairsOK'
  BY <1>0 DEF IInv, TypeOK, LoopOK, PairsOK, PairOK, WindowEmpty, Goto
<1>4. DoneOK'
  BY <1>0 DEF IInv, TypeOK, DoneOK, WindowEmpty, Goto
<1>5. WindowOK'
  BY <1>0 DEF IInv, TypeOK, WindowOK, WindowEmpty, Goto
<1>6. NothingSkipped'
  BY <1>0 DEF IInv, TypeOK, LoopOK, NothingSkipped, InHand, Closed, WindowEmpty, Goto
<1>7. SettledOK'
  BY <1>0 DEF IInv, TypeOK, SettledOK, WindowEmpty, Goto
<1>8. NoneOut'
  BY <1>0 DEF IInv, TypeOK, NoneOut, WindowEmpty, Goto
<1>9. CancelledForReason'
  BY <1>0 DEF IInv, TypeOK, CancelledForReason, WindowEmpty, Goto
<1>10. ClearedByPoll'
  BY <1>0 DEF IInv, TypeOK, ClearedByPoll, WindowEmpty, Goto
<1> QED BY <1>1, <1>2, <1>3, <1>4, <1>5, <1>6, <1>7, <1>8, <1>9, <1>10 DEF IInv

\* Consuming a completion takes one from the counter and from the accepted decisions.
LEMMA GetKeeps == ASSUME IInv, Get PROVE IInv'
<1>e. ASSUME done = << >> PROVE IInv'
  <2>1. /\ pc = "get" /\ pc' = "top"
        /\ UNCHANGED <<plan, cur, got, filling, inflight, pending, firm, exc, done, decision,
                       outcome, environment, late>>
    BY <1>e DEF Get, Goto
  <2>2. TypeOK'
    BY <2>1, Places DEF IInv, TypeOK
  <2>3. LoopOK' /\ PairsOK' /\ DoneOK' /\ WindowOK' /\ NoneOut'
    BY <2>1 DEF IInv, TypeOK, LoopOK, PairsOK, PairOK, DoneOK, WindowOK, NoneOut, Pooled, Off,
           HasPool
  <2>4. NothingSkipped' /\ SettledOK'
    BY <2>1 DEF IInv, TypeOK, WindowOK, NothingSkipped, InHand, Closed, SettledOK
  <2>5. CancelledForReason' /\ ClearedByPoll'
    BY <2>1 DEF IInv, CancelledForReason, ClearedByPoll
  <2> QED BY <2>2, <2>3, <2>4, <2>5 DEF IInv
<1> SUFFICES ASSUME done # << >> PROVE IInv'
  BY <1>e
<1>g. /\ pc = "get" /\ pc' = "gotten" /\ got' = Head(done) /\ done' = Tail(done)
      /\ pending' = pending \ {got'} /\ inflight' = inflight - 1
      /\ UNCHANGED <<plan, cur, filling, firm, exc, decision, outcome, environment, late>>
  BY DEF Get
<1>h. /\ got' = done[1] /\ got' \in Pairs /\ 1 \in 1 .. Len(done) /\ Len(done) \in Nat
      /\ done' \in Seq(Pairs) /\ Len(done') = Len(done) - 1
      /\ \A k \in 1 .. Len(done') : k + 1 \in 1 .. Len(done) /\ done'[k] = done[k + 1]
  BY <1>g, Taken DEF IInv, TypeOK
<1>i. /\ got' \in pending /\ decision[got'] \in Over /\ Pooled(got') /\ got' \notin acted
      /\ \A k \in 1 .. Len(done) : done[k] = got' => k = 1
  BY <1>h DEF IInv, DoneOK, PairsOK, PairOK
<1>j. inflight' = Cardinality(pending') /\ inflight' \in 0 .. Workers
  <2>1. IsFiniteSet(pending) /\ inflight = Cardinality(pending) /\ inflight \in 1 .. Workers
    BY <1>g, PendingFinite DEF IInv, TypeOK, WindowOK, Cap
  <2>2. Cardinality(pending \ {got'}) = Cardinality(pending) - 1
    BY <1>i, <2>1, FS_RemoveElement
  <2> QED BY <1>g, <2>1, <2>2
<1>1. TypeOK'
  <2>1. pc' = "gotten" /\ pending' \subseteq Pairs
    BY <1>g DEF IInv, TypeOK
  <2>2. got' \in 0 .. NumPairs /\ inflight' \in 0 .. Cap
    BY <1>h, <1>j DEF Cap
  <2> QED BY <2>1, <2>2, <1>g, <1>h, Places DEF IInv, TypeOK
<1>2. LoopOK'
  BY <1>g, <1>h, <1>i, <1>j DEF IInv, TypeOK, LoopOK, Pooled, Off
<1>3. PairsOK'
  BY <1>g, <1>h, <1>i, <1>j DEF IInv, TypeOK, PairsOK, PairOK, Pooled, Off
<1>4. DoneOK'
  BY <1>g, <1>h, <1>i, <1>j DEF IInv, TypeOK, LoopOK, PairsOK, PairOK, DoneOK
<1>5. WindowOK'
  BY <1>g, <1>j DEF IInv, TypeOK, WindowOK, HasPool, Cap
<1>6. NothingSkipped'
  BY <1>g, <1>h, <1>i, <1>j DEF IInv, TypeOK, LoopOK, NothingSkipped, InHand, Closed
<1>7. SettledOK'
  BY <1>g, <1>h, <1>i, <1>j DEF IInv, TypeOK, SettledOK
<1>8. NoneOut'
  BY <1>g, <1>h, <1>i, <1>j DEF IInv, TypeOK, NoneOut
<1>9. CancelledForReason'
  BY <1>g, <1>h, <1>i, <1>j DEF IInv, TypeOK, CancelledForReason
<1>10. ClearedByPoll'
  BY <1>g, <1>h, <1>i, <1>j DEF IInv, TypeOK, ClearedByPoll
<1> QED BY <1>1, <1>2, <1>3, <1>4, <1>5, <1>6, <1>7, <1>8, <1>9, <1>10 DEF IInv

\* The consumed decision's result goes on to its action, or its exception unwinds.
LEMMA ResultKeeps == ASSUME IInv, Result PROVE IInv'
<1>1. TypeOK'
  <2>1. pc' \in Looping \cup Left \cup {"stopping", "finally"}
    BY DEF Result, Goto, Raise
  <2>2. firm' \in BOOLEAN /\ exc' \in {"none", "cancelled", "fatal", "interrupt", "batch"}
    BY DEF IInv, TypeOK, Result, Goto, Raise
  <2>3. UNCHANGED <<plan, cur, got, filling, inflight, pending, done, decision, outcome,
                    environment, late>>
    BY DEF Result, Goto, Raise
  <2> QED BY <2>1, <2>2, <2>3, Places DEF IInv, TypeOK
<1>2. LoopOK'
  BY DEF IInv, TypeOK, LoopOK, Pooled, Off, Result, Goto, Raise
<1>3. PairsOK'
  BY DEF IInv, TypeOK, PairsOK, PairOK, Pooled, Off, Result, Goto, Raise
<1>4. DoneOK'
  BY DEF IInv, TypeOK, DoneOK, Result, Goto, Raise
<1>5. WindowOK'
  BY DEF IInv, TypeOK, WindowOK, HasPool, Result, Goto, Raise
<1>6. NothingSkipped'
  BY DEF IInv, TypeOK, NothingSkipped, InHand, Closed, Result, Goto, Raise
<1>7. SettledOK'
  BY DEF IInv, TypeOK, SettledOK, Result, Goto, Raise
<1>8. NoneOut'
  BY DEF IInv, TypeOK, WindowOK, NoneOut, Result, Goto, Raise
<1>9. CancelledForReason'
  BY DEF IInv, TypeOK, CancelledForReason, Result, Goto, Raise
<1>10. ClearedByPoll'
  BY DEF IInv, TypeOK, ClearedByPoll, Result, Goto, Raise
<1> QED BY <1>1, <1>2, <1>3, <1>4, <1>5, <1>6, <1>7, <1>8, <1>9, <1>10 DEF IInv

\* A pair is acted on once, after its decision, and may fail to be handed over.
LEMMA ActKeeps == ASSUME IInv, Act PROVE IInv'
<1>1. TypeOK'
  <2>1. pc' \in Looping \cup Left \cup {"stopping", "finally"}
    BY DEF Act, Raise
  <2>2. acted' \subseteq Pairs
    <3>1. (IF got = 0 THEN cur ELSE got) \in Pairs
      BY DEF IInv, TypeOK, LoopOK, Act
    <3>2. acted' \subseteq acted \cup {IF got = 0 THEN cur ELSE got}
      BY DEF Act
    <3> QED BY <3>1, <3>2 DEF IInv, TypeOK
  <2>3. firm' \in BOOLEAN /\ exc' \in {"none", "cancelled", "fatal", "interrupt", "batch"}
    BY DEF IInv, TypeOK, Act, Raise
  <2>4. late' \in Nat /\ got' \in 0 .. NumPairs
    BY DEF IInv, TypeOK, Act, Begins
  <2>5. UNCHANGED <<plan, cur, filling, inflight, pending, done, decision, effect, environment>>
    BY DEF Act, Raise
  <2> QED BY <2>1, <2>2, <2>3, <2>4, <2>5, Places DEF IInv, TypeOK
<1>2. LoopOK'
  BY DEF IInv, TypeOK, LoopOK, Pooled, Off, Act, Raise
<1>3. PairsOK'
  BY DEF IInv, TypeOK, LoopOK, PairsOK, PairOK, Pooled, Off, Act, Raise
<1>4. DoneOK'
  BY DEF IInv, TypeOK, DoneOK, Act, Raise
<1>5. WindowOK'
  BY DEF IInv, TypeOK, WindowOK, HasPool, Act, Raise
<1>6. NothingSkipped'
  BY DEF IInv, TypeOK, LoopOK, NothingSkipped, InHand, Closed, Act, Raise
<1>7. SettledOK'
  BY DEF IInv, TypeOK, SettledOK, Act, Raise
<1>8. NoneOut'
  BY DEF IInv, TypeOK, WindowOK, NoneOut, Act, Raise
<1>9. CancelledForReason'
  BY DEF IInv, TypeOK, CancelledForReason, Act, Raise
<1>10. ClearedByPoll'
  BY DEF IInv, TypeOK, ClearedByPoll, Act, Raise, Begins
<1> QED BY <1>1, <1>2, <1>3, <1>4, <1>5, <1>6, <1>7, <1>8, <1>9, <1>10 DEF IInv

\* Settling waits for every accepted decision or cancels those that have not begun.
LEMMA SettleKeeps == ASSUME IInv, Settle PROVE IInv'
<1>0. /\ pc \in {"stopping", "finally"}
      /\ decision' \in [Pairs -> {"none", "off", "queued", "running"} \cup Over]
      /\ \A p \in Pairs :
           \/ decision'[p] = decision[p]
           \/ /\ p \in pending /\ decision[p] = "queued" /\ decision'[p] = "cancelled"
              /\ firm \/ token = "immediate"
      /\ UNCHANGED <<plan, cur, got, filling, inflight, pending, done, outcome, environment,
                     late>>
  BY DEF IInv, TypeOK, Settle, Goto, Raise
<1>c. \/ pc' = pc /\ exc' = exc /\ firm' = (firm \/ token = "immediate")
      \/ /\ pc = "stopping" /\ exc' = "cancelled" /\ firm' = TRUE
         /\ pc' = IF HasPool /\ pending # {} THEN "finally" ELSE "exit"
         /\ \A p \in pending : decision'[p] \in Over
      \/ /\ pc = "finally" /\ pc' = "exit" /\ UNCHANGED <<exc, firm>>
         /\ \A p \in pending : decision'[p] \in Over
  BY DEF Settle, Goto, Raise
<1>1. TypeOK'
  <2>1. pc' \in Looping \cup Left \cup {"stopping", "finally"}
    BY DEF Settle, Goto, Raise
  <2>2. decision' \in [Pairs -> {"none", "off", "queued", "running"} \cup Over]
    BY DEF IInv, TypeOK, Settle
  <2>3. firm' \in BOOLEAN /\ exc' \in {"none", "cancelled", "fatal", "interrupt", "batch"}
    BY DEF IInv, TypeOK, Settle, Goto, Raise
  <2>4. UNCHANGED <<plan, cur, got, filling, inflight, pending, done, outcome, environment, late>>
    BY DEF Settle, Goto, Raise
  <2> QED BY <2>1, <2>2, <2>3, <2>4, Places DEF IInv, TypeOK
<1>2. LoopOK'
  <2>1. got' # 0 => Pooled(got)' /\ decision'[got'] \in Over /\ got' \notin pending'
    BY <1>0 DEF IInv, TypeOK, LoopOK, Pooled, Off
  <2> QED BY <1>0, <1>c, <2>1 DEF IInv, TypeOK, LoopOK
<1>3. PairsOK'
  BY <1>0, <1>c DEF IInv, TypeOK, LoopOK, PairsOK, PairOK, Pooled, Off
<1>4. DoneOK'
  BY <1>0, <1>c DEF IInv, TypeOK, DoneOK
<1>5. WindowOK'
  BY <1>0, <1>c DEF IInv, TypeOK, WindowOK, HasPool
<1>6. NothingSkipped'
  BY <1>0, <1>c DEF IInv, TypeOK, LoopOK, NothingSkipped
<1>7. SettledOK'
  BY <1>0, <1>c DEF IInv, TypeOK, SettledOK
<1>8. NoneOut'
  BY <1>0, <1>c DEF IInv, TypeOK, NoneOut
<1>9. CancelledForReason'
  <2>1. CancelledForReason
          /\ \A q \in Pairs : decision[q] \in {"none", "off", "queued", "running"} \cup Over
    BY DEF IInv, TypeOK
  <2>2. CASE pc = "stopping"
    <3>1. exc = "none" /\ (firm => token = "immediate")
      BY <2>2 DEF IInv, LoopOK
    <3> QED BY <1>0, <1>c, <2>1, <2>2, <3>1 DEF CancelledForReason
  <2>3. CASE pc = "finally"
    <3>1. exc # "none" /\ exc' = exc /\ pending \subseteq Pairs
      BY <1>c, <2>3 DEF IInv, TypeOK, LoopOK
    <3>2. exc = "cancelled" => \A q \in Pairs : decision'[q] = decision[q]
      BY <1>0, <2>1, <2>3 DEF CancelledForReason
    <3> QED BY <1>0, <1>c, <2>1, <2>3, <3>1, <3>2 DEF CancelledForReason
  <2> QED BY <1>0, <2>2, <2>3
<1>10. ClearedByPoll'
  BY <1>0, <1>c DEF IInv, TypeOK, ClearedByPoll
<1> QED BY <1>1, <1>2, <1>3, <1>4, <1>5, <1>6, <1>7, <1>8, <1>9, <1>10 DEF IInv

\* Leaving the deleter waits for the deletes, unless something unwinds.
LEMMA ExitDeletesKeeps == ASSUME IInv, ExitDeletes PROVE IInv'
<1>1. TypeOK'
  BY Places DEF IInv, TypeOK, ExitDeletes, Leave
<1>2. LoopOK'
  BY DEF IInv, TypeOK, LoopOK, Pooled, Off, ExitDeletes, Leave
<1>3. PairsOK'
  BY DEF IInv, TypeOK, PairsOK, PairOK, Pooled, Off, ExitDeletes, Leave
<1>4. DoneOK'
  BY DEF IInv, TypeOK, DoneOK, ExitDeletes, Leave
<1>5. WindowOK'
  BY DEF IInv, TypeOK, WindowOK, HasPool, ExitDeletes, Leave
<1>6. NothingSkipped'
  BY DEF IInv, TypeOK, NothingSkipped, InHand, Closed, ExitDeletes, Leave
<1>7. SettledOK'
  BY DEF IInv, TypeOK, LoopOK, SettledOK, Unsettled, ExitDeletes, Leave
<1>8. NoneOut'
  BY DEF IInv, TypeOK, NoneOut, ExitDeletes, Leave
<1>9. CancelledForReason'
  BY DEF IInv, TypeOK, CancelledForReason, ExitDeletes, Leave
<1>10. ClearedByPoll'
  BY DEF IInv, TypeOK, ClearedByPoll, ExitDeletes, Leave
<1> QED BY <1>1, <1>2, <1>3, <1>4, <1>5, <1>6, <1>7, <1>8, <1>9, <1>10 DEF IInv

\* Leaving the engine waits for the transfers, unless something unwinds.
LEMMA ExitTransfersKeeps == ASSUME IInv, ExitTransfers PROVE IInv'
<1>1. TypeOK'
  BY Places DEF IInv, TypeOK, ExitTransfers, Leave
<1>2. LoopOK'
  BY DEF IInv, TypeOK, LoopOK, Pooled, Off, ExitTransfers, Leave
<1>3. PairsOK'
  BY DEF IInv, TypeOK, PairsOK, PairOK, Pooled, Off, ExitTransfers, Leave
<1>4. DoneOK'
  BY DEF IInv, TypeOK, DoneOK, ExitTransfers, Leave
<1>5. WindowOK'
  BY DEF IInv, TypeOK, WindowOK, HasPool, ExitTransfers, Leave
<1>6. NothingSkipped'
  BY DEF IInv, TypeOK, NothingSkipped, InHand, Closed, ExitTransfers, Leave
<1>7. SettledOK'
  BY DEF IInv, TypeOK, LoopOK, SettledOK, Unsettled, ExitTransfers, Leave
<1>8. NoneOut'
  BY DEF IInv, TypeOK, NoneOut, ExitTransfers, Leave
<1>9. CancelledForReason'
  BY DEF IInv, TypeOK, CancelledForReason, ExitTransfers, Leave
<1>10. ClearedByPoll'
  BY DEF IInv, TypeOK, ClearedByPoll, ExitTransfers, Leave
<1> QED BY <1>1, <1>2, <1>3, <1>4, <1>5, <1>6, <1>7, <1>8, <1>9, <1>10 DEF IInv

\* The verdict: cancelled, a batch error if an item failed, or a normal return.
LEMMA VerdictKeeps == ASSUME IInv, Verdict PROVE IInv'
<1>1. TypeOK'
  BY Places DEF IInv, TypeOK, Verdict
<1>2. LoopOK'
  BY DEF IInv, TypeOK, LoopOK, Pooled, Off, Verdict
<1>3. PairsOK'
  BY DEF IInv, TypeOK, PairsOK, PairOK, Pooled, Off, Verdict
<1>4. DoneOK'
  BY DEF IInv, TypeOK, DoneOK, Verdict
<1>5. WindowOK'
  BY DEF IInv, TypeOK, WindowOK, HasPool, Verdict
<1>6. NothingSkipped'
  BY DEF IInv, TypeOK, NothingSkipped, InHand, Closed, Verdict
<1>7. SettledOK'
  BY DEF IInv, TypeOK, SettledOK, Unsettled, Verdict
<1>8. NoneOut'
  BY DEF IInv, TypeOK, NoneOut, Verdict
<1>9. CancelledForReason'
  BY DEF IInv, TypeOK, CancelledForReason, Verdict
<1>10. ClearedByPoll'
  BY DEF IInv, TypeOK, ClearedByPoll, Verdict
<1> QED BY <1>1, <1>2, <1>3, <1>4, <1>5, <1>6, <1>7, <1>8, <1>9, <1>10 DEF IInv

\* A pool worker begins a queued decision.
LEMMA StartDecisionKeeps == ASSUME NEW p \in Pairs, IInv, StartDecision(p) PROVE IInv'
<1>1. TypeOK'
  BY Places DEF IInv, TypeOK, StartDecision
<1>2. LoopOK'
  BY DEF IInv, TypeOK, LoopOK, Pooled, Off, StartDecision
<1>3. PairsOK'
  BY DEF IInv, TypeOK, PairsOK, PairOK, Pooled, Off, StartDecision
<1>4. DoneOK'
  BY DEF IInv, TypeOK, DoneOK, StartDecision
<1>5. WindowOK'
  BY DEF IInv, TypeOK, WindowOK, HasPool, StartDecision
<1>6. NothingSkipped'
  BY DEF IInv, TypeOK, NothingSkipped, InHand, Closed, StartDecision
<1>7. SettledOK'
  BY DEF IInv, TypeOK, SettledOK, Unsettled, StartDecision
<1>8. NoneOut'
  BY DEF IInv, TypeOK, NoneOut, StartDecision
<1>9. CancelledForReason'
  BY DEF IInv, TypeOK, CancelledForReason, StartDecision
<1>10. ClearedByPoll'
  BY DEF IInv, TypeOK, ClearedByPoll, StartDecision
<1> QED BY <1>1, <1>2, <1>3, <1>4, <1>5, <1>6, <1>7, <1>8, <1>9, <1>10 DEF IInv

\* A pooled decision ends, and is announced once if it was accepted.
LEMMA FinishDecisionKeeps == ASSUME NEW p \in Pairs, IInv, FinishDecision(p) PROVE IInv'
<1>0. done' \in Seq(Pairs) /\ DoneOK'
  <2>1. PICK d \in Over \ {"cancelled"} : EndDecision(p, d)
    BY DEF FinishDecision
  <2>2. decision[p] = "running"
    BY DEF FinishDecision
  <2>3. /\ decision'[p] = d /\ \A k \in Pairs \ {p} : decision'[k] = decision[k]
        /\ pending' = pending /\ done' = IF p \in pending THEN Append(done, p) ELSE done
    BY <2>1 DEF IInv, TypeOK, EndDecision
  <2> QED BY <2>2, <2>3, DoneGrows
<1>1. TypeOK'
  <2>1. decision' \in [Pairs -> {"none", "off", "queued", "running"} \cup Over]
    BY DEF IInv, TypeOK, FinishDecision, EndDecision
  <2>2. done' \in Seq(Pairs)
    BY <1>0
  <2>3. revoked' \in BOOLEAN
    BY DEF IInv, TypeOK, FinishDecision
  <2>4. UNCHANGED <<plan, loop, outcome, token, interrupts, escaped, late>>
    BY DEF FinishDecision, EndDecision
  <2> QED BY <2>1, <2>2, <2>3, <2>4, Places DEF IInv, TypeOK
<1>2. LoopOK'
  BY DEF IInv, TypeOK, LoopOK, Pooled, Off, FinishDecision, EndDecision
<1>3. PairsOK'
  BY DEF IInv, TypeOK, PairsOK, PairOK, Pooled, Off, FinishDecision, EndDecision
<1>4. DoneOK'
  BY <1>0
<1>5. WindowOK'
  BY DEF IInv, TypeOK, WindowOK, HasPool, FinishDecision, EndDecision
<1>6. NothingSkipped'
  BY DEF IInv, TypeOK, PairsOK, NothingSkipped, InHand, Closed, FinishDecision, EndDecision
<1>7. SettledOK'
  BY DEF IInv, TypeOK, SettledOK, Unsettled, FinishDecision, EndDecision
<1>8. NoneOut'
  BY DEF IInv, TypeOK, NoneOut, FinishDecision, EndDecision
<1>9. CancelledForReason'
  BY DEF IInv, TypeOK, CancelledForReason, FinishDecision, EndDecision
<1>10. ClearedByPoll'
  BY DEF IInv, TypeOK, ClearedByPoll, FinishDecision, EndDecision
<1> QED BY <1>1, <1>2, <1>3, <1>4, <1>5, <1>6, <1>7, <1>8, <1>9, <1>10 DEF IInv

\* The caller cancels a queued decision of its own pool.
LEMMA RevokeDecisionKeeps == ASSUME NEW p \in Pairs, IInv, RevokeDecision(p) PROVE IInv'
<1>0. done' \in Seq(Pairs) /\ DoneOK'
  BY DoneGrows DEF IInv, TypeOK, RevokeDecision, EndDecision
<1>1. TypeOK'
  <2>1. decision' \in [Pairs -> {"none", "off", "queued", "running"} \cup Over]
    BY DEF IInv, TypeOK, RevokeDecision, EndDecision
  <2>2. done' \in Seq(Pairs)
    BY <1>0
  <2>3. revoked' \in BOOLEAN
    BY DEF IInv, TypeOK, RevokeDecision
  <2>4. UNCHANGED <<plan, loop, outcome, token, interrupts, escaped, late>>
    BY DEF RevokeDecision, EndDecision
  <2> QED BY <2>1, <2>2, <2>3, <2>4, Places DEF IInv, TypeOK
<1>2. LoopOK'
  BY DEF IInv, TypeOK, LoopOK, Pooled, Off, RevokeDecision, EndDecision
<1>3. PairsOK'
  BY DEF IInv, TypeOK, PairsOK, PairOK, Pooled, Off, RevokeDecision, EndDecision
<1>4. DoneOK'
  BY <1>0
<1>5. WindowOK'
  BY DEF IInv, TypeOK, WindowOK, HasPool, RevokeDecision, EndDecision
<1>6. NothingSkipped'
  BY DEF IInv, TypeOK, NothingSkipped, InHand, Closed, RevokeDecision, EndDecision
<1>7. SettledOK'
  BY DEF IInv, TypeOK, SettledOK, Unsettled, RevokeDecision, EndDecision
<1>8. NoneOut'
  BY DEF IInv, TypeOK, NoneOut, RevokeDecision, EndDecision
<1>9. CancelledForReason'
  BY DEF IInv, TypeOK, CancelledForReason, RevokeDecision, EndDecision
<1>10. ClearedByPoll'
  BY DEF IInv, TypeOK, ClearedByPoll, RevokeDecision, EndDecision
<1> QED BY <1>1, <1>2, <1>3, <1>4, <1>5, <1>6, <1>7, <1>8, <1>9, <1>10 DEF IInv

\* An item that was handed over settles.
LEMMA SettleItemKeeps == ASSUME NEW p \in Pairs, IInv, SettleItem(p) PROVE IInv'
<1>1. TypeOK'
  BY Places DEF IInv, TypeOK, SettleItem
<1>2. LoopOK'
  BY DEF IInv, TypeOK, LoopOK, Pooled, Off, SettleItem
<1>3. PairsOK'
  BY DEF IInv, TypeOK, PairsOK, PairOK, Pooled, Off, SettleItem
<1>4. DoneOK'
  BY DEF IInv, TypeOK, LoopOK, DoneOK, SettleItem
<1>5. WindowOK'
  BY DEF IInv, TypeOK, WindowOK, HasPool, SettleItem
<1>6. NothingSkipped'
  BY DEF IInv, TypeOK, NothingSkipped, InHand, Closed, SettleItem
<1>7. SettledOK'
  BY DEF IInv, TypeOK, SettledOK, Unsettled, SettleItem
<1>8. NoneOut'
  BY DEF IInv, TypeOK, NoneOut, SettleItem
<1>9. CancelledForReason'
  BY DEF IInv, TypeOK, CancelledForReason, SettleItem
<1>10. ClearedByPoll'
  BY DEF IInv, TypeOK, ClearedByPoll, SettleItem
<1> QED BY <1>1, <1>2, <1>3, <1>4, <1>5, <1>6, <1>7, <1>8, <1>9, <1>10 DEF IInv

\* The token escalates.
LEMMA CancelKeeps == ASSUME IInv, Cancel PROVE IInv'
<1>1. TypeOK'
  BY Places DEF IInv, TypeOK, Cancel
<1>2. LoopOK'
  BY DEF IInv, TypeOK, LoopOK, Pooled, Off, Cancel
<1>3. PairsOK'
  BY DEF IInv, TypeOK, PairsOK, PairOK, Pooled, Off, Cancel
<1>4. DoneOK'
  BY DEF IInv, TypeOK, DoneOK, Cancel
<1>5. WindowOK'
  BY DEF IInv, TypeOK, WindowOK, HasPool, Cancel
<1>6. NothingSkipped'
  BY DEF IInv, TypeOK, NothingSkipped, InHand, Closed, Cancel
<1>7. SettledOK'
  BY DEF IInv, TypeOK, SettledOK, Unsettled, Cancel
<1>8. NoneOut'
  BY DEF IInv, TypeOK, NoneOut, Cancel
<1>9. CancelledForReason'
  BY DEF IInv, TypeOK, CancelledForReason, Cancel
<1>10. ClearedByPoll'
  BY DEF IInv, TypeOK, ClearedByPoll, Cancel
<1> QED BY <1>1, <1>2, <1>3, <1>4, <1>5, <1>6, <1>7, <1>8, <1>9, <1>10 DEF IInv

\* A Ctrl-C unwinds from anywhere on the calling thread.
LEMMA InterruptKeeps == ASSUME IInv, Interrupt PROVE IInv'
<1>0. \/ /\ pc \in {"exit", "drain", "verdict"} /\ exc' = "interrupt"
         /\ UNCHANGED <<pc, firm, escaped, decision>>
      \/ /\ pc = "finally" /\ pc' = "exit" /\ exc' = "interrupt" /\ escaped' = TRUE
         /\ UNCHANGED <<firm, decision>>
      \/ /\ pc \in Looping \cup {"stopping"} /\ exc' = "interrupt" /\ firm' = TRUE
         /\ pc' = IF HasPool /\ pending # {} THEN "finally" ELSE "exit"
         /\ escaped' = (pc = "handed")
         /\ decision' = IF pc = "decide" THEN [decision EXCEPT ![cur] = "failed"] ELSE decision
  BY Places DEF IInv, TypeOK, Interrupt, Raise
<1>u. UNCHANGED <<plan, cur, got, filling, inflight, pending, done, outcome, token, revoked,
                  late>>
  BY DEF Interrupt, Raise
<1>1. TypeOK'
  <2>1. pc' \in Looping \cup Left \cup {"stopping", "finally"}
    BY <1>0
  <2>2. decision' \in [Pairs -> {"none", "off", "queued", "running"} \cup Over]
    BY <1>0 DEF IInv, TypeOK
  <2>3. firm' \in BOOLEAN /\ exc' \in {"none", "cancelled", "fatal", "interrupt", "batch"}
    BY <1>0 DEF IInv, TypeOK
  <2>4. escaped' \in BOOLEAN
    BY <1>0 DEF IInv, TypeOK
  <2>5. interrupts' \in 0 .. MaxInterrupts
    BY DEF IInv, TypeOK, Interrupt
  <2>6. UNCHANGED <<plan, cur, got, filling, inflight, pending, done, outcome, token, revoked,
                    late>>
    BY <1>u
  <2> QED BY <2>1, <2>2, <2>3, <2>4, <2>5, <2>6, Places DEF IInv, TypeOK
<1>2. LoopOK'
  BY <1>0, <1>u DEF IInv, TypeOK, LoopOK, Pooled, Off
<1>3. PairsOK'
  <2> SUFFICES ASSUME NEW p \in Pairs PROVE PairOK(p)'
    BY DEF PairsOK
  <2>1. PairOK(p)
    BY DEF IInv, PairsOK
  <2>2. decision'[p] = IF pc = "decide" /\ p = cur THEN "failed" ELSE decision[p]
    BY <1>0 DEF IInv, TypeOK
  <2>3. pc = "decide" => cur \notin pending \cup acted /\ cur \in Pairs
    BY DEF IInv, LoopOK, PairsOK, PairOK
  <2>4. escaped => escaped'
    BY <1>0 DEF IInv, LoopOK
  <2>5. decision'[p] \in {"queued", "running"} =>
          IF Pooled(p) THEN p \in pending \/ escaped' ELSE FALSE
    BY <1>0, <2>1, <2>2, <2>4 DEF PairOK
  <2> QED BY <1>0, <1>u, <2>1, <2>2, <2>3, <2>5 DEF PairOK, Pooled, Off
<1>4. DoneOK'
  BY <1>0, <1>u DEF IInv, TypeOK, DoneOK
<1>5. WindowOK'
  BY <1>0, <1>u DEF IInv, TypeOK, WindowOK, HasPool
<1>6. NothingSkipped'
  BY <1>0, <1>u DEF IInv, TypeOK, NothingSkipped
<1>7. SettledOK'
  BY <1>0, <1>u DEF IInv, TypeOK, SettledOK
<1>8. NoneOut'
  BY <1>0, <1>u DEF IInv, TypeOK, WindowOK, NoneOut
<1>9. CancelledForReason'
  BY <1>0, <1>u DEF IInv, TypeOK, CancelledForReason
<1>10. ClearedByPoll'
  BY <1>0, <1>u DEF IInv, TypeOK, ClearedByPoll
<1> QED BY <1>1, <1>2, <1>3, <1>4, <1>5, <1>6, <1>7, <1>8, <1>9, <1>10 DEF IInv

\* A step that changes nothing keeps the invariant.
LEMMA StutterKeeps == ASSUME IInv, Stutter PROVE IInv'
<1>1. TypeOK'
  BY Places DEF IInv, TypeOK, Stutter, vars
<1>2. LoopOK'
  BY DEF IInv, TypeOK, LoopOK, Pooled, Off, Stutter, vars
<1>3. PairsOK'
  BY DEF IInv, TypeOK, PairsOK, PairOK, Pooled, Off, Stutter, vars
<1>4. DoneOK'
  BY DEF IInv, TypeOK, DoneOK, Stutter, vars
<1>5. WindowOK'
  BY DEF IInv, TypeOK, WindowOK, HasPool, Stutter, vars
<1>6. NothingSkipped'
  BY DEF IInv, TypeOK, NothingSkipped, InHand, Closed, Stutter, vars
<1>7. SettledOK'
  BY DEF IInv, TypeOK, SettledOK, Unsettled, Stutter, vars
<1>8. NoneOut'
  BY DEF IInv, TypeOK, NoneOut, Stutter, vars
<1>9. CancelledForReason'
  BY DEF IInv, TypeOK, CancelledForReason, Stutter, vars
<1>10. ClearedByPoll'
  BY DEF IInv, TypeOK, ClearedByPoll, Stutter, vars
<1> QED BY <1>1, <1>2, <1>3, <1>4, <1>5, <1>6, <1>7, <1>8, <1>9, <1>10 DEF IInv

-----------------------------------------------------------------------------
(* The invariant, and what follows from it.                                *)

\* At the start nothing has been pulled, decided or handed over.
LEMMA Initially == Init => IInv
<1> SUFFICES ASSUME Init PROVE IInv
  OBVIOUS
<1>1. Cardinality({}) = 0
  BY FS_EmptySet
<1>2. TypeOK
  <2>1. pc \in Looping \cup Left \cup {"stopping", "finally"}
    BY DEF Init
  <2>2. inflight \in 0 .. Cap /\ pending \subseteq Pairs /\ done \in Seq(Pairs)
    BY DEF Init, Cap
  <2>3. /\ decision \in [Pairs -> {"none", "off", "queued", "running"} \cup Over]
        /\ acted \subseteq Pairs /\ effect \in [Pairs -> {"none", "ok", "failed"}]
    BY DEF Init
  <2>4. cur \in 0 .. NumPairs /\ got \in 0 .. NumPairs /\ late \in Nat
          /\ interrupts \in 0 .. MaxInterrupts
    BY DEF Init
  <2> QED BY <2>1, <2>2, <2>3, <2>4, Places DEF Init, TypeOK
<1>3. LoopOK /\ PairsOK /\ DoneOK
  BY DEF Init, LoopOK, PairsOK, PairOK, DoneOK
<1>4. WindowOK
  BY <1>1 DEF Init, WindowOK, Cap
<1>5. NothingSkipped /\ SettledOK /\ NoneOut
  BY DEF Init, NothingSkipped, SettledOK, NoneOut
<1>6. CancelledForReason /\ ClearedByPoll
  BY DEF Init, CancelledForReason, ClearedByPoll
<1> QED BY <1>2, <1>3, <1>4, <1>5, <1>6 DEF IInv

\* Every step of the loop, the pool, the engines, the caller and Ctrl-C keeps it.
LEMMA Inductive == IInv /\ [Next]_vars => IInv'
<1> SUFFICES ASSUME IInv, [Next]_vars PROVE IInv'
  OBVIOUS
<1>1. CASE Poll \/ Pull \/ Route \/ Decide \/ Register
  BY <1>1, PollKeeps, PullKeeps, RouteKeeps, DecideKeeps, RegisterKeeps
<1>2. CASE WindowEmpty \/ Get \/ Result \/ Act \/ Settle
  BY <1>2, WindowEmptyKeeps, GetKeeps, ResultKeeps, ActKeeps, SettleKeeps
<1>3. CASE ExitDeletes \/ ExitTransfers \/ Verdict
  BY <1>3, ExitDeletesKeeps, ExitTransfersKeeps, VerdictKeeps
<1>4. CASE Interrupt \/ Cancel
  BY <1>4, InterruptKeeps, CancelKeeps
<1>5. ASSUME NEW p \in Pairs,
             StartDecision(p) \/ FinishDecision(p) \/ RevokeDecision(p) \/ SettleItem(p)
      PROVE  IInv'
  BY <1>5, StartDecisionKeeps, FinishDecisionKeeps, RevokeDecisionKeeps, SettleItemKeeps
<1>6. CASE UNCHANGED vars
  BY <1>6, StutterKeeps DEF Stutter
<1> QED BY <1>1, <1>2, <1>3, <1>4, <1>5, <1>6 DEF Next, Loop, Finished

\* The inductive invariant holds in every reachable state.
LEMMA Invariance == Spec => []IInv
<1> QED
  BY Initially, Inductive, PTL DEF Spec

\* The types, and the window of _run_sync_pairs: however the loop, the pool and the
\* caller interleave, never more accepted decisions are out than the pool has workers.
THEOREM SyncTyped == Spec => []TypeOK
<1>1. IInv => TypeOK
  BY DEF IInv
<1> QED
  BY <1>1, Invariance, PTL

\* A graceful cancellation cancels none of the decisions the loop has submitted.
THEOREM GracefulCancelAwaits == Spec => []GracefulAwaits
<1>1. IInv => GracefulAwaits
  BY DEF IInv, CancelledForReason, GracefulAwaits
<1> QED
  BY <1>1, Invariance, PTL

\* After the token is set at most one more decision or action begins.
THEOREM OneStepAfterCancel == Spec => []AtMostOneLateStep
<1>1. IInv => AtMostOneLateStep
  BY DEF IInv, ClearedByPoll, AtMostOneLateStep
<1> QED
  BY <1>1, Invariance, PTL

-----------------------------------------------------------------------------
(* The refinement of PairLedger, under the mapping of SyncPairs.           *)

\* How the ledger sees the operation, and the stage it gives a pair.
Ended == IF pc # "out" THEN "running"
         ELSE IF escaped THEN "broken"
         ELSE IF exc = "none" THEN "returned"
         ELSE IF exc = "batch" THEN "batch_error" ELSE "raised"

\* What the ledger tells of a pair, by what the loop knows of it.
StageTold(p) ==
  /\ decision[p] = "none" => Stage(p) = "unseen"
  /\ decision[p] = "off" => Stage(p) = "skipped"
  /\ decision[p] \in {"queued", "running"} <=> Stage(p) = "deciding"
  /\ decision[p] = "false" => Stage(p) = "rejected"
  /\ decision[p] \in {"failed", "cancelled"} => Stage(p) = "void"
  /\ decision[p] = "true" /\ p \notin acted => Stage(p) = "accepted"
  /\ p \in acted /\ effect[p] = "none" => Stage(p) = "acted"
  /\ effect[p] = "ok" => Stage(p) = "done"
  /\ effect[p] = "failed" => Stage(p) = "failed"

\* The stage of a pair is the one its decision and its action tell.
LEMMA StageIs == ASSUME IInv, NEW p \in Pairs PROVE StageTold(p)
<1>1. /\ PairOK(p) /\ effect[p] \in {"none", "ok", "failed"}
      /\ decision[p] \in {"none", "off", "queued", "running"} \cup Over
  BY DEF IInv, TypeOK, PairsOK
<1> QED BY <1>1 DEF PairOK, Stage, StageTold

\* And so after a step.
LEMMA StageBecomes == ASSUME IInv', NEW p \in Pairs PROVE StageTold(p)'
<1>1. /\ PairOK(p)' /\ effect'[p] \in {"none", "ok", "failed"}
      /\ decision'[p] \in {"none", "off", "queued", "running"} \cup Over
  BY DEF IInv, TypeOK, PairsOK
<1> QED BY <1>1 DEF PairOK, Stage, StageTold

\* A decision that is still out after the operation ended was left by a broken settling.
LEMMA OutMeansOpen ==
  ASSUME IInv, NEW p \in Pairs, decision[p] \in {"queued", "running"}, pc \in Left
  PROVE  escaped
BY DEF IInv, PairsOK, PairOK, NoneOut, TypeOK

\* One pair moves along Follows: a step of the ledger.
LEMMA Moves ==
  ASSUME NEW p \in Pairs, NEW s, <<Stage(p), s>> \in Ledger!Follows,
         Stage(p)' = s, \A k \in Pairs \ {p} : Stage(k)' = Stage(k),
         Ended' = Ended, Ended \in {"running", "broken"}
  PROVE  Ledger!Next
<1>1. s \in {t[2] : t \in Ledger!Follows}
  <2>1. <<Stage(p), s>>[2] = s
    OBVIOUS
  <2> QED BY <2>1
<1>2. Ledger!Progress(p, s)
  BY DEF Ledger!Progress, Ended
<1> QED BY <1>1, <1>2 DEF Ledger!Next, Ended

\* No pair moves and the operation has not ended: the ledger stutters.
LEMMA Stands ==
  ASSUME \A k \in Pairs : Stage(k)' = Stage(k), Ended' = Ended
  PROVE  UNCHANGED Ledger!vars
BY DEF Ledger!vars, Ended

\* The ledger's initial states.
LEMMA LedgerInit == Init => Ledger!Init
BY DEF Init, Ledger!Init, Stage

\* Every step of the loop and its surroundings is a step of the ledger, or none.
LEMMA LedgerStep == IInv /\ IInv' /\ [Next]_vars => [Ledger!Next]_(Ledger!vars)
<1> SUFFICES ASSUME IInv, IInv', [Next]_vars PROVE [Ledger!Next]_(Ledger!vars)
  OBVIOUS
<1>s. \A k \in Pairs : decision'[k] = decision[k] /\ UNCHANGED outcome => Stage(k)' = Stage(k)
  BY DEF Stage
<1>r. ASSUME pc # "out", pc' # "out" PROVE Ended = "running" /\ Ended' = "running"
  BY <1>r DEF Ended
<1>1. CASE Poll \/ Pull \/ Register \/ WindowEmpty \/ Get \/ Result \/ ExitDeletes \/ ExitTransfers
  <2>1. UNCHANGED <<decision, outcome>>
    BY <1>1 DEF Poll, Pull, Register, WindowEmpty, Get, Result, ExitDeletes, ExitTransfers,
           Leave
  <2>2. pc # "out" /\ pc' # "out"
    BY <1>1, PollsAre DEF Poll, Pull, Register, WindowEmpty, Get, Result, ExitDeletes,
           ExitTransfers, Leave, Goto, Raise
  <2> QED BY <1>s, <1>r, <2>1, <2>2, Stands
<1>2. CASE Route
  <2>1. PICK p \in Pairs :
        /\ pc = "route" /\ p = cur /\ decision[p] = "none" /\ UNCHANGED outcome
        /\ decision' \in {decision, [decision EXCEPT ![p] = "off"],
                          [decision EXCEPT ![p] = "running"], [decision EXCEPT ![p] = "queued"]}
    BY <1>2 DEF IInv, LoopOK, Route
  <2>2. pc # "out" /\ pc' # "out"
    BY <1>2 DEF Route, Goto, Raise
  <2>3. CASE decision' = decision
    BY <1>s, <1>r, <2>1, <2>2, <2>3, Stands
  <2>4. CASE decision' # decision
    <3>1. /\ decision'[p] \in {"off", "running", "queued"}
          /\ \A k \in Pairs \ {p} : decision'[k] = decision[k]
      BY <2>1, <2>4 DEF IInv, TypeOK
    <3>2. Stage(p) = "unseen" /\ Stage(p)' \in {"skipped", "deciding"}
      BY <2>1, <3>1, StageIs, StageBecomes DEF StageTold
    <3>3. <<Stage(p), Stage(p)'>> \in Ledger!Follows
      BY <3>2 DEF Ledger!Follows
    <3> QED BY <1>s, <1>r, <2>1, <2>2, <3>1, <3>3, Moves
  <2> QED BY <2>3, <2>4
<1>3. CASE Decide
  <2>1. PICK p \in Pairs :
        /\ pc = "decide" /\ p = cur /\ decision[p] = "running" /\ UNCHANGED outcome
        /\ \E d \in Over \ {"cancelled"} : decision' = [decision EXCEPT ![p] = d]
        /\ p \notin acted
    BY <1>3 DEF IInv, LoopOK, PairsOK, PairOK, Decide
  <2>2. pc # "out" /\ pc' # "out"
    BY <1>3 DEF Decide, Goto, Raise
  <2>3. /\ decision'[p] \in {"true", "false", "failed"}
        /\ \A k \in Pairs \ {p} : decision'[k] = decision[k]
    BY <2>1 DEF IInv, TypeOK
  <2>4. Stage(p) = "deciding" /\ Stage(p)' \in {"accepted", "rejected", "void"}
    BY <2>1, <2>3, StageIs, StageBecomes DEF StageTold
  <2>5. <<Stage(p), Stage(p)'>> \in Ledger!Follows
    BY <2>4 DEF Ledger!Follows
  <2> QED BY <1>s, <1>r, <2>1, <2>2, <2>3, <2>5, Moves
<1>4. CASE Act
  <2>1. PICK p \in Pairs :
        /\ pc = "act" /\ p = (IF got = 0 THEN cur ELSE got) /\ p \notin acted
           /\ UNCHANGED <<decision, effect>>
        /\ acted' # acted => acted' = acted \cup {p} /\ decision[p] = "true"
    BY <1>4 DEF IInv, TypeOK, LoopOK, Act
  <2>2. pc # "out" /\ pc' # "out"
    BY <1>4 DEF Act, Raise
  <2>3. CASE acted' = acted
    BY <1>s, <1>r, <2>1, <2>2, <2>3, Stands
  <2>4. CASE acted' # acted
    <3>1. effect[p] = "none"
      BY <2>1 DEF IInv, TypeOK, PairsOK, PairOK
    <3>2. Stage(p) = "accepted" /\ Stage(p)' = "acted"
      BY <2>1, <2>4, <3>1, StageIs, StageBecomes DEF StageTold
    <3>3. \A k \in Pairs \ {p} : Stage(k)' = Stage(k)
      BY <2>1, <2>4 DEF Stage
    <3>4. <<Stage(p), "acted">> \in Ledger!Follows
      BY <3>2 DEF Ledger!Follows
    <3> QED BY <1>r, <2>1, <2>2, <3>2, <3>3, <3>4, Moves
  <2> QED BY <2>3, <2>4
<1>5. CASE Settle
  <2> DEFINE S == {p \in Pairs : decision[p] = "queued" /\ decision'[p] = "cancelled"}
  <2>1. /\ UNCHANGED outcome /\ pc # "out" /\ pc' # "out"
        /\ \A p \in Pairs \ S : decision'[p] = decision[p]
    BY <1>5 DEF IInv, TypeOK, Settle, Goto, Raise
  <2>2. \A p \in S : Stage(p) = "deciding" /\ Stage(p)' = "void"
    BY StageIs, StageBecomes DEF StageTold
  <2>3. \A p \in Pairs \ S : Stage(p)' = Stage(p)
    BY <1>s, <2>1
  <2>4. Ledger!Revoke(S)
    BY <1>r, <2>1, <2>2, <2>3 DEF Ledger!Revoke
  <2>5. S \in SUBSET Pairs
    OBVIOUS
  <2> QED BY <1>r, <2>1, <2>4, <2>5 DEF Ledger!Next
<1>6. CASE Verdict
  <2>1. /\ pc = "verdict" /\ pc' = "out" /\ UNCHANGED <<decision, outcome, escaped>>
        /\ exc # "none" => exc' = exc
        /\ exc = "none" => exc' \in {"cancelled", "batch", "none"}
        /\ exc' = "batch" /\ exc = "none" => \E p \in acted : effect[p] = "failed"
        /\ exc' = "none" => \A p \in acted : effect[p] # "failed"
    BY <1>6 DEF Verdict
  <2>2. Ended = "running" /\ \A k \in Pairs : Stage(k)' = Stage(k)
    BY <1>s, <2>1 DEF Ended
  <2>3. CASE escaped
    BY <2>1, <2>2, <2>3 DEF Ledger!Next, Ledger!BreakOff
  <2>4. CASE ~escaped
    <3>1. \A p \in Pairs : Stage(p) # "deciding"
      BY <2>1, <2>4, StageIs, OutMeansOpen DEF StageTold
    <3>2. CASE exc' \notin {"none", "batch"}
      BY <2>1, <2>2, <2>4, <3>1, <3>2 DEF Ledger!Next, Ledger!Raise
    <3>3. CASE exc' \in {"none", "batch"}
      <4>1. exc = "none" /\ cur = NumPairs /\ pending = {} /\ InHand = {}
        BY <2>1, <3>3 DEF IInv, LoopOK, NothingSkipped, InHand
      <4>2. \A p \in Pairs : decision[p] \in {"off", "false"} \/ p \in acted
        BY <2>1, <4>1 DEF IInv, NothingSkipped, Closed
      <4>3. \A p \in acted : effect[p] \in {"ok", "failed"}
        <5>1. \A p \in acted : p \in Pairs /\ plan.lane[p] \in Lanes
                               /\ effect[p] \in {"none", "ok", "failed"}
          BY DEF IInv, TypeOK
        <5>2. \A p \in acted : plan.lane[p] \in {"delete"} \/ plan.lane[p] \in {"create",
                                                                                "update"}
          BY <5>1 DEF Lanes
        <5> QED BY <2>1, <4>1, <5>1, <5>2 DEF IInv, SettledOK, Unsettled
      <4>4. \A p \in Pairs : Stage(p) \in Ledger!Final \cup {"failed"}
        BY <4>2, <4>3, StageIs DEF Ledger!Final, StageTold
      <4>5. CASE exc' = "batch"
        <5>1. \E p \in Pairs : Stage(p) = "failed"
          BY <2>1, <4>1, <4>5, StageIs DEF IInv, TypeOK, StageTold
        <5> QED BY <2>1, <2>2, <2>4, <4>4, <4>5, <5>1 DEF Ledger!Next, Ledger!ReportFailures
      <4>6. CASE exc' = "none"
        <5>1. \A p \in Pairs : Stage(p) \in Ledger!Final
          BY <2>1, <4>2, <4>3, <4>6, StageIs DEF Ledger!Final, StageTold
        <5> QED BY <2>1, <2>2, <2>4, <4>6, <5>1 DEF Ledger!Next, Ledger!Return
      <4> QED BY <3>3, <4>5, <4>6
    <3> QED BY <3>2, <3>3
  <2> QED BY <2>3, <2>4
<1>7. CASE Interrupt
  <2>1. /\ UNCHANGED outcome
        /\ decision' = IF pc = "decide" THEN [decision EXCEPT ![cur] = "failed"] ELSE decision
    BY <1>7 DEF Interrupt
  <2>2. pc # "out" /\ pc' # "out"
    BY <1>7 DEF Interrupt, Raise
  <2>3. CASE pc # "decide"
    BY <1>s, <1>r, <2>1, <2>2, <2>3, Stands
  <2>4. CASE pc = "decide"
    <3>1. PICK p \in Pairs : p = cur /\ decision[p] = "running"
      BY <2>4 DEF IInv, LoopOK
    <3>2. decision'[p] = "failed" /\ \A k \in Pairs \ {p} : decision'[k] = decision[k]
      BY <2>1, <2>4, <3>1 DEF IInv, TypeOK
    <3>3. Stage(p) = "deciding" /\ Stage(p)' = "void"
      BY <3>1, <3>2, StageIs, StageBecomes DEF StageTold
    <3>4. <<Stage(p), "void">> \in Ledger!Follows
      BY <3>3 DEF Ledger!Follows
    <3> QED BY <1>s, <1>r, <2>1, <2>2, <3>1, <3>2, <3>3, <3>4, Moves
  <2> QED BY <2>3, <2>4
<1>8. CASE Cancel \/ UNCHANGED vars
  <2>1. UNCHANGED <<decision, outcome, pc, exc, escaped>>
    BY <1>8 DEF Cancel, vars
  <2>2. Ended' = Ended
    BY <2>1 DEF Ended
  <2> QED BY <1>s, <2>1, <2>2, Stands
<1>9. ASSUME NEW p \in Pairs, StartDecision(p) PROVE [Ledger!Next]_(Ledger!vars)
  <2>1. /\ decision[p] = "queued" /\ decision' = [decision EXCEPT ![p] = "running"]
        /\ UNCHANGED <<outcome, pc, exc, escaped>>
    BY <1>9 DEF StartDecision
  <2>2. decision'[p] = "running" /\ \A k \in Pairs \ {p} : decision'[k] = decision[k]
    BY <2>1 DEF IInv, TypeOK
  <2>3. Stage(p) = "deciding" /\ Stage(p)' = "deciding"
    BY <2>1, <2>2, StageIs, StageBecomes DEF StageTold
  <2>4. Ended' = Ended
    BY <2>1 DEF Ended
  <2> QED BY <1>s, <2>1, <2>2, <2>3, <2>4, Stands
<1>10. ASSUME NEW p \in Pairs,
           FinishDecision(p) \/ RevokeDecision(p) PROVE [Ledger!Next]_(Ledger!vars)
  <2>1. /\ decision[p] \in {"queued", "running"} /\ UNCHANGED <<outcome, pc, exc, escaped>>
        /\ \E d \in Over : decision' = [decision EXCEPT ![p] = d]
    BY <1>10 DEF FinishDecision, RevokeDecision, EndDecision
  <2>2. decision'[p] \in Over /\ \A k \in Pairs \ {p} : decision'[k] = decision[k]
    BY <2>1 DEF IInv, TypeOK
  <2>3. p \notin acted
    BY <2>1 DEF IInv, PairsOK, PairOK
  <2>4. Stage(p) = "deciding" /\ Stage(p)' \in {"accepted", "rejected", "void"}
    BY <2>1, <2>2, <2>3, StageIs, StageBecomes DEF StageTold
  <2>5. <<Stage(p), Stage(p)'>> \in Ledger!Follows
    BY <2>4 DEF Ledger!Follows
  <2>6. Ended' = Ended /\ Ended \in {"running", "broken"}
    BY <2>1, OutMeansOpen DEF Ended
  <2> QED BY <1>s, <2>1, <2>2, <2>5, <2>6, Moves
<1>11. ASSUME NEW p \in Pairs, SettleItem(p) PROVE [Ledger!Next]_(Ledger!vars)
  <2>1. /\ p \in acted /\ effect[p] = "none" /\ pc # "out" /\ UNCHANGED <<decision, acted, pc>>
        /\ effect'[p] \in {"ok", "failed"} /\ \A k \in Pairs \ {p} : effect'[k] = effect[k]
    BY <1>11 DEF IInv, TypeOK, SettleItem
  <2>2. Stage(p) = "acted" /\ Stage(p)' \in {"done", "failed"}
    BY <2>1, StageIs, StageBecomes DEF StageTold
  <2>3. \A k \in Pairs \ {p} : Stage(k)' = Stage(k)
    BY <2>1 DEF Stage
  <2>4. <<Stage(p), Stage(p)'>> \in Ledger!Follows
    BY <2>2 DEF Ledger!Follows
  <2> QED BY <1>r, <2>1, <2>2, <2>3, <2>4, Moves
<1> QED BY <1>1, <1>2, <1>3, <1>4, <1>5, <1>6, <1>7, <1>8, <1>9, <1>10, <1>11
       DEF Next, Loop, Finished

\* The pair loop implements the ledger of its docstrings, for every comparison, pool,
\* cancellation and Ctrl-C: nothing is decided or acted on twice, a normal return means
\* that every accepted pair succeeded, and an exception leaves no decision out.
THEOREM LoopImplementsLedger == Spec => LedgerSpec
<1> QED
  BY LedgerInit, LedgerStep, Invariance, PTL DEF Spec, LedgerSpec, Ledger!Spec
=============================================================================
