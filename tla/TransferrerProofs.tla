-------------------------- MODULE TransferrerProofs --------------------------
(***************************************************************************)
(* The safety of Transferrer for every number of items, every queue depth, *)
(* every set of engines and drivers, and any bound on its faults.          *)
(*                                                                         *)
(* Three things are strengthened.  A revoked item has a reason that is     *)
(* still visible: the token, what unwinds, or what is owed to the caller   *)
(* (RevokedForReason); that is what keeps an interrupt from being lost     *)
(* between a task and the end of the run.  Every transfer the engine still *)
(* has is tracked, or is about to be (Known); so the interrupted drain and *)
(* the watcher miss none.  And under the loop of cp nothing is accepted    *)
(* between the watcher's snapshot and the end of a loop that does not      *)
(* raise (Told).                                                           *)
(***************************************************************************)
EXTENDS Transferrer, FiniteSetTheorems, TLAPS

\* Where the loop is tells what it holds.
LoopOK ==
  /\ cpc \in {"check", "pull", "submit", "track", "recheck", "owed"} => exc = "none"
  /\ cpc = "submit" \/ (cpc = "check" /\ driver = "sync") => sent < NumItems
  /\ cpc \in {"track", "recheck"} => sent \in Items
  /\ exc = "cancelled" => token # "none"
  /\ ended = "running" <=> cpc # "out"
  /\ cpc \in {"unwatch", "verdict", "out"} => Live = {}

\* The life of an item: what its phase says of its future and its record.
ItemOK(i) ==
  /\ i > sent => phase[i] = "unsent"
  /\ phase[i] = "unsent" => status[i] = "none" /\ (i <= sent => exc = "fatal")
  /\ phase[i] = "queued" => status[i] = "none"
  /\ phase[i] = "running" => status[i] \in {"none", "cancelled"}
  /\ phase[i] = "deleting" => status[i] = "success"
  /\ phase[i] = "recording" => status[i] \notin {"none", "over"}
  /\ phase[i] = "over" <=> status[i] = "over"
  /\ phase[i] = "over" <=> record[i] # "none"
  /\ i \in asked => phase[i] \in {"queued", "running"} /\ engine = "crt"
  /\ status[i] = "crtCancelled" => engine = "crt"
ItemsOK == \A i \in Items : ItemOK(i)

\* The watcher is past its poll only for an immediate cancel, or at the end.
WatcherOK ==
  /\ wpc \in {"snapshot", "sweep"} => token = "immediate" /\ initiated
  /\ wpc = "done" => token = "immediate" \/ cpc \in {"unwatch", "verdict", "out"}

\* An item that was not let finish.
Revoked(i) == status[i] \in {"cancelled", "interrupt"} \/ record[i] = "cancelled"

\* What revokes an item is still to be told to the caller.
RevokedForReason ==
  /\ initiated => token = "immediate"
  /\ \A i \in Items : status[i] = "cancelled" \/ record[i] = "cancelled"
                        => token = "immediate" \/ exc = "fatal" \/ pending
  /\ cpc \in {"verdict", "out"} /\ exc = "none" => ~pending
  /\ ended = "returned" =>
       /\ exc = "none" /\ token = "none"
       /\ \A i \in Items : record[i] # "failed"

\* Nothing is revoked by a graceful cancel.
GracefulRevokesNothing ==
  token # "immediate" /\ exc # "fatal" =>
    /\ ~initiated
    /\ faults = 0 => asked = {} /\ \A i \in Items : ~Revoked(i)

\* Who told the requests of the CRT engine to cancel has put the flag up.
AskedUnderFlag ==
  \A i \in Items : i \in asked \/ status[i] = "crtCancelled" =>
     initiated \/ faults > 0 \/ exc = "fatal"

\* A transfer the engine still has is known to whoever may have to cancel it.
Known ==
  /\ exc # "fatal" => Unsettled \subseteq tracked \cup (IF cpc = "track" THEN {sent} ELSE {})
  /\ exc = "fatal" /\ cpc = "drain" => Unsettled \subseteq asked

\* Under the loop of cp, what the sweep has passed was told: nothing is accepted
\* between its snapshot and the end of a loop that does not raise.
Told ==
  driver = "cp" /\ (cpc = "drain" \/ (cpc \in {"pull", "exit"} /\ exc = "none")) =>
    /\ wpc = "sweep" => Unsettled \subseteq asked \cup snap
    /\ wpc = "done" => Unsettled \subseteq asked

\* The inductive invariant.
IInv ==
  /\ TypeOK /\ LoopOK /\ ItemsOK /\ WatcherOK
  /\ RevokedForReason /\ GracefulRevokesNothing /\ AskedUnderFlag
  /\ Known /\ Told
-----------------------------------------------------------------------------
USE TransferrerAssumption DEF TransferrerAssumption
USE DEF Items, Live, Unsettled, Done, fixed, loopVars, futures, effects, watcherVars

\* No step.
Stutter == UNCHANGED vars

\* What the engine holds fits its slots as long as it accepts nothing.
LEMMA FitsSlots ==
  ASSUME NEW T \in SUBSET Items, NEW S \in SUBSET T
  PROVE  Cardinality(S) <= Cardinality(T) /\ Cardinality(T) \in Nat /\ Cardinality(S) \in Nat
<1>1. IsFiniteSet(Items)
  BY FS_Interval
<1>2. IsFiniteSet(T)
  BY <1>1, FS_Subset
<1> QED BY <1>2, FS_Subset, FS_CardinalityType

\* And it fits them after it accepted one for which it had a slot.
LEMMA OneMoreFits ==
  ASSUME NEW T \in SUBSET Items, NEW x \in Items, NEW S \in SUBSET T \cup {x},
         Cardinality(T) < Slots
  PROVE  Cardinality(S) <= Slots
<1>1. IsFiniteSet(Items)
  BY FS_Interval
<1>2. IsFiniteSet(T)
  BY <1>1, FS_Subset
<1>3. Cardinality(T \cup {x}) <= Cardinality(T) + 1 /\ IsFiniteSet(T \cup {x})
      /\ Cardinality(T) \in Nat
  BY <1>2, FS_AddElement, FS_CardinalityType
<1>4. Cardinality(S) <= Cardinality(T \cup {x}) /\ Cardinality(S) \in Nat
      /\ Cardinality(T \cup {x}) \in Nat
  BY <1>3, FS_Subset, FS_CardinalityType
<1> QED BY <1>3, <1>4

\* Where an item is, and what its future says, as the type invariant lists them.
Phases == {"unsent", "queued", "running", "deleting", "recording", "over"}
Statuses == {"none", "success", "cancelled", "fault", "lost", "exists", "thrown",
             "crtCancelled", "interrupt", "over"}

\* What a cancel does to the futures it reaches, and that it touches no other.
LEMMA CancelTells ==
  ASSUME TypeOK, ItemsOK, NEW S \in SUBSET Items, CancelFutures(S)
  PROVE  /\ phase' \in [Items -> Phases] /\ status' \in [Items -> Statuses]
         /\ asked' \subseteq Items
         /\ Live' \subseteq Live
         /\ \A j \in Items : phase'[j] = "over" <=> phase[j] = "over"
<1>1. phase' \in [Items -> Phases] /\ status' \in [Items -> Statuses] /\ asked' \subseteq Items
  <2>1. CASE engine = "classic"
    <3>1. status' = [k \in Items |-> IF k \in S \cap Unsettled THEN "cancelled" ELSE status[k]]
      BY <2>1 DEF CancelFutures
    <3>2. phase' = [k \in Items |-> IF k \in S \cap Unsettled /\ phase[k] = "queued"
                                   THEN "recording" ELSE phase[k]]
      BY <2>1 DEF CancelFutures
    <3>3. asked' = asked
      BY <2>1 DEF CancelFutures
    <3> QED BY <3>1, <3>2, <3>3 DEF TypeOK, Phases, Statuses
  <2>2. CASE engine # "classic"
    BY <2>2 DEF TypeOK, CancelFutures, Phases, Statuses
  <2> QED BY <2>1, <2>2
<1>2. \A j \in Items : /\ phase'[j] = "over" <=> phase[j] = "over"
                       /\ phase'[j] = "unsent" <=> phase[j] = "unsent"
  BY DEF TypeOK, CancelFutures
<1> QED BY <1>1, <1>2

\* Reading the token keeps the invariant: sync reads it between two submits.
LEMMA CheckKeeps == ASSUME IInv, Check PROVE IInv'
<1>1. TypeOK'
  BY DEF IInv, TypeOK, LoopOK, Check, Raise, CheckedAt
<1>2. LoopOK'
  BY DEF IInv, TypeOK, LoopOK, Check, Raise, CheckedAt
<1>3. ItemsOK'
  BY DEF IInv, TypeOK, LoopOK, ItemsOK, ItemOK, Check
<1>4. WatcherOK'
  BY DEF IInv, TypeOK, WatcherOK, Check
<1>5. RevokedForReason'
  BY DEF IInv, TypeOK, LoopOK, RevokedForReason, Check, Raise, CheckedAt
<1>6. GracefulRevokesNothing'
  BY DEF IInv, TypeOK, LoopOK, GracefulRevokesNothing, Revoked, Check
<1>7. AskedUnderFlag'
  BY DEF IInv, TypeOK, LoopOK, AskedUnderFlag, Check
<1>8. Known'
  BY DEF IInv, TypeOK, LoopOK, Known, Check, Raise
<1>9. Told'
  BY DEF IInv, TypeOK, WatcherOK, Told, Check, Raise
<1> QED BY <1>1, <1>2, <1>3, <1>4, <1>5, <1>6, <1>7, <1>8, <1>9 DEF IInv

\* The next item is pulled, or the loop is left.
LEMMA PullKeeps == ASSUME IInv, Pull PROVE IInv'
<1>1. TypeOK'
  BY DEF IInv, TypeOK, Pull, Raise, PulledAt
<1>2. LoopOK'
  BY DEF IInv, TypeOK, LoopOK, Pull, Raise, PulledAt
<1>3. ItemsOK'
  BY DEF IInv, TypeOK, LoopOK, ItemsOK, ItemOK, Pull
<1>4. WatcherOK'
  BY DEF IInv, TypeOK, WatcherOK, Pull
<1>5. RevokedForReason'
  BY DEF IInv, TypeOK, LoopOK, RevokedForReason, Pull, Raise, PulledAt
<1>6. GracefulRevokesNothing'
  BY DEF IInv, TypeOK, LoopOK, GracefulRevokesNothing, Revoked, Pull
<1>7. AskedUnderFlag'
  BY DEF IInv, TypeOK, LoopOK, AskedUnderFlag, Pull
<1>8. Known'
  BY DEF IInv, TypeOK, LoopOK, Known, Pull, Raise
<1>9. Told'
  BY DEF IInv, TypeOK, LoopOK, Told, Pull
<1> QED BY <1>1, <1>2, <1>3, <1>4, <1>5, <1>6, <1>7, <1>8, <1>9 DEF IInv

\* submit accepts an item: the engine had a slot for it.
LEMMA AcceptKeeps == ASSUME IInv, Accept PROVE IInv'
<1>1. TypeOK'
  <2>1. sent + 1 \in Items /\ Live' \subseteq Live \cup {sent + 1}
    BY DEF IInv, TypeOK, LoopOK, Accept
  <2>2. Cardinality(Live') <= Slots
    BY <2>1, OneMoreFits DEF Accept
  <2> QED BY <2>1, <2>2 DEF IInv, TypeOK, LoopOK, Accept
<1>2. LoopOK'
  BY DEF IInv, TypeOK, LoopOK, Accept
<1>3. ItemsOK'
  BY DEF IInv, TypeOK, ItemsOK, ItemOK, Accept
<1>4. WatcherOK'
  BY DEF IInv, TypeOK, WatcherOK, Accept
<1>5. RevokedForReason'
  BY DEF IInv, TypeOK, RevokedForReason, Accept
<1>6. GracefulRevokesNothing'
  BY DEF IInv, TypeOK, GracefulRevokesNothing, Revoked, Accept
<1>7. AskedUnderFlag'
  BY DEF IInv, TypeOK, AskedUnderFlag, Accept
<1>8. Known'
  BY DEF IInv, TypeOK, Known, Accept
<1>9. Told'
  BY DEF IInv, TypeOK, Told, Accept
<1> QED BY <1>1, <1>2, <1>3, <1>4, <1>5, <1>6, <1>7, <1>8, <1>9 DEF IInv

\* submit raises, and the loop goes out through its finally.
LEMMA RefuseKeeps == ASSUME IInv, Refuse PROVE IInv'
<1>1. TypeOK'
  BY DEF IInv, TypeOK, LoopOK, Refuse, Raise
<1>2. LoopOK'
  BY DEF IInv, TypeOK, LoopOK, Refuse, Raise
<1>3. ItemsOK'
  BY DEF IInv, TypeOK, ItemsOK, ItemOK, Refuse, Raise
<1>4. WatcherOK'
  BY DEF IInv, TypeOK, WatcherOK, Refuse
<1>5. RevokedForReason'
  BY DEF IInv, TypeOK, LoopOK, RevokedForReason, Refuse, Raise
<1>6. GracefulRevokesNothing'
  BY DEF IInv, TypeOK, LoopOK, GracefulRevokesNothing, Revoked, Refuse
<1>7. AskedUnderFlag'
  BY DEF IInv, TypeOK, LoopOK, AskedUnderFlag, Refuse
<1>8. Known'
  BY DEF IInv, TypeOK, Known, Refuse, Raise
<1>9. Told'
  BY DEF IInv, TypeOK, Told, Refuse, Raise
<1> QED BY <1>1, <1>2, <1>3, <1>4, <1>5, <1>6, <1>7, <1>8, <1>9 DEF IInv

\* An item that fails at submit is recorded and never handed over.
LEMMA FailAtOnceKeeps == ASSUME IInv, FailAtOnce PROVE IInv'
<1>1. TypeOK'
  <2>1. Live' \subseteq Live
    BY DEF IInv, TypeOK, FailAtOnce
  <2>2. Cardinality(Live') <= Slots
    BY <2>1, FitsSlots DEF IInv, TypeOK
  <2> QED BY <2>2 DEF IInv, TypeOK, LoopOK, FailAtOnce, Raise
<1>2. LoopOK'
  BY DEF IInv, TypeOK, LoopOK, FailAtOnce, Raise
<1>3. ItemsOK'
  BY DEF IInv, TypeOK, LoopOK, ItemsOK, ItemOK, FailAtOnce
<1>4. WatcherOK'
  BY DEF IInv, TypeOK, WatcherOK, FailAtOnce
<1>5. RevokedForReason'
  BY DEF IInv, TypeOK, LoopOK, RevokedForReason, FailAtOnce, Raise
<1>6. GracefulRevokesNothing'
  BY DEF IInv, TypeOK, LoopOK, GracefulRevokesNothing, Revoked, FailAtOnce
<1>7. AskedUnderFlag'
  BY DEF IInv, TypeOK, AskedUnderFlag, FailAtOnce
<1>8. Known'
  BY DEF IInv, TypeOK, Known, FailAtOnce, Raise
<1>9. Told'
  BY DEF IInv, TypeOK, Told, FailAtOnce, Raise
<1> QED BY <1>1, <1>2, <1>3, <1>4, <1>5, <1>6, <1>7, <1>8, <1>9 DEF IInv

\* The future that submit returned joins the tracked ones.
LEMMA TrackKeeps == ASSUME IInv, Track PROVE IInv'
<1>1. TypeOK'
  BY DEF IInv, TypeOK, LoopOK, Track
<1>2. LoopOK'
  BY DEF IInv, TypeOK, LoopOK, Track
<1>3. ItemsOK'
  BY DEF IInv, TypeOK, ItemsOK, ItemOK, Track
<1>4. WatcherOK'
  BY DEF IInv, TypeOK, WatcherOK, Track
<1>5. RevokedForReason'
  BY DEF IInv, TypeOK, RevokedForReason, Track
<1>6. GracefulRevokesNothing'
  BY DEF IInv, TypeOK, GracefulRevokesNothing, Revoked, Track
<1>7. AskedUnderFlag'
  BY DEF IInv, TypeOK, AskedUnderFlag, Track
<1>8. Known'
  BY DEF IInv, TypeOK, Known, Track
<1>9. Told'
  BY DEF IInv, TypeOK, Told, Track
<1> QED BY <1>1, <1>2, <1>3, <1>4, <1>5, <1>6, <1>7, <1>8, <1>9 DEF IInv

\* A future that was done by the time it was tracked is forgotten.
LEMMA RecheckKeeps == ASSUME IInv, Recheck PROVE IInv'
<1>1. TypeOK'
  BY DEF IInv, TypeOK, ItemsOK, ItemOK, Recheck
<1>2. LoopOK'
  BY DEF IInv, TypeOK, LoopOK, Recheck
<1>3. ItemsOK'
  BY DEF IInv, TypeOK, ItemsOK, ItemOK, Recheck
<1>4. WatcherOK'
  BY DEF IInv, TypeOK, WatcherOK, Recheck
<1>5. RevokedForReason'
  BY DEF IInv, TypeOK, RevokedForReason, Recheck
<1>6. GracefulRevokesNothing'
  BY DEF IInv, TypeOK, GracefulRevokesNothing, Revoked, Recheck
<1>7. AskedUnderFlag'
  BY DEF IInv, TypeOK, AskedUnderFlag, Recheck
<1>8. Known'
  BY DEF IInv, TypeOK, Known, Recheck
<1>9. Told'
  BY DEF IInv, TypeOK, Told, Recheck
<1> QED BY <1>1, <1>2, <1>3, <1>4, <1>5, <1>6, <1>7, <1>8, <1>9 DEF IInv

\* An interrupt noted in a task surfaces at the next submit.
LEMMA RaiseOwedKeeps == ASSUME IInv, RaiseOwed PROVE IInv'
<1>1. TypeOK'
  BY DEF IInv, TypeOK, LoopOK, RaiseOwed, Raise, CheckPoint
<1>2. LoopOK'
  BY DEF IInv, TypeOK, LoopOK, RaiseOwed, Raise, CheckPoint
<1>3. ItemsOK'
  BY DEF IInv, TypeOK, LoopOK, ItemsOK, ItemOK, RaiseOwed
<1>4. WatcherOK'
  BY DEF IInv, TypeOK, WatcherOK, RaiseOwed
<1>5. RevokedForReason'
  BY DEF IInv, TypeOK, LoopOK, RevokedForReason, RaiseOwed, Raise
<1>6. GracefulRevokesNothing'
  BY DEF IInv, TypeOK, LoopOK, GracefulRevokesNothing, Revoked, RaiseOwed
<1>7. AskedUnderFlag'
  BY DEF IInv, TypeOK, LoopOK, AskedUnderFlag, RaiseOwed
<1>8. Known'
  BY DEF IInv, TypeOK, LoopOK, Known, RaiseOwed, Raise
<1>9. Told'
  BY DEF IInv, TypeOK, Told, RaiseOwed, Raise, CheckPoint
<1> QED BY <1>1, <1>2, <1>3, <1>4, <1>5, <1>6, <1>7, <1>8, <1>9 DEF IInv

\* A Ctrl-C unwinds the loop from where it is.
LEMMA InterruptKeeps == ASSUME IInv, Interrupt PROVE IInv'
<1>1. TypeOK'
  BY DEF IInv, TypeOK, Interrupt, Raise
<1>2. LoopOK'
  BY DEF IInv, TypeOK, LoopOK, Interrupt, Raise
<1>3. ItemsOK'
  BY DEF IInv, TypeOK, LoopOK, ItemsOK, ItemOK, Interrupt
<1>4. WatcherOK'
  BY DEF IInv, TypeOK, WatcherOK, Interrupt
<1>5. RevokedForReason'
  BY DEF IInv, TypeOK, LoopOK, RevokedForReason, Interrupt, Raise
<1>6. GracefulRevokesNothing'
  BY DEF IInv, TypeOK, LoopOK, GracefulRevokesNothing, Interrupt
<1>7. AskedUnderFlag'
  BY DEF IInv, TypeOK, AskedUnderFlag, Interrupt
<1>8. Known'
  BY DEF IInv, TypeOK, Known, Interrupt, Raise
<1>9. Told'
  BY DEF IInv, TypeOK, Told, Interrupt, Raise
<1> QED BY <1>1, <1>2, <1>3, <1>4, <1>5, <1>6, <1>7, <1>8, <1>9 DEF IInv

\* The loop is left: the engine is drained, or told to cancel first.
LEMMA ExitKeeps == ASSUME IInv, Exit PROVE IInv'
<1>1. TypeOK'
  <2>1. /\ phase' \in [Items -> Phases] /\ status' \in [Items -> Statuses]
        /\ asked' \subseteq Items /\ Live' \subseteq Live
        /\ \A k \in Items : phase'[k] = "over" <=> phase[k] = "over"
    BY CancelTells DEF IInv, TypeOK, Exit, Phases, Statuses
  <2>2. Cardinality(Live') <= Slots
    BY <2>1, FitsSlots DEF IInv, TypeOK
  <2>3. initiated' \in BOOLEAN /\ cpc' = "drain"
    BY DEF IInv, TypeOK, Exit
  <2>4. /\ UNCHANGED <<fixed, token, sent, exc, ended, effects, tracked, pending, record,
                       watcherVars, faults>>
        /\ cpc = "exit"
    BY DEF Exit
  <2> QED BY <2>1, <2>2, <2>3, <2>4 DEF IInv, TypeOK, Phases, Statuses
<1>2. LoopOK'
  BY DEF IInv, TypeOK, LoopOK, Exit
<1>3. ItemsOK'
  BY DEF IInv, TypeOK, ItemsOK, ItemOK, Exit, CancelFutures
<1>4. WatcherOK'
  BY DEF IInv, TypeOK, WatcherOK, Exit
<1>5. RevokedForReason'
  BY DEF IInv, TypeOK, LoopOK, RevokedForReason, Exit, GracefulDrain, CancelFutures
<1>6. GracefulRevokesNothing'
  BY DEF IInv, TypeOK, LoopOK, GracefulRevokesNothing, Revoked, Exit, GracefulDrain
<1>7. AskedUnderFlag'
  BY DEF IInv, TypeOK, AskedUnderFlag, Exit
<1>8. Known'
  BY DEF IInv, TypeOK, Known, Exit, GracefulDrain, CancelFutures
<1>9. Told'
  BY DEF IInv, TypeOK, WatcherOK, Told, Exit, GracefulDrain, CancelFutures
<1> QED BY <1>1, <1>2, <1>3, <1>4, <1>5, <1>6, <1>7, <1>8, <1>9 DEF IInv

\* A Ctrl-C in the drain cancels what the engine still has, and drains on.
LEMMA InterruptDrainKeeps == ASSUME IInv, InterruptDrain PROVE IInv'
<1>1. TypeOK'
  <2>1. /\ phase' \in [Items -> Phases] /\ status' \in [Items -> Statuses]
        /\ asked' \subseteq Items /\ Live' \subseteq Live
        /\ \A k \in Items : phase'[k] = "over" <=> phase[k] = "over"
    BY CancelTells DEF IInv, TypeOK, InterruptDrain, Phases, Statuses
  <2>2. Cardinality(Live') <= Slots
    BY <2>1, FitsSlots DEF IInv, TypeOK
  <2> QED BY <2>1, <2>2 DEF IInv, TypeOK, InterruptDrain, Phases, Statuses
<1>2. LoopOK'
  BY DEF IInv, TypeOK, LoopOK, InterruptDrain
<1>3. ItemsOK'
  BY DEF IInv, TypeOK, ItemsOK, ItemOK, InterruptDrain, CancelFutures
<1>4. WatcherOK'
  BY DEF IInv, TypeOK, WatcherOK, InterruptDrain
<1>5. RevokedForReason'
  BY DEF IInv, TypeOK, LoopOK, RevokedForReason, InterruptDrain, CancelFutures
<1>6. GracefulRevokesNothing'
  BY DEF IInv, TypeOK, GracefulRevokesNothing, InterruptDrain
<1>7. AskedUnderFlag'
  BY DEF IInv, TypeOK, AskedUnderFlag, InterruptDrain
<1>8. Known'
  BY DEF IInv, TypeOK, Known, InterruptDrain, CancelFutures
<1>9. Told'
  BY DEF IInv, TypeOK, Told, InterruptDrain, CancelFutures
<1> QED BY <1>1, <1>2, <1>3, <1>4, <1>5, <1>6, <1>7, <1>8, <1>9 DEF IInv

\* The drain ends when the engine has nothing left.
LEMMA DrainedKeeps == ASSUME IInv, Drained PROVE IInv'
<1>1. TypeOK'
  BY DEF IInv, TypeOK, Drained
<1>2. LoopOK'
  BY DEF IInv, TypeOK, LoopOK, Drained
<1>3. ItemsOK'
  BY DEF IInv, TypeOK, ItemsOK, ItemOK, Drained
<1>4. WatcherOK'
  BY DEF IInv, TypeOK, WatcherOK, Drained
<1>5. RevokedForReason'
  BY DEF IInv, TypeOK, RevokedForReason, Drained
<1>6. GracefulRevokesNothing'
  BY DEF IInv, TypeOK, GracefulRevokesNothing, Revoked, Drained
<1>7. AskedUnderFlag'
  BY DEF IInv, TypeOK, AskedUnderFlag, Drained
<1>8. Known'
  BY DEF IInv, TypeOK, Known, Drained
<1>9. Told'
  BY DEF IInv, TypeOK, Told, Drained
<1> QED BY <1>1, <1>2, <1>3, <1>4, <1>5, <1>6, <1>7, <1>8, <1>9 DEF IInv

\* The watcher is joined.
LEMMA UnwatchKeeps == ASSUME IInv, Unwatch PROVE IInv'
<1>1. TypeOK'
  BY DEF IInv, TypeOK, LoopOK, Unwatch
<1>2. LoopOK'
  BY DEF IInv, TypeOK, LoopOK, Unwatch
<1>3. ItemsOK'
  BY DEF IInv, TypeOK, ItemsOK, ItemOK, Unwatch
<1>4. WatcherOK'
  BY DEF IInv, TypeOK, WatcherOK, Unwatch
<1>5. RevokedForReason'
  BY DEF IInv, TypeOK, LoopOK, RevokedForReason, Unwatch
<1>6. GracefulRevokesNothing'
  BY DEF IInv, TypeOK, GracefulRevokesNothing, Revoked, Unwatch
<1>7. AskedUnderFlag'
  BY DEF IInv, TypeOK, AskedUnderFlag, Unwatch
<1>8. Known'
  BY DEF IInv, TypeOK, Known, Unwatch
<1>9. Told'
  BY DEF IInv, TypeOK, Told, Unwatch
<1> QED BY <1>1, <1>2, <1>3, <1>4, <1>5, <1>6, <1>7, <1>8, <1>9 DEF IInv

\* The verdict: cancelled, a batch error if an item failed, or a normal return.
LEMMA VerdictKeeps == ASSUME IInv, Verdict PROVE IInv'
<1>1. TypeOK'
  BY DEF IInv, TypeOK, Verdict
<1>2. LoopOK'
  BY DEF IInv, TypeOK, LoopOK, Verdict
<1>3. ItemsOK'
  BY DEF IInv, TypeOK, ItemsOK, ItemOK, Verdict
<1>4. WatcherOK'
  BY DEF IInv, TypeOK, WatcherOK, Verdict
<1>5. RevokedForReason'
  BY DEF IInv, TypeOK, RevokedForReason, Verdict
<1>6. GracefulRevokesNothing'
  BY DEF IInv, TypeOK, GracefulRevokesNothing, Revoked, Verdict
<1>7. AskedUnderFlag'
  BY DEF IInv, TypeOK, AskedUnderFlag, Verdict
<1>8. Known'
  BY DEF IInv, TypeOK, Known, Verdict
<1>9. Told'
  BY DEF IInv, TypeOK, Told, Verdict
<1> QED BY <1>1, <1>2, <1>3, <1>4, <1>5, <1>6, <1>7, <1>8, <1>9 DEF IInv

\* A queued task begins, or finds itself cancelled.
LEMMA StartKeeps == ASSUME NEW i \in Items, IInv, Start(i) PROVE IInv'
<1>1. TypeOK'
  <2>1. Live' \subseteq Live
    BY DEF IInv, TypeOK, Start
  <2>2. Cardinality(Live') <= Slots
    BY <2>1, FitsSlots DEF IInv, TypeOK
  <2> QED BY <2>2 DEF IInv, TypeOK, Start
<1>2. LoopOK'
  BY DEF IInv, TypeOK, LoopOK, Start
<1>3. ItemsOK'
  BY DEF IInv, TypeOK, ItemsOK, ItemOK, Start
<1>4. WatcherOK'
  BY DEF IInv, TypeOK, WatcherOK, Start
<1>5. RevokedForReason'
  BY DEF IInv, TypeOK, RevokedForReason, Start
<1>6. GracefulRevokesNothing'
  BY DEF IInv, TypeOK, GracefulRevokesNothing, Revoked, Start
<1>7. AskedUnderFlag'
  BY DEF IInv, TypeOK, AskedUnderFlag, Start
<1>8. Known'
  BY DEF IInv, TypeOK, Known, Start
<1>9. Told'
  BY DEF IInv, TypeOK, Told, Start
<1> QED BY <1>1, <1>2, <1>3, <1>4, <1>5, <1>6, <1>7, <1>8, <1>9 DEF IInv

\* A body lands its bytes.
LEMMA SucceedKeeps == ASSUME NEW i \in Items, IInv, Succeed(i) PROVE IInv'
<1>1. TypeOK'
  <2>1. Live' \subseteq Live
    BY DEF IInv, TypeOK, Succeed, Settle
  <2>2. Cardinality(Live') <= Slots
    BY <2>1, FitsSlots DEF IInv, TypeOK
  <2> QED BY <2>2 DEF IInv, TypeOK, Succeed, Settle
<1>2. LoopOK'
  BY DEF IInv, TypeOK, LoopOK, Succeed
<1>3. ItemsOK'
  BY DEF IInv, TypeOK, ItemsOK, ItemOK, Succeed, Settle
<1>4. WatcherOK'
  BY DEF IInv, TypeOK, WatcherOK, Succeed
<1>5. RevokedForReason'
  BY DEF IInv, TypeOK, RevokedForReason, Succeed, Settle
<1>6. GracefulRevokesNothing'
  BY DEF IInv, TypeOK, GracefulRevokesNothing, Revoked, Succeed, Settle
<1>7. AskedUnderFlag'
  BY DEF IInv, TypeOK, AskedUnderFlag, Succeed, Settle
<1>8. Known'
  BY DEF IInv, TypeOK, Known, Succeed, Settle
<1>9. Told'
  BY DEF IInv, TypeOK, Told, Succeed, Settle
<1> QED BY <1>1, <1>2, <1>3, <1>4, <1>5, <1>6, <1>7, <1>8, <1>9 DEF IInv

\* A body fails, or its request was cancelled.
LEMMA FailKeeps == ASSUME NEW i \in Items, IInv, Fail(i) PROVE IInv'
<1>0. PICK outcome \in Statuses :
        /\ Settle(i, outcome)
        /\ outcome \notin {"none", "over", "success", "interrupt"}
        /\ outcome = "cancelled" => status[i] = "cancelled"
        /\ outcome = "crtCancelled" => engine = "crt" /\ i \in asked
  BY DEF IInv, TypeOK, ItemsOK, ItemOK, Fail, Statuses
<1>f. /\ phase[i] = "running"
      /\ UNCHANGED <<fixed, token, loopVars, effects, tracked, initiated, pending,
                     record, watcherVars, faults>>
  BY DEF Fail
<1>s. /\ status' = [status EXCEPT ![i] = outcome]
      /\ asked' = asked \ {i}
      /\ phase' = [phase EXCEPT ![i] = "recording"]
  BY <1>0 DEF Settle
<1>1. TypeOK'
  <2>1. Live' \subseteq Live
    BY <1>0, <1>f, <1>s DEF IInv, TypeOK
  <2>2. Cardinality(Live') <= Slots
    BY <2>1, FitsSlots DEF IInv, TypeOK
  <2> QED BY <1>0, <1>f, <1>s, <2>2 DEF IInv, TypeOK, Statuses
<1>2. LoopOK'
  BY <1>0, <1>f, <1>s DEF IInv, TypeOK, LoopOK
<1>3. ItemsOK'
  BY <1>0, <1>f, <1>s DEF IInv, TypeOK, ItemsOK, ItemOK
<1>4. WatcherOK'
  BY <1>0, <1>f, <1>s DEF IInv, TypeOK, WatcherOK
<1>5. RevokedForReason'
  BY <1>0, <1>f, <1>s DEF IInv, TypeOK, RevokedForReason
<1>6. GracefulRevokesNothing'
  BY <1>0, <1>f, <1>s DEF IInv, TypeOK, GracefulRevokesNothing, Revoked
<1>7. AskedUnderFlag'
  BY <1>0, <1>f, <1>s DEF IInv, TypeOK, AskedUnderFlag
<1>8. Known'
  BY <1>0, <1>f, <1>s DEF IInv, TypeOK, Known
<1>9. Told'
  BY <1>0, <1>f, <1>s DEF IInv, TypeOK, Told
<1> QED BY <1>1, <1>2, <1>3, <1>4, <1>5, <1>6, <1>7, <1>8, <1>9 DEF IInv

\* A BaseException of the caller's code in a task is noted, and ends the transfer.
LEMMA RaiseInTaskKeeps == ASSUME NEW i \in Items, IInv, RaiseInTask(i) PROVE IInv'
<1>1. TypeOK'
  <2>1. Live' \subseteq Live
    BY DEF IInv, TypeOK, RaiseInTask, Settle
  <2>2. Cardinality(Live') <= Slots
    BY <2>1, FitsSlots DEF IInv, TypeOK
  <2> QED BY <2>2 DEF IInv, TypeOK, RaiseInTask, Settle, Note, Guarded
<1>2. LoopOK'
  BY DEF IInv, TypeOK, LoopOK, RaiseInTask
<1>3. ItemsOK'
  BY DEF IInv, TypeOK, ItemsOK, ItemOK, RaiseInTask, Settle, Guarded
<1>4. WatcherOK'
  BY DEF IInv, TypeOK, WatcherOK, RaiseInTask
<1>5. RevokedForReason'
  BY DEF IInv, TypeOK, LoopOK, RevokedForReason, RaiseInTask, Note
<1>6. GracefulRevokesNothing'
  BY DEF IInv, TypeOK, GracefulRevokesNothing, RaiseInTask
<1>7. AskedUnderFlag'
  BY DEF IInv, TypeOK, AskedUnderFlag, RaiseInTask
<1>8. Known'
  BY DEF IInv, TypeOK, Known, RaiseInTask, Settle
<1>9. Told'
  BY DEF IInv, TypeOK, Told, RaiseInTask, Settle
<1> QED BY <1>1, <1>2, <1>3, <1>4, <1>5, <1>6, <1>7, <1>8, <1>9 DEF IInv

\* mv deletes the source of an item that landed.
LEMMA DeleteSourceKeeps == ASSUME NEW i \in Items, IInv, DeleteSource(i) PROVE IInv'
<1>0. PICK outcome \in {"success", "fault", "lost", "thrown", "interrupt"} :
        /\ status' = [status EXCEPT ![i] = outcome]
        /\ outcome = "interrupt" => faults' > 0
  BY DEF IInv, TypeOK, ItemsOK, ItemOK, DeleteSource
<1>f. /\ phase[i] = "deleting" /\ phase' = [phase EXCEPT ![i] = "recording"]
      /\ sourceGone' \subseteq Items /\ faults' \in faults .. MaxFaults
      /\ UNCHANGED <<fixed, token, loopVars, asked, landed, tracked, initiated, pending,
                     record, watcherVars>>
  <2>1. sourceGone' \subseteq Items
    BY DEF IInv, TypeOK, DeleteSource
  <2>2. faults' \in faults .. MaxFaults
    BY DEF IInv, TypeOK, DeleteSource
  <2> QED BY <2>1, <2>2 DEF DeleteSource
<1>s. status[i] = "success" /\ i \notin asked
  BY <1>f DEF IInv, ItemsOK, ItemOK
<1>1. TypeOK'
  <2>1. Live' \subseteq Live
    BY <1>0, <1>f, <1>s DEF IInv, TypeOK
  <2>2. Cardinality(Live') <= Slots
    BY <2>1, FitsSlots DEF IInv, TypeOK
  <2> QED BY <1>0, <1>f, <1>s, <2>2 DEF IInv, TypeOK
<1>2. LoopOK'
  BY <1>0, <1>f, <1>s DEF IInv, TypeOK, LoopOK
<1>3. ItemsOK'
  BY <1>0, <1>f, <1>s DEF IInv, TypeOK, ItemsOK, ItemOK
<1>4. WatcherOK'
  BY <1>0, <1>f, <1>s DEF IInv, TypeOK, WatcherOK
<1>5. RevokedForReason'
  BY <1>0, <1>f, <1>s DEF IInv, TypeOK, RevokedForReason
<1>6. GracefulRevokesNothing'
  BY <1>0, <1>f, <1>s DEF IInv, TypeOK, GracefulRevokesNothing, Revoked
<1>7. AskedUnderFlag'
  BY <1>0, <1>f, <1>s DEF IInv, TypeOK, AskedUnderFlag
<1>8. Known'
  BY <1>0, <1>f, <1>s DEF IInv, TypeOK, Known
<1>9. Told'
  BY <1>0, <1>f, <1>s DEF IInv, TypeOK, Told
<1> QED BY <1>1, <1>2, <1>3, <1>4, <1>5, <1>6, <1>7, <1>8, <1>9 DEF IInv

\* The item is recorded, and its future is over.
LEMMA RecordKeeps == ASSUME NEW i \in Items, IInv, Record(i) PROVE IInv'
<1>1. TypeOK'
  <2>1. Live' \subseteq Live
    BY DEF IInv, TypeOK, Record
  <2>2. Cardinality(Live') <= Slots
    BY <2>1, FitsSlots DEF IInv, TypeOK
  <2>3. Outcome(i) \in {"succeeded", "failed", "skipped", "cancelled", "lost"}
    BY DEF Outcome
  <2>4. /\ record' \in [Items -> {"none", "succeeded", "failed", "skipped", "cancelled", "lost"}]
        /\ phase' \in [Items -> Phases] /\ status' \in [Items -> Statuses]
    BY <2>3 DEF IInv, TypeOK, Record, Phases, Statuses
  <2>5. pending' \in BOOLEAN /\ faults' \in 0 .. MaxFaults
    <3>1. pending' = pending \/ pending' = TRUE
      BY DEF Record, Note
    <3>2. faults' = faults \/ (faults < MaxFaults /\ faults' = faults + 1)
      BY DEF Record
    <3>3. pending' \in BOOLEAN
      BY <3>1 DEF IInv, TypeOK
    <3>4. faults' \in 0 .. MaxFaults
      BY <3>2 DEF IInv, TypeOK
    <3> QED BY <3>3, <3>4
  <2>6. \A k \in tracked' : phase'[k] = "over" => k = sent /\ (cpc = "recheck" \/ exc = "fatal")
    BY DEF IInv, TypeOK, Record
  <2>7. UNCHANGED <<fixed, token, loopVars, asked, effects, initiated, watcherVars>>
        /\ tracked' \subseteq tracked
    BY DEF Record
  <2> QED BY <2>2, <2>4, <2>5, <2>6, <2>7 DEF IInv, TypeOK, Phases, Statuses
<1>2. LoopOK'
  BY DEF IInv, TypeOK, LoopOK, Record
<1>3. ItemsOK'
  BY DEF IInv, TypeOK, ItemsOK, ItemOK, Record, Outcome
<1>4. WatcherOK'
  BY DEF IInv, TypeOK, WatcherOK, Record
<1>5. RevokedForReason'
  BY DEF IInv, TypeOK, LoopOK, RevokedForReason, Record, Outcome, IsCancellation, Note
<1>6. GracefulRevokesNothing'
  BY DEF IInv, TypeOK, GracefulRevokesNothing, Revoked, Record, Outcome, IsCancellation
<1>7. AskedUnderFlag'
  BY DEF IInv, TypeOK, AskedUnderFlag, Record
<1>8. Known'
  BY DEF IInv, TypeOK, Known, Record
<1>9. Told'
  BY DEF IInv, TypeOK, Told, Record
<1> QED BY <1>1, <1>2, <1>3, <1>4, <1>5, <1>6, <1>7, <1>8, <1>9 DEF IInv

\* The watcher sees the token, and puts the flag up.
LEMMA WatchPollKeeps == ASSUME IInv, WatchPoll PROVE IInv'
<1>1. TypeOK'
  <2>1. wpc' \in {"done", "snapshot"} /\ initiated' \in BOOLEAN
    BY DEF IInv, TypeOK, WatchPoll
  <2>2. UNCHANGED <<fixed, token, loopVars, futures, effects, tracked, pending, record,
                    snap, faults>>
    BY DEF WatchPoll
  <2> QED BY <2>1, <2>2 DEF IInv, TypeOK
<1>2. LoopOK'
  BY DEF IInv, TypeOK, LoopOK, WatchPoll
<1>3. ItemsOK'
  BY DEF IInv, TypeOK, ItemsOK, ItemOK, WatchPoll
<1>4. WatcherOK'
  BY DEF IInv, TypeOK, WatcherOK, WatchPoll
<1>5. RevokedForReason'
  BY DEF IInv, TypeOK, RevokedForReason, WatchPoll
<1>6. GracefulRevokesNothing'
  BY DEF IInv, TypeOK, GracefulRevokesNothing, Revoked, WatchPoll
<1>7. AskedUnderFlag'
  BY DEF IInv, TypeOK, AskedUnderFlag, WatchPoll
<1>8. Known'
  BY DEF IInv, TypeOK, Known, WatchPoll
<1>9. Told'
  BY DEF IInv, TypeOK, Told, WatchPoll
<1> QED BY <1>1, <1>2, <1>3, <1>4, <1>5, <1>6, <1>7, <1>8, <1>9 DEF IInv

\* The watcher takes its snapshot of the tracked futures.
LEMMA WatchSnapshotKeeps == ASSUME IInv, WatchSnapshot PROVE IInv'
<1>1. TypeOK'
  BY DEF IInv, TypeOK, WatchSnapshot
<1>2. LoopOK'
  BY DEF IInv, TypeOK, LoopOK, WatchSnapshot
<1>3. ItemsOK'
  BY DEF IInv, TypeOK, ItemsOK, ItemOK, WatchSnapshot
<1>4. WatcherOK'
  BY DEF IInv, TypeOK, WatcherOK, WatchSnapshot
<1>5. RevokedForReason'
  BY DEF IInv, TypeOK, RevokedForReason, WatchSnapshot
<1>6. GracefulRevokesNothing'
  BY DEF IInv, TypeOK, WatcherOK, GracefulRevokesNothing, WatchSnapshot
<1>7. AskedUnderFlag'
  BY DEF IInv, TypeOK, AskedUnderFlag, WatchSnapshot
<1>8. Known'
  BY DEF IInv, TypeOK, Known, WatchSnapshot
<1>9. Told'
  BY DEF IInv, TypeOK, Known, Told, WatchSnapshot
<1> QED BY <1>1, <1>2, <1>3, <1>4, <1>5, <1>6, <1>7, <1>8, <1>9 DEF IInv

\* The sweep tells the next future of the snapshot to cancel.
LEMMA WatchSweepKeeps == ASSUME IInv, WatchSweep PROVE IInv'
<1>1. TypeOK'
  <2>1. /\ phase' \in [Items -> Phases] /\ status' \in [Items -> Statuses]
        /\ asked' \subseteq Items /\ Live' \subseteq Live
        /\ \A k \in Items : phase'[k] = "over" <=> phase[k] = "over"
    <3>1. CASE \E k \in snap : CancelFutures({k})
      BY <3>1, CancelTells DEF IInv, TypeOK
    <3>2. CASE UNCHANGED futures
      BY <3>2 DEF IInv, TypeOK, Phases, Statuses
    <3> QED BY <3>1, <3>2 DEF WatchSweep
  <2>2. Cardinality(Live') <= Slots
    BY <2>1, FitsSlots DEF IInv, TypeOK
  <2>3. snap' \subseteq 1 .. sent
    BY DEF IInv, TypeOK, WatchSweep
  <2>4. UNCHANGED <<fixed, token, loopVars, effects, tracked, initiated, pending, record, faults>>
        /\ wpc' \in {"sweep", "done"}
    BY DEF WatchSweep
  <2> QED BY <2>1, <2>2, <2>3, <2>4 DEF IInv, TypeOK, Phases, Statuses
<1>2. LoopOK'
  BY DEF IInv, TypeOK, LoopOK, WatchSweep, CancelFutures
<1>3. ItemsOK'
  BY DEF IInv, TypeOK, ItemsOK, ItemOK, WatchSweep, CancelFutures
<1>4. WatcherOK'
  BY DEF IInv, TypeOK, WatcherOK, WatchSweep
<1>5. RevokedForReason'
  BY DEF IInv, TypeOK, WatcherOK, RevokedForReason, WatchSweep
<1>6. GracefulRevokesNothing'
  BY DEF IInv, TypeOK, WatcherOK, GracefulRevokesNothing, WatchSweep
<1>7. AskedUnderFlag'
  BY DEF IInv, TypeOK, WatcherOK, AskedUnderFlag, WatchSweep
<1>8. Known'
  BY DEF IInv, TypeOK, Known, WatchSweep, CancelFutures
<1>9. Told'
  BY DEF IInv, TypeOK, Told, WatchSweep, CancelFutures
<1> QED BY <1>1, <1>2, <1>3, <1>4, <1>5, <1>6, <1>7, <1>8, <1>9 DEF IInv

\* The token escalates.
LEMMA CancelKeeps == ASSUME NEW mode \in {"graceful", "immediate"}, IInv, Cancel(mode) PROVE IInv'
<1>1. TypeOK'
  BY DEF IInv, TypeOK, Cancel
<1>2. LoopOK'
  BY DEF IInv, TypeOK, LoopOK, Cancel
<1>3. ItemsOK'
  BY DEF IInv, TypeOK, ItemsOK, ItemOK, Cancel
<1>4. WatcherOK'
  BY DEF IInv, TypeOK, WatcherOK, Cancel
<1>5. RevokedForReason'
  BY DEF IInv, TypeOK, LoopOK, RevokedForReason, Cancel
<1>6. GracefulRevokesNothing'
  BY DEF IInv, TypeOK, GracefulRevokesNothing, Revoked, Cancel
<1>7. AskedUnderFlag'
  BY DEF IInv, TypeOK, AskedUnderFlag, Cancel
<1>8. Known'
  BY DEF IInv, TypeOK, Known, Cancel
<1>9. Told'
  BY DEF IInv, TypeOK, Told, Cancel
<1> QED BY <1>1, <1>2, <1>3, <1>4, <1>5, <1>6, <1>7, <1>8, <1>9 DEF IInv

\* A step that changes nothing keeps the invariant.
LEMMA StutterKeeps == ASSUME IInv, Stutter PROVE IInv'
<1>1. TypeOK'
  BY DEF IInv, TypeOK, Stutter, vars
<1>2. LoopOK'
  BY DEF IInv, TypeOK, LoopOK, Stutter, vars
<1>3. ItemsOK'
  BY DEF IInv, TypeOK, ItemsOK, ItemOK, Stutter, vars
<1>4. WatcherOK'
  BY DEF IInv, TypeOK, WatcherOK, Stutter, vars
<1>5. RevokedForReason'
  BY DEF IInv, TypeOK, RevokedForReason, Stutter, vars
<1>6. GracefulRevokesNothing'
  BY DEF IInv, TypeOK, GracefulRevokesNothing, Revoked, Stutter, vars
<1>7. AskedUnderFlag'
  BY DEF IInv, TypeOK, AskedUnderFlag, Stutter, vars
<1>8. Known'
  BY DEF IInv, TypeOK, Known, Stutter, vars
<1>9. Told'
  BY DEF IInv, TypeOK, Told, Stutter, vars
<1> QED BY <1>1, <1>2, <1>3, <1>4, <1>5, <1>6, <1>7, <1>8, <1>9 DEF IInv

\* Before the first check nothing was sent, revoked or asked.
LEMMA Initially == Init => IInv
<1> SUFFICES ASSUME Init PROVE IInv
  OBVIOUS
<1>1. TypeOK
  <2>1. Live = {} /\ Cardinality(Live) = 0
    BY FS_EmptySet DEF Init
  <2>2. /\ tracked \subseteq 1 .. sent /\ snap \subseteq 1 .. sent
        /\ \A i \in tracked : phase[i] = "over" => i = sent /\ (cpc = "recheck" \/ exc = "fatal")
    BY DEF Init
  <2>3. cpc \in {"check", "pull"} /\ Cardinality(Live) <= Slots
    BY <2>1 DEF Init
  <2>4. /\ phase \in [Items -> Phases] /\ status \in [Items -> Statuses]
        /\ record \in [Items -> {"none", "succeeded", "failed", "skipped", "cancelled", "lost"}]
    BY DEF Init, Phases, Statuses
  <2>5. /\ token = "none" /\ sent = 0 /\ exc = "none" /\ ended = "running" /\ wpc = "poll"
        /\ faults = 0 /\ asked = {} /\ landed = {} /\ sourceGone = {}
    BY DEF Init
  <2>6. engine \in Engines /\ driver \in Drivers /\ {move, initiated, pending} \subseteq BOOLEAN
    BY DEF Init
  <2> QED BY <2>2, <2>3, <2>4, <2>5, <2>6 DEF TypeOK, Phases, Statuses
<1>2. LoopOK /\ ItemsOK /\ WatcherOK /\ AskedUnderFlag /\ Known /\ Told
  BY DEF Init, LoopOK, ItemsOK, ItemOK, WatcherOK, AskedUnderFlag, Known, Told
<1>3. RevokedForReason /\ GracefulRevokesNothing
  BY DEF Init, RevokedForReason, GracefulRevokesNothing, Revoked
<1> QED BY <1>1, <1>2, <1>3 DEF IInv

\* The inductive invariant holds in every reachable state.
LEMMA Inductive == SafeSpec => []IInv
<1>1. IInv /\ [Next]_vars => IInv'
  <2> SUFFICES ASSUME IInv, [Next]_vars PROVE IInv'
    OBVIOUS
  <2>1. CASE Loop
    BY <2>1, CheckKeeps, PullKeeps, AcceptKeeps, RefuseKeeps, FailAtOnceKeeps, TrackKeeps,
       RecheckKeeps, RaiseOwedKeeps, ExitKeeps, DrainedKeeps, UnwatchKeeps, VerdictKeeps
       DEF Loop
  <2>2. CASE Interrupt \/ InterruptDrain
    BY <2>2, InterruptKeeps, InterruptDrainKeeps
  <2>3. CASE \E i \in Items : Work(i) \/ RaiseInTask(i)
    BY <2>3, StartKeeps, SucceedKeeps, FailKeeps, DeleteSourceKeeps, RecordKeeps, RaiseInTaskKeeps
       DEF Work
  <2>4. CASE Watcher
    BY <2>4, WatchPollKeeps, WatchSnapshotKeeps, WatchSweepKeeps DEF Watcher
  <2>5. CASE \E mode \in {"graceful", "immediate"} : Cancel(mode)
    BY <2>5, CancelKeeps
  <2>6. CASE UNCHANGED vars
    BY <2>6, StutterKeeps DEF Stutter
  <2> QED BY <2>1, <2>2, <2>3, <2>4, <2>5, <2>6 DEF Next, Finished
<1> QED BY <1>1, Initially, PTL DEF SafeSpec

\* The types, and that the engine never holds more transfers than it has slots.
THEOREM TransferTyped == SafeSpec => []TypeOK
<1>1. IInv => TypeOK
  BY DEF IInv
<1> QED BY <1>1, Inductive, PTL

\* A graceful cancel drains: unless something else ends the run, no transfer is told to
\* cancel and none is recorded as cancelled.
THEOREM GracefulCancelDrains == SafeSpec => []GracefulDrains
<1>1. IInv => GracefulDrains
  BY DEF IInv, GracefulRevokesNothing, Revoked, GracefulDrains
<1> QED BY <1>1, Inductive, PTL

\* transfer() returns normally only if no item failed or was cancelled, and no interrupt
\* is still owed to the caller.
THEOREM ReturnMeansDone == SafeSpec => []NormalReturnMeansDone
<1>1. IInv => NormalReturnMeansDone
  <2> SUFFICES ASSUME IInv, ended = "returned"
               PROVE  ~pending
                 /\ \A i \in 1 .. sent : record[i] \in {"succeeded", "skipped", "lost"}
    BY DEF NormalReturnMeansDone
  <2>1. cpc = "out" /\ exc = "none" /\ token = "none" /\ ~pending
    BY DEF IInv, LoopOK, RevokedForReason
  <2>2. ASSUME NEW i \in 1 .. sent PROVE record[i] \in {"succeeded", "skipped", "lost"}
    <3>1. i \in Items /\ phase[i] = "over"
      BY <2>1 DEF IInv, TypeOK, LoopOK, ItemsOK, ItemOK
    <3>2. record[i] \notin {"none", "cancelled", "failed"}
      BY <2>1, <3>1 DEF IInv, ItemsOK, ItemOK, RevokedForReason
    <3> QED BY <3>1, <3>2 DEF IInv, TypeOK
  <2> QED BY <2>1, <2>2
<1> QED BY <1>1, Inductive, PTL

\* Under the loop of cp an immediate cancel reaches every transfer: once the watcher is
\* done, every transfer the drain still waits for was told.  The loop of sync
\* breaks it (MCTransferrerSync): its last check is before the submit, not behind it.
THEOREM CpTellsEveryone ==
  ASSUME Drivers \subseteq {"cp"}
  PROVE  SafeSpec => []ImmediateReachesAll
<1>1. IInv => ImmediateReachesAll
  BY DEF IInv, TypeOK, Told, ImmediateReachesAll
<1> QED BY <1>1, Inductive, PTL

\* On the CRT engine an item revoked by the token alone is recorded as cancelled, never
\* as failed: whoever sees the revocation sees the flag that tells it from an error.
THEOREM OrderedMeansCancelled == SafeSpec => OrderedIsCancelled
<1>1. IInv /\ [Next]_vars =>
        [\A i \in Items : status[i] = "crtCancelled" /\ record'[i] = "failed" =>
           faults > 0 \/ exc = "fatal"]_vars
  <2> SUFFICES ASSUME IInv, Next, NEW i \in Items,
                      status[i] = "crtCancelled", record'[i] = "failed"
               PROVE  faults > 0 \/ exc = "fatal"
    OBVIOUS
  <2>1. engine = "crt" /\ record[i] = "none" /\ phase[i] # "unsent"
    BY DEF IInv, TypeOK, ItemsOK, ItemOK
  <2>2. Record(i)
    <3>1. ASSUME NEW j \in Items, Record(j) PROVE j = i
      BY <2>1, <3>1 DEF IInv, TypeOK, Record
    <3>2. ~FailAtOnce
      BY <2>1 DEF IInv, TypeOK, ItemsOK, ItemOK, FailAtOnce
    <3> QED BY <2>1, <3>1, <3>2 DEF Next, Loop, Work, Watcher, Check, Pull, Accept, Refuse,
               Track, Recheck, RaiseOwed, Exit, Drained, Unwatch, Verdict, Interrupt,
               InterruptDrain, Start, Succeed, Fail, DeleteSource, RaiseInTask, WatchPoll,
               WatchSnapshot, WatchSweep, Cancel, Finished, vars
  <2>3. Outcome(i) = "failed"
    BY <2>2 DEF IInv, TypeOK, Record
  <2>4. ~initiated
    BY <2>1, <2>3 DEF Outcome, IsCancellation
  <2> QED BY <2>4 DEF IInv, AskedUnderFlag
<1> QED BY <1>1, Inductive, PTL DEF SafeSpec, OrderedIsCancelled

-----------------------------------------------------------------------------
(* The run keeps what TransferLedger promises.                             *)

\* What a stored success says of the bytes, and of the source of a move.
SuccessOK(i) ==
  /\ phase[i] = "deleting" => move
  /\ status[i] = "success" => i \in landed
  /\ status[i] = "success" /\ phase[i] = "recording" /\ move => i \in sourceGone
SuccessesOK == \A i \in Items : SuccessOK(i)

\* A cancel stores no success, and moves no item that has one.
LEMMA CancelInvents ==
  ASSUME TypeOK, ItemsOK, SuccessesOK, NEW S \in SUBSET Items, CancelFutures(S),
         UNCHANGED <<fixed, effects>>
  PROVE  SuccessesOK'
<1>1. CASE engine = "classic"
  <2>1. status' = [k \in Items |-> IF k \in S \cap Unsettled THEN "cancelled" ELSE status[k]]
    BY <1>1 DEF CancelFutures
  <2>2. phase' = [k \in Items |-> IF k \in S \cap Unsettled /\ phase[k] = "queued"
                                 THEN "recording" ELSE phase[k]]
    BY <1>1 DEF CancelFutures
  <2> QED BY <2>1, <2>2 DEF SuccessesOK, SuccessOK
<1>2. CASE engine # "classic"
  BY <1>2 DEF SuccessesOK, SuccessOK, CancelFutures
<1> QED BY <1>1, <1>2

\* Nor does a step that leaves the futures and the effects alone.
LEMMA SuccessStands ==
  ASSUME SuccessesOK, UNCHANGED <<move, phase, status, effects>>
  PROVE  SuccessesOK'
BY DEF SuccessesOK, SuccessOK

\* A success is stored with its bytes, and recorded after the source delete.
LEMMA SuccessKeeps == ASSUME IInv, SuccessesOK, [Next]_vars PROVE SuccessesOK'
<1>1. CASE Loop
  <2>1. CASE Accept \/ FailAtOnce
    BY <2>1 DEF IInv, TypeOK, ItemsOK, ItemOK, SuccessesOK, SuccessOK, Accept, FailAtOnce
  <2>2. CASE Exit
    <3>1. CancelFutures(Items) \/ UNCHANGED futures
      BY <2>2 DEF Exit
    <3>2. UNCHANGED <<fixed, effects>>
      BY <2>2 DEF Exit
    <3>3. CASE CancelFutures(Items)
      BY <3>2, <3>3, CancelInvents DEF IInv
    <3>4. CASE UNCHANGED futures
      BY <3>2, <3>4, SuccessStands
    <3> QED BY <3>1, <3>3, <3>4
  <2>3. CASE \/ Check \/ Pull \/ Refuse \/ Track \/ Recheck
             \/ RaiseOwed \/ Drained \/ Unwatch \/ Verdict
    <3>1. UNCHANGED <<move, phase, status, effects>>
      BY <2>3 DEF Check, Pull, Refuse, Track, Recheck, RaiseOwed, Drained, Unwatch, Verdict
    <3> QED BY <3>1, SuccessStands
  <2> QED BY <1>1, <2>1, <2>2, <2>3 DEF Loop
<1>2. CASE Interrupt \/ Watcher \/ (\E mode \in {"graceful", "immediate"} : Cancel(mode))
           \/ UNCHANGED vars
  <2>1. CASE \E i \in snap : CancelFutures({i}) /\ UNCHANGED <<fixed, effects>>
    BY <2>1, CancelInvents DEF IInv, TypeOK
  <2>2. CASE UNCHANGED <<move, phase, status, effects>>
    BY <2>2, SuccessStands
  <2> QED BY <1>2, <2>1, <2>2 DEF Interrupt, Watcher, WatchPoll, WatchSnapshot, WatchSweep,
             Cancel, vars
<1>3. CASE InterruptDrain
  BY <1>3, CancelInvents DEF IInv, InterruptDrain
<1>4. ASSUME NEW i \in Items, Work(i) \/ RaiseInTask(i) PROVE SuccessesOK'
  <2>1. CASE Start(i)
    BY <2>1 DEF IInv, TypeOK, SuccessesOK, SuccessOK, Start
  <2>2. CASE Succeed(i)
    BY <2>2 DEF IInv, TypeOK, SuccessesOK, SuccessOK, Succeed, Settle
  <2>3. CASE Fail(i) \/ RaiseInTask(i)
    <3>1. PICK outcome \in Statuses : Settle(i, outcome) /\ outcome # "success"
      BY <2>3 DEF IInv, TypeOK, ItemsOK, ItemOK, Fail, RaiseInTask, Guarded, Statuses
    <3>2. UNCHANGED <<fixed, effects>>
      BY <2>3 DEF Fail, RaiseInTask
    <3> QED BY <3>1, <3>2 DEF IInv, TypeOK, SuccessesOK, SuccessOK, Settle
  <2>4. CASE DeleteSource(i)
    <3>1. /\ phase' = [phase EXCEPT ![i] = "recording"]
          /\ UNCHANGED <<move, landed>>
          /\ sourceGone \subseteq sourceGone'
          /\ \/ i \in sourceGone' /\ status' = status
             \/ \E outcome \in {"fault", "lost", "thrown", "interrupt"} :
                  status' = [status EXCEPT ![i] = outcome]
      BY <2>4 DEF DeleteSource
    <3> QED BY <3>1 DEF IInv, TypeOK, SuccessesOK, SuccessOK
  <2>5. CASE Record(i)
    BY <2>5 DEF IInv, TypeOK, SuccessesOK, SuccessOK, Record
  <2> QED BY <1>4, <2>1, <2>2, <2>3, <2>4, <2>5 DEF Work
<1> QED BY <1>1, <1>2, <1>3, <1>4 DEF Next, Finished

\* So it holds in every reachable state.
LEMMA SuccessInvariant == SafeSpec => []SuccessesOK
<1>1. Init => SuccessesOK
  BY DEF Init, SuccessesOK, SuccessOK
<1> QED BY <1>1, Inductive, SuccessKeeps, PTL DEF SafeSpec

\* A step of the ledger, or one that the ledger does not see.
Promised == [Ledger!Next]_(Ledger!vars)

\* The ledger starts as the run does.
LEMMA LedgerInit == Init => Ledger!Init
<1> SUFFICES ASSUME Init PROVE Ledger!Init
  OBVIOUS
<1>1. Open = TRUE /\ Polled = FALSE /\ Live = {}
  BY DEF Init, Open, Polled
<1> QED BY <1>1 DEF Init, Ledger!Init, Ledger!Items

\* What the ledger sees is left alone.
LEMMA Unseen ==
  ASSUME UNCHANGED <<fixed, token, phase, record, effects, exc, pending, ended>>,
         Open' = Open, Polled' = Polled
  PROVE  Promised
<1>1. Live' = Live
  OBVIOUS
<1> QED BY <1>1 DEF Promised, Ledger!vars, Ledger!work

\* While the loop is not out, the ledger is running.
LEMMA Running == ASSUME IInv, cpc # "out" PROVE ended = "running"
BY DEF IInv, LoopOK

\* The token was read before the next item: or it stops the loop.
LEMMA CheckPolls == ASSUME IInv, Check PROVE Promised
<1>1. /\ cpc = "check" /\ exc = "none" /\ ended = "running" /\ Open /\ driver \in {"cp", "sync"}
  BY DEF IInv, TypeOK, LoopOK, Check, Open
<1>2. UNCHANGED <<fixed, token, phase, record, effects, pending, ended>> /\ Live' = Live
  BY DEF Check
<1>3. CASE token # "none"
  <2>1. exc' = "cancelled" /\ cpc' = "exit"
    BY <1>3 DEF Check, Raise
  <2>2. Open' = FALSE /\ Polled' = FALSE
    BY <2>1 DEF Open, Polled
  <2>3. Ledger!Stop
    BY <1>1, <1>2, <1>3, <2>1, <2>2 DEF Ledger!Stop, Ledger!Leave, Ledger!work
  <2> QED BY <1>1, <2>3 DEF Promised, Ledger!Next
<1>4. CASE token = "none"
  <2>1. exc' = exc /\ cpc' = CheckedAt
    BY <1>4 DEF Check
  <2>2. Open' = Open /\ Polled' = TRUE
    BY <1>1, <1>2, <2>1 DEF Open, Polled, CheckedAt
  <2>3. Ledger!Poll
    BY <1>1, <1>2, <1>4, <2>1, <2>2 DEF Ledger!Poll, Ledger!work
  <2> QED BY <1>1, <2>3 DEF Promised, Ledger!Next
<1> QED BY <1>3, <1>4

\* The loop is left: at the producer's end, or for an exception.
LEMMA LeavingStops ==
  ASSUME IInv, Open, cpc' \notin {"check", "pull", "submit", "track", "recheck", "owed"},
         UNCHANGED <<fixed, token, phase, record, effects, ended>>,
         \/ exc' = "fatal" /\ pending' \in {FALSE, pending}
         \/ UNCHANGED <<exc, pending>>
  PROVE  Promised
<1>1. ended = "running"
  BY Running DEF Open
<1>2. Open' = FALSE /\ Polled' = FALSE
  BY DEF Open, Polled
<1>3. Live' = Live
  OBVIOUS
<1>4. Ledger!Stop
  BY <1>2, <1>3 DEF Ledger!Stop, Ledger!Leave, Ledger!work
<1> QED BY <1>1, <1>4 DEF Promised, Ledger!Next

\* Pulling an item is not seen, the end of the producer is.
LEMMA PullStops == ASSUME IInv, Pull PROVE Promised
<1>1. Open /\ driver \in {"cp", "sync"}
  BY DEF IInv, TypeOK, Pull, Open
<1>2. UNCHANGED <<fixed, token, phase, record, effects, pending, ended>>
  BY DEF Pull
<1>3. CASE cpc' = PulledAt /\ UNCHANGED exc
  <2>1. Open' = Open /\ Polled' = Polled
    BY <1>1, <1>2, <1>3 DEF Pull, Open, Polled, PulledAt
  <2> QED BY <1>2, <1>3, <2>1, Unseen
<1>4. CASE cpc' = "exit" /\ (exc' = "fatal" \/ UNCHANGED exc)
  BY <1>1, <1>2, <1>4, LeavingStops
<1> QED BY <1>3, <1>4 DEF Pull, Raise

\* A refused item, and a Ctrl-C, leave the loop.
LEMMA RefusalStops == ASSUME IInv, Refuse \/ Interrupt PROVE Promised
<1>1. Open
  BY DEF Open, Refuse, Interrupt
<1> QED BY <1>1, LeavingStops DEF Refuse, Interrupt, Raise

\* What was owed leaves the loop, and is owed no more.
LEMMA OwedIsRaised == ASSUME IInv, RaiseOwed PROVE Promised
<1>1. Open /\ driver \in {"cp", "sync"} /\ cpc = "owed"
  BY DEF IInv, TypeOK, RaiseOwed, Open
<1>2. UNCHANGED <<fixed, token, phase, record, effects, ended>> /\ pending' = FALSE
  BY DEF RaiseOwed
<1>3. CASE pending
  BY <1>1, <1>2, <1>3, LeavingStops DEF RaiseOwed, Raise
<1>4. CASE ~pending
  <2>1. Open' = Open /\ Polled' = Polled
    BY <1>1, <1>2, <1>4 DEF RaiseOwed, Open, Polled, CheckPoint
  <2>2. pending' = pending
    BY <1>2, <1>4 DEF IInv, TypeOK
  <2> QED BY <1>2, <1>4, <2>1, <2>2, Unseen DEF RaiseOwed
<1> QED BY <1>3, <1>4

\* The item handed over is the next one in the producer's order.
LEMMA NextInOrder ==
  ASSUME IInv, cpc = "submit"
  PROVE  /\ sent + 1 \in Ledger!Fresh /\ Ledger!Fresh \cap 1 .. (sent + 1) - 1 = {}
         /\ sent + 1 \in Items /\ phase[sent + 1] = "unsent"
<1>1. exc = "none" /\ sent < NumItems /\ sent \in Nat
  BY DEF IInv, TypeOK, LoopOK
<1>2. sent + 1 \in Items /\ phase[sent + 1] = "unsent" /\ record[sent + 1] = "none"
  BY <1>1 DEF IInv, TypeOK, ItemsOK, ItemOK
<1>3. \A i \in 1 .. sent : i \in Items /\ (phase[i] = "over" => record[i] # "none")
                           /\ phase[i] # "unsent"
  BY <1>1 DEF IInv, TypeOK, ItemsOK, ItemOK
<1>4. sent + 1 \in Ledger!Fresh
  BY <1>2 DEF Ledger!Fresh, Ledger!Recorded, Ledger!Items
<1>5. \A i \in 1 .. sent : i \notin Ledger!Fresh
  BY <1>3 DEF Ledger!Fresh, Ledger!Recorded, Ledger!Items
<1>6. 1 .. (sent + 1) - 1 = 1 .. sent
  BY <1>1
<1> QED BY <1>2, <1>4, <1>5, <1>6

\* submit takes the item: the engine accepts it, or it fails at once.
LEMMA SubmitTakes == ASSUME IInv, Accept \/ FailAtOnce PROVE Promised
<1>1. cpc = "submit" /\ Open /\ Polled /\ ended = "running" /\ sent + 1 \in Items
  BY NextInOrder, Running DEF Accept, FailAtOnce, Open, Polled
<1>2. cpc' \in {"track", "owed", "exit"} /\ Polled' = FALSE
  BY DEF Accept, FailAtOnce, Raise, Polled
<1>3. Ledger!Takes(sent + 1)
  BY <1>1, <1>2, NextInOrder DEF Ledger!Takes
<1>4. CASE Accept
  <2>1. Live' = Live \cup {sent + 1}
    BY <1>1, <1>4 DEF IInv, TypeOK, Accept
  <2>2. Open' = Open
    BY <1>1, <1>4 DEF Accept, Open
  <2>3. PICK i \in Ledger!Items : i = sent + 1
    BY <1>1 DEF Ledger!Items
  <2>4. Ledger!Accept(i)
    BY <1>3, <1>4, <2>1, <2>2, <2>3 DEF Accept, Ledger!Accept
  <2> QED BY <1>1, <2>4 DEF Promised, Ledger!Next
<1>5. CASE FailAtOnce
  <2>1. Live' = Live
    BY <1>1, <1>5, NextInOrder DEF IInv, TypeOK, FailAtOnce
  <2>2. \/ Open' = Open /\ exc' = exc
        \/ Open' = FALSE /\ exc' = "fatal"
    BY <1>1, <1>5 DEF FailAtOnce, Open, Raise
  <2>3. PICK i \in Ledger!Items : i = sent + 1
    BY <1>1 DEF Ledger!Items
  <2>4. Ledger!FailAtOnce(i)
    BY <1>2, <1>3, <1>5, <2>1, <2>2, <2>3 DEF FailAtOnce, Ledger!FailAtOnce, Ledger!Leave
  <2> QED BY <1>1, <2>4 DEF Promised, Ledger!Next
<1> QED BY <1>4, <1>5

\* Tracking a future, the drain and the watcher's end are not seen.
LEMMA BookkeepingIsUnseen == ASSUME Track \/ Recheck \/ Drained PROVE Promised
<1>1. Open' = Open /\ Polled' = Polled
  BY DEF Track, Recheck, Drained, Open, Polled
<1> QED BY <1>1, Unseen DEF Track, Recheck, Drained

\* A cancel of futures leaves what the engine holds.
LEMMA CancelHolds ==
  ASSUME TypeOK, ItemsOK, NEW S \in SUBSET Items, CancelFutures(S)
  PROVE  Live' = Live
BY DEF TypeOK, CancelFutures

\* Cancelling what is left is not seen, the interrupt of the drain is.
LEMMA ExitHolds == ASSUME IInv, Exit PROVE Promised
<1>1. Live' = Live
  BY CancelHolds DEF IInv, Exit
<1>2. Open' = Open /\ Polled' = Polled
  BY DEF Exit, Open, Polled
<1> QED BY <1>1, <1>2 DEF Exit, Promised, Ledger!vars, Ledger!work

\* An interrupt of the drain unwinds, or the CRT engine discards it.
LEMMA DrainUnwinds == ASSUME IInv, InterruptDrain PROVE Promised
<1>1. Live' = Live
  BY CancelHolds DEF IInv, InterruptDrain
<1>2. Open' = Open /\ Polled' = Polled /\ ~Open /\ ended = "running"
  BY Running DEF InterruptDrain, Open, Polled
<1>3. UNCHANGED <<move, token, record, landed, sourceGone, pending, ended>>
  BY DEF InterruptDrain
<1>4. CASE exc' = "fatal"
  <2>1. Ledger!Unwind
    BY <1>1, <1>2, <1>3, <1>4 DEF Ledger!Unwind, Ledger!work
  <2> QED BY <1>2, <2>1 DEF Promised, Ledger!Next
<1>5. CASE exc' = exc
  BY <1>1, <1>2, <1>3, <1>5 DEF Promised, Ledger!vars, Ledger!work
<1> QED BY <1>4, <1>5 DEF InterruptDrain

\* After the drain what is still owed is raised, unless something else was.
LEMMA UnwatchRaises == ASSUME IInv, Unwatch PROVE Promised
<1>1. Open' = Open /\ Polled' = Polled /\ ~Open /\ ended = "running" /\ Live = {} /\ Live' = {}
  BY Running DEF IInv, LoopOK, Unwatch, Open, Polled
<1>2. UNCHANGED <<fixed, token, phase, record, effects, ended>>
  BY DEF Unwatch
<1>3. CASE exc = "none" /\ pending
  <2>1. exc' = "fatal" /\ pending' = FALSE
    BY <1>3 DEF Unwatch
  <2>2. Ledger!Unwind
    BY <1>1, <1>2, <1>3, <2>1 DEF Ledger!Unwind, Ledger!work
  <2> QED BY <1>1, <2>2 DEF Promised, Ledger!Next
<1>4. CASE ~(exc = "none" /\ pending)
  BY <1>1, <1>2, <1>4, Unseen DEF Unwatch
<1> QED BY <1>3, <1>4

\* The verdict is true of the records.
LEMMA VerdictIsTrue == ASSUME IInv, Verdict PROVE Promised
<1>1. Open' = Open /\ Polled' = Polled /\ ~Open /\ ended = "running" /\ Live = {} /\ Live' = {}
  BY Running DEF IInv, LoopOK, Verdict, Open, Polled
<1>2. /\ UNCHANGED <<move, token, record, landed, sourceGone, exc, pending>>
      /\ exc = "none" => ~pending
  BY DEF IInv, RevokedForReason, Verdict
<1>3. ASSUME token = "none", exc = "none" PROVE Ledger!Clear
  BY <1>2, <1>3 DEF IInv, RevokedForReason, Ledger!Clear, Ledger!Items
<1>4. \/ ended' = "raised" /\ exc = "fatal"
      \/ ended' = "cancelled" /\ token # "none" /\ exc # "fatal"
      \/ /\ ended' = "batch" /\ token = "none" /\ exc = "none"
         /\ \E i \in Items : record[i] = "failed"
      \/ /\ ended' = "returned" /\ token = "none" /\ exc = "none"
         /\ \A i \in Items : record[i] # "failed"
  BY DEF IInv, TypeOK, LoopOK, Verdict
<1>5. /\ ended' = "batch" => \E i \in Ledger!Recorded : record[i] = "failed"
      /\ ended' = "returned" => \A i \in Ledger!Recorded : record[i] \in Ledger!Settled
  <2>1. ASSUME ended' = "batch" PROVE \E i \in Ledger!Recorded : record[i] = "failed"
    BY <1>4, <2>1 DEF Ledger!Recorded, Ledger!Items
  <2>2. ASSUME ended' = "returned", NEW i \in Ledger!Recorded PROVE record[i] \in Ledger!Settled
    <3>1. i \in Items /\ record[i] \notin {"none", "failed", "cancelled"}
      BY <1>3, <1>4, <2>2 DEF Ledger!Recorded, Ledger!Clear, Ledger!Items
    <3> QED BY <3>1 DEF IInv, TypeOK, Ledger!Settled
  <2> QED BY <2>1, <2>2
<1>6. Ledger!End
  BY <1>1, <1>2, <1>3, <1>4, <1>5 DEF Ledger!End, Ledger!work
<1> QED BY <1>1, <1>6 DEF Promised, Ledger!Next

\* An item that is not over keeps the operation running.
LEMMA HeldMeansRunning ==
  ASSUME IInv, NEW i \in Items, phase[i] \notin {"unsent", "over"}
  PROVE  i \in Live /\ ended = "running"
<1>1. i \in Live
  OBVIOUS
<1>2. cpc # "out"
  BY <1>1 DEF IInv, LoopOK
<1> QED BY <1>1, <1>2, Running

\* What an item does between its acceptance and its record.
LEMMA ItemStays ==
  ASSUME TypeOK, NEW i \in Items, NEW p \in {"running", "deleting", "recording"},
         phase[i] \notin {"unsent", "over"}, phase' = [phase EXCEPT ![i] = p]
  PROVE  Live' = Live
BY DEF TypeOK

\* Where the loop is does not change with an item.
LEMMA LoopStays == ASSUME UNCHANGED <<cpc, driver>> PROVE Open' = Open /\ Polled' = Polled
BY DEF Open, Polled

\* The bytes of an item land, or it is done without.
LEMMA WorkLands == ASSUME IInv, NEW i \in Items, Start(i) \/ Succeed(i) \/ Fail(i) PROVE Promised
<1>1. i \in Live /\ ended = "running" /\ Open' = Open /\ Polled' = Polled
  BY HeldMeansRunning, LoopStays DEF Start, Succeed, Fail
<1>2. /\ UNCHANGED <<move, token, record, sourceGone, exc, pending, ended>>
      /\ landed' = landed \cup {i} \/ landed' = landed
      /\ \E p \in {"running", "deleting", "recording"} : phase' = [phase EXCEPT ![i] = p]
  BY DEF Start, Succeed, Fail, Settle
<1>3. Live' = Live
  BY <1>1, <1>2, ItemStays DEF IInv
<1>4. CASE landed' = landed
  BY <1>1, <1>2, <1>3, <1>4 DEF Promised, Ledger!vars, Ledger!work
<1>5. CASE landed' = landed \cup {i}
  <2>1. Ledger!Land(i)
    BY <1>1, <1>2, <1>3, <1>5 DEF Ledger!Land
  <2> QED BY <1>1, <2>1 DEF Promised, Ledger!Next, Ledger!Items
<1> QED BY <1>2, <1>4, <1>5

\* An exception of the caller's code on a worker is owed from there on.
LEMMA TaskOwes == ASSUME IInv, NEW i \in Items, RaiseInTask(i) PROVE Promised
<1>1. i \in Live /\ ended = "running" /\ Open' = Open /\ Polled' = Polled
  BY HeldMeansRunning, LoopStays DEF RaiseInTask
<1>2. /\ UNCHANGED <<move, token, record, landed, sourceGone, exc, ended>>
      /\ pending' = TRUE
      /\ \E p \in {"running", "deleting", "recording"} : phase' = [phase EXCEPT ![i] = p]
  BY DEF RaiseInTask, Settle, Note
<1>3. Live' = Live
  BY <1>1, <1>2, ItemStays DEF IInv
<1>4. Ledger!Owe
  BY <1>1, <1>2, <1>3 DEF Ledger!Owe, Ledger!work
<1> QED BY <1>1, <1>4 DEF Promised, Ledger!Next

\* Only the source of a move that landed is deleted.
LEMMA SourceFollows == ASSUME IInv, SuccessesOK, NEW i \in Items, DeleteSource(i) PROVE Promised
<1>1. i \in Live /\ ended = "running" /\ Open' = Open /\ Polled' = Polled
  BY HeldMeansRunning, LoopStays DEF DeleteSource
<1>2. /\ UNCHANGED <<move, token, record, landed, exc, pending, ended>>
      /\ sourceGone' = sourceGone \cup {i} \/ sourceGone' = sourceGone
      /\ phase' = [phase EXCEPT ![i] = "recording"]
  BY DEF DeleteSource
<1>3. Live' = Live
  BY <1>1, <1>2, ItemStays DEF IInv
<1>4. i \in landed /\ move
  BY DEF IInv, ItemsOK, ItemOK, SuccessesOK, SuccessOK, DeleteSource
<1>5. CASE sourceGone' = sourceGone
  BY <1>1, <1>2, <1>3, <1>5 DEF Promised, Ledger!vars, Ledger!work
<1>6. CASE sourceGone' = sourceGone \cup {i}
  <2>1. Ledger!DeleteSource(i)
    BY <1>1, <1>2, <1>3, <1>4, <1>6 DEF Ledger!DeleteSource
  <2> QED BY <1>1, <2>1 DEF Promised, Ledger!Next, Ledger!Items
<1> QED BY <1>2, <1>5, <1>6

\* The record is true, and a revocation has its reason.
LEMMA RecordIsTrue == ASSUME IInv, SuccessesOK, NEW i \in Items, Record(i) PROVE Promised
<1>1. i \in Live /\ ended = "running" /\ Open' = Open /\ Polled' = Polled
  BY HeldMeansRunning, LoopStays DEF Record
<1>2. /\ UNCHANGED <<move, token, landed, sourceGone, exc, ended>>
      /\ phase' = [phase EXCEPT ![i] = "over"] /\ record' = [record EXCEPT ![i] = Outcome(i)]
  BY DEF Record
<1>3. pending' \in {pending, TRUE} /\ (status[i] = "interrupt" => pending')
  BY DEF Record, Note
<1>4. Live' = Live \ {i}
  BY <1>2 DEF IInv, TypeOK
<1>5. Outcome(i) \in Ledger!Settled \cup {"failed", "cancelled"}
  BY DEF Outcome, Ledger!Settled
<1>6. Outcome(i) = "succeeded" => i \in landed /\ (move => i \in sourceGone)
  <2>1. Outcome(i) = "succeeded" => status[i] = "success"
    BY DEF Outcome
  <2>2. phase[i] = "recording"
    BY DEF Record
  <2> QED BY <2>1, <2>2 DEF SuccessesOK, SuccessOK
<1>7. Outcome(i) = "cancelled" => token = "immediate" \/ exc = "fatal" \/ pending'
  <2>1. Outcome(i) = "cancelled" => status[i] \in {"interrupt", "cancelled"} \/ initiated
    BY DEF Outcome, IsCancellation
  <2>2. pending => pending'
    BY <1>3
  <2>3. status[i] = "cancelled" \/ initiated => token = "immediate" \/ exc = "fatal" \/ pending
    BY DEF IInv, RevokedForReason
  <2> QED BY <1>3, <2>1, <2>2, <2>3
<1>8. Ledger!Record(i)
  BY <1>1, <1>2, <1>3, <1>4, <1>5, <1>6, <1>7 DEF Ledger!Record
<1> QED BY <1>1, <1>8 DEF Promised, Ledger!Next, Ledger!Items

\* The watcher is not seen: what it revokes shows in the records.
LEMMA WatcherIsUnseen == ASSUME IInv, Watcher PROVE Promised
<1>1. CASE WatchSweep
  <2>1. Live' = Live
    <3>1. CASE \E k \in snap : CancelFutures({k})
      BY <3>1, CancelHolds DEF IInv, TypeOK
    <3>2. CASE UNCHANGED futures
      BY <3>2
    <3> QED BY <1>1, <3>1, <3>2 DEF WatchSweep
  <2>2. Open' = Open /\ Polled' = Polled
    BY <1>1, LoopStays DEF WatchSweep
  <2> QED BY <1>1, <2>1, <2>2 DEF WatchSweep, Promised, Ledger!vars, Ledger!work
<1>2. CASE WatchPoll \/ WatchSnapshot
  BY <1>2, LoopStays, Unseen DEF WatchPoll, WatchSnapshot
<1> QED BY <1>1, <1>2 DEF Watcher

\* The token escalates while the operation runs.
LEMMA CancelEscalates ==
  ASSUME IInv, NEW mode \in {"graceful", "immediate"}, Cancel(mode)
  PROVE  Promised
<1>1. ended = "running" /\ Open' = Open /\ Polled' = Polled
  BY Running, LoopStays DEF Cancel
<1>2. token' = "immediate" \/ (token = "none" /\ token' = "graceful")
  BY DEF Cancel
<1>3. Ledger!Cancel
  BY <1>1, <1>2 DEF Cancel, Ledger!Cancel, Ledger!work
<1> QED BY <1>1, <1>3 DEF Promised, Ledger!Next

\* Every step of the run is a step of the ledger, or is not seen by it.
LEMMA LedgerStep == IInv /\ SuccessesOK /\ [Next]_vars => [Ledger!Next]_(Ledger!vars)
<1> SUFFICES ASSUME IInv, SuccessesOK, [Next]_vars PROVE Promised
  BY DEF Promised
<1>1. CASE Loop
  BY <1>1, CheckPolls, PullStops, RefusalStops, OwedIsRaised, SubmitTakes, BookkeepingIsUnseen,
     ExitHolds, UnwatchRaises, VerdictIsTrue DEF Loop
<1>2. CASE Interrupt \/ InterruptDrain
  BY <1>2, RefusalStops, DrainUnwinds
<1>3. CASE \E i \in Items : Work(i) \/ RaiseInTask(i)
  BY <1>3, WorkLands, TaskOwes, SourceFollows, RecordIsTrue DEF Work
<1>4. CASE Watcher
  BY <1>4, WatcherIsUnseen
<1>5. CASE \E mode \in {"graceful", "immediate"} : Cancel(mode)
  BY <1>5, CancelEscalates
<1>6. CASE UNCHANGED vars
  BY <1>6, LoopStays, Unseen DEF vars
<1> QED BY <1>1, <1>2, <1>3, <1>4, <1>5, <1>6 DEF Next, Finished

\* Every behaviour of a transfer run, with its engine, watcher, cancels and interrupts, is
\* a behaviour of TransferLedger.
THEOREM RunKeepsLedger == SafeSpec => LedgerSpec
<1>1. Init /\ [][Next]_vars => Ledger!Init /\ [][Ledger!Next]_(Ledger!vars)
  BY LedgerInit, LedgerStep, Inductive, SuccessInvariant, PTL DEF SafeSpec
<1> QED BY <1>1 DEF SafeSpec, LedgerSpec, Ledger!Spec
=============================================================================
