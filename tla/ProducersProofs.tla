--------------------------- MODULE ProducersProofs ---------------------------
(***************************************************************************)
(* The safety of Producers for every number of keys and every set of plans *)
(* that ProducersAssumption admits.                                        *)
(*                                                                         *)
(* The heart is OneHolder: of the names that share a file on a             *)
(* case-insensitive destination only one can have a body there, unless it  *)
(* failed.  The conflict check reads the in-flight set and then the file,  *)
(* and a download that lands writes its file before it leaves the set; so  *)
(* a twin is seen in one of the two looks (Claimed, LooksOK).  An entry    *)
(* paired with a file of its own name needs no check: the destination has  *)
(* no two names that differ by case alone, and its file stays (DestThere). *)
(* The exception is a name sync found, that of a file the run itself made: *)
(* one per file, later than all that were let through to it (FoundOK).     *)
(***************************************************************************)
EXTENDS Producers, SequenceTheorems, TLAPS

\* An entry the loop has taken from the listing.
Reached(key) == \E n \in 1 .. at : plan.order[n] = key

\* What the producers may have done with an entry.
Fates == {"none", "same", "notice", "error", "warned", "skipped", "dryrun",
          "submitted", "deleted", "undeleted"}

\* The gates still ahead are the end of the chain.
Rest(s) == \E n \in 1 .. Len(GateChain) + 1 : s = SubSeq(GateChain, n, Len(GateChain))

\* The types, with the gates ahead an end of the chain of the route.
Types ==
  /\ pc \in {"start", "poll", "pull", "orphan", "gate", "drain", "out"}
  /\ at \in 0 .. Len(plan.order) /\ looks \in 0 .. 3 /\ token \in BOOLEAN /\ Rest(gates)
  /\ rest \subseteq Keys /\ found \subseteq Keys /\ gated \subseteq Keys /\ judged \subseteq Keys /\ source \subseteq Keys
  /\ submitted \subseteq {plan.fold[key] : key \in gated}
  /\ exc \in {"none", "refused", "fatal", "cancelled", "batch"}
  /\ fate \in [Keys -> Fates]
  /\ flight \in [Keys -> {"none", "live", "settled", "handled", "over"}]
  /\ outcome \in [Keys -> {"none", "ok", "undeleted", "failed"}]
  /\ disk \in [Keys -> 0 .. NumKeys + 1]

\* Where the loop is, and the entry it holds.
LoopOK ==
  /\ exc # "none" => pc \in {"drain", "out"}
  /\ pc \in {"gate", "orphan"} =>
       /\ at \in 1 .. Len(plan.order) /\ fate[k] = "none"
       /\ pc = "gate" <=> Visible(k)
       /\ pc = "orphan" => k \in Listed
  /\ pc = "gate" /\ gates = GateChain => k \notin gated
  /\ pc = "gate" /\ gates # GateChain /\ CaseGate => k \in gated \/ k \in Listed
  /\ pc \in {"drain", "out"} /\ exc \in {"none", "batch"} =>
       at = Len(plan.order) \/ plan.form = "bucket"
  /\ rest \subseteq DestListing

\* What became of an entry, by where the loop is.
FatesOK ==
  \A key \in Keys :
    /\ ~Reached(key) => fate[key] = "none" /\ key \notin gated
    /\ Reached(key) /\ Visible(key) /\ fate[key] = "none" => pc = "gate" /\ key = k
    /\ fate[key] = "error" => exc = "fatal"
    /\ fate[key] \in {"deleted", "undeleted"} => ~Visible(key)
    /\ key \in gated => Visible(key)
         /\ fate[key] \in {"none", "warned", "skipped", "dryrun", "submitted"}

\* The life of an item.
ItemsOK ==
  \A key \in Keys :
    /\ flight[key] # "none" <=> fate[key] = "submitted"
    /\ flight[key] # "none" => Visible(key)
    /\ flight[key] \in {"none", "live"} <=> outcome[key] = "none"
    /\ flight[key] = "settled" => outcome[key] \in {"ok", "failed"}
    /\ plan.kind[key] # "absent" /\ key \notin source =>
         flight[key] \in {"handled", "over"} /\ outcome[key] = "ok"
    /\ pc = "out" => flight[key] \in {"none", "over"}

\* What the in-flight set stands for: downloads that were let through and have not ended.
SetOK ==
  \A x \in submitted : \E t \in gated : plan.fold[t] = x /\ flight[t] # "over"

\* A file is there until the delete lane removes it.
DestThere ==
  \A d \in plan.dest \cup found : fate[d] # "deleted" => disk[Slot(d)] # None

\* Only sync finds names; it has taken them, and the file had no other before.
FoundOK ==
  \A n \in found :
    /\ plan.sync /\ plan.insensitive /\ Reached(n) /\ n \notin gated
    /\ \A d \in plan.dest : plan.fold[d] # plan.fold[n]
    /\ \A other \in found : plan.fold[other] = plan.fold[n] => other = n

\* Only the case gate looks, and the set does not grow between its two looks.
LooksOK ==
  pc = "gate" /\ gates = GateChain /\ looks # 0 =>
    CaseGate /\ k \notin found /\ (looks = 2 => plan.fold[k] \notin submitted)

\* Names that differ by case share a file, and the mode refuses conflicts.
Tight == plan.insensitive /\ Refusing

\* Let through to its file: handed over, or on the way to it.
Through(key) ==
  \/ key \in gated \/ flight[key] # "none"
  \/ pc = "gate" /\ key = k /\ gates # GateChain

\* The item is over, and its bytes are not at its file.
Spent(key) == flight[key] = "over" /\ (outcome[key] = "failed" \/ disk[Slot(key)] # key)

\* Of the entries that share a file only one can have a body there, but for a name found.
OneHolder ==
  Tight => \A t, u \in Keys :
    t # u /\ plan.fold[t] = plan.fold[u] /\ Through(t) /\ Through(u) =>
      \/ Spent(t) \/ Spent(u)
      \/ t \in found \/ u \in found

\* An entry that was let through unpaired holds its name in the set, and found no file.
\* A name found came after it, and its body had ended.
Claimed ==
  Tight /\ CaseGate => \A t \in Keys :
    /\ t \in gated /\ flight[t] # "over" => plan.fold[t] \in submitted
    /\ t \in gated =>
         /\ \A d \in plan.dest : plan.fold[d] = plan.fold[t] => fate[d] = "deleted"
         /\ \A d \in found : plan.fold[d] = plan.fold[t] =>
              fate[d] = "deleted" \/ (ArrivesBefore(t, d) /\ flight[t] # "live")
    /\ flight[t] # "none" => t \in gated \/ t \in Listed

\* The inductive invariant.
IInv ==
  /\ plan \in Plans
  /\ Types /\ LoopOK /\ FatesOK /\ ItemsOK /\ SetOK /\ DestThere /\ FoundOK
  /\ LooksOK /\ OneHolder /\ Claimed /\ LandedStays
-----------------------------------------------------------------------------
(* The plan and the list of gates.                                         *)

\* What the assumption says of a plan.
LEMMA PlanShape ==
  ASSUME plan \in Plans
  PROVE  /\ plan.route \in Routes /\ plan.form \in {"tree", "object", "bucket"}
         /\ plan.mode \in {"ignore", "skip", "warn", "error"}
         /\ plan.sync \in BOOLEAN /\ plan.insensitive \in BOOLEAN /\ plan.dryrun \in BOOLEAN
         /\ plan.order \in Seq(Keys) /\ Len(plan.order) \in Nat
         /\ \A n \in 1 .. Len(plan.order) : plan.order[n] \in Keys
         /\ \A m, n \in 1 .. Len(plan.order) : plan.order[m] = plan.order[n] => m = n
         /\ plan.form # "tree" => Len(plan.order) <= 1
         /\ \A key \in Keys : plan.fold[key] \in Keys
         /\ \A key \in Keys :
              plan.kind[key] # "absent" => \E n \in 1 .. Len(plan.order) : plan.order[n] = key
         /\ plan.dest \subseteq Keys
         /\ plan.insensitive =>
              plan.route = "download"
                /\ \A d, e \in plan.dest : plan.fold[d] = plan.fold[e] => d = e
BY ProducersAssumption, LenProperties, ElementOfSeq

\* Only where case is ignored a file gets a name other than the key's.
LEMMA SpelledShape ==
  ASSUME plan \in Plans, NEW key \in Keys, plan.spelled[key] # key
  PROVE  plan.insensitive
BY ProducersAssumption

\* What only the plan decides does not change.
LEMMA PlanFixed ==
  ASSUME plan' = plan
  PROVE  /\ \A key : (Visible(key)' <=> Visible(key)) /\ Slot(key)' = Slot(key)
         /\ \A key : (key \in DestListing)' <=> key \in DestListing
         /\ DestListing' = DestListing
         /\ GateChain' = GateChain /\ (CaseGate' <=> CaseGate)
         /\ (Tight' <=> Tight) /\ (Refusing' <=> Refusing)
         /\ \A t : Twins(t)' = Twins(t)
         /\ \A t, u : ArrivesBefore(t, u)' <=> ArrivesBefore(t, u)
BY DEF Visible, Slot, DestListing, GateChain, CaseGate, Recursive, Tight, Refusing, Twins,
       ArrivesBefore

\* The entry in hand and those taken stay until the next is taken.
LEMMA EntryStays ==
  ASSUME UNCHANGED <<plan, at>>
  PROVE  k' = k /\ \A key : Reached(key)' <=> Reached(key)
BY DEF k, Reached

\* What was taken before the entry in hand arrived before it.
LEMMA TakenEarlier ==
  ASSUME plan \in Plans, at \in 1 .. Len(plan.order), NEW t, Reached(t), t # k
  PROVE  ArrivesBefore(t, k)
<1>1. PICK m \in 1 .. at : plan.order[m] = t
  BY DEF Reached
<1>2. Len(plan.order) \in Nat /\ m # at
  BY <1>1, PlanShape DEF k
<1>3. m \in 1 .. Len(plan.order) /\ m < at
  BY <1>1, <1>2
<1> QED
  BY <1>1, <1>3 DEF ArrivesBefore, k

\* Nothing that was taken arrives after the entry in hand.
LEMMA NoneLater ==
  ASSUME plan \in Plans, at \in 1 .. Len(plan.order), NEW t, Reached(t)
  PROVE  ~ArrivesBefore(k, t)
<1> SUFFICES ASSUME ArrivesBefore(k, t) PROVE FALSE
  OBVIOUS
<1>1. PICK m, n \in 1 .. Len(plan.order) : m < n /\ plan.order[m] = k /\ plan.order[n] = t
  BY DEF ArrivesBefore
<1>2. m = at
  BY <1>1, PlanShape DEF k
<1>3. PICK i \in 1 .. at : plan.order[i] = t
  BY DEF Reached
<1>4. i \in 1 .. Len(plan.order) /\ Len(plan.order) \in Nat
  BY <1>3, PlanShape
<1>5. i = n
  BY <1>1, <1>3, <1>4, PlanShape
<1> QED
  BY <1>1, <1>2, <1>3, <1>5

\* The entry in hand is a key, and was taken.
LEMMA EntryIsKey ==
  ASSUME plan \in Plans, at \in 1 .. Len(plan.order)
  PROVE  k \in Keys /\ Reached(k)
BY PlanShape DEF k, Reached

\* The gates there are.
Gates == {"case", "glacier", "parent", "overwrite", "oversize"}

\* The chain is never empty, and only that of a download begins with the case gate.
LEMMA GateChainShape ==
  ASSUME plan \in Plans
  PROVE  /\ GateChain \in Seq(Gates) /\ Len(GateChain) \in Nat \ {0}
         /\ plan.route = "download" => GateChain[1] = "case"
         /\ \A n \in 2 .. Len(GateChain) : GateChain[n] # "case"
         /\ plan.route # "download" => GateChain[1] # "case"
<1>1. plan.route \in {"upload", "download", "copy", "opens3", "s3open"}
  BY PlanShape DEF Routes
<1>2. CASE plan.route = "download"
  BY <1>2 DEF GateChain, Gates
<1>3. CASE plan.route \in {"copy", "s3open"}
  <2>1. GateChain = <<"glacier">>
    BY <1>3 DEF GateChain
  <2>2. <<"glacier">> \in Seq(Gates) /\ Len(<<"glacier">>) = 1 /\ <<"glacier">>[1] = "glacier"
    BY DEF Gates
  <2> QED
    BY <1>3, <2>1, <2>2
<1>4. CASE plan.route \in {"upload", "opens3"}
  <2>1. GateChain = <<"oversize">>
    BY <1>4 DEF GateChain
  <2>2. <<"oversize">> \in Seq(Gates) /\ Len(<<"oversize">>) = 1 /\ <<"oversize">>[1] = "oversize"
    BY DEF Gates
  <2> QED
    BY <1>4, <2>1, <2>2
<1> QED
  BY <1>1, <1>2, <1>3, <1>4

\* The whole chain, and the empty list, are ends of the chain.
LEMMA ChainAndNothing == ASSUME plan \in Plans PROVE Rest(GateChain) /\ Rest(<< >>)
<1>1. GateChain \in Seq(Gates) /\ Len(GateChain) \in Nat
  BY GateChainShape
<1>2. GateChain = SubSeq(GateChain, 1, Len(GateChain))
  BY <1>1, SubSeqFull
<1>3. << >> = SubSeq(GateChain, Len(GateChain) + 1, Len(GateChain))
  BY <1>1, SubSeqEmpty
<1> QED
  BY <1>1, <1>2, <1>3 DEF Rest

\* Behind a gate a shorter end of the chain is ahead; the case gate comes first.
LEMMA GatePassed ==
  ASSUME plan \in Plans, Rest(gates), gates # << >>
  PROVE  /\ Rest(Tail(gates)) /\ Tail(gates) # GateChain
         /\ Head(gates) = "case" <=> gates = GateChain /\ plan.route = "download"
<1>1. GateChain \in Seq(Gates) /\ Len(GateChain) \in Nat \ {0}
  BY GateChainShape
<1>2. PICK n \in 1 .. Len(GateChain) + 1 : gates = SubSeq(GateChain, n, Len(GateChain))
  BY DEF Rest
<1>3. n \in 1 .. Len(GateChain)
  <2>1. CASE n = Len(GateChain) + 1
    BY <1>1, <1>2, <2>1, SubSeqEmpty
  <2> QED
    BY <1>1, <2>1
<1>4. Len(GateChain) \in n .. Len(GateChain)
  BY <1>1, <1>3
<1>5. Head(gates) = GateChain[n] /\ Tail(gates) = SubSeq(GateChain, n + 1, Len(GateChain))
  BY <1>1, <1>2, <1>3, <1>4, HeadTailOfSubSeq
<1>6. n + 1 \in 1 .. Len(GateChain) + 1
  BY <1>1, <1>3
<1>7. Rest(Tail(gates))
  BY <1>5, <1>6 DEF Rest
<1>8. gates \in Seq(Gates) /\ Len(gates) = Len(GateChain) - n + 1
  <2>1. \A i \in n .. Len(GateChain) : GateChain[i] \in Gates
    BY <1>1, <1>3, ElementOfSeq
  <2> QED
    BY <1>1, <1>2, <1>3, <2>1, SubSeqProperties
<1>9. Len(Tail(gates)) = Len(gates) - 1
  BY <1>8, HeadTailProperties
<1>10. Tail(gates) # GateChain
  BY <1>1, <1>3, <1>8, <1>9
<1>11. n = 1 <=> gates = GateChain
  <2>1. n = 1 => gates = GateChain
    BY <1>1, <1>2, SubSeqFull
  <2>2. gates = GateChain => n = 1
    BY <1>1, <1>3, <1>8
  <2> QED
    BY <2>1, <2>2
<1>12. Head(gates) = "case" <=> n = 1 /\ plan.route = "download"
  <2>1. CASE n = 1
    BY <1>5, <2>1, GateChainShape
  <2>2. CASE n # 1
    <3>1. n \in 2 .. Len(GateChain)
      BY <1>1, <1>3, <2>2
    <3> QED
      BY <1>5, <2>2, <3>1, GateChainShape
  <2> QED
    BY <2>1, <2>2
<1> QED
  BY <1>7, <1>10, <1>11, <1>12

\* The invariant holds the types that the runs check.
LEMMA TypesFollow == ASSUME Types PROVE TypeOK
<1>1. \A key \in Keys : disk[key] \in {None, Old} \cup Keys
  <2> TAKE key \in Keys
  <2>1. disk[key] \in 0 .. NumKeys + 1 /\ NumKeys \in Nat
    BY ProducersAssumption DEF Types
  <2> QED
    BY <2>1 DEF None, Old, Keys
<1> QED
  BY <1>1 DEF TypeOK, Types, Rest, Fates
-----------------------------------------------------------------------------
(* The loop.                                                               *)

\* A step of the loop between two entries.
LEMMA LoopMoves ==
  ASSUME IInv, pc \notin {"gate", "orphan"}, pc' \in {"poll", "pull", "drain", "out"},
         UNCHANGED <<plan, at, gates, looks, found, submitted, gated, judged, fate, items, token>>,
         rest' \subseteq DestListing,
         exc' \in {"none", "refused", "fatal", "cancelled", "batch"},
         exc' # "none" => pc' \in {"drain", "out"}, exc = "fatal" => exc' = "fatal",
         pc' \in {"drain", "out"} /\ exc' \in {"none", "batch"} =>
           at = Len(plan.order) \/ plan.form = "bucket",
         pc' = "out" => \A key \in Keys : flight[key] \in {"none", "over"}
  PROVE  IInv'
<1>1. UNCHANGED <<flight, outcome, source, disk>>
  BY DEF items
<1>2. Types'
  <2>1. rest' \subseteq Keys
    BY PlanShape DEF IInv, DestListing
  <2>2. Rest(gates)'
    BY PlanFixed DEF IInv, Types, Rest
  <2> QED
    BY <1>1, <2>1, <2>2 DEF IInv, Types
<1>3. LoopOK'
  BY PlanFixed DEF IInv, LoopOK, Listed
<1>4. FatesOK'
  BY PlanFixed, EntryStays DEF IInv, FatesOK
<1>5. ItemsOK' /\ SetOK' /\ DestThere' /\ FoundOK' /\ LooksOK'
  BY <1>1, PlanFixed, EntryStays DEF IInv, ItemsOK, SetOK, DestThere, FoundOK, LooksOK
<1>6. OneHolder' /\ Claimed' /\ LandedStays'
  BY <1>1, PlanFixed DEF IInv, OneHolder, Through, Spent, Claimed, Listed, LandedStays, Landed,
         TwinTook
<1> QED
  BY <1>2, <1>3, <1>4, <1>5, <1>6 DEF IInv

\* A run starts, or is refused before anything is listed.
LEMMA StartKeeps == ASSUME IInv, Start PROVE IInv'
<1>1. rest' \subseteq DestListing
  BY DEF Start
<1>2. pc = "start" /\ exc = "none"
  BY DEF Start, IInv, LoopOK
<1> QED
  BY <1>1, <1>2, LoopMoves DEF Start, Goto, Raise

\* The token is read before each entry.
LEMMA PollKeeps == ASSUME IInv, Poll PROVE IInv'
<1>1. pc = "poll" /\ exc = "none" /\ rest' = rest /\ rest \subseteq DestListing
  BY DEF Poll, IInv, LoopOK, gate
<1> QED
  BY <1>1, LoopMoves DEF Poll, Goto, Raise, gate

\* The drain ends once every item is over, and a failed item fails the run.
LEMMA DrainKeeps == ASSUME IInv, Drain PROVE IInv'
<1>1. pc = "drain" /\ pc' = "out" /\ rest' = rest /\ rest \subseteq DestListing
  BY DEF Drain, IInv, LoopOK, gate
<1>2. exc' = (IF exc # "none" THEN exc ELSE exc') /\ exc' \in {exc, "cancelled", "batch", "none"}
  BY DEF Drain
<1>3. exc \in {"none", "refused", "fatal", "cancelled", "batch"}
  BY DEF IInv, Types
<1>4. exc' \in {"none", "batch"} => at = Len(plan.order) \/ plan.form = "bucket"
  BY <1>1, <1>2, <1>3 DEF IInv, LoopOK
<1> QED
  BY <1>1, <1>2, <1>3, <1>4, LoopMoves DEF Drain, gate

\* The token is cancelled.
LEMMA CancelKeeps == ASSUME IInv, Cancel PROVE IInv'
<1>1. /\ UNCHANGED <<plan, pc, at, gates, looks, rest, found, submitted, gated, judged, fate>>
      /\ UNCHANGED <<flight, outcome, source, disk, exc>> /\ token' \in BOOLEAN
  BY DEF Cancel, loop, gate, items
<1>2. Types'
  BY <1>1, PlanFixed DEF IInv, Types, Rest
<1>3. LoopOK' /\ FatesOK'
  BY <1>1, PlanFixed, EntryStays DEF IInv, LoopOK, FatesOK, Listed
<1>4. ItemsOK' /\ SetOK' /\ DestThere' /\ FoundOK' /\ LooksOK'
  BY <1>1, PlanFixed, EntryStays DEF IInv, ItemsOK, SetOK, DestThere, FoundOK, LooksOK
<1>5. OneHolder' /\ Claimed' /\ LandedStays'
  BY <1>1, PlanFixed, EntryStays DEF IInv, OneHolder, Through, Spent, Claimed, Listed,
         LandedStays, Landed, TwinTook
<1> QED
  BY <1>1, <1>2, <1>3, <1>4, <1>5 DEF IInv

\* The next entry is a new one.
LEMMA EntryTaken ==
  ASSUME plan \in Plans, plan' = plan, at \in 0 .. Len(plan.order), at < Len(plan.order),
         at' = at + 1
  PROVE  /\ k' = plan.order[at + 1] /\ k' \in Keys /\ ~Reached(k') /\ at' \in 1 .. Len(plan.order)
         /\ \A key : Reached(key)' <=> Reached(key) \/ key = k'
         /\ \A key : Reached(key) => ArrivesBefore(key, k')
<1>1. Len(plan.order) \in Nat /\ at \in Nat /\ at + 1 \in 1 .. Len(plan.order)
  BY PlanShape
<1>2. k' = plan.order[at + 1]
  BY DEF k
<1>3. ~Reached(k')
  BY <1>1, <1>2, PlanShape DEF Reached
<1>4. \A key : Reached(key)' <=> \E n \in 1 .. at + 1 : plan.order[n] = key
  BY DEF Reached
<1>5. \A key : Reached(key)' <=> Reached(key) \/ key = k'
  BY <1>1, <1>2, <1>4 DEF Reached
<1>6. \A key : Reached(key) => ArrivesBefore(key, k')
  BY <1>1, <1>2 DEF Reached, ArrivesBefore
<1> QED
  BY <1>1, <1>2, <1>3, <1>5, <1>6, PlanShape

\* When the walk finds a name, whatever was let through to its file has ended its body.
LEMMA FoundIsQuiet ==
  ASSUME IInv, NEW n \in Keys, WalkFinds(n)
  PROVE  /\ plan.sync /\ plan.insensitive /\ disk[Slot(n)] # None
         /\ \A other \in plan.dest \cup found : plan.fold[other] # plan.fold[n]
         /\ Tight => \A t \in gated : plan.fold[t] = plan.fold[n] => flight[t] # "live"
<1>1. PICK w \in Twins(n) : plan.spelled[w] = n /\ outcome[w] \in {"ok", "undeleted"}
  BY DEF WalkFinds
<1>2. w \in Keys /\ w # n /\ plan.fold[w] = plan.fold[n]
  BY DEF Twins
<1>3. plan.sync /\ plan.insensitive /\ disk[Slot(n)] # None
  BY <1>1, <1>2, SpelledShape DEF WalkFinds, Exists, IInv
<1>4. \A other \in plan.dest \cup found : plan.fold[other] # plan.fold[n]
  BY DEF WalkFinds
<1>5. flight[w] \notin {"none", "live"}
  BY <1>1, <1>2 DEF IInv, ItemsOK
<1>6. ASSUME Tight, NEW t \in gated, plan.fold[t] = plan.fold[n], flight[t] = "live"
      PROVE  FALSE
  <2>1. t \in Keys /\ t # w /\ Through(t) /\ Through(w)
    BY <1>5, <1>6 DEF Through, IInv, Types
  <2>2. w \notin found /\ t \notin found
    BY <1>2, <1>4, <1>6
  <2>3. Spent(w)
    BY <1>2, <1>6, <2>1, <2>2 DEF IInv, OneHolder, Spent
  <2>4. TwinTook(w)
    BY <1>1, <1>2, <2>3 DEF Spent, IInv, LandedStays, Landed
  <2> QED
    BY <1>2, <1>4, <1>6, <2>4 DEF TwinTook, Twins, Tight
<1> QED
  BY <1>3, <1>4, <1>6

\* The next entry is taken: it goes to the gates or to the delete lane, or has a fate.
LEMMA PullKeeps == ASSUME IInv, Pull PROVE IInv'
<1>1. /\ pc = "pull" /\ exc = "none"
      /\ UNCHANGED <<plan, rest, submitted, gated, judged, items, token>>
      /\ UNCHANGED <<flight, outcome, source, disk>>
  BY DEF Pull, items, IInv, LoopOK
<1>2. CASE UNCHANGED <<at, gates, looks, found, fate>> /\ pc' = "drain"
           /\ (exc' = "fatal" \/ (exc' = "none"
              /\ (at = Len(plan.order) \/ plan.form = "bucket")))
  BY <1>1, <1>2, LoopMoves DEF IInv, LoopOK
<1>3. CASE at < Len(plan.order) /\ at' = at + 1
  <2>1. /\ k' = plan.order[at + 1] /\ k' \in Keys /\ ~Reached(k') /\ at' \in 1 .. Len(plan.order)
        /\ \A key : Reached(key)' <=> Reached(key) \/ key = k'
        /\ \A key : Reached(key) => ArrivesBefore(key, k')
    BY <1>1, <1>3, EntryTaken DEF IInv, Types
  <2>2. fate[k'] = "none" /\ k' \notin gated
    BY <2>1 DEF IInv, FatesOK
  <2>3. \/ /\ Visible(k') /\ pc' = "gate" /\ exc' = exc
           /\ gates' = GateChain /\ looks' = 0 /\ fate' = fate
        \/ /\ Visible(k') /\ pc' = "poll" /\ exc' = exc
           /\ fate' = [fate EXCEPT ![k'] = "same"] /\ UNCHANGED <<gates, looks>>
        \/ /\ ~Visible(k') /\ UNCHANGED <<gates, looks, fate>>
           /\ \/ pc' = "poll" /\ exc' = exc
              \/ pc' = "drain" /\ exc' = "fatal"
              \/ pc' = "orphan" /\ exc' = exc /\ k' \in DestListing \cup found'
    BY <1>3, <2>1 DEF Pull, Goto, Absent, Raise
  <2>4. /\ fate' \in [Keys -> Fates] /\ \A key \in Keys \ {k'} : fate'[key] = fate[key]
        /\ fate'[k'] \in {"none", "same"}
        /\ fate'[k'] = "none" => fate' = fate
    BY <2>1, <2>2, <2>3 DEF IInv, Types, Fates
  <2>f. \/ found' = found
        \/ /\ found' = found \cup {k'} /\ plan.sync /\ plan.insensitive /\ disk[Slot(k')] # None
           /\ \A other \in plan.dest \cup found : plan.fold[other] # plan.fold[k']
           /\ Tight => \A t \in gated : plan.fold[t] = plan.fold[k'] => flight[t] # "live"
    <3>1. found' = found \/ (WalkFinds(k') /\ found' = found \cup {k'})
      BY <1>3, <2>1 DEF Pull
    <3> HIDE <2>1
    <3>2. ASSUME WalkFinds(k'), k' \in Keys
          PROVE  /\ plan.sync /\ plan.insensitive /\ disk[Slot(k')] # None
                 /\ \A other \in plan.dest \cup found : plan.fold[other] # plan.fold[k']
                 /\ Tight => \A t \in gated : plan.fold[t] = plan.fold[k'] => flight[t] # "live"
      <4> DEFINE n == k'
      <4>1. n \in Keys /\ WalkFinds(n)
        BY <3>2
      <4> HIDE DEF n
      <4>2. /\ plan.sync /\ plan.insensitive /\ disk[Slot(n)] # None
            /\ \A other \in plan.dest \cup found : plan.fold[other] # plan.fold[n]
            /\ Tight => \A t \in gated : plan.fold[t] = plan.fold[n] => flight[t] # "live"
        BY <4>1, FoundIsQuiet
      <4> QED
        BY <4>2 DEF n
    <3> QED
      BY <2>1, <3>1, <3>2
  <2>g. found \subseteq found' /\ found' \subseteq found \cup {k'}
    BY <2>f
  <2>5. Types'
    <3>1. Rest(gates)'
      BY <1>1, <2>3, PlanFixed, ChainAndNothing DEF IInv, Types, Rest
    <3> QED
      BY <1>1, <2>1, <2>3, <2>4, <2>g, <3>1 DEF IInv, Types
  <2>6. LoopOK'
    BY <1>1, <2>1, <2>2, <2>3, PlanFixed DEF IInv, LoopOK, Listed
  <2>7. FatesOK'
    BY <1>1, <2>1, <2>2, <2>3, <2>4, PlanFixed DEF IInv, FatesOK
  <2>8. ItemsOK'
    BY <1>1, <2>1, <2>2, <2>3, <2>4, PlanFixed DEF IInv, ItemsOK
  <2>9. DestThere'
    BY <1>1, <2>1, <2>2, <2>4, <2>f, PlanFixed, PlanShape DEF IInv, Types, DestThere
  <2>10. SetOK' /\ LooksOK' /\ FoundOK'
    <3>1. SetOK' /\ LooksOK'
      BY <1>1, <2>1, <2>3, PlanFixed DEF IInv, SetOK, LooksOK
    <3>2. FoundOK'
      BY <1>1, <2>1, <2>2, <2>f DEF IInv, FoundOK
    <3> QED
      BY <3>1, <3>2
  <2>11. OneHolder'
    BY <1>1, <2>1, <2>3, <2>g, PlanFixed DEF IInv, OneHolder, Through, Spent
  <2>12. Claimed'
    <3> SUFFICES ASSUME Tight, CaseGate, NEW t \in Keys
                 PROVE  /\ t \in gated /\ flight[t] # "over" => plan.fold[t] \in submitted
                        /\ t \in gated =>
                             /\ \A d \in plan.dest :
                                  plan.fold[d] = plan.fold[t] => fate'[d] = "deleted"
                             /\ \A d \in found' : plan.fold[d] = plan.fold[t] =>
                                  \/ fate'[d] = "deleted"
                                  \/ ArrivesBefore(t, d) /\ flight[t] # "live"
                        /\ flight[t] # "none" => t \in gated \/ t \in Listed'
      BY <1>1, PlanFixed DEF Claimed
    <3>1. t \in gated => Reached(t)
      BY DEF IInv, FatesOK
    <3>2. \A d \in Keys : fate[d] = "deleted" => fate'[d] = "deleted"
      BY <2>2, <2>4
    <3>3. found \subseteq Keys /\ plan.dest \subseteq Keys
      BY PlanShape DEF IInv, Types
    <3> QED
      BY <1>1, <2>1, <2>f, <2>g, <3>1, <3>2, <3>3, PlanFixed DEF IInv, Claimed, Listed
  <2>13. LandedStays'
    <3>1. \A d \in Keys : fate[d] = "deleted" => fate'[d] = "deleted"
      BY <2>2, <2>4
    <3>2. \A key : Twins(key) \subseteq Keys /\ Twins(key)' = Twins(key)
      BY <1>1, PlanFixed DEF Twins
    <3>3. \A key : TwinTook(key) => TwinTook(key)'
      <4> SUFFICES ASSUME NEW key, TwinTook(key) PROVE TwinTook(key)'
        OBVIOUS
      <4>1. PICK t \in Twins(key) :
              /\ fate[t] = "deleted" \/ outcome[t] \in {"ok", "undeleted"}
              /\ fate[t] = "deleted" \/ Refusing => ArrivesBefore(key, t)
              /\ Refusing => t \in found
        BY DEF TwinTook
      <4>2. t \in Twins(key)' /\ t \in Keys
        BY <3>2, <4>1
      <4>3. fate'[t] = "deleted" <=> fate[t] = "deleted"
        BY <2>2, <2>4, <4>2
      <4> QED
        BY <1>1, <2>g, <4>1, <4>2, <4>3, PlanFixed DEF TwinTook
    <3> QED
      BY <1>1, <3>3, PlanFixed DEF IInv, LandedStays, Landed
  <2> QED
    BY <1>1, <2>5, <2>6, <2>7, <2>8, <2>9, <2>10, <2>11, <2>12, <2>13 DEF IInv
<1> QED
  BY <1>1, <1>2, <1>3 DEF Pull, Goto, Raise

\* The delete lane removes a file that no source entry shares.
LEMMA OrphanKeeps == ASSUME IInv, Orphan PROVE IInv'
<1>1. /\ pc = "orphan" /\ pc' = "poll" /\ exc' = exc
      /\ UNCHANGED <<plan, at, gates, looks, rest, found, submitted, gated, judged, token>>
      /\ UNCHANGED <<flight, outcome, source>>
  BY DEF Orphan, Goto, gate
<1>2. at \in 1 .. Len(plan.order) /\ fate[k] = "none" /\ ~Visible(k) /\ k \in Listed
        /\ exc = "none"
  BY <1>1 DEF IInv, LoopOK
<1>3. k \in Keys /\ Reached(k) /\ k' = k /\ \A key : Reached(key)' <=> Reached(key)
  BY <1>1, <1>2, EntryIsKey, EntryStays DEF IInv
<1>4. \E why \in {"deleted", "undeleted", "dryrun"} :
        /\ fate' = [fate EXCEPT ![k] = why]
        /\ disk' = disk \/ (why = "deleted" /\ disk' = [disk EXCEPT ![Slot(k)] = None])
  BY DEF Orphan
<1>5. /\ fate' \in [Keys -> Fates] /\ \A key \in Keys \ {k} : fate'[key] = fate[key]
      /\ fate'[k] \in {"deleted", "undeleted", "dryrun"}
  BY <1>3, <1>4 DEF IInv, Types, Fates
<1>6. Slot(k) \in Keys
  BY <1>3, PlanShape DEF Slot, IInv
<1>7. /\ disk' \in [Keys -> 0 .. NumKeys + 1]
      /\ \A s \in Keys : disk'[s] = disk[s] \/ (s = Slot(k) /\ fate'[k] = "deleted")
  BY <1>3, <1>4, <1>6, ProducersAssumption DEF IInv, Types, None
<1>8. Types'
  BY <1>1, <1>5, <1>7, PlanFixed DEF IInv, Types, Rest
<1>9. LoopOK'
  BY <1>1, <1>2, PlanFixed DEF IInv, LoopOK, Listed
<1>10. FatesOK'
  BY <1>1, <1>2, <1>3, <1>5, PlanFixed DEF IInv, FatesOK
<1>11. ItemsOK'
  BY <1>1, <1>2, <1>3, <1>5, PlanFixed DEF IInv, ItemsOK
<1>12. DestThere'
  <2> SUFFICES ASSUME NEW d \in plan.dest \cup found, fate'[d] # "deleted"
               PROVE  disk'[Slot(d)] # None
    BY <1>1, PlanFixed DEF DestThere
  <2>1. d \in Keys /\ Slot(d) \in Keys /\ k \in plan.dest \cup found
    BY <1>2, PlanShape DEF IInv, Types, Slot, DestListing, Listed
  <2>2. disk[Slot(d)] # None
    BY <1>2, <1>5, <2>1 DEF IInv, DestThere
  <2>3. ASSUME Slot(d) = Slot(k), fate'[k] = "deleted" PROVE FALSE
    <3>1. d # k
      BY <2>3
    <3>2. plan.insensitive /\ plan.fold[d] = plan.fold[k]
      BY <2>3, <3>1 DEF Slot
    <3> QED
      BY <2>1, <3>1, <3>2, PlanShape DEF IInv, FoundOK
  <2> QED
    BY <1>7, <2>1, <2>2, <2>3
<1>13. SetOK' /\ LooksOK' /\ FoundOK'
  BY <1>1, <1>3 DEF IInv, SetOK, LooksOK, FoundOK
<1>14. OneHolder'
  <2>1. \A t \in Keys : Spent(t) => Spent(t)'
    <3> SUFFICES ASSUME NEW t \in Keys, Spent(t) PROVE Spent(t)'
      OBVIOUS
    <3>1. CASE outcome[t] = "failed"
      BY <1>1, <3>1 DEF Spent
    <3>2. CASE disk[Slot(t)] # t
      <4>1. Slot(t) \in Keys /\ t # None
        BY PlanShape, ProducersAssumption DEF IInv, Slot, Keys, None
      <4>2. disk'[Slot(t)] # t
        BY <1>3, <1>4, <1>6, <3>2, <4>1 DEF IInv, Types
      <4> QED
        BY <1>1, <4>2, PlanFixed DEF Spent
    <3> QED
      BY <3>1, <3>2 DEF Spent
  <2> QED
    BY <1>1, <2>1, PlanFixed DEF IInv, OneHolder, Through
<1>15. Claimed'
  <2>1. \A d \in Keys : fate[d] = "deleted" => fate'[d] = "deleted"
    BY <1>2, <1>5
  <2>2. found \subseteq Keys /\ plan.dest \subseteq Keys
    BY PlanShape DEF IInv, Types
  <2> QED
    BY <1>1, <2>1, <2>2, PlanFixed DEF IInv, Claimed, Listed
<1>16. LandedStays'
  <2>t. \A key : TwinTook(key) => TwinTook(key)'
    <3> SUFFICES ASSUME NEW key, TwinTook(key) PROVE TwinTook(key)'
      OBVIOUS
    <3>1. PICK t \in Twins(key) :
            /\ fate[t] = "deleted" \/ outcome[t] \in {"ok", "undeleted"}
            /\ fate[t] = "deleted" \/ Refusing => ArrivesBefore(key, t)
            /\ Refusing => t \in found
      BY DEF TwinTook
    <3>2. t \in Twins(key)' /\ t \in Keys
      BY <1>1, <3>1, PlanFixed DEF Twins
    <3>3. fate'[t] = "deleted" <=> fate[t] = "deleted"
      <4>1. CASE t = k
        BY <1>2, <3>1, <3>2, <4>1 DEF IInv, ItemsOK
      <4>2. CASE t # k
        BY <1>5, <3>2, <4>2
      <4> QED
        BY <4>1, <4>2
    <3> QED
      BY <1>1, <3>1, <3>2, <3>3, PlanFixed DEF TwinTook
  <2> SUFFICES ASSUME NEW key \in Keys, Landed(key), disk'[Slot(key)] # key
               PROVE  plan.insensitive /\ TwinTook(key)'
    BY <1>1, PlanFixed DEF LandedStays, Landed
  <2>1. CASE disk[Slot(key)] # key
    BY <2>1, <2>t DEF IInv, LandedStays
  <2>2. CASE disk[Slot(key)] = key
    <3>1. flight[key] # "none" /\ outcome[key] # "failed" /\ Visible(key) /\ Reached(key)
      BY DEF IInv, ItemsOK, FatesOK, Landed
    <3>2. Slot(key) \in Keys /\ key # k
      BY <1>2, <3>1, PlanShape DEF Slot, IInv
    <3>3. Slot(key) = Slot(k) /\ fate'[k] = "deleted"
      BY <1>7, <2>2, <3>2
    <3>4. plan.insensitive /\ plan.fold[key] = plan.fold[k]
      BY <3>2, <3>3 DEF Slot
    <3>5. k \in Twins(key) /\ ArrivesBefore(key, k)
      BY <1>2, <1>3, <3>1, <3>2, <3>4, TakenEarlier DEF Twins, IInv
    <3>6. ASSUME Refusing PROVE k \in found
      <4>1. Tight /\ plan.route = "download"
        BY <3>4, <3>6, PlanShape DEF Tight, IInv
      <4>2. CaseGate
        <5> SUFFICES ASSUME ~CaseGate PROVE FALSE
          OBVIOUS
        <5>1. Len(plan.order) <= 1
          BY <4>1, PlanShape DEF IInv, CaseGate, Recursive, Tight, Refusing
        <5> QED
          BY <1>2, <1>3, <3>1, <3>2, <5>1, PlanShape DEF Reached, IInv
      <4> SUFFICES ASSUME k \notin found PROVE FALSE
        OBVIOUS
      <4>3. k \in plan.dest /\ fate[k] # "deleted"
        BY <1>2 DEF Listed, DestListing
      <4>4. key \notin gated
        BY <3>4, <4>1, <4>2, <4>3 DEF IInv, Claimed
      <4>5. key \in plan.dest \/ key \in found
        BY <3>1, <4>1, <4>2, <4>4 DEF IInv, Claimed, Listed, DestListing
      <4> QED
        BY <3>2, <3>4, <4>3, <4>5, PlanShape DEF IInv, FoundOK
    <3>7. TwinTook(key)'
      BY <1>1, <3>3, <3>5, <3>6, PlanFixed DEF TwinTook
    <3> QED
      BY <3>4, <3>7
  <2> QED
    BY <2>1, <2>2
<1> QED
  BY <1>1, <1>8, <1>9, <1>10, <1>11, <1>12, <1>13, <1>14, <1>15, <1>16 DEF IInv

-----------------------------------------------------------------------------
(* The gates.                                                              *)

\* The entry at a gate is one of those taken, and has no item.
LEMMA AtGate ==
  ASSUME IInv, pc = "gate"
  PROVE  /\ at \in 1 .. Len(plan.order) /\ k \in Keys /\ Reached(k) /\ Visible(k)
         /\ fate[k] = "none" /\ flight[k] = "none" /\ outcome[k] = "none" /\ exc = "none"
<1>1. at \in 1 .. Len(plan.order) /\ fate[k] = "none" /\ Visible(k) /\ exc = "none"
  BY DEF IInv, LoopOK
<1>2. k \in Keys /\ Reached(k)
  BY <1>1, EntryIsKey DEF IInv
<1>3. flight[k] = "none" /\ outcome[k] = "none"
  BY <1>1, <1>2 DEF IInv, ItemsOK
<1> QED
  BY <1>1, <1>2, <1>3

\* A gate consumes the entry.
LEMMA ConsumeKeeps ==
  ASSUME IInv, pc = "gate",
         UNCHANGED <<plan, at, rest, found, submitted, gated, items, token>>,
         gates' = << >>, looks' \in 0 .. 3, judged' \subseteq Keys,
         NEW why \in {"notice", "error", "warned", "skipped"},
         fate' = [fate EXCEPT ![k] = why],
         why \in {"notice", "error"} => k \notin gated,
         IF why = "error" THEN pc' = "drain" /\ exc' = "fatal" ELSE pc' = "poll" /\ exc' = exc
  PROVE  IInv'
<1>1. UNCHANGED <<flight, outcome, source, disk>>
  BY DEF items
<1>2. /\ at \in 1 .. Len(plan.order) /\ k \in Keys /\ Reached(k) /\ Visible(k)
      /\ fate[k] = "none" /\ flight[k] = "none" /\ exc = "none"
  BY AtGate
<1>3. k' = k /\ \A key : Reached(key)' <=> Reached(key)
  BY EntryStays
<1>4. fate' \in [Keys -> Fates] /\ fate'[k] = why
        /\ \A key \in Keys \ {k} : fate'[key] = fate[key]
  BY <1>2 DEF IInv, Types, Fates
<1>5. Types'
  <2>1. Rest(gates)'
    BY PlanFixed, ChainAndNothing DEF IInv, Rest
  <2> QED
    BY <1>1, <1>4, <2>1 DEF IInv, Types
<1>6. LoopOK'
  BY PlanFixed DEF IInv, LoopOK, Listed
<1>7. FatesOK'
  BY <1>2, <1>3, <1>4, PlanFixed DEF IInv, FatesOK
<1>8. ItemsOK'
  BY <1>1, <1>2, <1>4, PlanFixed DEF IInv, ItemsOK
<1>9. SetOK' /\ LooksOK' /\ FoundOK'
  BY <1>1, <1>3 DEF IInv, SetOK, LooksOK, FoundOK
<1>10. /\ \A d \in Keys : fate'[d] = "deleted" <=> fate[d] = "deleted"
       /\ found \subseteq Keys /\ plan.dest \subseteq Keys
  BY <1>2, <1>4, PlanShape DEF IInv, Types
<1>11. DestThere' /\ Claimed'
  BY <1>1, <1>10, PlanFixed DEF IInv, DestThere, Claimed, Listed
<1>12. OneHolder' /\ LandedStays'
  <2>1. \A key : TwinTook(key) => TwinTook(key)'
    BY <1>1, <1>10, PlanFixed DEF TwinTook, Twins
  <2> QED
    BY <1>1, <2>1, PlanFixed DEF IInv, OneHolder, Through, Spent, LandedStays, Landed
<1> QED
  BY <1>5, <1>6, <1>7, <1>8, <1>9, <1>11, <1>12 DEF IInv

\* The check between its looks.
LEMMA LookOnKeeps ==
  ASSUME IInv, pc = "gate", UNCHANGED <<plan, pc, at, gates, found, submitted, gated, judged>>,
         UNCHANGED <<fate, items, token, exc>>,
         rest' \subseteq rest, looks' \in 0 .. 3,
         CaseGate, k \notin found, looks' = 2 => plan.fold[k] \notin submitted
  PROVE  IInv'
<1>1. UNCHANGED <<flight, outcome, source,
                  disk>> /\ k' = k /\ \A key : Reached(key)' <=> Reached(key)
  BY EntryStays DEF items
<1>2. Types' /\ LoopOK' /\ FatesOK'
  BY <1>1, PlanFixed DEF IInv, Types, Rest, LoopOK, FatesOK, Listed
<1>3. ItemsOK' /\ SetOK' /\ DestThere' /\ FoundOK' /\ LooksOK'
  BY <1>1, PlanFixed DEF IInv, ItemsOK, SetOK, DestThere, FoundOK, LooksOK
<1>4. OneHolder' /\ Claimed' /\ LandedStays'
  BY <1>1, PlanFixed DEF IInv, OneHolder, Through, Spent, Claimed, Listed, LandedStays, Landed,
         TwinTook
<1> QED
  BY <1>2, <1>3, <1>4 DEF IInv

\* No other entry has a body at the file of this one, or can get one.
FileIsFree ==
  Tight /\ k \notin found =>
    \A t \in Keys \ {k} :
      plan.fold[t] = plan.fold[k] /\ Through(t) => Spent(t) \/ t \in found

\* A gate lets the entry pass, and the case gate may put it into the set.
LEMMA PassKeeps ==
  ASSUME IInv, pc = "gate", gates # << >>,
         UNCHANGED <<plan, pc, at, found, fate, items, token, exc>>,
         gates' = Tail(gates), rest' \subseteq rest, looks' \in 0 .. 3, judged' \subseteq Keys,
         \/ UNCHANGED <<submitted, gated>>
         \/ /\ submitted' = submitted \cup {plan.fold[k]} /\ gated' = gated \cup {k}
            /\ k \notin found
            /\ Tight /\ CaseGate => \A d \in plan.dest \cup found :
                                    plan.fold[d] = plan.fold[k] => fate[d] = "deleted",
         gates = GateChain /\ CaseGate => k \in gated' \/ k \in Listed,
         gates = GateChain => FileIsFree
  PROVE  IInv'
<1>1. UNCHANGED <<flight, outcome, source,
                  disk>> /\ k' = k /\ \A key : Reached(key)' <=> Reached(key)
  BY EntryStays DEF items
<1>2. /\ at \in 1 .. Len(plan.order) /\ k \in Keys /\ Reached(k) /\ Visible(k)
      /\ fate[k] = "none" /\ flight[k] = "none" /\ exc = "none"
  BY AtGate
<1>3. gates' # GateChain /\ Rest(gates')
  BY GatePassed DEF IInv, Types
<1>4. gated \subseteq gated' /\ gated' \subseteq gated \cup {k} /\ submitted \subseteq submitted'
  OBVIOUS
<1>5. Types'
  <2>1. Rest(gates)'
    BY <1>3, PlanFixed DEF Rest
  <2>2. submitted' \subseteq {plan.fold[key] : key \in gated'} /\ gated' \subseteq Keys
    BY <1>2 DEF IInv, Types
  <2> QED
    BY <1>1, <2>1, <2>2 DEF IInv, Types
<1>6. LoopOK'
  BY <1>1, <1>2, <1>3, <1>4, PlanFixed DEF IInv, LoopOK, Listed
<1>7. FatesOK'
  BY <1>1, <1>2, <1>4, PlanFixed DEF IInv, FatesOK
<1>8. ItemsOK' /\ DestThere' /\ FoundOK' /\ LandedStays'
  BY <1>1, PlanFixed DEF IInv, ItemsOK, DestThere, FoundOK, LandedStays, Landed, TwinTook
<1>9. SetOK'
  BY <1>1, <1>2 DEF IInv, SetOK
<1>10. LooksOK'
  BY <1>3, PlanFixed DEF LooksOK
<1>11. OneHolder'
  <2>1. \A t : Through(t)' => Through(t) \/ (t = k /\ gates = GateChain)
    <3>1. gates # GateChain => Through(k)
      BY DEF Through
    <3> QED
      BY <1>1, <1>4, <3>1 DEF Through
  <2>2. \A t : Spent(t)' <=> Spent(t)
    BY <1>1, PlanFixed DEF Spent
  <2>3. CASE gates # GateChain
    BY <2>1, <2>2, <2>3, PlanFixed DEF IInv, OneHolder
  <2>4. CASE gates = GateChain
    BY <1>2, <2>1, <2>2, <2>4, PlanFixed DEF IInv, OneHolder, FileIsFree
  <2> QED
    BY <2>3, <2>4
<1>12. Claimed'
  BY <1>1, <1>2, <1>4, PlanFixed DEF IInv, Claimed, Listed
<1> QED
  BY <1>5, <1>6, <1>7, <1>8, <1>9, <1>10, <1>11, <1>12 DEF IInv

\* A gate after the case gate, or of a route without one.
LEMMA LaterGateKeeps ==
  ASSUME IInv, pc = "gate", gates # << >>, Head(gates) # "case",
         UNCHANGED <<plan, at, looks, gate, items, token>>,
         \/ Pass
         \/ \E why \in {"skipped", "warned"} : Consume(why)
  PROVE  IInv'
<1>1. gates = GateChain => plan.route # "download"
  BY GatePassed DEF IInv, Types
<1>2. gates = GateChain => ~CaseGate /\ FileIsFree
  BY <1>1, PlanShape DEF CaseGate, FileIsFree, Tight, IInv
<1>3. UNCHANGED <<rest, found, submitted, gated, judged>> /\ judged \subseteq Keys /\ looks \in 0 .. 3
  BY DEF gate, IInv, Types
<1>4. CASE Pass
  BY <1>2, <1>3, <1>4, PassKeeps DEF Pass
<1>5. CASE \E why \in {"skipped", "warned"} : Consume(why)
  <2>1. PICK why \in {"skipped", "warned"} : Consume(why)
    BY <1>5
  <2> QED
    BY <1>3, <2>1, ConsumeKeeps DEF Consume, Goto
<1> QED
  BY <1>4, <1>5

\* The gates behind the case gate pass the entry on or consume it.
LEMMA LaterGatesKeep ==
  ASSUME IInv, Glacier \/ ParentReference \/ NoOverwrite \/ Oversize
  PROVE  IInv'
<1>1. /\ pc = "gate" /\ gates # << >> /\ Head(gates) # "case"
      /\ UNCHANGED <<plan, at, looks, gate, items, token>>
  BY DEF Glacier, ParentReference, NoOverwrite, Oversize, At
<1>2. \/ Pass
      \/ \E why \in {"skipped", "warned"} : Consume(why)
  BY DEF Glacier, ParentReference, NoOverwrite, Oversize
<1> QED
  BY <1>1, <1>2, LaterGateKeeps

\* At the case gate of a run that is not a tree there is no other entry.
LEMMA AloneWithoutGate ==
  ASSUME IInv, pc = "gate", gates = GateChain, Tight, ~CaseGate
  PROVE  FileIsFree
<1>1. Len(plan.order) <= 1 /\ Len(plan.order) \in Nat
  BY PlanShape DEF IInv, CaseGate, Recursive, Tight, Refusing
<1>2. \A t \in Keys : Reached(t) => t = k
  BY <1>1, AtGate, PlanShape DEF Reached, IInv, k
<1>3. \A t \in Keys \ {k} : ~Through(t)
  BY <1>2 DEF IInv, FatesOK, ItemsOK, Through
<1> QED
  BY <1>3 DEF FileIsFree

\* The case gate passes an entry if the destination has its own name; else it looks.
LEMMA PairedFirstKeeps == ASSUME IInv, PairedFirst PROVE IInv'
<1>1. /\ pc = "gate" /\ gates # << >> /\ Head(gates) = "case" /\ looks = 0
      /\ UNCHANGED <<plan, at, found, submitted, gated, judged, items, token>>
  BY DEF PairedFirst, At
<1>2. gates = GateChain /\ plan.route = "download"
  BY <1>1, GatePassed DEF IInv, Types
<1>3. rest' \subseteq rest /\ rest \subseteq DestListing /\ judged \subseteq Keys
  BY DEF PairedFirst, IInv, LoopOK, Types
<1>4. CASE Pass /\ looks' = looks /\ (~CaseGate \/ k \in Listed)
  <2>1. ASSUME Tight, k \notin found PROVE FileIsFree
    <3>1. CASE ~CaseGate
      BY <1>1, <1>2, <2>1, <3>1, AloneWithoutGate
    <3>2. CASE CaseGate
      <4>1. k \in plan.dest /\ k \in Keys /\ fate[k] = "none"
        BY <1>1, <1>4, <2>1, <3>2, AtGate DEF Listed, DestListing
      <4> SUFFICES ASSUME NEW t \in Keys \ {k}, plan.fold[t] = plan.fold[k],
              Through(t) PROVE FALSE
        BY DEF FileIsFree
      <4>2. t \notin gated
        BY <2>1, <3>2, <4>1 DEF IInv, Claimed
      <4>3. t \in DestListing \/ t \in found
        BY <2>1, <3>2, <4>2 DEF IInv, Claimed, Through, Listed
      <4> QED
        BY <2>1, <4>1, <4>3, PlanShape DEF IInv, DestListing, Tight, FoundOK
    <3> QED
      BY <3>1, <3>2
  <2>2. FileIsFree
    BY <2>1 DEF FileIsFree
  <2> QED
    BY <1>1, <1>2, <1>3, <1>4, <2>2, PassKeeps DEF Pass, IInv
<1>5. CASE looks' = 1 /\ UNCHANGED <<pc, exc, gates, fate>> /\ CaseGate /\ k \notin found
  BY <1>1, <1>3, <1>5, LookOnKeeps
<1>6. plan.sync \/ k \notin found
  BY DEF IInv, FoundOK
<1> QED
  BY <1>3, <1>4, <1>5, <1>6 DEF PairedFirst, Listed

\* An entry is admitted after both looks found nothing: no twin is on its way to the
\* file, none has landed there, and none was there at the start.
LEMMA FreshIsFree ==
  ASSUME IInv, pc = "gate", gates = GateChain, plan.route = "download",
         plan.fold[k] \notin submitted, ~Exists(k), Tight
  PROVE  /\ FileIsFree
         /\ \A d \in plan.dest \cup found : plan.fold[d] = plan.fold[k] => fate[d] = "deleted"
<1>1. \A t \in Keys : plan.fold[t] = plan.fold[k] => disk[Slot(t)] = None
  BY DEF Exists, Slot, Tight
<1>2. \A d \in plan.dest \cup found : plan.fold[d] = plan.fold[k] => fate[d] = "deleted"
  BY <1>1, PlanShape DEF IInv, Types, DestThere
<1>3. FileIsFree
  <2>1. CASE ~CaseGate
    BY <2>1, AloneWithoutGate
  <2>2. CASE CaseGate
    <3> SUFFICES ASSUME NEW t \in Keys \ {k}, plan.fold[t] = plan.fold[k], Through(t)
                 PROVE  Spent(t)
      BY DEF FileIsFree
    <3>1. t \in gated
      <4> SUFFICES ASSUME t \notin gated PROVE FALSE
        OBVIOUS
      <4>1. flight[t] # "none" /\ t \in plan.dest \cup found
        BY <2>2 DEF IInv, Claimed, Through, DestListing, Listed
      <4> QED
        BY <1>2, <4>1 DEF IInv, ItemsOK
    <3>2. flight[t] = "over"
      BY <2>2, <3>1 DEF IInv, Claimed
    <3>3. disk[Slot(t)] # t
      BY <1>1, ProducersAssumption DEF Keys, None
    <3> QED
      BY <3>2, <3>3 DEF Spent
  <2> QED
    BY <2>1, <2>2
<1> QED
  BY <1>2, <1>3

\* The check looks at the set and at the file; the second look admits the entry.
LEMMA LookKeeps == ASSUME IInv, Look PROVE IInv'
<1>1. /\ pc = "gate" /\ gates # << >> /\ Head(gates) = "case" /\ looks \in 1 .. 2
      /\ looks' = looks + 1 /\ UNCHANGED <<plan, at, rest, found, items, token>>
  BY DEF Look, At
<1>2. gates = GateChain /\ plan.route = "download" /\ k \notin gated /\ k \in Keys
        /\ k \notin found
  BY <1>1, GatePassed, AtGate DEF IInv, Types, LoopOK, LooksOK
<1>3. looks' \in 0 .. 3 /\ judged \subseteq Keys
  BY <1>1 DEF IInv, Types
<1> DEFINE conflict == IF LookOrder[looks] = "set" THEN plan.fold[k] \in submitted ELSE Exists(k)
<1>4. /\ looks = 1 => (conflict <=> plan.fold[k] \in submitted)
      /\ looks = 2 => (conflict <=> Exists(k))
  BY DEF LookOrder
<1>5. \/ conflict /\ InConflict
      \/ ~conflict /\ looks = 2 /\ Pass /\ Admit /\ UNCHANGED judged
      \/ ~conflict /\ looks = 1 /\ UNCHANGED <<pc, exc, gates, fate, submitted, gated, judged>>
  BY DEF Look
<1> HIDE DEF conflict
<1>6. CASE conflict /\ InConflict
  <2>1. judged' \subseteq Keys
    BY <1>2, <1>3, <1>6 DEF InConflict
  <2>2. plan.mode \in {"skip", "warn", "error"}
    BY <1>1, <1>2, PlanShape DEF IInv, LooksOK, CaseGate
  <2>3. CASE plan.mode = "skip"
    <3>1. Consume("notice") /\ UNCHANGED <<submitted, gated>>
      BY <1>6, <2>3 DEF InConflict
    <3> QED
      BY <1>1, <1>2, <1>3, <2>1, <3>1, ConsumeKeeps DEF Consume, Goto
  <2>4. CASE plan.mode = "warn"
    <3>1. Pass /\ Admit /\ FileIsFree /\ ~Tight
      BY <1>6, <2>4 DEF InConflict, FileIsFree, Tight, Refusing
    <3> QED
      BY <1>1, <1>2, <1>3, <2>1, <3>1, PassKeeps DEF Pass, Admit
  <2>5. CASE plan.mode = "error"
    <3>1. /\ Raise("fatal") /\ gates' = << >> /\ fate' = [fate EXCEPT ![k] = "error"]
          /\ UNCHANGED <<submitted, gated>>
      BY <1>6, <2>5 DEF InConflict
    <3> QED
      BY <1>1, <1>2, <1>3, <2>1, <3>1, ConsumeKeeps DEF Raise
  <2> QED
    BY <2>2, <2>3, <2>4, <2>5
<1>7. CASE ~conflict /\ looks = 2 /\ Pass /\ Admit /\ UNCHANGED judged
  <2>1. plan.fold[k] \notin submitted /\ ~Exists(k)
    BY <1>1, <1>2, <1>4, <1>7 DEF IInv, LooksOK
  <2>2. /\ FileIsFree
        /\ Tight => \A d \in plan.dest \cup found :
                      plan.fold[d] = plan.fold[k] => fate[d] = "deleted"
    BY <1>1, <1>2, <2>1, FreshIsFree DEF FileIsFree
  <2> QED
    BY <1>1, <1>2, <1>3, <1>7, <2>2, PassKeeps DEF Pass, Admit
<1>8. CASE ~conflict /\ looks = 1 /\ UNCHANGED <<pc, exc, gates, fate, submitted, gated, judged>>
  <2>1. CaseGate
    BY <1>1, <1>2 DEF IInv, LooksOK
  <2> QED
    BY <1>1, <1>2, <1>3, <1>4, <1>8, <2>1, LookOnKeeps
<1> QED
  BY <1>5, <1>6, <1>7, <1>8

\* An entry that passed its gates is handed over, or is only told of by a dry run.
LEMMA SubmitKeeps == ASSUME IInv, Submit PROVE IInv'
<1>1. /\ pc = "gate" /\ gates = << >> /\ pc' = "poll" /\ exc' = exc
      /\ UNCHANGED <<plan, at, gates, looks, rest, found, submitted, gated, judged, token>>
      /\ UNCHANGED <<outcome, source, disk>>
  BY DEF Submit, Goto, gate
<1>2. /\ at \in 1 .. Len(plan.order) /\ k \in Keys /\ Reached(k) /\ Visible(k)
      /\ fate[k] = "none" /\ flight[k] = "none" /\ outcome[k] = "none" /\ exc = "none"
  BY <1>1, AtGate
<1>3. k' = k /\ \A key : Reached(key)' <=> Reached(key)
  BY <1>1, EntryStays
<1>4. \/ fate' = [fate EXCEPT ![k] = "dryrun"] /\ flight' = flight
      \/ fate' = [fate EXCEPT ![k] = "submitted"] /\ flight' = [flight EXCEPT ![k] = "live"]
  <2>1. CASE plan.dryrun
    BY <2>1 DEF Submit
  <2>2. CASE ~plan.dryrun
    <3>1. fate' = [fate EXCEPT ![k] = IF @ = "none" THEN "submitted" ELSE "twice"]
          /\ flight' = [flight EXCEPT ![k] = "live"]
      BY <2>2 DEF Submit
    <3> QED
      BY <1>2, <3>1 DEF IInv
  <2> QED
    BY <2>1, <2>2
<1>5. /\ fate' \in [Keys -> Fates]
         /\ flight' \in [Keys -> {"none", "live", "settled", "handled", "over"}]
      /\ \A key \in Keys \ {k} : fate'[key] = fate[key] /\ flight'[key] = flight[key]
      /\ \/ fate'[k] = "dryrun" /\ flight'[k] = "none"
         \/ fate'[k] = "submitted" /\ flight'[k] = "live"
  BY <1>2, <1>4 DEF IInv, Types, Fates
<1>6. gates # GateChain
  <2>1. Len(GateChain) # 0
    BY GateChainShape DEF IInv
  <2> QED
    BY <1>1, <2>1
<1>7. Types'
  BY <1>1, <1>5, PlanFixed DEF IInv, Types, Rest
<1>8. LoopOK'
  BY <1>1, PlanFixed DEF IInv, LoopOK, Listed
<1>9. FatesOK'
  BY <1>1, <1>2, <1>3, <1>5, PlanFixed DEF IInv, FatesOK
<1>10. ItemsOK'
  BY <1>1, <1>2, <1>5, PlanFixed DEF IInv, ItemsOK
<1>11. SetOK' /\ LooksOK'
  <2>1. \A key \in Keys : flight[key] # "over" => flight'[key] # "over"
    BY <1>5
  <2> QED
    BY <1>1, <2>1 DEF IInv, Types, SetOK, LooksOK
<1>d. /\ \A d \in Keys : fate'[d] = "deleted" <=> fate[d] = "deleted"
      /\ found \subseteq Keys /\ plan.dest \subseteq Keys
  BY <1>2, <1>5, PlanShape DEF IInv, Types
<1>12. DestThere' /\ FoundOK' /\ LandedStays'
  <2>1. \A key : TwinTook(key) => TwinTook(key)'
    BY <1>1, <1>d, PlanFixed DEF TwinTook, Twins
  <2> QED
    BY <1>1, <1>3, <1>d, <2>1, PlanFixed DEF IInv, DestThere, FoundOK, LandedStays, Landed
<1>13. OneHolder'
  <2>1. \A t \in Keys : Through(t)' => Through(t)
    BY <1>1, <1>5, <1>6 DEF Through
  <2>2. \A t \in Keys : Spent(t) => Spent(t)'
    BY <1>1, <1>2, <1>5, PlanFixed DEF Spent
  <2> QED
    BY <1>1, <2>1, <2>2, PlanFixed DEF IInv, OneHolder
<1>14. Claimed'
  <2> SUFFICES ASSUME Tight, CaseGate PROVE Claimed'
    BY <1>1, PlanFixed DEF Claimed
  <2>1. k \in gated \/ k \in Listed
    BY <1>1, <1>6 DEF IInv, LoopOK
  <2>2. \A t \in Keys : flight'[t] # "over" => flight[t] # "over"
    BY <1>2, <1>5
  <2>3. \A t \in Keys, d \in found :
          ArrivesBefore(t, d) /\ flight[t] # "live" => flight'[t] # "live"
    <3> SUFFICES ASSUME NEW d \in found, ArrivesBefore(k, d) PROVE FALSE
      BY <1>5
    <3> QED
      BY <1>2, NoneLater DEF IInv, FoundOK
  <2>4. \A t \in Keys :
          /\ t \in gated /\ flight'[t] # "over" => plan.fold[t] \in submitted
          /\ t \in gated =>
               \A d \in plan.dest : plan.fold[d] = plan.fold[t] => fate'[d] = "deleted"
          /\ flight'[t] # "none" => t \in gated \/ t \in Listed
    BY <1>d, <1>5, <2>1, <2>2 DEF IInv, Claimed
  <2>5. \A t \in gated : \A d \in found : plan.fold[d] = plan.fold[t] =>
          fate'[d] = "deleted" \/ (ArrivesBefore(t, d) /\ flight'[t] # "live")
    BY <1>d, <2>3 DEF IInv, Types, Claimed
  <2> QED
    BY <1>1, <2>4, <2>5, PlanFixed DEF Claimed, Listed
<1> QED
  BY <1>1, <1>7, <1>8, <1>9, <1>10, <1>11, <1>12, <1>13, <1>14 DEF IInv
-----------------------------------------------------------------------------
(* The items in flight.                                                    *)

\* What an item's end leaves alone: the loop, the fates and the kind of file it is.
LEMMA ItemStep ==
  ASSUME IInv, NEW key \in Keys, Settle(key) \/ DeleteSource(key) \/ Cleanup(key)
  PROVE  /\ UNCHANGED <<plan, pc, at, gates, looks, rest, found, gated, judged, fate, token, exc>>
         /\ k' = k /\ \A e : Reached(e)' <=> Reached(e)
         /\ flight[key] \in {"live", "settled", "handled"} /\ pc # "out"
         /\ fate[key] = "submitted" /\ Visible(key)
<1>1. /\ UNCHANGED <<plan, pc, at, gates, looks, rest, found, gated, judged, fate, token, exc>>
      /\ flight[key] \in {"live", "settled", "handled"}
  BY DEF Settle, DeleteSource, Cleanup, loop, gate
<1>2. k' = k /\ \A e : Reached(e)' <=> Reached(e)
  BY <1>1, EntryStays
<1>3. pc # "out" /\ fate[key] = "submitted" /\ Visible(key)
  BY <1>1 DEF IInv, ItemsOK
<1> QED
  BY <1>1, <1>2, <1>3

\* A body lands whole, or leaves the destination alone.
LEMMA SettleKeeps ==
  ASSUME IInv, NEW key \in Keys, Settle(key)
  PROVE  IInv'
<1>1. /\ UNCHANGED <<plan, pc, at, gates, looks, rest, found, gated, judged, fate, token, exc>>
      /\ k' = k /\ \A e : Reached(e)' <=> Reached(e)
      /\ pc # "out" /\ fate[key] = "submitted" /\ Visible(key)
  BY ItemStep
<1>2. /\ flight[key] = "live" /\ UNCHANGED <<submitted, source>>
      /\ flight' = [flight EXCEPT ![key] = IF plan.move THEN "settled" ELSE "handled"]
  BY DEF Settle, gate
<1>3. /\ flight' \in [Keys -> {"none", "live", "settled", "handled", "over"}]
      /\ flight'[key] \in {"settled", "handled"}
      /\ \A e \in Keys \ {key} : flight'[e] = flight[e]
  BY <1>2 DEF IInv, Types
<1>4. Slot(key) \in Keys /\ key \in 0 .. NumKeys + 1 /\ key # None
  BY PlanShape, ProducersAssumption DEF IInv, Slot, Keys, None
<1>5. /\ outcome' \in [Keys -> {"none", "ok", "undeleted", "failed"}]
      /\ \A e \in Keys \ {key} : outcome'[e] = outcome[e]
      /\ outcome'[key] \in {"ok", "failed"}
  BY DEF Settle, IInv, Types
<1>6. /\ disk' \in [Keys -> 0 .. NumKeys + 1]
      /\ \A s \in Keys : disk'[s] = disk[s] \/ (s = Slot(key) /\ disk'[s] = key
         /\ outcome'[key] = "ok")
      /\ outcome'[key] = "ok" => disk'[Slot(key)] = key
  <2>1. disk \in [Keys -> 0 .. NumKeys + 1]
          /\ outcome \in [Keys -> {"none", "ok", "undeleted", "failed"}]
    BY DEF IInv, Types
  <2>2. \/ /\ outcome' = [outcome EXCEPT ![key] = "ok"]
           /\ disk' = [disk EXCEPT ![Slot(key)] = key]
        \/ outcome' = [outcome EXCEPT ![key] = "failed"] /\ disk' = disk
    BY DEF Settle
  <2>3. CASE outcome' = [outcome EXCEPT ![key] = "failed"] /\ disk' = disk
    BY <2>1, <2>3
  <2>4. CASE outcome' = [outcome EXCEPT ![key] = "ok"] /\ disk' = [disk EXCEPT ![Slot(key)] = key]
    <3>1. outcome'[key] = "ok"
      BY <2>1, <2>4
    <3>2. disk'[Slot(key)] = key /\ \A s \in Keys \ {Slot(key)} : disk'[s] = disk[s]
      BY <1>4, <2>1, <2>4
    <3>3. disk' \in [Keys -> 0 .. NumKeys + 1]
      BY <1>4, <2>1, <2>4
    <3> QED
      BY <3>1, <3>2, <3>3
  <2> QED
    BY <2>2, <2>3, <2>4
<1>7. Types'
  BY <1>1, <1>2, <1>3, <1>5, <1>6, PlanFixed DEF IInv, Types, Rest
<1>8. LoopOK' /\ FatesOK'
  BY <1>1, PlanFixed DEF IInv, LoopOK, FatesOK, Listed
<1>9. ItemsOK'
  BY <1>1, <1>2, <1>3, <1>5, PlanFixed DEF IInv, ItemsOK
<1>10. SetOK' /\ LooksOK' /\ FoundOK'
  BY <1>1, <1>2, <1>3, PlanFixed DEF IInv, SetOK, LooksOK, FoundOK
<1>11. DestThere'
  <2> SUFFICES ASSUME NEW d \in plan.dest \cup found, fate[d] # "deleted" PROVE disk'[Slot(d)] # None
    BY <1>1, PlanFixed DEF DestThere
  <2>1. Slot(d) \in Keys /\ disk[Slot(d)] # None
    BY PlanShape DEF IInv, Types, DestThere, Slot
  <2> QED
    BY <1>4, <1>6, <2>1
<1>12. \A t \in Keys : (Through(t)' <=> Through(t)) /\ (Spent(t) => Spent(t)')
  <2>1. \A t \in Keys : flight'[t] = "none" <=> flight[t] = "none"
    BY <1>2, <1>3
  <2>2. \A t \in Keys : Through(t)' <=> Through(t)
    BY <1>1, <2>1, PlanFixed DEF Through
  <2>3. ASSUME NEW t \in Keys, Spent(t) PROVE Spent(t)'
    <3>1. t # key /\ Slot(t) \in Keys /\ flight'[t] = "over" /\ outcome'[t] = outcome[t]
      BY <1>2, <1>3, <1>5, <2>3, PlanShape DEF Spent, Slot, IInv
    <3>2. disk[Slot(t)] # t => disk'[Slot(t)] # t
      BY <1>6, <3>1
    <3> QED
      BY <1>1, <2>3, <3>1, <3>2, PlanFixed DEF Spent
  <2> QED
    BY <2>2, <2>3
<1>13. OneHolder'
  BY <1>1, <1>12, PlanFixed DEF IInv, OneHolder
<1>14. Claimed'
  <2>1. \A t \in Keys : /\ flight'[t] # "over" => flight[t] # "over"
                        /\ flight'[t] # "none" => flight[t] # "none"
                        /\ flight'[t] = "live" => flight[t] = "live"
    BY <1>2, <1>3
  <2>2. gated \subseteq Keys
    BY DEF IInv, Types
  <2> QED
    BY <1>1, <1>2, <2>1, <2>2, PlanFixed DEF IInv, Claimed, Listed
<1>15. LandedStays'
  <2>t. \A u : TwinTook(u) => TwinTook(u)'
    <3>1. \A t \in Keys : outcome[t] \in {"ok", "undeleted"} => outcome'[t] = outcome[t]
      BY <1>2, <1>5 DEF IInv, ItemsOK
    <3> QED
      BY <1>1, <3>1, PlanFixed DEF TwinTook, Twins
  <2> SUFFICES ASSUME NEW u \in Keys, Landed(u)', disk'[Slot(u)] # u
               PROVE  plan.insensitive /\ TwinTook(u)'
    BY <1>1, PlanFixed DEF LandedStays
  <2>0. outcome'[u] \in {"ok", "undeleted"} /\ Slot(u) \in Keys
    BY <1>1, <1>9, PlanShape DEF ItemsOK, Landed, Slot, IInv
  <2>1. u # key
    BY <1>5, <1>6, <2>0
  <2>2. outcome[u] \in {"ok", "undeleted"} /\ Landed(u)
    BY <1>5, <2>0, <2>1 DEF Landed
  <2>3. CASE disk[Slot(u)] # u
    BY <2>2, <2>3, <2>t DEF IInv, LandedStays
  <2>4. CASE disk[Slot(u)] = u
    <3>1. Slot(u) = Slot(key) /\ outcome'[key] = "ok"
      BY <1>6, <2>0, <2>4
    <3>2. plan.insensitive /\ plan.fold[key] = plan.fold[u]
      BY <2>1, <3>1 DEF Slot
    <3>3. key \in Twins(u)
      BY <2>1, <3>2 DEF Twins
    <3>4. fate[key] # "deleted" /\ fate[u] = "submitted" /\ flight[u] # "none"
      BY <1>1, <2>2 DEF IInv, ItemsOK
    <3>5. ASSUME Refusing PROVE key \in found /\ ArrivesBefore(u, key)
      <4>1. Tight /\ plan.route = "download"
        BY <3>2, <3>5, PlanShape DEF Tight, IInv
      <4>2. CaseGate
        <5> SUFFICES ASSUME ~CaseGate PROVE FALSE
          OBVIOUS
        <5>1. Len(plan.order) <= 1
          BY <4>1, PlanShape DEF IInv, CaseGate, Recursive, Tight, Refusing
        <5>2. Reached(u) /\ Reached(key)
          BY <1>1, <3>4 DEF IInv, FatesOK
        <5>3. at \in 0 .. Len(plan.order) /\ Len(plan.order) \in Nat
          BY PlanShape DEF IInv, Types
        <5> QED
          BY <2>1, <5>1, <5>2, <5>3 DEF Reached
      <4>3. Through(u) /\ Through(key) /\ ~Spent(u) /\ ~Spent(key)
        BY <1>2, <2>2, <2>4, <3>4 DEF Through, Spent
      <4>4. u \in found \/ key \in found
        BY <2>1, <3>2, <4>1, <4>3 DEF IInv, OneHolder
      <4>5. CASE key \in found
        <5>1. u \notin found /\ u \notin plan.dest
          BY <2>1, <3>2, <4>5 DEF IInv, FoundOK
        <5>2. u \in gated
          BY <3>4, <4>1, <4>2, <5>1 DEF IInv, Claimed, Listed, DestListing
        <5> QED
          BY <3>2, <3>4, <4>1, <4>2, <4>5, <5>2 DEF IInv, Claimed
      <4>6. CASE u \in found
        <5>1. key \notin plan.dest
          BY <3>2, <4>6 DEF IInv, FoundOK
        <5>2. key \in gated \/ key \in found
          BY <1>2, <4>1, <4>2, <5>1 DEF IInv, Claimed, Listed, DestListing
        <5>3. key \notin gated
          BY <1>2, <3>2, <3>4, <4>1, <4>2, <4>6 DEF IInv, Claimed
        <5> QED
          BY <2>1, <3>2, <4>6, <5>2, <5>3 DEF IInv, FoundOK
      <4> QED
        BY <4>4, <4>5, <4>6
    <3> QED
      BY <1>1, <3>1, <3>2, <3>3, <3>4, <3>5, PlanFixed DEF TwinTook
  <2> QED
    BY <2>3, <2>4
<1> QED
  BY <1>1, <1>7, <1>8, <1>9, <1>10, <1>11, <1>13, <1>14, <1>15 DEF IInv

\* The source of a move that landed goes, or its delete fails.
LEMMA DeleteSourceKeeps ==
  ASSUME IInv, NEW key \in Keys, DeleteSource(key)
  PROVE  IInv'
<1>1. /\ UNCHANGED <<plan, pc, at, gates, looks, rest, found, gated, judged, fate, token, exc>>
      /\ k' = k /\ \A e : Reached(e)' <=> Reached(e)
      /\ pc # "out" /\ fate[key] = "submitted" /\ Visible(key)
  BY ItemStep
<1>2. /\ flight[key] = "settled" /\ UNCHANGED <<submitted, disk>>
      /\ flight' = [flight EXCEPT ![key] = "handled"]
  BY DEF DeleteSource, gate
<1>3. /\ flight' \in [Keys -> {"none", "live", "settled", "handled", "over"}]
      /\ flight'[key] = "handled"
      /\ \A e \in Keys \ {key} : flight'[e] = flight[e]
  BY <1>2 DEF IInv, Types
<1>4. outcome[key] \in {"ok", "failed"}
  BY <1>2 DEF IInv, ItemsOK
<1>5. /\ outcome' \in [Keys -> {"none", "ok", "undeleted", "failed"}] /\ source' \subseteq source
      /\ \A e \in Keys \ {key} : outcome'[e] = outcome[e] /\ (e \in source' <=> e \in source)
      /\ \/ outcome[key] = "ok" /\ outcome'[key] = "ok" /\ key \notin source'
         \/ outcome[key] = "ok" /\ outcome'[key] = "undeleted" /\ source' = source
         \/ outcome[key] = "failed" /\ outcome'[key] = "failed" /\ source' = source
  BY <1>4 DEF DeleteSource, IInv, Types
<1>6. Types'
  BY <1>1, <1>2, <1>3, <1>5, PlanFixed DEF IInv, Types, Rest
<1>7. LoopOK' /\ FatesOK'
  BY <1>1, PlanFixed DEF IInv, LoopOK, FatesOK, Listed
<1>8. ItemsOK'
  BY <1>1, <1>2, <1>3, <1>5, PlanFixed DEF IInv, ItemsOK
<1>9. SetOK' /\ LooksOK' /\ DestThere' /\ FoundOK'
  BY <1>1, <1>2, <1>3, PlanFixed DEF IInv, SetOK, LooksOK, DestThere, FoundOK
<1>10. \A t \in Keys : (Through(t)' <=> Through(t)) /\ (Spent(t)' <=> Spent(t))
  <2>1. \A t \in Keys : flight'[t] = "none" <=> flight[t] = "none"
    BY <1>2, <1>3
  <2>2. \A t \in Keys : Through(t)' <=> Through(t)
    BY <1>1, <2>1, PlanFixed DEF Through
  <2>3. \A t \in Keys : Spent(t)' <=> Spent(t)
    BY <1>1, <1>2, <1>3, <1>5, PlanFixed DEF Spent
  <2> QED
    BY <2>2, <2>3
<1>11. OneHolder'
  BY <1>1, <1>10, PlanFixed DEF IInv, OneHolder
<1>12. Claimed'
  <2>1. \A t \in Keys : /\ flight'[t] # "over" => flight[t] # "over"
                        /\ flight'[t] # "none" => flight[t] # "none"
                        /\ flight'[t] = "live" => flight[t] = "live"
    BY <1>2, <1>3
  <2>2. gated \subseteq Keys
    BY DEF IInv, Types
  <2> QED
    BY <1>1, <1>2, <2>1, <2>2, PlanFixed DEF IInv, Claimed, Listed
<1>13. LandedStays'
  <2>1. \A t \in Keys : outcome[t] \in {"ok", "undeleted"} <=> outcome'[t] \in {"ok", "undeleted"}
    BY <1>5
  <2>2. \A u : TwinTook(u) => TwinTook(u)'
    BY <1>1, <2>1, PlanFixed DEF TwinTook, Twins
  <2> SUFFICES ASSUME NEW u \in Keys, Landed(u)', disk[Slot(u)] # u
               PROVE  plan.insensitive /\ TwinTook(u)'
    BY <1>1, <1>2, PlanFixed DEF LandedStays
  <2>3. Landed(u)
    BY <1>1, <1>5, <2>1 DEF Landed
  <2> QED
    BY <2>2, <2>3 DEF IInv, LandedStays
<1> QED
  BY <1>1, <1>6, <1>7, <1>8, <1>9, <1>11, <1>12, <1>13 DEF IInv

\* The end of an item takes its name from the set, however it ended.
LEMMA CleanupKeeps ==
  ASSUME IInv, NEW key \in Keys, Cleanup(key)
  PROVE  IInv'
<1>1. /\ UNCHANGED <<plan, pc, at, gates, looks, rest, found, gated, judged, fate, token, exc>>
      /\ k' = k /\ \A e : Reached(e)' <=> Reached(e)
      /\ pc # "out" /\ fate[key] = "submitted" /\ Visible(key)
  BY ItemStep
<1>2. /\ flight[key] = "handled" /\ UNCHANGED <<outcome, source, disk>>
      /\ flight' = [flight EXCEPT ![key] = "over"]
      /\ submitted' = IF key \in gated THEN submitted \ {plan.fold[key]} ELSE submitted
  BY DEF Cleanup
<1>3. /\ flight' \in [Keys -> {"none", "live", "settled", "handled", "over"}]
      /\ flight'[key] = "over"
      /\ \A e \in Keys \ {key} : flight'[e] = flight[e]
  BY <1>2 DEF IInv, Types
<1>4. Types'
  BY <1>1, <1>2, <1>3, PlanFixed DEF IInv, Types, Rest
<1>5. LoopOK' /\ FatesOK'
  BY <1>1, PlanFixed DEF IInv, LoopOK, FatesOK, Listed
<1>6. ItemsOK'
  BY <1>1, <1>2, <1>3, PlanFixed DEF IInv, ItemsOK
<1>7. SetOK'
  <2> SUFFICES ASSUME NEW x \in submitted'
               PROVE  \E t \in gated : plan.fold[t] = x /\ flight'[t] # "over"
    BY <1>1 DEF SetOK
  <2>1. PICK t \in gated : plan.fold[t] = x /\ flight[t] # "over"
    BY <1>2 DEF IInv, SetOK
  <2>2. t # key
    BY <1>2, <2>1
  <2> QED
    BY <1>3, <2>1, <2>2 DEF IInv, Types
<1>8. LooksOK' /\ DestThere' /\ FoundOK' /\ LandedStays'
  BY <1>1, <1>2, PlanFixed DEF IInv, LooksOK, DestThere, FoundOK, LandedStays, Landed, TwinTook
<1>9. OneHolder'
  <2>1. \A t \in Keys : (Through(t)' <=> Through(t)) /\ (Spent(t) => Spent(t)')
    <3>1. \A t \in Keys : flight'[t] = "none" <=> flight[t] = "none"
      BY <1>2, <1>3
    <3>2. \A t \in Keys : Through(t)' <=> Through(t)
      BY <1>1, <3>1, PlanFixed DEF Through
    <3>3. \A t \in Keys : Spent(t) => Spent(t)'
      BY <1>1, <1>2, <1>3, PlanFixed DEF Spent
    <3> QED
      BY <3>2, <3>3
  <2> QED
    BY <1>1, <2>1, PlanFixed DEF IInv, OneHolder
<1>10. Claimed'
  <2>1. ASSUME Tight, CaseGate, NEW t \in Keys, t \in gated, flight'[t] # "over"
        PROVE  plan.fold[t] \in submitted'
    <3>1. t # key /\ flight[t] # "over" /\ plan.fold[t] \in submitted
      BY <1>3, <2>1 DEF IInv, Claimed
    <3>2. ASSUME key \in gated, plan.fold[t] = plan.fold[key] PROVE FALSE
      <4>1. Through(t) /\ Through(key)
        BY <2>1, <3>2 DEF Through
      <4> QED
        BY <1>2, <2>1, <3>1, <3>2, <4>1 DEF IInv, OneHolder, Spent, FoundOK
    <3> QED
      BY <1>2, <3>1, <3>2
  <2>2. \A t \in Keys : /\ flight'[t] # "none" => flight[t] # "none"
                        /\ flight'[t] = "live" => flight[t] = "live"
    BY <1>2, <1>3
  <2>3. gated \subseteq Keys
    BY DEF IInv, Types
  <2> QED
    BY <1>1, <2>1, <2>2, <2>3, PlanFixed DEF IInv, Claimed, Listed
<1> QED
  BY <1>1, <1>4, <1>5, <1>6, <1>7, <1>8, <1>9, <1>10 DEF IInv

\* A step that changes nothing keeps the invariant.
LEMMA StutterKeeps == ASSUME IInv, UNCHANGED vars PROVE IInv'
<1>1. /\ UNCHANGED <<plan, pc, at, gates, looks, rest, found, submitted, gated, judged, fate>>
      /\ UNCHANGED <<flight, outcome, source, disk, token, exc>>
  BY DEF vars, loop, gate, items
<1>2. Types' /\ LoopOK' /\ FatesOK'
  BY <1>1, PlanFixed, EntryStays DEF IInv, Types, Rest, LoopOK, FatesOK, Listed
<1>3. ItemsOK' /\ SetOK' /\ DestThere' /\ FoundOK' /\ LooksOK'
  BY <1>1, PlanFixed, EntryStays DEF IInv, ItemsOK, SetOK, DestThere, FoundOK, LooksOK
<1>4. OneHolder' /\ Claimed' /\ LandedStays'
  BY <1>1, PlanFixed, EntryStays DEF IInv, OneHolder, Through, Spent, Claimed, Listed,
         LandedStays, Landed, TwinTook
<1> QED
  BY <1>1, <1>2, <1>3, <1>4 DEF IInv
-----------------------------------------------------------------------------
(* The theorems.                                                           *)

\* Before the start nothing was taken, and the files are the old ones.
LEMMA InitHolds == ASSUME Init PROVE IInv
<1>1. /\ plan \in Plans /\ pc = "start" /\ at = 0 /\ gates = << >> /\ looks = 0
      /\ rest = {} /\ found = {} /\ submitted = {} /\ gated = {} /\ judged = {}
      /\ token = FALSE /\ exc = "none"
      /\ source = {key \in Keys : plan.kind[key] # "absent"}
      /\ fate = [key \in Keys |-> "none"] /\ flight = [key \in Keys |-> "none"]
      /\ outcome = [key \in Keys |-> "none"]
      /\ disk = [key \in Keys |-> IF \E d \in plan.dest : Slot(d) = key THEN Old ELSE None]
  BY DEF Init
<1>2. \A key : ~Reached(key)
  BY <1>1 DEF Reached
<1>3. \A key \in Keys : ~Through(key)
  BY <1>1 DEF Through
<1>4. Rest(gates) /\ Len(plan.order) \in Nat
  BY <1>1, ChainAndNothing, PlanShape
<1>5. disk \in [Keys -> 0 .. NumKeys + 1] /\ Old # None
  BY <1>1, ProducersAssumption DEF Old, None
<1>6. Types
  <2>1. fate \in [Keys -> Fates]
    BY <1>1 DEF Fates
  <2>2. flight \in [Keys -> {"none", "live", "settled", "handled", "over"}]
    BY <1>1
  <2>3. outcome \in [Keys -> {"none", "ok", "undeleted", "failed"}]
    BY <1>1
  <2>4. token = FALSE
    BY DEF Init
  <2>5. at = 0 /\ looks = 0
    BY <1>1
  <2>6. at \in 0 .. Len(plan.order) /\ looks \in 0 .. 3
    BY <1>4, <2>5
  <2>7. token \in BOOLEAN
    BY <2>4
  <2> QED
    BY <1>1, <1>4, <1>5, <2>1, <2>2, <2>3, <2>6, <2>7 DEF Types
<1>7. LoopOK /\ FatesOK /\ SetOK /\ FoundOK /\ LooksOK
  BY <1>1, <1>2 DEF LoopOK, FatesOK, SetOK, FoundOK, LooksOK
<1>8. ItemsOK /\ Claimed
  BY <1>1 DEF ItemsOK, Claimed
<1>9. OneHolder
  BY <1>3 DEF OneHolder
<1>10. DestThere
  <2> SUFFICES ASSUME NEW d \in plan.dest PROVE disk[Slot(d)] # None
    BY <1>1 DEF DestThere
  <2>1. Slot(d) \in Keys
    BY <1>1, PlanShape DEF Slot
  <2> QED
    BY <1>1, <1>5, <2>1
<1>11. LandedStays
  BY <1>1 DEF LandedStays, Landed
<1> QED
  BY <1>1, <1>6, <1>7, <1>8, <1>9, <1>10, <1>11 DEF IInv

\* Every step keeps the invariant.
LEMMA StepKeeps == ASSUME IInv, [Next]_vars PROVE IInv'
<1>1. CASE Start
  BY <1>1, StartKeeps
<1>2. CASE Poll
  BY <1>2, PollKeeps
<1>3. CASE Pull
  BY <1>3, PullKeeps
<1>4. CASE Orphan
  BY <1>4, OrphanKeeps
<1>5. CASE PairedFirst
  BY <1>5, PairedFirstKeeps
<1>6. CASE Look
  BY <1>6, LookKeeps
<1>7. CASE Glacier \/ ParentReference \/ NoOverwrite \/ Oversize
  BY <1>7, LaterGatesKeep
<1>8. CASE Submit
  BY <1>8, SubmitKeeps
<1>9. CASE Drain
  BY <1>9, DrainKeeps
<1>10. CASE Cancel
  BY <1>10, CancelKeeps
<1>11. CASE \E key \in Keys : Settle(key) \/ DeleteSource(key) \/ Cleanup(key)
  BY <1>11, SettleKeeps, DeleteSourceKeeps, CleanupKeeps
<1>12. CASE Finished \/ UNCHANGED vars
  BY <1>12, StutterKeeps DEF Finished
<1> QED
  BY <1>1, <1>2, <1>3, <1>4, <1>5, <1>6, <1>7, <1>8, <1>9, <1>10, <1>11, <1>12 DEF Next

\* The inductive invariant holds in every reachable state.
THEOREM IInvHolds == Spec => []IInv
BY InitHolds, StepKeeps, PTL DEF Spec

\* Type correctness of the run and its items.
THEOREM ProducersTyped == Spec => []TypeOK
<1>1. IInv => TypeOK
  BY TypesFollow DEF IInv
<1> QED
  BY <1>1, IInvHolds, PTL

\* What was downloaded stays in its file, but for a twin that is the same file (gate and
\* Look; the walk of sync and the delete lane).
THEOREM LandedFilesStay == Spec => []LandedStays
<1>1. IInv => LandedStays
  BY DEF IInv
<1> QED
  BY <1>1, IInvHolds, PTL

\* A run that came to its end has taken every entry, and no item of it is left.
LEMMA EndedRunAccounts == ASSUME IInv PROVE AllAccounted
<1> SUFFICES ASSUME pc = "out", exc \in {"none", "batch"}, plan.form # "bucket",
                    NEW key \in Keys, Visible(key)
             PROVE  \/ fate[key] = "submitted" /\ outcome[key] # "none"
                    \/ /\ fate[key] \in {"same", "notice", "warned", "skipped", "dryrun"}
                       /\ outcome[key] = "none" /\ key \in source
  BY DEF AllAccounted
<1>1. at = Len(plan.order) /\ plan.kind[key] # "absent"
  BY DEF IInv, LoopOK, Visible
<1>2. Reached(key)
  BY <1>1, PlanShape DEF IInv, Reached
<1>3. fate[key] \in Fates \ {"none", "error", "deleted", "undeleted"}
  BY <1>2 DEF IInv, FatesOK, Types
<1>4. CASE fate[key] = "submitted"
  BY <1>4 DEF IInv, ItemsOK
<1>5. CASE fate[key] # "submitted"
  BY <1>1, <1>3, <1>5 DEF IInv, ItemsOK, Fates
<1> QED
  BY <1>4, <1>5

\* Every visible entry of a run that came to its end was transferred or consumed, once.
THEOREM EveryEntryAccounted == Spec => []AllAccounted
BY IInvHolds, EndedRunAccounts, PTL

\* The conflict check finds nothing but twins in flight, files, and names left behind by
\* entries that were admitted and then not transferred.
LEMMA JudgedForAReason ==
  ASSUME IInv, Next, judged' # judged
  PROVE  \/ Exists(k)
         \/ \E t \in Twins(k) :
              \/ flight[t] \notin {"none", "over"}
              \/ t \in gated /\ fate[t] \in {"warned", "skipped", "dryrun"}
<1>1. Look
  BY DEF Next, Start, Poll, Pull, Orphan, PairedFirst, Glacier, ParentReference, NoOverwrite,
         Oversize, Submit, Drain, Cancel, Finished, Settle, DeleteSource, Cleanup, vars, gate
<1>2. pc = "gate" /\ gates # << >> /\ Head(gates) = "case"
  BY <1>1 DEF Look, At
<1>3. gates = GateChain /\ k \notin gated
  BY <1>2, GatePassed DEF IInv, Types, LoopOK
<1>4. plan.fold[k] \in submitted \/ Exists(k)
  BY <1>1 DEF Look
<1>5. CASE plan.fold[k] \in submitted
  <2>1. PICK t \in gated : plan.fold[t] = plan.fold[k] /\ flight[t] # "over"
    BY <1>5 DEF IInv, SetOK
  <2>2. t \in Twins(k)
    BY <1>3, <2>1 DEF IInv, Types, Twins
  <2>3. CASE flight[t] # "none"
    BY <2>1, <2>2, <2>3
  <2>4. CASE flight[t] = "none"
    <3>1. fate[t] \in {"none", "warned", "skipped", "dryrun", "submitted"} /\ Visible(t)
          /\ Reached(t) /\ t \in Keys
      BY <2>1 DEF IInv, FatesOK, Types
    <3>2. fate[t] # "none" /\ fate[t] # "submitted"
      BY <1>3, <2>1, <2>4, <3>1 DEF IInv, FatesOK, ItemsOK
    <3> QED
      BY <2>1, <2>2, <3>1, <3>2
  <2> QED
    BY <2>3, <2>4
<1> QED
  BY <1>4, <1>5

\* A download is called a conflict only over a file or a twin that is not over.
THEOREM ConflictsAreReal == Spec => ConflictIsReal
<1>1. IInv /\ [Next]_vars =>
        [judged' # judged =>
           \/ Exists(k)
           \/ \E t \in Twins(k) :
                \/ flight[t] \notin {"none", "over"}
                \/ t \in gated /\ fate[t] \in {"warned", "skipped", "dryrun"}]_vars
  BY JudgedForAReason
<1> QED
  BY <1>1, IInvHolds, PTL DEF Spec, ConflictIsReal
=============================================================================
