----------------------------- MODULE Producers ------------------------------
(***************************************************************************)
(* The producers of cp, mv and sync (src/boto3_s3/producers.py) between    *)
(* the listing and the engine: what is listed, which gate consumes an      *)
(* entry, and the case-conflict gate, whose in-flight set shrinks on the   *)
(* threads that settle downloads while the loop reads it.  Composed with   *)
(* the submission loop (S3._run_transfer, and the pair loop of S3.sync     *)
(* with its delete lane _SyncDeletes for a local destination) and with the *)
(* done subscribers of a download.                                         *)
(*                                                                         *)
(* Abstraction.  A key is a number, in byte order; Fold gives the first of *)
(* the keys it equals when case is ignored.  A file holds the bytes of one *)
(* key, or the old ones, and keeps the name it was made with.  cp lists    *)
(* the destination before its source; sync walks it while the downloads    *)
(* land, so a file of the run itself may turn up in it (found).  That a    *)
(* link between its directories gives a file two names is left out.        *)
(* Decisions of sync on its own thread or a pool differ only in the order  *)
(* the pairs arrive in.  What submit and the engine do is Transferrer's.   *)
(***************************************************************************)
EXTENDS Naturals, Sequences, FiniteSets

CONSTANTS
  NumKeys,
  Plans                      \* the runs considered, see PlanFields

Keys == 1 .. NumKeys
Routes == {"upload", "download", "copy", "opens3", "s3open"}
Kinds == {"absent", "hidden", "plain", "glacier", "restored", "parent", "oversize"}

ASSUME ProducersAssumption ==
  /\ NumKeys \in Nat
  /\ \A p \in Plans :
       /\ p.route \in Routes
       /\ p.form \in {"tree", "object", "bucket"}        \* what the source names
       /\ p.mode \in {"ignore", "skip", "warn", "error"} \* case_conflict
       /\ p.glacier \in {"warn", "ignore", "force"}
       /\ {p.sync, p.move, p.insensitive, p.no_overwrite, p.dryrun, p.delete, p.capable}
            \subseteq BOOLEAN
       \* How the entries arrive: each once, all that are there, or the one that was named.
       /\ p.order \in Seq(Keys)
       /\ \A m, n \in 1 .. Len(p.order) : p.order[m] = p.order[n] => m = n
       /\ p.form # "tree" => Len(p.order) <= 1
       /\ p.kind \in [Keys -> Kinds] /\ p.fold \in [Keys -> Keys]
       /\ \A key \in Keys :
            p.kind[key] # "absent" => \E n \in 1 .. Len(p.order) : p.order[n] = key
       \* The files already there.  Only a local directory may ignore case, and then it
       \* has no two names that differ by case alone.
       /\ p.dest \subseteq Keys
       \* The name of the file a download makes: its own, or where case is ignored the one
       \* that the directories already there give it.
       /\ p.spelled \in [Keys -> Keys]
       /\ \A key \in Keys :
            /\ p.fold[p.spelled[key]] = p.fold[key]
            /\ p.spelled[key] # key => p.insensitive
       /\ p.insensitive =>
            /\ p.route = "download"
            /\ \A d, e \in p.dest : p.fold[d] = p.fold[e] => d = e

VARIABLES
  plan,                      \* fixed for the run
  pc, at, gates,             \* the loop: where it is, entries taken, gates ahead of this one
  looks,                     \* how many of its two looks the conflict check has had
  rest,                      \* _DestinationMerge: the destination keys still ahead
  found,                     \* the names of landed files that sync's walk came upon
  submitted, gated,          \* the in-flight set; the items that carry its cleanup
  judged,                    \* the entries the conflict check found in conflict
  fate,                      \* what the producers did with each entry
  flight, outcome,           \* each submitted item: its stage, and how its body ended
  source, disk,              \* the keys left at the source; what each file holds
  token, exc                 \* the cancel token; what is unwinding

loop == <<pc, at, gates, looks>>
gate == <<rest, found, submitted, gated, judged>>
items == <<flight, outcome, source, disk>>
vars == <<plan, loop, gate, fate, items, token, exc>>

None == 0                    \* no file
Old == NumKeys + 1           \* a file with other bytes

k == plan.order[at]
Slot(key) == IF plan.insensitive THEN plan.fold[key] ELSE key
Twins(key) == {t \in Keys \ {key} : plan.fold[t] = plan.fold[key]}
Exists(key) == disk[Slot(key)] # None

\* The entry is listed, and the filter and the folder-marker rule let it through.
Visible(key) == plan.kind[key] \notin {"absent", "hidden"}
DestListing == {key \in plan.dest : plan.kind[key] # "hidden"}
Listed == DestListing \cup found

GlacierBlocked(key) ==
  /\ plan.glacier # "force"
  /\ plan.kind[key] = "glacier" \/ (plan.kind[key] = "restored" /\ plan.form # "object")

Recursive == plan.form = "tree"
CaseGate == plan.route = "download" /\ Recursive /\ plan.mode # "ignore"

\* The gates of each route, in the order its item builder runs them.
GateChain ==
  CASE plan.route = "download" -> <<"case", "glacier", "parent", "overwrite">>
    [] plan.route \in {"copy", "s3open"} -> <<"glacier">>
    [] plan.route \in {"upload", "opens3"} -> <<"oversize">>

Init ==
  /\ plan \in Plans
  /\ pc = "start" /\ at = 0 /\ gates = << >> /\ looks = 0
  /\ rest = {} /\ found = {} /\ submitted = {} /\ gated = {} /\ judged = {}
  /\ fate = [key \in Keys |-> "none"]
  /\ flight = [key \in Keys |-> "none"] /\ outcome = [key \in Keys |-> "none"]
  /\ source = {key \in Keys : plan.kind[key] # "absent"}
  /\ disk = [key \in Keys |-> IF \E d \in plan.dest : Slot(d) = key THEN Old ELSE None]
  /\ token = FALSE /\ exc = "none"

-----------------------------------------------------------------------------
(* The loop and the source.                                                *)

Raise(what) == exc' = what /\ pc' = "drain"
Goto(where) == pc' = where /\ UNCHANGED exc

\* A custom side that lacks a capability, or a directory that cannot be made, is
\* refused before anything is listed; then the case gate lists the destination.
Start ==
  /\ pc = "start"
  /\ \/ plan.capable /\ Goto("poll")
     \/ Raise("refused")
  /\ rest' = IF CaseGate /\ ~plan.sync THEN DestListing ELSE {}
  /\ UNCHANGED <<plan, at, gates, looks, found, submitted, gated, judged, fate, items, token>>

Poll ==
  /\ pc = "poll"
  /\ IF token THEN Raise("cancelled") ELSE Goto("pull")
  /\ UNCHANGED <<plan, at, gates, looks, gate, fate, items, token>>

\* A single source that is not there: an S3 or custom one raises, a local one warns.
Absent ==
  IF plan.route = "upload" THEN Goto("poll") ELSE Raise("fatal")

\* sync's walk of the destination reads a directory when it gets to it, in byte order.
\* So it may list a name that was not there at the start: that of a file the run made
\* for an earlier key, in a directory whose own name differs from the key's by case.
WalkFinds(name) ==
  /\ plan.sync /\ plan.kind[name] # "hidden" /\ Exists(name)
  /\ \A other \in plan.dest \cup found : plan.fold[other] # plan.fold[name]
  /\ \E t \in Twins(name) :
       t < name /\ plan.spelled[t] = name /\ outcome[t] \in {"ok", "undeleted"}

\* The next entry: a keyless source lists and matches nothing, an entry the filter
\* drops is passed over, a pair that sync decides against stays as it is.  The listing
\* may raise.
Pull ==
  /\ pc = "pull"
  /\ \/ Raise("fatal") /\ UNCHANGED <<at, gates, looks, found, fate>>
     \/ /\ at = Len(plan.order) \/ plan.form = "bucket"
        /\ Goto("drain") /\ UNCHANGED <<at, gates, looks, found, fate>>
     \/ /\ at < Len(plan.order) /\ plan.form # "bucket" /\ at' = at + 1
        /\ LET key == plan.order[at'] IN
             UNCHANGED found \/ (WalkFinds(key) /\ found' = found \cup {key})
        /\ LET key == plan.order[at']
               paired == plan.sync /\ key \in DestListing \cup found'
           IN \/ /\ Visible(key) /\ Goto("gate")
                 /\ gates' = GateChain /\ looks' = 0 /\ UNCHANGED fate
              \/ /\ Visible(key) /\ paired /\ Goto("poll")
                 /\ fate' = [fate EXCEPT ![key] = "same"]
                 /\ UNCHANGED <<gates, looks>>
              \/ /\ ~Visible(key) /\ ~Recursive /\ plan.kind[key] = "absent"
                 /\ Absent /\ UNCHANGED <<gates, looks, fate>>
              \/ /\ ~Visible(key) /\ ~(~Recursive /\ plan.kind[key] = "absent")
                 /\ Goto(IF paired /\ plan.delete THEN "orphan" ELSE "poll")
                 /\ UNCHANGED <<gates, looks, fate>>
  /\ UNCHANGED <<plan, rest, submitted, gated, judged, items, token>>

\* The delete lane of sync removes a local orphan on this thread.
Orphan ==
  /\ pc = "orphan" /\ Goto("poll")
  /\ \/ ~plan.dryrun /\ Exists(k) /\ disk' = [disk EXCEPT ![Slot(k)] = None]
        /\ fate' = [fate EXCEPT ![k] = "deleted"]
     \/ ~plan.dryrun /\ fate' = [fate EXCEPT ![k] = "undeleted"] /\ UNCHANGED disk
     \/ plan.dryrun /\ fate' = [fate EXCEPT ![k] = "dryrun"] /\ UNCHANGED disk
  /\ UNCHANGED <<plan, at, gates, looks, gate, flight, outcome, source, token>>

-----------------------------------------------------------------------------
(* The gates.  Each lets the entry pass to the next or consumes it.        *)

At(name) == pc = "gate" /\ gates # << >> /\ Head(gates) = name
Pass == gates' = Tail(gates) /\ UNCHANGED <<pc, exc, fate>>
Consume(why) == gates' = << >> /\ Goto("poll") /\ fate' = [fate EXCEPT ![k] = why]

\* A key the destination has in this very case is copied without a check: cp merges the
\* listing (_DestinationMerge.pairs passes over the smaller keys and takes an equal one),
\* sync has paired already and gives a pair no gate.
PairedFirst ==
  /\ At("case") /\ looks = 0
  /\ IF CaseGate /\ ~plan.sync THEN rest' = {d \in rest : d > k} ELSE UNCHANGED rest
  /\ IF ~CaseGate \/ (IF plan.sync THEN k \in Listed ELSE k \in rest)
     THEN Pass /\ looks' = looks
     ELSE looks' = 1 /\ UNCHANGED <<pc, exc, gates, fate>>
  /\ UNCHANGED <<plan, at, found, submitted, gated, judged, items, token>>

AdmitUnfolded == submitted' = submitted \cup {k} /\ gated' = gated \cup {k}

\* _admit: the folded key joins the set, the item will take it out.
Admit == submitted' = submitted \cup {plan.fold[k]} /\ gated' = gated \cup {k}

LookOrderSwapped == <<"disk", "set">>

\* blocks looks at the set, then at the file system.
LookOrder == <<"set", "disk">>

InConflict ==
  /\ judged' = judged \cup {k}
  /\ CASE plan.mode = "skip" -> Consume("notice") /\ UNCHANGED <<submitted, gated>>
       [] plan.mode = "warn" -> Pass /\ Admit
       [] plan.mode = "error" -> Raise("fatal") /\ gates' = << >>
                                 /\ fate' = [fate EXCEPT ![k] = "error"]
                                 /\ UNCHANGED <<submitted, gated>>

Look ==
  /\ At("case") /\ looks \in 1 .. 2
  /\ LET conflict == IF LookOrder[looks] = "set" THEN plan.fold[k] \in submitted ELSE Exists(k)
     IN \/ conflict /\ InConflict
        \/ ~conflict /\ looks = 2 /\ Pass /\ Admit /\ UNCHANGED judged
        \/ ~conflict /\ looks = 1 /\ UNCHANGED <<pc, exc, gates, fate, submitted, gated, judged>>
  /\ looks' = looks + 1
  /\ UNCHANGED <<plan, at, rest, found, items, token>>

GlacierWarnsOnly ==
  /\ At("glacier")
  /\ gates' = Tail(gates) /\ UNCHANGED <<pc, exc>>
  /\ fate' = IF GlacierBlocked(k) THEN [fate EXCEPT ![k] = "warned"] ELSE fate
  /\ UNCHANGED <<plan, at, looks, gate, items, token>>

\* Blocked objects are skipped in silence or with a warning.
Glacier ==
  /\ At("glacier")
  /\ IF GlacierBlocked(k)
     THEN Consume(IF plan.glacier = "ignore" THEN "skipped" ELSE "warned")
     ELSE Pass
  /\ UNCHANGED <<plan, at, looks, gate, items, token>>

ParentReference ==
  /\ At("parent")
  /\ IF plan.kind[k] = "parent" THEN Consume("warned") ELSE Pass
  /\ UNCHANGED <<plan, at, looks, gate, items, token>>

NoOverwrite ==
  /\ At("overwrite")
  /\ IF plan.no_overwrite /\ Exists(k) THEN Consume("skipped") ELSE Pass
  /\ UNCHANGED <<plan, at, looks, gate, items, token>>

\* An oversize upload is warned about and attempted all the same.
Oversize ==
  /\ At("oversize") /\ Pass
  /\ UNCHANGED <<plan, at, looks, gate, items, token>>

Submit ==
  /\ pc = "gate" /\ gates = << >> /\ Goto("poll")
  /\ IF plan.dryrun
     THEN fate' = [fate EXCEPT ![k] = "dryrun"] /\ UNCHANGED flight
     ELSE fate' = [fate EXCEPT ![k] = IF @ = "none" THEN "submitted" ELSE "twice"]
          /\ flight' = [flight EXCEPT ![k] = "live"]
  /\ UNCHANGED <<plan, at, gates, looks, gate, outcome, source, disk, token>>

\* Everything handed over settles before the run ends; then the verdict.
Drain ==
  /\ pc = "drain" /\ \A key \in Keys : flight[key] \in {"none", "over"}
  /\ pc' = "out"
  /\ exc' = IF exc # "none" THEN exc
            ELSE IF token THEN "cancelled"
            ELSE IF \E key \in Keys : \/ outcome[key] \in {"failed", "undeleted"}
                                      \/ fate[key] = "undeleted"
                 THEN "batch" ELSE "none"
  /\ UNCHANGED <<plan, at, gates, looks, gate, fate, items, token>>

-----------------------------------------------------------------------------
(* The items in flight, on the engine's threads, and the token.            *)

\* The body ends: it lands whole under its name, or leaves the destination alone.
Settle(key) ==
  /\ flight[key] = "live"
  /\ flight' = [flight EXCEPT ![key] = IF plan.move THEN "settled" ELSE "handled"]
  /\ \/ /\ outcome' = [outcome EXCEPT ![key] = "ok"]
        /\ disk' = [disk EXCEPT ![Slot(key)] = key]
     \/ outcome' = [outcome EXCEPT ![key] = "failed"] /\ UNCHANGED disk
  /\ UNCHANGED <<plan, loop, gate, fate, source, token, exc>>

\* _DeleteSource: the key of a move that landed; the delete may fail.
DeleteSource(key) ==
  /\ flight[key] = "settled" /\ flight' = [flight EXCEPT ![key] = "handled"]
  /\ \/ outcome[key] = "ok" /\ source' = source \ {key} /\ UNCHANGED outcome
     \/ outcome[key] = "ok" /\ outcome' = [outcome EXCEPT ![key] = "undeleted"] /\ UNCHANGED source
     \/ outcome[key] = "failed" /\ UNCHANGED <<outcome, source>>
  /\ UNCHANGED <<plan, loop, gate, fate, disk, token, exc>>

CleanupOnSuccess(key) ==
  /\ flight[key] = "handled" /\ flight' = [flight EXCEPT ![key] = "over"]
  /\ submitted' = IF key \in gated /\ outcome[key] = "ok"
                  THEN submitted \ {plan.fold[key]} ELSE submitted
  /\ UNCHANGED <<plan, loop, rest, found, gated, judged, fate, outcome, source, disk, token, exc>>

\* _CaseConflictCleanup, with the record that follows it on the same thread.
Cleanup(key) ==
  /\ flight[key] = "handled" /\ flight' = [flight EXCEPT ![key] = "over"]
  /\ submitted' = IF key \in gated THEN submitted \ {plan.fold[key]} ELSE submitted
  /\ UNCHANGED <<plan, loop, rest, found, gated, judged, fate, outcome, source, disk, token, exc>>

Cancel == ~token /\ token' = TRUE /\ UNCHANGED <<plan, loop, gate, fate, items, exc>>

Finished == pc = "out" /\ UNCHANGED vars

Next ==
  \/ Start \/ Poll \/ Pull \/ Orphan
  \/ PairedFirst \/ Look \/ Glacier \/ ParentReference \/ NoOverwrite \/ Oversize
  \/ Submit \/ Drain \/ Cancel \/ Finished
  \/ \E key \in Keys : Settle(key) \/ DeleteSource(key) \/ Cleanup(key)

Spec == Init /\ [][Next]_vars

-----------------------------------------------------------------------------
(* Properties.                                                             *)

TypeOK ==
  /\ pc \in {"start", "poll", "pull", "orphan", "gate", "drain", "out"}
  /\ at \in 0 .. Len(plan.order) /\ looks \in 0 .. 3 /\ token \in BOOLEAN
  /\ \E n \in 1 .. Len(GateChain) + 1 : gates = SubSeq(GateChain, n, Len(GateChain))
  /\ {rest, found, gated, judged, source} \subseteq SUBSET Keys
  /\ submitted \subseteq {plan.fold[key] : key \in gated}
  /\ \A key \in Keys :
       /\ fate[key] \in {"none", "same", "notice", "error", "warned", "skipped", "dryrun",
                         "submitted", "deleted", "undeleted"}
       /\ flight[key] \in {"none", "live", "settled", "handled", "over"}
       /\ outcome[key] \in {"none", "ok", "undeleted", "failed"}
       /\ disk[key] \in {None, Old} \cup Keys
  /\ exc \in {"none", "refused", "fatal", "cancelled", "batch"}

\* Its body landed, also where the delete of a moved source then failed.
Landed(key) ==
  outcome[key] \in {"ok", "undeleted"} \/ (plan.kind[key] # "absent" /\ key \notin source)

ArrivesBefore(t, u) ==
  \E m, n \in 1 .. Len(plan.order) : m < n /\ plan.order[m] = t /\ plan.order[n] = u

Refusing == plan.mode \in {"skip", "error"}

\* A twin was downloaded to the file, or deleted as an orphan that arrived later; where
\* conflicts are refused, later in both cases, and under a name sync's walk found.
TwinTook(key) ==
  \E t \in Twins(key) :
    /\ fate[t] = "deleted" \/ outcome[t] \in {"ok", "undeleted"}
    /\ fate[t] = "deleted" \/ Refusing => ArrivesBefore(key, t)
    /\ Refusing => t \in found

\* What was downloaded stays in its file ("the colliding entry is skipped",
\* docs/library/transfer-options.md:137), and a move whose source is gone has its bytes.
\* It goes only to a twin, an entry whose name differs by case alone and is the same file:
\* one that was downloaded over it, or an orphan that arrived later and was deleted
\* (docstring of ParallelFilter, comparator.py:160: "whose survival is a matter of
\* timing").  Where conflicts are refused there is one way left: the twin is the landed
\* file itself, which the walk of sync found under the name it was given.
LandedStays ==
  \A key \in Keys :
    Landed(key) /\ disk[Slot(key)] # key => plan.insensitive /\ TwinTook(key)

\* Nothing is called a conflict over a download that ended: when the check finds one, a
\* twin is in flight or the file exists.  Or the check admitted a twin that was then not
\* downloaded, because a later gate consumed it or the run is dry: its key stays in the
\* set for the rest of the run.
ConflictIsReal ==
  [][judged' # judged =>
       \/ Exists(k)
       \/ \E t \in Twins(k) :
            \/ flight[t] \notin {"none", "over"}
            \/ t \in gated /\ fate[t] \in {"warned", "skipped", "dryrun"}]_vars

\* A run that comes to its end has given every visible entry exactly one fate: handed
\* over once and settled, or consumed by one gate, and then it is neither transferred
\* nor, by a move, deleted.
AllAccounted ==
  pc = "out" /\ exc \in {"none", "batch"} /\ plan.form # "bucket" =>
    \A key \in Keys : Visible(key) =>
      \/ fate[key] = "submitted" /\ outcome[key] # "none"
      \/ /\ fate[key] \in {"same", "notice", "warned", "skipped", "dryrun"}
         /\ outcome[key] = "none" /\ key \in source
=============================================================================
