----------------------------- MODULE PairLedger -----------------------------
(***************************************************************************)
(* What a sync promises about the pairs its comparison yields (docstrings  *)
(* of S3.sync and _run_sync_pairs, src/boto3_s3/s3.py): every pair is      *)
(* decided at most once and acted on at most once, only after its filter   *)
(* accepted it; a normal return means that every accepted pair succeeded;  *)
(* a batch error that every accepted pair settled and some failed; and no  *)
(* decision is still out when the operation raises anything else.  The one *)
(* opening is a Ctrl-C that breaks the bookkeeping itself.                 *)
(***************************************************************************)
CONSTANT Pairs

VARIABLES
  stage,                     \* how far each pair got
  ended                      \* how the operation ended

vars == <<stage, ended>>

Init == stage = [p \in Pairs |-> "unseen"] /\ ended = "running"

\* Each pair moves along this relation, one step at a time: a pair of a lane that
\* is off is skipped; a decision may be void (it raised, or was cancelled).
Follows == {<<"unseen", "skipped">>, <<"unseen", "deciding">>,
            <<"deciding", "rejected">>, <<"deciding", "accepted">>, <<"deciding", "void">>,
            <<"accepted", "acted">>, <<"acted", "done">>, <<"acted", "failed">>}

Final == {"skipped", "rejected", "done"}

Progress(p, s) ==
  /\ <<stage[p], s>> \in Follows
  /\ stage' = [stage EXCEPT ![p] = s]
  /\ UNCHANGED ended

\* Decisions that never started are revoked together.
Revoke(S) ==
  /\ \A p \in S : stage[p] = "deciding"
  /\ stage' = [p \in Pairs |-> IF p \in S THEN "void" ELSE stage[p]]
  /\ UNCHANGED ended

Return == (\A p \in Pairs : stage[p] \in Final) /\ ended' = "returned"
ReportFailures ==
  /\ \A p \in Pairs : stage[p] \in Final \cup {"failed"}
  /\ \E p \in Pairs : stage[p] = "failed"
  /\ ended' = "batch_error"
Raise == (\A p \in Pairs : stage[p] # "deciding") /\ ended' = "raised"
BreakOff == ended' = "broken"

Next ==
  \/ /\ ended \in {"running", "broken"}
     /\ \/ \E p \in Pairs, s \in {t[2] : t \in Follows} : Progress(p, s)
        \/ \E S \in SUBSET Pairs : Revoke(S)
  \/ /\ ended = "running" /\ UNCHANGED stage
     /\ Return \/ ReportFailures \/ Raise \/ BreakOff

Spec == Init /\ [][Next]_vars
=============================================================================
