---------------------------- MODULE DeleteLedger ----------------------------
(***************************************************************************)
(* What an S3Deleter promises about the entries it is handed (module and   *)
(* class docstrings of src/boto3_s3/deleter.py, and those of flush and     *)
(* close): they go out in submission order, in batches of at most          *)
(* BatchSize, one batch in flight at a time, and each only after the token *)
(* was read once more: of the batches, a cancel lets out at most the one   *)
(* that was cleared before it.  Only keys in flight are deleted; a record  *)
(* is of an entry in flight, comes in submission order and tells success   *)
(* only of a deleted key.  close waits for what is in flight.  It leaves   *)
(* an entry in the buffer only for a cancel or a run that was cut short,   *)
(* and one of a batch without an answer only if the cancel was immediate   *)
(* or the run was cut short. A KeyboardInterrupt opens two of these doors, *)
(* and no other: the batch whose wait it broke may still be in flight when *)
(* the next is handed over, and breaking the last wait leaves the worker   *)
(* behind.                                                                 *)
(***************************************************************************)
EXTENDS Naturals

CONSTANTS NumEntries, Keys, BatchSize

VARIABLES
  keyOf, crt,                \* the key of each entry; whether the CRT client sends
  token,                     \* the cancel token
  stage,                     \* how far each entry got
  cleared,                   \* the caller read the token for the next batch
  gone,                      \* the keys the service deleted
  cut,                       \* what cut the run short: "no", "short" or "interrupted"
  ended                      \* "open", "closed", or "broken" by an interrupt

fixed == <<keyOf, crt>>
vars == <<fixed, token, stage, cleared, gone, cut, ended>>

Entries == 1 .. NumEntries
Reported == {"succeeded", "failed"}
Unreported == {"lost", "void"}       \* its own request died on botocore; its batch gave up
Stages == {"unseen", "buffered", "out"} \cup Reported \cup Unreported

At(s) == {e \in Entries : stage[e] = s}
Before(e) == 1 .. e - 1

Init ==
  /\ keyOf \in [Entries -> Keys] /\ crt \in BOOLEAN
  /\ token = "none" /\ cut = "no" /\ ended = "open" /\ gone = {} /\ cleared = FALSE
  /\ stage = [e \in Entries |-> "unseen"]

Moves(S, s) == stage' = [e \in Entries |-> IF e \in S THEN s ELSE stage[e]]

Accept ==
  /\ \E e \in At("unseen") : Before(e) \cap At("unseen") = {} /\ Moves({e}, "buffered")
  /\ UNCHANGED <<fixed, token, cleared, gone, cut, ended>>

\* The token is read once for every batch.
Clear ==
  /\ token = "none"
  /\ cleared' = TRUE
  /\ UNCHANGED <<fixed, token, stage, gone, cut, ended>>

\* A batch is the head of the buffer.
HandOver ==
  /\ cleared /\ cleared' = FALSE
  /\ At("out") = {} \/ cut = "interrupted"
  /\ \E last \in At("buffered") :
       LET batch == At("buffered") \cap 1 .. last
       IN (\A e \in batch : last < e + BatchSize) /\ Moves(batch, "out")
  /\ UNCHANGED <<fixed, token, gone, cut, ended>>

Delete ==
  /\ \E S \in SUBSET At("out") : gone' = gone \cup {keyOf[e] : e \in S}
  /\ UNCHANGED <<fixed, token, cleared, stage, cut, ended>>

\* Entries in flight are done with: reported, or given up with their batch.
Changed == {e \in Entries : stage'[e] # stage[e]}
Told == {e \in Changed : stage'[e] \in Reported}
Settle ==
  /\ stage' \in [Entries -> Stages]
  /\ \A e \in Changed : stage[e] = "out" /\ stage'[e] \in Reported \cup Unreported
  /\ \A e \in Told : Before(e) \cap At("out") = {}
  /\ \A e \in Told : stage'[e] = "succeeded" => keyOf[e] \in gone
  /\ \A e \in Changed : stage'[e] = "lost" => ~crt
  /\ UNCHANGED <<fixed, token, cleared, gone, cut, ended>>

Cancel ==
  /\ token' = "immediate" \/ (token = "none" /\ token' = "graceful")
  /\ UNCHANGED <<fixed, stage, cleared, gone, cut, ended>>

\* An abandoning close, an exception the caller was told, or an interrupt.
CutShort ==
  /\ cut' = "interrupted" \/ (cut = "no" /\ cut' = "short")
  /\ UNCHANGED <<fixed, token, cleared, stage, gone, ended>>

Close ==
  /\ ended' = "closed"
  /\ At("out") = {}
  /\ At("buffered") # {} => token # "none" \/ cut # "no"
  /\ At("void") # {} => token = "immediate" \/ cut # "no"
  /\ UNCHANGED <<fixed, token, cleared, stage, gone, cut>>

BreakOff ==
  /\ ended' = "broken" /\ cut' = "interrupted"
  /\ UNCHANGED <<fixed, token, cleared, stage, gone>>

Next ==
  \/ ended = "open" /\ (Accept \/ Clear \/ HandOver \/ CutShort \/ Close \/ BreakOff)
  \/ ended # "closed" /\ (Delete \/ Settle \/ Cancel)

Spec == Init /\ [][Next]_vars
=============================================================================
