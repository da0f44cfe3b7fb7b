--------------------------- MODULE TransferLedger ---------------------------
(***************************************************************************)
(* What a transfer run promises about the items its producer yields (class *)
(* docstring of Transferrer and those of __exit__ and submit, in           *)
(* src/boto3_s3/transfer.py; docs of the cancel modes it names): items are *)
(* accepted in the producer's order, and each only after the token was     *)
(* read once more.  Every accepted item gets one record, which never       *)
(* changes; it tells success only if the bytes landed and, for mv, the     *)
(* source is gone; a source goes only after its bytes landed.  An item is  *)
(* revoked only on an immediate cancel, or for an exception that the       *)
(* caller is told or owed, and what is owed is raised unless another       *)
(* exception is.  The operation ends when nothing that was accepted is     *)
(* outstanding, and how it ends is true of the records.                    *)
(***************************************************************************)
EXTENDS Naturals

CONSTANTS NumItems

VARIABLES
  move,                      \* is_move
  token,                     \* the cancel token
  open, polled,              \* the loop still takes items; it read the token for the next
  held,                      \* items accepted and not over
  record,                    \* the record of each item, "none" before
  landed, sourceGone,        \* items at the destination; moved sources deleted
  exc,                       \* what unwinds: "none", "cancelled" or "fatal"
  owed,                      \* an exception was noted for the caller
  ended                      \* how the operation ended for the caller

work == <<held, record, landed, sourceGone>>
vars == <<move, token, open, polled, work, exc, owed, ended>>

Items == 1 .. NumItems
Recorded == {i \in Items : record[i] # "none"}
Fresh == Items \ (held \cup Recorded)
Settled == {"succeeded", "skipped", "lost"}      \* "lost": counted nowhere, as aws-cli does

Init ==
  /\ move \in BOOLEAN /\ token = "none"
  /\ open = TRUE /\ polled = FALSE
  /\ held = {} /\ record = [i \in Items |-> "none"] /\ landed = {} /\ sourceGone = {}
  /\ exc = "none" /\ owed = FALSE /\ ended = "running"

-----------------------------------------------------------------------------
(* The loop that hands items over.                                         *)

Poll ==
  /\ open /\ token = "none"
  /\ polled' = TRUE
  /\ UNCHANGED <<move, token, open, work, exc, owed, ended>>

\* The next item in the producer's order is i.
Takes(i) == open /\ polled /\ polled' = FALSE /\ i \in Fresh /\ Fresh \cap 1 .. i - 1 = {}

Accept(i) ==
  /\ Takes(i)
  /\ held' = held \cup {i}
  /\ UNCHANGED <<move, token, open, record, landed, sourceGone, exc, owed, ended>>

Leave == open' = FALSE /\ polled' = FALSE

\* An item that cannot be handed over fails at once; on_result may raise on the spot.
FailAtOnce(i) ==
  /\ Takes(i)
  /\ record' = [record EXCEPT ![i] = "failed"]
  /\ UNCHANGED <<open, exc>> \/ (Leave /\ exc' = "fatal")
  /\ UNCHANGED <<move, token, held, landed, sourceGone, owed, ended>>

\* The producer is exhausted, the token's own exception leaves the loop, or
\* another one does; one that was owed is then told.
Stop ==
  /\ open /\ Leave
  /\ \/ exc' = "cancelled" /\ token # "none" /\ UNCHANGED owed
     \/ exc' = "fatal" /\ owed' \in {FALSE, owed}
     \/ UNCHANGED <<exc, owed>>
  /\ UNCHANGED <<move, token, work, ended>>

\* An interrupt of the drain, or an exception that is owed after it.
Unwind ==
  /\ ~open /\ exc' = "fatal"
  /\ UNCHANGED owed \/ (exc = "none" /\ held = {} /\ owed' = FALSE)
  /\ UNCHANGED <<move, token, open, polled, work, ended>>

-----------------------------------------------------------------------------
(* The engine and the subscribers of an item.                              *)

Land(i) ==
  /\ i \in held
  /\ landed' = landed \cup {i}
  /\ UNCHANGED <<move, token, open, polled, held, record, sourceGone, exc, owed, ended>>

DeleteSource(i) ==
  /\ move /\ i \in held \cap landed
  /\ sourceGone' = sourceGone \cup {i}
  /\ UNCHANGED <<move, token, open, polled, held, record, landed, exc, owed, ended>>

\* The caller's own code raised on a thread of the engine.
Owe ==
  /\ held # {}
  /\ owed' = TRUE
  /\ UNCHANGED <<move, token, open, polled, work, exc, ended>>

Record(i) ==
  /\ i \in held /\ held' = held \ {i}
  /\ \E r \in Settled \cup {"failed", "cancelled"} :
       /\ record' = [record EXCEPT ![i] = r]
       /\ r = "succeeded" => i \in landed /\ (move => i \in sourceGone)
       /\ r = "cancelled" => token = "immediate" \/ exc = "fatal" \/ owed'
  /\ owed' \in {owed, TRUE}
  /\ UNCHANGED <<move, token, open, polled, landed, sourceGone, exc, ended>>

-----------------------------------------------------------------------------
(* The token, and the end.                                                 *)

Cancel ==
  /\ token' = "immediate" \/ (token = "none" /\ token' = "graceful")
  /\ UNCHANGED <<move, open, polled, work, exc, owed, ended>>

\* Nothing is left to tell but the records.
Clear == token = "none" /\ exc = "none" /\ \A i \in Items : record[i] # "cancelled"

End ==
  /\ ~open /\ held = {}
  /\ exc = "none" => ~owed
  /\ \/ ended' = "returned" /\ Clear /\ \A i \in Recorded : record[i] \in Settled
     \/ ended' = "batch" /\ Clear /\ \E i \in Recorded : record[i] = "failed"
     \/ ended' = "cancelled" /\ token # "none" /\ exc # "fatal"
     \/ ended' = "raised" /\ exc = "fatal"
  /\ UNCHANGED <<move, token, open, polled, work, exc, owed>>

Next ==
  /\ ended = "running"
  /\ \/ Poll \/ Stop \/ Unwind \/ Owe \/ Cancel \/ End
     \/ \E i \in Items : Accept(i) \/ FailAtOnce(i) \/ Land(i) \/ DeleteSource(i) \/ Record(i)

Spec == Init /\ [][Next]_vars
=============================================================================
