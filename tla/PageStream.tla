----------------------------- MODULE PageStream -----------------------------
(***************************************************************************)
(* What a scan promises to the code that iterates it, whatever threads     *)
(* deliver the pages: the pages of the source, in order, none twice and    *)
(* none skipped; a source failure surfaces after every page that preceded  *)
(* it and only then; the stream ends cleanly before the last page only     *)
(* when the operation was cancelled.                                       *)
(*                                                                         *)
(* src/boto3_s3/concurrency.py: the contract in the docstrings of the      *)
(* module and of `prefetch`.                                               *)
(***************************************************************************)
EXTENDS Naturals

CONSTANT NumPages            \* how many pages the source holds (a natural number)

VARIABLES
  delivered,                 \* pages handed to the consumer so far
  fault,                     \* 0, or 1 + the pages the source returned before it raised
  cancelled,                 \* the cancel token
  status                     \* how the consumer sees the stream

streamVars == <<delivered, fault, cancelled, status>>

Init ==
  /\ delivered = 0
  /\ fault = 0
  /\ cancelled = FALSE
  /\ status = "open"

Cancel ==
  /\ ~cancelled
  /\ cancelled' = TRUE
  /\ UNCHANGED <<delivered, fault, status>>

\* The source raises: it will never return another page.
SourceFails ==
  /\ fault = 0
  /\ \E k \in delivered .. NumPages : fault' = k + 1
  /\ UNCHANGED <<delivered, cancelled, status>>

\* The next page of the source, if it was returned at all.
Deliver ==
  /\ status = "open"
  /\ delivered < NumPages
  /\ fault # 0 => delivered + 1 < fault
  /\ delivered' = delivered + 1
  /\ UNCHANGED <<fault, cancelled, status>>

\* Clean exhaustion: all of the source, or less of it under a cancel, and
\* never instead of the source's failure.
End ==
  /\ status = "open"
  /\ fault = 0
  /\ delivered = NumPages \/ cancelled
  /\ status' = "ended"
  /\ UNCHANGED <<delivered, fault, cancelled>>

\* The failure surfaces, after every page that preceded it.
Raise ==
  /\ status = "open"
  /\ fault # 0
  /\ fault = delivered + 1
  /\ status' = "failed"
  /\ UNCHANGED <<delivered, fault, cancelled>>

\* The consumer leaves: nothing is delivered afterwards.
Close ==
  /\ status # "closed"
  /\ status' = "closed"
  /\ UNCHANGED <<delivered, fault, cancelled>>

Next == Cancel \/ SourceFails \/ Deliver \/ End \/ Raise \/ Close

Spec == Init /\ [][Next]_streamVars
=============================================================================
