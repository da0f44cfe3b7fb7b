----------------------------- MODULE Comparator -----------------------------
(***************************************************************************)
(* Comparator.compare (src/boto3_s3/comparator.py): the merge-join of the  *)
(* two listings of sync, step for step, over streams that arrive while it  *)
(* runs.                                                                   *)
(*                                                                         *)
(* Abstraction.  A key is a number, in byte order.  An entry is a position *)
(* of its stream.  A pair is what the merge yields: an entry of each side, *)
(* or of one side alone.                                                   *)
(***************************************************************************)
EXTENDS Naturals, Sequences

CONSTANT Keys

ASSUME ComparatorAssumption == Keys \subseteq Nat

VARIABLES
  src, dest,                 \* the streams, as far as they have arrived
  srcOver, destOver,         \* no entry of this side is to come
  i, j,                      \* how many entries of each side the merge has passed
  both, news, orphans        \* the pairs: SyncPair, SrcOnlyPair, DestOnlyPair

streams == <<src, dest, srcOver, destOver>>
passed == <<i, j, both, news, orphans>>
mergeVars == <<streams, passed>>

MergeInit ==
  /\ src = << >> /\ dest = << >> /\ srcOver = FALSE /\ destOver = FALSE
  /\ i = 0 /\ j = 0
  /\ both = {} /\ news = {} /\ orphans = {}

\* next(src_iter), next(dest_iter): the scans below deliver entries, or the end.
Extends(old, new) ==
  new \in Seq(Keys) /\ Len(old) <= Len(new) /\ \A n \in 1 .. Len(old) : new[n] = old[n]

Arrive ==
  /\ Extends(src, src') /\ Extends(dest, dest')
  /\ srcOver => srcOver' /\ src' = src
  /\ destOver => destOver' /\ dest' = dest
  /\ {srcOver', destOver'} \subseteq BOOLEAN
  /\ UNCHANGED passed

\* A side has an entry in hand, or is exhausted; the merge needs to know which.
SrcHeld == i < Len(src)
DestHeld == j < Len(dest)
SrcNone == srcOver /\ i = Len(src)
DestNone == destOver /\ j = Len(dest)

TakeSrc ==
  /\ SrcHeld
  /\ DestNone \/ (DestHeld /\ src[i + 1] < dest[j + 1])
  /\ i' = i + 1 /\ news' = news \cup {i + 1}
  /\ UNCHANGED <<streams, j, both, orphans>>

TakeDest ==
  /\ DestHeld
  /\ SrcNone \/ (SrcHeld /\ src[i + 1] > dest[j + 1])
  /\ j' = j + 1 /\ orphans' = orphans \cup {j + 1}
  /\ UNCHANGED <<streams, i, both, news>>

TakeBoth ==
  /\ SrcHeld /\ DestHeld /\ src[i + 1] = dest[j + 1]
  /\ i' = i + 1 /\ j' = j + 1 /\ both' = both \cup {<<i + 1, j + 1>>}
  /\ UNCHANGED <<streams, news, orphans>>

Merge == TakeSrc \/ TakeDest \/ TakeBoth

\* The merge over its streams: what has arrived stays as it is, nothing comes after the
\* end of a side, and every pair follows from the entries in hand (comparator.py:212-247).
MergeSpec == MergeInit /\ [][Arrive \/ Merge]_mergeVars

-----------------------------------------------------------------------------
(* Properties.                                                             *)

Ascending(s) == \A m, n \in 1 .. Len(s) : m < n => s[m] < s[n]

\* Every entry the merge has passed is in exactly one pair, sorted or not
\* (comparator.py:209, "Every input entry becomes one pair").
EntryInOnePair ==
  /\ \A p \in 1 .. i :
       \/ p \in news /\ \A q \in 1 .. j : <<p, q>> \notin both
       \/ p \notin news /\ \E q \in 1 .. j : /\ <<p, q>> \in both
                                             /\ \A r \in 1 .. j : <<p, r>> \in both => r = q
  /\ \A q \in 1 .. j :
       \/ q \in orphans /\ \A p \in 1 .. i : <<p, q>> \notin both
       \/ q \notin orphans /\ \E p \in 1 .. i : /\ <<p, q>> \in both
                                                /\ \A r \in 1 .. i : <<r, q>> \in both => r = p

\* Over ascending streams the pairs tell the truth: a pair has one key, and what is
\* called new or orphaned has no counterpart in what the other side has sent
\* (comparator.py:203-207; the delete lane acts on it at once).
PairsAreTrue ==
  /\ \A pq \in both : src[pq[1]] = dest[pq[2]]
  /\ Ascending(src) /\ Ascending(dest) =>
       /\ \A p \in news : \A q \in 1 .. Len(dest) : src[p] # dest[q]
       /\ \A q \in orphans : \A p \in 1 .. Len(src) : src[p] # dest[q]
=============================================================================
