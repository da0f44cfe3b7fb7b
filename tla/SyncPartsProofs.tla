-------------------------- MODULE SyncPartsProofs ---------------------------
(***************************************************************************)
(* The two parts of SyncView that judge entries: the merge and the sieve.  *)
(*                                                                         *)
(* The merge is taken for every set of keys and every way its streams may  *)
(* arrive: in pieces, long or short, sorted or not.  The strengthening is  *)
(* about entries that have not arrived yet.  A pair is final when it is    *)
(* yielded, so whatever the other side still sends must be above it; that  *)
(* follows from the entry it was compared with, which stands in a sorted   *)
(* stream below all that comes after.                                      *)
(*                                                                         *)
(* The sieve is taken for every list of patterns, whatever they match.     *)
(***************************************************************************)
EXTENDS Comparator, GlobSieve, WellFoundedInduction, TLAPS

-----------------------------------------------------------------------------
(* The inductive invariant.                                                *)

MergeTypeOK ==
  /\ src \in Seq(Keys) /\ dest \in Seq(Keys)
  /\ srcOver \in BOOLEAN /\ destOver \in BOOLEAN
  /\ i \in 0 .. Len(src) /\ j \in 0 .. Len(dest)
  /\ news \subseteq 1 .. i /\ orphans \subseteq 1 .. j
  /\ both \subseteq (1 .. i) \X (1 .. j)

\* What the merge has passed on one side is below all it has yet to pass on the other.
PassedBelow ==
  /\ \A p \in 1 .. i : \A q \in j + 1 .. Len(dest) : src[p] < dest[q]
  /\ \A q \in 1 .. j : \A p \in i + 1 .. Len(src) : dest[q] < src[p]

\* And below what is still to come: it was passed against an entry that stands in the
\* other stream, unless nothing is to come there.
PassedAgainst ==
  /\ ~destOver => \A p \in 1 .. i : \E q \in 1 .. Len(dest) : src[p] <= dest[q]
  /\ ~srcOver => \A q \in 1 .. j : \E p \in 1 .. Len(src) : dest[q] <= src[p]

BothSorted == Ascending(src) /\ Ascending(dest)

IInv ==
  /\ MergeTypeOK
  /\ EntryInOnePair
  /\ PairsAreTrue
  /\ BothSorted => PassedBelow /\ PassedAgainst

-----------------------------------------------------------------------------
(* Lemmas.                                                                 *)

\* Entries of a stream are numbers.
LEMMA EntriesAreNumbers ==
  ASSUME NEW s \in Seq(Keys), NEW n \in 1 .. Len(s)
  PROVE  s[n] \in Nat
<1>1. s[n] \in Keys
  OBVIOUS
<1> QED BY <1>1, ComparatorAssumption DEF ComparatorAssumption

\* A stream that is extended keeps its entries, and was sorted if it now is.
LEMMA ExtensionKeeps ==
  ASSUME NEW old \in Seq(Keys), NEW new, Extends(old, new)
  PROVE  /\ new \in Seq(Keys) /\ Len(old) <= Len(new)
         /\ Len(old) \in Nat /\ Len(new) \in Nat
         /\ \A n \in 1 .. Len(old) : new[n] = old[n]
         /\ Ascending(new) => Ascending(old)
<1>1. new \in Seq(Keys) /\ Len(old) <= Len(new) /\ \A n \in 1 .. Len(old) : new[n] = old[n]
  BY DEF Extends
<1>2. Len(old) \in Nat /\ Len(new) \in Nat
  BY <1>1
<1>3. ASSUME Ascending(new) PROVE Ascending(old)
  <2> SUFFICES ASSUME NEW m \in 1 .. Len(old), NEW n \in 1 .. Len(old), m < n
               PROVE  old[m] < old[n]
    BY DEF Ascending
  <2>1. m \in 1 .. Len(new) /\ n \in 1 .. Len(new)
    BY <1>1, <1>2
  <2> QED BY <1>1, <1>3, <2>1 DEF Ascending
<1> QED BY <1>1, <1>2, <1>3

\* Nothing has arrived and nothing is paired.
LEMMA Initially == MergeInit => IInv
<1> SUFFICES ASSUME MergeInit PROVE IInv
  OBVIOUS
<1>1. i = 0 /\ j = 0 /\ 1 .. i = {} /\ 1 .. j = {}
  BY DEF MergeInit
<1>2. src = << >> /\ dest = << >> /\ Len(src) = 0 /\ Len(dest) = 0
  BY DEF MergeInit
<1>3. MergeTypeOK
  <2>1. src \in Seq(Keys) /\ dest \in Seq(Keys)
    BY <1>2
  <2>2. i \in 0 .. Len(src) /\ j \in 0 .. Len(dest)
    BY <1>1, <1>2
  <2> QED BY <2>1, <2>2 DEF MergeInit, MergeTypeOK
<1>4. EntryInOnePair
  BY <1>1 DEF EntryInOnePair
<1>5. PairsAreTrue
  BY DEF MergeInit, PairsAreTrue
<1>6. PassedBelow /\ PassedAgainst
  BY <1>1 DEF PassedBelow, PassedAgainst
<1> QED BY <1>3, <1>4, <1>5, <1>6 DEF IInv

-----------------------------------------------------------------------------
(* The steps.                                                              *)

\* What arrives late comes after the entry the passed ones were compared with.
LEMMA ArriveKeeps == IInv /\ Arrive => IInv'
<1> SUFFICES ASSUME IInv, Arrive PROVE IInv'
  OBVIOUS
<1>1. MergeTypeOK /\ EntryInOnePair /\ PairsAreTrue
  BY DEF IInv
<1>2. Extends(src, src') /\ Extends(dest, dest') /\ UNCHANGED <<i, j, both, news, orphans>>
  BY DEF Arrive, passed
<1>3. /\ src \in Seq(Keys) /\ dest \in Seq(Keys)
      /\ i \in Nat /\ j \in Nat /\ i <= Len(src) /\ j <= Len(dest)
      /\ news \subseteq 1 .. i /\ orphans \subseteq 1 .. j
      /\ both \subseteq (1 .. i) \X (1 .. j)
  BY <1>1 DEF MergeTypeOK
<1>4. /\ src' \in Seq(Keys) /\ Len(src) <= Len(src') /\ Len(src) \in Nat /\ Len(src') \in Nat
      /\ \A n \in 1 .. Len(src) : src'[n] = src[n]
      /\ Ascending(src') => Ascending(src)
  BY <1>2, <1>3, ExtensionKeeps
<1>5. /\ dest' \in Seq(Keys) /\ Len(dest) <= Len(dest') /\ Len(dest) \in Nat
      /\ Len(dest') \in Nat
      /\ \A n \in 1 .. Len(dest) : dest'[n] = dest[n]
      /\ Ascending(dest') => Ascending(dest)
  BY <1>2, <1>3, ExtensionKeeps
<1>6. MergeTypeOK'
  BY <1>2, <1>3, <1>4, <1>5 DEF MergeTypeOK, Arrive
<1>7. EntryInOnePair'
  BY <1>1, <1>2 DEF EntryInOnePair
<1>8. ASSUME Ascending(src'), Ascending(dest')
      PROVE  PassedBelow' /\ PassedAgainst' /\ BothSorted
  <2>1. BothSorted /\ PassedBelow /\ PassedAgainst
    BY <1>4, <1>5, <1>8 DEF IInv, BothSorted
  <2>2. ASSUME NEW p \in 1 .. i, NEW q \in j + 1 .. Len(dest') PROVE src'[p] < dest'[q]
    <3>1. p \in 1 .. Len(src) /\ src'[p] = src[p] /\ src[p] \in Nat
      BY <1>3, <1>4, EntriesAreNumbers
    <3>2. CASE q <= Len(dest)
      <4>1. q \in j + 1 .. Len(dest) /\ q \in 1 .. Len(dest)
        BY <3>2, <1>3, <1>5
      <4> QED BY <4>1, <3>1, <2>1, <1>5 DEF PassedBelow
    <3>3. CASE q > Len(dest)
      <4>1. ~destOver
        BY <3>3, <1>5 DEF Arrive
      <4>2. PICK r \in 1 .. Len(dest) : src[p] <= dest[r]
        BY <4>1, <2>1 DEF PassedAgainst
      <4>3. r \in 1 .. Len(dest') /\ q \in 1 .. Len(dest') /\ r < q
        BY <3>3, <1>3, <1>5
      <4>4. dest[r] \in Nat /\ dest'[r] = dest[r] /\ dest'[q] \in Nat
        BY <4>3, <1>3, <1>5, EntriesAreNumbers
      <4>5. dest'[r] < dest'[q]
        BY <4>3, <1>8 DEF Ascending
      <4> QED BY <3>1, <4>2, <4>4, <4>5
    <3> QED BY <3>2, <3>3, <1>3, <1>5
  <2>3. ASSUME NEW q \in 1 .. j, NEW p \in i + 1 .. Len(src') PROVE dest'[q] < src'[p]
    <3>1. q \in 1 .. Len(dest) /\ dest'[q] = dest[q] /\ dest[q] \in Nat
      BY <1>3, <1>5, EntriesAreNumbers
    <3>2. CASE p <= Len(src)
      <4>1. p \in i + 1 .. Len(src) /\ p \in 1 .. Len(src)
        BY <3>2, <1>3, <1>4
      <4> QED BY <4>1, <3>1, <2>1, <1>4 DEF PassedBelow
    <3>3. CASE p > Len(src)
      <4>1. ~srcOver
        BY <3>3, <1>4 DEF Arrive
      <4>2. PICK r \in 1 .. Len(src) : dest[q] <= src[r]
        BY <4>1, <2>1 DEF PassedAgainst
      <4>3. r \in 1 .. Len(src') /\ p \in 1 .. Len(src') /\ r < p
        BY <3>3, <1>3, <1>4
      <4>4. src[r] \in Nat /\ src'[r] = src[r] /\ src'[p] \in Nat
        BY <4>3, <1>3, <1>4, EntriesAreNumbers
      <4>5. src'[r] < src'[p]
        BY <4>3, <1>8 DEF Ascending
      <4> QED BY <3>1, <4>2, <4>4, <4>5
    <3> QED BY <3>2, <3>3, <1>3, <1>4
  <2>4. PassedBelow'
    BY <2>2, <2>3, <1>2 DEF PassedBelow
  <2>5. ASSUME ~destOver', NEW p \in 1 .. i
        PROVE  \E q \in 1 .. Len(dest') : src'[p] <= dest'[q]
    <3>1. ~destOver /\ p \in 1 .. Len(src) /\ src'[p] = src[p]
      BY <2>5, <1>3, <1>4 DEF Arrive
    <3>2. PICK q \in 1 .. Len(dest) : src[p] <= dest[q]
      BY <3>1, <2>1 DEF PassedAgainst
    <3>3. q \in 1 .. Len(dest') /\ dest'[q] = dest[q]
      BY <1>5
    <3> QED BY <3>1, <3>2, <3>3
  <2>6. ASSUME ~srcOver', NEW q \in 1 .. j
        PROVE  \E p \in 1 .. Len(src') : dest'[q] <= src'[p]
    <3>1. ~srcOver /\ q \in 1 .. Len(dest) /\ dest'[q] = dest[q]
      BY <2>6, <1>3, <1>5 DEF Arrive
    <3>2. PICK p \in 1 .. Len(src) : dest[q] <= src[p]
      BY <3>1, <2>1 DEF PassedAgainst
    <3>3. p \in 1 .. Len(src') /\ src'[p] = src[p]
      BY <1>4
    <3> QED BY <3>1, <3>2, <3>3
  <2> QED BY <2>1, <2>4, <2>5, <2>6, <1>2 DEF PassedAgainst
<1>9. PairsAreTrue'
  <2>1. ASSUME NEW pq \in both PROVE src'[pq[1]] = dest'[pq[2]]
    <3>1. pq[1] \in 1 .. Len(src) /\ pq[2] \in 1 .. Len(dest)
      BY <1>3, <1>4, <1>5
    <3> QED BY <3>1, <1>1, <1>4, <1>5 DEF PairsAreTrue
  <2>2. ASSUME Ascending(src'), Ascending(dest'), NEW p \in news, NEW q \in 1 .. Len(dest')
        PROVE  src'[p] # dest'[q]
    <3>1. p \in 1 .. i /\ p \in 1 .. Len(src) /\ src'[p] = src[p]
      BY <1>3, <1>4
    <3>2. CASE q <= Len(dest)
      <4>1. q \in 1 .. Len(dest) /\ dest'[q] = dest[q]
        BY <3>2, <1>5
      <4> QED BY <4>1, <3>1, <2>2, <1>1, <1>4, <1>5 DEF PairsAreTrue
    <3>3. CASE q > Len(dest)
      <4>1. q \in j' + 1 .. Len(dest') /\ p \in 1 .. i'
        BY <3>1, <3>3, <1>2, <1>3, <1>5
      <4>2. src'[p] < dest'[q]
        BY <4>1, <2>2, <1>8 DEF PassedBelow
      <4>3. src'[p] \in Nat /\ dest'[q] \in Nat
        BY <3>1, <1>4, <1>5, EntriesAreNumbers
      <4> QED BY <4>2, <4>3
    <3> QED BY <3>2, <3>3, <1>5
  <2>3. ASSUME Ascending(src'), Ascending(dest'), NEW q \in orphans, NEW p \in 1 .. Len(src')
        PROVE  src'[p] # dest'[q]
    <3>1. q \in 1 .. j /\ q \in 1 .. Len(dest) /\ dest'[q] = dest[q]
      BY <1>3, <1>5
    <3>2. CASE p <= Len(src)
      <4>1. p \in 1 .. Len(src) /\ src'[p] = src[p]
        BY <3>2, <1>4
      <4> QED BY <4>1, <3>1, <2>3, <1>1, <1>4, <1>5 DEF PairsAreTrue
    <3>3. CASE p > Len(src)
      <4>1. p \in i' + 1 .. Len(src') /\ q \in 1 .. j'
        BY <3>1, <3>3, <1>2, <1>3, <1>4
      <4>2. dest'[q] < src'[p]
        BY <4>1, <2>3, <1>8 DEF PassedBelow
      <4>3. dest'[q] \in Nat /\ src'[p] \in Nat
        BY <3>1, <1>4, <1>5, EntriesAreNumbers
      <4> QED BY <4>2, <4>3
    <3> QED BY <3>2, <3>3, <1>4
  <2> QED BY <2>1, <2>2, <2>3, <1>2 DEF PairsAreTrue
<1> QED BY <1>6, <1>7, <1>8, <1>9 DEF IInv, BothSorted

\* A source entry below the destination's next, or with no destination left.
LEMMA TakeSrcKeeps == IInv /\ TakeSrc => IInv'
<1> SUFFICES ASSUME IInv, TakeSrc PROVE IInv'
  OBVIOUS
<1>1. MergeTypeOK /\ EntryInOnePair /\ PairsAreTrue
  BY DEF IInv
<1>2. /\ i' = i + 1 /\ news' = news \cup {i + 1}
      /\ UNCHANGED <<src, dest, srcOver, destOver, j, both, orphans>>
      /\ i < Len(src)
  BY DEF TakeSrc, SrcHeld, streams
<1>3. /\ src \in Seq(Keys) /\ dest \in Seq(Keys) /\ Len(src) \in Nat /\ Len(dest) \in Nat
      /\ i \in Nat /\ j \in Nat /\ i <= Len(src) /\ j <= Len(dest)
      /\ news \subseteq 1 .. i /\ orphans \subseteq 1 .. j
      /\ both \subseteq (1 .. i) \X (1 .. j)
      /\ i + 1 \in 1 .. Len(src)
  BY <1>1, <1>2 DEF MergeTypeOK
<1>4. MergeTypeOK'
  <2>1. 1 .. i \subseteq 1 .. i + 1 /\ i + 1 \in 1 .. i + 1 /\ i + 1 \in 0 .. Len(src)
    BY <1>3
  <2>2. both \subseteq (1 .. i + 1) \X (1 .. j)
    BY <1>3, <2>1
  <2> QED BY <1>1, <1>2, <1>3, <2>1, <2>2 DEF MergeTypeOK
<1>5. EntryInOnePair'
  <2>1. \A q \in 1 .. j : <<i + 1, q>> \notin both
    BY <1>3
  <2>2. ASSUME NEW p \in 1 .. i + 1
        PROVE  \/ p \in news' /\ \A q \in 1 .. j : <<p, q>> \notin both
               \/ p \notin news' /\ \E q \in 1 .. j :
                    <<p, q>> \in both /\ \A r \in 1 .. j : <<p, r>> \in both => r = q
    <3>1. CASE p = i + 1
      BY <3>1, <2>1, <1>2
    <3>2. CASE p # i + 1
      <4>1. p \in 1 .. i /\ (p \in news' <=> p \in news)
        BY <3>2, <1>2, <1>3
      <4> QED BY <4>1, <1>1 DEF EntryInOnePair
    <3> QED BY <3>1, <3>2
  <2>3. ASSUME NEW q \in 1 .. j
        PROVE  \/ q \in orphans /\ \A p \in 1 .. i + 1 : <<p, q>> \notin both
               \/ q \notin orphans /\ \E p \in 1 .. i + 1 :
                    <<p, q>> \in both /\ \A r \in 1 .. i + 1 : <<r, q>> \in both => r = p
    <3>1. \A p \in 1 .. i + 1 : p \in 1 .. i \/ <<p, q>> \notin both
      BY <2>1, <1>3
    <3>2. 1 .. i \subseteq 1 .. i + 1
      BY <1>3
    <3> QED BY <3>1, <3>2, <1>1 DEF EntryInOnePair
  <2> QED BY <2>2, <2>3, <1>2 DEF EntryInOnePair
<1>6. ASSUME Ascending(src), Ascending(dest)
      PROVE  /\ PassedBelow /\ PassedAgainst
             /\ \A q \in 1 .. j : dest[q] < src[i + 1]
             /\ \A q \in j + 1 .. Len(dest) : src[i + 1] < dest[q]
             /\ \A p \in i + 2 .. Len(src) : src[i + 1] < src[p]
  <2>1. PassedBelow /\ PassedAgainst
    BY <1>6 DEF IInv, BothSorted
  <2>2. \A q \in 1 .. j : dest[q] < src[i + 1]
    <3>1. i + 1 \in i + 1 .. Len(src)
      BY <1>3
    <3> QED BY <3>1, <2>1 DEF PassedBelow
  <2>3. ASSUME NEW q \in j + 1 .. Len(dest) PROVE src[i + 1] < dest[q]
    <3>1. DestHeld /\ src[i + 1] < dest[j + 1]
      BY <1>3 DEF TakeSrc, DestNone
    <3>2. j + 1 \in 1 .. Len(dest) /\ q \in 1 .. Len(dest) /\ (q = j + 1 \/ j + 1 < q)
      BY <1>3
    <3>3. dest[j + 1] = dest[q] \/ dest[j + 1] < dest[q]
      BY <3>2, <1>6 DEF Ascending
    <3>4. src[i + 1] \in Nat /\ dest[j + 1] \in Nat /\ dest[q] \in Nat
      BY <3>2, <1>3, EntriesAreNumbers
    <3> QED BY <3>1, <3>3, <3>4
  <2>4. ASSUME NEW p \in i + 2 .. Len(src) PROVE src[i + 1] < src[p]
    <3>1. p \in 1 .. Len(src) /\ i + 1 < p
      BY <1>3
    <3> QED BY <3>1, <1>3, <1>6 DEF Ascending
  <2> QED BY <2>1, <2>2, <2>3, <2>4
<1>7. ASSUME Ascending(src), Ascending(dest)
      PROVE  PassedBelow' /\ PassedAgainst'
  <2>1. ASSUME NEW p \in 1 .. i + 1, NEW q \in j + 1 .. Len(dest) PROVE src[p] < dest[q]
    <3>1. p = i + 1 \/ p \in 1 .. i
      BY <1>3
    <3> QED BY <3>1, <1>6, <1>7 DEF PassedBelow
  <2>2. ASSUME NEW q \in 1 .. j, NEW p \in i + 2 .. Len(src) PROVE dest[q] < src[p]
    <3>1. p \in i + 1 .. Len(src)
      BY <1>3
    <3> QED BY <3>1, <1>6, <1>7 DEF PassedBelow
  <2>3. i + 1 + 1 = i + 2
    BY <1>3
  <2>4. PassedBelow'
    BY <2>1, <2>2, <2>3, <1>2 DEF PassedBelow
  <2>5. ASSUME ~destOver, NEW p \in 1 .. i + 1
        PROVE  \E q \in 1 .. Len(dest) : src[p] <= dest[q]
    <3>1. CASE p \in 1 .. i
      BY <3>1, <2>5, <1>6, <1>7 DEF PassedAgainst
    <3>2. CASE p = i + 1
      <4>1. DestHeld /\ src[i + 1] < dest[j + 1]
        BY <2>5 DEF TakeSrc, DestNone
      <4>2. j + 1 \in 1 .. Len(dest)
        BY <4>1, <1>3 DEF DestHeld
      <4>3. src[i + 1] \in Nat /\ dest[j + 1] \in Nat
        BY <4>2, <1>3, EntriesAreNumbers
      <4> QED BY <3>2, <4>1, <4>2, <4>3
    <3> QED BY <3>1, <3>2, <1>3
  <2>6. ~srcOver => \A q \in 1 .. j : \E p \in 1 .. Len(src) : dest[q] <= src[p]
    BY <1>6, <1>7 DEF PassedAgainst
  <2>7. PassedAgainst'
    BY <2>5, <2>6, <1>2 DEF PassedAgainst
  <2> QED BY <2>4, <2>7
<1>8. PairsAreTrue'
  <2>1. ASSUME Ascending(src), Ascending(dest), NEW q \in 1 .. Len(dest)
        PROVE  src[i + 1] # dest[q]
    <3>1. q \in 1 .. j \/ q \in j + 1 .. Len(dest)
      BY <1>3
    <3>2. src[i + 1] < dest[q] \/ dest[q] < src[i + 1]
      BY <3>1, <2>1, <1>6
    <3>3. src[i + 1] \in Nat /\ dest[q] \in Nat
      BY <1>3, EntriesAreNumbers
    <3> QED BY <3>2, <3>3
  <2> QED BY <2>1, <1>1, <1>2 DEF PairsAreTrue
<1>9. (BothSorted => PassedBelow /\ PassedAgainst)'
  BY <1>2, <1>7 DEF BothSorted, Ascending
<1> QED BY <1>4, <1>5, <1>8, <1>9 DEF IInv

\* A destination entry below the source's next, or with no source left.
LEMMA TakeDestKeeps == IInv /\ TakeDest => IInv'
<1> SUFFICES ASSUME IInv, TakeDest PROVE IInv'
  OBVIOUS
<1>1. MergeTypeOK /\ EntryInOnePair /\ PairsAreTrue
  BY DEF IInv
<1>2. /\ j' = j + 1 /\ orphans' = orphans \cup {j + 1}
      /\ UNCHANGED <<dest, src, destOver, srcOver, i, both, news>>
      /\ j < Len(dest)
  BY DEF TakeDest, DestHeld, streams
<1>3. /\ dest \in Seq(Keys) /\ src \in Seq(Keys) /\ Len(dest) \in Nat /\ Len(src) \in Nat
      /\ j \in Nat /\ i \in Nat /\ j <= Len(dest) /\ i <= Len(src)
      /\ orphans \subseteq 1 .. j /\ news \subseteq 1 .. i
      /\ both \subseteq (1 .. i) \X (1 .. j)
      /\ j + 1 \in 1 .. Len(dest)
  BY <1>1, <1>2 DEF MergeTypeOK
<1>4. MergeTypeOK'
  <2>1. 1 .. j \subseteq 1 .. j + 1 /\ j + 1 \in 1 .. j + 1 /\ j + 1 \in 0 .. Len(dest)
    BY <1>3
  <2>2. both \subseteq (1 .. i) \X (1 .. j + 1)
    BY <1>3, <2>1
  <2> QED BY <1>1, <1>2, <1>3, <2>1, <2>2 DEF MergeTypeOK
<1>5. EntryInOnePair'
  <2>1. \A p \in 1 .. i : <<p, j + 1>> \notin both
    BY <1>3
  <2>2. ASSUME NEW q \in 1 .. j + 1
        PROVE  \/ q \in orphans' /\ \A p \in 1 .. i : <<p, q>> \notin both
               \/ q \notin orphans' /\ \E p \in 1 .. i :
                    <<p, q>> \in both /\ \A r \in 1 .. i : <<r, q>> \in both => r = p
    <3>1. CASE q = j + 1
      BY <3>1, <2>1, <1>2
    <3>2. CASE q # j + 1
      <4>1. q \in 1 .. j /\ (q \in orphans' <=> q \in orphans)
        BY <3>2, <1>2, <1>3
      <4> QED BY <4>1, <1>1 DEF EntryInOnePair
    <3> QED BY <3>1, <3>2
  <2>3. ASSUME NEW p \in 1 .. i
        PROVE  \/ p \in news /\ \A q \in 1 .. j + 1 : <<p, q>> \notin both
               \/ p \notin news /\ \E q \in 1 .. j + 1 :
                    <<p, q>> \in both /\ \A r \in 1 .. j + 1 : <<p, r>> \in both => r = q
    <3>1. \A q \in 1 .. j + 1 : q \in 1 .. j \/ <<p, q>> \notin both
      BY <2>1, <1>3
    <3>2. 1 .. j \subseteq 1 .. j + 1
      BY <1>3
    <3> QED BY <3>1, <3>2, <1>1 DEF EntryInOnePair
  <2> QED BY <2>2, <2>3, <1>2 DEF EntryInOnePair
<1>6. ASSUME Ascending(dest), Ascending(src)
      PROVE  /\ PassedBelow /\ PassedAgainst
             /\ \A p \in 1 .. i : src[p] < dest[j + 1]
             /\ \A p \in i + 1 .. Len(src) : dest[j + 1] < src[p]
             /\ \A q \in j + 2 .. Len(dest) : dest[j + 1] < dest[q]
  <2>1. PassedBelow /\ PassedAgainst
    BY <1>6 DEF IInv, BothSorted
  <2>2. \A p \in 1 .. i : src[p] < dest[j + 1]
    <3>1. j + 1 \in j + 1 .. Len(dest)
      BY <1>3
    <3> QED BY <3>1, <2>1 DEF PassedBelow
  <2>3. ASSUME NEW p \in i + 1 .. Len(src) PROVE dest[j + 1] < src[p]
    <3>1. SrcHeld /\ dest[j + 1] < src[i + 1]
      BY <1>3 DEF TakeDest, SrcNone
    <3>2. i + 1 \in 1 .. Len(src) /\ p \in 1 .. Len(src) /\ (p = i + 1 \/ i + 1 < p)
      BY <1>3
    <3>3. src[i + 1] = src[p] \/ src[i + 1] < src[p]
      BY <3>2, <1>6 DEF Ascending
    <3>4. dest[j + 1] \in Nat /\ src[i + 1] \in Nat /\ src[p] \in Nat
      BY <3>2, <1>3, EntriesAreNumbers
    <3> QED BY <3>1, <3>3, <3>4
  <2>4. ASSUME NEW q \in j + 2 .. Len(dest) PROVE dest[j + 1] < dest[q]
    <3>1. q \in 1 .. Len(dest) /\ j + 1 < q
      BY <1>3
    <3> QED BY <3>1, <1>3, <1>6 DEF Ascending
  <2> QED BY <2>1, <2>2, <2>3, <2>4
<1>7. ASSUME Ascending(dest), Ascending(src)
      PROVE  PassedBelow' /\ PassedAgainst'
  <2>1. ASSUME NEW q \in 1 .. j + 1, NEW p \in i + 1 .. Len(src) PROVE dest[q] < src[p]
    <3>1. q = j + 1 \/ q \in 1 .. j
      BY <1>3
    <3> QED BY <3>1, <1>6, <1>7 DEF PassedBelow
  <2>2. ASSUME NEW p \in 1 .. i, NEW q \in j + 2 .. Len(dest) PROVE src[p] < dest[q]
    <3>1. q \in j + 1 .. Len(dest)
      BY <1>3
    <3> QED BY <3>1, <1>6, <1>7 DEF PassedBelow
  <2>3. j + 1 + 1 = j + 2
    BY <1>3
  <2>4. PassedBelow'
    BY <2>1, <2>2, <2>3, <1>2 DEF PassedBelow
  <2>5. ASSUME ~srcOver, NEW q \in 1 .. j + 1
        PROVE  \E p \in 1 .. Len(src) : dest[q] <= src[p]
    <3>1. CASE q \in 1 .. j
      BY <3>1, <2>5, <1>6, <1>7 DEF PassedAgainst
    <3>2. CASE q = j + 1
      <4>1. SrcHeld /\ dest[j + 1] < src[i + 1]
        BY <2>5 DEF TakeDest, SrcNone
      <4>2. i + 1 \in 1 .. Len(src)
        BY <4>1, <1>3 DEF SrcHeld
      <4>3. dest[j + 1] \in Nat /\ src[i + 1] \in Nat
        BY <4>2, <1>3, EntriesAreNumbers
      <4> QED BY <3>2, <4>1, <4>2, <4>3
    <3> QED BY <3>1, <3>2, <1>3
  <2>6. ~destOver => \A p \in 1 .. i : \E q \in 1 .. Len(dest) : src[p] <= dest[q]
    BY <1>6, <1>7 DEF PassedAgainst
  <2>7. PassedAgainst'
    BY <2>5, <2>6, <1>2 DEF PassedAgainst
  <2> QED BY <2>4, <2>7
<1>8. PairsAreTrue'
  <2>1. ASSUME Ascending(dest), Ascending(src), NEW p \in 1 .. Len(src)
        PROVE  dest[j + 1] # src[p]
    <3>1. p \in 1 .. i \/ p \in i + 1 .. Len(src)
      BY <1>3
    <3>2. dest[j + 1] < src[p] \/ src[p] < dest[j + 1]
      BY <3>1, <2>1, <1>6
    <3>3. dest[j + 1] \in Nat /\ src[p] \in Nat
      BY <1>3, EntriesAreNumbers
    <3> QED BY <3>2, <3>3
  <2> QED BY <2>1, <1>1, <1>2 DEF PairsAreTrue
<1>9. (BothSorted => PassedBelow /\ PassedAgainst)'
  BY <1>2, <1>7 DEF BothSorted, Ascending
<1> QED BY <1>4, <1>5, <1>8, <1>9 DEF IInv

\* The same key on both sides.
LEMMA TakeBothKeeps == IInv /\ TakeBoth => IInv'
<1> SUFFICES ASSUME IInv, TakeBoth PROVE IInv'
  OBVIOUS
<1>1. MergeTypeOK /\ EntryInOnePair /\ PairsAreTrue
  BY DEF IInv
<1>2. /\ i' = i + 1 /\ j' = j + 1 /\ both' = both \cup {<<i + 1, j + 1>>}
      /\ UNCHANGED <<src, dest, srcOver, destOver, news, orphans>>
      /\ i < Len(src) /\ j < Len(dest) /\ src[i + 1] = dest[j + 1]
  BY DEF TakeBoth, SrcHeld, DestHeld, streams
<1>3. /\ src \in Seq(Keys) /\ dest \in Seq(Keys) /\ Len(src) \in Nat /\ Len(dest) \in Nat
      /\ i \in Nat /\ j \in Nat /\ i <= Len(src) /\ j <= Len(dest)
      /\ news \subseteq 1 .. i /\ orphans \subseteq 1 .. j
      /\ both \subseteq (1 .. i) \X (1 .. j)
      /\ i + 1 \in 1 .. Len(src) /\ j + 1 \in 1 .. Len(dest)
  BY <1>1, <1>2 DEF MergeTypeOK
<1>4. /\ i + 1 \notin news /\ j + 1 \notin orphans
      /\ \A q : <<i + 1, q>> \notin both
      /\ \A p : <<p, j + 1>> \notin both
  BY <1>3
<1>5. MergeTypeOK'
  <2>1. /\ 1 .. i \subseteq 1 .. i + 1 /\ i + 1 \in 1 .. i + 1 /\ i + 1 \in 0 .. Len(src)
        /\ 1 .. j \subseteq 1 .. j + 1 /\ j + 1 \in 1 .. j + 1 /\ j + 1 \in 0 .. Len(dest)
    BY <1>3
  <2>2. both' \subseteq (1 .. i + 1) \X (1 .. j + 1)
    BY <1>2, <1>3, <2>1
  <2> QED BY <1>1, <1>2, <1>3, <2>1, <2>2 DEF MergeTypeOK
<1>6. ASSUME NEW p, NEW q
      PROVE  <<p, q>> \in both' <=> <<p, q>> \in both \/ (p = i + 1 /\ q = j + 1)
  BY <1>2
<1>7. EntryInOnePair'
  <2>1. ASSUME NEW p \in 1 .. i + 1
        PROVE  \/ p \in news /\ \A q \in 1 .. j + 1 : <<p, q>> \notin both'
               \/ p \notin news /\ \E q \in 1 .. j + 1 :
                    <<p, q>> \in both' /\ \A r \in 1 .. j + 1 : <<p, r>> \in both' => r = q
    <3>1. CASE p = i + 1
      <4>1. j + 1 \in 1 .. j + 1
        BY <1>3
      <4> QED BY <4>1, <3>1, <1>4, <1>6
    <3>2. CASE p # i + 1
      <4>1. p \in 1 .. i /\ \A q : <<p, q>> \in both' <=> <<p, q>> \in both
        BY <3>2, <1>3, <1>6
      <4>2. \A q \in 1 .. j + 1 : <<p, q>> \in both' => q \in 1 .. j
        BY <4>1, <1>3
      <4>3. 1 .. j \subseteq 1 .. j + 1
        BY <1>3
      <4> QED BY <4>1, <4>2, <4>3, <1>1 DEF EntryInOnePair
    <3> QED BY <3>1, <3>2
  <2>2. ASSUME NEW q \in 1 .. j + 1
        PROVE  \/ q \in orphans /\ \A p \in 1 .. i + 1 : <<p, q>> \notin both'
               \/ q \notin orphans /\ \E p \in 1 .. i + 1 :
                    <<p, q>> \in both' /\ \A r \in 1 .. i + 1 : <<r, q>> \in both' => r = p
    <3>1. CASE q = j + 1
      <4>1. i + 1 \in 1 .. i + 1
        BY <1>3
      <4> QED BY <4>1, <3>1, <1>4, <1>6
    <3>2. CASE q # j + 1
      <4>1. q \in 1 .. j /\ \A p : <<p, q>> \in both' <=> <<p, q>> \in both
        BY <3>2, <1>3, <1>6
      <4>2. \A p \in 1 .. i + 1 : <<p, q>> \in both' => p \in 1 .. i
        BY <4>1, <1>3
      <4>3. 1 .. i \subseteq 1 .. i + 1
        BY <1>3
      <4> QED BY <4>1, <4>2, <4>3, <1>1 DEF EntryInOnePair
    <3> QED BY <3>1, <3>2
  <2> QED BY <2>1, <2>2, <1>2 DEF EntryInOnePair
<1>8. PairsAreTrue'
  <2>1. \A pq \in both' : src[pq[1]] = dest[pq[2]]
    BY <1>1, <1>2 DEF PairsAreTrue
  <2> QED BY <2>1, <1>1, <1>2 DEF PairsAreTrue
<1>9. ASSUME Ascending(src), Ascending(dest)
      PROVE  PassedBelow' /\ PassedAgainst'
  <2>1. PassedBelow /\ PassedAgainst
    BY <1>9 DEF IInv, BothSorted
  <2>2. src[i + 1] \in Nat /\ dest[j + 1] \in Nat
    BY <1>3, EntriesAreNumbers
  <2>3. ASSUME NEW p \in 1 .. i + 1, NEW q \in j + 2 .. Len(dest) PROVE src[p] < dest[q]
    <3>1. CASE p \in 1 .. i
      <4>1. q \in j + 1 .. Len(dest)
        BY <1>3
      <4> QED BY <3>1, <4>1, <2>1 DEF PassedBelow
    <3>2. CASE p = i + 1
      <4>1. q \in 1 .. Len(dest) /\ j + 1 < q
        BY <1>3
      <4>2. dest[j + 1] < dest[q]
        BY <4>1, <1>3, <1>9 DEF Ascending
      <4> QED BY <3>2, <4>2, <1>2
    <3> QED BY <3>1, <3>2, <1>3
  <2>4. ASSUME NEW q \in 1 .. j + 1, NEW p \in i + 2 .. Len(src) PROVE dest[q] < src[p]
    <3>1. CASE q \in 1 .. j
      <4>1. p \in i + 1 .. Len(src)
        BY <1>3
      <4> QED BY <3>1, <4>1, <2>1 DEF PassedBelow
    <3>2. CASE q = j + 1
      <4>1. p \in 1 .. Len(src) /\ i + 1 < p
        BY <1>3
      <4>2. src[i + 1] < src[p]
        BY <4>1, <1>3, <1>9 DEF Ascending
      <4> QED BY <3>2, <4>2, <1>2
    <3> QED BY <3>1, <3>2, <1>3
  <2>5. i + 1 + 1 = i + 2 /\ j + 1 + 1 = j + 2
    BY <1>3
  <2>6. PassedBelow'
    BY <2>3, <2>4, <2>5, <1>2 DEF PassedBelow
  <2>7. ASSUME ~destOver, NEW p \in 1 .. i + 1
        PROVE  \E q \in 1 .. Len(dest) : src[p] <= dest[q]
    <3>1. CASE p \in 1 .. i
      BY <3>1, <2>7, <2>1 DEF PassedAgainst
    <3>2. CASE p = i + 1
      BY <3>2, <2>2, <1>2, <1>3
    <3> QED BY <3>1, <3>2, <1>3
  <2>8. ASSUME ~srcOver, NEW q \in 1 .. j + 1
        PROVE  \E p \in 1 .. Len(src) : dest[q] <= src[p]
    <3>1. CASE q \in 1 .. j
      BY <3>1, <2>8, <2>1 DEF PassedAgainst
    <3>2. CASE q = j + 1
      BY <3>2, <2>2, <1>2, <1>3
    <3> QED BY <3>1, <3>2, <1>3
  <2>9. PassedAgainst'
    BY <2>7, <2>8, <1>2 DEF PassedAgainst
  <2> QED BY <2>6, <2>9
<1>10. (BothSorted => PassedBelow /\ PassedAgainst)'
  BY <1>2, <1>9 DEF BothSorted, Ascending
<1> QED BY <1>5, <1>7, <1>8, <1>10 DEF IInv

\* A step of another component.
LEMMA StutterKeeps == IInv /\ UNCHANGED mergeVars => IInv'
BY DEF IInv, MergeTypeOK, EntryInOnePair, PairsAreTrue, BothSorted, PassedBelow, PassedAgainst,
       Ascending, mergeVars, streams, passed

-----------------------------------------------------------------------------
(* The theorems.                                                           *)

\* The strengthened invariant holds at every step of the merge.
LEMMA Inductive == MergeSpec => []IInv
<1>1. IInv /\ [Arrive \/ Merge]_mergeVars => IInv'
  BY ArriveKeeps, TakeSrcKeeps, TakeDestKeeps, TakeBothKeeps, StutterKeeps DEF Merge
<1> QED BY <1>1, Initially, PTL DEF MergeSpec

\* Every entry the merge has passed is in exactly one pair, also over streams that are not
\* sorted (comparator.py:209, "Every input entry becomes one pair").
THEOREM MergeUsesEachEntryOnce == MergeSpec => []EntryInOnePair
<1>1. IInv => EntryInOnePair
  BY DEF IInv
<1> QED BY <1>1, Inductive, PTL

\* Over sorted streams the pairs tell the truth, about what has arrived and about all that
\* is still to come: no key that both sides have is ever called new or orphaned
\* (comparator.py:203-207), so that the delete lane may act on a pair at once.
THEOREM MergeTellsTheTruth == MergeSpec => []PairsAreTrue
<1>1. IInv => PairsAreTrue
  BY DEF IInv
<1> QED BY <1>1, Inductive, PTL

-----------------------------------------------------------------------------
(* The sieve.                                                              *)

\* A set of numbers that is not empty has a least one.
LEMMA LeastNumber ==
  ASSUME NEW T \in SUBSET Nat, T # {}
  PROVE  \E x \in T : \A y \in T : x <= y
<1> DEFINE R == {pair \in Nat \X Nat : pair[1] < pair[2]}
<1>1. IsWellFoundedOn(R, Nat)
  <2>1. OpToRel(<, Nat) = R
    BY DEF OpToRel
  <2> QED
    BY <2>1, NatLessThanWellFounded
<1>2. \A x, y \in Nat : <<y, x>> \in R <=> y < x
  OBVIOUS
<1> HIDE DEF R
<1>3. PICK x \in T : \A y \in T : <<y, x>> \notin R
  BY <1>1, WFMin
<1>4. ASSUME NEW y \in T PROVE x <= y
  <2>1. x \in Nat /\ y \in Nat
    OBVIOUS
  <2>2. ~(y < x)
    BY <1>2, <1>3, <2>1
  <2> QED
    BY <2>1, <2>2
<1> QED
  BY <1>4

\* The latest of some positions of a list is one of them, and the others are before it.
LEMMA LatestIsLast ==
  ASSUME NEW n \in Nat, NEW S \in SUBSET (1 .. n), S # {}
  PROVE  /\ Latest(S) \in S
         /\ \A other \in S : other <= Latest(S)
<1> DEFINE D == {d \in Nat : n - d \in S}
<1>1. PICK s \in S : TRUE
  OBVIOUS
<1>2. s \in 1 .. n /\ n - s \in Nat /\ n - (n - s) = s
  OBVIOUS
<1>3. D \in SUBSET Nat /\ D # {}
  BY <1>1, <1>2
<1>4. PICK d \in D : \A e \in D : d <= e
  BY <1>3, LeastNumber
<1>5. d \in Nat /\ n - d \in S
  OBVIOUS
<1>6. \A other \in S : other <= n - d
  <2> TAKE other \in S
  <2>1. other \in 1 .. n
    OBVIOUS
  <2>2. n - other \in Nat /\ n - (n - other) = other
    BY <2>1
  <2>3. n - other \in D
    BY <2>2
  <2>4. d <= n - other
    BY <1>4, <2>3
  <2> QED
    BY <1>5, <2>1, <2>4
<1> QED
  BY <1>5, <1>6 DEF Latest

\* The plain loop includes an entry if no pattern hits it, or the last that does is an
\* include.
LEMMA PlainLoop ==
  ASSUME NEW pats \in Seq(Pattern), NEW key, NEW full
  PROVE  \/ /\ Hits(pats, 1, key, full) = {}
            /\ Sequential(pats, key, full)
         \/ \E last \in 1 .. Len(pats) :
              /\ Hit(pats[last], key, full)
              /\ \A m \in 1 .. Len(pats) : Hit(pats[m], key, full) => m <= last
              /\ Sequential(pats, key, full) <=> pats[last].include
<1> DEFINE hits == Hits(pats, 1, key, full)
<1>1. hits = {m \in 1 .. Len(pats) : Hit(pats[m], key, full)}
  BY DEF Hits
<1>2. CASE hits = {}
  BY <1>2 DEF Sequential
<1>3. CASE hits # {}
  <2>1. Len(pats) \in Nat /\ hits \in SUBSET (1 .. Len(pats))
    BY <1>1
  <2> DEFINE last == Latest(hits)
  <2>2. last \in hits /\ \A m \in hits : m <= last
    BY <1>3, <2>1, LatestIsLast
  <2>3. Sequential(pats, key, full) <=> pats[last].include
    BY <1>3 DEF Sequential
  <2> HIDE DEF last, hits
  <2> QED
    BY <1>1, <2>2, <2>3
<1> QED
  BY <1>2, <1>3

\* compile may pick any of its matchers: whatever the list and the entry, each decides as
\* the plain loop does, in which the last pattern that matches wins.
THEOREM SieveDecidesAsTheLoop ==
  ASSUME NEW pats \in Seq(Pattern), NEW key, NEW full
  PROVE  Included(pats, key, full) <=> Sequential(pats, key, full)
<1> DEFINE Len1 == 1 .. Len(pats)
<1>1. Len(pats) \in Nat /\ \A m \in Len1 : pats[m] \in Pattern
  OBVIOUS
<1>2. \A p \in Pattern : p.all \in BOOLEAN /\ p.include \in BOOLEAN /\ p.anchored \in BOOLEAN
  BY DEF Pattern
<1>3. CASE pats = << >>
  <2>1. Hits(pats, 1, key, full) = {}
    BY <1>3 DEF Hits
  <2> QED
    BY <1>3, <2>1 DEF Included, Sequential
<1>4. CASE pats # << >> /\ AnyAnchored(pats)
  BY <1>4 DEF Included
<1>5. CASE pats # << >> /\ ~AnyAnchored(pats)
  <2>1. \A m \in Len1 : Hit(pats[m], key, full) <=> pats[m].all \/ key \in pats[m].keys
    BY <1>5 DEF AnyAnchored, Hit
  <2>2. 1 \in Len1
    BY <1>1, <1>5
  <2> DEFINE Loop == Sequential(pats, key, full)
             AllOut == CatchAll(pats, FALSE)
             AllIn == CatchAll(pats, TRUE)
  <2>3. \/ (\A m \in Len1 : ~Hit(pats[m], key, full)) /\ Loop
        \/ \E last \in Len1 :
              /\ Hit(pats[last], key, full)
              /\ \A m \in Len1 : Hit(pats[m], key, full) => m <= last
              /\ Loop <=> pats[last].include
    BY PlainLoop DEF Hits
  <2>4. ~(AllOut /\ AllIn)
    BY DEF CatchAll
  <2>5. CASE AllOut /\ Len(pats) = 1
    <3>1. Included(pats, key, full) <=> FALSE
      BY <1>5, <2>4, <2>5 DEF Included
    <3>2. Hit(pats[1], key, full) /\ pats[1].include = FALSE
      BY <2>1, <2>2, <2>5 DEF CatchAll
    <3>3. \A m \in Len1 : m = 1
      BY <1>1, <2>5
    <3> HIDE DEF Loop
    <3>4. ~Loop
      BY <2>2, <2>3, <3>2, <3>3
    <3> QED
      BY <3>1, <3>4 DEF Loop
  <2>6. CASE AllOut /\ Len(pats) # 1 /\ AllKind(pats, 2, TRUE)
    <3>1. Included(pats, key, full) <=> InSet(pats, 2, key)
      BY <1>5, <2>4, <2>6 DEF Included
    <3>2. Hit(pats[1], key, full) /\ pats[1].include = FALSE
      BY <2>1, <2>2, <2>6 DEF CatchAll
    <3>3. InSet(pats, 2, key) <=> \E m \in Len1 \ {1} : Hit(pats[m], key, full)
      BY <1>1, <2>1 DEF InSet
    <3>4. \A m \in Len1 \ {1} : pats[m].include = TRUE
      BY <1>1, <2>6 DEF AllKind
    <3> HIDE DEF Loop
    <3>5. Loop <=> \E m \in Len1 \ {1} : Hit(pats[m], key, full)
      BY <1>1, <2>2, <2>3, <3>2, <3>4
    <3> QED
      BY <3>1, <3>3, <3>5 DEF Loop
  <2>7. CASE ~AllOut /\ AllIn /\ AllKind(pats, 2, FALSE)
    <3>1. Included(pats, key, full) <=> ~InSet(pats, 2, key)
      BY <1>5, <2>4, <2>7 DEF Included
    <3>2. Hit(pats[1], key, full) /\ pats[1].include = TRUE
      BY <2>1, <2>2, <2>7 DEF CatchAll
    <3>3. InSet(pats, 2, key) <=> \E m \in Len1 \ {1} : Hit(pats[m], key, full)
      BY <1>1, <2>1 DEF InSet
    <3>4. \A m \in Len1 \ {1} : pats[m].include = FALSE
      BY <1>1, <2>7 DEF AllKind
    <3> HIDE DEF Loop
    <3>5. Loop <=> ~\E m \in Len1 \ {1} : Hit(pats[m], key, full)
      BY <1>1, <2>2, <2>3, <3>2, <3>4
    <3> QED
      BY <3>1, <3>3, <3>5 DEF Loop
  <2>8. CASE /\ ~(AllOut /\ Len(pats) = 1)
             /\ ~(AllOut /\ Len(pats) # 1 /\ AllKind(pats, 2, TRUE))
             /\ ~(AllIn /\ AllKind(pats, 2, FALSE))
    <3>1. CASE ExcludeSet(pats)
      <4>1. Included(pats, key, full) <=> ~InSet(pats, 1, key)
        BY <1>5, <2>4, <2>8, <3>1 DEF Included
      <4>2. InSet(pats, 1, key) <=> \E m \in Len1 : Hit(pats[m], key, full)
        BY <1>1, <2>1 DEF InSet
      <4>3. \A m \in Len1 : pats[m].include = FALSE
        BY <3>1 DEF ExcludeSet, AllKind
      <4> HIDE DEF Loop
      <4>4. Loop <=> ~\E m \in Len1 : Hit(pats[m], key, full)
        BY <2>3, <4>3
      <4> QED
        BY <4>1, <4>2, <4>4 DEF Loop
    <3>2. CASE ~ExcludeSet(pats)
      BY <1>5, <2>4, <2>8, <3>2 DEF Included
    <3> QED
      BY <3>1, <3>2
  <2> QED
    BY <2>4, <2>5, <2>6, <2>7, <2>8
<1> QED
  BY <1>3, <1>4, <1>5
=============================================================================
