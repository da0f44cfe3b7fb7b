------------------------------ MODULE SyncView ------------------------------
(***************************************************************************)
(* What sync sees: a local tree on one side and an S3 listing on the       *)
(* other, each through the filters (LocalWalk, GlobSieve), and the merge   *)
(* of the two (Comparator).  On an upload the tree is the source and a     *)
(* worker reads it ahead of the merge; on a download with --delete it is   *)
(* the destination, walked only as far as the merge has come, because the  *)
(* delete lane removes its orphans while it is being walked.  Decisions    *)
(* and transfers are in SyncPairs and Transferrer; the queue between a     *)
(* worker and the merge is in Prefetch.                                    *)
(***************************************************************************)
EXTENDS LocalWalk, Comparator

CONSTANTS
  PageSize,                  \* keys per listing page
  Depth                      \* names in the longest path

ASSUME ViewAssumption ==
  /\ PageSize \in Nat \ {0} /\ Depth \in Nat \ {0}

VARIABLES
  cursor,                    \* how many keys of the listing have been read
  listing,                   \* "open", "over" or "broken"
  removed, failed,           \* places the delete lane emptied; paths it could not remove
  result                     \* of the sync: "running", "done" or "raised"

lane == <<removed, failed>>
vars == <<disk, walk, mergeVars, cursor, listing, lane, result>>

-----------------------------------------------------------------------------
(* Keys: the compare key of an entry as a number in byte order.            *)

Base == 2 * Cardinality(Names) + 1
Digit(path, dir, n) ==
  IF n > Len(path) THEN 0
  ELSE IF n < Len(path) \/ dir THEN DirRank[path[n]] ELSE LeafRank[path[n]]
KeyOf(path, dir) ==
  FoldLeft(LAMBDA key, n : key * Base + Digit(path, dir, n), 0, [n \in 1 .. Depth |-> n])
Paths == UNION {[1 .. n -> Names] : n \in 1 .. Depth}
LeafKey == [path \in Paths |-> KeyOf(path, FALSE)]
\* ListObjectsV2 answers in byte order.
ASSUME BucketAssumption ==
  \A t \in Trees : \A m, n \in 1 .. Len(t.bucket) :
    m < n => LeafKey[t.bucket[m]] < LeafKey[t.bucket[n]]

KeysOf(entries) == [n \in 1 .. Len(entries) |-> KeyOf(entries[n].path, entries[n].dir)]

-----------------------------------------------------------------------------
(* The S3 side.                                                            *)

Sieved(paths) == KeysOf([n \in 1 .. Len(SelectSeq(paths, Visible)) |->
                           Entry(SelectSeq(paths, Visible)[n], FALSE)])

\* The entries join the stream of the side that is listed.
Deliver(page, over) ==
  IF tree.deletes
  THEN src' = src \o page /\ srcOver' = over /\ UNCHANGED <<dest, destOver>>
  ELSE dest' = dest \o page /\ destOver' = over /\ UNCHANGED <<src, srcOver>>

ListsUntilEmpty(count, status) ==
  LET page == Sieved(SubSeq(tree.bucket, cursor + 1, cursor + count))
  IN /\ cursor' = cursor + count /\ listing' = status
     /\ Deliver(page, status = "over" \/ page = << >>)
     /\ UNCHANGED <<disk, walk, passed, lane, result>>

Lists(count, status) ==
  /\ cursor' = cursor + count /\ listing' = status
  /\ Deliver(Sieved(SubSeq(tree.bucket, cursor + 1, cursor + count)), status = "over")
  /\ UNCHANGED <<disk, walk, passed, lane, result>>

Left == Len(tree.bucket) - cursor
Full == IF Left < PageSize THEN Left ELSE PageSize

\* _scan_object_pages: one page, sieved; the last one is not truncated.
ListPage ==
  /\ listing = "open"
  /\ Lists(Full, IF Left <= PageSize THEN "over" ELSE "open")

\* The request fails, or the page has an entry that cannot be read: the entries ahead of
\* it are handed on, then the error.
ListBreaks == tree.breaks /\ listing = "open" /\ \E n \in 0 .. Full : Lists(n, "broken")

-----------------------------------------------------------------------------
(* The local side.                                                         *)

\* sync_entries: no reading ahead where the delete lane changes the tree.
ReadAhead == ~tree.deletes

WalkStep ==
  /\ result = "running"
  /\ ReadAhead \/ ~DestHeld
  /\ Walk
  /\ IF tree.deletes
     THEN dest' = KeysOf(out') /\ destOver' = (pc' = "end") /\ UNCHANGED <<src, srcOver>>
     ELSE src' = KeysOf(out') /\ srcOver' = (pc' = "end") /\ UNCHANGED <<dest, destOver>>
  /\ UNCHANGED <<passed, cursor, listing, lane, result>>

Disturb ==
  Change /\ UNCHANGED <<mergeVars, cursor, listing, lane, result>>

-----------------------------------------------------------------------------
(* The merge.                                                              *)

Init ==
  /\ WalkInit /\ MergeInit
  /\ cursor = 0 /\ listing = "open" /\ removed = {} /\ failed = {}
  /\ result = "running"

MergeStep ==
  /\ result = "running" /\ (TakeSrc \/ TakeBoth)
  /\ UNCHANGED <<disk, walk, cursor, listing, lane, result>>

\* _SyncDeletes.submit on a local destination: LocalStorage.delete, at once.
RemoveOrphan(path) ==
  LET place == <<Reach(Front(path)), Last(path)>>
  IN IF Lstat(path) \in {"none", "dir", "shut"}
     THEN failed' = failed \cup {path} /\ UNCHANGED <<removed, kids>>
     ELSE /\ kids' = [kids EXCEPT ![place[1]][place[2]] = NoNode]
          /\ removed' = removed \cup {place} /\ UNCHANGED failed

Orphan ==
  /\ result = "running" /\ TakeDest
  /\ IF tree.deletes THEN RemoveOrphan(out[j + 1].path) ELSE UNCHANGED <<kids, lane>>
  /\ UNCHANGED <<tree, changed, walk, cursor, listing, result>>

SourceBroken == IF tree.deletes THEN listing = "broken" ELSE pc = "raised"
DestBroken == IF tree.deletes THEN pc = "raised" ELSE listing = "broken"

\* The merge asks a side for an entry, and gets its error or its end.
Ends ==
  /\ result = "running"
  /\ \/ SrcNone /\ DestNone /\ result' = "done"
     \/ ~SrcHeld /\ SourceBroken /\ result' = "raised"
     \/ ~DestHeld /\ DestBroken /\ result' = "raised"
  /\ UNCHANGED <<disk, walk, mergeVars, cursor, listing, lane>>

Finished == result # "running" /\ UNCHANGED vars

Progress == ListPage \/ MergeStep \/ Orphan \/ Ends \/ WalkStep
Next == Progress \/ ListBreaks \/ Disturb \/ Finished

\* The sync pulls, the walk and the requests go on by themselves; nobody is obliged to
\* change the tree or to break the listing.
Spec == Init /\ [][Next]_vars /\ WF_vars(Progress)

-----------------------------------------------------------------------------
(* Properties.                                                             *)

TypeOK ==
  /\ kids \in [1 .. Len(tree.kind) -> [Names -> 0 .. Len(tree.kind)]]
  /\ pc \in {"root", "open", "vet", "classify", "turn", "gone", "end", "raised"}
  /\ changed \subseteq tree.swaps
  /\ pc \in {"end", "root"} => frames = << >> /\ (pc = "root" => ancestors = << >>)
  /\ tree.loops /\ tree.follow /\ pc \in {"classify", "turn"} => Len(ancestors) = Len(frames)
  /\ listing \in {"open", "over", "broken"} /\ cursor \in 0 .. Len(tree.bucket)
  /\ i \in 0 .. Len(src) /\ j \in 0 .. Len(dest)

\* The places a path leads through, and those that are as they were.
Above(path) == {SubSeq(path, 1, n) : n \in 0 .. Len(path) - 1}
Touched == {s.place : s \in changed} \cup removed
Intact(path) ==
  \A n \in 1 .. Len(path) : <<Reach(SubSeq(path, 1, n - 1)), path[n]>> \notin Touched

Unfollowed(path) == Lstat(path) = "link" /\ ~tree.follow
Cyclic(path) ==
  /\ Detects
  /\ \E p \in Above(path) : Identity(Reach(p)) # NoNode /\ Reach(p) = Reach(path)

\* A directory the walk ought to read, and an entry it ought to list.
Walked(dir) == \A p \in Above(dir) \cup {dir} : Stat(p) = "dir" /\ ~Unfollowed(p) /\ ~Cyclic(p)
Listable(path) ==
  /\ path # << >> /\ Walked(Front(path))
  /\ IF tree.all THEN Lstat(path) # "none" ELSE Stat(path) = "file" /\ ~Unfollowed(path)

Times(path) == Cardinality({n \in 1 .. Len(out) : out[n].path = path})

\* The state stays well typed (TypeOK); and when a sync is over whose walk came to its
\* end, whatever nobody touched is accounted for: a file is listed exactly once if the filters let it through, and what cannot be
\* listed is warned about, unless it is a link the walk does not follow or a directory it
\* has read (localstorage.py:495, globsieve.py's last match wins, and the exit code 2 of
\* skipped files); and if nobody else changes the tree, the delete lane removes every
\* orphan it is given - no second path leads to a file that is gone (producers.py:1366-1373).
Accounted ==
  /\ TypeOK
  /\ changed = {} /\ ~tree.all => failed = {}
  /\ pc = "end" /\ result # "running" =>
    \A path \in Paths :
      Intact(path) /\ Walked(Front(path)) /\ Lstat(path) # "none" =>
        IF Listable(path)
        THEN Times(path) = (IF Sequential(tree.patterns, path, path) THEN 1 ELSE 0)
        ELSE /\ Times(path) = 0
             /\ Unfollowed(path) \/ Walked(path) \/ path \in warned

BucketHas(key) == \E p \in ToSet(tree.bucket) : LeafKey[p] = key /\ Visible(p)
TreeHas(key) ==
  \E path \in Paths :
    LeafKey[path] = key /\ Intact(path) /\ Listable(path) /\ Visible(path)

\* The pairs of the merge tell the truth (PairsAreTrue); and as long as no leaf was found
\* to be a directory at its turn, sync calls nothing new or orphaned that is on both sides
\* and that nobody touched (comparator.py:228-235: the delete lane acts on a wrong verdict).
JudgedRight ==
  /\ PairsAreTrue
  /\ promoted = {} =>
       /\ \A p \in news : IF tree.deletes THEN ~TreeHas(src[p]) ELSE ~BucketHas(src[p])
       /\ \A q \in orphans : IF tree.deletes THEN ~BucketHas(dest[q]) ELSE ~TreeHas(dest[q])

\* The sync ends, also where links lead in circles and where a side breaks.
SyncEnds == <>(result # "running")
=============================================================================
