----------------------------- MODULE LocalWalk ------------------------------
(***************************************************************************)
(* The local directory walk (LocalFileGenerator in                         *)
(* src/boto3_s3/localstorage.py), over a tree that changes while it is     *)
(* read: a name may vanish, become a directory, a link or another file     *)
(* between the scan of its parent and its own turn.                        *)
(*                                                                         *)
(* Abstraction.  A name has two places in byte order, as a leaf and as a   *)
(* directory (which sorts with its separator); a path is ordered name by   *)
(* name.  A node stands for an inode.  A link leads to a node that is no   *)
(* link, or nowhere; the kernel resolves a path through at most MaxLinks   *)
(* links (ELOOP).  The visits of one directory's children are one step     *)
(* between the listing of their names and the first child's turn.  Sizes,  *)
(* times, the wording of warnings and path-length limits are left out; so  *)
(* are walkers that are not LocalFileGenerator, and platforms without      *)
(* directory descriptors.                                                  *)
(***************************************************************************)
EXTENDS Naturals, Sequences, FiniteSets, SequencesExt, GlobSieve

CONSTANTS
  Names, LeafRank, DirRank,  \* the places of a name in byte order
  MaxLinks,                  \* links the kernel follows in one path
  ProbeLinks,                \* from this many on, a link is vetted by its full path
  Trees                      \* the scenarios: a tree, the options, what others change

NoNode == 0
Kinds == {"file", "dir", "link", "special", "locked", "shut"}   \* locked, shut: unreadable

ASSUME WalkAssumption ==
  /\ LeafRank \in [Names -> Nat \ {0}] /\ DirRank \in [Names -> Nat \ {0}]
  /\ MaxLinks \in Nat /\ ProbeLinks \in Nat
  /\ \A t \in Trees :
       /\ t.kind \in Seq(Kinds)                       \* by node: the number of an inode
       /\ {t.follow, t.loops, t.all} \subseteq BOOLEAN
       /\ t.patterns \in Seq(Pattern)

VARIABLES
  tree,                      \* the scenario; it stays
  kids,                      \* the children of each directory, now
  changed,                   \* what somebody else has changed
  pc,
  frames,                    \* the recursion of walk_dir, innermost first
  ancestors,                 \* LoopDetector's stack, outermost first
  out,                       \* the entries yielded so far
  warned, promoted           \* paths warned about; leaves found to be directories

walk == <<pc, frames, ancestors, out, warned, promoted>>
disk == <<tree, kids, changed>>

-----------------------------------------------------------------------------
(* The file system.                                                        *)

KindOf(n) == IF n = NoNode THEN "none" ELSE tree.kind[n]
Followed(n) == IF KindOf(n) = "link" THEN tree.to[n] ELSE n
IsDirectory(kind) == kind \in {"dir", "shut"}
Readable(kind) == kind \in {"file", "dir"}
Child(n, name) == IF IsDirectory(KindOf(n)) THEN kids[n][name] ELSE NoNode

\* One name further along a path, counting the links.
Hop(at, n) ==
  [node |-> Followed(n), links |-> at.links + (IF KindOf(n) = "link" THEN 1 ELSE 0)]
End[path \in Seq(Names)] ==
  IF path = << >> THEN Hop([node |-> NoNode, links |-> 0], tree.root)
  ELSE Hop(End[Front(path)], Child(End[Front(path)].node, Last(path)))
Reach(path) == IF End[path].links <= MaxLinks THEN End[path].node ELSE NoNode

Stat(path) == KindOf(Reach(path))
Lstat(path) ==
  KindOf(IF path = << >> THEN tree.root ELSE Child(Reach(Front(path)), Last(path)))

\* triggers_warning on a path, and on the same path with its separator.
Battery(path) == ~Readable(Stat(path))
BatteryAsDir(path) == Stat(path) # "dir"

\* (st_dev, st_ino), which some volumes do not have.
Identity(n) == IF n \in tree.unidentified THEN NoNode ELSE n

-----------------------------------------------------------------------------
(* What the scan of a directory makes of one child.                        *)

Entry(path, dir) == [path |-> path, dir |-> dir]

\* was: the entry's kind when the directory was read (d_type).  A name that was no link
\* then and is one now is described by its own lstat, as os.DirEntry does.
SeenKind(was, n) == IF was # "link" /\ KindOf(n) = "link" THEN "link" ELSE KindOf(Followed(n))

\* Leaf or directory by a valid stat, after the vetting of the normal view.
Vetted(frame, full, was, seen) ==
  LET near == was = "link" /\ frame.links >= ProbeLinks
  IN IF seen # "link" /\ ~tree.all /\ (~Readable(seen) \/ (near /\ Battery(full))) THEN "warned"
     ELSE IF IsDirectory(seen) THEN "dir" ELSE "leaf"

\* classify_child
Verdict(frame, name) ==
  LET full == Append(frame.path, name)
      was == KindOf(frame.snapshot[name])
      now == kids[frame.node][name]
      seen == SeenKind(was, now)
      unfollowed == was = "link" /\ ~tree.follow
  IN CASE unfollowed /\ tree.all -> IF now = NoNode THEN "warned" ELSE "leaf"
       [] unfollowed /\ ~tree.all /\ Lstat(full) = "link" -> "silent"
       [] unfollowed /\ ~tree.all /\ Lstat(full) # "link" /\ Battery(full) -> "warned"
       [] OTHER -> IF seen # "none" THEN Vetted(frame, full, was, seen)
                   ELSE IF tree.all /\ was = "link" /\ now # NoNode THEN "warned leaf"
                   ELSE "warned"

\* The child as the walk gets it.  lst: its record describes the link itself.
ChildOf(frame, name) ==
  LET n == kids[frame.node][name]
      was == KindOf(frame.snapshot[name])
      dir == Verdict(frame, name) = "dir"
  IN [name |-> name, dir |-> dir, link |-> was = "link",
      lst |-> /\ ~dir /\ KindOf(n) = "link"
              /\ was = "link" => (tree.all /\ ~tree.follow) \/ KindOf(Followed(n)) = "none",
      id |-> IF dir THEN Identity(Followed(n)) ELSE NoNode]

RankBare(child) == LeafRank[child.name]

\* The place of a child among its siblings: a directory sorts with its separator.
Rank(child) == IF child.dir THEN DirRank[child.name] ELSE LeafRank[child.name]

\* finalize_children: in byte order, so the next child is the least one left.
Least(children) == {x \in children : \A y \in children : Rank(x) <= Rank(y)}
Rest(children) == children \ Least(children)

\* sep: the directory is addressed with its separator.  run: the page being collected.
Frame(path, sep, links) ==
  [path |-> path, sep |-> sep, links |-> links, node |-> NoNode,
   snapshot |-> [n \in Names |-> NoNode], todo |-> {}, run |-> << >>]

Top == frames[1]
SetTop(frame) == frames' = [frames EXCEPT ![1] = frame]

Visible(path) == Included(tree.patterns, path, path)

\* A page is handed on through the caller's filter.
Yield(entries) == out' = out \o SelectSeq(entries, LAMBDA e : Visible(e.path))

-----------------------------------------------------------------------------
(* The walk.                                                               *)

WalkInit ==
  /\ tree \in Trees /\ kids = tree.kids /\ changed = {}
  /\ pc = "root" /\ frames = << >> /\ ancestors = << >>
  /\ out = << >> /\ warned = {} /\ promoted = {}

Detects == tree.loops /\ tree.follow

Descend(path, sep, links, stack) ==
  frames' = <<Frame(path, sep, links)>> \o stack /\ pc' = "open"

\* list_file_pages: the root is vetted, or in the complete view reported first.
Root ==
  /\ pc = "root"
  /\ LET unfollowed == Lstat(<< >>) = "link" /\ ~tree.follow
         kind == IF unfollowed THEN "link" ELSE Stat(<< >>)
     IN \/ /\ ~tree.all /\ ((unfollowed /\ IsDirectory(Stat(<< >>))) \/ BatteryAsDir(<< >>))
           /\ warned' = IF unfollowed /\ IsDirectory(Stat(<< >>)) THEN warned
                        ELSE warned \cup {<< >>}
           /\ pc' = "end" /\ UNCHANGED <<frames, ancestors, out>>
        \/ /\ tree.all /\ ~IsDirectory(kind)
           /\ Yield(IF kind = "none" /\ Lstat(<< >>) = "none" THEN << >>
                    ELSE <<Entry(<< >>, FALSE)>>)
           /\ warned' = IF kind = "none" THEN warned \cup {<< >>} ELSE warned
           /\ pc' = "end" /\ UNCHANGED <<frames, ancestors>>
        \/ /\ IF tree.all THEN IsDirectory(kind) ELSE ~unfollowed /\ ~BatteryAsDir(<< >>)
           /\ Yield(IF tree.all THEN <<Entry(<< >>, TRUE)>> ELSE << >>)
           /\ ancestors' = IF Detects THEN <<Identity(Reach(<< >>))>> ELSE << >>
           /\ Descend(<< >>, TRUE, 0, << >>) /\ UNCHANGED warned
  /\ UNCHANGED <<disk, promoted>>

\* A frame is done: walk_dir returns, and the detector forgets the directory.
Leave ==
  /\ frames' = Tail(frames)
  /\ ancestors' = IF Detects /\ Len(frames) > 1 THEN Front(ancestors) ELSE ancestors

Resume == pc' = IF Len(frames) = 1 THEN "end" ELSE "turn"

\* scan_children: the directory is opened and its names are read, unless it has become
\* a link that is not followed, or cannot be opened any more.
Open ==
  /\ pc = "open"
  /\ LET path == Top.path
         bare == Top.sep /\ ~tree.follow /\ IsDirectory(Stat(path))
     IN \/ bare /\ Lstat(path) = "link" /\ Leave /\ Resume
        \/ /\ ~(bare /\ Lstat(path) = "link") /\ Stat(path) = "dir"
           /\ SetTop([Top EXCEPT !.node = Reach(path), !.snapshot = kids[Reach(path)]])
           /\ pc' = "classify" /\ UNCHANGED ancestors
        \/ /\ ~(bare /\ Lstat(path) = "link") /\ Stat(path) # "dir"
           /\ SetTop([Top EXCEPT !.sep = @ /\ ~bare])
           /\ pc' = "vet" /\ UNCHANGED ancestors
  /\ UNCHANGED <<disk, out, warned, promoted>>

\* The directory could not be opened: the battery names the reason, or the error is
\* raised if by now there is none.
VetDirectory ==
  /\ pc = "vet"
  /\ LET path == Top.path
     IN IF IF Top.sep THEN BatteryAsDir(path) ELSE Battery(path)
        THEN warned' = warned \cup {path} /\ Leave /\ Resume
        ELSE pc' = "raised" /\ UNCHANGED <<frames, ancestors, warned>>
  /\ UNCHANGED <<disk, out, promoted>>

Classify ==
  /\ pc = "classify" /\ pc' = "turn"
  /\ LET seen == {name \in Names : Top.snapshot[name] # NoNode}
         Judged(verdicts) == {name \in seen : Verdict(Top, name) \in verdicts}
     IN /\ SetTop([Top EXCEPT !.todo =
                     {ChildOf(Top, name) : name \in Judged({"leaf", "warned leaf", "dir"})}])
        /\ warned' = warned \cup {Append(Top.path, name) : name \in Judged({"warned", "warned leaf"})}
  /\ UNCHANGED <<disk, ancestors, out, promoted>>

IsCycleParent(id) == id # NoNode /\ id = Last(ancestors)

IsCycle(id) == id # NoNode /\ id \in ToSet(ancestors)

\* A directory's turn, or a leaf's that has become one: what was collected is yielded,
\* with the directory's own record in the complete view, then the walk descends, unless
\* the directory is its own ancestor.
Enter(child, id) ==
  LET path == Append(Top.path, child.name)
      rest == <<[Top EXCEPT !.todo = Rest(@), !.run = << >>]>> \o Tail(frames)
  IN /\ Yield(Top.run \o (IF tree.all THEN <<Entry(path, TRUE)>> ELSE << >>))
     /\ IF Detects /\ IsCycle(id)
        THEN /\ frames' = rest /\ warned' = warned \cup {path} /\ UNCHANGED <<pc, ancestors>>
        ELSE /\ Descend(path, child.dir, Top.links + (IF child.link THEN 1 ELSE 0), rest)
             /\ ancestors' = IF Detects THEN Append(ancestors, id) ELSE ancestors
             /\ UNCHANGED warned

DirTurn ==
  /\ pc = "turn"
  /\ \E child \in Least(Top.todo) : child.dir /\ Enter(child, child.id)
  /\ UNCHANGED <<disk, promoted>>

Emit(path) == SetTop([Top EXCEPT !.todo = Rest(@), !.run = Append(@, Entry(path, FALSE))])
Drop == SetTop([Top EXCEPT !.todo = Rest(@)])

\* restat_leaf: a leaf is reported as it is at its turn.
LeafTurn ==
  /\ pc = "turn"
  /\ \E child \in {x \in Least(Top.todo) : ~x.dir} :
     LET path == Append(Top.path, child.name)
         kind == IF child.lst THEN "link" ELSE Stat(path)
         linked == Lstat(path) = "link"
     IN \/ /\ kind # "none" /\ ~IsDirectory(kind) /\ Emit(path)
           /\ UNCHANGED <<pc, ancestors, out, warned, promoted>>
        \/ /\ kind = "none" /\ tree.all /\ linked /\ Emit(path)
           /\ warned' = IF tree.follow THEN warned \cup {path} ELSE warned
           /\ UNCHANGED <<pc, ancestors, out, promoted>>
        \/ /\ kind = "none" /\ ~(tree.all /\ linked) /\ pc' = "gone"
           /\ UNCHANGED <<frames, ancestors, out, warned, promoted>>
        \/ /\ IsDirectory(kind) /\ linked /\ ~tree.follow
           /\ IF tree.all THEN Emit(path) ELSE Drop
           /\ UNCHANGED <<pc, ancestors, out, warned, promoted>>
        \/ /\ IsDirectory(kind) /\ (linked => tree.follow)
           /\ Enter([child EXCEPT !.link = linked], Identity(Reach(path)))
           /\ promoted' = promoted \cup {path}
  /\ UNCHANGED disk

GoneAgain ==
  /\ pc = "gone" /\ pc' = "turn"
  /\ \E child \in Least(Top.todo) :
     LET path == Append(Top.path, child.name)
     IN warned' = IF Battery(path) THEN warned \cup {path} ELSE warned
  /\ UNCHANGED <<disk, frames, ancestors, out, promoted>>

\* The battery on a leaf whose stat failed; it is dropped either way.
Gone ==
  /\ pc = "gone" /\ pc' = "turn" /\ Drop
  /\ \E child \in Least(Top.todo) :
     LET path == Append(Top.path, child.name)
     IN warned' = IF Battery(path) THEN warned \cup {path} ELSE warned
  /\ UNCHANGED <<disk, ancestors, out, promoted>>

\* The last run of a directory is a page of its own.
Return ==
  /\ pc = "turn" /\ Top.todo = {} /\ Yield(Top.run) /\ Leave /\ Resume
  /\ UNCHANGED <<disk, warned, promoted>>

Walk ==
  Root \/ Open \/ VetDirectory \/ Classify \/ DirTurn \/ LeafTurn \/ Gone \/ Return

\* Somebody else changes the tree: one of the changes the scenario allows.
Change ==
  \E s \in tree.swaps \ changed :
    /\ changed' = changed \cup {s}
    /\ kids' = [kids EXCEPT ![s.place[1]][s.place[2]] = s.node]
    /\ UNCHANGED <<tree, walk>>

Over == pc \in {"end", "raised"}
=============================================================================
