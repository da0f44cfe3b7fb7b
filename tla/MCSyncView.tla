----------------------------- MODULE MCSyncView -----------------------------
EXTENDS SyncView

MCNames == {"a", "a.b", "c"}
MCLeaf == [n \in MCNames |-> CASE n = "a" -> 1 [] n = "a.b" -> 2 [] n = "c" -> 5]
MCDir == [n \in MCNames |-> CASE n = "a" -> 4 [] n = "a.b" -> 3 [] n = "c" -> 6]

MCItemKeys == UNION {[1 .. n -> MCNames] : n \in 1 .. 4}
\* 1 the root, 2 a directory, 3 and 4 files, 5 a link, 6 an entry of another kind.
Dir(a, ab, c) == [x \in MCNames |-> CASE x = "a" -> a [] x = "a.b" -> ab [] x = "c" -> c]
Empty == Dir(0, 0, 0)

Scenario(root, sub, to, other, options, bucket, patterns, swaps, breaks) ==
  [root |-> 1, kind |-> <<"dir", "dir", "file", "file", "link", other>>,
   to |-> [n \in 1 .. 6 |-> IF n = 5 THEN to ELSE 0],
   kids |-> [n \in 1 .. 6 |-> IF n = 1 THEN root ELSE IF n = 2 THEN sub ELSE Empty],
   follow |-> options.follow, loops |-> options.loops, all |-> options.all,
   deletes |-> options.deletes,
   unidentified |-> {}, bucket |-> bucket, patterns |-> patterns, swaps |-> swaps,
   breaks |-> breaks]

Glob(include, keys) ==
  [include |-> include, all |-> keys = {}, anchored |-> FALSE, keys |-> keys, full |-> {}]
Anchored(include, full) == [Glob(include, {}) EXCEPT !.all = FALSE, !.anchored = TRUE, !.full = full]
Plainly == [follow |-> TRUE, loops |-> FALSE, all |-> FALSE, deletes |-> FALSE]
NoFilter == << >>
Lists1 == {NoFilter,
           <<Glob(FALSE, {}), Glob(TRUE, {<<"a", "a">>, <<"c">>})>>,
           <<Glob(TRUE, {<<"a.b">>}), Glob(FALSE, {<<"a.b">>, <<"a", "a">>})>>,
           <<Glob(FALSE, {<<"a", "a">>}), Glob(TRUE, {<<"a", "a">>}), Glob(FALSE, {<<"c">>})>>,
           <<Glob(FALSE, {}), Anchored(TRUE, {<<"a.b">>})>>}
Swap(n, name, to) == [place |-> <<n, name>>, node |-> to]

\* The tree alone: what leads where, with every option.
Options == {o \in [follow : BOOLEAN, loops : BOOLEAN, all : BOOLEAN, deletes : BOOLEAN] :
              (o.loops => o.follow /\ ~o.deletes) /\ ~(o.all /\ o.deletes)}
Plain ==
  {Scenario(Dir(2, x, 5), Dir(4, 0, y), to, other, o, << >>, NoFilter, {}, FALSE) :
     x \in {3, 6}, y \in {5, 6}, to \in {0, 1, 2, 3}, other \in {"special", "shut"}, o \in Options}
\* Both sides, with filters and pages that break.
Matched ==
  {Scenario(Dir(2, 3, 0), Dir(4, 0, 0), 2, "file", [Plainly EXCEPT !.deletes = deletes], bucket, patterns, {}, TRUE) :
     deletes \in BOOLEAN, patterns \in Lists1,
     bucket \in {<< >>, <<<<"a">>, <<"a", "a">>, <<"c">>>>, <<<<"a.b">>, <<"c">>>>, <<<<"a.b">>, <<"a", "a">>, <<"c">>>>}}
\* A tree that changes: up to two names, in either order.
Changes ==
  {{Swap(1, "a", 0), Swap(1, "a.b", 2)}, {Swap(1, "a", 3), Swap(1, "a.b", 5)},
   {Swap(1, "a", 5), Swap(1, "a.b", 0)}, {Swap(1, "a", 6), Swap(1, "a", 2)},
   {Swap(1, "a", 0), Swap(1, "a", 2)}, {Swap(1, "a.b", 2), Swap(1, "a.b", 5)}}
Moving ==
  {Scenario(Dir(2, 3, 5), Dir(4, 0, 0), to, "shut", o, <<<<"a.b">>, <<"a", "a">>>>, NoFilter, c, FALSE) :
     to \in {0, 2}, o \in {x \in Options : ~x.loops}, c \in Changes}
\cup
  {Scenario(Dir(2, 3, 5), Dir(4, 0, 0), 1, "shut", [Plainly EXCEPT !.loops = TRUE], << >>, NoFilter, c, FALSE) :
     c \in Changes}
\* What is scanned is no directory, or a link.
Rooted ==
  {[Scenario(Empty, Dir(4, 3, 0), to, "shut", o, <<<<"a">>>>, NoFilter, {}, FALSE) EXCEPT !.root = root] :
     root \in {0, 3, 5, 6}, to \in {0, 2, 3}, o \in Options}
MCTrees == Plain \cup Matched \cup Moving \cup Rooted
MCMergeKeys == 0 .. 100000
=============================================================================
