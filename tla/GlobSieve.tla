----------------------------- MODULE GlobSieve ------------------------------
(***************************************************************************)
(* The include/exclude sieve (src/boto3_s3/globsieve.py): compile picks a  *)
(* matcher by the shape of the pattern list; each shape has to decide as   *)
(* the plain loop does, in which the last pattern that matches wins.       *)
(*                                                                         *)
(* Abstraction.  A pattern is what it matches: the compare keys, or, when  *)
(* it is anchored, the full keys.  How a glob matches text (fnmatch, and   *)
(* the literal, suffix, prefix and regex forms of a set) is left out.      *)
(***************************************************************************)
EXTENDS Naturals, Sequences

CONSTANTS
  ItemKeys,                  \* compare keys; every entry has one
  FullKeys,                  \* full keys, of the sides where an anchor means something
  NoKey                      \* an entry whose full key is not known

ASSUME SieveAssumption == NoKey \notin FullKeys

\* all: the pattern is the bare "*"; anchored: it is matched against the full key.
Pattern ==
  {p \in [include : BOOLEAN, all : BOOLEAN, anchored : BOOLEAN, keys : SUBSET ItemKeys,
          full : SUBSET FullKeys] : p.all => ~p.anchored}

Hit(p, key, full) == p.all \/ (IF p.anchored THEN full \in p.full ELSE key \in p.keys)

\* Where the patterns of a list, from position n on, are hit.
Hits(pats, n, key, full) == {m \in n .. Len(pats) : Hit(pats[m], key, full)}

Latest(S) == CHOOSE m \in S : \A other \in S : other <= m

\* Sequential and Anchored: each hit overwrites the running decision, which starts as
\* include.
Sequential(pats, key, full) ==
  LET hits == Hits(pats, 1, key, full) IN hits = {} \/ pats[Latest(hits)].include

\* IncludeOnly and ExcludeOnly over the patterns from position n on, as one set; a set
\* knows compare keys only.
InSet(pats, n, key) == \E m \in n .. Len(pats) : pats[m].all \/ key \in pats[m].keys

AllKind(pats, n, include) == \A m \in n .. Len(pats) : pats[m].include = include
CatchAll(pats, include) == pats[1].all /\ pats[1].include = include

AnyAnchored(pats) == \E n \in 1 .. Len(pats) : pats[n].anchored

\* The exclude set needs no catch-all ahead of it, but no include either.
ExcludeSet(pats) == AllKind(pats, 1, FALSE)

\* compile, and included of the matcher it returns.
Included(pats, key, full) ==
  CASE pats = << >>                                     -> TRUE
    [] pats # << >> /\ AnyAnchored(pats)                -> Sequential(pats, key, full)
    [] pats # << >> /\ ~AnyAnchored(pats)               ->
         CASE CatchAll(pats, FALSE) /\ Len(pats) = 1    -> FALSE
           [] CatchAll(pats, FALSE) /\ Len(pats) # 1 /\ AllKind(pats, 2, TRUE)
                                                        -> InSet(pats, 2, key)
           [] CatchAll(pats, TRUE) /\ AllKind(pats, 2, FALSE)
                                                        -> ~InSet(pats, 2, key)
           [] OTHER -> IF ExcludeSet(pats) THEN ~InSet(pats, 1, key)
                       ELSE Sequential(pats, key, full)
=============================================================================
