---------------------------- MODULE ItemDoneProofs ----------------------------
(***************************************************************************)
(* The safety of ItemDone for every set of items, every size of object and *)
(* of chunk, every number of attempts and every bound on faults.           *)
(*                                                                         *)
(* An announcement runs the subscribers in a fixed order, skips the rest   *)
(* when one lets a BaseException escape, and may start again.  So the      *)
(* strengthening ranks the subscribers: what is still on the list is an    *)
(* ordered part of the chain (ListOK), and what has not been done is still *)
(* on it (Ahead).  With that, the delete of a source and the record stand  *)
(* behind the commit of the handle, whose bytes are whole because a body   *)
(* writes them in sequence, through cuts and repetitions (BytesOK).        *)
(***************************************************************************)
EXTENDS ItemDone, SequenceTheorems, TLAPS

\* The subscribers of an item.
Names == {"close", "stamp", "fsync", "tags", "annotate", "delete", "complete"}

\* Where a subscriber stands among the others, on every route.
Rank(name) == CASE name = "close" -> 1 [] name = "stamp" -> 2 [] name = "fsync" -> 3
                [] name = "tags" -> 4 [] name = "annotate" -> 5 [] name = "delete" -> 6
                [] OTHER -> 7

\* The subscriber is on the list.
Has(s, name) == \E j \in 1 .. Len(s) : s[j] = name

\* The list keeps the order of the ranks.
Ordered(s) ==
  /\ s \in Seq(Names)
  /\ \A i, j \in 1 .. Len(s) : i < j => Rank(s[i]) < Rank(s[j])

\* What the chain of an item holds.
OnChain(name) ==
  CASE name = "close" -> item.handle
    [] name = "stamp" -> item.route = "download"
    [] name = "fsync" -> item.route = "download" /\ item.fsync
    [] name = "tags" -> item.route = "copy" /\ item.tags
    [] name = "annotate" -> item.route = "copy" /\ item.annotations
    [] name = "delete" -> item.move
    [] OTHER -> item.route # "get_file"

\* The list is empty but for an announcement, and never in disorder.
ListOK ==
  /\ Ordered(todo) /\ \A name \in Names : Has(todo, name) => OnChain(name)
  /\ pc # "announce" => todo = << >>
  /\ item.route = "get_file" <=> call # "off"
  /\ item.route = "get_file" => pc \in {"single", "over"}
  /\ pc = "single" => item.route = "get_file"

\* Nothing was done before the body was over.
Before ==
  pc \in {"body", "rename", "single"} =>
    /\ source /\ ~deleteRan /\ ~settled /\ ~again /\ outcome = "ok"
    /\ pc = "body" /\ item.handle /\ ~severed => handle = "open"
    /\ pc = "rename" => ~item.handle

\* What was not done is still on the list.
Ahead ==
  pc = "announce" =>
    /\ handle = "open" => Has(todo, "close")
    /\ item.move /\ ~deleteRan => Has(todo, "delete")
    /\ ~settled => Has(todo, "complete")
    /\ settled /\ ~again => todo = << >>

\* The bytes on the other side are those that were written, or read, in sequence.
BytesOK ==
  /\ size \in Nat /\ at \in 0 .. size /\ written \in 0 .. size
  /\ item.route = "download" => out = Bytes(0, written) /\ at <= written
  /\ item.route # "download" => out = Bytes(0, at)

\* The handle, and what the delete of the source found.
HandleOK ==
  /\ ~item.handle => handle = "committed"
  /\ severed => handle = "discarded"
  /\ ~source => deleteRan
  /\ deleteRan => item.move /\ handle # "open"
  /\ deleteRan /\ outcome = "ok" => ~source

\* An item that is well has its bytes at the destination, or in the hands of a handle
\* that is still to be committed.
WellPlaced ==
  pc = "announce" /\ outcome = "ok" /\ rollback = "none" /\ ~severed =>
    /\ item.handle => Whole /\ handle # "discarded"
    /\ handle = "committed" \/ item.route = "upload" => Held

\* What was deleted or reported stands on data that no later step takes away.
StaysPlaced ==
  rollback = "none" /\ ~severed =>
    /\ ~source \/ records = <<"SUCCEEDED">> => Held /\ handle # "open"
    /\ records = <<"SUCCEEDED">> => handle = "committed" /\ (item.move => ~source)

\* A file that is to be flushed was, from its subscriber on.
Flushed ==
  item.fsync =>
    /\ ~source => dest = "durable"
    /\ pc = "announce" /\ outcome = "ok" /\ ~Has(todo, "fsync") => dest = "durable"

\* A BaseException nobody noted is the item's outcome, and its record is to come; or it
\* stalled the engine, before anything of a failed item was reported or deleted.
Noted ==
  /\ again => noted /\ item.runs = "serial"
  /\ interrupted => \/ noted \/ pc = "stalled"
                    \/ outcome = "interrupt" /\ ~settled /\ pc = "announce"
  /\ pc = "unwind" => settled
  /\ pc = "over" => settled \/ interrupted
  /\ pc = "stalled" => /\ item.runs = "crt" /\ item.handle /\ outcome # "ok"
                       /\ source /\ ~settled /\ interrupted

\* get_file: where the call is, and what it has on disk.
CallOK ==
  /\ call \in {"off", "request", "create", "returned"} => ~temp
  /\ call \in {"close", "replace"} => Whole
  /\ call \in {"discard", "raised"} => faults > 0
  /\ call = "raised" /\ temp => faults > 1
  /\ call # "off" => dest \in {"old", "whole"}
  /\ call = "returned" => dest = "whole"
  /\ pc = "single" => call \notin {"returned", "raised", "cut"}

\* The inductive invariant.
IInv ==
  /\ TypeOK /\ ListOK /\ Before /\ Ahead /\ BytesOK /\ HandleOK
  /\ WellPlaced /\ StaysPlaced /\ Flushed /\ Noted /\ CallOK
-----------------------------------------------------------------------------
(* Lists of subscribers.                                                   *)

\* An ordered list no rank of which exceeds r.
Below(s, r) == Ordered(s) /\ \A i \in 1 .. Len(s) : Rank(s[i]) <= r

\* Ranks are numbers from 1 to 7.
LEMMA RanksAreNumbers == \A x \in Names : Rank(x) \in 1 .. 7
BY DEF Rank, Names

\* The empty list is ordered, and nobody is on it.
LEMMA NoneIsOrdered == Below(<< >>, 0) /\ \A x : ~Has(<< >>, x)
BY EmptySeq DEF Below, Ordered, Has

\* A list stays ordered when a subscriber of a higher rank joins its end.
LEMMA NameAppended ==
  ASSUME NEW s, NEW r \in Nat, Below(s, r), NEW name \in Names, r < Rank(name)
  PROVE  /\ Below(s \o <<name>>, Rank(name))
         /\ \A x : Has(s \o <<name>>, x) <=> Has(s, x) \/ x = name
<1>1. s \in Seq(Names) /\ Len(s) \in Nat
  BY LenProperties DEF Below, Ordered
<1>2. Rank(name) \in Nat /\ \A x \in Names : Rank(x) \in Nat
  BY RanksAreNumbers
<1>3. \A i \in 1 .. Len(s) : s[i] \in Names /\ Rank(s[i]) <= r
  BY <1>1, ElementOfSeq DEF Below
<1>4. \A i, j \in 1 .. Len(s) : i < j => Rank(s[i]) < Rank(s[j])
  BY DEF Below, Ordered
<1> DEFINE one == <<name>>
           t == s \o one
<1>5. one \in Seq(Names) /\ Len(one) = 1 /\ one[1] = name
  OBVIOUS
<1>6. t \in Seq(Names) /\ Len(t) = Len(s) + 1
  BY <1>1, <1>5, ConcatProperties
<1>7. \A i \in 1 .. Len(s) : t[i] = s[i]
  BY <1>1, <1>5, ConcatProperties
<1>8. t[Len(s) + 1] = name
  BY <1>1, <1>5, ConcatProperties
<1> HIDE DEF t, one
<1>9. \A i, j \in 1 .. Len(t) : i < j => Rank(t[i]) < Rank(t[j])
  <2> TAKE i, j \in 1 .. Len(t)
  <2> HAVE i < j
  <2>1. i \in 1 .. Len(s) /\ t[i] = s[i]
    BY <1>1, <1>6, <1>7
  <2>2. CASE j \in 1 .. Len(s)
    BY <1>4, <1>7, <2>1, <2>2
  <2>3. CASE j = Len(s) + 1
    BY <1>2, <1>3, <1>8, <2>1, <2>3
  <2> QED
    BY <1>1, <1>6, <2>2, <2>3
<1>10. \A i \in 1 .. Len(t) : Rank(t[i]) <= Rank(name)
  BY <1>1, <1>2, <1>3, <1>6, <1>7, <1>8
<1>11. \A x : Has(t, x) <=> Has(s, x) \/ x = name
  BY <1>1, <1>6, <1>7, <1>8 DEF Has
<1> QED
  BY <1>6, <1>9, <1>10, <1>11 DEF Below, Ordered, t, one

\* And so if the subscriber joins or not, as the item asks for it.
LEMMA OptAppended ==
  ASSUME NEW s, NEW r \in Nat, Below(s, r), NEW name \in Names, r < Rank(name), NEW c \in BOOLEAN
  PROVE  /\ Below(s \o Opt(c, name), Rank(name))
         /\ \A x : Has(s \o Opt(c, name), x) <=> Has(s, x) \/ (c /\ x = name)
<1>1. CASE c
  BY <1>1, NameAppended DEF Opt
<1>2. CASE ~c
  <2>1. s \in Seq(Names) /\ Rank(name) \in Nat
    BY RanksAreNumbers DEF Below, Ordered
  <2>2. s \o Opt(c, name) = s
    BY <1>2, <2>1, ConcatEmptySeq DEF Opt
  <2>3. \A i \in 1 .. Len(s) : Rank(s[i]) <= Rank(name)
    BY <2>1, RanksAreNumbers, ElementOfSeq DEF Below
  <2> QED
    BY <1>2, <2>2, <2>3 DEF Below
<1> QED
  BY <1>1, <1>2

\* The first entry is ranked below what follows it.
LEMMA HeadGoes ==
  ASSUME NEW s, Ordered(s), s # << >>
  PROVE  /\ Ordered(Tail(s)) /\ Head(s) \in Names /\ Len(s) > 0
         /\ \A x : Has(s, x) <=> x = Head(s) \/ Has(Tail(s), x)
         /\ \A x : Has(Tail(s), x) => Rank(Head(s)) < Rank(x)
<1>1. s \in Seq(Names) /\ Len(s) \in Nat /\ Len(s) > 0
  BY EmptySeq, LenProperties DEF Ordered
<1>2. Tail(s) \in Seq(Names) /\ Len(Tail(s)) = Len(s) - 1
      /\ \A i \in 1 .. Len(Tail(s)) : Tail(s)[i] = s[i + 1]
  BY <1>1, HeadTailProperties
<1>3. Head(s) = s[1] /\ s[1] \in Names
  BY <1>1, ElementOfSeq
<1>4. \A i, j \in 1 .. Len(s) : i < j => Rank(s[i]) < Rank(s[j])
  BY DEF Ordered
<1>5. Ordered(Tail(s))
  BY <1>1, <1>2, <1>4 DEF Ordered
<1>6. \A x : Has(s, x) <=> x = Head(s) \/ Has(Tail(s), x)
  <2> TAKE x
  <2>1. ASSUME Has(s, x) PROVE x = Head(s) \/ Has(Tail(s), x)
    <3>1. PICK j \in 1 .. Len(s) : s[j] = x
      BY <2>1 DEF Has
    <3>2. CASE j = 1
      BY <1>3, <3>1, <3>2
    <3>3. CASE j # 1
      <4>1. j - 1 \in 1 .. Len(Tail(s)) /\ Tail(s)[j - 1] = x
        BY <1>1, <1>2, <3>1, <3>3
      <4> QED
        BY <4>1 DEF Has
    <3> QED
      BY <3>2, <3>3
  <2>2. ASSUME x = Head(s) \/ Has(Tail(s), x) PROVE Has(s, x)
    BY <1>1, <1>2, <1>3, <2>2 DEF Has
  <2> QED
    BY <2>1, <2>2
<1>7. \A x : Has(Tail(s), x) => Rank(Head(s)) < Rank(x)
  <2> SUFFICES ASSUME NEW x, Has(Tail(s), x) PROVE Rank(Head(s)) < Rank(x)
    OBVIOUS
  <2>1. PICK j \in 1 .. Len(Tail(s)) : Tail(s)[j] = x
    BY DEF Has
  <2>2. j + 1 \in 1 .. Len(s) /\ s[j + 1] = x /\ 1 \in 1 .. Len(s) /\ 1 < j + 1
    BY <1>1, <1>2, <2>1
  <2> QED
    BY <1>3, <1>4, <2>2
<1> QED
  BY <1>1, <1>3, <1>5, <1>6, <1>7

\* The chain of an item is ordered, and holds what OnChain says.
LEMMA ChainIsOrdered ==
  ASSUME item \in Items
  PROVE  Ordered(Chain) /\ \A name \in Names : Has(Chain, name) <=> OnChain(name)
<1> USE RanksAreNumbers
<1>0. /\ item \in ItemType
      /\ item.route = "copy" => ~item.handle
      /\ item.route = "get_file" => ~item.move /\ ~item.handle
  BY ItemDoneAssumption
<1>t. /\ item.route \in {"upload", "download", "copy", "get_file"}
      /\ item.move \in BOOLEAN /\ item.handle \in BOOLEAN /\ item.fsync \in BOOLEAN
      /\ item.tags \in BOOLEAN /\ item.annotations \in BOOLEAN
  BY <1>0 DEF ItemType
<1>r. /\ Rank("close") = 1 /\ Rank("stamp") = 2 /\ Rank("fsync") = 3 /\ Rank("tags") = 4
      /\ Rank("annotate") = 5 /\ Rank("delete") = 6 /\ Rank("complete") = 7
  BY DEF Rank
<1>n. {"close", "stamp", "fsync", "tags", "annotate", "delete", "complete"} \subseteq Names
  BY DEF Names
<1>o. \A c \in BOOLEAN, name \in Names :
         /\ Below(Opt(c, name), Rank(name))
         /\ \A x : Has(Opt(c, name), x) <=> c /\ x = name
  <2> TAKE c \in BOOLEAN, name \in Names
  <2>1. Opt(c, name) \in Seq(Names)
    BY DEF Opt
  <2>2. << >> \o Opt(c, name) = Opt(c, name)
    BY <2>1, ConcatEmptySeq
  <2>3. /\ Below(<< >> \o Opt(c, name), Rank(name))
        /\ \A x : Has(<< >> \o Opt(c, name), x) <=> Has(<< >>, x) \/ (c /\ x = name)
    <3>1. 0 \in Nat /\ 0 < Rank(name)
      OBVIOUS
    <3> HIDE RanksAreNumbers
    <3> QED
      BY <3>1, NoneIsOrdered, OptAppended
  <2> QED
    BY <2>2, <2>3, NoneIsOrdered, Zenon
<1>1. CASE item.route = "upload"
  <2> DEFINE a == Opt(item.handle, "close")
             b == a \o Opt(item.move, "delete")
             c == b \o <<"complete">>
  <2>1. Below(a, 1) /\ \A x : Has(a, x) <=> item.handle /\ x = "close"
    BY <1>o, <1>t, <1>r, <1>n
  <2>2. Chain = c
    BY <1>1 DEF Chain, UploadChain
  <2> HIDE DEF a
  <2>3. Below(b, 6) /\ \A x : Has(b, x) <=> Has(a, x) \/ (item.move /\ x = "delete")
    BY <2>1, <1>t, <1>r, <1>n, OptAppended
  <2> HIDE DEF b
  <2>4. Below(c, 7) /\ \A x : Has(c, x) <=> Has(b, x) \/ x = "complete"
    BY <2>3, <1>r, <1>n, NameAppended
  <2> HIDE DEF c
  <2>5. \A x : Has(Chain, x) <=> \/ item.handle /\ x = "close"
                                 \/ item.move /\ x = "delete"
                                 \/ x = "complete"
    BY <2>1, <2>2, <2>3, <2>4
  <2> QED
    BY <1>1, <2>2, <2>4, <2>5 DEF Below, OnChain, Names
<1>2. CASE item.route = "download"
  <2> DEFINE a == Opt(item.handle, "close")
             b == a \o <<"stamp">>
             c == b \o Opt(item.fsync, "fsync")
             d == c \o Opt(item.move, "delete")
             e == d \o <<"complete">>
  <2>1. Below(a, 1) /\ \A x : Has(a, x) <=> item.handle /\ x = "close"
    BY <1>o, <1>t, <1>r, <1>n
  <2>2. Chain = e
    BY <1>2 DEF Chain, DownloadChain
  <2> HIDE DEF a
  <2>3. Below(b, 2) /\ \A x : Has(b, x) <=> Has(a, x) \/ x = "stamp"
    BY <2>1, <1>r, <1>n, NameAppended
  <2> HIDE DEF b
  <2>4. Below(c, 3) /\ \A x : Has(c, x) <=> Has(b, x) \/ (item.fsync /\ x = "fsync")
    BY <2>3, <1>t, <1>r, <1>n, OptAppended
  <2> HIDE DEF c
  <2>5. Below(d, 6) /\ \A x : Has(d, x) <=> Has(c, x) \/ (item.move /\ x = "delete")
    BY <2>4, <1>t, <1>r, <1>n, OptAppended
  <2> HIDE DEF d
  <2>6. Below(e, 7) /\ \A x : Has(e, x) <=> Has(d, x) \/ x = "complete"
    BY <2>5, <1>r, <1>n, NameAppended
  <2> HIDE DEF e
  <2>7. \A x : Has(Chain, x) <=> \/ item.handle /\ x = "close"
                                 \/ x = "stamp"
                                 \/ item.fsync /\ x = "fsync"
                                 \/ item.move /\ x = "delete"
                                 \/ x = "complete"
    BY <2>1, <2>2, <2>3, <2>4, <2>5, <2>6
  <2> QED
    BY <1>2, <2>2, <2>6, <2>7 DEF Below, OnChain, Names
<1>3. CASE item.route = "copy"
  <2> DEFINE a == Opt(item.tags, "tags")
             b == a \o Opt(item.annotations, "annotate")
             c == b \o Opt(item.move, "delete")
             d == c \o <<"complete">>
  <2>1. Below(a, 4) /\ \A x : Has(a, x) <=> item.tags /\ x = "tags"
    BY <1>o, <1>t, <1>r, <1>n
  <2>2. Chain = d
    BY <1>3 DEF Chain, CopyChain
  <2> HIDE DEF a
  <2>3. Below(b, 5) /\ \A x : Has(b, x) <=> Has(a, x) \/ (item.annotations /\ x = "annotate")
    BY <2>1, <1>t, <1>r, <1>n, OptAppended
  <2> HIDE DEF b
  <2>4. Below(c, 6) /\ \A x : Has(c, x) <=> Has(b, x) \/ (item.move /\ x = "delete")
    BY <2>3, <1>t, <1>r, <1>n, OptAppended
  <2> HIDE DEF c
  <2>5. Below(d, 7) /\ \A x : Has(d, x) <=> Has(c, x) \/ x = "complete"
    BY <2>4, <1>r, <1>n, NameAppended
  <2> HIDE DEF d
  <2>6. \A x : Has(Chain, x) <=> \/ item.tags /\ x = "tags"
                                 \/ item.annotations /\ x = "annotate"
                                 \/ item.move /\ x = "delete"
                                 \/ x = "complete"
    BY <2>1, <2>2, <2>3, <2>4, <2>5
  <2> QED
    BY <1>0, <1>3, <2>2, <2>5, <2>6 DEF Below, OnChain, Names
<1>4. CASE item.route = "get_file"
  <2>1. Chain = << >>
    BY <1>4 DEF Chain
  <2> QED
    BY <1>0, <1>4, <2>1, NoneIsOrdered DEF Below, OnChain
<1> QED
  BY <1>t, <1>1, <1>2, <1>3, <1>4

\* The bytes of a body follow one another.
LEMMA BytesJoin ==
  ASSUME NEW m \in Nat, NEW n \in Nat, m <= n
  PROVE  Bytes(0, m) \o Bytes(m, n) = Bytes(0, n)
<1>1. Bytes(0, m) \in Seq(Nat) /\ Len(Bytes(0, m)) = m /\ \A k \in 1 .. m : Bytes(0, m)[k] = k
  BY DEF Bytes
<1>2. Bytes(m, n) \in Seq(Nat) /\ Len(Bytes(m, n)) = n - m
      /\ \A k \in 1 .. n - m : Bytes(m, n)[k] = m + k
  BY DEF Bytes
<1>3. Bytes(0, n) \in Seq(Nat) /\ Len(Bytes(0, n)) = n /\ \A k \in 1 .. n : Bytes(0, n)[k] = k
  BY DEF Bytes
<1> DEFINE s == Bytes(0, m) \o Bytes(m, n)
<1>4. s \in Seq(Nat) /\ Len(s) = m + (n - m)
      /\ \A k \in 1 .. m + (n - m) : s[k] = IF k <= m THEN Bytes(0, m)[k] ELSE Bytes(m, n)[k - m]
  BY <1>1, <1>2, ConcatProperties
<1> HIDE DEF s
<1>5. \A k \in 1 .. Len(s) : s[k] = Bytes(0, n)[k]
  <2> TAKE k \in 1 .. Len(s)
  <2>1. CASE k <= m
    <3>1. k \in 1 .. m /\ k \in 1 .. n
      BY <1>4, <2>1
    <3>2. s[k] = Bytes(0, m)[k]
      BY <1>4, <2>1
    <3> QED
      BY <1>1, <1>3, <3>1, <3>2
  <2>2. CASE k > m
    <3>1. k - m \in 1 .. n - m /\ k \in 1 .. n /\ m + (k - m) = k
      BY <1>4, <2>2
    <3>2. s[k] = Bytes(m, n)[k - m]
      BY <1>4, <2>2
    <3> QED
      BY <1>2, <1>3, <3>1, <3>2
  <2> QED
    BY <2>1, <2>2, <1>4
<1>6. Len(s) = Len(Bytes(0, n))
  BY <1>3, <1>4
<1>7. s = Bytes(0, n)
  BY <1>3, <1>4, <1>5, <1>6, SeqEqual
<1> QED
  BY <1>7 DEF s
-----------------------------------------------------------------------------
(* What the steps have in common.                                          *)

\* What the assumption says of an item.
LEMMA ItemShape ==
  ASSUME item \in Items
  PROVE  /\ item.route \in {"upload", "download", "copy", "get_file"}
         /\ item.move \in BOOLEAN /\ item.handle \in BOOLEAN /\ item.fsync \in BOOLEAN
         /\ item.tags \in BOOLEAN /\ item.annotations \in BOOLEAN
         /\ item.route = "copy" => ~item.handle /\ item.runs # "crt"
         /\ item.tags \/ item.annotations => item.route = "copy"
         /\ item.fsync => item.route = "download" /\ item.move /\ ~item.handle
         /\ item.route = "get_file" => ~item.move /\ ~item.handle
BY ItemDoneAssumption DEF ItemType

\* The chain belongs to the item.
LEMMA ChainFixed ==
  ASSUME item' = item
  PROVE  Chain' = Chain /\ \A name : OnChain(name)' <=> OnChain(name)
BY DEF Chain, UploadChain, OnChain

\* What may be on the list: the end of the chain.
Suffix(s) == \E k \in 1 .. Len(Chain) + 1 : s = SubSeq(Chain, k, Len(Chain))

\* The whole chain and the empty list are ends of the chain.
LEMMA WholeOrEmpty == ASSUME item \in Items PROVE Suffix(Chain) /\ Suffix(<< >>)
<1>1. Chain \in Seq(Names) /\ Len(Chain) \in Nat
  BY ChainIsOrdered, LenProperties DEF Ordered
<1>2. Chain = SubSeq(Chain, 1, Len(Chain))
  BY <1>1, SubSeqFull
<1>3. << >> = SubSeq(Chain, Len(Chain) + 1, Len(Chain))
  BY <1>1, SubSeqEmpty
<1> QED
  BY <1>1, <1>2, <1>3 DEF Suffix

\* What is left of an end of the chain behind its head is one again.
LEMMA TailOfSuffix ==
  ASSUME item \in Items, Suffix(todo), todo # << >>
  PROVE  Suffix(Tail(todo))
<1>1. Chain \in Seq(Names) /\ Len(Chain) \in Nat
  BY ChainIsOrdered, LenProperties DEF Ordered
<1>2. PICK k \in 1 .. Len(Chain) + 1 : todo = SubSeq(Chain, k, Len(Chain))
  BY DEF Suffix
<1>3. k \in 1 .. Len(Chain)
  <2>1. CASE k = Len(Chain) + 1
    BY <1>1, <1>2, <2>1, SubSeqEmpty
  <2> QED
    BY <1>1, <2>1
<1>4. Len(Chain) \in k .. Len(Chain)
  BY <1>1, <1>3
<1>5. Tail(todo) = SubSeq(Chain, k + 1, Len(Chain))
  BY <1>1, <1>2, <1>3, <1>4, HeadTailOfSubSeq
<1>6. k + 1 \in 1 .. Len(Chain) + 1
  BY <1>1, <1>3
<1> QED
  BY <1>5, <1>6 DEF Suffix

\* The announcement goes on with what stands behind its head.
GoesOn(name) ==
  /\ pc' = "announce" /\ again' = again
  /\ \A x : Has(todo', x) => Has(todo, x) /\ Rank(name) < Rank(x)
  /\ \A x : Has(todo, x) /\ x # name => Has(todo', x)

\* A BaseException starts it again, or ends it; on the CRT engine nobody learns of it.
BreaksOff ==
  /\ interrupted'
  /\ \/ noted' /\ Serial /\ pc' = "announce" /\ again' /\ \A x \in Names : Has(todo', x) <=> OnChain(x)
     \/ noted' /\ pc' = "over" /\ again' = again /\ todo' = << >>
     \/ /\ item.runs = "crt" /\ pc' = "stalled" /\ again' = again /\ todo' = << >>
        /\ noted' = noted

\* What every subscriber does to the list: it goes on, is broken off, or starts again.
LEMMA SubscriberRuns ==
  ASSUME IInv, NEW name \in Names, At(name), Done \/ Escapes, UNCHANGED <<item, call>>
  PROVE  /\ item.route # "get_file" /\ call = "off" /\ pc = "announce"
         /\ OnChain(name) /\ Has(todo, name) /\ todo # << >>
         /\ \A x : Has(todo, x) /\ x # name => Rank(name) < Rank(x)
         /\ Done => GoesOn(name)
         /\ Escapes => BreaksOff
         /\ ListOK' /\ Suffix(todo)'
<1>1. /\ todo # << >> /\ Ordered(todo) /\ Head(todo) = name /\ pc = "announce"
      /\ \A x \in Names : Has(todo, x) => OnChain(x)
      /\ item.route = "get_file" <=> call # "off"
      /\ item.route = "get_file" => pc \in {"single", "over"}
      /\ item \in Items /\ Suffix(todo)
  BY DEF IInv, TypeOK, ListOK, At, Suffix
<1>2. /\ Ordered(Tail(todo))
      /\ \A x : Has(todo, x) <=> x = name \/ Has(Tail(todo), x)
      /\ \A x : Has(Tail(todo), x) => Rank(name) < Rank(x)
  BY <1>1, HeadGoes
<1>3. /\ item.route # "get_file" /\ call = "off" /\ pc = "announce"
      /\ OnChain(name) /\ Has(todo, name) /\ todo # << >>
      /\ \A x : Has(todo, x) /\ x # name => Rank(name) < Rank(x)
  BY <1>1, <1>2
<1>4. Chain' = Chain /\ \A x : OnChain(x)' <=> OnChain(x)
  BY ChainFixed
<1>5. Suffix(Tail(todo)) /\ Suffix(Chain) /\ Suffix(<< >>)
  BY <1>1, WholeOrEmpty, TailOfSuffix
<1>6. Ordered(Chain) /\ \A x \in Names : Has(Chain, x) <=> OnChain(x)
  BY <1>1, ChainIsOrdered
<1>7. Ordered(<< >>) /\ \A x : ~Has(<< >>, x)
  BY NoneIsOrdered DEF Below
<1>8. todo' \in {Tail(todo), Chain, << >>}
  BY DEF Done, Escapes
<1>9. Suffix(todo)'
  BY <1>4, <1>5, <1>8 DEF Suffix
<1>10. Ordered(todo') /\ \A x \in Names : Has(todo', x) => OnChain(x)
  BY <1>1, <1>2, <1>6, <1>7, <1>8
<1>11. pc' # "announce" => todo' = << >>
  BY <1>1 DEF Done, Escapes
<1>12. pc' \in {"announce", "over", "stalled"}
  BY <1>1 DEF Done, Escapes
<1>13. ListOK'
  BY <1>3, <1>4, <1>10, <1>11, <1>12 DEF ListOK
<1>14. ASSUME Done PROVE GoesOn(name)
  BY <1>2, <1>3, <1>14 DEF Done, GoesOn
<1>15. ASSUME Escapes PROVE BreaksOff
  BY <1>3, <1>6, <1>15 DEF Escapes, BreaksOff
<1> QED
  BY <1>3, <1>9, <1>13, <1>14, <1>15

\* The body of an item is untouched, and no call of get_file is on.
LEMMA BodyStays ==
  ASSUME IInv, item.route # "get_file", UNCHANGED <<item, body>>
  PROVE  BytesOK' /\ CallOK' /\ Whole' = Whole
<1>1. BytesOK'
  BY DEF IInv, BytesOK, body, bodyVars
<1>2. call' = "off" /\ ~temp'
  BY DEF IInv, ListOK, CallOK, body
<1>3. CallOK'
  BY <1>2 DEF CallOK
<1> QED
  BY <1>1, <1>3 DEF Whole, body, bodyVars

\* The types of the state before a step, one by one.
LEMMA Typed ==
  ASSUME IInv
  PROVE  /\ item \in Items /\ faults \in 0 .. MaxFaults /\ temp \in BOOLEAN
         /\ outcome \in {"ok", "failed", "revoked", "interrupt"}
         /\ dest \in {"old", "whole", "durable", "torn", "deleted"}
         /\ handle \in {"open", "committed", "discarded"}
         /\ rollback \in {"none", "done", "raised"} /\ settled = (records # << >>)
         /\ again \in BOOLEAN /\ source \in BOOLEAN /\ severed \in BOOLEAN
         /\ deleteRan \in BOOLEAN /\ noted \in BOOLEAN /\ interrupted \in BOOLEAN
BY DEF IInv, TypeOK, GetFileTypeOK

\* What was noted stays noted while the announcement goes on.
LEMMA NotedOn ==
  ASSUME IInv, NEW name, GoesOn(name), item' = item, pc = "announce", noted => noted',
         \/ interrupted' => noted'
         \/ UNCHANGED <<noted, interrupted, settled>> /\ (outcome' = outcome \/ outcome = "ok")
  PROVE  Noted'
BY Typed DEF IInv, Noted, GoesOn, Serial

\* Off the CRT engine, what breaks it off is noted.
LEMMA NotedBroken ==
  ASSUME IInv, BreaksOff, item' = item, item.runs # "crt"
  PROVE  Noted'
BY Typed DEF IInv, Noted, BreaksOff, Serial
-----------------------------------------------------------------------------
(* The subscribers.                                                        *)

\* CloseFileobj commits the handle of an item that is well, and discards it otherwise.
LEMMA CloseFileobjKeeps ==
  ASSUME IInv, CloseFileobj
  PROVE  IInv'
<1>1. /\ item.route # "get_file" /\ call = "off" /\ pc = "announce"
      /\ OnChain("close") /\ Has(todo, "close") /\ todo # << >>
      /\ Done => GoesOn("close")
      /\ Escapes => BreaksOff
      /\ ListOK' /\ Suffix(todo)'
  <2>1. "close" \in Names /\ UNCHANGED <<item, call>> /\ At("close") /\ (Done \/ Escapes)
    BY DEF CloseFileobj, Names, body
  <2> QED
    BY <2>1, SubscriberRuns
<1>2. UNCHANGED <<item, call, temp, body, bodyVars>>
  BY DEF CloseFileobj, body
<1>3. BytesOK' /\ CallOK' /\ (Whole' <=> Whole)
  BY <1>1, <1>2, BodyStays
<1>4. TypeOK'
  <2>1. faults' \in 0 .. MaxFaults /\ call' = call /\ temp' \in BOOLEAN /\ item' \in Items
    BY <1>2, Typed, GetFileAssumption DEF CloseFileobj, Faulty, faultVars
  <2>2. /\ outcome' \in {"ok", "failed", "revoked", "interrupt"}
        /\ dest' \in {"old", "whole", "durable", "torn", "deleted"}
        /\ handle' \in {"open", "committed", "discarded"}
        /\ rollback' \in {"none", "done", "raised"}
    BY Typed DEF CloseFileobj, StoreFailure, StoreInterrupt, Committed, Discarded, Content
  <2>3. /\ source' \in BOOLEAN /\ severed' \in BOOLEAN /\ deleteRan' \in BOOLEAN
        /\ noted' \in BOOLEAN /\ interrupted' \in BOOLEAN /\ again' \in BOOLEAN
    BY <1>1, Typed DEF CloseFileobj, StoreFailure, StoreInterrupt, faultVars, guards, Escapes,
           Done
  <2>4. pc' \in {"announce", "over", "stalled"}
    BY <1>1 DEF CloseFileobj, GoesOn, BreaksOff
  <2>5. /\ settled' = (records' # << >>)
        /\ records' \in {<< >>} \cup {<<r>> : r \in {"SUCCEEDED", "FAILED", "SKIPPED",
                                                     "CANCELLED", "lost"}}
    BY DEF CloseFileobj, guards, IInv, TypeOK
  <2>6. call' \in {"off", "request", "create", "copy", "close", "replace", "discard",
                  "returned", "raised", "cut"}
    BY <1>2 DEF IInv, TypeOK, GetFileTypeOK
  <2> QED
    BY <1>1, <2>1, <2>2, <2>3, <2>4, <2>5, <2>6 DEF TypeOK, GetFileTypeOK, Suffix
<1>5. Before'
  BY <1>1 DEF Before, GoesOn, BreaksOff, CloseFileobj
<1>6. Ahead'
  BY <1>1, <1>2, Typed, ItemShape DEF IInv, Ahead, CloseFileobj, OnChain, Names, GoesOn,
         BreaksOff, guards
<1>7. HandleOK'
  BY <1>1, <1>2, Typed, ItemShape DEF IInv, HandleOK, CloseFileobj, guards
<1>8. WellPlaced'
  BY <1>1, <1>2, <1>3, Typed, ItemShape DEF IInv, WellPlaced, Held, HandleOK, CloseFileobj,
         StoreFailure, StoreInterrupt, Committed, Content
<1>9. StaysPlaced'
  BY <1>1, <1>2, <1>3, Typed, ItemShape DEF IInv, StaysPlaced, Held, CloseFileobj
<1>10. Flushed'
  BY <1>1, <1>2, Typed, ItemShape DEF IInv, Flushed, CloseFileobj, OnChain
<1>11. Noted'
  <2>1. UNCHANGED <<item, source, severed, settled, records>> /\ Noted /\ pc = "announce"
    BY <1>1, <1>2 DEF IInv, CloseFileobj, guards
  <2>2. CASE Done
    <3>1. again' = again /\ pc' = "announce"
      BY <1>1, <2>2 DEF GoesOn
    <3>2. \/ UNCHANGED <<noted, interrupted, outcome>>
          \/ outcome = "ok" /\ outcome' = "failed" /\ UNCHANGED <<noted, interrupted>>
          \/ outcome = "ok" /\ outcome' = "interrupt" /\ UNCHANGED noted
          \/ noted'
      BY <2>1, <2>2 DEF CloseFileobj, StoreFailure, StoreInterrupt, faultVars, Escapes, Done
    <3>3. settled => noted \/ ~interrupted
      BY <2>1 DEF Noted
    <3>4. ~again => ~settled
      BY <1>1 DEF IInv, Ahead
    <3> QED
      BY <2>1, <3>1, <3>2, <3>3, <3>4, Typed DEF Noted, Serial
  <2>3. CASE Escapes
    <3>1. handle = "open" /\ outcome # "ok" /\ outcome' = outcome
      BY <2>1, <2>3, Typed DEF CloseFileobj, Escapes, Done
    <3>2. source /\ item.handle
      BY <3>1, Typed DEF IInv, HandleOK
    <3>3. ~again => ~settled
      BY <1>1 DEF IInv, Ahead
    <3> QED
      BY <1>1, <2>1, <2>3, <3>1, <3>2, <3>3, Typed DEF Noted, BreaksOff, Serial
  <2> QED
    BY <2>2, <2>3 DEF CloseFileobj
<1> QED
  BY <1>1, <1>3, <1>4, <1>5, <1>6, <1>7, <1>8, <1>9, <1>10, <1>11 DEF IInv

\* A stamp changes nothing here; what receives its warning may break off the list.
LEMMA StampMtimeKeeps ==
  ASSUME IInv, StampMtime
  PROVE  IInv'
<1>1. /\ item.route # "get_file" /\ call = "off" /\ pc = "announce"
      /\ OnChain("stamp") /\ Has(todo, "stamp") /\ todo # << >>
      /\ Done => GoesOn("stamp")
      /\ Escapes => BreaksOff
      /\ ListOK' /\ Suffix(todo)'
  <2>1. "stamp" \in Names /\ UNCHANGED <<item, call>> /\ At("stamp") /\ (Done \/ Escapes)
    BY DEF StampMtime, Names, body
  <2> QED
    BY <2>1, SubscriberRuns
<1>2. UNCHANGED <<item, call, temp, body, bodyVars>>
  BY DEF StampMtime, body
<1>3. BytesOK' /\ CallOK' /\ (Whole' <=> Whole)
  BY <1>1, <1>2, BodyStays
<1>4. TypeOK'
  <2>1. faults' \in 0 .. MaxFaults /\ call' = call /\ temp' \in BOOLEAN /\ item' \in Items
    BY <1>2, Typed, GetFileAssumption DEF StampMtime, Faulty, faultVars
  <2>2. /\ outcome' \in {"ok", "failed", "revoked", "interrupt"}
        /\ dest' \in {"old", "whole", "durable", "torn", "deleted"}
        /\ handle' \in {"open", "committed", "discarded"}
        /\ rollback' \in {"none", "done", "raised"}
    BY Typed DEF StampMtime, effects
  <2>3. /\ source' \in BOOLEAN /\ severed' \in BOOLEAN /\ deleteRan' \in BOOLEAN
        /\ noted' \in BOOLEAN /\ interrupted' \in BOOLEAN /\ again' \in BOOLEAN
    BY <1>1, Typed DEF StampMtime, effects, faultVars, guards, Escapes, Done
  <2>4. pc' \in {"announce", "over", "stalled"}
    BY <1>1 DEF StampMtime, GoesOn, BreaksOff
  <2>5. /\ settled' = (records' # << >>)
        /\ records' \in {<< >>} \cup {<<r>> : r \in {"SUCCEEDED", "FAILED", "SKIPPED",
                                                     "CANCELLED", "lost"}}
    BY DEF StampMtime, guards, IInv, TypeOK
  <2>6. call' \in {"off", "request", "create", "copy", "close", "replace", "discard",
                  "returned", "raised", "cut"}
    BY <1>2 DEF IInv, TypeOK, GetFileTypeOK
  <2> QED
    BY <1>1, <2>1, <2>2, <2>3, <2>4, <2>5, <2>6 DEF TypeOK, GetFileTypeOK, Suffix
<1>5. Before'
  BY <1>1 DEF Before, GoesOn, BreaksOff, StampMtime
<1>6. Ahead'
  BY <1>1, <1>2, Typed, ItemShape DEF IInv, Ahead, HandleOK, StampMtime, OnChain, Names,
         GoesOn, BreaksOff, effects, guards
<1>7. HandleOK'
  BY <1>1, <1>2, Typed, ItemShape DEF IInv, HandleOK, StampMtime, effects, guards
<1>8. WellPlaced'
  BY <1>1, <1>2, <1>3, Typed, ItemShape DEF IInv, WellPlaced, Held, StampMtime, effects
<1>9. StaysPlaced'
  BY <1>1, <1>2, <1>3, Typed, ItemShape DEF IInv, StaysPlaced, Held, StampMtime, effects
<1>10. Flushed'
  BY <1>1, <1>2, Typed, ItemShape DEF IInv, Flushed, StampMtime, OnChain, Names, GoesOn,
         BreaksOff, effects
<1>11. Noted'
  <2>1. CASE Escapes /\ ~Done
    <3>1. item.runs # "crt"
      BY <2>1 DEF StampMtime, Serial, Escapes, Done
    <3> QED
      BY <1>1, <1>2, <2>1, <3>1, NotedBroken
  <2>2. CASE Done
    <3>1. /\ noted => noted'
          /\ \/ interrupted' => noted'
             \/ /\ UNCHANGED <<noted, interrupted, settled>>
                /\ outcome' = outcome \/ outcome = "ok"
      BY <1>1, <2>2, Typed DEF StampMtime, Escapes, Done, faultVars, guards
    <3> QED
      BY <1>1, <1>2, <2>2, <3>1, NotedOn
  <2> QED
    BY <2>1, <2>2 DEF StampMtime
<1> QED
  BY <1>1, <1>3, <1>4, <1>5, <1>6, <1>7, <1>8, <1>9, <1>10, <1>11 DEF IInv

\* FsyncDest makes the file durable, or fails the item before its source may go.
LEMMA FsyncDestKeeps ==
  ASSUME IInv, FsyncDest
  PROVE  IInv'
<1>1. /\ item.route # "get_file" /\ call = "off" /\ pc = "announce"
      /\ OnChain("fsync") /\ Has(todo, "fsync") /\ todo # << >>
      /\ Done => GoesOn("fsync")
      /\ Escapes => BreaksOff
      /\ ListOK' /\ Suffix(todo)'
  <2>1. "fsync" \in Names /\ UNCHANGED <<item, call>> /\ At("fsync") /\ (Done \/ Escapes)
    BY DEF FsyncDest, Names, body
  <2> QED
    BY <2>1, SubscriberRuns
<1>2. UNCHANGED <<item, call, temp, body, bodyVars>>
  BY DEF FsyncDest, body
<1>3. BytesOK' /\ CallOK' /\ (Whole' <=> Whole)
  BY <1>1, <1>2, BodyStays
<1>4. TypeOK'
  <2>1. faults' \in 0 .. MaxFaults /\ call' = call /\ temp' \in BOOLEAN /\ item' \in Items
    BY <1>2, Typed, GetFileAssumption DEF FsyncDest, Faulty, faultVars
  <2>2. /\ outcome' \in {"ok", "failed", "revoked", "interrupt"}
        /\ dest' \in {"old", "whole", "durable", "torn", "deleted"}
        /\ handle' \in {"open", "committed", "discarded"}
        /\ rollback' \in {"none", "done", "raised"}
    BY Typed DEF FsyncDest, StoreFailure
  <2>3. /\ source' \in BOOLEAN /\ severed' \in BOOLEAN /\ deleteRan' \in BOOLEAN
        /\ noted' \in BOOLEAN /\ interrupted' \in BOOLEAN /\ again' \in BOOLEAN
    BY <1>1, Typed DEF FsyncDest, StoreFailure, faultVars, guards, Escapes, Done
  <2>4. pc' \in {"announce", "over", "stalled"}
    BY <1>1 DEF FsyncDest, GoesOn, BreaksOff
  <2>5. /\ settled' = (records' # << >>)
        /\ records' \in {<< >>} \cup {<<r>> : r \in {"SUCCEEDED", "FAILED", "SKIPPED",
                                                     "CANCELLED", "lost"}}
    BY DEF FsyncDest, guards, IInv, TypeOK
  <2>6. call' \in {"off", "request", "create", "copy", "close", "replace", "discard",
                  "returned", "raised", "cut"}
    BY <1>2 DEF IInv, TypeOK, GetFileTypeOK
  <2> QED
    BY <1>1, <2>1, <2>2, <2>3, <2>4, <2>5, <2>6 DEF TypeOK, GetFileTypeOK, Suffix
<1>5. Before'
  BY <1>1 DEF Before, GoesOn, BreaksOff, FsyncDest
<1>6. Ahead'
  BY <1>1, <1>2, Typed, ItemShape DEF IInv, Ahead, HandleOK, FsyncDest, OnChain, Names, GoesOn,
         BreaksOff, guards
<1>7. HandleOK'
  BY <1>1, <1>2, Typed, ItemShape DEF IInv, HandleOK, FsyncDest, guards
<1>8. WellPlaced'
  BY <1>1, <1>2, <1>3, Typed, ItemShape DEF IInv, WellPlaced, Held, FsyncDest
<1>9. StaysPlaced'
  BY <1>1, <1>2, <1>3, Typed, ItemShape DEF IInv, StaysPlaced, Held, FsyncDest
<1>10. Flushed'
  BY <1>1, <1>2, Typed, ItemShape DEF IInv, Flushed, FsyncDest, Names, BreaksOff, StoreFailure
<1>11. Noted'
  <2>1. CASE Escapes /\ ~Done
    <3>1. item.runs # "crt"
      BY <2>1 DEF FsyncDest, Serial, Escapes, Done
    <3> QED
      BY <1>1, <1>2, <2>1, <3>1, NotedBroken
  <2>2. CASE Done
    <3>1. /\ noted => noted'
          /\ \/ interrupted' => noted'
             \/ /\ UNCHANGED <<noted, interrupted, settled>>
                /\ outcome' = outcome \/ outcome = "ok"
      BY <1>1, <2>2, Typed DEF FsyncDest, Escapes, Done, StoreFailure, faultVars, guards
    <3> QED
      BY <1>1, <1>2, <2>2, <3>1, NotedOn
  <2> QED
    BY <2>1, <2>2 DEF FsyncDest
<1> QED
  BY <1>1, <1>3, <1>4, <1>5, <1>6, <1>7, <1>8, <1>9, <1>10, <1>11 DEF IInv

\* SetTags tags the copy, or rolls it back: the item fails, unless the delete raises.
LEMMA SetTagsKeeps ==
  ASSUME IInv, SetTags
  PROVE  IInv'
<1>1. /\ item.route # "get_file" /\ call = "off" /\ pc = "announce"
      /\ OnChain("tags") /\ Has(todo, "tags") /\ todo # << >>
      /\ Done => GoesOn("tags")
      /\ Escapes => BreaksOff
      /\ ListOK' /\ Suffix(todo)'
  <2>1. "tags" \in Names /\ UNCHANGED <<item, call>> /\ At("tags") /\ (Done \/ Escapes)
    BY DEF SetTags, Names, body
  <2> QED
    BY <2>1, SubscriberRuns
<1>2. UNCHANGED <<item, call, temp, body, bodyVars>>
  BY DEF SetTags, body
<1>3. BytesOK' /\ CallOK' /\ (Whole' <=> Whole)
  BY <1>1, <1>2, BodyStays
<1>4. TypeOK'
  <2>1. faults' \in 0 .. MaxFaults /\ call' = call /\ temp' \in BOOLEAN /\ item' \in Items
    BY <1>2, Typed, GetFileAssumption DEF SetTags, Faulty, faultVars
  <2>2. /\ outcome' \in {"ok", "failed", "revoked", "interrupt"}
        /\ dest' \in {"old", "whole", "durable", "torn", "deleted"}
        /\ handle' \in {"open", "committed", "discarded"}
        /\ rollback' \in {"none", "done", "raised"}
    BY Typed DEF SetTags, StoreFailure
  <2>3. /\ source' \in BOOLEAN /\ severed' \in BOOLEAN /\ deleteRan' \in BOOLEAN
        /\ noted' \in BOOLEAN /\ interrupted' \in BOOLEAN /\ again' \in BOOLEAN
    BY <1>1, Typed DEF SetTags, StoreFailure, faultVars, guards, Escapes, Done
  <2>4. pc' \in {"announce", "over", "stalled"}
    BY <1>1 DEF SetTags, GoesOn, BreaksOff
  <2>5. /\ settled' = (records' # << >>)
        /\ records' \in {<< >>} \cup {<<r>> : r \in {"SUCCEEDED", "FAILED", "SKIPPED",
                                                     "CANCELLED", "lost"}}
    BY DEF SetTags, guards, IInv, TypeOK
  <2>6. call' \in {"off", "request", "create", "copy", "close", "replace", "discard",
                  "returned", "raised", "cut"}
    BY <1>2 DEF IInv, TypeOK, GetFileTypeOK
  <2> QED
    BY <1>1, <2>1, <2>2, <2>3, <2>4, <2>5, <2>6 DEF TypeOK, GetFileTypeOK, Suffix
<1>5. Before'
  BY <1>1 DEF Before, GoesOn, BreaksOff, SetTags
<1>6. Ahead'
  BY <1>1, <1>2, Typed, ItemShape DEF IInv, Ahead, HandleOK, SetTags, OnChain, Names, GoesOn,
         BreaksOff, guards
<1>7. HandleOK'
  BY <1>1, <1>2, Typed, ItemShape DEF IInv, HandleOK, SetTags, guards
<1>8. WellPlaced'
  BY <1>1, <1>2, <1>3, Typed, ItemShape DEF IInv, WellPlaced, Held, SetTags
<1>9. StaysPlaced'
  BY <1>1, <1>2, <1>3, Typed, ItemShape DEF IInv, StaysPlaced, Held, SetTags
<1>10. Flushed'
  BY <1>1, <1>2, Typed, ItemShape DEF IInv, Flushed, SetTags, OnChain
<1>11. Noted'
  <2>1. CASE Escapes /\ ~Done
    <3>1. item.runs # "crt"
      BY <1>1, <2>1, Typed, ItemShape DEF OnChain
    <3> QED
      BY <1>1, <1>2, <2>1, <3>1, NotedBroken
  <2>2. CASE Done
    <3>1. /\ noted => noted'
          /\ \/ interrupted' => noted'
             \/ /\ UNCHANGED <<noted, interrupted, settled>>
                /\ outcome' = outcome \/ outcome = "ok"
      BY <1>1, <2>2, Typed DEF SetTags, Escapes, Done, StoreFailure, faultVars, guards
    <3> QED
      BY <1>1, <1>2, <2>2, <3>1, NotedOn
  <2> QED
    BY <2>1, <2>2 DEF SetTags
<1> QED
  BY <1>1, <1>3, <1>4, <1>5, <1>6, <1>7, <1>8, <1>9, <1>10, <1>11 DEF IInv

\* SetAnnotations annotates the copy, or fails the item, which keeps its destination.
LEMMA SetAnnotationsKeeps ==
  ASSUME IInv, SetAnnotations
  PROVE  IInv'
<1>1. /\ item.route # "get_file" /\ call = "off" /\ pc = "announce"
      /\ OnChain("annotate") /\ Has(todo, "annotate") /\ todo # << >>
      /\ Done => GoesOn("annotate")
      /\ Escapes => BreaksOff
      /\ ListOK' /\ Suffix(todo)'
  <2>1. "annotate" \in Names /\ UNCHANGED <<item, call>> /\ At("annotate") /\ (Done \/ Escapes)
    BY DEF SetAnnotations, Names, body
  <2> QED
    BY <2>1, SubscriberRuns
<1>2. UNCHANGED <<item, call, temp, body, bodyVars>>
  BY DEF SetAnnotations, body
<1>3. BytesOK' /\ CallOK' /\ (Whole' <=> Whole)
  BY <1>1, <1>2, BodyStays
<1>4. TypeOK'
  <2>1. faults' \in 0 .. MaxFaults /\ call' = call /\ temp' \in BOOLEAN /\ item' \in Items
    BY <1>2, Typed, GetFileAssumption DEF SetAnnotations, Faulty, faultVars
  <2>2. /\ outcome' \in {"ok", "failed", "revoked", "interrupt"}
        /\ dest' \in {"old", "whole", "durable", "torn", "deleted"}
        /\ handle' \in {"open", "committed", "discarded"}
        /\ rollback' \in {"none", "done", "raised"}
    BY Typed DEF SetAnnotations, StoreFailure, effects
  <2>3. /\ source' \in BOOLEAN /\ severed' \in BOOLEAN /\ deleteRan' \in BOOLEAN
        /\ noted' \in BOOLEAN /\ interrupted' \in BOOLEAN /\ again' \in BOOLEAN
    BY <1>1, Typed DEF SetAnnotations, StoreFailure, effects, faultVars, guards, Escapes, Done
  <2>4. pc' \in {"announce", "over", "stalled"}
    BY <1>1 DEF SetAnnotations, GoesOn, BreaksOff
  <2>5. /\ settled' = (records' # << >>)
        /\ records' \in {<< >>} \cup {<<r>> : r \in {"SUCCEEDED", "FAILED", "SKIPPED",
                                                     "CANCELLED", "lost"}}
    BY DEF SetAnnotations, guards, IInv, TypeOK
  <2>6. call' \in {"off", "request", "create", "copy", "close", "replace", "discard",
                  "returned", "raised", "cut"}
    BY <1>2 DEF IInv, TypeOK, GetFileTypeOK
  <2> QED
    BY <1>1, <2>1, <2>2, <2>3, <2>4, <2>5, <2>6 DEF TypeOK, GetFileTypeOK, Suffix
<1>5. Before'
  BY <1>1 DEF Before, GoesOn, BreaksOff, SetAnnotations
<1>6. Ahead'
  BY <1>1, <1>2, Typed, ItemShape DEF IInv, Ahead, HandleOK, SetAnnotations, OnChain, Names,
         GoesOn, BreaksOff, effects, guards
<1>7. HandleOK'
  BY <1>1, <1>2, Typed, ItemShape DEF IInv, HandleOK, SetAnnotations, effects, guards
<1>8. WellPlaced'
  BY <1>1, <1>2, <1>3, Typed, ItemShape DEF IInv, WellPlaced, Held, SetAnnotations, effects
<1>9. StaysPlaced'
  BY <1>1, <1>2, <1>3, Typed, ItemShape DEF IInv, StaysPlaced, Held, SetAnnotations, effects
<1>10. Flushed'
  BY <1>1, <1>2, Typed, ItemShape DEF IInv, Flushed, SetAnnotations, OnChain
<1>11. Noted'
  <2>1. CASE Escapes /\ ~Done
    <3>1. item.runs # "crt"
      BY <1>1, <2>1, Typed, ItemShape DEF OnChain
    <3> QED
      BY <1>1, <1>2, <2>1, <3>1, NotedBroken
  <2>2. CASE Done
    <3>1. /\ noted => noted'
          /\ \/ interrupted' => noted'
             \/ /\ UNCHANGED <<noted, interrupted, settled>>
                /\ outcome' = outcome \/ outcome = "ok"
      BY <1>1, <2>2, Typed DEF SetAnnotations, Escapes, Done, StoreFailure, faultVars, guards
    <3> QED
      BY <1>1, <1>2, <2>2, <3>1, NotedOn
  <2> QED
    BY <2>1, <2>2 DEF SetAnnotations
<1> QED
  BY <1>1, <1>3, <1>4, <1>5, <1>6, <1>7, <1>8, <1>9, <1>10, <1>11 DEF IInv

\* The source goes only while the item is well: its bytes are then at their place.
LEMMA DeleteSourceKeeps ==
  ASSUME IInv, DeleteSource
  PROVE  IInv'
<1>1. /\ item.route # "get_file" /\ call = "off" /\ pc = "announce"
      /\ OnChain("delete") /\ Has(todo, "delete") /\ todo # << >>
      /\ Done => GoesOn("delete")
      /\ Escapes => BreaksOff
      /\ ListOK' /\ Suffix(todo)'
  <2>1. "delete" \in Names /\ UNCHANGED <<item, call>> /\ At("delete") /\ (Done \/ Escapes)
    BY DEF DeleteSource, Names, body
  <2> QED
    BY <2>1, SubscriberRuns
<1>2. UNCHANGED <<item, call, temp, body, bodyVars>>
  BY DEF DeleteSource, body
<1>3. BytesOK' /\ CallOK' /\ (Whole' <=> Whole)
  BY <1>1, <1>2, BodyStays
<1>4. TypeOK'
  <2>1. faults' \in 0 .. MaxFaults /\ call' = call /\ temp' \in BOOLEAN /\ item' \in Items
    BY <1>2, Typed, GetFileAssumption DEF DeleteSource, Faulty, faultVars
  <2>2. /\ outcome' \in {"ok", "failed", "revoked", "interrupt"}
        /\ dest' \in {"old", "whole", "durable", "torn", "deleted"}
        /\ handle' \in {"open", "committed", "discarded"}
        /\ rollback' \in {"none", "done", "raised"}
    BY Typed DEF DeleteSource, StoreFailure, StoreInterrupt
  <2>3. /\ source' \in BOOLEAN /\ severed' \in BOOLEAN /\ deleteRan' \in BOOLEAN
        /\ noted' \in BOOLEAN /\ interrupted' \in BOOLEAN /\ again' \in BOOLEAN
    BY <1>1, Typed DEF DeleteSource, StoreFailure, StoreInterrupt, faultVars, Done
  <2>4. pc' \in {"announce", "over", "stalled"}
    BY <1>1 DEF DeleteSource, GoesOn
  <2>5. /\ settled' = (records' # << >>)
        /\ records' \in {<< >>} \cup {<<r>> : r \in {"SUCCEEDED", "FAILED", "SKIPPED",
                                                     "CANCELLED", "lost"}}
    BY DEF DeleteSource, IInv, TypeOK
  <2>6. call' \in {"off", "request", "create", "copy", "close", "replace", "discard",
                  "returned", "raised", "cut"}
    BY <1>2 DEF IInv, TypeOK, GetFileTypeOK
  <2> QED
    BY <1>1, <2>1, <2>2, <2>3, <2>4, <2>5, <2>6 DEF TypeOK, GetFileTypeOK, Suffix
<1>5. Before'
  BY <1>1 DEF Before, GoesOn, DeleteSource
<1>6. Ahead'
  BY <1>1, <1>2, Typed, ItemShape DEF IInv, Ahead, DeleteSource, GoesOn
<1>7. HandleOK'
  BY <1>1, <1>2, Typed, ItemShape DEF IInv, HandleOK, Ahead, DeleteSource, OnChain, Rank,
         GoesOn, StoreFailure, StoreInterrupt
<1>8. WellPlaced'
  BY <1>1, <1>2, <1>3, Typed, ItemShape DEF IInv, WellPlaced, Held, DeleteSource
<1>9. StaysPlaced'
  BY <1>1, <1>2, <1>3, Typed, ItemShape DEF IInv, StaysPlaced, WellPlaced, HandleOK, Ahead,
         Held, DeleteSource, Rank, GoesOn
<1>10. Flushed'
  BY <1>1, <1>2, Typed, ItemShape DEF IInv, Flushed, DeleteSource, Rank, GoesOn
<1>11. Noted'
  BY <1>1, <1>2, Typed DEF IInv, Noted, Ahead, DeleteSource, GoesOn, StoreFailure,
         StoreInterrupt, faultVars
<1> QED
  BY <1>1, <1>3, <1>4, <1>5, <1>6, <1>7, <1>8, <1>9, <1>10, <1>11 DEF IInv

\* The record is delivered, and tells SUCCEEDED only of an item that is well.
LEMMA CompleteKeeps ==
  ASSUME IInv, Complete
  PROVE  IInv'
<1>1. /\ item.route # "get_file" /\ call = "off" /\ pc = "announce"
      /\ OnChain("complete") /\ Has(todo, "complete") /\ todo # << >>
      /\ \A x : Has(todo, x) /\ x # "complete" => Rank("complete") < Rank(x)
      /\ Done => GoesOn("complete")
      /\ Escapes => BreaksOff
      /\ ListOK' /\ Suffix(todo)'
  <2>1. "complete" \in Names /\ UNCHANGED <<item, call>> /\ At("complete") /\ (Done \/ Escapes)
    BY DEF Complete, Names, body
  <2> QED
    BY <2>1, SubscriberRuns
<1>2. UNCHANGED <<item, call, temp, body, bodyVars>>
  BY DEF Complete, body
<1>3. BytesOK' /\ CallOK' /\ (Whole' <=> Whole)
  BY <1>1, <1>2, BodyStays
<1>4. TypeOK'
  <2>1. faults' \in 0 .. MaxFaults /\ call' = call /\ temp' \in BOOLEAN /\ item' \in Items
    BY <1>2, Typed, GetFileAssumption DEF Complete, Faulty, faultVars
  <2>2. /\ outcome' \in {"ok", "failed", "revoked", "interrupt"}
        /\ dest' \in {"old", "whole", "durable", "torn", "deleted"}
        /\ handle' \in {"open", "committed", "discarded"}
        /\ rollback' \in {"none", "done", "raised"}
    BY Typed DEF Complete, effects
  <2>3. /\ source' \in BOOLEAN /\ severed' \in BOOLEAN /\ deleteRan' \in BOOLEAN
        /\ noted' \in BOOLEAN /\ interrupted' \in BOOLEAN /\ again' \in BOOLEAN
    BY <1>1, Typed DEF Complete, effects, faultVars, Escapes, Done
  <2>4. pc' \in {"announce", "over", "stalled"}
    BY <1>1 DEF Complete, GoesOn, BreaksOff
  <2>5. /\ settled' = (records' # << >>)
        /\ records' \in {<< >>} \cup {<<r>> : r \in {"SUCCEEDED", "FAILED", "SKIPPED",
                                                     "CANCELLED", "lost"}}
    <3>1. CASE settled
      BY <3>1 DEF Complete, IInv, TypeOK
    <3>2. CASE ~settled
      <4>1. PICK r \in Report : records' = Append(records, r)
        BY <3>2 DEF Complete
      <4>2. records' = <<r>> /\ settled'
        <5>1. records = << >> /\ settled'
          BY <3>2 DEF Complete, IInv, TypeOK
        <5> QED
          BY <4>1, <5>1
      <4>3. r \in {"SUCCEEDED", "FAILED", "SKIPPED", "CANCELLED", "lost"}
        BY <4>1, Typed DEF Report
      <4> QED
        BY <4>2, <4>3
    <3> QED
      BY <3>1, <3>2, Typed
  <2>6. call' \in {"off", "request", "create", "copy", "close", "replace", "discard",
                  "returned", "raised", "cut"}
    BY <1>2 DEF IInv, TypeOK, GetFileTypeOK
  <2> QED
    BY <1>1, <2>1, <2>2, <2>3, <2>4, <2>5, <2>6 DEF TypeOK, GetFileTypeOK, Suffix
<1>5. Before'
  BY <1>1 DEF Before, GoesOn, BreaksOff, Complete
<1>6. Ahead'
  <2>1. ASSUME Done PROVE todo' = << >>
    <3>1. \A x : ~Has(todo', x)
      <4> SUFFICES ASSUME NEW x, Has(todo', x) PROVE FALSE
        OBVIOUS
      <4>1. Rank("complete") < Rank(x)
        BY <1>1, <2>1 DEF GoesOn
      <4>2. x \in Names
        BY <1>1, ElementOfSeq DEF ListOK, Ordered, Has
      <4> QED
        BY <4>1, <4>2, RanksAreNumbers DEF Rank
    <3>2. todo' \in Seq(Names)
      BY <1>1 DEF ListOK, Ordered
    <3> QED
      BY <3>1, <3>2, EmptySeq DEF Has
  <2>2. CASE Done
    BY <1>1, <2>1, <2>2, Typed DEF IInv, Ahead, Complete, effects, GoesOn
  <2>3. CASE Escapes
    BY <1>1, <1>2, <2>3, Typed, ItemShape DEF IInv, Ahead, HandleOK, Complete, OnChain, Names,
           BreaksOff, effects
  <2> QED
    BY <2>2, <2>3 DEF Complete
<1>7. HandleOK'
  BY <1>1, <1>2, Typed, ItemShape DEF IInv, HandleOK, Complete, effects
<1>8. WellPlaced'
  BY <1>1, <1>2, <1>3, Typed, ItemShape DEF IInv, WellPlaced, Held, Complete, effects
<1>9. StaysPlaced'
  <2>1. CASE settled
    BY <1>1, <1>2, <2>1 DEF IInv, StaysPlaced, Held, Complete, effects
  <2>2. CASE ~settled
    <3>1. PICK r \in Report : records' = Append(records, r)
      BY <2>2 DEF Complete
    <3>2. r = "SUCCEEDED" => outcome = "ok"
      BY <3>1 DEF Report
    <3>3. records = << >>
      BY <2>2 DEF IInv, TypeOK
    <3>4. records' = <<r>>
      BY <3>1, <3>3
    <3>5. UNCHANGED <<dest, source, handle, severed, rollback, item, deleteRan>>
      BY DEF Complete, effects
    <3>6. ~Has(todo, "close") /\ ~Has(todo, "delete")
      BY <1>1 DEF Rank
    <3>7. handle # "open" /\ (item.move => deleteRan)
      BY <1>1, <3>6 DEF IInv, Ahead
    <3>8. ASSUME outcome = "ok", rollback = "none", ~severed
          PROVE  Held /\ handle = "committed" /\ (item.move => ~source)
      BY <1>1, <3>7, <3>8, Typed, ItemShape DEF IInv, WellPlaced, HandleOK
    <3>9. records' = <<"SUCCEEDED">> => r = "SUCCEEDED"
      BY <3>4
    <3> QED
      BY <3>2, <3>5, <3>7, <3>8, <3>9 DEF IInv, StaysPlaced, Held
  <2> QED
    BY <2>1, <2>2
<1>10. Flushed'
  BY <1>1, <1>2, Typed, ItemShape DEF IInv, Flushed, Complete, Rank, effects
<1>11. Noted'
  <2>1. CASE Escapes /\ ~Done
    <3>1. item.runs # "crt"
      BY <2>1 DEF Complete, Serial, Escapes, Done
    <3> QED
      BY <1>1, <1>2, <2>1, <3>1, NotedBroken
  <2>2. CASE Done
    <3>1. /\ noted => noted'
          /\ \/ interrupted' => noted'
             \/ /\ UNCHANGED <<noted, interrupted, settled>>
                /\ outcome' = outcome \/ outcome = "ok"
      <4>1. \/ settled /\ UNCHANGED <<noted, interrupted>>
            \/ UNCHANGED interrupted /\ noted' = (noted \/ outcome = "interrupt")
            \/ noted' = TRUE
        BY <1>1, <2>2, Typed DEF Complete, Escapes, Done, faultVars
      <4>2. settled' = TRUE /\ outcome' = outcome
        BY DEF Complete
      <4>3. interrupted => noted \/ outcome = "interrupt"
        BY <1>1 DEF IInv, Noted
      <4>4. settled \in BOOLEAN /\ noted \in BOOLEAN
        BY Typed
      <4>5. CASE settled /\ UNCHANGED <<noted, interrupted>>
        BY <4>2, <4>4, <4>5
      <4>6. CASE UNCHANGED interrupted /\ noted' = (noted \/ outcome = "interrupt")
        BY <4>3, <4>4, <4>6
      <4> QED
        BY <4>1, <4>4, <4>5, <4>6
    <3> QED
      BY <1>1, <1>2, <2>2, <3>1, NotedOn
  <2> QED
    BY <2>1, <2>2 DEF Complete
<1> QED
  BY <1>1, <1>3, <1>4, <1>5, <1>6, <1>7, <1>8, <1>9, <1>10, <1>11 DEF IInv

-----------------------------------------------------------------------------
(* The body, and what ends an item.                                        *)

\* An announcement starts with every subscriber of the chain on the list.
LEMMA AnnouncementStarts ==
  ASSUME IInv, pc \in {"body", "rename"}, Announces, UNCHANGED <<item, call>>
  PROVE  /\ item.route # "get_file" /\ call = "off" /\ pc' = "announce" /\ again' = again
         /\ \A x \in Names : Has(todo', x) <=> OnChain(x)
         /\ ListOK' /\ Suffix(todo)'
<1>1. item \in Items /\ item.route # "get_file" /\ call = "off"
  BY DEF IInv, TypeOK, ListOK
<1>2. pc' = "announce" /\ again' = again /\ todo' = Chain
  BY DEF Announces
<1>3. Chain' = Chain /\ \A x : OnChain(x)' <=> OnChain(x)
  BY ChainFixed
<1>4. Ordered(Chain) /\ \A x \in Names : Has(Chain, x) <=> OnChain(x)
  BY <1>1, ChainIsOrdered
<1>5. Suffix(todo)'
  BY <1>1, <1>2, <1>3, WholeOrEmpty DEF Suffix
<1>6. ListOK'
  BY <1>1, <1>2, <1>3, <1>4 DEF ListOK
<1> QED
  BY <1>1, <1>2, <1>4, <1>5, <1>6

\* A list that is not touched stays an end of the chain.
LEMMA ListStays ==
  ASSUME IInv, UNCHANGED <<item, todo>>
  PROVE  Suffix(todo)'
BY ChainFixed DEF Suffix, IInv, TypeOK

\* A chunk of a body follows what came before it.
LEMMA ChunkFollows ==
  ASSUME BytesOK, UNCHANGED item
  PROVE  /\ item.route # "download" /\ ChunkRead => BytesOK'
         /\ item.route = "download" /\ ChunkWritten => BytesOK'
         /\ item.route = "download" /\ BodyCut => BytesOK'
<1>1. size \in Nat /\ at \in 0 .. size /\ written \in 0 .. size
  BY DEF BytesOK
<1>2. ASSUME item.route # "download", ChunkRead PROVE BytesOK'
  <2>1. PICK end \in ChunkEnds : out' = out \o Bytes(at, end) /\ at' = end
    BY <1>2 DEF ChunkRead
  <2>2. end \in at + 1 .. at + MaxChunk /\ end <= size /\ MaxChunk \in Nat
    BY BodyAssumption DEF ChunkEnds
  <2>3. end \in Nat /\ at \in Nat /\ at <= end /\ end \in 0 .. size
    BY <1>1, <2>2
  <2>4. out' = Bytes(0, end)
    BY <1>2, <2>1, <2>3, BytesJoin DEF BytesOK
  <2>5. UNCHANGED <<size, written>>
    BY <1>2 DEF ChunkRead
  <2> QED
    BY <1>1, <1>2, <2>1, <2>3, <2>4, <2>5 DEF BytesOK
<1>3. ASSUME item.route = "download", ChunkWritten PROVE BytesOK'
  <2>1. PICK end \in ChunkEnds : HandleIo(at, end) /\ at' = end
    BY <1>3 DEF ChunkWritten
  <2>2. end \in at + 1 .. at + MaxChunk /\ end <= size /\ MaxChunk \in Nat
    BY BodyAssumption DEF ChunkEnds
  <2>3. end \in Nat /\ at \in Nat /\ at < end /\ end \in 0 .. size
    BY <1>1, <2>2
  <2>4. out = Bytes(0, written) /\ at <= written /\ written \in Nat
    BY <1>1, <1>3 DEF BytesOK
  <2>5. UNCHANGED size
    BY <1>3 DEF ChunkWritten
  <2>6. CASE end <= written /\ UNCHANGED <<out, written>>
    BY <1>1, <1>3, <2>1, <2>3, <2>4, <2>5, <2>6 DEF BytesOK
  <2>7. CASE end > written /\ written' = end
             /\ out' = out \o Bytes(IF at < written THEN written ELSE at, end)
    <3>1. (IF at < written THEN written ELSE at) = written
      BY <1>1, <2>4
    <3>2. out' = Bytes(0, written) \o Bytes(written, end)
      BY <2>4, <2>7, <3>1
    <3>3. written <= end
      BY <2>3, <2>4, <2>7
    <3>4. out' = Bytes(0, end)
      BY <2>3, <2>4, <3>2, <3>3, BytesJoin
    <3>5. size' = size /\ at' = end /\ written' = end /\ end \in 0 .. size /\ size \in Nat
      BY <1>1, <2>1, <2>3, <2>5, <2>7
    <3>6. item'.route = "download"
      BY <1>3
    <3> HIDE DEF Bytes
    <3>7. Bytes(0, written)' = Bytes(0, end)
      BY <3>5 DEF Bytes
    <3> QED
      BY <3>4, <3>5, <3>6, <3>7 DEF BytesOK
  <2> QED
    BY <2>1, <2>6, <2>7 DEF HandleIo
<1>4. ASSUME item.route = "download", BodyCut PROVE BytesOK'
  BY <1>1, <1>4 DEF BodyCut, BytesOK
<1> QED
  BY <1>2, <1>3, <1>4

\* A body reads or writes its next chunk, or is cut and begins again.
LEMMA BodyMovesKeeps ==
  ASSUME IInv, BodyMoves
  PROVE  IInv'
<1>1. /\ UNCHANGED <<item, pc, todo, again, outcome, dest, source, handle, severed, deleteRan>>
      /\ UNCHANGED <<settled, records, rollback, noted, interrupted, faults, call, temp>>
      /\ pc = "body" /\ item.handle /\ ~severed
  BY DEF BodyMoves, Kept, progress, guards, faultVars
<1>2. Suffix(todo)'
  BY <1>1, ListStays
<1>3. TypeOK'
  BY <1>1, <1>2 DEF IInv, TypeOK, GetFileTypeOK, Suffix
<1>4. BytesOK'
  BY <1>1, Typed, ItemShape, ChunkFollows DEF BodyMoves, IInv
<1>5. CallOK'
  BY <1>1 DEF IInv, ListOK, CallOK
<1>6. ListOK' /\ Before' /\ Ahead'
  BY <1>1, ChainFixed DEF IInv, ListOK, Before, Ahead
<1>7. HandleOK' /\ WellPlaced' /\ StaysPlaced' /\ Flushed' /\ Noted'
  BY <1>1 DEF IInv, HandleOK, WellPlaced, StaysPlaced, Flushed, Noted, Held
<1> QED
  BY <1>3, <1>4, <1>5, <1>6, <1>7 DEF IInv

\* The announcement over a body that landed: the bytes are whole.
LEMMA BodyLandsAnnounces ==
  ASSUME IInv, BodyLands, Announces
  PROVE  IInv'
<1>1. /\ UNCHANGED <<item, source, handle, severed, deleteRan, settled, records, rollback>>
      /\ UNCHANGED <<body, bodyVars, call, temp>> /\ pc \in {"body", "rename"}
  BY DEF BodyLands, Kept, guards, body
<1>2. /\ item.route # "get_file" /\ call = "off" /\ pc' = "announce" /\ again' = again
      /\ \A x \in Names : Has(todo', x) <=> OnChain(x)
      /\ ListOK' /\ Suffix(todo)'
  BY <1>1, AnnouncementStarts
<1>3. BytesOK' /\ CallOK' /\ (Whole' <=> Whole)
  BY <1>1, <1>2, BodyStays
<1>4. TypeOK'
  <2>1. faults' \in 0 .. MaxFaults
    BY Typed, GetFileAssumption DEF BodyLands, faultVars
  <2>2. /\ outcome' \in {"ok", "failed", "revoked", "interrupt"}
        /\ dest' \in {"old", "whole", "durable", "torn", "deleted"}
        /\ noted' \in BOOLEAN /\ interrupted' \in BOOLEAN
    BY Typed DEF BodyLands, Content, Lands, faultVars
  <2> QED
    BY <1>1, <1>2, <2>1, <2>2 DEF IInv, TypeOK, GetFileTypeOK, Suffix
<1>5. Before' /\ Ahead'
  BY <1>1, <1>2, Typed, ItemShape DEF IInv, Before, Ahead, HandleOK, OnChain, Names
<1>6. HandleOK'
  BY <1>1 DEF IInv, HandleOK, Before
<1>7. WellPlaced'
  BY <1>1, <1>2, <1>3, Typed, ItemShape DEF IInv, Before, WellPlaced, Held, BytesOK, BodyLands,
         Content, Lands, BodyOver, Whole
<1>8. StaysPlaced' /\ Flushed'
  <2>1. source /\ records = << >>
    BY <1>1 DEF IInv, Before, TypeOK
  <2>2. source' /\ records' # <<"SUCCEEDED">>
    BY <1>1, <2>1
  <2>3. item.fsync => Has(todo', "fsync")
    BY <1>2, Typed, ItemShape DEF OnChain, Names
  <2> QED
    BY <1>1, <2>2, <2>3 DEF StaysPlaced, Flushed
<1>9. Noted'
  BY <1>1, <1>2, Typed DEF IInv, Noted, BodyLands, faultVars
<1> QED
  BY <1>2, <1>3, <1>4, <1>5, <1>6, <1>7, <1>8, <1>9 DEF IInv

\* The announcement over a body that failed.
LEMMA BodyFailsAnnounces ==
  ASSUME IInv, BodyFails, Announces
  PROVE  IInv'
<1>1. /\ UNCHANGED <<item, source, handle, severed, deleteRan, settled, records, rollback>>
      /\ UNCHANGED <<body, bodyVars, call, temp>> /\ pc \in {"body", "rename"}
  BY DEF BodyFails, Kept, guards, body
<1>2. /\ item.route # "get_file" /\ call = "off" /\ pc' = "announce" /\ again' = again
      /\ \A x \in Names : Has(todo', x) <=> OnChain(x)
      /\ ListOK' /\ Suffix(todo)'
  BY <1>1, AnnouncementStarts
<1>3. BytesOK' /\ CallOK' /\ (Whole' <=> Whole)
  BY <1>1, <1>2, BodyStays
<1>4. TypeOK'
  <2>1. faults' \in 0 .. MaxFaults
    BY Typed, GetFileAssumption DEF BodyFails, Faulty
  <2>2. /\ outcome' \in {"ok", "failed", "revoked", "interrupt"}
        /\ dest' \in {"old", "whole", "durable", "torn", "deleted"}
        /\ noted' \in BOOLEAN /\ interrupted' \in BOOLEAN
    BY Typed DEF BodyFails
  <2> QED
    BY <1>1, <1>2, <2>1, <2>2 DEF IInv, TypeOK, GetFileTypeOK, Suffix
<1>5. Before' /\ Ahead'
  BY <1>1, <1>2, Typed, ItemShape DEF IInv, Before, Ahead, HandleOK, OnChain, Names
<1>6. HandleOK'
  BY <1>1 DEF IInv, HandleOK, Before
<1>7. WellPlaced'
  BY <1>1, <1>2, <1>3, Typed, ItemShape DEF IInv, WellPlaced, BodyFails
<1>8. StaysPlaced' /\ Flushed'
  <2>1. source /\ records = << >>
    BY <1>1 DEF IInv, Before, TypeOK
  <2>2. source' /\ records' # <<"SUCCEEDED">>
    BY <1>1, <2>1
  <2>3. item.fsync => Has(todo', "fsync")
    BY <1>2, Typed, ItemShape DEF OnChain, Names
  <2> QED
    BY <1>1, <2>2, <2>3 DEF StaysPlaced, Flushed
<1>9. Noted'
  BY <1>1, <1>2, Typed DEF IInv, Noted, BodyFails
<1> QED
  BY <1>2, <1>3, <1>4, <1>5, <1>6, <1>7, <1>8, <1>9 DEF IInv

\* The announcement over a body that was broken.
LEMMA BodyInterruptedAnnounces ==
  ASSUME IInv, BodyInterrupted, Announces
  PROVE  IInv'
<1>1. /\ UNCHANGED <<item, source, handle, severed, deleteRan, settled, records, rollback>>
      /\ UNCHANGED <<body, bodyVars, call, temp>> /\ pc \in {"body", "rename"}
  BY DEF BodyInterrupted, TaskInterrupted, StreamInterrupted, Kept, guards, body
<1>2. /\ item.route # "get_file" /\ call = "off" /\ pc' = "announce" /\ again' = again
      /\ \A x \in Names : Has(todo', x) <=> OnChain(x)
      /\ ListOK' /\ Suffix(todo)'
  BY <1>1, AnnouncementStarts
<1>3. BytesOK' /\ CallOK' /\ (Whole' <=> Whole)
  BY <1>1, <1>2, BodyStays
<1>4. TypeOK'
  <2>1. faults' \in 0 .. MaxFaults
    BY Typed, GetFileAssumption DEF BodyInterrupted, TaskInterrupted, StreamInterrupted, Faulty
  <2>2. /\ outcome' \in {"ok", "failed", "revoked", "interrupt"}
        /\ dest' \in {"old", "whole", "durable", "torn", "deleted"}
        /\ noted' \in BOOLEAN /\ interrupted' \in BOOLEAN
    BY Typed DEF BodyInterrupted, TaskInterrupted, StreamInterrupted
  <2> QED
    BY <1>1, <1>2, <2>1, <2>2 DEF IInv, TypeOK, GetFileTypeOK, Suffix
<1>5. Before' /\ Ahead'
  BY <1>1, <1>2, Typed, ItemShape DEF IInv, Before, Ahead, HandleOK, OnChain, Names
<1>6. HandleOK'
  BY <1>1 DEF IInv, HandleOK, Before
<1>7. WellPlaced'
  BY <1>1, <1>2, <1>3, Typed, ItemShape
  DEF IInv, WellPlaced, BodyInterrupted, TaskInterrupted, StreamInterrupted
<1>8. StaysPlaced' /\ Flushed'
  <2>1. source /\ records = << >>
    BY <1>1 DEF IInv, Before, TypeOK
  <2>2. source' /\ records' # <<"SUCCEEDED">>
    BY <1>1, <2>1
  <2>3. item.fsync => Has(todo', "fsync")
    BY <1>2, Typed, ItemShape DEF OnChain, Names
  <2> QED
    BY <1>1, <2>2, <2>3 DEF StaysPlaced, Flushed
<1>9. Noted'
  <2>1. \/ noted'
        \/ outcome' = "interrupt" /\ noted' = noted
    BY DEF BodyInterrupted, TaskInterrupted, StreamInterrupted
  <2>2. ~settled /\ ~again
    BY <1>1 DEF IInv, Before
  <2> QED
    BY <1>1, <1>2, <2>1, <2>2, Typed DEF Noted
<1> QED
  BY <1>2, <1>3, <1>4, <1>5, <1>6, <1>7, <1>8, <1>9 DEF IInv

\* The announcement after the rename of a CRT download.
LEMMA RenameAnnounces ==
  ASSUME IInv, Rename, Announces
  PROVE  IInv'
<1>1. /\ UNCHANGED <<item, source, handle, severed, deleteRan, settled, records, rollback>>
      /\ UNCHANGED <<body, bodyVars, call, temp>> /\ pc \in {"body", "rename"}
  BY DEF Rename, Kept, guards, body
<1>2. /\ item.route # "get_file" /\ call = "off" /\ pc' = "announce" /\ again' = again
      /\ \A x \in Names : Has(todo', x) <=> OnChain(x)
      /\ ListOK' /\ Suffix(todo)'
  BY <1>1, AnnouncementStarts
<1>3. BytesOK' /\ CallOK' /\ (Whole' <=> Whole)
  BY <1>1, <1>2, BodyStays
<1>4. TypeOK'
  <2>1. faults' \in 0 .. MaxFaults
    BY Typed, GetFileAssumption DEF Rename, Faulty
  <2>2. /\ outcome' \in {"ok", "failed", "revoked", "interrupt"}
        /\ dest' \in {"old", "whole", "durable", "torn", "deleted"}
        /\ noted' \in BOOLEAN /\ interrupted' \in BOOLEAN
    BY Typed DEF Rename
  <2> QED
    BY <1>1, <1>2, <2>1, <2>2 DEF IInv, TypeOK, GetFileTypeOK, Suffix
<1>5. Before' /\ Ahead'
  BY <1>1, <1>2, Typed, ItemShape DEF IInv, Before, Ahead, HandleOK, OnChain, Names
<1>6. HandleOK'
  BY <1>1 DEF IInv, HandleOK, Before
<1>7. WellPlaced'
  BY <1>1, <1>2, <1>3, Typed, ItemShape DEF IInv, Before, WellPlaced, Held, Rename
<1>8. StaysPlaced' /\ Flushed'
  <2>1. source /\ records = << >>
    BY <1>1 DEF IInv, Before, TypeOK
  <2>2. source' /\ records' # <<"SUCCEEDED">>
    BY <1>1, <2>1
  <2>3. item.fsync => Has(todo', "fsync")
    BY <1>2, Typed, ItemShape DEF OnChain, Names
  <2> QED
    BY <1>1, <2>2, <2>3 DEF StaysPlaced, Flushed
<1>9. Noted'
  BY <1>1, <1>2, Typed DEF IInv, Noted, Rename
<1> QED
  BY <1>2, <1>3, <1>4, <1>5, <1>6, <1>7, <1>8, <1>9 DEF IInv

\* A body whose bytes have arrived announces, or leaves its file to the rename.
LEMMA BodyLandsKeeps == ASSUME IInv, BodyLands PROVE IInv'
<1>1. CASE Announces
  BY <1>1, BodyLandsAnnounces
<1>2. CASE pc' = "rename" /\ ~item.handle
  <2>1. /\ UNCHANGED <<item, todo, again, outcome, dest, source, handle, severed, deleteRan>>
        /\ UNCHANGED <<settled, records, rollback, noted, interrupted, faults>>
        /\ UNCHANGED <<body, bodyVars, call, temp>> /\ pc = "body"
    BY <1>2 DEF BodyLands, Announces, Kept, faultVars, guards, body
  <2>2. BytesOK' /\ CallOK' /\ (Whole' <=> Whole) /\ item.route # "get_file" /\ call = "off"
    BY <2>1, BodyStays DEF IInv, ListOK
  <2>3. TypeOK'
    BY <1>2, <2>1, ListStays DEF IInv, TypeOK, GetFileTypeOK, Suffix
  <2>4. ListOK' /\ Before' /\ Ahead'
    BY <1>2, <2>1, <2>2, ChainFixed DEF IInv, ListOK, Before, Ahead
  <2>5. HandleOK' /\ WellPlaced' /\ StaysPlaced' /\ Flushed' /\ Noted'
    BY <1>2, <2>1 DEF IInv, HandleOK, WellPlaced, StaysPlaced, Flushed, Noted, Held
  <2> QED
    BY <2>2, <2>3, <2>4, <2>5 DEF IInv
<1> QED
  BY <1>1, <1>2 DEF BodyLands

\* A body that failed announces.
LEMMA BodyFailsKeeps == ASSUME IInv, BodyFails PROVE IInv'
BY BodyFailsAnnounces DEF BodyFails

\* A body that a BaseException broke announces.
LEMMA BodyInterruptedKeeps == ASSUME IInv, BodyInterrupted PROVE IInv'
BY BodyInterruptedAnnounces DEF BodyInterrupted, TaskInterrupted, StreamInterrupted

\* The rename of a CRT download gives the file its name, or fails the item.
LEMMA RenameKeeps == ASSUME IInv, Rename PROVE IInv'
BY RenameAnnounces DEF Rename

\* A Ctrl-C in submit severs the handle from its item.
LEMMA SubmitInterruptedKeeps ==
  ASSUME IInv, SubmitInterrupted
  PROVE  IInv'
<1>1. /\ UNCHANGED <<item, pc, todo, again, outcome, source, deleteRan, settled, records>>
      /\ UNCHANGED <<rollback, body, bodyVars, call, temp>>
      /\ pc \in {"body", "announce"} /\ handle = "open" /\ handle' = "discarded"
      /\ severed' = TRUE /\ noted' = TRUE /\ interrupted' = TRUE /\ dest' = Discarded
  BY DEF SubmitInterrupted, progress, body, guards
<1>2. BytesOK' /\ CallOK' /\ (Whole' <=> Whole) /\ item.route # "get_file" /\ call = "off"
  BY <1>1, BodyStays DEF IInv, ListOK
<1>3. TypeOK'
  <2>1. faults' \in 0 .. MaxFaults
    BY Typed, GetFileAssumption DEF SubmitInterrupted, Faulty
  <2>2. dest' \in {"old", "whole", "durable", "torn", "deleted"}
    BY <1>1, Typed DEF Discarded, Content
  <2> QED
    BY <1>1, <2>1, <2>2, ListStays DEF IInv, TypeOK, GetFileTypeOK, Suffix
<1>4. ListOK' /\ Before' /\ Ahead'
  BY <1>1, <1>2, ChainFixed DEF IInv, ListOK, Before, Ahead
<1>5. ~item.fsync
  BY <1>1, Typed, ItemShape DEF IInv, HandleOK
<1>6. HandleOK' /\ WellPlaced' /\ StaysPlaced' /\ Flushed' /\ Noted'
  BY <1>1, <1>5 DEF IInv, HandleOK, WellPlaced, StaysPlaced, Flushed, Noted
<1> QED
  BY <1>2, <1>3, <1>4, <1>6 DEF IInv

\* The list is empty: the item is over, or still unwinds.
LEMMA AnnouncementEndsKeeps ==
  ASSUME IInv, AnnouncementEnds
  PROVE  IInv'
<1>1. /\ UNCHANGED <<item, todo, again, outcome, dest, source, handle, severed, deleteRan>>
      /\ UNCHANGED <<settled, records, rollback, noted, interrupted, faults>>
      /\ UNCHANGED <<body, bodyVars, call, temp>>
      /\ pc = "announce" /\ todo = << >> /\ pc' \in {"unwind", "over"}
  BY DEF AnnouncementEnds, effects, body, guards, faultVars
<1>2. BytesOK' /\ CallOK' /\ (Whole' <=> Whole) /\ item.route # "get_file" /\ call = "off"
  BY <1>1, BodyStays DEF IInv, ListOK
<1>3. TypeOK'
  BY <1>1, ListStays DEF IInv, TypeOK, GetFileTypeOK
<1>4. ListOK' /\ Before' /\ Ahead'
  BY <1>1, <1>2, ChainFixed DEF IInv, ListOK, Before, Ahead
<1>5. settled
  BY <1>1, NoneIsOrdered DEF IInv, Ahead
<1>6. HandleOK' /\ WellPlaced' /\ StaysPlaced' /\ Flushed' /\ Noted'
  BY <1>1, <1>5, Typed DEF IInv, HandleOK, WellPlaced, StaysPlaced, Flushed, Noted, Held
<1> QED
  BY <1>2, <1>3, <1>4, <1>6 DEF IInv

\* What unwinds out of a submission task on the calling thread is noted.
LEMMA UnwindKeeps ==
  ASSUME IInv, Unwind
  PROVE  IInv'
<1>1. /\ UNCHANGED <<item, todo, again, outcome, dest, source, handle, severed, deleteRan>>
      /\ UNCHANGED <<settled, records, rollback, body, bodyVars, call, temp>>
      /\ pc = "unwind" /\ pc' = "over"
      /\ UNCHANGED <<noted, interrupted>> \/ (noted' /\ interrupted')
      /\ noted' \in BOOLEAN /\ interrupted' \in BOOLEAN
  BY Typed DEF Unwind, effects, body, guards, faultVars
<1>2. BytesOK' /\ CallOK' /\ (Whole' <=> Whole) /\ item.route # "get_file" /\ call = "off"
  BY <1>1, BodyStays DEF IInv, ListOK
<1>3. TypeOK'
  <2>1. faults' \in 0 .. MaxFaults
    BY Typed, GetFileAssumption DEF Unwind, Faulty, faultVars
  <2> QED
    BY <1>1, <2>1, ListStays DEF IInv, TypeOK, GetFileTypeOK, Suffix
<1>4. ListOK' /\ Before' /\ Ahead'
  BY <1>1, <1>2, ChainFixed DEF IInv, ListOK, Before, Ahead
<1>5. HandleOK' /\ WellPlaced' /\ StaysPlaced' /\ Flushed' /\ Noted'
  BY <1>1, Typed DEF IInv, HandleOK, WellPlaced, StaysPlaced, Flushed, Noted, Held
<1> QED
  BY <1>2, <1>3, <1>4, <1>5 DEF IInv

\* get_file in its own call moves on: nothing of the engine is involved.
LEMMA SingleCallKeeps ==
  ASSUME IInv, SingleCall
  PROVE  IInv'
<1>1. /\ UNCHANGED <<item, todo, again, outcome, source, handle, severed, deleteRan>>
      /\ UNCHANGED <<rollback, noted, interrupted>> /\ pc = "single" /\ GetFileNext
  BY DEF SingleCall
<1>2. /\ item.route = "get_file" /\ call \notin {"off", "returned", "raised", "cut"}
      /\ todo = << >> /\ source /\ ~deleteRan /\ ~settled /\ records = << >>
      /\ dest \in {"old", "whole"}
  BY <1>1 DEF IInv, ListOK, Before, CallOK, TypeOK
<1>3. /\ call' \in {"request", "create", "copy", "close", "replace", "discard",
                    "returned", "raised", "cut"}
      /\ temp' \in BOOLEAN /\ dest' \in {"old", "whole"} /\ faults' \in 0 .. MaxFaults
      /\ call' \in {"request", "create", "returned"} => ~temp'
      /\ call' \in {"close", "replace"} => Whole'
      /\ call' \in {"discard", "raised"} => faults' > 0
      /\ call' = "raised" /\ temp' => faults' > 1
      /\ call' = "returned" => dest' = "whole"
  <2>1. /\ call \in {"request", "create"} => ~temp
        /\ call \in {"close", "replace"} => Whole
        /\ call = "discard" => faults > 0
        /\ faults \in 0 .. MaxFaults /\ MaxFaults \in Nat /\ temp \in BOOLEAN
    BY <1>2, Typed, GetFileAssumption DEF IInv, CallOK
  <2>2. faults' \in 0 .. MaxFaults /\ (Faulty => faults' > 0)
        /\ (Faulty /\ faults > 0 => faults' > 1)
    BY <1>1, <2>1 DEF GetFileNext, RequestAnswered, CreateDownloadTemp, CopyBody, CloseTemp,
           Replace, DiscardTemp, Faulty
  <2>3. UNCHANGED bodyVars => (Whole' <=> Whole)
    BY DEF bodyVars, Whole
  <2>w. CopyBody /\ at = size => Whole
    BY <1>2 DEF IInv, BytesOK, Whole
  <2>4. CASE RequestAnswered
    BY <1>2, <2>1, <2>2, <2>3, <2>4 DEF RequestAnswered, Goes
  <2>5. CASE CreateDownloadTemp
    <3>1. ~temp /\ dest' \in {"old", "whole"} /\ faults' \in 0 .. MaxFaults
      BY <1>2, <2>1, <2>2, <2>5 DEF CreateDownloadTemp
    <3>2. \/ call' = "copy" /\ temp' = TRUE
          \/ call' = "raised" /\ temp' = FALSE /\ faults' > 0
          \/ call' = "cut" /\ temp' = TRUE
      BY <2>1, <2>2, <2>5, <3>1 DEF CreateDownloadTemp
    <3> QED
      BY <3>1, <3>2
  <2>6. CASE CopyBody
    BY <1>2, <2>1, <2>2, <2>3, <2>6, <2>w DEF CopyBody, Goes
  <2>7. CASE CloseTemp
    BY <1>2, <2>1, <2>2, <2>3, <2>7 DEF CloseTemp, Goes
  <2>8. CASE Replace
    BY <1>2, <2>1, <2>2, <2>3, <2>8 DEF Replace, Goes, Content
  <2>9. CASE DiscardTemp
    BY <1>2, <2>1, <2>2, <2>3, <2>9 DEF DiscardTemp
  <2> QED
    BY <1>1, <2>4, <2>5, <2>6, <2>7, <2>8, <2>9 DEF GetFileNext
<1>4. BytesOK'
  BY <1>1, <1>2, ChunkFollows DEF IInv, GetFileNext, RequestAnswered, CreateDownloadTemp,
         CopyBody, CloseTemp, Replace, DiscardTemp, BytesOK, bodyVars
<1>5. \/ pc' = "over" /\ settled' = TRUE /\ call' \in {"returned", "raised", "cut"}
         /\ records' = <<IF call' = "returned" THEN "SUCCEEDED" ELSE "FAILED">>
      \/ UNCHANGED <<pc, settled, records>> /\ call' \notin {"returned", "raised", "cut"}
  BY DEF SingleCall
<1>6. TypeOK'
  <2>1. Suffix(todo)'
    BY <1>1, ListStays
  <2>2. /\ settled' = (records' # << >>)
        /\ records' \in {<< >>} \cup {<<r>> : r \in {"SUCCEEDED", "FAILED", "SKIPPED",
                                                     "CANCELLED", "lost"}}
    <3>1. CASE UNCHANGED <<pc, settled, records>>
      BY <1>2, <3>1, Typed
    <3>2. CASE settled' = TRUE /\ records' \in {<<"SUCCEEDED">>, <<"FAILED">>}
      <4>1. <<"SUCCEEDED">> # << >> /\ <<"FAILED">> # << >>
        OBVIOUS
      <4> QED
        BY <3>2, <4>1
    <3> QED
      BY <1>5, <3>1, <3>2
  <2> QED
    BY <1>1, <1>3, <1>5, <2>1, <2>2 DEF IInv, TypeOK, GetFileTypeOK, Suffix
<1>7. ListOK' /\ Before' /\ Ahead'
  BY <1>1, <1>2, <1>3, <1>5, ChainFixed DEF IInv, ListOK, Before, Ahead
<1>8. CallOK'
  BY <1>3, <1>5 DEF CallOK
<1>9. records' = <<"SUCCEEDED">> => call' = "returned"
  BY <1>2, <1>5
<1>10. StaysPlaced'
  BY <1>1, <1>2, <1>3, <1>9, Typed, ItemShape DEF IInv, HandleOK, StaysPlaced, Held
<1>11. HandleOK' /\ WellPlaced' /\ Flushed' /\ Noted'
  BY <1>1, <1>2, <1>5, Typed, ItemShape DEF IInv, HandleOK, WellPlaced, Flushed, Noted
<1> QED
  BY <1>4, <1>6, <1>7, <1>8, <1>10, <1>11 DEF IInv

-----------------------------------------------------------------------------
(* The invariant.                                                          *)

\* Before the body nothing was written, deleted or reported.
LEMMA InitEstablishes == ASSUME Init PROVE IInv
<1>1. item \in Items /\ size \in Nat
  BY BodyAssumption DEF Init, BodyInit
<1>2. /\ at = 0 /\ written = 0 /\ out = << >> /\ temp = FALSE /\ todo = << >> /\ again = FALSE
      /\ outcome = "ok" /\ dest = "old" /\ source = TRUE /\ severed = FALSE
      /\ deleteRan = FALSE /\ settled = FALSE /\ records = << >> /\ rollback = "none"
      /\ noted = FALSE /\ interrupted = FALSE /\ faults = 0
      /\ handle = (IF item.handle THEN "open" ELSE "committed")
      /\ IF item.route = "get_file" THEN pc = "single" /\ call = "request"
                                    ELSE pc = "body" /\ call = "off"
  BY DEF Init, BodyInit
<1>3. TypeOK
  <2>1. GetFileTypeOK
    <3>1. call \in {"off", "request"} /\ pc \in {"body", "single"}
      BY <1>2
    <3>2. faults = 0 /\ temp = FALSE
      BY <1>2
    <3>3. faults \in 0 .. MaxFaults
      BY <3>2, GetFileAssumption
    <3>4. temp \in BOOLEAN
      BY <3>2
    <3> QED
      BY <3>1, <3>3, <3>4 DEF GetFileTypeOK
  <2>2. \E k \in 1 .. Len(Chain) + 1 : todo = SubSeq(Chain, k, Len(Chain))
    BY <1>1, <1>2, WholeOrEmpty
  <2> QED
    BY <1>1, <1>2, <2>1, <2>2 DEF TypeOK
<1>4. ListOK
  BY <1>2, NoneIsOrdered DEF ListOK, Below
<1>5. BytesOK
  <2>1. Bytes(0, 0) \in Seq(Nat) /\ Len(Bytes(0, 0)) = 0
    BY DEF Bytes
  <2>2. Bytes(0, 0) = << >>
    BY <2>1, EmptySeq
  <2> QED
    BY <1>1, <1>2, <2>2 DEF BytesOK
<1>6. Before /\ Ahead /\ HandleOK /\ WellPlaced /\ StaysPlaced /\ Flushed /\ Noted /\ CallOK
  BY <1>1, <1>2 DEF Before, Ahead, HandleOK, WellPlaced, StaysPlaced, Flushed, Noted, CallOK
<1> QED
  BY <1>3, <1>4, <1>5, <1>6 DEF IInv

\* A step that changes nothing keeps the invariant.
LEMMA StutterKeeps == ASSUME IInv, UNCHANGED vars PROVE IInv'
<1>1. /\ UNCHANGED <<item, pc, todo, again, outcome, dest, source, handle, severed, deleteRan>>
      /\ UNCHANGED <<settled, records, rollback, noted, interrupted, faults, call, temp>>
      /\ UNCHANGED <<size, tries, at, written, out>>
  BY DEF vars, progress, effects, body, bodyVars, guards, faultVars
<1>2. TypeOK'
  BY <1>1, ListStays DEF IInv, TypeOK, GetFileTypeOK, Suffix
<1>3. ListOK' /\ Before' /\ Ahead'
  BY <1>1, ChainFixed DEF IInv, ListOK, Before, Ahead
<1>4. BytesOK' /\ CallOK' /\ WellPlaced'
  BY <1>1 DEF IInv, BytesOK, CallOK, WellPlaced, Whole, Held
<1>5. HandleOK' /\ StaysPlaced' /\ Flushed' /\ Noted'
  BY <1>1 DEF IInv, HandleOK, StaysPlaced, Flushed, Noted, Held
<1> QED
  BY <1>2, <1>3, <1>4, <1>5 DEF IInv

\* Every step keeps the invariant.
LEMMA StepKeeps == ASSUME IInv, [Next]_vars PROVE IInv'
BY BodyMovesKeeps, BodyLandsKeeps, BodyFailsKeeps, BodyInterruptedKeeps, RenameKeeps,
     SubmitInterruptedKeeps, SingleCallKeeps, CloseFileobjKeeps, StampMtimeKeeps, FsyncDestKeeps,
     SetTagsKeeps, SetAnnotationsKeeps, DeleteSourceKeeps, CompleteKeeps, AnnouncementEndsKeeps,
     UnwindKeeps, StutterKeeps
   DEF Next, Finished

\* The inductive invariant holds in every reachable state.
THEOREM IInvHolds == Spec => []IInv
BY InitEstablishes, StepKeeps, PTL DEF Spec

\* The types; and an item is reported at most once (_Complete's settled guard), however
\* often its subscribers are announced.
THEOREM ItemDoneTyped == Spec => []TypeOK
<1>1. IInv => TypeOK
  BY DEF IInv
<1> QED
  BY <1>1, IInvHolds, PTL

\* mv deletes a source (_DeleteSource) only once its bytes are at the destination, and
\* no later failure, interrupt or second announcement takes them away.
THEOREM MovedDataStays == Spec => []MoveKeepsData
<1>1. IInv => MoveKeepsData
  BY DEF IInv, StaysPlaced, MoveKeepsData
<1> QED
  BY <1>1, IInvHolds, PTL

\* At any moment a crash finds one whole version: a move with LocalStorage(fsync=True)
\* has flushed its copy before the source goes, and get_file never shows a torn file.
THEOREM CrashFindsData == Spec => []SurvivesCrash
<1>1. ASSUME IInv PROVE SurvivesCrash
  <2>1. item.fsync /\ ~source => dest = "durable"
    BY <1>1 DEF IInv, Flushed
  <2>2. ReplacedWhole
    BY <1>1 DEF IInv, CallOK, ReplacedWhole
  <2> QED
    BY <2>1, <2>2 DEF SurvivesCrash
<1> QED
  BY <1>1, IInvHolds, PTL

\* A SUCCEEDED record is true: the bytes are at the destination, the handle was
\* committed and a moved source is gone, whatever was cut and repeated on the way.
THEOREM SuccessIsAtItsPlace == Spec => []RecordIsTrue
<1>1. IInv => RecordIsTrue
  BY DEF IInv, StaysPlaced, RecordIsTrue
<1> QED
  BY <1>1, IInvHolds, PTL

\* A BaseException out of a body or a subscriber is noted for the caller by the time the
\* item is over, and nothing else may take the record of an item with it.
THEOREM NoInterruptIsLost == Spec => []InterruptSurfaces
<1>1. ASSUME IInv PROVE InterruptSurfaces
  <2>1. settled = (records # << >>)
    BY <1>1, Typed
  <2> QED
    BY <1>1, <2>1 DEF IInv, Noted, InterruptSurfaces
<1> QED
  BY <1>1, IInvHolds, PTL
=============================================================================
