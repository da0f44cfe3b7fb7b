-------------------------------- MODULE Body --------------------------------
(***************************************************************************)
(* The bytes of one object on their way through a handle that takes or     *)
(* gives them in sequence only: the deferred reader and writer of the open *)
(* routes (src/boto3_s3/producers.py), and _writing_once                   *)
(* (src/boto3_s3/transfer.py), which keeps a download that is retried from *)
(* its first byte from writing anything twice.                             *)
(*                                                                         *)
(* Abstraction.  A byte is its position.  A download is one GetObject,     *)
(* whose chunks arrive in order, any length at a time; ranged downloads    *)
(* pass through s3transfer's own queue instead.                            *)
(***************************************************************************)
EXTENDS Naturals, Sequences

CONSTANTS
  Sizes,                     \* the objects considered, by their length
  MaxChunk,                  \* bytes that arrive together
  MaxTries                   \* s3transfer's num_download_attempts

ASSUME BodyAssumption ==
  /\ Sizes \subseteq Nat /\ MaxChunk \in Nat \ {0} /\ MaxTries \in Nat \ {0}

VARIABLES
  size,                      \* fixed
  tries, at,                 \* the attempt, and how many of its bytes were read
  written,                   \* the high-water mark of _writing_once
  out                        \* the bytes on the other side, in order

bodyVars == <<size, tries, at, written, out>>

BodyInit == size \in Sizes /\ tries = 1 /\ at = 0 /\ written = 0 /\ out = << >>

\* The bytes after position m, up to position n.
Bytes(m, n) == [k \in 1 .. n - m |-> m + k]
Whole == out = Bytes(0, size)

\* Where the next chunk may end.
ChunkEnds == {n \in at + 1 .. at + MaxChunk : n <= size}

HandleIoAgain(index, end) == out' = out \o Bytes(index, end) /\ written' = end

\* _writing_once: what is below the mark was written by an earlier attempt.
HandleIo(index, end) ==
  \/ end <= written /\ UNCHANGED <<out, written>>
  \/ /\ end > written
     /\ out' = out \o Bytes(IF index < written THEN written ELSE index, end)
     /\ written' = end

ChunkWritten ==
  \E end \in ChunkEnds : HandleIo(at, end) /\ at' = end /\ UNCHANGED <<size, tries>>

\* The connection breaks, or ends short; the request is sent again.
BodyCut ==
  /\ tries < MaxTries /\ tries' = tries + 1 /\ at' = 0
  /\ UNCHANGED <<size, written, out>>

\* A chunk of an upload, read from the source once.
ChunkRead ==
  \E end \in ChunkEnds :
    /\ out' = out \o Bytes(at, end) /\ at' = end
    /\ UNCHANGED <<size, tries, written>>
=============================================================================
