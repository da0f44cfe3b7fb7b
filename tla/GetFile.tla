------------------------------ MODULE GetFile -------------------------------
(***************************************************************************)
(* S3Storage.get_file (src/boto3_s3/s3storage.py): one GetObject onto a    *)
(* local file, without the engine.  The body goes into a temporary file    *)
(* beside the destination, which os.replace commits; every failure and     *)
(* every interrupt removes the temporary file on its way out.              *)
(*                                                                         *)
(* Abstraction.  Modes, names and the translation of errors are left out.  *)
(* A fault is a failure or a BaseException of the step it hits.            *)
(***************************************************************************)
EXTENDS Body

CONSTANT MaxFaults           \* bound: failures and BaseExceptions, together

ASSUME GetFileAssumption == MaxFaults \in Nat

VARIABLES
  call,                      \* "off", "request", "create", "copy", "close", "replace",
                             \* "discard", then "returned", "raised" or "cut"
  dest,                      \* the destination: "old", "whole", "durable", "torn", "deleted"
  temp,                      \* the temporary file exists
  faults                     \* failures and BaseExceptions so far

getFileVars == <<call, dest, temp>>

Faulty == faults < MaxFaults /\ faults' = faults + 1

\* What a destination holds that got everything in out.
Content == IF Whole THEN "whole" ELSE "torn"

Goes(next) == call' = next /\ UNCHANGED <<dest, temp>>

RequestAnswered ==
  /\ call = "request" /\ UNCHANGED bodyVars
  /\ \/ Goes("create") /\ UNCHANGED faults
     \/ Faulty /\ Goes("raised")

\* os.open of a fresh name.  An interrupt as it returns finds nobody to remove the file:
\* the try has not begun.
CreateDownloadTemp ==
  /\ call = "create" /\ UNCHANGED <<dest, bodyVars>>
  /\ \/ call' = "copy" /\ temp' = TRUE /\ UNCHANGED faults
     \/ Faulty /\ call' = "raised" /\ UNCHANGED temp
     \/ Faulty /\ call' = "cut" /\ temp' = TRUE

CopyBody ==
  /\ call = "copy"
  /\ \/ ChunkRead /\ Goes("copy") /\ UNCHANGED faults
     \/ at = size /\ Goes("close") /\ UNCHANGED <<faults, bodyVars>>
     \/ Faulty /\ Goes("discard") /\ UNCHANGED bodyVars

CloseTemp ==
  /\ call = "close" /\ UNCHANGED bodyVars
  /\ \/ Goes("replace") /\ UNCHANGED faults
     \/ Faulty /\ Goes("discard")

\* The interrupt may come before the rename or after it.
Replace ==
  /\ call = "replace" /\ UNCHANGED bodyVars
  /\ \/ call' = "returned" /\ dest' = Content /\ temp' = FALSE /\ UNCHANGED faults
     \/ Faulty /\ Goes("discard")
     \/ Faulty /\ call' = "discard" /\ dest' = Content /\ temp' = FALSE

\* discard_temp: a failed unlink is suppressed, an interrupt ends it.
DiscardTemp ==
  /\ call = "discard" /\ call' = "raised" /\ UNCHANGED <<dest, bodyVars>>
  /\ \/ temp' = FALSE /\ UNCHANGED faults
     \/ Faulty /\ UNCHANGED temp

GetFileNext ==
  RequestAnswered \/ CreateDownloadTemp \/ CopyBody \/ CloseTemp \/ Replace \/ DiscardTemp

-----------------------------------------------------------------------------
(* Properties.                                                             *)

GetFileTypeOK ==
  /\ call \in {"off", "request", "create", "copy", "close", "replace", "discard",
               "returned", "raised", "cut"}
  /\ temp \in BOOLEAN /\ faults \in 0 .. MaxFaults

\* At every moment the destination holds one whole version, whatever breaks; a call that
\* returns has put the new one there; and no temporary file stays behind unless a second
\* fault hits its removal, or an interrupt its creation (docstring of get_file, "a failed
\* or truncated download leaves the previous destination byte-for-byte intact and no temp
\* file behind").
ReplacedWhole ==
  call # "off" =>
    /\ dest \in {"old", "whole"} /\ (call = "returned" => dest = "whole")
    /\ call \in {"returned", "raised"} /\ temp => faults > 1
=============================================================================
