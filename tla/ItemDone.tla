------------------------------ MODULE ItemDone ------------------------------
(***************************************************************************)
(* What happens to one transfer item from the moment the engine works on   *)
(* its body (src/boto3_s3/transfer.py): the body lands or not, then the    *)
(* done subscribers run in the order their route gives them - commit or    *)
(* discard the stream, stamp, flush to disk, tag, annotate, delete a moved *)
(* source, record.  Each may fail, each may be cut by a BaseException, and *)
(* under use_threads=False s3transfer answers one that escapes by          *)
(* announcing the item a second time, the whole list again.  Meanwhile a   *)
(* Ctrl-C may end the submit that handed the item over, which then closes  *)
(* its handle.  Or the item is a call of get_file (GetFile).               *)
(*                                                                         *)
(* Abstraction.  The runner of the callbacks is s3transfer's: it drops an  *)
(* Exception and goes on with the next callback; a BaseException ends the  *)
(* list.  A BaseException lands inside a subscriber's work (a request, a   *)
(* system call, the caller's code), not between two of its assignments.  A *)
(* request that raises may or may not have been applied.  The body of an   *)
(* open route is Body's; any other one is a single step.  Releasing the    *)
(* case gate is in Producers, forgetting the future in Transferrer.        *)
(***************************************************************************)
EXTENDS GetFile

CONSTANT Items               \* the items considered, see ItemType

\* route, is_move, the executor ("serial", "threads", "crt"), an open-route handle,
\* LocalStorage(fsync=True), tags written after the copy, annotations written after it.
ItemType == [route : {"upload", "download", "copy", "get_file"}, move : BOOLEAN,
             runs : {"serial", "threads", "crt"}, handle : BOOLEAN, fsync : BOOLEAN,
             tags : BOOLEAN, annotations : BOOLEAN]

ASSUME ItemDoneAssumption ==
  Items \subseteq {i \in ItemType : /\ i.route = "copy" => ~i.handle /\ i.runs # "crt"
                                    /\ i.tags \/ i.annotations => i.route = "copy"
                                    /\ i.fsync => i.route = "download" /\ i.move /\ ~i.handle
                                    /\ i.route = "get_file" => ~i.move /\ ~i.handle}

VARIABLES
  item,                      \* fixed
  pc,                        \* see TypeOK; "stalled": a CRT item whose end nobody learns of
  todo,                      \* the subscribers still to run in this announcement
  again,                     \* this is the second announcement
  outcome,                   \* what the future holds: "ok", "failed", "revoked", "interrupt"
  source,                    \* the source of the item is still there
  handle,                    \* the deferred handle: "open", "committed" or "discarded"
  severed,                   \* an interrupted submit closed it while the item was live
  deleteRan, settled,        \* the once-only guards of _DeleteSource and _Completion
  records,                   \* what on_result was told
  rollback,                  \* _SetTags' rollback: "none", "done" or "raised"
  noted,                     \* _pending_raise is set, or the exception reached the caller
  interrupted                \* a BaseException happened

progress == <<pc, todo, again>>
effects == <<dest, source, handle>>
body == <<bodyVars, call, temp>>
guards == <<deleteRan, settled>>
faultVars == <<noted, interrupted, faults>>
vars == <<item, progress, outcome, effects, body, severed, guards, records, rollback, faultVars>>

Opt(condition, name) == IF condition THEN <<name>> ELSE << >>

\* The order of the done subscribers, per route.
UploadChain ==
  Opt(item.handle, "close") \o Opt(item.move, "delete") \o <<"complete">>

DownloadChainFsyncLate ==
  Opt(item.handle, "close") \o <<"stamp">> \o Opt(item.move, "delete")
    \o Opt(item.fsync, "fsync") \o <<"complete">>
DownloadChain ==
  Opt(item.handle, "close") \o <<"stamp">> \o Opt(item.fsync, "fsync")
    \o Opt(item.move, "delete") \o <<"complete">>

CopyChain ==
  Opt(item.tags, "tags") \o Opt(item.annotations, "annotate")
    \o Opt(item.move, "delete") \o <<"complete">>

Chain == CASE item.route = "upload" -> UploadChain
           [] item.route = "download" -> DownloadChain
           [] item.route = "copy" -> CopyChain
           [] OTHER -> << >>

Init ==
  /\ item \in Items
  /\ BodyInit /\ (item.handle \/ item.route = "get_file" \/ size = CHOOSE n \in Sizes : TRUE)
  /\ IF item.route = "get_file" THEN pc = "single" /\ call = "request"
                                ELSE pc = "body" /\ call = "off"
  /\ temp = FALSE /\ todo = << >> /\ again = FALSE
  /\ outcome = "ok" /\ dest = "old" /\ source = TRUE
  /\ handle = (IF item.handle THEN "open" ELSE "committed") /\ severed = FALSE
  /\ deleteRan = FALSE /\ settled = FALSE /\ records = << >> /\ rollback = "none"
  /\ noted = FALSE /\ interrupted = FALSE /\ faults = 0

Serial == item.runs = "serial"

-----------------------------------------------------------------------------
(* The body.                                                               *)

Kept == UNCHANGED <<item, source, handle, severed, guards, records, rollback, call, temp>>
Announces == pc' = "announce" /\ todo' = Chain /\ UNCHANGED again

\* A handle is read or written chunk by chunk.  A closed reader is at its end, a closed
\* writer refuses.
BodyMoves ==
  /\ pc = "body" /\ item.handle /\ ~severed
  /\ \/ item.route = "upload" /\ ChunkRead
     \/ item.route = "download" /\ ChunkWritten
     \/ item.route = "download" /\ item.runs # "crt" /\ BodyCut
  /\ Kept /\ UNCHANGED <<progress, outcome, dest, faultVars>>

BodyOver == ~item.handle \/ at = size \/ (severed /\ item.route = "upload")

\* A download through a handle is in the writer's hands until its close; an upload is
\* what was read.
Lands == IF ~item.handle THEN "whole" ELSE IF item.route = "download" THEN dest ELSE Content

\* Everything arrived.  The CRT engine still has to rename a download's file.
BodyLands ==
  /\ pc = "body" /\ BodyOver
  /\ IF item.runs = "crt" /\ item.route = "download" /\ ~item.handle
     THEN pc' = "rename" /\ UNCHANGED <<todo, again, dest>>
     ELSE Announces /\ dest' = Lands
  /\ Kept /\ UNCHANGED <<outcome, bodyVars, faultVars>>

\* The operation an interrupt ended revokes what it had handed over.
BodyFails ==
  /\ pc = "body" /\ (Faulty \/ (severed /\ UNCHANGED faults))
  /\ outcome' \in {"failed", "revoked"} /\ Announces
  /\ Kept /\ UNCHANGED <<dest, bodyVars, noted, interrupted>>

\* _TaskGuard revokes the transfer and notes the exception; a submission task stores it
\* and notes it.
TaskInterrupted ==
  item.runs # "crt" /\ outcome' \in {"revoked", "interrupt"} /\ noted' = TRUE

\* awscrt runs code of the caller only where a stream is the body: an upload's is wrapped
\* (_GuardedReader), which notes the exception and gives awscrt an error of its own; a
\* download's is bare, and awscrt stores what it raised as the item's outcome.
StreamInterrupted ==
  /\ item.runs = "crt" /\ item.handle
  /\ IF item.route = "upload"
     THEN outcome' = "failed" /\ noted' = TRUE
     ELSE outcome' = "interrupt" /\ UNCHANGED noted

BodyInterrupted ==
  /\ pc = "body" /\ Faulty
  /\ interrupted' = TRUE /\ (TaskInterrupted \/ StreamInterrupted)
  /\ Announces /\ Kept /\ UNCHANGED <<dest, bodyVars>>

RenameDropsFailure ==
  /\ pc = "rename"
  /\ \/ dest' = "whole" /\ UNCHANGED <<outcome, faults>>
     \/ Faulty /\ UNCHANGED <<dest, outcome>>
  /\ Announces /\ Kept /\ UNCHANGED <<bodyVars, noted, interrupted>>

\* RenameTempFileHandler runs before the subscribers; _KeepRenameFailure makes its late
\* set_exception count.
Rename ==
  /\ pc = "rename"
  /\ \/ dest' = "whole" /\ UNCHANGED <<outcome, faults>>
     \/ Faulty /\ outcome' = "failed" /\ UNCHANGED dest
  /\ Announces /\ Kept /\ UNCHANGED <<bodyVars, noted, interrupted>>

\* What closing the writer leaves behind: nothing, if it was never opened.
Discarded == IF item.route = "upload" \/ out = << >> THEN dest ELSE Content

\* A Ctrl-C on the submitting thread once the engine has accepted the item: submit closes
\* the handles, whatever the worker is doing with them, and raises.
SubmitInterrupted ==
  /\ pc \in {"body", "announce"} /\ handle = "open" /\ ~Serial /\ Faulty
  /\ interrupted' = TRUE /\ noted' = TRUE
  /\ handle' = "discarded" /\ severed' = TRUE /\ dest' = Discarded
  /\ UNCHANGED <<item, progress, outcome, source, body, guards, records, rollback>>

\* A call of get_file, and what its caller sees.
SingleCall ==
  /\ pc = "single" /\ GetFileNext
  /\ IF call' \in {"returned", "raised", "cut"}
     THEN /\ pc' = "over" /\ settled' = TRUE
          /\ records' = <<IF call' = "returned" THEN "SUCCEEDED" ELSE "FAILED">>
     ELSE UNCHANGED <<pc, settled, records>>
  /\ UNCHANGED <<item, todo, again, outcome, source, handle, severed, deleteRan, rollback,
                 noted, interrupted>>

-----------------------------------------------------------------------------
(* The subscribers.  Each step runs the head of todo.                      *)

At(name) == pc = "announce" /\ todo # << >> /\ Head(todo) = name
Done == todo' = Tail(todo) /\ UNCHANGED <<pc, again>>

\* A BaseException leaves the callback list.  On a worker the rest never runs; on the
\* serial executor the submission task announces the item again, and one that leaves
\* the second announcement reaches the caller.  On an awscrt thread nothing notes it and
\* the engine never learns that the item is done: its drain waits for good.
Escapes ==
  /\ interrupted' = TRUE
  /\ \/ Serial /\ ~again /\ noted' = TRUE /\ todo' = Chain /\ again' = TRUE /\ UNCHANGED pc
     \/ /\ ~(Serial /\ ~again) /\ todo' = << >> /\ UNCHANGED again
        /\ IF item.runs = "crt" THEN pc' = "stalled" /\ UNCHANGED noted
                                ELSE pc' = "over" /\ noted' = TRUE

\* It is stored as the item's outcome instead (_CloseFileobj, _DeleteSource).
StoreInterrupt == outcome' = "interrupt" /\ interrupted' = TRUE /\ UNCHANGED noted
StoreFailure == outcome' = "failed" /\ UNCHANGED <<noted, interrupted>>

\* The commit writes the custom destination, opening it if it is empty; the close of a
\* reader changes nothing.
Committed == IF item.route = "download" THEN Content ELSE dest

\* A success closes the handle, which commits; anything else discards it.  Both do
\* nothing to a handle that is already closed.
CloseFileobj ==
  /\ At("close")
  /\ \/ handle # "open" /\ Done /\ UNCHANGED <<handle, dest, outcome, faultVars>>
     \/ /\ handle = "open" /\ outcome = "ok" /\ handle' = "committed" /\ Done
        /\ \/ dest' = Committed /\ UNCHANGED <<outcome, faultVars>>
           \/ Faulty /\ dest' \in {dest, Committed, Discarded} /\ (StoreFailure \/ StoreInterrupt)
     \/ /\ handle = "open" /\ outcome # "ok" /\ handle' = "discarded" /\ UNCHANGED outcome
        /\ \/ dest' = Discarded /\ Done /\ UNCHANGED faultVars
           \/ dest' \in {dest, Discarded} /\ Faulty /\ Escapes
  /\ UNCHANGED <<item, source, body, severed, guards, records, rollback>>

\* A failed stamp warns; what on_result does then may leave the list on the calling
\* thread, and on a worker is only noted (_deliver).
StampMtime ==
  /\ At("stamp")
  /\ \/ Done /\ UNCHANGED faultVars
     \/ outcome = "ok" /\ Faulty /\ Serial /\ Escapes
     \/ outcome = "ok" /\ Faulty /\ ~Serial /\ Done /\ noted' = TRUE /\ interrupted' = TRUE
  /\ UNCHANGED <<item, outcome, effects, body, severed, guards, records, rollback>>

\* No code of the caller runs here: an interrupt is a Ctrl-C on the calling thread.
FsyncDest ==
  /\ At("fsync")
  /\ \/ /\ Done /\ UNCHANGED <<outcome, faultVars>>
        /\ dest' = IF outcome = "ok" THEN "durable" ELSE dest
     \/ outcome = "ok" /\ Faulty /\ StoreFailure /\ Done /\ UNCHANGED dest
     \/ outcome = "ok" /\ Faulty /\ Serial /\ Escapes /\ UNCHANGED <<outcome, dest>>
  /\ UNCHANGED <<item, source, handle, body, severed, guards, records, rollback>>

\* The tags are written; if that fails the destination is deleted and the item fails.
\* A delete that raises escapes: an Exception is dropped with the outcome left as it was.
SetTags ==
  /\ At("tags")
  /\ \/ Done /\ UNCHANGED <<outcome, dest, rollback, faultVars>>
     \/ /\ outcome = "ok" /\ Faulty
        /\ \/ /\ dest' = "deleted" /\ rollback' = "done" /\ Done /\ StoreFailure
           \/ /\ dest' \in {dest, "deleted"} /\ rollback' = "raised" /\ UNCHANGED outcome
              /\ \/ Done /\ UNCHANGED <<noted, interrupted>>
                 \/ Escapes
           \/ Escapes /\ UNCHANGED <<outcome, dest, rollback>>
  /\ UNCHANGED <<item, source, handle, body, severed, guards, records>>

\* Reads that were deferred, then the writes; any failure fails the item, which keeps
\* its destination.
SetAnnotations ==
  /\ At("annotate")
  /\ \/ Done /\ UNCHANGED <<outcome, faultVars>>
     \/ outcome = "ok" /\ Faulty /\ StoreFailure /\ Done
     \/ outcome = "ok" /\ Faulty /\ Escapes /\ UNCHANGED outcome
  /\ UNCHANGED <<item, effects, body, severed, guards, records, rollback>>

DeleteSource ==
  /\ At("delete") /\ Done /\ deleteRan' = TRUE
  /\ \/ (deleteRan \/ outcome # "ok") /\ UNCHANGED <<source, outcome, faultVars>>
     \/ /\ ~deleteRan /\ outcome = "ok"
        /\ \/ source' = FALSE /\ UNCHANGED <<outcome, faultVars>>
           \/ Faulty /\ source' \in BOOLEAN /\ (StoreFailure \/ StoreInterrupt)
  /\ UNCHANGED <<item, dest, handle, body, severed, settled, records, rollback>>

\* How _record_failure classifies the outcome; a failure without a response is lost.
Report == CASE outcome = "ok" -> {"SUCCEEDED"}
            [] outcome = "failed" -> {"FAILED", "SKIPPED", "lost"}
            [] OTHER -> {"CANCELLED"}

CompleteAgain ==
  /\ At("complete") /\ settled' = TRUE
  /\ \/ \E r \in Report :
          /\ records' = Append(records, r)
          /\ \/ Done /\ UNCHANGED <<interrupted, faults>>
                     /\ noted' = (noted \/ outcome = "interrupt")
             \/ r # "lost" /\ Faulty /\ Serial /\ Escapes
             \/ r # "lost" /\ Faulty /\ ~Serial /\ Done /\ noted' = TRUE /\ interrupted' = TRUE
  /\ UNCHANGED <<item, outcome, effects, body, severed, deleteRan, rollback>>

\* _Completion: once per item.  The callback may raise: on the calling thread a
\* BaseException leaves the list, on any other thread it is only noted.
Complete ==
  /\ At("complete") /\ settled' = TRUE
  /\ \/ settled /\ Done /\ UNCHANGED <<records, faultVars>>
     \/ /\ ~settled
        /\ \E r \in Report :
             /\ records' = Append(records, r)
             /\ \/ Done /\ UNCHANGED <<interrupted, faults>>
                        /\ noted' = (noted \/ outcome = "interrupt")
                \/ r # "lost" /\ Faulty /\ Serial /\ Escapes
                \/ r # "lost" /\ Faulty /\ ~Serial /\ Done /\ noted' = TRUE /\ interrupted' = TRUE
  /\ UNCHANGED <<item, outcome, effects, body, severed, deleteRan, rollback>>

\* Under use_threads=False the submission task still unwinds; an interrupt there is
\* noted by the hook (_noting), and the announcement it causes finds no callbacks left.
AnnouncementEnds ==
  /\ pc = "announce" /\ todo = << >>
  /\ pc' = (IF Serial THEN "unwind" ELSE "over")
  /\ UNCHANGED <<item, todo, again, outcome, effects, body, severed, guards, records, rollback, faultVars>>

UnwindUnnoted ==
  /\ pc = "unwind" /\ pc' = "over"
  /\ \/ UNCHANGED faultVars
     \/ Faulty /\ interrupted' = TRUE /\ UNCHANGED noted
  /\ UNCHANGED <<item, todo, again, outcome, effects, body, severed, guards, records, rollback>>

Unwind ==
  /\ pc = "unwind" /\ pc' = "over"
  /\ \/ UNCHANGED faultVars
     \/ Faulty /\ interrupted' = TRUE /\ noted' = TRUE
  /\ UNCHANGED <<item, todo, again, outcome, effects, body, severed, guards, records, rollback>>

Finished == pc \in {"over", "stalled"} /\ UNCHANGED vars

Next == \/ BodyMoves \/ BodyLands \/ BodyFails \/ BodyInterrupted \/ Rename
        \/ SubmitInterrupted \/ SingleCall
        \/ CloseFileobj \/ StampMtime \/ FsyncDest \/ SetTags \/ SetAnnotations
        \/ DeleteSource \/ Complete \/ AnnouncementEnds \/ Unwind \/ Finished

Spec == Init /\ [][Next]_vars

-----------------------------------------------------------------------------
(* Properties.                                                             *)

\* The types; and an item is reported at most once, however often it is announced.
TypeOK ==
  /\ GetFileTypeOK /\ item \in Items
  /\ pc \in {"body", "rename", "announce", "unwind", "single", "over", "stalled"}
  /\ \E k \in 1 .. Len(Chain) + 1 : todo = SubSeq(Chain, k, Len(Chain))
  /\ outcome \in {"ok", "failed", "revoked", "interrupt"}
  /\ dest \in {"old", "whole", "durable", "torn", "deleted"}
  /\ handle \in {"open", "committed", "discarded"} /\ rollback \in {"none", "done", "raised"}
  /\ records \in {<< >>} \cup {<<r>> : r \in {"SUCCEEDED", "FAILED", "SKIPPED", "CANCELLED", "lost"}}
  /\ settled = (records # << >>)
  /\ {again, source, severed, deleteRan, noted, interrupted} \subseteq BOOLEAN

Held == dest \in {"whole", "durable"}

\* The source of a move is deleted only once its bytes are at the destination, and they
\* stay there, through failures, interrupts and a second announcement ("The source is
\* deleted only after that item's own transfer has succeeded", docs .../mv.md:60).  A
\* tagging rollback is the exception the docstring of _SetTags describes; a handle an
\* interrupted submit closed under the worker is one the code leaves open.
MoveKeepsData == ~source /\ rollback = "none" /\ ~severed => Held

\* A crash at any moment finds one whole version of a file: with LocalStorage(fsync=True)
\* a moved source goes only after its copy was flushed (docstring of _FsyncDest), and
\* get_file never has the destination torn.
SurvivesCrash == (item.fsync /\ ~source => dest = "durable") /\ ReplacedWhole

\* An item reported SUCCEEDED is at its destination byte for byte, through cut and
\* repeated bodies; its handle was committed and, for a move, its source is gone, also
\* when an interrupt cut the delete or the commit.
RecordIsTrue ==
  records = <<"SUCCEEDED">> /\ rollback = "none" /\ ~severed
    => Held /\ handle = "committed" /\ (item.move => ~source)

\* No BaseException is swallowed ("that interrupt is then raised to the caller",
\* docs/reference/results.md:273): by the time the item is over it was noted for the
\* caller, also where awscrt had stored it or _GuardedReader hid it from awscrt, and only
\* one may take the item's record with it (_SerialExecutor, _deliver).  An item stalls
\* the CRT engine in one case only: the handle of an item that failed raised from its
\* discard, on an awscrt thread, where nothing guards it (docstring of _deliver).
InterruptSurfaces ==
  /\ pc = "over" => (interrupted => noted) /\ (records = << >> => interrupted)
  /\ pc = "stalled" => /\ item.runs = "crt" /\ item.handle /\ outcome # "ok"
                       /\ source /\ records = << >> /\ interrupted

\* A copy whose tagging failed and was rolled back keeps its source ("A failed transfer
\* leaves the source untouched", docstring of _DeleteSource).
RolledBackKeepsSource == rollback = "done" => source
=============================================================================
