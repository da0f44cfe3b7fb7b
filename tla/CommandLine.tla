---------------------------- MODULE CommandLine ----------------------------
(***************************************************************************)
(* One invocation of the command line (src/cli/src/boto3_s3_cli): main,    *)
(* the driver, the globals, the alias layers, the auto-prompt with its     *)
(* trial run, the checks of each command in their order, and the command   *)
(* itself - the delete of one key is RmSingle, cp, mv and sync run under   *)
(* TransferPrinter - down to the exit code.  Or a library call of rm.      *)
(*                                                                         *)
(* Abstraction.  The checks are the gates of CommandGates: what an         *)
(* invocation is refused for is chosen, so are the options that make a     *)
(* gate apply.  Recursive deletes and the library's calls of one request   *)
(* are one step each.  Messages, parsers and values are left out; a report *)
(* the stream's codec cannot represent is not.                             *)
(***************************************************************************)
EXTENDS CommandGates, RmSingle, TransferPrinter, SequencesExt

CONSTANTS
  MaxExpansions,             \* bound: alias values expanded before the stack runs out
  Commands                   \* the commands invoked, out of Surface

ASSUME CommandLineAssumption == Commands \subseteq Surface /\ MaxExpansions \in Nat

VARIABLES
  stage,                     \* where the invocation is; "exit" once it is over
  todo,                      \* the gates still ahead at this stage
  command,                   \* the command resolved, its operation once it runs
  trial,                     \* an on-partial run, its usage errors silenced
  expansions,                \* alias values expanded so far
  sent,                      \* a change was sent to the service, in the trial or after:
                             \* "no", "handled" if a plugin's handler failed behind it, "yes"
  outcome,                   \* how the run ended, one of Ends
  cancelled,                 \* the user left the prompt
  rc                         \* the exit code; "raised" past main, "none" before

placeVars == <<stage, todo, command, trial, expansions>>
resultOfRun == <<sent, outcome, cancelled, rc>>
vars == <<placeVars, resultOfRun, rmVars, printerVars, interrupts>>

-----------------------------------------------------------------------------
(* Ways through and ways out.                                              *)

Init ==
  /\ InterruptsInit /\ RmInit /\ PrinterInit
  /\ \/ stage = "startup" /\ todo = Startup
     \/ stage = "library" /\ todo = << >>
  /\ command = "none" /\ trial = FALSE /\ expansions = 0
  /\ sent = "no" /\ outcome = "none" /\ cancelled = FALSE /\ rc = "none"

Goes(to, gates) == stage' = to /\ todo' = gates

Elsewhere == UNCHANGED <<rmVars, printerVars>>

\* "none": refused at a gate, "shell": by an external alias, "unsent": failed before a
\* change was sent, "read": done and changes nothing, "done" and "failed": sent,
\* "handled": sent and answered, and a plugin's handler of the answer failed.  An answer
\* of the service was the failure: "answered" to a read, "rejected" to the change.
Ends == {"none", "shell", "unsent", "read", "done", "failed", "handled", "answered", "rejected"}

\* How a run ends that a failure ends.
EndedBy(failure, end) ==
  IF ~failure.server THEN end ELSE IF end = "failed" THEN "rejected" ELSE "answered"

\* An exit code on its way through main.  In a trial a usage error is silent and the
\* prompt follows.
Leave(code, end) ==
  /\ outcome' = end
  /\ sent' = CASE end \in {"done", "failed", "rejected"} -> "yes"
               [] end = "handled" /\ sent = "no" -> "handled"
               [] OTHER -> sent
  /\ IF trial /\ code = "252"
     THEN /\ Goes("fallback", << >>) /\ trial' = FALSE /\ command' = "none"
          /\ expansions' = 0 /\ UNCHANGED <<cancelled, rc>>
     ELSE /\ Goes("exit", << >>) /\ rc' = code
          /\ UNCHANGED <<command, trial, expansions, cancelled>>

\* A report the codec cannot represent is reported instead, at 255; a stream that takes
\* neither lets the error out.
Codes(failure) ==
  LET code == ExitCodeFor(failure) IN
  IF code = "0" \/ (trial /\ code = "252") THEN {code} ELSE {code, "255", "raised"}

Passes ==
  /\ stage # "exit" /\ todo # << >> /\ todo' = Tail(todo)
  /\ UNCHANGED <<stage, command, trial, expansions, resultOfRun, interrupts>>
  /\ Elsewhere

Refused ==
  /\ stage # "exit" /\ todo # << >>
  /\ \E failure \in Head(todo).failures : \E code \in Codes(failure) :
       Leave(code, EndedBy(failure, "none"))
  /\ UNCHANGED interrupts /\ Elsewhere

\* main's Ctrl-C: 130, outside the spans that turn it into something else.
Interrupted ==
  /\ stage \notin {"library", "transfer", "rm", "exit"} /\ CtrlC
  /\ Goes("exit", << >>) /\ rc' = "130"
  /\ UNCHANGED <<command, trial, expansions, sent, outcome, cancelled>>
  /\ Elsewhere

Onward(at_, to, gates) ==
  /\ stage = at_ /\ todo = << >> /\ Goes(to, gates)
  /\ UNCHANGED <<resultOfRun, interrupts>>
  /\ Elsewhere

-----------------------------------------------------------------------------
(* The prompt and the trial.                                               *)

\* The mode: on asks first, on-partial tries first - without a prompter it is an
\* ordinary run, like off.
ModeResolved ==
  /\ \/ Onward("startup", "prompt", << >>) /\ UNCHANGED trial
     \/ Onward("startup", "top", TopLevel) /\ trial' \in BOOLEAN
  /\ UNCHANGED <<command, expansions>>

\* The answer is dispatched once; so is what was typed if the prompt was only configured
\* and prompt_toolkit is not installed.  After the trial the driver is built again.
Prompted ==
  /\ \/ Onward("prompt", "top", TopLevel)
     \/ Onward("fallback", "rebuild", Driver)
     \/ Onward("rebuild", "top", TopLevel)
  /\ UNCHANGED <<command, trial, expansions>>

\* Asked for and not installed, left by Ctrl-C or end of file, or broken.
PromptEnds ==
  /\ stage \in {"prompt", "fallback"} /\ Goes("exit", << >>)
  /\ \/ stage = "prompt" /\ rc' = "252" /\ UNCHANGED cancelled
     \/ rc' = "130" /\ cancelled' = TRUE
     \/ rc' = "255" /\ UNCHANGED cancelled
  /\ UNCHANGED <<command, trial, expansions, sent, outcome, interrupts>>
  /\ Elsewhere

-----------------------------------------------------------------------------
(* The alias layers.                                                       *)

\* _run_toplevel_command, then _resolve_command; an alias value leads to either again.
Unaliased ==
  /\ \/ Onward("top", "layer", << >>)
     \/ Onward("layer", "resolve", << >>)
     \/ Onward("value", "layer", << >>)
     \/ Onward("value", "resolve", << >>)
  /\ UNCHANGED <<command, trial, expansions>>

\* An internal alias; one that expands to itself runs out of stack.
Expands ==
  /\ stage \in {"layer", "resolve"} /\ todo = << >>
  /\ IF expansions < MaxExpansions
     THEN /\ Goes("value", AliasValue) /\ expansions' = expansions + 1
          /\ UNCHANGED <<command, trial, resultOfRun>>
     ELSE Leave("255", "none")
  /\ UNCHANGED interrupts /\ Elsewhere

\* An external alias: the shell's status is the run's, whatever it is.
ShellRuns ==
  /\ stage \in {"layer", "resolve"} /\ todo = << >>
  /\ \E status \in {"0", "1", "252"} : Leave(status, "shell")
  /\ UNCHANGED interrupts /\ Elsewhere

\* The help token, a missing or an unknown command.
NoCommand ==
  /\ stage = "resolve" /\ todo = << >>
  /\ \E failure \in {Shows, Usage} : \E code \in Codes(failure) : Leave(code, "none")
  /\ UNCHANGED interrupts /\ Elsewhere

\* The table, or an alias that shadows its entry.
Resolves ==
  /\ Onward("resolve", "leaf", Leaf) \/ Onward("value", "leaf", Leaf)
  /\ command' \in Commands /\ expansions' = 0 /\ UNCHANGED trial

\* Past their gates cp, mv and sync are one: finish_transfer around a call.
Operation(name) == IF name \in {"cp", "mv", "sync"} THEN "transfer" ELSE name

Runs ==
  /\ stage = "leaf" /\ Onward("leaf", "gates", GatesOf[command])
  /\ command' = Operation(command) /\ UNCHANGED <<trial, expansions>>

-----------------------------------------------------------------------------
(* The commands, past their gates.                                         *)

Span(to) ==
  /\ stage = "gates" /\ todo = << >> /\ Goes(to, << >>)
  /\ UNCHANGED <<command, trial, expansions, resultOfRun>>

\* From here on no code is 252: that it is a trial no longer matters.
TransferStarts ==
  /\ command = "transfer" /\ stage = "gates" /\ todo = << >>
  /\ Goes("transfer", << >>) /\ trial' = FALSE /\ PrinterStarts
  /\ UNCHANGED <<command, expansions, resultOfRun, rmVars>>

\* finish_transfer, once the printer is done.  A Ctrl-C of the drain is main's.
TransferEnds ==
  /\ stage = "transfer" /\ fin = "over"
  /\ LET code == CASE finEnd = "interrupt" -> "130"
                   [] finEnd = "ok" /\ run = "ok" -> IF warned > 0 THEN "2" ELSE "0"
                   [] finEnd = "ok" /\ run = "bug" -> "raised"
                   [] OTHER -> "1"
     IN  Leave(code, IF run = "ok" THEN "done" ELSE "failed")
  /\ UNCHANGED interrupts /\ Elsewhere

\* rm of a key, by the command line or by the library.
RmStarts ==
  /\ command = "rm" /\ Span("rm") /\ RmCalled({"none"}) /\ UNCHANGED printerVars

LibraryCalls ==
  /\ stage = "library" /\ Goes("rm", << >>) /\ RmCalled({"none", "live"})
  /\ UNCHANGED <<command, trial, expansions, resultOfRun, printerVars>>

\* What ends a delete, Ctrl-C included, ends the command at 1, and AssertionError passes.
SpanCode(end) == CASE end = "ok" -> "0" [] end = "bug" -> "raised" [] OTHER -> "1"

RmEnds ==
  /\ stage = "rm" /\ rm = "over"
  /\ Leave(IF command = "rm" THEN SpanCode(rmEnd)
           ELSE IF rmEnd = "ok" THEN "returned" ELSE "raised",
           CASE request = "none" -> IF rmEnd = "ok" THEN "read" ELSE "unsent"
             [] OTHER -> IF rmEnd = "ok" THEN "done" ELSE "failed")
  /\ UNCHANGED interrupts /\ Elsewhere

\* rm --recursive, on its own or inside rb --force, fails with a key, or altogether, or is
\* interrupted; the forms without a bucket fail before a request.
SweepFailures == {"batch", "error", "interrupt", "bug"}

SweepFails(codes) ==
  \/ \E end \in SweepFailures :
       /\ Leave(codes[end], "failed")
       /\ IF end = "interrupt" THEN CtrlC ELSE UNCHANGED interrupts
  \/ Leave(codes["error"], "unsent") /\ UNCHANGED interrupts

RmSweeps ==
  /\ command = "rm" /\ stage = "gates" /\ todo = << >>
  /\ \/ \E end \in {"done", "read"} : Leave("0", end) /\ UNCHANGED interrupts
     \/ SweepFails([end \in SweepFailures |-> SpanCode(end)])
  /\ Elsewhere

\* Anything but 0 from the inner rm ends rb at 255, before its own request; an exception
\* of the inner rm's gates is reported as it is.
ForceCode(end) == IF end = "bug" THEN "raised" ELSE ExitCodeFor(Value)

ForceSweeps ==
  /\ command = "rb" /\ stage = "gates" /\ todo = << >>
  /\ \/ SweepFails([end \in SweepFailures |-> ForceCode(end)])
     \/ /\ \E gate \in ToSet(Engine) : \E failure \in gate.failures :
             \E code \in Codes(failure) : Leave(code, EndedBy(failure, "none"))
        /\ UNCHANGED interrupts
     \/ /\ Goes("op", << >>) /\ sent' = "yes"
        /\ UNCHANGED <<command, trial, expansions, outcome, cancelled, rc, interrupts>>
  /\ Elsewhere

OpStarts ==
  /\ command \in {"rb", "mb", "ls", "presign", "website"} /\ Span("op")
  /\ UNCHANGED interrupts /\ Elsewhere

Raises(failures, end) ==
  \E failure \in failures : \E code \in Codes(failure) : Leave(code, EndedBy(failure, end))

\* What a plugin's handler of a botocore event raises is raised by the request itself, and
\* translated like it: ParamValidationError is a usage error also behind the answer.
HandlerFails == {Usage, Config, Unusable, General}

\* The library's calls of one request: what each may raise before a change is sent, and
\* after.  First the target is resolved, and the S3 Express floor required.
Target == {Usage, Config}
Single(before) ==
  [unsent |-> before \cup HandlerFails, failed |-> {General} \cup Rejections,
   handled |-> HandlerFails]
MbCall == Single(Target)
RbCall == Single(Target)
WebsiteCall == Single(Target)
LsCall == [unsent |-> Target \cup HandlerFails \cup Rejections]
\* Signing takes no request, but its credentials may; a refused expiry is converted.
PresignCall == [unsent |-> Target \cup {Unusable, General} \cup Rejections]

\* rb and mb catch what the call raises, and what their success line raises.
BucketOp ==
  /\ stage = "op" /\ command \in {"rb", "mb"}
  /\ LET call == IF command = "rb" THEN RbCall ELSE MbCall IN
     \/ \E code \in {"0", "1"} : Leave(code, "done")
     \/ \E end \in DOMAIN call : \E failure \in call[end] : Leave("1", EndedBy(failure, end))
  /\ UNCHANGED interrupts /\ Elsewhere

\* ls ends at 1 when a key was asked for and nothing matched.
ListOp ==
  /\ stage = "op" /\ command = "ls"
  /\ (\E code \in {"0", "1"} : Leave(code, "read")) \/ Raises(LsCall.unsent, "unsent")
  /\ UNCHANGED interrupts /\ Elsewhere

PresignOp ==
  /\ stage = "op" /\ command = "presign"
  /\ Leave("0", "read") \/ Raises(PresignCall.unsent, "unsent")
  /\ UNCHANGED interrupts /\ Elsewhere

WebsiteOp ==
  /\ stage = "op" /\ command = "website"
  /\ \/ Leave("0", "done")
     \/ \E end \in DOMAIN WebsiteCall : Raises(WebsiteCall[end], end)
  /\ UNCHANGED interrupts /\ Elsewhere

-----------------------------------------------------------------------------
Layers ==
  \/ ModeResolved \/ Prompted \/ PromptEnds
  \/ Unaliased \/ Expands \/ ShellRuns \/ NoCommand \/ Resolves \/ Runs
Operations ==
  \/ TransferStarts \/ TransferEnds \/ RmStarts \/ LibraryCalls \/ RmEnds \/ RmSweeps
  \/ ForceSweeps \/ OpStarts \/ BucketOp \/ ListOp \/ PresignOp \/ WebsiteOp
OutsidePrinter == UNCHANGED <<placeVars, resultOfRun, rmVars>>
OutsideRm == UNCHANGED <<placeVars, resultOfRun, printerVars>>

RunEnds == RunReturns \/ RunRaises

\* Past the end the threads may still go on; a stalled stream may hold up everything.
Next ==
  \/ Passes \/ Refused \/ Interrupted \/ Layers \/ Operations
  \/ (RmWorker \/ RmCaller \/ RmDisturbed) /\ OutsideRm
  \/ (WorkerSteps \/ PrinterThread \/ Finish \/ MarkerPut \/ RunEnds \/ PrinterDisturbed)
       /\ OutsidePrinter
  \/ (stage = "exit" \/ stalled) /\ UNCHANGED vars

\* Every thread goes on, the prompt is answered or left, requests and scans end; nobody
\* has to report a result, press Ctrl-C or stall a stream.
Spec ==
  /\ Init /\ [][Next]_vars
  /\ WF_vars(Passes \/ Refused \/ Layers \/ Operations)
  /\ WF_vars(RmWorker /\ OutsideRm) /\ WF_vars(RmCaller /\ OutsideRm)
  /\ \A w \in Workers : WF_vars((CheckFinished(w) \/ Put(w)) /\ OutsidePrinter)
  /\ WF_vars(PrinterThread /\ OutsidePrinter) /\ WF_vars(MarkerPut /\ OutsidePrinter)
  /\ WF_vars(Finish /\ OutsidePrinter) /\ WF_vars(RunEnds /\ OutsidePrinter)

-----------------------------------------------------------------------------
(* Properties.                                                             *)

TypeOK ==
  /\ RmTypeOK /\ PrinterTypeOK /\ interrupts \in 0 .. MaxInterrupts
  /\ stage \in {"startup", "library", "top", "layer", "value", "resolve", "leaf", "gates",
                "prompt", "fallback", "rebuild", "transfer", "rm", "op", "exit"}
  /\ command \in Commands \cup {"none", "transfer"} /\ outcome \in Ends
  /\ {trial, cancelled} \subseteq BOOLEAN /\ sent \in {"no", "handled", "yes"}
  /\ expansions \in 0 .. MaxExpansions
  /\ stage = "exit" <=> rc # "none"

\* The exit code is what happened: 0 only if everything asked for was done and nothing
\* failed, was warned about or interrupted; 2 only for warnings; 254 only if an answer of
\* the service was the failure; 130 only for a Ctrl-C or a prompt the user left; 252 only
\* if no change was sent, or if a plugin's handler failed behind the one that was.  So the
\* prompt of on-partial follows no other change: "running it silenced and then again would
\* repeat whatever it did before its 252 - an external alias's command, a request a plugin
\* handler failed after" (cli.py:998-1000) leaves out none.
ExitCodeTrue ==
  /\ stage \in {"prompt", "fallback", "rebuild"} \/ rc = "252" => sent # "yes"
  /\ stage = "exit" /\ outcome # "shell" =>
       /\ rc \in {"0", "returned"} =>
            /\ outcome \in {"none", "read", "done"} /\ run \in {"off", "ok"}
            /\ warned = 0 /\ failed = 0 /\ held = 0 /\ finEnd # "interrupt"
            /\ request \in {"none", "ok", "lost"}
       /\ rc = "2" => run = "ok" /\ failed = 0 /\ warned > 0
       /\ rc = "254" => outcome \in {"answered", "rejected"}
       /\ rc = "130" => interrupts > 0 \/ cancelled

\* What is on the screen is what happened: LinesAreOut of the transfers, DeleteIsReported
\* and HeldIsRaised of the delete of one key.
ReportsAreTrue == LinesAreOut /\ DeleteIsReported /\ HeldIsRaised

\* The invocation ends, unless the terminal takes nothing any more; and no worker of a
\* run that died stays blocked on the printer's queue, where it "would then deadlock the
\* prefetch join at generator close" (progress.py:280-281).
CommandEnds ==
  /\ <>(stage = "exit" \/ stalled)
  /\ \A w \in Workers :
       at[w] = "putting" ~> at[w] = "idle" \/ stalled \/ finEnd = "interrupt"
=============================================================================
