---------------------------- MODULE CommandGates ----------------------------
(***************************************************************************)
(* The checks an invocation of the command line passes before a command    *)
(* runs (src/cli/src/boto3_s3_cli), in their order, the failures of each,  *)
(* and the exit code a failure is given.                                   *)
(*                                                                         *)
(* Abstraction.  A check is a gate: a name, and the failures it may end    *)
(* the invocation with.  A failure is its class and whether a response of  *)
(* the service caused it.  What is checked, and how it is worded, is left  *)
(* out.                                                                    *)
(***************************************************************************)
EXTENDS Sequences

Surface == {"cp", "mv", "sync", "rm", "rb", "mb", "ls", "presign", "website"}

-----------------------------------------------------------------------------
(* Failures and exit codes.                                                *)

Err(class) == [class |-> class, server |-> FALSE]

\* s3_errors and s3control's: any category, the ClientError its cause.
Rejections ==
  [class : {"ValidationError", "NotFoundError", "ConfigurationError"}, server : {TRUE}]

Usage == Err("ValidationError")
Value == Err("InvalidValueError")
Unusable == Err("InvalidConfigError")
Config == Err("ConfigurationError")
General == Err("NotFoundError")

\* What argparse ends with by itself.
Shows == Err("shown")

ExitCodeForCategory(failure) ==
  CASE failure.class \in {"InvalidValueError", "InvalidConfigError"} -> "255"
    [] failure.class = "ValidationError" -> "252"
    [] failure.class = "ConfigurationError" -> "253"
    [] failure.class = "shown" -> "0"
    [] OTHER -> "255"

\* exit_code_for, _exit_code_for_unexpected: a response of the service comes first.
ExitCodeFor(failure) ==
  IF failure.server THEN "254"
  ELSE CASE failure.class \in {"InvalidValueError", "InvalidConfigError"} -> "255"
         [] failure.class = "ValidationError" -> "252"
         [] failure.class = "ConfigurationError" -> "253"
         [] failure.class = "shown" -> "0"
         [] OTHER -> "255"

-----------------------------------------------------------------------------
(* Before a command is known.                                              *)

Gate(name, failures) == [name |-> name, failures |-> failures]

FirstPass == Gate("first pass", {Usage})
ConfigFile == Gate("config file", {General})
Plugins == Gate("plugins", {Usage, General})
BothFlags == Gate("both flags", {Usage})
Mode == Gate("mode", {General})

Driver == <<ConfigFile, Plugins>>
Startup == <<FirstPass>> \o Driver \o <<BothFlags, Mode>>

Query == Gate("query", {Usage})
Endpoint == Gate("endpoint", {Usage, General})
Timeouts == Gate("timeouts", {Value})
Globals == <<Query, Endpoint, Timeouts>>

AliasFile == Gate("alias file", {Unusable})
GlobalsParse == Gate("globals parse", {Usage, Shows})
OutputEncoding == Gate("output encoding", {General})
TimestampFormat == Gate("timestamp format", {Config})
BinaryFormat == Gate("binary format", {General})
CredentialChain == Gate("credential chain", {Config, General})

TopLevel ==
  <<AliasFile, GlobalsParse>> \o Globals \o
  <<OutputEncoding, TimestampFormat, BinaryFormat, CredentialChain>>

AliasSplit == Gate("split", {Unusable})
AliasParse == Gate("alias parse", {Usage, Shows})
RefusedGlobals == Gate("refused globals", {Unusable})
AliasValue == <<AliasSplit, AliasParse, RefusedGlobals>> \o Globals

AliasSection == Gate("alias section", {General})
Help == Gate("help", {Shows})
Parse == Gate("parse", {Usage, Shows})
Leaf == <<AliasSection, Help, Parse>>

-----------------------------------------------------------------------------
(* Of a command.                                                           *)

\* Every command resolves these two again, for an alias may have replaced them.
HeadChecks == <<Query, Endpoint>>

\* A parameter file that cannot be loaded is its argument's parse error; int() and the
\* shorthand and JSON parsers each have a report of their own.
Unreadable == {Usage}
NotAnInteger == {Value}
BadMap == {Usage}

Positional == Gate("positional paramfile", Unreadable)
OptionFile == Gate("option paramfile", Unreadable)
IntegerFile == Gate("integer paramfile", Unreadable)
Integer == Gate("integer option", NotAnInteger)

UnknownOptions == Gate("unknown options", {Usage})
Session == Gate("session", {Unusable})
\* No region or credentials; a mode, an endpoint or a bundle the client cannot have.
BuildFails == {Config, Unusable}
ClientFails == {Unusable, General}
Client == Gate("client", BuildFails \cup ClientFails)
Bound == <<UnknownOptions, Session, Client>>

Options == Gate("options", Unreadable \cup NotAnInteger)
Metadata == Gate("metadata", Unreadable \cup {Value} \cup BadMap)
BothLocal == Gate("both local", {Usage})
RefusedArn == Gate("refused arn", {Usage})

\* classify_paths.
Classify ==
  HeadChecks \o <<Options, Metadata, OptionFile>> \o Bound \o <<BothLocal, RefusedArn>>

Stream == Gate("stream", {Usage})
\* S3PathResolver: an unresolvable path, or a lookup that fails, on clients of its own.
Lookup == {Usage, Config, General} \cup Rejections
ServiceClient == BuildFails \cup ClientFails
SamePaths == Gate("same paths", {Usage} \cup Lookup \cup ServiceClient)
Checksum == Gate("checksum pairing", {Usage})
SourceExists == Gate("source", {General})
Directory == Gate("directory", {General})
SseC == Gate("sse-c pairing", {Usage})
NoOverwrite == Gate("no-overwrite", {Usage})
DirectoryBucket == Gate("directory bucket", {Usage})
Locations == Gate("locations", {Usage} \cup BuildFails \cup ClientFails)
\* A value of [s3] may also raise int()'s own error; crt may not be there.
RuntimeValues == {Unusable, General}
EngineChoice == {Config}
ScopedConfig == Gate("[s3] config", RuntimeValues \cup EngineChoice)
TransferEngine == Gate("engine", {Unusable, Config})
Engine == <<ScopedConfig, TransferEngine>>
CaseConflict == Gate("case conflict", {Usage})
Bytes == Gate("bytes", {General})
NotS3 == Gate("not s3", {Usage})

CpGates ==
  Classify \o <<Stream, Checksum, SourceExists, Directory, SseC, NoOverwrite, Locations>>
    \o Engine \o <<CaseConflict>>
MvGates ==
  Classify \o <<Stream, SamePaths, Checksum, SourceExists, Directory, SseC, NoOverwrite,
               Locations>> \o Engine \o <<CaseConflict>>
SyncGates ==
  Classify \o <<Stream, Checksum, SourceExists, Directory, SseC, DirectoryBucket,
               CaseConflict, Locations>> \o Engine
RmGates ==
  HeadChecks \o <<Positional, IntegerFile, Integer>> \o Bound \o <<Bytes, NotS3, RefusedArn>>
    \o Engine
RbGates ==
  HeadChecks \o <<Positional>> \o Bound \o <<NotS3, Gate("key", {Usage}), RefusedArn>>
MbGates == HeadChecks \o <<Positional>> \o Bound \o <<NotS3, RefusedArn, DirectoryBucket>>
LsGates ==
  HeadChecks \o <<Positional, IntegerFile, Integer, OptionFile>> \o Bound
    \o <<Bytes, RefusedArn>>
PresignGates == HeadChecks \o <<Positional, IntegerFile, Integer>> \o Bound \o <<RefusedArn>>
WebsiteGates ==
  HeadChecks \o <<Positional, OptionFile>> \o Bound
    \o <<Bytes, RefusedArn, Gate("bucket name", {Usage})>>

GatesOf ==
  [cp |-> CpGates, mv |-> MvGates, sync |-> SyncGates, rm |-> RmGates, rb |-> RbGates,
   mb |-> MbGates, ls |-> LsGates, presign |-> PresignGates, website |-> WebsiteGates]
=============================================================================
