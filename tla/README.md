# A TLA+ model of boto3-s3

boto3-s3 is a library that gives Python programs the behaviour of the `aws s3`
commands (`cp`, `mv`, `sync`, `rm`, `ls`, ...), and a command line on top of it.
The modules here model the parts of it whose correctness depends on *when* things
happen: threads, cancellation, interrupts, callbacks that raise, engines that
settle work on their own threads, a file system that changes while it is read, and
the order in which the command line refuses, runs and reports. TLC checks each
model on a small instance, TLAPS proves theorems about most of them for every
instance.

Paths below are relative to the repository; `boto3_s3/` stands for
`src/boto3_s3/` and `cli/` for `cli/src/boto3_s3_cli/`.

## 1. The system

### How a run works

A recursive operation is a pipeline. A storage backend **scans** pages on a
prefetch worker; **producers** turn entries into transfer items, for `sync` by
**merging** two ordered scans; the **submission loop** of the operation polls the
cancel token, pulls the next item and hands it to the **Transferrer**, which gives
it to an **s3transfer manager** (classic threads, or the AWS CRT). When an item
settles, the manager runs its **done subscribers** on whatever thread settled it:
close the stream, stamp the time, delete the source of a move, record the outcome.
Deletes of `rm` and of the delete lane of `sync` go to the **S3Deleter**, which
batches them on a worker of its own. Records reach the application through
`on_result`; the CLI's **printer** queues them for a thread that writes them. A
**CancelToken** may be escalated from any thread at any time, and a Ctrl-C lands
on the main thread wherever that thread is.

### Components

| component | state | operations | what is hard | what makes it correct |
|---|---|---|---|---|
| scan prefetch, `boto3_s3/concurrency.py` | bounded queue, stop event, error list, process-wide interrupt mark | pull, put, get, drain, join | flag tests and queue operations are separate steps; blocked put against blocked get; interrupts in the teardown | the consumer sees the source's pages in order and its error last, is always answered, and the worker does not outlive the context |
| cancel token, `boto3_s3/types.py` | two monotone flags | `cancel`, `cancelled`, `mode` | read at many points while it escalates | never downgraded; every reader copes with a change between two reads |
| batch deleter, `boto3_s3/deleter.py` | buffer, batch in flight, abandoned flag, per-batch errors and losses | `submit`, `flush`, `close`, batch worker, re-send pool | the batch is awaited after its reference is cleared; ambiguous answers; re-sends racing abandonment; callbacks that raise | no false success; one record per entry, in order; every entry accounted for; worker errors reported once; every call returns |
| transfer engine, `boto3_s3/transfer.py` | tracked futures, owed exception, cancel flag, rollup, watcher thread | `submit`, track and forget, done subscribers, watcher, `__exit__` | completion against cancel against tracking; exceptions on threads that cannot raise; two engines with different cancels | a move loses nothing; cancels reach everything or nothing as their mode says; outcomes are classified right; a normal return means all is done |
| operations, `boto3_s3/s3.py` | the loop's position, pooled decisions, held interrupts | `_run_transfer`, `_run_sync_pairs`, `_send_through_interrupt`, the delete lane | decisions on pools, out of order, failing, cancelled; three-interrupt protocol of a single `rm` | each accepted pair acted on once; no decision outlives the run; one outcome per request |
| producers, `boto3_s3/producers.py` | case-conflict in-flight set, destination merge, deferred handles | list, gate, admit, clean up, open on first use, close, discard | the set shrinks on worker threads; a delete lane beside downloads; handles closed by two parties | downloaded bytes stay; every entry has one fate; a failed item commits nothing |
| merge comparator and strategies, `boto3_s3/comparator.py`, `etagcompare.py`, `checksumcompare.py` | two cursors | `compare`, decisions | inputs that are not sorted, or that break | a sorted merge pairs exactly the common keys |
| S3 storage, `boto3_s3/s3storage.py` | a listing's cursor, a temporary file | paged listing, atomic download of one object | pages that fail part-way; failure and interrupt around the replace | the destination always holds one whole version |
| local storage, `boto3_s3/localstorage.py` | the walk's stack, the ancestors, per-directory snapshots | ordered walk, loop detection, second look at an entry's turn | sort order equal to S3's key order, symbolic links, entries that change between scan and turn | complete, without doubles, finite, every omission warned about |
| filters and planning, `boto3_s3/globsieve.py`, `pathresolver.py`, `transferplan.py` | none | match, plan | last match wins, several matchers for one list | every matcher decides as the plain loop |
| CRT support, `boto3_s3/crtsupport.py`, `crtrequest.py` | process-wide client and lock | create, share, request | who created the client, untimed wait | one client per process; every request ends |
| CLI printer, `cli/progress.py` | bounded queue, finished and dead flags, held interrupt | callbacks, drain, `finish` | queue full at the end, three interrupts, a stream that refuses or stalls | no callback blocks for good; every line of a joined worker is out |
| CLI commands, configuration, `cli/cli.py`, `cli/commands/`, ... | the gates ahead, the alias expansions | refuse, resolve, run, report | many places that end an invocation, in an order; Ctrl-C in each | the exit code says what happened |
| CLI auto-prompt, `cli/autoprompt/` | mode, trial | prompt, silenced trial, fallback | a trial that already did something | no change is repeated |

The components, with their source files and what is left out of each, are listed
in `PROJECT.json` under `components`; the hazards they are exposed to, at their
lines, under `hazards`.

## 2. The modules

| module | models | kind |
|---|---|---|
| `PageStream` | what a scan promises its consumer (docstrings of `concurrency.py`) | abstract specification |
| `Prefetch` | one call of `prefetch` | detailed; implements `PageStream` |
| `PrefetchProofs` | | theorems about `Prefetch` |
| `DeleteLedger` | what an `S3Deleter` promises about the entries it is handed | abstract specification |
| `Deleter` | one `S3Deleter` | detailed; implements `DeleteLedger` |
| `DeleterProofs` | | theorems about `Deleter`, the refinement among them |
| `TransferLedger` | what a transfer run promises about its items | abstract specification |
| `Transferrer` | one run of a `Transferrer` under the loop of `cp`/`mv` or of `sync` | detailed; composes loop, tracking, engine, subscribers, watcher; implements `TransferLedger` |
| `TransferrerProofs` | | theorems about `Transferrer`, the refinement among them |
| `PairLedger` | what `sync` promises about its pairs | abstract specification |
| `SyncPairs` | the pair loop of `sync`, inline and on pools | detailed; implements `PairLedger` |
| `SyncPairsProofs` | | theorems about `SyncPairs`, the refinement among them |
| `Body` | one object through a sequential handle: chunks, cuts, retries | component |
| `GetFile` | `S3Storage.get_file` | component; extends `Body` |
| `ItemDone` | one item from its body to its last done subscriber | composes `Body`, `GetFile`, the routes' chains, the executors |
| `ItemDoneProofs` | | theorems about `ItemDone`, `Body` and `GetFile` together |
| `Producers` | the producers and gates of `cp`, `mv`, `sync` with the settling threads and the local delete lane | detailed |
| `ProducersProofs` | | theorems about `Producers` |
| `GlobSieve` | the include/exclude sieve | pure algorithm, with its reference |
| `SyncPartsProofs` | | theorems about `Comparator` and `GlobSieve` |
| `LocalWalk` | the local directory walk over a tree that changes | component; extends `GlobSieve` |
| `Comparator` | the merge-join of two streams | component |
| `SyncView` | what `sync` sees: walk, listing, filters, merge, delete lane | composes `LocalWalk` and `Comparator`; implements `MergeSpec` of `Comparator` |
| `Interrupts` | Ctrl-C, counted | component |
| `RmSingle` | `rm` of one key | component; extends `Interrupts` |
| `TransferPrinter` | the printer of the command line | component; extends `Interrupts` |
| `CommandGates` | the checks of each command, their failures, the exit codes | tables |
| `CommandLine` | one invocation | composes `CommandGates`, `RmSingle`, `TransferPrinter` |
| `CommandLineProofs` | | theorems about `CommandLine` |
| `MC...` | | constants for TLC |

In every module one action is one stretch of code between two accesses to shared
state. Operators whose names are not mentioned below and that stand directly before
the definition they resemble (`OfferDropsWhenFull`, `RaiseSkipsFinally`,
`PutUnbounded`, ...) are *mutants*: plausible mistakes that no specification uses.
They serve to show that each property notices the mistake.

### Prefetch

The worker (`wpc`) walks through `_produce` and `_put`: `Start`, `Check`, `Pull`,
`Returned`, `Put`, `Offer`, `PutEnd`, `OfferEnd`. The consumer (`cpc`) asks
(`Ask`), is answered (`Get`), leaves in order (`Exit`) or on a Ctrl-C (`Interrupt`),
then drains and joins (`Drain`, `Join`), which another Ctrl-C may break
(`InterruptTeardown`). `Cancel` and `MarkInterruptUnwinding` come from outside.
A page is a number. `late` and `escaped` are history variables.

The refinement mapping reads the abstract stream off the consumer: `delivered` is
the last page it got, `fault` is one more than the pages the source returned before
it raised, `status` follows `cpc`.

### Deleter and DeleteLedger

The caller runs `submit`, `flush` and `close` step by step (`cpc`, with `call` the method
that was entered); `awaited` is `_wait_pending`'s local reference, taken out of `pending`
before the wait. `FlushLoop` and `Recheck` are the two reads of the token and `Dispatch` the
slice with `executor.submit`: a cancel may come between any two of them. The executor has
one thread; a batch's future goes from `queued` to `running` to an end. The worker sends the
batch request, then re-sends transient keys and sends the keys XML cannot carry one by one
on a pool (`SendStart`, `SendEnd`, `PoolEnds`), then records in order (`Record`). The
service's answer is any function from the keys of the batch to deleted, hard, transient or
garbled (an error entry under a name that was not sent), and it is truthful: a key without
an error is gone. Because entries are numbered in submission order, buffer and batches are
intervals.

`DeleteLedger` knows no caller, worker, pool or request: it has the stage each entry
reached, the keys that are gone, the token, what cut the run short, and whether the token
was read for the next batch (`cleared`, one read for one batch): a cancel lets out at most
the one batch that was cleared before it. It lists the only reasons for which an entry may
stay without a record. The refinement mapping reads the stage of an entry off the counters,
the records and the future of its batch (`Stage`, `Out`, `Reported`): an entry is out from
the dispatch of its batch until it is recorded or its batch has given up; `cleared` is the
caller's place between `Recheck` and `Dispatch`. A Ctrl-C is the one event that lets two
batches be out at once: it breaks the wait, and the next dispatch finds nothing pending.
That no success is invented (`NoFalseSuccess`) is a part of the ledger, and has a theorem of
its own.

### Transferrer and TransferLedger

The loop polls, pulls and submits in the order its driver has (`Drivers`: `cp` polls
before every pull, `sync` after it). `Accept` hands an item to the engine, `Track`
and `Recheck` are `_track_future`, `RaiseOwed` is the end of `submit`. `Exit`,
`InterruptDrain`, `Drained`, `Unwatch` are `__exit__`, `Verdict` what the operation
does afterwards. The engine is external and modelled from the use the code makes of
it: a bounded number of live items, `cancel()` that settles at once (classic) or
asks the request (`asked`, CRT), a completion that wins over a cancel, done
subscribers run once, in order, by whoever settles the item. `DeleteSource` is
`_DeleteSource`, `Record` is `_Completion` followed by `_ForgetFuture` with the
classification of `_is_cancellation` and `_record_failure`. `WatchPoll`,
`WatchSnapshot`, `WatchSweep` are the watcher, one future per step.

`TransferLedger` has neither engine nor watcher nor subscribers: the items held, what
landed, which sources are gone, one record for each item, the token, what unwinds and
whether the caller is owed an exception. It is the same for both loops and both engines. The
mapping takes `held` from the items the engine has not finished (`Live`), `owed` from
`pending`, and reads off the loop's place whether it still takes items (`Open`) and
whether it read the token for the next one (`Polled`). What a normal return means
(`NormalReturnMeansDone`) is a part of the ledger's `End`, and has a theorem of its own.

### SyncPairs and PairLedger

`Loop` is `_run_sync_pairs`: `Poll`, `Pull` and `Route` take a pair to its lane; its
decision is made inline (`Decide`) or registered on the caller's pool (`Register`),
whose workers start any queued one (`StartDecision`, `FinishDecision`); `Get` and
`Result` consume a completion, `Act` hands an accepted pair over (`acted`), which settles
later (`SettleItem`). `filling` tells the two loops apart, `Cap` is the window. `Raise`
leads into the `finally`, where `Settle` is `settle_pending` with its `firm` argument;
`ExitDeletes`, `ExitTransfers` and `Verdict` are what `S3.sync` does around the loop.
`Cancel`, `RevokeDecision` and `Interrupt` come from outside. `Stage(p)` is the
refinement mapping: it reads how far a pair got off `decision`, `acted` and `effect`;
`ended` is what the operation did. `PairLedger` allows a pair one walk along `Follows`
and says when the operation may return, report failures or raise.

### ItemDone, Body and GetFile

`pc = "body"`: the body of an open route moves chunk by chunk (`BodyMoves`), is cut and
sent again (`BodyCut`) through `_writing_once` (`HandleIo`, which drops what is below
the mark `written`); any other body is one step. Then the subscribers of the route
(`UploadChain`, `DownloadChain`, `CopyChain`) run head first, each with its ways to fail
(`CloseFileobj`, `StampMtime`, `FsyncDest`, `SetTags`, `SetAnnotations`,
`DeleteSource`, `Complete`). An exception that escapes a subscriber (`Escapes`) ends the
list, and under the serial executor announces the item once more. An interrupt of the body
(`BodyInterrupted`) is noted by the task's guard (`TaskInterrupted`), or under the CRT,
where a stream is the body (`StreamInterrupted`), by the reader that wraps an upload's; a
download's is bare, so nothing notes its interrupt in the body: awscrt stores it as the
outcome, and `Complete` notes it (`_record_failure`). What escapes a subscriber on an awscrt
thread is noted by nobody and stalls the engine's drain (`pc = "stalled"`).
`SubmitInterrupted` is
the Ctrl-C that ends `submit` after the engine took the item. The item with route
`get_file` is a call of that method: request, temporary file, copy, close, replace, and
the discard on every way out.

### Producers

`plan` fixes a run: route, options, what is listed and in which order, the files at the
destination and which names are one name (`fold`). The loop polls, pulls, and takes an
entry through the gates of its route in their order (`GateChain`); the case-conflict
gate looks twice (`Look`) while downloads settle (`Settle`, `DeleteSource`, `Cleanup`)
on other threads. `Orphan` is the local delete lane of `sync`. `disk` says whose bytes a
file holds. `cp` lists the destination before its source; `sync` walks it while the downloads
land, so its walk may come upon a file the run has just made (`WalkFinds`, kept in `found`).
That file bears the key's own name unless a directory above it was there in other case
(`spelled`). In byte order the walk may still have that directory ahead of it, and then
takes the file for one of the destination's own: an orphan, or the pair of a later key.

### LocalWalk, GlobSieve, Comparator and SyncView

A tree is a graph of inodes; `Reach` resolves a path through links as the kernel does.
`frames` is the recursion of `walk_dir`. A directory is opened and its names listed
(`Open`), its own path vetted (`VetDirectory`), its children classified in one step
(`Classify`), then each has its turn (`DirTurn`, `LeafTurn`), where a leaf is looked at
again and may be promoted to a directory. `Change` replaces a name at any moment.
`GlobSieve` states the matcher `compile` picks for each shape of list, next to
`Sequential`, the plain loop. `Comparator` merges streams that arrive while it runs;
`SyncView` delivers them: the tree's entries from a worker that reads ahead (upload) or
as far as the merge asks (download with `--delete`), the bucket's page by page, possibly
breaking. An orphan is removed at once, under the walk.

### CommandLine and its parts

`stage` and `todo` are where an invocation is and the gates ahead of it. A gate passes
(`Passes`) or refuses (`Refused`) with one of its failures, for which `ExitCodeFor` has
the code. `ModeResolved`, `Prompted`, `PromptEnds` are the prompt and the silenced trial;
`Unaliased`, `Expands`, `ShellRuns`, `Resolves` the alias layers. Past its gates a
command is a transfer under `TransferPrinter`, the delete of one key (`RmSingle`), a
recursive delete in one step, or a single request with the failures its call may raise.
`outcome` is how the run ended (`Ends`): it tells an answer of the service that was the
failure (`answered`, `rejected`) from a failure of the client, and a request whose answer
one of the plugin's handlers failed on (`handled`); `sent` keeps the strongest of these for
the whole invocation, the silenced trial included. A handler fails as the request does
(`HandlerFails`); it is assumed to raise no `ClientError` of its own.
`RmSingle` has the calling thread (`rm`), the worker (`request`) and the interrupts held
back (`held`). `TransferPrinter` has workers that count and put (`at`, `record`), the
printer thread, and `finish` on the main thread with the marker's own thread (`fin`,
`marker`, `pressed`).

## 3. The runs

| run | instance | what it shows |
|---|---|---|
| `prefetch` | 4 pages, queue of 1 or 2, 2 interrupts | `TypeOK`, `AtMostOneLatePage`, `NoSurvivingWorker`, the refinement `StreamSpec`, and the liveness of pull and exit (`PullAnswered`, `ExitCompletes`) |
| `prefetch_interrupted_join` | 2 pages | `NoWorkerWhenReusable` **violated**: a Ctrl-C in the exit's own join leaves the worker alive under the reusable posture, where the docstring says there is one opt-out only |
| `deleter` | 3 entries, batches of 2, 2 concurrent re-sends, 1 fault; two distinct keys or one twice, one key XML cannot carry; three constructor postures | `TypeOK`, the refinement `LedgerSpec`, `RecordsInOrder`, `ClosedAccountsForAll`, `WorkerErrorSurfacesOnce`, `CallsReturn` |
| `deleter_timeout_error` | 2 entries, batches of 1 | `CallsReturn` **violated**: `on_result` raising `TimeoutError` makes `flush`/`close` spin forever on Python 3.11 and later |
| `transferrer` | 2 items, 2 slots, both engines, cp and mv, 1 fault | `TypeOK` (which says that every tracked future is live), the refinement `LedgerSpec`, `GracefulDrains`, `OrderedIsCancelled`, `ImmediateReachesAll`, `RunEnds` |
| `transferrer_sync_immediate` | 2 items, 1 slot, the loop of sync, no fault | `ImmediateReachesAll` **violated**: an immediate cancel can miss an item handed over across the watcher's single sweep |
| `sync_pairs` | 3 pairs, a pool of 2, five plans (all inline, all pooled, mixed, a lane off), any cancel, 1 Ctrl-C | `TypeOK` with the window, the refinement `LedgerSpec`, `GracefulAwaits`, `AtMostOneLateStep`, `ImmediateEnds` |
| `item_done` | every kind of item, objects of 0, 1 and 4 bytes, chunks of up to 2, 3 attempts, 3 faults | `TypeOK` (one record), `MoveKeepsData`, `SurvivesCrash`, `RecordIsTrue`, `InterruptSurfaces` |
| `item_done_rollback` | the same, 2 faults | `RolledBackKeepsSource` **violated**: under `use_threads=False` a second announcement of a moved copy can delete the destination whose source is gone |
| `producers` | 3 keys, two or three of them one name by case, every route, mode and gate, a walk of the destination that finds what has landed | `TypeOK`, `LandedStays`, `AllAccounted`, `ConflictIsReal` |
| `sync_view` | 3 names, paths of up to 4, 6 inodes with one link, pages of 2, up to two changes; both directions | `Accounted` (with `TypeOK`), `JudgedRight`, the refinement `MergeSpec`, `SyncEnds` |
| `command` | one invocation of any command, 3 Ctrl-C, 2 workers with 2 results, a queue of 1, one alias expansion | `TypeOK`, `ExitCodeTrue`, `ReportsAreTrue`, `CommandEnds` |

The four violations are described under `findings` in `PROJECT.json`, with the line
of the repository each one contradicts.

### What the models say about the code besides

Places where a property had to except something, or where the code does something its
comments do not say. None of them has a run of its own.

- *A handle closed by an interrupted submit* (`transfer.py:1460`). The comment there says
  that `submit` closes the handles when it "raises before the manager accepted the work".
  A Ctrl-C after the acceptance closes them too, while a worker uses them:
  `_DeferredReader.read` then returns `b""`, the upload ends early, and a truncated
  object may be recorded SUCCEEDED and a move's source deleted; an empty download may be
  recorded without its object. `MoveKeepsData` and `RecordIsTrue` except items with
  `severed` set. `InterruptSurfaces` does not.
- *A failed CRT item whose handle raises from its discard.* Subscribers of the CRT engine
  run on an awscrt thread, where no executor notes what escapes them. A `BaseException` out
  of the `discard` of an item that failed is lost, and "leaves the CRT manager's drain
  waiting for good", as the docstring of `_deliver` (`transfer.py:1494-1495`) says of
  callbacks. `InterruptSurfaces` excepts this one item, which keeps its source.
- *Interrupts the documents give up.* `docs/reference/results.md:275-276` and
  `design/opresult.md:172-175` leave what a threaded download's or a CRT upload's stream
  raises to the engine. The code notes both (`_TaskGuard`, `_GuardedReader`), and the model
  follows the code.
- *sync may delete or overwrite what it has just downloaded.* On a destination that ignores
  case, with `skip` or `error`: from the keys `Dir/a` and `E.txt` to a destination that
  holds `E.txt` and `dir/b`, `Dir/a` lands in the directory `dir` before the walk, which
  goes in byte order, gets there. The walk lists it as `dir/a`, and `--delete` removes it
  as an orphan; without `--delete`, a key `dir/a` of the source pairs with it and may
  overwrite it. In `ignore` and `warn` a twin may also be downloaded over it, or be an orphan
  that was there and is deleted after it landed, as `comparator.py:160-165` says.
  `LandedStays` holds in every mode and names these as the only ways.
- *The in-flight set of the case gate.* An entry it admitted and a later gate consumed,
  or a dry run did not download, keeps its key for the rest of the run: no cleanup runs.
  In `warn` mode three twins share one key of a set that does not count.
  `ConflictIsReal` and `LandedStays` are stated accordingly.
- *`get_file`.* A Ctrl-C as `os.open` returns leaves the temporary file, and a second
  fault inside the discard may; `ReplacedWhole` allows both.
- *The delete of one key.* A second Ctrl-C during the grace of one second before the
  worker begins already abandons the request, although the docstring says a third does.
  A raising `on_result` replaces an interrupt held back.
- *The printer.* A Ctrl-C in `finish` before `_finished` is set escapes without the drain.
  The marker may go in twice, which does no harm.
- *AssertionError* is re-raised "everywhere else" by the comments, but `mb`, `rb` and the
  validation block of `_dispatch` catch it with `except Exception`.
- *A 252 after a change was sent.* What a plugin's handler of an `after-call` event raises
  is raised by the request; a `ParamValidationError` becomes a `ValidationError`, so
  `website` ends with 252 although the configuration is in place, and the prompt of
  `on-partial` may send it again. The comment at `cli.py:998-1000` names this case, and
  `ExitCodeTrue` says that it is the only one.
- *A 252 after something else was done.* `cp -r`, `mv -r` and `sync` may create the
  destination directory before a check answers 252, and an external alias that ends with
  252 in a trial is followed by the prompt and may be repeated. `ExitCodeTrue` is about
  changes sent to the service.

### Bounds

- *Prefetch.* With a queue of one or two, four pages are enough to fill the queue,
  have one page in the worker's hand, one returning from the source and one left in
  it. Two interrupts are the one that unwinds the context and the one that breaks
  its teardown. The theorems drop all three bounds.
- *Deleter.* Three entries in batches of two make one full and one partial batch,
  and a batch with two keys for the re-send pool of two to interleave. One of the
  three keys cannot be batched. One fault places a Ctrl-C or an escaping exception
  at every point of every behaviour.
- *Transferrer.* Two items let one settle, be tracked or be swept while the other is
  handed over; a third adds items in states already present. Two slots let both be
  live; the sync run has one, so that the second submission waits on the first. The run
  takes the loop of cp; that the loop of sync keeps the ledger too is shown by the theorem.
- *SyncPairs.* Three pairs on a pool of two: the window is full with one pair ahead.
- *ItemDone.* Four bytes in chunks of up to two give chunks that end before, at and
  beyond the mark of an earlier attempt; three attempts let the mark move twice. Three
  faults are a failure, the interrupt it meets, and a fault in the second announcement.
- *Producers.* Three keys are a twin ahead, something between, and a twin behind; one
  more plan has three twins. A group of plans (`Finds`) has a directory spelled in other
  case at the destination, so that the walk finds what was landed. A link between the
  directories of the destination, which gives a file two names, is left out.
- *SyncView.* Three names with `a`, `a.b` and `c` sort differently as leaves and as
  directories. One link through which the kernel follows one link (`MaxLinks`) stands for
  the limits of 40 and of path-length vetting (`ProbeLinks`). Scenarios come in four
  groups: `Plain` (every tree and option), `Matched` (filters and breaking pages),
  `Moving` (two changes), `Rooted` (a root that is no directory). A link leads to a node
  that is no link; the visits of one directory's children are one step; the delete lane
  is serial; the listing is a snapshot that may break once.
- *CommandLine.* Three Ctrl-C are what the two protocols tell apart. Two workers - one the
  engine joins, one a scan that may outlive the run - and two results fill a queue of
  one. `cp`, `mv` and `sync` are one operation past their gates, and a dry run of them is
  taken for one that sent changes, which only makes `ExitCodeTrue` stronger.
- The counters (`MaxInterrupts`, `MaxFaults`, `MaxTries`, `MaxResults`, `MaxExpansions`,
  `NumEntries`, `NumItems`, `NumPages`, `NumPairs`) are guards of the actions that count;
  no other bound exists.

Deadlock checking is on in every run: a state in which everything has finished has
the explicit self-loop `Finished` (in `CommandLine`, the last disjunct of `Next`),
anything else that cannot move is an error.

### Fairness

Weak fairness is given to what the program runs on its own: the prefetch worker, a
`get` with something to get, the drain and the join; the deleter's caller *inside* a
call, its worker and its pool; the submission loop, each item's work in the engine,
the watcher; the pair loop and the decisions that run; the walk, the listing and the
merge that pulls them; the gates, layers and operations of an invocation, the threads
of its printer and of its single delete. Page pulls and requests return because
botocore and the CRT time out; other backends are asked to in the docstring of
`prefetch`. A prompt is answered or left. Nothing is assumed of the application or of
chance: it may never ask again, never close, never cancel; its pool may never start a
queued decision, which is why `ImmediateEnds` is worth stating; a stream may stall,
nobody has to change the tree, report a result or press Ctrl-C; faults, interrupts and
cancels get no fairness. The deleter's poll loop (`Poll`) has none either, as it is the
waiting itself.

## 4. The proofs

TLAPS checks the theorems below for every value of the constants that the named
assumption of the module admits; TLC evaluates those assumptions on each instance of
section 3. They are assumptions about the types of the bounds and options, except four:
a prefetch queue holds at least one entry, the printer's queue (10,000 in the code) holds
one and has room for the scans that may outlive a run, the CRT postures of the deleter
always re-send (`_resend_transient`), and `ProducersAssumption` says what a listing and a
directory are - an entry arrives once, one named object is one entry, everything that is
there arrives, a directory that ignores case has no two names that differ by case alone,
and what a download's file is called differs from its key by case at most.

Hardly any of the properties is inductive. Each proof module therefore defines an
inductive invariant `IInv`, a conjunction of named parts, proves `Init => IInv` and
`IInv /\ [Next]_vars => IInv'` with one lemma per action (`...Keeps`), and derives the
properties from it. TLC checked each `IInv`, part by part, on the instance of section 3
before it was proved.

| theorem | statement |
|---|---|
| `PrefetchTyped`, `PrefetchStopsPromptly`, `PrefetchLeavesNoWorker` | `[]TypeOK` with the memory bound of the queue, `[]AtMostOneLatePage`, `[]NoSurvivingWorker` |
| `PrefetchImplementsStream` | `Spec => StreamSpec` |
| `DeleterTyped`, `RecordsComeInOrder`, `SuccessIsTrue` | `[]TypeOK`, `[]RecordsInOrder`, `[]NoFalseSuccess` |
| `CloseAccounts`, `ErrorSurfacesOnce` | `[]ClosedAccountsForAll`, `[]WorkerErrorSurfacesOnce` |
| `DeleterKeepsLedger` | `SafeSpec => LedgerSpec` (`SafeSpec` is `Spec` without its fairness) |
| `TransferTyped`, `GracefulCancelDrains`, `ReturnMeansDone` | `[]TypeOK`, `[]GracefulDrains`, `[]NormalReturnMeansDone` |
| `CpTellsEveryone` | `[]ImmediateReachesAll` if `Drivers \subseteq {"cp"}` |
| `OrderedMeansCancelled` | the action property `OrderedIsCancelled` |
| `RunKeepsLedger` | `SafeSpec => LedgerSpec`, for both loops and both engines |
| `SyncTyped`, `GracefulCancelAwaits`, `OneStepAfterCancel` | `[]TypeOK` with the window, `[]GracefulAwaits`, `[]AtMostOneLateStep` |
| `LoopImplementsLedger` | `Spec => LedgerSpec` |
| `ItemDoneTyped`, `MovedDataStays`, `CrashFindsData` | `[]TypeOK` with the one record, `[]MoveKeepsData`, `[]SurvivesCrash` |
| `SuccessIsAtItsPlace`, `NoInterruptIsLost` | `[]RecordIsTrue`, `[]InterruptSurfaces` |
| `ProducersTyped`, `LandedFilesStay`, `EveryEntryAccounted` | `[]TypeOK`, `[]LandedStays`, `[]AllAccounted` |
| `ConflictsAreReal` | the action property `ConflictIsReal` |
| `MergeUsesEachEntryOnce`, `MergeTellsTheTruth` | `[]EntryInOnePair`, `[]PairsAreTrue` under `MergeSpec` |
| `SieveDecidesAsTheLoop` | `Included(pats, key, full) <=> Sequential(pats, key, full)` for every list of patterns |
| `CommandTyped`, `ExitCodesAreTrue`, `ReportsAreTrueAlways` | `[]TypeOK`, `[]ExitCodeTrue`, `[]ReportsAreTrue` |

### What the invariants add, and why

*Prefetch.* The stop event is up exactly while the consumer is leaving or gone
(`StopMeansLeaving`); while it is not, the queue holds the pages that follow those
delivered, with the end marker possible only in the last place (`QueueOrder`); what the
source returned is delivered, queued or in the worker's hand, and only a cancel loses a
page, after which no more is pulled (`PagesAccounted`, `EndAccounted`); a kept error
means no later page (`ErrorIsLast`); nothing is late before a flag is up, nor where the
worker has just seen none (`LateSeen`); nothing is queued or delivered that was not
pulled (`PulledFirst`). The refinement maps each action to a step of `PageStream` or to
stuttering, using `IInv` for `Get`.

*Deleter.* Order and exactly-once are facts about one list, but three parties write what
it is made of. `BatchesOK` cuts what was dispatched into successive intervals;
`QueueOK` says that one worker runs them in order, so that nothing behind a batch that is
not over has started, and `RecordsOK` that the records there are belong to entries before
those still to come. That a success is true needs `Evidence`: while a batch runs, a key
that counts as deleted was named by an answer, or is still to be sent, or the batch is
about to raise; a request that failed as a whole leaves nothing of it and every key goes
out again. `Recorded` and `Reasons` account for the entries the worker has passed and keep
visible why any was lost. `Errors` is the handing over of one reference: a batch that is
not over, or failed, is `_pending`, or taken by the wait, or was told to the caller.
The refinement needs all of them: that `flush` dispatches only with nothing in flight
rests on `Errors` (a batch not over is pending or awaited, unless a Ctrl-C dropped it),
also for the step between the last read of the token and the dispatch,
that a record is of the first entry out on `QueueOK`, that it tells a success truly on
`Evidence`, and the two conditions of `Close` on `Reasons` and `Errors`.

*Transferrer.* Between the moment a task notes an interrupt and the moment the caller sees
it, the fact lives in turn in the item's future, in `pending` and in what unwinds;
`RevokedForReason` says that wherever an item was revoked the token is immediate, a fatal
unwinds, or an exception is pending, and that the flag is up only under an immediate token.
`Known` says that the engine has no transfer the tracking does not know, except for the one
`submit` is about to track, and in an interrupted drain none that was not told. Under the
loop of cp the submission between two checks is over before the next read of the token, so
nothing is accepted between the watcher's snapshot and the end of a loop that does not raise
(`Told`); the loop of sync reads the token before the submit and not behind it, which is the
violation of `transferrer_sync_immediate`, and why `CpTellsEveryone` is about cp only.
`AskedUnderFlag` orders the flag before the revocations. The refinement adds `SuccessesOK`,
that an item on its way to a record of success has landed and, in a move, its source is
gone, and uses `RevokedForReason` for the reason of each revocation when the record is made.

*SyncPairs.* The window is a counter that is compared with the pool's width; that it
bounds anything needs `WindowOK` (it is the number of accepted decisions) and `DoneOK`
(each completion is of one of them, once). `NothingSkipped` follows the pairs that were
pulled: closed, accepted, or in the loop's hand; `PairsOK` says the same pair by pair.
`SettledOK` and `NoneOut` say what the unwinding has waited for; `ClearedByPoll` that
what begins next was cleared by a poll, at most one step ago. The refinement reads the
stage of each pair off `decision`, `acted` and `effect` and maps each action to a step of
`PairLedger` or to stuttering.

*ItemDone.* The subscribers run in the order of the chain, an exception that escapes
skips the rest, and an announcement may start over. The invariant gives each subscriber a
rank: what is on the list is a part of the chain in that order (`ListOK`), and what was
not done is still on it (`Ahead`), so the source goes and the record is made only behind
the commit of the handle. `BytesOK` says that the other side has exactly the bytes below
the mark, through cuts and repetitions (`_writing_once`); `WellPlaced` that an item that
is well has its data at the destination or in a handle still to be committed;
`StaysPlaced` that what was deleted or reported stands on data that stays; `Flushed` is
the fsync before the delete; `CallOK` is what `get_file` has on disk at each of its
steps; `Noted` follows a BaseException to the caller: it is noted, or still the outcome of
an item that is not settled, or its item stalled.

*Producers.* `OneHolder` is the heart: of the names that share a file only one can have a
body there, unless it failed or is a name sync's walk found. Such a name is one per file and
came after all that were let through to it (`FoundOK`), when their bodies had ended. The
conflict check reads the in-flight set and then the file system, in two steps, while
settling threads change both; it is right because a download writes its file before it
leaves the set (`SetOK`, `Claimed`), because the set does not grow between the two looks of
the one thread that adds to it (`LooksOK`), and because a file stays until the delete lane
takes it (`DestThere`). An entry whose own name is at the destination is not checked, and
needs no check only since the directory cannot hold its twin. `FatesOK` and `ItemsOK` say
where each entry and item can be.

*Comparator.* `MergeTellsTheTruth` is what allows the delete lane to act on a pair at
once, so it is a claim about entries that have not arrived yet, and needs two facts that
are true only of sorted streams: what the merge has passed on one side is below all it has
yet to pass on the other (`PassedBelow`), and at or below some entry that stands in the
other stream, unless nothing is to come there (`PassedAgainst`). The entry a passed one
was compared with lies between it and every later arrival. `SyncView` starts in
`MergeInit`, and each of its steps is a step of `MergeSpec` or leaves `mergeVars` alone.
TLC checks this on the instance of `sync_view`, where `MergeSpec` is a property; through
it the two theorems apply to what a walk and a listing really deliver.

*GlobSieve.* There is no state: the theorem goes through the matchers `compile` may pick.
In each the catch-all at the head and the kinds of the rest tell what the last hit
decides (`PlainLoop`). That a list which is hit at all has a last hit (`LatestIsLast`)
rests on a least counterexample (`LeastNumber`), the one form of induction over data the
provers can follow here. `JudgedRight` checks the same equality on the entries of
`sync_view`, next to the pruning of directories.

*CommandLine.* The exit code speaks for what ran before it, so `StageOK` says what can have
begun at each stage: before a command neither a transfer nor a delete, and no change but one
a plugin's handler failed behind, in the trial, or, in `rb`, the sweep of `--force`. A code
then fits (`Fits`) what the stage may have behind it. That every line is out is a fact of
the printer's queue: a result that is due is in the queue once or in the hand of the one
worker that reported it (`DueOK`, `HandsOK`, `QueueOK`), and behind the shutdown marker
stand only strays, results of scans that outlived a run that died (`MarkerOK`); so when the
thread has drained, nothing that is due can be missing but a stray. `CallOK` and `AnswerOK`
follow the one request of `rm`: an interrupt held back was pressed while the request was
out, and an answer tells whether the object is gone. A step of one part leaves the invariant
of the others alone, because it touches none of their variables but the count of interrupts
(`ElsewhereKeeps`).

### Only model-checked

- Liveness (`PullAnswered`, `ExitCompletes`, `CallsReturn`, `RunEnds`, `ImmediateEnds`,
  `SyncEnds`, `CommandEnds`): it needs `ENABLED`, which the provers do not have.
- `ImmediateReachesAll` for instances that include the loop of sync, where it is false.
- `SyncView` as a whole, `TypeOK`, `Accounted`, `JudgedRight` and `MergeSpec`: `Reach` and
  `End` walk a tree by recursion over paths, and the streams that meet in the merge come
  out of `SelectSeq` and `FoldLeft`. What these compute for every input is shown by
  induction over data, which is out of the provers' reach. The merge itself and the sieve
  are proved on their own, in `SyncPartsProofs`.

## 5. What is not modelled

- *The decision of a pair*: size and time, ETag, checksum. They hash bodies and keep no
  state; `SyncPairs` takes any decision.
- *Dryrun of the transfer and delete engines, argument validation, response capture,
  manager and client construction, request parameters, masking, MIME tables, sessions,
  transfer configuration*: data in, data out, nothing that depends on order.
- *The process-wide CRT client* and the untimed wait of `crtrequest.py`, which depend on
  awscrt alone.
- *The loop of a recursive `rm` around the deleter*, one step in `CommandLine`.
- *s3transfer, botocore, awscrt, prompt_toolkit*: external; the modules state what is
  assumed of them. A request that never comes back is outside every model, except that a
  third Ctrl-C leaves a single delete.
- *A Ctrl-C between two bytecodes of one modelled step*, for instance between the
  exception and the `stop.set()` of the `finally` it enters.
- *Text*: keys, paths, globs, messages, help, listings, the meter. Windows and platforms
  without directory descriptors.

`PROJECT.json` lists per component what is left out of it.

## 6. Plan

Every module of the plan exists, and the three components with a contract in their
docstrings that can be told apart from the code - the scan stream, the deleter, the
transfer run - and the pair loop are shown to implement it. Not begun are the decision of
a pair as a pure algorithm, the process-wide CRT client, and one ledger for a whole `sync`
that composes `TransferLedger`, `DeleteLedger` and `PairLedger`.

## 7. Running it

    tlc -config MCPrefetch.cfg MCPrefetch
    tlc -config MCDeleter.cfg MCDeleter
    tlc -config MCTransferrer.cfg MCTransferrer
    tlc -config MCSyncPairs.cfg MCSyncPairs
    tlc -config MCItemDone.cfg MCItemDone
    tlc -config MCProducers.cfg MCProducers
    tlc -config MCSyncView.cfg MCSyncView
    tlc -config MCCommandLine.cfg MCCommandLine
    tlapm PrefetchProofs.tla
    tlapm DeleterProofs.tla
    tlapm TransferrerProofs.tla
    tlapm SyncPairsProofs.tla
    tlapm ItemDoneProofs.tla
    tlapm ProducersProofs.tla
    tlapm SyncPartsProofs.tla
    tlapm CommandLineProofs.tla

The other four configurations are expected to report their violation:

    tlc -config MCPrefetchInterruptedJoin.cfg MCPrefetch
    tlc -config MCDeleterTimeoutError.cfg MCDeleter
    tlc -config MCTransferrerSync.cfg MCTransferrer
    tlc -config MCItemDoneRollback.cfg MCItemDone
