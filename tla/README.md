# TLA+ models of Baamhackl

Baamhackl (`src/`) observes directories through a Watchman server and runs a
configured command for every file that appears in them.  This directory holds
TLA+ models of its concurrent core, TLC runs on small instances and TLAPS
proofs for all instances.  `PROJECT.json` maps every definition to the lines it
models and lists runs, mutants, findings, hazards and theorems.

## The system

| Component | State | Operations | Talks to |
|---|---|---|---|
| `internal/scheduler` | slots, two priority queues, counters of running tasks and loops, three one-token events, context of the tasks | `New`, `SetSlots`, `Add`, `Start`, `Quiesce`, `Stop`; its loop; one goroutine per running task | called by router and handler; calls task functions |
| `internal/prioqueue` | array heap, items that know their index | `Push`, `Pop`, `Peek`, `Clear`, `Update`, `Remove` | used by the scheduler inside its mutex |
| `watch/handler.go` | `pending` (file name to task), mutex `mu` | `handle`, `invokeTask`, `prune` | called by RPC goroutines (`handle`) and tasks (`invokeTask`, `prune`) |
| `internal/handlertask` | attempt number, retry strategy, journal directory | `Run` | one object per pending file |
| `internal/handlerattempt`, `internal/handlercommand` | file information before the command, attempt directory | validate, copy, run, lock, compare, move | the users' files |
| `internal/journal`, `internal/waryio`, `internal/uniquename`, `internal/prune` | directories `_/journal`, `_/success`, `_/failure` | `CreateTaskDir`, `MoveToArchive`, `Prune` | the file system, shared with everybody |
| `watch/command.go`, `watch/router.go`, `internal/cleanupgroup`, `internal/signalwait` | runtime directory, cleanup functions, captured signal | start, wait for a signal, undo everything | all of the above |
| `internal/watchmantrigger`, `internal/watchman` | triggers that were configured | `SetAll`, `RecrawlAll`, `DeleteAll` | Watchman, through client processes |
| `internal/service`, `internal/unixserver`, `sendfilechanges` | socket, connections | listen, accept, close; send the changes of one trigger event | Watchman starts `send-file-changes`, which calls the service |
| `internal/handlerretrystrategy`, `internal/fuzzduration` | attempts left, next delay | `Current`, `Advance`, `Random` | one object per task |
| `watch/handlermetrics.go` | counters behind a mutex of their own | reports of tasks, `Collect` | takes the handler's mutex during a scrape |
| `internal/watchmantrigger/trigger.go`, `internal/relpath` | query expression of a handler | `newTriggerConfig`, `Resolve` | tells Watchman which files to report |
| `move/into.go` | | `execute` | called by handler commands |
| `selftest` | temporary directory, server process, goroutines of the watch command and of the tests | `execute` | starts Watchman and the watch command |
| configuration, `exepath`, `cmdutil`, `cmdemu`, `main.go` | none that matters | | not modelled, see below |

The hard parts: events that are set outside the mutex that protects what they
announce; a mutex handed from one goroutine to another; the handler's lock that
is taken late; users and other processes that change files between any two
system calls; reports that are dropped while a task is pending, or lost with a
killed process; retries, restarts and pruning of things still in use; failures
in the middle of the start-up; a shutdown with one time-out for everything; lock
files that are only tried; durations and names at the limits of their types;
goroutines and processes that have to end each other.

What makes each part correct is stated with the modules below.  The list of
hazards in `PROJECT.json` gives the line where each of them bites.

## Modules

### Scheduler, TaskPool

`Scheduler` has one variable per field of `Scheduler` and `Task` and program
counters for the loop, the goroutines of tasks and the callers of `Stop` and
`Quiesce`.  What happens between `mu.Lock()` and `mu.Unlock()` is one action,
what happens outside is an action of its own: `AddNumber`, `AddEnqueue` and
`Notify` are the three parts of `Add`.  Handing the mutex from the loop to the
new goroutine makes `LoopLaunch` one action.  An event is a Boolean (a channel
with room for one token); `notifiers` and `finishers` count the goroutines that
are about to call `Set`.  The queues are sets, `Pop` takes a minimum; ties in
`tasksByTime` are broken arbitrarily, as a heap does.  The zero time is 0, the
clock begins at 1.  One caller of `Stop` or `Quiesce` is active at a time
(`MayCall`), as in the program, whose only caller is `router.stop`.  Two waiting
callers could steal each other's token.

`TaskPool` is what users of the scheduler rely on: no more tasks start than
there are slots, none before its due time, untimed ones in the order of their
numbers, none after `Stop`.  `ImplementsPool` states the refinement.

Properties: `OnePlace` (no task is lost or queued twice, the panics of `enqueue`
are unreachable), `CountersExact`, `NoLostWakeup`, `NoLostFinish`,
`StopDrained`, `ImplementsPool`, and with fairness `EveryTaskRuns`,
`StopReturns`, `QuiesceReturns`.

### Handler

One handler with its files, `h.pending`, `h.mu`, tasks and attempts.  A file is
its version number; a version stands for everything `DescribeChanges` compares.
Lstat, copy, command, lock, second Lstat, rename and the end of `invokeTask` are
separate actions between which users write or remove files, reports arrive,
other tasks run, the journal is pruned (`ShortRetention`) or the program is
restarted.  `IOErrors` lets every file system call fail.  `SetupFails`,
`LogSetupFails`, `PrepareFails`, `MoveFails` and the last disjunct of
`StatAfter` are the error paths; `Conclude` includes a failing close of
`log.txt`.  Of the scheduler, only what `TaskPool` promises is used.  `tried`
(the version an attempt last found and copied), `handled`, `raced`, `gaveUp` and
`lost` record history for the properties and guard nothing.

Properties: `PendingExact` (at most one task per file, no entry left behind),
`StrandedReported` (a file nobody will look at again has had a failed task or a
report that did not get through), `SuccessIsHandled`, `RetriesExact`,
`UnchangedIsMoved`, `EveryReportSettles`.

### JournalDirs

`EnsureRelDir` followed by `MakeAvailableDir` or `RenameToAvailableName`, system
call by system call, for callers that start with the same candidate name.  An
element of the path is missing, a directory or a file; users make files and
directories on it at any moment (`UserEntries`), any call may fail (`IOErrors`),
and the configured path may lie outside of the base directory, where nothing is
made, or not resolve at all.  Directories of the path are not taken away again.
Properties: `OwnPlace`, and `PathExists`, which says exactly what a success of
`EnsureRelDir` is worth: all of the path exists and only its last element can be a
file instead of a directory, one that came between `Stat` and `Mkdir` (`slipped`
records who went past one), and nobody gets a name elsewhere than in a directory.

### WatchCommand

`ExecuteWithClient` with every early return, the deferred calls in Go's order,
`SetAll`/`RecrawlAll`/`DeleteAll` with one goroutine per handler, Watchman with
triggers of this and of an earlier run, `send-file-changes` processes, at most
one task per handler (`PendingExact`), which may wait for retries, and the pruning
task.  Calls of the Watchman client may fail before or after they had their
effect, and `Accept` may fail, after which the listener is open and nobody serves
it (`deaf`): clients then fail, and `FilesSeen` counts their reports as missed.
Properties:
`TriggersAccounted`, `SocketServesTriggers`, `FilesSeen`, `GracefulStop`,
`PruneChain`, and with fairness `SignalEnds`.

### Pruning

`journal.Prune` goes through the directories; in each `Pruner.Run` tries the lock
file, lists, filters by age and removes.  Several pruners (handlers or processes
that share directories) interleave at system calls, any of which may fail, and a
pruner may be cancelled or die.  A lock file is an inode, so that a removed and
re-created one would be another lock.  Time has ticks, seconds and minutes: names
carry local time in whole seconds, the deadline is rounded to the minute, and the
clocks may be set back once, after which a name may be read as either of two
times.  Tasks and users change entries at any moment.  Properties: `OneAtATime`,
`KeptForRetention` (nothing that was made or archived by the program goes before
its time), `RecentlyUsedStays` (nothing goes that was written within the
retention, unless after the listing: `fresh` records these), `Thorough` (what was
due is gone when the pruner leaves a directory without error).

### SelfTest

`Command.execute` with the deferred calls of `withTempDir` and `withServer`, the
error group of `runner.run`, the two tests, and three processes: the program,
timeout(1), and the Watchman server, its child.  `cmd.Wait` is two steps (process
reaped, output closed), between which `cmd.ProcessState` is set but the server may
live: the code reads it without synchronisation.  Of the watch command only
what the tests see is used.  Properties: `SuccessMeansPassed`, `NoServerLeft`, and
with fairness `SelfTestEnds`.  `EventuallyCleanedUp`, what a comment says of the
wrapper, does not hold (see the findings).

### PrioQueue, MinQueue

The array heap with the walks of container/heap, one swap per action, and the
index that every item carries.  `MinQueue` is the promise: a set of items from
which `Pop` and `Peek` give one with the least value and `Remove` takes the one it
was given.  `ImplementsMinQueue` states the refinement; `Scheduler` uses the
abstract view.

### RetryStrategy

All attempts of a task that keeps failing, for every configuration that
validation admits: delays in integers of limited width, their way through
floating-point numbers, the fuzz, and the scheduler's decision on the sign of the
delay.  `Float64` is the rounding of a duration to the nearest float64; of it,
`FloatAssumption` asks what IEEE rounding gives: monotonic, idempotent, and off by
at most one part in `Exact`, which is 2^53.  A factor is a fraction, as every
float64 is; the product is one of the two integers it lies between, rounded
(`Quotients`).  Out of range, the conversion back gives either end, as Go leaves it
open.  The fuzz is computed as a float32: of it the model has only the bound, any
integer up to `FuzzNum`/`FuzzDen` of the delay.  That fraction is 1/20 * (1 + 2^-22) at
the most, not 1/20: half of the float32 nearest to 0.1, the duration as a float32
and the product are each rounded; a minute is fuzzed by up to 3000000256 ns.
Properties: `FinalIsLast` (never more than `retry_count` retries; the attempt that is
told to be final is the last one; no other one is unless a delay came near the
largest duration, see the observations below), `DelaysBounded` (waits against the
initial delay and the maximum, with fuzz and rounding; delays do not become
shorter, except that a delay above 104 days may be rounded down once).

### UniqueName

The generator of names with its rules for extensions and for shortening, the loop
of `RenameToAvailableName` and the `move-into` command.  A name is a sequence of
graphemes of different sizes.  Properties: `OnlyFirstTooLong`,
`StampAndExtensionKept` (pruning relies on the time stamp).

### TriggerQuery

`newTriggerConfig` with `relpath.Resolve` and the parts of path/filepath that it
calls, on paths with `.`, `..` and detours; Watchman's terms are external.  `Resolve`
joins a relative directory to the clean form of the handler's path, the definition
it is compared with walks from the path as it is written.
`NoFeedback` compares the query with a definition by walking through the tree: the
files of the configuration, and none that the handler writes itself.

### HandlerMetrics

Who holds and who awaits `h.mu` and the collector's `c.mu`, in `handle`, in the paths
through `invokeTask`, in prunings and in several scrapes at a time.  Property:
`NoLockCycle`.

Definitions introduced by a comment `Mutant:` are the wrong variants that show
that each property can fail; no specification uses them.

## Runs

| Run | Instance | Shows |
|---|---|---|
| `scheduler_safety` | 2 tasks, 1 `Stop`, 1 `Quiesce`, slots 1 and 2, delays, 2 attempts, symmetry | the safety properties and `ImplementsPool` |
| `scheduler_live` | 2 tasks, 1 slot, delayed adds and retries, one call of `Stop` or of `Quiesce`, tasks numbered in a fixed order (`OneCall`) | `EveryTaskRuns`, `StopReturns`, `QuiesceReturns` |
| `handler_safety` | 1 file, 2 task objects, 2 versions, 1 retry, all failures, 1 restart | the safety properties |
| `handler_live` | 2 files of 2 versions, 1 slot, 1 retry, no I/O errors, removals or restarts | `UnchangedIsMoved`, `EveryReportSettles` |
| `handler_stranded` | 1 file | finding: `NothingStranded` |
| `journal_safety` | 2 tasks and 1 move, path of 3 elements, 3 names, users, all failures | `PathExists`, `OwnPlace` |
| `journal_race` | 2 tasks, path of 2 elements, neither failures nor users | finding: `OvertakenIsFine` |
| `watch_command` | 2 handlers, 1 slot, metrics server, files and triggers of earlier runs, 1 new file | all properties of `WatchCommand` |
| `prune` | 2 pruners, 2 directories, 1 entry at a time, 1 failure or crash, 1 later change, clocks set back or not | the properties of `Pruning` |
| `selftest` | 3 files, 3 generations | the properties of `SelfTest` |
| `selftest_cleanup` | the same | finding: `EventuallyCleanedUp` |
| `parts` | one of the five modules at a time: a heap of 6 items with 3 values; durations of 7 bits and floating-point numbers of 4; names of 8 bytes; 16128 handler configurations and 84 files; 2 tasks with a retry, prunings and 2 scrapes at a time | the properties of `PrioQueue`, `RetryStrategy`, `UniqueName`, `TriggerQuery`, `HandlerMetrics` |

To repeat one: `tlc -config MCHandlerSafety.cfg MCHandler`.

Bounds.  `MaxTime`, `MaxAttempts` and `MaxNotifiers` bound the scheduler's
clock, retries and goroutines about to notify: with time up to 2 a task can be
early, due and late; two attempts include one retry; one pending notification
next to a set token is all `Set` distinguishes.  Two tasks suffice to compete
for a slot and to be out of order.  `MaxVersion` 2 allows one modification at
any point of the life of a file; `MaxRestarts` 1 one restart at any point;
`MaxFiles` 1 a file before or after any step of the command.  Two handlers let
one fail while the other is at any stage; `MaxConcurrent` 2 lets both work at
once (the code allows 3 and has no other use for the number).  The proofs hold
without these instances.

`Pruning`: a second has 2 ticks and a minute 2 seconds, so that rounding to a
second, to a minute and not at all differ; `MaxTime` 9 lets an entry arrive in any
phase of a minute and become due after the clocks were set back by one; the entry
may come again after it has gone.  `MaxFaults` 1 places a failure, cancellation or
crash at any step.  `SelfTest`: one file waits for a later generation than the
others, generations beyond the last target (`MaxGeneration`) change nothing.
`PrioQueue`: six items are the least number for which an item moved by `Remove` has
to go up.  `JournalDirs`: of three elements the file can be the first, a middle or
the last one.  `RetryStrategy`: widths and fractions are scaled: `MaxDuration` 63 for
overflow within 5 attempts, numbers of four bits (`FourBits`) for rounding from 17
on, with ties, below and above the maximum, and a fuzz of 4/15.  `UniqueName`: sizes are
scaled, `NameAssumption` states the inequalities that hold of the real ones.
`HandlerMetrics`: `MaxRetries`, one task per file, two scrapes instead of the three
that the server admits; the proof is for any number.

Deadlock checking is off: a scheduler without work, a directory without changes
and a command that has ended are quiet, and the bounds add further ends.
Liveness runs use no symmetry.

Fairness.  `Scheduler`: every goroutine that can run does, the mutex starves
nobody (Go's mutex hands over to waiters), task functions return (each attempt
has a time-out) and time passes; nobody is obliged to call an operation or to
cancel a context.
`Handler`: strong fairness of a task's steps and of `handle`, both of which
wait for `h.mu`; that queued tasks are run is `EveryTaskRuns`.  `WatchCommand`:
weak fairness of the command's steps and of its goroutines, which includes that
calls of the Watchman client return; without a time-out in the code this is an
assumption about Watchman.  `SelfTest`: weak fairness of the program's goroutines
and of timeout(1), and the watch command ends when its context is done
(`SignalEnds`); nothing says that the server comes up, that files are handled or
that somebody is cancelled before the time-out.

## Findings

* `journal_race`: the condition after `Mkdir` said EEXIST (`reldir.go:41`) is
  negated.  Two tasks of a fresh directory that race give one of them a
  permanent error.  Where the error is due it is not given: a file that appears
  between `Stat` and `Mkdir` is ignored, and the call succeeds without a directory
  (line 14 says that on success the path to the created directory is returned).
  Further up in the path the next `Mkdir` fails; for the last element the caller
  only learns when it cannot make its own entry.  `PathExists` holds with this
  exception and would not without it.
* `selftest_cleanup`: at the deadline `exec.CommandContext` kills timeout(1)
  (`server.go:64`) before that ends the server.  When the self-test then finds
  `ProcessState` set it does not kill the process group, and the server survives,
  contrary to the comment at lines 43-44.  `NoServerLeft` is about ends within the
  time-out for this reason.
* `handler_stranded`: reports are dropped while a task is pending.  When that task
  then ends without having seen the new content the file stays behind, contrary
  to the README of the program.  TLC's trace has a file that vanished and came
  back; the instance also reaches this state with a file modified during the
  last attempt, and with a journal directory pruned between two attempts, after
  which attempts fail before command and move.  `StrandedReported` shows that the
  metrics count a failed task in these cases.

Observations that no run is about:

* `Stop` does not return on cancellation, as its comment (`scheduler.go:299-300`)
  says: it cancels the tasks and goes on waiting for them.
* A file whose name is so long that the time stamp does not fit in front of it
  is never archived: the first candidate gives ENAMETOOLONG, which ends the loop
  (`OnlyFirstTooLong`).
* A success or failure directory that is the handler's path or contains it cannot
  be excluded by the query; archived files are reported again (`NoFeedback`).
* With `retry_delay_max` 0 and a delay beyond the range of `time.Duration` an attempt
  that is not final can be the last one; on amd64 the conversion gives a negative
  number.  It takes a configuration with delays of centuries (`FinalIsLast`).

## Proofs

TLAPS checks the theorems of eight modules.  Assumptions are those of the
modules: finite sets where something is counted, natural numbers, values such as
`NoTask` that are none of the others, and what configurations and time units must
satisfy.  `UnchangedMoved` alone has hypotheses, `~IOErrors` and `~ShortRetention`.

* `SchedulerProofs`.  `OnePlace` is made inductive by `QueueInv`: numbers given
  out never exceed the counter, and a returned task has a result.
  `CountersExact` is inductive given `QueueInv` (a task that is launched was not
  running).  `NoLostWakeup` is inductive by itself: each action that makes
  something runnable sets the token or leaves a notifier that will, and a loop
  that goes to sleep has just looked.  For `StopDrained` and `NoLostFinish`,
  `CallInv` says that a call of `Stop` has set `loopStopRequested`, that the loop
  returns only then, and that one caller is inside at a time.
* `SchedulerRefinement`.  With `PoolInv` (a queued task is not finished, a retry
  has a due time) every step maps to a step of `TaskPool` or to a stutter:
  `AddEnqueue` and a retry map to `Submit`, `LoopLaunch` to `Begin`, `StopDone` to
  `Abandon`.
* `HandlerProofs`.  `PendingExact` needs only the types of tasks.  For
  `StrandedReported` the strengthening `LockInv` says that a task holds `h.mu` from
  the second Lstat on, and that a successful attempt has left no file behind, or
  one whose report is under way or lost: this is why the late locking is safe.
  `RetriesExact` follows from `RetryInv`, the sum of attempts and retries left.
  `SuccessIsHandled` needs `VersionInv`: versions only grow, so that what the second
  Lstat finds unchanged is what was copied in between.  `UnchangedIsMoved` follows
  from `TriedInv`: a file that differs from the one the attempt found is not the one
  last copied, and a task that is over leaves only such a file.  An earlier form
  of this property said "handed to a command since it was created" and held only
  with one version per file: a file may be replaced between the Lstat and the copy
  of the last attempt, whose command then gets the new one and whose result is
  dropped.  The attempt to prove it showed this.  `ArchivedOnce`, which no run
  checks, follows from `VersionInv` too: a version that was moved to an archive
  directory is in that one only and never comes back.
* `JournalDirsProofs`.  `Rooted` (what exists is in a directory) turns "something is
  there" for an element into "a directory is there" for all before it; with it
  `LoopInv` need only say that the elements before the current one exist, and that
  they are directories for a caller that has not gone past a file.  `AfterInv` says
  the same of the whole path after the loop.
* `WatchCommandProofs`.  The inductive invariant has one part per piece of state.
  `CleanupInv` gives the order of the cleanup group: `Stop` first, so that it runs
  last; `DeleteAll` last.  `StartInv`: before the socket listens nothing can come
  from outside.  `WorkerInv` and `OwnInv` follow a trigger from the goroutine that
  sets it to `g.configured` and to the one that deletes it: `TriggersAccounted`.
  `StopInv` gives `GracefulStop`, `PruneInv` `PruneChain` (a pruning task makes its
  successor in the step in which it ends, and is cancelled only when stopping).
  `SeenInv` says what `FilesSeen` says of each handler from its recrawl on: a
  trigger of an earlier run may have taken a report before.
* `PruningProofs`.  `LockInv` (an open lock file is the one in the directory, since
  `prune` spares it) gives `OneAtATime`.  `AgeInv` (what is listed was old enough
  then) gives `KeptForRetention` and `RecentlyUsedStays`, `DueInv` (what was due is
  listed or gone) gives `Thorough`.  They rest on lemmas about rounding: a deadline
  is a whole number of seconds, so that cutting a time stamp to the second moves
  nothing across it.
* `SelfTestProofs`.  `FlowInv`, `GroupInv` and `TestInv` carry what the tests have
  seen to the exit status; `ServerInv` says that a server without its wrapper is
  one whose time is up, and that after the kill it is dead.
* `PartsProofs`.
  `NoLockCycle`: who waits for `h.mu` holds nothing, and who holds `c.mu` waits for
  nothing.
  `FinalIsLast` and `DelaysBounded`: the attempts and the retries left add up, the
  delay is between the initial one and the maximum or their roundings, and the
  fuzz moves it by less than itself, so that no wait is taken for `Stop`.  That
  rounding errors do not build up is `Multiplied`: from the first product on delays
  are representable, and a representable number times a factor of at least 1,
  rounded, is not below it, since rounding is monotonic and leaves it as it is.
  `HeapImplementsMinQueue`: `Push` and `Update` map to those of `MinQueue`, the end
  of `Pop` and `Remove` to theirs, all swaps to stutters.  `IndexInv` ties the
  slice to the indices.  `OrderInv` says where the heap may be out of order:
  while `up` is at a position, there (`UpOrder`), while `down` is, below it
  (`DownOrder`), in both cases with its parent not above its children.  That the
  root is a minimum would be an induction over positions; it is proved by taking
  the least position whose value is smaller than the root's: its parent's value is
  smaller too, or it is the root.
  `OnlyFirstTooLong` and `StampAndExtensionKept`: `Size` and `WithoutOld` are recursive
  functions.  That they exist, and that sizes add up, is proved with least
  counterexamples too (`Least`).  `Combined` says what `combineWithMaxLen` keeps when
  middle and suffix fit: the longest prefix, and both of them whole; so with
  the inequalities of `NameAssumption` the stamp fits in front.  `NameInv` adds that
  a generator with a stamp never uses the longer time suffix.
  `NoFeedback`: `Clean`, a recursive function as well, gives a path without `.` and with
  `..` only at the beginning of a relative one (`CleanedIsClean`), leaves such a path as
  it is (`CleanStays`), and so comes to the same whether one goes on from a path or
  from its clean form (`CleanConcat`): `Resolve` ends where the walk ends.  `RelIs` says
  what the way there looks like: no `..` exactly if the handler's path is a prefix
  of the target, and `.` if they are the same, which is no directory that Watchman
  knows.  `TriggerAssumption` says that paths are sequences of strings, and that the
  directories of files, as Watchman reports them, have neither `.` nor `..` in them.

Only model-checked:

* all liveness properties: `EveryTaskRuns`, `StopReturns`, `QuiesceReturns`,
  `EveryReportSettles`, `SignalEnds`, `SelfTestEnds` (the prover has no rules for
  fairness);
* the three findings, which are violations;
* that IEEE arithmetic satisfies `FloatAssumption` and that the fuzz stays within
  its fraction is reasoned about in comments only; TLC evaluates the assumption for
  the numbers of four bits.

## Not modelled

Reading the configuration file, the command line, log texts, JSON, `exepath`,
`cmdutil`, and `cmdemu` and `testutil`, which only tests use: sequential code
without state of its own.  Of the metrics, the values and the histogram buckets.
`send-file-changes` delivers one change per process; in a batch the changes behind
a refused one are lost, which both models that deliver changes allow.  Wrap-around
of 64-bit sequence numbers is out of reach of the program and left out.

## Plan

Done, in this order: scheduler and its abstract specification, handler with
tasks and attempts, journal directories, the watch command; proofs of the
first three; pruning with its lock file and age filter, the self-test, the heap
and its abstract specification, retry delays, names, queries, the mutexes of the
metrics; proofs about all of these.

Every safety property that a passing run checks is stated by a theorem.  What is left
for liveness is up to TLC.
