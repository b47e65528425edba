------------------------------- MODULE Handler -------------------------------
(***************************************************************************)
(* One handler of the watch command: the changes Watchman reports          *)
(* (watch/handler.go), the tasks they lead to (internal/handlertask), the  *)
(* attempts at running the command (internal/handlerattempt and            *)
(* internal/handlercommand) and the journal they use.  Users change the    *)
(* files of the observed directory at any time, tasks run in parallel and  *)
(* share the handler's mutex h.mu, the program may end and be started      *)
(* again.  Of the scheduler only what TaskPool promises is used: a queued  *)
(* task is run when one of the slots is free.                              *)
(*                                                                         *)
(* A file is a number: 0 when there is none, otherwise its version, which  *)
(* stands for its content and for what waryio.DescribeChanges compares.    *)
(***************************************************************************)
EXTENDS Integers, FiniteSets

CONSTANTS
  Files,        \* cleaned names below the handler's path
  TaskIds,      \* handlertask.Task objects
  NoTask,
  Slots,        \* -slots
  RetryCount,   \* retry_count
  IOErrors,     \* may file system operations fail for no reason of their own?
  UserRemoves,  \* may users remove files (as opposed to only write them)?
  ShortRetention, \* may journal_retention be shorter than the life of a task?
  MaxVersion,   \* bound: versions of one file
  MaxRestarts   \* bound: ends of the program

ASSUME HandlerAssumption ==
  /\ IsFiniteSet(TaskIds) /\ NoTask \notin TaskIds
  /\ Slots \in Nat /\ RetryCount \in Nat
  /\ IOErrors \in BOOLEAN /\ UserRemoves \in BOOLEAN /\ ShortRetention \in BOOLEAN
  /\ MaxVersion \in Nat /\ MaxRestarts \in Nat

VARIABLES
  fs,          \* version of each file in the observed directory, 0: absent
  versions,    \* versions of each file written so far
  notified,    \* changed files Watchman has yet to report
  pending,     \* h.pending
  mu,          \* the task holding h.mu, NoTask if free
  pc,          \* what each task is doing; "none": there is no such task
  file,        \* opts.Name
  attempt,     \* currentAttempt
  remaining,   \* retry.remaining
  journal,     \* has the task a journal directory: "none", "kept", "pruned"
  statBefore,  \* version seen before the command
  input,       \* version copied for the command
  commandOK,   \* commandErr = nil
  failed,      \* an error will be returned from the attempt
  permanent,   \* the attempt is not to be repeated
  archive,     \* <<file, version, success directory?>> moved away
  handled,     \* <<file, version>> of which the command had a copy and succeeded
  tried,       \* last version of each file that an attempt found and copied
  raced,       \* <<file, version>> written between Lstat and rename
  gaveUp,      \* files whose last task ended with a failure in the metrics
  lost,        \* files whose last report did not get through
  restarts

fileVars    == <<fs, versions, raced>>
attemptVars == <<statBefore, input, commandOK, failed, permanent>>
taskVars    == <<pc, file, attempt, remaining, journal>>
logVars     == <<archive, handled, tried, gaveUp, lost>>
handlerVars == <<pending, mu>>

vars == <<fileVars, notified, handlerVars, taskVars, attemptVars, logVars, restarts>>

Versions == 0 .. MaxVersion

TypeOK ==
  /\ fs \in [Files -> Versions] /\ versions \in [Files -> Versions]
  /\ tried \in [Files -> Versions]
  /\ notified \subseteq Files /\ gaveUp \subseteq Files /\ lost \subseteq Files
  /\ pending \in [Files -> TaskIds \cup {NoTask}]
  /\ mu \in TaskIds \cup {NoTask}
  /\ pc \in [TaskIds -> {"none", "queued", "setup", "copy", "command", "lock",
                         "stat", "move", "exit"}]
  /\ \A i \in TaskIds : pc[i] # "none" => file[i] \in Files
  /\ attempt \in [TaskIds -> Nat] /\ remaining \in [TaskIds -> Int]
  /\ journal \in [TaskIds -> {"none", "kept", "pruned"}]
  /\ statBefore \in [TaskIds -> Versions] /\ input \in [TaskIds -> Versions]
  /\ commandOK \in [TaskIds -> BOOLEAN]
  /\ failed \in [TaskIds -> BOOLEAN] /\ permanent \in [TaskIds -> BOOLEAN]
  /\ archive \subseteq Files \X Versions \X BOOLEAN
  /\ handled \subseteq Files \X Versions /\ raced \subseteq Files \X Versions
  /\ restarts \in Nat

\* Started with an empty directory; Restart starts with what is there.
Init ==
  /\ fs = [f \in Files |-> 0] /\ versions = [f \in Files |-> 0]
  /\ tried = [f \in Files |-> 0]
  /\ notified = {} /\ gaveUp = {} /\ lost = {}
  /\ pending = [f \in Files |-> NoTask] /\ mu = NoTask
  /\ pc = [i \in TaskIds |-> "none"] /\ file = [i \in TaskIds |-> NoTask]
  /\ attempt = [i \in TaskIds |-> 0] /\ remaining = [i \in TaskIds |-> 0]
  /\ journal = [i \in TaskIds |-> "none"]
  /\ statBefore = [i \in TaskIds |-> 0] /\ input = [i \in TaskIds |-> 0]
  /\ commandOK = [i \in TaskIds |-> FALSE]
  /\ failed = [i \in TaskIds |-> FALSE] /\ permanent = [i \in TaskIds |-> FALSE]
  /\ archive = {} /\ handled = {} /\ raced = {}
  /\ restarts = 0

-----------------------------------------------------------------------------
(* Users and Watchman                                                      *)

\* Watchman reports created and changed files (its query has "exists").
UserWrites(f) ==
  /\ versions[f] < MaxVersion
  /\ versions' = [versions EXCEPT ![f] = @ + 1]
  /\ fs' = [fs EXCEPT ![f] = versions[f] + 1]
  /\ notified' = notified \cup {f}
  /\ raced' = IF \E i \in TaskIds : pc[i] = "move" /\ file[i] = f
              THEN raced \cup {<<f, versions[f] + 1>>} ELSE raced
  /\ UNCHANGED <<handlerVars, taskVars, attemptVars, logVars, restarts>>

UserRemovesFile(f) ==
  /\ UserRemoves /\ fs[f] # 0
  /\ fs' = [fs EXCEPT ![f] = 0]
  /\ UNCHANGED <<versions, raced, notified, handlerVars, taskVars,
                 attemptVars, logVars, restarts>>

\* handle: the report is dropped while a task for the file is pending.  Add
\* queues the task inside h.mu.
Handle(f, i) ==
  /\ f \in notified /\ mu = NoTask
  /\ notified' = notified \ {f}
  /\ lost' = lost \ {f}
  /\ IF pending[f] = NoTask
     THEN /\ pc[i] = "none"
          /\ pending' = [pending EXCEPT ![f] = i]
          /\ pc' = [pc EXCEPT ![i] = "queued"]
          /\ file' = [file EXCEPT ![i] = f]
          /\ attempt' = [attempt EXCEPT ![i] = 0]
          /\ remaining' = [remaining EXCEPT ![i] = RetryCount]
          /\ journal' = [journal EXCEPT ![i] = "none"]
     ELSE UNCHANGED <<pending, taskVars>>
  /\ UNCHANGED <<fileVars, mu, attemptVars, archive, handled, tried, gaveUp, restarts>>

\* A report that does not get through: SameStat fails, or send-file-changes
\* is killed or aborts on an earlier file of its batch.
ReportLost(f) ==
  /\ IOErrors /\ f \in notified
  /\ notified' = notified \ {f}
  /\ lost' = lost \cup {f}
  /\ UNCHANGED <<fileVars, handlerVars, taskVars, attemptVars, archive, handled,
                 tried, gaveUp, restarts>>

-----------------------------------------------------------------------------
(* A task and its attempts                                                 *)

\* Mutant: off by one.
FinalOneEarly(i) == remaining[i] <= 1

Final(i) == remaining[i] <= 0

\* Mutant: a file that is still there is taken for unchanged.
UnchangedIfPresent(i) == TRUE

\* DescribeChanges of the file information before and after is empty.
Unchanged(i) == fs[file[i]] = statBefore[i]

Busy == {i \in TaskIds : pc[i] \notin {"none", "queued"}}

\* The attempt ends: with or without an error, to be repeated or not.  An error
\* when log.txt is closed is an error of the attempt.
Conclude(i, bad, perm) ==
  /\ pc' = [pc EXCEPT ![i] = "exit"]
  /\ failed' \in {[failed EXCEPT ![i] = bad \/ broken] : broken \in {FALSE, IOErrors}}
  /\ permanent' = [permanent EXCEPT ![i] = perm]

\* The scheduler's loop launches the task.
Begin(i) ==
  /\ pc[i] = "queued" /\ Cardinality(Busy) < Slots
  /\ pc' = [pc EXCEPT ![i] = "setup"]
  /\ UNCHANGED <<fileVars, notified, handlerVars, file, attempt, remaining,
                 journal, attemptVars, logVars, restarts>>

\* No retry: ensureJournalDir's error is not a TaskError, and those of
\* handlerattempt.New and validateChangedFile are permanent.
SetupFails(i) ==
  /\ IOErrors /\ pc[i] = "setup" /\ journal[i] # "pruned"
  /\ Conclude(i, TRUE, TRUE)
  /\ UNCHANGED <<fileVars, notified, handlerVars, file, attempt, remaining, journal,
                 statBefore, input, commandOK, logVars, restarts>>

\* Opening log.txt or making the attempt's directory fails, as both do when
\* the journal directory is gone.
LogSetupFails(i) ==
  /\ pc[i] = "setup" /\ (IOErrors \/ journal[i] = "pruned")
  /\ journal' = [journal EXCEPT ![i] = IF @ = "none" THEN "kept" ELSE @]
  /\ Conclude(i, TRUE, FALSE)
  /\ UNCHANGED <<fileVars, notified, handlerVars, file, attempt, remaining,
                 statBefore, input, commandOK, logVars, restarts>>

\* The journal is there, validateChangedFile decides.
Validate(i) ==
  /\ pc[i] = "setup" /\ journal[i] # "pruned"
  /\ journal' = [journal EXCEPT ![i] = "kept"]
  /\ IF fs[file[i]] = 0
     THEN Conclude(i, TRUE, TRUE) /\ UNCHANGED statBefore
     ELSE /\ statBefore' = [statBefore EXCEPT ![i] = fs[file[i]]]
          /\ pc' = [pc EXCEPT ![i] = "copy"]
          /\ UNCHANGED <<failed, permanent>>
  /\ UNCHANGED <<fileVars, notified, handlerVars, file, attempt, remaining, input,
                 commandOK, logVars, restarts>>

\* prepare copies the file that is there now.
CopyInput(i) ==
  /\ pc[i] = "copy" /\ fs[file[i]] # 0 /\ journal[i] # "pruned"
  /\ input' = [input EXCEPT ![i] = fs[file[i]]]
  /\ tried' = IF Unchanged(i) THEN [tried EXCEPT ![file[i]] = fs[file[i]]] ELSE tried
  /\ pc' = [pc EXCEPT ![i] = "command"]
  /\ UNCHANGED <<fileVars, notified, handlerVars, file, attempt, remaining, journal,
                 statBefore, commandOK, failed, permanent, archive, handled, gaveUp,
                 lost, restarts>>

\* The file is gone, or was written during the copy, or the journal directory
\* is gone, or another step fails.
PrepareFails(i) ==
  /\ pc[i] = "copy"
  /\ IOErrors \/ fs[file[i]] # statBefore[i] \/ journal[i] = "pruned"
  /\ commandOK' = [commandOK EXCEPT ![i] = FALSE]
  /\ pc' = [pc EXCEPT ![i] = "lock"]
  /\ UNCHANGED <<fileVars, notified, handlerVars, file, attempt, remaining, journal,
                 statBefore, input, failed, permanent, logVars, restarts>>

\* Exit status, time-out or cancellation.
CommandExits(i, ok) ==
  /\ pc[i] = "command"
  /\ commandOK' = [commandOK EXCEPT ![i] = ok]
  /\ handled' = IF ok THEN handled \cup {<<file[i], input[i]>>} ELSE handled
  /\ pc' = [pc EXCEPT ![i] = "lock"]
  /\ UNCHANGED <<fileVars, notified, handlerVars, file, attempt, remaining, journal,
                 statBefore, input, failed, permanent, archive, tried, gaveUp,
                 lost, restarts>>

\* Mutant: the lock is not taken.
AcquireLockNot(i) ==
  /\ pc[i] = "lock"
  /\ pc' = [pc EXCEPT ![i] = "stat"]
  /\ UNCHANGED <<fileVars, notified, handlerVars, file, attempt, remaining, journal,
                 attemptVars, logVars, restarts>>

AcquireLock(i) ==
  /\ pc[i] = "lock" /\ mu = NoTask
  /\ mu' = i
  /\ pc' = [pc EXCEPT ![i] = "stat"]
  /\ UNCHANGED <<fileVars, notified, pending, file, attempt, remaining, journal,
                 attemptVars, logVars, restarts>>

\* Mutant: only successfully handled files are moved.
MovableOnSuccess(i) == commandOK[i]

Movable(i) == commandOK[i] \/ Final(i)

\* The changed file is moved if it still exists and is unchanged.
StatAfter(i) ==
  /\ pc[i] = "stat"
  /\ \/ fs[file[i]] = 0 /\ Conclude(i, ~commandOK[i], TRUE)
     \/ fs[file[i]] # 0 /\ ~Unchanged(i) /\ Conclude(i, TRUE, FALSE)
     \/ fs[file[i]] # 0 /\ Unchanged(i) /\ ~Movable(i) /\ Conclude(i, TRUE, FALSE)
     \/ /\ fs[file[i]] # 0 /\ Unchanged(i) /\ Movable(i)
        /\ pc' = [pc EXCEPT ![i] = "move"]
        /\ UNCHANGED <<failed, permanent>>
     \/ IOErrors /\ Conclude(i, TRUE, FALSE)
  /\ UNCHANGED <<fileVars, notified, handlerVars, file, attempt, remaining, journal,
                 statBefore, input, commandOK, logVars, restarts>>

\* MoveToArchive renames whatever is there by now.
MoveToArchive(i) ==
  /\ pc[i] = "move" /\ fs[file[i]] # 0
  /\ archive' = archive \cup {<<file[i], fs[file[i]], commandOK[i]>>}
  /\ fs' = [fs EXCEPT ![file[i]] = 0]
  /\ Conclude(i, ~commandOK[i], FALSE)
  /\ UNCHANGED <<versions, raced, notified, handlerVars, file, attempt,
                 remaining, journal, statBefore, input, commandOK, handled, tried,
                 gaveUp, lost, restarts>>

MoveFails(i) ==
  /\ pc[i] = "move" /\ (IOErrors \/ fs[file[i]] = 0)
  /\ Conclude(i, TRUE, FALSE)
  /\ UNCHANGED <<fileVars, notified, handlerVars, file, attempt, remaining, journal,
                 statBefore, input, commandOK, logVars, restarts>>

\* Does invokeTask see a permanent result?  nil and permanent errors are, and
\* so is the TaskError with the delay Stop of a last attempt.
Ended(i) == permanent[i] \/ ~failed[i] \/ Final(i)

\* The variables of the attempt go out of scope.
Forget(i) ==
  /\ statBefore' = [statBefore EXCEPT ![i] = 0]
  /\ input' = [input EXCEPT ![i] = 0]
  /\ commandOK' = [commandOK EXCEPT ![i] = FALSE]
  /\ failed' = [failed EXCEPT ![i] = FALSE]
  /\ permanent' = [permanent EXCEPT ![i] = FALSE]

\* Mutant: the deferred function does not unlock.
UnlockNot(i) == UNCHANGED mu

Unlock(i) == mu' = IF mu = i THEN NoTask ELSE mu

\* Mutant: the entry stays in h.pending.
FinishStaysPending(i) ==
  /\ pc[i] = "exit" /\ Ended(i)
  /\ mu \in {NoTask, i}
  /\ mu' = NoTask
  /\ gaveUp' = IF failed[i] THEN gaveUp \cup {file[i]} ELSE gaveUp \ {file[i]}
  /\ pc' = [pc EXCEPT ![i] = "none"]
  /\ file' = [file EXCEPT ![i] = NoTask]
  /\ Forget(i)
  /\ UNCHANGED <<fileVars, notified, pending, attempt, remaining, journal,
                 archive, handled, tried, lost, restarts>>

\* Mutant: a task that is over is queued again.
FinishQueued(i) ==
  /\ pc[i] = "exit" /\ Ended(i)
  /\ mu \in {NoTask, i}
  /\ pending' = [pending EXCEPT ![file[i]] = NoTask]
  /\ mu' = NoTask
  /\ pc' = [pc EXCEPT ![i] = "queued"]
  /\ file' = [file EXCEPT ![i] = NoTask]
  /\ Forget(i)
  /\ UNCHANGED <<fileVars, notified, attempt, remaining, journal, gaveUp,
                 archive, handled, tried, lost, restarts>>

\* invokeTask: the task is over and no longer pending.
Finish(i) ==
  /\ pc[i] = "exit" /\ Ended(i)
  /\ mu \in {NoTask, i}
  /\ mu' = NoTask
  /\ pending' = [pending EXCEPT ![file[i]] = NoTask]
  /\ gaveUp' = IF failed[i] THEN gaveUp \cup {file[i]} ELSE gaveUp \ {file[i]}
  /\ pc' = [pc EXCEPT ![i] = "none"]
  /\ file' = [file EXCEPT ![i] = NoTask]
  /\ Forget(i)
  /\ UNCHANGED <<fileVars, notified, attempt, remaining, journal,
                 archive, handled, tried, lost, restarts>>

\* invokeTask: Advance, and back to the scheduler for another attempt.
Retry(i) ==
  /\ pc[i] = "exit" /\ ~Ended(i)
  /\ Unlock(i) /\ Forget(i)
  /\ attempt' = [attempt EXCEPT ![i] = @ + 1]
  /\ remaining' = [remaining EXCEPT ![i] = @ - 1]
  /\ pc' = [pc EXCEPT ![i] = "queued"]
  /\ UNCHANGED <<fileVars, notified, pending, file, journal, logVars, restarts>>

-----------------------------------------------------------------------------
(* Pruning, the program's end and its next start                           *)

\* The age filter looks at the time in the name and at the directory's mtime,
\* that is at the task's last attempt, and knows nothing of h.pending: an entry
\* may go before its task is over if journal_retention is short enough.
Prunable(i) == ShortRetention /\ pc[i] # "none" /\ journal[i] = "kept"

\* prune runs inside h.mu.
Prune(i) ==
  /\ mu = NoTask /\ Prunable(i)
  /\ journal' = [journal EXCEPT ![i] = "pruned"]
  /\ UNCHANGED <<fileVars, notified, handlerVars, pc, file, attempt, remaining,
                 attemptVars, logVars, restarts>>

\* The program ends, orderly or not, and is started again; RecrawlAll makes
\* Watchman report every file that is there.
Restart ==
  /\ restarts < MaxRestarts
  /\ restarts' = restarts + 1
  /\ pc' = [i \in TaskIds |-> "none"]
  /\ file' = [i \in TaskIds |-> NoTask]
  /\ pending' = [f \in Files |-> NoTask]
  /\ mu' = NoTask
  /\ notified' = {f \in Files : fs[f] # 0}
  /\ lost' = {} /\ gaveUp' = {}
  /\ UNCHANGED <<fileVars, attempt, remaining, journal, attemptVars, archive,
                 handled, tried>>

-----------------------------------------------------------------------------
Setup(i) == SetupFails(i) \/ LogSetupFails(i) \/ Validate(i)

Step(i) ==
  \/ Begin(i) \/ Setup(i)
  \/ CopyInput(i) \/ PrepareFails(i)
  \/ \E ok \in BOOLEAN : CommandExits(i, ok)
  \/ AcquireLock(i) \/ StatAfter(i)
  \/ MoveToArchive(i) \/ MoveFails(i)
  \/ Finish(i) \/ Retry(i)

Next ==
  \/ \E f \in Files :
       \/ UserWrites(f) \/ UserRemovesFile(f) \/ ReportLost(f)
       \/ \E i \in TaskIds : Handle(f, i)
  \/ \E i \in TaskIds : Step(i) \/ Prune(i)
  \/ Restart

Spec == Init /\ [][Next]_vars

\* Watchman reports, the scheduler runs what is queued (EveryTaskRuns of
\* Scheduler), commands end (handlerattempt gives each a time-out) and h.mu
\* is a Go mutex, which starves nobody.
FairSpec ==
  /\ Spec
  /\ \A i \in TaskIds : SF_vars(Step(i))
  /\ \A f \in Files : SF_vars(\E i \in TaskIds : Handle(f, i))
-----------------------------------------------------------------------------
(* Properties                                                              *)

\* h.pending is exact: a file has an entry if and only if there is a task for
\* it that is not over, and then it is that task.  So there is at most one
\* task per file, however reports, retries and the delayed locking of
\* invokeTask interleave, and no entry is left behind to swallow reports.
PendingExact ==
  \A f \in Files, i \in TaskIds :
    pending[f] = i <=> pc[i] # "none" /\ file[i] = f

\* Nobody will look at the file again before it changes or the program is
\* restarted.
Stranded(f) == fs[f] # 0 /\ f \notin notified /\ pending[f] = NoTask

\* A file that stays behind in the observed directory is not silent: the
\* metrics count a failed task for it (handle and invokeTask serialize on
\* h.mu, so no report falls between a success and delete(h.pending, ...)), or
\* its report did not reach handle.
StrandedReported ==
  \A f \in Files : Stranded(f) => f \in gaveUp \cup lost

\* What is in the success directory is what the command was given and
\* succeeded with, unless a user wrote the file between the Lstat after the
\* command and the rename (the race README.md admits).
SuccessIsHandled ==
  \A f \in Files, v \in Versions :
    <<f, v, TRUE>> \in archive => <<f, v>> \in handled \cup raced

\* "Number of times a failing command should be retried": a file is moved to
\* the failure directory by attempt retry_count + 1, neither earlier nor
\* later, and there is no further attempt.
RetriesExact ==
  \A i \in TaskIds : pc[i] # "none" =>
    /\ attempt[i] <= RetryCount
    /\ pc[i] = "move" /\ ~commandOK[i] => attempt[i] = RetryCount

\* Every report leads to the end of a task: no attempt is forgotten, h.mu is
\* always released and the entry in h.pending always removed.
EveryReportSettles ==
  \A f \in Files : f \in notified ~> f \notin notified /\ pending[f] = NoTask

\* README.md: "In case of exhausting all retries a file for which the command
\* fails consistently is moved to the `_/failure` directory."  A file that an
\* attempt found and gave to the command, and that has not changed since, does
\* not stay behind, whatever its predecessors went through.
UnchangedIsMoved ==
  \A f \in Files : Stranded(f) => tried[f] # fs[f]

\* What README.md says of a handler comes down to this: every file that is
\* created has the command launched for it, a modification while it runs is
\* "a failure and a subsequent retry", and what fails consistently is moved
\* away.  So a file is handled, moved or looked at again.
NothingStranded ==
  \A f \in Files : ~Stranded(f)
=============================================================================
