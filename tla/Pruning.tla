------------------------------- MODULE Pruning -------------------------------
(***************************************************************************)
(* Pruning of the journal and archive directories: journal.Prune,          *)
(* prune.Pruner with its lock file and its age filter, and the times that  *)
(* uniquename puts into names and reads back from them.  Pruners are the   *)
(* prunings of several programs (or handlers) that share directories; each *)
(* goes through the directories one after the other.                       *)
(*                                                                         *)
(* Time is counted in ticks, Second and Minute of them being what they are *)
(* called.  Names carry local time without a zone, and once the clocks may *)
(* be set back by fold ticks.                                              *)
(***************************************************************************)
EXTENDS Integers, FiniteSets

CONSTANTS
  Pruners,      \* prunings that may run at the same time
  NumDirs,      \* journal directory (1), success and failure directory
  Entries,      \* what is in them, without the lock files
  LockName,     \* ".prune.lock"
  Retention,    \* journal_retention
  Second, Minute,
  Folds,        \* how far the clocks may be set back, 0: not at all
  FoldAt,       \* when
  MaxTime,      \* bound: time
  MaxTouches,   \* bound: later changes of entries
  MaxFaults     \* bound: failing system calls, cancellations, crashes

ASSUME PruningAssumption ==
  /\ NumDirs \in Nat \ {0} /\ LockName \notin Entries
  /\ Retention \in Nat /\ Second \in Nat \ {0} /\ Minute \in Nat \ {0}
  /\ Minute % Second = 0
  /\ Folds \subseteq Nat /\ \A f \in Folds : f % Minute = 0
  /\ FoldAt \in Nat /\ FoldAt % Minute = 0
  /\ MaxTime \in Nat /\ MaxTouches \in Nat /\ MaxFaults \in Nat

VARIABLES
  fold,      \* how far the clocks are set back at FoldAt
  now,
  where,     \* directory of each entry, 0: there is none
  arrived,   \* when the entry was made, or moved here
  named,     \* does its name begin with a time?
  mtime,     \* its modification time
  lockFile,  \* inode of each directory's lock file, 0: there is none
  inodes,    \* inodes used so far
  pc,        \* what each pruner does
  deadline,  \* what is older may go
  dir,       \* the directory it is at
  fd,        \* inode of the lock file it has open
  todo,      \* entries of the directory listing to remove
  clean,     \* no error in this directory
  fresh,     \* entries that changed after they had been listed
  touches, faults

entryVars  == <<where, arrived, named, mtime>>
lockVars   == <<lockFile, inodes>>
prunerVars == <<pc, deadline, dir, fd, todo, clean, fresh>>
vars == <<fold, now, entryVars, lockVars, prunerVars, touches, faults>>

Times == 0 .. MaxTime
Dirs == 1 .. NumDirs

TypeOK ==
  /\ fold \in Folds /\ now \in Times
  /\ where \in [Entries -> 0 .. NumDirs]
  /\ arrived \in [Entries -> Times] /\ mtime \in [Entries -> Times]
  /\ named \in [Entries -> BOOLEAN]
  /\ lockFile \in [Dirs -> Nat] /\ inodes \in Nat
  /\ pc \in [Pruners -> {"idle", "open", "lock", "list", "remove"}]
  /\ deadline \in [Pruners -> Int] /\ dir \in [Pruners -> Dirs]
  /\ fd \in [Pruners -> Nat] /\ clean \in [Pruners -> BOOLEAN]
  /\ todo \in [Pruners -> SUBSET (Entries \cup {LockName})]
  /\ fresh \in [Pruners -> SUBSET Entries]
  /\ touches \in Nat /\ faults \in Nat

-----------------------------------------------------------------------------
(* Times in names                                                          *)

Truncate(t, unit) == t - (t % unit)

\* The wall clock; a zone's offset is a whole number of minutes.
Local(t) == IF t < FoldAt THEN t ELSE t - fold

\* now.In(Loc).Format("2006-01-02T150405")
TimePrefix(t) == Truncate(Local(t), Second)

\* ParseInLocation gives a time with this wall clock; if there are two, Go
\* does not say which.
ExtractTime(n) ==
  {t \in {n, n + fold} : Local(t) = n}

\* Mutant: not rounded.
DeadlineUnrounded(t) == t - Retention

\* time.Now().Add(-j.cfg.JournalRetention).Truncate(time.Minute)
Deadline(t) == Truncate(t - Retention, Minute)

\* No pruning is under way.
NoDeadline == Deadline(0)

\* Mutant: only files with a time in their names are removed.
AcceptStamped(p, e) ==
  IF mtime[e] > deadline[p] \/ ~named[e] THEN {FALSE}
  ELSE {ts < deadline[p] : ts \in ExtractTime(TimePrefix(arrived[e]))}

\* Mutant: the modification time does not count if the name has a time.
AcceptByName(p, e) ==
  IF ~named[e] THEN {mtime[e] <= deadline[p]}
  ELSE {ts < deadline[p] : ts \in ExtractTime(TimePrefix(arrived[e]))}

\* What MakeAgeFilter may return for an entry.
Accept(p, e) ==
  IF mtime[e] > deadline[p] THEN {FALSE}
  ELSE IF ~named[e] THEN {TRUE}
  ELSE {ts < deadline[p] : ts \in ExtractTime(TimePrefix(arrived[e]))}

Init ==
  /\ fold \in Folds /\ now = 0
  /\ where = [e \in Entries |-> 0] /\ arrived = [e \in Entries |-> 0]
  /\ mtime = [e \in Entries |-> 0] /\ named = [e \in Entries |-> FALSE]
  /\ lockFile = [d \in Dirs |-> 0] /\ inodes = 0
  /\ pc = [p \in Pruners |-> "idle"] /\ deadline = [p \in Pruners |-> NoDeadline]
  /\ dir = [p \in Pruners |-> 1] /\ fd = [p \in Pruners |-> 0]
  /\ todo = [p \in Pruners |-> {}] /\ clean = [p \in Pruners |-> TRUE]
  /\ fresh = [p \in Pruners |-> {}]
  /\ touches = 0 /\ faults = 0

-----------------------------------------------------------------------------
(* What happens in the directories                                         *)

Tick ==
  /\ now < MaxTime
  /\ now' = now + 1
  /\ UNCHANGED <<fold, entryVars, lockVars, prunerVars, touches, faults>>

\* CreateTaskDir in the journal directory, MoveToArchive in the others; the
\* latter keeps the file's own modification time.  Users may leave files of
\* any name.
Arrive(e, d, m, stamped) ==
  /\ where[e] = 0
  /\ m \in {0, now} /\ (d = 1 /\ stamped => m = now)
  /\ where' = [where EXCEPT ![e] = d]
  /\ arrived' = [arrived EXCEPT ![e] = now]
  /\ mtime' = [mtime EXCEPT ![e] = m]
  /\ named' = [named EXCEPT ![e] = stamped]
  /\ UNCHANGED <<fold, now, lockVars, prunerVars, touches, faults>>

\* A further attempt makes a directory in the task's journal directory, or a
\* user rewrites a file.
Touch(e) ==
  /\ touches < MaxTouches /\ where[e] # 0 /\ mtime[e] < now
  /\ touches' = touches + 1
  /\ mtime' = [mtime EXCEPT ![e] = now]
  /\ fresh' = [p \in Pruners |-> IF e \in todo[p] THEN fresh[p] \cup {e} ELSE fresh[p]]
  /\ UNCHANGED <<fold, now, where, arrived, named, lockVars, pc, deadline, dir, fd,
                 todo, clean, faults>>

-----------------------------------------------------------------------------
(* journal.Prune and Pruner.Run                                            *)

Fault == faults < MaxFaults /\ faults' = faults + 1

\* An error of ensureDir ends the pruning before it has begun.
Prune(p) ==
  /\ pc[p] = "idle"
  /\ deadline' = [deadline EXCEPT ![p] = Deadline(now)]
  /\ pc' = [pc EXCEPT ![p] = "open"]
  /\ UNCHANGED <<fold, now, entryVars, lockVars, dir, fd, todo, clean, fresh, touches, faults>>

\* The variables of a Run go out of scope, and its file is closed.
Closed(p) ==
  /\ fd' = [fd EXCEPT ![p] = 0]
  /\ todo' = [todo EXCEPT ![p] = {}]
  /\ fresh' = [fresh EXCEPT ![p] = {}]
  /\ clean' = [clean EXCEPT ![p] = TRUE]

Return(p) ==
  /\ pc' = [pc EXCEPT ![p] = "idle"]
  /\ dir' = [dir EXCEPT ![p] = 1]
  /\ deadline' = [deadline EXCEPT ![p] = NoDeadline]

\* The pruning leaves a directory, after an error too; the lock is closed.
Leave(p) ==
  /\ IF dir[p] < NumDirs
     THEN dir' = [dir EXCEPT ![p] = @ + 1] /\ pc' = [pc EXCEPT ![p] = "open"]
                                          /\ UNCHANGED deadline
     ELSE Return(p)
  /\ Closed(p)

\* TryLock opens the lock file, creating it if need be.
TryLockOpen(p) ==
  /\ pc[p] = "open"
  /\ IF lockFile[dir[p]] = 0
     THEN /\ inodes' = inodes + 1
          /\ lockFile' = [lockFile EXCEPT ![dir[p]] = inodes + 1]
     ELSE UNCHANGED lockVars
  /\ fd' = [fd EXCEPT ![p] = lockFile'[dir[p]]]
  /\ pc' = [pc EXCEPT ![p] = "lock"]
  /\ UNCHANGED <<fold, now, entryVars, deadline, dir, todo, clean, fresh, touches, faults>>

Holds(p) == pc[p] \in {"list", "remove"}

\* flock on the inode, without waiting.
TryLock(p) ==
  /\ pc[p] = "lock"
  /\ ~ \E q \in Pruners : Holds(q) /\ fd[q] = fd[p]
  /\ pc' = [pc EXCEPT ![p] = "list"]
  /\ UNCHANGED <<fold, now, entryVars, lockVars, deadline, dir, fd, todo, clean, fresh,
                 touches, faults>>

\* Run returns ErrUnavailable, and the next directory is tried.
Unavailable(p) ==
  /\ pc[p] = "lock"
  /\ \E q \in Pruners : Holds(q) /\ fd[q] = fd[p]
  /\ Leave(p)
  /\ UNCHANGED <<fold, now, entryVars, lockVars, touches, faults>>

\* Mutant: the lock file is not exempted.
RemovableAlsoLock(p, S) ==
  \A e \in Entries : IF where[e] = dir[p] THEN (e \in S) \in Accept(p, e) ELSE e \notin S

\* S may be what the filter accepts of the entries that ReadDir lists.
Removable(p, S) ==
  /\ LockName \notin S
  /\ \A e \in Entries : IF where[e] = dir[p] THEN (e \in S) \in Accept(p, e) ELSE e \notin S

\* The file information of the listing decides, whatever happens to the
\* entries before their turn comes.
ReadDir(p) ==
  /\ pc[p] = "list"
  /\ \E S \in SUBSET (Entries \cup {LockName}) :
       Removable(p, S) /\ todo' = [todo EXCEPT ![p] = S]
  /\ pc' = [pc EXCEPT ![p] = "remove"]
  /\ UNCHANGED <<fold, now, entryVars, lockVars, deadline, dir, fd, clean, fresh,
                 touches, faults>>

Gone(e) ==
  /\ where' = [where EXCEPT ![e] = 0]
  /\ arrived' = [arrived EXCEPT ![e] = 0]
  /\ mtime' = [mtime EXCEPT ![e] = 0]
  /\ named' = [named EXCEPT ![e] = FALSE]

\* RemoveAll; that another pruner was faster is no error.
Remove(p, e) ==
  /\ pc[p] = "remove" /\ e \in todo[p]
  /\ todo' = [todo EXCEPT ![p] = @ \ {e}]
  /\ IF e = LockName
     THEN lockFile' = [lockFile EXCEPT ![dir[p]] = 0] /\ UNCHANGED entryVars
     ELSE Gone(e) /\ UNCHANGED lockFile
  /\ UNCHANGED <<fold, now, inodes, pc, deadline, dir, fd, clean,
                 fresh, touches, faults>>

\* An error is remembered and the loop goes on.
RemoveFails(p, e) ==
  /\ pc[p] = "remove" /\ e \in todo[p] /\ Fault
  /\ todo' = [todo EXCEPT ![p] = @ \ {e}]
  /\ clean' = [clean EXCEPT ![p] = FALSE]
  /\ UNCHANGED <<fold, now, entryVars, lockVars, pc, deadline, dir, fd, fresh, touches>>

\* Opening the lock file or reading the directory fails.
RunFails(p) ==
  /\ pc[p] \in {"open", "list"} /\ Fault
  /\ Leave(p)
  /\ UNCHANGED <<fold, now, entryVars, lockVars, touches>>

\* The context is cancelled: the rest of the listing is left alone.
Cancelled(p) ==
  /\ pc[p] = "remove" /\ todo[p] # {} /\ Fault
  /\ todo' = [todo EXCEPT ![p] = {}]
  /\ clean' = [clean EXCEPT ![p] = FALSE]
  /\ UNCHANGED <<fold, now, entryVars, lockVars, pc, deadline, dir, fd, fresh, touches>>

\* multierr.Close(lock)
Close(p) ==
  /\ pc[p] = "remove" /\ todo[p] = {}
  /\ Leave(p)
  /\ UNCHANGED <<fold, now, entryVars, lockVars, touches, faults>>

\* The program dies; the kernel closes its files.
Crash(p) ==
  /\ pc[p] # "idle" /\ Fault
  /\ Return(p) /\ Closed(p)
  /\ UNCHANGED <<fold, now, entryVars, lockVars, touches>>

Run(p) ==
  \/ TryLockOpen(p) \/ TryLock(p) \/ Unavailable(p) \/ ReadDir(p)
  \/ \E e \in Entries \cup {LockName} : Remove(p, e)
  \/ Close(p)

Next ==
  \/ Tick
  \/ \E e \in Entries :
       \/ Touch(e)
       \/ \E d \in Dirs, m \in Times, stamped \in BOOLEAN : Arrive(e, d, m, stamped)
  \/ \E p \in Pruners :
       \/ Prune(p) \/ Run(p) \/ RunFails(p) \/ Cancelled(p) \/ Crash(p)
       \/ \E e \in Entries : RemoveFails(p, e)

Spec == Init /\ [][Next]_vars

-----------------------------------------------------------------------------
(* Properties                                                              *)

Removes(p, e) == e \in todo[p] /\ e \notin todo'[p] /\ where[e] # 0 /\ where'[e] = 0

\* "How long to keep journal entries": what the program made or archived is
\* not removed before it has been there for the retention, although names
\* carry whole seconds and the deadline is rounded; only the hour in which
\* clocks are set back may be missing.
KeptForRetention ==
  [][\A p \in Pruners, e \in Entries :
       Removes(p, e) /\ named[e] => arrived[e] + Retention - fold < now]_vars

\* An entry in which a task was at work within the retention, or that a user
\* wrote, is not removed, whatever its name, unless that happened after the
\* directory had been listed.
RecentlyUsedStays ==
  [][\A p \in Pruners, e \in Entries :
       Removes(p, e) => e \in fresh[p] \/ mtime[e] + Retention <= now]_vars

\* At most one pruner is inside a directory, although lock files are only
\* tried, live in the directories that are pruned and outlast crashes.
OneAtATime ==
  \A p, q \in Pruners : Holds(p) /\ Holds(q) /\ dir[p] = dir[q] => p = q

\* A pruner that leaves a directory without error leaves nothing that was
\* due when its pruning began, stamped or not, and whoever put it there;
\* only the time the clocks were set back may have been added to its age.
Thorough ==
  \A p \in Pruners : pc[p] = "remove" /\ todo[p] = {} /\ clean[p] =>
    ~ \E e \in Entries :
        /\ where[e] = dir[p]
        /\ mtime[e] <= deadline[p] /\ arrived[e] + fold < deadline[p]
=============================================================================
