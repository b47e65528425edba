---------------------------- MODULE PruningProofs ----------------------------
(***************************************************************************)
(* Proofs about Pruning, for any number of pruners, directories and        *)
(* entries, any retention, and clocks that are set back by any amount: who *)
(* is inside a directory is alone there, removes nothing too early and     *)
(* leaves nothing that is due.                                             *)
(***************************************************************************)
EXTENDS Pruning, TLAPS

-----------------------------------------------------------------------------
(* Times                                                                   *)

\* Rounding down.
LEMMA Rounded ==
  ASSUME NEW t \in Int, NEW u \in Nat \ {0}
  PROVE  /\ t % u \in 0 .. u - 1
         /\ Truncate(t, u) \in Int /\ Truncate(t, u) <= t /\ t < Truncate(t, u) + u
         /\ \E k \in Int : Truncate(t, u) = u * k
<1>1. t % u \in 0 .. u - 1 /\ t \div u \in Int /\ t = u * (t \div u) + (t % u)
  OBVIOUS
<1>2. Truncate(t, u) = u * (t \div u)
  BY <1>1 DEF Truncate
<1>3. Truncate(t, u) \in Int /\ Truncate(t, u) <= t /\ t < Truncate(t, u) + u
  BY <1>1 DEF Truncate
<1> QED
  BY <1>1, <1>2, <1>3

\* Between two multiples of u there is room for a u.
LEMMA RoundedBelow ==
  ASSUME NEW t \in Int, NEW u \in Nat \ {0}, NEW k \in Int, Truncate(t, u) < u * k
  PROVE  t < u * k
<1>1. PICK j \in Int : Truncate(t, u) = u * j
  BY Rounded
<1>2. t < u * j + u
  BY <1>1, Rounded
<1>3. j < k
  <2> SUFFICES ASSUME j >= k PROVE FALSE
    OBVIOUS
  <2>1. u * j >= u * k
    OBVIOUS
  <2> QED
    BY <1>1, <2>1
<1>4. u * (j + 1) <= u * k
  BY <1>3
<1> QED
  BY <1>2, <1>4

\* The deadline is a whole number of seconds and as long ago as the
\* retention.
LEMMA DeadlineFacts ==
  ASSUME NEW t \in Nat
  PROVE  /\ Deadline(t) \in Int /\ Deadline(t) + Retention <= t
         /\ \E k \in Int : Deadline(t) = Second * k
<1>1. Retention \in Nat /\ Second \in Nat \ {0} /\ Minute \in Nat \ {0} /\ Minute % Second = 0
  BY PruningAssumption
<1>2. t - Retention \in Int
  BY <1>1
<1>3. /\ Deadline(t) \in Int /\ Deadline(t) <= t - Retention
      /\ \E k \in Int : Deadline(t) = Minute * k
  BY <1>1, <1>2, Rounded DEF Deadline
<1>4. PICK k \in Int : Deadline(t) = Minute * k
  BY <1>3
<1>5. Minute = Second * (Minute \div Second) /\ Minute \div Second \in Int
  BY <1>1
<1>6. Deadline(t) = Second * ((Minute \div Second) * k) /\ (Minute \div Second) * k \in Int
  BY <1>1, <1>4, <1>5
<1>7. \E j \in Int : Deadline(t) = Second * j
  BY <1>6
<1>8. Deadline(t) + Retention <= t
  BY <1>1, <1>3
<1> QED
  BY <1>3, <1>7, <1>8

\* A name says when its entry was made, to the second, and but for the time
\* the clocks were set back.
LEMMA StampFacts ==
  ASSUME fold \in Nat, NEW t \in Nat, NEW ts \in ExtractTime(TimePrefix(t))
  PROVE  /\ ts \in Int /\ Local(t) \in Int /\ t - fold <= Local(t)
         /\ TimePrefix(t) \in Int /\ TimePrefix(t) <= ts /\ ts <= t + fold
<1>1. Second \in Nat \ {0} /\ FoldAt \in Nat
  BY PruningAssumption
<1>2. Local(t) \in Int /\ t - fold <= Local(t) /\ Local(t) <= t
  BY <1>1 DEF Local
<1>3. TimePrefix(t) \in Int /\ TimePrefix(t) <= Local(t)
  BY <1>1, <1>2, Rounded DEF TimePrefix
<1>4. ts \in {TimePrefix(t), TimePrefix(t) + fold}
  BY DEF ExtractTime
<1> QED
  BY <1>2, <1>3, <1>4

-----------------------------------------------------------------------------
(* The inductive invariant                                                 *)

\* An open lock file is the one in the directory, as nobody removes it, and
\* has one holder.
LockInv ==
  /\ \A p \in Pruners :
       /\ LockName \notin todo[p]
       /\ pc[p] \in {"lock", "list", "remove"} => fd[p] = lockFile[dir[p]] /\ fd[p] # 0
  /\ \A p, q \in Pruners : Holds(p) /\ Holds(q) /\ fd[p] = fd[q] => p = q

\* What a pruner has listed is still there.
TodoInv ==
  \A p \in Pruners : \A e \in todo[p] :
    pc[p] = "remove" /\ e \in Entries /\ where[e] = dir[p]

\* A deadline is a retention ago.
DeadlineInv ==
  \A p \in Pruners :
    deadline[p] + Retention <= now /\ \E k \in Int : deadline[p] = Second * k

\* What is to be removed was old enough when it was listed.
AgeInv ==
  \A p \in Pruners : \A e \in todo[p] :
    /\ mtime[e] <= deadline[p] \/ e \in fresh[p]
    /\ named[e] => Local(arrived[e]) < deadline[p]

Due(p, e) == mtime[e] <= deadline[p] /\ arrived[e] + fold < deadline[p]

\* What was due has been listed and is removed, or there was an error.
DueInv ==
  \A p \in Pruners : pc[p] = "remove" /\ clean[p] =>
    \A e \in Entries : where[e] = dir[p] /\ Due(p, e) => e \in todo[p]

Inv == TypeOK /\ LockInv /\ TodoInv /\ DeadlineInv /\ AgeInv /\ DueInv

-----------------------------------------------------------------------------
(* Ways for a Run to end                                                   *)

Ended(p) ==
  /\ \E x \in {"open", "idle"}, d \in Dirs, t \in {deadline[p], NoDeadline} :
       /\ pc' = [pc EXCEPT ![p] = x]
       /\ dir' = [dir EXCEPT ![p] = d]
       /\ deadline' = [deadline EXCEPT ![p] = t]
  /\ Closed(p)
  /\ UNCHANGED <<fold, now, entryVars, lockVars, touches>>
  /\ faults' \in {faults, faults + 1}

\* A Run ends after an error, because the lock is taken, when it is through,
\* or with the program.
LEMMA RunEnds ==
  ASSUME TypeOK, NEW p \in Pruners,
         Unavailable(p) \/ RunFails(p) \/ Close(p) \/ Crash(p)
  PROVE  Ended(p)
<1>1. dir[p] \in Dirs /\ 1 \in Dirs /\ NumDirs \in Nat \ {0}
  BY PruningAssumption DEF TypeOK, Dirs
<1>2. deadline = [deadline EXCEPT ![p] = deadline[p]]
  BY DEF TypeOK
<1>3. ASSUME Leave(p)
      PROVE  /\ \E x \in {"open", "idle"}, d \in Dirs, t \in {deadline[p], NoDeadline} :
                  /\ pc' = [pc EXCEPT ![p] = x]
                  /\ dir' = [dir EXCEPT ![p] = d]
                  /\ deadline' = [deadline EXCEPT ![p] = t]
             /\ Closed(p)
  <2>1. CASE dir[p] < NumDirs
    <3>1. /\ pc' = [pc EXCEPT ![p] = "open"] /\ dir' = [dir EXCEPT ![p] = dir[p] + 1]
          /\ deadline' = [deadline EXCEPT ![p] = deadline[p]] /\ Closed(p)
      BY <1>2, <1>3, <2>1 DEF Leave
    <3>2. dir[p] + 1 \in Dirs
      BY <1>1, <2>1 DEF Dirs
    <3> QED
      BY <3>1, <3>2
  <2>2. CASE ~(dir[p] < NumDirs)
    BY <1>1, <1>3, <2>2 DEF Leave, Return
  <2> QED
    BY <2>1, <2>2
<1>4. CASE Unavailable(p)
  BY <1>3, <1>4 DEF Unavailable, Ended
<1>5. CASE RunFails(p)
  BY <1>3, <1>5 DEF RunFails, Fault, Ended
<1>6. CASE Close(p)
  BY <1>3, <1>6 DEF Close, Ended
<1>7. CASE Crash(p)
  BY <1>1, <1>7 DEF Crash, Fault, Return, Ended
<1> QED
  BY <1>4, <1>5, <1>6, <1>7

\* A step is one of these.
LEMMA NextCases ==
  ASSUME TypeOK, [Next]_vars
  PROVE  \/ Tick \/ UNCHANGED vars
         \/ \E e \in Entries : Touch(e)
         \/ \E e \in Entries, d \in Dirs, m \in Times, stamped \in BOOLEAN :
              Arrive(e, d, m, stamped)
         \/ \E p \in Pruners :
              \/ Prune(p) \/ TryLockOpen(p) \/ TryLock(p) \/ ReadDir(p) \/ Cancelled(p)
              \/ Ended(p)
              \/ \E e \in Entries \cup {LockName} : Remove(p, e)
              \/ \E e \in Entries : RemoveFails(p, e)
BY RunEnds, Zenon DEF Next, Run

\* Every step keeps the types.
LEMMA TypeStep == TypeOK /\ [Next]_vars => TypeOK'
<1> SUFFICES ASSUME TypeOK, [Next]_vars PROVE TypeOK'
  OBVIOUS
<1> USE DEF TypeOK
<1>0. /\ MaxTime \in Nat /\ 0 \in Times /\ \A t \in Times : t \in Nat
      /\ NumDirs \in Nat \ {0} /\ \A t \in Nat : Deadline(t) \in Int
  BY PruningAssumption, DeadlineFacts DEF Times
<1>1. CASE Tick
  BY <1>0, <1>1 DEF Tick, entryVars, lockVars, prunerVars, Times
<1>2. CASE UNCHANGED vars
  BY <1>2 DEF vars, entryVars, lockVars, prunerVars
<1>3. ASSUME NEW e \in Entries, Touch(e) PROVE TypeOK'
  BY <1>0, <1>3 DEF Touch, lockVars
<1>4. ASSUME NEW e \in Entries, NEW d \in Dirs, NEW m \in Times, NEW stamped \in BOOLEAN,
             Arrive(e, d, m, stamped)
      PROVE  TypeOK'
  <2>1. named' \in [Entries -> BOOLEAN]
    BY <1>4, Zenon DEF Arrive
  <2>2. d \in 0 .. NumDirs
    BY <1>0 DEF Dirs
  <2>3. where' \in [Entries -> 0 .. NumDirs] /\ arrived' \in [Entries -> Times]
        /\ mtime' \in [Entries -> Times]
    BY <1>0, <1>4, <2>2 DEF Arrive
  <2> QED
    BY <1>4, <2>1, <2>3 DEF Arrive, lockVars, prunerVars
<1>5. ASSUME NEW p \in Pruners, Prune(p) PROVE TypeOK'
  BY <1>0, <1>5 DEF Prune, entryVars, lockVars
<1>6. ASSUME NEW p \in Pruners, TryLockOpen(p) PROVE TypeOK'
  BY <1>0, <1>6 DEF TryLockOpen, entryVars, lockVars
<1>7. ASSUME NEW p \in Pruners, TryLock(p) PROVE TypeOK'
  BY <1>0, <1>7 DEF TryLock, entryVars, lockVars
<1>8. ASSUME NEW p \in Pruners, ReadDir(p) PROVE TypeOK'
  BY <1>0, <1>8 DEF ReadDir, entryVars, lockVars
<1>9. ASSUME NEW p \in Pruners, Cancelled(p) PROVE TypeOK'
  BY <1>0, <1>9 DEF Cancelled, Fault, entryVars, lockVars
<1>10. ASSUME NEW p \in Pruners, Ended(p) PROVE TypeOK'
  BY <1>0, <1>10 DEF Ended, Closed, NoDeadline, entryVars, lockVars
<1>11. ASSUME NEW p \in Pruners, NEW e \in Entries \cup {LockName}, Remove(p, e) PROVE TypeOK'
  <2>1. todo' \in [Pruners -> SUBSET (Entries \cup {LockName})]
    BY <1>11 DEF Remove
  <2>2. CASE e = LockName
    BY <1>11, <2>1, <2>2 DEF Remove, entryVars
  <2>3. CASE e # LockName
    <3>1. named' \in [Entries -> BOOLEAN]
      BY <1>11, <2>3, Zenon DEF Remove, Gone
    <3>2. where' \in [Entries -> 0 .. NumDirs] /\ arrived' \in [Entries -> Times]
          /\ mtime' \in [Entries -> Times]
      BY <1>0, <1>11, <2>3 DEF Remove, Gone
    <3> QED
      BY <1>11, <2>1, <2>3, <3>1, <3>2 DEF Remove
  <2> QED
    BY <2>2, <2>3
<1>12. ASSUME NEW p \in Pruners, NEW e \in Entries, RemoveFails(p, e) PROVE TypeOK'
  BY <1>0, <1>12 DEF RemoveFails, Fault, entryVars, lockVars
<1> QED
  BY <1>1, <1>2, <1>3, <1>4, <1>5, <1>6, <1>7, <1>8, <1>9, <1>10, <1>11, <1>12, NextCases

\* A lock file stays, and flock lets one in.
LEMMA LockStep == TypeOK /\ LockInv /\ [Next]_vars => LockInv'
<1> SUFFICES ASSUME TypeOK, LockInv, [Next]_vars PROVE LockInv'
  OBVIOUS
<1>0. /\ pc \in [Pruners -> {"idle", "open", "lock", "list", "remove"}]
      /\ dir \in [Pruners -> Dirs] /\ fd \in [Pruners -> Nat]
      /\ todo \in [Pruners -> SUBSET (Entries \cup {LockName})]
      /\ lockFile \in [Dirs -> Nat] /\ inodes \in Nat /\ LockName \notin Entries
  BY PruningAssumption DEF TypeOK
<1> USE <1>0 DEF LockInv, Holds
<1>1. CASE Tick
  BY <1>1 DEF Tick, lockVars, prunerVars
<1>2. CASE UNCHANGED vars
  BY <1>2 DEF vars, lockVars, prunerVars
<1>3. ASSUME NEW e \in Entries, Touch(e) PROVE LockInv'
  BY <1>3 DEF Touch, lockVars
<1>4. ASSUME NEW e \in Entries, NEW d \in Dirs, NEW m \in Times, NEW stamped \in BOOLEAN,
             Arrive(e, d, m, stamped)
      PROVE  LockInv'
  BY <1>4 DEF Arrive, lockVars, prunerVars
<1>5. ASSUME NEW p \in Pruners, Prune(p) PROVE LockInv'
  BY <1>5 DEF Prune, lockVars
<1>6. ASSUME NEW p \in Pruners, TryLockOpen(p) PROVE LockInv'
  <2>1. \A d \in Dirs : lockFile[d] # 0 => lockFile'[d] = lockFile[d]
    BY <1>6 DEF TryLockOpen, lockVars
  <2>2. fd'[p] = lockFile'[dir[p]] /\ pc'[p] = "lock" /\ dir' = dir /\ todo' = todo
    BY <1>6 DEF TryLockOpen
  <2>3. \A q \in Pruners : q # p => fd'[q] = fd[q] /\ pc'[q] = pc[q]
    BY <1>6 DEF TryLockOpen
  <2>4. lockFile'[dir[p]] # 0
    BY <1>6 DEF TryLockOpen, lockVars
  <2> QED
    BY <2>1, <2>2, <2>3, <2>4
<1>7. ASSUME NEW p \in Pruners, TryLock(p) PROVE LockInv'
  BY <1>7 DEF TryLock, lockVars
<1>8. ASSUME NEW p \in Pruners, ReadDir(p) PROVE LockInv'
  BY <1>8 DEF ReadDir, Removable, lockVars
<1>9. ASSUME NEW p \in Pruners, Cancelled(p) PROVE LockInv'
  BY <1>9 DEF Cancelled, lockVars
<1>10. ASSUME NEW p \in Pruners, Ended(p) PROVE LockInv'
  BY <1>10 DEF Ended, Closed, lockVars
<1>11. ASSUME NEW p \in Pruners, NEW e \in Entries \cup {LockName}, Remove(p, e) PROVE LockInv'
  BY <1>11 DEF Remove
<1>12. ASSUME NEW p \in Pruners, NEW e \in Entries, RemoveFails(p, e) PROVE LockInv'
  BY <1>12 DEF RemoveFails, lockVars
<1> QED
  BY <1>1, <1>2, <1>3, <1>4, <1>5, <1>6, <1>7, <1>8, <1>9, <1>10, <1>11, <1>12, NextCases

\* A pruner's entries are removed by itself: nobody else is in its directory.
LEMMA TodoStep == TypeOK /\ LockInv /\ TodoInv /\ [Next]_vars => TodoInv'
<1> SUFFICES ASSUME TypeOK, LockInv, TodoInv, [Next]_vars PROVE TodoInv'
  OBVIOUS
<1>0. /\ pc \in [Pruners -> {"idle", "open", "lock", "list", "remove"}]
      /\ dir \in [Pruners -> Dirs] /\ where \in [Entries -> 0 .. NumDirs]
      /\ todo \in [Pruners -> SUBSET (Entries \cup {LockName})]
      /\ \A p \in Pruners : LockName \notin todo[p]
      /\ \A d \in Dirs : d # 0
  BY PruningAssumption DEF TypeOK, LockInv, Dirs
<1> USE <1>0 DEF TodoInv
<1>1. CASE Tick
  BY <1>1 DEF Tick, entryVars, prunerVars
<1>2. CASE UNCHANGED vars
  BY <1>2 DEF vars, entryVars, prunerVars
<1>3. ASSUME NEW e \in Entries, Touch(e) PROVE TodoInv'
  BY <1>3 DEF Touch
<1>4. ASSUME NEW e \in Entries, NEW d \in Dirs, NEW m \in Times, NEW stamped \in BOOLEAN,
             Arrive(e, d, m, stamped)
      PROVE  TodoInv'
  BY <1>4 DEF Arrive, prunerVars
<1>5. ASSUME NEW p \in Pruners, Prune(p) PROVE TodoInv'
  BY <1>5 DEF Prune, entryVars
<1>6. ASSUME NEW p \in Pruners, TryLockOpen(p) PROVE TodoInv'
  BY <1>6 DEF TryLockOpen, entryVars
<1>7. ASSUME NEW p \in Pruners, TryLock(p) PROVE TodoInv'
  BY <1>7 DEF TryLock, entryVars
<1>8. ASSUME NEW p \in Pruners, ReadDir(p) PROVE TodoInv'
  <2>1. PICK S \in SUBSET (Entries \cup {LockName}) :
          Removable(p, S) /\ todo' = [todo EXCEPT ![p] = S]
    BY <1>8 DEF ReadDir
  <2>2. \A e \in S : e \in Entries /\ where[e] = dir[p]
    BY <2>1 DEF Removable
  <2> QED
    BY <1>8, <2>1, <2>2 DEF ReadDir, entryVars
<1>9. ASSUME NEW p \in Pruners, Cancelled(p) PROVE TodoInv'
  BY <1>9 DEF Cancelled, entryVars
<1>10. ASSUME NEW p \in Pruners, Ended(p) PROVE TodoInv'
  BY <1>10 DEF Ended, Closed, entryVars
<1>11. ASSUME NEW p \in Pruners, NEW e \in Entries \cup {LockName}, Remove(p, e) PROVE TodoInv'
  <2>1. e \in todo[p] /\ e \in Entries /\ e # LockName
    BY <1>11 DEF Remove
  <2>2. \A q \in Pruners : q # p => e \notin todo[q]
    BY <2>1 DEF LockInv, Holds
  <2> QED
    BY <1>11, <2>1, <2>2 DEF Remove, Gone
<1>12. ASSUME NEW p \in Pruners, NEW e \in Entries, RemoveFails(p, e) PROVE TodoInv'
  BY <1>12 DEF RemoveFails, entryVars
<1> QED
  BY <1>1, <1>2, <1>3, <1>4, <1>5, <1>6, <1>7, <1>8, <1>9, <1>10, <1>11, <1>12, NextCases

\* Deadlines are computed once, and time goes on.
LEMMA DeadlineStep == TypeOK /\ DeadlineInv /\ [Next]_vars => DeadlineInv'
<1> SUFFICES ASSUME TypeOK, DeadlineInv, [Next]_vars PROVE DeadlineInv'
  OBVIOUS
<1>0. deadline \in [Pruners -> Int] /\ now \in Nat /\ Retention \in Nat /\ NoDeadline \in Int
  BY PruningAssumption, DeadlineFacts DEF TypeOK, Times, NoDeadline
<1>1. ASSUME UNCHANGED deadline, now' \in {now, now + 1} PROVE DeadlineInv'
  BY <1>0, <1>1 DEF DeadlineInv
<1>2. ASSUME NEW p \in Pruners, now' = now,
             \/ deadline' = [deadline EXCEPT ![p] = Deadline(now)]
             \/ deadline' = [deadline EXCEPT ![p] = NoDeadline]
             \/ deadline' = [deadline EXCEPT ![p] = deadline[p]]
      PROVE  DeadlineInv'
  <2>1. Deadline(now) + Retention <= now /\ \E k \in Int : Deadline(now) = Second * k
    BY <1>0, DeadlineFacts
  <2>2. NoDeadline + Retention <= now /\ \E k \in Int : NoDeadline = Second * k
    <3>1. NoDeadline + Retention <= 0 /\ \E k \in Int : NoDeadline = Second * k
      BY DeadlineFacts DEF NoDeadline
    <3> QED
      BY <1>0, <3>1
  <2>3. \A q \in Pruners : deadline'[q] \in {deadline[q], Deadline(now), NoDeadline}
    BY <1>0, <1>2
  <2> QED
    BY <1>2, <2>1, <2>2, <2>3 DEF DeadlineInv
<1>3. CASE Tick
  BY <1>1, <1>3 DEF Tick, prunerVars
<1>4. CASE UNCHANGED vars
  BY <1>1, <1>4 DEF vars, prunerVars
<1>5. CASE \E e \in Entries : Touch(e)
  BY <1>1, <1>5 DEF Touch
<1>6. CASE \E e \in Entries, d \in Dirs, m \in Times, stamped \in BOOLEAN :
              Arrive(e, d, m, stamped)
  BY <1>1, <1>6 DEF Arrive, prunerVars
<1>7. CASE \E p \in Pruners : Prune(p)
  BY <1>2, <1>7 DEF Prune
<1>8. CASE \E p \in Pruners : TryLockOpen(p) \/ TryLock(p) \/ ReadDir(p) \/ Cancelled(p)
  BY <1>1, <1>8 DEF TryLockOpen, TryLock, ReadDir, Cancelled
<1>9. CASE \E p \in Pruners : Ended(p)
  BY <1>2, <1>9 DEF Ended
<1>10. CASE \E p \in Pruners, e \in Entries \cup {LockName} : Remove(p, e)
  BY <1>1, <1>10 DEF Remove
<1>11. CASE \E p \in Pruners, e \in Entries : RemoveFails(p, e)
  BY <1>1, <1>11 DEF RemoveFails
<1> QED
  BY <1>3, <1>4, <1>5, <1>6, <1>7, <1>8, <1>9, <1>10, <1>11, NextCases

\* What the age filter accepts is old.
LEMMA AcceptedIsOld ==
  ASSUME TypeOK, DeadlineInv, NEW p \in Pruners, NEW e \in Entries, TRUE \in Accept(p, e)
  PROVE  mtime[e] <= deadline[p] /\ (named[e] => Local(arrived[e]) < deadline[p])
<1>1. /\ fold \in Nat /\ arrived[e] \in Nat /\ mtime[e] \in Nat /\ deadline[p] \in Int
      /\ Second \in Nat \ {0} /\ FoldAt \in Nat
  BY PruningAssumption DEF TypeOK, Times
<1>2. mtime[e] <= deadline[p]
  <2>1. ~(mtime[e] > deadline[p])
    BY Zenon DEF Accept
  <2> QED
    BY <1>1, <2>1
<1>3. ASSUME named[e] PROVE Local(arrived[e]) < deadline[p]
  <2>1. ~(mtime[e] > deadline[p])
    BY <1>1, <1>2
  <2>2. TRUE \in {ts < deadline[p] : ts \in ExtractTime(TimePrefix(arrived[e]))}
    BY <1>3, <2>1, Zenon DEF Accept
  <2>3. PICK ts \in ExtractTime(TimePrefix(arrived[e])) : ts < deadline[p]
    BY <2>2, Zenon
  <2>4. PICK k \in Int : deadline[p] = Second * k
    BY DEF DeadlineInv
  <2>5. Local(arrived[e]) \in Int /\ TimePrefix(arrived[e]) < deadline[p]
    BY <1>1, <2>3, StampFacts
  <2>6. Truncate(Local(arrived[e]), Second) < Second * k
    BY <2>4, <2>5 DEF TimePrefix
  <2> QED
    BY <1>1, <2>4, <2>5, <2>6, RoundedBelow
<1> QED
  BY <1>2, <1>3

\* The age filter rejects nothing that is due.
LEMMA DueIsAccepted ==
  ASSUME TypeOK, NEW p \in Pruners, NEW e \in Entries, Due(p, e), NEW b \in Accept(p, e)
  PROVE  b
<1>1. /\ fold \in Nat /\ arrived[e] \in Nat /\ mtime[e] \in Nat /\ deadline[p] \in Int
  BY PruningAssumption DEF TypeOK, Times
<1>2. ~(mtime[e] > deadline[p])
  BY <1>1 DEF Due
<1>3. \A ts \in ExtractTime(TimePrefix(arrived[e])) : ts < deadline[p]
  BY <1>1, StampFacts DEF Due
<1>4. CASE ~named[e]
  BY <1>2, <1>4, Zenon DEF Accept
<1>5. CASE named[e]
  <2>1. b \in {ts < deadline[p] : ts \in ExtractTime(TimePrefix(arrived[e]))}
    BY <1>2, <1>5, Zenon DEF Accept
  <2> QED
    BY <1>3, <2>1, Zenon
<1> QED
  BY <1>4, <1>5

\* Nothing young gets onto the list of what is to be removed.
LEMMA AgeStep ==
  TypeOK /\ LockInv /\ TodoInv /\ DeadlineInv /\ AgeInv /\ [Next]_vars => AgeInv'
<1> SUFFICES ASSUME TypeOK, LockInv, TodoInv, DeadlineInv, AgeInv, [Next]_vars PROVE AgeInv'
  OBVIOUS
<1> DEFINE
  Old(p, e) == /\ mtime[e] <= deadline[p] \/ e \in fresh[p]
               /\ named[e] => Local(arrived[e]) < deadline[p]
<1>0. /\ deadline \in [Pruners -> Int] /\ dir \in [Pruners -> Dirs]
      /\ todo \in [Pruners -> SUBSET (Entries \cup {LockName})]
      /\ fresh \in [Pruners -> SUBSET Entries] /\ mtime \in [Entries -> Times]
      /\ arrived \in [Entries -> Times] /\ named \in [Entries -> BOOLEAN]
      /\ where \in [Entries -> 0 .. NumDirs] /\ \A d \in Dirs : d # 0
  BY PruningAssumption DEF TypeOK, Dirs
<1>1. \A p \in Pruners : \A e \in todo[p] : Old(p, e) /\ e \in Entries /\ where[e] = dir[p]
  BY DEF AgeInv, TodoInv
\* Steps that change neither the entries that are listed nor the deadlines.
<1>2. ASSUME UNCHANGED <<fold, deadline, fresh>>,
             \A p \in Pruners : todo'[p] \subseteq todo[p],
             \A p \in Pruners : \A e \in todo'[p] :
               mtime'[e] = mtime[e] /\ arrived'[e] = arrived[e] /\ named'[e] = named[e]
      PROVE  AgeInv'
  BY <1>1, <1>2, ZenonT(30) DEF AgeInv, Local
<1>3. CASE Tick
  BY <1>2, <1>3 DEF Tick, prunerVars, entryVars
<1>4. CASE UNCHANGED vars
  BY <1>2, <1>4 DEF vars, prunerVars, entryVars
<1>5. ASSUME NEW x \in Entries, Touch(x) PROVE AgeInv'
  <2>1. /\ UNCHANGED <<fold, deadline, todo, arrived, named>>
        /\ \A e \in Entries : e # x => mtime'[e] = mtime[e]
    BY <1>0, <1>5 DEF Touch
  <2>2. \A p \in Pruners : /\ fresh[p] \subseteq fresh'[p]
                           /\ x \in todo[p] => x \in fresh'[p]
    BY <1>0, <1>5 DEF Touch
  <2> SUFFICES ASSUME NEW p \in Pruners, NEW e \in todo[p] PROVE Old(p, e)'
    BY <2>1 DEF AgeInv
  <2>3. Old(p, e) /\ e \in Entries
    BY <1>1
  <2>4. CASE e = x
    BY <2>1, <2>2, <2>3, <2>4, Zenon DEF Local
  <2>5. CASE e # x
    <3>1. mtime'[e] = mtime[e]
      BY <2>1, <2>3, <2>5
    <3> QED
      BY <2>1, <2>2, <2>3, <3>1, Zenon DEF Local
  <2> QED
    BY <2>4, <2>5
<1>6. ASSUME NEW x \in Entries, NEW d \in Dirs, NEW m \in Times, NEW stamped \in BOOLEAN,
             Arrive(x, d, m, stamped)
      PROVE  AgeInv'
  <2>1. UNCHANGED <<fold, deadline, fresh, todo>> /\ where[x] = 0
    BY <1>6 DEF Arrive, prunerVars
  <2>2. \A p \in Pruners : \A e \in todo[p] : e \in Entries /\ e # x
    BY <1>0, <1>1, <2>1
  <2>3. \A e \in Entries :
          e # x => mtime'[e] = mtime[e] /\ arrived'[e] = arrived[e] /\ named'[e] = named[e]
    BY <1>0, <1>6 DEF Arrive
  <2> QED
    BY <1>2, <2>1, <2>2, <2>3
<1>7. ASSUME NEW p \in Pruners, Prune(p) PROVE AgeInv'
  <2>1. todo[p] = {}
    BY <1>7 DEF Prune, TodoInv
  <2>2. /\ UNCHANGED <<fold, fresh, todo, mtime, arrived, named>>
        /\ \A q \in Pruners : q # p => deadline'[q] = deadline[q]
    BY <1>0, <1>7 DEF Prune, entryVars
  <2> QED
    BY <1>1, <2>1, <2>2, Zenon DEF AgeInv, Local
<1>8. ASSUME NEW p \in Pruners, TryLockOpen(p) \/ TryLock(p) PROVE AgeInv'
  BY <1>2, <1>8 DEF TryLockOpen, TryLock, entryVars
<1>9. ASSUME NEW p \in Pruners, ReadDir(p) PROVE AgeInv'
  <2>1. PICK S \in SUBSET (Entries \cup {LockName}) :
          Removable(p, S) /\ todo' = [todo EXCEPT ![p] = S]
    BY <1>9 DEF ReadDir
  <2>2. UNCHANGED <<fold, deadline, fresh, mtime, arrived, named>>
    BY <1>9 DEF ReadDir, entryVars
  <2>3. ASSUME NEW e \in S PROVE Old(p, e)
    <3>1. e \in Entries /\ (e \in S) \in Accept(p, e)
      BY <2>1 DEF Removable
    <3>2. TRUE \in Accept(p, e)
      BY <2>3, <3>1, Zenon
    <3> QED
      BY <3>1, <3>2, AcceptedIsOld, Zenon
  <2>4. \A q \in Pruners : \A e \in todo'[q] : Old(q, e)
    BY <1>0, <1>1, <2>1, <2>3, Zenon
  <2> QED
    BY <2>2, <2>4, Zenon DEF AgeInv, Local
<1>10. ASSUME NEW p \in Pruners, Cancelled(p) PROVE AgeInv'
  <2>1. \A q \in Pruners : todo'[q] \subseteq todo[q]
    BY <1>0, <1>10 DEF Cancelled
  <2> QED
    BY <1>2, <1>10, <2>1 DEF Cancelled, entryVars
<1>11. ASSUME NEW p \in Pruners, Ended(p) PROVE AgeInv'
  <2>1. todo'[p] = {} /\ UNCHANGED <<fold, mtime, arrived, named>>
    BY <1>0, <1>11 DEF Ended, Closed, entryVars
  <2>2. \A q \in Pruners : q # p => todo'[q] = todo[q] /\ fresh'[q] = fresh[q]
    BY <1>0, <1>11 DEF Ended, Closed
  <2>3. \A q \in Pruners : q # p => deadline'[q] = deadline[q]
    BY <1>0, <1>11 DEF Ended
  <2> QED
    BY <1>1, <2>1, <2>2, <2>3, Zenon DEF AgeInv, Local
<1>12. ASSUME NEW p \in Pruners, NEW x \in Entries \cup {LockName}, Remove(p, x) PROVE AgeInv'
  <2>1. x \in todo[p] /\ x \in Entries /\ x # LockName
    BY <1>12 DEF Remove, TodoInv, LockInv
  <2>2. \A q \in Pruners : q # p => x \notin todo[q]
    BY <2>1 DEF TodoInv, LockInv, Holds
  <2>3. todo' = [todo EXCEPT ![p] = @ \ {x}] /\ UNCHANGED <<fold, deadline, fresh>>
    BY <1>12 DEF Remove
  <2>4. \A q \in Pruners : todo'[q] \subseteq todo[q] /\ x \notin todo'[q]
    BY <1>0, <2>2, <2>3
  <2>5. \A e \in Entries :
          e # x => mtime'[e] = mtime[e] /\ arrived'[e] = arrived[e] /\ named'[e] = named[e]
    BY <1>0, <1>12, <2>1 DEF Remove, Gone
  <2>6. \A q \in Pruners : \A e \in todo'[q] : e \in Entries /\ e # x
    BY <1>1, <2>4
  <2> QED
    BY <1>2, <2>3, <2>4, <2>5, <2>6
<1>13. ASSUME NEW p \in Pruners, NEW x \in Entries, RemoveFails(p, x) PROVE AgeInv'
  <2>1. \A q \in Pruners : todo'[q] \subseteq todo[q]
    BY <1>0, <1>13 DEF RemoveFails
  <2> QED
    BY <1>2, <1>13, <2>1 DEF RemoveFails, entryVars
<1> QED
  BY <1>3, <1>4, <1>5, <1>6, <1>7, <1>8, <1>9, <1>10, <1>11, <1>12, <1>13, NextCases

\* What is due when a directory is listed is on the list, and nothing that
\* comes later is.
LEMMA DueStep == TypeOK /\ DeadlineInv /\ DueInv /\ [Next]_vars => DueInv'
<1> SUFFICES ASSUME TypeOK, DeadlineInv, DueInv, [Next]_vars PROVE DueInv'
  OBVIOUS
<1>0. /\ deadline \in [Pruners -> Int] /\ dir \in [Pruners -> Dirs]
      /\ pc \in [Pruners -> {"idle", "open", "lock", "list", "remove"}]
      /\ todo \in [Pruners -> SUBSET (Entries \cup {LockName})]
      /\ clean \in [Pruners -> BOOLEAN]
      /\ mtime \in [Entries -> Times] /\ arrived \in [Entries -> Times]
      /\ where \in [Entries -> 0 .. NumDirs]
  BY DEF TypeOK
<1>00. /\ \A d \in Dirs : d # 0
       /\ now \in Nat /\ fold \in Nat /\ Retention \in Nat /\ \A t \in Times : t \in Nat
  BY PruningAssumption DEF TypeOK, Dirs, Times
\* A pruner that the step leaves alone, or which forgets only what has gone.
<1>1. ASSUME NEW q \in Pruners, pc'[q] = pc[q], dir'[q] = dir[q], deadline'[q] = deadline[q],
             clean'[q] = clean[q],
             \A e \in Entries : where'[e] = dir[q] /\ Due(q, e)' =>
                /\ where[e] = dir[q] /\ Due(q, e)
                /\ e \in todo[q] => e \in todo'[q]
      PROVE  pc'[q] = "remove" /\ clean'[q] =>
               \A e \in Entries : where'[e] = dir'[q] /\ Due(q, e)' => e \in todo'[q]
  BY <1>1, Zenon DEF DueInv
\* One which is not, or no longer, removing without error.
<1>2. ASSUME NEW q \in Pruners, pc'[q] # "remove" \/ clean'[q] = FALSE
      PROVE  pc'[q] = "remove" /\ clean'[q] =>
               \A e \in Entries : where'[e] = dir'[q] /\ Due(q, e)' => e \in todo'[q]
  BY <1>2
\* Steps of others.
<1>3. ASSUME UNCHANGED <<pc, dir, deadline, clean, todo>>,
             \A q \in Pruners, e \in Entries :
               where'[e] = dir[q] /\ Due(q, e)' => where[e] = dir[q] /\ Due(q, e)
      PROVE  DueInv'
  BY <1>1, <1>3, Zenon DEF DueInv
<1>4. CASE Tick
  BY <1>3, <1>4 DEF Tick, prunerVars, entryVars, Due
<1>5. CASE UNCHANGED vars
  BY <1>3, <1>5 DEF vars, prunerVars, entryVars, Due
<1>6. ASSUME NEW x \in Entries, Touch(x) PROVE DueInv'
  <2>1. UNCHANGED <<pc, dir, deadline, clean, todo, where, arrived, fold>>
    BY <1>6 DEF Touch
  <2>2. \A e \in Entries : mtime'[e] \in Nat /\ mtime[e] \in Nat /\ mtime[e] <= mtime'[e]
    BY <1>0, <1>00, <1>6 DEF Touch
  <2>3. \A q \in Pruners, e \in Entries : Due(q, e)' => Due(q, e)
    BY <1>0, <2>1, <2>2 DEF Due
  <2> QED
    BY <1>3, <2>1, <2>3
<1>7. ASSUME NEW x \in Entries, NEW d \in Dirs, NEW m \in Times, NEW stamped \in BOOLEAN,
             Arrive(x, d, m, stamped)
      PROVE  DueInv'
  <2>1. UNCHANGED <<pc, dir, deadline, clean, todo, fold>> /\ arrived'[x] = now
    BY <1>0, <1>7 DEF Arrive, prunerVars
  <2>2. \A q \in Pruners : ~Due(q, x)'
    <3> SUFFICES ASSUME NEW q \in Pruners PROVE ~(now + fold < deadline[q])
      BY <2>1 DEF Due
    <3>1. deadline[q] \in Int /\ deadline[q] + Retention <= now
      BY <1>0 DEF DeadlineInv
    <3> QED
      BY <1>00, <3>1
  <2>3. \A e \in Entries :
          e # x => where'[e] = where[e] /\ mtime'[e] = mtime[e] /\ arrived'[e] = arrived[e]
    BY <1>0, <1>7 DEF Arrive
  <2>4. \A q \in Pruners, e \in Entries : e # x => (Due(q, e)' <=> Due(q, e))
    BY <2>1, <2>3 DEF Due
  <2> QED
    BY <1>3, <2>1, <2>2, <2>3, <2>4
<1>8. ASSUME NEW p \in Pruners, Prune(p) \/ TryLockOpen(p) \/ TryLock(p) PROVE DueInv'
  <2>1. UNCHANGED <<dir, todo, clean, where, mtime, arrived, fold>> /\ pc'[p] # "remove"
    BY <1>0, <1>8 DEF Prune, TryLockOpen, TryLock, entryVars
  <2>2. \A q \in Pruners : q # p => pc'[q] = pc[q] /\ deadline'[q] = deadline[q]
    BY <1>0, <1>8 DEF Prune, TryLockOpen, TryLock
  <2>3. \A q \in Pruners, e \in Entries : q # p => (Due(q, e)' <=> Due(q, e))
    BY <2>1, <2>2 DEF Due
  <2> QED
    BY <1>1, <1>2, <2>1, <2>2, <2>3, Zenon DEF DueInv
<1>9. ASSUME NEW p \in Pruners, ReadDir(p) PROVE DueInv'
  <2>1. PICK S \in SUBSET (Entries \cup {LockName}) :
          Removable(p, S) /\ todo' = [todo EXCEPT ![p] = S]
    BY <1>9 DEF ReadDir
  <2>2. UNCHANGED <<dir, deadline, clean, where, mtime, arrived, fold>>
    BY <1>9 DEF ReadDir, entryVars
  <2>3. \A q \in Pruners : q # p => pc'[q] = pc[q] /\ todo'[q] = todo[q]
    BY <1>0, <1>9, <2>1 DEF ReadDir
  <2>4. \A q \in Pruners, e \in Entries : Due(q, e)' <=> Due(q, e)
    BY <2>2 DEF Due
  <2>5. ASSUME NEW e \in Entries, where[e] = dir[p], Due(p, e) PROVE e \in S
    <3>1. (e \in S) \in Accept(p, e)
      BY <2>1, <2>5 DEF Removable
    <3> QED
      BY <2>5, <3>1, DueIsAccepted, Zenon
  <2>6. todo'[p] = S
    BY <1>0, <2>1
  <2> QED
    BY <1>1, <2>2, <2>3, <2>4, <2>5, <2>6, Zenon DEF DueInv
<1>10. ASSUME NEW p \in Pruners,
              Cancelled(p) \/ \E x \in Entries : RemoveFails(p, x)
       PROVE  DueInv'
  <2>1. UNCHANGED <<pc, dir, deadline, where, mtime, arrived, fold>> /\ clean'[p] = FALSE
    BY <1>0, <1>10, Zenon DEF Cancelled, RemoveFails, entryVars
  <2>2. \A q \in Pruners : q # p => clean'[q] = clean[q] /\ todo'[q] = todo[q]
    BY <1>0, <1>10, Zenon DEF Cancelled, RemoveFails
  <2>3. \A q \in Pruners, e \in Entries : Due(q, e)' <=> Due(q, e)
    BY <2>1 DEF Due
  <2> QED
    BY <1>1, <1>2, <2>1, <2>2, <2>3, Zenon DEF DueInv
<1>11. ASSUME NEW p \in Pruners, Ended(p) PROVE DueInv'
  <2>1. UNCHANGED <<where, mtime, arrived, fold>> /\ pc'[p] # "remove"
    BY <1>0, <1>11 DEF Ended, entryVars
  <2>2. \A q \in Pruners : q # p => /\ pc'[q] = pc[q] /\ dir'[q] = dir[q]
                                   /\ deadline'[q] = deadline[q]
    BY <1>0, <1>11 DEF Ended
  <2>3. \A q \in Pruners : q # p => clean'[q] = clean[q] /\ todo'[q] = todo[q]
    BY <1>0, <1>11, Zenon DEF Ended, Closed
  <2>4. \A q \in Pruners, e \in Entries : q # p => (Due(q, e)' <=> Due(q, e))
    BY <2>1, <2>2 DEF Due
  <2> QED
    BY <1>1, <1>2, <2>1, <2>2, <2>3, <2>4, Zenon DEF DueInv
<1>12. ASSUME NEW p \in Pruners, NEW x \in Entries \cup {LockName}, Remove(p, x) PROVE DueInv'
  <2>1. UNCHANGED <<pc, dir, deadline, clean, fold>>
    BY <1>12 DEF Remove
  <2>2. \A q \in Pruners, e \in Entries : e # x /\ e \in todo[q] => e \in todo'[q]
    BY <1>0, <1>12 DEF Remove
  <2>3. x \in Entries => where'[x] = 0
    BY <1>0, <1>12, PruningAssumption DEF Remove, Gone
  <2>4. \A e \in Entries :
          e # x => where'[e] = where[e] /\ mtime'[e] = mtime[e] /\ arrived'[e] = arrived[e]
    BY <1>0, <1>12 DEF Remove, Gone, entryVars
  <2>5. \A q \in Pruners, e \in Entries : e # x => (Due(q, e)' <=> Due(q, e))
    BY <2>1, <2>4 DEF Due
  <2>6. \A q \in Pruners : dir[q] # 0
    BY <1>0, <1>00
  <2>7. ASSUME NEW q \in Pruners, NEW e \in Entries, where'[e] = dir[q], Due(q, e)'
        PROVE  where[e] = dir[q] /\ Due(q, e) /\ (e \in todo[q] => e \in todo'[q])
    BY <2>2, <2>3, <2>4, <2>5, <2>6, <2>7
  <2> QED
    BY <1>1, <2>1, <2>7, Zenon DEF DueInv
<1> QED
  BY <1>4, <1>5, <1>6, <1>7, <1>8, <1>9, <1>10, <1>11, <1>12, NextCases

-----------------------------------------------------------------------------

\* The invariant holds before anybody prunes.
LEMMA InitInv == Init => Inv
<1> SUFFICES ASSUME Init PROVE Inv
  OBVIOUS
<1>1. /\ MaxTime \in Nat /\ 0 \in Times /\ NumDirs \in Nat \ {0} /\ 1 \in Dirs
      /\ NoDeadline \in Int /\ NoDeadline + Retention <= 0
      /\ \E k \in Int : NoDeadline = Second * k
  <2>1. 0 \in Nat /\ NoDeadline = Deadline(0)
    BY DEF NoDeadline
  <2>2. /\ NoDeadline \in Int /\ NoDeadline + Retention <= 0
        /\ \E k \in Int : NoDeadline = Second * k
    BY <2>1, DeadlineFacts
  <2> QED
    BY <2>2, PruningAssumption DEF Times, Dirs
<1>2. TypeOK
  <2>1. named \in [Entries -> BOOLEAN] /\ clean \in [Pruners -> BOOLEAN]
    BY Zenon DEF Init
  <2> QED
    BY <1>1, <2>1 DEF Init, TypeOK
<1>3. LockInv /\ TodoInv /\ AgeInv /\ DueInv
  BY DEF Init, LockInv, TodoInv, AgeInv, DueInv, Holds
<1>4. DeadlineInv
  BY <1>1 DEF Init, DeadlineInv
<1> QED
  BY <1>2, <1>3, <1>4 DEF Inv

\* The parts together are an invariant of the specification.
THEOREM Invariance == Spec => []Inv
<1>1. Inv /\ [Next]_vars => Inv'
  BY TypeStep, LockStep, TodoStep, DeadlineStep, AgeStep, DueStep DEF Inv
<1> QED
  BY InitInv, <1>1, PTL DEF Spec

\* Times, deadlines and listings have their types.
THEOREM TypeCorrect == Spec => []TypeOK
<1>1. Inv => TypeOK
  BY DEF Inv
<1> QED
  BY Invariance, <1>1, PTL

\* At most one of any number of pruners is inside a directory, although lock
\* files are only tried and lie in what is pruned.
THEOREM PrunerIsAlone == Spec => []OneAtATime
<1>1. Inv => OneAtATime
  BY DEF Inv, LockInv, OneAtATime, Holds
<1> QED
  BY Invariance, <1>1, PTL

\* A pruner that gets through a directory without error leaves nothing that
\* was due when it began.
THEOREM PruningIsThorough == Spec => []Thorough
<1>1. Inv => Thorough
  BY Zenon DEF Inv, DueInv, Due, Thorough
<1> QED
  BY Invariance, <1>1, PTL

\* Nothing is removed before its retention is over, for any rounding of names
\* and deadlines, but for the time by which the clocks were set back.
THEOREM RetentionKept == Spec => KeptForRetention
<1> DEFINE
  Kept ==
    \A p \in Pruners, e \in Entries :
       Removes(p, e) /\ named[e] => arrived[e] + Retention - fold < now
<1>1. Inv => Kept
  <2> SUFFICES ASSUME Inv, NEW p \in Pruners, NEW e \in Entries, e \in todo[p],
                      named[e]
               PROVE  arrived[e] + Retention - fold < now
    BY DEF Removes
  <2>1. /\ fold \in Nat /\ arrived[e] \in Nat /\ now \in Nat
        /\ deadline[p] \in Int /\ Retention \in Nat /\ FoldAt \in Nat
    BY PruningAssumption DEF Inv, TypeOK, Times
  <2>2. deadline[p] + Retention <= now
    BY DEF Inv, DeadlineInv
  <2>3. Local(arrived[e]) < deadline[p]
    BY DEF Inv, AgeInv
  <2> QED
    BY <2>1, <2>2, <2>3 DEF Local
<1> QED
  BY Invariance, <1>1, PTL DEF KeptForRetention

\* What a task or a user wrote within the retention is not removed, unless
\* they did after the listing.
THEOREM UsedIsKept == Spec => RecentlyUsedStays
<1> DEFINE
  Stays ==
    \A p \in Pruners, e \in Entries :
       Removes(p, e) => e \in fresh[p] \/ mtime[e] + Retention <= now
<1>1. Inv => Stays
  <2> SUFFICES ASSUME Inv, NEW p \in Pruners, NEW e \in Entries, e \in todo[p],
                      e \notin fresh[p]
               PROVE  mtime[e] + Retention <= now
    BY DEF Removes
  <2>1. mtime[e] \in Nat /\ now \in Nat /\ deadline[p] \in Int /\ Retention \in Nat
    BY PruningAssumption DEF Inv, TypeOK, Times
  <2>2. deadline[p] + Retention <= now /\ mtime[e] <= deadline[p]
    BY DEF Inv, DeadlineInv, AgeInv
  <2> QED
    BY <2>1, <2>2
<1> QED
  BY Invariance, <1>1, PTL DEF RecentlyUsedStays
=============================================================================
