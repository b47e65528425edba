---------------------------- MODULE HandlerProofs ----------------------------
(***************************************************************************)
(* Proofs about Handler, for any number of files, tasks, slots and retries *)
(* and whatever may fail.                                                  *)
(***************************************************************************)
EXTENDS Handler, TLAPS

\* The part of the type invariant the proofs about h.pending need.
TaskTypes ==
  /\ pending \in [Files -> TaskIds \cup {NoTask}]
  /\ mu \in TaskIds \cup {NoTask}
  /\ pc \in [TaskIds -> {"none", "queued", "setup", "copy", "command", "lock",
                         "stat", "move", "exit"}]
  /\ DOMAIN file = TaskIds
  /\ \A i \in TaskIds : pc[i] # "none" => file[i] \in Files

\* No task is there at the start.
LEMMA InitTaskTypes == Init => TaskTypes
BY HandlerAssumption DEF Init, TaskTypes

\* The steps that neither begin nor end a task.
PendingFrame ==
  /\ UNCHANGED <<pending, file>>
  /\ DOMAIN pc' = TaskIds
  /\ \A i \in TaskIds : pc'[i] = "none" <=> pc[i] = "none"

\* Only Handle, Finish and Restart change which tasks there are.
LEMMA TaskSteps ==
  ASSUME TaskTypes, [Next]_vars
  PROVE  /\ TaskTypes'
         /\ \/ PendingFrame
            \/ \E f \in Files, i \in TaskIds : Handle(f, i)
            \/ \E i \in TaskIds : Finish(i)
            \/ Restart
<1> USE HandlerAssumption DEF TaskTypes
<1>1. ASSUME NEW f \in Files, UserWrites(f) \/ UserRemovesFile(f) \/ ReportLost(f)
      PROVE  TaskTypes' /\ PendingFrame
  BY <1>1 DEF UserWrites, UserRemovesFile, ReportLost, PendingFrame, handlerVars, taskVars
<1>2. ASSUME NEW f \in Files, NEW i \in TaskIds, Handle(f, i) PROVE TaskTypes'
  BY <1>2 DEF Handle, taskVars
<1>3. ASSUME NEW i \in TaskIds, Begin(i) \/ Setup(i) PROVE TaskTypes' /\ PendingFrame
  BY <1>3 DEF Begin, Setup, SetupFails, LogSetupFails, Validate, Conclude, PendingFrame, handlerVars
<1>4. ASSUME NEW i \in TaskIds, CopyInput(i) \/ PrepareFails(i) \/ AcquireLock(i)
      PROVE  TaskTypes' /\ PendingFrame
  BY <1>4 DEF CopyInput, PrepareFails, AcquireLock, PendingFrame, handlerVars
<1>5. ASSUME NEW i \in TaskIds, NEW ok \in BOOLEAN, CommandExits(i, ok)
      PROVE  TaskTypes' /\ PendingFrame
  BY <1>5 DEF CommandExits, PendingFrame, handlerVars
<1>6. ASSUME NEW i \in TaskIds, StatAfter(i) \/ MoveToArchive(i) \/ MoveFails(i)
      PROVE  TaskTypes' /\ PendingFrame
  BY <1>6 DEF StatAfter, MoveToArchive, MoveFails, Conclude, PendingFrame, handlerVars
<1>7. ASSUME NEW i \in TaskIds, Finish(i) PROVE TaskTypes'
  BY <1>7 DEF Finish
<1>8. ASSUME NEW i \in TaskIds, Retry(i) PROVE TaskTypes' /\ PendingFrame
  BY <1>8 DEF Retry, Unlock, PendingFrame
<1>9. ASSUME NEW i \in TaskIds, Prune(i) PROVE TaskTypes' /\ PendingFrame
  BY <1>9 DEF Prune, PendingFrame, handlerVars
<1>10. CASE Restart
  BY <1>10 DEF Restart
<1>11. CASE UNCHANGED vars
  BY <1>11 DEF vars, taskVars, handlerVars, PendingFrame
<1>12. QED
  BY <1>1, <1>2, <1>3, <1>4, <1>5, <1>6, <1>7, <1>8, <1>9, <1>10, <1>11 DEF Next, Step

\* The changes of h.pending and of the set of tasks go together.
LEMMA PendingStep ==
  ASSUME TaskTypes, PendingExact, [Next]_vars
  PROVE  PendingExact'
<1> USE HandlerAssumption DEF TaskTypes, PendingExact
<1>1. CASE PendingFrame
  BY <1>1 DEF PendingFrame
<1>2. ASSUME NEW f \in Files, NEW i \in TaskIds, Handle(f, i) PROVE PendingExact'
  <2>1. CASE pending[f] = NoTask
    BY <1>2, <2>1 DEF Handle
  <2>2. CASE pending[f] # NoTask
    BY <1>2, <2>2 DEF Handle, taskVars
  <2>3. QED
    BY <2>1, <2>2
<1>3. ASSUME NEW i \in TaskIds, Finish(i) PROVE PendingExact'
  BY <1>3 DEF Finish
<1>4. CASE Restart
  BY <1>4 DEF Restart
<1>5. QED
  BY <1>1, <1>2, <1>3, <1>4, TaskSteps

\* A file has an entry in h.pending if and only if exactly that task for it is
\* not over: never two tasks for a file, never an entry nobody will remove.
THEOREM PendingCorrect == Spec => []PendingExact
<1>1. Init => PendingExact
  BY HandlerAssumption DEF Init, PendingExact
<1>2. TaskTypes /\ [Next]_vars => TaskTypes'
  BY TaskSteps
<1>3. TaskTypes /\ PendingExact /\ [Next]_vars => PendingExact'
  BY PendingStep
<1>4. QED
  BY <1>1, <1>2, <1>3, InitTaskTypes, PTL DEF Spec

-----------------------------------------------------------------------------
(* Files that stay behind                                                  *)

\* Why a success leaves no file behind: the task holds h.mu from the Lstat
\* that follows the command until it is no longer pending, so that no report
\* can be dropped by handle in between; a file written after the move is
\* still to be reported, or its report has been lost.
LockInv ==
  /\ failed \in [TaskIds -> BOOLEAN]
  /\ \A i \in TaskIds :
       /\ pc[i] \in {"stat", "move"} => mu = i
       /\ pc[i] = "exit" /\ ~failed[i] =>
            mu = i /\ (fs[file[i]] = 0 \/ file[i] \in notified \cup lost)

StrandInv == LockInv /\ StrandedReported

\* What an attempt that ends changes.
LEMMA Concluded ==
  ASSUME failed \in [TaskIds -> BOOLEAN], NEW i \in TaskIds, NEW bad \in BOOLEAN, NEW perm,
         Conclude(i, bad, perm)
  PROVE  /\ pc' = [pc EXCEPT ![i] = "exit"]
         /\ failed' \in [TaskIds -> BOOLEAN]
         /\ \A j \in TaskIds : j # i => failed'[j] = failed[j]
         /\ bad => failed'[i]
<1>1. PICK broken \in {FALSE, IOErrors} : failed' = [failed EXCEPT ![i] = bad \/ broken]
  BY DEF Conclude
<1> DEFINE b == bad \/ broken
<1>2. b \in BOOLEAN /\ (bad => b)
  BY HandlerAssumption, Zenon
<1> HIDE DEF b
<1>3. failed' = [failed EXCEPT ![i] = b]
  BY <1>1 DEF b
<1>4. pc' = [pc EXCEPT ![i] = "exit"]
  BY DEF Conclude
<1>5. failed' \in [TaskIds -> BOOLEAN] /\ \A j \in TaskIds : j # i => failed'[j] = failed[j]
  BY <1>2, <1>3
<1>6. bad => failed'[i]
  BY <1>2, <1>3, Zenon
<1>7. QED
  BY <1>4, <1>5, <1>6

\* An attempt that ends with an error, or without one while the task holds
\* h.mu and the file is gone, keeps the invariant.
LEMMA ConcludeStrand ==
  ASSUME TaskTypes, PendingExact, StrandInv,
         NEW i \in TaskIds, NEW bad \in BOOLEAN, NEW perm, Conclude(i, bad, perm),
         pc[i] # "none", bad \/ (mu = i /\ fs'[file[i]] = 0),
         UNCHANGED <<pending, mu, file, notified, lost, gaveUp>>,
         \A f \in Files : fs'[f] = fs[f] \/ fs'[f] = 0
  PROVE  StrandInv'
<1>1. pc' = [pc EXCEPT ![i] = "exit"] /\ failed' \in [TaskIds -> BOOLEAN]
  BY Concluded DEF StrandInv, LockInv
<1>2. /\ \A j \in TaskIds : j # i => failed'[j] = failed[j]
      /\ bad => failed'[i]
  BY Concluded DEF StrandInv, LockInv
<1>3. LockInv'
  <2>1. ASSUME NEW j \in TaskIds, pc'[j] \in {"stat", "move"} PROVE mu' = j
    BY <1>1, <2>1 DEF StrandInv, LockInv, TaskTypes
  <2>2. ASSUME NEW j \in TaskIds, pc'[j] = "exit", ~failed'[j]
        PROVE  mu' = j /\ (fs'[file'[j]] = 0 \/ file'[j] \in notified' \cup lost')
    <3>1. CASE j = i
      BY <1>2, <2>2, <3>1, Zenon
    <3>2. CASE j # i
      <4>1. pc[j] = "exit" /\ ~failed[j]
        BY <1>1, <1>2, <2>2, <3>2 DEF TaskTypes
      <4>2. file[j] \in Files
        BY <4>1 DEF TaskTypes
      <4>3. QED
        BY <4>1, <4>2 DEF StrandInv, LockInv
    <3>3. QED
      BY <3>1, <3>2
  <2>3. QED
    BY <1>1, <2>1, <2>2 DEF LockInv
<1>4. StrandedReported'
  BY DEF StrandInv, StrandedReported, Stranded
<1>5. QED
  BY <1>3, <1>4 DEF StrandInv

\* One case per action.
LEMMA StrandStep ==
  ASSUME TaskTypes, DOMAIN fs = Files, PendingExact, StrandInv, [Next]_vars
  PROVE  DOMAIN fs' = Files /\ StrandInv'
<1> USE HandlerAssumption DEF TaskTypes, PendingExact, StrandInv, LockInv, StrandedReported, Stranded
<1>1. ASSUME NEW f \in Files, UserWrites(f) PROVE DOMAIN fs' = Files /\ StrandInv'
  BY <1>1 DEF UserWrites, handlerVars, taskVars, attemptVars, logVars
<1>2. ASSUME NEW f \in Files, UserRemovesFile(f) PROVE DOMAIN fs' = Files /\ StrandInv'
  BY <1>2 DEF UserRemovesFile, handlerVars, taskVars, attemptVars, logVars
<1>3. ASSUME NEW f \in Files, ReportLost(f) PROVE DOMAIN fs' = Files /\ StrandInv'
  BY <1>3 DEF ReportLost, handlerVars, taskVars, attemptVars, fileVars
<1>4. ASSUME NEW f \in Files, NEW i \in TaskIds, Handle(f, i) PROVE DOMAIN fs' = Files /\ StrandInv'
  <2>1. CASE pending[f] = NoTask
    BY <1>4, <2>1 DEF Handle, attemptVars, fileVars
  <2>2. CASE pending[f] # NoTask
    BY <1>4, <2>2 DEF Handle, taskVars, attemptVars, fileVars
  <2>3. QED
    BY <2>1, <2>2
<1>5. ASSUME NEW i \in TaskIds, SetupFails(i) PROVE DOMAIN fs' = Files /\ StrandInv'
  <2>1. pc[i] # "none" /\ Conclude(i, TRUE, TRUE)
    BY <1>5 DEF SetupFails
  <2>2. UNCHANGED <<fs, pending, mu, file, notified, lost, gaveUp>>
    BY <1>5 DEF SetupFails, handlerVars, logVars, fileVars
  <2>3. QED
    BY <2>1, <2>2, ConcludeStrand
<1>6. ASSUME NEW i \in TaskIds, LogSetupFails(i) PROVE DOMAIN fs' = Files /\ StrandInv'
  <2>1. pc[i] # "none" /\ Conclude(i, TRUE, FALSE)
    BY <1>6 DEF LogSetupFails
  <2>2. UNCHANGED <<fs, pending, mu, file, notified, lost, gaveUp>>
    BY <1>6 DEF LogSetupFails, handlerVars, logVars, fileVars
  <2>3. QED
    BY <2>1, <2>2, ConcludeStrand
<1>7. ASSUME NEW i \in TaskIds, Validate(i) PROVE DOMAIN fs' = Files /\ StrandInv'
  <2>1. UNCHANGED <<fs, pending, mu, file, notified, lost, gaveUp>> /\ pc[i] # "none"
    BY <1>7 DEF Validate, handlerVars, logVars, fileVars
  <2>2. CASE Conclude(i, TRUE, TRUE)
    BY <2>1, <2>2, ConcludeStrand
  <2>3. CASE pc' = [pc EXCEPT ![i] = "copy"] /\ UNCHANGED failed
    BY <2>1, <2>3
  <2>4. QED
    BY <1>7, <2>2, <2>3 DEF Validate
<1>8. ASSUME NEW i \in TaskIds, Begin(i) \/ CopyInput(i) \/ PrepareFails(i) \/ AcquireLock(i)
      PROVE  DOMAIN fs' = Files /\ StrandInv'
  BY <1>8 DEF Begin, CopyInput, PrepareFails, AcquireLock, handlerVars, logVars, fileVars, attemptVars
<1>9. ASSUME NEW i \in TaskIds, NEW ok \in BOOLEAN, CommandExits(i, ok)
      PROVE  DOMAIN fs' = Files /\ StrandInv'
  BY <1>9 DEF CommandExits, handlerVars, logVars, fileVars
<1>10. ASSUME NEW i \in TaskIds, StatAfter(i) PROVE DOMAIN fs' = Files /\ StrandInv'
  <2>1. UNCHANGED <<fs, pending, mu, file, notified, lost, gaveUp>> /\ pc[i] = "stat"
    BY <1>10 DEF StatAfter, handlerVars, logVars, fileVars
  <2>2. CASE fs[file[i]] = 0 /\ Conclude(i, ~commandOK[i], TRUE)
    <3>1. mu = i /\ fs'[file[i]] = 0 /\ (~commandOK[i]) \in BOOLEAN
      BY <2>1, <2>2
    <3>2. QED
      BY <2>1, <2>2, <3>1, ConcludeStrand
  <2>3. CASE Conclude(i, TRUE, FALSE)
    BY <2>1, <2>3, ConcludeStrand
  <2>4. CASE pc' = [pc EXCEPT ![i] = "move"] /\ UNCHANGED failed
    BY <2>1, <2>4
  <2>5. QED
    BY <1>10, <2>2, <2>3, <2>4 DEF StatAfter
<1>11. ASSUME NEW i \in TaskIds, MoveToArchive(i) PROVE DOMAIN fs' = Files /\ StrandInv'
  <2>1. UNCHANGED <<pending, mu, file, notified, lost, gaveUp>> /\ pc[i] = "move"
    BY <1>11 DEF MoveToArchive, handlerVars
  <2>2. fs' = [fs EXCEPT ![file[i]] = 0] /\ file[i] \in Files /\ mu = i
    BY <1>11, <2>1 DEF MoveToArchive
  <2>3. Conclude(i, ~commandOK[i], FALSE) /\ (~commandOK[i]) \in BOOLEAN
    BY <1>11 DEF MoveToArchive
  <2>4. DOMAIN fs' = Files /\ fs'[file[i]] = 0 /\ \A f \in Files : fs'[f] = fs[f] \/ fs'[f] = 0
    BY <2>2
  <2>5. QED
    BY <2>1, <2>2, <2>3, <2>4, ConcludeStrand
<1>12. ASSUME NEW i \in TaskIds, MoveFails(i) PROVE DOMAIN fs' = Files /\ StrandInv'
  <2>1. UNCHANGED <<fs, pending, mu, file, notified, lost, gaveUp>> /\ pc[i] = "move"
    BY <1>12 DEF MoveFails, handlerVars, logVars, fileVars
  <2>2. Conclude(i, TRUE, FALSE)
    BY <1>12 DEF MoveFails
  <2>3. QED
    BY <2>1, <2>2, ConcludeStrand
<1>13. ASSUME NEW i \in TaskIds, Finish(i) PROVE DOMAIN fs' = Files /\ StrandInv'
  BY <1>13 DEF Finish, Forget, fileVars
<1>14. ASSUME NEW i \in TaskIds, Retry(i) PROVE DOMAIN fs' = Files /\ StrandInv'
  BY <1>14 DEF Retry, Forget, Unlock, Ended, logVars, fileVars
<1>15. ASSUME NEW i \in TaskIds, Prune(i) PROVE DOMAIN fs' = Files /\ StrandInv'
  BY <1>15 DEF Prune, handlerVars, attemptVars, logVars, fileVars
<1>16. CASE Restart
  BY <1>16 DEF Restart, attemptVars, fileVars
<1>17. CASE UNCHANGED vars
  BY <1>17 DEF vars, taskVars, handlerVars, attemptVars, logVars, fileVars
<1>18. QED
  BY <1>1, <1>2, <1>3, <1>4, <1>5, <1>6, <1>7, <1>8, <1>9, <1>10, <1>11, <1>12, <1>13, <1>14,
     <1>15, <1>16, <1>17 DEF Next, Step, Setup

\* A file nobody will look at again has been reported as a failure, or its
\* report never reached handle.
THEOREM NothingSilentlyStranded == Spec => []StrandedReported
<1>1. Init => PendingExact /\ DOMAIN fs = Files /\ StrandInv
  BY HandlerAssumption DEF Init, PendingExact, StrandInv, LockInv, StrandedReported, Stranded
<1>2. TaskTypes /\ [Next]_vars => TaskTypes'
  BY TaskSteps
<1>3. TaskTypes /\ PendingExact /\ [Next]_vars => PendingExact'
  BY PendingStep
<1>4. TaskTypes /\ DOMAIN fs = Files /\ PendingExact /\ StrandInv /\ [Next]_vars
        => (DOMAIN fs = Files)' /\ StrandInv'
  BY StrandStep
<1>5. StrandInv => StrandedReported
  BY DEF StrandInv
<1>6. QED
  BY <1>1, <1>2, <1>3, <1>4, <1>5, InitTaskTypes, PTL DEF Spec

-----------------------------------------------------------------------------
(* Types                                                                   *)

Typed == TypeOK /\ DOMAIN file = TaskIds

\* What an attempt that ends leaves in its variables.
LEMMA ConcludedTypes ==
  ASSUME Typed, NEW i \in TaskIds, NEW bad \in BOOLEAN, NEW perm \in BOOLEAN,
         Conclude(i, bad, perm)
  PROVE  /\ pc' = [pc EXCEPT ![i] = "exit"]
         /\ failed' \in [TaskIds -> BOOLEAN]
         /\ permanent' \in [TaskIds -> BOOLEAN]
<1>1. failed \in [TaskIds -> BOOLEAN] /\ permanent \in [TaskIds -> BOOLEAN]
  BY DEF Typed, TypeOK
<1>2. permanent' = [permanent EXCEPT ![i] = perm]
  BY DEF Conclude
<1>3. QED
  BY <1>1, <1>2, Concluded

\* One case per action.
LEMMA TypeStep ==
  ASSUME Typed, [Next]_vars
  PROVE  Typed'
<1> USE HandlerAssumption DEF Typed, TypeOK, Versions
<1>1. ASSUME NEW f \in Files, UserWrites(f) PROVE Typed'
  BY <1>1 DEF UserWrites, handlerVars, taskVars, attemptVars, logVars
<1>2. ASSUME NEW f \in Files, UserRemovesFile(f) PROVE Typed'
  BY <1>2 DEF UserRemovesFile, handlerVars, taskVars, attemptVars, logVars
<1>3. ASSUME NEW f \in Files, ReportLost(f) PROVE Typed'
  BY <1>3 DEF ReportLost, fileVars, handlerVars, taskVars, attemptVars
<1>4. ASSUME NEW f \in Files, NEW i \in TaskIds, Handle(f, i) PROVE Typed'
  <2>1. CASE pending[f] = NoTask
    BY <1>4, <2>1 DEF Handle, fileVars, attemptVars
  <2>2. CASE pending[f] # NoTask
    BY <1>4, <2>2 DEF Handle, fileVars, taskVars, attemptVars
  <2>3. QED
    BY <2>1, <2>2
<1>5. ASSUME NEW i \in TaskIds, SetupFails(i) \/ LogSetupFails(i) PROVE Typed'
  <2>1. PICK perm \in BOOLEAN : Conclude(i, TRUE, perm)
    BY <1>5 DEF SetupFails, LogSetupFails
  <2>2. /\ pc' = [pc EXCEPT ![i] = "exit"]
        /\ failed' \in [TaskIds -> BOOLEAN] /\ permanent' \in [TaskIds -> BOOLEAN]
    BY <2>1, ConcludedTypes
  <2>3. QED
    BY <1>5, <2>2 DEF SetupFails, LogSetupFails, fileVars, handlerVars, logVars
<1>6. ASSUME NEW i \in TaskIds, Validate(i) PROVE Typed'
  <2>1. CASE Conclude(i, TRUE, TRUE) /\ UNCHANGED statBefore
    <3>1. /\ pc' = [pc EXCEPT ![i] = "exit"]
          /\ failed' \in [TaskIds -> BOOLEAN] /\ permanent' \in [TaskIds -> BOOLEAN]
      BY <2>1, ConcludedTypes
    <3>2. QED
      BY <1>6, <2>1, <3>1 DEF Validate, fileVars, handlerVars, logVars
  <2>2. CASE pc' = [pc EXCEPT ![i] = "copy"]
    BY <1>6, <2>2 DEF Validate, Conclude, fileVars, handlerVars, logVars
  <2>3. QED
    BY <1>6, <2>1, <2>2 DEF Validate
<1>7. ASSUME NEW i \in TaskIds, Begin(i) \/ PrepareFails(i) \/ AcquireLock(i) PROVE Typed'
  BY <1>7 DEF Begin, PrepareFails, AcquireLock, fileVars, handlerVars, attemptVars, logVars
<1>8. ASSUME NEW i \in TaskIds, CopyInput(i) PROVE Typed'
  BY <1>8 DEF CopyInput, fileVars, handlerVars
<1>9. ASSUME NEW i \in TaskIds, NEW ok \in BOOLEAN, CommandExits(i, ok) PROVE Typed'
  BY <1>9 DEF CommandExits, fileVars, handlerVars
<1>10. ASSUME NEW i \in TaskIds, StatAfter(i) PROVE Typed'
  <2>1. CASE pc' = [pc EXCEPT ![i] = "move"] /\ UNCHANGED <<failed, permanent>>
    BY <1>10, <2>1 DEF StatAfter, fileVars, handlerVars, logVars
  <2>2. ASSUME NEW bad \in BOOLEAN, NEW perm \in BOOLEAN, Conclude(i, bad, perm) PROVE Typed'
    <3>1. /\ pc' = [pc EXCEPT ![i] = "exit"]
          /\ failed' \in [TaskIds -> BOOLEAN] /\ permanent' \in [TaskIds -> BOOLEAN]
      BY <2>2, ConcludedTypes
    <3>2. QED
      BY <1>10, <3>1 DEF StatAfter, fileVars, handlerVars, logVars
  <2>3. (~commandOK[i]) \in BOOLEAN
    OBVIOUS
  <2>4. QED
    BY <1>10, <2>1, <2>2, <2>3 DEF StatAfter
<1>11. ASSUME NEW i \in TaskIds, MoveToArchive(i) PROVE Typed'
  <2>1. (~commandOK[i]) \in BOOLEAN /\ Conclude(i, ~commandOK[i], FALSE)
    BY <1>11 DEF MoveToArchive
  <2>2. /\ pc' = [pc EXCEPT ![i] = "exit"]
        /\ failed' \in [TaskIds -> BOOLEAN] /\ permanent' \in [TaskIds -> BOOLEAN]
    BY <2>1, ConcludedTypes
  <2>3. file[i] \in Files /\ fs[file[i]] \in Versions
    BY <1>11 DEF MoveToArchive
  <2>4. QED
    BY <1>11, <2>2, <2>3 DEF MoveToArchive, handlerVars
<1>12. ASSUME NEW i \in TaskIds, MoveFails(i) PROVE Typed'
  <2>1. Conclude(i, TRUE, FALSE)
    BY <1>12 DEF MoveFails
  <2>2. /\ pc' = [pc EXCEPT ![i] = "exit"]
        /\ failed' \in [TaskIds -> BOOLEAN] /\ permanent' \in [TaskIds -> BOOLEAN]
    BY <2>1, ConcludedTypes
  <2>3. QED
    BY <1>12, <2>2 DEF MoveFails, fileVars, handlerVars, logVars
<1>13. ASSUME NEW i \in TaskIds, Finish(i) PROVE Typed'
  BY <1>13 DEF Finish, Forget, fileVars
<1>14. ASSUME NEW i \in TaskIds, Retry(i) PROVE Typed'
  BY <1>14 DEF Retry, Forget, Unlock, fileVars, logVars
<1>15. ASSUME NEW i \in TaskIds, Prune(i) PROVE Typed'
  BY <1>15 DEF Prune, fileVars, handlerVars, attemptVars, logVars
<1>16. CASE Restart
  BY <1>16 DEF Restart, fileVars, attemptVars
<1>17. CASE UNCHANGED vars
  BY <1>17 DEF vars, fileVars, taskVars, handlerVars, attemptVars, logVars
<1>18. QED
  BY <1>1, <1>2, <1>3, <1>4, <1>5, <1>6, <1>7, <1>8, <1>9, <1>10, <1>11, <1>12, <1>13, <1>14,
     <1>15, <1>16, <1>17, SMTT(30) DEF Next, Step, Setup

\* Every variable keeps its type, versions stay within their bound.
THEOREM TypeCorrect == Spec => []TypeOK
<1>1. Init => Typed
  BY HandlerAssumption DEF Init, Typed, TypeOK, Versions
<1>2. Typed /\ [Next]_vars => Typed'
  BY TypeStep
<1>3. Typed => TypeOK
  BY DEF Typed
<1>4. QED
  BY <1>1, <1>2, <1>3, PTL DEF Spec

-----------------------------------------------------------------------------
(* Retries                                                                 *)

\* Advance takes one from what remains for every further attempt, and the
\* failure directory is only used when nothing remains.
RetryInv ==
  \A i \in TaskIds : pc[i] # "none" =>
    /\ remaining[i] >= 0 /\ attempt[i] + remaining[i] = RetryCount
    /\ pc[i] = "move" => commandOK[i] \/ Final(i)

\* Only newTask and the last step of an attempt change the counters, and both
\* keep their sum.
LEMMA RetryStep ==
  ASSUME Typed, RetryInv, [Next]_vars
  PROVE  RetryInv'
<1> USE HandlerAssumption DEF Typed, TypeOK, RetryInv, Final
<1>1. ASSUME NEW f \in Files, UserWrites(f) \/ UserRemovesFile(f) \/ ReportLost(f)
      PROVE  RetryInv'
  BY <1>1 DEF UserWrites, UserRemovesFile, ReportLost, taskVars, attemptVars
<1>2. ASSUME NEW f \in Files, NEW i \in TaskIds, Handle(f, i) PROVE RetryInv'
  <2>1. CASE pending[f] = NoTask
    BY <1>2, <2>1 DEF Handle, attemptVars
  <2>2. CASE pending[f] # NoTask
    BY <1>2, <2>2 DEF Handle, taskVars, attemptVars
  <2>3. QED
    BY <2>1, <2>2
<1>3. ASSUME NEW i \in TaskIds, Begin(i) \/ Setup(i) PROVE RetryInv'
  BY <1>3 DEF Begin, Setup, SetupFails, LogSetupFails, Validate, Conclude, attemptVars
<1>4. ASSUME NEW i \in TaskIds, CopyInput(i) \/ PrepareFails(i) \/ AcquireLock(i)
      PROVE  RetryInv'
  BY <1>4 DEF CopyInput, PrepareFails, AcquireLock, attemptVars
<1>5. ASSUME NEW i \in TaskIds, NEW ok \in BOOLEAN, CommandExits(i, ok) PROVE RetryInv'
  BY <1>5 DEF CommandExits
<1>6. ASSUME NEW i \in TaskIds, StatAfter(i) PROVE RetryInv'
  BY <1>6 DEF StatAfter, Conclude, Movable
<1>7. ASSUME NEW i \in TaskIds, MoveToArchive(i) \/ MoveFails(i) PROVE RetryInv'
  BY <1>7 DEF MoveToArchive, MoveFails, Conclude
<1>8. ASSUME NEW i \in TaskIds, Finish(i) PROVE RetryInv'
  BY <1>8 DEF Finish, Forget
<1>9. ASSUME NEW i \in TaskIds, Retry(i) PROVE RetryInv'
  BY <1>9 DEF Retry, Forget, Ended
<1>10. ASSUME NEW i \in TaskIds, Prune(i) PROVE RetryInv'
  BY <1>10 DEF Prune, attemptVars
<1>11. CASE Restart
  BY <1>11 DEF Restart, attemptVars
<1>12. CASE UNCHANGED vars
  BY <1>12 DEF vars, taskVars, attemptVars
<1>13. QED
  BY <1>1, <1>2, <1>3, <1>4, <1>5, <1>6, <1>7, <1>8, <1>9, <1>10, <1>11, <1>12 DEF Next, Step

\* There are never more than RetryCount retries, and a file whose command
\* failed is moved by the last of them.
THEOREM RetriesCounted == Spec => []RetriesExact
<1>1. Init => Typed /\ RetryInv
  BY HandlerAssumption DEF Init, Typed, TypeOK, Versions, RetryInv
<1>2. Typed /\ RetryInv /\ [Next]_vars => Typed' /\ RetryInv'
  BY TypeStep, RetryStep
<1>3. Typed /\ RetryInv => RetriesExact
  BY HandlerAssumption DEF Typed, TypeOK, RetryInv, RetriesExact, Final
<1>4. QED
  BY <1>1, <1>2, <1>3, PTL DEF Spec

-----------------------------------------------------------------------------
(* What was moved to the success directory                                 *)

\* The versions of a file only grow: what an attempt finds, what it copies and
\* what is there at a later time are in this order.
Copied(i) ==
  \/ pc[i] = "command"
  \/ pc[i] \in {"lock", "stat", "move"} /\ commandOK[i]

VersionOf(i) ==
  /\ pc[i] \in {"copy", "command", "lock", "stat", "move"} =>
       /\ statBefore[i] <= versions[file[i]]
       /\ fs[file[i]] = 0 \/ statBefore[i] <= fs[file[i]]
  /\ Copied(i) =>
       /\ statBefore[i] <= input[i] /\ input[i] <= versions[file[i]]
       /\ fs[file[i]] = 0 \/ input[i] <= fs[file[i]]
  /\ pc[i] \in {"lock", "stat", "move"} /\ commandOK[i] => <<file[i], input[i]>> \in handled
  /\ pc[i] = "move" =>
       fs[file[i]] \in {0, statBefore[i]} \/ <<file[i], fs[file[i]]>> \in raced

VersionInv ==
  /\ \A f \in Files : fs[f] <= versions[f]
  /\ \A i \in TaskIds : VersionOf(i)

\* The steps of a task that leave files and versions alone.
LEMMA VersionConclude ==
  ASSUME Typed, VersionInv, NEW i \in TaskIds,
         pc' = [pc EXCEPT ![i] = "exit"],
         UNCHANGED <<versions, raced, file, statBefore, input, commandOK, handled>>,
         DOMAIN fs' = Files, \A f \in Files : fs'[f] = fs[f] \/ fs'[f] = 0
  PROVE  VersionInv'
<1>1. \A f \in Files : fs'[f] <= versions'[f]
  BY HandlerAssumption DEF Typed, TypeOK, VersionInv, Versions
<1>2. ASSUME NEW j \in TaskIds PROVE VersionOf(j)'
  <2>1. CASE pc'[j] \in {"none", "exit"}
    BY <2>1 DEF VersionOf, Copied
  <2>2. CASE pc'[j] \notin {"none", "exit"}
    <3>1. pc'[j] = pc[j] /\ file[j] \in Files
      BY <2>2 DEF Typed, TypeOK
    <3>2. fs'[file[j]] = fs[file[j]] \/ fs'[file[j]] = 0
      BY <3>1
    <3>3. QED
      BY <3>1, <3>2 DEF VersionInv, VersionOf, Copied
  <2>3. QED
    BY <2>1, <2>2
<1>3. QED
  BY <1>1, <1>2 DEF VersionInv

\* Users only make newer versions, and what an attempt copied stays what it
\* was: every step keeps VersionInv.
LEMMA VersionStep ==
  ASSUME Typed, VersionInv, [Next]_vars
  PROVE  VersionInv'
<1> USE HandlerAssumption DEF Typed, TypeOK, VersionInv, VersionOf, Copied, Versions
<1>1. ASSUME NEW f \in Files, UserWrites(f) PROVE VersionInv'
  <2>1. /\ UNCHANGED <<pc, file, statBefore, input, commandOK, handled>>
        /\ versions[f] \in Int /\ versions' = [versions EXCEPT ![f] = versions[f] + 1]
        /\ fs' = [fs EXCEPT ![f] = versions[f] + 1] /\ raced \subseteq raced'
    BY <1>1 DEF UserWrites, taskVars, attemptVars, logVars
  <2>2. ASSUME NEW j \in TaskIds PROVE VersionOf(j)'
    <3>1. CASE pc[j] = "none"
      BY <2>1, <3>1
    <3>2. CASE file[j] = f
      <4>1. /\ versions'[f] = versions[f] + 1 /\ fs'[f] = versions[f] + 1
            /\ statBefore[j] \in Int /\ input[j] \in Int
        BY <2>1
      <4>2. pc[j] = "move" => <<f, fs'[f]>> \in raced'
        BY <1>1, <3>2, <4>1 DEF UserWrites
      <4>3. VersionOf(j) /\ (Copied(j)' <=> Copied(j))
        BY <2>1
      <4>4. /\ pc'[j] = pc[j] /\ file'[j] = f /\ statBefore'[j] = statBefore[j]
            /\ input'[j] = input[j] /\ commandOK'[j] = commandOK[j] /\ handled' = handled
        BY <2>1, <3>2
      <4> HIDE DEF Copied, Typed, TypeOK, VersionInv
      <4>5. QED
        BY <2>1, <3>2, <4>1, <4>2, <4>3, <4>4
    <3>3. CASE pc[j] # "none" /\ file[j] # f
      <4>1. versions'[file[j]] = versions[file[j]] /\ fs'[file[j]] = fs[file[j]]
        BY <2>1, <3>3
      <4>2. VersionOf(j)
        OBVIOUS
      <4>3. QED
        BY <2>1, <4>1, <4>2
    <3>4. QED
      BY <3>1, <3>2, <3>3
  <2>3. QED
    BY <2>1, <2>2
<1>2. ASSUME NEW f \in Files, UserRemovesFile(f) \/ ReportLost(f) PROVE VersionInv'
  <2>1. UNCHANGED <<versions, raced, pc, file, statBefore, input, commandOK, handled>>
    BY <1>2 DEF UserRemovesFile, ReportLost, fileVars, taskVars, attemptVars, logVars
  <2>2. \A g \in Files : fs'[g] = fs[g] \/ fs'[g] = 0
    BY <1>2 DEF UserRemovesFile, ReportLost, fileVars
  <2>3. ASSUME NEW j \in TaskIds PROVE VersionOf(j)'
    <3>1. pc[j] = "none" \/ fs'[file[j]] = fs[file[j]] \/ fs'[file[j]] = 0
      BY <2>2
    <3>2. VersionOf(j)
      OBVIOUS
    <3>3. QED
      BY <2>1, <3>1, <3>2
  <2>4. QED
    BY <2>1, <2>2, <2>3
<1>3. ASSUME NEW f \in Files, NEW i \in TaskIds, Handle(f, i) PROVE VersionInv'
  <2>1. CASE pending[f] = NoTask
    BY <1>3, <2>1 DEF Handle, fileVars, attemptVars
  <2>2. CASE pending[f] # NoTask
    BY <1>3, <2>2 DEF Handle, fileVars, taskVars, attemptVars
  <2>3. QED
    BY <2>1, <2>2
<1>4. ASSUME NEW i \in TaskIds, Begin(i) \/ PrepareFails(i) \/ AcquireLock(i) PROVE VersionInv'
  BY <1>4 DEF Begin, PrepareFails, AcquireLock, fileVars, attemptVars, logVars
<1>5. ASSUME NEW i \in TaskIds, Setup(i) PROVE VersionInv'
  <2>1. CASE pc' = [pc EXCEPT ![i] = "exit"] /\ UNCHANGED statBefore
    BY <1>5, <2>1, VersionConclude
       DEF Setup, SetupFails, LogSetupFails, Validate, fileVars, logVars
  <2>2. CASE pc' = [pc EXCEPT ![i] = "copy"]
    <3>1. statBefore' = [statBefore EXCEPT ![i] = fs[file[i]]]
      BY <1>5, <2>2 DEF Setup, SetupFails, LogSetupFails, Validate, Conclude
    <3>2. UNCHANGED <<fs, versions, raced, file, input, commandOK, handled>>
      BY <1>5 DEF Setup, SetupFails, LogSetupFails, Validate, fileVars, logVars
    <3>3. pc[i] = "setup"
      BY <1>5 DEF Setup, SetupFails, LogSetupFails, Validate
    <3>4. QED
      BY <2>2, <3>1, <3>2, <3>3
  <2>3. QED
    BY <1>5, <2>1, <2>2 DEF Setup, SetupFails, LogSetupFails, Validate, Conclude
<1>6. ASSUME NEW i \in TaskIds, CopyInput(i) PROVE VersionInv'
  <2>1. /\ UNCHANGED <<fs, versions, raced, file, statBefore, commandOK, handled>>
        /\ pc[i] = "copy" /\ pc' = [pc EXCEPT ![i] = "command"] /\ fs[file[i]] # 0
        /\ input' = [input EXCEPT ![i] = fs[file[i]]]
    BY <1>6 DEF CopyInput, fileVars
  <2>2. ASSUME NEW j \in TaskIds, j # i PROVE VersionOf(j)'
    <3>1. pc'[j] = pc[j] /\ input'[j] = input[j] /\ VersionOf(j)
      BY <2>1, <2>2
    <3> HIDE DEF Typed, TypeOK, VersionInv
    <3>2. QED
      BY <2>1, <3>1
  <2>3. VersionOf(i)'
    <3>1. VersionOf(i) /\ pc'[i] = "command" /\ input'[i] = fs[file[i]]
      BY <2>1
    <3>2. file[i] \in Files
      BY <2>1
    <3>3. fs[file[i]] \in Int /\ fs[file[i]] <= versions[file[i]]
      BY <3>2
    <3> HIDE DEF Typed, TypeOK, VersionInv
    <3>4. QED
      BY <2>1, <3>1, <3>3
  <2>4. QED
    BY <2>1, <2>2, <2>3
<1>7. ASSUME NEW i \in TaskIds, NEW ok \in BOOLEAN, CommandExits(i, ok) PROVE VersionInv'
  <2>1. /\ UNCHANGED <<fs, versions, raced, file, statBefore, input>>
        /\ pc[i] = "command" /\ pc' = [pc EXCEPT ![i] = "lock"] /\ handled \subseteq handled'
        /\ commandOK' = [commandOK EXCEPT ![i] = ok]
    BY <1>7 DEF CommandExits, fileVars
  <2>2. ASSUME NEW j \in TaskIds, j # i PROVE VersionOf(j)'
    <3>1. pc'[j] = pc[j] /\ commandOK'[j] = commandOK[j] /\ VersionOf(j)
      BY <2>1, <2>2
    <3> HIDE DEF Typed, TypeOK, VersionInv
    <3>2. QED
      BY <2>1, <3>1
  <2>3. VersionOf(i)'
    <3>1. VersionOf(i) /\ Copied(i) /\ pc'[i] = "lock"
      BY <2>1
    <3>2. commandOK'[i] => <<file[i], input[i]>> \in handled'
      BY <1>7 DEF CommandExits
    <3> HIDE DEF Typed, TypeOK, VersionInv
    <3>3. QED
      BY <2>1, <3>1, <3>2
  <2>4. QED
    BY <2>1, <2>2, <2>3
<1>8. ASSUME NEW i \in TaskIds, StatAfter(i) PROVE VersionInv'
  <2>1. UNCHANGED <<fs, versions, raced, file, statBefore, input, commandOK, handled>>
    BY <1>8 DEF StatAfter, fileVars, logVars
  <2>2. CASE pc' = [pc EXCEPT ![i] = "exit"]
    BY <2>1, <2>2, VersionConclude
  <2>3. CASE pc' = [pc EXCEPT ![i] = "move"] /\ Unchanged(i) /\ pc[i] = "stat"
    BY <2>1, <2>3 DEF Unchanged
  <2>4. QED
    BY <1>8, <2>2, <2>3 DEF StatAfter, Conclude
<1>9. ASSUME NEW i \in TaskIds, MoveToArchive(i) PROVE VersionInv'
  BY <1>9, VersionConclude, ZenonT(40) DEF MoveToArchive, Conclude
<1>10. ASSUME NEW i \in TaskIds, MoveFails(i) PROVE VersionInv'
  BY <1>10, VersionConclude DEF MoveFails, Conclude, fileVars, logVars
<1>11. ASSUME NEW i \in TaskIds, Finish(i) PROVE VersionInv'
  BY <1>11 DEF Finish, Forget, fileVars
<1>12. ASSUME NEW i \in TaskIds, Retry(i) PROVE VersionInv'
  BY <1>12 DEF Retry, Forget, fileVars, logVars
<1>13. ASSUME NEW i \in TaskIds, Prune(i) PROVE VersionInv'
  BY <1>13 DEF Prune, fileVars, attemptVars, logVars
<1>14. CASE Restart
  BY <1>14 DEF Restart, fileVars, attemptVars
<1>15. CASE UNCHANGED vars
  BY <1>15 DEF vars, fileVars, taskVars, attemptVars, logVars
<1> HIDE HandlerAssumption DEF Typed, TypeOK, VersionInv, VersionOf, Copied, Versions
<1>16. QED
  BY <1>1, <1>2, <1>3, <1>4, <1>5, <1>6, <1>7, <1>8, <1>9, <1>10, <1>11, <1>12, <1>13, <1>14,
     <1>15 DEF Next, Step

\* Only MoveToArchive archives, and nothing else is forgotten.
LEMMA ArchiveStep ==
  ASSUME Typed, VersionInv, SuccessIsHandled, [Next]_vars
  PROVE  SuccessIsHandled'
<1> USE HandlerAssumption DEF SuccessIsHandled
<1>1. CASE archive' = archive /\ handled \subseteq handled' /\ raced \subseteq raced'
  BY <1>1
<1>2. ASSUME NEW i \in TaskIds, MoveToArchive(i) PROVE SuccessIsHandled'
  <2>1. archive' = archive \cup {<<file[i], fs[file[i]], commandOK[i]>>}
    BY <1>2 DEF MoveToArchive
  <2>2. UNCHANGED <<handled, raced>>
    BY <1>2 DEF MoveToArchive
  <2>3. ASSUME commandOK[i] PROVE <<file[i], fs[file[i]]>> \in handled \cup raced
    <3>1. /\ pc[i] = "move" /\ fs[file[i]] # 0 /\ file[i] \in Files
          /\ fs[file[i]] \in Int /\ statBefore[i] \in Int /\ input[i] \in Int
      BY <1>2 DEF MoveToArchive, Typed, TypeOK, Versions
    <3>2. <<file[i], input[i]>> \in handled
      BY <2>3, <3>1 DEF VersionInv, VersionOf
    <3>3. CASE fs[file[i]] = statBefore[i]
      <4>1. statBefore[i] <= input[i] /\ input[i] <= fs[file[i]]
        BY <2>3, <3>1 DEF VersionInv, VersionOf, Copied
      <4>2. input[i] = fs[file[i]]
        BY <3>1, <3>3, <4>1
      <4>3. QED
        BY <3>2, <4>2
    <3>4. CASE <<file[i], fs[file[i]]>> \in raced
      BY <3>4
    <3>5. QED
      BY <3>1, <3>3, <3>4 DEF VersionInv, VersionOf
  <2>4. QED
    BY <2>1, <2>2, <2>3
<1>3. ASSUME NEW f \in Files, UserWrites(f) \/ UserRemovesFile(f) \/ ReportLost(f)
      PROVE  archive' = archive /\ handled \subseteq handled' /\ raced \subseteq raced'
  BY <1>3 DEF UserWrites, UserRemovesFile, ReportLost, logVars, fileVars
<1>4. ASSUME NEW f \in Files, NEW i \in TaskIds, Handle(f, i)
      PROVE  UNCHANGED <<archive, handled, raced>>
  BY <1>4 DEF Handle, fileVars
<1>5. ASSUME NEW i \in TaskIds, Begin(i) \/ Setup(i) \/ CopyInput(i) \/ PrepareFails(i)
      PROVE  UNCHANGED <<archive, handled, raced>>
  BY <1>5 DEF Begin, Setup, SetupFails, LogSetupFails, Validate, CopyInput, PrepareFails,
              logVars, fileVars
<1>6. ASSUME NEW i \in TaskIds, NEW ok \in BOOLEAN, CommandExits(i, ok)
      PROVE  archive' = archive /\ handled \subseteq handled' /\ raced' = raced
  BY <1>6 DEF CommandExits, fileVars
<1>7. ASSUME NEW i \in TaskIds, AcquireLock(i) \/ StatAfter(i) \/ MoveFails(i) \/ Finish(i)
                                \/ Retry(i) \/ Prune(i)
      PROVE  UNCHANGED <<archive, handled, raced>>
  BY <1>7 DEF AcquireLock, StatAfter, MoveFails, Finish, Retry, Prune, logVars, fileVars
<1>8. CASE Restart \/ UNCHANGED vars
  BY <1>8 DEF Restart, vars, logVars, fileVars
<1>9. QED
  BY <1>1, <1>2, <1>3, <1>4, <1>5, <1>6, <1>7, <1>8 DEF Next, Step

\* What is in the success directory was given to the command, which succeeded
\* with it, or it was written between the Lstat and the rename.
THEOREM SuccessCorrect == Spec => []SuccessIsHandled
<1>1. Init => Typed /\ VersionInv /\ SuccessIsHandled
  BY HandlerAssumption DEF Init, Typed, TypeOK, Versions, VersionInv, VersionOf, Copied,
                            SuccessIsHandled
<1>2. Typed /\ VersionInv /\ SuccessIsHandled /\ [Next]_vars
        => Typed' /\ VersionInv' /\ SuccessIsHandled'
  BY TypeStep, VersionStep, ArchiveStep
<1>3. QED
  BY <1>1, <1>2, PTL DEF Spec

\* A version that was moved away is not in the observed directory any more, and
\* it is in one archive directory only.
ArchivedOnce ==
  \A f \in Files, v \in Versions, ok \in BOOLEAN :
    <<f, v, ok>> \in archive =>
      v # 0 /\ v <= versions[f] /\ fs[f] # v /\ <<f, v, ~ok>> \notin archive

\* The file is moved, not copied, and users only make newer versions.
LEMMA OnceStep ==
  ASSUME Typed, VersionInv, ArchivedOnce, [Next]_vars
  PROVE  ArchivedOnce'
<1> USE HandlerAssumption
<1>1. CASE /\ archive' = archive /\ versions' = versions
           /\ \A f \in Files : fs'[f] = fs[f] \/ fs'[f] = 0
  BY <1>1 DEF ArchivedOnce
<1>2. ASSUME NEW i \in TaskIds, MoveToArchive(i) PROVE ArchivedOnce'
  <2> DEFINE g == file[i]
             w == fs[g]
             c == commandOK[i]
  <2>1. /\ g \in Files /\ w # 0 /\ w \in Versions /\ c \in BOOLEAN /\ w <= versions[g]
        /\ archive' = archive \cup {<<g, w, c>>} /\ versions' = versions
        /\ fs' = [fs EXCEPT ![g] = 0] /\ DOMAIN fs = Files
    BY <1>2 DEF MoveToArchive, Typed, TypeOK, VersionInv
  <2>2. \A ok \in BOOLEAN : <<g, w, ok>> \notin archive
    BY <2>1 DEF ArchivedOnce
  <2> HIDE DEF g, w, c
  <2>3. ASSUME NEW f \in Files, NEW v \in Versions, NEW ok \in BOOLEAN, <<f, v, ok>> \in archive'
        PROVE  /\ v # 0 /\ v <= versions'[f] /\ fs'[f] # v
               /\ <<f, v, ~ok>> \notin archive'
    <3>1. CASE <<f, v, ok>> = <<g, w, c>>
      <4>1. f = g /\ v = w /\ ok = c /\ fs'[f] = 0
        BY <2>1, <3>1
      <4>2. <<f, v, ~ok>> # <<g, w, c>> /\ <<f, v, ~ok>> \notin archive
        BY <2>2, <4>1
      <4> QED
        BY <2>1, <4>1, <4>2
    <3>2. CASE <<f, v, ok>> \in archive
      <4>1. v # 0 /\ v <= versions[f] /\ fs[f] # v /\ <<f, v, ~ok>> \notin archive
        BY <3>2 DEF ArchivedOnce
      <4>2. <<f, v, ~ok>> # <<g, w, c>>
        BY <2>2, <3>2
      <4> QED
        BY <2>1, <4>1, <4>2
    <3> QED
      BY <2>1, <2>3, <3>1, <3>2
  <2> QED
    BY <2>3 DEF ArchivedOnce
<1>3. ASSUME NEW f \in Files, UserWrites(f) PROVE ArchivedOnce'
  <2>1. /\ archive' = archive
        /\ versions' = [versions EXCEPT ![f] = @ + 1]
        /\ fs' = [fs EXCEPT ![f] = versions[f] + 1]
    BY <1>3 DEF UserWrites, logVars
  <2>2. ASSUME NEW g \in Files, NEW v \in Versions, v <= versions[g], fs[g] # v
        PROVE  v <= versions'[g] /\ fs'[g] # v
    BY <2>1, <2>2 DEF Typed, TypeOK, Versions
  <2> QED
    BY <2>1, <2>2 DEF ArchivedOnce
<1>4. ASSUME NEW f \in Files, UserRemovesFile(f) \/ ReportLost(f)
      PROVE  /\ UNCHANGED <<archive, versions>>
             /\ \A g \in Files : fs'[g] = fs[g] \/ fs'[g] = 0
  BY <1>4 DEF UserRemovesFile, ReportLost, logVars, fileVars, Typed, TypeOK
<1>5. ASSUME NEW f \in Files, NEW i \in TaskIds, Handle(f, i)
      PROVE  UNCHANGED <<archive, versions, fs>>
  BY <1>5 DEF Handle, fileVars
<1>6. ASSUME NEW i \in TaskIds,
             \/ Begin(i) \/ Setup(i) \/ CopyInput(i) \/ PrepareFails(i)
             \/ \E ok \in BOOLEAN : CommandExits(i, ok)
      PROVE  UNCHANGED <<archive, versions, fs>>
  BY <1>6 DEF Begin, Setup, SetupFails, LogSetupFails, Validate, CopyInput, PrepareFails,
              CommandExits, logVars, fileVars
<1>7. ASSUME NEW i \in TaskIds, AcquireLock(i) \/ StatAfter(i) \/ MoveFails(i) \/ Finish(i)
                                \/ Retry(i) \/ Prune(i)
      PROVE  UNCHANGED <<archive, versions, fs>>
  BY <1>7 DEF AcquireLock, StatAfter, MoveFails, Finish, Retry, Prune, logVars, fileVars
<1>8. ASSUME Restart \/ UNCHANGED vars PROVE UNCHANGED <<archive, versions, fs>>
  BY <1>8 DEF Restart, vars, logVars, fileVars
<1>9. QED
  BY <1>1, <1>2, <1>3, <1>4, <1>5, <1>6, <1>7, <1>8 DEF Next, Step

\* handlerattempt moves each version of a file at most once, to the success or
\* to the failure directory: also if attempts fail half-way, users write while
\* the file is moved, or the program ends and starts again.
THEOREM MovedOnce == Spec => []ArchivedOnce
<1>1. Init => Typed /\ VersionInv /\ ArchivedOnce
  BY HandlerAssumption DEF Init, Typed, TypeOK, Versions, VersionInv, VersionOf, Copied,
                            ArchivedOnce
<1>2. Typed /\ VersionInv /\ ArchivedOnce /\ [Next]_vars
        => Typed' /\ VersionInv' /\ ArchivedOnce'
  BY TypeStep, VersionStep, OnceStep
<1>3. QED
  BY <1>1, <1>2, PTL DEF Spec

-----------------------------------------------------------------------------
(* Files that stay behind although the command had them                    *)

\* A file other than the one the attempt found is none the command was given
\* by an attempt that had found it; and a task that is over has moved the
\* file away or leaves behind such another one.
TriedOf(i) ==
  /\ pc[i] # "none" => journal[i] # "pruned"
  /\ pc[i] \in {"copy", "command", "lock", "stat"} =>
       fs[file[i]] \in {0, statBefore[i]} \/ tried[file[i]] # fs[file[i]]
  /\ pc[i] = "exit" /\ Ended(i) =>
       fs[file[i]] = 0 \/ tried[file[i]] # fs[file[i]]

TriedInv ==
  /\ \A f \in Files : fs[f] <= versions[f] /\ tried[f] <= versions[f]
  /\ \A i \in TaskIds : TriedOf(i)

\* The tasks that a step is not about.
TaskKept(j) ==
  /\ pc'[j] = pc[j] /\ file'[j] = file[j] /\ journal'[j] = journal[j]
  /\ remaining'[j] = remaining[j] /\ statBefore'[j] = statBefore[j]
  /\ failed'[j] = failed[j] /\ permanent'[j] = permanent[j]

\* A step of one task leaves the others alone: none has the same file.
LEMMA TriedOthers ==
  ASSUME Typed, PendingExact, TriedInv, NEW i \in TaskIds, pc[i] # "none",
         \A j \in TaskIds \ {i} : TaskKept(j),
         \A f \in Files \ {file[i]} : fs'[f] = fs[f] /\ tried'[f] = tried[f]
  PROVE  \A j \in TaskIds \ {i} : TriedOf(j)'
<1> SUFFICES ASSUME NEW j \in TaskIds \ {i} PROVE TriedOf(j)'
  OBVIOUS
<1>1. CASE pc[j] = "none"
  BY <1>1 DEF TriedOf, TaskKept
<1>2. CASE pc[j] # "none"
  <2>1. file[j] \in Files /\ file[j] # file[i]
    BY <1>2 DEF Typed, TypeOK, PendingExact
  <2>2. TriedOf(j)
    BY DEF TriedInv
  <2>3. QED
    BY <2>1, <2>2 DEF TriedOf, TaskKept, Ended, Final
<1>3. QED
  BY <1>1, <1>2

\* Nobody is stranded by a step of a task that goes on.
LEMMA TriedTask ==
  ASSUME Typed, PendingExact, UnchangedIsMoved, NEW i \in TaskIds, pc[i] # "none",
         UNCHANGED <<notified, pending>>,
         \A f \in Files \ {file[i]} : fs'[f] = fs[f] /\ tried'[f] = tried[f]
  PROVE  UnchangedIsMoved'
BY HandlerAssumption DEF Typed, TypeOK, PendingExact, UnchangedIsMoved, Stranded

\* The attempt ends.
LEMMA TriedConclude ==
  ASSUME ~IOErrors, Typed, PendingExact, TriedInv, UnchangedIsMoved,
         NEW i \in TaskIds, NEW bad \in BOOLEAN, NEW perm \in BOOLEAN, Conclude(i, bad, perm),
         UNCHANGED <<versions, tried, notified, pending, file, remaining, statBefore>>,
         journal' \in [TaskIds -> {"none", "kept", "pruned"}], journal'[i] # "pruned",
         \A j \in TaskIds \ {i} : journal'[j] = journal[j],
         pc[i] # "none", fs' = fs \/ fs' = [fs EXCEPT ![file[i]] = 0],
         \/ fs'[file[i]] = 0
         \/ tried[file[i]] # fs'[file[i]]
         \/ bad /\ ~perm /\ ~Final(i)
  PROVE  TriedInv' /\ UnchangedIsMoved'
<1>1. /\ pc' = [pc EXCEPT ![i] = "exit"] /\ failed' \in [TaskIds -> BOOLEAN]
      /\ \A j \in TaskIds : j # i => failed'[j] = failed[j]
      /\ bad => failed'[i]
  BY Concluded DEF Typed, TypeOK
<1>2. permanent' = [permanent EXCEPT ![i] = perm]
  BY DEF Conclude
<1>3. file[i] \in Files
  BY DEF Typed, TypeOK
<1>4. \A f \in Files \ {file[i]} : fs'[f] = fs[f] /\ tried'[f] = tried[f]
  BY <1>3 DEF Typed, TypeOK
<1>5. \A j \in TaskIds \ {i} : TaskKept(j)
  BY <1>1, <1>2 DEF TaskKept, Typed, TypeOK
<1>6. TriedOf(i)'
  <2>1. pc'[i] = "exit" /\ permanent'[i] = perm
    BY <1>1, <1>2 DEF Typed, TypeOK
  <2>2. CASE fs'[file[i]] = 0 \/ tried[file[i]] # fs'[file[i]]
    BY <2>1, <2>2 DEF TriedOf
  <2>3. CASE bad /\ ~perm /\ ~Final(i)
    <3>1. ~Ended(i)'
      BY <1>1, <2>1, <2>3, Zenon DEF Ended, Final
    <3>2. QED
      BY <2>1, <3>1 DEF TriedOf
  <2>4. QED
    BY <2>2, <2>3
<1>7. \A f \in Files : fs'[f] <= versions'[f] /\ tried'[f] <= versions'[f]
  BY <1>3, HandlerAssumption DEF Typed, TypeOK, TriedInv, Versions
<1>8. TriedInv'
  BY <1>4, <1>5, <1>6, <1>7, TriedOthers DEF TriedInv
<1>9. QED
  BY <1>4, <1>8, TriedTask

\* Without I/O errors and pruned journals the only way to leave a file behind
\* is a change after the copy of the last attempt, and a change is a new
\* version: every step keeps TriedInv and UnchangedIsMoved.
LEMMA TriedStep ==
  ASSUME ~IOErrors, ~ShortRetention, Typed, PendingExact, TriedInv, UnchangedIsMoved, [Next]_vars
  PROVE  TriedInv' /\ UnchangedIsMoved'
<1> USE HandlerAssumption
<1>a. ASSUME NEW i \in TaskIds, pc[i] # "none"
      PROVE  file[i] \in Files /\ journal[i] # "pruned" /\ TriedOf(i)
  BY <1>a DEF Typed, TypeOK, TriedInv, TriedOf
<1>1. ASSUME NEW f \in Files, UserWrites(f) PROVE TriedInv' /\ UnchangedIsMoved'
  <2>1. /\ UNCHANGED <<pc, file, journal, remaining, statBefore, failed, permanent, tried>>
        /\ UNCHANGED pending /\ notified' = notified \cup {f}
        /\ versions' = [versions EXCEPT ![f] = versions[f] + 1]
        /\ fs' = [fs EXCEPT ![f] = versions[f] + 1]
    BY <1>1 DEF UserWrites, handlerVars, taskVars, attemptVars, logVars, Typed, TypeOK
  <2>2. versions[f] \in Int /\ versions[f] >= 0 /\ tried[f] \in Int /\ tried[f] <= versions[f]
    BY DEF Typed, TypeOK, TriedInv, Versions
  <2>3. versions'[f] = versions[f] + 1 /\ fs'[f] = versions[f] + 1
    BY <2>1 DEF Typed, TypeOK
  <2>4. \A g \in Files \ {f} : fs'[g] = fs[g] /\ versions'[g] = versions[g]
    BY <2>1 DEF Typed, TypeOK
  <2>5. \A g \in Files : fs'[g] <= versions'[g] /\ tried'[g] <= versions'[g]
    BY <2>1, <2>2, <2>3, <2>4 DEF TriedInv
  <2>6. tried'[f] # fs'[f]
    BY <2>1, <2>2, <2>3
  <2>7. ASSUME NEW j \in TaskIds PROVE TriedOf(j)'
    BY <1>a, <2>1, <2>4, <2>6 DEF TriedOf, Ended, Final
  <2>8. UnchangedIsMoved'
    BY <2>1, <2>4 DEF UnchangedIsMoved, Stranded
  <2>9. QED
    BY <2>5, <2>7, <2>8 DEF TriedInv
<1>2. ASSUME NEW f \in Files, UserRemovesFile(f) PROVE TriedInv' /\ UnchangedIsMoved'
  <2>1. /\ UNCHANGED <<pc, file, journal, remaining, statBefore, failed, permanent, tried>>
        /\ UNCHANGED <<pending, notified, versions>>
        /\ fs' = [fs EXCEPT ![f] = 0]
    BY <1>2 DEF UserRemovesFile, handlerVars, taskVars, attemptVars, logVars
  <2>2. fs'[f] = 0 /\ \A g \in Files \ {f} : fs'[g] = fs[g]
    BY <2>1 DEF Typed, TypeOK
  <2>3. \A g \in Files : fs'[g] <= versions'[g] /\ tried'[g] <= versions'[g]
    BY <2>1, <2>2 DEF TriedInv, Typed, TypeOK, Versions
  <2>4. ASSUME NEW j \in TaskIds PROVE TriedOf(j)'
    BY <1>a, <2>1, <2>2 DEF TriedOf, Ended, Final
  <2>5. UnchangedIsMoved'
    BY <2>1, <2>2 DEF UnchangedIsMoved, Stranded
  <2>6. QED
    BY <2>3, <2>4, <2>5 DEF TriedInv
<1>3. ASSUME NEW f \in Files, NEW i \in TaskIds, Handle(f, i) PROVE TriedInv' /\ UnchangedIsMoved'
  <2>1. UNCHANGED <<fs, versions, tried, statBefore, failed, permanent>> /\ notified' = notified \ {f}
    BY <1>3 DEF Handle, fileVars, attemptVars
  <2>2. CASE pending[f] = NoTask
    <3>1. /\ pending' = [pending EXCEPT ![f] = i] /\ pc' = [pc EXCEPT ![i] = "queued"]
          /\ file' = [file EXCEPT ![i] = f] /\ journal' = [journal EXCEPT ![i] = "none"]
          /\ remaining' = [remaining EXCEPT ![i] = RetryCount]
      BY <1>3, <2>2 DEF Handle
    <3>2. UnchangedIsMoved'
      BY <2>1, <3>1 DEF UnchangedIsMoved, Stranded, Typed, TypeOK
    <3>3. TriedOf(i)'
      BY <3>1 DEF TriedOf, Typed, TypeOK
    <3>4. ASSUME NEW j \in TaskIds \ {i} PROVE TriedOf(j)'
      <4>1. TaskKept(j)
        BY <2>1, <3>1 DEF TaskKept, Typed, TypeOK
      <4>2. TriedOf(j)
        BY DEF TriedInv
      <4>3. QED
        BY <2>1, <4>1, <4>2 DEF TriedOf, TaskKept, Ended, Final
    <3>5. QED
      BY <2>1, <3>2, <3>3, <3>4 DEF TriedInv
  <2>3. CASE pending[f] # NoTask
    <3>1. UNCHANGED <<pending, pc, file, journal, remaining>>
      BY <1>3, <2>3 DEF Handle, taskVars
    <3>2. QED
      BY <2>1, <2>3, <3>1 DEF TriedInv, TriedOf, Ended, Final, UnchangedIsMoved, Stranded
  <2>4. QED
    BY <2>2, <2>3
<1>4. ASSUME NEW i \in TaskIds, NEW S, pc[i] # "none",
             S \in {"setup", "copy", "command", "lock", "stat", "move", "queued"},
             pc' = [pc EXCEPT ![i] = S], TriedOf(i)',
             UNCHANGED <<fs, versions, notified, pending, file>>,
             \A f \in Files \ {file[i]} : tried'[f] = tried[f],
             tried'[file[i]] \in {tried[file[i]], fs[file[i]]},
             \A j \in TaskIds \ {i} : TaskKept(j)
      PROVE  TriedInv' /\ UnchangedIsMoved'
  <2>1. \A j \in TaskIds \ {i} : TriedOf(j)'
    BY <1>4, TriedOthers
  <2>2. UnchangedIsMoved'
    BY <1>4, TriedTask
  <2>3. \A f \in Files : fs'[f] <= versions'[f] /\ tried'[f] <= versions'[f]
    BY <1>4 DEF TriedInv
  <2>4. QED
    BY <1>4, <2>1, <2>2, <2>3 DEF TriedInv
<1>5. ASSUME NEW i \in TaskIds, Begin(i) \/ PrepareFails(i) \/ AcquireLock(i)
      PROVE  TriedInv' /\ UnchangedIsMoved'
  <2>1. /\ pc[i] \in {"queued", "copy", "lock"}
        /\ \E S \in {"setup", "lock", "stat"} :
             /\ pc' = [pc EXCEPT ![i] = S]
             /\ S \in {"lock", "stat"} <=> pc[i] \in {"copy", "lock"}
        /\ UNCHANGED <<fs, versions, notified, pending, file, tried, remaining, journal,
                       statBefore, failed, permanent>>
    BY <1>5 DEF Begin, PrepareFails, AcquireLock, fileVars, handlerVars, attemptVars, logVars
  <2>2. TriedOf(i)'
    BY <1>a, <2>1 DEF TriedOf, Typed, TypeOK
  <2>3. \A j \in TaskIds \ {i} : TaskKept(j)
    BY <2>1 DEF TaskKept, Typed, TypeOK
  <2>4. QED
    BY <1>4, <2>1, <2>2, <2>3
<1>6. ASSUME NEW i \in TaskIds, CopyInput(i) PROVE TriedInv' /\ UnchangedIsMoved'
  <2>1. /\ pc[i] = "copy" /\ pc' = [pc EXCEPT ![i] = "command"]
        /\ UNCHANGED <<fs, versions, notified, pending, file, remaining, journal,
                       statBefore, failed, permanent>>
        /\ tried' = IF Unchanged(i) THEN [tried EXCEPT ![file[i]] = fs[file[i]]] ELSE tried
    BY <1>6 DEF CopyInput, fileVars, handlerVars
  <2>2. /\ \A f \in Files \ {file[i]} : tried'[f] = tried[f]
        /\ tried'[file[i]] \in {tried[file[i]], fs[file[i]]}
        /\ ~Unchanged(i) => tried' = tried
    BY <1>a, <2>1 DEF Typed, TypeOK
  <2>3. TriedOf(i)'
    BY <1>a, <2>1, <2>2 DEF TriedOf, Unchanged, Typed, TypeOK
  <2>4. \A j \in TaskIds \ {i} : TaskKept(j)
    BY <2>1 DEF TaskKept, Typed, TypeOK
  <2>5. QED
    BY <1>4, <2>1, <2>2, <2>3, <2>4
<1>7. ASSUME NEW i \in TaskIds, NEW ok \in BOOLEAN, CommandExits(i, ok)
      PROVE  TriedInv' /\ UnchangedIsMoved'
  <2>1. /\ pc[i] = "command" /\ pc' = [pc EXCEPT ![i] = "lock"]
        /\ UNCHANGED <<fs, versions, notified, pending, file, tried, remaining, journal,
                       statBefore, failed, permanent>>
    BY <1>7 DEF CommandExits, fileVars, handlerVars
  <2>2. TriedOf(i)'
    BY <1>a, <2>1 DEF TriedOf, Typed, TypeOK
  <2>3. \A j \in TaskIds \ {i} : TaskKept(j)
    BY <2>1 DEF TaskKept, Typed, TypeOK
  <2>4. QED
    BY <1>4, <2>1, <2>2, <2>3
<1>8. ASSUME NEW i \in TaskIds, Validate(i) PROVE TriedInv' /\ UnchangedIsMoved'
  <2>1. /\ pc[i] = "setup" /\ journal' = [journal EXCEPT ![i] = "kept"]
        /\ UNCHANGED <<fs, versions, notified, pending, file, tried, remaining>>
    BY <1>8 DEF Validate, fileVars, handlerVars, logVars
  <2>2. /\ journal' \in [TaskIds -> {"none", "kept", "pruned"}] /\ journal'[i] = "kept"
        /\ \A j \in TaskIds \ {i} : journal'[j] = journal[j]
    BY <2>1 DEF Typed, TypeOK
  <2>3. CASE fs[file[i]] = 0
    BY <1>8, <2>1, <2>2, <2>3, TriedConclude DEF Validate
  <2>4. CASE fs[file[i]] # 0
    <3>1. /\ pc' = [pc EXCEPT ![i] = "copy"] /\ UNCHANGED <<failed, permanent>>
          /\ statBefore' = [statBefore EXCEPT ![i] = fs[file[i]]]
      BY <1>8, <2>4 DEF Validate
    <3>2. TriedOf(i)'
      BY <2>1, <2>2, <3>1 DEF TriedOf, Typed, TypeOK
    <3>3. \A j \in TaskIds \ {i} : TaskKept(j)
      BY <2>1, <2>2, <3>1 DEF TaskKept, Typed, TypeOK
    <3>4. QED
      BY <1>4, <2>1, <3>1, <3>2, <3>3
  <2>5. QED
    BY <2>3, <2>4
<1>9. ASSUME NEW i \in TaskIds, StatAfter(i) PROVE TriedInv' /\ UnchangedIsMoved'
  <2>1. /\ pc[i] = "stat"
        /\ UNCHANGED <<fs, versions, tried, notified, pending, file, remaining, statBefore, journal>>
    BY <1>9 DEF StatAfter, fileVars, handlerVars, logVars
  <2>2. journal \in [TaskIds -> {"none", "kept", "pruned"}] /\ (~commandOK[i]) \in BOOLEAN
    BY DEF Typed, TypeOK
  <2>3. CASE fs[file[i]] = 0 /\ Conclude(i, ~commandOK[i], TRUE)
    BY <1>a, <2>1, <2>2, <2>3, TriedConclude
  <2>4. CASE ~Unchanged(i) /\ Conclude(i, TRUE, FALSE)
    <3>1. fs[file[i]] = 0 \/ tried[file[i]] # fs[file[i]]
      BY <1>a, <2>1, <2>4 DEF TriedOf, Unchanged
    <3>2. QED
      BY <1>a, <2>1, <2>2, <2>4, <3>1, TriedConclude
  <2>5. CASE ~Movable(i) /\ Conclude(i, TRUE, FALSE)
    <3>1. ~Final(i)
      BY <2>5 DEF Movable
    <3>2. QED
      BY <1>a, <2>1, <2>2, <2>5, <3>1, TriedConclude
  <2>6. CASE pc' = [pc EXCEPT ![i] = "move"] /\ UNCHANGED <<failed, permanent>>
    <3>1. TriedOf(i)'
      BY <1>a, <2>1, <2>6 DEF TriedOf, Typed, TypeOK
    <3>2. \A j \in TaskIds \ {i} : TaskKept(j)
      BY <2>1, <2>6 DEF TaskKept, Typed, TypeOK
    <3>3. QED
      BY <1>4, <2>1, <2>6, <3>1, <3>2
  <2>7. QED
    BY <1>9, <2>3, <2>4, <2>5, <2>6 DEF StatAfter
<1>10. ASSUME NEW i \in TaskIds, MoveToArchive(i) \/ MoveFails(i)
       PROVE  TriedInv' /\ UnchangedIsMoved'
  <2>1. /\ pc[i] = "move" /\ \E bad \in BOOLEAN : Conclude(i, bad, FALSE)
        /\ UNCHANGED <<versions, tried, notified, pending, file, remaining, statBefore, journal>>
    BY <1>10 DEF MoveToArchive, MoveFails, fileVars, handlerVars, logVars
  <2>2. journal \in [TaskIds -> {"none", "kept", "pruned"}]
    BY DEF Typed, TypeOK
  <2>3. (fs' = fs \/ fs' = [fs EXCEPT ![file[i]] = 0]) /\ fs'[file[i]] = 0
    BY <1>10, <1>a DEF MoveToArchive, MoveFails, fileVars, Typed, TypeOK
  <2>4. QED
    BY <1>a, <2>1, <2>2, <2>3, TriedConclude
<1>11. ASSUME NEW i \in TaskIds, Finish(i) PROVE TriedInv' /\ UnchangedIsMoved'
  <2>1. /\ pc[i] = "exit" /\ Ended(i) /\ UNCHANGED <<fs, versions, tried, notified, journal, remaining>>
        /\ pending' = [pending EXCEPT ![file[i]] = NoTask]
        /\ pc' = [pc EXCEPT ![i] = "none"] /\ file' = [file EXCEPT ![i] = NoTask]
    BY <1>11 DEF Finish, fileVars
  <2>2. TriedOf(i)'
    BY <2>1 DEF TriedOf, Typed, TypeOK
  <2>3. \A j \in TaskIds \ {i} : TaskKept(j)
    BY <1>11, <2>1 DEF TaskKept, Finish, Forget, Typed, TypeOK
  <2>4. \A j \in TaskIds \ {i} : TriedOf(j)'
    BY <2>1, <2>3, TriedOthers
  <2>5. UnchangedIsMoved'
    BY <1>a, <2>1 DEF TriedOf, UnchangedIsMoved, Stranded, Typed, TypeOK
  <2>6. QED
    BY <2>1, <2>2, <2>4, <2>5 DEF TriedInv
<1>12. ASSUME NEW i \in TaskIds, Retry(i) PROVE TriedInv' /\ UnchangedIsMoved'
  <2>1. /\ pc[i] = "exit" /\ pc' = [pc EXCEPT ![i] = "queued"]
        /\ UNCHANGED <<fs, versions, tried, notified, pending, file, journal>>
    BY <1>12 DEF Retry, fileVars, logVars
  <2>2. TriedOf(i)'
    BY <1>a, <2>1 DEF TriedOf, Typed, TypeOK
  <2>3. \A j \in TaskIds \ {i} : TaskKept(j)
    BY <1>12, <2>1 DEF TaskKept, Retry, Forget, Typed, TypeOK
  <2>4. QED
    BY <1>4, <2>1, <2>2, <2>3
<1>13. CASE Restart
  <2>1. /\ \A i \in TaskIds : pc'[i] = "none"
        /\ UNCHANGED <<fs, versions, tried>> /\ notified' = {f \in Files : fs[f] # 0}
    BY <1>13 DEF Restart, fileVars
  <2>2. QED
    BY <2>1 DEF TriedInv, TriedOf, UnchangedIsMoved, Stranded
<1>14. CASE UNCHANGED vars
  BY <1>14 DEF vars, fileVars, handlerVars, taskVars, attemptVars, logVars, TriedInv, TriedOf,
               Ended, Final, UnchangedIsMoved, Stranded
<1>15. ASSUME NEW i \in TaskIds PROVE ~SetupFails(i) /\ ~LogSetupFails(i) /\ ~Prune(i)
  BY <1>a DEF SetupFails, LogSetupFails, Prune, Prunable
<1>16. ASSUME NEW f \in Files PROVE ~ReportLost(f)
  BY DEF ReportLost
<1>17. QED
  BY <1>1, <1>2, <1>3, <1>5, <1>6, <1>7, <1>8, <1>9, <1>10, <1>11, <1>12, <1>13, <1>14, <1>15,
     <1>16 DEF Next, Step, Setup

\* Where file operations do not fail and journal entries outlive their tasks,
\* a file that an attempt found and gave to the command does not stay behind
\* unchanged: it is moved to one of the archive directories, however users
\* write, remove and re-create files meanwhile.
THEOREM UnchangedMoved ==
  ASSUME ~IOErrors, ~ShortRetention
  PROVE  Spec => []UnchangedIsMoved
<1>1. Init => Typed /\ PendingExact /\ TriedInv /\ UnchangedIsMoved
  BY HandlerAssumption DEF Init, Typed, TypeOK, Versions, PendingExact, TriedInv, TriedOf,
                           UnchangedIsMoved, Stranded
<1>2. TaskTypes /\ PendingExact /\ [Next]_vars => TaskTypes' /\ PendingExact'
  BY TaskSteps, PendingStep
<1>3. Typed /\ [Next]_vars => Typed'
  BY TypeStep
<1>4. Typed /\ PendingExact /\ TriedInv /\ UnchangedIsMoved /\ [Next]_vars
        => TriedInv' /\ UnchangedIsMoved'
  BY TriedStep
<1>5. QED
  BY <1>1, <1>2, <1>3, <1>4, InitTaskTypes, PTL DEF Spec
=============================================================================
