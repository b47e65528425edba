--------------------------- MODULE SchedulerProofs ---------------------------
(***************************************************************************)
(* Proofs about the scheduler, for any number of tasks, slots, callers and *)
(* any bounds.                                                             *)
(***************************************************************************)
EXTENDS Scheduler, FiniteSetTheorems, TLAPS

\* TypeOK is inductive.
LEMMA TypeOKStep == TypeOK /\ [Next]_vars => TypeOK'
<1> SUFFICES ASSUME TypeOK, [Next]_vars PROVE TypeOK'
  OBVIOUS
<1> USE ConstantsAssumption
<1>1. ASSUME NEW count \in SlotArgs, SetSlots(count) PROVE TypeOK'
  BY <1>1 DEF TypeOK, SetSlots, queueVars, taskVars, loopVars, waiterVars, finishVars
<1>2. ASSUME NEW t \in Tasks, NEW after \in DueTimes, AddNumber(t, after) PROVE TypeOK'
  <2>1. after \in Nat
    BY DEF DueTimes, TypeOK
  <2>2. QED
    BY <1>2, <2>1 DEF TypeOK, AddNumber, queueVars, loopVars, waiterVars, finishVars, notifyVars
<1>3. ASSUME NEW t \in Tasks, AddEnqueue(t) PROVE TypeOK'
  BY <1>3 DEF TypeOK, AddEnqueue, Enqueue, loopVars, waiterVars, finishVars
<1>4. CASE Notify
  BY <1>4 DEF TypeOK, Notify, queueVars, taskVars, loopVars, waiterVars, finishVars
<1>5. CASE Start
  BY <1>5 DEF TypeOK, Start, queueVars, taskVars, waiterVars, finishVars, notifyVars
<1>6. CASE LoopStep
  <2>1. ASSUME NEW t \in Tasks, LoopLaunch(t) PROVE TypeOK'
    BY <2>1 DEF TypeOK, LoopLaunch, loopVars, waiterVars, finishVars, notifyVars
  <2>2. CASE LoopWait
    <3>1. nextTaskDue' \in Nat
      BY <2>2 DEF TypeOK, LoopWait, NextDue
    <3>2. QED
      BY <2>2, <3>1 DEF TypeOK, LoopWait, queueVars, taskVars, waiterVars, finishVars, notifyVars
  <2>3. CASE LoopTimer
    BY <2>3 DEF TypeOK, LoopTimer, queueVars, taskVars, waiterVars, finishVars, notifyVars
  <2>4. CASE LoopNotified
    BY <2>4 DEF TypeOK, LoopNotified, queueVars, taskVars, waiterVars, finishVars
  <2>5. CASE LoopStop
    BY <2>5 DEF TypeOK, LoopStop, queueVars, taskVars, waiterVars, finishVars, notifyVars
  <2>6. CASE LoopReturn
    BY <2>6 DEF TypeOK, LoopReturn, queueVars, taskVars, waiterVars, finishVars, notifyVars
  <2>7. CASE LoopSetFinished
    BY <2>7 DEF TypeOK, LoopSetFinished, queueVars, taskVars, waiterVars, finishVars, notifyVars
  <2>8. QED
    BY <1>6, <2>1, <2>2, <2>3, <2>4, <2>5, <2>6, <2>7 DEF LoopStep
<1>7. ASSUME NEW t \in Tasks, RunStep(t) PROVE TypeOK'
  <2>1. CASE RunFinished(t)
    BY <2>1 DEF TypeOK, RunFinished, queueVars, loopVars, waiterVars, finishVars, notifyVars
  <2>2. ASSUME NEW delay \in RetryDelays, RunRetry(t, delay) PROVE TypeOK'
    <3>1. delay \in Nat
      OBVIOUS
    <3>2. QED
      BY <2>2, <3>1 DEF TypeOK, RunRetry, queueVars, loopVars, waiterVars, finishVars, notifyVars
  <2>3. CASE RunTaskReport(t)
    BY <2>3 DEF TypeOK, RunTaskReport, Enqueue, queueVars, loopVars, waiterVars
  <2>4. QED
    BY <1>7, <2>1, <2>2, <2>3 DEF RunStep
<1>8. CASE TaskFinishedSet
  BY <1>8 DEF TypeOK, TaskFinishedSet, queueVars, taskVars, loopVars, waiterVars, notifyVars
<1>9. ASSUME NEW w \in Waiters, WakeStep(w) PROVE TypeOK'
  BY <1>9 DEF TypeOK, WakeStep, WakeLoopFinished, WakeTaskFinished, queueVars, taskVars,
              loopVars, finishVars, notifyVars
<1>10. ASSUME NEW w \in Stoppers, StopBegin(w) \/ StopStep(w) PROVE TypeOK'
  <2>1. w \in Waiters
    BY DEF Waiters
  <2>2. CASE StopBegin(w)
    BY <2>1, <2>2 DEF TypeOK, StopBegin, queueVars, taskVars, loopVars, finishVars, notifyVars
  <2>3. CASE StopNotify(w)
    BY <2>1, <2>3 DEF TypeOK, StopNotify, queueVars, taskVars, loopVars, finishVars
  <2>4. CASE StopDone(w)
    BY <2>1, <2>4 DEF TypeOK, StopDone, taskVars, loopVars, finishVars, notifyVars
  <2>5. CASE StopWait(w)
    BY <2>1, <2>5 DEF TypeOK, StopWait, queueVars, taskVars, loopVars, finishVars, notifyVars
  <2>6. CASE StopCancelled(w)
    BY <2>1, <2>6 DEF TypeOK, StopCancelled, queueVars, taskVars, loopVars, finishVars, notifyVars
  <2>7. QED
    BY <1>9, <1>10, <2>1, <2>2, <2>3, <2>4, <2>5, <2>6 DEF StopStep
<1>11. ASSUME NEW w \in Quiescers, QuiesceBegin(w) \/ QuiesceStep(w) PROVE TypeOK'
  <2>1. w \in Waiters
    BY DEF Waiters
  <2>2. CASE QuiesceBegin(w)
    BY <2>1, <2>2 DEF TypeOK, QuiesceBegin, queueVars, taskVars, loopVars, finishVars
  <2>3. CASE QuiesceCheck(w)
    BY <2>1, <2>3 DEF TypeOK, QuiesceCheck, queueVars, taskVars, loopVars, finishVars, notifyVars
  <2>4. CASE QuiesceCancelled(w)
    BY <2>1, <2>4 DEF TypeOK, QuiesceCancelled, queueVars, taskVars, loopVars, finishVars, notifyVars
  <2>5. QED
    BY <1>9, <1>11, <2>1, <2>2, <2>3, <2>4 DEF QuiesceStep
<1>12. ASSUME NEW w \in Waiters, CancelContext(w) PROVE TypeOK'
  BY <1>12 DEF TypeOK, CancelContext, queueVars, taskVars, loopVars, finishVars, notifyVars
<1>13. CASE Tick
  BY <1>13 DEF TypeOK, Tick, queueVars, taskVars, loopVars, waiterVars, finishVars, notifyVars
<1>14. CASE UNCHANGED vars
  BY <1>14 DEF TypeOK, vars, queueVars, taskVars, loopVars, waiterVars, finishVars, notifyVars
<1>15. QED
  BY <1>1, <1>2, <1>3, <1>4, <1>5, <1>6, <1>7, <1>8, <1>10, <1>11, <1>12, <1>13, <1>14 DEF Next

\* Types: every variable keeps its type; the number of slots is never less
\* than one, whatever SetSlots is called with.
THEOREM TypeCorrect == Spec => []TypeOK
<1>1. Init => TypeOK
  <2> SUFFICES ASSUME Init PROVE TypeOK
    OBVIOUS
  <2>1. slots \in Nat \ {0}
    <3>1. slots \in SlotArgs /\ slots > 0
      BY DEF Init
    <3>2. QED
      BY <3>1, ConstantsAssumption
  <2>2. /\ seq \in [Tasks -> Nat] /\ nextAfter \in [Tasks -> Nat]
        /\ attemptCount \in [Tasks -> Nat]
        /\ result \in [Tasks -> {"none", "finished", "retry"}]
        /\ taskPC \in [Tasks -> {"new", "adding", "idle", "running", "returned"}]
        /\ waiterPC \in [Waiters -> {"idle", "notify", "check", "wait", "returned"}]
        /\ waiterCtx \in [Waiters -> {"live", "done", "taken"}]
    BY DEF Init
  <2>3. /\ loopStopRequested \in BOOLEAN /\ taskContextDone \in BOOLEAN
        /\ loopNotification \in BOOLEAN /\ loopFinished \in BOOLEAN
        /\ taskFinished \in BOOLEAN
    BY Zenon DEF Init
  <2>4. /\ now \in Nat /\ seqCounter \in Nat /\ loopActiveCount \in Int
        /\ taskActiveCount \in Int /\ nextTaskDue \in Nat /\ notifiers \in Nat
        /\ finishers \in Nat /\ tasksByOrder \subseteq Tasks /\ tasksByTime \subseteq Tasks
        /\ loopPC \in {"none", "check", "wait", "return", "returned", "done"}
    BY DEF Init
  <2>5. QED
    BY <2>1, <2>2, <2>3, <2>4 DEF TypeOK
<1>2. QED
  BY <1>1, TypeOKStep, PTL DEF Spec

-----------------------------------------------------------------------------
(* Where tasks are                                                         *)

\* What OnePlace needs to be inductive: numbers are given out once, and a
\* task function that has returned has said whether it is to be retried.
QueueInv ==
  /\ OnePlace
  /\ \A t \in Tasks : seq[t] <= seqCounter
  /\ \A t \in Tasks : taskPC[t] = "returned" => result[t] # "none"

\* Steps that leave the tasks alone and end no call of Stop.
QueueFrame ==
  /\ UNCHANGED <<queueVars, taskVars, seqCounter>>
  /\ \A w \in Stoppers : waiterPC[w] = "returned" => waiterPC'[w] = "returned"

\* All but seven actions are such steps.
LEMMA QueueSteps ==
  ASSUME TypeOK, [Next]_vars
  PROVE  \/ QueueFrame
         \/ \E t \in Tasks : \/ \E after \in DueTimes : AddNumber(t, after)
                             \/ AddEnqueue(t) \/ LoopLaunch(t) \/ RunFinished(t)
                             \/ \E delay \in RetryDelays : RunRetry(t, delay)
                             \/ RunTaskReport(t)
         \/ \E w \in Stoppers : StopDone(w)
<1> USE DEF QueueFrame
<1>1. ASSUME NEW count \in SlotArgs, SetSlots(count) PROVE QueueFrame
  BY <1>1 DEF SetSlots, waiterVars
<1>2. CASE Notify \/ Start \/ TaskFinishedSet \/ Tick \/ UNCHANGED vars
  BY <1>2 DEF Notify, Start, TaskFinishedSet, Tick, vars, waiterVars
<1>3. CASE LoopWait \/ LoopTimer \/ LoopNotified \/ LoopStop \/ LoopReturn \/ LoopSetFinished
  BY <1>3 DEF LoopWait, LoopTimer, LoopNotified, LoopStop, LoopReturn, LoopSetFinished, waiterVars
<1>4. ASSUME NEW w \in Waiters, WakeStep(w) PROVE QueueFrame
  BY <1>4 DEF WakeStep, WakeLoopFinished, WakeTaskFinished, TypeOK, Waiters
<1>5. ASSUME NEW w \in Stoppers, StopBegin(w) \/ StopNotify(w) \/ StopWait(w) \/ StopCancelled(w)
      PROVE  QueueFrame
  BY <1>5 DEF StopBegin, MayCall, StopNotify, StopWait, StopCancelled, TypeOK, Waiters
<1>6. ASSUME NEW w \in Quiescers, QuiesceBegin(w) \/ QuiesceCheck(w) \/ QuiesceCancelled(w)
      PROVE  QueueFrame
  BY <1>6, ConstantsAssumption DEF QuiesceBegin, MayCall, QuiesceCheck, QuiesceCancelled, TypeOK, Waiters
<1>7. ASSUME NEW w \in Waiters, CancelContext(w) PROVE QueueFrame
  BY <1>7 DEF CancelContext
<1>8. QED
  BY <1>1, <1>2, <1>3, <1>4, <1>5, <1>6, <1>7
  DEF Next, LoopStep, RunStep, StopStep, QuiesceStep, Waiters

\* QueueInv is inductive.
LEMMA QueueInvStep == TypeOK /\ QueueInv /\ [Next]_vars => QueueInv'
<1> SUFFICES ASSUME TypeOK, QueueInv, [Next]_vars PROVE QueueInv'
  OBVIOUS
<1> USE ConstantsAssumption DEF QueueInv, OnePlace, Queued, TypeOK
<1>1. CASE QueueFrame
  BY <1>1 DEF QueueFrame, queueVars, taskVars
<1>2. ASSUME NEW t \in Tasks, NEW after \in DueTimes, AddNumber(t, after) PROVE QueueInv'
  BY <1>2 DEF AddNumber, queueVars, waiterVars
<1>3. ASSUME NEW t \in Tasks, AddEnqueue(t) PROVE QueueInv'
  BY <1>3 DEF AddEnqueue, Enqueue, waiterVars
<1>4. ASSUME NEW t \in Tasks, LoopLaunch(t) PROVE QueueInv'
  BY <1>4 DEF LoopLaunch, PopNext, waiterVars
<1>5. ASSUME NEW t \in Tasks, RunFinished(t) PROVE QueueInv'
  BY <1>5 DEF RunFinished, queueVars, waiterVars
<1>6. ASSUME NEW t \in Tasks, NEW delay \in RetryDelays, RunRetry(t, delay) PROVE QueueInv'
  BY <1>6 DEF RunRetry, queueVars, waiterVars
<1>7. ASSUME NEW t \in Tasks, RunTaskReport(t) PROVE QueueInv'
  BY <1>7 DEF RunTaskReport, Enqueue, queueVars, waiterVars
<1>8. ASSUME NEW w \in Stoppers, StopDone(w) PROVE QueueInv'
  BY <1>8 DEF StopDone, taskVars, Waiters
<1>9. QED
  BY <1>1, <1>2, <1>3, <1>4, <1>5, <1>6, <1>7, <1>8, QueueSteps

\* A new scheduler has no tasks.
LEMMA QueueInvInit == Init => QueueInv
BY DEF Init, QueueInv, OnePlace, Queued

\* No task is lost, duplicated or queued twice, and enqueue never panics.
THEOREM TasksInOnePlace == Spec => []OnePlace
<1>1. QueueInv => OnePlace
  BY DEF QueueInv
<1>2. QED
  BY <1>1, TypeCorrect, QueueInvInit, QueueInvStep, PTL DEF Spec

-----------------------------------------------------------------------------
(* The counters                                                            *)

\* Steps that neither start nor end a task or the loop.
CountFrame ==
  /\ UNCHANGED <<taskActiveCount, loopActiveCount>>
  /\ Running' = Running /\ LoopAlive' = LoopAlive

\* The steps that change a counter or what it counts; all others are framed.
LEMMA CountSteps ==
  ASSUME TypeOK, [Next]_vars
  PROVE  \/ CountFrame \/ Start \/ LoopReturn
         \/ \E t \in Tasks : LoopLaunch(t) \/ RunTaskReport(t)
<1> USE DEF CountFrame, Running, LoopAlive, TypeOK
<1>1. ASSUME NEW count \in SlotArgs, SetSlots(count) PROVE CountFrame
  BY <1>1 DEF SetSlots, taskVars, loopVars
<1>2. ASSUME NEW t \in Tasks, NEW after \in DueTimes, AddNumber(t, after) PROVE CountFrame
  BY <1>2 DEF AddNumber, loopVars
<1>3. ASSUME NEW t \in Tasks, AddEnqueue(t) PROVE CountFrame
  BY <1>3 DEF AddEnqueue, loopVars
<1>4. CASE Notify \/ TaskFinishedSet \/ Tick \/ UNCHANGED vars
  BY <1>4 DEF Notify, TaskFinishedSet, Tick, vars, taskVars, loopVars
<1>5. CASE LoopWait \/ LoopTimer \/ LoopNotified \/ LoopStop \/ LoopSetFinished
  BY <1>5 DEF LoopWait, LoopTimer, LoopNotified, LoopStop, LoopSetFinished, taskVars
<1>6. ASSUME NEW t \in Tasks, RunFinished(t) PROVE CountFrame
  BY <1>6 DEF RunFinished, loopVars
<1>7. ASSUME NEW t \in Tasks, NEW delay \in RetryDelays, RunRetry(t, delay) PROVE CountFrame
  BY <1>7 DEF RunRetry, loopVars
<1>8. ASSUME NEW w \in Waiters, WakeStep(w) \/ CancelContext(w) PROVE CountFrame
  BY <1>8 DEF WakeStep, WakeLoopFinished, WakeTaskFinished, CancelContext, taskVars, loopVars
<1>9. ASSUME NEW w \in Stoppers, StopBegin(w) \/ StopStep(w) PROVE CountFrame
  BY <1>8, <1>9 DEF StopBegin, StopStep, StopNotify, StopDone, StopWait, StopCancelled,
                    Waiters, taskVars, loopVars
<1>10. ASSUME NEW w \in Quiescers, QuiesceBegin(w) \/ QuiesceStep(w) PROVE CountFrame
  BY <1>8, <1>10 DEF QuiesceBegin, QuiesceStep, QuiesceCheck, QuiesceCancelled,
                     Waiters, taskVars, loopVars
<1>11. QED
  BY <1>1, <1>2, <1>3, <1>4, <1>5, <1>6, <1>7, <1>8, <1>9, <1>10
  DEF Next, LoopStep, RunStep

\* CountersExact is inductive, given that queued tasks are idle.
LEMMA CountersStep ==
  TypeOK /\ QueueInv /\ CountersExact /\ [Next]_vars => CountersExact'
<1> SUFFICES ASSUME TypeOK, QueueInv, CountersExact, [Next]_vars PROVE CountersExact'
  OBVIOUS
<1>1. IsFiniteSet(Running)
  BY ConstantsAssumption, FS_Subset DEF Running
<1>2. CASE CountFrame
  BY <1>2 DEF CountFrame, CountersExact
<1>3. CASE Start
  <2>1. Running' = Running
    BY <1>3 DEF Start, Running, taskVars
  <2>2. ~LoopAlive /\ LoopAlive'
    BY <1>3 DEF Start, LoopAlive, CountersExact
  <2>3. QED
    BY <1>3, <2>1, <2>2 DEF CountersExact, Start
<1>4. CASE LoopReturn
  <2>1. Running' = Running
    BY <1>4 DEF LoopReturn, Running, taskVars
  <2>2. LoopAlive /\ ~LoopAlive'
    BY <1>4 DEF LoopReturn, LoopAlive
  <2>3. QED
    BY <1>4, <2>1, <2>2 DEF CountersExact, LoopReturn
<1>5. ASSUME NEW t \in Tasks, LoopLaunch(t) PROVE CountersExact'
  <2>1. taskPC[t] = "idle"
    BY <1>5 DEF LoopLaunch, PopNext, QueueInv, OnePlace, Queued
  <2>2. Running' = Running \cup {t} /\ t \notin Running
    BY <1>5, <2>1 DEF LoopLaunch, Running, TypeOK
  <2>3. Cardinality(Running') = Cardinality(Running) + 1
    BY <1>1, <2>2, FS_AddElement
  <2>4. LoopAlive' = LoopAlive /\ loopActiveCount' = loopActiveCount
    BY <1>5 DEF LoopLaunch, LoopAlive, loopVars
  <2>5. QED
    BY <1>5, <2>3, <2>4 DEF CountersExact, LoopLaunch
<1>6. ASSUME NEW t \in Tasks, RunTaskReport(t) PROVE CountersExact'
  <2>1. Running' = Running \ {t} /\ t \in Running
    BY <1>6 DEF RunTaskReport, Running, TypeOK
  <2>2. Cardinality(Running') = Cardinality(Running) - 1
    BY <1>1, <2>1, FS_RemoveElement
  <2>3. LoopAlive' = LoopAlive /\ loopActiveCount' = loopActiveCount
    BY <1>6 DEF RunTaskReport, LoopAlive, loopVars
  <2>4. QED
    BY <1>6, <2>2, <2>3 DEF CountersExact, RunTaskReport
<1>7. QED
  BY <1>2, <1>3, <1>4, <1>5, <1>6, CountSteps

\* A new scheduler runs nothing: the empty set has no elements.
LEMMA CountersInit == Init => CountersExact
<1> SUFFICES ASSUME Init PROVE CountersExact
  OBVIOUS
<1>1. Running = {} /\ ~LoopAlive
  BY DEF Init, Running, LoopAlive
<1>2. Cardinality({}) = 0
  BY FS_EmptySet
<1>3. QED
  BY <1>1, <1>2 DEF Init, CountersExact

\* taskActiveCount and loopActiveCount are what Stop and Quiesce take them for.
THEOREM CountersCorrect == Spec => []CountersExact
BY TypeCorrect, QueueInvInit, QueueInvStep, CountersInit, CountersStep, PTL DEF Spec

-----------------------------------------------------------------------------
(* The loop is woken                                                       *)

\* NoLostWakeup is inductive, given that queued tasks are idle and that those
\* in tasksByTime have a due time.
LEMMA WakeupStep ==
  TypeOK /\ QueueInv /\ NoLostWakeup /\ [Next]_vars => NoLostWakeup'
<1> SUFFICES ASSUME TypeOK, QueueInv, NoLostWakeup, [Next]_vars PROVE NoLostWakeup'
  OBVIOUS
<1> USE ConstantsAssumption DEF NoLostWakeup, TypeOK
<1>1. \A t \in Tasks : t \in tasksByTime => taskPC[t] = "idle" /\ nextAfter[t] # 0
  BY DEF QueueInv, OnePlace, Queued
<1>2. ASSUME NEW count \in SlotArgs, SetSlots(count) PROVE NoLostWakeup'
  BY <1>2 DEF SetSlots
<1>3. ASSUME NEW t \in Tasks, NEW after \in DueTimes, AddNumber(t, after) PROVE NoLostWakeup'
  BY <1>1, <1>3 DEF AddNumber, queueVars, loopVars, waiterVars, notifyVars
<1>4. ASSUME NEW t \in Tasks, AddEnqueue(t) PROVE NoLostWakeup'
  BY <1>4 DEF AddEnqueue
<1>5. CASE Notify \/ Start
  BY <1>5 DEF Notify, Start
<1>6. CASE LoopStep
  <2>1. ASSUME NEW t \in Tasks, LoopLaunch(t) PROVE NoLostWakeup'
    BY <2>1 DEF LoopLaunch, loopVars
  <2>2. CASE LoopWait
    <3>1. CASE taskActiveCount >= slots
      BY <2>2, <3>1 DEF LoopWait, waiterVars
    <3>2. CASE taskActiveCount < slots /\ tasksByTime = {}
      BY <2>2, <3>2 DEF LoopWait, queueVars, waiterVars
    <3>3. CASE taskActiveCount < slots /\ tasksByTime # {}
      <4>1. PICK t \in tasksByTime : Earliest(t) /\ nextTaskDue' = nextAfter[t]
        BY <2>2, <3>3 DEF LoopWait, NextDue
      <4>2. \A u \in tasksByTime : nextTaskDue' # 0 /\ nextTaskDue' <= nextAfter[u]
        BY <1>1, <4>1 DEF Earliest
      <4>3. QED
        BY <2>2, <3>3, <4>2 DEF LoopWait, queueVars, taskVars, waiterVars
    <3>4. QED
      BY <3>1, <3>2, <3>3
  <2>3. CASE LoopTimer \/ LoopNotified \/ LoopStop \/ LoopReturn \/ LoopSetFinished
    BY <2>3 DEF LoopTimer, LoopNotified, LoopStop, LoopReturn, LoopSetFinished
  <2>4. QED
    BY <1>6, <2>1, <2>2, <2>3 DEF LoopStep
<1>7. ASSUME NEW t \in Tasks, RunFinished(t) PROVE NoLostWakeup'
  BY <1>7 DEF RunFinished, queueVars, loopVars, waiterVars, notifyVars
<1>8. ASSUME NEW t \in Tasks, NEW delay \in RetryDelays, RunRetry(t, delay) PROVE NoLostWakeup'
  BY <1>1, <1>8 DEF RunRetry, queueVars, loopVars, waiterVars, notifyVars
<1>9. ASSUME NEW t \in Tasks, RunTaskReport(t) PROVE NoLostWakeup'
  BY <1>9 DEF RunTaskReport, loopVars, waiterVars
<1>10. CASE TaskFinishedSet \/ Tick \/ UNCHANGED vars
  BY <1>10 DEF TaskFinishedSet, Tick, vars, queueVars, taskVars, loopVars, waiterVars, notifyVars
<1>11. ASSUME NEW w \in Waiters, WakeStep(w) \/ CancelContext(w) PROVE NoLostWakeup'
  BY <1>11 DEF WakeStep, WakeLoopFinished, WakeTaskFinished, CancelContext, Waiters,
               queueVars, taskVars, loopVars, notifyVars
<1>12. ASSUME NEW w \in Stoppers, StopBegin(w) \/ StopStep(w) PROVE NoLostWakeup'
  <2>1. CASE StopBegin(w) \/ StopNotify(w)
    BY <2>1 DEF StopBegin, StopNotify, Waiters
  <2>2. CASE StopDone(w)
    BY <2>2 DEF StopDone, Waiters, taskVars, loopVars, notifyVars
  <2>3. CASE StopWait(w) \/ StopCancelled(w)
    BY <2>3 DEF StopWait, StopCancelled, Waiters, queueVars, taskVars, loopVars, notifyVars
  <2>4. QED
    BY <1>11, <1>12, <2>1, <2>2, <2>3 DEF StopStep, Waiters
<1>13. ASSUME NEW w \in Quiescers, QuiesceBegin(w) \/ QuiesceStep(w) PROVE NoLostWakeup'
  <2>1. CASE QuiesceBegin(w)
    BY <2>1 DEF QuiesceBegin
  <2>2. CASE QuiesceCheck(w) \/ QuiesceCancelled(w)
    BY <2>2 DEF QuiesceCheck, QuiesceCancelled, Waiters, queueVars, taskVars, loopVars, notifyVars
  <2>3. QED
    BY <1>11, <1>13, <2>1, <2>2 DEF QuiesceStep, Waiters
<1>14. QED
  BY <1>2, <1>3, <1>4, <1>5, <1>6, <1>7, <1>8, <1>9, <1>10, <1>11, <1>12, <1>13
  DEF Next, RunStep

\* The loop never sleeps while a slot is free and a task is ready, or after
\* Stop was called, without a wake-up being there or on its way.
THEOREM LoopIsWoken == Spec => []NoLostWakeup
<1>1. Init => NoLostWakeup
  BY DEF Init, NoLostWakeup
<1>2. QED
  BY <1>1, TypeCorrect, QueueInvInit, QueueInvStep, WakeupStep, PTL DEF Spec

-----------------------------------------------------------------------------
(* Stop and Quiesce                                                        *)

\* A call of Stop has set loopStopRequested, and without it the loop does not
\* return; one caller at a time.
CallInv ==
  /\ \A w \in Stoppers : waiterPC[w] # "idle" => loopStopRequested
  /\ loopPC \in {"return", "returned", "done"} => loopStopRequested
  /\ \A v, w \in Waiters : Inside(v) /\ Inside(w) => v = w

\* Every action keeps the invariant about the callers of Stop and Quiesce.
LEMMA CallInvStep == TypeOK /\ CallInv /\ [Next]_vars => CallInv'
<1> SUFFICES ASSUME TypeOK, CallInv, [Next]_vars PROVE CallInv'
  OBVIOUS
<1> USE ConstantsAssumption DEF CallInv, Inside, TypeOK, Waiters
<1>1. CASE UNCHANGED <<waiterPC, loopStopRequested, loopPC>>
  BY <1>1
<1>2. ASSUME NEW w \in Waiters, WakeStep(w) PROVE CallInv'
  BY <1>2 DEF WakeStep, WakeLoopFinished, WakeTaskFinished, loopVars
<1>3. ASSUME NEW w \in Stoppers, StopBegin(w) PROVE CallInv'
  BY <1>3 DEF StopBegin, MayCall, loopVars
<1>4. ASSUME NEW w \in Stoppers, StopStep(w) PROVE CallInv'
  BY <1>2, <1>4 DEF StopStep, StopNotify, StopDone, StopWait, StopCancelled, loopVars
<1>5. ASSUME NEW w \in Quiescers, QuiesceBegin(w) PROVE CallInv'
  BY <1>5 DEF QuiesceBegin, MayCall, loopVars
<1>6. ASSUME NEW w \in Quiescers, QuiesceStep(w) PROVE CallInv'
  BY <1>2, <1>6 DEF QuiesceStep, QuiesceCheck, QuiesceCancelled, loopVars
<1>7. ASSUME NEW t \in Tasks, RunStep(t) \/ AddEnqueue(t) \/ \E after \in DueTimes : AddNumber(t, after)
      PROVE  CallInv'
  BY <1>1, <1>7 DEF RunStep, RunFinished, RunRetry, RunTaskReport, AddEnqueue, AddNumber, waiterVars,
                    loopVars
<1>8. CASE LoopStep \/ Start
  BY <1>8 DEF LoopStep, LoopLaunch, LoopWait, LoopTimer, LoopNotified, LoopStop,
              LoopReturn, LoopSetFinished, Start, waiterVars, loopVars
<1>9. QED
  BY <1>1, <1>3, <1>4, <1>5, <1>6, <1>7, <1>8
  DEF Next, SetSlots, Notify, TaskFinishedSet, CancelContext, Tick, vars, waiterVars, loopVars

\* Nobody has called a new scheduler.
LEMMA CallInvInit == Init => CallInv
BY DEF Init, CallInv, Inside, Waiters

\* A returned Stop leaves nothing running: what StopDone saw in the counters
\* is so, and nothing starts again.
LEMMA DrainedStep ==
  TypeOK /\ QueueInv /\ CountersExact /\ CallInv /\ StopDrained /\ [Next]_vars => StopDrained'
<1> SUFFICES ASSUME TypeOK, CountersExact, CallInv, StopDrained, [Next]_vars PROVE StopDrained'
  OBVIOUS
<1> USE DEF StopDrained
<1>1. ASSUME NEW w \in Stoppers, StopDone(w) PROVE StopDrained'
  <2>1. ~LoopAlive /\ Cardinality(Running) = 0
    BY <1>1 DEF StopDone, CountersExact
  <2>2. IsFiniteSet(Running)
    BY ConstantsAssumption, FS_Subset DEF Running
  <2>3. Running = {}
    BY <2>1, <2>2, FS_EmptySet
  <2>4. loopStopRequested
    BY <1>1 DEF StopDone, CallInv
  <2>5. QED
    BY <1>1, <2>1, <2>3, <2>4 DEF StopDone, LoopAlive, Running, taskVars, loopVars
<1>2. CASE ~\E w \in Stoppers : StopDone(w)
  <2> SUFFICES ASSUME NEW w \in Stoppers, waiterPC'[w] = "returned" PROVE StopDrained'
    OBVIOUS
  <2>1. waiterPC[w] = "returned"
    BY <1>2, ConstantsAssumption DEF Next, SetSlots, Notify, Start, TaskFinishedSet,
       CancelContext, Tick, vars, waiterVars, LoopStep, LoopLaunch, LoopWait, LoopTimer,
       LoopNotified, LoopStop, LoopReturn, LoopSetFinished, RunStep, RunFinished, RunRetry,
       RunTaskReport, AddNumber, AddEnqueue, StopBegin, StopStep, StopNotify, StopWait,
       StopCancelled, WakeStep, WakeLoopFinished, WakeTaskFinished, QuiesceBegin,
       QuiesceStep, QuiesceCheck, QuiesceCancelled, TypeOK, Waiters
  <2>2. ~LoopAlive /\ Running = {} /\ loopStopRequested
    BY <2>1
  <2>3. loopStopRequested'
    BY <2>2 DEF Next, SetSlots, Notify, Start, TaskFinishedSet,
       CancelContext, Tick, vars, waiterVars, LoopStep, LoopLaunch, LoopWait, LoopTimer,
       LoopNotified, LoopStop, LoopReturn, LoopSetFinished, RunStep, RunFinished, RunRetry,
       RunTaskReport, AddNumber, AddEnqueue, StopBegin, StopStep, StopNotify, StopDone, StopWait,
       StopCancelled, WakeStep, WakeLoopFinished, WakeTaskFinished, QuiesceBegin,
       QuiesceStep, QuiesceCheck, QuiesceCancelled
  <2>4. ~Start /\ ~LoopReturn /\ \A t \in Tasks : ~LoopLaunch(t) /\ ~RunTaskReport(t)
    BY <2>2 DEF Start, LoopReturn, LoopLaunch, RunTaskReport, LoopAlive, Running
  <2>5. CountFrame
    BY <2>4, CountSteps
  <2>6. QED
    BY <2>2, <2>3, <2>5 DEF CountFrame
<1>3. QED
  BY <1>1, <1>2

\* When Stop returns, the loop and all tasks are over, and so they stay.
THEOREM StoppedForGood == Spec => []StopDrained
<1>1. Init => StopDrained
  BY DEF Init, StopDrained, Waiters
<1>2. QED
  BY <1>1, TypeCorrect, QueueInvInit, QueueInvStep, CountersInit, CountersStep,
     CallInvInit, CallInvStep, DrainedStep, PTL DEF Spec

\* NoLostFinish is inductive, given exact counters and one caller at a time.
LEMMA FinishStep ==
  TypeOK /\ CountersExact /\ CallInv /\ NoLostFinish /\ [Next]_vars => NoLostFinish'
<1> SUFFICES ASSUME TypeOK, CountersExact, CallInv, NoLostFinish, [Next]_vars,
                    NEW w \in Waiters, waiterPC'[w] = "wait", MayReturn(w)'
             PROVE  loopFinished' \/ loopPC' = "returned" \/ taskFinished' \/ finishers' > 0
  BY DEF NoLostFinish
<1> DEFINE Coming == loopFinished \/ loopPC = "returned" \/ taskFinished \/ finishers > 0
<1>1. waiterPC[w] = "wait" /\ MayReturn(w) => Coming
  BY DEF NoLostFinish
<1>2. taskActiveCount \in Nat
  BY ConstantsAssumption, FS_Subset, FS_CardinalityType DEF CountersExact, Running
<1> USE ConstantsAssumption DEF TypeOK, Waiters, MayReturn, NothingLeft
<1>3. CASE UNCHANGED <<queueVars, taskActiveCount, loopActiveCount, loopFinished, finishVars, waiterPC>>
           /\ (loopPC = "returned" => loopPC' = "returned")
  BY <1>1, <1>3 DEF queueVars, finishVars
<1>4. ASSUME NEW t \in Tasks, AddEnqueue(t) PROVE Coming'
  BY <1>1, <1>4 DEF AddEnqueue, Enqueue, loopVars, waiterVars, finishVars
<1>5. CASE Start
  BY <1>1, <1>5 DEF Start, CallInv, queueVars, waiterVars, finishVars
<1>6. ASSUME NEW t \in Tasks, LoopLaunch(t) PROVE Coming'
  BY <1>2, <1>6 DEF LoopLaunch
<1>7. CASE LoopReturn \/ LoopSetFinished \/ TaskFinishedSet
  BY <1>7 DEF LoopReturn, LoopSetFinished, TaskFinishedSet
<1>8. ASSUME NEW t \in Tasks, RunTaskReport(t) PROVE Coming'
  BY <1>8 DEF RunTaskReport
<1>9. ASSUME NEW v \in Waiters, WakeStep(v) PROVE Coming'
  <2>1. Inside(v) /\ waiterPC' = [waiterPC EXCEPT ![v] = "check"]
    BY <1>9 DEF WakeStep, WakeLoopFinished, WakeTaskFinished, Inside
  <2>2. v # w /\ Inside(w)
    BY <2>1 DEF Inside
  <2>3. QED
    BY <2>1, <2>2 DEF CallInv
<1>10. ASSUME NEW v \in Stoppers, StopDone(v) PROVE Coming'
  <2>1. Inside(v) /\ waiterPC' = [waiterPC EXCEPT ![v] = "returned"]
    BY <1>10 DEF StopDone, Inside
  <2>2. v # w /\ Inside(w)
    BY <2>1 DEF Inside
  <2>3. QED
    BY <2>1, <2>2 DEF CallInv
<1>11. ASSUME NEW v \in Stoppers, StopBegin(v) \/ StopNotify(v) \/ StopWait(v) \/ StopCancelled(v)
       PROVE  Coming'
  BY <1>1, <1>11 DEF StopBegin, StopNotify, StopWait, StopCancelled, queueVars, loopVars, finishVars
<1>12. ASSUME NEW v \in Quiescers, QuiesceBegin(v) \/ QuiesceCheck(v) \/ QuiesceCancelled(v)
       PROVE  Coming'
  BY <1>1, <1>12 DEF QuiesceBegin, QuiesceCheck, QuiesceCancelled, queueVars, loopVars, finishVars
<1>13. CASE LoopWait \/ LoopTimer \/ LoopNotified \/ LoopStop
  BY <1>3, <1>13 DEF LoopWait, LoopTimer, LoopNotified, LoopStop, waiterVars
<1>14. ASSUME NEW t \in Tasks, RunFinished(t) \/ (\E delay \in RetryDelays : RunRetry(t, delay))
                               \/ (\E after \in DueTimes : AddNumber(t, after))
       PROVE  Coming'
  BY <1>3, <1>14 DEF RunFinished, RunRetry, AddNumber, loopVars, waiterVars
<1>15. CASE (\E count \in SlotArgs : SetSlots(count)) \/ Notify \/ Tick \/ UNCHANGED vars
            \/ \E v \in Waiters : CancelContext(v)
  BY <1>3, <1>15 DEF SetSlots, Notify, Tick, CancelContext, vars, loopVars, waiterVars
<1>16. QED
  BY <1>4, <1>5, <1>6, <1>7, <1>8, <1>9, <1>10, <1>11, <1>12, <1>13, <1>14, <1>15
  DEF Next, LoopStep, RunStep, StopStep, QuiesceStep

\* Stop and Quiesce never sleep on although what they wait for has happened.
THEOREM CallersAreWoken == Spec => []NoLostFinish
<1>1. Init => NoLostFinish
  BY DEF Init, NoLostFinish
<1>2. QED
  BY <1>1, TypeCorrect, QueueInvInit, QueueInvStep, CountersInit, CountersStep,
     CallInvInit, CallInvStep, FinishStep, PTL DEF Spec
=============================================================================
