------------------------- MODULE SchedulerRefinement -------------------------
(***************************************************************************)
(* The proof that the scheduler implements TaskPool.                       *)
(***************************************************************************)
EXTENDS SchedulerProofs

\* What the simulation needs beyond the invariants of SchedulerProofs.
PoolInv ==
  /\ now >= 1
  /\ \A t \in Tasks :
       /\ taskPC[t] = "new" => seq[t] = 0
       /\ taskPC[t] \in {"new", "adding"} => result[t] = "none"
       /\ Queued(t) => result[t] # "finished"
       /\ taskPC[t] = "returned" /\ result[t] = "retry" => nextAfter[t] # 0

\* One case per action that touches queues or tasks, one for all others.
LEMMA PoolInvStep == TypeOK /\ QueueInv /\ PoolInv /\ [Next]_vars => PoolInv'
<1> SUFFICES ASSUME TypeOK, QueueInv, PoolInv, [Next]_vars PROVE PoolInv'
  OBVIOUS
<1>1. now' >= 1
  BY DEF PoolInv, TypeOK, Next, SetSlots, Notify, Start, TaskFinishedSet, CancelContext, Tick,
     vars, LoopStep, LoopLaunch, LoopWait, LoopTimer, LoopNotified, LoopStop, LoopReturn,
     LoopSetFinished, RunStep, RunFinished, RunRetry, RunTaskReport, AddNumber, AddEnqueue,
     StopBegin, StopStep, StopNotify, StopDone, StopWait, StopCancelled, WakeStep,
     WakeLoopFinished, WakeTaskFinished, QuiesceBegin, QuiesceStep, QuiesceCheck, QuiesceCancelled
<1> USE <1>1, ConstantsAssumption DEF PoolInv, QueueInv, OnePlace, Queued, TypeOK
<1>2. CASE QueueFrame
  BY <1>2 DEF QueueFrame, queueVars, taskVars
<1>3. ASSUME NEW t \in Tasks, NEW after \in DueTimes, AddNumber(t, after) PROVE PoolInv'
  BY <1>3 DEF AddNumber, queueVars
<1>4. ASSUME NEW t \in Tasks, AddEnqueue(t) PROVE PoolInv'
  BY <1>4 DEF AddEnqueue, Enqueue
<1>5. ASSUME NEW t \in Tasks, LoopLaunch(t) PROVE PoolInv'
  BY <1>5 DEF LoopLaunch
<1>6. ASSUME NEW t \in Tasks, RunFinished(t) PROVE PoolInv'
  BY <1>6 DEF RunFinished, queueVars
<1>7. ASSUME NEW t \in Tasks, NEW delay \in RetryDelays, RunRetry(t, delay) PROVE PoolInv'
  BY <1>7 DEF RunRetry, queueVars
<1>8. ASSUME NEW t \in Tasks, RunTaskReport(t) PROVE PoolInv'
  BY <1>8 DEF RunTaskReport, Enqueue, queueVars
<1>9. ASSUME NEW w \in Stoppers, StopDone(w) PROVE PoolInv'
  BY <1>9 DEF StopDone, taskVars
<1>10. QED
  BY <1>2, <1>3, <1>4, <1>5, <1>6, <1>7, <1>8, <1>9, QueueSteps

\* Tasks are new and time starts at 1.
LEMMA PoolInvInit == Init => PoolInv
BY DEF Init, PoolInv, Queued

\* The pool's active tasks are those that hold a slot.
LEMMA ActiveIsRunning == Pool!Active = Running
BY DEF Pool!Active, Running, Status

\* Seen through the instance, Cardinality is a definition of its own.
LEMMA PoolCardinality == ASSUME NEW S PROVE Pool!Cardinality(S) = Cardinality(S)
BY Zenon DEF Cardinality, Pool!Cardinality, IsFiniteSet, Pool!IsFiniteSet

\* The initial states of the scheduler are initial states of the pool.
LEMMA PoolInit == TypeOK /\ Init => Pool!Init
BY DEF Pool!Init, Init, Status, Queued, TypeOK

\* Adding a task to one of the queues, in Add or in runTask, is a Submit.
LEMMA EnqueueSubmits ==
  ASSUME TypeOK, NEW t \in Tasks, Enqueue(t), taskPC' = [taskPC EXCEPT ![t] = "idle"],
         UNCHANGED <<now, slots, loopStopRequested, seq, nextAfter, result>>,
         Status(t) \in {"new", "running"}, seq[t] # 0, Status(t) = "running" => nextAfter[t] # 0
  PROVE  Pool!Submit(t)
<1> DEFINE status == [u \in Tasks |-> Status(u)]
           due == [u \in Tasks |-> IF Queued(u) THEN nextAfter[u] ELSE 0]
<1>1. \A u \in Tasks : Queued(u)' = (u = t \/ Queued(u))
  BY DEF Enqueue, Queued
<1>2. \A u \in Tasks : Status(u)' = IF u = t THEN "waiting" ELSE Status(u)
  BY <1>1, Zenon DEF Status, TypeOK
<1>3. status' = [status EXCEPT ![t] = "waiting"]
  BY <1>2, Zenon
<1>4. due' = [due EXCEPT ![t] = nextAfter[t]]
  BY <1>1, Zenon
<1>5. due'[t] = nextAfter[t] /\ nextAfter[t] \in Nat
  <2>1. due'[t] = nextAfter[t]
    BY <1>4, Zenon
  <2>2. QED
    BY <2>1 DEF TypeOK
<1>6. due' = [due EXCEPT ![t] = due'[t]]
  BY <1>4, <1>5
<1>7. status[t] = Status(t)
  BY Zenon
<1>8. QED
  BY <1>3, <1>5, <1>6, <1>7 DEF Pool!Submit

\* Every step of the scheduler is a step of the pool or changes nothing in it.
LEMMA PoolStep ==
  ASSUME TypeOK, QueueInv, CountersExact, CallInv, PoolInv, [Next]_vars
  PROVE  [Pool!Next]_Pool!pool
<1> USE ConstantsAssumption
<1>1. ASSUME NEW count \in SlotArgs, SetSlots(count) PROVE Pool!Resize
  BY <1>1 DEF SetSlots, Pool!Resize, Status, Queued, TypeOK, queueVars, taskVars, waiterVars
<1>2. ASSUME NEW t \in Tasks, NEW after \in DueTimes, AddNumber(t, after) PROVE Pool!Announce(t)
  BY <1>2 DEF AddNumber, Pool!Announce, Pool!Numbered, Status, Queued, TypeOK, PoolInv, QueueInv,
              OnePlace, queueVars, waiterVars
<1>3. ASSUME NEW t \in Tasks, AddEnqueue(t) PROVE Pool!Submit(t)
  <2>1. Status(t) = "new" /\ seq[t] # 0
    BY <1>3 DEF AddEnqueue, Status, QueueInv, OnePlace
  <2>2. UNCHANGED <<now, slots, loopStopRequested, seq, nextAfter, result>>
    BY <1>3 DEF AddEnqueue, waiterVars
  <2>3. Enqueue(t) /\ taskPC' = [taskPC EXCEPT ![t] = "idle"]
    BY <1>3 DEF AddEnqueue
  <2>4. QED
    BY <2>1, <2>2, <2>3, EnqueueSubmits
<1>4. ASSUME NEW t \in Tasks, LoopLaunch(t) PROVE Pool!Begin(t)
  <2>1. Pool!Cardinality(Pool!Active) < slots
    BY <1>4, ActiveIsRunning, PoolCardinality DEF LoopLaunch, CountersExact
  <2>2. Queued(t) /\ nextAfter[t] <= now
    BY <1>4 DEF LoopLaunch, PopNext, SomeDue, Earliest, Queued, TypeOK, QueueInv, OnePlace
  <2>3. nextAfter[t] = 0 => \A u \in tasksByOrder : seq[t] <= seq[u]
    BY <1>4 DEF LoopLaunch, PopNext, Oldest, Queued, TypeOK, QueueInv, OnePlace
  <2>4. Status(t) = "waiting"
    BY <2>2 DEF Status, QueueInv, OnePlace
  <2>5. \A u \in Tasks : Status(u) = "waiting" => Queued(u)
    BY DEF Status, TypeOK
  <2>6. \A u \in Tasks : Queued(u)' = (Queued(u) /\ u # t)
    BY <1>4 DEF LoopLaunch, Queued
  <2>7. \A u \in Tasks : Status(u)' = IF u = t THEN "running" ELSE Status(u)
    BY <1>4, <2>6, Zenon DEF LoopLaunch, Status, TypeOK
  <2>8. nextAfter[t] = 0 =>
          \A u \in Tasks : Queued(u) /\ nextAfter[u] = 0 => seq[t] <= seq[u]
    BY <2>3 DEF Queued, QueueInv, OnePlace
  <2>9. ~loopStopRequested /\ UNCHANGED <<now, slots, loopStopRequested, seq, nextAfter>>
    BY <1>4 DEF LoopLaunch, waiterVars
  <2> DEFINE status == [u \in Tasks |-> Status(u)]
             due == [u \in Tasks |-> IF Queued(u) THEN nextAfter[u] ELSE 0]
  <2>10. status' = [status EXCEPT ![t] = "running"]
    BY <2>7, Zenon
  <2>11. due' = [due EXCEPT ![t] = 0]
    BY <2>6, <2>9, Zenon
  <2>12. due[t] = 0 =>
           \A u \in Tasks : status[u] = "waiting" /\ due[u] = 0 => seq[t] <= seq[u]
    BY <2>2, <2>5, <2>8
  <2>13. status[t] = "waiting" /\ due[t] <= now
    BY <2>2, <2>4
  <2>14. QED
    BY <2>1, <2>9, <2>10, <2>11, <2>12, <2>13 DEF Pool!Begin
<1>5. ASSUME NEW t \in Tasks, RunFinished(t) \/ \E delay \in RetryDelays : RunRetry(t, delay)
      PROVE  UNCHANGED Pool!pool
  BY <1>5 DEF RunFinished, RunRetry, Pool!pool, Status, Queued, TypeOK, QueueInv, OnePlace,
              queueVars, waiterVars
<1>6. ASSUME NEW t \in Tasks, RunTaskReport(t) PROVE Pool!Submit(t) \/ Pool!End(t)
  <2>1. CASE result[t] = "retry"
    <3>1. Status(t) = "running" /\ seq[t] # 0 /\ nextAfter[t] # 0
      BY <1>6, <2>1 DEF RunTaskReport, Status, QueueInv, OnePlace, PoolInv
    <3>2. UNCHANGED <<now, slots, loopStopRequested, seq, nextAfter, result>>
      BY <1>6 DEF RunTaskReport, waiterVars
    <3>3. Enqueue(t) /\ taskPC' = [taskPC EXCEPT ![t] = "idle"]
      BY <1>6, <2>1 DEF RunTaskReport
    <3>4. QED
      BY <3>1, <3>2, <3>3, EnqueueSubmits
  <2>2. CASE result[t] # "retry"
    BY <1>6, <2>2 DEF RunTaskReport, Pool!End, Status, Queued, TypeOK, QueueInv, OnePlace,
                      queueVars, waiterVars
  <2>3. QED
    BY <2>1, <2>2
<1>7. ASSUME NEW w \in Stoppers, StopBegin(w) PROVE Pool!Close
  BY <1>7 DEF StopBegin, Pool!Close, Status, Queued, queueVars, taskVars
<1>8. ASSUME NEW w \in Stoppers, StopDone(w) PROVE Pool!Abandon
  <2>1. IsFiniteSet(Running) /\ Cardinality(Running) = 0
    BY <1>8, FS_Subset DEF StopDone, CountersExact, Running
  <2>2. Pool!Active = {}
    BY <2>1, FS_EmptySet, ActiveIsRunning
  <2>3. loopStopRequested
    BY <1>8 DEF StopDone, CallInv
  <2>4. QED
    BY <1>8, <2>2, <2>3
    DEF StopDone, Pool!Abandon, Status, Queued, TypeOK, QueueInv, OnePlace, PoolInv, taskVars
<1>9. ASSUME Tick PROVE Pool!Pass
  BY <1>9 DEF Tick, Pool!Pass, Status, Queued, queueVars, taskVars, waiterVars
<1>10. ASSUME UNCHANGED <<now, slots, loopStopRequested, queueVars, taskVars>>
       PROVE  UNCHANGED Pool!pool
  BY <1>10 DEF Pool!pool, Status, Queued, queueVars, taskVars
<1>11. CASE Notify \/ Start \/ TaskFinishedSet \/ UNCHANGED vars
  BY <1>10, <1>11 DEF Notify, Start, TaskFinishedSet, vars, waiterVars
<1>12. CASE LoopWait \/ LoopTimer \/ LoopNotified \/ LoopStop \/ LoopReturn \/ LoopSetFinished
  BY <1>10, <1>12 DEF LoopWait, LoopTimer, LoopNotified, LoopStop, LoopReturn, LoopSetFinished, waiterVars
<1>13. ASSUME NEW w \in Waiters, WakeStep(w) \/ CancelContext(w) PROVE UNCHANGED Pool!pool
  BY <1>10, <1>13 DEF WakeStep, WakeLoopFinished, WakeTaskFinished, CancelContext, queueVars, taskVars
<1>14. ASSUME NEW w \in Stoppers, StopNotify(w) \/ StopWait(w) \/ StopCancelled(w)
       PROVE  UNCHANGED Pool!pool
  BY <1>10, <1>14 DEF StopNotify, StopWait, StopCancelled
<1>15. ASSUME NEW w \in Quiescers, QuiesceBegin(w) \/ QuiesceCheck(w) \/ QuiesceCancelled(w)
       PROVE  UNCHANGED Pool!pool
  BY <1>10, <1>15 DEF QuiesceBegin, QuiesceCheck, QuiesceCancelled
<1>16. QED
  BY <1>1, <1>2, <1>3, <1>4, <1>5, <1>6, <1>7, <1>8, <1>9, <1>11, <1>12, <1>13, <1>14, <1>15
  DEF Next, LoopStep, RunStep, StopStep, QuiesceStep, Waiters, Pool!Next

\* The scheduler implements the pool: its loop, mutex, events and two queues
\* are invisible to its users, for any number of tasks, slots and callers.
THEOREM SchedulerImplementsPool == Spec => ImplementsPool
<1>1. TypeOK /\ QueueInv /\ CountersExact /\ CallInv /\ PoolInv /\ [Next]_vars
        => [Pool!Next]_Pool!pool
  BY PoolStep
<1>2. QED
  BY <1>1, TypeCorrect, QueueInvInit, QueueInvStep, CountersInit, CountersStep, CallInvInit,
     CallInvStep, PoolInvInit, PoolInvStep, PoolInit, PTL
  DEF Spec, ImplementsPool, Pool!Spec
=============================================================================
