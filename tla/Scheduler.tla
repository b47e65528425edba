------------------------------ MODULE Scheduler ------------------------------
(***************************************************************************)
(* The task scheduler of internal/scheduler.  Its Go mutex s.mu protects   *)
(* short critical sections that never block, so every critical section is  *)
(* one action; what a goroutine does before taking or after releasing the  *)
(* mutex is an action of its own.  The two hand-overs of a held mutex to a *)
(* new goroutine (Start, launching a task) belong to the critical section  *)
(* of the goroutine that locked it.                                        *)
(*                                                                         *)
(* An "event" of the code is a channel with room for one token: Set leaves *)
(* a token unless there is one, a receive takes it.                        *)
(***************************************************************************)
EXTENDS Integers, FiniteSets

CONSTANTS
  Tasks,         \* the Task objects Add creates, each added at most once
  Stoppers,      \* callers of Stop
  Quiescers,     \* callers of Quiesce
  SlotArgs,      \* arguments of SetSlots
  AddDelays,     \* arguments of NextAfterDuration given to Add
  RetryDelays,   \* RetryDelay of the TaskErrors that a task function returns
  MaxAttempts,   \* bound: runs of one task (a task function's retry policy)
  MaxTime,       \* bound: the clock
  MaxNotifiers   \* bound: goroutines about to set loopNotification

Waiters == Stoppers \cup Quiescers

ASSUME ConstantsAssumption ==
  /\ IsFiniteSet(Tasks)
  /\ Stoppers \cap Quiescers = {}
  /\ SlotArgs \subseteq Int /\ \E count \in SlotArgs : count > 0
  /\ AddDelays \subseteq Nat
  /\ RetryDelays \subseteq Nat
  /\ MaxAttempts \in Nat /\ MaxTime \in Nat /\ MaxNotifiers \in Nat

VARIABLES
  now,                \* clock.Now(); starts at 1, so 0 is Go's zero time
  slots,
  tasksByOrder,       \* tasks without a due time (a queue sorted by seq)
  tasksByTime,        \* tasks with a due time (a queue sorted by nextAfter)
  seqCounter,
  loopActiveCount,
  loopStopRequested,
  loopNotification,   \* event token
  loopFinished,       \* event token
  taskContextDone,    \* taskContext has been cancelled
  taskActiveCount,
  taskFinished,       \* event token
  seq,                \* Task.seq, 0 before Add
  nextAfter,          \* Task.nextAfter, 0 is the zero time
  attemptCount,       \* Task.attemptCount
  result,             \* what the last t.run() returned
  taskPC,             \* the goroutine working on the task
  loopPC,             \* the scheduler loop's goroutine
  nextTaskDue,        \* deadline of the timer in the loop's select, 0 if none
  notifiers,          \* goroutines that left Add/SetSlots' critical section
                      \* and are about to call loopNotification.Set()
  finishers,          \* goroutines about to call taskFinished.Set()
  waiterPC,           \* callers of Stop and Quiesce
  waiterCtx           \* the context they passed: live, done, or done and
                      \* already received from

queueVars  == <<tasksByOrder, tasksByTime>>
taskVars   == <<seq, nextAfter, attemptCount, result, taskPC>>
loopVars   == <<loopPC, nextTaskDue, loopActiveCount, loopFinished>>
waiterVars == <<waiterPC, waiterCtx, loopStopRequested, taskContextDone>>
finishVars == <<finishers, taskFinished>>
notifyVars == <<notifiers, loopNotification>>

vars == <<now, slots, seqCounter, taskActiveCount, queueVars, taskVars,
          loopVars, waiterVars, finishVars, notifyVars>>

TypeOK ==
  /\ now \in Nat /\ slots \in Nat \ {0} /\ seqCounter \in Nat
  /\ tasksByOrder \subseteq Tasks /\ tasksByTime \subseteq Tasks
  /\ loopActiveCount \in Int /\ taskActiveCount \in Int
  /\ loopStopRequested \in BOOLEAN /\ taskContextDone \in BOOLEAN
  /\ loopNotification \in BOOLEAN /\ loopFinished \in BOOLEAN
  /\ taskFinished \in BOOLEAN
  /\ seq \in [Tasks -> Nat] /\ nextAfter \in [Tasks -> Nat]
  /\ attemptCount \in [Tasks -> Nat]
  /\ result \in [Tasks -> {"none", "finished", "retry"}]
  /\ taskPC \in [Tasks -> {"new", "adding", "idle", "running", "returned"}]
  /\ loopPC \in {"none", "check", "wait", "return", "returned", "done"}
  /\ nextTaskDue \in Nat /\ notifiers \in Nat /\ finishers \in Nat
  /\ waiterPC \in [Waiters -> {"idle", "notify", "check", "wait", "returned"}]
  /\ waiterCtx \in [Waiters -> {"live", "done", "taken"}]

\* New: as many slots as there are CPUs.
Init ==
  /\ now = 1 /\ seqCounter = 0
  /\ slots \in {count \in SlotArgs : count > 0}
  /\ tasksByOrder = {} /\ tasksByTime = {}
  /\ loopActiveCount = 0 /\ taskActiveCount = 0
  /\ loopStopRequested = FALSE /\ taskContextDone = FALSE
  /\ loopNotification = FALSE /\ loopFinished = FALSE /\ taskFinished = FALSE
  /\ seq = [t \in Tasks |-> 0] /\ nextAfter = [t \in Tasks |-> 0]
  /\ attemptCount = [t \in Tasks |-> 0]
  /\ result = [t \in Tasks |-> "none"]
  /\ taskPC = [t \in Tasks |-> "new"]
  /\ loopPC = "none" /\ nextTaskDue = 0
  /\ notifiers = 0 /\ finishers = 0
  /\ waiterPC = [w \in Waiters |-> "idle"]
  /\ waiterCtx = [w \in Waiters |-> "live"]

-----------------------------------------------------------------------------
(* Operations: SetSlots, Add, Start                                        *)

\* Mutant: the argument is taken as it is.
SetSlotsUnchecked(count) ==
  /\ notifiers < MaxNotifiers
  /\ slots' = count
  /\ notifiers' = notifiers + 1
  /\ UNCHANGED <<now, seqCounter, taskActiveCount, loopNotification>>
  /\ UNCHANGED <<queueVars, taskVars, loopVars, waiterVars, finishVars>>

SetSlots(count) ==
  /\ notifiers < MaxNotifiers
  /\ slots' = IF count < 1 THEN 1 ELSE count
  /\ notifiers' = notifiers + 1
  /\ UNCHANGED <<now, seqCounter, taskActiveCount, loopNotification>>
  /\ UNCHANGED <<queueVars, taskVars, loopVars, waiterVars, finishVars>>

\* Mutant: retries go to the end of the insertion order as well.
EnqueueIgnoringTime(t) == tasksByOrder' = tasksByOrder \cup {t} /\ UNCHANGED tasksByTime

\* enqueue panics unless the task is in neither queue and has a number;
\* OnePlace shows that it always is and has.
Enqueue(t) ==
  IF nextAfter[t] = 0
  THEN tasksByOrder' = tasksByOrder \cup {t} /\ UNCHANGED tasksByTime
  ELSE tasksByTime' = tasksByTime \cup {t} /\ UNCHANGED tasksByOrder

\* The due times the options of Add can give the new task.
DueTimes == {0} \cup {now + d : d \in AddDelays}

\* Add, first part: number the task and apply the options.
AddNumber(t, after) ==
  /\ taskPC[t] = "new"
  /\ after <= MaxTime
  /\ seqCounter' = seqCounter + 1
  /\ seq' = [seq EXCEPT ![t] = seqCounter + 1]
  /\ nextAfter' = [nextAfter EXCEPT ![t] = after]
  /\ taskPC' = [taskPC EXCEPT ![t] = "adding"]
  /\ UNCHANGED <<now, slots, taskActiveCount, attemptCount, result>>
  /\ UNCHANGED <<queueVars, loopVars, waiterVars, finishVars, notifyVars>>

\* Add, second part: the critical section.
AddEnqueue(t) ==
  /\ taskPC[t] = "adding"
  /\ notifiers < MaxNotifiers
  /\ Enqueue(t)
  /\ taskPC' = [taskPC EXCEPT ![t] = "idle"]
  /\ notifiers' = notifiers + 1
  /\ UNCHANGED <<now, slots, seqCounter, taskActiveCount, loopNotification>>
  /\ UNCHANGED <<seq, nextAfter, attemptCount, result>>
  /\ UNCHANGED <<loopVars, waiterVars, finishVars>>

\* The loopNotification.Set() that ends Add and SetSlots.
Notify ==
  /\ notifiers > 0
  /\ notifiers' = notifiers - 1
  /\ loopNotification' = TRUE
  /\ UNCHANGED <<now, slots, seqCounter, taskActiveCount>>
  /\ UNCHANGED <<queueVars, taskVars, loopVars, waiterVars, finishVars>>

\* Otherwise Start panics.
Start ==
  /\ ~loopStopRequested /\ loopActiveCount = 0
  /\ loopActiveCount' = loopActiveCount + 1
  /\ loopPC' = "check"
  /\ UNCHANGED <<now, slots, seqCounter, taskActiveCount, nextTaskDue, loopFinished>>
  /\ UNCHANGED <<queueVars, taskVars, waiterVars, finishVars, notifyVars>>

-----------------------------------------------------------------------------
(* The loop                                                                *)

Earliest(t) == \A u \in tasksByTime : nextAfter[t] <= nextAfter[u]

\* Mutant: Less with its operands swapped.
Newest(t) == \A u \in tasksByOrder : seq[t] >= seq[u]

Oldest(t) == \A u \in tasksByOrder : seq[t] <= seq[u]

\* Is the first of tasksByTime due?
SomeDue == \E t \in tasksByTime : nextAfter[t] - now <= 0

\* What popNextLocked may return: a task that is due (any of the earliest,
\* the heap breaks ties arbitrarily), else the oldest task without due time.
PopNext ==
  IF SomeDue THEN {t \in tasksByTime : Earliest(t)} ELSE {t \in tasksByOrder : Oldest(t)}

\* Mutant: no timer is set for the next due time.
NextDueUnknown == {0}

\* When the timer goes off that popNextLocked's second result leads to.
NextDue ==
  IF tasksByTime = {} THEN {0}
  ELSE {nextAfter[t] : t \in {u \in tasksByTime : Earliest(u)}}

LoopLaunch(t) ==
  /\ loopPC = "check" /\ ~loopStopRequested
  /\ taskActiveCount < slots
  /\ t \in PopNext
  /\ tasksByOrder' = tasksByOrder \ {t}
  /\ tasksByTime' = tasksByTime \ {t}
  /\ taskActiveCount' = taskActiveCount + 1
  /\ taskPC' = [taskPC EXCEPT ![t] = "running"]
  /\ attemptCount' = [attemptCount EXCEPT ![t] = @ + 1]
  /\ UNCHANGED <<now, slots, seqCounter, seq, nextAfter, result>>
  /\ UNCHANGED <<loopVars, waiterVars, finishVars, notifyVars>>

LoopWait ==
  /\ loopPC = "check" /\ ~loopStopRequested
  /\ taskActiveCount < slots => ~SomeDue /\ tasksByOrder = {}
  /\ loopPC' = "wait"
  /\ nextTaskDue' \in IF taskActiveCount < slots THEN NextDue ELSE {0}
  /\ UNCHANGED <<now, slots, seqCounter, taskActiveCount, loopActiveCount, loopFinished>>
  /\ UNCHANGED <<queueVars, taskVars, waiterVars, finishVars, notifyVars>>

LoopTimer ==
  /\ loopPC = "wait"
  /\ nextTaskDue # 0 /\ now >= nextTaskDue
  /\ loopPC' = "check"
  /\ nextTaskDue' = 0
  /\ UNCHANGED <<now, slots, seqCounter, taskActiveCount, loopActiveCount, loopFinished>>
  /\ UNCHANGED <<queueVars, taskVars, waiterVars, finishVars, notifyVars>>

LoopNotified ==
  /\ loopPC = "wait"
  /\ loopNotification
  /\ loopNotification' = FALSE
  /\ loopPC' = "check"
  /\ nextTaskDue' = 0
  /\ UNCHANGED <<now, slots, seqCounter, taskActiveCount, loopActiveCount, loopFinished>>
  /\ UNCHANGED <<notifiers, queueVars, taskVars, waiterVars, finishVars>>

LoopStop ==
  /\ loopPC = "check" /\ loopStopRequested
  /\ loopPC' = "return"
  /\ UNCHANGED <<now, slots, seqCounter, taskActiveCount, nextTaskDue, loopActiveCount, loopFinished>>
  /\ UNCHANGED <<queueVars, taskVars, waiterVars, finishVars, notifyVars>>

\* Mutant: the deferred function does not count the loop down.
LoopReturnUncounted ==
  /\ loopPC = "return" /\ loopPC' = "returned"
  /\ UNCHANGED <<now, slots, seqCounter, taskActiveCount, nextTaskDue, loopActiveCount, loopFinished>>
  /\ UNCHANGED <<queueVars, taskVars, waiterVars, finishVars, notifyVars>>

\* The deferred function of Start's goroutine, inside and after the mutex.
LoopReturn ==
  /\ loopPC = "return"
  /\ loopActiveCount' = loopActiveCount - 1
  /\ loopPC' = "returned"
  /\ UNCHANGED <<now, slots, seqCounter, taskActiveCount, nextTaskDue, loopFinished>>
  /\ UNCHANGED <<queueVars, taskVars, waiterVars, finishVars, notifyVars>>

\* Mutant: nobody is told that the loop has returned.
LoopSetFinishedSilent ==
  /\ loopPC = "returned" /\ loopPC' = "done"
  /\ UNCHANGED <<now, slots, seqCounter, taskActiveCount, nextTaskDue, loopActiveCount, loopFinished>>
  /\ UNCHANGED <<queueVars, taskVars, waiterVars, finishVars, notifyVars>>

LoopSetFinished ==
  /\ loopPC = "returned"
  /\ loopFinished' = TRUE
  /\ loopPC' = "done"
  /\ UNCHANGED <<now, slots, seqCounter, taskActiveCount, nextTaskDue, loopActiveCount>>
  /\ UNCHANGED <<queueVars, taskVars, waiterVars, finishVars, notifyVars>>

-----------------------------------------------------------------------------
(* Running tasks                                                           *)

\* t.run: success and permanent errors finish the task.
RunFinished(t) ==
  /\ taskPC[t] = "running"
  /\ taskPC' = [taskPC EXCEPT ![t] = "returned"]
  /\ result' = [result EXCEPT ![t] = "finished"]
  /\ UNCHANGED <<now, slots, seqCounter, taskActiveCount, seq, nextAfter, attemptCount>>
  /\ UNCHANGED <<queueVars, loopVars, waiterVars, finishVars, notifyVars>>

\* t.run: a TaskError with a delay asks for another attempt.
RunRetry(t, delay) ==
  /\ taskPC[t] = "running"
  /\ attemptCount[t] < MaxAttempts /\ now + delay <= MaxTime
  /\ taskPC' = [taskPC EXCEPT ![t] = "returned"]
  /\ result' = [result EXCEPT ![t] = "retry"]
  /\ nextAfter' = [nextAfter EXCEPT ![t] = now + delay]
  /\ UNCHANGED <<now, slots, seqCounter, taskActiveCount, seq, attemptCount>>
  /\ UNCHANGED <<queueVars, loopVars, waiterVars, finishVars, notifyVars>>

\* Mutant: the loop is only told of a task that is to be retried.
RunTaskReportRetriesOnly(t) ==
  /\ taskPC[t] = "returned"
  /\ taskPC' = [taskPC EXCEPT ![t] = "idle"]
  /\ taskActiveCount' = taskActiveCount - 1
  /\ IF result[t] = "retry" THEN Enqueue(t) ELSE UNCHANGED queueVars
  /\ loopNotification' = (loopNotification \/ result[t] = "retry")
  /\ finishers' = finishers + 1
  /\ UNCHANGED <<now, slots, seqCounter, seq, nextAfter, attemptCount, result>>
  /\ UNCHANGED <<notifiers, taskFinished, loopVars, waiterVars>>

\* runTask's critical section.
RunTaskReport(t) ==
  /\ taskPC[t] = "returned"
  /\ taskPC' = [taskPC EXCEPT ![t] = "idle"]
  /\ taskActiveCount' = taskActiveCount - 1
  /\ IF result[t] = "retry" THEN Enqueue(t) ELSE UNCHANGED queueVars
  /\ loopNotification' = (loopNotification \/ tasksByOrder' # {} \/ tasksByTime' # {})
  /\ finishers' = finishers + 1
  /\ UNCHANGED <<now, slots, seqCounter, seq, nextAfter, attemptCount, result>>
  /\ UNCHANGED <<notifiers, taskFinished, loopVars, waiterVars>>

\* The taskFinished.Set() that ends runTask.
TaskFinishedSet ==
  /\ finishers > 0
  /\ finishers' = finishers - 1
  /\ taskFinished' = TRUE
  /\ UNCHANGED <<now, slots, seqCounter, taskActiveCount>>
  /\ UNCHANGED <<queueVars, taskVars, loopVars, waiterVars, notifyVars>>

-----------------------------------------------------------------------------
(* Stop and Quiesce                                                        *)

Inside(w) == waiterPC[w] \notin {"idle", "returned"}

\* One caller at a time, as in the whole program: with two callers inside,
\* one could take the only token of taskFinished and leave the other asleep.
MayCall(w) == waiterPC[w] = "idle" /\ \A v \in Waiters : ~Inside(v)

StopBegin(w) ==
  /\ MayCall(w)
  /\ loopStopRequested' = TRUE
  /\ waiterPC' = [waiterPC EXCEPT ![w] = "notify"]
  /\ UNCHANGED <<now, slots, seqCounter, taskActiveCount, waiterCtx, taskContextDone>>
  /\ UNCHANGED <<queueVars, taskVars, loopVars, finishVars, notifyVars>>

\* Mutant: Stop does not wake the loop.
StopNotifySilent(w) ==
  /\ waiterPC[w] = "notify"
  /\ waiterPC' = [waiterPC EXCEPT ![w] = "check"]
  /\ UNCHANGED <<now, slots, seqCounter, taskActiveCount, waiterCtx>>
  /\ UNCHANGED <<loopStopRequested, taskContextDone, notifyVars>>
  /\ UNCHANGED <<queueVars, taskVars, loopVars, finishVars>>

StopNotify(w) ==
  /\ waiterPC[w] = "notify"
  /\ loopNotification' = TRUE
  /\ waiterPC' = [waiterPC EXCEPT ![w] = "check"]
  /\ UNCHANGED <<now, slots, seqCounter, taskActiveCount, waiterCtx>>
  /\ UNCHANGED <<loopStopRequested, taskContextDone, notifiers>>
  /\ UNCHANGED <<queueVars, taskVars, loopVars, finishVars>>

\* Mutant: Stop does not wait for the loop to return.
StopDoneBeforeLoop(w) ==
  /\ waiterPC[w] = "check"
  /\ taskActiveCount = 0
  /\ tasksByOrder' = {} /\ tasksByTime' = {}
  /\ taskContextDone' = TRUE
  /\ waiterPC' = [waiterPC EXCEPT ![w] = "returned"]
  /\ UNCHANGED <<now, slots, seqCounter, taskActiveCount, waiterCtx, loopStopRequested>>
  /\ UNCHANGED <<taskVars, loopVars, finishVars, notifyVars>>

\* Everything has stopped: drop what is queued; the deferred
\* taskContextCancel runs when no task is left that could see it.
StopDone(w) ==
  /\ waiterPC[w] = "check"
  /\ loopActiveCount = 0 /\ taskActiveCount = 0
  /\ tasksByOrder' = {} /\ tasksByTime' = {}
  /\ taskContextDone' = TRUE
  /\ waiterPC' = [waiterPC EXCEPT ![w] = "returned"]
  /\ UNCHANGED <<now, slots, seqCounter, taskActiveCount, waiterCtx, loopStopRequested>>
  /\ UNCHANGED <<taskVars, loopVars, finishVars, notifyVars>>

StopWait(w) ==
  /\ waiterPC[w] = "check"
  /\ ~(loopActiveCount = 0 /\ taskActiveCount = 0)
  /\ waiterPC' = [waiterPC EXCEPT ![w] = "wait"]
  /\ UNCHANGED <<now, slots, seqCounter, taskActiveCount, waiterCtx>>
  /\ UNCHANGED <<loopStopRequested, taskContextDone>>
  /\ UNCHANGED <<queueVars, taskVars, loopVars, finishVars, notifyVars>>

\* The select's ctxDoneChan case, taken at most once.
StopCancelled(w) ==
  /\ waiterPC[w] = "wait" /\ waiterCtx[w] = "done"
  /\ waiterCtx' = [waiterCtx EXCEPT ![w] = "taken"]
  /\ taskContextDone' = TRUE
  /\ waiterPC' = [waiterPC EXCEPT ![w] = "check"]
  /\ UNCHANGED <<now, slots, seqCounter, taskActiveCount, loopStopRequested>>
  /\ UNCHANGED <<queueVars, taskVars, loopVars, finishVars, notifyVars>>

\* The other two cases, the same in Stop and in Quiesce.
WakeLoopFinished(w) ==
  /\ waiterPC[w] = "wait" /\ loopFinished
  /\ loopFinished' = FALSE
  /\ waiterPC' = [waiterPC EXCEPT ![w] = "check"]
  /\ UNCHANGED <<now, slots, seqCounter, taskActiveCount, waiterCtx>>
  /\ UNCHANGED <<loopStopRequested, taskContextDone, loopPC, nextTaskDue, loopActiveCount>>
  /\ UNCHANGED <<queueVars, taskVars, finishVars, notifyVars>>

WakeTaskFinished(w) ==
  /\ waiterPC[w] = "wait" /\ taskFinished
  /\ taskFinished' = FALSE
  /\ waiterPC' = [waiterPC EXCEPT ![w] = "check"]
  /\ UNCHANGED <<now, slots, seqCounter, taskActiveCount, waiterCtx>>
  /\ UNCHANGED <<loopStopRequested, taskContextDone, finishers>>
  /\ UNCHANGED <<queueVars, taskVars, loopVars, notifyVars>>

QuiesceBegin(w) ==
  /\ MayCall(w)
  /\ loopNotification' = TRUE
  /\ waiterPC' = [waiterPC EXCEPT ![w] = "check"]
  /\ UNCHANGED <<now, slots, seqCounter, taskActiveCount, waiterCtx>>
  /\ UNCHANGED <<loopStopRequested, taskContextDone, notifiers>>
  /\ UNCHANGED <<queueVars, taskVars, loopVars, finishVars>>

\* Mutant: Quiesce wants the loop to be gone, too.
NothingLeftNotEvenLoop ==
  taskActiveCount = 0 /\ loopActiveCount = 0 /\ tasksByOrder = {} /\ tasksByTime = {}

NothingLeft == taskActiveCount = 0 /\ tasksByOrder = {} /\ tasksByTime = {}

QuiesceCheck(w) ==
  /\ waiterPC[w] = "check"
  /\ waiterPC' = [waiterPC EXCEPT ![w] = IF NothingLeft THEN "returned" ELSE "wait"]
  /\ UNCHANGED <<now, slots, seqCounter, taskActiveCount, waiterCtx>>
  /\ UNCHANGED <<loopStopRequested, taskContextDone>>
  /\ UNCHANGED <<queueVars, taskVars, loopVars, finishVars, notifyVars>>

QuiesceCancelled(w) ==
  /\ waiterPC[w] = "wait" /\ waiterCtx[w] = "done"
  /\ waiterCtx' = [waiterCtx EXCEPT ![w] = "taken"]
  /\ waiterPC' = [waiterPC EXCEPT ![w] = "returned"]
  /\ UNCHANGED <<now, slots, seqCounter, taskActiveCount>>
  /\ UNCHANGED <<loopStopRequested, taskContextDone>>
  /\ UNCHANGED <<queueVars, taskVars, loopVars, finishVars, notifyVars>>

-----------------------------------------------------------------------------
(* The environment                                                         *)

\* The context given to Stop or Quiesce expires or is cancelled.  (Neither
\* looks at it before its first wait, so this covers a context that was done
\* before the call.)
CancelContext(w) ==
  /\ Inside(w) /\ waiterCtx[w] = "live"
  /\ waiterCtx' = [waiterCtx EXCEPT ![w] = "done"]
  /\ UNCHANGED <<now, slots, seqCounter, taskActiveCount, waiterPC>>
  /\ UNCHANGED <<loopStopRequested, taskContextDone>>
  /\ UNCHANGED <<queueVars, taskVars, loopVars, finishVars, notifyVars>>

Tick ==
  /\ now < MaxTime
  /\ now' = now + 1
  /\ UNCHANGED <<slots, seqCounter, taskActiveCount>>
  /\ UNCHANGED <<queueVars, taskVars, loopVars, waiterVars, finishVars, notifyVars>>

-----------------------------------------------------------------------------
LoopStep ==
  \/ \E t \in Tasks : LoopLaunch(t)
  \/ LoopWait \/ LoopTimer \/ LoopNotified
  \/ LoopStop \/ LoopReturn \/ LoopSetFinished

RunStep(t) ==
  \/ RunFinished(t)
  \/ \E delay \in RetryDelays : RunRetry(t, delay)
  \/ RunTaskReport(t)

WakeStep(w) == WakeLoopFinished(w) \/ WakeTaskFinished(w)

StopStep(w) ==
  StopNotify(w) \/ StopDone(w) \/ StopWait(w) \/ StopCancelled(w) \/ WakeStep(w)

QuiesceStep(w) == QuiesceCheck(w) \/ QuiesceCancelled(w) \/ WakeStep(w)

Next ==
  \/ \E count \in SlotArgs : SetSlots(count)
  \/ \E t \in Tasks, after \in DueTimes : AddNumber(t, after)
  \/ \E t \in Tasks : AddEnqueue(t)
  \/ Notify \/ Start
  \/ LoopStep
  \/ \E t \in Tasks : RunStep(t)
  \/ TaskFinishedSet
  \/ \E w \in Stoppers : StopBegin(w) \/ StopStep(w)
  \/ \E w \in Quiescers : QuiesceBegin(w) \/ QuiesceStep(w)
  \/ \E w \in Waiters : CancelContext(w)
  \/ Tick

Spec == Init /\ [][Next]_vars

\* The Go runtime runs every runnable goroutine and its mutex does not starve
\* a waiter; task functions return; time passes.  Nothing obliges anybody to
\* call an operation or to cancel a context.
Fairness ==
  /\ WF_vars(LoopStep) /\ WF_vars(Notify) /\ WF_vars(TaskFinishedSet)
  /\ WF_vars(Tick)
  /\ \A t \in Tasks : WF_vars(AddEnqueue(t)) /\ WF_vars(RunStep(t))
  /\ \A w \in Stoppers : WF_vars(StopStep(w))
  /\ \A w \in Quiescers : WF_vars(QuiesceStep(w))

FairSpec == Spec /\ Fairness

-----------------------------------------------------------------------------
(* Properties                                                              *)

Queued(t) == t \in tasksByOrder \/ t \in tasksByTime

\* Tasks that hold a slot.
Running == {t \in Tasks : taskPC[t] \in {"running", "returned"}}

LoopAlive == loopPC \in {"check", "wait", "return"}

\* A task is in at most one place: in the queue its due time selects, in the
\* hands of one goroutine, or gone.  The two panics of enqueue ("task lacks a
\* sequence number", "task already in queue") are therefore unreachable, and
\* a task leaves the queues only by being run or by being abandoned when Stop
\* returns: runTask and popNextLocked lose none.
OnePlace ==
  /\ \A t \in Tasks :
       /\ Queued(t) => taskPC[t] = "idle"
       /\ t \in tasksByOrder => nextAfter[t] = 0
       /\ t \in tasksByTime => nextAfter[t] # 0
       /\ taskPC[t] # "new" => seq[t] # 0
       /\ taskPC[t] = "idle" /\ ~Queued(t) =>
            result[t] = "finished" \/ \E w \in Stoppers : waiterPC[w] = "returned"
  /\ \A t, u \in Tasks : seq[t] = seq[u] /\ seq[t] # 0 => t = u

\* The two counters Stop and Quiesce rely on count what they claim to count:
\* the goroutines of tasks that hold a slot, and the loop.  With SetSlots
\* absent they bound the parallelism.
CountersExact ==
  /\ taskActiveCount = Cardinality(Running)
  /\ loopActiveCount = IF LoopAlive THEN 1 ELSE 0

\* The loop's select is sure to be left when there is something to do: while
\* it waits, a token is there or on its way, or no slot is free, or no task
\* is ready and the timer is set no later than any due time.  A free slot
\* never sits next to a runnable task with nobody left to wake the loop.
NoLostWakeup ==
  loopPC = "wait" =>
    \/ loopNotification \/ notifiers > 0
    \/ \E w \in Stoppers : waiterPC[w] = "notify"
    \/ /\ ~loopStopRequested
       /\ \/ taskActiveCount >= slots
          \/ /\ tasksByOrder = {}
             /\ \A t \in tasksByTime : nextTaskDue # 0 /\ nextTaskDue <= nextAfter[t]

\* May the loops of Stop and of Quiesce be left?
MayReturn(w) ==
  IF w \in Stoppers THEN loopActiveCount = 0 /\ taskActiveCount = 0 ELSE NothingLeft

\* A caller of Stop or Quiesce that sleeps although its condition holds is
\* about to be woken: runTask and Start's goroutine set taskFinished and
\* loopFinished after they leave the mutex, and nobody else takes the token.
NoLostFinish ==
  \A w \in Waiters : waiterPC[w] = "wait" /\ MayReturn(w) =>
    loopFinished \/ loopPC = "returned" \/ taskFinished \/ finishers > 0

\* "Tasks not yet started will be abandoned" (Stop): once a Stop has returned
\* no goroutine of the scheduler is in the mutex or in a task, however late a
\* task asked for a retry.
StopDrained ==
  (\E w \in Stoppers : waiterPC[w] = "returned") =>
    ~LoopAlive /\ Running = {} /\ loopStopRequested

\* A queued task of a started scheduler runs, unless the scheduler is stopped;
\* in particular no retry is forgotten between runTask and the loop.
EveryTaskRuns ==
  \A t \in Tasks :
    Queued(t) /\ loopPC # "none" ~> taskPC[t] = "running" \/ loopStopRequested

\* Stop returns once the running tasks have, with or without its context being
\* cancelled.
StopReturns ==
  \A w \in Stoppers : Inside(w) ~> waiterPC[w] = "returned"

\* Quiesce of a started scheduler returns once all tasks have run.
QuiesceReturns ==
  \A w \in Quiescers :
    Inside(w) /\ loopPC # "none" ~> waiterPC[w] = "returned" \/ loopStopRequested

-----------------------------------------------------------------------------
(* The scheduler implements TaskPool.                                      *)

\* A task waits from Add's or runTask's critical section on.
Status(t) ==
  CASE taskPC[t] \in {"new", "adding"} -> "new"
    [] taskPC[t] \in {"running", "returned"} -> "running"
    [] OTHER -> IF Queued(t) THEN "waiting"
                ELSE IF result[t] = "finished" THEN "ended" ELSE "abandoned"

Pool == INSTANCE TaskPool WITH
  clock <- now, limit <- slots, closed <- loopStopRequested, number <- seq,
  due <- [t \in Tasks |-> IF Queued(t) THEN nextAfter[t] ELSE 0],
  status <- [t \in Tasks |-> Status(t)]

\* The scheduler's concurrency is invisible to its users: every step is a step
\* of the pool or none.  Never more tasks run than the last SetSlots allows to
\* start, none early, none after Stop was called, and untimed ones "in the
\* order they're added" (Add) when one Add follows the other.
ImplementsPool == Pool!Spec
=============================================================================
