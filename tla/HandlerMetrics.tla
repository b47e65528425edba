---------------------------- MODULE HandlerMetrics ----------------------------
(***************************************************************************)
(* The metrics of a handler: counters behind a mutex of their own, c.mu,   *)
(* next to the handler's mutex h.mu, both of which invokeTask and the      *)
(* scrapes of Prometheus take; a pruning of the handler holds h.mu for as  *)
(* long as it takes.  The counts themselves decide nothing and are left    *)
(* out.  What tasks and prunings do besides is in Handler and Pruning.     *)
(***************************************************************************)
EXTENDS Integers, FiniteSets

CONSTANTS
  Tasks,         \* tasks of the handler
  Scrapers,      \* requests for the metrics that may be served at a time
  NobodyHolds,
  MaxRetries     \* bound: retries of a task

ASSUME MetricsAssumption ==
  /\ IsFiniteSet(Tasks) /\ IsFiniteSet(Scrapers)
  /\ NobodyHolds # <<"prune">>
  /\ \A s \in Scrapers : NobodyHolds # <<"scrape", s>>
  /\ \A t \in Tasks : NobodyHolds \notin {<<"handle", t>>, <<"task", t>>}
  /\ MaxRetries \in Nat

VARIABLES
  hmu, cmu,      \* holders of h.mu and c.mu: one of the four below
  waiting,       \* who has called Lock and on which mutex: <<holder, mutex>>
  pending,       \* h.pending
  reporting,     \* tasks whose handle is about to report the change
  taskPC, failed, retried,
  scrapePC       \* where each scrape is

taskVars    == <<pending, reporting, taskPC, failed, retried>>
lockVars    == <<hmu, cmu, waiting>>
metricsVars == <<lockVars, taskVars, scrapePC>>

Scrape(s) == <<"scrape", s>>
Pruning == <<"prune">>
Handling(t) == <<"handle", t>>
Running(t) == <<"task", t>>

MetricsInit ==
  /\ hmu = NobodyHolds /\ cmu = NobodyHolds /\ waiting = {}
  /\ pending = {} /\ reporting = {} /\ failed = {}
  /\ taskPC = [t \in Tasks |-> "none"] /\ retried = [t \in Tasks |-> 0]
  /\ scrapePC = [s \in Scrapers |-> "idle"]

-----------------------------------------------------------------------------
(* Mutexes                                                                 *)

\* A goroutine calls Lock; until it gets the mutex it does nothing else.
Await(p, m) == waiting' = waiting \cup {<<p, m>>} /\ UNCHANGED <<hmu, cmu>>

LockH(p) ==
  /\ <<p, "h">> \in waiting /\ hmu = NobodyHolds
  /\ hmu' = p /\ waiting' = waiting \ {<<p, "h">>}
  /\ UNCHANGED cmu

LockC(p) ==
  /\ <<p, "c">> \in waiting /\ cmu = NobodyHolds
  /\ cmu' = p /\ waiting' = waiting \ {<<p, "c">>}
  /\ UNCHANGED hmu

\* The deferred function of invokeTask.
UnlockIfLocked(p) ==
  /\ hmu' = IF hmu = p THEN NobodyHolds ELSE hmu
  /\ UNCHANGED <<cmu, waiting>>

-----------------------------------------------------------------------------
(* handle and invokeTask                                                   *)

\* A task is made and scheduled unless one is pending; the change is counted
\* either way, with h.mu held.  Bound: one task per file.
Handle(t) ==
  /\ taskPC[t] # "over" /\ t \notin reporting /\ hmu = NobodyHolds
  /\ hmu' = Handling(t) /\ UNCHANGED <<cmu, waiting>>
  /\ reporting' = reporting \cup {t}
  /\ IF t \in pending THEN UNCHANGED <<pending, taskPC>>
     ELSE /\ pending' = pending \cup {t}
          /\ taskPC' = [taskPC EXCEPT ![t] = "command"]
  /\ UNCHANGED <<failed, retried, scrapePC>>

ReportFileChange(t) ==
  /\ t \in reporting
  /\ reporting' = reporting \ {t}
  /\ UnlockIfLocked(Handling(t))
  /\ UNCHANGED <<pending, taskPC, failed, retried, scrapePC>>

\* The attempt ends before the command and without h.mu.
FailsEarly(t) ==
  /\ taskPC[t] = "command"
  /\ failed' = failed \cup {t}
  /\ taskPC' = [taskPC EXCEPT ![t] = "ended"]
  /\ UNCHANGED <<lockVars, pending, reporting, retried, scrapePC>>

\* There was no process to report.
CommandNotRun(t) ==
  /\ taskPC[t] = "command"
  /\ Await(Running(t), "h")
  /\ taskPC' = [taskPC EXCEPT ![t] = "acquire"]
  /\ UNCHANGED <<pending, reporting, failed, retried, scrapePC>>

\* The process has ended, well or not.
ReportProcessState(t) ==
  /\ taskPC[t] = "command"
  /\ Await(Running(t), "c")
  /\ taskPC' = [taskPC EXCEPT ![t] = "state"]
  /\ UNCHANGED <<pending, reporting, failed, retried, scrapePC>>

StateLocked(t) ==
  /\ taskPC[t] = "state" /\ LockC(Running(t))
  /\ taskPC' = [taskPC EXCEPT ![t] = "observe"]
  /\ UNCHANGED <<pending, reporting, failed, retried, scrapePC>>

\* The histograms are updated and c.mu is unlocked; the attempt then takes h.mu.
Observe(t) ==
  /\ taskPC[t] = "observe"
  /\ cmu' = NobodyHolds /\ waiting' = waiting \cup {<<Running(t), "h">>} /\ UNCHANGED hmu
  /\ taskPC' = [taskPC EXCEPT ![t] = "acquire"]
  /\ UNCHANGED <<pending, reporting, failed, retried, scrapePC>>

\* acquireLock within the attempt, which may still fail.
AcquireInAttempt(t) ==
  /\ taskPC[t] = "acquire" /\ LockH(Running(t))
  /\ taskPC' = [taskPC EXCEPT ![t] = "ended"]
  /\ failed' \in {failed, failed \cup {t}}
  /\ UNCHANGED <<pending, reporting, retried, scrapePC>>

ReportTaskRetry(t) ==
  /\ taskPC[t] = "ended" /\ t \in failed /\ retried[t] < MaxRetries
  /\ retried' = [retried EXCEPT ![t] = @ + 1]
  /\ failed' = failed \ {t}
  /\ taskPC' = [taskPC EXCEPT ![t] = "command"]
  /\ UnlockIfLocked(Running(t))
  /\ UNCHANGED <<pending, reporting, scrapePC>>

\* ReportFinalTaskStatus, with or without h.mu.
ReportFinal(t) ==
  /\ taskPC[t] = "ended"
  /\ Await(Running(t), "c")
  /\ taskPC' = [taskPC EXCEPT ![t] = "final"]
  /\ UNCHANGED <<pending, reporting, failed, retried, scrapePC>>

FinalLocked(t) ==
  /\ taskPC[t] = "final" /\ LockC(Running(t))
  /\ taskPC' = [taskPC EXCEPT ![t] = "counted"]
  /\ UNCHANGED <<pending, reporting, failed, retried, scrapePC>>

\* acquireLock, which does nothing if the attempt has called it.
FinalCounted(t) ==
  /\ taskPC[t] = "counted"
  /\ cmu' = NobodyHolds /\ UNCHANGED hmu
  /\ waiting' = IF hmu = Running(t) THEN waiting
                ELSE waiting \cup {<<Running(t), "h">>}
  /\ taskPC' = [taskPC EXCEPT ![t] = IF hmu = Running(t) THEN "delete" ELSE "relock"]
  /\ UNCHANGED <<pending, reporting, failed, retried, scrapePC>>

AcquireAtEnd(t) ==
  /\ taskPC[t] = "relock" /\ LockH(Running(t))
  /\ taskPC' = [taskPC EXCEPT ![t] = "delete"]
  /\ UNCHANGED <<pending, reporting, failed, retried, scrapePC>>

DeletePending(t) ==
  /\ taskPC[t] = "delete"
  /\ pending' = pending \ {t}
  /\ taskPC' = [taskPC EXCEPT ![t] = "over"]
  /\ UnlockIfLocked(Running(t))
  /\ UNCHANGED <<reporting, failed, retried, scrapePC>>

-----------------------------------------------------------------------------
(* Collect                                                                 *)

CollectBegin(s) ==
  /\ scrapePC[s] = "idle"
  /\ Await(Scrape(s), "c")
  /\ scrapePC' = [scrapePC EXCEPT ![s] = "lock"]
  /\ UNCHANGED taskVars

CollectLocked(s) ==
  /\ scrapePC[s] = "lock" /\ LockC(Scrape(s))
  /\ scrapePC' = [scrapePC EXCEPT ![s] = "nested"]
  /\ UNCHANGED taskVars

\* Mutant: c.mu is unlocked by a deferred call.
CollectNestedDeferred(s) ==
  /\ scrapePC[s] = "nested"
  /\ Await(Scrape(s), "h")
  /\ scrapePC' = [scrapePC EXCEPT ![s] = "pending"]
  /\ UNCHANGED taskVars

\* The last counter; c.mu is released before h.mu is asked for.
CollectNested(s) ==
  /\ scrapePC[s] = "nested"
  /\ cmu' = NobodyHolds /\ waiting' = waiting \cup {<<Scrape(s), "h">>} /\ UNCHANGED hmu
  /\ scrapePC' = [scrapePC EXCEPT ![s] = "pending"]
  /\ UNCHANGED taskVars

CollectPending(s) ==
  /\ scrapePC[s] = "pending" /\ LockH(Scrape(s))
  /\ scrapePC' = [scrapePC EXCEPT ![s] = "unlock"]
  /\ UNCHANGED taskVars

CollectEnd(s) ==
  /\ scrapePC[s] = "unlock"
  /\ hmu' = NobodyHolds /\ UNCHANGED <<cmu, waiting>>
  /\ scrapePC' = [scrapePC EXCEPT ![s] = "idle"]
  /\ UNCHANGED taskVars

-----------------------------------------------------------------------------
(* handler.prune                                                           *)

PruneBegin ==
  /\ hmu = NobodyHolds /\ hmu' = Pruning
  /\ UNCHANGED <<cmu, waiting, taskVars, scrapePC>>

PruneEnd ==
  /\ hmu = Pruning /\ hmu' = NobodyHolds
  /\ UNCHANGED <<cmu, waiting, taskVars, scrapePC>>

MetricsNext ==
  \/ \E t \in Tasks :
       \/ Handle(t) \/ ReportFileChange(t)
       \/ FailsEarly(t) \/ CommandNotRun(t)
       \/ ReportProcessState(t) \/ StateLocked(t) \/ Observe(t) \/ AcquireInAttempt(t)
       \/ ReportTaskRetry(t) \/ ReportFinal(t) \/ FinalLocked(t) \/ FinalCounted(t)
       \/ AcquireAtEnd(t) \/ DeletePending(t)
  \/ \E s \in Scrapers :
       \/ CollectBegin(s) \/ CollectLocked(s) \/ CollectNested(s)
       \/ CollectPending(s) \/ CollectEnd(s)
  \/ PruneBegin \/ PruneEnd

MetricsSpec == MetricsInit /\ [][MetricsNext]_metricsVars

-----------------------------------------------------------------------------
(* Properties                                                              *)

Holder(m) == IF m = "h" THEN hmu ELSE cmu

\* Nobody who waits for one of the mutexes waits for somebody who waits for
\* the other: tasks ask for c.mu with h.mu in hand, a scrape needs both too.
\* So a scrape never stops the handler, nor the handler the scrapes.
NoLockCycle ==
  \A a, b \in waiting : ~(Holder(a[2]) = b[1] /\ Holder(b[2]) = a[1])
=============================================================================
