------------------------------- MODULE TaskPool -------------------------------
(***************************************************************************)
(* What the scheduler promises the rest of the program, without its loop,  *)
(* mutex, events and queues: a pool of tasks of which at most "limit" are  *)
(* started, none before it is due, those without a due time in the order   *)
(* of their numbers, and none once the pool is closed.                     *)
(***************************************************************************)
EXTENDS Integers, FiniteSets

CONSTANT Tasks

VARIABLES
  clock,
  limit,     \* tasks that may run at the same time
  closed,    \* no task is started any more
  number,    \* 0 until the task is announced
  due,       \* earliest start of a waiting task, 0 if any time will do
  status

pool == <<clock, limit, closed, number, due, status>>

Active == {t \in Tasks : status[t] = "running"}

Numbered == {t \in Tasks : number[t] # 0}

Init ==
  /\ clock = 1 /\ limit \in Nat \ {0} /\ closed = FALSE
  /\ number = [t \in Tasks |-> 0]
  /\ due = [t \in Tasks |-> 0]
  /\ status = [t \in Tasks |-> "new"]

Resize ==
  /\ limit' \in Nat \ {0}
  /\ UNCHANGED <<clock, closed, number, due, status>>

\* Later numbers are larger.
Announce(t) ==
  /\ status[t] = "new" /\ number[t] = 0
  /\ number' = [number EXCEPT ![t] = number'[t]]
  /\ number'[t] \in Nat \ {0}
  /\ \A u \in Numbered : number[u] < number'[t]
  /\ UNCHANGED <<clock, limit, closed, due, status>>

\* A new task is submitted, or a task that ran wants to run again later.
Submit(t) ==
  /\ status[t] \in {"new", "running"} /\ number[t] # 0
  /\ status' = [status EXCEPT ![t] = "waiting"]
  /\ due' = [due EXCEPT ![t] = due'[t]]
  /\ due'[t] \in Nat /\ (status[t] = "running" => due'[t] # 0)
  /\ UNCHANGED <<clock, limit, closed, number>>

Begin(t) ==
  /\ ~closed
  /\ status[t] = "waiting" /\ due[t] <= clock
  /\ Cardinality(Active) < limit
  /\ due[t] = 0 =>
       \A u \in Tasks : status[u] = "waiting" /\ due[u] = 0 => number[t] <= number[u]
  /\ status' = [status EXCEPT ![t] = "running"]
  /\ due' = [due EXCEPT ![t] = 0]
  /\ UNCHANGED <<clock, limit, closed, number>>

End(t) ==
  /\ status[t] = "running"
  /\ status' = [status EXCEPT ![t] = "ended"]
  /\ UNCHANGED <<clock, limit, closed, number, due>>

Close ==
  /\ closed' = TRUE
  /\ UNCHANGED <<clock, limit, number, due, status>>

\* Nothing runs and nothing will: what waits is given up.
Abandon ==
  /\ closed /\ Active = {}
  /\ status' = [t \in Tasks |->
                  IF status[t] = "waiting" THEN "abandoned" ELSE status[t]]
  /\ due' = [t \in Tasks |-> 0]
  /\ UNCHANGED <<clock, limit, closed, number>>

Pass ==
  /\ clock' = clock + 1
  /\ UNCHANGED <<limit, closed, number, due, status>>

Next ==
  \/ Resize \/ Close \/ Abandon \/ Pass
  \/ \E t \in Tasks : Announce(t) \/ Submit(t) \/ Begin(t) \/ End(t)

Spec == Init /\ [][Next]_pool
=============================================================================
