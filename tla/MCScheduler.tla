----------------------------- MODULE MCScheduler -----------------------------
(***************************************************************************)
(* Instances of the scheduler for TLC: two tasks, enough for two to        *)
(* compete for a slot and for each to overtake the other; arguments 0 and  *)
(* 2 of SetSlots, so that a slot can be freed or withdrawn by it as well   *)
(* as by a task; immediate and delayed adds and retries.                   *)
(***************************************************************************)
EXTENDS Scheduler, TLC

CONSTANTS t1, t2, s1, q1

Symmetry == Permutations(Tasks)

\* For liveness, where symmetry may not be used: t1 gets its number first;
\* Stop is called or Quiesce is, or neither, but not both; the slots are set
\* once, before the first task, as the router does it; and nobody makes
\* Quiesce return early by cancelling its context.
OneCall ==
  /\ seq[t2] # 0 => seq[t1] # 0
  /\ \A v, w \in Waiters : waiterPC[v] # "idle" /\ waiterPC[w] # "idle" => v = w
  /\ \A w \in Quiescers : waiterCtx[w] = "live"

SlotsStay == \A count \in SlotArgs : ~SetSlots(count)

OneCallSpec == Init /\ [][Next /\ OneCall' /\ SlotsStay]_vars /\ Fairness
=============================================================================
