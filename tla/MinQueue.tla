------------------------------- MODULE MinQueue -------------------------------
(***************************************************************************)
(* What prioqueue promises to the scheduler: a queue of items from which   *)
(* Pop takes an item of least value, and in which the value of an item may *)
(* be changed and items may be removed wherever they are.                  *)
(***************************************************************************)
EXTENDS Integers

CONSTANTS Items, Values, NoItem

VARIABLES
  queue,    \* the items in the queue
  value,    \* their values, 0 for other items
  answer    \* what the latest call returned: its name and an item

vars == <<queue, value, answer>>

Answer(name, i) == [call |-> name, item |-> i]
Nothing == Answer("none", NoItem)

Minima == {i \in queue : \A j \in queue : value[i] <= value[j]}

Init ==
  /\ queue = {} /\ value = [i \in Items |-> 0]
  /\ answer = Nothing

Push(i, v) ==
  /\ i \notin queue
  /\ queue' = queue \cup {i}
  /\ value' = [value EXCEPT ![i] = v]
  /\ answer' = Nothing

Leaves(i) ==
  /\ queue' = queue \ {i}
  /\ value' = [value EXCEPT ![i] = 0]

Pop ==
  \E i \in Minima : Leaves(i) /\ answer' = Answer("pop", i)

PopNothing ==
  /\ queue = {} /\ answer' = Answer("pop", NoItem)
  /\ UNCHANGED <<queue, value>>

Peek ==
  /\ \E i \in IF queue = {} THEN {NoItem} ELSE Minima : answer' = Answer("peek", i)
  /\ UNCHANGED <<queue, value>>

Update(i, v) ==
  /\ i \in queue
  /\ value' = [value EXCEPT ![i] = v]
  /\ answer' = Nothing
  /\ UNCHANGED queue

Remove(i) ==
  /\ i \in queue /\ Leaves(i) /\ answer' = Answer("remove", i)

\* A call begins.
Begin ==
  /\ answer' = Nothing
  /\ UNCHANGED <<queue, value>>

Next ==
  \/ Begin \/ Pop \/ PopNothing \/ Peek
  \/ \E i \in Items :
       Remove(i) \/ \E v \in Values : Push(i, v) \/ Update(i, v)

Spec == Init /\ [][Next]_vars
=============================================================================
