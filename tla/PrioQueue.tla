------------------------------ MODULE PrioQueue ------------------------------
(***************************************************************************)
(* prioqueue.PrioQueue: a binary min-heap in a slice, with items that know *)
(* their index.  The calls that heapAdapter gets from container/heap are   *)
(* made one swap at a time; nobody else sees the states in between, as the *)
(* scheduler holds its mutex.  Positions begin at 1.                       *)
(***************************************************************************)
EXTENDS Integers, Sequences, FiniteSets

CONSTANTS
  Items,     \* item objects
  Values,    \* what Less compares
  NoItem

ASSUME QueueAssumption == Values \subseteq Int \ {0} /\ NoItem \notin Items

VARIABLES
  items,     \* the slice
  index,     \* index of each item, 0: undefinedIndex
  value,     \* Value of each item in the queue, 0 for others
  pc,        \* "idle", or the function of container/heap that is at work
  call,      \* the call being served, and the item it is about
  at,        \* position in the walk up or down
  from,      \* where the walk down began
  size,      \* length of the heap in the walk down
  clearing,  \* items still to be popped by Clear
  answer     \* what the latest call returned

heapVars  == <<items, index, value>>
walkVars  == <<pc, call, at, from, size>>
queueVars == <<heapVars, walkVars, clearing, answer>>

QueueTypeOK ==
  /\ items \in Seq(Items) /\ value \in [Items -> Values \cup {0}]
  /\ index \in [Items -> 0 .. Cardinality(Items)]
  /\ pc \in {"idle", "up", "down", "take"}
  /\ call.call \in {"none", "push", "pop", "peek", "update", "remove"}
  /\ call.item \in Items \cup {NoItem}
  /\ at \in Nat /\ from \in Nat /\ size \in Nat /\ clearing \in Nat

Call(name, i) == [call |-> name, item |-> i]
Nothing == Call("none", NoItem)

QueueInit ==
  /\ items = << >> /\ index = [i \in Items |-> 0] /\ value = [i \in Items |-> 0]
  /\ pc = "idle" /\ call = Nothing
  /\ at = 0 /\ from = 0 /\ size = 0 /\ clearing = 0
  /\ answer = Nothing

\* heapAdapter.Less
Less(p, q) == value[items[p]] < value[items[q]]

\* heapAdapter.Swap
Swap(p, q) ==
  /\ items' = [items EXCEPT ![p] = items[q], ![q] = items[p]]
  /\ index' = [index EXCEPT ![items[q]] = p, ![items[p]] = q]

Idle == pc = "idle" /\ clearing = 0

Walk(name, p, n) ==
  /\ pc' = name /\ at' = p /\ from' = p /\ size' = n

\* The call is over.
Done ==
  /\ pc' = "idle" /\ call' = Nothing
  /\ at' = 0 /\ from' = 0 /\ size' = 0

-----------------------------------------------------------------------------
(* The calls                                                               *)

\* Push: a new item is appended and goes up.
Push(i, v) ==
  /\ Idle /\ index[i] = 0
  /\ items' = Append(items, i)
  /\ index' = [index EXCEPT ![i] = Len(items) + 1]
  /\ value' = [value EXCEPT ![i] = v]
  /\ call' = Call("push", i)
  /\ Walk("up", Len(items) + 1, 0)
  /\ answer' = Nothing
  /\ UNCHANGED clearing

\* heap.Pop or heap.Remove: the last item changes places with the one at p
\* and finds its own place among the rest.
SwapWithLast(p) ==
  LET n == Len(items)
  IN IF p = n
     THEN Walk("take", 0, 0) /\ UNCHANGED <<items, index>>
     ELSE Swap(p, n) /\ Walk("down", p, n - 1)

\* Pop, called by a user or by Clear.
Pop ==
  /\ pc = "idle" /\ items # << >>
  /\ call' = Call("pop", NoItem)
  /\ SwapWithLast(1)
  /\ answer' = Nothing
  /\ UNCHANGED <<value, clearing>>

PopNothing ==
  /\ Idle /\ items = << >>
  /\ answer' = Call("pop", NoItem)
  /\ UNCHANGED <<heapVars, walkVars, clearing>>

Peek ==
  /\ Idle
  /\ answer' = Call("peek", IF items = << >> THEN NoItem ELSE items[1])
  /\ UNCHANGED <<heapVars, walkVars, clearing>>

Clear ==
  /\ Idle
  /\ clearing' = Len(items)
  /\ answer' = Nothing
  /\ UNCHANGED <<heapVars, walkVars>>

\* The value has been changed by the caller: heap.Fix.
Update(i, v) ==
  /\ Idle /\ index[i] # 0
  /\ value' = [value EXCEPT ![i] = v]
  /\ call' = Call("update", i)
  /\ Walk("down", index[i], Len(items))
  /\ answer' = Nothing
  /\ UNCHANGED <<items, index, clearing>>

Remove(i) ==
  /\ Idle /\ index[i] # 0
  /\ call' = Call("remove", i)
  /\ SwapWithLast(index[i])
  /\ answer' = Nothing
  /\ UNCHANGED <<value, clearing>>

-----------------------------------------------------------------------------
(* container/heap                                                          *)

Parent(p) == p \div 2

\* After the walk: Pop and Remove take the last item.
Settled ==
  IF call.call \in {"pop", "remove"}
  THEN Walk("take", 0, 0) /\ UNCHANGED call
  ELSE Done

Up ==
  /\ pc = "up"
  /\ IF at # 1 /\ Less(at, Parent(at))
     THEN /\ Swap(at, Parent(at)) /\ at' = Parent(at)
          /\ UNCHANGED <<pc, call, from, size>>
     ELSE Settled /\ UNCHANGED <<items, index>>
  /\ UNCHANGED <<value, clearing, answer>>

\* Mutant: always the left child.
ChildLeft(p) == 2 * p

\* The lesser of two children.
Child(p) ==
  IF 2 * p + 1 <= size /\ Less(2 * p + 1, 2 * p) THEN 2 * p + 1 ELSE 2 * p

\* Mutant: Remove and Fix only move items down.
NotMovedOnlyDown == Settled

\* Remove and Fix go up if there was no way down; Pop is at the top.
NotMoved ==
  IF call.call = "pop" THEN Settled ELSE Walk("up", at, 0) /\ UNCHANGED call

Down ==
  /\ pc = "down"
  /\ IF 2 * at <= size /\ Less(Child(at), at)
     THEN /\ Swap(at, Child(at)) /\ at' = Child(at)
          /\ UNCHANGED <<pc, call, from, size>>
     ELSE /\ IF at > from THEN Settled ELSE NotMoved
          /\ UNCHANGED <<items, index>>
  /\ UNCHANGED <<value, clearing, answer>>

\* heapAdapter.Pop: the last item leaves the slice.
Take ==
  /\ pc = "take"
  /\ LET i == items[Len(items)] IN
       /\ items' = SubSeq(items, 1, Len(items) - 1)
       /\ index' = [index EXCEPT ![i] = 0]
       /\ value' = [value EXCEPT ![i] = 0]
       /\ answer' = IF call.call = "pop" THEN Call("pop", i) ELSE call
  /\ clearing' = IF clearing = 0 THEN 0 ELSE clearing - 1
  /\ Done

QueueNext ==
  \/ Pop \/ PopNothing \/ Peek \/ Clear \/ Up \/ Down \/ Take
  \/ \E i \in Items : Remove(i) \/ \E v \in Values : Push(i, v) \/ Update(i, v)

QueueSpec == QueueInit /\ [][QueueNext]_queueVars

-----------------------------------------------------------------------------
(* Properties                                                              *)

Abstract == INSTANCE MinQueue WITH queue <- {items[p] : p \in DOMAIN items}

\* "Pop removes and returns the minimum value from the queue", Peek shows
\* it, Remove removes the item it was given and nothing else: whatever the
\* calls before, with items whose values change and that are removed from
\* the middle of the heap.
ImplementsMinQueue == Abstract!Spec
=============================================================================
