------------------------------- MODULE MCParts -------------------------------
(***************************************************************************)
(* The smaller parts of the program for TLC: in each behaviour one of them *)
(* is the subject, for all the inputs it is given here, and the others     *)
(* rest.                                                                   *)
(***************************************************************************)
EXTENDS PrioQueue, RetryStrategy, UniqueName, TriggerQuery, HandlerMetrics, TLC

CONSTANTS i1, i2, i3, i4, i5, i6, t1, t2, s1, s2

VARIABLE subject

vars == <<subject, queueVars, retryVars, nameVars, triggerVars, metricsVars>>

\* Paths below or beside the handler's, with detours.
Paths ==
  [abs : BOOLEAN,
   elems : UNION {[1 .. n -> {"r", "a", ".", ".."}] : n \in 1 .. 3}]

HandlerConfigs ==
  {[path |-> [abs |-> a, elems |-> e], dirs |-> {p, [abs |-> FALSE, elems |-> q]},
    recursive |-> r, includeHidden |-> h, minSize |-> s[1], maxSize |-> s[2]] :
     a \in BOOLEAN, e \in {<<"r">>, <<"..", "a", "..">>}, p \in Paths,
     q \in {<<"b">>, <<"a", "b">>}, r \in BOOLEAN, h \in BOOLEAN,
     s \in {<<0, 0>>, <<1, 1>>, <<0, 1>>}}

SomeFiles ==
  [dir : UNION {[1 .. n -> {"r", "a", "b"}] : n \in 0 .. 2} \cup {<<"a", "b", "a">>},
   hidden : BOOLEAN, size : 0 .. 2]

\* Floating-point numbers with four bits: exact up to 16, then even numbers,
\* above 32 multiples of four; the nearest, or the even one of two.
FourBits ==
  [d \in 0 .. MaxDuration + 1 |->
     LET unit == CASE d <= 16 -> 1 [] d \in 17 .. 32 -> 2 [] OTHER -> 4
         down == d \div unit
         rest == 2 * (d % unit)
     IN  unit * (IF rest > unit \/ (rest = unit /\ down % 2 = 1) THEN down + 1 ELSE down)]

SomeFactors == [num : {1, 4, 9}, den : {1, 3}]

\* For a part at rest.
SomeConfig == CHOOSE c \in Configs : TRUE
SomeCall == CHOOSE c \in Calls : TRUE
SomeHandler == CHOOSE h \in Handlers : TRUE

Init ==
  /\ subject \in {"queue", "retry", "name", "trigger", "metrics"}
  /\ QueueInit
  /\ \E c \in IF subject = "retry" THEN Configs ELSE {SomeConfig} : RetryInit(c)
  /\ \E c \in IF subject = "name" THEN Calls ELSE {SomeCall} : NameInit(c)
  /\ \E h \in IF subject = "trigger" THEN Handlers ELSE {SomeHandler} : TriggerInit(h)
  /\ MetricsInit

Next ==
  /\ \/ /\ subject = "queue" /\ QueueNext
        /\ UNCHANGED <<retryVars, nameVars, triggerVars, metricsVars>>
     \/ /\ subject = "retry" /\ RetryNext
        /\ UNCHANGED <<queueVars, nameVars, triggerVars, metricsVars>>
     \/ /\ subject = "name" /\ NameNext
        /\ UNCHANGED <<queueVars, retryVars, triggerVars, metricsVars>>
     \/ /\ subject = "trigger" /\ TriggerNext
        /\ UNCHANGED <<queueVars, retryVars, nameVars, metricsVars>>
     \/ /\ subject = "metrics" /\ MetricsNext
        /\ UNCHANGED <<queueVars, retryVars, nameVars, triggerVars>>
  /\ UNCHANGED subject

Spec == Init /\ [][Next]_vars

\* Of five items: permuting more takes longer than it saves.
Symmetry == Permutations({i1, i2, i3, i4, i5})
=============================================================================
