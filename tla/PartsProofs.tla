----------------------------- MODULE PartsProofs -----------------------------
(***************************************************************************)
(* Proofs about the smaller parts of the program: the mutexes of           *)
(* HandlerMetrics for any number of tasks, retries and scrapes, the delays *)
(* of RetryStrategy for every configuration, the heap of PrioQueue, for    *)
(* any number of items, as an implementation of MinQueue, the names of     *)
(* UniqueName of any length, and the queries of TriggerQuery for paths of  *)
(* any length.                                                             *)
(***************************************************************************)
EXTENDS HandlerMetrics, RetryStrategy, PrioQueue, UniqueName, TriggerQuery,
        SequenceTheorems, WellFoundedInduction, TLAPS

-----------------------------------------------------------------------------
(* Natural numbers                                                         *)

\* Some natural numbers have a least one.  What would be an induction is
\* proved with the least counterexample.
LEMMA Least ==
  ASSUME NEW T, T \subseteq Nat, T # {}
  PROVE  \E p \in T : \A y \in T : p <= y
<1> DEFINE R == {ss \in Nat \X Nat : ss[1] < ss[2]}
<1>1. IsWellFoundedOn(R, Nat)
  BY NatLessThanWellFounded, Zenon DEF OpToRel
<1>2. PICK p \in T : \A y \in T : ~(<<y, p>> \in R)
  <2> HIDE DEF R
  <2> QED
    BY <1>1, WFMin
<1>3. ASSUME NEW y \in T PROVE p <= y
  <2>1. y \in Nat /\ p \in Nat /\ ~(<<y, p>> \in R)
    BY <1>2
  <2> QED
    BY <2>1
<1> QED
  BY <1>3

\* What is true of 0 and passes from each number to the next, up to n, is
\* true of all of them.
LEMMA Counting ==
  ASSUME NEW n \in Nat, NEW T, T \subseteq 0 .. n, 0 \in T,
         \A k \in 1 .. n : k - 1 \in T => k \in T
  PROVE  0 .. n \subseteq T
<1> DEFINE B == {k \in 0 .. n : k \notin T}
<1>1. SUFFICES ASSUME B # {} PROVE FALSE
  OBVIOUS
<1>2. B \subseteq Nat
  OBVIOUS
<1>3. PICK p \in B : \A y \in B : p <= y
  <2> HIDE DEF B
  <2> QED
    BY <1>1, <1>2, Least
<1>4. p \in 1 .. n /\ p \notin T
  <2>1. p \in 0 .. n /\ p \notin T
    BY <1>3
  <2>2. p # 0
    BY <2>1
  <2> QED
    BY <2>1, <2>2
<1>5. p - 1 \in 0 .. n /\ p - 1 < p
  BY <1>4
<1>6. p - 1 \notin B
  <2> HIDE DEF B
  <2> QED
    BY <1>3, <1>4, <1>5
<1>7. p - 1 \in T
  BY <1>5, <1>6
<1> QED
  BY <1>4, <1>7

-----------------------------------------------------------------------------
(* HandlerMetrics                                                          *)

\* The holders of mutexes can be told apart.
LEMMA HoldersDistinct ==
  /\ NobodyHolds # Pruning
  /\ \A s, r \in Scrapers :
       /\ Scrape(s) = Scrape(r) => s = r
       /\ Scrape(s) \notin {NobodyHolds, Pruning}
  /\ \A t \in Tasks, s \in Scrapers :
       Running(t) # Scrape(s) /\ Handling(t) # Scrape(s)
  /\ \A t, u \in Tasks :
       /\ Running(t) = Running(u) => t = u
       /\ Handling(t) # Running(u)
       /\ NobodyHolds \notin {Running(t), Handling(t)}
       /\ Pruning \notin {Running(t), Handling(t)}
<1>1. \A t \in Tasks : /\ Running(t)[1] = "task" /\ Running(t)[2] = t
                      /\ Handling(t)[1] = "handle"
                      /\ NobodyHolds \notin {Running(t), Handling(t)}
  BY MetricsAssumption DEF Running, Handling
<1>2. \A s \in Scrapers : /\ Scrape(s)[1] = "scrape" /\ Scrape(s)[2] = s
                         /\ NobodyHolds # Scrape(s)
  BY MetricsAssumption DEF Scrape
<1>3. Pruning[1] = "prune" /\ NobodyHolds # Pruning
  BY MetricsAssumption DEF Pruning
<1> QED
  BY <1>1, <1>2, <1>3

\* Who holds c.mu, and who may hold h.mu.
HolderInv ==
  /\ \A s \in Scrapers :
       /\ cmu = Scrape(s) <=> scrapePC[s] = "nested"
       /\ hmu = Scrape(s) => scrapePC[s] = "unlock"
  /\ \A t \in Tasks :
       /\ cmu = Running(t) <=> taskPC[t] \in {"observe", "counted"}
       /\ hmu = Running(t) => taskPC[t] \in {"ended", "final", "counted", "delete"}

\* Who waits for which mutex.
WaitInv ==
  \A w \in waiting :
    \/ \E s \in Scrapers :
         \/ w = <<Scrape(s), "c">> /\ scrapePC[s] = "lock"
         \/ w = <<Scrape(s), "h">> /\ scrapePC[s] = "pending"
    \/ \E t \in Tasks :
         \/ w = <<Running(t), "c">> /\ taskPC[t] \in {"state", "final"}
         \/ w = <<Running(t), "h">> /\ taskPC[t] \in {"acquire", "relock"}

\* A task that is under way is pending.
UnderWay ==
  /\ DOMAIN taskPC = Tasks /\ DOMAIN scrapePC = Scrapers
  /\ \A t \in Tasks : taskPC[t] \in {"none", "over"} \/ t \in pending

MetricsInv == UnderWay /\ HolderInv /\ WaitInv

\* Every step keeps to the invariant.
LEMMA MetricsStep == MetricsInv /\ [MetricsNext]_metricsVars => MetricsInv'
<1> SUFFICES ASSUME MetricsInv, [MetricsNext]_metricsVars PROVE MetricsInv'
  OBVIOUS
<1> USE HoldersDistinct DEF MetricsInv, UnderWay, HolderInv, WaitInv,
    LockH, LockC, Await, UnlockIfLocked, taskVars, lockVars
<1>1. ASSUME NEW t \in Tasks, Handle(t) PROVE MetricsInv'
  BY <1>1 DEF Handle
<1>2. ASSUME NEW t \in Tasks, ReportFileChange(t) PROVE MetricsInv'
  BY <1>2 DEF ReportFileChange
<1>3. ASSUME NEW t \in Tasks, FailsEarly(t) PROVE MetricsInv'
  BY <1>3 DEF FailsEarly
<1>4. ASSUME NEW t \in Tasks, CommandNotRun(t) PROVE MetricsInv'
  BY <1>4 DEF CommandNotRun
<1>5. ASSUME NEW t \in Tasks, ReportProcessState(t) PROVE MetricsInv'
  BY <1>5 DEF ReportProcessState
<1>6. ASSUME NEW t \in Tasks, StateLocked(t) PROVE MetricsInv'
  BY <1>6 DEF StateLocked
<1>7. ASSUME NEW t \in Tasks, Observe(t) PROVE MetricsInv'
  BY <1>7 DEF Observe
<1>8. ASSUME NEW t \in Tasks, AcquireInAttempt(t) PROVE MetricsInv'
  BY <1>8 DEF AcquireInAttempt
<1>9. ASSUME NEW t \in Tasks, ReportTaskRetry(t) PROVE MetricsInv'
  BY <1>9 DEF ReportTaskRetry
<1>10. ASSUME NEW t \in Tasks, ReportFinal(t) PROVE MetricsInv'
  BY <1>10 DEF ReportFinal
<1>11. ASSUME NEW t \in Tasks, FinalLocked(t) PROVE MetricsInv'
  BY <1>11 DEF FinalLocked
<1>12. ASSUME NEW t \in Tasks, FinalCounted(t) PROVE MetricsInv'
  BY <1>12 DEF FinalCounted
<1>13. ASSUME NEW t \in Tasks, AcquireAtEnd(t) PROVE MetricsInv'
  BY <1>13 DEF AcquireAtEnd
<1>14. ASSUME NEW t \in Tasks, DeletePending(t) PROVE MetricsInv'
  BY <1>14 DEF DeletePending
<1>15. ASSUME NEW s \in Scrapers, CollectBegin(s) PROVE MetricsInv'
  BY <1>15 DEF CollectBegin
<1>16. ASSUME NEW s \in Scrapers, CollectLocked(s) PROVE MetricsInv'
  BY <1>16 DEF CollectLocked
<1>17. ASSUME NEW s \in Scrapers, CollectNested(s) PROVE MetricsInv'
  BY <1>17 DEF CollectNested
<1>18. ASSUME NEW s \in Scrapers, CollectPending(s) PROVE MetricsInv'
  BY <1>18 DEF CollectPending
<1>19. ASSUME NEW s \in Scrapers, CollectEnd(s) PROVE MetricsInv'
  BY <1>19 DEF CollectEnd
<1>21. CASE PruneBegin \/ PruneEnd
  BY <1>21 DEF PruneBegin, PruneEnd
<1>20. CASE UNCHANGED metricsVars
  BY <1>20 DEF metricsVars
<1> QED
  BY <1>1, <1>2, <1>3, <1>4, <1>5, <1>6, <1>7, <1>8, <1>9, <1>10,
     <1>11, <1>12, <1>13, <1>14, <1>15, <1>16, <1>17, <1>18, <1>19, <1>20,
     <1>21 DEF MetricsNext

\* Nobody who waits for one of the mutexes waits for somebody who waits for
\* the other, whatever the number of tasks, retries and scrapes: who holds
\* c.mu waits for nothing.
THEOREM NoDeadlock == MetricsSpec => []NoLockCycle
<1>1. MetricsInit => MetricsInv
  BY HoldersDistinct DEF MetricsInit, MetricsInv, UnderWay, HolderInv, WaitInv
<1>2. MetricsInv => NoLockCycle
  BY HoldersDistinct DEF MetricsInv, HolderInv, WaitInv, NoLockCycle, Holder
<1> QED
  BY <1>1, <1>2, MetricsStep, PTL DEF MetricsSpec

-----------------------------------------------------------------------------
(* RetryStrategy                                                           *)

\* Quotients of natural numbers.
LEMMA Quotient ==
  ASSUME NEW d \in Nat, NEW n \in Nat \ {0}
  PROVE  d \div n \in Nat /\ n * (d \div n) <= d /\ d < n * (d \div n) + n
OBVIOUS

\* Nothing is lost where nothing wraps around.
LEMMA ModSmall ==
  ASSUME NEW n \in Nat \ {0}, NEW d \in 0 .. n - 1 PROVE d % n = d
OBVIOUS

\* A part of a number and what is left of it both grow with the number.
LEMMA PartMonotonic ==
  ASSUME NEW k \in Nat, NEW n \in Nat \ {0}, k <= n,
         NEW i \in Nat, NEW d \in Nat, i <= d
  PROVE  /\ (i * k) \div n <= (d * k) \div n
         /\ i - ((i * k) \div n) <= d - ((d * k) \div n)
<1> DEFINE u == i * k
           v == d * k
           a == u \div n
           b == v \div n
<1>1. u \in Nat /\ v \in Nat /\ u <= v /\ v - u <= n * (d - i)
  <2>1. v - u = k * (d - i)
    OBVIOUS
  <2>2. k * (d - i) <= n * (d - i) /\ k * (d - i) >= 0
    OBVIOUS
  <2>3. u \in Nat /\ v \in Nat
    OBVIOUS
  <2> HIDE DEF u, v
  <2> QED
    BY <2>1, <2>2, <2>3
<1> HIDE DEF u, v
<1>2. a \in Nat /\ n * a <= u /\ u < n * a + n
  BY <1>1, Quotient
<1>3. b \in Nat /\ n * b <= v /\ v < n * b + n
  BY <1>1, Quotient
<1> HIDE DEF a, b
<1>4. a <= b
  <2> SUFFICES ASSUME a >= b + 1 PROVE FALSE
    BY <1>2, <1>3
  <2>1. n * a >= n * (b + 1)
    BY <1>2, <1>3
  <2> QED
    BY <2>1, <1>1, <1>2, <1>3
<1>5. b - a <= d - i
  <2> SUFFICES ASSUME b - a >= d - i + 1 PROVE FALSE
    BY <1>2, <1>3
  <2>1. n * (b - a) >= n * (d - i + 1)
    BY <1>2, <1>3
  <2>2. n * (b - a) < v - u + n
    BY <1>1, <1>2, <1>3
  <2>3. n * (d - i + 1) = n * (d - i) + n
    OBVIOUS
  <2>4. n * (d - i) \in Int /\ n * (b - a) \in Int
    BY <1>2, <1>3
  <2> QED
    BY <1>1, <2>1, <2>2, <2>3, <2>4
<1> QED
  BY <1>2, <1>3, <1>4, <1>5 DEF a, b, u, v

\* A part of a number is not more than all of it.
LEMMA PartOf ==
  ASSUME NEW k \in Nat, NEW n \in Nat \ {0}, k <= n, NEW d \in Nat
  PROVE  (d * k) \div n \in 0 .. d
<1>1. (0 * k) \div n = 0
  BY Quotient
<1>2. d * k \in Nat
  OBVIOUS
<1>3. (d * k) \div n \in Nat
  BY <1>2, Quotient
<1>4. 0 - ((0 * k) \div n) <= d - ((d * k) \div n)
  BY PartMonotonic
<1> QED
  BY <1>1, <1>3, <1>4

\* The same of the fuzz and of the rounding.
LEMMA FuzzMonotonic ==
  ASSUME NEW i \in Nat, NEW d \in Nat, i <= d
  PROVE  /\ Fuzz(d) \in 0 .. d /\ Fuzz(i) <= Fuzz(d) /\ i - Fuzz(i) <= d - Fuzz(d)
         /\ Low(i) \in Nat /\ Low(i) <= i /\ i <= High(i) /\ High(i) \in Nat
         /\ Low(i) <= Low(d)
<1>1. FuzzNum \in Nat /\ FuzzDen \in Nat \ {0} /\ FuzzNum <= FuzzDen /\ Exact \in Nat \ {0}
  BY RetryAssumption
<1>2. Fuzz(d) \in 0 .. d /\ Fuzz(i) <= Fuzz(d) /\ i - Fuzz(i) <= d - Fuzz(d)
  BY <1>1, PartMonotonic, PartOf DEF Fuzz
<1>3. (i * 1) \div Exact \in 0 .. i /\ i - ((i * 1) \div Exact) <= d - ((d * 1) \div Exact)
  BY <1>1, PartMonotonic, PartOf
<1>4. i * 1 = i /\ d * 1 = d
  OBVIOUS
<1>5. i \div Exact \in 0 .. i /\ i - (i \div Exact) <= d - (d \div Exact)
  BY <1>3, <1>4
<1> QED
  BY <1>2, <1>5 DEF Low, High

\* A delay that is positive and small enough is fuzzed without an overflow.
LEMMA TameFuzz ==
  ASSUME NEW d \in Nat, Tame(d), NEW w \in Random(d)
  PROVE  /\ d <= MaxDuration
         /\ w \in d - Fuzz(d) .. d + Fuzz(d)
         /\ w >= 0
<1> DEFINE q == Fuzz(d)
<1>1. MaxDuration \in Nat \ {0}
  BY RetryAssumption
<1>2. q \in 0 .. d
  BY FuzzMonotonic
<1>3. Abs(d) = d
  BY DEF Abs
<1>4. PICK f \in -q .. q : w = Wrap(d + f)
  BY <1>3 DEF Random
<1>5. d + q <= MaxDuration
  BY DEF Tame
<1> HIDE DEF q
<1>7. d + f \in 0 .. MaxDuration
  BY <1>1, <1>2, <1>5
<1>8. Wrap(d + f) = d + f
  <2>1. (d + f) - MinDuration \in 0 .. (2 * MaxDuration + 2) - 1
    BY <1>1, <1>7 DEF MinDuration
  <2>2. 2 * MaxDuration + 2 \in Nat \ {0}
    BY <1>1
  <2>3. ((d + f) - MinDuration) % (2 * MaxDuration + 2) = (d + f) - MinDuration
    BY <2>1, <2>2, ModSmall
  <2> QED
    BY <1>1, <1>7, <2>3 DEF Wrap, MinDuration
<1>9. w \in d - q .. d + q /\ w >= 0
  BY <1>2, <1>4, <1>7, <1>8
<1> QED
  BY <1>1, <1>2, <1>5, <1>9 DEF q

\* Stop is not fuzzed.
LEMMA StopFuzz == Random(Stop) = {-1}
<1>1. MaxDuration \in Nat \ {0} /\ FuzzNum \in Nat /\ FuzzDen \in Nat \ {0} /\ FuzzNum < FuzzDen
  BY RetryAssumption
<1>2. Fuzz(Abs(Stop)) = 0
  <2>1. Abs(Stop) = 1
    <3>1. \A d \in Int : d < 0 => Abs(d) = 0 - d
      BY DEF Abs
    <3>2. Stop \in Int /\ Stop < 0 /\ 0 - Stop = 1
      BY DEF Stop
    <3> QED
      BY <3>1, <3>2
  <2>2. (1 * FuzzNum) \div FuzzDen = 0
    <3>1. (1 * FuzzNum) \div FuzzDen \in 0 .. 1
      BY <1>1, PartOf
    <3>2. FuzzDen * ((1 * FuzzNum) \div FuzzDen) <= FuzzNum
      BY <1>1, Quotient
    <3> QED
      BY <1>1, <3>1, <3>2
  <2> QED
    BY <2>1, <2>2 DEF Fuzz
<1>3. Wrap(Stop + 0) = -1
  <2>1. (-1 - MinDuration) % (2 * MaxDuration + 2) = MaxDuration
    <3>1. -1 - MinDuration = MaxDuration
      BY <1>1 DEF MinDuration
    <3>2. 2 * MaxDuration + 2 \in Nat \ {0} /\ MaxDuration \in 0 .. (2 * MaxDuration + 2) - 1
      BY <1>1
    <3> QED
      BY <3>1, <3>2, ModSmall
  <2> QED
    BY <1>1, <2>1 DEF Wrap, Stop, MinDuration
<1>4. \A f : f \in -0 .. 0 <=> f = 0
  OBVIOUS
<1> QED
  BY <1>2, <1>3, <1>4 DEF Random

\* What a float64 makes of a duration: rounding keeps the order, and leaves
\* alone what it has made before.
LEMMA Rounding ==
  ASSUME NEW d \in 0 .. MaxDuration + 1
  PROVE  /\ Float64[d] \in 0 .. MaxDuration + 1
         /\ Float64[Float64[d]] = Float64[d]
         /\ Low(d) <= Float64[d] /\ Float64[d] <= High(d)
         /\ \A e \in 0 .. MaxDuration + 1 : d <= e => Float64[d] <= Float64[e]
         /\ d >= 1 => Float64[d] >= 1
<1>1. MaxDuration \in Nat \ {0} /\ Exact \in Nat \ {0, 1}
  BY RetryAssumption
<1>2. /\ Float64[d] \in 0 .. MaxDuration + 1
      /\ Float64[Float64[d]] = Float64[d]
      /\ Float64[d] \in d - d \div Exact .. d + d \div Exact
      /\ \A e \in d .. MaxDuration + 1 : Float64[d] <= Float64[e]
  BY FloatAssumption
<1>3. Low(d) <= Float64[d] /\ Float64[d] <= High(d)
  <2>1. d \div Exact \in Nat
    BY <1>1, Quotient
  <2> QED
    BY <1>1, <1>2, <2>1 DEF Low, High
<1>4. \A e \in 0 .. MaxDuration + 1 : d <= e => Float64[d] <= Float64[e]
  BY <1>1, <1>2
<1>5. ASSUME d >= 1 PROVE Float64[d] >= 1
  <2>1. 1 \in 0 .. MaxDuration + 1 /\ 1 \div Exact = 0
    BY <1>1
  <2>2. Float64[1] \in 1 - 1 \div Exact .. 1 + 1 \div Exact
    BY <2>1, FloatAssumption
  <2>3. Float64[1] <= Float64[d]
    BY <1>1, <1>5, <2>1, FloatAssumption
  <2> QED
    BY <1>2, <2>1, <2>2, <2>3
<1> QED
  BY <1>2, <1>3, <1>4, <1>5

\* A number that is a float64 does not become less when it is multiplied by
\* one or more, rounded and cut off.
LEMMA Multiplied ==
  ASSUME NEW a \in 0 .. MaxDuration + 1, Float64[a] = a,
         NEW n \in Nat, NEW m \in Nat \ {0}, n >= m,
         NEW x \in Quotients(a * n, m)
  PROVE  x \in a .. MaxDuration + 1 /\ Float64[x] = x
<1> DEFINE q == (a * n) \div m
<1>1. MaxDuration \in Nat \ {0} /\ a \in Nat /\ a * n \in Nat
  BY RetryAssumption
<1>2. q \in Nat /\ m * q <= a * n /\ a * n < m * q + m
  BY <1>1, Quotient
<1>3. q >= a
  <2> HIDE DEF q
  <2> SUFFICES ASSUME q + 1 <= a PROVE FALSE
    BY <1>1, <1>2
  <2>1. m * (q + 1) <= m * a
    BY <1>1, <1>2
  <2>2. m * a <= a * n
    BY <1>1
  <2> QED
    BY <1>1, <1>2, <2>1, <2>2
<1>4. x \in {Float64[Clip(q)], Float64[Clip(q + 1)]}
  BY DEF Quotients
<1> HIDE DEF q
<1>5. PICK c \in {Clip(q), Clip(q + 1)} : x = Float64[c]
  BY <1>4
<1>6. c \in 0 .. MaxDuration + 1 /\ a <= c
  BY <1>1, <1>2, <1>3 DEF Clip
<1>7. Float64[a] <= Float64[c]
  BY <1>6, Rounding
<1>8. Float64[c] \in 0 .. MaxDuration + 1 /\ Float64[Float64[c]] = Float64[c]
  BY <1>6, Rounding
<1> QED
  BY <1>1, <1>5, <1>7, <1>8

\* What validation guarantees.
LEMMA ConfigTypes ==
  ASSUME NEW c \in Configs
  PROVE  /\ c.count \in Nat /\ c.initial \in 1 .. MaxDuration
         /\ c.factor.num \in Nat /\ c.factor.den \in Nat \ {0}
         /\ c.factor.num >= c.factor.den
         /\ c.max \in 0 .. MaxDuration
         /\ c.max = 0 \/ c.max >= c.initial
<1>1. /\ c \in [count : RetryCounts, initial : InitialDelays,
                factor : Factors, max : MaxDelays]
      /\ c.count >= 0 /\ c.initial > 0 /\ c.factor.num >= c.factor.den
      /\ c.max = 0 \/ c.max >= c.initial
  BY DEF Configs
<1>2. c.count \in RetryCounts /\ c.initial \in InitialDelays
  BY <1>1
<1>3. c.factor \in Factors /\ c.max \in MaxDelays
  BY <1>1
<1>4. c.count \in Nat /\ c.factor.num \in Nat /\ c.factor.den \in Nat \ {0}
  BY <1>2, <1>3, RetryAssumption
<1>5. c.initial \in 0 .. MaxDuration /\ c.max \in 0 .. MaxDuration /\ MaxDuration \in Nat
  BY <1>2, <1>3, RetryAssumption
<1> QED
  BY <1>1, <1>4, <1>5

\* An overflow leaves the least duration, and nothing else becomes negative.
SignInv == delay \in 1 .. MaxDuration \/ delay = MinDuration

\* A delay is the initial one or a float64, neither shorter than the initial
\* one nor longer than the maximum, as far as float64 goes.
DelayInv ==
  /\ delay \in 1 .. MaxDuration /\ Tame(delay)
  /\ delay = cfg.initial \/ (Float64[delay] = delay /\ delay >= Low(cfg.initial))
  /\ cfg.max > 0 => delay = cfg.initial \/ delay <= Float64[cfg.max]

\* Attempts are counted down, and only an overflow ends them early.
CountInv ==
  /\ attempts \in Nat /\ remaining = cfg.count - attempts
  /\ over \in BOOLEAN /\ final \in BOOLEAN
  /\ attempts <= cfg.count + 1
  /\ ~over => attempts <= cfg.count
  /\ final => over /\ attempts = cfg.count + 1
  /\ over => final \/ huge

RetryInv ==
  /\ cfg \in Configs /\ huge \in BOOLEAN
  /\ SignInv /\ CountInv /\ (~huge => DelayInv)

\* The product with the factor, for a delay and for what an overflow leaves.
LEMMA ProductOf ==
  ASSUME cfg \in Configs, NEW p \in Products
  PROVE  /\ delay \in 1 .. MaxDuration =>
              /\ p \in Float64[delay] .. MaxDuration + 1 /\ p >= 1
              /\ Float64[p] = p
         /\ delay = MinDuration => p = MinDuration
<1> DEFINE n == cfg.factor.num
           m == cfg.factor.den
<1>1. n \in Nat /\ m \in Nat \ {0} /\ n >= m /\ MaxDuration \in Nat \ {0}
  BY ConfigTypes, RetryAssumption
<1>2. PICK x \in Quotients(Float64[Abs(delay)] * n, m) : p = IF delay < 0 THEN -x ELSE x
  BY DEF Products
<1> HIDE DEF n, m
<1>3. ASSUME delay \in 1 .. MaxDuration
      PROVE  p \in Float64[delay] .. MaxDuration + 1 /\ p >= 1 /\ Float64[p] = p
  <2>1. Abs(delay) = delay /\ p = x /\ delay \in 0 .. MaxDuration + 1
    BY <1>1, <1>2, <1>3 DEF Abs
  <2>2. /\ Float64[delay] \in 0 .. MaxDuration + 1 /\ Float64[delay] >= 1
        /\ Float64[Float64[delay]] = Float64[delay]
    BY <1>1, <1>3, <2>1, Rounding
  <2>3. x \in Float64[delay] .. MaxDuration + 1 /\ Float64[x] = x
    BY <1>1, <1>2, <2>1, <2>2, Multiplied
  <2> QED
    BY <1>1, <2>1, <2>2, <2>3
<1>4. ASSUME delay = MinDuration PROVE p = MinDuration
  <2>1. Abs(delay) = MaxDuration + 1 /\ p = -x
    BY <1>1, <1>2, <1>4 DEF Abs, MinDuration
  <2>2. Float64[MaxDuration + 1] = MaxDuration + 1 /\ MaxDuration + 1 \in 0 .. MaxDuration + 1
    BY <1>1, FloatAssumption
  <2>3. x \in MaxDuration + 1 .. MaxDuration + 1
    BY <1>1, <1>2, <2>1, <2>2, Multiplied
  <2> QED
    BY <1>1, <2>1, <2>3 DEF MinDuration
<1> QED
  BY <1>3, <1>4

\* The next delay has a sign that Stop does not have.
LEMMA SignKept ==
  ASSUME cfg \in Configs, SignInv, NEW p \in Products, NEW e \in ToDuration(Limit(p))
  PROVE  e \in 1 .. MaxDuration \/ e = MinDuration
<1>1. MaxDuration \in Nat \ {0} /\ cfg.max \in 0 .. MaxDuration
  BY ConfigTypes, RetryAssumption
<1>2. p \in 1 .. MaxDuration + 1 \/ p = MinDuration
  <2>1. CASE delay \in 1 .. MaxDuration
    <3>1. p \in Float64[delay] .. MaxDuration + 1 /\ p >= 1
      BY <2>1, ProductOf
    <3>2. delay \in 0 .. MaxDuration + 1
      BY <2>1, <1>1
    <3>3. Float64[delay] \in 0 .. MaxDuration + 1
      BY <3>2, Rounding
    <3> QED
      BY <1>1, <3>1, <3>3
  <2>2. CASE delay = MinDuration
    BY <2>2, ProductOf
  <2> QED
    BY <2>1, <2>2 DEF SignInv
<1>3. cfg.max > 0 => Float64[cfg.max] \in 1 .. MaxDuration + 1
  <2>1. cfg.max \in 0 .. MaxDuration + 1
    BY <1>1
  <2> QED
    BY <1>1, <2>1, Rounding
<1>4. Limit(p) \in 1 .. MaxDuration + 1 \/ Limit(p) = MinDuration
  BY <1>1, <1>2, <1>3 DEF Limit, MinDuration
<1> QED
  BY <1>1, <1>4 DEF ToDuration, MinDuration

\* The next delay is not shorter, but not longer than the maximum.
LEMMA Longer ==
  ASSUME cfg \in Configs, DelayInv, NEW p \in Products, Tame(Limit(p))
  PROVE  /\ ToDuration(Limit(p)) = {Limit(p)}
         /\ Limit(p) \in 1 .. MaxDuration
         /\ Limit(p) >= Float64[delay] /\ Float64[Limit(p)] = Limit(p)
         /\ Limit(p) >= Low(cfg.initial)
         /\ cfg.max > 0 => Limit(p) <= Float64[cfg.max]
<1> DEFINE l == Limit(p)
           a == Float64[delay]
<1>1. MaxDuration \in Nat \ {0} /\ cfg.initial \in 1 .. MaxDuration /\ cfg.max \in 0 .. MaxDuration
      /\ (cfg.max = 0 \/ cfg.max >= cfg.initial)
  BY ConfigTypes, RetryAssumption
<1>2. delay \in 1 .. MaxDuration /\ delay \in 0 .. MaxDuration + 1
  BY <1>1 DEF DelayInv
<1>3. a \in 0 .. MaxDuration + 1 /\ a >= 1 /\ Low(delay) <= a
  BY <1>2, Rounding
<1>4. p \in a .. MaxDuration + 1 /\ Float64[p] = p
  BY <1>2, ProductOf
<1>5. a >= Low(cfg.initial)
  <2>1. CASE delay = cfg.initial
    BY <2>1, <1>3
  <2>2. CASE Float64[delay] = delay /\ delay >= Low(cfg.initial)
    BY <2>2
  <2> QED
    BY <2>1, <2>2 DEF DelayInv
<1>6. ASSUME cfg.max > 0
      PROVE  /\ Float64[cfg.max] \in 0 .. MaxDuration + 1 /\ a <= Float64[cfg.max]
             /\ Float64[Float64[cfg.max]] = Float64[cfg.max]
  <2>1. cfg.max \in 0 .. MaxDuration + 1 /\ cfg.initial \in 0 .. MaxDuration + 1
        /\ cfg.initial <= cfg.max
    BY <1>1, <1>6
  <2>2. Float64[cfg.initial] <= Float64[cfg.max]
    BY <2>1, Rounding
  <2>3. Float64[cfg.max] \in 0 .. MaxDuration + 1 /\ Float64[Float64[cfg.max]] = Float64[cfg.max]
    BY <2>1, Rounding
  <2>4. CASE delay = cfg.initial
    BY <2>2, <2>3, <2>4
  <2>5. CASE delay # cfg.initial
    <3>1. Float64[delay] = delay /\ delay <= Float64[cfg.max]
      BY <1>6, <2>5 DEF DelayInv
    <3> QED
      BY <2>3, <3>1
  <2> QED
    BY <2>4, <2>5
<1>7. l >= a /\ l \in 0 .. MaxDuration + 1 /\ Float64[l] = l /\ (cfg.max > 0 => l <= Float64[cfg.max])
  <2> HIDE DEF a
  <2> QED
    BY <1>1, <1>3, <1>4, <1>6 DEF Limit
<1>8. l <= MaxDuration
  <2>1. l \in Nat /\ Fuzz(l) \in 0 .. l
    BY <1>1, <1>7, FuzzMonotonic
  <2>2. l + Fuzz(l) <= MaxDuration
    BY DEF Tame
  <2> HIDE DEF l
  <2> QED
    BY <1>1, <2>1, <2>2
<1>9. ToDuration(l) = {l}
  <2>1. ~(l > MaxDuration)
    BY <1>1, <1>7, <1>8
  <2> HIDE DEF l
  <2> QED
    BY <2>1 DEF ToDuration
<1>10. Low(cfg.initial) \in Nat
  BY <1>1, FuzzMonotonic
<1> QED
  BY <1>1, <1>3, <1>5, <1>7, <1>8, <1>9, <1>10

\* What Advance does, when there are attempts left to count.
Advanced ==
  \E p \in Products :
    delay' \in ToDuration(Limit(p)) /\ huge' = (huge \/ ~Tame(Limit(p)))

\* A step keeps the signs and the counts, also with huge delays.
LEMMA CountStep ==
  ASSUME RetryInv, RetryNext
  PROVE  /\ cfg' = cfg /\ huge' \in BOOLEAN /\ SignInv' /\ CountInv' /\ Advanced
         /\ huge => huge'
         /\ ~over' => wait' \in Random(delay)
<1>1. cfg' = cfg /\ ~over /\ attempts' = attempts + 1
  BY Zenon DEF RetryNext, Fails
<1>2. CountInv /\ SignInv /\ cfg \in Configs /\ huge \in BOOLEAN
  BY Zenon DEF RetryInv
<1>3. attempts \in Nat /\ cfg.count \in Nat /\ attempts <= cfg.count
  <2>1. attempts \in Nat /\ attempts <= cfg.count
    BY <1>1, <1>2, Zenon DEF CountInv
  <2> QED
    BY <1>2, <2>1, ConfigTypes
<1>4. remaining = cfg.count - attempts /\ remaining \in Nat
  <2>1. remaining = cfg.count - attempts
    BY <1>2, Zenon DEF CountInv
  <2> QED
    BY <1>3, <2>1
<1>5. ~(remaining < 0)
  BY <1>4
<1>6. Advanced /\ remaining' = remaining - 1
  BY <1>5, Zenon DEF RetryNext, Fails, Advance, Advanced
<1>7. huge' \in BOOLEAN /\ (huge => huge')
  BY <1>2, <1>6, Zenon DEF Advanced
<1>8. SignInv'
  <2>1. PICK p \in Products : delay' \in ToDuration(Limit(p))
    BY <1>6, Zenon DEF Advanced
  <2>2. delay' \in 1 .. MaxDuration \/ delay' = MinDuration
    BY <1>2, <2>1, SignKept
  <2> QED
    BY <2>2 DEF SignInv, MinDuration
<1>9. /\ attempts' \in Nat /\ remaining' = cfg.count - attempts'
      /\ attempts' <= cfg.count + 1
      /\ remaining = 0 => attempts' = cfg.count + 1
      /\ remaining # 0 => attempts' <= cfg.count
  BY <1>1, <1>3, <1>4, <1>6
<1>10. over' \in BOOLEAN
  <2>1. over' = (wait' < 0)
    BY Zenon DEF RetryNext, Fails
  <2>2. (wait' < 0) \in BOOLEAN
    OBVIOUS
  <2> QED
    BY <2>1, <2>2, Zenon
<1>11. CASE remaining = 0
  <2>0. Current = Stop
    BY <1>11 DEF Current
  <2>1. final' = TRUE /\ wait' = -1
    BY <2>0, StopFuzz, Zenon DEF RetryNext, Fails
  <2>2. over' = TRUE
    <3>1. wait' < 0
      BY <2>1
    <3> QED
      BY <3>1, Zenon DEF RetryNext, Fails
  <2>3. CountInv'
    BY <1>1, <1>9, <1>11, <2>1, <2>2, Zenon DEF CountInv
  <2> QED
    BY <1>1, <1>6, <1>7, <1>8, <2>2, <2>3, Zenon
<1>12. CASE remaining # 0
  <2>1. Current = delay /\ delay # Stop
    BY <1>2, <1>4, <1>12, RetryAssumption DEF Current, SignInv, Stop, MinDuration
  <2>2. final' = FALSE /\ wait' \in Random(delay)
    BY <2>1, Zenon DEF RetryNext, Fails
  <2>3. over' => huge'
    <3> SUFFICES ASSUME ~huge PROVE ~over'
      BY <1>7, Zenon
    <3>1. DelayInv
      BY Zenon DEF RetryInv
    <3>2. delay \in Nat /\ Tame(delay)
      BY <3>1, RetryAssumption DEF DelayInv
    <3>3. wait' >= 0
      BY <2>2, <3>2, TameFuzz
    <3>4. wait' \in Int
      <4>1. wait' \in delay - Fuzz(delay) .. delay + Fuzz(delay) /\ Fuzz(delay) \in 0 .. delay
        BY <2>2, <3>2, TameFuzz, FuzzMonotonic
      <4> QED
        BY <3>2, <4>1
    <3>5. ~(wait' < 0)
      BY <3>3, <3>4
    <3> QED
      BY <3>5, Zenon DEF RetryNext, Fails
  <2>4. CountInv'
    BY <1>1, <1>9, <1>10, <1>12, <2>2, <2>3, Zenon DEF CountInv
  <2> QED
    BY <1>1, <1>6, <1>7, <1>8, <2>2, <2>4, Zenon
<1> QED
  BY <1>11, <1>12

\* A step without huge delays: what it does to the delay.
LEMMA DelayStep ==
  ASSUME RetryInv, RetryNext, ~huge'
  PROVE  ~huge /\ DelayInv' /\ delay' >= Float64[delay]
<1>1. cfg' = cfg /\ ~huge /\ cfg \in Configs /\ Advanced
  BY CountStep, Zenon DEF RetryInv
<1>2. DelayInv
  BY <1>1, Zenon DEF RetryInv
<1>3. PICK p \in Products : delay' \in ToDuration(Limit(p)) /\ Tame(Limit(p))
  BY <1>1, Zenon DEF Advanced
<1>4. delay' = Limit(p)
  BY <1>1, <1>2, <1>3, Longer
<1> DEFINE l == Limit(p)
<1>5. /\ l \in 1 .. MaxDuration /\ l >= Float64[delay] /\ Float64[l] = l
      /\ l >= Low(cfg.initial) /\ Tame(l)
      /\ cfg.max > 0 => l <= Float64[cfg.max]
  BY <1>1, <1>2, <1>3, Longer
<1> HIDE DEF l
<1>6. delay' = l
  BY <1>4 DEF l
<1>7. DelayInv'
  BY <1>1, <1>5, <1>6 DEF DelayInv, Tame, Fuzz, Low
<1> QED
  BY <1>1, <1>5, <1>6, <1>7

\* The invariant holds for every validated configuration, and stays.
LEMMA RetryInvariance == RetrySpec => []RetryInv
<1>1. (\E c \in Configs : RetryInit(c)) => RetryInv
  <2> SUFFICES ASSUME NEW c \in Configs, RetryInit(c) PROVE RetryInv
    OBVIOUS
  <2>1. cfg \in Configs /\ huge \in BOOLEAN /\ (~huge => Tame(cfg.initial)) /\ delay = cfg.initial
    BY Zenon DEF RetryInit
  <2>2. delay \in 1 .. MaxDuration
    BY <2>1, ConfigTypes
  <2>3. SignInv /\ (~huge => DelayInv)
    BY <2>1, <2>2 DEF SignInv, DelayInv
  <2>4. attempts = 0 /\ remaining = cfg.count /\ over = FALSE /\ final = FALSE
    BY DEF RetryInit
  <2>5. CountInv
    <3>1. /\ attempts \in Nat /\ remaining = cfg.count - attempts /\ attempts <= cfg.count
          /\ attempts <= cfg.count + 1
      BY <2>1, <2>4, ConfigTypes
    <3> QED
      BY <2>4, <3>1, Zenon DEF CountInv
  <2> QED
    BY <2>1, <2>3, <2>5, Zenon DEF RetryInv
<1>2. RetryInv /\ [RetryNext]_retryVars => RetryInv'
  <2> SUFFICES ASSUME RetryInv, [RetryNext]_retryVars PROVE RetryInv'
    OBVIOUS
  <2>1. CASE UNCHANGED retryVars
    BY <2>1 DEF retryVars, RetryInv, SignInv, DelayInv, CountInv, Tame, Fuzz, Low
  <2>2. CASE RetryNext
    <3>1. cfg' \in Configs /\ huge' \in BOOLEAN /\ SignInv' /\ CountInv'
      BY <2>2, CountStep, Zenon DEF RetryInv
    <3>2. ~huge' => DelayInv'
      BY <2>2, DelayStep, Zenon
    <3> QED
      BY <3>1, <3>2, Zenon DEF RetryInv
  <2> QED
    BY <2>1, <2>2
<1> QED
  BY <1>1, <1>2, PTL DEF RetrySpec

\* A failing task never has more than its retry_count retries, not even with
\* delays that overflow, and the attempt that is told to be final is the last
\* one; below 278 years no other attempt is.
THEOREM FinalCorrect == RetrySpec => []FinalIsLast
<1>1. RetryInv => FinalIsLast
  BY Zenon DEF RetryInv, CountInv, FinalIsLast
<1> QED
  BY <1>1, RetryInvariance, PTL

\* Waits lie between the initial delay and the configured maximum, give or
\* take the fuzz and the rounding, and delays never become shorter.
THEOREM WaitsBounded == RetrySpec => DelaysBounded
<1> DEFINE
  Bounded ==
    ~huge' =>
       /\ delay' >= Float64[delay]
       /\ ~over' =>
            /\ wait' >= Low(cfg.initial) - Fuzz(Low(cfg.initial))
            /\ cfg.max > 0 => wait' <= High(cfg.max) + Fuzz(High(cfg.max))
<1>1. RetryInv /\ [RetryNext]_retryVars => [Bounded]_retryVars
  <2> SUFFICES ASSUME RetryInv, RetryNext, ~huge'
               PROVE  /\ delay' >= Float64[delay]
                      /\ ~over' =>
                           /\ wait' >= Low(cfg.initial) - Fuzz(Low(cfg.initial))
                           /\ cfg.max > 0 => wait' <= High(cfg.max) + Fuzz(High(cfg.max))
    OBVIOUS
  <2>1. delay' >= Float64[delay] /\ ~huge
    BY DelayStep
  <2>2. DelayInv /\ cfg \in Configs
    BY <2>1, Zenon DEF RetryInv
  <2>3. /\ cfg.initial \in Nat /\ cfg.max \in Nat /\ delay \in Nat
        /\ cfg.max \in 0 .. MaxDuration + 1 /\ (cfg.max = 0 \/ cfg.max >= cfg.initial)
    BY <2>2, ConfigTypes, RetryAssumption DEF DelayInv
  <2> SUFFICES ASSUME ~over'
               PROVE  /\ wait' >= Low(cfg.initial) - Fuzz(Low(cfg.initial))
                      /\ cfg.max > 0 => wait' <= High(cfg.max) + Fuzz(High(cfg.max))
    BY <2>1
  <2> DEFINE q == Fuzz(delay)
             lo == Low(cfg.initial)
             hi == High(cfg.max)
  <2>4. q \in 0 .. delay /\ lo \in Nat /\ hi \in Nat /\ lo <= cfg.initial /\ cfg.max <= hi
    BY <2>3, FuzzMonotonic
  <2>5. wait' \in delay - q .. delay + q
    <3>1. wait' \in Random(delay)
      BY CountStep, Zenon
    <3> QED
      BY <2>2, <2>3, <3>1, TameFuzz DEF DelayInv
  <2>6. lo <= delay
    BY <2>2, <2>3, <2>4 DEF DelayInv
  <2>7. lo - Fuzz(lo) <= delay - q /\ Fuzz(lo) \in Nat
    BY <2>3, <2>4, <2>6, FuzzMonotonic
  <2>8. ASSUME cfg.max > 0 PROVE q <= Fuzz(hi) /\ Fuzz(hi) \in Nat /\ delay <= hi
    <3>1. Float64[cfg.max] <= hi /\ Float64[cfg.max] \in Nat
      BY <2>3, Rounding, RetryAssumption
    <3>2. delay <= hi
      BY <2>2, <2>3, <2>4, <2>8, <3>1 DEF DelayInv
    <3> QED
      BY <2>3, <2>4, <3>2, FuzzMonotonic
  <2> HIDE DEF q, lo, hi
  <2>9. wait' >= lo - Fuzz(lo)
    BY <2>3, <2>4, <2>5, <2>7
  <2>10. cfg.max > 0 => wait' <= hi + Fuzz(hi)
    BY <2>3, <2>4, <2>5, <2>8
  <2> QED
    BY <2>9, <2>10 DEF lo, hi
<1> QED
  BY <1>1, RetryInvariance, PTL DEF RetrySpec, DelaysBounded

-----------------------------------------------------------------------------
(* Heaps, as functions from positions to values                            *)

\* A parent is not above its child, except for the children in skip.
Order(v, m, skip) == \A p \in 2 .. m : p \notin skip => v[p \div 2] <= v[p]

\* The parent of a is not above the children of a.
Bridge(v, m, a) == \A p \in 2 .. m : p \div 2 = a /\ a >= 2 => v[a \div 2] <= v[p]

Swapped(v, a, b) == [v EXCEPT ![a] = v[b], ![b] = v[a]]

\* Heap order and its gap while an item goes up or down from position a.
UpOrder(v, m, a) == Order(v, m, {a}) /\ Bridge(v, m, a)
DownOrder(v, m, a, first) ==
  Order(v, m, {2 * a, 2 * a + 1} \cup {p \in {a} : first}) /\ Bridge(v, m, a)

\* The halves of positions.
LEMMA Halves ==
  \A p \in Nat :
    /\ p \div 2 \in Nat /\ 2 * (p \div 2) <= p /\ p <= 2 * (p \div 2) + 1
    /\ p >= 2 => p \div 2 >= 1 /\ p \div 2 < p
OBVIOUS

\* The root of a heap is a minimum: otherwise the first position with a
\* lesser value would have a parent with a lesser value.
LEMMA RootIsLeast ==
  ASSUME NEW n \in Nat, NEW v \in [1 .. n -> Int], Order(v, n, {}), NEW q \in 1 .. n
  PROVE  v[1] <= v[q]
<1> DEFINE T == {p \in 1 .. n : v[p] < v[1]}
<1> SUFFICES ASSUME T # {} PROVE FALSE
  OBVIOUS
<1>1. T \subseteq Nat
  OBVIOUS
<1>2. PICK p \in T : \A y \in T : p <= y
  <2> HIDE DEF T
  <2> QED
    BY <1>1, Least
<1>3. p \in 2 .. n /\ p \div 2 \in 1 .. n /\ p \div 2 < p
  BY Halves
<1>4. ~(v[p \div 2] < v[1])
  BY <1>2, <1>3
<1>5. v[p \div 2] <= v[p]
  BY <1>3 DEF Order
<1> QED
  BY <1>3, <1>4, <1>5

\* An item that is less than its parent changes places with it.
LEMMA UpSwap ==
  ASSUME NEW n \in Nat, NEW v \in [1 .. n -> Int], NEW m \in 0 .. n,
         NEW a \in 2 .. m, UpOrder(v, m, a), v[a] < v[a \div 2]
  PROVE  UpOrder(Swapped(v, a, a \div 2), m, a \div 2)
<1> DEFINE b == a \div 2
           w == Swapped(v, a, b)
<1>1. b \in 1 .. m /\ b < a /\ b = a \div 2
  BY Halves
<1>2. \A p \in 1 .. n : w[p] = IF p = a THEN v[b] ELSE IF p = b THEN v[a] ELSE v[p]
  BY <1>1 DEF Swapped
<1>3. \A p \in 2 .. m : p \div 2 \in 1 .. m /\ p \div 2 < p
  BY Halves
<1>4. v[a] < v[b]
  OBVIOUS
<1>5. \A p \in 2 .. m : p # a => v[p \div 2] <= v[p]
  BY DEF UpOrder, Order
<1>6. \A p \in 2 .. m : p \div 2 = a => v[b] <= v[p]
  BY DEF UpOrder, Bridge
<1> HIDE DEF b, w
<1>7. ASSUME NEW p \in 2 .. m, p # b PROVE w[p \div 2] <= w[p]
  BY <1>1, <1>2, <1>3, <1>4, <1>5, <1>6, <1>7
<1>8. ASSUME NEW p \in 2 .. m, p \div 2 = b, b >= 2 PROVE w[b \div 2] <= w[p]
  <2>1. b \in 2 .. m /\ b \div 2 \in 1 .. m /\ b \div 2 < b
    BY <1>1, <1>8, Halves
  <2>2. v[b \div 2] <= v[b] /\ w[b \div 2] = v[b \div 2]
    BY <1>1, <1>2, <1>5, <2>1
  <2>3. CASE p = a
    BY <1>1, <1>2, <2>1, <2>2, <2>3
  <2>4. CASE p # a
    <3>1. v[b] <= v[p] /\ w[p] = v[p]
      BY <1>1, <1>2, <1>3, <1>5, <1>8, <2>4
    <3>2. v[b] \in Int /\ v[p] \in Int /\ v[b \div 2] \in Int
      BY <1>1, <2>1
    <3> QED
      BY <2>2, <3>1, <3>2, SMTT(20)
  <2> QED
    BY <2>3, <2>4
<1> QED
  BY <1>7, <1>8 DEF UpOrder, Order, Bridge, b, w

\* An item that is above the lesser of its children changes places with it.
LEMMA DownSwap ==
  ASSUME NEW n \in Nat, NEW v \in [1 .. n -> Int], NEW m \in 0 .. n,
         NEW a \in 1 .. m, NEW c \in {2 * a, 2 * a + 1}, c <= m,
         NEW first, DownOrder(v, m, a, first), v[c] < v[a],
         \A p \in {2 * a, 2 * a + 1} : p <= m => v[c] <= v[p]
  PROVE  DownOrder(Swapped(v, a, c), m, c, FALSE)
<1> DEFINE w == Swapped(v, a, c)
<1>1. c \in 2 .. m /\ c \div 2 = a /\ a < c
  BY Halves
<1>2. \A p \in 1 .. n : w[p] = IF p = a THEN v[c] ELSE IF p = c THEN v[a] ELSE v[p]
  BY <1>1 DEF Swapped
<1>3. \A p \in 2 .. m :
        /\ p \div 2 \in 1 .. m /\ p \div 2 < p
        /\ p \div 2 = a <=> p \in {2 * a, 2 * a + 1}
  BY Halves
<1>4. \A p \in 2 .. m : p # a /\ p \div 2 # a => v[p \div 2] <= v[p]
  BY <1>3 DEF DownOrder, Order
<1>5. ASSUME NEW p \in 2 .. m, p \div 2 = a PROVE v[c] <= v[p]
  <2>1. p \in {2 * a, 2 * a + 1} /\ p <= m
    BY <1>3, <1>5
  <2> QED
    BY <2>1
<1>6. a >= 2 => v[a \div 2] <= v[c] /\ a \div 2 \in 1 .. m /\ a \div 2 < a
  BY <1>1, <1>3 DEF DownOrder, Bridge
<1> HIDE DEF w
<1>7. ASSUME NEW p \in 2 .. m, p \div 2 # c PROVE w[p \div 2] <= w[p]
  <2>1. CASE p = a
    BY <1>1, <1>2, <1>6, <1>7, <2>1
  <2>2. CASE p \div 2 = a
    BY <1>1, <1>2, <1>5, <1>7, <2>2, SMTT(20)
  <2>3. CASE p # a /\ p \div 2 # a
    BY <1>1, <1>2, <1>3, <1>4, <1>7, <2>3, SMTT(20)
  <2> QED
    BY <2>1, <2>2, <2>3
<1>8. ASSUME NEW p \in 2 .. m, p \div 2 = c PROVE w[c \div 2] <= w[p]
  BY <1>1, <1>2, <1>3, <1>4, <1>8
<1>9. \A p \in 2 .. m : p \notin {2 * c, 2 * c + 1} => p \div 2 # c
  BY <1>1, Halves
<1> QED
  BY <1>7, <1>8, <1>9 DEF DownOrder, Order, Bridge, w

\* One value of a heap is replaced: the item goes down from there.
LEMMA Replaced ==
  ASSUME NEW n \in Nat, NEW v \in [1 .. n -> Int], Order(v, n, {}),
         NEW m \in 0 .. n, NEW a \in 1 .. m,
         NEW w, \A q \in 1 .. m : q # a => w[q] = v[q]
  PROVE  DownOrder(w, m, a, TRUE)
<1>1. \A q \in 2 .. m : q \div 2 \in 1 .. m /\ q \div 2 < q /\ v[q \div 2] <= v[q]
                       /\ (q \div 2 = a => q \in {2 * a, 2 * a + 1})
  BY Halves DEF Order
<1>2. ASSUME NEW q \in 2 .. m, q \div 2 # a, q # a PROVE w[q \div 2] <= w[q]
  BY <1>1, <1>2
<1>3. ASSUME NEW q \in 2 .. m, q \div 2 = a, a >= 2 PROVE w[a \div 2] <= w[q]
  <2>1. a \in 2 .. m /\ a \div 2 \in 1 .. m /\ a \div 2 < a /\ v[a \div 2] <= v[a]
    BY <1>1, <1>3
  <2>2. v[a] <= v[q] /\ a < q
    BY <1>1, <1>3
  <2>3. v[a] \in Int /\ v[q] \in Int /\ v[a \div 2] \in Int
    BY <2>1
  <2>4. w[a \div 2] = v[a \div 2] /\ w[q] = v[q]
    BY <2>1, <2>2
  <2> QED
    BY <2>1, <2>2, <2>3, <2>4
<1>4. \A q \in 2 .. m : q \notin {2 * a, 2 * a + 1} => q \div 2 # a
  BY <1>1
<1> QED
  BY <1>2, <1>3, <1>4 DEF DownOrder, Order, Bridge

-----------------------------------------------------------------------------
(* PrioQueue                                                               *)

\* Values by position.
Val == [p \in 1 .. Len(items) |-> value[items[p]]]

\* Items know their index.
IndexInv ==
  /\ items \in Seq(Items) /\ index \in [Items -> Nat] /\ value \in [Items -> Int]
  /\ \A p \in 1 .. Len(items) : index[items[p]] = p
  /\ \A i \in Items : index[i] # 0 => index[i] \in 1 .. Len(items) /\ items[index[i]] = i

TakeCalls == {"pop", "remove"}

\* Pop and Remove keep the last item out of the heap: a minimum, or the item
\* they were given.
HeapSize == IF call.call \in TakeCalls THEN Len(items) - 1 ELSE Len(items)

TakenInv ==
  pc # "idle" /\ call.call \in TakeCalls =>
    /\ Len(items) >= 1
    /\ \/ call = Call("remove", items[Len(items)])
       \/ /\ call = Call("pop", NoItem)
          /\ \A p \in 1 .. Len(items) : Val[Len(items)] <= Val[p]

\* The order of the heap between calls and its gap during them.
OrderInv ==
  /\ pc \in {"idle", "up", "down", "take"}
  /\ pc = "idle" => Order(Val, Len(items), {})
  /\ pc = "up" => at \in 1 .. HeapSize /\ UpOrder(Val, HeapSize, at)
  /\ pc = "down" =>
       /\ size = HeapSize /\ at \in 1 .. HeapSize /\ from \in 1 .. at
       /\ call.call = "pop" => from = 1
       /\ DownOrder(Val, HeapSize, at, at = from)
  /\ pc = "take" => call.call \in TakeCalls /\ Order(Val, Len(items) - 1, {})

QueueInv == IndexInv /\ TakenInv /\ OrderInv

Queue == {items[p] : p \in DOMAIN items}

\* The values of the heap's positions are integers.
LEMMA ValType == IndexInv => Len(items) \in Nat /\ Val \in [1 .. Len(items) -> Int]
<1> SUFFICES ASSUME IndexInv PROVE Len(items) \in Nat /\ Val \in [1 .. Len(items) -> Int]
  OBVIOUS
<1>1. Len(items) \in Nat /\ \A p \in 1 .. Len(items) : items[p] \in Items
  BY DEF IndexInv
<1> QED
  BY <1>1 DEF IndexInv, Val

\* An item is in the queue if it has an index.
LEMMA QueueIs == IndexInv => Queue = {i \in Items : index[i] # 0}
<1> SUFFICES ASSUME IndexInv PROVE Queue = {i \in Items : index[i] # 0}
  OBVIOUS
<1>1. DOMAIN items = 1 .. Len(items) /\ \A p \in 1 .. Len(items) : items[p] \in Items
  BY DEF IndexInv
<1>2. ASSUME NEW p \in 1 .. Len(items) PROVE items[p] \in Items /\ index[items[p]] # 0
  BY <1>1 DEF IndexInv
<1>3. ASSUME NEW i \in Items, index[i] # 0 PROVE i \in Queue
  BY <1>1, <1>3 DEF IndexInv, Queue
<1> QED
  BY <1>1, <1>2, <1>3 DEF Queue

\* The same after a step.
LEMMA QueueIsNext == IndexInv' => Queue' = {i \in Items : index'[i] # 0}
<1>1. (IndexInv => Queue = {i \in Items : index[i] # 0})'
  BY QueueIs, PTL
<1> QED
  BY <1>1

\* A swap keeps the items and what they know of themselves.
LEMMA SwapStep ==
  ASSUME IndexInv, NEW a \in 1 .. Len(items), NEW b \in 1 .. Len(items), a # b,
         Swap(a, b), value' = value
  PROVE  /\ IndexInv' /\ Len(items') = Len(items) /\ Val' = Swapped(Val, a, b)
         /\ \A p \in 1 .. Len(items) : p \notin {a, b} => items'[p] = items[p]
         /\ items'[a] = items[b] /\ items'[b] = items[a]
         /\ Queue' = Queue
<1> DEFINE n == Len(items)
           f == [items EXCEPT ![a] = items[b]]
<1>1. n \in Nat /\ \A p \in 1 .. n : items[p] \in Items
  BY DEF IndexInv
<1>2. f \in Seq(Items) /\ Len(f) = n
      /\ \A p \in 1 .. n : f[p] = IF p = a THEN items[b] ELSE items[p]
  BY <1>1, ExceptSeq DEF IndexInv
<1>3. items' = [f EXCEPT ![b] = items[a]]
  BY DEF Swap
<1> HIDE DEF f
<1>4. items' \in Seq(Items) /\ Len(items') = n
      /\ \A p \in 1 .. n : items'[p] = IF p = b THEN items[a] ELSE f[p]
  BY <1>1, <1>2, <1>3, ExceptSeq
<1>5. \A p \in 1 .. n : items'[p] = IF p = b THEN items[a] ELSE
                                   IF p = a THEN items[b] ELSE items[p]
  BY <1>2, <1>4
<1>6. index[items[a]] = a /\ index[items[b]] = b /\ items[a] # items[b]
  BY DEF IndexInv
<1>7. /\ index' \in [Items -> Nat]
      /\ \A i \in Items : index'[i] = IF i = items[a] THEN b ELSE
                                     IF i = items[b] THEN a ELSE index[i]
  <2>1. index \in [Items -> Nat] /\ items[a] \in Items /\ items[b] \in Items
    BY <1>1 DEF IndexInv
  <2>2. index' = [index EXCEPT ![items[b]] = a, ![items[a]] = b]
    BY <1>6 DEF Swap
  <2>3. a \in Nat /\ b \in Nat
    BY <1>1
  <2> QED
    BY <1>6, <2>1, <2>2, <2>3
<1>8. IndexInv'
  <2>1. \A p \in 1 .. n : index'[items'[p]] = p
    <3> SUFFICES ASSUME NEW p \in 1 .. n PROVE index'[items'[p]] = p
      OBVIOUS
    <3>1. index[items[p]] = p
      BY DEF IndexInv
    <3> QED
      BY <1>1, <1>5, <1>6, <1>7, <3>1
  <2>2. ASSUME NEW i \in Items, index'[i] # 0
        PROVE  index'[i] \in 1 .. n /\ items'[index'[i]] = i
    <3>1. CASE i = items[a]
      BY <1>5, <1>7, <3>1
    <3>2. CASE i = items[b]
      BY <1>5, <1>6, <1>7, <3>2
    <3>3. CASE i # items[a] /\ i # items[b]
      <4>1. index'[i] = index[i] /\ index[i] \in 1 .. n /\ items[index[i]] = i
        BY <1>7, <2>2, <3>3 DEF IndexInv
      <4>2. index[i] \notin {a, b}
        BY <4>1, <3>3
      <4> QED
        BY <1>5, <4>1, <4>2
    <3> QED
      BY <3>1, <3>2, <3>3
  <2> QED
    BY <1>4, <1>7, <2>1, <2>2 DEF IndexInv
<1>9. Val' = Swapped(Val, a, b)
  <2>1. Val' = [p \in 1 .. n |-> value[items'[p]]]
    BY <1>4 DEF Val
  <2>2. \A p \in 1 .. n : Val[p] = value[items[p]]
    BY DEF Val
  <2>3. Swapped(Val, a, b) =
          [p \in 1 .. n |-> IF p = b THEN Val[a] ELSE IF p = a THEN Val[b] ELSE Val[p]]
    BY DEF Swapped, Val
  <2> QED
    BY <1>5, <2>1, <2>2, <2>3
<1>10. Queue' = Queue
  <2>1. \A i \in Items : index'[i] # 0 <=> index[i] # 0
    BY <1>6, <1>7
  <2> QED
    BY <1>8, <2>1, QueueIs, QueueIsNext
<1> QED
  BY <1>4, <1>5, <1>8, <1>9, <1>10

\* Pop and Remove begin.
LEMMA SwapWithLastStep ==
  ASSUME QueueInv, pc = "idle", NEW p \in 1 .. Len(items), SwapWithLast(p), value' = value,
         \/ call' = Call("remove", items[p])
         \/ call' = Call("pop", NoItem) /\ p = 1
  PROVE  QueueInv' /\ Queue' = Queue
<1> DEFINE n == Len(items)
<1>1. IndexInv /\ n \in Nat /\ Val \in [1 .. n -> Int] /\ Order(Val, n, {})
  BY ValType DEF QueueInv, OrderInv
<1>2. p = 1 => \A q \in 1 .. n : Val[p] <= Val[q]
  BY <1>1, RootIsLeast
<1>3. call'.call \in TakeCalls
  BY DEF Call, TakeCalls
<1>4. CASE p = n
  <2>1. items' = items /\ index' = index /\ pc' = "take"
    BY <1>4 DEF SwapWithLast, Walk
  <2>2. IndexInv' /\ Val' = Val /\ Queue' = Queue
    BY <1>1, <2>1 DEF IndexInv, Val, Queue
  <2>3. TakenInv'
    BY <1>1, <1>2, <1>4, <2>1, <2>2 DEF TakenInv
  <2>4. Order(Val', n - 1, {})
    BY <1>1, <2>2 DEF Order
  <2> QED
    BY <1>3, <2>1, <2>2, <2>3, <2>4 DEF QueueInv, OrderInv
<1>5. CASE p # n
  <2>1. Swap(p, n) /\ pc' = "down" /\ at' = p /\ from' = p /\ size' = n - 1
    BY <1>5 DEF SwapWithLast, Walk
  <2>2. n \in 1 .. n /\ p \in 1 .. n - 1 /\ n - 1 \in 0 .. n
    BY <1>1, <1>5
  <2>3. /\ IndexInv' /\ Len(items') = n /\ Val' = Swapped(Val, p, n)
        /\ items'[n] = items[p] /\ Queue' = Queue
    BY <1>1, <1>5, <2>1, <2>2, SwapStep
  <2>4. \A q \in 1 .. n : Val'[q] = IF q = p THEN Val[n] ELSE IF q = n THEN Val[p] ELSE Val[q]
    BY <1>1, <2>2, <2>3 DEF Swapped
  <2>5. DownOrder(Val', n - 1, p, TRUE)
    <3>1. \A q \in 1 .. n - 1 : q # p => Val'[q] = Val[q]
      BY <1>1, <2>2, <2>4
    <3> QED
      BY <1>1, <2>2, <3>1, Replaced
  <2>6. HeapSize' = n - 1
    BY <1>3, <2>3 DEF HeapSize
  <2>7. TakenInv'
    <3>1. p = 1 => \A q \in 1 .. n : Val'[n] <= Val'[q]
      BY <1>2, <2>2, <2>4
    <3> QED
      BY <1>1, <2>2, <2>3, <3>1 DEF TakenInv
  <2>8. call'.call = "pop" => p = 1
    BY DEF Call
  <2>9. OrderInv'
    <3>1. DownOrder(Val', HeapSize', at', at' = from')
      BY <2>1, <2>5, <2>6
    <3> QED
      BY <2>1, <2>2, <2>6, <2>8, <3>1 DEF OrderInv
  <2> QED
    BY <2>3, <2>7, <2>9 DEF QueueInv
<1> QED
  BY <1>4, <1>5

\* The gap is closed.
LEMMA SettledStep ==
  ASSUME QueueInv, pc # "idle", Order(Val, HeapSize, {}), Settled,
         UNCHANGED <<items, index, value>>
  PROVE  QueueInv'
<1>1. IndexInv' /\ Val' = Val /\ Len(items') = Len(items)
  BY DEF QueueInv, IndexInv, Val
<1>2. CASE call.call \in TakeCalls
  <2>1. pc' = "take" /\ call' = call
    BY <1>2 DEF Settled, Walk, TakeCalls
  <2>2. Order(Val', Len(items') - 1, {})
    BY <1>1, <1>2 DEF HeapSize
  <2>3. TakenInv'
    BY <1>1, <1>2, <2>1 DEF TakenInv, QueueInv
  <2> QED
    BY <1>1, <1>2, <2>1, <2>2, <2>3 DEF QueueInv, OrderInv
<1>3. CASE call.call \notin TakeCalls
  <2>1. pc' = "idle"
    BY <1>3 DEF Settled, Done, TakeCalls
  <2>2. Order(Val', Len(items'), {})
    BY <1>1, <1>3 DEF HeapSize
  <2> QED
    BY <1>1, <2>1, <2>2 DEF QueueInv, OrderInv, TakenInv
<1> QED
  BY <1>2, <1>3

\* A swap within the heap does not touch what Pop or Remove will take.
LEMMA TakenKept ==
  ASSUME QueueInv, pc # "idle", NEW a \in 1 .. HeapSize, NEW b \in 1 .. HeapSize, a # b,
         Swap(a, b), value' = value, call' = call
  PROVE  /\ IndexInv' /\ TakenInv' /\ HeapSize' = HeapSize
         /\ Val' = Swapped(Val, a, b) /\ Queue' = Queue
<1> DEFINE n == Len(items)
<1>1. IndexInv /\ n \in Nat /\ Val \in [1 .. n -> Int]
  BY ValType DEF QueueInv
<1>2. HeapSize \in {n, n - 1} /\ a \in 1 .. n /\ b \in 1 .. n
  BY <1>1 DEF HeapSize
<1>3. /\ IndexInv' /\ Len(items') = n /\ Val' = Swapped(Val, a, b)
      /\ \A p \in 1 .. n : p \notin {a, b} => items'[p] = items[p]
      /\ Queue' = Queue
  BY <1>1, <1>2, SwapStep
<1>4. HeapSize' = HeapSize
  BY <1>3 DEF HeapSize
<1>5. ASSUME call.call \in TakeCalls PROVE TakenInv'
  <2>1. HeapSize = n - 1 /\ n \in 1 .. n /\ n \notin {a, b}
    BY <1>1, <1>2, <1>5 DEF HeapSize
  <2>2. items'[n] = items[n]
    BY <1>3, <2>1
  <2>3. \A p \in 1 .. n : Val'[p] = IF p = a THEN Val[b] ELSE IF p = b THEN Val[a] ELSE Val[p]
    BY <1>1, <1>2, <1>3 DEF Swapped
  <2>4. \/ call = Call("remove", items[n])
        \/ call = Call("pop", NoItem) /\ \A p \in 1 .. n : Val[n] <= Val[p]
    BY <1>5 DEF QueueInv, TakenInv
  <2>5. (\A p \in 1 .. n : Val[n] <= Val[p]) => \A p \in 1 .. n : Val'[n] <= Val'[p]
    BY <1>2, <2>1, <2>3
  <2> QED
    BY <1>3, <2>1, <2>2, <2>4, <2>5 DEF TakenInv
<1> QED
  BY <1>3, <1>4, <1>5 DEF TakenInv

\* A step of up closes the gap above it or moves it one level up; the items in
\* the heap stay the same.
LEMMA UpStep == QueueInv /\ Up => QueueInv' /\ Queue' = Queue
<1> SUFFICES ASSUME QueueInv, Up PROVE QueueInv' /\ Queue' = Queue
  OBVIOUS
<1> DEFINE n == Len(items)
           m == HeapSize
<1>1. IndexInv /\ n \in Nat /\ Val \in [1 .. n -> Int] /\ pc = "up" /\ value' = value
  BY ValType DEF QueueInv, Up
<1>2. at \in 1 .. m /\ UpOrder(Val, m, at) /\ m \in {n, n - 1}
  BY <1>1 DEF QueueInv, OrderInv, HeapSize
<1>3. m \in 0 .. n
  BY <1>1, <1>2
<1>4. at # 1 => at \in 2 .. m /\ Parent(at) = at \div 2 /\ at \div 2 \in 1 .. m /\ at \div 2 # at
  BY <1>1, <1>2, Halves DEF Parent
<1> HIDE DEF m
<1>5. at # 1 => (Less(at, Parent(at)) <=> Val[at] < Val[at \div 2])
  BY <1>1, <1>3, <1>4 DEF Less, Val
<1>6. CASE at # 1 /\ Less(at, Parent(at))
  <2>1. Swap(at, at \div 2) /\ at' = at \div 2 /\ pc' = "up" /\ call' = call
    BY <1>1, <1>4, <1>6 DEF Up
  <2>2. /\ IndexInv' /\ TakenInv' /\ HeapSize' = m /\ Val' = Swapped(Val, at, at \div 2)
        /\ Queue' = Queue
    BY <1>1, <1>2, <1>4, <1>6, <2>1, TakenKept DEF m
  <2>3. UpOrder(Val', m, at \div 2)
    BY <1>1, <1>2, <1>3, <1>4, <1>5, <1>6, <2>2, UpSwap
  <2>4. OrderInv'
    BY <1>4, <1>6, <2>1, <2>2, <2>3 DEF OrderInv
  <2> QED
    BY <2>2, <2>4 DEF QueueInv
<1>7. CASE ~(at # 1 /\ Less(at, Parent(at)))
  <2>1. Settled /\ UNCHANGED <<items, index, value>>
    BY <1>1, <1>7 DEF Up
  <2>2. at # 1 => Val[at \div 2] <= Val[at]
    <3>1. at # 1 => at \in 1 .. n /\ at \div 2 \in 1 .. n
      BY <1>1, <1>3, <1>4
    <3> QED
      BY <1>1, <1>5, <1>7, <3>1
  <2>3. Order(Val, m, {})
    BY <1>2, <2>2 DEF UpOrder, Order
  <2> QED
    BY <1>1, <2>1, <2>3, SettledStep DEF m, Queue
<1> QED
  BY <1>6, <1>7

\* A step of down closes the gap below it, moves it one level down, or leaves
\* the rest to up; the items in the heap stay the same.
LEMMA DownStep == QueueInv /\ Down => QueueInv' /\ Queue' = Queue
<1> SUFFICES ASSUME QueueInv, Down PROVE QueueInv' /\ Queue' = Queue
  OBVIOUS
<1> DEFINE n == Len(items)
           m == HeapSize
           c == Child(at)
<1>1. IndexInv /\ n \in Nat /\ Val \in [1 .. n -> Int] /\ pc = "down" /\ value' = value
  BY ValType DEF QueueInv, Down
<1>2. /\ size = m /\ at \in 1 .. m /\ from \in 1 .. at /\ m \in {n, n - 1}
      /\ call.call = "pop" => from = 1
      /\ DownOrder(Val, m, at, at = from)
  BY <1>1 DEF QueueInv, OrderInv, HeapSize
<1>3. m \in 0 .. n /\ at \in Nat
  BY <1>1, <1>2
<1> HIDE DEF m
<1>4. \A p, q \in 1 .. m : Less(p, q) <=> Val[p] < Val[q]
  BY <1>1, <1>3 DEF Less, Val
<1>5. c = IF 2 * at + 1 <= m /\ Less(2 * at + 1, 2 * at) THEN 2 * at + 1 ELSE 2 * at
  BY <1>2 DEF Child
<1>6. ASSUME 2 * at <= m
      PROVE  /\ c \in {2 * at, 2 * at + 1} /\ c \in 1 .. m /\ c > at
             /\ \A p \in {2 * at, 2 * at + 1} : p <= m => Val[c] <= Val[p]
  <2>1. c \in {2 * at, 2 * at + 1} /\ c \in 1 .. m /\ c > at
    BY <1>2, <1>3, <1>5, <1>6
  <2>2. 2 * at \in 1 .. m /\ (2 * at + 1 <= m => 2 * at + 1 \in 1 .. m)
    BY <1>2, <1>3, <1>6
  <2>3. \A p \in 1 .. m : Val[p] \in Int
    BY <1>1, <1>3
  <2> HIDE DEF c
  <2> QED
    BY <1>3, <1>4, <1>5, <1>6, <2>1, <2>2, <2>3
<1>7. CASE 2 * at <= m /\ Less(c, at)
  <2>1. Swap(at, c) /\ at' = c /\ pc' = "down" /\ call' = call /\ from' = from /\ size' = size
    BY <1>2, <1>7 DEF Down
  <2> HIDE DEF c
  <2>2. /\ IndexInv' /\ TakenInv' /\ HeapSize' = m /\ Val' = Swapped(Val, at, c)
        /\ Queue' = Queue
    BY <1>1, <1>2, <1>6, <1>7, <2>1, TakenKept DEF m
  <2>3. Val[c] < Val[at] /\ c <= m
    BY <1>2, <1>4, <1>6, <1>7
  <2>4. DownOrder(Val', m, c, FALSE)
    BY <1>1, <1>2, <1>3, <1>6, <1>7, <2>2, <2>3, DownSwap
  <2>5. from \in 1 .. c /\ (c = from) = FALSE
    BY <1>2, <1>3, <1>6, <1>7
  <2>6. DownOrder(Val', HeapSize', at', at' = from')
    BY <2>1, <2>2, <2>4, <2>5
  <2>7. OrderInv'
    BY <1>2, <1>6, <1>7, <2>1, <2>2, <2>5, <2>6 DEF OrderInv
  <2> QED
    BY <2>2, <2>7 DEF QueueInv
<1>8. CASE ~(2 * at <= m /\ Less(c, at))
  <2>1. (IF at > from THEN Settled ELSE NotMoved) /\ UNCHANGED <<items, index, value>>
    BY <1>1, <1>2, <1>8 DEF Down
  <2> HIDE DEF c
  <2>2. ASSUME NEW p \in 2 .. m, p \in {2 * at, 2 * at + 1} PROVE Val[p \div 2] <= Val[p]
    <3>1. p \div 2 = at /\ 2 * at <= m /\ p <= m
      BY <1>3, <2>2, Halves
    <3>2. ~(Val[c] < Val[at]) /\ Val[c] <= Val[p]
      BY <1>2, <1>4, <1>6, <1>8, <2>2, <3>1
    <3>3. Val[c] \in Int /\ Val[at] \in Int /\ Val[p] \in Int
      BY <1>1, <1>2, <1>3, <1>6, <3>1
    <3> QED
      BY <3>1, <3>2, <3>3
  <2>3. Order(Val, m, {at}) /\ Bridge(Val, m, at)
    BY <1>2, <2>2 DEF DownOrder, Order
  <2>4. at # from \/ at = 1 => Order(Val, m, {})
    BY <1>2, <2>2, <2>3 DEF DownOrder, Order
  <2>5. Queue' = Queue
    BY <2>1 DEF Queue
  <2>6. CASE Settled /\ (at # from \/ at = 1)
    BY <1>1, <2>1, <2>4, <2>5, <2>6, SettledStep DEF m
  <2>7. CASE Walk("up", at, 0) /\ call' = call
    <3>1. IndexInv' /\ TakenInv' /\ Val' = Val /\ HeapSize' = m
      BY <1>1, <2>1, <2>7 DEF QueueInv, IndexInv, TakenInv, Val, HeapSize, Walk, m
    <3>2. pc' = "up" /\ at' = at
      BY <2>7 DEF Walk
    <3>3. OrderInv'
      BY <1>2, <2>3, <3>1, <3>2 DEF OrderInv, UpOrder
    <3> QED
      BY <2>5, <3>1, <3>3 DEF QueueInv
  <2> QED
    BY <1>2, <1>3, <2>1, <2>6, <2>7 DEF NotMoved
<1> QED
  BY <1>7, <1>8

\* Push adds its item, and only the new last position may be out of order.
LEMMA PushStep ==
  ASSUME QueueInv, NEW i \in Items, NEW v \in Values, Push(i, v)
  PROVE  QueueInv' /\ i \notin Queue /\ Queue' = Queue \cup {i}
<1> DEFINE n == Len(items)
<1>1. /\ IndexInv /\ n \in Nat /\ Val \in [1 .. n -> Int] /\ Order(Val, n, {})
      /\ index[i] = 0 /\ v \in Int /\ n + 1 \in Nat
  BY ValType, QueueAssumption DEF QueueInv, OrderInv, Push, Idle
<1>2. /\ items' \in Seq(Items) /\ Len(items') = n + 1
      /\ \A p \in 1 .. n : items'[p] = items[p]
      /\ items'[n + 1] = i
  BY <1>1, AppendProperties DEF Push, IndexInv
<1>3. /\ index' \in [Items -> Nat] /\ value' \in [Items -> Int]
      /\ \A j \in Items : index'[j] = IF j = i THEN n + 1 ELSE index[j]
      /\ \A j \in Items : value'[j] = IF j = i THEN v ELSE value[j]
  BY <1>1 DEF Push, IndexInv
<1>4. \A p \in 1 .. n : items[p] \in Items /\ items[p] # i /\ index[items[p]] = p
  BY <1>1 DEF IndexInv
<1>5. IndexInv'
  <2>1. ASSUME NEW p \in 1 .. n + 1 PROVE index'[items'[p]] = p
    <3>1. CASE p = n + 1
      BY <1>2, <1>3, <3>1
    <3>2. CASE p # n + 1
      <4>1. p \in 1 .. n
        BY <1>1, <2>1, <3>2
      <4> QED
        BY <1>2, <1>3, <1>4, <4>1
    <3> QED
      BY <3>1, <3>2
  <2>2. ASSUME NEW j \in Items, index'[j] # 0
        PROVE  index'[j] \in 1 .. n + 1 /\ items'[index'[j]] = j
    <3>1. CASE j = i
      BY <1>1, <1>2, <1>3, <3>1
    <3>2. CASE j # i
      <4>1. index'[j] = index[j] /\ index[j] \in 1 .. n /\ items[index[j]] = j
        BY <1>1, <1>3, <2>2, <3>2 DEF IndexInv
      <4> QED
        BY <1>1, <1>2, <4>1
    <3> QED
      BY <3>1, <3>2
  <2> QED
    BY <1>2, <1>3, <2>1, <2>2 DEF IndexInv
<1>6. \A p \in 1 .. n : Val'[p] = Val[p]
  BY <1>1, <1>2, <1>3, <1>4 DEF Val
<1>7. pc' = "up" /\ at' = n + 1 /\ call'.call = "push" /\ call'.call \notin TakeCalls
  BY DEF Push, Walk, Call, TakeCalls
<1>8. HeapSize' = n + 1
  BY <1>2, <1>7 DEF HeapSize
<1>9. UpOrder(Val', n + 1, n + 1)
  <2>1. ASSUME NEW p \in 2 .. n + 1, p # n + 1 PROVE Val'[p \div 2] <= Val'[p]
    <3>1. p \in 2 .. n /\ p \div 2 \in 1 .. n /\ p \in 1 .. n
      BY <1>1, <2>1, Halves
    <3> QED
      BY <1>1, <1>6, <3>1 DEF Order
  <2>2. \A p \in 2 .. n + 1 : p \div 2 # n + 1
    BY <1>1, Halves
  <2> QED
    BY <2>1, <2>2 DEF UpOrder, Order, Bridge
<1>10. OrderInv' /\ TakenInv'
  BY <1>1, <1>7, <1>8, <1>9 DEF OrderInv, TakenInv
<1>11. i \notin Queue /\ Queue' = Queue \cup {i}
  <2>1. \A j \in Items : index'[j] # 0 <=> index[j] # 0 \/ j = i
    BY <1>1, <1>3
  <2> QED
    BY <1>1, <1>5, <2>1, QueueIs, QueueIsNext
<1> QED
  BY <1>5, <1>10, <1>11 DEF QueueInv

\* Update changes one value, and only that position may be out of order.
LEMMA UpdateStep ==
  ASSUME QueueInv, NEW i \in Items, NEW v \in Values, Update(i, v)
  PROVE  QueueInv' /\ i \in Queue /\ Queue' = Queue
<1> DEFINE n == Len(items)
           a == index[i]
<1>1. /\ IndexInv /\ n \in Nat /\ Val \in [1 .. n -> Int] /\ Order(Val, n, {})
      /\ a # 0 /\ v \in Int /\ items' = items /\ index' = index
  BY ValType, QueueAssumption DEF QueueInv, OrderInv, Update, Idle
<1>2. a \in 1 .. n /\ items[a] = i
  BY <1>1 DEF IndexInv
<1>3. /\ value' \in [Items -> Int]
      /\ \A j \in Items : j # i => value'[j] = value[j]
  BY <1>1 DEF Update, IndexInv
<1>4. \A p \in 1 .. n : p # a => items[p] \in Items /\ items[p] # i
  BY <1>1, <1>2 DEF IndexInv
<1>5. IndexInv' /\ Queue' = Queue
  BY <1>1, <1>3 DEF IndexInv, Queue
<1>6. \A p \in 1 .. n : p # a => Val'[p] = Val[p]
  BY <1>1, <1>3, <1>4 DEF Val
<1>7. pc' = "down" /\ at' = a /\ from' = a /\ size' = n
  BY DEF Update, Walk
<1>8. call'.call = "update" /\ call'.call \notin TakeCalls
  BY DEF Update, Call, TakeCalls
<1>9. HeapSize' = n
  BY <1>1, <1>8 DEF HeapSize
<1>10. n \in 0 .. n
  BY <1>1
<1> HIDE DEF a
<1>11. DownOrder(Val', n, a, TRUE)
  BY <1>1, <1>2, <1>6, <1>10, Replaced
<1>12. OrderInv'
  <2>1. DownOrder(Val', HeapSize', at', at' = from')
    BY <1>7, <1>9, <1>11
  <2> QED
    BY <1>2, <1>7, <1>8, <1>9, <2>1 DEF OrderInv
<1>13. i \in Queue
  BY <1>1, QueueIs DEF a
<1> QED
  BY <1>5, <1>8, <1>12, <1>13 DEF QueueInv, TakenInv

\* The last item leaves: for Pop it is a minimum of the queue, for Remove the
\* item it was given.
LEMMA TakeStep ==
  ASSUME QueueInv, Take
  PROVE  /\ QueueInv'
         /\ \E i \in Queue :
              /\ Queue' = Queue \ {i} /\ value' = [value EXCEPT ![i] = 0]
              /\ \/ answer' = Call("remove", i)
                 \/ answer' = Call("pop", i) /\ \A j \in Queue : value[i] <= value[j]
<1> DEFINE n == Len(items)
           i == items[n]
<1>1. /\ IndexInv /\ n \in Nat /\ Val \in [1 .. n -> Int] /\ pc = "take"
      /\ call.call \in TakeCalls /\ Order(Val, n - 1, {}) /\ n >= 1
  BY ValType DEF QueueInv, OrderInv, TakenInv, Take
<1>2. i \in Items /\ index[i] = n /\ n \in 1 .. n
  BY <1>1, SMTT(20) DEF IndexInv
<1>3. /\ items' \in Seq(Items) /\ Len(items') = n - 1
      /\ \A p \in 1 .. n - 1 : items'[p] = items[p]
  <2>1. items' = SubSeq(items, 1, n - 1) /\ \A p \in 1 .. n - 1 : items[p] \in Items
    BY <1>1 DEF Take, IndexInv
  <2> HIDE DEF n
  <2> QED
    BY <1>1, <2>1, SubSeqProperties
<1>4. index' = [index EXCEPT ![i] = 0] /\ value' = [value EXCEPT ![i] = 0] /\ pc' = "idle"
  BY DEF Take, Done
<1>5. \A p \in 1 .. n - 1 : items[p] \in Items /\ items[p] # i /\ index[items[p]] = p
  BY <1>1, <1>2 DEF IndexInv
<1>6. /\ index' \in [Items -> Nat] /\ value' \in [Items -> Int]
      /\ \A j \in Items : index'[j] = IF j = i THEN 0 ELSE index[j]
      /\ \A j \in Items : value'[j] = IF j = i THEN 0 ELSE value[j]
  BY <1>1, <1>2, <1>4 DEF IndexInv
<1>7. IndexInv'
  <2>1. \A p \in 1 .. n - 1 : index'[items'[p]] = p
    BY <1>3, <1>5, <1>6
  <2>2. ASSUME NEW j \in Items, index'[j] # 0
        PROVE  index'[j] \in 1 .. n - 1 /\ items'[index'[j]] = j
    <3>1. j # i /\ index'[j] = index[j] /\ index[j] \in 1 .. n /\ items[index[j]] = j
      BY <1>1, <1>6, <2>2 DEF IndexInv
    <3>2. index[j] # n
      BY <3>1
    <3>3. n \in Nat /\ items' \in Seq(Items) /\ \A p \in 1 .. n - 1 : items'[p] = items[p]
      BY <1>1, <1>3
    <3> HIDE DEF n, i
    <3>4. index[j] \in 1 .. n - 1
      BY <3>1, <3>2, <3>3
    <3> QED
      BY <3>1, <3>3, <3>4
  <2> HIDE DEF n
  <2> QED
    BY <1>3, <1>6, <2>1, <2>2 DEF IndexInv
<1>8. Order(Val', n - 1, {})
  <2>1. ASSUME NEW p \in 1 .. n - 1 PROVE Val'[p] = Val[p]
    <3>1. Val'[p] = value'[items'[p]]
      BY <1>3 DEF Val
    <3>2. Val[p] = value[items[p]]
      BY <1>1 DEF Val
    <3> QED
      BY <1>3, <1>5, <1>6, <3>1, <3>2
  <2>2. \A p \in 2 .. n - 1 : p \in 1 .. n - 1 /\ p \div 2 \in 1 .. n - 1
    BY <1>1, Halves
  <2> QED
    BY <1>1, <2>1, <2>2 DEF Order
<1>9. QueueInv'
  BY <1>3, <1>4, <1>7, <1>8 DEF QueueInv, OrderInv, TakenInv
<1>10. i \in Queue /\ Queue' = Queue \ {i}
  <2>2. \A j \in Items : index'[j] # 0 <=> index[j] # 0 /\ j # i
    BY <1>6
  <2>3. i \in Items /\ index[i] # 0
    BY <1>1, <1>2
  <2> HIDE DEF i
  <2> QED
    BY <1>1, <1>7, <2>2, <2>3, QueueIs, QueueIsNext
<1>11. CASE call = Call("remove", i)
  <2>1. answer' = Call("remove", i)
    BY <1>11 DEF Take, Call
  <2> QED
    BY <1>4, <1>9, <1>10, <2>1
<1>12. CASE call = Call("pop", NoItem) /\ \A p \in 1 .. n : Val[n] <= Val[p]
  <2>1. answer' = Call("pop", i)
    BY <1>12 DEF Take, Call
  <2>2. ASSUME NEW j \in Queue PROVE value[i] <= value[j]
    <3>1. index[j] \in 1 .. n /\ items[index[j]] = j
      BY <1>1, QueueIs DEF IndexInv
    <3>2. Val[index[j]] = value[j] /\ Val[n] = value[i]
      BY <1>2, <3>1 DEF Val
    <3> QED
      BY <1>12, <3>1, <3>2
  <2> QED
    BY <1>4, <1>9, <1>10, <2>1, <2>2
<1> QED
  BY <1>1, <1>11, <1>12 DEF QueueInv, TakenInv

\* What one does not see of a heap.
LEMMA QueueFrame ==
  QueueInv /\ UNCHANGED <<heapVars, walkVars>> => QueueInv' /\ Queue' = Queue
<1> SUFFICES ASSUME QueueInv, UNCHANGED <<heapVars, walkVars>>
             PROVE  QueueInv' /\ Queue' = Queue
  OBVIOUS
<1>1. UNCHANGED <<items, index, value, pc, call, at, from, size>>
  BY DEF heapVars, walkVars
<1>2. IndexInv' /\ Val' = Val /\ Queue' = Queue /\ HeapSize' = HeapSize
  BY <1>1 DEF QueueInv, IndexInv, Val, Queue, HeapSize
<1>3. TakenInv' /\ OrderInv'
  BY <1>1, <1>2 DEF QueueInv, TakenInv, OrderInv
<1> QED
  BY <1>2, <1>3 DEF QueueInv

\* Every step keeps the order of the heap, and is one of MinQueue or none.
LEMMA QueueStep ==
  ASSUME QueueInv, [QueueNext]_queueVars
  PROVE  QueueInv' /\ [Abstract!Next]_(Abstract!vars)
<1> USE DEF Call, Abstract!Answer, Abstract!Nothing, Nothing
<1>1. ASSUME QueueInv', Queue' = Queue, UNCHANGED <<value, answer>>
      PROVE  QueueInv' /\ UNCHANGED Abstract!vars
  BY <1>1 DEF Abstract!vars, Queue
<1>2. IndexInv
  BY DEF QueueInv
<1>3. ASSUME NEW i \in Items, NEW v \in Values, Push(i, v)
      PROVE  QueueInv' /\ Abstract!Next
  <2>1. QueueInv' /\ i \notin Queue /\ Queue' = Queue \cup {i}
    BY <1>3, PushStep
  <2>2. Abstract!Push(i, v)
    BY <1>3, <2>1 DEF Push, Abstract!Push, Queue
  <2> QED
    BY <2>1, <2>2 DEF Abstract!Next
<1>4. ASSUME NEW i \in Items, NEW v \in Values, Update(i, v)
      PROVE  QueueInv' /\ Abstract!Next
  <2>1. QueueInv' /\ i \in Queue /\ Queue' = Queue
    BY <1>4, UpdateStep
  <2>2. Abstract!Update(i, v)
    BY <1>4, <2>1 DEF Update, Abstract!Update, Queue
  <2> QED
    BY <2>1, <2>2 DEF Abstract!Next
<1>5. ASSUME NEW i \in Items, Remove(i) PROVE QueueInv' /\ Abstract!Next
  <2>1. index[i] \in 1 .. Len(items) /\ items[index[i]] = i
    BY <1>2, <1>5 DEF IndexInv, Remove
  <2>2. QueueInv' /\ Queue' = Queue
    BY <1>5, <2>1, SwapWithLastStep DEF Remove, Idle
  <2>3. Abstract!Begin
    BY <1>5, <2>2 DEF Remove, Abstract!Begin, Queue
  <2> QED
    BY <2>2, <2>3 DEF Abstract!Next
<1>6. CASE Pop
  <2>1. 1 \in 1 .. Len(items)
    BY <1>2, <1>6 DEF IndexInv, Pop
  <2>2. QueueInv' /\ Queue' = Queue
    BY <1>6, <2>1, SwapWithLastStep DEF Pop
  <2>3. Abstract!Begin
    BY <1>6, <2>2 DEF Pop, Abstract!Begin, Queue
  <2> QED
    BY <2>2, <2>3 DEF Abstract!Next
<1>7. CASE PopNothing
  <2>1. QueueInv' /\ Queue' = Queue /\ value' = value
    BY <1>7, QueueFrame DEF PopNothing, heapVars
  <2>2. Queue = {}
    BY <1>7 DEF PopNothing, Queue
  <2>3. Abstract!PopNothing
    BY <1>7, <2>1, <2>2 DEF PopNothing, Abstract!PopNothing, Queue
  <2> QED
    BY <2>1, <2>3 DEF Abstract!Next
<1>8. CASE Peek
  <2>1. QueueInv' /\ Queue' = Queue /\ value' = value
    BY <1>8, QueueFrame DEF Peek, heapVars
  <2>2. CASE items = << >>
    <3>1. Queue = {} /\ answer' = Call("peek", NoItem)
      BY <1>8, <2>2 DEF Peek, Queue
    <3>2. Abstract!Peek
      BY <2>1, <3>1 DEF Abstract!Peek, Queue
    <3> QED
      BY <2>1, <3>2 DEF Abstract!Next
  <2>3. CASE items # << >>
    <3>1. 1 \in 1 .. Len(items) /\ DOMAIN items = 1 .. Len(items)
      BY <1>2, <2>3 DEF IndexInv
    <3>2. items[1] \in Queue /\ Queue # {} /\ answer' = Call("peek", items[1])
      BY <1>8, <2>3, <3>1 DEF Peek, Queue
    <3>3. ASSUME NEW j \in Queue PROVE value[items[1]] <= value[j]
      <4>1. index[j] \in 1 .. Len(items) /\ items[index[j]] = j
        BY <1>2, QueueIs DEF IndexInv
      <4>2. Order(Val, Len(items), {})
        BY <1>8 DEF Peek, Idle, QueueInv, OrderInv
      <4>3. Val[1] <= Val[index[j]]
        BY <1>2, <4>1, <4>2, ValType, RootIsLeast
      <4> QED
        BY <3>1, <4>1, <4>3 DEF Val
    <3>4. items[1] \in Abstract!Minima
      BY <3>2, <3>3 DEF Abstract!Minima, Queue
    <3>5. Abstract!Peek
      BY <2>1, <3>2, <3>4 DEF Abstract!Peek, Queue
    <3> QED
      BY <2>1, <3>5 DEF Abstract!Next
  <2> QED
    BY <2>2, <2>3
<1>9. CASE Clear
  <2>1. QueueInv' /\ Queue' = Queue /\ value' = value
    BY <1>9, QueueFrame DEF Clear, heapVars
  <2>2. Abstract!Begin
    BY <1>9, <2>1 DEF Clear, Abstract!Begin, Queue
  <2> QED
    BY <2>1, <2>2 DEF Abstract!Next
<1>10. CASE Up
  BY <1>1, <1>10, UpStep DEF Up
<1>11. CASE Down
  BY <1>1, <1>11, DownStep DEF Down
<1>12. CASE Take
  <2>1. QueueInv'
    BY <1>12, TakeStep
  <2>2. PICK i \in Queue :
          /\ Queue' = Queue \ {i} /\ value' = [value EXCEPT ![i] = 0]
          /\ \/ answer' = Call("remove", i)
             \/ answer' = Call("pop", i) /\ \A j \in Queue : value[i] <= value[j]
    BY <1>12, TakeStep
  <2>3. i \in Items
    BY <1>2, QueueIs
  <2>4. CASE answer' = Call("remove", i)
    <3>1. Abstract!Remove(i)
      BY <2>2, <2>4 DEF Abstract!Remove, Abstract!Leaves, Queue
    <3> QED
      BY <2>1, <2>3, <3>1 DEF Abstract!Next
  <2>5. CASE answer' = Call("pop", i) /\ \A j \in Queue : value[i] <= value[j]
    <3>1. i \in Abstract!Minima
      BY <2>2, <2>5 DEF Abstract!Minima, Queue
    <3>2. Abstract!Pop
      BY <2>2, <2>5, <3>1 DEF Abstract!Pop, Abstract!Leaves, Queue
    <3> QED
      BY <2>1, <3>2 DEF Abstract!Next
  <2> QED
    BY <2>2, <2>4, <2>5
<1>13. CASE UNCHANGED queueVars
  <2>1. UNCHANGED <<heapVars, walkVars>> /\ UNCHANGED <<value, answer>>
    BY <1>13 DEF queueVars, heapVars
  <2> QED
    BY <1>1, <2>1, QueueFrame
<1> QED
  BY <1>3, <1>4, <1>5, <1>6, <1>7, <1>8, <1>9, <1>10, <1>11, <1>12, <1>13 DEF QueueNext

\* PrioQueue implements MinQueue: Pop and Peek give a minimum, Remove the
\* item it was given, whatever the calls before and however many items.
THEOREM HeapImplementsMinQueue == QueueSpec => ImplementsMinQueue
<1>1. QueueInit => QueueInv /\ Abstract!Init
  <2> SUFFICES ASSUME QueueInit PROVE QueueInv /\ Abstract!Init
    OBVIOUS
  <2>1. items = << >> /\ Len(items) = 0 /\ Queue = {}
    BY DEF QueueInit, Queue
  <2>2. IndexInv
    BY <2>1 DEF QueueInit, IndexInv
  <2>3. TakenInv /\ OrderInv
    BY <2>1 DEF QueueInit, TakenInv, OrderInv, Order
  <2>4. Abstract!Init
    BY <2>1 DEF QueueInit, Abstract!Init, Queue, Nothing, Call,
       Abstract!Nothing, Abstract!Answer
  <2> QED
    BY <2>2, <2>3, <2>4 DEF QueueInv
<1>2. QueueInv /\ [QueueNext]_queueVars => QueueInv' /\ [Abstract!Next]_(Abstract!vars)
  BY QueueStep
<1> QED
  BY <1>1, <1>2, PTL DEF QueueSpec, ImplementsMinQueue, Abstract!Spec

-----------------------------------------------------------------------------
(* UniqueName                                                              *)

\* What names are made of.
Graphemes == {"x", "wide", "dot", "old", "s", "short", "long", "time"}

\* Every grapheme has bytes.
LEMMA BytesType == \A g \in Graphemes : Bytes[g] \in Nat
BY NameAssumption DEF Graphemes, Bytes

\* The greatest of some positions.
LEMMA MaxIs == 
  ASSUME NEW n \in Nat, NEW S, S \subseteq 1 .. n, S # {}
  PROVE  Max(S) \in S /\ \A y \in S : y <= Max(S)
<1> DEFINE T == {n - x : x \in S}
<1>1. T \subseteq Nat /\ T # {}
  <2>1. \A x \in S : n - x \in Nat
    OBVIOUS
  <2> QED
    BY <2>1
<1>2. PICK p \in T : \A y \in T : p <= y
  <2> HIDE DEF T
  <2> QED
  BY <1>1, Least
<1>3. \E x \in S : \A y \in S : x >= y
  <2>1. PICK x \in S : p = n - x
    BY <1>2
  <2>2. \A y \in S : n - x <= n - y
    BY <1>2, <2>1
  <2>3. \A y \in S : x \in Int /\ y \in Int
    <3>1. \A y \in 1 .. n : y \in Int
      OBVIOUS
    <3> QED
      BY <3>1
  <2>4. \A y \in S : x >= y
    BY <2>2, <2>3
  <2> QED
    BY <2>4
<1> QED
  BY <1>3 DEF Max

\* The first position is the least one.
LEMMA MinIsOne == 
  ASSUME NEW n \in Nat, NEW S, S \subseteq 1 .. n, 1 \in S
  PROVE  Min(S) = 1
<1>1. \A y \in S : 1 =< y
  OBVIOUS
<1>2. Min(S) \in S /\ Min(S) =< 1
  BY <1>1 DEF Min
<1>3. Min(S) \in 1 .. n
  BY <1>2
<1> QED
  BY <1>2, <1>3

\* f[n] is the size of the first n graphemes.
IsSums(name, f) ==
  /\ f \in [0 .. Len(name) -> Nat]
  /\ f[0] = 0
  /\ \A n \in 1 .. Len(name) : f[n] = f[n - 1] + Bytes[name[n]]

\* The size of a name is the last of its sums: a least position at which two
\* sums differ would be the one behind a position at which they do not.
LEMMA SizeIs ==
  ASSUME NEW name \in Seq(Graphemes), NEW f, IsSums(name, f)
  PROVE  Size(name) = f[Len(name)]
<1> DEFINE Rec(g) == g = [n \in 0 .. Len(name) |-> IF n = 0 THEN 0 ELSE g[n - 1] + Bytes[name[n]]]
           u == CHOOSE g : Rec(g)
<1>1. Size(name) = u[Len(name)]
  BY DEF Size
<1>2. Rec(f)
  BY DEF IsSums
<1>3. Rec(u)
  BY <1>2
<1>4. ASSUME NEW k \in 0 .. Len(name), u[k] # f[k] PROVE FALSE
  <2> DEFINE T == {n \in 0 .. Len(name) : u[n] # f[n]}
  <2>1. T \subseteq Nat /\ T # {}
    <3>1. k \in T
      BY <1>4
    <3>2. 0 .. Len(name) \subseteq Nat /\ T \subseteq 0 .. Len(name)
      OBVIOUS
    <3> HIDE DEF T
    <3> QED
      BY <3>1, <3>2
  <2>2. PICK p \in T : \A y \in T : p <= y
    <3> HIDE DEF T
    <3> QED
    BY <2>1, Least
  <2>3. p \in 0 .. Len(name) /\ u[p] # f[p]
    BY <2>2 DEF T
  <2>a. Len(name) \in Nat
    OBVIOUS
  <2>b. \A n \in 0 .. Len(name) : u[n] = IF n = 0 THEN 0 ELSE u[n - 1] + Bytes[name[n]]
    <3> DEFINE w == [n \in 0 .. Len(name) |-> IF n = 0 THEN 0 ELSE u[n - 1] + Bytes[name[n]]]
    <3>1. u = w
      BY <1>3
    <3>2. \A n \in 0 .. Len(name) : w[n] = IF n = 0 THEN 0 ELSE u[n - 1] + Bytes[name[n]]
      OBVIOUS
    <3> HIDE DEF u, w
    <3> QED
      BY <3>1, <3>2
  <2> HIDE DEF u, T
  <2>4. u[0] = 0 /\ f[0] = 0
    BY <2>a, <2>b DEF IsSums
  <2>5. p - 1 \in 0 .. Len(name) /\ p \in 1 .. Len(name)
    BY <2>3, <2>4
  <2>6. u[p - 1] = f[p - 1]
    BY <2>2, <2>5 DEF T
  <2>7. u[p] = u[p - 1] + Bytes[name[p]]
    BY <2>5, <2>b
  <2> QED
    BY <2>3, <2>5, <2>6, <2>7 DEF IsSums
<1> QED
  BY <1>1, <1>4

\* Every name has sums.
LEMMA SumsExist ==
  ASSUME NEW name \in Seq(Graphemes)
  PROVE  \E f : IsSums(name, f)
<1> DEFINE Upto(n, f) ==
             /\ f \in [0 .. n -> Nat] /\ f[0] = 0
             /\ \A k \in 1 .. n : f[k] = f[k - 1] + Bytes[name[k]]
           T == {n \in 0 .. Len(name) : ~ \E f : Upto(n, f)}
<1>1. CASE T = {}
  <2>1. Len(name) \in 0 .. Len(name)
    OBVIOUS
  <2>2. \E f : Upto(Len(name), f)
    BY <1>1, <2>1
  <2> QED
    BY <2>2 DEF IsSums
<1>2. CASE T # {}
  <2>1. PICK p \in T : \A y \in T : p <= y
    <3>1. T \subseteq Nat
      OBVIOUS
    <3> HIDE DEF T
    <3> QED
      BY <1>2, <3>1, Least
  <2>2. p \in 0 .. Len(name) /\ Len(name) \in Nat
    OBVIOUS
  <2>3. p # 0
    <3>1. Upto(0, [n \in 0 .. 0 |-> 0])
      OBVIOUS
    <3> HIDE DEF Upto
    <3> QED
      BY <3>1
  <2>4. p - 1 \in 0 .. Len(name) /\ p - 1 < p /\ p \in 1 .. Len(name)
    BY <2>2, <2>3
  <2>5. p - 1 \notin T
    <3> HIDE DEF T
    <3> QED
      BY <2>1, <2>2, <2>4
  <2>6. PICK f : Upto(p - 1, f)
    BY <2>4, <2>5
  <2> DEFINE g == [n \in 0 .. p |-> IF n = p THEN f[p - 1] + Bytes[name[p]] ELSE f[n]]
  <2>7. Bytes[name[p]] \in Nat
    BY <2>4, BytesType
  <2>8. Upto(p, g)
    <3>1. \A n \in 0 .. p : g[n] = IF n = p THEN f[p - 1] + Bytes[name[p]] ELSE f[n]
      OBVIOUS
    <3>2. f \in [0 .. p - 1 -> Nat] /\ f[0] = 0
          /\ \A k \in 1 .. p - 1 : f[k] = f[k - 1] + Bytes[name[k]]
      BY <2>6
    <3>3. \A n \in 0 .. p : n # p => n \in 0 .. p - 1
      BY <2>2
    <3>4. g \in [0 .. p -> Nat]
      BY <2>2, <2>4, <2>7, <3>2, <3>3
    <3>5. g[0] = 0
      BY <2>2, <2>3, <3>1, <3>2
    <3>6. ASSUME NEW k \in 1 .. p PROVE g[k] = g[k - 1] + Bytes[name[k]]
      <4>1. k - 1 \in 0 .. p /\ k - 1 # p /\ k \in 0 .. p /\ (k # p => k \in 1 .. p - 1)
        BY <2>2
      <4> HIDE DEF g
      <4> QED
        BY <3>1, <3>2, <4>1
    <3> HIDE DEF g
    <3> QED
      BY <3>4, <3>5, <3>6
  <2> HIDE DEF Upto, g
  <2> QED
    BY <2>1, <2>8
<1> QED
  BY <1>1, <1>2

\* The size of a name is a natural number.
LEMMA SizeType == \A name \in Seq(Graphemes) : Size(name) \in Nat
<1> SUFFICES ASSUME NEW name \in Seq(Graphemes) PROVE Size(name) \in Nat
  OBVIOUS
<1>1. PICK f : IsSums(name, f)
  BY SumsExist
<1>2. f \in [0 .. Len(name) -> Nat] /\ Len(name) \in 0 .. Len(name)
  BY <1>1 DEF IsSums
<1> QED
  BY <1>1, <1>2, SizeIs

\* Sizes add up.
LEMMA SizeConcat ==
  ASSUME NEW s \in Seq(Graphemes), NEW t \in Seq(Graphemes)
  PROVE  s \o t \in Seq(Graphemes) /\ Size(s \o t) = Size(s) + Size(t)
<1>1. PICK f : IsSums(s, f)
  BY SumsExist
<1>2. PICK g : IsSums(t, g)
  BY SumsExist
<1> DEFINE a == Len(s)
           b == Len(t)
           h == [n \in 0 .. a + b |-> IF n <= a THEN f[n] ELSE f[a] + g[n - a]]
<1>3. /\ s \o t \in Seq(Graphemes) /\ Len(s \o t) = a + b /\ a \in Nat /\ b \in Nat
      /\ \A n \in 1 .. a + b : (s \o t)[n] = IF n <= a THEN s[n] ELSE t[n - a]
  OBVIOUS
<1>4. /\ f \in [0 .. a -> Nat] /\ f[0] = 0
      /\ \A n \in 1 .. a : f[n] = f[n - 1] + Bytes[s[n]]
  BY <1>1 DEF IsSums
<1>5. /\ g \in [0 .. b -> Nat] /\ g[0] = 0
      /\ \A n \in 1 .. b : g[n] = g[n - 1] + Bytes[t[n]]
  BY <1>2 DEF IsSums
<1> HIDE DEF a, b
<1>6. \A n \in 0 .. a + b : h[n] = IF n <= a THEN f[n] ELSE f[a] + g[n - a]
  OBVIOUS
<1>7. h \in [0 .. a + b -> Nat]
  <2>1. ASSUME NEW n \in 0 .. a + b PROVE (IF n <= a THEN f[n] ELSE f[a] + g[n - a]) \in Nat
    <3>1. n <= a => n \in 0 .. a
      BY <1>3
    <3>2. ~(n <= a) => n - a \in 0 .. b
      BY <1>3
    <3>3. a \in 0 .. a
      BY <1>3
    <3> QED
      BY <1>4, <1>5, <3>1, <3>2, <3>3
  <2> QED
    BY <2>1
<1> HIDE DEF h
<1>8. h[0] = 0
  <2>1. 0 \in 0 .. a + b /\ 0 <= a
    BY <1>3
  <2> QED
    BY <1>4, <1>6, <2>1
<1>9. ASSUME NEW n \in 1 .. a + b PROVE h[n] = h[n - 1] + Bytes[(s \o t)[n]]
  <2>1. n \in 0 .. a + b /\ n - 1 \in 0 .. a + b
    BY <1>3
  <2>2. CASE n <= a
    <3>1. n \in 1 .. a /\ n - 1 <= a
      BY <1>3, <2>2
    <3> QED
      BY <1>3, <1>4, <1>6, <2>1, <2>2, <3>1
  <2>3. CASE ~(n <= a)
    <3>1. n - a \in 1 .. b /\ (n - a) - 1 = (n - 1) - a
      BY <1>3, <2>3
    <3>2. h[n] = f[a] + g[n - a] /\ g[n - a] = g[(n - 1) - a] + Bytes[t[n - a]]
      BY <1>5, <1>6, <2>1, <2>3, <3>1
    <3>3. h[n - 1] = f[a] + g[(n - 1) - a]
      <4>1. CASE n - 1 <= a
        <5>1. n - 1 = a /\ (n - 1) - a = 0
          BY <1>3, <2>3, <4>1
        <5>2. f[a] \in Nat
          BY <1>3, <1>4
        <5> QED
          BY <1>5, <1>6, <2>1, <5>1, <5>2
      <4>2. CASE ~(n - 1 <= a)
        BY <1>6, <2>1, <4>2
      <4> QED
        BY <4>1, <4>2
    <3>4. (s \o t)[n] = t[n - a]
      BY <1>3, <2>3
    <3>5. f[a] \in Nat /\ g[(n - 1) - a] \in Nat /\ Bytes[t[n - a]] \in Nat
      <4>1. (n - 1) - a \in 0 .. b /\ a \in 0 .. a
        BY <1>3, <3>1
      <4>2. t[n - a] \in Graphemes
        BY <3>1 DEF b
      <4> QED
        BY <1>4, <1>5, <4>1, <4>2, BytesType
    <3> QED
      BY <3>2, <3>3, <3>4, <3>5
  <2> QED
    BY <2>2, <2>3
<1>10. IsSums(s \o t, h)
  BY <1>3, <1>7, <1>8, <1>9 DEF IsSums
<1>11. Size(s \o t) = h[a + b] /\ Size(s) = f[a] /\ Size(t) = g[b]
  <2>1. Size(s \o t) = h[Len(s \o t)]
    BY <1>3, <1>10, SizeIs
  <2> QED
    BY <1>1, <1>2, <1>3, <2>1, SizeIs DEF a, b
<1>12. h[a + b] = f[a] + g[b]
  <2>1. a + b \in 0 .. a + b /\ (a + b <= a => b = 0) /\ (a + b) - a = b
    BY <1>3
  <2>2. f[a] \in Nat
    BY <1>3, <1>4
  <2>3. CASE b = 0
    <3>1. a + b = a
      BY <1>3, <2>3
    <3> QED
      BY <1>3, <1>5, <1>6, <2>1, <2>2, <2>3, <3>1
  <2>4. CASE b # 0
    BY <1>6, <2>1, <2>4
  <2> QED
    BY <2>3, <2>4
<1> QED
  BY <1>3, <1>11, <1>12

\* Sizes of the pieces that candidates are made of.
LEMMA SizeEmpty == << >> \in Seq(Graphemes) /\ Size(<< >>) = 0
<1> DEFINE e == << >>
           f == [n \in 0 .. 0 |-> 0]
<1>1. e \in Seq(Graphemes) /\ Len(e) = 0
  OBVIOUS
<1>2. IsSums(e, f)
  BY <1>1 DEF IsSums
<1>3. f[Len(e)] = 0
  BY <1>1
<1> HIDE DEF e, f
<1>4. Size(e) = 0
  BY <1>1, <1>2, <1>3, SizeIs
<1> QED
  BY <1>1, <1>4 DEF e

\* One grapheme.
LEMMA SizeOne ==
  ASSUME NEW u \in Graphemes
  PROVE  <<u>> \in Seq(Graphemes) /\ Size(<<u>>) = Bytes[u]
<1> DEFINE e == <<u>>
           f == [n \in 0 .. 1 |-> IF n = 0 THEN 0 ELSE Bytes[u]]
<1>1. e \in Seq(Graphemes) /\ Len(e) = 1 /\ e[1] = u /\ Bytes[u] \in Nat
  BY BytesType
<1>2. f \in [0 .. 1 -> Nat] /\ f[0] = 0 /\ f[1] = Bytes[u]
  BY <1>1
<1> HIDE DEF e, f
<1>3. ASSUME NEW n \in 1 .. 1 PROVE f[n] = f[n - 1] + Bytes[e[n]]
  <2>1. n = 1 /\ n - 1 = 0
    OBVIOUS
  <2> QED
    BY <1>1, <1>2, <2>1
<1>4. IsSums(e, f)
  BY <1>1, <1>2, <1>3 DEF IsSums
<1>5. Size(e) = Bytes[u]
  BY <1>1, <1>2, <1>4, SizeIs
<1> QED
  BY <1>1, <1>5 DEF e

\* The time stamp, if there is one.
LEMMA StampSize == 
  Stamp \in Seq(Graphemes) /\ Len(Stamp) = (IF stamped THEN StampLength ELSE 0)
  /\ Size(Stamp) = Len(Stamp) /\ \A n \in 1 .. Len(Stamp) : Stamp[n] = "s"
<1>1. CASE stamped
  <2> DEFINE e == [n \in 1 .. StampLength |-> "s"]
             f == [n \in 0 .. StampLength |-> n]
  <2>1. /\ e \in Seq(Graphemes) /\ Len(e) = StampLength /\ StampLength \in Nat
        /\ \A n \in 1 .. StampLength : e[n] = "s"
    BY NameAssumption DEF Graphemes
  <2>2. f \in [0 .. StampLength -> Nat] /\ \A n \in 0 .. StampLength : f[n] = n
    OBVIOUS
  <2>3. Stamp = e
    BY <1>1 DEF Stamp
  <2> HIDE DEF e, f
  <2>4. ASSUME NEW n \in 1 .. StampLength PROVE f[n] = f[n - 1] + Bytes[e[n]]
    <3>1. n - 1 \in 0 .. StampLength /\ n \in 0 .. StampLength
      BY <2>1
    <3>2. Bytes[e[n]] = 1
      BY <2>1 DEF Bytes
    <3> QED
      BY <2>2, <3>1, <3>2
  <2>5. IsSums(e, f)
    BY <2>1, <2>2, <2>4 DEF IsSums
  <2> QED
    BY <1>1, <2>1, <2>2, <2>3, <2>5, SizeIs
<1>2. CASE ~stamped
  BY <1>2, SizeEmpty DEF Stamp
<1> QED
  BY <1>1, <1>2

\* What is cut off: as little of the prefix as possible, and nothing of what
\* comes behind it if there is room for that.
LEMMA Combined ==
  ASSUME NEW prefix \in Seq(Graphemes), NEW middle \in Seq(Graphemes),
         NEW suffix \in Seq(Graphemes), NEW m \in Nat,
         Size(middle) + Size(suffix) <= m,
         NEW made, made = combineWithMaxLen(prefix, middle, suffix, m)
  PROVE  /\ made \in Seq(Graphemes) /\ Size(made) <= m
         /\ \E k \in 0 .. Len(prefix) :
              /\ made = SubSeq(prefix, 1, k) \o middle \o suffix
              /\ \A j \in 1 .. Len(prefix) :
                   Size(SubSeq(prefix, 1, j)) + Size(middle) + Size(suffix) <= m => j <= k
<1> DEFINE cut == {n \in 1 .. Len(prefix) :
                     Size(SubSeq(prefix, 1, n)) + Size(middle) + Size(suffix) <= m}
           k == IF cut = {} THEN 0 ELSE Max(cut)
           head == IF cut = {} THEN << >> ELSE SubSeq(prefix, 1, Max(cut))
           starts == {n \in 1 .. Len(suffix) :
                        Size(head) + Size(middle) + Size(SubSeq(suffix, n, Len(suffix))) <= m}
           tail == IF starts = {} THEN << >> ELSE SubSeq(suffix, Min(starts), Len(suffix))
           c == head \o middle \o tail
<1>1. made = c
  BY DEF combineWithMaxLen
<1>2. Len(prefix) \in Nat /\ Len(suffix) \in Nat
  OBVIOUS
<1>3. k \in 0 .. Len(prefix) /\ (k = 0 \/ k \in cut) /\ \A j \in cut : j <= k
  <2>1. CASE cut = {}
    BY <1>2, <2>1
  <2>2. CASE cut # {}
    <3>1. cut \subseteq 1 .. Len(prefix)
      OBVIOUS
    <3>2. k = Max(cut)
      BY <2>2
    <3> HIDE DEF cut, k
    <3>3. Max(cut) \in cut /\ \A j \in cut : j <= Max(cut)
      BY <1>2, <2>2, <3>1, MaxIs
    <3>4. k \in cut /\ \A j \in cut : j <= k
      BY <3>2, <3>3
    <3>5. \A j \in 1 .. Len(prefix) : j \in 0 .. Len(prefix)
      BY <1>2
    <3> QED
      BY <3>1, <3>4, <3>5
  <2> QED
    BY <2>1, <2>2
<1>4. head = SubSeq(prefix, 1, k) /\ head \in Seq(Graphemes)
  <2>1. CASE cut = {}
    <3>1. SubSeq(prefix, 1, 0) = << >>
      OBVIOUS
    <3> QED
      BY <2>1, <3>1
  <2>2. CASE cut # {}
    <3>1. head = SubSeq(prefix, 1, k)
      BY <2>2
    <3> HIDE DEF head, k, cut
    <3> QED
      BY <1>2, <1>3, <3>1
  <2> QED
    BY <2>1, <2>2
<1>5. Size(head) + Size(middle) + Size(suffix) <= m
  <2>1. CASE k = 0
    <3>1. SubSeq(prefix, 1, 0) = << >>
      OBVIOUS
    <3> HIDE DEF head, k
    <3>2. head = << >>
      BY <1>4, <2>1, <3>1
    <3> QED
      BY <3>2, SizeEmpty, SizeType
  <2>2. CASE k \in cut
    <3> HIDE DEF head, k
    <3> QED
      BY <1>4, <2>2
  <2> QED
    BY <1>3, <2>1, <2>2
<1>6. tail = suffix
  <2>1. CASE Len(suffix) = 0
    <3>1. starts = {} /\ suffix = << >>
      BY <2>1
    <3> QED
      BY <3>1
  <2>2. CASE Len(suffix) # 0
    <3>1. SubSeq(suffix, 1, Len(suffix)) = suffix /\ 1 \in 1 .. Len(suffix)
      BY <1>2, <2>2
    <3>2. 1 \in starts
      <4> HIDE DEF head
      <4> QED
        BY <1>5, <3>1
    <3>3. starts \subseteq 1 .. Len(suffix)
      OBVIOUS
    <3>4. Min(starts) = 1
      <4> HIDE DEF starts
      <4> QED
        BY <1>2, <3>2, <3>3, MinIsOne
    <3> HIDE DEF starts
    <3> QED
      BY <3>1, <3>2, <3>4
  <2> QED
    BY <2>1, <2>2
<1> HIDE DEF head, tail, k
<1>7. c \in Seq(Graphemes) /\ Size(c) = Size(head) + Size(middle) + Size(suffix)
  <2>1. head \o middle \in Seq(Graphemes) /\ Size(head \o middle) = Size(head) + Size(middle)
    BY <1>4, SizeConcat
  <2>2. c = (head \o middle) \o suffix
    BY <1>6
  <2> HIDE DEF c
  <2> QED
    BY <2>1, <2>2, SizeConcat
<1>8. c = SubSeq(prefix, 1, k) \o middle \o suffix
  BY <1>4, <1>6
<1>9. \A j \in 1 .. Len(prefix) :
        Size(SubSeq(prefix, 1, j)) + Size(middle) + Size(suffix) <= m => j <= k
  BY <1>3
<1> HIDE DEF c, cut
<1> QED
  BY <1>1, <1>3, <1>5, <1>7, <1>8, <1>9

\* What is left of a name without the " (hex)" of earlier moves.
LEMMA WithoutOldType ==
  ASSUME NEW name \in Seq(Graphemes)
  PROVE  WithoutOld(name) \in Seq(Graphemes)
<1> DEFINE Without(s, g) == IF g = "old" THEN s ELSE Append(s, g)
           Upto(n, f) ==
             /\ f \in [0 .. n -> Seq(Graphemes)] /\ f[0] = << >>
             /\ \A j \in 1 .. n : f[j] = Without(f[j - 1], name[j])
           T == {n \in 0 .. Len(name) : ~ \E f : Upto(n, f)}
<1>a. Len(name) \in Nat
  OBVIOUS
<1>1. T = {}
  <2> SUFFICES ASSUME T # {} PROVE FALSE
    OBVIOUS
  <2>1. PICK p \in T : \A y \in T : p <= y
    <3>1. T \subseteq Nat
      OBVIOUS
    <3> HIDE DEF T
    <3> QED
      BY <3>1, Least
  <2>2. p \in 0 .. Len(name)
    OBVIOUS
  <2>3. p # 0
    <3>1. Upto(0, [n \in 0 .. 0 |-> << >>])
      OBVIOUS
    <3> HIDE DEF Upto
    <3> QED
      BY <3>1
  <2>4. p - 1 \in 0 .. Len(name) /\ p - 1 < p /\ p \in 1 .. Len(name)
    BY <1>a, <2>2, <2>3
  <2>5. p - 1 \notin T
    <3> HIDE DEF T
    <3> QED
      BY <2>1, <2>2, <2>4
  <2>6. PICK f : Upto(p - 1, f)
    BY <2>4, <2>5
  <2> DEFINE v == Without(f[p - 1], name[p])
             g == [n \in 0 .. p |-> IF n = p THEN v ELSE f[n]]
  <2>7. f \in [0 .. p - 1 -> Seq(Graphemes)] /\ f[0] = << >>
        /\ \A j \in 1 .. p - 1 : f[j] = Without(f[j - 1], name[j])
    BY <2>6
  <2>8. v \in Seq(Graphemes)
    <3>1. f[p - 1] \in Seq(Graphemes) /\ name[p] \in Graphemes
      BY <2>2, <2>4, <2>7
    <3> QED
      BY <3>1
  <2>9. \A n \in 0 .. p : g[n] = IF n = p THEN v ELSE f[n]
    OBVIOUS
  <2>10. \A n \in 0 .. p : n # p => n \in 0 .. p - 1
    BY <2>2
  <2>11. g \in [0 .. p -> Seq(Graphemes)]
    <3> HIDE DEF v
    <3> QED
      BY <2>7, <2>8, <2>10
  <2> HIDE DEF g, Without
  <2>12. g[0] = << >>
    BY <2>2, <2>3, <2>7, <2>9
  <2>13. ASSUME NEW j \in 1 .. p PROVE g[j] = Without(g[j - 1], name[j])
    <3>1. j - 1 \in 0 .. p /\ j - 1 # p /\ j \in 0 .. p /\ (j # p => j \in 1 .. p - 1)
      BY <2>2
    <3>2. g[j - 1] = f[j - 1]
      BY <2>9, <3>1
    <3>3. CASE j = p
      BY <2>9, <3>1, <3>2, <3>3
    <3>4. CASE j # p
      BY <2>7, <2>9, <3>1, <3>2, <3>4
    <3> QED
      BY <3>3, <3>4
  <2>14. Upto(p, g)
    BY <2>11, <2>12, <2>13
  <2> HIDE DEF Upto
  <2> QED
    BY <2>1, <2>14
<1>2. PICK f : Upto(Len(name), f)
  <2>1. Len(name) \in 0 .. Len(name)
    BY <1>a
  <2> HIDE DEF Upto
  <2> QED
    BY <1>1, <2>1
<1> DEFINE Rec(h) == h = [n \in 0 .. Len(name) |->
                            IF n = 0 THEN << >>
                            ELSE IF name[n] = "old" THEN h[n - 1] ELSE Append(h[n - 1], name[n])]
           u == CHOOSE h : Rec(h)
<1>3. WithoutOld(name) = u[Len(name)]
  BY DEF WithoutOld
<1>4. Rec(f)
  <2>1. f \in [0 .. Len(name) -> Seq(Graphemes)]
    BY <1>2
  <2>2. \A n \in 0 .. Len(name) : f[n] = IF n = 0 THEN << >> ELSE
                                  IF name[n] = "old" THEN f[n - 1] ELSE Append(f[n - 1], name[n])
    <3>1. \A n \in 0 .. Len(name) : n # 0 => n \in 1 .. Len(name)
      BY <1>a
    <3>2. f[0] = << >> /\ \A n \in 1 .. Len(name) : f[n] = Without(f[n - 1], name[n])
      BY <1>2
    <3> QED
      BY <3>1, <3>2
  <2> QED
    BY <2>1, <2>2
<1>5. Rec(u)
  BY <1>4
<1>6. \A n \in 0 .. Len(name) : u[n] = IF n = 0 THEN << >> ELSE Without(u[n - 1], name[n])
  <2> DEFINE w == [n \in 0 .. Len(name) |->
                     IF n = 0 THEN << >>
                     ELSE IF name[n] = "old" THEN u[n - 1] ELSE Append(u[n - 1], name[n])]
  <2>1. u = w
    BY <1>5
  <2>2. \A n \in 0 .. Len(name) : w[n] = IF n = 0 THEN << >> ELSE Without(u[n - 1], name[n])
    OBVIOUS
  <2> HIDE DEF u, w
  <2> QED
    BY <2>1, <2>2
<1> HIDE DEF u, Rec, T
<1>7. ASSUME NEW j \in 0 .. Len(name), u[j] \notin Seq(Graphemes) PROVE FALSE
  <2> DEFINE W == {n \in 0 .. Len(name) : u[n] \notin Seq(Graphemes)}
  <2>1. W \subseteq Nat /\ W # {}
    <3>1. j \in W
      BY <1>7
    <3>2. 0 .. Len(name) \subseteq Nat /\ W \subseteq 0 .. Len(name)
      OBVIOUS
    <3> HIDE DEF W
    <3> QED
      BY <3>1, <3>2
  <2>2. PICK p \in W : \A y \in W : p <= y
    <3> HIDE DEF W
    <3> QED
      BY <2>1, Least
  <2>3. p \in 0 .. Len(name) /\ u[p] \notin Seq(Graphemes)
    BY <2>2
  <2>4. u[0] = << >> /\ << >> \in Seq(Graphemes)
    BY <1>a, <1>6
  <2>5. p - 1 \in 0 .. Len(name) /\ p \in 1 .. Len(name)
    <3>1. p # 0
      BY <2>3, <2>4
    <3> QED
      BY <1>a, <2>3, <3>1
  <2>6. u[p - 1] \in Seq(Graphemes)
    BY <2>2, <2>5
  <2>7. u[p] = Without(u[p - 1], name[p])
    BY <1>6, <2>5
  <2>8. name[p] \in Graphemes
    BY <2>5
  <2> QED
    BY <2>3, <2>6, <2>7, <2>8
<1> QED
  BY <1>a, <1>3, <1>7

\* The graphemes that make names unique.
Unique == {"short", "long", "time"}

\* A name that Next made up has the whole stamp, something unique and the
\* whole extension, and is short enough.
MadeUp ==
  /\ candidate \in Seq(Graphemes) /\ Size(candidate) <= NameMax
  /\ \E k \in Len(Stamp) .. Len(Stamp \o gen.prefix), u \in Unique :
       candidate = SubSeq(Stamp \o gen.prefix, 1, k) \o <<u>> \o gen.suffix

\* The first candidate of a generator is the name itself, the others are made
\* up; what they are made of has its type.
NameInv ==
  step = "rename" =>
    /\ gen \in [original : {<< >>}, prefix : Seq(Graphemes), suffix : Seq(Graphemes),
                timeSuffix : BOOLEAN]
    /\ Size(gen.suffix) < MaxExtension
    /\ stamped => ~gen.timeSuffix
    /\ tries = 1 \/ (tries = 2 /\ MadeUp)
    /\ tries = 1 => \E name \in Seq(Graphemes) :
                     candidate = Stamp \o name /\ (~renaming => Size(name) <= NameMax)

\* Names of files are not empty, and not too long unless they are given.
LEMMA NamesType ==
  ASSUME NEW r, NEW name \in NewNames(r)
  PROVE  /\ name \in Seq(Graphemes) /\ name # << >>
         /\ ~r => Size(name) <= NameMax
<1> DEFINE G == {"x", "wide", "dot", "old"}
<1>1. \A n \in Nat : \A f \in [1 .. n -> G] :
        f \in Seq(Graphemes) /\ (n >= 1 => f # << >>)
  <2> SUFFICES ASSUME NEW n \in Nat, NEW f \in [1 .. n -> G]
               PROVE  f \in Seq(Graphemes) /\ (n >= 1 => f # << >>)
    OBVIOUS
  <2>1. f \in Seq(G) /\ Len(f) = n
    OBVIOUS
  <2>2. f \in Seq(Graphemes)
    BY <2>1 DEF Graphemes
  <2> HIDE DEF G
  <2> QED
    BY <2>1, <2>2
<1>2. CASE name \in FileNames
  <2>1. PICK n \in 1 .. NameMax : name \in [1 .. n -> G]
    BY <1>2 DEF FileNames
  <2>2. n \in Nat /\ n >= 1
    BY NameAssumption
  <2>3. Size(name) <= NameMax
    BY <1>2 DEF FileNames
  <2> HIDE DEF G
  <2> QED
    BY <1>1, <2>1, <2>2, <2>3
<1>3. CASE r /\ name = [n \in 1 .. NameMax + 1 |-> "x"]
  <2>1. NameMax + 1 \in Nat /\ NameMax + 1 >= 1
    BY NameAssumption
  <2>2. name \in [1 .. NameMax + 1 -> G]
    BY <1>3
  <2> HIDE DEF G
  <2> QED
    BY <1>1, <1>3, <2>1, <2>2
<1> QED
  BY <1>2, <1>3 DEF NewNames

\* The generator of a name.
LEMMA GeneratorType ==
  ASSUME NEW name \in Seq(Graphemes)
  PROVE  LET g == NewGenerator(name)
         IN  /\ g = [original |-> name, prefix |-> g.prefix, suffix |-> g.suffix,
                     timeSuffix |-> ~stamped]
             /\ g.prefix \in Seq(Graphemes) /\ g.suffix \in Seq(Graphemes)
             /\ Size(g.suffix) < MaxExtension
<1> DEFINE ext == Extension(name)
           dots == {n \in DOMAIN name : name[n] = "dot"}
<1>1. Len(name) \in Nat /\ DOMAIN name = 1 .. Len(name)
  OBVIOUS
<1>2. Ext(name) \in Seq(Graphemes)
  <2>1. CASE dots = {}
    BY <2>1 DEF Ext
  <2>2. CASE dots # {}
    <3>1. dots \subseteq 1 .. Len(name)
      BY <1>1
    <3>2. Ext(name) = SubSeq(name, Max(dots), Len(name))
      BY <2>2 DEF Ext
    <3> HIDE DEF dots
    <3>3. Max(dots) \in 1 .. Len(name)
      BY <1>1, <2>2, <3>1, MaxIs
    <3> QED
      BY <1>1, <3>2, <3>3
  <2> QED
    BY <2>1, <2>2
<1>3. ext \in Seq(Graphemes) /\ Size(ext) < MaxExtension /\ Len(ext) <= Len(name)
  <2>1. CASE ext = << >>
    BY <1>1, <2>1, SizeEmpty, NameAssumption
  <2>2. CASE ext # << >>
    <3>1. ext = Ext(name) /\ Size(Ext(name)) < MaxExtension /\ Len(Ext(name)) < Len(name)
      BY <2>2 DEF Extension
    <3>2. Len(Ext(name)) \in Nat
      BY <1>2
    <3> HIDE DEF ext
    <3> QED
      BY <1>1, <1>2, <3>1, <3>2
  <2> QED
    BY <2>1, <2>2
<1> DEFINE rest == SubSeq(name, 1, Len(name) - Len(ext))
<1>4. NewGenerator(name) = [original |-> name, prefix |-> WithoutOld(rest), suffix |-> ext,
                            timeSuffix |-> ~stamped]
  BY DEF NewGenerator
<1>5. rest \in Seq(Graphemes)
  <2> HIDE DEF ext
  <2>1. Len(name) - Len(ext) \in 0 .. Len(name)
    BY <1>1, <1>3
  <2> QED
    BY <2>1
<1>6. WithoutOld(rest) \in Seq(Graphemes)
  <2> HIDE DEF rest
  <2> QED
    BY <1>5, WithoutOldType
<1> HIDE DEF ext, rest
<1> QED
  BY <1>3, <1>4, <1>6

\* A candidate that is made up fits.
LEMMA MadeUpFits ==
  ASSUME NameInv, step = "rename", NEW c \in Candidates(gen), Use(c),
         UNCHANGED <<stamped, renaming>>
  PROVE  MadeUp' /\ gen' = [gen EXCEPT !.timeSuffix = FALSE]
<1> DEFINE prefix == Stamp \o gen.prefix
<1>1. /\ gen.original = << >> /\ gen.prefix \in Seq(Graphemes) /\ gen.suffix \in Seq(Graphemes)
      /\ Size(gen.suffix) < MaxExtension /\ (stamped => ~gen.timeSuffix)
      /\ gen \in [original : {<< >>}, prefix : Seq(Graphemes), suffix : Seq(Graphemes),
                  timeSuffix : BOOLEAN]
  BY DEF NameInv
<1>2. PICK u \in (IF gen.timeSuffix THEN {"time"} ELSE {"short", "long"}) :
        c = <<combineWithMaxLen(prefix, <<u>>, gen.suffix, NameMax),
              [gen EXCEPT !.timeSuffix = FALSE]>>
  BY <1>1 DEF Candidates
<1>3. u \in Unique /\ u \in Graphemes /\ (stamped => u \in {"short", "long"})
  BY <1>1 DEF Unique, Graphemes
<1>4. /\ candidate' = combineWithMaxLen(prefix, <<u>>, gen.suffix, NameMax)
      /\ gen' = [gen EXCEPT !.timeSuffix = FALSE]
  BY <1>2 DEF Use
<1>5. gen'.prefix = gen.prefix /\ gen'.suffix = gen.suffix /\ Stamp' = Stamp
  BY <1>1, <1>4 DEF Stamp
<1>6. Len(Stamp) \in Nat /\ prefix \in Seq(Graphemes) /\ Len(prefix) >= Len(Stamp)
      /\ Len(prefix) \in Nat /\ SubSeq(prefix, 1, Len(Stamp)) = Stamp
  BY <1>1, StampSize
<1>7. Size(<<u>>) = Bytes[u] /\ <<u>> \in Seq(Graphemes)
  BY <1>3, SizeOne
<1>8. /\ Bytes["short"] = ShortHex /\ Bytes["long"] = LongHex /\ Bytes["time"] = TimeSuffix
  BY DEF Bytes
<1>9. Size(gen.suffix) \in Nat /\ Size(Stamp) = (IF stamped THEN StampLength ELSE 0)
      /\ Size(Stamp) = Len(Stamp)
  BY <1>1, SizeType, StampSize
<1>10. Size(Stamp) + Size(<<u>>) + Size(gen.suffix) <= NameMax /\ Size(Stamp) \in Nat
       /\ Size(<<u>>) \in Nat /\ NameMax \in Nat
  <2>1. CASE stamped
    BY <1>1, <1>3, <1>7, <1>8, <1>9, <2>1, NameAssumption
  <2>2. CASE ~stamped
    BY <1>1, <1>3, <1>7, <1>8, <1>9, <2>2, NameAssumption DEF Unique
  <2> QED
    BY <2>1, <2>2
<1> DEFINE cand == combineWithMaxLen(prefix, <<u>>, gen.suffix, NameMax)
<1> HIDE DEF prefix
<1>11. /\ cand \in Seq(Graphemes) /\ Size(cand) <= NameMax
       /\ \E k \in 0 .. Len(prefix) :
            /\ cand = SubSeq(prefix, 1, k) \o <<u>> \o gen.suffix
            /\ \A j \in 1 .. Len(prefix) :
                 Size(SubSeq(prefix, 1, j)) + Size(<<u>>) + Size(gen.suffix) <= NameMax => j <= k
  <2>1. Size(<<u>>) + Size(gen.suffix) <= NameMax
    BY <1>9, <1>10
  <2>2. NameMax \in Nat
    BY NameAssumption
  <2>3. cand = combineWithMaxLen(prefix, <<u>>, gen.suffix, NameMax)
    OBVIOUS
  <2> HIDE DEF cand
  <2> QED
    BY <1>1, <1>6, <1>7, <2>1, <2>2, <2>3, Combined, Zenon
<1>12. PICK k \in 0 .. Len(prefix) :
         /\ cand = SubSeq(prefix, 1, k) \o <<u>> \o gen.suffix
         /\ \A j \in 1 .. Len(prefix) :
              Size(SubSeq(prefix, 1, j)) + Size(<<u>>) + Size(gen.suffix) <= NameMax => j <= k
  BY <1>11
<1>13. k \in Len(Stamp) .. Len(prefix)
  <2>1. CASE Len(Stamp) = 0
    BY <1>6, <2>1
  <2>2. CASE Len(Stamp) # 0
    <3>1. Len(Stamp) \in 1 .. Len(prefix)
      BY <1>6, <2>2
    <3>2. Len(Stamp) <= k
      BY <1>6, <1>10, <1>12, <3>1
    <3> QED
      BY <1>6, <3>2
  <2> QED
    BY <2>1, <2>2
<1>14. candidate' = cand /\ Len(Stamp' \o gen'.prefix) = Len(prefix)
       /\ Stamp' \o gen'.prefix = prefix
  BY <1>4, <1>5 DEF prefix
<1> HIDE DEF cand
<1> QED
  BY <1>3, <1>4, <1>5, <1>11, <1>12, <1>13, <1>14 DEF MadeUp

\* Every step keeps to the invariant.
LEMMA NameStep == NameInv /\ [NameNext]_nameVars => NameInv'
<1> SUFFICES ASSUME NameInv, [NameNext]_nameVars PROVE NameInv'
  OBVIOUS
<1> DEFINE Generators == [original : {<< >>}, prefix : Seq(Graphemes), suffix : Seq(Graphemes),
                          timeSuffix : BOOLEAN]
<1>1. ASSUME NewFile PROVE NameInv'
  <2>a. PICK name \in NewNames(renaming) : \E c \in Candidates(NewGenerator(name)) : Use(c)
    BY <1>1 DEF NewFile
  <2>1. PICK c \in Candidates(NewGenerator(name)) : Use(c)
    BY <2>a
  <2>2. name \in Seq(Graphemes) /\ name # << >> /\ (~renaming => Size(name) <= NameMax)
    BY NamesType
  <2> DEFINE g == NewGenerator(name)
  <2>3. /\ g = [original |-> name, prefix |-> g.prefix, suffix |-> g.suffix,
                timeSuffix |-> ~stamped]
        /\ g.prefix \in Seq(Graphemes) /\ g.suffix \in Seq(Graphemes)
        /\ Size(g.suffix) < MaxExtension
    BY <2>2, GeneratorType, Zenon
  <2> HIDE DEF g
  <2>4. g.original = name /\ g.timeSuffix = ~stamped
    BY <2>3
  <2>5. c = <<Stamp \o name, [g EXCEPT !.original = << >>]>>
    BY <2>1, <2>2, <2>4 DEF Candidates, g
  <2>6. candidate' = Stamp \o name /\ gen' = [g EXCEPT !.original = << >>]
    BY <2>1, <2>5 DEF Use
  <2>7. gen' = [original |-> << >>, prefix |-> g.prefix, suffix |-> g.suffix,
                timeSuffix |-> ~stamped]
    BY <2>3, <2>6
  <2>8. gen' \in Generators /\ gen'.suffix = g.suffix /\ (stamped => ~gen'.timeSuffix)
    BY <2>3, <2>7
  <2>9. tries' = 1 /\ stamped' = stamped /\ renaming' = renaming /\ Stamp' = Stamp
    BY <1>1 DEF NewFile, Stamp
  <2> QED
    BY <2>2, <2>3, <2>6, <2>8, <2>9 DEF NameInv
<1>2. ASSUME Exists PROVE NameInv'
  <2>1. PICK c \in Candidates(gen) : Use(c)
    BY <1>2 DEF Exists
  <2>2. step = "rename" /\ tries' = 2 /\ UNCHANGED <<step, stamped, renaming>>
    BY <1>2 DEF Exists
  <2>3. MadeUp' /\ gen' = [gen EXCEPT !.timeSuffix = FALSE]
    BY <2>1, <2>2, MadeUpFits
  <2>4. gen \in Generators /\ Size(gen.suffix) < MaxExtension
    BY <2>2 DEF NameInv
  <2>5. gen' \in Generators /\ gen'.suffix = gen.suffix /\ ~gen'.timeSuffix
    BY <2>3, <2>4
  <2> QED
    BY <2>2, <2>3, <2>4, <2>5 DEF NameInv
<1>3. ASSUME RenameNotSupported \/ AllMoved \/ Renamed \/ NameTooLong PROVE NameInv'
  <2>1. step' # "rename"
    BY <1>3 DEF RenameNotSupported, AllMoved, Renamed, NameTooLong
  <2> QED
    BY <2>1 DEF NameInv
<1>4. ASSUME UNCHANGED nameVars PROVE NameInv'
  BY <1>4 DEF nameVars, NameInv, MadeUp, Stamp
<1> QED
  BY <1>1, <1>2, <1>3, <1>4 DEF NameNext

\* The invariant holds in every state of the generator and its users.
THEOREM NameInvariance == NameSpec => []NameInv
<1>1. (\E c \in Calls : NameInit(c)) => NameInv
  BY DEF NameInit, NameInv
<1> QED
  BY <1>1, NameStep, PTL DEF NameSpec

\* Only the first candidate can be too long, and only with the time in front
\* of it or when the user chose it: for every limit and every length of what is
\* added that fits into it, no file is given up once a name turned out to be
\* taken.
THEOREM OthersFit == NameSpec => []OnlyFirstTooLong
<1>1. NameInv => OnlyFirstTooLong
  <2> SUFFICES ASSUME NameInv, step = "rename", Size(candidate) > NameMax
               PROVE  tries = 1 /\ (stamped \/ renaming)
    BY DEF OnlyFirstTooLong
  <2>1. tries = 1
    <3>1. ASSUME MadeUp PROVE FALSE
      <4>1. Size(candidate) <= NameMax /\ Size(candidate) \in Nat /\ NameMax \in Nat
        BY <3>1, SizeType, NameAssumption DEF MadeUp
      <4> QED
        BY <4>1
    <3> QED
      BY <3>1 DEF NameInv
  <2>2. PICK name \in Seq(Graphemes) :
          candidate = Stamp \o name /\ (~renaming => Size(name) <= NameMax)
    BY <2>1 DEF NameInv
  <2>3. ASSUME ~stamped, ~renaming PROVE FALSE
    <3>1. Size(candidate) = Size(Stamp) + Size(name) /\ Size(Stamp) = 0
      BY <2>2, <2>3, SizeConcat, StampSize
    <3>2. Size(name) \in Nat /\ NameMax \in Nat /\ Size(name) <= NameMax
      BY <2>2, <2>3, SizeType, NameAssumption
    <3> QED
      BY <3>1, <3>2
  <2> QED
    BY <2>1, <2>3
<1> QED
  BY <1>1, NameInvariance, PTL

\* A name in three parts.
Parted(c, s, u, t) ==
  /\ Len(c) = Len(s) + 1 + Len(t) /\ c[Len(s) + 1] = u
  /\ \A n \in 1 .. Len(s) : c[n] = s[n]
  /\ SubSeq(c, Len(c) - Len(t) + 1, Len(c)) = t

\* Such a name begins with its first part and ends with its last one.
LEMMA Ends ==
  ASSUME NEW s \in Seq(Graphemes), NEW u \in Graphemes, NEW t \in Seq(Graphemes),
         NEW c, c = s \o <<u>> \o t
  PROVE  Parted(c, s, u, t)
<1>1. Len(s) \in Nat /\ Len(t) \in Nat
  OBVIOUS
<1>2. c \in Seq(Graphemes) /\ Len(c) = Len(s) + 1 + Len(t)
      /\ \A n \in 1 .. Len(c) : c[n] = IF n <= Len(s) THEN s[n] ELSE
                                     IF n = Len(s) + 1 THEN u ELSE t[n - Len(s) - 1]
  OBVIOUS
<1> DEFINE e == SubSeq(c, Len(c) - Len(t) + 1, Len(c))
<1>3. Len(c) - Len(t) + 1 = Len(s) + 2
  BY <1>1, <1>2
<1>4. e \in Seq(Graphemes) /\ Len(e) = Len(t)
      /\ \A n \in 1 .. Len(t) : e[n] = c[Len(s) + 1 + n]
  BY <1>1, <1>2, <1>3
<1>5. ASSUME NEW n \in 1 .. Len(t) PROVE e[n] = t[n]
  <2>1. Len(s) + 1 + n \in 1 .. Len(c) /\ ~(Len(s) + 1 + n <= Len(s))
        /\ Len(s) + 1 + n # Len(s) + 1 /\ (Len(s) + 1 + n) - Len(s) - 1 = n
    BY <1>1, <1>2
  <2> QED
    BY <1>2, <1>4, <2>1
<1> HIDE DEF e
<1>6. e = t
  <2>1. \A n \in 1 .. Len(e) : e[n] = t[n]
    BY <1>4, <1>5
  <2> QED
    BY <1>4, <2>1, SeqEqual
<1>7. Len(s) + 1 \in 1 .. Len(c) /\ \A n \in 1 .. Len(s) : n \in 1 .. Len(c)
  BY <1>1, <1>2
<1> QED
  BY <1>1, <1>2, <1>6, <1>7 DEF e, Parted

\* What must be left of a name.
Kept(c, stamp, u, suffix) ==
  /\ \A n \in 1 .. Len(stamp) : n <= Len(c) /\ c[n] = stamp[n]
  /\ \E n \in DOMAIN c : c[n] = u
  /\ SubSeq(c, Len(c) - Len(suffix) + 1, Len(c)) = suffix

\* Cutting off the end of the prefix spares the stamp in front of it.
LEMMA MadeUpKeeps ==
  ASSUME NEW stamp \in Seq(Graphemes), NEW rest \in Seq(Graphemes),
         NEW suffix \in Seq(Graphemes), NEW u \in Graphemes,
         NEW k \in Len(stamp) .. Len(stamp \o rest),
         NEW c, c = SubSeq(stamp \o rest, 1, k) \o <<u>> \o suffix
  PROVE  Kept(c, stamp, u, suffix)
<1> DEFINE prefix == stamp \o rest
           s == SubSeq(prefix, 1, k)
<1>1. /\ prefix \in Seq(Graphemes) /\ Len(prefix) \in Nat /\ Len(stamp) \in Nat
      /\ Len(suffix) \in Nat /\ \A n \in 1 .. Len(stamp) : prefix[n] = stamp[n]
  OBVIOUS
<1>2. k \in Len(stamp) .. Len(prefix) /\ k \in Nat
  BY <1>1
<1> HIDE DEF prefix
<1>3. s \in Seq(Graphemes) /\ Len(s) = k /\ \A n \in 1 .. k : s[n] = prefix[n]
  BY <1>1, <1>2
<1>4. c = s \o <<u>> \o suffix
  BY DEF prefix
<1> HIDE DEF s
<1>5. /\ Len(c) = Len(s) + 1 + Len(suffix) /\ c[Len(s) + 1] = u
      /\ \A n \in 1 .. Len(s) : c[n] = s[n]
      /\ SubSeq(c, Len(c) - Len(suffix) + 1, Len(c)) = suffix
  <2>1. Parted(c, s, u, suffix)
    BY <1>3, <1>4, Ends, Zenon
  <2> QED
    BY <2>1 DEF Parted
<1>6. Len(c) = k + 1 + Len(suffix) /\ c[k + 1] = u /\ \A n \in 1 .. k : c[n] = s[n]
  BY <1>3, <1>5
<1>7. c \in Seq(Graphemes) /\ DOMAIN c = 1 .. Len(c)
  BY <1>3, <1>4
<1>8. ASSUME NEW n \in 1 .. Len(stamp) PROVE n <= Len(c) /\ c[n] = stamp[n]
  <2>1. n \in 1 .. k /\ n <= Len(c)
    BY <1>1, <1>2, <1>6
  <2> QED
    BY <1>1, <1>3, <1>6, <2>1
<1>9. k + 1 \in DOMAIN c
  BY <1>1, <1>2, <1>6, <1>7
<1> QED
  BY <1>5, <1>6, <1>8, <1>9 DEF Kept

\* However much of a name is cut off, the time stamp, what makes the name unique
\* and the extension are kept, for every name and every limit that has room for
\* them.
THEOREM CandidatesKeep == NameSpec => []StampAndExtensionKept
<1>1. NameInv => StampAndExtensionKept
  <2> SUFFICES ASSUME NameInv, step = "rename" PROVE StampAndExtensionKept
    BY DEF StampAndExtensionKept
  <2>1. /\ Stamp \in Seq(Graphemes) /\ Len(Stamp) \in Nat /\ DOMAIN Stamp = 1 .. Len(Stamp)
        /\ \A n \in 1 .. Len(Stamp) : Stamp[n] = "s"
    BY StampSize
  <2>2. CASE tries = 1
    <3>1. PICK name \in Seq(Graphemes) : candidate = Stamp \o name
      BY <2>2 DEF NameInv
    <3>2. \A n \in 1 .. Len(Stamp) : n <= Len(candidate) /\ candidate[n] = Stamp[n]
      BY <2>1, <3>1
    <3> QED
      BY <2>1, <2>2, <3>2 DEF StampAndExtensionKept
  <2>3. CASE tries = 2 /\ MadeUp
    <3>1. gen.prefix \in Seq(Graphemes) /\ gen.suffix \in Seq(Graphemes)
      BY DEF NameInv
    <3>2. PICK k \in Len(Stamp) .. Len(Stamp \o gen.prefix), u \in Unique :
            candidate = SubSeq(Stamp \o gen.prefix, 1, k) \o <<u>> \o gen.suffix
      BY <2>3 DEF MadeUp
    <3>3. u \in Graphemes
      BY DEF Unique, Graphemes
    <3>4. Kept(candidate, Stamp, u, gen.suffix)
      BY <2>1, <3>1, <3>2, <3>3, MadeUpKeeps, Zenon
    <3> QED
      BY <2>1, <3>4 DEF StampAndExtensionKept, Unique, Kept
  <2> QED
    BY <2>2, <2>3 DEF NameInv
<1> QED
  BY <1>1, NameInvariance, PTL

-----------------------------------------------------------------------------
(* TriggerQuery                                                            *)

\* What paths are made of.
Strings == STRING

Elems == Seq(Strings)

\* The elements of a clean path.
Cleaned(abs, s) == Clean([abs |-> abs, elems |-> s]).elems

\* f[n] is what filepath.Clean has made of the first n elements.
IsCleaning(abs, s, f) ==
  /\ f \in [0 .. Len(s) -> Elems]
  /\ f[0] = << >>
  /\ \A n \in 1 .. Len(s) : f[n] = CleanElem(abs, s[n], f[n - 1])

\* An element more or less, and the path is still one.
LEMMA CleanElemType ==
  ASSUME NEW abs \in BOOLEAN, NEW e \in Strings, NEW d \in Elems
  PROVE  CleanElem(abs, e, d) \in Elems
<1>1. Append(d, e) \in Elems
  BY DEF Elems
<1>2. d # << >> => Seqs!Front(d) \in Elems
  BY DEF Elems, Seqs!Front
<1> QED
  BY <1>1, <1>2, Zenon DEF CleanElem

\* What filepath.Clean returns is the last of these, as they are determined by
\* the ones before.
LEMMA CleaningIs ==
  ASSUME NEW abs \in BOOLEAN, NEW s \in Elems, NEW f, IsCleaning(abs, s, f)
  PROVE  Cleaned(abs, s) = f[Len(s)]
<1> DEFINE Rec(g) == g = [n \in 0 .. Len(s) |->
                            IF n = 0 THEN << >> ELSE CleanElem(abs, s[n], g[n - 1])]
           u == CHOOSE g : Rec(g)
           rec == [abs |-> abs, elems |-> s]
<1>0. rec.abs = abs /\ rec.elems = s /\ Len(s) \in Nat
  BY DEF Elems
<1>1. Cleaned(abs, s) = u[Len(s)]
  BY Zenon DEF Cleaned, Clean
<1>2. Rec(f)
  BY <1>0 DEF IsCleaning
<1>3. Rec(u)
  BY <1>2
<1> HIDE DEF rec
<1>4. \A n \in 0 .. Len(s) : u[n] = IF n = 0 THEN << >> ELSE CleanElem(abs, s[n], u[n - 1])
  <2> DEFINE w == [n \in 0 .. Len(s) |-> IF n = 0 THEN << >> ELSE CleanElem(abs, s[n], u[n - 1])]
  <2>1. u = w
    BY <1>3
  <2>2. \A n \in 0 .. Len(s) : w[n] = IF n = 0 THEN << >> ELSE CleanElem(abs, s[n], u[n - 1])
    OBVIOUS
  <2> HIDE DEF u, w
  <2> QED
    BY <2>1, <2>2
<1> DEFINE T == {n \in 0 .. Len(s) : u[n] = f[n]}
<1> HIDE DEF u
<1>5. 0 \in T
  BY <1>0, <1>4 DEF IsCleaning
<1>6. \A n \in 1 .. Len(s) : n - 1 \in T => n \in T
  <2> SUFFICES ASSUME NEW n \in 1 .. Len(s), n - 1 \in T PROVE n \in T
    OBVIOUS
  <2>1. n \in 0 .. Len(s) /\ n # 0 /\ u[n - 1] = f[n - 1]
    BY <1>0
  <2>2. u[n] = CleanElem(abs, s[n], u[n - 1]) /\ f[n] = CleanElem(abs, s[n], f[n - 1])
    BY <1>4, <2>1 DEF IsCleaning
  <2> QED
    BY <2>1, <2>2
<1>7. 0 .. Len(s) \subseteq T
  <2>1. T \subseteq 0 .. Len(s)
    OBVIOUS
  <2> HIDE DEF T
  <2> QED
    BY <1>0, <1>5, <1>6, <2>1, Counting
<1> QED
  BY <1>0, <1>1, <1>7

\* Every path can be cleaned.
LEMMA CleaningExists ==
  ASSUME NEW abs \in BOOLEAN, NEW s \in Elems
  PROVE  \E f : IsCleaning(abs, s, f)
<1> DEFINE Upto(n, f) ==
             /\ f \in [0 .. n -> Elems] /\ f[0] = << >>
             /\ \A k \in 1 .. n : f[k] = CleanElem(abs, s[k], f[k - 1])
           T == {n \in 0 .. Len(s) : \E f : Upto(n, f)}
<1>0. Len(s) \in Nat
  BY DEF Elems
<1>1. 0 \in T
  <2>1. << >> \in Elems
    BY DEF Elems
  <2>2. Upto(0, [n \in 0 .. 0 |-> << >>])
    BY <2>1
  <2>3. 0 \in 0 .. Len(s)
    BY <1>0
  <2> HIDE DEF Upto
  <2> QED
    BY <2>2, <2>3
<1>2. \A n \in 1 .. Len(s) : n - 1 \in T => n \in T
  <2> SUFFICES ASSUME NEW p \in 1 .. Len(s), p - 1 \in T PROVE p \in T
    OBVIOUS
  <2>1. p \in 0 .. Len(s) /\ p \in Nat /\ p # 0 /\ p - 1 \in 0 .. p - 1
    BY <1>0
  <2>2. PICK f : Upto(p - 1, f)
    OBVIOUS
  <2> DEFINE x == CleanElem(abs, s[p], f[p - 1])
             g == [n \in 0 .. p |-> IF n = p THEN x ELSE f[n]]
  <2>3. x \in Elems
    <3>1. s[p] \in Strings /\ f[p - 1] \in Elems
      BY <2>1, <2>2 DEF Elems
    <3> QED
      BY <3>1, CleanElemType
  <2>4. Upto(p, g)
    <3> HIDE DEF x
    <3>1. \A n \in 0 .. p : g[n] = IF n = p THEN x ELSE f[n]
      OBVIOUS
    <3>2. /\ f \in [0 .. p - 1 -> Elems] /\ f[0] = << >>
          /\ \A k \in 1 .. p - 1 : f[k] = CleanElem(abs, s[k], f[k - 1])
      BY <2>2
    <3>3. \A n \in 0 .. p : n # p => n \in 0 .. p - 1
      BY <2>1
    <3>4. g \in [0 .. p -> Elems]
      BY <2>1, <2>3, <3>2, <3>3
    <3>5. g[0] = << >>
      BY <2>1, <3>1, <3>2
    <3>6. ASSUME NEW k \in 1 .. p PROVE g[k] = CleanElem(abs, s[k], g[k - 1])
      <4>1. k - 1 \in 0 .. p /\ k - 1 # p /\ k \in 0 .. p /\ (k # p => k \in 1 .. p - 1)
        BY <2>1
      <4>2. g[k - 1] = f[k - 1] /\ g[k] = IF k = p THEN x ELSE f[k]
        BY <3>1, <4>1
      <4> HIDE DEF g
      <4>3. CASE k = p
        BY <4>2, <4>3 DEF x
      <4>4. CASE k # p
        BY <3>2, <4>1, <4>2, <4>4
      <4> QED
        BY <4>3, <4>4
    <3> HIDE DEF g
    <3> QED
      BY <3>4, <3>5, <3>6
  <2> HIDE DEF Upto, g
  <2> QED
    BY <2>1, <2>4
<1>3. Len(s) \in T
  <2>1. T \subseteq 0 .. Len(s) /\ Len(s) \in 0 .. Len(s)
    BY <1>0
  <2> HIDE DEF T
  <2> QED
    BY <1>0, <1>1, <1>2, <2>1, Counting
<1> QED
  BY <1>3 DEF IsCleaning

\* What makes a path clean: no "." and a ".." only at the beginning of a
\* relative path.
IsClean(abs, s) ==
  \A n \in 1 .. Len(s) :
    s[n] # "." /\ (s[n] = ".." => ~abs /\ \A m \in 1 .. n : s[m] = "..")

\* One more element leaves a clean path clean.
LEMMA CleanElemClean ==
  ASSUME NEW abs \in BOOLEAN, NEW e \in Strings, NEW d \in Elems, IsClean(abs, d)
  PROVE  IsClean(abs, CleanElem(abs, e, d))
<1>0. Len(d) \in Nat
  BY DEF Elems
<1>1. ASSUME d # << >> PROVE IsClean(abs, Seqs!Front(d))
  <2> DEFINE c == Seqs!Front(d)
  <2>1. Len(d) # 0
    BY <1>1 DEF Elems
  <2>2. Len(c) = Len(d) - 1 /\ \A n \in 1 .. Len(d) - 1 : c[n] = d[n]
    <3>1. \A n \in 1 .. Len(d) - 1 : d[n] \in Strings
      BY <1>0 DEF Elems
    <3>2. Len(d) - 1 \in Int /\ 1 \in Int /\ 1 <= Len(d)
      BY <1>0, <2>1
    <3>3. /\ Len(SubSeq(d, 1, Len(d) - 1)) = Len(d) - 1
          /\ \A n \in 1 .. Len(d) - 1 : SubSeq(d, 1, Len(d) - 1)[n] = d[n]
      <4>1. (Len(d) - 1) - 1 + 1 = Len(d) - 1 /\ \A n \in 1 .. Len(d) - 1 : 1 + n - 1 = n
        BY <3>2
      <4>2. /\ Len(SubSeq(d, 1, Len(d) - 1)) =
                 IF 1 <= Len(d) - 1 THEN (Len(d) - 1) - 1 + 1 ELSE 0
            /\ \A n \in 1 .. (Len(d) - 1) - 1 + 1 :
                 SubSeq(d, 1, Len(d) - 1)[n] = d[1 + n - 1]
        BY <3>1, <3>2, SubSeqProperties
      <4> QED
        BY <1>0, <2>1, <4>1, <4>2
    <3> QED
      BY <3>3 DEF Seqs!Front
  <2> HIDE DEF c
  <2>3. ASSUME NEW n \in 1 .. Len(c)
        PROVE  c[n] # "." /\ (c[n] = ".." => ~abs /\ \A m \in 1 .. n : c[m] = "..")
    <3>1. n \in 1 .. Len(d) /\ c[n] = d[n] /\ \A m \in 1 .. n : c[m] = d[m]
      BY <1>0, <2>1, <2>2
    <3> QED
      BY <3>1 DEF IsClean
  <2> QED
    BY <2>3, Zenon DEF IsClean, c
<1>2. CASE e # "." /\ ~(e = ".." /\ d # << >> /\ Seqs!Last(d) # "..") /\ ~(e = ".." /\ d = << >> /\ abs)
  <2> DEFINE c == Append(d, e)
  <2>1. CleanElem(abs, e, d) = c
    BY <1>2 DEF CleanElem
  <2>2. Len(c) = Len(d) + 1 /\ c[Len(d) + 1] = e /\ \A n \in 1 .. Len(d) : c[n] = d[n]
    BY DEF Elems
  <2> HIDE DEF c
  <2>3. ASSUME NEW n \in 1 .. Len(c)
        PROVE  c[n] # "." /\ (c[n] = ".." => ~abs /\ \A m \in 1 .. n : c[m] = "..")
    <3>1. CASE n \in 1 .. Len(d)
      <4>1. c[n] = d[n] /\ \A m \in 1 .. n : c[m] = d[m]
        BY <1>0, <2>2, <3>1
      <4> QED
        BY <3>1, <4>1 DEF IsClean
    <3>2. CASE n = Len(d) + 1
      <4>1. c[n] # "."
        BY <1>2, <2>2, <3>2
      <4>2. ASSUME c[n] = ".." PROVE ~abs /\ \A m \in 1 .. n : c[m] = ".."
        <5>1. e = ".."
          BY <2>2, <3>2, <4>2
        <5>2. CASE d = << >>
          <6>1. ~abs /\ Len(d) = 0
            BY <1>2, <5>1, <5>2
          <6> QED
            BY <3>2, <4>2, <6>1
        <5>3. CASE d # << >>
          <6>1. Len(d) \in 1 .. Len(d) /\ d[Len(d)] = ".."
            <7>1. Len(d) # 0
              BY <5>3 DEF Elems
            <7>2. Seqs!Last(d) = ".."
              BY <1>2, <5>1, <5>3
            <7> QED
              BY <1>0, <7>1, <7>2 DEF Seqs!Last
          <6>2. ~abs /\ \A m \in 1 .. Len(d) : d[m] = ".."
            BY <6>1 DEF IsClean
          <6>3. \A m \in 1 .. n : m = n \/ m \in 1 .. Len(d)
            BY <1>0, <3>2
          <6> QED
            BY <2>2, <4>2, <6>2, <6>3
        <5> QED
          BY <5>2, <5>3
      <4> QED
        BY <4>1, <4>2
    <3>3. n \in 1 .. Len(d) \/ n = Len(d) + 1
      BY <1>0, <2>2
    <3> QED
      BY <3>1, <3>2, <3>3
  <2> QED
    BY <2>1, <2>3, Zenon DEF IsClean
<1>3. \/ CleanElem(abs, e, d) = d
      \/ d # << >> /\ CleanElem(abs, e, d) = Seqs!Front(d)
      \/ e # "." /\ ~(e = ".." /\ d # << >> /\ Seqs!Last(d) # "..") /\ ~(e = ".." /\ d = << >> /\ abs)
  BY Zenon DEF CleanElem
<1> QED
  BY <1>1, <1>2, <1>3

\* filepath.Clean returns a clean path.
LEMMA CleanedIsClean ==
  ASSUME NEW abs \in BOOLEAN, NEW s \in Elems
  PROVE  Cleaned(abs, s) \in Elems /\ IsClean(abs, Cleaned(abs, s))
<1>0. Len(s) \in Nat
  BY DEF Elems
<1>1. PICK f : IsCleaning(abs, s, f)
  BY CleaningExists
<1> DEFINE T == {n \in 0 .. Len(s) : IsClean(abs, f[n])}
<1>2. 0 \in T
  <2>1. f[0] = << >>
    BY <1>1 DEF IsCleaning
  <2>2. IsClean(abs, << >>)
    BY DEF IsClean
  <2> QED
    BY <1>0, <2>1, <2>2
<1>3. \A n \in 1 .. Len(s) : n - 1 \in T => n \in T
  <2> SUFFICES ASSUME NEW n \in 1 .. Len(s), n - 1 \in T PROVE n \in T
    OBVIOUS
  <2>1. n \in 0 .. Len(s) /\ n - 1 \in 0 .. Len(s) /\ IsClean(abs, f[n - 1])
    BY <1>0
  <2>2. f[n - 1] \in Elems /\ s[n] \in Strings /\ f[n] = CleanElem(abs, s[n], f[n - 1])
    BY <1>1, <2>1 DEF IsCleaning, Elems
  <2>3. IsClean(abs, f[n])
    BY <2>1, <2>2, CleanElemClean
  <2> QED
    BY <2>1, <2>3
<1>4. 0 .. Len(s) \subseteq T
  <2>1. T \subseteq 0 .. Len(s)
    OBVIOUS
  <2> HIDE DEF T
  <2> QED
    BY <1>0, <1>2, <1>3, <2>1, Counting
<1>5. Len(s) \in 0 .. Len(s) /\ IsClean(abs, f[Len(s)])
  BY <1>0, <1>4
<1>6. f[Len(s)] \in Elems
  BY <1>1, <1>5 DEF IsCleaning
<1>7. Cleaned(abs, s) = f[Len(s)]
  BY <1>1, CleaningIs
<1> QED
  BY <1>5, <1>6, <1>7

\* A clean path stays as it is.
LEMMA CleanStays ==
  ASSUME NEW abs \in BOOLEAN, NEW s \in Elems, IsClean(abs, s)
  PROVE  Cleaned(abs, s) = s
<1>0. Len(s) \in Nat /\ \A n \in 1 .. Len(s) : s[n] \in Strings
  BY DEF Elems
<1> DEFINE f == [n \in 0 .. Len(s) |-> SubSeq(s, 1, n)]
<1>1. ASSUME NEW n \in 0 .. Len(s)
      PROVE  /\ SubSeq(s, 1, n) \in Elems
             /\ Len(SubSeq(s, 1, n)) = n
             /\ \A m \in 1 .. n : SubSeq(s, 1, n)[m] = s[m]
  BY <1>0 DEF Elems
<1>2. f[0] = << >>
  BY <1>0
<1>3. ASSUME NEW n \in 1 .. Len(s)
      PROVE  f[n] = CleanElem(abs, s[n], f[n - 1])
  <2> DEFINE d == SubSeq(s, 1, n - 1)
  <2>1. n - 1 \in 0 .. Len(s) /\ n \in 0 .. Len(s)
    BY <1>0
  <2>2. f[n - 1] = d /\ f[n] = SubSeq(s, 1, n)
    BY <2>1
  <2>3. d \in Elems /\ Len(d) = n - 1 /\ \A m \in 1 .. n - 1 : d[m] = s[m]
    BY <1>1, <2>1
  <2>4. SubSeq(s, 1, n) = Append(d, s[n])
    <3> DEFINE l == SubSeq(s, 1, n)
               r == Append(d, s[n])
    <3>1. l \in Seq(Strings) /\ Len(l) = n /\ \A m \in 1 .. n : l[m] = s[m]
      BY <1>1, <2>1 DEF Elems
    <3> HIDE DEF d
    <3>2. /\ r \in Seq(Strings) /\ Len(r) = n /\ r[n] = s[n]
          /\ \A m \in 1 .. n - 1 : r[m] = d[m]
      <4>1. s[n] \in Strings /\ d \in Seq(Strings) /\ n \in Nat /\ Len(d) + 1 = n
        BY <1>0, <2>1, <2>3 DEF Elems
      <4>2. Len(r) = Len(d) + 1 /\ r[Len(d) + 1] = s[n] /\ \A m \in 1 .. Len(d) : r[m] = d[m]
        BY <4>1
      <4> QED
        BY <2>3, <4>1, <4>2
    <3>3. \A m \in 1 .. Len(l) : l[m] = r[m]
      <4>1. \A m \in 1 .. n : m = n \/ m \in 1 .. n - 1
        BY <1>0
      <4> HIDE DEF l, r
      <4> QED
        BY <2>3, <3>1, <3>2, <4>1
    <3> HIDE DEF l, r
    <3>4. l = r
      BY <3>1, <3>2, <3>3, SeqEqual
    <3> QED
      BY <3>4 DEF l, r
  <2> HIDE DEF d
  <2>5. s[n] # "."
    BY DEF IsClean
  <2>6. ASSUME s[n] = ".."
        PROVE  ~abs /\ (d # << >> => Seqs!Last(d) = "..")
    <3>1. ~abs /\ \A m \in 1 .. n : s[m] = ".."
      BY <2>6 DEF IsClean
    <3>2. ASSUME d # << >> PROVE d[Len(d)] = ".."
      <4>1. Len(d) # 0
        BY <2>3, <3>2 DEF Elems
      <4>2. Len(d) \in 1 .. n - 1 /\ Len(d) \in 1 .. n
        BY <1>0, <2>3, <4>1
      <4> QED
        BY <2>3, <3>1, <4>2
    <3> QED
      BY <3>1, <3>2 DEF Seqs!Last
  <2>7. CleanElem(abs, s[n], d) = Append(d, s[n])
    BY <2>5, <2>6 DEF CleanElem
  <2> HIDE DEF f
  <2> QED
    BY <2>2, <2>4, <2>7
<1>4. f \in [0 .. Len(s) -> Elems]
  BY <1>1
<1>5. f[Len(s)] = s
  <2>1. f[Len(s)] = SubSeq(s, 1, Len(s))
    BY <1>0
  <2> QED
    BY <2>1, SubSeqFull DEF Elems
<1> HIDE DEF f
<1>6. IsCleaning(abs, s, f)
  BY <1>2, <1>3, <1>4 DEF IsCleaning
<1> QED
  BY <1>5, <1>6, CleaningIs

\* To go on from a path or from the clean form of it is the same.
LEMMA CleanConcat ==
  ASSUME NEW abs \in BOOLEAN, NEW s \in Elems, NEW t \in Elems
  PROVE  /\ s \o t \in Elems
         /\ Cleaned(abs, Cleaned(abs, s) \o t) = Cleaned(abs, s \o t)
<1> DEFINE r == Cleaned(abs, s)
           a == Len(s)
           b == Len(r)
           st == s \o t
           rt == r \o t
<1>1. r \in Elems /\ IsClean(abs, r)
  BY CleanedIsClean
<1>2. Cleaned(abs, r) = r
  BY <1>1, CleanStays
<1>3. PICK f : IsCleaning(abs, s, f)
  BY CleaningExists
<1>4. f[a] = r
  BY <1>3, CleaningIs
<1> HIDE DEF r
<1>5. /\ st \in Elems /\ Len(st) = a + Len(t) /\ a \in Nat /\ Len(t) \in Nat
      /\ \A n \in 1 .. a + Len(t) : st[n] = IF n <= a THEN s[n] ELSE t[n - a]
  BY DEF Elems
<1>6. /\ rt \in Elems /\ Len(rt) = b + Len(t) /\ b \in Nat
      /\ \A n \in 1 .. b + Len(t) : rt[n] = IF n <= b THEN r[n] ELSE t[n - b]
  BY <1>1 DEF Elems
<1>7. PICK g : IsCleaning(abs, rt, g)
  BY <1>6, CleaningExists
<1> HIDE DEF a, b, st, rt
<1>8. g[b] = r
  <2> DEFINE g2 == [n \in 0 .. b |-> g[n]]
  <2>1. \A n \in 0 .. b : n \in 0 .. Len(rt)
    BY <1>5, <1>6
  <2>2. g2 \in [0 .. b -> Elems] /\ g2[0] = << >>
    BY <1>6, <1>7, <2>1 DEF IsCleaning
  <2>3. ASSUME NEW n \in 1 .. b PROVE g2[n] = CleanElem(abs, r[n], g2[n - 1])
    <3>1. n \in 1 .. b + Len(t) /\ n <= b /\ n \in 0 .. b /\ n - 1 \in 0 .. b
      BY <1>5, <1>6
    <3>2. rt[n] = r[n] /\ g[n] = CleanElem(abs, rt[n], g[n - 1])
      BY <1>6, <1>7, <3>1 DEF IsCleaning
    <3>3. g2[n] = g[n] /\ g2[n - 1] = g[n - 1]
      BY <3>1
    <3> HIDE DEF g2
    <3> QED
      BY <3>2, <3>3
  <2>4. g2[b] = g[b]
    BY <1>6
  <2> HIDE DEF g2
  <2>5. IsCleaning(abs, r, g2)
    BY <2>2, <2>3 DEF IsCleaning, b
  <2>6. Cleaned(abs, r) = g2[b]
    BY <1>1, <2>5, CleaningIs DEF b
  <2> QED
    BY <1>2, <2>4, <2>6
<1> DEFINE h == [n \in 0 .. Len(st) |-> IF n <= a THEN f[n] ELSE g[b + n - a]]
<1>9. \A n \in 0 .. Len(st) : h[n] = IF n <= a THEN f[n] ELSE g[b + n - a]
  OBVIOUS
<1>10. \A n \in 0 .. Len(st) : /\ n <= a => n \in 0 .. a
                               /\ ~(n <= a) => b + n - a \in 0 .. Len(rt)
  BY <1>5, <1>6
<1>11. h \in [0 .. Len(st) -> Elems] /\ h[0] = << >>
  <2>1. f \in [0 .. a -> Elems] /\ f[0] = << >> /\ g \in [0 .. Len(rt) -> Elems]
    BY <1>3, <1>7 DEF IsCleaning, a
  <2> QED
    BY <1>5, <1>10, <2>1
<1> HIDE DEF h
<1>12. ASSUME NEW n \in 1 .. Len(st) PROVE h[n] = CleanElem(abs, st[n], h[n - 1])
  <2>1. n \in 0 .. Len(st) /\ n - 1 \in 0 .. Len(st) /\ n \in 1 .. a + Len(t) /\ n \in Nat
    BY <1>5
  <2>2. CASE n <= a
    <3>1. n \in 1 .. a /\ n - 1 <= a
      BY <1>5, <2>1, <2>2
    <3>2. h[n] = f[n] /\ h[n - 1] = f[n - 1] /\ st[n] = s[n]
      BY <1>5, <1>9, <2>1, <2>2, <3>1
    <3>3. f[n] = CleanElem(abs, s[n], f[n - 1])
      BY <1>3, <3>1 DEF IsCleaning, a
    <3> QED
      BY <3>2, <3>3
  <2>3. CASE ~(n <= a)
    <3> DEFINE k == b + n - a
    <3>1. k \in 1 .. b + Len(t) /\ ~(k <= b) /\ k - b = n - a /\ k - 1 = b + (n - 1) - a
      BY <1>5, <1>6, <2>1, <2>3
    <3>2. h[n] = g[k] /\ st[n] = t[n - a] /\ rt[k] = t[n - a]
      BY <1>5, <1>6, <1>9, <2>1, <2>3, <3>1
    <3>3. g[k] = CleanElem(abs, rt[k], g[k - 1])
      BY <1>6, <1>7, <3>1 DEF IsCleaning
    <3>4. h[n - 1] = g[k - 1]
      <4>1. CASE n - 1 <= a
        <5>1. n - 1 = a /\ k - 1 = b
          BY <1>5, <1>6, <2>1, <2>3, <4>1
        <5> QED
          BY <1>4, <1>8, <1>9, <2>1, <4>1, <5>1
      <4>2. CASE ~(n - 1 <= a)
        BY <1>9, <2>1, <3>1, <4>2
      <4> QED
        BY <4>1, <4>2
    <3> HIDE DEF k
    <3> QED
      BY <3>2, <3>3, <3>4
  <2> QED
    BY <2>2, <2>3
<1>13. IsCleaning(abs, st, h)
  BY <1>11, <1>12 DEF IsCleaning
<1>14. Cleaned(abs, st) = h[Len(st)] /\ Cleaned(abs, rt) = g[Len(rt)]
  BY <1>5, <1>6, <1>7, <1>13, CleaningIs
<1>15. h[Len(st)] = g[Len(rt)]
  <2>1. Len(st) \in 0 .. Len(st)
    BY <1>5
  <2>2. CASE Len(t) = 0
    <3>1. Len(st) = a /\ Len(rt) = b /\ Len(st) <= a
      BY <1>5, <1>6, <2>2
    <3> QED
      BY <1>4, <1>8, <1>9, <2>1, <3>1
  <2>3. CASE Len(t) # 0
    <3>1. ~(Len(st) <= a) /\ b + Len(st) - a = Len(rt)
      BY <1>5, <1>6, <2>3
    <3> QED
      BY <1>9, <2>1, <3>1
  <2> QED
    BY <2>2, <2>3
<1> QED
  BY <1>5, <1>14, <1>15 DEF st, rt, r

\* filepath.Clean leaves a path absolute or relative.
LEMMA CleanIs ==
  ASSUME NEW a \in BOOLEAN, NEW s \in Elems
  PROVE  Clean([abs |-> a, elems |-> s]) = [abs |-> a, elems |-> Cleaned(a, s)]
<1> DEFINE path == [abs |-> a, elems |-> s]
           done == CHOOSE g : g = [n \in 0 .. Len(path.elems) |->
                     IF n = 0 THEN << >> ELSE CleanElem(path.abs, path.elems[n], g[n - 1])]
           x == done[Len(path.elems)]
<1>1. Clean(path) = [path EXCEPT !.elems = x]
  BY Zenon DEF Clean
<1> HIDE DEF x
<1>2. [path EXCEPT !.elems = x] = [abs |-> a, elems |-> x]
  OBVIOUS
<1>3. Clean(path).elems = x
  BY <1>1, <1>2
<1> QED
  BY <1>1, <1>2, <1>3 DEF Cleaned

\* filepath.Join puts the elements one after the other and cleans them.
LEMMA JoinIs ==
  ASSUME NEW a \in BOOLEAN, NEW s \in Elems, NEW path, path.elems \in Elems
  PROVE  Join([abs |-> a, elems |-> s], path).elems = Cleaned(a, s \o path.elems)
<1> DEFINE base == [abs |-> a, elems |-> s]
           t == path.elems
<1>1. [base EXCEPT !.elems = @ \o t] = [abs |-> a, elems |-> s \o t]
  <2> DEFINE x == s \o t
  <2>1. [base EXCEPT !.elems = @ \o t] = [base EXCEPT !.elems = x]
    BY Zenon
  <2> HIDE DEF x
  <2>2. [base EXCEPT !.elems = x] = [abs |-> a, elems |-> x]
    OBVIOUS
  <2> QED
    BY <2>1, <2>2 DEF x
<1>2. Join(base, path) = Clean([abs |-> a, elems |-> s \o t])
  BY <1>1, Zenon DEF Join
<1> QED
  BY <1>2, Zenon DEF Cleaned

\* How far two paths are the same.
LEMMA CommonPrefix ==
  ASSUME NEW b \in Elems, NEW d \in Elems
  PROVE  LET same == Len(Seqs!LongestCommonPrefix({b, d})) IN
         /\ same \in 0 .. Len(b) /\ same \in 0 .. Len(d)
         /\ Seqs!IsPrefix(b, d) <=> same = Len(b)
<1> DEFINE C == Seqs!CommonPrefixes({b, d})
           l == Seqs!LongestCommonPrefix({b, d})
<1>0. Len(b) \in Nat /\ Len(d) \in Nat
  BY DEF Elems
<1>1. C = {p \in Seqs!Prefixes(b) \cup Seqs!Prefixes(d) :
             Seqs!IsPrefix(p, b) /\ Seqs!IsPrefix(p, d)}
  BY DEF Seqs!CommonPrefixes
<1>2. ASSUME NEW s \in Elems, NEW p \in Seqs!Prefixes(s)
      PROVE  p \in Elems /\ Len(p) \in Nat
  <2>1. PICK n \in 0 .. Len(s) : p = SubSeq(s, 1, n)
    BY Zenon DEF Seqs!Prefixes
  <2> QED
    BY <2>1 DEF Elems
<1>3. ASSUME NEW p \in C
      PROVE  /\ p \in Elems /\ Len(p) \in 0 .. Len(b) /\ Len(p) \in 0 .. Len(d)
             /\ Seqs!IsPrefix(p, b) /\ Seqs!IsPrefix(p, d)
  <2>1. p \in Elems /\ Len(p) \in Nat
    BY <1>1, <1>2, Zenon
  <2>2. Seqs!IsPrefix(p, b) /\ Seqs!IsPrefix(p, d)
    BY <1>1, Zenon
  <2>3. Len(p) <= Len(b) /\ Len(p) <= Len(d)
    BY <2>2, Zenon DEF Seqs!IsPrefix
  <2> HIDE DEF C
  <2> QED
    BY <1>0, <2>1, <2>2, <2>3
<1>4. << >> \in C
  <2>1. SubSeq(b, 1, 0) = << >> /\ 0 \in 0 .. Len(b)
    BY <1>0 DEF Elems
  <2>2. << >> \in Seqs!Prefixes(b)
    BY <2>1 DEF Seqs!Prefixes
  <2>3. Seqs!IsPrefix(<< >>, b) /\ Seqs!IsPrefix(<< >>, d)
    BY <1>0 DEF Seqs!IsPrefix, Elems
  <2> HIDE DEF C
  <2> QED
    BY <1>1, <2>2, <2>3
<1>5. Seqs!IsPrefix(b, d) => b \in C
  <2>1. SubSeq(b, 1, Len(b)) = b /\ Len(b) \in 0 .. Len(b)
    BY <1>0, SubSeqFull DEF Elems
  <2>2. b \in Seqs!Prefixes(b)
    BY <2>1 DEF Seqs!Prefixes
  <2>3. Seqs!IsPrefix(b, b)
    BY <1>0 DEF Seqs!IsPrefix
  <2> HIDE DEF C
  <2> QED
    BY <1>1, <2>2, <2>3
<1>6. \E p \in C : \A q \in C : Len(q) <= Len(p)
  <2> HIDE DEF C
  <2> DEFINE T == {Len(b) - Len(p) : p \in C}
  <2>1. T \subseteq Nat /\ T # {}
    <3>1. \A p \in C : Len(b) - Len(p) \in Nat
      BY <1>0, <1>3
    <3> QED
      BY <1>4, <3>1
  <2>2. PICK m \in T : \A y \in T : m <= y
    <3> HIDE DEF T
    <3> QED
      BY <2>1, Least
  <2>3. PICK p \in C : m = Len(b) - Len(p)
    OBVIOUS
  <2>4. \A q \in C : Len(b) - Len(p) <= Len(b) - Len(q)
    BY <2>2, <2>3
  <2>5. \A q \in C : Len(q) <= Len(p)
    <3>1. \A q \in C : Len(q) \in Int /\ Len(p) \in Int
      BY <1>3
    <3> QED
      BY <1>0, <2>4, <3>1
  <2> QED
    BY <2>5
<1>7. l \in C /\ \A q \in C : Len(q) <= Len(l)
  <2>1. l = CHOOSE p \in C : \A q \in C : Len(q) <= Len(p)
    BY Zenon DEF Seqs!LongestCommonPrefix
  <2> HIDE DEF C, l
  <2> QED
    BY <1>6, <2>1
<1> HIDE DEF C, l
<1>8. ASSUME Seqs!IsPrefix(b, d) PROVE Len(l) = Len(b)
  <2>1. Len(b) <= Len(l) /\ Len(l) \in 0 .. Len(b)
    BY <1>3, <1>5, <1>7, <1>8
  <2> QED
    BY <1>0, <2>1
<1>9. ASSUME Len(l) = Len(b) PROVE Seqs!IsPrefix(b, d)
  <2>1. l \in Seq(Strings) /\ b \in Seq(Strings)
        /\ SubSeq(l, 1, Len(l)) = SubSeq(b, 1, Len(l))
    BY <1>3, <1>7 DEF Seqs!IsPrefix, Elems
  <2>2. SubSeq(l, 1, Len(l)) = l /\ SubSeq(b, 1, Len(b)) = b
    BY <2>1, SubSeqFull
  <2>3. l = b
    BY <1>9, <2>1, <2>2
  <2> QED
    BY <1>3, <1>7, <2>3
<1> QED
  BY <1>3, <1>7, <1>8, <1>9 DEF l

\* What filepath.Rel returns, by where the target is.
LEMMA RelIs ==
  ASSUME NEW base, NEW targ, base.elems \in Elems, targ.elems \in Elems
  PROVE  LET b == base.elems
             d == targ.elems
         IN /\ Seqs!IsStrictPrefix(b, d) => Rel(base, targ) = SubSeq(d, Len(b) + 1, Len(d))
            /\ b = d => Rel(base, targ) = <<".">>
            /\ ~Seqs!IsPrefix(b, d) => ~Contained(Rel(base, targ))
<1> DEFINE b == base.elems
           d == targ.elems
           same == Len(Seqs!LongestCommonPrefix({b, d}))
           up == [n \in 1 .. Len(b) - same |-> ".."]
           rest == SubSeq(d, same + 1, Len(d))
           rel == up \o rest
<1>0. b \in Elems /\ d \in Elems /\ Len(b) \in Nat /\ Len(d) \in Nat
  BY DEF Elems
<1>1. /\ same \in 0 .. Len(b) /\ same \in 0 .. Len(d)
      /\ Seqs!IsPrefix(b, d) <=> same = Len(b)
  BY CommonPrefix
<1>2. Rel(base, targ) = IF rel = << >> THEN <<".">> ELSE rel
  BY Zenon DEF Rel
<1> HIDE DEF same
<1> DEFINE S == Strings \cup {".."}
<1>3. up \in Seq(S) /\ Len(up) = Len(b) - same /\ \A n \in 1 .. Len(b) - same : up[n] = ".."
  <2>1. Len(b) - same \in Nat
    BY <1>0, <1>1
  <2>2. up \in [1 .. Len(b) - same -> S]
    OBVIOUS
  <2> QED
    BY <2>1, <2>2, IsASeq, LenProperties
<1>4. rest \in Seq(S) /\ Len(rest) = Len(d) - same
  <2>1. \A n \in same + 1 .. Len(d) : d[n] \in S
    BY <1>0, <1>1 DEF Elems
  <2>2. same + 1 \in Int /\ Len(d) \in Int
    BY <1>0, <1>1
  <2>3. rest \in Seq(S) /\ Len(rest) = IF same + 1 <= Len(d) THEN Len(d) - (same + 1) + 1 ELSE 0
    <3> HIDE DEF S
    <3> QED
      BY <2>1, <2>2, SubSeqProperties
  <2> HIDE DEF rest, S
  <2> QED
    BY <1>0, <1>1, <2>3
<1> HIDE DEF up, S
<1>l. Len(up) \in Nat /\ Len(rest) \in Nat
  <2> HIDE DEF rest
  <2> QED
    BY <1>0, <1>1, <1>3, <1>4
<1>5. /\ rel \in Seq(S) /\ Len(rel) = Len(up) + Len(rest)
      /\ \A n \in 1 .. Len(up) : rel[n] = up[n]
  <2> HIDE DEF rest
  <2>1. \A n \in 1 .. Len(up) : n \in 1 .. Len(up) + Len(rest) /\ n <= Len(up)
    BY <1>l
  <2>2. rel \in Seq(S) /\ Len(rel) = Len(up) + Len(rest)
        /\ \A n \in 1 .. Len(up) + Len(rest) : rel[n] = IF n <= Len(up) THEN up[n] ELSE rest[n - Len(up)]
    BY <1>3, <1>4, ConcatProperties
  <2> HIDE DEF rel
  <2> QED
    BY <2>1, <2>2
<1>6. ASSUME Seqs!IsPrefix(b, d) PROVE same = Len(b) /\ rel = SubSeq(d, Len(b) + 1, Len(d))
  <2>1. same = Len(b) /\ Len(up) = 0
    BY <1>0, <1>1, <1>3, <1>6
  <2>2. up = << >>
    BY <1>3, <2>1
  <2> HIDE DEF rest
  <2>3. rel = rest
    BY <1>4, <2>2
  <2> QED
    BY <2>1, <2>3 DEF rest
<1> HIDE DEF rest, rel
<1>7. ASSUME Seqs!IsStrictPrefix(b, d)
      PROVE  Rel(base, targ) = SubSeq(d, Len(b) + 1, Len(d))
  <2>1. Seqs!IsPrefix(b, d) /\ b # d
    BY <1>7 DEF Seqs!IsStrictPrefix
  <2>2. Len(b) # Len(d)
    <3>1. SUFFICES ASSUME Len(b) = Len(d) PROVE FALSE
      OBVIOUS
    <3>2. SubSeq(b, 1, Len(b)) = SubSeq(d, 1, Len(d))
      BY <2>1, <3>1 DEF Seqs!IsPrefix
    <3>3. SubSeq(b, 1, Len(b)) = b /\ SubSeq(d, 1, Len(d)) = d
      BY <1>0, SubSeqFull DEF Elems
    <3> QED
      BY <2>1, <3>2, <3>3
  <2>3. Len(rel) # 0
    <3>1. same = Len(b)
      BY <1>1, <2>1
    <3>2. Len(rest) # 0
      BY <1>0, <1>1, <1>4, <2>2, <3>1
    <3> QED
      BY <1>5, <1>l, <3>2
  <2>4. rel # << >>
    BY <2>3
  <2> QED
    BY <1>2, <1>6, <2>1, <2>4
<1>8. ASSUME b = d PROVE Rel(base, targ) = <<".">>
  <2>1. Seqs!IsPrefix(b, d)
    BY <1>0, <1>8 DEF Seqs!IsPrefix
  <2>2. Len(rel) = 0
    <3>1. same = Len(b)
      BY <1>1, <2>1
    <3>2. Len(rest) = 0 /\ Len(up) = 0
      BY <1>0, <1>3, <1>4, <1>8, <3>1
    <3> QED
      BY <1>5, <3>2
  <2>3. rel = << >>
    BY <1>5, <2>2
  <2> QED
    BY <1>2, <2>3
<1>9. ASSUME ~Seqs!IsPrefix(b, d) PROVE ~Contained(Rel(base, targ))
  <2>1. 1 \in 1 .. Len(up) /\ up[1] = ".."
    BY <1>0, <1>1, <1>3, <1>9
  <2>2. rel[1] = ".."
    BY <1>5, <2>1
  <2>3. 1 \in DOMAIN rel /\ rel # << >>
    <3>1. Len(rel) \in Nat /\ Len(rel) # 0 /\ DOMAIN rel = 1 .. Len(rel)
      BY <1>l, <1>5, <2>1
    <3>2. rel # << >>
      BY <3>1
    <3> QED
      BY <3>1, <3>2
  <2>4. Rel(base, targ) = rel
    BY <1>2, <2>3
  <2> QED
    BY <2>2, <2>3, <2>4 DEF Contained
<1> QED
  BY <1>7, <1>8, <1>9

Directory == [abs : BOOLEAN, elems : Elems]

\* The elements of the path that a file is in.
Ordinary == STRING \ {".", ".."}

\* What a configuration is.
LEMMA HandlerTypes ==
  ASSUME NEW h \in Handlers
  PROVE  /\ h.path \in Directory /\ h.dirs \subseteq Directory
         /\ h.recursive \in BOOLEAN /\ h.includeHidden \in BOOLEAN
         /\ h.minSize \in Nat /\ h.maxSize \in Nat
<1>1. h \in [path : Directory, dirs : SUBSET Directory, recursive : BOOLEAN,
             includeHidden : BOOLEAN, minSize : Nat, maxSize : Nat]
  BY TriggerAssumption, Zenon DEF Directory, Elems, Strings
<1> QED
  BY <1>1

\* A file is where its directory says, without detours.
LEMMA FileTypes ==
  ASSUME NEW f \in Files
  PROVE  /\ f.hidden \in BOOLEAN /\ f.size \in Nat
         /\ Len(f.dir) \in Nat
         /\ \A n \in 1 .. Len(f.dir) : f.dir[n] # "." /\ f.dir[n] # ".."
<1>1. f \in [dir : Seq(Ordinary), hidden : BOOLEAN, size : Nat]
  BY TriggerAssumption, Zenon DEF Ordinary
<1>2. f.hidden \in BOOLEAN /\ f.size \in Nat /\ f.dir \in Seq(Ordinary)
  BY <1>1
<1>3. Len(f.dir) \in Nat /\ \A n \in 1 .. Len(f.dir) : f.dir[n] \in Ordinary
  BY <1>2
<1>4. \A x \in Ordinary : x # "." /\ x # ".."
  BY Zenon DEF Ordinary
<1> QED
  BY <1>2, <1>3, <1>4

\* The handler's path and another directory, both clean.
Root(h) == Cleaned(h.path.abs, h.path.elems)
Targ(h, path) ==
  Cleaned(h.path.abs, (IF path.abs THEN << >> ELSE h.path.elems) \o path.elems)

\* Resolve finds the way from the one to the other, as if it had been walked
\* from the beginning: that it starts from the clean base makes no difference.
LEMMA ResolveIs ==
  ASSUME NEW h \in Handlers, ~Unresolvable(h), NEW path \in h.dirs
  PROVE  /\ Root(h) \in Elems /\ Targ(h, path) \in Elems
         /\ IsClean(h.path.abs, Targ(h, path))
         /\ Seqs!IsStrictPrefix(Root(h), Targ(h, path)) =>
              Resolve(h.path, path) = SubSeq(Targ(h, path), Len(Root(h)) + 1, Len(Targ(h, path)))
         /\ Root(h) = Targ(h, path) => Resolve(h.path, path) = <<".">>
         /\ ~Seqs!IsPrefix(Root(h), Targ(h, path)) => ~Contained(Resolve(h.path, path))
<1> DEFINE a == h.path.abs
           s == h.path.elems
           t == path.elems
           base == Clean(h.path)
           targ == IF path.abs THEN Clean(path) ELSE Join(base, path)
<1>1. h.path \in Directory /\ path \in Directory
  BY HandlerTypes
<1>2. a \in BOOLEAN /\ s \in Elems /\ path.abs \in BOOLEAN /\ t \in Elems
  BY <1>1 DEF Directory
<1>3. h.path = [abs |-> a, elems |-> s] /\ path = [abs |-> path.abs, elems |-> t]
  BY <1>1 DEF Directory
<1>4. path.abs => a
  BY <1>2, Zenon DEF Unresolvable
<1>5. base = [abs |-> a, elems |-> Root(h)] /\ base.elems = Root(h)
  <2>1. base = [abs |-> a, elems |-> Cleaned(a, s)]
    BY <1>2, <1>3, CleanIs
  <2> QED
    BY <2>1 DEF Root
<1>6. Root(h) \in Elems
  BY <1>2, CleanedIsClean DEF Root
<1>7. targ.elems = Targ(h, path) /\ Targ(h, path) \in Elems /\ IsClean(a, Targ(h, path))
  <2>1. CASE path.abs
    <3>1. << >> \o t = t
      BY <1>2 DEF Elems
    <3>2. Targ(h, path) = Cleaned(a, t)
      BY <2>1, <3>1, Zenon DEF Targ
    <3>3. path.abs = a
      BY <1>2, <1>4, <2>1
    <3>4. targ = Clean([abs |-> a, elems |-> t])
      BY <1>3, <2>1, <3>3
    <3>5. targ.elems = Cleaned(a, t)
      BY <3>4, Zenon DEF Cleaned
    <3> QED
      BY <1>2, <3>2, <3>5, CleanedIsClean
  <2>2. CASE ~path.abs
    <3>1. Targ(h, path) = Cleaned(a, s \o t)
      BY <2>2, Zenon DEF Targ
    <3>2. targ = Join([abs |-> a, elems |-> Root(h)], path)
      BY <1>5, <2>2
    <3>3. targ.elems = Cleaned(a, Root(h) \o t)
      BY <1>2, <1>6, <3>2, JoinIs
    <3>4. s \o t \in Elems /\ Cleaned(a, Root(h) \o t) = Cleaned(a, s \o t)
      BY <1>2, CleanConcat DEF Root
    <3> QED
      BY <1>2, <3>1, <3>3, <3>4, CleanedIsClean
  <2> QED
    BY <2>1, <2>2
<1>8. Resolve(h.path, path) = Rel(base, targ)
  BY Zenon DEF Resolve
<1> HIDE DEF base, targ
<1> QED
  BY <1>5, <1>6, <1>7, <1>8, RelIs

\* The directories that the handler writes to.
LEMMA OwnDirsAre ==
  ASSUME NEW h \in Handlers
  PROVE  OwnDirs(h) = {SubSeq(d, Len(Root(h)) + 1, Len(d)) :
                         d \in {d \in {Targ(h, path) : path \in h.dirs} :
                                  Seqs!IsStrictPrefix(Root(h), d)}}
<1> DEFINE here == [abs |-> FALSE, elems |-> << >>]
<1>1. Place(h.path, here).elems = Root(h)
  <2>1. h.path \in Directory
    BY HandlerTypes
  <2>2. h.path.elems \o << >> = h.path.elems
    BY <2>1 DEF Directory, Elems
  <2>3. ~here.abs /\ here.elems = << >>
    OBVIOUS
  <2> HIDE DEF here
  <2>4. (IF here.abs THEN << >> ELSE h.path.elems) \o here.elems = h.path.elems
    BY <2>2, <2>3
  <2>5. Place(h.path, here) = Clean([abs |-> h.path.abs, elems |-> h.path.elems])
    BY <2>4, Zenon DEF Place
  <2> QED
    BY <2>5, Zenon DEF Root, Cleaned
<1>2. \A path : Place(h.path, path).elems = Targ(h, path)
  BY Zenon DEF Place, Targ, Cleaned
<1>3. {Place(h.path, path).elems : path \in h.dirs} = {Targ(h, path) : path \in h.dirs}
  BY <1>2
<1> QED
  BY <1>1, <1>3, Zenon DEF OwnDirs

\* A file is in a directory that the query leaves out exactly if it is in one
\* that the handler writes to.
LEMMA IgnoredIsOwn ==
  ASSUME NEW h \in Handlers, ~Unresolvable(h), NEW f \in Files
  PROVE  (\E rel \in ignoreDirs(h) : Seqs!IsPrefix(rel, f.dir)) <=>
         (\E d \in OwnDirs(h) : Seqs!IsPrefix(d, f.dir))
<1>1. ASSUME NEW rel \in ignoreDirs(h), Seqs!IsPrefix(rel, f.dir)
      PROVE  rel \in OwnDirs(h)
  <2>1. PICK path \in h.dirs : rel = Resolve(h.path, path) /\ Contained(rel)
    BY Zenon DEF ignoreDirs
  <2> DEFINE t == Targ(h, path)
  <2>2. Seqs!IsPrefix(Root(h), t)
    BY <2>1, ResolveIs, Zenon
  <2>3. Root(h) # t
    <3>1. SUFFICES ASSUME Root(h) = t PROVE FALSE
      OBVIOUS
    <3>2. rel = <<".">>
      BY <2>1, <3>1, ResolveIs, Zenon
    <3> DEFINE g == f.dir
    <3>3. Len(g) \in Nat /\ \A n \in 1 .. Len(g) : g[n] # "."
      BY FileTypes
    <3> HIDE DEF g
    <3>4. Seqs!IsPrefix(<<".">>, g)
      BY <1>1, <3>2 DEF g
    <3>5. Len(<<".">>) = 1 /\ SubSeq(<<".">>, 1, 1)[1] = "."
      OBVIOUS
    <3>6. 1 <= Len(g) /\ SubSeq(g, 1, 1)[1] = "."
      BY <3>4, <3>5 DEF Seqs!IsPrefix
    <3>7. SubSeq(g, 1, 1)[1] = g[1]
      <4> DEFINE S == {g[1]}
      <4>1. \A n \in 1 .. 1 : g[n] \in S
        OBVIOUS
      <4>2. \A n \in 1 .. 1 - 1 + 1 : SubSeq(g, 1, 1)[n] = g[1 + n - 1]
        <5> HIDE DEF S
        <5> QED
          BY <4>1, SubSeqProperties
      <4> QED
        BY <4>2
    <3>8. g[1] = "." /\ 1 \in 1 .. Len(g)
      BY <3>3, <3>6, <3>7
    <3> QED
      BY <3>3, <3>8
  <2>4. Seqs!IsStrictPrefix(Root(h), t)
    BY <2>2, <2>3, Zenon DEF Seqs!IsStrictPrefix
  <2>5. rel = SubSeq(t, Len(Root(h)) + 1, Len(t))
    BY <2>1, <2>4, ResolveIs, Zenon
  <2>6. t \in {d \in {Targ(h, p) : p \in h.dirs} : Seqs!IsStrictPrefix(Root(h), d)}
    BY <2>4, Zenon
  <2> HIDE DEF t
  <2> QED
    BY <2>5, <2>6, OwnDirsAre, Zenon
<1>2. ASSUME NEW d \in OwnDirs(h), Seqs!IsPrefix(d, f.dir)
      PROVE  d \in ignoreDirs(h)
  <2>1. PICK t \in {x \in {Targ(h, p) : p \in h.dirs} : Seqs!IsStrictPrefix(Root(h), x)} :
          d = SubSeq(t, Len(Root(h)) + 1, Len(t))
    BY OwnDirsAre, Zenon
  <2>2. PICK path \in h.dirs : t = Targ(h, path)
    BY <2>1, Zenon
  <2>3. Seqs!IsStrictPrefix(Root(h), t)
    BY <2>1, Zenon
  <2>4. d = Resolve(h.path, path)
    BY <2>1, <2>2, <2>3, ResolveIs, Zenon
  <2>5. Contained(d)
    <3> DEFINE b == Root(h)
               g == f.dir
    <3>1. b \in Seq(Strings) /\ t \in Seq(Strings)
      BY <2>2, ResolveIs DEF Elems
    <3>2. Len(b) <= Len(t) /\ SubSeq(b, 1, Len(b)) = SubSeq(t, 1, Len(b)) /\ b # t
      BY <2>3, Zenon DEF Seqs!IsStrictPrefix, Seqs!IsPrefix
    <3>3. Len(g) \in Nat /\ \A n \in 1 .. Len(g) : g[n] # ".."
      BY FileTypes
    <3>4. Len(d) <= Len(g) /\ SubSeq(d, 1, Len(d)) = SubSeq(g, 1, Len(d))
      BY <1>2, Zenon DEF Seqs!IsPrefix
    <3> HIDE DEF b, g
    <3>5. Len(b) < Len(t)
      <4>1. SUFFICES ASSUME Len(b) = Len(t) PROVE FALSE
        BY <3>1, <3>2
      <4>2. SubSeq(b, 1, Len(b)) = b /\ SubSeq(t, 1, Len(t)) = t
        BY <3>1, SubSeqFull
      <4> QED
        BY <3>2, <4>1, <4>2
    <3>6. d \in Seq(Strings) /\ Len(d) > 0
      <4>1. d = SubSeq(t, Len(b) + 1, Len(t))
        BY <2>1 DEF b
      <4>2. Len(b) \in Nat /\ Len(t) \in Nat /\ \A n \in Len(b) + 1 .. Len(t) : t[n] \in Strings
        BY <3>1
      <4>3. Len(b) + 1 \in Int /\ Len(t) \in Int
        BY <4>2
      <4>4. d \in Seq(Strings)
            /\ Len(d) = IF Len(b) + 1 <= Len(t) THEN Len(t) - (Len(b) + 1) + 1 ELSE 0
        BY <4>1, <4>2, <4>3, SubSeqProperties
      <4> QED
        BY <3>5, <4>2, <4>4
    <3>7. SubSeq(d, 1, Len(d)) = d
      BY <3>6, SubSeqFull
    <3>8. ASSUME NEW n \in 1 .. Len(d) PROVE d[n] # ".."
      <4> DEFINE S == {g[k] : k \in 1 .. Len(d)}
      <4>1. \A k \in 1 .. Len(d) : g[k] \in S
        OBVIOUS
      <4>2. 1 \in Int /\ Len(d) \in Int
        BY <3>6
      <4>3. \A k \in 1 .. Len(d) - 1 + 1 : SubSeq(g, 1, Len(d))[k] = g[1 + k - 1]
        <5> HIDE DEF S
        <5> QED
          BY <4>1, <4>2, SubSeqProperties
      <4>4. d[n] = g[n] /\ n \in 1 .. Len(g)
        <5>1. n \in 1 .. Len(d) - 1 + 1 /\ 1 + n - 1 = n /\ n \in 1 .. Len(g)
          BY <3>3, <3>4, <3>6
        <5> QED
          BY <3>4, <3>7, <4>3, <5>1
      <4> QED
        BY <3>3, <4>4
    <3>9. DOMAIN d = 1 .. Len(d)
      BY <3>6
    <3> QED
      BY <3>6, <3>8, <3>9 DEF Contained
  <2> QED
    BY <2>4, <2>5, Zenon DEF ignoreDirs
<1> QED
  BY <1>1, <1>2, Zenon

\* What the query means.
LEMMA QueryMeans ==
  ASSUME NEW h \in Handlers, NEW f \in Files
  PROVE  (\A term \in makeQueryExpression(h) : Holds(term, f)) <=>
           /\ ~ \E rel \in ignoreDirs(h) : Seqs!IsPrefix(rel, f.dir)
           /\ h.recursive \/ f.dir = << >>
           /\ h.includeHidden \/ ~f.hidden
           /\ f.size >= h.minSize
           /\ h.maxSize = 0 \/ f.size <= h.maxSize
<1> DEFINE A == IF h.recursive THEN {} ELSE {<<"top">>}
           B == {<<"not dirname", rel>> : rel \in ignoreDirs(h)}
           C == IF h.includeHidden THEN {} ELSE {<<"not hidden">>}
           D == IF h.minSize > 0 THEN {<<"size ge", h.minSize>>} ELSE {}
           E == IF h.maxSize > 0 THEN {<<"size le", h.maxSize>>} ELSE {}
<1>1. makeQueryExpression(h) = A \cup B \cup C \cup D \cup E
  BY Zenon DEF makeQueryExpression
<1>2. Holds(<<"top">>, f) <=> f.dir = << >>
  BY DEF Holds
<1>3. \A rel : Holds(<<"not dirname", rel>>, f) <=> ~Seqs!IsPrefix(rel, f.dir)
  BY DEF Holds
<1>4. Holds(<<"not hidden">>, f) <=> ~f.hidden
  BY DEF Holds
<1>5. \A n : Holds(<<"size ge", n>>, f) <=> f.size >= n
  BY DEF Holds
<1>6. \A n : Holds(<<"size le", n>>, f) <=> f.size <= n
  BY DEF Holds
<1>7. (\A term \in A : Holds(term, f)) <=> h.recursive \/ f.dir = << >>
  BY <1>2, Zenon
<1>8. (\A term \in B : Holds(term, f)) <=> ~ \E rel \in ignoreDirs(h) : Seqs!IsPrefix(rel, f.dir)
  BY <1>3, Zenon
<1>9. (\A term \in C : Holds(term, f)) <=> h.includeHidden \/ ~f.hidden
  BY <1>4, Zenon
<1>10. (\A term \in D : Holds(term, f)) <=> f.size >= h.minSize
  <2>1. (\A term \in D : Holds(term, f)) <=> ~(h.minSize > 0) \/ f.size >= h.minSize
    BY <1>5, Zenon
  <2>2. ~(h.minSize > 0) => f.size >= h.minSize
    <3>1. h.minSize \in Nat /\ f.size \in Nat
      BY HandlerTypes, FileTypes
    <3> QED
      BY <3>1
  <2> QED
    BY <2>1, <2>2, Zenon
<1>11. (\A term \in E : Holds(term, f)) <=> h.maxSize = 0 \/ f.size <= h.maxSize
  <2>1. (\A term \in E : Holds(term, f)) <=> ~(h.maxSize > 0) \/ f.size <= h.maxSize
    BY <1>6, Zenon
  <2>2. ~(h.maxSize > 0) <=> h.maxSize = 0
    <3>1. h.maxSize \in Nat
      BY HandlerTypes
    <3> QED
      BY <3>1
  <2> QED
    BY <2>1, <2>2, Zenon
<1> HIDE DEF A, B, C, D, E
<1>12. (\A term \in makeQueryExpression(h) : Holds(term, f)) <=>
         /\ \A term \in A : Holds(term, f)
         /\ \A term \in B : Holds(term, f)
         /\ \A term \in C : Holds(term, f)
         /\ \A term \in D : Holds(term, f)
         /\ \A term \in E : Holds(term, f)
  BY <1>1, Zenon
<1> QED
  BY <1>7, <1>8, <1>9, <1>10, <1>11, <1>12, Zenon

\* The query is the handler's.
TriggerInv ==
  /\ handler \in Handlers
  /\ query # NoQuery => ~Unresolvable(handler) /\ query = makeQueryExpression(handler)

\* Watchman reports the files that the handler is configured for, and none of
\* those that the handler writes itself, for every configuration: however
\* newTriggerConfig finds the journal, success and failure directory written,
\* relpath.Resolve leads to where a walk through the tree ends.
THEOREM OwnFilesExcluded == TriggerSpec => []NoFeedback
<1>1. (\E h \in Handlers : TriggerInit(h)) => TriggerInv
  BY Zenon DEF TriggerInit, TriggerInv
<1>2. TriggerInv /\ [TriggerNext]_triggerVars => TriggerInv'
  <2> SUFFICES ASSUME TriggerInv, [TriggerNext]_triggerVars PROVE TriggerInv'
    OBVIOUS
  <2>1. CASE newTriggerConfig
    BY <2>1, Zenon DEF newTriggerConfig, TriggerInv
  <2>2. CASE UNCHANGED triggerVars
    BY <2>2, Zenon DEF triggerVars, TriggerInv
  <2> QED
    BY <2>1, <2>2 DEF TriggerNext
<1>3. TriggerInv => NoFeedback
  <2> SUFFICES ASSUME TriggerInv, query # NoQuery, NEW f \in Files
               PROVE  Reported(f) <=>
                        /\ ~ \E d \in OwnDirs(handler) : Seqs!IsPrefix(d, f.dir)
                        /\ handler.recursive \/ f.dir = << >>
                        /\ handler.includeHidden \/ ~f.hidden
                        /\ f.size >= handler.minSize
                        /\ handler.maxSize = 0 \/ f.size <= handler.maxSize
    BY Zenon DEF NoFeedback
  <2>1. handler \in Handlers /\ ~Unresolvable(handler) /\ query = makeQueryExpression(handler)
    BY Zenon DEF TriggerInv
  <2>2. Reported(f) <=> \A term \in makeQueryExpression(handler) : Holds(term, f)
    BY <2>1, Zenon DEF Reported
  <2> QED
    BY <2>1, <2>2, QueryMeans, IgnoredIsOwn, Zenon
<1> QED
  BY <1>1, <1>2, <1>3, PTL DEF TriggerSpec
=============================================================================
