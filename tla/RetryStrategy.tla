---------------------------- MODULE RetryStrategy ----------------------------
(***************************************************************************)
(* The attempts of one task whose command keeps failing: the delays from   *)
(* handlerretrystrategy, the random fuzz that handlertask adds, what the   *)
(* scheduler makes of a negative delay, and what the attempt is told about *)
(* being the last one.  Durations are integers of limited width.  They go  *)
(* through floating-point numbers: the delay is multiplied as a float64,   *)
(* whose rounding is a parameter here, and the fuzz is a float32, of which *)
(* only the bound matters.                                                 *)
(***************************************************************************)
EXTENDS Integers

CONSTANTS
  MaxDuration,        \* math.MaxInt64
  Float64,            \* the float64 nearest to a duration
  Exact,              \* 2^53: up to here it is the duration itself
  FuzzNum, FuzzDen,   \* the fuzz is at most this part of a delay: 1/20 and
                      \* what float32 adds to it, see Fuzz
  RetryCounts, InitialDelays, Factors, MaxDelays   \* of the handlers

MinDuration == - MaxDuration - 1
Durations == MinDuration .. MaxDuration

\* scheduler.Stop
Stop == -1

\* What validation lets pass.  A float64 is a fraction.
Configs ==
  {c \in [count : RetryCounts, initial : InitialDelays,
          factor : Factors, max : MaxDelays] :
     /\ c.count >= 0 /\ c.initial > 0 /\ c.factor.num >= c.factor.den
     /\ c.max = 0 \/ c.max >= c.initial}

ASSUME RetryAssumption ==
  /\ MaxDuration \in Nat \ {0}
  /\ Exact \in Nat \ {0, 1}
  /\ FuzzNum \in Nat /\ FuzzDen \in Nat /\ FuzzNum < FuzzDen
  /\ InitialDelays \cup MaxDelays \subseteq 0 .. MaxDuration
  /\ RetryCounts \subseteq Nat
  /\ \A f \in Factors : f.num \in Nat /\ f.den \in Nat \ {0}

\* Rounding to the nearest of the representable numbers: 2^63 is one.  The
\* durations that matter are those up to the first one that is too large.
ASSUME FloatAssumption ==
  /\ Float64 \in [0 .. MaxDuration + 1 -> 0 .. MaxDuration + 1]
  /\ Float64[MaxDuration + 1] = MaxDuration + 1
  /\ \A d \in 0 .. MaxDuration + 1 :
       /\ Float64[Float64[d]] = Float64[d]
       /\ Float64[d] \in d - d \div Exact .. d + d \div Exact
       /\ \A e \in d .. MaxDuration + 1 : Float64[d] <= Float64[e]

VARIABLES
  cfg,
  remaining, delay,   \* of the Strategy
  attempts,           \* attempts so far, all of them failed
  final,              \* was the latest attempt told to be the last one?
  wait,               \* RetryDelay of the latest attempt's TaskError
  over,               \* the scheduler has given up
  huge                \* a delay came within a fuzz of the largest duration

retryVars == <<cfg, remaining, delay, attempts, final, wait, over, huge>>

RetryTypeOK ==
  /\ cfg \in Configs
  /\ remaining \in Int /\ delay \in Durations
  /\ attempts \in Nat /\ final \in BOOLEAN /\ wait \in Durations
  /\ over \in BOOLEAN /\ huge \in BOOLEAN

Abs(d) == IF d < 0 THEN -d ELSE d

\* The most that fuzzduration.Random adds or takes.  The factor, the duration
\* and their product are rounded to float32 and may each be larger than they
\* should, by one part in 2^24 (the factor by less), so that the fraction is
\* not 1/20 but 1/20 * (1 + 2^-22) at the most; the result is cut off.
Fuzz(d) == (d * FuzzNum) \div FuzzDen

\* A delay that can be fuzzed without an overflow.
Tame(d) == d >= 0 /\ d + Fuzz(d) <= MaxDuration

RetryInit(c) ==
  /\ cfg = c
  /\ remaining = c.count /\ delay = c.initial
  /\ attempts = 0 /\ final = FALSE /\ wait = 0 /\ over = FALSE
  /\ huge = ~Tame(c.initial)

-----------------------------------------------------------------------------
\* Conversion of a float64: Go leaves open what becomes of a value that is
\* too large; amd64 makes the least number of it, arm64 the largest.
ToDuration(d) == IF d > MaxDuration THEN {MinDuration, MaxDuration} ELSE {d}

\* Integers wrap around.
Wrap(d) ==
  ((d - MinDuration) % (2 * MaxDuration + 2)) + MinDuration

\* fuzzduration.Random
Random(d) == {Wrap(d + f) : f \in -Fuzz(Abs(d)) .. Fuzz(Abs(d))}

\* Mutant: one attempt too many.
CurrentOneMore == IF remaining < 0 THEN Stop ELSE delay

Current == IF remaining <= 0 THEN Stop ELSE delay

\* Beyond the largest duration all numbers are alike.
Clip(d) == IF d > MaxDuration THEN MaxDuration + 1 ELSE d

\* A fraction as a float64 that is then cut off: one of the two numbers that
\* it lies between, rounded.
Quotients(n, m) ==
  {Float64[Clip(n \div m)]} \cup
  {Float64[Clip(n \div m + 1)] : x \in {y \in {n} : y % m # 0}}

\* float64(r.delay) * r.factor
Products ==
  {IF delay < 0 THEN -p ELSE p :
     p \in Quotients(Float64[Abs(delay)] * cfg.factor.num, cfg.factor.den)}

\* Mutant: no limit.
LimitNone(d) == d

Limit(d) == IF cfg.max > 0 /\ d > Float64[cfg.max] THEN Float64[cfg.max] ELSE d

\* Strategy.Advance
Advance ==
  IF remaining < 0 THEN UNCHANGED <<remaining, delay, huge>>
  ELSE /\ \E p \in Products :
            /\ delay' \in ToDuration(Limit(p))
            /\ huge' = (huge \/ ~Tame(Limit(p)))
       /\ remaining' = remaining - 1

\* Task.Run and Task.run: the attempt fails, and there will be another one
\* unless the delay is negative.
Fails ==
  /\ ~over
  /\ attempts' = attempts + 1
  /\ final' = (Current = Stop)
  /\ \E w \in Random(Current) : wait' = w
  /\ over' = (wait' < 0)
  /\ Advance
  /\ UNCHANGED cfg

RetryNext == Fails

RetrySpec == (\E c \in Configs : RetryInit(c)) /\ [][RetryNext]_retryVars

-----------------------------------------------------------------------------
(* Properties                                                              *)

\* A failing task never has more than its retry_count retries, whatever its
\* delays become; the attempt that is told to be final, which moves the file
\* out of the way, is the last one; and the scheduler gives up on no other
\* attempt as long as delays are below 278 years.
FinalIsLast ==
  /\ attempts <= cfg.count + 1
  /\ final => over /\ attempts = cfg.count + 1
  /\ over => final \/ huge

\* What rounding may make of a duration.
Low(d) == d - d \div Exact
High(d) == d + d \div Exact

\* "Maximum amount of time waiting between retry attempts": a wait exceeds
\* neither this maximum nor falls below the initial delay by more than the
\* fuzz and the rounding to float64, which only changes delays above 104
\* days; and the delays before fuzzing never become shorter, once rounded.
DelaysBounded ==
  [][~huge' =>
       /\ delay' >= Float64[delay]
       /\ ~over' =>
            /\ wait' >= Low(cfg.initial) - Fuzz(Low(cfg.initial))
            /\ cfg.max > 0 => wait' <= High(cfg.max) + Fuzz(High(cfg.max))]_retryVars
=============================================================================
