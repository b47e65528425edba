-------------------------- MODULE JournalDirsProofs --------------------------
(***************************************************************************)
(* Proofs about JournalDirs, for any number of callers, any depth of the   *)
(* path and any set of names.                                              *)
(***************************************************************************)
EXTENDS JournalDirs, TLAPS

\* The path is a path: what exists is in a directory.
Rooted == \A l \in Levels : elem[l] # "none" => ParentOK(l)

\* EnsureRelDir's loop is below the base directory, and all elements before
\* the current one exist; after the loop all do.  A caller that has not gone
\* past a file has directories behind it.
LoopInv ==
  \A c \in Callers :
    /\ pc[c] \in {"stat", "mkdir", "exists"} => level[c] \in Levels
    /\ pc[c] \in {"stat", "mkdir", "exists"} =>
         \A l \in Levels : l < level[c] => elem[l] # "none"
    /\ pc[c] \in {"stat", "mkdir", "exists"} /\ c \notin slipped =>
         \A l \in Levels : l < level[c] => elem[l] = "dir"
    /\ pc[c] = "exists" => elem[level[c]] # "none"

AfterInv ==
  \A c \in Callers :
    /\ pc[c] = "claim" /\ where = "below" =>
         /\ \A l \in Levels : elem[l] # "none"
         /\ c \notin slipped => elem[Depth] = "dir"
    /\ pc[c] = "ok" => elem[Depth] = "dir"

PathInv == Rooted /\ LoopInv /\ AfterInv

\* At the start all callers are before the loop.
LEMMA InitPath == Init => TypeOK /\ PathInv
BY DirsAssumption DEF Init, TypeOK, PathInv, Rooted, LoopInv, AfterInv, Names, Levels

\* What Advance does to a caller that finds its element in place.
LEMMA AdvanceKeeps ==
  ASSUME TypeOK, PathInv, NEW c \in Callers,
         pc[c] \in {"stat", "mkdir", "exists"}, Advance(c),
         UNCHANGED <<where, taken, sources, candidate>>,
         elem' \in [Levels -> {"none", "dir", "file"}],
         slipped' \in SUBSET Callers, slipped \subseteq slipped',
         \A l \in Levels : elem[l] # "none" => elem'[l] = elem[l],
         elem'[level[c]] # "none",
         c \notin slipped' => elem'[level[c]] = "dir",
         Rooted'
  PROVE  TypeOK' /\ PathInv'
<1> USE DirsAssumption DEF Levels
<1>1. level[c] \in Levels /\ level[c] \in Nat
  BY DEF TypeOK, PathInv, LoopInv
<1>2. TypeOK'
  BY <1>1 DEF TypeOK, Advance, GoTo
<1>3. \A l \in Levels : l < level[c] + 1 => elem'[l] # "none"
  <2>1. \A l \in Levels : l < level[c] => elem'[l] # "none"
    BY <1>1 DEF PathInv, LoopInv
  <2>2. \A l \in Levels : l < level[c] + 1 => l < level[c] \/ l = level[c]
    BY <1>1
  <2>3. QED
    BY <2>1, <2>2
<1>4. ASSUME c \notin slipped' PROVE \A l \in Levels : l < level[c] + 1 => elem'[l] = "dir"
  <2>1. \A l \in Levels : l < level[c] => elem'[l] = "dir"
    BY <1>1, <1>4 DEF PathInv, LoopInv
  <2>2. \A l \in Levels : l < level[c] + 1 => l < level[c] \/ l = level[c]
    BY <1>1
  <2>3. QED
    BY <2>1, <2>2, <1>4
<1>5. /\ pc' = [pc EXCEPT ![c] = IF level[c] < Depth THEN "stat" ELSE "claim"]
      /\ level' = [level EXCEPT ![c] = level[c] + 1]
      /\ pc \in [Callers -> {"resolve", "stat", "mkdir", "exists", "claim", "ok", "error"}]
      /\ level \in [Callers -> 1 .. Depth + 1]
  BY DEF Advance, GoTo, TypeOK
<1>6. LoopInv'
  <2>1. ASSUME NEW x \in Callers, x # c PROVE pc'[x] = pc[x] /\ level'[x] = level[x]
    BY <1>5, <2>1
  <2>2. level'[c] = level[c] + 1 /\ (pc'[c] # "claim" => pc'[c] = "stat" /\ level[c] < Depth)
    BY <1>5
  <2>3. ASSUME NEW x \in Callers
        PROVE  /\ pc'[x] \in {"stat", "mkdir", "exists"} => level'[x] \in Levels
               /\ pc'[x] \in {"stat", "mkdir", "exists"} =>
                    \A l \in Levels : l < level'[x] => elem'[l] # "none"
               /\ pc'[x] \in {"stat", "mkdir", "exists"} /\ x \notin slipped' =>
                    \A l \in Levels : l < level'[x] => elem'[l] = "dir"
               /\ pc'[x] = "exists" => elem'[level'[x]] # "none"
    <3>1. CASE x = c
      BY <3>1, <2>2, <1>1, <1>3, <1>4
    <3>2. CASE x # c
      BY <3>2, <2>1 DEF PathInv, LoopInv
    <3>3. QED
      BY <3>1, <3>2
  <2>4. QED
    BY <2>3 DEF LoopInv
<1>7. AfterInv'
  <2>1. ASSUME NEW x \in Callers
        PROVE  /\ pc'[x] = "claim" /\ where' = "below" =>
                    /\ \A l \in Levels : elem'[l] # "none"
                    /\ x \notin slipped' => elem'[Depth] = "dir"
               /\ pc'[x] = "ok" => elem'[Depth] = "dir"
    <3>1. CASE x = c
      <4>1. CASE level[c] < Depth
        BY <3>1, <4>1, <1>5
      <4>2. CASE ~(level[c] < Depth)
        <5>1. level[c] = Depth /\ pc'[c] = "claim"
          BY <4>2, <1>1, <1>5
        <5>2. QED
          BY <3>1, <5>1, <1>3, <1>4
      <4>3. QED
        BY <4>1, <4>2
    <3>2. CASE x # c
      <4>1. pc'[x] = pc[x]
        BY <1>5, <3>2
      <4>2. Depth \in Levels
        OBVIOUS
      <4>3. QED
        BY <4>1, <4>2 DEF PathInv, AfterInv
    <3>3. QED
      BY <3>1, <3>2
  <2>2. QED
    BY <2>1 DEF AfterInv
<1>8. QED
  BY <1>2, <1>6, <1>7 DEF PathInv

\* A caller leaves the loop or goes on inside of it with the same element.
LEMMA OthersKeep ==
  ASSUME TypeOK, PathInv, NEW c \in Callers,
         NEW l \in {"stat", "mkdir", "exists", "claim", "ok", "error"}, GoTo(c, l),
         UNCHANGED <<where, elem, level, slipped>>,
         l \in {"stat", "mkdir", "exists"} =>
           pc[c] \in {"stat", "mkdir", "exists"} \/ (pc[c] = "resolve" /\ level[c] = 1),
         l = "exists" => elem[level[c]] # "none",
         l = "claim" => where # "below",
         l = "ok" => elem[Depth] = "dir"
  PROVE  PathInv'
<1>1. Rooted'
  BY DEF PathInv, Rooted, ParentOK
<1>2. pc' = [pc EXCEPT ![c] = l] /\ Depth >= 1 /\ Depth \in Nat
  BY DirsAssumption DEF GoTo
<1>3. LoopInv'
  BY <1>2 DEF TypeOK, PathInv, LoopInv, Levels
<1>4. AfterInv'
  BY <1>2 DEF TypeOK, PathInv, AfterInv, Levels
<1>5. QED
  BY <1>1, <1>3, <1>4 DEF PathInv

\* Before the loop every caller is at the first element.
AtFirst == \A c \in Callers : pc[c] = "resolve" => level[c] = 1

\* The types and the loop's invariant need each other: Advance stays in the
\* path because it is only taken inside of it.
LEMMA StepPath ==
  TypeOK /\ PathInv /\ AtFirst /\ [Next]_vars => TypeOK' /\ PathInv' /\ AtFirst'
<1> SUFFICES ASSUME TypeOK, PathInv, AtFirst, [Next]_vars PROVE TypeOK' /\ PathInv' /\ AtFirst'
  OBVIOUS
<1> USE DirsAssumption
<1>a. ASSUME NEW c \in Callers, NEW l \in {"stat", "mkdir", "exists", "claim", "ok", "error"},
             GoTo(c, l), UNCHANGED level
      PROVE  AtFirst'
  BY <1>a DEF AtFirst, GoTo, TypeOK
<1>b. ASSUME NEW c \in Callers, Advance(c) PROVE AtFirst'
  BY <1>b DEF AtFirst, Advance, GoTo, TypeOK
<1>c. \A c \in Callers : pc[c] \in {"stat", "mkdir", "exists"} =>
        level[c] \in Levels /\ elem[level[c]] \in {"none", "dir", "file"}
  BY DEF PathInv, LoopInv, TypeOK
<1>1. ASSUME NEW c \in Callers, Resolve(c) PROVE TypeOK' /\ PathInv' /\ AtFirst'
  <2>1. PICK l \in {"stat", "claim", "error"} :
          GoTo(c, l) /\ (l = "claim" => where # "below")
    BY <1>1 DEF Resolve, TypeOK
  <2>2. TypeOK'
    BY <1>1, <2>1 DEF TypeOK, Resolve, GoTo
  <2>3. pc[c] = "resolve" /\ level[c] = 1 /\ UNCHANGED <<where, elem, level, slipped>>
    BY <1>1 DEF Resolve, AtFirst
  <2>4. PathInv'
    BY <2>1, <2>3, OthersKeep
  <2>5. QED
    BY <2>1, <2>2, <2>3, <2>4, <1>a
<1>2. ASSUME NEW c \in Callers, Stat(c) PROVE TypeOK' /\ PathInv' /\ AtFirst'
  <2>1. CASE elem[level[c]] = "dir" /\ Advance(c)
    <3>1. /\ pc[c] = "stat"
          /\ UNCHANGED <<where, elem, taken, sources, slipped, candidate>>
      BY <1>2 DEF Stat
    <3>2. Rooted'
      BY <3>1 DEF Rooted, ParentOK, PathInv
    <3>3. elem' \in [Levels -> {"none", "dir", "file"}] /\ slipped' \in SUBSET Callers
      BY <3>1 DEF TypeOK
    <3>4. QED
      BY <2>1, <3>1, <3>2, <3>3, AdvanceKeeps, <1>b
  <2>2. CASE \E l \in {"mkdir", "error"} : GoTo(c, l) /\ UNCHANGED level
    <3>1. PICK l \in {"mkdir", "error"} : GoTo(c, l) /\ UNCHANGED level
      BY <2>2
    <3>2. pc[c] = "stat" /\ UNCHANGED <<where, elem, taken, sources, slipped, candidate>>
      BY <1>2 DEF Stat
    <3>3. TypeOK'
      BY <3>1, <3>2 DEF TypeOK, GoTo
    <3>4. QED
      BY <3>1, <3>2, <3>3, OthersKeep, <1>a
  <2>3. QED
    BY <1>2, <2>1, <2>2 DEF Stat
<1>3. ASSUME NEW c \in Callers, Mkdir(c) PROVE TypeOK' /\ PathInv' /\ AtFirst'
  <2>1. pc[c] = "mkdir" /\ UNCHANGED <<where, taken, sources, slipped, candidate>>
    BY <1>3 DEF Mkdir
  <2>2. CASE /\ elem[level[c]] = "none" /\ ParentOK(level[c])
             /\ elem' = [elem EXCEPT ![level[c]] = "dir"]
             /\ Advance(c)
    <3>1. elem' \in [Levels -> {"none", "dir", "file"}] /\ slipped' \in SUBSET Callers
      BY <2>1, <2>2 DEF TypeOK
    <3>2. \A l \in Levels : elem[l] # "none" => elem'[l] = elem[l]
      BY <2>2 DEF TypeOK
    <3>3. elem'[level[c]] = "dir"
      BY <2>1, <2>2, <1>c DEF TypeOK
    <3>4. Rooted'
      <4>1. \A l \in Levels : l # level[c] => elem'[l] = elem[l]
        BY <2>2 DEF TypeOK
      <4>2. ASSUME NEW l \in Levels, elem'[l] # "none", l > 1 PROVE elem'[l - 1] = "dir"
        <5>1. l - 1 \in Levels
          BY <4>2 DEF Levels
        <5>2. elem[l - 1] = "dir"
          BY <4>1, <4>2, <2>2 DEF PathInv, Rooted, ParentOK
        <5>3. QED
          BY <5>1, <5>2, <3>2
      <4>3. QED
        BY <4>2 DEF Rooted, ParentOK
    <3>5. QED
      BY <2>1, <2>2, <3>1, <3>2, <3>3, <3>4, AdvanceKeeps, <1>b
  <2>3. CASE \E l \in {"exists", "error"} :
                /\ GoTo(c, l) /\ (l = "exists" => elem[level[c]] # "none")
                /\ UNCHANGED <<elem, level>>
    <3>1. PICK l \in {"exists", "error"} :
                /\ GoTo(c, l) /\ (l = "exists" => elem[level[c]] # "none")
                /\ UNCHANGED <<elem, level>>
      BY <2>3
    <3>2. TypeOK'
      BY <2>1, <3>1 DEF TypeOK, GoTo
    <3>3. QED
      BY <2>1, <3>1, <3>2, OthersKeep, <1>a
  <2>4. QED
    BY <1>3, <2>2, <2>3 DEF Mkdir
<1>4. ASSUME NEW c \in Callers, AlreadyExists(c) PROVE TypeOK' /\ PathInv' /\ AtFirst'
  <2>1. pc[c] = "exists" /\ UNCHANGED <<where, elem, taken, sources, candidate>>
    BY <1>4 DEF AlreadyExists
  <2>2. CASE GoTo(c, "error") /\ UNCHANGED <<level, slipped>>
    <3>1. TypeOK'
      BY <2>1, <2>2 DEF TypeOK, GoTo
    <3>2. QED
      BY <2>1, <2>2, <3>1, OthersKeep, <1>a
  <2>3. CASE /\ Advance(c)
             /\ slipped' = IF elem[level[c]] # "dir" THEN slipped \cup {c} ELSE slipped
    <3>1. Rooted'
      BY <2>1 DEF Rooted, ParentOK, PathInv
    <3>2. slipped' \in SUBSET Callers /\ slipped \subseteq slipped'
      BY <2>3 DEF TypeOK
    <3>3. c \notin slipped' => elem'[level[c]] = "dir"
      BY <2>1, <2>3
    <3>4. elem[level[c]] # "none" /\ elem' \in [Levels -> {"none", "dir", "file"}]
      BY <2>1 DEF PathInv, LoopInv, TypeOK
    <3>5. QED
      BY <2>1, <2>3, <3>1, <3>2, <3>3, <3>4, AdvanceKeeps, <1>b
  <2>4. QED
    BY <1>4, <2>2, <2>3 DEF AlreadyExists
<1>5. ASSUME NEW c \in Callers, Claim(c) \/ ClaimFails(c) PROVE TypeOK' /\ PathInv' /\ AtFirst'
  <2>1. PICK l \in {"ok", "error"} :
          /\ GoTo(c, l) /\ UNCHANGED <<where, elem, level, slipped>>
          /\ l = "ok" => elem[Depth] = "dir"
    BY <1>5 DEF Claim, ClaimFails, Possible
  <2>2. TypeOK'
    BY <1>5, <2>1 DEF Claim, ClaimFails, GoTo, TypeOK
  <2>3. QED
    BY <2>1, <2>2, OthersKeep, <1>a
<1>6. ASSUME UNCHANGED <<where, elem, slipped, pc, level>> PROVE PathInv' /\ AtFirst'
  BY <1>6 DEF PathInv, AtFirst, Rooted, ParentOK, LoopInv, AfterInv
<1>7. ASSUME NEW c \in Callers, NextName(c) \/ SourceVanishes(c)
      PROVE  TypeOK' /\ PathInv' /\ AtFirst'
  <2>1. TypeOK'
    BY <1>7 DEF NextName, SourceVanishes, TypeOK, Names
  <2>2. UNCHANGED <<where, elem, slipped, pc, level>>
    BY <1>7 DEF NextName, SourceVanishes
  <2>3. QED
    BY <2>1, <2>2, <1>6
<1>8. ASSUME NEW l \in Levels, UserMakes(l) PROVE TypeOK' /\ PathInv' /\ AtFirst'
  <2>1. PICK k \in {"dir", "file"} : elem' = [elem EXCEPT ![l] = k]
    BY <1>8 DEF UserMakes
  <2>2. UNCHANGED <<where, taken, sources, slipped, pc, level, candidate>>
    BY <1>8 DEF UserMakes
  <2>3. TypeOK' /\ AtFirst'
    BY <2>1, <2>2 DEF TypeOK, AtFirst
  <2>4. \A j \in Levels : elem[j] # "none" => elem'[j] = elem[j]
    BY <1>8, <2>1 DEF UserMakes, TypeOK
  <2>5. Rooted'
    <3>1. \A j \in Levels : j # l => elem'[j] = elem[j]
      BY <2>1 DEF TypeOK
    <3>2. ASSUME NEW j \in Levels, elem'[j] # "none", j > 1 PROVE elem'[j - 1] = "dir"
      <4>1. j - 1 \in Levels
        BY <3>2 DEF Levels
      <4>2. elem[j - 1] = "dir"
        BY <3>1, <3>2, <1>8 DEF UserMakes, PathInv, Rooted, ParentOK
      <4>3. QED
        BY <4>1, <4>2, <2>4
    <3>3. QED
      BY <3>2 DEF Rooted, ParentOK
  <2>6. LoopInv'
    BY <2>2, <2>4 DEF PathInv, LoopInv
  <2>7. AfterInv'
    <3>1. Depth \in Levels
      BY DEF Levels
    <3>2. QED
      BY <2>2, <2>4, <3>1 DEF PathInv, AfterInv
  <2>8. QED
    BY <2>3, <2>5, <2>6, <2>7 DEF PathInv
<1>9. CASE UNCHANGED vars
  BY <1>9, <1>6 DEF vars, TypeOK
<1>10. QED
  BY <1>1, <1>2, <1>3, <1>4, <1>5, <1>7, <1>8, <1>9 DEF Next

\* The loop's invariant and the types hold throughout.
LEMMA Invariance == Spec => [](TypeOK /\ PathInv)
<1>1. Init => AtFirst
  BY DEF Init, AtFirst
<1>2. QED
  BY <1>1, InitPath, StepPath, PTL DEF Spec

\* Type correctness; in particular no caller goes beyond the end of the path.
THEOREM TypeCorrect == Spec => []TypeOK
BY Invariance, PTL

\* What a success of EnsureRelDir is worth: the whole path exists and a caller
\* that has not gone past a file that appeared between Stat and Mkdir finds a
\* directory; only the last element can be such a file.
THEOREM PathComplete == Spec => []PathExists
<1>1. TypeOK /\ PathInv => PathExists
  <2> SUFFICES ASSUME TypeOK, PathInv, NEW c \in Callers
               PROVE  /\ pc[c] = "claim" /\ where = "below" =>
                           /\ \A l \in Levels : elem[l] = "dir" \/ (l = Depth /\ elem[l] = "file")
                           /\ c \notin slipped => elem[Depth] = "dir"
                      /\ pc[c] = "ok" => elem[Depth] = "dir"
    BY DEF PathExists
  <2>1. ASSUME pc[c] = "claim", where = "below", NEW l \in Levels, l # Depth
        PROVE  elem[l] = "dir"
    <3>1. l + 1 \in Levels /\ l + 1 > 1 /\ (l + 1) - 1 = l
      BY <2>1, DirsAssumption DEF Levels
    <3>2. elem[l + 1] # "none"
      BY <2>1, <3>1 DEF PathInv, AfterInv
    <3>3. QED
      BY <3>1, <3>2 DEF PathInv, Rooted, ParentOK
  <2>2. \A l \in Levels : elem[l] \in {"none", "dir", "file"}
    BY DEF TypeOK
  <2>3. QED
    BY <2>1, <2>2 DEF PathInv, AfterInv
<1>2. QED
  BY <1>1, Invariance, PTL

\* A name is claimed only if nobody has it, and stays claimed.
LEMMA StepOwn == TypeOK /\ OwnPlace /\ [Next]_vars => OwnPlace'
<1> SUFFICES ASSUME TypeOK, OwnPlace, [Next]_vars PROVE OwnPlace'
  OBVIOUS
<1>1. ASSUME NEW c \in Callers, Claim(c) PROVE OwnPlace'
  <2>1. candidate[c] \in Names /\ taken' = taken \cup {<<candidate[c], c>>}
    BY <1>1 DEF Claim, TypeOK
  <2>2. \A d \in taken : d[1] # candidate[c]
    <3>1. \A d \in taken : d = <<d[1], d[2]>> /\ d[2] \in Callers
      BY DEF TypeOK
    <3>2. QED
      BY <1>1, <3>1 DEF Claim, Taken
  <2>3. \A d, e \in taken' : d[1] = e[1] => d = e
    BY <2>1, <2>2 DEF OwnPlace
  <2>4. ASSUME NEW x \in Callers, pc'[x] = "ok" PROVE \E n \in Names : <<n, x>> \in taken'
    <3>1. CASE x = c
      BY <2>1, <3>1
    <3>2. CASE x # c
      <4>1. pc[x] = "ok"
        BY <1>1, <2>4, <3>2 DEF Claim, GoTo, TypeOK
      <4>2. QED
        BY <2>1, <4>1 DEF OwnPlace
    <3>3. QED
      BY <3>1, <3>2
  <2>5. QED
    BY <2>3, <2>4 DEF OwnPlace
<1>2. ASSUME UNCHANGED taken, \A c \in Callers : pc'[c] = "ok" => pc[c] = "ok" PROVE OwnPlace'
  BY <1>2 DEF OwnPlace
<1>a. ASSUME NEW c \in Callers, NEW l \in {"stat", "mkdir", "exists", "claim", "error"},
             GoTo(c, l), UNCHANGED taken
      PROVE  OwnPlace'
  BY <1>a, <1>2 DEF GoTo, TypeOK
<1>b. ASSUME NEW c \in Callers, Advance(c), UNCHANGED taken PROVE OwnPlace'
  BY <1>b, <1>a DEF Advance
<1>3. ASSUME NEW c \in Callers, Resolve(c) \/ Stat(c) \/ Mkdir(c) \/ AlreadyExists(c) PROVE OwnPlace'
  <2>1. CASE Resolve(c)
    BY <2>1, <1>a DEF Resolve, TypeOK
  <2>2. CASE Stat(c)
    BY <2>2, <1>a, <1>b DEF Stat
  <2>3. CASE Mkdir(c)
    BY <2>3, <1>a, <1>b DEF Mkdir
  <2>4. CASE AlreadyExists(c)
    BY <2>4, <1>a, <1>b DEF AlreadyExists
  <2>5. QED
    BY <1>3, <2>1, <2>2, <2>3, <2>4
<1>4. ASSUME NEW c \in Callers, NextName(c) \/ ClaimFails(c) \/ SourceVanishes(c) PROVE OwnPlace'
  BY <1>2, <1>4 DEF NextName, ClaimFails, GoTo, SourceVanishes, TypeOK
<1>6. ASSUME NEW l \in Levels, UserMakes(l) PROVE OwnPlace'
  BY <1>2, <1>6 DEF UserMakes
<1>5. CASE UNCHANGED vars
  BY <1>2, <1>5 DEF vars
<1>7. QED
  BY <1>1, <1>3, <1>4, <1>5, <1>6 DEF Next

\* No two callers ever share a name and none is replaced.
THEOREM NamesAreOwned == Spec => []OwnPlace
<1>1. Init => OwnPlace
  BY DEF Init, OwnPlace
<1>2. QED
  BY <1>1, Invariance, StepOwn, PTL DEF Spec
=============================================================================
