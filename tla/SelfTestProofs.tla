---------------------------- MODULE SelfTestProofs ----------------------------
(***************************************************************************)
(* Proofs about SelfTest, for every number of files and every generation   *)
(* that the first file waits for: a successful self-test has really seen   *)
(* everything work, and it leaves no server behind.                        *)
(***************************************************************************)
EXTENDS SelfTest, TLAPS

-----------------------------------------------------------------------------
(* The inductive invariant                                                 *)

Before == {"mkdtemp", "runner", "start", "ready", "setup"}
After  == {"shutdown", "shutdownWait", "check", "kill", "killWait", "rmdir", "exit"}

\* Where the program can be while it has no error to return and the tests
\* have begun, and what it knows of them there.
FlowInv ==
  /\ pc \in Before => ~err /\ ~testsOver /\ env = "none" /\ multi = "none"
  /\ pc \in After /\ ~err => testsOver /\ ~egErr

\* A test's failure is the group's.
GroupInv ==
  testsOver => /\ env \in Over /\ multi \in Over
               /\ env = "failed" \/ multi = "failed" => egErr

\* A test that passed has seen its files.
TestInv ==
  /\ env = "passed" => copied = "good"
  /\ multi \in {"polling", "passed"} => written = Files
  /\ multi = "passed" => written \subseteq checked
  /\ \A f \in checked : generation >= Target(f)

\* A server without its wrapper is one whose time is up.
ServerInv ==
  /\ pc \in {"mkdtemp", "runner", "start"} => wrapper = "none" /\ watchman = "none"
  /\ wrapper \in {"zombie", "reaped"} /\ ServerAlive => expired
  /\ pc = "killWait" => watchman = "dead"
  /\ NoServerLeft

Inv == TypeOK /\ FlowInv /\ GroupInv /\ TestInv /\ ServerInv

-----------------------------------------------------------------------------

\* Generations that files wait for are natural numbers below the bound.
LEMMA Constants ==
  /\ SetupTarget \in Nat /\ NumFiles \in Nat /\ MaxGeneration \in Nat
  /\ -1 \in Files /\ \A f \in Files : Target(f) \in Nat
BY SelfTestAssumption DEF MaxGeneration, Files, Target

\* Types are preserved by every step.
LEMMA TypeStep == TypeOK /\ [Next]_vars => TypeOK'
<1> SUFFICES ASSUME TypeOK, [Next]_vars PROVE TypeOK'
  OBVIOUS
<1> USE Constants DEF TypeOK, Over
<1>1. CASE Main
  <2> DEFINE Places == {"runner", "start", "ready", "setup", "wait", "shutdown", "check",
                        "killWait", "rmdir", "exit"}
  <2>1. CASE MkdirTemp
    <3>1. err' \in BOOLEAN /\ tmpdir' \in BOOLEAN
      BY <2>1, Zenon DEF MkdirTemp, Goto, Fail
    <3>2. pc' \in Places
      BY <2>1, Zenon DEF MkdirTemp, Goto, Fail
    <3> QED
      BY <2>1, <3>1, <3>2 DEF MkdirTemp, serverVars, groupVars, fileVars
  <2>2. CASE NewRunner
    <3>1. err' \in BOOLEAN /\ tmpdir' \in BOOLEAN
      BY <2>2, Zenon DEF NewRunner, Goto, Fail
    <3>2. pc' \in Places
      BY <2>2, Zenon DEF NewRunner, Goto, Fail
    <3> QED
      BY <2>2, <3>1, <3>2 DEF NewRunner, serverVars, groupVars, fileVars
  <2>3. CASE StartServer
    <3>1. err' \in BOOLEAN /\ tmpdir' \in BOOLEAN
      BY <2>3, Zenon DEF StartServer, Goto, Fail
    <3>2. pc' \in Places
      BY <2>3, Zenon DEF StartServer, Goto, Fail
    <3> QED
      BY <2>3, <3>1, <3>2 DEF StartServer, serverVars, groupVars, fileVars
  <2>4. CASE WaitForReady
    <3>1. err' \in BOOLEAN /\ tmpdir' \in BOOLEAN
      BY <2>4, Zenon DEF WaitForReady, Goto, Fail
    <3>2. pc' \in Places
      BY <2>4, Zenon DEF WaitForReady, Goto, Fail
    <3> QED
      BY <2>4, <3>1, <3>2 DEF WaitForReady, serverVars, groupVars, fileVars
  <2>5. CASE SetupAll
    <3>1. err' \in BOOLEAN /\ tmpdir' \in BOOLEAN
      BY <2>5, Zenon DEF SetupAll, Goto, Fail
    <3>2. pc' \in Places
      BY <2>5, Zenon DEF SetupAll, Goto, Fail
    <3> QED
      BY <2>5, <3>1, <3>2 DEF SetupAll, serverVars, groupVars, fileVars
  <2>6. CASE GroupWait
    BY <2>6 DEF GroupWait, Goto, Fail, serverVars, groupVars, fileVars
  <2>7. CASE ShutdownServer
    BY <2>7 DEF ShutdownServer, Goto, Fail, serverVars, groupVars, fileVars
  <2>8. CASE ShutdownWait
    BY <2>8 DEF ShutdownWait, Goto, Fail, serverVars, groupVars, fileVars
  <2>9. CASE CheckProcess
    BY <2>9 DEF CheckProcess, Goto, Fail, serverVars, groupVars, fileVars
  <2>10. CASE KillServer
    <3>1. err' \in BOOLEAN /\ tmpdir' \in BOOLEAN
      BY <2>10, Zenon DEF KillServer, Goto, Fail
    <3>2. pc' \in Places
      BY <2>10, Zenon DEF KillServer, Goto, Fail
    <3> QED
      BY <2>10, <3>1, <3>2 DEF KillServer, serverVars, groupVars, fileVars
  <2>11. CASE KillWait
    BY <2>11 DEF KillWait, Goto, Fail, serverVars, groupVars, fileVars
  <2>12. CASE RemoveTempDir
    <3>1. err' \in BOOLEAN /\ tmpdir' \in BOOLEAN
      BY <2>12, Zenon DEF RemoveTempDir, Goto, Fail
    <3>2. pc' \in Places
      BY <2>12, Zenon DEF RemoveTempDir, Goto, Fail
    <3> QED
      BY <2>12, <3>1, <3>2 DEF RemoveTempDir, serverVars, groupVars, fileVars
  <2> QED
    BY <1>1, <2>1, <2>2, <2>3, <2>4, <2>5, <2>6, <2>7, <2>8, <2>9, <2>10, <2>11, <2>12 DEF Main
<1>2. CASE Server
  BY <1>2 DEF Server, WatchmanUp, WatchmanDies, groupVars, fileVars
<1>3. CASE Tests
  <2>1. CASE EnvPolls \/ MultiFails
    BY <2>1 DEF EnvPolls, MultiFails, serverVars, fileVars
  <2>4. CASE RunAll
    <3>1. egErr' \in BOOLEAN
      BY <2>4, Zenon DEF RunAll
    <3> QED
      BY <2>4, <3>1 DEF RunAll, serverVars, fileVars
  <2>2. CASE MultiAdds
    BY <2>2 DEF MultiAdds, serverVars
  <2>3. CASE MultiPolls
    BY <2>3 DEF MultiPolls, serverVars
  <2> QED
    BY <1>3, <2>1, <2>2, <2>3, <2>4 DEF Tests
<1>4. CASE Handle
  BY <1>4 DEF Handle, CopyFile, Checkmark, serverVars, groupVars
<1>5. CASE Expire \/ Crash \/ WrapperEnds \/ ContextKills \/ ProcessWait \/ WaitReturns
  <2>1. CASE Expire
    BY <2>1 DEF Expire, serverVars, groupVars, fileVars
  <2>2. CASE Crash
    BY <2>2 DEF Crash, serverVars, groupVars, fileVars
  <2>3. CASE WrapperEnds
    BY <2>3 DEF WrapperEnds, serverVars, groupVars, fileVars
  <2>4. CASE ContextKills
    BY <2>4 DEF ContextKills, serverVars, groupVars, fileVars
  <2>5. CASE ProcessWait
    BY <2>5 DEF ProcessWait, serverVars, groupVars, fileVars
  <2>6. CASE WaitReturns
    BY <2>6 DEF WaitReturns, serverVars, groupVars, fileVars
  <2> QED
    BY <1>5, <2>1, <2>2, <2>3, <2>4, <2>5, <2>6
<1>6. CASE WatchUp \/ WatchStops \/ WatchEnds
  <2>1. CASE WatchUp \/ WatchStops
    BY <2>1 DEF WatchUp, WatchStops, serverVars, fileVars
  <2>2. CASE WatchEnds
    <3>1. egErr' \in BOOLEAN
      BY <2>2, Zenon DEF WatchEnds
    <3> QED
      BY <2>2, <3>1 DEF WatchEnds, serverVars, fileVars
  <2> QED
    BY <1>6, <2>1, <2>2
<1>7. CASE UNCHANGED vars
  BY <1>7 DEF vars, serverVars, groupVars, fileVars
<1> QED
  BY <1>1, <1>2, <1>3, <1>4, <1>5, <1>6, <1>7 DEF Next

\* A step is one of the actions, or none.
LEMMA NextCases ==
  [Next]_vars =>
    \/ MkdirTemp \/ NewRunner \/ StartServer \/ WaitForReady \/ SetupAll \/ GroupWait
    \/ ShutdownServer \/ ShutdownWait \/ CheckProcess \/ KillServer \/ KillWait
    \/ RemoveTempDir \/ WatchmanUp \/ WatchmanDies
    \/ EnvPolls \/ MultiAdds \/ MultiPolls \/ MultiFails \/ RunAll \/ Handle
    \/ Expire \/ Crash \/ WrapperEnds \/ ContextKills \/ ProcessWait \/ WaitReturns
    \/ WatchUp \/ WatchStops \/ WatchEnds \/ UNCHANGED vars
BY DEF Next, Main, Server, Tests

\* Only eg.Wait leads past the tests without an error.
LEMMA FlowStep ==
  TypeOK /\ FlowInv /\ [Next]_vars => FlowInv'
<1> SUFFICES ASSUME TypeOK, FlowInv, [Next]_vars PROVE FlowInv'
  OBVIOUS
<1> USE DEF FlowInv, Before, After, TypeOK, Over
<1>1. CASE MkdirTemp
  BY <1>1 DEF MkdirTemp, Goto, Fail, serverVars, groupVars, fileVars
<1>2. CASE NewRunner
  BY <1>2 DEF NewRunner, Goto, Fail, serverVars, groupVars, fileVars
<1>3. CASE StartServer
  BY <1>3 DEF StartServer, Goto, Fail, serverVars, groupVars, fileVars
<1>4. CASE WaitForReady
  BY <1>4 DEF WaitForReady, Goto, Fail, serverVars, groupVars, fileVars
<1>5. CASE SetupAll
  BY <1>5 DEF SetupAll, Goto, Fail, serverVars, groupVars, fileVars
<1>6. CASE GroupWait
  BY <1>6 DEF GroupWait, Goto, Fail, serverVars, groupVars, fileVars
<1>7. CASE ShutdownServer
  BY <1>7 DEF ShutdownServer, Goto, Fail, serverVars, groupVars, fileVars
<1>8. CASE ShutdownWait
  BY <1>8 DEF ShutdownWait, Goto, Fail, serverVars, groupVars, fileVars
<1>9. CASE CheckProcess
  BY <1>9 DEF CheckProcess, Goto, Fail, serverVars, groupVars, fileVars
<1>10. CASE KillServer
  BY <1>10 DEF KillServer, Goto, Fail, serverVars, groupVars, fileVars
<1>11. CASE KillWait
  BY <1>11 DEF KillWait, Goto, Fail, serverVars, groupVars, fileVars
<1>12. CASE RemoveTempDir
  BY <1>12 DEF RemoveTempDir, Goto, Fail, serverVars, groupVars, fileVars
<1>13. CASE WatchmanUp
  BY <1>13 DEF WatchmanUp, serverVars, groupVars, fileVars
<1>14. CASE WatchmanDies
  BY <1>14 DEF WatchmanDies, serverVars, groupVars, fileVars
<1>15. CASE EnvPolls
  BY <1>15 DEF EnvPolls, serverVars, groupVars, fileVars
<1>16. CASE MultiAdds
  BY <1>16 DEF MultiAdds, serverVars, groupVars, fileVars
<1>17. CASE MultiPolls
  BY <1>17 DEF MultiPolls, serverVars, groupVars, fileVars
<1>18. CASE MultiFails
  BY <1>18 DEF MultiFails, serverVars, groupVars, fileVars
<1>19. CASE RunAll
  BY <1>19 DEF RunAll, serverVars, groupVars, fileVars
<1>20. CASE Handle
  BY <1>20 DEF Handle, CopyFile, Checkmark, serverVars, groupVars
<1>21. CASE Expire
  BY <1>21 DEF Expire, serverVars, groupVars, fileVars
<1>22. CASE Crash
  BY <1>22 DEF Crash, serverVars, groupVars, fileVars
<1>23. CASE WrapperEnds
  BY <1>23 DEF WrapperEnds, serverVars, groupVars, fileVars
<1>24. CASE ContextKills
  BY <1>24 DEF ContextKills, serverVars, groupVars, fileVars
<1>25. CASE ProcessWait
  BY <1>25 DEF ProcessWait, serverVars, groupVars, fileVars
<1>26. CASE WaitReturns
  BY <1>26 DEF WaitReturns, serverVars, groupVars, fileVars
<1>27. CASE WatchUp
  BY <1>27 DEF WatchUp, serverVars, groupVars, fileVars
<1>28. CASE WatchStops
  BY <1>28 DEF WatchStops, serverVars, groupVars, fileVars
<1>29. CASE WatchEnds
  BY <1>29 DEF WatchEnds, serverVars, groupVars, fileVars
<1>30. CASE UNCHANGED vars
  BY <1>30 DEF vars, serverVars, groupVars, fileVars
<1> QED
  BY NextCases, <1>1, <1>2, <1>3, <1>4, <1>5, <1>6, <1>7, <1>8, <1>9, <1>10, <1>11,
     <1>12, <1>13, <1>14, <1>15, <1>16, <1>17, <1>18, <1>19, <1>20, <1>21, <1>22,
     <1>23, <1>24, <1>25, <1>26, <1>27, <1>28, <1>29, <1>30

\* What a test's goroutine found is not forgotten.
LEMMA GroupStep ==
  TypeOK /\ FlowInv /\ GroupInv /\ [Next]_vars => GroupInv'
<1> SUFFICES ASSUME TypeOK, FlowInv, GroupInv, [Next]_vars PROVE GroupInv'
  OBVIOUS
<1> USE DEF GroupInv, FlowInv, Before, TypeOK, Over
<1>1. CASE MkdirTemp
  BY <1>1 DEF MkdirTemp, Goto, Fail, serverVars, groupVars, fileVars
<1>2. CASE NewRunner
  BY <1>2 DEF NewRunner, Goto, Fail, serverVars, groupVars, fileVars
<1>3. CASE StartServer
  BY <1>3 DEF StartServer, Goto, Fail, serverVars, groupVars, fileVars
<1>4. CASE WaitForReady
  BY <1>4 DEF WaitForReady, Goto, Fail, serverVars, groupVars, fileVars
<1>5. CASE SetupAll
  BY <1>5 DEF SetupAll, Goto, Fail, serverVars, groupVars, fileVars
<1>6. CASE GroupWait
  BY <1>6 DEF GroupWait, Goto, Fail, serverVars, groupVars, fileVars
<1>7. CASE ShutdownServer
  BY <1>7 DEF ShutdownServer, Goto, Fail, serverVars, groupVars, fileVars
<1>8. CASE ShutdownWait
  BY <1>8 DEF ShutdownWait, Goto, Fail, serverVars, groupVars, fileVars
<1>9. CASE CheckProcess
  BY <1>9 DEF CheckProcess, Goto, Fail, serverVars, groupVars, fileVars
<1>10. CASE KillServer
  BY <1>10 DEF KillServer, Goto, Fail, serverVars, groupVars, fileVars
<1>11. CASE KillWait
  BY <1>11 DEF KillWait, Goto, Fail, serverVars, groupVars, fileVars
<1>12. CASE RemoveTempDir
  BY <1>12 DEF RemoveTempDir, Goto, Fail, serverVars, groupVars, fileVars
<1>13. CASE WatchmanUp
  BY <1>13 DEF WatchmanUp, serverVars, groupVars, fileVars
<1>14. CASE WatchmanDies
  BY <1>14 DEF WatchmanDies, serverVars, groupVars, fileVars
<1>15. CASE EnvPolls
  BY <1>15 DEF EnvPolls, serverVars, groupVars, fileVars
<1>16. CASE MultiAdds
  BY <1>16 DEF MultiAdds, serverVars, groupVars, fileVars
<1>17. CASE MultiPolls
  BY <1>17 DEF MultiPolls, serverVars, groupVars, fileVars
<1>18. CASE MultiFails
  BY <1>18 DEF MultiFails, serverVars, groupVars, fileVars
<1>19. CASE RunAll
  BY <1>19 DEF RunAll, serverVars, groupVars, fileVars
<1>20. CASE Handle
  BY <1>20 DEF Handle, CopyFile, Checkmark, serverVars, groupVars
<1>21. CASE Expire
  BY <1>21 DEF Expire, serverVars, groupVars, fileVars
<1>22. CASE Crash
  BY <1>22 DEF Crash, serverVars, groupVars, fileVars
<1>23. CASE WrapperEnds
  BY <1>23 DEF WrapperEnds, serverVars, groupVars, fileVars
<1>24. CASE ContextKills
  BY <1>24 DEF ContextKills, serverVars, groupVars, fileVars
<1>25. CASE ProcessWait
  BY <1>25 DEF ProcessWait, serverVars, groupVars, fileVars
<1>26. CASE WaitReturns
  BY <1>26 DEF WaitReturns, serverVars, groupVars, fileVars
<1>27. CASE WatchUp
  BY <1>27 DEF WatchUp, serverVars, groupVars, fileVars
<1>28. CASE WatchStops
  BY <1>28 DEF WatchStops, serverVars, groupVars, fileVars
<1>29. CASE WatchEnds
  BY <1>29 DEF WatchEnds, serverVars, groupVars, fileVars
<1>30. CASE UNCHANGED vars
  BY <1>30 DEF vars, serverVars, groupVars, fileVars
<1> QED
  BY NextCases, <1>1, <1>2, <1>3, <1>4, <1>5, <1>6, <1>7, <1>8, <1>9, <1>10, <1>11,
     <1>12, <1>13, <1>14, <1>15, <1>16, <1>17, <1>18, <1>19, <1>20, <1>21, <1>22,
     <1>23, <1>24, <1>25, <1>26, <1>27, <1>28, <1>29, <1>30

\* A test passes when it has seen its files, and then they stay.
LEMMA TestStep ==
  TypeOK /\ FlowInv /\ TestInv /\ [Next]_vars => TestInv'
<1> SUFFICES ASSUME TypeOK, FlowInv, TestInv, [Next]_vars PROVE TestInv'
  OBVIOUS
<1> USE DEF TestInv, FlowInv, Before, TypeOK, Over
<1>1. CASE MkdirTemp
  BY <1>1 DEF MkdirTemp, Goto, Fail, serverVars, groupVars, fileVars
<1>2. CASE NewRunner
  BY <1>2 DEF NewRunner, Goto, Fail, serverVars, groupVars, fileVars
<1>3. CASE StartServer
  BY <1>3 DEF StartServer, Goto, Fail, serverVars, groupVars, fileVars
<1>4. CASE WaitForReady
  BY <1>4 DEF WaitForReady, Goto, Fail, serverVars, groupVars, fileVars
<1>5. CASE SetupAll
  BY <1>5 DEF SetupAll, Goto, Fail, serverVars, groupVars, fileVars
<1>6. CASE GroupWait
  BY <1>6 DEF GroupWait, Goto, Fail, serverVars, groupVars, fileVars
<1>7. CASE ShutdownServer
  BY <1>7 DEF ShutdownServer, Goto, Fail, serverVars, groupVars, fileVars
<1>8. CASE ShutdownWait
  BY <1>8 DEF ShutdownWait, Goto, Fail, serverVars, groupVars, fileVars
<1>9. CASE CheckProcess
  BY <1>9 DEF CheckProcess, Goto, Fail, serverVars, groupVars, fileVars
<1>10. CASE KillServer
  BY <1>10 DEF KillServer, Goto, Fail, serverVars, groupVars, fileVars
<1>11. CASE KillWait
  BY <1>11 DEF KillWait, Goto, Fail, serverVars, groupVars, fileVars
<1>12. CASE RemoveTempDir
  BY <1>12 DEF RemoveTempDir, Goto, Fail, serverVars, groupVars, fileVars
<1>13. CASE WatchmanUp
  BY <1>13 DEF WatchmanUp, serverVars, groupVars, fileVars
<1>14. CASE WatchmanDies
  BY <1>14 DEF WatchmanDies, serverVars, groupVars, fileVars
<1>15. CASE EnvPolls
  BY <1>15 DEF EnvPolls, serverVars, groupVars, fileVars
<1>16. CASE MultiAdds
  BY <1>16 DEF MultiAdds, serverVars, groupVars, fileVars
<1>17. CASE MultiPolls
  <2>1. \A f \in checked : Target(f) \in Int /\ generation' >= Target(f)
    <3>1. generation \in Int /\ generation' \in {generation, generation + 1}
      BY <1>17, Constants DEF MultiPolls
    <3> QED
      BY <3>1, Constants
  <2> QED
    BY <1>17, <2>1 DEF MultiPolls, serverVars
<1>18. CASE MultiFails
  BY <1>18 DEF MultiFails, serverVars, groupVars, fileVars
<1>19. CASE RunAll
  BY <1>19 DEF RunAll, serverVars, groupVars, fileVars
<1>20. CASE Handle
  BY <1>20 DEF Handle, CopyFile, Checkmark, serverVars, groupVars
<1>21. CASE Expire
  BY <1>21 DEF Expire, serverVars, groupVars, fileVars
<1>22. CASE Crash
  BY <1>22 DEF Crash, serverVars, groupVars, fileVars
<1>23. CASE WrapperEnds
  BY <1>23 DEF WrapperEnds, serverVars, groupVars, fileVars
<1>24. CASE ContextKills
  BY <1>24 DEF ContextKills, serverVars, groupVars, fileVars
<1>25. CASE ProcessWait
  BY <1>25 DEF ProcessWait, serverVars, groupVars, fileVars
<1>26. CASE WaitReturns
  BY <1>26 DEF WaitReturns, serverVars, groupVars, fileVars
<1>27. CASE WatchUp
  BY <1>27 DEF WatchUp, serverVars, groupVars, fileVars
<1>28. CASE WatchStops
  BY <1>28 DEF WatchStops, serverVars, groupVars, fileVars
<1>29. CASE WatchEnds
  BY <1>29 DEF WatchEnds, serverVars, groupVars, fileVars
<1>30. CASE UNCHANGED vars
  BY <1>30 DEF vars, serverVars, groupVars, fileVars
<1> QED
  BY NextCases, <1>1, <1>2, <1>3, <1>4, <1>5, <1>6, <1>7, <1>8, <1>9, <1>10, <1>11,
     <1>12, <1>13, <1>14, <1>15, <1>16, <1>17, <1>18, <1>19, <1>20, <1>21, <1>22,
     <1>23, <1>24, <1>25, <1>26, <1>27, <1>28, <1>29, <1>30

\* Only a server whose time is up loses its wrapper.
LEMMA ServerStep ==
  TypeOK /\ ServerInv /\ [Next]_vars => ServerInv'
<1> SUFFICES ASSUME TypeOK, ServerInv, [Next]_vars PROVE ServerInv'
  OBVIOUS
<1> USE DEF ServerInv, NoServerLeft, ServerAlive, TypeOK
<1>1. CASE MkdirTemp
  BY <1>1 DEF MkdirTemp, Goto, Fail, serverVars, groupVars, fileVars
<1>2. CASE NewRunner
  BY <1>2 DEF NewRunner, Goto, Fail, serverVars, groupVars, fileVars
<1>3. CASE StartServer
  BY <1>3 DEF StartServer, Goto, Fail, serverVars, groupVars, fileVars
<1>4. CASE WaitForReady
  BY <1>4 DEF WaitForReady, Goto, Fail, serverVars, groupVars, fileVars
<1>5. CASE SetupAll
  BY <1>5 DEF SetupAll, Goto, Fail, serverVars, groupVars, fileVars
<1>6. CASE GroupWait
  BY <1>6 DEF GroupWait, Goto, Fail, serverVars, groupVars, fileVars
<1>7. CASE ShutdownServer
  BY <1>7 DEF ShutdownServer, Goto, Fail, serverVars, groupVars, fileVars
<1>8. CASE ShutdownWait
  BY <1>8 DEF ShutdownWait, Goto, Fail, serverVars, groupVars, fileVars
<1>9. CASE CheckProcess
  BY <1>9 DEF CheckProcess, Goto, Fail, serverVars, groupVars, fileVars
<1>10. CASE KillServer
  BY <1>10 DEF KillServer, Goto, Fail, serverVars, groupVars, fileVars
<1>11. CASE KillWait
  BY <1>11 DEF KillWait, Goto, Fail, serverVars, groupVars, fileVars
<1>12. CASE RemoveTempDir
  BY <1>12 DEF RemoveTempDir, Goto, Fail, serverVars, groupVars, fileVars
<1>13. CASE WatchmanUp
  BY <1>13 DEF WatchmanUp, serverVars, groupVars, fileVars
<1>14. CASE WatchmanDies
  BY <1>14 DEF WatchmanDies, serverVars, groupVars, fileVars
<1>15. CASE EnvPolls
  BY <1>15 DEF EnvPolls, serverVars, groupVars, fileVars
<1>16. CASE MultiAdds
  BY <1>16 DEF MultiAdds, serverVars, groupVars, fileVars
<1>17. CASE MultiPolls
  BY <1>17 DEF MultiPolls, serverVars, groupVars, fileVars
<1>18. CASE MultiFails
  BY <1>18 DEF MultiFails, serverVars, groupVars, fileVars
<1>19. CASE RunAll
  BY <1>19 DEF RunAll, serverVars, groupVars, fileVars
<1>20. CASE Handle
  BY <1>20 DEF Handle, CopyFile, Checkmark, serverVars, groupVars
<1>21. CASE Expire
  BY <1>21 DEF Expire, serverVars, groupVars, fileVars
<1>22. CASE Crash
  BY <1>22 DEF Crash, serverVars, groupVars, fileVars
<1>23. CASE WrapperEnds
  BY <1>23 DEF WrapperEnds, serverVars, groupVars, fileVars
<1>24. CASE ContextKills
  BY <1>24 DEF ContextKills, serverVars, groupVars, fileVars
<1>25. CASE ProcessWait
  BY <1>25 DEF ProcessWait, serverVars, groupVars, fileVars
<1>26. CASE WaitReturns
  BY <1>26 DEF WaitReturns, serverVars, groupVars, fileVars
<1>27. CASE WatchUp
  BY <1>27 DEF WatchUp, serverVars, groupVars, fileVars
<1>28. CASE WatchStops
  BY <1>28 DEF WatchStops, serverVars, groupVars, fileVars
<1>29. CASE WatchEnds
  BY <1>29 DEF WatchEnds, serverVars, groupVars, fileVars
<1>30. CASE UNCHANGED vars
  BY <1>30 DEF vars, serverVars, groupVars, fileVars
<1> QED
  BY NextCases, <1>1, <1>2, <1>3, <1>4, <1>5, <1>6, <1>7, <1>8, <1>9, <1>10, <1>11,
     <1>12, <1>13, <1>14, <1>15, <1>16, <1>17, <1>18, <1>19, <1>20, <1>21, <1>22,
     <1>23, <1>24, <1>25, <1>26, <1>27, <1>28, <1>29, <1>30

-----------------------------------------------------------------------------

\* The invariant holds when the self-test begins.
LEMMA InitInv == Init => Inv
<1> SUFFICES ASSUME Init PROVE Inv
  OBVIOUS
<1>1. TypeOK
  <2>1. generation \in 0 .. MaxGeneration
    BY Constants DEF Init
  <2> QED
    BY <2>1, Zenon DEF Init, TypeOK, Over
<1>2. FlowInv /\ GroupInv /\ TestInv /\ ServerInv
  BY DEF Init, FlowInv, GroupInv, TestInv, ServerInv, NoServerLeft, ServerAlive,
     Before, After
<1> QED
  BY <1>1, <1>2 DEF Inv

\* The parts together are an invariant of the specification.
THEOREM Invariance == Spec => []Inv
<1>1. Inv /\ [Next]_vars => Inv'
  BY TypeStep, FlowStep, GroupStep, TestStep, ServerStep DEF Inv
<1> QED
  BY InitInv, <1>1, PTL DEF Spec

\* The state of the self-test and of its two tests has its type.
THEOREM TypeCorrect == Spec => []TypeOK
<1>1. Inv => TypeOK
  BY DEF Inv
<1> QED
  BY Invariance, <1>1, PTL

\* "Self-test successful." means that the copy arrived intact and that the
\* command succeeded with every file of multifile, however many there are,
\* whatever ended, failed or timed out meanwhile.
THEOREM SuccessCorrect == Spec => []SuccessMeansPassed
<1>1. Inv => SuccessMeansPassed
  <2> SUFFICES ASSUME Inv, pc = "exit", ~err
               PROVE  copied = "good" /\ Files = checked /\ generation >= SetupTarget
    BY DEF SuccessMeansPassed
  <2>1. env = "passed" /\ multi = "passed"
    BY DEF Inv, FlowInv, GroupInv, After, Over
  <2>2. Files = checked
    BY <2>1 DEF Inv, TestInv, TypeOK
  <2>3. generation >= Target(-1)
    BY <2>2, Constants DEF Inv, TestInv
  <2> QED
    BY <2>1, <2>2, <2>3 DEF Inv, TestInv, Target
<1> QED
  BY Invariance, <1>1, PTL

\* A self-test that ends within its time leaves no server process, and its
\* directory is not removed under one.
THEOREM ServerGone == Spec => []NoServerLeft
<1>1. Inv => NoServerLeft
  BY DEF Inv, ServerInv
<1> QED
  BY Invariance, <1>1, PTL
=============================================================================
