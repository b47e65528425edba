------------------------------- MODULE SelfTest -------------------------------
(***************************************************************************)
(* The self-test: a temporary directory, a Watchman server in a process    *)
(* group of its own behind timeout(1), the watch command and two tests as  *)
(* goroutines that end each other, and everything undone afterwards.  Of   *)
(* the watch command (see WatchCommand) only what the tests see is used:   *)
(* it comes up, handles files or not, and ends with or without an error.   *)
(* Reasons to end early: the time-out, a failing step, a server that dies, *)
(* a signal, and the death of the program itself.                          *)
(***************************************************************************)
EXTENDS Integers, FiniteSets

CONSTANTS
  KeepWorkDir,   \* -keep
  SetupTarget,   \* generation that the file of multifile's Setup waits for
  NumFiles       \* files of multifile's Run, which wait for 0 .. NumFiles - 1

ASSUME SelfTestAssumption ==
  /\ KeepWorkDir \in BOOLEAN
  /\ SetupTarget \in Nat /\ NumFiles \in Nat

VARIABLES
  pc,          \* where Command.execute is
  err,         \* the error it is about to return, if there is one
  expired,     \* the context with the time-out is done
  tmpdir,      \* does the temporary directory exist?
  wrapper,     \* the process of timeout(1); "reaped": ProcessState is set
  watchman,    \* the server, its child
  clientOff,   \* clientCancel has been called
  watch,       \* the goroutine of the watch command
  env,         \* the goroutine of the commandenv test
  multi,       \* the goroutine of the multifile test
  egErr,       \* first error of the errgroup
  testsOver,   \* the goroutine of runAll has returned
  copied,      \* done.txt of commandenv: "none", "good", "bad"
  written,     \* files of multifile that exist; -1 is the one of Setup
  checked,     \* those with a check mark
  generation   \* count of the generation file

serverVars == <<expired, wrapper, watchman, clientOff>>
groupVars  == <<watch, env, multi, egErr, testsOver>>
fileVars   == <<copied, written, checked, generation>>
vars == <<pc, err, tmpdir, serverVars, groupVars, fileVars>>

Files == -1 .. NumFiles - 1

Target(f) == IF f = -1 THEN SetupTarget ELSE f

\* Bound: later generations make no difference.
MaxGeneration == IF SetupTarget > NumFiles THEN SetupTarget ELSE NumFiles

Over == {"passed", "failed"}

TypeOK ==
  /\ pc \in {"mkdtemp", "runner", "start", "ready", "setup", "wait", "shutdown",
             "shutdownWait", "check", "kill", "killWait", "rmdir", "exit", "crashed"}
  /\ err \in BOOLEAN /\ expired \in BOOLEAN /\ tmpdir \in BOOLEAN
  /\ wrapper \in {"none", "running", "zombie", "reaped"}
  /\ watchman \in {"none", "starting", "running", "dead"}
  /\ clientOff \in BOOLEAN /\ egErr \in BOOLEAN /\ testsOver \in BOOLEAN
  /\ watch \in {"none", "starting", "up", "ending", "ended"}
  /\ env \in {"none", "polling"} \cup Over
  /\ multi \in {"none", "adding", "polling"} \cup Over
  /\ copied \in {"none", "good", "bad"}
  /\ written \subseteq Files /\ checked \subseteq Files
  /\ generation \in 0 .. MaxGeneration

Init ==
  /\ pc = "mkdtemp" /\ err = FALSE /\ tmpdir = FALSE
  /\ expired = FALSE /\ wrapper = "none" /\ watchman = "none" /\ clientOff = FALSE
  /\ watch = "none" /\ env = "none" /\ multi = "none"
  /\ egErr = FALSE /\ testsOver = FALSE
  /\ copied = "none" /\ written = {} /\ checked = {} /\ generation = 0

-----------------------------------------------------------------------------
(* Contexts                                                                *)

Alive == pc \notin {"exit", "crashed"}

ClientDone == expired \/ clientOff
GroupDone  == ClientDone \/ egErr

\* Mutant: the tests do not call watchCancel.
WatchDoneWithGroup == GroupDone

\* watchCancel is deferred by the tests, testCancel by the watch command.
WatchDone == GroupDone \/ testsOver
TestDone  == GroupDone \/ watch = "ended"

\* Time runs for the server's wrapper too when the program is gone.
Expire ==
  /\ ~expired
  /\ expired' = TRUE
  /\ UNCHANGED <<pc, err, tmpdir, wrapper, watchman, clientOff, groupVars, fileVars>>

-----------------------------------------------------------------------------
(* Command.execute, withTempDir, withServer and runner.run                 *)

Goto(p) == pc' = p /\ UNCHANGED err

\* Return early, by way of the deferred calls from p on.
Fail(p) == pc' = p /\ err' = TRUE

MkdirTemp ==
  /\ pc = "mkdtemp"
  /\ \/ Goto("runner") /\ tmpdir' = TRUE
     \/ Fail("exit") /\ UNCHANGED tmpdir
  /\ UNCHANGED <<serverVars, groupVars, fileVars>>

\* Directories for the tests.
NewRunner ==
  /\ pc = "runner"
  /\ Goto("start") \/ Fail("rmdir")
  /\ UNCHANGED <<tmpdir, serverVars, groupVars, fileVars>>

StartServer ==
  /\ pc = "start"
  /\ \/ ~expired /\ Goto("ready") /\ wrapper' = "running" /\ watchman' = "starting"
     \/ Fail("rmdir") /\ UNCHANGED <<wrapper, watchman>>
  /\ UNCHANGED <<tmpdir, expired, clientOff, groupVars, fileVars>>

WaitForReady ==
  /\ pc = "ready"
  /\ \/ watchman = "running" /\ Goto("setup")
     \/ ClientDone /\ Fail("check")
  /\ UNCHANGED <<tmpdir, serverVars, groupVars, fileVars>>

\* The configuration, the files of setupAll, and the two goroutines.
SetupAll ==
  /\ pc = "setup"
  /\ \/ /\ Goto("wait")
        /\ watch' = "starting" /\ env' = "polling" /\ multi' = "adding"
        /\ written' = {-1}
     \/ Fail("shutdown") /\ UNCHANGED <<watch, env, multi, written>>
  /\ UNCHANGED <<tmpdir, serverVars, egErr, testsOver, copied, checked, generation>>

\* eg.Wait()
GroupWait ==
  /\ pc = "wait" /\ testsOver /\ watch = "ended"
  /\ pc' = "shutdown" /\ err' = egErr
  /\ UNCHANGED <<tmpdir, serverVars, groupVars, fileVars>>

\* A server that is still there is asked to shut down; it may not listen.
ShutdownServer ==
  /\ pc = "shutdown"
  /\ IF ClientDone THEN Goto("check") /\ UNCHANGED watchman
     ELSE Goto("shutdownWait") /\ watchman' \in {watchman, "dead"}
  /\ UNCHANGED <<tmpdir, expired, wrapper, clientOff, groupVars, fileVars>>

\* Until the server is gone or ten seconds are over.
ShutdownWait ==
  /\ pc = "shutdownWait"
  /\ Goto("check")
  /\ UNCHANGED <<tmpdir, serverVars, groupVars, fileVars>>

\* Mutant: the server is not killed.
CheckProcessNot ==
  /\ pc = "check" /\ Goto("rmdir")
  /\ UNCHANGED <<tmpdir, serverVars, groupVars, fileVars>>

\* cmd.ProcessState == nil?
CheckProcess ==
  /\ pc = "check"
  /\ IF wrapper = "reaped" THEN Goto("rmdir") ELSE Goto("kill")
  /\ UNCHANGED <<tmpdir, serverVars, groupVars, fileVars>>

\* Kill of the process group.  It fails if the last process was reaped since
\* the check.
KillServer ==
  /\ pc = "kill"
  /\ IF wrapper = "reaped" /\ watchman = "dead" THEN Fail("killWait") ELSE Goto("killWait")
  /\ wrapper' = IF wrapper = "running" THEN "zombie" ELSE wrapper
  /\ watchman' = "dead"
  /\ UNCHANGED <<tmpdir, expired, clientOff, groupVars, fileVars>>

KillWait ==
  /\ pc = "killWait" /\ ClientDone
  /\ Goto("rmdir")
  /\ UNCHANGED <<tmpdir, serverVars, groupVars, fileVars>>

\* An error of RemoveAll goes into a variable nobody reads any more.
RemoveTempDir ==
  /\ pc = "rmdir"
  /\ Goto("exit")
  /\ tmpdir' \in IF KeepWorkDir THEN {TRUE} ELSE {FALSE, TRUE}
  /\ UNCHANGED <<serverVars, groupVars, fileVars>>

\* The program is killed.
Crash ==
  /\ Alive
  /\ pc' = "crashed"
  /\ UNCHANGED <<err, tmpdir, serverVars, groupVars, fileVars>>

-----------------------------------------------------------------------------
(* Server processes                                                        *)

WatchmanUp ==
  /\ watchman = "starting"
  /\ watchman' = "running"
  /\ UNCHANGED <<pc, err, tmpdir, expired, wrapper, clientOff, groupVars, fileVars>>

WatchmanDies ==
  /\ watchman \in {"starting", "running"}
  /\ watchman' = "dead"
  /\ UNCHANGED <<pc, err, tmpdir, expired, wrapper, clientOff, groupVars, fileVars>>

\* timeout(1) ends with its child, and ends its child a little after the
\* context's deadline.
WrapperEnds ==
  /\ wrapper = "running" /\ (watchman = "dead" \/ expired)
  /\ wrapper' = "zombie" /\ watchman' = "dead"
  /\ UNCHANGED <<pc, err, tmpdir, expired, clientOff, groupVars, fileVars>>

\* exec.CommandContext: at the deadline the process is killed, its child is
\* not.
ContextKills ==
  /\ Alive /\ wrapper = "running" /\ expired
  /\ wrapper' = "zombie"
  /\ UNCHANGED <<pc, err, tmpdir, expired, watchman, clientOff, groupVars, fileVars>>

\* First half of cmd.Wait: the process.
ProcessWait ==
  /\ Alive /\ wrapper = "zombie"
  /\ wrapper' = "reaped"
  /\ UNCHANGED <<pc, err, tmpdir, expired, watchman, clientOff, groupVars, fileVars>>

\* Second half: its output, which the server has inherited.  Then the
\* goroutine's clientCancel.
WaitReturns ==
  /\ Alive /\ wrapper = "reaped" /\ watchman = "dead" /\ ~clientOff
  /\ clientOff' = TRUE
  /\ UNCHANGED <<pc, err, tmpdir, expired, wrapper, watchman, groupVars, fileVars>>

-----------------------------------------------------------------------------
(* The watch command                                                       *)

\* Triggers have been set in Watchman.
WatchUp ==
  /\ pc = "wait" /\ watch = "starting" /\ watchman = "running" /\ ~WatchDone
  /\ watch' = "up"
  /\ UNCHANGED <<pc, err, tmpdir, serverVars, env, multi, egErr, testsOver, fileVars>>

\* It begins to shut down: cancelled, or after a signal or a failure.
WatchStops ==
  /\ pc = "wait" /\ watch = "up"
  /\ watch' = "ending"
  /\ UNCHANGED <<pc, err, tmpdir, serverVars, env, multi, egErr, testsOver, fileVars>>

\* ExecuteWithClient returns.  An error that is, or comes with, the
\* cancellation of its context is none; the deadline is one.
WatchEnds ==
  /\ pc = "wait" /\ watch \in {"starting", "ending"}
  /\ watch' = "ended"
  /\ egErr' \in IF watch = "starting" /\ ~WatchDone THEN {TRUE} ELSE {egErr, TRUE}
  /\ UNCHANGED <<pc, err, tmpdir, serverVars, env, multi, testsOver, fileVars>>

Handling == Alive /\ watch \in {"up", "ending"}

\* The handler's command of commandenv copies the file and moves it into the
\* target directory.
CopyFile(how) ==
  /\ Handling /\ copied = "none"
  /\ copied' = how
  /\ UNCHANGED <<pc, err, tmpdir, serverVars, groupVars, written, checked, generation>>

\* The one of multifile succeeds once per file, when the generation has come.
Checkmark(f) ==
  /\ Handling /\ f \in written \ checked /\ generation >= Target(f)
  /\ checked' = checked \cup {f}
  /\ UNCHANGED <<pc, err, tmpdir, serverVars, groupVars, copied, written, generation>>

-----------------------------------------------------------------------------
(* The tests                                                               *)

\* backoff.Retry of reading and comparing the copy.
EnvPolls ==
  /\ pc = "wait" /\ env = "polling"
  /\ \/ copied = "good" /\ env' = "passed"
     \/ env' = "failed"
  /\ UNCHANGED <<pc, err, tmpdir, serverVars, watch, multi, egErr, testsOver, fileVars>>

\* addTestFile, one after the other.
MultiAdds ==
  /\ pc = "wait" /\ multi = "adding"
  /\ LET left == Files \ written IN
     \/ left = {} /\ multi' = "polling" /\ UNCHANGED written
     \/ \E f \in left :
          /\ \A g \in left : f <= g
          /\ written' = written \cup {f} /\ UNCHANGED multi
     \/ left # {} /\ multi' = "failed" /\ UNCHANGED written
  /\ UNCHANGED <<pc, err, tmpdir, serverVars, watch, env, egErr, testsOver, copied,
                 checked, generation>>

\* Mutant: the test gives up waiting without an error.
MultiPollsNoError ==
  /\ pc = "wait" /\ multi = "polling"
  /\ \/ (written \subseteq checked \/ TestDone) /\ multi' = "passed" /\ UNCHANGED generation
     \/ /\ ~(written \subseteq checked) /\ generation < MaxGeneration
        /\ generation' = generation + 1 /\ UNCHANGED multi
  /\ UNCHANGED <<pc, err, tmpdir, serverVars, watch, env, egErr, testsOver, copied,
                 written, checked>>

\* deleteFinished, and another generation if a check mark is missing.
MultiPolls ==
  /\ pc = "wait" /\ multi = "polling"
  /\ \/ written \subseteq checked /\ multi' = "passed" /\ UNCHANGED generation
     \/ ~(written \subseteq checked) /\ TestDone /\ multi' = "failed" /\ UNCHANGED generation
     \/ /\ ~(written \subseteq checked) /\ generation < MaxGeneration
        /\ generation' = generation + 1 /\ UNCHANGED multi
  /\ UNCHANGED <<pc, err, tmpdir, serverVars, watch, env, egErr, testsOver, copied,
                 written, checked>>

\* A file cannot be looked at or written.
MultiFails ==
  /\ pc = "wait" /\ multi = "polling"
  /\ multi' = "failed"
  /\ UNCHANGED <<pc, err, tmpdir, serverVars, watch, env, egErr, testsOver, fileVars>>

\* runAll's wg.Wait(); watchCancel is deferred.
RunAll ==
  /\ pc = "wait" /\ ~testsOver /\ {env, multi} \subseteq Over
  /\ testsOver' = TRUE
  /\ egErr' = (egErr \/ "failed" \in {env, multi})
  /\ UNCHANGED <<pc, err, tmpdir, serverVars, watch, env, multi, fileVars>>

-----------------------------------------------------------------------------
Main ==
  \/ MkdirTemp \/ NewRunner \/ StartServer \/ WaitForReady \/ SetupAll \/ GroupWait
  \/ ShutdownServer \/ ShutdownWait \/ CheckProcess \/ KillServer \/ KillWait
  \/ RemoveTempDir

Server == WatchmanUp \/ WatchmanDies

Tests == EnvPolls \/ MultiAdds \/ MultiPolls \/ MultiFails \/ RunAll

Handle ==
  \/ \E how \in {"good", "bad"} : CopyFile(how)
  \/ \E f \in Files : Checkmark(f)

Next ==
  \/ Main \/ Server \/ Tests \/ Handle \/ Expire \/ Crash
  \/ WrapperEnds \/ ContextKills \/ ProcessWait \/ WaitReturns
  \/ WatchUp \/ WatchStops \/ WatchEnds

Spec == Init /\ [][Next]_vars

\* Goroutines run, the processes the program and the kernel act on do what
\* they must, and the watch command ends when it is told to (SignalEnds of
\* WatchCommand).  Nothing else happens necessarily.
FairSpec ==
  /\ Spec
  /\ WF_vars(Main)
  /\ WF_vars(WrapperEnds) /\ WF_vars(ProcessWait) /\ WF_vars(WaitReturns)
  /\ WF_vars(EnvPolls) /\ WF_vars(MultiAdds) /\ WF_vars(MultiPolls) /\ WF_vars(RunAll)
  /\ WF_vars(WatchDone /\ (WatchStops \/ WatchEnds))

-----------------------------------------------------------------------------
(* Properties                                                              *)

\* "Self-test successful." is only said when the copy arrived intact and the
\* command had succeeded with every file: no way of being cancelled, timed
\* out or interrupted, and no error that one goroutine causes in the other,
\* is taken for success.
SuccessMeansPassed ==
  pc = "exit" /\ ~err => copied = "good" /\ Files = checked /\ generation >= SetupTarget

ServerAlive == watchman \in {"starting", "running"}

\* However the self-test ends within its time-out, no server process survives
\* it, and its directory is not removed under a running server.
NoServerLeft ==
  pc \in {"rmdir", "exit"} /\ ServerAlive => expired

\* The self-test ends when its time is up, and without waiting for that when
\* the tests or the watch command end: each goroutine lets go of the other,
\* and the wait for the killed server does not block.
SelfTestEnds == expired \/ testsOver \/ watch = "ended" ~> ~Alive

\* The comment in withServer: "Wrap the server command with another ensuring
\* that the server will eventually be cleaned up."  Here for a program that is
\* not killed itself.
EventuallyCleanedUp == expired ~> ~ServerAlive \/ pc = "crashed"
=============================================================================
