----------------------------- MODULE WatchCommand -----------------------------
(***************************************************************************)
(* The life of the watch command: it starts the scheduler, the socket and  *)
(* the triggers in Watchman, has every observed directory crawled, waits   *)
(* for a signal and undoes everything, in the order of Go's deferred calls *)
(* and of cleanupgroup.  Around it: Watchman and the send-file-changes     *)
(* processes that its triggers start, the users' files, the tasks of the   *)
(* handlers (at most one per handler, see Handler) and the pruning task    *)
(* that schedules its own successor.  The scheduler is used as TaskPool    *)
(* specifies it.  Calls of the Watchman client may fail, with or without   *)
(* having had their effect.                                                *)
(***************************************************************************)
EXTENDS Integers, Sequences, FiniteSets

CONSTANTS
  Handlers,
  Slots,          \* -slots
  Metrics,        \* is there a -metrics_address?
  MaxConcurrent,  \* goroutines of a trigger group at work at the same time
  MaxFiles        \* bound: files that users create while the command runs

ASSUME WatchAssumption ==
  /\ IsFiniteSet(Handlers)
  /\ Metrics \in BOOLEAN
  /\ Slots \in Nat \ {0} /\ MaxConcurrent \in Nat \ {0} /\ MaxFiles \in Nat

VARIABLES
  pc,          \* where ExecuteWithClient is
  tmpdir,      \* does the runtime state directory exist?
  listening,   \* does the socket exist and is its listener open?
  deaf,        \* Accept has failed: the listener is open and nobody accepts
  cleanup,     \* the cleanup group
  timeout,     \* the context of CallWithTimeout: "off", "live", "expired"
  signal,      \* a signal has been sent
  worker,      \* the goroutine of SetAll, RecrawlAll or DeleteAll for a handler
  cancelled,   \* the group's context gctx has been cancelled
  configured,  \* g.configured
  doubtful,    \* TriggerSet had its effect and failed
  undeleted,   \* TriggerDel failed or was skipped
  trigger,     \* of each handler in Watchman: "none", "stale" (of an earlier
               \* run, with a socket that is gone) or "own"
  file,        \* is there an unhandled file in the handler's directory?
  files,       \* files created so far
  news,        \* Watchman is about to report the file
  client,      \* the send-file-changes process of the handler's trigger
  missed,      \* reports that failed on the way since the last crawl
  task,        \* the handler's task in the scheduler
  gaveUp,      \* the last task failed for good
  stopping,    \* the scheduler has been told to stop
  tasksDone,   \* the context of the tasks has been cancelled
  prunes       \* pruning tasks: queued, in pruneAll's loop, returning

mainVars   == <<pc, tmpdir, listening, cleanup, timeout>>
groupVars  == <<worker, cancelled, configured, doubtful, undeleted>>
fileVars   == <<file, files, missed, gaveUp>>
schedVars  == <<stopping, tasksDone>>

vars == <<mainVars, signal, deaf, groupVars, trigger, fileVars, news, client, task, schedVars,
          prunes>>

Startup == {"ready", "mkdir", "start", "metrics", "listen", "set", "recrawl", "prune", "wait"}

Shutdown == {"close", "cleanup", "deleteAll", "stopMetrics", "stop", "rmdir", "ended"}

CleanupFuncs == {"stop", "stopMetrics", "deleteAll"}

TypeOK ==
  /\ pc \in Startup \cup Shutdown
  /\ tmpdir \in BOOLEAN /\ listening \in BOOLEAN /\ deaf \in BOOLEAN
  /\ signal \in BOOLEAN
  /\ cleanup \in Seq(CleanupFuncs) /\ Len(cleanup) <= 3
  /\ timeout \in {"off", "live", "expired"}
  /\ worker \in [Handlers -> {"idle", "todo", "watch", "trigger", "append", "ok", "error"}]
  /\ cancelled \in BOOLEAN /\ stopping \in BOOLEAN /\ tasksDone \in BOOLEAN
  /\ configured \subseteq Handlers /\ doubtful \subseteq Handlers
  /\ undeleted \subseteq Handlers /\ missed \subseteq Handlers /\ gaveUp \subseteq Handlers
  /\ trigger \in [Handlers -> {"none", "stale", "own"}]
  /\ file \in [Handlers -> BOOLEAN] /\ news \in [Handlers -> BOOLEAN]
  /\ files \in 0 .. MaxFiles
  /\ client \in [Handlers -> {"none", "stale", "spawned", "connected"}]
  /\ task \in [Handlers -> {"none", "waiting", "running"}]
  /\ prunes \in [queued : Nat, looping : Nat, returning : Nat]

\* Files and triggers may be left from earlier runs.
Init ==
  /\ pc = "ready" /\ cleanup = <<>> /\ timeout = "off"
  /\ tmpdir = FALSE /\ listening = FALSE /\ deaf = FALSE /\ signal = FALSE
  /\ worker = [h \in Handlers |-> "idle"] /\ cancelled = FALSE
  /\ configured = {} /\ doubtful = {} /\ undeleted = {}
  /\ trigger \in [Handlers -> {"none", "stale"}]
  /\ file \in [Handlers -> BOOLEAN]
  /\ files = 0
  /\ news = [h \in Handlers |-> FALSE]
  /\ client = [h \in Handlers |-> "none"]
  /\ missed = {} /\ gaveUp = {}
  /\ task = [h \in Handlers |-> "none"]
  /\ stopping = FALSE /\ tasksDone = FALSE
  /\ prunes = [queued |-> 0, looping |-> 0, returning |-> 0]

-----------------------------------------------------------------------------
(* Starting                                                                *)

Others == <<signal, deaf, trigger, fileVars, news, client, task>>

\* WaitForReady keeps asking until Watchman answers or the context is done.
Ready ==
  /\ pc = "ready" /\ pc' \in {"mkdir", "ended"}
  /\ UNCHANGED <<tmpdir, listening, cleanup, timeout, groupVars, schedVars, prunes, Others>>

CreateTempDir ==
  /\ pc = "mkdir"
  /\ \/ pc' = "start" /\ tmpdir' = TRUE
     \/ pc' = "ended" /\ UNCHANGED tmpdir
  /\ UNCHANGED <<listening, cleanup, timeout, groupVars, schedVars, prunes, Others>>

StartRouter ==
  /\ pc = "start" /\ pc' = "metrics"
  /\ cleanup' = Append(cleanup, "stop")
  /\ UNCHANGED <<tmpdir, listening, timeout, groupVars, schedVars, prunes, Others>>

ListenAndServeMetrics ==
  /\ pc = "metrics"
  /\ \/ pc' = "listen" /\ cleanup' = IF Metrics THEN Append(cleanup, "stopMetrics") ELSE cleanup
     \/ Metrics /\ pc' = "cleanup" /\ UNCHANGED cleanup
  /\ UNCHANGED <<tmpdir, listening, timeout, groupVars, schedVars, prunes, Others>>

\* Mutant: the listener is opened by the goroutine that serves it.
ListenAndServeLater ==
  /\ pc = "listen"
  /\ cleanup' = Append(cleanup, "deleteAll")
  /\ pc' = "set" /\ UNCHANGED listening
  /\ worker' = [h \in Handlers |-> "todo"]
  /\ UNCHANGED <<tmpdir, timeout, cancelled, configured, doubtful, undeleted, schedVars,
                 prunes, Others>>

ListenAndServe ==
  /\ pc = "listen"
  /\ cleanup' = Append(cleanup, "deleteAll")
  /\ \/ /\ pc' = "set" /\ listening' = TRUE
        /\ worker' = [h \in Handlers |-> "todo"]
     \/ /\ pc' = "cleanup" /\ UNCHANGED <<listening, worker>>
  /\ UNCHANGED <<tmpdir, timeout, cancelled, configured, doubtful, undeleted, schedVars,
                 prunes, Others>>

-----------------------------------------------------------------------------
(* The groups of goroutines that talk to Watchman                          *)

AtWork == {h \in Handlers : worker[h] \in {"watch", "trigger", "append"}}

GroupDone == \A h \in Handlers : worker[h] \in {"idle", "ok", "error"}

\* A goroutine returns an error: errgroup cancels the context of the others.
Fail(h) ==
  /\ worker' = [worker EXCEPT ![h] = "error"]
  /\ cancelled' = TRUE

\* triggerSetter.do: writes the configuration file.
SetBegin(h) ==
  /\ pc = "set" /\ worker[h] = "todo"
  /\ Cardinality(AtWork) < MaxConcurrent
  /\ \/ worker' = [worker EXCEPT ![h] = "watch"] /\ UNCHANGED cancelled
     \/ Fail(h)
  /\ UNCHANGED <<mainVars, configured, doubtful, undeleted, schedVars, prunes, Others>>

SetWatch(h) ==
  /\ worker[h] = "watch"
  /\ \/ /\ ~cancelled
        /\ worker' = [worker EXCEPT ![h] = "trigger"] /\ UNCHANGED cancelled
     \/ Fail(h)
  /\ UNCHANGED <<mainVars, configured, doubtful, undeleted, schedVars, prunes, Others>>

\* The client may be killed after Watchman did what it was told.
SetTrigger(h) ==
  /\ worker[h] = "trigger"
  /\ \/ /\ ~cancelled
        /\ trigger' = [trigger EXCEPT ![h] = "own"]
        /\ worker' = [worker EXCEPT ![h] = "append"]
        /\ UNCHANGED <<cancelled, doubtful>>
     \/ /\ Fail(h)
        /\ trigger' = [trigger EXCEPT ![h] = "own"]
        /\ doubtful' = doubtful \cup {h}
     \/ Fail(h) /\ UNCHANGED <<trigger, doubtful>>
  /\ UNCHANGED <<mainVars, configured, undeleted, schedVars, prunes, signal, deaf, fileVars, news,
                 client, task>>

\* Mutant: a failure elsewhere keeps the trigger out of g.configured.
SetAppendUnlessCancelled(h) ==
  /\ worker[h] = "append"
  /\ configured' = IF cancelled THEN configured ELSE configured \cup {h}
  /\ worker' = [worker EXCEPT ![h] = "ok"]
  /\ UNCHANGED <<mainVars, cancelled, doubtful, undeleted, schedVars, prunes, Others>>

SetAppend(h) ==
  /\ worker[h] = "append"
  /\ configured' = configured \cup {h}
  /\ worker' = [worker EXCEPT ![h] = "ok"]
  /\ UNCHANGED <<mainVars, cancelled, doubtful, undeleted, schedVars, prunes, Others>>

\* Mutant: the directories are not crawled.
SetDoneNoCrawl ==
  /\ pc = "set" /\ GroupDone
  /\ IF cancelled THEN pc' = "close" /\ UNCHANGED <<worker, cancelled>>
     ELSE pc' = "prune" /\ UNCHANGED <<worker, cancelled>>
  /\ UNCHANGED <<tmpdir, listening, cleanup, timeout, configured, doubtful, undeleted,
                 schedVars, prunes, Others>>

\* eg.Wait() of SetAll.
SetDone ==
  /\ pc = "set" /\ GroupDone
  /\ IF cancelled THEN pc' = "close" /\ UNCHANGED <<worker, cancelled>>
     ELSE /\ pc' = "recrawl" /\ cancelled' = FALSE
          /\ worker' = [h \in Handlers |-> IF h \in configured THEN "todo" ELSE "idle"]
  /\ UNCHANGED <<tmpdir, listening, cleanup, timeout, configured, doubtful, undeleted,
                 schedVars, prunes, Others>>

\* Watchman finds every file that is there and tells the trigger.
Recrawl(h) ==
  /\ pc = "recrawl" /\ worker[h] = "todo"
  /\ \/ /\ ~cancelled
        /\ worker' = [worker EXCEPT ![h] = "ok"]
        /\ news' = [news EXCEPT ![h] = file[h]]
        /\ missed' = missed \ {h}
        /\ UNCHANGED cancelled
     \/ /\ Fail(h) /\ UNCHANGED missed
        /\ news' \in {news, [news EXCEPT ![h] = file[h]]}
  /\ UNCHANGED <<mainVars, configured, doubtful, undeleted, schedVars, prunes, signal, deaf,
                 trigger, file, files, gaveUp, client, task>>

RecrawlDone ==
  /\ pc = "recrawl" /\ GroupDone
  /\ pc' = IF cancelled THEN "close" ELSE "prune"
  /\ UNCHANGED <<tmpdir, listening, cleanup, timeout, groupVars, schedVars, prunes, Others>>

\* startPruning; then the command waits.
StartPruning ==
  /\ pc = "prune" /\ pc' = "wait"
  /\ prunes' = [prunes EXCEPT !.queued = @ + 1]
  /\ UNCHANGED <<tmpdir, listening, cleanup, timeout, groupVars, schedVars, Others>>

\* waitForSignal: the signal may have come earlier.
Signalled ==
  /\ pc = "wait" /\ signal
  /\ pc' = "close"
  /\ UNCHANGED <<tmpdir, listening, cleanup, timeout, groupVars, schedVars, prunes, Others>>

-----------------------------------------------------------------------------
(* Ending: the deferred calls, last one first                              *)

\* srv.Close: connections that were accepted go on.
CloseServer ==
  /\ pc = "close" /\ pc' = "cleanup"
  /\ listening' = FALSE
  /\ UNCHANGED <<tmpdir, cleanup, timeout, groupVars, schedVars, prunes, Others>>

\* CallWithTimeout: one time-out for all functions of the group.
CallNext ==
  /\ pc = "cleanup"
  /\ timeout' = IF timeout = "off" THEN "live" ELSE timeout
  /\ IF cleanup = <<>> THEN pc' = "rmdir" /\ UNCHANGED <<cleanup, worker, cancelled, stopping>>
     ELSE LET fn == cleanup[Len(cleanup)] IN
          /\ pc' = fn
          /\ cleanup' = SubSeq(cleanup, 1, Len(cleanup) - 1)
          /\ worker' = IF fn = "deleteAll"
                       THEN [h \in Handlers |-> IF h \in configured THEN "todo" ELSE "idle"]
                       ELSE worker
          /\ cancelled' = (fn # "deleteAll" /\ cancelled)
          /\ stopping' = (stopping \/ fn = "stop")
  /\ UNCHANGED <<tmpdir, listening, configured, doubtful, undeleted, tasksDone, prunes, Others>>

Expire ==
  /\ timeout = "live" /\ pc \in {"deleteAll", "stopMetrics", "stop", "cleanup"}
  /\ timeout' = "expired"
  /\ UNCHANGED <<pc, tmpdir, listening, cleanup, groupVars, schedVars, prunes, Others>>

\* A failure is collected and does not keep the others from being deleted.
DeleteTrigger(h) ==
  /\ pc = "deleteAll" /\ worker[h] = "todo"
  /\ \/ /\ timeout # "expired"
        /\ trigger' = [trigger EXCEPT ![h] = "none"]
        /\ UNCHANGED undeleted
     \/ /\ undeleted' = undeleted \cup {h}
        /\ trigger' \in {trigger, [trigger EXCEPT ![h] = "none"]}
  /\ worker' = [worker EXCEPT ![h] = "ok"]
  /\ UNCHANGED <<mainVars, cancelled, configured, doubtful, schedVars, prunes, signal, deaf,
                 fileVars, news, client, task>>

\* Mutant: DeleteAll insists on every trigger being deleted.
DeleteDoneIfDeleted ==
  /\ pc = "deleteAll" /\ GroupDone /\ undeleted = {}
  /\ pc' = "cleanup"
  /\ UNCHANGED <<tmpdir, listening, cleanup, timeout, groupVars, schedVars, prunes, Others>>

DeleteDone ==
  /\ pc = "deleteAll" /\ GroupDone
  /\ pc' = "cleanup"
  /\ UNCHANGED <<tmpdir, listening, cleanup, timeout, groupVars, schedVars, prunes, Others>>

StopMetrics ==
  /\ pc = "stopMetrics" /\ pc' = "cleanup"
  /\ UNCHANGED <<tmpdir, listening, cleanup, timeout, groupVars, schedVars, prunes, Others>>

SlotsUsed ==
  Cardinality({h \in Handlers : task[h] = "running"}) + prunes.looping + prunes.returning

\* The scheduler's Stop while tasks run: cancel them when time is up.
StopCancel ==
  /\ pc = "stop" /\ timeout = "expired" /\ SlotsUsed > 0 /\ ~tasksDone
  /\ tasksDone' = TRUE
  /\ UNCHANGED <<mainVars, groupVars, stopping, prunes, Others>>

\* Mutant: Stop does not wait for running tasks.
StopDoneAtOnce ==
  /\ pc = "stop" /\ pc' = "cleanup"
  /\ tasksDone' = TRUE
  /\ task' = [h \in Handlers |-> IF task[h] = "waiting" THEN "none" ELSE task[h]]
  /\ prunes' = [prunes EXCEPT !.queued = 0]
  /\ UNCHANGED <<tmpdir, listening, cleanup, timeout, groupVars, stopping, signal, deaf, trigger,
                 fileVars, news, client>>

\* No task runs: Stop drops the queued ones and returns.
StopDone ==
  /\ pc = "stop" /\ SlotsUsed = 0
  /\ pc' = "cleanup"
  /\ tasksDone' = TRUE
  /\ task' = [h \in Handlers |-> IF task[h] = "waiting" THEN "none" ELSE task[h]]
  /\ prunes' = [prunes EXCEPT !.queued = 0]
  /\ UNCHANGED <<tmpdir, listening, cleanup, timeout, groupVars, stopping, signal, deaf, trigger,
                 fileVars, news, client>>

\* RemoveAll may fail.
RemoveTempDir ==
  /\ pc = "rmdir" /\ pc' = "ended"
  /\ tmpdir' \in {FALSE, tmpdir}
  /\ UNCHANGED <<listening, cleanup, timeout, groupVars, schedVars, prunes, Others>>

-----------------------------------------------------------------------------
(* Users, Watchman and its trigger commands                                *)

\* Signals are captured from Setup on, before the directory is made.  One that
\* comes during the shutdown is captured, too, and nobody looks at it.
SendSignal ==
  /\ pc \in Startup \ {"ready"} /\ ~signal
  /\ signal' = TRUE
  /\ UNCHANGED <<mainVars, deaf, groupVars, trigger, fileVars, news, client, task, schedVars,
                 prunes>>

\* What is there when the command has ended is part of the next run's Init.
UserCreates(h) ==
  /\ pc # "ended" /\ ~file[h] /\ files < MaxFiles
  /\ file' = [file EXCEPT ![h] = TRUE]
  /\ files' = files + 1
  /\ news' = [news EXCEPT ![h] = TRUE]
  /\ gaveUp' = gaveUp \ {h} /\ missed' = missed \ {h}
  /\ UNCHANGED <<mainVars, signal, deaf, groupVars, trigger, client, task, schedVars, prunes>>

\* Nobody is told.
NoTrigger(h) ==
  /\ news[h] /\ trigger[h] = "none"
  /\ news' = [news EXCEPT ![h] = FALSE]
  /\ UNCHANGED <<mainVars, signal, deaf, groupVars, trigger, fileVars, client, task,
                 schedVars, prunes>>

\* Watchman runs one command per trigger at a time.
Spawn(h) ==
  /\ news[h] /\ client[h] = "none" /\ trigger[h] # "none"
  /\ news' = [news EXCEPT ![h] = FALSE]
  /\ client' = [client EXCEPT ![h] = IF trigger[h] = "own" THEN "spawned" ELSE "stale"]
  /\ UNCHANGED <<mainVars, signal, deaf, groupVars, trigger, fileVars, task, schedVars, prunes>>

\* An error of Accept ends the goroutine that serves the socket; the listener
\* stays open, and connections wait in it until their clients give up.
AcceptFails ==
  /\ listening /\ ~deaf
  /\ deaf' = TRUE
  /\ UNCHANGED <<mainVars, signal, groupVars, trigger, fileVars, news, client, task, schedVars,
                 prunes>>

\* The connection is accepted.
ClientDial(h) ==
  /\ client[h] = "spawned" /\ listening /\ ~deaf
  /\ client' = [client EXCEPT ![h] = "connected"]
  /\ UNCHANGED <<mainVars, signal, deaf, groupVars, trigger, fileVars, news, task, schedVars,
                 prunes>>

\* The request reaches handle through the service and the router.
FileChanged(h) ==
  /\ client[h] = "connected" /\ pc # "ended"
  /\ task' = IF task[h] = "none" THEN [task EXCEPT ![h] = "waiting"] ELSE task
  /\ client' = [client EXCEPT ![h] = "none"]
  /\ UNCHANGED <<mainVars, signal, deaf, groupVars, trigger, fileVars, news, schedVars, prunes>>

\* There is no socket, nobody accepts, the connection breaks, an earlier change of the batch
\* is refused or Watchman kills the process.
ClientFails(h) ==
  /\ client[h] # "none"
  /\ client' = [client EXCEPT ![h] = "none"]
  /\ missed' = IF client[h] = "stale" THEN missed ELSE missed \cup {h}
  /\ UNCHANGED <<mainVars, signal, deaf, groupVars, trigger, file, files, gaveUp, news, task,
                 schedVars, prunes>>

-----------------------------------------------------------------------------
(* Tasks                                                                   *)

MayBegin == ~stopping /\ SlotsUsed < Slots /\ pc \notin {"ready", "mkdir", "start"}

TaskBegins(h) ==
  /\ task[h] = "waiting" /\ MayBegin
  /\ task' = [task EXCEPT ![h] = "running"]
  /\ UNCHANGED <<mainVars, signal, deaf, groupVars, trigger, fileVars, news, client,
                 schedVars, prunes>>

\* The file is moved away, or the task gives up on it.
TaskEnds(h) ==
  /\ task[h] = "running"
  /\ task' = [task EXCEPT ![h] = "none"]
  /\ \/ file' = [file EXCEPT ![h] = FALSE] /\ gaveUp' = gaveUp \ {h}
     \/ gaveUp' = gaveUp \cup {h} /\ UNCHANGED file
  /\ UNCHANGED <<mainVars, signal, deaf, groupVars, trigger, files, missed, news, client,
                 schedVars,
                 prunes>>

\* An attempt fails and the scheduler has the task back.
TaskRetries(h) ==
  /\ task[h] = "running"
  /\ task' = [task EXCEPT ![h] = "waiting"]
  /\ UNCHANGED <<mainVars, signal, deaf, groupVars, trigger, fileVars, news, client, schedVars,
                 prunes>>

PruneBegins ==
  /\ prunes.queued > 0 /\ MayBegin
  /\ prunes' = [prunes EXCEPT !.queued = @ - 1, !.looping = @ + 1]
  /\ UNCHANGED <<mainVars, signal, deaf, groupVars, trigger, fileVars, news, client, task,
                 schedVars>>

\* Mutant: an error ends pruneAll early.
PruneReschedulesOnSuccess ==
  /\ prunes.looping > 0
  /\ \/ prunes' = [prunes EXCEPT !.queued = @ + 1, !.looping = @ - 1, !.returning = @ + 1]
     \/ prunes' = [prunes EXCEPT !.looping = @ - 1, !.returning = @ + 1]
  /\ UNCHANGED <<mainVars, signal, deaf, groupVars, trigger, fileVars, news, client, task,
                 schedVars>>

\* Every handler has been pruned, with or without errors: the next pruning is
\* scheduled before this one returns.
PruneReschedules ==
  /\ prunes.looping > 0
  /\ prunes' = [prunes EXCEPT !.queued = @ + 1, !.looping = @ - 1, !.returning = @ + 1]
  /\ UNCHANGED <<mainVars, signal, deaf, groupVars, trigger, fileVars, news, client, task,
                 schedVars>>

\* The context was found to be cancelled between two handlers.
PruneCancelled ==
  /\ prunes.looping > 0 /\ tasksDone
  /\ prunes' = [prunes EXCEPT !.looping = @ - 1, !.returning = @ + 1]
  /\ UNCHANGED <<mainVars, signal, deaf, groupVars, trigger, fileVars, news, client, task,
                 schedVars>>

PruneReturns ==
  /\ prunes.returning > 0
  /\ prunes' = [prunes EXCEPT !.returning = @ - 1]
  /\ UNCHANGED <<mainVars, signal, deaf, groupVars, trigger, fileVars, news, client, task,
                 schedVars>>

-----------------------------------------------------------------------------
Main ==
  \/ Ready \/ CreateTempDir \/ StartRouter \/ ListenAndServeMetrics \/ ListenAndServe
  \/ SetDone \/ RecrawlDone \/ StartPruning \/ Signalled
  \/ CloseServer \/ CallNext \/ DeleteDone \/ StopMetrics \/ StopCancel \/ StopDone
  \/ RemoveTempDir

Worker(h) ==
  SetBegin(h) \/ SetWatch(h) \/ SetTrigger(h) \/ SetAppend(h) \/ Recrawl(h) \/ DeleteTrigger(h)

Prune == PruneReschedules \/ PruneCancelled \/ PruneReturns

Next ==
  \/ Main \/ Expire \/ SendSignal \/ AcceptFails
  \/ PruneBegins \/ Prune
  \/ \E h \in Handlers :
       \/ Worker(h)
       \/ UserCreates(h) \/ NoTrigger(h) \/ Spawn(h)
       \/ ClientDial(h) \/ FileChanged(h) \/ ClientFails(h)
       \/ TaskBegins(h) \/ TaskEnds(h) \/ TaskRetries(h)

Spec == Init /\ [][Next]_vars

\* Goroutines run, calls of the Watchman client return, attempts end
\* (each has a time-out) and with them the task or its turn.
FairSpec ==
  /\ Spec
  /\ WF_vars(Main) /\ WF_vars(Prune)
  /\ \A h \in Handlers : WF_vars(Worker(h)) /\ WF_vars(TaskEnds(h) \/ TaskRetries(h))

-----------------------------------------------------------------------------
(* Properties                                                              *)

\* "Calling DeleteAll unconfigures them" (Group): before the scheduler stops,
\* and so when the command has ended, a trigger of its own is left only if
\* Watchman set it although the client said otherwise, or if deleting it
\* failed or took too long.  Failures of other handlers, in SetAll, RecrawlAll
\* or DeleteAll, do not matter.
TriggersAccounted ==
  stopping \/ pc = "ended" =>
    \A h \in Handlers : trigger[h] = "own" => h \in doubtful \cup undeleted

\* No trigger command finds a closed door before the shutdown begins.
SocketServesTriggers ==
  pc \in Startup => \A h \in Handlers : trigger[h] = "own" => listening

\* When the command is up, every file that is in an observed directory,
\* whether it came before, during or after the start, and whatever a trigger
\* of an earlier run did with its report, is on its way to a handler, or its
\* report failed or its task gave up in this run.
FilesSeen ==
  pc = "wait" => \A h \in Handlers : file[h] =>
    news[h] \/ client[h] \in {"spawned", "connected"} \/ task[h] # "none" \/ h \in missed \cup gaveUp

\* Tasks are not cancelled before -shutdown_timeout is over, and when the
\* command has ended none is running.
GracefulStop ==
  /\ tasksDone /\ SlotsUsed > 0 => timeout = "expired"
  /\ pc \in {"rmdir", "ended"} => SlotsUsed = 0

\* Pruning goes on: from startPruning until the tasks' context is cancelled
\* exactly one pruning task is waiting or at work, and never are there two.
PruneChain ==
  /\ prunes.queued + prunes.looping <= 1
  /\ pc = "wait" => prunes.queued + prunes.looping = 1

\* A signal ends the command, even one that came while it was starting; and
\* so does a failure to start, whatever has been set up and however the undoing
\* of it fails.
SignalEnds == signal \/ pc \in Shutdown ~> pc = "ended"
=============================================================================
