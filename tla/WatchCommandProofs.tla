------------------------- MODULE WatchCommandProofs -------------------------
(***************************************************************************)
(* Proofs about WatchCommand, for any handlers, slots and limits, with and *)
(* without a metrics server, whatever fails and whenever the signal comes. *)
(***************************************************************************)
EXTENDS WatchCommand, FiniteSetTheorems, SequenceTheorems, TLAPS

\* Before the socket is open, and while it is.
Early == {"ready", "mkdir", "start", "metrics", "listen"}

Up == {"set", "recrawl", "prune", "wait", "close"}

\* Types, without the bound on the cleanup group.
Typed ==
  /\ pc \in Startup \cup Shutdown
  /\ tmpdir \in BOOLEAN /\ listening \in BOOLEAN /\ deaf \in BOOLEAN /\ signal \in BOOLEAN
  /\ cleanup \in Seq(CleanupFuncs)
  /\ timeout \in {"off", "live", "expired"}
  /\ worker \in [Handlers -> {"idle", "todo", "watch", "trigger", "append", "ok", "error"}]
  /\ cancelled \in BOOLEAN /\ stopping \in BOOLEAN /\ tasksDone \in BOOLEAN
  /\ configured \subseteq Handlers /\ doubtful \subseteq Handlers
  /\ undeleted \subseteq Handlers /\ missed \subseteq Handlers /\ gaveUp \subseteq Handlers
  /\ trigger \in [Handlers -> {"none", "stale", "own"}]
  /\ file \in [Handlers -> BOOLEAN] /\ news \in [Handlers -> BOOLEAN]
  /\ files \in 0 .. MaxFiles
  /\ client \in [Handlers -> {"none", "stale", "spawned", "connected"}]
  /\ task \in [Handlers -> {"none", "waiting", "running"}]
  /\ prunes \in [queued : Nat, looping : Nat, returning : Nat]

\* The cleanup group: Stop of the scheduler is its first function and runs
\* last, DeleteAll its last one and runs first.
CleanupInv ==
  /\ \A k \in 1 .. Len(cleanup) : cleanup[k] = "stop" <=> k = 1
  /\ pc \in {"ready", "mkdir", "start", "stop", "rmdir", "ended"} => Len(cleanup) = 0
  /\ pc = "metrics" => Len(cleanup) = 1
  /\ pc = "listen" => Len(cleanup) \in 1 .. 2
  /\ pc \in Up => Len(cleanup) > 0 /\ cleanup[Len(cleanup)] = "deleteAll"
  /\ pc \in {"deleteAll", "stopMetrics"} => Len(cleanup) > 0
  /\ Len(cleanup) <= 3
  /\ pc \in {"stop", "rmdir"} \/ (pc = "cleanup" /\ Len(cleanup) = 0) => stopping
  /\ stopping => Len(cleanup) = 0 /\ pc \in {"stop", "cleanup", "rmdir", "ended"}
  /\ tasksDone => stopping

\* Nobody can reach the command, and nobody has been told of it.
Quiet ==
  /\ ~listening
  /\ \A h \in Handlers :
       client[h] \in {"none", "stale"} /\ task[h] = "none" /\ trigger[h] # "own"
  /\ prunes.queued = 0 /\ prunes.looping = 0 /\ prunes.returning = 0

StartInv ==
  /\ pc \in Early \/ (pc = "ended" /\ ~stopping) => Quiet
  /\ pc \in Up => listening

\* The goroutines of SetAll and RecrawlAll: who succeeded is in g.configured,
\* who failed cancelled the others.
WorkerInv ==
  \A h \in Handlers :
    /\ worker[h] \in {"watch", "trigger", "append"} => pc = "set"
    /\ pc \in Early => h \notin configured
    /\ pc = "set" =>
         /\ worker[h] # "idle"
         /\ worker[h] = "ok" => h \in configured
         /\ worker[h] = "error" => cancelled
    /\ pc = "recrawl" => worker[h] \in {"todo", "ok"} \/ (worker[h] = "error" /\ cancelled)
    /\ pc \in {"recrawl", "prune", "wait"} => h \in configured
    /\ (pc \in {"set", "recrawl", "prune", "wait"} /\ h \in configured) \/ worker[h] = "append" =>
         trigger[h] = "own"

\* DeleteAll has yet to be called.
DeletePending == Len(cleanup) > 0 /\ cleanup[Len(cleanup)] = "deleteAll"

\* Somebody knows of every trigger that was set.
OwnInv ==
  \A h \in Handlers : trigger[h] = "own" =>
    \/ h \in doubtful \cup undeleted
    \/ h \in configured /\ DeletePending
    \/ worker[h] = "append"
    \/ pc = "deleteAll" /\ worker[h] = "todo"

\* No task uses a slot.
Idle ==
  /\ \A h \in Handlers : task[h] # "running"
  /\ prunes.looping = 0 /\ prunes.returning = 0

StopInv ==
  /\ tasksDone => timeout = "expired" \/ Idle
  /\ pc = "rmdir" \/ (pc = "cleanup" /\ Len(cleanup) = 0) \/ (pc = "ended" /\ stopping) => Idle

\* Of pruning tasks there is one at most, none before startPruning and one
\* while the command waits.
PruneInv ==
  /\ prunes.queued + prunes.looping <= 1
  /\ pc \in Startup \ {"wait"} => prunes.queued + prunes.looping = 0
  /\ pc = "wait" => prunes.queued + prunes.looping = 1

\* The handler's file is on its way, or somebody said that it is not.
Seen(h) ==
  file[h] =>
    \/ news[h] \/ client[h] \in {"spawned", "connected"} \/ task[h] # "none"
    \/ h \in missed \cup gaveUp

SeenInv ==
  \A h \in Handlers :
    \/ pc \in {"prune", "wait"}
    \/ pc = "recrawl" /\ worker[h] = "ok"
    => Seen(h)

Inv ==
  /\ Typed /\ CleanupInv /\ StartInv /\ WorkerInv /\ OwnInv /\ StopInv /\ PruneInv /\ SeenInv

-----------------------------------------------------------------------------
(* Types                                                                   *)

\* The steps of the users, Watchman, its trigger commands, the tasks and the
\* clock, none of which touches what the command and its goroutines keep.
Around ==
  \/ SendSignal \/ AcceptFails \/ PruneBegins \/ Prune
  \/ \E h \in Handlers :
       \/ UserCreates(h) \/ NoTrigger(h) \/ Spawn(h)
       \/ ClientDial(h) \/ FileChanged(h) \/ ClientFails(h)
       \/ TaskBegins(h) \/ TaskEnds(h) \/ TaskRetries(h)

\* The steps around the command leave its own state alone.
LEMMA AroundFrame ==
  ASSUME Around
  PROVE  UNCHANGED <<pc, tmpdir, listening, cleanup, timeout, worker, cancelled, configured,
                     doubtful, undeleted, trigger, stopping, tasksDone>>
BY DEF Around, SendSignal, AcceptFails, PruneBegins, Prune, PruneReschedules,
       PruneCancelled, PruneReturns,
       UserCreates, NoTrigger, Spawn, ClientDial, FileChanged, ClientFails, TaskBegins, TaskEnds, TaskRetries,
       mainVars, groupVars, schedVars

\* Every step is one of the command, of a goroutine, of the clock or of those
\* around the command.
LEMMA NextCases ==
  ASSUME [Next]_vars
  PROVE  Main \/ Expire \/ Around \/ (\E h \in Handlers : Worker(h)) \/ UNCHANGED vars
BY DEF Next, Around

\* The counters of pruning tasks after a step.
PruneCounts(q, l, r) == prunes' = [queued |-> q, looping |-> l, returning |-> r]

\* What the steps of pruning tasks do to their counters.
LEMMA PruneTypes ==
  ASSUME prunes \in [queued : Nat, looping : Nat, returning : Nat]
  PROVE  /\ PruneBegins => PruneCounts(prunes.queued - 1, prunes.looping + 1, prunes.returning)
         /\ PruneReschedules =>
              PruneCounts(prunes.queued + 1, prunes.looping - 1, prunes.returning + 1)
         /\ PruneCancelled =>
              PruneCounts(prunes.queued, prunes.looping - 1, prunes.returning + 1)
         /\ PruneReturns => PruneCounts(prunes.queued, prunes.looping, prunes.returning - 1)
         /\ StartPruning => PruneCounts(prunes.queued + 1, prunes.looping, prunes.returning)
         /\ StopDone => PruneCounts(0, prunes.looping, prunes.returning)
         /\ PruneBegins \/ Prune \/ StartPruning \/ StopDone =>
              prunes' \in [queued : Nat, looping : Nat, returning : Nat]
<1>1. PICK q \in Nat, l \in Nat, r \in Nat :
        prunes = [queued |-> q, looping |-> l, returning |-> r]
  OBVIOUS
<1>2. PruneBegins => PruneCounts(q - 1, l + 1, r) /\ q > 0
  BY <1>1 DEF PruneBegins, PruneCounts
<1>3. PruneReschedules => PruneCounts(q + 1, l - 1, r + 1) /\ l > 0
  BY <1>1 DEF PruneReschedules, PruneCounts
<1>4. PruneCancelled => PruneCounts(q, l - 1, r + 1) /\ l > 0
  BY <1>1 DEF PruneCancelled, PruneCounts
<1>5. PruneReturns => PruneCounts(q, l, r - 1) /\ r > 0
  BY <1>1 DEF PruneReturns, PruneCounts
<1>6. StartPruning => PruneCounts(q + 1, l, r)
  BY <1>1 DEF StartPruning, PruneCounts
<1>7. StopDone => PruneCounts(0, l, r)
  BY <1>1 DEF StopDone, PruneCounts
<1>8. PruneBegins \/ Prune \/ StartPruning \/ StopDone =>
        \E a \in Nat, b \in Nat, c \in Nat : PruneCounts(a, b, c)
  BY <1>2, <1>3, <1>4, <1>5, <1>6, <1>7 DEF Prune
<1>9. PruneBegins \/ Prune \/ StartPruning \/ StopDone =>
        prunes' \in [queued : Nat, looping : Nat, returning : Nat]
  BY <1>8 DEF PruneCounts
<1>10. QED
  BY <1>1, <1>2, <1>3, <1>4, <1>5, <1>6, <1>7, <1>9

\* The steps around the command keep the types.
LEMMA AroundTypes ==
  ASSUME Typed, Around
  PROVE  Typed'
<1> USE WatchAssumption DEF Typed, mainVars, groupVars, schedVars, fileVars
<1>1. CASE SendSignal \/ AcceptFails
  <2>1. CASE SendSignal
    BY <2>1 DEF SendSignal
  <2>2. CASE AcceptFails
    BY <2>2 DEF AcceptFails
  <2>3. QED
    BY <1>1, <2>1, <2>2
<1>2. CASE PruneBegins \/ Prune
  <2>1. prunes' \in [queued : Nat, looping : Nat, returning : Nat]
    BY <1>2, PruneTypes
  <2>2. UNCHANGED <<signal, deaf, fileVars, news, client, task>>
    BY <1>2 DEF PruneBegins, Prune, PruneReschedules, PruneCancelled, PruneReturns
  <2>3. QED
    BY <2>1, <2>2, AroundFrame
<1>3. ASSUME NEW h \in Handlers, UserCreates(h) PROVE Typed'
  BY <1>3 DEF UserCreates
<1>4. ASSUME NEW h \in Handlers, NoTrigger(h) \/ Spawn(h) \/ ClientDial(h) PROVE Typed'
  <2>1. CASE NoTrigger(h)
    BY <2>1 DEF NoTrigger
  <2>2. CASE Spawn(h)
    BY <2>2 DEF Spawn
  <2>3. CASE ClientDial(h)
    BY <2>3 DEF ClientDial
  <2>4. QED
    BY <1>4, <2>1, <2>2, <2>3
<1>5. ASSUME NEW h \in Handlers, FileChanged(h) \/ ClientFails(h) PROVE Typed'
  <2>1. CASE FileChanged(h)
    BY <2>1 DEF FileChanged
  <2>2. CASE ClientFails(h)
    BY <2>2 DEF ClientFails
  <2>3. QED
    BY <1>5, <2>1, <2>2
<1>6. ASSUME NEW h \in Handlers, TaskBegins(h) \/ TaskEnds(h) \/ TaskRetries(h) PROVE Typed'
  <2>1. CASE TaskBegins(h)
    BY <2>1 DEF TaskBegins
  <2>2. CASE TaskEnds(h)
    BY <2>2, ZenonT(40) DEF TaskEnds
  <2>3. CASE TaskRetries(h)
    BY <2>3 DEF TaskRetries
  <2>4. QED
    BY <1>6, <2>1, <2>2, <2>3
<1>7. QED
  BY <1>1, <1>2, <1>3, <1>4, <1>5, <1>6 DEF Around

\* The goroutines of the group keep the types.
LEMMA WorkerTypes ==
  ASSUME Typed, NEW h \in Handlers, Worker(h)
  PROVE  Typed'
<1> USE WatchAssumption DEF Typed, mainVars, schedVars, fileVars, Others, Fail
<1>1. CASE SetBegin(h) \/ SetWatch(h) \/ SetAppend(h)
  <2>1. CASE SetBegin(h)
    BY <2>1, ZenonT(40) DEF SetBegin
  <2>2. CASE SetWatch(h)
    BY <2>2, ZenonT(40) DEF SetWatch
  <2>3. CASE SetAppend(h)
    BY <2>3 DEF SetAppend
  <2>4. QED
    BY <1>1, <2>1, <2>2, <2>3
<1>2. CASE SetTrigger(h)
  BY <1>2, ZenonT(40) DEF SetTrigger
<1>3. CASE Recrawl(h)
  <2>1. news' \in {news, [news EXCEPT ![h] = file[h]]}
    BY <1>3 DEF Recrawl
  <2>2. news' \in [Handlers -> BOOLEAN]
    BY <2>1
  <2>3. QED
    BY <1>3, <2>2, ZenonT(40) DEF Recrawl
<1>4. CASE DeleteTrigger(h)
  BY <1>4 DEF DeleteTrigger
<1>5. QED
  BY <1>1, <1>2, <1>3, <1>4 DEF Worker

\* The command's own steps and the time-out keep the types.
LEMMA MainTypes ==
  ASSUME Typed, Main \/ Expire
  PROVE  Typed'
<1> USE WatchAssumption DEF Typed, groupVars, schedVars, fileVars, Others, Startup, Shutdown
<1>1. CASE Ready \/ CreateTempDir \/ RecrawlDone \/ Signalled
  <2>1. CASE Ready
    BY <2>1 DEF Ready
  <2>2. CASE CreateTempDir
    BY <2>2, ZenonT(40) DEF CreateTempDir
  <2>3. CASE RecrawlDone
    BY <2>3 DEF RecrawlDone
  <2>4. CASE Signalled
    BY <2>4 DEF Signalled
  <2>5. QED
    BY <1>1, <2>1, <2>2, <2>3, <2>4
<1>2. CASE SetDone
  BY <1>2, ZenonT(40) DEF SetDone
<1>3. CASE StartRouter \/ ListenAndServeMetrics \/ ListenAndServe
  <2>0. \A fn \in CleanupFuncs : Append(cleanup, fn) \in Seq(CleanupFuncs)
    OBVIOUS
  <2>1. cleanup' \in Seq(CleanupFuncs)
    BY <1>3, <2>0, Zenon DEF StartRouter, ListenAndServeMetrics, ListenAndServe, CleanupFuncs
  <2>2. CASE StartRouter \/ ListenAndServeMetrics
    BY <2>1, <2>2 DEF StartRouter, ListenAndServeMetrics
  <2>3. CASE ListenAndServe
    BY <2>1, <2>3, ZenonT(40) DEF ListenAndServe
  <2>4. QED
    BY <1>3, <2>2, <2>3
<1>4. CASE CloseServer \/ DeleteDone \/ StopMetrics \/ RemoveTempDir \/ Expire
  <2>1. CASE CloseServer
    BY <2>1 DEF CloseServer
  <2>2. CASE DeleteDone
    BY <2>2 DEF DeleteDone
  <2>3. CASE StopMetrics
    BY <2>3 DEF StopMetrics
  <2>4. CASE RemoveTempDir
    BY <2>4 DEF RemoveTempDir
  <2>5. CASE Expire
    BY <2>5 DEF Expire
  <2>6. QED
    BY <1>4, <2>1, <2>2, <2>3, <2>4, <2>5
<1>5. CASE StopCancel \/ StopDone
  <2>1. CASE StopCancel
    BY <2>1 DEF StopCancel, mainVars
  <2>2. CASE StopDone
    <3>1. prunes' \in [queued : Nat, looping : Nat, returning : Nat]
      BY <2>2, PruneTypes
    <3>2. QED
      BY <2>2, <3>1 DEF StopDone
  <2>3. QED
    BY <1>5, <2>1, <2>2
<1>6. CASE CallNext
  <2>1. CASE cleanup = <<>>
    BY <1>6, <2>1 DEF CallNext
  <2>2. CASE cleanup # <<>>
    <3> DEFINE fn == cleanup[Len(cleanup)]
    <3>1. fn \in CleanupFuncs /\ SubSeq(cleanup, 1, Len(cleanup) - 1) \in Seq(CleanupFuncs)
      BY <2>2
    <3>2. /\ pc' = fn /\ cleanup' = SubSeq(cleanup, 1, Len(cleanup) - 1)
          /\ worker' = IF fn = "deleteAll"
                       THEN [h \in Handlers |-> IF h \in configured THEN "todo" ELSE "idle"]
                       ELSE worker
          /\ cancelled' = (fn # "deleteAll" /\ cancelled)
          /\ stopping' = (stopping \/ fn = "stop")
      BY <1>6, <2>2 DEF CallNext
    <3>3. timeout' \in {"off", "live", "expired"}
      BY <1>6 DEF CallNext
    <3>4. cancelled' \in BOOLEAN /\ stopping' \in BOOLEAN
      BY <3>2, Zenon
    <3>5. QED
      BY <1>6, <3>1, <3>2, <3>3, <3>4 DEF CallNext, CleanupFuncs
  <2>3. QED
    BY <2>1, <2>2
<1>7. CASE StartPruning
  <2>1. prunes' \in [queued : Nat, looping : Nat, returning : Nat]
    BY <1>7, PruneTypes
  <2>2. QED
    BY <1>7, <2>1 DEF StartPruning
<1>8. QED
  BY <1>1, <1>2, <1>3, <1>4, <1>5, <1>6, <1>7 DEF Main

\* Every step keeps the types.
LEMMA TypeStep ==
  ASSUME Typed, [Next]_vars
  PROVE  Typed'
<1>1. CASE UNCHANGED vars
  BY <1>1 DEF vars, mainVars, groupVars, schedVars, fileVars, Typed
<1>2. QED
  BY <1>1, NextCases, AroundTypes, WorkerTypes, MainTypes

-----------------------------------------------------------------------------
(* The order of the cleanup functions                                      *)

\* A function is added to the group.
LEMMA Appended ==
  ASSUME Typed, CleanupInv, NEW fn \in CleanupFuncs, cleanup' = Append(cleanup, fn),
         fn = "stop" <=> Len(cleanup) = 0
  PROVE  /\ Len(cleanup') = Len(cleanup) + 1 /\ cleanup'[Len(cleanup')] = fn
         /\ \A k \in 1 .. Len(cleanup') : cleanup'[k] = "stop" <=> k = 1
<1>1. cleanup \in Seq(CleanupFuncs)
  BY DEF Typed
<1>2. /\ Len(cleanup') = Len(cleanup) + 1 /\ cleanup'[Len(cleanup')] = fn
      /\ \A k \in 1 .. Len(cleanup) : cleanup'[k] = cleanup[k]
      /\ Len(cleanup) \in Nat
  BY <1>1
<1>3. \A k \in 1 .. Len(cleanup) : cleanup[k] = "stop" <=> k = 1
  BY DEF CleanupInv
<1>4. ASSUME NEW k \in 1 .. Len(cleanup') PROVE cleanup'[k] = "stop" <=> k = 1
  <2>1. CASE k \in 1 .. Len(cleanup)
    BY <1>2, <1>3, <2>1
  <2>2. CASE k = Len(cleanup) + 1
    BY <1>2, <2>2
  <2>3. QED
    BY <1>2, <2>1, <2>2
<1>5. QED
  BY <1>2, <1>4

\* The last function of the group is called.
LEMMA Popped ==
  ASSUME Typed, CleanupInv, cleanup # <<>>,
         cleanup' = SubSeq(cleanup, 1, Len(cleanup) - 1)
  PROVE  /\ Len(cleanup) > 0 /\ cleanup[Len(cleanup)] \in CleanupFuncs
         /\ Len(cleanup') = Len(cleanup) - 1
         /\ \A k \in 1 .. Len(cleanup') : cleanup'[k] = "stop" <=> k = 1
         /\ cleanup[Len(cleanup)] = "stop" <=> Len(cleanup') = 0
<1>1. cleanup \in Seq(CleanupFuncs)
  BY DEF Typed
<1>2. /\ Len(cleanup) \in Nat /\ Len(cleanup) > 0 /\ cleanup[Len(cleanup)] \in CleanupFuncs
      /\ Len(cleanup') = Len(cleanup) - 1
      /\ \A k \in 1 .. Len(cleanup') : cleanup'[k] = cleanup[k]
  <2>1. Len(cleanup) \in Nat /\ Len(cleanup) > 0
    BY <1>1
  <2>2. cleanup[Len(cleanup)] \in CleanupFuncs
    BY <1>1, <2>1
  <2>3. Len(cleanup') = Len(cleanup) - 1
    <3>1. \A k \in 1 .. Len(cleanup) - 1 : cleanup[k] \in CleanupFuncs
      BY <1>1, <2>1
    <3> DEFINE n == Len(cleanup) - 1
    <3> DEFINE l == Len(SubSeq(cleanup, 1, n))
    <3>2. n \in Nat /\ n = Len(cleanup) - 1
      BY <2>1
    <3> HIDE DEF n
    <3>3. l = IF 1 <= n THEN n - 1 + 1 ELSE 0
      BY <3>1, <3>2, SubSeqProperties
    <3>4. Len(cleanup') = l
      BY Zenon DEF n
    <3> HIDE DEF l
    <3>5. QED
      BY <3>2, <3>3, <3>4
  <2>4. \A k \in 1 .. Len(cleanup') : cleanup'[k] = cleanup[k]
    BY <1>1, <2>1, <2>3
  <2>5. QED
    BY <2>1, <2>2, <2>3, <2>4
<1>3. \A k \in 1 .. Len(cleanup) : cleanup[k] = "stop" <=> k = 1
  BY DEF CleanupInv
<1>4. \A k \in 1 .. Len(cleanup') : k \in 1 .. Len(cleanup)
  BY <1>2
<1>5. Len(cleanup) \in 1 .. Len(cleanup)
  BY <1>2
<1> HIDE DEF Typed, CleanupInv
<1>6. \A k \in 1 .. Len(cleanup') : cleanup'[k] = "stop" <=> k = 1
  BY <1>2, <1>3, <1>4
<1>7. cleanup[Len(cleanup)] = "stop" <=> Len(cleanup') = 0
  BY <1>2, <1>3, <1>5
<1>8. QED
  BY <1>2, <1>6, <1>7

\* Functions join and leave the cleanup group at its end, Stop before all
\* others: every step keeps CleanupInv.
LEMMA CleanupStep ==
  ASSUME Typed, CleanupInv, [Next]_vars
  PROVE  CleanupInv'
<1>a. Len(cleanup) \in Nat
  BY DEF Typed
<1> USE DEF Up
<1>1. CASE Around
  BY <1>1, AroundFrame DEF CleanupInv
<1>2. ASSUME NEW h \in Handlers, Worker(h) PROVE CleanupInv'
  BY <1>2 DEF CleanupInv, Worker, SetBegin, SetWatch, SetTrigger, SetAppend, Recrawl,
              DeleteTrigger, mainVars, schedVars
<1>3. CASE Ready \/ CreateTempDir \/ SetDone \/ RecrawlDone \/ StartPruning \/ Signalled
  BY <1>3 DEF CleanupInv, Ready, CreateTempDir, SetDone, RecrawlDone, StartPruning, Signalled,
              schedVars
<1>4. CASE CloseServer \/ Expire \/ DeleteDone \/ StopMetrics \/ RemoveTempDir
  <2>1. UNCHANGED <<cleanup, stopping, tasksDone>>
    BY <1>4 DEF CloseServer, Expire, DeleteDone, StopMetrics, RemoveTempDir, schedVars
  <2>2. CASE pc \in {"close", "deleteAll", "stopMetrics"} /\ pc' = "cleanup"
    BY <1>a, <2>1, <2>2 DEF CleanupInv
  <2>3. CASE pc' = pc
    BY <2>1, <2>3 DEF CleanupInv
  <2>4. CASE pc = "rmdir" /\ pc' = "ended"
    BY <2>1, <2>4 DEF CleanupInv
  <2>5. QED
    BY <1>4, <2>2, <2>3, <2>4 DEF CloseServer, Expire, DeleteDone, StopMetrics, RemoveTempDir
<1>5. CASE StopCancel \/ StopDone
  BY <1>5 DEF CleanupInv, StopCancel, StopDone, mainVars
<1>6. CASE StartRouter
  <2>1. /\ pc = "start" /\ pc' = "metrics" /\ cleanup' = Append(cleanup, "stop")
        /\ UNCHANGED <<stopping, tasksDone>> /\ Len(cleanup) = 0 /\ "stop" \in CleanupFuncs
    BY <1>6 DEF CleanupInv, StartRouter, schedVars, CleanupFuncs
  <2>2. /\ Len(cleanup') = 1 /\ \A k \in 1 .. Len(cleanup') : cleanup'[k] = "stop" <=> k = 1
    BY <2>1, Appended
  <2>3. QED
    BY <2>1, <2>2 DEF CleanupInv
<1>7. CASE ListenAndServeMetrics
  <2>1. /\ pc = "metrics" /\ UNCHANGED <<stopping, tasksDone>> /\ Len(cleanup) = 1
        /\ "stopMetrics" \in CleanupFuncs
    BY <1>7 DEF CleanupInv, ListenAndServeMetrics, schedVars, CleanupFuncs
  <2>2. CASE cleanup' = Append(cleanup, "stopMetrics") /\ pc' = "listen"
    <3>1. /\ Len(cleanup') = 2 /\ \A k \in 1 .. Len(cleanup') : cleanup'[k] = "stop" <=> k = 1
      BY <2>1, <2>2, Appended
    <3>2. QED
      BY <2>1, <2>2, <3>1 DEF CleanupInv
  <2>3. CASE cleanup' = cleanup /\ pc' \in {"listen", "cleanup"}
    BY <2>1, <2>3 DEF CleanupInv
  <2>4. QED
    BY <1>7, <2>2, <2>3 DEF ListenAndServeMetrics
<1>8. CASE ListenAndServe
  <2>1. /\ pc = "listen" /\ UNCHANGED <<stopping, tasksDone>> /\ Len(cleanup) \in 1 .. 2
        /\ "deleteAll" \in CleanupFuncs /\ cleanup' = Append(cleanup, "deleteAll")
        /\ pc' \in {"set", "cleanup"}
    BY <1>8 DEF CleanupInv, ListenAndServe, schedVars, CleanupFuncs
  <2>2. /\ Len(cleanup') \in 2 .. 3 /\ cleanup'[Len(cleanup')] = "deleteAll"
        /\ \A k \in 1 .. Len(cleanup') : cleanup'[k] = "stop" <=> k = 1
    BY <2>1, Appended, SMTT(20)
  <2>3. QED
    BY <2>1, <2>2 DEF CleanupInv
<1>9. CASE CallNext
  <2>1. pc = "cleanup" /\ UNCHANGED tasksDone
    BY <1>9 DEF CallNext
  <2>2. CASE cleanup = <<>>
    <3>1. pc' = "rmdir" /\ UNCHANGED <<cleanup, stopping>> /\ Len(cleanup) = 0
      BY <1>9, <2>2 DEF CallNext
    <3>2. QED
      BY <2>1, <3>1 DEF CleanupInv
  <2>3. CASE cleanup # <<>>
    <3> DEFINE fn == cleanup[Len(cleanup)]
    <3>1. /\ pc' = fn /\ cleanup' = SubSeq(cleanup, 1, Len(cleanup) - 1)
          /\ stopping' = (stopping \/ fn = "stop")
      BY <1>9, <2>3 DEF CallNext
    <3>2. /\ Len(cleanup) > 0 /\ fn \in CleanupFuncs /\ Len(cleanup') = Len(cleanup) - 1
          /\ \A k \in 1 .. Len(cleanup') : cleanup'[k] = "stop" <=> k = 1
          /\ fn = "stop" <=> Len(cleanup') = 0
      BY <2>3, <3>1, Popped
    <3>3. ~stopping /\ ~tasksDone /\ Len(cleanup) <= 3
      BY <3>2 DEF CleanupInv
    <3>4. stopping' <=> fn = "stop"
      BY <3>1, <3>3, Zenon
    <3> HIDE DEF fn
    <3>5. QED
      BY <1>a, <2>1, <3>1, <3>2, <3>3, <3>4 DEF CleanupInv, CleanupFuncs
  <2>4. QED
    BY <2>2, <2>3
<1>10. CASE UNCHANGED vars
  BY <1>10 DEF CleanupInv, vars, mainVars, schedVars
<1>11. QED
  BY <1>1, <1>2, <1>3, <1>4, <1>5, <1>6, <1>7, <1>8, <1>9, <1>10, NextCases DEF Main

-----------------------------------------------------------------------------
(* The start                                                               *)

\* Before the socket listens nothing can be started from outside: every step
\* keeps StartInv.
LEMMA StartStep ==
  ASSUME Typed, CleanupInv, StartInv, WorkerInv, [Next]_vars
  PROVE  StartInv'
<1> USE DEF Early, Up, StartInv
<1>1. CASE Around
  <2>1. UNCHANGED <<pc, listening, stopping, trigger>>
    BY <1>1, AroundFrame
  <2>2. ASSUME Quiet PROVE Quiet'
    <3>1. CASE PruneBegins \/ Prune
      BY <2>2, <3>1 DEF Quiet, PruneBegins, Prune, PruneReschedules, PruneCancelled, PruneReturns
    <3>2. CASE SendSignal \/ AcceptFails
      BY <2>1, <2>2, <3>2 DEF Quiet, SendSignal, AcceptFails
    <3>3. ASSUME NEW h \in Handlers, UserCreates(h) \/ NoTrigger(h) \/ Spawn(h) \/ ClientDial(h)
          PROVE  Quiet'
      BY <2>1, <2>2, <3>3 DEF Quiet, UserCreates, NoTrigger, Spawn, ClientDial, Typed
    <3>4. ASSUME NEW h \in Handlers,
                 FileChanged(h) \/ ClientFails(h) \/ TaskBegins(h) \/ TaskEnds(h) \/ TaskRetries(h)
          PROVE  Quiet'
      BY <2>1, <2>2, <3>4 DEF Quiet, FileChanged, ClientFails, TaskBegins, TaskEnds, TaskRetries, Typed
    <3>5. QED
      BY <1>1, <3>1, <3>2, <3>3, <3>4 DEF Around
  <2>3. QED
    BY <2>1, <2>2
<1>2. ASSUME NEW h \in Handlers, Worker(h) PROVE StartInv'
  <2>1. UNCHANGED <<pc, listening, stopping>>
    BY <1>2 DEF Worker, SetBegin, SetWatch, SetTrigger, SetAppend, Recrawl, DeleteTrigger,
                mainVars, schedVars
  <2>2. pc \in {"set", "recrawl", "deleteAll"}
    BY <1>2 DEF Worker, SetBegin, SetWatch, SetTrigger, SetAppend, Recrawl, DeleteTrigger, WorkerInv
  <2>3. QED
    BY <2>1, <2>2
<1>3. CASE Ready \/ CreateTempDir \/ StartRouter \/ ListenAndServeMetrics
  <2>1. UNCHANGED <<listening, client, task, trigger, prunes>>
    BY <1>3 DEF Ready, CreateTempDir, StartRouter, ListenAndServeMetrics, Others
  <2>2. pc \in Early /\ pc' \in Early \cup {"ended", "cleanup"}
    BY <1>3 DEF Ready, CreateTempDir, StartRouter, ListenAndServeMetrics
  <2>3. QED
    BY <2>1, <2>2 DEF Quiet
<1>4. CASE ListenAndServe
  BY <1>4 DEF ListenAndServe
<1>5. CASE SetDone \/ RecrawlDone \/ StartPruning \/ Signalled
  BY <1>5 DEF SetDone, RecrawlDone, StartPruning, Signalled
<1>6. CASE CloseServer \/ DeleteDone \/ StopMetrics \/ StopCancel \/ StopDone
  BY <1>6 DEF CloseServer, DeleteDone, StopMetrics, StopCancel, StopDone, mainVars
<1>7. CASE Expire
  BY <1>7 DEF Expire, schedVars, Others, Quiet
<1>8. CASE CallNext
  <2>1. pc' \in {"rmdir"} \cup CleanupFuncs
    <3>1. CASE cleanup = <<>>
      BY <1>8, <3>1 DEF CallNext
    <3>2. CASE cleanup # <<>>
      BY <1>8, <3>2 DEF CallNext, Typed
    <3>3. QED
      BY <3>1, <3>2
  <2>2. QED
    BY <2>1 DEF CleanupFuncs
<1>9. CASE RemoveTempDir
  BY <1>9 DEF RemoveTempDir, CleanupInv, schedVars
<1>10. CASE UNCHANGED vars
  BY <1>10 DEF vars, mainVars, schedVars, Quiet
<1>11. QED
  BY <1>1, <1>2, <1>3, <1>4, <1>5, <1>6, <1>7, <1>8, <1>9, <1>10, NextCases DEF Main

-----------------------------------------------------------------------------
(* The goroutines and the triggers                                         *)

\* A goroutine records its trigger right after setting it, and a phase ends
\* only when all goroutines have: every step keeps WorkerInv.
LEMMA WorkerStep ==
  ASSUME Typed, CleanupInv, StartInv, WorkerInv, [Next]_vars
  PROVE  WorkerInv'
<1> USE DEF Early
<1>1. CASE Around
  BY <1>1, AroundFrame DEF WorkerInv
<1>2. ASSUME NEW h \in Handlers, SetBegin(h) \/ SetWatch(h) PROVE WorkerInv'
  BY <1>2 DEF SetBegin, SetWatch, Fail, Others, mainVars, WorkerInv, Typed
<1>3. ASSUME NEW h \in Handlers, SetTrigger(h) PROVE WorkerInv'
  BY <1>3 DEF SetTrigger, Fail, mainVars, WorkerInv, Typed
<1>4. ASSUME NEW h \in Handlers, SetAppend(h) PROVE WorkerInv'
  BY <1>4 DEF SetAppend, Others, mainVars, WorkerInv, Typed
<1>5. ASSUME NEW h \in Handlers, Recrawl(h) \/ DeleteTrigger(h) PROVE WorkerInv'
  BY <1>5 DEF Recrawl, DeleteTrigger, Fail, mainVars, WorkerInv, Typed
<1>6. CASE Ready \/ CreateTempDir \/ StartRouter \/ ListenAndServeMetrics
  BY <1>6 DEF Ready, CreateTempDir, StartRouter, ListenAndServeMetrics, groupVars, Others, WorkerInv
<1>7. CASE ListenAndServe
  <2>1. /\ pc = "listen" /\ pc' \in {"set", "cleanup"} /\ UNCHANGED <<cancelled, configured, trigger>>
        /\ pc' = "set" => worker' = [h \in Handlers |-> "todo"]
        /\ pc' = "cleanup" => worker' = worker
    BY <1>7 DEF ListenAndServe, Others
  <2>2. ASSUME NEW h \in Handlers PROVE h \notin configured
    BY <2>1 DEF WorkerInv
  <2>3. QED
    BY <2>1, <2>2 DEF WorkerInv
<1>8. CASE SetDone
  <2>1. pc = "set" /\ GroupDone /\ UNCHANGED <<configured, trigger>>
    BY <1>8 DEF SetDone, Others
  <2>2. CASE cancelled
    BY <1>8, <2>1, <2>2 DEF SetDone, WorkerInv, GroupDone
  <2>3. CASE ~cancelled
    <3>1. \A h \in Handlers : h \in configured
      BY <2>1, <2>3 DEF WorkerInv, GroupDone
    <3>2. /\ pc' = "recrawl"
          /\ worker' = [h \in Handlers |-> IF h \in configured THEN "todo" ELSE "idle"]
      BY <1>8, <2>3 DEF SetDone
    <3>3. \A h \in Handlers : worker'[h] = "todo"
      BY <3>1, <3>2
    <3>4. QED
      BY <2>1, <3>1, <3>2, <3>3 DEF WorkerInv
  <2>4. QED
    BY <2>2, <2>3
<1>9. CASE RecrawlDone \/ StartPruning \/ Signalled \/ CloseServer \/ DeleteDone \/ StopMetrics
           \/ RemoveTempDir \/ Expire
  BY <1>9 DEF RecrawlDone, StartPruning, Signalled, CloseServer, DeleteDone, StopMetrics,
              RemoveTempDir, Expire, groupVars, Others, WorkerInv
<1>10. CASE StopCancel \/ StopDone
  BY <1>10 DEF StopCancel, StopDone, mainVars, groupVars, Others, WorkerInv
<1>11. CASE CallNext
  <2>1. pc = "cleanup" /\ pc' \in {"rmdir"} \cup CleanupFuncs /\ UNCHANGED <<configured, trigger>>
    <3>1. CASE cleanup = <<>>
      BY <1>11, <3>1 DEF CallNext, Others
    <3>2. CASE cleanup # <<>>
      BY <1>11, <3>2 DEF CallNext, Others, Typed
    <3>3. QED
      BY <3>1, <3>2
  <2>2. \A h \in Handlers : worker'[h] \in {worker[h], "todo", "idle"}
    <3>1. CASE cleanup = <<>>
      BY <1>11, <3>1 DEF CallNext
    <3>2. CASE cleanup # <<>>
      BY <1>11, <3>2 DEF CallNext
    <3>3. QED
      BY <3>1, <3>2
  <2>3. QED
    BY <2>1, <2>2 DEF WorkerInv, CleanupFuncs
<1>12. CASE UNCHANGED vars
  BY <1>12 DEF vars, mainVars, groupVars, WorkerInv
<1>13. QED
  BY <1>1, <1>2, <1>3, <1>4, <1>5, <1>6, <1>7, <1>8, <1>9, <1>10, <1>11, <1>12, NextCases
     DEF Main, Worker

\* A trigger stays known until it has been deleted or its deletion failed.
LEMMA OwnStep ==
  ASSUME Typed, CleanupInv, StartInv, WorkerInv, OwnInv, [Next]_vars
  PROVE  OwnInv'
<1> USE DEF OwnInv, DeletePending
<1>1. CASE Around
  BY <1>1, AroundFrame
<1>2. ASSUME NEW h \in Handlers, SetBegin(h) \/ SetWatch(h) PROVE OwnInv'
  BY <1>2 DEF SetBegin, SetWatch, Fail, Others, mainVars, Typed
<1>3. ASSUME NEW h \in Handlers, SetTrigger(h) PROVE OwnInv'
  BY <1>3 DEF SetTrigger, Fail, mainVars, Typed
<1>4. ASSUME NEW h \in Handlers, SetAppend(h) PROVE OwnInv'
  <2>1. pc = "set"
    BY <1>4 DEF SetAppend, WorkerInv
  <2>2. DeletePending
    BY <2>1 DEF CleanupInv, Up
  <2>3. QED
    BY <1>4, <2>2 DEF SetAppend, Others, mainVars, Typed
<1>5. ASSUME NEW h \in Handlers, Recrawl(h) PROVE OwnInv'
  BY <1>5 DEF Recrawl, Fail, mainVars, Typed
<1>6. ASSUME NEW h \in Handlers, DeleteTrigger(h) PROVE OwnInv'
  BY <1>6 DEF DeleteTrigger, mainVars, Typed
<1>7. CASE Ready \/ CreateTempDir \/ StartRouter \/ ListenAndServeMetrics \/ ListenAndServe
  <2>1. pc \in Early /\ UNCHANGED trigger
    BY <1>7 DEF Ready, CreateTempDir, StartRouter, ListenAndServeMetrics, ListenAndServe, Others, Early
  <2>2. QED
    BY <2>1 DEF StartInv, Quiet
<1>8. CASE SetDone \/ RecrawlDone \/ DeleteDone
  <2>1. /\ UNCHANGED <<trigger, doubtful, undeleted, configured, cleanup>>
        /\ GroupDone
    BY <1>8 DEF SetDone, RecrawlDone, DeleteDone, groupVars, Others
  <2>2. ASSUME NEW h \in Handlers, trigger[h] = "own"
        PROVE  h \in doubtful \cup undeleted \/ (h \in configured /\ DeletePending)
    BY <2>1, <2>2 DEF GroupDone
  <2>3. QED
    BY <2>1, <2>2
<1>9. CASE StartPruning \/ Signalled \/ CloseServer \/ StopMetrics \/ RemoveTempDir \/ Expire
  BY <1>9 DEF StartPruning, Signalled, CloseServer, StopMetrics, RemoveTempDir, Expire, groupVars,
              Others
<1>10. CASE StopCancel \/ StopDone
  BY <1>10 DEF StopCancel, StopDone, mainVars, groupVars, Others
<1>11. CASE CallNext
  <2>1. pc = "cleanup" /\ UNCHANGED <<trigger, doubtful, undeleted, configured>>
    BY <1>11 DEF CallNext, Others
  <2>2. ASSUME NEW h \in Handlers, trigger[h] = "own"
        PROVE  h \in doubtful \cup undeleted \/ (h \in configured /\ DeletePending)
    BY <2>1, <2>2 DEF WorkerInv
  <2>3. ASSUME NEW h \in Handlers, h \in configured, DeletePending
        PROVE  pc' = "deleteAll" /\ worker'[h] = "todo"
    <3>1. cleanup # <<>> /\ cleanup[Len(cleanup)] = "deleteAll"
      BY <2>3
    <3>2. QED
      BY <1>11, <2>3, <3>1 DEF CallNext
  <2>4. QED
    BY <2>1, <2>2, <2>3
<1>12. CASE UNCHANGED vars
  BY <1>12 DEF vars, mainVars, groupVars
<1>13. QED
  BY <1>1, <1>2, <1>3, <1>4, <1>5, <1>6, <1>7, <1>8, <1>9, <1>10, <1>11, <1>12, NextCases
     DEF Main, Worker

-----------------------------------------------------------------------------
(* Slots                                                                   *)

\* What SlotsUsed counts.
LEMMA SlotsIdle ==
  ASSUME Typed
  PROVE  /\ SlotsUsed \in Nat
         /\ SlotsUsed = 0 <=> Idle
<1> DEFINE R == {h \in Handlers : task[h] = "running"}
<1>1. IsFiniteSet(R)
  BY FS_Subset, WatchAssumption
<1>2. Cardinality(R) \in Nat /\ (Cardinality(R) = 0 <=> R = {})
  BY <1>1, FS_CardinalityType, FS_EmptySet
<1>3. prunes.looping \in Nat /\ prunes.returning \in Nat
  BY DEF Typed
<1>4. SlotsUsed = Cardinality(R) + prunes.looping + prunes.returning
  BY DEF SlotsUsed
<1>5. R = {} <=> \A h \in Handlers : task[h] # "running"
  OBVIOUS
<1> HIDE DEF R
<1>6. QED
  BY <1>2, <1>3, <1>4, <1>5 DEF Idle

\* Once the scheduler is stopping nothing begins.
LEMMA IdleStays ==
  ASSUME Typed, Around, Idle, stopping
  PROVE  Idle'
<1> USE DEF Idle, Typed
<1>1. CASE SendSignal \/ AcceptFails \/ PruneBegins \/ Prune
  BY <1>1 DEF SendSignal, AcceptFails, PruneBegins, MayBegin, Prune, PruneReschedules, PruneCancelled,
              PruneReturns
<1>2. ASSUME NEW h \in Handlers, UserCreates(h) \/ NoTrigger(h) \/ Spawn(h) \/ ClientDial(h)
      PROVE  Idle'
  BY <1>2 DEF UserCreates, NoTrigger, Spawn, ClientDial
<1>3. ASSUME NEW h \in Handlers, FileChanged(h) \/ ClientFails(h) \/ TaskBegins(h) \/ TaskEnds(h) \/ TaskRetries(h)
      PROVE  Idle'
  BY <1>3 DEF FileChanged, ClientFails, TaskBegins, TaskEnds, TaskRetries, MayBegin
<1>4. QED
  BY <1>1, <1>2, <1>3 DEF Around

\* Stop goes on only when the tasks have ended, and cancels them only after the
\* time-out: every step keeps StopInv.
LEMMA StopStep ==
  ASSUME Typed, CleanupInv, StopInv, [Next]_vars
  PROVE  StopInv'
<1> USE DEF StopInv
<1>1. CASE Around
  <2>1. UNCHANGED <<pc, cleanup, stopping, tasksDone, timeout>>
    BY <1>1, AroundFrame
  <2>2. tasksDone \/ pc = "rmdir" \/ (pc = "cleanup" /\ Len(cleanup) = 0) => stopping
    BY DEF CleanupInv
  <2>3. QED
    BY <1>1, <2>1, <2>2, IdleStays
<1>2. ASSUME NEW h \in Handlers, Worker(h) PROVE StopInv'
  BY <1>2 DEF Worker, SetBegin, SetWatch, SetTrigger, SetAppend, Recrawl, DeleteTrigger,
              mainVars, schedVars, Others, Idle
<1>3. CASE Ready \/ CreateTempDir \/ StartRouter \/ ListenAndServeMetrics \/ ListenAndServe
  <2>1. UNCHANGED <<stopping, tasksDone, timeout, task, prunes>>
    BY <1>3 DEF Ready, CreateTempDir, StartRouter, ListenAndServeMetrics, ListenAndServe,
                schedVars, Others
  <2>2. ~stopping
    BY <1>3 DEF Ready, CreateTempDir, StartRouter, ListenAndServeMetrics, ListenAndServe, CleanupInv
  <2>3. CleanupInv'
    BY CleanupStep
  <2>4. ~tasksDone' /\ ~stopping' /\ pc' # "rmdir"
    BY <1>3, <2>1, <2>2, <2>3
       DEF Ready, CreateTempDir, StartRouter, ListenAndServeMetrics, ListenAndServe, CleanupInv
  <2>5. ~(pc' = "cleanup" /\ Len(cleanup') = 0)
    BY <2>3, <2>4 DEF CleanupInv
  <2>6. QED
    BY <2>4, <2>5
<1>4. CASE SetDone \/ RecrawlDone \/ StartPruning \/ Signalled
  <2>1. ~stopping /\ ~tasksDone /\ UNCHANGED <<stopping, tasksDone>>
    BY <1>4 DEF SetDone, RecrawlDone, StartPruning, Signalled, CleanupInv, schedVars
  <2>2. pc' \notin {"rmdir", "cleanup"}
    BY <1>4 DEF SetDone, RecrawlDone, StartPruning, Signalled
  <2>3. QED
    BY <2>1, <2>2
<1>5. CASE CloseServer \/ DeleteDone \/ StopMetrics \/ RemoveTempDir
  <2>1. UNCHANGED <<cleanup, stopping, tasksDone, timeout, task, prunes>>
    BY <1>5 DEF CloseServer, DeleteDone, StopMetrics, RemoveTempDir, schedVars, Others
  <2>2. Idle' = Idle
    BY <2>1 DEF Idle
  <2>3. CASE pc \in {"close", "deleteAll", "stopMetrics"} /\ pc' = "cleanup"
    BY <2>1, <2>2, <2>3 DEF CleanupInv, Up
  <2>4. CASE pc = "rmdir" /\ pc' = "ended"
    BY <2>1, <2>2, <2>4
  <2>5. QED
    BY <1>5, <2>3, <2>4 DEF CloseServer, DeleteDone, StopMetrics, RemoveTempDir
<1>6. CASE Expire
  BY <1>6 DEF Expire, schedVars, Others, Idle
<1>7. CASE StopCancel
  BY <1>7 DEF StopCancel, mainVars
<1>8. CASE StopDone
  <2>1. Idle
    BY <1>8, SlotsIdle DEF StopDone
  <2>2. prunes' = [prunes EXCEPT !.queued = 0]
        /\ task' = [h \in Handlers |-> IF task[h] = "waiting" THEN "none" ELSE task[h]]
    BY <1>8 DEF StopDone
  <2>3. Idle'
    BY <2>1, <2>2 DEF Idle, Typed
  <2>4. QED
    BY <2>3
<1>9. CASE CallNext
  <2>1. /\ UNCHANGED <<tasksDone, task, prunes>> /\ pc = "cleanup"
        /\ timeout' = IF timeout = "off" THEN "live" ELSE timeout
    BY <1>9 DEF CallNext, Others
  <2>2. Idle' = Idle
    BY <2>1 DEF Idle
  <2>3. CASE cleanup = <<>>
    <3>1. pc' = "rmdir" /\ UNCHANGED cleanup /\ Len(cleanup) = 0
      BY <1>9, <2>3 DEF CallNext
    <3>2. QED
      BY <2>1, <2>2, <3>1
  <2>4. CASE cleanup # <<>>
    <3>1. pc' \in CleanupFuncs
      BY <1>9, <2>4 DEF CallNext, Typed
    <3>2. QED
      BY <2>1, <2>2, <3>1 DEF CleanupFuncs
  <2>5. QED
    BY <2>3, <2>4
<1>10. CASE UNCHANGED vars
  BY <1>10 DEF vars, mainVars, schedVars, Idle
<1>11. QED
  BY <1>1, <1>2, <1>3, <1>4, <1>5, <1>6, <1>7, <1>8, <1>9, <1>10, NextCases DEF Main

-----------------------------------------------------------------------------
(* The chain of pruning tasks                                              *)

\* A pruning task ends its loop either with one successor or, cancelled, with
\* none: every step keeps PruneInv.
LEMMA PruneStep ==
  ASSUME Typed, CleanupInv, PruneInv, [Next]_vars
  PROVE  PruneInv'
<1> USE DEF PruneInv
<1>a. prunes.queued \in Nat /\ prunes.looping \in Nat
  BY DEF Typed
<1>b. pc \in Startup => ~tasksDone /\ ~stopping
  BY DEF CleanupInv, Startup
<1>1. CASE PruneBegins \/ PruneReschedules
  <2>1. prunes'.queued + prunes'.looping = prunes.queued + prunes.looping /\ UNCHANGED pc
    BY <1>1, <1>a, PruneTypes
       DEF PruneCounts, Typed, PruneBegins, PruneReschedules, mainVars
  <2>2. QED
    BY <2>1
<1>2. CASE PruneCancelled
  <2>1. /\ UNCHANGED pc /\ tasksDone /\ prunes.looping > 0
        /\ prunes'.queued = prunes.queued /\ prunes'.looping = prunes.looping - 1
    BY <1>2, PruneTypes DEF PruneCounts, Typed, PruneCancelled, mainVars
  <2>2. QED
    BY <1>a, <1>b, <2>1 DEF Startup
<1>3. CASE PruneReturns
  <2>1. UNCHANGED pc /\ prunes'.queued = prunes.queued /\ prunes'.looping = prunes.looping
    BY <1>3, PruneTypes DEF PruneCounts, Typed, PruneReturns, mainVars
  <2>2. QED
    BY <2>1
<1>4. CASE SendSignal \/ AcceptFails
  BY <1>4 DEF SendSignal, AcceptFails, mainVars
<1>5. ASSUME NEW h \in Handlers,
             \/ UserCreates(h) \/ NoTrigger(h) \/ Spawn(h)
             \/ ClientDial(h) \/ FileChanged(h) \/ ClientFails(h)
             \/ TaskBegins(h) \/ TaskEnds(h) \/ TaskRetries(h)
      PROVE  PruneInv'
  BY <1>5 DEF UserCreates, NoTrigger, Spawn, ClientDial, FileChanged, ClientFails, TaskBegins,
              TaskEnds, TaskRetries, mainVars
<1>6. ASSUME NEW h \in Handlers, Worker(h) PROVE PruneInv'
  BY <1>6 DEF Worker, SetBegin, SetWatch, SetTrigger, SetAppend, Recrawl, DeleteTrigger, mainVars
<1>7. CASE Ready \/ CreateTempDir \/ StartRouter \/ ListenAndServeMetrics \/ ListenAndServe
  BY <1>7 DEF Ready, CreateTempDir, StartRouter, ListenAndServeMetrics, ListenAndServe, Startup
<1>8. CASE SetDone \/ RecrawlDone \/ Signalled \/ CloseServer \/ DeleteDone \/ StopMetrics
           \/ RemoveTempDir \/ Expire \/ StopCancel
  BY <1>8 DEF SetDone, RecrawlDone, Signalled, CloseServer, DeleteDone, StopMetrics, RemoveTempDir,
              Expire, StopCancel, mainVars, Startup
<1>9. CASE StartPruning
  <2>1. /\ pc = "prune" /\ pc' = "wait"
        /\ prunes'.queued = prunes.queued + 1 /\ prunes'.looping = prunes.looping
    BY <1>9, PruneTypes DEF PruneCounts, Typed, StartPruning
  <2>2. QED
    BY <1>a, <2>1 DEF Startup
<1>10. CASE StopDone
  <2>1. pc' = "cleanup" /\ prunes'.queued = 0 /\ prunes'.looping = prunes.looping
    BY <1>10, PruneTypes DEF PruneCounts, Typed, StopDone
  <2>2. QED
    BY <1>a, <2>1 DEF Startup
<1>11. CASE CallNext
  <2>1. UNCHANGED prunes /\ pc' \in {"rmdir"} \cup CleanupFuncs
    <3>1. CASE cleanup = <<>>
      BY <1>11, <3>1 DEF CallNext
    <3>2. CASE cleanup # <<>>
      BY <1>11, <3>2 DEF CallNext, Typed
    <3>3. QED
      BY <3>1, <3>2
  <2>2. QED
    BY <2>1 DEF CleanupFuncs, Startup
<1>12. CASE UNCHANGED vars
  BY <1>12 DEF vars, mainVars
<1>13. QED
  BY <1>1, <1>2, <1>3, <1>4, <1>5, <1>6, <1>7, <1>8, <1>9, <1>10, <1>11, <1>12, NextCases
     DEF Main, Around, Prune

-----------------------------------------------------------------------------
(* The files                                                               *)

\* As long as its trigger is set a file does not get out of sight.
LEMMA SeenStays ==
  ASSUME Typed, Around, NEW h \in Handlers, Seen(h), trigger[h] = "own"
  PROVE  Seen(h)'
<1> USE DEF Seen, Typed, fileVars
<1>1. CASE SendSignal \/ AcceptFails \/ PruneBegins \/ Prune
  BY <1>1 DEF SendSignal, AcceptFails, PruneBegins, Prune, PruneReschedules, PruneCancelled, PruneReturns
<1>2. ASSUME NEW g \in Handlers, UserCreates(g) PROVE Seen(h)'
  BY <1>2 DEF UserCreates
<1>3. ASSUME NEW g \in Handlers, NoTrigger(g) \/ Spawn(g) \/ ClientDial(g) PROVE Seen(h)'
  BY <1>3 DEF NoTrigger, Spawn, ClientDial
<1>4. ASSUME NEW g \in Handlers, FileChanged(g) \/ ClientFails(g) PROVE Seen(h)'
  BY <1>4 DEF FileChanged, ClientFails
<1>5. ASSUME NEW g \in Handlers, TaskBegins(g) \/ TaskEnds(g) \/ TaskRetries(g) PROVE Seen(h)'
  BY <1>5 DEF TaskBegins, TaskEnds, TaskRetries
<1>6. QED
  BY <1>1, <1>2, <1>3, <1>4, <1>5 DEF Around

\* A file is taken out of one hand only to be put into another: every step
\* keeps SeenInv.
LEMMA SeenStep ==
  ASSUME Typed, WorkerInv, SeenInv, [Next]_vars
  PROVE  SeenInv'
<1> USE DEF SeenInv
<1>1. CASE Around
  <2>1. UNCHANGED <<pc, worker>>
    BY <1>1, AroundFrame
  <2>2. ASSUME NEW h \in Handlers, pc \in {"recrawl", "prune", "wait"} PROVE trigger[h] = "own"
    BY <2>2 DEF WorkerInv
  <2>3. QED
    BY <1>1, <2>1, <2>2, SeenStays
<1>2. ASSUME NEW h \in Handlers, SetBegin(h) \/ SetWatch(h) \/ SetTrigger(h) \/ SetAppend(h)
                                 \/ DeleteTrigger(h)
      PROVE  SeenInv'
  <2>1. pc \in {"set", "deleteAll"} /\ UNCHANGED pc
    BY <1>2 DEF SetBegin, SetWatch, SetTrigger, SetAppend, DeleteTrigger, mainVars, WorkerInv
  <2>2. QED
    BY <2>1
<1>3. ASSUME NEW h \in Handlers, Recrawl(h) PROVE SeenInv'
  <2>1. /\ pc = "recrawl" /\ UNCHANGED <<pc, file, gaveUp, client, task>>
        /\ \A g \in Handlers \ {h} :
             /\ worker'[g] = worker[g] /\ news'[g] = news[g] /\ (g \in missed => g \in missed')
    BY <1>3 DEF Recrawl, Fail, mainVars, Typed
  <2>2. worker'[h] = "ok" => news'[h] = file[h]
    BY <1>3 DEF Recrawl, Fail, Typed
  <2>3. ASSUME NEW g \in Handlers \ {h}, worker'[g] = "ok" PROVE Seen(g)'
    <3>1. /\ Seen(g) /\ file'[g] = file[g] /\ news'[g] = news[g] /\ client'[g] = client[g]
          /\ task'[g] = task[g] /\ (g \in missed \cup gaveUp => g \in missed' \cup gaveUp')
      BY <2>1, <2>3
    <3> HIDE DEF SeenInv
    <3>2. QED
      BY <3>1 DEF Seen
  <2>4. ASSUME worker'[h] = "ok" PROVE Seen(h)'
    BY <2>1, <2>2, <2>4 DEF Seen
  <2>5. QED
    BY <2>1, <2>3, <2>4
<1>4. CASE Ready \/ CreateTempDir \/ StartRouter \/ ListenAndServeMetrics \/ ListenAndServe
           \/ Signalled \/ CloseServer \/ DeleteDone \/ StopMetrics \/ RemoveTempDir
  BY <1>4 DEF Ready, CreateTempDir, StartRouter, ListenAndServeMetrics, ListenAndServe, Signalled,
              CloseServer, DeleteDone, StopMetrics, RemoveTempDir
<1>5. CASE SetDone
  BY <1>5 DEF SetDone, GroupDone
<1>6. CASE RecrawlDone
  <2>1. pc = "recrawl" /\ GroupDone /\ UNCHANGED <<file, news, client, task, missed, gaveUp>>
    BY <1>6 DEF RecrawlDone, Others, fileVars
  <2>2. CASE cancelled
    BY <1>6, <2>2 DEF RecrawlDone
  <2>3. CASE ~cancelled
    <3>1. \A h \in Handlers : worker[h] = "ok"
      BY <2>1, <2>3 DEF WorkerInv, GroupDone
    <3>2. QED
      BY <2>1, <3>1 DEF Seen
  <2>4. QED
    BY <2>2, <2>3
<1>7. CASE StartPruning
  BY <1>7 DEF StartPruning, Others, fileVars, Seen
<1>8. CASE Expire \/ StopCancel
  BY <1>8 DEF Expire, StopCancel, mainVars, groupVars, Others, fileVars, Seen
<1>9. CASE StopDone
  BY <1>9 DEF StopDone
<1>10. CASE CallNext
  <2>1. pc' \in {"rmdir"} \cup CleanupFuncs
    <3>1. CASE cleanup = <<>>
      BY <1>10, <3>1 DEF CallNext
    <3>2. CASE cleanup # <<>>
      BY <1>10, <3>2 DEF CallNext, Typed
    <3>3. QED
      BY <3>1, <3>2
  <2>2. QED
    BY <2>1 DEF CleanupFuncs
<1>11. CASE UNCHANGED vars
  BY <1>11 DEF vars, mainVars, groupVars, fileVars, Seen
<1>12. QED
  BY <1>1, <1>2, <1>3, <1>4, <1>5, <1>6, <1>7, <1>8, <1>9, <1>10, <1>11, NextCases DEF Main, Worker

-----------------------------------------------------------------------------
(* Theorems                                                                *)

\* The command begins in a state of the invariant.
LEMMA InitInv == Init => Inv
<1> SUFFICES ASSUME Init PROVE Inv
  OBVIOUS
<1> USE WatchAssumption DEF Init
<1>1. Typed
  <2>1. cleanup \in Seq(CleanupFuncs) /\ pc \in Startup
    BY DEF Startup
  <2>2. trigger \in [Handlers -> {"none", "stale", "own"}]
    OBVIOUS
  <2>3. prunes \in [queued : Nat, looping : Nat, returning : Nat]
    OBVIOUS
  <2>4. news \in [Handlers -> BOOLEAN] /\ file \in [Handlers -> BOOLEAN]
    BY Zenon
  <2>5. /\ worker \in [Handlers -> {"idle", "todo", "watch", "trigger", "append", "ok", "error"}]
        /\ client \in [Handlers -> {"none", "stale", "spawned", "connected"}]
        /\ task \in [Handlers -> {"none", "waiting", "running"}]
    OBVIOUS
  <2>6. files \in 0 .. MaxFiles /\ timeout \in {"off", "live", "expired"}
    OBVIOUS
  <2>7. /\ configured \subseteq Handlers /\ doubtful \subseteq Handlers
        /\ undeleted \subseteq Handlers /\ missed \subseteq Handlers /\ gaveUp \subseteq Handlers
    OBVIOUS
  <2>8. /\ tmpdir \in BOOLEAN /\ listening \in BOOLEAN /\ deaf \in BOOLEAN /\ signal \in BOOLEAN
        /\ cancelled \in BOOLEAN /\ stopping \in BOOLEAN /\ tasksDone \in BOOLEAN
    OBVIOUS
  <2> HIDE DEF Init
  <2>9. QED
    BY <2>1, <2>2, <2>3, <2>4, <2>5, <2>6, <2>7, <2>8 DEF Typed
<1>2. CleanupInv
  BY DEF CleanupInv, Up
<1>3. StartInv /\ WorkerInv /\ OwnInv
  BY DEF StartInv, Quiet, Up, WorkerInv, OwnInv
<1>4. StopInv /\ PruneInv /\ SeenInv
  BY DEF StopInv, PruneInv, SeenInv
<1>5. QED
  BY <1>1, <1>2, <1>3, <1>4 DEF Inv

\* The invariant is inductive.
LEMMA NextInv == Inv /\ [Next]_vars => Inv'
BY TypeStep, CleanupStep, StartStep, WorkerStep, OwnStep, StopStep, PruneStep, SeenStep DEF Inv

\* The invariant holds in every state of the command.
THEOREM Invariance == Spec => []Inv
BY InitInv, NextInv, PTL DEF Spec

\* Every variable keeps its type, and at most three functions wait to be
\* called.
THEOREM TypeCorrect == Spec => []TypeOK
<1>1. Inv => TypeOK
  BY DEF Inv, Typed, CleanupInv, TypeOK
<1>2. QED
  BY <1>1, Invariance, PTL

\* When the scheduler stops, and when the command has ended, a trigger of its
\* own is left only if the client said that setting it failed, or if deleting
\* it failed or was too late: DeleteAll knows of every other one, whatever the
\* goroutines of the other handlers did.
THEOREM TriggersDeleted == Spec => []TriggersAccounted
<1>1. Inv => TriggersAccounted
  BY DEF Inv, CleanupInv, OwnInv, WorkerInv, DeletePending, TriggersAccounted
<1>2. QED
  BY <1>1, Invariance, PTL

\* A trigger is never there before its socket, nor without it until the
\* command begins to shut down.
THEOREM SocketFirst == Spec => []SocketServesTriggers
<1>1. Inv => SocketServesTriggers
  BY DEF Inv, StartInv, Quiet, Early, Up, Startup, SocketServesTriggers
<1>2. QED
  BY <1>1, Invariance, PTL

\* While the command waits no file is overlooked.
THEOREM NoFileOverlooked == Spec => []FilesSeen
<1>1. Inv => FilesSeen
  BY DEF Inv, SeenInv, Seen, FilesSeen
<1>2. QED
  BY <1>1, Invariance, PTL

\* Tasks are cancelled only after the time-out, and none outlives the command.
THEOREM StopIsGraceful == Spec => []GracefulStop
<1>1. ASSUME Inv PROVE GracefulStop
  <2>1. SlotsUsed \in Nat /\ (SlotsUsed = 0 <=> Idle)
    BY <1>1, SlotsIdle DEF Inv
  <2>2. pc = "ended" /\ ~stopping => Idle
    BY <1>1 DEF Inv, StartInv, Quiet, Idle
  <2>3. (tasksDone => timeout = "expired" \/ Idle) /\ (pc \in {"rmdir", "ended"} => Idle)
    BY <1>1, <2>2 DEF Inv, StopInv
  <2>4. QED
    BY <2>1, <2>3 DEF GracefulStop
<1>2. Inv => GracefulStop
  BY <1>1
<1>3. QED
  BY <1>2, Invariance, PTL

\* There is one pruning task, not two, and while the command waits not none.
THEOREM PruningGoesOn == Spec => []PruneChain
<1>1. Inv => PruneChain
  BY DEF Inv, PruneInv, PruneChain
<1>2. QED
  BY <1>1, Invariance, PTL
=============================================================================
