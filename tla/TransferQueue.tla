---------------------------- MODULE TransferQueue ----------------------------
(***************************************************************************)
(* The transfer queue of app/logic/torrent_manager.py and the lifecycle of *)
(* the TorrentSessions it starts, pauses and stops.  User threads record   *)
(* an intent for a torrent and send a command; the engine coroutine takes  *)
(* commands from its queue and rebalances the download slots; a session's  *)
(* start() is a coroutine of its own, and so are a Force Recheck and the   *)
(* two seconds the engine grants a session it removes.                     *)
(*                                                                         *)
(* The engine does not suspend between two commands that are both in its   *)
(* queue: it handles such a batch at one go, and a start() it created only *)
(* begins afterwards, but before any command delivered later.              *)
(*                                                                         *)
(* Abstracted: a run's peers, trackers and disk; every file is wanted; the *)
(* slot count does not change; superseded runs, which by their token no    *)
(* longer touch the session (their effect on the disk is in DiskPipeline). *)
(***************************************************************************)
EXTENDS Integers, Sequences, FiniteSets

CONSTANTS
  Torrents,
  Restored,     \* the torrents that were ACTIVE in the last session
  Whole,        \* the torrents whose payload is on the disk from the beginning
  Touched,      \* the torrents the user sends commands for
  Slots,        \* max_active_downloads; 0 is unlimited
  MaxBatch,     \* bound on what the engine handles without suspending
  MaxCommands,  \* bound on commands of the user
  MaxErrors     \* bound on failing runs

ASSUME QueueAssumption ==
  /\ IsFiniteSet(Torrents) /\ Restored \subseteq Torrents /\ Whole \subseteq Torrents
  /\ Touched \subseteq Torrents
  /\ Slots \in Nat /\ MaxBatch \in Nat \ {0} /\ MaxCommands \in Nat /\ MaxErrors \in Nat

VARIABLES
  (* TorrentManager *)
  known,      \* keys of sessions
  intent,     \* _desired_states
  explicit,   \* _explicit_start_requests
  urgent,     \* torrents of High queue_priority (the others have Normal)
  place,      \* _queue_order
  cmds,       \* commands sent and not yet handled
  batch,      \* how many of them the engine handles before it suspends
  removing,   \* the torrents whose REMOVE the engine is waiting in (at most one)
  spawned,    \* start() tasks created and not begun
  recheck,    \* progress of each torrent's _run_force_recheck
  (* TorrentSession: state, live (is_running), from (_paused_from_state), run (where
     the current run is), prepared, finished, and whether the payload is whole *)
  ses,
  goalMet,    \* torrents whose seeding goal is satisfied
  commands, errors

manager == <<known, intent, explicit, urgent, place>>
engine == <<cmds, batch, removing>>
vars == <<manager, engine, spawned, recheck, ses, goalMet, commands, errors>>

-----------------------------------------------------------------------------
(* TorrentSession.pause, resume, mark_queued and stop *)

Paused(s) ==
  IF s.state \in {"checking", "downloading", "seeding"}
  THEN [s EXCEPT !.from = s.state, !.state = "paused"] ELSE s

\* resume and resume_from_queue
Continued(s) ==
  [s EXCEPT !.state = IF s.from = "none" THEN "downloading" ELSE s.from, !.from = "none"]

\* mark_queued never pre-empts a running download.
Queued(s) == IF ~ s.live \/ s.state = "paused" THEN [s EXCEPT !.state = "queued"] ELSE s

\* A new token supersedes the run, whose coroutine is cancelled.
Stopped(s) == [s EXCEPT !.state = "stopped", !.live = FALSE, !.from = "none", !.run = "none"]

\* A live session whose coroutine waits on _pause_event.
Suspended(s) == s.live /\ s.state \in {"paused", "queued"}

-----------------------------------------------------------------------------
(* _rebalance_queue *)

\* _queue_sort_key, when U are the urgent torrents
Before(u, t, U) ==
  \/ u \in U /\ t \notin U
  \/ (u \in U <=> t \in U) /\ place[u] < place[t]

\* Mutant: a waiting session keeps its slot.
ActiveDownloadSuspended(s) == ~ s.finished /\ s.live

ActiveDownload(s) ==
  ~ s.finished /\ s.live /\ s.state \in {"checking", "fast_resume", "downloading"}

\* Mutant: the priority is ignored.
AheadByPlace(t, C, U) == Cardinality({u \in C : place[u] < place[t]})

\* Candidates C better placed than t.
Ahead(t, C, U) == Cardinality({u \in C : Before(u, t, U)})

\* Torrents K with intents I, urgent ones U, explicit requests E and sessions S: finished ones are
\* started; the candidates in order get the free slots, the others become Queued.
Rebalance(K, I, U, E, S) ==
  LET willing == {t \in K : I[t] = "active" /\ (S[t].state # "error" \/ t \in E)}
      seeds == {t \in willing : S[t].finished /\ ~ S[t].live}
      active == {t \in K : I[t] = "active" /\ ActiveDownload(S[t])}
      candidates == {t \in willing : ~ S[t].finished} \ active
      room == IF Slots = 0 THEN Cardinality(candidates) ELSE Slots - Cardinality(active)
      startable == {t \in candidates : ~ S[t].live \/ Suspended(S[t])}
      promoted == {t \in startable : Ahead(t, startable, U) < room}
  IN  /\ ses' = [t \in Torrents |->
                   IF t \in promoted /\ S[t].live THEN Continued(S[t])
                   ELSE IF t \in candidates /\ Ahead(t, startable, U) >= room THEN Queued(S[t])
                   ELSE S[t]]
      /\ spawned' = spawned \cup seeds \cup {t \in promoted : ~ S[t].live}
      /\ explicit' = E \ (seeds \cup promoted)

-----------------------------------------------------------------------------
(* Commands of the user, from any thread: the intent is recorded at once, the    *)
(* command is posted to the engine.                                             *)

Post(op, t) ==
  /\ commands < MaxCommands /\ commands' = commands + 1
  /\ cmds' = Append(cmds, [op |-> op, t |-> t])
  /\ UNCHANGED <<known, explicit, urgent, batch, removing, spawned, recheck, ses, goalMet, errors>>

\* start_torrent and resume_torrent differ in nothing.
StartTorrent(t) ==
  /\ t \in known
  /\ intent' = [intent EXCEPT ![t] = "active"]
  /\ Post("start", t) /\ UNCHANGED place

\* pause_torrent reads the session's state, which the engine may change before it
\* handles the command.
PauseTorrent(t) ==
  /\ t \in known
  /\ intent' = IF ses[t].state \in {"checking", "downloading", "seeding"}
               THEN [intent EXCEPT ![t] = "paused"] ELSE intent
  /\ Post("pause", t) /\ UNCHANGED place

StopTorrent(t) ==
  /\ t \in known
  /\ intent' = [intent EXCEPT ![t] = "stopped"]
  /\ Post("stop", t) /\ UNCHANGED place

\* remove_torrent, force_recheck, set_torrent_priority only send their command.
SendCommand(op, t) ==
  /\ t \in known
  /\ Post(op, t) /\ UNCHANGED <<intent, place>>

\* set_queue_order takes effect before the engine hears of it.
SetQueueOrder(t, u) ==
  /\ place[t] < place[u]
  /\ place' = [place EXCEPT ![t] = place[u], ![u] = place[t]]
  /\ Post("rebalance", t) /\ UNCHANGED intent

-----------------------------------------------------------------------------
(* The engine *)

\* No coroutine but the engine runs while it handles a batch, and created start()s
\* come before whatever becomes ready later.
LoopFree == batch = 0 /\ spawned = {}

\* The first n commands have been delivered when the engine resumes.
TakeBatch(n) ==
  /\ LoopFree /\ removing = {} /\ n <= Len(cmds)
  /\ batch' = n
  /\ UNCHANGED <<manager, cmds, removing, spawned, recheck, ses, goalMet, commands, errors>>

\* The engine handles the next command of its batch, op for torrent t.
Next1(op, t) ==
  /\ batch > 0 /\ Head(cmds) = [op |-> op, t |-> t]
  /\ cmds' = Tail(cmds)
  /\ UNCHANGED <<goalMet, commands, errors>>

Continue == batch' = batch - 1 /\ UNCHANGED removing

\* A command for a torrent that has been removed meanwhile is dropped.
HandleUnknown(op, t) ==
  /\ Next1(op, t) /\ Continue
  /\ t \notin known /\ op # "rebalance"
  /\ UNCHANGED <<manager, spawned, recheck, ses>>

HandleStart(t) ==
  /\ Next1("start", t) /\ Continue /\ t \in known
  /\ Rebalance(known, intent, urgent, explicit \cup {t}, ses)
  /\ UNCHANGED <<known, intent, urgent, place, recheck>>

HandlePause(t) ==
  /\ Next1("pause", t) /\ Continue /\ t \in known
  /\ Rebalance(known, intent, urgent, explicit, [ses EXCEPT ![t] = Paused(@)])
  /\ UNCHANGED <<known, intent, urgent, place, recheck>>

\* Mutant: only the intent stops the torrent.
HandleStopIntentOnly(t) ==
  /\ Next1("stop", t) /\ Continue /\ t \in known
  /\ Rebalance(known, intent, urgent, explicit \ {t}, ses)
  /\ UNCHANGED <<known, intent, urgent, place, recheck>>

HandleStop(t) ==
  /\ Next1("stop", t) /\ Continue /\ t \in known
  /\ Rebalance(known, intent, urgent, explicit \ {t}, [ses EXCEPT ![t] = Stopped(@)])
  /\ UNCHANGED <<known, intent, urgent, place, recheck>>

\* SEEDING_GOAL_REACHED: the manager itself changes the intent.
HandleGoal(t) ==
  /\ Next1("goal", t) /\ Continue /\ t \in known
  /\ intent' = [intent EXCEPT ![t] = "stopped"]
  /\ Rebalance(known, intent', urgent, explicit \ {t}, [ses EXCEPT ![t] = Stopped(@)])
  /\ UNCHANGED <<known, urgent, place, recheck>>

\* SET_TORRENT_PRIORITY, to High.
HandlePriority(t) ==
  /\ Next1("priority", t) /\ Continue /\ t \in known
  /\ urgent' = urgent \cup {t}
  /\ Rebalance(known, intent, urgent', explicit, ses)
  /\ UNCHANGED <<known, intent, place, recheck>>

HandleRebalance(t) ==
  /\ Next1("rebalance", t) /\ Continue
  /\ Rebalance(known, intent, urgent, explicit, ses)
  /\ UNCHANGED <<known, intent, urgent, place, recheck>>

\* FORCE_RECHECK creates a maintenance task unless there is one.
HandleRecheck(t) ==
  /\ Next1("recheck", t) /\ Continue /\ t \in known
  /\ recheck' = [recheck EXCEPT ![t] = IF @ = "none" THEN "begin" ELSE @]
  /\ UNCHANGED <<manager, spawned, ses>>

\* Mutant: the engine goes on with its commands while the session closes.
HandleRemoveGoesOn(t) ==
  /\ Next1("remove", t) /\ t \in known
  /\ batch' = batch - 1 /\ removing' = {t}
  /\ explicit' = explicit \ {t}
  /\ ses' = [ses EXCEPT ![t] = Stopped(@)]
  /\ UNCHANGED <<known, intent, urgent, place, spawned, recheck>>

\* REMOVE stops the session and suspends, up to two seconds, for its coroutine.
HandleRemove(t) ==
  /\ Next1("remove", t) /\ t \in known
  /\ batch' = 0 /\ removing' = {t}
  /\ explicit' = explicit \ {t}
  /\ ses' = [ses EXCEPT ![t] = Stopped(@)]
  /\ UNCHANGED <<known, intent, urgent, place, spawned, recheck>>

\* _finalize_torrent_removal: the manager forgets the torrent, and goes on with the
\* first n commands that wait.
FinishRemoval(t, n) ==
  /\ t \in removing /\ LoopFree /\ n <= Len(cmds)
  /\ removing' = {} /\ batch' = n
  /\ known' = known \ {t}
  /\ Rebalance(known', intent, urgent, explicit \ {t}, ses)
  /\ UNCHANGED <<intent, urgent, place, cmds, recheck, goalMet, commands, errors>>

\* Half a second without a command; one may arrive while the wait is given up.
Tick(n) ==
  /\ LoopFree /\ removing = {} /\ n <= Len(cmds) /\ Len(cmds) <= 1
  /\ batch' = n
  /\ Rebalance(known, intent, urgent, explicit, ses)
  /\ UNCHANGED <<known, intent, urgent, place, cmds, removing, recheck, goalMet, commands, errors>>

-----------------------------------------------------------------------------
(* One run: TorrentSession.start *)

Session(t, s) == ses' = [ses EXCEPT ![t] = s]

\* _run_seeding of an already satisfied goal reports it and returns; _run_downloading
\* and _run_seeding set the state whatever it is.
Launch(t, s) ==
  IF ~ s.finished
  THEN Session(t, [s EXCEPT !.state = "downloading", !.run = "downloading"]) /\ UNCHANGED cmds
  ELSE IF t \in goalMet
  THEN /\ Session(t, [s EXCEPT !.state = "seeding", !.run = "closing"])
       /\ cmds' = Append(cmds, [op |-> "goal", t |-> t])
  ELSE Session(t, [s EXCEPT !.state = "seeding", !.run = "seeding"]) /\ UNCHANGED cmds

\* Prepared storage: the fast-resume notice is shown for a moment, once, or not.
Proceed(t, s) ==
  \/ Session(t, [s EXCEPT !.state = "fast_resume", !.run = "notice"]) /\ UNCHANGED cmds
  \/ Launch(t, s)

\* A created start() begins; it returns if the session is running.
StartBegins(t) ==
  /\ batch = 0 /\ t \in spawned
  /\ spawned' = spawned \ {t}
  /\ LET s == [ses[t] EXCEPT !.live = TRUE, !.from = "none"] IN
       IF ses[t].live THEN UNCHANGED <<ses, cmds>>
       ELSE IF s.prepared THEN Proceed(t, s)
       ELSE Session(t, [s EXCEPT !.state = "checking", !.run = "preparing"]) /\ UNCHANGED cmds
  /\ UNCHANGED <<manager, batch, removing, recheck, goalMet, commands, errors>>

\* What a step of a run leaves alone.
RunStep == LoopFree /\ UNCHANGED <<manager, batch, removing, spawned, recheck, commands>>

\* The preparing thread is done.  It may be done although the session was paused: a
\* pause holds it only at its next piece.
PrepareDone(t) ==
  /\ RunStep /\ ses[t].run = "preparing"
  /\ Proceed(t, [ses[t] EXCEPT !.prepared = TRUE, !.finished = ses[t].whole])
  /\ UNCHANGED <<goalMet, errors>>

PrepareFails(t) ==
  /\ RunStep /\ ses[t].run = "preparing"
  /\ errors < MaxErrors /\ errors' = errors + 1
  /\ Session(t, [ses[t] EXCEPT !.state = "error", !.run = "closing"])
  /\ UNCHANGED <<cmds, goalMet>>

NoticeOver(t) ==
  /\ RunStep /\ ses[t].run = "notice"
  /\ Launch(t, ses[t])
  /\ UNCHANGED <<goalMet, errors>>

\* The last wanted piece arrives (a worker may be reading it when a pause comes).
LastPiece(t) ==
  /\ RunStep /\ ses[t].run = "downloading" /\ ~ ses[t].finished
  /\ Session(t, [ses[t] EXCEPT !.finished = TRUE, !.whole = TRUE])
  /\ UNCHANGED <<cmds, goalMet, errors>>

\* The download loop ends and flushes the disk pipeline.  A pause holds the loop
\* only at the top of its body.
LoopEnds(t) ==
  /\ RunStep /\ ses[t].run = "downloading" /\ ses[t].finished
  /\ Session(t, [ses[t] EXCEPT !.run = "flushing"])
  /\ UNCHANGED <<cmds, goalMet, errors>>

Flushed(t) ==
  /\ RunStep /\ ses[t].run = "flushing"
  /\ Launch(t, ses[t])
  /\ UNCHANGED <<goalMet, errors>>

\* A disk error, or the Interface Lock trips: is_running goes before the run ends.
RunFails(t) ==
  /\ RunStep /\ ses[t].run \in {"downloading", "flushing", "seeding"}
  /\ errors < MaxErrors /\ errors' = errors + 1
  /\ Session(t, [ses[t] EXCEPT !.state = "error", !.live = FALSE, !.run = "closing"])
  /\ UNCHANGED <<cmds, goalMet>>

\* The telemetry loop finds the goal satisfied.
GoalReached(t) ==
  /\ RunStep /\ ses[t].run = "seeding" /\ ses[t].state = "seeding" /\ t \notin goalMet
  /\ goalMet' = goalMet \cup {t}
  /\ cmds' = Append(cmds, [op |-> "goal", t |-> t])
  /\ UNCHANGED <<ses, errors>>

\* Mutant: the state stays that of the ended run.
RunEndsKeepsState(t) ==
  /\ RunStep /\ ses[t].run = "closing"
  /\ Session(t, [ses[t] EXCEPT !.run = "none", !.live = FALSE])
  /\ UNCHANGED <<cmds, goalMet, errors>>

\* The finally block of start(), for the run that is still current.
RunEnds(t) ==
  /\ RunStep /\ ses[t].run = "closing"
  /\ LET end == IF ses[t].finished THEN "completed" ELSE "stopped"
     IN  Session(t, [ses[t] EXCEPT !.run = "none", !.live = FALSE,
           !.state = IF @ \in {"error", "paused", "stopped"} THEN @ ELSE end])
  /\ UNCHANGED <<cmds, goalMet, errors>>

-----------------------------------------------------------------------------
(* _run_force_recheck *)

RecheckStep(t, from, to) ==
  /\ LoopFree /\ recheck[t] = from
  /\ recheck' = [recheck EXCEPT ![t] = to]
  /\ UNCHANGED <<known, intent, urgent, place, engine, goalMet, commands>>

\* A running session is stopped and given time to close.
RecheckBegins(t) ==
  /\ RecheckStep(t, "begin", IF ses[t].live THEN "wait" ELSE "invalidate")
  /\ IF ses[t].live THEN Session(t, Stopped(ses[t])) ELSE UNCHANGED ses
  /\ UNCHANGED <<explicit, spawned, errors>>

RecheckWaited(t) ==
  /\ RecheckStep(t, "wait", "invalidate")
  /\ UNCHANGED <<explicit, spawned, ses, errors>>

\* invalidate_verification, in a thread; it takes the lock of prepare_storage.
Invalidate(t) ==
  /\ ses[t].run # "preparing"
  /\ RecheckStep(t, "invalidate", "invalidated")
  /\ Session(t, [ses[t] EXCEPT !.prepared = FALSE, !.finished = FALSE])
  /\ UNCHANGED <<explicit, spawned, errors>>

\* force_recheck gives up if the session has been started meanwhile.
RecheckStarts(t) ==
  /\ RecheckStep(t, "invalidated", IF ses[t].live THEN "none" ELSE "checking")
  /\ IF ses[t].live THEN UNCHANGED ses
     ELSE Session(t, [ses[t] EXCEPT !.state = "checking", !.live = TRUE, !.from = "none",
                                    !.run = "recheck"])
  /\ UNCHANGED <<explicit, spawned, errors>>

\* The payload has been hashed; the session goes where the intent now says.
RecheckEnds(t) ==
  /\ ses[t].run = "recheck"
  /\ RecheckStep(t, "checking", "none")
  /\ LET s == [ses[t] EXCEPT !.prepared = TRUE, !.finished = ses[t].whole, !.run = "none",
                             !.live = FALSE, !.state = "stopped"]
     IN  IF t \in known /\ intent[t] = "active"
         THEN Rebalance(known, intent, urgent, explicit \cup {t}, [ses EXCEPT ![t] = s])
         ELSE /\ UNCHANGED <<explicit, spawned>>
              /\ Session(t, IF t \in known /\ intent[t] = "paused"
                            THEN [s EXCEPT !.state = "paused", !.from = "downloading"]
                            ELSE IF t \in known /\ intent[t] = "idle"
                            THEN [s EXCEPT !.state = "idle"] ELSE s)
  /\ UNCHANGED errors

RecheckFails(t) ==
  /\ ses[t].run = "recheck"
  /\ RecheckStep(t, "checking", "none")
  /\ errors < MaxErrors /\ errors' = errors + 1
  /\ Session(t, [ses[t] EXCEPT !.state = "error", !.live = FALSE, !.run = "none"])
  /\ UNCHANGED <<explicit, spawned>>

\* stop() has cancelled the task.
RecheckCancelled(t) ==
  /\ ses[t].run # "recheck"
  /\ RecheckStep(t, "checking", "none")
  /\ UNCHANGED <<explicit, spawned, ses, errors>>

-----------------------------------------------------------------------------
\* The engine has loaded its torrents; the intents are those of the last session.
Init ==
  /\ known = Torrents
  /\ intent = [t \in Torrents |-> IF t \in Restored THEN "active" ELSE "idle"]
  /\ explicit = {} /\ urgent = {}
  /\ place = CHOOSE f \in [Torrents -> 1 .. Cardinality(Torrents)] :
               \A t, u \in Torrents : f[t] = f[u] => t = u
  /\ cmds = <<>> /\ batch = 0 /\ removing = {} /\ spawned = {}
  /\ recheck = [t \in Torrents |-> "none"]
  /\ ses = [t \in Torrents |->
             [state |-> "idle", live |-> FALSE, from |-> "none", run |-> "none",
              prepared |-> FALSE, finished |-> FALSE, whole |-> t \in Whole]]
  /\ goalMet = {} /\ commands = 0 /\ errors = 0

UserCommands ==
  \/ \E t \in Touched :
       \/ StartTorrent(t) \/ PauseTorrent(t) \/ StopTorrent(t)
       \/ \E op \in {"remove", "recheck", "priority"} : SendCommand(op, t)
  \/ \E t, u \in Torrents : SetQueueOrder(t, u)

Handle ==
  \E t \in Torrents :
    \/ HandleStart(t) \/ HandlePause(t) \/ HandleStop(t) \/ HandleGoal(t)
    \/ HandlePriority(t) \/ HandleRebalance(t) \/ HandleRecheck(t) \/ HandleRemove(t)
    \/ \E op \in {"start", "pause", "stop", "goal", "priority", "recheck", "remove"} :
         HandleUnknown(op, t)

Wake == \E n \in 1 .. MaxBatch : TakeBatch(n)
Timeout == \E n \in 0 .. MaxBatch - 1 : Tick(n)
Removal == \E t \in Torrents, n \in 0 .. MaxBatch - 1 : FinishRemoval(t, n)

\* Steps of t's run that nothing outside the program is needed for.
RunAdvances(t) ==
  StartBegins(t) \/ NoticeOver(t) \/ Flushed(t) \/ RunEnds(t)

RecheckAdvances(t) ==
  RecheckBegins(t) \/ RecheckWaited(t) \/ Invalidate(t) \/ RecheckStarts(t) \/ RecheckCancelled(t)

\* Steps that a pause may hold up.
Pausable(t) == PrepareDone(t) \/ LoopEnds(t) \/ RecheckEnds(t)

Environment(t) ==
  LastPiece(t) \/ GoalReached(t) \/ PrepareFails(t) \/ RunFails(t) \/ RecheckFails(t)

Next ==
  \/ UserCommands \/ Wake \/ Timeout \/ Removal \/ Handle
  \/ \E t \in Torrents : RunAdvances(t) \/ RecheckAdvances(t) \/ Pausable(t) \/ Environment(t)

Spec == Init /\ [][Next]_vars

\* The event loop runs what is ready and the timer of the engine's wait fires; a
\* paused run may stand still.  Users, peers and failures owe nothing.
Fairness ==
  /\ WF_vars(Wake) /\ WF_vars(Timeout) /\ WF_vars(Removal) /\ WF_vars(Handle)
  /\ \A t \in Torrents :
       /\ WF_vars(RunAdvances(t)) /\ WF_vars(RecheckAdvances(t))
       /\ WF_vars(Pausable(t) /\ ~ Suspended(ses[t]))

FairSpec == Spec /\ Fairness

-----------------------------------------------------------------------------
(* Properties *)

\* Every variable has its type; the engine holds no batch while it removes a torrent.
TypeOK ==
  /\ known \in SUBSET Torrents
  /\ intent \in [Torrents -> {"idle", "active", "paused", "stopped"}]
  /\ explicit \in SUBSET Torrents /\ urgent \in SUBSET Torrents /\ spawned \in SUBSET Torrents
  /\ place \in [Torrents -> 1 .. Cardinality(Torrents)]
  /\ \A i \in DOMAIN cmds : cmds[i].t \in Torrents
  /\ batch \in 0 .. MaxBatch /\ batch <= Len(cmds)
  /\ removing \in SUBSET known /\ (removing # {} => batch = 0)
  /\ recheck \in [Torrents -> {"none", "begin", "wait", "invalidate", "invalidated", "checking"}]
  /\ ses \in [Torrents ->
       [state : {"idle", "queued", "checking", "fast_resume", "downloading", "seeding",
                 "paused", "stopped", "completed", "error"},
        live : BOOLEAN, from : {"none", "checking", "downloading", "seeding"},
        run : {"none", "preparing", "notice", "downloading", "flushing", "seeding", "closing",
               "recheck"},
        prepared : BOOLEAN, finished : BOOLEAN, whole : BOOLEAN]]
  /\ goalMet \in SUBSET Torrents
  /\ commands \in 0 .. MaxCommands /\ errors \in 0 .. MaxErrors

\* What the transfer table shows is really going on: a session that shows itself
\* Checking, Downloading or Seeding has a coroutine that works for it.
ShownIsLive ==
  \A t \in Torrents :
    ses[t].state \in {"checking", "fast_resume", "downloading", "seeding"}
      => ses[t].live /\ ses[t].run # "none"

\* The engine lets t download, in a session it starts or in one it continues.
Granted(t) ==
  /\ ~ ses'[t].finished
  /\ \/ t \in spawned' \ spawned
     \/ Suspended(ses[t]) /\ ~ Suspended(ses'[t]) /\ ses'[t].live /\ ses'[t].run = ses[t].run

\* u is left in the queue, and has the higher priority or, at the same one, the better
\* position.
PassedOver(u, t) ==
  /\ u \in known' /\ intent'[u] = "active" /\ u \notin spawned'
  /\ ses'[u].state = "queued" /\ ~ ses'[u].finished
  /\ \/ u \in urgent' /\ t \notin urgent'
     \/ (u \in urgent' <=> t \in urgent') /\ place'[u] < place'[t]

\* Priority first, then queue position, decides who downloads next, over all the
\* paths that give a slot away (_rebalance_queue's callers).
QueueOrder == [][\A t, u \in Torrents : Granted(t) => ~ PassedOver(u, t)]_vars

\* t is to run and could: it is a finished torrent with no run, or there is a free
\* slot for it.
Waiting(t) ==
  /\ t \in known /\ intent[t] = "active" /\ ses[t].state # "error"
  /\ IF ses[t].finished THEN ~ ses[t].live
     ELSE /\ ~ ses[t].live \/ Suspended(ses[t])
          /\ \/ Slots = 0
             \/ Cardinality({u \in known : intent[u] = "active" /\ ses[u].live /\ ~ ses[u].finished
                    /\ ses[u].state \in {"checking", "fast_resume", "downloading"}}) < Slots

\* No slot stays free while a torrent waits for it, whatever the order of commands,
\* removals, rechecks and runs that end by themselves.
WorkConserving == \A t \in Torrents : []<> ~ Waiting(t)

\* Stop prevails over starts already under way, over Force Rechecks and over the
\* rebalancing that other torrents cause: a torrent the user stopped transfers only
\* until the engine comes to that command.  (Not so for a stop by the seeding goal: a
\* start() created in the same batch outlives it.)
StopWins ==
  \A t \in known \ goalMet :
    intent[t] = "stopped" /\ ses[t].run \notin {"none", "closing", "recheck"}
      => \E i \in DOMAIN cmds : cmds[i] = [op |-> "stop", t |-> t]

\* Start/Resume "resumes a paused" torrent.  Violated: _rebalance_queue skips a
\* finished torrent whose session is live, so a paused seed stays paused.
ResumeTakesEffect ==
  \A t \in Torrents :
    (/\ intent[t] = "active" /\ ses[t].state = "paused"
     /\ \E i \in DOMAIN cmds : cmds[i] = [op |-> "start", t |-> t])
      ~> (intent[t] # "active" \/ ses[t].state # "paused" \/ t \notin known)

\* When no command is outstanding, at most Slots torrents download.  Violated: a pause is
\* forgotten when the paused check ends, after its slot has gone to another torrent.
SlotLimit ==
  Slots > 0 /\ cmds = <<>> =>
    Cardinality({t \in known : ActiveDownload(ses[t]) /\ ses[t].run # "recheck"}) <= Slots

=============================================================================
