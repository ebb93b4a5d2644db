------------------------------ MODULE TransferView ------------------------------
(***************************************************************************)
(* The transfer table (DownloadView) over the torrent manager.  The manager  *)
(* puts events in a queue; each frame that shows the table drains the whole  *)
(* queue and keeps, of the snapshots of a torrent, the last.  While another  *)
(* scene is shown the events pile up.  The user works on what the table      *)
(* shows, the manager on commands it takes later.                               *)
(*                                                                         *)
(* A seeding goal is the set of its time components; widgets, sorting by a   *)
(* column, filters and notices are left out.                                *)
(***************************************************************************)
EXTENDS Naturals, Sequences, SequencesExt, FiniteSetsExt, Comprehension

CONSTANTS
  Torrents,        \* info hashes
  Backpressure,    \* UI_QUEUE_BACKPRESSURE_LIMIT, for periodic snapshots
  MaxViewOps       \* bound on the acts of the user

ASSUME ViewAssumption ==
  /\ IsFiniteSet(Torrents) /\ "none" \notin Torrents
  /\ Backpressure \in Nat /\ MaxViewOps \in Nat

VARIABLES
  goalOf,          \* manager: the goal of each session, Unknown without one
  sessionOrder,    \* manager: the sessions in the order they were added
  queueOrder,      \* manager: _queue_order
  selected,        \* manager: _selected_info_hash
  managerQueue,    \* manager: _cmd_queue
  removing,        \* manager: the torrent whose REMOVE waits for its run to end
  survivors,       \* removed sessions whose run has started again meanwhile
  resolving,       \* magnet links being resolved
  uiEvents,        \* ui_queue
  scene,           \* the scene shown
  rows,            \* view: torrent_order, the keys of torrent_rows
  goalShown,       \* view: the goal in latest_stats
  tombstones,      \* view: _removed_info_hashes
  activeRow,       \* view: active_info_hash
  viewOps

managerVars == <<goalOf, sessionOrder, queueOrder, selected, managerQueue, removing, survivors,
                 resolving>>
tableVars == <<rows, goalShown, tombstones, activeRow>>
viewVars == <<managerVars, uiEvents, scene, tableVars, viewOps>>

NoTorrent == "none"
Unknown == {"unknown"}   \* no goal: there is no session
Units == {"days", "hours"}
Goals == SUBSET Units

HasSession(t) == goalOf[t] /= Unknown
Without(seq, t) == Filtered(seq, ToSet(seq) \ {t})
With(seq, t) == IF t \in ToSet(seq) THEN seq ELSE Append(seq, t)

Stats(t, goal) == [type |-> "stats", torrent |-> t, goal |-> goal, next |-> NoTorrent]
GoalUpdated(t, goal) == [type |-> "goal", torrent |-> t, goal |-> goal, next |-> NoTorrent]
Removed(t, next) == [type |-> "removed", torrent |-> t, goal |-> {}, next |-> next]
MagnetReady(t) == [type |-> "ready", torrent |-> t, goal |-> {}, next |-> NoTorrent]

CommandOf(kind, t, goal) == [kind |-> kind, torrent |-> t, goal |-> goal]

(* At launch the sessions kept are restored and tell their state.           *)
ViewInit ==
  \E kept \in SUBSET Torrents : \E order \in SetToSeqs(kept) :
    /\ goalOf = [t \in Torrents |-> IF t \in kept THEN {} ELSE Unknown]
    /\ sessionOrder = order /\ queueOrder = order
    /\ selected = IF kept = {} THEN NoTorrent ELSE order[1]
    /\ activeRow = selected
    /\ uiEvents = [i \in DOMAIN order |-> Stats(order[i], {})]
    /\ managerQueue = << >> /\ removing = NoTorrent /\ survivors = {} /\ resolving = {}
    /\ scene = "transfers" /\ rows = << >> /\ tombstones = {}
    /\ goalShown = [t \in Torrents |-> Unknown]
    /\ viewOps = 0

--------------------------------------------------------------------------------
(* The manager                                                              *)

(* set_selected_torrent ignores a torrent it does not know.                 *)
Selecting(now, t) == IF HasSession(t) THEN t ELSE now

(* add_torrent: a known torrent stays as it is, another gets a session with  *)
(* the default goal; both tell their state.                                 *)
ManagerAdds(t, told) ==
  LET goal == IF HasSession(t) THEN goalOf[t] ELSE {} IN
  /\ goalOf' = [goalOf EXCEPT ![t] = goal]
  /\ sessionOrder' = With(sessionOrder, t)
  /\ queueOrder' = With(queueOrder, t)
  /\ uiEvents' = Append(uiEvents, Stats(t, goal)) \o told

(* set_queue_order: what the view does not show follows in session order.    *)
SetQueueOrder(order) ==
  LET valid == Filtered(order, {t \in Torrents : HasSession(t)}) IN
  queueOrder' = valid \o Filtered(sessionOrder, Torrents \ ToSet(valid))

(* REMOVE stops the session and waits up to two seconds for its run.        *)
HandleRemove ==
  /\ managerQueue /= << >> /\ removing = NoTorrent
  /\ Head(managerQueue).kind = "remove"
  /\ removing' = IF HasSession(Head(managerQueue).torrent) THEN Head(managerQueue).torrent
                 ELSE NoTorrent
  /\ managerQueue' = Tail(managerQueue)
  /\ UNCHANGED <<goalOf, sessionOrder, queueOrder, selected, survivors, resolving, uiEvents,
                 scene, tableVars, viewOps>>

(* _finalize_torrent_removal chooses the next selection.  A start() that was *)
(* under way may have begun a run that outlives the session's record.       *)
RemovalEnds ==
  /\ removing /= NoTorrent
  /\ LET t == removing
         order == Without(queueOrder, t)
         place == IF t \in ToSet(queueOrder)
                  THEN CHOOSE i \in DOMAIN queueOrder : queueOrder[i] = t ELSE 1
         next == IF selected /= t THEN selected
                 ELSE IF order = << >> THEN NoTorrent
                 ELSE order[IF place <= Len(order) THEN place ELSE Len(order)]
     IN /\ goalOf' = [goalOf EXCEPT ![t] = Unknown]
        /\ sessionOrder' = Without(sessionOrder, t) /\ queueOrder' = order
        /\ selected' = next
        /\ uiEvents' = Append(uiEvents, Removed(t, next))
        /\ survivors' \in {survivors, survivors \cup {t}}
  /\ removing' = NoTorrent
  /\ UNCHANGED <<managerQueue, resolving, scene, tableVars, viewOps>>

(* Mutant: the snapshot and the event are built before the goal is set.     *)
SetGoalTellsFirst(t, goal) ==
  /\ goalOf' = [goalOf EXCEPT ![t] = goal]
  /\ uiEvents' = uiEvents \o <<Stats(t, goalOf[t]), GoalUpdated(t, goalOf[t])>>

SetGoal(t, goal) ==
  /\ goalOf' = [goalOf EXCEPT ![t] = goal]
  /\ uiEvents' = uiEvents \o <<Stats(t, goal), GoalUpdated(t, goal)>>

HandleSetGoal ==
  /\ managerQueue /= << >> /\ removing = NoTorrent
  /\ Head(managerQueue).kind = "goal"
  /\ managerQueue' = Tail(managerQueue)
  /\ IF HasSession(Head(managerQueue).torrent)
     THEN SetGoal(Head(managerQueue).torrent, Head(managerQueue).goal)
     ELSE UNCHANGED <<goalOf, uiEvents>>
  /\ UNCHANGED <<sessionOrder, queueOrder, selected, removing, survivors, resolving, scene,
                 tableVars, viewOps>>

(* The telemetry of a run, held back while the view does not drain.         *)
Telemetry(t) ==
  /\ Len(uiEvents) < Backpressure
  /\ \/ HasSession(t) /\ uiEvents' = Append(uiEvents, Stats(t, goalOf[t]))
     \/ t \in survivors /\ uiEvents' = Append(uiEvents, Stats(t, {}))
  /\ UNCHANGED <<managerVars, scene, tableVars, viewOps>>

(* A magnet link has its metadata: the torrent is added and announced.      *)
MagnetResolves(t) ==
  /\ t \in resolving /\ resolving' = resolving \ {t}
  /\ ManagerAdds(t, <<MagnetReady(t)>>)
  /\ UNCHANGED <<selected, managerQueue, removing, survivors, scene, tableVars, viewOps>>

--------------------------------------------------------------------------------
(* The user                                                                 *)

Act == viewOps < MaxViewOps /\ viewOps' = viewOps + 1

(* _select_torrent                                                          *)
Select(t) == activeRow' = t /\ selected' = Selecting(selected, t)

ClickRow(t) ==
  /\ Act /\ scene = "transfers" /\ t \in ToSet(rows) /\ t /= activeRow
  /\ Select(t)
  /\ UNCHANGED <<goalOf, sessionOrder, queueOrder, managerQueue, removing, survivors, resolving,
                 uiEvents, scene, rows, goalShown, tombstones>>

(* set_seeding_goal takes what it is given; the view shows it at once.       *)
SubmitGoal(t, goal) ==
  /\ Select(t)
  /\ IF HasSession(t)
     THEN /\ managerQueue' = Append(managerQueue, CommandOf("goal", t, goal))
          /\ goalShown' = [goalShown EXCEPT ![t] = goal]
     ELSE UNCHANGED <<managerQueue, goalShown>>
  /\ UNCHANGED <<goalOf, sessionOrder, queueOrder, removing, survivors, resolving, uiEvents,
                 scene, rows, tombstones>>

(* In the menu of a row a time component is toggled on what the view shows.  *)
ToggleGoal(t, unit) ==
  /\ Act /\ scene = "transfers" /\ t \in ToSet(rows)
  /\ SubmitGoal(t, IF unit \in goalShown[t] THEN goalShown[t] \ {unit}
                   ELSE goalShown[t] \cup {unit})

(* The editor and the properties set a whole goal.                          *)
ApplyGoal(t, goal) ==
  /\ Act /\ scene = "transfers" /\ t = activeRow /\ goalShown[t] /= Unknown
  /\ SubmitGoal(t, goal)

(* The confirmation looks at the row again; remove_torrent at the session.   *)
RemoveRow(t) ==
  /\ Act /\ scene = "transfers" /\ t \in ToSet(rows)
  /\ Select(t)
  /\ managerQueue' = IF HasSession(t) THEN Append(managerQueue, CommandOf("remove", t, {}))
                     ELSE managerQueue
  /\ UNCHANGED <<goalOf, sessionOrder, queueOrder, removing, survivors, resolving, uiEvents,
                 scene, rows, goalShown, tombstones>>

Swapped(seq, i) == [seq EXCEPT ![i] = seq[i + 1], ![i + 1] = seq[i]]

(* _move_torrent_up and _move_torrent_down.                                  *)
MoveRow(i, t) ==
  /\ Act /\ scene = "transfers" /\ i \in 1 .. Len(rows) - 1 /\ t \in {rows[i], rows[i + 1]}
  /\ Select(t)
  /\ rows' = Swapped(rows, i)
  /\ SetQueueOrder(rows')
  /\ UNCHANGED <<goalOf, sessionOrder, managerQueue, removing, survivors, resolving, uiEvents,
                 scene, goalShown, tombstones>>

(* The native dialog of the table: the view forgets that the torrent had     *)
(* been removed.                                                            *)
AddFile(t) ==
  /\ Act /\ scene = "transfers"
  /\ ManagerAdds(t, << >>)
  /\ tombstones' = tombstones \ {t}
  /\ activeRow' = t /\ selected' = t
  /\ UNCHANGED <<managerQueue, removing, survivors, resolving, scene, rows, goalShown>>

(* Start Seeding in the Create Torrent scene, which knows of no removal.     *)
SeedCreated(t) ==
  /\ Act /\ scene = "other"
  /\ ManagerAdds(t, << >>)
  /\ selected' = t /\ scene' = "transfers"
  /\ UNCHANGED <<managerQueue, removing, survivors, resolving, tableVars>>

SubmitMagnet(t) ==
  /\ Act /\ scene = "transfers" /\ resolving' = resolving \cup {t}
  /\ UNCHANGED <<goalOf, sessionOrder, queueOrder, selected, managerQueue, removing, survivors,
                 uiEvents, scene, tableVars>>

SwitchScene ==
  /\ Act /\ scene' = IF scene = "transfers" THEN "other" ELSE "transfers"
  /\ UNCHANGED <<managerVars, uiEvents, tableVars>>

--------------------------------------------------------------------------------
(* A frame: update() drains the queue                                        *)

Drained(type, t) == {i \in DOMAIN uiEvents : uiEvents[i].type = type /\ uiEvents[i].torrent = t}

(* The snapshots of t that count: t had no tombstone, and its removal does   *)
(* not follow.                                                              *)
Counting(t) ==
  {i \in Drained("stats", t) : t \notin tombstones /\ \A j \in Drained("removed", t) : j < i}

ReadyNow == {t \in Torrents : Drained("ready", t) /= {}}
RemovedNow == {t \in Torrents : Drained("removed", t) /= {}}

(* Mutant: a removal leaves no tombstone.                                   *)
TombstonesForgotten == tombstones \ ReadyNow

(* Magnets come first, removals next.                                       *)
TombstonesAfter == (tombstones \ ReadyNow) \cup RemovedNow

Admitted == {t \in Torrents : Counting(t) /= {} /\ t \notin TombstonesAfter}

ByMagnet(choice, t) == [choice EXCEPT !.active = t, !.selected = Selecting(@, t)]

(* _handle_torrent_removed: the manager's next selection, if it has a row.   *)
ByRemoval(choice, event) ==
  LET left == Without(choice.rows, event.torrent)
      next == IF event.next \in ToSet(left) THEN event.next ELSE NoTorrent
  IN  IF choice.active /= event.torrent THEN [choice EXCEPT !.rows = left]
      ELSE [rows |-> left, active |-> next,
            selected |-> IF next = NoTorrent THEN choice.selected
                         ELSE Selecting(choice.selected, next)]

ByStats(choice, t) ==
  IF choice.active = NoTorrent
  THEN [choice EXCEPT !.active = t, !.selected = Selecting(@, t), !.rows = With(@, t)]
  ELSE [choice EXCEPT !.rows = With(@, t)]

(* What an event means when the events of its type are looked at: a snapshot  *)
(* and a magnet count where their torrent is first named.                   *)
Handled(type, choice, i) ==
  LET event == uiEvents[i]
      first == \A j \in Drained(type, event.torrent) : i <= j
  IN  IF event.type /= type THEN choice
      ELSE IF type = "removed" THEN ByRemoval(choice, event)
      ELSE IF type = "ready" /\ first THEN ByMagnet(choice, event.torrent)
      ELSE IF type = "stats" /\ first /\ event.torrent \in Admitted
      THEN ByStats(choice, event.torrent) ELSE choice

(* One look at the whole queue.                                             *)
Looked(type, start) ==
  LET upTo[i \in 0 .. Len(uiEvents)] == IF i = 0 THEN start ELSE Handled(type, upTo[i - 1], i)
  IN  upTo[Len(uiEvents)]

Choice ==
  LET start == [rows |-> rows, active |-> activeRow, selected |-> selected]
  IN  Looked("stats", Looked("removed", Looked("ready", start)))

(* The last snapshot, then the last goal event of a torrent that is shown.   *)
GoalAfter(t) ==
  LET base == IF t \in Admitted THEN uiEvents[Max(Counting(t))].goal
              ELSE IF t \in RemovedNow THEN Unknown ELSE goalShown[t]
  IN  IF base = Unknown \/ Drained("goal", t) = {} THEN base
      ELSE uiEvents[Max(Drained("goal", t))].goal

Frame ==
  /\ scene = "transfers" /\ uiEvents /= << >> /\ uiEvents' = << >>
  /\ tombstones' = TombstonesAfter
  /\ rows' = Choice.rows /\ activeRow' = Choice.active /\ selected' = Choice.selected
  /\ goalShown' = [t \in Torrents |-> GoalAfter(t)]
  /\ UNCHANGED <<goalOf, sessionOrder, queueOrder, managerQueue, removing, survivors, resolving,
                 scene, viewOps>>

ViewNext ==
  \/ HandleRemove \/ RemovalEnds \/ HandleSetGoal \/ Frame \/ SwitchScene
  \/ \E t \in Torrents :
       \/ Telemetry(t) \/ MagnetResolves(t)
       \/ ClickRow(t) \/ RemoveRow(t) \/ AddFile(t) \/ SeedCreated(t) \/ SubmitMagnet(t)
       \/ \E unit \in Units : ToggleGoal(t, unit)
       \/ \E goal \in Goals : ApplyGoal(t, goal)
       \/ \E i \in DOMAIN rows : MoveRow(i, t)

ViewSpec == ViewInit /\ [][ViewNext]_viewVars

--------------------------------------------------------------------------------
ViewTypeOK ==
  /\ goalOf \in [Torrents -> Goals \cup {Unknown}]
  /\ goalShown \in [Torrents -> Goals \cup {Unknown}]
  /\ {sessionOrder, queueOrder, rows} \subseteq Seq(Torrents)
  /\ {selected, removing, activeRow} \subseteq Torrents \cup {NoTorrent}
  /\ survivors \subseteq Torrents /\ resolving \subseteq Torrents /\ tombstones \subseteq Torrents
  /\ scene \in {"transfers", "other"}
  /\ viewOps \in 0 .. MaxViewOps

(* Nothing is on its way between the user, the manager and the table.       *)
Settled == managerQueue = << >> /\ removing = NoTorrent /\ resolving = {} /\ uiEvents = << >>

(* Once nothing is on its way, the table shows no torrent that is gone, shows *)
(* the goals the sessions have, and selects a torrent that exists: whatever   *)
(* was removed, added again and changed while older snapshots were still in   *)
(* the queue.                                                               *)
ViewSound ==
  Settled =>
    /\ ToSet(rows) \subseteq {t \in Torrents : HasSession(t)}
    /\ \A t \in ToSet(rows) \ survivors : goalShown[t] = goalOf[t]
    /\ activeRow /= NoTorrent => HasSession(activeRow)
================================================================================
