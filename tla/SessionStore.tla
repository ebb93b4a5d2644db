------------------------------ MODULE SessionStore ------------------------------
(***************************************************************************)
(* How the transfer queue survives a restart (torrent_manager.py over       *)
(* app/persistence): the torrents in their order, the intent of each and    *)
(* the selection are saved after every change, by the thread that made it,  *)
(* and restored at the next launch from the torrent files that are still    *)
(* there.  The snapshot is built under one lock and written under another.  *)
(*                                                                          *)
(* What runs and what the commands do is in TransferQueue; limits, paths    *)
(* and priorities of an entry are left out.                                 *)
(***************************************************************************)
EXTENDS Naturals, Sequences, SequencesExt, Comprehension

CONSTANTS
  Entries,              \* torrents
  MaxStoreOps           \* bound on changes, crashes and failures

ASSUME StoreAssumption == Entries # {} /\ MaxStoreOps \in Nat

Intents == {"idle", "active", "stopped"}
Savers == {"ui", "engine"}

(* What a store may hold, and what a thread is saving.                       *)
Blank(is) == [is |-> is, order |-> << >>, intent |-> << >>, selected |-> "none"]
Nothing == Blank("nothing")
Unreadable == Blank("unreadable")
Newer == Blank("newer")
NotSaving == Blank("not saving")
Unbuilt == Blank("unbuilt")
Db == INSTANCE StateDatabase WITH Bad <- Unreadable, Lineage <- {"r1", "r2"}

VARIABLES
  backend,              \* "json" or "salixorm"
  autoResume,           \* the auto_resume_active setting
  jsonFile,             \* session.json: Nothing, Unreadable, Newer or a snapshot
  database,             \* session.db
  sources, cached,      \* torrents whose own file, whose cached copy exists
  queued,               \* _queue_order, the keys of sessions and of
                        \* _persistent_sessions
  wanted,               \* _desired_states
  picked,               \* _selected_info_hash, or "none"
  saving,               \* per thread: NotSaving, Unbuilt, or a snapshot
  launch,               \* "down", "up", or "exit" while the engine ends
  storeHealthy,         \* _session_store_healthy
  stored,               \* the last save: "ok", "failed", or "late" if it wrote
                        \* a snapshot older than the one it replaced
  storeOps

storeVars == <<backend, autoResume, jsonFile, database, sources, cached, queued, wanted,
               picked, saving, launch, storeHealthy, stored, storeOps>>
files == <<jsonFile, database, sources, cached>>
memory == <<queued, wanted, picked>>
setup == <<backend, autoResume>>

Known(t) == t \in ToSet(queued)

(* _build_persistent_state.                                                  *)
Snapshot ==
  [is |-> "queue", order |-> queued,
   intent |-> [t \in ToSet(queued) |-> wanted[t]],
   selected |-> IF picked \in ToSet(queued) THEN picked
                ELSE IF queued = << >> THEN "none" ELSE Head(queued)]

(* A stored queue that says what the queue is now, but for the selection.    *)
SaysNow(snap) ==
  /\ snap.order = queued
  /\ \A t \in ToSet(queued) : snap.intent[t] = wanted[t]

SnapshotOf(order, i) ==
  [is |-> "queue", order |-> order, intent |-> [t \in ToSet(order) |-> i], selected |-> "none"]
Earlier == {SnapshotOf(<<CHOOSE t \in Entries : TRUE>>, i) : i \in {"active", "stopped"}}

StoreInit ==
  /\ backend \in {"json", "salixorm"} /\ autoResume \in BOOLEAN
  /\ jsonFile \in {Nothing, Unreadable, Newer} \cup Earlier
  /\ database \in IF backend = "json" THEN {Db!NoDatabase} ELSE Db!Databases(Earlier)
  /\ sources = Entries /\ cached \in {{}, IF backend = "json" THEN Entries ELSE {}}
  /\ queued = << >> /\ wanted = [t \in Entries |-> "idle"] /\ picked = "none"
  /\ saving = [s \in Savers |-> NotSaving]
  /\ launch = "down" /\ storeHealthy = TRUE /\ stored = "ok" /\ storeOps = 0

--------------------------------------------------------------------------------
Op == storeOps < MaxStoreOps /\ storeOps' = storeOps + 1
Saved(s) == saving[s].is = "not saving"
Free(s) == Saved(s) /\ launch \in IF s = "ui" THEN {"up"} ELSE {"up", "exit"}

(* JsonSessionStateStore.load and the version check of _load_session_state.  *)
JsonLoad == jsonFile

(* Mutant: the database's queue counts as none when it is empty.             *)
LoadedIfAny ==
  LET found == Db!DatabaseLoad(database)
  IN IF backend = "json" \/ (found.is /= "unreadable" /\ found.order = << >>)
     THEN JsonLoad ELSE found

Loaded ==
  IF backend = "json" THEN JsonLoad ELSE Db!WithFallback(Db!DatabaseLoad(database), JsonLoad)

(* Mutant: a store that could not be read is written to.                     *)
HealthyAnyway(found) == TRUE

HealthAfterLoad(found) == ~(found = Unreadable /\ backend = "salixorm")

(* restore_previous_session skips the entries it finds no torrent file for.  *)
Restored(order) == Filtered(order, sources \cup cached)

(* The queue is rebuilt, and saved once more if there was one.  A database   *)
(* that cannot be read, or with the database an unreadable session.json, is  *)
(* not written to any more.                                                  *)
LaunchApp ==
  /\ launch = "down" /\ launch' = "up" /\ stored' = "ok"
  /\ LET found == Loaded
         unread == found.is /= "queue" \/ found.order = << >>
     IN /\ storeHealthy' = HealthAfterLoad(found)
        /\ database' = IF backend = "salixorm" THEN Db!AfterLoad(database) ELSE database
        /\ IF unread
           THEN UNCHANGED <<memory, cached, saving>>
           ELSE /\ queued' = Restored(found.order)
                /\ wanted' = [t \in Entries |->
                     IF t \notin ToSet(queued') THEN "idle"
                     ELSE IF found.intent[t] = "active" /\ ~autoResume THEN "stopped"
                     ELSE found.intent[t]]
                /\ picked' = IF found.selected \in ToSet(queued') THEN found.selected
                             ELSE IF queued' = << >> THEN "none" ELSE Head(queued')
                /\ cached' = cached \cup ToSet(queued')
                /\ saving' = [saving EXCEPT !["ui"] = Unbuilt]
  /\ UNCHANGED <<setup, jsonFile, sources, storeOps>>

(* Mutant: a torrent that is added again is put in the queue again.         *)
QueuedWithAgain(t) == Append(queued, t)

QueuedWith(t) == IF Known(t) THEN queued ELSE Append(queued, t)

(* add_torrent, from the user or from a magnet's task on the engine thread   *)
(* (whose torrent file is the cached one).                                   *)
AddTorrent(s, t) ==
  /\ Free(s) /\ Op /\ (s = "ui" => t \in sources)
  /\ queued' = QueuedWith(t)
  /\ wanted' = IF Known(t) THEN wanted ELSE [wanted EXCEPT ![t] = "idle"]
  /\ picked' = IF s = "ui" THEN picked ELSE t
  /\ cached' = cached \cup {t}
  /\ saving' = [saving EXCEPT ![s] = Unbuilt]
  /\ UNCHANGED <<setup, jsonFile, database, sources, launch, storeHealthy, stored>>

(* _set_intent from a start or a stop, or a reached seeding goal.            *)
SetIntent(s, t, i) ==
  /\ Free(s) /\ Op /\ Known(t)
  /\ i \in IF s = "ui" THEN {"active", "stopped"} ELSE {"stopped"}
  /\ wanted' = [wanted EXCEPT ![t] = i]
  /\ saving' = [saving EXCEPT ![s] = Unbuilt]
  /\ UNCHANGED <<setup, files, queued, picked, launch, storeHealthy, stored>>

(* set_queue_order.                                                          *)
ReverseQueue ==
  /\ Free("ui") /\ Op /\ Len(queued) > 1
  /\ queued' = Reverse(queued) /\ saving' = [saving EXCEPT !["ui"] = Unbuilt]
  /\ UNCHANGED <<setup, files, wanted, picked, launch, storeHealthy, stored>>

(* set_selected_torrent is saved with the next change only.                  *)
SelectTorrent(t) ==
  /\ Free("ui") /\ Op /\ Known(t) /\ picked' = t
  /\ UNCHANGED <<setup, files, queued, wanted, saving, launch, storeHealthy, stored>>

(* _finalize_torrent_removal; the private copy goes with the torrent, and    *)
(* the next in the queue is selected.                                        *)
FinalizeRemoval(t) ==
  /\ Free("engine") /\ Op /\ Known(t)
  /\ LET i == CHOOSE j \in DOMAIN queued : queued[j] = t
         rest == Filtered(queued, Entries \ {t})
     IN /\ queued' = rest
        /\ picked' = IF picked /= t THEN picked
                     ELSE IF rest = << >> THEN "none"
                     ELSE rest[IF i <= Len(rest) THEN i ELSE Len(rest)]
  /\ wanted' = [wanted EXCEPT ![t] = "idle"]
  /\ cached' = cached \ {t}
  /\ saving' = [saving EXCEPT !["engine"] = Unbuilt]
  /\ UNCHANGED <<setup, jsonFile, database, sources, launch, storeHealthy, stored>>

(* The user's own torrent file is moved away.                                *)
SourceMoves(t) ==
  /\ Op /\ t \in sources /\ sources' = sources \ {t}
  /\ UNCHANGED <<setup, jsonFile, database, cached, memory, saving, launch, storeHealthy,
                 stored>>

--------------------------------------------------------------------------------
(* save_session_state: not at all once the store is unhealthy.               *)
BuildSnapshot(s) ==
  /\ saving[s].is = "unbuilt"
  /\ saving' = [saving EXCEPT ![s] = IF storeHealthy THEN Snapshot ELSE NotSaving]
  /\ UNCHANGED <<setup, files, memory, launch, storeHealthy, stored, storeOps>>

Writing(s) == saving[s].is = "queue"

(* session.json is replaced in one step, the rows in one transaction.        *)
WriteSnapshot(s) ==
  /\ Writing(s)
  /\ backend = "salixorm" => Db!Savable(database)
  /\ IF backend = "json"
     THEN jsonFile' = saving[s] /\ UNCHANGED database
     ELSE database' = Db!AfterSave(database, saving[s]) /\ UNCHANGED jsonFile
  /\ saving' = [saving EXCEPT ![s] = NotSaving]
  /\ stored' = IF SaysNow(saving[s]) THEN "ok" ELSE "late"
  /\ UNCHANGED <<setup, sources, cached, memory, launch, storeHealthy, storeOps>>

HealthAfterFailure == storeHealthy /\ backend = "json"


(* A full disk, or a database that is refused.                               *)
WriteFails(s) ==
  /\ Writing(s)
  /\ \/ backend = "salixorm" /\ ~Db!Savable(database) /\ UNCHANGED storeOps
     \/ Op
  /\ saving' = [saving EXCEPT ![s] = NotSaving] /\ stored' = "failed"
  /\ storeHealthy' = HealthAfterFailure
  /\ UNCHANGED <<setup, files, memory, launch>>

(* shutdown saves once more, then ends the engine thread.                    *)
BeginExit ==
  /\ Free("ui") /\ launch' = "exit" /\ saving' = [saving EXCEPT !["ui"] = Unbuilt]
  /\ UNCHANGED <<setup, files, memory, storeHealthy, stored, storeOps>>

Gone ==
  /\ launch' = "down" /\ queued' = << >> /\ picked' = "none"
  /\ wanted' = [t \in Entries |-> "idle"]
  /\ saving' = [s \in Savers |-> NotSaving]
  /\ UNCHANGED <<setup, files, storeHealthy, stored>>

ExitApp ==
  launch = "exit" /\ (\A s \in Savers : Saved(s)) /\ Gone /\ UNCHANGED storeOps

CrashApp == launch /= "down" /\ Op /\ Gone

--------------------------------------------------------------------------------
StoreNext ==
  \/ LaunchApp \/ BeginExit \/ ExitApp \/ CrashApp \/ ReverseQueue
  \/ \E t \in Entries :
       \/ SelectTorrent(t) \/ FinalizeRemoval(t) \/ SourceMoves(t)
       \/ \E s \in Savers :
            \/ AddTorrent(s, t)
            \/ \E i \in Intents : SetIntent(s, t, i)
  \/ \E s \in Savers : BuildSnapshot(s) \/ WriteSnapshot(s) \/ WriteFails(s)

StoreSpec == StoreInit /\ [][StoreNext]_storeVars

--------------------------------------------------------------------------------
StoreTypeOK ==
  /\ backend \in {"json", "salixorm"} /\ storeHealthy \in BOOLEAN
  /\ sources \subseteq Entries /\ cached \subseteq Entries
  /\ ToSet(queued) \subseteq Entries /\ IsInjective(queued)
  /\ wanted \in [Entries -> Intents]
  /\ \A s \in Savers : saving[s].is \in {"not saving", "unbuilt", "queue"}
  /\ launch \in {"down", "up", "exit"} /\ stored \in {"ok", "failed", "late"}

(* While no save is under way and the last one went well, the next launch    *)
(* would find the queue as it is: every change of membership, order and      *)
(* intent has been saved, whichever thread made it.                          *)
SavedInStep ==
  (launch /= "down" /\ storeHealthy /\ stored = "ok" /\ \A s \in Savers : Saved(s)) =>
    \/ Loaded.is = "queue" /\ SaysNow(Loaded)
    \/ Loaded.is /= "queue" /\ queued = << >>

(* Every torrent of a stored queue that is in the queue now can be restored, *)
(* though the user moves its torrent file.                                   *)
CopiesKept == \A t \in ToSet(queued) : t \in cached

StoreSound == SavedInStep /\ CopiesKept

(* What the rows of a database that cannot be read say is never replaced,    *)
(* nor is the session.json of an earlier version once the database is used.  *)
UnreadableKept ==
  [][/\ backend = "salixorm" /\ Db!DatabaseLoad(database) = Unreadable =>
          database'.rows = database.rows /\ database'.meta = database.meta
     /\ backend = "salixorm" => UNCHANGED jsonFile]_storeVars
================================================================================
