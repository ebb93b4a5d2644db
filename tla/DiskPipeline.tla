---------------------------- MODULE DiskPipeline ----------------------------
(***************************************************************************)
(* The bounded write-behind pipeline of app/logic/piece_manager.py, the    *)
(* fast-resume record, and the part of TorrentSession.start and stop that  *)
(* opens, drains and closes the pipeline.  Coroutines: for each piece the  *)
(* peer worker that completed it and must enqueue it (enq), the one disk   *)
(* writer (writer), the session's run (phase) and the shutdown at the end  *)
(* of a run (shut).  The process may crash between any two steps.          *)
(*                                                                         *)
(* Abstracted: what reaches the pipeline is a verified piece (see          *)
(* PieceScheduler); the check of the files' size and mtime against the     *)
(* resume record becomes the flag dirty; payload bytes, caches, counters   *)
(* for telemetry and latencies are left out.  All files are wanted.        *)
(***************************************************************************)
EXTENDS Integers, Sequences, FiniteSetsExt

CONSTANTS
  Pieces,
  Size,         \* length of each piece
  Limit,        \* _disk_write_buffer_limit
  Sentinel,     \* the None that stops the writer
  MaxFailures,  \* bound on failing writes
  MaxStops,     \* bound on stops by the user
  MaxCrashes,   \* bound on crashes of the process
  Overlap       \* may the user start again before the old run has closed down?

ASSUME PipelineAssumption ==
  /\ IsFiniteSet(Pieces) /\ Pieces # {}
  /\ Size \in [Pieces -> Nat \ {0}]
  /\ Limit \in Nat /\ \A i \in Pieces : Size[i] <= Limit
  /\ Sentinel \notin Pieces
  /\ MaxFailures \in Nat /\ MaxStops \in Nat /\ MaxCrashes \in Nat
  /\ Overlap \in BOOLEAN

VARIABLES
  complete,    \* pieces with is_complete
  persisted,   \* pieces with is_persisted; also the persisted bitfield
  inMemory,    \* pieces whose block payloads are all held
  staged,      \* _disk_unqueued_verified
  pinned,      \* _pending_piece_data
  queue,       \* _disk_queue
  pending,     \* _disk_pending_bytes
  enq,         \* the worker that enqueues a piece: "none", "check" or "asleep"
  writer,      \* the writer task: "off", "idle", "writing" in its thread, "written",
               \* "saving" the resume state, or "done"
  current,     \* the item the writer holds
  diskError,   \* _disk_error is set
  phase,       \* state of the session's current run
  shut,        \* progress of shutdown_disk_io: "none", "staging", "join", "wait"
  toFlush,     \* the staged pieces it has still to enqueue
  disk,        \* pieces whose payload is on the filesystem
  resume,      \* completed_bitfield of the resume file
  dirty,       \* the files changed since the resume file was written
  failures, stops, crashes

memory == <<complete, persisted, inMemory, staged, pinned>>
pipe == <<queue, pending, writer, current, diskError>>
files == <<disk, resume, dirty>>
bounds == <<failures, stops, crashes>>
session == <<phase, shut, toFlush>>
vars == <<memory, pipe, enq, session, files, bounds>>

-----------------------------------------------------------------------------
Working == writer \in {"writing", "written", "saving"}

\* asyncio.Queue.join returns when every item put has been task_done.
Drained == queue = <<>> /\ ~ Working

HasRoom(i) == pending = 0 \/ pending + Size[i] <= Limit

IsFinished == complete = Pieces /\ staged = {}

Woken == [i \in Pieces |-> IF enq[i] = "asleep" THEN "check" ELSE enq[i]]

\* Mutant of SaveRecord: the record is taken from the completed bitfield.
SaveRecordCompleted == resume' = complete /\ dirty' = FALSE

\* save_resume_state: the record is exactly what is persisted now.
SaveRecord == resume' = persisted /\ dirty' = FALSE

\* enqueue_completed_piece without a writer: the piece is written at once.
WriteDirectly(i) ==
  /\ persisted' = persisted \cup {i}
  /\ disk' = disk \cup {i}
  /\ resume' = persisted' /\ dirty' = FALSE

\* Mutant of Put: the piece stays staged.
PutKeepsStaged(i) ==
  /\ pending' = pending + Size[i]
  /\ pinned' = pinned \cup {i}
  /\ inMemory' = inMemory \ {i}
  /\ queue' = Append(queue, i)
  /\ UNCHANGED staged

\* enqueue_completed_piece after it got its bytes: pin, empty the blocks, put.
Put(i) ==
  /\ pending' = pending + Size[i]
  /\ pinned' = pinned \cup {i}
  /\ inMemory' = inMemory \ {i}
  /\ staged' = staged \ {i}
  /\ queue' = Append(queue, i)

-----------------------------------------------------------------------------
(* The session's run *)

\* start_disk_io does nothing when a writer task is still there.
OpenPipeline ==
  IF writer = "off"
  THEN /\ queue' = <<>> /\ pending' = 0 /\ diskError' = FALSE
       /\ staged' = {} /\ pinned' = {}
       /\ writer' = "idle" /\ current' = Sentinel
  ELSE UNCHANGED <<queue, pending, diskError, staged, pinned, writer, current>>

\* start(): a finished torrent seeds without a writer, any other opens one.
Start ==
  /\ \/ phase = "idle"
     \/ Overlap /\ phase \in {"stopping", "error"} /\ shut # "none"
  /\ IF IsFinished
     THEN phase' = "seeding" /\ UNCHANGED <<staged, pinned, pipe>>
     ELSE phase' = "downloading" /\ OpenPipeline
  /\ UNCHANGED <<complete, persisted, inMemory, enq, shut, toFlush, files, bounds>>

\* A piece passes its hash in receive_block.  With a writer it is staged, and its
\* worker goes on to enqueue it.
Verified(i) ==
  /\ phase = "downloading" /\ i \notin complete
  /\ complete' = complete \cup {i}
  /\ inMemory' = inMemory \cup {i}
  /\ IF writer = "off"
     THEN WriteDirectly(i) /\ UNCHANGED <<staged, enq>>
     ELSE /\ staged' = staged \cup {i}
          /\ enq' = [enq EXCEPT ![i] = "check"]
          /\ UNCHANGED <<persisted, files>>
  /\ UNCHANGED <<pinned, pipe, session, bounds>>

\* The worker looks for room: it sleeps on the condition, or reserves and puts.
EnqueueOrSleep(i) ==
  /\ enq[i] = "check" /\ ~ diskError /\ i \in complete \ persisted
  /\ enq' = [enq EXCEPT ![i] = IF writer = "off" \/ HasRoom(i) THEN "none" ELSE "asleep"]
  /\ IF writer = "off"
     THEN WriteDirectly(i) /\ UNCHANGED <<pending, pinned, inMemory, staged, queue>>
     ELSE /\ IF HasRoom(i) THEN Put(i) ELSE UNCHANGED <<pending, pinned, inMemory, staged, queue>>
          /\ UNCHANGED <<persisted, files>>
  /\ UNCHANGED <<complete, writer, current, diskError, session, bounds>>

\* The pipeline has failed: enqueue raises, and the worker ends the run in error.
EnqueueRaises(i) ==
  /\ enq[i] = "check" /\ diskError
  /\ enq' = [enq EXCEPT ![i] = "none"]
  /\ phase' = IF phase = "downloading" THEN "error" ELSE phase
  /\ UNCHANGED <<memory, pipe, shut, toFlush, files, bounds>>

\* The download loop sees the error itself.
SeeDiskError ==
  /\ phase = "downloading" /\ diskError
  /\ phase' = "error"
  /\ UNCHANGED <<memory, pipe, enq, shut, toFlush, files, bounds>>

\* Mutant of FinishDownload: completion is announced without a flush.
FinishWithoutFlush ==
  /\ phase = "downloading" /\ IsFinished
  /\ phase' = IF diskError THEN "error" ELSE "seeding"
  /\ UNCHANGED <<memory, pipe, enq, shut, toFlush, files, bounds>>

\* Every piece is complete and handed over: the loop ends and the run flushes.
FinishDownload ==
  /\ phase = "downloading" /\ IsFinished
  /\ phase' = IF diskError THEN "error" ELSE "flushing"
  /\ UNCHANGED <<memory, pipe, enq, shut, toFlush, files, bounds>>

\* flush_disk_writes returns, and completion is announced; or it raises.
Flushed ==
  /\ phase = "flushing" /\ Drained
  /\ phase' = IF diskError \/ ~ IsFinished THEN "error" ELSE "seeding"
  /\ UNCHANGED <<memory, pipe, enq, shut, toFlush, files, bounds>>

\* stop(): workers are cancelled where they wait, and the record is saved.
Stop ==
  /\ phase \in {"downloading", "flushing", "seeding"} /\ stops < MaxStops
  /\ stops' = stops + 1
  /\ phase' = "stopping"
  /\ enq' = [i \in Pieces |-> "none"]
  /\ SaveRecord
  /\ UNCHANGED <<memory, pipe, shut, toFlush, disk, failures, crashes>>

-----------------------------------------------------------------------------
(* The disk writer *)

\* Mutant of TakeItem: the sentinel is taken for a piece.
TakeItemNoSentinel ==
  /\ writer = "idle" /\ queue # <<>>
  /\ queue' = Tail(queue)
  /\ writer' = "writing" /\ current' = Head(queue)
  /\ UNCHANGED <<memory, pending, diskError, enq, session, files, bounds>>

TakeItem ==
  /\ writer = "idle" /\ queue # <<>>
  /\ queue' = Tail(queue)
  /\ IF Head(queue) = Sentinel
     THEN writer' = "done" /\ UNCHANGED current
     ELSE writer' = "writing" /\ current' = Head(queue)
  /\ UNCHANGED <<memory, pending, diskError, enq, session, files, bounds>>

\* The thread that runs _write_range has written the payload.
WritePayload ==
  /\ writer = "writing"
  /\ writer' = "written"
  /\ disk' = disk \cup {current} /\ dirty' = TRUE
  /\ UNCHANGED <<memory, queue, pending, current, diskError, enq, session, resume, bounds>>

\* Back on the event loop: _set_piece_persisted, and the pinned copy is dropped.
MarkPersisted ==
  /\ writer = "written"
  /\ writer' = "saving"
  /\ persisted' = persisted \cup ({current} \cap complete)
  /\ pinned' = pinned \ {current}
  /\ UNCHANGED <<complete, inMemory, staged, queue, pending, current, diskError, enq,
                 session, files, bounds>>

\* Mutant of SaveResume: the sleeping workers are not woken.
SaveResumeSilently ==
  /\ writer = "saving"
  /\ writer' = "idle"
  /\ SaveRecord \/ UNCHANGED <<resume, dirty>>
  /\ pending' = IF pending > Size[current] THEN pending - Size[current] ELSE 0
  /\ UNCHANGED <<memory, queue, current, diskError, enq, session, disk, bounds>>

\* save_resume_state (which a multi-file torrent skips for a few seconds), then
\* the bytes are given back and every sleeping worker is woken.
SaveResume ==
  /\ writer = "saving"
  /\ writer' = "idle"
  /\ SaveRecord \/ UNCHANGED <<resume, dirty>>
  /\ pending' = IF pending > Size[current] THEN pending - Size[current] ELSE 0
  /\ enq' = Woken
  /\ UNCHANGED <<memory, queue, current, diskError, session, disk, bounds>>

\* Mutants of WriteFails: the reserved bytes are not given back; queued pieces
\* stay verified though their only copy is dropped.
WriteFailsLeaks ==
  /\ writer = "writing" /\ failures < MaxFailures
  /\ failures' = failures + 1
  /\ LET lost == ({current} \cup staged \cup Range(queue)) \cap (complete \ persisted)
     IN  complete' = complete \ lost /\ inMemory' = inMemory \ lost
  /\ diskError' = TRUE
  /\ staged' = {} /\ pinned' = {} /\ queue' = <<>>
  /\ writer' = "done"
  /\ dirty' \in {dirty, TRUE}
  /\ enq' = Woken
  /\ UNCHANGED <<persisted, pending, current, session, disk, resume, stops, crashes>>

WriteFailsKeepsQueued ==
  /\ writer = "writing" /\ failures < MaxFailures
  /\ failures' = failures + 1
  /\ LET lost == ({current} \cup staged) \cap (complete \ persisted)
     IN  complete' = complete \ lost /\ inMemory' = inMemory \ lost
  /\ diskError' = TRUE
  /\ staged' = {} /\ pinned' = {} /\ queue' = <<>> /\ pending' = 0
  /\ writer' = "done"
  /\ dirty' \in {dirty, TRUE}
  /\ enq' = Woken
  /\ UNCHANGED <<persisted, current, session, disk, resume, stops, crashes>>

\* The write fails: _invalidate_pending_disk_writes drops what was staged or
\* queued and not persisted, and the writer ends.
WriteFails ==
  /\ writer = "writing" /\ failures < MaxFailures
  /\ failures' = failures + 1
  /\ LET lost == ({current} \cup staged \cup Range(queue)) \cap (complete \ persisted)
     IN  complete' = complete \ lost /\ inMemory' = inMemory \ lost
  /\ diskError' = TRUE
  /\ staged' = {} /\ pinned' = {} /\ queue' = <<>> /\ pending' = 0
  /\ writer' = "done"
  /\ dirty' \in {dirty, TRUE}
  /\ enq' = Woken
  /\ UNCHANGED <<persisted, current, session, disk, resume, stops, crashes>>

-----------------------------------------------------------------------------
(* shutdown_disk_io(flush=True), in the finally block of start() *)

\* The record is saved once more unless the user's stop() has ended the run.
RunEnds ==
  /\ phase' = IF phase \in {"stopping", "error"} THEN "idle" ELSE phase
  /\ IF phase = "error" THEN SaveRecord ELSE UNCHANGED <<resume, dirty>>

\* The run has ended: its remaining workers are cancelled, and the pipeline, if
\* any, is to be drained, with what those workers left staged.
BeginShutdown ==
  /\ phase \in {"stopping", "error"} /\ shut = "none"
  /\ enq' = [i \in Pieces |-> "none"]
  /\ IF writer = "off"
     THEN RunEnds /\ UNCHANGED <<shut, toFlush>>
     ELSE /\ shut' = "staging" /\ toFlush' = IF diskError THEN {} ELSE staged
          /\ UNCHANGED <<phase, resume, dirty>>
  /\ UNCHANGED <<memory, pipe, disk, bounds>>

ShutdownEnqueue(i) ==
  /\ shut = "staging" /\ i \in toFlush
  /\ toFlush' = IF diskError THEN {} ELSE toFlush \ {i}
  /\ IF diskError \/ i \notin complete \ persisted
     THEN UNCHANGED <<pending, pinned, inMemory, staged, queue>>
     ELSE HasRoom(i) /\ Put(i)
  /\ UNCHANGED <<complete, persisted, writer, current, diskError, enq, phase, shut, files, bounds>>

ShutdownJoin ==
  /\ shut = "staging" /\ toFlush = {}
  /\ shut' = "join"
  /\ UNCHANGED <<memory, pipe, enq, phase, toFlush, files, bounds>>

\* Mutant of ShutdownSentinel: nobody tells the writer to end.
ShutdownWithoutSentinel ==
  /\ shut = "join" /\ Drained
  /\ shut' = "wait"
  /\ UNCHANGED <<memory, pipe, enq, phase, toFlush, files, bounds>>

ShutdownSentinel ==
  /\ shut = "join" /\ Drained
  /\ shut' = "wait"
  /\ queue' = IF writer = "done" THEN queue ELSE Append(queue, Sentinel)
  /\ UNCHANGED <<memory, pending, writer, current, diskError, enq, phase, toFlush, files, bounds>>

\* The writer has ended: everything of the pipeline is dropped.
ShutdownDone ==
  /\ shut = "wait" /\ writer = "done"
  /\ shut' = "none"
  /\ writer' = "off" /\ queue' = <<>> /\ pending' = 0 /\ current' = Sentinel
  /\ pinned' = {} /\ staged' = {}
  /\ RunEnds
  /\ UNCHANGED <<complete, persisted, inMemory, diskError, enq, toFlush, disk, bounds>>

-----------------------------------------------------------------------------
(* Crash and relaunch *)

\* The process dies.  A piece being written may have made it to the file.
Crash ==
  /\ phase # "down" /\ crashes < MaxCrashes
  /\ crashes' = crashes + 1
  /\ phase' = "down" /\ shut' = "none" /\ toFlush' = {}
  /\ complete' = {} /\ persisted' = {} /\ inMemory' = {} /\ staged' = {} /\ pinned' = {}
  /\ queue' = <<>> /\ pending' = 0 /\ writer' = "off" /\ current' = Sentinel
  /\ diskError' = FALSE
  /\ enq' = [i \in Pieces |-> "none"]
  /\ \/ UNCHANGED <<disk, dirty>>
     \/ /\ writer = "writing" /\ dirty' = TRUE
        /\ disk' = disk \/ disk' = disk \cup {current}
  /\ UNCHANGED <<resume, failures, stops>>

\* Mutant of Relaunch: files the record does not match are created anew.
RelaunchRecreates ==
  /\ phase = "down"
  /\ phase' = "idle"
  /\ disk' = IF dirty THEN {} ELSE disk
  /\ complete' = IF dirty THEN {} ELSE resume
  /\ persisted' = complete'
  /\ resume' = complete' /\ dirty' = FALSE
  /\ UNCHANGED <<inMemory, staged, pinned, pipe, enq, shut, toFlush, bounds>>

\* prepare_storage: the record is trusted if the files have not changed since,
\* otherwise every piece on disk is hashed and the record rewritten.
Relaunch ==
  /\ phase = "down"
  /\ phase' = "idle"
  /\ complete' = IF dirty THEN disk ELSE resume
  /\ persisted' = complete'
  /\ resume' = complete' /\ dirty' = FALSE
  /\ UNCHANGED <<inMemory, staged, pinned, pipe, enq, shut, toFlush, disk, bounds>>

-----------------------------------------------------------------------------
Init ==
  /\ complete = {} /\ persisted = {} /\ inMemory = {} /\ staged = {} /\ pinned = {}
  /\ queue = <<>> /\ pending = 0 /\ writer = "off" /\ current = Sentinel
  /\ diskError = FALSE
  /\ enq = [i \in Pieces |-> "none"]
  /\ phase = "idle" /\ shut = "none" /\ toFlush = {}
  /\ disk = {} /\ resume = {} /\ dirty = FALSE
  /\ failures = 0 /\ stops = 0 /\ crashes = 0

Enqueue(i) == EnqueueOrSleep(i) \/ EnqueueRaises(i)

Shutdown ==
  \/ BeginShutdown \/ ShutdownJoin \/ ShutdownSentinel \/ ShutdownDone
  \/ \E i \in Pieces : ShutdownEnqueue(i)

Next ==
  \/ Start \/ SeeDiskError \/ FinishDownload \/ Flushed \/ Stop
  \/ TakeItem \/ WritePayload \/ MarkPersisted \/ SaveResume \/ WriteFails
  \/ Shutdown
  \/ \E i \in Pieces : Verified(i) \/ Enqueue(i)
  \/ Crash \/ Relaunch

Spec == Init /\ [][Next]_vars

\* asyncio runs every ready task and the writer's thread returns or raises.  That
\* more pieces get verified, that the user acts or that the process dies is not
\* assumed.
Fairness ==
  /\ WF_vars(TakeItem) /\ WF_vars(WritePayload \/ WriteFails)
  /\ WF_vars(MarkPersisted) /\ WF_vars(SaveResume)
  /\ WF_vars(SeeDiskError) /\ WF_vars(FinishDownload) /\ WF_vars(Flushed)
  /\ WF_vars(Shutdown)
  /\ \A i \in Pieces : WF_vars(Enqueue(i))

FairSpec == Spec /\ Fairness
-----------------------------------------------------------------------------
(* Properties *)

\* Every variable keeps its type: the fields PieceManager.__init__ sets up.
TypeOK ==
  /\ complete \subseteq Pieces /\ persisted \subseteq Pieces /\ inMemory \subseteq Pieces
  /\ staged \subseteq Pieces /\ pinned \subseteq Pieces
  /\ queue \in Seq(Pieces \cup {Sentinel})
  /\ pending \in Nat
  /\ enq \in [Pieces -> {"none", "check", "asleep"}]
  /\ writer \in {"off", "idle", "writing", "written", "saving", "done"}
  /\ current \in Pieces \cup {Sentinel}
  /\ diskError \in BOOLEAN
  /\ phase \in {"idle", "downloading", "flushing", "seeding", "stopping", "error", "down"}
  /\ shut \in {"none", "staging", "join", "wait"} /\ toFlush \subseteq Pieces
  /\ disk \subseteq Pieces /\ resume \subseteq Pieces /\ dirty \in BOOLEAN
  /\ failures \in 0..MaxFailures /\ stops \in 0..MaxStops /\ crashes \in 0..MaxCrashes

\* Whatever fails, stops or dies in between, the resume record and the persisted
\* bitfield never claim a piece whose payload is not on the filesystem.
ResumeSound == resume \subseteq disk /\ persisted \subseteq disk

Queued == Range(queue) \ {Sentinel}
InFlight == IF Working THEN {current} ELSE {}

\* The reserved bytes are exactly those of the pieces queued or being written, each
\* only once, and stay within the buffer limit: a leak would block every later
\* enqueue for ever, a missed reservation break the bound on memory.
PendingExact ==
  /\ pending = MapThenSumSet(LAMBDA i : Size[i], Queued \cup InFlight)
  /\ pending <= Limit

\* A verified piece can always be served: from the disk, the writer's copy or its
\* blocks.  (Peers are told of it with HAVE as soon as it is enqueued.)
VerifiedIsHeld == complete \subseteq disk \cup pinned \cup inMemory

\* Completion is announced only with the whole payload on the filesystem
\* (comment in start()), as long as no write has failed.
AnnouncedIsStored == phase = "seeding" /\ failures = 0 => disk = Pieces

\* The same without the proviso, as the comment in start() and the README say it.
AnnouncedIsDurable == phase = "seeding" => disk = Pieces

\* A piece waiting for the pipeline is enqueued or given up in the end: no worker
\* sleeps on the condition for ever, however the writer ends.
StagedIsHandedOver == \A i \in Pieces : i \in staged ~> i \notin staged

\* A run that was stopped or has failed closes its pipeline in the end.
ShutdownEnds == phase \in {"stopping", "error"} ~> phase \in {"idle", "down"}

\* Once every piece is verified the torrent is announced complete, unless the run
\* is stopped, fails or dies.
CompletionIsReached ==
  phase = "downloading" /\ complete = Pieces ~> phase \notin {"downloading", "flushing"}

\* The pipeline implements the abstract store.
Store == INSTANCE DurableStore WITH verified <- complete, stored <- disk, recorded <- resume
StoreSpec == Store!Spec
=============================================================================
