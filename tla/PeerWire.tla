-------------------------------- MODULE PeerWire --------------------------------
(***************************************************************************)
(* The message loop of one established peer connection and the upload       *)
(* queue behind it: PeerConnection.read_message (peer.py) and, in           *)
(* session.py, the loops of _peer_worker, _seed_peer_worker and             *)
(* _handle_inbound_seed_peer, _queue_peer_upload, _cancel_queued_upload,    *)
(* _peer_upload_worker, _serve_piece_request and _finish_upload_state.      *)
(*                                                                          *)
(* The remote end writes frames; a frame is a length and, unless it is a    *)
(* keep-alive, a body, and the two may arrive at different times.  Blocks   *)
(* are identified by a key, their bytes are left out.  The reader and the   *)
(* upload worker are two coroutines that interleave at their awaits.        *)
(***************************************************************************)
EXTENDS Naturals, Sequences, FiniteSets

CONSTANTS
  Keys,                 \* (piece, begin, length) of blocks
  QueueLimit,           \* MAX_PENDING_UPLOAD_REQUESTS_PER_PEER
  MaxFrames,            \* bound on frames the remote end sends
  MaxToggles            \* bound on pauses and resumes of the torrent

ASSUME WireAssumption ==
  QueueLimit \in Nat \ {0} /\ MaxFrames \in Nat /\ MaxToggles \in Nat

(* The three loops that read a connection: _peer_worker (download),         *)
(* _seed_peer_worker (seed) and _handle_inbound_seed_peer (inbound).        *)
Loops == {"download", "seed", "inbound"}

Request == [msg : {"request"}, key : Keys]
Cancel == [msg : {"cancel"}, key : Keys]
KeepAlive == [msg |-> "keepalive"]
Oversize == [msg |-> "oversize"]
Other == [msg |-> "other"]
Messages == Request \cup Cancel \cup {KeepAlive, Oversize, Other}

NoKey == [key |-> "none"]

VARIABLES
  loop,                 \* which of the three loops reads
  stream,               \* parts of frames that have arrived and are not read
  partial,              \* the frame whose body has not arrived, or NoKey
  frames,               \* frames sent, bounded by MaxFrames
  reader,               \* control of the reading coroutine
  pending,              \* the message between its parts, or held by a pause
  cut,                  \* a read was cancelled inside a frame
  skewed,               \* the reader takes bodies for lengths
  active, queue,        \* _UploadRequestState
  worker, served,       \* the upload worker and the key it works on
  live,                 \* is_connected
  running,              \* _is_current_run(run_token)
  paused, toggles,      \* the pause event, and how often it changed
  fate                  \* per key: what became of the last request for it

wireVars == <<loop, stream, partial, frames, reader, pending, cut, skewed,
              active, queue, worker, served, live, running, paused, toggles,
              fate>>
remoteVars == <<stream, partial, frames>>
readerVars == <<reader, pending, cut, skewed>>
uploadVars == <<active, queue, worker, served, fate>>
sessionVars == <<loop, running, paused, toggles>>

WireInit ==
  /\ loop \in Loops
  /\ stream = <<>> /\ partial = NoKey /\ frames = 0
  /\ reader = "top" /\ pending = NoKey /\ cut = FALSE /\ skewed = FALSE
  /\ active = {} /\ queue = <<>> /\ worker = "none" /\ served = NoKey
  /\ live = TRUE /\ running = TRUE /\ paused = FALSE /\ toggles = 0
  /\ fate = [k \in Keys |-> "none"]

--------------------------------------------------------------------------------
(* The remote end.                                                          *)

HasBody(m) == m /= KeepAlive

SendFrame(m) ==
  /\ live /\ partial = NoKey /\ frames < MaxFrames
  /\ frames' = frames + 1
  /\ stream' = Append(stream, [part |-> "length", of |-> m])
  /\ partial' = IF HasBody(m) THEN m ELSE NoKey
  /\ UNCHANGED <<readerVars, uploadVars, sessionVars, live>>

SendBody ==
  /\ live /\ partial /= NoKey
  /\ stream' = Append(stream, [part |-> "body", of |-> partial])
  /\ partial' = NoKey
  /\ UNCHANGED <<frames, readerVars, uploadVars, sessionVars, live>>

--------------------------------------------------------------------------------
(* The upload queue.                                                        *)

(* Mutant: the queue has no limit.                                          *)
AcceptsAnyLength(k) == k \notin active

(* _queue_peer_upload: a key already active and a full queue are refused;   *)
(* the worker is created when there is none.                                *)
Accepts(k) == k \notin active /\ Len(queue) < QueueLimit

(* A block asked for again while its cancelled service is still under way.  *)
Again(k) == served = k /\ worker /= "get"

QueueUpload(k) ==
  IF Accepts(k)
  THEN /\ active' = active \cup {k}
       /\ queue' = Append(queue, k)
       /\ worker' = IF worker = "none" THEN "get" ELSE worker
       /\ fate' = [fate EXCEPT ![k] = IF Again(k) THEN "again" ELSE "accepted"]
       /\ UNCHANGED served
  ELSE UNCHANGED uploadVars

(* _cancel_queued_upload: only the active set changes; the worker skips or  *)
(* drops the entry when it gets there.                                      *)
CancelUpload(k) ==
  /\ active' = active \ {k}
  /\ fate' = IF k \in active THEN [fate EXCEPT ![k] = "cancelled"] ELSE fate
  /\ UNCHANGED <<queue, worker, served>>

(* What the loops do with a message.  The seed loop ignores a REQUEST       *)
(* unless the torrent is seeding.                                           *)
Handle(m) ==
  IF m.msg = "request" /\ ~(loop = "seed" /\ paused) THEN QueueUpload(m.key)
  ELSE IF m.msg = "cancel" THEN CancelUpload(m.key)
  ELSE UNCHANGED uploadVars

--------------------------------------------------------------------------------
(* The reader.                                                              *)

(* The loop's head: the outgoing loops wait for the pause event, and a run  *)
(* that is over ends them.                                                  *)
BeginRead ==
  /\ reader = "top" /\ running /\ live
  /\ loop = "inbound" \/ ~paused
  /\ reader' = "length"
  /\ UNCHANGED <<pending, cut, skewed, remoteVars, uploadVars, sessionVars, live>>

NextPart == Head(stream)
Consume == stream' = Tail(stream) /\ UNCHANGED <<partial, frames>>
InStep == stream /= <<>> /\ ~skewed /\ live /\ NextPart.part = reader

(* A keep-alive is complete with its length, other frames need their body;  *)
(* a length beyond the limit closes the connection.                         *)
ReadLength ==
  /\ reader = "length" /\ InStep
  /\ Consume
  /\ \/ /\ NextPart.of = KeepAlive /\ reader' = "top" /\ UNCHANGED <<pending, live>>
     \/ /\ NextPart.of = Oversize /\ reader' = "end"
        /\ live' = (loop = "inbound") /\ UNCHANGED pending
     \/ /\ NextPart.of \notin {KeepAlive, Oversize}
        /\ reader' = "body" /\ pending' = NextPart.of /\ UNCHANGED live
  /\ UNCHANGED <<cut, skewed, uploadVars, sessionVars>>

(* The inbound loop waits for the pause event before it queues a REQUEST.   *)
ReadBody ==
  /\ reader = "body" /\ InStep
  /\ Consume
  /\ IF loop = "inbound" /\ NextPart.of.msg = "request"
     THEN /\ reader' = "held" /\ pending' = NextPart.of
          /\ UNCHANGED uploadVars
     ELSE /\ reader' = "top" /\ pending' = NoKey
          /\ Handle(NextPart.of)
  /\ UNCHANGED <<cut, skewed, sessionVars, live>>

ReleaseHeld ==
  /\ reader = "held" /\ ~paused /\ running
  /\ QueueUpload(pending.key)
  /\ reader' = "top" /\ pending' = NoKey
  /\ UNCHANGED <<cut, skewed, remoteVars, sessionVars, live>>

(* wait_for(read_message(), 1.0): the timeout cancels the read.  What it    *)
(* has taken of a frame is gone; the next read starts with the body.        *)
ReadTimesOut ==
  /\ loop /= "inbound" /\ live /\ reader \in {"length", "body"}
  /\ stream = <<>>
  /\ reader' = "top" /\ pending' = NoKey
  /\ cut' = (cut \/ reader = "body") /\ skewed' = (skewed \/ reader = "body")
  /\ UNCHANGED <<remoteVars, uploadVars, sessionVars, live>>

(* Mutant: a timeout only cancels the read of the inbound loop.             *)
InboundReadsOn ==
  /\ loop = "inbound" /\ live /\ reader \in {"length", "body"} /\ stream = <<>>
  /\ reader' = "top" /\ pending' = NoKey
  /\ UNCHANGED <<cut, skewed, remoteVars, uploadVars, sessionVars, live>>

(* The inbound loop's waits end the connection when they time out.          *)
InboundTimesOut ==
  /\ loop = "inbound" /\ live /\ reader \in {"length", "body"} /\ stream = <<>>
  /\ reader' = "end" /\ pending' = NoKey
  /\ UNCHANGED <<cut, skewed, remoteVars, uploadVars, sessionVars, live>>

(* Out of step, four bytes of payload are a length: mostly too large, or    *)
(* the wait for the bytes it promises is cut again.                         *)
ReadSkewed ==
  /\ skewed /\ reader = "length" /\ live /\ stream /= <<>>
  /\ Consume /\ pending' = NoKey
  /\ \/ reader' = "end" /\ live' = FALSE /\ UNCHANGED uploadVars
     \/ reader' = "top" /\ UNCHANGED <<live, uploadVars>>
     \/ /\ reader' = "top" /\ UNCHANGED live
        /\ \E m \in Messages : Handle(m)
  /\ UNCHANGED <<cut, skewed, sessionVars>>

(* EOF, an error or the end of the run; the handler's finally stops the     *)
(* upload worker (_finish_upload_state), closes and drops the connection.   *)
LoopEnds ==
  /\ \/ reader = "end"
     \/ reader /= "closed" /\ ~live
     \/ reader = "top" /\ ~running
     \/ reader = "held" /\ ~running
  /\ reader' = "closed" /\ pending' = NoKey /\ live' = FALSE
  /\ active' = {} /\ queue' = <<>> /\ worker' = "none" /\ served' = NoKey
  /\ stream' = <<>> /\ partial' = NoKey /\ fate' = [k \in Keys |-> "none"]
  /\ UNCHANGED <<frames, cut, skewed, sessionVars>>

RemoteCloses ==
  /\ live /\ live' = FALSE
  /\ UNCHANGED <<readerVars, remoteVars, uploadVars, sessionVars>>

--------------------------------------------------------------------------------
(* The upload worker: one item at a time, suspended while it reads the      *)
(* block, waits for the limiters and drains the socket.                     *)

WorkerStays == UNCHANGED <<readerVars, remoteVars, sessionVars>>

(* Mutant: a key stays active after its service.                            *)
ItemDoneStaysActive(k) ==
  /\ UNCHANGED active /\ served' = NoKey
  /\ worker' = IF running /\ live THEN "get" ELSE "none"

(* Mutant: the worker ends after one item.                                  *)
ItemDoneEnds(k) ==
  /\ active' = active \ {k} /\ served' = NoKey /\ worker' = "none"

(* finally: whatever came of it, the key is no longer active.               *)
ItemDone(k) ==
  /\ active' = active \ {k} /\ served' = NoKey
  /\ worker' = IF running /\ live THEN "get" ELSE "none"

(* Mutant: a cancelled block is not looked for after the waits.             *)
MayServeCancelled(k) == running /\ ~paused

(* What the checks before and after the waits ask for.                      *)
MayServe(k) == running /\ ~paused /\ k \in active

TakeItem ==
  /\ worker = "get" /\ queue /= <<>>
  /\ LET k == Head(queue) IN
       IF MayServe(k)
       THEN /\ worker' = "reading" /\ served' = k /\ UNCHANGED <<active, fate>>
       ELSE /\ ItemDone(k)
            /\ fate' = IF k \in active THEN [fate EXCEPT ![k] = "dropped"] ELSE fate
  /\ queue' = Tail(queue)
  /\ UNCHANGED live /\ WorkerStays

(* read_block returns nothing for a piece that is not complete.             *)
BlockMissing ==
  /\ worker = "reading"
  /\ ItemDone(served)
  /\ fate' = IF served \in active THEN [fate EXCEPT ![served] = "dropped"] ELSE fate
  /\ UNCHANGED <<queue, live>> /\ WorkerStays

BlockRead ==
  /\ worker = "reading" /\ worker' = "throttled"
  /\ UNCHANGED <<active, queue, served, fate, live>> /\ WorkerStays

(* After the limiters everything is looked at again; then the PIECE is      *)
(* written, and drained.                                                    *)
Throttled ==
  /\ worker = "throttled"
  /\ IF MayServe(served) /\ live
     THEN /\ worker' = "sending" /\ fate' = [fate EXCEPT ![served] = "sent"]
          /\ UNCHANGED <<active, served>>
     ELSE /\ ItemDone(served)
          /\ fate' = IF served \in active
                     THEN [fate EXCEPT ![served] = "dropped"] ELSE fate
  /\ UNCHANGED <<queue, live>> /\ WorkerStays

Drained ==
  /\ worker = "sending" /\ ItemDone(served)
  /\ UNCHANGED <<queue, fate, live>> /\ WorkerStays

--------------------------------------------------------------------------------
(* The session: Pause and Resume, Stop.                                     *)

TogglePause ==
  /\ running /\ live /\ toggles < MaxToggles
  /\ paused' = ~paused /\ toggles' = toggles + 1
  /\ UNCHANGED <<loop, running, readerVars, remoteVars, uploadVars, live>>

StopRun ==
  /\ running /\ running' = FALSE /\ paused' = FALSE /\ live' = FALSE
  /\ UNCHANGED <<loop, toggles, readerVars, remoteVars, uploadVars>>

WireNext ==
  \/ \E m \in Messages : SendFrame(m)
  \/ SendBody \/ BeginRead \/ ReadLength \/ ReadBody \/ ReleaseHeld
  \/ ReadTimesOut \/ InboundTimesOut \/ ReadSkewed \/ LoopEnds \/ RemoteCloses
  \/ TakeItem \/ BlockMissing \/ BlockRead \/ Throttled \/ Drained
  \/ TogglePause \/ StopRun

(* The worker's waits end: the disk answers, the limiters' slot comes, the  *)
(* socket drains.  The remote end, the user and the reader owe nothing.     *)
WireFairness ==
  /\ WF_wireVars(TakeItem) /\ WF_wireVars(BlockRead)
  /\ WF_wireVars(Throttled) /\ WF_wireVars(Drained)

WireSpec == WireInit /\ [][WireNext]_wireVars /\ WireFairness

--------------------------------------------------------------------------------
Fates == {"none", "accepted", "again", "cancelled", "sent", "dropped"}

WireTypeOK ==
  /\ loop \in Loops /\ frames \in 0 .. MaxFrames
  /\ partial \in Messages \cup {NoKey}
  /\ reader \in {"top", "length", "body", "held", "end", "closed"}
  /\ pending \in Messages \cup {NoKey}
  /\ active \subseteq Keys /\ queue \in Seq(Keys) /\ Len(queue) <= QueueLimit
  /\ worker \in {"none", "get", "reading", "throttled", "sending"}
  /\ served \in Keys \cup {NoKey}
  /\ toggles \in 0 .. MaxToggles
  /\ fate \in [Keys -> Fates]

(* What the reader takes for a length is one, and a body the body of the    *)
(* length before it, unless a timeout cancelled a read inside a frame: the  *)
(* framing survives pauses, held requests, skipped messages and keep-alives, *)
(* and the inbound loop never loses it.                                     *)
StreamInStep ==
  live /\ stream /= <<>> /\ reader \in {"length", "body"} /\ ~cut =>
    /\ NextPart.part = reader
    /\ reader = "body" => pending = NextPart.of

(* A PIECE is written only for a block whose last request was accepted and   *)
(* neither cancelled nor answered since, although the request may have been  *)
(* cancelled and repeated at any moment of its service.                     *)
OnlyWantedSent ==
  [][\A k \in Keys : fate[k] /= "sent" /\ fate'[k] = "sent"
                     => fate[k] \in {"accepted", "again"}]_wireVars

(* An active key is in the queue or being served: otherwise every later      *)
(* request for the block would be refused as a duplicate.                   *)
ActiveIsQueued ==
  worker /= "none" =>
    \A k \in active : served = k \/ \E i \in 1 .. Len(queue) : queue[i] = k

(* An accepted request is answered, cancelled or dropped because of a pause  *)
(* or a missing block, unless the connection ends.                          *)
RequestsAnswered ==
  \A k \in Keys : fate[k] = "accepted" ~> (fate[k] /= "accepted" \/ ~live)
================================================================================
