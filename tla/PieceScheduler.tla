--------------------------- MODULE PieceScheduler ---------------------------
(***************************************************************************)
(* The download side of one running torrent: app/logic/piece_manager.py    *)
(* hands blocks to peers and accepts their PIECE messages, and the peer    *)
(* workers of app/logic/session.py drive it, one asyncio task per remote   *)
(* peer.  A worker is a sequential loop, but it suspends while a bandwidth *)
(* limiter delays its REQUEST, while CANCELs are sent and while a finished *)
(* piece waits for the disk; the other workers run in between.             *)
(*                                                                         *)
(* Abstracted: a block's payload is "good" or "bad"; the times of requests *)
(* become a choice of which requests expire; within a rarity bucket the    *)
(* random (or oldest-first) pick is a choice; every block counts as one    *)
(* byte.  The disk writer is reduced to Persist (see DiskPipeline).        *)
(***************************************************************************)
EXTENDS Integers, FiniteSets

CONSTANTS
  Peers,             \* remote peers
  Pieces, Blocks,    \* pieces of the torrent and their 16 KiB blocks
  PieceOf,           \* the piece a block belongs to
  Files, FilesOf,    \* payload files, and the files a piece overlaps
  Ranks,             \* file priority ranks in use (0 is Don't Download)
  DefaultRank,       \* rank of Normal
  Payloads,          \* what a PIECE message may carry: "good", "bad", "short"
  PipelineLimit,     \* request_pipeline_limit of a peer
  EndgameThreshold,  \* ENDGAME_BLOCK_THRESHOLD
  MaxRequesters,     \* ENDGAME_MAX_REQUESTERS_PER_BLOCK
  Silent,            \* peers that may never answer, unchoke or advertise
  MaxFaults          \* bound on disturbances: chokes, disconnects, bad pieces,
                     \* stops, priority changes, expiries of peers not in Silent

ASSUME SchedulerAssumption ==
  /\ IsFiniteSet(Peers) /\ IsFiniteSet(Blocks) /\ IsFiniteSet(Pieces)
  /\ PieceOf \in [Blocks -> Pieces]
  /\ FilesOf \in [Pieces -> SUBSET Files]
  /\ Ranks \subseteq 0..3 /\ DefaultRank \in Ranks
  /\ Payloads \subseteq {"good", "bad", "short"}
  /\ PipelineLimit \in Nat /\ EndgameThreshold \in Nat
  /\ MaxRequesters \in Nat /\ MaxFaults \in Nat /\ Silent \subseteq Peers

VARIABLES
  (* PieceManager *)
  prio,        \* file_priorities
  have,        \* _peer_piece_sets
  avail,       \* _piece_availability
  buckets,     \* _rarity_buckets, as triples <<rank, availability, piece>>
  active,      \* _active_piece_indices
  data,        \* Block.data
  requesters,  \* Block.requesters: the peers that own a request
  sent,        \* ... those whose REQUEST has reached the wire
  requestsBy,  \* _requests_by_peer: the reverse index
  complete,    \* pieces with is_complete
  persisted,   \* pieces with is_persisted
  staged,      \* _disk_unqueued_verified
  pinned,      \* _pending_piece_data: pieces buffered for the writer
  downloaded,  \* downloaded_bytes, in blocks
  (* TorrentSession and its peer workers *)
  running,     \* a download run is current
  connected,   \* peers with a live _peer_worker
  choked,      \* peer_choking
  owned,       \* owned_requests of each worker
  retryAfter,  \* retry_after: blocks in their retry cooldown
  task,        \* where each worker is suspended
  wire,        \* REQUESTs each remote peer may still answer
  faults       \* disturbances so far

managerVars == <<prio, have, avail, buckets, active, data, requesters, sent,
                 requestsBy, complete, persisted, staged, pinned, downloaded>>
sessionVars == <<running, connected, choked, owned, retryAfter, task, wire>>
vars == <<managerVars, sessionVars, faults>>

requestVars == <<requesters, sent, requestsBy>>
pieceVars == <<complete, persisted, staged, pinned>>

-----------------------------------------------------------------------------
(* Pieces, priorities and rarity buckets *)

BlocksOf(i) == {b \in Blocks : PieceOf[b] = i}

\* The highest rank of the files a piece overlaps wins; Normal if there are none.
PieceRank(pr, i) ==
  IF FilesOf[i] = {} THEN DefaultRank
  ELSE CHOOSE r \in Ranks : /\ \E f \in FilesOf[i] : pr[f] = r
                            /\ \A f \in FilesOf[i] : pr[f] <= r

Wanted(i) == PieceRank(prio, i) > 0

\* _rebuild_rarity_buckets over given priorities, completion and availability
RebuiltBuckets(pr, done, av) ==
  {<<PieceRank(pr, i), av[i], i>> : i \in {j \in Pieces \ done : PieceRank(pr, j) > 0}}

\* _remove_from_rarity_buckets(i); the activity mark goes only if the bucket of
\* that priority and availability exists.
CurrentBucket(i) == <<PieceRank(prio, i), avail[i], i>>

RemoveFromBuckets(i) ==
  LET bucket == {t \in buckets : t[1] = PieceRank(prio, i) /\ t[2] = avail[i]}
  IN  /\ buckets' = buckets \ {CurrentBucket(i)}
      /\ active' = IF bucket = {} THEN active ELSE active \ {i}

\* Peer p's advertised set becomes S (register_peer_bitfield, record_peer_have,
\* and the second half of unregister_peer): every piece gained or lost changes
\* its availability and _move_rarity_piece puts it in the bucket of the new one.
AvailabilityWith(p, S) ==
  [i \in Pieces |-> IF i \in S \ have[p] THEN avail[i] + 1
                    ELSE IF i \in have[p] \ S /\ avail[i] > 0 THEN avail[i] - 1
                    ELSE avail[i]]

\* Mutant of MovedBuckets: pieces nobody wants are put in a bucket as well.
MovedBucketsUnfiltered(p, S) ==
  LET moved == {i \in (S \ have[p]) \cup (have[p] \ S) : i \notin complete}
  IN  (buckets \ {CurrentBucket(i) : i \in moved})
        \cup {<<PieceRank(prio, i), AvailabilityWith(p, S)[i], i>> : i \in moved}

MovedBuckets(p, S) ==
  LET moved == {i \in (S \ have[p]) \cup (have[p] \ S) : i \notin complete /\ Wanted(i)}
  IN  (buckets \ {CurrentBucket(i) : i \in moved})
        \cup {<<PieceRank(prio, i), AvailabilityWith(p, S)[i], i>> : i \in moved}

Advertise(p, S) ==
  /\ have' = [have EXCEPT ![p] = S]
  /\ avail' = AvailabilityWith(p, S)
  /\ buckets' = MovedBuckets(p, S)

WantedIsFinished == \A i \in Pieces : Wanted(i) => i \in complete \ staged

RemainingWantedBlocks ==
  Cardinality({b \in Blocks : /\ PieceOf[b] \notin complete
                              /\ Wanted(PieceOf[b])
                              /\ data[b] = "none"})

EndgameActive == RemainingWantedBlocks \in 1..EndgameThreshold

-----------------------------------------------------------------------------
(* Which block get_next_request may hand to peer p *)

\* Mutant of Rarer: the availability of a piece does not count.
RarerByRankOnly(t, u) == t[1] > u[1]

\* bucket order: priority first, then the smaller availability
Rarer(t, u) == \/ t[1] > u[1]
               \/ (t[1] = u[1]) /\ (t[2] < u[2])

\* in a bucket, pieces that already had a request come first
Before(t, u) == \/ Rarer(t, u)
                \/ /\ ~ Rarer(u, t)
                   /\ t[3] \in active
                   /\ u[3] \notin active

\* blocks of bucket entry t that _reserve_random_candidate_block accepts
Unrequested(p, t) ==
  {b \in BlocksOf(t[3]) : /\ t[3] \in have[p] \ complete
                          /\ b \notin retryAfter[p]
                          /\ data[b] = "none"
                          /\ requesters[b] = {}}

\* blocks of bucket entry t that _reserve_endgame_duplicate accepts
Duplicable(p, t) ==
  {b \in BlocksOf(t[3]) : /\ t[3] \in have[p] \ complete
                          /\ b \notin retryAfter[p]
                          /\ data[b] = "none"
                          /\ p \notin requesters[b]
                          /\ Cardinality(requesters[b]) < MaxRequesters
                          /\ sent[b] # {}}

\* _select_unrequested_block
NextUnrequested(p) ==
  UNION {Unrequested(p, t) : t \in {t \in buckets :
           ~ \E u \in buckets : Before(u, t) /\ Unrequested(p, u) # {}}}

\* _select_endgame_duplicate (which does not prefer active pieces)
NextDuplicate(p) ==
  UNION {Duplicable(p, t) : t \in {t \in buckets :
           ~ \E u \in buckets : Rarer(u, t) /\ Duplicable(p, u) # {}}}

\* Mutant of NextRequests: blocks are duplicated outside the endgame too.
NextRequestsEager(p) ==
  IF NextUnrequested(p) # {} THEN NextUnrequested(p) ELSE NextDuplicate(p)

NextRequests(p) ==
  IF NextUnrequested(p) # {} THEN NextUnrequested(p)
  ELSE IF EndgameActive THEN NextDuplicate(p)
  ELSE {}

-----------------------------------------------------------------------------
(* Ownership helpers *)

Reading == [at |-> "read"]
IsAt(p, where) == p \in connected /\ task[p].at = where

\* Mutant of Release: the reverse index is forgotten.
ReleaseForgetsIndex(Q, S) ==
  /\ requesters' = [b \in Blocks |-> IF b \in S THEN requesters[b] \ Q ELSE requesters[b]]
  /\ sent' = [b \in Blocks |-> IF b \in S THEN sent[b] \ Q ELSE sent[b]]
  /\ UNCHANGED requestsBy

\* Peers Q give up their requests for the blocks S.
Release(Q, S) ==
  /\ requesters' = [b \in Blocks |-> IF b \in S THEN requesters[b] \ Q ELSE requesters[b]]
  /\ sent' = [b \in Blocks |-> IF b \in S THEN sent[b] \ Q ELSE sent[b]]
  /\ requestsBy' = [q \in Peers |-> IF q \in Q THEN requestsBy[q] \ S ELSE requestsBy[q]]

ForgetOwned(Q, S) ==
  owned' = [q \in Peers |-> IF q \in Q THEN owned[q] \ S ELSE owned[q]]

Fault == faults < MaxFaults /\ faults' = faults + 1

Resume(p) == task' = [task EXCEPT ![p] = Reading]

-----------------------------------------------------------------------------
(* Connections and what peers advertise *)

\* _start_download_workers has connected p: _peer_worker registers its state.
Connect(p) ==
  /\ running /\ ~ WantedIsFinished /\ p \notin connected
  /\ connected' = connected \cup {p}
  /\ UNCHANGED <<managerVars, running, choked, owned, retryAfter, task, wire, faults>>

\* BITFIELD: the advertised set is replaced.
RecvBitfield(p, S) ==
  /\ IsAt(p, "read") /\ have[p] = {} /\ S # {}
  /\ Advertise(p, S)
  /\ UNCHANGED <<prio, active, data, requestVars, pieceVars, downloaded, sessionVars, faults>>

\* HAVE: record_peer_have ignores a piece already advertised.
RecvHave(p, i) ==
  /\ IsAt(p, "read") /\ i \notin have[p]
  /\ Advertise(p, have[p] \cup {i})
  /\ UNCHANGED <<prio, active, data, requestVars, pieceVars, downloaded, sessionVars, faults>>

RecvUnchoke(p) ==
  /\ IsAt(p, "read") /\ p \in choked
  /\ choked' = choked \ {p}
  /\ UNCHANGED <<managerVars, running, connected, owned, retryAfter, task, wire, faults>>

\* Mutant of RecvChoke: the requests are left to their timeout.
RecvChokeKeepsRequests(p) ==
  /\ IsAt(p, "read") /\ p \notin choked
  /\ Fault
  /\ choked' = choked \cup {p}
  /\ UNCHANGED <<managerVars, running, connected, owned, retryAfter, task, wire>>

\* CHOKE frees the peer's whole pipeline at once.
RecvChoke(p) ==
  /\ IsAt(p, "read") /\ p \notin choked
  /\ Fault
  /\ choked' = choked \cup {p}
  /\ Release({p}, Blocks)
  /\ ForgetOwned({p}, Blocks)
  /\ UNCHANGED <<prio, have, avail, buckets, active, data, pieceVars, downloaded,
                 running, connected, retryAfter, task, wire>>

\* Mutant of WorkerExit: the lost peer's pieces stay counted as available.
WorkerExitKeepsAvailability(p) ==
  /\ Release({p}, Blocks)
  /\ have' = [have EXCEPT ![p] = {}]
  /\ ForgetOwned({p}, Blocks)
  /\ connected' = connected \ {p}
  /\ choked' = choked \cup {p}
  /\ retryAfter' = [retryAfter EXCEPT ![p] = {}]
  /\ wire' = [wire EXCEPT ![p] = {}]
  /\ Resume(p)
  /\ UNCHANGED <<prio, avail, buckets, active, data, pieceVars, downloaded, running>>

\* The finally block of _peer_worker: unregister_peer and the session's maps.
WorkerExit(p) ==
  /\ Release({p}, Blocks)
  /\ Advertise(p, {})
  /\ ForgetOwned({p}, Blocks)
  /\ connected' = connected \ {p}
  /\ choked' = choked \cup {p}
  /\ retryAfter' = [retryAfter EXCEPT ![p] = {}]
  /\ wire' = [wire EXCEPT ![p] = {}]
  /\ Resume(p)
  /\ UNCHANGED <<prio, active, data, pieceVars, downloaded, running>>

\* The connection is lost: the reader of p sees it between two messages.
Disconnect(p) == IsAt(p, "read") /\ Fault /\ WorkerExit(p)

\* Every wanted piece is complete and handed to the disk: the loop ends.
FinishWorker(p) ==
  /\ IsAt(p, "read") /\ WantedIsFinished
  /\ WorkerExit(p)
  /\ UNCHANGED faults

-----------------------------------------------------------------------------
(* Requests: _request_one_block, _expire_peer_download_requests *)

\* The scheduler reserves a block for p, whose worker then waits for bandwidth.
Reserve(p, b) ==
  /\ IsAt(p, "read") /\ p \notin choked /\ have[p] # {} /\ ~ WantedIsFinished
  /\ Cardinality(owned[p]) < PipelineLimit
  /\ b \in NextRequests(p)
  /\ requesters' = [requesters EXCEPT ![b] = @ \cup {p}]
  /\ requestsBy' = [requestsBy EXCEPT ![p] = @ \cup {b}]
  /\ active' = active \cup {PieceOf[b]}
  /\ owned' = [owned EXCEPT ![p] = @ \cup {b}]
  /\ task' = [task EXCEPT ![p] = [at |-> "throttle", block |-> b]]
  /\ UNCHANGED <<prio, have, avail, buckets, data, sent, pieceVars, downloaded,
                 running, connected, choked, retryAfter, wire, faults>>

\* Bandwidth is granted and the piece is still wanted: the REQUEST goes out and
\* mark_request_sent starts its clock, if p is still an owner.
SendRequest(p) ==
  /\ IsAt(p, "throttle") /\ Wanted(PieceOf[task[p].block])
  /\ LET b == task[p].block IN
       /\ wire' = [wire EXCEPT ![p] = @ \cup {b}]
       /\ sent' = [sent EXCEPT ![b] = IF p \in requesters[b] THEN @ \cup {p} ELSE @]
  /\ Resume(p)
  /\ UNCHANGED <<prio, have, avail, buckets, active, data, requesters, requestsBy, pieceVars,
                 downloaded, running, connected, choked, owned, retryAfter, faults>>

\* The request is given up: its piece is no longer wanted, or (a fault) the
\* transfer was paused meanwhile, the limiter was cancelled or the write failed.
AbandonRequest(p) ==
  /\ IsAt(p, "throttle")
  /\ IF Wanted(PieceOf[task[p].block]) THEN Fault ELSE UNCHANGED faults
  /\ Release({p}, {task[p].block})
  /\ ForgetOwned({p}, {task[p].block})
  /\ Resume(p)
  /\ UNCHANGED <<prio, have, avail, buckets, active, data, pieceVars, downloaded,
                 running, connected, choked, retryAfter, wire>>

\* Mutant of Expire: the timed-out peer keeps its ownership.
ExpireKeepsOwnership(p, S) ==
  /\ IsAt(p, "read") /\ S # {} /\ \A b \in S : p \in sent[b]
  /\ IF p \in Silent THEN UNCHANGED faults ELSE Fault
  /\ task' = [task EXCEPT ![p] = [at |-> "expire", blocks |-> S]]
  /\ UNCHANGED <<managerVars, running, connected, choked, owned, retryAfter, wire>>

\* The blocks S of p have passed their response deadline.  expire_peer_requests
\* releases all of them; the session then handles them one by one.
Expire(p, S) ==
  /\ IsAt(p, "read") /\ S # {} /\ \A b \in S : p \in sent[b]
  /\ IF p \in Silent THEN UNCHANGED faults ELSE Fault
  /\ Release({p}, S)
  /\ task' = [task EXCEPT ![p] = [at |-> "expire", blocks |-> S]]
  /\ UNCHANGED <<prio, have, avail, buckets, active, data, pieceVars, downloaded,
                 running, connected, choked, owned, retryAfter, wire>>

\* One expired block leaves owned_requests, enters its cooldown and is CANCELled.
ExpireNext(p, b) ==
  /\ IsAt(p, "expire") /\ b \in task[p].blocks
  /\ ForgetOwned({p}, {b})
  /\ retryAfter' = [retryAfter EXCEPT ![p] = @ \cup {b}]
  /\ task' = [task EXCEPT ![p] = IF task[p].blocks = {b} THEN Reading
                                 ELSE [at |-> "expire", blocks |-> task[p].blocks \ {b}]]
  /\ UNCHANGED <<managerVars, running, connected, choked, wire, faults>>

\* The cooldown of a block ends.
CooldownOver(p, b) ==
  /\ IsAt(p, "read") /\ b \in retryAfter[p]
  /\ retryAfter' = [retryAfter EXCEPT ![p] = @ \ {b}]
  /\ UNCHANGED <<managerVars, running, connected, choked, owned, task, wire, faults>>
-----------------------------------------------------------------------------
(* Incoming blocks: receive_block and the PIECE branch of _peer_worker *)

Completes(b) ==
  \A c \in BlocksOf(PieceOf[b]) : c = b \/ data[c] # "none"

Verifies(b, payload) ==
  payload = "good" /\ \A c \in BlocksOf(PieceOf[b]) : c = b \/ data[c] = "good"

\* A PIECE of the wrong length, or for a block already held: p's ownership goes.
RejectBlock(p, b) ==
  /\ Release({p}, {b})
  /\ ForgetOwned({p}, {b})
  /\ Resume(p)
  /\ UNCHANGED <<buckets, active, data, pieceVars, downloaded>>

\* Mutants of StoreBlock: the other owners are not CANCELled; they keep their
\* ownership in the piece manager; the block is not counted.
StoreBlockNoCancel(p, b, payload) ==
  /\ Release(Peers, {b})
  /\ ForgetOwned({p}, {b})
  /\ data' = [data EXCEPT ![b] = payload]
  /\ downloaded' = downloaded + 1
  /\ Resume(p)
  /\ UNCHANGED <<buckets, active, pieceVars>>

StoreBlockOthersKeep(p, b, payload) ==
  /\ Release({p}, {b})
  /\ ForgetOwned({p}, {b})
  /\ data' = [data EXCEPT ![b] = payload]
  /\ downloaded' = downloaded + 1
  /\ Resume(p)
  /\ UNCHANGED <<buckets, active, pieceVars>>

StoreBlockUncounted(p, b, payload) ==
  /\ Release(Peers, {b})
  /\ ForgetOwned({p} \cup requesters[b], {b})
  /\ data' = [data EXCEPT ![b] = payload]
  /\ Resume(p)
  /\ UNCHANGED <<buckets, active, pieceVars, downloaded>>

\* The block is stored, every owner released and the other owners CANCELled.
StoreBlock(p, b, payload) ==
  /\ Release(Peers, {b})
  /\ ForgetOwned({p} \cup requesters[b], {b})
  /\ data' = [data EXCEPT ![b] = payload]
  /\ downloaded' = downloaded + 1
  /\ Resume(p)
  /\ UNCHANGED <<buckets, active, pieceVars>>

\* The block completes a piece that verifies: it is staged for the disk, and the
\* worker goes on to enqueue_completed_piece.
CompletePiece(p, b, payload) ==
  /\ Release(Peers, {b})
  /\ ForgetOwned({p} \cup requesters[b], {b})
  /\ data' = [data EXCEPT ![b] = payload]
  /\ downloaded' = downloaded + 1
  /\ complete' = complete \cup {PieceOf[b]}
  /\ persisted' = persisted \ {PieceOf[b]}
  /\ staged' = staged \cup {PieceOf[b]}
  /\ RemoveFromBuckets(PieceOf[b])
  /\ task' = [task EXCEPT ![p] = [at |-> "enqueue", piece |-> PieceOf[b]]]
  /\ UNCHANGED pinned

\* The block completes a piece that fails its hash: every block is dropped.  If
\* CANCELs had to be sent, the worker suspends before it cancels what is left of
\* the piece; otherwise nothing is left, since each of its blocks held data.
FailPiece(p, b) ==
  LET i == PieceOf[b] IN
  /\ Release(Peers, BlocksOf(i))
  /\ ForgetOwned({p} \cup requesters[b], {b})
  /\ data' = [c \in Blocks |-> IF PieceOf[c] = i THEN "none" ELSE data[c]]
  /\ LET size == Cardinality(BlocksOf(i)) IN
       downloaded' = IF downloaded + 1 > size THEN downloaded + 1 - size ELSE 0
  /\ complete' = complete \ {i}
  /\ persisted' = persisted \ {i}
  /\ task' = [task EXCEPT ![p] = IF requesters[b] \subseteq {p} THEN Reading
                                 ELSE [at |-> "hashfail", piece |-> i]]
  /\ UNCHANGED <<buckets, active, staged, pinned>>

RecvPiece(p, b, payload) ==
  /\ IsAt(p, "read") /\ b \in wire[p]
  /\ wire' = [wire EXCEPT ![p] = @ \ {b}]
  /\ IF payload = "good" THEN UNCHANGED faults ELSE Fault
  /\ \/ /\ payload = "short" \/ data[b] # "none"
        /\ RejectBlock(p, b)
     \/ /\ payload # "short" /\ data[b] = "none" /\ ~ Completes(b)
        /\ StoreBlock(p, b, payload)
     \/ /\ payload # "short" /\ data[b] = "none" /\ Completes(b)
        /\ Verifies(b, payload)
        /\ CompletePiece(p, b, payload)
     \/ /\ payload # "short" /\ data[b] = "none" /\ Completes(b)
        /\ ~ Verifies(b, payload)
        /\ FailPiece(p, b)
  /\ UNCHANGED <<prio, have, avail, running, connected, choked, retryAfter>>

\* _cancel_piece_download_requests: whoever owns a block of the failed piece
\* loses it, including requests made since the failure.
CancelPiece(p) ==
  /\ IsAt(p, "hashfail")
  /\ LET S == BlocksOf(task[p].piece)
         victims(b) == {q \in connected : b \in owned[q]}
     IN  /\ requesters' = [b \in Blocks |-> IF b \in S THEN requesters[b] \ victims(b)
                                            ELSE requesters[b]]
         /\ sent' = [b \in Blocks |-> IF b \in S THEN sent[b] \ victims(b) ELSE sent[b]]
         /\ requestsBy' = [q \in Peers |-> IF q \in connected
                             THEN requestsBy[q] \ (S \cap owned[q]) ELSE requestsBy[q]]
         /\ ForgetOwned(connected, S)
  /\ Resume(p)
  /\ UNCHANGED <<prio, have, avail, buckets, active, data, pieceVars, downloaded,
                 running, connected, choked, retryAfter, wire, faults>>

-----------------------------------------------------------------------------
(* The hand-over to the disk *)

\* Mutants of Pin: the piece stays staged after its blocks were emptied; it leaves
\* the staged set without being pinned.
PinKeepsStaged(i) ==
  /\ pinned' = pinned \cup {i}
  /\ data' = [b \in Blocks |-> IF PieceOf[b] = i THEN "none" ELSE data[b]]
  /\ requesters' = [b \in Blocks |-> IF PieceOf[b] = i THEN {} ELSE requesters[b]]
  /\ sent' = [b \in Blocks |-> IF PieceOf[b] = i THEN {} ELSE sent[b]]
  /\ UNCHANGED <<prio, have, avail, buckets, active, requestsBy, complete, persisted, staged,
                 downloaded>>

PinForgets(i) ==
  /\ staged' = staged \ {i}
  /\ data' = [b \in Blocks |-> IF PieceOf[b] = i THEN "none" ELSE data[b]]
  /\ requesters' = [b \in Blocks |-> IF PieceOf[b] = i THEN {} ELSE requesters[b]]
  /\ sent' = [b \in Blocks |-> IF PieceOf[b] = i THEN {} ELSE sent[b]]
  /\ UNCHANGED <<prio, have, avail, buckets, active, requestsBy, complete, persisted, pinned,
                 downloaded>>

\* enqueue_completed_piece once there is room: the joined payload is pinned and
\* the blocks are emptied.  Their requesters are cleared without the index.  (Its
\* opening check, that the piece is complete and not persisted, runs before the
\* wait, directly after CompletePiece has made it so.)
Pin(i) ==
  /\ pinned' = pinned \cup {i}
  /\ staged' = staged \ {i}
  /\ data' = [b \in Blocks |-> IF PieceOf[b] = i THEN "none" ELSE data[b]]
  /\ requesters' = [b \in Blocks |-> IF PieceOf[b] = i THEN {} ELSE requesters[b]]
  /\ sent' = [b \in Blocks |-> IF PieceOf[b] = i THEN {} ELSE sent[b]]
  /\ UNCHANGED <<prio, have, avail, buckets, active, requestsBy, complete, persisted, downloaded>>

Enqueue(p) ==
  /\ IsAt(p, "enqueue")
  /\ IF \A b \in BlocksOf(task[p].piece) : data[b] # "none"
     THEN Pin(task[p].piece) ELSE UNCHANGED managerVars
  /\ Resume(p)
  /\ UNCHANGED <<running, connected, choked, owned, retryAfter, wire, faults>>

\* The writer has written a pinned piece: _set_piece_persisted (ignored for a
\* piece that is no longer complete) and the pinned copy is dropped.
Persist(i) ==
  /\ i \in pinned
  /\ pinned' = pinned \ {i}
  /\ persisted' = persisted \cup ({i} \cap complete)
  /\ UNCHANGED <<prio, have, avail, buckets, active, data, requestVars, complete, staged,
                 downloaded, sessionVars, faults>>

-----------------------------------------------------------------------------
(* Commands of the user *)

\* Mutant of SetFilePriority: the buckets are not rebuilt.
SetFilePriorityStale(f, r) ==
  /\ prio[f] # r /\ Fault
  /\ prio' = [prio EXCEPT ![f] = r]
  /\ UNCHANGED <<have, avail, buckets, active, data, requestVars, pieceVars, downloaded,
                 sessionVars>>

\* set_file_priority: ranks change and every bucket is rebuilt.
SetFilePriority(f, r) ==
  /\ prio[f] # r /\ Fault
  /\ prio' = [prio EXCEPT ![f] = r]
  /\ buckets' = RebuiltBuckets(prio', complete, avail)
  /\ UNCHANGED <<have, avail, active, data, requestVars, pieceVars, downloaded, sessionVars>>

\* stop(): workers are cancelled wherever they are suspended, availability and
\* requests are reset at once; pieces staged for the disk stay staged.
Stop ==
  /\ running /\ Fault
  /\ running' = FALSE
  /\ have' = [p \in Peers |-> {}]
  /\ avail' = [i \in Pieces |-> 0]
  /\ buckets' = IF (\A p \in Peers : have[p] = {}) /\ (\A i \in Pieces : avail[i] = 0)
                THEN buckets ELSE RebuiltBuckets(prio, complete, avail')
  /\ requesters' = [b \in Blocks |-> {}]
  /\ sent' = [b \in Blocks |-> {}]
  /\ requestsBy' = [p \in Peers |-> {}]
  /\ connected' = {} /\ choked' = Peers
  /\ owned' = [p \in Peers |-> {}]
  /\ retryAfter' = [p \in Peers |-> {}]
  /\ wire' = [p \in Peers |-> {}]
  /\ task' = [p \in Peers |-> Reading]
  /\ UNCHANGED <<prio, active, data, pieceVars, downloaded>>

\* shutdown_disk_io(flush=True) enqueues what cancelled workers left staged.
FlushStaged(i) ==
  /\ ~ running /\ i \in staged
  /\ IF i \in complete \ persisted /\ \A b \in BlocksOf(i) : data[b] # "none"
     THEN Pin(i) ELSE staged' = staged \ {i} /\ UNCHANGED <<prio, have, avail, buckets, active,
            data, requestVars, complete, persisted, pinned, downloaded>>
  /\ UNCHANGED <<sessionVars, faults>>

\* start() again, once the previous run has drained its writer.
Restart ==
  /\ ~ running /\ staged = {} /\ pinned = {} /\ ~ WantedIsFinished
  /\ running' = TRUE
  /\ UNCHANGED <<managerVars, connected, choked, owned, retryAfter, task, wire, faults>>

-----------------------------------------------------------------------------
Init ==
  /\ prio \in [Files -> Ranks]                             \* set_file_priorities
  /\ have = [p \in Peers |-> {}]
  /\ avail = [i \in Pieces |-> 0]
  /\ complete \in SUBSET Pieces /\ persisted = complete   \* fast resume
  /\ buckets = RebuiltBuckets(prio, complete, avail)
  /\ active = {}
  /\ data = [b \in Blocks |-> "none"]
  /\ requesters = [b \in Blocks |-> {}] /\ sent = [b \in Blocks |-> {}]
  /\ requestsBy = [p \in Peers |-> {}]
  /\ staged = {} /\ pinned = {}
  /\ downloaded = Cardinality({b \in Blocks : PieceOf[b] \in complete})
  /\ running = TRUE
  /\ connected = {} /\ choked = Peers
  /\ owned = [p \in Peers |-> {}] /\ retryAfter = [p \in Peers |-> {}]
  /\ task = [p \in Peers |-> Reading]
  /\ wire = [p \in Peers |-> {}]
  /\ faults = 0

PeerNext(p) ==
  \/ Connect(p)
  \/ \E S \in SUBSET Pieces : RecvBitfield(p, S)
  \/ \E i \in Pieces : RecvHave(p, i)
  \/ RecvUnchoke(p) \/ RecvChoke(p)
  \/ Disconnect(p) \/ FinishWorker(p)
  \/ \E b \in Blocks : Reserve(p, b) \/ ExpireNext(p, b) \/ CooldownOver(p, b)
  \/ SendRequest(p) \/ AbandonRequest(p)
  \/ \E S \in SUBSET Blocks : Expire(p, S)
  \/ \E b \in Blocks, payload \in Payloads : RecvPiece(p, b, payload)
  \/ CancelPiece(p) \/ Enqueue(p)

Next ==
  \/ \E p \in Peers : PeerNext(p)
  \/ \E i \in Pieces : Persist(i) \/ FlushStaged(i)
  \/ \E f \in Files, r \in Ranks : SetFilePriority(f, r)
  \/ Stop \/ Restart

Spec == Init /\ [][Next]_vars

\* asyncio runs every ready task and every timer fires, so each suspended step of
\* a worker and of the disk writer is eventually taken.  Peers outside Silent are
\* assumed to connect, to advertise the whole torrent, to unchoke us and to answer.
Fairness ==
  /\ \A p \in Peers :
       /\ WF_vars(SendRequest(p) \/ AbandonRequest(p))
       /\ WF_vars(\E b \in Blocks : ExpireNext(p, b))
       /\ \A b \in Blocks : WF_vars(CooldownOver(p, b))
       /\ WF_vars(CancelPiece(p)) /\ WF_vars(Enqueue(p))
  /\ \A p \in Silent : WF_vars(Expire(p, {b \in Blocks : p \in sent[b]}))
  /\ \A p \in Peers \ Silent :
       /\ WF_vars(Connect(p)) /\ WF_vars(RecvUnchoke(p))
       /\ SF_vars(\E b \in Blocks : Reserve(p, b))
       /\ \A i \in Pieces : WF_vars(RecvHave(p, i))
       /\ \A b \in Blocks : WF_vars(RecvPiece(p, b, "good"))
  /\ \A i \in Pieces : WF_vars(Persist(i)) /\ WF_vars(FlushStaged(i))
  /\ WF_vars(Restart)

FairSpec == Spec /\ Fairness
-----------------------------------------------------------------------------
(* Properties *)

TaskType ==
  {Reading} \cup [at : {"throttle"}, block : Blocks]
            \cup [at : {"expire"}, blocks : SUBSET Blocks]
            \cup [at : {"hashfail", "enqueue"}, piece : Pieces]

\* Every variable keeps its type: the state PieceManager.__init__ sets up.
TypeOK ==
  /\ prio \in [Files -> Ranks]
  /\ have \in [Peers -> SUBSET Pieces]
  /\ avail \in [Pieces -> Nat]
  /\ buckets \subseteq (1..3) \X Nat \X Pieces
  /\ active \subseteq Pieces
  /\ data \in [Blocks -> {"none", "good", "bad"}]
  /\ requesters \in [Blocks -> SUBSET Peers]
  /\ sent \in [Blocks -> SUBSET Peers]
  /\ requestsBy \in [Peers -> SUBSET Blocks]
  /\ complete \subseteq Pieces /\ persisted \subseteq Pieces
  /\ staged \subseteq Pieces /\ pinned \subseteq Pieces
  /\ downloaded \in Nat
  /\ running \in BOOLEAN
  /\ connected \subseteq Peers /\ choked \subseteq Peers
  /\ owned \in [Peers -> SUBSET Blocks]
  /\ retryAfter \in [Peers -> SUBSET Blocks]
  /\ task \in [Peers -> TaskType]
  /\ wire \in [Peers -> SUBSET Blocks]
  /\ faults \in 0..MaxFaults

\* The requesters of a block and the per-peer reverse index of the piece manager
\* say the same, although several paths clear one without touching the other.
OwnershipMirror ==
  /\ \A p \in Peers, b \in Blocks : p \in requesters[b] <=> b \in requestsBy[p]
  /\ \A b \in Blocks : sent[b] \subseteq requesters[b]

\* The blocks an expiry has released but the session has not yet processed.
Expiring(p) == IF task[p].at = "expire" THEN task[p].blocks ELSE {}

\* The session's own list of a worker's requests, which bounds its pipeline, is
\* what the piece manager thinks the peer owns, plus at most what is just being
\* expired: no pipeline slot leaks, and the limit overlooks no request.
OwnedMirror ==
  \A p \in Peers : /\ requestsBy[p] \subseteq owned[p]
                   /\ owned[p] \subseteq requestsBy[p] \cup Expiring(p)

\* Nobody owns a request for a block already held or of a verified piece.
HeldUnrequested ==
  \A b \in Blocks : data[b] # "none" \/ PieceOf[b] \in complete => requesters[b] = {}

\* A peer that chokes us, or has gone, owns no request: its blocks can go to others.
ChokedOwnsNothing == \A p \in choked : requestsBy[p] = {}

\* Who is asked for what is the same wherever it is recorded (the blocks, the
\* per-peer index and the session's lists), and nobody is asked in vain.
OwnershipExact == OwnershipMirror /\ OwnedMirror /\ ChokedOwnsNothing /\ HeldUnrequested

\* The incrementally kept availability is the number of peers with the piece.
AvailabilityExact ==
  \A i \in Pieces : avail[i] = Cardinality({p \in Peers : i \in have[p]})

\* Every bucket entry is a wanted incomplete piece under its current rank and
\* availability, so the scheduler never offers a piece from a stale bucket.
BucketsSound ==
  \A t \in buckets : t[3] \notin complete /\ t = CurrentBucket(t[3]) /\ t[1] > 0

\* The scheduler's caches agree with what the peers have and the user wants,
\* after any order of bitfields, haves, departures, completions and priorities.
RarityExact == AvailabilityExact /\ BucketsSound

\* A piece waiting for the disk still has every verified block in memory, whoever
\* was cancelled meanwhile, and a worker that waits to enqueue a piece finds it
\* staged: the writer is never handed a hole or a bad block, and the "no longer has
\* its complete in-memory payload" error of enqueue_completed_piece never occurs.
StagedHasPayload ==
  /\ \A i \in staged : i \in complete /\ \A b \in BlocksOf(i) : data[b] = "good"
  /\ \A p \in Peers : task[p].at = "enqueue" => task[p].piece \in staged

\* A verified piece is on disk, buffered for the writer, or staged for it.
VerifiedIsSafe == complete \subseteq persisted \cup staged \cup pinned

Held == {b \in Blocks : PieceOf[b] \in complete \/ data[b] # "none"}

\* Progress is never under-reported: what is held has been counted.
HeldIsCounted == downloaded >= Cardinality(Held)

\* What has been downloaded stays: counted, and once verified in memory or on disk.
PiecesKept == StagedHasPayload /\ VerifiedIsSafe /\ HeldIsCounted

\* A late PIECE "must not be counted or written twice": the downloaded count is
\* exactly what is held (comment in receive_block).
CountedOnce == downloaded = Cardinality(Held)

\* With one peer that keeps answering, every wanted piece is finally verified and
\* handed to the disk, whatever silent peers hold: their requests expire, and the
\* scheduler gives the blocks to somebody else.
WantedEventuallyFinished == <>[]WantedIsFinished

\* Blocks p could be asked for and nobody has been, told from the truth rather
\* than from the scheduler's caches.
Available(p) ==
  {b \in Blocks : /\ PieceOf[b] \in have[p] \ complete
                  /\ Wanted(PieceOf[b])
                  /\ data[b] = "none" /\ requesters[b] = {}
                  /\ b \notin retryAfter[p]}

Rarity(i) == Cardinality({q \in Peers : i \in have[q]})

\* Whenever p becomes the first owner of a block, no available block belongs to a
\* more wanted piece, or to an equally wanted one that fewer peers have.
RarestFirst ==
  [][\A p \in Peers, b \in Blocks :
       p \in requesters'[b] /\ requesters[b] = {} =>
         \A c \in Available(p) :
           LET r == PieceRank(prio, PieceOf[b])
               s == PieceRank(prio, PieceOf[c])
           IN  \/ s < r
               \/ s = r /\ Rarity(PieceOf[b]) <= Rarity(PieceOf[c])]_vars

\* A block gains a second owner only in the endgame, once p could get no block
\* that nobody has, and never more owners than allowed.
EndgameDiscipline ==
  [][\A p \in Peers, b \in Blocks :
       p \in requesters'[b] \ requesters[b] /\ requesters[b] # {} =>
         /\ EndgameActive /\ Available(p) = {}
         /\ Cardinality(requesters'[b]) <= MaxRequesters]_vars
=============================================================================
