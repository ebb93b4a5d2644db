# SalixTorrent: specifications, model checking and proofs

SalixTorrent is a BitTorrent client: an asyncio engine on a thread of its own
(`app/logic`), a Dear PyGui desktop or a command line in front of it, and JSON or
SQLite files behind it. This directory holds TLA+ specifications of its engine,
the TLC configurations that check them and TLAPS proofs of the most important
results. Everything is translated from the code; line numbers of every definition
are in `PROJECT.json` under `map`.

## 1. The system

| Component | State | Operations | What is hard | What makes it correct |
|---|---|---|---|---|
| `PieceManager`, scheduling (`piece_manager.py`, peer workers of `session.py`) | pieces and blocks, owners of requests and their reverse index, availability counts, rarity buckets, file priorities | choose and reserve a block, release, expire, receive, verify, deselect | many peer coroutines suspended between reserving, throttling, sending and receiving; late, duplicated and bad blocks | owners and index agree; no block is asked for that is there; nothing verified is lost; every wanted piece is fetched |
| `PieceManager`, disk pipeline | verified pieces not yet queued, pinned payloads, bounded queue, writer task, persisted bitfield, resume record | enqueue, write, save, flush, shut down, prepare | back-pressure, failing writes, a shutdown beside the next start, death of the process | the record claims only what is on disk; nobody waits for ever; completion means stored |
| `PieceManager`, storage | file layout, preallocation, hashing of what is there | map a piece to byte ranges, prepare, invalidate | boundaries of files, cancelled checks | ranges partition the torrent |
| `TorrentManager` | sessions, intents, explicit requests, queue order, command queue | commands, rebalancing of slots, removal, recheck, restore, shutdown | commands from any thread, tasks created and not yet begun, sessions that change by themselves | slots go to the right torrent, Stop and Resume prevail |
| `TorrentSession` | lifecycle state, run token, pause event, peers, workers, seed servers, speeds | start, pause, resume, stop, recheck, preferences | superseded runs, cancellations at any await | the shown state is true; an old run does not disturb a new one |
| Uploads and limiters (`session.py`) | per-peer active set and bounded queue, next slot of a rate | request, cancel, serve, throttle, change rate | a cancel and a new request during a read, a rate change during a sleep | only verified, wanted, uncancelled blocks are served |
| Peer wire, MSE (`peer.py`, `mse.py`) | stream position, handshake, ciphers | connect, handshake, read and write messages | a read cancelled by a timeout, fallback to plain text | messages stay in step |
| Trackers, scrape (`tracker.py`, `tracker_scrape.py`) | tiers, last good URL, pending refresh | announce, failover, scrape | slow and failing trackers, coalesced requests | started/completed/stopped are sent once |
| DHT, LPD (`dht.py`, `local_peer_discovery.py`) | routing table, transactions, tokens | lookup, announce, answer | lost, late and forged datagrams | answers are matched to queries |
| Connectivity (`connectivity.py`, `network_binding.py`) | mapped ports, leases, bound interface | map, renew, release, bind | a thread beside the engine | no mapping outlives its listener |
| Magnets (`magnet.py`) | metadata pieces, fetchers | fetch, verify, cancel | several peers, bad pieces | only metadata with the right hash is used |
| Seeding policy, v2 Merkle trees, bencode, torrent files | none | pure functions | boundaries | equal their definitions |
| Session and settings stores (`app/persistence`) | files, database, backup store | load, save, fall back | racing snapshots, crash while saving | the last state is what is loaded |
| Peer exchange (`session.py`) | endpoints heard per generation | hear, export | two swarms in one session, private torrents | each swarm is told its own peers |
| Transfer table (`download_view.py`) | rows, tombstones, selection, pending events | drain, remove, reorder, set a goal | snapshots of a torrent that is gone, commands made from stale rows | once nothing is on its way, the table is true |
| Window, tray and shell (`app/engine`) | window, icon threads, actions, registry values | hide, restore, exit, register, give back | a tray thread that begins late or ends early, other programs in the registry | nobody is left without window and icon; what was replaced is put back |
| CLI, widgets, localization, tools | presentation | | | not a matter for these models |

How they interact. The views and the command line call `TorrentManager` from their
threads; it records an intent under a lock and posts a command with
`call_soon_threadsafe`. The engine coroutine handles commands in order and
rebalances after each, and twice a second without one. It creates `start()` tasks;
each session then runs its own coroutines: the download or seeding loop, one worker
per peer, a telemetry loop. Workers call `PieceManager` synchronously, so each call
is one atomic step of the event loop, and suspend at every `await`: that is where
the models interleave. Preparing, hashing, writing and saving run in threads. A
verified piece is handed to the disk writer through a bounded buffer; the session
announces completion after flushing it. A session reports a reached seeding goal
back to the manager as a command. The port mapper has a worker thread and a timer
of its own, torrents are created in a thread, and every tray icon runs on one; they meet the
rest at a lock or a queue. The manager's events reach the views through a queue that
each frame drains.

## 2. Modules

| Module | Models | Checked by, proved in |
|---|---|---|
| `PieceScheduler` | request scheduling, peers and piece states | `MCPieceScheduler`, `PieceSchedulerProofs` |
| `DurableStore` | what the disk pipeline promises: verified, stored and recorded pieces | `DiskPipeline` (refinement) |
| `DiskPipeline` | write-behind buffer, writer, shutdown, resume record, crash | `MCDiskPipeline`, `DiskPipelineProofs` |
| `TransferQueue` | commands, slots and session lifecycle | `MCTransferQueue`, `TransferQueueProofs` |
| `PeerHandshake` | encrypted and plain handshake of two clients | part of `PeerLink` |
| `PeerWire` | framing, message loops, upload queue and its worker | part of `PeerLink` |
| `RateLimiter` | `AsyncBandwidthLimiter` | part of `PeerLink` |
| `PeerLink` | the three of them side by side | `MCPeerLink`, `PeerLinkProofs` |
| `SwarmSession` | listener, discovery, workers and inbound clients over several runs | `MCServices`, `NetworkProofs` |
| `PortMapper` | `ConnectivityManager` and its worker thread | `MCServices`, `NetworkProofs` |
| `SessionStore`, `StateDatabase` | session records: JSON, database, fallback, savers | part of `Records` |
| `Comprehension` | the comprehension that orders are rebuilt with | used by `SessionStore`, `TransferView` |
| `SettingsStore` | preferences in either backend | part of `Records` |
| `TorrentCreation` | `TorrentCreator.create` beside a working user | part of `Records` |
| `Records` | the three of them side by side | `MCServices`, `RecordProofs` |
| `TrackerAnnounce` | announces of a run over the tracker list | part of `PeerSources` |
| `ScrapeCoordinator` | coalesced scrapes, batches, timer | part of `PeerSources` |
| `DhtLookup` | one lookup with its announces, and the small server | part of `PeerSources` |
| `LocalDiscovery` | LPD on a LAN | part of `PeerSources` |
| `MagnetResolver` | metadata resolution and the commands around it | part of `PeerSources` |
| `PeerExchange` | PEX: what is heard, remembered and exported | part of `PeerSources` |
| `PeerSources` | the six of them side by side | `MCServices`, `NetworkProofs` |
| `TorrentLayout` | layouts, piece ranges, Merkle trees (recursive functions) | used by the next two, `ContentProofs` |
| `ContentStore` | files on disk, initial check, writes and reads | `MCServices`, `ContentProofs` |
| `ContentTelemetry` | file and piece progress told to the views | `MCServices` |
| `TransferView` | transfer table over the manager | part of `Screen` |
| `DesktopShell` | window, tray icons and the GUI loop | part of `Screen` |
| `ShellRegistration` | magnet and .torrent handler in the registry | part of `Screen` |
| `Screen` | the three of them side by side | `MCServices`, `ServiceProofs` |

The MC modules give constants their values for TLC. `PeerLink`, `Records`, `PeerSources` and `Screen` hold
together modules that share no state, so that what a run checks of them is one property and one
theorem; their specification is the conjunction of the specifications. For TLC, `PeerLink` and `MCServices`
let a behaviour belong to the module that the variable `layer` or `part` names, while the others keep their
first state: they are one run each because they ask the same kind of question, not because their
parts interact, and interleaving steps that share nothing would only multiply states. The part that is looked
at behaves as its own specification says, to which the theorems apply without this restriction. A
definition whose comment begins with "Mutant" is a plausible bug, and `PROJECT.json` names the run
and the property that refute it; where a property has parts there are mutants of several.

### PieceScheduler

One step is what a coroutine does between two suspensions. `Reserve` is
`_request_one_block` up to the rate limiter (`get_next_request` and its three
selection loops: unrequested blocks by priority, rarity and position, then endgame
duplicates); `SendRequest` and `AbandonRequest` are what it does after the limiter.
`RecvPiece` is `receive_block` with its four outcomes and the worker's reaction:
CANCELs to the other requesters, `Enqueue` for a verified piece, release of requests
after a bad one. `RecvChoke`, `Disconnect`, `ExpireNext`, `CooldownOver` are the other
branches of `_peer_worker`; `SetFilePriority`, `Stop`, `FlushStaged` and `Restart` are the user's
and the session's. `requesters[b]` is the owner map of block b, `requestsBy` its
reverse index in `PieceManager`, `owned` the worker's own `owned_requests`; that the
three agree at every suspension point is what most of the invariants say. Payloads
are "good", "bad" or "short"; a piece verifies if all its blocks are good.
`OwnershipExact` collects what the three say of each other, `RarityExact` ties counts
and buckets to the peers there are, `PiecesKept` follows a verified piece to the writer.

Abstracted: byte offsets, the rate (its suspension is kept), message formats, v1
against v2 hashing, and the order among equal candidates (the code picks at random).

### DiskPipeline and DurableStore

`DiskPipeline` has the session's run (`phase`), the peer workers' enqueue, the writer
task and the shutdown in `start()`'s `finally`. `Verified` is the end of
`receive_block`; `EnqueueOrSleep` is `enqueue_completed_piece` up to its sleep on the
condition, its guard standing for the early returns; `TakeItem`, `WritePayload`,
`MarkPersisted` and `SaveResume` split the writer at its thread hand-overs;
`WriteFails` is `_invalidate_pending_disk_writes`. `ShutdownEnqueue`,
`ShutdownJoin`, `ShutdownSentinel` and `ShutdownDone` are the stages of
`shutdown_disk_io`. With `Overlap` a run may start once its predecessor is inside
the shutdown, as the engine allows. `Crash` is the death of the process: files keep
what was written, memory goes. `Relaunch` loads the resume record.

Abstracted: bytes (a piece has a size), the layout over files, the comparison of file
times (the flag `dirty`), the throttling of saves (a save may happen or not), the
loss of the operating system's cache.

`DurableStore` has three sets, verified, stored and recorded, and says what may
happen to them: only verified pieces are stored, only stored ones recorded, a
disk failure forgets only pieces that are not recorded, and after a crash the torrent
continues from its record. `DiskPipeline` implements it (`StoreSpec`), by TLC on an
instance and by proof for all.

### TransferQueue

Users' calls set the intent and post a command. The engine takes a batch of
commands: with Python 3.13 `wait_for(queue.get())` does not suspend when the queue
holds something, so a batch is handled without another coroutine in between, and
`start()` tasks it creates (`spawned`) begin after it. `Rebalance` is
`_rebalance_queue`, with its passes over finished, active and candidate torrents
and `mark_queued`. `FinishRemoval` ends the suspension of `REMOVE`. A run goes
through preparing, notice, downloading, flushing, seeding and closing; every
action names the point of `start()` where it suspends. `pause()` clears an event that
the loops look at only at certain points, so a paused run may still reach the
end of its phase: those actions are not guarded by the pause, only their fairness
is. `_run_force_recheck` is a small process of its own.

Abstracted: peers and disk (see the other modules), priority Low, the slot count is
fixed, limits and preferences. Magnets, SHUTDOWN and adding a torrent are in
`MagnetResolver` and `SessionStore`.

### PeerHandshake, PeerWire, RateLimiter

`PeerHandshake` has both ends of a connection as processes over two TCP connections, the
encrypted attempt and the plaintext one: `PeerConnection.connect` with
`mse_initiator_handshake` against the inbound handler with `mse_responder_handshake`. Each
wait may run into its timeout. A party decodes the message at the head of its stream;
keys and RC4 are symbols. `HandshakeSound` says that the ends agree on method and
generation within both policies, and that fitting ends are not kept apart.

`PeerWire` splits a frame into its length and its body, since `wait_for` may cancel
`read_message` between them; `cut` marks that case. `reader` is the loop that reads,
`queue`, `active` and `worker` are the upload queue of the peer, `fate[k]` is the history of the
request for block k. The reader and the upload worker interleave at every read, limiter
and write. `StreamInStep` holds unless `cut`; that a cut puts a stream out of step is what the
code does, and is recorded as a hazard.

`RateLimiter` books a slot per transfer; sleepers look at the version every tick. `released`
and `freeAt` are history: the blocks let through under this rate, and when the next is due.

### SwarmSession, PortMapper, PeerExchange

`SwarmSession` gives every run of `start()` a control of its own over what runs share: listener,
LPD, DHT, workers with the endpoints they claim, the inbound client. `stop()` returns at
once; the `finally` of an old run may follow the next run's start (`overlapped`). `loose`
says that something was left open that no code refers to, by a cleanup that was cut short or raced
with new preferences or a new listener: a second Stop during a `finally` abandons it. `SessionSound` and `QuietAfterStop` are stated outside these.

`PortMapper` splits the worker at the lock: choose under it, talk to the router without it,
store under it. `router` is what the router has, `known` what the manager thinks it has, `lost`
mappings whose answer was lost. `PeerExchange` is the memory of endpoints per generation and
the two ways it is exported, with private torrents and a size limit.

### SessionStore, StateDatabase, SettingsStore

A saver takes its snapshot and writes it in two steps, as the threads do. `launch` is the process:
down, up or shutting down; a crash leaves the stored value. `StateDatabase` says what a load
makes of a database (empty, of another revision, malformed); the JSON file has the same cases.
`storeHealthy` is `_session_store_healthy`: nothing is saved over what could not be read.
`SettingsStore` is the same for preferences, where loading also normalises.

### TrackerAnnounce, ScrapeCoordinator, DhtLookup, LocalDiscovery, MagnetResolver

One step is what happens between two awaits; a peer, node or tracker may answer well, badly, late
or never. `TrackerAnnounce` follows the announces of a run through list and addresses, and keeps
what was answered in `answers` to compare with what is shown. `ScrapeCoordinator` has the timer
and the flag `again` that coalesces requests; `owed` is a request no refresh has yet looked at.
`DhtLookup` numbers nodes by distance and bounds queries as the code does (batches, early end
with enough peers). `LocalDiscovery` has datagrams that are lost, doubled and looped back.
`MagnetResolver` joins the commands of the manager, the task, and the fetcher's alternation of
discovery and batches; `interrupts` are cancellations that have not taken effect yet.

### TorrentLayout, ContentStore, ContentTelemetry, TorrentCreation

`TorrentLayout` writes out what the creator makes of file lengths and what the parser reads back,
and the trees of BEP 52 against their definition; hashes are injective, so a hash is the
thing hashed. `ContentStore` writes pieces file by file in any order, breaks off, loses and cuts files,
and checks them again on the next run: complete pieces are on disk and are served as they
were hashed, in all three generations. `ContentTelemetry` has no state of its own. In
`TorrentCreation` a file is a version that every edit changes: what is published was read in
one version, the one that was scanned.

### TransferView, DesktopShell, ShellRegistration

`TransferView` composes a small manager (sessions, command queue, events) with the table;
`Settled` is the state in which nothing is on its way, where `ViewSound` compares the two. `DesktopShell` has
the control of the GUI loop (`ui`), the icon threads and the queue of actions; it holds on every
platform the code tells apart. `ShellRegistration` writes each registry value by itself; any of them
may be refused, and other programs take the scheme between our calls.

## 3. Runs

| Run | Instance | Shows |
|---|---|---|
| `scheduler_safety` | 2 peers, 3 blocks of 2 pieces, 1 file, 2 faults, good, bad and short payloads | ownership, rarity and what is kept agree at every suspension |
| `scheduler_liveness` | 2 peers, one silent; 2 blocks; two priorities; good and short payloads | every wanted piece is finished; rarest first; endgame discipline |
| `disk_pipeline` | 3 pieces of 1, 2, 2 bytes, buffer of 3; 1 failure, 2 stops, 2 crashes | the record is sound, bytes are accounted, nothing verified is lost, nobody waits for ever, `DurableStore` is implemented |
| `transfer_queue` | 2 torrents, 1 slot, batches of 2, 2 commands, 1 failure | slots are given in order and not left free, Stop prevails, the shown state is true |
| `peer_link` | 2 timeouts; 2 blocks, queue of 1, 3 frames, 2 pauses; 2 transfers, 3 rates, 2 changes | handshakes agree, streams stay in step, only wanted blocks are sent and requests answered, the rate is kept |
| `services` | the 15 parts below | each service is sound, stops when told and finishes what it was asked |
| `late_piece_counted` | violation | a late PIECE is counted twice |
| `disk_failure_announced` | violation | completion announced after pieces were dropped |
| `disk_overlap_loses` | violation | a new run loses a piece to the old run's shutdown |
| `paused_seed_stuck` | violation | Resume of a paused, complete torrent does nothing |
| `slots_exceeded` | violation | a forgotten pause exceeds the slot limit |
| `v2_file_progress` | violation | a verified file of a v2 torrent is shown as partial |

Parts of `services`, with their bounds:

| Part | Instance | Properties it adds to |
|---|---|---|
| session | 1 endpoint, 1 outgoing peer, 2 runs, 2 events | `NetworkSound`, `QuietAfterStop` |
| mapper | 2 ports, one configured; three methods; 2 calls | `NetworkSound`, `ReleasedIsUnmapped` |
| exchange | 2 contacts, both generations, messages of 1, 4 operations | `SourcesSound` |
| store, settings | 2 torrents, both backends, 2 operations each | `RecordsSound`, `RecordsKept` |
| announce | a list of an unknown, a UDP and an HTTP tracker, 2 announces | `SourcesSound` |
| scrape | 2 swarms, batches of 1, 3 requests | `SourcesSound`, `AskedIsDone` |
| dht | 3 nodes, 2 in a batch, 2 queries, 2 lookups | `SourcesSound`, `AskedIsDone` |
| lan | 2 hosts at one or two addresses, 2 ports, 2 announcements | `NoEcho`, `SourcesSound` |
| magnet | 2 sources, 1 at a time, 2 metadata pieces, 4 commands | `SourcesSound`, `AskedIsDone` |
| content | 8 layouts in three generations, pieces of 2 blocks, 2 breaks | `ContentSound`, `TelemetrySound` |
| creation | 2 names, folder or file, 2 edits | `RecordsSound` |
| view | 2 torrents, back-pressure at 2, 2 acts | `ScreenSound` |
| shell | 3 platforms, 2 icons, 2 actions | `ScreenSound`, `AskedIsDone` |
| registry | 2 other programs, 4 operations | `ScreenSound` |

A merged property is the conjunction of those of its parts; each conjunct has its own name and
comment in its module. A part that is not looked at is in its first state.

Bounds. Two peers are enough for a choice, a duplicate and a race; a second block
in one piece gives a partly received piece, a second piece gives order and rarity.
The buffer of 3 holds two pieces but not all three, so producers sleep; two crashes
allow one during the recovery from another. One slot for two torrents makes one
wait; a second command arrives during the work of the first. In `transfer_queue` the
user's commands are for the torrent that waits at first (`Touched`), which keeps
the temporal properties within minutes. An upload queue of one is full with the second request; three frames
let a block be requested, cancelled and requested again. Two runs of a session overlap;
two operations on a store put one in the middle of another. The layouts have empty files first,
last and in between, pieces of three files, pieces that end with a file and short last pieces: the
boundaries where v1, v2 and hybrid differ. Every bound is a constant with its comment in the
module.

`scheduler_liveness` leaves out bad payloads: once a late block can reset a verified piece
(below), that piece is in no rarity bucket, and neither `RarestFirst` nor
`WantedEventuallyFinished` holds. `scheduler_safety` and the other proofs about the scheduler have them.

Deadlock is not checked where the system may stop: a finished download with no user
and no peer left has nothing to do, nor has a closed service. In `TransferQueue` the engine's timer
always runs, so deadlock is checked.

Fairness. asyncio runs every ready task; timers fire; a thread given work returns
or raises. Weak fairness is put on exactly those steps, per peer or per torrent. Peers
owe nothing except in `scheduler_liveness`, where one answers and one is silent for
ever. Users, failures and crashes never owe a step, and a paused run may stand still. In
`MCServices` the fairness of a part is that of its steps while the part is looked at. Strong
fairness is needed once, for the GUI loop's consumption of actions: it polls the queue between other
work, so it is not continuously enabled but comes round in every frame. Properties of the form
`[]<>(not asked or done)` say that no request stays open for ever; they are leads-to for requests
that are not withdrawn.

### Disagreements found

`PROJECT.json` lists them under `findings`, each with the text it contradicts.

* A block is recognised as a late duplicate by its bytes being present, but they are
  removed when the piece goes to the disk. A late block is then stored again; if it is bad,
  the verified piece is reset, and not put back into a rarity bucket until something else
  rebuilds it.
* After a write failure, the shutdown drops pieces that are verified and not queued
  without marking them missing; the next run takes the torrent for complete.
* Two overlapping runs share one disk pipeline. Without overlap no piece is lost, which is
  proved.
* A complete torrent that is paused is in none of the cases of the rebalancing.
* The state and the pause event are set at each phase's start whatever they are, so a pause
  may be forgotten.
* File progress maps bytes to pieces as if pieces ran through file boundaries, which
  v2 pieces do not.

### Behaviour of the code that the properties are stated around

* A read cancelled between length and body leaves the stream out of step (`cut` in `PeerWire`).
* A second Stop during the `finally` of `start()` abandons it, and preferences changed meanwhile
  reopen what it closed (`loose` in `SwarmSession`).
* A session whose port has changed may find itself by an older announcement (`moved`), and a LAN
  peer with the same port as ours is ignored.
* A removed torrent whose run starts again during its removal survives (`survivors`), without a goal
  shown.
* Seeding a torrent again from the creation scene does not lift the tombstone of an earlier removal: it
  runs without a row.
* A tray icon that dies while the window is hidden leaves it hidden; a slow one may get a second
  beside it.
* A stale backup is restored when another program took the magnet scheme and left again.
* Lost answers leave router mappings the manager does not know (`lost`), until their lease ends.
* A cancellation of a magnet right behind its addition may end the task before its first
  step; a second one may cut short the closing of its sockets (`cutShort`).
* A failed or late save lets a removed torrent return at the next launch (`stored`).

## 4. Proofs

All theorems hold for every value of the constants that satisfies the module's named assumption:
sets of peers, pieces, hosts, nodes or programs of any size, any list of trackers, any limits and bounds.
Assumptions say that bounds and sizes are natural numbers, that limits the code divides or batches by are not
zero, and that sentinels are not members of the sets they are told apart from. The scheduler, the queue, the
session, magnets, LPD and PEX need finite sets as well, and the records a torrent there may be (`Entries # {}`).
The timeouts, methods and kinds of message that the code enumerates, the two addresses of `LocalDiscovery` and the
stored values of `SettingsStore` are fixed in these modules.

`DiskPipelineProofs`:

* `TypeCorrect`, `RecordIsSound`, `PipelineImplementsStore`, `ReservationsAreExact`, also
  when runs overlap;
* `NoVerifiedPieceLost`, `CompletionIsDurable`, if they do not (`Overlap = FALSE`).
  `disk_overlap_loses` shows that the assumption is needed.

`ResumeSound` is not inductive: a step of the writer marks a piece as persisted
because it has just written it, which depends on where the writer is. `IndInv` adds
`RecordInv` (persisted pieces are stored, the record is below both) and `WriterInv` (what
the writer holds is verified and, after the write, stored). For `VerifiedIsHeld`, `HeldInv` adds what a shutdown
may rely on, that nothing is enqueued behind its sentinel, and that every pinned
payload belongs to the queue or the writer. `StagedInv` says that a download that has ended has
no piece waiting to be handed over. The refinement maps each action to a step
of the store or to a stutter, under `IndInv`.

`PendingExact` sums over a set, in which a piece that was queued twice counts once: the invariant `ExactInv` therefore says
that no piece is at two places. `OnceQueued` is about the queue and the writer; `HandedOverOnce` about who may still
put a piece there, its worker or the shutdown, which is not obvious when a failed write makes a piece missing again
and an overlapping run verifies it anew while the old shutdown still has it on its list (the error keeps both from putting it).
The sum itself is a fold of the community modules over an order nobody knows. `AdditiveExists` shows, by induction over sets of
pieces, that there is a sum in which any piece may be taken first, and `TotalIsSum` that the fold is that sum;
`TotalOfMore` is what the steps use.

`PieceSchedulerProofs`: `SchedulerTypesHold`, `OwnershipIsExact`, `RarityIsExact`, `PiecesAreKept`,
with bad and late payloads. `SchedulerInv` states agreement peer by peer and block by
block (`Agrees`), so that a step of one peer disturbs one instance; it adds that what an expiry has
released is not requested again before the worker has processed it, which is what lets the worker drop it
from its own list, and that one worker at a time hands a piece over and a stopped session has none. Rarity is
exact because buckets are moved by the same step that changes availability, rank or completeness.

`RarestIsFirst` and `EndgameIsDisciplined` are action properties of `NextRequest`, stated for payloads among which there is
no bad one: a late bad block may reset a verified piece (see the disagreements), and such a piece is in no bucket. For the rest
`FiledInv` says the converse of `RarityExact`: every wanted incomplete piece that somebody has is in its bucket
(`BucketsFull`). `FirstBucket` shows that the walk over the buckets has a first entry, by the smallest elements of sets
of ranks and counts, and `NothingIsMissed` that the walk ends empty-handed only if no bucket has anything for that peer.

`TransferQueueProofs`: `QueueTypesHold`, `WorkIsShownTruly`, `StopPrevails`, `SlotsGoInOrder`. Neither state property is inductive.
`Healthy` adds to the shown state that a run at work belongs to a live session and a live session has a run, so that
each way a session is stopped, failed or continued can be looked at by itself. `StopAhead` adds to `StopWins` where
the stop command is: a `start()` that is created and not begun can only be overtaken by a stop command beyond
the batch the engine is in, because the intent is recorded before the command is posted and `start()` tasks are created for
active intents only. It is stated for torrents whose seeding goal is not met; `GoalsMet` says that
only satisfied goals are reported, which is why a goal's stop falls under that exception.
`SlotsGoInOrder` is about a step, in which many torrents may start: the set of torrents ahead of one only shrinks
along the order (`AheadGrows`), so that whoever starts with a free slot left lets all before it start (`RebalanceInOrder`). The
property looks at torrents as they are after the step, because a torrent that is removed waits no more, and leaves
out complete ones, which seed outside the slots: with three torrents a recheck of one may end complete in the step that starts another.

`PeerLinkProofs` (`LinkTypesHold` for the three modules as TLC checks them):

* `HandshakesAreSound`. `HandshakeInv` types each stage of both ends and says what a party has learned when it is
  there: the method agreed with what was offered, the generation with what was sent, and `Reasons`, why an attempt that
  failed had to fail. `OneMessage` is the lemma all its steps need: a stream of the handshake holds one message at most.
* `StreamsStayInStep`, `ActiveKeysAreQueued`, `OnlyWantedBlocksAreSent`. `Aligned` follows the two halves of a frame through
  the stream: whoever waits for a body has that body next. `Uploads` says that active keys are those in the queue and in the
  worker's hand, no key twice. `OnlyWantedSent` is an action property: what leaves the worker is wanted when it leaves.
* `RateIsKept`. `RateInv` says that bookings of the present version lie a block apart and before `nextSlot`, and that a
  sleeper wakes no sooner than its booking.

`NetworkProofs`:

* `SessionIsSound`. `SwarmInv` relates runs and what is shared. `RunsInTurn`: the current token is that of the latest run,
  which has not reached its `finally`. While no run began over what an earlier one left (`InOrder`) it adds that only
  the latest run has anything (`LastRunOnly`), that its workers differ, hold their claims and are awaited (`OwnWorkers`), and that its
  loop has its services unless preferences are being applied (`ServicesUp`). `SessionSound` does not mention claims, which are what
  keeps two workers from one endpoint: it is not inductive without them. That downloads fit into `max_peers` is counted by an
  injection from workers to claimed endpoints.
* `MapperIsSound`. `ClosedIsEmpty` and `ShownWhileHandled` relate the queues to what the thread has in hand between
  choosing under the lock and storing under it.

`RecordProofs`: `QueueIsSaved`, `UnreadableQueueIsKept`, `SettingsAreKept`, `UnreadableIsKept`, `CreationIsSound`, and for all of
them `RecordsAreSound`, `RecordsAreKept`. `WritableIsReadable`: a database that is not readable is in the hand of a program that
knows it, at every launch, fallback and save; `DownIsEmpty`: no saver survives its process. For a creation, `VersionsGrow` says
that a version that is gone does not come back and `ReadSoFar` that what was read of the open file is no older than the scan
and no newer than what is there: if the file then still is as it was scanned, all of it was read so.

and of the sources of peers (`SourcesAreSound`, `SourceTypesHold` for the six modules):

* `AnnouncesAreSound`. `AskedInOrder`: a call has asked the trackers in front of the one it is at, so one that gives up has asked all.
* `ScrapesAreSound`. `ScrapeInv` types the timer, the refresh and its flag; `ScrapeSound` is inductive with it.
* `LookupsAreSound`. `WithinLimit` and `AskedNow`; `FewNearest` shows that the n nearest nodes of a batch are n at most, by
  an injection into the numbers below n.
* `MagnetsAreSound`. `GotIsGenuine` and `VerdictIsEarned` follow metadata from its source to the manager;
  `OpenWhileResolving` says which stages have sockets.
* `NothingEchoes`, `NoSelfDiscovery`. `OwnIsKnown`: every datagram under way that names a host's address and port was sent by a
  host there, so one that has kept its port and is alone at its address recognises its own.
* `SwarmsStayApart`, from `FoundFirst`: what is exported was heard or found in that generation before.

`ContentProofs` (`ContentIsSound`), for any lengths of the files, in all three generations and for any power of two as
`PieceLength` (`LayoutAssumption`, what `validate_piece_length` asks for):

* What was laid out (`PiecesAreCutAtFirst`). `FilesAreLaid` places every byte of the content in one file. A v1 torrent cuts the stream
  anew every `PieceLength` bytes (`CutV1`). With v2 the pieces begin anew with each file: `OrderOfV2` and `ReachOfV2` say that they follow
  each other and leave nothing out, `RootTells` and `OnePieceLayer` that a root, and an entry of a piece layer, tell the data from any
  other of that length. For hybrid torrents `FilesOfHybrid`, `PaddingAfterIs` and `StreamAtPieces` place the padding, so that what was hashed
  for v1 is the piece and its padding (`HybridHashes`). `CutCovers` concludes that the pieces, joined, are the content, and that
  none verifies the bytes of another.
* What the parser accepts (`CreatedAccepted`). With v2 the layer of a file, reduced from its own depth, has to give the root that was
  reduced from the blocks: `SubTree` cuts a tree where a piece ends, `ZeroTree` says that what is missing there is the hash of
  padding of that depth, so the layer is a row of the tree of the file (`LayerIsRow`) and has its root (`LayerVerifies`). No two files
  have one root (`RootsApart`: down the left edge of a tree stands its first byte), hence a request for hashes finds its file, and the
  answers, two by two, join to the layer (`PairsJoin`, `FetchedIs`). For hybrid torrents `RealAre` and `EntriesAreSound` find the files
  between the padding, each at the start of a piece, and `StreamHasItsPieces` counts as many pieces in the padded stream as the v2 map has.
* What is kept on disk. `HeldInv` says of every byte whether it is on disk: those of a complete piece are, those that the piece under way has
  written are, files hold their own bytes or holes, and once the disk was looked at what is wholly there is complete. `SegmentKeeps`
  is the step that matters: a segment changes exactly the bytes it writes, also when it makes a file longer over a hole.
  `WholeIsCandidate` shows that a check leaves out no piece that is there, `VerifiesIfWhole` that it takes no other;
  `HeldServed` that an upload to either swarm of a hybrid torrent sends what was hashed.

`ServiceProofs`: `ScreenIsSound` from `DesktopIsSound`, `ReplacedHandlerIsKept` and `ViewIsSound`; `ServicesTypesHold` and `NetworkIsSound`.

* `DesktopIsSound`. `RunningHasIcon` has one exception, an icon being stopped, and `HiddenIsBound` says how a window came
  to be hidden.
* `ReplacedHandlerIsKept`. `RegistryInv` types the backup: it may bear our surface (a registration refused half way), but
  never our command.
* `ViewIsSound`. `ViewSound` speaks of states in which nothing is on its way, so `ViewInv` has to say what is on its way for each
  torrent (`IsTold`). `GoneIsTold`: for a torrent without a session either the message that removes it is on its way, or it has
  no row, nothing is on its way that would give it one, and a tombstone keeps late snapshots off.
  `GoalIsTold`: the latest snapshot and the latest event about a goal tell the goal the session has, and a row about which
  nothing is under way shows it, unless the table shows what it has itself just ordered. `UndisturbedStays` says what a step must
  leave alone so that the other torrents stay told; a frame folds over the drained events, where `RecursionExists` gives the function
  that each of its recursive definitions stands for and `Largest` the last event of a kind.
* `ServicesTypesHold`, that no variable of the fifteen services leaves its type while their steps interleave. `ServicesInv` is the
  conjunction of the inductive invariants of all of them; a step of `MCServices` is one of a part and leaves the others alone.

Each proof has one step per action, and the temporal theorems combine these by PTL. Induction over data is
done on sets: a set of numbers (lengths, positions) without a smallest element is empty, which `WFMin` gives for the
order of the naturals (`Smallest`). That is how `RecordProofs` and `ServiceProofs` reason about the recursive functions in
`Filtered` and in the frame of the view, `NetworkProofs` about the next tracker of a list, and `ContentProofs` about sums, joined
sequences and the rows of a tree. It does not reach operators that
are declared RECURSIVE or `SelectSeq`, whose local recursion the prover does not expand.

Only model-checked: `TelemetrySound`, what the views are told of the content, which sums and sorts sets of pieces by a recursion the prover
does not expand; and all liveness (the prover knows neither fairness nor ENABLED).

## 5. Not modelled, and what is left

Not modelled: the command line runner and the localization tools (presentation and build); bencode
text and message packing; service of metadata and hash requests to peers (but for the layout of
a hash response); IPv6 beside IPv4 in the DHT; the arithmetic of ratio and time in seeding goals;
enumeration of network interfaces and socket options; progress callbacks of the initial check; icons,
widgets, wording, sorting and filters. Bulk operations of the manager are sequences of the commands that
are modelled. Hazards without a property carry a note in `PROJECT.json`.

What is left, in this order:

1. Abstract specifications of the queue ("each command takes effect or is superseded") and of the
   session store ("the last snapshot wins", which racing savers do not keep today).
2. Removal during a recheck and bulk operations as actions of `TransferQueue`, once the code states what
   they promise.
