---------------------------- MODULE MagnetResolver ----------------------------
(***************************************************************************)
(* The resolution of one magnet link: the commands and the task of the       *)
(* engine (torrent_manager.py) and the metadata fetcher (magnet.py), which   *)
(* alternates between discovery and batches of peers until one of them has   *)
(* sent the whole verified info dictionary, or until time is up.            *)
(***************************************************************************)
EXTENDS Naturals, FiniteSets

CONSTANTS
  Sources,              \* endpoints that discovery may find
  MaxTried,             \* max_peers: endpoints taken from one discovery
  Parallel,             \* MAGNET_MAX_PARALLEL_PEERS
  MetadataPieces,       \* pieces of the info dictionary
  MaxCommands           \* bound on the user's commands

ASSUME MagnetAssumption ==
  /\ IsFiniteSet(Sources) /\ {MaxTried, Parallel, MetadataPieces} \subseteq Nat \ {0}
  /\ MaxCommands \in Nat

VARIABLES
  genuine,              \* endpoints that send the real info dictionary
  resolver,             \* control of the _resolve_magnet task
  verdict,              \* how resolve() ends, once it is over
  interrupts,           \* task.cancel() calls that have not taken effect
  late,                 \* the deadline of resolve() is over
  attempted,            \* endpoints that are not tried again
  tries,                \* worker of each endpoint in the batch under way
  afterBatch,           \* where a batch without metadata returns to
  socketsOpen,          \* LPD and DHT sockets of the fetcher are open
  metadataFrom,         \* endpoint whose metadata is used
  added,                \* the torrent is in sessions
  commands,             \* commands given, bounded by MaxCommands
  cutShort              \* a cancellation hit the resolver while it was closing

magnetVars == <<genuine, resolver, verdict, interrupts, late, attempted, tries, afterBatch,
                socketsOpen, metadataFrom, added, commands, cutShort>>
fetching == <<attempted, tries, afterBatch, socketsOpen, metadataFrom>>
byOthers == <<genuine, commands>>

Try(at, pieces) == [at |-> at, pieces |-> pieces]
Unused == Try("unused", 0)
NobodyYet == "nobody"

MagnetInit ==
  /\ genuine \in SUBSET Sources
  /\ resolver = "none" /\ verdict = "none" /\ interrupts = 0 /\ late = FALSE
  /\ attempted = {} /\ tries = [s \in Sources |-> Unused] /\ afterBatch = "pause"
  /\ socketsOpen = FALSE /\ metadataFrom = NobodyYet /\ added = FALSE
  /\ commands = 0 /\ cutShort = FALSE

Command == commands < MaxCommands /\ commands' = commands + 1
Live == resolver /= "none"

--------------------------------------------------------------------------------
(* ADD_MAGNET is swallowed while the magnet is being resolved.              *)
AddMagnet ==
  /\ Command
  /\ resolver' = IF Live THEN resolver ELSE "created"
  /\ UNCHANGED <<genuine, verdict, interrupts, late, fetching, added, cutShort>>

(* CANCEL_MAGNET also cancels the workers.  A task that has not begun ends   *)
(* without a word.                                                          *)
CancelMagnet ==
  /\ Command /\ Live
  /\ IF resolver = "created" THEN resolver' = "none" /\ UNCHANGED interrupts
     ELSE interrupts' = 1 /\ UNCHANGED resolver
  /\ tries' = [s \in Sources |-> IF tries[s].at \in {"unused", "got"} THEN tries[s]
                                ELSE Try("failed", 0)]
  /\ UNCHANGED <<genuine, verdict, late, attempted, afterBatch, socketsOpen, metadataFrom, added,
                 cutShort>>

RemoveMagnetTorrent ==
  /\ added /\ Command /\ added' = FALSE
  /\ UNCHANGED <<genuine, resolver, verdict, interrupts, late, fetching, cutShort>>

(* MAGNET_READY, MAGNET_ERROR or MAGNET_CANCELLED, and the task is over.    *)
Ends == resolver' = "none" /\ interrupts' = 0 /\ verdict' = "none"

BeginResolver ==
  /\ resolver = "created"
  /\ IF added THEN Ends /\ UNCHANGED <<late, fetching>>
     ELSE /\ resolver' = "discover" /\ late' = FALSE
          /\ attempted' = {} /\ tries' = [s \in Sources |-> Unused] /\ socketsOpen' = TRUE
          /\ metadataFrom' = NobodyYet
          /\ UNCHANGED <<verdict, interrupts, afterBatch>>
  /\ UNCHANGED <<byOthers, added, cutShort>>

(* resolve() is over; what is left is its finally.                          *)
Leave(how) == resolver' = "closing" /\ verdict' = how

--------------------------------------------------------------------------------
(* resolve() and _discover_once                                             *)

Same == UNCHANGED <<byOthers, added, cutShort>>

TimePasses ==
  /\ resolver \in {"discover", "batch", "pause"} /\ ~late /\ late' = TRUE
  /\ UNCHANGED <<resolver, verdict, interrupts, fetching>> /\ Same

Fresh(found) == found \ attempted

TryBatch(taken) ==
  /\ tries' = [s \in Sources |-> IF s \in taken THEN Try("waiting", 0) ELSE Unused]
  /\ resolver' = "batch"

(* The trackers, the DHT and the LAN of every generation; the round's new    *)
(* endpoints are tried, as many as max_peers allows.                        *)
Discovered ==
  /\ resolver = "discover" /\ ~late /\ interrupts = 0
  /\ \E found \in SUBSET Sources :
       IF Fresh(found) = {}
       THEN resolver' = "pause" /\ UNCHANGED <<attempted, tries, afterBatch>>
       ELSE \E taken \in SUBSET Fresh(found) :
              /\ taken = Fresh(found) \/ Cardinality(taken) = MaxTried
              /\ Cardinality(taken) <= MaxTried
              /\ attempted' = attempted \cup taken /\ TryBatch(taken) /\ afterBatch' = "pause"
  /\ UNCHANGED <<verdict, interrupts, late, socketsOpen, metadataFrom>> /\ Same

(* In the pause between two rounds the LAN is listened to.  Those beyond     *)
(* max_peers count as attempted although they are not tried.                *)
LanPeers ==
  /\ resolver = "pause" /\ interrupts = 0
  /\ \E found \in SUBSET Sources \ {{}} : \E taken \in SUBSET Fresh(found) :
       /\ taken = Fresh(found) \/ Cardinality(taken) = MaxTried
       /\ Cardinality(taken) \in 1 .. MaxTried
       /\ attempted' = attempted \cup Fresh(found) /\ TryBatch(taken)
  /\ afterBatch' \in {"pause", "discover"}
  /\ UNCHANGED <<verdict, interrupts, late, socketsOpen, metadataFrom>> /\ Same

NextRound ==
  /\ resolver = "pause" /\ interrupts = 0 /\ resolver' = "discover"
  /\ UNCHANGED <<verdict, interrupts, late, fetching>> /\ Same

DeadlineOver ==
  /\ resolver = "discover" /\ late /\ Leave("error")
  /\ UNCHANGED <<interrupts, late, fetching>> /\ Same

(* _check_cancelled: the interface lock's address is gone.                  *)
AddressGone ==
  /\ resolver \in {"discover", "pause"} /\ Leave("error")
  /\ UNCHANGED <<interrupts, late, fetching>> /\ Same

--------------------------------------------------------------------------------
(* _fetch_from_peer: connection, extended handshake, the pieces one by one,  *)
(* the hash of the whole, the piece layers of a v2 torrent.                 *)

Working == {s \in Sources : tries[s].at = "fetching"}
Becomes(s, at, pieces) ==
  /\ tries' = [tries EXCEPT ![s] = Try(at, pieces)]
  /\ UNCHANGED <<resolver, verdict, interrupts, late, attempted, afterBatch, socketsOpen,
                 metadataFrom>>
  /\ Same

ConnectSource(s) ==
  /\ resolver = "batch" /\ tries[s].at = "waiting" /\ Cardinality(Working) < Parallel
  /\ Becomes(s, "fetching", 0)

(* A block of the requested piece; others are passed over.                  *)
MetadataPiece(s) ==
  /\ resolver = "batch" /\ s \in Working /\ tries[s].pieces < MetadataPieces
  /\ Becomes(s, "fetching", tries[s].pieces + 1)

(* Mutant: metadata is used without its hash.                               *)
MatchesAny(s) == TRUE

Matches(s) == s \in genuine

MetadataComplete(s) ==
  /\ resolver = "batch" /\ s \in Working /\ tries[s].pieces = MetadataPieces
  /\ Becomes(s, IF Matches(s) THEN "got" ELSE "failed", 0)

(* Refused, rejected, silent for too long, of the wrong size or length, or   *)
(* without the piece layers.                                                *)
SourceFails(s) ==
  /\ resolver = "batch" /\ s \in Working /\ Becomes(s, "failed", 0)

(* _try_peer_batch: the first metadata, or none when every worker is done.  *)
BatchEnds ==
  /\ resolver = "batch"
  /\ \/ \E s \in Sources :
          /\ tries[s].at = "got" /\ metadataFrom' = s /\ Leave("metadata")
     \/ /\ \A s \in Sources : tries[s].at \in {"unused", "failed"}
        /\ interrupts = 0
        /\ resolver' = afterBatch /\ UNCHANGED <<verdict, metadataFrom>>
  /\ tries' = [s \in Sources |-> Unused]
  /\ UNCHANGED <<interrupts, late, attempted, afterBatch, socketsOpen>> /\ Same

(* The cancellation arrives where the task waits.                           *)
Interrupted ==
  /\ interrupts > 0 /\ interrupts' = 0
  /\ \/ resolver \in {"discover", "batch", "pause"} /\ Leave("cancelled") /\ UNCHANGED cutShort
     \/ /\ resolver = "closing" /\ cutShort' = TRUE
        /\ resolver' = "closed" /\ verdict' = "cancelled"
  /\ tries' = [s \in Sources |-> Unused]
  /\ UNCHANGED <<byOthers, late, attempted, afterBatch, socketsOpen, metadataFrom, added>>

(* The finally of resolve() closes the sockets.                             *)
CloseLookups ==
  /\ resolver = "closing" /\ socketsOpen' = FALSE /\ resolver' = "closed"
  /\ UNCHANGED <<verdict, interrupts, late, attempted, tries, afterBatch, metadataFrom>> /\ Same

(* The torrent file is written in a thread, and the torrent is added.       *)
Finished ==
  /\ resolver = "closed"
  /\ \/ verdict = "metadata" /\ interrupts = 0 /\ added' \in {TRUE, added}
     \/ (verdict /= "metadata" \/ interrupts > 0) /\ UNCHANGED added
  /\ Ends
  /\ UNCHANGED <<byOthers, late, fetching, cutShort>>

FetchStep ==
  \/ BeginResolver \/ Discovered \/ NextRound \/ DeadlineOver \/ BatchEnds \/ Interrupted
  \/ CloseLookups \/ Finished
  \/ \E s \in Sources : ConnectSource(s) \/ SourceFails(s) \/ MetadataComplete(s)

MagnetNext ==
  \/ AddMagnet \/ CancelMagnet \/ RemoveMagnetTorrent
  \/ FetchStep \/ TimePasses \/ LanPeers \/ AddressGone
  \/ \E s \in Sources : MetadataPiece(s)

(* The event loop runs the task, every wait for a peer has a timeout, and    *)
(* the clock goes on.                                                       *)
MagnetFairness == WF_magnetVars(FetchStep) /\ WF_magnetVars(TimePasses)

MagnetSpec == MagnetInit /\ [][MagnetNext]_magnetVars /\ MagnetFairness

--------------------------------------------------------------------------------
MagnetTypeOK ==
  /\ resolver \in {"none", "created", "discover", "batch", "pause", "closing", "closed"}
  /\ verdict \in {"none", "metadata", "error", "cancelled"} /\ interrupts \in 0 .. 1
  /\ attempted \subseteq Sources /\ metadataFrom \in Sources \cup {NobodyYet}
  /\ tries \in [Sources -> [at : {"unused", "waiting", "fetching", "failed", "got"},
                             pieces : 0 .. MetadataPieces]]
  /\ \A b \in {late, socketsOpen, added, cutShort} : b \in BOOLEAN

(* What is added has been sent by a peer that has the real dictionary.      *)
AddedIsGenuine == added => metadataFrom \in genuine

(* No more peers are asked at a time than the limits allow.                  *)
BatchWithinLimits ==
  /\ Cardinality(Working) <= Parallel
  /\ Cardinality({s \in Sources : tries[s] /= Unused}) <= MaxTried
  /\ {s \in Sources : tries[s] /= Unused} \subseteq attempted

(* The sockets of a resolver are closed when it has ended, unless the user   *)
(* cancels a second time while it is closing them.                          *)
LookupsClosed == ~Live /\ ~cutShort => ~socketsOpen

MagnetSound == AddedIsGenuine /\ BatchWithinLimits /\ LookupsClosed

(* A resolver comes to an end, whatever its peers send.                     *)
ResolverEnds == []<>~Live
=============================================================================
