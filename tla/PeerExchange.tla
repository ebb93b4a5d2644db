------------------------------ MODULE PeerExchange ------------------------------
(***************************************************************************)
(* Peer exchange in a session (session.py): what peers of the torrent tell   *)
(* of others is remembered by generation and passed on, to the peers this    *)
(* side connected to once per interval, to those that called once per        *)
(* extended handshake.  Other generations of a hybrid torrent are other      *)
(* swarms.  An endpoint may be connected in one generation at a time here;   *)
(* counters are abstracted to whether anything was received.                 *)
(***************************************************************************)
EXTENDS Naturals, FiniteSets

CONSTANTS
  Contacts,        \* endpoints at which peers listen
  Swarm1, Swarm2,  \* the generations of the torrent
  PexLimit,        \* PEX_MAX_PEERS_PER_MESSAGE
  MaxPexOps        \* bound on connections, messages and changes of preferences

ASSUME PexAssumption ==
  /\ IsFiniteSet(Contacts) /\ "caller" \notin Contacts /\ "no swarm" \notin {Swarm1, Swarm2}
  /\ PexLimit \in Nat \ {0} /\ MaxPexOps \in Nat

VARIABLES
  privateTorrent,  \* torrent.private
  enablePex,       \* enable_pex
  outbound,        \* active_peers: the connections of this side
  caller,          \* an inbound connection: its generation, or NoSwarm
  toldOf,          \* _pex_seen_endpoints
  received,        \* _pex_messages_received > 0
  said,            \* the last message sent
  foundIn,         \* history: endpoints that were ever found in a generation
  pexOps

pexVars == <<privateTorrent, enablePex, outbound, caller, toldOf, received, said, foundIn, pexOps>>

PexSwarms == {Swarm1, Swarm2}
NoSwarm == "no swarm"
NoLink ==
  [swarm |-> NoSwarm, alive |-> FALSE, supports |-> FALSE, enabled |-> FALSE, recent |-> FALSE]
NothingSaid == [swarm |-> NoSwarm, to |-> NoSwarm, endpoints |-> {}]

PexOp == pexOps < MaxPexOps /\ pexOps' = pexOps + 1

PexInit ==
  /\ privateTorrent \in BOOLEAN /\ enablePex \in BOOLEAN /\ (privateTorrent => ~enablePex)
  /\ outbound = [e \in Contacts |-> NoLink] /\ caller = NoSwarm
  /\ toldOf = {} /\ received = FALSE /\ said = NothingSaid /\ foundIn = {} /\ pexOps = 0

--------------------------------------------------------------------------------
(* Connected peers of the generation, and what was heard of it.             *)
ConnectedIn(swarm) == {e \in Contacts : outbound[e].swarm = swarm /\ outbound[e].alive}
HeardIn(swarm) == {e \in Contacts : <<e, swarm>> \in toldOf}

(* Mutant: what was heard is passed on to every generation.                 *)
PexExportMixed(swarm, exclude) ==
  IF privateTorrent \/ ~enablePex THEN {}
  ELSE (ConnectedIn(swarm) \cup {h[1] : h \in toldOf}) \ {exclude}

(* _pex_export_endpoints                                                    *)
PexExport(swarm, exclude) ==
  IF privateTorrent \/ ~enablePex THEN {}
  ELSE (ConnectedIn(swarm) \cup HeardIn(swarm)) \ {exclude}

(* encode_pex_payload takes the first, and connected peers come first.      *)
Encoded(swarm, exclude) ==
  LET all == PexExport(swarm, exclude)
      first == ConnectedIn(swarm) \cap all
  IN {S \in SUBSET all :
        /\ Cardinality(S) = IF Cardinality(all) < PexLimit THEN Cardinality(all) ELSE PexLimit
        /\ IF Cardinality(first) <= PexLimit THEN first \subseteq S ELSE S \subseteq first}

(* pex_supported of a connection                                            *)
PexSupported(link) == link.enabled /\ link.supports

(* _maybe_send_pex; the message may fail to be sent.                        *)
MaybeSendPex(e, link) ==
  IF privateTorrent \/ ~enablePex \/ ~PexSupported(link) \/ link.recent
  THEN outbound' = [outbound EXCEPT ![e] = link] /\ UNCHANGED said
  ELSE \/ outbound' = [outbound EXCEPT ![e] = [link EXCEPT !.alive = FALSE]] /\ UNCHANGED said
       \/ /\ outbound' = [outbound EXCEPT ![e] = [link EXCEPT !.recent = TRUE]]
          /\ \E S \in Encoded(link.swarm, e) :
               said' = [swarm |-> link.swarm, to |-> e, endpoints |-> S]

(* _record_pex_payload; removals that are told are not looked at.           *)
RecordPex(told, swarm) ==
  IF privateTorrent \/ ~enablePex THEN UNCHANGED <<toldOf, received, foundIn>>
  ELSE /\ toldOf' = toldOf \cup {<<e, swarm>> : e \in told}
       /\ foundIn' = foundIn \cup {<<e, swarm>> : e \in told}
       /\ received' = TRUE

--------------------------------------------------------------------------------
(* A worker has connected, to an endpoint from any source.                  *)
Connects(e, swarm) ==
  /\ PexOp /\ outbound[e] = NoLink
  /\ outbound' = [outbound EXCEPT ![e] = [NoLink EXCEPT !.swarm = swarm, !.alive = TRUE,
                                                  !.enabled = enablePex]]
  /\ foundIn' = foundIn \cup {<<e, swarm>>}
  /\ UNCHANGED <<privateTorrent, enablePex, caller, toldOf, received, said>>

(* The peer's extended handshake maps ut_pex or does not.                   *)
LinkHandshake(e) ==
  /\ PexOp /\ outbound[e].alive
  /\ \E supports \in BOOLEAN : MaybeSendPex(e, [outbound[e] EXCEPT !.supports = supports])
  /\ UNCHANGED <<privateTorrent, enablePex, caller, toldOf, received, foundIn>>

(* Every turn of the worker's loop.                                         *)
LinkTurn(e) ==
  /\ outbound[e].alive /\ MaybeSendPex(e, outbound[e])
  /\ UNCHANGED <<privateTorrent, enablePex, caller, toldOf, received, foundIn, pexOps>>

IntervalPasses(e) ==
  /\ outbound[e].recent /\ outbound' = [outbound EXCEPT ![e].recent = FALSE]
  /\ UNCHANGED <<privateTorrent, enablePex, caller, toldOf, received, said, foundIn, pexOps>>

LinkTells(e, told) ==
  /\ PexOp /\ outbound[e].alive /\ RecordPex(told, outbound[e].swarm)
  /\ UNCHANGED <<privateTorrent, enablePex, outbound, caller, said>>

(* The connection is lost; its worker then leaves the list.                 *)
LinkLost(e) ==
  /\ outbound[e] /= NoLink
  /\ outbound' = [outbound EXCEPT ![e] = IF @.alive THEN [@ EXCEPT !.alive = FALSE] ELSE NoLink]
  /\ UNCHANGED <<privateTorrent, enablePex, caller, toldOf, received, said, foundIn, pexOps>>

(* An inbound connection, from a port nobody listens on.                    *)
Calls(swarm) ==
  /\ PexOp /\ caller = NoSwarm /\ caller' = swarm
  /\ UNCHANGED <<privateTorrent, enablePex, outbound, toldOf, received, said, foundIn>>

CallerHandshake ==
  /\ PexOp /\ caller /= NoSwarm /\ ~privateTorrent /\ enablePex
  /\ \E S \in Encoded(caller, "caller") :
       said' = [swarm |-> caller, to |-> "caller", endpoints |-> S]
  /\ UNCHANGED <<privateTorrent, enablePex, outbound, caller, toldOf, received, foundIn>>

CallerTells(told) ==
  /\ PexOp /\ caller /= NoSwarm /\ ~privateTorrent /\ enablePex
  /\ RecordPex(told, caller)
  /\ UNCHANGED <<privateTorrent, enablePex, outbound, caller, said>>

CallerLeaves ==
  /\ caller /= NoSwarm /\ caller' = NoSwarm
  /\ UNCHANGED <<privateTorrent, enablePex, outbound, toldOf, received, said, foundIn, pexOps>>

(* apply_runtime_preferences                                                *)
TogglePex ==
  /\ PexOp /\ enablePex' = (~enablePex /\ ~privateTorrent)
  /\ outbound' = [e \in Contacts |-> IF outbound[e] = NoLink THEN NoLink
                                  ELSE [outbound[e] EXCEPT !.enabled = enablePex']]
  /\ UNCHANGED <<privateTorrent, caller, toldOf, received, said, foundIn>>

PexNext ==
  \/ CallerHandshake \/ CallerLeaves \/ TogglePex
  \/ \E swarm \in PexSwarms : Calls(swarm)
  \/ \E told \in SUBSET Contacts : CallerTells(told)
  \/ \E e \in Contacts :
       \/ LinkHandshake(e) \/ LinkTurn(e) \/ IntervalPasses(e) \/ LinkLost(e)
       \/ \E swarm \in PexSwarms : Connects(e, swarm)
       \/ \E told \in SUBSET Contacts : LinkTells(e, told)

PexSpec == PexInit /\ [][PexNext]_pexVars

(* _build_pex_source_snapshot of a session at work                          *)
PexStatus ==
  IF ~enablePex THEN "Disabled"
  ELSE IF received \/ \E e \in Contacts : PexSupported(outbound[e]) THEN "Active" ELSE "Waiting"

--------------------------------------------------------------------------------
PexTypeOK ==
  /\ {privateTorrent, enablePex, received} \subseteq BOOLEAN
  /\ toldOf \subseteq Contacts \X PexSwarms /\ caller \in PexSwarms \cup {NoSwarm}
  /\ PexStatus \in {"Disabled", "Active", "Waiting"} /\ pexOps \in 0 .. MaxPexOps

(* The swarms of a hybrid torrent are kept apart, whoever told whom and       *)
(* whatever was connected in which of them: a peer is told of endpoints found *)
(* in its own swarm, not of itself and not more than fit a message; and a     *)
(* private torrent neither tells nor remembers.                             *)
SwarmsKeptApart ==
  /\ \A e \in said.endpoints : <<e, said.swarm>> \in foundIn /\ e /= said.to
  /\ Cardinality(said.endpoints) <= PexLimit
  /\ privateTorrent => said = NothingSaid /\ toldOf = {}
================================================================================
