------------------------------ MODULE DhtLookup ------------------------------
(***************************************************************************)
(* One DHTClient (dht.py): an iterative get_peers lookup over nodes that     *)
(* answer late, wrongly or never, the announces to the nodes that gave a     *)
(* token, and the small server that remembers peers which announce           *)
(* themselves.  close() may come while a lookup waits.                      *)
(***************************************************************************)
EXTENDS Naturals, FiniteSets

CONSTANTS
  Nodes,                \* nodes, numbered by their distance from the hash
  Boot,                 \* those the bootstrap addresses resolve to
  BatchSize, MaxQueries, EnoughQueries,
                        \* DHT_BATCH_SIZE, DHT_MAX_QUERIES, and the 24 queries
                        \* after which a lookup with peers ends
  MaxLookups            \* bound on lookups and on announces of others

ASSUME DhtAssumption ==
  /\ Nodes \subseteq Nat /\ Boot \subseteq Nodes
  /\ BatchSize \in Nat \ {0} /\ MaxQueries \in Nat /\ EnoughQueries \in Nat
  /\ MaxLookups \in Nat

VARIABLES
  socket,               \* are the transports open?
  dhtStatus,            \* status shown in the Sources view
  lookup,               \* progress of discover_peers
  candidates, inTurn, queried,
  pending,              \* nodes whose answer a future of _pending waits for
  replies,              \* answers of the batch under way
  found,                \* was a peer found?
  responded,            \* nodes that answered in this lookup
  tokens,               \* nodes an announce task was created for
  announced,            \* peers in _announced_seen, and those still queued
  waiting,
  lookups               \* lookups and outside announces so far

dhtVars == <<socket, dhtStatus, lookup, candidates, inTurn, queried, pending, replies, found,
             responded, tokens, announced, waiting, lookups>>
search == <<candidates, inTurn, queried, found, responded, tokens>>
serving == <<announced, waiting>>

DhtInit ==
  /\ socket = FALSE /\ dhtStatus = "Disabled" /\ lookup = "idle"
  /\ candidates = {} /\ inTurn = {} /\ queried = {} /\ pending = {} /\ replies = {}
  /\ found = FALSE /\ responded = {} /\ tokens = {} /\ announced = {} /\ waiting = {}
  /\ lookups = 0

Nearest(S, n) == {x \in S : Cardinality({y \in S : y < x}) < n}
AtMost(a, b) == IF a < b THEN a ELSE b

--------------------------------------------------------------------------------
(* discover_peers opens the sockets first, which may fail, and resolves the  *)
(* bootstrap nodes.                                                         *)

StartDht ==
  /\ lookups < MaxLookups /\ ~socket
  /\ \/ socket' = TRUE /\ dhtStatus' = "Waiting"
     \/ socket' = FALSE /\ dhtStatus' = "Error"
  /\ lookups' = lookups + 1
  /\ UNCHANGED <<lookup, search, pending, replies, serving>>

BeginLookup ==
  /\ lookup = "idle" /\ socket /\ lookups < MaxLookups
  /\ lookups' = lookups + 1
  /\ dhtStatus' = "Announcing" /\ lookup' = "resolving"
  /\ UNCHANGED <<socket, search, pending, replies, serving>>

Resolved ==
  /\ lookup = "resolving"
  /\ \E boot \in SUBSET Boot :
       /\ candidates' = boot /\ inTurn' = boot
       /\ lookup' = IF boot = {} THEN "idle" ELSE "batch"
       /\ dhtStatus' = IF boot = {} THEN "Error" ELSE dhtStatus
  /\ queried' = {} /\ found' = FALSE /\ responded' = {} /\ tokens' = {}
  /\ UNCHANGED <<socket, pending, replies, serving, lookups>>

(* Mutant: a batch is filled up regardless of the queries made.             *)
BatchOfFull == Nearest(candidates \ queried, BatchSize)

(* The nearest candidates, up to a batch and to what is left of the limit.  *)
BatchOf == Nearest(candidates \ queried, AtMost(BatchSize, MaxQueries - Cardinality(queried)))

(* A node whose family has no socket any more is not asked: its query       *)
(* raises.                                                                  *)
SendBatch ==
  /\ lookup = "batch" /\ BatchOf /= {} /\ Cardinality(queried) < MaxQueries
  /\ queried' = queried \cup BatchOf /\ candidates' = candidates \ BatchOf
  /\ pending' = IF socket THEN BatchOf ELSE {}
  /\ lookup' = "gather" /\ replies' = {}
  /\ UNCHANGED <<socket, dhtStatus, inTurn, found, responded, tokens, serving, lookups>>

(* A response with peers or not, a token or not and the nodes it knows, some *)
(* of which may be known already.                                           *)
Responds(n) ==
  /\ n \in pending /\ lookup = "gather" /\ socket
  /\ \E peers, token \in BOOLEAN, nodes \in SUBSET Nodes :
       replies' = replies \cup {[node |-> n, peers |-> peers, token |-> token, nodes |-> nodes]}
  /\ pending' = pending \ {n}
  /\ UNCHANGED <<socket, dhtStatus, lookup, search, serving, lookups>>

(* No response in time, or an error message.                                *)
NoResponse(n) ==
  /\ n \in pending /\ lookup = "gather"
  /\ pending' = pending \ {n}
  /\ UNCHANGED <<socket, dhtStatus, lookup, search, replies, serving, lookups>>

(* Mutant: nodes that were asked before are candidates again.               *)
LearntAgain == UNION {r.nodes : r \in replies}

Learnt == (UNION {r.nodes : r \in replies}) \ (inTurn \cup queried)

(* Every answer of the batch is there: its peers, nodes and tokens are used, *)
(* and an announce begins at once for every token.                          *)
BatchDone ==
  /\ lookup = "gather" /\ pending = {}
  /\ found' = (found \/ \E r \in replies : r.peers)
  /\ responded' = responded \cup {r.node : r \in replies}
  /\ tokens' = tokens \cup {r.node : r \in {x \in replies : x.token}}
  /\ candidates' = candidates \cup Learnt /\ inTurn' = inTurn \cup Learnt
  /\ replies' = {}
  /\ lookup' = IF found' /\ Cardinality(queried) >= EnoughQueries THEN "announce" ELSE "batch"
  /\ UNCHANGED <<socket, dhtStatus, queried, pending, serving, lookups>>

NothingLeft ==
  /\ lookup = "batch" /\ (BatchOf = {} \/ Cardinality(queried) >= MaxQueries)
  /\ lookup' = "announce"
  /\ UNCHANGED <<socket, dhtStatus, search, pending, replies, serving, lookups>>

(* The announces are over, or were none; peers that announced themselves     *)
(* are drained into the result.                                             *)
LookupDone ==
  /\ lookup = "announce"
  /\ lookup' = "idle" /\ waiting' = {}
  /\ found' = (found \/ waiting /= {})
  /\ dhtStatus' = IF responded = {} THEN "Error" ELSE IF found' THEN "Active" ELSE "No Peers"
  /\ UNCHANGED <<socket, candidates, inTurn, queried, pending, replies, responded, tokens,
                 announced, lookups>>

(* The loop's finally cancels its lookup.                                   *)
LookupCancelled ==
  /\ lookup /= "idle" /\ lookup' = "idle"
  /\ pending' = {} /\ replies' = {}
  /\ UNCHANGED <<socket, dhtStatus, search, serving, lookups>>

--------------------------------------------------------------------------------
(* The server side: a peer whose token is the one of its address is put on   *)
(* the queue once, and drained by the session's loop or by a lookup.        *)

PeerAnnounces(p, valid) ==
  /\ socket /\ lookups < MaxLookups /\ lookups' = lookups + 1
  /\ IF valid /\ p \notin announced
     THEN announced' = announced \cup {p} /\ waiting' = waiting \cup {p}
     ELSE UNCHANGED serving
  /\ UNCHANGED <<socket, dhtStatus, lookup, search, pending, replies>>

DrainPeers ==
  /\ waiting /= {} /\ waiting' = {}
  /\ UNCHANGED <<socket, dhtStatus, lookup, search, pending, replies, announced, lookups>>

(* close() cancels the futures.  A cancelled one is no exception to gather:  *)
(* unpacking it raises, and the lookup is over with its status as it is.    *)
ClosedLookup == IF pending /= {} THEN "idle" ELSE lookup

CloseDht ==
  /\ socket /\ socket' = FALSE /\ dhtStatus' = "Disabled"
  /\ lookup' = ClosedLookup /\ pending' = {}
  /\ replies' = IF ClosedLookup = "idle" THEN {} ELSE replies
  /\ UNCHANGED <<search, serving, lookups>>

LookupStep ==
  \/ Resolved \/ SendBatch \/ BatchDone \/ NothingLeft \/ LookupDone
  \/ \E n \in Nodes : NoResponse(n)

DhtNext ==
  \/ StartDht \/ BeginLookup \/ LookupStep \/ LookupCancelled \/ DrainPeers \/ CloseDht
  \/ \E n \in Nodes : Responds(n)
  \/ \E p \in {"p"}, valid \in BOOLEAN : PeerAnnounces(p, valid)

(* Every query has a timeout, and the lookup's task is scheduled.           *)
DhtFairness == WF_dhtVars(LookupStep)

DhtSpec == DhtInit /\ [][DhtNext]_dhtVars /\ DhtFairness

--------------------------------------------------------------------------------
DhtTypeOK ==
  /\ socket \in BOOLEAN /\ found \in BOOLEAN /\ lookups \in 0 .. MaxLookups
  /\ lookup \in {"idle", "resolving", "batch", "gather", "announce"}
  /\ dhtStatus \in {"Disabled", "Waiting", "Announcing", "Active", "No Peers", "Error"}
  /\ \A S \in {candidates, inTurn, queried, pending, responded, tokens} : S \subseteq Nodes
  /\ {r.node : r \in replies} \subseteq Nodes /\ waiting \subseteq announced

(* A lookup asks no node twice and at most MaxQueries of them; what it has   *)
(* asked and what it may still ask are apart, so that a set of nodes which   *)
(* name each other cannot keep it going.                                    *)
LookupBounded ==
  lookup /= "idle" =>
    /\ Cardinality(queried) <= MaxQueries
    /\ lookup /= "resolving" =>
         candidates \cap queried = {} /\ candidates \cup queried = inTurn
    /\ pending \subseteq queried

(* Only nodes that answered in this lookup are announced to, and a lookup    *)
(* that stops early has found a peer.                                       *)
AnnounceEarned ==
  /\ tokens \subseteq responded /\ responded \subseteq queried
  /\ lookup = "announce" =>
       candidates = {} \/ Cardinality(queried) >= MaxQueries
         \/ (found /\ Cardinality(queried) >= EnoughQueries)

DhtSound == LookupBounded /\ AnnounceEarned

(* A lookup comes to an end whatever the nodes do, and whenever it is        *)
(* closed.                                                                  *)
LookupEnds == []<>(lookup = "idle")
=============================================================================
