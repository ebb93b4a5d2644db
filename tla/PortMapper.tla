------------------------------- MODULE PortMapper -------------------------------
(***************************************************************************)
(* ConnectivityManager (connectivity.py): one worker thread keeps the        *)
(* router's port mappings in step with the listeners of the sessions, which  *)
(* register and release their ports from other threads.  The worker decides  *)
(* under the lock, talks to the router without it, and takes the lock again  *)
(* to store what came of it; a timer asks for renewals meanwhile, and        *)
(* close() may come at any time.                                             *)
(*                                                                          *)
(* A mapping is its method and whether it is permanent; addresses, error     *)
(* texts and advice are left out.                                            *)
(***************************************************************************)
EXTENDS Naturals, FiniteSets

CONSTANTS
  Ports,                \* listen ports
  Configured,           \* the port of the preferences, probed without a listener
  Requests,             \* what the preferences may ask for
  MaxCalls              \* bound on calls from sessions and preferences

ASSUME MapperAssumption ==
  /\ Configured \in Ports /\ MaxCalls \in Nat
  /\ Requests \subseteq {"auto", "off", "ipv6"}

Methods == {"upnp", "natpmp"}
None == "none"

VARIABLES
  active, probe,        \* _active_ports; is Configured the _probe_port?
  toMap, toRemove,      \* _pending_maps, _pending_removals
  requests,             \* _port_requests
  known,                \* _mappings: the method of each, or None
  due,                  \* ports with a renewal deadline
  status,               \* _snapshots: the status shown, or None
  heard,                \* ports with last_incoming_at
  mapper,               \* the worker thread
  mapperClosed,         \* _closed
  router,               \* mappings the router holds
  lost,                 \* those no later request can remove
  calls                 \* calls so far

mapperVars == <<active, probe, toMap, toRemove, requests, known, due, status,
                heard, mapper, mapperClosed, router, lost, calls>>
wishes == <<active, probe, toMap, toRemove, requests>>
shown == <<status, heard>>
outside == <<router, lost>>

Idle == [at |-> "idle", port |-> Configured, req |-> None, old |-> None, new |-> None]

MapperInit ==
  /\ active = {} /\ probe = FALSE
  /\ toMap = [p \in Ports |-> None] /\ toRemove = {} /\ requests = [p \in Ports |-> None]
  /\ known = [p \in Ports |-> None] /\ due = {}
  /\ status = [p \in Ports |-> None] /\ heard = {}
  /\ mapper = Idle /\ mapperClosed = FALSE
  /\ router = {} /\ lost = {} /\ calls = 0

Desired(p) == p \in active \/ (probe /\ p = Configured)
Put(f, p, v) == [f EXCEPT ![p] = v]

(* _ensure_worker_locked: the thread is started if there is none.            *)
EnsureWorker == mapper' = IF mapper.at = "idle" THEN [Idle EXCEPT !.at = "loop"] ELSE mapper

--------------------------------------------------------------------------------
(* Calls of the sessions and of the preferences; each holds the lock.        *)

Call == calls < MaxCalls /\ calls' = calls + 1 /\ ~mapperClosed

(* The probe ends; if its port differs, its mapping is to go.                *)
DropProbe(p) ==
  /\ probe' = FALSE
  /\ toRemove' = (IF probe /\ p /= Configured THEN toRemove \cup {Configured} ELSE toRemove) \ {p}

RegisterPort(p, req) ==
  /\ Call /\ DropProbe(p)
  /\ active' = active \cup {p} /\ requests' = Put(requests, p, req)
  /\ toMap' = [q \in Ports |->
       IF q = p THEN req ELSE IF probe /\ q = Configured THEN None ELSE toMap[q]]
  /\ EnsureWorker
  /\ UNCHANGED <<known, due, shown, mapperClosed, outside>>

(* Mutant: a port that is released while it waits to be mapped is mapped.    *)
ReleaseStillMaps(p) ==
  /\ Call /\ active' = active \ {p}
  /\ requests' = Put(requests, p, None) /\ due' = due \ {p}
  /\ probe' = (probe /\ p /= Configured) /\ EnsureWorker
  /\ UNCHANGED <<toMap, toRemove, known, shown, mapperClosed, outside>>

ReleasePort(p) ==
  /\ Call /\ active' = active \ {p}
  /\ requests' = Put(requests, p, None) /\ due' = due \ {p}
  /\ toMap' = Put(toMap, p, None) /\ toRemove' = toRemove \cup {p}
  /\ probe' = (probe /\ p /= Configured) /\ EnsureWorker
  /\ UNCHANGED <<known, shown, mapperClosed, outside>>

(* request_refresh: every listener again, or the configured port if none     *)
(* listens.                                                                  *)
RefreshAll(req) ==
  /\ Call
  /\ LET targets == IF active = {} THEN {Configured} ELSE active
         stale == IF probe /\ Configured \notin targets THEN {Configured} ELSE {}
     IN /\ probe' = (active = {})
        /\ toRemove' = (toRemove \cup stale) \ targets
        /\ toMap' = [q \in Ports |->
             IF q \in targets THEN req ELSE IF q \in stale THEN None ELSE toMap[q]]
        /\ requests' = [q \in Ports |-> IF q \in active THEN req ELSE requests[q]]
  /\ EnsureWorker
  /\ UNCHANGED <<active, known, due, shown, mapperClosed, outside>>

(* A remote peer has connected; this is told after a release, too.           *)
MarkIncoming(p) ==
  /\ p \in active /\ p \notin heard
  /\ heard' = heard \cup {p} /\ status' = Put(status, p, "Incoming Confirmed")
  /\ UNCHANGED <<wishes, known, due, mapper, mapperClosed, outside, calls>>

(* The renewal timer: ports that are due are mapped again.                   *)
RenewDue(p) ==
  /\ p \in due \cap active /\ ~mapperClosed
  /\ due' = due \ {p}
  /\ toMap' = IF requests[p] = None THEN toMap ELSE Put(toMap, p, requests[p])
  /\ EnsureWorker
  /\ UNCHANGED <<active, probe, toRemove, requests, known, shown, mapperClosed, outside, calls>>

(* close() forgets everything and removes what it knew by itself.            *)
CloseMapper ==
  /\ ~mapperClosed /\ mapperClosed' = TRUE
  /\ active' = {} /\ probe' = FALSE /\ toMap' = [p \in Ports |-> None] /\ toRemove' = {}
  /\ requests' = [p \in Ports |-> None] /\ known' = [p \in Ports |-> None] /\ due' = {}
  /\ status' = [p \in Ports |-> None] /\ heard' = {}
  /\ LET mine == {m \in router : m.method = known[m.port]} IN
     \/ router' = router \ mine /\ lost' = lost \ mine
     \/ lost' = lost \cup mine /\ UNCHANGED router
  /\ UNCHANGED <<mapper, calls>>

--------------------------------------------------------------------------------
(* The worker thread.                                                        *)

MapperRests ==
  /\ mapper.at = "loop" /\ (mapperClosed \/ (toRemove = {} /\ \A p \in Ports : toMap[p] = None))
  /\ mapper' = Idle
  /\ UNCHANGED <<wishes, known, due, shown, mapperClosed, outside, calls>>

TakeRemoval(p) ==
  /\ mapper.at = "loop" /\ ~mapperClosed /\ p \in toRemove
  /\ toRemove' = toRemove \ {p} /\ toMap' = Put(toMap, p, None)
  /\ known' = Put(known, p, None) /\ due' = due \ {p}
  /\ status' = Put(status, p, None) /\ heard' = heard \ {p}
  /\ mapper' = IF known[p] = None THEN mapper
               ELSE [mapper EXCEPT !.at = "drop", !.port = p, !.old = known[p]]
  /\ UNCHANGED <<active, probe, requests, mapperClosed, outside, calls>>

TakeMap(p) ==
  /\ mapper.at = "loop" /\ ~mapperClosed /\ toRemove = {} /\ toMap[p] /= None
  /\ toMap' = Put(toMap, p, None) /\ status' = Put(status, p, "Mapping")
  /\ mapper' = [at |-> "map", port |-> p, req |-> toMap[p], old |-> known[p], new |-> None]
  /\ UNCHANGED <<active, probe, toRemove, requests, known, due, heard, mapperClosed, outside,
                 calls>>

(* _remove_mapping: an unreachable router keeps its mapping.                 *)
DropMapping ==
  /\ mapper.at = "drop" /\ mapper' = [Idle EXCEPT !.at = "loop"]
  /\ LET gone == {m \in router : m.port = mapper.port /\ m.method = mapper.old}
     IN \/ router' = router \ gone /\ lost' = lost \ gone
        \/ lost' = lost \cup gone /\ UNCHANGED router
  /\ UNCHANGED <<wishes, known, due, shown, mapperClosed, calls>>

(* The router makes a mapping; one of the other method stays with it.        *)
Entry(m) == [port |-> mapper.port, method |-> m]
Superseded(m) == {e \in router : e.port = mapper.port /\ e.method /= m}

Makes(m) ==
  /\ mapper' = [mapper EXCEPT !.at = "store", !.new = m]
  /\ router' = router \cup {Entry(m)} /\ lost' = (lost \cup Superseded(m)) \ {Entry(m)}

(* _map_upnp, and _map_natpmp, which comes second.                          *)
MapUpnp == mapper.req = "auto" /\ Makes("upnp")
MapNatPmp == mapper.req = "auto" /\ Makes("natpmp")

(* A request whose answer is lost counts as failed although the router has   *)
(* carried it out.                                                          *)
MappingFails ==
  /\ mapper.req = "auto" /\ mapper' = [mapper EXCEPT !.at = "store", !.new = "Unmapped"]
  /\ \/ UNCHANGED outside
     \/ \E m \in Methods :
          /\ router' = router \cup {Entry(m)}
          /\ lost' = IF known[mapper.port] = m THEN lost ELSE lost \cup {Entry(m)}

NothingToMap ==
  /\ mapper.req \in {"off", "ipv6"}
  /\ mapper' = [mapper EXCEPT !.at = "store",
                              !.new = IF mapper.req = "off" THEN "Disabled" ELSE "IPv6 Direct"]
  /\ UNCHANGED outside

PerformRefresh ==
  /\ mapper.at = "map"
  /\ MapUpnp \/ MapNatPmp \/ MappingFails \/ NothingToMap
  /\ UNCHANGED <<wishes, known, due, shown, mapperClosed, calls>>

(* Afterwards, under the lock.  Nobody wants the port any more: what was     *)
(* made is taken down at once.                                               *)
StoreUnwanted ==
  /\ mapper.at = "store" /\ ~Desired(mapper.port)
  /\ LET p == mapper.port
         stale == IF mapper.new \in Methods THEN mapper.new ELSE known[p]
     IN /\ known' = IF mapper.new \in Methods THEN known ELSE Put(known, p, None)
        /\ due' = due \ {p} /\ status' = Put(status, p, None) /\ heard' = heard \ {p}
        /\ mapper' = IF stale = None THEN [Idle EXCEPT !.at = "loop"]
                     ELSE [mapper EXCEPT !.at = "drop", !.old = stale]
  /\ UNCHANGED <<wishes, mapperClosed, outside, calls>>

(* Mutant: a failed renewal forgets the mapping it could not renew.          *)
MappingAfterForgets(p) == IF mapper.new \in Methods THEN mapper.new ELSE None

(* A failed renewal keeps the mapping, which may still hold; switching       *)
(* mapping off does not.                                                     *)
MappingAfter(p) ==
  IF mapper.new \in Methods THEN mapper.new
  ELSE IF mapper.new = "Disabled" THEN None
  ELSE IF mapper.old /= None THEN mapper.old ELSE known[p]

StatusAfter(p) ==
  IF mapper.new \notin Methods \cup {"Disabled"} /\ mapper.old /= None
  THEN "Mapped (refresh failed)"
  ELSE IF p \in heard THEN "Incoming Confirmed"
  ELSE IF mapper.new \in Methods THEN "Mapped" ELSE mapper.new

StoreWanted ==
  /\ mapper.at = "store" /\ Desired(mapper.port)
  /\ LET p == mapper.port IN
     /\ known' = Put(known, p, MappingAfter(p))
     /\ status' = Put(status, p, StatusAfter(p))
     /\ \/ MappingAfter(p) /= None /\ p \in active /\ due' = due \cup {p}
        \/ /\ MappingAfter(p) = None \/ p \notin active \/ mapper.new = "upnp"
           /\ due' = due \ {p}          \* none, a probe's, or a permanent one
     /\ mapper' = IF mapper.new = "Disabled" /\ mapper.old /= None
                  THEN [mapper EXCEPT !.at = "drop"] ELSE [Idle EXCEPT !.at = "loop"]
  /\ UNCHANGED <<wishes, heard, mapperClosed, outside, calls>>

(* A lease runs out.                                                         *)
LeaseExpires(m) ==
  /\ m \in router /\ router' = router \ {m} /\ lost' = lost \ {m}
  /\ UNCHANGED <<wishes, known, due, shown, mapper, mapperClosed, calls>>

--------------------------------------------------------------------------------
MapperStep ==
  \/ MapperRests \/ DropMapping \/ PerformRefresh \/ StoreUnwanted \/ StoreWanted
  \/ \E p \in Ports : TakeRemoval(p) \/ TakeMap(p)

MapperNext ==
  \/ \E p \in Ports :
       \/ \E req \in Requests : RegisterPort(p, req)
       \/ ReleasePort(p) \/ MarkIncoming(p) \/ RenewDue(p)
  \/ \E req \in Requests : RefreshAll(req)
  \/ CloseMapper \/ MapperStep
  \/ \E m \in router : LeaseExpires(m)

(* The thread goes on; the router answers or the request times out.          *)
MapperFairness == WF_mapperVars(MapperStep)

MapperSpec == MapperInit /\ [][MapperNext]_mapperVars /\ MapperFairness

(* _rebuild_aggregate_locked: the one status shown for all listeners.        *)
Aggregate ==
  LET targets == IF active = {} /\ probe THEN {Configured} ELSE active
      mapped == {p \in targets : known[p] /= None}
  IN CASE targets = {} -> "Waiting"
       [] targets /= {} /\ targets \cap heard /= {} -> "Incoming Confirmed"
       [] OTHER ->
          IF \E p \in targets : status[p] = "Mapping" THEN "Mapping"
          ELSE IF mapped = targets THEN "Mapped"
          ELSE IF mapped /= {} THEN "Partially Mapped"
          ELSE IF \A p \in targets : status[p] = "IPv6 Direct" THEN "IPv6 Direct"
          ELSE IF \A p \in targets : status[p] = "Disabled" THEN "Disabled"
          ELSE IF \E p \in targets : status[p] = "Unmapped" THEN "Unmapped"
          ELSE "Waiting"

--------------------------------------------------------------------------------
MapperTypeOK ==
  /\ active \subseteq Ports /\ toRemove \subseteq Ports /\ due \subseteq Ports
  /\ toMap \in [Ports -> Requests \cup {None}]
  /\ known \in [Ports -> Methods \cup {None}]
  /\ mapper.at \in {"idle", "loop", "map", "store", "drop"}
  /\ router \subseteq [port : Ports, method : Methods] /\ lost \subseteq router

Handling(p) == mapper.at \in {"map", "store"} /\ mapper.port = p

(* A mapping is kept only for a port somebody wants, or one whose removal    *)
(* is queued; every queued wish has a worker to carry it out; and the        *)
(* overview says "Mapping" only while the worker is at it.                   *)
KeptForSomebody == \A p \in Ports : known[p] /= None => Desired(p) \/ p \in toRemove
WishesAreServed ==
  mapper.at = "idle" => toRemove = {} /\ \A p \in Ports : toMap[p] = None
MappingIsUnderWay ==
  Aggregate = "Mapping" => \E p \in Ports : Handling(p)

MapperSound == KeptForSomebody /\ WishesAreServed /\ MappingIsUnderWay

(* A port that is released, or a closed manager, leaves no mapping on the    *)
(* router, whatever was under way; only one the manager could not know or    *)
(* could not remove stays, until its lease ends.                             *)
Unmapped(p) == \A m \in router : m.port = p => m \in lost

ReleasedIsUnmapped == \A p \in Ports : []<>(Desired(p) \/ Unmapped(p))
================================================================================
