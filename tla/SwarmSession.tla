------------------------------ MODULE SwarmSession ------------------------------
(***************************************************************************)
(* The networking of one TorrentSession (session.py) over several runs: the *)
(* inbound listener, local discovery and DHT, the outgoing workers with the *)
(* endpoints they claim, and inbound connections.                           *)
(* start() is a coroutine per run; its finally closes everything the        *)
(* session has, while stop() returns at once and a new run may begin before *)
(* the old one has reached the end of its finally.                          *)
(*                                                                          *)
(* Payload, requests and pauses are in PieceScheduler, DiskPipeline and     *)
(* TransferQueue; here a run is downloading, then seeding.                  *)
(***************************************************************************)
EXTENDS Naturals, FiniteSets

CONSTANTS
  Endpoints,            \* peers of the swarm
  MaxPeers,             \* max_peers
  MaxStarts,            \* bound on runs
  MaxEvents             \* bound on runs, disk errors, lost addresses, new
                        \* preferences and stops of a run that is ending

ASSUME SwarmAssumption ==
  /\ IsFiniteSet(Endpoints)
  /\ MaxPeers \in Nat \ {0} /\ MaxStarts \in Nat /\ MaxEvents \in Nat

Runs == 1 .. MaxStarts
Kinds == {"download", "seed"}

VARIABLES
  token, isRunning,     \* the run whose token is _run_token, or 0; is_running
  starts, upsets,       \* counts, bounded by MaxStarts and MaxEvents
  kind,                 \* "seed" once every piece is there
  runs,                 \* per run: control, and the workers it waits for
  listener, shut,       \* run that filled _seed_servers, and are its sockets closed
  lan, dht,             \* sockets of _lpd and _dht
  workers,              \* outgoing workers
  claims,               \* _download_endpoints, _seed_outbound_endpoints
  peers,                \* active_peers
  client,               \* an inbound connection and the run that accepted it
  tuner,                \* progress of _trip_interface_lock or of
                        \* apply_runtime_preferences
  loose,                \* something was left open that no code refers to
  overlapped            \* a run began with something of an earlier one left

swarmVars == <<token, isRunning, starts, upsets, kind, runs, listener, shut, lan, dht,
               workers, claims, peers, client, tuner, loose, overlapped>>
services == <<listener, shut, lan, dht>>
links == <<workers, claims, peers, client>>
control == <<token, isRunning, starts, upsets, kind, loose, overlapped>>

NoRun == [at |-> "none", awaits |-> {}]

NoClient == [run |-> 0, at |-> "none"]

SwarmInit ==
  /\ token = 0 /\ isRunning = FALSE /\ starts = 0 /\ upsets = 0 /\ overlapped = FALSE
  /\ kind \in Kinds
  /\ runs = [r \in Runs |-> NoRun]
  /\ listener = 0 /\ shut = FALSE /\ lan = FALSE /\ dht = FALSE
  /\ workers = {} /\ claims = [k \in Kinds |-> {}] /\ peers = {}
  /\ client = NoClient /\ tuner = "idle" /\ loose = FALSE

Current(r) == isRunning /\ r = token
At(r, at) == runs[r].at = at
Goto(r, at) == runs' = [runs EXCEPT ![r].at = at]
Finish(r) == runs' = [runs EXCEPT ![r] = [NoRun EXCEPT !.at = "done"]]
Over(r) == runs[r].at \in {"none", "done"}
Closed(r) == Over(r) \/ runs[r].at \in {"clients", "services", "end"}

--------------------------------------------------------------------------------
(* Commands are executed one after the other, and new preferences are one.  *)
Tuning == tuner \notin {"idle", "trip", "trip services"}

(* Is anything of an earlier run left?                                      *)
Leftover == workers /= {} \/ client /= NoClient \/ \E r \in Runs : ~Over(r)

(* start(): listener, local discovery and DHT are opened one after the      *)
(* other, each of them only if it is not open.                              *)

StartRun ==
  /\ ~isRunning /\ starts < MaxStarts /\ starts + upsets < MaxEvents /\ ~Tuning
  /\ starts' = starts + 1 /\ token' = starts + 1 /\ isRunning' = TRUE
  /\ runs' = [runs EXCEPT ![starts + 1].at = "listen"]
  /\ overlapped' = (overlapped \/ Leftover)
  /\ UNCHANGED <<upsets, kind, loose, services, links, tuner>>

(* _open_seed_server returns if there is a listener.  The table is filled   *)
(* after the sockets have been opened, which suspends; every port may be    *)
(* taken, and downloads then go on without a listener.                      *)
OpenListener(r) ==
  /\ At(r, "listen")
  /\ Goto(r, IF listener = 0 THEN "binding" ELSE "discovery")
  /\ UNCHANGED <<control, services, links, tuner>>

FillServers(r) ==
  \/ /\ listener' = r /\ shut' = FALSE
     /\ loose' = (loose \/ listener /= 0 \/ \A q \in Runs : Closed(q))
  \/ UNCHANGED <<listener, shut, loose>>

Listening(r) ==
  /\ At(r, "binding") /\ Goto(r, "discovery") /\ FillServers(r)
  /\ UNCHANGED <<token, isRunning, starts, upsets, kind, overlapped, lan, dht, links, tuner>>

OpenDiscovery(r) ==
  /\ At(r, "discovery") /\ Goto(r, "loop")
  /\ lan' = TRUE /\ dht' = TRUE
  /\ UNCHANGED <<control, listener, shut, links, tuner>>

--------------------------------------------------------------------------------
(* The loops of _run_downloading and _run_seeding.                          *)

Slots(k) ==
  IF k = "download" THEN MaxPeers - Cardinality(claims["download"])
  ELSE MaxPeers - Cardinality(peers) - (IF client.at = "open" THEN 1 ELSE 0)

(* Mutant: an endpoint that is taken is tried again.                        *)
StartWorkersAgain(r, k, found) ==
  \E new \in SUBSET found :
    /\ Cardinality(new) <= Slots(k)
    /\ workers' = workers \cup
         {[run |-> r, ep |-> e, kind |-> k, at |-> "connecting", kept |-> TRUE] : e \in new}
    /\ claims' = [claims EXCEPT ![k] = @ \cup new]

(* _start_download_workers, _start_outbound_seed_workers: as many new       *)
(* endpoints as there are slots get a worker.                               *)
StartWorkers(r, k, found) ==
  \E new \in SUBSET (found \ claims[k]) :
    /\ Cardinality(new) <= Slots(k)
    /\ Cardinality(new) = Slots(k) \/ new = found \ claims[k] \/ Slots(k) <= 0
    /\ workers' = workers \cup
         {[run |-> r, ep |-> e, kind |-> k, at |-> "connecting", kept |-> TRUE] : e \in new}
    /\ claims' = [claims EXCEPT ![k] = @ \cup new]

(* A turn of the loop hands over what the tracker task, the DHT and local   *)
(* discovery have found.                                                    *)
Discover(r) ==
  /\ At(r, "loop") /\ Current(r)
  /\ \E found \in SUBSET Endpoints \ {{}} : StartWorkers(r, kind, found)
  /\ UNCHANGED <<control, runs, services, peers, client, tuner>>

(* The last piece has come: seeding begins with the services that are open. *)
BeginSeeding(r) ==
  /\ At(r, "loop") /\ Current(r) /\ kind = "download"
  /\ kind' = "seed" /\ Goto(r, "listen")
  /\ UNCHANGED <<token, isRunning, starts, upsets, loose, overlapped, services, links, tuner>>

Upset == starts + upsets < MaxEvents /\ upsets' = upsets + 1

(* A disk error ends the run from inside, without Stop.                     *)
RunBreaks(r) ==
  /\ At(r, "loop") /\ Current(r)
  /\ isRunning' = FALSE /\ Upset
  /\ Goto(r, "cancel")
  /\ UNCHANGED <<token, starts, loose, overlapped, kind, services, links, tuner>>

(* The loop's condition fails because the run is no longer the current one. *)
LoopOver(r) ==
  /\ At(r, "loop") /\ ~Current(r)
  /\ Goto(r, "cancel")
  /\ UNCHANGED <<control, services, links, tuner>>

--------------------------------------------------------------------------------
(* Outgoing workers and inbound connections.                                *)

WorkerStep == UNCHANGED <<control, runs, services, tuner>>
Become(w, at) == workers' = (workers \ {w}) \cup {[w EXCEPT !.at = at]}

(* Mutant: a connection made for a run that is over is registered.          *)
ConnectedLate(w) ==
  /\ w.at = "connecting" /\ Become(w, "active")
  /\ peers' = peers \cup {[run |-> w.run, ep |-> w.ep, kind |-> w.kind]}
  /\ UNCHANGED <<claims, client>> /\ WorkerStep

Connected(w) ==
  /\ w.at = "connecting"
  /\ IF Current(w.run)
     THEN /\ Become(w, "active")
          /\ peers' = peers \cup {[run |-> w.run, ep |-> w.ep, kind |-> w.kind]}
     ELSE Become(w, "ending") /\ UNCHANGED peers
  /\ UNCHANGED <<claims, client>> /\ WorkerStep

(* Refused, closed by the remote end, or the end of the worker's loop.      *)
WorkerFails(w) ==
  /\ w.at \in {"connecting", "active"} /\ Become(w, "ending")
  /\ UNCHANGED <<claims, peers, client>> /\ WorkerStep

(* The finally of a worker and its done callback.                           *)
WorkerEnds(w) ==
  /\ w.at = "ending"
  /\ workers' = workers \ {w}
  /\ peers' = peers \ {[run |-> w.run, ep |-> w.ep, kind |-> w.kind]}
  /\ claims' = [claims EXCEPT ![w.kind] = @ \ {w.ep}]
  /\ UNCHANGED client /\ WorkerStep

Accept(r) ==
  /\ listener = r /\ ~shut /\ Current(r) /\ client = NoClient
  /\ client' = [run |-> r, at |-> "open"]
  /\ UNCHANGED <<workers, claims, peers>> /\ WorkerStep

(* A PEX message is handled before the handler looks whether its run is     *)
(* over: it may have been buffered when Stop closed the connection.         *)
ClientPex ==
  /\ client /= NoClient
  /\ \E e \in Endpoints :
       StartWorkers(client.run, IF Current(client.run) THEN kind ELSE "seed", {e})
  /\ client' = IF Current(client.run) THEN client ELSE NoClient
  /\ UNCHANGED peers /\ WorkerStep

ClientEnds ==
  /\ client /= NoClient /\ client' = NoClient
  /\ UNCHANGED <<workers, claims, peers>> /\ WorkerStep

--------------------------------------------------------------------------------
(* The finally of start().                                                  *)

Kept == {w \in workers : w.kept}

CancelWorkers(r) ==
  /\ At(r, "cancel")
  /\ workers' = (workers \ Kept) \cup {[w EXCEPT !.at = "ending"] : w \in Kept}
  /\ runs' = [runs EXCEPT ![r].at = "gather",
                          ![r].awaits = {[w EXCEPT !.at = "ending"] : w \in Kept}]
  /\ UNCHANGED <<control, services, claims, peers, client, tuner>>

(* Then _close_seed_server: the table is cleared first, the connections     *)
(* after the sockets have been waited for.                                  *)
ClearServers == listener' = 0 /\ shut' = FALSE
CloseClients ==
  client' = IF client = NoClient THEN client ELSE [client EXCEPT !.at = "closed"]

GatherWorkers(r) ==
  /\ At(r, "gather") /\ runs[r].awaits \cap workers = {}
  /\ workers' = {[w EXCEPT !.kept = FALSE] : w \in workers}
  /\ claims' = [k \in Kinds |-> {}]
  /\ runs' = [runs EXCEPT ![r].at = "clients", ![r].awaits = {}]
  /\ ClearServers
  /\ UNCHANGED <<control, lan, dht, peers, client, tuner>>

DropClients(r) ==
  /\ At(r, "clients") /\ Goto(r, "services") /\ CloseClients
  /\ UNCHANGED <<control, services, workers, claims, peers, tuner>>

(* Mutant: only local discovery is closed.                                  *)
CloseServicesLan(r) ==
  /\ At(r, "services") /\ Goto(r, "end")
  /\ lan' = FALSE
  /\ UNCHANGED <<control, dht, listener, shut, links, tuner>>

CloseServices(r) ==
  /\ At(r, "services") /\ Goto(r, "end")
  /\ lan' = FALSE /\ dht' = FALSE
  /\ UNCHANGED <<control, listener, shut, links, tuner>>

(* The telemetry task goes, the disk pipeline is closed, and the run clears *)
(* is_running if it is still the latest one.                                *)
RunEnds(r) ==
  /\ At(r, "end") /\ Finish(r)
  /\ isRunning' = (isRunning /\ r /= token)
  /\ tuner' = IF Tuning THEN tuner ELSE "idle"
  /\ UNCHANGED <<token, starts, upsets, loose, overlapped, kind, services, links>>

--------------------------------------------------------------------------------
(* stop(): synchronous.  Everything is told to end, nothing is waited for;  *)
(* the run's task is cancelled wherever it is suspended.  In its finally    *)
(* that abandons the rest of the finally, and while it opens the listener   *)
(* it leaves a socket the table does not have.                              *)

Interrupt(r) ==
  IF runs[r].at \in {"listen", "binding", "discovery", "loop", "cancel"}
  THEN Goto(r, "cancel") ELSE Finish(r)

StopRun ==
  /\ starts > 0
  /\ \/ isRunning /\ UNCHANGED upsets
     \/ ~isRunning /\ ~Over(starts) /\ Upset
  /\ ~Tuning
  /\ token' = 0 /\ isRunning' = FALSE
  /\ Interrupt(starts)
  /\ loose' = (loose \/ runs[starts].at \in {"binding", "gather", "clients", "services", "end"})
  /\ tuner' = "idle"
  /\ workers' = (workers \ Kept) \cup {[w EXCEPT !.at = "ending"] : w \in Kept}
  /\ shut' = (listener /= 0) /\ CloseClients /\ peers' = {}
  /\ UNCHANGED <<starts, overlapped, kind, listener, lan, dht, claims>>

--------------------------------------------------------------------------------
(* The telemetry loop finds the bound address gone; or the user has chosen  *)
(* another interface or port: what is open is closed and, if the session    *)
(* still runs by then, opened again.                                        *)

TripBegins(r) ==
  /\ At(r, "loop") /\ Current(r) /\ tuner = "idle" /\ Upset
  /\ isRunning' = FALSE /\ tuner' = "trip"
  /\ workers' = {IF w.at = "active" THEN [w EXCEPT !.at = "ending"] ELSE w : w \in workers}
  /\ UNCHANGED <<token, starts, loose, overlapped, kind, runs, services, claims, peers, client>>

TuneBegins ==
  /\ tuner = "idle" /\ Upset /\ tuner' = "tune"
  /\ workers' = {IF w.at = "active" THEN [w EXCEPT !.at = "ending"] ELSE w : w \in workers}
  /\ UNCHANGED <<token, isRunning, starts, loose, overlapped, kind, runs, services, claims, peers,
                 client>>

TunerClosesServer ==
  /\ tuner \in {"trip", "tune"}
  /\ tuner' = IF tuner = "trip" THEN "trip services" ELSE "tune services"
  /\ ClearServers /\ CloseClients
  /\ UNCHANGED <<control, runs, lan, dht, workers, claims, peers>>

TunerClosesServices ==
  /\ tuner \in {"trip services", "tune services"}
  /\ lan' = FALSE /\ dht' = FALSE
  /\ tuner' = IF tuner = "tune services" /\ isRunning THEN "reopen" ELSE "idle"
  /\ UNCHANGED <<control, runs, listener, shut, links>>

(* is_running is looked at before each opening, and not after it.           *)
TunerReopens ==
  /\ tuner = "reopen"
  /\ IF isRunning
     THEN lan' = TRUE /\ dht' = TRUE /\ tuner' = "listen" /\ ClearServers /\ CloseClients
     ELSE tuner' = "idle" /\ UNCHANGED <<services, client>>
  /\ UNCHANGED <<control, runs, workers, claims, peers>>

TunerListens ==
  /\ tuner = "listen" /\ tuner' = IF listener = 0 THEN "binding" ELSE "idle"
  /\ UNCHANGED <<control, runs, services, links>>

TunerFills ==
  /\ tuner = "binding" /\ tuner' = "idle" /\ FillServers(token)
  /\ UNCHANGED <<token, isRunning, starts, upsets, kind, overlapped, runs, lan, dht, links>>

TunerStep ==
  TunerClosesServer \/ TunerClosesServices \/ TunerReopens \/ TunerListens \/ TunerFills

--------------------------------------------------------------------------------
RunStep(r) ==
  \/ OpenListener(r) \/ Listening(r) \/ OpenDiscovery(r) \/ LoopOver(r) \/ CancelWorkers(r)
  \/ GatherWorkers(r) \/ DropClients(r) \/ CloseServices(r)
  \/ RunEnds(r)

SwarmNext ==
  \/ StartRun \/ StopRun \/ ClientPex \/ ClientEnds \/ TuneBegins \/ TunerStep
  \/ \E r \in Runs :
       \/ RunStep(r) \/ Discover(r)
       \/ BeginSeeding(r) \/ RunBreaks(r)
       \/ Accept(r) \/ TripBegins(r)
  \/ \E w \in workers : Connected(w) \/ WorkerFails(w) \/ WorkerEnds(w)

(* Coroutines are resumed; connects time out; a worker looks at least once  *)
(* a second whether its run is over; a closed connection's handler sees it. *)
(* The user, the disk and the network owe nothing.                          *)
WorkerProgress(w) ==
  Connected(w) \/ WorkerEnds(w) \/ (~Current(w.run) /\ WorkerFails(w))
ClientSeesEnd == client.at = "closed" /\ ClientEnds

SwarmFairness ==
  /\ \A r \in Runs : WF_swarmVars(RunStep(r))
  /\ WF_swarmVars(ClientSeesEnd) /\ WF_swarmVars(TunerStep)
  /\ WF_swarmVars(\E w \in workers : WorkerProgress(w))

SwarmSpec == SwarmInit /\ [][SwarmNext]_swarmVars /\ SwarmFairness

--------------------------------------------------------------------------------
Phases == {"none", "listen", "binding", "discovery", "loop", "cancel", "gather",
           "clients", "services", "end", "done"}

SwarmTypeOK ==
  /\ token \in 0 .. starts /\ isRunning \in BOOLEAN
  /\ \A r \in Runs : runs[r].at \in Phases
  /\ kind \in Kinds /\ listener \in {0} \cup Runs
  /\ claims \in [Kinds -> SUBSET Endpoints]
  /\ client \in {NoClient} \cup [run : Runs, at : {"open", "closed"}]

(* A stopped torrent shows no peers, whatever was being connected when it   *)
(* was stopped.                                                             *)
StopForgetsPeers == token = 0 => peers = {}

(* While runs follow each other in order, a run has one worker for an       *)
(* endpoint, its downloads stay within max_peers, and a run that is under   *)
(* way has what it opened.                                                  *)
OneRunOwnsAll ==
  ~overlapped /\ ~loose => \A r \in Runs :
    LET own == {w \in workers : w.run = r} IN
    /\ Cardinality({w \in own : w.kind = "download"}) <= MaxPeers
    /\ \A v, w \in own : v.ep = w.ep /\ v.kind = w.kind => v = w
    /\ At(r, "loop") /\ Current(r) /\ tuner = "idle" => lan /\ dht /\ ~shut

SessionSound == StopForgetsPeers /\ OneRunOwnsAll

(* A session that has stopped becomes quiet: no socket, task, worker or     *)
(* connection outlives it, however its runs overlapped, unless its cleanup  *)
(* was cut short or raced with new preferences.                             *)
Quiet ==
  listener = 0 /\ ~lan /\ ~dht /\ workers = {} /\ client = NoClient

QuietAfterStop == []<>(isRunning \/ loose \/ Quiet)
================================================================================
