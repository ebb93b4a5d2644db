---------------------------- MODULE NetworkProofs ----------------------------
(***************************************************************************)
(* The network of a session, for any bounds: what SwarmSession promises of   *)
(* the runs of a session however they are started, stopped and interrupted,  *)
(* what PortMapper promises of the mappings of its ports, and, for any       *)
(* trackers, swarms, nodes, hosts, sources and contacts, what the sources of *)
(* peers promise: TrackerAnnounce, ScrapeCoordinator, DhtLookup,             *)
(* LocalDiscovery, MagnetResolver and PeerExchange, alone and together.  The *)
(* lemmas on sets of naturals are those of RecordProofs.                     *)
(***************************************************************************)
EXTENDS SwarmSession, PortMapper, PeerSources, RecordProofs

(* The runs of a session (session.py).                                       *)

(* Any outgoing worker of any run; the tuner is idle, trips the interface    *)
(* lock, or applies new preferences.                                         *)
Workers ==
  [run : Runs, ep : Endpoints, kind : Kinds, at : {"connecting", "active", "ending"}, kept : BOOLEAN]
Tuners == {"idle", "trip", "trip services", "tune", "tune services", "reopen", "listen", "binding"}

(* The types of the runs, of what they await and of what is connected;       *)
(* downloads have max_peers slots.                                           *)
ControlTypes ==
  /\ starts \in 0 .. MaxStarts /\ token \in 0 .. starts
  /\ isRunning \in BOOLEAN /\ kind \in Kinds /\ tuner \in Tuners
RunTypes ==
  /\ runs \in [Runs -> [at : Phases, awaits : SUBSET Workers]]
  /\ \A r \in Runs : \A w \in runs[r].awaits : w.at = "ending"
LinkTypes ==
  /\ workers \subseteq Workers
  /\ claims \in [Kinds -> SUBSET Endpoints] /\ Cardinality(claims["download"]) <= MaxPeers
  /\ listener \in {0} \cup Runs
  /\ client \in {NoClient} \cup [run : Runs, at : {"open", "closed"}]

(* The phases in which a run opens its services and those in which its       *)
(* finally has let its workers go; the latest run is in one of these         *)
(* phases.                                                                   *)
Opening == {"listen", "binding", "discovery", "loop"}
Ending == {"clients", "services", "end", "done"}
LastAt(phases) == starts \in Runs /\ runs[starts].at \in phases

(* The current token is that of the latest run, which is then in front of    *)
(* its finally; later runs have not begun.                                   *)
RunsInTurn ==
  /\ token \in {0, starts}
  /\ isRunning => token = starts /\ LastAt(Opening)
  /\ \A r \in Runs : r > starts => runs[r].at = "none"
  /\ starts = 0 => workers = {} /\ client = NoClient /\ ~shut

(* While no run began over what an earlier one left, only the latest run     *)
(* has anything.                                                             *)
LastRunOnly ==
  /\ \A r \in Runs : r # starts => Over(r)
  /\ ~ LastAt({"none"})
  /\ \A w \in workers : w.run = starts
  /\ client # NoClient => client.run = starts

(* Its workers differ in endpoint or kind, hold the claim on their endpoint  *)
(* until the claims are cleared, and are awaited; in the last phases only    *)
(* an endpoint heard of by PEX after Stop still has a worker.                *)
OwnWorkers ==
  /\ \A v, w \in workers : v.ep = w.ep /\ v.kind = w.kind => v = w
  /\ ~ LastAt(Ending) => \A w \in workers : w.kept /\ w.ep \in claims[w.kind]
  /\ LastAt({"gather"}) =>
       \A w \in workers : w \in runs[starts].awaits \/ (client = NoClient /\ w.kind = "seed")
  /\ LastAt(Ending) => (\A w \in workers : w.kind = "seed") /\ (client # NoClient => workers = {})

(* Its sockets are shut only by Stop, and its loop has local discovery and   *)
(* DHT unless new preferences are being applied.                             *)
ServicesUp ==
  /\ shut => LastAt({"cancel", "gather"})
  /\ isRunning /\ LastAt({"loop"}) /\ tuner # "reopen" => lan /\ dht
  /\ tuner \in {"trip", "trip services"} => ~isRunning /\ LastAt(Phases \ {"none", "done"})

(* All that only in runs that follow each other in order.                    *)
InOrder == ~overlapped /\ ~loose => LastRunOnly /\ OwnWorkers /\ ServicesUp

(* The inductive invariant of a session.                                     *)
SwarmInv ==
  ControlTypes /\ RunTypes /\ LinkTypes /\ RunsInTurn /\ StopForgetsPeers /\ InOrder
--------------------------------------------------------------------------------
(* Run r goes to another phase, awaits no more than before, and the other    *)
(* runs stay.                                                                *)
Moved(r, at) ==
  /\ runs' \in [Runs -> [at : Phases, awaits : SUBSET Workers]]
  /\ runs'[r].at = at /\ runs'[r].awaits \subseteq runs[r].awaits
  /\ at # "done" => runs'[r].awaits = runs[r].awaits
  /\ \A q \in Runs : q # r => runs'[q] = runs[q]

(* Every step of a run is such a move.                                       *)
LEMMA MovesTo ==
  ASSUME RunTypes, NEW r \in Runs, NEW at \in Phases, Goto(r, at)
  PROVE  Moved(r, at)
BY DEF RunTypes, Goto, Moved

(* So is its end.                                                            *)
LEMMA FinishMoves ==
  ASSUME RunTypes, NEW r \in Runs, Finish(r)
  PROVE  Moved(r, "done")
BY DEF RunTypes, Finish, Moved, NoRun, Phases
--------------------------------------------------------------------------------
(* A worker that was cancelled.                                              *)
Halted(w) == [w EXCEPT !.at = "ending"]

(* It is the same worker at its end.                                         *)
LEMMA HaltedFields ==
  ASSUME NEW w \in Workers
  PROVE  /\ Halted(w) \in Workers /\ Halted(w).at = "ending"
         /\ Halted(w).run = w.run /\ Halted(w).ep = w.ep /\ Halted(w).kind = w.kind
         /\ Halted(w).kept = w.kept
BY DEF Halted, Workers

(* A worker that no set of tasks holds any more.                             *)
LetGo(w) == [w EXCEPT !.kept = FALSE]

(* It is the same worker otherwise.                                          *)
LEMMA LetGoFields ==
  ASSUME NEW w \in Workers
  PROVE  /\ LetGo(w) \in Workers /\ LetGo(w).run = w.run /\ LetGo(w).ep = w.ep
         /\ LetGo(w).kind = w.kind
BY DEF LetGo, Workers

(* Cancelling any of the workers leaves them the workers they were, and      *)
(* apart from each other.                                                    *)
LEMMA HaltedWorkers ==
  ASSUME LinkTypes, NEW H \in SUBSET workers, workers' = (workers \ H) \cup {Halted(w) : w \in H}
  PROVE  /\ workers' \subseteq Workers
         /\ \A v \in workers' : \E w \in workers :
              /\ v.run = w.run /\ v.ep = w.ep /\ v.kind = w.kind /\ v.kept = w.kept
              /\ v = IF w \in H THEN Halted(w) ELSE w
         /\ (\A v, w \in workers : v.ep = w.ep /\ v.kind = w.kind => v = w)
            => (\A v, w \in workers' : v.ep = w.ep /\ v.kind = w.kind => v = w)
<1>1. \A v \in workers' : \E w \in workers : v = IF w \in H THEN Halted(w) ELSE w
  OBVIOUS
<1>2. \A w \in workers :
        /\ Halted(w) \in Workers /\ Halted(w).run = w.run /\ Halted(w).ep = w.ep
        /\ Halted(w).kind = w.kind /\ Halted(w).kept = w.kept
  BY HaltedFields DEF LinkTypes
<1>3. \A v \in workers' : v \in Workers /\ \E w \in workers :
              /\ v.run = w.run /\ v.ep = w.ep /\ v.kind = w.kind /\ v.kept = w.kept
              /\ v = IF w \in H THEN Halted(w) ELSE w
  BY <1>1, <1>2 DEF LinkTypes
<1> QED
  BY <1>3

(* _start_download_workers, _start_outbound_seed_workers: new workers for    *)
(* endpoints that were not claimed, which are claimed then; downloads fit    *)
(* into max_peers.                                                           *)
LEMMA StartWorkersKeeps ==
  ASSUME LinkTypes, NEW r \in Runs, NEW k \in Kinds, NEW eps \in SUBSET Endpoints,
         StartWorkers(r, k, eps)
  PROVE  \E new \in SUBSET (eps \ claims[k]) :
           /\ workers' = workers \cup
                {[run |-> r, ep |-> e, kind |-> k, at |-> "connecting", kept |-> TRUE] : e \in new}
           /\ claims' = [claims EXCEPT ![k] = @ \cup new]
           /\ workers' \subseteq Workers
           /\ claims' \in [Kinds -> SUBSET Endpoints] /\ Cardinality(claims'["download"]) <= MaxPeers
<1>1. PICK new \in SUBSET (eps \ claims[k]) :
           /\ Cardinality(new) <= Slots(k)
           /\ workers' = workers \cup
                {[run |-> r, ep |-> e, kind |-> k, at |-> "connecting", kept |-> TRUE] : e \in new}
           /\ claims' = [claims EXCEPT ![k] = @ \cup new]
  BY DEF StartWorkers
<1>2. new \subseteq Endpoints /\ claims \in [Kinds -> SUBSET Endpoints]
  BY DEF LinkTypes
<1>3. \A e \in new : [run |-> r, ep |-> e, kind |-> k, at |-> "connecting", kept |-> TRUE] \in Workers
  BY <1>2, Zenon DEF Workers
<1>4. claims' \in [Kinds -> SUBSET Endpoints]
  BY <1>1, <1>2
<1>5. Cardinality(claims'["download"]) <= MaxPeers
  <2>1. CASE k # "download"
    BY <1>1, <1>2, <2>1 DEF LinkTypes
  <2>2. CASE k = "download"
    <3>1. IsFiniteSet(new) /\ IsFiniteSet(claims["download"])
      BY <1>2, SwarmAssumption, FS_Subset DEF Kinds
    <3>2. claims'["download"] = claims["download"] \cup new /\ claims["download"] \cap new = {}
      BY <1>1, <1>2, <2>2
    <3>3. Cardinality(claims'["download"]) = Cardinality(claims["download"]) + Cardinality(new)
      <4>1. Cardinality(claims["download"]) \in Nat /\ Cardinality(new) \in Nat
        BY <3>1, FS_CardinalityType
      <4> QED
        <5>1. /\ Cardinality(claims["download"] \cup new)
                   = Cardinality(claims["download"]) + Cardinality(new)
                       - Cardinality(claims["download"] \cap new)
          BY <3>1, FS_Union
        <5>2. Cardinality({}) = 0
          BY FS_EmptySet
        <5>3. Cardinality(claims["download"] \cap new) = 0
          BY <3>2, <5>2
        <5> QED
          BY <3>2, <4>1, <5>1, <5>3
    <3>4. Cardinality(new) <= MaxPeers - Cardinality(claims["download"])
      BY <1>1, <2>2 DEF Slots
    <3>5. Cardinality(claims["download"]) \in Nat /\ Cardinality(new) \in Nat
      BY <3>1, FS_CardinalityType
    <3> QED
      BY <3>3, <3>4, <3>5, SwarmAssumption
  <2> QED
    BY <2>1, <2>2
<1> QED
  BY <1>1, <1>3, <1>4, <1>5 DEF LinkTypes

(* Workers of endpoints that were not claimed differ from those there are.   *)
LEMMA NewWorkersApart ==
  ASSUME LinkTypes, NEW r \in Runs, NEW k \in Kinds, NEW eps \in SUBSET Endpoints,
         StartWorkers(r, k, eps),
         \A v, w \in workers : v.ep = w.ep /\ v.kind = w.kind => v = w,
         \A w \in workers : w.kept /\ w.ep \in claims[w.kind]
  PROVE  /\ \A v, w \in workers' : v.ep = w.ep /\ v.kind = w.kind => v = w
         /\ \A w \in workers' : w.kept /\ w.ep \in claims'[w.kind]
         /\ \A w \in workers' : w \in workers \/ (w.kind = k /\ w.run = r)
<1> DEFINE NewWorker(e) == [run |-> r, ep |-> e, kind |-> k, at |-> "connecting", kept |-> TRUE]
<1>1. PICK new \in SUBSET (eps \ claims[k]) :
           /\ workers' = workers \cup {NewWorker(e) : e \in new}
           /\ claims' = [claims EXCEPT ![k] = @ \cup new]
  BY StartWorkersKeeps
<1>2. \A e \in new : /\ NewWorker(e).run = r /\ NewWorker(e).ep = e /\ NewWorker(e).kind = k /\ NewWorker(e).kept
                     /\ e \notin claims[k] /\ e \in claims'[k]
  BY <1>1 DEF LinkTypes
<1> HIDE DEF NewWorker
<1>3. \A w \in workers' : w \in workers \/ \E e \in new : w = NewWorker(e)
  BY <1>1
<1>4. \A w \in workers : w.kind \in Kinds /\ w.ep \in claims'[w.kind]
  BY <1>1 DEF LinkTypes, Workers
<1>5. \A v, w \in workers' : v.ep = w.ep /\ v.kind = w.kind => v = w
  <2> SUFFICES ASSUME NEW v \in workers', NEW w \in workers', v.ep = w.ep, v.kind = w.kind
               PROVE  v = w
    OBVIOUS
  <2>1. CASE v \in workers /\ w \in workers
    BY <2>1
  <2>2. CASE v \notin workers /\ w \notin workers
    BY <1>2, <1>3, <2>2
  <2>3. CASE v \in workers /\ w \notin workers
    BY <1>2, <1>3, <2>3
  <2>4. CASE v \notin workers /\ w \in workers
    BY <1>2, <1>3, <2>4
  <2> QED
    BY <2>1, <2>2, <2>3, <2>4
<1>6. \A w \in workers' : w.kept /\ w.ep \in claims'[w.kind]
  <2> SUFFICES ASSUME NEW w \in workers' PROVE w.kept /\ w.ep \in claims'[w.kind]
    OBVIOUS
  <2>1. CASE w \in workers
    BY <1>4, <2>1, Zenon
  <2>2. CASE \E e \in new : w = NewWorker(e)
    <3>1. PICK e \in new : w = NewWorker(e)
      BY <2>2
    <3>2. w.kept /\ w.ep = e /\ w.kind = k /\ e \in claims'[k]
      BY <1>2, <3>1, Zenon
    <3> QED
      BY <3>2, Zenon
  <2> QED
    BY <1>3, <2>1, <2>2
<1>7. \A w \in workers' : w \in workers \/ (w.kind = k /\ w.run = r)
  BY <1>2, <1>3
<1> QED
  BY <1>5, <1>6, <1>7

(* start() begins a run: over what an earlier one left, or with nothing      *)
(* left.                                                                     *)
LEMMA StartRunKeeps ==
  ASSUME SwarmInv, StartRun
  PROVE  SwarmInv'
<1> USE DEF SwarmInv
<1>0. starts \in Nat /\ starts + 1 \in Runs /\ starts + 1 # starts
  BY SwarmAssumption DEF StartRun, ControlTypes, Runs
<1>1. PICK s \in Runs : s = starts + 1
  BY <1>0
<1>2. starts' = s /\ token' = s /\ Moved(s, "listen")
  BY <1>1, MovesTo DEF StartRun, Goto, Phases
<1>3. isRunning' /\ isRunning' \in BOOLEAN
  BY Zenon DEF StartRun
<1>4. ~isRunning /\ tuner' = tuner /\ tuner \in {"idle", "trip", "trip services"}
  BY DEF StartRun, Tuning
<1>5. UNCHANGED <<kind, loose, listener, shut, lan, dht, workers, claims, peers, client>>
  BY Zenon DEF StartRun, services, links
<1>6. ControlTypes'
  <2>1. kind' \in Kinds /\ tuner' \in Tuners
    BY <1>4, <1>5 DEF ControlTypes
  <2>2. starts' \in 0 .. MaxStarts /\ token' \in 0 .. starts'
    BY <1>2, SwarmAssumption DEF Runs
  <2> QED
    BY <1>3, <2>1, <2>2 DEF ControlTypes
<1>7. RunTypes' /\ LinkTypes'
  BY <1>2, <1>5 DEF RunTypes, LinkTypes, Moved
<1>8. \A S : LastAt(S)' <=> "listen" \in S
  BY <1>2 DEF LastAt, Moved
<1>9. RunsInTurn'
  <2>1. LastAt(Opening)' /\ starts' # 0
    BY <1>2 DEF LastAt, Moved, Opening, Runs
  <2>2. \A r \in Runs : r > starts' => runs'[r].at = "none"
    <3> SUFFICES ASSUME NEW r \in Runs, r > starts' PROVE runs'[r].at = "none"
      OBVIOUS
    <3>1. r > starts /\ r # s
      BY <1>0, <1>1, <1>2
    <3> QED
      BY <1>2, <3>1 DEF Moved, RunsInTurn
  <2> QED
    BY <1>2, <2>1, <2>2 DEF RunsInTurn
<1>10. StopForgetsPeers'
  BY <1>2 DEF StopForgetsPeers, Runs
<1>11. ASSUME ~overlapped', ~loose' PROVE LastRunOnly' /\ OwnWorkers' /\ ServicesUp'
  <2>1. ~loose
    BY <1>5, <1>11
  <2>2. ~overlapped /\ ~Leftover
    <3>1. overlapped' = (overlapped \/ Leftover)
      BY DEF StartRun
    <3> QED
      BY <1>11, <3>1, Zenon
  <2>3. workers = {} /\ client = NoClient /\ \A r \in Runs : Over(r)
    BY <2>2 DEF Leftover
  <2>4. \A r \in Runs : r # s => Over(r)'
    BY <1>2, <2>3 DEF Over, Moved
  <2>5. LastRunOnly' /\ OwnWorkers'
    BY <1>2, <1>5, <1>8, <2>3, <2>4 DEF LastRunOnly, OwnWorkers
  <2>6. LastRunOnly /\ ServicesUp
    BY <2>1, <2>2 DEF InOrder
  <2>7. ~ LastAt({"cancel", "gather"}) /\ (starts \in Runs => LastAt({"none", "done"}))
    BY <2>3 DEF LastAt, Over
  <2>8. starts = 0 \/ starts \in Runs
    BY <1>0, <1>1, SwarmAssumption DEF Runs
  <2>9. ~shut
    BY <2>6, <2>7 DEF ServicesUp
  <2>10. tuner \notin {"trip", "trip services"}
    BY <2>6, <2>3 DEF ServicesUp, LastAt, Over
  <2>11. ServicesUp'
    BY <1>4, <1>5, <1>8, <2>9, <2>10, Zenon DEF ServicesUp
  <2> QED
    BY <2>5, <2>11
<1> QED
  BY <1>6, <1>7, <1>9, <1>10, <1>11 DEF InOrder

(* stop(): the latest run goes to its finally, or is cut short in it.        *)
LEMMA StopRunKeeps ==
  ASSUME SwarmInv, StopRun
  PROVE  SwarmInv'
<1> USE DEF SwarmInv
<1>1. starts \in Runs /\ starts > 0
  BY SwarmAssumption DEF StopRun, ControlTypes, Runs
<1>2. /\ token' = 0 /\ UNCHANGED <<starts, kind>> /\ tuner' = "idle" /\ peers' = {}
  BY DEF StopRun
<1>3. ~isRunning' /\ isRunning' \in BOOLEAN
  BY Zenon DEF StopRun
<1>4. PICK at \in {"cancel", "done"} :
        /\ Moved(starts, at)
        /\ at = IF LastAt({"listen", "binding", "discovery", "loop", "cancel"}) THEN "cancel" ELSE "done"
  BY <1>1, MovesTo, FinishMoves DEF StopRun, Interrupt, Phases, LastAt
<1>5. workers' = (workers \ Kept) \cup {Halted(w) : w \in Kept} /\ Kept \in SUBSET workers
  BY DEF StopRun, Kept, Halted
<1>h. \A v \in workers' : \E w \in workers :
         v.run = w.run /\ v.ep = w.ep /\ v.kind = w.kind /\ v.kept = w.kept
  <2>1. \A v \in workers' : \E w \in workers :
          /\ v.run = w.run /\ v.ep = w.ep /\ v.kind = w.kind /\ v.kept = w.kept
          /\ v = IF w \in Kept THEN Halted(w) ELSE w
    BY <1>5, HaltedWorkers, Zenon
  <2> QED
    BY <2>1, Zenon
<1>6. UNCHANGED <<claims, listener>> /\ client' = (IF client = NoClient THEN client ELSE [client EXCEPT !.at = "closed"])
  BY DEF StopRun, CloseClients
<1>7. client' = NoClient <=> client = NoClient
  BY <1>6 DEF NoClient
<1>8. client # NoClient => client'.run = client.run /\ client' \in [run : Runs, at : {"open", "closed"}]
  BY <1>6 DEF LinkTypes
<1>9. ControlTypes'
  <2>1. kind' \in Kinds /\ tuner' \in Tuners
    BY <1>2 DEF ControlTypes, Tuners
  <2>2. starts' = starts /\ token' = 0 /\ starts \in 0 .. MaxStarts
    BY <1>2 DEF ControlTypes
  <2>3. starts' \in 0 .. MaxStarts /\ token' \in 0 .. starts'
    BY <2>2, SwarmAssumption
  <2> QED
    BY <1>3, <2>1, <2>3 DEF ControlTypes
<1>10. RunTypes'
  BY <1>1, <1>4 DEF RunTypes, Moved
<1>11. LinkTypes'
  BY <1>5, <1>6, <1>7, <1>8, HaltedWorkers DEF LinkTypes
<1>12. RunsInTurn'
  BY <1>1, <1>2, <1>3, <1>4 DEF RunsInTurn, Moved, Runs
<1>13. StopForgetsPeers'
  BY <1>2 DEF StopForgetsPeers
<1>14. ASSUME ~overlapped', ~loose' PROVE LastRunOnly' /\ OwnWorkers' /\ ServicesUp'
  <2>1. ~overlapped
    BY <1>14 DEF StopRun
  <2>2. ~loose /\ runs[starts].at \notin {"binding", "gather", "clients", "services", "end"}
    BY <1>14, Zenon DEF StopRun
  <2>3. LastRunOnly /\ OwnWorkers
    BY <2>1, <2>2 DEF InOrder
  <2>4. LastAt({"listen", "discovery", "loop", "cancel"})
    <3>1. runs[starts].at # "none" /\ runs[starts].at \in Phases
      BY <1>1, <2>3 DEF LastRunOnly, LastAt, RunTypes
    <3>2. isRunning => LastAt(Opening)
      BY DEF RunsInTurn
    <3>3. isRunning \/ ~Over(starts)
      BY DEF StopRun
    <3> QED
      BY <1>1, <2>2, <3>1, <3>2, <3>3 DEF LastAt, Opening, Over, Phases
  <2>5. \A S : LastAt(S)' <=> "cancel" \in S
    BY <1>1, <1>2, <1>4, <2>4 DEF LastAt, Moved
  <2>6. LastRunOnly'
    <3>1. \A r \in Runs : r # starts => Over(r)'
      BY <1>4, <2>3 DEF LastRunOnly, Over, Moved
    <3>2. \A w \in workers' : w.run = starts
      BY <1>h, <2>3 DEF LastRunOnly
    <3>3. client' # NoClient => client'.run = starts
      BY <1>7, <1>8, <2>3 DEF LastRunOnly
    <3> QED
      BY <1>2, <2>5, <3>1, <3>2, <3>3 DEF LastRunOnly
  <2>7. OwnWorkers'
    <3>1. ~ LastAt(Ending)
      BY <2>4 DEF LastAt, Ending
    <3>2. \A w \in workers : w.kept /\ w.ep \in claims[w.kind]
      BY <2>3, <3>1 DEF OwnWorkers
    <3>3. \A v, w \in workers' : v.ep = w.ep /\ v.kind = w.kind => v = w
      BY <1>5, <2>3, HaltedWorkers DEF OwnWorkers
    <3>4. \A w \in workers' : w.kept /\ w.ep \in claims'[w.kind]
      BY <1>6, <1>h, <3>2, Zenon
    <3> QED
      BY <2>5, <3>3, <3>4 DEF OwnWorkers, Ending
  <2>8. ServicesUp'
    BY <1>2, <1>3, <2>5 DEF ServicesUp
  <2> QED
    BY <2>6, <2>7, <2>8
<1> QED
  BY <1>9, <1>10, <1>11, <1>12, <1>13, <1>14 DEF InOrder

(* A PEX message of an inbound connection starts workers, also after Stop.   *)
LEMMA ClientPexKeeps ==
  ASSUME SwarmInv, ClientPex
  PROVE  SwarmInv'
<1> USE SwarmAssumption DEF SwarmInv
<1>0. PICK e \in Endpoints : StartWorkers(client.run, IF Current(client.run) THEN kind ELSE "seed", {e})
  BY DEF ClientPex
<1>a. PICK k \in Kinds : k = IF Current(client.run) THEN kind ELSE "seed"
  BY DEF ControlTypes, Kinds
<1>b. PICK q \in Runs : q = client.run
  BY DEF ClientPex, LinkTypes
<1>c. StartWorkers(q, k, {e})
  BY <1>0, <1>a, <1>b
<1>d. /\ client' = (IF Current(q) THEN client ELSE NoClient) /\ client # NoClient
      /\ UNCHANGED <<starts, runs, listener, isRunning, token>>
  BY <1>b DEF ClientPex, WorkerStep, control, services
<1>1. ControlTypes'
  BY DEF ClientPex, WorkerStep, control, ControlTypes
<1>2. RunTypes'
  BY DEF ClientPex, WorkerStep, RunTypes
<1>3. LinkTypes'
  BY <1>c, <1>d, StartWorkersKeeps DEF LinkTypes
<1>4. RunsInTurn'
  BY DEF ClientPex, WorkerStep, control, LastAt, RunsInTurn
<1>5. StopForgetsPeers'
  BY DEF ClientPex, WorkerStep, control, StopForgetsPeers
<1> SUFFICES ASSUME ~overlapped', ~loose' PROVE LastRunOnly' /\ OwnWorkers' /\ ServicesUp'
  BY <1>1, <1>2, <1>3, <1>4, <1>5 DEF InOrder
<1>6. ~overlapped /\ ~loose
  BY Zenon DEF ClientPex, WorkerStep, control
<1>7. LastRunOnly'
  BY <1>6 DEF ClientPex, StartWorkers, WorkerStep, control, LastAt, LastRunOnly, Workers, Phases,
     InOrder, Over
<1>8. OwnWorkers'
  <2>1. OwnWorkers /\ LastRunOnly
    BY <1>6 DEF InOrder
  <2>2. \A S : LastAt(S)' <=> LastAt(S)
    BY <1>d DEF LastAt
  <2>3. ASSUME ~ LastAt(Ending) PROVE OwnWorkers'
    <3>1. \A w \in workers : w.kept /\ w.ep \in claims[w.kind]
      BY <2>1, <2>3, Zenon DEF OwnWorkers
    <3>2. \A v, w \in workers : v.ep = w.ep /\ v.kind = w.kind => v = w
      BY <2>1 DEF OwnWorkers
    <3>3. /\ \A v, w \in workers' : v.ep = w.ep /\ v.kind = w.kind => v = w
          /\ \A w \in workers' : w.kept /\ w.ep \in claims'[w.kind]
          /\ \A w \in workers' : w \in workers \/ (w.kind = k /\ w.run = q)
      <4>1. {e} \in SUBSET Endpoints
        OBVIOUS
      <4> QED
        BY <1>c, <3>1, <3>2, <4>1, NewWorkersApart, Zenon
    <3>4. ASSUME LastAt({"gather"})
          PROVE  \A w \in workers' : w \in runs'[starts'].awaits \/ (client' = NoClient /\ w.kind = "seed")
      <4>1. ~ Current(q)
        BY <1>b, <1>d, <2>1, <3>4 DEF Current, RunsInTurn, LastAt, Opening
      <4>2. k = "seed" /\ client' = NoClient
        BY <1>a, <1>b, <1>d, <4>1
      <4> QED
        BY <1>d, <2>1, <3>3, <3>4, <4>2 DEF OwnWorkers
    <3> QED
      BY <2>2, <2>3, <3>3, <3>4, Zenon DEF OwnWorkers
  <2>4. ASSUME LastAt(Ending) PROVE OwnWorkers'
    <3>1. workers = {} /\ ~ Current(q)
      BY <1>b, <1>d, <2>1, <2>4 DEF OwnWorkers, Current, RunsInTurn, LastAt, Opening, Ending
    <3>2. k = "seed" /\ client' = NoClient
      BY <1>a, <1>b, <1>d, <3>1
    <3>3. /\ \A v, w \in workers' : v.ep = w.ep /\ v.kind = w.kind => v = w
          /\ \A w \in workers' : w \in workers \/ (w.kind = k /\ w.run = q)
      BY <1>c, <3>1, NewWorkersApart
    <3>4. ~ LastAt({"gather"})
      BY <2>4 DEF LastAt, Ending
    <3> QED
      BY <2>2, <2>4, <3>1, <3>2, <3>3, <3>4 DEF OwnWorkers
  <2> QED
    BY <2>3, <2>4
<1>9. ServicesUp'
  BY <1>6 DEF ClientPex, WorkerStep, control, services, LastAt, ServicesUp, Runs, Phases, InOrder, Over
<1> QED
  BY <1>7, <1>8, <1>9

(* An inbound connection ends.                                               *)
LEMMA ClientEndsKeeps ==
  ASSUME SwarmInv, ClientEnds
  PROVE  SwarmInv'
<1> USE SwarmAssumption DEF SwarmInv
<1>1. ControlTypes'
  BY DEF ClientEnds, WorkerStep, control, ControlTypes
<1>2. RunTypes'
  BY DEF ClientEnds, WorkerStep, RunTypes
<1>3. LinkTypes'
  BY DEF ClientEnds, WorkerStep, services, LinkTypes
<1>4. RunsInTurn'
  BY DEF ClientEnds, WorkerStep, control, LastAt, RunsInTurn
<1>5. StopForgetsPeers'
  BY DEF ClientEnds, WorkerStep, control, StopForgetsPeers
<1> SUFFICES ASSUME ~overlapped', ~loose' PROVE LastRunOnly' /\ OwnWorkers' /\ ServicesUp'
  BY <1>1, <1>2, <1>3, <1>4, <1>5 DEF InOrder
<1>6. ~overlapped /\ ~loose
  BY Zenon DEF ClientEnds, WorkerStep, control
<1>7. LastRunOnly'
  BY <1>6 DEF ClientEnds, WorkerStep, control, LastAt, LastRunOnly, InOrder, Over
<1>8. OwnWorkers'
  BY <1>6 DEF ClientEnds, WorkerStep, control, LastAt, OwnWorkers, Phases, Kinds, InOrder, Over
<1>9. ServicesUp'
  BY <1>6 DEF ClientEnds, WorkerStep, control, services, LastAt, ServicesUp, InOrder, Over
<1> QED
  BY <1>7, <1>8, <1>9

(* New preferences close the connections that are made.                      *)
LEMMA TuneBeginsKeeps ==
  ASSUME SwarmInv, TuneBegins
  PROVE  SwarmInv'
<1> USE SwarmAssumption DEF SwarmInv
<1>0. PICK H \in SUBSET workers : H = {w \in workers : w.at = "active"}
  OBVIOUS
<1>a. workers' = (workers \ H) \cup {Halted(w) : w \in H}
  BY <1>0 DEF TuneBegins, Halted
<1>b. /\ workers' \subseteq Workers
      /\ \A v \in workers' : \E w \in workers :
           /\ v.run = w.run /\ v.ep = w.ep /\ v.kind = w.kind /\ v.kept = w.kept
           /\ v = IF w \in H THEN Halted(w) ELSE w
      /\ (\A v, w \in workers : v.ep = w.ep /\ v.kind = w.kind => v = w)
         => (\A v, w \in workers' : v.ep = w.ep /\ v.kind = w.kind => v = w)
  BY <1>a, HaltedWorkers, Zenon
<1>1. ControlTypes'
  BY DEF TuneBegins, ControlTypes, Tuners
<1>2. RunTypes'
  BY DEF TuneBegins, RunTypes
<1>3. LinkTypes'
  BY DEF TuneBegins, services, LinkTypes, Workers
<1>4. RunsInTurn'
  BY DEF TuneBegins, services, LastAt, RunsInTurn
<1>5. StopForgetsPeers'
  BY DEF TuneBegins, StopForgetsPeers
<1> SUFFICES ASSUME ~overlapped', ~loose' PROVE LastRunOnly' /\ OwnWorkers' /\ ServicesUp'
  BY <1>1, <1>2, <1>3, <1>4, <1>5 DEF InOrder
<1>6. ~overlapped /\ ~loose
  BY Zenon DEF TuneBegins
<1>7. LastRunOnly'
  BY <1>6 DEF TuneBegins, LastAt, LinkTypes, LastRunOnly, Workers, InOrder, Over
<1>8. OwnWorkers'
  <2>1. UNCHANGED <<starts, runs, claims, client>> /\ OwnWorkers /\ RunTypes
    BY <1>6 DEF TuneBegins, InOrder
  <2>2. \A S : LastAt(S)' <=> LastAt(S)
    BY <2>1 DEF LastAt
  <2>3. \A v, w \in workers' : v.ep = w.ep /\ v.kind = w.kind => v = w
    BY <1>b, <2>1 DEF OwnWorkers
  <2>4. ASSUME ~ LastAt(Ending) PROVE \A w \in workers' : w.kept /\ w.ep \in claims'[w.kind]
    <3>1. \A w \in workers : w.kept /\ w.ep \in claims'[w.kind]
      BY <2>1, <2>4, Zenon DEF OwnWorkers
    <3> QED
      BY <1>b, <3>1, Zenon
  <2>5. ASSUME LastAt({"gather"})
        PROVE  \A w \in workers' : w \in runs'[starts'].awaits \/ (client' = NoClient /\ w.kind = "seed")
    <3> SUFFICES ASSUME NEW v \in workers', v.kind # "seed" \/ client # NoClient
                 PROVE  v \in runs[starts].awaits
      BY <2>1
    <3>1. PICK w \in workers : v.kind = w.kind /\ v = IF w \in H THEN Halted(w) ELSE w
      BY <1>b, Zenon
    <3>2. w \in runs[starts].awaits
      BY <2>1, <2>5, <3>1 DEF OwnWorkers
    <3>3. w.at = "ending"
      BY <2>1, <2>5, <3>2 DEF RunTypes, LastAt
    <3> QED
      BY <1>0, <3>1, <3>2, <3>3
  <2>6. ASSUME LastAt(Ending)
        PROVE  (\A w \in workers' : w.kind = "seed") /\ (client' # NoClient => workers' = {})
    BY <1>b, <2>1, <2>6 DEF OwnWorkers
  <2> QED
    BY <2>2, <2>3, <2>4, <2>5, <2>6 DEF OwnWorkers
<1>9. ServicesUp'
  BY <1>6 DEF TuneBegins, services, LastAt, ServicesUp, InOrder
<1> QED
  BY <1>7, <1>8, <1>9

(* They, or a lost address, close the listener and its connections,          *)
LEMMA TunerClosesServerKeeps ==
  ASSUME SwarmInv, TunerClosesServer
  PROVE  SwarmInv'
<1> USE SwarmAssumption DEF SwarmInv
<1>1. ControlTypes'
  BY DEF TunerClosesServer, control, ControlTypes, Tuners
<1>2. RunTypes'
  BY DEF TunerClosesServer, RunTypes
<1>3. LinkTypes'
  BY DEF TunerClosesServer, ClearServers, CloseClients, LinkTypes
<1>4. RunsInTurn'
  BY DEF TunerClosesServer, ClearServers, CloseClients, control, LastAt, RunsInTurn
<1>5. StopForgetsPeers'
  BY DEF TunerClosesServer, control, StopForgetsPeers
<1> SUFFICES ASSUME ~overlapped', ~loose' PROVE LastRunOnly' /\ OwnWorkers' /\ ServicesUp'
  BY <1>1, <1>2, <1>3, <1>4, <1>5 DEF InOrder
<1>6. ~overlapped /\ ~loose
  BY Zenon DEF TunerClosesServer, control
<1>7. LastRunOnly'
  BY <1>6 DEF TunerClosesServer, CloseClients, control, LastAt, LinkTypes, LastRunOnly, InOrder, Over
<1>8. OwnWorkers'
  BY <1>6 DEF TunerClosesServer, CloseClients, control, LastAt, OwnWorkers, Phases, Kinds, InOrder, Over
<1>9. ServicesUp'
  BY <1>6 DEF TunerClosesServer, ClearServers, control, LastAt, ServicesUp, InOrder, Over
<1> QED
  BY <1>7, <1>8, <1>9

(* then local discovery and DHT,                                             *)
LEMMA TunerClosesServicesKeeps ==
  ASSUME SwarmInv, TunerClosesServices
  PROVE  SwarmInv'
<1> USE SwarmAssumption DEF SwarmInv
<1>1. ControlTypes'
  BY DEF TunerClosesServices, control, ControlTypes, Tuners
<1>2. RunTypes'
  BY DEF TunerClosesServices, RunTypes
<1>3. LinkTypes'
  BY DEF TunerClosesServices, links, LinkTypes
<1>4. RunsInTurn'
  BY DEF TunerClosesServices, control, links, LastAt, RunsInTurn
<1>5. StopForgetsPeers'
  BY DEF TunerClosesServices, control, links, StopForgetsPeers
<1> SUFFICES ASSUME ~overlapped', ~loose' PROVE LastRunOnly' /\ OwnWorkers' /\ ServicesUp'
  BY <1>1, <1>2, <1>3, <1>4, <1>5 DEF InOrder
<1>6. ~overlapped /\ ~loose
  BY Zenon DEF TunerClosesServices, control
<1>7. LastRunOnly'
  BY <1>6 DEF TunerClosesServices, control, links, LastAt, LastRunOnly, InOrder, Over
<1>8. OwnWorkers'
  BY <1>6 DEF TunerClosesServices, control, links, LastAt, OwnWorkers, InOrder, Over
<1>9. ServicesUp'
  BY <1>6 DEF TunerClosesServices, control, LastAt, ServicesUp, InOrder
<1> QED
  BY <1>7, <1>8, <1>9

(* and open them again if the session still runs,                            *)
LEMMA TunerReopensKeeps ==
  ASSUME SwarmInv, TunerReopens
  PROVE  SwarmInv'
<1> USE SwarmAssumption DEF SwarmInv
<1>1. ControlTypes'
  BY DEF TunerReopens, control, ControlTypes, Tuners
<1>2. RunTypes'
  BY DEF TunerReopens, RunTypes
<1>3. LinkTypes'
  BY DEF TunerReopens, ClearServers, CloseClients, services, LinkTypes
<1>4. RunsInTurn'
  BY DEF TunerReopens, services, control, LastAt, RunsInTurn, Runs
<1>5. StopForgetsPeers'
  BY DEF TunerReopens, control, StopForgetsPeers
<1> SUFFICES ASSUME ~overlapped', ~loose' PROVE LastRunOnly' /\ OwnWorkers' /\ ServicesUp'
  BY <1>1, <1>2, <1>3, <1>4, <1>5 DEF InOrder
<1>6. ~overlapped /\ ~loose
  BY Zenon DEF TunerReopens, control
<1>7. LastRunOnly'
  BY <1>6 DEF TunerReopens, CloseClients, control, LastAt, LinkTypes, LastRunOnly, InOrder, Over
<1>8. OwnWorkers'
  BY <1>6 DEF TunerReopens, control, LastAt, RunsInTurn, OwnWorkers, Opening, Ending, Workers, Phases,
     Kinds, InOrder, Over
<1>9. ServicesUp'
  BY <1>6 DEF TunerReopens, ClearServers, services, control, LastAt, ServicesUp, InOrder, Over
<1> QED
  BY <1>7, <1>8, <1>9

(* then the listener unless there is one,                                    *)
LEMMA TunerListensKeeps ==
  ASSUME SwarmInv, TunerListens
  PROVE  SwarmInv'
<1> USE SwarmAssumption DEF SwarmInv
<1>1. ControlTypes'
  BY DEF TunerListens, control, ControlTypes, Tuners
<1>2. RunTypes'
  BY DEF TunerListens, RunTypes
<1>3. LinkTypes'
  BY DEF TunerListens, services, links, LinkTypes
<1>4. RunsInTurn'
  BY DEF TunerListens, control, services, links, LastAt, RunsInTurn
<1>5. StopForgetsPeers'
  BY DEF TunerListens, control, links, StopForgetsPeers
<1> SUFFICES ASSUME ~overlapped', ~loose' PROVE LastRunOnly' /\ OwnWorkers' /\ ServicesUp'
  BY <1>1, <1>2, <1>3, <1>4, <1>5 DEF InOrder
<1>6. ~overlapped /\ ~loose
  BY Zenon DEF TunerListens, control
<1>7. LastRunOnly'
  BY <1>6 DEF TunerListens, control, links, LastAt, LastRunOnly, InOrder, Over
<1>8. OwnWorkers'
  BY <1>6 DEF TunerListens, control, links, LastAt, OwnWorkers, Kinds, InOrder, Over
<1>9. ServicesUp'
  BY <1>6 DEF TunerListens, control, services, LastAt, ServicesUp, InOrder
<1> QED
  BY <1>7, <1>8, <1>9

(* whose table is filled after its sockets are open.                         *)
LEMMA TunerFillsKeeps ==
  ASSUME SwarmInv, TunerFills
  PROVE  SwarmInv'
<1> USE SwarmAssumption DEF SwarmInv
<1>1. ControlTypes'
  BY DEF TunerFills, ControlTypes, Tuners
<1>2. RunTypes'
  BY DEF TunerFills, RunTypes
<1>3. LinkTypes'
  BY DEF TunerFills, FillServers, links, Runs, ControlTypes, LinkTypes
<1>4. RunsInTurn'
  BY DEF TunerFills, FillServers, links, LastAt, RunsInTurn
<1>5. StopForgetsPeers'
  BY DEF TunerFills, links, StopForgetsPeers
<1> SUFFICES ASSUME ~overlapped', ~loose' PROVE LastRunOnly' /\ OwnWorkers' /\ ServicesUp'
  BY <1>1, <1>2, <1>3, <1>4, <1>5 DEF InOrder
<1>6. ~overlapped /\ ~loose
  <2>1. UNCHANGED overlapped /\ (loose => loose')
    <3>1. CASE UNCHANGED <<listener, shut, loose>>
      BY <3>1 DEF TunerFills
    <3>2. CASE listener' = token /\ shut' = FALSE /\ loose' = (loose \/ listener /= 0 \/ \A q \in Runs : Closed(q))
      BY <3>2, Zenon DEF TunerFills
    <3> QED
      BY <3>1, <3>2, Zenon DEF TunerFills, FillServers
  <2> QED
    BY <2>1, Zenon
<1>7. LastRunOnly'
  BY <1>6 DEF TunerFills, links, Over, LastAt, LastRunOnly, InOrder
<1>8. OwnWorkers'
  BY <1>6 DEF TunerFills, links, LastAt, OwnWorkers, Phases, Kinds, InOrder
<1>9. ServicesUp'
  BY <1>6 DEF TunerFills, FillServers, LastAt, ServicesUp, InOrder
<1> QED
  BY <1>7, <1>8, <1>9

(* _open_seed_server returns if there is a listener.                         *)
LEMMA OpenListenerKeeps ==
  ASSUME SwarmInv, NEW r \in Runs, OpenListener(r)
  PROVE  SwarmInv'
<1> USE SwarmAssumption DEF SwarmInv
<1>0. PICK at \in {"binding", "discovery"} : Moved(r, at)
  BY MovesTo DEF OpenListener, Phases
<1>1. ControlTypes'
  BY <1>0 DEF OpenListener, control, ControlTypes
<1>2. RunTypes'
  BY <1>0 DEF Moved, RunTypes
<1>3. LinkTypes'
  BY <1>0 DEF OpenListener, services, links, LinkTypes
<1>4. RunsInTurn'
  BY <1>0 DEF OpenListener, At, control, Moved, LastAt, RunTypes, RunsInTurn, Opening, Runs
<1>5. StopForgetsPeers'
  BY <1>0 DEF OpenListener, control, links, StopForgetsPeers
<1> SUFFICES ASSUME ~overlapped', ~loose' PROVE LastRunOnly' /\ OwnWorkers' /\ ServicesUp'
  BY <1>1, <1>2, <1>3, <1>4, <1>5 DEF InOrder
<1>6. ~overlapped /\ ~loose
  BY Zenon DEF OpenListener, control
<1>7. LastRunOnly'
  BY <1>0, <1>6 DEF OpenListener, At, control, links, Moved, LastAt, LastRunOnly, InOrder, Over
<1>8. OwnWorkers'
  BY <1>0, <1>6 DEF OpenListener, At, control, links, Moved, LastAt, OwnWorkers, Ending, Workers, Phases,
     Kinds, InOrder, Over
<1>9. ServicesUp'
  BY <1>0, <1>6 DEF OpenListener, At, control, services, Moved, LastAt, ServicesUp, InOrder, Over
<1> QED
  BY <1>7, <1>8, <1>9

(* Its sockets are open, or every port was taken.                            *)
LEMMA ListeningKeeps ==
  ASSUME SwarmInv, NEW r \in Runs, Listening(r)
  PROVE  SwarmInv'
<1> USE SwarmAssumption DEF SwarmInv
<1>0. PICK at \in {"discovery"} : Moved(r, at)
  BY MovesTo DEF Listening, Phases
<1>1. ControlTypes'
  BY <1>0 DEF Listening, ControlTypes
<1>2. RunTypes'
  BY <1>0 DEF Moved, RunTypes
<1>3. LinkTypes'
  BY <1>0 DEF Listening, FillServers, links, LinkTypes
<1>4. RunsInTurn'
  BY <1>0 DEF Listening, At, Runs, Moved, LastAt, RunsInTurn, Opening
<1>5. StopForgetsPeers'
  BY <1>0 DEF Listening, links, StopForgetsPeers
<1> SUFFICES ASSUME ~overlapped', ~loose' PROVE LastRunOnly' /\ OwnWorkers' /\ ServicesUp'
  BY <1>1, <1>2, <1>3, <1>4, <1>5 DEF InOrder
<1>6. ~overlapped /\ ~loose
  <2>1. UNCHANGED overlapped /\ (loose => loose')
    <3>1. CASE UNCHANGED <<listener, shut, loose>>
      BY <3>1 DEF Listening
    <3>2. CASE listener' = r /\ shut' = FALSE /\ loose' = (loose \/ listener /= 0 \/ \A q \in Runs : Closed(q))
      BY <3>2, Zenon DEF Listening
    <3> QED
      BY <3>1, <3>2, Zenon DEF Listening, FillServers
  <2> QED
    BY <2>1, Zenon
<1>7. LastRunOnly'
  BY <1>0, <1>6 DEF Listening, At, links, Over, Moved, LastAt, LastRunOnly, Phases, InOrder
<1>8. OwnWorkers'
  BY <1>0, <1>6 DEF Listening, At, links, Moved, LastAt, OwnWorkers, Ending, Workers, Phases, Kinds, InOrder
<1>9. ServicesUp'
  <2>1. UNCHANGED <<lan, dht, tuner, isRunning, starts>>
    BY Zenon DEF Listening
  <2>6. shut' => shut
    BY Zenon DEF Listening, FillServers
  <2>2. LastRunOnly /\ ServicesUp
    BY <1>6 DEF InOrder
  <2>3. r = starts /\ runs'[starts].at = "discovery"
    BY <1>0, <2>2 DEF Listening, At, LastRunOnly, Over, Moved
  <2>4. ~ LastAt({"cancel", "gather"}) /\ \A S : LastAt(S)' <=> "discovery" \in S
    BY <2>1, <2>3 DEF Listening, At, LastAt
  <2>5. tuner \in {"trip", "trip services"} => ~isRunning
    BY <2>2 DEF ServicesUp
  <2> QED
    <3>0. ~shut
      BY <2>2, <2>4 DEF ServicesUp
    <3>1. ~shut'
      BY <2>6, <3>0, Zenon
    <3>2. ~ LastAt({"loop"})' /\ (LastAt(Phases \ {"none", "done"}))'
      BY <2>4 DEF Phases
    <3> QED
      BY <2>1, <2>5, <3>1, <3>2, Zenon DEF ServicesUp
<1> QED
  BY <1>7, <1>8, <1>9

(* Local discovery and DHT are opened in front of the loop.                  *)
LEMMA OpenDiscoveryKeeps ==
  ASSUME SwarmInv, NEW r \in Runs, OpenDiscovery(r)
  PROVE  SwarmInv'
<1> USE SwarmAssumption DEF SwarmInv
<1>0. PICK at \in {"loop"} : Moved(r, at)
  BY MovesTo DEF OpenDiscovery, Phases
<1>1. ControlTypes'
  BY <1>0 DEF OpenDiscovery, control, ControlTypes
<1>2. RunTypes'
  BY <1>0 DEF Moved, RunTypes
<1>3. LinkTypes'
  BY <1>0 DEF OpenDiscovery, links, LinkTypes
<1>4. RunsInTurn'
  BY <1>0 DEF OpenDiscovery, At, control, Moved, LastAt, RunsInTurn, Opening, Runs
<1>5. StopForgetsPeers'
  BY <1>0 DEF OpenDiscovery, control, links, StopForgetsPeers
<1> SUFFICES ASSUME ~overlapped', ~loose' PROVE LastRunOnly' /\ OwnWorkers' /\ ServicesUp'
  BY <1>1, <1>2, <1>3, <1>4, <1>5 DEF InOrder
<1>6. ~overlapped /\ ~loose
  BY Zenon DEF OpenDiscovery, control
<1>7. LastRunOnly'
  BY <1>0, <1>6 DEF OpenDiscovery, At, control, links, Moved, LastAt, LastRunOnly, InOrder, Over
<1>8. OwnWorkers'
  BY <1>0, <1>6 DEF OpenDiscovery, At, control, links, Moved, LastAt, OwnWorkers, Ending, Phases, Kinds,
     InOrder, Over
<1>9. ServicesUp'
  BY <1>0, <1>6 DEF OpenDiscovery, At, control, Moved, LastAt, ServicesUp, InOrder, Over
<1> QED
  BY <1>7, <1>8, <1>9

(* The loop of a run that is not the current one any more ends.              *)
LEMMA LoopOverKeeps ==
  ASSUME SwarmInv, NEW r \in Runs, LoopOver(r)
  PROVE  SwarmInv'
<1> USE SwarmAssumption DEF SwarmInv
<1>0. PICK at \in {"cancel"} : Moved(r, at)
  BY MovesTo DEF LoopOver, Phases
<1>1. ControlTypes'
  BY <1>0 DEF LoopOver, control, ControlTypes
<1>2. RunTypes'
  BY <1>0 DEF Moved, RunTypes
<1>3. LinkTypes'
  BY <1>0 DEF LoopOver, services, links, LinkTypes
<1>4. RunsInTurn'
  BY <1>0 DEF LoopOver, At, Current, control, Moved, LastAt, RunsInTurn, Runs
<1>5. StopForgetsPeers'
  BY <1>0 DEF LoopOver, control, links, StopForgetsPeers
<1> SUFFICES ASSUME ~overlapped', ~loose' PROVE LastRunOnly' /\ OwnWorkers' /\ ServicesUp'
  BY <1>1, <1>2, <1>3, <1>4, <1>5 DEF InOrder
<1>6. ~overlapped /\ ~loose
  BY Zenon DEF LoopOver, control
<1>7. LastRunOnly'
  BY <1>0, <1>6 DEF LoopOver, At, control, links, Moved, LastAt, LastRunOnly, Phases, InOrder, Over
<1>8. OwnWorkers'
  BY <1>0, <1>6 DEF LoopOver, At, control, links, Moved, LastAt, OwnWorkers, Ending, Runs, Workers, Phases,
     Kinds, InOrder, Over
<1>9. ServicesUp'
  BY <1>0, <1>6 DEF LoopOver, control, services, Moved, LastAt, ServicesUp, Phases, InOrder, Over
<1> QED
  BY <1>7, <1>8, <1>9

(* The finally cancels the workers and awaits them,                          *)
LEMMA CancelWorkersKeeps ==
  ASSUME SwarmInv, NEW r \in Runs, CancelWorkers(r)
  PROVE  SwarmInv'
<1> USE SwarmAssumption DEF SwarmInv
<1>z. Kept \in SUBSET workers
  BY DEF Kept
<1>a. workers' = (workers \ Kept) \cup {Halted(w) : w \in Kept}
  BY <1>z DEF CancelWorkers, Halted
<1>b. /\ workers' \subseteq Workers
      /\ \A v \in workers' : \E w \in workers :
           /\ v.run = w.run /\ v.ep = w.ep /\ v.kind = w.kind /\ v.kept = w.kept
           /\ v = IF w \in Kept THEN Halted(w) ELSE w
      /\ (\A v, w \in workers : v.ep = w.ep /\ v.kind = w.kind => v = w)
         => (\A v, w \in workers' : v.ep = w.ep /\ v.kind = w.kind => v = w)
  BY <1>a, <1>z, HaltedWorkers, Zenon
<1>c. PICK W \in SUBSET Workers : W = {Halted(w) : w \in Kept} /\ \A w \in W : w.at = "ending"
  <2>1. \A w \in Kept : Halted(w) \in Workers /\ Halted(w).at = "ending"
    BY <1>z, HaltedFields DEF LinkTypes
  <2>2. /\ {Halted(w) : w \in Kept} \in SUBSET Workers
        /\ \A w \in {Halted(v) : v \in Kept} : w.at = "ending"
    BY <2>1
  <2> QED
    BY <2>2, Zenon
<1>d. runs' = [runs EXCEPT ![r].at = "gather", ![r].awaits = W] /\ At(r, "cancel")
  BY <1>c DEF CancelWorkers, Halted
<1>e. /\ runs' \in [Runs -> [at : Phases, awaits : SUBSET Workers]]
      /\ runs'[r].at = "gather" /\ runs'[r].awaits = W
      /\ \A q \in Runs : q # r => runs'[q] = runs[q]
  BY <1>d DEF RunTypes, Phases
<1>1. ControlTypes'
  BY DEF CancelWorkers, control, ControlTypes
<1>2. RunTypes'
  BY <1>c, <1>e DEF RunTypes
<1>3. LinkTypes'
  BY DEF CancelWorkers, Kept, services, LinkTypes, Workers
<1>4. RunsInTurn'
  BY DEF CancelWorkers, At, control, services, LastAt, RunTypes, RunsInTurn, Opening, Runs
<1>5. StopForgetsPeers'
  BY DEF CancelWorkers, control, StopForgetsPeers
<1> SUFFICES ASSUME ~overlapped', ~loose' PROVE LastRunOnly' /\ OwnWorkers' /\ ServicesUp'
  BY <1>1, <1>2, <1>3, <1>4, <1>5 DEF InOrder
<1>6. ~overlapped /\ ~loose
  BY Zenon DEF CancelWorkers, control
<1>7. LastRunOnly'
  BY <1>6 DEF CancelWorkers, At, Kept, control, LastAt, RunTypes, RunsInTurn, LastRunOnly, Opening,
     Workers, InOrder, Over
<1>8. OwnWorkers'
  <2>1. UNCHANGED <<starts, claims, client>> /\ OwnWorkers /\ LastRunOnly
    BY <1>6 DEF CancelWorkers, control, InOrder
  <2>2. r = starts
    BY <1>d, <2>1 DEF At, LastRunOnly, Over
  <2>3. \A S : LastAt(S)' <=> "gather" \in S
    BY <1>e, <2>1, <2>2 DEF LastAt
  <2>4. \A w \in workers : w.kept /\ w.ep \in claims'[w.kind]
    <3>1. ~ LastAt(Ending)
      BY <1>d, <2>2 DEF At, LastAt, Ending
    <3> QED
      BY <2>1, <3>1, Zenon DEF OwnWorkers
  <2>5. \A w \in workers' : w.kept /\ w.ep \in claims'[w.kind]
    BY <1>b, <2>4, Zenon
  <2>6. workers' = W
    <3>1. Kept = workers
      BY <2>4, Zenon DEF Kept
    <3> QED
      BY <1>a, <1>c, <3>1
  <2>7. \A v, w \in workers' : v.ep = w.ep /\ v.kind = w.kind => v = w
    BY <1>b, <2>1 DEF OwnWorkers
  <2> QED
    BY <1>e, <2>1, <2>2, <2>3, <2>5, <2>6, <2>7 DEF OwnWorkers, Ending
<1>9. ServicesUp'
  BY <1>6 DEF CancelWorkers, At, Kept, control, services, LastAt, ControlTypes, RunTypes,
     RunsInTurn, ServicesUp, Phases, InOrder, Over
<1> QED
  BY <1>7, <1>8, <1>9

(* clears the claims and the table of listeners once they are gone,          *)
LEMMA GatherWorkersKeeps ==
  ASSUME SwarmInv, NEW r \in Runs, GatherWorkers(r)
  PROVE  SwarmInv'
<1> USE SwarmAssumption DEF SwarmInv
<1>0. /\ At(r, "gather") /\ runs[r].awaits \cap workers = {}
      /\ workers' = {LetGo(w) : w \in workers} /\ claims' = [k \in Kinds |-> {}]
      /\ runs' = [runs EXCEPT ![r].at = "clients", ![r].awaits = {}]
      /\ UNCHANGED <<starts, client>> /\ listener' = 0
  BY DEF GatherWorkers, ClearServers, control, LetGo
<1>a. \A w \in workers : /\ LetGo(w) \in Workers /\ LetGo(w).run = w.run /\ LetGo(w).ep = w.ep
                           /\ LetGo(w).kind = w.kind
  BY LetGoFields DEF LinkTypes
<1>1. ControlTypes'
  BY DEF GatherWorkers, control, ControlTypes
<1>2. RunTypes'
  BY DEF GatherWorkers, At, Kinds, ClearServers, control, LastAt, RunTypes, Workers, Phases
<1>3. LinkTypes'
  <2>1. Cardinality(claims'["download"]) <= MaxPeers
    BY <1>0, SwarmAssumption, FS_EmptySet DEF Kinds
  <2> QED
    BY <1>0, <1>a, <2>1 DEF LinkTypes
<1>4. RunsInTurn'
  BY DEF GatherWorkers, At, control, LastAt, ControlTypes, RunTypes, RunsInTurn, Opening, Runs
<1>5. StopForgetsPeers'
  BY DEF GatherWorkers, control, StopForgetsPeers
<1> SUFFICES ASSUME ~overlapped', ~loose' PROVE LastRunOnly' /\ OwnWorkers' /\ ServicesUp'
  BY <1>1, <1>2, <1>3, <1>4, <1>5 DEF InOrder
<1>6. ~overlapped /\ ~loose
  BY Zenon DEF GatherWorkers, control
<1>7. LastRunOnly'
  BY <1>6 DEF GatherWorkers, At, control, LastAt, RunTypes, LinkTypes, LastRunOnly, Workers,
     InOrder, Over
<1>8. OwnWorkers'
  <2>1. OwnWorkers /\ LastRunOnly
    BY <1>6 DEF InOrder
  <2>2. r = starts
    BY <1>0, <2>1 DEF At, LastRunOnly, Over
  <2>3. (\A S : LastAt(S)' <=> "clients" \in S) /\ LastAt({"gather"})
    BY <1>0, <2>2 DEF LastAt, RunTypes, At
  <2>4. \A w \in workers : client = NoClient /\ w.kind = "seed"
    BY <1>0, <2>1, <2>2, <2>3 DEF OwnWorkers
  <2>5. \A w \in workers' : client' = NoClient /\ w.kind = "seed"
    BY <1>0, <1>a, <2>4
  <2>6. \A v, w \in workers' : v.ep = w.ep /\ v.kind = w.kind => v = w
    <3> SUFFICES ASSUME NEW v \in workers, NEW w \in workers, LetGo(v).ep = LetGo(w).ep,
                        LetGo(v).kind = LetGo(w).kind
                 PROVE  v = w
      BY <1>0
    <3> QED
      BY <1>a, <2>1 DEF OwnWorkers
  <2> QED
    BY <2>3, <2>5, <2>6 DEF OwnWorkers, Ending
<1>9. ServicesUp'
  BY <1>6 DEF GatherWorkers, At, Kinds, ClearServers, control, LastAt, ControlTypes, RunTypes,
     ServicesUp, Phases, InOrder, Over
<1> QED
  BY <1>7, <1>8, <1>9

(* closes the inbound connections,                                           *)
LEMMA DropClientsKeeps ==
  ASSUME SwarmInv, NEW r \in Runs, DropClients(r)
  PROVE  SwarmInv'
<1> USE SwarmAssumption DEF SwarmInv
<1>0. PICK at \in {"services"} : Moved(r, at)
  BY MovesTo DEF DropClients, Phases
<1>1. ControlTypes'
  BY <1>0 DEF DropClients, control, ControlTypes
<1>2. RunTypes'
  BY <1>0 DEF Moved, RunTypes
<1>3. LinkTypes'
  BY <1>0 DEF DropClients, CloseClients, services, LinkTypes
<1>4. RunsInTurn'
  BY <1>0 DEF DropClients, At, control, Moved, LastAt, RunsInTurn, Opening, Runs
<1>5. StopForgetsPeers'
  BY <1>0 DEF DropClients, control, StopForgetsPeers
<1> SUFFICES ASSUME ~overlapped', ~loose' PROVE LastRunOnly' /\ OwnWorkers' /\ ServicesUp'
  BY <1>1, <1>2, <1>3, <1>4, <1>5 DEF InOrder
<1>6. ~overlapped /\ ~loose
  BY Zenon DEF DropClients, control
<1>7. LastRunOnly'
  BY <1>0, <1>6 DEF DropClients, At, CloseClients, control, Moved, LastAt, LastRunOnly, Phases,
     InOrder, Over
<1>8. OwnWorkers'
  BY <1>0, <1>6 DEF DropClients, At, CloseClients, control, Moved, LastAt, OwnWorkers, Ending, Runs,
     Workers, Phases, Kinds, InOrder, Over
<1>9. ServicesUp'
  BY <1>0, <1>6 DEF DropClients, At, control, services, Moved, LastAt, ServicesUp, Phases, InOrder, Over
<1> QED
  BY <1>7, <1>8, <1>9

(* then local discovery and DHT,                                             *)
LEMMA CloseServicesKeeps ==
  ASSUME SwarmInv, NEW r \in Runs, CloseServices(r)
  PROVE  SwarmInv'
<1> USE SwarmAssumption DEF SwarmInv
<1>0. PICK at \in {"end"} : Moved(r, at)
  BY MovesTo DEF CloseServices, Phases
<1>1. ControlTypes'
  BY <1>0 DEF CloseServices, control, ControlTypes
<1>2. RunTypes'
  BY <1>0 DEF Moved, RunTypes
<1>3. LinkTypes'
  BY <1>0 DEF CloseServices, links, LinkTypes
<1>4. RunsInTurn'
  BY <1>0 DEF CloseServices, At, control, Moved, LastAt, RunTypes, RunsInTurn, Opening, Runs
<1>5. StopForgetsPeers'
  BY <1>0 DEF CloseServices, control, links, StopForgetsPeers
<1> SUFFICES ASSUME ~overlapped', ~loose' PROVE LastRunOnly' /\ OwnWorkers' /\ ServicesUp'
  BY <1>1, <1>2, <1>3, <1>4, <1>5 DEF InOrder
<1>6. ~overlapped /\ ~loose
  BY Zenon DEF CloseServices, control
<1>7. LastRunOnly'
  BY <1>0, <1>6 DEF CloseServices, At, control, links, Moved, LastAt, LastRunOnly, InOrder, Over
<1>8. OwnWorkers'
  BY <1>0, <1>6 DEF CloseServices, At, control, links, Moved, LastAt, OwnWorkers, Ending, Phases, Kinds,
     InOrder, Over
<1>9. ServicesUp'
  BY <1>0, <1>6 DEF CloseServices, At, control, Moved, LastAt, LastRunOnly, ServicesUp, InOrder, Over
<1> QED
  BY <1>7, <1>8, <1>9

(* and clears is_running if its run is still the latest.                     *)
LEMMA RunEndsKeeps ==
  ASSUME SwarmInv, NEW r \in Runs, RunEnds(r)
  PROVE  SwarmInv'
<1> USE SwarmAssumption DEF SwarmInv
<1>0. PICK at \in {"done"} : Moved(r, at)
  BY FinishMoves DEF RunEnds
<1>1. ControlTypes'
  BY <1>0 DEF RunEnds, ControlTypes, Tuners
<1>2. RunTypes'
  BY <1>0 DEF Moved, RunTypes
<1>3. LinkTypes'
  BY <1>0 DEF RunEnds, services, links, LinkTypes
<1>4. RunsInTurn'
  BY <1>0 DEF RunEnds, At, Moved, LastAt, ControlTypes, RunsInTurn, Opening, Runs
<1>5. StopForgetsPeers'
  BY <1>0 DEF RunEnds, links, StopForgetsPeers
<1> SUFFICES ASSUME ~overlapped', ~loose' PROVE LastRunOnly' /\ OwnWorkers' /\ ServicesUp'
  BY <1>1, <1>2, <1>3, <1>4, <1>5 DEF InOrder
<1>6. ~overlapped /\ ~loose
  BY Zenon DEF RunEnds
<1>7. LastRunOnly'
  BY <1>0, <1>6 DEF RunEnds, links, Moved, LastAt, LastRunOnly, Phases, InOrder, Over
<1>8. OwnWorkers'
  BY <1>0, <1>6 DEF RunEnds, At, links, Moved, LastAt, OwnWorkers, Ending, Runs, Workers, Phases, Kinds,
     InOrder, Over
<1>9. ServicesUp'
  BY <1>0, <1>6 DEF RunEnds, At, Tuning, services, LastAt, RunsInTurn, LastRunOnly, ServicesUp,
     Phases, InOrder, Over
<1> QED
  BY <1>7, <1>8, <1>9

(* A turn of the loop starts workers for what was discovered.                *)
LEMMA DiscoverKeeps ==
  ASSUME SwarmInv, NEW r \in Runs, Discover(r)
  PROVE  SwarmInv'
<1> USE SwarmAssumption DEF SwarmInv
<1>0. PICK eps \in SUBSET Endpoints : StartWorkers(r, kind, eps)
  BY DEF Discover
<1>a. kind \in Kinds /\ At(r, "loop")
  BY DEF ControlTypes, Discover
<1>1. ControlTypes'
  BY DEF Discover, control, ControlTypes
<1>2. RunTypes'
  BY DEF Discover, RunTypes
<1>3. LinkTypes'
  BY <1>0, <1>a, StartWorkersKeeps DEF Discover, services, LinkTypes
<1>4. RunsInTurn'
  BY DEF Discover, Current, control, LastAt, RunsInTurn, Runs
<1>5. StopForgetsPeers'
  BY DEF Discover, control, StopForgetsPeers
<1> SUFFICES ASSUME ~overlapped', ~loose' PROVE LastRunOnly' /\ OwnWorkers' /\ ServicesUp'
  BY <1>1, <1>2, <1>3, <1>4, <1>5 DEF InOrder
<1>6. ~overlapped /\ ~loose
  BY Zenon DEF Discover, control
<1>7. LastRunOnly'
  BY <1>6 DEF Discover, Current, StartWorkers, control, LastAt, RunsInTurn, LastRunOnly, Phases,
     InOrder, Over
<1>8. OwnWorkers'
  <2>1. UNCHANGED <<starts, runs, client>> /\ OwnWorkers /\ LastRunOnly
    BY <1>6 DEF Discover, control, InOrder
  <2>2. r = starts
    BY <1>a, <2>1 DEF At, LastRunOnly, Over
  <2>3. \A S : LastAt(S)' <=> "loop" \in S
    BY <1>a, <2>1, <2>2 DEF LastAt, At
  <2>4. \A w \in workers : w.kept /\ w.ep \in claims[w.kind]
    <3>1. ~ LastAt(Ending)
      BY <1>a, <2>2 DEF At, LastAt, Ending
    <3> QED
      BY <2>1, <3>1, Zenon DEF OwnWorkers
  <2>5. \A v, w \in workers : v.ep = w.ep /\ v.kind = w.kind => v = w
    BY <2>1 DEF OwnWorkers
  <2>6. /\ \A v, w \in workers' : v.ep = w.ep /\ v.kind = w.kind => v = w
        /\ \A w \in workers' : w.kept /\ w.ep \in claims'[w.kind]
    BY <1>0, <1>a, <2>4, <2>5, NewWorkersApart, Zenon
  <2> QED
    BY <2>3, <2>6, Zenon DEF OwnWorkers, Ending
<1>9. ServicesUp'
  BY <1>6 DEF Discover, control, services, LastAt, ServicesUp, Phases, InOrder, Over
<1> QED
  BY <1>7, <1>8, <1>9

(* The last piece has come: the same run goes on seeding.                    *)
LEMMA BeginSeedingKeeps ==
  ASSUME SwarmInv, NEW r \in Runs, BeginSeeding(r)
  PROVE  SwarmInv'
<1> USE SwarmAssumption DEF SwarmInv
<1>0. PICK at \in {"listen"} : Moved(r, at)
  BY MovesTo DEF BeginSeeding, Phases
<1>1. ControlTypes'
  BY <1>0 DEF BeginSeeding, ControlTypes, Kinds
<1>2. RunTypes'
  BY <1>0 DEF Moved, RunTypes
<1>3. LinkTypes'
  BY <1>0 DEF BeginSeeding, services, links, LinkTypes
<1>4. RunsInTurn'
  BY <1>0 DEF BeginSeeding, Current, Moved, LastAt, ControlTypes, RunsInTurn, Opening, Runs
<1>5. StopForgetsPeers'
  BY <1>0 DEF BeginSeeding, links, StopForgetsPeers
<1> SUFFICES ASSUME ~overlapped', ~loose' PROVE LastRunOnly' /\ OwnWorkers' /\ ServicesUp'
  BY <1>1, <1>2, <1>3, <1>4, <1>5 DEF InOrder
<1>6. ~overlapped /\ ~loose
  BY Zenon DEF BeginSeeding
<1>7. LastRunOnly'
  BY <1>0, <1>6 DEF BeginSeeding, Current, links, Moved, LastAt, RunsInTurn, LastRunOnly, InOrder, Over
<1>8. OwnWorkers'
  BY <1>0, <1>6 DEF BeginSeeding, Current, links, Moved, LastAt, RunsInTurn, OwnWorkers, Opening, Ending,
     Workers, Phases, Kinds, InOrder, Over
<1>9. ServicesUp'
  BY <1>0, <1>6 DEF BeginSeeding, Current, services, Moved, LastAt, RunsInTurn, ServicesUp, Opening,
     InOrder, Over
<1> QED
  BY <1>7, <1>8, <1>9

(* A disk error ends the run from inside.                                    *)
LEMMA RunBreaksKeeps ==
  ASSUME SwarmInv, NEW r \in Runs, RunBreaks(r)
  PROVE  SwarmInv'
<1> USE SwarmAssumption DEF SwarmInv
<1>0. PICK at \in {"cancel"} : Moved(r, at)
  BY MovesTo DEF RunBreaks, Phases
<1>1. ControlTypes'
  BY <1>0 DEF RunBreaks, ControlTypes
<1>2. RunTypes'
  BY <1>0 DEF Moved, RunTypes
<1>3. LinkTypes'
  BY <1>0 DEF RunBreaks, services, links, LinkTypes
<1>4. RunsInTurn'
  <2>1. starts \in Nat /\ starts # 0
    BY DEF RunBreaks, At, RunsInTurn, Runs, ControlTypes
  <2> QED
    BY <1>0, <2>1 DEF RunBreaks, Current, Moved, RunsInTurn, Runs
<1>5. StopForgetsPeers'
  BY <1>0 DEF RunBreaks, links, StopForgetsPeers
<1> SUFFICES ASSUME ~overlapped', ~loose' PROVE LastRunOnly' /\ OwnWorkers' /\ ServicesUp'
  BY <1>1, <1>2, <1>3, <1>4, <1>5 DEF InOrder
<1>6. ~overlapped /\ ~loose
  BY Zenon DEF RunBreaks
<1>7. LastRunOnly'
  BY <1>0, <1>6 DEF RunBreaks, Current, links, Moved, LastAt, RunsInTurn, LastRunOnly, Phases,
     InOrder, Over
<1>8. OwnWorkers'
  BY <1>0, <1>6 DEF RunBreaks, Current, links, Moved, LastAt, RunsInTurn, OwnWorkers, Opening, Ending,
     Runs, Workers, Phases, Kinds, InOrder, Over
<1>9. ServicesUp'
  BY <1>0, <1>6 DEF RunBreaks, services, Moved, LastAt, ServicesUp, Phases, InOrder, Over
<1> QED
  BY <1>7, <1>8, <1>9

(* An inbound connection is accepted by the current run.                     *)
LEMMA AcceptKeeps ==
  ASSUME SwarmInv, NEW r \in Runs, Accept(r)
  PROVE  SwarmInv'
<1> USE SwarmAssumption DEF SwarmInv
<1>1. ControlTypes'
  BY DEF Accept, WorkerStep, control, ControlTypes
<1>2. RunTypes'
  BY DEF Accept, WorkerStep, RunTypes
<1>3. LinkTypes'
  BY DEF Accept, WorkerStep, services, LinkTypes
<1>4. RunsInTurn'
  BY DEF Accept, Current, WorkerStep, control, LastAt, RunsInTurn, Runs
<1>5. StopForgetsPeers'
  BY DEF Accept, WorkerStep, control, StopForgetsPeers
<1> SUFFICES ASSUME ~overlapped', ~loose' PROVE LastRunOnly' /\ OwnWorkers' /\ ServicesUp'
  BY <1>1, <1>2, <1>3, <1>4, <1>5 DEF InOrder
<1>6. ~overlapped /\ ~loose
  BY Zenon DEF Accept, WorkerStep, control
<1>7. LastRunOnly'
  BY <1>6 DEF Accept, Current, WorkerStep, control, LastAt, RunsInTurn, LastRunOnly, InOrder, Over
<1>8. OwnWorkers'
  BY <1>6 DEF Accept, Current, WorkerStep, control, LastAt, RunsInTurn, OwnWorkers, Opening, Ending,
     Workers, Phases, Kinds, InOrder, Over
<1>9. ServicesUp'
  BY <1>6 DEF Accept, WorkerStep, control, services, LastAt, ServicesUp, InOrder, Over
<1> QED
  BY <1>7, <1>8, <1>9

(* The bound address is gone: the run is over and its connections are        *)
(* closed.                                                                   *)
LEMMA TripBeginsKeeps ==
  ASSUME SwarmInv, NEW r \in Runs, TripBegins(r)
  PROVE  SwarmInv'
<1> USE SwarmAssumption DEF SwarmInv
<1>1. ControlTypes'
  BY DEF TripBegins, ControlTypes, Tuners
<1>2. RunTypes'
  BY DEF TripBegins, RunTypes
<1>3. LinkTypes'
  BY DEF TripBegins, services, LinkTypes, Workers
<1>4. RunsInTurn'
  BY DEF TripBegins, services, RunsInTurn
<1>5. StopForgetsPeers'
  BY DEF TripBegins, StopForgetsPeers
<1> SUFFICES ASSUME ~overlapped', ~loose' PROVE LastRunOnly' /\ OwnWorkers' /\ ServicesUp'
  BY <1>1, <1>2, <1>3, <1>4, <1>5 DEF InOrder
<1>6. ~overlapped /\ ~loose
  BY Zenon DEF TripBegins
<1>7. LastRunOnly'
  BY <1>6 DEF TripBegins, LastAt, LinkTypes, LastRunOnly, Workers, InOrder, Over
<1>8. OwnWorkers'
  BY <1>6 DEF TripBegins, At, Current, services, LastAt, ControlTypes, LinkTypes, LastRunOnly, OwnWorkers,
     Workers, Phases, Kinds, InOrder, Over
<1>9. ServicesUp'
  BY <1>6 DEF TripBegins, Current, services, LastAt, RunsInTurn, ServicesUp, Opening, Phases,
     InOrder, Over
<1> QED
  BY <1>7, <1>8, <1>9

(* A worker connects and is registered, if its run is still the current      *)
(* one.                                                                      *)
LEMMA ConnectedKeeps ==
  ASSUME SwarmInv, NEW w \in workers, Connected(w)
  PROVE  SwarmInv'
<1> USE SwarmAssumption DEF SwarmInv
<1>1. ControlTypes'
  BY DEF Connected, WorkerStep, control, ControlTypes
<1>2. RunTypes'
  BY DEF Connected, WorkerStep, RunTypes
<1>3. LinkTypes'
  BY DEF Connected, Become, WorkerStep, services, LinkTypes, Workers
<1>4. RunsInTurn'
  BY DEF Connected, WorkerStep, control, LastAt, RunsInTurn
<1>5. StopForgetsPeers'
  BY DEF Connected, Current, WorkerStep, control, RunsInTurn, StopForgetsPeers
<1> SUFFICES ASSUME ~overlapped', ~loose' PROVE LastRunOnly' /\ OwnWorkers' /\ ServicesUp'
  BY <1>1, <1>2, <1>3, <1>4, <1>5 DEF InOrder
<1>6. ~overlapped /\ ~loose
  BY Zenon DEF Connected, WorkerStep, control
<1>7. LastRunOnly'
  BY <1>6 DEF Connected, Become, WorkerStep, control, LastAt, LinkTypes, LastRunOnly, Workers,
     InOrder, Over
<1>8. OwnWorkers'
  BY <1>6 DEF Connected, Current, Become, WorkerStep, control, services, LastAt, ControlTypes,
     RunTypes, LinkTypes, LastRunOnly, OwnWorkers, Workers, Phases, Kinds, InOrder, Over
<1>9. ServicesUp'
  BY <1>6 DEF Connected, WorkerStep, control, services, LastAt, ServicesUp, InOrder, Over
<1> QED
  BY <1>7, <1>8, <1>9

(* A worker is refused, or its loop ends.                                    *)
LEMMA WorkerFailsKeeps ==
  ASSUME SwarmInv, NEW failed \in workers, WorkerFails(failed)
  PROVE  SwarmInv'
<1> USE SwarmAssumption DEF SwarmInv
<1>0. PICK H \in SUBSET workers : H = {failed}
  OBVIOUS
<1>a. workers' = (workers \ H) \cup {Halted(v) : v \in H}
  BY <1>0 DEF WorkerFails, Become, Halted
<1>b. /\ workers' \subseteq Workers
      /\ \A v \in workers' : \E w \in workers :
           /\ v.run = w.run /\ v.ep = w.ep /\ v.kind = w.kind /\ v.kept = w.kept
           /\ v = IF w \in H THEN Halted(w) ELSE w
      /\ (\A v, w \in workers : v.ep = w.ep /\ v.kind = w.kind => v = w)
         => (\A v, w \in workers' : v.ep = w.ep /\ v.kind = w.kind => v = w)
  BY <1>a, HaltedWorkers, Zenon
<1>1. ControlTypes'
  BY DEF WorkerFails, WorkerStep, control, ControlTypes
<1>2. RunTypes'
  BY DEF WorkerFails, WorkerStep, RunTypes
<1>3. LinkTypes'
  BY DEF WorkerFails, Become, WorkerStep, services, LinkTypes, Workers
<1>4. RunsInTurn'
  BY DEF WorkerFails, WorkerStep, control, LastAt, RunsInTurn
<1>5. StopForgetsPeers'
  BY DEF WorkerFails, WorkerStep, control, StopForgetsPeers
<1> SUFFICES ASSUME ~overlapped', ~loose' PROVE LastRunOnly' /\ OwnWorkers' /\ ServicesUp'
  BY <1>1, <1>2, <1>3, <1>4, <1>5 DEF InOrder
<1>6. ~overlapped /\ ~loose
  BY Zenon DEF WorkerFails, WorkerStep, control
<1>7. LastRunOnly'
  BY <1>6 DEF WorkerFails, Become, WorkerStep, control, LastAt, LinkTypes, LastRunOnly, Workers,
     InOrder, Over
<1>8. OwnWorkers'
  <2>1. UNCHANGED <<starts, runs, claims, client>> /\ OwnWorkers /\ RunTypes
    BY <1>6 DEF WorkerFails, WorkerStep, control, InOrder
  <2>2. \A S : LastAt(S)' <=> LastAt(S)
    BY <2>1 DEF LastAt
  <2>3. \A v, w \in workers' : v.ep = w.ep /\ v.kind = w.kind => v = w
    BY <1>b, <2>1 DEF OwnWorkers
  <2>4. ASSUME ~ LastAt(Ending) PROVE \A w \in workers' : w.kept /\ w.ep \in claims'[w.kind]
    <3>1. \A w \in workers : w.kept /\ w.ep \in claims'[w.kind]
      BY <2>1, <2>4, Zenon DEF OwnWorkers
    <3> QED
      BY <1>b, <3>1, Zenon
  <2>5. ASSUME LastAt({"gather"})
        PROVE  \A w \in workers' : w \in runs'[starts'].awaits \/ (client' = NoClient /\ w.kind = "seed")
    <3> SUFFICES ASSUME NEW v \in workers', v.kind # "seed" \/ client # NoClient
                 PROVE  v \in runs[starts].awaits
      BY <2>1
    <3>1. PICK u \in workers : v.kind = u.kind /\ v = IF u \in H THEN Halted(u) ELSE u
      BY <1>b, Zenon
    <3>2. u \in runs[starts].awaits
      BY <2>1, <2>5, <3>1 DEF OwnWorkers
    <3>3. u.at = "ending"
      BY <2>1, <2>5, <3>2 DEF RunTypes, LastAt
    <3> QED
      BY <1>0, <3>1, <3>2, <3>3 DEF WorkerFails
  <2>6. ASSUME LastAt(Ending)
        PROVE  (\A w \in workers' : w.kind = "seed") /\ (client' # NoClient => workers' = {})
    BY <1>b, <2>1, <2>6 DEF OwnWorkers
  <2> QED
    BY <2>2, <2>3, <2>4, <2>5, <2>6 DEF OwnWorkers
<1>9. ServicesUp'
  BY <1>6 DEF WorkerFails, WorkerStep, control, services, LastAt, ServicesUp, InOrder, Over
<1> QED
  BY <1>7, <1>8, <1>9

(* The finally of a worker gives its endpoint back.                          *)
LEMMA WorkerEndsKeeps ==
  ASSUME SwarmInv, NEW w \in workers, WorkerEnds(w)
  PROVE  SwarmInv'
<1> USE SwarmAssumption DEF SwarmInv
<1>1. ControlTypes'
  BY DEF WorkerEnds, WorkerStep, control, ControlTypes
<1>2. RunTypes'
  BY DEF WorkerEnds, WorkerStep, RunTypes
<1>3. LinkTypes'
  <2>1. /\ workers' = workers \ {w} /\ UNCHANGED <<listener, client>> /\ w.kind \in Kinds
        /\ claims' = [claims EXCEPT ![w.kind] = @ \ {w.ep}]
    BY DEF WorkerEnds, WorkerStep, services, LinkTypes, Workers
  <2>2. claims' \in [Kinds -> SUBSET Endpoints] /\ claims'["download"] \subseteq claims["download"]
    BY <2>1 DEF LinkTypes
  <2>3. Cardinality(claims'["download"]) <= MaxPeers
    <3>1. IsFiniteSet(claims["download"]) /\ claims["download"] \subseteq Endpoints
      BY SwarmAssumption, FS_Subset DEF LinkTypes, Kinds
    <3>2. Cardinality(claims'["download"]) <= Cardinality(claims["download"])
      BY <2>2, <3>1, FS_Subset
    <3>3. Cardinality(claims["download"]) \in Nat /\ Cardinality(claims'["download"]) \in Nat
      BY <2>2, <3>1, FS_Subset, FS_CardinalityType
    <3> QED
      BY <3>2, <3>3, SwarmAssumption DEF LinkTypes
  <2> QED
    BY <2>1, <2>2, <2>3 DEF LinkTypes
<1>4. RunsInTurn'
  BY DEF WorkerEnds, WorkerStep, control, LastAt, RunsInTurn
<1>5. StopForgetsPeers'
  BY DEF WorkerEnds, WorkerStep, control, StopForgetsPeers
<1> SUFFICES ASSUME ~overlapped', ~loose' PROVE LastRunOnly' /\ OwnWorkers' /\ ServicesUp'
  BY <1>1, <1>2, <1>3, <1>4, <1>5 DEF InOrder
<1>6. ~overlapped /\ ~loose
  BY Zenon DEF WorkerEnds, WorkerStep, control
<1>7. LastRunOnly'
  BY <1>6 DEF WorkerEnds, WorkerStep, control, LastAt, LastRunOnly, InOrder, Over
<1>8. OwnWorkers'
  BY <1>6 DEF WorkerEnds, WorkerStep, control, LastAt, OwnWorkers, Kinds, InOrder, Over
<1>9. ServicesUp'
  BY <1>6 DEF WorkerEnds, WorkerStep, control, services, LastAt, ServicesUp, InOrder
<1> QED
  BY <1>7, <1>8, <1>9

(* A new session has no run.                                                 *)
LEMMA SwarmInvInit == SwarmInit => SwarmInv
<1> SUFFICES ASSUME SwarmInit PROVE SwarmInv
  OBVIOUS
<1>1. ControlTypes
  <2>1. starts \in 0 .. MaxStarts /\ token \in 0 .. starts /\ kind \in Kinds /\ tuner \in Tuners
    BY SwarmAssumption DEF SwarmInit, Tuners
  <2>2. isRunning \in BOOLEAN
    BY Zenon DEF SwarmInit
  <2> QED
    BY <2>1, <2>2 DEF ControlTypes
<1>2. RunTypes
  BY DEF SwarmInit, RunTypes, NoRun, Phases
<1>3. LinkTypes
  BY SwarmAssumption, FS_EmptySet DEF SwarmInit, LinkTypes, Kinds
<1>4. RunsInTurn
  BY DEF SwarmInit, RunsInTurn, NoRun
<1>5. StopForgetsPeers
  BY DEF SwarmInit, StopForgetsPeers
<1>6. InOrder
  BY DEF SwarmInit, InOrder, LastRunOnly, OwnWorkers, ServicesUp, LastAt, Over, NoRun, Runs
<1> QED
  BY <1>1, <1>2, <1>3, <1>4, <1>5, <1>6 DEF SwarmInv

(* A step of something else.                                                 *)
LEMMA SwarmStays ==
  ASSUME SwarmInv, UNCHANGED swarmVars
  PROVE  SwarmInv'
<1>1. ControlTypes' /\ RunTypes' /\ LinkTypes' /\ RunsInTurn' /\ StopForgetsPeers'
  BY DEF swarmVars, SwarmInv, ControlTypes, RunTypes, LinkTypes, RunsInTurn, StopForgetsPeers, LastAt
<1>2. InOrder'
  BY DEF swarmVars, SwarmInv, InOrder, LastRunOnly, OwnWorkers, ServicesUp, LastAt, Over
<1> QED
  BY <1>1, <1>2 DEF SwarmInv

(* Every step of a session keeps the invariant.                              *)
LEMMA SwarmInvNext ==
  ASSUME SwarmInv, [SwarmNext]_swarmVars
  PROVE  SwarmInv'
<1>1. CASE TunerStep
  BY <1>1, TunerClosesServerKeeps, TunerClosesServicesKeeps, TunerReopensKeeps, TunerListensKeeps,
     TunerFillsKeeps DEF TunerStep
<1>2. CASE \E r \in Runs : RunStep(r)
  BY <1>2, OpenListenerKeeps, ListeningKeeps, OpenDiscoveryKeeps, LoopOverKeeps, CancelWorkersKeeps,
     GatherWorkersKeeps, DropClientsKeeps, CloseServicesKeeps, RunEndsKeeps DEF RunStep
<1>3. CASE \E r \in Runs : \/ Discover(r) \/ BeginSeeding(r) \/ RunBreaks(r) \/ Accept(r) \/ TripBegins(r)
  BY <1>3, DiscoverKeeps, BeginSeedingKeeps, RunBreaksKeeps, AcceptKeeps, TripBeginsKeeps
<1>4. CASE \E w \in workers : Connected(w) \/ WorkerFails(w) \/ WorkerEnds(w)
  BY <1>4, ConnectedKeeps, WorkerFailsKeeps, WorkerEndsKeeps
<1> QED
  BY <1>1, <1>2, <1>3, <1>4, StartRunKeeps, StopRunKeeps, ClientPexKeeps, ClientEndsKeeps,
     TuneBeginsKeeps, SwarmStays DEF SwarmNext

(* The workers of a kind are as many as their endpoints, all of which are    *)
(* claimed.                                                                  *)
LEMMA DownloadsFit ==
  ASSUME LinkTypes, OwnWorkers, NEW D \in SUBSET workers,
         \A w \in D : w.kind = "download"
  PROVE  Cardinality(D) <= MaxPeers
<1>1. IsFiniteSet(claims["download"]) /\ IsFiniteSet({}) /\ Cardinality({}) = 0
  BY SwarmAssumption, FS_Subset, FS_EmptySet DEF LinkTypes, Kinds
<1>2. CASE LastAt(Ending)
  <2>1. D = {}
    BY <1>2 DEF OwnWorkers
  <2> QED
    BY <1>1, <2>1, SwarmAssumption
<1>3. CASE ~ LastAt(Ending)
  <2>1. PICK f : f = [w \in D |-> w.ep]
    OBVIOUS
  <2>2. f \in [D -> claims["download"]]
    BY <1>3, <2>1, Zenon DEF OwnWorkers
  <2>3. \A v, w \in D : f[v] = f[w] => v = w
    BY <2>1 DEF OwnWorkers
  <2>4. f \in Injection(D, claims["download"])
    BY <2>2, <2>3 DEF Injection, IsInjective
  <2>5. IsFiniteSet(D) /\ Cardinality(D) <= Cardinality(claims["download"])
    BY <1>1, <2>4, FS_Injection
  <2>6. Cardinality(D) \in Nat /\ Cardinality(claims["download"]) \in Nat
    BY <1>1, <2>5, FS_CardinalityType
  <2> QED
    BY <2>5, <2>6, SwarmAssumption DEF LinkTypes
<1> QED
  BY <1>2, <1>3

(* So the invariant gives what is promised of each run.                      *)
LEMMA OneRunOwns == SwarmInv => OneRunOwnsAll
<1> SUFFICES ASSUME SwarmInv, ~overlapped, ~loose, NEW r \in Runs, NEW own, own = {w \in workers : w.run = r}
             PROVE  /\ Cardinality({w \in own : w.kind = "download"}) <= MaxPeers
                    /\ \A v, w \in own : v.ep = w.ep /\ v.kind = w.kind => v = w
                    /\ At(r, "loop") /\ Current(r) /\ tuner = "idle" => lan /\ dht /\ ~shut
  BY DEF OneRunOwnsAll
<1>1. LinkTypes /\ OwnWorkers /\ ServicesUp
  BY DEF SwarmInv, InOrder
<1>2. Cardinality({w \in own : w.kind = "download"}) <= MaxPeers
  BY <1>1, DownloadsFit
<1>3. \A v, w \in own : v.ep = w.ep /\ v.kind = w.kind => v = w
  BY <1>1 DEF OwnWorkers
<1>4. ASSUME At(r, "loop"), Current(r), tuner = "idle" PROVE lan /\ dht /\ ~shut
  <2>1. isRunning /\ r = starts
    BY <1>4 DEF Current, SwarmInv, RunsInTurn
  <2>2. LastAt({"loop"}) /\ ~ LastAt({"cancel", "gather"})
    BY <1>4, <2>1 DEF LastAt, At
  <2> QED
    BY <1>1, <1>4, <2>1, <2>2 DEF ServicesUp
<1> QED
  BY <1>2, <1>3, <1>4, Zenon

LEMMA SwarmInvSound == SwarmInv => SessionSound
BY OneRunOwns DEF SwarmInv, SessionSound

(* For any swarm, any max_peers and any number of runs and upsets: a         *)
(* stopped torrent shows no peers whatever was being connected, and while    *)
(* runs follow each other in order a run has one worker for an endpoint,     *)
(* its downloads stay within max_peers, and its loop has what it opened.     *)
THEOREM SessionIsSound == SwarmSpec => []SessionSound
BY SwarmInvSound, SwarmInvInit, SwarmInvNext, PTL DEF SwarmSpec

(* The types of a session are part of its invariant.                         *)
LEMMA SwarmInvTypes == SwarmInv => SwarmTypeOK
BY DEF SwarmInv, ControlTypes, RunTypes, LinkTypes, SwarmTypeOK

--------------------------------------------------------------------------------
(* The port mapper (connectivity.py).                                        *)

(* What can become of an attempt to map a port.                              *)
Outcomes == Methods \cup {None, "Unmapped", "Disabled", "IPv6 Direct"}

(* The worker thread: what it does, for which port and request, and the      *)
(* mapping it found and made.                                                *)
Thread ==
  [at : {"idle", "loop", "map", "store", "drop"}, port : Ports, req : Requests \cup {None},
   old : Methods \cup {None}, new : Outcomes]

(* The types of what is wished and of what is mapped.                        *)
WishTypes ==
  /\ active \subseteq Ports /\ toRemove \subseteq Ports /\ due \subseteq Ports
  /\ toMap \in [Ports -> Requests \cup {None}] /\ requests \in [Ports -> Requests \cup {None}]
MappingTypes ==
  /\ known \in [Ports -> Methods \cup {None}] /\ mapper \in Thread
  /\ router \subseteq [port : Ports, method : Methods] /\ lost \subseteq router
  /\ DOMAIN status = Ports

(* close() empties the queues.                                               *)
ClosedIsEmpty == mapperClosed => toRemove = {} /\ \A p \in Ports : toMap[p] = None

(* A port shown as being mapped is queued or in the hand of the thread.      *)
ShownWhileHandled == \A p \in Ports : status[p] = "Mapping" => Handling(p)

(* The inductive invariant of the port mapper.                               *)
MapperInv ==
  /\ WishTypes /\ MappingTypes
  /\ KeptForSomebody /\ ClosedIsEmpty /\ WishesAreServed /\ ShownWhileHandled

(* register_port: the wish is recorded and queued.                           *)
LEMMA RegisterPortKeeps ==
  ASSUME MapperInv, NEW p \in Ports, NEW req \in Requests, RegisterPort(p, req)
  PROVE  MapperInv'
<1> USE MapperAssumption DEF MapperInv
<1>1. WishTypes'
  BY DEF RegisterPort, DropProbe, Put, WishTypes
<1>2. MappingTypes'
  BY DEF RegisterPort, EnsureWorker, shown, outside, Idle, MappingTypes, Thread, Outcomes
<1>3. KeptForSomebody'
  BY DEF RegisterPort, DropProbe, KeptForSomebody, Desired
<1>4. ClosedIsEmpty'
  BY DEF RegisterPort, Call, ClosedIsEmpty
<1>5. WishesAreServed'
  BY DEF RegisterPort, EnsureWorker, WishesAreServed
<1>6. ShownWhileHandled'
  BY DEF RegisterPort, EnsureWorker, shown, ShownWhileHandled, Handling
<1> QED
  BY <1>1, <1>2, <1>3, <1>4, <1>5, <1>6

(* release_port: the mapping is queued for removal unless somebody still     *)
(* wants it.                                                                 *)
LEMMA ReleasePortKeeps ==
  ASSUME MapperInv, NEW p \in Ports, ReleasePort(p)
  PROVE  MapperInv'
<1> USE MapperAssumption DEF MapperInv
<1>1. WishTypes'
  BY DEF ReleasePort, Put, WishTypes
<1>2. MappingTypes'
  BY DEF ReleasePort, EnsureWorker, shown, outside, Idle, MappingTypes, Thread, Outcomes
<1>3. KeptForSomebody'
  BY DEF ReleasePort, KeptForSomebody, Desired
<1>4. ClosedIsEmpty'
  BY DEF ReleasePort, Call, ClosedIsEmpty
<1>5. WishesAreServed'
  BY DEF ReleasePort, EnsureWorker, WishesAreServed
<1>6. ShownWhileHandled'
  BY DEF ReleasePort, EnsureWorker, shown, ShownWhileHandled, Handling
<1> QED
  BY <1>1, <1>2, <1>3, <1>4, <1>5, <1>6

(* A connection has come in: the port is open whatever is mapped.            *)
LEMMA MarkIncomingKeeps ==
  ASSUME MapperInv, NEW p \in Ports, MarkIncoming(p)
  PROVE  MapperInv'
<1> USE MapperAssumption DEF MapperInv
<1>1. WishTypes'
  BY DEF MarkIncoming, wishes, WishTypes
<1>2. MappingTypes'
  BY DEF MarkIncoming, Put, outside, MappingTypes
<1>3. KeptForSomebody'
  BY DEF MarkIncoming, wishes, KeptForSomebody, Desired
<1>4. ClosedIsEmpty'
  BY DEF MarkIncoming, wishes, ClosedIsEmpty
<1>5. WishesAreServed'
  BY DEF MarkIncoming, wishes, WishesAreServed
<1>6. ShownWhileHandled'
  BY DEF MarkIncoming, Put, MappingTypes, ShownWhileHandled, Handling
<1> QED
  BY <1>1, <1>2, <1>3, <1>4, <1>5, <1>6

(* The lease of a mapping is to be renewed.                                  *)
LEMMA RenewDueKeeps ==
  ASSUME MapperInv, NEW p \in Ports, RenewDue(p)
  PROVE  MapperInv'
<1> USE MapperAssumption DEF MapperInv
<1>1. WishTypes'
  BY DEF RenewDue, Put, WishTypes
<1>2. MappingTypes'
  BY DEF RenewDue, EnsureWorker, shown, outside, Idle, MappingTypes, Thread, Outcomes
<1>3. KeptForSomebody'
  BY DEF RenewDue, KeptForSomebody, Desired
<1>4. ClosedIsEmpty'
  BY DEF RenewDue, ClosedIsEmpty
<1>5. WishesAreServed'
  BY DEF RenewDue, EnsureWorker, WishesAreServed
<1>6. ShownWhileHandled'
  BY DEF RenewDue, EnsureWorker, shown, ShownWhileHandled, Handling
<1> QED
  BY <1>1, <1>2, <1>3, <1>4, <1>5, <1>6

(* request_refresh: every listener is queued again, or the configured port   *)
(* as a probe.                                                               *)
LEMMA RefreshAllKeeps ==
  ASSUME MapperInv, NEW req \in Requests, RefreshAll(req)
  PROVE  MapperInv'
<1> USE MapperAssumption DEF MapperInv
<1>1. WishTypes'
  BY DEF RefreshAll, WishTypes
<1>2. MappingTypes'
  BY DEF RefreshAll, EnsureWorker, shown, outside, Idle, MappingTypes, Thread, Outcomes
<1>3. KeptForSomebody'
  BY DEF RefreshAll, KeptForSomebody, Desired
<1>4. ClosedIsEmpty'
  BY DEF RefreshAll, Call, ClosedIsEmpty
<1>5. WishesAreServed'
  BY DEF RefreshAll, EnsureWorker, WishesAreServed
<1>6. ShownWhileHandled'
  BY DEF RefreshAll, EnsureWorker, shown, ShownWhileHandled, Handling
<1> QED
  BY <1>1, <1>2, <1>3, <1>4, <1>5, <1>6

(* close(): everything is forgotten, and what was mapped is removed by the   *)
(* caller.                                                                   *)
LEMMA CloseMapperKeeps ==
  ASSUME MapperInv, CloseMapper
  PROVE  MapperInv'
<1> USE MapperAssumption DEF MapperInv
<1>1. WishTypes'
  BY DEF CloseMapper, WishTypes
<1>2. MappingTypes'
  BY DEF CloseMapper, MappingTypes
<1>3. KeptForSomebody'
  BY DEF CloseMapper, KeptForSomebody
<1>4. ClosedIsEmpty'
  BY DEF CloseMapper, ClosedIsEmpty
<1>5. WishesAreServed'
  BY DEF CloseMapper, WishesAreServed
<1>6. ShownWhileHandled'
  BY DEF CloseMapper, None, ShownWhileHandled
<1> QED
  BY <1>1, <1>2, <1>3, <1>4, <1>5, <1>6

(* The thread finds nothing to do.                                           *)
LEMMA MapperRestsKeeps ==
  ASSUME MapperInv, MapperRests
  PROVE  MapperInv'
<1> USE MapperAssumption DEF MapperInv
<1>1. WishTypes'
  BY DEF MapperRests, wishes, WishTypes
<1>2. MappingTypes'
  BY DEF MapperRests, Idle, shown, outside, MappingTypes, Thread, Outcomes
<1>3. KeptForSomebody'
  BY DEF MapperRests, wishes, KeptForSomebody, Desired
<1>4. ClosedIsEmpty'
  BY DEF MapperRests, wishes, ClosedIsEmpty
<1>5. WishesAreServed'
  BY DEF MapperRests, wishes, ClosedIsEmpty, WishesAreServed
<1>6. ShownWhileHandled'
  BY DEF MapperRests, shown, ShownWhileHandled, Handling
<1> QED
  BY <1>1, <1>2, <1>3, <1>4, <1>5, <1>6

(* It removes a mapping from the router, which may not answer.               *)
LEMMA DropMappingKeeps ==
  ASSUME MapperInv, DropMapping
  PROVE  MapperInv'
<1> USE MapperAssumption DEF MapperInv
<1>1. WishTypes'
  BY DEF DropMapping, wishes, WishTypes
<1>2. MappingTypes'
  BY DEF DropMapping, Idle, shown, MappingTypes, Thread, Outcomes
<1>3. KeptForSomebody'
  BY DEF DropMapping, wishes, KeptForSomebody, Desired
<1>4. ClosedIsEmpty'
  BY DEF DropMapping, wishes, ClosedIsEmpty
<1>5. WishesAreServed'
  BY DEF DropMapping, WishesAreServed
<1>6. ShownWhileHandled'
  BY DEF DropMapping, shown, ShownWhileHandled, Handling
<1> QED
  BY <1>1, <1>2, <1>3, <1>4, <1>5, <1>6

(* It asks the router for a mapping by the methods it may use.               *)
LEMMA PerformRefreshKeeps ==
  ASSUME MapperInv, PerformRefresh
  PROVE  MapperInv'
<1> USE MapperAssumption DEF MapperInv
<1>1. WishTypes'
  BY DEF PerformRefresh, wishes, WishTypes
<1>2. MappingTypes'
  <2>1. mapper \in Thread /\ mapper.port \in Ports /\ \A m \in Methods : Entry(m) \in [port : Ports, method : Methods]
    BY DEF MappingTypes, Thread, Entry
  <2>2. mapper' \in Thread
    <3>1. \E o \in Outcomes : mapper' = [mapper EXCEPT !.at = "store", !.new = o]
      BY DEF PerformRefresh, MapUpnp, MapNatPmp, MappingFails, NothingToMap, Makes, Outcomes, Methods
    <3> QED
      BY <2>1, <3>1 DEF Thread
  <2>3. ASSUME NEW m \in Methods, Makes(m)
        PROVE  router' \subseteq [port : Ports, method : Methods] /\ lost' \subseteq router'
    BY <2>1, <2>3 DEF Makes, Superseded, MappingTypes
  <2>4. ASSUME MappingFails
        PROVE  router' \subseteq [port : Ports, method : Methods] /\ lost' \subseteq router'
    BY <2>1, <2>4 DEF MappingFails, outside, MappingTypes
  <2>5. ASSUME NothingToMap
        PROVE  router' \subseteq [port : Ports, method : Methods] /\ lost' \subseteq router'
    BY <2>5 DEF NothingToMap, outside, MappingTypes
  <2>6. router' \subseteq [port : Ports, method : Methods] /\ lost' \subseteq router'
    BY <2>3, <2>4, <2>5 DEF PerformRefresh, MapUpnp, MapNatPmp, Methods
  <2> QED
    BY <2>2, <2>6 DEF PerformRefresh, shown, MappingTypes
<1>3. KeptForSomebody'
  BY DEF PerformRefresh, wishes, KeptForSomebody, Desired
<1>4. ClosedIsEmpty'
  BY DEF PerformRefresh, wishes, ClosedIsEmpty
<1>5. WishesAreServed'
  BY DEF PerformRefresh, MapUpnp, MapNatPmp, MappingFails, NothingToMap, Makes, MappingTypes,
     WishesAreServed, Thread
<1>6. ShownWhileHandled'
  BY DEF PerformRefresh, MapUpnp, MapNatPmp, MappingFails, NothingToMap, wishes, shown, Makes,
     outside, Methods, Entry, Superseded, MappingTypes, ShownWhileHandled, Handling, Thread,
     Outcomes
<1> QED
  BY <1>1, <1>2, <1>3, <1>4, <1>5, <1>6

(* The mapping has come for a port nobody wants any more.                    *)
LEMMA StoreUnwantedKeeps ==
  ASSUME MapperInv, StoreUnwanted
  PROVE  MapperInv'
<1> USE MapperAssumption DEF MapperInv
<1>1. WishTypes'
  BY DEF StoreUnwanted, wishes, WishTypes
<1>2. MappingTypes'
  BY DEF StoreUnwanted, Put, Idle, outside, MappingTypes, Thread, Outcomes
<1>3. KeptForSomebody'
  BY DEF StoreUnwanted, Desired, Put, wishes, KeptForSomebody
<1>4. ClosedIsEmpty'
  BY DEF StoreUnwanted, wishes, ClosedIsEmpty
<1>5. WishesAreServed'
  BY DEF StoreUnwanted, WishesAreServed
<1>6. ShownWhileHandled'
  BY DEF StoreUnwanted, Put, None, MappingTypes, ShownWhileHandled, Handling
<1> QED
  BY <1>1, <1>2, <1>3, <1>4, <1>5, <1>6

(* It is wanted, and recorded in place of the old one.                       *)
LEMMA StoreWantedKeeps ==
  ASSUME MapperInv, StoreWanted
  PROVE  MapperInv'
<1> USE MapperAssumption DEF MapperInv
<1>1. WishTypes'
  BY DEF StoreWanted, wishes, WishTypes
<1>2. MappingTypes'
  BY DEF StoreWanted, Put, MappingAfter, Idle, outside, MappingTypes, Thread, Outcomes
<1>3. KeptForSomebody'
  BY DEF StoreWanted, Desired, Put, wishes, KeptForSomebody
<1>4. ClosedIsEmpty'
  BY DEF StoreWanted, wishes, ClosedIsEmpty
<1>5. WishesAreServed'
  BY DEF StoreWanted, WishesAreServed
<1>6. ShownWhileHandled'
  BY DEF StoreWanted, Put, StatusAfter, None, MappingTypes, ShownWhileHandled, Handling, Thread,
     Outcomes
<1> QED
  BY <1>1, <1>2, <1>3, <1>4, <1>5, <1>6

(* The thread takes a removal from its queue,                                *)
LEMMA TakeRemovalKeeps ==
  ASSUME MapperInv, NEW p \in Ports, TakeRemoval(p)
  PROVE  MapperInv'
<1> USE MapperAssumption DEF MapperInv
<1>1. WishTypes'
  BY DEF TakeRemoval, Put, WishTypes
<1>2. MappingTypes'
  BY DEF TakeRemoval, Put, outside, MappingTypes, Thread
<1>3. KeptForSomebody'
  BY DEF TakeRemoval, Put, MappingTypes, KeptForSomebody, Desired
<1>4. ClosedIsEmpty'
  BY DEF TakeRemoval, ClosedIsEmpty
<1>5. WishesAreServed'
  BY DEF TakeRemoval, WishesAreServed
<1>6. ShownWhileHandled'
  BY DEF TakeRemoval, Put, None, ShownWhileHandled, Handling
<1> QED
  BY <1>1, <1>2, <1>3, <1>4, <1>5, <1>6

(* or a wish.                                                                *)
LEMMA TakeMapKeeps ==
  ASSUME MapperInv, NEW p \in Ports, TakeMap(p)
  PROVE  MapperInv'
<1> USE MapperAssumption DEF MapperInv
<1>1. WishTypes'
  BY DEF TakeMap, Put, WishTypes
<1>2. MappingTypes'
  BY DEF TakeMap, Put, outside, WishTypes, MappingTypes, Thread, Outcomes
<1>3. KeptForSomebody'
  BY DEF TakeMap, KeptForSomebody, Desired
<1>4. ClosedIsEmpty'
  BY DEF TakeMap, ClosedIsEmpty
<1>5. WishesAreServed'
  BY DEF TakeMap, WishesAreServed
<1>6. ShownWhileHandled'
  BY DEF TakeMap, Put, ShownWhileHandled, Handling
<1> QED
  BY <1>1, <1>2, <1>3, <1>4, <1>5, <1>6

(* The lease of a mapping runs out in the router.                            *)
LEMMA LeaseExpiresKeeps ==
  ASSUME MapperInv, NEW m \in router, LeaseExpires(m)
  PROVE  MapperInv'
<1> USE MapperAssumption DEF MapperInv
<1>1. WishTypes'
  BY DEF LeaseExpires, wishes, WishTypes
<1>2. MappingTypes'
  BY DEF LeaseExpires, shown, MappingTypes
<1>3. KeptForSomebody'
  BY DEF LeaseExpires, wishes, KeptForSomebody, Desired
<1>4. ClosedIsEmpty'
  BY DEF LeaseExpires, wishes, ClosedIsEmpty
<1>5. WishesAreServed'
  BY DEF LeaseExpires, wishes, WishesAreServed
<1>6. ShownWhileHandled'
  BY DEF LeaseExpires, shown, ShownWhileHandled, Handling
<1> QED
  BY <1>1, <1>2, <1>3, <1>4, <1>5, <1>6

(* A new mapper wishes and maps nothing.                                     *)
LEMMA MapperInvInit == MapperInit => MapperInv
BY MapperAssumption DEF MapperInit, MapperInv, WishTypes, MappingTypes, KeptForSomebody,
   ClosedIsEmpty, WishesAreServed, ShownWhileHandled, Thread, Outcomes, Idle, None

(* Every step of a caller, of the thread or of the router keeps the          *)
(* invariant.                                                                *)
LEMMA MapperInvNext ==
  ASSUME MapperInv, [MapperNext]_mapperVars
  PROVE  MapperInv'
<1>1. CASE UNCHANGED mapperVars
  BY <1>1 DEF mapperVars, MapperInv, WishTypes, MappingTypes, KeptForSomebody, ClosedIsEmpty,
     WishesAreServed, ShownWhileHandled, Handling, Desired
<1>2. CASE MapperStep
  BY <1>2, MapperRestsKeeps, DropMappingKeeps, PerformRefreshKeeps, StoreUnwantedKeeps,
     StoreWantedKeeps, TakeRemovalKeeps, TakeMapKeeps DEF MapperStep
<1> QED
  BY <1>1, <1>2, RegisterPortKeeps, ReleasePortKeeps, MarkIncomingKeeps, RenewDueKeeps,
     RefreshAllKeeps, CloseMapperKeeps, LeaseExpiresKeeps DEF MapperNext

(* The types of the mapper are part of its invariant.                        *)
LEMMA MapperInvTypes == MapperInv => MapperTypeOK
BY DEF MapperInv, WishTypes, MappingTypes, MapperTypeOK, Thread

LEMMA MapperInvSound == MapperInv => MapperSound
<1> SUFFICES ASSUME MapperInv, Aggregate = "Mapping"
             PROVE  \E p \in Ports : Handling(p)
  BY DEF MapperInv, MapperSound, MappingIsUnderWay
<1>1. PICK targets \in SUBSET Ports : targets = IF active = {} /\ probe THEN {Configured} ELSE active
  BY MapperAssumption DEF MapperInv, WishTypes
<1>2. \E p \in targets : status[p] = "Mapping"
  BY <1>1 DEF Aggregate
<1> QED
  BY <1>1, <1>2 DEF MapperInv, ShownWhileHandled

(* For any ports, methods and bounds: a mapping is kept only for a port      *)
(* somebody wants or whose removal is queued, a queued wish has a worker     *)
(* thread to carry it out, and the overview says Mapping only while one      *)
(* does, whatever is registered, released, renewed or closed while the       *)
(* router is asked.                                                          *)
THEOREM MapperIsSound == MapperSpec => []MapperSound
BY MapperInvSound, MapperInvInit, MapperInvNext, PTL DEF MapperSpec

--------------------------------------------------------------------------------
(* Announces to the trackers (tracker.py).                                   *)

(* The types of the calls of fetch_peers, of the records shown and of the    *)
(* answers they rest on.                                                     *)
AnnounceTypes ==
  /\ announces \in 0 .. MaxAnnounces
  /\ call \in [Callers -> [at : {0} \cup Trackers, asked : SUBSET Trackers]]
  /\ record \in [Trackers -> Statuses] /\ DOMAIN answers = Trackers

(* A call asks the trackers in their order and has asked those in front of   *)
(* the one it is at.                                                         *)
AskedInOrder ==
  \A c \in Callers :
    call[c] = NoCall \/ (call[c].at \in Trackers /\ call[c].asked = 1 .. call[c].at - 1)

(* The inductive invariant of the announces.                                 *)
AnnounceInv ==
  /\ AnnounceTypes /\ AskedInOrder /\ gaveUp \in BOOLEAN /\ ~ gaveUp /\ running \in BOOLEAN
  /\ AnnouncingIsAsked /\ TimeoutIsHonest

(* The trackers are numbered in their order.                                 *)
LEMMA TrackersAre == Len(AnnounceList) \in Nat /\ Trackers = 1 .. Len(AnnounceList)
BY AnnounceAssumption, LenProperties DEF Trackers

(* The next tracker that can be asked is the first of them, if there is      *)
(* one: induction over their numbers.                                        *)
LEMMA FollowingIsNext ==
  ASSUME NEW t \in 1 .. Len(AnnounceList) + 1
  PROVE  Following(t) = 0 \/ Following(t) \in t .. Len(AnnounceList)
<1> DEFINE T == {u \in t .. Len(AnnounceList) : Askable(u)}
<1>1. CASE T = {}
  BY <1>1 DEF Following
<1>2. CASE T # {}
  <2>1. T \in SUBSET Nat
    BY TrackersAre
  <2>2. PICK u \in T : \A w \in T : u <= w
    BY <1>2, <2>1, Smallest
  <2>3. u \in t .. Len(AnnounceList) /\ Askable(u) /\ \A w \in t .. u - 1 : ~ Askable(w)
    BY <2>2, TrackersAre
  <2> HIDE DEF T
  <2>4. (CHOOSE v \in t .. Len(AnnounceList) : Askable(v) /\ \A w \in t .. v - 1 : ~ Askable(w))
          \in t .. Len(AnnounceList)
    BY <2>3
  <2> QED
    BY <2>3, <2>4 DEF Following
<1> QED
  BY <1>1, <1>2

(* What an address may answer.                                               *)
LEMMA AnswersAre == EndpointResults \subseteq {"timeout", "error", "peers", "none"}
BY DEF EndpointResults, EndpointResult

(* Of the addresses of a family the first good answer counts; a timeout is   *)
(* reported only if nothing else came.                                       *)
LEMMA CandidatesAre ==
  ASSUME NEW protocol, NEW f, NEW s \in Replies(protocol, f)
  PROVE  /\ ToSet(s) \subseteq {"timeout", "error", "peers", "none"} /\ ToSet(s) # {}
         /\ ~ Good(CandidatesResult(s)) => \A a \in ToSet(s) : ~ Good(a)
         /\ CandidatesResult(s) \in {"timeout", "error", "peers", "none"}
         /\ CandidatesResult(s) = "timeout" => ToSet(s) = {"timeout"}
<1>1. PICK n \in Nat : n >= 1 /\ DOMAIN s = 1 .. n /\ \A i \in 1 .. n : s[i] \in EndpointResults
  <2>1. CASE s \in {<<r>> : r \in EndpointResults}
    <3>1. PICK r \in EndpointResults : s = <<r>>
      BY <2>1
    <3>2. DOMAIN s = 1 .. 1 /\ \A i \in 1 .. 1 : s[i] \in EndpointResults
      BY <3>1
    <3> QED
      BY <3>2
  <2>2. CASE s \in EndpointResults \X EndpointResults
    <3>1. PICK r \in EndpointResults, q \in EndpointResults : s = <<r, q>>
      BY <2>2
    <3>2. DOMAIN s = 1 .. 2 /\ \A i \in 1 .. 2 : s[i] \in EndpointResults
      BY <3>1
    <3> QED
      BY <3>2
  <2> QED
    BY <2>1, <2>2 DEF Replies
<1>2. /\ DOMAIN s \in SUBSET Nat /\ 1 \in DOMAIN s
      /\ \A m \in DOMAIN s : 1 .. m - 1 \subseteq DOMAIN s
      /\ \A i \in DOMAIN s : s[i] \in {"timeout", "error", "peers", "none"}
  <2>1. DOMAIN s \in SUBSET Nat /\ 1 \in DOMAIN s
    BY <1>1
  <2>2. \A m \in DOMAIN s : 1 .. m - 1 \subseteq DOMAIN s
    BY <1>1
  <2>3. \A i \in DOMAIN s : s[i] \in {"timeout", "error", "peers", "none"}
    BY <1>1, AnswersAre
  <2> QED
    BY <2>1, <2>2, <2>3
<1>3. ToSet(s) = {s[i] : i \in DOMAIN s}
  BY DEF ToSet
<1> DEFINE T == {i \in DOMAIN s : Good(s[i])}
<1>4. ASSUME T # {} PROVE Good(CandidatesResult(s)) /\ CandidatesResult(s) \in {"timeout", "error", "peers", "none"}
  <2>1. T \in SUBSET Nat
    BY <1>2
  <2>2. PICK m \in T : \A j \in T : m <= j
    BY <1>4, <2>1, Smallest
  <2>3. m \in DOMAIN s /\ Good(s[m]) /\ \A j \in 1 .. m - 1 : ~ Good(s[j])
    BY <1>2, <2>2
  <2> HIDE DEF T
  <2>4. PICK i : i = CHOOSE k \in DOMAIN s : Good(s[k]) /\ \A j \in 1 .. k - 1 : ~ Good(s[j])
    OBVIOUS
  <2>5. i \in DOMAIN s /\ Good(s[i])
    BY <2>3, <2>4
  <2>6. CandidatesResult(s) = s[i]
    BY <2>3, <2>4 DEF CandidatesResult
  <2> QED
    BY <1>2, <2>5, <2>6
<1>5. ASSUME T = {} PROVE /\ \A i \in DOMAIN s : ~ Good(s[i])
                          /\ CandidatesResult(s) = IF \E i \in DOMAIN s : s[i] = "error" THEN "error" ELSE "timeout"
  <2>1. \A i \in DOMAIN s : ~ Good(s[i])
    BY <1>5
  <2> HIDE DEF T
  <2> QED
    BY <2>1 DEF CandidatesResult
<1>6. ToSet(s) \subseteq {"timeout", "error", "peers", "none"} /\ ToSet(s) # {}
  BY <1>2, <1>3
<1>7. ASSUME ~ Good(CandidatesResult(s)) PROVE \A a \in ToSet(s) : ~ Good(a)
  BY <1>3, <1>4, <1>5, <1>7
<1>8. CandidatesResult(s) \in {"timeout", "error", "peers", "none"}
  BY <1>4, <1>5
<1>9. ASSUME CandidatesResult(s) = "timeout" PROVE ToSet(s) = {"timeout"}
  <2>1. T = {}
    BY <1>4, <1>9 DEF Good
  <2>2. \A i \in DOMAIN s : ~ Good(s[i]) /\ s[i] # "error"
    BY <1>5, <1>9, <2>1
  <2>3. \A i \in DOMAIN s : s[i] = "timeout"
    BY <1>2, <2>2 DEF Good
  <2> QED
    BY <1>2, <1>3, <2>3
<1> QED
  BY <1>6, <1>7, <1>8, <1>9

(* A call that goes on to the next tracker shows it as being asked, and      *)
(* passes others with a status of their own.                                 *)
LEMMA GoingOn ==
  ASSUME AnnounceTypes, AskedInOrder, gaveUp \in BOOLEAN, ~ gaveUp, NEW c \in Callers, NEW t \in 1 .. Len(AnnounceList) + 1,
         NEW asked, asked = 1 .. t - 1, NEW told \in [Trackers -> Statuses],
         \A w \in Trackers : told[w] = "Announcing" => \E d \in Callers \ {c} : call[d].at = w,
         GoTo(c, t, asked, told)
  PROVE  /\ record' \in [Trackers -> Statuses]
         /\ call' \in [Callers -> [at : {0} \cup Trackers, asked : SUBSET Trackers]]
         /\ AskedInOrder' /\ gaveUp' \in BOOLEAN /\ ~ gaveUp' /\ AnnouncingIsAsked'
         /\ \A w \in Trackers : record'[w] \in {"Timeout", "Error"} => record'[w] = told[w]
<1>1. PICK u : u = Following(t)
  OBVIOUS
<1>2. PICK done : done = asked \cup Passed(t, u)
  OBVIOUS
<1>3. u = 0 \/ u \in t .. Len(AnnounceList)
  BY <1>1, FollowingIsNext
<1>4. /\ record' = Advance(t, u, told)
      /\ call' = [call EXCEPT ![c] = IF u = 0 THEN NoCall ELSE [at |-> u, asked |-> done]]
      /\ gaveUp' = (gaveUp \/ (u = 0 /\ done # Trackers))
  BY <1>1, <1>2 DEF GoTo
<1>5. done \subseteq Trackers /\ (u = 0 => done = Trackers) /\ (u # 0 => done = 1 .. u - 1)
  BY <1>2, <1>3, TrackersAre DEF Passed
<1>6. /\ DOMAIN record' = Trackers /\ record' \in [Trackers -> Statuses]
      /\ \A w \in Trackers : record'[w] = "Announcing" => w = u \/ record'[w] = told[w]
      /\ \A w \in Trackers : record'[w] \in {"Timeout", "Error"} => record'[w] = told[w]
  BY <1>4 DEF Advance, Statuses
<1>7. u = 0 \/ u \in Trackers
  BY <1>3, TrackersAre
<1>8. /\ call'[c] = IF u = 0 THEN NoCall ELSE [at |-> u, asked |-> done]
      /\ \A d \in Callers \ {c} : call'[d] = call[d]
  BY <1>4 DEF AnnounceTypes
<1>9. call' \in [Callers -> [at : {0} \cup Trackers, asked : SUBSET Trackers]]
  <2>1. (IF u = 0 THEN NoCall ELSE [at |-> u, asked |-> done])
          \in [at : {0} \cup Trackers, asked : SUBSET Trackers]
    BY <1>5, <1>7 DEF NoCall
  <2> QED
    BY <1>4, <2>1 DEF AnnounceTypes
<1>10. AskedInOrder'
  BY <1>5, <1>7, <1>8 DEF AskedInOrder
<1>11. AnnouncingIsAsked'
  <2> SUFFICES ASSUME NEW w \in Trackers, record'[w] = "Announcing"
               PROVE  \E d \in Callers : call'[d].at = w
    BY DEF AnnouncingIsAsked
  <2>1. CASE w = u
    <3>1. w # 0
      BY TrackersAre
    <3>2. call'[c].at = w
      BY <1>8, <2>1, <3>1
    <3> QED
      BY <3>2
  <2>2. CASE w # u
    BY <1>6, <1>8, <2>2
  <2> QED
    BY <2>1, <2>2
<1>12. gaveUp' \in BOOLEAN /\ ~ gaveUp'
  BY <1>4, <1>5
<1> QED
  BY <1>6, <1>9, <1>10, <1>11, <1>12

(* A tracker shown as being asked is asked by a call.                        *)
LEMMA NobodyAsks ==
  ASSUME AnnounceTypes, AnnouncingIsAsked, NEW c \in Callers, NEW w \in Trackers,
         record[w] = "Announcing", call[c] = NoCall \/ call[c].at # w
  PROVE  \E d \in Callers \ {c} : call[d].at = w
<1>1. PICK d \in Callers : call[d].at = w
  BY DEF AnnouncingIsAsked
<1>2. w # 0
  BY TrackersAre
<1>3. d # c
  BY <1>1, <1>2 DEF NoCall
<1> QED
  BY <1>1, <1>3

(* An announce of the loop, or of Stop, begins.                              *)
LEMMA AnnounceKeeps ==
  ASSUME AnnounceInv, NEW c \in Callers, Announce(c), running' \in BOOLEAN
  PROVE  AnnounceInv'
<1>1. /\ announces' \in 0 .. MaxAnnounces /\ call[c] = NoCall /\ answers' = answers
      /\ GoTo(c, 1, {}, record)
  BY AnnounceAssumption DEF AnnounceInv, AnnounceTypes, Announce
<1>2. \A w \in Trackers : record[w] = "Announcing" => \E d \in Callers \ {c} : call[d].at = w
  BY <1>1, NobodyAsks DEF AnnounceInv
<1>3. /\ record' \in [Trackers -> Statuses]
      /\ call' \in [Callers -> [at : {0} \cup Trackers, asked : SUBSET Trackers]]
      /\ AskedInOrder' /\ gaveUp' \in BOOLEAN /\ ~ gaveUp' /\ AnnouncingIsAsked'
      /\ \A w \in Trackers : record'[w] \in {"Timeout", "Error"} => record'[w] = record[w]
  <2>1. {} = 1 .. 1 - 1 /\ 1 \in 1 .. Len(AnnounceList) + 1 /\ record \in [Trackers -> Statuses]
    BY TrackersAre DEF AnnounceInv, AnnounceTypes
  <2> QED
    BY <1>1, <1>2, <2>1, GoingOn DEF AnnounceInv
<1>4. AnnounceTypes'
  BY <1>1, <1>3 DEF AnnounceTypes, AnnounceInv
<1>5. TimeoutIsHonest'
  BY <1>1, <1>3 DEF TimeoutIsHonest, AnnounceInv
<1> QED
  BY <1>3, <1>4, <1>5 DEF AnnounceInv

(* What is shown of a result.                                                *)
LEMMA ShownHonestly ==
  ASSUME NEW result, NEW gave
  PROVE  /\ Shown(result, gave) \in Statuses \ {"Announcing"}
         /\ Shown(result, gave) = "Timeout" => result = "timeout"
         /\ Shown(result, gave) = "Error" => result # "ok"
BY DEF Shown, Statuses

(* Every address of the tracker has answered or not: the call ends with      *)
(* peers, or goes on.                                                        *)
LEMMA AnsweredKeeps ==
  ASSUME AnnounceInv, NEW c \in Callers, Answered(c)
  PROVE  AnnounceInv'
<1>1. PICK t : t = call[c].at
  OBVIOUS
<1>2. PICK families \in SUBSET Families, first \in Families :
      \E came \in [families -> UNION {Replies(AnnounceList[call[c].at], f) : f \in families}] :
       LET results == [f \in families |-> CandidatesResult(came[f])]
           result == QueryResult(AnnounceList[call[c].at], results, first)
           told == [record EXCEPT ![call[c].at] = Shown(result, PeersOf(results))]
           asked == call[c].asked \cup {call[c].at}
       IN  /\ MayBeFirst(AnnounceList[call[c].at], first, families)
           /\ \A f \in families : came[f] \in Replies(AnnounceList[call[c].at], f)
           /\ answers' = [answers EXCEPT ![call[c].at] =
                IF result = "ok" THEN {} ELSE UNION {ToSet(came[f]) : f \in families}]
           /\ IF Enough(PeersOf(results))
              THEN /\ record' = told /\ call' = [call EXCEPT ![c] = NoCall]
                   /\ gaveUp' = (gaveUp \/ (PeersOf(results) = {} /\ asked # Trackers))
              ELSE GoTo(c, call[c].at + 1, asked, told)
  BY DEF Answered
<1>21. PICK came \in [families -> UNION {Replies(AnnounceList[call[c].at], f) : f \in families}] :
       LET results == [f \in families |-> CandidatesResult(came[f])]
           result == QueryResult(AnnounceList[call[c].at], results, first)
           told == [record EXCEPT ![call[c].at] = Shown(result, PeersOf(results))]
           asked == call[c].asked \cup {call[c].at}
       IN  /\ MayBeFirst(AnnounceList[call[c].at], first, families)
           /\ \A f \in families : came[f] \in Replies(AnnounceList[call[c].at], f)
           /\ answers' = [answers EXCEPT ![call[c].at] =
                IF result = "ok" THEN {} ELSE UNION {ToSet(came[f]) : f \in families}]
           /\ IF Enough(PeersOf(results))
              THEN /\ record' = told /\ call' = [call EXCEPT ![c] = NoCall]
                   /\ gaveUp' = (gaveUp \/ (PeersOf(results) = {} /\ asked # Trackers))
              ELSE GoTo(c, call[c].at + 1, asked, told)
  BY <1>2
<1>22. PICK results : results = [f \in families |-> CandidatesResult(came[f])]
  OBVIOUS
<1>23. PICK result : result = QueryResult(AnnounceList[t], results, first)
  OBVIOUS
<1>24. PICK told : told = [record EXCEPT ![t] = Shown(result, PeersOf(results))]
  OBVIOUS
<1>25. PICK asked : asked = call[c].asked \cup {t}
  OBVIOUS
<1>26. PICK all : all = UNION {ToSet(came[f]) : f \in families}
  OBVIOUS
<1>27. DOMAIN came = families /\ \A f \in families : came[f] \in Replies(AnnounceList[t], f)
  BY <1>1, <1>21
<1>28. answers' = [answers EXCEPT ![t] = IF result = "ok" THEN {} ELSE all]
  BY <1>1, <1>21, <1>22, <1>23, <1>26
<1>29. IF Enough(PeersOf(results))
       THEN /\ record' = told /\ call' = [call EXCEPT ![c] = NoCall]
            /\ gaveUp' = (gaveUp \/ (PeersOf(results) = {} /\ asked # Trackers))
       ELSE GoTo(c, t + 1, asked, told)
  BY <1>1, <1>21, <1>22, <1>23, <1>24, <1>25
<1>3. /\ told = [record EXCEPT ![t] = Shown(result, PeersOf(results))]
      /\ asked = call[c].asked \cup {t}
      /\ answers' = [answers EXCEPT ![t] = IF result = "ok" THEN {} ELSE all]
      /\ IF Enough(PeersOf(results))
         THEN /\ record' = told /\ call' = [call EXCEPT ![c] = NoCall]
              /\ gaveUp' = (gaveUp \/ (PeersOf(results) = {} /\ asked # Trackers))
         ELSE GoTo(c, t + 1, asked, told)
  BY <1>24, <1>25, <1>28, <1>29
<1>4. /\ t \in Trackers /\ call[c].at = t /\ call[c].asked = 1 .. t - 1 /\ record \in [Trackers -> Statuses]
      /\ DOMAIN answers = Trackers /\ call[c] # NoCall
  BY <1>1 DEF Answered, AnnounceInv, AnnounceTypes, AskedInOrder
<1>5. t + 1 \in 1 .. Len(AnnounceList) + 1 /\ asked = 1 .. (t + 1) - 1
  BY <1>3, <1>4, TrackersAre
<1>6. /\ told \in [Trackers -> Statuses] /\ told[t] = Shown(result, PeersOf(results))
      /\ \A w \in Trackers \ {t} : told[w] = record[w]
  BY <1>3, <1>4, ShownHonestly
<1>7. \A w \in Trackers : told[w] = "Announcing" => \E d \in Callers \ {c} : call[d].at = w
  <2> SUFFICES ASSUME NEW w \in Trackers, told[w] = "Announcing"
               PROVE  \E d \in Callers \ {c} : call[d].at = w
    OBVIOUS
  <2>1. w # t
    BY <1>6, ShownHonestly
  <2> QED
    BY <1>4, <1>6, <2>1, NobodyAsks DEF AnnounceInv
<1>8. /\ record' \in [Trackers -> Statuses]
      /\ call' \in [Callers -> [at : {0} \cup Trackers, asked : SUBSET Trackers]]
      /\ AskedInOrder' /\ gaveUp' \in BOOLEAN /\ ~ gaveUp' /\ AnnouncingIsAsked'
      /\ \A w \in Trackers : record'[w] \in {"Timeout", "Error"} => record'[w] = told[w]
  <2>1. ASSUME Enough(PeersOf(results))
        PROVE  /\ record' \in [Trackers -> Statuses]
               /\ call' \in [Callers -> [at : {0} \cup Trackers, asked : SUBSET Trackers]]
               /\ AskedInOrder' /\ gaveUp' \in BOOLEAN /\ ~ gaveUp' /\ AnnouncingIsAsked'
               /\ \A w \in Trackers : record'[w] \in {"Timeout", "Error"} => record'[w] = told[w]
    <3>1. record' = told /\ call' = [call EXCEPT ![c] = NoCall]
      BY <1>3, <2>1
    <3>2. gaveUp' \in BOOLEAN /\ ~ gaveUp'
      BY <1>3, <2>1 DEF Enough, AnnounceInv
    <3>3. call'[c] = NoCall /\ \A d \in Callers \ {c} : call'[d] = call[d]
      BY <3>1 DEF AnnounceInv, AnnounceTypes
    <3>4. call' \in [Callers -> [at : {0} \cup Trackers, asked : SUBSET Trackers]]
      <4>1. NoCall \in [at : {0} \cup Trackers, asked : SUBSET Trackers]
        BY DEF NoCall
      <4> QED
        BY <3>1, <4>1 DEF AnnounceInv, AnnounceTypes
    <3>5. AskedInOrder'
      BY <3>3 DEF AskedInOrder, AnnounceInv
    <3>6. AnnouncingIsAsked'
      BY <1>7, <3>1, <3>3 DEF AnnouncingIsAsked
    <3> QED
      BY <1>6, <3>1, <3>2, <3>4, <3>5, <3>6
  <2>2. ASSUME ~ Enough(PeersOf(results))
        PROVE  /\ record' \in [Trackers -> Statuses]
               /\ call' \in [Callers -> [at : {0} \cup Trackers, asked : SUBSET Trackers]]
               /\ AskedInOrder' /\ gaveUp' \in BOOLEAN /\ ~ gaveUp' /\ AnnouncingIsAsked'
               /\ \A w \in Trackers : record'[w] \in {"Timeout", "Error"} => record'[w] = told[w]
    <3>1. GoTo(c, t + 1, asked, told)
      BY <1>3, <2>2
    <3> QED
      BY <1>5, <1>6, <1>7, <3>1, GoingOn DEF AnnounceInv
  <2> QED
    BY <2>1, <2>2
<1>9. /\ DOMAIN answers' = Trackers /\ answers'[t] = (IF result = "ok" THEN {} ELSE all)
      /\ \A w \in Trackers \ {t} : answers'[w] = answers[w]
  BY <1>3, <1>4
<1>10. /\ result # "ok" => \A a \in all : ~ Good(a)
       /\ result = "timeout" /\ AnnounceList[t] = "udp" => all = {"timeout"}
  <2>1. ASSUME NEW f \in families
        PROVE  /\ ToSet(came[f]) # {} /\ (~ Good(results[f]) => \A a \in ToSet(came[f]) : ~ Good(a))
               /\ results[f] \in {"timeout", "error", "peers", "none"}
               /\ results[f] = "timeout" => ToSet(came[f]) = {"timeout"}
    <3>1. came[f] \in Replies(AnnounceList[t], f) /\ results[f] = CandidatesResult(came[f])
      BY <1>22, <1>27
    <3> QED
      BY <3>1, CandidatesAre
  <2>2. DOMAIN results = families
    BY <1>22
  <2>3. ASSUME result # "ok" PROVE \A f \in families : ~ Good(results[f])
    BY <1>23, <2>2, <2>3 DEF QueryResult
  <2>4. ASSUME result # "ok" PROVE \A a \in all : ~ Good(a)
    BY <1>26, <2>1, <2>3, <2>4
  <2>5. ASSUME result = "timeout", AnnounceList[t] = "udp" PROVE all = {"timeout"}
    <3>1. families # {} /\ \A f \in families : results[f] # "error"
      BY <1>23, <2>2, <2>3, <2>5 DEF QueryResult
    <3>2. \A f \in families : results[f] = "timeout"
      BY <2>1, <2>3, <2>5, <3>1 DEF Good
    <3>3. \A f \in families : ToSet(came[f]) = {"timeout"}
      BY <2>1, <3>2
    <3> QED
      BY <1>26, <3>1, <3>3
  <2> QED
    BY <2>4, <2>5
<1>11. TimeoutIsHonest'
  <2> SUFFICES ASSUME NEW w \in Trackers
               PROVE  /\ record'[w] = "Timeout" /\ AnnounceList[w] = "udp" => answers'[w] = {"timeout"}
                      /\ record'[w] = "Error" => \A a \in answers'[w] : ~ Good(a)
    BY DEF TimeoutIsHonest
  <2>1. CASE w # t
    BY <1>6, <1>8, <1>9, <2>1 DEF AnnounceInv, TimeoutIsHonest
  <2>2. CASE w = t
    <3>1. record'[t] = "Timeout" => result = "timeout"
      BY <1>4, <1>6, <1>8, ShownHonestly
    <3>2. record'[t] = "Error" => result # "ok"
      BY <1>4, <1>6, <1>8, ShownHonestly
    <3> QED
      BY <1>9, <1>10, <2>2, <3>1, <3>2
  <2> QED
    BY <2>1, <2>2
<1>12. running' = running /\ announces' = announces
  BY DEF Answered
<1>13. AnnounceTypes'
  BY <1>8, <1>9, <1>12 DEF AnnounceTypes, AnnounceInv
<1> QED
  BY <1>8, <1>11, <1>12, <1>13 DEF AnnounceInv

(* An answer that cannot be used is an error, and the call goes on.          *)
LEMMA MalformedKeeps ==
  ASSUME AnnounceInv, NEW c \in Callers, Malformed(c)
  PROVE  AnnounceInv'
<1>1. PICK t : t = call[c].at
  OBVIOUS
<1>2. PICK told, asked : told = [record EXCEPT ![t] = "Error"] /\ asked = call[c].asked \cup {t}
  OBVIOUS
<1>3. /\ answers' = [answers EXCEPT ![t] = {"error"}] /\ GoTo(c, t + 1, asked, told)
      /\ running' = running /\ announces' = announces
      /\ call[c] # NoCall /\ AnnounceList[t] = "http"
  BY <1>1, <1>2 DEF Malformed
<1>4. /\ t \in Trackers /\ call[c].at = t /\ call[c].asked = 1 .. t - 1 /\ record \in [Trackers -> Statuses]
      /\ DOMAIN answers = Trackers
  BY <1>1, <1>3 DEF AnnounceInv, AnnounceTypes, AskedInOrder
<1>5. t + 1 \in 1 .. Len(AnnounceList) + 1 /\ asked = 1 .. (t + 1) - 1
  BY <1>2, <1>4, TrackersAre
<1>6. /\ told \in [Trackers -> Statuses] /\ told[t] = "Error"
      /\ \A w \in Trackers \ {t} : told[w] = record[w]
  BY <1>2, <1>4 DEF Statuses
<1>7. \A w \in Trackers : told[w] = "Announcing" => \E d \in Callers \ {c} : call[d].at = w
  BY <1>4, <1>6, NobodyAsks DEF AnnounceInv
<1>8. /\ record' \in [Trackers -> Statuses]
      /\ call' \in [Callers -> [at : {0} \cup Trackers, asked : SUBSET Trackers]]
      /\ AskedInOrder' /\ gaveUp' \in BOOLEAN /\ ~ gaveUp' /\ AnnouncingIsAsked'
      /\ \A w \in Trackers : record'[w] \in {"Timeout", "Error"} => record'[w] = told[w]
  BY <1>3, <1>5, <1>6, <1>7, GoingOn DEF AnnounceInv
<1>9. /\ DOMAIN answers' = Trackers /\ answers'[t] = {"error"}
      /\ \A w \in Trackers \ {t} : answers'[w] = answers[w]
  BY <1>3, <1>4
<1>10. TimeoutIsHonest'
  <2> SUFFICES ASSUME NEW w \in Trackers
               PROVE  /\ record'[w] = "Timeout" /\ AnnounceList[w] = "udp" => answers'[w] = {"timeout"}
                      /\ record'[w] = "Error" => \A a \in answers'[w] : ~ Good(a)
    BY DEF TimeoutIsHonest
  <2>1. CASE w # t
    BY <1>6, <1>8, <1>9, <2>1 DEF AnnounceInv, TimeoutIsHonest
  <2>2. CASE w = t
    BY <1>3, <1>9, <2>2 DEF Good
  <2> QED
    BY <2>1, <2>2
<1>11. AnnounceTypes'
  BY <1>3, <1>8, <1>9 DEF AnnounceTypes, AnnounceInv
<1> QED
  BY <1>3, <1>8, <1>10, <1>11 DEF AnnounceInv

(* The call is cancelled.                                                    *)
LEMMA CancelledKeeps ==
  ASSUME AnnounceInv, NEW c \in Callers, Cancelled(c)
  PROVE  AnnounceInv'
<1>1. PICK t : t = call[c].at
  OBVIOUS
<1>2. /\ record' = [record EXCEPT ![t] = "Cancelled"] /\ call' = [call EXCEPT ![c] = NoCall]
      /\ UNCHANGED <<running, announces, answers, gaveUp>> /\ call[c] # NoCall
  BY <1>1 DEF Cancelled
<1>3. t \in Trackers /\ record \in [Trackers -> Statuses]
  BY <1>1, <1>2 DEF AnnounceInv, AnnounceTypes, AskedInOrder
<1>4. call'[c] = NoCall /\ \A d \in Callers \ {c} : call'[d] = call[d]
  BY <1>2 DEF AnnounceInv, AnnounceTypes
<1>5. /\ record' \in [Trackers -> Statuses] /\ record'[t] = "Cancelled"
      /\ \A w \in Trackers \ {t} : record'[w] = record[w]
  BY <1>2, <1>3 DEF Statuses
<1>6. call' \in [Callers -> [at : {0} \cup Trackers, asked : SUBSET Trackers]]
  <2>1. NoCall \in [at : {0} \cup Trackers, asked : SUBSET Trackers]
    BY DEF NoCall
  <2> QED
    BY <1>2, <2>1 DEF AnnounceInv, AnnounceTypes
<1>7. AskedInOrder'
  BY <1>4 DEF AskedInOrder, AnnounceInv
<1>8. AnnouncingIsAsked'
  <2> SUFFICES ASSUME NEW w \in Trackers, record'[w] = "Announcing"
               PROVE  \E d \in Callers : call'[d].at = w
    BY DEF AnnouncingIsAsked
  <2>1. w # t /\ record[w] = "Announcing"
    BY <1>5
  <2>2. PICK d \in Callers \ {c} : call[d].at = w
    BY <1>1, <2>1, NobodyAsks DEF AnnounceInv
  <2> QED
    BY <1>4, <2>2
<1>9. TimeoutIsHonest'
  BY <1>2, <1>5 DEF TimeoutIsHonest, AnnounceInv
<1>10. AnnounceTypes'
  BY <1>2, <1>5, <1>6 DEF AnnounceTypes, AnnounceInv
<1> QED
  BY <1>2, <1>7, <1>8, <1>9, <1>10 DEF AnnounceInv

(* Every step of a session and of its calls keeps the invariant.             *)
LEMMA AnnounceStep ==
  AnnounceInv /\ [AnnounceNext]_announceVars => AnnounceInv'
<1> SUFFICES ASSUME AnnounceInv, [AnnounceNext]_announceVars PROVE AnnounceInv'
  OBVIOUS
<1> DEFINE Rest == UNCHANGED <<announces, call, record, answers, gaveUp>>
<1>1. ASSUME Rest, running' \in BOOLEAN PROVE AnnounceInv'
  BY <1>1 DEF AnnounceInv, AnnounceTypes, AskedInOrder, AnnouncingIsAsked, TimeoutIsHonest
<1>2. CASE BeginRun
  BY <1>1, <1>2 DEF BeginRun
<1>3. CASE EndRun
  BY <1>1, <1>3 DEF EndRun
<1>4. CASE StopAnnouncing
  BY <1>4, AnnounceKeeps DEF StopAnnouncing, Callers
<1>5. CASE LoopAnnounce
  <2>1. running' \in BOOLEAN /\ Announce("loop") /\ "loop" \in Callers
    BY <1>5 DEF LoopAnnounce, AnnounceInv, Callers
  <2> QED
    BY <2>1, AnnounceKeeps
<1>6. CASE \E c \in Callers : Answered(c) \/ Malformed(c) \/ Cancelled(c)
  BY <1>6, AnsweredKeeps, MalformedKeeps, CancelledKeeps
<1>7. CASE UNCHANGED announceVars
  BY <1>1, <1>7 DEF announceVars, AnnounceInv
<1> QED
  BY <1>2, <1>3, <1>4, <1>5, <1>6, <1>7 DEF AnnounceNext

(* A new session has asked nobody.                                           *)
LEMMA AnnounceStart == AnnounceInit => AnnounceInv
<1> SUFFICES ASSUME AnnounceInit PROVE AnnounceInv
  OBVIOUS
<1>1. AnnounceTypes
  BY AnnounceAssumption DEF AnnounceInit, AnnounceTypes, NoCall, Statuses
<1>2. AskedInOrder
  BY DEF AnnounceInit, AskedInOrder
<1>3. gaveUp \in BOOLEAN /\ ~ gaveUp /\ running \in BOOLEAN /\ AnnouncingIsAsked /\ TimeoutIsHonest
  BY DEF AnnounceInit, AnnouncingIsAsked, TimeoutIsHonest
<1> QED
  BY <1>1, <1>2, <1>3 DEF AnnounceInv

(* For any list of trackers, any callers and any number of announces: a      *)
(* tracker shown as Announcing is being asked, a timeout is shown only       *)
(* where every address was silent and an error where none gave an answer,    *)
(* and no announce gives up before it has asked every tracker                *)
(* (fetch_peers).                                                            *)
THEOREM AnnouncesAreSound == AnnounceSpec => []AnnounceSound
<1>1. AnnounceInv => AnnounceSound
  BY DEF AnnounceInv, AnnounceSound, FailoverExhaustive
<1> QED
  BY <1>1, AnnounceStart, AnnounceStep, PTL DEF AnnounceSpec

(* The types of the announces are part of their invariant.                   *)
LEMMA AnnounceInvTypes == AnnounceInv => AnnounceTypeOK
BY DEF AnnounceInv, AnnounceTypes, AnnounceTypeOK

--------------------------------------------------------------------------------
(* The scrape coordinator (tracker_scrape.py).                               *)

(* The types of the timer, of the refresh and of what it has found.          *)
TimerTypes ==
  /\ scraper \in {"new", "open", "closed"} /\ timer \in 0 .. Never
  /\ handed \subseteq Delays /\ budget \in 0 .. MaxRequests
RefreshTypes ==
  /\ refresh \in [at : {"none", "begin", "asking", "over"}, asks : SUBSET Swarms]
  /\ eligible \subseteq Swarms
  /\ stats \in [Swarms -> Faults \cup {"Waiting", "Active", "No Data"}]
FlagTypes == again \in BOOLEAN /\ owed \in BOOLEAN

(* The inductive invariant of the coordinator.                               *)
ScrapeInv ==
  /\ TimerTypes /\ RefreshTypes /\ FlagTypes
  /\ NoRequestLost /\ ClosedIsQuiet /\ RefreshGoesOn /\ EverySwarmAnswered

(* A new coordinator has nothing to do.                                      *)
LEMMA ScrapeInvInit == ScrapeInit => ScrapeInv
<1> SUFFICES ASSUME ScrapeInit PROVE ScrapeInv
  OBVIOUS
<1>1. TimerTypes /\ RefreshTypes
  BY ScrapeAssumption DEF ScrapeInit, TimerTypes, RefreshTypes, NoRefresh, Never
<1>2. FlagTypes
  BY DEF ScrapeInit, FlagTypes
<1>3. NoRequestLost /\ ClosedIsQuiet /\ RefreshGoesOn /\ EverySwarmAnswered
  BY DEF ScrapeInit, NoRequestLost, ClosedIsQuiet, RefreshGoesOn, EverySwarmAnswered, NoRefresh
<1> QED
  BY <1>1, <1>2, <1>3 DEF ScrapeInv

(* No refresh is under way.                                                  *)
LEMMA NoRefreshRests == NoRefresh.at = "none"
BY DEF NoRefresh

(* _schedule sets the timer.                                                 *)
LEMMA ScheduledSoon ==
  ASSUME TimerTypes, NEW delay \in 0 .. Interval
  PROVE  Scheduled(delay) \in 0 .. Never /\ Scheduled(delay) # Never
BY DEF TimerTypes, Scheduled, Never, Interval

(* A tracker answers for every swarm it was asked about, whichever batch     *)
(* fails.                                                                    *)
LEMMA RepliesAreStatuses ==
  ASSUME RefreshTypes, NEW asks \in SUBSET Swarms, NEW s \in BatchReplies(asks)
  PROVE  /\ s \in [Swarms -> Faults \cup {"Waiting", "Active", "No Data"}]
         /\ \A w \in asks : s[w] # "Waiting"
<1>1. PICK fault \in {"none"} \cup Faults, havings \in SUBSET asks : s = Outcome(asks, fault, havings)
  BY DEF BatchReplies
<1> QED
  BY <1>1 DEF Outcome, RefreshTypes, Faults

(* start() asks for a first refresh.                                         *)
LEMMA StartScraperKeeps ==
  ASSUME ScrapeInv, StartScraper
  PROVE  ScrapeInv'
<1> USE ScrapeAssumption DEF ScrapeInv
<1>1. TimerTypes'
  BY DEF StartScraper, Scheduled, TimerTypes, Never
<1>2. RefreshTypes'
  BY DEF StartScraper, RefreshTypes
<1>3. FlagTypes'
  BY DEF StartScraper, FlagTypes
<1>4. NoRequestLost'
  BY DEF StartScraper, Scheduled, NoRequestLost, Never
<1>5. ClosedIsQuiet'
  BY DEF StartScraper, ClosedIsQuiet
<1>6. RefreshGoesOn'
  BY ScheduledSoon DEF StartScraper, RefreshGoesOn, Interval
<1>7. EverySwarmAnswered'
  BY DEF StartScraper, EverySwarmAnswered
<1> QED
  BY <1>1, <1>2, <1>3, <1>4, <1>5, <1>6, <1>7

(* close() cancels the timer and the refresh.                                *)
LEMMA CloseScraperKeeps ==
  ASSUME ScrapeInv, CloseScraper
  PROVE  ScrapeInv'
<1> USE ScrapeAssumption DEF ScrapeInv
<1>1. TimerTypes'
  BY DEF CloseScraper, Never, TimerTypes
<1>2. RefreshTypes'
  BY DEF CloseScraper, NoRefresh, RefreshTypes
<1>3. FlagTypes'
  BY DEF CloseScraper, FlagTypes
<1>4. NoRequestLost'
  BY DEF CloseScraper, NoRequestLost
<1>5. ClosedIsQuiet'
  BY DEF CloseScraper, ClosedIsQuiet
<1>6. RefreshGoesOn'
  BY DEF CloseScraper, RefreshGoesOn
<1>7. EverySwarmAnswered'
  BY DEF CloseScraper, NoRefresh, EverySwarmAnswered
<1> QED
  BY <1>1, <1>2, <1>3, <1>4, <1>5, <1>6, <1>7

(* The timer fires: a refresh begins, or is to follow the one under way.     *)
LEMMA LaunchRefreshKeeps ==
  ASSUME ScrapeInv, LaunchRefresh
  PROVE  ScrapeInv'
<1> USE ScrapeAssumption DEF ScrapeInv
<1>1. TimerTypes'
  BY DEF LaunchRefresh, Never, TimerTypes
<1>2. RefreshTypes'
  BY DEF LaunchRefresh, RefreshTypes
<1>3. FlagTypes'
  BY DEF LaunchRefresh, Remembers, FlagTypes
<1>4. NoRequestLost'
  BY DEF LaunchRefresh, Remembers, NoRefresh, NoRequestLost
<1>5. ClosedIsQuiet'
  BY DEF LaunchRefresh, ClosedIsQuiet
<1>6. RefreshGoesOn'
  BY DEF LaunchRefresh, NoRefresh, RefreshGoesOn
<1>7. EverySwarmAnswered'
  BY DEF LaunchRefresh, EverySwarmAnswered
<1> QED
  BY <1>1, <1>2, <1>3, <1>4, <1>5, <1>6, <1>7

(* The refresh looks at the sessions when its task first runs.               *)
LEMMA LookAtSessionsKeeps ==
  ASSUME ScrapeInv, LookAtSessions
  PROVE  ScrapeInv'
<1> USE ScrapeAssumption DEF ScrapeInv
<1>1. TimerTypes'
  BY DEF LookAtSessions, TimerTypes
<1>2. RefreshTypes'
  BY DEF LookAtSessions, RefreshTypes
<1>3. FlagTypes'
  BY DEF LookAtSessions, FlagTypes
<1>4. NoRequestLost'
  BY DEF LookAtSessions, NoRequestLost
<1>5. ClosedIsQuiet'
  <2>1. scraper # "closed"
    BY NoRefreshRests DEF LookAtSessions, ClosedIsQuiet
  <2> QED
    BY <2>1 DEF LookAtSessions, ClosedIsQuiet
<1>6. RefreshGoesOn'
  BY DEF LookAtSessions, RefreshGoesOn, NoRefresh
<1>7. EverySwarmAnswered'
  BY DEF LookAtSessions, EverySwarmAnswered
<1> QED
  BY <1>1, <1>2, <1>3, <1>4, <1>5, <1>6, <1>7

(* The answers of all batches are handed over in one step.                   *)
LEMMA TrackerAnswersKeeps ==
  ASSUME ScrapeInv, TrackerAnswers
  PROVE  ScrapeInv'
<1> USE ScrapeAssumption DEF ScrapeInv
<1>1. TimerTypes'
  BY DEF TrackerAnswers, TimerTypes
<1>2. RefreshTypes'
  BY DEF TrackerAnswers, BatchReplies, Outcome, Faults, RefreshTypes
<1>3. FlagTypes'
  BY DEF TrackerAnswers, FlagTypes
<1>4. NoRequestLost'
  BY DEF TrackerAnswers, NoRequestLost
<1>5. ClosedIsQuiet'
  <2>1. scraper # "closed"
    BY NoRefreshRests DEF TrackerAnswers, ClosedIsQuiet
  <2> QED
    BY <2>1 DEF TrackerAnswers, ClosedIsQuiet
<1>6. RefreshGoesOn'
  BY DEF TrackerAnswers, RefreshGoesOn, NoRefresh
<1>7. EverySwarmAnswered'
  BY DEF TrackerAnswers, BatchReplies, Outcome, Faults, EverySwarmAnswered, RefreshTypes
<1> QED
  BY <1>1, <1>2, <1>3, <1>4, <1>5, <1>6, <1>7

(* _refresh_done sets the timer again.                                       *)
LEMMA RefreshDoneKeeps ==
  ASSUME ScrapeInv, RefreshDone
  PROVE  ScrapeInv'
<1> USE ScrapeAssumption DEF ScrapeInv
<1>1. TimerTypes'
  BY DEF RefreshDone, Scheduled, Interval, TimerTypes, Never
<1>2. RefreshTypes'
  BY DEF RefreshDone, NoRefresh, RefreshTypes
<1>3. FlagTypes'
  BY DEF RefreshDone, FlagTypes
<1>4. NoRequestLost'
  BY DEF RefreshDone, Scheduled, NoRequestLost, TimerTypes, Never
<1>5. ClosedIsQuiet'
  <2>1. scraper # "closed"
    BY NoRefreshRests DEF RefreshDone, ClosedIsQuiet
  <2> QED
    BY <2>1 DEF RefreshDone, ClosedIsQuiet
<1>6. RefreshGoesOn'
  BY ScheduledSoon DEF RefreshDone, RefreshGoesOn, Interval
<1>7. EverySwarmAnswered'
  BY DEF RefreshDone, NoRefresh, EverySwarmAnswered
<1> QED
  BY <1>1, <1>2, <1>3, <1>4, <1>5, <1>6, <1>7

(* The loop makes a call that was handed to it.                              *)
LEMMA ScheduleKeeps ==
  ASSUME ScrapeInv, NEW d \in Delays, Schedule(d)
  PROVE  ScrapeInv'
<1> USE ScrapeAssumption DEF ScrapeInv
<1>1. TimerTypes'
  BY DEF Schedule, Scheduled, TimerTypes, Never, Delays
<1>2. RefreshTypes'
  BY DEF Schedule, RefreshTypes
<1>3. FlagTypes'
  BY DEF Schedule, FlagTypes
<1>4. NoRequestLost'
  BY DEF Schedule, Scheduled, NoRequestLost, Never, Delays
<1>5. ClosedIsQuiet'
  BY DEF Schedule, ClosedIsQuiet
<1>6. RefreshGoesOn'
  BY ScheduledSoon DEF Schedule, RefreshGoesOn, Delays, Interval
<1>7. EverySwarmAnswered'
  BY DEF Schedule, EverySwarmAnswered
<1> QED
  BY <1>1, <1>2, <1>3, <1>4, <1>5, <1>6, <1>7

(* request_refresh, on any thread.                                           *)
LEMMA RequestRefreshKeeps ==
  ASSUME ScrapeInv, NEW d \in Delays, RequestRefresh(d)
  PROVE  ScrapeInv'
<1> USE ScrapeAssumption DEF ScrapeInv
<1>1. TimerTypes'
  BY DEF RequestRefresh, TimerTypes
<1>2. RefreshTypes'
  BY DEF RequestRefresh, RefreshTypes
<1>3. FlagTypes'
  BY DEF RequestRefresh, FlagTypes
<1>4. NoRequestLost'
  BY DEF RequestRefresh, NoRequestLost
<1>5. ClosedIsQuiet'
  BY DEF RequestRefresh, ClosedIsQuiet
<1>6. RefreshGoesOn'
  BY DEF RequestRefresh, RefreshGoesOn
<1>7. EverySwarmAnswered'
  BY DEF RequestRefresh, EverySwarmAnswered
<1> QED
  BY <1>1, <1>2, <1>3, <1>4, <1>5, <1>6, <1>7

(* A session starts or stops, which asks for a refresh.                      *)
LEMMA SessionChangesKeeps ==
  ASSUME ScrapeInv, NEW s \in Swarms, SessionChanges(s)
  PROVE  ScrapeInv'
<1> USE ScrapeAssumption DEF ScrapeInv
<1>1. TimerTypes'
  BY DEF SessionChanges, TimerTypes, Delays
<1>2. RefreshTypes'
  BY DEF SessionChanges, RefreshTypes
<1>3. FlagTypes'
  BY DEF SessionChanges, FlagTypes
<1>4. NoRequestLost'
  BY DEF SessionChanges, NoRequestLost
<1>5. ClosedIsQuiet'
  BY DEF SessionChanges, ClosedIsQuiet
<1>6. RefreshGoesOn'
  BY DEF SessionChanges, RefreshGoesOn
<1>7. EverySwarmAnswered'
  BY DEF SessionChanges, EverySwarmAnswered
<1> QED
  BY <1>1, <1>2, <1>3, <1>4, <1>5, <1>6, <1>7

(* Every step of the coordinator and its callers keeps the invariant.        *)
LEMMA ScrapeInvNext ==
  ASSUME ScrapeInv, [ScrapeNext]_scrapeVars
  PROVE  ScrapeInv'
<1>1. CASE StartScraper
  BY <1>1, StartScraperKeeps
<1>2. CASE CloseScraper
  BY <1>2, CloseScraperKeeps
<1>3. CASE LaunchRefresh
  BY <1>3, LaunchRefreshKeeps
<1>4. CASE LookAtSessions
  BY <1>4, LookAtSessionsKeeps
<1>5. CASE TrackerAnswers
  BY <1>5, TrackerAnswersKeeps
<1>6. CASE RefreshDone
  BY <1>6, RefreshDoneKeeps
<1>7. ASSUME NEW d \in Delays, Schedule(d) PROVE ScrapeInv'
  BY <1>7, ScheduleKeeps
<1>8. ASSUME NEW d \in Delays, RequestRefresh(d) PROVE ScrapeInv'
  BY <1>8, RequestRefreshKeeps
<1>9. ASSUME NEW s \in Swarms, SessionChanges(s) PROVE ScrapeInv'
  BY <1>9, SessionChangesKeeps
<1>10. CASE UNCHANGED scrapeVars
  BY <1>10 DEF scrapeVars, ScrapeInv, TimerTypes, RefreshTypes, FlagTypes, NoRequestLost,
     ClosedIsQuiet, RefreshGoesOn, EverySwarmAnswered
<1> QED
  BY <1>1, <1>2, <1>3, <1>4, <1>5, <1>6, <1>7, <1>8, <1>9, <1>10 DEF ScrapeNext, ScrapeStep

(* For any swarms, batch size and delays: a request that no refresh has      *)
(* served yet is still on its way, statistics of running sessions will be    *)
(* asked for again, every swarm that was asked for has a result, and a       *)
(* closed coordinator is quiet (request_refresh, _launch_refresh,            *)
(* _refresh_done, close).                                                    *)
THEOREM ScrapesAreSound == ScrapeSpec => []ScrapeSound
<1>1. ScrapeInv => ScrapeSound
  BY DEF ScrapeInv, ScrapeSound
<1> QED
  BY <1>1, ScrapeInvInit, ScrapeInvNext, PTL DEF ScrapeSpec

(* The types of the coordinator are part of its invariant.                   *)
LEMMA ScrapeInvTypes == ScrapeInv => ScrapeTypeOK
BY Zenon DEF ScrapeInv, ScrapeTypeOK, TimerTypes, RefreshTypes, FlagTypes

--------------------------------------------------------------------------------
(* Lookups in the DHT (dht.py).                                              *)

(* The types of a lookup, of the nodes it knows and of the peers that        *)
(* announced themselves.                                                     *)
LookupTypes ==
  /\ socket \in BOOLEAN /\ found \in BOOLEAN
  /\ lookup \in {"idle", "resolving", "batch", "gather", "announce"}
  /\ dhtStatus \in {"Disabled", "Waiting", "Announcing", "Active", "No Peers", "Error"}
LookupsCounted == lookups \in 0 .. MaxLookups
NodesAre ==
  /\ candidates \subseteq Nodes /\ inTurn \subseteq Nodes /\ queried \subseteq Nodes
  /\ waiting \subseteq announced

(* A lookup never asks more nodes than it may.                               *)
WithinLimit == IsFiniteSet(queried) /\ Cardinality(queried) <= MaxQueries

(* Whoever it waits for was asked.                                           *)
AskedNow == pending \subseteq queried /\ (pending = {} \/ lookup = "gather")

(* Whoever has replied was asked; between two batches no reply is left.      *)
RepliesAre ==
  /\ \A r \in replies : r.node \in queried /\ r.nodes \subseteq Nodes
  /\ replies = {} \/ lookup = "gather"

(* The inductive invariant of the DHT.                                       *)
DhtInv ==
  /\ LookupTypes /\ LookupsCounted /\ NodesAre /\ WithinLimit /\ AskedNow /\ RepliesAre
  /\ LookupBounded /\ AnnounceEarned

(* The nodes nearer to the target than x.                                    *)
Below(S, x) == {y \in S : y < x}

(* They are finitely many,                                                   *)
LEMMA BelowIsFinite ==
  ASSUME NEW S \in SUBSET Nat, NEW x \in S
  PROVE  IsFiniteSet(Below(S, x)) /\ Cardinality(Below(S, x)) \in Nat
<1>1. x \in Nat /\ Below(S, x) \in SUBSET (0 .. x)
  <2>1. x \in Nat /\ \A y \in S : y \in Nat
    OBVIOUS
  <2>2. ASSUME NEW y \in Below(S, x) PROVE y \in 0 .. x
    <3>1. y \in S /\ y < x
      BY DEF Below
    <3> QED
      BY <2>1, <3>1
  <2> QED
    BY <2>1, <2>2
<1>2. IsFiniteSet(0 .. x)
  BY <1>1, FS_Interval
<1> QED
  BY <1>1, <1>2, FS_Subset, FS_CardinalityType

(* the n nearest of a set are n at most: each has its own number of nodes    *)
(* below it,                                                                 *)
LEMMA FewNearest ==
  ASSUME NEW S \in SUBSET Nat, NEW n \in Nat
  PROVE  IsFiniteSet(Nearest(S, n)) /\ Cardinality(Nearest(S, n)) <= n
<1>1. ASSUME NEW x \in S PROVE IsFiniteSet(Below(S, x)) /\ Cardinality(Below(S, x)) \in Nat
  BY BelowIsFinite
<1>2. ASSUME NEW x \in S, NEW z \in S, x < z PROVE Cardinality(Below(S, x)) < Cardinality(Below(S, z))
  <2>1. Below(S, x) \in SUBSET Below(S, z) /\ x \in Below(S, z) /\ x \notin Below(S, x)
    <3>1. x \in Nat /\ z \in Nat /\ \A y \in S : y \in Nat
      OBVIOUS
    <3>2. \A y \in S : y < x => y < z
      BY <1>2, <3>1
    <3>3. ~ (x < x)
      BY <3>1
    <3> QED
      BY <1>2, <3>2, <3>3 DEF Below
  <2>2. Cardinality(Below(S, x)) <= Cardinality(Below(S, z)) /\ Cardinality(Below(S, x)) # Cardinality(Below(S, z))
    BY <1>1, <2>1, FS_Subset
  <2> QED
    BY <1>1, <2>2
<1>3. Nearest(S, n) = {x \in S : Cardinality(Below(S, x)) < n}
  BY DEF Nearest, Below
<1>4. PICK rank : rank = [x \in Nearest(S, n) |-> Cardinality(Below(S, x))]
  OBVIOUS
<1>5. rank \in [Nearest(S, n) -> 0 .. n - 1]
  <2>1. \A x \in Nearest(S, n) : Cardinality(Below(S, x)) \in 0 .. n - 1
    <3>1. ASSUME NEW x \in Nearest(S, n) PROVE Cardinality(Below(S, x)) \in 0 .. n - 1
      <4>1. x \in S /\ Cardinality(Below(S, x)) < n
        BY <1>3
      <4>2. Cardinality(Below(S, x)) \in Nat
        BY <1>1, <4>1
      <4> QED
        BY <4>1, <4>2
    <3> QED
      BY <3>1
  <2> QED
    BY <1>4, <2>1
<1>6. \A x, z \in Nearest(S, n) : rank[x] = rank[z] => x = z
  <2> SUFFICES ASSUME NEW x \in Nearest(S, n), NEW z \in Nearest(S, n), rank[x] = rank[z]
               PROVE  x = z
    OBVIOUS
  <2>1. x \in S /\ z \in S /\ x \in Nat /\ z \in Nat /\ Cardinality(Below(S, x)) = Cardinality(Below(S, z))
    BY <1>3, <1>4
  <2>2. ~ (x < z) /\ ~ (z < x)
    BY <1>1, <1>2, <2>1
  <2> QED
    BY <2>1, <2>2
<1>7. rank \in Injection(Nearest(S, n), 0 .. n - 1)
  BY <1>5, <1>6 DEF Injection, IsInjective
<1>8. IsFiniteSet(0 .. n - 1) /\ Cardinality(0 .. n - 1) = n
  BY FS_Interval
<1> QED
  BY <1>7, <1>8, FS_Injection

(* and there is a nearest one.                                               *)
LEMMA SomeNearest ==
  ASSUME NEW S \in SUBSET Nat, NEW n \in Nat \ {0}, S # {}
  PROVE  Nearest(S, n) # {}
<1>1. PICK m \in S : \A k \in S : m <= k
  BY Smallest
<1>2. {y \in S : y < m} = {}
  <2>1. m \in Nat /\ \A y \in S : ~ (y < m)
    BY <1>1
  <2> QED
    BY <2>1
<1>3. m \in Nearest(S, n)
  BY <1>1, <1>2, FS_EmptySet DEF Nearest
<1> QED
  BY <1>3

(* A batch consists of candidates that were not asked.                       *)
LEMMA BatchIsNew ==
  BatchOf \subseteq candidates \ queried
BY DEF BatchOf, Nearest

(* A batch is limited by what the lookup may still ask.                      *)
LEMMA RoomIsCounted ==
  ASSUME WithinLimit, Cardinality(queried) < MaxQueries
  PROVE  /\ AtMost(BatchSize, MaxQueries - Cardinality(queried)) \in Nat \ {0}
         /\ AtMost(BatchSize, MaxQueries - Cardinality(queried)) + Cardinality(queried) <= MaxQueries
<1>1. Cardinality(queried) \in Nat
  BY FS_CardinalityType DEF WithinLimit
<1> QED
  BY <1>1, DhtAssumption DEF AtMost

(* So a batch keeps the limit,                                               *)
LEMMA BatchFits ==
  ASSUME WithinLimit, NodesAre, Cardinality(queried) < MaxQueries
  PROVE  /\ IsFiniteSet(queried \cup BatchOf)
         /\ Cardinality(queried \cup BatchOf) <= MaxQueries
<1>1. PICK room \in Nat : room = AtMost(BatchSize, MaxQueries - Cardinality(queried))
                          /\ room + Cardinality(queried) <= MaxQueries
  BY RoomIsCounted
<1>2. candidates \ queried \in SUBSET Nat
  BY DhtAssumption DEF NodesAre
<1>3. IsFiniteSet(BatchOf) /\ Cardinality(BatchOf) <= room
  BY <1>1, <1>2, FewNearest DEF BatchOf
<1>4. /\ IsFiniteSet(queried \cup BatchOf)
      /\ Cardinality(queried \cup BatchOf) = Cardinality(queried) + Cardinality(BatchOf) - Cardinality(queried \cap BatchOf)
  BY <1>3, FS_Union DEF WithinLimit
<1>5. queried \cap BatchOf = {}
  BY BatchIsNew
<1>6. Cardinality(queried \cap BatchOf) = 0
  BY <1>5, FS_EmptySet
<1>7. Cardinality(queried) \in Nat /\ Cardinality(BatchOf) \in Nat
  BY <1>3, FS_CardinalityType DEF WithinLimit
<1> QED
  BY <1>1, <1>3, <1>4, <1>6, <1>7, DhtAssumption

(* and it is empty only when nobody is left to ask.                          *)
LEMMA EmptyBatchEnds ==
  ASSUME WithinLimit, NodesAre, Cardinality(queried) < MaxQueries, BatchOf = {}
  PROVE  candidates \subseteq queried
<1>1. PICK room \in Nat \ {0} : room = AtMost(BatchSize, MaxQueries - Cardinality(queried))
  BY RoomIsCounted
<1>2. candidates \ queried \in SUBSET Nat
  BY DhtAssumption DEF NodesAre
<1> QED
  BY <1>1, <1>2, SomeNearest DEF BatchOf

(* start() opens the socket.                                                 *)
LEMMA StartDhtKeeps ==
  ASSUME DhtInv, StartDht
  PROVE  DhtInv'
<1> USE DhtAssumption DEF DhtInv
<1>1. LookupTypes'
  BY DEF StartDht, search, serving, LookupTypes
<1>2. LookupsCounted'
  BY DEF StartDht, search, serving, LookupsCounted
<1>3. NodesAre'
  BY DEF StartDht, search, serving, NodesAre
<1>4. WithinLimit'
  BY DEF StartDht, search, serving, WithinLimit
<1>5. AskedNow'
  BY DEF StartDht, search, serving, AskedNow
<1>6. RepliesAre'
  BY DEF StartDht, search, serving, RepliesAre, NodesAre
<1>7. LookupBounded'
  BY DEF StartDht, search, serving, LookupBounded, WithinLimit, AskedNow, LookupTypes
<1>8. AnnounceEarned'
  BY DEF StartDht, search, serving, AnnounceEarned, RepliesAre
<1> QED
  BY <1>1, <1>2, <1>3, <1>4, <1>5, <1>6, <1>7, <1>8

(* get_peers begins a lookup.                                                *)
LEMMA BeginLookupKeeps ==
  ASSUME DhtInv, BeginLookup
  PROVE  DhtInv'
<1> USE DhtAssumption DEF DhtInv
<1>1. LookupTypes'
  BY DEF BeginLookup, search, serving, LookupTypes
<1>2. LookupsCounted'
  BY DEF BeginLookup, search, serving, LookupsCounted
<1>3. NodesAre'
  BY DEF BeginLookup, search, serving, NodesAre
<1>4. WithinLimit'
  BY DEF BeginLookup, search, serving, WithinLimit
<1>5. AskedNow'
  BY DEF BeginLookup, search, serving, AskedNow
<1>6. RepliesAre'
  BY DEF BeginLookup, search, serving, RepliesAre, NodesAre
<1>7. LookupBounded'
  BY DEF BeginLookup, search, serving, LookupBounded, WithinLimit, AskedNow, LookupTypes
<1>8. AnnounceEarned'
  BY DEF BeginLookup, search, serving, AnnounceEarned, RepliesAre
<1> QED
  BY <1>1, <1>2, <1>3, <1>4, <1>5, <1>6, <1>7, <1>8

(* The bootstrap nodes are resolved, as far as they can be.                  *)
LEMMA ResolvedKeeps ==
  ASSUME DhtInv, Resolved
  PROVE  DhtInv'
<1> USE DhtAssumption DEF DhtInv
<1>1. LookupTypes'
  BY DEF Resolved, serving, LookupTypes
<1>2. LookupsCounted'
  BY DEF Resolved, serving, LookupsCounted
<1>3. NodesAre'
  BY DEF Resolved, serving, NodesAre
<1>4. WithinLimit'
  BY FS_EmptySet DEF Resolved, WithinLimit
<1>5. AskedNow'
  BY DEF Resolved, serving, AskedNow
<1>6. RepliesAre'
  BY DEF Resolved, serving, RepliesAre, NodesAre
<1>7. LookupBounded'
  BY <1>4, <1>5 DEF Resolved, LookupBounded, WithinLimit, AskedNow
<1>8. AnnounceEarned'
  BY DEF Resolved, serving, AnnounceEarned, RepliesAre
<1> QED
  BY <1>1, <1>2, <1>3, <1>4, <1>5, <1>6, <1>7, <1>8

(* The nearest candidates are asked,                                         *)
LEMMA SendBatchKeeps ==
  ASSUME DhtInv, SendBatch
  PROVE  DhtInv'
<1> USE DhtAssumption DEF DhtInv
<1>1. LookupTypes'
  BY DEF SendBatch, serving, LookupTypes
<1>2. LookupsCounted'
  BY DEF SendBatch, serving, LookupsCounted
<1>3. NodesAre'
  BY BatchIsNew DEF SendBatch, serving, NodesAre
<1>4. WithinLimit'
  BY BatchFits DEF SendBatch, WithinLimit
<1>5. AskedNow'
  BY DEF SendBatch, serving, AskedNow
<1>6. RepliesAre'
  BY DEF SendBatch, serving, RepliesAre, NodesAre
<1>7. LookupBounded'
  BY BatchIsNew, <1>4 DEF SendBatch, LookupBounded, WithinLimit
<1>8. AnnounceEarned'
  BY BatchIsNew DEF SendBatch, serving, AnnounceEarned, RepliesAre
<1> QED
  BY <1>1, <1>2, <1>3, <1>4, <1>5, <1>6, <1>7, <1>8

(* and what they all said is used: their nodes, if not known, are            *)
(* candidates.                                                               *)
LEMMA BatchDoneKeeps ==
  ASSUME DhtInv, BatchDone
  PROVE  DhtInv'
<1> USE DhtAssumption DEF DhtInv
<1>1. LookupTypes'
  BY DEF BatchDone, Learnt, serving, LookupTypes
<1>2. LookupsCounted'
  BY DEF BatchDone, Learnt, serving, LookupsCounted
<1>3. NodesAre'
  BY DEF BatchDone, Learnt, serving, NodesAre, RepliesAre
<1>4. WithinLimit'
  BY DEF BatchDone, Learnt, serving, WithinLimit
<1>5. AskedNow'
  BY DEF BatchDone, Learnt, serving, AskedNow
<1>6. RepliesAre'
  BY DEF BatchDone, Learnt, serving, RepliesAre, NodesAre
<1>7. LookupBounded'
  <2>1. Learnt \cap queried = {}
    BY DEF Learnt
  <2>2. lookup = "gather" /\ queried' = queried /\ pending' = pending
        /\ candidates' = candidates \cup Learnt /\ inTurn' = inTurn \cup Learnt
    BY DEF BatchDone
  <2> QED
    BY <2>1, <2>2 DEF LookupBounded
<1>8. AnnounceEarned'
  BY DEF BatchDone, Learnt, serving, AnnounceEarned, RepliesAre
<1> QED
  BY <1>1, <1>2, <1>3, <1>4, <1>5, <1>6, <1>7, <1>8

(* Nobody is left to ask, or the limit is reached.                           *)
LEMMA NothingLeftKeeps ==
  ASSUME DhtInv, NothingLeft
  PROVE  DhtInv'
<1> USE DhtAssumption DEF DhtInv
<1>1. LookupTypes'
  BY DEF NothingLeft, search, serving, LookupTypes
<1>2. LookupsCounted'
  BY DEF NothingLeft, search, serving, LookupsCounted
<1>3. NodesAre'
  BY DEF NothingLeft, search, serving, NodesAre
<1>4. WithinLimit'
  BY DEF NothingLeft, search, serving, WithinLimit
<1>5. AskedNow'
  BY DEF NothingLeft, search, serving, AskedNow
<1>6. RepliesAre'
  BY DEF NothingLeft, search, serving, RepliesAre, NodesAre
<1>7. LookupBounded'
  BY DEF NothingLeft, search, serving, LookupBounded, WithinLimit, AskedNow, LookupTypes
<1>8. AnnounceEarned'
  <2>1. candidates = {} \/ Cardinality(queried) >= MaxQueries
    <3>1. lookup = "batch" /\ (BatchOf = {} \/ Cardinality(queried) >= MaxQueries)
      BY DEF NothingLeft
    <3>2. candidates \cap queried = {}
      BY <3>1 DEF LookupBounded
    <3>3. Cardinality(queried) \in Nat
      BY FS_CardinalityType DEF WithinLimit
    <3> QED
      BY <3>1, <3>2, <3>3, EmptyBatchEnds
  <2> QED
    BY <2>1 DEF NothingLeft, search, AnnounceEarned
<1> QED
  BY <1>1, <1>2, <1>3, <1>4, <1>5, <1>6, <1>7, <1>8

(* The announces are over, and the lookup with them.                         *)
LEMMA LookupDoneKeeps ==
  ASSUME DhtInv, LookupDone
  PROVE  DhtInv'
<1> USE DhtAssumption DEF DhtInv
<1>1. LookupTypes'
  BY DEF LookupDone, LookupTypes
<1>2. LookupsCounted'
  BY DEF LookupDone, LookupsCounted
<1>3. NodesAre'
  BY DEF LookupDone, NodesAre
<1>4. WithinLimit'
  BY DEF LookupDone, WithinLimit
<1>5. AskedNow'
  BY DEF LookupDone, AskedNow
<1>6. RepliesAre'
  BY DEF LookupDone, RepliesAre, NodesAre
<1>7. LookupBounded'
  BY DEF LookupDone, LookupBounded, WithinLimit, AskedNow, LookupTypes
<1>8. AnnounceEarned'
  BY DEF LookupDone, AnnounceEarned, RepliesAre
<1> QED
  BY <1>1, <1>2, <1>3, <1>4, <1>5, <1>6, <1>7, <1>8

(* The loop cancels its lookup.                                              *)
LEMMA LookupCancelledKeeps ==
  ASSUME DhtInv, LookupCancelled
  PROVE  DhtInv'
<1> USE DhtAssumption DEF DhtInv
<1>1. LookupTypes'
  BY DEF LookupCancelled, search, serving, LookupTypes
<1>2. LookupsCounted'
  BY DEF LookupCancelled, search, serving, LookupsCounted
<1>3. NodesAre'
  BY DEF LookupCancelled, search, serving, NodesAre
<1>4. WithinLimit'
  BY DEF LookupCancelled, search, serving, WithinLimit
<1>5. AskedNow'
  BY DEF LookupCancelled, search, serving, AskedNow
<1>6. RepliesAre'
  BY DEF LookupCancelled, search, serving, RepliesAre, NodesAre
<1>7. LookupBounded'
  BY DEF LookupCancelled, search, serving, LookupBounded, WithinLimit, AskedNow, LookupTypes
<1>8. AnnounceEarned'
  BY DEF LookupCancelled, search, serving, AnnounceEarned, RepliesAre
<1> QED
  BY <1>1, <1>2, <1>3, <1>4, <1>5, <1>6, <1>7, <1>8

(* The session takes the peers that announced themselves.                    *)
LEMMA DrainPeersKeeps ==
  ASSUME DhtInv, DrainPeers
  PROVE  DhtInv'
<1> USE DhtAssumption DEF DhtInv
<1>1. LookupTypes'
  BY DEF DrainPeers, search, LookupTypes
<1>2. LookupsCounted'
  BY DEF DrainPeers, search, LookupsCounted
<1>3. NodesAre'
  BY DEF DrainPeers, search, NodesAre
<1>4. WithinLimit'
  BY DEF DrainPeers, search, WithinLimit
<1>5. AskedNow'
  BY DEF DrainPeers, search, AskedNow
<1>6. RepliesAre'
  BY DEF DrainPeers, search, RepliesAre, NodesAre
<1>7. LookupBounded'
  BY DEF DrainPeers, search, LookupBounded, WithinLimit, AskedNow, LookupTypes
<1>8. AnnounceEarned'
  BY DEF DrainPeers, search, AnnounceEarned, RepliesAre
<1> QED
  BY <1>1, <1>2, <1>3, <1>4, <1>5, <1>6, <1>7, <1>8

(* close() cancels the queries of a lookup under way.                        *)
LEMMA CloseDhtKeeps ==
  ASSUME DhtInv, CloseDht
  PROVE  DhtInv'
<1> USE DhtAssumption DEF DhtInv
<1>1. LookupTypes'
  BY DEF CloseDht, ClosedLookup, search, serving, LookupTypes
<1>2. LookupsCounted'
  BY DEF CloseDht, ClosedLookup, search, serving, LookupsCounted
<1>3. NodesAre'
  BY DEF CloseDht, ClosedLookup, search, serving, NodesAre
<1>4. WithinLimit'
  BY DEF CloseDht, ClosedLookup, search, serving, WithinLimit
<1>5. AskedNow'
  BY DEF CloseDht, ClosedLookup, search, serving, AskedNow
<1>6. RepliesAre'
  BY DEF CloseDht, ClosedLookup, search, serving, RepliesAre, NodesAre
<1>7. LookupBounded'
  BY DEF CloseDht, ClosedLookup, search, serving, LookupBounded, WithinLimit, AskedNow, LookupTypes
<1>8. AnnounceEarned'
  BY DEF CloseDht, ClosedLookup, search, serving, AnnounceEarned, RepliesAre
<1> QED
  BY <1>1, <1>2, <1>3, <1>4, <1>5, <1>6, <1>7, <1>8

(* A node does not answer.                                                   *)
LEMMA NoResponseKeeps ==
  ASSUME DhtInv, NEW n \in Nodes, NoResponse(n)
  PROVE  DhtInv'
<1> USE DhtAssumption DEF DhtInv
<1>1. LookupTypes'
  BY DEF NoResponse, search, serving, LookupTypes
<1>2. LookupsCounted'
  BY DEF NoResponse, search, serving, LookupsCounted
<1>3. NodesAre'
  BY DEF NoResponse, search, serving, NodesAre
<1>4. WithinLimit'
  BY DEF NoResponse, search, serving, WithinLimit
<1>5. AskedNow'
  BY DEF NoResponse, search, serving, AskedNow
<1>6. RepliesAre'
  BY DEF NoResponse, search, serving, RepliesAre, NodesAre
<1>7. LookupBounded'
  BY DEF NoResponse, search, serving, LookupBounded, WithinLimit, AskedNow, LookupTypes
<1>8. AnnounceEarned'
  BY DEF NoResponse, search, serving, AnnounceEarned, RepliesAre
<1> QED
  BY <1>1, <1>2, <1>3, <1>4, <1>5, <1>6, <1>7, <1>8

(* A node answers with peers, a token and nodes, of each any or none.        *)
LEMMA RespondsKeeps ==
  ASSUME DhtInv, NEW n \in Nodes, Responds(n)
  PROVE  DhtInv'
<1> USE DhtAssumption DEF DhtInv
<1>1. LookupTypes'
  BY DEF Responds, search, serving, LookupTypes
<1>2. LookupsCounted'
  BY DEF Responds, search, serving, LookupsCounted
<1>3. NodesAre'
  BY DEF Responds, search, serving, NodesAre
<1>4. WithinLimit'
  BY DEF Responds, search, serving, WithinLimit
<1>5. AskedNow'
  BY DEF Responds, search, serving, AskedNow
<1>6. RepliesAre'
  <2>1. n \in queried /\ queried' = queried /\ lookup = "gather" /\ lookup' = lookup
    BY DEF Responds, search, AskedNow
  <2>2. PICK gave, key \in BOOLEAN, nodes \in SUBSET Nodes :
          replies' = replies \cup {[node |-> n, peers |-> gave, token |-> key, nodes |-> nodes]}
    BY DEF Responds
  <2>3. PICK r : r = [node |-> n, peers |-> gave, token |-> key, nodes |-> nodes]
    OBVIOUS
  <2>4. r.node = n /\ r.nodes = nodes /\ replies' = replies \cup {r}
    BY <2>2, <2>3
  <2> QED
    BY <2>1, <2>4 DEF RepliesAre
<1>7. LookupBounded'
  BY DEF Responds, search, serving, LookupBounded, WithinLimit, AskedNow, LookupTypes
<1>8. AnnounceEarned'
  BY DEF Responds, search, serving, AnnounceEarned, RepliesAre
<1> QED
  BY <1>1, <1>2, <1>3, <1>4, <1>5, <1>6, <1>7, <1>8

(* A peer announces itself with a token, which may be another's.             *)
LEMMA PeerAnnouncesKeeps ==
  ASSUME DhtInv, NEW p \in {"p"}, NEW valid \in BOOLEAN, PeerAnnounces(p, valid)
  PROVE  DhtInv'
<1> USE DhtAssumption DEF DhtInv
<1>1. LookupTypes'
  BY DEF PeerAnnounces, serving, search, LookupTypes
<1>2. LookupsCounted'
  BY DEF PeerAnnounces, serving, search, LookupsCounted
<1>3. NodesAre'
  BY DEF PeerAnnounces, serving, search, NodesAre
<1>4. WithinLimit'
  BY DEF PeerAnnounces, serving, search, WithinLimit
<1>5. AskedNow'
  BY DEF PeerAnnounces, serving, search, AskedNow
<1>6. RepliesAre'
  BY DEF PeerAnnounces, serving, search, RepliesAre, NodesAre
<1>7. LookupBounded'
  BY DEF PeerAnnounces, serving, search, LookupBounded, WithinLimit, AskedNow, LookupTypes
<1>8. AnnounceEarned'
  BY DEF PeerAnnounces, serving, search, AnnounceEarned, RepliesAre
<1> QED
  BY <1>1, <1>2, <1>3, <1>4, <1>5, <1>6, <1>7, <1>8

(* Every step of the client, of its nodes and of its peers keeps the         *)
(* invariant.                                                                *)
LEMMA DhtInvNext ==
  ASSUME DhtInv, [DhtNext]_dhtVars
  PROVE  DhtInv'
<1>1. CASE StartDht
  BY <1>1, StartDhtKeeps
<1>2. CASE BeginLookup
  BY <1>2, BeginLookupKeeps
<1>3. CASE Resolved
  BY <1>3, ResolvedKeeps
<1>4. CASE SendBatch
  BY <1>4, SendBatchKeeps
<1>5. CASE BatchDone
  BY <1>5, BatchDoneKeeps
<1>6. CASE NothingLeft
  BY <1>6, NothingLeftKeeps
<1>7. CASE LookupDone
  BY <1>7, LookupDoneKeeps
<1>8. CASE LookupCancelled
  BY <1>8, LookupCancelledKeeps
<1>9. CASE DrainPeers
  BY <1>9, DrainPeersKeeps
<1>10. CASE CloseDht
  BY <1>10, CloseDhtKeeps
<1>11. ASSUME NEW n \in Nodes, NoResponse(n) PROVE DhtInv'
  BY <1>11, NoResponseKeeps
<1>12. ASSUME NEW n \in Nodes, Responds(n) PROVE DhtInv'
  BY <1>12, RespondsKeeps
<1>13. ASSUME NEW p \in {"p"}, NEW valid \in BOOLEAN, PeerAnnounces(p, valid) PROVE DhtInv'
  BY <1>13, PeerAnnouncesKeeps
<1>14. CASE UNCHANGED dhtVars
  BY <1>14 DEF dhtVars, search, serving, DhtInv, LookupTypes, LookupsCounted, NodesAre, WithinLimit,
     AskedNow, RepliesAre, LookupBounded, AnnounceEarned
<1> QED
  BY <1>1, <1>2, <1>3, <1>4, <1>5, <1>6, <1>7, <1>8, <1>9, <1>10, <1>11, <1>12, <1>13, <1>14 DEF
     DhtNext, LookupStep

(* A closed client asks nobody.                                              *)
LEMMA DhtInvInit == DhtInit => DhtInv
<1> SUFFICES ASSUME DhtInit PROVE DhtInv
  OBVIOUS
<1>1. LookupTypes /\ NodesAre
  BY DEF DhtInit, LookupTypes, NodesAre
<1>4. LookupsCounted
  BY DhtAssumption DEF DhtInit, LookupsCounted
<1>2. WithinLimit
  BY DhtAssumption, FS_EmptySet DEF DhtInit, WithinLimit
<1>3. AskedNow /\ RepliesAre /\ LookupBounded /\ AnnounceEarned
  BY DEF DhtInit, AskedNow, RepliesAre, LookupBounded, AnnounceEarned
<1> QED
  BY <1>1, <1>2, <1>3, <1>4 DEF DhtInv

(* For any nodes and any limits: a lookup asks no node twice and never more  *)
(* than it may, so that nodes which name each other cannot keep it going;    *)
(* it announces only to nodes that answered it, and if it stops early it     *)
(* has found a peer (get_peers).                                             *)
THEOREM LookupsAreSound == DhtSpec => []DhtSound
<1>1. DhtInv => DhtSound
  BY DEF DhtInv, DhtSound
<1> QED
  BY <1>1, DhtInvInit, DhtInvNext, PTL DEF DhtSpec

(* The types of the DHT are part of its invariant.                           *)
LEMMA DhtInvTypes == DhtInv => DhtTypeOK
<1> SUFFICES ASSUME DhtInv PROVE DhtTypeOK
  OBVIOUS
<1> USE DEF DhtInv
<1>1. candidates \subseteq Nodes /\ inTurn \subseteq Nodes /\ queried \subseteq Nodes /\ waiting \subseteq announced
  BY DEF NodesAre
<1>2. pending \subseteq Nodes /\ responded \subseteq Nodes /\ tokens \subseteq Nodes
  BY <1>1 DEF AskedNow, AnnounceEarned
<1>3. {r.node : r \in replies} \subseteq Nodes
  BY <1>1 DEF RepliesAre
<1>4. \A S \in {candidates, inTurn, queried, pending, responded, tokens} : S \subseteq Nodes
  BY <1>1, <1>2
<1> QED
  BY <1>1, <1>3, <1>4 DEF LookupTypes, LookupsCounted, DhtTypeOK

--------------------------------------------------------------------------------
(* The local network (local_peer_discovery.py).                              *)

(* What is found of another session; the state of a session.                 *)
Found == [ip : {"a", "b"}, port : ListenPorts]
Sessions == [open : BOOLEAN, port : {0} \cup ListenPorts, seen : SUBSET Found,
             queue : SUBSET Found, rested : BOOLEAN]

(* The types, with those of the addresses and datagrams.                    *)
LanTypes ==
  /\ LanTypeOK
  /\ address \in [Hosts -> {"a", "b"}] /\ moved \subseteq Hosts
  /\ datagrams \subseteq [to : Hosts, ip : {"a", "b"}, port : {0} \cup ListenPorts]

(* The session has its address to itself.                                    *)
Alone(h) == \A g \in Hosts : address[g] = address[h] => g = h

(* Where a session has the address to itself and has kept its port, what is  *)
(* under way from that address is its own, and it has found nothing there.  *)
OwnIsKnown ==
  \A h \in Hosts \ moved : Alone(h) =>
    /\ \A d \in datagrams : d.ip = address[h] => d.port \in {0, lpd[h].port}
    /\ \A e \in lpd[h].seen : e.ip /= address[h]

(* The inductive invariant of the local network.                             *)
LanInv == LanTypes /\ OwnIsKnown

--------------------------------------------------------------------------------
(* The state of each session.                                                *)
LEMMA SessionTypes == LanTypes => lpd \in [Hosts -> Sessions]
BY DEF LanTypes, LanTypeOK, Sessions, Found

(* The changes an action makes to a session.                                *)
LEMMA SessionKept ==
  ASSUME NEW session \in Sessions
  PROVE  /\ \A b \in BOOLEAN, seen \in SUBSET Found, queue \in SUBSET Found :
              [session EXCEPT !.rested = b, !.seen = seen, !.queue = queue] \in Sessions
         /\ \A port \in {0} \cup ListenPorts :
              /\ [session EXCEPT !.port = port] \in Sessions
              /\ [session EXCEPT !.open = TRUE, !.port = port] \in Sessions
         /\ [session EXCEPT !.rested = TRUE] \in Sessions
         /\ [session EXCEPT !.queue = {}] \in Sessions
         /\ [session EXCEPT !.open = FALSE] \in Sessions
BY DEF Sessions

LEMMA PortsAreNumbers == \A port \in {0} \cup ListenPorts : port \in Nat
BY LanAssumption

LEMMA LanInvInit == LanInit => LanInv
BY LanAssumption DEF LanInit, LanInv, LanTypes, LanTypeOK, OwnIsKnown, NoSession

(* What announce() sends is well formed and bears the sender's address.     *)
LEMMA SentIsTyped ==
  ASSUME LanTypes, NEW h \in Hosts, NEW port \in {0} \cup ListenPorts
  PROVE  /\ Sent(h, port) \subseteq [to : Hosts, ip : {"a", "b"}, port : {0} \cup ListenPorts]
         /\ \A d \in Sent(h, port) : d.ip = address[h] /\ d.port = port
BY DEF LanTypes, Sent

(* A session begins to announce a port, its first or another one.           *)
LEMMA NewPortKeeps ==
  ASSUME LanInv, NEW h \in Hosts, NEW port \in {0} \cup ListenPorts,
         Spontaneous, UNCHANGED address,
         datagrams' = datagrams \cup Sent(h, port),
         lpd' \in [Hosts -> Sessions],
         lpd'[h].port = port, lpd'[h].seen = lpd[h].seen,
         \A g \in Hosts \ {h} : lpd'[g] = lpd[g],
         moved' = IF lpd[h].port \in {0, port} THEN moved ELSE moved \cup {h}
  PROVE  LanInv'
<1>1. LanTypes'
  BY SentIsTyped, LanAssumption DEF LanInv, LanTypes, LanTypeOK, Spontaneous, Sessions, Found
<1>2. ASSUME NEW g \in Hosts \ moved', Alone(g)',
             NEW d \in datagrams', d.ip = address'[g]
      PROVE  d.port \in {0, lpd'[g].port}
  <2>1. g \in Hosts \ moved /\ Alone(g)
    BY <1>2 DEF Alone
  <2>2. CASE d \in Sent(h, port)
    <3>1. d.ip = address[h] /\ d.port = port
      BY <2>2, SentIsTyped DEF LanInv
    <3>2. g = h
      BY <1>2, <2>1, <3>1 DEF Alone
    <3> QED
      BY <3>1, <3>2
  <2>3. CASE d \in datagrams
    <3>1. d.port \in {0, lpd[g].port}
      BY <1>2, <2>1, <2>3 DEF LanInv, OwnIsKnown
    <3>2. g = h => lpd[g].port \in {0, port}
      BY <1>2
    <3> QED
      BY <3>1, <3>2, <1>2
  <2> QED
    BY <1>2, <2>2, <2>3
<1>3. ASSUME NEW g \in Hosts \ moved', Alone(g)', NEW e \in lpd'[g].seen
      PROVE  e.ip /= address'[g]
  <2>1. g \in Hosts \ moved /\ Alone(g)
    BY <1>3 DEF Alone
  <2>2. e \in lpd[g].seen
    BY <1>3
  <2> QED
    BY <2>1, <2>2 DEF LanInv, OwnIsKnown
<1> QED
  BY <1>1, <1>2, <1>3 DEF LanInv, OwnIsKnown

(* A datagram arrives: it is recorded unless it is a query, its receiver's    *)
(* own, or known, and a query may be answered.                              *)
LEMMA DatagramKeeps ==
  ASSUME LanInv, NEW d \in datagrams, HandleDatagram(d)
  PROVE  LanInv'
<1> DEFINE h == d.to
           new == d.port /= 0 /\ ~Own(h, d) /\ Endpoint(d) \notin lpd[h].seen
           sent == IF Answers(h, d) THEN Sent(h, lpd[h].port) ELSE {}
<1>1. /\ h \in Hosts /\ d.ip \in {"a", "b"} /\ d.port \in {0} \cup ListenPorts
      /\ lpd[h].port \in {0} \cup ListenPorts
  BY DEF LanInv, LanTypes, LanTypeOK
<1>2. new => Endpoint(d) \in Found
  BY <1>1 DEF Endpoint, Found
<1>3. /\ lpd' = [lpd EXCEPT ![h].rested = @ /\ ~Answers(h, d),
                            ![h].seen = IF new THEN @ \cup {Endpoint(d)} ELSE @,
                            ![h].queue = IF new THEN @ \cup {Endpoint(d)} ELSE @]
      /\ datagrams' \subseteq datagrams \cup sent
      /\ UNCHANGED <<address, announcements, moved>>
  BY DEF HandleDatagram
<1> HIDE DEF new
<1>4. sent \subseteq [to : Hosts, ip : {"a", "b"}, port : {0} \cup ListenPorts]
  BY <1>1, SentIsTyped DEF LanInv
<1>5. (lpd[h].rested /\ ~Answers(h, d)) \in BOOLEAN
  BY DEF Answers
<1>6. /\ (IF new THEN lpd[h].seen \cup {Endpoint(d)} ELSE lpd[h].seen) \in SUBSET Found
      /\ (IF new THEN lpd[h].queue \cup {Endpoint(d)} ELSE lpd[h].queue) \in SUBSET Found
  BY <1>1, <1>2 DEF LanInv, LanTypes, LanTypeOK, Found
<1>7. lpd' \in [Hosts -> Sessions]
  <2> DEFINE b == lpd[h].rested /\ ~Answers(h, d)
             seen == IF new THEN lpd[h].seen \cup {Endpoint(d)} ELSE lpd[h].seen
             queue == IF new THEN lpd[h].queue \cup {Endpoint(d)} ELSE lpd[h].queue
             session == [lpd[h] EXCEPT !.rested = b, !.seen = seen, !.queue = queue]
  <2>1. lpd \in [Hosts -> Sessions]
    BY SessionTypes DEF LanInv
  <2>2. session \in Sessions
    <3>1. b \in BOOLEAN /\ seen \in SUBSET Found /\ queue \in SUBSET Found /\ lpd[h] \in Sessions
      BY <1>1, <1>5, <1>6, <2>1
    <3> HIDE DEF b, seen, queue
    <3> QED
      BY <3>1, SessionKept
  <2>3. lpd' = [lpd EXCEPT ![h] = session]
    BY <1>1, <1>3, <2>1 DEF Sessions
  <2> QED
    BY <1>1, <2>1, <2>2, <2>3
<1>8. LanTypes'
  BY <1>3, <1>4, <1>7 DEF LanInv, LanTypes, LanTypeOK, Sessions, Found
<1>9. \A g \in Hosts : /\ lpd'[g].port = lpd[g].port
                       /\ lpd'[g].seen \subseteq lpd[g].seen \cup (IF g = h /\ new THEN {Endpoint(d)} ELSE {})
  BY <1>1, <1>3 DEF LanInv, LanTypes, LanTypeOK
<1>10. ASSUME NEW g \in Hosts \ moved, Alone(g), NEW c \in datagrams', c.ip = address[g]
       PROVE  c.port \in {0, lpd[g].port}
  <2>1. CASE c \in datagrams
    BY <1>10, <2>1 DEF LanInv, OwnIsKnown
  <2>2. CASE c \in sent
    <3>1. c.ip = address[h] /\ c.port = lpd[h].port
      <4>1. c \in Sent(h, lpd[h].port)
        BY <2>2
      <4>2. h \in Hosts /\ lpd[h].port \in {0} \cup ListenPorts /\ LanTypes
        BY <1>1 DEF LanInv
      <4> HIDE DEF h
      <4> QED
        BY <4>1, <4>2, SentIsTyped
    <3>2. g = h
      BY <1>1, <1>10, <3>1 DEF Alone
    <3> QED
      BY <3>1, <3>2
  <2> QED
    BY <1>3, <1>10, <2>1, <2>2
<1>11. ASSUME NEW g \in Hosts \ moved, Alone(g), NEW e \in lpd'[g].seen
       PROVE  e.ip /= address[g]
  <2>1. CASE e \in lpd[g].seen
    BY <1>11, <2>1 DEF LanInv, OwnIsKnown
  <2>2. CASE g = h /\ new /\ e = Endpoint(d)
    <3>1. d.ip = address[g] => d.port \in {0, lpd[g].port}
      BY <1>11 DEF LanInv, OwnIsKnown
    <3>2. d.port /= 0 /\ ~Own(h, d)
      BY <2>2 DEF new
    <3>3. d.port /= lpd[g].port \/ ~(lpd[h].port > 0)
      BY <2>2, <3>2 DEF Own
    <3>4. lpd[h].port = 0 \/ lpd[h].port > 0
      <4>1. lpd[h].port \in Nat
        BY <1>1, PortsAreNumbers
      <4> QED
        BY <4>1
    <3> QED
      BY <2>2, <3>1, <3>2, <3>3, <3>4 DEF Endpoint
  <2> QED
    BY <1>9, <1>11, <2>1, <2>2
<1>12. OwnIsKnown'
  BY <1>3, <1>9, <1>10, <1>11 DEF OwnIsKnown, Alone
<1> QED
  BY <1>8, <1>12 DEF LanInv

LEMMA LanInvNext ==
  ASSUME LanInv, [LanNext]_lanVars
  PROVE  LanInv'
<1> USE LanAssumption
<1>1. ASSUME NEW h \in Hosts, NEW port \in {0} \cup ListenPorts, OpenLpd(h, port) \/ MovePort(h, port)
      PROVE  LanInv'
  <2>1. lpd' \in [Hosts -> Sessions]
    <3>1. lpd \in [Hosts -> Sessions]
      BY SessionTypes DEF LanInv
    <3>2. \/ lpd' = [lpd EXCEPT ![h] = [lpd[h] EXCEPT !.port = port]]
          \/ lpd' = [lpd EXCEPT ![h] = [lpd[h] EXCEPT !.open = TRUE, !.port = port]]
      BY <1>1, <3>1 DEF OpenLpd, MovePort
    <3>3. /\ [lpd[h] EXCEPT !.port = port] \in Sessions
          /\ [lpd[h] EXCEPT !.open = TRUE, !.port = port] \in Sessions
      BY <3>1, SessionKept
    <3> QED
      BY <3>1, <3>2, <3>3
  <2>2. /\ lpd'[h].port = port /\ lpd'[h].seen = lpd[h].seen
        /\ \A g \in Hosts \ {h} : lpd'[g] = lpd[g]
    BY <1>1 DEF OpenLpd, MovePort, LanInv, LanTypes, LanTypeOK
  <2>3. moved' = IF lpd[h].port \in {0, port} THEN moved ELSE moved \cup {h}
    BY <1>1 DEF OpenLpd, MovePort
  <2>4. Spontaneous /\ UNCHANGED address /\ datagrams' = datagrams \cup Sent(h, port)
    BY <1>1 DEF OpenLpd, MovePort
  <2> QED
    BY <2>1, <2>2, <2>3, <2>4, NewPortKeeps
<1>2. ASSUME NEW h \in Hosts, AnnounceAgain(h) PROVE LanInv'
  BY <1>2, SessionTypes, NewPortKeeps DEF AnnounceAgain, LanInv, Sessions
<1>3. ASSUME NEW h \in Hosts, SecondPasses(h) \/ DrainLpd(h) \/ CloseLpd(h) PROVE LanInv'
  <2>1. \A g \in Hosts : lpd'[g].port = lpd[g].port /\ lpd'[g].seen = lpd[g].seen
    BY <1>3 DEF SecondPasses, DrainLpd, CloseLpd, LanInv, LanTypes, LanTypeOK
  <2>2. UNCHANGED <<address, datagrams, announcements, moved>>
    BY <1>3 DEF SecondPasses, DrainLpd, CloseLpd
  <2>3. lpd' \in [Hosts -> Sessions]
    <3>1. lpd \in [Hosts -> Sessions]
      BY SessionTypes DEF LanInv
    <3>2. \/ lpd' = [lpd EXCEPT ![h] = [lpd[h] EXCEPT !.rested = TRUE]]
          \/ lpd' = [lpd EXCEPT ![h] = [lpd[h] EXCEPT !.queue = {}]]
          \/ lpd' = [lpd EXCEPT ![h] = [lpd[h] EXCEPT !.open = FALSE]]
      BY <1>3, <3>1 DEF SecondPasses, DrainLpd, CloseLpd
    <3>3. /\ [lpd[h] EXCEPT !.rested = TRUE] \in Sessions
          /\ [lpd[h] EXCEPT !.queue = {}] \in Sessions
          /\ [lpd[h] EXCEPT !.open = FALSE] \in Sessions
      BY <3>1, SessionKept
    <3> QED
      BY <3>1, <3>2, <3>3
  <2>4. LanTypes'
    BY <2>2, <2>3 DEF LanInv, LanTypes, LanTypeOK, Sessions, Found
  <2>5. OwnIsKnown'
    BY <2>1, <2>2 DEF LanInv, OwnIsKnown, Alone
  <2> QED
    BY <2>4, <2>5 DEF LanInv
<1>4. ASSUME NEW d \in datagrams, Vanish(d) PROVE LanInv'
  BY <1>4 DEF Vanish, LanInv, LanTypes, LanTypeOK, OwnIsKnown, Alone
<1>5. ASSUME NEW d \in datagrams, HandleDatagram(d) PROVE LanInv'
  BY <1>5, DatagramKeeps
<1>6. CASE UNCHANGED lanVars
  BY <1>6 DEF lanVars, LanInv, LanTypes, LanTypeOK, OwnIsKnown, Alone
<1> QED
  BY <1>1, <1>2, <1>3, <1>4, <1>5, <1>6 DEF LanNext

(* Every variable of local discovery keeps its type.                        *)
THEOREM LanTypesHold == LanSpec => []LanTypeOK
<1>1. LanInv => LanTypeOK
  BY DEF LanInv, LanTypes
<1> QED
  BY <1>1, LanInvInit, LanInvNext, PTL DEF LanSpec

(* _handle_datagram answers queries only, so announcements do not breed      *)
(* announcements, whatever arrives how often in which order.                *)
THEOREM NothingEchoes == LanSpec => NoEcho
<1>1. ASSUME LanInv, [LanNext]_lanVars
      PROVE  [announcements' = announcements /\ (\A d \in datagrams : d.port /= 0)
                => datagrams' \subseteq datagrams]_lanVars
  <2> SUFFICES ASSUME announcements' = announcements, \A d \in datagrams : d.port /= 0
               PROVE  datagrams' \subseteq datagrams
    OBVIOUS
  <2>1. ~Spontaneous
    BY <1>1, LanAssumption DEF Spontaneous, LanInv, LanTypes, LanTypeOK
  <2>2. \A d \in datagrams : HandleDatagram(d) => datagrams' \subseteq datagrams
    BY DEF HandleDatagram, Answers
  <2> QED
    BY <1>1, <2>1, <2>2
    DEF LanNext, lanVars, OpenLpd, MovePort, AnnounceAgain, SecondPasses, DrainLpd, CloseLpd, Vanish
<1> QED
  BY <1>1, LanInvInit, LanInvNext, PTL DEF LanSpec, NoEcho

(* A session that has kept its port and shares its address with nobody never *)
(* takes its own announcement for a peer.                                   *)
THEOREM NoSelfDiscovery == LanSpec => []NotFoundByItself
<1>1. ASSUME LanInv PROVE NotFoundByItself
  <2> SUFFICES ASSUME NEW h \in Hosts \ moved, lpd[h].port > 0,
                      ~(Cardinality({g \in Hosts : address[g] = address[h]}) > 1)
               PROVE  [ip |-> address[h], port |-> lpd[h].port] \notin lpd[h].seen
    BY DEF NotFoundByItself
  <2> DEFINE here == {g \in Hosts : address[g] = address[h]}
  <2>1. IsFiniteSet(here) /\ Cardinality(here) \in Nat
    BY LanAssumption, FS_Subset, FS_CardinalityType
  <2>2. IsFiniteSet({h}) /\ Cardinality({h}) = 1 /\ {h} \in SUBSET here
    BY FS_Singleton
  <2>3. Cardinality({h}) <= Cardinality(here)
    BY <2>1, <2>2, FS_Subset
  <2>4. Cardinality(here) = Cardinality({h})
    BY <2>1, <2>2, <2>3
  <2>5. {h} = here
    BY <2>1, <2>2, <2>4, FS_Subset
  <2>6. Alone(h)
    BY <2>5 DEF Alone
  <2> QED
    BY <1>1, <2>6 DEF LanInv, OwnIsKnown
<1> QED
  BY <1>1, LanInvInit, LanInvNext, PTL DEF LanSpec

--------------------------------------------------------------------------------
(* Magnet links (magnet.py).                                                 *)

(* The types of a resolution and of what is tried.                           *)
MagnetTypes ==
  /\ resolver \in {"none", "created", "discover", "batch", "pause", "closing", "closed"}
  /\ verdict \in {"none", "metadata", "error", "cancelled"}
  /\ attempted \subseteq Sources /\ metadataFrom \in Sources \cup {NobodyYet}
  /\ afterBatch \in {"pause", "discover"}
MagnetFlags ==
  /\ late \in BOOLEAN /\ socketsOpen \in BOOLEAN /\ added \in BOOLEAN /\ cutShort \in BOOLEAN
InterruptsAre == interrupts \in 0 .. 1

(* What each source of the batch is at; one that is not tried has nothing.   *)
TriesAre ==
  /\ tries \in [Sources -> [at : {"unused", "waiting", "fetching", "failed", "got"},
                             pieces : 0 .. MetadataPieces]]
  /\ \A s \in Sources : tries[s].at = "unused" => tries[s] = Unused

(* Metadata that was accepted has the hash of the link.                      *)
GotIsGenuine == \A s \in Sources : tries[s].at = "got" => s \in genuine

(* A resolution ends with metadata only from such a source, and has a        *)
(* verdict from then on.                                                     *)
VerdictIsEarned ==
  /\ verdict = "metadata" => metadataFrom \in genuine
  /\ verdict # "none" => resolver \in {"closing", "closed"}

(* Nothing is resolved for a torrent that was added already.                 *)
NotYetAdded == added => resolver \in {"none", "created"}

(* Sockets are open only while it resolves, unless a cancellation cut its    *)
(* finally short.                                                            *)
OpenWhileResolving ==
  socketsOpen /\ ~cutShort => resolver \in {"discover", "batch", "pause", "closing"}

(* The inductive invariant of the resolution.                                *)
MagnetInv ==
  /\ MagnetTypes /\ MagnetFlags /\ InterruptsAre /\ TriesAre /\ GotIsGenuine
  /\ VerdictIsEarned /\ NotYetAdded /\ OpenWhileResolving
  /\ AddedIsGenuine /\ BatchWithinLimits

(* The sources of the batch.                                                 *)
Taken == {s \in Sources : tries[s] # Unused}

(* A try and one that has not begun, by their fields.                        *)
LEMMA TryIs ==
  ASSUME NEW at, NEW pieces
  PROVE  Try(at, pieces).at = at /\ Try(at, pieces) = [at |-> at, pieces |-> pieces]
BY DEF Try

LEMMA UnusedIs ==
  /\ Unused.at = "unused"
  /\ Unused \in [at : {"unused", "waiting", "fetching", "failed", "got"}, pieces : 0 .. MetadataPieces]
<1>1. MetadataPieces \in Nat
  BY MagnetAssumption
<1> QED
  BY <1>1 DEF Unused, Try

(* A batch that only loses sources keeps its limits.                         *)
LEMMA LimitsKept ==
  ASSUME BatchWithinLimits, Taken' \subseteq Taken, Working' \subseteq Working,
         Taken' \subseteq attempted'
  PROVE  BatchWithinLimits'
<1>1. IsFiniteSet(Taken) /\ IsFiniteSet(Working)
  BY MagnetAssumption, FS_Subset DEF Taken, Working
<1>2. /\ Cardinality(Taken') <= Cardinality(Taken) /\ Cardinality(Taken') \in Nat
      /\ Cardinality(Taken) \in Nat
      /\ Cardinality(Working') <= Cardinality(Working) /\ Cardinality(Working') \in Nat
      /\ Cardinality(Working) \in Nat
  BY <1>1, FS_Subset, FS_CardinalityType
<1>3. Cardinality(Taken) <= MaxTried /\ Cardinality(Working) <= Parallel
  BY DEF BatchWithinLimits, Taken
<1>4. Cardinality(Taken') <= MaxTried /\ Cardinality(Working') <= Parallel
  BY <1>2, <1>3, MagnetAssumption
<1> QED
  BY <1>4 DEF BatchWithinLimits, Taken

(* A batch that begins has max_peers sources at most, and none of them       *)
(* works yet.                                                                *)
LEMMA BatchStarts ==
  ASSUME NEW taken \in SUBSET Sources, Cardinality(taken) <= MaxTried, TryBatch(taken),
         taken \subseteq attempted'
  PROVE  BatchWithinLimits'
<1>1. \A s \in Sources : tries'[s] = IF s \in taken THEN Try("waiting", 0) ELSE Unused
  BY DEF TryBatch
<1>2. Try("waiting", 0).at = "waiting" /\ Unused.at = "unused"
  BY TryIs, UnusedIs
<1>3. {s \in Sources : tries'[s] # Unused} = taken
  BY <1>1, <1>2
<1>4. {s \in Sources : tries'[s].at = "fetching"} = {}
  BY <1>1, <1>2
<1>5. Cardinality({}) <= Parallel
  BY MagnetAssumption, FS_EmptySet
<1> QED
  BY <1>3, <1>4, <1>5 DEF BatchWithinLimits, Working

(* Nor has one of them anything.                                             *)
LEMMA BatchTries ==
  ASSUME NEW taken \in SUBSET Sources, TryBatch(taken)
  PROVE  TriesAre' /\ \A s \in Sources : tries'[s].at # "got"
<1>1. tries' = [s \in Sources |-> IF s \in taken THEN Try("waiting", 0) ELSE Unused]
  BY DEF TryBatch
<1>2. Try("waiting", 0).at = "waiting" /\ Unused.at = "unused"
  BY TryIs, UnusedIs
<1>3. Try("waiting", 0) \in [at : {"unused", "waiting", "fetching", "failed", "got"}, pieces : 0 .. MetadataPieces]
  <2>1. MetadataPieces \in Nat
    BY MagnetAssumption
  <2> QED
    BY <2>1 DEF Try
<1> QED
  BY <1>1, <1>2, <1>3, UnusedIs DEF TriesAre

(* Between two batches nothing is tried.                                     *)
LEMMA NoTries ==
  ASSUME tries' = [s \in Sources |-> Unused]
  PROVE  /\ TriesAre' /\ (\A s \in Sources : tries'[s].at # "got")
         /\ Taken' = {} /\ Working' = {}
<1>1. \A s \in Sources : tries'[s] = Unused
  OBVIOUS
<1> QED
  BY <1>1, UnusedIs DEF TriesAre, Taken, Working

(* A step of one source leaves the others, and the semaphore limits those    *)
(* at work.                                                                  *)
LEMMA OneTry ==
  ASSUME TriesAre, BatchWithinLimits, NEW s \in Sources, tries[s].at \in {"waiting", "fetching"},
         NEW at \in {"fetching", "failed", "got"}, NEW pieces \in 0 .. MetadataPieces,
         Becomes(s, at, pieces)
  PROVE  /\ TriesAre' /\ tries'[s].at = at /\ \A q \in Sources \ {s} : tries'[q] = tries[q]
         /\ (at = "fetching" /\ tries[s].at = "waiting" => Cardinality(Working) < Parallel)
              => BatchWithinLimits'
<1>1. /\ tries'[s] = Try(at, pieces) /\ (\A q \in Sources \ {s} : tries'[q] = tries[q])
      /\ attempted' = attempted
  BY DEF Becomes, TriesAre
<1>2. tries'[s].at = at
  BY <1>1, TryIs
<1>3. TriesAre'
  <2>1. Try(at, pieces) \in [at : {"unused", "waiting", "fetching", "failed", "got"}, pieces : 0 .. MetadataPieces]
    BY DEF Try
  <2>2. tries' = [tries EXCEPT ![s] = Try(at, pieces)]
    BY DEF Becomes
  <2> QED
    BY <1>1, <1>2, <2>1, <2>2 DEF TriesAre
<1>4. tries[s] # Unused
  BY UnusedIs
<1>5. Taken' \subseteq Taken /\ Taken' \subseteq attempted'
  <2>1. Taken \subseteq attempted
    BY DEF BatchWithinLimits, Taken
  <2>2. Taken' \subseteq Taken
    BY <1>1, <1>4 DEF Taken
  <2> QED
    BY <1>1, <2>1, <2>2
<1>6. ASSUME at = "fetching" /\ tries[s].at = "waiting" => Cardinality(Working) < Parallel
      PROVE  BatchWithinLimits'
  <2>1. CASE at # "fetching" \/ tries[s].at = "fetching"
    <3>1. Working' \subseteq Working
      BY <1>1, <1>2, <2>1 DEF Working
    <3> QED
      BY <1>5, <3>1, LimitsKept
  <2>2. CASE at = "fetching" /\ tries[s].at = "waiting"
    <3>1. Cardinality(Working) < Parallel
      BY <1>6, <2>2
    <3>2. Working' = Working \cup {s}
      BY <1>1, <1>2, <2>2 DEF Working
    <3>3. IsFiniteSet(Working)
      BY MagnetAssumption, FS_Subset DEF Working
    <3>4. Cardinality(Working) \in Nat
      BY <3>3, FS_CardinalityType
    <3>41. Cardinality(Working \cup {s})
             = IF s \in Working THEN Cardinality(Working) ELSE Cardinality(Working) + 1
      BY <3>3, FS_AddElement
    <3>5. Cardinality(Working') <= Parallel
      BY <3>1, <3>2, <3>4, <3>41, MagnetAssumption
    <3>6. IsFiniteSet(Taken) /\ Cardinality(Taken) <= MaxTried
      BY MagnetAssumption, FS_Subset DEF Taken, BatchWithinLimits
    <3>7. /\ Cardinality(Taken') <= Cardinality(Taken) /\ Cardinality(Taken') \in Nat
          /\ Cardinality(Taken) \in Nat
      BY <1>5, <3>6, FS_Subset, FS_CardinalityType
    <3>8. Cardinality(Taken') <= MaxTried
      BY <3>6, <3>7, MagnetAssumption
    <3> QED
      BY <1>5, <3>5, <3>8 DEF BatchWithinLimits, Taken
  <2> QED
    BY <2>1, <2>2
<1> QED
  BY <1>1, <1>2, <1>3, <1>6

(* ADD_MAGNET begins a resolution unless one is under way.                   *)
LEMMA AddMagnetKeeps ==
  ASSUME MagnetInv, AddMagnet
  PROVE  MagnetInv'
<1> USE DEF MagnetInv
<1>1. MagnetTypes'
  BY DEF AddMagnet, Command, Live, fetching, MagnetTypes
<1>2. MagnetFlags'
  BY DEF AddMagnet, Command, Live, fetching, MagnetFlags
<1>3. InterruptsAre'
  BY DEF AddMagnet, Command, Live, fetching, InterruptsAre
<1>4. TriesAre'
  BY DEF AddMagnet, Command, Live, fetching, TriesAre
<1>5. GotIsGenuine'
  BY DEF AddMagnet, Command, Live, fetching, GotIsGenuine, TriesAre
<1>6. VerdictIsEarned'
  BY DEF AddMagnet, Command, Live, fetching, VerdictIsEarned, GotIsGenuine, MagnetTypes
<1>7. NotYetAdded'
  BY DEF AddMagnet, Command, Live, fetching, NotYetAdded, MagnetFlags, MagnetTypes
<1>8. OpenWhileResolving'
  BY DEF AddMagnet, Command, Live, fetching, OpenWhileResolving, MagnetFlags, MagnetTypes
<1>9. AddedIsGenuine'
  BY DEF AddMagnet, Command, Live, fetching, AddedIsGenuine, VerdictIsEarned, NotYetAdded,
     MagnetFlags
<1>10. BatchWithinLimits'
  <2>1. Taken' = Taken /\ Working' = Working /\ attempted' = attempted
    BY DEF AddMagnet, Command, Live, fetching, Taken, Working, Unused, Try
  <2>2. Taken \subseteq attempted
    BY DEF BatchWithinLimits, Taken
  <2> QED
    BY <2>1, <2>2, LimitsKept
<1> QED
  BY <1>1, <1>2, <1>3, <1>4, <1>5, <1>6, <1>7, <1>8, <1>9, <1>10

(* CANCEL_MAGNET cancels the task and its workers.                           *)
LEMMA CancelMagnetKeeps ==
  ASSUME MagnetInv, CancelMagnet
  PROVE  MagnetInv'
<1> USE DEF MagnetInv
<1>1. MagnetTypes'
  BY DEF CancelMagnet, Command, Live, MagnetTypes
<1>2. MagnetFlags'
  BY DEF CancelMagnet, Command, Live, MagnetFlags
<1>3. InterruptsAre'
  BY DEF CancelMagnet, Command, Live, InterruptsAre
<1>4. TriesAre'
  <2>1. tries' = [s \in Sources |-> IF tries[s].at \in {"unused", "got"} THEN tries[s] ELSE Try("failed", 0)]
    BY DEF CancelMagnet
  <2>2. Try("failed", 0).at = "failed" /\ Unused.at = "unused"
    BY TryIs, UnusedIs
  <2>3. Try("failed", 0) \in [at : {"unused", "waiting", "fetching", "failed", "got"}, pieces : 0 .. MetadataPieces]
    <3>1. MetadataPieces \in Nat
      BY MagnetAssumption
    <3> QED
      BY <3>1 DEF Try
  <2> QED
    BY <2>1, <2>2, <2>3 DEF TriesAre
<1>5. GotIsGenuine'
  <2>1. tries' = [s \in Sources |-> IF tries[s].at \in {"unused", "got"} THEN tries[s] ELSE Try("failed", 0)]
    BY DEF CancelMagnet
  <2>2. Try("failed", 0).at = "failed" /\ Unused.at = "unused"
    BY TryIs, UnusedIs
  <2>3. genuine' = genuine
    BY DEF CancelMagnet
  <2> QED
    BY <2>1, <2>2, <2>3 DEF GotIsGenuine
<1>6. VerdictIsEarned'
  BY DEF CancelMagnet, Command, Live, VerdictIsEarned, GotIsGenuine, MagnetTypes
<1>7. NotYetAdded'
  BY DEF CancelMagnet, Command, Live, NotYetAdded, MagnetFlags, MagnetTypes
<1>8. OpenWhileResolving'
  BY DEF CancelMagnet, Command, Live, OpenWhileResolving, MagnetFlags, MagnetTypes
<1>9. AddedIsGenuine'
  BY DEF CancelMagnet, Command, Live, AddedIsGenuine, VerdictIsEarned, NotYetAdded, MagnetFlags
<1>10. BatchWithinLimits'
  <2>1. tries' = [s \in Sources |-> IF tries[s].at \in {"unused", "got"} THEN tries[s] ELSE Try("failed", 0)]
    BY DEF CancelMagnet
  <2>2. Try("failed", 0).at = "failed" /\ Unused.at = "unused"
    BY TryIs, UnusedIs
  <2>3. attempted' = attempted
    BY DEF CancelMagnet
  <2>4. Taken' \subseteq Taken /\ Working' \subseteq Working
    BY <2>1, <2>2 DEF Taken, Working
  <2>5. Taken \subseteq attempted
    BY DEF BatchWithinLimits, Taken
  <2> QED
    BY <2>3, <2>4, <2>5, LimitsKept
<1> QED
  BY <1>1, <1>2, <1>3, <1>4, <1>5, <1>6, <1>7, <1>8, <1>9, <1>10

(* The torrent is removed.                                                   *)
LEMMA RemoveMagnetTorrentKeeps ==
  ASSUME MagnetInv, RemoveMagnetTorrent
  PROVE  MagnetInv'
<1> USE DEF MagnetInv
<1>1. MagnetTypes'
  BY DEF RemoveMagnetTorrent, Command, fetching, MagnetTypes
<1>2. MagnetFlags'
  BY DEF RemoveMagnetTorrent, Command, fetching, MagnetFlags
<1>3. InterruptsAre'
  BY DEF RemoveMagnetTorrent, Command, fetching, InterruptsAre
<1>4. TriesAre'
  BY DEF RemoveMagnetTorrent, Command, fetching, TriesAre
<1>5. GotIsGenuine'
  BY DEF RemoveMagnetTorrent, Command, fetching, GotIsGenuine, TriesAre
<1>6. VerdictIsEarned'
  BY DEF RemoveMagnetTorrent, Command, fetching, VerdictIsEarned, GotIsGenuine, MagnetTypes
<1>7. NotYetAdded'
  BY DEF RemoveMagnetTorrent, Command, fetching, NotYetAdded, MagnetFlags, MagnetTypes
<1>8. OpenWhileResolving'
  BY DEF RemoveMagnetTorrent, Command, fetching, OpenWhileResolving, MagnetFlags, MagnetTypes
<1>9. AddedIsGenuine'
  BY DEF RemoveMagnetTorrent, Command, fetching, AddedIsGenuine, VerdictIsEarned, NotYetAdded,
     MagnetFlags
<1>10. BatchWithinLimits'
  <2>1. Taken' = Taken /\ Working' = Working /\ attempted' = attempted
    BY DEF RemoveMagnetTorrent, Command, fetching, Taken, Working, Unused, Try
  <2>2. Taken \subseteq attempted
    BY DEF BatchWithinLimits, Taken
  <2> QED
    BY <2>1, <2>2, LimitsKept
<1> QED
  BY <1>1, <1>2, <1>3, <1>4, <1>5, <1>6, <1>7, <1>8, <1>9, <1>10

(* The task runs for the first time.                                         *)
LEMMA BeginResolverKeeps ==
  ASSUME MagnetInv, BeginResolver
  PROVE  MagnetInv'
<1> USE DEF MagnetInv
<1>1. MagnetTypes'
  BY DEF BeginResolver, Ends, fetching, byOthers, MagnetTypes
<1>2. MagnetFlags'
  BY DEF BeginResolver, Ends, fetching, byOthers, MagnetFlags
<1>3. InterruptsAre'
  BY DEF BeginResolver, Ends, fetching, byOthers, InterruptsAre
<1>4. TriesAre'
  <2>1. genuine' = genuine /\ (UNCHANGED <<tries, attempted>> \/ tries' = [s \in Sources |-> Unused])
    BY DEF BeginResolver, byOthers, fetching
  <2>2. ASSUME UNCHANGED <<tries, attempted>> PROVE TriesAre'
    BY <2>1, <2>2 DEF TriesAre
  <2>3. ASSUME tries' = [s \in Sources |-> Unused] PROVE TriesAre'
    BY <2>3, NoTries
  <2> QED
    BY <2>1, <2>2, <2>3
<1>5. GotIsGenuine'
  <2>1. genuine' = genuine /\ (UNCHANGED <<tries, attempted>> \/ tries' = [s \in Sources |-> Unused])
    BY DEF BeginResolver, byOthers, fetching
  <2>2. ASSUME UNCHANGED <<tries, attempted>> PROVE GotIsGenuine'
    BY <2>1, <2>2 DEF GotIsGenuine, byOthers
  <2>3. ASSUME tries' = [s \in Sources |-> Unused] PROVE GotIsGenuine'
    BY <2>3, NoTries DEF GotIsGenuine
  <2> QED
    BY <2>1, <2>2, <2>3
<1>6. VerdictIsEarned'
  BY DEF BeginResolver, Ends, fetching, byOthers, VerdictIsEarned, GotIsGenuine, MagnetTypes
<1>7. NotYetAdded'
  BY DEF BeginResolver, Ends, fetching, byOthers, NotYetAdded, MagnetFlags, MagnetTypes
<1>8. OpenWhileResolving'
  BY DEF BeginResolver, Ends, fetching, byOthers, OpenWhileResolving, MagnetFlags, MagnetTypes
<1>9. AddedIsGenuine'
  BY DEF BeginResolver, Ends, fetching, byOthers, AddedIsGenuine, VerdictIsEarned, NotYetAdded,
     MagnetFlags
<1>10. BatchWithinLimits'
  <2>1. genuine' = genuine /\ (UNCHANGED <<tries, attempted>> \/ tries' = [s \in Sources |-> Unused])
    BY DEF BeginResolver, byOthers, fetching
  <2>2. ASSUME UNCHANGED <<tries, attempted>> PROVE BatchWithinLimits'
    BY <2>1, <2>2 DEF BatchWithinLimits, Working
  <2>3. ASSUME tries' = [s \in Sources |-> Unused] PROVE BatchWithinLimits'
    BY <2>3, NoTries, LimitsKept
  <2> QED
    BY <2>1, <2>2, <2>3
<1> QED
  BY <1>1, <1>2, <1>3, <1>4, <1>5, <1>6, <1>7, <1>8, <1>9, <1>10

(* A round has discovered sources, some of them new.                         *)
LEMMA DiscoveredKeeps ==
  ASSUME MagnetInv, Discovered
  PROVE  MagnetInv'
<1> USE DEF MagnetInv
<1>1. MagnetTypes'
  BY DEF Discovered, Fresh, TryBatch, Same, byOthers, MagnetTypes
<1>2. MagnetFlags'
  BY DEF Discovered, Fresh, TryBatch, Same, byOthers, MagnetFlags
<1>3. InterruptsAre'
  BY DEF Discovered, Fresh, TryBatch, Same, byOthers, InterruptsAre
<1>4. TriesAre'
  <2>1. ASSUME UNCHANGED <<attempted, tries>> PROVE TriesAre'
    BY <2>1 DEF TriesAre
  <2>2. ASSUME NEW heardOf \in SUBSET Sources, NEW taken \in SUBSET Fresh(heardOf),
               Cardinality(taken) <= MaxTried, attempted' = attempted \cup taken, TryBatch(taken)
        PROVE  TriesAre'
    <3>1. taken \in SUBSET Sources /\ taken \subseteq attempted'
      BY <2>2 DEF Fresh
    <3> QED
      BY <2>2, <3>1, BatchTries
  <2> QED
    BY <2>1, <2>2 DEF Discovered
<1>5. GotIsGenuine'
  <2>1. ASSUME UNCHANGED <<attempted, tries>> PROVE GotIsGenuine'
    BY <2>1 DEF GotIsGenuine, Discovered, Same, byOthers
  <2>2. ASSUME NEW heardOf \in SUBSET Sources, NEW taken \in SUBSET Fresh(heardOf),
               Cardinality(taken) <= MaxTried, attempted' = attempted \cup taken, TryBatch(taken)
        PROVE  GotIsGenuine'
    <3>1. taken \in SUBSET Sources /\ taken \subseteq attempted'
      BY <2>2 DEF Fresh
    <3> QED
      BY <2>2, <3>1, BatchTries DEF GotIsGenuine
  <2> QED
    BY <2>1, <2>2 DEF Discovered
<1>6. VerdictIsEarned'
  BY DEF Discovered, Fresh, TryBatch, Same, byOthers, VerdictIsEarned, GotIsGenuine, MagnetTypes
<1>7. NotYetAdded'
  BY DEF Discovered, Fresh, TryBatch, Same, byOthers, NotYetAdded, MagnetFlags, MagnetTypes
<1>8. OpenWhileResolving'
  BY DEF Discovered, Fresh, TryBatch, Same, byOthers, OpenWhileResolving, MagnetFlags, MagnetTypes
<1>9. AddedIsGenuine'
  BY DEF Discovered, Fresh, TryBatch, Same, byOthers, AddedIsGenuine, VerdictIsEarned, NotYetAdded,
     MagnetFlags
<1>10. BatchWithinLimits'
  <2>1. ASSUME UNCHANGED <<attempted, tries>> PROVE BatchWithinLimits'
    BY <2>1 DEF BatchWithinLimits, Working
  <2>2. ASSUME NEW heardOf \in SUBSET Sources, NEW taken \in SUBSET Fresh(heardOf),
               Cardinality(taken) <= MaxTried, attempted' = attempted \cup taken, TryBatch(taken)
        PROVE  BatchWithinLimits'
    <3>1. taken \in SUBSET Sources /\ taken \subseteq attempted'
      BY <2>2 DEF Fresh
    <3> QED
      BY <2>2, <3>1, BatchStarts
  <2> QED
    BY <2>1, <2>2 DEF Discovered
<1> QED
  BY <1>1, <1>2, <1>3, <1>4, <1>5, <1>6, <1>7, <1>8, <1>9, <1>10

(* The pause between two rounds is over.                                     *)
LEMMA NextRoundKeeps ==
  ASSUME MagnetInv, NextRound
  PROVE  MagnetInv'
<1> USE DEF MagnetInv
<1>1. MagnetTypes'
  BY DEF NextRound, fetching, Same, byOthers, MagnetTypes
<1>2. MagnetFlags'
  BY DEF NextRound, fetching, Same, byOthers, MagnetFlags
<1>3. InterruptsAre'
  BY DEF NextRound, fetching, Same, byOthers, InterruptsAre
<1>4. TriesAre'
  BY DEF NextRound, fetching, Same, byOthers, TriesAre
<1>5. GotIsGenuine'
  BY DEF NextRound, fetching, Same, byOthers, GotIsGenuine, TriesAre
<1>6. VerdictIsEarned'
  BY DEF NextRound, fetching, Same, byOthers, VerdictIsEarned, GotIsGenuine, MagnetTypes
<1>7. NotYetAdded'
  BY DEF NextRound, fetching, Same, byOthers, NotYetAdded, MagnetFlags, MagnetTypes
<1>8. OpenWhileResolving'
  BY DEF NextRound, fetching, Same, byOthers, OpenWhileResolving, MagnetFlags, MagnetTypes
<1>9. AddedIsGenuine'
  BY DEF NextRound, fetching, Same, byOthers, AddedIsGenuine, VerdictIsEarned, NotYetAdded,
     MagnetFlags
<1>10. BatchWithinLimits'
  <2>1. Taken' = Taken /\ Working' = Working /\ attempted' = attempted
    BY DEF NextRound, fetching, Same, byOthers, Taken, Working, Unused, Try
  <2>2. Taken \subseteq attempted
    BY DEF BatchWithinLimits, Taken
  <2> QED
    BY <2>1, <2>2, LimitsKept
<1> QED
  BY <1>1, <1>2, <1>3, <1>4, <1>5, <1>6, <1>7, <1>8, <1>9, <1>10

(* The time of resolve() is over.                                            *)
LEMMA DeadlineOverKeeps ==
  ASSUME MagnetInv, DeadlineOver
  PROVE  MagnetInv'
<1> USE DEF MagnetInv
<1>1. MagnetTypes'
  BY DEF DeadlineOver, Leave, fetching, Same, byOthers, MagnetTypes
<1>2. MagnetFlags'
  BY DEF DeadlineOver, Leave, fetching, Same, byOthers, MagnetFlags
<1>3. InterruptsAre'
  BY DEF DeadlineOver, Leave, fetching, Same, byOthers, InterruptsAre
<1>4. TriesAre'
  BY DEF DeadlineOver, Leave, fetching, Same, byOthers, TriesAre
<1>5. GotIsGenuine'
  BY DEF DeadlineOver, Leave, fetching, Same, byOthers, GotIsGenuine, TriesAre
<1>6. VerdictIsEarned'
  BY DEF DeadlineOver, Leave, fetching, Same, byOthers, VerdictIsEarned, GotIsGenuine, MagnetTypes
<1>7. NotYetAdded'
  BY DEF DeadlineOver, Leave, fetching, Same, byOthers, NotYetAdded, MagnetFlags, MagnetTypes
<1>8. OpenWhileResolving'
  BY DEF DeadlineOver, Leave, fetching, Same, byOthers, OpenWhileResolving, MagnetFlags, MagnetTypes
<1>9. AddedIsGenuine'
  BY DEF DeadlineOver, Leave, fetching, Same, byOthers, AddedIsGenuine, VerdictIsEarned,
     NotYetAdded, MagnetFlags
<1>10. BatchWithinLimits'
  <2>1. Taken' = Taken /\ Working' = Working /\ attempted' = attempted
    BY DEF DeadlineOver, Leave, fetching, Same, byOthers, Taken, Working, Unused, Try
  <2>2. Taken \subseteq attempted
    BY DEF BatchWithinLimits, Taken
  <2> QED
    BY <2>1, <2>2, LimitsKept
<1> QED
  BY <1>1, <1>2, <1>3, <1>4, <1>5, <1>6, <1>7, <1>8, <1>9, <1>10

(* The first metadata ends a batch, or nobody is left to try.                *)
LEMMA BatchEndsKeeps ==
  ASSUME MagnetInv, BatchEnds
  PROVE  MagnetInv'
<1> USE DEF MagnetInv
<1>1. MagnetTypes'
  BY DEF BatchEnds, Leave, Same, byOthers, MagnetTypes
<1>2. MagnetFlags'
  BY DEF BatchEnds, Leave, Same, byOthers, MagnetFlags
<1>3. InterruptsAre'
  BY DEF BatchEnds, Leave, Same, byOthers, InterruptsAre
<1>4. TriesAre'
  BY NoTries DEF BatchEnds
<1>5. GotIsGenuine'
  BY NoTries DEF BatchEnds, GotIsGenuine
<1>6. VerdictIsEarned'
  BY DEF BatchEnds, Leave, Same, byOthers, VerdictIsEarned, GotIsGenuine, MagnetTypes
<1>7. NotYetAdded'
  BY DEF BatchEnds, Leave, Same, byOthers, NotYetAdded, MagnetFlags, MagnetTypes
<1>8. OpenWhileResolving'
  BY DEF BatchEnds, Leave, Same, byOthers, OpenWhileResolving, MagnetFlags, MagnetTypes
<1>9. AddedIsGenuine'
  BY DEF BatchEnds, Leave, Same, byOthers, AddedIsGenuine, VerdictIsEarned, NotYetAdded, MagnetFlags
<1>10. BatchWithinLimits'
  BY NoTries, LimitsKept DEF BatchEnds
<1> QED
  BY <1>1, <1>2, <1>3, <1>4, <1>5, <1>6, <1>7, <1>8, <1>9, <1>10

(* A cancellation arrives at an await, perhaps of the finally.               *)
LEMMA InterruptedKeeps ==
  ASSUME MagnetInv, Interrupted
  PROVE  MagnetInv'
<1> USE DEF MagnetInv
<1>1. MagnetTypes'
  BY DEF Interrupted, Leave, byOthers, MagnetTypes
<1>2. MagnetFlags'
  BY DEF Interrupted, Leave, byOthers, MagnetFlags
<1>3. InterruptsAre'
  BY DEF Interrupted, Leave, byOthers, InterruptsAre
<1>4. TriesAre'
  BY NoTries DEF Interrupted
<1>5. GotIsGenuine'
  BY NoTries DEF Interrupted, GotIsGenuine
<1>6. VerdictIsEarned'
  BY DEF Interrupted, Leave, byOthers, VerdictIsEarned, GotIsGenuine, MagnetTypes
<1>7. NotYetAdded'
  BY DEF Interrupted, Leave, byOthers, NotYetAdded, MagnetFlags, MagnetTypes
<1>8. OpenWhileResolving'
  BY DEF Interrupted, Leave, byOthers, OpenWhileResolving, MagnetFlags, MagnetTypes
<1>9. AddedIsGenuine'
  BY DEF Interrupted, Leave, byOthers, AddedIsGenuine, VerdictIsEarned, NotYetAdded, MagnetFlags
<1>10. BatchWithinLimits'
  BY NoTries, LimitsKept DEF Interrupted
<1> QED
  BY <1>1, <1>2, <1>3, <1>4, <1>5, <1>6, <1>7, <1>8, <1>9, <1>10

(* The finally closes the sockets.                                           *)
LEMMA CloseLookupsKeeps ==
  ASSUME MagnetInv, CloseLookups
  PROVE  MagnetInv'
<1> USE DEF MagnetInv
<1>1. MagnetTypes'
  BY DEF CloseLookups, Same, byOthers, MagnetTypes
<1>2. MagnetFlags'
  BY DEF CloseLookups, Same, byOthers, MagnetFlags
<1>3. InterruptsAre'
  BY DEF CloseLookups, Same, byOthers, InterruptsAre
<1>4. TriesAre'
  BY DEF CloseLookups, Same, byOthers, TriesAre
<1>5. GotIsGenuine'
  BY DEF CloseLookups, Same, byOthers, GotIsGenuine, TriesAre
<1>6. VerdictIsEarned'
  BY DEF CloseLookups, Same, byOthers, VerdictIsEarned, GotIsGenuine, MagnetTypes
<1>7. NotYetAdded'
  BY DEF CloseLookups, Same, byOthers, NotYetAdded, MagnetFlags, MagnetTypes
<1>8. OpenWhileResolving'
  BY DEF CloseLookups, Same, byOthers, OpenWhileResolving, MagnetFlags, MagnetTypes
<1>9. AddedIsGenuine'
  BY DEF CloseLookups, Same, byOthers, AddedIsGenuine, VerdictIsEarned, NotYetAdded, MagnetFlags
<1>10. BatchWithinLimits'
  <2>1. Taken' = Taken /\ Working' = Working /\ attempted' = attempted
    BY DEF CloseLookups, Same, byOthers, Taken, Working, Unused, Try
  <2>2. Taken \subseteq attempted
    BY DEF BatchWithinLimits, Taken
  <2> QED
    BY <2>1, <2>2, LimitsKept
<1> QED
  BY <1>1, <1>2, <1>3, <1>4, <1>5, <1>6, <1>7, <1>8, <1>9, <1>10

(* The torrent is added, unless the resolution failed or was cancelled.      *)
LEMMA FinishedKeeps ==
  ASSUME MagnetInv, Finished
  PROVE  MagnetInv'
<1> USE DEF MagnetInv
<1>1. MagnetTypes'
  BY DEF Finished, Ends, byOthers, fetching, MagnetTypes
<1>2. MagnetFlags'
  BY DEF Finished, Ends, byOthers, fetching, MagnetFlags
<1>3. InterruptsAre'
  BY DEF Finished, Ends, byOthers, fetching, InterruptsAre
<1>4. TriesAre'
  BY DEF Finished, Ends, byOthers, fetching, TriesAre
<1>5. GotIsGenuine'
  BY DEF Finished, Ends, byOthers, fetching, GotIsGenuine, TriesAre
<1>6. VerdictIsEarned'
  BY DEF Finished, Ends, byOthers, fetching, VerdictIsEarned, GotIsGenuine, MagnetTypes
<1>7. NotYetAdded'
  BY DEF Finished, Ends, byOthers, fetching, NotYetAdded, MagnetFlags, MagnetTypes
<1>8. OpenWhileResolving'
  BY DEF Finished, Ends, byOthers, fetching, OpenWhileResolving, MagnetFlags, MagnetTypes
<1>9. AddedIsGenuine'
  BY DEF Finished, Ends, byOthers, fetching, AddedIsGenuine, VerdictIsEarned, NotYetAdded,
     MagnetFlags
<1>10. BatchWithinLimits'
  <2>1. Taken' = Taken /\ Working' = Working /\ attempted' = attempted
    BY DEF Finished, Ends, byOthers, fetching, Taken, Working, Unused, Try
  <2>2. Taken \subseteq attempted
    BY DEF BatchWithinLimits, Taken
  <2> QED
    BY <2>1, <2>2, LimitsKept
<1> QED
  BY <1>1, <1>2, <1>3, <1>4, <1>5, <1>6, <1>7, <1>8, <1>9, <1>10

(* Time passes.                                                              *)
LEMMA TimePassesKeeps ==
  ASSUME MagnetInv, TimePasses
  PROVE  MagnetInv'
<1> USE DEF MagnetInv
<1>1. MagnetTypes'
  BY DEF TimePasses, fetching, Same, byOthers, MagnetTypes
<1>2. MagnetFlags'
  BY DEF TimePasses, fetching, Same, byOthers, MagnetFlags
<1>3. InterruptsAre'
  BY DEF TimePasses, fetching, Same, byOthers, InterruptsAre
<1>4. TriesAre'
  BY DEF TimePasses, fetching, Same, byOthers, TriesAre
<1>5. GotIsGenuine'
  BY DEF TimePasses, fetching, Same, byOthers, GotIsGenuine, TriesAre
<1>6. VerdictIsEarned'
  BY DEF TimePasses, fetching, Same, byOthers, VerdictIsEarned, GotIsGenuine, MagnetTypes
<1>7. NotYetAdded'
  BY DEF TimePasses, fetching, Same, byOthers, NotYetAdded, MagnetFlags, MagnetTypes
<1>8. OpenWhileResolving'
  BY DEF TimePasses, fetching, Same, byOthers, OpenWhileResolving, MagnetFlags, MagnetTypes
<1>9. AddedIsGenuine'
  BY DEF TimePasses, fetching, Same, byOthers, AddedIsGenuine, VerdictIsEarned, NotYetAdded,
     MagnetFlags
<1>10. BatchWithinLimits'
  <2>1. Taken' = Taken /\ Working' = Working /\ attempted' = attempted
    BY DEF TimePasses, fetching, Same, byOthers, Taken, Working, Unused, Try
  <2>2. Taken \subseteq attempted
    BY DEF BatchWithinLimits, Taken
  <2> QED
    BY <2>1, <2>2, LimitsKept
<1> QED
  BY <1>1, <1>2, <1>3, <1>4, <1>5, <1>6, <1>7, <1>8, <1>9, <1>10

(* Sources on the local network are heard of in the pause.                   *)
LEMMA LanPeersKeeps ==
  ASSUME MagnetInv, LanPeers
  PROVE  MagnetInv'
<1> USE DEF MagnetInv
<1>1. MagnetTypes'
  BY DEF LanPeers, Fresh, TryBatch, Same, byOthers, MagnetTypes
<1>2. MagnetFlags'
  BY DEF LanPeers, Fresh, TryBatch, Same, byOthers, MagnetFlags
<1>3. InterruptsAre'
  BY DEF LanPeers, Fresh, TryBatch, Same, byOthers, InterruptsAre
<1>4. TriesAre'
  BY BatchTries DEF LanPeers, Fresh
<1>5. GotIsGenuine'
  BY BatchTries DEF LanPeers, Fresh, GotIsGenuine
<1>6. VerdictIsEarned'
  BY DEF LanPeers, Fresh, TryBatch, Same, byOthers, VerdictIsEarned, GotIsGenuine, MagnetTypes
<1>7. NotYetAdded'
  BY DEF LanPeers, Fresh, TryBatch, Same, byOthers, NotYetAdded, MagnetFlags, MagnetTypes
<1>8. OpenWhileResolving'
  BY DEF LanPeers, Fresh, TryBatch, Same, byOthers, OpenWhileResolving, MagnetFlags, MagnetTypes
<1>9. AddedIsGenuine'
  BY DEF LanPeers, Fresh, TryBatch, Same, byOthers, AddedIsGenuine, VerdictIsEarned, NotYetAdded,
     MagnetFlags
<1>10. BatchWithinLimits'
  <2>1. PICK heardOf \in SUBSET Sources : \E taken \in SUBSET Fresh(heardOf) :
          /\ Cardinality(taken) \in 1 .. MaxTried
          /\ attempted' = attempted \cup Fresh(heardOf) /\ TryBatch(taken)
    BY DEF LanPeers
  <2>11. PICK taken \in SUBSET Fresh(heardOf) :
          /\ Cardinality(taken) \in 1 .. MaxTried
          /\ attempted' = attempted \cup Fresh(heardOf) /\ TryBatch(taken)
    BY <2>1
  <2>2. Cardinality(taken) <= MaxTried /\ taken \subseteq attempted' /\ taken \in SUBSET Sources
    BY <2>11, MagnetAssumption DEF Fresh
  <2> QED
    BY <2>11, <2>2, BatchStarts
<1> QED
  BY <1>1, <1>2, <1>3, <1>4, <1>5, <1>6, <1>7, <1>8, <1>9, <1>10

(* The bound address is gone.                                                *)
LEMMA AddressGoneKeeps ==
  ASSUME MagnetInv, AddressGone
  PROVE  MagnetInv'
<1> USE DEF MagnetInv
<1>1. MagnetTypes'
  BY DEF AddressGone, Leave, fetching, Same, byOthers, MagnetTypes
<1>2. MagnetFlags'
  BY DEF AddressGone, Leave, fetching, Same, byOthers, MagnetFlags
<1>3. InterruptsAre'
  BY DEF AddressGone, Leave, fetching, Same, byOthers, InterruptsAre
<1>4. TriesAre'
  BY DEF AddressGone, Leave, fetching, Same, byOthers, TriesAre
<1>5. GotIsGenuine'
  BY DEF AddressGone, Leave, fetching, Same, byOthers, GotIsGenuine, TriesAre
<1>6. VerdictIsEarned'
  BY DEF AddressGone, Leave, fetching, Same, byOthers, VerdictIsEarned, GotIsGenuine, MagnetTypes
<1>7. NotYetAdded'
  BY DEF AddressGone, Leave, fetching, Same, byOthers, NotYetAdded, MagnetFlags, MagnetTypes
<1>8. OpenWhileResolving'
  BY DEF AddressGone, Leave, fetching, Same, byOthers, OpenWhileResolving, MagnetFlags, MagnetTypes
<1>9. AddedIsGenuine'
  BY DEF AddressGone, Leave, fetching, Same, byOthers, AddedIsGenuine, VerdictIsEarned, NotYetAdded,
     MagnetFlags
<1>10. BatchWithinLimits'
  <2>1. Taken' = Taken /\ Working' = Working /\ attempted' = attempted
    BY DEF AddressGone, Leave, fetching, Same, byOthers, Taken, Working, Unused, Try
  <2>2. Taken \subseteq attempted
    BY DEF BatchWithinLimits, Taken
  <2> QED
    BY <2>1, <2>2, LimitsKept
<1> QED
  BY <1>1, <1>2, <1>3, <1>4, <1>5, <1>6, <1>7, <1>8, <1>9, <1>10

(* A source is connected to, as far as the semaphore lets it.                *)
LEMMA ConnectSourceKeeps ==
  ASSUME MagnetInv, NEW s \in Sources, ConnectSource(s)
  PROVE  MagnetInv'
<1> USE DEF MagnetInv
<1>1. MagnetTypes'
  BY DEF ConnectSource, Becomes, Same, byOthers, MagnetTypes
<1>2. MagnetFlags'
  BY DEF ConnectSource, Becomes, Same, byOthers, MagnetFlags
<1>3. InterruptsAre'
  BY DEF ConnectSource, Becomes, Same, byOthers, InterruptsAre
<1>4. TriesAre'
  <2>1. PICK at, pieces : at = ("fetching") /\ pieces = 0
    OBVIOUS
  <2>2. at \in {"fetching", "failed", "got"} /\ (at = "got" => s \in genuine)
    BY <2>1 DEF Matches
  <2>3. pieces \in 0 .. MetadataPieces
    BY <2>1, MagnetAssumption DEF ConnectSource, Working, TriesAre
  <2>4. /\ tries[s].at \in {"waiting", "fetching"} /\ Becomes(s, at, pieces)
        /\ (at = "fetching" /\ tries[s].at = "waiting" => Cardinality(Working) < Parallel)
    BY <2>1 DEF ConnectSource, Working
  <2> QED
    BY <2>2, <2>3, <2>4, OneTry
<1>5. GotIsGenuine'
  <2>1. PICK at, pieces : at = ("fetching") /\ pieces = 0
    OBVIOUS
  <2>2. at \in {"fetching", "failed", "got"} /\ (at = "got" => s \in genuine)
    BY <2>1 DEF Matches
  <2>3. pieces \in 0 .. MetadataPieces
    BY <2>1, MagnetAssumption DEF ConnectSource, Working, TriesAre
  <2>4. /\ tries[s].at \in {"waiting", "fetching"} /\ Becomes(s, at, pieces)
        /\ (at = "fetching" /\ tries[s].at = "waiting" => Cardinality(Working) < Parallel)
    BY <2>1 DEF ConnectSource, Working
  <2>5. tries'[s].at = at /\ \A q \in Sources \ {s} : tries'[q] = tries[q]
    BY <2>2, <2>3, <2>4, OneTry
  <2>6. genuine' = genuine
    BY <2>4 DEF Becomes, Same, byOthers
  <2> QED
    BY <2>2, <2>5, <2>6 DEF GotIsGenuine
<1>6. VerdictIsEarned'
  BY DEF ConnectSource, Becomes, Same, byOthers, VerdictIsEarned, GotIsGenuine, MagnetTypes
<1>7. NotYetAdded'
  BY DEF ConnectSource, Becomes, Same, byOthers, NotYetAdded, MagnetFlags, MagnetTypes
<1>8. OpenWhileResolving'
  BY DEF ConnectSource, Becomes, Same, byOthers, OpenWhileResolving, MagnetFlags, MagnetTypes
<1>9. AddedIsGenuine'
  BY DEF ConnectSource, Becomes, Same, byOthers, AddedIsGenuine, VerdictIsEarned, NotYetAdded,
     MagnetFlags
<1>10. BatchWithinLimits'
  <2>1. PICK at, pieces : at = ("fetching") /\ pieces = 0
    OBVIOUS
  <2>2. at \in {"fetching", "failed", "got"} /\ (at = "got" => s \in genuine)
    BY <2>1 DEF Matches
  <2>3. pieces \in 0 .. MetadataPieces
    BY <2>1, MagnetAssumption DEF ConnectSource, Working, TriesAre
  <2>4. /\ tries[s].at \in {"waiting", "fetching"} /\ Becomes(s, at, pieces)
        /\ (at = "fetching" /\ tries[s].at = "waiting" => Cardinality(Working) < Parallel)
    BY <2>1 DEF ConnectSource, Working
  <2> QED
    BY <2>2, <2>3, <2>4, OneTry
<1> QED
  BY <1>1, <1>2, <1>3, <1>4, <1>5, <1>6, <1>7, <1>8, <1>9, <1>10

(* A source fails, or is too slow.                                           *)
LEMMA SourceFailsKeeps ==
  ASSUME MagnetInv, NEW s \in Sources, SourceFails(s)
  PROVE  MagnetInv'
<1> USE DEF MagnetInv
<1>1. MagnetTypes'
  BY DEF SourceFails, Becomes, Same, byOthers, MagnetTypes
<1>2. MagnetFlags'
  BY DEF SourceFails, Becomes, Same, byOthers, MagnetFlags
<1>3. InterruptsAre'
  BY DEF SourceFails, Becomes, Same, byOthers, InterruptsAre
<1>4. TriesAre'
  <2>1. PICK at, pieces : at = ("failed") /\ pieces = 0
    OBVIOUS
  <2>2. at \in {"fetching", "failed", "got"} /\ (at = "got" => s \in genuine)
    BY <2>1 DEF Matches
  <2>3. pieces \in 0 .. MetadataPieces
    BY <2>1, MagnetAssumption DEF SourceFails, Working, TriesAre
  <2>4. /\ tries[s].at \in {"waiting", "fetching"} /\ Becomes(s, at, pieces)
        /\ (at = "fetching" /\ tries[s].at = "waiting" => Cardinality(Working) < Parallel)
    BY <2>1 DEF SourceFails, Working
  <2> QED
    BY <2>2, <2>3, <2>4, OneTry
<1>5. GotIsGenuine'
  <2>1. PICK at, pieces : at = ("failed") /\ pieces = 0
    OBVIOUS
  <2>2. at \in {"fetching", "failed", "got"} /\ (at = "got" => s \in genuine)
    BY <2>1 DEF Matches
  <2>3. pieces \in 0 .. MetadataPieces
    BY <2>1, MagnetAssumption DEF SourceFails, Working, TriesAre
  <2>4. /\ tries[s].at \in {"waiting", "fetching"} /\ Becomes(s, at, pieces)
        /\ (at = "fetching" /\ tries[s].at = "waiting" => Cardinality(Working) < Parallel)
    BY <2>1 DEF SourceFails, Working
  <2>5. tries'[s].at = at /\ \A q \in Sources \ {s} : tries'[q] = tries[q]
    BY <2>2, <2>3, <2>4, OneTry
  <2>6. genuine' = genuine
    BY <2>4 DEF Becomes, Same, byOthers
  <2> QED
    BY <2>2, <2>5, <2>6 DEF GotIsGenuine
<1>6. VerdictIsEarned'
  BY DEF SourceFails, Becomes, Same, byOthers, VerdictIsEarned, GotIsGenuine, MagnetTypes
<1>7. NotYetAdded'
  BY DEF SourceFails, Becomes, Same, byOthers, NotYetAdded, MagnetFlags, MagnetTypes
<1>8. OpenWhileResolving'
  BY DEF SourceFails, Becomes, Same, byOthers, OpenWhileResolving, MagnetFlags, MagnetTypes
<1>9. AddedIsGenuine'
  BY DEF SourceFails, Becomes, Same, byOthers, AddedIsGenuine, VerdictIsEarned, NotYetAdded,
     MagnetFlags
<1>10. BatchWithinLimits'
  <2>1. PICK at, pieces : at = ("failed") /\ pieces = 0
    OBVIOUS
  <2>2. at \in {"fetching", "failed", "got"} /\ (at = "got" => s \in genuine)
    BY <2>1 DEF Matches
  <2>3. pieces \in 0 .. MetadataPieces
    BY <2>1, MagnetAssumption DEF SourceFails, Working, TriesAre
  <2>4. /\ tries[s].at \in {"waiting", "fetching"} /\ Becomes(s, at, pieces)
        /\ (at = "fetching" /\ tries[s].at = "waiting" => Cardinality(Working) < Parallel)
    BY <2>1 DEF SourceFails, Working
  <2> QED
    BY <2>2, <2>3, <2>4, OneTry
<1> QED
  BY <1>1, <1>2, <1>3, <1>4, <1>5, <1>6, <1>7, <1>8, <1>9, <1>10

(* The pieces are complete: they have the hash, or are given up.             *)
LEMMA MetadataCompleteKeeps ==
  ASSUME MagnetInv, NEW s \in Sources, MetadataComplete(s)
  PROVE  MagnetInv'
<1> USE DEF MagnetInv
<1>1. MagnetTypes'
  BY DEF MetadataComplete, Becomes, Matches, Same, byOthers, MagnetTypes
<1>2. MagnetFlags'
  BY DEF MetadataComplete, Becomes, Matches, Same, byOthers, MagnetFlags
<1>3. InterruptsAre'
  BY DEF MetadataComplete, Becomes, Matches, Same, byOthers, InterruptsAre
<1>4. TriesAre'
  <2>1. PICK at, pieces : at = (IF Matches(s) THEN "got" ELSE "failed") /\ pieces = 0
    OBVIOUS
  <2>2. at \in {"fetching", "failed", "got"} /\ (at = "got" => s \in genuine)
    BY <2>1 DEF Matches
  <2>3. pieces \in 0 .. MetadataPieces
    BY <2>1, MagnetAssumption DEF MetadataComplete, Working, TriesAre
  <2>4. /\ tries[s].at \in {"waiting", "fetching"} /\ Becomes(s, at, pieces)
        /\ (at = "fetching" /\ tries[s].at = "waiting" => Cardinality(Working) < Parallel)
    BY <2>1 DEF MetadataComplete, Working
  <2> QED
    BY <2>2, <2>3, <2>4, OneTry
<1>5. GotIsGenuine'
  <2>1. PICK at, pieces : at = (IF Matches(s) THEN "got" ELSE "failed") /\ pieces = 0
    OBVIOUS
  <2>2. at \in {"fetching", "failed", "got"} /\ (at = "got" => s \in genuine)
    BY <2>1 DEF Matches
  <2>3. pieces \in 0 .. MetadataPieces
    BY <2>1, MagnetAssumption DEF MetadataComplete, Working, TriesAre
  <2>4. /\ tries[s].at \in {"waiting", "fetching"} /\ Becomes(s, at, pieces)
        /\ (at = "fetching" /\ tries[s].at = "waiting" => Cardinality(Working) < Parallel)
    BY <2>1 DEF MetadataComplete, Working
  <2>5. tries'[s].at = at /\ \A q \in Sources \ {s} : tries'[q] = tries[q]
    BY <2>2, <2>3, <2>4, OneTry
  <2>6. genuine' = genuine
    BY <2>4 DEF Becomes, Same, byOthers
  <2> QED
    BY <2>2, <2>5, <2>6 DEF GotIsGenuine
<1>6. VerdictIsEarned'
  BY DEF MetadataComplete, Becomes, Matches, Same, byOthers, VerdictIsEarned, GotIsGenuine,
     MagnetTypes
<1>7. NotYetAdded'
  BY DEF MetadataComplete, Becomes, Matches, Same, byOthers, NotYetAdded, MagnetFlags, MagnetTypes
<1>8. OpenWhileResolving'
  BY DEF MetadataComplete, Becomes, Matches, Same, byOthers, OpenWhileResolving, MagnetFlags,
     MagnetTypes
<1>9. AddedIsGenuine'
  BY DEF MetadataComplete, Becomes, Matches, Same, byOthers, AddedIsGenuine, VerdictIsEarned,
     NotYetAdded, MagnetFlags
<1>10. BatchWithinLimits'
  <2>1. PICK at, pieces : at = (IF Matches(s) THEN "got" ELSE "failed") /\ pieces = 0
    OBVIOUS
  <2>2. at \in {"fetching", "failed", "got"} /\ (at = "got" => s \in genuine)
    BY <2>1 DEF Matches
  <2>3. pieces \in 0 .. MetadataPieces
    BY <2>1, MagnetAssumption DEF MetadataComplete, Working, TriesAre
  <2>4. /\ tries[s].at \in {"waiting", "fetching"} /\ Becomes(s, at, pieces)
        /\ (at = "fetching" /\ tries[s].at = "waiting" => Cardinality(Working) < Parallel)
    BY <2>1 DEF MetadataComplete, Working
  <2> QED
    BY <2>2, <2>3, <2>4, OneTry
<1> QED
  BY <1>1, <1>2, <1>3, <1>4, <1>5, <1>6, <1>7, <1>8, <1>9, <1>10

(* A piece has come.                                                         *)
LEMMA MetadataPieceKeeps ==
  ASSUME MagnetInv, NEW s \in Sources, MetadataPiece(s)
  PROVE  MagnetInv'
<1> USE DEF MagnetInv
<1>1. MagnetTypes'
  BY DEF MetadataPiece, Becomes, Same, byOthers, MagnetTypes
<1>2. MagnetFlags'
  BY DEF MetadataPiece, Becomes, Same, byOthers, MagnetFlags
<1>3. InterruptsAre'
  BY DEF MetadataPiece, Becomes, Same, byOthers, InterruptsAre
<1>4. TriesAre'
  <2>1. PICK at, pieces : at = ("fetching") /\ pieces = tries[s].pieces + 1
    OBVIOUS
  <2>2. at \in {"fetching", "failed", "got"} /\ (at = "got" => s \in genuine)
    BY <2>1 DEF Matches
  <2>3. pieces \in 0 .. MetadataPieces
    BY <2>1, MagnetAssumption DEF MetadataPiece, Working, TriesAre
  <2>4. /\ tries[s].at \in {"waiting", "fetching"} /\ Becomes(s, at, pieces)
        /\ (at = "fetching" /\ tries[s].at = "waiting" => Cardinality(Working) < Parallel)
    BY <2>1 DEF MetadataPiece, Working
  <2> QED
    BY <2>2, <2>3, <2>4, OneTry
<1>5. GotIsGenuine'
  <2>1. PICK at, pieces : at = ("fetching") /\ pieces = tries[s].pieces + 1
    OBVIOUS
  <2>2. at \in {"fetching", "failed", "got"} /\ (at = "got" => s \in genuine)
    BY <2>1 DEF Matches
  <2>3. pieces \in 0 .. MetadataPieces
    BY <2>1, MagnetAssumption DEF MetadataPiece, Working, TriesAre
  <2>4. /\ tries[s].at \in {"waiting", "fetching"} /\ Becomes(s, at, pieces)
        /\ (at = "fetching" /\ tries[s].at = "waiting" => Cardinality(Working) < Parallel)
    BY <2>1 DEF MetadataPiece, Working
  <2>5. tries'[s].at = at /\ \A q \in Sources \ {s} : tries'[q] = tries[q]
    BY <2>2, <2>3, <2>4, OneTry
  <2>6. genuine' = genuine
    BY <2>4 DEF Becomes, Same, byOthers
  <2> QED
    BY <2>2, <2>5, <2>6 DEF GotIsGenuine
<1>6. VerdictIsEarned'
  BY DEF MetadataPiece, Becomes, Same, byOthers, VerdictIsEarned, GotIsGenuine, MagnetTypes
<1>7. NotYetAdded'
  BY DEF MetadataPiece, Becomes, Same, byOthers, NotYetAdded, MagnetFlags, MagnetTypes
<1>8. OpenWhileResolving'
  BY DEF MetadataPiece, Becomes, Same, byOthers, OpenWhileResolving, MagnetFlags, MagnetTypes
<1>9. AddedIsGenuine'
  BY DEF MetadataPiece, Becomes, Same, byOthers, AddedIsGenuine, VerdictIsEarned, NotYetAdded,
     MagnetFlags
<1>10. BatchWithinLimits'
  <2>1. PICK at, pieces : at = ("fetching") /\ pieces = tries[s].pieces + 1
    OBVIOUS
  <2>2. at \in {"fetching", "failed", "got"} /\ (at = "got" => s \in genuine)
    BY <2>1 DEF Matches
  <2>3. pieces \in 0 .. MetadataPieces
    BY <2>1, MagnetAssumption DEF MetadataPiece, Working, TriesAre
  <2>4. /\ tries[s].at \in {"waiting", "fetching"} /\ Becomes(s, at, pieces)
        /\ (at = "fetching" /\ tries[s].at = "waiting" => Cardinality(Working) < Parallel)
    BY <2>1 DEF MetadataPiece, Working
  <2> QED
    BY <2>2, <2>3, <2>4, OneTry
<1> QED
  BY <1>1, <1>2, <1>3, <1>4, <1>5, <1>6, <1>7, <1>8, <1>9, <1>10

(* Every step of the task, of its sources and of the manager keeps the       *)
(* invariant.                                                                *)
LEMMA MagnetInvNext ==
  ASSUME MagnetInv, [MagnetNext]_magnetVars
  PROVE  MagnetInv'
<1>1. CASE AddMagnet
  BY <1>1, AddMagnetKeeps
<1>2. CASE CancelMagnet
  BY <1>2, CancelMagnetKeeps
<1>3. CASE RemoveMagnetTorrent
  BY <1>3, RemoveMagnetTorrentKeeps
<1>4. CASE BeginResolver
  BY <1>4, BeginResolverKeeps
<1>5. CASE Discovered
  BY <1>5, DiscoveredKeeps
<1>6. CASE NextRound
  BY <1>6, NextRoundKeeps
<1>7. CASE DeadlineOver
  BY <1>7, DeadlineOverKeeps
<1>8. CASE BatchEnds
  BY <1>8, BatchEndsKeeps
<1>9. CASE Interrupted
  BY <1>9, InterruptedKeeps
<1>10. CASE CloseLookups
  BY <1>10, CloseLookupsKeeps
<1>11. CASE Finished
  BY <1>11, FinishedKeeps
<1>12. CASE TimePasses
  BY <1>12, TimePassesKeeps
<1>13. CASE LanPeers
  BY <1>13, LanPeersKeeps
<1>14. CASE AddressGone
  BY <1>14, AddressGoneKeeps
<1>15. ASSUME NEW s \in Sources, ConnectSource(s) PROVE MagnetInv'
  BY <1>15, ConnectSourceKeeps
<1>16. ASSUME NEW s \in Sources, SourceFails(s) PROVE MagnetInv'
  BY <1>16, SourceFailsKeeps
<1>17. ASSUME NEW s \in Sources, MetadataComplete(s) PROVE MagnetInv'
  BY <1>17, MetadataCompleteKeeps
<1>18. ASSUME NEW s \in Sources, MetadataPiece(s) PROVE MagnetInv'
  BY <1>18, MetadataPieceKeeps
<1>19. CASE UNCHANGED magnetVars
  BY <1>19 DEF magnetVars, fetching, byOthers, MagnetInv, Working, MagnetTypes, MagnetFlags,
     InterruptsAre, TriesAre, GotIsGenuine, VerdictIsEarned, NotYetAdded, OpenWhileResolving,
     AddedIsGenuine, BatchWithinLimits
<1> QED
  BY <1>1, <1>2, <1>3, <1>4, <1>5, <1>6, <1>7, <1>8, <1>9, <1>10, <1>11, <1>12, <1>13, <1>14, <1>15,
     <1>16, <1>17, <1>18, <1>19 DEF MagnetNext, FetchStep

(* Nothing is being resolved.                                                *)
LEMMA MagnetInvInit == MagnetInit => MagnetInv
<1> SUFFICES ASSUME MagnetInit PROVE MagnetInv
  OBVIOUS
<1>1. MagnetTypes /\ InterruptsAre
  BY DEF MagnetInit, MagnetTypes, InterruptsAre
<1>7. MagnetFlags
  BY DEF MagnetInit, MagnetFlags
<1>2. \A s \in Sources : tries[s] = Unused
  BY DEF MagnetInit
<1>3. TriesAre
  BY <1>2, UnusedIs DEF MagnetInit, TriesAre
<1>4. GotIsGenuine
  BY <1>2, UnusedIs DEF GotIsGenuine
<1>5. VerdictIsEarned /\ NotYetAdded /\ OpenWhileResolving /\ AddedIsGenuine
  BY DEF MagnetInit, VerdictIsEarned, NotYetAdded, OpenWhileResolving, AddedIsGenuine
<1>6. BatchWithinLimits
  <2>1. Taken = {} /\ Working = {}
    BY <1>2, UnusedIs DEF Taken, Working
  <2>2. Cardinality({}) <= Parallel /\ Cardinality({}) <= MaxTried
    BY MagnetAssumption, FS_EmptySet
  <2> QED
    BY <2>1, <2>2 DEF BatchWithinLimits, Taken
<1> QED
  BY <1>1, <1>3, <1>4, <1>5, <1>6, <1>7 DEF MagnetInv

(* For any sources, however many are genuine, any limits and any commands:   *)
(* a torrent is added only with metadata of the hash that was asked for, a   *)
(* batch keeps max_peers and the semaphore, and the sockets of a resolution  *)
(* that is over are closed unless it was cancelled a second time in its      *)
(* finally (resolve, _try_peer_batch, _fetch_from_peer).                     *)
THEOREM MagnetsAreSound == MagnetSpec => []MagnetSound
<1>1. MagnetInv => MagnetSound
  BY DEF MagnetInv, MagnetSound, OpenWhileResolving, LookupsClosed, Live
<1> QED
  BY <1>1, MagnetInvInit, MagnetInvNext, PTL DEF MagnetSpec

(* The types of a resolution are part of its invariant.                      *)
LEMMA MagnetInvTypes == MagnetInv => MagnetTypeOK
BY DEF MagnetInv, MagnetTypes, MagnetFlags, InterruptsAre, TriesAre, MagnetTypeOK

--------------------------------------------------------------------------------
(* The exchange of peers (session.py, peer.py).                              *)

(* What is known of a contact; the types of the exchange.                    *)
Links ==
  [swarm : PexSwarms \cup {NoSwarm}, alive : BOOLEAN, supports : BOOLEAN, enabled : BOOLEAN,
   recent : BOOLEAN]

PexTypes ==
  /\ privateTorrent \in BOOLEAN /\ enablePex \in BOOLEAN /\ received \in BOOLEAN
  /\ outbound \in [Contacts -> Links] /\ caller \in PexSwarms \cup {NoSwarm}
  /\ toldOf \subseteq Contacts \X PexSwarms
  /\ said \in [swarm : PexSwarms \cup {NoSwarm}, to : Contacts \cup {"caller", NoSwarm},
               endpoints : SUBSET Contacts]
  /\ pexOps \in 0 .. MaxPexOps

(* What is connected or remembered in a generation was found in it, and a    *)
(* private torrent has PEX switched off.                                    *)
FoundFirst ==
  /\ \A e \in Contacts : outbound[e].alive =>
       outbound[e].swarm \in PexSwarms /\ <<e, outbound[e].swarm>> \in foundIn
  /\ toldOf \subseteq foundIn
  /\ privateTorrent => ~enablePex

(* The inductive invariant of the exchange.                                  *)
PexInv == PexTypes /\ FoundFirst /\ SwarmsKeptApart

--------------------------------------------------------------------------------
(* The bounds are numbers.                                                   *)
LEMMA PexBounds == PexLimit \in Nat /\ PexLimit >= 1 /\ MaxPexOps \in Nat
<1>1. PexLimit \in Nat \ {0} /\ MaxPexOps \in Nat
  BY PexAssumption DEF PexAssumption
<1> QED
  BY <1>1

(* A new session knows nobody.                                               *)
LEMMA PexInvInit == PexInit => PexInv
<1> SUFFICES ASSUME PexInit PROVE PexInv
  OBVIOUS
<1>1. NoLink \in Links
  BY DEF NoLink, Links
<1>2. PexTypes
  <2>1. NothingSaid \in [swarm : PexSwarms \cup {NoSwarm}, to : Contacts \cup {"caller", NoSwarm},
                         endpoints : SUBSET Contacts]
    BY DEF NothingSaid
  <2>2. outbound \in [Contacts -> Links]
    BY <1>1 DEF PexInit
  <2>3. pexOps \in 0 .. MaxPexOps
    BY PexBounds DEF PexInit
  <2>4. received \in BOOLEAN /\ caller \in PexSwarms \cup {NoSwarm}
    BY DEF PexInit
  <2>5. toldOf \subseteq Contacts \X PexSwarms
    BY DEF PexInit
  <2>6. /\ privateTorrent \in BOOLEAN /\ enablePex \in BOOLEAN
        /\ said = NothingSaid
    BY DEF PexInit
  <2> QED
    BY <2>1, <2>2, <2>3, <2>4, <2>5, <2>6 DEF PexTypes
<1>3. FoundFirst
  BY DEF PexInit, FoundFirst, NoLink
<1>4. SwarmsKeptApart
  <2>1. said = NothingSaid /\ said.endpoints = {} /\ toldOf = {}
    BY DEF PexInit, NothingSaid
  <2>2. Cardinality({}) <= PexLimit
    BY FS_EmptySet, PexBounds
  <2> QED
    BY <2>1, <2>2 DEF SwarmsKeptApart
<1> QED
  BY <1>2, <1>3, <1>4 DEF PexInv

(* A message holds endpoints found in its generation, not the peer it goes   *)
(* to, and no more than fit.                                                *)
LEMMA EncodedIsSound ==
  ASSUME PexInv, NEW swarm \in PexSwarms, NEW exclude, NEW S \in Encoded(swarm, exclude)
  PROVE  /\ S \in SUBSET Contacts
         /\ \A e \in S : <<e, swarm>> \in foundIn /\ e /= exclude
         /\ Cardinality(S) <= PexLimit
<1> DEFINE all == PexExport(swarm, exclude)
<1>1. all \in SUBSET Contacts /\ \A e \in all : <<e, swarm>> \in foundIn /\ e /= exclude
  BY DEF PexExport, ConnectedIn, HeardIn, PexInv, FoundFirst
<1>2. /\ S \in SUBSET all
      /\ Cardinality(S) = IF Cardinality(all) < PexLimit THEN Cardinality(all) ELSE PexLimit
  BY DEF Encoded
<1>3. Cardinality(all) \in Nat
  <2> HIDE DEF all
  <2>1. IsFiniteSet(Contacts)
    BY PexAssumption
  <2>2. IsFiniteSet(all)
    BY <1>1, <2>1, FS_Subset
  <2> QED
    BY <2>2, FS_CardinalityType
<1> HIDE DEF all
<1>4. Cardinality(S) <= PexLimit
  BY <1>2, <1>3, PexBounds
<1> QED
  BY <1>1, <1>2, <1>4

(* What a link may become: it keeps its generation, and does not come back   *)
(* to life.                                                                 *)
LEMMA MaybeSendKeeps ==
  ASSUME PexInv, NEW e \in Contacts, outbound[e].alive, NEW link \in Links,
         link.swarm = outbound[e].swarm, link.alive,
         MaybeSendPex(e, link), pexOps' \in 0 .. MaxPexOps,
         UNCHANGED <<privateTorrent, enablePex, caller, toldOf, received, foundIn>>
  PROVE  PexInv'
<1>1. link.swarm \in PexSwarms
  BY DEF PexInv, FoundFirst
<1>2. /\ [link EXCEPT !.alive = FALSE] \in Links /\ [link EXCEPT !.recent = TRUE] \in Links
      /\ [link EXCEPT !.recent = TRUE].swarm = link.swarm
      /\ ~[link EXCEPT !.alive = FALSE].alive
  BY DEF Links
<1>3. PICK new \in Links : /\ outbound' = [outbound EXCEPT ![e] = new]
                           /\ new.alive => new.swarm = link.swarm
  BY <1>2 DEF MaybeSendPex
<1>4. /\ outbound' \in [Contacts -> Links]
      /\ \A c \in Contacts : outbound'[c].alive =>
           outbound'[c].swarm \in PexSwarms /\ <<c, outbound'[c].swarm>> \in foundIn'
  BY <1>1, <1>3 DEF PexInv, PexTypes, FoundFirst
<1>5. /\ said' \in [swarm : PexSwarms \cup {NoSwarm}, to : Contacts \cup {"caller", NoSwarm},
                    endpoints : SUBSET Contacts]
      /\ \A c \in said'.endpoints : <<c, said'.swarm>> \in foundIn /\ c /= said'.to
      /\ Cardinality(said'.endpoints) <= PexLimit
      /\ privateTorrent => said' = NothingSaid
  <2>1. CASE UNCHANGED said
    BY <2>1 DEF PexInv, PexTypes, SwarmsKeptApart
  <2>2. CASE \E S \in Encoded(link.swarm, e) :
               said' = [swarm |-> link.swarm, to |-> e, endpoints |-> S] /\ ~privateTorrent
    BY <1>1, <2>2, EncodedIsSound
  <2> QED
    BY <2>1, <2>2 DEF MaybeSendPex
<1>6. PexTypes'
  BY <1>4, <1>5 DEF PexInv, PexTypes
<1>7. FoundFirst'
  BY <1>4 DEF PexInv, FoundFirst
<1>8. SwarmsKeptApart'
  BY <1>5 DEF PexInv, SwarmsKeptApart
<1> QED
  BY <1>6, <1>7, <1>8 DEF PexInv

LEMMA PexInvNext ==
  ASSUME PexInv, [PexNext]_pexVars
  PROVE  PexInv'
<1> USE PexBounds
<1>1. ASSUME PexOp \/ UNCHANGED pexOps PROVE pexOps' \in 0 .. MaxPexOps
  BY <1>1 DEF PexOp, PexInv, PexTypes
<1>2. ASSUME NEW e \in Contacts, NEW swarm \in PexSwarms, Connects(e, swarm) PROVE PexInv'
  <2> DEFINE new == [NoLink EXCEPT !.swarm = swarm, !.alive = TRUE, !.enabled = enablePex]
  <2>1. new \in Links /\ new.swarm = swarm
    BY DEF NoLink, Links, PexInv, PexTypes
  <2> HIDE DEF new
  <2>2. /\ outbound' = [outbound EXCEPT ![e] = new] /\ foundIn' = foundIn \cup {<<e, swarm>>}
        /\ UNCHANGED <<privateTorrent, enablePex, caller, toldOf, received, said>>
    BY <1>2 DEF Connects, new
  <2>3. PexTypes'
    BY <1>1, <1>2, <2>1, <2>2 DEF Connects, PexInv, PexTypes
  <2>4. FoundFirst'
    BY <2>1, <2>2 DEF PexInv, PexTypes, FoundFirst
  <2>5. SwarmsKeptApart'
    BY <2>2 DEF PexInv, SwarmsKeptApart
  <2> QED
    BY <2>3, <2>4, <2>5 DEF PexInv
<1>3. ASSUME NEW e \in Contacts, LinkHandshake(e) \/ LinkTurn(e) PROVE PexInv'
  <2>1. outbound[e] \in Links
    BY DEF PexInv, PexTypes
  <2>2. PICK link \in Links : link.swarm = outbound[e].swarm /\ link.alive /\ MaybeSendPex(e, link)
    <3>1. CASE LinkTurn(e)
      BY <2>1, <3>1 DEF LinkTurn
    <3>2. CASE LinkHandshake(e)
      <4>1. PICK supports \in BOOLEAN : MaybeSendPex(e, [outbound[e] EXCEPT !.supports = supports])
        BY <3>2 DEF LinkHandshake
      <4>2. /\ [outbound[e] EXCEPT !.supports = supports] \in Links
            /\ [outbound[e] EXCEPT !.supports = supports].swarm = outbound[e].swarm
            /\ [outbound[e] EXCEPT !.supports = supports].alive
        BY <2>1, <3>2 DEF Links, LinkHandshake
      <4> QED
        BY <4>1, <4>2
    <3> QED
      BY <1>3, <3>1, <3>2
  <2>3. /\ outbound[e].alive /\ (PexOp \/ UNCHANGED pexOps)
        /\ UNCHANGED <<privateTorrent, enablePex, caller, toldOf, received, foundIn>>
    BY <1>3 DEF LinkHandshake, LinkTurn
  <2>4. pexOps' \in 0 .. MaxPexOps
    BY <1>1, <2>3
  <2> QED
    BY <2>2, <2>3, <2>4, MaybeSendKeeps
<1>4. ASSUME NEW e \in Contacts, IntervalPasses(e) \/ LinkLost(e) PROVE PexInv'
  <2>1. outbound[e] \in Links /\ NoLink \in Links
    BY DEF PexInv, PexTypes, NoLink, Links
  <2>2. /\ [outbound[e] EXCEPT !.recent = FALSE] \in Links
        /\ [outbound[e] EXCEPT !.alive = FALSE] \in Links
        /\ [outbound[e] EXCEPT !.recent = FALSE].swarm = outbound[e].swarm
        /\ [outbound[e] EXCEPT !.recent = FALSE].alive = outbound[e].alive
        /\ ~[outbound[e] EXCEPT !.alive = FALSE].alive /\ ~NoLink.alive
    BY <2>1 DEF Links, NoLink
  <2>3. \/ outbound' = [outbound EXCEPT ![e] = [outbound[e] EXCEPT !.recent = FALSE]]
        \/ outbound' = [outbound EXCEPT ![e] = [outbound[e] EXCEPT !.alive = FALSE]]
        \/ outbound' = [outbound EXCEPT ![e] = NoLink]
    BY <1>4 DEF IntervalPasses, LinkLost
  <2>4. UNCHANGED <<privateTorrent, enablePex, caller, toldOf, received, said, foundIn, pexOps>>
    BY <1>4 DEF IntervalPasses, LinkLost
  <2>5. PICK new \in Links : /\ outbound' = [outbound EXCEPT ![e] = new]
                             /\ new.alive => outbound[e].alive /\ new.swarm = outbound[e].swarm
    BY <2>1, <2>2, <2>3
  <2>6. PexTypes'
    BY <2>4, <2>5 DEF PexInv, PexTypes
  <2>7. FoundFirst'
    BY <2>4, <2>5 DEF PexInv, PexTypes, FoundFirst
  <2>8. SwarmsKeptApart'
    BY <2>4 DEF PexInv, SwarmsKeptApart
  <2> QED
    BY <2>6, <2>7, <2>8 DEF PexInv
<1>5. ASSUME NEW told \in SUBSET Contacts, NEW swarm \in PexSwarms, RecordPex(told, swarm), PexOp,
             UNCHANGED <<privateTorrent, enablePex, outbound, caller, said>>
      PROVE  PexInv'
  <2>1. CASE privateTorrent \/ ~enablePex
    BY <1>1, <1>5, <2>1 DEF RecordPex, PexInv, PexTypes, FoundFirst, SwarmsKeptApart
  <2>2. CASE ~privateTorrent /\ enablePex
    <3>1. /\ toldOf' = toldOf \cup {<<e, swarm>> : e \in told}
          /\ foundIn' = foundIn \cup {<<e, swarm>> : e \in told}
          /\ received' = TRUE
      BY <1>5, <2>2 DEF RecordPex
    <3>2. PexTypes'
      BY <1>1, <1>5, <3>1 DEF PexInv, PexTypes
    <3>3. FoundFirst'
      BY <1>5, <2>2, <3>1 DEF PexInv, FoundFirst
    <3>4. SwarmsKeptApart'
      BY <1>5, <2>2, <3>1 DEF PexInv, SwarmsKeptApart
    <3> QED
      BY <3>2, <3>3, <3>4 DEF PexInv
  <2> QED
    BY <2>1, <2>2 DEF PexInv, PexTypes
<1>6. ASSUME NEW e \in Contacts, NEW told \in SUBSET Contacts, LinkTells(e, told) PROVE PexInv'
  BY <1>5, <1>6 DEF LinkTells, PexInv, FoundFirst
<1>7. ASSUME NEW told \in SUBSET Contacts, CallerTells(told) PROVE PexInv'
  BY <1>5, <1>7 DEF CallerTells, PexInv, PexTypes
<1>8. ASSUME NEW swarm \in PexSwarms, Calls(swarm) PROVE PexInv'
  BY <1>1, <1>8 DEF Calls, PexInv, PexTypes, FoundFirst, SwarmsKeptApart
<1>9. CASE CallerLeaves
  BY <1>1, <1>9 DEF CallerLeaves, PexInv, PexTypes, FoundFirst, SwarmsKeptApart
<1>10. CASE CallerHandshake
  <2>1. PICK S \in Encoded(caller, "caller") :
          said' = [swarm |-> caller, to |-> "caller", endpoints |-> S]
    BY <1>10 DEF CallerHandshake
  <2>2. caller \in PexSwarms /\ ~privateTorrent
    BY <1>10 DEF CallerHandshake, PexInv, PexTypes
  <2>3. /\ S \in SUBSET Contacts /\ Cardinality(S) <= PexLimit
        /\ \A e \in S : <<e, caller>> \in foundIn /\ e /= "caller"
    BY <2>1, <2>2, EncodedIsSound
  <2>4. PexTypes'
    BY <1>1, <1>10, <2>1, <2>2, <2>3 DEF CallerHandshake, PexInv, PexTypes
  <2>5. FoundFirst'
    BY <1>10 DEF CallerHandshake, PexInv, FoundFirst
  <2>6. SwarmsKeptApart'
    BY <1>10, <2>1, <2>2, <2>3 DEF CallerHandshake, SwarmsKeptApart
  <2> QED
    BY <2>4, <2>5, <2>6 DEF PexInv
<1>11. CASE TogglePex
  <2>1. enablePex' \in BOOLEAN /\ (privateTorrent => ~enablePex')
    BY <1>11 DEF TogglePex
  <2>2. /\ outbound' = [e \in Contacts |-> IF outbound[e] = NoLink THEN NoLink
                          ELSE [outbound[e] EXCEPT !.enabled = enablePex']]
        /\ UNCHANGED <<privateTorrent, caller, toldOf, received, said, foundIn>>
    BY <1>11 DEF TogglePex
  <2>3. \A e \in Contacts : /\ outbound'[e] \in Links
                            /\ outbound'[e].swarm = outbound[e].swarm
                            /\ outbound'[e].alive = outbound[e].alive
    <3> TAKE e \in Contacts
    <3>1. outbound[e] \in Links
      BY DEF PexInv, PexTypes
    <3>2. CASE outbound[e] = NoLink
      BY <2>2, <3>1, <3>2
    <3>3. CASE outbound[e] /= NoLink
      <4> DEFINE new == [outbound[e] EXCEPT !.enabled = enablePex']
      <4>1. new \in Links /\ new.swarm = outbound[e].swarm /\ new.alive = outbound[e].alive
        BY <2>1, <3>1 DEF Links
      <4>2. outbound'[e] = new
        BY <2>2, <3>3
      <4> QED
        BY <4>1, <4>2
    <3> QED
      BY <3>2, <3>3
  <2>4. outbound' \in [Contacts -> Links]
    BY <2>2, <2>3
  <2>5. PexTypes'
    BY <1>1, <1>11, <2>1, <2>2, <2>4 DEF TogglePex, PexInv, PexTypes
  <2>6. FoundFirst'
    BY <2>1, <2>2, <2>3 DEF PexInv, FoundFirst
  <2>7. SwarmsKeptApart'
    BY <2>2 DEF PexInv, SwarmsKeptApart
  <2> QED
    BY <2>5, <2>6, <2>7 DEF PexInv
<1>12. CASE UNCHANGED pexVars
  BY <1>1, <1>12 DEF pexVars, PexInv, PexTypes, FoundFirst, SwarmsKeptApart
<1> QED
  BY <1>2, <1>3, <1>4, <1>6, <1>7, <1>8, <1>9, <1>10, <1>11, <1>12 DEF PexNext

LEMMA PexInvTypes == PexInv => PexTypeOK
BY DEF PexInv, PexTypes, PexTypeOK, PexStatus

(* Peers are told of endpoints of their own generation, never of themselves   *)
(* and never more than fit a message; private torrents take no part           *)
(* (_pex_export_endpoints, _record_pex_payload).                            *)
THEOREM SwarmsStayApart == PexSpec => []SwarmsKeptApart
<1>1. PexInv => SwarmsKeptApart
  BY DEF PexInv
<1> QED
  BY <1>1, PexInvInit, PexInvNext, PTL DEF PexSpec

--------------------------------------------------------------------------------
(* All sources together, in any interleaving: each searches within its        *)
(* limits, tells what it was told, and mixes up neither swarms nor hosts.     *)
THEOREM SourcesAreSound == SourcesSpec => []SourcesSound
BY AnnouncesAreSound, ScrapesAreSound, LookupsAreSound, NoSelfDiscovery, MagnetsAreSound,
   SwarmsStayApart, PTL DEF SourcesSpec, SourcesSound

(* Their types.                                                             *)
THEOREM SourceTypesHold ==
  SourcesSpec => [](AnnounceTypeOK /\ ScrapeTypeOK /\ DhtTypeOK /\ LanTypeOK /\ MagnetTypeOK)
<1>1. AnnounceSpec => []AnnounceTypeOK
  BY AnnounceInvTypes, AnnounceStart, AnnounceStep, PTL DEF AnnounceSpec
<1>2. ScrapeSpec => []ScrapeTypeOK
  BY ScrapeInvTypes, ScrapeInvInit, ScrapeInvNext, PTL DEF ScrapeSpec
<1>3. DhtSpec => []DhtTypeOK
  BY DhtInvTypes, DhtInvInit, DhtInvNext, PTL DEF DhtSpec
<1>4. MagnetSpec => []MagnetTypeOK
  BY MagnetInvTypes, MagnetInvInit, MagnetInvNext, PTL DEF MagnetSpec
<1> QED
  BY <1>1, <1>2, <1>3, <1>4, LanTypesHold, PTL DEF SourcesSpec
================================================================================
