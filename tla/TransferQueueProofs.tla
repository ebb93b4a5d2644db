-------------------------- MODULE TransferQueueProofs --------------------------
(***************************************************************************)
(* For any torrents, slots and bounds: the types of TransferQueue, that a    *)
(* session that shows work is at work, and that Stop prevails.              *)
(***************************************************************************)
EXTENDS TransferQueue, FiniteSetTheorems, FunctionTheorems, TLAPS

Ops == {"start", "pause", "stop", "goal", "priority", "rebalance", "recheck", "remove"}
Orders == [op : Ops, t : Torrents]
StopOf(t) == [op |-> "stop", t |-> t]

Sessions ==
  [state : {"idle", "queued", "checking", "fast_resume", "downloading", "seeding",
            "paused", "stopped", "completed", "error"},
   live : BOOLEAN, from : {"none", "checking", "downloading", "seeding"},
   run : {"none", "preparing", "notice", "downloading", "flushing", "seeding", "closing",
          "recheck"},
   prepared : BOOLEAN, finished : BOOLEAN, whole : BOOLEAN]

Shown == {"checking", "fast_resume", "downloading", "seeding"}
Working == {"preparing", "notice", "downloading", "flushing", "seeding"}

(* A session is live while a coroutine works for it, and shows work only     *)
(* then; a run that failed may still be closing.                            *)
Healthy ==
  {s \in Sessions : /\ s.live => s.run # "none"
                    /\ s.run \in Working \cup {"recheck"} => s.live
                    /\ s.state \in Shown => s.live}

QueueTypes ==
  /\ known \in SUBSET Torrents
  /\ intent \in [Torrents -> {"idle", "active", "paused", "stopped"}]
  /\ explicit \in SUBSET Torrents /\ urgent \in SUBSET Torrents /\ spawned \in SUBSET Torrents
  /\ place \in [Torrents -> 1 .. Cardinality(Torrents)]
  /\ cmds \in Seq(Orders)
  /\ batch \in 0 .. MaxBatch /\ batch <= Len(cmds)
  /\ removing \in SUBSET known /\ (removing # {} => batch = 0)
  /\ recheck \in [Torrents -> {"none", "begin", "wait", "invalidate", "invalidated", "checking"}]
  /\ ses \in [Torrents -> Healthy]
  /\ goalMet \in SUBSET Torrents
  /\ commands \in 0 .. MaxCommands /\ errors \in 0 .. MaxErrors

(* Only a satisfied goal is reported.                                       *)
GoalsMet == \A i \in 1 .. Len(cmds) : cmds[i].op = "goal" => cmds[i].t \in goalMet

(* A torrent the user stopped works only until the command comes, and a      *)
(* start() created for it begins before the engine comes to that command.   *)
StopAhead ==
  \A t \in known \ goalMet : intent[t] = "stopped" =>
    /\ t \in spawned => \E i \in batch + 1 .. Len(cmds) : cmds[i] = StopOf(t)
    /\ ses[t].run \in Working => \E i \in 1 .. Len(cmds) : cmds[i] = StopOf(t)

QueueInv == QueueTypes /\ GoalsMet /\ StopAhead

--------------------------------------------------------------------------------
(* What is done to a session                                                *)

LEMMA StoppedIsHealthy ==
  ASSUME NEW s \in Healthy
  PROVE  Stopped(s) \in Healthy /\ Stopped(s).run = "none"
BY DEF Healthy, Sessions, Stopped, Working, Shown

LEMMA PausedIsHealthy ==
  ASSUME NEW s \in Healthy
  PROVE  Paused(s) \in Healthy /\ Paused(s).run = s.run
BY DEF Healthy, Sessions, Paused, Working, Shown

LEMMA QueuedIsHealthy ==
  ASSUME NEW s \in Healthy
  PROVE  Queued(s) \in Healthy /\ Queued(s).run = s.run
BY DEF Healthy, Sessions, Queued, Working, Shown

LEMMA ContinuedIsHealthy ==
  ASSUME NEW s \in Healthy, s.live
  PROVE  Continued(s) \in Healthy /\ Continued(s).run = s.run
BY DEF Healthy, Sessions, Continued, Working, Shown

(* Sessions keep their health and their runs, and only torrents that are to  *)
(* run get a start().                                                       *)
LEMMA RebalanceKeeps ==
  ASSUME NEW K \in SUBSET Torrents, NEW I, NEW U, NEW E \in SUBSET Torrents,
         NEW S \in [Torrents -> Healthy], spawned \in SUBSET Torrents,
         Rebalance(K, I, U, E, S)
  PROVE  /\ ses' \in [Torrents -> Healthy]
         /\ \A t \in Torrents : ses'[t].run = S[t].run
         /\ spawned' \in SUBSET Torrents /\ explicit' \in SUBSET Torrents
         /\ \A t \in spawned' : t \in spawned \/ I[t] = "active"
<1> DEFINE willing == {t \in K : I[t] = "active" /\ (S[t].state # "error" \/ t \in E)}
           seeds == {t \in willing : S[t].finished /\ ~ S[t].live}
           active == {t \in K : I[t] = "active" /\ ActiveDownload(S[t])}
           candidates == {t \in willing : ~ S[t].finished} \ active
           room == IF Slots = 0 THEN Cardinality(candidates) ELSE Slots - Cardinality(active)
           startable == {t \in candidates : ~ S[t].live \/ Suspended(S[t])}
           promoted == {t \in startable : Ahead(t, startable, U) < room}
           waiting(t) == t \in candidates /\ Ahead(t, startable, U) >= room
<1>1. /\ ses' = [t \in Torrents |->
                   IF t \in promoted /\ S[t].live THEN Continued(S[t])
                   ELSE IF waiting(t) THEN Queued(S[t]) ELSE S[t]]
      /\ spawned' = spawned \cup seeds \cup {t \in promoted : ~ S[t].live}
      /\ explicit' = E \ (seeds \cup promoted)
  BY DEF Rebalance
<1>2. /\ seeds \subseteq Torrents /\ promoted \subseteq Torrents
      /\ \A t \in seeds \cup promoted : I[t] = "active"
  OBVIOUS
<1> HIDE DEF seeds, promoted, waiting
<1>3. ASSUME NEW t \in Torrents
      PROVE  ses'[t] \in Healthy /\ ses'[t].run = S[t].run
  <2>1. CASE t \in promoted /\ S[t].live
    BY <1>1, <2>1, ContinuedIsHealthy
  <2>2. CASE ~ (t \in promoted /\ S[t].live) /\ waiting(t)
    BY <1>1, <2>2, QueuedIsHealthy
  <2>3. CASE ~ (t \in promoted /\ S[t].live) /\ ~ waiting(t)
    BY <1>1, <2>3
  <2> QED
    BY <2>1, <2>2, <2>3
<1> QED
  BY <1>1, <1>2, <1>3

(* A goal that is reported is satisfied.                                    *)
Reports(cs) == cs = cmds \/ \E u \in goalMet' : cs = Append(cmds, [op |-> "goal", t |-> u])

LEMMA LaunchKeeps ==
  ASSUME ses \in [Torrents -> Healthy], NEW t \in Torrents, NEW s \in Sessions, s.live,
         Launch(t, s), goalMet' = goalMet
  PROVE  /\ ses' \in [Torrents -> Healthy] /\ Reports(cmds')
         /\ \A u \in Torrents \ {t} : ses'[u] = ses[u]
<1> DEFINE downloads == [s EXCEPT !.state = "downloading", !.run = "downloading"]
           ends == [s EXCEPT !.state = "seeding", !.run = "closing"]
           seeds == [s EXCEPT !.state = "seeding", !.run = "seeding"]
<1>1. downloads \in Healthy /\ ends \in Healthy /\ seeds \in Healthy
  BY ZenonT(60) DEF Healthy, Sessions, Working, Shown
<1>2. \/ Session(t, downloads) /\ cmds' = cmds
      \/ /\ Session(t, ends) /\ t \in goalMet
         /\ cmds' = Append(cmds, [op |-> "goal", t |-> t])
      \/ Session(t, seeds) /\ cmds' = cmds
  BY Zenon DEF Launch
<1> HIDE DEF downloads, ends, seeds
<1>3. Reports(cmds')
  BY <1>2 DEF Reports
<1>4. \E n \in Healthy : ses' = [ses EXCEPT ![t] = n]
  BY <1>1, <1>2 DEF Session
<1> QED
  BY <1>3, <1>4

LEMMA ProceedKeeps ==
  ASSUME ses \in [Torrents -> Healthy], NEW t \in Torrents, NEW s \in Sessions, s.live,
         Proceed(t, s), goalMet' = goalMet
  PROVE  /\ ses' \in [Torrents -> Healthy] /\ Reports(cmds')
         /\ \A u \in Torrents \ {t} : ses'[u] = ses[u]
<1>1. CASE Launch(t, s)
  BY <1>1, LaunchKeeps
<1>2. CASE /\ Session(t, [s EXCEPT !.state = "fast_resume", !.run = "notice"])
           /\ UNCHANGED cmds
  <2>1. [s EXCEPT !.state = "fast_resume", !.run = "notice"] \in Healthy
    BY ZenonT(60) DEF Healthy, Sessions, Working, Shown
  <2> QED
    BY <1>2, <2>1 DEF Session, Reports
<1> QED
  BY <1>1, <1>2 DEF Proceed

--------------------------------------------------------------------------------
(* The commands                                                             *)

LEMMA Reported ==
  ASSUME QueueInv, goalMet \subseteq goalMet', goalMet' \in SUBSET Torrents, Reports(cmds')
  PROVE  /\ cmds' \in Seq(Orders) /\ Len(cmds') >= Len(cmds)
         /\ \A i \in 1 .. Len(cmds) : cmds'[i] = cmds[i]
         /\ GoalsMet'
<1>1. CASE cmds' = cmds
  BY <1>1 DEF QueueInv, QueueTypes, GoalsMet
<1>2. ASSUME NEW u \in goalMet', cmds' = Append(cmds, [op |-> "goal", t |-> u])
      PROVE  /\ cmds' \in Seq(Orders) /\ Len(cmds') = Len(cmds) + 1
             /\ \A i \in 1 .. Len(cmds) : cmds'[i] = cmds[i]
             /\ cmds'[Len(cmds) + 1].t \in goalMet'
  <2>1. [op |-> "goal", t |-> u] \in Orders
    BY DEF Orders, Ops
  <2> QED
    BY <1>2, <2>1 DEF QueueInv, QueueTypes
<1>3. ASSUME NEW u \in goalMet', cmds' = Append(cmds, [op |-> "goal", t |-> u])
      PROVE  GoalsMet'
  <2>1. \A i \in 1 .. Len(cmds) : cmds[i].op = "goal" => cmds[i].t \in goalMet'
    BY DEF QueueInv, GoalsMet
  <2>2. \A i \in 1 .. Len(cmds') : i \in 1 .. Len(cmds) \/ i = Len(cmds) + 1
    BY <1>2, <1>3 DEF QueueInv, QueueTypes
  <2> QED
    BY <1>2, <1>3, <2>1, <2>2 DEF GoalsMet
<1>4. Len(cmds) \in Nat
  BY DEF QueueInv, QueueTypes
<1>5. CASE \E u \in goalMet' : cmds' = Append(cmds, [op |-> "goal", t |-> u])
  BY <1>2, <1>3, <1>4, <1>5
<1> QED
  BY <1>1, <1>5 DEF Reports

(* The head of the queue is handled.                                        *)
LEMMA Popped ==
  ASSUME QueueInv, NEW op, NEW t, Next1(op, t)
  PROVE  /\ cmds' \in Seq(Orders) /\ Len(cmds') = Len(cmds) - 1 /\ Len(cmds) > 0
         /\ \A i \in 1 .. Len(cmds') : cmds'[i] = cmds[i + 1]
         /\ cmds[1] = [op |-> op, t |-> t]
         /\ GoalsMet'
<1>1. cmds \in Seq(Orders) /\ batch \in Nat /\ batch > 0 /\ batch <= Len(cmds)
  BY DEF QueueInv, QueueTypes, Next1
<1>2. cmds' = Tail(cmds) /\ Head(cmds) = [op |-> op, t |-> t] /\ goalMet' = goalMet
  BY DEF Next1
<1>3. /\ cmds' \in Seq(Orders) /\ Len(cmds') = Len(cmds) - 1 /\ Len(cmds) > 0
      /\ \A i \in 1 .. Len(cmds') : cmds'[i] = cmds[i + 1]
  BY <1>1, <1>2
<1>4. cmds[1] = [op |-> op, t |-> t]
  BY <1>1, <1>2
<1>5. \A i \in 1 .. Len(cmds') : i + 1 \in 1 .. Len(cmds)
  BY <1>1, <1>3
<1>6. GoalsMet'
  BY <1>2, <1>3, <1>5 DEF QueueInv, GoalsMet
<1> QED
  BY <1>3, <1>4, <1>6

(* A step that takes no command.                                            *)
LEMMA StopStays ==
  ASSUME QueueInv,
         Len(cmds') \in Nat, Len(cmds') >= Len(cmds),
         \A i \in 1 .. Len(cmds) : cmds'[i] = cmds[i],
         batch' = batch \/ spawned = {},
         known' \subseteq known, goalMet \subseteq goalMet',
         \A u \in known' : intent'[u] = "stopped" => intent[u] = "stopped",
         \A u \in spawned' : u \in spawned \/ intent'[u] = "active",
         \A u \in Torrents : ses'[u].run \in Working => ses[u].run \in Working \/ u \in spawned
  PROVE  StopAhead'
<1> SUFFICES ASSUME NEW t \in known' \ goalMet', intent'[t] = "stopped"
             PROVE  /\ t \in spawned' => \E i \in batch' + 1 .. Len(cmds') : cmds'[i] = StopOf(t)
                    /\ ses'[t].run \in Working =>
                         \E i \in 1 .. Len(cmds') : cmds'[i] = StopOf(t)
  BY DEF StopAhead, StopOf
<1>1. t \in known \ goalMet /\ t \in Torrents /\ intent[t] = "stopped" /\ batch \in Nat
  BY DEF QueueInv, QueueTypes
<1>2. /\ t \in spawned => \E i \in batch + 1 .. Len(cmds) : cmds[i] = StopOf(t)
      /\ ses[t].run \in Working => \E i \in 1 .. Len(cmds) : cmds[i] = StopOf(t)
  BY <1>1 DEF QueueInv, StopAhead
<1>3. Len(cmds) \in Nat
  BY DEF QueueInv, QueueTypes
<1>4. t \in spawned' => \E i \in batch' + 1 .. Len(cmds') : cmds'[i] = StopOf(t)
  BY <1>1, <1>2, <1>3
<1>5. ses'[t].run \in Working => \E i \in 1 .. Len(cmds') : cmds'[i] = StopOf(t)
  BY <1>1, <1>2, <1>3
<1> QED
  BY <1>4, <1>5

LEMMA MovesUp ==
  ASSUME NEW n \in Nat, NEW m \in Nat, NEW l \in Nat, NEW i \in Nat,
         m <= n - 1, i >= n + 1, i <= l
  PROVE  i - 1 \in m + 1 .. l - 1 /\ i \in 2 .. l
OBVIOUS

(* A step that takes the command at the head.                               *)
LEMMA StopPops ==
  ASSUME QueueInv, NEW op, NEW t \in Torrents, Next1(op, t),
         batch' \in Nat, batch' <= batch - 1,
         known' = known,
         \A u \in known \ goalMet : intent'[u] = "stopped" => intent[u] = "stopped",
         \A u \in spawned' : u \in spawned \/ intent'[u] = "active",
         \A u \in Torrents : ses'[u].run \in Working => ses[u].run \in Working,
         op = "stop" => t \notin known \/ ses'[t].run \notin Working
  PROVE  StopAhead'
<1> SUFFICES ASSUME NEW v \in known \ goalMet, intent'[v] = "stopped"
             PROVE  /\ v \in spawned' => \E i \in batch' + 1 .. Len(cmds') : cmds'[i] = StopOf(v)
                    /\ ses'[v].run \in Working =>
                         \E i \in 1 .. Len(cmds') : cmds'[i] = StopOf(v)
  BY DEF StopAhead, StopOf, Next1
<1>1. v \in Torrents /\ intent[v] = "stopped" /\ batch \in Nat /\ batch > 0
  BY DEF QueueInv, QueueTypes, Next1
<1>2. /\ v \in spawned => \E i \in batch + 1 .. Len(cmds) : cmds[i] = StopOf(v)
      /\ ses[v].run \in Working => \E i \in 1 .. Len(cmds) : cmds[i] = StopOf(v)
  BY <1>1 DEF QueueInv, StopAhead
<1>3. /\ Len(cmds) \in Nat /\ Len(cmds') = Len(cmds) - 1
      /\ \A i \in 1 .. Len(cmds') : cmds'[i] = cmds[i + 1]
      /\ cmds[1] = [op |-> op, t |-> t]
  BY Popped DEF QueueInv, QueueTypes
<1>4. \A i \in 2 .. Len(cmds) : i - 1 \in 1 .. Len(cmds') /\ cmds'[i - 1] = cmds[i]
  BY <1>3
<1>5. v \in spawned' => \E i \in batch' + 1 .. Len(cmds') : cmds'[i] = StopOf(v)
  <2> SUFFICES ASSUME v \in spawned'
               PROVE  \E i \in batch' + 1 .. Len(cmds') : cmds'[i] = StopOf(v)
    OBVIOUS
  <2>1. PICK i \in batch + 1 .. Len(cmds) : cmds[i] = StopOf(v)
    BY <1>1, <1>2
  <2>2. i \in Nat /\ i >= batch + 1 /\ i <= Len(cmds)
    BY <1>1, <1>3
  <2>3. i - 1 \in batch' + 1 .. Len(cmds) - 1 /\ i \in 2 .. Len(cmds)
    <3>1. /\ batch \in Nat /\ batch' \in Nat /\ Len(cmds) \in Nat /\ i \in Nat
          /\ batch' <= batch - 1 /\ i >= batch + 1 /\ i <= Len(cmds)
      BY <1>1, <1>3, <2>2
    <3> QED
      BY <3>1, MovesUp
  <2>4. i - 1 \in batch' + 1 .. Len(cmds')
    BY <1>3, <2>3
  <2>5. cmds'[i - 1] = StopOf(v)
    BY <1>4, <2>1, <2>3
  <2> QED
    BY <2>4, <2>5
<1>6. ses'[v].run \in Working => \E i \in 1 .. Len(cmds') : cmds'[i] = StopOf(v)
  <2> SUFFICES ASSUME ses'[v].run \in Working
               PROVE  \E i \in 1 .. Len(cmds') : cmds'[i] = StopOf(v)
    OBVIOUS
  <2>1. PICK i \in 1 .. Len(cmds) : cmds[i] = StopOf(v)
    BY <1>1, <1>2
  <2>2. cmds[1] # StopOf(v)
    BY <1>3 DEF StopOf
  <2>3. i - 1 \in 1 .. Len(cmds') /\ cmds'[i - 1] = StopOf(v)
    BY <1>3, <1>4, <2>1, <2>2
  <2> QED
    BY <2>3
<1> QED
  BY <1>5, <1>6

--------------------------------------------------------------------------------
(* The actions                                                              *)

LEMMA InitKeeps == Init => QueueInv
<1> SUFFICES ASSUME Init PROVE QueueInv
  OBVIOUS
<1> DEFINE N == 1 .. Cardinality(Torrents)
           OneToOne(f) == \A t, u \in Torrents : f[t] = f[u] => t = u
<1>1. \E f \in [Torrents -> N] : OneToOne(f)
  <2>1. ExistsBijection(N, Torrents)
    BY QueueAssumption, FS_CardinalityType DEF QueueAssumption
  <2>2. ExistsBijection(Torrents, N)
    BY <2>1, Fun_ExistsBijSymmetric
  <2> QED
    BY <2>2 DEF ExistsBijection, Bijection, Injection, IsInjective
<1>2. place = CHOOSE f \in [Torrents -> N] : OneToOne(f)
  BY DEF Init
<1> HIDE DEF N, OneToOne
<1>3. place \in [Torrents -> N]
  BY <1>1, <1>2
<1>4. ses \in [Torrents -> Healthy]
  BY DEF Init, Healthy, Sessions, Working, Shown
<1>5. QueueTypes
  <2>1. MaxBatch \in Nat /\ MaxCommands \in Nat /\ MaxErrors \in Nat
    BY QueueAssumption DEF QueueAssumption
  <2>2. /\ cmds \in Seq(Orders) /\ batch \in 0 .. MaxBatch /\ batch <= Len(cmds)
        /\ commands \in 0 .. MaxCommands /\ errors \in 0 .. MaxErrors
    BY <2>1 DEF Init
  <2>3. intent \in [Torrents -> {"idle", "active", "paused", "stopped"}]
    BY DEF Init
  <2>4. recheck \in [Torrents -> {"none", "begin", "wait", "invalidate", "invalidated", "checking"}]
    BY DEF Init
  <2>5. /\ known \in SUBSET Torrents /\ explicit = {} /\ urgent = {} /\ spawned = {}
        /\ removing = {} /\ goalMet = {}
    BY DEF Init
  <2> QED
    BY <1>3, <1>4, <2>2, <2>3, <2>4, <2>5 DEF QueueTypes, N
<1>6. GoalsMet /\ StopAhead
  BY <1>4 DEF Init, GoalsMet, StopAhead, Working
<1> QED
  BY <1>5, <1>6 DEF QueueInv

(* The user posts a command.                                                *)
LEMMA PostKeeps ==
  ASSUME QueueInv, NEW op \in Ops \ {"goal"}, NEW t \in Torrents, Post(op, t),
         intent' \in [Torrents -> {"idle", "active", "paused", "stopped"}],
         place' \in [Torrents -> 1 .. Cardinality(Torrents)],
         \A u \in known : intent'[u] = "stopped" =>
           intent[u] = "stopped" \/ (op = "stop" /\ u = t)
  PROVE  QueueInv'
<1>1. [op |-> op, t |-> t] \in Orders
  BY DEF Orders
<1>2. /\ cmds' \in Seq(Orders) /\ Len(cmds') = Len(cmds) + 1 /\ Len(cmds) \in Nat
      /\ \A i \in 1 .. Len(cmds) : cmds'[i] = cmds[i]
      /\ cmds'[Len(cmds) + 1] = [op |-> op, t |-> t]
  BY <1>1 DEF QueueInv, QueueTypes, Post
<1>3. QueueTypes'
  <2>1. commands' \in 0 .. MaxCommands
    BY QueueAssumption DEF QueueInv, QueueTypes, Post, QueueAssumption
  <2>2. UNCHANGED <<known, explicit, urgent, batch, removing, spawned, recheck, ses, goalMet,
                    errors>>
    BY DEF Post
  <2>3. batch <= Len(cmds')
    BY <1>2 DEF QueueInv, QueueTypes
  <2> QED
    BY <1>2, <2>1, <2>2, <2>3 DEF QueueInv, QueueTypes
<1>4. GoalsMet'
  <2>1. \A i \in 1 .. Len(cmds') : i \in 1 .. Len(cmds) \/ i = Len(cmds) + 1
    BY <1>2
  <2>2. [op |-> op, t |-> t].op # "goal" /\ goalMet' = goalMet
    BY DEF Post
  <2> QED
    BY <1>2, <2>1, <2>2 DEF QueueInv, GoalsMet
<1>5. StopAhead'
  <2> SUFFICES ASSUME NEW v \in known \ goalMet, intent'[v] = "stopped"
               PROVE  /\ v \in spawned => \E i \in batch + 1 .. Len(cmds') : cmds'[i] = StopOf(v)
                      /\ ses[v].run \in Working =>
                           \E i \in 1 .. Len(cmds') : cmds'[i] = StopOf(v)
    BY DEF StopAhead, StopOf, Post
  <2>0. batch \in Nat /\ batch <= Len(cmds)
    BY DEF QueueInv, QueueTypes
  <2>1. CASE intent[v] = "stopped"
    <3>1. /\ v \in spawned => \E i \in batch + 1 .. Len(cmds) : cmds[i] = StopOf(v)
          /\ ses[v].run \in Working => \E i \in 1 .. Len(cmds) : cmds[i] = StopOf(v)
      BY <2>1 DEF QueueInv, StopAhead
    <3> QED
      BY <1>2, <2>0, <3>1
  <2>2. CASE op = "stop" /\ v = t
    <3>1. Len(cmds) + 1 \in batch + 1 .. Len(cmds') /\ Len(cmds) + 1 \in 1 .. Len(cmds')
      BY <1>2, <2>0
    <3> QED
      BY <1>2, <2>2, <3>1 DEF StopOf
  <2> QED
    BY <2>1, <2>2
<1> QED
  BY <1>3, <1>4, <1>5 DEF QueueInv

LEMMA UserKeeps == QueueInv /\ UserCommands => QueueInv'
<1> SUFFICES ASSUME QueueInv, UserCommands PROVE QueueInv'
  OBVIOUS
<1>0. /\ Touched \subseteq Torrents
      /\ intent \in [Torrents -> {"idle", "active", "paused", "stopped"}]
      /\ place \in [Torrents -> 1 .. Cardinality(Torrents)]
      /\ known \subseteq Torrents
  BY QueueAssumption DEF QueueAssumption, QueueInv, QueueTypes
<1>1. ASSUME NEW t \in Torrents, StartTorrent(t) PROVE QueueInv'
  BY <1>0, <1>1, PostKeeps DEF StartTorrent, Ops
<1>2. ASSUME NEW t \in Torrents, PauseTorrent(t) PROVE QueueInv'
  BY <1>0, <1>2, PostKeeps DEF PauseTorrent, Ops
<1>3. ASSUME NEW t \in Torrents, StopTorrent(t) PROVE QueueInv'
  BY <1>0, <1>3, PostKeeps DEF StopTorrent, Ops
<1>4. ASSUME NEW t \in Torrents, NEW op \in {"remove", "recheck", "priority"}, SendCommand(op, t)
      PROVE  QueueInv'
  BY <1>0, <1>4, PostKeeps DEF SendCommand, Ops
<1>5. ASSUME NEW t \in Torrents, NEW u \in Torrents, SetQueueOrder(t, u) PROVE QueueInv'
  BY <1>0, <1>5, PostKeeps DEF SetQueueOrder, Ops
<1> QED
  BY <1>0, <1>1, <1>2, <1>3, <1>4, <1>5 DEF UserCommands

(* A command for which the queue is rebalanced, with the sessions S and the  *)
(* explicit requests E it leaves.                                           *)
LEMMA RebalancedKeeps ==
  ASSUME QueueInv, NEW op \in Ops, NEW t \in Torrents, Next1(op, t), Continue,
         NEW I, NEW U, NEW E \in SUBSET Torrents, NEW S \in [Torrents -> Healthy],
         Rebalance(known, I, U, E, S), I = intent',
         UNCHANGED <<known, place, recheck>>, urgent' \in SUBSET Torrents,
         intent' \in [Torrents -> {"idle", "active", "paused", "stopped"}],
         \A u \in known \ goalMet : intent'[u] = "stopped" => intent[u] = "stopped",
         \A u \in Torrents : S[u].run \in Working => ses[u].run \in Working,
         op = "stop" => S[t].run \notin Working
  PROVE  QueueInv'
<1>1. known \in SUBSET Torrents /\ spawned \in SUBSET Torrents
  BY DEF QueueInv, QueueTypes
<1>2. /\ ses' \in [Torrents -> Healthy]
      /\ \A u \in Torrents : ses'[u].run = S[u].run
      /\ spawned' \in SUBSET Torrents /\ explicit' \in SUBSET Torrents
      /\ \A u \in spawned' : u \in spawned \/ I[u] = "active"
  <2>1. Rebalance(known, I, U, E, S)
    OBVIOUS
  <2> QED
    BY ONLY <1>1, <2>1, RebalanceKeeps, E \in SUBSET Torrents, S \in [Torrents -> Healthy]
<1>3. /\ cmds' \in Seq(Orders) /\ Len(cmds') = Len(cmds) - 1 /\ Len(cmds) > 0 /\ GoalsMet'
  BY Popped
<1>4. /\ batch' = batch - 1 /\ removing' = removing /\ batch > 0
      /\ UNCHANGED <<goalMet, commands, errors>>
  BY DEF Next1, Continue
<1>5. /\ batch \in Nat /\ batch' \in 0 .. MaxBatch /\ batch' <= Len(cmds') /\ removing = {}
  BY <1>3, <1>4, QueueAssumption DEF QueueInv, QueueTypes, QueueAssumption
<1>6. QueueTypes'
  BY <1>2, <1>3, <1>4, <1>5 DEF QueueInv, QueueTypes
<1>7. StopAhead'
  <2>1. batch' \in Nat /\ batch' <= batch - 1
    BY <1>4, <1>5
  <2>2. \A u \in spawned' : u \in spawned \/ intent'[u] = "active"
    BY <1>2
  <2>3. \A u \in Torrents : ses'[u].run \in Working => ses[u].run \in Working
    BY <1>2
  <2>4. op = "stop" => t \notin known \/ ses'[t].run \notin Working
    BY <1>2
  <2> QED
    BY <2>1, <2>2, <2>3, <2>4, StopPops
<1> QED
  BY <1>3, <1>6, <1>7 DEF QueueInv

LEMMA HandleKeeps == QueueInv /\ Handle => QueueInv'
<1> SUFFICES ASSUME QueueInv, Handle PROVE QueueInv'
  OBVIOUS
<1>1. /\ intent \in [Torrents -> {"idle", "active", "paused", "stopped"}]
      /\ explicit \in SUBSET Torrents /\ urgent \in SUBSET Torrents
      /\ ses \in [Torrents -> Healthy]
  BY DEF QueueInv, QueueTypes
<1>2. \A t \in Torrents :
        /\ [ses EXCEPT ![t] = Paused(@)] \in [Torrents -> Healthy]
        /\ [ses EXCEPT ![t] = Stopped(@)] \in [Torrents -> Healthy]
        /\ \A u \in Torrents :
             /\ [ses EXCEPT ![t] = Paused(@)][u].run = ses[u].run
             /\ [ses EXCEPT ![t] = Stopped(@)][u].run = IF u = t THEN "none" ELSE ses[u].run
  BY <1>1, PausedIsHealthy, StoppedIsHealthy
<1>3. \A t \in Torrents : explicit \cup {t} \in SUBSET Torrents /\ explicit \ {t} \in SUBSET Torrents
  BY <1>1
<1>4. ASSUME NEW t \in Torrents, HandleStart(t) PROVE QueueInv'
  BY <1>1, <1>3, <1>4, RebalancedKeeps DEF HandleStart, Ops
<1>5. ASSUME NEW t \in Torrents, HandlePause(t) PROVE QueueInv'
  <2> DEFINE S == [ses EXCEPT ![t] = Paused(@)]
  <2>1. S \in [Torrents -> Healthy] /\ \A u \in Torrents : S[u].run = ses[u].run
    BY <1>2
  <2>2. /\ Next1("pause", t) /\ Continue /\ Rebalance(known, intent, urgent, explicit, S)
        /\ UNCHANGED <<known, intent, urgent, place, recheck>>
    BY <1>5 DEF HandlePause
  <2> HIDE DEF S
  <2> QED
    BY <1>1, <2>1, <2>2, RebalancedKeeps DEF Ops
<1>6. ASSUME NEW t \in Torrents, HandleStop(t) PROVE QueueInv'
  <2> DEFINE S == [ses EXCEPT ![t] = Stopped(@)]
  <2>1. /\ S \in [Torrents -> Healthy] /\ S[t].run \notin Working
        /\ \A u \in Torrents : S[u].run \in Working => ses[u].run \in Working
    BY <1>2 DEF Working
  <2>2. /\ Next1("stop", t) /\ Continue
        /\ Rebalance(known, intent, urgent, explicit \ {t}, S)
        /\ UNCHANGED <<known, intent, urgent, place, recheck>>
    BY <1>6 DEF HandleStop
  <2> HIDE DEF S
  <2> QED
    BY <1>1, <1>3, <2>1, <2>2, RebalancedKeeps DEF Ops
<1>7. ASSUME NEW t \in Torrents, HandleGoal(t) PROVE QueueInv'
  <2>1. t \in goalMet
    <3>1. cmds[1] = [op |-> "goal", t |-> t] /\ Len(cmds) \in Nat /\ Len(cmds) > 0
      BY <1>7, Popped DEF HandleGoal, QueueInv, QueueTypes
    <3> QED
      BY <3>1 DEF QueueInv, GoalsMet
  <2>2. \A u \in known \ goalMet : intent'[u] = "stopped" => intent[u] = "stopped"
    BY <1>1, <1>7, <2>1 DEF HandleGoal, QueueInv, QueueTypes
  <2>3. intent' \in [Torrents -> {"idle", "active", "paused", "stopped"}]
    BY <1>1, <1>7 DEF HandleGoal
  <2> DEFINE S == [ses EXCEPT ![t] = Stopped(@)]
  <2>4. /\ S \in [Torrents -> Healthy]
        /\ \A u \in Torrents : S[u].run \in Working => ses[u].run \in Working
    BY <1>2 DEF Working
  <2>5. /\ Next1("goal", t) /\ Continue
        /\ Rebalance(known, intent', urgent, explicit \ {t}, S)
        /\ UNCHANGED <<known, urgent, place, recheck>>
    BY <1>7 DEF HandleGoal
  <2> HIDE DEF S
  <2> QED
    BY <1>1, <1>3, <2>2, <2>3, <2>4, <2>5, RebalancedKeeps DEF Ops
<1>8. ASSUME NEW t \in Torrents, HandlePriority(t) PROVE QueueInv'
  BY <1>1, <1>8, RebalancedKeeps DEF HandlePriority, Ops
<1>9. ASSUME NEW t \in Torrents, HandleRebalance(t) PROVE QueueInv'
  BY <1>1, <1>9, RebalancedKeeps DEF HandleRebalance, Ops
<1>10. ASSUME NEW op, NEW t, Next1(op, t)
       PROVE  /\ batch \in Nat /\ batch - 1 \in 0 .. MaxBatch /\ removing = {}
              /\ cmds' \in Seq(Orders) /\ batch - 1 <= Len(cmds') /\ GoalsMet'
              /\ UNCHANGED <<goalMet, commands, errors>>
  <2>1. batch \in 0 .. MaxBatch /\ batch > 0 /\ batch <= Len(cmds) /\ MaxBatch \in Nat
    BY <1>10, QueueAssumption DEF QueueInv, QueueTypes, Next1, QueueAssumption
  <2>2. /\ cmds' \in Seq(Orders) /\ Len(cmds') = Len(cmds) - 1 /\ Len(cmds) \in Nat
        /\ GoalsMet'
    <3>1. Len(cmds) \in Nat
      BY DEF QueueInv, QueueTypes
    <3> QED
      BY <1>10, <3>1, Popped
  <2> QED
    BY <1>10, <2>1, <2>2 DEF QueueInv, QueueTypes, Next1
<1>11. ASSUME NEW t \in Torrents, HandleRecheck(t) PROVE QueueInv'
  <2>1. Next1("recheck", t) /\ batch' = batch - 1 /\ UNCHANGED <<manager, spawned, ses, removing>>
    BY <1>11 DEF HandleRecheck, Continue
  <2>2. QueueTypes'
    BY <1>10, <1>11, <2>1 DEF HandleRecheck, QueueInv, QueueTypes, manager
  <2>3. StopAhead'
    BY <1>10, <2>1, StopPops DEF manager
  <2> QED
    BY <1>10, <2>1, <2>2, <2>3 DEF QueueInv
<1>12. ASSUME NEW t \in Torrents, HandleRemove(t) PROVE QueueInv'
  <2>1. /\ Next1("remove", t) /\ batch' = 0 /\ removing' = {t} /\ t \in known
        /\ explicit' = explicit \ {t} /\ ses' = [ses EXCEPT ![t] = Stopped(@)]
        /\ UNCHANGED <<known, intent, urgent, place, spawned, recheck>>
    BY <1>12 DEF HandleRemove
  <2>2. batch > 0 /\ batch' \in 0 .. MaxBatch /\ batch' <= Len(cmds') /\ batch' <= batch - 1
    BY <1>10, <2>1, QueueAssumption DEF Next1, QueueAssumption
  <2>3. QueueTypes'
    BY <1>2, <1>10, <2>1, <2>2 DEF QueueInv, QueueTypes
  <2>4. \A u \in Torrents : ses'[u].run \in Working => ses[u].run \in Working
    BY <1>2, <2>1 DEF Working
  <2>5. StopAhead'
    BY <2>1, <2>2, <2>4, StopPops
  <2> QED
    BY <1>10, <2>1, <2>3, <2>5 DEF QueueInv
<1>13. ASSUME NEW t \in Torrents, NEW op, HandleUnknown(op, t) PROVE QueueInv'
  <2>1. /\ Next1(op, t) /\ batch' = batch - 1 /\ t \notin known
        /\ UNCHANGED <<manager, spawned, ses, removing, recheck>>
    BY <1>13 DEF HandleUnknown, Continue
  <2>2. QueueTypes'
    BY <1>10, <2>1 DEF QueueInv, QueueTypes, manager
  <2>3. StopAhead'
    BY <1>10, <2>1, StopPops DEF manager
  <2> QED
    BY <1>10, <2>1, <2>2, <2>3 DEF QueueInv
<1> QED
  BY <1>4, <1>5, <1>6, <1>7, <1>8, <1>9, <1>11, <1>12, <1>13 DEF Handle

Progress == {"none", "begin", "wait", "invalidate", "invalidated", "checking"}

(* A step of a run or of a Force Recheck.                                   *)
LEMMA StepKeeps ==
  ASSUME QueueInv, UNCHANGED <<known, intent, urgent, place, batch, removing, commands>>,
         explicit' \in SUBSET Torrents, spawned' \in SUBSET Torrents,
         \A u \in spawned' : u \in spawned \/ intent[u] = "active",
         recheck' \in [Torrents -> Progress], errors' \in 0 .. MaxErrors,
         goalMet \subseteq goalMet', goalMet' \in SUBSET Torrents, Reports(cmds'),
         ses' \in [Torrents -> Healthy],
         \A u \in Torrents : ses'[u].run \in Working => ses[u].run \in Working \/ u \in spawned
  PROVE  QueueInv'
<1>1. /\ cmds' \in Seq(Orders) /\ Len(cmds') >= Len(cmds)
      /\ \A i \in 1 .. Len(cmds) : cmds'[i] = cmds[i]
      /\ GoalsMet'
  BY Reported
<1>2. batch \in 0 .. MaxBatch /\ batch <= Len(cmds) /\ Len(cmds) \in Nat
      /\ Len(cmds') \in Nat /\ MaxBatch \in Nat
  BY <1>1, QueueAssumption DEF QueueInv, QueueTypes, QueueAssumption
<1>3. batch' <= Len(cmds')
  BY <1>1, <1>2
<1>4. QueueTypes'
  BY <1>1, <1>3 DEF QueueInv, QueueTypes, Progress
<1>5. StopAhead'
  BY <1>1, <1>2, StopStays
<1> QED
  BY <1>1, <1>4, <1>5 DEF QueueInv

(* A step of the run of t that creates no task.                             *)
LEMMA RunKeeps ==
  ASSUME QueueInv, NEW t \in Torrents, RunStep,
         errors' = errors \/ (errors < MaxErrors /\ errors' = errors + 1),
         goalMet \subseteq goalMet', goalMet' \in SUBSET Torrents, Reports(cmds'),
         ses' \in [Torrents -> Healthy], \A u \in Torrents \ {t} : ses'[u] = ses[u],
         ses'[t].run \in Working => ses[t].run \in Working
  PROVE  QueueInv'
<1>1. UNCHANGED <<known, intent, explicit, urgent, place, batch, removing, spawned, recheck,
                  commands>>
  BY DEF RunStep, manager
<1>2. errors' \in 0 .. MaxErrors
  BY QueueAssumption DEF QueueInv, QueueTypes, QueueAssumption
<1>3. /\ explicit' \in SUBSET Torrents /\ spawned' \in SUBSET Torrents
      /\ recheck' \in [Torrents -> Progress]
  BY <1>1 DEF QueueInv, QueueTypes, Progress
<1>4. \A u \in Torrents : ses'[u].run \in Working => ses[u].run \in Working \/ u \in spawned
  OBVIOUS
<1> QED
  BY <1>1, <1>2, <1>3, <1>4, StepKeeps

LEMMA SessionSteps ==
  ASSUME ses \in [Torrents -> Healthy], NEW t \in Torrents, NEW s \in Healthy, Session(t, s)
  PROVE  /\ ses' \in [Torrents -> Healthy] /\ ses'[t] = s
         /\ \A u \in Torrents \ {t} : ses'[u] = ses[u]
BY DEF Session

(* The sessions the steps of a run leave.                                   *)
LEMMA RunIsHealthy ==
  ASSUME NEW s \in Healthy
  PROVE  /\ s.run \in Working =>
              /\ s \in Sessions /\ s.live
              /\ [s EXCEPT !.finished = TRUE, !.whole = TRUE] \in Healthy
              /\ [s EXCEPT !.run = "flushing"] \in Healthy
              /\ [s EXCEPT !.state = "error", !.run = "closing"] \in Healthy
              /\ [s EXCEPT !.prepared = TRUE, !.finished = s.whole] \in Sessions
              /\ [s EXCEPT !.prepared = TRUE, !.finished = s.whole].live
         /\ [s EXCEPT !.state = "error", !.live = FALSE, !.run = "closing"] \in Healthy
<1>1. s \in Sessions /\ (s.run \in Working => s.live)
  BY DEF Healthy
<1>2. [s EXCEPT !.state = "error", !.live = FALSE, !.run = "closing"] \in Healthy
  BY ZenonT(60) DEF Healthy, Sessions, Working, Shown
<1>3. ASSUME s.run \in Working
      PROVE  /\ [s EXCEPT !.finished = TRUE, !.whole = TRUE] \in Healthy
             /\ [s EXCEPT !.run = "flushing"] \in Healthy
             /\ [s EXCEPT !.state = "error", !.run = "closing"] \in Healthy
  <2>1. [s EXCEPT !.finished = TRUE, !.whole = TRUE] \in Healthy
    BY <1>3, ZenonT(60) DEF Healthy, Sessions, Working, Shown
  <2>2. [s EXCEPT !.run = "flushing"] \in Healthy
    BY <1>3, ZenonT(60) DEF Healthy, Sessions, Working, Shown
  <2>3. [s EXCEPT !.state = "error", !.run = "closing"] \in Healthy
    BY <1>3, ZenonT(60) DEF Healthy, Sessions, Working, Shown
  <2> QED
    BY <2>1, <2>2, <2>3
<1>4. ASSUME s.run \in Working
      PROVE  /\ [s EXCEPT !.prepared = TRUE, !.finished = s.whole] \in Sessions
             /\ [s EXCEPT !.prepared = TRUE, !.finished = s.whole].live
  BY <1>1, <1>4 DEF Sessions
<1> QED
  BY <1>1, <1>2, <1>3, <1>4

LEMMA EndedIsHealthy ==
  ASSUME NEW s \in Healthy, NEW end \in {"completed", "stopped"}
  PROVE  [s EXCEPT !.run = "none", !.live = FALSE,
            !.state = IF @ \in {"error", "paused", "stopped"} THEN @ ELSE end] \in Healthy
<1> DEFINE kept == IF s.state \in {"error", "paused", "stopped"} THEN s.state ELSE end
<1>1. kept \in {"error", "paused", "stopped", "completed"}
  OBVIOUS
<1> HIDE DEF kept
<1>2. [s EXCEPT !.run = "none", !.live = FALSE, !.state = kept] \in Healthy
  BY <1>1, ZenonT(60) DEF Healthy, Sessions, Working, Shown
<1> QED
  BY <1>2 DEF kept

LEMMA BegunIsSession ==
  ASSUME NEW s \in Healthy
  PROVE  LET b == [s EXCEPT !.live = TRUE, !.from = "none"] IN
         /\ b \in Sessions /\ b.live
         /\ [b EXCEPT !.state = "checking", !.run = "preparing"] \in Healthy
BY ZenonT(60) DEF Healthy, Sessions, Working, Shown

LEMMA StartKeeps ==
  ASSUME QueueInv, NEW t \in Torrents, StartBegins(t)
  PROVE  QueueInv'
<1> DEFINE s == [ses[t] EXCEPT !.live = TRUE, !.from = "none"]
<1>1. /\ t \in spawned /\ spawned' = spawned \ {t}
      /\ UNCHANGED <<known, intent, explicit, urgent, place, batch, removing, recheck, goalMet,
                     commands, errors>>
      /\ \/ ses[t].live /\ UNCHANGED <<ses, cmds>>
         \/ Proceed(t, s)
         \/ Session(t, [s EXCEPT !.state = "checking", !.run = "preparing"]) /\ UNCHANGED cmds
  BY DEF StartBegins, manager
<1>2. ses \in [Torrents -> Healthy] /\ ses[t] \in Healthy
  BY DEF QueueInv, QueueTypes
<1>3. s \in Sessions /\ s.live /\ [s EXCEPT !.state = "checking", !.run = "preparing"] \in Healthy
  BY <1>2, BegunIsSession
<1> HIDE DEF s
<1>4. /\ ses' \in [Torrents -> Healthy] /\ Reports(cmds')
      /\ \A u \in Torrents \ {t} : ses'[u] = ses[u]
  <2>1. CASE ses[t].live /\ UNCHANGED <<ses, cmds>>
    BY <1>2, <2>1 DEF Reports
  <2>2. CASE Proceed(t, s)
    BY <1>1, <1>2, <1>3, <2>2, ProceedKeeps
  <2>3. CASE Session(t, [s EXCEPT !.state = "checking", !.run = "preparing"]) /\ UNCHANGED cmds
    BY <1>2, <1>3, <2>3, SessionSteps DEF Reports
  <2> QED
    BY <1>1, <2>1, <2>2, <2>3
<1>5. /\ explicit' \in SUBSET Torrents /\ spawned' \in SUBSET Torrents
      /\ recheck' \in [Torrents -> Progress] /\ errors' \in 0 .. MaxErrors
      /\ goalMet \subseteq goalMet' /\ goalMet' \in SUBSET Torrents
      /\ \A u \in spawned' : u \in spawned
  BY <1>1 DEF QueueInv, QueueTypes, Progress
<1>6. \A u \in Torrents : ses'[u].run \in Working => ses[u].run \in Working \/ u \in spawned
  BY <1>1, <1>4
<1> QED
  BY <1>1, <1>4, <1>5, <1>6, StepKeeps

(* The steps of a run: preparation, notice, download, flush, seeding, end.   *)
LEMMA RunStepsKeep ==
  ASSUME QueueInv, NEW t \in Torrents,
         \/ PrepareDone(t) \/ PrepareFails(t) \/ NoticeOver(t) \/ LastPiece(t) \/ LoopEnds(t)
         \/ Flushed(t) \/ RunFails(t) \/ GoalReached(t) \/ RunEnds(t)
  PROVE  QueueInv'
<1>1. ses \in [Torrents -> Healthy] /\ ses[t] \in Healthy /\ goalMet \in SUBSET Torrents
  BY DEF QueueInv, QueueTypes
<1>2. Reports(cmds)
  BY DEF Reports
<1>3. CASE PrepareDone(t)
  <2> DEFINE s == [ses[t] EXCEPT !.prepared = TRUE, !.finished = ses[t].whole]
  <2>1. /\ RunStep /\ ses[t].run \in Working /\ Proceed(t, s)
        /\ goalMet' = goalMet /\ errors' = errors
    BY <1>3 DEF PrepareDone, Working
  <2>2. s \in Sessions /\ s.live
    BY <1>1, <2>1, RunIsHealthy
  <2> HIDE DEF s
  <2>3. /\ ses' \in [Torrents -> Healthy] /\ Reports(cmds')
        /\ \A u \in Torrents \ {t} : ses'[u] = ses[u]
    BY <1>1, <2>1, <2>2, ProceedKeeps
  <2> QED
    BY <1>1, <2>1, <2>3, RunKeeps
<1>4. CASE NoticeOver(t) \/ Flushed(t)
  <2>1. /\ RunStep /\ ses[t].run \in Working /\ Launch(t, ses[t])
        /\ goalMet' = goalMet /\ errors' = errors
    BY <1>4 DEF NoticeOver, Flushed, Working
  <2>2. ses[t] \in Sessions /\ ses[t].live
    BY <1>1, <2>1, RunIsHealthy
  <2>3. /\ ses' \in [Torrents -> Healthy] /\ Reports(cmds')
        /\ \A u \in Torrents \ {t} : ses'[u] = ses[u]
    BY <1>1, <2>1, <2>2, LaunchKeeps
  <2> QED
    BY <1>1, <2>1, <2>3, RunKeeps
<1>5. CASE PrepareFails(t) \/ LastPiece(t) \/ LoopEnds(t) \/ RunFails(t)
  <2>1. /\ RunStep /\ ses[t].run \in Working /\ cmds' = cmds /\ goalMet' = goalMet
        /\ errors' = errors \/ (errors < MaxErrors /\ errors' = errors + 1)
        /\ \/ Session(t, [ses[t] EXCEPT !.state = "error", !.run = "closing"])
           \/ Session(t, [ses[t] EXCEPT !.finished = TRUE, !.whole = TRUE])
           \/ Session(t, [ses[t] EXCEPT !.run = "flushing"])
           \/ Session(t, [ses[t] EXCEPT !.state = "error", !.live = FALSE, !.run = "closing"])
    BY <1>5 DEF PrepareFails, LastPiece, LoopEnds, RunFails, Working
  <2>2. PICK s \in Healthy : Session(t, s)
    BY <1>1, <2>1, RunIsHealthy
  <2>3. /\ ses' \in [Torrents -> Healthy] /\ \A u \in Torrents \ {t} : ses'[u] = ses[u]
    BY <1>1, <2>2, SessionSteps
  <2> QED
    BY <1>1, <1>2, <2>1, <2>3, RunKeeps
<1>6. CASE GoalReached(t)
  <2>1. /\ RunStep /\ goalMet' = goalMet \cup {t}
        /\ cmds' = Append(cmds, [op |-> "goal", t |-> t]) /\ ses' = ses /\ errors' = errors
    BY <1>6 DEF GoalReached
  <2>2. Reports(cmds') /\ goalMet \subseteq goalMet' /\ goalMet' \in SUBSET Torrents
    BY <1>1, <2>1 DEF Reports
  <2> QED
    BY <1>1, <2>1, <2>2, RunKeeps
<1>7. CASE RunEnds(t)
  <2> DEFINE end == IF ses[t].finished THEN "completed" ELSE "stopped"
             s == [ses[t] EXCEPT !.run = "none", !.live = FALSE,
                     !.state = IF @ \in {"error", "paused", "stopped"} THEN @ ELSE end]
  <2>1. RunStep /\ Session(t, s) /\ UNCHANGED <<cmds, goalMet, errors>>
    BY <1>7 DEF RunEnds
  <2>2. s.run = "none"
    BY <1>1 DEF Healthy, Sessions
  <2>3. s \in Healthy
    BY <1>1, EndedIsHealthy
  <2> HIDE DEF s
  <2>4. /\ ses' \in [Torrents -> Healthy] /\ \A u \in Torrents \ {t} : ses'[u] = ses[u]
        /\ ses'[t].run \notin Working
    BY <1>1, <2>1, <2>2, <2>3, SessionSteps DEF Working
  <2> QED
    BY <1>1, <1>2, <2>1, <2>4, RunKeeps
<1> QED
  BY <1>3, <1>4, <1>5, <1>6, <1>7

(* The sessions a Force Recheck leaves.                                     *)
LEMMA RecheckIsHealthy ==
  ASSUME NEW s \in Healthy
  PROVE  /\ [s EXCEPT !.prepared = FALSE, !.finished = FALSE] \in Healthy
         /\ [s EXCEPT !.prepared = FALSE, !.finished = FALSE].run = s.run
         /\ [s EXCEPT !.state = "checking", !.live = TRUE, !.from = "none",
                      !.run = "recheck"] \in Healthy
         /\ [s EXCEPT !.state = "error", !.live = FALSE, !.run = "none"] \in Healthy
<1>1. /\ [s EXCEPT !.prepared = FALSE, !.finished = FALSE] \in Healthy
      /\ [s EXCEPT !.prepared = FALSE, !.finished = FALSE].run = s.run
  BY ZenonT(60) DEF Healthy, Sessions, Working, Shown
<1>2. [s EXCEPT !.state = "checking", !.live = TRUE, !.from = "none", !.run = "recheck"] \in Healthy
  BY ZenonT(60) DEF Healthy, Sessions, Working, Shown
<1>3. [s EXCEPT !.state = "error", !.live = FALSE, !.run = "none"] \in Healthy
  BY ZenonT(60) DEF Healthy, Sessions, Working, Shown
<1> QED
  BY <1>1, <1>2, <1>3

LEMMA RecheckedIsHealthy ==
  ASSUME NEW r \in Healthy
  PROVE  LET s == [r EXCEPT !.prepared = TRUE, !.finished = r.whole, !.run = "none",
                            !.live = FALSE, !.state = "stopped"] IN
         /\ s \in Healthy /\ s.run = "none"
         /\ [s EXCEPT !.state = "paused", !.from = "downloading"] \in Healthy
         /\ [s EXCEPT !.state = "paused", !.from = "downloading"].run = "none"
         /\ [s EXCEPT !.state = "idle"] \in Healthy /\ [s EXCEPT !.state = "idle"].run = "none"
<1> DEFINE s == [r EXCEPT !.prepared = TRUE, !.finished = r.whole, !.run = "none",
                          !.live = FALSE, !.state = "stopped"]
<1>1. s \in Healthy /\ s.run = "none" /\ ~ s.live /\ s \in Sessions
  <2>1. s \in Sessions
    BY ZenonT(60) DEF Healthy, Sessions
  <2>2. s.run = "none" /\ ~ s.live /\ s.state = "stopped"
    BY ZenonT(60) DEF Healthy, Sessions
  <2> HIDE DEF s
  <2> QED
    BY <2>1, <2>2 DEF Healthy, Working, Shown
<1> HIDE DEF s
<1>2. /\ [s EXCEPT !.state = "paused", !.from = "downloading"] \in Healthy
      /\ [s EXCEPT !.state = "paused", !.from = "downloading"].run = "none"
  BY <1>1, ZenonT(60) DEF Healthy, Sessions, Working, Shown
<1>3. [s EXCEPT !.state = "idle"] \in Healthy /\ [s EXCEPT !.state = "idle"].run = "none"
  BY <1>1, ZenonT(60) DEF Healthy, Sessions, Working, Shown
<1> QED
  BY <1>1, <1>2, <1>3 DEF s

(* A Force Recheck that changes at most its own session and ends no work     *)
(* but its own.                                                             *)
LEMMA RecheckKeeps ==
  ASSUME QueueInv, NEW t \in Torrents, NEW from, NEW to \in Progress, RecheckStep(t, from, to),
         errors' = errors \/ (errors < MaxErrors /\ errors' = errors + 1),
         explicit' \in SUBSET Torrents, spawned' \in SUBSET Torrents,
         \A u \in spawned' : u \in spawned \/ intent[u] = "active",
         ses' \in [Torrents -> Healthy],
         \A u \in Torrents : ses'[u].run \in Working => ses[u].run \in Working
  PROVE  QueueInv'
<1>1. /\ UNCHANGED <<known, intent, urgent, place, batch, removing, commands, cmds, goalMet>>
      /\ recheck' = [recheck EXCEPT ![t] = to]
  BY DEF RecheckStep, engine
<1>2. errors' \in 0 .. MaxErrors
  BY QueueAssumption DEF QueueInv, QueueTypes, QueueAssumption
<1>3. /\ recheck' \in [Torrents -> Progress] /\ goalMet \subseteq goalMet'
      /\ goalMet' \in SUBSET Torrents /\ Reports(cmds')
  BY <1>1 DEF QueueInv, QueueTypes, Progress, Reports
<1> QED
  BY <1>1, <1>2, <1>3, StepKeeps

LEMMA RecheckStepsKeep ==
  ASSUME QueueInv, NEW t \in Torrents,
         \/ RecheckBegins(t) \/ RecheckWaited(t) \/ Invalidate(t) \/ RecheckStarts(t)
         \/ RecheckEnds(t) \/ RecheckFails(t) \/ RecheckCancelled(t)
  PROVE  QueueInv'
<1>1. /\ ses \in [Torrents -> Healthy] /\ ses[t] \in Healthy /\ known \in SUBSET Torrents
      /\ explicit \in SUBSET Torrents /\ spawned \in SUBSET Torrents
  BY DEF QueueInv, QueueTypes
<1>2. \A to \in Progress : to \in Progress
  OBVIOUS
<1>3. "none" \notin Working /\ "recheck" \notin Working
  BY DEF Working
<1>4. ASSUME NEW s \in Healthy, Session(t, s), s.run \in Working => ses[t].run \in Working
      PROVE  /\ ses' \in [Torrents -> Healthy]
             /\ \A u \in Torrents : ses'[u].run \in Working => ses[u].run \in Working
  BY <1>1, <1>4, SessionSteps
<1>5. CASE RecheckBegins(t)
  <2>1. PICK to \in {"wait", "invalidate"} : RecheckStep(t, "begin", to)
    BY <1>5 DEF RecheckBegins
  <2>2. UNCHANGED <<explicit, spawned, errors>>
        /\ (Session(t, Stopped(ses[t])) \/ UNCHANGED ses)
    BY <1>5 DEF RecheckBegins
  <2>3. /\ ses' \in [Torrents -> Healthy]
        /\ \A u \in Torrents : ses'[u].run \in Working => ses[u].run \in Working
    BY <1>1, <1>3, <1>4, <2>2, StoppedIsHealthy
  <2> QED
    BY <1>1, <2>1, <2>2, <2>3, RecheckKeeps DEF Progress
<1>6. CASE RecheckWaited(t) \/ RecheckCancelled(t)
  <2>1. PICK from \in Progress, to \in Progress : RecheckStep(t, from, to)
    BY <1>6 DEF RecheckWaited, RecheckCancelled, Progress
  <2>2. UNCHANGED <<explicit, spawned, ses, errors>>
    BY <1>6 DEF RecheckWaited, RecheckCancelled
  <2> QED
    BY <1>1, <2>1, <2>2, RecheckKeeps
<1>7. CASE Invalidate(t)
  <2>1. /\ RecheckStep(t, "invalidate", "invalidated") /\ UNCHANGED <<explicit, spawned, errors>>
        /\ Session(t, [ses[t] EXCEPT !.prepared = FALSE, !.finished = FALSE])
    BY <1>7 DEF Invalidate
  <2>2. /\ ses' \in [Torrents -> Healthy]
        /\ \A u \in Torrents : ses'[u].run \in Working => ses[u].run \in Working
    BY <1>1, <1>4, <2>1, RecheckIsHealthy
  <2> QED
    BY <1>1, <2>1, <2>2, RecheckKeeps DEF Progress
<1>8. CASE RecheckStarts(t)
  <2> DEFINE s == [ses[t] EXCEPT !.state = "checking", !.live = TRUE, !.from = "none",
                                 !.run = "recheck"]
  <2>1. PICK to \in {"none", "checking"} : RecheckStep(t, "invalidated", to)
    BY <1>8 DEF RecheckStarts
  <2>2. UNCHANGED <<explicit, spawned, errors>> /\ (Session(t, s) \/ UNCHANGED ses)
    BY <1>8 DEF RecheckStarts
  <2>3. s \in Healthy
    BY <1>1, RecheckIsHealthy
  <2>4. s.run = "recheck"
    BY <1>1 DEF Healthy, Sessions
  <2> HIDE DEF s
  <2>5. /\ ses' \in [Torrents -> Healthy]
        /\ \A u \in Torrents : ses'[u].run \in Working => ses[u].run \in Working
    BY <1>1, <1>3, <1>4, <2>2, <2>3, <2>4
  <2> QED
    BY <1>1, <2>1, <2>2, <2>5, RecheckKeeps DEF Progress
<1>9. CASE RecheckEnds(t)
  <2> DEFINE s == [ses[t] EXCEPT !.prepared = TRUE, !.finished = ses[t].whole, !.run = "none",
                                 !.live = FALSE, !.state = "stopped"]
             S == [ses EXCEPT ![t] = s]
             E == explicit \cup {t}
             paused == [s EXCEPT !.state = "paused", !.from = "downloading"]
             idle == [s EXCEPT !.state = "idle"]
  <2>1. /\ RecheckStep(t, "checking", "none") /\ errors' = errors
        /\ \/ Rebalance(known, intent, urgent, E, S)
           \/ /\ UNCHANGED <<explicit, spawned>>
              /\ Session(t, paused) \/ Session(t, idle) \/ Session(t, s)
    BY <1>9 DEF RecheckEnds
  <2>2. /\ s \in Healthy /\ s.run = "none" /\ paused \in Healthy /\ paused.run = "none"
        /\ idle \in Healthy /\ idle.run = "none"
    BY <1>1, RecheckedIsHealthy
  <2> HIDE DEF s, paused, idle
  <2>3. /\ S \in [Torrents -> Healthy] /\ E \in SUBSET Torrents
        /\ \A u \in Torrents : S[u].run \in Working => ses[u].run \in Working
    BY <1>1, <1>3, <2>2
  <2> HIDE DEF S, E
  <2>4. /\ ses' \in [Torrents -> Healthy]
        /\ \A u \in Torrents : ses'[u].run \in Working => ses[u].run \in Working
        /\ explicit' \in SUBSET Torrents /\ spawned' \in SUBSET Torrents
        /\ \A u \in spawned' : u \in spawned \/ intent[u] = "active"
    <3>1. CASE Rebalance(known, intent, urgent, E, S)
      <4>1. ASSUME NEW T \in [Torrents -> Healthy], NEW F \in SUBSET Torrents,
                   Rebalance(known, intent, urgent, F, T)
            PROVE  /\ ses' \in [Torrents -> Healthy]
                   /\ \A u \in Torrents : ses'[u].run = T[u].run
                   /\ spawned' \in SUBSET Torrents /\ explicit' \in SUBSET Torrents
                   /\ \A u \in spawned' : u \in spawned \/ intent[u] = "active"
        BY <1>1, <4>1, RebalanceKeeps
      <4> QED
        BY <2>3, <3>1, <4>1
    <3>2. CASE /\ UNCHANGED <<explicit, spawned>>
               /\ Session(t, paused) \/ Session(t, idle) \/ Session(t, s)
      BY <1>1, <1>3, <1>4, <2>2, <3>2
    <3> QED
      BY <2>1, <3>1, <3>2
  <2> QED
    BY <1>1, <2>1, <2>4, RecheckKeeps DEF Progress
<1>10. CASE RecheckFails(t)
  <2> DEFINE s == [ses[t] EXCEPT !.state = "error", !.live = FALSE, !.run = "none"]
  <2>1. /\ RecheckStep(t, "checking", "none") /\ UNCHANGED <<explicit, spawned>>
        /\ errors < MaxErrors /\ errors' = errors + 1 /\ Session(t, s)
    BY <1>10 DEF RecheckFails
  <2>2. s \in Healthy
    BY <1>1, RecheckIsHealthy
  <2>3. s.run = "none"
    BY <1>1 DEF Healthy, Sessions
  <2> HIDE DEF s
  <2>4. /\ ses' \in [Torrents -> Healthy]
        /\ \A u \in Torrents : ses'[u].run \in Working => ses[u].run \in Working
    BY <1>1, <1>3, <1>4, <2>1, <2>2, <2>3
  <2> QED
    BY <1>1, <2>1, <2>4, RecheckKeeps DEF Progress
<1> QED
  BY <1>5, <1>6, <1>7, <1>8, <1>9, <1>10

(* The engine wakes, times out, or has waited for a removed session.         *)
LEMMA EngineKeeps ==
  ASSUME QueueInv, Wake \/ Timeout \/ Removal
  PROVE  QueueInv'
<1>1. /\ ses \in [Torrents -> Healthy] /\ known \in SUBSET Torrents
      /\ explicit \in SUBSET Torrents /\ spawned \in SUBSET Torrents
      /\ Len(cmds) \in Nat /\ MaxBatch \in Nat
  BY QueueAssumption DEF QueueInv, QueueTypes, QueueAssumption
<1>2. ASSUME NEW n \in 1 .. MaxBatch, TakeBatch(n) PROVE QueueInv'
  <2>1. /\ spawned = {} /\ removing = {} /\ batch' = n /\ n <= Len(cmds)
        /\ UNCHANGED <<manager, cmds, removing, spawned, recheck, ses, goalMet, commands, errors>>
    BY <1>2 DEF TakeBatch, LoopFree
  <2>2. QueueTypes'
    BY <2>1 DEF QueueInv, QueueTypes, manager
  <2>3. GoalsMet' /\ StopAhead'
    BY <2>1 DEF QueueInv, GoalsMet, StopAhead, manager
  <2> QED
    BY <2>2, <2>3 DEF QueueInv
<1>3. ASSUME NEW K \in SUBSET known, NEW E \in SUBSET Torrents, NEW n \in 0 .. MaxBatch - 1,
             n <= Len(cmds), spawned = {}, batch' = n, known' = K, removing' = {},
             Rebalance(K, intent, urgent, E, ses),
             UNCHANGED <<intent, urgent, place, cmds, recheck, goalMet, commands, errors>>
      PROVE  QueueInv'
  <2>1. /\ ses' \in [Torrents -> Healthy]
        /\ \A u \in Torrents : ses'[u].run = ses[u].run
        /\ spawned' \in SUBSET Torrents /\ explicit' \in SUBSET Torrents
        /\ \A u \in spawned' : u \in spawned \/ intent[u] = "active"
    <3>1. K \in SUBSET Torrents
      BY <1>1
    <3> QED
      BY <1>1, <1>3, <3>1, RebalanceKeeps
  <2>2. batch' \in 0 .. MaxBatch /\ batch' <= Len(cmds')
    BY <1>1, <1>3
  <2>3. QueueTypes'
    BY <1>1, <1>3, <2>1, <2>2 DEF QueueInv, QueueTypes
  <2>4. GoalsMet'
    BY <1>3 DEF QueueInv, GoalsMet
  <2>5. StopAhead'
    BY <1>1, <1>3, <2>1, StopStays
  <2> QED
    BY <2>3, <2>4, <2>5 DEF QueueInv
<1>4. ASSUME NEW n \in 0 .. MaxBatch - 1, Tick(n) PROVE QueueInv'
  BY <1>1, <1>3, <1>4 DEF Tick, LoopFree
<1>5. ASSUME NEW t \in Torrents, NEW n \in 0 .. MaxBatch - 1, FinishRemoval(t, n)
      PROVE  QueueInv'
  <2>1. /\ spawned = {} /\ n <= Len(cmds) /\ removing' = {} /\ batch' = n
        /\ known' = known \ {t}
        /\ Rebalance(known', intent, urgent, explicit \ {t}, ses)
        /\ UNCHANGED <<intent, urgent, place, cmds, recheck, goalMet, commands, errors>>
    BY <1>5 DEF FinishRemoval, LoopFree
  <2>2. Rebalance(known \ {t}, intent, urgent, explicit \ {t}, ses)
    BY <2>1
  <2>3. known \ {t} \in SUBSET known /\ explicit \ {t} \in SUBSET Torrents
    BY <1>1
  <2> QED
    BY <1>3, <2>1, <2>2, <2>3
<1> QED
  BY <1>2, <1>4, <1>5 DEF Wake, Timeout, Removal

LEMMA NextKeeps == QueueInv /\ [Next]_vars => QueueInv'
<1> SUFFICES ASSUME QueueInv, [Next]_vars PROVE QueueInv'
  OBVIOUS
<1>1. CASE UserCommands
  BY <1>1, UserKeeps
<1>2. CASE Wake \/ Timeout \/ Removal
  BY <1>2, EngineKeeps
<1>3. CASE Handle
  BY <1>3, HandleKeeps
<1>4. ASSUME NEW t \in Torrents,
             RunAdvances(t) \/ RecheckAdvances(t) \/ Pausable(t) \/ Environment(t)
      PROVE  QueueInv'
  BY <1>4, StartKeeps, RunStepsKeep, RecheckStepsKeep
     DEF RunAdvances, RecheckAdvances, Pausable, Environment
<1>5. CASE UNCHANGED vars
  BY <1>5 DEF vars, manager, engine, QueueInv, QueueTypes, GoalsMet, StopAhead
<1> QED
  BY <1>1, <1>2, <1>3, <1>4, <1>5 DEF Next

THEOREM QueueInvHolds == Spec => []QueueInv
  BY InitKeeps, NextKeeps, PTL DEF Spec

--------------------------------------------------------------------------------
(* Every variable of the manager, its engine and the sessions keeps its type. *)
THEOREM QueueTypesHold == Spec => []TypeOK
<1>1. QueueInv => TypeOK
  <2> SUFFICES ASSUME QueueInv PROVE TypeOK
    OBVIOUS
  <2>1. Healthy \subseteq Sessions
    BY DEF Healthy
  <2>2. ses \in [Torrents -> Sessions]
    BY <2>1 DEF QueueInv, QueueTypes
  <2>3. \A i \in DOMAIN cmds : cmds[i].t \in Torrents
    <3>1. DOMAIN cmds = 1 .. Len(cmds) /\ \A i \in 1 .. Len(cmds) : cmds[i] \in Orders
      BY DEF QueueInv, QueueTypes
    <3> QED
      BY <3>1 DEF Orders
  <2> QED
    BY <2>2, <2>3 DEF QueueInv, QueueTypes, TypeOK, Sessions
<1> QED
  BY <1>1, QueueInvHolds, PTL

(* A session that shows itself Checking, Downloading or Seeding is live and  *)
(* has a coroutine, whatever superseded, failed or was stopped                *)
(* (TorrentSession.start and its finally, _run_force_recheck).              *)
THEOREM WorkIsShownTruly == Spec => []ShownIsLive
<1>1. QueueInv => ShownIsLive
  <2> SUFFICES ASSUME QueueInv, NEW t \in Torrents, ses[t].state \in Shown
               PROVE  ses[t].live /\ ses[t].run # "none"
    BY DEF ShownIsLive, Shown
  <2> QED
    BY DEF QueueInv, QueueTypes, Healthy
<1> QED
  BY <1>1, QueueInvHolds, PTL

(* Stop prevails over starts under way, Force Rechecks and the rebalancing    *)
(* for others: a torrent the user stopped works only until the engine comes   *)
(* to that command (stop_torrent, the STOP handler, _rebalance_queue).        *)
THEOREM StopPrevails == Spec => []StopWins
<1>1. QueueInv => StopWins
  <2> SUFFICES ASSUME QueueInv, NEW t \in known \ goalMet, intent[t] = "stopped",
                      ses[t].run \notin {"none", "closing", "recheck"}
               PROVE  \E i \in DOMAIN cmds : cmds[i] = [op |-> "stop", t |-> t]
    BY DEF StopWins
  <2>1. ses[t] \in Sessions
    BY DEF QueueInv, QueueTypes, Healthy
  <2>2. ses[t].run \in Working
    BY <2>1 DEF Sessions, Working
  <2>3. \E i \in 1 .. Len(cmds) : cmds[i] = StopOf(t)
    BY <2>2 DEF QueueInv, StopAhead
  <2>4. DOMAIN cmds = 1 .. Len(cmds)
    BY DEF QueueInv, QueueTypes
  <2> QED
    BY <2>3, <2>4 DEF StopOf
<1> QED
  BY <1>1, QueueInvHolds, PTL

--------------------------------------------------------------------------------
(* Who gets a slot                                                          *)

(* The order of the queue is transitive, so whoever is placed before t has     *)
(* no more before it than t has.                                            *)
LEMMA AheadGrows ==
  ASSUME QueueTypes, NEW C \in SUBSET Torrents, NEW U, NEW t \in Torrents, NEW u \in Torrents,
         Before(u, t, U)
  PROVE  /\ Ahead(t, C, U) \in Nat /\ Ahead(u, C, U) \in Nat
         /\ Ahead(u, C, U) <= Ahead(t, C, U)
<1>1. \A v \in Torrents : place[v] \in Nat
  BY QueueAssumption, FS_CardinalityType DEF QueueTypes, QueueAssumption
<1>2. ASSUME NEW v \in C, Before(v, u, U) PROVE Before(v, t, U)
  <2>1. place[v] \in Nat /\ place[u] \in Nat /\ place[t] \in Nat
    BY <1>1
  <2> QED
    BY <1>2, <2>1 DEF Before
<1>3. {v \in C : Before(v, u, U)} \subseteq {v \in C : Before(v, t, U)}
  BY <1>2
<1>4. IsFiniteSet({v \in C : Before(v, t, U)})
  <2>1. {v \in C : Before(v, t, U)} \subseteq Torrents
    OBVIOUS
  <2> QED
    BY <2>1, QueueAssumption, FS_Subset DEF QueueAssumption
<1> QED
  BY <1>3, <1>4, FS_Subset, FS_CardinalityType DEF Ahead

LEMMA ContinuedIsNotQueued == ASSUME NEW s \in Healthy PROVE Continued(s).state # "queued"
BY DEF Healthy, Sessions, Continued

(* What a grant and a place in the queue say of the step, not of its kind.    *)
Spawns(t) == t \in spawned' \ spawned
Continues(t) ==
  Suspended(ses[t]) /\ ~ Suspended(ses'[t]) /\ ses'[t].live /\ ses'[t].run = ses[t].run

(* _rebalance_queue, of sessions that a command may have paused or stopped:   *)
(* whoever is granted a slot was among the first, and those before it are      *)
(* granted one as well.                                                     *)
LEMMA RebalanceInOrder ==
  ASSUME QueueTypes, NEW K \in SUBSET Torrents, NEW I, NEW U, NEW E, NEW S \in [Torrents -> Healthy],
         Rebalance(K, I, U, E, S), known' = K, intent' = I, urgent' = U, place' = place,
         NEW t \in Torrents, NEW u \in Torrents,
         S[t] = ses[t] \/ ~ S[t].live \/ ~ Suspended(ses[t]),
         Granted(t)
  PROVE  ~ PassedOver(u, t)
<1> DEFINE willing == {v \in K : I[v] = "active" /\ (S[v].state # "error" \/ v \in E)}
           seeds == {v \in willing : S[v].finished /\ ~ S[v].live}
           active == {v \in K : I[v] = "active" /\ ActiveDownload(S[v])}
           candidates == {v \in willing : ~ S[v].finished} \ active
           room == IF Slots = 0 THEN Cardinality(candidates) ELSE Slots - Cardinality(active)
           startable == {v \in candidates : ~ S[v].live \/ Suspended(S[v])}
           promoted == {v \in startable : Ahead(v, startable, U) < room}
           waiting(v) == v \in candidates /\ Ahead(v, startable, U) >= room
<1>1. /\ ses' = [v \in Torrents |->
                   IF v \in promoted /\ S[v].live THEN Continued(S[v])
                   ELSE IF waiting(v) THEN Queued(S[v]) ELSE S[v]]
      /\ spawned' = spawned \cup seeds \cup {v \in promoted : ~ S[v].live}
  BY DEF Rebalance
<1>2. \A v \in Torrents : S[v] \in Sessions
  BY DEF Healthy
<1>3. ASSUME NEW v \in Torrents
      PROVE  ses'[v].finished = S[v].finished /\ ses'[v].live = S[v].live
  BY <1>1, <1>2 DEF Continued, Queued, Sessions
<1>4. t \in promoted
  <2>1. CASE Spawns(t)
    BY <1>1, <1>3, <2>1 DEF Granted, Spawns
  <2>2. CASE Continues(t)
    <3>1. S[t].live /\ S[t] = ses[t] /\ Suspended(S[t]) /\ ~ Suspended(ses'[t])
      BY <1>3, <2>2 DEF Continues
    <3>2. Suspended(Queued(S[t]))
      BY <1>2, <3>1 DEF Suspended, Queued, Sessions
    <3> QED
      BY <1>1, <3>1, <3>2
  <2> QED
    BY <2>1, <2>2 DEF Granted, Spawns, Continues
<1> SUFFICES ASSUME PassedOver(u, t) PROVE FALSE
  OBVIOUS
<1>5. /\ u \in K /\ I[u] = "active" /\ u \notin spawned'
      /\ ses'[u].state = "queued" /\ ~ S[u].finished /\ Before(u, t, U)
  BY <1>3 DEF PassedOver, Before
<1>6. ~ (u \in promoted /\ S[u].live)
  <2>1. Continued(S[u]).state # "queued"
    BY ContinuedIsNotQueued
  <2> QED
    BY <1>1, <1>5, <2>1
<1>7. u \notin promoted
  BY <1>1, <1>5, <1>6
<1>8. u \in startable
  <2>1. CASE waiting(u)
    BY <1>1, <1>2, <1>5, <1>6, <2>1 DEF Queued, Suspended, Sessions
  <2>2. CASE ~ waiting(u)
    <3>1. S[u].state = "queued"
      BY <1>1, <1>5, <1>6, <2>2
    <3> QED
      BY <1>5, <3>1 DEF ActiveDownload, Suspended
  <2> QED
    BY <2>1, <2>2
<1> HIDE DEF willing, seeds, candidates, active, startable, room
<1>9. startable \in SUBSET Torrents
  BY DEF startable, candidates, willing
<1>10. /\ Ahead(t, startable, U) \in Nat /\ Ahead(u, startable, U) \in Nat
       /\ Ahead(u, startable, U) <= Ahead(t, startable, U)
  BY <1>5, <1>9, AheadGrows
<1>11. room \in Int
  <2>1. candidates \in SUBSET Torrents /\ active \in SUBSET Torrents
    BY DEF candidates, active, willing
  <2>2. Cardinality(candidates) \in Nat /\ Cardinality(active) \in Nat /\ Slots \in Nat
    BY <2>1, QueueAssumption, FS_Subset, FS_CardinalityType DEF QueueAssumption
  <2> QED
    BY <2>2 DEF room
<1>12. Ahead(u, startable, U) < room
  BY <1>4, <1>10, <1>11
<1> QED
  BY <1>7, <1>8, <1>12

(* Steps that rebalance nothing grant nothing: they end, halt or move a run.   *)
LEMMA NothingGranted ==
  ASSUME QueueTypes, NEW x \in Torrents, NEW s, Session(x, s), spawned' \subseteq spawned,
         Suspended(ses[x]) => Suspended(s) \/ ~ s.live \/ s.run # ses[x].run,
         NEW t \in Torrents
  PROVE  ~ Granted(t)
<1>1. ses' = [ses EXCEPT ![x] = s] /\ ses \in [Torrents -> Healthy]
  BY DEF Session, QueueTypes
<1>2. CASE t = x
  BY <1>1, <1>2 DEF Granted
<1>3. CASE t # x
  BY <1>1, <1>3 DEF Granted
<1> QED
  BY <1>2, <1>3

LEMMA NothingChanged ==
  ASSUME ses' = ses, spawned' \subseteq spawned, NEW t PROVE ~ Granted(t)
BY DEF Granted

LEMMA LaunchMoves ==
  ASSUME NEW x \in Torrents, NEW s \in Sessions, Launch(x, s)
  PROVE  \E n : Session(x, n) /\ n.run \in {"downloading", "closing", "seeding"}
<1> DEFINE a == [s EXCEPT !.state = "downloading", !.run = "downloading"]
           b == [s EXCEPT !.state = "seeding", !.run = "closing"]
           c == [s EXCEPT !.state = "seeding", !.run = "seeding"]
<1>1. a.run = "downloading" /\ b.run = "closing" /\ c.run = "seeding"
  BY DEF Sessions
<1>2. Session(x, a) \/ Session(x, b) \/ Session(x, c)
  BY Zenon DEF Launch
<1> HIDE DEF a, b, c
<1> QED
  BY <1>1, <1>2

LEMMA ProceedMoves ==
  ASSUME NEW x \in Torrents, NEW s \in Sessions, Proceed(x, s)
  PROVE  \E n : Session(x, n) /\ n.run \in {"notice", "downloading", "closing", "seeding"}
<1>1. CASE Session(x, [s EXCEPT !.state = "fast_resume", !.run = "notice"])
  <2>1. [s EXCEPT !.state = "fast_resume", !.run = "notice"].run = "notice"
    BY DEF Sessions
  <2> QED
    BY <1>1, <2>1
<1>2. CASE Launch(x, s)
  BY <1>2, LaunchMoves
<1> QED
  BY <1>1, <1>2 DEF Proceed

(* A session that a command has paused or stopped.                          *)
LEMMA CommandedSession ==
  ASSUME QueueTypes, NEW x \in Torrents, NEW t \in Torrents
  PROVE  /\ [ses EXCEPT ![x] = Paused(@)] \in [Torrents -> Healthy]
         /\ [ses EXCEPT ![x] = Stopped(@)] \in [Torrents -> Healthy]
         /\ LET S == [ses EXCEPT ![x] = Paused(@)] IN S[t] = ses[t] \/ ~ Suspended(ses[t])
         /\ LET S == [ses EXCEPT ![x] = Stopped(@)] IN S[t] = ses[t] \/ ~ S[t].live
<1>1. ses \in [Torrents -> Healthy] /\ ses[x] \in Healthy /\ ses[x] \in Sessions
  BY DEF QueueTypes, Healthy
<1>2. Paused(ses[x]) \in Healthy /\ Stopped(ses[x]) \in Healthy
  BY <1>1, PausedIsHealthy, StoppedIsHealthy
<1>3. Suspended(ses[x]) => Paused(ses[x]) = ses[x]
  BY DEF Suspended, Paused
<1>4. ~ Stopped(ses[x]).live
  BY <1>1 DEF Stopped, Sessions
<1> QED
  BY <1>1, <1>2, <1>3, <1>4

LEMMA HandledInOrder ==
  ASSUME QueueTypes, Handle, NEW t \in Torrents, NEW u \in Torrents, Granted(t)
  PROVE  ~ PassedOver(u, t)
<1>1. /\ known \in SUBSET Torrents /\ ses \in [Torrents -> Healthy]
  BY DEF QueueTypes
<1>2. ASSUME NEW I, NEW U, NEW E, NEW S \in [Torrents -> Healthy], Rebalance(known, I, U, E, S),
             known' = known, intent' = I, urgent' = U, place' = place,
             S[t] = ses[t] \/ ~ S[t].live \/ ~ Suspended(ses[t])
      PROVE  ~ PassedOver(u, t)
  BY <1>1, <1>2, RebalanceInOrder
<1>3. PICK x \in Torrents :
        \/ HandleStart(x) \/ HandlePause(x) \/ HandleStop(x) \/ HandleGoal(x)
        \/ HandlePriority(x) \/ HandleRebalance(x) \/ HandleRecheck(x) \/ HandleRemove(x)
        \/ \E op \in {"start", "pause", "stop", "goal", "priority", "recheck", "remove"} :
             HandleUnknown(op, x)
  BY DEF Handle
<1>4. CASE HandleStart(x) \/ HandlePriority(x) \/ HandleRebalance(x)
  BY <1>1, <1>2, <1>4 DEF HandleStart, HandlePriority, HandleRebalance
<1>5. CASE HandlePause(x)
  <2> DEFINE S == [ses EXCEPT ![x] = Paused(@)]
  <2>1. S \in [Torrents -> Healthy] /\ (S[t] = ses[t] \/ ~ Suspended(ses[t]))
    BY CommandedSession
  <2>2. Rebalance(known, intent, urgent, explicit, S) /\ UNCHANGED <<known, intent, urgent, place>>
    BY <1>5 DEF HandlePause
  <2> HIDE DEF S
  <2> QED
    BY <1>2, <2>1, <2>2
<1>6. CASE HandleStop(x) \/ HandleGoal(x)
  <2> DEFINE S == [ses EXCEPT ![x] = Stopped(@)]
  <2>1. S \in [Torrents -> Healthy] /\ (S[t] = ses[t] \/ ~ S[t].live)
    BY CommandedSession
  <2>2. Rebalance(known, intent', urgent, explicit \ {x}, S) /\ UNCHANGED <<known, urgent, place>>
    BY <1>6 DEF HandleStop, HandleGoal
  <2> HIDE DEF S
  <2> QED
    BY <1>2, <2>1, <2>2
<1>7. CASE HandleRemove(x)
  <2>1. Session(x, Stopped(ses[x])) /\ spawned' = spawned /\ ses[x] \in Sessions
    BY <1>1, <1>7 DEF HandleRemove, Session, Healthy
  <2>2. ~ Stopped(ses[x]).live
    BY <2>1 DEF Stopped, Sessions
  <2> QED
    BY <2>1, <2>2, NothingGranted
<1>8. CASE HandleRecheck(x) \/ \E op : HandleUnknown(op, x)
  BY <1>8, NothingChanged DEF HandleRecheck, HandleUnknown
<1> QED
  BY <1>3, <1>4, <1>5, <1>6, <1>7, <1>8

LEMMA RunGrantsNothing ==
  ASSUME QueueTypes, NEW x \in Torrents, NEW t \in Torrents,
         \/ StartBegins(x) \/ PrepareDone(x) \/ PrepareFails(x) \/ NoticeOver(x) \/ LastPiece(x)
         \/ LoopEnds(x) \/ Flushed(x) \/ RunFails(x) \/ GoalReached(x) \/ RunEnds(x)
  PROVE  ~ Granted(t)
<1>1. ses[x] \in Healthy /\ ses[x] \in Sessions
  BY DEF QueueTypes, Healthy
<1>2. CASE StartBegins(x)
  <2> DEFINE s == [ses[x] EXCEPT !.live = TRUE, !.from = "none"]
  <2>1. /\ spawned' \subseteq spawned
        /\ \/ UNCHANGED ses
           \/ ~ ses[x].live /\ Proceed(x, s)
           \/ ~ ses[x].live /\ \E n : Session(x, n)
    BY <1>2 DEF StartBegins
  <2>2. s \in Sessions
    BY <1>1 DEF Sessions
  <2>3. UNCHANGED ses \/ (~ Suspended(ses[x]) /\ \E n : Session(x, n))
    BY <2>1, <2>2, ProceedMoves DEF Suspended
  <2> QED
    BY <2>1, <2>3, NothingChanged, NothingGranted
<1>3. CASE PrepareDone(x)
  <2> DEFINE s == [ses[x] EXCEPT !.prepared = TRUE, !.finished = ses[x].whole]
  <2>1. s \in Sessions
    BY <1>1 DEF Sessions
  <2>2. spawned' = spawned /\ ses[x].run = "preparing" /\ Proceed(x, s)
    BY <1>3 DEF PrepareDone, RunStep
  <2> HIDE DEF s
  <2>3. \E n : Session(x, n) /\ n.run # ses[x].run
    BY <2>1, <2>2, ProceedMoves
  <2> QED
    BY <2>2, <2>3, NothingGranted
<1>4. CASE NoticeOver(x) \/ Flushed(x)
  <2>1. spawned' = spawned /\ ses[x].run \in {"notice", "flushing"} /\ Launch(x, ses[x])
    BY <1>4 DEF NoticeOver, Flushed, RunStep
  <2>2. \E n : Session(x, n) /\ n.run # ses[x].run
    BY <1>1, <2>1, LaunchMoves
  <2> QED
    BY <2>1, <2>2, NothingGranted
<1>5. CASE PrepareFails(x) \/ LoopEnds(x) \/ RunFails(x) \/ RunEnds(x)
  <2> DEFINE end == IF ses[x].finished THEN "completed" ELSE "stopped"
             ended == [ses[x] EXCEPT !.run = "none", !.live = FALSE,
                         !.state = IF @ \in {"error", "paused", "stopped"} THEN @ ELSE end]
             failed == [ses[x] EXCEPT !.state = "error", !.live = FALSE, !.run = "closing"]
             unprepared == [ses[x] EXCEPT !.state = "error", !.run = "closing"]
             flushing == [ses[x] EXCEPT !.run = "flushing"]
  <2>1. /\ spawned' = spawned
        /\ \/ ses[x].run = "preparing" /\ Session(x, unprepared)
           \/ ses[x].run = "downloading" /\ Session(x, flushing)
           \/ Session(x, failed) \/ Session(x, ended)
    BY <1>5 DEF PrepareFails, LoopEnds, RunFails, RunEnds, RunStep
  <2>2. unprepared.run = "closing" /\ flushing.run = "flushing" /\ ~ failed.live /\ ~ ended.live
    BY <1>1 DEF Sessions
  <2> HIDE DEF unprepared, flushing, failed, ended
  <2>3. \E n : Session(x, n) /\ (n.run # ses[x].run \/ ~ n.live)
    BY <2>1, <2>2
  <2> QED
    BY <2>1, <2>3, NothingGranted
<1>6. CASE LastPiece(x)
  <2>1. spawned' = spawned /\ Session(x, [ses[x] EXCEPT !.finished = TRUE, !.whole = TRUE])
    BY <1>6 DEF LastPiece, RunStep
  <2>2. Suspended(ses[x]) => Suspended([ses[x] EXCEPT !.finished = TRUE, !.whole = TRUE])
    BY <1>1 DEF Suspended, Sessions
  <2> QED
    BY <2>1, <2>2, NothingGranted
<1>7. CASE GoalReached(x)
  BY <1>7, NothingChanged DEF GoalReached, RunStep
<1> QED
  BY <1>2, <1>3, <1>4, <1>5, <1>6, <1>7

LEMMA RecheckInOrder ==
  ASSUME QueueTypes, NEW x \in Torrents, NEW t \in Torrents, NEW u \in Torrents, Granted(t),
         \/ RecheckBegins(x) \/ RecheckWaited(x) \/ Invalidate(x) \/ RecheckStarts(x)
         \/ RecheckEnds(x) \/ RecheckFails(x) \/ RecheckCancelled(x)
  PROVE  ~ PassedOver(u, t)
<1>1. ses[x] \in Healthy /\ ses[x] \in Sessions /\ ses \in [Torrents -> Healthy]
  BY DEF QueueTypes, Healthy
<1>2. CASE RecheckWaited(x) \/ RecheckCancelled(x)
  BY <1>2, NothingChanged DEF RecheckWaited, RecheckCancelled
<1>3. CASE RecheckBegins(x) \/ Invalidate(x) \/ RecheckStarts(x) \/ RecheckFails(x)
  <2>1. /\ spawned' = spawned
        /\ \/ UNCHANGED ses
           \/ Session(x, Stopped(ses[x]))
           \/ Session(x, [ses[x] EXCEPT !.prepared = FALSE, !.finished = FALSE])
           \/ ~ ses[x].live /\ \E n : Session(x, n)
           \/ Session(x, [ses[x] EXCEPT !.state = "error", !.live = FALSE, !.run = "none"])
    BY <1>3 DEF RecheckBegins, Invalidate, RecheckStarts, RecheckFails
  <2>2. /\ ~ Stopped(ses[x]).live
        /\ ~ [ses[x] EXCEPT !.state = "error", !.live = FALSE, !.run = "none"].live
        /\ Suspended(ses[x]) => Suspended([ses[x] EXCEPT !.prepared = FALSE, !.finished = FALSE])
    BY <1>1 DEF Stopped, Suspended, Sessions
  <2>3. UNCHANGED ses \/ \E n : /\ Session(x, n)
                                /\ Suspended(ses[x]) => Suspended(n) \/ ~ n.live
    BY <2>1, <2>2 DEF Suspended
  <2> QED
    BY <2>1, <2>3, NothingChanged, NothingGranted
<1>4. CASE RecheckEnds(x)
  <2> DEFINE s == [ses[x] EXCEPT !.prepared = TRUE, !.finished = ses[x].whole, !.run = "none",
                                 !.live = FALSE, !.state = "stopped"]
             S == [ses EXCEPT ![x] = s]
  <2>1. s \in Healthy /\ ~ s.live
    BY <1>1 DEF Healthy, Sessions, Shown, Working
  <2>2. /\ UNCHANGED <<known, intent, urgent, place>>
        /\ \/ Rebalance(known, intent, urgent, explicit \cup {x}, S)
           \/ spawned' = spawned /\ Session(x, [s EXCEPT !.state = "paused", !.from = "downloading"])
           \/ spawned' = spawned /\ Session(x, [s EXCEPT !.state = "idle"])
           \/ spawned' = spawned /\ Session(x, s)
    BY <1>4 DEF RecheckEnds, RecheckStep
  <2>3. /\ S \in [Torrents -> Healthy] /\ (S[t] = ses[t] \/ ~ S[t].live)
        /\ known \in SUBSET Torrents
    BY <1>1, <2>1 DEF QueueTypes
  <2>4. /\ ~ [s EXCEPT !.state = "paused", !.from = "downloading"].live
        /\ ~ [s EXCEPT !.state = "idle"].live
    BY <2>1 DEF Healthy, Sessions
  <2> HIDE DEF s, S
  <2>5. CASE Rebalance(known, intent, urgent, explicit \cup {x}, S)
    BY <2>2, <2>3, <2>5, RebalanceInOrder
  <2>6. CASE spawned' = spawned /\ \E n : Session(x, n) /\ ~ n.live
    BY <2>6, NothingGranted
  <2> QED
    BY <2>1, <2>2, <2>4, <2>5, <2>6
<1> QED
  BY <1>2, <1>3, <1>4

LEMMA GrantedInOrder ==
  ASSUME QueueTypes, [Next]_vars, NEW t \in Torrents, NEW u \in Torrents, Granted(t)
  PROVE  ~ PassedOver(u, t)
<1>1. ASSUME ses' = ses, spawned' = spawned PROVE FALSE
  BY <1>1, NothingChanged
<1>2. CASE UserCommands \/ Wake \/ UNCHANGED vars
  BY <1>1, <1>2 DEF UserCommands, StartTorrent, PauseTorrent, StopTorrent, SendCommand, SetQueueOrder,
                    Post, Wake, TakeBatch, vars
<1>3. ASSUME NEW K \in SUBSET Torrents, NEW E, known' = K, Rebalance(K, intent, urgent, E, ses),
             UNCHANGED <<intent, urgent, place>>
      PROVE  ~ PassedOver(u, t)
  BY <1>3, RebalanceInOrder DEF QueueTypes
<1>4. CASE Timeout
  BY <1>3, <1>4 DEF Timeout, Tick, QueueTypes
<1>5. CASE Removal
  <2>1. PICK x \in Torrents, n \in 0 .. MaxBatch - 1 : FinishRemoval(x, n)
    BY <1>5 DEF Removal
  <2>2. /\ known' = known \ {x} /\ Rebalance(known \ {x}, intent, urgent, explicit \ {x}, ses)
        /\ UNCHANGED <<intent, urgent, place>>
    BY <2>1 DEF FinishRemoval
  <2>3. known \ {x} \in SUBSET Torrents
    BY DEF QueueTypes
  <2> QED
    BY <1>3, <2>2, <2>3
<1>6. CASE Handle
  BY <1>6, HandledInOrder
<1>7. ASSUME NEW x \in Torrents, RunAdvances(x) \/ RecheckAdvances(x) \/ Pausable(x) \/ Environment(x)
      PROVE  ~ PassedOver(u, t)
  BY <1>7, RunGrantsNothing, RecheckInOrder DEF RunAdvances, RecheckAdvances, Pausable, Environment
<1> QED
  BY <1>2, <1>4, <1>5, <1>6, <1>7 DEF Next

(* A slot is never given to a torrent while one that is to run, waits in the    *)
(* queue and has the higher priority or the better position is left there,     *)
(* whichever command, removal, recheck or timer gave it away                   *)
(* (_rebalance_queue and its callers).                                      *)
THEOREM SlotsGoInOrder == Spec => QueueOrder
<1>1. QueueInv /\ [Next]_vars => [\A t, u \in Torrents : Granted(t) => ~ PassedOver(u, t)]_vars
  BY GrantedInOrder DEF QueueInv
<1> QED
  BY <1>1, QueueInvHolds, PTL DEF Spec, QueueOrder
================================================================================
