-------------------------- MODULE PieceSchedulerProofs --------------------------
(***************************************************************************)
(* For any peers, pieces, blocks and limits: the types of PieceScheduler and  *)
(* its safety invariants.                                                   *)
(***************************************************************************)
EXTENDS PieceScheduler, FiniteSetTheorems, WellFoundedInduction, TLAPS

--------------------------------------------------------------------------------
(* Operators                                                                *)

LEMMA RankIsOne ==
  ASSUME NEW pr \in [Files -> Ranks], NEW i \in Pieces
  PROVE  PieceRank(pr, i) \in Ranks /\ PieceRank(pr, i) \in 0..3
<1>1. Ranks \subseteq 0..3 /\ DefaultRank \in Ranks /\ FilesOf[i] \subseteq Files
  BY SchedulerAssumption
<1>2. CASE FilesOf[i] = {}
  BY <1>1, <1>2 DEF PieceRank
<1>3. CASE FilesOf[i] # {}
  <2> DEFINE Top(r) == /\ \E f \in FilesOf[i] : pr[f] = r
                       /\ \A f \in FilesOf[i] : pr[f] <= r
  <2>1. \E r \in Ranks : Top(r)
    <3>1. \A f \in FilesOf[i] : pr[f] \in Ranks /\ pr[f] \in 0..3
      BY <1>1
    <3>2. CASE \E f \in FilesOf[i] : pr[f] = 3
      BY <3>1, <3>2
    <3>3. CASE ~ (\E f \in FilesOf[i] : pr[f] = 3) /\ \E f \in FilesOf[i] : pr[f] = 2
      BY <3>1, <3>3
    <3>4. CASE /\ ~ \E f \in FilesOf[i] : pr[f] = 3 \/ pr[f] = 2
               /\ \E f \in FilesOf[i] : pr[f] = 1
      BY <3>1, <3>4
    <3>5. CASE ~ \E f \in FilesOf[i] : pr[f] = 3 \/ pr[f] = 2 \/ pr[f] = 1
      BY <1>3, <3>1, <3>5
    <3> QED
      BY <3>2, <3>3, <3>4, <3>5
  <2>2. PieceRank(pr, i) = CHOOSE r \in Ranks : Top(r)
    BY <1>3 DEF PieceRank
  <2> HIDE DEF Top
  <2> QED
    BY <1>1, <2>1, <2>2
<1> QED
  BY <1>2, <1>3

LEMMA ReadingIsTask == Reading \in TaskType
BY DEF TaskType

LEMMA ReleaseIsTyped ==
  ASSUME TypeOK, NEW Q, NEW S, Release(Q, S)
  PROVE  /\ requesters' \in [Blocks -> SUBSET Peers]
         /\ sent' \in [Blocks -> SUBSET Peers]
         /\ requestsBy' \in [Peers -> SUBSET Blocks]
BY DEF TypeOK, Release

LEMMA ForgetIsTyped ==
  ASSUME TypeOK, NEW Q, NEW S, ForgetOwned(Q, S)
  PROVE  owned' \in [Peers -> SUBSET Blocks]
BY DEF TypeOK, ForgetOwned

LEMMA BucketIsTyped ==
  ASSUME NEW pr \in [Files -> Ranks], NEW i \in Pieces, PieceRank(pr, i) > 0, NEW n \in Nat
  PROVE  <<PieceRank(pr, i), n, i>> \in (1..3) \X Nat \X Pieces
<1>1. PieceRank(pr, i) \in 1..3
  BY RankIsOne
<1> QED
  BY <1>1

LEMMA RebuiltIsTyped ==
  ASSUME NEW pr \in [Files -> Ranks], NEW done, NEW av \in [Pieces -> Nat]
  PROVE  RebuiltBuckets(pr, done, av) \subseteq (1..3) \X Nat \X Pieces
<1> SUFFICES ASSUME NEW i \in Pieces \ done, PieceRank(pr, i) > 0
             PROVE  <<PieceRank(pr, i), av[i], i>> \in (1..3) \X Nat \X Pieces
  BY DEF RebuiltBuckets
<1> QED
  BY BucketIsTyped

LEMMA AdvertiseIsTyped ==
  ASSUME TypeOK, NEW p \in Peers, NEW S \in SUBSET Pieces, Advertise(p, S)
  PROVE  /\ have' \in [Peers -> SUBSET Pieces] /\ avail' \in [Pieces -> Nat]
         /\ buckets' \subseteq (1..3) \X Nat \X Pieces
<1>1. AvailabilityWith(p, S) \in [Pieces -> Nat]
  BY DEF TypeOK, AvailabilityWith
<1>2. have' \in [Peers -> SUBSET Pieces] /\ avail' \in [Pieces -> Nat]
  BY <1>1 DEF TypeOK, Advertise
<1>3. ASSUME NEW i \in Pieces, Wanted(i)
      PROVE  <<PieceRank(prio, i), AvailabilityWith(p, S)[i], i>> \in (1..3) \X Nat \X Pieces
  BY <1>1, <1>3, BucketIsTyped DEF TypeOK, Wanted
<1>4. have[p] \subseteq Pieces /\ buckets \subseteq (1..3) \X Nat \X Pieces
  BY DEF TypeOK
<1>5. MovedBuckets(p, S) \subseteq (1..3) \X Nat \X Pieces
  BY <1>3, <1>4 DEF MovedBuckets
<1> QED
  BY <1>2, <1>5 DEF Advertise

LEMMA RemoveIsTyped ==
  ASSUME TypeOK, NEW i \in Pieces, RemoveFromBuckets(i)
  PROVE  /\ buckets' \subseteq buckets /\ buckets' \subseteq (1..3) \X Nat \X Pieces
         /\ active' \subseteq Pieces
BY DEF TypeOK, RemoveFromBuckets

LEMMA TasksAreTyped ==
  /\ \A b \in Blocks : [at |-> "throttle", block |-> b] \in TaskType
  /\ \A S \in SUBSET Blocks : [at |-> "expire", blocks |-> S] \in TaskType
  /\ \A i \in Pieces : /\ [at |-> "hashfail", piece |-> i] \in TaskType
                       /\ [at |-> "enqueue", piece |-> i] \in TaskType
BY DEF TaskType

LEMMA TaskFields ==
  ASSUME NEW t \in TaskType
  PROVE  /\ t.at = "throttle" => t.block \in Blocks
         /\ t.at = "expire" => t.blocks \in SUBSET Blocks
         /\ t.at \in {"hashfail", "enqueue"} => t.piece \in Pieces
         /\ t.at = "read" => t = Reading
BY DEF TaskType, Reading

LEMMA ResumeIsTyped ==
  ASSUME TypeOK, NEW p \in Peers, Resume(p)
  PROVE  task' \in [Peers -> TaskType]
BY ReadingIsTask DEF TypeOK, Resume

LEMMA FaultIsTyped ==
  ASSUME TypeOK, Fault \/ UNCHANGED faults
  PROVE  faults' \in 0..MaxFaults
BY SchedulerAssumption DEF TypeOK, Fault

LEMMA SomeBlocksAreFinite ==
  ASSUME NEW S, S \subseteq Blocks
  PROVE  IsFiniteSet(S) /\ Cardinality(S) \in Nat
<1>1. IsFiniteSet(Blocks)
  BY SchedulerAssumption
<1> QED
  BY <1>1, FS_Subset, FS_CardinalityType

--------------------------------------------------------------------------------
(* Types                                                                    *)

LEMMA TypesInit == Init => TypeOK
<1> SUFFICES ASSUME Init PROVE TypeOK
  OBVIOUS
<1>1. avail \in [Pieces -> Nat] /\ prio \in [Files -> Ranks]
  BY DEF Init
<1>2. buckets \subseteq (1..3) \X Nat \X Pieces
  BY <1>1, RebuiltIsTyped DEF Init
<1>3. downloaded \in Nat
  BY SomeBlocksAreFinite DEF Init
<1>4. task \in [Peers -> TaskType]
  BY ReadingIsTask DEF Init
<1>5. faults \in 0..MaxFaults
  BY SchedulerAssumption DEF Init
<1> QED
  BY <1>1, <1>2, <1>3, <1>4, <1>5 DEF Init, TypeOK

LEMMA TypesNext ==
  ASSUME TypeOK, [Next]_vars
  PROVE  TypeOK'
<1> USE DEF managerVars, sessionVars, requestVars, pieceVars
<1>1. ASSUME NEW p \in Peers, Connect(p) \/ RecvUnchoke(p) PROVE TypeOK'
  BY <1>1 DEF Connect, RecvUnchoke, TypeOK
<1>2. ASSUME NEW p \in Peers, NEW S \in SUBSET Pieces, Advertise(p, S),
             UNCHANGED <<prio, active, data, requestVars, pieceVars, downloaded, sessionVars, faults>>
      PROVE  TypeOK'
  BY <1>2, AdvertiseIsTyped DEF TypeOK
<1>3. ASSUME NEW p \in Peers, NEW S \in SUBSET Pieces, RecvBitfield(p, S) PROVE TypeOK'
  BY <1>2, <1>3 DEF RecvBitfield
<1>4. ASSUME NEW p \in Peers, NEW i \in Pieces, RecvHave(p, i) PROVE TypeOK'
  <2>1. have[p] \cup {i} \in SUBSET Pieces
    BY DEF TypeOK
  <2> QED
    BY <1>2, <1>4, <2>1 DEF RecvHave
<1>5. ASSUME NEW p \in Peers, RecvChoke(p) PROVE TypeOK'
  <2>1. faults' \in 0..MaxFaults
    BY <1>5, FaultIsTyped DEF RecvChoke
  <2> QED
    BY <1>5, <2>1, ReleaseIsTyped, ForgetIsTyped DEF RecvChoke, TypeOK
<1>6. ASSUME NEW p \in Peers, Disconnect(p) \/ FinishWorker(p) PROVE TypeOK'
  <2>1. WorkerExit(p) /\ faults' \in 0..MaxFaults
    BY <1>6, FaultIsTyped DEF Disconnect, FinishWorker
  <2>2. task' \in [Peers -> TaskType]
    BY <2>1, ResumeIsTyped DEF WorkerExit
  <2>3. /\ have' \in [Peers -> SUBSET Pieces] /\ avail' \in [Pieces -> Nat]
        /\ buckets' \subseteq (1..3) \X Nat \X Pieces
    <3>1. {} \in SUBSET Pieces
      OBVIOUS
    <3> QED
      BY <2>1, <3>1, AdvertiseIsTyped DEF WorkerExit
  <2> QED
    BY <2>1, <2>2, <2>3, ReleaseIsTyped, ForgetIsTyped DEF WorkerExit, TypeOK
<1>7. ASSUME NEW p \in Peers, NEW b \in Blocks, Reserve(p, b) PROVE TypeOK'
  <2>1. PieceOf[b] \in Pieces
    BY SchedulerAssumption
  <2>2. task' \in [Peers -> TaskType]
    BY <1>7, TasksAreTyped DEF Reserve, TypeOK
  <2> QED
    BY <1>7, <2>1, <2>2 DEF Reserve, TypeOK
<1>8. ASSUME NEW p \in Peers, NEW b \in Blocks, ExpireNext(p, b) PROVE TypeOK'
  <2>1. task' \in [Peers -> TaskType]
    <3>1. task[p].at = "expire" => task[p].blocks \in SUBSET Blocks
      BY TaskFields DEF TypeOK
    <3>2. task[p].blocks \ {b} \in SUBSET Blocks
      BY <1>8, <3>1 DEF ExpireNext, IsAt
    <3>3. [at |-> "expire", blocks |-> task[p].blocks \ {b}] \in TaskType
      BY <3>2, TasksAreTyped
    <3> QED
      BY <1>8, <3>3, ReadingIsTask DEF ExpireNext, TypeOK
  <2> QED
    BY <1>8, <2>1, ForgetIsTyped DEF ExpireNext, TypeOK
<1>9. ASSUME NEW p \in Peers, NEW b \in Blocks, CooldownOver(p, b) PROVE TypeOK'
  BY <1>9 DEF CooldownOver, TypeOK
<1>10. ASSUME NEW p \in Peers, SendRequest(p) PROVE TypeOK'
  <2>1. task' \in [Peers -> TaskType] /\ task[p].block \in Blocks
    BY <1>10, ResumeIsTyped, TaskFields DEF SendRequest, TypeOK, IsAt
  <2> QED
    BY <1>10, <2>1 DEF SendRequest, TypeOK
<1>11. ASSUME NEW p \in Peers, AbandonRequest(p) PROVE TypeOK'
  <2>1. task' \in [Peers -> TaskType] /\ faults' \in 0..MaxFaults
    BY <1>11, ResumeIsTyped, FaultIsTyped DEF AbandonRequest
  <2> QED
    BY <1>11, <2>1, ReleaseIsTyped, ForgetIsTyped DEF AbandonRequest, TypeOK
<1>12. ASSUME NEW p \in Peers, NEW S \in SUBSET Blocks, Expire(p, S) PROVE TypeOK'
  <2>1. task' \in [Peers -> TaskType]
    BY <1>12, TasksAreTyped DEF Expire, TypeOK
  <2>2. faults' \in 0..MaxFaults
    BY <1>12, FaultIsTyped DEF Expire
  <2> QED
    BY <1>12, <2>1, <2>2, ReleaseIsTyped DEF Expire, TypeOK
<1>13. ASSUME NEW p \in Peers, NEW b \in Blocks, NEW payload \in Payloads, RecvPiece(p, b, payload)
       PROVE  TypeOK'
  <2>1. PieceOf[b] \in Pieces /\ (payload # "short" => payload \in {"none", "good", "bad"})
    BY SchedulerAssumption
  <2>2. /\ faults' \in 0..MaxFaults /\ wire' \in [Peers -> SUBSET Blocks]
        /\ UNCHANGED <<prio, have, avail, running, connected, choked, retryAfter>>
    <3>1. Fault \/ UNCHANGED faults
      BY <1>13 DEF RecvPiece
    <3> QED
      BY <1>13, <3>1, FaultIsTyped DEF RecvPiece, TypeOK
  <2>3. CASE RejectBlock(p, b)
    <3>1. task' \in [Peers -> TaskType]
      BY <2>3, ResumeIsTyped DEF RejectBlock
    <3> QED
      BY <2>2, <2>3, <3>1, ReleaseIsTyped, ForgetIsTyped DEF RejectBlock, TypeOK
  <2>4. CASE payload # "short" /\ StoreBlock(p, b, payload)
    <3>1. task' \in [Peers -> TaskType]
      BY <2>4, ResumeIsTyped DEF StoreBlock
    <3> QED
      BY <2>1, <2>2, <2>4, <3>1, ReleaseIsTyped, ForgetIsTyped DEF StoreBlock, TypeOK
  <2>5. CASE payload # "short" /\ CompletePiece(p, b, payload)
    <3>1. task' \in [Peers -> TaskType]
      BY <2>1, <2>5, TasksAreTyped DEF CompletePiece, TypeOK
    <3>2. buckets' \subseteq (1..3) \X Nat \X Pieces /\ active' \subseteq Pieces
      BY <2>1, <2>5, RemoveIsTyped DEF CompletePiece
    <3> QED
      BY <2>1, <2>2, <2>5, <3>1, <3>2, ReleaseIsTyped, ForgetIsTyped DEF CompletePiece, TypeOK
  <2>6. CASE FailPiece(p, b)
    <3>1. [at |-> "hashfail", piece |-> PieceOf[b]] \in TaskType
      BY <2>1, TasksAreTyped
    <3>2. task' \in [Peers -> TaskType]
      BY <2>6, <3>1, ReadingIsTask DEF FailPiece, TypeOK
    <3>3. Cardinality(BlocksOf(PieceOf[b])) \in Nat
      BY SomeBlocksAreFinite DEF BlocksOf
    <3>4. downloaded' \in Nat
      BY <2>6, <3>3 DEF FailPiece, TypeOK
    <3>5. data' \in [Blocks -> {"none", "good", "bad"}]
      BY <2>6 DEF FailPiece, TypeOK
    <3>6. /\ requesters' \in [Blocks -> SUBSET Peers] /\ sent' \in [Blocks -> SUBSET Peers]
          /\ requestsBy' \in [Peers -> SUBSET Blocks] /\ owned' \in [Peers -> SUBSET Blocks]
      BY <2>6, ReleaseIsTyped, ForgetIsTyped DEF FailPiece
    <3>7. /\ complete' \subseteq Pieces /\ persisted' \subseteq Pieces
          /\ UNCHANGED <<buckets, active, staged, pinned>>
      BY <2>6 DEF FailPiece, TypeOK
    <3> QED
      BY <2>2, <3>2, <3>4, <3>5, <3>6, <3>7 DEF TypeOK
  <2> QED
    BY <1>13, <2>3, <2>4, <2>5, <2>6 DEF RecvPiece
<1>14. ASSUME NEW p \in Peers, CancelPiece(p) PROVE TypeOK'
  <2>1. task' \in [Peers -> TaskType]
    BY <1>14, ResumeIsTyped DEF CancelPiece
  <2>2. owned' \in [Peers -> SUBSET Blocks]
    BY <1>14, ForgetIsTyped DEF CancelPiece
  <2>3. /\ requesters' \in [Blocks -> SUBSET Peers] /\ sent' \in [Blocks -> SUBSET Peers]
        /\ requestsBy' \in [Peers -> SUBSET Blocks]
    BY <1>14 DEF CancelPiece, TypeOK
  <2> QED
    BY <1>14, <2>1, <2>2, <2>3 DEF CancelPiece, TypeOK
<1>15. ASSUME NEW i \in Pieces, Pin(i), UNCHANGED <<running, connected, choked, owned, retryAfter,
                                                   wire, faults>>,
              task' \in [Peers -> TaskType]
       PROVE  TypeOK'
  BY <1>15 DEF Pin, TypeOK
<1>16. ASSUME NEW p \in Peers, Enqueue(p) PROVE TypeOK'
  <2>1. task' \in [Peers -> TaskType] /\ task[p].piece \in Pieces
    BY <1>16, ResumeIsTyped, TaskFields DEF Enqueue, IsAt, TypeOK
  <2>2. CASE Pin(task[p].piece)
    BY <1>15, <1>16, <2>1, <2>2 DEF Enqueue
  <2>3. CASE UNCHANGED managerVars
    BY <1>16, <2>1, <2>3 DEF Enqueue, TypeOK
  <2> QED
    BY <1>16, <2>2, <2>3 DEF Enqueue
<1>17. ASSUME NEW i \in Pieces, Persist(i) PROVE TypeOK'
  BY <1>17 DEF Persist, TypeOK
<1>18. ASSUME NEW i \in Pieces, FlushStaged(i) PROVE TypeOK'
  <2>1. UNCHANGED <<running, connected, choked, owned, retryAfter, task, wire, faults>>
    BY <1>18 DEF FlushStaged
  <2>2. task' \in [Peers -> TaskType]
    BY <2>1 DEF TypeOK
  <2>3. CASE Pin(i)
    BY <1>15, <2>1, <2>2, <2>3
  <2>4. CASE /\ staged' = staged \ {i}
             /\ UNCHANGED <<prio, have, avail, buckets, active, data, requestVars, complete,
                           persisted, pinned, downloaded>>
    BY <2>1, <2>4 DEF TypeOK
  <2> QED
    BY <1>18, <2>3, <2>4 DEF FlushStaged
<1>19. ASSUME NEW f \in Files, NEW r \in Ranks, SetFilePriority(f, r) PROVE TypeOK'
  <2>1. prio' \in [Files -> Ranks] /\ faults' \in 0..MaxFaults
    BY <1>19, FaultIsTyped DEF SetFilePriority, TypeOK
  <2>2. buckets' \subseteq (1..3) \X Nat \X Pieces
    BY <1>19, <2>1, RebuiltIsTyped DEF SetFilePriority, TypeOK
  <2> QED
    BY <1>19, <2>1, <2>2 DEF SetFilePriority, TypeOK
<1>20. CASE Stop
  <2>1. avail' \in [Pieces -> Nat] /\ have' \in [Peers -> SUBSET Pieces]
    BY <1>20 DEF Stop
  <2>2. buckets' \subseteq (1..3) \X Nat \X Pieces
    BY <1>20, <2>1, RebuiltIsTyped DEF Stop, TypeOK
  <2>3. /\ requesters' \in [Blocks -> SUBSET Peers] /\ sent' \in [Blocks -> SUBSET Peers]
        /\ requestsBy' \in [Peers -> SUBSET Blocks] /\ owned' \in [Peers -> SUBSET Blocks]
        /\ retryAfter' \in [Peers -> SUBSET Blocks] /\ wire' \in [Peers -> SUBSET Blocks]
    BY <1>20 DEF Stop
  <2>4. /\ task' \in [Peers -> TaskType] /\ faults' \in 0..MaxFaults
        /\ connected' \subseteq Peers /\ choked' \subseteq Peers /\ running' \in BOOLEAN
    BY <1>20, ReadingIsTask, FaultIsTyped DEF Stop
  <2> QED
    BY <1>20, <2>1, <2>2, <2>3, <2>4 DEF Stop, TypeOK
<1>21. CASE Restart
  BY <1>21 DEF Restart, TypeOK
<1>22. CASE UNCHANGED vars
  BY <1>22 DEF vars, TypeOK
<1>23. ASSUME NEW p \in Peers, PeerNext(p) PROVE TypeOK'
  BY <1>1, <1>3, <1>4, <1>5, <1>6, <1>7, <1>8, <1>9, <1>10, <1>11, <1>12, <1>13, <1>14, <1>16,
     <1>23 DEF PeerNext
<1> QED
  BY <1>17, <1>18, <1>19, <1>20, <1>21, <1>22, <1>23 DEF Next

--------------------------------------------------------------------------------
(* Ownership                                                                *)

(* What every place that records requests says of a peer and a block.  The    *)
(* part about Expiring is what makes it inductive: what an expiry released is  *)
(* not requested again before the session has processed it.                 *)
Agrees(p, b) ==
  /\ p \in requesters[b] <=> b \in requestsBy[p]
  /\ p \in sent[b] => p \in requesters[b]
  /\ b \in requestsBy[p] => b \in owned[p]
  /\ b \in owned[p] => b \in requestsBy[p] \/ b \in Expiring(p)
  /\ b \in Expiring(p) => b \notin requestsBy[p]
  /\ p \in choked => b \notin requestsBy[p]
  /\ data[b] # "none" \/ PieceOf[b] \in complete => p \notin requesters[b]

AllAgree == \A p \in Peers, b \in Blocks : Agrees(p, b)

LEMMA AgreementIsExact == TypeOK /\ AllAgree => OwnershipExact
<1> SUFFICES ASSUME TypeOK, AllAgree PROVE OwnershipExact
  OBVIOUS
<1> USE DEF TypeOK, AllAgree, Agrees
<1>1. OwnershipMirror
  BY DEF OwnershipMirror
<1>2. OwnedMirror
  BY DEF OwnedMirror
<1>3. HeldUnrequested
  BY DEF HeldUnrequested
<1>4. ChokedOwnsNothing
  BY DEF ChokedOwnsNothing
<1> QED
  BY <1>1, <1>2, <1>3, <1>4 DEF OwnershipExact

LEMMA AgreeInit == Init => AllAgree
BY DEF Init, AllAgree, Agrees, Expiring, Reading

(* Only steps of the task itself change what it is about to expire.          *)
LEMMA ExpiringAfter ==
  ASSUME TypeOK, NEW p \in Peers, NEW q \in Peers, NEW t, task' = [task EXCEPT ![p] = t]
  PROVE  /\ q # p => Expiring(q)' = Expiring(q)
         /\ p = q => Expiring(q)' = IF t.at = "expire" THEN t.blocks ELSE {}
BY DEF Expiring, TypeOK

LEMMA NotExpiring ==
  /\ Reading.at # "expire"
  /\ \A p \in Peers : task[p].at \in {"read", "throttle", "hashfail", "enqueue"} => Expiring(p) = {}
BY DEF Reading, Expiring

LEMMA AgreeNext ==
  ASSUME TypeOK, AllAgree, [Next]_vars
  PROVE  AllAgree'
<1> SUFFICES ASSUME NEW q \in Peers, NEW c \in Blocks PROVE Agrees(q, c)'
  BY DEF AllAgree
<1> USE DEF managerVars, sessionVars, requestVars, pieceVars
<1>0. Agrees(q, c) /\ \A p \in Peers, b \in Blocks : Agrees(p, b)
  BY DEF AllAgree
<1>1. ASSUME UNCHANGED <<requestVars, data, complete, choked, owned, task>> PROVE Agrees(q, c)'
  BY <1>0, <1>1 DEF Agrees, Expiring
<1>2. ASSUME NEW p \in Peers, Connect(p) \/ \E i \in Pieces : RecvHave(p, i) PROVE Agrees(q, c)'
  BY <1>1, <1>2 DEF Connect, RecvHave
<1>3. ASSUME NEW p \in Peers, NEW S \in SUBSET Pieces, RecvBitfield(p, S) PROVE Agrees(q, c)'
  BY <1>1, <1>3 DEF RecvBitfield
<1>4. ASSUME NEW p \in Peers, RecvUnchoke(p) PROVE Agrees(q, c)'
  BY <1>0, <1>4 DEF RecvUnchoke, Agrees, Expiring
<1>5. ASSUME NEW p \in Peers, RecvChoke(p) PROVE Agrees(q, c)'
  <2>1. UNCHANGED <<data, complete, task>> /\ choked' = choked \cup {p} /\ Expiring(p) = {}
    BY <1>5, NotExpiring DEF RecvChoke, IsAt
  <2>2. Expiring(q)' = Expiring(q)
    BY <2>1 DEF Expiring
  <2>3. Release({p}, Blocks) /\ ForgetOwned({p}, Blocks)
    BY <1>5 DEF RecvChoke
  <2> QED
    BY <1>0, <2>1, <2>2, <2>3 DEF Agrees, Release, ForgetOwned, TypeOK
<1>6. ASSUME NEW p \in Peers, Disconnect(p) \/ FinishWorker(p) PROVE Agrees(q, c)'
  <2>1. WorkerExit(p) /\ Expiring(p) = {}
    BY <1>6, NotExpiring DEF Disconnect, FinishWorker, IsAt
  <2>2. UNCHANGED <<data, complete>> /\ choked' = choked \cup {p}
    BY <2>1 DEF WorkerExit
  <2>3. Expiring(q)' = Expiring(q)
    BY <2>1, ExpiringAfter, NotExpiring DEF WorkerExit, Resume
  <2>4. Release({p}, Blocks) /\ ForgetOwned({p}, Blocks)
    BY <2>1 DEF WorkerExit
  <2> QED
    BY <1>0, <2>1, <2>2, <2>3, <2>4 DEF Agrees, Release, ForgetOwned, TypeOK
<1>7. ASSUME NEW p \in Peers, NEW b \in Blocks, Reserve(p, b) PROVE Agrees(q, c)'
  <2>1. data[b] = "none" /\ PieceOf[b] \notin complete
    BY <1>7 DEF Reserve, NextRequests, NextUnrequested, NextDuplicate, Unrequested, Duplicable,
                BlocksOf
  <2>2. Expiring(p) = {} /\ p \notin choked
    BY <1>7, NotExpiring DEF Reserve, IsAt
  <2>3. Expiring(q)' = Expiring(q)
    BY <1>7, <2>2, ExpiringAfter DEF Reserve
  <2>4. /\ UNCHANGED <<data, complete, sent, choked>>
        /\ requesters' = [requesters EXCEPT ![b] = @ \cup {p}]
        /\ requestsBy' = [requestsBy EXCEPT ![p] = @ \cup {b}]
        /\ owned' = [owned EXCEPT ![p] = @ \cup {b}]
    BY <1>7 DEF Reserve
  <2> QED
    BY <1>0, <2>1, <2>2, <2>3, <2>4 DEF Agrees, TypeOK
<1>8. ASSUME NEW p \in Peers, NEW b \in Blocks, ExpireNext(p, b) PROVE Agrees(q, c)'
  <2>1. UNCHANGED <<data, complete, requesters, sent, requestsBy, choked>> /\ ForgetOwned({p}, {b})
    BY <1>8 DEF ExpireNext
  <2>2. Expiring(p) = task[p].blocks /\ b \in Expiring(p)
    BY <1>8 DEF ExpireNext, IsAt, Expiring
  <2>3. Expiring(q)' = IF q = p THEN Expiring(p) \ {b} ELSE Expiring(q)
    <3> DEFINE t == IF task[p].blocks = {b} THEN Reading
                    ELSE [at |-> "expire", blocks |-> task[p].blocks \ {b}]
    <3>1. task' = [task EXCEPT ![p] = t]
      BY <1>8 DEF ExpireNext
    <3>2. (IF t.at = "expire" THEN t.blocks ELSE {}) = task[p].blocks \ {b}
      BY NotExpiring
    <3> HIDE DEF t
    <3> QED
      BY <2>2, <3>1, <3>2, ExpiringAfter
  <2> QED
    BY <1>0, <2>1, <2>2, <2>3 DEF Agrees, ForgetOwned, TypeOK
<1>9. ASSUME NEW p \in Peers, NEW b \in Blocks, CooldownOver(p, b) PROVE Agrees(q, c)'
  BY <1>1, <1>9 DEF CooldownOver
<1>10. ASSUME NEW p \in Peers, SendRequest(p) PROVE Agrees(q, c)'
  <2>1. Expiring(p) = {}
    BY <1>10, NotExpiring DEF SendRequest, IsAt
  <2>2. Expiring(q)' = Expiring(q)
    BY <1>10, <2>1, ExpiringAfter, NotExpiring DEF SendRequest, Resume
  <2> QED
    BY <1>0, <1>10, <2>2 DEF SendRequest, Agrees, TypeOK
<1>11. ASSUME NEW p \in Peers, AbandonRequest(p) PROVE Agrees(q, c)'
  <2>1. Expiring(p) = {} /\ UNCHANGED <<data, complete, choked>>
    BY <1>11, NotExpiring DEF AbandonRequest, IsAt
  <2>2. Expiring(q)' = Expiring(q)
    BY <1>11, <2>1, ExpiringAfter, NotExpiring DEF AbandonRequest, Resume
  <2>3. PICK S : Release({p}, S) /\ ForgetOwned({p}, S)
    BY <1>11 DEF AbandonRequest
  <2> QED
    BY <1>0, <2>1, <2>2, <2>3 DEF Agrees, Release, ForgetOwned, TypeOK
<1>12. ASSUME NEW p \in Peers, NEW S \in SUBSET Blocks, Expire(p, S) PROVE Agrees(q, c)'
  <2>1. Expiring(p) = {} /\ UNCHANGED <<data, complete, choked, owned>>
    BY <1>12, NotExpiring DEF Expire, IsAt
  <2>2. Expiring(q)' = IF q = p THEN S ELSE Expiring(q)
    <3> DEFINE t == [at |-> "expire", blocks |-> S]
    <3>1. task' = [task EXCEPT ![p] = t] /\ t.at = "expire" /\ t.blocks = S
      BY <1>12 DEF Expire
    <3> HIDE DEF t
    <3> QED
      BY <3>1, ExpiringAfter
  <2>3. Release({p}, S) /\ \A b \in S : p \in sent[b]
    BY <1>12 DEF Expire
  <2> QED
    BY <1>0, <2>1, <2>2, <2>3 DEF Agrees, Release, TypeOK
<1>13. ASSUME NEW p \in Peers, NEW b \in Blocks, NEW payload \in Payloads, RecvPiece(p, b, payload)
       PROVE  Agrees(q, c)'
  <2>1. Expiring(p) = {} /\ UNCHANGED choked
    BY <1>13, NotExpiring DEF RecvPiece, IsAt
  <2>2. CASE RejectBlock(p, b)
    <3>1. Expiring(q)' = Expiring(q)
      BY <2>1, <2>2, ExpiringAfter, NotExpiring DEF RejectBlock, Resume
    <3> QED
      BY <1>0, <2>1, <2>2, <3>1 DEF RejectBlock, Agrees, Release, ForgetOwned, TypeOK
  <2>3. CASE StoreBlock(p, b, payload)
    <3>1. Expiring(q)' = Expiring(q)
      BY <2>1, <2>3, ExpiringAfter, NotExpiring DEF StoreBlock, Resume
    <3> QED
      BY <1>0, <2>1, <2>3, <3>1 DEF StoreBlock, Agrees, Release, ForgetOwned, TypeOK
  <2>4. CASE CompletePiece(p, b, payload) /\ Completes(b)
    <3>1. Expiring(q)' = Expiring(q)
      BY <2>1, <2>4, ExpiringAfter DEF CompletePiece
    <3>2. PieceOf[c] = PieceOf[b] /\ c # b => data[c] # "none"
      BY <2>4 DEF Completes, BlocksOf
    <3> QED
      BY <1>0, <2>1, <2>4, <3>1, <3>2 DEF CompletePiece, Agrees, Release, ForgetOwned, TypeOK
  <2>5. CASE FailPiece(p, b) /\ Completes(b)
    <3>1. Expiring(q)' = Expiring(q)
      <4> DEFINE t == IF requesters[b] \subseteq {p} THEN Reading
                      ELSE [at |-> "hashfail", piece |-> PieceOf[b]]
      <4>1. t.at # "expire" /\ task' = [task EXCEPT ![p] = t]
        BY <2>5, NotExpiring DEF FailPiece
      <4> HIDE DEF t
      <4> QED
        BY <2>1, <4>1, ExpiringAfter
    <3>2. PieceOf[c] = PieceOf[b] /\ c # b => data[c] # "none"
      BY <2>5 DEF Completes, BlocksOf
    <3>3. /\ Release(Peers, BlocksOf(PieceOf[b])) /\ ForgetOwned({p} \cup requesters[b], {b})
          /\ complete' = complete \ {PieceOf[b]}
          /\ data' = [d \in Blocks |-> IF PieceOf[d] = PieceOf[b] THEN "none" ELSE data[d]]
      BY <2>5 DEF FailPiece
    <3> QED
      BY <1>0, <2>1, <3>1, <3>2, <3>3 DEF Agrees, Release, ForgetOwned, BlocksOf, TypeOK
  <2> QED
    BY <1>13, <2>2, <2>3, <2>4, <2>5 DEF RecvPiece
<1>14. ASSUME NEW p \in Peers, CancelPiece(p) PROVE Agrees(q, c)'
  <2>1. Expiring(p) = {} /\ UNCHANGED <<data, complete, choked>>
    BY <1>14, NotExpiring DEF CancelPiece, IsAt
  <2>2. Expiring(q)' = Expiring(q)
    BY <1>14, <2>1, ExpiringAfter, NotExpiring DEF CancelPiece, Resume
  <2> DEFINE S == BlocksOf(task[p].piece)
  <2>3. /\ requesters'[c] = IF c \in S THEN requesters[c] \ {v \in connected : c \in owned[v]}
                            ELSE requesters[c]
        /\ sent'[c] = IF c \in S THEN sent[c] \ {v \in connected : c \in owned[v]} ELSE sent[c]
        /\ requestsBy'[q] = IF q \in connected THEN requestsBy[q] \ (S \cap owned[q])
                            ELSE requestsBy[q]
        /\ owned'[q] = IF q \in connected THEN owned[q] \ S ELSE owned[q]
    BY <1>14 DEF CancelPiece, ForgetOwned
  <2> HIDE DEF S
  <2> QED
    BY <1>0, <2>1, <2>2, <2>3 DEF Agrees, TypeOK
<1>15. ASSUME NEW i \in Pieces, Pin(i), UNCHANGED <<choked, owned>>, Expiring(q)' = Expiring(q),
              PieceOf[c] = i => data[c] # "none" \/ i \in complete
       PROVE  Agrees(q, c)'
  BY <1>0, <1>15 DEF Pin, Agrees, TypeOK
<1>16. ASSUME NEW p \in Peers, Enqueue(p) PROVE Agrees(q, c)'
  <2>1. task[p].piece \in Pieces /\ UNCHANGED <<choked, owned>> /\ Expiring(p) = {}
    BY <1>16, TaskFields, NotExpiring DEF Enqueue, IsAt, TypeOK
  <2>2. Expiring(q)' = Expiring(q)
    BY <1>16, <2>1, ExpiringAfter, NotExpiring DEF Enqueue, Resume
  <2>3. CASE Pin(task[p].piece) /\ \A b \in BlocksOf(task[p].piece) : data[b] # "none"
    BY <1>15, <2>1, <2>2, <2>3 DEF BlocksOf
  <2>4. CASE UNCHANGED managerVars
    BY <1>0, <2>1, <2>2, <2>4 DEF Agrees
  <2> QED
    BY <1>16, <2>3, <2>4 DEF Enqueue
<1>17. ASSUME NEW i \in Pieces, Persist(i) PROVE Agrees(q, c)'
  BY <1>1, <1>17 DEF Persist
<1>18. ASSUME NEW i \in Pieces, FlushStaged(i) PROVE Agrees(q, c)'
  <2>1. UNCHANGED <<choked, owned, task>>
    BY <1>18 DEF FlushStaged
  <2>2. CASE Pin(i) /\ i \in complete
    BY <1>15, <2>1, <2>2 DEF Expiring
  <2>3. CASE UNCHANGED <<requestVars, data, complete>>
    BY <1>1, <2>1, <2>3
  <2> QED
    BY <1>18, <2>2, <2>3 DEF FlushStaged
<1>19. ASSUME NEW f \in Files, NEW r \in Ranks, SetFilePriority(f, r) PROVE Agrees(q, c)'
  BY <1>1, <1>19 DEF SetFilePriority
<1>20. CASE Stop
  <2>1. Expiring(q)' = {}
    BY <1>20, NotExpiring DEF Stop, Expiring
  <2> QED
    BY <1>20, <2>1 DEF Stop, Agrees
<1>21. CASE Restart \/ UNCHANGED vars
  BY <1>1, <1>21 DEF Restart, vars
<1>22. ASSUME NEW p \in Peers, PeerNext(p) PROVE Agrees(q, c)'
  BY <1>2, <1>3, <1>4, <1>5, <1>6, <1>7, <1>8, <1>9, <1>10, <1>11, <1>12, <1>13, <1>14, <1>16,
     <1>22 DEF PeerNext
<1> QED
  BY <1>17, <1>18, <1>19, <1>20, <1>21, <1>22 DEF Next

--------------------------------------------------------------------------------
(* Availability and buckets                                                 *)

(* The peers that have a piece, and how their number changes.                *)
Having(i) == {p \in Peers : i \in have[p]}

LEMMA SomePeersAreFinite == ASSUME NEW S, S \subseteq Peers PROVE IsFiniteSet(S)
<1>1. IsFiniteSet(Peers)
  BY SchedulerAssumption
<1> QED
  BY <1>1, FS_Subset

LEMMA NobodyHas ==
  ASSUME have = [p \in Peers |-> {}], avail = [i \in Pieces |-> 0] PROVE AvailabilityExact
<1> SUFFICES ASSUME NEW i \in Pieces PROVE 0 = Cardinality(Having(i))
  BY DEF AvailabilityExact, Having
<1>1. Having(i) = {}
  BY DEF Having
<1> QED
  BY <1>1, FS_EmptySet

LEMMA AdvertiseIsExact ==
  ASSUME TypeOK, AvailabilityExact, NEW p \in Peers, NEW S \in SUBSET Pieces, Advertise(p, S)
  PROVE  AvailabilityExact'
<1> SUFFICES ASSUME NEW i \in Pieces PROVE avail'[i] = Cardinality(Having(i)')
  BY DEF AvailabilityExact, Having
<1>1. /\ avail[i] = Cardinality(Having(i)) /\ avail[i] \in Nat /\ IsFiniteSet(Having(i))
  BY SomePeersAreFinite DEF AvailabilityExact, Having, TypeOK
<1>2. Having(i)' = IF i \in S THEN Having(i) \cup {p} ELSE Having(i) \ {p}
  BY DEF Having, Advertise, TypeOK
<1>3. p \in Having(i) <=> i \in have[p]
  BY DEF Having
<1>4. avail'[i] = IF i \in S \ have[p] THEN avail[i] + 1
                  ELSE IF i \in have[p] \ S /\ avail[i] > 0 THEN avail[i] - 1 ELSE avail[i]
  BY DEF Advertise, AvailabilityWith
<1>5. CASE i \in S \ have[p]
  <2>1. Cardinality(Having(i) \cup {p}) = Cardinality(Having(i)) + 1
    BY <1>1, <1>3, <1>5, FS_AddElement
  <2> QED
    BY <1>1, <1>2, <1>4, <1>5, <2>1
<1>6. CASE i \in have[p] \ S
  <2>1. Cardinality(Having(i) \ {p}) = Cardinality(Having(i)) - 1
    BY <1>1, <1>3, <1>6, FS_RemoveElement
  <2>2. IsFiniteSet(Having(i) \ {p}) /\ Cardinality(Having(i) \ {p}) \in Nat
    BY <1>1, FS_RemoveElement, FS_CardinalityType
  <2> QED
    BY <1>1, <1>2, <1>4, <1>6, <2>1, <2>2
<1>7. CASE i \in S <=> i \in have[p]
  <2>1. Having(i)' = Having(i)
    BY <1>2, <1>3, <1>7
  <2> QED
    BY <1>1, <1>4, <1>7, <2>1
<1> QED
  BY <1>5, <1>6, <1>7

(* The entries of a piece that moves leave with its old availability; of the  *)
(* other pieces nobody's count has changed.                                 *)
LEMMA AdvertiseKeepsBuckets ==
  ASSUME TypeOK, BucketsSound, NEW p \in Peers, NEW S \in SUBSET Pieces, Advertise(p, S),
         UNCHANGED <<prio, complete>>
  PROVE  BucketsSound'
<1> DEFINE moved == {i \in (S \ have[p]) \cup (have[p] \ S) : i \notin complete /\ Wanted(i)}
<1> SUFFICES ASSUME NEW t \in buckets'
             PROVE  t[3] \notin complete' /\ t = CurrentBucket(t[3])' /\ t[1] > 0
  BY DEF BucketsSound
<1>1. avail' = AvailabilityWith(p, S) /\ prio' = prio /\ complete' = complete
  BY DEF Advertise
<1>2. CASE \E i \in moved : t = <<PieceRank(prio, i), AvailabilityWith(p, S)[i], i>>
  BY <1>1, <1>2 DEF CurrentBucket, Wanted
<1>3. CASE t \in buckets /\ \A i \in moved : t # CurrentBucket(i)
  <2>1. t[3] \in Pieces /\ t[3] \notin complete /\ t = CurrentBucket(t[3]) /\ t[1] > 0
    BY <1>3 DEF BucketsSound, TypeOK
  <2>2. Wanted(t[3])
    BY <2>1 DEF CurrentBucket, Wanted
  <2>3. t[3] \notin (S \ have[p]) \cup (have[p] \ S)
    BY <1>3, <2>1, <2>2
  <2>4. AvailabilityWith(p, S)[t[3]] = avail[t[3]]
    BY <2>1, <2>3 DEF AvailabilityWith
  <2> QED
    BY <1>1, <2>1, <2>4 DEF CurrentBucket
<1> QED
  BY <1>2, <1>3 DEF Advertise, MovedBuckets

LEMMA RebuiltIsSound ==
  ASSUME buckets = RebuiltBuckets(prio, complete, avail) PROVE BucketsSound
BY DEF RebuiltBuckets, BucketsSound, CurrentBucket

LEMMA RarityInit == Init => RarityExact
BY NobodyHas, RebuiltIsSound DEF Init, RarityExact

LEMMA RarityNext ==
  ASSUME TypeOK, RarityExact, [Next]_vars
  PROVE  RarityExact'
<1> USE DEF managerVars, sessionVars, requestVars, pieceVars
<1>1. ASSUME UNCHANGED <<prio, have, avail>>, buckets' \subseteq buckets,
             \A t \in buckets' : t[3] \notin complete'
      PROVE  RarityExact'
  BY <1>1 DEF RarityExact, AvailabilityExact, BucketsSound, CurrentBucket
<1>2. \A t \in buckets : t[3] \notin complete
  BY DEF RarityExact, BucketsSound
<1>3. ASSUME UNCHANGED <<prio, have, avail, buckets, complete>> PROVE RarityExact'
  BY <1>1, <1>2, <1>3
<1>4. ASSUME NEW p \in Peers, NEW S \in SUBSET Pieces, Advertise(p, S), UNCHANGED <<prio, complete>>
      PROVE  RarityExact'
  BY <1>4, AdvertiseIsExact, AdvertiseKeepsBuckets DEF RarityExact
<1>5. ASSUME NEW p \in Peers, \/ Connect(p) \/ RecvUnchoke(p) \/ RecvChoke(p) \/ SendRequest(p)
                              \/ AbandonRequest(p) \/ CancelPiece(p)
                              \/ \E b \in Blocks : Reserve(p, b) \/ ExpireNext(p, b) \/ CooldownOver(p, b)
                              \/ \E S \in SUBSET Blocks : Expire(p, S)
      PROVE  RarityExact'
  BY <1>3, <1>5 DEF Connect, RecvUnchoke, RecvChoke, SendRequest, AbandonRequest, CancelPiece,
                    Reserve, ExpireNext, CooldownOver, Expire
<1>6. ASSUME NEW p \in Peers, Disconnect(p) \/ FinishWorker(p) PROVE RarityExact'
  <2>1. {} \in SUBSET Pieces
    OBVIOUS
  <2> QED
    BY <1>4, <1>6, <2>1 DEF Disconnect, FinishWorker, WorkerExit
<1>7. ASSUME NEW p \in Peers, \/ \E S \in SUBSET Pieces : RecvBitfield(p, S)
                              \/ \E i \in Pieces : RecvHave(p, i)
      PROVE  RarityExact'
  <2>1. \A i \in Pieces : have[p] \cup {i} \in SUBSET Pieces
    BY DEF TypeOK
  <2> QED
    BY <1>4, <1>7, <2>1 DEF RecvBitfield, RecvHave
<1>8. ASSUME NEW p \in Peers, NEW b \in Blocks, NEW payload \in Payloads, RecvPiece(p, b, payload)
      PROVE  RarityExact'
  <2>1. UNCHANGED <<prio, have, avail>> /\ PieceOf[b] \in Pieces
    BY <1>8, SchedulerAssumption DEF RecvPiece
  <2>2. CASE RejectBlock(p, b) \/ StoreBlock(p, b, payload)
    BY <1>3, <2>1, <2>2 DEF RejectBlock, StoreBlock
  <2>3. CASE FailPiece(p, b)
    BY <1>1, <1>2, <2>1, <2>3 DEF FailPiece
  <2>4. CASE CompletePiece(p, b, payload)
    <3>1. /\ complete' = complete \cup {PieceOf[b]}
          /\ buckets' = buckets \ {CurrentBucket(PieceOf[b])}
      BY <2>4 DEF CompletePiece, RemoveFromBuckets
    <3>2. \A t \in buckets : t = CurrentBucket(t[3])
      BY DEF RarityExact, BucketsSound
    <3>3. \A t \in buckets' : t[3] \notin complete'
      BY <1>2, <3>1, <3>2
    <3> QED
      BY <1>1, <2>1, <3>1, <3>3
  <2> QED
    BY <1>8, <2>2, <2>3, <2>4 DEF RecvPiece
<1>9. ASSUME NEW p \in Peers, Enqueue(p) PROVE RarityExact'
  BY <1>3, <1>9 DEF Enqueue, Pin
<1>10. ASSUME NEW i \in Pieces, Persist(i) \/ FlushStaged(i) PROVE RarityExact'
  BY <1>3, <1>10 DEF Persist, FlushStaged, Pin
<1>11. ASSUME NEW f \in Files, NEW r \in Ranks, SetFilePriority(f, r) PROVE RarityExact'
  <2>1. BucketsSound'
    <3> SUFFICES ASSUME NEW t \in buckets'
                 PROVE  t[3] \notin complete' /\ t = CurrentBucket(t[3])' /\ t[1] > 0
      BY DEF BucketsSound
    <3>1. /\ buckets' = RebuiltBuckets(prio', complete, avail)
          /\ complete' = complete /\ avail' = avail
      BY <1>11 DEF SetFilePriority
    <3>2. PICK i \in Pieces \ complete : /\ PieceRank(prio', i) > 0
                                         /\ t = <<PieceRank(prio', i), avail[i], i>>
      BY <3>1 DEF RebuiltBuckets
    <3> QED
      BY <3>1, <3>2 DEF CurrentBucket
  <2>2. AvailabilityExact'
    BY <1>11 DEF SetFilePriority, RarityExact, AvailabilityExact
  <2> QED
    BY <2>1, <2>2 DEF RarityExact
<1>12. CASE Stop
  <2>1. AvailabilityExact'
    <3> SUFFICES ASSUME NEW i \in Pieces PROVE avail'[i] = Cardinality({p \in Peers : i \in have'[p]})
      BY DEF AvailabilityExact
    <3>1. {p \in Peers : i \in have'[p]} = {} /\ avail'[i] = 0
      BY <1>12 DEF Stop
    <3> QED
      BY <3>1, FS_EmptySet
  <2>2. BucketsSound'
    <3>1. CASE (\A p \in Peers : have[p] = {}) /\ \A i \in Pieces : avail[i] = 0
      <4>1. avail' = avail /\ UNCHANGED <<prio, buckets, complete>>
        BY <1>12, <3>1 DEF Stop, TypeOK
      <4> QED
        BY <4>1 DEF RarityExact, BucketsSound, CurrentBucket
    <3>2. CASE ~ ((\A p \in Peers : have[p] = {}) /\ \A i \in Pieces : avail[i] = 0)
      <4>1. buckets' = RebuiltBuckets(prio, complete, avail') /\ UNCHANGED <<prio, complete>>
        BY <1>12, <3>2 DEF Stop
      <4> QED
        BY <4>1 DEF RebuiltBuckets, BucketsSound, CurrentBucket
    <3> QED
      BY <3>1, <3>2
  <2> QED
    BY <2>1, <2>2 DEF RarityExact
<1>13. CASE Restart \/ UNCHANGED vars
  BY <1>3, <1>13 DEF Restart, vars
<1>14. ASSUME NEW p \in Peers, PeerNext(p) PROVE RarityExact'
  BY <1>5, <1>6, <1>7, <1>8, <1>9, <1>14 DEF PeerNext
<1> QED
  BY <1>10, <1>11, <1>12, <1>13, <1>14 DEF Next

--------------------------------------------------------------------------------
(* What has been downloaded                                                 *)

(* Two workers never wait to enqueue the same piece, and nobody waits after a *)
(* stop.                                                                    *)
OneEnqueuer ==
  \A p, q \in Peers :
    task[p].at = "enqueue" /\ task[q].at = "enqueue" /\ task[p].piece = task[q].piece => p = q

StoppedIsIdle == ~ running => connected = {} /\ \A p \in Peers : task[p] = Reading

StagingInv == StagedHasPayload /\ VerifiedIsSafe /\ OneEnqueuer /\ StoppedIsIdle

LEMMA NotEnqueuing == Reading.at # "enqueue"
BY DEF Reading

LEMMA StagingInit == Init => StagingInv
BY NotEnqueuing DEF Init, StagingInv, StagedHasPayload, VerifiedIsSafe, OneEnqueuer, StoppedIsIdle

(* A worker goes on to something other than enqueueing a piece.              *)
LEMMA TaskMovesOn ==
  ASSUME TypeOK, StagingInv, NEW p \in Peers, NEW t, t.at # "enqueue", running,
         task' = [task EXCEPT ![p] = t], UNCHANGED running
  PROVE  /\ \A q \in Peers : task'[q].at = "enqueue" => q # p /\ task'[q] = task[q]
         /\ OneEnqueuer' /\ StoppedIsIdle'
<1>1. \A q \in Peers : task'[q] = IF q = p THEN t ELSE task[q]
  BY DEF TypeOK
<1> QED
  BY <1>1 DEF StagingInv, OneEnqueuer, StoppedIsIdle

LEMMA AtWork ==
  ASSUME StagingInv, NEW p, p \in connected PROVE running
BY DEF StagingInv, StoppedIsIdle

(* A pinned piece leaves the staged set together with the blocks of it alone. *)
LEMMA PinKeeps ==
  ASSUME TypeOK, StagingInv, NEW i \in Pieces, Pin(i)
  PROVE  /\ VerifiedIsSafe' /\ i \notin staged' /\ staged' \subseteq staged
         /\ staged \ {i} \subseteq staged'
         /\ \A j \in staged' : j \in complete' /\ \A b \in BlocksOf(j) : data'[b] = "good"
<1>1. /\ pinned' = pinned \cup {i} /\ staged' = staged \ {i} /\ UNCHANGED <<complete, persisted>>
      /\ data' = [b \in Blocks |-> IF PieceOf[b] = i THEN "none" ELSE data[b]]
  BY DEF Pin
<1>2. VerifiedIsSafe'
  BY <1>1 DEF StagingInv, VerifiedIsSafe
<1>3. ASSUME NEW j \in staged', NEW b \in BlocksOf(j) PROVE data'[b] = "good"
  BY <1>1, <1>3 DEF StagingInv, StagedHasPayload, BlocksOf
<1> QED
  BY <1>1, <1>2, <1>3 DEF StagingInv, StagedHasPayload

LEMMA StagingNext ==
  ASSUME TypeOK, StagingInv, [Next]_vars
  PROVE  StagingInv'
<1> USE DEF managerVars, sessionVars, requestVars, pieceVars
<1>1. ASSUME UNCHANGED <<data, complete, persisted, staged, pinned>>,
             UNCHANGED <<running, task, connected>>
      PROVE  StagingInv'
  BY <1>1 DEF StagingInv, StagedHasPayload, VerifiedIsSafe, OneEnqueuer, StoppedIsIdle
<1>2. ASSUME NEW p \in Peers, NEW t, t.at # "enqueue", task' = [task EXCEPT ![p] = t], running,
             UNCHANGED <<data, complete, persisted, staged, pinned, running>>
      PROVE  StagingInv'
  <2>1. /\ \A q \in Peers : task'[q].at = "enqueue" => task'[q] = task[q]
        /\ OneEnqueuer' /\ StoppedIsIdle'
    BY <1>2, TaskMovesOn
  <2>2. StagedHasPayload'
    BY <1>2, <2>1 DEF StagingInv, StagedHasPayload
  <2> QED
    BY <1>2, <2>1, <2>2 DEF StagingInv, VerifiedIsSafe
<1>3. ASSUME NEW p \in Peers, Connect(p) PROVE StagingInv'
  BY <1>3 DEF Connect, StagingInv, StagedHasPayload, VerifiedIsSafe, OneEnqueuer, StoppedIsIdle
<1>4. ASSUME NEW p \in Peers, \/ RecvUnchoke(p) \/ RecvChoke(p)
                              \/ \E S \in SUBSET Pieces : RecvBitfield(p, S)
                              \/ \E i \in Pieces : RecvHave(p, i)
                              \/ \E b \in Blocks : CooldownOver(p, b)
      PROVE  StagingInv'
  BY <1>1, <1>4 DEF RecvUnchoke, RecvChoke, RecvBitfield, RecvHave, CooldownOver
<1>5. ASSUME NEW p \in Peers, Disconnect(p) \/ FinishWorker(p) PROVE StagingInv'
  <2>1. running /\ WorkerExit(p)
    BY <1>5, AtWork DEF Disconnect, FinishWorker, IsAt
  <2> QED
    BY <1>2, <2>1, NotEnqueuing DEF WorkerExit, Resume
<1>6. ASSUME NEW p \in Peers, SendRequest(p) \/ AbandonRequest(p) \/ CancelPiece(p) PROVE StagingInv'
  <2>1. running
    BY <1>6, AtWork DEF SendRequest, AbandonRequest, CancelPiece, IsAt
  <2> QED
    BY <1>2, <1>6, <2>1, NotEnqueuing DEF SendRequest, AbandonRequest, CancelPiece, Resume
<1>7. ASSUME NEW p \in Peers, NEW b \in Blocks, Reserve(p, b) PROVE StagingInv'
  <2>1. running /\ [at |-> "throttle", block |-> b].at # "enqueue"
    BY <1>7, AtWork DEF Reserve, IsAt
  <2> QED
    BY <1>2, <1>7, <2>1 DEF Reserve
<1>8. ASSUME NEW p \in Peers, NEW b \in Blocks, ExpireNext(p, b) PROVE StagingInv'
  <2> DEFINE t == IF task[p].blocks = {b} THEN Reading
                  ELSE [at |-> "expire", blocks |-> task[p].blocks \ {b}]
  <2>1. running /\ t.at # "enqueue" /\ task' = [task EXCEPT ![p] = t]
    BY <1>8, AtWork, NotEnqueuing DEF ExpireNext, IsAt
  <2> HIDE DEF t
  <2> QED
    BY <1>2, <1>8, <2>1 DEF ExpireNext
<1>9. ASSUME NEW p \in Peers, NEW S \in SUBSET Blocks, Expire(p, S) PROVE StagingInv'
  <2>1. running /\ [at |-> "expire", blocks |-> S].at # "enqueue"
    BY <1>9, AtWork DEF Expire, IsAt
  <2> QED
    BY <1>2, <1>9, <2>1 DEF Expire
<1>10. ASSUME NEW p \in Peers, NEW b \in Blocks, NEW payload \in Payloads, RecvPiece(p, b, payload)
       PROVE  StagingInv'
  <2>1. running /\ UNCHANGED running /\ PieceOf[b] \in Pieces
    BY <1>10, AtWork, SchedulerAssumption DEF RecvPiece, IsAt
  <2>2. CASE RejectBlock(p, b)
    BY <1>2, <2>1, <2>2, NotEnqueuing DEF RejectBlock, Resume
  <2> DEFINE i == PieceOf[b]
  <2>3. ASSUME data[b] = "none"
        PROVE  /\ i \notin staged
               /\ \A q \in Peers : task[q].at = "enqueue" => task[q].piece # i
    BY <2>1, <2>3 DEF StagingInv, StagedHasPayload, BlocksOf
  <2>4. CASE data[b] = "none" /\ StoreBlock(p, b, payload)
    <3>1. /\ \A q \in Peers : task'[q].at = "enqueue" => task'[q] = task[q]
          /\ OneEnqueuer' /\ StoppedIsIdle'
      BY <2>1, <2>4, TaskMovesOn, NotEnqueuing DEF StoreBlock, Resume
    <3>2. UNCHANGED <<complete, persisted, staged, pinned>> /\ data' = [data EXCEPT ![b] = payload]
      BY <2>4 DEF StoreBlock
    <3>3. StagedHasPayload'
      BY <2>3, <2>4, <3>1, <3>2 DEF StagingInv, StagedHasPayload, BlocksOf, TypeOK
    <3> QED
      BY <3>1, <3>2, <3>3 DEF StagingInv, VerifiedIsSafe
  <2>5. CASE data[b] = "none" /\ Verifies(b, payload) /\ CompletePiece(p, b, payload)
    <3> DEFINE t == [at |-> "enqueue", piece |-> i]
    <3>1. t.at = "enqueue" /\ t.piece = i /\ t # Reading
      BY DEF Reading
    <3>2. /\ task' = [task EXCEPT ![p] = t] /\ data' = [data EXCEPT ![b] = payload]
          /\ complete' = complete \cup {i} /\ persisted' = persisted \ {i}
          /\ staged' = staged \cup {i} /\ UNCHANGED pinned
      BY <2>5 DEF CompletePiece
    <3> HIDE DEF t
    <3>3. \A q \in Peers : task'[q] = IF q = p THEN t ELSE task[q]
      BY <3>2 DEF TypeOK
    <3>4. payload = "good" /\ \A c \in BlocksOf(i) : data'[c] = "good"
      BY <2>5, <3>2 DEF Verifies, BlocksOf, TypeOK
    <3>5. \A j \in staged : j # i /\ \A c \in BlocksOf(j) : data'[c] = "good"
      BY <2>3, <2>5, <3>2 DEF StagingInv, StagedHasPayload, BlocksOf, TypeOK
    <3>6. StagedHasPayload'
      BY <3>1, <3>2, <3>3, <3>4, <3>5 DEF StagingInv, StagedHasPayload
    <3>7. OneEnqueuer'
      BY <2>3, <2>5, <3>1, <3>3 DEF StagingInv, OneEnqueuer
    <3>8. VerifiedIsSafe' /\ StoppedIsIdle'
      BY <2>1, <3>2 DEF StagingInv, VerifiedIsSafe, StoppedIsIdle
    <3> QED
      BY <3>6, <3>7, <3>8 DEF StagingInv
  <2>6. CASE data[b] = "none" /\ FailPiece(p, b)
    <3> DEFINE t == IF requesters[b] \subseteq {p} THEN Reading ELSE [at |-> "hashfail", piece |-> i]
    <3>1. t.at # "enqueue" /\ task' = [task EXCEPT ![p] = t]
      BY <2>6, NotEnqueuing DEF FailPiece
    <3> HIDE DEF t
    <3>2. /\ \A q \in Peers : task'[q].at = "enqueue" => task'[q] = task[q]
          /\ OneEnqueuer' /\ StoppedIsIdle'
      BY <2>1, <3>1, TaskMovesOn
    <3>3. /\ data' = [c \in Blocks |-> IF PieceOf[c] = i THEN "none" ELSE data[c]]
          /\ complete' = complete \ {i} /\ persisted' = persisted \ {i} /\ UNCHANGED <<staged, pinned>>
      BY <2>6 DEF FailPiece
    <3>4. StagedHasPayload'
      BY <2>3, <2>6, <3>2, <3>3 DEF StagingInv, StagedHasPayload, BlocksOf
    <3>5. VerifiedIsSafe'
      BY <3>3 DEF StagingInv, VerifiedIsSafe
    <3> QED
      BY <3>2, <3>4, <3>5 DEF StagingInv
  <2> QED
    BY <1>10, <2>2, <2>4, <2>5, <2>6 DEF RecvPiece
<1>11. ASSUME NEW p \in Peers, Enqueue(p) PROVE StagingInv'
  <2>1. /\ running /\ UNCHANGED running /\ task[p].at = "enqueue"
        /\ task' = [task EXCEPT ![p] = Reading]
    BY <1>11, AtWork DEF Enqueue, IsAt, Resume
  <2>2. CASE Pin(task[p].piece)
    <3>1. task[p].piece \in Pieces
      BY <2>1, TaskFields DEF TypeOK
    <3>2. /\ \A q \in Peers : task'[q].at = "enqueue" => q # p /\ task'[q] = task[q]
          /\ OneEnqueuer' /\ StoppedIsIdle'
      BY <2>1, TaskMovesOn, NotEnqueuing
    <3>3. \A q \in Peers : task'[q].at = "enqueue" => task'[q].piece \in staged \ {task[p].piece}
      BY <2>1, <3>2 DEF StagingInv, StagedHasPayload, OneEnqueuer
    <3> QED
      BY <2>2, <3>1, <3>2, <3>3, PinKeeps DEF StagingInv, StagedHasPayload
  <2>3. CASE UNCHANGED managerVars
    BY <1>2, <2>1, <2>3, NotEnqueuing
  <2> QED
    BY <1>11, <2>2, <2>3 DEF Enqueue
<1>12. ASSUME NEW i \in Pieces, Persist(i) PROVE StagingInv'
  <2>1. /\ pinned' = pinned \ {i} /\ persisted' = persisted \cup ({i} \cap complete)
        /\ UNCHANGED <<data, complete, staged, running, task, connected>>
    BY <1>12 DEF Persist
  <2>2. VerifiedIsSafe'
    BY <2>1 DEF StagingInv, VerifiedIsSafe
  <2> QED
    BY <2>1, <2>2 DEF StagingInv, StagedHasPayload, OneEnqueuer, StoppedIsIdle
<1>13. ASSUME NEW i \in Pieces, FlushStaged(i) PROVE StagingInv'
  <2>1. ~ running /\ i \in staged /\ UNCHANGED <<running, task, connected>>
    BY <1>13 DEF FlushStaged
  <2>2. \A q \in Peers : task'[q].at # "enqueue"
    BY <2>1, NotEnqueuing DEF StagingInv, StoppedIsIdle
  <2>3. OneEnqueuer' /\ StoppedIsIdle'
    BY <2>1, <2>2 DEF StagingInv, OneEnqueuer, StoppedIsIdle
  <2>4. CASE Pin(i)
    BY <2>2, <2>3, <2>4, PinKeeps DEF StagingInv, StagedHasPayload
  <2>5. CASE /\ ~ (i \in complete \ persisted /\ \A b \in BlocksOf(i) : data[b] # "none")
             /\ staged' = staged \ {i} /\ UNCHANGED <<data, complete, persisted, pinned>>
    <3>1. i \in persisted
      BY <2>1, <2>5 DEF StagingInv, StagedHasPayload
    <3>2. VerifiedIsSafe'
      BY <2>5, <3>1 DEF StagingInv, VerifiedIsSafe
    <3>3. StagedHasPayload'
      BY <2>2, <2>5 DEF StagingInv, StagedHasPayload
    <3> QED
      BY <2>3, <3>2, <3>3 DEF StagingInv
  <2> QED
    BY <1>13, <2>4, <2>5 DEF FlushStaged
<1>14. ASSUME NEW f \in Files, NEW r \in Ranks, SetFilePriority(f, r) PROVE StagingInv'
  BY <1>1, <1>14 DEF SetFilePriority
<1>15. CASE Stop
  <2>1. /\ UNCHANGED <<data, complete, persisted, staged, pinned>>
        /\ connected' = {} /\ task' = [p \in Peers |-> Reading]
    BY <1>15 DEF Stop
  <2>2. OneEnqueuer' /\ StoppedIsIdle'
    BY <2>1, NotEnqueuing DEF OneEnqueuer, StoppedIsIdle
  <2>3. StagedHasPayload' /\ VerifiedIsSafe'
    BY <2>1, NotEnqueuing DEF StagingInv, StagedHasPayload, VerifiedIsSafe
  <2> QED
    BY <2>2, <2>3 DEF StagingInv
<1>16. CASE Restart
  BY <1>16 DEF Restart, StagingInv, StagedHasPayload, VerifiedIsSafe, OneEnqueuer, StoppedIsIdle
<1>17. CASE UNCHANGED vars
  BY <1>1, <1>17 DEF vars
<1>18. ASSUME NEW p \in Peers, PeerNext(p) PROVE StagingInv'
  BY <1>3, <1>4, <1>5, <1>6, <1>7, <1>8, <1>9, <1>10, <1>11, <1>18 DEF PeerNext
<1> QED
  BY <1>12, <1>13, <1>14, <1>15, <1>16, <1>17, <1>18 DEF Next

--------------------------------------------------------------------------------
(* What has been counted                                                    *)

LEMMA HeldIsFinite == IsFiniteSet(Held) /\ Cardinality(Held) \in Nat
BY SomeBlocksAreFinite DEF Held

LEMMA HeldIsFiniteNext == IsFiniteSet(Held') /\ Cardinality(Held') \in Nat
<1>1. Held' \subseteq Blocks
  BY DEF Held
<1> QED
  BY <1>1, SomeBlocksAreFinite

LEMMA CountedInit == Init => HeldIsCounted
<1> SUFFICES ASSUME Init PROVE HeldIsCounted
  OBVIOUS
<1>1. Held = {b \in Blocks : PieceOf[b] \in complete}
  BY DEF Init, Held
<1>2. downloaded = Cardinality(Held)
  BY <1>1 DEF Init
<1> QED
  BY <1>2, HeldIsFinite DEF HeldIsCounted

(* A failed piece takes its size off the count: all its blocks but the last    *)
(* were held, and none of them is held any longer.                          *)
LEMMA FailedIsUncounted ==
  ASSUME TypeOK, HeldIsCounted, NEW p \in Peers, NEW b \in Blocks,
         data[b] = "none", Completes(b), FailPiece(p, b)
  PROVE  HeldIsCounted'
<1> DEFINE i == PieceOf[b]
           size == Cardinality(BlocksOf(i))
           rest == BlocksOf(i) \ {b}
<1>1. /\ data' = [c \in Blocks |-> IF PieceOf[c] = i THEN "none" ELSE data[c]]
      /\ complete' = complete \ {i}
      /\ downloaded' = IF downloaded + 1 > size THEN downloaded + 1 - size ELSE 0
  BY DEF FailPiece
<1>2. Held' \subseteq Held \ rest /\ rest \subseteq Held
  BY <1>1 DEF Held, BlocksOf, Completes
<1>3. IsFiniteSet(BlocksOf(i)) /\ size \in Nat /\ IsFiniteSet(rest) /\ Cardinality(rest) \in Nat
  BY SomeBlocksAreFinite DEF BlocksOf
<1>4. Cardinality(rest) = size - 1
  <2>1. b \in BlocksOf(i)
    BY DEF BlocksOf
  <2> QED
    BY <1>3, <2>1, FS_RemoveElement
<1> HIDE DEF rest, size
<1>5. Cardinality(Held \ rest) = Cardinality(Held) - Cardinality(rest) /\ IsFiniteSet(Held \ rest)
  <2>1. Held \cap rest = rest
    BY <1>2
  <2> QED
    BY <1>3, <2>1, HeldIsFinite, FS_Difference
<1>6. Cardinality(Held') <= Cardinality(Held \ rest)
  BY <1>2, <1>5, FS_Subset
<1>7. downloaded >= Cardinality(Held) /\ downloaded \in Nat
  BY DEF HeldIsCounted, TypeOK
<1>8. downloaded' >= Cardinality(Held')
  BY <1>1, <1>3, <1>4, <1>5, <1>6, <1>7, HeldIsFinite, HeldIsFiniteNext
<1> QED
  BY <1>8 DEF HeldIsCounted

LEMMA CountedNext ==
  ASSUME TypeOK, StagingInv, HeldIsCounted, [Next]_vars
  PROVE  HeldIsCounted'
<1> USE DEF managerVars, sessionVars, requestVars, pieceVars
<1>1. ASSUME Held' \subseteq Held, UNCHANGED downloaded PROVE HeldIsCounted'
  <2>1. Cardinality(Held') <= Cardinality(Held)
    BY <1>1, HeldIsFinite, FS_Subset
  <2> QED
    BY <1>1, <2>1, HeldIsFinite, HeldIsFiniteNext DEF HeldIsCounted, TypeOK
<1>2. ASSUME UNCHANGED <<data, complete, downloaded>> PROVE HeldIsCounted'
  BY <1>2, <1>1 DEF Held
<1>3. ASSUME NEW b \in Blocks, Held' \subseteq Held \cup {b}, downloaded' = downloaded + 1
      PROVE  HeldIsCounted'
  <2>1. IsFiniteSet(Held \cup {b}) /\ Cardinality(Held \cup {b}) <= Cardinality(Held) + 1
    <3>1. /\ IsFiniteSet(Held \cup {b})
          /\ Cardinality(Held \cup {b}) = IF b \in Held THEN Cardinality(Held)
                                         ELSE Cardinality(Held) + 1
      BY HeldIsFinite, FS_AddElement
    <3> QED
      BY <3>1, HeldIsFinite
  <2>2. Cardinality(Held') <= Cardinality(Held \cup {b}) /\ Cardinality(Held \cup {b}) \in Nat
    BY <1>3, <2>1, FS_Subset, FS_CardinalityType
  <2> QED
    BY <1>3, <2>1, <2>2, HeldIsFinite, HeldIsFiniteNext DEF HeldIsCounted, TypeOK
<1>4. ASSUME NEW i \in complete, Pin(i) PROVE HeldIsCounted'
  <2>1. Held' \subseteq Held /\ UNCHANGED downloaded
    BY <1>4 DEF Pin, Held
  <2> QED
    BY <1>1, <2>1
<1>5. ASSUME NEW p \in Peers, \/ Connect(p) \/ RecvUnchoke(p) \/ RecvChoke(p) \/ SendRequest(p)
                              \/ AbandonRequest(p) \/ CancelPiece(p) \/ Disconnect(p) \/ FinishWorker(p)
                              \/ \E S \in SUBSET Pieces : RecvBitfield(p, S)
                              \/ \E i \in Pieces : RecvHave(p, i)
                              \/ \E b \in Blocks : Reserve(p, b) \/ ExpireNext(p, b) \/ CooldownOver(p, b)
                              \/ \E S \in SUBSET Blocks : Expire(p, S)
      PROVE  HeldIsCounted'
  <2>1. UNCHANGED <<data, complete, downloaded>>
    BY <1>5 DEF Connect, RecvUnchoke, RecvChoke, SendRequest, AbandonRequest, CancelPiece,
                Disconnect, FinishWorker, WorkerExit, RecvBitfield, RecvHave, Reserve, ExpireNext,
                CooldownOver, Expire
  <2> QED
    BY <1>2, <2>1
<1>6. ASSUME NEW p \in Peers, NEW b \in Blocks, NEW payload \in Payloads, RecvPiece(p, b, payload)
      PROVE  HeldIsCounted'
  <2>1. CASE RejectBlock(p, b)
    BY <1>2, <2>1 DEF RejectBlock
  <2>2. CASE StoreBlock(p, b, payload)
    <3>1. Held' \subseteq Held \cup {b} /\ downloaded' = downloaded + 1
      BY <2>2 DEF StoreBlock, Held, TypeOK
    <3> QED
      BY <1>3, <3>1
  <2>3. CASE CompletePiece(p, b, payload) /\ Completes(b)
    <3>1. Held' \subseteq Held \cup {b} /\ downloaded' = downloaded + 1
      BY <2>3 DEF CompletePiece, Completes, BlocksOf, Held, TypeOK
    <3> QED
      BY <1>3, <3>1
  <2>4. CASE data[b] = "none" /\ Completes(b) /\ FailPiece(p, b)
    BY <2>4, FailedIsUncounted
  <2> QED
    BY <1>6, <2>1, <2>2, <2>3, <2>4 DEF RecvPiece
<1>7. ASSUME NEW p \in Peers, Enqueue(p) PROVE HeldIsCounted'
  <2>1. task[p].piece \in complete
    BY <1>7 DEF Enqueue, IsAt, StagingInv, StagedHasPayload
  <2>2. CASE Pin(task[p].piece)
    BY <1>4, <2>1, <2>2
  <2>3. CASE UNCHANGED managerVars
    BY <1>2, <2>3
  <2> QED
    BY <1>7, <2>2, <2>3 DEF Enqueue
<1>8. ASSUME NEW i \in Pieces, FlushStaged(i) PROVE HeldIsCounted'
  <2>1. CASE i \in complete /\ Pin(i)
    BY <1>4, <2>1
  <2>2. CASE UNCHANGED <<data, complete, downloaded>>
    BY <1>2, <2>2
  <2> QED
    BY <1>8, <2>1, <2>2 DEF FlushStaged
<1>9. CASE \/ \E i \in Pieces : Persist(i)
           \/ \E f \in Files, r \in Ranks : SetFilePriority(f, r)
           \/ Stop \/ Restart \/ UNCHANGED vars
  BY <1>2, <1>9 DEF Persist, SetFilePriority, Stop, Restart, vars
<1>10. ASSUME NEW p \in Peers, PeerNext(p) PROVE HeldIsCounted'
  BY <1>5, <1>6, <1>7, <1>10 DEF PeerNext
<1> QED
  BY <1>8, <1>9, <1>10 DEF Next

--------------------------------------------------------------------------------
SchedulerInv == TypeOK /\ AllAgree /\ RarityExact /\ StagingInv /\ HeldIsCounted

LEMMA SchedulerInvHolds == Spec => []SchedulerInv
<1>1. Init => SchedulerInv
  BY TypesInit, AgreeInit, RarityInit, StagingInit, CountedInit DEF SchedulerInv
<1>2. SchedulerInv /\ [Next]_vars => SchedulerInv'
  <2> SUFFICES ASSUME SchedulerInv, [Next]_vars PROVE SchedulerInv'
    OBVIOUS
  <2>1. TypeOK /\ AllAgree /\ RarityExact /\ StagingInv /\ HeldIsCounted
    BY DEF SchedulerInv
  <2> QED
    BY <2>1, TypesNext, AgreeNext, RarityNext, StagingNext, CountedNext DEF SchedulerInv
<1> QED
  BY <1>1, <1>2, PTL DEF Spec

(* Every variable of the piece manager and of the workers keeps its type.    *)
THEOREM SchedulerTypesHold == Spec => []TypeOK
<1>1. SchedulerInv => TypeOK
  BY DEF SchedulerInv
<1> QED
  BY <1>1, SchedulerInvHolds, PTL

(* Blocks, the index by peer and the lists of the workers agree on who owns    *)
(* which request, across chokes, losses, expiries, duplicate answers, failed  *)
(* pieces and stops (piece_manager.py and _peer_worker).                    *)
THEOREM OwnershipIsExact == Spec => []OwnershipExact
<1>1. SchedulerInv => OwnershipExact
  BY AgreementIsExact DEF SchedulerInv
<1> QED
  BY <1>1, SchedulerInvHolds, PTL

(* Availability counts the peers with a piece, and every bucket entry is of a *)
(* wanted incomplete piece under its rank and availability.                 *)
THEOREM RarityIsExact == Spec => []RarityExact
<1>1. SchedulerInv => RarityExact
  BY DEF SchedulerInv
<1> QED
  BY <1>1, SchedulerInvHolds, PTL

(* No verified piece is lost before it is written, the writer is handed whole  *)
(* pieces only, and what is held has been counted.                          *)
THEOREM PiecesAreKept == Spec => []PiecesKept
<1>1. SchedulerInv => PiecesKept
  BY DEF SchedulerInv, StagingInv, PiecesKept
<1> QED
  BY <1>1, SchedulerInvHolds, PTL

--------------------------------------------------------------------------------
(* Which block is asked for                                                 *)

(* Every wanted piece that is not complete is in its bucket.  This is lost    *)
(* when a late bad block resets a verified piece, which no bucket has.        *)
BucketsFull == \A i \in Pieces \ complete : Wanted(i) => CurrentBucket(i) \in buckets

FiledInv == BucketsFull /\ \A b \in Blocks : data[b] # "bad"

LEMMA RebuiltIsFull ==
  ASSUME buckets = RebuiltBuckets(prio, complete, avail) PROVE BucketsFull
BY DEF RebuiltBuckets, BucketsFull, CurrentBucket, Wanted

LEMMA FiledInit == Init => FiledInv
BY RebuiltIsFull DEF Init, FiledInv

(* A piece that moves is put in its new bucket, the others stay in theirs.   *)
LEMMA AdvertiseFilesAll ==
  ASSUME TypeOK, BucketsFull, NEW p \in Peers, NEW S \in SUBSET Pieces, Advertise(p, S),
         UNCHANGED <<prio, complete>>
  PROVE  BucketsFull'
<1> DEFINE moved == {i \in (S \ have[p]) \cup (have[p] \ S) : i \notin complete /\ Wanted(i)}
<1> SUFFICES ASSUME NEW i \in Pieces \ complete, Wanted(i)'
             PROVE  CurrentBucket(i)' \in buckets'
  BY DEF BucketsFull
<1>1. avail' = AvailabilityWith(p, S) /\ Wanted(i)
  BY DEF Advertise, Wanted
<1>2. CurrentBucket(i)' = <<PieceRank(prio, i), AvailabilityWith(p, S)[i], i>>
  BY <1>1 DEF CurrentBucket
<1>3. CASE i \in moved
  BY <1>2, <1>3 DEF Advertise, MovedBuckets
<1>4. CASE i \notin moved
  <2>1. AvailabilityWith(p, S)[i] = avail[i]
    BY <1>1, <1>4 DEF AvailabilityWith
  <2>2. CurrentBucket(i)' = CurrentBucket(i) /\ CurrentBucket(i) \in buckets
    BY <1>1, <1>2, <2>1 DEF BucketsFull, CurrentBucket
  <2>3. \A j \in moved : CurrentBucket(j) # CurrentBucket(i)
    BY <1>4 DEF CurrentBucket
  <2> QED
    BY <2>2, <2>3 DEF Advertise, MovedBuckets
<1> QED
  BY <1>3, <1>4

(* Without bad payloads no piece fails its hash, so a verified piece stays    *)
(* verified.                                                                *)
LEMMA ReceiveFiles ==
  ASSUME TypeOK, FiledInv, "bad" \notin Payloads, NEW p \in Peers, NEW b \in Blocks,
         NEW payload \in Payloads, RecvPiece(p, b, payload)
  PROVE  FiledInv'
<1>1. UNCHANGED <<prio, avail>> /\ payload \in {"good", "short"} /\ PieceOf[b] \in Pieces
  BY SchedulerAssumption DEF RecvPiece
<1>2. CASE RejectBlock(p, b)
  BY <1>1, <1>2 DEF RejectBlock, pieceVars, FiledInv, BucketsFull, CurrentBucket, Wanted
<1>3. CASE payload # "short" /\ StoreBlock(p, b, payload)
  BY <1>1, <1>3 DEF StoreBlock, pieceVars, FiledInv, BucketsFull, CurrentBucket, Wanted, TypeOK
<1>4. CASE payload # "short" /\ CompletePiece(p, b, payload)
  <2>1. /\ complete' = complete \cup {PieceOf[b]}
        /\ buckets' = buckets \ {CurrentBucket(PieceOf[b])}
        /\ data' = [data EXCEPT ![b] = payload]
    BY <1>4 DEF CompletePiece, RemoveFromBuckets
  <2>2. BucketsFull'
    BY <1>1, <2>1 DEF FiledInv, BucketsFull, CurrentBucket, Wanted
  <2> QED
    BY <1>1, <1>4, <2>1, <2>2 DEF FiledInv, TypeOK
<1>5. ~ (payload # "short" /\ data[b] = "none" /\ Completes(b) /\ ~ Verifies(b, payload))
  <2> SUFFICES ASSUME payload = "good", Completes(b) PROVE Verifies(b, payload)
    BY <1>1
  <2>1. \A c \in BlocksOf(PieceOf[b]) : c = b \/ data[c] \in {"good", "bad"}
    BY DEF Completes, TypeOK, BlocksOf
  <2> QED
    BY <2>1 DEF Verifies, FiledInv, BlocksOf
<1> QED
  BY <1>2, <1>3, <1>4, <1>5 DEF RecvPiece

LEMMA FiledNext ==
  ASSUME TypeOK, FiledInv, "bad" \notin Payloads, [Next]_vars
  PROVE  FiledInv'
<1> USE DEF managerVars, sessionVars, requestVars, pieceVars
<1>1. ASSUME UNCHANGED <<prio, avail, buckets, complete>>,
             \A b \in Blocks : data'[b] \in {"none", data[b]}
      PROVE  FiledInv'
  BY <1>1 DEF FiledInv, BucketsFull, CurrentBucket, Wanted
<1>2. ASSUME NEW p \in Peers, NEW S \in SUBSET Pieces, Advertise(p, S),
             UNCHANGED <<prio, complete, data>>
      PROVE  FiledInv'
  BY <1>2, AdvertiseFilesAll DEF FiledInv
<1>3. ASSUME NEW p \in Peers, \/ Connect(p) \/ RecvUnchoke(p) \/ RecvChoke(p) \/ SendRequest(p)
                              \/ AbandonRequest(p) \/ CancelPiece(p)
                              \/ \E b \in Blocks : Reserve(p, b) \/ ExpireNext(p, b) \/ CooldownOver(p, b)
                              \/ \E S \in SUBSET Blocks : Expire(p, S)
      PROVE  FiledInv'
  BY <1>1, <1>3 DEF Connect, RecvUnchoke, RecvChoke, SendRequest, AbandonRequest, CancelPiece,
                    Reserve, ExpireNext, CooldownOver, Expire
<1>4. ASSUME NEW p \in Peers, Disconnect(p) \/ FinishWorker(p) PROVE FiledInv'
  <2>1. {} \in SUBSET Pieces
    OBVIOUS
  <2> QED
    BY <1>2, <1>4, <2>1 DEF Disconnect, FinishWorker, WorkerExit
<1>5. ASSUME NEW p \in Peers, \/ \E S \in SUBSET Pieces : RecvBitfield(p, S)
                              \/ \E i \in Pieces : RecvHave(p, i)
      PROVE  FiledInv'
  <2>1. \A i \in Pieces : have[p] \cup {i} \in SUBSET Pieces
    BY DEF TypeOK
  <2> QED
    BY <1>2, <1>5, <2>1 DEF RecvBitfield, RecvHave
<1>6. ASSUME NEW i, Pin(i) PROVE FiledInv'
  BY <1>1, <1>6 DEF Pin, TypeOK
<1>7. ASSUME NEW p \in Peers, Enqueue(p) PROVE FiledInv'
  BY <1>1, <1>6, <1>7 DEF Enqueue
<1>8. ASSUME NEW i \in Pieces, Persist(i) \/ FlushStaged(i) PROVE FiledInv'
  BY <1>1, <1>6, <1>8 DEF Persist, FlushStaged
<1>9. ASSUME buckets' = RebuiltBuckets(prio', complete, avail'), UNCHANGED <<complete, data>>
      PROVE  FiledInv'
  <2>1. BucketsFull'
    BY <1>9 DEF RebuiltBuckets, BucketsFull, CurrentBucket, Wanted
  <2> QED
    BY <1>9, <2>1 DEF FiledInv
<1>10. ASSUME NEW f \in Files, NEW r \in Ranks, SetFilePriority(f, r) PROVE FiledInv'
  BY <1>9, <1>10 DEF SetFilePriority
<1>11. CASE Stop
  <2>1. CASE (\A p \in Peers : have[p] = {}) /\ \A i \in Pieces : avail[i] = 0
    <3>1. avail' = avail /\ UNCHANGED <<prio, buckets, complete, data>>
      BY <1>11, <2>1 DEF Stop, TypeOK
    <3> QED
      BY <1>1, <3>1
  <2>2. CASE ~ ((\A p \in Peers : have[p] = {}) /\ \A i \in Pieces : avail[i] = 0)
    BY <1>9, <1>11, <2>2 DEF Stop
  <2> QED
    BY <2>1, <2>2
<1>12. CASE Restart \/ UNCHANGED vars
  BY <1>1, <1>12 DEF Restart, vars
<1>13. ASSUME NEW p \in Peers, PeerNext(p) PROVE FiledInv'
  BY <1>3, <1>4, <1>5, <1>7, <1>13, ReceiveFiles DEF PeerNext
<1> QED
  BY <1>8, <1>10, <1>11, <1>12, <1>13 DEF Next

(* The order of the naturals, as a relation: a set of them has a smallest.    *)
LEMMA NatIsWellFounded ==
  ASSUME NEW R, R = {m \in Nat \X Nat : m[1] < m[2]}
  PROVE  IsWellFoundedOn(R, Nat)
<1>1. PICK Q : Q = OpToRel(<, Nat)
  OBVIOUS
<1>2. IsWellFoundedOn(Q, Nat)
  BY <1>1, NatLessThanWellFounded
<1>3. Q = {m \in Nat \X Nat : m[1] < m[2]}
  BY <1>1 DEF OpToRel
<1> QED
  BY <1>2, <1>3

LEMMA Smallest ==
  ASSUME NEW T \in SUBSET Nat, T # {}
  PROVE  \E m \in T : \A n \in T : m <= n
<1>1. PICK R : R = {m \in Nat \X Nat : m[1] < m[2]}
  OBVIOUS
<1>2. PICK m \in T : \A n \in T : ~ (<<n, m>> \in R)
  BY <1>1, NatIsWellFounded, WFMin
<1>3. ASSUME NEW n \in T PROVE m <= n
  <2>1. <<n, m>> \in Nat \X Nat
    OBVIOUS
  <2>2. n < m => <<n, m>> \in R
    BY <1>1, <2>1
  <2> QED
    BY <1>2, <2>2
<1> QED
  BY <1>3

(* The walk over the buckets has a first entry: by rank, then availability,   *)
(* then activity.                                                           *)
LEMMA FirstBucket ==
  ASSUME TypeOK, NEW B \in SUBSET buckets, B # {}
  PROVE  \E t \in B : \A u \in B : ~ Before(u, t)
<1>1. \A t \in B : t[1] \in 1..3 /\ t[2] \in Nat
  BY DEF TypeOK
<1> DEFINE distances == {n \in Nat : \E t \in B : t[1] = 3 - n}
<1>2. PICK r \in distances : \A n \in distances : r <= n
  <2>1. distances # {}
    <3>1. PICK t \in B : TRUE
      OBVIOUS
    <3>2. 3 - t[1] \in Nat /\ t[1] = 3 - (3 - t[1])
      BY <1>1
    <3> QED
      BY <3>2
  <2> QED
    BY <2>1, Smallest
<1> DEFINE top == {t \in B : t[1] = 3 - r}
<1>3. \A t \in B : t[1] <= 3 - r
  <2> SUFFICES ASSUME NEW t \in B PROVE t[1] <= 3 - r
    OBVIOUS
  <2>1. 3 - t[1] \in Nat /\ t[1] = 3 - (3 - t[1])
    BY <1>1
  <2>2. r <= 3 - t[1]
    BY <1>2, <2>1
  <2> QED
    BY <1>1, <2>2
<1> DEFINE counts == {n \in Nat : \E t \in top : t[2] = n}
<1>4. PICK a \in counts : \A n \in counts : a <= n
  <2>1. counts # {}
    BY <1>1, <1>2
  <2> QED
    BY <2>1, Smallest
<1> DEFINE best == {t \in top : t[2] = a}
<1>5. \A t \in best, u \in B : ~ Rarer(u, t) /\ (~ Rarer(t, u) => u \in best)
  BY <1>1, <1>2, <1>3, <1>4 DEF Rarer
<1>6. CASE \E t \in best : t[3] \in active
  BY <1>5, <1>6 DEF Before
<1>7. CASE \A t \in best : t[3] \notin active
  BY <1>4, <1>5, <1>7 DEF Before
<1> QED
  BY <1>6, <1>7

(* So if nothing is offered, no bucket has a block that could be.             *)
LEMMA NothingIsMissed ==
  ASSUME TypeOK, NEW p \in Peers, NextUnrequested(p) = {}
  PROVE  \A t \in buckets : Unrequested(p, t) = {}
<1> DEFINE B == {t \in buckets : Unrequested(p, t) # {}}
<1> SUFFICES ASSUME B # {} PROVE FALSE
  OBVIOUS
<1>1. PICK t \in B : \A u \in B : ~ Before(u, t)
  BY FirstBucket
<1>2. t \in {v \in buckets : ~ \E u \in buckets : Before(u, v) /\ Unrequested(p, u) # {}}
  BY <1>1
<1>3. PICK b : b \in Unrequested(p, t)
  OBVIOUS
<1> QED
  BY <1>2, <1>3 DEF NextUnrequested

LEMMA AvailableIsOffered ==
  ASSUME NEW p \in Peers, NEW c \in Available(p), CurrentBucket(PieceOf[c]) \in buckets
  PROVE  c \in Unrequested(p, CurrentBucket(PieceOf[c]))
BY DEF Available, Unrequested, CurrentBucket, BlocksOf

(* Ownership grows in get_next_request only.                                 *)
LEMMA OnlyReserveAsks ==
  ASSUME TypeOK, [Next]_vars, NEW p \in Peers, NEW b \in Blocks, p \in requesters'[b] \ requesters[b]
  PROVE  Reserve(p, b)
<1> USE DEF managerVars, sessionVars, requestVars, pieceVars
<1>1. ASSUME \A c \in Blocks : requesters'[c] \subseteq requesters[c] PROVE FALSE
  BY <1>1
<1>2. ASSUME NEW i, Pin(i) PROVE FALSE
  BY <1>1, <1>2 DEF Pin
<1>3. ASSUME NEW Q, NEW S, Release(Q, S) PROVE FALSE
  BY <1>1, <1>3 DEF Release
<1>4. ASSUME NEW q \in Peers, \/ Connect(q) \/ RecvUnchoke(q) \/ SendRequest(q)
                              \/ \E S \in SUBSET Pieces : RecvBitfield(q, S)
                              \/ \E i \in Pieces : RecvHave(q, i)
                              \/ \E c \in Blocks : ExpireNext(q, c) \/ CooldownOver(q, c)
      PROVE  FALSE
  BY <1>4 DEF Connect, RecvUnchoke, SendRequest, RecvBitfield, RecvHave, ExpireNext, CooldownOver
<1>5. ASSUME NEW q \in Peers, \/ RecvChoke(q) \/ Disconnect(q) \/ FinishWorker(q) \/ AbandonRequest(q)
                              \/ \E S \in SUBSET Blocks : Expire(q, S)
      PROVE  FALSE
  BY <1>3, <1>5 DEF RecvChoke, Disconnect, FinishWorker, WorkerExit, AbandonRequest, Expire
<1>6. ASSUME NEW q \in Peers, NEW c \in Blocks, NEW payload \in Payloads, RecvPiece(q, c, payload)
      PROVE  FALSE
  BY <1>3, <1>6 DEF RecvPiece, RejectBlock, StoreBlock, CompletePiece, FailPiece
<1>7. ASSUME NEW q \in Peers, CancelPiece(q) PROVE FALSE
  BY <1>1, <1>7 DEF CancelPiece
<1>8. ASSUME NEW q \in Peers, Enqueue(q) PROVE FALSE
  BY <1>2, <1>8 DEF Enqueue
<1>9. ASSUME NEW i \in Pieces, Persist(i) \/ FlushStaged(i) PROVE FALSE
  BY <1>2, <1>9 DEF Persist, FlushStaged
<1>10. ASSUME \/ \E f \in Files, r \in Ranks : SetFilePriority(f, r)
              \/ Stop \/ Restart \/ UNCHANGED vars
       PROVE  FALSE
  BY <1>10 DEF SetFilePriority, Stop, Restart, vars
<1>11. PICK q \in Peers, c \in Blocks : Reserve(q, c)
  BY <1>4, <1>5, <1>6, <1>7, <1>8, <1>9, <1>10 DEF Next, PeerNext
<1>12. q = p /\ c = b
  BY <1>11 DEF Reserve, TypeOK
<1> QED
  BY <1>11, <1>12

(* Whatever the payloads: a first owner is found before every block whose     *)
(* piece is in its bucket.                                                  *)
LEMMA FirstOwnerIsRarest ==
  ASSUME TypeOK, AllAgree, RarityExact, NEW p \in Peers, NEW b \in Blocks, Reserve(p, b),
         requesters[b] = {}, NEW c \in Available(p), CurrentBucket(PieceOf[c]) \in buckets
  PROVE  \/ PieceRank(prio, PieceOf[c]) < PieceRank(prio, PieceOf[b])
         \/ /\ PieceRank(prio, PieceOf[c]) = PieceRank(prio, PieceOf[b])
            /\ Rarity(PieceOf[b]) <= Rarity(PieceOf[c])
<1>1. sent[b] = {}
  BY DEF AllAgree, Agrees, TypeOK
<1>2. b \notin NextDuplicate(p)
  BY <1>1 DEF NextDuplicate, Duplicable
<1>3. b \in NextUnrequested(p)
  BY <1>2 DEF Reserve, NextRequests
<1>4. PICK t \in buckets : /\ ~ \E u \in buckets : Before(u, t) /\ Unrequested(p, u) # {}
                           /\ b \in Unrequested(p, t)
  BY <1>3 DEF NextUnrequested
<1>5. t = CurrentBucket(PieceOf[b])
  BY <1>4 DEF RarityExact, BucketsSound, Unrequested, BlocksOf
<1> DEFINE u == CurrentBucket(PieceOf[c])
<1>6. ~ Rarer(u, t)
  BY <1>4, AvailableIsOffered DEF Before
<1>7. PieceOf[b] \in Pieces /\ PieceOf[c] \in Pieces
  BY SchedulerAssumption DEF Available
<1>8. avail[PieceOf[b]] = Rarity(PieceOf[b]) /\ avail[PieceOf[c]] = Rarity(PieceOf[c])
  BY <1>7 DEF RarityExact, AvailabilityExact, Rarity
<1>9. /\ avail[PieceOf[b]] \in Nat /\ avail[PieceOf[c]] \in Nat
      /\ PieceRank(prio, PieceOf[b]) \in 0..3 /\ PieceRank(prio, PieceOf[c]) \in 0..3
  BY <1>7, RankIsOne DEF TypeOK
<1> QED
  BY <1>5, <1>6, <1>8, <1>9 DEF Rarer, CurrentBucket

(* A second owner is chosen in the endgame only, among blocks that may have   *)
(* one more.                                                                *)
LEMMA SecondOwnerIsEndgame ==
  ASSUME TypeOK, BucketsFull, NEW p \in Peers, NEW b \in Blocks, Reserve(p, b), requesters[b] # {}
  PROVE  EndgameActive /\ Available(p) = {} /\ Cardinality(requesters'[b]) <= MaxRequesters
<1>1. b \notin NextUnrequested(p)
  BY DEF NextUnrequested, Unrequested
<1>2. NextUnrequested(p) = {} /\ EndgameActive /\ b \in NextDuplicate(p)
  BY <1>1 DEF Reserve, NextRequests
<1>3. Available(p) = {}
  <2> SUFFICES ASSUME NEW c \in Available(p) PROVE FALSE
    OBVIOUS
  <2>1. PieceOf[c] \in Pieces \ complete /\ Wanted(PieceOf[c])
    BY SchedulerAssumption DEF Available
  <2>2. CurrentBucket(PieceOf[c]) \in buckets
    BY <2>1 DEF BucketsFull
  <2> QED
    BY <1>2, <2>2, NothingIsMissed, AvailableIsOffered
<1>4. p \notin requesters[b] /\ Cardinality(requesters[b]) < MaxRequesters
  BY <1>2 DEF NextDuplicate, Duplicable
<1>5. requesters'[b] = requesters[b] \cup {p}
  BY DEF Reserve, TypeOK
<1>6. IsFiniteSet(requesters[b]) /\ Cardinality(requesters[b]) \in Nat
  BY SomePeersAreFinite, FS_CardinalityType DEF TypeOK
<1>7. Cardinality(requesters'[b]) = Cardinality(requesters[b]) + 1
  BY <1>4, <1>5, <1>6, FS_AddElement
<1>8. MaxRequesters \in Nat
  BY SchedulerAssumption
<1> QED
  BY <1>2, <1>3, <1>4, <1>6, <1>7, <1>8

LEMMA FiledInvHolds == "bad" \notin Payloads => (Spec => [](SchedulerInv /\ FiledInv))
<1> SUFFICES ASSUME "bad" \notin Payloads PROVE Spec => [](SchedulerInv /\ FiledInv)
  OBVIOUS
<1>1. Init => FiledInv
  BY FiledInit
<1>2. SchedulerInv /\ FiledInv /\ [Next]_vars => FiledInv'
  BY FiledNext DEF SchedulerInv
<1> QED
  BY <1>1, <1>2, SchedulerInvHolds, PTL DEF Spec

(* As long as no payload is bad (a peer that sends one may make a verified    *)
(* piece leave the buckets for good): whoever asks for a block nobody asked    *)
(* for takes it from the most wanted and then the rarest piece it could have   *)
(* asked for, whatever order of bitfields, haves, losses and priorities the    *)
(* buckets were kept in (_select_unrequested_block).                          *)
THEOREM RarestIsFirst == "bad" \notin Payloads => (Spec => RarestFirst)
<1> SUFFICES ASSUME "bad" \notin Payloads PROVE Spec => RarestFirst
  OBVIOUS
<1>1. ASSUME SchedulerInv, FiledInv, [Next]_vars, NEW p \in Peers, NEW b \in Blocks,
             p \in requesters'[b], requesters[b] = {}, NEW c \in Available(p)
      PROVE  \/ PieceRank(prio, PieceOf[c]) < PieceRank(prio, PieceOf[b])
             \/ /\ PieceRank(prio, PieceOf[c]) = PieceRank(prio, PieceOf[b])
                /\ Rarity(PieceOf[b]) <= Rarity(PieceOf[c])
  <2>1. TypeOK /\ AllAgree /\ RarityExact /\ BucketsFull
    BY <1>1 DEF SchedulerInv, FiledInv
  <2>2. Reserve(p, b)
    BY <1>1, <2>1, OnlyReserveAsks
  <2>3. CurrentBucket(PieceOf[c]) \in buckets
    BY <1>1, <2>1, SchedulerAssumption DEF BucketsFull, Available
  <2> QED
    BY <1>1, <2>1, <2>2, <2>3, FirstOwnerIsRarest
<1> DEFINE Chosen == \A p \in Peers, b \in Blocks :
             p \in requesters'[b] /\ requesters[b] = {} =>
               \A c \in Available(p) :
                 LET r == PieceRank(prio, PieceOf[b])
                     s == PieceRank(prio, PieceOf[c])
                 IN  \/ s < r
                     \/ s = r /\ Rarity(PieceOf[b]) <= Rarity(PieceOf[c])
<1>2. SchedulerInv /\ FiledInv /\ [Next]_vars => [Chosen]_vars
  BY <1>1
<1> QED
  BY <1>2, FiledInvHolds, PTL DEF Spec, RarestFirst

(* Under the same proviso: a block is asked of a second peer only in the       *)
(* endgame, when that peer could get no other, and of no more peers than       *)
(* allowed, although requests are given up and made again meanwhile            *)
(* (_select_endgame_duplicate).                                             *)
THEOREM EndgameIsDisciplined == "bad" \notin Payloads => (Spec => EndgameDiscipline)
<1> SUFFICES ASSUME "bad" \notin Payloads PROVE Spec => EndgameDiscipline
  OBVIOUS
<1>1. ASSUME SchedulerInv, FiledInv, [Next]_vars, NEW p \in Peers, NEW b \in Blocks,
             p \in requesters'[b] \ requesters[b], requesters[b] # {}
      PROVE  EndgameActive /\ Available(p) = {} /\ Cardinality(requesters'[b]) <= MaxRequesters
  BY <1>1, OnlyReserveAsks, SecondOwnerIsEndgame DEF SchedulerInv, FiledInv
<1> DEFINE Doubled == \A p \in Peers, b \in Blocks :
             p \in requesters'[b] \ requesters[b] /\ requesters[b] # {} =>
               /\ EndgameActive /\ Available(p) = {}
               /\ Cardinality(requesters'[b]) <= MaxRequesters
<1>2. SchedulerInv /\ FiledInv /\ [Next]_vars => [Doubled]_vars
  BY <1>1
<1> QED
  BY <1>2, FiledInvHolds, PTL DEF Spec, EndgameDiscipline
================================================================================
