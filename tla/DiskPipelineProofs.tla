------------------------- MODULE DiskPipelineProofs -------------------------
(***************************************************************************)
(* For every value of the constants, overlapping runs included: the types  *)
(* of DiskPipeline, the soundness of the resume record, that the pipeline  *)
(* implements DurableStore and that the reserved bytes are exact.  Without *)
(* overlapping runs: no verified piece is lost, and completion is durable. *)
(***************************************************************************)
EXTENDS DiskPipeline, FiniteSetTheorems, WellFoundedInduction, TLAPS

\* What the record may claim: persisted pieces are complete and on disk, the
\* record lies within them while the process lives, and a dead process holds nothing.
RecordInv ==
  /\ persisted \subseteq complete /\ persisted \subseteq disk
  /\ resume \subseteq disk
  /\ phase # "down" => resume \subseteq persisted
  /\ phase = "down" => complete = {}

\* What the writer holds: the item it writes is a verified piece, the item whose
\* payload it has written is on disk, and only verified pieces are queued.
WriterInv ==
  /\ writer \in {"writing", "written", "saving"} => current \in complete
  /\ writer \in {"written", "saving"} => current \in disk
  /\ Range(queue) \subseteq complete \cup {Sentinel}

IndInv == TypeOK /\ RecordInv /\ WriterInv
-----------------------------------------------------------------------------
\* The items of the writer's queue under put_nowait and get, and of an empty one.
LEMMA AppendItems ==
  ASSUME NEW s \in Seq(Pieces \cup {Sentinel}), NEW e \in Pieces \cup {Sentinel}
  PROVE  /\ Append(s, e) \in Seq(Pieces \cup {Sentinel})
         /\ Range(Append(s, e)) = Range(s) \cup {e}
<1>1. DOMAIN Append(s, e) = DOMAIN s \cup {Len(s) + 1}
  OBVIOUS
<1>2. \A k \in DOMAIN s : Append(s, e)[k] = s[k]
  OBVIOUS
<1> QED
  BY <1>1, <1>2 DEF Range

\* Queue.get takes the head: what is left was there, and no item but the head goes.
LEMMA TailItems ==
  ASSUME NEW s \in Seq(Pieces \cup {Sentinel}), s # <<>>
  PROVE  /\ Head(s) \in Pieces \cup {Sentinel}
         /\ Tail(s) \in Seq(Pieces \cup {Sentinel})
         /\ Range(s) = {Head(s)} \cup Range(Tail(s))
<1>1. Head(s) = s[1] /\ 1 \in DOMAIN s /\ Tail(s) \in Seq(Pieces \cup {Sentinel})
  OBVIOUS
<1>2. \A k \in DOMAIN Tail(s) : k + 1 \in DOMAIN s /\ Tail(s)[k] = s[k + 1]
  OBVIOUS
<1>3. \A k \in DOMAIN s : k # 1 => k - 1 \in DOMAIN Tail(s) /\ Tail(s)[k - 1] = s[k]
  OBVIOUS
<1>4. ASSUME NEW k \in DOMAIN s PROVE s[k] \in {Head(s)} \cup Range(Tail(s))
  <2>1. CASE k = 1
    BY <2>1, <1>1
  <2>2. CASE k # 1
    BY <2>2, <1>3 DEF Range
  <2> QED
    BY <2>1, <2>2
<1>5. Range(Tail(s)) \subseteq Range(s)
  BY <1>2 DEF Range
<1>6. Head(s) \in Range(s)
  BY <1>1 DEF Range
<1>7. Range(s) \subseteq {Head(s)} \cup Range(Tail(s))
  BY <1>4 DEF Range
<1> QED
  BY <1>1, <1>5, <1>6, <1>7

\* The queue a new pipeline opens is empty.
LEMMA NoItems == <<>> \in Seq(Pieces \cup {Sentinel}) /\ Range(<<>>) = {}
  BY DEF Range

\* The None that stops the writer is not taken for a piece.
LEMMA SentinelIsNoPiece == Sentinel \notin Pieces
  BY PipelineAssumption DEF PipelineAssumption

\* Piece sizes are natural numbers.
LEMMA SizeNat == \A i \in Pieces : Size[i] \in Nat
  BY PipelineAssumption DEF PipelineAssumption

\* So are the bounds on failures, stops and crashes.
LEMMA BoundsNat == MaxFailures \in Nat /\ MaxStops \in Nat /\ MaxCrashes \in Nat
  BY PipelineAssumption DEF PipelineAssumption

\* A freshly prepared torrent with an idle pipeline satisfies the invariant.
LEMMA InitInd == Init => IndInv
<1> SUFFICES ASSUME Init PROVE IndInv
  OBVIOUS
<1>1. TypeOK
  <2>1. queue \in Seq(Pieces \cup {Sentinel})
    BY NoItems DEF Init
  <2>2. enq \in [Pieces -> {"none", "check", "asleep"}]
    BY DEF Init
  <2>3. failures \in 0..MaxFailures /\ stops \in 0..MaxStops /\ crashes \in 0..MaxCrashes
    BY BoundsNat DEF Init
  <2> QED
    BY <2>1, <2>2, <2>3 DEF Init, TypeOK
<1>2. RecordInv /\ WriterInv
  BY NoItems DEF Init, RecordInv, WriterInv
<1> QED
  BY <1>1, <1>2 DEF IndInv

\* Every step of the session, of the writer and of the shutdown keeps the invariant.
LEMMA NextInd == IndInv /\ [Next]_vars => IndInv'
<1> SUFFICES ASSUME IndInv, [Next]_vars PROVE IndInv'
  OBVIOUS
<1> USE DEF IndInv, TypeOK, RecordInv, WriterInv
<1>1. CASE Start
  <2>1. TypeOK'
    <3>1. enq' \in [Pieces -> {"none", "check", "asleep"}]
      BY <1>1 DEF Start, OpenPipeline, pipe, files, bounds
    <3>2. queue' = queue \/ queue' = <<>>
      BY <1>1 DEF Start, OpenPipeline, pipe
    <3>3. pending' \in Nat
      BY <1>1, SizeNat DEF Start, OpenPipeline, pipe
    <3>4. queue' \in Seq(Pieces \cup {Sentinel}) /\ pending' \in Nat
      BY <3>2, <3>3, NoItems
    <3>5. complete' \subseteq Pieces /\ inMemory' \subseteq Pieces /\ persisted' \subseteq Pieces
      BY <1>1 DEF Start, OpenPipeline, pipe, files, bounds
    <3>6. failures' \in 0..MaxFailures /\ stops' \in 0..MaxStops /\ crashes' \in 0..MaxCrashes
      BY <1>1, BoundsNat DEF Start, OpenPipeline, pipe, files, bounds
    <3> QED
      BY <1>1, <3>1, <3>4, <3>5, <3>6 DEF Start, OpenPipeline, pipe, files, bounds
  <2>2. RecordInv'
    BY <1>1 DEF Start, OpenPipeline, pipe, files, bounds
  <2>3. WriterInv'
    BY <1>1, NoItems DEF Start, OpenPipeline, pipe, files, bounds
  <2> QED
    BY <2>1, <2>2, <2>3 DEF IndInv
<1>2. CASE SeeDiskError
  BY <1>2 DEF SeeDiskError, memory, pipe, files, bounds
<1>3. CASE FinishDownload
  BY <1>3 DEF FinishDownload, memory, pipe, files, bounds
<1>4. CASE Flushed
  BY <1>4 DEF Flushed, memory, pipe, files, bounds
<1>5. CASE Stop
  <2>1. TypeOK'
    <3>1. enq' \in [Pieces -> {"none", "check", "asleep"}]
      BY <1>5 DEF Stop, SaveRecord, memory, pipe
    <3>2. queue' \in Seq(Pieces \cup {Sentinel}) /\ pending' \in Nat
      BY <1>5, BoundsNat DEF Stop, SaveRecord, memory, pipe
    <3>3. complete' \subseteq Pieces /\ inMemory' \subseteq Pieces /\ persisted' \subseteq Pieces
      BY <1>5 DEF Stop, SaveRecord, memory, pipe
    <3>4. failures' \in 0..MaxFailures /\ stops' \in 0..MaxStops /\ crashes' \in 0..MaxCrashes
      BY <1>5, BoundsNat DEF Stop, SaveRecord, memory, pipe
    <3> QED
      BY <1>5, <3>1, <3>2, <3>3, <3>4 DEF Stop, SaveRecord, memory, pipe
  <2>2. RecordInv'
    BY <1>5 DEF Stop, SaveRecord, memory, pipe
  <2>3. WriterInv'
    BY <1>5 DEF Stop, SaveRecord, memory, pipe
  <2> QED
    BY <2>1, <2>2, <2>3 DEF IndInv
<1>6. CASE TakeItem
  <2>1. TypeOK'
    BY <1>6, TailItems DEF TakeItem, memory, session, files, bounds
  <2>2. RecordInv'
    BY <1>6 DEF TakeItem, memory, session, files, bounds
  <2>3. WriterInv'
    BY <1>6, TailItems DEF TakeItem, memory, session, files, bounds
  <2> QED
    BY <2>1, <2>2, <2>3 DEF IndInv
<1>7. CASE WritePayload
  BY <1>7 DEF WritePayload, memory, session, bounds
<1>8. CASE MarkPersisted
  BY <1>8 DEF MarkPersisted, session, files, bounds
<1>9. CASE SaveResume
  <2>1. TypeOK'
    <3>1. enq' \in [Pieces -> {"none", "check", "asleep"}]
      BY <1>9 DEF SaveResume, SaveRecord, Woken, memory, session, bounds
    <3>2. queue' \in Seq(Pieces \cup {Sentinel}) /\ pending' \in Nat
      BY <1>9, SizeNat DEF SaveResume, SaveRecord, Woken, memory, session, bounds
    <3>3. complete' \subseteq Pieces /\ inMemory' \subseteq Pieces /\ persisted' \subseteq Pieces
      BY <1>9 DEF SaveResume, SaveRecord, Woken, memory, session, bounds
    <3>4. failures' \in 0..MaxFailures /\ stops' \in 0..MaxStops /\ crashes' \in 0..MaxCrashes
      BY <1>9, BoundsNat DEF SaveResume, SaveRecord, Woken, memory, session, bounds
    <3> QED
      BY <1>9, <3>1, <3>2, <3>3, <3>4 DEF SaveResume, SaveRecord, Woken, memory, session, bounds
  <2>2. RecordInv'
    BY <1>9 DEF SaveResume, SaveRecord, Woken, memory, session, bounds
  <2>3. WriterInv'
    BY <1>9 DEF SaveResume, SaveRecord, Woken, memory, session, bounds
  <2> QED
    BY <2>1, <2>2, <2>3 DEF IndInv
<1>10. CASE WriteFails
  <2>1. TypeOK'
    <3>1. enq' \in [Pieces -> {"none", "check", "asleep"}]
      BY <1>10 DEF WriteFails, Woken, session
    <3>2. queue' \in Seq(Pieces \cup {Sentinel}) /\ pending' \in Nat
      BY <1>10, NoItems, BoundsNat DEF WriteFails, Woken, session
    <3>3. complete' \subseteq Pieces /\ inMemory' \subseteq Pieces /\ persisted' \subseteq Pieces
      BY <1>10 DEF WriteFails, Woken, session
    <3>4. failures' \in 0..MaxFailures /\ stops' \in 0..MaxStops /\ crashes' \in 0..MaxCrashes
      BY <1>10, BoundsNat DEF WriteFails, Woken, session
    <3> QED
      BY <1>10, <3>1, <3>2, <3>3, <3>4 DEF WriteFails, Woken, session
  <2>2. RecordInv'
    BY <1>10 DEF WriteFails, Woken, session
  <2>3. WriterInv'
    BY <1>10, NoItems DEF WriteFails, Woken, session
  <2> QED
    BY <2>1, <2>2, <2>3 DEF IndInv
<1>11. CASE BeginShutdown
  BY <1>11 DEF BeginShutdown, RunEnds, SaveRecord, memory, pipe, bounds
<1>12. CASE ShutdownJoin
  BY <1>12 DEF ShutdownJoin, memory, pipe, files, bounds
<1>13. CASE ShutdownSentinel
  BY <1>13, AppendItems DEF ShutdownSentinel, memory, files, bounds
<1>14. CASE ShutdownDone
  <2>1. TypeOK'
    BY <1>14, NoItems DEF ShutdownDone, RunEnds, SaveRecord, bounds
  <2>2. RecordInv'
    BY <1>14 DEF ShutdownDone, RunEnds, SaveRecord, bounds
  <2>3. WriterInv'
    BY <1>14, NoItems DEF ShutdownDone, RunEnds, SaveRecord, bounds
  <2> QED
    BY <2>1, <2>2, <2>3 DEF IndInv
<1>15. ASSUME NEW i \in Pieces, ShutdownEnqueue(i) PROVE IndInv'
  <2>1. TypeOK'
    <3>1. enq' \in [Pieces -> {"none", "check", "asleep"}]
      BY <1>15 DEF ShutdownEnqueue, Put, HasRoom, files, bounds
    <3>2. queue' = queue \/ queue' = Append(queue, i)
      BY <1>15 DEF ShutdownEnqueue, Put
    <3>3. pending' \in Nat
      BY <1>15, SizeNat DEF ShutdownEnqueue, Put
    <3>4. queue' \in Seq(Pieces \cup {Sentinel}) /\ pending' \in Nat
      BY <3>2, <3>3, AppendItems
    <3>5. complete' \subseteq Pieces /\ inMemory' \subseteq Pieces /\ persisted' \subseteq Pieces
      BY <1>15 DEF ShutdownEnqueue, Put, HasRoom, files, bounds
    <3>6. failures' \in 0..MaxFailures /\ stops' \in 0..MaxStops /\ crashes' \in 0..MaxCrashes
      BY <1>15, BoundsNat DEF ShutdownEnqueue, Put, HasRoom, files, bounds
    <3> QED
      BY <1>15, <3>1, <3>4, <3>5, <3>6 DEF ShutdownEnqueue, Put, HasRoom, files, bounds
  <2>2. RecordInv'
    BY <1>15 DEF ShutdownEnqueue, Put, HasRoom, files, bounds
  <2>3. WriterInv'
    <3>1. queue' = queue \/ (queue' = Append(queue, i) /\ i \in complete)
      BY <1>15 DEF ShutdownEnqueue, Put
    <3>2. Range(queue') = Range(queue) \/ (Range(queue') = Range(queue) \cup {i} /\ i \in complete)
      BY <3>1, AppendItems
    <3>3. Range(queue') \subseteq complete \cup {Sentinel}
      BY <3>2
    <3> QED
      BY <1>15, <3>3 DEF ShutdownEnqueue, WriteDirectly, files
  <2> QED
    BY <2>1, <2>2, <2>3 DEF IndInv
<1>16. ASSUME NEW i \in Pieces, Verified(i) PROVE IndInv'
  BY <1>16 DEF Verified, WriteDirectly, pipe, session, files, bounds
<1>17. ASSUME NEW i \in Pieces, EnqueueOrSleep(i) PROVE IndInv'
  <2>1. TypeOK'
    <3>1. enq' \in [Pieces -> {"none", "check", "asleep"}]
      BY <1>17 DEF EnqueueOrSleep, WriteDirectly, Put, session, files, bounds
    <3>2. queue' = queue \/ queue' = Append(queue, i)
      BY <1>17 DEF EnqueueOrSleep, Put
    <3>3. pending' \in Nat
      BY <1>17, SizeNat DEF EnqueueOrSleep, Put
    <3>4. queue' \in Seq(Pieces \cup {Sentinel}) /\ pending' \in Nat
      BY <3>2, <3>3, AppendItems
    <3>5. complete' \subseteq Pieces /\ inMemory' \subseteq Pieces /\ persisted' \subseteq Pieces
      BY <1>17 DEF EnqueueOrSleep, WriteDirectly, Put, session, files, bounds
    <3>6. failures' \in 0..MaxFailures /\ stops' \in 0..MaxStops /\ crashes' \in 0..MaxCrashes
      BY <1>17, BoundsNat DEF EnqueueOrSleep, WriteDirectly, Put, session, files, bounds
    <3>7. /\ staged' \subseteq Pieces /\ pinned' \subseteq Pieces
          /\ disk' \subseteq Pieces /\ resume' \subseteq Pieces /\ dirty' \in BOOLEAN
      BY <1>17 DEF EnqueueOrSleep, WriteDirectly, Put, files
    <3> QED
      BY <1>17, <3>1, <3>4, <3>5, <3>6, <3>7 DEF EnqueueOrSleep, WriteDirectly, Put, session, files, bounds
  <2>2. RecordInv'
    BY <1>17 DEF EnqueueOrSleep, WriteDirectly, Put, session, files, bounds
  <2>3. WriterInv'
    <3>1. queue' = queue \/ (queue' = Append(queue, i) /\ i \in complete)
      BY <1>17 DEF EnqueueOrSleep, Put
    <3>2. Range(queue') = Range(queue) \/ (Range(queue') = Range(queue) \cup {i} /\ i \in complete)
      BY <3>1, AppendItems
    <3>3. Range(queue') \subseteq complete \cup {Sentinel}
      BY <3>2
    <3> QED
      BY <1>17, <3>3 DEF EnqueueOrSleep, WriteDirectly, files
  <2> QED
    BY <2>1, <2>2, <2>3 DEF IndInv
<1>18. ASSUME NEW i \in Pieces, EnqueueRaises(i) PROVE IndInv'
  BY <1>18 DEF EnqueueRaises, memory, pipe, files, bounds
<1>19. CASE Crash
  <2>1. TypeOK'
    <3>1. enq' \in [Pieces -> {"none", "check", "asleep"}]
      BY <1>19 DEF Crash
    <3>2. queue' \in Seq(Pieces \cup {Sentinel}) /\ pending' \in Nat
      BY <1>19, NoItems, BoundsNat DEF Crash
    <3>3. complete' \subseteq Pieces /\ inMemory' \subseteq Pieces /\ persisted' \subseteq Pieces
      BY <1>19 DEF Crash
    <3>4. failures' \in 0..MaxFailures /\ stops' \in 0..MaxStops /\ crashes' \in 0..MaxCrashes
      BY <1>19, BoundsNat DEF Crash
    <3>5. disk' \subseteq Pieces /\ resume' \subseteq Pieces /\ dirty' \in BOOLEAN
      BY <1>19 DEF Crash
    <3> QED
      BY <1>19, <3>5, <3>1, <3>2, <3>3, <3>4 DEF Crash
  <2>2. RecordInv'
    BY <1>19 DEF Crash
  <2>3. WriterInv'
    BY <1>19, NoItems DEF Crash
  <2> QED
    BY <2>1, <2>2, <2>3 DEF IndInv
<1>20. CASE Relaunch
  BY <1>20 DEF Relaunch, pipe, bounds
<1>21. CASE UNCHANGED vars
  BY <1>21 DEF vars, memory, pipe, session, files, bounds
<1> QED
  BY <1>1, <1>2, <1>3, <1>4, <1>5, <1>6, <1>7, <1>8, <1>9, <1>10, <1>11, <1>12, <1>13,
     <1>14, <1>15, <1>16, <1>17, <1>18, <1>19, <1>20, <1>21
     DEF Next, Shutdown, Enqueue

\* The record and the bitfields are sound, and the writer holds what it works on, in
\* every reachable state, even when runs overlap.
THEOREM Inductive == Spec => []IndInv
  BY InitInd, NextInd, PTL DEF Spec

\* Every variable of the pipeline keeps its type.
THEOREM TypeCorrect == Spec => []TypeOK
  BY Inductive, PTL DEF IndInv

\* The resume record and the persisted bitfield never claim a piece that has not
\* reached the filesystem, whatever fails, stops, dies or overlaps.
THEOREM RecordIsSound == Spec => []ResumeSound
<1>1. IndInv => ResumeSound
  BY DEF IndInv, RecordInv, ResumeSound
<1> QED
  BY Inductive, <1>1, PTL
-----------------------------------------------------------------------------
(* The refinement.  A step that leaves verified, stored and recorded alone     *)
(* stutters; every other step is one of DurableStore.                          *)

\* A prepared torrent is an initial state of the abstract store.
LEMMA InitRefines == Init => Store!Init
  BY DEF Init, Store!Init

\* Every step of the pipeline is one of the store, or changes nothing the store has.
LEMMA NextRefines == IndInv /\ [Next]_vars => [Store!Next]_(Store!vars)
<1> SUFFICES ASSUME IndInv, [Next]_vars PROVE [Store!Next]_(Store!vars)
  OBVIOUS
<1> USE DEF IndInv, RecordInv, WriterInv
<1>1. CASE \/ Start \/ SeeDiskError \/ FinishDownload \/ Flushed
           \/ TakeItem \/ MarkPersisted
           \/ ShutdownJoin \/ ShutdownSentinel
           \/ \E i \in Pieces : ShutdownEnqueue(i) \/ EnqueueRaises(i)
           \/ UNCHANGED vars
  <2>1. UNCHANGED <<complete, disk, resume>>
    BY <1>1 DEF Start, SeeDiskError, FinishDownload, Flushed, TakeItem, MarkPersisted,
         ShutdownJoin, ShutdownSentinel, ShutdownEnqueue, EnqueueRaises, vars, memory, files
  <2> QED
    BY <2>1 DEF Store!vars
<1>2. CASE Stop \/ SaveResume \/ BeginShutdown \/ ShutdownDone
  <2>1. complete' = complete /\ disk' = disk /\ (resume' = persisted \/ resume' = resume)
    BY <1>2 DEF Stop, SaveResume, BeginShutdown, ShutdownDone, RunEnds, SaveRecord, memory
  <2> QED
    BY <2>1 DEF Store!Record, Store!Next, Store!vars
<1>3. CASE WritePayload
  <2>1. current \in complete /\ disk' = disk \cup {current}
        /\ UNCHANGED <<complete, resume>>
    BY <1>3 DEF WritePayload, memory
  <2>2. Store!Store(current) /\ current \in Pieces
    BY <2>1 DEF Store!Store, TypeOK
  <2> QED
    BY <2>2 DEF Store!Next
<1>4. CASE WriteFails
  <2>1. /\ complete' \subseteq complete /\ complete \cap persisted \subseteq complete'
        /\ UNCHANGED <<disk, resume>>
    BY <1>4 DEF WriteFails
  <2>2. resume \cap complete \subseteq persisted
    OBVIOUS
  <2> QED
    BY <2>1, <2>2 DEF Store!Forget, Store!Next
<1>5. ASSUME NEW i \in Pieces, Verified(i) PROVE Store!Next
  <2>1. complete' = complete \cup {i}
    BY <1>5 DEF Verified
  <2>2. CASE writer = "off"
    <3>1. disk' = disk \cup {i} /\ resume' = persisted \cup {i}
      BY <1>5, <2>2 DEF Verified, WriteDirectly
    <3> QED
      BY <2>1, <3>1 DEF Store!WriteThrough, Store!Next
  <2>3. CASE writer # "off"
    <3>1. UNCHANGED <<disk, resume>>
      BY <1>5, <2>3 DEF Verified, files
    <3> QED
      BY <2>1, <3>1 DEF Store!Verify, Store!Next
  <2> QED
    BY <2>2, <2>3
<1>6. ASSUME NEW i \in Pieces, EnqueueOrSleep(i) PROVE [Store!Next]_(Store!vars)
  <2>1. i \in complete /\ complete' = complete
    BY <1>6 DEF EnqueueOrSleep
  <2>2. CASE writer = "off"
    <3>1. disk' = disk \cup {i} /\ resume' = persisted \cup {i}
      BY <1>6, <2>2 DEF EnqueueOrSleep, WriteDirectly
    <3> QED
      BY <2>1, <3>1 DEF Store!WriteThrough, Store!Next
  <2>3. CASE writer # "off"
    <3>1. UNCHANGED <<disk, resume>>
      BY <1>6, <2>3 DEF EnqueueOrSleep, files
    <3> QED
      BY <2>1, <3>1 DEF Store!vars
  <2> QED
    BY <2>2, <2>3
<1>7. CASE Crash
  <2>1. /\ complete' = {} /\ resume' = resume
        /\ disk' = disk \/ (disk' = disk \cup {current} /\ current \in complete)
    BY <1>7 DEF Crash
  <2> QED
    BY <2>1 DEF Store!Crash, Store!Next
<1>8. CASE Relaunch
  <2>1. /\ complete = {} /\ complete' \in {resume, disk}
        /\ resume' = complete' /\ disk' = disk
    BY <1>8 DEF Relaunch
  <2> QED
    BY <2>1 DEF Store!Reload, Store!Next
<1> QED
  BY <1>1, <1>2, <1>3, <1>4, <1>5, <1>6, <1>7, <1>8 DEF Next, Shutdown, Enqueue

\* The write-behind pipeline, with its crashes, failures and overlapping runs,
\* implements the abstract store: only stored pieces are recorded, nothing that is
\* stored is lost, and a disk failure forgets no recorded piece.
THEOREM PipelineImplementsStore == Spec => StoreSpec
  BY Inductive, InitRefines, NextRefines, PTL DEF Spec, StoreSpec, Store!Spec
-----------------------------------------------------------------------------
(* No verified piece is lost, for runs that do not overlap.                    *)

\* A shutdown has no worker beside it; the sentinel is the last item, put when
\* everything else was written; between two runs there is no writer.
ShutdownInv ==
  /\ shut # "none" => /\ phase \in {"stopping", "error"} /\ writer # "off"
                      /\ \A i \in Pieces : enq[i] = "none"
  /\ shut # "wait" => Sentinel \notin Range(queue)
  /\ shut = "wait" => (queue = <<>> \/ queue = <<Sentinel>>) /\ ~ Working
  /\ writer = "done" => queue = <<>> /\ (diskError \/ shut = "wait")
  /\ phase \in {"idle", "down"} => writer = "off" /\ shut = "none"

\* A pinned piece is still queued or being written, so the pinned copies dropped
\* with the pipeline are copies of nothing that is missing on disk.
PinnedInv ==
  /\ writer \in {"off", "done"} => pinned = {}
  /\ \A i \in pinned : i \in Range(queue) \/ (writer \in {"writing", "written"} /\ i = current)

HeldInv == ShutdownInv /\ PinnedInv /\ VerifiedIsHeld

\* As long as no write has failed, a piece that is neither on disk nor pinned is
\* still staged, and a shutdown leaves none of those behind.
StagedInv ==
  failures = 0 =>
    /\ ~ diskError
    /\ complete \subseteq disk \cup pinned \cup staged
    /\ staged \subseteq complete \ persisted
    /\ \A i \in staged : i \notin Range(queue) /\ (Working => i # current)
    /\ shut = "staging" => staged \subseteq toFlush
    /\ shut \in {"join", "wait"} => staged = {}
    /\ writer = "off" => staged = {}
    /\ phase = "seeding" => disk = Pieces

SafeInv == IndInv /\ HeldInv /\ StagedInv

\* Before the first piece is verified there is nothing to lose.
LEMMA InitHeld == Init => HeldInv /\ StagedInv
  BY NoItems DEF Init, HeldInv, ShutdownInv, PinnedInv, VerifiedIsHeld, StagedInv, Working

\* No step drops a verified piece, if a run starts only once its predecessor is done.
LEMMA NextHeld ==
  ASSUME Overlap = FALSE, IndInv, HeldInv, [Next]_vars PROVE HeldInv'
<1> USE DEF IndInv, TypeOK, RecordInv, WriterInv, HeldInv, ShutdownInv, PinnedInv, VerifiedIsHeld, Working
<1>1. CASE Start
  <2>1. ShutdownInv'
    BY <1>1, NoItems DEF Start, OpenPipeline, pipe, files, bounds
  <2>2. PinnedInv'
    BY <1>1, NoItems DEF Start, OpenPipeline, pipe, files, bounds
  <2>3. VerifiedIsHeld'
    BY <1>1, NoItems DEF Start, OpenPipeline, pipe, files, bounds
  <2> QED
    BY <2>1, <2>2, <2>3 DEF HeldInv
<1>2. CASE SeeDiskError
  <2>1. ShutdownInv'
    BY <1>2 DEF SeeDiskError, memory, pipe, files, bounds
  <2>2. PinnedInv'
    BY <1>2 DEF SeeDiskError, memory, pipe, files, bounds
  <2>3. VerifiedIsHeld'
    BY <1>2 DEF SeeDiskError, memory, pipe, files, bounds
  <2> QED
    BY <2>1, <2>2, <2>3 DEF HeldInv
<1>3. CASE FinishDownload
  <2>1. ShutdownInv'
    BY <1>3 DEF FinishDownload, memory, pipe, files, bounds
  <2>2. PinnedInv'
    BY <1>3 DEF FinishDownload, memory, pipe, files, bounds
  <2>3. VerifiedIsHeld'
    BY <1>3 DEF FinishDownload, memory, pipe, files, bounds
  <2> QED
    BY <2>1, <2>2, <2>3 DEF HeldInv
<1>4. CASE Flushed
  <2>1. ShutdownInv'
    BY <1>4 DEF Flushed, memory, pipe, files, bounds
  <2>2. PinnedInv'
    BY <1>4 DEF Flushed, memory, pipe, files, bounds
  <2>3. VerifiedIsHeld'
    BY <1>4 DEF Flushed, memory, pipe, files, bounds
  <2> QED
    BY <2>1, <2>2, <2>3 DEF HeldInv
<1>5. CASE Stop
  <2>1. ShutdownInv'
    BY <1>5 DEF Stop, SaveRecord, memory, pipe
  <2>2. PinnedInv'
    BY <1>5 DEF Stop, SaveRecord, memory, pipe
  <2>3. VerifiedIsHeld'
    BY <1>5 DEF Stop, SaveRecord, memory, pipe
  <2> QED
    BY <2>1, <2>2, <2>3 DEF HeldInv
<1>6. CASE TakeItem
  <2>1. ShutdownInv'
    BY <1>6, TailItems DEF TakeItem, memory, session, files, bounds
  <2>2. PinnedInv'
    <3>1. CASE Head(queue) = Sentinel
      <4>1. Sentinel \in Range(queue)
        BY <1>6, <3>1, TailItems DEF TakeItem
      <4>2. queue = <<Sentinel>> /\ ~ Working
        BY <4>1, <1>6 DEF TakeItem
      <4>3. Tail(queue) = <<>>
        BY <4>2
      <4>4. Range(queue) = {Sentinel}
        BY <1>6, <3>1, <4>3, TailItems, NoItems DEF TakeItem
      <4>5. pinned = {}
        BY <4>2, <4>4, SentinelIsNoPiece
      <4> QED
        BY <1>6, <4>5 DEF TakeItem, memory
    <3>2. CASE Head(queue) # Sentinel
      BY <1>6, <3>2, TailItems DEF TakeItem, memory
    <3> QED
      BY <3>1, <3>2
  <2>3. VerifiedIsHeld'
    BY <1>6, TailItems DEF TakeItem, memory, session, files, bounds
  <2> QED
    BY <2>1, <2>2, <2>3 DEF HeldInv
<1>7. CASE WritePayload
  <2>1. ShutdownInv'
    BY <1>7 DEF WritePayload, memory, session, bounds
  <2>2. PinnedInv'
    BY <1>7 DEF WritePayload, memory, session, bounds
  <2>3. VerifiedIsHeld'
    BY <1>7 DEF WritePayload, memory, session, bounds
  <2> QED
    BY <2>1, <2>2, <2>3 DEF HeldInv
<1>8. CASE MarkPersisted
  <2>1. ShutdownInv'
    BY <1>8 DEF MarkPersisted, session, files, bounds
  <2>2. PinnedInv'
    BY <1>8 DEF MarkPersisted, session, files, bounds
  <2>3. VerifiedIsHeld'
    BY <1>8 DEF MarkPersisted, session, files, bounds
  <2> QED
    BY <2>1, <2>2, <2>3 DEF HeldInv
<1>9. CASE SaveResume
  <2>1. ShutdownInv'
    BY <1>9 DEF SaveResume, SaveRecord, Woken, memory, session, bounds
  <2>2. PinnedInv'
    BY <1>9 DEF SaveResume, SaveRecord, Woken, memory, session, bounds
  <2>3. VerifiedIsHeld'
    BY <1>9 DEF SaveResume, SaveRecord, Woken, memory, session, bounds
  <2> QED
    BY <2>1, <2>2, <2>3 DEF HeldInv
<1>10. CASE WriteFails
  <2>1. ShutdownInv'
    BY <1>10, NoItems DEF WriteFails, Woken, session
  <2>2. PinnedInv'
    BY <1>10, NoItems DEF WriteFails, Woken, session
  <2>3. VerifiedIsHeld'
    BY <1>10, NoItems DEF WriteFails, Woken, session
  <2> QED
    BY <2>1, <2>2, <2>3 DEF HeldInv
<1>11. CASE BeginShutdown
  <2>1. ShutdownInv'
    BY <1>11 DEF BeginShutdown, RunEnds, SaveRecord, memory, pipe, bounds
  <2>2. PinnedInv'
    BY <1>11 DEF BeginShutdown, RunEnds, SaveRecord, memory, pipe, bounds
  <2>3. VerifiedIsHeld'
    BY <1>11 DEF BeginShutdown, RunEnds, SaveRecord, memory, pipe, bounds
  <2> QED
    BY <2>1, <2>2, <2>3 DEF HeldInv
<1>12. CASE ShutdownJoin
  <2>1. ShutdownInv'
    BY <1>12 DEF ShutdownJoin, memory, pipe, files, bounds
  <2>2. PinnedInv'
    BY <1>12 DEF ShutdownJoin, memory, pipe, files, bounds
  <2>3. VerifiedIsHeld'
    BY <1>12 DEF ShutdownJoin, memory, pipe, files, bounds
  <2> QED
    BY <2>1, <2>2, <2>3 DEF HeldInv
<1>13. CASE ShutdownSentinel
  <2>1. ShutdownInv'
    BY <1>13, AppendItems, NoItems DEF ShutdownSentinel, Drained, memory, files, bounds
  <2>2. PinnedInv'
    BY <1>13, AppendItems, NoItems DEF ShutdownSentinel, Drained, memory, files, bounds
  <2>3. VerifiedIsHeld'
    BY <1>13, AppendItems, NoItems DEF ShutdownSentinel, Drained, memory, files, bounds
  <2> QED
    BY <2>1, <2>2, <2>3 DEF HeldInv
<1>14. CASE ShutdownDone
  <2>1. ShutdownInv'
    BY <1>14, NoItems DEF ShutdownDone, RunEnds, SaveRecord, bounds
  <2>2. PinnedInv'
    BY <1>14, NoItems DEF ShutdownDone, RunEnds, SaveRecord, bounds
  <2>3. VerifiedIsHeld'
    BY <1>14, NoItems DEF ShutdownDone, RunEnds, SaveRecord, bounds
  <2> QED
    BY <2>1, <2>2, <2>3 DEF HeldInv
<1>15. ASSUME NEW i \in Pieces, ShutdownEnqueue(i) PROVE HeldInv'
  <2>1. Range(queue') = Range(queue) \/ (Range(queue') = Range(queue) \cup {i} /\ Put(i))
    BY <1>15, AppendItems DEF ShutdownEnqueue, Put
  <2>2. ShutdownInv'
    BY <1>15, <2>1, SentinelIsNoPiece DEF ShutdownEnqueue, Put, files, bounds
  <2>3. PinnedInv'
    <3>1. CASE queue' = queue /\ pinned' = pinned
      BY <1>15, <3>1 DEF ShutdownEnqueue
    <3>2. CASE Put(i)
      <4>1. pinned' = pinned \cup {i} /\ Range(queue') = Range(queue) \cup {i}
        BY <3>2, AppendItems DEF Put
      <4>2. writer' = writer /\ current' = current /\ writer \notin {"off", "done"}
        BY <1>15, <3>2 DEF ShutdownEnqueue, Put
      <4> QED
        BY <4>1, <4>2
    <3> QED
      BY <1>15, <3>1, <3>2 DEF ShutdownEnqueue
  <2>4. VerifiedIsHeld'
    BY <1>15, <2>1 DEF ShutdownEnqueue, Put, files, bounds
  <2> QED
    BY <2>2, <2>3, <2>4 DEF HeldInv
<1>16. ASSUME NEW i \in Pieces, Verified(i) PROVE HeldInv'
  <2>1. ShutdownInv'
    BY <1>16 DEF Verified, WriteDirectly, pipe, session, files, bounds
  <2>2. PinnedInv'
    BY <1>16 DEF Verified, WriteDirectly, pipe, session, files, bounds
  <2>3. VerifiedIsHeld'
    BY <1>16 DEF Verified, WriteDirectly, pipe, session, files, bounds
  <2> QED
    BY <2>1, <2>2, <2>3 DEF HeldInv
<1>17. ASSUME NEW i \in Pieces, EnqueueOrSleep(i) PROVE HeldInv'
  <2>1. Range(queue') = Range(queue) \/ (Range(queue') = Range(queue) \cup {i} /\ Put(i))
    BY <1>17, AppendItems DEF EnqueueOrSleep, Put
  <2>2. ShutdownInv'
    BY <1>17, <2>1, SentinelIsNoPiece DEF EnqueueOrSleep, WriteDirectly, Put, session, files, bounds
  <2>3. PinnedInv'
    <3>1. CASE queue' = queue /\ pinned' = pinned
      BY <1>17, <3>1 DEF EnqueueOrSleep
    <3>2. CASE Put(i)
      <4>1. pinned' = pinned \cup {i} /\ Range(queue') = Range(queue) \cup {i}
        BY <3>2, AppendItems DEF Put
      <4>2. writer' = writer /\ current' = current /\ writer \notin {"off", "done"}
        BY <1>17, <3>2 DEF EnqueueOrSleep, Put
      <4> QED
        BY <4>1, <4>2
    <3> QED
      BY <1>17, <3>1, <3>2 DEF EnqueueOrSleep
  <2>4. VerifiedIsHeld'
    BY <1>17, <2>1 DEF EnqueueOrSleep, WriteDirectly, Put, session, files, bounds
  <2> QED
    BY <2>2, <2>3, <2>4 DEF HeldInv
<1>18. ASSUME NEW i \in Pieces, EnqueueRaises(i) PROVE HeldInv'
  <2>1. ShutdownInv'
    BY <1>18 DEF EnqueueRaises, memory, pipe, files, bounds
  <2>2. PinnedInv'
    BY <1>18 DEF EnqueueRaises, memory, pipe, files, bounds
  <2>3. VerifiedIsHeld'
    BY <1>18 DEF EnqueueRaises, memory, pipe, files, bounds
  <2> QED
    BY <2>1, <2>2, <2>3 DEF HeldInv
<1>19. CASE Crash
  <2>1. ShutdownInv'
    BY <1>19, NoItems DEF Crash
  <2>2. PinnedInv'
    BY <1>19, NoItems DEF Crash
  <2>3. VerifiedIsHeld'
    BY <1>19, NoItems DEF Crash
  <2> QED
    BY <2>1, <2>2, <2>3 DEF HeldInv
<1>20. CASE Relaunch
  <2>1. ShutdownInv'
    BY <1>20 DEF Relaunch, pipe, bounds
  <2>2. PinnedInv'
    BY <1>20 DEF Relaunch, pipe, bounds
  <2>3. VerifiedIsHeld'
    BY <1>20 DEF Relaunch, pipe, bounds
  <2> QED
    BY <2>1, <2>2, <2>3 DEF HeldInv
<1>21. CASE UNCHANGED vars
  <2>1. ShutdownInv'
    BY <1>21 DEF vars, memory, pipe, session, files, bounds
  <2>2. PinnedInv'
    BY <1>21 DEF vars, memory, pipe, session, files, bounds
  <2>3. VerifiedIsHeld'
    BY <1>21 DEF vars, memory, pipe, session, files, bounds
  <2> QED
    BY <2>1, <2>2, <2>3 DEF HeldInv
<1> QED
  BY <1>1, <1>2, <1>3, <1>4, <1>5, <1>6, <1>7, <1>8, <1>9, <1>10, <1>11, <1>12, <1>13, <1>14, <1>15, <1>16, <1>17, <1>18, <1>19, <1>20, <1>21 DEF Next, Shutdown, Enqueue

\* No step announces completion with a piece still waiting for the writer.
LEMMA NextStaged ==
  ASSUME Overlap = FALSE, IndInv, HeldInv, StagedInv, [Next]_vars PROVE StagedInv'
<1> USE DEF IndInv, TypeOK, RecordInv, WriterInv, HeldInv, ShutdownInv, PinnedInv, StagedInv, Working, IsFinished, Drained
<1>1. CASE Start
  BY <1>1, NoItems DEF Start, OpenPipeline, pipe, files, bounds
<1>2. CASE SeeDiskError
  BY <1>2 DEF SeeDiskError, memory, pipe, files, bounds
<1>3. CASE FinishDownload
  BY <1>3 DEF FinishDownload, memory, pipe, files, bounds
<1>4. CASE Flushed
  <2>1. phase' = "seeding" /\ failures = 0 => disk = Pieces
    BY <1>4, NoItems DEF Flushed
  <2> QED
    BY <1>4, <2>1 DEF Flushed, memory, pipe, files, bounds
<1>5. CASE Stop
  BY <1>5 DEF Stop, SaveRecord, memory, pipe
<1>6. CASE TakeItem
  BY <1>6, TailItems DEF TakeItem, memory, session, files, bounds
<1>7. CASE WritePayload
  BY <1>7 DEF WritePayload, memory, session, bounds
<1>8. CASE MarkPersisted
  BY <1>8 DEF MarkPersisted, session, files, bounds
<1>9. CASE SaveResume
  BY <1>9 DEF SaveResume, SaveRecord, Woken, memory, session, bounds
<1>10. CASE WriteFails
  BY <1>10, NoItems DEF WriteFails, Woken, session
<1>11. CASE BeginShutdown
  BY <1>11 DEF BeginShutdown, RunEnds, SaveRecord, memory, pipe, bounds
<1>12. CASE ShutdownJoin
  BY <1>12 DEF ShutdownJoin, memory, pipe, files, bounds
<1>13. CASE ShutdownSentinel
  BY <1>13, AppendItems, NoItems DEF ShutdownSentinel, Drained, memory, files, bounds
<1>14. CASE ShutdownDone
  BY <1>14, NoItems DEF ShutdownDone, RunEnds, SaveRecord, bounds
<1>15. ASSUME NEW i \in Pieces, ShutdownEnqueue(i) PROVE StagedInv'
  <2>1. Range(queue') = Range(queue) \/ (Range(queue') = Range(queue) \cup {i} /\ Put(i))
    BY <1>15, AppendItems DEF ShutdownEnqueue, Put
  <2>2. StagedInv'
    BY <1>15, <2>1 DEF ShutdownEnqueue, Put, files, bounds
  <2> QED
    BY <2>2 DEF StagedInv
<1>16. ASSUME NEW i \in Pieces, Verified(i) PROVE StagedInv'
  BY <1>16, SentinelIsNoPiece DEF Verified, WriteDirectly, pipe, session, files, bounds
<1>17. ASSUME NEW i \in Pieces, EnqueueOrSleep(i) PROVE StagedInv'
  <2>1. Range(queue') = Range(queue) \/ (Range(queue') = Range(queue) \cup {i} /\ Put(i))
    BY <1>17, AppendItems DEF EnqueueOrSleep, Put
  <2>2. StagedInv'
    BY <1>17, <2>1 DEF EnqueueOrSleep, WriteDirectly, Put, session, files, bounds
  <2> QED
    BY <2>2 DEF StagedInv
<1>18. ASSUME NEW i \in Pieces, EnqueueRaises(i) PROVE StagedInv'
  BY <1>18 DEF EnqueueRaises, memory, pipe, files, bounds
<1>19. CASE Crash
  BY <1>19, NoItems DEF Crash
<1>20. CASE Relaunch
  BY <1>20 DEF Relaunch, pipe, bounds
<1>21. CASE UNCHANGED vars
  BY <1>21 DEF vars, memory, pipe, session, files, bounds
<1> QED
  BY <1>1, <1>2, <1>3, <1>4, <1>5, <1>6, <1>7, <1>8, <1>9, <1>10, <1>11, <1>12, <1>13, <1>14, <1>15, <1>16, <1>17, <1>18, <1>19, <1>20, <1>21 DEF Next, Shutdown, Enqueue

\* Without overlapping runs every verified piece is held until it is stored, and a
\* completed download has handed all its pieces over.
THEOREM Safe == ASSUME Overlap = FALSE PROVE Spec => []SafeInv
<1>1. Init => SafeInv
  BY InitInd, InitHeld DEF SafeInv
<1>2. SafeInv /\ [Next]_vars => SafeInv'
  BY NextInd, NextHeld, NextStaged DEF SafeInv
<1> QED
  BY <1>1, <1>2, PTL DEF Spec

\* A verified piece is never lost: it is on disk, in the writer's hands or in memory.
THEOREM NoVerifiedPieceLost == ASSUME Overlap = FALSE PROVE Spec => []VerifiedIsHeld
<1>1. SafeInv => VerifiedIsHeld
  BY DEF SafeInv, HeldInv
<1> QED
  BY Safe, <1>1, PTL

\* Completion is announced only with every piece on disk, if no write has failed.
THEOREM CompletionIsDurable == ASSUME Overlap = FALSE PROVE Spec => []AnnouncedIsStored
<1>1. SafeInv => AnnouncedIsStored
  BY DEF SafeInv, StagedInv, AnnouncedIsStored
<1> QED
  BY Safe, <1>1, PTL

\* The write-behind buffer never holds more than its limit (the half of
\* PendingExact that needs no sum over the queue).
THEOREM BufferIsBounded == Spec => [](pending <= Limit)
<1> DEFINE Bounded == pending <= Limit
<1>1. Init => Bounded
  BY PipelineAssumption DEF PipelineAssumption, Init
<1>2. ASSUME IndInv, Bounded, [Next]_vars PROVE Bounded'
  <2>1. /\ Limit \in Nat /\ pending \in Nat
        /\ \A i \in Pieces : Size[i] \in Nat /\ Size[i] <= Limit
    BY <1>2, PipelineAssumption DEF PipelineAssumption, IndInv, TypeOK
  <2>2. \/ pending' = pending \/ pending' = 0
        \/ \E i \in Pieces : pending' = pending + Size[i] /\ HasRoom(i)
        \/ \E i \in Pieces : pending > Size[i] /\ pending' = pending - Size[i]
    <3>1. CASE SaveResume
      BY <1>2, <3>1 DEF SaveResume, IndInv, WriterInv, TypeOK
    <3>2. CASE \E i \in Pieces : ShutdownEnqueue(i) \/ EnqueueOrSleep(i)
      BY <3>2 DEF ShutdownEnqueue, EnqueueOrSleep, Put
    <3>3. CASE \/ Start \/ SeeDiskError \/ FinishDownload \/ Flushed \/ Stop
               \/ TakeItem \/ WritePayload \/ MarkPersisted \/ WriteFails
               \/ BeginShutdown \/ ShutdownJoin \/ ShutdownSentinel \/ ShutdownDone
               \/ (\E i \in Pieces : Verified(i) \/ EnqueueRaises(i))
               \/ Crash \/ Relaunch \/ UNCHANGED vars
      BY <3>3 DEF Start, OpenPipeline, SeeDiskError, FinishDownload, Flushed, Stop, TakeItem,
           WritePayload, MarkPersisted, WriteFails, BeginShutdown, ShutdownJoin,
           ShutdownSentinel, ShutdownDone, Verified, EnqueueRaises, Crash, Relaunch, vars, pipe
    <3> QED
      BY <1>2, <3>1, <3>2, <3>3 DEF Next, Shutdown, Enqueue
  <2> QED
    BY <1>2, <2>1, <2>2 DEF HasRoom
<1> QED
  BY Inductive, <1>1, <1>2, PTL DEF Spec
-----------------------------------------------------------------------------
(* The sum of the sizes of a set of pieces *)

(* The order of the naturals, as a relation: a set of them has a smallest.    *)
LEMMA NatIsWellFounded ==
  ASSUME NEW R, R = {m \in Nat \X Nat : m[1] < m[2]}
  PROVE  IsWellFoundedOn(R, Nat)
<1>1. PICK Q : Q = OpToRel(<, Nat)
  OBVIOUS
<1>2. IsWellFoundedOn(Q, Nat)
  BY <1>1, NatLessThanWellFounded
<1>3. Q = {m \in Nat \X Nat : m[1] < m[2]}
  BY <1>1 DEF OpToRel
<1> QED
  BY <1>2, <1>3

(* A set of naturals has a smallest element.                                  *)
LEMMA Smallest ==
  ASSUME NEW T \in SUBSET Nat, T # {}
  PROVE  \E m \in T : \A n \in T : m <= n
<1>1. PICK R : R = {m \in Nat \X Nat : m[1] < m[2]}
  OBVIOUS
<1>2. PICK m \in T : \A n \in T : ~ (<<n, m>> \in R)
  BY <1>1, NatIsWellFounded, WFMin
<1>3. ASSUME NEW n \in T PROVE m <= n
  <2>1. <<n, m>> \in Nat \X Nat
    OBVIOUS
  <2>2. n < m => <<n, m>> \in R
    BY <1>1, <2>1
  <2> QED
    BY <1>2, <2>2
<1> QED
  BY <1>3

\* The bytes of a set of pieces, as PendingExact writes them.
Total(S) == MapThenSumSet(LAMBDA i : Size[i], S)

\* Whichever piece is taken first, a sum is its size and the sum of the others.
Additive(f, S) ==
  /\ f \in [SUBSET S -> Nat]
  /\ f[{}] = 0
  /\ \A s \in SUBSET S : \A x \in s : f[s] = Size[x] + f[s \ {x}]

\* Sets of pieces are finite, and one without a piece has one element less.
LEMMA PieceSets ==
  ASSUME NEW S \in SUBSET Pieces
  PROVE  /\ IsFiniteSet(S) /\ Cardinality(S) \in Nat
         /\ Cardinality(S) = 0 <=> S = {}
         /\ \A y \in S : Cardinality(S \ {y}) = Cardinality(S) - 1
<1>1. IsFiniteSet(S)
  BY PipelineAssumption, FS_Subset DEF PipelineAssumption
<1> QED
  BY <1>1, FS_CardinalityType, FS_EmptySet, FS_RemoveElement

\* Induction over sets of pieces: if some are bad, one is bad and none with a piece
\* less is.
LEMMA SmallestSet ==
  ASSUME NEW Bad \in SUBSET (SUBSET Pieces), Bad # {}
  PROVE  \E S \in Bad : \A y \in S : S \ {y} \notin Bad
<1> DEFINE sizes == {n \in Nat : \E S \in Bad : Cardinality(S) = n}
<1>1. sizes # {}
  BY PieceSets
<1>2. PICK m \in sizes : \A n \in sizes : m <= n
  BY <1>1, Smallest
<1>3. PICK S \in Bad : Cardinality(S) = m
  BY <1>2
<1>4. ASSUME NEW y \in S, S \ {y} \in Bad PROVE FALSE
  <2>1. Cardinality(S \ {y}) = m - 1 /\ Cardinality(S \ {y}) \in Nat
    BY <1>3, PieceSets
  <2>2. m - 1 \in sizes
    BY <1>4, <2>1
  <2> QED
    BY <1>2, <2>2
<1> QED
  BY <1>4

\* There is such a sum for the pieces of any torrent.
LEMMA AdditiveExists == \E f : Additive(f, Pieces)
<1> DEFINE Bad == {S \in SUBSET Pieces : ~ \E f : Additive(f, S)}
<1> SUFFICES ASSUME Bad # {} PROVE FALSE
  OBVIOUS
<1>1. PICK S \in Bad : \A y \in S : S \ {y} \notin Bad
  BY SmallestSet
<1>2. CASE S = {}
  <2>1. PICK f : f = [s \in SUBSET S |-> 0]
    OBVIOUS
  <2>2. Additive(f, S)
    BY <1>2, <2>1 DEF Additive
  <2> QED
    BY <1>1, <2>2
<1>3. CASE S # {}
  <2>1. PICK y : y \in S
    BY <1>3
  <2>2. PICK f : Additive(f, S \ {y})
    BY <1>1, <2>1
  <2>3. y \in Pieces /\ Size[y] \in Nat /\ \A x \in S : Size[x] \in Nat
    BY <1>1, <2>1, PipelineAssumption DEF PipelineAssumption
  <2> DEFINE g == [s \in SUBSET S |-> IF y \in s THEN Size[y] + f[s \ {y}] ELSE f[s]]
  <2>4. \A s \in SUBSET S : /\ s \ {y} \in SUBSET (S \ {y})
                            /\ f[s \ {y}] \in Nat
                            /\ y \notin s => f[s] \in Nat
    <3> SUFFICES ASSUME NEW s \in SUBSET S
                 PROVE  s \ {y} \in SUBSET (S \ {y}) /\ f[s \ {y}] \in Nat /\ (y \notin s => f[s] \in Nat)
      OBVIOUS
    <3>1. s \ {y} \in SUBSET (S \ {y})
      OBVIOUS
    <3>2. y \notin s => s \in SUBSET (S \ {y})
      OBVIOUS
    <3>3. f \in [SUBSET (S \ {y}) -> Nat]
      BY <2>2 DEF Additive
    <3> QED
      BY <3>1, <3>2, <3>3
  <2>5. g \in [SUBSET S -> Nat]
    <3>1. ASSUME NEW s \in SUBSET S PROVE (IF y \in s THEN Size[y] + f[s \ {y}] ELSE f[s]) \in Nat
      <4>1. PICK n \in Nat : n = f[s \ {y}]
        BY <2>4
      <4>2. Size[y] + n \in Nat
        BY <2>3
      <4> QED
        BY <2>4, <4>1, <4>2, Zenon
    <3> QED
      BY <3>1
  <2>6. g[{}] = 0
    BY <2>2 DEF Additive
  <2>7. ASSUME NEW s \in SUBSET S, NEW x \in s PROVE g[s] = Size[x] + g[s \ {x}]
    <3>1. CASE x = y
      BY <3>1, <2>7
    <3>2. CASE x # y /\ y \in s
      <4> DEFINE r == s \ {y}
      <4>1. r \in SUBSET (S \ {y}) /\ x \in r
        BY <3>2
      <4>2. f[r] = Size[x] + f[r \ {x}]
        BY <2>2, <4>1 DEF Additive
      <4>3. (s \ {x}) \ {y} = r \ {x}
        OBVIOUS
      <4>4. g[s] = Size[y] + f[r] /\ g[s \ {x}] = Size[y] + f[r \ {x}]
        BY <3>2, <4>3
      <4>5. f[r] \in Nat /\ f[r \ {x}] \in Nat /\ Size[x] \in Nat
        BY <2>3, <2>4, <4>3
      <4> HIDE DEF g, r
      <4> QED
        BY <2>3, <4>2, <4>4, <4>5
    <3>3. CASE y \notin s
      <4>1. s \in SUBSET (S \ {y}) /\ y \notin s \ {x}
        BY <3>3
      <4>2. f[s] = Size[x] + f[s \ {x}]
        BY <2>2, <4>1 DEF Additive
      <4> QED
        BY <3>3, <4>1, <4>2
    <3> QED
      BY <3>1, <3>2, <3>3
  <2> HIDE DEF g
  <2>8. Additive(g, S)
    BY <2>5, <2>6, <2>7 DEF Additive
  <2> QED
    BY <1>1, <2>8
<1> QED
  BY <1>2, <1>3

\* The fold of the community modules, one set at a time.
Folded(S, g) ==
  [s \in SUBSET S |-> IF s = {} THEN 0
                      ELSE Size[CHOOSE x \in s : TRUE] + g[s \ {CHOOSE x \in s : TRUE}]]

\* Every set of pieces has this sum.
LEMMA TotalIsSum ==
  ASSUME NEW f, Additive(f, Pieces), NEW S \in SUBSET Pieces
  PROVE  Total(S) = f[S]
<1>1. PICK g : g = CHOOSE h : h = Folded(S, h)
  OBVIOUS
<1>2. \E h : h = Folded(S, h)
  <2>1. PICK h : h = [s \in SUBSET S |-> f[s]]
    OBVIOUS
  <2>2. ASSUME NEW s \in SUBSET S PROVE h[s] = Folded(S, h)[s]
    <3>1. CASE s = {}
      BY <2>1, <3>1 DEF Folded, Additive
    <3>2. CASE s # {}
      <4>1. PICK x : x = CHOOSE z \in s : TRUE
        OBVIOUS
      <4>2. x \in s
        BY <3>2, <4>1
      <4>3. f[s] = Size[x] + f[s \ {x}]
        BY <4>2 DEF Additive
      <4>4. Folded(S, h)[s] = Size[x] + h[s \ {x}]
        BY <3>2, <4>1 DEF Folded
      <4> QED
        BY <2>1, <4>3, <4>4
    <3> QED
      BY <3>1, <3>2
  <2>3. h = Folded(S, h)
    BY <2>1, <2>2 DEF Folded
  <2> QED
    BY <2>3
<1>3. g = Folded(S, g)
  BY <1>1, <1>2, Zenon
<1>4. Total(S) = g[S]
  BY <1>1 DEF Total, MapThenSumSet, MapThenFoldSet, Folded
<1> DEFINE Bad == {s \in SUBSET S : g[s] # f[s]}
<1>5. ASSUME Bad # {} PROVE FALSE
  <2>1. PICK s \in Bad : \A y \in s : s \ {y} \notin Bad
    BY <1>5, SmallestSet
  <2>2. CASE s = {}
    BY <1>3, <2>1, <2>2 DEF Folded, Additive
  <2>3. CASE s # {}
    <3>1. PICK x : x = CHOOSE z \in s : TRUE
      OBVIOUS
    <3>2. x \in s /\ s \in SUBSET S
      BY <2>1, <2>3, <3>1
    <3>3. f[s] = Size[x] + f[s \ {x}]
      BY <3>2 DEF Additive
    <3>4. g[s] = Size[x] + g[s \ {x}]
      BY <1>3, <2>3, <3>1, <3>2 DEF Folded
    <3>5. g[s \ {x}] = f[s \ {x}]
      BY <2>1, <3>2
    <3> QED
      BY <2>1, <3>3, <3>4, <3>5
  <2> QED
    BY <2>2, <2>3
<1> QED
  BY <1>4, <1>5

\* Nothing is queued or being written: nothing is pending.
LEMMA TotalOfNone == Total({}) = 0
<1>1. PICK f : Additive(f, Pieces)
  BY AdditiveExists
<1> QED
  BY <1>1, TotalIsSum DEF Additive

\* One piece more adds its bytes, whatever the order the fold goes through them.
LEMMA TotalOfMore ==
  ASSUME NEW S \in SUBSET Pieces, NEW i \in Pieces, i \notin S
  PROVE  Total(S) \in Nat /\ Total(S \cup {i}) = Total(S) + Size[i]
<1>1. PICK f : Additive(f, Pieces)
  BY AdditiveExists
<1>2. f[S \cup {i}] = Size[i] + f[(S \cup {i}) \ {i}]
  BY <1>1 DEF Additive
<1>3. (S \cup {i}) \ {i} = S
  OBVIOUS
<1>4. f[S] \in Nat /\ Size[i] \in Nat
  BY <1>1, PipelineAssumption DEF Additive, PipelineAssumption
<1>5. Total(S) = f[S] /\ Total(S \cup {i}) = f[S \cup {i}]
  BY <1>1, TotalIsSum
<1>6. f[(S \cup {i}) \ {i}] = f[S]
  BY <1>3, Zenon
<1>7. Size[i] + f[S] = f[S] + Size[i]
  BY <1>4
<1> QED
  BY <1>2, <1>4, <1>5, <1>6, <1>7, Zenon
-----------------------------------------------------------------------------
(* Reservations.  Summed over a set, a piece queued twice would count once, so  *)
(* that no piece is at two places is part of what has to be shown.             *)

\* A piece is at one place: once in the queue, or with the writer.
OnceIn(s) == \A j, k \in DOMAIN s : s[j] = s[k] /\ s[j] \in Pieces => j = k

OnceQueued == OnceIn(queue) /\ (Working => current \notin Range(queue))

\* Who hands a piece over, a worker or the shutdown, does so once, and a failed or
\* closed pipeline holds nothing.
HandedOverOnce ==
  /\ \A i \in Queued \cup InFlight : enq[i] = "none" /\ i \notin toFlush /\ i \notin staged
  /\ ~ diskError => toFlush \subseteq complete /\ \A i \in toFlush : enq[i] = "none"
  /\ diskError \/ writer = "off" => Queued \cup InFlight = {}
  /\ staged \subseteq complete
  /\ shut # "staging" => toFlush = {}
  /\ shut # "none" => writer # "off" /\ phase # "down"

PendingIsTotal == pending = Total(Queued \cup InFlight)

ExactInv == OnceQueued /\ HandedOverOnce /\ PendingIsTotal

\* put_nowait of a piece that is not there, or of the sentinel.
LEMMA AppendOnce ==
  ASSUME NEW s \in Seq(Pieces \cup {Sentinel}), NEW e \in Pieces \cup {Sentinel},
         OnceIn(s), e \notin Range(s) \cap Pieces
  PROVE  OnceIn(Append(s, e))
<1>1. DOMAIN s = 1 .. Len(s) /\ DOMAIN Append(s, e) = 1 .. Len(s) + 1 /\ Len(s) \in Nat
  OBVIOUS
<1>2. Append(s, e)[Len(s) + 1] = e /\ \A k \in DOMAIN s : Append(s, e)[k] = s[k] /\ s[k] \in Range(s)
  BY DEF Range
<1> SUFFICES ASSUME NEW j \in 1 .. Len(s) + 1, NEW k \in 1 .. Len(s) + 1,
                    Append(s, e)[j] = Append(s, e)[k], Append(s, e)[j] \in Pieces
             PROVE  j = k
  BY <1>1 DEF OnceIn
<1>3. CASE j \in DOMAIN s /\ k \in DOMAIN s
  BY <1>2, <1>3 DEF OnceIn
<1>4. CASE j \notin DOMAIN s /\ k \notin DOMAIN s
  BY <1>1, <1>4
<1>5. CASE j \in DOMAIN s /\ k = Len(s) + 1
  BY <1>2, <1>5
<1>6. CASE j = Len(s) + 1 /\ k \in DOMAIN s
  BY <1>2, <1>6
<1> QED
  BY <1>1, <1>3, <1>4, <1>5, <1>6

\* Queue.get: a piece that is taken is not left in the queue.
LEMMA TailOnce ==
  ASSUME NEW s \in Seq(Pieces \cup {Sentinel}), s # <<>>, OnceIn(s)
  PROVE  OnceIn(Tail(s)) /\ (Head(s) \in Pieces => Head(s) \notin Range(Tail(s)))
<1>1. /\ Len(s) \in Nat /\ Len(s) >= 1 /\ Head(s) = s[1]
      /\ DOMAIN s = 1 .. Len(s) /\ DOMAIN Tail(s) = 1 .. Len(s) - 1
      /\ \A k \in 1 .. Len(s) - 1 : Tail(s)[k] = s[k + 1]
  OBVIOUS
<1>2. ASSUME NEW j \in DOMAIN Tail(s), NEW k \in DOMAIN Tail(s),
             Tail(s)[j] = Tail(s)[k], Tail(s)[j] \in Pieces
      PROVE  j = k
  <2>1. j + 1 \in DOMAIN s /\ k + 1 \in DOMAIN s /\ s[j + 1] = s[k + 1] /\ s[j + 1] \in Pieces
    BY <1>1, <1>2
  <2>2. j + 1 = k + 1
    BY <2>1 DEF OnceIn
  <2> QED
    BY <1>1, <2>2
<1>3. ASSUME Head(s) \in Pieces, NEW k \in DOMAIN Tail(s), Tail(s)[k] = Head(s) PROVE FALSE
  <2>1. 1 \in DOMAIN s /\ k + 1 \in DOMAIN s /\ s[1] = s[k + 1] /\ s[1] \in Pieces
    BY <1>1, <1>3
  <2>2. 1 = k + 1
    BY <2>1 DEF OnceIn
  <2> QED
    BY <1>1, <1>3, <2>2
<1> QED
  BY <1>2, <1>3 DEF OnceIn, Range

\* The pieces that hold bytes are pieces.
LEMMA HeldArePieces == IndInv => Queued \cup InFlight \in SUBSET Pieces
  BY DEF IndInv, TypeOK, WriterInv, Queued, InFlight, Working

\* Nothing is reserved before the first pipeline opens.
LEMMA InitExact == Init => ExactInv
<1> SUFFICES ASSUME Init PROVE ExactInv
  OBVIOUS
<1>1. Queued = {} /\ InFlight = {} /\ OnceIn(<<>>)
  BY NoItems DEF Init, Queued, InFlight, Working, OnceIn
<1>2. Total(Queued \cup InFlight) = 0
  BY <1>1, TotalOfNone
<1> QED
  BY <1>1, <1>2 DEF Init, ExactInv, OnceQueued, HandedOverOnce, PendingIsTotal, Working

\* A piece that nobody hands over any more and is not there is put.
LEMMA PutExact ==
  ASSUME IndInv, ExactInv, NEW i \in Pieces, Put(i), writer \notin {"off"}, ~ diskError,
         i \notin Queued \cup InFlight, i \in complete,
         UNCHANGED <<complete, writer, current, diskError, phase, shut>>,
         enq' \in [Pieces -> {"none", "check", "asleep"}], enq'[i] = "none", i \notin toFlush',
         \A j \in Pieces \ {i} : enq'[j] = enq[j], toFlush' = toFlush \ {i}
  PROVE  ExactInv'
<1>1. /\ queue \in Seq(Pieces \cup {Sentinel}) /\ pending \in Nat
      /\ i # Sentinel
  BY SentinelIsNoPiece DEF IndInv, TypeOK
<1>2. Range(queue') = Range(queue) \cup {i} /\ queue' = Append(queue, i)
  BY <1>1, AppendItems DEF Put
<1>3. i \notin Range(queue) /\ (Working => current # i)
  BY <1>1 DEF Queued, InFlight
<1>4. Queued' = Queued \cup {i} /\ InFlight' = InFlight
  BY <1>1, <1>2 DEF Queued, InFlight, Working
<1>5. OnceQueued'
  <2>1. OnceIn(Append(queue, i))
    BY <1>1, <1>3, AppendOnce DEF ExactInv, OnceQueued
  <2> QED
    BY <1>2, <1>3, <2>1 DEF ExactInv, OnceQueued, Working
<1>6. HandedOverOnce'
  <2>1. \A j \in Queued' \cup InFlight' : enq'[j] = "none" /\ j \notin toFlush' /\ j \notin staged'
    BY <1>4, HeldArePieces DEF ExactInv, HandedOverOnce, Put
  <2>2. toFlush' \subseteq complete' /\ \A j \in toFlush' : enq'[j] = "none"
    BY DEF ExactInv, HandedOverOnce, IndInv, TypeOK
  <2>3. staged' \subseteq complete'
    BY DEF ExactInv, HandedOverOnce, Put
  <2> QED
    BY <2>1, <2>2, <2>3 DEF ExactInv, HandedOverOnce
<1>7. PendingIsTotal'
  <2> DEFINE held == Queued \cup InFlight
  <2>1. held \in SUBSET Pieces /\ i \notin held
    BY HeldArePieces
  <2>2. Total(held \cup {i}) = Total(held) + Size[i]
    BY <2>1, TotalOfMore
  <2>3. Queued' \cup InFlight' = held \cup {i}
    BY <1>4
  <2>4. Total(Queued' \cup InFlight') = Total(held) + Size[i]
    BY <2>2, <2>3, Zenon
  <2>5. pending' = Total(held) + Size[i]
    BY DEF Put, ExactInv, PendingIsTotal
  <2> QED
    BY <2>4, <2>5, Zenon DEF PendingIsTotal
<1> QED
  BY <1>5, <1>6, <1>7 DEF ExactInv

\* A step that leaves the queue and what the writer holds alone keeps the sum.
LEMMA SameHeld ==
  ASSUME ExactInv, UNCHANGED <<queue, pending, current>>, Working' = Working
  PROVE  OnceQueued' /\ PendingIsTotal' /\ Queued' = Queued /\ InFlight' = InFlight
<1>1. Queued' = Queued /\ InFlight' = InFlight
  BY DEF Queued, InFlight
<1>2. OnceQueued'
  BY DEF ExactInv, OnceQueued
<1>3. PendingIsTotal'
  BY <1>1, Zenon DEF ExactInv, PendingIsTotal
<1> QED
  BY <1>1, <1>2, <1>3

\* A pipeline that drops everything drops its reservations.
LEMMA AllDropped ==
  ASSUME queue' = <<>>, pending' = 0, ~ Working'
  PROVE  OnceQueued' /\ PendingIsTotal' /\ Queued' = {} /\ InFlight' = {}
<1>1. Queued' = {} /\ InFlight' = {} /\ OnceIn(<<>>)
  BY NoItems DEF Queued, InFlight, OnceIn
<1>2. Queued' \cup InFlight' = {}
  BY <1>1
<1>3. Total(Queued' \cup InFlight') = 0
  BY <1>2, TotalOfNone, Zenon
<1> QED
  BY <1>1, <1>3 DEF OnceQueued, PendingIsTotal

\* The writer takes a piece from the queue into its hand, or ends over the sentinel.
LEMMA TakeExact == ASSUME IndInv, ExactInv, TakeItem PROVE ExactInv'
<1>1. /\ queue \in Seq(Pieces \cup {Sentinel}) /\ queue # <<>> /\ OnceIn(queue)
      /\ Head(queue) \in Pieces \cup {Sentinel} /\ ~ Working /\ queue' = Tail(queue)
  BY TailItems DEF IndInv, TypeOK, ExactInv, OnceQueued, TakeItem, Working
<1>2. Range(queue) = {Head(queue)} \cup Range(queue') /\ OnceIn(queue')
      /\ (Head(queue) \in Pieces => Head(queue) \notin Range(queue'))
  BY <1>1, TailItems, TailOnce
<1>3. Queued' \cup InFlight' = Queued \cup InFlight /\ OnceQueued'
  <2>1. CASE Head(queue) = Sentinel
    <3>1. ~ Working' /\ InFlight' = {} /\ InFlight = {}
      BY <1>1, <2>1 DEF TakeItem, Working, InFlight
    <3> QED
      BY <1>2, <2>1, <3>1 DEF Queued, OnceQueued
  <2>2. CASE Head(queue) # Sentinel
    <3>1. Working' /\ InFlight' = {Head(queue)} /\ InFlight = {} /\ current' = Head(queue)
      BY <1>1, <2>2 DEF TakeItem, Working, InFlight
    <3> QED
      BY <1>1, <1>2, <2>2, <3>1 DEF Queued, OnceQueued
  <2> QED
    BY <2>1, <2>2
<1>4. PendingIsTotal'
  <2>1. pending' = pending
    BY DEF TakeItem
  <2> QED
    BY <1>3, <2>1, Zenon DEF ExactInv, PendingIsTotal
<1>5. HandedOverOnce'
  <2>1. UNCHANGED <<enq, toFlush, diskError, shut, phase, complete, staged>>
        /\ writer = "idle" /\ writer' \in {"done", "writing"}
    BY DEF TakeItem, memory, session
  <2> QED
    BY <1>3, <2>1 DEF ExactInv, HandedOverOnce
<1> QED
  BY <1>3, <1>4, <1>5 DEF ExactInv

\* After the record is saved the writer gives back exactly what its piece reserved.
LEMMA GivenBack == ASSUME IndInv, ExactInv, SaveResume PROVE ExactInv'
<1>1. /\ writer = "saving" /\ Working /\ ~ Working'
      /\ UNCHANGED <<queue, current, diskError, phase, shut, toFlush, complete, staged>>
      /\ writer' = "idle"
  BY DEF SaveResume, Working, memory, session
<1>2. current \in Pieces /\ current \notin Queued /\ Size[current] \in Nat \ {0}
  BY <1>1, PipelineAssumption
     DEF PipelineAssumption, IndInv, WriterInv, TypeOK, ExactInv, OnceQueued, Queued
<1>3. Queued' = Queued /\ InFlight' = {} /\ InFlight = {current}
  BY <1>1 DEF Queued, InFlight
<1>4. OnceQueued'
  BY <1>1 DEF ExactInv, OnceQueued
<1>5. PendingIsTotal'
  <2>1. Queued \in SUBSET Pieces
    BY HeldArePieces
  <2>2. Total(Queued) \in Nat /\ Total(Queued \cup {current}) = Total(Queued) + Size[current]
    BY <1>2, <2>1, TotalOfMore
  <2>3. pending = Total(Queued) + Size[current]
    BY <1>3, <2>2, Zenon DEF ExactInv, PendingIsTotal
  <2>4. pending' = IF pending > Size[current] THEN pending - Size[current] ELSE 0
    BY DEF SaveResume
  <2>5. pending' = Total(Queued)
    BY <1>2, <2>2, <2>3, <2>4
  <2>6. Queued' \cup InFlight' = Queued
    BY <1>3
  <2> QED
    BY <2>5, <2>6, Zenon DEF PendingIsTotal
<1>6. HandedOverOnce'
  <2>1. \A i \in Pieces : enq[i] = "none" => enq'[i] = "none"
    BY DEF SaveResume, Woken
  <2>2. Queued \in SUBSET Pieces /\ toFlush \subseteq Pieces
    BY HeldArePieces DEF IndInv, TypeOK
  <2> QED
    BY <1>1, <1>3, <2>1, <2>2 DEF ExactInv, HandedOverOnce
<1> QED
  BY <1>4, <1>5, <1>6 DEF ExactInv

\* Every step keeps the reservations exact, overlapping runs included.
LEMMA NextExact == ASSUME IndInv, ExactInv, [Next]_vars PROVE ExactInv'
<1>0. staged \subseteq complete
  BY DEF ExactInv, HandedOverOnce
<1>1. CASE Start
  <2>1. CASE UNCHANGED <<pipe, enq, shut, toFlush, complete, staged>> /\ phase' # "down"
    <3>1. OnceQueued' /\ PendingIsTotal' /\ Queued' = Queued /\ InFlight' = InFlight
      BY <2>1, SameHeld DEF pipe, Working
    <3> QED
      BY <2>1, <3>1 DEF ExactInv, HandedOverOnce, pipe
  <2>2. CASE writer = "off" /\ OpenPipeline /\ UNCHANGED <<enq, shut, toFlush, complete>>
    <3>1. OnceQueued' /\ PendingIsTotal' /\ Queued' = {} /\ InFlight' = {}
      BY <2>2, AllDropped DEF OpenPipeline, Working
    <3>2. toFlush = {} /\ shut = "none" /\ writer' = "idle" /\ staged' = {}
      BY <2>2 DEF ExactInv, HandedOverOnce, OpenPipeline
    <3> QED
      BY <2>2, <3>1, <3>2 DEF ExactInv, HandedOverOnce
  <2> QED
    BY <1>1, <2>1, <2>2 DEF Start, OpenPipeline, pipe
<1>2. ASSUME UNCHANGED <<queue, pending, current, diskError>>, Working' = Working,
             writer' = "off" <=> writer = "off",
             \A i \in Pieces : enq[i] = "none" => enq'[i] = "none",
             toFlush' \subseteq toFlush, complete \subseteq complete', staged' \subseteq staged,
             shut' = shut \/ (toFlush = {} /\ shut # "none"),
             phase' # "down" \/ phase = "down"
      PROVE  ExactInv'
  <2>1. OnceQueued' /\ PendingIsTotal' /\ Queued' = Queued /\ InFlight' = InFlight
    BY <1>2, SameHeld
  <2>2. Queued \cup InFlight \in SUBSET Pieces /\ toFlush \subseteq Pieces
    BY HeldArePieces DEF IndInv, TypeOK
  <2>3. HandedOverOnce'
    BY <1>0, <1>2, <2>1, <2>2 DEF ExactInv, HandedOverOnce
  <2> QED
    BY <2>1, <2>3 DEF ExactInv
<1>3. CASE SeeDiskError
  BY <1>0, <1>2, <1>3 DEF SeeDiskError, memory, pipe, Working
<1>4. CASE FinishDownload
  BY <1>0, <1>2, <1>4 DEF FinishDownload, memory, pipe, Working
<1>5. CASE Flushed
  BY <1>0, <1>2, <1>5 DEF Flushed, memory, pipe, Working
<1>6. CASE Stop
  BY <1>0, <1>2, <1>6 DEF Stop, memory, pipe, Working
<1>7. CASE TakeItem
  BY <1>7, TakeExact
<1>8. CASE WritePayload
  BY <1>0, <1>2, <1>8 DEF WritePayload, memory, session, Working
<1>9. CASE MarkPersisted
  BY <1>0, <1>2, <1>9 DEF MarkPersisted, session, Working
<1>10. CASE SaveResume
  BY <1>10, GivenBack
<1>11. CASE WriteFails
  <2>1. OnceQueued' /\ PendingIsTotal' /\ Queued' = {} /\ InFlight' = {}
    BY <1>11, AllDropped DEF WriteFails, Working
  <2> QED
    BY <1>11, <2>1 DEF WriteFails, session, ExactInv, HandedOverOnce
<1>12. CASE BeginShutdown
  <2>1. /\ UNCHANGED <<queue, pending, current, diskError, complete>> /\ Working' = Working
        /\ \A i \in Pieces : enq'[i] = "none"
        /\ UNCHANGED writer /\ phase' # "down" /\ shut = "none"
    BY <1>12 DEF BeginShutdown, RunEnds, memory, pipe, Working
  <2>2. OnceQueued' /\ PendingIsTotal' /\ Queued' = Queued /\ InFlight' = InFlight
    BY <2>1, SameHeld
  <2>3. Queued \cup InFlight \in SUBSET Pieces /\ toFlush \subseteq Pieces /\ toFlush = {}
    BY <2>1, HeldArePieces DEF IndInv, TypeOK, ExactInv, HandedOverOnce
  <2>4. CASE writer = "off"
    BY <1>0, <1>2, <1>12, <2>1, <2>4 DEF BeginShutdown, memory
  <2>5. CASE writer # "off"
    <3>1. shut' = "staging" /\ toFlush' = (IF diskError THEN {} ELSE staged) /\ staged' = staged
      BY <1>12, <2>5 DEF BeginShutdown, memory
    <3> QED
      BY <1>0, <2>1, <2>2, <2>3, <2>5, <3>1 DEF ExactInv, HandedOverOnce, IndInv, TypeOK
  <2> QED
    BY <2>4, <2>5
<1>13. CASE ShutdownJoin
  BY <1>0, <1>2, <1>13 DEF ShutdownJoin, memory, pipe, Working
<1>14. CASE ShutdownSentinel
  <2>1. toFlush = {} /\ UNCHANGED <<pending, current, writer, diskError, enq, toFlush, complete, staged>>
        /\ shut' = "wait" /\ shut = "join" /\ phase' = phase
    BY <1>14 DEF ShutdownSentinel, ExactInv, HandedOverOnce, memory
  <2>2. CASE queue' = queue
    BY <1>0, <1>2, <2>1, <2>2 DEF Working
  <2>3. CASE queue' = Append(queue, Sentinel)
    <3>1. queue \in Seq(Pieces \cup {Sentinel}) /\ OnceIn(queue) /\ Sentinel \notin Pieces
      BY SentinelIsNoPiece DEF IndInv, TypeOK, ExactInv, OnceQueued
    <3>2. Range(queue') = Range(queue) \cup {Sentinel} /\ OnceIn(queue')
      BY <2>3, <3>1, AppendItems, AppendOnce
    <3>3. Queued' = Queued /\ InFlight' = InFlight /\ (Working => current \in Pieces)
      BY <2>1, <3>2 DEF Queued, InFlight, Working, IndInv, WriterInv, TypeOK
    <3>4. OnceQueued'
      BY <2>1, <3>1, <3>2, <3>3 DEF ExactInv, OnceQueued, Working
    <3>5. PendingIsTotal'
      BY <2>1, <3>3, Zenon DEF ExactInv, PendingIsTotal
    <3>6. HandedOverOnce'
      BY <2>1, <3>3 DEF ExactInv, HandedOverOnce
    <3> QED
      BY <3>4, <3>5, <3>6 DEF ExactInv
  <2> QED
    BY <1>14, <2>2, <2>3 DEF ShutdownSentinel
<1>15. CASE ShutdownDone
  <2>1. OnceQueued' /\ PendingIsTotal' /\ Queued' = {} /\ InFlight' = {}
    BY <1>15, AllDropped DEF ShutdownDone, Working
  <2> QED
    BY <1>15, <2>1 DEF ShutdownDone, ExactInv, HandedOverOnce
<1>16. ASSUME NEW i \in Pieces, ShutdownEnqueue(i) PROVE ExactInv'
  <2>1. /\ UNCHANGED <<complete, writer, current, diskError, enq, phase, shut>>
        /\ shut = "staging" /\ i \in toFlush
    BY <1>16 DEF ShutdownEnqueue
  <2>2. CASE UNCHANGED <<pending, staged, queue>>
    <3>1. toFlush' \subseteq toFlush
      BY <1>16 DEF ShutdownEnqueue
    <3> QED
      BY <1>0, <1>2, <2>1, <2>2, <3>1 DEF Working
  <2>3. CASE Put(i) /\ ~ diskError /\ i \in complete
    <3>1. toFlush' = toFlush \ {i}
      BY <1>16, <2>3 DEF ShutdownEnqueue
    <3>2. i \notin Queued \cup InFlight /\ writer # "off" /\ enq[i] = "none"
      BY <2>1, <2>3 DEF ExactInv, HandedOverOnce
    <3> QED
      BY <2>1, <2>3, <3>1, <3>2, PutExact DEF IndInv, TypeOK
  <2> QED
    BY <1>16, <2>2, <2>3 DEF ShutdownEnqueue
<1>17. ASSUME NEW i \in Pieces, Verified(i) PROVE ExactInv'
  <2>1. /\ UNCHANGED <<queue, pending, current, writer, diskError, toFlush, phase, shut>>
        /\ Working' = Working /\ i \notin complete /\ complete' = complete \cup {i}
        /\ phase' = phase /\ phase # "down"
    BY <1>17 DEF Verified, pipe, session, Working
  <2>2. OnceQueued' /\ PendingIsTotal' /\ Queued' = Queued /\ InFlight' = InFlight
    BY <2>1, SameHeld
  <2>3. i \notin Queued \cup InFlight
    BY <2>1 DEF IndInv, WriterInv, Queued, InFlight, Working, TypeOK, PipelineAssumption
  <2>4. staged' \subseteq complete' /\ staged' \subseteq staged \cup {i} /\ \A j \in Pieces \ {i} : enq'[j] = enq[j]
    BY <1>17, <1>0 DEF Verified, IndInv, TypeOK
  <2>5. Queued \cup InFlight \in SUBSET Pieces /\ toFlush \subseteq Pieces
    BY HeldArePieces DEF IndInv, TypeOK
  <2>6. HandedOverOnce'
    BY <2>1, <2>2, <2>3, <2>4, <2>5 DEF ExactInv, HandedOverOnce
  <2> QED
    BY <2>2, <2>6 DEF ExactInv
<1>18. ASSUME NEW i \in Pieces, EnqueueOrSleep(i) PROVE ExactInv'
  <2>1. /\ UNCHANGED <<complete, writer, current, diskError, toFlush, phase, shut>>
        /\ enq[i] = "check" /\ ~ diskError /\ i \in complete
        /\ \A j \in Pieces \ {i} : enq'[j] = enq[j]
        /\ enq' \in [Pieces -> {"none", "check", "asleep"}]
    BY <1>18 DEF EnqueueOrSleep, session, IndInv, TypeOK
  <2>2. i \notin Queued \cup InFlight /\ i \notin toFlush
    BY <2>1 DEF ExactInv, HandedOverOnce
  <2>3. CASE UNCHANGED <<pending, staged, queue>>
    <3>1. OnceQueued' /\ PendingIsTotal' /\ Queued' = Queued /\ InFlight' = InFlight
      BY <2>1, <2>3, SameHeld DEF Working
    <3>2. Queued \cup InFlight \in SUBSET Pieces /\ toFlush \subseteq Pieces
      BY HeldArePieces DEF IndInv, TypeOK
    <3>3. HandedOverOnce'
      BY <2>1, <2>2, <2>3, <3>1, <3>2 DEF ExactInv, HandedOverOnce
    <3> QED
      BY <3>1, <3>3 DEF ExactInv
  <2>4. CASE writer # "off" /\ HasRoom(i) /\ Put(i)
    <3>1. enq'[i] = "none" /\ toFlush' = toFlush \ {i}
      BY <1>18, <2>1, <2>2, <2>4 DEF EnqueueOrSleep, IndInv, TypeOK
    <3> QED
      BY <2>1, <2>2, <2>4, <3>1, PutExact
  <2> QED
    BY <1>18, <2>3, <2>4 DEF EnqueueOrSleep
<1>19. ASSUME NEW i \in Pieces, EnqueueRaises(i) PROVE ExactInv'
  <2>1. \A j \in Pieces : enq[j] = "none" => enq'[j] = "none"
    BY <1>19 DEF EnqueueRaises, IndInv, TypeOK
  <2> QED
    BY <1>0, <1>2, <1>19, <2>1 DEF EnqueueRaises, memory, pipe, Working
<1>20. CASE Crash
  <2>1. OnceQueued' /\ PendingIsTotal' /\ Queued' = {} /\ InFlight' = {}
    BY <1>20, AllDropped DEF Crash, Working
  <2> QED
    BY <1>20, <2>1 DEF Crash, ExactInv, HandedOverOnce
<1>21. CASE Relaunch
  <2>1. OnceQueued' /\ PendingIsTotal' /\ Queued' = Queued /\ InFlight' = InFlight
    BY <1>21, SameHeld DEF Relaunch, pipe, Working
  <2>2. shut = "none" /\ toFlush = {} /\ staged = {}
    BY <1>0, <1>21 DEF Relaunch, ExactInv, HandedOverOnce, IndInv, RecordInv
  <2> QED
    BY <1>21, <2>1, <2>2 DEF Relaunch, pipe, ExactInv, HandedOverOnce
<1>22. CASE UNCHANGED vars
  BY <1>0, <1>2, <1>22 DEF vars, memory, pipe, session, Working
<1> QED
  BY <1>1, <1>3, <1>4, <1>5, <1>6, <1>7, <1>8, <1>9, <1>10, <1>11, <1>12, <1>13, <1>14, <1>15,
     <1>16, <1>17, <1>18, <1>19, <1>20, <1>21, <1>22 DEF Next, Shutdown, Enqueue

\* The reserved bytes are those of the pieces queued or being written, each once, and
\* fit the buffer, also when a run starts while its predecessor closes the pipeline.
THEOREM ReservationsAreExact == Spec => []PendingExact
<1>1. Spec => []ExactInv
  BY Inductive, InitExact, NextExact, PTL DEF Spec
<1>2. ExactInv /\ pending <= Limit => PendingExact
  BY DEF ExactInv, PendingIsTotal, Total, PendingExact
<1> QED
  BY <1>1, <1>2, BufferIsBounded, PTL
=============================================================================
