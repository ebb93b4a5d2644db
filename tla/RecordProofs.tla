----------------------------- MODULE RecordProofs -----------------------------
(***************************************************************************)
(* The records of a session and the preferences, for any torrents and any    *)
(* number of operations, crashes and launches: what was saved is what the    *)
(* next launch finds, and a store that cannot be read is left alone.  The    *)
(* torrents that are made, for any files and edits: each is of one source.   *)
(***************************************************************************)
EXTENDS Records, SequenceTheorems, FiniteSetTheorems, WellFoundedInduction, TLAPS

(* The records of a session (session_state.py, session_salixorm.py).         *)

(* The queue of torrents, each of them once, and what is written of it.      *)
Orders == {order \in Seq(Entries) : IsInjective(order)}

Snapshots ==
  {snap \in [is : {"queue"}, order : Orders, intent : UNION {[S -> Intents] : S \in SUBSET Entries},
             selected : Entries \cup {"none"}] : DOMAIN snap.intent = ToSet(snap.order)}

(* What a store may hold, and the program that uses it; a program that is    *)
(* not up has nothing in memory, and none of its savers is at work.          *)
DatabaseTypes ==
  [tables : SUBSET Db!Tables, revision : {"none", "empty", "r1", "r2", "r9"},
   meta : {"none", "ok", "bad"}, rows : {Nothing, Unreadable} \cup Snapshots]

FileTypes ==
  /\ jsonFile \in {Nothing, Unreadable, Newer} \cup Snapshots
  /\ database \in DatabaseTypes
  /\ sources \subseteq Entries /\ cached \subseteq Entries

MemoryTypes ==
  /\ queued \in Orders /\ wanted \in [Entries -> Intents]
  /\ picked \in Entries \cup {"none"}
  /\ saving \in [Savers -> {NotSaving, Unbuilt} \cup Snapshots]
  /\ backend \in {"json", "salixorm"} /\ autoResume \in BOOLEAN /\ storeHealthy \in BOOLEAN
  /\ launch \in {"down", "up", "exit"} /\ stored \in {"ok", "failed", "late"}

DownIsEmpty == launch = "down" => queued = << >> /\ \A s \in Savers : Saved(s)

(* A database that cannot be read is in the hand of a program that knows,    *)
(* and nobody is about to write to it.                                       *)
WritableIsReadable ==
  backend = "salixorm" /\ Db!DatabaseLoad(database) = Unreadable =>
    /\ launch /= "down" => ~storeHealthy
    /\ \A s \in Savers : ~Writing(s)

(* The inductive invariant of the session records.                           *)
StoreInv ==
  FileTypes /\ MemoryTypes /\ DownIsEmpty /\ WritableIsReadable /\ SavedInStep /\ CopiesKept
--------------------------------------------------------------------------------
(* The order of the naturals, stated so that induction over it applies to a  *)
(* set: a set with no smallest element is empty.                             *)
LEMMA NatIsWellFounded ==
  ASSUME NEW R, R = {m \in Nat \X Nat : m[1] < m[2]}
  PROVE  IsWellFoundedOn(R, Nat)
<1>1. PICK Q : Q = OpToRel(<, Nat)
  OBVIOUS
<1>2. IsWellFoundedOn(Q, Nat)
  BY <1>1, NatLessThanWellFounded
<1>3. Q = {m \in Nat \X Nat : m[1] < m[2]}
  BY <1>1 DEF OpToRel
<1> QED
  BY <1>2, <1>3

(* A set of naturals has a smallest element.                                 *)
LEMMA Smallest ==
  ASSUME NEW T \in SUBSET Nat, T # {}
  PROVE  \E m \in T : \A n \in T : m <= n
<1>1. PICK R : R = {m \in Nat \X Nat : m[1] < m[2]}
  OBVIOUS
<1>2. PICK m \in T : \A n \in T : ~ (<<n, m>> \in R)
  BY <1>1, NatIsWellFounded, WFMin
<1>3. ASSUME NEW n \in T PROVE m <= n
  <2>1. <<n, m>> \in Nat \X Nat
    OBVIOUS
  <2>2. n < m => <<n, m>> \in R
    BY <1>1, <2>1
  <2> QED
    BY <1>2, <2>2
<1> QED
  BY <1>3

(* A set of naturals that has 0, and with each number the next up to k, has  *)
(* them all.                                                                 *)
LEMMA Induction ==
  ASSUME NEW k \in Nat, NEW T, 0 \in T, \A n \in 0 .. k : n # 0 /\ n - 1 \in T => n \in T
  PROVE  0 .. k \subseteq T
<1> SUFFICES ASSUME NEW z \in (0 .. k) \ T PROVE FALSE
  OBVIOUS
<1> DEFINE Rest == (0 .. k) \ T
<1>1. Rest \in SUBSET Nat /\ Rest # {}
  OBVIOUS
<1> HIDE DEF Rest
<1>2. PICK m \in Rest : \A n \in Rest : m <= n
  BY <1>1, Smallest
<1>3. m \in 0 .. k /\ m \notin T /\ m # 0
  BY <1>2 DEF Rest
<1>4. m - 1 \in 0 .. k /\ m - 1 \notin Rest
  BY <1>2, <1>3
<1> QED
  BY <1>3, <1>4 DEF Rest

(* The function that recursion over 0, 1, and so on up to n defines; what a   *)
(* step does is data here, a function of its number and of what was before.  *)
Recursive(f, S, n, start, step) ==
  f \in [0 .. n -> S] /\ f[0] = start /\ \A i \in 1 .. n : f[i] = step[<<i, f[i - 1]>>]

(* Such a function exists: of all functions that are right up to some number one is right    *)
(* to the end.                                                              *)
LEMMA RecursionExists ==
  ASSUME NEW S, NEW n \in Nat, NEW start \in S, NEW step \in [(1 .. n) \X S -> S]
  PROVE  \E f : Recursive(f, S, n, start, step)
<1> DEFINE Upto(m) == {f \in [0 .. m -> S] :
                         f[0] = start /\ \A i \in 1 .. m : f[i] = step[<<i, f[i - 1]>>]}
           T == {m \in 0 .. n : Upto(m) # {}}
<1>1. 0 \in T
  <2>1. [i \in {0} |-> start] \in Upto(0)
    OBVIOUS
  <2> QED
    BY <2>1
<1>2. ASSUME NEW m \in 0 .. n, m # 0, m - 1 \in T PROVE m \in T
  <2>1. PICK g \in [0 .. m - 1 -> S] :
           g[0] = start /\ \A i \in 1 .. m - 1 : g[i] = step[<<i, g[i - 1]>>]
    BY <1>2
  <2>2. PICK x \in S : x = step[<<m, g[m - 1]>>]
    <3>1. g[m - 1] \in S /\ m \in 1 .. n
      BY <1>2
    <3> QED
      BY <3>1
  <2>3. \A i \in 0 .. m : i # m => i \in 0 .. m - 1
    BY <1>2
  <2>4. \A i \in 0 .. m : (IF i = m THEN x ELSE g[i]) \in S
    BY <2>3
  <2>5. PICK f \in [0 .. m -> S] : f = [i \in 0 .. m |-> IF i = m THEN x ELSE g[i]]
    BY <2>4
  <2>6. f[m] = x /\ \A i \in 0 .. m - 1 : f[i] = g[i]
    BY <1>2, <2>5
  <2>7. f[0] = start
    BY <1>2, <2>1, <2>6
  <2>8. ASSUME NEW i \in 1 .. m PROVE f[i] = step[<<i, f[i - 1]>>]
    <3>1. f[i - 1] = g[i - 1]
      BY <1>2, <2>6
    <3>2. CASE i = m
      BY <2>2, <2>6, <3>1, <3>2
    <3>3. CASE i # m
      <4>1. i \in 1 .. m - 1 /\ f[i] = g[i]
        BY <1>2, <2>6, <3>3
      <4> QED
        BY <2>1, <3>1, <4>1
    <3> QED
      BY <3>2, <3>3
  <2>9. f \in Upto(m)
    BY <2>7, <2>8
  <2> QED
    BY <2>9
<1> HIDE DEF T
<1>3. n \in T
  <2>1. 0 .. n \subseteq T
    BY <1>1, <1>2, Induction
  <2> QED
    BY <2>1
<1> QED
  BY <1>3 DEF T, Recursive

(* The function that Filtered defines: the part of each prefix that is       *)
(* kept.                                                                     *)
Grown(order, keep, f) ==
  [n \in 0 .. Len(order) |->
     IF n = 0 THEN << >>
     ELSE IF order[n] \in keep THEN Append(f[n - 1], order[n]) ELSE f[n - 1]]

(* There is such a function.                                                *)
LEMMA GrownExists ==
  ASSUME NEW S, NEW order \in Seq(S), NEW keep
  PROVE  \E f : f = Grown(order, keep, f)
<1> DEFINE len == Len(order)
           step == [x \in (1 .. len) \X Seq(S) |->
                      IF order[x[1]] \in keep THEN Append(x[2], order[x[1]]) ELSE x[2]]
<1>1. len \in Nat /\ \A i \in 1 .. len : order[i] \in S
  BY LenProperties, ElementOfSeq
<1>2. step \in [(1 .. len) \X Seq(S) -> Seq(S)]
  <2>1. \A i \in 1 .. len, s \in Seq(S) :
          (IF order[i] \in keep THEN Append(s, order[i]) ELSE s) \in Seq(S)
    BY <1>1, AppendProperties
  <2> HIDE DEF len
  <2> QED
    BY <2>1
<1>3. PICK f : Recursive(f, Seq(S), len, << >>, step)
  <2>1. << >> \in Seq(S)
    OBVIOUS
  <2> HIDE DEF len, step
  <2> QED
    BY <1>1, <1>2, <2>1, RecursionExists
<1>4. f \in [0 .. len -> Seq(S)] /\ f[0] = << >> /\ \A i \in 1 .. len : f[i] = step[<<i, f[i - 1]>>]
  <2> HIDE DEF len, step
  <2> QED
    BY <1>3 DEF Recursive
<1>5. ASSUME NEW n \in 0 .. len PROVE f[n] = Grown(order, keep, f)[n]
  <2>1. CASE n = 0
    BY <1>1, <1>4, <2>1 DEF Grown
  <2>2. CASE n # 0
    <3>1. n \in 1 .. len /\ f[n - 1] \in Seq(S)
      BY <1>1, <1>4, <2>2
    <3>2. f[n] = IF order[n] \in keep THEN Append(f[n - 1], order[n]) ELSE f[n - 1]
      BY <1>4, <3>1
    <3> QED
      BY <2>2, <3>2 DEF Grown
  <2> QED
    BY <2>1, <2>2
<1>6. f = [n \in 0 .. len |-> f[n]] /\ Grown(order, keep, f) = [n \in 0 .. len |-> Grown(order, keep, f)[n]]
  BY <1>4 DEF Grown
<1> QED
  BY <1>5, <1>6

(* So the queue that is kept is what it grows to.                            *)
LEMMA FilteredIsGrown ==
  ASSUME NEW S, NEW order \in Seq(S), NEW keep
  PROVE  \E f : f = Grown(order, keep, f) /\ Filtered(order, keep) = f[Len(order)]
<1>1. PICK f : f = CHOOSE g : g = Grown(order, keep, g)
  OBVIOUS
<1>2. f = Grown(order, keep, f)
  BY <1>1, GrownExists, Zenon
<1>3. Filtered(order, keep) = f[Len(order)]
  BY <1>1 DEF Filtered, Grown
<1> QED
  BY <1>2, <1>3

(* What is kept of a queue has its elements and no element twice if the      *)
(* queue has none.                                                           *)
LEMMA FilteredIsPart ==
  ASSUME NEW S, NEW order \in Seq(S), NEW keep
  PROVE  /\ Filtered(order, keep) \in Seq(S)
         /\ ToSet(Filtered(order, keep)) \subseteq ToSet(order) \cap keep
         /\ IsInjective(order) => IsInjective(Filtered(order, keep))
<1>1. PICK f : f = Grown(order, keep, f) /\ Filtered(order, keep) = f[Len(order)]
  BY FilteredIsGrown
<1>2. Len(order) \in Nat /\ \A i \in 1 .. Len(order) : order[i] \in S
  BY LenProperties, ElementOfSeq
<1> DEFINE Fine(s, n) ==
      /\ s \in Seq(S)
      /\ \A i \in 1 .. Len(s) : s[i] \in keep /\ \E j \in 1 .. n : s[i] = order[j]
      /\ IsInjective(order) => IsInjective(s)
           T == {n \in 0 .. Len(order) : Fine(f[n], n)}
<1>3. f[0] = << >>
  BY <1>1, <1>2 DEF Grown
<1>4. \A n \in 1 .. Len(order) : f[n] = IF order[n] \in keep THEN Append(f[n - 1], order[n]) ELSE f[n - 1]
  <2> SUFFICES ASSUME NEW n \in 1 .. Len(order)
               PROVE  f[n] = IF order[n] \in keep THEN Append(f[n - 1], order[n]) ELSE f[n - 1]
    OBVIOUS
  <2>1. n \in 0 .. Len(order) /\ n # 0
    BY <1>2
  <2>2. f[n] = Grown(order, keep, f)[n]
    BY <1>1
  <2> QED
    BY <2>1, <2>2 DEF Grown
<1>5. 0 \in T
  <2>1. << >> \in Seq(S) /\ Len(<< >>) = 0
    BY EmptySeq
  <2>2. IsInjective(<< >>)
    BY DEF IsInjective
  <2>3. Fine(<< >>, 0)
    BY <2>1, <2>2
  <2>4. Fine(f[0], 0) /\ 0 \in 0 .. Len(order)
    <3> HIDE DEF Fine
    <3> QED
      BY <1>2, <1>3, <2>3
  <2> HIDE DEF Fine
  <2> QED
    BY <2>4
<1>6. ASSUME NEW n \in 0 .. Len(order), n # 0, n - 1 \in T PROVE n \in T
  <2>1. PICK s : s = f[n - 1]
    OBVIOUS
  <2>2. Fine(s, n - 1)
    BY <1>6, <2>1
  <2>3. ASSUME order[n] \notin keep PROVE Fine(f[n], n)
    <3>1. f[n] = s
      <4>1. n \in 1 .. Len(order)
        BY <1>2, <1>6
      <4> QED
        BY <1>4, <2>1, <2>3, <4>1
    <3>2. \A j \in 1 .. n - 1 : j \in 1 .. n
      BY <1>6
    <3> QED
      BY <2>2, <3>1, <3>2
  <2>4. ASSUME order[n] \in keep PROVE Fine(f[n], n)
    <3>1. f[n] = Append(s, order[n]) /\ order[n] \in S
      <4>1. n \in 1 .. Len(order)
        BY <1>2, <1>6
      <4> QED
        BY <1>2, <1>4, <2>1, <2>4, <4>1
    <3>2. /\ f[n] \in Seq(S) /\ Len(f[n]) = Len(s) + 1 /\ Len(s) \in Nat
          /\ \A i \in 1 .. Len(s) : f[n][i] = s[i]
          /\ f[n][Len(s) + 1] = order[n]
      BY <2>2, <3>1, AppendProperties, LenProperties
    <3>3. ASSUME NEW i \in 1 .. Len(f[n]) PROVE f[n][i] \in keep /\ \E j \in 1 .. n : f[n][i] = order[j]
      <4>1. CASE i = Len(s) + 1
        <5>1. n \in 1 .. n
          BY <1>6
        <5> QED
          BY <2>4, <3>2, <4>1, <5>1
      <4>2. CASE i \in 1 .. Len(s)
        <5>1. \A j \in 1 .. n - 1 : j \in 1 .. n
          BY <1>6
        <5>2. f[n][i] = s[i] /\ s[i] \in keep /\ \E j \in 1 .. n - 1 : s[i] = order[j]
          BY <2>2, <3>2, <4>2
        <5> QED
          BY <5>1, <5>2
      <4> QED
        BY <3>2, <4>1, <4>2
    <3>4. ASSUME IsInjective(order) PROVE IsInjective(f[n])
      <4>1. \A i \in 1 .. Len(s) : s[i] # order[n]
        <5> SUFFICES ASSUME NEW i \in 1 .. Len(s), s[i] = order[n] PROVE FALSE
          OBVIOUS
        <5>1. PICK j \in 1 .. n - 1 : order[j] = order[n]
          BY <2>2
        <5>2. DOMAIN order = 1 .. Len(order)
          BY LenProperties
        <5>3. j \in DOMAIN order /\ n \in DOMAIN order /\ j # n
          BY <1>2, <1>6, <5>1, <5>2
        <5> QED
          BY <3>4, <5>1, <5>3 DEF IsInjective
      <4>2. \A i, j \in 1 .. Len(s) : s[i] = s[j] => i = j
        BY <2>2, <3>4, LenProperties DEF IsInjective
      <4>3. \A i, j \in 1 .. Len(f[n]) : f[n][i] = f[n][j] => i = j
        BY <3>2, <4>1, <4>2
      <4>4. DOMAIN f[n] = 1 .. Len(f[n])
        BY <3>2, LenProperties
      <4> QED
        BY <4>3, <4>4 DEF IsInjective
    <3> QED
      BY <3>2, <3>3, <3>4
  <2> QED
    BY <2>3, <2>4
<1> HIDE DEF T
<1>7. Len(order) \in T
  <2>1. 0 .. Len(order) \subseteq T
    BY <1>2, <1>5, <1>6, Induction
  <2> QED
    BY <1>2, <2>1
<1>8. Fine(Filtered(order, keep), Len(order))
  BY <1>1, <1>7 DEF T
<1>9. DOMAIN order = 1 .. Len(order) /\ DOMAIN Filtered(order, keep) = 1 .. Len(Filtered(order, keep))
  BY <1>8, LenProperties
<1> QED
  BY <1>8, <1>9 DEF ToSet

--------------------------------------------------------------------------------
(* Snapshots and the marks beside them, told apart.                          *)
LEMMA SnapshotsApart ==
  /\ Nothing # Unreadable /\ Unreadable.is # "queue" /\ Nothing.is # "queue" /\ Newer.is # "queue"
  /\ NotSaving.is # "queue" /\ Unbuilt.is # "queue" /\ NotSaving.is = "not saving"
  /\ Unbuilt.is = "unbuilt" /\ Nothing.is # "unreadable" /\ Newer # Unreadable
  /\ \A snap \in Snapshots : snap.is = "queue" /\ snap # Nothing /\ snap # Unreadable
BY DEF Nothing, Unreadable, Newer, NotSaving, Unbuilt, Blank, Snapshots

(* A database is read as nothing, as unreadable, or as a snapshot.           *)
LEMMA LoadIsTyped ==
  ASSUME NEW db \in DatabaseTypes
  PROVE  Db!DatabaseLoad(db) \in {Nothing, Unreadable} \cup Snapshots
BY DEF DatabaseTypes, Db!DatabaseLoad

(* The migration brings the tables up to date and leaves the rows.           *)
LEMMA MigratedFields ==
  ASSUME NEW db \in DatabaseTypes
  PROVE  /\ Db!Migrated(db) \in DatabaseTypes
         /\ Db!Migrated(db).tables = Db!Tables /\ Db!Migrated(db).revision = "r2"
         /\ Db!Migrated(db).meta = db.meta /\ Db!Migrated(db).rows = db.rows
BY DEF DatabaseTypes, Db!Migrated, Db!Newest

(* What is saved is what is loaded.                                          *)
LEMMA SaveIsLoaded ==
  ASSUME NEW db \in DatabaseTypes, NEW snap \in Snapshots
  PROVE  /\ Db!AfterSave(db, snap) \in DatabaseTypes
         /\ Db!DatabaseLoad(Db!AfterSave(db, snap)) = snap
<1> DEFINE saved == Db!AfterSave(db, snap)
<1>1. /\ saved \in DatabaseTypes
      /\ saved.tables = Db!Tables /\ saved.revision = "r2" /\ saved.meta = "ok" /\ saved.rows = snap
  <2> DEFINE new == Db!Migrated(db)
  <2>1. new \in DatabaseTypes /\ new.tables = Db!Tables /\ new.revision = "r2"
    BY MigratedFields
  <2>2. saved = [new EXCEPT !.meta = "ok", !.rows = snap]
    BY DEF Db!AfterSave
  <2> HIDE DEF new, saved
  <2> QED
    BY <2>1, <2>2 DEF DatabaseTypes
<1> HIDE DEF saved
<1>2. Db!SchemaState(saved) = "initialized"
  BY <1>1 DEF Db!SchemaState, Db!Tables
<1>4. Db!DatabaseLoad(saved) = snap
  BY <1>1, <1>2 DEF Db!DatabaseLoad
<1> QED
  BY <1>1, <1>4 DEF saved

(* Loading may migrate, and is the same the next time.                       *)
LEMMA LoadChangesNothing ==
  ASSUME NEW db \in DatabaseTypes
  PROVE  /\ Db!AfterLoad(db) \in DatabaseTypes
         /\ Db!AfterLoad(db).rows = db.rows /\ Db!AfterLoad(db).meta = db.meta
         /\ Db!DatabaseLoad(Db!AfterLoad(db)) = Db!DatabaseLoad(db)
<1>1. CASE Db!SchemaState(db) # "initialized"
  BY <1>1 DEF Db!AfterLoad
<1>2. CASE Db!SchemaState(db) = "initialized"
  <2> DEFINE new == Db!Migrated(db)
  <2>1. /\ new \in DatabaseTypes /\ new.tables = Db!Tables /\ new.revision = "r2"
        /\ new.meta = db.meta /\ new.rows = db.rows
    BY MigratedFields
  <2>2. Db!AfterLoad(db) = new
    BY <1>2 DEF Db!AfterLoad
  <2> HIDE DEF new
  <2>3. Db!SchemaState(new) = "initialized"
    BY <2>1 DEF Db!SchemaState, Db!Tables
  <2>5. Db!DatabaseLoad(new) = Db!DatabaseLoad(db)
    BY <1>2, <2>1, <2>3 DEF Db!DatabaseLoad
  <2> QED
    BY <2>1, <2>2, <2>5
<1> QED
  BY <1>1, <1>2

(* The torrents of a queue.                                                  *)
LEMMA OrderElements ==
  ASSUME NEW order \in Orders
  PROVE  ToSet(order) \subseteq Entries /\ ToSet(order) = {order[i] : i \in 1 .. Len(order)}
BY ElementOfSeq, LenProperties DEF Orders, ToSet

(* What the manager writes is a snapshot.                                    *)
LEMMA SnapshotIsOne == MemoryTypes => Snapshot \in Snapshots
<1> SUFFICES ASSUME MemoryTypes PROVE Snapshot \in Snapshots
  OBVIOUS
<1>1. ToSet(queued) \subseteq Entries
  BY OrderElements DEF MemoryTypes
<1>2. [t \in ToSet(queued) |-> wanted[t]] \in [ToSet(queued) -> Intents]
  BY <1>1 DEF MemoryTypes
<1>3. (IF picked \in ToSet(queued) THEN picked
       ELSE IF queued = << >> THEN "none" ELSE Head(queued)) \in Entries \cup {"none"}
  <2>1. queued # << >> => Head(queued) \in Entries
    BY HeadTailProperties DEF MemoryTypes, Orders
  <2> QED
    BY <1>1, <2>1
<1> QED
  BY <1>1, <1>2, <1>3 DEF Snapshot, Snapshots, MemoryTypes

(* Before the first launch there may be any file and any database.           *)
LEMMA StoreInvInit == StoreInit => StoreInv
<1> SUFFICES ASSUME StoreInit PROVE StoreInv
  OBVIOUS
<1>1. Earlier \subseteq Snapshots
  <2> SUFFICES ASSUME NEW i \in {"active", "stopped"}
               PROVE  SnapshotOf(<<CHOOSE t \in Entries : TRUE>>, i) \in Snapshots
    BY DEF Earlier
  <2>1. PICK e \in Entries : e = CHOOSE t \in Entries : TRUE
    BY StoreAssumption
  <2>2. <<e>> \in Seq(Entries) /\ IsInjective(<<e>>) /\ ToSet(<<e>>) = {e}
    BY DEF IsInjective, ToSet
  <2>3. [t \in {e} |-> i] \in [{e} -> Intents]
    BY DEF Intents
  <2> QED
    BY <2>1, <2>2, <2>3 DEF SnapshotOf, Snapshots, Orders
<1>2. FileTypes
  <2>1. Db!NoDatabase \in DatabaseTypes
    BY DEF Db!NoDatabase, DatabaseTypes
  <2>2. Db!Databases(Earlier) \subseteq DatabaseTypes
    <3>1. Db!NoDatabase \in DatabaseTypes
      BY <2>1
    <3>2. \A tables \in SUBSET Db!Tables, revision \in {"empty", "r2", "r9"} :
            /\ [Db!NoDatabase EXCEPT !.revision = revision] \in DatabaseTypes
            /\ [Db!NoDatabase EXCEPT !.tables = tables, !.revision = revision] \in DatabaseTypes
      BY <3>1 DEF DatabaseTypes
    <3>3. {"meta"} \in SUBSET Db!Tables /\ Db!Tables \in SUBSET Db!Tables /\ Db!Newest = "r2"
      BY DEF Db!Tables, Db!Newest
    <3>4. /\ [Db!NoDatabase EXCEPT !.revision = "empty"] \in DatabaseTypes
          /\ [Db!NoDatabase EXCEPT !.revision = Db!Newest] \in DatabaseTypes
          /\ [Db!NoDatabase EXCEPT !.tables = {"meta"}, !.revision = Db!Newest] \in DatabaseTypes
          /\ [Db!NoDatabase EXCEPT !.tables = Db!Tables, !.revision = "r9"] \in DatabaseTypes
      BY <3>2, <3>3
    <3>5. [tables : {Db!Tables}, revision : {"r1", Db!Newest}, meta : {"none", "ok", "bad"},
           rows : Earlier \cup {Nothing, Unreadable}] \subseteq DatabaseTypes
      BY <1>1 DEF DatabaseTypes, Db!Newest
    <3> QED
      BY <3>1, <3>4, <3>5, Zenon DEF Db!Databases
  <2> QED
    BY <1>1, <2>1, <2>2 DEF StoreInit, FileTypes
<1>3. MemoryTypes
  <2>1. << >> \in Orders
    BY EmptySeq DEF Orders, IsInjective
  <2> QED
    BY <2>1 DEF StoreInit, MemoryTypes, Intents
<1>4. \A s \in Savers : Saved(s)
  BY DEF StoreInit, Saved, NotSaving, Blank
<1>5. \A s \in Savers : ~ Writing(s)
  BY DEF StoreInit, Writing, NotSaving, Blank
<1>6. ToSet(<< >>) = {}
  BY DEF ToSet
<1> QED
  BY <1>2, <1>3, <1>4, <1>5, <1>6
  DEF StoreInit, StoreInv, DownIsEmpty, WritableIsReadable, SavedInStep, CopiesKept
--------------------------------------------------------------------------------
(* What a saver does, by what it holds.                                      *)
LEMMA SnapshotSavers ==
  ASSUME StoreInv, NEW s \in Savers
  PROVE  /\ Writing(s) <=> saving[s] \in Snapshots
         /\ Saved(s) <=> saving[s] = NotSaving
         /\ saving[s].is = "unbuilt" <=> saving[s] = Unbuilt
BY SnapshotsApart DEF StoreInv, MemoryTypes, Writing, Saved

(* A change of the queue that is saved by a saver of its own.                *)
LEMMA ChangeKeeps ==
  ASSUME StoreInv, NEW s \in Savers, launch # "down", launch' \in {launch, "exit"},
         saving' = [saving EXCEPT ![s] = Unbuilt],
         queued' \in Orders, wanted' \in [Entries -> Intents], picked' \in Entries \cup {"none"},
         cached' \subseteq Entries, ToSet(queued') \subseteq cached',
         UNCHANGED <<setup, jsonFile, database, sources, storeHealthy, stored>>
  PROVE  StoreInv'
<1>1. FileTypes'
  BY DEF StoreInv, FileTypes
<1>2. MemoryTypes'
  BY DEF StoreInv, MemoryTypes, setup
<1>3. saving'[s] = Unbuilt /\ \A r \in Savers : r # s => saving'[r] = saving[r]
  BY DEF StoreInv, MemoryTypes
<1>4. saving'[s].is = "unbuilt"
  BY <1>3, SnapshotsApart
<1>5. ~ Saved(s)' /\ SavedInStep'
  BY <1>4 DEF Saved, SavedInStep
<1>6. WritableIsReadable'
  BY <1>3, <1>4 DEF StoreInv, WritableIsReadable, Writing, setup
<1>7. DownIsEmpty'
  BY DEF StoreInv, MemoryTypes, DownIsEmpty
<1> QED
  BY <1>1, <1>2, <1>5, <1>6, <1>7 DEF StoreInv, CopiesKept

(* A torrent is added.                                                       *)
LEMMA AddTorrentKeeps ==
  ASSUME StoreInv, NEW s \in Savers, NEW t \in Entries, AddTorrent(s, t)
  PROVE  StoreInv'
<1>1. queued' \in Orders /\ ToSet(queued') \subseteq ToSet(queued) \cup {t}
  <2>1. CASE Known(t)
    BY <2>1 DEF AddTorrent, QueuedWith, StoreInv, MemoryTypes
  <2>2. CASE ~ Known(t)
    <3>1. queued' = Append(queued, t)
      BY <2>2 DEF AddTorrent, QueuedWith
    <3>2. queued \in Seq(Entries) /\ IsInjective(queued) /\ Len(queued) \in Nat
          /\ DOMAIN queued = 1 .. Len(queued)
      BY LenProperties DEF StoreInv, MemoryTypes, Orders
    <3>3. /\ queued' \in Seq(Entries) /\ Len(queued') = Len(queued) + 1
          /\ \A i \in 1 .. Len(queued) : queued'[i] = queued[i]
          /\ queued'[Len(queued) + 1] = t
      BY <3>1, <3>2, AppendProperties
    <3>4. DOMAIN queued' = 1 .. Len(queued) + 1
      BY <3>3, LenProperties
    <3>5. \A i \in 1 .. Len(queued) : queued[i] # t
      BY <2>2, <3>2 DEF Known, ToSet
    <3>6. IsInjective(queued')
      BY <3>2, <3>3, <3>4, <3>5 DEF IsInjective
    <3>7. ToSet(queued') \subseteq ToSet(queued) \cup {t}
      BY <3>2, <3>3, <3>4 DEF ToSet
    <3> QED
      BY <3>3, <3>6, <3>7 DEF Orders
  <2> QED
    BY <2>1, <2>2
<1>2. wanted' \in [Entries -> Intents]
  BY DEF AddTorrent, StoreInv, MemoryTypes, Intents
<1>3. cached' \subseteq Entries /\ ToSet(queued') \subseteq cached'
  BY <1>1 DEF AddTorrent, StoreInv, FileTypes, CopiesKept
<1>4. picked' \in Entries \cup {"none"}
  BY DEF AddTorrent, StoreInv, MemoryTypes
<1>5. launch # "down" /\ saving' = [saving EXCEPT ![s] = Unbuilt]
      /\ UNCHANGED <<setup, jsonFile, database, sources, launch, storeHealthy, stored>>
  BY DEF AddTorrent, Free
<1> QED
  BY <1>1, <1>2, <1>3, <1>4, <1>5, ChangeKeeps

(* A torrent is paused or resumed.                                           *)
LEMMA SetIntentKeeps ==
  ASSUME StoreInv, NEW s \in Savers, NEW t \in Entries, NEW i \in Intents, SetIntent(s, t, i)
  PROVE  StoreInv'
<1>1. launch # "down" /\ saving' = [saving EXCEPT ![s] = Unbuilt]
      /\ UNCHANGED <<setup, files, queued, picked, launch, storeHealthy, stored>>
  BY DEF SetIntent, Free
<1>2. wanted' \in [Entries -> Intents]
  BY DEF SetIntent, StoreInv, MemoryTypes
<1>3. queued' \in Orders /\ picked' \in Entries \cup {"none"}
      /\ cached' \subseteq Entries /\ ToSet(queued') \subseteq cached'
  BY <1>1 DEF StoreInv, MemoryTypes, FileTypes, CopiesKept, files
<1> QED
  BY <1>1, <1>2, <1>3, ChangeKeeps DEF files

(* The queue is moved about.                                                 *)
LEMMA ReverseQueueKeeps ==
  ASSUME StoreInv, ReverseQueue
  PROVE  StoreInv'
<1>1. launch # "down" /\ saving' = [saving EXCEPT !["ui"] = Unbuilt] /\ "ui" \in Savers
      /\ UNCHANGED <<setup, files, wanted, picked, launch, storeHealthy, stored>>
  BY DEF ReverseQueue, Free, Savers
<1>2. queued \in Seq(Entries) /\ IsInjective(queued) /\ Len(queued) \in Nat
      /\ DOMAIN queued = 1 .. Len(queued) /\ \A i \in 1 .. Len(queued) : queued[i] \in Entries
  BY LenProperties, ElementOfSeq DEF StoreInv, MemoryTypes, Orders
<1>3. queued' = [i \in 1 .. Len(queued) |-> queued[Len(queued) - i + 1]]
  BY DEF ReverseQueue, Reverse
<1>4. \A i \in 1 .. Len(queued) : Len(queued) - i + 1 \in 1 .. Len(queued)
  BY <1>2
<1>5. queued' \in Seq(Entries)
  BY <1>2, <1>3, <1>4, IsASeq
<1>6. IsInjective(queued') /\ ToSet(queued') \subseteq ToSet(queued)
  BY <1>2, <1>3, <1>4 DEF IsInjective, ToSet
<1>7. queued' \in Orders /\ picked' \in Entries \cup {"none"} /\ wanted' \in [Entries -> Intents]
      /\ cached' \subseteq Entries /\ ToSet(queued') \subseteq cached'
  BY <1>1, <1>5, <1>6 DEF StoreInv, MemoryTypes, FileTypes, CopiesKept, files, Orders
<1> QED
  BY <1>1, <1>7, ChangeKeeps DEF files

(* A torrent is removed, with the copy of its metadata.                      *)
LEMMA FinalizeRemovalKeeps ==
  ASSUME StoreInv, NEW t \in Entries, FinalizeRemoval(t)
  PROVE  StoreInv'
<1>1. launch # "down" /\ saving' = [saving EXCEPT !["engine"] = Unbuilt] /\ "engine" \in Savers
      /\ cached' = cached \ {t} /\ wanted' = [wanted EXCEPT ![t] = "idle"]
      /\ UNCHANGED <<setup, jsonFile, database, sources, launch, storeHealthy, stored>>
  BY DEF FinalizeRemoval, Free, Savers
<1>2. PICK rest : rest = Filtered(queued, Entries \ {t})
  OBVIOUS
<1>3. rest \in Orders /\ ToSet(rest) \subseteq ToSet(queued) \cap (Entries \ {t})
  BY <1>2, FilteredIsPart DEF StoreInv, MemoryTypes, Orders
<1>4. queued' = rest
  BY <1>2 DEF FinalizeRemoval
<1>5. picked' \in Entries \cup {"none"}
  <2>1. PICK i : i = CHOOSE j \in DOMAIN queued : queued[j] = t
    OBVIOUS
  <2>2. \E j \in DOMAIN queued : queued[j] = t
    BY DEF FinalizeRemoval, Known, ToSet
  <2>3. i \in DOMAIN queued
    BY <2>1, <2>2
  <2>4. i \in Nat \ {0}
    BY <2>3, LenProperties DEF StoreInv, MemoryTypes, Orders
  <2>5. picked' = IF picked /= t THEN picked
                  ELSE IF rest = << >> THEN "none"
                  ELSE rest[IF i <= Len(rest) THEN i ELSE Len(rest)]
    BY <1>2, <2>1 DEF FinalizeRemoval
  <2>6. ASSUME rest # << >> PROVE rest[IF i <= Len(rest) THEN i ELSE Len(rest)] \in Entries
    <3>1. Len(rest) \in Nat \ {0}
      BY <1>3, <2>6, EmptySeq, LenProperties DEF Orders
    <3>2. (IF i <= Len(rest) THEN i ELSE Len(rest)) \in 1 .. Len(rest)
      BY <2>4, <3>1
    <3> QED
      BY <1>3, <3>2, ElementOfSeq DEF Orders
  <2> QED
    BY <2>5, <2>6 DEF StoreInv, MemoryTypes
<1>6. cached' \subseteq Entries /\ ToSet(queued') \subseteq cached'
  BY <1>1, <1>3, <1>4 DEF StoreInv, FileTypes, CopiesKept
<1>7. wanted' \in [Entries -> Intents]
  BY <1>1 DEF StoreInv, MemoryTypes, Intents
<1> QED
  BY <1>1, <1>3, <1>4, <1>5, <1>6, <1>7, ChangeKeeps

(* The window closes, and the queue is saved a last time.                    *)
LEMMA BeginExitKeeps ==
  ASSUME StoreInv, BeginExit
  PROVE  StoreInv'
<1>1. launch # "down" /\ launch' = "exit" /\ saving' = [saving EXCEPT !["ui"] = Unbuilt]
      /\ "ui" \in Savers /\ UNCHANGED <<setup, files, memory, storeHealthy, stored>>
  BY DEF BeginExit, Free, Savers
<1>2. queued' \in Orders /\ picked' \in Entries \cup {"none"} /\ wanted' \in [Entries -> Intents]
      /\ cached' \subseteq Entries /\ ToSet(queued') \subseteq cached'
  BY <1>1 DEF StoreInv, MemoryTypes, FileTypes, CopiesKept, files, memory
<1> QED
  BY <1>1, <1>2, ChangeKeeps DEF files

(* The user selects another torrent, or moves a torrent file.                *)
LEMMA LookKeeps ==
  ASSUME StoreInv, picked' \in Entries \cup {"none"}, sources' \subseteq sources,
         UNCHANGED <<setup, jsonFile, database, cached, queued, wanted, saving, launch,
                     storeHealthy, stored>>
  PROVE  StoreInv'
<1>1. FileTypes' /\ MemoryTypes'
  BY DEF StoreInv, FileTypes, MemoryTypes, setup
<1>2. DownIsEmpty' /\ WritableIsReadable' /\ CopiesKept'
  BY DEF StoreInv, DownIsEmpty, WritableIsReadable, CopiesKept, Saved, Writing, setup
<1>3. SavedInStep'
  BY DEF StoreInv, SavedInStep, Loaded, JsonLoad, SaysNow, Saved, setup
<1> QED
  BY <1>1, <1>2, <1>3 DEF StoreInv

(* A saver takes its snapshot under the lock,                                *)
LEMMA BuildSnapshotKeeps ==
  ASSUME StoreInv, NEW s \in Savers, BuildSnapshot(s)
  PROVE  StoreInv'
<1>1. /\ saving[s].is = "unbuilt"
      /\ saving' = [saving EXCEPT ![s] = IF storeHealthy THEN Snapshot ELSE NotSaving]
      /\ UNCHANGED <<setup, files, memory, launch, storeHealthy, stored>>
  BY DEF BuildSnapshot
<1>2. Snapshot \in Snapshots
  BY SnapshotIsOne DEF StoreInv
<1>3. FileTypes' /\ MemoryTypes' /\ CopiesKept'
  BY <1>1, <1>2 DEF StoreInv, FileTypes, MemoryTypes, CopiesKept, files, memory, setup
<1>4. saving'[s] = (IF storeHealthy THEN Snapshot ELSE NotSaving)
      /\ \A r \in Savers : r # s => saving'[r] = saving[r]
  BY <1>1 DEF StoreInv, MemoryTypes
<1>5. DownIsEmpty'
  BY <1>1 DEF StoreInv, DownIsEmpty, Saved, memory
<1>6. WritableIsReadable'
  <2> SUFFICES ASSUME backend = "salixorm", Db!DatabaseLoad(database) = Unreadable
               PROVE  /\ launch /= "down" => ~storeHealthy
                      /\ \A r \in Savers : ~Writing(r)'
    BY <1>1 DEF WritableIsReadable, files, setup
  <2>1. launch # "down"
    BY <1>1 DEF StoreInv, DownIsEmpty, Saved
  <2>2. ~storeHealthy /\ \A r \in Savers : ~Writing(r)
    BY <2>1 DEF StoreInv, WritableIsReadable
  <2> QED
    BY <1>4, <2>2, SnapshotsApart DEF Writing
<1>7. SavedInStep'
  <2> SUFFICES ASSUME storeHealthy PROVE ~ Saved(s)'
    BY <1>1, <1>4 DEF SavedInStep, StoreInv, MemoryTypes, Saved
  <2> QED
    BY <1>2, <1>4, SnapshotsApart DEF Saved
<1> QED
  BY <1>3, <1>5, <1>6, <1>7 DEF StoreInv

(* and writes it,                                                            *)
LEMMA WriteSnapshotKeeps ==
  ASSUME StoreInv, NEW s \in Savers, WriteSnapshot(s)
  PROVE  StoreInv'
<1>1. /\ saving' = [saving EXCEPT ![s] = NotSaving]
      /\ stored' = (IF SaysNow(saving[s]) THEN "ok" ELSE "late")
      /\ UNCHANGED <<setup, sources, cached, memory, launch, storeHealthy>>
  BY DEF WriteSnapshot
<1>2. PICK snap \in Snapshots : snap = saving[s]
  BY SnapshotSavers DEF WriteSnapshot
<1>3. launch # "down"
  BY <1>2, SnapshotsApart DEF StoreInv, DownIsEmpty, Saved
<1>4. \/ /\ backend = "json" /\ jsonFile' = snap /\ UNCHANGED database
      \/ /\ backend = "salixorm" /\ database' = Db!AfterSave(database, snap) /\ UNCHANGED jsonFile
  BY <1>2 DEF WriteSnapshot, StoreInv, MemoryTypes
<1>5. /\ Db!AfterSave(database, snap) \in DatabaseTypes
      /\ Db!DatabaseLoad(Db!AfterSave(database, snap)) = snap
  BY SaveIsLoaded DEF StoreInv, FileTypes
<1>6. FileTypes'
  BY <1>1, <1>4, <1>5 DEF StoreInv, FileTypes
<1>7. MemoryTypes' /\ CopiesKept'
  BY <1>1 DEF StoreInv, MemoryTypes, CopiesKept, memory, setup
<1>8. \A r \in Savers : r # s => saving'[r] = saving[r]
  BY <1>1 DEF StoreInv, MemoryTypes
<1>9. backend' = "salixorm" => Db!DatabaseLoad(database') # Unreadable
  BY <1>1, <1>4, <1>5, SnapshotsApart DEF setup
<1>10. WritableIsReadable' /\ DownIsEmpty'
  BY <1>1, <1>3, <1>9 DEF WritableIsReadable, DownIsEmpty
<1>11. Loaded' = snap
  <2>1. CASE backend = "json"
    BY <1>1, <1>4, <2>1 DEF Loaded, JsonLoad, setup
  <2>2. CASE backend = "salixorm"
    BY <1>1, <1>4, <1>5, <2>2, SnapshotsApart DEF Loaded, Db!WithFallback, setup
  <2> QED
    BY <2>1, <2>2 DEF StoreInv, MemoryTypes
<1>12. SavedInStep'
  BY <1>1, <1>2, <1>11, SnapshotsApart DEF SavedInStep, SaysNow, memory
<1> QED
  BY <1>6, <1>7, <1>10, <1>12 DEF StoreInv

(* or fails to.                                                              *)
LEMMA WriteFailsKeeps ==
  ASSUME StoreInv, NEW s \in Savers, WriteFails(s)
  PROVE  StoreInv'
<1>1. /\ saving' = [saving EXCEPT ![s] = NotSaving] /\ stored' = "failed"
      /\ storeHealthy' = (storeHealthy /\ backend = "json")
      /\ UNCHANGED <<setup, files, memory, launch>>
  BY DEF WriteFails, HealthAfterFailure
<1>2. FileTypes' /\ MemoryTypes' /\ CopiesKept'
  BY <1>1 DEF StoreInv, FileTypes, MemoryTypes, CopiesKept, files, memory, setup
<1>3. saving'[s] = NotSaving /\ \A r \in Savers : r # s => saving'[r] = saving[r]
  BY <1>1 DEF StoreInv, MemoryTypes
<1>4. \A r \in Savers : (Saved(r) => Saved(r)') /\ (Writing(r)' => Writing(r))
  BY <1>3, SnapshotsApart DEF Saved, Writing
<1>5. DownIsEmpty' /\ WritableIsReadable' /\ SavedInStep'
  BY <1>1, <1>4 DEF StoreInv, DownIsEmpty, WritableIsReadable, SavedInStep, files, memory, setup
<1> QED
  BY <1>2, <1>5 DEF StoreInv

(* The program ends, or is killed between any two steps.                     *)
LEMMA GoneKeeps ==
  ASSUME StoreInv, Gone
  PROVE  StoreInv'
<1>1. /\ launch' = "down" /\ queued' = << >> /\ picked' = "none"
      /\ wanted' = [t \in Entries |-> "idle"] /\ saving' = [s \in Savers |-> NotSaving]
      /\ UNCHANGED <<setup, files, storeHealthy, stored>>
  BY DEF Gone
<1>2. << >> \in Orders /\ ToSet(<< >>) = {}
  BY EmptySeq DEF Orders, IsInjective, ToSet
<1>3. FileTypes' /\ MemoryTypes' /\ CopiesKept'
  BY <1>1, <1>2 DEF StoreInv, FileTypes, MemoryTypes, CopiesKept, files, setup, Intents
<1>4. \A s \in Savers : Saved(s)' /\ ~ Writing(s)'
  BY <1>1, SnapshotsApart DEF Saved, Writing
<1>5. DownIsEmpty' /\ WritableIsReadable' /\ SavedInStep'
  BY <1>1, <1>4 DEF DownIsEmpty, WritableIsReadable, SavedInStep
<1> QED
  BY <1>3, <1>5 DEF StoreInv

(* The next launch reads what it finds.                                      *)
LEMMA LaunchAppKeeps ==
  ASSUME StoreInv, LaunchApp
  PROVE  StoreInv'
<1>1. PICK found : found = Loaded
  OBVIOUS
<1>2. /\ launch = "down" /\ launch' = "up" /\ stored' = "ok"
      /\ storeHealthy' = ~(found = Unreadable /\ backend = "salixorm")
      /\ database' = (IF backend = "salixorm" THEN Db!AfterLoad(database) ELSE database)
      /\ UNCHANGED <<setup, jsonFile, sources>>
  BY <1>1 DEF LaunchApp, HealthAfterLoad
<1>3. /\ database' \in DatabaseTypes
      /\ Db!DatabaseLoad(database') = Db!DatabaseLoad(database)
  BY <1>2, LoadChangesNothing DEF StoreInv, FileTypes
<1>4. Loaded' = found
  BY <1>1, <1>2, <1>3 DEF Loaded, JsonLoad, setup
<1>5. backend = "salixorm" /\ Db!DatabaseLoad(database) = Unreadable => ~storeHealthy'
  BY <1>1, <1>2, SnapshotsApart DEF Loaded, Db!WithFallback
<1>6. queued = << >> /\ (\A s \in Savers : Saved(s) /\ saving[s] = NotSaving)
  BY <1>2, SnapshotSavers DEF StoreInv, DownIsEmpty
<1>7. \A s \in Savers : saving'[s] \in {NotSaving, Unbuilt} => ~ Writing(s)'
  BY SnapshotsApart DEF Writing
<1>8. CASE found.is /= "queue" \/ found.order = << >>
  <2>1. UNCHANGED <<memory, cached, saving>>
    BY <1>1, <1>8 DEF LaunchApp
  <2>2. FileTypes' /\ MemoryTypes' /\ CopiesKept'
    BY <1>2, <1>3, <2>1 DEF StoreInv, FileTypes, MemoryTypes, CopiesKept, memory, setup
  <2>3. WritableIsReadable' /\ DownIsEmpty'
    BY <1>2, <1>3, <1>5, <1>6, <1>7, <2>1 DEF WritableIsReadable, DownIsEmpty, setup
  <2>4. SavedInStep'
    <3>1. queued' = << >> /\ ToSet(<< >>) = {}
      BY <1>6, <2>1 DEF memory, ToSet
    <3> QED
      BY <1>4, <1>8, <3>1 DEF SavedInStep, SaysNow
  <2> QED
    BY <2>2, <2>3, <2>4 DEF StoreInv
<1>9. CASE found.is = "queue" /\ found.order # << >>
  <2>1. found \in Snapshots
    <3>1. Db!DatabaseLoad(database) \in {Nothing, Unreadable} \cup Snapshots
      BY LoadIsTyped DEF StoreInv, FileTypes
    <3>2. found \in {Nothing, Unreadable, Newer} \cup Snapshots
      BY <1>1, <3>1 DEF Loaded, JsonLoad, Db!WithFallback, StoreInv, FileTypes
    <3> QED
      BY <1>9, <3>2, SnapshotsApart
  <2>2. PICK order : order = Restored(found.order)
    OBVIOUS
  <2>3. /\ queued' = order
        /\ wanted' = [t \in Entries |->
             IF t \notin ToSet(order) THEN "idle"
             ELSE IF found.intent[t] = "active" /\ ~autoResume THEN "stopped"
             ELSE found.intent[t]]
        /\ picked' = (IF found.selected \in ToSet(order) THEN found.selected
                      ELSE IF order = << >> THEN "none" ELSE Head(order))
        /\ cached' = cached \cup ToSet(order)
        /\ saving' = [saving EXCEPT !["ui"] = Unbuilt]
    BY <1>1, <1>9, <2>2 DEF LaunchApp
  <2>4. found.order \in Orders /\ found.selected \in Entries \cup {"none"}
        /\ found.intent \in [ToSet(found.order) -> Intents]
    BY <2>1 DEF Snapshots
  <2>5. order \in Orders /\ ToSet(order) \subseteq ToSet(found.order)
    BY <2>2, <2>4, FilteredIsPart DEF Restored, Orders
  <2>6. ToSet(order) \subseteq Entries
    BY <2>5, OrderElements
  <2>7. FileTypes' /\ CopiesKept'
    BY <1>2, <1>3, <2>3, <2>6 DEF StoreInv, FileTypes, CopiesKept
  <2>8. wanted' \in [Entries -> Intents]
    BY <2>3, <2>4, <2>5 DEF Intents
  <2>9. picked' \in Entries \cup {"none"}
    <3>1. order # << >> => Head(order) \in Entries
      BY <2>5, HeadTailProperties DEF Orders
    <3> QED
      BY <2>3, <2>4, <3>1
  <2>10. saving' \in [Savers -> {NotSaving, Unbuilt} \cup Snapshots]
         /\ saving'["ui"] = Unbuilt /\ \A s \in Savers : saving'[s] \in {NotSaving, Unbuilt}
    BY <1>6, <2>3 DEF StoreInv, MemoryTypes, Savers
  <2>11. storeHealthy' \in BOOLEAN
    BY <1>2
  <2>12. MemoryTypes'
    BY <1>2, <2>3, <2>5, <2>8, <2>9, <2>10, <2>11 DEF StoreInv, MemoryTypes, setup
  <2>13. WritableIsReadable' /\ DownIsEmpty'
    BY <1>2, <1>3, <1>5, <1>7, <2>10 DEF WritableIsReadable, DownIsEmpty, setup
  <2>14. SavedInStep'
    BY <2>10, SnapshotsApart DEF SavedInStep, Saved, Savers
  <2> QED
    BY <2>7, <2>12, <2>13, <2>14 DEF StoreInv
<1> QED
  BY <1>8, <1>9

(* Every step of the program keeps the invariant.                            *)
LEMMA StoreInvNext ==
  ASSUME StoreInv, [StoreNext]_storeVars
  PROVE  StoreInv'
<1>1. CASE LaunchApp
  BY <1>1, LaunchAppKeeps
<1>2. CASE BeginExit
  BY <1>2, BeginExitKeeps
<1>3. CASE ExitApp \/ CrashApp
  BY <1>3, GoneKeeps DEF ExitApp, CrashApp
<1>4. CASE ReverseQueue
  BY <1>4, ReverseQueueKeeps
<1>5. ASSUME NEW t \in Entries, SelectTorrent(t) \/ SourceMoves(t) PROVE StoreInv'
  BY <1>5, LookKeeps
  DEF SelectTorrent, SourceMoves, StoreInv, MemoryTypes, files, memory
<1>6. ASSUME NEW t \in Entries, FinalizeRemoval(t) PROVE StoreInv'
  BY <1>6, FinalizeRemovalKeeps
<1>7. ASSUME NEW t \in Entries, NEW s \in Savers, AddTorrent(s, t) PROVE StoreInv'
  BY <1>7, AddTorrentKeeps
<1>8. ASSUME NEW t \in Entries, NEW s \in Savers, NEW i \in Intents, SetIntent(s, t, i)
      PROVE  StoreInv'
  BY <1>8, SetIntentKeeps
<1>9. ASSUME NEW s \in Savers, BuildSnapshot(s) \/ WriteSnapshot(s) \/ WriteFails(s)
      PROVE  StoreInv'
  BY <1>9, BuildSnapshotKeeps, WriteSnapshotKeeps, WriteFailsKeeps
<1>10. CASE UNCHANGED storeVars
  BY <1>10, LookKeeps DEF storeVars, setup, StoreInv, MemoryTypes
<1> QED
  BY <1>1, <1>2, <1>3, <1>4, <1>5, <1>6, <1>7, <1>8, <1>9, <1>10 DEF StoreNext

(* For any torrents, in any queue, and any number of operations, crashes     *)
(* and launches: while no save is under way and the last one went well, the  *)
(* next launch would find the queue as it is, whichever thread changed it;   *)
(* and a torrent of the queue has its private copy (_persist_session,        *)
(* restore_previous_session).                                                *)
THEOREM QueueIsSaved == StoreSpec => []StoreSound
<1>1. StoreInv => StoreSound
  BY DEF StoreInv, StoreSound
<1> QED
  BY <1>1, StoreInvInit, StoreInvNext, PTL DEF StoreSpec

(* The rows of a database that cannot be read are never replaced, nor is     *)
(* the session.json of an earlier version once the database is used          *)
(* (SalixORMSessionStore, _session_store_healthy).                           *)
THEOREM UnreadableQueueIsKept == StoreSpec => UnreadableKept
<1>1. ASSUME StoreInv, [StoreNext]_storeVars
      PROVE  [/\ backend = "salixorm" /\ Db!DatabaseLoad(database) = Unreadable =>
                   database'.rows = database.rows /\ database'.meta = database.meta
              /\ backend = "salixorm" => UNCHANGED jsonFile]_storeVars
  <2>1. CASE UNCHANGED <<jsonFile, database>>
    BY <2>1
  <2>2. CASE LaunchApp
    <3>1. UNCHANGED jsonFile /\ (database' = Db!AfterLoad(database) \/ UNCHANGED database)
      BY <2>2 DEF LaunchApp
    <3> QED
      BY <1>1, <3>1, LoadChangesNothing DEF StoreInv, FileTypes
  <2>3. ASSUME NEW s \in Savers, WriteSnapshot(s), backend = "salixorm"
        PROVE  Db!DatabaseLoad(database) # Unreadable /\ UNCHANGED jsonFile
    BY <1>1, <2>3 DEF WriteSnapshot, StoreInv, WritableIsReadable
  <2>4. LaunchApp \/ (\E s \in Savers : WriteSnapshot(s)) \/ UNCHANGED <<jsonFile, database>>
    BY <1>1
    DEF StoreNext, storeVars, BeginExit, ExitApp, CrashApp, Gone, ReverseQueue, SelectTorrent,
        FinalizeRemoval, SourceMoves, AddTorrent, SetIntent, BuildSnapshot, WriteFails, files
  <2> QED
    BY <2>1, <2>2, <2>3, <2>4
<1> QED
  BY <1>1, StoreInvInit, StoreInvNext, PTL DEF StoreSpec, UnreadableKept

(* The types of the records are part of their invariant.                     *)
LEMMA StoreInvTypes == StoreInv => StoreTypeOK
<1> SUFFICES ASSUME StoreInv PROVE StoreTypeOK
  OBVIOUS
<1>1. ToSet(queued) \subseteq Entries /\ IsInjective(queued)
  BY OrderElements DEF StoreInv, MemoryTypes, Orders
<1>2. \A s \in Savers : saving[s].is \in {"not saving", "unbuilt", "queue"}
  BY SnapshotsApart DEF StoreInv, MemoryTypes
<1> QED
  BY <1>1, <1>2 DEF StoreInv, FileTypes, MemoryTypes, StoreTypeOK

--------------------------------------------------------------------------------
(* The preferences (settings.py, settings_salixorm.py).                      *)

(* What can be stored of the preferences.                                    *)
Values == {"defaults", "chosen", "out of range"}

Stored == Blanks \cup Values

(* Any database file: the tables it has, its revision, metadata and rows.    *)
SettingsDatabases ==
  [tables : SUBSET SettingsDb!Tables, revision : {"none", "empty", "r1", "r2", "r9"},
   meta : {"none", "ok", "bad"}, rows : Stored]

(* The program runs with preferences in range.  A healthy store is one that  *)
(* could be read, and after a save it holds what is used.                   *)
SettingsInv ==
  /\ settingsBackend \in {"json", "salixorm"}
  /\ settings \in {"nothing", "defaults", "chosen"}
  /\ settingsFile \in Stored /\ settingsDb \in SettingsDatabases
  /\ SettingsKept
  /\ settings /= "nothing" /\ settingsHealthy /\ settingsBackend = "salixorm" =>
       SettingsDb!DatabaseLoad(settingsDb) /= "unreadable"

--------------------------------------------------------------------------------
(* A database that was saved to holds the value saved.                      *)
LEMMA SavedIsLoaded ==
  ASSUME NEW db \in SettingsDatabases, NEW value \in Values
  PROVE  /\ SettingsDb!AfterSave(db, value) \in SettingsDatabases
         /\ SettingsDb!DatabaseLoad(SettingsDb!AfterSave(db, value)) = value
<1> DEFINE saved == SettingsDb!AfterSave(db, value)
<1>1. /\ saved \in SettingsDatabases
      /\ saved.tables = SettingsDb!Tables /\ saved.revision = "r2"
      /\ saved.meta = "ok" /\ saved.rows = value
  <2> DEFINE new == SettingsDb!Migrated(db)
  <2>1. new \in SettingsDatabases /\ new.tables = SettingsDb!Tables /\ new.revision = "r2"
    BY DEF SettingsDatabases, SettingsDb!Migrated, SettingsDb!Newest
  <2>2. saved = [new EXCEPT !.meta = "ok", !.rows = value]
    BY DEF SettingsDb!AfterSave
  <2> HIDE DEF new, saved
  <2> QED
    BY <2>1, <2>2 DEF SettingsDatabases, Stored
<1> HIDE DEF saved
<1>2. SettingsDb!SchemaState(saved) = "initialized"
  BY <1>1 DEF SettingsDb!SchemaState, SettingsDb!Tables
<1>3. SettingsDb!DatabaseLoad(saved) = value
  BY <1>1, <1>2 DEF SettingsDb!DatabaseLoad
<1> QED
  BY <1>1, <1>3 DEF saved

(* Whatever a launch finds is a database file.                               *)
LEMMA FoundDatabases ==
  /\ SettingsDb!NoDatabase \in SettingsDatabases
  /\ SettingsDb!Databases({"chosen", "out of range"}) \subseteq SettingsDatabases
<1> DEFINE AsNew == SettingsDb!NoDatabase
           Written == [tables : {SettingsDb!Tables}, revision : {"r1", SettingsDb!Newest},
                       meta : {"none", "ok", "bad"},
                       rows : {"chosen", "out of range"} \cup {"nothing", "unreadable"}]
<1>1. AsNew \in SettingsDatabases
  BY DEF SettingsDb!NoDatabase, SettingsDatabases, Stored, Blanks
<1>2. [AsNew EXCEPT !.revision = "empty"] \in SettingsDatabases
  BY DEF SettingsDb!NoDatabase, SettingsDatabases, Stored, Blanks
<1>3. [AsNew EXCEPT !.revision = SettingsDb!Newest] \in SettingsDatabases
  BY DEF SettingsDb!NoDatabase, SettingsDb!Newest, SettingsDatabases, Stored, Blanks
<1>4. [AsNew EXCEPT !.tables = {"meta"}, !.revision = SettingsDb!Newest] \in SettingsDatabases
  BY DEF SettingsDb!NoDatabase, SettingsDb!Newest, SettingsDb!Tables, SettingsDatabases, Stored, Blanks
<1>5. [AsNew EXCEPT !.tables = SettingsDb!Tables, !.revision = "r9"] \in SettingsDatabases
  BY DEF SettingsDb!NoDatabase, SettingsDatabases, Stored, Blanks
<1>6. Written \subseteq SettingsDatabases
  BY DEF SettingsDb!Newest, SettingsDatabases, Stored, Blanks, Values
<1>7. SettingsDb!Databases({"chosen", "out of range"})
        = {AsNew, [AsNew EXCEPT !.revision = "empty"],
           [AsNew EXCEPT !.revision = SettingsDb!Newest],
           [AsNew EXCEPT !.tables = {"meta"}, !.revision = SettingsDb!Newest],
           [AsNew EXCEPT !.tables = SettingsDb!Tables, !.revision = "r9"]} \cup Written
  BY DEF SettingsDb!Databases
<1> HIDE DEF AsNew, Written
<1>8. SettingsDb!Databases({"chosen", "out of range"}) \subseteq SettingsDatabases
  BY <1>1, <1>2, <1>3, <1>4, <1>5, <1>6, <1>7
<1> QED
  BY <1>1, <1>8 DEF AsNew

(* Whatever is there is read as a value or as one of the blanks.             *)
LEMMA LoadedIsStored == SettingsInv => SettingsLoaded \in Stored
<1> SUFFICES ASSUME SettingsInv PROVE SettingsLoaded \in Stored
  OBVIOUS
<1>1. SettingsDb!DatabaseLoad(settingsDb) \in Stored
  BY DEF SettingsInv, SettingsDatabases, SettingsDb!DatabaseLoad, Stored, Blanks
<1>2. SettingsFileLoad \in Stored
  BY DEF SettingsInv, SettingsFileLoad, Stored, Blanks
<1> QED
  BY <1>1, <1>2 DEF SettingsLoaded, SettingsDb!WithFallback

(* A value that was read is brought into range, once and for all.            *)
LEMMA NormalisedIsValid ==
  ASSUME NEW value \in Values
  PROVE  /\ Normalised(value) \in {"defaults", "chosen"}
         /\ Normalised(Normalised(value)) = Normalised(value)
BY DEF Normalised, Values

(* Before the first launch there may be any file and any database.           *)
LEMMA SettingsInvInit == SettingsInit => SettingsInv
<1> SUFFICES ASSUME SettingsInit PROVE SettingsInv
  OBVIOUS
<1>1. settingsDb \in SettingsDatabases
  BY FoundDatabases DEF SettingsInit
<1> QED
  BY <1>1 DEF SettingsInit, SettingsInv, SettingsKept, Stored, Values

(* After a change, the store that was saved to is read as the new value.     *)
LEMMA ChangeKeepsInv ==
  ASSUME SettingsInv, NEW value \in Values, ChangeSettings(value)
  PROVE  SettingsInv'
<1> DEFINE new == Normalised(value)
<1>1. new \in {"defaults", "chosen"} /\ Normalised(new) = new /\ new \in Values \ Blanks
  BY NormalisedIsValid DEF Values, Blanks
<1>2. settings' = new /\ SaveSettings(new) /\ UNCHANGED settingsBackend
  BY DEF ChangeSettings
<1>3. settings /= "nothing"
  BY DEF ChangeSettings
<1> HIDE DEF new
<1>4. CASE UNCHANGED <<settingsFile, settingsDb>> /\ ~settingsHealthy'
  BY <1>1, <1>2, <1>4 DEF SettingsInv, SettingsKept
<1>5. CASE /\ settingsBackend = "json" /\ settingsFile' = new /\ UNCHANGED settingsDb
  <2>1. SettingsLoaded' = new
    BY <1>1, <1>2, <1>5 DEF SettingsLoaded, SettingsFileLoad, Blanks
  <2> QED
    BY <1>1, <1>2, <1>5, <2>1 DEF SettingsInv, SettingsKept, Stored
<1>6. CASE /\ settingsBackend = "salixorm" /\ UNCHANGED settingsFile
           /\ settingsDb' = SettingsDb!AfterSave(settingsDb, new)
  <2>1. SettingsDb!DatabaseLoad(settingsDb') = new /\ settingsDb' \in SettingsDatabases
    BY <1>1, <1>6, SavedIsLoaded DEF SettingsInv
  <2>2. SettingsLoaded' = new
    BY <1>1, <1>2, <1>6, <2>1 DEF SettingsLoaded, SettingsDb!WithFallback, Blanks
  <2> QED
    BY <1>1, <1>2, <1>6, <2>1, <2>2 DEF SettingsInv, SettingsKept, Stored, Blanks
<1> QED
  BY <1>2, <1>4, <1>5, <1>6 DEF SaveSettings, SettingsInv

(* Every launch and every change keeps the invariant.                        *)
LEMMA SettingsInvNext ==
  ASSUME SettingsInv, [SettingsNext]_settingsVars
  PROVE  SettingsInv'
<1>1. CASE LoadSettings
  <2> DEFINE loaded == SettingsLoaded
  <2>1. /\ settings' = IF loaded \in Blanks THEN "defaults" ELSE Normalised(loaded)
        /\ settingsHealthy' = (loaded /= "unreadable")
        /\ UNCHANGED <<settingsBackend, settingsFile, settingsDb>>
    BY <1>1 DEF LoadSettings
  <2>2. SettingsLoaded' = loaded
    BY <2>1 DEF SettingsLoaded, SettingsFileLoad
  <2>3. loaded \in Stored
    BY LoadedIsStored
  <2>4. settingsBackend = "salixorm" /\ loaded /= "unreadable" =>
          SettingsDb!DatabaseLoad(settingsDb) /= "unreadable"
    BY DEF SettingsLoaded, SettingsDb!WithFallback
  <2> HIDE DEF loaded
  <2>5. settings' \in {"defaults", "chosen"}
    BY <2>1, <2>3, NormalisedIsValid DEF Stored
  <2>6. SettingsKept'
    BY <2>1, <2>2, <2>5 DEF SettingsKept, Blanks
  <2> QED
    BY <2>1, <2>4, <2>5, <2>6 DEF SettingsInv
<1>2. CASE QuitSettings
  BY <1>2 DEF QuitSettings, SettingsInv, SettingsKept
<1>3. ASSUME NEW value \in Values, ChangeSettings(value) PROVE SettingsInv'
  BY <1>3, ChangeKeepsInv
<1>4. CASE UNCHANGED settingsVars
  BY <1>4 DEF settingsVars, SettingsInv, SettingsKept, SettingsLoaded, SettingsFileLoad
<1> QED
  BY <1>1, <1>2, <1>3, <1>4 DEF SettingsNext, Values

(* The preferences in use are valid, and while saving works the next launch  *)
(* reads them back (_load_app_settings, save_app_settings).                 *)
THEOREM SettingsAreKept == SettingsSpec => []SettingsKept
<1>1. SettingsInv => SettingsKept
  BY DEF SettingsInv
<1> QED
  BY <1>1, SettingsInvInit, SettingsInvNext, PTL DEF SettingsSpec

(* A database of another revision or with unreadable rows is never replaced,  *)
(* and the fallback file is left alone while a database is used              *)
(* (SalixORMAppSettingsStore, _settings_store_healthy).                     *)
THEOREM UnreadableIsKept == SettingsSpec => UnreadableSettingsKept
<1>1. ASSUME SettingsInv, [SettingsNext]_settingsVars
      PROVE  [settingsBackend = "salixorm" =>
                /\ SettingsDb!DatabaseLoad(settingsDb) = "unreadable" => UNCHANGED settingsDb
                /\ UNCHANGED settingsFile]_settingsVars
  <2>1. CASE LoadSettings \/ QuitSettings
    BY <2>1 DEF LoadSettings, QuitSettings
  <2>2. ASSUME NEW value \in Values, ChangeSettings(value), settingsBackend = "salixorm"
        PROVE  /\ SettingsDb!DatabaseLoad(settingsDb) = "unreadable" => UNCHANGED settingsDb
               /\ UNCHANGED settingsFile
    <3> DEFINE new == Normalised(value)
    <3>1. SaveSettings(new) /\ settings /= "nothing"
      BY <2>2 DEF ChangeSettings
    <3> HIDE DEF new
    <3>2. settingsHealthy => SettingsDb!DatabaseLoad(settingsDb) /= "unreadable"
      BY <1>1, <2>2, <3>1 DEF SettingsInv
    <3> QED
      BY <2>2, <3>1, <3>2 DEF SaveSettings
  <2> QED
    BY <1>1, <2>1, <2>2 DEF SettingsNext, Values
<1> QED
  BY <1>1, SettingsInvInit, SettingsInvNext, PTL DEF SettingsSpec, UnreadableSettingsKept

--------------------------------------------------------------------------------
(* The torrents that are made (torrent_creator.py).                          *)

(* A file of which both halves were read in the version the scan found.       *)
Whole(n) == hashed[n] = <<scanned[n], scanned[n]>>
WholeOrUnread(n) == IF n \in Listed THEN Whole(n) ELSE hashed[n] = Unread

CreationTypes ==
  /\ inSource \in [Names -> Nat] /\ scanned \in [Names -> Nat] /\ edits \in Nat
  /\ hashed \in [Names -> Nat \X Nat]
  /\ temporary \in {"none", "partial", "torrent"} /\ output \in {"none", "other", "torrent"}
  /\ creation \in [what : {"scan", "scanned", "open", "read", "stat", "build", "rescan", "write",
                           "replace", "cleanup", "raised", "done", "dead"}, at : Nat]

(* Versions only grow: an edit makes one that no file has had, so that what   *)
(* has been replaced or removed never comes back.                            *)
Reached(n, version) == inSource[n] = 0 \/ version <= inSource[n]
VersionsGrow ==
  \A n \in Names :
    /\ Reached(n, scanned[n])
    /\ \A v \in {inSource[n], scanned[n], hashed[n][1], hashed[n][2]} : v <= edits + 1

(* How far the files are read: those before the one at hand whole, those      *)
(* after it not at all.  Of that one no version is older than the scan, and   *)
(* none newer than what is there.                                           *)
ReadSoFar ==
  LET at == creation.at IN
  /\ at \in Listed
  /\ \A n \in Names : /\ n < at => WholeOrUnread(n)
                      /\ n > at => hashed[n] = Unread
  /\ creation.what = "open" => hashed[at] = Unread
  /\ creation.what \in {"read", "stat"} =>
       scanned[at] <= hashed[at][1] /\ Reached(at, hashed[at][1])
  /\ creation.what = "read" => hashed[at][2] = 0
  /\ creation.what = "stat" => scanned[at] <= hashed[at][2] /\ Reached(at, hashed[at][2])

(* Every file there is was read whole, and no other was read.                *)
AllRead == Listed # {} /\ \A n \in Names : WholeOrUnread(n)

(* The stages of create() and what has been read when it is there.            *)
ReadInOrder ==
  /\ creation.what \in {"scan", "scanned"} => \A n \in Names : hashed[n] = Unread
  /\ creation.what \in {"open", "read", "stat"} => ReadSoFar
  /\ creation.what \in {"build", "rescan", "write", "replace", "done"} => AllRead
  /\ output = "torrent" => AllRead

(* When there is a temporary file, and when the output has been replaced.     *)
OnlyOwnTemporary ==
  /\ creation.what = "replace" => temporary = "torrent"
  /\ creation.what \notin {"replace", "cleanup", "dead"} => temporary = "none"
  /\ output = "torrent" => creation.what \in {"done", "dead"}

(* The inductive invariant of a creation.                                    *)
CreationInv == CreationTypes /\ VersionsGrow /\ ReadInOrder /\ OnlyOwnTemporary

(* The files have the numbers 1, 2, and so on.                               *)
LEMMA NamesAreNumbers == \A n \in Names : n \in Nat /\ n >= 1
  BY CreationAssumption, FS_CardinalityType DEF CreationAssumption

(* The loop goes to the next file there is, and to the end when none is left. *)
LEMMA NextFileIsNext ==
  ASSUME CreationTypes, NEW n \in Nat
  PROVE  \/ NextFile(n, Listed) = Doing("build", 0) /\ \A m \in Listed : m <= n
         \/ \E m \in Listed : /\ NextFile(n, Listed) = Doing("open", m)
                              /\ m > n /\ \A k \in Listed : k > n => m <= k
<1> DEFINE left == {m \in Listed : m > n}
<1>1. left \in SUBSET Nat
  BY NamesAreNumbers DEF Listed
<1>2. CASE left = {}
  BY <1>2, NamesAreNumbers DEF NextFile, Listed
<1>3. CASE left # {}
  <2>1. PICK m \in left : \A k \in left : m <= k
    BY <1>1, <1>3, Smallest
  <2>2. \E x \in left : \A k \in left : x <= k
    BY <2>1
  <2>3. PICK x : x = FirstOf(left)
    OBVIOUS
  <2>4. x \in left /\ \A k \in left : x <= k
    BY <2>2, <2>3 DEF FirstOf
  <2>5. NextFile(n, Listed) = Doing("open", x)
    BY <1>3, <2>3 DEF NextFile
  <2> QED
    BY <2>4, <2>5
<1> QED
  BY <1>2, <1>3

(* Before the scan nothing is read.                                          *)
LEMMA CreationInvInit == CreationInit => CreationInv
<1> SUFFICES ASSUME CreationInit PROVE CreationInv
  OBVIOUS
<1>1. CreationTypes
  BY DEF CreationInit, CreationTypes, NoFiles, Unread, Doing
<1>2. VersionsGrow
  BY DEF CreationInit, VersionsGrow, Reached, NoFiles, Unread
<1>3. ReadInOrder /\ OnlyOwnTemporary
  BY DEF CreationInit, ReadInOrder, OnlyOwnTemporary, Doing
<1> QED
  BY <1>1, <1>2, <1>3 DEF CreationInv

(* The user works on.                                                        *)
LEMMA EditKeeps ==
  ASSUME CreationInv, NEW n \in Names, EditSource(n) PROVE CreationInv'
<1>1. /\ UNCHANGED <<folder, creation, scanned, hashed, creationCancelled, temporary, output>>
      /\ edits' = edits + 1 /\ edits \in Nat
      /\ inSource' \in [Names -> Nat]
      /\ \A m \in Names \ {n} : inSource'[m] = inSource[m]
      /\ inSource'[n] = edits + 2 \/ inSource'[n] = 0
  BY DEF EditSource, CreationInv, CreationTypes
<1>2. \A m \in Names : /\ inSource[m] \in Nat /\ scanned[m] \in Nat
                       /\ hashed[m][1] \in Nat /\ hashed[m][2] \in Nat
                       /\ inSource[m] <= edits + 1 /\ scanned[m] <= edits + 1
                       /\ hashed[m][1] <= edits + 1 /\ hashed[m][2] <= edits + 1
  BY DEF CreationInv, CreationTypes, VersionsGrow
<1>3. ASSUME NEW m \in Names, NEW v \in Nat, v <= edits + 1, Reached(m, v)
      PROVE  Reached(m, v)'
  BY <1>1, <1>2, <1>3 DEF Reached
<1>4. CreationTypes' /\ OnlyOwnTemporary'
  BY <1>1 DEF CreationInv, CreationTypes, OnlyOwnTemporary
<1>5. VersionsGrow'
  <2>1. \A m \in Names : Reached(m, scanned[m])'
    BY <1>1, <1>2 DEF CreationInv, VersionsGrow, Reached
  <2> QED
    BY <1>1, <1>2, <2>1 DEF VersionsGrow
<1>6. ReadInOrder'
  <2>1. Listed' = Listed /\ \A m \in Names : WholeOrUnread(m)' <=> WholeOrUnread(m)
    BY <1>1 DEF Listed, WholeOrUnread, Whole
  <2>2. ASSUME ReadSoFar, creation.what \in {"open", "read", "stat"} PROVE ReadSoFar'
    <3>1. creation.at \in Names
      BY <2>2 DEF ReadSoFar, Listed
    <3>2. creation.what \in {"read", "stat"} => Reached(creation.at, hashed[creation.at][1])'
      BY <1>1, <1>2, <1>3, <2>2, <3>1 DEF ReadSoFar
    <3>3. creation.what = "stat" => Reached(creation.at, hashed[creation.at][2])'
      BY <1>1, <1>2, <1>3, <2>2, <3>1 DEF ReadSoFar
    <3> QED
      BY <1>1, <2>1, <2>2, <3>2, <3>3 DEF ReadSoFar
  <2>3. AllRead' <=> AllRead
    BY <2>1 DEF AllRead
  <2> QED
    BY <1>1, <2>2, <2>3 DEF CreationInv, ReadInOrder
<1> QED
  BY <1>4, <1>5, <1>6 DEF CreationInv

(* What is read and found is not touched by a step that only goes on.        *)
LEMMA GoesOn ==
  ASSUME CreationInv, UNCHANGED <<sourceVars, scanned, hashed>>,
         creation' \in [what : {"scan", "scanned", "open", "read", "stat", "build", "rescan", "write",
                                "replace", "cleanup", "raised", "done", "dead"}, at : Nat]
  PROVE  /\ VersionsGrow' /\ (AllRead' <=> AllRead) /\ Listed' = Listed
         /\ \A n \in Names : WholeOrUnread(n)' <=> WholeOrUnread(n)
         /\ (temporary' \in {"none", "partial", "torrent"} /\ output' \in {"none", "other", "torrent"}
               => CreationTypes')
<1>1. Listed' = Listed /\ \A n \in Names : WholeOrUnread(n)' <=> WholeOrUnread(n)
  BY DEF Listed, WholeOrUnread, Whole
<1>2. AllRead' <=> AllRead
  BY <1>1 DEF AllRead
<1>3. VersionsGrow'
  BY DEF CreationInv, VersionsGrow, Reached, sourceVars
<1>4. temporary' \in {"none", "partial", "torrent"} /\ output' \in {"none", "other", "torrent"}
        => CreationTypes'
  BY DEF CreationInv, CreationTypes, sourceVars
<1> QED
  BY <1>1, <1>2, <1>3, <1>4

(* A call that gives up, or whose program ends, leaves what was there.       *)
LEMMA GivesUp ==
  ASSUME CreationInv, ~Ended, UNCHANGED <<sourceVars, scanned, hashed, output>>,
         \/ /\ creation' = Doing("raised", 0) /\ temporary' = "none"
         \/ /\ creation' = Doing("dead", 0) /\ temporary' = temporary
  PROVE  CreationInv'
<1>1. creation' \in [what : {"scan", "scanned", "open", "read", "stat", "build", "rescan", "write",
                             "replace", "cleanup", "raised", "done", "dead"}, at : Nat]
      /\ creation'.what \in {"raised", "dead"}
  BY DEF Doing
<1>2. output # "torrent"
  BY DEF CreationInv, OnlyOwnTemporary, Ended
<1>3. CreationTypes' /\ VersionsGrow'
  BY <1>1, GoesOn DEF CreationInv, CreationTypes
<1>4. ReadInOrder' /\ OnlyOwnTemporary'
  BY <1>1, <1>2 DEF ReadInOrder, OnlyOwnTemporary, Doing
<1> QED
  BY <1>3, <1>4 DEF CreationInv

(* The scan: what it finds is there.                                         *)
LEMMA ScanKeeps == ASSUME CreationInv, ScanFile PROVE CreationInv'
<1>1. PICK n \in Names :
         /\ scanned' = [scanned EXCEPT ![n] = inSource[n]]
         /\ creation' = Doing(IF n = Cardinality(Names) THEN "scanned" ELSE "scan", n)
  BY DEF ScanFile
<1>2. creation.what = "scan" /\ UNCHANGED <<sourceVars, hashed, temporary, output>>
  BY DEF ScanFile
<1>3. creation'.what \in {"scan", "scanned"} /\ creation'.at \in Nat /\ creation' \in
        [what : {"scan", "scanned"}, at : Nat]
  BY <1>1, NamesAreNumbers DEF Doing
<1>4. CreationTypes'
  BY <1>1, <1>2, <1>3 DEF CreationInv, CreationTypes, sourceVars
<1>5. VersionsGrow'
  BY <1>1, <1>2 DEF CreationInv, CreationTypes, VersionsGrow, Reached, sourceVars
<1>6. ReadInOrder' /\ OnlyOwnTemporary'
  BY <1>2, <1>3 DEF CreationInv, ReadInOrder, OnlyOwnTemporary
<1> QED
  BY <1>4, <1>5, <1>6 DEF CreationInv

(* From a place where all before n is whole the loop goes on in order.       *)
LEMMA NextKeeps ==
  ASSUME CreationInv, ~Ended, creation.what # "replace", creation.what # "cleanup",
         NEW n \in Nat, Listed # {}, creation' = NextFile(n, Listed),
         \A m \in Names : /\ m <= n => WholeOrUnread(m)
                          /\ m > n => hashed[m] = Unread,
         UNCHANGED <<sourceVars, scanned, hashed, temporary, output>>
  PROVE  CreationInv'
<1>1. output # "torrent" /\ CreationTypes /\ temporary = "none"
  BY DEF CreationInv, OnlyOwnTemporary, Ended
<1>2. \A m \in Names : m \in Nat /\ scanned[m] \in Nat
  BY <1>1, NamesAreNumbers DEF CreationTypes
<1>3. CASE creation' = Doing("build", 0) /\ \A m \in Listed : m <= n
  <2>1. AllRead
    BY <1>2, <1>3 DEF AllRead, WholeOrUnread
  <2>2. creation' \in [what : {"build"}, at : Nat] /\ creation'.what = "build"
    BY <1>3 DEF Doing
  <2>3. CreationTypes' /\ VersionsGrow' /\ AllRead'
    BY <1>1, <2>1, <2>2, GoesOn DEF CreationTypes
  <2> QED
    BY <1>1, <2>2, <2>3 DEF CreationInv, ReadInOrder, OnlyOwnTemporary
<1>4. ASSUME NEW m \in Listed, creation' = Doing("open", m), m > n,
             \A k \in Listed : k > n => m <= k
      PROVE  CreationInv'
  <2>1. creation' \in [what : {"open"}, at : Nat] /\ creation'.what = "open" /\ creation'.at = m
    BY <1>2, <1>4 DEF Doing, Listed
  <2>2. CreationTypes' /\ VersionsGrow' /\ Listed' = Listed
        /\ \A k \in Names : WholeOrUnread(k)' <=> WholeOrUnread(k)
    BY <1>1, <2>1, GoesOn DEF CreationTypes
  <2>3. \A k \in Names : k < m => WholeOrUnread(k)
    <3> SUFFICES ASSUME NEW k \in Names, k < m PROVE WholeOrUnread(k)
      OBVIOUS
    <3>1. CASE k <= n
      BY <3>1
    <3>2. CASE k > n
      <4>1. k \notin Listed /\ hashed[k] = Unread
        BY <1>2, <1>4, <3>2 DEF Listed
      <4> QED
        BY <4>1 DEF WholeOrUnread
    <3> QED
      BY <1>2, <3>1, <3>2
  <2>4. \A k \in Names : k > m => hashed[k] = Unread
    BY <1>2, <1>4 DEF Listed
  <2>5. hashed[m] = Unread
    BY <1>4 DEF Listed
  <2>6. ReadSoFar'
    BY <2>1, <2>2, <2>3, <2>4, <2>5 DEF ReadSoFar
  <2> QED
    BY <1>1, <2>1, <2>2, <2>6 DEF CreationInv, ReadInOrder, OnlyOwnTemporary
<1> QED
  BY <1>1, <1>3, <1>4, NextFileIsNext

(* A piece of a file is read: what is found is at least as new as the scan.  *)
LEMMA ReadKeeps == ASSUME CreationInv, NEW half \in {1, 2}, ReadHalf(half) PROVE CreationInv'
<1> DEFINE n == creation.at
           found == IF inSource[n] > 0 THEN inSource[n] ELSE hashed[n][1]
<1>1. /\ UNCHANGED <<sourceVars, scanned, temporary, output>>
      /\ creation.what = (IF half = 1 THEN "open" ELSE "read") /\ ~Ended
      /\ ReadSoFar /\ n \in Listed /\ n \in Names /\ CreationTypes /\ VersionsGrow
      /\ output # "torrent" /\ temporary = "none"
  BY DEF ReadHalf, CreationInv, ReadInOrder, ReadSoFar, OnlyOwnTemporary, Ended, Listed
<1>2. CASE Raise /\ UNCHANGED hashed
  BY <1>1, <1>2, GivesUp DEF Raise
<1>3. CASE /\ hashed' = [hashed EXCEPT ![n][half] = found] /\ found # 0
           /\ creation' = Doing(IF half = 1 THEN "read" ELSE "stat", n)
  <2>1. /\ inSource[n] \in Nat /\ scanned[n] \in Nat /\ scanned[n] > 0 /\ edits \in Nat
        /\ hashed[n] \in Nat \X Nat /\ inSource[n] <= edits + 1 /\ hashed[n][1] <= edits + 1
        /\ inSource[n] = 0 \/ scanned[n] <= inSource[n]
        /\ hashed[n][1] \in Nat /\ hashed[n][2] \in Nat
    BY <1>1 DEF CreationTypes, VersionsGrow, Reached, Listed
  <2>2. half = 1 => hashed[n][1] = 0
    BY <1>1 DEF ReadSoFar, Unread
  <2>3. half = 2 => scanned[n] <= hashed[n][1] /\ Reached(n, hashed[n][1]) /\ hashed[n][2] = 0
    BY <1>1 DEF ReadSoFar
  <2>4. found \in Nat /\ scanned[n] <= found /\ found <= edits + 1 /\ Reached(n, found)
    BY <1>3, <2>1, <2>2, <2>3 DEF Reached
  <2>5. /\ hashed' \in [Names -> Nat \X Nat]
        /\ \A m \in Names \ {n} : hashed'[m] = hashed[m]
        /\ half = 1 => hashed'[n][1] = found /\ hashed'[n][2] = hashed[n][2]
        /\ half = 2 => hashed'[n][2] = found /\ hashed'[n][1] = hashed[n][1]
    <3> HIDE DEF found
    <3>1. hashed' = [hashed EXCEPT ![n] = [hashed[n] EXCEPT ![half] = found]]
      BY <1>3
    <3>2. [hashed[n] EXCEPT ![half] = found] \in Nat \X Nat
      BY <2>1, <2>4
    <3>3. hashed'[n] = [hashed[n] EXCEPT ![half] = found]
      BY <1>1, <3>1 DEF CreationTypes
    <3> QED
      BY <1>1, <2>1, <3>1, <3>2, <3>3 DEF CreationTypes
  <2> HIDE DEF found
  <2>6. n \in Nat /\ creation'.at = n /\ creation'.what = (IF half = 1 THEN "read" ELSE "stat")
        /\ creation' \in [what : {"read", "stat"}, at : Nat]
    BY <1>1, <1>3, NamesAreNumbers DEF Doing
  <2>7. CreationTypes'
    BY <1>1, <2>5, <2>6 DEF CreationTypes, sourceVars
  <2>8. VersionsGrow'
    BY <1>1, <2>1, <2>4, <2>5 DEF VersionsGrow, Reached, sourceVars
  <2>9. ReadSoFar'
    <3>1. \A m \in Names : m < n => WholeOrUnread(m)'
      BY <1>1, <2>5 DEF ReadSoFar, WholeOrUnread, Whole, Listed, CreationTypes
    <3>2. \A m \in Names : m > n => hashed'[m] = Unread
      BY <1>1, <2>5, NamesAreNumbers DEF ReadSoFar
    <3>3. scanned'[n] <= hashed'[n][1] /\ (inSource'[n] = 0 \/ hashed'[n][1] <= inSource'[n])
      BY <1>1, <2>3, <2>4, <2>5 DEF Reached, sourceVars
    <3>4. half = 1 => hashed'[n][2] = 0
      BY <1>1, <2>5 DEF ReadSoFar, Unread
    <3>5. half = 2 => scanned'[n] <= hashed'[n][2]
                        /\ (inSource'[n] = 0 \/ hashed'[n][2] <= inSource'[n])
      BY <1>1, <2>4, <2>5 DEF Reached, sourceVars
    <3> QED
      BY <1>1, <2>6, <3>1, <3>2, <3>3, <3>4, <3>5 DEF ReadSoFar, Reached, Listed
  <2> QED
    BY <1>1, <2>6, <2>7, <2>8, <2>9 DEF CreationInv, ReadInOrder, OnlyOwnTemporary
<1> QED
  BY <1>2, <1>3 DEF ReadHalf

(* A file that is as it was scanned after it has been read was read so.      *)
LEMMA StatKeeps == ASSUME CreationInv, StatFile PROVE CreationInv'
<1> DEFINE n == creation.at
<1>1. /\ UNCHANGED <<sourceVars, scanned, hashed, temporary, output>> /\ creation.what = "stat"
      /\ ~Ended /\ ReadSoFar /\ n \in Listed /\ n \in Names /\ n \in Nat /\ CreationTypes
      /\ temporary = "none"
  BY NamesAreNumbers DEF StatFile, CreationInv, ReadInOrder, ReadSoFar, OnlyOwnTemporary, Ended, Listed
<1>2. CASE Unchanged(n) /\ creation' = NextFile(n, Listed)
  <2>1. /\ inSource[n] = scanned[n] /\ scanned[n] \in Nat /\ scanned[n] > 0
        /\ hashed[n] \in Nat \X Nat
    BY <1>1, <1>2 DEF Unchanged, CreationTypes, Listed
  <2>2. hashed[n][1] = scanned[n] /\ hashed[n][2] = scanned[n]
    BY <1>1, <2>1 DEF ReadSoFar, Reached
  <2>3. hashed[n] = <<scanned[n], scanned[n]>>
    BY <2>1, <2>2
  <2>4. \A m \in Names : (m <= n => WholeOrUnread(m)) /\ (m > n => hashed[m] = Unread)
    BY <1>1, <2>3, NamesAreNumbers DEF ReadSoFar, WholeOrUnread, Whole
  <2> QED
    BY <1>1, <1>2, <2>4, NextKeeps
<1>3. CASE Raise
  BY <1>1, <1>3, GivesUp DEF Raise
<1> QED
  BY <1>2, <1>3 DEF StatFile

(* A torrent is written and published with all files read.                   *)
LEMMA PublishKeeps ==
  ASSUME CreationInv, Build \/ RescanFile \/ WriteTemporary \/ Replace \/ CleanUp
  PROVE  CreationInv'
<1>1. /\ UNCHANGED <<sourceVars, scanned, hashed>> /\ ~Ended /\ CreationTypes
      /\ output # "torrent"
      /\ creation.what \in {"build", "rescan", "write", "replace"} => AllRead
      /\ creation.what \notin {"replace", "cleanup"} => temporary = "none"
  BY DEF CreationInv, ReadInOrder, OnlyOwnTemporary, Ended, Build, RescanFile, WriteTemporary,
         Replace, CleanUp
<1>2. CASE creation' = Doing("raised", 0) /\ output' = output /\ temporary' = "none"
  BY <1>1, <1>2, GivesUp
<1>3. ASSUME NEW w \in {"rescan", "write", "replace", "cleanup", "done"}, NEW at \in Nat,
             creation' = Doing(w, at), AllRead,
             temporary' \in {"none", "partial", "torrent"},
             w = "replace" => temporary' = "torrent",
             w \notin {"replace", "cleanup"} => temporary' = "none",
             output' = output \/ (output' = "torrent" /\ w = "done")
      PROVE  CreationInv'
  <2>1. creation'.what = w /\ creation' \in
          [what : {"rescan", "write", "replace", "cleanup", "done"}, at : Nat]
    BY <1>3 DEF Doing
  <2>2. CreationTypes' /\ VersionsGrow' /\ AllRead'
    BY <1>1, <1>3, <2>1, GoesOn DEF CreationTypes
  <2> QED
    BY <1>1, <1>3, <2>1, <2>2 DEF CreationInv, ReadInOrder, OnlyOwnTemporary
<1>4. CASE Build
  <2>1. creation.what = "build" /\ temporary' = "none" /\ output' = output /\ AllRead
    BY <1>1, <1>4 DEF Build
  <2>2. \/ creation' = Doing("raised", 0)
        \/ creation' = Doing("rescan", 0)
        \/ creation' = Doing("write", 0)
    BY <1>4 DEF Build, Raise
  <2>3. CASE creation' = Doing("rescan", 0)
    BY <2>1, <2>3, <1>3
  <2>4. CASE creation' = Doing("write", 0)
    BY <2>1, <2>4, <1>3
  <2> QED
    BY <1>2, <2>1, <2>2, <2>3, <2>4
<1>5. CASE RescanFile
  <2>1. creation.what = "rescan" /\ temporary' = "none" /\ output' = output /\ AllRead
    BY <1>1, <1>5 DEF RescanFile
  <2>2. PICK n \in Names : \/ creation' = Doing("raised", 0)
                           \/ creation' = Doing("write", 0)
                           \/ creation' = Doing("rescan", n)
    BY <1>5 DEF RescanFile, Raise
  <2>3. CASE creation' = Doing("rescan", n)
    <3>1. n \in Nat
      BY NamesAreNumbers
    <3> QED
      BY <2>1, <2>3, <3>1, <1>3
  <2>4. CASE creation' = Doing("write", 0)
    BY <2>1, <2>4, <1>3
  <2> QED
    BY <1>2, <2>1, <2>2, <2>3, <2>4
<1>6. CASE WriteTemporary
  <2>1. creation.what = "write" /\ output' = output /\ AllRead
    BY <1>1, <1>6 DEF WriteTemporary
  <2>2. CASE temporary' = "torrent" /\ creation' = Doing("replace", 0)
    BY <2>1, <2>2, <1>3
  <2>3. CASE temporary' = "partial" /\ creation' = Doing("cleanup", 0)
    BY <2>1, <2>3, <1>3
  <2> QED
    BY <1>6, <2>2, <2>3 DEF WriteTemporary
<1>7. CASE Replace
  <2>1. creation.what = "replace" /\ temporary \in {"none", "partial", "torrent"} /\ AllRead
    BY <1>1, <1>7 DEF Replace, CreationTypes
  <2>2. CASE output' = "torrent" /\ temporary' = "none" /\ creation' = Doing("done", 0)
    BY <2>1, <2>2, <1>3
  <2>3. CASE output' = output /\ temporary' = temporary /\ creation' = Doing("cleanup", 0)
    BY <2>1, <2>3, <1>3
  <2> QED
    BY <1>7, <2>2, <2>3 DEF Replace
<1>8. CASE CleanUp
  BY <1>1, <1>2, <1>8 DEF CleanUp, Raise
<1> QED
  BY <1>4, <1>5, <1>6, <1>7, <1>8

(* Every step of the call and of the user keeps it.                          *)
LEMMA CreationInvNext == CreationInv /\ [CreationNext]_creationVars => CreationInv'
<1> SUFFICES ASSUME CreationInv, [CreationNext]_creationVars PROVE CreationInv'
  OBVIOUS
<1>1. CASE CancelCreation \/ UNCHANGED creationVars
  <2>1. UNCHANGED <<sourceVars, creation, scanned, hashed, temporary, output>>
    BY <1>1 DEF CancelCreation, creationVars, sourceVars
  <2>2. CreationTypes' /\ VersionsGrow' /\ (AllRead' <=> AllRead) /\ Listed' = Listed
        /\ \A n \in Names : WholeOrUnread(n)' <=> WholeOrUnread(n)
    BY <2>1, GoesOn DEF CreationInv, CreationTypes
  <2>3. creation.what \in {"open", "read", "stat"} => ReadSoFar'
    BY <2>1, <2>2 DEF CreationInv, ReadInOrder, ReadSoFar, Reached, sourceVars
  <2> QED
    BY <2>1, <2>2, <2>3 DEF CreationInv, ReadInOrder, OnlyOwnTemporary
<1>2. CASE ProgramEnds
  BY <1>2, GivesUp DEF ProgramEnds
<1>3. CASE Scanned
  <2>1. UNCHANGED <<sourceVars, scanned, hashed, temporary, output>> /\ creation.what = "scanned"
        /\ temporary = "none" /\ \A n \in Names : hashed[n] = Unread
    BY <1>3 DEF Scanned, CreationInv, ReadInOrder, OnlyOwnTemporary
  <2>2. \A m \in Names : (m <= 0 => WholeOrUnread(m)) /\ (m > 0 => hashed[m] = Unread)
    BY <2>1, NamesAreNumbers
  <2>3. CASE Listed # {} /\ creation' = NextFile(0, Listed)
    BY <2>1, <2>2, <2>3, NextKeeps DEF Ended
  <2>4. CASE Raise
    BY <2>1, <2>4, GivesUp DEF Raise, Ended
  <2> QED
    BY <1>3, <2>3, <2>4 DEF Scanned
<1> QED
  BY <1>1, <1>2, <1>3, EditKeeps, ScanKeeps, ReadKeeps, StatKeeps, PublishKeeps DEF CreationNext

LEMMA CreationInvTypes == CreationInv => CreationTypeOK
BY DEF CreationInv, CreationTypes, CreationTypeOK

(* A torrent that is published describes one version of every file, read from *)
(* beginning to end, and a call that ends leaves nothing else behind          *)
(* (TorrentCreator.create), whatever the user does to the source meanwhile.   *)
THEOREM CreationIsSound == CreationSpec => []CreationSound
<1>1. CreationInv => CreationSound
  BY DEF CreationInv, ReadInOrder, AllRead, WholeOrUnread, Whole, OnlyOwnTemporary, CreationSound,
         PublishedIsCoherent, NothingLeftBehind, Listed
<1> QED
  BY <1>1, CreationInvInit, CreationInvNext, PTL DEF CreationSpec

--------------------------------------------------------------------------------
(* All together: after any crash the next launch finds the queue and the     *)
(* preferences as they were last saved, and torrents are of one source.      *)
THEOREM RecordsAreSound == RecordsSpec => []RecordsSound
BY QueueIsSaved, SettingsAreKept, CreationIsSound, PTL DEF RecordsSpec, RecordsSound

(* A program that could not read its stores writes over neither of them.     *)
THEOREM RecordsAreKept == RecordsSpec => RecordsKept
BY UnreadableQueueIsKept, UnreadableIsKept DEF RecordsSpec, RecordsKept
================================================================================
