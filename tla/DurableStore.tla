---------------------------- MODULE DurableStore ----------------------------
(***************************************************************************)
(* What the storage side of a torrent promises (README of the repository,  *)
(* "Storage and state"): the fast-resume record claims only pieces whose   *)
(* payload has reached the filesystem, and no piece on the filesystem is   *)
(* ever lost again.  What the program holds for verified in memory may be  *)
(* forgotten: after a disk failure the pieces that were not recorded, at a *)
(* crash all of it; the next launch starts from the record or from what a  *)
(* check of the files finds.                                               *)
(***************************************************************************)
CONSTANT Pieces

VARIABLES
  verified,   \* pieces the program holds for verified
  stored,     \* pieces whose payload is on the filesystem
  recorded    \* pieces the resume record claims

vars == <<verified, stored, recorded>>

Init == verified = {} /\ stored = {} /\ recorded = {}

\* A piece passes its hash; it is stored later.
Verify(i) ==
  /\ verified' = verified \cup {i}
  /\ UNCHANGED <<stored, recorded>>

\* The payload of a verified piece reaches the filesystem.
Store(i) ==
  /\ i \in verified
  /\ stored' = stored \cup {i}
  /\ UNCHANGED <<verified, recorded>>

\* The record is rewritten: it may lag, but claims nothing that is not stored.
Record ==
  /\ recorded' \subseteq stored
  /\ UNCHANGED <<verified, stored>>

\* Without a write-behind pipeline a piece is verified, stored and recorded at once.
WriteThrough(i) ==
  /\ verified' = verified \cup {i}
  /\ stored' = stored \cup {i}
  /\ recorded' \subseteq stored'

\* The disk has failed: pieces that are not recorded may be fetched again.
Forget ==
  /\ verified' \subseteq verified /\ recorded \cap verified \subseteq verified'
  /\ UNCHANGED <<stored, recorded>>

\* The process dies; a verified piece being written may or may not have made it.
Crash ==
  /\ verified' = {}
  /\ stored \subseteq stored' /\ stored' \subseteq stored \cup verified
  /\ UNCHANGED recorded

\* The next launch takes over the record, or what it finds on the filesystem.
Reload ==
  /\ verified = {} /\ verified' \in {recorded, stored}
  /\ recorded' = verified'
  /\ UNCHANGED stored

Next ==
  \/ \E i \in Pieces : Verify(i) \/ Store(i) \/ WriteThrough(i)
  \/ Record \/ Forget \/ Crash \/ Reload

Spec == Init /\ [][Next]_vars
=============================================================================
