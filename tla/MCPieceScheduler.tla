-------------------------- MODULE MCPieceScheduler --------------------------
(* Small instances of PieceScheduler: one piece of two blocks and one of one. *)
EXTENDS PieceScheduler, TLC

CONSTANTS p1, p2, p3, big, small, f1, f2

MCPieceOf == [b \in Blocks |-> IF b = 3 THEN small ELSE big]

\* the small piece straddles the boundary of the two files
MCFilesOf == big :> ({f1} \cap Files) @@ small :> ({f1, f2} \cap Files)

PeerSymmetry == Permutations(Peers)
=============================================================================
