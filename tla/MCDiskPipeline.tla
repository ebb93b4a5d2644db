--------------------------- MODULE MCDiskPipeline ---------------------------
(* Small instances of DiskPipeline: pieces of one, two and two bytes. *)
EXTENDS DiskPipeline

CONSTANTS i1, i2, i3, None

MCSize == [i \in Pieces |-> IF i = i1 THEN 1 ELSE 2]
=============================================================================
