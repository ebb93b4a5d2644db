--------------------------- MODULE MCTransferQueue ---------------------------
(* Small instances of TransferQueue: two torrents compete for one slot. *)
EXTENDS TransferQueue

CONSTANTS t1, t2
=============================================================================
