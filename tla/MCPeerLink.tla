----------------------------- MODULE MCPeerLink -----------------------------
(***************************************************************************)
(* PeerLink with two blocks to upload and two transfers to limit.           *)
(***************************************************************************)
EXTENDS PeerLink

CONSTANTS k1, k2, a, b
=============================================================================
