------------------------------ MODULE PeerLink ------------------------------
(***************************************************************************)
(* The three layers of a peer connection together: a behaviour belongs to    *)
(* one of them, and the others stay as they are after their first state.    *)
(***************************************************************************)
EXTENDS PeerHandshake, PeerWire, RateLimiter

VARIABLE layer

linkVars == <<layer, handshakeVars, wireVars, rateVars>>

HandshakeIdle ==
  /\ HandshakeInit /\ iPolicy = "prefer" /\ rPolicy = "prefer"
  /\ iHashes = {"v1"} /\ rHashes = {"v1"}
WireIdle == WireInit /\ loop = "inbound"
RateIdle == RateInit /\ rate = 0

Init ==
  \/ layer = "handshake" /\ HandshakeInit /\ WireIdle /\ RateIdle
  \/ layer = "wire" /\ HandshakeIdle /\ WireInit /\ RateIdle
  \/ layer = "rate" /\ HandshakeIdle /\ WireIdle /\ RateInit

Next ==
  \/ /\ layer = "handshake" /\ HandshakeNext
     /\ UNCHANGED <<layer, wireVars, rateVars>>
  \/ /\ layer = "wire" /\ WireNext
     /\ UNCHANGED <<layer, handshakeVars, rateVars>>
  \/ /\ layer = "rate" /\ RateNext
     /\ UNCHANGED <<layer, handshakeVars, wireVars>>

Spec == Init /\ [][Next]_linkVars /\ WireFairness

(* One type invariant for the three: the states of a handshake, the bounds   *)
(* of the stream and of the upload queue, and the slots of the limiter.     *)
LinkTypeOK == HandshakeTypeOK /\ WireTypeOK /\ RateTypeOK
=============================================================================
