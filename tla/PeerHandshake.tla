----------------------------- MODULE PeerHandshake -----------------------------
(***************************************************************************)
(* Two SalixTorrent clients establish a peer connection: the initiator is  *)
(* PeerConnection.connect (peer.py) with mse_initiator_handshake (mse.py),  *)
(* the responder the inbound handler of TorrentSession with                 *)
(* mse_responder_handshake.  Each end has an encryption policy and knows    *)
(* the torrent by one or both of its swarm hashes.                          *)
(*                                                                          *)
(* A TCP connection is a pair of streams of symbolic messages.  Keys,       *)
(* padding and ciphers are abstracted: a message a party can decode is one  *)
(* it finds at the head of its stream.                                      *)
(***************************************************************************)
EXTENDS Naturals, Sequences, FiniteSets

CONSTANT MaxTimeouts    \* bound on waits that run into their timeout

ASSUME TimeoutAssumption == MaxTimeouts \in Nat

Policies == {"disabled", "prefer", "require"}
Generations == {"v1", "v2"}
Conns == 1 .. 2         \* the encrypted attempt and the plaintext one

VARIABLES
  iPolicy, rPolicy,     \* encryption_policy of the two ends
  iHashes, rHashes,     \* generations whose swarm hash each end knows
  iGen,                 \* protocol_generation of the initiator's PeerConnection
  step,                 \* control of the initiator
  conn,                 \* the connection it uses
  up, down,             \* per connection: bytes to the responder and back
  open,                 \* connections neither end has closed
  handler,              \* per connection: the responder's handler
  timeouts              \* waits that timed out, bounded by MaxTimeouts

handshakeVars == <<iPolicy, rPolicy, iHashes, rHashes, iGen, step, conn, up,
                   down, open, handler, timeouts>>
config == <<iPolicy, rPolicy, iHashes, rHashes>>

Steps == {"start", "mse_hello", "mse_key", "mse_select", "response",
          "fallback", "plain_hello", "connected", "refused"}
NoHandler == [at |-> "none", sec |-> "none", gen |-> "none"]

(* The 68 bytes of _build_handshake; v2 is the upgrade bit.                 *)
Hello(gen, v2) == [msg |-> "hello", hash |-> gen, v2 |-> v2]
Key == [msg |-> "key"]
Select == [msg |-> "select"]
Offer(gen, hello) == [msg |-> "offer", hash |-> gen, hello |-> hello]

HandshakeInit ==
  /\ iPolicy \in Policies /\ rPolicy \in Policies
  /\ iHashes \in SUBSET Generations \ {{}}
  /\ rHashes \in SUBSET Generations \ {{}}
  /\ iGen \in iHashes
  /\ step = "start" /\ conn = 1 /\ open = {} /\ timeouts = 0
  /\ up = [c \in Conns |-> <<>>] /\ down = [c \in Conns |-> <<>>]
  /\ handler = [c \in Conns |-> NoHandler]

--------------------------------------------------------------------------------
(* The initiator.                                                           *)

OurHello == Hello(iGen, "v2" \in iHashes)

(* connect: the policy decides on the first attempt; a TCP connection is    *)
(* opened and its handler created at the other end.                         *)
OpenTcp(c, next) ==
  /\ conn' = c /\ open' = open \cup {c} /\ step' = next
  /\ handler' = [handler EXCEPT ![c].at = "prefix"]
  /\ UNCHANGED <<config, iGen, up, down, timeouts>>

Connect ==
  /\ step = "start"
  /\ OpenTcp(1, IF iPolicy = "disabled" THEN "plain_hello" ELSE "mse_hello")

Fallback == step = "fallback" /\ OpenTcp(2, "plain_hello")

(* _open_tcp fails or times out.                                            *)
TcpFails ==
  /\ step \in {"start", "fallback"} /\ timeouts < MaxTimeouts
  /\ step' = IF step = "start" /\ iPolicy = "prefer"
             THEN "fallback" ELSE "refused"
  /\ timeouts' = timeouts + 1
  /\ UNCHANGED <<config, iGen, conn, up, down, open, handler>>

Write(stream, c, m) == stream' = [stream EXCEPT ![c] = Append(@, m)]

SendPlainHello ==
  /\ step = "plain_hello"
  /\ Write(up, conn, OurHello) /\ step' = "response"
  /\ UNCHANGED <<config, iGen, conn, down, open, handler, timeouts>>

SendKey ==
  /\ step = "mse_hello"
  /\ Write(up, conn, Key) /\ step' = "mse_key"
  /\ UNCHANGED <<config, iGen, conn, down, open, handler, timeouts>>

Read(stream, c, m) == stream[c] /= <<>> /\ Head(stream[c]) = m

(* The answering key makes the shared secret; the offer carries the torrent *)
(* selector and the handshake as initial payload.                           *)
SendOffer ==
  /\ step = "mse_key" /\ Read(down, conn, Key)
  /\ down' = [down EXCEPT ![conn] = Tail(@)]
  /\ Write(up, conn, Offer(iGen, OurHello)) /\ step' = "mse_select"
  /\ UNCHANGED <<config, iGen, conn, open, handler, timeouts>>

ReadSelect ==
  /\ step = "mse_select" /\ Read(down, conn, Select)
  /\ down' = [down EXCEPT ![conn] = Tail(@)] /\ step' = "response"
  /\ UNCHANGED <<config, iGen, conn, up, open, handler, timeouts>>

(* _finish_peer_handshake: the hash asked for, or the upgrade to v2.        *)
Upgraded(h) == iGen = "v1" /\ "v2" \in iHashes /\ h.v2 /\ h.hash = "v2"

FinishPeerHandshake ==
  /\ step = "response" /\ down[conn] /= <<>>
  /\ LET h == Head(down[conn]) IN
       /\ h.msg = "hello"
       /\ h.hash = iGen \/ Upgraded(h)
       /\ iGen' = h.hash
  /\ down' = [down EXCEPT ![conn] = Tail(@)] /\ step' = "connected"
  /\ UNCHANGED <<config, conn, up, open, handler, timeouts>>

(* Mutant: the fallback is not limited to Prefer.                           *)
AttemptOverAlways ==
  /\ open' = open \ {conn}
  /\ step' = IF conn = 1 THEN "fallback" ELSE "refused"
  /\ UNCHANGED <<config, iGen, conn, up, down, handler>>

(* Mutant: a failed encrypted attempt is final.                             *)
AttemptOverFinal ==
  /\ open' = open \ {conn} /\ step' = "refused"
  /\ UNCHANGED <<config, iGen, conn, up, down, handler>>

(* An exception in an attempt closes it; Prefer tries once more on a fresh  *)
(* connection without encryption, Require never does.                       *)
AttemptOver ==
  /\ open' = open \ {conn}
  /\ step' = IF iPolicy = "prefer" /\ conn = 1 THEN "fallback" ELSE "refused"
  /\ UNCHANGED <<config, iGen, conn, up, down, handler>>

Awaiting == step \in {"mse_key", "mse_select", "response"}

(* The stream ends, or the handshake in it does not fit.                    *)
AttemptFails ==
  /\ Awaiting
  /\ IF down[conn] = <<>> THEN conn \notin open
     ELSE step = "response" /\ Head(down[conn]).hash /= iGen
          /\ ~Upgraded(Head(down[conn]))
  /\ AttemptOver /\ UNCHANGED timeouts

AttemptTimesOut ==
  /\ Awaiting /\ down[conn] = <<>> /\ timeouts < MaxTimeouts
  /\ AttemptOver /\ timeouts' = timeouts + 1

--------------------------------------------------------------------------------
(* The responder: _handle_inbound_seed_peer and mse_responder_handshake.    *)

HandlerAt(c, at) == handler[c].at = at /\ up[c] /= <<>>
Taken(c) == up' = [up EXCEPT ![c] = Tail(@)]
HandlerStays == UNCHANGED <<config, iGen, step, conn>>

CloseHandler(c) ==
  /\ handler' = [handler EXCEPT ![c].at = "closed"] /\ open' = open \ {c}
  /\ HandlerStays

(* The first 20 bytes tell plaintext from an encrypted greeting.            *)
Refused(m) ==
  \/ m.msg = "hello" /\ rPolicy = "require"
  \/ m.msg = "key" /\ rPolicy = "disabled"

ReadPrefix(c) ==
  /\ HandlerAt(c, "prefix")
  /\ LET m == Head(up[c]) IN
       \/ /\ Refused(m) /\ CloseHandler(c) /\ UNCHANGED <<up, down>>
       \/ /\ m.msg = "hello" /\ ~Refused(m)
          /\ handler' = [handler EXCEPT ![c].at = "hello", ![c].sec = "plain"]
          /\ UNCHANGED <<up, down, open>> /\ HandlerStays
       \/ /\ m.msg = "key" /\ ~Refused(m)
          /\ handler' = [handler EXCEPT ![c].at = "offer"]
          /\ Taken(c) /\ Write(down, c, Key)
          /\ UNCHANGED open /\ HandlerStays
  /\ UNCHANGED timeouts

(* The selector must name a torrent this end knows; the initial payload is  *)
(* put before what follows on the decrypted stream.                         *)
ReadOffer(c) ==
  /\ HandlerAt(c, "offer")
  /\ LET m == Head(up[c]) IN
       \/ /\ m.hash \notin rHashes
          /\ CloseHandler(c) /\ UNCHANGED <<up, down>>
       \/ /\ m.hash \in rHashes
          /\ handler' = [handler EXCEPT ![c].at = "hello", ![c].sec = "mse"]
          /\ up' = [up EXCEPT ![c] = <<m.hello>> \o Tail(@)]
          /\ Write(down, c, Select)
          /\ UNCHANGED open /\ HandlerStays
  /\ UNCHANGED timeouts

(* A v1 connection between two ends that both know the v2 identity is       *)
(* answered with that identity.                                             *)
Negotiated(m) ==
  IF m.hash = "v1" /\ "v2" \in rHashes /\ m.v2 THEN "v2" ELSE m.hash

ReadHello(c) ==
  /\ HandlerAt(c, "hello")
  /\ LET m == Head(up[c]) IN
       \/ m.hash \notin rHashes /\ CloseHandler(c) /\ UNCHANGED <<up, down>>
       \/ /\ m.hash \in rHashes
          /\ handler' = [handler EXCEPT ![c].at = "serving",
                                        ![c].gen = Negotiated(m)]
          /\ Taken(c)
          /\ Write(down, c, Hello(Negotiated(m), "v2" \in rHashes))
          /\ UNCHANGED open /\ HandlerStays
  /\ UNCHANGED timeouts

(* The other end has gone, or a read or the session's state gives up.       *)
Busy(c) == handler[c].at \notin {"none", "closed"}

HandlerSeesEnd(c) ==
  /\ Busy(c) /\ c \notin open
  /\ CloseHandler(c) /\ UNCHANGED <<up, down, timeouts>>

HandlerGivesUp(c) ==
  /\ Busy(c) /\ timeouts < MaxTimeouts
  /\ CloseHandler(c) /\ timeouts' = timeouts + 1 /\ UNCHANGED <<up, down>>

HandshakeNext ==
  \/ Connect \/ Fallback \/ TcpFails \/ SendPlainHello \/ SendKey \/ SendOffer
  \/ ReadSelect \/ FinishPeerHandshake \/ AttemptFails \/ AttemptTimesOut
  \/ \E c \in Conns : \/ ReadPrefix(c) \/ ReadOffer(c) \/ ReadHello(c)
                      \/ HandlerSeesEnd(c) \/ HandlerGivesUp(c)

HandshakeSpec == HandshakeInit /\ [][HandshakeNext]_handshakeVars

--------------------------------------------------------------------------------
HandshakeTypeOK ==
  /\ iPolicy \in Policies /\ rPolicy \in Policies
  /\ iHashes \subseteq Generations /\ rHashes \subseteq Generations
  /\ iGen \in iHashes /\ step \in Steps
  /\ conn \in Conns /\ open \subseteq Conns
  /\ \A c \in Conns : Len(up[c]) <= 2 /\ Len(down[c]) <= 3
  /\ timeouts \in 0 .. MaxTimeouts

(* Both ends of an established connection agree on the generation and the   *)
(* security of it, and neither policy is broken: Require is never served in *)
(* plaintext, Disabled never encrypted.  The two decide at different times, *)
(* from different messages, and may have tried another connection before.   *)
Security == IF conn = 1 /\ iPolicy /= "disabled" THEN "mse" ELSE "plain"

HandshakeAgreement ==
  /\ step = "connected" =>
       /\ iGen \in rHashes
       /\ handler[conn].sec = Security /\ handler[conn].gen = iGen
  /\ \A c \in Conns : handler[c].at = "serving" =>
       /\ handler[c].sec = "mse" => "disabled" \notin {iPolicy, rPolicy}
       /\ handler[c].sec = "plain" => "require" \notin {iPolicy, rPolicy}

(* Two ends whose policies and swarms fit are never kept apart: if no wait   *)
(* timed out, a refusal means that they do not fit.                         *)
Compatible ==
  /\ {iPolicy, rPolicy} /= {"disabled", "require"}
  /\ iGen \in rHashes

NoNeedlessRefusal == step = "refused" /\ timeouts = 0 => ~Compatible

(* The two ends negotiate what their policies allow, and whenever they allow *)
(* something.                                                               *)
HandshakeSound == HandshakeAgreement /\ NoNeedlessRefusal
================================================================================
