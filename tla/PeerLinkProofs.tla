--------------------------- MODULE PeerLinkProofs ---------------------------
(***************************************************************************)
(* A peer connection, for any policies, hashes, keys, rates and bounds: the  *)
(* handshake, the framing and the uploads, the rate limiter, and the three   *)
(* as they are put together in PeerLink.                                    *)
(***************************************************************************)
EXTENDS PeerLink, SequenceTheorems, TLAPS

(* The handshake (peer.py, mse.py).                                          *)
(* The messages there are.                                                  *)
Hellos == [msg : {"hello"}, hash : Generations, v2 : BOOLEAN]
Offers == [msg : {"offer"}, hash : Generations, hello : Hellos]
WireMessages == {Key, Select} \cup Hellos \cup Offers

(* What the responder knows of a connection.                                 *)
HandlerStates ==
  [at : {"none", "prefix", "offer", "hello", "serving", "closed"},
   sec : {"none", "plain", "mse"}, gen : Generations \cup {"none"}]

(* The types, with those of the bytes under way.                             *)
HandshakeTypes ==
  /\ iPolicy \in Policies /\ rPolicy \in Policies
  /\ iHashes \subseteq Generations /\ rHashes \subseteq Generations
  /\ iGen \in iHashes /\ step \in Steps
  /\ conn \in Conns /\ open \subseteq Conns
  /\ timeouts \in 0 .. MaxTimeouts
  /\ up \in [Conns -> Seq(WireMessages)] /\ down \in [Conns -> Seq(WireMessages)]
  /\ handler \in [Conns -> HandlerStates]

(* The conversation on a connection, stage by stage: what is under way in    *)
(* each direction, and how far the responder is unless it has closed.        *)
Method(c) == IF c = 1 /\ iPolicy # "disabled" THEN "mse" ELSE "plain"

(* The hello of the initiator, the generation the two agree on, and the      *)
(* answer.                                                                   *)
HelloOf(g) == Hello(g, "v2" \in iHashes)
Agreed(g) == Negotiated(HelloOf(g))
Answer(g) == Hello(Agreed(g), "v2" \in rHashes)

(* The responder is this far, unless it has closed.                          *)
At(c, at, sec, gen) ==
  handler[c].at \in {at, "closed"} /\ handler[c].sec = sec /\ handler[c].gen = gen

(* The stages of an attempt, with the bytes under way in both directions:    *)
(* nothing yet; the connection made; and for the encrypted one the keys,     *)
(* the offer, the selection and the answers to the hello.                    *)
Unused(c) == up[c] = << >> /\ down[c] = << >> /\ handler[c] = NoHandler
Opened(c) == up[c] = << >> /\ down[c] = << >> /\ At(c, "prefix", "none", "none")
KeySent(c) ==
  /\ Method(c) = "mse"
  /\ up[c] = <<Key>> /\ down[c] = << >> /\ At(c, "prefix", "none", "none")
KeyAnswered(c) ==
  /\ Method(c) = "mse" /\ rPolicy # "disabled"
  /\ up[c] = << >> /\ down[c] = <<Key>> /\ At(c, "offer", "none", "none")
Offered(c, g) ==
  /\ Method(c) = "mse" /\ rPolicy # "disabled"
  /\ up[c] = <<Offer(g, HelloOf(g))>> /\ down[c] = << >> /\ At(c, "offer", "none", "none")
Selected(c, g, taken) ==
  /\ Method(c) = "mse" /\ rPolicy # "disabled" /\ g \in rHashes
  /\ up[c] = <<HelloOf(g)>> /\ down[c] = (IF taken THEN << >> ELSE <<Select>>)
  /\ At(c, "hello", "mse", "none")
PlainSent(c, g) ==
  /\ Method(c) = "plain" /\ up[c] = <<HelloOf(g)>> /\ down[c] = << >>
  /\ \/ At(c, "prefix", "none", "none")
     \/ rPolicy # "require" /\ At(c, "hello", "plain", "none")
Answered(c, g, taken) ==
  /\ IF Method(c) = "mse" THEN rPolicy # "disabled" ELSE rPolicy # "require" /\ taken
  /\ g \in rHashes /\ up[c] = << >>
  /\ down[c] = (IF taken THEN <<Answer(g)>> ELSE <<Select, Answer(g)>>)
  /\ At(c, "serving", Method(c), Agreed(g))
Done(c, g) ==
  /\ IF Method(c) = "mse" THEN rPolicy # "disabled" ELSE rPolicy # "require"
  /\ g \in rHashes /\ up[c] = << >> /\ down[c] = << >>
  /\ At(c, "serving", Method(c), Agreed(g))

(* Where the initiator is while this is the connection it uses.              *)
Current(c) == c = conn /\ step \notin {"fallback", "refused"}

(* The initiator is at one of these steps if it uses the connection.         *)
AtStep(c, steps) == Current(c) => step \in steps

(* The conversation about generation g is at one of the stages, with the     *)
(* initiator where that stage needs it.                                      *)
InStage(c, g) ==
  \/ Unused(c) /\ AtStep(c, {"start"})
  \/ Opened(c) /\ AtStep(c, {IF Method(c) = "mse" THEN "mse_hello" ELSE "plain_hello"})
  \/ KeySent(c) /\ AtStep(c, {"mse_key"})
  \/ KeyAnswered(c) /\ AtStep(c, {"mse_key"})
  \/ Offered(c, g) /\ AtStep(c, {"mse_select"})
  \/ Selected(c, g, FALSE) /\ AtStep(c, {"mse_select"})
  \/ Answered(c, g, FALSE) /\ AtStep(c, {"mse_select"})
  \/ Selected(c, g, TRUE) /\ AtStep(c, {"response"})
  \/ Answered(c, g, TRUE) /\ AtStep(c, {"response"})
  \/ PlainSent(c, g) /\ AtStep(c, {"response"})
  \/ Done(c, g) /\ AtStep(c, {"connected"}) /\ (Current(c) => iGen = Agreed(g))

(* The conversation on c is about a generation the initiator has: the one    *)
(* it asked for, until the answer changes it.                                *)
Talk(c) == \E g \in iHashes : (step # "connected" => g = iGen) /\ InStage(c, g)

(* The second connection is the plaintext one of Prefer.                     *)
SecondTry ==
  /\ conn = 1 => Unused(2)
  /\ conn = 2 \/ step = "fallback" => iPolicy = "prefer"
  /\ step \in {"start", "fallback"} => conn = 1

(* A responder that has not closed the connection in use has it open; and   *)
(* while no wait has timed out there is a reason for every end of one.       *)
OpenWhile ==
  \A c \in Conns : Current(c) /\ step # "start" /\ handler[c].at # "closed" => c \in open

(* The two ends cannot use the connection: no common hash, or policies that  *)
(* exclude the method tried on it.                                           *)
Misfit(c) ==
  \/ iGen \notin rHashes
  \/ Method(c) = "plain" /\ rPolicy = "require"
  \/ Method(c) = "mse" /\ rPolicy = "disabled"

Reasons ==
  timeouts = 0 =>
    /\ \A c \in Conns : Current(c) /\ step # "connected" /\ handler[c].at = "closed" => Misfit(c)
    /\ step # "connected" /\ (step = "fallback" \/ conn = 2) =>
         iGen \notin rHashes \/ rPolicy = "disabled"
    /\ step = "refused" => ~ Compatible

(* The inductive invariant of the handshake.                                 *)
HandshakeInv ==
  HandshakeTypes /\ (\A c \in Conns : Talk(c)) /\ SecondTry /\ OpenWhile /\ Reasons
--------------------------------------------------------------------------------
(* Streams of one and two messages, taken apart and put together.            *)
LEMMA OneMessage ==
  ASSUME NEW x, NEW y
  PROVE  /\ Append(<< >>, x) = <<x>> /\ Head(<<x>>) = x /\ Tail(<<x>>) = << >>
         /\ <<x>> # << >> /\ <<x>> \o << >> = <<x>>
         /\ Append(<<x>>, y) = <<x, y>> /\ Head(<<x, y>>) = x /\ Tail(<<x, y>>) = <<y>>
         /\ <<x, y>> # << >>
<1>1. /\ Append(<< >>, x) = <<x>> /\ Head(<<x>>) = x /\ <<x>> # << >>
  OBVIOUS
<1>2. Tail(<<x>>) = << >> /\ <<x>> \o << >> = <<x>>
  OBVIOUS
<1>3. Append(<<x>>, y) = <<x, y>>
  <2>1. Append(<<x>>, y) \in Seq({x, y}) /\ <<x, y>> \in Seq({x, y})
    OBVIOUS
  <2>2. Len(Append(<<x>>, y)) = 2 /\ Len(<<x, y>>) = 2
    OBVIOUS
  <2>3. /\ Append(<<x>>, y)[1] = <<x, y>>[1]
        /\ Append(<<x>>, y)[2] = <<x, y>>[2]
    OBVIOUS
  <2> QED
    <3>1. \A i \in 1 .. Len(Append(<<x>>, y)) : Append(<<x>>, y)[i] = <<x, y>>[i]
      BY <2>2, <2>3
    <3> QED
      BY <2>1, <2>2, <3>1, SeqEqual
<1>4. Head(<<x, y>>) = x /\ <<x, y>> # << >> /\ Tail(<<x, y>>) = <<y>>
  OBVIOUS
<1> QED
  BY <1>1, <1>2, <1>3, <1>4

(* What a hello carries.                                                     *)
LEMMA HelloFields ==
  ASSUME NEW g \in Generations, NEW v \in BOOLEAN
  PROVE  /\ Hello(g, v) \in Hellos /\ Hello(g, v).msg = "hello" /\ Hello(g, v).hash = g
         /\ Hello(g, v).v2 = v
BY Zenon DEF Hello, Hellos

(* The messages of a conversation, told apart.                               *)
LEMMA MessageKinds ==
  ASSUME NEW g \in Generations
  PROVE  /\ HelloOf(g) \in WireMessages /\ HelloOf(g).msg = "hello" /\ HelloOf(g).hash = g
         /\ (HelloOf(g).v2 <=> "v2" \in iHashes)
         /\ Answer(g) \in WireMessages /\ Answer(g).msg = "hello" /\ Answer(g).hash = Agreed(g)
         /\ (Answer(g).v2 <=> "v2" \in rHashes)
         /\ Agreed(g) = (IF g = "v1" /\ "v2" \in rHashes /\ "v2" \in iHashes THEN "v2" ELSE g)
         /\ Offer(g, HelloOf(g)) \in WireMessages /\ Offer(g, HelloOf(g)).msg = "offer"
         /\ Offer(g, HelloOf(g)).hash = g /\ Offer(g, HelloOf(g)).hello = HelloOf(g)
         /\ Key \in WireMessages /\ Key.msg = "key"
         /\ Select \in WireMessages /\ Select.msg = "select"
<1>1. /\ HelloOf(g) \in Hellos /\ HelloOf(g).msg = "hello" /\ HelloOf(g).hash = g
      /\ (HelloOf(g).v2 <=> "v2" \in iHashes)
  <2>1. ("v2" \in iHashes) \in BOOLEAN
    OBVIOUS
  <2> QED
    BY <2>1, HelloFields, Zenon DEF HelloOf
<1>2. /\ Agreed(g) = (IF g = "v1" /\ "v2" \in rHashes /\ "v2" \in iHashes THEN "v2" ELSE g)
      /\ Agreed(g) \in Generations
  BY <1>1 DEF Agreed, Negotiated, Generations
<1>3. /\ Answer(g) \in Hellos /\ Answer(g).msg = "hello" /\ Answer(g).hash = Agreed(g)
      /\ (Answer(g).v2 <=> "v2" \in rHashes)
  <2>1. ("v2" \in rHashes) \in BOOLEAN
    OBVIOUS
  <2> QED
    BY <1>2, <2>1, HelloFields, Zenon DEF Answer
<1>4. /\ Offer(g, HelloOf(g)) \in Offers /\ Offer(g, HelloOf(g)).msg = "offer"
      /\ Offer(g, HelloOf(g)).hash = g /\ Offer(g, HelloOf(g)).hello = HelloOf(g)
  BY <1>1 DEF Offer, Offers
<1>5. Key.msg = "key" /\ Select.msg = "select"
  BY DEF Key, Select
<1> QED
  BY <1>1, <1>2, <1>3, <1>4, <1>5 DEF WireMessages

(* Before the first connection nothing is under way.                         *)
LEMMA HandshakeInvInit == HandshakeInit => HandshakeInv
<1> SUFFICES ASSUME HandshakeInit PROVE HandshakeInv
  OBVIOUS
<1>1. HandshakeTypes
  BY TimeoutAssumption DEF HandshakeInit, HandshakeTypes, Generations, Steps, Conns, HandlerStates, NoHandler
<1>2. \A c \in Conns : Talk(c)
  BY DEF HandshakeInit, Talk, InStage, Unused, AtStep, Current
<1>3. SecondTry
  BY DEF HandshakeInit, SecondTry, Unused, Conns
<1>4. OpenWhile /\ Reasons
  BY DEF HandshakeInit, OpenWhile, Reasons, NoHandler
<1> QED
  BY <1>1, <1>2, <1>3, <1>4 DEF HandshakeInv

(* A connection nobody touches stays at its stage.                          *)
LEMMA TalkStays ==
  ASSUME NEW c \in Conns, Talk(c), UNCHANGED config,
         up'[c] = up[c], down'[c] = down[c], handler'[c] = handler[c],
         Current(c)' => Current(c) /\ step' = step /\ iGen' = iGen,
         step' # "connected" => step # "connected" /\ iGen' = iGen
  PROVE  Talk(c)'
<1>1. PICK g \in iHashes : (step # "connected" => g = iGen) /\ InStage(c, g)
  BY DEF Talk
<1>2. InStage(c, g)'
  BY <1>1 DEF InStage, AtStep, Unused, Opened, KeySent, KeyAnswered, Offered, Selected, PlainSent,
              Answered, Done, At, Method, HelloOf, Agreed, Answer, Negotiated, config
<1> QED
  BY <1>1, <1>2 DEF Talk, config

(* open_connection: the first attempt, or the plaintext one after it.        *)
LEMMA OpenTcpKeeps ==
  ASSUME HandshakeInv, Connect \/ Fallback
  PROVE  HandshakeInv'
<1>a. PICK c \in Conns : c = IF step = "start" THEN 1 ELSE 2
  BY DEF Conns
<1>1. /\ step \in {"start", "fallback"} /\ c \in Conns /\ conn' = c /\ open' = open \cup {c}
      /\ handler' = [handler EXCEPT ![c].at = "prefix"]
      /\ UNCHANGED <<config, iGen, up, down, timeouts>>
      /\ step' = IF Method(c) = "mse" THEN "mse_hello" ELSE "plain_hello"
      /\ (step = "fallback" => conn = 1 /\ iPolicy = "prefer")
  BY <1>a DEF Connect, Fallback, OpenTcp, HandshakeInv, SecondTry, Conns, Method
<1>0. (step = "fallback" <=> c = 2) /\ (step = "start" <=> c = 1) /\ conn = 1
  BY <1>1, <1>a DEF HandshakeInv, SecondTry
<1>2. Unused(c)
  BY <1>0, <1>1 DEF HandshakeInv, SecondTry, Talk, InStage, AtStep, Current
<1>3. HandshakeTypes'
  BY <1>1 DEF HandshakeInv, HandshakeTypes, HandlerStates, Steps, config
<1>4. Talk(c)'
  <2>1. up'[c] = << >> /\ down'[c] = << >> /\ handler'[c].at = "prefix"
        /\ handler'[c].sec = "none" /\ handler'[c].gen = "none" /\ step' # "connected" /\ iGen \in iHashes
    BY <1>1, <1>2 DEF HandshakeInv, HandshakeTypes, Unused, NoHandler, HandlerStates
  <2>2. Opened(c)' /\ AtStep(c, {IF Method(c) = "mse" THEN "mse_hello" ELSE "plain_hello"})'
    <3>1. Opened(c)'
      BY <2>1 DEF Opened, At
    <3>2. Method(c)' = Method(c)
      BY <1>1 DEF Method, config
    <3> QED
      BY <1>1, <3>1, <3>2 DEF AtStep
  <2> QED
    BY <1>1, <2>1, <2>2 DEF Talk, InStage, config
<1>5. ASSUME NEW d \in Conns, d # c PROVE Talk(d)'
  BY <1>1, <1>5, TalkStays DEF HandshakeInv, HandshakeTypes, Current, config
<1>6. SecondTry'
  BY <1>0, <1>1, <1>2 DEF HandshakeInv, HandshakeTypes, SecondTry, Unused, config, Conns
<1>7. OpenWhile'
  BY <1>1 DEF OpenWhile, Current
<1>9. \A d \in Conns : Talk(d)'
  BY <1>1, <1>4, <1>5
<1>8. Reasons'
  BY <1>0, <1>1, <1>2 DEF HandshakeInv, HandshakeTypes, Reasons, Current, Misfit, Method, config
<1> QED
  BY <1>3, <1>6, <1>7, <1>8, <1>9 DEF HandshakeInv

(* The connection cannot be made.                                            *)
LEMMA TcpFailsKeeps ==
  ASSUME HandshakeInv, TcpFails
  PROVE  HandshakeInv'
<1>1. /\ step \in {"start", "fallback"} /\ timeouts' = timeouts + 1 /\ timeouts < MaxTimeouts
      /\ step' \in {"fallback", "refused"}
      /\ step' = (IF step = "start" /\ iPolicy = "prefer" THEN "fallback" ELSE "refused")
      /\ UNCHANGED <<config, iGen, conn, up, down, open, handler>>
  BY DEF TcpFails
<1>2. HandshakeTypes' /\ timeouts' # 0
  BY <1>1, TimeoutAssumption DEF HandshakeInv, HandshakeTypes, Steps, config
<1>3. \A d \in Conns : Talk(d)'
  BY <1>1, TalkStays DEF HandshakeInv, Current, config
<1>4. conn = 1
  BY <1>1 DEF HandshakeInv, SecondTry
<1>5. SecondTry'
  BY <1>1, <1>4 DEF HandshakeInv, SecondTry, Unused, config
<1>6. OpenWhile' /\ Reasons'
  BY <1>1, <1>2 DEF OpenWhile, Current, Reasons
<1> QED
  BY <1>2, <1>3, <1>5, <1>6 DEF HandshakeInv

(* A step of the initiator within an attempt touches its connection only.    *)
LEMMA InitiatorKeeps ==
  ASSUME HandshakeInv, UNCHANGED <<config, conn, open, handler, timeouts>>,
         step \notin {"start", "fallback", "refused", "connected"},
         step' \in Steps \ {"start", "fallback", "refused"},
         iGen' \in iHashes, step' # "connected" => iGen' = iGen,
         up' \in [Conns -> Seq(WireMessages)], down' \in [Conns -> Seq(WireMessages)],
         \A d \in Conns \ {conn} : up'[d] = up[d] /\ down'[d] = down[d],
         Talk(conn)'
  PROVE  HandshakeInv'
<1>1. HandshakeTypes'
  BY DEF HandshakeInv, HandshakeTypes, config
<1>2. ASSUME NEW d \in Conns, d # conn PROVE Talk(d)'
  BY <1>2, TalkStays DEF HandshakeInv, Current
<1>3. SecondTry'
  <2>1. conn \in Conns /\ (conn = 1 => Unused(2)) /\ (conn = 2 => iPolicy = "prefer")
    BY DEF HandshakeInv, HandshakeTypes, SecondTry
  <2>2. conn = 1 => Unused(2)'
    BY <2>1 DEF Unused, Conns
  <2> QED
    BY <2>1, <2>2 DEF SecondTry, config
<1>4. OpenWhile'
  BY DEF HandshakeInv, OpenWhile, Current
<1>5. Reasons'
  BY DEF HandshakeInv, Reasons, Current, Misfit, Method, config
<1>6. conn' \in Conns /\ conn' = conn
  BY DEF HandshakeInv, HandshakeTypes
<1>7. \A d \in Conns : Talk(d)'
  BY <1>2, <1>6
<1> QED
  BY <1>1, <1>3, <1>4, <1>5, <1>7 DEF HandshakeInv

(* The plaintext initiator sends its hello.                                  *)
LEMMA SendPlainHelloKeeps ==
  ASSUME HandshakeInv, SendPlainHello
  PROVE  HandshakeInv'
<1>1. /\ conn \in Conns /\ iGen \in iHashes /\ iGen \in Generations
      /\ up \in [Conns -> Seq(WireMessages)] /\ down \in [Conns -> Seq(WireMessages)]
  BY DEF HandshakeInv, HandshakeTypes
<1>2. /\ step = "plain_hello" /\ step' = "response" /\ up' = [up EXCEPT ![conn] = Append(@, HelloOf(iGen))]
      /\ UNCHANGED <<config, iGen, conn, down, open, handler, timeouts>>
  BY DEF SendPlainHello, Write, OurHello, HelloOf
<1>3. Opened(conn) /\ Method(conn) = "plain"
  BY <1>1, <1>2 DEF HandshakeInv, Talk, InStage, AtStep, Current, Method
<1>4. up'[conn] = <<HelloOf(iGen)>> /\ down'[conn] = << >> /\ up' \in [Conns -> Seq(WireMessages)]
  BY <1>1, <1>2, <1>3, OneMessage, MessageKinds DEF Opened
<1>5. Talk(conn)'
  <2>1. PlainSent(conn, iGen)'
    BY <1>2, <1>3, <1>4 DEF PlainSent, Opened, At, Method, HelloOf, config
  <2> QED
    BY <1>1, <1>2, <2>1 DEF Talk, InStage, AtStep, config
<1> QED
  BY <1>1, <1>2, <1>4, <1>5, InitiatorKeeps DEF Steps

(* The encrypted initiator sends its key.                                    *)
LEMMA SendKeyKeeps ==
  ASSUME HandshakeInv, SendKey
  PROVE  HandshakeInv'
<1>1. /\ conn \in Conns /\ iGen \in iHashes /\ iGen \in Generations
      /\ up \in [Conns -> Seq(WireMessages)] /\ down \in [Conns -> Seq(WireMessages)]
  BY DEF HandshakeInv, HandshakeTypes
<1>2. /\ step = "mse_hello" /\ step' = "mse_key" /\ up' = [up EXCEPT ![conn] = Append(@, Key)]
      /\ UNCHANGED <<config, iGen, conn, down, open, handler, timeouts>>
  BY DEF SendKey, Write
<1>3. Opened(conn) /\ Method(conn) = "mse"
  BY <1>1, <1>2 DEF HandshakeInv, Talk, InStage, AtStep, Current, Method
<1>4. up'[conn] = <<Key>> /\ down'[conn] = << >> /\ up' \in [Conns -> Seq(WireMessages)]
  BY <1>1, <1>2, <1>3, OneMessage, MessageKinds DEF Opened
<1>5. Talk(conn)'
  <2>1. KeySent(conn)'
    BY <1>2, <1>3, <1>4 DEF KeySent, Opened, At, Method, config
  <2> QED
    BY <1>1, <1>2, <2>1 DEF Talk, InStage, AtStep, config
<1> QED
  BY <1>1, <1>2, <1>4, <1>5, InitiatorKeeps DEF Steps

(* With the key of the responder it sends offer and hello.                   *)
LEMMA SendOfferKeeps ==
  ASSUME HandshakeInv, SendOffer
  PROVE  HandshakeInv'
<1>1. /\ conn \in Conns /\ iGen \in iHashes /\ iGen \in Generations
      /\ up \in [Conns -> Seq(WireMessages)] /\ down \in [Conns -> Seq(WireMessages)]
  BY DEF HandshakeInv, HandshakeTypes
<1>2. /\ step = "mse_key" /\ step' = "mse_select" /\ down[conn] # << >>
      /\ up' = [up EXCEPT ![conn] = Append(@, Offer(iGen, HelloOf(iGen)))]
      /\ down' = [down EXCEPT ![conn] = Tail(@)]
      /\ UNCHANGED <<config, iGen, conn, open, handler, timeouts>>
  BY DEF SendOffer, Write, Read, OurHello, HelloOf
<1>3. KeyAnswered(conn)
  BY <1>1, <1>2 DEF HandshakeInv, Talk, InStage, AtStep, Current, KeySent
<1>4. /\ up'[conn] = <<Offer(iGen, HelloOf(iGen))>> /\ up' \in [Conns -> Seq(WireMessages)]
      /\ down'[conn] = << >> /\ down' \in [Conns -> Seq(WireMessages)]
  BY <1>1, <1>2, <1>3, OneMessage, MessageKinds DEF KeyAnswered
<1>5. Talk(conn)'
  <2>1. Offered(conn, iGen)'
    BY <1>2, <1>3, <1>4 DEF Offered, KeyAnswered, At, Method, HelloOf, config
  <2> QED
    BY <1>1, <1>2, <2>1 DEF Talk, InStage, AtStep, config
<1> QED
  BY <1>1, <1>2, <1>4, <1>5, InitiatorKeeps DEF Steps

(* It reads what the responder selected.                                     *)
LEMMA ReadSelectKeeps ==
  ASSUME HandshakeInv, ReadSelect
  PROVE  HandshakeInv'
<1>1. /\ conn \in Conns /\ iGen \in iHashes /\ iGen \in Generations
      /\ up \in [Conns -> Seq(WireMessages)] /\ down \in [Conns -> Seq(WireMessages)]
  BY DEF HandshakeInv, HandshakeTypes
<1>2. /\ step = "mse_select" /\ step' = "response" /\ down[conn] # << >>
      /\ down' = [down EXCEPT ![conn] = Tail(@)]
      /\ UNCHANGED <<config, iGen, conn, up, open, handler, timeouts>>
  BY DEF ReadSelect, Read
<1>3. Selected(conn, iGen, FALSE) \/ Answered(conn, iGen, FALSE)
  BY <1>1, <1>2 DEF HandshakeInv, Talk, InStage, AtStep, Current, Offered
<1>4. down' \in [Conns -> Seq(WireMessages)] /\ down'[conn] = Tail(down[conn])
  BY <1>1, <1>2
<1>5. CASE Selected(conn, iGen, FALSE)
  <2>1. down'[conn] = << >>
    BY <1>4, <1>5, OneMessage DEF Selected
  <2>2. Selected(conn, iGen, TRUE)'
    BY <1>2, <1>5, <2>1 DEF Selected, At, Method, HelloOf, config
  <2>3. Talk(conn)'
    BY <1>1, <1>2, <2>2 DEF Talk, InStage, AtStep, config
  <2> QED
    BY <1>1, <1>2, <1>4, <2>3, InitiatorKeeps DEF Steps
<1>6. CASE Answered(conn, iGen, FALSE)
  <2>1. down'[conn] = <<Answer(iGen)>>
    BY <1>4, <1>6, OneMessage DEF Answered
  <2>2. Answered(conn, iGen, TRUE)'
    BY <1>2, <1>6, <2>1 DEF Answered, At, Method, Answer, Agreed, Negotiated, HelloOf, config
  <2>3. Talk(conn)'
    BY <1>1, <1>2, <2>2 DEF Talk, InStage, AtStep, config
  <2> QED
    BY <1>1, <1>2, <1>4, <2>3, InitiatorKeeps DEF Steps
<1> QED
  BY <1>3, <1>5, <1>6

(* The answer is to the hash asked for, or an upgrade both ends know.        *)
LEMMA AnswerFits ==
  ASSUME HandshakeTypes
  PROVE  Agreed(iGen) = iGen \/ Upgraded(Answer(iGen))
BY MessageKinds DEF HandshakeTypes, Upgraded

(* The answer it reads next.                                                 *)
LEMMA AnswerHead ==
  ASSUME HandshakeInv, step = "response", down[conn] # << >>
  PROVE  Answered(conn, iGen, TRUE) /\ Head(down[conn]) = Answer(iGen)
<1>1. Answered(conn, iGen, TRUE)
  BY DEF HandshakeInv, HandshakeTypes, Talk, InStage, AtStep, Current, Selected, PlainSent
<1> QED
  BY <1>1, OneMessage DEF Answered

(* It accepts the answer: the connection is made.                            *)
LEMMA FinishKeeps ==
  ASSUME HandshakeInv, FinishPeerHandshake
  PROVE  HandshakeInv'
<1>1. /\ conn \in Conns /\ iGen \in iHashes /\ iGen \in Generations
      /\ up \in [Conns -> Seq(WireMessages)] /\ down \in [Conns -> Seq(WireMessages)]
  BY DEF HandshakeInv, HandshakeTypes
<1>2. Answered(conn, iGen, TRUE) /\ Head(down[conn]) = Answer(iGen)
  BY AnswerHead DEF FinishPeerHandshake
<1>3. /\ step = "response" /\ step' = "connected"
      /\ down' = [down EXCEPT ![conn] = Tail(@)]
      /\ Agreed(iGen) = iGen \/ Upgraded(Answer(iGen))
      /\ iGen' = Agreed(iGen)
      /\ UNCHANGED <<config, conn, up, open, handler, timeouts>>
  BY <1>1, <1>2, MessageKinds DEF FinishPeerHandshake
<1>4. /\ down'[conn] = << >> /\ down' \in [Conns -> Seq(WireMessages)]
  BY <1>1, <1>2, <1>3, OneMessage DEF Answered
<1>5. iGen' \in iHashes
  BY <1>1, <1>3, MessageKinds DEF Upgraded
<1>6. Talk(conn)'
  <2>1. PICK g \in iHashes : g = iGen
    BY <1>1
  <2>2. Done(conn, g)' /\ Agreed(g)' = Agreed(g)
    BY <1>1, <1>2, <1>3, <1>4, <2>1 DEF Done, Answered, At, Method, Agreed, Negotiated, HelloOf, config
  <2> QED
    BY <1>3, <2>1, <2>2 DEF Talk, InStage, AtStep, config
<1> QED
  BY <1>1, <1>3, <1>4, <1>5, <1>6, InitiatorKeeps DEF Steps

(* It gives the attempt up, and falls back to plaintext if it prefers only.  *)
LEMMA AttemptOverKeeps ==
  ASSUME HandshakeInv, AttemptFails \/ AttemptTimesOut
  PROVE  HandshakeInv'
<1>1. /\ Awaiting /\ step' = (IF iPolicy = "prefer" /\ conn = 1 THEN "fallback" ELSE "refused")
      /\ open' = open \ {conn} /\ UNCHANGED <<config, iGen, conn, up, down, handler>>
      /\ \/ timeouts' = timeouts /\ AttemptFails
         \/ timeouts < MaxTimeouts /\ timeouts' = timeouts + 1
  BY DEF AttemptFails, AttemptTimesOut, AttemptOver
<1>2. HandshakeTypes'
  BY <1>1, TimeoutAssumption DEF HandshakeInv, HandshakeTypes, Steps, config
<1>3. \A d \in Conns : Talk(d)'
  BY <1>1, TalkStays DEF HandshakeInv, Current, Awaiting, config
<1>4. SecondTry'
  BY <1>1 DEF HandshakeInv, SecondTry, Unused, config
<1>5. OpenWhile'
  BY <1>1 DEF OpenWhile, Current
<1>6. Reasons'
  <2> SUFFICES ASSUME timeouts' = 0 PROVE Reasons'
    BY DEF Reasons
  <2>1. timeouts = 0 /\ AttemptFails /\ conn \in Conns /\ step \notin {"start", "connected", "fallback", "refused"}
    BY <1>1, TimeoutAssumption DEF HandshakeInv, HandshakeTypes, Awaiting
  <2>2. down[conn] = << >> /\ conn \notin open
    <3>1. CASE down[conn] # << >>
      <4>1. step = "response" /\ Head(down[conn]).hash # iGen /\ ~ Upgraded(Head(down[conn]))
        BY <2>1, <3>1 DEF AttemptFails
      <4>2. Head(down[conn]) = Answer(iGen)
        BY <3>1, <4>1, AnswerHead
      <4>3. Answer(iGen).hash = Agreed(iGen)
        BY MessageKinds DEF HandshakeInv, HandshakeTypes
      <4> QED
        BY <4>1, <4>2, <4>3, AnswerFits DEF HandshakeInv
    <3> QED
      BY <2>1, <3>1 DEF AttemptFails
  <2>3. Misfit(conn)
    BY <2>1, <2>2 DEF HandshakeInv, OpenWhile, Reasons, Current
  <2>4. conn = 2 => iGen \notin rHashes \/ rPolicy = "disabled"
    BY <2>1 DEF HandshakeInv, Reasons
  <2>5. step' = "refused" => ~ Compatible
    BY <1>1, <2>1, <2>3, <2>4 DEF Misfit, Method, Compatible, HandshakeInv, HandshakeTypes, SecondTry, Policies, Conns
  <2>6. step' = "fallback" => iGen \notin rHashes \/ rPolicy = "disabled"
    BY <1>1, <2>3 DEF Misfit, Method
  <2>7. iGen \notin rHashes \/ rPolicy = "disabled" \/ step' = "refused"
    BY <1>1, <2>6
  <2>8. /\ step' = "refused" => ~ Compatible'
        /\ step' \in {"fallback", "refused"}
        /\ step' = "fallback" \/ conn' = 2 => iGen' \notin rHashes' \/ rPolicy' = "disabled"
    BY <1>1, <2>4, <2>5, <2>6 DEF Compatible, config
  <2> QED
    BY <2>8 DEF Reasons, Current
<1> QED
  BY <1>2, <1>3, <1>4, <1>5, <1>6 DEF HandshakeInv
--------------------------------------------------------------------------------
(* A step of a handler touches its connection only.                         *)
LEMMA ResponderKeeps ==
  ASSUME HandshakeInv, NEW c \in Conns, UNCHANGED <<config, iGen, step, conn>>,
         timeouts' \in timeouts .. MaxTimeouts,
         up' \in [Conns -> Seq(WireMessages)], down' \in [Conns -> Seq(WireMessages)],
         handler' \in [Conns -> HandlerStates],
         \A d \in Conns \ {c} : up'[d] = up[d] /\ down'[d] = down[d] /\ handler'[d] = handler[d],
         Talk(c)', handler[c].at \notin {"none", "closed"},
         \/ open' = open
         \/ open' = open \ {c} /\ handler'[c].at = "closed",
         timeouts' = 0 /\ Current(c) /\ step # "connected" /\ handler'[c].at = "closed" => Misfit(c)
  PROVE  HandshakeInv'
<1>1. HandshakeTypes'
  BY TimeoutAssumption DEF HandshakeInv, HandshakeTypes, config
<1>2. ASSUME NEW d \in Conns, d # c PROVE Talk(d)'
  BY <1>2, TalkStays DEF HandshakeInv, Current
<1>3. SecondTry'
  <2>1. conn = 1 => Unused(2) /\ c = 1
    BY DEF HandshakeInv, SecondTry, Unused, NoHandler, Conns
  <2>2. conn = 1 => Unused(2)'
    BY <2>1 DEF Unused, Conns
  <2> QED
    BY <2>2 DEF HandshakeInv, SecondTry, config
<1>4. OpenWhile'
  BY DEF HandshakeInv, OpenWhile, Current
<1>5. Reasons'
  <2> SUFFICES ASSUME timeouts' = 0 PROVE Reasons'
    BY DEF Reasons
  <2>1. timeouts = 0
    BY TimeoutAssumption DEF HandshakeInv, HandshakeTypes
  <2>2. \A d \in Conns : Current(d) /\ step # "connected" /\ handler'[d].at = "closed" => Misfit(d)
    BY <2>1 DEF HandshakeInv, Reasons
  <2>3. \A d \in Conns : (Current(d)' <=> Current(d)) /\ (Misfit(d)' <=> Misfit(d))
    BY DEF Current, Misfit, Method, config
  <2>4. Compatible' <=> Compatible
    BY DEF Compatible, config
  <2> QED
    BY <2>1, <2>2, <2>3, <2>4 DEF HandshakeInv, Reasons, config
<1>6. \A d \in Conns : Talk(d)'
  BY <1>2
<1> QED
  BY <1>1, <1>3, <1>4, <1>5, <1>6 DEF HandshakeInv

(* A handler that closes leaves its connection at its stage.                *)
LEMMA CloseKeeps ==
  ASSUME HandshakeInv, NEW c \in Conns, CloseHandler(c), UNCHANGED <<up, down>>,
         timeouts' \in timeouts .. MaxTimeouts, handler[c].at \notin {"none", "closed"},
         timeouts' = 0 /\ Current(c) /\ step # "connected" => Misfit(c)
  PROVE  HandshakeInv'
<1>1. /\ handler' = [handler EXCEPT ![c].at = "closed"] /\ open' = open \ {c}
      /\ UNCHANGED <<config, iGen, step, conn>>
  BY DEF CloseHandler, HandlerStays
<1>2. handler \in [Conns -> HandlerStates]
  BY DEF HandshakeInv, HandshakeTypes
<1>3. /\ handler' \in [Conns -> HandlerStates]
      /\ handler'[c].at = "closed" /\ handler'[c].sec = handler[c].sec /\ handler'[c].gen = handler[c].gen
      /\ \A d \in Conns \ {c} : handler'[d] = handler[d]
  BY <1>1, <1>2 DEF HandlerStates
<1>4. Talk(c)'
  <2>1. PICK g \in iHashes : (step # "connected" => g = iGen) /\ InStage(c, g)
    BY DEF HandshakeInv, Talk
  <2>2. ~ Unused(c)
    BY DEF Unused, NoHandler
  <2>3. InStage(c, g)'
    BY <1>1, <1>3, <2>1, <2>2 DEF InStage, AtStep, Current, Opened, KeySent, KeyAnswered, Offered, Selected,
       PlainSent, Answered, Done, At, Method, HelloOf, Agreed, Answer, Negotiated, config
  <2> QED
    BY <1>1, <2>1, <2>3 DEF Talk, config
<1> QED
  BY <1>1, <1>3, <1>4, ResponderKeeps DEF HandshakeInv, HandshakeTypes

(* The responder tells plaintext from encrypted by the first bytes.          *)
LEMMA ReadPrefixKeeps ==
  ASSUME HandshakeInv, NEW c \in Conns, ReadPrefix(c)
  PROVE  HandshakeInv'
<1>1. /\ handler[c].at = "prefix" /\ up[c] # << >> /\ timeouts' = timeouts
      /\ up \in [Conns -> Seq(WireMessages)] /\ down \in [Conns -> Seq(WireMessages)]
      /\ handler \in [Conns -> HandlerStates] /\ iHashes \subseteq Generations
      /\ timeouts' \in timeouts .. MaxTimeouts
  BY TimeoutAssumption DEF ReadPrefix, HandlerAt, HandshakeInv, HandshakeTypes
<1>2. PICK g \in iHashes : (step # "connected" => g = iGen) /\ InStage(c, g)
  BY DEF HandshakeInv, Talk
<1>3. \/ KeySent(c) /\ AtStep(c, {"mse_key"})
      \/ PlainSent(c, g) /\ AtStep(c, {"response"}) /\ handler[c].sec = "none" /\ handler[c].gen = "none"
  BY <1>1, <1>2 DEF InStage, Unused, Opened, KeyAnswered, Offered, Selected, Answered, PlainSent, Done, At
<1>4. CASE KeySent(c)
  <2>1. up[c] = <<Key>> /\ Head(up[c]) = Key /\ Key.msg = "key"
    BY <1>1, <1>2, <1>4, OneMessage, MessageKinds DEF KeySent
  <2>2. CASE Refused(Key) /\ CloseHandler(c) /\ UNCHANGED <<up, down>>
    BY <1>1, <1>4, <2>1, <2>2, CloseKeeps DEF KeySent, Refused, Misfit
  <2>3. CASE /\ ~ Refused(Key) /\ handler' = [handler EXCEPT ![c].at = "offer"]
             /\ Taken(c) /\ Write(down, c, Key) /\ UNCHANGED open /\ HandlerStays
    <3>1. rPolicy # "disabled"
      BY <2>1, <2>3 DEF Refused
    <3>2. /\ up' = [up EXCEPT ![c] = Tail(@)] /\ down' = [down EXCEPT ![c] = Append(@, Key)]
          /\ UNCHANGED <<config, iGen, step, conn, open>>
      BY <2>3 DEF Taken, Write, HandlerStays
    <3>3. up'[c] = << >> /\ down'[c] = <<Key>>
      BY <1>1, <1>4, <2>1, <3>2, OneMessage DEF KeySent
    <3>4. Key \in WireMessages
      BY DEF WireMessages
    <3>5. up' \in [Conns -> Seq(WireMessages)] /\ down' \in [Conns -> Seq(WireMessages)]
      BY <1>1, <3>2, <3>4
    <3>6. /\ handler' \in [Conns -> HandlerStates] /\ handler'[c].at = "offer"
          /\ handler'[c].sec = handler[c].sec /\ handler'[c].gen = handler[c].gen
      BY <1>1, <2>3 DEF HandlerStates
    <3>7. KeyAnswered(c)'
      BY <1>4, <3>1, <3>2, <3>3, <3>6 DEF KeyAnswered, KeySent, At, Method, config
    <3>8. Talk(c)'
      BY <1>2, <1>3, <1>4, <2>1, <3>2, <3>7, OneMessage, MessageKinds
      DEF Talk, InStage, AtStep, Current, PlainSent, KeySent, config
    <3> QED
      BY <1>1, <2>3, <3>2, <3>5, <3>6, <3>8, ResponderKeeps
  <2> QED
    BY <2>1, <2>2, <2>3 DEF ReadPrefix
<1>5. CASE PlainSent(c, g) /\ AtStep(c, {"response"}) /\ handler[c].sec = "none" /\ handler[c].gen = "none"
  <2>1. up[c] = <<HelloOf(g)>> /\ Head(up[c]) = HelloOf(g) /\ HelloOf(g).msg = "hello"
    BY <1>1, <1>5, OneMessage, MessageKinds DEF PlainSent
  <2>2. CASE Refused(HelloOf(g)) /\ CloseHandler(c) /\ UNCHANGED <<up, down>>
    BY <1>1, <1>5, <2>1, <2>2, CloseKeeps DEF PlainSent, Refused, Misfit
  <2>3. CASE /\ ~ Refused(HelloOf(g))
             /\ handler' = [handler EXCEPT ![c].at = "hello", ![c].sec = "plain"]
             /\ UNCHANGED <<up, down, open>> /\ HandlerStays
    <3>1. rPolicy # "require" /\ UNCHANGED <<config, iGen, step, conn>>
      BY <2>1, <2>3 DEF Refused, HandlerStays
    <3>2. /\ handler' \in [Conns -> HandlerStates] /\ handler'[c].at = "hello"
          /\ handler'[c].sec = "plain" /\ handler'[c].gen = handler[c].gen
          /\ \A d \in Conns \ {c} : handler'[d] = handler[d]
      BY <1>1, <2>3, Zenon DEF HandlerStates
    <3>3. PlainSent(c, g)'
      BY <1>5, <2>3, <3>1, <3>2 DEF PlainSent, At, Method, HelloOf, config
    <3>4. Talk(c)'
      BY <1>2, <1>5, <3>1, <3>3 DEF Talk, InStage, AtStep, Current, config
    <3> QED
      BY <1>1, <2>3, <3>1, <3>2, <3>4, ResponderKeeps
  <2> QED
    BY <2>1, <2>2, <2>3 DEF ReadPrefix
<1> QED
  BY <1>3, <1>4, <1>5

(* It matches the hash of the offer and selects.                             *)
LEMMA ReadOfferKeeps ==
  ASSUME HandshakeInv, NEW c \in Conns, ReadOffer(c)
  PROVE  HandshakeInv'
<1>1. /\ handler[c].at = "offer" /\ up[c] # << >> /\ timeouts' = timeouts
      /\ up \in [Conns -> Seq(WireMessages)] /\ down \in [Conns -> Seq(WireMessages)]
      /\ handler \in [Conns -> HandlerStates] /\ iHashes \subseteq Generations
      /\ timeouts' \in timeouts .. MaxTimeouts
  BY TimeoutAssumption DEF ReadOffer, HandlerAt, HandshakeInv, HandshakeTypes
<1>2. PICK g \in iHashes : (step # "connected" => g = iGen) /\ InStage(c, g)
  BY DEF HandshakeInv, Talk
<1>3. Offered(c, g) /\ AtStep(c, {"mse_select"})
  BY <1>1, <1>2 DEF InStage, Unused, Opened, KeySent, KeyAnswered, Offered, Selected, Answered, PlainSent,
     Done, At, NoHandler
<1>4. /\ up[c] = <<Offer(g, HelloOf(g))>> /\ Head(up[c]) = Offer(g, HelloOf(g))
      /\ Offer(g, HelloOf(g)).hash = g /\ Offer(g, HelloOf(g)).hello = HelloOf(g)
  BY <1>1, <1>3, OneMessage, MessageKinds DEF Offered
<1>5. CASE g \notin rHashes /\ CloseHandler(c) /\ UNCHANGED <<up, down>>
  BY <1>1, <1>2, <1>5, CloseKeeps DEF Misfit
<1>6. CASE /\ g \in rHashes
           /\ handler' = [handler EXCEPT ![c].at = "hello", ![c].sec = "mse"]
           /\ up' = [up EXCEPT ![c] = <<HelloOf(g)>> \o Tail(@)]
           /\ Write(down, c, Select) /\ UNCHANGED open /\ HandlerStays
  <2>1. down' = [down EXCEPT ![c] = Append(@, Select)] /\ UNCHANGED <<config, iGen, step, conn, open>>
    BY <1>6 DEF Write, HandlerStays
  <2>2. up'[c] = <<HelloOf(g)>> /\ down'[c] = <<Select>>
    BY <1>1, <1>3, <1>4, <1>6, <2>1, OneMessage DEF Offered
  <2>3. HelloOf(g) \in WireMessages /\ Select \in WireMessages
    BY <1>1, MessageKinds
  <2>4. up' \in [Conns -> Seq(WireMessages)] /\ down' \in [Conns -> Seq(WireMessages)]
    BY <1>1, <1>6, <2>1, <2>2, <2>3
  <2>5. /\ handler' \in [Conns -> HandlerStates] /\ handler'[c].at = "hello"
        /\ handler'[c].sec = "mse" /\ handler'[c].gen = handler[c].gen
        /\ \A d \in Conns \ {c} : handler'[d] = handler[d]
    BY <1>1, <1>6, Zenon DEF HandlerStates
  <2>6. Selected(c, g, FALSE)'
    BY <1>3, <1>6, <2>1, <2>2, <2>5 DEF Selected, Offered, At, Method, HelloOf, config
  <2>7. Talk(c)'
    BY <1>2, <1>3, <2>1, <2>6 DEF Talk, InStage, AtStep, Current, config
  <2> QED
    BY <1>1, <1>6, <2>1, <2>4, <2>5, <2>7, ResponderKeeps
<1> QED
  BY <1>4, <1>5, <1>6 DEF ReadOffer

(* It reads the hello, and answers or refuses it.                            *)
LEMMA ReadHelloKeeps ==
  ASSUME HandshakeInv, NEW c \in Conns, ReadHello(c)
  PROVE  HandshakeInv'
<1>1. /\ handler[c].at = "hello" /\ up[c] # << >> /\ timeouts' = timeouts
      /\ up \in [Conns -> Seq(WireMessages)] /\ down \in [Conns -> Seq(WireMessages)]
      /\ handler \in [Conns -> HandlerStates] /\ iHashes \subseteq Generations
      /\ timeouts' \in timeouts .. MaxTimeouts
  BY TimeoutAssumption DEF ReadHello, HandlerAt, HandshakeInv, HandshakeTypes
<1>2. PICK g \in iHashes : (step # "connected" => g = iGen) /\ InStage(c, g)
  BY DEF HandshakeInv, Talk
<1> DEFINE from(taken) == /\ Selected(c, g, taken)
                          /\ AtStep(c, {IF taken THEN "response" ELSE "mse_select"})
           plain == PlainSent(c, g) /\ AtStep(c, {"response"}) /\ rPolicy # "require"
<1>3. from(TRUE) \/ from(FALSE) \/ (plain /\ handler[c].sec = "plain" /\ handler[c].gen = "none")
  BY <1>1, <1>2 DEF InStage, Unused, Opened, KeySent, KeyAnswered, Offered, Selected, Answered, PlainSent,
     Done, At, NoHandler
<1>4. /\ up[c] = <<HelloOf(g)>> /\ Head(up[c]) = HelloOf(g) /\ HelloOf(g).hash = g
      /\ Negotiated(HelloOf(g)) = Agreed(g) /\ Answer(g) \in WireMessages /\ Agreed(g) \in Generations
  <2>1. up[c] = <<HelloOf(g)>>
    BY <1>3 DEF Selected, PlainSent
  <2>2. HelloOf(g).hash = g /\ Answer(g) \in WireMessages /\ Agreed(g) \in Generations
    BY <1>1, MessageKinds DEF Generations
  <2>3. Negotiated(HelloOf(g)) = Agreed(g)
    BY DEF Agreed
  <2> QED
    BY <2>1, <2>2, <2>3, OneMessage
<1>5. CASE g \notin rHashes /\ CloseHandler(c) /\ UNCHANGED <<up, down>>
  BY <1>1, <1>2, <1>5, CloseKeeps DEF Misfit
<1>6. CASE /\ g \in rHashes
           /\ handler' = [handler EXCEPT ![c].at = "serving", ![c].gen = Agreed(g)]
           /\ Taken(c) /\ Write(down, c, Answer(g)) /\ UNCHANGED open /\ HandlerStays
  <2>1. /\ up' = [up EXCEPT ![c] = Tail(@)] /\ down' = [down EXCEPT ![c] = Append(@, Answer(g))]
        /\ UNCHANGED <<config, iGen, step, conn, open>>
    BY <1>6 DEF Taken, Write, HandlerStays
  <2>2. up'[c] = << >> /\ up' \in [Conns -> Seq(WireMessages)] /\ down' \in [Conns -> Seq(WireMessages)]
    BY <1>1, <1>4, <2>1, OneMessage
  <2>3. /\ handler' \in [Conns -> HandlerStates] /\ handler'[c].at = "serving"
        /\ handler'[c].sec = handler[c].sec /\ handler'[c].gen = Agreed(g)
        /\ \A d \in Conns \ {c} : handler'[d] = handler[d]
    BY <1>1, <1>4, <1>6, Zenon DEF HandlerStates
  <2>4. ASSUME from(FALSE) PROVE Talk(c)'
    <3>1. down'[c] = <<Select, Answer(g)>>
      BY <1>1, <2>1, <2>4, OneMessage DEF Selected
    <3>2. Answered(c, g, FALSE)'
      BY <1>6, <2>1, <2>2, <2>3, <2>4, <3>1
      DEF Answered, Selected, At, Method, Answer, Agreed, Negotiated, HelloOf, config
    <3> QED
      BY <1>2, <2>1, <2>4, <3>2 DEF Talk, InStage, AtStep, Current, config
  <2>5. ASSUME from(TRUE) \/ plain PROVE Talk(c)'
    <3>1. down'[c] = <<Answer(g)>>
      BY <1>1, <2>1, <2>5, OneMessage DEF Selected, PlainSent
    <3>2. Answered(c, g, TRUE)'
      BY <1>1, <1>3, <1>6, <2>1, <2>2, <2>3, <2>5, <3>1
      DEF Answered, Selected, PlainSent, At, Method, Answer, Agreed, Negotiated, HelloOf, config
    <3> QED
      BY <1>2, <2>1, <2>5, <3>2 DEF Talk, InStage, AtStep, Current, config
  <2>6. Talk(c)'
    BY <1>3, <2>4, <2>5
  <2> QED
    BY <1>1, <1>6, <2>1, <2>2, <2>3, <2>6, ResponderKeeps
<1>7. Answer(g) = Hello(Agreed(g), "v2" \in rHashes)
  BY DEF Answer
<1> QED
  BY <1>4, <1>5, <1>6, <1>7 DEF ReadHello

(* Every step of either end keeps the invariant.                             *)
LEMMA HandshakeInvNext ==
  ASSUME HandshakeInv, [HandshakeNext]_handshakeVars
  PROVE  HandshakeInv'
<1>1. ASSUME NEW c \in Conns, HandlerSeesEnd(c) PROVE HandshakeInv'
  <2>1. /\ handler[c].at \notin {"none", "closed"} /\ c \notin open /\ timeouts' = timeouts
        /\ timeouts' \in timeouts .. MaxTimeouts /\ CloseHandler(c) /\ UNCHANGED <<up, down>>
    BY <1>1, TimeoutAssumption DEF HandlerSeesEnd, Busy, HandshakeInv, HandshakeTypes
  <2>2. ~ (Current(c) /\ step # "start")
    BY <2>1 DEF HandshakeInv, OpenWhile
  <2>3. Current(c) => step # "start"
    BY <2>1 DEF HandshakeInv, Talk, InStage, AtStep, Unused, NoHandler, Opened, KeySent, KeyAnswered, Offered,
       Selected, Answered, PlainSent, Done
  <2> QED
    BY <2>1, <2>2, <2>3, CloseKeeps
<1>2. ASSUME NEW c \in Conns, HandlerGivesUp(c) PROVE HandshakeInv'
  <2>1. /\ handler[c].at \notin {"none", "closed"} /\ timeouts' # 0
        /\ timeouts' \in timeouts .. MaxTimeouts /\ CloseHandler(c) /\ UNCHANGED <<up, down>>
    BY <1>2, TimeoutAssumption DEF HandlerGivesUp, Busy, HandshakeInv, HandshakeTypes
  <2> QED
    BY <2>1, CloseKeeps
<1>3. CASE UNCHANGED handshakeVars
  <2>1. \A c \in Conns : Talk(c)'
    BY <1>3, TalkStays DEF HandshakeInv, handshakeVars, config, Current
  <2>2. HandshakeTypes' /\ SecondTry' /\ OpenWhile' /\ Reasons'
    BY <1>3 DEF HandshakeInv, handshakeVars, HandshakeTypes, SecondTry, Unused, OpenWhile, Reasons, Current,
       Misfit, Method, Compatible
  <2> QED
    BY <2>1, <2>2 DEF HandshakeInv
<1> QED
  BY <1>1, <1>2, <1>3, OpenTcpKeeps, TcpFailsKeeps, SendPlainHelloKeeps, SendKeyKeeps, SendOfferKeeps,
     ReadSelectKeeps, FinishKeeps, AttemptOverKeeps, ReadPrefixKeeps, ReadOfferKeeps, ReadHelloKeeps
  DEF HandshakeNext

(* Each stage has its messages under way and no more: two up and three down  *)
(* at most.                                                                  *)
LEMMA HandshakeInvTypes == HandshakeInv => HandshakeTypeOK
<1> SUFFICES ASSUME HandshakeInv PROVE HandshakeTypeOK
  OBVIOUS
<1>1. \A x, y : Len(<< >>) = 0 /\ Len(<<x>>) = 1 /\ Len(<<x, y>>) = 2
  OBVIOUS
<1>2. ASSUME NEW c \in Conns PROVE Len(up[c]) <= 2 /\ Len(down[c]) <= 3
  <2>1. PICK g \in iHashes : InStage(c, g)
    BY DEF HandshakeInv, Talk
  <2>2. up[c] = << >> \/ \E x : up[c] = <<x>>
    BY <2>1 DEF InStage, Unused, Opened, KeySent, KeyAnswered, Offered, Selected, Answered, PlainSent, Done
  <2>3. down[c] = << >> \/ (\E x : down[c] = <<x>>) \/ \E x, y : down[c] = <<x, y>>
    BY <2>1 DEF InStage, Unused, Opened, KeySent, KeyAnswered, Offered, Selected, Answered, PlainSent, Done
  <2>4. Len(up[c]) \in {0, 1} /\ Len(down[c]) \in {0, 1, 2}
    BY <1>1, <2>2, <2>3, Zenon
  <2>5. (\A n \in {0, 1} : n <= 2) /\ \A n \in {0, 1, 2} : n <= 3
    OBVIOUS
  <2> QED
    BY <2>4, <2>5, Zenon
<1> QED
  BY <1>2 DEF HandshakeInv, HandshakeTypes, HandshakeTypeOK

(* The types of the handshake; no direction ever holds more than an answer   *)
(* after a selection.                                                        *)
THEOREM HandshakeTypesHold == HandshakeSpec => []HandshakeTypeOK
BY HandshakeInvTypes, HandshakeInvInit, HandshakeInvNext, PTL DEF HandshakeSpec

(* Two ends that both take the connection for made agree on the generation   *)
(* and on encryption; a policy is never violated; and two that could talk    *)
(* to each other fail only over a wait that timed out, whichever attempt     *)
(* they were at and however the messages crossed.                            *)
THEOREM HandshakesAreSound == HandshakeSpec => []HandshakeSound
<1>1. HandshakeInv => HandshakeSound
  <2> SUFFICES ASSUME HandshakeInv PROVE HandshakeSound
    OBVIOUS
  <2>1. ASSUME step = "connected"
        PROVE  iGen \in rHashes /\ handler[conn].sec = Security /\ handler[conn].gen = iGen
    <3>1. conn \in Conns /\ iHashes \subseteq Generations
      BY DEF HandshakeInv, HandshakeTypes
    <3>2. PICK g \in iHashes : Done(conn, g) /\ iGen = Agreed(g)
      BY <2>1, <3>1 DEF HandshakeInv, Talk, InStage, AtStep, Current
    <3>3. Agreed(g) \in rHashes
      BY <3>1, <3>2, MessageKinds DEF Done
    <3> QED
      BY <3>2, <3>3 DEF Done, At, Security, Method
  <2>2. ASSUME NEW c \in Conns, handler[c].at = "serving"
        PROVE  /\ handler[c].sec = "mse" => "disabled" \notin {iPolicy, rPolicy}
               /\ handler[c].sec = "plain" => "require" \notin {iPolicy, rPolicy}
    <3>0. PICK g \in iHashes : InStage(c, g)
      BY DEF HandshakeInv, Talk
    <3>1. Answered(c, g, TRUE) \/ Answered(c, g, FALSE) \/ Done(c, g)
      <4>1. ~ Unused(c) /\ ~ Opened(c) /\ ~ KeySent(c) /\ ~ KeyAnswered(c) /\ ~ Offered(c, g)
        BY <2>2 DEF Unused, NoHandler, Opened, KeySent, KeyAnswered, Offered, At
      <4>2. ~ PlainSent(c, g) /\ \A taken \in BOOLEAN : ~ Selected(c, g, taken)
        BY <2>2 DEF PlainSent, Selected, At
      <4> QED
        BY <3>0, <4>1, <4>2 DEF InStage
    <3>2. c = 2 => iPolicy = "prefer"
      BY <2>2 DEF HandshakeInv, HandshakeTypes, SecondTry, Unused, NoHandler, Conns
    <3> QED
      BY <3>1, <3>2 DEF Answered, Done, At, Method, Conns
  <2>3. NoNeedlessRefusal
    BY DEF HandshakeInv, Reasons, NoNeedlessRefusal
  <2> QED
    BY <2>1, <2>2, <2>3 DEF HandshakeSound, HandshakeAgreement
<1> QED
  BY <1>1, HandshakeInvInit, HandshakeInvNext, PTL DEF HandshakeSpec
--------------------------------------------------------------------------------
(* What a stream carries: the length prefix or the body of a message.        *)
Parts == [part : {"length", "body"}, of : Messages]

(* The types, with that of the stream; only a read timed out inside a body   *)
(* leaves the reader out of step, and only a request is held back.           *)
WireTypes ==
  /\ WireTypeOK
  /\ stream \in Seq(Parts)
  /\ cut \in BOOLEAN /\ skewed = cut
  /\ reader = "held" => pending \in Request

(* A length prefix after which a body follows.                               *)
Opens(p) == p.part = "length" /\ HasBody(p.of)

(* The bytes on their way are whole frames, but for the one the remote end   *)
(* is writing: each prefix of a message with a body is followed by its       *)
(* body, and everything else by a prefix.                                    *)
FramesWhole ==
  \A i \in 1 .. Len(stream) :
    /\ i < Len(stream) => IF Opens(stream[i])
                          THEN stream[i + 1] = [part |-> "body", of |-> stream[i].of]
                          ELSE stream[i + 1].part = "length"
    /\ i = Len(stream) => partial = IF Opens(stream[i]) THEN stream[i].of ELSE NoKey

(* The next bytes are the body of the message whose prefix was read.         *)
BodyNext ==
  /\ pending \in Messages
  /\ stream = << >> => partial = pending
  /\ stream # << >> => stream[1] = [part |-> "body", of |-> pending]

(* The next bytes are a length prefix.                                       *)
LengthNext ==
  /\ stream = << >> => partial = NoKey
  /\ stream # << >> => stream[1].part = "length"

(* Until a read is cut inside a body, the reader waits for what comes next.  *)
Aligned ==
  ~ cut => /\ reader = "body" => BodyNext
           /\ reader \in {"top", "length", "held"} => LengthNext

(* The upload worker has a block in hand.                                    *)
Serving == worker \in {"reading", "throttled", "sending"}

(* The block waits in the upload queue.                                      *)
Queued(k) == \E i \in 1 .. Len(queue) : queue[i] = k

(* A block of _active_upload_request_keys is queued or in the hand of the    *)
(* worker, and is owed to the peer unless it is the one being drained.       *)
Uploads ==
  /\ Serving => served \in Keys
  /\ \A k \in active : /\ Queued(k) \/ (Serving /\ served = k)
                       /\ fate[k] \in {"accepted", "again"} \/ (worker = "sending" /\ served = k)

(* The inductive invariant of the wire.                                      *)
WireInv == WireTypes /\ FramesWhole /\ Aligned /\ Uploads

(* The absent message is none of the messages.                               *)
LEMMA NoKeyIsNoMessage == NoKey \notin Messages
BY DEF NoKey, Messages, Request, Cancel, KeepAlive, Oversize, Other

(* A fresh connection has an empty stream and an empty upload queue.         *)
LEMMA WireInvInit == WireInit => WireInv
<1> SUFFICES ASSUME WireInit PROVE WireInv
  OBVIOUS
<1>1. WireTypeOK
  BY WireAssumption DEF WireInit, WireTypeOK, Fates
<1>4. WireTypes
  <2>1. stream \in Seq(Parts) /\ reader # "held"
    BY DEF WireInit
  <2>2. cut \in BOOLEAN /\ skewed = cut
    BY Zenon DEF WireInit
  <2> QED
    BY <1>1, <2>1, <2>2 DEF WireTypes
<1>2. FramesWhole /\ Aligned
  BY DEF WireInit, FramesWhole, Aligned, LengthNext
<1>3. Uploads
  BY DEF WireInit, Uploads, Serving
<1> QED
  BY <1>2, <1>3, <1>4 DEF WireInv

(* Uploads and the upload queue's types, which the remote end and the reader leave alone *)
UploadTypes ==
  /\ active \subseteq Keys /\ queue \in Seq(Keys) /\ Len(queue) <= QueueLimit
  /\ worker \in {"none", "get", "reading", "throttled", "sending"}
  /\ served \in Keys \cup {NoKey}
  /\ fate \in [Keys -> Fates]

UploadInv == UploadTypes /\ Uploads

(* _queue_upload_request: refused, or appended and owed.                     *)
LEMMA QueueUploadKeeps ==
  ASSUME UploadInv, NEW k \in Keys, QueueUpload(k)
  PROVE  UploadInv'
<1> USE WireAssumption DEF UploadInv, UploadTypes
<1>1. CASE UNCHANGED uploadVars
  BY <1>1 DEF uploadVars, Uploads, Serving, Queued
<1>2. CASE Accepts(k)
  <2>1. /\ active' = active \cup {k}
        /\ queue' = Append(queue, k)
        /\ worker' = IF worker = "none" THEN "get" ELSE worker
        /\ fate' = [fate EXCEPT ![k] = IF Again(k) THEN "again" ELSE "accepted"]
        /\ served' = served /\ k \notin active /\ Len(queue) < QueueLimit
    BY <1>2 DEF QueueUpload, Accepts
  <2>2. UploadTypes'
    BY <2>1 DEF Fates
  <2>3. \A j \in Keys : Queued(j) \/ j = k => Queued(j)'
    BY <2>1 DEF Queued
  <2>4. Uploads'
    BY <2>1, <2>3 DEF Uploads, Serving
  <2> QED
    BY <2>2, <2>4
<1> QED
  BY <1>1, <1>2 DEF QueueUpload

(* CANCEL drops the key; its queue item stays for the worker to discard.     *)
LEMMA CancelUploadKeeps ==
  ASSUME UploadInv, NEW k \in Keys, CancelUpload(k)
  PROVE  UploadInv'
BY DEF UploadInv, UploadTypes, Uploads, CancelUpload, Serving, Queued, Fates

(* Handling a message touches the uploads through those two only.            *)
LEMMA HandleKeeps ==
  ASSUME UploadInv, NEW m \in Messages, Handle(m)
  PROVE  UploadInv'
<1>1. m.msg = "request" \/ m.msg = "cancel" => m.key \in Keys
  BY DEF Messages, Request, Cancel, KeepAlive, Oversize, Other
<1>2. CASE UNCHANGED uploadVars
  BY <1>2 DEF uploadVars, UploadInv, UploadTypes, Uploads, Serving, Queued
<1> QED
  BY <1>1, <1>2, QueueUploadKeeps, CancelUploadKeeps DEF Handle

(* What the reader and the remote end keep: the framing. *)
StreamTypes ==
  /\ stream \in Seq(Parts) /\ partial \in Messages \cup {NoKey}
  /\ reader \in {"top", "length", "body", "held", "end", "closed"}
  /\ pending \in Messages \cup {NoKey}
  /\ cut \in BOOLEAN /\ skewed = cut
  /\ reader = "held" => pending \in Request
StreamInv == StreamTypes /\ FramesWhole /\ Aligned

(* The remote end begins a frame.                                            *)
LEMMA SendFrameKeeps ==
  ASSUME StreamInv, NEW m \in Messages, SendFrame(m)
  PROVE  StreamInv'
<1> DEFINE p == [part |-> "length", of |-> m]
<1>1. /\ stream' = Append(stream, p) /\ partial = NoKey
      /\ partial' = IF Opens(p) THEN m ELSE NoKey
      /\ UNCHANGED <<reader, pending, cut, skewed>> /\ p \in Parts
  BY DEF SendFrame, Opens, readerVars, Parts
<1>2. p.of = m /\ p.part = "length"
  OBVIOUS
<1> HIDE DEF p
<1>3. StreamTypes'
  BY <1>1 DEF StreamInv, StreamTypes
<1>4. FramesWhole'
  <2> SUFFICES ASSUME NEW i \in 1 .. Len(stream')
      PROVE /\ i < Len(stream') => IF Opens(stream'[i])
                          THEN stream'[i + 1] = [part |-> "body", of |-> stream'[i].of]
                          ELSE stream'[i + 1].part = "length"
            /\ i = Len(stream') => partial' = IF Opens(stream'[i]) THEN stream'[i].of ELSE NoKey
    BY DEF FramesWhole, Opens
  <2>1. Len(stream') = Len(stream) + 1 /\ stream'[Len(stream')] = p /\ stream \in Seq(Parts)
    BY <1>1 DEF StreamInv, StreamTypes
  <2>2. \A j \in 1 .. Len(stream) : stream'[j] = stream[j] /\ stream[j] \in Parts
    BY <1>1 DEF StreamInv, StreamTypes
  <2>3. \A j \in 1 .. Len(stream) : stream[j].of # NoKey
    BY <2>2, NoKeyIsNoMessage DEF Parts
  <2>4. CASE i = Len(stream')
    BY <2>1, <2>4, <1>1, <1>2
  <2>5. CASE i < Len(stream)
    <3>1. /\ i \in 1 .. Len(stream) /\ i + 1 \in 1 .. Len(stream) /\ i # Len(stream')
          /\ i + 1 <= Len(stream)
      BY <2>1, <2>5, LenProperties
    <3>2. stream'[i] = stream[i] /\ stream'[i + 1] = stream[i + 1]
      BY <2>2, <3>1
    <3> QED
      BY <2>5, <3>1, <3>2 DEF StreamInv, FramesWhole
  <2>6. CASE i = Len(stream)
    <3>1. /\ i \in 1 .. Len(stream) /\ i + 1 = Len(stream') /\ i # Len(stream')
          /\ stream'[i] = stream[i] /\ stream'[i + 1] = p /\ stream[i].of # NoKey
      BY <2>1, <2>2, <2>3, <2>6, LenProperties
    <3>2. ~ Opens(stream[i])
      BY <2>6, <3>1, <1>1 DEF StreamInv, FramesWhole
    <3> QED
      BY <1>2, <3>1, <3>2
  <2> QED
    BY <2>1, <2>4, <2>5, <2>6
<1>5. Aligned'
  BY <1>1, <1>2, NoKeyIsNoMessage DEF StreamInv, StreamTypes, Aligned, BodyNext, LengthNext
<1> QED
  BY <1>3, <1>4, <1>5 DEF StreamInv

(* The remote end ends the frame it began.                                   *)
LEMMA SendBodyKeeps ==
  ASSUME StreamInv, SendBody
  PROVE  StreamInv'
<1> DEFINE p == [part |-> "body", of |-> partial]
<1>1. /\ stream' = Append(stream, p) /\ partial \in Messages /\ partial' = NoKey
      /\ UNCHANGED <<reader, pending, cut, skewed>> /\ p \in Parts
  BY DEF SendBody, readerVars, Parts, StreamInv, StreamTypes
<1>2. p.of = partial /\ p.part = "body" /\ ~ Opens(p)
  BY DEF Opens
<1>3. partial # NoKey
  BY <1>1, NoKeyIsNoMessage
<1>4. StreamTypes'
  BY <1>1 DEF StreamInv, StreamTypes
<1>5. FramesWhole'
  <2> SUFFICES ASSUME NEW i \in 1 .. Len(stream')
      PROVE /\ i < Len(stream') => IF Opens(stream'[i])
                          THEN stream'[i + 1] = [part |-> "body", of |-> stream'[i].of]
                          ELSE stream'[i + 1].part = "length"
            /\ i = Len(stream') => partial' = IF Opens(stream'[i]) THEN stream'[i].of ELSE NoKey
    BY DEF FramesWhole, Opens
  <2>1. Len(stream') = Len(stream) + 1 /\ stream'[Len(stream')] = p /\ stream \in Seq(Parts)
    BY <1>1 DEF StreamInv, StreamTypes
  <2>2. \A j \in 1 .. Len(stream) : stream'[j] = stream[j]
    BY <1>1 DEF StreamInv, StreamTypes
  <2> QED
    BY <2>1, <2>2, <1>1, <1>2, <1>3 DEF StreamInv, FramesWhole
<1> HIDE DEF p
<1>6. Aligned'
  BY <1>1, <1>2, <1>3 DEF StreamInv, StreamTypes, Aligned, BodyNext, LengthNext, p
<1> QED
  BY <1>4, <1>5, <1>6 DEF StreamInv

(* Taking the head keeps the rest whole, and says what comes next *)
LEMMA ConsumeKeeps ==
  ASSUME StreamInv, stream # << >>, Consume
  PROVE  /\ stream' \in Seq(Parts) /\ partial' = partial /\ FramesWhole'
         /\ NextPart \in Parts
         /\ IF Opens(NextPart)
            THEN /\ stream' = << >> => partial' = NextPart.of
                 /\ stream' # << >> => stream'[1] = [part |-> "body", of |-> NextPart.of]
            ELSE LengthNext'
<1>1. /\ stream' = Tail(stream) /\ partial' = partial
      /\ stream \in Seq(Parts) /\ NextPart = stream[1]
  BY DEF Consume, StreamInv, StreamTypes, NextPart
<1>2. /\ stream' \in Seq(Parts) /\ Len(stream') = Len(stream) - 1 /\ Len(stream) \in Nat
      /\ \A i \in 1 .. Len(stream') : stream'[i] = stream[i + 1]
      /\ stream' = << >> <=> Len(stream) = 1
      /\ NextPart \in Parts /\ Len(stream) >= 1
  <2>1. Len(stream) \in Nat /\ Len(stream) >= 1
    BY <1>1, EmptySeq
  <2>2. /\ stream' \in Seq(Parts) /\ Len(stream') = Len(stream) - 1
        /\ \A i \in 1 .. Len(stream') : stream'[i] = stream[i + 1]
    BY <1>1, HeadTailProperties
  <2>3. stream' = << >> <=> Len(stream') = 0
    BY <2>2, EmptySeq
  <2>4. NextPart \in Parts
    BY <1>1, <2>1, ElementOfSeq
  <2> QED
    BY <2>1, <2>2, <2>3, <2>4
<1>3. FramesWhole'
  <2> SUFFICES ASSUME NEW i \in 1 .. Len(stream')
      PROVE /\ i < Len(stream') => IF Opens(stream'[i])
                          THEN stream'[i + 1] = [part |-> "body", of |-> stream'[i].of]
                          ELSE stream'[i + 1].part = "length"
            /\ i = Len(stream') => partial' = IF Opens(stream'[i]) THEN stream'[i].of ELSE NoKey
    BY DEF FramesWhole, Opens
  <2>1. /\ i + 1 \in 1 .. Len(stream) /\ stream'[i] = stream[i + 1]
        /\ i < Len(stream') => i + 1 < Len(stream) /\ stream'[i + 1] = stream[(i + 1) + 1]
        /\ i = Len(stream') => i + 1 = Len(stream)
    BY <1>2
  <2> QED
    BY <1>1, <2>1 DEF StreamInv, FramesWhole
<1>4. /\ 1 < Len(stream) => IF Opens(stream[1])
                          THEN stream[2] = [part |-> "body", of |-> stream[1].of]
                          ELSE stream[2].part = "length"
      /\ 1 = Len(stream) => partial = IF Opens(stream[1]) THEN stream[1].of ELSE NoKey
  BY <1>2 DEF StreamInv, FramesWhole
<1>5. stream' # << >> => stream'[1] = stream[2] /\ 1 < Len(stream)
  BY <1>2
<1> QED
  BY <1>1, <1>2, <1>3, <1>4, <1>5 DEF LengthNext

(* readexactly(4): the body comes next when the message has one.             *)
LEMMA ReadLengthKeeps ==
  ASSUME StreamInv, ReadLength
  PROVE  StreamInv'
<1>1. /\ stream # << >> /\ Consume /\ NextPart.part = "length" /\ reader = "length"
      /\ UNCHANGED <<cut, skewed>>
  BY DEF ReadLength, InStep
<1> USE ConsumeKeeps, <1>1
<1>2. CASE NextPart.of = KeepAlive /\ reader' = "top" /\ UNCHANGED <<pending, live>>
  BY <1>2 DEF StreamInv, StreamTypes, Aligned, Opens, HasBody
<1>3. CASE reader' = "end" /\ UNCHANGED pending
  BY <1>3 DEF StreamInv, StreamTypes, Aligned
<1>4. CASE NextPart.of \notin {KeepAlive, Oversize} /\ reader' = "body" /\ pending' = NextPart.of
  <2>1. NextPart.of \in Messages /\ Opens(NextPart)
    BY <1>4 DEF Opens, HasBody, Parts
  <2> QED
    BY <1>4, <2>1 DEF StreamInv, StreamTypes, Aligned, BodyNext
<1> QED
  BY <1>2, <1>3, <1>4 DEF ReadLength

(* readexactly(length): a prefix comes next.                                 *)
LEMMA ReadBodyKeeps ==
  ASSUME StreamInv, ReadBody
  PROVE  StreamInv'
<1>1. /\ stream # << >> /\ Consume /\ NextPart.part = "body" /\ reader = "body"
      /\ UNCHANGED <<cut, skewed>> /\ ~ Opens(NextPart)
  BY DEF ReadBody, InStep, Opens
<1>2. NextPart.of \in Messages
  BY <1>1, ConsumeKeeps DEF Parts
<1>3. \/ reader' = "held" /\ pending' = NextPart.of /\ NextPart.of.msg = "request"
      \/ reader' = "top" /\ pending' = NoKey
  BY DEF ReadBody
<1>4. \A m \in Messages : m.msg = "request" => m \in Request
  BY DEF Messages, Request, Cancel, KeepAlive, Oversize, Other
<1> QED
  BY <1>1, <1>2, <1>3, <1>4, ConsumeKeeps DEF StreamInv, StreamTypes, Aligned

(* Steps that leave the stream and the reader alone keep the framing.        *)
LEMMA StreamStays ==
  ASSUME StreamInv, UNCHANGED <<stream, partial, reader, pending, cut, skewed>>
  PROVE  StreamInv'
BY DEF StreamInv, StreamTypes, FramesWhole, Aligned, BodyNext, LengthNext, Opens

(* The message loop begins a read, goes on after a held request, or times    *)
(* out: it consumes nothing.                                                 *)
LEMMA ReaderMovesKeeps ==
  ASSUME StreamInv, BeginRead \/ ReleaseHeld \/ ReadTimesOut \/ InboundTimesOut
  PROVE  StreamInv'
<1>1. UNCHANGED <<stream, partial>> /\ FramesWhole'
  BY DEF BeginRead, ReleaseHeld, ReadTimesOut, InboundTimesOut, remoteVars, StreamInv, FramesWhole, Opens
<1>2. CASE BeginRead
  BY <1>1, <1>2 DEF BeginRead, StreamInv, StreamTypes, Aligned, LengthNext
<1>3. CASE ReleaseHeld
  BY <1>1, <1>3 DEF ReleaseHeld, StreamInv, StreamTypes, Aligned, LengthNext
<1>4. CASE ReadTimesOut
  <2>1. cut' = (cut \/ reader = "body") /\ skewed' = cut' /\ cut' \in BOOLEAN
    BY <1>4 DEF ReadTimesOut, StreamInv, StreamTypes
  <2>2. StreamTypes'
    BY <1>1, <1>4, <2>1 DEF ReadTimesOut, StreamInv, StreamTypes
  <2>3. Aligned'
    BY <1>1, <1>4, <2>1 DEF ReadTimesOut, StreamInv, StreamTypes, Aligned, LengthNext
  <2> QED
    BY <1>1, <2>2, <2>3 DEF StreamInv
<1>5. CASE InboundTimesOut
  BY <1>1, <1>5 DEF InboundTimesOut, StreamInv, StreamTypes, Aligned
<1> QED
  BY <1>2, <1>3, <1>4, <1>5

(* A reader out of step promises nothing, and stays out of step.             *)
LEMMA ReadSkewedKeeps ==
  ASSUME StreamInv, ReadSkewed
  PROVE  StreamInv'
<1>1. /\ stream # << >> /\ Consume /\ skewed /\ UNCHANGED <<cut, skewed>>
      /\ reader' \in {"end", "top"} /\ pending' = NoKey
  BY DEF ReadSkewed
<1> QED
  BY <1>1, ConsumeKeeps DEF StreamInv, StreamTypes, Aligned

(* The loop ends with its connection.                                        *)
LEMMA LoopEndsKeeps ==
  ASSUME StreamInv, LoopEnds
  PROVE  StreamInv'
BY DEF LoopEnds, StreamInv, StreamTypes, FramesWhole, Aligned
--------------------------------------------------------------------------------
(* Steps that leave the upload side alone.                                   *)
LEMMA UploadStays ==
  ASSUME UploadInv, UNCHANGED uploadVars
  PROVE  UploadInv'
BY DEF uploadVars, UploadInv, UploadTypes, Uploads, Serving, Queued

(* task_done after a block, sent or dropped, is given up.                    *)
LEMMA ItemDoneKeeps ==
  ASSUME UploadInv, NEW k, ItemDone(k), UNCHANGED queue, worker = "get" \/ (Serving /\ served = k),
         \A j \in Keys : fate'[j] = fate[j] \/ j = k, fate' \in [Keys -> Fates]
  PROVE  UploadInv'
<1>1. active' = active \ {k} /\ served' = NoKey /\ worker' \in {"get", "none"}
  BY DEF ItemDone
<1> QED
  BY <1>1 DEF UploadInv, UploadTypes, Uploads, Serving, Queued

(* The worker takes the next item, or discards a cancelled one.              *)
LEMMA TakeItemKeeps ==
  ASSUME UploadInv, TakeItem
  PROVE  UploadInv'
<1> DEFINE k == Head(queue)
<1>1. /\ k \in Keys /\ queue' \in Seq(Keys) /\ Len(queue') <= QueueLimit
      /\ \A j \in Keys : Queued(j) => j = k \/ Queued(j)'
  <2>1. /\ queue \in Seq(Keys) /\ queue # << >> /\ queue' = Tail(queue) /\ k = queue[1]
        /\ Len(queue) <= QueueLimit /\ QueueLimit \in Nat
    BY WireAssumption DEF TakeItem, UploadInv, UploadTypes
  <2>2. /\ k \in Keys /\ queue' \in Seq(Keys) /\ Len(queue') = Len(queue) - 1 /\ Len(queue) \in Nat
        /\ \A i \in 1 .. Len(queue') : queue'[i] = queue[i + 1]
    BY <2>1, HeadTailProperties, LenProperties
  <2>3. ASSUME NEW j \in Keys, NEW i \in 1 .. Len(queue), queue[i] = j, j # k
        PROVE  Queued(j)'
    <3>1. i - 1 \in 1 .. Len(queue') /\ queue'[i - 1] = j
      BY <2>1, <2>2, <2>3
    <3> QED
      BY <3>1 DEF Queued
  <2> QED
    BY <2>1, <2>2, <2>3 DEF Queued
<1> HIDE DEF k
<1>2. CASE worker' = "reading" /\ served' = k /\ UNCHANGED <<active, fate>>
  BY <1>1, <1>2 DEF TakeItem, UploadInv, UploadTypes, Uploads, Serving
<1>3. CASE /\ ItemDone(k)
           /\ fate' = IF k \in active THEN [fate EXCEPT ![k] = "dropped"] ELSE fate
  <2>1. active' = active \ {k} /\ served' = NoKey /\ worker' \in {"get", "none"}
    BY <1>3 DEF ItemDone
  <2>2. fate' \in [Keys -> Fates] /\ \A j \in Keys : fate'[j] = fate[j] \/ j = k
    BY <1>1, <1>3 DEF UploadInv, UploadTypes, Fates
  <2> QED
    BY <1>1, <2>1, <2>2 DEF TakeItem, UploadInv, UploadTypes, Uploads, Serving
<1> QED
  BY <1>2, <1>3 DEF TakeItem, k

(* The worker reads, throttles, sends and drains its block.                  *)
LEMMA WorkerKeeps ==
  ASSUME UploadInv, BlockMissing \/ BlockRead \/ Throttled \/ Drained
  PROVE  UploadInv'
<1>1. CASE BlockMissing
  <2>1. fate' \in [Keys -> Fates] /\ \A j \in Keys : fate'[j] = fate[j] \/ j = served
    BY <1>1 DEF BlockMissing, UploadInv, UploadTypes, Fates
  <2> QED
    BY <1>1, <2>1, ItemDoneKeeps DEF BlockMissing, Serving
<1>2. CASE BlockRead
  BY <1>2 DEF BlockRead, UploadInv, UploadTypes, Uploads, Serving, Queued
<1>3. CASE Throttled
  <2>1. CASE /\ worker' = "sending" /\ fate' = [fate EXCEPT ![served] = "sent"]
             /\ UNCHANGED <<active, served>>
    BY <1>3, <2>1 DEF Throttled, UploadInv, UploadTypes, Uploads, Serving, Queued, Fates
  <2>2. CASE /\ ItemDone(served)
             /\ fate' = IF served \in active THEN [fate EXCEPT ![served] = "dropped"] ELSE fate
    <3>1. fate' \in [Keys -> Fates] /\ \A j \in Keys : fate'[j] = fate[j] \/ j = served
      BY <2>2 DEF UploadInv, UploadTypes, Fates
    <3> QED
      BY <1>3, <2>2, <3>1, ItemDoneKeeps DEF Throttled, Serving
  <2> QED
    BY <1>3, <2>1, <2>2 DEF Throttled
<1>4. CASE Drained
  BY <1>4, ItemDoneKeeps DEF Drained, Serving, UploadInv, UploadTypes
<1> QED
  BY <1>1, <1>2, <1>3, <1>4
--------------------------------------------------------------------------------
(* Every step of the wire keeps its invariant, by the half it touches: the   *)
(* framing, or the uploads.                                                  *)
LEMMA WireInvNext ==
  ASSUME WireInv, [WireNext]_wireVars
  PROVE  WireInv'
<1>1. StreamInv /\ UploadInv
  BY DEF WireInv, WireTypes, WireTypeOK, StreamInv, StreamTypes, UploadInv, UploadTypes
<1>2. StreamInv'
  <2>1. CASE UNCHANGED <<stream, partial, reader, pending, cut, skewed>>
    BY <1>1, <2>1, StreamStays
  <2>2. CASE TakeItem \/ BlockMissing \/ BlockRead \/ Throttled \/ Drained \/ TogglePause \/ StopRun
             \/ RemoteCloses \/ UNCHANGED wireVars
    BY <2>1, <2>2 DEF TakeItem, BlockMissing, BlockRead, Throttled, Drained, TogglePause, StopRun,
       RemoteCloses, WorkerStays, readerVars, remoteVars, wireVars
  <2> QED
    BY <1>1, <2>2, SendFrameKeeps, SendBodyKeeps, ReaderMovesKeeps, ReadLengthKeeps, ReadBodyKeeps,
       ReadSkewedKeeps, LoopEndsKeeps DEF WireNext
<1>3. UploadInv'
  <2>1. CASE UNCHANGED uploadVars
    BY <1>1, <2>1, UploadStays
  <2>2. CASE ReadBody \/ ReadSkewed
    <3>1. CASE \E m \in Messages : Handle(m)
      BY <1>1, <3>1, HandleKeeps
    <3>2. ReadBody => NextPart.of \in Messages
      BY <1>1, ConsumeKeeps DEF ReadBody, InStep, Parts
    <3> QED
      BY <2>1, <2>2, <3>1, <3>2 DEF ReadBody, ReadSkewed
  <2>3. CASE ReleaseHeld
    BY <1>1, <2>3, QueueUploadKeeps DEF ReleaseHeld, StreamInv, StreamTypes, Request
  <2>4. CASE LoopEnds
    BY <1>1, <2>4, WireAssumption DEF LoopEnds, UploadInv, UploadTypes, Uploads, Serving, Fates
  <2>5. CASE TakeItem \/ BlockMissing \/ BlockRead \/ Throttled \/ Drained
    BY <1>1, <2>5, TakeItemKeeps, WorkerKeeps
  <2>6. CASE (\E m \in Messages : SendFrame(m)) \/ SendBody \/ BeginRead \/ ReadLength \/ ReadTimesOut
             \/ InboundTimesOut \/ RemoteCloses \/ TogglePause \/ StopRun \/ UNCHANGED wireVars
    BY <2>1, <2>6 DEF SendFrame, SendBody, BeginRead, ReadLength, ReadTimesOut, InboundTimesOut,
       RemoteCloses, TogglePause, StopRun, wireVars, uploadVars
  <2> QED
    BY <2>2, <2>3, <2>4, <2>5, <2>6 DEF WireNext
<1>4. loop' \in Loops /\ frames' \in 0 .. MaxFrames /\ toggles' \in 0 .. MaxToggles
  <2>1. loop' = loop
    BY DEF WireNext, wireVars, sessionVars, SendFrame, SendBody, BeginRead, ReadLength, ReadBody, ReleaseHeld,
       ReadTimesOut, InboundTimesOut, ReadSkewed, LoopEnds, RemoteCloses, TakeItem, BlockMissing, BlockRead,
       Throttled, Drained, TogglePause, StopRun, WorkerStays
  <2>2. frames' = frames \/ (frames < MaxFrames /\ frames' = frames + 1)
    BY DEF WireNext, wireVars, remoteVars, Consume, SendFrame, SendBody, BeginRead, ReadLength, ReadBody,
       ReleaseHeld, ReadTimesOut, InboundTimesOut, ReadSkewed, LoopEnds, RemoteCloses, TakeItem, BlockMissing,
       BlockRead, Throttled, Drained, TogglePause, StopRun, WorkerStays
  <2>3. toggles' = toggles \/ (toggles < MaxToggles /\ toggles' = toggles + 1)
    BY DEF WireNext, wireVars, sessionVars, SendFrame, SendBody, BeginRead, ReadLength, ReadBody, ReleaseHeld,
       ReadTimesOut, InboundTimesOut, ReadSkewed, LoopEnds, RemoteCloses, TakeItem, BlockMissing, BlockRead,
       Throttled, Drained, TogglePause, StopRun, WorkerStays
  <2> QED
    BY <2>1, <2>2, <2>3, WireAssumption DEF WireInv, WireTypes, WireTypeOK
<1> QED
  BY <1>2, <1>3, <1>4 DEF WireInv, WireTypes, WireTypeOK, StreamInv, StreamTypes, UploadInv, UploadTypes

(* The types of the wire, for any keys, any queue limit and any length of a  *)
(* connection.                                                               *)
THEOREM WireTypesHold == WireSpec => []WireTypeOK
<1>1. WireInv => WireTypeOK
  BY DEF WireInv, WireTypes
<1> QED
  BY <1>1, WireInvInit, WireInvNext, PTL DEF WireSpec

(* As long as no read was cut inside a body, the message loops read a        *)
(* length where the peer wrote one and the body that belongs to it,          *)
(* whatever was handled, held back, paused or timed out in between.          *)
THEOREM StreamsStayInStep == WireSpec => []StreamInStep
<1>1. WireInv => StreamInStep
  <2> SUFFICES ASSUME WireInv, live, stream # << >>, reader \in {"length", "body"}, ~ cut
               PROVE  NextPart.part = reader /\ (reader = "body" => pending = NextPart.of)
    BY DEF StreamInStep
  <2>1. NextPart = stream[1]
    BY DEF NextPart, WireInv, WireTypes
  <2> QED
    BY <2>1 DEF WireInv, Aligned, BodyNext, LengthNext
<1> QED
  BY <1>1, WireInvInit, WireInvNext, PTL DEF WireSpec

(* A block the session takes for an active upload is in the queue or in the  *)
(* hand of the worker: no later request for it is refused for ever.          *)
THEOREM ActiveKeysAreQueued == WireSpec => []ActiveIsQueued
<1>1. WireInv => ActiveIsQueued
  BY DEF WireInv, Uploads, ActiveIsQueued, Queued
<1> QED
  BY <1>1, WireInvInit, WireInvNext, PTL DEF WireSpec

(* A block leaves only for a request that was accepted and that no cancel,   *)
(* choke or pause has dropped since, however long it waited in the queue or  *)
(* for the rate limiter.                                                     *)
THEOREM OnlyWantedBlocksAreSent == WireSpec => OnlyWantedSent
<1>1. ASSUME WireInv, [WireNext]_wireVars
      PROVE  [\A k \in Keys : fate[k] # "sent" /\ fate'[k] = "sent"
                => fate[k] \in {"accepted", "again"}]_wireVars
  <2> SUFFICES ASSUME NEW k \in Keys, fate[k] # "sent", fate'[k] = "sent"
               PROVE  fate[k] \in {"accepted", "again"}
    OBVIOUS
  <2>1. fate \in [Keys -> Fates]
    BY <1>1 DEF WireInv, WireTypes, WireTypeOK
  <2>2. Throttled /\ fate' = [fate EXCEPT ![served] = "sent"] /\ MayServe(served)
    BY <1>1, <2>1 DEF WireNext, wireVars, uploadVars, SendFrame, SendBody, BeginRead, ReadLength, ReadBody,
       ReleaseHeld, ReadTimesOut, InboundTimesOut, ReadSkewed, LoopEnds, RemoteCloses, TakeItem, BlockMissing,
       BlockRead, Throttled, Drained, TogglePause, StopRun, WorkerStays, Handle, QueueUpload, CancelUpload
  <2> QED
    BY <1>1, <2>1, <2>2 DEF WireInv, Uploads, MayServe, Throttled
<1> QED
  BY <1>1, WireInvInit, WireInvNext, PTL DEF WireSpec, OnlyWantedSent
--------------------------------------------------------------------------------
(* The types, with that of the bookings.                                    *)
RateTypes ==
  /\ RateTypeOK
  /\ wait \in [Transfers -> [start : Nat, version : Nat, wake : Nat]]

(* A sleeping transfer looks again now or later, and not after its slot.    *)
SleepsInTime == \A t \in Transfers : Asleep(t) => now <= wait[t].wake /\ wait[t].wake <= wait[t].start

(* The bookings of this rate: each is at or after the moment the next block  *)
(* is due and ends by nextSlot, and no two overlap.                         *)
OfThisRate(t) == wait[t].version = version

BookingsApart ==
  /\ freeAt <= nextSlot
  /\ \A t \in Transfers : OfThisRate(t) =>
       /\ freeAt <= wait[t].start
       /\ wait[t].start + rate <= nextSlot
       /\ \A u \in Transfers \ {t} : OfThisRate(u) =>
            \/ wait[t].start + rate <= wait[u].start
            \/ wait[u].start + rate <= wait[t].start

RateInv == RateTypes /\ SleepsInTime /\ BookingsApart

--------------------------------------------------------------------------------
LEMMA RateInvInit == RateInit => RateInv
BY RateAssumption
DEF RateInit, RateInv, RateTypes, RateTypeOK, SleepsInTime, BookingsApart, OfThisRate, Asleep, NoWait

(* A transfer of this version sleeps: NoWait is of none.                    *)
LEMMA CurrentSleeps ==
  ASSUME RateTypes, NEW t \in Transfers, OfThisRate(t)
  PROVE  Asleep(t)
BY DEF RateTypes, RateTypeOK, OfThisRate, Asleep, NoWait

(* Booking a slot: the limiter is unlimited, the block goes out at once, or   *)
(* the transfer sleeps.                                                     *)
LEMMA BookKeeps ==
  ASSUME RateInv, NEW t \in Transfers, ~OfThisRate(t), Book(t), UNCHANGED <<now, rate, version>>
  PROVE  RateInv'
<1> USE RateAssumption DEF RateTypes, RateTypeOK
<1>1. rate \in Nat /\ now \in Nat /\ version \in Nat /\ nextSlot \in Nat
  BY DEF RateInv
<1>2. CASE rate = 0
  BY <1>1, <1>2 DEF Book, RateInv, SleepsInTime, BookingsApart, OfThisRate, Asleep, NoWait
<1>3. CASE rate /= 0 /\ SlotStart = now
  <2>1. /\ nextSlot' = now + rate /\ freeAt' = now + rate
        /\ wait' = [wait EXCEPT ![t] = NoWait] /\ released' = released + 1
    BY <1>3 DEF Book, GoOn
  <2>2. nextSlot <= now
    BY <1>1, <1>3 DEF SlotStart, Later
  <2>3. \A u \in Transfers : ~OfThisRate(u)
    BY <1>1, <1>3, <2>2, CurrentSleeps DEF RateInv, SleepsInTime, BookingsApart
  <2>4. RateTypes' /\ SleepsInTime'
    BY <2>1, <1>1 DEF RateInv, SleepsInTime, Asleep, NoWait
  <2>5. \A u \in Transfers : ~OfThisRate(u)'
    BY <2>1, <2>3, <1>1 DEF RateInv, OfThisRate, NoWait
  <2> QED
    BY <2>1, <2>4, <2>5, <1>1 DEF RateInv, BookingsApart
<1>4. CASE rate /= 0 /\ SlotStart /= now
  <2>1. /\ nextSlot' = nextSlot + rate /\ nextSlot > now
        /\ wait' = [wait EXCEPT ![t] = Booking] /\ UNCHANGED <<released, freeAt>>
    BY <1>1, <1>4 DEF Book, SlotStart, Later
  <2>2. /\ Booking.start = nextSlot /\ Booking.version = version
        /\ Booking.wake \in Nat /\ now <= Booking.wake /\ Booking.wake <= nextSlot
    BY <1>1, <2>1 DEF Booking, SlotStart, Later, Sooner
  <2>3. Booking \in [start : Nat, version : Nat, wake : Nat]
    BY <1>1, <2>1, <2>2 DEF Booking
  <2>4. RateTypes' /\ SleepsInTime'
    BY <2>1, <2>2, <2>3, <1>1 DEF RateInv, SleepsInTime, Asleep, NoWait
  <2>5. \A u \in Transfers \ {t} : wait'[u] = wait[u]
    BY <2>1 DEF RateInv
  <2>6. wait'[t] = Booking
    BY <2>1 DEF RateInv
  <2>7. \A u \in Transfers : wait[u].start \in Nat
    BY DEF RateInv
  <2>8. BookingsApart'
    BY <2>1, <2>2, <2>5, <2>6, <2>7, <1>1 DEF RateInv, BookingsApart, OfThisRate
  <2> QED
    BY <2>4, <2>8 DEF RateInv
<1> QED
  BY <1>2, <1>3, <1>4

(* A block whose slot has come: it goes out at the very start of the slot,   *)
(* and every other booking begins after its end.                            *)
LEMMA GoOnKeeps ==
  ASSUME RateInv, NEW t \in Transfers, OfThisRate(t), wait[t].start <= now,
         GoOn(t), UNCHANGED <<now, rate, version, nextSlot>>
  PROVE  RateInv'
<1> USE RateAssumption DEF RateTypes, RateTypeOK
<1>1. rate \in Nat /\ now \in Nat /\ version \in Nat /\ nextSlot \in Nat /\ freeAt \in Nat
  BY DEF RateInv
<1>2. \A u \in Transfers : wait[u].start \in Nat /\ wait[u].wake \in Nat
  BY DEF RateInv
<1>3. \A u \in Transfers : OfThisRate(u) => now <= wait[u].start
  BY <1>1, <1>2, CurrentSleeps DEF RateInv, SleepsInTime
<1>4. wait[t].start = now
  BY <1>1, <1>2, <1>3
<1>5. /\ wait' = [wait EXCEPT ![t] = NoWait]
      /\ released' = released + 1 /\ freeAt' = now + rate
  BY DEF GoOn
<1>6. RateTypes' /\ SleepsInTime'
  BY <1>1, <1>5 DEF RateInv, SleepsInTime, Asleep, NoWait
<1>7. ~OfThisRate(t)'
  BY <1>1, <1>5 DEF RateInv, OfThisRate, NoWait
<1>8. \A u \in Transfers \ {t} : wait'[u] = wait[u]
  BY <1>5 DEF RateInv
<1>9. \A u \in Transfers \ {t} : OfThisRate(u) =>
        \/ now + rate <= wait[u].start
        \/ wait[u].start + rate <= now
  BY <1>4 DEF RateInv, BookingsApart
<1>10. \A u \in Transfers \ {t} : OfThisRate(u) => now + rate <= wait[u].start
  BY <1>9, <1>3, <1>2, <1>1
<1>11. now + rate <= nextSlot
  BY <1>4 DEF RateInv, BookingsApart
<1>12. BookingsApart'
  BY <1>5, <1>7, <1>8, <1>10, <1>11 DEF RateInv, BookingsApart, OfThisRate
<1> QED
  BY <1>6, <1>12 DEF RateInv

LEMMA RateInvNext ==
  ASSUME RateInv, [RateNext]_rateVars
  PROVE  RateInv'
<1> USE RateAssumption DEF RateTypes, RateTypeOK
<1>1. rate \in Nat /\ now \in Nat /\ version \in Nat /\ nextSlot \in Nat /\ freeAt \in Nat
  BY DEF RateInv
<1>2. ASSUME NEW t \in Transfers, Throttle(t) PROVE RateInv'
  BY <1>2, BookKeeps, CurrentSleeps DEF Throttle, RateInv
<1>3. ASSUME NEW t \in Transfers, Wake(t) PROVE RateInv'
  <2>1. CASE wait[t].version /= version /\ Book(t)
    BY <1>3, <2>1, BookKeeps DEF Wake, OfThisRate
  <2>2. CASE wait[t].version = version /\ wait[t].start <= now /\ GoOn(t) /\ UNCHANGED nextSlot
    BY <1>3, <2>2, GoOnKeeps DEF Wake, OfThisRate
  <2>3. CASE /\ wait[t].start > now /\ wait' = [wait EXCEPT ![t].wake = Sooner(now + 1, wait[t].start)]
             /\ UNCHANGED <<nextSlot, released, freeAt>>
    <3> DEFINE wake == Sooner(now + 1, wait[t].start)
    <3>1. wait[t].start \in Nat /\ wait[t].version \in Nat
      BY DEF RateInv
    <3>2. wake \in Nat /\ now <= wake /\ wake <= wait[t].start
      BY <1>1, <2>3, <3>1 DEF Sooner
    <3> HIDE DEF wake
    <3>3. wait' = [wait EXCEPT ![t].wake = wake]
      BY <2>3 DEF wake
    <3>4. wait' \in [Transfers -> [start : Nat, version : Nat, wake : Nat]]
      BY <3>2, <3>3 DEF RateInv
    <3>5. \A u \in Transfers : /\ wait'[u].start = wait[u].start
                               /\ wait'[u].version = wait[u].version
                               /\ u /= t => wait'[u] = wait[u]
      BY <3>3 DEF RateInv
    <3>6. wait'[t].wake = wake
      BY <3>3 DEF RateInv
    <3>7. RateTypes'
      BY <1>3, <2>3, <3>4, <3>5 DEF RateInv, Wake
    <3>8. \A u \in Transfers : Asleep(u)' => Asleep(u)
      BY <1>3, <3>5 DEF Wake, Asleep
    <3>9. SleepsInTime'
      BY <1>3, <3>2, <3>5, <3>6, <3>8 DEF RateInv, SleepsInTime, Wake
    <3>10. BookingsApart'
      BY <1>3, <2>3, <3>5 DEF RateInv, BookingsApart, OfThisRate, Wake
    <3> QED
      BY <3>7, <3>9, <3>10 DEF RateInv
  <2> QED
    BY <1>3, <2>1, <2>2, <2>3 DEF Wake
<1>4. ASSUME NEW t \in Transfers, CancelWait(t) PROVE RateInv'
  BY <1>1, <1>4 DEF CancelWait, RateInv, SleepsInTime, BookingsApart, OfThisRate, Asleep, NoWait
<1>5. ASSUME NEW r \in Rates, SetRate(r) PROVE RateInv'
  BY <1>1, <1>5 DEF SetRate, RateInv, SleepsInTime, BookingsApart, OfThisRate, Asleep
<1>6. CASE Tick
  BY <1>1, <1>6 DEF Tick, RateInv, SleepsInTime, BookingsApart, OfThisRate, Asleep
<1>7. CASE UNCHANGED rateVars
  BY <1>7 DEF rateVars, RateInv, SleepsInTime, BookingsApart, OfThisRate, Asleep
<1> QED
  BY <1>2, <1>3, <1>4, <1>5, <1>6, <1>7 DEF RateNext

(* Every variable of the limiter keeps its type.                            *)
THEOREM RateTypesHold == RateSpec => []RateTypeOK
<1>1. RateInv => RateTypeOK
  BY DEF RateInv, RateTypes
<1> QED
  BY <1>1, RateInvInit, RateInvNext, PTL DEF RateSpec

(* AsyncBandwidthLimiter.throttle keeps the rate: one block follows another  *)
(* no sooner than the rate allows, for any number of transfers that sleep,    *)
(* are cancelled, and hold bookings of earlier rates.                       *)
THEOREM RateIsKept == RateSpec => RateKept
<1>1. ASSUME RateInv, [RateNext]_rateVars
      PROVE  [released' > released => freeAt <= now]_rateVars
  <2> SUFFICES ASSUME released' > released PROVE freeAt <= now
    OBVIOUS
  <2> USE RateAssumption DEF RateTypes, RateTypeOK
  <2>1. /\ rate \in Nat /\ now \in Nat /\ version \in Nat /\ nextSlot \in Nat
        /\ freeAt \in Nat /\ released \in Nat
    BY <1>1 DEF RateInv
  <2>2. ASSUME NEW t \in Transfers, Throttle(t) \/ (Wake(t) /\ wait[t].version /= version)
        PROVE  freeAt <= now
    <3>1. Book(t)
      BY <2>2 DEF Throttle, Wake
    <3>2. SlotStart = now
      BY <1>1, <2>1, <3>1 DEF Book
    <3> QED
      BY <1>1, <2>1, <3>2 DEF SlotStart, Later, RateInv, BookingsApart
  <2>3. ASSUME NEW t \in Transfers, Wake(t), wait[t].version = version PROVE freeAt <= now
    <3>1. wait[t].start <= now
      BY <1>1, <2>1, <2>3 DEF Wake
    <3>2. wait[t].start \in Nat /\ freeAt <= wait[t].start
      BY <1>1, <2>3 DEF RateInv, BookingsApart, OfThisRate
    <3> QED
      BY <2>1, <3>1, <3>2
  <2>4. (\E t \in Transfers : Throttle(t) \/ Wake(t)) \/ released' = released \/ released' = 0
    BY <1>1 DEF RateNext, rateVars, CancelWait, SetRate, Tick
  <2> QED
    BY <1>1, <2>1, <2>2, <2>3, <2>4
<1> QED
  BY <1>1, RateInvInit, RateInvNext, PTL DEF RateSpec, RateKept

--------------------------------------------------------------------------------
(* What each layer keeps, all of them keep together: a step of PeerLink is   *)
(* a step of one layer and leaves the others as they are.                   *)
LinkInv == HandshakeInv /\ WireInv /\ RateInv

(* Each layer starts as it would alone.                                     *)
LEMMA LinkInvInit == Init => LinkInv
BY HandshakeInvInit, WireInvInit, RateInvInit
DEF Init, LinkInv, HandshakeIdle, WireIdle, RateIdle

(* Each layer steps as it would alone, or not at all.                       *)
LEMMA LinkSteps ==
  ASSUME [Next]_linkVars
  PROVE  /\ [HandshakeNext]_handshakeVars /\ [WireNext]_wireVars /\ [RateNext]_rateVars
BY DEF Next, linkVars

(* So a step of the connection keeps the invariants of all three.            *)
LEMMA LinkInvNext ==
  ASSUME LinkInv, [Next]_linkVars
  PROVE  LinkInv'
BY LinkSteps, HandshakeInvNext, WireInvNext, RateInvNext DEF LinkInv

(* The types of the connection, of all its layers.                          *)
THEOREM LinkTypesHold == Spec => []LinkTypeOK
<1>1. LinkInv => LinkTypeOK
  BY HandshakeInvTypes DEF LinkInv, LinkTypeOK, WireInv, WireTypes, RateInv, RateTypes
<1> QED
  BY <1>1, LinkInvInit, LinkInvNext, PTL DEF Spec
=============================================================================
