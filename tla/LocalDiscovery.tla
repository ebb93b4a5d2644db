---------------------------- MODULE LocalDiscovery ----------------------------
(***************************************************************************)
(* Local peer discovery (local_peer_discovery.py) between sessions of one    *)
(* torrent on a LAN.  Announcements are multicast datagrams: each may be     *)
(* lost or delivered twice, and reaches its sender as well.  A session that  *)
(* only downloads announces port 0, which asks the others to announce.      *)
(***************************************************************************)
EXTENDS Naturals, FiniteSets

CONSTANTS
  Hosts,                \* sessions of the torrent
  ListenPorts,          \* ports a session may listen on
  MaxAnnouncements      \* bound on what a session announces on its own

ASSUME LanAssumption ==
  IsFiniteSet(Hosts) /\ ListenPorts \subseteq Nat \ {0} /\ MaxAnnouncements \in Nat

VARIABLES
  address,              \* address of each host; two processes may share one
  lpd,                  \* per host: open, listen_port, _seen, _peer_queue, and
                        \* whether a second has passed since it last answered
  datagrams,            \* announcements under way: receiver, address and port
  announcements,        \* those made on their own, bounded by MaxAnnouncements
  moved                 \* hosts whose port has changed

lanVars == <<address, lpd, datagrams, announcements, moved>>

NoSession == [open |-> FALSE, port |-> 0, seen |-> {}, queue |-> {}, rested |-> TRUE]

LanInit ==
  /\ address \in [Hosts -> {"a", "b"}]
  /\ lpd = [h \in Hosts |-> NoSession]
  /\ datagrams = {} /\ announcements = 0 /\ moved = {}

--------------------------------------------------------------------------------
(* announce(): to every member of the group that listens, looped back to the *)
(* sender.                                                                  *)
Sent(h, port) == {[to |-> g, ip |-> address[h], port |-> port] : g \in Hosts}

Spontaneous == announcements < MaxAnnouncements /\ announcements' = announcements + 1

OpenLpd(h, port) ==
  /\ ~lpd[h].open /\ Spontaneous
  /\ lpd' = [lpd EXCEPT ![h].open = TRUE, ![h].port = port]
  /\ datagrams' = datagrams \cup Sent(h, port)
  /\ moved' = IF lpd[h].port \in {0, port} THEN moved ELSE moved \cup {h}
  /\ UNCHANGED address

(* update_listen_port                                                       *)
MovePort(h, port) ==
  /\ lpd[h].open /\ lpd[h].port /= port /\ Spontaneous
  /\ lpd' = [lpd EXCEPT ![h].port = port]
  /\ datagrams' = datagrams \cup Sent(h, port)
  /\ moved' = IF lpd[h].port = 0 THEN moved ELSE moved \cup {h}
  /\ UNCHANGED address

(* _announce_loop                                                           *)
AnnounceAgain(h) ==
  /\ lpd[h].open /\ Spontaneous
  /\ datagrams' = datagrams \cup Sent(h, lpd[h].port)
  /\ UNCHANGED <<address, lpd, moved>>

(* A datagram is lost, or its last copy has been received.                  *)
Vanish(d) ==
  /\ d \in datagrams /\ datagrams' = datagrams \ {d}
  /\ UNCHANGED <<address, lpd, announcements, moved>>

(* Mutant: every announcement is answered.                                  *)
AnswersAny(h, d) == lpd[h].port > 0 /\ lpd[h].rested

(* Only a query is answered, and not twice within a second.                 *)
Answers(h, d) == d.port = 0 /\ lpd[h].port > 0 /\ lpd[h].rested

(* Mutant: the own announcement is not recognised.                          *)
OwnNever(h, d) == FALSE

(* A session knows its own announcement by the port alone.                  *)
Own(h, d) == d.port = lpd[h].port /\ lpd[h].port > 0

Endpoint(d) == [ip |-> d.ip, port |-> d.port]

(* _handle_datagram; the datagram may be delivered again.                   *)
HandleDatagram(d) ==
  /\ d \in datagrams /\ lpd[d.to].open
  /\ LET h == d.to
         new == d.port /= 0 /\ ~Own(h, d) /\ Endpoint(d) \notin lpd[h].seen IN
       /\ lpd' = [lpd EXCEPT
            ![h].rested = @ /\ ~Answers(h, d),
            ![h].seen = IF new THEN @ \cup {Endpoint(d)} ELSE @,
            ![h].queue = IF new THEN @ \cup {Endpoint(d)} ELSE @]
       /\ \E left \in {datagrams, datagrams \ {d}} :
            datagrams' = left \cup IF Answers(h, d) THEN Sent(h, lpd[h].port) ELSE {}
  /\ UNCHANGED <<address, announcements, moved>>

SecondPasses(h) ==
  /\ ~lpd[h].rested /\ lpd' = [lpd EXCEPT ![h].rested = TRUE]
  /\ UNCHANGED <<address, datagrams, announcements, moved>>

(* The session's loop takes what was found.                                 *)
DrainLpd(h) ==
  /\ lpd[h].queue /= {} /\ lpd' = [lpd EXCEPT ![h].queue = {}]
  /\ UNCHANGED <<address, datagrams, announcements, moved>>

CloseLpd(h) ==
  /\ lpd[h].open /\ lpd' = [lpd EXCEPT ![h].open = FALSE]
  /\ UNCHANGED <<address, datagrams, announcements, moved>>

LanNext ==
  \/ \E h \in Hosts, port \in {0} \cup ListenPorts : OpenLpd(h, port) \/ MovePort(h, port)
  \/ \E h \in Hosts : AnnounceAgain(h) \/ SecondPasses(h) \/ DrainLpd(h) \/ CloseLpd(h)
  \/ \E d \in datagrams : Vanish(d) \/ HandleDatagram(d)

LanSpec == LanInit /\ [][LanNext]_lanVars

--------------------------------------------------------------------------------
LanTypeOK ==
  LET Found == [ip : {"a", "b"}, port : ListenPorts] IN
  /\ lpd \in [Hosts -> [open : BOOLEAN, port : {0} \cup ListenPorts, seen : SUBSET Found,
                        queue : SUBSET Found, rested : BOOLEAN]]
  /\ announcements \in 0 .. MaxAnnouncements

(* A session that has kept its port never finds itself, however often its    *)
(* announcement comes back.                                                 *)
NotFoundByItself ==
  \A h \in Hosts \ moved : lpd[h].port > 0 =>
    Cardinality({g \in Hosts : address[g] = address[h]}) > 1
      \/ [ip |-> address[h], port |-> lpd[h].port] \notin lpd[h].seen

(* "two seeders cannot get stuck echoing announcements at each other": where  *)
(* no query is under way, nothing that arrives makes anyone send.           *)
NoEcho ==
  [][announcements' = announcements /\ (\A d \in datagrams : d.port /= 0)
       => datagrams' \subseteq datagrams]_lanVars
=============================================================================
