--------------------------- MODULE TrackerAnnounce ---------------------------
(***************************************************************************)
(* One TrackerClient (tracker.py) and the announces a session makes with it: *)
(* those of the run's loop, and the "stopped" announce that Stop leaves to   *)
(* run on its own, which may overlap the announces of the next run.  Both    *)
(* walk the torrent's tracker list and write the same telemetry records.     *)
(*                                                                          *)
(* A query asks every address family at once, and within a UDP family every *)
(* address in turn.  The worker threads share nothing, so a query is one     *)
(* action whose result is computed from what each address answered.         *)
(***************************************************************************)
EXTENDS Naturals, Sequences, SequencesExt

CONSTANTS
  AnnounceList,         \* protocols of the trackers, in the torrent's order
  MaxAnnounces          \* bound on the announces

ASSUME AnnounceAssumption ==
  AnnounceList \in Seq({"http", "udp", "other"}) /\ MaxAnnounces \in Nat

Trackers == 1 .. Len(AnnounceList)
Families == {"v4", "v6"}
Callers == {"loop", "stopped"}

VARIABLES
  running,              \* is a run of the session current?
  announces,            \* announces begun, bounded by MaxAnnounces
  call,                 \* per caller: the tracker asked now, and those asked
  record,               \* status of each tracker in _source_records
  answers,              \* what the addresses of a tracker that failed answered
  gaveUp                \* an announce ended with neither peers nor every
                        \* tracker asked

announceVars == <<running, announces, call, record, answers, gaveUp>>

NoCall == [at |-> 0, asked |-> {}]

AnnounceInit ==
  /\ running = FALSE /\ announces = 0 /\ gaveUp = FALSE
  /\ call = [c \in Callers |-> NoCall]
  /\ record = [t \in Trackers |-> "Waiting"]
  /\ answers = [t \in Trackers |-> {}]

--------------------------------------------------------------------------------
(* What a query makes of the answers.                                       *)

(* _query_udp_tracker_endpoint: a connect and an announce on a socket of its *)
(* own.  "foreign" is a datagram with another transaction or action, such as *)
(* the connect response a second time.                                      *)
EndpointResult(connect, announce) ==
  CASE connect = "nothing" -> "timeout"
    [] connect /= "granted" -> "error"
    [] announce = "nothing" -> "timeout"
    [] announce \in {"peers", "none"} -> announce
    [] OTHER -> "error"

EndpointResults ==
  {EndpointResult(c, a) : c \in {"nothing", "unreachable", "short", "error", "foreign", "granted"},
                          a \in {"nothing", "unreachable", "short", "error", "foreign", "none", "peers"}}

Good(result) == result \in {"peers", "none"}

(* Mutant: the error of the last address is reported.                       *)
CandidatesResultLast(results) ==
  IF \E i \in DOMAIN results : Good(results[i])
  THEN results[CHOOSE i \in DOMAIN results :
                 Good(results[i]) /\ \A j \in 1 .. i - 1 : ~Good(results[j])]
  ELSE results[Len(results)]

(* _query_udp_candidates_blocking: the first address that answers; if none   *)
(* does, an error is more informative than a timeout.                       *)
CandidatesResult(results) ==
  IF \E i \in DOMAIN results : Good(results[i])
  THEN results[CHOOSE i \in DOMAIN results :
                 Good(results[i]) /\ \A j \in 1 .. i - 1 : ~Good(results[j])]
  ELSE IF \E i \in DOMAIN results : results[i] = "error" THEN "error" ELSE "timeout"

PeersOf(results) == {f \in DOMAIN results : results[f] = "peers"}

(* _query_udp_tracker: any family will do, and an error again goes before a  *)
(* timeout.  _query_http_tracker raises what the first family raised.       *)
QueryResult(protocol, results, first) ==
  IF \E f \in DOMAIN results : Good(results[f]) THEN "ok"
  ELSE IF DOMAIN results = {} THEN "error"
  ELSE IF protocol = "http" THEN results[first]
  ELSE IF \E f \in DOMAIN results : results[f] = "error" THEN "error" ELSE "timeout"

(* The ways the addresses of a family may answer: one answer for HTTP, up to *)
(* two IPv4 addresses for UDP.                                              *)
Replies(protocol, f) ==
  {<<r>> : r \in EndpointResults}
    \cup {pair \in EndpointResults \X EndpointResults : protocol = "udp" /\ f = "v4"}

(* The family getaddrinfo lists first.                                      *)
MayBeFirst(protocol, first, families) ==
  IF protocol = "http" THEN first \in families \/ families = {} ELSE first = "v4"

--------------------------------------------------------------------------------
(* fetch_peers                                                              *)

Shown(result, peers) ==
  CASE result = "ok" -> IF peers = {} THEN "No Peers" ELSE "Active"
    [] result = "timeout" -> "Timeout"
    [] OTHER -> "Error"

(* From tracker t on, the next one that can be asked, or 0; those of another *)
(* protocol are passed with a status of their own.                          *)
Askable(t) == AnnounceList[t] /= "other"
Following(t) ==
  IF \E u \in t .. Len(AnnounceList) : Askable(u)
  THEN CHOOSE u \in t .. Len(AnnounceList) :
         Askable(u) /\ \A w \in t .. u - 1 : ~Askable(w)
  ELSE 0

(* The trackers of a call, after u = Following(t), and their records.       *)
Passed(t, u) == {w \in Trackers : t <= w /\ (u = 0 \/ w < u)}
Advance(t, u, shown) ==
  [w \in Trackers |-> IF w = u THEN "Announcing"
                      ELSE IF w \in Passed(t, u) THEN "Unsupported" ELSE shown[w]]

GoTo(c, t, asked, shown) ==
  LET u == Following(t)
      done == asked \cup Passed(t, u)
  IN  /\ record' = Advance(t, u, shown)
      /\ call' = [call EXCEPT ![c] = IF u = 0 THEN NoCall ELSE [at |-> u, asked |-> done]]
      /\ gaveUp' = (gaveUp \/ (u = 0 /\ done /= Trackers))

Announce(c) ==
  /\ announces < MaxAnnounces /\ announces' = announces + 1
  /\ call[c] = NoCall
  /\ GoTo(c, 1, {}, record)
  /\ UNCHANGED answers

(* The loop announces when its interval is over, and on the user's request. *)
LoopAnnounce == running /\ Announce("loop") /\ UNCHANGED running

(* Mutant: an announce asks one tracker.                                    *)
EnoughAlways(peers) == TRUE

Enough(peers) == peers /= {}

(* The answers are in: the announce ends with the first tracker that has     *)
(* peers, and goes on to the next one otherwise.                            *)
Answered(c) ==
  /\ call[c] /= NoCall
  /\ LET t == call[c].at IN
     \E families \in SUBSET Families, first \in Families :
     \E replies \in [families -> UNION {Replies(AnnounceList[t], f) : f \in families}] :
       LET results == [f \in families |-> CandidatesResult(replies[f])]
           result == QueryResult(AnnounceList[t], results, first)
           shown == [record EXCEPT ![t] = Shown(result, PeersOf(results))]
           asked == call[c].asked \cup {t}
       IN  /\ MayBeFirst(AnnounceList[t], first, families)
           /\ \A f \in families : replies[f] \in Replies(AnnounceList[t], f)
           /\ answers' = [answers EXCEPT ![t] =
                IF result = "ok" THEN {} ELSE UNION {ToSet(replies[f]) : f \in families}]
           /\ IF Enough(PeersOf(results))
              THEN /\ record' = shown /\ call' = [call EXCEPT ![c] = NoCall]
                   /\ gaveUp' = (gaveUp \/ (PeersOf(results) = {} /\ asked /= Trackers))
              ELSE GoTo(c, t + 1, asked, shown)
  /\ UNCHANGED <<running, announces>>

(* Peers came, and with them a statistic that is not a number: the exception *)
(* of the telemetry loses the peers.                                        *)
Malformed(c) ==
  /\ call[c] /= NoCall /\ AnnounceList[call[c].at] = "http"
  /\ LET t == call[c].at IN
       /\ answers' = [answers EXCEPT ![t] = {"error"}]
       /\ GoTo(c, t + 1, call[c].asked \cup {t}, [record EXCEPT ![t] = "Error"])
  /\ UNCHANGED <<running, announces>>

(* The run's finally cancels its announce, the engine's end every one.      *)
Cancelled(c) ==
  /\ call[c] /= NoCall
  /\ c = "loop" => ~running
  /\ record' = [record EXCEPT ![call[c].at] = "Cancelled"]
  /\ call' = [call EXCEPT ![c] = NoCall]
  /\ UNCHANGED <<running, announces, answers, gaveUp>>

--------------------------------------------------------------------------------
(* The session                                                              *)

BeginRun ==
  /\ ~running /\ call["loop"] = NoCall /\ running' = TRUE
  /\ UNCHANGED <<announces, call, record, answers, gaveUp>>

(* Stop announces without waiting for the tracker; a run that ends on its    *)
(* own says nothing.                                                        *)
StopAnnouncing == running' = FALSE /\ Announce("stopped")

EndRun ==
  /\ running /\ running' = FALSE
  /\ UNCHANGED <<announces, call, record, answers, gaveUp>>

AnnounceNext ==
  \/ BeginRun \/ StopAnnouncing \/ EndRun \/ LoopAnnounce
  \/ \E c \in Callers : Answered(c) \/ Malformed(c) \/ Cancelled(c)

AnnounceFairness == WF_announceVars(\E c \in Callers : Answered(c))

AnnounceSpec == AnnounceInit /\ [][AnnounceNext]_announceVars /\ AnnounceFairness

--------------------------------------------------------------------------------
Statuses == {"Waiting", "Announcing", "Active", "No Peers", "Timeout", "Error", "Unsupported",
             "Cancelled"}

AnnounceTypeOK ==
  /\ running \in BOOLEAN /\ gaveUp \in BOOLEAN
  /\ announces \in 0 .. MaxAnnounces
  /\ call \in [Callers -> [at : {0} \cup Trackers, asked : SUBSET Trackers]]
  /\ record \in [Trackers -> Statuses]

(* A tracker is shown as Announcing only while an announce asks it, in       *)
(* whatever order the announces of two runs and their answers are.          *)
AnnouncingIsAsked ==
  \A t \in Trackers : record[t] = "Announcing" => \E c \in Callers : call[c].at = t

(* A tracker is shown as timed out, or as failed, only for answers that are  *)
(* so: a UDP tracker that refused is not shown as silent because another     *)
(* address of it was.                                                       *)
TimeoutIsHonest ==
  \A t \in Trackers :
    /\ record[t] = "Timeout" /\ AnnounceList[t] = "udp" => answers[t] = {"timeout"}
    /\ record[t] = "Error" => \A a \in answers[t] : ~Good(a)

(* An announce without peers has asked every tracker of the list.           *)
FailoverExhaustive == ~gaveUp

AnnounceSound == AnnouncingIsAsked /\ TimeoutIsHonest /\ FailoverExhaustive
=============================================================================
