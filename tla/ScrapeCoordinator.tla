-------------------------- MODULE ScrapeCoordinator --------------------------
(***************************************************************************)
(* The application's one TrackerScrapeCoordinator (tracker_scrape.py): a     *)
(* timer, at most one refresh task, and requests that other threads and the  *)
(* queue hand to the loop.  Requests during a refresh coalesce into one      *)
(* follow-up.                                                                *)
(*                                                                          *)
(* A refresh asks one tracker for all swarms of the running sessions in      *)
(* batches, and hands the result of a swarm to the sessions that have it.    *)
(***************************************************************************)
EXTENDS Naturals, FiniteSets

CONSTANTS
  Swarms,               \* info hashes of the sessions
  Batch,                \* UDP_SCRAPE_BATCH_SIZE
  MaxRequests           \* bound on requests and on changes of the sessions

ASSUME ScrapeAssumption == Batch \in Nat \ {0} /\ MaxRequests \in Nat

Never == 3              \* a timer is "now", "soon", "later" (0, 1, 2) or off
Delays == {0, 1}        \* 0.5 s and SCRAPE_COALESCE_SECONDS
Interval == 2           \* refresh_interval

VARIABLES
  scraper,              \* "new", "open" or "closed": _loop and _closed
  timer,                \* when _timer fires
  handed,               \* _schedule calls handed to the loop, not yet made
  refresh,              \* _task: its progress, and the swarms it asks for
  again,                \* _refresh_again
  eligible,             \* swarms of sessions that run in an active state
  budget,               \* requests and changes left
  owed,                 \* a request since the last refresh looked at the sessions
  stats                 \* scrape_status of each swarm at the tracker

scrapeVars == <<scraper, timer, handed, refresh, again, eligible, budget, owed, stats>>

NoRefresh == [at |-> "none", asks |-> {}]

ScrapeInit ==
  /\ scraper = "new" /\ timer = Never /\ handed = {} /\ refresh = NoRefresh
  /\ again = FALSE /\ eligible = {} /\ budget = MaxRequests /\ owed = FALSE
  /\ stats = [s \in Swarms |-> "Waiting"]

--------------------------------------------------------------------------------
(* _schedule keeps a timer that fires earlier.                              *)
Scheduled(delay) == IF timer <= delay THEN timer ELSE delay

StartScraper ==
  /\ scraper = "new" /\ scraper' = "open" /\ timer' = Scheduled(1) /\ owed' = TRUE
  /\ UNCHANGED <<handed, refresh, again, eligible, budget, stats>>

(* request_refresh, on any thread.                                          *)
RequestRefresh(delay) ==
  /\ scraper = "open" /\ budget > 0 /\ budget' = budget - 1
  /\ handed' = handed \cup {delay} /\ owed' = TRUE
  /\ UNCHANGED <<scraper, timer, refresh, again, eligible, stats>>

(* The loop makes a call that was handed to it.                             *)
Schedule(delay) ==
  /\ delay \in handed /\ handed' = handed \ {delay}
  /\ timer' = IF scraper = "closed" THEN timer ELSE Scheduled(delay)
  /\ UNCHANGED <<scraper, refresh, again, eligible, budget, owed, stats>>

(* Mutant: a request is dropped while a refresh is under way.               *)
RemembersNot(busy) == again

Remembers(busy) == again \/ busy

(* _launch_refresh: the timer fires.                                        *)
LaunchRefresh ==
  /\ scraper = "open" /\ timer /= Never
  /\ timer' = Never
  /\ again' = Remembers(refresh /= NoRefresh)
  /\ refresh' = IF refresh = NoRefresh THEN [NoRefresh EXCEPT !.at = "begin"] ELSE refresh
  /\ UNCHANGED <<scraper, handed, eligible, budget, owed, stats>>

(* _refresh_all looks at the sessions when its task first runs.             *)
LookAtSessions ==
  /\ refresh.at = "begin"
  /\ refresh' = [at |-> IF eligible = {} THEN "over" ELSE "asking", asks |-> eligible]
  /\ owed' = FALSE
  /\ UNCHANGED <<scraper, timer, handed, again, eligible, budget, stats>>

--------------------------------------------------------------------------------
(* The answers of a tracker to the batches of one refresh: one batch that    *)
(* fails raises, and the answers of those before it are lost; a tracker may  *)
(* answer without data for a swarm.                                         *)

BatchesOf(asks) == (Cardinality(asks) + Batch - 1) \div Batch
Faults == {"Timeout", "Error", "Unsupported"}

Outcome(asks, fault, known) ==
  [s \in Swarms |-> IF s \notin asks THEN stats[s]
                    ELSE IF fault \in Faults THEN fault
                    ELSE IF s \in known THEN "Active" ELSE "No Data"]

(* Mutant: what the batches before the failure said is used.                *)
BatchRepliesPartly(asks) ==
  {Outcome(asks, "none", known) : known \in SUBSET asks}
    \cup {Outcome({s}, f, {}) : s \in asks, f \in Faults}

BatchReplies(asks) ==
  {Outcome(asks, "none", known) : known \in SUBSET asks}
    \cup {Outcome(asks, f, {}) : f \in Faults}

(* _scrape_group: the results are handed to the swarms in one step; those of *)
(* sessions stopped meanwhile as well.                                      *)
TrackerAnswers ==
  /\ refresh.at = "asking"
  /\ BatchesOf(refresh.asks) > 0
  /\ stats' \in BatchReplies(refresh.asks)
  /\ refresh' = [refresh EXCEPT !.at = "over"]
  /\ UNCHANGED <<scraper, timer, handed, again, eligible, budget, owed>>

(* _refresh_done                                                            *)
RefreshDone ==
  /\ refresh.at = "over" /\ refresh' = NoRefresh
  /\ again' = FALSE
  /\ timer' = IF again THEN Scheduled(0)
              ELSE IF eligible /= {} THEN Scheduled(Interval) ELSE timer
  /\ UNCHANGED <<scraper, handed, eligible, budget, owed, stats>>

CloseScraper ==
  /\ scraper = "open" /\ scraper' = "closed"
  /\ timer' = Never /\ again' = FALSE /\ refresh' = NoRefresh
  /\ UNCHANGED <<handed, eligible, budget, owed, stats>>

(* Starting or stopping a session asks for a refresh (_rebalance_queue).    *)
SessionChanges(s) ==
  /\ scraper = "open" /\ budget > 0 /\ budget' = budget - 1
  /\ eligible' = (eligible \ {s}) \cup ({s} \ eligible)
  /\ handed' = handed \cup {1} /\ owed' = TRUE
  /\ UNCHANGED <<scraper, timer, refresh, again, stats>>

ScrapeStep ==
  \/ LaunchRefresh \/ LookAtSessions \/ TrackerAnswers \/ RefreshDone
  \/ \E d \in Delays : Schedule(d)

ScrapeNext ==
  \/ StartScraper \/ CloseScraper \/ ScrapeStep
  \/ \E d \in Delays : RequestRefresh(d)
  \/ \E s \in Swarms : SessionChanges(s)

(* The loop makes its calls, timers fire and scrapes end: every request has  *)
(* a timeout.                                                               *)
ScrapeFairness == WF_scrapeVars(ScrapeStep)

ScrapeSpec == ScrapeInit /\ [][ScrapeNext]_scrapeVars /\ ScrapeFairness

--------------------------------------------------------------------------------
ScrapeTypeOK ==
  /\ scraper \in {"new", "open", "closed"} /\ timer \in 0 .. Never
  /\ handed \subseteq Delays /\ again \in BOOLEAN /\ owed \in BOOLEAN
  /\ refresh \in [at : {"none", "begin", "asking", "over"}, asks : SUBSET Swarms]
  /\ eligible \subseteq Swarms /\ budget \in 0 .. MaxRequests
  /\ stats \in [Swarms -> Faults \cup {"Waiting", "Active", "No Data"}]

(* A request that no refresh has served yet is on its way: some call, timer, *)
(* follow-up or task will still look at the sessions.                       *)
NoRequestLost ==
  owed /\ scraper = "open" =>
    handed /= {} \/ timer /= Never \/ again \/ refresh.at = "begin"

(* Nothing is scheduled once the coordinator is closed.                     *)
ClosedIsQuiet == scraper = "closed" => timer = Never /\ refresh = NoRefresh

(* While sessions are running their statistics will be asked for again.     *)
RefreshGoesOn ==
  scraper = "open" /\ eligible /= {} =>
    handed /= {} \/ timer /= Never \/ refresh /= NoRefresh

(* Every swarm a refresh asked for gets a result.                           *)
EverySwarmAnswered == refresh.at = "over" => \A s \in refresh.asks : stats[s] /= "Waiting"

ScrapeSound == NoRequestLost /\ ClosedIsQuiet /\ RefreshGoesOn /\ EverySwarmAnswered

(* A request is followed by a refresh that looks at the sessions after it.  *)
ScrapeFollows == []<>(~owed \/ scraper = "closed")
=============================================================================
