----------------------------- MODULE PeerSources -----------------------------
(***************************************************************************)
(* Where a session hears of its peers and of its content, side by side: the  *)
(* trackers that are announced to and those that are scraped, the DHT, the   *)
(* local network, peers that exchange what they know, and the resolution of  *)
(* a magnet link.  Each keeps state of its own.                             *)
(***************************************************************************)
EXTENDS TrackerAnnounce, ScrapeCoordinator, DhtLookup, LocalDiscovery, MagnetResolver,
        PeerExchange

SourcesSpec == AnnounceSpec /\ ScrapeSpec /\ DhtSpec /\ LanSpec /\ MagnetSpec /\ PexSpec

(* What the sources of peers promise of each state; each conjunct is         *)
(* explained in its module.                                                 *)
SourcesSound ==
  AnnounceSound /\ ScrapeSound /\ DhtSound /\ NotFoundByItself /\ MagnetSound /\ SwarmsKeptApart
================================================================================
