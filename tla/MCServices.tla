------------------------------- MODULE MCServices -------------------------------
(***************************************************************************)
(* Everything beside the transfer itself, in one run: the services of a      *)
(* session, where its peers and its content come from, what is kept of it,   *)
(* and the window it is shown in.  A behaviour belongs to one part, and the  *)
(* others stay as they are after their first state.                         *)
(***************************************************************************)
EXTENDS SwarmSession, PortMapper, Records, PeerSources, Screen, ContentTelemetry

CONSTANTS e1, p1, p2, t1, t2, w1, w2, h1, h2, s1, s2

(* A tracker of a scheme nobody implements, one over UDP and one over HTTP.  *)
MCTrackers == <<"other", "udp", "http">>

(* File lengths: no content, a single file with a part of a piece, empty     *)
(* files first, last and in between, pieces of three files, and whole pieces.*)
MCLayouts == {<<0>>, <<7>>, <<0, 0>>, <<1, 3>>, <<2, 0, 1>>, <<0, 3, 1>>, <<1, 1, 1, 1>>, <<5, 2>>}

VARIABLE part

networkVars == <<swarmVars, mapperVars, pexVars>>
recordVars == <<storeVars, settingsVars, creationVars>>
peerSourceVars == <<announceVars, scrapeVars, dhtVars, lanVars, magnetVars>>
screenVars == <<viewVars, shellVars, asked, registryVars>>
servicesVars == <<part, networkVars, recordVars, peerSourceVars, contentVars, screenVars>>

Parts == {"session", "mapper", "exchange", "store", "settings", "announce", "scrape", "dht",
          "lan", "magnet", "content", "creation", "view", "shell", "registry"}

(* What a part that is not looked at begins with.                           *)
SessionIdle == SwarmInit /\ kind = "download"
ExchangeIdle == PexInit /\ enablePex
StoreIdle == StoreInit /\ backend = "json" /\ autoResume /\ jsonFile = Nothing /\ cached = {}
SettingsIdle == SettingsInit /\ settingsBackend = "json" /\ settingsFile = "nothing"
LanIdle == LanInit /\ address[h1] = "a" /\ address[h2] = "b"
MagnetIdle == MagnetInit /\ genuine = {}
ContentIdle == ContentInit /\ layout = <<0>> /\ generation = "v1"
CreationIdle == CreationInit /\ folder /\ inSource = [n \in Names |-> 1] /\ output = "none"
ViewIdle == ViewInit /\ sessionOrder = << >>
ShellIdle == DesktopInit /\ platform = "windows" /\ ~trayWanted
RegistryIdle == RegistryInit /\ command = Nobody /\ progid = Nobody

Init ==
  /\ part \in Parts
  /\ MapperInit /\ AnnounceInit /\ ScrapeInit /\ DhtInit
  /\ IF part = "session" THEN SwarmInit ELSE SessionIdle
  /\ IF part = "exchange" THEN PexInit ELSE ExchangeIdle
  /\ IF part = "store" THEN StoreInit ELSE StoreIdle
  /\ IF part = "settings" THEN SettingsInit ELSE SettingsIdle
  /\ IF part = "lan" THEN LanInit ELSE LanIdle
  /\ IF part = "magnet" THEN MagnetInit ELSE MagnetIdle
  /\ IF part = "content" THEN ContentInit ELSE ContentIdle
  /\ IF part = "creation" THEN CreationInit ELSE CreationIdle
  /\ IF part = "view" THEN ViewInit ELSE ViewIdle
  /\ IF part = "shell" THEN DesktopInit ELSE ShellIdle
  /\ IF part = "registry" THEN RegistryInit ELSE RegistryIdle

NetworkNext ==
  /\ UNCHANGED <<recordVars, peerSourceVars, contentVars, screenVars>>
  /\ \/ part = "session" /\ SwarmNext /\ UNCHANGED <<mapperVars, pexVars>>
     \/ part = "mapper" /\ MapperNext /\ UNCHANGED <<swarmVars, pexVars>>
     \/ part = "exchange" /\ PexNext /\ UNCHANGED <<swarmVars, mapperVars>>

RecordNext ==
  /\ UNCHANGED <<networkVars, peerSourceVars, contentVars, screenVars>>
  /\ \/ part = "store" /\ StoreNext /\ UNCHANGED <<settingsVars, creationVars>>
     \/ part = "settings" /\ SettingsNext /\ UNCHANGED <<storeVars, creationVars>>
     \/ part = "creation" /\ CreationNext /\ UNCHANGED <<storeVars, settingsVars>>

SourceNext ==
  /\ UNCHANGED <<networkVars, recordVars, contentVars, screenVars>>
  /\ \/ part = "announce" /\ AnnounceNext /\ UNCHANGED <<scrapeVars, dhtVars, lanVars, magnetVars>>
     \/ part = "scrape" /\ ScrapeNext /\ UNCHANGED <<announceVars, dhtVars, lanVars, magnetVars>>
     \/ part = "dht" /\ DhtNext /\ UNCHANGED <<announceVars, scrapeVars, lanVars, magnetVars>>
     \/ part = "lan" /\ LanNext /\ UNCHANGED <<announceVars, scrapeVars, dhtVars, magnetVars>>
     \/ part = "magnet" /\ MagnetNext /\ UNCHANGED <<announceVars, scrapeVars, dhtVars, lanVars>>

TorrentsNext ==
  /\ UNCHANGED <<networkVars, recordVars, peerSourceVars, screenVars>>
  /\ part = "content" /\ ContentNext

ScreenNext ==
  /\ UNCHANGED <<networkVars, recordVars, peerSourceVars, contentVars>>
  /\ \/ part = "view" /\ ViewNext /\ UNCHANGED <<shellVars, asked, registryVars>>
     \/ part = "shell" /\ DesktopNext /\ UNCHANGED <<viewVars, registryVars>>
     \/ part = "registry" /\ RegistryNext /\ UNCHANGED <<viewVars, shellVars, asked>>

Next ==
  /\ UNCHANGED part
  /\ NetworkNext \/ RecordNext \/ SourceNext \/ TorrentsNext \/ ScreenNext

(* The fairness of the parts, as their modules state it; elsewhere than in    *)
(* its part an action is not looked at.                                     *)
Fairness ==
  /\ \A r \in Runs : WF_swarmVars(part = "session" /\ RunStep(r))
  /\ WF_swarmVars(part = "session" /\ ClientSeesEnd)
  /\ WF_swarmVars(part = "session" /\ TunerStep)
  /\ WF_swarmVars(part = "session" /\ \E w \in workers : WorkerProgress(w))
  /\ WF_mapperVars(part = "mapper" /\ MapperStep)
  /\ WF_scrapeVars(part = "scrape" /\ ScrapeStep)
  /\ WF_dhtVars(part = "dht" /\ LookupStep)
  /\ WF_magnetVars(part = "magnet" /\ FetchStep)
  /\ WF_magnetVars(part = "magnet" /\ TimePasses)
  /\ SF_shellVars(part = "shell" /\ Consume)
  /\ WF_shellVars(part = "shell" /\ HidingEnds)
  /\ WF_shellVars(part = "shell" /\ TrayStopped)
  /\ WF_shellVars(part = "shell" /\ WindowMapped)

Spec == Init /\ [][Next]_servicesVars /\ Fairness

(* Every variable keeps its type.                                           *)
ServicesTypeOK ==
  /\ SwarmTypeOK /\ MapperTypeOK /\ PexTypeOK /\ StoreTypeOK
  /\ AnnounceTypeOK /\ ScrapeTypeOK /\ DhtTypeOK /\ LanTypeOK /\ MagnetTypeOK
  /\ ContentTypeOK /\ CreationTypeOK /\ ViewTypeOK /\ DesktopTypeOK /\ RegistryTypeOK

(* The session is one whatever was started and stopped, and no mapping of    *)
(* its ports is lost sight of; see SwarmSession and PortMapper.              *)
NetworkSound == SessionSound /\ MapperSound

(* Every search for peers comes to an end (a scrape that was asked for, a    *)
(* lookup in the DHT, the resolution of a magnet link), and what is asked of *)
(* the tray icon happens.                                                   *)
AskedIsDone == ScrapeFollows /\ LookupEnds /\ ResolverEnds /\ RestoreShows /\ ExitEnds
================================================================================
