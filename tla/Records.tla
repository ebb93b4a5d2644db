------------------------------- MODULE Records -------------------------------
(***************************************************************************)
(* What the program writes to files of its own, side by side: the records of *)
(* a session, the preferences, and the torrents it makes.  No operation of   *)
(* one touches what another keeps.                                          *)
(***************************************************************************)
EXTENDS SessionStore, SettingsStore, TorrentCreation

RecordsSpec == StoreSpec /\ SettingsSpec /\ CreationSpec

(* What a program that could not read a store must not write over: the       *)
(* session records and the preferences.                                     *)
RecordsKept == UnreadableKept /\ UnreadableSettingsKept

(* What is kept of a session, and the preferences in use, are as they were   *)
(* saved, and a torrent that is made is what the source was.                 *)
RecordsSound == StoreSound /\ SettingsKept /\ CreationSound
================================================================================
