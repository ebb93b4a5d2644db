------------------------------ MODULE SettingsStore ------------------------------
(***************************************************************************)
(* The application settings between launches (settings.py,                  *)
(* settings_salixorm.py and their use in torrent_manager.py): loaded and    *)
(* normalised once, saved whole after each change.  An unreadable           *)
(* settings.json counts as none, an unreadable database is left alone.      *)
(*                                                                          *)
(* The settings are one value: the defaults, a valid choice of the user, or *)
(* one that normalisation brings back into range.                           *)
(***************************************************************************)
EXTENDS Naturals

CONSTANT MaxSettingsOps  \* bound on changes and failures

Blanks == {"nothing", "unreadable"}
SettingsDb == INSTANCE StateDatabase WITH Nothing <- "nothing", Bad <- "unreadable",
                                          Lineage <- {"r2"}

VARIABLES
  settingsBackend,      \* "json" or "salixorm"
  settingsFile,         \* settings.json
  settingsDb,           \* settings.db
  settings,             \* _settings, or "nothing" while the program is not running
  settingsHealthy,      \* _settings_store_healthy
  settingsSaved,        \* did the last save succeed?
  settingsOps

settingsVars == <<settingsBackend, settingsFile, settingsDb, settings, settingsHealthy,
                  settingsSaved, settingsOps>>

SettingsInit ==
  /\ settingsBackend \in {"json", "salixorm"}
  /\ settingsFile \in Blanks \cup {"chosen", "out of range"}
  /\ settingsDb \in IF settingsBackend = "json" THEN {SettingsDb!NoDatabase}
                    ELSE SettingsDb!Databases({"chosen", "out of range"})
  /\ settings = "nothing" /\ settingsHealthy = TRUE /\ settingsSaved = TRUE
  /\ settingsOps = 0

(* _normalise_app_settings.                                                  *)
Normalised(value) == IF value = "out of range" THEN "defaults" ELSE value

(* JsonAppSettingsStore.load.                                                *)
SettingsFileLoad == IF settingsFile = "unreadable" THEN "nothing" ELSE settingsFile

SettingsLoaded ==
  IF settingsBackend = "json" THEN SettingsFileLoad
  ELSE SettingsDb!WithFallback(SettingsDb!DatabaseLoad(settingsDb), SettingsFileLoad)

(* _load_app_settings.  The settings have one revision, and a database with  *)
(* another is refused.                                                       *)
LoadSettings ==
  /\ settings = "nothing"
  /\ settings' = IF SettingsLoaded \in Blanks THEN "defaults" ELSE Normalised(SettingsLoaded)
  /\ settingsHealthy' = (SettingsLoaded /= "unreadable")
  /\ settingsSaved' = TRUE
  /\ UNCHANGED <<settingsBackend, settingsFile, settingsDb, settingsOps>>

(* Mutant: settings are saved although they could not be read.               *)
SaveSettingsAlways(value) ==
  /\ IF settingsBackend = "json" THEN settingsFile' = value /\ UNCHANGED settingsDb
     ELSE settingsDb' = SettingsDb!AfterSave(settingsDb, value) /\ UNCHANGED settingsFile
  /\ settingsSaved' = TRUE /\ UNCHANGED settingsHealthy

(* save_app_settings.                                                        *)
SaveSettings(value) ==
  \/ ~settingsHealthy /\ UNCHANGED <<settingsFile, settingsDb, settingsSaved, settingsHealthy>>
  \/ /\ settingsHealthy
     /\ settingsBackend = "salixorm" => SettingsDb!Savable(settingsDb)
     /\ IF settingsBackend = "json" THEN settingsFile' = value /\ UNCHANGED settingsDb
        ELSE settingsDb' = SettingsDb!AfterSave(settingsDb, value) /\ UNCHANGED settingsFile
     /\ settingsSaved' = TRUE /\ UNCHANGED settingsHealthy
  \/ /\ settingsHealthy /\ settingsSaved' = FALSE /\ settingsHealthy' = FALSE
     /\ UNCHANGED <<settingsFile, settingsDb>>

(* update_app_settings and reset_app_settings.                               *)
ChangeSettings(value) ==
  /\ settings /= "nothing" /\ settingsOps < MaxSettingsOps
  /\ settingsOps' = settingsOps + 1 /\ settings' = Normalised(value)
  /\ SaveSettings(settings')
  /\ UNCHANGED settingsBackend

QuitSettings ==
  /\ settings /= "nothing" /\ settings' = "nothing"
  /\ UNCHANGED <<settingsBackend, settingsFile, settingsDb, settingsHealthy, settingsSaved,
                 settingsOps>>

SettingsNext ==
  \/ LoadSettings \/ QuitSettings
  \/ \E value \in {"defaults", "chosen", "out of range"} : ChangeSettings(value)

SettingsSpec == SettingsInit /\ [][SettingsNext]_settingsVars

--------------------------------------------------------------------------------
(* What is used is in range, and, if it could be saved, what the next launch *)
(* will load.                                                                *)
SettingsKept ==
  settings /= "nothing" =>
    /\ settings \in {"defaults", "chosen"}
    /\ settingsHealthy /\ settingsSaved =>
         \/ SettingsLoaded \notin Blanks /\ Normalised(SettingsLoaded) = settings
         \/ SettingsLoaded = "nothing" /\ settings = "defaults"

(* Rows of a database that cannot be read are never replaced, and            *)
(* settings.json is left alone while the database is used.                   *)
UnreadableSettingsKept ==
  [][settingsBackend = "salixorm" =>
       /\ SettingsDb!DatabaseLoad(settingsDb) = "unreadable" => UNCHANGED settingsDb
       /\ UNCHANGED settingsFile]_settingsVars
================================================================================
