---------------------------- MODULE ShellRegistration ----------------------------
(***************************************************************************)
(* SalixTorrent as the handler of .torrent files and magnet links in the     *)
(* Windows registry.  The magnet scheme has one owner: what it replaces is   *)
(* kept in a file, to be put back.  Each value is written by itself and a    *)
(* write may be refused, which ends the registration there; a backup that    *)
(* cannot be written is given up silently.                                  *)
(*                                                                         *)
(* A handler is its command and the surface around it (description, icon);   *)
(* each is known by the program that wrote it.                              *)
(***************************************************************************)
EXTENDS Naturals

CONSTANTS
  Others,          \* other magnet programs
  MaxRegistryOps   \* bound on what is done to the registry

ASSUME RegistryAssumption ==
  Others \cap {"nobody", "salix", "moved"} = {} /\ MaxRegistryOps \in Nat

VARIABLES
  command,         \* who the magnet command starts
  surface,         \* who wrote the description and the icon
  backup,          \* shell_integration_backup.json
  replaced,        \* history: the command SalixTorrent's took the place of
  backupRefused,   \* history: a backup could not be written
  progid,          \* who the .torrent ProgID starts
  openWith,        \* the ProgID is offered for .torrent files
  registryOps

magnetHandlerVars == <<command, surface, backup, replaced, backupRefused>>
torrentHandlerVars == <<progid, openWith>>
registryVars == <<magnetHandlerVars, torrentHandlerVars, registryOps>>

Nobody == "nobody"
Us == "salix"
NoBackup == [command |-> Nobody, surface |-> Nobody]

RegistryInit ==
  /\ command \in Others \cup {Nobody} /\ surface = command
  /\ backup = NoBackup /\ replaced = Nobody /\ backupRefused = FALSE
  /\ progid \in {Nobody, "moved"} /\ openWith = (progid /= Nobody)
  /\ registryOps = 0

Operation == registryOps < MaxRegistryOps /\ registryOps' = registryOps + 1

(* Another program takes the scheme, or gives it up.                        *)
OtherRegisters ==
  /\ Operation /\ \E other \in Others : command' = other /\ surface' = other
  /\ UNCHANGED <<backup, replaced, backupRefused, torrentHandlerVars>>

OtherUnregisters ==
  /\ Operation /\ command \in Others /\ command' = Nobody /\ surface' = Nobody
  /\ UNCHANGED <<backup, replaced, backupRefused, torrentHandlerVars>>

(* Mutant: a handler of our own is backed up as well.                       *)
ToCaptureAnyway == command /= Nobody

(* _capture_existing_magnet_handler: our own command is no previous handler. *)
ToCapture == command \notin {Nobody, Us}

Capture ==
  IF ~ToCapture THEN UNCHANGED <<backup, backupRefused>>
  ELSE \/ backup' = [command |-> command, surface |-> surface] /\ UNCHANGED backupRefused
       \/ backupRefused' = TRUE /\ UNCHANGED backup

(* The command is the last value written.                                   *)
RegisterMagnet ==
  /\ Operation /\ Capture
  /\ surface' \in {surface, Us}
  /\ \/ UNCHANGED <<command, replaced>>
     \/ /\ surface' = Us /\ command' = Us
        /\ replaced' = IF command = Us THEN replaced ELSE command
  /\ UNCHANGED torrentHandlerVars

(* The previous handler comes back only in the place of our own.            *)
UnregisterMagnet ==
  /\ Operation /\ command = Us
  /\ IF backup.command /= Nobody
     THEN surface' \in {surface, backup.surface} /\ command' \in {command, backup.command}
          /\ (command' /= command => surface' = backup.surface)
     ELSE surface' = Nobody /\ command' = Nobody
  /\ backup' \in IF command' = Us THEN {backup} ELSE {backup, NoBackup}
  /\ replaced' = IF command' = Us THEN replaced ELSE Nobody
  /\ UNCHANGED <<backupRefused, torrentHandlerVars>>

(* The program was registered from another place, or its copy there was.     *)
MoveProgram ==
  /\ Operation /\ progid /= Nobody /\ progid' = "moved"
  /\ UNCHANGED <<magnetHandlerVars, openWith>>

RegisterTorrent ==
  /\ Operation
  /\ \/ progid' = Us /\ openWith' = TRUE
     \/ progid' \in {progid, Us} /\ UNCHANGED openWith
  /\ UNCHANGED magnetHandlerVars

UnregisterTorrent ==
  /\ Operation /\ progid = Us
  /\ progid' = Nobody /\ openWith' = FALSE
  /\ UNCHANGED magnetHandlerVars

RegistryNext ==
  \/ OtherRegisters \/ OtherUnregisters \/ RegisterMagnet \/ UnregisterMagnet
  \/ MoveProgram \/ RegisterTorrent \/ UnregisterTorrent

RegistrySpec == RegistryInit /\ [][RegistryNext]_registryVars

--------------------------------------------------------------------------------
RegistryTypeOK ==
  /\ {command, surface, replaced} \subseteq Others \cup {Nobody, Us}
  /\ {backup.command, backup.surface} \subseteq Others \cup {Nobody, Us}
  /\ progid \in {Nobody, Us, "moved"} /\ openWith \in BOOLEAN

(* However often and however incompletely the scheme was taken and given     *)
(* back, the program SalixTorrent took it from can still be put back, unless  *)
(* the file refused the backup; and the ProgID that is offered exists.       *)
ReplacedIsKept ==
  /\ command = Us /\ replaced /= Nobody /\ ~backupRefused => backup.command = replaced
  /\ openWith => progid /= Nobody
================================================================================
