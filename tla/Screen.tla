-------------------------------- MODULE Screen --------------------------------
(***************************************************************************)
(* What the program is to its desktop: a window with its tray icon, the       *)
(* table of transfers in it, and the handler that magnet links are opened     *)
(* with.  None reads what another changes.                                    *)
(***************************************************************************)
EXTENDS DesktopShell, ShellRegistration, TransferView

ScreenSpec == DesktopSpec /\ RegistrySpec /\ ViewSpec

(* The tray, the magnet handler and the table tell of what there is; see     *)
(* DesktopShell, ShellRegistration and TransferView.                         *)
ScreenSound == DesktopSound /\ ReplacedIsKept /\ ViewSound
================================================================================
