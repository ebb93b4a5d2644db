----------------------------- MODULE ServiceProofs -----------------------------
(***************************************************************************)
(* What the program is to its desktop, for any number of icons, pending      *)
(* actions, other programs, torrents and operations: the window with its     *)
(* tray icon, the magnet handler and the table of transfers.  And all the    *)
(* services of MCServices side by side, whose proofs are in NetworkProofs,   *)
(* RecordProofs, ContentProofs and here.                                     *)
(***************************************************************************)
EXTENDS MCServices, NetworkProofs, RecordProofs, ContentProofs

(* The window and its icon (desktop_integration.py, gui_engine.py).          *)

(* The types that matter here: the icons, the window and the loop.           *)
ShellTypes ==
  /\ icon \in [Icons -> {"none", "starting", "live", "ended"}]
  /\ window \in {"shown", "minimised", "hidden", "mapping"}
  /\ ui \in {"loop", "stopping", "closing", "minimising", "sweeping", "ending", "ended"}
TrayFlags == trayRunning \in BOOLEAN /\ bound \in BOOLEAN

(* Whenever running is set, an icon is there, but while an icon is being     *)
(* stopped.                                                                  *)
RunningHasIcon == trayRunning /\ ui \notin {"stopping", "ending"} => LiveIcons # {}

(* A window is hidden only through its native handle.                        *)
HiddenIsBound == window = "hidden" => bound

(* The inductive invariant of the window and its icon.                       *)
ShellInv == ShellTypes /\ TrayFlags /\ RunningHasIcon /\ HiddenIsBound

(* start(): an icon that has a thread is not there yet.                      *)
LEMMA StartedTray ==
  ASSUME ShellTypes, TrayFlags, StartTray
  PROVE  /\ icon' \in [Icons -> {"none", "starting", "live", "ended"}]
         /\ trayRunning' \in BOOLEAN /\ (trayRunning' => trayRunning)
         /\ {i \in Icons : icon'[i] = "live"} = LiveIcons
<1>1. CASE UNCHANGED trayVars
  BY <1>1 DEF ShellTypes, TrayFlags, LiveIcons, trayVars
<1>2. CASE ~ Windows /\ supported' = FALSE /\ UNCHANGED <<icon, current, trayRunning>>
  BY <1>2 DEF ShellTypes, TrayFlags, LiveIcons
<1>3. ASSUME NEW i \in Icons, icon[i] = "none", icon' = [icon EXCEPT ![i] = "starting"],
             trayRunning' = (trayRunning /\ ~ Windows)
      PROVE  /\ icon' \in [Icons -> {"none", "starting", "live", "ended"}]
             /\ trayRunning' \in BOOLEAN /\ (trayRunning' => trayRunning)
             /\ {j \in Icons : icon'[j] = "live"} = LiveIcons
  <2>1. icon' \in [Icons -> {"none", "starting", "live", "ended"}]
    BY <1>3 DEF ShellTypes
  <2>2. {j \in Icons : icon'[j] = "live"} = LiveIcons
    BY <1>3 DEF LiveIcons
  <2>3. trayRunning' \in BOOLEAN /\ (trayRunning' => trayRunning)
    BY <1>3
  <2> QED
    BY <2>1, <2>2, <2>3
<1> QED
  BY <1>1, <1>2, <1>3 DEF StartTray

(* stop(): running is unset, or the loop is waiting for the thread to end.   *)
LEMMA StoppedTray ==
  ASSUME ShellTypes, TrayFlags, NEW next \in {"loop", "ending"}, StopTray(next)
  PROVE  /\ icon' \in [Icons -> {"none", "starting", "live", "ended"}]
         /\ trayRunning' \in BOOLEAN
         /\ ui' \in {"loop", "stopping", "ending", "ended"}
         /\ trayRunning' => ui' \in {"stopping", "ending"}
BY DEF StopTray, ShellTypes, TrayFlags

(* A handle that was found is kept.                                          *)
LEMMA BoundStays ==
  ASSUME TrayFlags, Bind
  PROVE  bound' \in BOOLEAN /\ (bound => bound')
<1>1. bound' = bound \/ bound' = TRUE
  BY DEF Bind
<1>2. bound' \in BOOLEAN
  BY <1>1 DEF TrayFlags
<1>3. bound => bound'
  BY <1>1, Zenon
<1> QED
  BY <1>2, <1>3

(* show_and_activate().                                                      *)
LEMMA ShowViewportKeeps ==
  ASSUME ShellInv, ShowViewport
  PROVE  ShellInv'
<1> USE DEF ShellInv
<1>1. ShellTypes'
  BY DEF ShowViewport, trayVars, ShellTypes
<1>2. TrayFlags'
  BY BoundStays DEF ShowViewport, trayVars, TrayFlags
<1>3. RunningHasIcon'
  BY DEF ShowViewport, trayVars, RunningHasIcon, LiveIcons
<1>4. HiddenIsBound'
  BY BoundStays DEF ShowViewport, HiddenIsBound
<1> QED
  BY <1>1, <1>2, <1>3, <1>4

(* The window is closed: to the tray, or the program ends.                   *)
LEMMA CloseRequestedKeeps ==
  ASSUME ShellInv, CloseRequested
  PROVE  ShellInv'
<1> USE DEF ShellInv
<1>1. ShellTypes'
  <2>1. ASSUME MayUseTray, ui' = "closing", UNCHANGED trayVars PROVE ShellTypes'
    BY <2>1 DEF CloseRequested, windowVars, trayVars, ShellTypes
  <2>2. ASSUME StopTray("ending"), UNCHANGED <<window, bound>> PROVE ShellTypes'
    BY <2>2, StoppedTray DEF ShellTypes
  <2> QED
    BY <2>1, <2>2 DEF CloseRequested, windowVars
<1>2. TrayFlags'
  <2>1. ASSUME MayUseTray, ui' = "closing", UNCHANGED trayVars PROVE TrayFlags'
    BY <2>1 DEF CloseRequested, windowVars, trayVars, TrayFlags
  <2>2. ASSUME StopTray("ending"), UNCHANGED <<window, bound>> PROVE TrayFlags'
    BY <2>2, StoppedTray DEF TrayFlags
  <2> QED
    BY <2>1, <2>2 DEF CloseRequested, windowVars
<1>3. RunningHasIcon'
  <2>1. ASSUME MayUseTray, ui' = "closing", UNCHANGED trayVars PROVE RunningHasIcon'
    BY <2>1 DEF CloseRequested, Consumes, trayVars, RunningHasIcon, LiveIcons
  <2>2. ASSUME StopTray("ending"), UNCHANGED <<window, bound>> PROVE RunningHasIcon'
    BY <2>2, StoppedTray DEF RunningHasIcon
  <2> QED
    BY <2>1, <2>2 DEF CloseRequested, windowVars
<1>4. HiddenIsBound'
  BY DEF CloseRequested, windowVars, HiddenIsBound
<1> QED
  BY <1>1, <1>2, <1>3, <1>4

(* It is minimised: to the tray, or by the window system.                    *)
LEMMA MinimiseRequestedKeeps ==
  ASSUME ShellInv, MinimiseRequested
  PROVE  ShellInv'
<1> USE DEF ShellInv
<1>1. ShellTypes'
  BY DEF MinimiseRequested, trayVars, ShellTypes
<1>2. TrayFlags'
  BY DEF MinimiseRequested, trayVars, TrayFlags
<1>3. RunningHasIcon'
  BY DEF MinimiseRequested, Consumes, trayVars, RunningHasIcon, LiveIcons
<1>4. HiddenIsBound'
  BY DEF MinimiseRequested, HiddenIsBound
<1> QED
  BY <1>1, <1>2, <1>3, <1>4

(* The icon asks to exit.                                                    *)
LEMMA ExitRequestedKeeps ==
  ASSUME ShellInv, ExitRequested
  PROVE  ShellInv'
<1> USE DEF ShellInv
<1>1. ShellTypes'
  <2>2. ASSUME StopTray("ending"), UNCHANGED <<window, bound>> PROVE ShellTypes'
    BY <2>2, StoppedTray DEF ShellTypes
  <2> QED
    BY <2>2 DEF ExitRequested, windowVars
<1>2. TrayFlags'
  <2>2. ASSUME StopTray("ending"), UNCHANGED <<window, bound>> PROVE TrayFlags'
    BY <2>2, StoppedTray DEF TrayFlags
  <2> QED
    BY <2>2 DEF ExitRequested, windowVars
<1>3. RunningHasIcon'
  <2>2. ASSUME StopTray("ending"), UNCHANGED <<window, bound>> PROVE RunningHasIcon'
    BY <2>2, StoppedTray DEF RunningHasIcon
  <2> QED
    BY <2>2 DEF ExitRequested, windowVars
<1>4. HiddenIsBound'
  BY DEF ExitRequested, windowVars, HiddenIsBound
<1> QED
  BY <1>1, <1>2, <1>3, <1>4

(* hide_viewport looks at the tray again.                                    *)
LEMMA HidingEndsKeeps ==
  ASSUME ShellInv, HidingEnds
  PROVE  ShellInv'
<1> USE DEF ShellInv
<1>1. ShellTypes'
  <2>1. ASSUME ui' = "loop", UNCHANGED trayVars PROVE ShellTypes'
    BY <2>1 DEF HidingEnds, HideViewport, Hidden, trayVars, ShellTypes
  <2>2. ASSUME StopTray("ending"), UNCHANGED <<window, bound>> PROVE ShellTypes'
    BY <2>2, StoppedTray DEF ShellTypes
  <2> QED
    BY <2>1, <2>2 DEF HidingEnds, HideViewport
<1>2. TrayFlags'
  <2>1. ASSUME ui' = "loop", UNCHANGED trayVars PROVE TrayFlags'
    BY <2>1 DEF HidingEnds, trayVars, TrayFlags
  <2>2. ASSUME StopTray("ending"), UNCHANGED <<window, bound>> PROVE TrayFlags'
    BY <2>2, StoppedTray DEF TrayFlags
  <2> QED
    BY <2>1, <2>2 DEF HidingEnds, HideViewport
<1>3. RunningHasIcon'
  <2>1. ASSUME ui' = "loop", UNCHANGED trayVars PROVE RunningHasIcon'
    BY <2>1 DEF HidingEnds, trayVars, RunningHasIcon, LiveIcons
  <2>2. ASSUME StopTray("ending"), UNCHANGED <<window, bound>> PROVE RunningHasIcon'
    BY <2>2, StoppedTray DEF RunningHasIcon
  <2> QED
    BY <2>1, <2>2 DEF HidingEnds, HideViewport
<1>4. HiddenIsBound'
  BY DEF HidingEnds, HideViewport, HiddenIsBound
<1> QED
  BY <1>1, <1>2, <1>3, <1>4

(* The thread was joined, or did not end in time.                            *)
LEMMA TrayStoppedKeeps ==
  ASSUME ShellInv, TrayStopped
  PROVE  ShellInv'
<1> USE DEF ShellInv
<1>1. ShellTypes'
  BY DEF TrayStopped, windowVars, ShellTypes
<1>2. TrayFlags'
  BY DEF TrayStopped, windowVars, TrayFlags
<1>3. RunningHasIcon'
  BY DEF TrayStopped, RunningHasIcon
<1>4. HiddenIsBound'
  BY DEF TrayStopped, windowVars, HiddenIsBound
<1> QED
  BY <1>1, <1>2, <1>3, <1>4

(* maintain() starts the tray again.                                         *)
LEMMA MaintainKeeps ==
  ASSUME ShellInv, Maintain
  PROVE  ShellInv'
<1> USE DEF ShellInv
<1>1. ShellTypes'
  <2>1. ui' = ui /\ window' = window /\ bound' \in BOOLEAN
    BY BoundStays DEF Maintain
  <2>2. ASSUME StartTray PROVE ShellTypes'
    BY <2>1, <2>2, StartedTray DEF ShellTypes
  <2>3. ASSUME UNCHANGED trayVars PROVE ShellTypes'
    BY <2>1, <2>3 DEF trayVars, ShellTypes
  <2> QED
    BY <2>2, <2>3 DEF Maintain
<1>2. TrayFlags'
  <2>1. ui' = ui /\ window' = window /\ bound' \in BOOLEAN
    BY BoundStays DEF Maintain
  <2>2. ASSUME StartTray PROVE TrayFlags'
    BY <2>1, <2>2, StartedTray DEF TrayFlags
  <2>3. ASSUME UNCHANGED trayVars PROVE TrayFlags'
    BY <2>1, <2>3 DEF trayVars, TrayFlags
  <2> QED
    BY <2>2, <2>3 DEF Maintain
<1>3. RunningHasIcon'
  <2>1. ui' = ui /\ window' = window /\ bound' \in BOOLEAN
    BY BoundStays DEF Maintain
  <2>2. ASSUME StartTray PROVE RunningHasIcon'
    BY <2>1, <2>2, StartedTray DEF RunningHasIcon, LiveIcons
  <2>3. ASSUME UNCHANGED trayVars PROVE RunningHasIcon'
    BY <2>1, <2>3 DEF trayVars, RunningHasIcon, LiveIcons
  <2> QED
    BY <2>2, <2>3 DEF Maintain
<1>4. HiddenIsBound'
  BY BoundStays DEF Maintain, HiddenIsBound
<1> QED
  BY <1>1, <1>2, <1>3, <1>4

(* The loop sees that the window was minimised.                              *)
LEMMA SeesMinimisedKeeps ==
  ASSUME ShellInv, SeesMinimised
  PROVE  ShellInv'
<1> USE DEF ShellInv
<1>1. ShellTypes'
  BY DEF SeesMinimised, windowVars, trayVars, ShellTypes
<1>2. TrayFlags'
  BY DEF SeesMinimised, windowVars, trayVars, TrayFlags
<1>3. RunningHasIcon'
  BY DEF SeesMinimised, trayVars, RunningHasIcon, LiveIcons
<1>4. HiddenIsBound'
  BY DEF SeesMinimised, windowVars, HiddenIsBound
<1> QED
  BY <1>1, <1>2, <1>3, <1>4

(* The window manager maps the window.                                       *)
LEMMA WindowMappedKeeps ==
  ASSUME ShellInv, WindowMapped
  PROVE  ShellInv'
<1> USE DEF ShellInv
<1>1. ShellTypes'
  BY DEF WindowMapped, trayVars, ShellTypes
<1>2. TrayFlags'
  BY DEF WindowMapped, trayVars, TrayFlags
<1>3. RunningHasIcon'
  BY DEF WindowMapped, trayVars, RunningHasIcon, LiveIcons
<1>4. HiddenIsBound'
  BY DEF WindowMapped, HiddenIsBound
<1> QED
  BY <1>1, <1>2, <1>3, <1>4

(* The user closes the window,                                               *)
LEMMA CloseWindowKeeps ==
  ASSUME ShellInv, CloseWindow
  PROVE  ShellInv'
<1> USE DEF ShellInv
<1>1. ShellTypes'
  BY DEF CloseWindow, windowVars, trayVars, ShellTypes
<1>2. TrayFlags'
  BY DEF CloseWindow, windowVars, trayVars, TrayFlags
<1>3. RunningHasIcon'
  BY DEF CloseWindow, trayVars, RunningHasIcon, LiveIcons
<1>4. HiddenIsBound'
  BY DEF CloseWindow, windowVars, HiddenIsBound
<1> QED
  BY <1>1, <1>2, <1>3, <1>4

(* minimises it,                                                             *)
LEMMA MinimiseWindowKeeps ==
  ASSUME ShellInv, MinimiseWindow
  PROVE  ShellInv'
<1> USE DEF ShellInv
<1>1. ShellTypes'
  BY DEF MinimiseWindow, trayVars, ShellTypes
<1>2. TrayFlags'
  BY DEF MinimiseWindow, trayVars, TrayFlags
<1>3. RunningHasIcon'
  BY DEF MinimiseWindow, trayVars, RunningHasIcon, LiveIcons
<1>4. HiddenIsBound'
  BY DEF MinimiseWindow, HiddenIsBound
<1> QED
  BY <1>1, <1>2, <1>3, <1>4

(* or restores it.                                                           *)
LEMMA RestoreWindowKeeps ==
  ASSUME ShellInv, RestoreWindow
  PROVE  ShellInv'
<1> USE DEF ShellInv
<1>1. ShellTypes'
  BY DEF RestoreWindow, trayVars, ShellTypes
<1>2. TrayFlags'
  BY DEF RestoreWindow, trayVars, TrayFlags
<1>3. RunningHasIcon'
  BY DEF RestoreWindow, trayVars, RunningHasIcon, LiveIcons
<1>4. HiddenIsBound'
  BY DEF RestoreWindow, HiddenIsBound
<1> QED
  BY <1>1, <1>2, <1>3, <1>4

(* configure(), from Preferences.                                            *)
LEMMA ConfigureKeeps ==
  ASSUME ShellInv, NEW on \in BOOLEAN, Configure(on)
  PROVE  ShellInv'
<1> USE DEF ShellInv
<1>1. ShellTypes'
  <2>1. ASSUME StartTray, ui' = ui, UNCHANGED <<window, bound>> PROVE ShellTypes'
    BY <2>1, StartedTray DEF ShellTypes
  <2>2. ASSUME StopTray("loop"), UNCHANGED <<window, bound>> PROVE ShellTypes'
    BY <2>2, StoppedTray DEF ShellTypes
  <2> QED
    BY <2>1, <2>2 DEF Configure, windowVars
<1>2. TrayFlags'
  <2>1. ASSUME StartTray, ui' = ui, UNCHANGED <<window, bound>> PROVE TrayFlags'
    BY <2>1, StartedTray DEF TrayFlags
  <2>2. ASSUME StopTray("loop"), UNCHANGED <<window, bound>> PROVE TrayFlags'
    BY <2>2, StoppedTray DEF TrayFlags
  <2> QED
    BY <2>1, <2>2 DEF Configure, windowVars
<1>3. RunningHasIcon'
  <2>1. ASSUME StartTray, ui' = ui, UNCHANGED <<window, bound>> PROVE RunningHasIcon'
    BY <2>1, StartedTray DEF RunningHasIcon, LiveIcons
  <2>2. ASSUME StopTray("loop"), UNCHANGED <<window, bound>> PROVE RunningHasIcon'
    BY <2>2, StoppedTray DEF RunningHasIcon
  <2> QED
    BY <2>1, <2>2 DEF Configure, windowVars
<1>4. HiddenIsBound'
  BY DEF Configure, windowVars, HiddenIsBound
<1> QED
  BY <1>1, <1>2, <1>3, <1>4

(* The thread of an icon has shown it.                                       *)
LEMMA IconUpKeeps ==
  ASSUME ShellInv, NEW i \in Icons, IconUp(i)
  PROVE  ShellInv'
<1> USE DEF ShellInv
<1>1. ShellTypes'
  BY DEF IconUp, windowVars, ShellTypes
<1>2. TrayFlags'
  BY DEF IconUp, windowVars, TrayFlags
<1>3. RunningHasIcon'
  BY DEF IconUp, LiveIcons, RunningHasIcon, ShellTypes
<1>4. HiddenIsBound'
  BY DEF IconUp, windowVars, HiddenIsBound
<1> QED
  BY <1>1, <1>2, <1>3, <1>4

(* It ends, and unsets running whoever has set it.                           *)
LEMMA ThreadEndsKeeps ==
  ASSUME ShellInv, NEW i \in Icons, ThreadEnds(i)
  PROVE  ShellInv'
<1> USE DEF ShellInv
<1>1. ShellTypes'
  BY DEF ThreadEnds, IconEnds, windowVars, ShellTypes
<1>2. TrayFlags'
  BY DEF ThreadEnds, IconEnds, windowVars, TrayFlags
<1>3. RunningHasIcon'
  BY DEF ThreadEnds, IconEnds, RunningHasIcon, ShellTypes, LiveIcons
<1>4. HiddenIsBound'
  BY DEF ThreadEnds, windowVars, HiddenIsBound
<1> QED
  BY <1>1, <1>2, <1>3, <1>4

(* The user clicks on the icon to open,                                      *)
LEMMA ClickOpenKeeps ==
  ASSUME ShellInv, NEW i \in Icons, ClickOpen(i)
  PROVE  ShellInv'
<1> USE DEF ShellInv
<1>1. ShellTypes'
  BY DEF ClickOpen, trayVars, ShellTypes
<1>2. TrayFlags'
  BY DEF ClickOpen, trayVars, TrayFlags
<1>3. RunningHasIcon'
  BY DEF ClickOpen, trayVars, RunningHasIcon, LiveIcons
<1>4. HiddenIsBound'
  BY DEF ClickOpen, HiddenIsBound
<1> QED
  BY <1>1, <1>2, <1>3, <1>4

(* or to exit.                                                               *)
LEMMA ClickExitKeeps ==
  ASSUME ShellInv, NEW i \in Icons, ClickExit(i)
  PROVE  ShellInv'
<1> USE DEF ShellInv
<1>1. ShellTypes'
  BY DEF ClickExit, windowVars, trayVars, ShellTypes
<1>2. TrayFlags'
  BY DEF ClickExit, windowVars, trayVars, TrayFlags
<1>3. RunningHasIcon'
  BY DEF ClickExit, trayVars, RunningHasIcon, LiveIcons
<1>4. HiddenIsBound'
  BY DEF ClickExit, windowVars, HiddenIsBound
<1> QED
  BY <1>1, <1>2, <1>3, <1>4

(* Every step of the loop, of the threads and of the user keeps the          *)
(* invariant.                                                                *)
LEMMA ShellInvNext ==
  ASSUME ShellInv, [ShellStep]_shellVars
  PROVE  ShellInv'
<1>1. CASE ShowViewport
  BY <1>1, ShowViewportKeeps
<1>2. CASE CloseRequested
  BY <1>2, CloseRequestedKeeps
<1>3. CASE MinimiseRequested
  BY <1>3, MinimiseRequestedKeeps
<1>4. CASE ExitRequested
  BY <1>4, ExitRequestedKeeps
<1>5. CASE HidingEnds
  BY <1>5, HidingEndsKeeps
<1>6. CASE TrayStopped
  BY <1>6, TrayStoppedKeeps
<1>7. CASE Maintain
  BY <1>7, MaintainKeeps
<1>8. CASE SeesMinimised
  BY <1>8, SeesMinimisedKeeps
<1>9. CASE WindowMapped
  BY <1>9, WindowMappedKeeps
<1>10. CASE CloseWindow
  BY <1>10, CloseWindowKeeps
<1>11. CASE MinimiseWindow
  BY <1>11, MinimiseWindowKeeps
<1>12. CASE RestoreWindow
  BY <1>12, RestoreWindowKeeps
<1>13. ASSUME NEW on \in BOOLEAN, Configure(on) PROVE ShellInv'
  BY <1>13, ConfigureKeeps
<1>14. ASSUME NEW i \in Icons, IconUp(i) PROVE ShellInv'
  BY <1>14, IconUpKeeps
<1>15. ASSUME NEW i \in Icons, ThreadEnds(i) PROVE ShellInv'
  BY <1>15, ThreadEndsKeeps
<1>16. ASSUME NEW i \in Icons, ClickOpen(i) PROVE ShellInv'
  BY <1>16, ClickOpenKeeps
<1>17. ASSUME NEW i \in Icons, ClickExit(i) PROVE ShellInv'
  BY <1>17, ClickExitKeeps
<1>18. CASE UNCHANGED shellVars
  BY <1>18 DEF shellVars, windowVars, trayVars, LiveIcons, ShellInv, ShellTypes, TrayFlags,
     RunningHasIcon, HiddenIsBound
<1> QED
  BY <1>1, <1>2, <1>3, <1>4, <1>5, <1>6, <1>7, <1>8, <1>9, <1>10, <1>11, <1>12, <1>13, <1>14, <1>15,
     <1>16, <1>17, <1>18 DEF ShellStep, Consume

(* The program begins without an icon.                                       *)
LEMMA ShellInvInit == DesktopInit => ShellInv
<1> SUFFICES ASSUME DesktopInit PROVE ShellInv
  OBVIOUS
<1>1. ShellTypes
  BY DEF DesktopInit, ShellTypes
<1>2. TrayFlags /\ RunningHasIcon /\ HiddenIsBound
  BY DEF DesktopInit, TrayFlags, RunningHasIcon, HiddenIsBound
<1> QED
  BY <1>1, <1>2 DEF ShellInv

(* For any number of icons and pending actions, on every platform: running   *)
(* says that there is an icon, and a hidden window can be shown again        *)
(* (hide_viewport, TrayController).                                          *)
THEOREM DesktopIsSound == DesktopSpec => []DesktopSound
<1>1. ShellInv => DesktopSound
  BY DEF ShellInv, RunningHasIcon, HiddenIsBound, DesktopSound
<1>2. ASSUME ShellInv, [DesktopNext]_<<shellVars, asked>> PROVE ShellInv'
  <2>1. [ShellStep]_shellVars
    BY <1>2 DEF DesktopNext
  <2> QED
    BY <1>2, <2>1, ShellInvNext
<1> QED
  BY <1>1, <1>2, ShellInvInit, PTL DEF DesktopSpec

(* The rest of what the window and its icon are.                             *)
ShellFields ==
  /\ current \in 0 .. MaxIcons
  /\ trayWanted \in BOOLEAN /\ bridged \in BOOLEAN /\ supported \in BOOLEAN /\ asked \in BOOLEAN
  /\ actions \in Seq({"restore", "exit", "close", "minimise"}) /\ Len(actions) <= MaxActions

LEMMA StartedFields ==
  ASSUME ShellFields, StartTray
  PROVE  current' \in 0 .. MaxIcons /\ supported' \in BOOLEAN
<1>1. CASE UNCHANGED trayVars
  BY <1>1 DEF ShellFields, trayVars
<1>2. CASE supported' = FALSE /\ UNCHANGED current
  BY <1>2 DEF ShellFields
<1>3. CASE supported' = supported /\ \E i \in Icons : current' = i
  BY <1>3, ShellAssumption DEF ShellAssumption, ShellFields, Icons
<1> QED
  BY <1>1, <1>2, <1>3, Zenon DEF StartTray

LEMMA StoppedFields ==
  ASSUME ShellFields, NEW next, StopTray(next)
  PROVE  current' \in 0 .. MaxIcons /\ supported' \in BOOLEAN
BY DEF ShellFields, StopTray

LEMMA PendedFields ==
  ASSUME ShellFields, NEW action \in {"restore", "exit", "close", "minimise"}, Pend(action)
  PROVE  actions' \in Seq({"restore", "exit", "close", "minimise"}) /\ Len(actions') <= MaxActions
<1>1. /\ Append(actions, action) \in Seq({"restore", "exit", "close", "minimise"})
      /\ Len(Append(actions, action)) = Len(actions) + 1 /\ Len(actions) \in Nat
  BY AppendProperties, LenProperties DEF ShellFields
<1> QED
  BY <1>1, ShellAssumption DEF ShellAssumption, Pend

LEMMA ConsumedFields ==
  ASSUME ShellFields, NEW action, Consumes(action)
  PROVE  actions' \in Seq({"restore", "exit", "close", "minimise"}) /\ Len(actions') <= MaxActions
<1>1. actions' = Tail(actions) /\ actions # << >>
  BY DEF Consumes
<1>2. /\ Tail(actions) \in Seq({"restore", "exit", "close", "minimise"})
      /\ Len(Tail(actions)) = Len(actions) - 1 /\ Len(actions) \in Nat
  BY <1>1, HeadTailProperties, LenProperties DEF ShellFields
<1> QED
  BY <1>1, <1>2, ShellAssumption DEF ShellAssumption, ShellFields

(* Every step keeps them.                                                   *)
LEMMA ShellFieldsNext ==
  ASSUME ShellInv, ShellFields, [DesktopNext]_<<shellVars, asked>>
  PROVE  ShellFields'
<1>1. CASE UNCHANGED <<shellVars, asked>>
  BY <1>1 DEF ShellFields, shellVars, windowVars, trayVars
<1>2. CASE DesktopNext
  <2>1. asked' \in BOOLEAN
    BY <1>2 DEF DesktopNext, ShellFields
  <2>2. Bind => bridged' \in BOOLEAN
    BY DEF Bind, ShellFields, ShellInv, TrayFlags
  <2> USE DEF windowVars, trayVars
  <2>3. CASE ShowViewport
    BY <2>1, <2>2, <2>3, ConsumedFields DEF ShowViewport, ShellFields
  <2>4. CASE CloseRequested \/ ExitRequested
    BY <2>1, <2>4, ConsumedFields, StoppedFields DEF CloseRequested, ExitRequested, ShellFields
  <2>5. CASE MinimiseRequested
    BY <2>1, <2>5, ConsumedFields DEF MinimiseRequested, ShellFields
  <2>6. CASE HidingEnds
    <3>1. current' \in 0 .. MaxIcons /\ supported' \in BOOLEAN
      BY <2>6, StoppedFields DEF HidingEnds, HideViewport, ShellFields
    <3> QED
      BY <2>1, <2>6, <3>1 DEF HidingEnds, ShellFields
  <2>7. CASE TrayStopped
    BY <2>1, <2>7, ShellAssumption DEF ShellAssumption, TrayStopped, ShellFields
  <2>8. CASE Maintain
    BY <2>1, <2>2, <2>8, StartedFields DEF Maintain, ShellFields
  <2>9. CASE SeesMinimised \/ WindowMapped \/ RestoreWindow
    BY <2>1, <2>9 DEF SeesMinimised, WindowMapped, RestoreWindow, ShellFields
  <2>10. CASE CloseWindow \/ MinimiseWindow
    BY <2>1, <2>10, PendedFields DEF CloseWindow, MinimiseWindow, ShellFields
  <2>11. ASSUME NEW on \in BOOLEAN, Configure(on) PROVE ShellFields'
    BY <2>1, <2>11, StartedFields, StoppedFields DEF Configure, ShellFields
  <2>12. ASSUME NEW i \in Icons, IconUp(i) \/ ThreadEnds(i) \/ ClickOpen(i) \/ ClickExit(i)
         PROVE  ShellFields'
    BY <2>1, <2>12, PendedFields DEF IconUp, ThreadEnds, ClickOpen, ClickExit, ShellFields
  <2> QED
    BY <1>2, <2>3, <2>4, <2>5, <2>6, <2>7, <2>8, <2>9, <2>10, <2>11, <2>12
    DEF DesktopNext, ShellStep, Consume
<1> QED
  BY <1>1, <1>2

LEMMA ShellFieldsInit == DesktopInit => ShellFields
<1> SUFFICES ASSUME DesktopInit PROVE ShellFields
  OBVIOUS
<1>1. actions = << >> /\ current = 0
  BY DEF DesktopInit
<1>2. << >> \in Seq({"restore", "exit", "close", "minimise"}) /\ Len(<< >>) = 0
  BY EmptySeq
<1>3. trayWanted \in BOOLEAN /\ bridged \in BOOLEAN /\ supported \in BOOLEAN /\ asked \in BOOLEAN
  BY Zenon DEF DesktopInit
<1> QED
  BY <1>1, <1>2, <1>3, ShellAssumption DEF ShellAssumption, ShellFields

LEMMA ShellFieldsTypes == ShellInv /\ ShellFields => DesktopTypeOK
BY DEF ShellInv, ShellTypes, TrayFlags, ShellFields, DesktopTypeOK

--------------------------------------------------------------------------------
(* The magnet handler (shell_integration.py).                                *)

(* The types; the backup is of another program's handler, never of ours.    *)
RegistryInv ==
  /\ command \in Others \cup {Nobody, Us} /\ surface \in Others \cup {Nobody, Us}
  /\ replaced \in Others \cup {Nobody}
  /\ backup \in [command : Others \cup {Nobody}, surface : Others \cup {Nobody, Us}]
  /\ backupRefused \in BOOLEAN
  /\ progid \in {Nobody, Us, "moved"} /\ openWith \in BOOLEAN
  /\ ReplacedIsKept

(* Any program may have the handler before the first start.                  *)
LEMMA RegistryInvInit == RegistryInit => RegistryInv
<1> SUFFICES ASSUME RegistryInit PROVE RegistryInv
  OBVIOUS
<1>1. openWith \in BOOLEAN /\ (openWith => progid /= Nobody)
  BY Zenon DEF RegistryInit
<1>2. backup \in [command : Others \cup {Nobody}, surface : Others \cup {Nobody, Us}]
  BY DEF RegistryInit, NoBackup, Nobody, Us
<1> QED
  BY <1>1, <1>2, RegistryAssumption DEF RegistryInit, RegistryInv, ReplacedIsKept, Nobody, Us

(* What is captured before the scheme is taken is the handler that is there. *)
LEMMA CaptureKeeps ==
  ASSUME RegistryInv, Capture
  PROVE  /\ backup' \in [command : Others \cup {Nobody}, surface : Others \cup {Nobody, Us}]
         /\ backupRefused' \in BOOLEAN
         /\ command = Us => UNCHANGED <<backup, backupRefused>>
         /\ command \in Others => backup'.command = command \/ backupRefused'
         /\ backupRefused => backupRefused'
<1>1. CASE ~ToCapture
  BY <1>1, RegistryAssumption DEF Capture, ToCapture, RegistryInv, Nobody, Us
<1>2. CASE ToCapture
  <2>1. command \in Others
    BY <1>2 DEF ToCapture, RegistryInv
  <2>2. CASE backup' = [command |-> command, surface |-> surface] /\ UNCHANGED backupRefused
    BY <2>1, <2>2, RegistryAssumption DEF RegistryInv, Us
  <2>3. CASE backupRefused' = TRUE /\ UNCHANGED backup
    BY <2>1, <2>3, RegistryAssumption DEF RegistryInv, Us
  <2> QED
    BY <1>2, <2>2, <2>3 DEF Capture
<1> QED
  BY <1>1, <1>2

LEMMA RegistryInvNext ==
  ASSUME RegistryInv, [RegistryNext]_registryVars
  PROVE  RegistryInv'
<1> USE RegistryAssumption DEF Nobody, Us
<1>1. CASE OtherRegisters \/ OtherUnregisters
  BY <1>1 DEF OtherRegisters, OtherUnregisters, torrentHandlerVars, RegistryInv, ReplacedIsKept
<1>2. CASE RegisterMagnet
  <2>1. Capture
    BY <1>2 DEF RegisterMagnet
  <2>2. surface' \in Others \cup {Nobody, Us} /\ UNCHANGED <<progid, openWith>>
    BY <1>2 DEF RegisterMagnet, torrentHandlerVars, RegistryInv
  <2>3. CASE UNCHANGED <<command, replaced>>
    BY <2>1, <2>2, <2>3, CaptureKeeps DEF RegistryInv, ReplacedIsKept
  <2>4. CASE command' = Us /\ replaced' = IF command = Us THEN replaced ELSE command
    BY <2>1, <2>2, <2>4, CaptureKeeps DEF RegistryInv, ReplacedIsKept
  <2> QED
    BY <1>2, <2>3, <2>4 DEF RegisterMagnet
<1>3. CASE UnregisterMagnet
  <2>1. /\ command = Us /\ backup' \in {backup, NoBackup}
        /\ command' \in Others \cup {Nobody, Us} /\ surface' \in Others \cup {Nobody, Us}
        /\ command' = Us => UNCHANGED <<backup, replaced>>
        /\ command' /= Us => replaced' = Nobody
        /\ UNCHANGED <<backupRefused, progid, openWith>>
    BY <1>3 DEF UnregisterMagnet, torrentHandlerVars, RegistryInv
  <2>2. backup' \in [command : Others \cup {Nobody}, surface : Others \cup {Nobody, Us}]
    BY <2>1 DEF NoBackup, RegistryInv
  <2> QED
    BY <2>1, <2>2 DEF RegistryInv, ReplacedIsKept
<1>4. CASE MoveProgram \/ RegisterTorrent \/ UnregisterTorrent
  <2>1. UNCHANGED <<command, surface, backup, replaced, backupRefused>>
    BY <1>4 DEF MoveProgram, RegisterTorrent, UnregisterTorrent, magnetHandlerVars
  <2>2. progid' \in {Nobody, Us, "moved"} /\ openWith' \in BOOLEAN
    BY <1>4 DEF MoveProgram, RegisterTorrent, UnregisterTorrent, RegistryInv
  <2>3. openWith' => progid' /= Nobody
    <3>1. openWith => progid /= Nobody
      BY DEF RegistryInv, ReplacedIsKept
    <3>2. CASE MoveProgram
      BY <3>1, <3>2 DEF MoveProgram
    <3>3. CASE RegisterTorrent
      BY <3>1, <3>3 DEF RegisterTorrent
    <3>4. CASE UnregisterTorrent
      BY <3>4 DEF UnregisterTorrent
    <3> QED
      BY <1>4, <3>2, <3>3, <3>4
  <2> QED
    BY <2>1, <2>2, <2>3 DEF RegistryInv, ReplacedIsKept
<1>5. CASE UNCHANGED registryVars
  BY <1>5 DEF registryVars, magnetHandlerVars, torrentHandlerVars, RegistryInv, ReplacedIsKept
<1> QED
  BY <1>1, <1>2, <1>3, <1>4, <1>5 DEF RegistryNext

(* The registry holds what programs write there.                            *)
THEOREM RegistryTypesHold == RegistrySpec => []RegistryTypeOK
<1>1. RegistryInv => RegistryTypeOK
  BY DEF RegistryInv, RegistryTypeOK
<1> QED
  BY <1>1, RegistryInvInit, RegistryInvNext, PTL DEF RegistrySpec

(* _capture_existing_magnet_handler and _unregister_magnet: while the scheme *)
(* is ours, the backup is of the program it was taken from, unless the file   *)
(* refused it; and a ProgID that is offered for .torrent files exists.      *)
THEOREM ReplacedHandlerIsKept == RegistrySpec => []ReplacedIsKept
<1>1. RegistryInv => ReplacedIsKept
  BY DEF RegistryInv
<1> QED
  BY <1>1, RegistryInvInit, RegistryInvNext, PTL DEF RegistrySpec

--------------------------------------------------------------------------------
(* The transfer table (download_view.py over torrent_manager.py)             *)

Selections == Torrents \cup {NoTorrent}
Events ==
  [type : {"stats", "goal", "removed", "ready"}, torrent : Torrents, goal : Goals,
   next : Selections]
ViewCommands == [kind : {"goal", "remove"}, torrent : Torrents, goal : Goals]
ChoiceTypes == [rows : Seq(Torrents), active : Selections, selected : Selections]

(* What the view and the manager hold, and what is between them.            *)
ViewTypes ==
  /\ goalOf \in [Torrents -> Goals \cup {Unknown}]
  /\ goalShown \in [Torrents -> Goals \cup {Unknown}]
  /\ sessionOrder \in Seq(Torrents) /\ queueOrder \in Seq(Torrents) /\ rows \in Seq(Torrents)
  /\ selected \in Selections /\ removing \in Selections /\ activeRow \in Selections
  /\ survivors \subseteq Torrents /\ resolving \subseteq Torrents /\ tombstones \subseteq Torrents
  /\ scene \in {"transfers", "other"} /\ viewOps \in 0 .. MaxViewOps
  /\ uiEvents \in Seq(Events) /\ managerQueue \in Seq(ViewCommands)

LEMMA NoTorrentIsNone == NoTorrent \notin Torrents
BY ViewAssumption DEF ViewAssumption, NoTorrent

LEMMA GoalsAreKnown == Unknown \notin Goals /\ {} \in Goals
BY DEF Goals, Units, Unknown

(* The elements of an order that a torrent joins, or leaves.                *)
LEMMA JoinedOrder ==
  ASSUME NEW S, NEW order \in Seq(S), NEW t \in S
  PROVE  With(order, t) \in Seq(S) /\ ToSet(With(order, t)) = ToSet(order) \cup {t}
<1>1. CASE t \in ToSet(order)
  BY <1>1 DEF With
<1>2. CASE t \notin ToSet(order)
  <2>1. With(order, t) = Append(order, t)
    BY <1>2 DEF With
  <2>2. /\ Append(order, t) \in Seq(S) /\ Len(Append(order, t)) = Len(order) + 1 /\ Len(order) \in Nat
        /\ \A i \in 1 .. Len(order) : Append(order, t)[i] = order[i]
        /\ Append(order, t)[Len(order) + 1] = t
    BY AppendProperties, LenProperties
  <2>3. DOMAIN order = 1 .. Len(order) /\ DOMAIN Append(order, t) = 1 .. Len(order) + 1
    BY <2>2, LenProperties
  <2>4. \A i \in 1 .. Len(order) + 1 : i \in 1 .. Len(order) \/ i = Len(order) + 1
    BY <2>2
  <2>5. 1 .. Len(order) \subseteq 1 .. Len(order) + 1 /\ Len(order) + 1 \in 1 .. Len(order) + 1
    BY <2>2
  <2> QED
    BY <2>1, <2>2, <2>3, <2>4, <2>5 DEF ToSet
<1> QED
  BY <1>1, <1>2

LEMMA LeftOrder ==
  ASSUME NEW S, NEW order \in Seq(S), NEW t
  PROVE  Without(order, t) \in Seq(S) /\ ToSet(Without(order, t)) \subseteq ToSet(order) \ {t}
BY FilteredIsPart DEF Without

LEMMA OrderIsOf ==
  ASSUME NEW S, NEW order \in Seq(S)
  PROVE  ToSet(order) \subseteq S
BY LenProperties, ElementOfSeq DEF ToSet

(* An event of the queue.                                                   *)
LEMMA EventIs ==
  ASSUME ViewTypes, NEW i \in DOMAIN uiEvents
  PROVE  uiEvents[i] \in Events /\ uiEvents[i].torrent \in Torrents /\ uiEvents[i].next \in Selections
         /\ i \in 1 .. Len(uiEvents) /\ uiEvents[i].type \in {"stats", "goal", "removed", "ready"}
<1>1. uiEvents \in Seq(Events)
  BY DEF ViewTypes
<1>2. i \in 1 .. Len(uiEvents) /\ uiEvents[i] \in Events
  BY <1>1, LenProperties, ElementOfSeq
<1> QED
  BY <1>2 DEF Events

(* What an event does to the choice, by its type.                           *)
LEMMA HandledIs ==
  ASSUME ViewTypes, NEW type \in {"stats", "removed", "ready"}, NEW c \in ChoiceTypes,
         NEW i \in 1 .. Len(uiEvents)
  PROVE  /\ Handled(type, c, i) \in ChoiceTypes
         /\ type = "ready" =>
              /\ Handled(type, c, i).rows = c.rows
              /\ Handled(type, c, i).active \in {c.active} \cup ReadyNow
         /\ type = "removed" =>
              /\ ToSet(Handled(type, c, i).rows) \subseteq ToSet(c.rows)
              /\ Handled(type, c, i).active \in {c.active, NoTorrent} \cup ToSet(Handled(type, c, i).rows)
              /\ uiEvents[i].type = "removed" =>
                   /\ uiEvents[i].torrent \notin ToSet(Handled(type, c, i).rows)
                   /\ uiEvents[i].torrent # Handled(type, c, i).active
         /\ type = "stats" =>
              /\ ToSet(Handled(type, c, i).rows) \subseteq ToSet(c.rows) \cup Admitted
              /\ Handled(type, c, i).active \in {c.active} \cup Admitted
<1> DEFINE event == uiEvents[i]
           first == \A j \in Drained(type, event.torrent) : i <= j
<1>1. i \in DOMAIN uiEvents /\ uiEvents \in Seq(Events)
  BY LenProperties DEF ViewTypes
<1>2. event.torrent \in Torrents /\ event.next \in Selections
  BY <1>1, EventIs
<1>3. \A now \in Selections, t \in Torrents : Selecting(now, t) \in Selections
  BY DEF Selecting, Selections
<1>4. c.rows \in Seq(Torrents) /\ c.active \in Selections /\ c.selected \in Selections
  BY DEF ChoiceTypes
<1> HIDE DEF first
<1>5. Handled(type, c, i) =
        IF event.type # type THEN c
        ELSE IF type = "removed" THEN ByRemoval(c, event)
        ELSE IF type = "ready" /\ first THEN ByMagnet(c, event.torrent)
        ELSE IF type = "stats" /\ first /\ event.torrent \in Admitted
        THEN ByStats(c, event.torrent) ELSE c
  BY DEF Handled, first
<1>6. CASE type = "ready"
  <2>1. CASE event.type = type /\ first
    <3>1. Handled(type, c, i) = [c EXCEPT !.active = event.torrent,
                                          !.selected = Selecting(c.selected, event.torrent)]
      BY <1>5, <1>6, <2>1 DEF ByMagnet
    <3>2. event.torrent \in ReadyNow
      BY <1>1, <1>2, <1>6, <2>1 DEF ReadyNow, Drained
    <3> QED
      BY <1>2, <1>3, <1>4, <1>6, <3>1, <3>2 DEF ChoiceTypes, Selections
  <2>2. CASE ~ (event.type = type /\ first)
    BY <1>5, <1>6, <2>2
  <2> QED
    BY <2>1, <2>2
<1>7. CASE type = "removed"
  <2>1. CASE event.type = type
    <3> DEFINE left == Without(c.rows, event.torrent)
               next == IF event.next \in ToSet(left) THEN event.next ELSE NoTorrent
    <3>1. left \in Seq(Torrents) /\ ToSet(left) \subseteq ToSet(c.rows) \ {event.torrent}
      BY <1>4, LeftOrder
    <3>2. next \in Selections /\ next \in {NoTorrent} \cup ToSet(left) /\ next # event.torrent
      BY <1>2, <3>1, NoTorrentIsNone DEF Selections
    <3>3. Handled(type, c, i) =
            IF c.active # event.torrent THEN [c EXCEPT !.rows = left]
            ELSE [rows |-> left, active |-> next,
                  selected |-> IF next = NoTorrent THEN c.selected ELSE Selecting(c.selected, next)]
      BY <1>5, <1>7, <2>1 DEF ByRemoval
    <3>4. next # NoTorrent => next \in Torrents
      BY <3>2 DEF Selections
    <3> HIDE DEF left, next
    <3>5. CASE c.active # event.torrent
      BY <1>4, <1>7, <3>1, <3>3, <3>5 DEF ChoiceTypes
    <3>6. CASE c.active = event.torrent
      BY <1>3, <1>4, <1>7, <3>1, <3>2, <3>3, <3>4, <3>6 DEF ChoiceTypes
    <3> QED
      BY <3>5, <3>6
  <2>2. CASE event.type # type
    BY <1>5, <1>7, <2>2
  <2> QED
    BY <2>1, <2>2
<1>8. CASE type = "stats"
  <2>1. CASE event.type = type /\ first /\ event.torrent \in Admitted
    <3>1. Handled(type, c, i) = ByStats(c, event.torrent)
      BY <1>5, <1>8, <2>1
    <3>2. With(c.rows, event.torrent) \in Seq(Torrents)
          /\ ToSet(With(c.rows, event.torrent)) = ToSet(c.rows) \cup {event.torrent}
      BY <1>2, <1>4, JoinedOrder
    <3>3. CASE c.active = NoTorrent
      <4>1. PICK joined \in Seq(Torrents) :
               joined = With(c.rows, event.torrent) /\ ToSet(joined) = ToSet(c.rows) \cup {event.torrent}
        BY <3>2
      <4>2. PICK choosing \in Selections : choosing = Selecting(c.selected, event.torrent)
        BY <1>2, <1>3, <1>4
      <4>3. Handled(type, c, i) = [rows |-> joined, active |-> event.torrent, selected |-> choosing]
        BY <3>1, <3>3, <4>1, <4>2 DEF ByStats, ChoiceTypes
      <4>4. event.torrent \in Selections
        BY <1>2 DEF Selections
      <4>5. Handled(type, c, i) \in ChoiceTypes
        BY <4>3, <4>4 DEF ChoiceTypes
      <4> QED
        BY <1>8, <2>1, <4>1, <4>3, <4>5
    <3>4. CASE c.active # NoTorrent
      <4>1. Handled(type, c, i) = [c EXCEPT !.rows = With(c.rows, event.torrent)]
        BY <3>1, <3>4 DEF ByStats
      <4> QED
        BY <1>2, <1>4, <1>8, <2>1, <3>2, <4>1 DEF ChoiceTypes
    <3> QED
      BY <3>3, <3>4
  <2>2. CASE ~ (event.type = type /\ first /\ event.torrent \in Admitted)
    BY <1>5, <1>8, <2>2
  <2> QED
    BY <2>1, <2>2
<1> QED
  BY <1>6, <1>7, <1>8

(* A look at the queue takes one event after the other.                     *)
LEMMA LookedIs ==
  ASSUME ViewTypes, NEW type \in {"stats", "removed", "ready"}, NEW start \in ChoiceTypes
  PROVE  \E f \in [0 .. Len(uiEvents) -> ChoiceTypes] :
           /\ f[0] = start /\ f[Len(uiEvents)] = Looked(type, start)
           /\ \A i \in 1 .. Len(uiEvents) : f[i] = Handled(type, f[i - 1], i)
<1> DEFINE n == Len(uiEvents)
           step == [x \in (1 .. n) \X ChoiceTypes |-> Handled(type, x[2], x[1])]
           Upon(f) == [i \in 0 .. n |-> IF i = 0 THEN start ELSE Handled(type, f[i - 1], i)]
<1>1. n \in Nat
  BY LenProperties DEF ViewTypes
<1>2. step \in [(1 .. n) \X ChoiceTypes -> ChoiceTypes]
  BY HandledIs
<1>3. PICK f : Recursive(f, ChoiceTypes, n, start, step)
  <2> HIDE DEF n, step
  <2> QED
    BY <1>1, <1>2, RecursionExists
<1>10. f \in [0 .. n -> ChoiceTypes] /\ f[0] = start /\ \A i \in 1 .. n : f[i] = step[<<i, f[i - 1]>>]
  <2> HIDE DEF n, step
  <2> QED
    BY <1>3 DEF Recursive
<1>4. \A i \in 1 .. n : f[i] = Handled(type, f[i - 1], i)
  <2> SUFFICES ASSUME NEW i \in 1 .. n PROVE f[i] = Handled(type, f[i - 1], i)
    OBVIOUS
  <2>1. f[i - 1] \in ChoiceTypes
    BY <1>1, <1>10
  <2> QED
    BY <1>10, <2>1
<1>5. f = Upon(f)
  <2>1. ASSUME NEW i \in 0 .. n PROVE f[i] = Upon(f)[i]
    <3>1. i = 0 \/ i \in 1 .. n
      BY <1>1
    <3> HIDE DEF n
    <3> QED
      BY <1>10, <1>4, <3>1
  <2>2. f = [i \in 0 .. n |-> f[i]]
    <3> HIDE DEF n
    <3> QED
      BY <1>10
  <2>3. [i \in 0 .. n |-> f[i]] = Upon(f)
    BY <1>10, <2>1
  <2> HIDE DEF n, Upon
  <2> QED
    BY <2>2, <2>3
<1>6. PICK g : g = CHOOSE h : h = Upon(h)
  OBVIOUS
<1>7. g = Upon(g)
  <2> HIDE DEF Upon
  <2> QED
    BY <1>5, <1>6, Zenon
<1>8. Looked(type, start) = g[n]
  BY <1>6 DEF Looked
<1>9. g \in [0 .. n -> ChoiceTypes] /\ g[0] = start /\ \A i \in 1 .. n : g[i] = Handled(type, g[i - 1], i)
  <2> DEFINE T == {i \in 0 .. n : g[i] \in ChoiceTypes}
  <2>1. DOMAIN g = 0 .. n /\ g = [i \in 0 .. n |-> g[i]]
    <3> HIDE DEF n
    <3> QED
      BY <1>7
  <2>2. g[0] = start
    <3> HIDE DEF n
    <3> QED
      BY <1>1, <1>7
  <2>3. \A i \in 1 .. n : g[i] = Handled(type, g[i - 1], i)
    <3> SUFFICES ASSUME NEW i \in 1 .. n PROVE g[i] = Handled(type, g[i - 1], i)
      OBVIOUS
    <3>1. g[i] = Upon(g)[i]
      BY <1>7
    <3> HIDE DEF n
    <3>2. i \in 0 .. n /\ i # 0
      BY <1>1
    <3> QED
      BY <3>1, <3>2
  <2>4. 0 \in T
    BY <1>1, <2>2
  <2>5. ASSUME NEW i \in 0 .. n, i # 0, i - 1 \in T PROVE i \in T
    <3>1. i \in 1 .. n
      BY <1>1, <2>5
    <3> QED
      BY <2>3, <2>5, <3>1, HandledIs
  <2> HIDE DEF T
  <2>6. 0 .. n \subseteq T
    BY <1>1, <2>4, <2>5, Induction
  <2>7. \A i \in 0 .. n : g[i] \in ChoiceTypes
    BY <2>6 DEF T
  <2> HIDE DEF n
  <2> QED
    BY <2>1, <2>2, <2>3, <2>7
<1> QED
  BY <1>8, <1>9

(* What the choice comes to: no torrent that was removed is shown, or        *)
(* selected unless it is shown anew.                                        *)
LEMMA ChoiceIs ==
  ASSUME ViewTypes
  PROVE  /\ Choice \in ChoiceTypes
         /\ ToSet(Choice.rows) \subseteq (ToSet(rows) \ RemovedNow) \cup Admitted
         /\ Choice.active \in Admitted \cup {NoTorrent}
              \/ (Choice.active \notin RemovedNow /\ Choice.active \in {activeRow} \cup ReadyNow \cup ToSet(rows))
<1> DEFINE n == Len(uiEvents)
           start == [rows |-> rows, active |-> activeRow, selected |-> selected]
<1>1. n \in Nat
  BY LenProperties DEF ViewTypes
<1>2. start \in ChoiceTypes
  BY DEF ViewTypes, ChoiceTypes
<1>3. PICK a : a = Looked("ready", start)
  OBVIOUS
<1>4. a \in ChoiceTypes /\ a.rows = rows /\ a.active \in {activeRow} \cup ReadyNow
  <2>1. PICK f \in [0 .. n -> ChoiceTypes] :
          f[0] = start /\ f[n] = a /\ \A i \in 1 .. n : f[i] = Handled("ready", f[i - 1], i)
    BY <1>2, <1>3, LookedIs
  <2> DEFINE T == {i \in 0 .. n : f[i].rows = rows /\ f[i].active \in {activeRow} \cup ReadyNow}
  <2>2. 0 \in T
    BY <1>1, <2>1
  <2>3. ASSUME NEW i \in 0 .. n, i # 0, i - 1 \in T PROVE i \in T
    <3>1. i \in 1 .. n /\ f[i - 1] \in ChoiceTypes
      BY <1>1, <2>3
    <3>2. f[i].rows = f[i - 1].rows /\ f[i].active \in {f[i - 1].active} \cup ReadyNow
      BY <2>1, <3>1, HandledIs
    <3> QED
      BY <2>3, <3>2
  <2> HIDE DEF T
  <2>4. n \in T
    <3> HIDE DEF n
    <3>1. 0 .. n \subseteq T
      BY <1>1, <2>2, <2>3, Induction
    <3> QED
      BY <1>1, <3>1
  <2> QED
    BY <1>1, <2>1, <2>4 DEF T
<1>5. PICK b : b = Looked("removed", a)
  OBVIOUS
<1>6. /\ b \in ChoiceTypes /\ ToSet(b.rows) \subseteq ToSet(rows) \ RemovedNow
      /\ b.active \in {activeRow, NoTorrent} \cup ReadyNow \cup ToSet(rows) /\ b.active \notin RemovedNow
  <2>1. PICK f \in [0 .. n -> ChoiceTypes] :
          f[0] = a /\ f[n] = b /\ \A i \in 1 .. n : f[i] = Handled("removed", f[i - 1], i)
    BY <1>4, <1>5, LookedIs
  <2> DEFINE Dropped(i) == {uiEvents[j].torrent : j \in {k \in 1 .. i : uiEvents[k].type = "removed"}}
             T == {i \in 0 .. n : /\ ToSet(f[i].rows) \subseteq ToSet(rows) \ Dropped(i)
                                  /\ f[i].active \in {activeRow, NoTorrent} \cup ReadyNow \cup ToSet(rows)
                                  /\ f[i].active \notin Dropped(i)}
  <2>2. 0 \in T
    <3>1. Dropped(0) = {}
      OBVIOUS
    <3> QED
      BY <1>1, <1>4, <2>1, <3>1
  <2>3. ASSUME NEW i \in 0 .. n, i # 0, i - 1 \in T PROVE i \in T
    <3>1. i \in 1 .. n /\ f[i - 1] \in ChoiceTypes
      BY <1>1, <2>3
    <3>2. /\ ToSet(f[i].rows) \subseteq ToSet(f[i - 1].rows)
          /\ f[i].active \in {f[i - 1].active, NoTorrent} \cup ToSet(f[i].rows)
          /\ uiEvents[i].type = "removed" =>
               uiEvents[i].torrent \notin ToSet(f[i].rows) /\ uiEvents[i].torrent # f[i].active
      <4>1. f[i] = Handled("removed", f[i - 1], i)
        BY <2>1, <3>1
      <4> DEFINE type == "removed"
      <4>2. type \in {"stats", "removed", "ready"}
        OBVIOUS
      <4>3. type = "removed" /\ f[i] = Handled(type, f[i - 1], i)
        BY <4>1
      <4>4. PICK g \in ChoiceTypes : g = f[i - 1]
        BY <3>1
      <4>5. PICK k \in 1 .. Len(uiEvents) : k = i
        BY <3>1
      <4> HIDE DEF type
      <4>6. /\ ToSet(Handled(type, g, k).rows) \subseteq ToSet(g.rows)
            /\ Handled(type, g, k).active \in {g.active, NoTorrent} \cup ToSet(Handled(type, g, k).rows)
            /\ uiEvents[k].type = "removed" =>
                 /\ uiEvents[k].torrent \notin ToSet(Handled(type, g, k).rows)
                 /\ uiEvents[k].torrent # Handled(type, g, k).active
        BY <4>2, <4>3, HandledIs, ZenonT(60)
      <4>7. /\ ToSet(Handled(type, f[i - 1], i).rows) \subseteq ToSet(f[i - 1].rows)
            /\ Handled(type, f[i - 1], i).active
                 \in {f[i - 1].active, NoTorrent} \cup ToSet(Handled(type, f[i - 1], i).rows)
            /\ uiEvents[i].type = "removed" =>
                 /\ uiEvents[i].torrent \notin ToSet(Handled(type, f[i - 1], i).rows)
                 /\ uiEvents[i].torrent # Handled(type, f[i - 1], i).active
        BY <4>4, <4>5, <4>6
      <4> QED
        BY <4>3, <4>7
    <3>3. Dropped(i) = Dropped(i - 1) \cup
                         IF uiEvents[i].type = "removed" THEN {uiEvents[i].torrent} ELSE {}
      <4>1. \A k \in 1 .. i : k \in 1 .. i - 1 \/ k = i
        BY <3>1, <1>1
      <4>2. i \in 1 .. i /\ \A k \in 1 .. i - 1 : k \in 1 .. i
        BY <3>1, <1>1
      <4> QED
        BY <4>1, <4>2
    <3>4. NoTorrent \notin Dropped(i)
      <4>1. \A k \in 1 .. i : uiEvents[k].torrent \in Torrents
        <5>1. \A k \in 1 .. i : k \in DOMAIN uiEvents
          BY <1>1, LenProperties DEF ViewTypes
        <5> QED
          BY <5>1, EventIs
      <4> QED
        BY <4>1, NoTorrentIsNone
    <3> HIDE DEF Dropped
    <3>5. ToSet(f[i].rows) \subseteq ToSet(rows) \ Dropped(i)
      BY <2>3, <3>2, <3>3
    <3>6. f[i].active \in {activeRow, NoTorrent} \cup ReadyNow \cup ToSet(rows)
      BY <2>3, <3>2, <3>5
    <3>7. f[i].active \notin Dropped(i)
      BY <2>3, <3>2, <3>3, <3>4, <3>5
    <3> QED
      BY <3>5, <3>6, <3>7
  <2> HIDE DEF T
  <2>4. n \in T
    <3> HIDE DEF n
    <3>1. 0 .. n \subseteq T
      BY <1>1, <2>2, <2>3, Induction
    <3> QED
      BY <1>1, <3>1
  <2>5. RemovedNow \subseteq Dropped(n)
    <3>1. DOMAIN uiEvents = 1 .. n
      BY LenProperties DEF ViewTypes
    <3> QED
      BY <3>1 DEF RemovedNow, Drained
  <2>6. b \in ChoiceTypes
    BY <1>1, <2>1
  <2> HIDE DEF Dropped
  <2> QED
    BY <2>1, <2>4, <2>5, <2>6 DEF T
<1>7. PICK c : c = Looked("stats", b)
  OBVIOUS
<1>8. /\ c \in ChoiceTypes /\ ToSet(c.rows) \subseteq ToSet(b.rows) \cup Admitted
      /\ c.active \in {b.active} \cup Admitted
  <2>1. PICK f \in [0 .. n -> ChoiceTypes] :
          f[0] = b /\ f[n] = c /\ \A i \in 1 .. n : f[i] = Handled("stats", f[i - 1], i)
    BY <1>6, <1>7, LookedIs
  <2> DEFINE T == {i \in 0 .. n : /\ ToSet(f[i].rows) \subseteq ToSet(b.rows) \cup Admitted
                                  /\ f[i].active \in {b.active} \cup Admitted}
  <2>2. 0 \in T
    BY <1>1, <2>1
  <2>3. ASSUME NEW i \in 0 .. n, i # 0, i - 1 \in T PROVE i \in T
    <3>1. i \in 1 .. n /\ f[i - 1] \in ChoiceTypes
      BY <1>1, <2>3
    <3>2. /\ ToSet(f[i].rows) \subseteq ToSet(f[i - 1].rows) \cup Admitted
          /\ f[i].active \in {f[i - 1].active} \cup Admitted
      BY <2>1, <3>1, HandledIs
    <3> QED
      BY <2>3, <3>2
  <2> HIDE DEF T
  <2>4. n \in T
    <3> HIDE DEF n
    <3>1. 0 .. n \subseteq T
      BY <1>1, <2>2, <2>3, Induction
    <3> QED
      BY <1>1, <3>1
  <2> QED
    BY <1>1, <2>1, <2>4 DEF T
<1>9. Choice = c
  BY <1>3, <1>5, <1>7 DEF Choice
<1>10. ToSet(c.rows) \subseteq (ToSet(rows) \ RemovedNow) \cup Admitted
  BY <1>6, <1>8
<1>11. c.active \in Admitted \cup {NoTorrent}
         \/ (c.active \notin RemovedNow /\ c.active \in {activeRow} \cup ReadyNow \cup ToSet(rows))
  BY <1>6, <1>8
<1> QED
  BY <1>8, <1>9, <1>10, <1>11

--------------------------------------------------------------------------------
(* The events of a type about a torrent, and what the last of them says.    *)
Tell(events, type, t) == {i \in DOMAIN events : events[i].type = type /\ events[i].torrent = t}
Latest(events, type, t, goal) ==
  \A i \in Tell(events, type, t) :
    (\A j \in Tell(events, type, t) : j <= i) => events[i].goal = goal

LEMMA DrainedIsTell == \A type, t : Drained(type, t) = Tell(uiEvents, type, t)
BY DEF Drained, Tell

(* One more event.                                                          *)
LEMMA ToldOneMore ==
  ASSUME NEW events \in Seq(Events), NEW event \in Events, NEW type, NEW t
  PROVE  /\ Append(events, event) \in Seq(Events)
         /\ Tell(Append(events, event), type, t) # {} <=>
              Tell(events, type, t) # {} \/ (event.type = type /\ event.torrent = t)
         /\ \A goal : IF event.type = type /\ event.torrent = t
                      THEN event.goal = goal => Latest(Append(events, event), type, t, goal)
                      ELSE Latest(events, type, t, goal) =>
                             Latest(Append(events, event), type, t, goal)
<1> DEFINE more == Append(events, event)
           n == Len(events)
<1>1. /\ more \in Seq(Events) /\ n \in Nat /\ DOMAIN events = 1 .. n /\ DOMAIN more = 1 .. n + 1
      /\ \A i \in 1 .. n : more[i] = events[i]
      /\ more[n + 1] = event
  <2>1. more \in Seq(Events) /\ Len(more) = n + 1 /\ n \in Nat
    BY AppendProperties, LenProperties
  <2> QED
    BY <2>1, AppendProperties, LenProperties
<1>2. \A i \in 1 .. n + 1 : i \in 1 .. n \/ i = n + 1
  BY <1>1
<1>3. 1 .. n \subseteq 1 .. n + 1 /\ n + 1 \in 1 .. n + 1 /\ \A i \in 1 .. n : i <= n + 1 /\ ~ (n + 1 <= i)
  BY <1>1
<1> HIDE DEF more, n
<1>4. Tell(more, type, t) =
        Tell(events, type, t) \cup IF event.type = type /\ event.torrent = t THEN {n + 1} ELSE {}
  BY <1>1, <1>2, <1>3 DEF Tell
<1>5. Tell(events, type, t) \subseteq 1 .. n
  BY <1>1 DEF Tell
<1>6. ASSUME NEW goal, event.type = type, event.torrent = t, event.goal = goal
      PROVE  Latest(more, type, t, goal)
  BY <1>1, <1>3, <1>4, <1>5, <1>6 DEF Latest
<1>7. ASSUME NEW goal, ~ (event.type = type /\ event.torrent = t), Latest(events, type, t, goal)
      PROVE  Latest(more, type, t, goal)
  BY <1>1, <1>4, <1>5, <1>7 DEF Latest
<1>8. more \in Seq(Events)
  BY <1>1
<1>9. Tell(more, type, t) # {} <=> Tell(events, type, t) # {} \/ (event.type = type /\ event.torrent = t)
  BY <1>4
<1>10. \A goal : IF event.type = type /\ event.torrent = t
                 THEN event.goal = goal => Latest(more, type, t, goal)
                 ELSE Latest(events, type, t, goal) => Latest(more, type, t, goal)
  BY <1>6, <1>7
<1> QED
  BY <1>8, <1>9, <1>10 DEF more

(* A torrent that an event is not about hears nothing of it.                *)
LEMMA ToldOthers ==
  ASSUME NEW events \in Seq(Events), NEW event \in Events, NEW s, s # event.torrent
  PROVE  /\ \A type : Tell(Append(events, event), type, s) = {} <=> Tell(events, type, s) = {}
         /\ \A type, goal : Latest(events, type, s, goal) => Latest(Append(events, event), type, s, goal)
BY ToldOneMore

(* One that it is about hears it last.                                      *)
LEMMA ToldLast ==
  ASSUME NEW events \in Seq(Events), NEW event \in Events
  PROVE  LET more == Append(events, event)
             t == event.torrent
         IN  /\ Tell(more, event.type, t) # {} /\ Latest(more, event.type, t, event.goal)
             /\ \A type : type # event.type => (Tell(more, type, t) = {} <=> Tell(events, type, t) = {})
             /\ \A type, goal : type # event.type /\ Latest(events, type, t, goal)
                                 => Latest(more, type, t, goal)
<1>1. Tell(Append(events, event), event.type, event.torrent) # {}
  BY ToldOneMore
<1>2. Latest(Append(events, event), event.type, event.torrent, event.goal)
  <2>1. \A goal : event.goal = goal => Latest(Append(events, event), event.type, event.torrent, goal)
    BY ToldOneMore
  <2> QED
    BY <2>1
<1>3. ASSUME NEW type, type # event.type
      PROVE  Tell(Append(events, event), type, event.torrent) = {} <=> Tell(events, type, event.torrent) = {}
  BY <1>3, ToldOneMore
<1>4. ASSUME NEW type, type # event.type, NEW goal, Latest(events, type, event.torrent, goal)
      PROVE  Latest(Append(events, event), type, event.torrent, goal)
  BY <1>4, ToldOneMore
<1> QED
  BY <1>1, <1>2, <1>3, <1>4

(* The events and commands there are.                                       *)
LEMMA EventsMade ==
  ASSUME NEW t \in Torrents, NEW goal \in Goals, NEW next \in Selections
  PROVE  /\ Stats(t, goal) \in Events /\ Stats(t, goal).type = "stats"
         /\ Stats(t, goal).torrent = t /\ Stats(t, goal).goal = goal
         /\ GoalUpdated(t, goal) \in Events /\ GoalUpdated(t, goal).type = "goal"
         /\ GoalUpdated(t, goal).torrent = t /\ GoalUpdated(t, goal).goal = goal
         /\ Removed(t, next) \in Events /\ Removed(t, next).type = "removed"
         /\ Removed(t, next).torrent = t
         /\ MagnetReady(t) \in Events /\ MagnetReady(t).type = "ready" /\ MagnetReady(t).torrent = t
         /\ \A verb \in {"goal", "remove"} :
              /\ CommandOf(verb, t, goal) \in ViewCommands
              /\ CommandOf(verb, t, goal).kind = verb /\ CommandOf(verb, t, goal).torrent = t
<1>1. {} \in Goals /\ NoTorrent \in Selections
  BY GoalsAreKnown DEF Selections
<1> QED
  BY <1>1 DEF Stats, GoalUpdated, Removed, MagnetReady, CommandOf, Events, ViewCommands

(* Events that come together come one after the other.                      *)
LEMMA TellsInTurn ==
  ASSUME NEW S, NEW events \in Seq(S), NEW a \in S, NEW b \in S
  PROVE  /\ events \o << >> = events /\ events \o <<a>> = Append(events, a)
         /\ events \o <<a, b>> = Append(Append(events, a), b)
OBVIOUS

--------------------------------------------------------------------------------
(* A goal the user gave is on its way to the manager.                       *)
Ordered(t) ==
  \E i \in DOMAIN managerQueue : managerQueue[i].kind = "goal" /\ managerQueue[i].torrent = t

(* A row has no tombstone, and shows a goal.                                *)
RowsStand == \A t \in ToSet(rows) : t \notin tombstones /\ goalShown[t] # Unknown

(* Of a torrent without a session the table has been told, or will be.      *)
GoneIsTold(t) ==
  ~ HasSession(t) =>
    \/ Tell(uiEvents, "removed", t) # {}
    \/ /\ t \notin ToSet(rows) /\ t # activeRow
       /\ Tell(uiEvents, "ready", t) = {} /\ Tell(uiEvents, "goal", t) = {}
       /\ Tell(uiEvents, "stats", t) # {} \/ t \in survivors => t \in tombstones

(* Of the goal of a session the table has been told, or will be, unless it   *)
(* shows one that the manager is about to take.                             *)
GoalIsTold(t) ==
  HasSession(t) /\ t \notin survivors /\ Tell(uiEvents, "removed", t) = {} =>
    /\ Latest(uiEvents, "stats", t, goalOf[t]) /\ Latest(uiEvents, "goal", t, goalOf[t])
    /\ t \in ToSet(rows) /\ Tell(uiEvents, "stats", t) = {} /\ ~ Ordered(t)
         => goalShown[t] = goalOf[t]

IsTold(t) == GoneIsTold(t) /\ GoalIsTold(t)

ViewInv == ViewTypes /\ RowsStand /\ \A t \in Torrents : IsTold(t)

(* A step that does not concern a torrent.                                  *)
Undisturbed(s) ==
  /\ goalOf'[s] = goalOf[s]
  /\ s \in survivors' <=> s \in survivors
  /\ s \in ToSet(rows') => s \in ToSet(rows)
  /\ s \in tombstones => s \in tombstones'
  /\ activeRow' = s => activeRow = s \/ s \in ToSet(rows) \/ HasSession(s)
  /\ Ordered(s) => Ordered(s)'
  /\ goalShown'[s] = goalShown[s] \/ Ordered(s)'
  /\ \A type : Tell(uiEvents', type, s) = {} <=> Tell(uiEvents, type, s) = {}
  /\ \A type, goal : Latest(uiEvents, type, s, goal) => Latest(uiEvents', type, s, goal)

LEMMA UndisturbedStays ==
  ASSUME NEW s, IsTold(s), Undisturbed(s)
  PROVE  IsTold(s)'
<1>1. GoneIsTold(s)'
  <2>1. GoneIsTold(s)
    BY DEF IsTold
  <2> QED
    BY <2>1 DEF GoneIsTold, Undisturbed, HasSession
<1>2. GoalIsTold(s)'
  <2>1. GoalIsTold(s)
    BY DEF IsTold
  <2> QED
    BY <2>1 DEF GoalIsTold, Undisturbed, HasSession
<1> QED
  BY <1>1, <1>2 DEF IsTold

(* The commands the manager takes, and those it gets.                       *)
LEMMA TakenCommand ==
  ASSUME managerQueue \in Seq(ViewCommands), managerQueue # << >>, managerQueue' = Tail(managerQueue)
  PROVE  /\ Head(managerQueue) \in ViewCommands /\ managerQueue' \in Seq(ViewCommands)
         /\ \A s : Ordered(s) => Ordered(s)'
                     \/ (Head(managerQueue).kind = "goal" /\ Head(managerQueue).torrent = s)
<1> DEFINE n == Len(managerQueue)
<1>1. /\ Head(managerQueue) \in ViewCommands /\ managerQueue' \in Seq(ViewCommands)
      /\ Head(managerQueue) = managerQueue[1] /\ n \in Nat /\ n >= 1 /\ Len(managerQueue') = n - 1
      /\ \A i \in 1 .. n - 1 : managerQueue'[i] = managerQueue[i + 1]
      /\ DOMAIN managerQueue = 1 .. n /\ DOMAIN managerQueue' = 1 .. n - 1
  OBVIOUS
<1>2. ASSUME NEW s, NEW i \in DOMAIN managerQueue, managerQueue[i].kind = "goal",
             managerQueue[i].torrent = s, ~ (Head(managerQueue).kind = "goal" /\ Head(managerQueue).torrent = s)
      PROVE  Ordered(s)'
  <2>1. i \in 1 .. n /\ i # 1
    BY <1>1, <1>2
  <2> HIDE DEF n
  <2>2. i - 1 \in 1 .. n - 1 /\ i = (i - 1) + 1
    BY <1>1, <2>1
  <2>3. managerQueue'[i - 1] = managerQueue[i] /\ i - 1 \in DOMAIN managerQueue'
    BY <1>1, <2>2
  <2> QED
    BY <1>2, <2>3 DEF Ordered
<1>3. \A s : Ordered(s) => Ordered(s)'
               \/ (Head(managerQueue).kind = "goal" /\ Head(managerQueue).torrent = s)
  BY <1>2 DEF Ordered
<1> QED
  BY <1>1, <1>3

LEMMA GivenCommand ==
  ASSUME managerQueue \in Seq(ViewCommands), NEW given \in ViewCommands,
         managerQueue' = Append(managerQueue, given)
  PROVE  /\ managerQueue' \in Seq(ViewCommands)
         /\ \A s : Ordered(s) \/ (given.kind = "goal" /\ given.torrent = s) => Ordered(s)'
<1> DEFINE n == Len(managerQueue)
<1>1. /\ managerQueue' \in Seq(ViewCommands) /\ n \in Nat
      /\ \A i \in 1 .. n : managerQueue'[i] = managerQueue[i]
      /\ managerQueue'[n + 1] = given
      /\ DOMAIN managerQueue = 1 .. n /\ DOMAIN managerQueue' = 1 .. n + 1
  <2>1. managerQueue' \in Seq(ViewCommands) /\ Len(managerQueue') = n + 1 /\ n \in Nat
    BY AppendProperties, LenProperties
  <2> QED
    BY <2>1, AppendProperties, LenProperties
<1>2. 1 .. n \subseteq 1 .. n + 1 /\ n + 1 \in 1 .. n + 1
  BY <1>1
<1> HIDE DEF n
<1>3. \A s : Ordered(s) \/ (given.kind = "goal" /\ given.torrent = s) => Ordered(s)'
  BY <1>1, <1>2 DEF Ordered
<1> QED
  BY <1>1, <1>3

(* What a step leaves alone.                                                *)
LEMMA SameTold ==
  ASSUME uiEvents' = uiEvents
  PROVE  /\ \A type, s : Tell(uiEvents', type, s) = {} <=> Tell(uiEvents, type, s) = {}
         /\ \A type, s, goal : Latest(uiEvents, type, s, goal) => Latest(uiEvents', type, s, goal)
OBVIOUS

LEMMA SameOrdered ==
  ASSUME managerQueue' = managerQueue
  PROVE  \A s : Ordered(s) => Ordered(s)'
BY DEF Ordered

LEMMA SameRows ==
  ASSUME RowsStand, rows' = rows, tombstones' \subseteq tombstones, goalShown' = goalShown
  PROVE  RowsStand'
BY DEF RowsStand

LEMMA ViewStutters ==
  ASSUME ViewInv, UNCHANGED viewVars
  PROVE  ViewInv'
<1>1. \A t : IsTold(t) <=> IsTold(t)'
  BY DEF viewVars, managerVars, tableVars, IsTold, GoneIsTold, GoalIsTold, HasSession, Ordered
<1>2. ViewTypes' /\ RowsStand'
  BY DEF ViewInv, viewVars, managerVars, tableVars, ViewTypes, RowsStand
<1> QED
  BY <1>1, <1>2 DEF ViewInv

(* REMOVE is taken.                                                         *)
LEMMA RemoveIsTaken ==
  ASSUME ViewInv, HandleRemove
  PROVE  ViewInv'
<1>1. ViewTypes /\ RowsStand /\ managerQueue \in Seq(ViewCommands)
  BY DEF ViewInv, ViewTypes
<1>2. /\ Head(managerQueue) \in ViewCommands /\ managerQueue' \in Seq(ViewCommands)
      /\ \A s : Ordered(s) => Ordered(s)'
  BY <1>1, TakenCommand DEF HandleRemove
<1>3. removing' \in Selections
  BY <1>2 DEF HandleRemove, Selections, ViewCommands
<1>4. ViewTypes'
  BY <1>1, <1>2, <1>3 DEF ViewTypes, HandleRemove, tableVars
<1>5. RowsStand'
  BY <1>1, SameRows DEF HandleRemove, tableVars
<1>6. ASSUME NEW s \in Torrents PROVE IsTold(s)'
  <2>1. Undisturbed(s)
    BY <1>2, SameTold DEF HandleRemove, tableVars, Undisturbed
  <2> QED
    BY <2>1, UndisturbedStays DEF ViewInv
<1> QED
  BY <1>4, <1>5, <1>6 DEF ViewInv

(* The removal of a torrent ends.                                           *)
LEMMA RemovalIsTold ==
  ASSUME ViewInv, RemovalEnds
  PROVE  ViewInv'
<1>1. ViewTypes /\ RowsStand /\ uiEvents \in Seq(Events)
  BY DEF ViewInv, ViewTypes
<1>2. PICK t : t = removing
  OBVIOUS
<1>3. t \in Torrents
  BY <1>1, <1>2 DEF ViewTypes, RemovalEnds, Selections
<1> DEFINE order == Without(queueOrder, t)
           place == IF t \in ToSet(queueOrder)
                    THEN CHOOSE i \in DOMAIN queueOrder : queueOrder[i] = t ELSE 1
           next == IF selected # t THEN selected
                   ELSE IF order = << >> THEN NoTorrent
                   ELSE order[IF place <= Len(order) THEN place ELSE Len(order)]
<1>4. /\ goalOf' = [goalOf EXCEPT ![t] = Unknown]
      /\ sessionOrder' = Without(sessionOrder, t) /\ queueOrder' = order /\ selected' = next
      /\ uiEvents' = Append(uiEvents, Removed(t, next))
      /\ survivors' \in {survivors, survivors \cup {t}} /\ removing' = NoTorrent
      /\ UNCHANGED <<managerQueue, resolving, scene, tableVars, viewOps>>
  BY <1>2 DEF RemovalEnds
<1>5. order \in Seq(Torrents) /\ sessionOrder' \in Seq(Torrents)
  BY <1>1, <1>4, LeftOrder DEF ViewTypes
<1>6. next \in Selections
  <2>1. place \in Nat /\ place >= 1
    <3>1. ASSUME t \in ToSet(queueOrder) PROVE place \in DOMAIN queueOrder
      <4>1. \E i \in DOMAIN queueOrder : queueOrder[i] = t
        BY <3>1 DEF ToSet
      <4> QED
        BY <3>1, <4>1
    <3>2. DOMAIN queueOrder \subseteq Nat \ {0}
      BY <1>1, LenProperties DEF ViewTypes
    <3>3. CASE t \in ToSet(queueOrder)
      <4> HIDE DEF place
      <4> QED
        BY <3>1, <3>2, <3>3
    <3> QED
      BY <3>3
  <2>2. ASSUME order # << >> PROVE order[IF place <= Len(order) THEN place ELSE Len(order)] \in Torrents
    <3> HIDE DEF order, place
    <3>1. Len(order) \in Nat /\ Len(order) # 0
      BY <1>5, <2>2, LenProperties, EmptySeq
    <3> QED
      BY <1>5, <2>1, <3>1, ElementOfSeq
  <2> HIDE DEF order, place
  <2> QED
    BY <1>1, <2>2 DEF ViewTypes, Selections
<1> HIDE DEF order, next
<1>7. PICK after : after = next
  OBVIOUS
<1>8. /\ Removed(t, after) \in Events /\ Removed(t, after).torrent = t
      /\ Removed(t, after).type = "removed" /\ uiEvents' = Append(uiEvents, Removed(t, after))
  BY <1>3, <1>4, <1>6, <1>7, EventsMade, GoalsAreKnown
<1>9. ViewTypes'
  <2>1. uiEvents' \in Seq(Events)
    BY <1>1, <1>8, AppendProperties
  <2>2. goalOf' \in [Torrents -> Goals \cup {Unknown}]
    BY <1>1, <1>4 DEF ViewTypes
  <2>3. removing' \in Selections /\ survivors' \subseteq Torrents
    BY <1>1, <1>3, <1>4 DEF ViewTypes, Selections
  <2> QED
    BY <1>1, <1>4, <1>5, <1>6, <2>1, <2>2, <2>3 DEF ViewTypes, tableVars
<1>10. RowsStand'
  BY <1>1, <1>4, SameRows DEF tableVars
<1>11. IsTold(t)'
  <2>1. ~ HasSession(t)'
    BY <1>1, <1>3, <1>4 DEF HasSession, ViewTypes
  <2>2. Tell(uiEvents', "removed", t) # {}
    BY <1>1, <1>8, ToldOneMore
  <2> QED
    BY <2>1, <2>2 DEF IsTold, GoneIsTold, GoalIsTold
<1>12. ASSUME NEW s \in Torrents, s # t PROVE IsTold(s)'
  <2>1. /\ \A type : Tell(uiEvents', type, s) = {} <=> Tell(uiEvents, type, s) = {}
        /\ \A type, goal : Latest(uiEvents, type, s, goal) => Latest(uiEvents', type, s, goal)
    BY <1>1, <1>8, <1>12, ToldOthers
  <2>2. goalOf'[s] = goalOf[s] /\ (s \in survivors' <=> s \in survivors)
    BY <1>1, <1>4, <1>12 DEF ViewTypes
  <2>3. Undisturbed(s)
    BY <1>4, <2>1, <2>2, SameOrdered DEF Undisturbed, tableVars
  <2> QED
    BY <2>3, UndisturbedStays DEF ViewInv
<1> QED
  BY <1>9, <1>10, <1>11, <1>12 DEF ViewInv

(* A goal is set, and told.                                                 *)
LEMMA GoalIsSet ==
  ASSUME ViewInv, HandleSetGoal
  PROVE  ViewInv'
<1>1. ViewTypes /\ RowsStand /\ managerQueue \in Seq(ViewCommands) /\ uiEvents \in Seq(Events)
  BY DEF ViewInv, ViewTypes
<1>2. PICK t, goal : t = Head(managerQueue).torrent /\ goal = Head(managerQueue).goal
  OBVIOUS
<1>3. /\ Head(managerQueue) \in ViewCommands /\ managerQueue' \in Seq(ViewCommands)
      /\ \A s : s # t /\ Ordered(s) => Ordered(s)'
  BY <1>1, <1>2, TakenCommand DEF HandleSetGoal
<1>4. t \in Torrents /\ goal \in Goals
  BY <1>2, <1>3 DEF ViewCommands
<1>5. /\ IF HasSession(t) THEN SetGoal(t, goal) ELSE UNCHANGED <<goalOf, uiEvents>>
      /\ UNCHANGED <<sessionOrder, queueOrder, selected, removing, survivors, resolving, scene,
                     tableVars, viewOps>>
  BY <1>2 DEF HandleSetGoal
<1>6. RowsStand'
  BY <1>1, <1>5, SameRows DEF tableVars
<1>7. CASE ~ HasSession(t)
  <2>1. ViewTypes'
    BY <1>1, <1>3, <1>5, <1>7 DEF ViewTypes, tableVars
  <2>2. ASSUME NEW s \in Torrents, s # t PROVE IsTold(s)'
    <3>1. Undisturbed(s)
      BY <1>3, <1>5, <1>7, <2>2, SameTold DEF Undisturbed, tableVars
    <3> QED
      BY <3>1, UndisturbedStays DEF ViewInv
  <2>3. IsTold(t)'
    <3>1. IsTold(t)
      BY <1>4 DEF ViewInv
    <3>2. UNCHANGED <<goalOf, uiEvents, survivors, rows, tombstones, activeRow>>
      BY <1>5, <1>7 DEF tableVars
    <3>3. GoneIsTold(t)'
      BY <3>1, <3>2 DEF IsTold, GoneIsTold, HasSession
    <3>4. GoalIsTold(t)'
      BY <1>7, <3>2 DEF GoalIsTold, HasSession
    <3> QED
      BY <3>3, <3>4 DEF IsTold
  <2> QED
    BY <1>6, <2>1, <2>2, <2>3 DEF ViewInv
<1>8. CASE HasSession(t)
  <2> DEFINE first == Append(uiEvents, Stats(t, goal))
  <2>1. /\ Stats(t, goal) \in Events /\ Stats(t, goal).type = "stats"
        /\ Stats(t, goal).torrent = t /\ Stats(t, goal).goal = goal
        /\ GoalUpdated(t, goal) \in Events /\ GoalUpdated(t, goal).type = "goal"
        /\ GoalUpdated(t, goal).torrent = t /\ GoalUpdated(t, goal).goal = goal
    <3>1. NoTorrent \in Selections
      BY DEF Selections
    <3> QED
      BY <1>4, <3>1, EventsMade
  <2>2. goalOf' = [goalOf EXCEPT ![t] = goal] /\ uiEvents' = Append(first, GoalUpdated(t, goal))
    BY <1>1, <1>5, <1>8, <2>1, TellsInTurn DEF SetGoal
  <2>3. first \in Seq(Events) /\ uiEvents' \in Seq(Events)
    BY <1>1, <2>1, <2>2, AppendProperties
  <2>4. ViewTypes'
    <3>1. goalOf' \in [Torrents -> Goals \cup {Unknown}]
      BY <1>1, <1>4, <2>2 DEF ViewTypes
    <3> QED
      BY <1>1, <1>3, <1>5, <2>3, <3>1 DEF ViewTypes, tableVars
  <2>5. ASSUME NEW s \in Torrents, s # t PROVE IsTold(s)'
    <3>1. /\ \A type : Tell(first, type, s) = {} <=> Tell(uiEvents, type, s) = {}
          /\ \A type, g : Latest(uiEvents, type, s, g) => Latest(first, type, s, g)
      BY <1>1, <2>1, <2>5, ToldOthers
    <3> HIDE DEF first
    <3>2. /\ \A type : Tell(uiEvents', type, s) = {} <=> Tell(first, type, s) = {}
          /\ \A type, g : Latest(first, type, s, g) => Latest(uiEvents', type, s, g)
      BY <2>1, <2>2, <2>3, <2>5, ToldOthers
    <3>3. /\ \A type : Tell(uiEvents', type, s) = {} <=> Tell(uiEvents, type, s) = {}
          /\ \A type, g : Latest(uiEvents, type, s, g) => Latest(uiEvents', type, s, g)
      BY <3>1, <3>2
    <3>4. goalOf'[s] = goalOf[s]
      BY <1>1, <2>2, <2>5 DEF ViewTypes
    <3>5. Undisturbed(s)
      BY <1>3, <1>5, <2>5, <3>3, <3>4 DEF Undisturbed, tableVars
    <3> QED
      BY <3>5, UndisturbedStays DEF ViewInv
  <2>6. IsTold(t)'
    <3>1. goalOf'[t] = goal /\ goal # Unknown
      BY <1>1, <1>4, <2>2, GoalsAreKnown DEF ViewTypes
    <3>2. Latest(first, "stats", t, goal) /\ Tell(first, "stats", t) # {}
      <4>1. PICK event \in Events : event = Stats(t, goal)
        BY <2>1
      <4>2. Latest(Append(uiEvents, event), event.type, event.torrent, event.goal)
            /\ Tell(Append(uiEvents, event), event.type, event.torrent) # {}
        BY <1>1, ToldLast
      <4> QED
        BY <2>1, <4>1, <4>2
    <3> HIDE DEF first
    <3>3. /\ Latest(uiEvents', "stats", t, goal) /\ Tell(uiEvents', "stats", t) # {}
          /\ Latest(uiEvents', "goal", t, goal)
      <4>1. PICK event \in Events : event = GoalUpdated(t, goal)
        BY <2>1
      <4>2. /\ Latest(Append(first, event), event.type, event.torrent, event.goal)
            /\ Tell(Append(first, event), "stats", event.torrent) # {}
            /\ Latest(Append(first, event), "stats", event.torrent, goal)
        <5>1. "stats" # event.type /\ event.torrent = t
          BY <2>1, <4>1
        <5> QED
          BY <2>3, <3>2, <5>1, ToldLast
      <4> QED
        BY <2>1, <2>2, <4>1, <4>2
    <3> QED
      BY <3>1, <3>3 DEF IsTold, GoneIsTold, GoalIsTold, HasSession
  <2> QED
    BY <1>6, <2>4, <2>5, <2>6 DEF ViewInv
<1> QED
  BY <1>7, <1>8

(* A run tells its state, even one whose torrent is gone.                   *)
LEMMA TelemetryIsTold ==
  ASSUME ViewInv, NEW t \in Torrents, Telemetry(t)
  PROVE  ViewInv'
<1>1. ViewTypes /\ RowsStand /\ uiEvents \in Seq(Events) /\ NoTorrent \in Selections
  BY DEF ViewInv, ViewTypes, Selections
<1>2. PICK goal \in Goals : /\ uiEvents' = Append(uiEvents, Stats(t, goal))
                            /\ (HasSession(t) /\ goal = goalOf[t]) \/ t \in survivors
  <2>1. HasSession(t) => goalOf[t] \in Goals
    BY <1>1 DEF HasSession, ViewTypes
  <2> QED
    BY <2>1, GoalsAreKnown DEF Telemetry
<1>3. UNCHANGED <<managerVars, scene, tableVars, viewOps>>
  BY DEF Telemetry
<1>4. /\ Stats(t, goal) \in Events /\ Stats(t, goal).type = "stats"
      /\ Stats(t, goal).torrent = t /\ Stats(t, goal).goal = goal
  BY <1>1, EventsMade
<1>5. ViewTypes'
  <2>1. uiEvents' \in Seq(Events)
    BY <1>1, <1>2, <1>4, AppendProperties
  <2> QED
    BY <1>1, <1>3, <2>1 DEF ViewTypes, tableVars, managerVars
<1>6. RowsStand'
  BY <1>1, <1>3, SameRows DEF tableVars
<1>7. ASSUME NEW s \in Torrents, s # t PROVE IsTold(s)'
  <2>1. /\ \A type : Tell(uiEvents', type, s) = {} <=> Tell(uiEvents, type, s) = {}
        /\ \A type, g : Latest(uiEvents, type, s, g) => Latest(uiEvents', type, s, g)
    BY <1>1, <1>2, <1>4, <1>7, ToldOthers
  <2>2. Undisturbed(s)
    BY <1>3, <2>1, SameOrdered DEF Undisturbed, tableVars, managerVars
  <2> QED
    BY <2>2, UndisturbedStays DEF ViewInv
<1>8. IsTold(t)'
  <2>1. GoneIsTold(t) /\ GoalIsTold(t)
    BY DEF ViewInv, IsTold
  <2>2. /\ \A type : type # "stats" => (Tell(uiEvents', type, t) = {} <=> Tell(uiEvents, type, t) = {})
        /\ \A type, g : type # "stats" /\ Latest(uiEvents, type, t, g) => Latest(uiEvents', type, t, g)
        /\ Tell(uiEvents', "stats", t) # {} /\ Latest(uiEvents', "stats", t, goal)
    <3>1. PICK event \in Events : event = Stats(t, goal)
      BY <1>4
    <3>2. /\ Tell(uiEvents', event.type, event.torrent) # {}
          /\ Latest(uiEvents', event.type, event.torrent, event.goal)
          /\ \A type : type # event.type =>
               (Tell(uiEvents', type, event.torrent) = {} <=> Tell(uiEvents, type, event.torrent) = {})
          /\ \A type, g : type # event.type /\ Latest(uiEvents, type, event.torrent, g)
                            => Latest(uiEvents', type, event.torrent, g)
      BY <1>1, <1>2, <3>1, ToldLast
    <3> QED
      BY <1>4, <3>1, <3>2
  <2>3. UNCHANGED <<goalOf, survivors, rows, tombstones, activeRow, goalShown>>
    BY <1>3 DEF managerVars, tableVars
  <2>4. GoneIsTold(t)'
    BY <1>2, <2>1, <2>2, <2>3 DEF GoneIsTold, HasSession
  <2>5. GoalIsTold(t)'
    BY <1>2, <2>1, <2>2, <2>3 DEF GoalIsTold, HasSession
  <2> QED
    BY <2>4, <2>5 DEF IsTold
<1> QED
  BY <1>5, <1>6, <1>7, <1>8 DEF ViewInv

(* A torrent is added, or was there: the table is told its goal.            *)
LEMMA AddedIsTold ==
  ASSUME ViewInv, NEW t \in Torrents, NEW told \in {<< >>, <<MagnetReady(t)>>}, ManagerAdds(t, told),
         UNCHANGED <<survivors, managerQueue, rows, goalShown>>,
         activeRow' \in {activeRow, t}, tombstones' \in {tombstones, tombstones \ {t}}
  PROVE  /\ goalOf' \in [Torrents -> Goals \cup {Unknown}] /\ uiEvents' \in Seq(Events)
         /\ sessionOrder' \in Seq(Torrents) /\ queueOrder' \in Seq(Torrents)
         /\ RowsStand' /\ \A s \in Torrents : IsTold(s)'
<1>1. ViewTypes /\ RowsStand /\ uiEvents \in Seq(Events) /\ NoTorrent \in Selections
  BY DEF ViewInv, ViewTypes, Selections
<1>2. PICK goal : goal = IF HasSession(t) THEN goalOf[t] ELSE {}
  OBVIOUS
<1>3. goal \in Goals /\ goal # Unknown
  BY <1>1, <1>2, GoalsAreKnown DEF HasSession, ViewTypes
<1> DEFINE first == Append(uiEvents, Stats(t, goal))
<1>4. goalOf' = [goalOf EXCEPT ![t] = goal] /\ uiEvents' = first \o told
  BY <1>2 DEF ManagerAdds
<1>5. /\ Stats(t, goal) \in Events /\ Stats(t, goal).type = "stats"
      /\ Stats(t, goal).torrent = t /\ Stats(t, goal).goal = goal
      /\ MagnetReady(t) \in Events /\ MagnetReady(t).type = "ready" /\ MagnetReady(t).torrent = t
  BY <1>1, <1>3, EventsMade
<1>6. first \in Seq(Events)
  BY <1>1, <1>5, AppendProperties
<1>7. uiEvents' = first \/ uiEvents' = Append(first, MagnetReady(t))
  <2>1. told = << >> \/ told = <<MagnetReady(t)>>
    OBVIOUS
  <2> HIDE DEF first
  <2> QED
    BY <1>4, <1>5, <1>6, <2>1, TellsInTurn
<1>8. uiEvents' \in Seq(Events)
  <2> HIDE DEF first
  <2> QED
    BY <1>5, <1>6, <1>7, AppendProperties
<1>9. goalOf' \in [Torrents -> Goals \cup {Unknown}]
  BY <1>1, <1>3, <1>4 DEF ViewTypes
<1>10. sessionOrder' \in Seq(Torrents) /\ queueOrder' \in Seq(Torrents)
  BY <1>1, JoinedOrder DEF ManagerAdds, ViewTypes
<1>11. RowsStand'
  BY <1>1, SameRows
<1>12. ASSUME NEW s \in Torrents, s # t PROVE IsTold(s)'
  <2>1. /\ \A type : Tell(first, type, s) = {} <=> Tell(uiEvents, type, s) = {}
        /\ \A type, g : Latest(uiEvents, type, s, g) => Latest(first, type, s, g)
    BY <1>1, <1>5, <1>12, ToldOthers
  <2> HIDE DEF first
  <2>2. /\ \A type : Tell(uiEvents', type, s) = {} <=> Tell(first, type, s) = {}
        /\ \A type, g : Latest(first, type, s, g) => Latest(uiEvents', type, s, g)
    <3>1. CASE uiEvents' = first
      BY <3>1
    <3>2. CASE uiEvents' = Append(first, MagnetReady(t))
      BY <1>5, <1>6, <1>12, <3>2, ToldOthers
    <3> QED
      BY <1>7, <3>1, <3>2
  <2>3. /\ \A type : Tell(uiEvents', type, s) = {} <=> Tell(uiEvents, type, s) = {}
        /\ \A type, g : Latest(uiEvents, type, s, g) => Latest(uiEvents', type, s, g)
    BY <2>1, <2>2
  <2>4. goalOf'[s] = goalOf[s]
    BY <1>1, <1>4, <1>12 DEF ViewTypes
  <2>5. Undisturbed(s)
    BY <1>12, <2>3, <2>4, SameOrdered DEF Undisturbed
  <2> QED
    BY <2>5, UndisturbedStays DEF ViewInv
<1>13. IsTold(t)'
  <2>1. goalOf'[t] = goal
    BY <1>1, <1>4 DEF ViewTypes
  <2>2. GoneIsTold(t) /\ GoalIsTold(t)
    BY DEF ViewInv, IsTold
  <2>3. /\ Tell(first, "stats", t) # {} /\ Latest(first, "stats", t, goal)
        /\ \A type : type # "stats" => (Tell(first, type, t) = {} <=> Tell(uiEvents, type, t) = {})
        /\ \A type, g : type # "stats" /\ Latest(uiEvents, type, t, g) => Latest(first, type, t, g)
    <3>1. PICK event \in Events : event = Stats(t, goal)
      BY <1>5
    <3>2. /\ Tell(first, event.type, event.torrent) # {}
          /\ Latest(first, event.type, event.torrent, event.goal)
          /\ \A type : type # event.type =>
               (Tell(first, type, event.torrent) = {} <=> Tell(uiEvents, type, event.torrent) = {})
          /\ \A type, g : type # event.type /\ Latest(uiEvents, type, event.torrent, g)
                            => Latest(first, type, event.torrent, g)
      BY <1>1, <3>1, ToldLast
    <3> HIDE DEF first
    <3> QED
      BY <1>5, <3>1, <3>2
  <2> HIDE DEF first
  <2>4. /\ \A type : type # "ready" => (Tell(uiEvents', type, t) = {} <=> Tell(first, type, t) = {})
        /\ \A type, g : type # "ready" /\ Latest(first, type, t, g) => Latest(uiEvents', type, t, g)
    <3>1. CASE uiEvents' = first
      BY <3>1
    <3>2. CASE uiEvents' = Append(first, MagnetReady(t))
      <4>1. PICK event \in Events : event = MagnetReady(t)
        BY <1>5
      <4>2. /\ \A type : type # event.type =>
                 (Tell(uiEvents', type, event.torrent) = {} <=> Tell(first, type, event.torrent) = {})
            /\ \A type, g : type # event.type /\ Latest(first, type, event.torrent, g)
                              => Latest(uiEvents', type, event.torrent, g)
        BY <1>6, <3>2, <4>1, ToldLast
      <4> QED
        BY <1>5, <4>1, <4>2
    <3> QED
      BY <1>7, <3>1, <3>2
  <2>5. Tell(uiEvents', "stats", t) # {} /\ Latest(uiEvents', "stats", t, goal)
    BY <2>3, <2>4
  <2>6. Tell(uiEvents', "removed", t) = {} => Tell(uiEvents, "removed", t) = {}
    BY <2>3, <2>4
  <2>7. Latest(uiEvents, "goal", t, goal) => Latest(uiEvents', "goal", t, goal)
    BY <2>3, <2>4
  <2>8. Tell(uiEvents, "removed", t) = {} /\ t \notin survivors => Latest(uiEvents, "goal", t, goal)
    <3>1. CASE HasSession(t)
      BY <1>2, <2>2, <3>1 DEF GoalIsTold
    <3>2. CASE ~ HasSession(t)
      BY <2>2, <3>2 DEF GoneIsTold, Latest
    <3> QED
      BY <3>1, <3>2
  <2> QED
    BY <1>3, <2>1, <2>5, <2>6, <2>7, <2>8 DEF IsTold, GoneIsTold, GoalIsTold, HasSession
<1> QED
  BY <1>8, <1>9, <1>10, <1>11, <1>12, <1>13

(* The torrents the user and the magnet links add.                          *)
LEMMA MagnetIsTold ==
  ASSUME ViewInv, NEW t \in Torrents, MagnetResolves(t)
  PROVE  ViewInv'
<1>1. /\ resolving' = resolving \ {t} /\ ManagerAdds(t, <<MagnetReady(t)>>)
      /\ UNCHANGED <<selected, managerQueue, removing, survivors, scene, tableVars, viewOps>>
  BY DEF MagnetResolves
<1>2. PICK told : told = <<MagnetReady(t)>>
  OBVIOUS
<1>3. told \in {<< >>, <<MagnetReady(t)>>} /\ ManagerAdds(t, told)
  BY <1>1, <1>2
<1>4. /\ goalOf' \in [Torrents -> Goals \cup {Unknown}] /\ uiEvents' \in Seq(Events)
      /\ sessionOrder' \in Seq(Torrents) /\ queueOrder' \in Seq(Torrents)
      /\ RowsStand' /\ \A s \in Torrents : IsTold(s)'
  BY <1>1, <1>3, AddedIsTold DEF tableVars
<1> QED
  BY <1>1, <1>4 DEF ViewInv, ViewTypes, tableVars

LEMMA FileIsTold ==
  ASSUME ViewInv, NEW t \in Torrents, AddFile(t)
  PROVE  ViewInv'
<1>1. /\ Act /\ ManagerAdds(t, << >>) /\ tombstones' = tombstones \ {t}
      /\ activeRow' = t /\ selected' = t
      /\ UNCHANGED <<managerQueue, removing, survivors, resolving, scene, rows, goalShown>>
  BY DEF AddFile
<1>2. /\ goalOf' \in [Torrents -> Goals \cup {Unknown}] /\ uiEvents' \in Seq(Events)
      /\ sessionOrder' \in Seq(Torrents) /\ queueOrder' \in Seq(Torrents)
      /\ RowsStand' /\ \A s \in Torrents : IsTold(s)'
  BY <1>1, AddedIsTold
<1>3. viewOps' \in 0 .. MaxViewOps
  BY <1>1, ViewAssumption DEF ViewInv, ViewTypes, Act, ViewAssumption
<1> QED
  BY <1>1, <1>2, <1>3 DEF ViewInv, ViewTypes, Selections

LEMMA CreatedIsTold ==
  ASSUME ViewInv, NEW t \in Torrents, SeedCreated(t)
  PROVE  ViewInv'
<1>1. /\ Act /\ ManagerAdds(t, << >>) /\ selected' = t /\ scene' = "transfers"
      /\ UNCHANGED <<managerQueue, removing, survivors, resolving, tableVars>>
  BY DEF SeedCreated
<1>2. /\ goalOf' \in [Torrents -> Goals \cup {Unknown}] /\ uiEvents' \in Seq(Events)
      /\ sessionOrder' \in Seq(Torrents) /\ queueOrder' \in Seq(Torrents)
      /\ RowsStand' /\ \A s \in Torrents : IsTold(s)'
  BY <1>1, AddedIsTold DEF tableVars
<1>3. viewOps' \in 0 .. MaxViewOps
  BY <1>1, ViewAssumption DEF ViewInv, ViewTypes, Act, ViewAssumption
<1> QED
  BY <1>1, <1>2, <1>3 DEF ViewInv, ViewTypes, Selections, tableVars

--------------------------------------------------------------------------------
(* What the user does with a row.                                           *)
LEMMA SelectingIs ==
  ASSUME ViewTypes, NEW t \in Torrents
  PROVE  Selecting(selected, t) \in Selections
BY DEF ViewTypes, Selecting, Selections

LEMMA ActIs ==
  ASSUME ViewTypes, Act
  PROVE  viewOps' \in 0 .. MaxViewOps
BY ViewAssumption DEF ViewTypes, Act, ViewAssumption

LEMMA ClickIsTold ==
  ASSUME ViewInv, NEW t \in Torrents, ClickRow(t)
  PROVE  ViewInv'
<1>1. ViewTypes /\ RowsStand
  BY DEF ViewInv
<1>2. ViewTypes'
  BY <1>1, SelectingIs, ActIs DEF ViewTypes, ClickRow, Select, Selections
<1>3. RowsStand'
  BY <1>1, SameRows DEF ClickRow
<1>4. ASSUME NEW s \in Torrents PROVE IsTold(s)'
  <2>1. Undisturbed(s)
    BY SameTold, SameOrdered DEF ClickRow, Select, Undisturbed
  <2> QED
    BY <2>1, UndisturbedStays DEF ViewInv
<1> QED
  BY <1>2, <1>3, <1>4 DEF ViewInv

LEMMA RowIsRemoved ==
  ASSUME ViewInv, NEW t \in Torrents, RemoveRow(t)
  PROVE  ViewInv'
<1>1. ViewTypes /\ RowsStand /\ NoTorrent \in Selections /\ {} \in Goals /\ managerQueue \in Seq(ViewCommands)
  BY GoalsAreKnown DEF ViewInv, Selections, ViewTypes
<1>2. PICK given \in ViewCommands : given = CommandOf("remove", t, {})
  BY <1>1, EventsMade
<1>3. managerQueue' \in Seq(ViewCommands) /\ \A s : Ordered(s) => Ordered(s)'
  <2>1. CASE HasSession(t)
    <3>1. managerQueue' = Append(managerQueue, given)
      BY <1>2, <2>1 DEF RemoveRow
    <3> QED
      BY <1>1, <3>1, GivenCommand
  <2>2. CASE ~ HasSession(t)
    <3>1. managerQueue' = managerQueue
      BY <2>2 DEF RemoveRow
    <3> QED
      BY <1>1, <3>1, SameOrdered
  <2> QED
    BY <2>1, <2>2
<1>4. ViewTypes'
  BY <1>1, <1>3, SelectingIs, ActIs DEF ViewTypes, RemoveRow, Select, Selections
<1>5. RowsStand'
  BY <1>1, SameRows DEF RemoveRow
<1>6. ASSUME NEW s \in Torrents PROVE IsTold(s)'
  <2>1. Undisturbed(s)
    BY <1>3, SameTold DEF RemoveRow, Select, Undisturbed
  <2> QED
    BY <2>1, UndisturbedStays DEF ViewInv
<1> QED
  BY <1>4, <1>5, <1>6 DEF ViewInv

(* A goal the user gives is shown at once, and on its way.                  *)
LEMMA GoalIsGiven ==
  ASSUME ViewInv, NEW t \in Torrents, NEW goal \in Goals, Act, SubmitGoal(t, goal),
         t \in ToSet(rows) \/ t = activeRow
  PROVE  ViewInv'
<1>1. ViewTypes /\ RowsStand /\ NoTorrent \in Selections /\ managerQueue \in Seq(ViewCommands)
  BY DEF ViewInv, Selections, ViewTypes
<1>2. PICK given \in ViewCommands :
         given = CommandOf("goal", t, goal) /\ given.kind = "goal" /\ given.torrent = t
  BY <1>1, EventsMade
<1>3. /\ managerQueue' \in Seq(ViewCommands) /\ \A s : Ordered(s) => Ordered(s)'
      /\ goalShown' \in [Torrents -> Goals \cup {Unknown}]
      /\ \A s \in Torrents : goalShown'[s] = goalShown[s] \/ (Ordered(s)' /\ goalShown'[s] # Unknown)
  <2>1. CASE HasSession(t)
    <3>1. managerQueue' = Append(managerQueue, given) /\ goalShown' = [goalShown EXCEPT ![t] = goal]
      BY <1>2, <2>1 DEF SubmitGoal
    <3>2. managerQueue' \in Seq(ViewCommands) /\ \A s : Ordered(s) => Ordered(s)'
      BY <1>1, <3>1, GivenCommand
    <3>3. Ordered(t)'
      BY <1>1, <1>2, <3>1, GivenCommand
    <3>4. goalShown' \in [Torrents -> Goals \cup {Unknown}]
          /\ \A s \in Torrents : goalShown'[s] = goalShown[s] \/ (s = t /\ goalShown'[s] = goal)
      BY <1>1, <3>1 DEF ViewTypes
    <3> QED
      BY <3>2, <3>3, <3>4, GoalsAreKnown
  <2>2. CASE ~ HasSession(t)
    <3>1. managerQueue' = managerQueue /\ goalShown' = goalShown
      BY <2>2 DEF SubmitGoal
    <3> QED
      BY <1>1, <3>1, SameOrdered DEF ViewTypes
  <2> QED
    BY <2>1, <2>2
<1>4. ViewTypes'
  BY <1>1, <1>3, SelectingIs, ActIs DEF ViewTypes, SubmitGoal, Select, Selections
<1>5. RowsStand'
  <2>1. ToSet(rows) \subseteq Torrents
    BY <1>1, OrderIsOf DEF ViewTypes
  <2> QED
    BY <1>1, <1>3, <2>1 DEF RowsStand, SubmitGoal
<1>6. ASSUME NEW s \in Torrents PROVE IsTold(s)'
  <2>1. Undisturbed(s)
    BY <1>3, SameTold DEF SubmitGoal, Select, Undisturbed
  <2> QED
    BY <2>1, UndisturbedStays DEF ViewInv
<1> QED
  BY <1>4, <1>5, <1>6 DEF ViewInv

LEMMA GoalIsToggled ==
  ASSUME ViewInv, NEW t \in Torrents, NEW unit \in Units, ToggleGoal(t, unit)
  PROVE  ViewInv'
<1>1. goalShown[t] \in Goals /\ Act /\ t \in ToSet(rows)
  BY DEF ViewInv, ViewTypes, RowsStand, ToggleGoal
<1>2. PICK goal : goal = IF unit \in goalShown[t] THEN goalShown[t] \ {unit} ELSE goalShown[t] \cup {unit}
  OBVIOUS
<1>3. goal \in Goals /\ SubmitGoal(t, goal)
  BY <1>1, <1>2 DEF ToggleGoal, Goals
<1> QED
  BY <1>1, <1>3, GoalIsGiven

LEMMA GoalIsApplied ==
  ASSUME ViewInv, NEW t \in Torrents, NEW goal \in Goals, ApplyGoal(t, goal)
  PROVE  ViewInv'
BY GoalIsGiven DEF ApplyGoal

(* Two rows change places: the orders have the same torrents.               *)
LEMMA SwappedOrder ==
  ASSUME NEW S, NEW seq \in Seq(S), NEW i \in 1 .. Len(seq) - 1
  PROVE  Swapped(seq, i) \in Seq(S) /\ ToSet(Swapped(seq, i)) = ToSet(seq)
<1> DEFINE n == Len(seq)
<1>1. n \in Nat /\ DOMAIN seq = 1 .. n /\ seq \in [1 .. n -> S]
  BY LenProperties
<1>2. i \in 1 .. n /\ i + 1 \in 1 .. n /\ i # i + 1
  BY <1>1
<1> HIDE DEF n
<1>3. Swapped(seq, i) \in [1 .. n -> S]
  BY <1>1, <1>2 DEF Swapped
<1>4. /\ Swapped(seq, i)[i] = seq[i + 1] /\ Swapped(seq, i)[i + 1] = seq[i]
      /\ \A j \in 1 .. n : j # i /\ j # i + 1 => Swapped(seq, i)[j] = seq[j]
      /\ DOMAIN Swapped(seq, i) = 1 .. n
  BY <1>1, <1>2 DEF Swapped
<1>5. Swapped(seq, i) \in Seq(S)
  BY <1>1, <1>3
<1>6. ToSet(Swapped(seq, i)) = ToSet(seq)
  BY <1>1, <1>2, <1>4 DEF ToSet
<1> QED
  BY <1>5, <1>6

LEMMA RowIsMoved ==
  ASSUME ViewInv, NEW t \in Torrents, NEW i \in DOMAIN rows, MoveRow(i, t)
  PROVE  ViewInv'
<1>1. ViewTypes /\ RowsStand /\ rows \in Seq(Torrents)
  BY DEF ViewInv, ViewTypes
<1>2. rows' \in Seq(Torrents) /\ ToSet(rows') = ToSet(rows) /\ t \in ToSet(rows)
  <2>1. i \in 1 .. Len(rows) - 1 /\ t \in {rows[i], rows[i + 1]}
    BY DEF MoveRow
  <2>2. i \in DOMAIN rows /\ i + 1 \in DOMAIN rows
    BY <1>1, <2>1, LenProperties
  <2>3. rows' \in Seq(Torrents) /\ ToSet(rows') = ToSet(rows)
    BY <1>1, <2>1, SwappedOrder DEF MoveRow
  <2>4. rows[i] \in ToSet(rows) /\ rows[i + 1] \in ToSet(rows)
    BY <2>2 DEF ToSet
  <2> QED
    BY <2>1, <2>3, <2>4
<1>3. queueOrder' \in Seq(Torrents)
  <2> DEFINE valid == Filtered(rows', {s \in Torrents : HasSession(s)})
             rest == Filtered(sessionOrder, Torrents \ ToSet(valid))
  <2>1. valid \in Seq(Torrents)
    BY <1>2, FilteredIsPart
  <2>2. rest \in Seq(Torrents)
    <3> HIDE DEF valid
    <3> QED
      BY <1>1, FilteredIsPart DEF ViewTypes
  <2>3. queueOrder' = valid \o rest
    BY DEF MoveRow, SetQueueOrder
  <2> HIDE DEF valid, rest
  <2> QED
    BY <2>1, <2>2, <2>3, ConcatProperties
<1>4. ViewTypes'
  BY <1>1, <1>2, <1>3, SelectingIs, ActIs DEF ViewTypes, MoveRow, Select, Selections
<1>5. RowsStand'
  BY <1>1, <1>2 DEF RowsStand, MoveRow
<1>6. ASSUME NEW s \in Torrents PROVE IsTold(s)'
  <2>1. Undisturbed(s)
    BY <1>2, SameTold, SameOrdered DEF MoveRow, Select, Undisturbed
  <2> QED
    BY <2>1, UndisturbedStays DEF ViewInv
<1> QED
  BY <1>4, <1>5, <1>6 DEF ViewInv

LEMMA SceneIsSwitched ==
  ASSUME ViewInv, SwitchScene \/ \E t \in Torrents : SubmitMagnet(t)
  PROVE  ViewInv'
<1>1. ViewTypes /\ RowsStand
  BY DEF ViewInv
<1>2. /\ Act /\ UNCHANGED <<goalOf, sessionOrder, queueOrder, selected, managerQueue, removing, survivors,
                            uiEvents, tableVars>>
      /\ resolving' \subseteq Torrents /\ scene' \in {"transfers", "other"}
  BY <1>1 DEF ViewTypes, SwitchScene, SubmitMagnet, managerVars
<1>3. ViewTypes'
  BY <1>1, <1>2, ActIs DEF ViewTypes, tableVars
<1>4. RowsStand'
  BY <1>1, <1>2, SameRows DEF tableVars
<1>5. ASSUME NEW s \in Torrents PROVE IsTold(s)'
  <2>1. Undisturbed(s)
    BY <1>2, SameTold, SameOrdered DEF Undisturbed, tableVars
  <2> QED
    BY <2>1, UndisturbedStays DEF ViewInv
<1> QED
  BY <1>3, <1>4, <1>5 DEF ViewInv

--------------------------------------------------------------------------------
(* A frame                                                                  *)

(* Some number of a bounded set is the largest.                             *)
LEMMA Largest ==
  ASSUME NEW n \in Nat, NEW T \in SUBSET (0 .. n), T # {}
  PROVE  Max(T) \in T /\ \A m \in T : m <= Max(T)
<1> DEFINE Short == {n - m : m \in T}
<1>1. Short \in SUBSET Nat /\ Short # {}
  <2>1. ASSUME NEW m \in T PROVE n - m \in Nat
    <3>1. m \in 0 .. n
      OBVIOUS
    <3> QED
      BY <3>1
  <2> QED
    BY <2>1
<1>2. PICK k \in Short : \A m \in Short : k <= m
  <2> HIDE DEF Short
  <2> QED
    BY <1>1, Smallest
<1>3. PICK m \in T : k = n - m
  OBVIOUS
<1>4. \A x \in T : m >= x
  <2> SUFFICES ASSUME NEW x \in T PROVE m >= x
    OBVIOUS
  <2>1. n - m <= n - x
    BY <1>2, <1>3
  <2> QED
    BY <2>1
<1>5. Max(T) \in T /\ \A x \in T : Max(T) >= x
  <2>1. \E x \in T : \A y \in T : x >= y
    BY <1>4
  <2> QED
    BY <2>1 DEF Max
<1> QED
  BY <1>5

(* The events about a torrent.                                              *)
LEMMA ToldIs ==
  ASSUME ViewTypes, NEW type, NEW t
  PROVE  /\ Tell(uiEvents, type, t) \in SUBSET (0 .. Len(uiEvents)) /\ Len(uiEvents) \in Nat
         /\ \A i \in Tell(uiEvents, type, t) : uiEvents[i].goal \in Goals
<1>1. uiEvents \in Seq(Events)
  BY DEF ViewTypes
<1>2. Len(uiEvents) \in Nat /\ DOMAIN uiEvents = 1 .. Len(uiEvents)
  BY <1>1, LenProperties
<1>3. \A i \in DOMAIN uiEvents : uiEvents[i] \in Events
  BY <1>1, <1>2, ElementOfSeq
<1>4. \A i \in Tell(uiEvents, type, t) : i \in DOMAIN uiEvents
  BY DEF Tell
<1> QED
  BY <1>2, <1>3, <1>4 DEF Events

(* The last of the snapshots that count says a goal.                        *)
LEMMA AdmittedIs ==
  ASSUME ViewTypes, NEW t \in Admitted
  PROVE  /\ t \in Torrents /\ t \notin tombstones /\ t \notin RemovedNow /\ t \notin TombstonesAfter
         /\ Counting(t) = Tell(uiEvents, "stats", t) /\ Tell(uiEvents, "stats", t) # {}
         /\ uiEvents[Max(Counting(t))].goal \in Goals
         /\ \A goal : Latest(uiEvents, "stats", t, goal) => uiEvents[Max(Counting(t))].goal = goal
<1>1. t \in Torrents /\ Counting(t) # {} /\ t \notin TombstonesAfter
  BY DEF Admitted
<1>2. t \notin RemovedNow
  BY <1>1 DEF TombstonesAfter
<1>3. Drained("removed", t) = {}
  BY <1>1, <1>2 DEF RemovedNow
<1>4. t \notin tombstones
  BY <1>1 DEF Counting
<1>5. Counting(t) = Tell(uiEvents, "stats", t)
  BY <1>3, <1>4, DrainedIsTell DEF Counting
<1>6. Max(Counting(t)) \in Counting(t) /\ \A m \in Counting(t) : m <= Max(Counting(t))
  BY <1>1, <1>5, ToldIs, Largest
<1>7. uiEvents[Max(Counting(t))].goal \in Goals
  BY <1>5, <1>6, ToldIs
<1>8. \A goal : Latest(uiEvents, "stats", t, goal) => uiEvents[Max(Counting(t))].goal = goal
  BY <1>5, <1>6 DEF Latest
<1> QED
  BY <1>1, <1>2, <1>4, <1>5, <1>7, <1>8

(* The goal of a row after a frame.                                         *)
LEMMA GoalAfterIs ==
  ASSUME ViewTypes, NEW t \in Torrents
  PROVE  /\ GoalAfter(t) \in Goals \cup {Unknown}
         /\ t \in Admitted \/ (t \notin RemovedNow /\ goalShown[t] # Unknown) => GoalAfter(t) # Unknown
         /\ \A goal : /\ goal # Unknown /\ Latest(uiEvents, "goal", t, goal)
                      /\ IF t \in Admitted THEN Latest(uiEvents, "stats", t, goal)
                         ELSE t \notin RemovedNow /\ goalShown[t] = goal
                      => GoalAfter(t) = goal
<1> DEFINE base == IF t \in Admitted THEN uiEvents[Max(Counting(t))].goal
                   ELSE IF t \in RemovedNow THEN Unknown ELSE goalShown[t]
           told == Tell(uiEvents, "goal", t)
<1>1. GoalAfter(t) = IF base = Unknown \/ told = {} THEN base ELSE uiEvents[Max(told)].goal
  BY DrainedIsTell DEF GoalAfter
<1>2. ASSUME told # {} PROVE Max(told) \in told /\ \A m \in told : m <= Max(told)
  <2>1. told \in SUBSET (0 .. Len(uiEvents)) /\ Len(uiEvents) \in Nat
    BY ToldIs
  <2> HIDE DEF told
  <2> QED
    BY <1>2, <2>1, Largest
<1>3. ASSUME told # {} PROVE uiEvents[Max(told)].goal \in Goals
  BY <1>2, <1>3, ToldIs
<1>4. base \in Goals \cup {Unknown}
  BY AdmittedIs DEF ViewTypes
<1>5. t \in Admitted \/ (t \notin RemovedNow /\ goalShown[t] # Unknown) => base # Unknown
  BY AdmittedIs, GoalsAreKnown
<1>6. ASSUME NEW goal, Latest(uiEvents, "goal", t, goal), told # {}
      PROVE  uiEvents[Max(told)].goal = goal
  BY <1>2, <1>6 DEF Latest
<1>7. ASSUME NEW goal, IF t \in Admitted THEN Latest(uiEvents, "stats", t, goal)
                       ELSE t \notin RemovedNow /\ goalShown[t] = goal
      PROVE  base = goal
  BY <1>7, AdmittedIs
<1> HIDE DEF base, told
<1>8. GoalAfter(t) \in Goals \cup {Unknown}
  BY <1>1, <1>3, <1>4
<1>9. t \in Admitted \/ (t \notin RemovedNow /\ goalShown[t] # Unknown) => GoalAfter(t) # Unknown
  BY <1>1, <1>3, <1>5, GoalsAreKnown
<1>10. ASSUME NEW goal, goal # Unknown, Latest(uiEvents, "goal", t, goal),
              IF t \in Admitted THEN Latest(uiEvents, "stats", t, goal)
              ELSE t \notin RemovedNow /\ goalShown[t] = goal
       PROVE  GoalAfter(t) = goal
  <2>1. base = goal
    BY <1>7, <1>10
  <2>2. told # {} => uiEvents[Max(told)].goal = goal
    BY <1>6, <1>10
  <2> QED
    BY <1>1, <2>1, <2>2
<1> QED
  BY <1>8, <1>9, <1>10

(* After a frame no event waits, and every torrent has been heard of.       *)
LEMMA FrameIsTold ==
  ASSUME ViewInv, Frame
  PROVE  ViewInv'
<1>1. ViewTypes /\ RowsStand
  BY DEF ViewInv
<1>2. PICK choice : choice = Choice
  OBVIOUS
<1>3. /\ uiEvents' = << >> /\ tombstones' = TombstonesAfter
      /\ rows' = choice.rows /\ activeRow' = choice.active /\ selected' = choice.selected
      /\ goalShown' = [t \in Torrents |-> GoalAfter(t)]
      /\ UNCHANGED <<goalOf, sessionOrder, queueOrder, managerQueue, removing, survivors, resolving,
                     scene, viewOps>>
  BY <1>2 DEF Frame
<1>4. /\ choice \in ChoiceTypes
      /\ ToSet(choice.rows) \subseteq (ToSet(rows) \ RemovedNow) \cup Admitted
      /\ choice.active \in Admitted \cup {NoTorrent}
           \/ (choice.active \notin RemovedNow /\ choice.active \in {activeRow} \cup ReadyNow \cup ToSet(rows))
  BY <1>1, <1>2, ChoiceIs
<1>5. rows' \in Seq(Torrents) /\ ToSet(rows') \subseteq (ToSet(rows) \ RemovedNow) \cup Admitted
  BY <1>3, <1>4 DEF ChoiceTypes
<1>6. ViewTypes'
  <2>1. uiEvents' \in Seq(Events)
    BY <1>3
  <2>2. goalShown' \in [Torrents -> Goals \cup {Unknown}]
    BY <1>1, <1>3, GoalAfterIs
  <2>3. tombstones' \subseteq Torrents
    BY <1>1, <1>3 DEF TombstonesAfter, RemovedNow, ViewTypes
  <2> QED
    BY <1>1, <1>3, <1>4, <1>5, <2>1, <2>2, <2>3 DEF ViewTypes, ChoiceTypes
<1>7. ToSet(rows) \subseteq Torrents /\ ToSet(rows') \subseteq Torrents
  BY <1>1, <1>5, OrderIsOf DEF ViewTypes
<1>8. RowsStand'
  <2>1. ASSUME NEW t \in ToSet(rows') PROVE t \notin tombstones' /\ goalShown'[t] # Unknown
    <3>1. t \in Admitted \/ (t \in ToSet(rows) /\ t \notin RemovedNow)
      BY <1>5
    <3>2. t \notin TombstonesAfter
      BY <1>1, <3>1, AdmittedIs DEF RowsStand, TombstonesAfter
    <3>3. GoalAfter(t) # Unknown
      BY <1>1, <1>7, <3>1, GoalAfterIs DEF RowsStand
    <3> QED
      BY <1>3, <1>7, <3>2, <3>3
  <2> QED
    BY <2>1 DEF RowsStand
<1>9. \A type, t : Tell(uiEvents', type, t) = {}
  <2>1. DOMAIN uiEvents' = {}
    BY <1>3
  <2> QED
    BY <2>1 DEF Tell
<1>10. ASSUME NEW t \in Torrents PROVE GoneIsTold(t)'
  <2>1. GoneIsTold(t)
    BY DEF ViewInv, IsTold
  <2>2. CASE HasSession(t)
    BY <1>3, <2>2 DEF GoneIsTold, HasSession
  <2>3. CASE t \in RemovedNow
    <3>1. t \notin Admitted /\ t # NoTorrent
      BY <1>1, <2>3, AdmittedIs, NoTorrentIsNone
    <3>2. t \notin ToSet(rows') /\ t # activeRow'
      BY <1>3, <1>4, <1>5, <2>3, <3>1
    <3>3. t \in tombstones'
      BY <1>3, <2>3 DEF TombstonesAfter
    <3> QED
      BY <1>9, <3>2, <3>3 DEF GoneIsTold
  <2>4. CASE ~ HasSession(t) /\ t \notin RemovedNow
    <3>1. Tell(uiEvents, "removed", t) = {}
      BY <2>4, DrainedIsTell DEF RemovedNow
    <3>2. /\ t \notin ToSet(rows) /\ t # activeRow /\ Tell(uiEvents, "ready", t) = {}
          /\ Tell(uiEvents, "stats", t) # {} \/ t \in survivors => t \in tombstones
      BY <2>1, <2>4, <3>1 DEF GoneIsTold
    <3>3. t \notin Admitted /\ t # NoTorrent /\ t \notin ReadyNow
      BY <1>1, <3>2, AdmittedIs, NoTorrentIsNone, DrainedIsTell DEF ReadyNow
    <3>4. t \notin ToSet(rows') /\ t # activeRow'
      BY <1>3, <1>4, <1>5, <3>2, <3>3
    <3>5. t \in survivors' => t \in tombstones'
      BY <1>3, <3>2, <3>3 DEF TombstonesAfter
    <3> QED
      BY <1>9, <3>4, <3>5 DEF GoneIsTold
  <2> QED
    BY <2>2, <2>3, <2>4
<1>11. ASSUME NEW t \in Torrents PROVE GoalIsTold(t)'
  <2> SUFFICES ASSUME HasSession(t)', t \notin survivors', t \in ToSet(rows'), ~ Ordered(t)'
               PROVE  goalShown'[t] = goalOf'[t]
    BY <1>9 DEF GoalIsTold, Latest
  <2>1. HasSession(t) /\ t \notin survivors /\ ~ Ordered(t) /\ goalOf'[t] = goalOf[t] /\ goalOf[t] # Unknown
    BY <1>3 DEF HasSession, Ordered
  <2>2. t \in Admitted \/ (t \in ToSet(rows) /\ t \notin RemovedNow)
    BY <1>5
  <2>3. t \notin RemovedNow
    BY <1>1, <2>2, AdmittedIs
  <2>4. Tell(uiEvents, "removed", t) = {}
    BY <2>3, DrainedIsTell DEF RemovedNow
  <2>5. /\ Latest(uiEvents, "stats", t, goalOf[t]) /\ Latest(uiEvents, "goal", t, goalOf[t])
        /\ t \in ToSet(rows) /\ Tell(uiEvents, "stats", t) = {} => goalShown[t] = goalOf[t]
    BY <2>1, <2>4 DEF ViewInv, IsTold, GoalIsTold
  <2>6. t \notin Admitted => goalShown[t] = goalOf[t]
    <3>1. ASSUME t \notin Admitted PROVE Tell(uiEvents, "stats", t) = {}
      <4>1. t \notin tombstones /\ t \notin TombstonesAfter
        BY <1>1, <2>2, <2>3, <3>1 DEF RowsStand, TombstonesAfter
      <4>2. Counting(t) = {}
        BY <3>1, <4>1 DEF Admitted
      <4> QED
        BY <2>4, <4>1, <4>2, DrainedIsTell DEF Counting
    <3> QED
      BY <2>2, <2>5, <3>1
  <2>7. GoalAfter(t) = goalOf[t]
    BY <1>1, <2>1, <2>3, <2>5, <2>6, GoalAfterIs
  <2> QED
    BY <1>3, <2>1, <2>7
<1> QED
  BY <1>6, <1>8, <1>10, <1>11 DEF ViewInv, IsTold

--------------------------------------------------------------------------------
LEMMA ViewInit_ViewInv ==
  ASSUME ViewInit
  PROVE  ViewInv
<1>1. PICK kept, order :
    /\ kept \in SUBSET Torrents /\ order \in SetToSeqs(kept)
    /\ goalOf = [t \in Torrents |-> IF t \in kept THEN {} ELSE Unknown]
    /\ sessionOrder = order /\ queueOrder = order
    /\ selected = IF kept = {} THEN NoTorrent ELSE order[1]
    /\ activeRow = selected
    /\ uiEvents = [i \in DOMAIN order |-> Stats(order[i], {})]
    /\ managerQueue = << >> /\ removing = NoTorrent /\ survivors = {} /\ resolving = {}
    /\ scene = "transfers" /\ rows = << >> /\ tombstones = {}
    /\ goalShown = [t \in Torrents |-> Unknown]
    /\ viewOps = 0
  BY DEF ViewInit
<1> DEFINE n == Cardinality(kept)
<1>2. n \in Nat /\ (kept # {} => n >= 1)
  <2>1. IsFiniteSet(kept)
    BY <1>1, ViewAssumption, FS_Subset DEF ViewAssumption
  <2>2. Cardinality(kept) \in Nat /\ (Cardinality(kept) = 0 => kept = {})
    BY <2>1, FS_CardinalityType, FS_EmptySet
  <2> QED
    BY <2>2
<1>3. order \in [1 .. n -> kept]
  BY <1>1 DEF SetToSeqs
<1> HIDE DEF n
<1>4. order \in Seq(Torrents) /\ DOMAIN order = 1 .. n /\ \A i \in 1 .. n : order[i] \in kept
  <2>1. order \in [1 .. n -> Torrents]
    BY <1>1, <1>3
  <2> QED
    BY <1>2, <1>3, <2>1
<1>5. selected = NoTorrent \/ selected \in kept
  BY <1>1, <1>2, <1>4
<1>6. \A t \in kept : Stats(t, {}) \in Events /\ Stats(t, {}).torrent = t /\ Stats(t, {}).goal = {}
                        /\ Stats(t, {}).type = "stats"
  BY <1>1, EventsMade, GoalsAreKnown DEF Selections
<1>7. uiEvents \in Seq(Events)
  <2>1. uiEvents \in [1 .. n -> Events]
    BY <1>1, <1>4, <1>6
  <2> QED
    BY <1>2, <2>1
<1>8. \A i \in DOMAIN uiEvents :
         uiEvents[i].type = "stats" /\ uiEvents[i].torrent \in kept /\ uiEvents[i].goal = {}
  BY <1>1, <1>4, <1>6
<1>9. ViewTypes
  <2>1. goalOf \in [Torrents -> Goals \cup {Unknown}] /\ goalShown \in [Torrents -> Goals \cup {Unknown}]
    BY <1>1, GoalsAreKnown
  <2>2. viewOps \in 0 .. MaxViewOps
    BY <1>1, ViewAssumption DEF ViewAssumption
  <2>3. rows \in Seq(Torrents) /\ managerQueue \in Seq(ViewCommands)
    BY <1>1
  <2>4. selected \in Selections /\ activeRow \in Selections /\ removing \in Selections
    BY <1>1, <1>5 DEF Selections
  <2> QED
    BY <1>1, <1>4, <1>7, <2>1, <2>2, <2>3, <2>4 DEF ViewTypes
<1>10. ToSet(rows) = {}
  BY <1>1 DEF ToSet
<1>11. ASSUME NEW t \in Torrents PROVE IsTold(t)
  <2>1. HasSession(t) <=> t \in kept
    BY <1>1, GoalsAreKnown DEF HasSession
  <2>2. HasSession(t) => goalOf[t] = {}
    BY <1>1, <2>1
  <2>3. GoneIsTold(t)
    <3>1. ASSUME t \notin kept PROVE \A type : Tell(uiEvents, type, t) = {}
      BY <1>8, <3>1 DEF Tell
    <3>2. t \notin kept => t # activeRow
      BY <1>1, <1>5, NoTorrentIsNone
    <3> QED
      BY <1>1, <1>10, <2>1, <3>1, <3>2 DEF GoneIsTold
  <2>4. GoalIsTold(t)
    <3>1. \A type : Latest(uiEvents, type, t, {})
      BY <1>8 DEF Latest, Tell
    <3> QED
      BY <1>10, <2>2, <3>1 DEF GoalIsTold
  <2> QED
    BY <2>3, <2>4 DEF IsTold
<1>12. RowsStand
  BY <1>10 DEF RowsStand
<1> QED
  BY <1>9, <1>11, <1>12 DEF ViewInv

LEMMA ViewInvStep ==
  ASSUME ViewInv, ViewNext
  PROVE  ViewInv'
<1>1. CASE HandleRemove
  BY <1>1, RemoveIsTaken
<1>2. CASE RemovalEnds
  BY <1>2, RemovalIsTold
<1>3. CASE HandleSetGoal
  BY <1>3, GoalIsSet
<1>4. CASE Frame
  BY <1>4, FrameIsTold
<1>5. CASE SwitchScene \/ \E t \in Torrents : SubmitMagnet(t)
  BY <1>5, SceneIsSwitched
<1>6. ASSUME NEW t \in Torrents, \/ Telemetry(t) \/ MagnetResolves(t) \/ AddFile(t) \/ SeedCreated(t)
      PROVE  ViewInv'
  BY <1>6, TelemetryIsTold, MagnetIsTold, FileIsTold, CreatedIsTold
<1>7. ASSUME NEW t \in Torrents, \/ ClickRow(t) \/ RemoveRow(t) \/ \E i \in DOMAIN rows : MoveRow(i, t)
      PROVE  ViewInv'
  BY <1>7, ClickIsTold, RowIsRemoved, RowIsMoved
<1>8. ASSUME NEW t \in Torrents, \/ \E unit \in Units : ToggleGoal(t, unit)
                                 \/ \E goal \in Goals : ApplyGoal(t, goal)
      PROVE  ViewInv'
  BY <1>8, GoalIsToggled, GoalIsApplied
<1> QED
  BY <1>1, <1>2, <1>3, <1>4, <1>5, <1>6, <1>7, <1>8 DEF ViewNext

(* What the view's inductive invariant says once nothing is on its way.     *)
LEMMA ViewInv_ViewSound ==
  ASSUME ViewInv
  PROVE  ViewSound /\ ViewTypeOK
<1>1. ViewTypes
  BY DEF ViewInv
<1>2. ViewTypeOK
  BY <1>1 DEF ViewTypes, ViewTypeOK, Selections
<1>3. ASSUME Settled PROVE /\ ToSet(rows) \subseteq {t \in Torrents : HasSession(t)}
                           /\ \A t \in ToSet(rows) \ survivors : goalShown[t] = goalOf[t]
                           /\ activeRow # NoTorrent => HasSession(activeRow)
  <2>1. \A type, t : Tell(uiEvents, type, t) = {}
    <3>1. DOMAIN uiEvents = {}
      BY <1>3 DEF Settled
    <3> QED
      BY <3>1 DEF Tell
  <2>2. \A t : ~ Ordered(t)
    <3>1. DOMAIN managerQueue = {}
      BY <1>3 DEF Settled
    <3> QED
      BY <3>1 DEF Ordered
  <2>3. ToSet(rows) \subseteq Torrents /\ activeRow \in Selections
    BY <1>1, OrderIsOf DEF ViewTypes
  <2>4. \A t \in Torrents : (t \in ToSet(rows) \/ t = activeRow) => HasSession(t)
    BY <2>1 DEF ViewInv, IsTold, GoneIsTold
  <2>5. \A t \in ToSet(rows) \ survivors : goalShown[t] = goalOf[t]
    BY <2>1, <2>2, <2>3, <2>4 DEF ViewInv, IsTold, GoalIsTold
  <2> QED
    BY <2>3, <2>4, <2>5 DEF Selections
<1> QED
  BY <1>2, <1>3 DEF ViewSound

THEOREM ViewIsSound == ViewSpec => [](ViewSound /\ ViewTypeOK)
<1>1. ViewInit => ViewInv
  BY ViewInit_ViewInv
<1>2. ViewInv /\ [ViewNext]_viewVars => ViewInv'
  BY ViewInvStep, ViewStutters
<1>3. ViewInv => ViewSound /\ ViewTypeOK
  BY ViewInv_ViewSound
<1> QED
  BY <1>1, <1>2, <1>3, PTL DEF ViewSpec

--------------------------------------------------------------------------------
(* The window, the magnet handler and the table together.                   *)
THEOREM ScreenIsSound == ScreenSpec => []ScreenSound
BY DesktopIsSound, ReplacedHandlerIsKept, ViewIsSound, PTL DEF ScreenSpec, ScreenSound

--------------------------------------------------------------------------------
(* All services side by side: a step is one of a service, to the others      *)
(* nothing.                                                                  *)
LEMMA NetworkSteps ==
  [Next]_servicesVars => [SwarmNext]_swarmVars /\ [MapperNext]_mapperVars /\ [PexNext]_pexVars
BY Zenon DEF Next, servicesVars, networkVars, NetworkNext, RecordNext, SourceNext, TorrentsNext, ScreenNext

LEMMA RecordSteps ==
  [Next]_servicesVars => [StoreNext]_storeVars /\ [SettingsNext]_settingsVars /\ [CreationNext]_creationVars
BY Zenon DEF Next, servicesVars, recordVars, NetworkNext, RecordNext, SourceNext, TorrentsNext, ScreenNext

LEMMA SourceSteps ==
  [Next]_servicesVars =>
    /\ [AnnounceNext]_announceVars /\ [ScrapeNext]_scrapeVars /\ [DhtNext]_dhtVars
    /\ [LanNext]_lanVars /\ [MagnetNext]_magnetVars
BY Zenon DEF Next, servicesVars, peerSourceVars, NetworkNext, RecordNext, SourceNext, TorrentsNext, ScreenNext

LEMMA ScreenSteps ==
  [Next]_servicesVars =>
    /\ [ContentNext]_contentVars /\ [ViewNext]_viewVars /\ [DesktopNext]_<<shellVars, asked>>
    /\ [RegistryNext]_registryVars
BY Zenon DEF Next, servicesVars, screenVars, NetworkNext, RecordNext, SourceNext, TorrentsNext, ScreenNext

(* What every service keeps.                                                *)
ServicesInv ==
  /\ SwarmInv /\ MapperInv /\ PexInv /\ StoreInv /\ SettingsInv /\ CreationInv
  /\ AnnounceInv /\ ScrapeInv /\ DhtInv /\ LanInv /\ MagnetInv
  /\ PayloadInv /\ ViewInv /\ ShellInv /\ ShellFields /\ RegistryInv

LEMMA ServicesInvInit == Init => ServicesInv
<1> SUFFICES ASSUME Init PROVE ServicesInv
  OBVIOUS
<1>1. /\ SwarmInit /\ MapperInit /\ PexInit /\ StoreInit /\ SettingsInit /\ CreationInit
      /\ AnnounceInit /\ ScrapeInit /\ DhtInit /\ LanInit /\ MagnetInit
      /\ ContentInit /\ ViewInit /\ DesktopInit /\ RegistryInit
  BY Zenon DEF Init, SessionIdle, ExchangeIdle, StoreIdle, SettingsIdle, LanIdle, MagnetIdle, ContentIdle,
     CreationIdle, ViewIdle, ShellIdle, RegistryIdle
<1>2. SwarmInv /\ MapperInv /\ PexInv
  BY <1>1, SwarmInvInit, MapperInvInit, PexInvInit
<1>3. StoreInv /\ SettingsInv /\ CreationInv
  BY <1>1, StoreInvInit, SettingsInvInit, CreationInvInit
<1>4. AnnounceInv /\ ScrapeInv /\ DhtInv /\ LanInv /\ MagnetInv
  BY <1>1, AnnounceStart, ScrapeInvInit, DhtInvInit, LanInvInit, MagnetInvInit
<1>5. PayloadInv /\ ViewInv /\ ShellInv /\ ShellFields /\ RegistryInv
  BY <1>1, PayloadInvInit, ViewInit_ViewInv, ShellInvInit, ShellFieldsInit, RegistryInvInit
<1> QED
  BY <1>2, <1>3, <1>4, <1>5 DEF ServicesInv

LEMMA ServicesInvNext == ServicesInv /\ [Next]_servicesVars => ServicesInv'
<1> SUFFICES ASSUME ServicesInv, [Next]_servicesVars PROVE ServicesInv'
  OBVIOUS
<1>1. (SwarmInv /\ MapperInv /\ PexInv)'
  BY NetworkSteps, SwarmInvNext, MapperInvNext, PexInvNext DEF ServicesInv
<1>2. (StoreInv /\ SettingsInv /\ CreationInv)'
  BY RecordSteps, StoreInvNext, SettingsInvNext, CreationInvNext DEF ServicesInv
<1>3. (AnnounceInv /\ ScrapeInv /\ DhtInv /\ LanInv /\ MagnetInv)'
  BY SourceSteps, AnnounceStep, ScrapeInvNext, DhtInvNext, LanInvNext, MagnetInvNext DEF ServicesInv
<1>4. ShellInv'
  <2>1. [ShellStep]_shellVars
    BY ScreenSteps DEF DesktopNext
  <2> QED
    BY <2>1, ShellInvNext DEF ServicesInv
<1>5. (PayloadInv /\ ViewInv /\ ShellFields /\ RegistryInv)'
  BY ScreenSteps, PayloadInvNext, ViewInvStep, ViewStutters, ShellFieldsNext, RegistryInvNext
  DEF ServicesInv
<1> QED
  BY <1>1, <1>2, <1>3, <1>4, <1>5 DEF ServicesInv

LEMMA ServicesInvTypes == ServicesInv => ServicesTypeOK
<1> SUFFICES ASSUME ServicesInv PROVE ServicesTypeOK
  OBVIOUS
<1>1. SwarmTypeOK /\ MapperTypeOK
  BY SwarmInvTypes, MapperInvTypes DEF ServicesInv
<1>2. PexTypeOK
  BY PexInvTypes DEF ServicesInv
<1>3. StoreTypeOK /\ CreationTypeOK
  BY StoreInvTypes, CreationInvTypes DEF ServicesInv
<1>4. AnnounceTypeOK /\ ScrapeTypeOK /\ DhtTypeOK /\ MagnetTypeOK
  BY AnnounceInvTypes, ScrapeInvTypes, DhtInvTypes, MagnetInvTypes DEF ServicesInv
<1>5. LanTypeOK
  BY DEF ServicesInv, LanInv, LanTypes
<1>6. ContentTypeOK /\ ViewTypeOK /\ DesktopTypeOK
  BY PayloadInvTypes, ViewInv_ViewSound, ShellFieldsTypes DEF ServicesInv
<1>7. RegistryTypeOK
  BY DEF ServicesInv, RegistryInv, RegistryTypeOK
<1> QED
  BY <1>1, <1>2, <1>3, <1>4, <1>5, <1>6, <1>7 DEF ServicesTypeOK

(* Whatever the services do side by side, no variable of any leaves its      *)
(* type, for every value of all their constants.                            *)
THEOREM ServicesTypesHold == Spec => []ServicesTypeOK
BY ServicesInvInit, ServicesInvNext, ServicesInvTypes, PTL DEF Spec

(* And the session and the port mapper keep their promises beside them.      *)
THEOREM NetworkIsSound == Spec => []NetworkSound
<1>1. ServicesInv => NetworkSound
  BY SwarmInvSound, MapperInvSound DEF ServicesInv, NetworkSound
<1> QED
  BY <1>1, ServicesInvInit, ServicesInvNext, PTL DEF Spec
================================================================================
