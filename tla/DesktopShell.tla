------------------------------ MODULE DesktopShell ------------------------------
(***************************************************************************)
(* The window and the tray icon: DesktopIntegration with its backends, and   *)
(* the part of the GUI loop that serves them.  Every icon runs on a thread   *)
(* of its own and puts actions in a queue the loop consumes; start() gives   *)
(* up waiting for a slow icon and may start another beside it.  Times are    *)
(* left out: a wait ends early or late.                                     *)
(*                                                                         *)
(* A platform is "windows", "xorg" (pystray, an X11 window) or "macos"       *)
(* (pystray, AppKit).  Pause All and Resume All are in TransferQueue.        *)
(***************************************************************************)
EXTENDS Naturals, Sequences

CONSTANTS
  MaxIcons,        \* bound on the icons ever started
  MaxActions       \* bound on the actions the user may have pending

ASSUME ShellAssumption == MaxIcons \in Nat /\ MaxActions \in Nat

VARIABLES
  platform,
  trayWanted,      \* system_tray_enabled
  bound,           \* the native handle of the window is known
  bridged,         \* its close and minimise messages come as actions
  window,          \* "shown", "minimised", "hidden", or "mapping" under X11
  icon,            \* state of each icon's thread
  current,         \* _thread, and _icon under pystray; 0 without one
  trayRunning,     \* tray.running
  supported,       \* tray.supported
  actions,         \* the queue of semantic actions
  ui,              \* what the GUI thread is doing
  asked            \* history: a restore was pending while the window was hidden, and the
                   \* window has not been shown since

trayVars == <<icon, current, trayRunning, supported>>
windowVars == <<bound, bridged, window>>
shellVars == <<platform, trayWanted, windowVars, trayVars, actions, ui>>

Icons == 1 .. MaxIcons
Windows == platform = "windows"
Alive(i) == icon[i] \in {"starting", "live"}
LiveIcons == {i \in Icons : icon[i] = "live"}

(* The loop begins with the window shown and no icon; a handle that was not  *)
(* found is looked for again by every operation on the window.              *)
DesktopInit ==
  /\ platform \in {"windows", "xorg", "macos"}
  /\ trayWanted \in BOOLEAN /\ bound = FALSE /\ bridged = FALSE /\ window = "shown"
  /\ icon = [i \in Icons |-> "none"] /\ current = 0
  /\ trayRunning = FALSE /\ supported = TRUE
  /\ actions = << >> /\ ui = "loop" /\ asked = FALSE

--------------------------------------------------------------------------------
(* The tray                                                                 *)

(* Windows looks at the thread as well as at running, pystray at running     *)
(* only: an icon that is merely slow gets a second one beside it.           *)
UpAlready == trayRunning /\ (Windows => current /= 0 /\ Alive(current))

(* start(): nothing within 1.5 seconds of the last attempt.                  *)
StartTray ==
  \/ UNCHANGED trayVars
  \/ /\ supported /\ ~UpAlready
     /\ \/ ~Windows /\ supported' = FALSE /\ UNCHANGED <<icon, current, trayRunning>>
        \/ \E i \in Icons :
             /\ icon[i] = "none" /\ \A j \in Icons : j < i => icon[j] /= "none"
             /\ icon' = [icon EXCEPT ![i] = "starting"] /\ current' = i
             /\ trayRunning' = (trayRunning /\ ~Windows)
             /\ UNCHANGED supported

(* All icons of a Windows process register the same window class.           *)
IconUp(i) ==
  /\ icon[i] = "starting" /\ (Windows => LiveIcons = {})
  /\ icon' = [icon EXCEPT ![i] = "live"] /\ trayRunning' = TRUE
  /\ UNCHANGED <<platform, trayWanted, windowVars, current, supported, actions, ui>>

(* Mutant: a thread that ends leaves running as it is.                      *)
IconEndsSilently(i) == icon' = [icon EXCEPT ![i] = "ended"] /\ UNCHANGED trayRunning

(* The finally of _run: running may be another thread's by now.                 *)
IconEnds(i) == icon' = [icon EXCEPT ![i] = "ended"] /\ trayRunning' = FALSE

(* The icon was asked to end, the shell refused it, or it disappeared.  The  *)
(* status item of macOS has no thread: it fails to start, or is stopped.     *)
ThreadEnds(i) ==
  /\ Alive(i)
  /\ IF platform = "macos"
     THEN icon[i] = "starting" /\ icon' = [icon EXCEPT ![i] = "ended"] /\ UNCHANGED trayRunning
     ELSE IconEnds(i)
  /\ UNCHANGED <<platform, trayWanted, windowVars, current, supported, actions, ui>>

(* stop() asks the icon it knows to end and waits for it; macOS removes the  *)
(* item at once.                                                            *)
StopTray(next) ==
  IF current = 0 \/ (Windows /\ ~Alive(current))
  THEN /\ trayRunning' = FALSE /\ ui' = IF next = "ending" THEN "ended" ELSE next
       /\ UNCHANGED <<icon, current, supported>>
  ELSE /\ icon' = IF platform = "macos" THEN [icon EXCEPT ![current] = "ended"] ELSE icon
       /\ ui' = IF next = "ending" THEN "ending" ELSE "stopping"
       /\ UNCHANGED <<trayRunning, supported, current>>

(* The thread is joined for two seconds at most.                            *)
TrayStopped ==
  /\ ui \in {"stopping", "ending"}
  /\ ui' = IF ui = "ending" THEN "ended" ELSE "loop"
  /\ trayRunning' = FALSE
  /\ current' = IF Windows THEN current ELSE 0
  /\ UNCHANGED <<platform, trayWanted, windowVars, icon, supported, actions>>

(* configure(), at the start of the loop and from Preferences.              *)
Configure(on) ==
  /\ ui = "loop" /\ trayWanted' = on
  /\ IF on THEN StartTray /\ ui' = ui ELSE StopTray("loop")
  /\ UNCHANGED <<platform, windowVars, actions>>

(* refresh_viewport_binding(): every operation on the window tries it; only  *)
(* Windows can bridge the messages of the window.                           *)
Bind == bound' \in {bound, TRUE} /\ bridged' \in {bridged, bound' /\ Windows}

(* maintain() brings back a tray that should run and does not.              *)
Maintain ==
  /\ ui = "loop" /\ Bind
  /\ IF trayWanted /\ ~trayRunning THEN StartTray ELSE UNCHANGED trayVars
  /\ UNCHANGED <<platform, trayWanted, window, actions, ui>>

--------------------------------------------------------------------------------
(* The user, on the icon and on the window                                   *)

Pend(action) == Len(actions) < MaxActions /\ actions' = Append(actions, action)

(* The thread of a Windows icon shows the window itself, then asks for it.   *)
ClickOpen(i) ==
  /\ icon[i] = "live" /\ Pend("restore")
  /\ window' = IF Windows /\ bound THEN "shown" ELSE window
  /\ UNCHANGED <<platform, trayWanted, bound, bridged, trayVars, ui>>

ClickExit(i) ==
  /\ icon[i] = "live" /\ Pend("exit")
  /\ UNCHANGED <<platform, trayWanted, windowVars, trayVars, ui>>

CloseWindow ==
  /\ ui /= "ended" /\ window = "shown" /\ Pend("close")
  /\ UNCHANGED <<platform, trayWanted, windowVars, trayVars, ui>>

(* Without the bridge the window system minimises, and the loop finds out.   *)
MinimiseWindow ==
  /\ ui /= "ended" /\ window = "shown"
  /\ IF bridged THEN Pend("minimise") /\ UNCHANGED window
     ELSE window' = "minimised" /\ UNCHANGED actions
  /\ UNCHANGED <<platform, trayWanted, bound, bridged, trayVars, ui>>

RestoreWindow ==
  /\ window = "minimised" /\ window' = "shown"
  /\ UNCHANGED <<platform, trayWanted, bound, bridged, trayVars, actions, ui>>

--------------------------------------------------------------------------------
(* The GUI loop consumes the actions in order                                *)

(* should_close_to_tray and should_minimize_to_tray, whose own preference is *)
(* on or off.                                                               *)
MayUseTray == trayWanted /\ trayRunning /\ supported

Consumes(action) ==
  ui = "loop" /\ actions /= << >> /\ Head(actions) = action /\ actions' = Tail(actions)

(* show_and_activate(): an X11 window is mapped by the window manager, later. *)
ShowViewport ==
  /\ Consumes("restore") /\ Bind
  /\ window' = IF ~bound' THEN window
               ELSE IF platform = "xorg" /\ window \in {"hidden", "mapping"} THEN "mapping"
               ELSE "shown"
  /\ UNCHANGED <<platform, trayWanted, trayVars, ui>>

WindowMapped ==
  /\ window = "mapping" /\ window' = "shown"
  /\ UNCHANGED <<platform, trayWanted, bound, bridged, trayVars, actions, ui>>

(* The policy is looked at first; hide_viewport looks at the tray again.     *)
CloseRequested ==
  /\ Consumes("close")
  /\ \/ MayUseTray /\ ui' = "closing" /\ UNCHANGED trayVars
     \/ StopTray("ending")
  /\ UNCHANGED <<platform, trayWanted, windowVars>>

MinimiseRequested ==
  /\ Consumes("minimise")
  /\ \/ MayUseTray /\ ui' = "minimising" /\ UNCHANGED window
     \/ window' = (IF bound /\ window /= "hidden" THEN "minimised" ELSE window) /\ ui' = ui
  /\ UNCHANGED <<platform, trayWanted, bound, bridged, trayVars>>

(* is_native_viewport_minimized(), five times a second; to X11 a hidden      *)
(* window, or one that is not mapped yet, is minimised as well.             *)
SeesMinimised ==
  /\ ui = "loop" /\ MayUseTray /\ bound
  /\ window = "minimised" \/ (platform = "xorg" /\ window /= "shown")
  /\ ui' = "sweeping"
  /\ UNCHANGED <<platform, trayWanted, windowVars, trayVars, actions>>

(* Mutant: a window that is still to be mapped is not mapped any more.      *)
HiddenAnyway == "hidden"

(* Unmapping a window that is still to be mapped does nothing.              *)
Hidden == IF window = "mapping" THEN window ELSE "hidden"

HideViewport == trayRunning /\ bound /\ window' = Hidden /\ UNCHANGED trayVars /\ ui' = "loop"

HidingEnds ==
  /\ ui \in {"closing", "minimising", "sweeping"}
  /\ \/ HideViewport
     \/ ~(trayRunning /\ bound)
        /\ CASE ui = "closing" -> StopTray("ending") /\ UNCHANGED window
             [] ui = "minimising" -> window' = (IF bound THEN "minimised" ELSE window)
                                     /\ ui' = "loop" /\ UNCHANGED trayVars
             [] OTHER -> ui' = "loop" /\ UNCHANGED <<window, trayVars>>
  /\ UNCHANGED <<platform, trayWanted, bound, bridged, actions>>

ExitRequested ==
  /\ Consumes("exit") /\ StopTray("ending")
  /\ UNCHANGED <<platform, trayWanted, windowVars>>

Consume == ShowViewport \/ CloseRequested \/ MinimiseRequested \/ ExitRequested

Pending(action) == \E i \in DOMAIN actions : actions[i] = action

ShellStep ==
  \/ Consume \/ HidingEnds \/ TrayStopped \/ Maintain \/ SeesMinimised \/ WindowMapped
  \/ CloseWindow \/ MinimiseWindow \/ RestoreWindow
  \/ \E on \in BOOLEAN : Configure(on)
  \/ \E i \in Icons : IconUp(i) \/ ThreadEnds(i) \/ ClickOpen(i) \/ ClickExit(i)

DesktopNext ==
  /\ ShellStep
  /\ asked' = ((asked \/ (window' = "hidden" /\ Pending("restore")')) /\ window' /= "shown")

(* Every pass of the loop polls the actions, whatever the callbacks of the    *)
(* pass before did; a join is bounded, and window managers map.             *)
DesktopFairness ==
  /\ SF_shellVars(Consume) /\ WF_shellVars(HidingEnds) /\ WF_shellVars(TrayStopped)
  /\ WF_shellVars(WindowMapped)

DesktopSpec == DesktopInit /\ [][DesktopNext]_<<shellVars, asked>> /\ DesktopFairness

--------------------------------------------------------------------------------
DesktopTypeOK ==
  /\ window \in {"shown", "minimised", "hidden", "mapping"}
  /\ icon \in [Icons -> {"none", "starting", "live", "ended"}]
  /\ current \in 0 .. MaxIcons
  /\ {trayWanted, bound, bridged, trayRunning, supported, asked} \subseteq BOOLEAN
  /\ Len(actions) <= MaxActions
  /\ ui \in {"loop", "stopping", "closing", "minimising", "sweeping", "ending", "ended"}

(* The flag hide_viewport trusts is never true without an icon that can bring *)
(* the window back, whatever the threads of earlier icons write to it (while  *)
(* stop() waits for an icon nobody reads the flag), and only a window that    *)
(* can be addressed is hidden.                                              *)
DesktopSound ==
  /\ trayRunning /\ ui \notin {"stopping", "ending"} => LiveIcons /= {}
  /\ window = "hidden" => bound

(* What the user asks of an icon happens: the window comes back, or the       *)
(* program ends, even when the tray is stopped or breaks meanwhile.         *)
RestoreShows == []<>(~asked \/ ui = "ended")

ExitEnds == []<>(ui = "ended" \/ (ui /= "ending" /\ ~Pending("exit")))
================================================================================
