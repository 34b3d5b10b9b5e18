---------------------------- MODULE PointerRouting ----------------------------
(* Who gets a pointer or touch event: the window gestures and the pane       *)
(* routing of the event loop (src/main.rs), the terminal pane's own gestures *)
(* (src/term_input.rs) and the bridge that turns presses into keys           *)
(* (src/pointer.rs).  A place on the window is a zone; the keyboard engine   *)
(* behind the callbacks is module UiKeyboard and is here the set of keys     *)
(* that are pressed.                                                         *)
EXTENDS Integers, FiniteSets

CONSTANTS Keys,         \* zones that are plain keys
          Chord,        \* the keys a chord or shell-row button plays
          Buttons,      \* pointer buttons; "left" is the one with gestures
          HasTouch,     \* a touch screen is present
          HasPane       \* terminal mode: the pane below the keyboard

VARIABLES
    \* the hands and the compositor
    pointer,      \* the zone the pointer is over
    held,         \* the buttons that are physically down
    finger,       \* the zone the finger is on, "up" without one
    \* the event loop
    gesture,      \* WindowGesture
    closeArmed, closeRequested,
    visible,      \* the tray's toggle
    \* the bridge
    pointerDown,  \* the key each button holds, "none" without one
    touchDown,
    shellRow,     \* a shell row owns the shortcut buttons
    \* the pane
    pane,         \* the gesture of TerminalInput
    selection,    \* the terminal has a selection
    \* the engine
    down          \* keys pressed and not yet released

vars == <<pointer, held, finger, gesture, closeArmed, closeRequested, visible, pointerDown,
          touchDown, shellRow, pane, selection, down>>

Zones == Keys \cup {"shortcut", "gap", "title", "close", "corner"}
              \cup (IF HasPane THEN {"pane"} ELSE {})

(* One type invariant. *)
TypeOK ==
    /\ pointer \in Zones /\ held \subseteq Buttons /\ finger \in Zones \cup {"up"}
    /\ gesture \in {"idle", "move", "resize"}
    /\ {closeArmed, closeRequested, visible, shellRow, selection} \subseteq BOOLEAN
    /\ pointerDown \in [Buttons -> Keys \cup {"none"}]
    /\ touchDown \in Keys \cup {"none"}
    /\ pane \in {"none", "pending", "scroll", "select"}
    /\ down \subseteq Keys

Init ==
    /\ pointer = "gap" /\ held = {} /\ finger = "up"
    /\ gesture = "idle" /\ closeArmed = FALSE /\ closeRequested = FALSE /\ visible = TRUE
    /\ pointerDown = [b \in Buttons |-> "none"] /\ touchDown = "none" /\ shellRow = FALSE
    /\ pane = "none" /\ selection = FALSE /\ down = {}

Loop == <<gesture, closeArmed, closeRequested, visible>>
Bridge == <<pointerDown, touchDown, shellRow, down>>
Pane == <<pane, selection>>

-----------------------------------------------------------------------------
(* event_in_terminal_pane: the pane takes what happens in it while no window *)
(* gesture runs; the corner is the pane's for a touch and not for a pointer. *)
InPane(z, touch) ==
    /\ HasPane /\ gesture = "idle"
    /\ z = "pane" \/ (touch /\ z = "corner")

(* TerminalInput::press, move_to, release. *)
PanePress ==
    /\ \E overControl \in BOOLEAN :
          pane' = IF selection /\ ~ overControl THEN "select" ELSE "pending"
    /\ UNCHANGED <<selection, Loop, Bridge>>

PaneMove ==
    /\ \/ pane = "pending" /\ pane' = "scroll" /\ UNCHANGED selection     \* a swipe
       \/ pane = "pending" /\ pane' = "select" /\ selection' = TRUE       \* a long press
       \/ UNCHANGED Pane
    /\ UNCHANGED <<Loop, Bridge>>

PaneRelease ==
    /\ pane' = "none"
    /\ IF pane = "pending"
       THEN \E control \in BOOLEAN : selection' = (~ control \/ selection)   \* a tap
       ELSE UNCHANGED selection
    /\ UNCHANGED <<Loop, Bridge>>

(* The press of a zone at the bridge (key_at, shell_key_at, touch_key_at):   *)
(* a shortcut button plays its keys at once, a key is held until its release.*)
BridgePress(z, hold) ==
    IF z \in Keys THEN down' = down \cup {z} /\ hold
    ELSE /\ down' = IF z = "shortcut" THEN down \ Chord ELSE down
         /\ UNCHANGED <<pointerDown, touchDown>>

Releases(k) == down' = down \ {k}

-----------------------------------------------------------------------------
(* PointerPressed: pane, then close button, move band and resize corner for  *)
(* the left button, then the bridge.                                         *)
PressButton(b) ==
    /\ b \notin held
    /\ held' = held \cup {b}
    /\ UNCHANGED <<pointer, finger>>
    /\ \/ InPane(pointer, FALSE) /\ PanePress
       \/ /\ ~ InPane(pointer, FALSE) /\ b = "left" /\ pointer = "close"
          /\ closeArmed' = TRUE
          /\ UNCHANGED <<gesture, closeRequested, visible, Bridge, Pane>>
       \/ /\ ~ InPane(pointer, FALSE) /\ b = "left" /\ pointer \in {"title", "corner"}
          /\ gesture' = IF pointer = "title" THEN "move" ELSE "resize"
          /\ UNCHANGED <<closeArmed, closeRequested, visible, Bridge, Pane>>
       \/ /\ ~ InPane(pointer, FALSE)
          /\ ~ (b = "left" /\ pointer \in {"close", "title", "corner"})
          /\ BridgePress(pointer, /\ pointerDown' = [pointerDown EXCEPT ![b] = pointer]
                                  /\ UNCHANGED touchDown)
          /\ UNCHANGED <<shellRow, Loop, Pane>>

(* PointerMoved: a dragged window follows the pointer, which stays on its    *)
(* title; otherwise the pane may take the event.                             *)
MovePointer ==
    /\ pointer' \in Zones \ {pointer}
    /\ gesture # "move"
    /\ UNCHANGED <<held, finger>>
    /\ \/ InPane(pointer', FALSE) /\ PaneMove
       \/ ~ InPane(pointer', FALSE) /\ UNCHANGED <<Loop, Bridge, Pane>>

(* A release of any button or of the touch fires an armed close button, or   *)
(* ends a window gesture, before the bridge sees it.                         *)
Swallowed == closeArmed \/ gesture # "idle"

SwallowRelease ==
    /\ IF closeArmed
       THEN closeArmed' = FALSE /\ closeRequested' = TRUE /\ UNCHANGED gesture
       ELSE gesture' = "idle" /\ UNCHANGED <<closeArmed, closeRequested>>
    /\ UNCHANGED <<visible, Bridge, Pane>>

ReleaseButton(b) ==
    /\ b \in held
    /\ held' = held \ {b}
    /\ UNCHANGED <<pointer, finger>>
    /\ \/ InPane(pointer, FALSE) /\ PaneRelease
       \/ ~ InPane(pointer, FALSE) /\ Swallowed /\ SwallowRelease
       \/ /\ ~ InPane(pointer, FALSE) /\ ~ Swallowed
          /\ pointerDown' = [pointerDown EXCEPT ![b] = "none"]
          /\ Releases(pointerDown[b])
          /\ UNCHANGED <<touchDown, shellRow, Loop, Pane>>

(* PointerLeft: every key a button holds is released. *)
PointerLeaves ==
    /\ pointer' = "gap"
    /\ pointerDown' = [b \in Buttons |-> "none"]
    /\ down' = down \ {pointerDown[b] : b \in Buttons}
    /\ UNCHANGED <<held, finger, touchDown, shellRow, Loop, Pane>>

-----------------------------------------------------------------------------
(* TouchPressed: never a window gesture; one touch holds one key. *)
TouchDown(z) ==
    /\ HasTouch /\ finger = "up"
    /\ finger' = z
    /\ UNCHANGED <<pointer, held>>
    /\ \/ InPane(z, TRUE) /\ PanePress
       \/ ~ InPane(z, TRUE) /\ touchDown # "none" /\ UNCHANGED <<Loop, Bridge, Pane>>
       \/ /\ ~ InPane(z, TRUE) /\ touchDown = "none"
          /\ BridgePress(z, touchDown' = z /\ UNCHANGED pointerDown)
          /\ UNCHANGED <<shellRow, Loop, Pane>>

TouchMove(z) ==
    /\ finger # "up" /\ finger # z
    /\ finger' = z
    /\ UNCHANGED <<pointer, held>>
    /\ \/ InPane(z, TRUE) /\ PaneMove
       \/ ~ InPane(z, TRUE) /\ UNCHANGED <<Loop, Bridge, Pane>>

BridgeTouchUp ==
    /\ touchDown' = "none"
    /\ Releases(touchDown)
    /\ UNCHANGED <<pointerDown, shellRow, Loop, Pane>>

TouchUp ==
    /\ finger # "up"
    /\ finger' = "up"
    /\ UNCHANGED <<pointer, held>>
    /\ \/ InPane(finger, TRUE) /\ PaneRelease
       \/ ~ InPane(finger, TRUE) /\ Swallowed /\ SwallowRelease
       \/ ~ InPane(finger, TRUE) /\ ~ Swallowed /\ BridgeTouchUp

(* TouchCancelled goes to the bridge; the pane's cancel is never called. *)
TouchCancel ==
    /\ finger # "up"
    /\ finger' = "up"
    /\ BridgeTouchUp
    /\ UNCHANGED <<pointer, held>>

-----------------------------------------------------------------------------
(* The tray: hide or show, quit. *)
TrayToggle ==
    /\ visible' = ~ visible
    /\ UNCHANGED <<pointer, held, finger, gesture, closeArmed, closeRequested, Bridge, Pane>>

TrayQuit ==
    /\ closeRequested' = TRUE
    /\ UNCHANGED <<pointer, held, finger, gesture, closeArmed, visible, Bridge, Pane>>

(* The shell probe switches the shortcut row. *)
SetShellRow ==
    /\ shellRow' = ~ shellRow
    /\ UNCHANGED <<pointer, held, finger, Loop, pointerDown, touchDown, down, Pane>>

(* The loop ends: emergency_release. *)
Quit ==
    /\ closeRequested
    /\ down' = {}
    /\ UNCHANGED <<pointer, held, finger, Loop, pointerDown, touchDown, shellRow, Pane>>

Running == ~ closeRequested

Next ==
    \/ Quit
    \/ /\ Running
       /\ \/ \E b \in Buttons : PressButton(b) \/ ReleaseButton(b)
          \/ MovePointer \/ PointerLeaves
          \/ \E z \in Zones : TouchDown(z) \/ TouchMove(z)
          \/ TouchUp \/ TouchCancel \/ TrayToggle \/ TrayQuit \/ SetShellRow

Spec == Init /\ [][Next]_vars

-----------------------------------------------------------------------------
(* Properties. *)

(* With no button down and no finger on the screen no key is pressed: "a     *)
(* grab can neither fire a key nor leave a ghost hold" (src/main.rs:69).     *)
NoGhostHold == held = {} /\ finger = "up" => down = {}
=============================================================================
