------------------------------ MODULE FrontEnd ------------------------------
(* From the glass to the keys: the event loop of src/main.rs over the surface *)
(* (module Surface), the bridge that turns presses into keys (src/pointer.rs) *)
(* and the adaptive hit test (module Geometry).  Window gestures are their    *)
(* results here (where the window goes, which size it gets); who takes which  *)
(* event is module PointerRouting, the keyboard engine module UiKeyboard.     *)
(*                                                                            *)
(* Hands and server act between two polls: what arrives while the loop is     *)
(* busy is read by the next poll in the same order.  The user moves, resizes  *)
(* or hides the window with nothing pressed.                                  *)
EXTENDS Geometry, Surface

CONSTANTS
    Window,    \* the initial size
    Sizes,     \* sizes the resize gesture gives
    Places,    \* places the move gesture gives
    Outputs,   \* modes of the output
    Points,    \* where fingers and the pointer go, in view units
    Burst,     \* the bound on what arrives between two polls
    Scenarios  \* what a behaviour is about, with its bounds: how often the hands and
               \* the window act, which touches and points there are, whether a mouse,
               \* the settings of the adaptation and the outputs at the start

ASSUME FrontEndAssumption ==
    /\ Sizes \cup {Window} \subseteq Nat \X Nat
    /\ Outputs \subseteq Nat \X Nat
    /\ Places \cup Points \subseteq Int \X Int
    /\ \A c \in Scenarios :
          /\ c.outputs \subseteq Outputs \cup {None}
          /\ c.learning \subseteq {"off", "frozen", "on"}

VARIABLES
    visible,      \* what the loop takes the window's visibility to be
    loop,         \* where the event loop is
    fingers,      \* per touch id where the finger is, None when lifted
    mouse,        \* where the pointer is, None when it is off the window
    button,       \* the left button is down
    touchDown,    \* the key the active touch holds, 0 without one
    pointerDown,  \* the key the left button holds
    down,         \* keys the bridge pressed and has not released
    left          \* the scenario, and what is left of its bounds

handVars == <<fingers, mouse, button>>
bridgeVars == <<touchDown, pointerDown, down>>
vars == <<geometryVars, surfaceVars, visible, loop, handVars, bridgeVars, left>>

Pt(p) == [x |-> p[1], y |-> p[2]]

(* One type invariant. *)
TypeOK ==
    /\ loop \in {"top", "events", "render"}
    /\ fingers \in [Touches -> Points \cup {None}] /\ mouse \in Points \cup {None}
    /\ {button, visible} \subseteq BOOLEAN
    /\ {touchDown, pointerDown} \subseteq Keys \cup {0} /\ down \subseteq Keys
    /\ since \in Nat /\ learning \in {"off", "frozen", "on"}
    /\ \A k \in Keys : stats[k].n \in Nat /\ \A a \in Axes : hit[k].r[a] \in Nat \ {0}
    /\ backend \in {"wayland", "x11", "null"} /\ fresh \in BOOLEAN
    /\ plat.size \in Sizes \cup {Window} /\ plat.redraw \in BOOLEAN

Init ==
    /\ left \in Scenarios
    /\ GeometryInit /\ learning \in left.learning
    /\ SurfaceInit(Window, left.outputs)
    /\ visible = TRUE
    /\ loop = "top"
    /\ fingers = [t \in Touches |-> None] /\ mouse = None /\ button = FALSE
    /\ touchDown = 0 /\ pointerDown = 0 /\ down = {}

Lifted == (\A t \in Touches : fingers[t] = None) /\ ~ button

-----------------------------------------------------------------------------
(* The hands and the server.  Input starts on a window that is on the screen; *)
(* a Wayland surface is mapped by its buffer.                                 *)

OnScreen == (backend = "wayland" /\ sf.buffer # None) \/ (backend = "x11" /\ sf.mapped)

Deliver(m) ==
    /\ Len(inbox) < Burst /\ inbox' = Append(inbox, m)
    /\ UNCHANGED <<backend, visible, sf, plat, fresh, events>>

Act == left.hands > 0 /\ left' = [left EXCEPT !.hands = @ - 1]

Elsewhere == UNCHANGED <<geometryVars, loop, bridgeVars>>

FingerDown(t, p) ==
    /\ OnScreen /\ t \in left.touches /\ p \in left.points /\ fingers[t] = None /\ Act
    /\ fingers' = [fingers EXCEPT ![t] = p]
    /\ Deliver([t |-> "down", id |-> t, p |-> p])
    /\ UNCHANGED <<mouse, button>> /\ Elsewhere

FingerMove(t, p) ==
    /\ fingers[t] \notin {None, p} /\ p \in left.points /\ Act
    /\ fingers' = [fingers EXCEPT ![t] = p]
    /\ Deliver([t |-> "move", id |-> t, p |-> p])
    /\ UNCHANGED <<mouse, button>> /\ Elsewhere

FingerUp(t) ==
    /\ fingers[t] # None
    /\ fingers' = [fingers EXCEPT ![t] = None]
    /\ Deliver([t |-> "up", id |-> t])
    /\ UNCHANGED <<mouse, button, left>> /\ Elsewhere

\* Palm rejection, on Wayland.
TouchesCancelled ==
    /\ backend = "wayland" /\ \E t \in Touches : fingers[t] # None
    /\ fingers' = [t \in Touches |-> None]
    /\ Deliver([t |-> "cancel"])
    /\ UNCHANGED <<mouse, button, left>> /\ Elsewhere

PointerGoes(p) ==
    /\ OnScreen /\ left.mouse /\ p \in left.points /\ mouse # p /\ Act
    /\ mouse' = p
    /\ Deliver([t |-> "motion", p |-> p])
    /\ UNCHANGED <<fingers, button>> /\ Elsewhere

\* A window with a button down keeps the pointer.
PointerGone ==
    /\ backend = "wayland" /\ mouse # None /\ ~ button
    /\ mouse' = None
    /\ Deliver([t |-> "leave"])
    /\ UNCHANGED <<fingers, button, left>> /\ Elsewhere

ButtonDown ==
    /\ OnScreen /\ mouse # None /\ ~ button /\ Act
    /\ button' = TRUE
    /\ Deliver([t |-> "press", p |-> mouse])
    /\ UNCHANGED <<fingers, mouse>> /\ Elsewhere

ButtonUp ==
    /\ button
    /\ button' = FALSE
    /\ Deliver([t |-> "release"])
    /\ UNCHANGED <<fingers, mouse, left>> /\ Elsewhere

\* The server answers a size it was asked for, and with it the ones before; a Wayland
\* compositor may leave the size to the client, an X11 window that is configured loses
\* what it showed.
Configure ==
    /\ \E i \in DOMAIN sf.wants :
          /\ \E size \in {sf.wants[i]} \cup (IF backend = "wayland" THEN {<<0, 0>>} ELSE {}) :
                inbox' = Append(inbox, [t |-> "configure", size |-> size])
          /\ sf' = [sf EXCEPT !.wants = SubSeq(@, i + 1, Len(@)),
                              !.buffer = IF backend = "x11" THEN None ELSE @]
    /\ UNCHANGED <<backend, visible, plat, fresh, events, handVars, left>> /\ Elsewhere

\* The window manager meets a request to map the window, also one that a later hide
\* has overtaken.
MapWindow ==
    /\ sf.maps > 0
    /\ sf' = [sf EXCEPT !.maps = @ - 1, !.mapped = TRUE]
    /\ inbox' = Append(inbox, [t |-> "expose"])
    /\ UNCHANGED <<backend, visible, plat, fresh, events, handVars, left>> /\ Elsewhere

\* A window comes out from under another one and has lost what it showed.
Uncovered ==
    /\ backend = "x11" /\ sf.mapped /\ left.window > 0
    /\ left' = [left EXCEPT !.window = @ - 1]
    /\ sf' = [sf EXCEPT !.buffer = None]
    /\ inbox' = Append(inbox, [t |-> "expose"])
    /\ UNCHANGED <<backend, visible, plat, fresh, events, handVars>> /\ Elsewhere

\* At most one mode between two polls.
OutputMode ==
    /\ backend = "wayland" /\ left.window > 0
    /\ \A i \in DOMAIN inbox : inbox[i].t # "mode"
    /\ left' = [left EXCEPT !.window = @ - 1]
    /\ \E mode \in Outputs \ {sf.output} : Deliver([t |-> "mode", size |-> mode])
    /\ UNCHANGED handVars /\ Elsewhere

-----------------------------------------------------------------------------
(* The event loop: tray command, poll, one event after the other, the         *)
(* adaptive tick, render.                                                     *)

LoopGoes(to) == loop' = to /\ UNCHANGED handVars

TrayToggle ==
    /\ loop = "top" /\ Lifted /\ left.window > 0
    /\ left' = [left EXCEPT !.window = @ - 1]
    /\ visible' = ~ visible
    /\ PlatformSetVisible(visible')
    /\ UNCHANGED <<backend, fresh, inbox, events, geometryVars, loop, handVars, bridgeVars>>

\* The Escape key hides the window behind the back of the loop (handle_key).
EscapeHides ==
    /\ loop = "events" /\ Lifted /\ OnScreen /\ left.window > 0
    /\ left' = [left EXCEPT !.window = @ - 1]
    /\ PlatformSetVisible(FALSE)
    /\ UNCHANGED <<backend, visible, fresh, inbox, events, geometryVars, loop, handVars, bridgeVars>>

\* poll_events flushes, dispatches what has arrived and hands it to Slint and to the
\* loop (process_events).
Poll ==
    /\ loop = "top"
    /\ LET all == Dispatched(Flush(sf), inbox) IN sf' = all[1] /\ events' = all[2]
    /\ inbox' = <<>>
    /\ plat' = Resized(plat, events')
    /\ fresh' = (fresh /\ \A i \in DOMAIN events' : events'[i].t # "resized")
    /\ LoopGoes("events")
    /\ UNCHANGED <<backend, visible, geometryVars, bridgeVars, left>>

\* A key that lights up or goes dark changes the scene.
Lights(changed) ==
    /\ plat' = [plat EXCEPT !.redraw = @ \/ changed]
    /\ fresh' = (fresh /\ ~ changed)

Handled == loop = "events" /\ events # <<>> /\ events' = Tail(events)

HandleTouchPress ==
    /\ Handled /\ Head(events).t = "touchPressed"
    /\ LET p == Pt(Head(events).p)
           k == TouchKeyAt(p)
       IN  IF touchDown # 0
           THEN UNCHANGED <<geometryVars, bridgeVars, plat, fresh>>
           ELSE /\ Learn(p)
                /\ touchDown' = k
                /\ down' = down \cup ({k} \ {0})
                /\ Lights(k # 0)
                /\ UNCHANGED pointerDown
    /\ UNCHANGED <<backend, visible, sf, inbox, loop, handVars, left>>

\* A seeded fault: palm rejection is not a release.
HandleTouchReleaseOnly ==
    /\ Handled /\ Head(events).t \in {"touchReleased", "touchCancelled"}
    /\ IF Head(events).t = "touchReleased"
       THEN touchDown' = 0 /\ down' = down \ {touchDown}
       ELSE UNCHANGED <<touchDown, down>>
    /\ Lights(touchDown # 0)
    /\ UNCHANGED <<backend, visible, sf, inbox, geometryVars, loop, handVars, pointerDown, left>>

HandleTouchRelease ==
    /\ Handled /\ Head(events).t \in {"touchReleased", "touchCancelled"}
    /\ touchDown' = 0
    /\ down' = down \ {touchDown}
    /\ Lights(touchDown # 0)
    /\ UNCHANGED <<backend, visible, sf, inbox, geometryVars, loop, handVars, pointerDown, left>>

\* The mouse is precise: it is tested against the drawn keys.
HandlePointerPress ==
    /\ Handled /\ Head(events).t = "pointerPressed"
    /\ LET k == KeyAt(Pt(Head(events).p))
       IN  /\ pointerDown' = IF k = 0 THEN pointerDown ELSE k
           /\ down' = down \cup ({k} \ {0})
           /\ Lights(k # 0)
    /\ UNCHANGED <<backend, visible, sf, inbox, geometryVars, loop, handVars, touchDown, left>>

HandlePointerRelease ==
    /\ Handled /\ Head(events).t \in {"pointerReleased", "pointerLeft"}
    /\ pointerDown' = 0
    /\ down' = down \ {pointerDown}
    /\ Lights(pointerDown # 0)
    /\ UNCHANGED <<backend, visible, sf, inbox, geometryVars, loop, handVars, touchDown, left>>

HandleOther ==
    /\ Handled /\ Head(events).t \in {"pointerMoved", "touchMoved", "resized"}
    /\ UNCHANGED <<backend, visible, sf, plat, fresh, inbox, geometryVars, loop, handVars, bridgeVars, left>>

\* What a move and a resize gesture do with the window.
MoveWindow ==
    /\ loop = "events" /\ Lifted /\ OnScreen /\ left.window > 0
    /\ left' = [left EXCEPT !.window = @ - 1]
    /\ \E xy \in Places : sf' = SurfaceSetPosition(sf, xy)
    /\ UNCHANGED <<backend, visible, plat, fresh, inbox, events, geometryVars, loop, handVars, bridgeVars>>

\* A seeded fault: the window is not put back on the output.
ResizeWindowInPlace ==
    /\ loop = "events" /\ Lifted /\ OnScreen /\ left.window > 0
    /\ left' = [left EXCEPT !.window = @ - 1]
    /\ \E size \in Sizes \ {plat.size} :
          sf' = SurfaceSetSize(sf, size) /\ plat' = [size |-> size, redraw |-> TRUE]
    /\ fresh' = FALSE
    /\ UNCHANGED <<backend, visible, inbox, events, geometryVars, loop, handVars, bridgeVars>>

ResizeWindow ==
    /\ loop = "events" /\ Lifted /\ OnScreen /\ left.window > 0
    /\ left' = [left EXCEPT !.window = @ - 1]
    /\ \E size \in Sizes \ {plat.size} :
          LET s == SurfaceSetSize(sf, size)
              at == Position(s)
          IN  /\ sf' = IF at = None THEN s ELSE SurfaceSetPosition(s, at)
              /\ plat' = [size |-> size, redraw |-> TRUE]
    /\ fresh' = FALSE
    /\ UNCHANGED <<backend, visible, inbox, events, geometryVars, loop, handVars, bridgeVars>>

Tick ==
    /\ loop = "events" /\ events = <<>>
    /\ TickAdaptive
    /\ LoopGoes("render")
    /\ UNCHANGED <<surfaceVars, visible, bridgeVars, left>>

Render ==
    /\ loop = "render"
    /\ RenderIfDirty
    /\ LoopGoes("top")
    /\ UNCHANGED <<backend, visible, inbox, events, geometryVars, bridgeVars, left>>

\* The status strip (daemon link, shell row, terminal pane) changes the scene.
SceneChanges ==
    /\ loop = "top" /\ left.window > 0
    /\ left' = [left EXCEPT !.window = @ - 1]
    /\ plat' = [plat EXCEPT !.redraw = TRUE]
    /\ fresh' = FALSE
    /\ UNCHANGED <<backend, visible, sf, inbox, events, geometryVars, loop, handVars, bridgeVars>>

-----------------------------------------------------------------------------

Hands ==
    \/ \E t \in Touches : FingerUp(t) \/ \E p \in Points : FingerDown(t, p) \/ FingerMove(t, p)
    \/ TouchesCancelled \/ PointerGone \/ ButtonDown \/ ButtonUp
    \/ \E p \in Points : PointerGoes(p)

EventLoop ==
    \/ Poll
    \/ HandleTouchPress \/ HandleTouchRelease \/ HandlePointerPress
    \/ HandlePointerRelease \/ HandleOther
    \/ Tick \/ Render

Next ==
    \/ loop = "top" /\ (Hands \/ Configure \/ MapWindow \/ Uncovered \/ OutputMode)
    \/ EventLoop
    \/ TrayToggle \/ EscapeHides \/ MoveWindow \/ ResizeWindow \/ SceneChanges

\* What makes a step one of the loop: an event is taken, or the loop goes on.  No
\* other action does either, so fairness of these is fairness of EventLoop.
TakesEvent == loop = "events" /\ events # <<>> /\ events' = Tail(events)
GoesOn ==
    \/ loop = "top" /\ loop' = "events"
    \/ loop = "events" /\ events = <<>> /\ loop' = "render"
    \/ loop = "render" /\ loop' = "top"

\* The loop keeps running; the server and the window manager, processes of their own,
\* answer.
Spec ==
    /\ Init /\ [][Next]_vars
    /\ WF_events(TakesEvent) /\ WF_loop(GoesOn)
    /\ SF_vars(loop = "top" /\ (Configure \/ MapWindow))

-----------------------------------------------------------------------------
(* Properties. *)

(* With every finger lifted, the button up and all events handled, no key     *)
(* stays pressed: however touches overlap, hand over or are cancelled         *)
(* (TouchTracker, wl_touch, PointerBridge).                                   *)
LiftedReleases == Lifted /\ inbox = <<>> /\ events = <<>> => down = {}

(* No optimizer pass displaces, blows up or shrinks a hit region beyond its   *)
(* limits, whatever was learned and whoever competes (clamp_to_constraints).  *)
HitWithinLimits == \A k \in Keys : Within(k, hit[k])

(* Wayland: whenever the window is placed or resized it lies on the output it *)
(* is known to fit (margins_for_position, refresh_output_size).               *)
OnOutput(s) ==
    LET at == WlPosition(s)
    IN  \A i \in {1, 2} : s.size[i] <= s.output[i] =>
            at[i] >= 0 /\ at[i] + s.size[i] <= s.output[i]

PlacedOnOutput ==
    [][backend = "wayland" /\ sf'.output # None /\ sf'.created
       /\ (sf'.margins # sf.margins \/ sf'.size # sf.size \/ (sf'.positioned /\ ~ sf.positioned))
       => OnOutput(sf')]_vars

(* Once hands and outputs rest, a visible window has the size that was asked  *)
(* for last, though the answers to older requests come in after it was asked  *)
(* for.  On Wayland it shows the current scene: no redraw is lost to a        *)
(* surface that was not ready.  On X11 it is mapped and shows the current     *)
(* scene or nothing: a frame put before the window manager mapped the window, *)
(* or lost while another window lay over it, is not drawn again until the     *)
(* scene changes (render_if_dirty, poll_events, handle_event).                *)
ShowsCurrent ==
    sf.visible /\ backend # "null" =>
        /\ sf.size = sf.pending /\ plat.size = sf.size
        /\ backend = "x11" => sf.mapped
        /\ (sf.buffer = sf.size /\ fresh) \/ (backend = "x11" /\ sf.buffer = None)

Settles == <>[]ShowsCurrent
=============================================================================
