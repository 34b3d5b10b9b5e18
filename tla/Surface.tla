------------------------------- MODULE Surface -------------------------------
(* The window of the keyboard: which backend is chosen (ferrokey-surface/     *)
(* src/detect.rs), the Wayland layer surface (wayland/), the X11 window       *)
(* (x11.rs, touch.rs), the null surface (fallback.rs) and the Slint platform  *)
(* over them (slint_adapter.rs).  The display server and the window manager   *)
(* are external: they answer requests in order but at any later time, and     *)
(* deliver input in order.                                                    *)
(*                                                                            *)
(* Sizes, places and points are pairs.  Pixels, formats and scale factors are *)
(* left out: a frame is its size and whether it shows the current scene.      *)
EXTENDS Integers, Sequences, FiniteSets

CONSTANTS
    MaxDimension,  \* MAX_DIMENSION
    Touches        \* touch ids

ASSUME TouchAssumption == Touches \subseteq Nat

VARIABLES
    backend,   \* "wayland", "x11" or "null"
    sf,        \* the surface and what the server shows of it, see Connected
    plat,      \* the platform: size and redraw flag
    fresh,     \* the last frame that was presented shows the current scene
    inbox,     \* from the server, not yet dispatched
    events     \* SurfaceEvents not yet handled by the event loop

surfaceVars == <<backend, sf, plat, fresh, inbox, events>>

None == <<>>
Clip(v, lo, hi) == IF v < lo THEN lo ELSE IF v > hi THEN hi ELSE v
NonNeg(v) == IF v < 0 THEN 0 ELSE v

-----------------------------------------------------------------------------
(* detect.rs: the selection policy over what was observed. *)

Probes == [wayland : BOOLEAN, globals : {"layerShell", "other", "failed"}, x11 : BOOLEAN]

Decide(p) ==
    IF p.wayland
    THEN CASE p.globals = "layerShell" -> "wayland"
           [] p.globals = "other" -> IF p.x11 THEN "x11" ELSE "null"
           [] p.globals = "failed" -> "null"
    ELSE IF p.x11 THEN "x11" ELSE "null"

-----------------------------------------------------------------------------
(* The Wayland backend (WlState, WaylandSurface). *)

\* connect, X11Surface::create, NullSurface::new.  out and wants are the sizes that were
\* requested and not answered: still buffered in the client, or with the server; pending
\* is the last of them.  shm is the size of the shared buffer.  The server's are buffer,
\* the size of the frame on the screen, and of an X11 window its place, whether it is
\* mapped and how many requests to map it the window manager has not met.
Connected(output) ==
    [size |-> <<0, 0>>, visible |-> FALSE, ready |-> FALSE, configured |-> FALSE,
     created |-> FALSE, pending |-> <<0, 0>>, output |-> output, margins |-> <<0, 0>>,
     positioned |-> FALSE, place |-> None, pointer |-> None, touch |-> None,
     active |-> {}, positions |-> [t \in Touches |-> None],
     out |-> <<>>, wants |-> <<>>, shm |-> None, buffer |-> None, at |-> <<0, 0>>,
     mapped |-> FALSE, maps |-> 0]

\* margins_for_position: left and bottom, clamped to the output.
MarginsFor(xy, size, output) ==
    LET x == Clip(xy[1], 0, NonNeg(output[1] - size[1]))
        y == Clip(xy[2], 0, NonNeg(output[2] - size[2]))
    IN  <<x, NonNeg(output[2] - y - size[2])>>

\* refresh_output_size: the first placement, where asked for or bottom centre.
RefreshOutput(s) ==
    LET w == s.pending[1]  h == s.pending[2]
        centre == <<NonNeg(s.output[1] - w) \div 2, NonNeg(s.output[2] - h)>>
        xy == IF s.place = None THEN centre ELSE s.place
    IN  IF s.output = None \/ ~ s.created \/ s.positioned THEN s
        ELSE [s EXCEPT !.margins = MarginsFor(xy, s.pending, s.output),
                       !.positioned = TRUE, !.place = None]

EnsureCreated(s, size) ==
    RefreshOutput([s EXCEPT !.created = TRUE, !.pending = size, !.out = Append(@, size)])

Flush(s) == [s EXCEPT !.wants = s.wants \o s.out, !.out = <<>>]

ValidSize(size) == \A i \in {1, 2} : size[i] > 0 /\ size[i] <= MaxDimension

WlSetSize(s, size) ==
    IF s.ready THEN EnsureCreated([s EXCEPT !.size = size], size)
    ELSE [s EXCEPT !.size = size]

WlSetPosition(s, xy) ==
    IF s.output = None THEN [s EXCEPT !.place = xy]
    ELSE IF ~ s.created THEN s
    ELSE Flush([s EXCEPT !.margins = MarginsFor(xy, s.size, s.output),
                         !.positioned = TRUE, !.place = None])

WlPosition(s) ==
    IF s.output = None THEN None
    ELSE <<s.margins[1], s.output[2] - s.size[2] - s.margins[2]>>

\* A shared buffer of the right number of bytes is used again, whatever its shape.
SharedBuffer(s, size) ==
    IF s.shm # None /\ s.shm[1] * s.shm[2] = size[1] * size[2] THEN s.shm ELSE size

\* Hidden: the buffer is detached; nothing is presented until it is shown again.
WlPresent(s, size) ==
    IF ~ s.visible THEN [s EXCEPT !.buffer = None]
    ELSE Flush([(IF s.created THEN s ELSE EnsureCreated(s, size)) EXCEPT
                    !.shm = SharedBuffer(s, size), !.buffer = SharedBuffer(s, size)])

WlSetVisible(s, v) ==
    IF v THEN [Flush(EnsureCreated([s EXCEPT !.visible = TRUE], s.size)) EXCEPT !.ready = TRUE]
    ELSE Flush([s EXCEPT !.visible = FALSE, !.buffer = None])

-----------------------------------------------------------------------------
(* The X11 and the null backend. *)

X11SetSize(s, size) == [s EXCEPT !.size = size, !.pending = size, !.wants = Append(@, size)]

\* A move is answered with the size the window has by then.
X11SetPosition(s, xy) == [s EXCEPT !.at = xy, !.wants = Append(@, s.pending)]

\* An image put into a window that is not mapped is lost.
X11Present(s, size) == [s EXCEPT !.buffer = IF s.mapped THEN size ELSE None]

\* The window manager maps (override_redirect is off), the server unmaps at once;
\* ready does not wait for either.
X11SetVisible(s, v) ==
    IF v THEN [s EXCEPT !.visible = TRUE, !.ready = TRUE, !.maps = IF s.mapped THEN @ ELSE @ + 1]
    ELSE [s EXCEPT !.visible = FALSE, !.mapped = FALSE, !.buffer = None]

NullSetVisible(s, v) == [s EXCEPT !.visible = v, !.ready = s.ready \/ (v /\ ValidSize(s.size))]

NullPresent(s) == [s EXCEPT !.ready = s.visible]

-----------------------------------------------------------------------------
(* The Surface trait. *)

SurfaceSetSize(s, size) ==
    CASE backend = "wayland" -> WlSetSize(s, size)
      [] backend = "x11" -> X11SetSize(s, size)
      [] OTHER -> [s EXCEPT !.size = size]

SurfaceSetPosition(s, xy) ==
    CASE backend = "wayland" -> WlSetPosition(s, xy)
      [] backend = "x11" -> X11SetPosition(s, xy)
      [] OTHER -> s

Position(s) ==
    CASE backend = "wayland" -> WlPosition(s)
      [] backend = "x11" -> s.at
      [] OTHER -> None

Present(s, size) ==
    CASE backend = "wayland" -> WlPresent(s, size)
      [] backend = "x11" -> X11Present(s, size)
      [] OTHER -> NullPresent(s)

SurfaceSetVisible(s, v) ==
    CASE backend = "wayland" -> WlSetVisible(s, v)
      [] backend = "x11" -> X11SetVisible(s, v)
      [] OTHER -> NullSetVisible(s, v)

IsReady(s) == IF backend = "wayland" THEN s.ready /\ s.configured ELSE s.ready

-----------------------------------------------------------------------------
(* touch.rs: one of the active touches is forwarded. *)

First(ids) == CHOOSE t \in ids : \A u \in ids : t <= u

TrackDown(s, id, p) ==
    <<[s EXCEPT !.active = @ \cup {id}, !.positions[id] = p],
      IF s.active = {} THEN <<[t |-> "touchPressed", p |-> p]>> ELSE <<>>>>

TrackMove(s, id, p) ==
    <<[s EXCEPT !.positions[id] = p],
      IF s.active # {} /\ First(s.active) = id THEN <<[t |-> "touchMoved"]>> ELSE <<>>>>

TrackUp(s, id) ==
    LET left == s.active \ {id}
        next == s.positions[First(left)]
    IN  <<[s EXCEPT !.active = left, !.positions[id] = None],
          IF id \notin s.active THEN <<>>
          ELSE <<[t |-> "touchReleased"]>>
               \o (IF left = {} THEN <<>> ELSE <<[t |-> "touchPressed", p |-> next]>>)>>

-----------------------------------------------------------------------------
(* One message of the server: the Dispatch impls and handle_event.  The       *)
(* result is the surface and the events it queues.                            *)

DispatchTouch(s, m) ==
    IF backend = "x11"
    THEN CASE m.t = "down" -> TrackDown(s, m.id, m.p)
           [] m.t = "move" -> TrackMove(s, m.id, m.p)
           [] m.t = "up" -> TrackUp(s, m.id)
    ELSE CASE m.t = "down" -> <<[s EXCEPT !.touch = m.p], <<[t |-> "touchPressed", p |-> m.p]>>>>
           [] m.t = "move" -> <<[s EXCEPT !.touch = m.p], <<[t |-> "touchMoved"]>>>>
           [] m.t = "up" -> <<[s EXCEPT !.touch = None], <<[t |-> "touchReleased"]>>>>
           [] m.t = "cancel" -> <<[s EXCEPT !.touch = None], <<[t |-> "touchCancelled"]>>>>

\* A button has no coordinates on Wayland: the last position counts.
DispatchPointer(s, m) ==
    CASE m.t = "motion" -> <<[s EXCEPT !.pointer = m.p], <<[t |-> "pointerMoved"]>>>>
      [] m.t = "leave" -> <<[s EXCEPT !.pointer = None], <<[t |-> "pointerLeft"]>>>>
      [] m.t = "press" -> <<s, <<[t |-> "pointerPressed",
                                  p |-> IF backend = "x11" THEN m.p
                                        ELSE IF s.pointer = None THEN <<0, 0>> ELSE s.pointer]>>>>
      [] m.t = "release" -> <<s, <<[t |-> "pointerReleased"]>>>>

\* Layer surface configure (0 means as requested), ConfigureNotify.
DispatchConfigure(s, size) ==
    LET given == IF size = <<0, 0>> THEN s.pending ELSE size
    IN  <<IF backend = "x11" THEN [s EXCEPT !.size = given] ELSE [s EXCEPT !.configured = TRUE],
          <<[t |-> "resized", size |-> given]>>>>

\* An exposed window is ready; what it showed is not drawn again.
DispatchExpose(s) == <<[s EXCEPT !.ready = TRUE], <<>>>>

DispatchMode(s, size) == <<RefreshOutput([s EXCEPT !.output = size]), <<>>>>

DispatchOne(s, m) ==
    CASE m.t = "configure" -> DispatchConfigure(s, m.size)
      [] m.t = "mode" -> DispatchMode(s, m.size)
      [] m.t = "expose" -> DispatchExpose(s)
      [] m.t \in {"motion", "leave", "press", "release"} -> DispatchPointer(s, m)
      [] OTHER -> DispatchTouch(s, m)

\* What has arrived, one message after the other: the surface and all events.
Dispatched(s, msgs) ==
    LET upTo[i \in 0 .. Len(msgs)] ==
            IF i = 0 THEN <<s, <<>>>>
            ELSE LET d == DispatchOne(upTo[i - 1][1], msgs[i])
                 IN  <<d[1], upTo[i - 1][2] \o d[2]>>
    IN  upTo[Len(msgs)]

-----------------------------------------------------------------------------
(* slint_adapter.rs. *)

Latest(places) == CHOOSE i \in places : \A j \in places : j <= i

\* A seeded fault: a configure of the size it has asks for no redraw.
ResizedIfDifferent(p, evs) ==
    LET sizes == {i \in DOMAIN evs : evs[i].t = "resized" /\ evs[i].size # p.size}
    IN  IF sizes = {} THEN p ELSE [size |-> evs[Latest(sizes)].size, redraw |-> TRUE]

\* handle_surface_event for the events of one poll.
Resized(p, evs) ==
    LET sizes == {i \in DOMAIN evs : evs[i].t = "resized"}
    IN  IF sizes = {} THEN p ELSE [size |-> evs[Latest(sizes)].size, redraw |-> TRUE]

\* The adapter's set_visible: showing asks for a redraw.
PlatformSetVisible(v) ==
    /\ sf' = SurfaceSetVisible(sf, v)
    /\ plat' = [plat EXCEPT !.redraw = @ \/ v]

\* render_if_dirty: the flag is taken whether or not a frame goes out.
RenderIfDirty ==
    /\ plat' = [plat EXCEPT !.redraw = FALSE]
    /\ IF plat.redraw /\ IsReady(sf)
       THEN sf' = Present(sf, plat.size) /\ fresh' = TRUE
       ELSE UNCHANGED <<sf, fresh>>

\* run: the size is set before the window is shown and before the loop starts.
SurfaceInit(window, outputs) ==
    /\ backend \in {Decide(p) : p \in Probes}
    /\ \E output \in outputs :
          /\ backend = "x11" => output # None
          /\ LET s0 == SurfaceSetSize(Connected(IF backend = "null" THEN None ELSE output), window)
             IN  sf = SurfaceSetVisible(s0, TRUE)
    /\ plat = [size |-> window, redraw |-> TRUE]
    /\ fresh = FALSE
    /\ inbox = <<>> /\ events = <<>>
=============================================================================
