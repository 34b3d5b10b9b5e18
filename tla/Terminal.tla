------------------------------ MODULE Terminal ------------------------------
(* The terminal facade of crates/ferrokey-terminal/src/terminal.rs: the     *)
(* actions the parser emits applied to the grid, the history ring, the      *)
(* viewport, the selection, the alternate screen and the pane that is       *)
(* painted from them; and the gestures (src/term_input.rs) through which    *)
(* the user scrolls, selects and taps.  The child process and the buffers   *)
(* towards it are in TermSession.                                           *)
(*                                                                          *)
(* A parser action is one step.  A chunk read from the PTY is a run of      *)
(* them: `chunk` holds the synchronized-output flag feed_bytes captured     *)
(* before the first, and the pane is marked after the last.  Everything     *)
(* runs on the UI thread, so the user acts between chunks only.             *)
(*                                                                          *)
(* Pixel positions are cells: a point of the pane is a visible row and a    *)
(* column.  The size of the pane is its number of visible rows.             *)
EXTENDS TermGrid

CONSTANTS
    MaxLines,        \* capacity of the history ring (scrollback_lines)
    InitCols, InitRows,
    Sizes,           \* pane sizes the host may ask for: <<cols, rows>>
    Params,          \* values of a CSI parameter other than its default
    MaxResponse,     \* answers queued towards the child (256 bytes)
    ScrollThreshold, \* rows a press may drift before it is a scroll
    Workloads        \* sets of operations explored together, with a length

ASSUME TerminalAssumption ==
    /\ MaxLines \in Nat \ {0}
    /\ SizeAllowed(InitCols, InitRows)
    /\ \A size \in Sizes : SizeAllowed(size[1], size[2])
    /\ Params \subseteq Nat \ {0}
    /\ MaxResponse \in Nat /\ ScrollThreshold \in Nat
    /\ \A w \in Workloads : w.length \in Nat

VARIABLES
    term,     \* struct Terminal
    chunk,    \* "none", or the synced flag of the chunk being fed
    gesture,  \* the pane gesture in progress (TerminalInput)
    workload, \* the operations of this behaviour
    budget    \* operations left

vars == <<term, chunk, gesture, workload, budget>>

-----------------------------------------------------------------------------
(* Modes.                                                                   *)

FlagModes == {"application_cursor_keys", "application_keypad", "bracketed_paste",
    "insert_mode", "auto_wrap", "cursor_visible", "cursor_blink",
    "reverse_video", "focus_reporting", "synchronized_output", "alt_screen"}

(* Those DECSET / DECRST assigns directly. *)
PrivateFlags == FlagModes \ {"application_keypad", "insert_mode", "alt_screen"}

MouseModes == {"None", "Normal", "Button", "Any"}

CursorShapes == {"Block", "BlinkingBlock", "SteadyBlock"}

DefaultModes ==
    [flag |-> [f \in FlagModes |-> f \in {"auto_wrap", "cursor_visible", "cursor_blink"}],
     mouse |-> "None", shape |-> "Block", modify_other_keys |-> 0]

(* DECSTR leaves cursor_blink, synchronized_output and alt_screen alone. *)
SoftResetModes(m) ==
    [flag |-> [f \in FlagModes |->
                IF f \in {"cursor_blink", "synchronized_output", "alt_screen"}
                  THEN m.flag[f] ELSE DefaultModes.flag[f]],
     mouse |-> "None", shape |-> "Block", modify_other_keys |-> 0]

-----------------------------------------------------------------------------
(* History and viewport.                                                    *)

(* Mutant: bounds that always return to the newest line. *)
UpdateBoundsNewest(v, len) == [v EXCEPT !.max_offset = len, !.scroll_offset = 0]

(* Viewport::update_bounds *)
UpdateBounds(v, len) ==
    [v EXCEPT !.max_offset = len,
              !.scroll_offset = IF v.follow_output THEN 0 ELSE Least(@, len)]

DefaultViewport == [scroll_offset |-> 0, follow_output |-> TRUE, max_offset |-> 0]

(* Mutant: the newest line goes in at the oldest end. *)
RingPushFront(ring, line, cols) ==
    IF Len(ring) = MaxLines THEN ring ELSE <<FitLine(line, cols)>> \o ring

(* Scrollback::push: the line is refitted; a full ring drops its oldest. *)
RingPush(ring, line, cols) ==
    Append(IF Len(ring) = MaxLines THEN Tail(ring) ELSE ring, FitLine(line, cols))

PushScrollback(t, line) ==
    IF t.alt THEN t
    ELSE LET ring == RingPush(t.scrollback, line, t.sb_cols)
         IN  [t EXCEPT !.scrollback = ring,
                       !.viewport = UpdateBounds(@, Len(ring))]

(* The lines of an operation's ...Out, in order. *)
PushAll(t, lines) ==
    LET push[i \in 0..Len(lines)] ==
            IF i = 0 THEN t ELSE PushScrollback(push[i - 1], lines[i])
    IN  push[Len(lines)]

(* restore_from_scrollback: whatever the cursor and the screen are. *)
RestoreFromScrollback(t) ==
    LET n == Len(t.scrollback)
    IN  IF n = 0 THEN t
        ELSE [t EXCEPT !.scrollback = SubSeq(@, 1, n - 1),
                       !.grid = PushLineFromScrollback(@, t.scrollback[n])]

-----------------------------------------------------------------------------
(* Applying a parser action.                                                *)

OnGrid(t, g) == [t EXCEPT !.grid = g]

ApplyPrint(t, ch) ==
    PushAll([t EXCEPT !.grid = PutChar(@, ch, t.attrs), !.last_char = {ch}],
            PrintOut(t.grid, ch))

ApplyLineFeed(t) == PushAll(OnGrid(t, Index(t.grid)), IndexOut(t.grid))

ApplyNextLine(t) ==
    PushAll(OnGrid(t, NextLine(t.grid)), IndexOut(CarriageReturn(t.grid)))

ApplyReverseIndex(t) == RestoreFromScrollback(OnGrid(t, ReverseIndex(t.grid)))

ApplySave(t) == OnGrid(t, SaveCursor(t.grid, t.attrs))

ApplyRestore(t) ==
    LET g == RestoreCursor(t.grid)
    IN  [t EXCEPT !.grid = g,
                  !.attrs = IF g.saved_attrs = {} THEN @
                            ELSE CHOOSE a \in g.saved_attrs : TRUE]

(* DA and DSR answers; what does not fit is dropped. *)
QueueResponse(t) == [t EXCEPT !.response = Least(@ + 1, MaxResponse)]

SelectionClear(t) ==
    IF t.selection = {} THEN t
    ELSE [t EXCEPT !.selection = {}, !.pane_dirty_all = TRUE]

(* DECSTR clears the tab stops, it does not put the initial ones back. *)
SoftReset(t) ==
    LET g == SetCursor(ClearAllTabStops(
                SetScrollRegion(SetOriginMode(t.grid, FALSE), 0, t.grid.row_count - 1)), 0, 0)
    IN  [SelectionClear(t) EXCEPT !.modes = SoftResetModes(@), !.grid = g,
                                  !.attrs = DefaultAttrs, !.pane_dirty_all = TRUE]

(* RIS stays on the alternate screen when it is active. *)
FullReset(t) ==
    LET s == SoftReset(t)
    IN  [s EXCEPT !.grid = EraseInDisplay(@, 2), !.scrollback = <<>>]

(* ED; 3 also clears the history. *)
ApplyErase(t, mode) ==
    IF mode = 3
      THEN [t EXCEPT !.scrollback = <<>>, !.grid = EraseInDisplay(@, 2)]
      ELSE OnGrid(t, EraseInDisplay(t.grid, mode))

(* SU pushes history only when the region is the whole screen. *)
ApplyScrollUp(t, n) ==
    LET full == t.grid.scroll_top = 0 /\ t.grid.scroll_bottom = t.grid.row_count - 1
    IN  PushAll(OnGrid(t, ScrollUpRegion(t.grid, n)),
                IF full THEN ScrollUpOut(t.grid, n) ELSE <<>>)

(* REP *)
ApplyRepeat(t, n) ==
    LET rep[i \in 0..n] ==
            IF i = 0 THEN t
            ELSE ApplyPrint(rep[i - 1], CHOOSE ch \in t.last_char : TRUE)
    IN  IF t.last_char = {} THEN t ELSE rep[n]

(* CHT and CBT: a number of tabs in either direction. *)
Tabs(g, n) ==
    LET tab[i \in 0..n] == IF i = 0 THEN g ELSE Tab(tab[i - 1])
    IN  tab[n]

BackTabs(g, n) ==
    LET back[i \in 0..n] == IF i = 0 THEN g ELSE BackspaceToTab(back[i - 1])
    IN  back[n]

(* Mutant: entering twice saves the alternate screen over the main one. *)
EnterAltScreenAgain(t, save) ==
    [t EXCEPT !.saved = {t.grid}, !.grid = NewGrid(t.grid.cols, t.grid.row_count),
              !.alt = TRUE, !.modes.flag["alt_screen"] = TRUE,
              !.viewport = [@ EXCEPT !.scroll_offset = 0, !.follow_output = TRUE]]

EnterAltScreen(t, save) ==
    IF t.alt THEN t
    ELSE LET main == IF save THEN SaveCursor(t.grid, t.attrs) ELSE t.grid
         IN  [t EXCEPT !.saved = {main},
                       !.grid = NewGrid(t.grid.cols, t.grid.row_count),
                       !.alt = TRUE, !.modes.flag["alt_screen"] = TRUE,
                       !.viewport = [@ EXCEPT !.scroll_offset = 0, !.follow_output = TRUE]]

ExitAltScreen(t, restore) ==
    IF ~t.alt THEN t
    ELSE LET back == [t EXCEPT !.alt = FALSE, !.saved = {},
                               !.grid = CHOOSE g \in t.saved : TRUE,
                               !.modes.flag["alt_screen"] = FALSE]
         IN  IF restore THEN ApplyRestore(back) ELSE back

(* set_private_mode: every arm ends by marking the pane. *)
SetPrivateMode(t, mode, set) ==
    [(CASE mode \in PrivateFlags -> [t EXCEPT !.modes.flag[mode] = set]
        [] mode = "origin" -> OnGrid(t, SetOriginMode(t.grid, set))
        [] mode = "alternate" ->
             IF set THEN EnterAltScreen(t, FALSE) ELSE ExitAltScreen(t, FALSE)
        [] mode = "alternate_save" ->
             IF set THEN EnterAltScreen(t, TRUE) ELSE ExitAltScreen(t, TRUE)
        [] mode = "save_cursor" -> IF set THEN ApplySave(t) ELSE ApplyRestore(t)
        [] mode \in MouseModes ->
             [t EXCEPT !.modes.mouse = IF set THEN mode ELSE "None"]
        [] OTHER -> t)
     EXCEPT !.pane_dirty_all = TRUE]

SetAnsiMode(t, on) == [t EXCEPT !.modes.flag["insert_mode"] = on]

SetCursorShape(t, shape) == [t EXCEPT !.modes.shape = shape, !.cursor_dirty = TRUE]

(* A run of SGR parameters leaves some combination of colours and flags. *)
Sgr(t, attrs) == [t EXCEPT !.attrs = attrs]

PrivateModes == PrivateFlags \cup (MouseModes \ {"None"})
    \cup {"origin", "alternate", "alternate_save", "save_cursor", "ignored"}

-----------------------------------------------------------------------------
(* The pane: which document rows are visible, and what is painted.          *)

DocRows(t) == Len(t.scrollback) + t.grid.row_count

(* window_start: the offset counts, up to one pane, from the newest row. *)
WindowStart(t) ==
    Most(DocRows(t) - Least(t.viewport.scroll_offset, t.visible) - t.visible, 0)

(* The line at a document row; row 0 is the oldest line of the history. *)
DocLine(t, doc) ==
    IF doc < Len(t.scrollback) THEN t.scrollback[doc + 1]
    ELSE t.grid.rows[doc - Len(t.scrollback)]

CursorVisibleIndex(t) ==
    IF t.viewport.scroll_offset > 0 \/ t.alt \/ t.grid.cursor.row >= t.visible
      THEN {} ELSE {t.grid.cursor.row}

(* Mutant: output below a scrolled-up view is taken not to show. *)
MarkDirtyUnlessScrolled(t) ==
    LET clean == OnGrid(t, CleanDirty(t.grid))
        vis == {Len(t.scrollback) + r - WindowStart(t) : r \in t.grid.dirty}
    IN  IF t.viewport.scroll_offset > 0 THEN clean
        ELSE IF t.grid.dirty_all THEN [clean EXCEPT !.pane_dirty_all = TRUE]
        ELSE [clean EXCEPT !.pane_dirty = @ \cup (vis \cap 0..(t.visible - 1))
                                            \cup CursorVisibleIndex(t)]

MarkDirtyFromGrid(t) ==
    LET clean == OnGrid(t, CleanDirty(t.grid))
        vis == {Len(t.scrollback) + r - WindowStart(t) : r \in t.grid.dirty}
    IN  IF t.grid.dirty_all
          THEN [clean EXCEPT !.pane_dirty_all = TRUE]
          ELSE [clean EXCEPT !.pane_dirty = @ \cup (vis \cap 0..(t.visible - 1))
                                              \cup CursorVisibleIndex(t)]

IsDirty(t) == t.pane_dirty_all \/ t.pane_dirty /= {} \/ t.cursor_dirty

PosLeq(p, q) == p.row < q.row \/ (p.row = q.row /\ p.col <= q.col)

SelStart(s) == IF PosLeq(s.anchor, s.end) THEN s.anchor ELSE s.end

SelEnd(s) == IF PosLeq(s.anchor, s.end) THEN s.end ELSE s.anchor

(* Selection::contains: a rectangle, also when the selection spans rows. *)
SelContains(s, row, col) ==
    /\ row \in SelStart(s).row..SelEnd(s).row
    /\ col \in SelStart(s).col..SelEnd(s).col

(* What painting visible row i puts in the frame at column c: the cell, its *)
(* highlight and colours, and the cursor when it is there.                  *)
PaintedCell(t, i, c) ==
    LET doc  == WindowStart(t) + i
        here == /\ t.viewport.scroll_offset = 0 /\ ~t.alt
                /\ t.modes.flag["cursor_visible"]
                /\ Pos(doc - Len(t.scrollback), c) = t.grid.cursor
    IN  [cell |-> DocLine(t, doc)[c],
         selected |-> \E s \in t.selection : SelContains(s, doc, c),
         reverse |-> t.modes.flag["reverse_video"],
         cursor |-> IF here THEN {<<t.modes.shape, t.blink_phase>>} ELSE {}]

(* paint_row skips the second half of a wide glyph and columns outside. *)
CellsPainted(t, i) ==
    {c \in DOMAIN DocLine(t, WindowStart(t) + i) :
        c < t.pane_cols /\ DocLine(t, WindowStart(t) + i)[c].part /= "cont"}

LinesShown(t) == Least(t.visible, DocRows(t) - WindowStart(t))

(* A cell of the opaque frame the renderer allocates. *)
Unpainted == [cell |-> DefaultCell, selected |-> FALSE, reverse |-> FALSE,
              cursor |-> {<<"unpainted", FALSE>>}]

FreshFrame(cols, rows) == [i \in 0..(rows - 1) |-> [c \in 0..(cols - 1) |-> Unpainted]]

Overlays(t) ==
    (IF t.viewport.scroll_offset > 0 THEN {"newest"} ELSE {}) \cup
    (IF t.selection /= {} THEN {"copy"} ELSE {}) \cup
    (IF t.exited THEN {"restart"} ELSE {}) \cup {"paste"}

(* render: consume_dirty, then paint.  An empty set of rows paints all. *)
Render(t) ==
    LET rows == t.pane_dirty \cup (IF t.cursor_dirty THEN CursorVisibleIndex(t) ELSE {})
        all  == t.pane_dirty_all \/ rows = {}
    IN  [t EXCEPT
            !.frame = [i \in 0..(t.visible - 1) |->
                        IF (all \/ i \in rows) /\ i < LinesShown(t)
                          THEN [c \in 0..(t.pane_cols - 1) |->
                                  IF c \in CellsPainted(t, i)
                                    THEN PaintedCell(t, i, c) ELSE @[i][c]]
                          ELSE @[i]],
            !.ui = Overlays(t),
            !.pane_dirty = {}, !.pane_dirty_all = FALSE, !.cursor_dirty = FALSE]

(* A ring of the new width: the lines are pushed into it, oldest first. *)
Refit(ring, cols) ==
    LET refit[i \in 0..Len(ring)] ==
            IF i = 0 THEN <<>> ELSE RingPush(refit[i - 1], ring[i], cols)
    IN  refit[Len(ring)]

(* Terminal::resize to cols x rows cells.  `fresh`: the size in pixels is   *)
(* not the frame's, so the renderer allocates an empty one.  Only the grid  *)
(* on screen is resized, not a saved main screen.  The pane is between the   *)
(* size limits, so the grid has the rows that are visible, and TIOCSWINSZ    *)
(* does not fail on the open master (its error returns half way).            *)
Resize(t, cols, rows, fresh) ==
    LET changed == <<cols, rows>> /= <<t.grid.cols, t.grid.row_count>>
        sized == IF changed
                   THEN [t EXCEPT !.grid = ResizeGrid(@, cols, rows),
                                  !.scrollback = Refit(@, cols),
                                  !.sb_cols = cols, !.pane_dirty_all = TRUE,
                                  !.winsize = IF t.session THEN <<cols, rows>> ELSE @]
                   ELSE t
    IN  [sized EXCEPT !.visible = rows, !.pane_cols = cols,
                      !.frame = IF fresh THEN FreshFrame(cols, rows) ELSE @,
                      !.ui = IF fresh THEN {} ELSE @]

-----------------------------------------------------------------------------
(* The viewport and the selection as the user drives them.                  *)

ScrollUp(t, n) ==
    LET v == UpdateBounds(t.viewport, Len(t.scrollback))
    IN  [t EXCEPT !.viewport = [v EXCEPT !.follow_output = FALSE,
                                         !.scroll_offset = Least(@ + n, v.max_offset)],
                  !.pane_dirty_all = TRUE]

ScrollDown(t, n) ==
    LET v == t.viewport
        off == Most(v.scroll_offset - n, 0)
    IN  [t EXCEPT !.viewport = [v EXCEPT !.scroll_offset = off,
                                         !.follow_output = v.follow_output \/ off = 0],
                  !.pane_dirty_all = TRUE]

ReturnToNewest(t) ==
    [t EXCEPT !.viewport = [@ EXCEPT !.scroll_offset = 0, !.follow_output = TRUE],
              !.pane_dirty_all = TRUE]

PhysicalToDoc(t, row, col) == Pos(WindowStart(t) + row, col)

SelectionStart(t, pos) ==
    [t EXCEPT !.selection = {[anchor |-> pos, end |-> pos]}, !.pane_dirty_all = TRUE]

SelectionExtend(t, pos) ==
    IF t.selection = {} THEN t
    ELSE [t EXCEPT !.selection = {[s EXCEPT !.end = pos] : s \in @},
                   !.pane_dirty_all = TRUE]

(* selected_text: per document row, the characters between the corners. *)
SelectedText(t) ==
    LET text(s) ==
            LET a == SelStart(s)
                b == SelEnd(s)
                chars(r) ==
                    IF r >= DocRows(t) THEN <<>>
                    ELSE LET line == DocLine(t, r)
                             cols == {c \in DOMAIN line : /\ (r = a.row => c >= a.col)
                                                          /\ (r = b.row => c <= b.col)}
                         IN  [c \in cols |-> line[c].ch]
            IN  [r \in a.row..b.row |-> chars(r)]
    IN  {text(s) : s \in {x \in t.selection : x.anchor /= x.end}}

(* copy_selection: the selection is dropped only once the backend took it. *)
CopySelection(t, ok) ==
    IF SelectedText(t) = {} \/ ~ok THEN t
    ELSE [t EXCEPT !.selection = {}, !.pane_dirty_all = TRUE]

(* restart: shut the child down, a new grid and history, a new session.     *)
(* Modes, parser and queued responses are not part of it.                   *)
Restart(t, ok) ==
    LET fresh == [t EXCEPT !.exited = FALSE, !.session = ok,
                           !.grid = NewGrid(t.grid.cols, t.grid.row_count),
                           !.alt = FALSE, !.saved = {}, !.scrollback = <<>>,
                           !.viewport = DefaultViewport, !.selection = {},
                           !.attrs = DefaultAttrs]
    IN  IF ok THEN [fresh EXCEPT !.pane_dirty_all = TRUE,
                                 !.winsize = <<t.grid.cols, t.grid.row_count>>]
        ELSE fresh

-----------------------------------------------------------------------------
(* Output of the child.                                                     *)

Uses(op) == op \in workload.ops /\ budget > 0

Synced(t) == IF chunk = "none" THEN t.modes.flag["synchronized_output"] ELSE chunk = "synced"

(* One parser action; the chunk it belongs to goes on or ends with it. *)
Apply(op, t) ==
    /\ Uses(op)
    /\ budget' = budget - 1
    /\ \E last \in IF budget = 1 THEN {TRUE} ELSE BOOLEAN :
         /\ term' = IF last /\ ~Synced(term) THEN MarkDirtyFromGrid(t) ELSE t
         /\ chunk' = IF last THEN "none" ELSE IF Synced(term) THEN "synced" ELSE "plain"
    /\ UNCHANGED <<gesture, workload>>

Printing ==
    \/ \E ch \in Chars \ {NoChar} : Apply("print", ApplyPrint(term, ch))
    \/ \E n \in Params : Apply("repeat", ApplyRepeat(term, n))

Controls ==
    \/ Apply("backspace", OnGrid(term, Backspace(term.grid)))
    \/ Apply("tab", OnGrid(term, Tab(term.grid)))
    \/ Apply("linefeed", ApplyLineFeed(term))
    \/ Apply("return", OnGrid(term, CarriageReturn(term.grid)))
    \/ Apply("nextline", ApplyNextLine(term))
    \/ Apply("reverse", ApplyReverseIndex(term))
    \/ Apply("tabset", OnGrid(term, SetTabStop(term.grid)))
    \/ Apply("ignored", term)

Escapes ==
    \/ Apply("save", ApplySave(term))
    \/ Apply("restore", ApplyRestore(term))
    \/ \E on \in BOOLEAN :
         Apply("keypad", [term EXCEPT !.modes.flag["application_keypad"] = on])
    \/ Apply("reset", FullReset(term))
    \/ Apply("align", OnGrid(term, FillScreen(term.grid, CHOOSE ch \in Narrow : TRUE)))

(* A CSI parameter: absent or 0 is the default of 1. *)
CsiParams == {1} \cup Params

CsiCursor ==
    \/ \E n \in CsiParams, d \in {-1, 1} :
         \/ Apply("move", OnGrid(term, MoveCursor(term.grid, d * n, 0)))
         \/ Apply("move", OnGrid(term, MoveCursor(term.grid, 0, d * n)))
         \/ Apply("moveline", OnGrid(term, CarriageReturn(MoveCursor(term.grid, d * n, 0))))
    \/ \E n \in CsiParams :
         \/ Apply("column", OnGrid(term, SetCol(term.grid, n - 1)))
         \/ Apply("row", OnGrid(term, SetRow(term.grid, n - 1)))
    \/ \E n, m \in CsiParams : Apply("position", OnGrid(term, SetCursor(term.grid, n - 1, m - 1)))
    \/ \E n \in CsiParams :
         \/ Apply("tabs", OnGrid(term, Tabs(term.grid, n)))
         \/ Apply("backtabs", OnGrid(term, BackTabs(term.grid, n)))

CsiEdit ==
    \/ \E n \in CsiParams :
         \/ Apply("insertchars", OnGrid(term, InsertChars(term.grid, n)))
         \/ Apply("deletechars", OnGrid(term, DeleteChars(term.grid, n)))
         \/ Apply("erasechars", OnGrid(term, EraseChars(term.grid, n)))
         \/ Apply("insertlines", OnGrid(term, InsertLines(term.grid, n)))
         \/ Apply("deletelines", OnGrid(term, DeleteLines(term.grid, n)))
         \/ Apply("scrollup", ApplyScrollUp(term, n))
         \/ Apply("scrolldown", OnGrid(term, ScrollDownRegion(term.grid, n)))
    \/ \E mode \in 0..2 : Apply("eraseline", OnGrid(term, EraseInLine(term.grid, mode)))
    \/ \E mode \in 0..3 : Apply("erasedisplay", ApplyErase(term, mode))
    \/ Apply("cleartab", OnGrid(term, ClearTabStop(term.grid)))
    \/ Apply("cleartab", OnGrid(term, ClearAllTabStops(term.grid)))

(* DECSTBM: a missing bottom is parameter default 1, that is row 0. *)
CsiState ==
    \/ \E n, m \in CsiParams : Apply("region", OnGrid(term, SetScrollRegion(term.grid, n - 1, m - 1)))
    \/ \E on \in BOOLEAN : Apply("insert", SetAnsiMode(term, on))
    \/ \E mode \in PrivateModes, set \in BOOLEAN : Apply(mode, SetPrivateMode(term, mode, set))
    \/ \E shape \in CursorShapes : Apply("shape", SetCursorShape(term, shape))
    \/ \E v \in 0..2 : Apply("otherkeys", [term EXCEPT !.modes.modify_other_keys = v])
    \/ \E a \in Attrs : Apply("sgr", Sgr(term, a))
    \/ Apply("query", QueueResponse(term))

Output == Printing \/ Controls \/ Escapes \/ CsiCursor \/ CsiEdit \/ CsiState

-----------------------------------------------------------------------------
(* The host and the user, between chunks.                                   *)

NoGesture == [kind |-> "none", row |-> 0, cell |-> Pos(0, 0)]

Idle(op) ==
    /\ chunk = "none" /\ Uses(op)
    /\ budget' = budget - 1
    /\ UNCHANGED <<chunk, workload>>

(* main.rs paints when the pane is dirty. *)
Paint ==
    /\ chunk = "none" /\ IsDirty(term)
    /\ term' = Render(term)
    /\ UNCHANGED <<chunk, gesture, workload, budget>>

HostResize ==
    /\ Idle("resize")
    /\ \E size \in Sizes, fresh \in BOOLEAN :
         /\ size /= <<term.pane_cols, term.visible>> => fresh
         /\ term' = Resize(term, size[1], size[2], fresh)
    /\ UNCHANGED gesture

(* poll: the child is reaped; its answers are flushed. *)
PollSession ==
    \/ /\ Idle("exit") /\ term.session /\ ~term.exited
       /\ term' = [term EXCEPT !.exited = TRUE]
       /\ UNCHANGED gesture
    \/ /\ Idle("query") /\ term.session /\ term.response > 0
       /\ term' = [term EXCEPT !.response = 0]
       /\ UNCHANGED gesture

(* tick_blink *)
TickBlink ==
    /\ Idle("shape") /\ term.modes.shape = "BlinkingBlock"
    /\ term' = [term EXCEPT !.blink_phase = ~@, !.cursor_dirty = TRUE]
    /\ UNCHANGED gesture

PaneRows == 0..(term.visible - 1)

(* TerminalInput::press away from the overlay controls. *)
Press ==
    /\ Idle("gesture") /\ gesture.kind = "none"
    /\ \E row \in PaneRows, col \in 0..(term.grid.cols - 1) :
         gesture' = [kind |-> IF term.selection /= {} THEN "select" ELSE "pending",
                     row |-> row, cell |-> PhysicalToDoc(term, row, col)]
    /\ UNCHANGED term

(* scroll_by_delta: towards larger rows is towards the newest. *)
ScrollBy(t, delta) == IF delta > 0 THEN ScrollDown(t, delta) ELSE ScrollUp(t, Most(-delta, 1))

Move ==
    /\ Idle("gesture") /\ gesture.kind /= "none"
    /\ \E row \in PaneRows, col \in 0..(term.grid.cols - 1), long \in BOOLEAN :
         LET dy  == row - gesture.row
             pos == PhysicalToDoc(term, row, col)
         IN  \/ /\ gesture.kind = "pending"
                /\ Most(dy, -dy) > ScrollThreshold
                /\ term' = ScrollBy(term, dy)
                /\ gesture' = [gesture EXCEPT !.kind = "scroll", !.row = row]
             \/ /\ gesture.kind = "pending" /\ long
                /\ Most(dy, -dy) <= ScrollThreshold
                /\ term' = SelectionExtend(SelectionStart(term, gesture.cell), pos)
                /\ gesture' = [gesture EXCEPT !.kind = "select"]
             \/ /\ gesture.kind = "scroll" /\ dy /= 0
                /\ term' = ScrollBy(term, dy)
                /\ gesture' = [gesture EXCEPT !.row = row]
             \/ /\ gesture.kind = "select"
                /\ term' = SelectionExtend(term, pos)
                /\ UNCHANGED gesture

(* A clean tap selects the cell; a selecting drag ends with its last point. *)
Release ==
    /\ Idle("gesture") /\ gesture.kind /= "none"
    /\ \E row \in PaneRows, col \in 0..(term.grid.cols - 1) :
         term' = CASE gesture.kind = "pending" -> SelectionStart(term, PhysicalToDoc(term, row, col))
                   [] gesture.kind = "select"  -> SelectionExtend(term, PhysicalToDoc(term, row, col))
                   [] OTHER                    -> term
    /\ gesture' = NoGesture

(* Terminal::tap on a control of the last frame; paste is in TermSession. *)
TapControl ==
    /\ Idle("tap") /\ gesture.kind = "none"
    /\ \/ "newest" \in term.ui /\ term' = ReturnToNewest(term)
       \/ "copy" \in term.ui /\ \E ok \in BOOLEAN : term' = CopySelection(term, ok)
       \/ "restart" \in term.ui /\ \E ok \in BOOLEAN : term' = Restart(term, ok)
    /\ UNCHANGED gesture

Done == budget = 0 /\ chunk = "none" /\ UNCHANGED vars

InitTerm ==
    [grid |-> NewGrid(InitCols, InitRows), saved |-> {}, alt |-> FALSE,
     scrollback |-> <<>>, sb_cols |-> InitCols, viewport |-> DefaultViewport,
     selection |-> {}, attrs |-> DefaultAttrs, last_char |-> {},
     modes |-> DefaultModes, visible |-> InitRows, pane_cols |-> InitCols,
     pane_dirty |-> {}, pane_dirty_all |-> TRUE, cursor_dirty |-> TRUE,
     blink_phase |-> TRUE, response |-> 0, winsize |-> <<InitCols, InitRows>>,
     frame |-> FreshFrame(InitCols, InitRows), ui |-> {},
     session |-> TRUE, exited |-> FALSE]

(* The pane after the first resize and start_session. *)
Init ==
    /\ term = InitTerm
    /\ chunk = "none" /\ gesture = NoGesture
    /\ workload \in Workloads /\ budget = workload.length

User == Paint \/ HostResize \/ PollSession \/ TickBlink \/ Press \/ Move \/ Release \/ TapControl

Next == Output \/ User \/ Done

Spec == Init /\ [][Next]_vars

-----------------------------------------------------------------------------
(* Properties.                                                              *)

(* Type correctness, and the bounds every unchecked index of grid.rs and    *)
(* terminal.rs relies on: rows, cursor, region and tab stops fit the size   *)
(* of the grid they belong to, the saved main screen included, and the      *)
(* history never exceeds its capacity.                                      *)
TypeOK ==
    /\ GridOK(term.grid)
    /\ \A g \in term.saved : GridOK(g)
    /\ term.alt = (term.saved /= {})
    /\ Len(term.scrollback) <= MaxLines
    /\ \A i \in 1..Len(term.scrollback) : term.scrollback[i] \in Line(term.sb_cols)
    /\ term.attrs \in Attrs
    /\ term.viewport.scroll_offset <= term.viewport.max_offset

(* What the pane owes the user: a session runs, no chunk is being fed, no   *)
(* synchronized update is open and nothing is marked dirty, so nothing will *)
(* be painted until something else happens.                                 *)
Settled ==
    /\ chunk = "none" /\ term.session /\ ~IsDirty(term)
    /\ ~term.modes.flag["synchronized_output"]

(* Dirty tracking is sound: when the pane is settled, every cell that was   *)
(* painted since the frame was allocated shows what painting it now would   *)
(* give.  A change that no one marks (a scroll, an eviction from the        *)
(* history, a selection, another screen) would stay on screen.              *)
FrameShowsCells ==
    Settled => \A i \in 0..(LinesShown(term) - 1) : \A c \in CellsPainted(term, i) :
        \/ term.frame[i][c] = Unpainted
        \/ [term.frame[i][c] EXCEPT !.cursor = {}] = [PaintedCell(term, i, c) EXCEPT !.cursor = {}]

(* Looking back is never undone by output: while the user is scrolled up,   *)
(* whatever the child prints, scrolls, evicts, erases or pulls back from    *)
(* the history leaves the view above the newest line, unless it switches to *)
(* the alternate screen.                                                    *)
OutputNeverYanks ==
    [][term.viewport.scroll_offset > 0 /\ term'.viewport.scroll_offset = 0
        => (term'.alt /\ ~term.alt) \/ ~Output]_vars

(* The operations that may move a line into the history one at a time. *)
ScrollsIn ==
    \/ Apply("linefeed", ApplyLineFeed(term))
    \/ Apply("nextline", ApplyNextLine(term))
    \/ Apply("scrollup", ApplyScrollUp(term, 1))
    \/ \E ch \in Chars \ {NoChar} : Apply("print", ApplyPrint(term, ch))

(* The top line of a full-screen region went into a history of the same     *)
(* width and the ring evicted nothing.  A wide glyph pushed into the last   *)
(* column by ICH is left out: the history clears such a half.               *)
ScrolledIn ==
    /\ ScrollsIn
    /\ Len(term'.scrollback) = Len(term.scrollback) + 1
    /\ term.grid.scroll_top = 0 /\ term.grid.scroll_bottom = term.grid.row_count - 1
    /\ term.sb_cols = term.grid.cols
    /\ term.grid.rows[0][term.grid.cols - 1].part # "wide"

(* The lines of the history and of a full-screen region are one document:   *)
(* when a line feed, a wrap or SU 1 moves the top line into the history,    *)
(* the text under the selection stays as it was.                            *)
SelectionAnchored ==
    [][ScrolledIn /\ (\A s \in term.selection : SelEnd(s).row < DocRows(term))
        => SelectedText(term') = SelectedText(term)]_vars

(* The alternate screen is a detour: while it is up nothing the child or    *)
(* the user does changes the saved main screen, and leaving it brings back  *)
(* the lines, region and tab stops it had.  Only a restart discards both.   *)
MainScreenKept ==
    [][term.alt /\ (\A ok \in BOOLEAN : term' # Restart(term, ok)) =>
        LET main == CHOOSE g \in term.saved : TRUE
        IN  IF term'.alt THEN term'.saved = term.saved
            ELSE \A f \in {"rows", "scroll_top", "scroll_bottom", "tab_stops"} :
                    term'.grid[f] = main[f]]_vars
=============================================================================
