------------------------------ MODULE TermGrid ------------------------------
(* The live screen of the terminal: a rectangle of cells with a cursor, a   *)
(* scroll region, tab stops and a saved cursor.  Every editing operation of *)
(* crates/ferrokey-terminal/src/grid.rs is an operator from a grid to the   *)
(* grid it leaves; the lines an operation pushes out of the region are a    *)
(* second operator named ...Out.                                            *)
(*                                                                          *)
(* Loops of rows.insert / rows.remove are written as the shift they add up  *)
(* to.  A character is a model value: Narrow ones take one cell, Wide ones  *)
(* two, Marks none.                                                         *)
EXTENDS Integers, Sequences, FiniteSets

CONSTANTS
    Narrow,      \* characters one cell wide
    Wide,        \* characters two cells wide
    Marks,       \* zero-width characters: combining marks, joiners
    Attrs,       \* colour and attribute states (CellAttrs)
    DefaultAttrs,
    NoChar,      \* the '\0' of an empty cell
    MinCols, MaxCols, MinRows, MaxRows,
    TabWidth,    \* distance of the initial tab stops
    MaxCombining \* combining marks retained per cell

ASSUME SizeAssumption ==
    /\ MinCols \in Nat /\ MaxCols \in Nat /\ 2 <= MinCols /\ MinCols <= MaxCols
    /\ MinRows \in Nat /\ MaxRows \in Nat /\ 1 <= MinRows /\ MinRows <= MaxRows
    /\ TabWidth \in Nat \ {0}
    /\ MaxCombining \in Nat
    /\ DefaultAttrs \in Attrs
    /\ Narrow # {}   \* DECALN fills the screen with an E

Chars == Narrow \cup Wide \cup Marks \cup {NoChar}

(* WIDE marks the first cell of a wide glyph, WIDE_CONT the second. *)
Parts == {"single", "wide", "cont"}

Cell == [ch : Chars, attrs : Attrs, part : Parts, marks : 0..MaxCombining]

DefaultCell ==
    [ch |-> NoChar, attrs |-> DefaultAttrs, part |-> "single", marks |-> 0]

Line(cols) == [0..(cols - 1) -> Cell]

BlankLine(cols) == [c \in 0..(cols - 1) |-> DefaultCell]

Pos(row, col) == [row |-> row, col |-> col]

Least(a, b) == IF a <= b THEN a ELSE b

Most(a, b) == IF a <= b THEN b ELSE a

(* GridError::BadSize otherwise. *)
SizeAllowed(cols, rows) == cols \in MinCols..MaxCols /\ rows \in MinRows..MaxRows

InitialTabStops(cols) == {c \in 0..(cols - 1) : c % TabWidth = 0}

(* Grid::new *)
NewGrid(cols, rows) ==
    [cols |-> cols, row_count |-> rows,
     rows |-> [r \in 0..(rows - 1) |-> BlankLine(cols)],
     cursor |-> Pos(0, 0), saved_cursor |-> Pos(0, 0),
     saved_attrs |-> {},
     scroll_top |-> 0, scroll_bottom |-> rows - 1,
     tab_stops |-> InitialTabStops(cols),
     wrap_pending |-> FALSE, origin_mode |-> FALSE,
     dirty |-> 0..(rows - 1), dirty_all |-> TRUE]

-----------------------------------------------------------------------------
(* Cursor movement.  Every one of these drops the pending wrap.             *)

ClampCursor(g, row, col) ==
    Pos(Least(row, g.row_count - 1), Least(col, g.cols - 1))

MoveTo(g, pos) == [g EXCEPT !.cursor = pos, !.wrap_pending = FALSE]

(* CUP / HVP: under origin mode row 0 is the top of the scroll region. *)
SetCursor(g, row, col) ==
    LET r == IF g.origin_mode
               THEN Least(g.scroll_top + row, g.scroll_bottom)
               ELSE Least(row, g.row_count - 1)
    IN  MoveTo(g, ClampCursor(g, r, col))

SetOriginMode(g, on) ==
    MoveTo([g EXCEPT !.origin_mode = on],
           Pos(IF on THEN g.scroll_top ELSE 0, 0))

(* DECSTBM: an inverted region is ignored, but the cursor is homed anyway. *)
SetScrollRegion(g, top, bottom) ==
    LET t == Least(top, g.row_count - 1)
        b == Least(bottom, g.row_count - 1)
    IN  SetCursor(IF b >= t
                    THEN [g EXCEPT !.scroll_top = t, !.scroll_bottom = b]
                    ELSE g, 0, 0)

(* CUU, CUD, CUF, CUB *)
MoveCursor(g, drow, dcol) ==
    MoveTo(g, Pos(Least(Most(g.cursor.row + drow, 0), g.row_count - 1),
                  Least(Most(g.cursor.col + dcol, 0), g.cols - 1)))

SetCol(g, col) == MoveTo(g, Pos(g.cursor.row, Least(col, g.cols - 1)))

SetRow(g, row) == MoveTo(g, Pos(Least(row, g.row_count - 1), g.cursor.col))

CarriageReturn(g) == SetCol(g, 0)

Backspace(g) == SetCol(g, Most(g.cursor.col - 1, 0))

(* HT: the next stop to the right, else the last column. *)
Tab(g) ==
    LET next == {c \in g.tab_stops : c > g.cursor.col}
    IN  SetCol(g, IF next = {} THEN g.cols - 1
                  ELSE CHOOSE c \in next : \A d \in next : c <= d)

(* CBT: the previous stop, else column 0. *)
BackspaceToTab(g) ==
    LET prev == {c \in g.tab_stops : c < g.cursor.col}
    IN  SetCol(g, IF prev = {} THEN 0
                  ELSE CHOOSE c \in prev : \A d \in prev : d <= c)

SetTabStop(g) == [g EXCEPT !.tab_stops = @ \cup {g.cursor.col}]

ClearTabStop(g) == [g EXCEPT !.tab_stops = @ \ {g.cursor.col}]

ClearAllTabStops(g) == [g EXCEPT !.tab_stops = {}]

(* DECSC: the terminal stores its SGR state beside the saved cursor. *)
SaveCursor(g, attrs) ==
    [g EXCEPT !.saved_cursor = g.cursor, !.saved_attrs = {attrs}]

RestoreCursor(g) ==
    MoveTo(g, ClampCursor(g, g.saved_cursor.row, g.saved_cursor.col))

-----------------------------------------------------------------------------
(* Rows: shifting lines a..b by n, blanks filling the gap.                  *)

ShiftUp(g, a, b, n) ==
    [r \in DOMAIN g.rows |->
        IF r \notin a..b THEN g.rows[r]
        ELSE IF r + n <= b THEN g.rows[r + n] ELSE BlankLine(g.cols)]

ShiftDown(g, a, b, n) ==
    [r \in DOMAIN g.rows |->
        IF r \notin a..b THEN g.rows[r]
        ELSE IF r - n >= a THEN g.rows[r - n] ELSE BlankLine(g.cols)]

RegionRows(g) == g.scroll_bottom - g.scroll_top + 1

WithRows(g, rows) == [g EXCEPT !.rows = rows, !.dirty_all = TRUE]

ScrollUpRegion(g, n) ==
    WithRows(g, ShiftUp(g, g.scroll_top, g.scroll_bottom,
                        Least(n, RegionRows(g))))

(* The lines that left the top of the region, oldest first. *)
ScrollUpOut(g, n) ==
    [i \in 1..Least(n, RegionRows(g)) |-> g.rows[g.scroll_top + i - 1]]

ScrollDownRegion(g, n) ==
    WithRows(g, ShiftDown(g, g.scroll_top, g.scroll_bottom,
                          Least(n, RegionRows(g))))

(* A line cut or padded to a width; a wide glyph cut in half is cleared. *)
FitLine(line, cols) ==
    [c \in 0..(cols - 1) |->
        IF c \in DOMAIN line /\ ~(c = cols - 1 /\ line[c].part = "wide")
          THEN line[c] ELSE DefaultCell]

PushLineFromScrollback(g, line) ==
    LET down == ScrollDownRegion(g, 1)
    IN  [down EXCEPT !.rows[g.scroll_top] = FitLine(line, g.cols)]

AtRegionBottom(g) == g.cursor.row >= g.scroll_bottom

(* IND and LF: down one row, scrolling the region at (or below) its end. *)
Index(g) ==
    IF AtRegionBottom(g)
      THEN [ScrollUpRegion(g, 1) EXCEPT !.wrap_pending = FALSE]
      ELSE MoveTo(g, Pos(g.cursor.row + 1, g.cursor.col))

IndexOut(g) == IF AtRegionBottom(g) THEN ScrollUpOut(g, 1) ELSE <<>>

NextLine(g) == Index(CarriageReturn(g))

(* RI *)
ReverseIndex(g) ==
    IF g.cursor.row > g.scroll_top
      THEN MoveTo(g, Pos(g.cursor.row - 1, g.cursor.col))
      ELSE [ScrollDownRegion(g, 1) EXCEPT !.wrap_pending = FALSE]

(* IL at the cursor row.  Below the region the loop's remove(bottom + 1)    *)
(* takes a row above the inserted one, so the rows between move up.         *)
InsertLines(g, n) ==
    LET k == Least(n, RegionRows(g))
    IN  WithRows(g, IF g.cursor.row <= g.scroll_bottom
                      THEN ShiftDown(g, g.cursor.row, g.scroll_bottom, k)
                      ELSE ShiftUp(g, g.scroll_bottom + 1, g.cursor.row - 1, k))

(* DL at the cursor row.  Below the region the blank goes in at the bottom  *)
(* of the region and the rows from there to the cursor move down.           *)
DeleteLines(g, n) ==
    LET k == Least(n, RegionRows(g))
    IN  WithRows(g, IF g.cursor.row <= g.scroll_bottom
                      THEN ShiftUp(g, g.cursor.row, g.scroll_bottom, k)
                      ELSE ShiftDown(g, g.scroll_bottom, g.cursor.row, k))

-----------------------------------------------------------------------------
(* Cells of the cursor row.                                                 *)

WithLine(g, line) ==
    [g EXCEPT !.rows[g.cursor.row] = line, !.dirty = @ \cup {g.cursor.row}]

CursorLine(g) == g.rows[g.cursor.row]

(* ICH *)
InsertChars(g, n) ==
    LET k == Least(n, g.cols - g.cursor.col)
    IN  WithLine(g, [c \in 0..(g.cols - 1) |->
            IF c < g.cursor.col THEN CursorLine(g)[c]
            ELSE IF c < g.cursor.col + k THEN DefaultCell
            ELSE CursorLine(g)[c - k]])

(* DCH *)
DeleteChars(g, n) ==
    LET k == Least(n, g.cols - g.cursor.col)
    IN  WithLine(g, [c \in 0..(g.cols - 1) |->
            IF c < g.cursor.col THEN CursorLine(g)[c]
            ELSE IF c + k < g.cols THEN CursorLine(g)[c + k]
            ELSE DefaultCell])

BlankCells(line, cells) ==
    [c \in DOMAIN line |-> IF c \in cells THEN DefaultCell ELSE line[c]]

(* ECH *)
EraseChars(g, n) ==
    WithLine(g, BlankCells(CursorLine(g), g.cursor.col..(g.cursor.col + n - 1)))

(* EL: 0 right of the cursor, 1 left of it, 2 the whole line. *)
EraseInLine(g, mode) ==
    WithLine(g, BlankCells(CursorLine(g),
        CASE mode = 0 -> g.cursor.col..(g.cols - 1)
          [] mode = 1 -> 0..g.cursor.col
          [] OTHER    -> 0..(g.cols - 1)))

(* ED: 0 below the cursor, 1 above it, otherwise all. *)
EraseInDisplay(g, mode) ==
    LET gone(r) ==
            CASE mode = 0 -> r > g.cursor.row
              [] mode = 1 -> r < g.cursor.row
              [] OTHER    -> TRUE
        part == IF mode = 0 THEN g.cursor.col..(g.cols - 1) ELSE 0..g.cursor.col
    IN  WithRows(g, [r \in DOMAIN g.rows |->
            IF gone(r) THEN BlankLine(g.cols)
            ELSE IF r = g.cursor.row THEN BlankCells(g.rows[r], part)
            ELSE g.rows[r]])

(* DECALN *)
FillScreen(g, ch) ==
    SetCursor(WithRows(g, [r \in DOMAIN g.rows |->
        [c \in 0..(g.cols - 1) |-> [DefaultCell EXCEPT !.ch = ch]]]), 0, 0)

-----------------------------------------------------------------------------
(* Printing.                                                                *)

CharWidth(ch) == IF ch \in Wide THEN 2 ELSE IF ch \in Marks THEN 0 ELSE 1

(* A zero-width character joins the cell left of the cursor, if any. *)
PrintMark(g) ==
    LET c == g.cursor.col - 1
    IN  IF c < 0 THEN g
        ELSE IF CursorLine(g)[c].marks >= MaxCombining THEN g
        ELSE WithLine(g, [CursorLine(g) EXCEPT ![c].marks = @ + 1])

NeedsWrap(g, ch) ==
    g.wrap_pending \/ (CharWidth(ch) > 1 /\ g.cursor.col + CharWidth(ch) > g.cols)

Wrapped(g) == [Index(g) EXCEPT !.cursor.col = 0]

PlaceChar(g, ch, attrs) ==
    LET w     == CharWidth(ch)
        new   == [DefaultCell EXCEPT !.ch = ch, !.attrs = attrs,
                                     !.part = IF w = 2 THEN "wide" ELSE "single"]
        cont  == [DefaultCell EXCEPT !.part = "cont"]
        line  == [c \in 0..(g.cols - 1) |->
                    IF c = g.cursor.col THEN new
                    ELSE IF w = 2 /\ c = g.cursor.col + 1 THEN cont
                    ELSE CursorLine(g)[c]]
    IN  [WithLine(g, line) EXCEPT
            !.cursor.col = Least(@ + w, g.cols - 1),
            !.wrap_pending = g.cursor.col + w >= g.cols]

PutChar(g, ch, attrs) ==
    IF CharWidth(ch) = 0 THEN PrintMark(g)
    ELSE PlaceChar(IF NeedsWrap(g, ch) THEN Wrapped(g) ELSE g, ch, attrs)

PrintOut(g, ch) ==
    IF CharWidth(ch) > 0 /\ NeedsWrap(g, ch) THEN IndexOut(g) ELSE <<>>

-----------------------------------------------------------------------------
(* Grid::resize: bottom rows are dropped or added, lines are refitted, and  *)
(* cursors and region are clamped.  A region that ended at the old bottom   *)
(* keeps its end when the screen grows.                                     *)
ResizeGrid(g, cols, rows) ==
    LET bottom == Least(g.scroll_bottom, rows - 1)
        clamp(p) == Pos(Least(p.row, rows - 1), Least(p.col, cols - 1))
    IN  [g EXCEPT
            !.cols = cols, !.row_count = rows,
            !.rows = [r \in 0..(rows - 1) |->
                        IF r < g.row_count THEN FitLine(g.rows[r], cols)
                        ELSE BlankLine(cols)],
            !.cursor = clamp(g.cursor), !.saved_cursor = clamp(g.saved_cursor),
            !.scroll_bottom = bottom,
            !.scroll_top = IF g.scroll_top > bottom THEN 0 ELSE g.scroll_top,
            !.tab_stops = InitialTabStops(cols),
            !.dirty = 0..(rows - 1), !.dirty_all = TRUE, !.wrap_pending = FALSE]

CleanDirty(g) == [g EXCEPT !.dirty = {}, !.dirty_all = FALSE]

-----------------------------------------------------------------------------
(* What every operation relies on: an index the code uses unchecked is in   *)
(* range.                                                                   *)
CursorSet(cols, rows) == [row : 0..(rows - 1), col : 0..(cols - 1)]

GridSet(cols, rows) ==
    [cols : {cols}, row_count : {rows},
     rows : [0..(rows - 1) -> Line(cols)],
     cursor : CursorSet(cols, rows), saved_cursor : CursorSet(cols, rows),
     saved_attrs : SUBSET Attrs,
     scroll_top : 0..(rows - 1), scroll_bottom : 0..(rows - 1),
     tab_stops : SUBSET (0..(cols - 1)),
     wrap_pending : BOOLEAN, origin_mode : BOOLEAN,
     dirty : SUBSET (0..(rows - 1)), dirty_all : BOOLEAN]

GridOK(g) ==
    /\ SizeAllowed(g.cols, g.row_count)
    /\ g \in GridSet(g.cols, g.row_count)
    /\ g.scroll_top <= g.scroll_bottom

=============================================================================
