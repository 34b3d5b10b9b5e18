--------------------------- MODULE TerminalProofs ---------------------------
(* Proofs about the terminal facade: types and index bounds, the soundness  *)
(* of dirty tracking, the user's view under output, the main screen under   *)
(* the alternate one, and the text under a selection while lines scroll     *)
(* into the history.  They hold for every size of the grid and the history, *)
(* every set of characters and every workload.                              *)
(*                                                                          *)
(* The argument goes up the layers of the code.  An operation of the grid   *)
(* keeps it well formed and marks the rows it changes (Edited).  A parser   *)
(* action built from them leaves a terminal whose pane is right wherever    *)
(* nothing is marked (Fed, Emitted); taking the marks over to the pane and  *)
(* painting preserve that (MarkShown, RenderActed), and what the user does  *)
(* marks the whole pane (Acted).                                            *)
EXTENDS Terminal, Induction

\* What the dirty marks of a grid owe: a row that no mark names is as it was.
Tracks(g, h) ==
    /\ g.dirty_all => h.dirty_all
    /\ h.dirty_all \/ /\ g.dirty \subseteq h.dirty
                      /\ \A r \in 0..(g.row_count - 1) : r \in h.dirty \/ h.rows[r] = g.rows[r]

\* h is what an operation may make of grid g: well formed, of the same size,
\* and every row that changed is marked.
Edited(g, h) ==
    /\ GridOK(h) /\ h.cols = g.cols /\ h.row_count = g.row_count
    /\ Tracks(g, h)

-----------------------------------------------------------------------------
(* The grid: every operation keeps it well formed and marks what it changes. *)

\* The fields of a well-formed grid, one by one.
LEMMA GridSize ==
    ASSUME NEW g, GridOK(g)
    PROVE  /\ g.cols \in Nat /\ g.row_count \in Nat /\ g.cols >= 2 /\ g.row_count >= 1
           /\ g \in GridSet(g.cols, g.row_count)
           /\ g.scroll_top \in 0..(g.row_count - 1) /\ g.scroll_bottom \in 0..(g.row_count - 1)
           /\ g.scroll_top <= g.scroll_bottom
           /\ g.cursor \in CursorSet(g.cols, g.row_count)
           /\ g.cursor.row \in 0..(g.row_count - 1) /\ g.cursor.col \in 0..(g.cols - 1)
           /\ g.rows \in [0..(g.row_count - 1) -> Line(g.cols)]
           /\ g.tab_stops \in SUBSET (0..(g.cols - 1))
           /\ g.saved_cursor \in CursorSet(g.cols, g.row_count)
           /\ g.saved_attrs \in SUBSET Attrs
           /\ g.dirty \in SUBSET (0..(g.row_count - 1)) /\ g.dirty_all \in BOOLEAN
           /\ g.wrap_pending \in BOOLEAN /\ g.origin_mode \in BOOLEAN
<1>1. g \in GridSet(g.cols, g.row_count) /\ g.cols \in Nat /\ g.row_count \in Nat
      /\ g.cols >= 2 /\ g.row_count >= 1
  BY SizeAssumption DEF GridOK, SizeAllowed
<1>2. g.cursor \in CursorSet(g.cols, g.row_count)
  BY <1>1 DEF GridSet
<1>3. g.cursor.row \in 0..(g.row_count - 1) /\ g.cursor.col \in 0..(g.cols - 1)
  BY <1>2 DEF CursorSet
<1>. QED  BY <1>1, <1>2, <1>3 DEF GridSet, GridOK

\* The default cell and a line of them are a cell and a line.
LEMMA CellOK == DefaultCell \in Cell /\ \A n \in Nat : BlankLine(n) \in Line(n)
BY SizeAssumption DEF DefaultCell, Cell, Chars, Parts, BlankLine, Line

\* An operation may leave the grid alone.
LEMMA EditedRefl ==
    ASSUME NEW g, GridOK(g) PROVE Edited(g, g)
BY DEF Edited, Tracks

\* Two operations in a row are one.
LEMMA EditedTrans ==
    ASSUME NEW f, NEW g, NEW h, Edited(f, g), Edited(g, h) PROVE Edited(f, h)
BY DEF Edited, Tracks

\* Moving the cursor inside the grid edits nothing else.
LEMMA MoveToOK ==
    ASSUME NEW g, GridOK(g), NEW pos \in CursorSet(g.cols, g.row_count)
    PROVE  Edited(g, MoveTo(g, pos))
<1>1. g \in GridSet(g.cols, g.row_count)
  BY DEF GridOK
<1>2. MoveTo(g, pos) \in GridSet(g.cols, g.row_count)
  BY <1>1 DEF GridSet, MoveTo
<1>3. /\ MoveTo(g, pos).cols = g.cols /\ MoveTo(g, pos).row_count = g.row_count
      /\ MoveTo(g, pos).dirty_all = g.dirty_all /\ MoveTo(g, pos).dirty = g.dirty
      /\ MoveTo(g, pos).rows = g.rows
      /\ MoveTo(g, pos).scroll_top = g.scroll_top /\ MoveTo(g, pos).scroll_bottom = g.scroll_bottom
  BY <1>1 DEF GridSet, MoveTo
<1>. QED  BY <1>2, <1>3 DEF Edited, Tracks, GridOK

\* Replacing all the lines marks the whole grid.
LEMMA WithRowsOK ==
    ASSUME NEW g, GridOK(g), NEW rows \in [0..(g.row_count - 1) -> Line(g.cols)]
    PROVE  Edited(g, WithRows(g, rows))
<1>1. g \in GridSet(g.cols, g.row_count)
  BY DEF GridOK
<1>2. WithRows(g, rows) \in GridSet(g.cols, g.row_count)
  BY <1>1 DEF GridSet, WithRows
<1>3. /\ WithRows(g, rows).cols = g.cols /\ WithRows(g, rows).row_count = g.row_count
      /\ WithRows(g, rows).dirty_all = TRUE
      /\ WithRows(g, rows).scroll_top = g.scroll_top /\ WithRows(g, rows).scroll_bottom = g.scroll_bottom
  BY <1>1 DEF GridSet, WithRows
<1>. QED  BY <1>2, <1>3 DEF Edited, Tracks, GridOK

\* Replacing the cursor's line marks that line.
LEMMA WithLineOK ==
    ASSUME NEW g, GridOK(g), NEW line \in Line(g.cols)
    PROVE  Edited(g, WithLine(g, line))
<1>. DEFINE rows == [g.rows EXCEPT ![g.cursor.row] = line]
            dirty == g.dirty \cup {g.cursor.row}
            h == [g EXCEPT !.rows = rows, !.dirty = dirty]
<1>1. g \in GridSet(g.cols, g.row_count) /\ g.rows \in [0..(g.row_count - 1) -> Line(g.cols)]
      /\ g.cursor.row \in 0..(g.row_count - 1) /\ g.dirty \in SUBSET (0..(g.row_count - 1))
  BY GridSize
<1>2. rows \in [0..(g.row_count - 1) -> Line(g.cols)] /\ dirty \in SUBSET (0..(g.row_count - 1))
  BY <1>1
<1>3. \A r \in 0..(g.row_count - 1) : r \in dirty \/ rows[r] = g.rows[r]
  BY <1>1
<1>4. g.dirty \subseteq dirty
  OBVIOUS
<1>5. WithLine(g, line) = h
  BY <1>1 DEF WithLine, GridSet
<1>. HIDE DEF rows, dirty
<1>6. h \in GridSet(g.cols, g.row_count)
  BY <1>1, <1>2 DEF GridSet
<1>7. /\ h.cols = g.cols /\ h.row_count = g.row_count /\ h.rows = rows /\ h.dirty = dirty
      /\ h.dirty_all = g.dirty_all
      /\ h.scroll_top = g.scroll_top /\ h.scroll_bottom = g.scroll_bottom
  BY <1>1 DEF GridSet
<1>. HIDE DEF h
<1>. QED  BY <1>3, <1>4, <1>5, <1>6, <1>7 DEF Edited, Tracks, GridOK

\* CHA: any column is clamped into the grid.
LEMMA SetColOK ==
    ASSUME NEW g, GridOK(g), NEW col \in Nat
    PROVE  Edited(g, SetCol(g, col))
<1>1. Pos(g.cursor.row, Least(col, g.cols - 1)) \in CursorSet(g.cols, g.row_count)
  BY GridSize DEF Pos, Least, CursorSet
<1>. QED  BY <1>1, MoveToOK DEF SetCol

\* VPA: any row is clamped into the grid.
LEMMA SetRowOK ==
    ASSUME NEW g, GridOK(g), NEW row \in Nat
    PROVE  Edited(g, SetRow(g, row))
<1>1. Pos(Least(row, g.row_count - 1), g.cursor.col) \in CursorSet(g.cols, g.row_count)
  BY GridSize DEF Pos, Least, CursorSet
<1>. QED  BY <1>1, MoveToOK DEF SetRow

\* A clamped position is a position of the grid.
LEMMA ClampCursorOK ==
    ASSUME NEW g, GridOK(g), NEW row \in Nat, NEW col \in Nat
    PROVE  ClampCursor(g, row, col) \in CursorSet(g.cols, g.row_count)
BY GridSize DEF ClampCursor, Pos, Least, CursorSet

\* CUP: with or without origin mode the cursor stays in the grid.
LEMMA SetCursorOK ==
    ASSUME NEW g, GridOK(g), NEW row \in Nat, NEW col \in Nat
    PROVE  Edited(g, SetCursor(g, row, col))
<1>. DEFINE r == IF g.origin_mode THEN Least(g.scroll_top + row, g.scroll_bottom)
                 ELSE Least(row, g.row_count - 1)
<1>1. r \in Nat
  BY GridSize DEF Least
<1>. HIDE DEF r
<1>2. Edited(g, MoveTo(g, ClampCursor(g, r, col)))
  BY <1>1, ClampCursorOK, MoveToOK
<1>. QED  BY <1>2 DEF SetCursor, r

\* CUU, CUD, CUF and CUB by any amount stay in the grid.
LEMMA MoveCursorOK ==
    ASSUME NEW g, GridOK(g), NEW drow \in Int, NEW dcol \in Int
    PROVE  Edited(g, MoveCursor(g, drow, dcol))
<1>1. Pos(Least(Most(g.cursor.row + drow, 0), g.row_count - 1),
          Least(Most(g.cursor.col + dcol, 0), g.cols - 1)) \in CursorSet(g.cols, g.row_count)
  <2>1. /\ g.cols \in Nat /\ g.row_count \in Nat /\ g.cols >= 2 /\ g.row_count >= 1
        /\ g.cursor.row \in 0..(g.row_count - 1) /\ g.cursor.col \in 0..(g.cols - 1)
    BY GridSize
  <2>2. Least(Most(g.cursor.row + drow, 0), g.row_count - 1) \in 0..(g.row_count - 1)
    BY <2>1 DEF Least, Most
  <2>3. Least(Most(g.cursor.col + dcol, 0), g.cols - 1) \in 0..(g.cols - 1)
    BY <2>1 DEF Least, Most
  <2>. QED  BY <2>2, <2>3 DEF Pos, CursorSet
<1>. QED  BY <1>1, MoveToOK DEF MoveCursor

\* CR and BS.
LEMMA ReturnOK ==
    ASSUME NEW g, GridOK(g)
    PROVE  Edited(g, CarriageReturn(g)) /\ Edited(g, Backspace(g))
<1>1. Most(g.cursor.col - 1, 0) \in Nat
  BY GridSize DEF Most
<1>. QED  BY <1>1, SetColOK DEF CarriageReturn, Backspace

\* A non-empty bounded set of naturals has a greatest member, which the
\* CHOOSE of a backward tab needs.
LEMMA GreatestNat ==
    ASSUME NEW T \in SUBSET Nat, T # {}, NEW N \in Nat, \A x \in T : x <= N
    PROVE  \E x \in T : \A y \in T : y <= x
<1>. DEFINE S == {m \in Nat : N - m \in T}
<1>1. PICK z \in T : TRUE
  OBVIOUS
<1>2. N - z \in Nat /\ N - (N - z) = z
  BY <1>1
<1>3. S # {}
  BY <1>2
<1>4. PICK m \in S : \A k \in S : m <= k
  BY <1>3, LeastNat
<1>5. ASSUME NEW y \in T  PROVE  y <= N - m
  <2>1. N - y \in Nat /\ N - (N - y) = y
    OBVIOUS
  <2>2. m <= N - y
    BY <1>4, <2>1
  <2>. QED  BY <2>1, <2>2
<1>. QED  BY <1>5

\* A tab in either direction ends on a stop or at the edge of the line.
LEMMA TabOK ==
    ASSUME NEW g, GridOK(g)
    PROVE  Edited(g, Tab(g)) /\ Edited(g, BackspaceToTab(g))
<1>. DEFINE next == {c \in g.tab_stops : c > g.cursor.col}
            prev == {c \in g.tab_stops : c < g.cursor.col}
            n == IF next = {} THEN g.cols - 1 ELSE CHOOSE c \in next : \A d \in next : c <= d
            p == IF prev = {} THEN 0 ELSE CHOOSE c \in prev : \A d \in prev : d <= c
<1>1. /\ next \in SUBSET Nat /\ prev \in SUBSET (0..(g.cols - 1))
      /\ g.cols \in Nat /\ g.cols - 1 \in Nat
  BY GridSize
<1>2. n \in Nat
  <2>1. next # {} => \E c \in next : \A d \in next : c <= d
    <3>. HIDE DEF next
    <3>. QED  BY <1>1, LeastNat
  <2>. HIDE DEF next
  <2>. QED  BY <1>1, <2>1
<1>3. p \in Nat
  <2>1. ASSUME prev # {}  PROVE  \E c \in prev : \A d \in prev : d <= c
    <3>1. prev \in SUBSET Nat /\ \A x \in prev : x <= g.cols
      BY <1>1
    <3>. HIDE DEF prev
    <3>. QED  BY <1>1, <2>1, <3>1, GreatestNat
  <2>2. prev \in SUBSET Nat
    BY <1>1
  <2>. HIDE DEF prev
  <2>. QED  BY <2>1, <2>2
<1>4. Tab(g) = SetCol(g, n) /\ BackspaceToTab(g) = SetCol(g, p)
  BY DEF Tab, BackspaceToTab
<1>. HIDE DEF n, p
<1>. QED  BY <1>2, <1>3, <1>4, SetColOK

\* Any tab stops inside the line.
LEMMA TabStopsOK ==
    ASSUME NEW g, GridOK(g), NEW stops \in SUBSET (0..(g.cols - 1))
    PROVE  Edited(g, [g EXCEPT !.tab_stops = stops])
<1>. DEFINE h == [g EXCEPT !.tab_stops = stops]
<1>1. g \in GridSet(g.cols, g.row_count)
  BY DEF GridOK
<1>2. h \in GridSet(g.cols, g.row_count)
  BY <1>1 DEF GridSet
<1>3. /\ h.cols = g.cols /\ h.row_count = g.row_count
      /\ h.dirty_all = g.dirty_all /\ h.dirty = g.dirty /\ h.rows = g.rows
      /\ h.scroll_top = g.scroll_top /\ h.scroll_bottom = g.scroll_bottom
  BY <1>1 DEF GridSet
<1>. QED  BY <1>2, <1>3 DEF Edited, Tracks, GridOK

\* HTS and TBC.
LEMMA StopsOK ==
    ASSUME NEW g, GridOK(g)
    PROVE  /\ Edited(g, SetTabStop(g)) /\ Edited(g, ClearTabStop(g))
           /\ Edited(g, ClearAllTabStops(g))
<1>1. /\ g.tab_stops \cup {g.cursor.col} \in SUBSET (0..(g.cols - 1))
      /\ g.tab_stops \ {g.cursor.col} \in SUBSET (0..(g.cols - 1))
  BY GridSize
<1>2. {} \in SUBSET (0..(g.cols - 1))
  OBVIOUS
<1>. QED  BY <1>1, <1>2, TabStopsOK DEF SetTabStop, ClearTabStop, ClearAllTabStops

\* DECSC.
LEMMA SaveCursorOK ==
    ASSUME NEW g, GridOK(g), NEW attrs \in Attrs
    PROVE  Edited(g, SaveCursor(g, attrs))
<1>. DEFINE h == SaveCursor(g, attrs)
<1>1. g \in GridSet(g.cols, g.row_count) /\ g.cursor \in CursorSet(g.cols, g.row_count)
  BY GridSize
<1>2. h \in GridSet(g.cols, g.row_count)
  BY <1>1 DEF GridSet, SaveCursor
<1>3. /\ h.cols = g.cols /\ h.row_count = g.row_count
      /\ h.dirty_all = g.dirty_all /\ h.dirty = g.dirty /\ h.rows = g.rows
      /\ h.scroll_top = g.scroll_top /\ h.scroll_bottom = g.scroll_bottom
  BY <1>1 DEF GridSet, SaveCursor
<1>. QED  BY <1>2, <1>3 DEF Edited, Tracks, GridOK

\* DECRC: the saved cursor is clamped to the present size.
LEMMA RestoreCursorOK ==
    ASSUME NEW g, GridOK(g)
    PROVE  Edited(g, RestoreCursor(g))
<1>1. g.saved_cursor.row \in Nat /\ g.saved_cursor.col \in Nat
  <2>1. g.saved_cursor \in CursorSet(g.cols, g.row_count) /\ g.cols \in Nat /\ g.row_count \in Nat
    BY GridSize
  <2>. QED  BY <2>1 DEF CursorSet
<1>. QED  BY <1>1, ClampCursorOK, MoveToOK DEF RestoreCursor

\* DECOM.
LEMMA OriginOK ==
    ASSUME NEW g, GridOK(g), NEW on \in BOOLEAN
    PROVE  Edited(g, SetOriginMode(g, on))
<1>. DEFINE h == [g EXCEPT !.origin_mode = on]
            pos == Pos(IF on THEN g.scroll_top ELSE 0, 0)
<1>1. g \in GridSet(g.cols, g.row_count)
  BY DEF GridOK
<1>2. h \in GridSet(g.cols, g.row_count)
  BY <1>1 DEF GridSet
<1>3. /\ h.cols = g.cols /\ h.row_count = g.row_count
      /\ h.dirty_all = g.dirty_all /\ h.dirty = g.dirty /\ h.rows = g.rows
      /\ h.scroll_top = g.scroll_top /\ h.scroll_bottom = g.scroll_bottom
  BY <1>1 DEF GridSet
<1>4. Edited(g, h) /\ GridOK(h)
  BY <1>2, <1>3 DEF Edited, Tracks, GridOK
<1>5. pos \in CursorSet(g.cols, g.row_count)
  BY GridSize DEF Pos, CursorSet
<1>. HIDE DEF h, pos
<1>6. Edited(h, MoveTo(h, pos))
  BY <1>3, <1>4, <1>5, MoveToOK
<1>7. Edited(g, MoveTo(h, pos))
  BY <1>4, <1>6, EditedTrans
<1>. QED  BY <1>7 DEF SetOriginMode, h, pos

\* DECSTBM: a region that is accepted lies in the grid and is not inverted.
LEMMA RegionOK ==
    ASSUME NEW g, GridOK(g), NEW top \in Nat, NEW bottom \in Nat
    PROVE  Edited(g, SetScrollRegion(g, top, bottom))
<1>. DEFINE t == Least(top, g.row_count - 1)
            b == Least(bottom, g.row_count - 1)
            h == [g EXCEPT !.scroll_top = t, !.scroll_bottom = b]
            k == IF b >= t THEN h ELSE g
<1>1. g \in GridSet(g.cols, g.row_count)
  BY DEF GridOK
<1>2. t \in 0..(g.row_count - 1) /\ b \in 0..(g.row_count - 1)
  BY GridSize DEF Least
<1>. HIDE DEF t, b
<1>3. h \in GridSet(g.cols, g.row_count)
  BY <1>1, <1>2 DEF GridSet
<1>4. /\ h.cols = g.cols /\ h.row_count = g.row_count
      /\ h.dirty_all = g.dirty_all /\ h.dirty = g.dirty /\ h.rows = g.rows
      /\ h.scroll_top = t /\ h.scroll_bottom = b
  BY <1>1 DEF GridSet
<1>. HIDE DEF h
<1>5. b >= t => Edited(g, h)
  BY <1>2, <1>3, <1>4 DEF Edited, Tracks, GridOK
<1>6. Edited(g, k) /\ GridOK(k)
  BY <1>5, EditedRefl DEF Edited
<1>. HIDE DEF k
<1>7. Edited(g, SetCursor(k, 0, 0))
  BY <1>6, SetCursorOK, EditedTrans
<1>. QED  BY <1>7 DEF SetScrollRegion, k, h, t, b

\* Shifting lines inside the grid gives lines of the same width.
LEMMA ShiftOK ==
    ASSUME NEW g, GridOK(g), NEW a \in Int, NEW b \in Int, NEW n \in Nat,
           a >= 0, b <= g.row_count - 1
    PROVE  /\ ShiftUp(g, a, b, n) \in [0..(g.row_count - 1) -> Line(g.cols)]
           /\ ShiftDown(g, a, b, n) \in [0..(g.row_count - 1) -> Line(g.cols)]
<1>1. /\ g.rows \in [0..(g.row_count - 1) -> Line(g.cols)] /\ BlankLine(g.cols) \in Line(g.cols)
      /\ DOMAIN g.rows = 0..(g.row_count - 1) /\ g.row_count \in Nat
  BY GridSize, CellOK
<1>2. ASSUME NEW r \in 0..(g.row_count - 1)
      PROVE  /\ ShiftUp(g, a, b, n)[r] \in Line(g.cols)
             /\ ShiftDown(g, a, b, n)[r] \in Line(g.cols)
  <2>1. /\ r \in a..b /\ r + n <= b => r + n \in 0..(g.row_count - 1)
        /\ r \in a..b /\ r - n >= a => r - n \in 0..(g.row_count - 1)
    BY <1>1
  <2>. QED  BY <1>1, <2>1 DEF ShiftUp, ShiftDown
<1>. QED  BY <1>1, <1>2 DEF ShiftUp, ShiftDown

\* The scroll region has at least a row.
LEMMA RegionShape ==
    ASSUME NEW g, GridOK(g), NEW n \in Nat
    PROVE  RegionRows(g) \in Nat /\ RegionRows(g) >= 1 /\ Least(n, RegionRows(g)) \in Nat
BY GridSize DEF RegionRows, Least

\* SU and SD mark the whole grid.
LEMMA ScrollOK ==
    ASSUME NEW g, GridOK(g), NEW n \in Nat
    PROVE  /\ Edited(g, ScrollUpRegion(g, n)) /\ Edited(g, ScrollDownRegion(g, n))
           /\ ScrollUpRegion(g, n).dirty_all /\ ScrollDownRegion(g, n).dirty_all
<1>. DEFINE k == Least(n, RegionRows(g))
<1>1. k \in Nat
  BY RegionShape
<1>2. /\ g.scroll_top \in Int /\ g.scroll_bottom \in Int /\ g.scroll_top >= 0
      /\ g.scroll_bottom <= g.row_count - 1 /\ g \in GridSet(g.cols, g.row_count)
  BY GridSize
<1>. HIDE DEF k
<1>3. /\ ShiftUp(g, g.scroll_top, g.scroll_bottom, k) \in [0..(g.row_count - 1) -> Line(g.cols)]
      /\ ShiftDown(g, g.scroll_top, g.scroll_bottom, k) \in [0..(g.row_count - 1) -> Line(g.cols)]
  BY <1>1, <1>2, ShiftOK
<1>4. \A rows : WithRows(g, rows).dirty_all
  BY <1>2 DEF WithRows, GridSet
<1>. QED  BY <1>3, <1>4, WithRowsOK DEF ScrollUpRegion, ScrollDownRegion, k

\* A line of any width refitted to another.
LEMMA FitLineOK ==
    ASSUME NEW m \in Nat, NEW line \in Line(m), NEW cols \in Nat
    PROVE  FitLine(line, cols) \in Line(cols)
BY CellOK DEF FitLine, Line

\* A line coming back from the history.
LEMMA PushBackOK ==
    ASSUME NEW g, GridOK(g), NEW m \in Nat, NEW line \in Line(m)
    PROVE  /\ Edited(g, PushLineFromScrollback(g, line))
           /\ PushLineFromScrollback(g, line).dirty_all
<1>. DEFINE d == ScrollDownRegion(g, 1)
            fit == FitLine(line, g.cols)
            rows == [d.rows EXCEPT ![g.scroll_top] = fit]
            h == [d EXCEPT !.rows = rows]
<1>1. Edited(g, d) /\ d.dirty_all /\ GridOK(d) /\ d.cols = g.cols /\ d.row_count = g.row_count
  BY ScrollOK DEF Edited
<1>2. fit \in Line(d.cols)
  BY <1>1, GridSize, FitLineOK
<1>. HIDE DEF d, fit
<1>3. /\ d \in GridSet(d.cols, d.row_count) /\ d.rows \in [0..(d.row_count - 1) -> Line(d.cols)]
      /\ g.scroll_top \in 0..(d.row_count - 1)
  BY <1>1, GridSize
<1>4. rows \in [0..(d.row_count - 1) -> Line(d.cols)]
  BY <1>2, <1>3
<1>. HIDE DEF rows
<1>5. h \in GridSet(d.cols, d.row_count)
  BY <1>3, <1>4 DEF GridSet
<1>6. /\ h.cols = d.cols /\ h.row_count = d.row_count /\ h.dirty_all = d.dirty_all
      /\ h.scroll_top = d.scroll_top /\ h.scroll_bottom = d.scroll_bottom
  BY <1>3 DEF GridSet
<1>7. PushLineFromScrollback(g, line) = h
  BY <1>3 DEF PushLineFromScrollback, GridSet, d, rows, fit
<1>. HIDE DEF h
<1>. QED  BY <1>1, <1>5, <1>6, <1>7 DEF Edited, Tracks, GridOK

\* The pending wrap is the cursor's own flag.
LEMMA WrapOK ==
    ASSUME NEW g, GridOK(g), NEW w \in BOOLEAN
    PROVE  /\ Edited(g, [g EXCEPT !.wrap_pending = w])
           /\ [g EXCEPT !.wrap_pending = w].dirty_all = g.dirty_all
           /\ [g EXCEPT !.wrap_pending = w].cursor = g.cursor
           /\ [g EXCEPT !.wrap_pending = w].rows = g.rows
<1>. DEFINE h == [g EXCEPT !.wrap_pending = w]
<1>1. g \in GridSet(g.cols, g.row_count)
  BY DEF GridOK
<1>2. h \in GridSet(g.cols, g.row_count)
  BY <1>1 DEF GridSet
<1>3. /\ h.cols = g.cols /\ h.row_count = g.row_count
      /\ h.dirty_all = g.dirty_all /\ h.dirty = g.dirty /\ h.rows = g.rows /\ h.cursor = g.cursor
      /\ h.scroll_top = g.scroll_top /\ h.scroll_bottom = g.scroll_bottom
  BY <1>1 DEF GridSet
<1>. QED  BY <1>2, <1>3 DEF Edited, Tracks, GridOK

\* IND and RI; IND at the end of the region marks the whole grid.
LEMMA IndexOK ==
    ASSUME NEW g, GridOK(g)
    PROVE  /\ Edited(g, Index(g))
           /\ AtRegionBottom(g) => Index(g).dirty_all
           /\ Edited(g, ReverseIndex(g))
<1>. DEFINE up == ScrollUpRegion(g, 1)
            dn == ScrollDownRegion(g, 1)
<1>0. Edited(g, up) /\ up.dirty_all /\ GridOK(up) /\ Edited(g, dn) /\ GridOK(dn)
  BY ScrollOK DEF Edited
<1>. HIDE DEF up, dn
<1>a. /\ Edited(g, [up EXCEPT !.wrap_pending = FALSE])
      /\ [up EXCEPT !.wrap_pending = FALSE].dirty_all
      /\ Edited(g, [dn EXCEPT !.wrap_pending = FALSE])
  BY <1>0, WrapOK, EditedTrans
<1>1. ASSUME AtRegionBottom(g)  PROVE  Edited(g, Index(g)) /\ Index(g).dirty_all
  <2>1. Index(g) = [up EXCEPT !.wrap_pending = FALSE]
    BY <1>1 DEF Index, up
  <2>. QED  BY <1>a, <2>1
<1>2. ASSUME ~AtRegionBottom(g)  PROVE  Edited(g, Index(g))
  <2>1. Pos(g.cursor.row + 1, g.cursor.col) \in CursorSet(g.cols, g.row_count)
    BY <1>2, GridSize DEF AtRegionBottom, Pos, CursorSet
  <2>. QED  BY <1>2, <2>1, MoveToOK DEF Index
<1>3. ASSUME g.cursor.row > g.scroll_top  PROVE  Edited(g, ReverseIndex(g))
  <2>1. Pos(g.cursor.row - 1, g.cursor.col) \in CursorSet(g.cols, g.row_count)
    BY <1>3, GridSize DEF Pos, CursorSet
  <2>. QED  BY <1>3, <2>1, MoveToOK DEF ReverseIndex
<1>4. ASSUME ~(g.cursor.row > g.scroll_top)  PROVE  Edited(g, ReverseIndex(g))
  BY <1>a, <1>4 DEF ReverseIndex, dn
<1>. QED  BY <1>1, <1>2, <1>3, <1>4

\* NEL.
LEMMA NextLineOK ==
    ASSUME NEW g, GridOK(g)
    PROVE  /\ Edited(g, NextLine(g))
           /\ AtRegionBottom(CarriageReturn(g)) => NextLine(g).dirty_all
<1>1. Edited(g, CarriageReturn(g)) /\ GridOK(CarriageReturn(g))
  BY ReturnOK DEF Edited
<1>. QED  BY <1>1, IndexOK, EditedTrans DEF NextLine

\* IL and DL, also with the cursor below the region.
LEMMA LinesOK ==
    ASSUME NEW g, GridOK(g), NEW n \in Nat
    PROVE  Edited(g, InsertLines(g, n)) /\ Edited(g, DeleteLines(g, n))
<1>. DEFINE k == Least(n, RegionRows(g))
<1>1. k \in Nat
  BY RegionShape
<1>2. /\ g.scroll_bottom \in 0..(g.row_count - 1) /\ g.cursor.row \in 0..(g.row_count - 1)
      /\ g.row_count \in Nat
  BY GridSize
<1>. HIDE DEF k
<1>3. /\ ShiftDown(g, g.cursor.row, g.scroll_bottom, k) \in [0..(g.row_count - 1) -> Line(g.cols)]
      /\ ShiftUp(g, g.scroll_bottom + 1, g.cursor.row - 1, k)
            \in [0..(g.row_count - 1) -> Line(g.cols)]
      /\ ShiftUp(g, g.cursor.row, g.scroll_bottom, k) \in [0..(g.row_count - 1) -> Line(g.cols)]
      /\ ShiftDown(g, g.scroll_bottom, g.cursor.row, k) \in [0..(g.row_count - 1) -> Line(g.cols)]
  BY <1>1, <1>2, ShiftOK
<1>. QED  BY <1>3, WithRowsOK DEF InsertLines, DeleteLines, k

\* The line under the cursor exists.
LEMMA CursorLineOK ==
    ASSUME NEW g, GridOK(g)
    PROVE  CursorLine(g) \in Line(g.cols)
BY GridSize DEF CursorLine

\* ICH, DCH and ECH.
LEMMA CharsOK ==
    ASSUME NEW g, GridOK(g), NEW n \in Nat
    PROVE  /\ Edited(g, InsertChars(g, n)) /\ Edited(g, DeleteChars(g, n))
           /\ Edited(g, EraseChars(g, n))
<1>. DEFINE k == Least(n, g.cols - g.cursor.col)
            line == CursorLine(g)
            ins == [c \in 0..(g.cols - 1) |->
                      IF c < g.cursor.col THEN line[c]
                      ELSE IF c < g.cursor.col + k THEN DefaultCell ELSE line[c - k]]
            del == [c \in 0..(g.cols - 1) |->
                      IF c < g.cursor.col THEN line[c]
                      ELSE IF c + k < g.cols THEN line[c + k] ELSE DefaultCell]
            era == BlankCells(line, g.cursor.col..(g.cursor.col + n - 1))
<1>1. /\ g.cols \in Nat /\ g.cursor.col \in 0..(g.cols - 1) /\ k \in Nat
  BY GridSize DEF Least
<1>2. line \in [0..(g.cols - 1) -> Cell] /\ DefaultCell \in Cell
  BY CursorLineOK, CellOK DEF Line
<1>3. InsertChars(g, n) = WithLine(g, ins) /\ DeleteChars(g, n) = WithLine(g, del)
      /\ EraseChars(g, n) = WithLine(g, era)
  BY DEF InsertChars, DeleteChars, EraseChars
<1>. HIDE DEF k, line
<1>4. ins \in [0..(g.cols - 1) -> Cell]
  <2>. SUFFICES ASSUME NEW c \in 0..(g.cols - 1)  PROVE ins[c] \in Cell
    OBVIOUS
  <2>1. ~(c < g.cursor.col) /\ ~(c < g.cursor.col + k) => c - k \in 0..(g.cols - 1)
    BY <1>1
  <2>. QED  BY <1>2, <2>1
<1>5. del \in [0..(g.cols - 1) -> Cell]
  <2>. SUFFICES ASSUME NEW c \in 0..(g.cols - 1)  PROVE del[c] \in Cell
    OBVIOUS
  <2>1. c + k < g.cols => c + k \in 0..(g.cols - 1)
    BY <1>1
  <2>. QED  BY <1>2, <2>1
<1>6. era \in [0..(g.cols - 1) -> Cell]
  BY <1>2 DEF BlankCells
<1>. HIDE DEF ins, del, era
<1>. QED  BY <1>3, <1>4, <1>5, <1>6, WithLineOK DEF Line

\* A line with some of its cells cleared.
LEMMA BlankCellsOK ==
    ASSUME NEW cols, NEW line \in Line(cols), NEW cells
    PROVE  BlankCells(line, cells) \in Line(cols)
BY CellOK DEF BlankCells, Line

\* EL and ED in every mode.
LEMMA EraseOK ==
    ASSUME NEW g, GridOK(g), NEW mode \in 0..3
    PROVE  /\ Edited(g, EraseInLine(g, mode))
           /\ Edited(g, EraseInDisplay(g, mode)) /\ EraseInDisplay(g, mode).dirty_all
<1>1. Edited(g, EraseInLine(g, mode))
  BY CursorLineOK, BlankCellsOK, WithLineOK DEF EraseInLine
<1>. DEFINE gone(r) == CASE mode = 0 -> r > g.cursor.row
                         [] mode = 1 -> r < g.cursor.row
                         [] OTHER    -> TRUE
            part == IF mode = 0 THEN g.cursor.col..(g.cols - 1) ELSE 0..g.cursor.col
            rows == [r \in DOMAIN g.rows |->
                IF gone(r) THEN BlankLine(g.cols)
                ELSE IF r = g.cursor.row THEN BlankCells(g.rows[r], part)
                ELSE g.rows[r]]
<1>2. EraseInDisplay(g, mode) = WithRows(g, rows)
  BY DEF EraseInDisplay
<1>3. g.rows \in [0..(g.row_count - 1) -> Line(g.cols)] /\ BlankLine(g.cols) \in Line(g.cols)
      /\ DOMAIN g.rows = 0..(g.row_count - 1) /\ g \in GridSet(g.cols, g.row_count)
  BY GridSize, CellOK
<1>. HIDE DEF gone, part
<1>4. rows \in [0..(g.row_count - 1) -> Line(g.cols)]
  BY <1>3, BlankCellsOK
<1>. HIDE DEF rows
<1>5. WithRows(g, rows).dirty_all
  BY <1>3 DEF WithRows, GridSet
<1>. QED  BY <1>1, <1>2, <1>4, <1>5, WithRowsOK

\* DECALN.
LEMMA FillOK ==
    ASSUME NEW g, GridOK(g), NEW ch \in Chars
    PROVE  Edited(g, FillScreen(g, ch))
<1>. DEFINE cell == [DefaultCell EXCEPT !.ch = ch]
            rows == [r \in DOMAIN g.rows |-> [c \in 0..(g.cols - 1) |-> cell]]
<1>1. cell \in Cell
  BY SizeAssumption DEF Cell, DefaultCell, Parts
<1>2. DOMAIN g.rows = 0..(g.row_count - 1)
  BY GridSize
<1>. HIDE DEF cell
<1>3. rows \in [0..(g.row_count - 1) -> Line(g.cols)]
  BY <1>1, <1>2 DEF Line
<1>4. FillScreen(g, ch) = SetCursor(WithRows(g, rows), 0, 0)
  BY DEF FillScreen, cell
<1>. HIDE DEF rows
<1>5. Edited(g, WithRows(g, rows)) /\ GridOK(WithRows(g, rows))
  BY <1>3, WithRowsOK DEF Edited
<1>. QED  BY <1>4, <1>5, SetCursorOK, EditedTrans

\* A combining mark joins a cell of the cursor's line.
LEMMA PrintMarkOK ==
    ASSUME NEW g, GridOK(g)
    PROVE  Edited(g, PrintMark(g))
<1>. DEFINE c == g.cursor.col - 1
            line == [CursorLine(g) EXCEPT ![c].marks = @ + 1]
<1>1. ASSUME ~(c < 0), ~(CursorLine(g)[c].marks >= MaxCombining)  PROVE line \in Line(g.cols)
  <2>1. CursorLine(g) \in [0..(g.cols - 1) -> Cell] /\ c \in 0..(g.cols - 1)
    BY <1>1, CursorLineOK, GridSize DEF Line
  <2>. DEFINE e == CursorLine(g)[c]
  <2>2. e \in Cell
    BY <2>1
  <2>3. e.marks + 1 \in 0..MaxCombining
    BY <1>1, <2>2, SizeAssumption DEF Cell
  <2>4. [e EXCEPT !.marks = @ + 1] \in Cell
    BY <2>2, <2>3 DEF Cell
  <2>. QED  BY <2>1, <2>4 DEF Line
<1>2. PrintMark(g) = IF c < 0 THEN g ELSE IF CursorLine(g)[c].marks >= MaxCombining THEN g
                     ELSE WithLine(g, line)
  BY DEF PrintMark
<1>. HIDE DEF line
<1>. QED  BY <1>1, <1>2, WithLineOK, EditedRefl

\* The column of the cursor and the pending wrap, as printing sets them.
LEMMA CursorColOK ==
    ASSUME NEW g, GridOK(g), NEW col \in 0..(g.cols - 1), NEW w \in BOOLEAN
    PROVE  /\ Edited(g, [g EXCEPT !.cursor.col = col, !.wrap_pending = w])
           /\ Edited(g, [g EXCEPT !.cursor.col = col])
           /\ [g EXCEPT !.cursor.col = col].dirty_all = g.dirty_all
           /\ [g EXCEPT !.cursor.col = col].cursor = [row |-> g.cursor.row, col |-> col]
           /\ [g EXCEPT !.cursor.col = col].rows = g.rows
           /\ [g EXCEPT !.cursor.col = col, !.wrap_pending = w].dirty_all = g.dirty_all
           /\ [g EXCEPT !.cursor.col = col, !.wrap_pending = w].rows = g.rows
<1>. DEFINE pos == [row |-> g.cursor.row, col |-> col]
            h == [g EXCEPT !.cursor = pos, !.wrap_pending = w]
            k == [g EXCEPT !.cursor = pos]
<1>1. g \in GridSet(g.cols, g.row_count) /\ g.cursor \in CursorSet(g.cols, g.row_count)
      /\ g.cursor.row \in 0..(g.row_count - 1)
  BY GridSize
<1>2. pos \in CursorSet(g.cols, g.row_count) /\ [g.cursor EXCEPT !.col = col] = pos
  BY <1>1 DEF CursorSet
<1>3. /\ [g EXCEPT !.cursor.col = col, !.wrap_pending = w] = h
      /\ [g EXCEPT !.cursor.col = col] = k
  BY <1>1, <1>2 DEF GridSet
<1>. HIDE DEF pos
<1>4. h \in GridSet(g.cols, g.row_count) /\ k \in GridSet(g.cols, g.row_count)
  BY <1>1, <1>2 DEF GridSet
<1>5. /\ h.cols = g.cols /\ h.row_count = g.row_count
      /\ h.dirty_all = g.dirty_all /\ h.dirty = g.dirty /\ h.rows = g.rows
      /\ h.scroll_top = g.scroll_top /\ h.scroll_bottom = g.scroll_bottom
  BY <1>1 DEF GridSet
<1>6. /\ k.cols = g.cols /\ k.row_count = g.row_count /\ k.cursor = pos
      /\ k.dirty_all = g.dirty_all /\ k.dirty = g.dirty /\ k.rows = g.rows
      /\ k.scroll_top = g.scroll_top /\ k.scroll_bottom = g.scroll_bottom
  BY <1>1 DEF GridSet
<1>. HIDE DEF h, k
<1>. QED  BY <1>3, <1>4, <1>5, <1>6 DEF Edited, Tracks, GridOK, pos

\* What replacing the cursor's line leaves alone.
LEMMA WithLineFields ==
    ASSUME NEW g, GridOK(g), NEW line
    PROVE  /\ WithLine(g, line).cursor = g.cursor
           /\ WithLine(g, line).dirty_all = g.dirty_all
           /\ WithLine(g, line).rows = [g.rows EXCEPT ![g.cursor.row] = line]
<1>1. g \in GridSet(g.cols, g.row_count)
  BY DEF GridOK
<1>. QED  BY <1>1 DEF WithLine, GridSet

\* Placing a glyph, narrow or wide, changes the cursor's line only.
LEMMA PlaceCharOK ==
    ASSUME NEW g, GridOK(g), NEW ch \in Chars, NEW attrs \in Attrs
    PROVE  /\ Edited(g, PlaceChar(g, ch, attrs))
           /\ PlaceChar(g, ch, attrs).dirty_all = g.dirty_all
           /\ \A r \in 0..(g.row_count - 1) :
                 r # g.cursor.row => PlaceChar(g, ch, attrs).rows[r] = g.rows[r]
<1>. DEFINE w     == CharWidth(ch)
            new   == [DefaultCell EXCEPT !.ch = ch, !.attrs = attrs,
                                         !.part = IF w = 2 THEN "wide" ELSE "single"]
            cont  == [DefaultCell EXCEPT !.part = "cont"]
            line  == [c \in 0..(g.cols - 1) |->
                        IF c = g.cursor.col THEN new
                        ELSE IF w = 2 /\ c = g.cursor.col + 1 THEN cont
                        ELSE CursorLine(g)[c]]
            h == WithLine(g, line)
            col == Least(g.cursor.col + w, g.cols - 1)
            wrap == g.cursor.col + w >= g.cols
<1>1. w \in 0..2
  BY DEF CharWidth
<1>2. g.cols \in Nat /\ g.cursor.col \in 0..(g.cols - 1) /\ g.cursor.row \in 0..(g.row_count - 1)
      /\ g.rows \in [0..(g.row_count - 1) -> Line(g.cols)] /\ g.row_count \in Nat
  BY GridSize
<1>3. new \in Cell /\ cont \in Cell
  <2>. DEFINE p == IF w = 2 THEN "wide" ELSE "single"
  <2>1. p \in Parts /\ "cont" \in Parts
    BY DEF Parts
  <2>4. new = [DefaultCell EXCEPT !.ch = ch, !.attrs = attrs, !.part = p]
    OBVIOUS
  <2>. HIDE DEF p, new
  <2>2. /\ new = [ch |-> ch, attrs |-> attrs, part |-> p, marks |-> 0]
    BY <2>4 DEF DefaultCell
  <2>5. cont = [ch |-> NoChar, attrs |-> DefaultAttrs, part |-> "cont", marks |-> 0]
    BY DEF DefaultCell
  <2>3. NoChar \in Chars /\ 0 \in 0..MaxCombining /\ DefaultAttrs \in Attrs
    BY SizeAssumption DEF Chars
  <2>. HIDE DEF cont
  <2>. QED  BY <2>1, <2>2, <2>3, <2>5 DEF Cell
<1>. HIDE DEF new, cont, w
<1>4. CursorLine(g) \in [0..(g.cols - 1) -> Cell]
  BY CursorLineOK DEF Line
<1>5. line \in Line(g.cols)
  BY <1>3, <1>4 DEF Line
<1>6. col \in 0..(g.cols - 1) /\ wrap \in BOOLEAN
  BY <1>1, <1>2 DEF Least
<1>. HIDE DEF line
<1>7. /\ Edited(g, h) /\ GridOK(h) /\ h.cursor = g.cursor /\ h.dirty_all = g.dirty_all
      /\ h.cols = g.cols /\ h.rows = [g.rows EXCEPT ![g.cursor.row] = line]
  BY <1>5, WithLineOK, WithLineFields DEF Edited
<1>8. PlaceChar(g, ch, attrs) = [h EXCEPT !.cursor.col = Least(@ + w, g.cols - 1), !.wrap_pending = wrap]
  BY DEF PlaceChar, new, cont, line, w
<1>. HIDE DEF h
<1>9. PlaceChar(g, ch, attrs) = [h EXCEPT !.cursor.col = col, !.wrap_pending = wrap]
  <2>1. h \in GridSet(h.cols, h.row_count)
    BY <1>7 DEF GridOK
  <2>2. h.cursor \in CursorSet(h.cols, h.row_count)
    BY <1>7, GridSize
  <2>3. [h EXCEPT !.cursor.col = Least(@ + w, g.cols - 1), !.wrap_pending = wrap]
          = [h EXCEPT !.cursor.col = Least(h.cursor.col + w, g.cols - 1), !.wrap_pending = wrap]
    BY <2>1, <2>2 DEF GridSet, CursorSet
  <2>. QED  BY <1>7, <1>8, <2>3
<1>. HIDE DEF col, wrap
<1>10. /\ Edited(h, [h EXCEPT !.cursor.col = col, !.wrap_pending = wrap])
       /\ [h EXCEPT !.cursor.col = col, !.wrap_pending = wrap].dirty_all = h.dirty_all
       /\ [h EXCEPT !.cursor.col = col, !.wrap_pending = wrap].rows = h.rows
  <2>. DEFINE pos == [row |-> h.cursor.row, col |-> col]
              k == [h EXCEPT !.cursor = pos, !.wrap_pending = wrap]
  <2>1. h \in GridSet(h.cols, h.row_count) /\ h.cursor \in CursorSet(h.cols, h.row_count)
        /\ h.cursor.row \in 0..(h.row_count - 1) /\ col \in 0..(h.cols - 1)
    BY <1>6, <1>7, GridSize
  <2>2. pos \in CursorSet(h.cols, h.row_count) /\ [h.cursor EXCEPT !.col = col] = pos
    BY <2>1 DEF CursorSet
  <2>3. [h EXCEPT !.cursor.col = col, !.wrap_pending = wrap] = k
    BY <2>1, <2>2 DEF GridSet
  <2>. HIDE DEF pos
  <2>4. k \in GridSet(h.cols, h.row_count)
    BY <1>6, <2>1, <2>2 DEF GridSet
  <2>5. /\ k.cols = h.cols /\ k.row_count = h.row_count
        /\ k.dirty_all = h.dirty_all /\ k.dirty = h.dirty /\ k.rows = h.rows
        /\ k.scroll_top = h.scroll_top /\ k.scroll_bottom = h.scroll_bottom
    BY <2>1 DEF GridSet
  <2>. HIDE DEF k
  <2>6. Edited(h, k)
    BY <1>7, <2>4, <2>5 DEF Edited, Tracks, GridOK
  <2>. QED  BY <2>3, <2>5, <2>6
<1>11. \A r \in 0..(g.row_count - 1) : r # g.cursor.row => h.rows[r] = g.rows[r]
  BY <1>2, <1>7
<1>. DEFINE k == PlaceChar(g, ch, attrs)
<1>12. Edited(h, k) /\ k.dirty_all = h.dirty_all /\ k.rows = h.rows
  BY <1>9, <1>10
<1>. HIDE DEF k
<1>13. Edited(g, k)
  BY <1>7, <1>12, EditedTrans
<1>14. k.dirty_all = g.dirty_all /\ \A r \in 0..(g.row_count - 1) : r # g.cursor.row => k.rows[r] = g.rows[r]
  BY <1>7, <1>11, <1>12
<1>. QED  BY <1>13, <1>14 DEF k

\* A wrap is an index with the cursor at the left edge.
LEMMA WrappedOK ==
    ASSUME NEW g, GridOK(g)
    PROVE  /\ Edited(g, Wrapped(g))
           /\ AtRegionBottom(g) => Wrapped(g).dirty_all
           /\ Wrapped(g).rows = Index(g).rows /\ Wrapped(g).cursor.row = Index(g).cursor.row
<1>1. Edited(g, Index(g)) /\ GridOK(Index(g)) /\ (AtRegionBottom(g) => Index(g).dirty_all)
  BY IndexOK DEF Edited
<1>2. 0 \in 0..(Index(g).cols - 1)
  BY <1>1, GridSize
<1>. DEFINE h == Index(g)
<1>. HIDE DEF h
<1>3. /\ Edited(h, [h EXCEPT !.cursor.col = 0])
      /\ [h EXCEPT !.cursor.col = 0].dirty_all = h.dirty_all
      /\ [h EXCEPT !.cursor.col = 0].rows = h.rows
      /\ [h EXCEPT !.cursor.col = 0].cursor = [row |-> h.cursor.row, col |-> 0]
  BY <1>1, <1>2, CursorColOK DEF h
<1>. QED  BY <1>1, <1>3, EditedTrans DEF Wrapped, h

\* Grid::put_char; a line it scrolls out goes with the whole grid marked.
LEMMA PutCharOK ==
    ASSUME NEW g, GridOK(g), NEW ch \in Chars, NEW attrs \in Attrs
    PROVE  /\ Edited(g, PutChar(g, ch, attrs))
           /\ PrintOut(g, ch) # <<>> => PutChar(g, ch, attrs).dirty_all
<1>1. CASE CharWidth(ch) = 0
  BY <1>1, PrintMarkOK DEF PutChar, PrintOut
<1>2. CASE CharWidth(ch) # 0
  <2>. DEFINE h == IF NeedsWrap(g, ch) THEN Wrapped(g) ELSE g
  <2>1. Edited(g, h) /\ GridOK(h)
    BY WrappedOK, EditedRefl DEF Edited
  <2>2. PrintOut(g, ch) # <<>> => h.dirty_all
    BY WrappedOK DEF PrintOut, IndexOut
  <2>3. PutChar(g, ch, attrs) = PlaceChar(h, ch, attrs)
    BY <1>2 DEF PutChar
  <2>. HIDE DEF h
  <2>. QED  BY <2>1, <2>2, <2>3, PlaceCharOK, EditedTrans
<1>. QED  BY <1>1, <1>2

\* A new grid is well formed.
LEMMA NewGridOK ==
    ASSUME NEW cols, NEW rows, SizeAllowed(cols, rows)
    PROVE  GridOK(NewGrid(cols, rows)) /\ NewGrid(cols, rows).cols = cols
           /\ NewGrid(cols, rows).row_count = rows
<1>1. cols \in Nat /\ rows \in Nat /\ cols >= 2 /\ rows >= 1
  BY SizeAssumption DEF SizeAllowed
<1>2. /\ [r \in 0..(rows - 1) |-> BlankLine(cols)] \in [0..(rows - 1) -> Line(cols)]
      /\ Pos(0, 0) \in CursorSet(cols, rows) /\ InitialTabStops(cols) \in SUBSET (0..(cols - 1))
      /\ 0 \in 0..(rows - 1) /\ rows - 1 \in 0..(rows - 1)
      /\ 0..(rows - 1) \in SUBSET (0..(rows - 1))
  BY <1>1, CellOK DEF Pos, CursorSet, InitialTabStops
<1>. DEFINE a == [r \in 0..(rows - 1) |-> BlankLine(cols)]
            p == Pos(0, 0)
            t == InitialTabStops(cols)
            d == 0..(rows - 1)
<1>3. /\ NewGrid(cols, rows) \in GridSet(cols, rows)
      /\ NewGrid(cols, rows).cols = cols /\ NewGrid(cols, rows).row_count = rows
      /\ NewGrid(cols, rows).scroll_top = 0 /\ NewGrid(cols, rows).scroll_bottom = rows - 1
  BY <1>2 DEF NewGrid, GridSet
<1>. QED  BY <1>1, <1>3 DEF GridOK

\* Grid::resize to any allowed size, whatever the cursor, the saved cursor
\* and the region were.
LEMMA ResizeGridOK ==
    ASSUME NEW g, GridOK(g), NEW cols, NEW rows, SizeAllowed(cols, rows)
    PROVE  GridOK(ResizeGrid(g, cols, rows))
<1>. DEFINE bottom == Least(g.scroll_bottom, rows - 1)
            top == IF g.scroll_top > bottom THEN 0 ELSE g.scroll_top
            clamp(p) == Pos(Least(p.row, rows - 1), Least(p.col, cols - 1))
            cur == clamp(g.cursor)
            sav == clamp(g.saved_cursor)
            lines == [r \in 0..(rows - 1) |->
                        IF r < g.row_count THEN FitLine(g.rows[r], cols) ELSE BlankLine(cols)]
            stops == InitialTabStops(cols)
            h == [g EXCEPT
                    !.cols = cols, !.row_count = rows, !.rows = lines,
                    !.cursor = cur, !.saved_cursor = sav,
                    !.scroll_bottom = bottom, !.scroll_top = top,
                    !.tab_stops = stops,
                    !.dirty = 0..(rows - 1), !.dirty_all = TRUE, !.wrap_pending = FALSE]
<1>1. cols \in Nat /\ rows \in Nat /\ cols >= 2 /\ rows >= 1
  BY SizeAssumption DEF SizeAllowed
<1>2. bottom \in 0..(rows - 1) /\ top \in 0..(rows - 1) /\ top <= bottom
  BY <1>1, GridSize DEF Least
<1>3. cur \in CursorSet(cols, rows) /\ sav \in CursorSet(cols, rows)
  <2>1. g.cursor \in [row : Nat, col : Nat] /\ g.saved_cursor \in [row : Nat, col : Nat]
    BY GridSize DEF CursorSet
  <2>. QED  BY <1>1, <2>1 DEF Pos, Least, CursorSet
<1>4. lines \in [0..(rows - 1) -> Line(cols)]
  <2>1. g.cols \in Nat /\ g.row_count \in Nat /\ g.rows \in [0..(g.row_count - 1) -> Line(g.cols)]
    BY GridSize
  <2>. SUFFICES ASSUME NEW r \in 0..(rows - 1)
                PROVE  (IF r < g.row_count THEN FitLine(g.rows[r], cols) ELSE BlankLine(cols)) \in Line(cols)
    OBVIOUS
  <2>2. r < g.row_count => g.rows[r] \in Line(g.cols)
    BY <1>1, <2>1
  <2>. QED  BY <1>1, <2>1, <2>2, FitLineOK, CellOK
<1>5. stops \in SUBSET (0..(cols - 1)) /\ 0..(rows - 1) \in SUBSET (0..(rows - 1))
  BY DEF InitialTabStops
<1>6. ResizeGrid(g, cols, rows) = h
  BY DEF ResizeGrid
<1>7. g \in GridSet(g.cols, g.row_count)
  BY DEF GridOK
<1>. HIDE DEF bottom, top, cur, sav, lines, stops
<1>8. h \in GridSet(cols, rows)
  BY <1>2, <1>3, <1>4, <1>5, <1>7 DEF GridSet
<1>9. h.cols = cols /\ h.row_count = rows /\ h.scroll_top = top /\ h.scroll_bottom = bottom
  BY <1>7 DEF GridSet
<1>. HIDE DEF h
<1>. QED  BY <1>2, <1>6, <1>8, <1>9 DEF GridOK

\* Taking the marks leaves everything else.
LEMMA CleanDirtyOK ==
    ASSUME NEW g, GridOK(g)
    PROVE  /\ GridOK(CleanDirty(g)) /\ CleanDirty(g).cols = g.cols
           /\ CleanDirty(g).row_count = g.row_count /\ CleanDirty(g).rows = g.rows
           /\ CleanDirty(g).cursor = g.cursor
           /\ CleanDirty(g).scroll_top = g.scroll_top /\ CleanDirty(g).scroll_bottom = g.scroll_bottom
           /\ CleanDirty(g).tab_stops = g.tab_stops
<1>. DEFINE h == CleanDirty(g)
<1>1. g \in GridSet(g.cols, g.row_count)
  BY DEF GridOK
<1>2. h \in GridSet(g.cols, g.row_count)
  BY <1>1 DEF GridSet, CleanDirty
<1>3. /\ h.cols = g.cols /\ h.row_count = g.row_count
      /\ h.rows = g.rows /\ h.cursor = g.cursor /\ h.tab_stops = g.tab_stops
      /\ h.scroll_top = g.scroll_top /\ h.scroll_bottom = g.scroll_bottom
  BY <1>1 DEF GridSet, CleanDirty
<1>. QED  BY <1>2, <1>3 DEF GridOK

-----------------------------------------------------------------------------
(* The terminal.                                                            *)

\* The fields of the terminal record.
TermFields ==
    {"grid", "saved", "alt", "scrollback", "sb_cols", "viewport", "selection",
     "attrs", "last_char", "modes", "visible", "pane_cols", "pane_dirty",
     "pane_dirty_all", "cursor_dirty", "blink_phase", "response", "winsize",
     "frame", "ui", "session", "exited"}

\* The modes.
ModeSet ==
    [flag : [FlagModes -> BOOLEAN], mouse : MouseModes, shape : CursorShapes,
     modify_other_keys : 0..2]

\* The fields of the viewport.
ViewportSet == [scroll_offset : Nat, follow_output : BOOLEAN, max_offset : Nat]

\* A viewport: in bounds, and scrolled up only while it does not follow.
ViewportOK(v) ==
    /\ v \in ViewportSet
    /\ v.scroll_offset <= v.max_offset
    /\ v.scroll_offset > 0 => ~v.follow_output

\* Positions in the document.
Places == [row : Nat, col : Nat]

\* The screen and, exactly while the alternate screen is up, a saved one.
ScreensOK(t) ==
    /\ GridOK(t.grid)
    /\ \A g \in t.saved : GridOK(g)
    /\ t.alt = (t.saved # {})

\* The history: lines of its own width, within its capacity.
HistoryOK(t) ==
    /\ t.sb_cols \in Nat
    /\ t.scrollback \in Seq(Line(t.sb_cols))
    /\ Len(t.scrollback) <= MaxLines

\* Type correctness of a terminal.
TermOK(t) ==
    /\ DOMAIN t = TermFields
    /\ ScreensOK(t) /\ HistoryOK(t)
    /\ ViewportOK(t.viewport)
    /\ t.selection \in SUBSET [anchor : Places, end : Places]
    /\ t.attrs \in Attrs /\ t.last_char \in SUBSET Chars
    /\ t.modes \in ModeSet
    /\ t.visible \in Nat /\ t.pane_cols \in Nat
    /\ t.pane_dirty_all \in BOOLEAN /\ t.session \in BOOLEAN

\* From t to u, what may have changed on the pane is marked: on the pane, on
\* the grid, or row by row on the grid.
Noted(t, u) ==
    \/ u.pane_dirty_all \/ u.grid.dirty_all
    \/ /\ u.scrollback = t.scrollback /\ u.viewport = t.viewport
       /\ u.selection = t.selection
       /\ u.modes.flag["reverse_video"] = t.modes.flag["reverse_video"]
       /\ u.grid.row_count = t.grid.row_count
       /\ ~t.grid.dirty_all /\ t.grid.dirty \subseteq u.grid.dirty
       /\ \A r \in 0..(t.grid.row_count - 1) :
             r \in u.grid.dirty \/ u.grid.rows[r] = t.grid.rows[r]

\* Output does not touch the pane, except to mark it.
OnPane(t, u) ==
    /\ u.visible = t.visible /\ u.pane_cols = t.pane_cols /\ u.frame = t.frame
    /\ u.session = t.session /\ u.pane_dirty = t.pane_dirty
    /\ t.pane_dirty_all => u.pane_dirty_all

\* An open synchronized update.
Synchronized(t) == t.modes.flag["synchronized_output"]

\* What every parser action that stays on its screen does to a terminal.
Fed(t, u) ==
    /\ TermOK(u)
    /\ OnPane(t, u) /\ Noted(t, u)
    /\ u.alt = t.alt /\ u.saved = t.saved /\ u.sb_cols = t.sb_cols
    /\ Synchronized(u) = Synchronized(t)
    /\ t.viewport.scroll_offset > 0 => u.viewport.scroll_offset > 0

-----------------------------------------------------------------------------
(* Parser actions.                                                          *)

\* A parser action may do nothing.
LEMMA FedRefl == ASSUME NEW t, TermOK(t) PROVE Fed(t, t)
BY DEF Fed, OnPane, Noted

\* Two parser actions in a row.
LEMMA FedTrans ==
    ASSUME NEW t, NEW u, NEW v, Fed(t, u), Fed(u, v) PROVE Fed(t, v)
<1>1. OnPane(t, v)
  BY DEF Fed, OnPane
<1>2. Noted(t, v)
  BY DEF Fed, OnPane, Noted
<1>. QED  BY <1>1, <1>2 DEF Fed

\* Replacing the grid of a terminal.
LEMMA OnGridFields ==
    ASSUME NEW t, TermOK(t), NEW g
    PROVE  /\ OnGrid(t, g).grid = g /\ DOMAIN OnGrid(t, g) = TermFields
           /\ \A f \in TermFields \ {"grid"} : OnGrid(t, g)[f] = t[f]
<1>1. DOMAIN t = TermFields
  BY DEF TermOK
<1>. QED  BY <1>1 DEF OnGrid, TermFields

\* An edit of the grid is a parser action.
LEMMA OnGridFed ==
    ASSUME NEW t, TermOK(t), NEW g, Edited(t.grid, g)
    PROVE  Fed(t, OnGrid(t, g))
<1>. DEFINE u == OnGrid(t, g)
<1>1. /\ u.grid = g /\ DOMAIN u = TermFields
      /\ u.saved = t.saved /\ u.alt = t.alt /\ u.scrollback = t.scrollback
      /\ u.sb_cols = t.sb_cols /\ u.viewport = t.viewport /\ u.selection = t.selection
      /\ u.attrs = t.attrs /\ u.last_char = t.last_char /\ u.modes = t.modes
      /\ u.visible = t.visible /\ u.pane_cols = t.pane_cols /\ u.pane_dirty = t.pane_dirty
      /\ u.pane_dirty_all = t.pane_dirty_all /\ u.frame = t.frame /\ u.session = t.session
  BY OnGridFields DEF TermFields
<1>. HIDE DEF u
<1>2. TermOK(u)
  BY <1>1 DEF TermOK, ScreensOK, HistoryOK, Edited
<1>3. OnPane(t, u) /\ Noted(t, u)
  BY <1>1 DEF OnPane, Noted, Edited, Tracks
<1>. QED  BY <1>1, <1>2, <1>3 DEF Fed, Synchronized, u

\* Viewport::update_bounds keeps a scrolled-up view scrolled up as long as
\* there is history.
LEMMA UpdateBoundsOK ==
    ASSUME NEW v, ViewportOK(v), NEW len \in Nat
    PROVE  /\ ViewportOK(UpdateBounds(v, len))
           /\ v.scroll_offset > 0 /\ len > 0 => UpdateBounds(v, len).scroll_offset > 0
           /\ UpdateBounds(v, len).max_offset = len
<1>. DEFINE off == IF v.follow_output THEN 0 ELSE Least(v.scroll_offset, len)
            u == UpdateBounds(v, len)
<1>1. v \in ViewportSet /\ v.scroll_offset \in Nat /\ v.follow_output \in BOOLEAN
  BY DEF ViewportOK, ViewportSet
<1>2. off \in Nat /\ off <= len /\ (off > 0 => ~v.follow_output)
      /\ (v.scroll_offset > 0 /\ len > 0 => off > 0)
  BY <1>1 DEF Least, ViewportOK
<1>3. u = [v EXCEPT !.max_offset = len, !.scroll_offset = off]
  BY <1>1 DEF UpdateBounds, ViewportSet
<1>. HIDE DEF u, off
<1>4. u \in ViewportSet /\ u.max_offset = len /\ u.scroll_offset = off
      /\ u.follow_output = v.follow_output
  BY <1>1, <1>2, <1>3 DEF ViewportSet
<1>. QED  BY <1>2, <1>4 DEF ViewportOK, u

\* Scrollback::push: the ring grows to its capacity and stays there.
LEMMA RingPushOK ==
    ASSUME NEW m \in Nat, NEW ring \in Seq(Line(m)), Len(ring) <= MaxLines,
           NEW k \in Nat, NEW line \in Line(k)
    PROVE  /\ RingPush(ring, line, m) \in Seq(Line(m))
           /\ Len(RingPush(ring, line, m)) \in 1..MaxLines
           /\ Len(ring) # MaxLines => Len(RingPush(ring, line, m)) = Len(ring) + 1
           /\ Len(ring) # MaxLines => RingPush(ring, line, m) = Append(ring, FitLine(line, m))
           /\ Len(ring) = MaxLines => Len(RingPush(ring, line, m)) = MaxLines
<1>. DEFINE r == IF Len(ring) = MaxLines THEN Tail(ring) ELSE ring
<1>1. MaxLines \in Nat /\ MaxLines > 0
  BY TerminalAssumption
<1>2. r \in Seq(Line(m)) /\ Len(r) <= MaxLines - 1 /\ Len(r) \in Nat
      /\ (Len(ring) = MaxLines => Len(r) = MaxLines - 1)
  <2>1. CASE Len(ring) = MaxLines
    BY <1>1, <2>1
  <2>2. CASE Len(ring) # MaxLines
    BY <1>1, <2>2
  <2>. QED  BY <2>1, <2>2
<1>3. FitLine(line, m) \in Line(m)
  BY FitLineOK
<1>4. RingPush(ring, line, m) = Append(r, FitLine(line, m))
  BY DEF RingPush
<1>5. Len(ring) # MaxLines => r = ring
  OBVIOUS
<1>. HIDE DEF r
<1>6. Append(r, FitLine(line, m)) \in Seq(Line(m)) /\ Len(Append(r, FitLine(line, m))) = Len(r) + 1
  BY <1>2, <1>3
<1>. QED  BY <1>1, <1>2, <1>4, <1>5, <1>6

\* What pushing a line into the history changes.
LEMMA PushScrollbackFields ==
    ASSUME NEW t, TermOK(t), NEW line, ~t.alt
    PROVE  LET ring == RingPush(t.scrollback, line, t.sb_cols)
               u == PushScrollback(t, line)
           IN  /\ DOMAIN u = TermFields /\ u.scrollback = ring
               /\ u.viewport = UpdateBounds(t.viewport, Len(ring))
               /\ \A f \in TermFields \ {"scrollback", "viewport"} : u[f] = t[f]
<1>1. DOMAIN t = TermFields
  BY DEF TermOK
<1>. QED  BY <1>1 DEF PushScrollback, TermFields

\* Pushing a line into the history of a grid that is wholly marked.
LEMMA PushFed ==
    ASSUME NEW t, TermOK(t), t.grid.dirty_all, NEW k \in Nat, NEW line \in Line(k)
    PROVE  /\ Fed(t, PushScrollback(t, line))
           /\ PushScrollback(t, line).grid = t.grid
<1>1. CASE t.alt
  BY <1>1, FedRefl DEF PushScrollback
<1>2. CASE ~t.alt
  <2>. DEFINE u == PushScrollback(t, line)
              ring == RingPush(t.scrollback, line, t.sb_cols)
  <2>1. /\ u.grid = t.grid /\ DOMAIN u = TermFields
        /\ u.saved = t.saved /\ u.alt = t.alt /\ u.scrollback = ring
        /\ u.sb_cols = t.sb_cols /\ u.viewport = UpdateBounds(t.viewport, Len(ring))
        /\ u.selection = t.selection
        /\ u.attrs = t.attrs /\ u.last_char = t.last_char /\ u.modes = t.modes
        /\ u.visible = t.visible /\ u.pane_cols = t.pane_cols /\ u.pane_dirty = t.pane_dirty
        /\ u.pane_dirty_all = t.pane_dirty_all /\ u.frame = t.frame /\ u.session = t.session
    BY <1>2, PushScrollbackFields DEF TermFields
  <2>2. /\ ring \in Seq(Line(t.sb_cols)) /\ Len(ring) <= MaxLines /\ Len(ring) \in Nat /\ Len(ring) > 0
    <3>1. t.sb_cols \in Nat /\ t.scrollback \in Seq(Line(t.sb_cols)) /\ Len(t.scrollback) <= MaxLines
      BY DEF TermOK, HistoryOK
    <3>2. ring \in Seq(Line(t.sb_cols)) /\ Len(ring) \in 1..MaxLines
      BY <3>1, RingPushOK
    <3>. HIDE DEF ring
    <3>. QED  BY <3>2, TerminalAssumption
  <2>. HIDE DEF u, ring
  <2>3. ViewportOK(u.viewport)
        /\ (t.viewport.scroll_offset > 0 => u.viewport.scroll_offset > 0)
    BY <2>1, <2>2, UpdateBoundsOK DEF TermOK
  <2>4. TermOK(u)
    BY <2>1, <2>2, <2>3 DEF TermOK, ScreensOK, HistoryOK
  <2>5. OnPane(t, u) /\ Noted(t, u)
    BY <2>1 DEF OnPane, Noted
  <2>. QED  BY <2>1, <2>3, <2>4, <2>5 DEF Fed, Synchronized, u
<1>. QED  BY <1>1, <1>2 DEF TermOK, ScreensOK

\* A terminal with another history and viewport.
Pushed(t, r, v) == [t EXCEPT !.scrollback = r, !.viewport = v]

\* Its fields.
LEMMA PushedFields ==
    ASSUME NEW t, DOMAIN t = TermFields, NEW r, NEW v
    PROVE  /\ DOMAIN Pushed(t, r, v) = TermFields
           /\ Pushed(t, r, v).scrollback = r /\ Pushed(t, r, v).viewport = v
           /\ \A f \in TermFields \ {"scrollback", "viewport"} : Pushed(t, r, v)[f] = t[f]
BY DEF Pushed, TermFields

\* The last history and viewport count.
LEMMA PushedTwice ==
    ASSUME NEW t, DOMAIN t = TermFields, NEW r, NEW v, NEW q, NEW w
    PROVE  Pushed(Pushed(t, r, v), q, w) = Pushed(t, q, w)
BY DEF Pushed, TermFields

\* u is t up to history and viewport: a set the recursion can range over.
IsPushed(t, u) ==
    u = t \/ \E r \in Seq(Line(t.sb_cols)), v \in ViewportSet : u = Pushed(t, r, v)

\* Pushing stays in that set.
LEMMA PushScrollbackPushed ==
    ASSUME NEW t, TermOK(t), NEW k \in Nat, NEW line \in Line(k), NEW u, IsPushed(t, u)
    PROVE  IsPushed(t, PushScrollback(u, line))
<1>. DEFINE ring == RingPush(u.scrollback, line, t.sb_cols)
            w == UpdateBounds(u.viewport, Len(ring))
<1>1. DOMAIN t = TermFields /\ t.sb_cols \in Nat
      /\ t.scrollback \in Seq(Line(t.sb_cols)) /\ t.viewport \in ViewportSet
  BY DEF TermOK, HistoryOK, ViewportOK
<1>2. u.alt = t.alt /\ u.sb_cols = t.sb_cols /\ DOMAIN u = TermFields
      /\ u.scrollback \in Seq(Line(t.sb_cols)) /\ u.viewport \in ViewportSet
      /\ \A q, z : Pushed(u, q, z) = Pushed(t, q, z)
  <2>1. CASE u = t
    BY <1>1, <2>1
  <2>2. CASE \E r \in Seq(Line(t.sb_cols)), v \in ViewportSet : u = Pushed(t, r, v)
    BY <1>1, <2>2, PushedFields, PushedTwice DEF TermFields
  <2>. QED  BY <2>1, <2>2 DEF IsPushed
<1>3. CASE t.alt
  BY <1>2, <1>3 DEF PushScrollback
<1>4. CASE ~t.alt
  <2>1. PushScrollback(u, line) = Pushed(u, ring, w)
    BY <1>2, <1>4 DEF PushScrollback, Pushed, TermFields
  <2>2. Pushed(u, ring, w) = Pushed(t, ring, w)
    BY <1>2
  <2>3. ring \in Seq(Line(t.sb_cols))
    <3>. DEFINE r == u.scrollback
    <3>1. FitLine(line, t.sb_cols) \in Line(t.sb_cols)
      BY <1>1, FitLineOK
    <3>2. ASSUME Len(r) = MaxLines PROVE Tail(r) \in Seq(Line(t.sb_cols))
      <4>1. r # <<>>
        BY <1>2, <3>2, TerminalAssumption
      <4>. QED  BY <1>2, <4>1, HeadTailProperties
    <3>3. (IF Len(r) = MaxLines THEN Tail(r) ELSE r) \in Seq(Line(t.sb_cols))
      BY <1>2, <3>2
    <3>. QED  BY <3>1, <3>3 DEF RingPush
  <2>4. w \in ViewportSet
    <3>1. Len(ring) \in Nat
      BY <2>3
    <3>. HIDE DEF ring
    <3>2. (IF u.viewport.follow_output THEN 0 ELSE Least(u.viewport.scroll_offset, Len(ring))) \in Nat
      BY <1>2, <3>1 DEF ViewportSet, Least
    <3>. QED  BY <1>2, <3>1, <3>2 DEF UpdateBounds, ViewportSet
  <2>. HIDE DEF ring, w
  <2>. QED  BY <2>1, <2>2, <2>3, <2>4 DEF IsPushed
<1>. QED  BY <1>3, <1>4

\* The table of PushAll's recursion.
IsPushTable(g, t, lines) ==
    /\ g[0] = t
    /\ \A n \in 1..Len(lines) : g[n] = PushScrollback(g[n - 1], lines[n])
    /\ \A n \in 0..Len(lines) : IsPushed(t, g[n])
    /\ PushAll(t, lines) = g[Len(lines)]

\* The recursion of PushAll has a table.
LEMMA PushAllTable ==
    ASSUME NEW t, TermOK(t), NEW k \in Nat, NEW lines \in Seq(Line(k))
    PROVE  \E g : IsPushTable(g, t, lines)
<1>. DEFINE N == Len(lines)
            S == {t} \cup {Pushed(t, r, v) : r \in Seq(Line(t.sb_cols)), v \in ViewportSet}
            F == [a \in (1..N) \X S |-> PushScrollback(a[2], lines[a[1]])]
            Table(f) == [i \in 0..N |-> IF i = 0 THEN t ELSE PushScrollback(f[i - 1], lines[i])]
            G == CHOOSE f : f = Table(f)
<1>1. N \in Nat /\ \A n \in 1..N : lines[n] \in Line(k)
  BY ElementOfSeq
<1>2. \A u : u \in S <=> IsPushed(t, u)
  BY DEF IsPushed
<1>3. t \in S
  OBVIOUS
<1>4. \A n \in 1..N, u \in S : PushScrollback(u, lines[n]) \in S
  BY <1>1, <1>2, PushScrollbackPushed
<1>. HIDE DEF S
<1>5. IsStep(F, N, S)
  BY <1>4 DEF IsStep
<1>6. PICK g : IsTable(g, t, F, N, S)
  <2>. HIDE DEF F, N
  <2>. QED  BY <1>1, <1>3, <1>5, RecursionExists
<1>7. g \in [0..N -> S] /\ g[0] = t
  BY <1>6 DEF IsTable
<1>8. ASSUME NEW n \in 1..N PROVE g[n] = PushScrollback(g[n - 1], lines[n])
  <2>1. n - 1 \in 0..N
    BY <1>1
  <2>2. <<n, g[n - 1]>> \in (1..N) \X S
    BY <1>7, <2>1
  <2>3. g[n] = F[<<n, g[n - 1]>>]
    BY <1>6 DEF IsTable
  <2>. QED  BY <2>2, <2>3
<1>9. g = Table(g)
  <2>. HIDE DEF N
  <2>1. ASSUME NEW n \in 0..N PROVE g[n] = IF n = 0 THEN t ELSE PushScrollback(g[n - 1], lines[n])
    BY <1>1, <1>7, <1>8
  <2>. QED  BY <1>7, <2>1
<1>10. G = Table(G)
  BY <1>9
<1>11. PushAll(t, lines) = G[N]
  BY DEF PushAll
<1>. HIDE DEF G, N
<1>12. G[0] = t /\ \A n \in 1..N : G[n] = PushScrollback(G[n - 1], lines[n])
  BY <1>1, <1>10
<1>13. \A n \in 0..(N - 1) : g[n] = G[n] => g[n + 1] = G[n + 1]
  <2>1. ASSUME NEW n \in 0..(N - 1), g[n] = G[n] PROVE g[n + 1] = G[n + 1]
    <3>1. n + 1 \in 1..N /\ (n + 1) - 1 = n
      BY <1>1
    <3>. QED  BY <1>8, <1>12, <2>1, <3>1
  <2>. QED  BY <2>1
<1>14. \A n \in 0..N : g[n] = G[n]
  <2>1. g[0] = G[0]
    BY <1>7, <1>12
  <2>. QED  BY <1>1, <1>13, <2>1, RecursionUnique
<1>15. \A n \in 0..N : g[n] \in S
  BY <1>7
<1>16. N \in 0..N
  BY <1>1
<1>17. PushAll(t, lines) = g[N]
  BY <1>11, <1>14, <1>16
<1>18. \A n \in 0..N : IsPushed(t, g[n])
  BY <1>2, <1>15
<1>. QED  BY <1>7, <1>8, <1>17, <1>18 DEF N, IsPushTable

\* Pushing the lines a scroll gave up is a parser action, because the scroll
\* marked the whole grid.
LEMMA PushAllFed ==
    ASSUME NEW t, TermOK(t), NEW k \in Nat, NEW lines \in Seq(Line(k)),
           lines # <<>> => t.grid.dirty_all
    PROVE  /\ Fed(t, PushAll(t, lines)) /\ PushAll(t, lines).grid = t.grid
           /\ IsPushed(t, PushAll(t, lines))
<1>. DEFINE N == Len(lines)
<1>1. PICK g : IsPushTable(g, t, lines)
  BY PushAllTable
<1>. DEFINE T == {n \in Nat : Fed(t, g[n]) /\ g[n].grid = t.grid}
<1>2. N \in Nat /\ \A n \in 1..N : lines[n] \in Line(k)
  BY ElementOfSeq
<1>3. 0 \in T
  BY <1>1, FedRefl DEF IsPushTable
<1>4. ASSUME NEW n \in 0..(N - 1), n \in T PROVE n + 1 \in T
  <2>1. n + 1 \in 1..N /\ (n + 1) - 1 = n /\ n + 1 \in Nat /\ N > 0
    BY <1>2
  <2>2. g[n + 1] = PushScrollback(g[n], lines[n + 1])
    BY <1>1, <2>1 DEF IsPushTable
  <2>3. t.grid.dirty_all
    BY <2>1
  <2>4. TermOK(g[n]) /\ g[n].grid.dirty_all /\ lines[n + 1] \in Line(k)
    BY <1>2, <1>4, <2>1, <2>3 DEF Fed
  <2>5. Fed(g[n], g[n + 1]) /\ g[n + 1].grid = g[n].grid
    BY <2>2, <2>4, PushFed
  <2>. QED  BY <1>4, <2>1, <2>5, FedTrans
<1>. HIDE DEF T
<1>5. 0..N \subseteq T
  <2>. HIDE DEF N
  <2>. QED  BY <1>2, <1>3, <1>4, BoundedInduction
<1>6. N \in T /\ N \in 0..N
  BY <1>2, <1>5
<1>. QED  BY <1>1, <1>6 DEF T, IsPushTable

\* Output that edits the grid and sets what the frame does not show.
LEMMA TouchFed ==
    ASSUME NEW t, TermOK(t), NEW u, DOMAIN u = TermFields,
           Edited(t.grid, u.grid), u.attrs \in Attrs, u.last_char \in SUBSET Chars,
           u.modes \in ModeSet, Synchronized(u) = Synchronized(t),
           u.modes.flag["reverse_video"] = t.modes.flag["reverse_video"],
           \A f \in TermFields \ {"grid", "attrs", "last_char", "modes", "response", "cursor_dirty"} :
              u[f] = t[f]
    PROVE  Fed(t, u)
<1>1. /\ u.saved = t.saved /\ u.alt = t.alt /\ u.scrollback = t.scrollback
      /\ u.sb_cols = t.sb_cols /\ u.viewport = t.viewport /\ u.selection = t.selection
      /\ u.visible = t.visible /\ u.pane_cols = t.pane_cols /\ u.pane_dirty = t.pane_dirty
      /\ u.pane_dirty_all = t.pane_dirty_all /\ u.frame = t.frame /\ u.session = t.session
  BY DEF TermFields
<1>2. TermOK(u)
  BY <1>1 DEF TermOK, ScreensOK, HistoryOK, Edited
<1>3. OnPane(t, u) /\ Noted(t, u)
  BY <1>1 DEF OnPane, Noted, Edited, Tracks
<1>. QED  BY <1>1, <1>2, <1>3 DEF Fed

\* The empty sequence is a sequence over any set.
LEMMA NoLines == \A S : <<>> \in Seq(S) /\ Len(<<>>) = 0
OBVIOUS

\* Output that marks the whole pane.
LEMMA MarkedFed ==
    ASSUME NEW t, TermOK(t), NEW u, DOMAIN u = TermFields, u.pane_dirty_all = TRUE,
           GridOK(u.grid), u.attrs \in Attrs, u.modes \in ModeSet,
           Synchronized(u) = Synchronized(t),
           u.scrollback \in {t.scrollback, <<>>}, u.selection \in {t.selection, {}},
           \A f \in {"saved", "alt", "sb_cols", "viewport", "last_char", "visible",
                     "pane_cols", "pane_dirty", "frame", "session"} : u[f] = t[f]
    PROVE  Fed(t, u)
<1>1. /\ u.saved = t.saved /\ u.alt = t.alt
      /\ u.sb_cols = t.sb_cols /\ u.viewport = t.viewport /\ u.last_char = t.last_char
      /\ u.visible = t.visible /\ u.pane_cols = t.pane_cols /\ u.pane_dirty = t.pane_dirty
      /\ u.frame = t.frame /\ u.session = t.session
  OBVIOUS
<1>2. TermOK(u)
  <2>1. HistoryOK(u)
    <3>1. t.sb_cols \in Nat /\ t.scrollback \in Seq(Line(t.sb_cols)) /\ Len(t.scrollback) <= MaxLines
      BY DEF TermOK, HistoryOK
    <3>2. MaxLines \in Nat
      BY TerminalAssumption
    <3>3. CASE u.scrollback = t.scrollback
      BY <1>1, <3>1, <3>3 DEF HistoryOK
    <3>4. CASE u.scrollback = <<>>
      <4>1. u.scrollback \in Seq(Line(u.sb_cols)) /\ Len(u.scrollback) = 0
        BY <3>4, NoLines
      <4>. QED  BY <1>1, <3>1, <3>2, <4>1 DEF HistoryOK
    <3>. QED  BY <3>3, <3>4
  <2>2. u.selection \in SUBSET [anchor : Places, end : Places]
    BY DEF TermOK
  <2>. QED  BY <1>1, <2>1, <2>2 DEF TermOK, ScreensOK
<1>3. OnPane(t, u) /\ Noted(t, u)
  BY <1>1 DEF OnPane, Noted
<1>. QED  BY <1>1, <1>2, <1>3 DEF Fed

\* A terminal after a glyph was put on its grid.
Printed(t, g, ch) == [t EXCEPT !.grid = g, !.last_char = {ch}]

\* Its fields.
LEMMA PrintedFields ==
    ASSUME NEW t, DOMAIN t = TermFields, NEW g, NEW ch
    PROVE  /\ DOMAIN Printed(t, g, ch) = TermFields
           /\ Printed(t, g, ch).grid = g /\ Printed(t, g, ch).last_char = {ch}
           /\ \A f \in TermFields \ {"grid", "last_char"} : Printed(t, g, ch)[f] = t[f]
BY DEF Printed, TermFields

\* The lines that leave the region, and the first of them.
LEMMA IndexOutOK ==
    ASSUME NEW g, GridOK(g), NEW n \in Nat
    PROVE  /\ ScrollUpOut(g, n) \in Seq(Line(g.cols)) /\ Len(ScrollUpOut(g, n)) = Least(n, RegionRows(g))
           /\ IndexOut(g) \in Seq(Line(g.cols))
           /\ Len(ScrollUpOut(g, 1)) = 1 /\ ScrollUpOut(g, 1)[1] = g.rows[g.scroll_top]
<1>1. ASSUME NEW m \in Nat
      PROVE  ScrollUpOut(g, m) \in Seq(Line(g.cols)) /\ Len(ScrollUpOut(g, m)) = Least(m, RegionRows(g))
  <2>1. Least(m, RegionRows(g)) \in Nat /\ Least(m, RegionRows(g)) <= RegionRows(g)
    BY RegionShape DEF Least
  <2>. DEFINE k == Least(m, RegionRows(g))
  <2>2. \A i \in 1..k : g.rows[g.scroll_top + i - 1] \in Line(g.cols)
    <3>1. ASSUME NEW i \in 1..k PROVE g.scroll_top + i - 1 \in 0..(g.row_count - 1)
      BY <2>1, GridSize DEF RegionRows
    <3>. QED  BY <3>1, GridSize
  <2>. HIDE DEF k
  <2>3. k \in Nat
    BY <2>1 DEF k
  <2>4. [i \in 1..k |-> g.rows[g.scroll_top + i - 1]] \in Seq(Line(g.cols))
        /\ Len([i \in 1..k |-> g.rows[g.scroll_top + i - 1]]) = k
    BY <2>2, <2>3
  <2>. QED  BY <2>4 DEF ScrollUpOut, k
<1>2. Least(1, RegionRows(g)) = 1
  BY RegionShape DEF Least
<1>3. ScrollUpOut(g, 1)[1] = g.rows[g.scroll_top]
  <2>1. g.scroll_top + 1 - 1 = g.scroll_top
    BY GridSize
  <2>. QED  BY <1>2, <2>1 DEF ScrollUpOut
<1>4. IndexOut(g) \in Seq(Line(g.cols))
  BY <1>1, NoLines DEF IndexOut
<1>. QED  BY <1>1, <1>2, <1>3, <1>4

\* The lines printing pushes out.
LEMMA PrintOutOK ==
    ASSUME NEW g, GridOK(g), NEW ch
    PROVE  PrintOut(g, ch) \in Seq(Line(g.cols))
BY IndexOutOK, NoLines DEF PrintOut

\* Putting a glyph is a parser action.
LEMMA PrintedFed ==
    ASSUME NEW t, TermOK(t), NEW g, Edited(t.grid, g), NEW ch \in Chars
    PROVE  Fed(t, Printed(t, g, ch))
<1>. DEFINE u == Printed(t, g, ch)
<1>1. /\ u.grid = g /\ u.last_char = {ch} /\ DOMAIN u = TermFields
      /\ u.attrs = t.attrs /\ u.modes = t.modes
      /\ \A f \in TermFields \ {"grid", "attrs", "last_char", "modes", "response", "cursor_dirty"} :
            u[f] = t[f]
  BY PrintedFields DEF TermFields, TermOK
<1>. HIDE DEF u
<1>. QED  BY <1>1, TouchFed DEF TermOK, u, Synchronized

\* Printing, with the line a wrap pushes into the history.
LEMMA ApplyPrintFed ==
    ASSUME NEW t, TermOK(t), NEW ch \in Chars
    PROVE  LET g == PutChar(t.grid, ch, t.attrs)
           IN  /\ Fed(t, ApplyPrint(t, ch))
               /\ IsPushed(Printed(t, g, ch), ApplyPrint(t, ch))
               /\ ApplyPrint(t, ch).grid = g
               /\ ApplyPrint(t, ch) = PushAll(Printed(t, g, ch), PrintOut(t.grid, ch))
<1>. DEFINE g == PutChar(t.grid, ch, t.attrs)
            u == Printed(t, g, ch)
            out == PrintOut(t.grid, ch)
<1>1. GridOK(t.grid) /\ t.attrs \in Attrs /\ DOMAIN t = TermFields
  BY DEF TermOK, ScreensOK
<1>2. Edited(t.grid, g) /\ (out # <<>> => g.dirty_all)
  BY <1>1, PutCharOK
<1>3. Fed(t, u) /\ u.grid = g /\ TermOK(u)
  BY <1>1, <1>2, PrintedFed, PrintedFields DEF Fed
<1>4. out \in Seq(Line(t.grid.cols)) /\ t.grid.cols \in Nat
  BY <1>1, PrintOutOK, GridSize
<1>5. ApplyPrint(t, ch) = PushAll(u, out)
  BY DEF ApplyPrint, Printed
<1>. HIDE DEF g, u, out
<1>6. Fed(u, PushAll(u, out)) /\ PushAll(u, out).grid = u.grid /\ IsPushed(u, PushAll(u, out))
  BY <1>2, <1>3, <1>4, PushAllFed
<1>. QED  BY <1>3, <1>5, <1>6, FedTrans DEF g, u, out

\* An edit followed by the lines it pushed out.
LEMMA FeedFed ==
    ASSUME NEW t, TermOK(t), NEW g, Edited(t.grid, g), NEW k \in Nat, NEW lines \in Seq(Line(k)),
           lines # <<>> => g.dirty_all
    PROVE  Fed(t, PushAll(OnGrid(t, g), lines)) /\ PushAll(OnGrid(t, g), lines).grid = g
<1>1. Fed(t, OnGrid(t, g)) /\ OnGrid(t, g).grid = g
  BY OnGridFed, OnGridFields
<1>2. TermOK(OnGrid(t, g))
  BY <1>1 DEF Fed
<1>3. Fed(OnGrid(t, g), PushAll(OnGrid(t, g), lines)) /\ PushAll(OnGrid(t, g), lines).grid = g
  BY <1>1, <1>2, PushAllFed
<1>. QED  BY <1>1, <1>3, FedTrans

\* LF, NEL and SU.
LEMMA LineFeedFed ==
    ASSUME NEW t, TermOK(t), NEW n \in Nat
    PROVE  /\ Fed(t, ApplyLineFeed(t)) /\ Fed(t, ApplyNextLine(t)) /\ Fed(t, ApplyScrollUp(t, n))
           /\ ApplyLineFeed(t).grid = Index(t.grid) /\ ApplyNextLine(t).grid = NextLine(t.grid)
           /\ ApplyScrollUp(t, n).grid = ScrollUpRegion(t.grid, n)
<1>1. GridOK(t.grid) /\ t.grid.cols \in Nat
  BY GridSize DEF TermOK, ScreensOK
<1>2. Fed(t, ApplyLineFeed(t)) /\ ApplyLineFeed(t).grid = Index(t.grid)
  <2>1. Edited(t.grid, Index(t.grid)) /\ (IndexOut(t.grid) # <<>> => Index(t.grid).dirty_all)
    BY <1>1, IndexOK DEF IndexOut
  <2>2. IndexOut(t.grid) \in Seq(Line(t.grid.cols))
    BY <1>1, IndexOutOK
  <2>. QED  BY <1>1, <2>1, <2>2, FeedFed DEF ApplyLineFeed
<1>3. Fed(t, ApplyNextLine(t)) /\ ApplyNextLine(t).grid = NextLine(t.grid)
  <2>. DEFINE c == CarriageReturn(t.grid)
  <2>1. GridOK(c) /\ c.cols \in Nat
    BY <1>1, ReturnOK, GridSize DEF Edited
  <2>2. Edited(t.grid, NextLine(t.grid)) /\ (IndexOut(c) # <<>> => NextLine(t.grid).dirty_all)
    BY <1>1, NextLineOK DEF IndexOut
  <2>3. IndexOut(c) \in Seq(Line(c.cols))
    BY <2>1, IndexOutOK
  <2>. HIDE DEF c
  <2>. QED  BY <2>1, <2>2, <2>3, FeedFed DEF ApplyNextLine, c
<1>4. Fed(t, ApplyScrollUp(t, n)) /\ ApplyScrollUp(t, n).grid = ScrollUpRegion(t.grid, n)
  <2>. DEFINE full == t.grid.scroll_top = 0 /\ t.grid.scroll_bottom = t.grid.row_count - 1
              out == IF full THEN ScrollUpOut(t.grid, n) ELSE <<>>
  <2>1. out \in Seq(Line(t.grid.cols))
    BY <1>1, IndexOutOK, NoLines
  <2>2. Edited(t.grid, ScrollUpRegion(t.grid, n)) /\ ScrollUpRegion(t.grid, n).dirty_all
    BY <1>1, ScrollOK
  <2>3. ApplyScrollUp(t, n) = PushAll(OnGrid(t, ScrollUpRegion(t.grid, n)), out)
    BY DEF ApplyScrollUp
  <2>. HIDE DEF out
  <2>. QED  BY <1>1, <2>1, <2>2, <2>3, FeedFed
<1>. QED  BY <1>2, <1>3, <1>4

\* Pulling the newest line of the history back.
LEMMA RestoreFed ==
    ASSUME NEW t, TermOK(t)
    PROVE  Fed(t, RestoreFromScrollback(t))
<1>. DEFINE n == Len(t.scrollback)
            ring == SubSeq(t.scrollback, 1, n - 1)
            g == PushLineFromScrollback(t.grid, t.scrollback[n])
            u == RestoreFromScrollback(t)
<1>1. /\ DOMAIN t = TermFields /\ GridOK(t.grid) /\ t.sb_cols \in Nat
      /\ t.scrollback \in Seq(Line(t.sb_cols)) /\ n \in Nat /\ n <= MaxLines /\ MaxLines \in Nat
  BY TerminalAssumption DEF TermOK, ScreensOK, HistoryOK
<1>2. CASE n = 0
  BY <1>2, FedRefl DEF RestoreFromScrollback
<1>3. CASE n # 0
  <2>1. t.scrollback[n] \in Line(t.sb_cols)
    BY <1>1, <1>3, ElementOfSeq
  <2>2. Edited(t.grid, g) /\ g.dirty_all
    BY <1>1, <2>1, PushBackOK
  <2>3. ring \in Seq(Line(t.sb_cols)) /\ Len(ring) = n - 1
    BY <1>1, <1>3, SubSeqProperties
  <2>4. u = [t EXCEPT !.scrollback = ring, !.grid = g]
    BY <1>1, <1>3 DEF RestoreFromScrollback, TermFields
  <2>. HIDE DEF ring, g, u
  <2>5. /\ u.grid = g /\ DOMAIN u = TermFields
        /\ u.saved = t.saved /\ u.alt = t.alt /\ u.scrollback = ring
        /\ u.sb_cols = t.sb_cols /\ u.viewport = t.viewport /\ u.selection = t.selection
        /\ u.attrs = t.attrs /\ u.last_char = t.last_char /\ u.modes = t.modes
        /\ u.visible = t.visible /\ u.pane_cols = t.pane_cols /\ u.pane_dirty = t.pane_dirty
        /\ u.pane_dirty_all = t.pane_dirty_all /\ u.frame = t.frame /\ u.session = t.session
    BY <1>1, <2>4 DEF TermFields
  <2>6. Len(ring) <= MaxLines
    BY <1>1, <2>3
  <2>7. TermOK(u)
    BY <2>2, <2>3, <2>5, <2>6 DEF TermOK, ScreensOK, HistoryOK, Edited
  <2>8. OnPane(t, u) /\ Noted(t, u)
    BY <2>2, <2>5 DEF OnPane, Noted
  <2>. QED  BY <2>5, <2>7, <2>8 DEF Fed, Synchronized, u
<1>. QED  BY <1>2, <1>3

\* RI, which pulls from the history.
LEMMA ReverseFed ==
    ASSUME NEW t, TermOK(t) PROVE Fed(t, ApplyReverseIndex(t))
<1>1. Edited(t.grid, ReverseIndex(t.grid))
  BY IndexOK DEF TermOK, ScreensOK
<1>2. Fed(t, OnGrid(t, ReverseIndex(t.grid)))
  BY <1>1, OnGridFed
<1>3. Fed(OnGrid(t, ReverseIndex(t.grid)), ApplyReverseIndex(t))
  BY <1>2, RestoreFed DEF Fed, ApplyReverseIndex
<1>. QED  BY <1>2, <1>3, FedTrans

\* DECSC with the attributes.
LEMMA SaveFed ==
    ASSUME NEW t, TermOK(t) PROVE Fed(t, ApplySave(t))
<1>1. Edited(t.grid, SaveCursor(t.grid, t.attrs))
  BY SaveCursorOK DEF TermOK, ScreensOK
<1>. QED  BY <1>1, OnGridFed DEF ApplySave

\* DECRC with the attributes.
LEMMA ApplyRestoreFed ==
    ASSUME NEW t, TermOK(t)
    PROVE  Fed(t, ApplyRestore(t)) /\ ApplyRestore(t).grid = RestoreCursor(t.grid)
<1>. DEFINE g == RestoreCursor(t.grid)
            a == IF g.saved_attrs = {} THEN t.attrs ELSE CHOOSE x \in g.saved_attrs : TRUE
            u == ApplyRestore(t)
<1>1. GridOK(t.grid) /\ t.attrs \in Attrs /\ DOMAIN t = TermFields
  BY DEF TermOK, ScreensOK
<1>2. Edited(t.grid, g) /\ GridOK(g)
  BY <1>1, RestoreCursorOK DEF Edited
<1>3. a \in Attrs
  BY <1>1, <1>2, GridSize
<1>4. u = [t EXCEPT !.grid = g, !.attrs = a]
  BY <1>1 DEF ApplyRestore, TermFields
<1>. HIDE DEF g, a, u
<1>5. /\ DOMAIN u = TermFields /\ u.grid = g /\ u.attrs = a
      /\ u.last_char = t.last_char /\ u.modes = t.modes
      /\ \A f \in TermFields \ {"grid", "attrs", "last_char", "modes", "response", "cursor_dirty"} :
            u[f] = t[f]
  BY <1>1, <1>4 DEF TermFields
<1>6. Fed(t, u)
  BY <1>2, <1>3, <1>5, TouchFed DEF TermOK, Synchronized
<1>. QED  BY <1>5, <1>6 DEF u, g

\* A terminal after some repetitions of ch.
Repeated(t, ch, g, r, v) ==
    [t EXCEPT !.grid = g, !.last_char = {ch}, !.scrollback = r, !.viewport = v]

\* The set the recursion of REP ranges over.
IsRepeated(t, ch, u) ==
    \/ u = t
    \/ \E g \in GridSet(t.grid.cols, t.grid.row_count),
          r \in Seq(Line(t.sb_cols)), v \in ViewportSet : u = Repeated(t, ch, g, r, v)

\* The first repetition.
LEMMA RepeatedOnce ==
    ASSUME NEW t, DOMAIN t = TermFields, NEW ch, NEW g, NEW q, NEW w
    PROVE  /\ Printed(t, g, ch) = Repeated(t, ch, g, t.scrollback, t.viewport)
           /\ Pushed(Printed(t, g, ch), q, w) = Repeated(t, ch, g, q, w)
BY DEF Printed, Pushed, Repeated, TermFields

\* A further one.
LEMMA RepeatedMore ==
    ASSUME NEW t, DOMAIN t = TermFields, NEW ch, NEW h, NEW r, NEW v, NEW g
    PROVE  /\ Printed(Repeated(t, ch, h, r, v), g, ch) = Repeated(t, ch, g, r, v)
           /\ \A q, w : Pushed(Printed(Repeated(t, ch, h, r, v), g, ch), q, w) = Repeated(t, ch, g, q, w)
BY DEF Printed, Pushed, Repeated, TermFields

\* The grid after a repetition.
LEMMA RepeatedGrid ==
    ASSUME NEW t, DOMAIN t = TermFields, NEW ch, NEW h, NEW r, NEW v
    PROVE  Repeated(t, ch, h, r, v).grid = h
BY DEF Repeated, TermFields

\* One repetition of REP.
LEMMA RepeatStep ==
    ASSUME NEW t, TermOK(t), NEW ch \in Chars, NEW u, Fed(t, u), IsRepeated(t, ch, u)
    PROVE  Fed(t, ApplyPrint(u, ch)) /\ IsRepeated(t, ch, ApplyPrint(u, ch))
<1>. DEFINE g == PutChar(u.grid, ch, u.attrs)
            p == Printed(u, g, ch)
            w == ApplyPrint(u, ch)
<1>1. DOMAIN t = TermFields /\ TermOK(u) /\ DOMAIN u = TermFields /\ GridOK(u.grid)
      /\ u.attrs \in Attrs /\ t.viewport \in ViewportSet /\ t.scrollback \in Seq(Line(t.sb_cols))
  BY DEF TermOK, Fed, ScreensOK, ViewportOK, HistoryOK
<1>2. Fed(u, w) /\ IsPushed(p, w)
  BY <1>1, ApplyPrintFed
<1>3. Fed(t, w)
  BY <1>2, FedTrans
<1>4. Edited(u.grid, g)
  BY <1>1, PutCharOK
<1>5. u.grid.cols = t.grid.cols /\ u.grid.row_count = t.grid.row_count
  <2>1. CASE u = t
    BY <2>1
  <2>2. CASE u # t
    <3>1. PICK h \in GridSet(t.grid.cols, t.grid.row_count),
               r \in Seq(Line(t.sb_cols)), v \in ViewportSet : u = Repeated(t, ch, h, r, v)
      BY <2>2 DEF IsRepeated
    <3>2. u.grid = h
      BY <1>1, <3>1, RepeatedGrid
    <3>. QED  BY <3>2 DEF GridSet
  <2>. QED  BY <2>1, <2>2
<1>6. g \in GridSet(t.grid.cols, t.grid.row_count)
  BY <1>4, <1>5 DEF Edited, GridOK
<1>7. p.sb_cols = t.sb_cols
  <2>1. p.sb_cols = u.sb_cols
    BY <1>1, PrintedFields DEF TermFields
  <2>. QED  BY <2>1 DEF Fed
<1>. HIDE DEF g, w
<1>8. IsRepeated(t, ch, w)
  <2>1. CASE u = t
    BY <1>1, <1>2, <1>6, <1>7, <2>1, RepeatedOnce DEF IsPushed, IsRepeated
  <2>2. CASE u # t
    <3>1. PICK h \in GridSet(t.grid.cols, t.grid.row_count),
               r \in Seq(Line(t.sb_cols)), v \in ViewportSet : u = Repeated(t, ch, h, r, v)
      BY <2>2 DEF IsRepeated
    <3>2. CASE w = p
      <4>1. w = Repeated(t, ch, g, r, v)
        <5>1. p = Printed(Repeated(t, ch, h, r, v), g, ch)
          BY <3>1
        <5>. HIDE DEF p
        <5>. QED  BY <1>1, <3>2, <5>1, RepeatedMore
      <4>. QED  BY <1>6, <4>1 DEF IsRepeated
    <3>3. CASE w # p
      <4>1. PICK q \in Seq(Line(t.sb_cols)), z \in ViewportSet : w = Pushed(p, q, z)
        BY <1>2, <1>7, <3>3 DEF IsPushed
      <4>2. w = Repeated(t, ch, g, q, z)
        BY <1>1, <3>1, <4>1, RepeatedMore
      <4>. QED  BY <1>6, <4>1, <4>2 DEF IsRepeated
    <3>. QED  BY <3>2, <3>3
  <2>. QED  BY <2>1, <2>2
<1>. QED  BY <1>3, <1>8 DEF w

\* REP by any count.
LEMMA RepeatFed ==
    ASSUME NEW t, TermOK(t), NEW N \in Nat
    PROVE  Fed(t, ApplyRepeat(t, N))
<1>. DEFINE ch == CHOOSE c \in t.last_char : TRUE
            X == {t} \cup {Repeated(t, ch, g, r, v) :
                     g \in GridSet(t.grid.cols, t.grid.row_count),
                     r \in Seq(Line(t.sb_cols)), v \in ViewportSet}
            S == {u \in X : Fed(t, u)}
            F == [a \in (1..N) \X S |-> ApplyPrint(a[2], ch)]
            Table(f) == [i \in 0..N |-> IF i = 0 THEN t ELSE ApplyPrint(f[i - 1], ch)]
            G == CHOOSE f : f = Table(f)
<1>1. CASE t.last_char = {}
  BY <1>1, FedRefl DEF ApplyRepeat
<1>2. CASE t.last_char # {}
  <2>1. ch \in Chars
    BY <1>2 DEF TermOK
  <2>2. \A u : u \in X <=> IsRepeated(t, ch, u)
    BY DEF IsRepeated
  <2>3. ApplyRepeat(t, N) = G[N]
    BY <1>2 DEF ApplyRepeat
  <2>. HIDE DEF ch, X
  <2>4. \A u : u \in S <=> Fed(t, u) /\ IsRepeated(t, ch, u)
    BY <2>2
  <2>. HIDE DEF S
  <2>5. t \in S
    BY <2>4, FedRefl DEF IsRepeated
  <2>6. \A u \in S : ApplyPrint(u, ch) \in S
    BY <2>1, <2>4, RepeatStep
  <2>7. IsStep(F, N, S)
    BY <2>6 DEF IsStep
  <2>8. PICK g : IsTable(g, t, F, N, S)
    <3>. HIDE DEF F
    <3>. QED  BY <2>5, <2>7, RecursionExists
  <2>9. g \in [0..N -> S] /\ g[0] = t
    BY <2>8 DEF IsTable
  <2>10. ASSUME NEW n \in 1..N PROVE g[n] = ApplyPrint(g[n - 1], ch)
    <3>1. n - 1 \in 0..N
      OBVIOUS
    <3>2. <<n, g[n - 1]>> \in (1..N) \X S
      BY <2>9, <3>1
    <3>3. g[n] = F[<<n, g[n - 1]>>]
      BY <2>8 DEF IsTable
    <3>. QED  BY <3>2, <3>3
  <2>11. g = Table(g)
    <3>1. ASSUME NEW n \in 0..N PROVE g[n] = IF n = 0 THEN t ELSE ApplyPrint(g[n - 1], ch)
      BY <2>9, <2>10
    <3>. QED  BY <2>9, <3>1
  <2>12. G = Table(G)
    BY <2>11
  <2>. HIDE DEF G
  <2>13. G[0] = t /\ \A n \in 1..N : G[n] = ApplyPrint(G[n - 1], ch)
    BY <2>12
  <2>. DEFINE T == {n \in Nat : G[n] \in S}
  <2>14. 0 \in T
    BY <2>5, <2>13
  <2>15. ASSUME NEW n \in 0..(N - 1), n \in T PROVE n + 1 \in T
    <3>1. n + 1 \in 1..N /\ (n + 1) - 1 = n /\ n + 1 \in Nat
      OBVIOUS
    <3>2. G[n + 1] = ApplyPrint(G[n], ch)
      BY <2>13, <3>1
    <3>. QED  BY <2>6, <2>15, <3>1, <3>2
  <2>. HIDE DEF T
  <2>16. N \in T
    BY <2>14, <2>15, BoundedInduction
  <2>. QED  BY <2>3, <2>4, <2>16 DEF T
<1>. QED  BY <1>1, <1>2

\* CHT by any count.
LEMMA TabsOK ==
    ASSUME NEW g, GridOK(g), NEW N \in Nat
    PROVE  Edited(g, Tabs(g, N))
<1>. DEFINE S == {h \in GridSet(g.cols, g.row_count) : Edited(g, h)}
            F == [a \in (1..N) \X S |-> Tab(a[2])]
            Table(f) == [i \in 0..N |-> IF i = 0 THEN g ELSE Tab(f[i - 1])]
            G == CHOOSE f : f = Table(f)
<1>1. g \in S
  BY EditedRefl DEF GridOK
<1>2. \A h \in S : Tab(h) \in S
  <2>1. ASSUME NEW h \in S PROVE Tab(h) \in S
    <3>1. GridOK(h) /\ Edited(g, h)
      BY DEF Edited
    <3>2. Edited(h, Tab(h))
      BY <3>1, TabOK
    <3>3. Edited(g, Tab(h))
      BY <3>1, <3>2, EditedTrans
    <3>. QED  BY <3>3 DEF Edited, GridOK
  <2>. QED  BY <2>1
<1>3. Tabs(g, N) = G[N]
  BY DEF Tabs
<1>4. \A h \in S : Edited(g, h)
  OBVIOUS
<1>. HIDE DEF S
<1>5. IsStep(F, N, S)
  BY <1>2 DEF IsStep
<1>6. PICK t : IsTable(t, g, F, N, S)
  <2>. HIDE DEF F
  <2>. QED  BY <1>1, <1>5, RecursionExists
<1>7. t \in [0..N -> S] /\ t[0] = g
  BY <1>6 DEF IsTable
<1>8. ASSUME NEW n \in 1..N PROVE t[n] = Tab(t[n - 1])
  <2>1. n - 1 \in 0..N
    OBVIOUS
  <2>2. <<n, t[n - 1]>> \in (1..N) \X S
    BY <1>7, <2>1
  <2>3. t[n] = F[<<n, t[n - 1]>>]
    BY <1>6 DEF IsTable
  <2>. QED  BY <2>2, <2>3
<1>9. t = Table(t)
  <2>1. ASSUME NEW n \in 0..N PROVE t[n] = IF n = 0 THEN g ELSE Tab(t[n - 1])
    BY <1>7, <1>8
  <2>. QED  BY <1>7, <2>1
<1>10. G = Table(G)
  BY <1>9
<1>. HIDE DEF G
<1>11. G[0] = g /\ \A n \in 1..N : G[n] = Tab(G[n - 1])
  BY <1>10
<1>. DEFINE T == {n \in Nat : G[n] \in S}
<1>12. 0 \in T
  BY <1>1, <1>11
<1>13. ASSUME NEW n \in 0..(N - 1), n \in T PROVE n + 1 \in T
  <2>1. n + 1 \in 1..N /\ (n + 1) - 1 = n /\ n + 1 \in Nat
    OBVIOUS
  <2>2. G[n + 1] = Tab(G[n])
    BY <1>11, <2>1
  <2>. QED  BY <1>2, <1>13, <2>1, <2>2
<1>. HIDE DEF T
<1>14. N \in T
  BY <1>12, <1>13, BoundedInduction
<1>. QED  BY <1>3, <1>4, <1>14 DEF T

\* CBT by any count.
LEMMA BackTabsOK ==
    ASSUME NEW g, GridOK(g), NEW N \in Nat
    PROVE  Edited(g, BackTabs(g, N))
<1>. DEFINE S == {h \in GridSet(g.cols, g.row_count) : Edited(g, h)}
            F == [a \in (1..N) \X S |-> BackspaceToTab(a[2])]
            Table(f) == [i \in 0..N |-> IF i = 0 THEN g ELSE BackspaceToTab(f[i - 1])]
            G == CHOOSE f : f = Table(f)
<1>1. g \in S
  BY EditedRefl DEF GridOK
<1>2. \A h \in S : BackspaceToTab(h) \in S
  <2>1. ASSUME NEW h \in S PROVE BackspaceToTab(h) \in S
    <3>1. GridOK(h) /\ Edited(g, h)
      BY DEF Edited
    <3>2. Edited(h, BackspaceToTab(h))
      BY <3>1, TabOK
    <3>3. Edited(g, BackspaceToTab(h))
      BY <3>1, <3>2, EditedTrans
    <3>. QED  BY <3>3 DEF Edited, GridOK
  <2>. QED  BY <2>1
<1>3. BackTabs(g, N) = G[N]
  BY DEF BackTabs
<1>4. \A h \in S : Edited(g, h)
  OBVIOUS
<1>. HIDE DEF S
<1>5. IsStep(F, N, S)
  BY <1>2 DEF IsStep
<1>6. PICK t : IsTable(t, g, F, N, S)
  <2>. HIDE DEF F
  <2>. QED  BY <1>1, <1>5, RecursionExists
<1>7. t \in [0..N -> S] /\ t[0] = g
  BY <1>6 DEF IsTable
<1>8. ASSUME NEW n \in 1..N PROVE t[n] = BackspaceToTab(t[n - 1])
  <2>1. n - 1 \in 0..N
    OBVIOUS
  <2>2. <<n, t[n - 1]>> \in (1..N) \X S
    BY <1>7, <2>1
  <2>3. t[n] = F[<<n, t[n - 1]>>]
    BY <1>6 DEF IsTable
  <2>. QED  BY <2>2, <2>3
<1>9. t = Table(t)
  <2>1. ASSUME NEW n \in 0..N PROVE t[n] = IF n = 0 THEN g ELSE BackspaceToTab(t[n - 1])
    BY <1>7, <1>8
  <2>. QED  BY <1>7, <2>1
<1>10. G = Table(G)
  BY <1>9
<1>. HIDE DEF G
<1>11. G[0] = g /\ \A n \in 1..N : G[n] = BackspaceToTab(G[n - 1])
  BY <1>10
<1>. DEFINE T == {n \in Nat : G[n] \in S}
<1>12. 0 \in T
  BY <1>1, <1>11
<1>13. ASSUME NEW n \in 0..(N - 1), n \in T PROVE n + 1 \in T
  <2>1. n + 1 \in 1..N /\ (n + 1) - 1 = n /\ n + 1 \in Nat
    OBVIOUS
  <2>2. G[n + 1] = BackspaceToTab(G[n])
    BY <1>11, <2>1
  <2>. QED  BY <1>2, <1>13, <2>1, <2>2
<1>. HIDE DEF T
<1>14. N \in T
  BY <1>12, <1>13, BoundedInduction
<1>. QED  BY <1>3, <1>4, <1>14 DEF T

\* Setting the modes leaves the other fields.
LEMMA SetModes ==
    ASSUME NEW t, DOMAIN t = TermFields, t.modes \in ModeSet, NEW m \in ModeSet, NEW u,
           u = [t EXCEPT !.modes = m]
    PROVE  DOMAIN u = TermFields /\ u.modes = m /\ \A f \in TermFields \ {"modes"} : u[f] = t[f]
BY DEF TermFields

\* Setting one flag leaves the others.
LEMMA FlagSet ==
    ASSUME NEW m \in ModeSet, NEW f \in FlagModes, NEW on \in BOOLEAN, NEW k,
           k = [m EXCEPT !.flag[f] = on]
    PROVE  /\ k \in ModeSet
           /\ k.flag[f] = on /\ \A e \in FlagModes \ {f} : k.flag[e] = m.flag[e]
<1>. DEFINE fl == [m.flag EXCEPT ![f] = on]
<1>1. m.flag \in [FlagModes -> BOOLEAN]
  BY DEF ModeSet
<1>2. fl \in [FlagModes -> BOOLEAN] /\ fl[f] = on /\ \A e \in FlagModes \ {f} : fl[e] = m.flag[e]
  BY <1>1
<1>3. k = [m EXCEPT !.flag = fl]
  BY DEF ModeSet
<1>. HIDE DEF fl
<1>4. k \in ModeSet /\ k.flag = fl
  BY <1>2, <1>3 DEF ModeSet
<1>. QED  BY <1>2, <1>4

\* Output that sets a mode the frame does not show.
LEMMA ModeFed ==
    ASSUME NEW t, TermOK(t), NEW on \in BOOLEAN, NEW shape \in CursorShapes, NEW v \in 0..2,
           NEW a \in Attrs
    PROVE  /\ Fed(t, SetAnsiMode(t, on))
           /\ Fed(t, [t EXCEPT !.modes.flag["application_keypad"] = on])
           /\ Fed(t, SetCursorShape(t, shape))
           /\ Fed(t, [t EXCEPT !.modes.modify_other_keys = v])
           /\ Fed(t, Sgr(t, a)) /\ Fed(t, QueueResponse(t))
<1>1. DOMAIN t = TermFields /\ t.modes \in ModeSet /\ GridOK(t.grid) /\ t.attrs \in Attrs
      /\ t.last_char \in SUBSET Chars /\ Edited(t.grid, t.grid)
  BY EditedRefl DEF TermOK, ScreensOK
<1>2. {"application_keypad", "insert_mode", "synchronized_output", "reverse_video"} \subseteq FlagModes
  BY DEF FlagModes
<1>3. ASSUME NEW f \in {"application_keypad", "insert_mode"}
      PROVE  Fed(t, [t EXCEPT !.modes.flag[f] = on])
  <2>. DEFINE m == [t.modes EXCEPT !.flag[f] = on]
              u == [t EXCEPT !.modes = m]
  <2>1. m \in ModeSet /\ m.flag["synchronized_output"] = t.modes.flag["synchronized_output"]
        /\ m.flag["reverse_video"] = t.modes.flag["reverse_video"]
    BY <1>1, <1>2, FlagSet
  <2>2. [t EXCEPT !.modes.flag[f] = on] = u
    BY <1>1 DEF TermFields, ModeSet
  <2>. HIDE DEF m
  <2>3. u.modes = m /\ DOMAIN u = TermFields /\ \A e \in TermFields \ {"modes"} : u[e] = t[e]
    BY <1>1 DEF TermFields
  <2>. HIDE DEF u
  <2>4. u.grid = t.grid /\ u.attrs = t.attrs /\ u.last_char = t.last_char
    BY <2>3 DEF TermFields
  <2>5. Fed(t, u)
    BY <1>1, <2>1, <2>3, <2>4, TouchFed DEF Synchronized
  <2>. QED  BY <2>2, <2>5
<1>4. Fed(t, SetCursorShape(t, shape))
  <2>. DEFINE m == [t.modes EXCEPT !.shape = shape]
              u == [t EXCEPT !.modes = m, !.cursor_dirty = TRUE]
  <2>1. m \in ModeSet /\ m.flag = t.modes.flag
    BY <1>1 DEF ModeSet
  <2>2. SetCursorShape(t, shape) = u
    BY <1>1 DEF TermFields, ModeSet, SetCursorShape
  <2>. HIDE DEF m
  <2>3. u.modes = m /\ DOMAIN u = TermFields /\ \A e \in TermFields \ {"modes", "cursor_dirty"} : u[e] = t[e]
    BY <1>1 DEF TermFields
  <2>. HIDE DEF u
  <2>4. u.grid = t.grid /\ u.attrs = t.attrs /\ u.last_char = t.last_char
    BY <2>3 DEF TermFields
  <2>5. Fed(t, u)
    BY <1>1, <2>1, <2>3, <2>4, TouchFed DEF Synchronized
  <2>. QED  BY <2>2, <2>5
<1>5. Fed(t, [t EXCEPT !.modes.modify_other_keys = v])
  <2>. DEFINE m == [t.modes EXCEPT !.modify_other_keys = v]
              u == [t EXCEPT !.modes = m]
  <2>1. m \in ModeSet /\ m.flag = t.modes.flag
    BY <1>1 DEF ModeSet
  <2>2. [t EXCEPT !.modes.modify_other_keys = v] = u
    BY <1>1 DEF TermFields, ModeSet
  <2>. HIDE DEF m
  <2>3. u.modes = m /\ DOMAIN u = TermFields /\ \A e \in TermFields \ {"modes"} : u[e] = t[e]
    BY <1>1 DEF TermFields
  <2>. HIDE DEF u
  <2>4. u.grid = t.grid /\ u.attrs = t.attrs /\ u.last_char = t.last_char
    BY <2>3 DEF TermFields
  <2>5. Fed(t, u)
    BY <1>1, <2>1, <2>3, <2>4, TouchFed DEF Synchronized
  <2>. QED  BY <2>2, <2>5
<1>6. Fed(t, Sgr(t, a))
  <2>. DEFINE u == Sgr(t, a)
  <2>1. u.attrs = a /\ DOMAIN u = TermFields /\ \A e \in TermFields \ {"attrs"} : u[e] = t[e]
    BY <1>1 DEF TermFields, Sgr
  <2>. HIDE DEF u
  <2>2. u.grid = t.grid /\ u.modes = t.modes /\ u.last_char = t.last_char
    BY <2>1 DEF TermFields
  <2>3. Fed(t, u)
    BY <1>1, <2>1, <2>2, TouchFed DEF Synchronized
  <2>. QED  BY <2>3 DEF u
<1>7. Fed(t, QueueResponse(t))
  <2>. DEFINE u == QueueResponse(t)
  <2>1. DOMAIN u = TermFields /\ \A e \in TermFields \ {"response"} : u[e] = t[e]
    BY <1>1 DEF TermFields, QueueResponse
  <2>. HIDE DEF u
  <2>2. u.grid = t.grid /\ u.modes = t.modes /\ u.last_char = t.last_char /\ u.attrs = t.attrs
    BY <2>1 DEF TermFields
  <2>3. Fed(t, u)
    BY <1>1, <2>1, <2>2, TouchFed DEF Synchronized
  <2>. QED  BY <2>3 DEF u
<1>8. Fed(t, SetAnsiMode(t, on)) /\ Fed(t, [t EXCEPT !.modes.flag["application_keypad"] = on])
  BY <1>3 DEF SetAnsiMode
<1>. QED  BY <1>4, <1>5, <1>6, <1>7, <1>8

\* DECSTR keeps an open synchronized update.
LEMMA SoftResetModesOK ==
    ASSUME NEW m \in ModeSet
    PROVE  SoftResetModes(m) \in ModeSet
           /\ SoftResetModes(m).flag["synchronized_output"] = m.flag["synchronized_output"]
<1>. DEFINE fl == [f \in FlagModes |->
                     IF f \in {"cursor_blink", "synchronized_output", "alt_screen"}
                       THEN m.flag[f] ELSE DefaultModes.flag[f]]
<1>1. m.flag \in [FlagModes -> BOOLEAN]
  BY DEF ModeSet
<1>2. DefaultModes.flag \in [FlagModes -> BOOLEAN]
  BY DEF DefaultModes
<1>3. fl \in [FlagModes -> BOOLEAN]
  BY <1>1, <1>2
<1>4. fl["synchronized_output"] = m.flag["synchronized_output"]
  BY DEF FlagModes
<1>5. SoftResetModes(m) = [flag |-> fl, mouse |-> "None", shape |-> "Block", modify_other_keys |-> 0]
  BY DEF SoftResetModes
<1>. HIDE DEF fl
<1>. QED  BY <1>3, <1>4, <1>5 DEF ModeSet, MouseModes, CursorShapes

\* What DECSTR leaves.
LEMMA SoftResetFields ==
    ASSUME NEW t, TermOK(t)
    PROVE  LET u == SoftReset(t)
           IN  /\ DOMAIN u = TermFields /\ u.pane_dirty_all = TRUE
               /\ GridOK(u.grid) /\ u.attrs \in Attrs /\ u.modes = SoftResetModes(t.modes)
               /\ u.selection \in {t.selection, {}} /\ u.scrollback = t.scrollback
               /\ \A f \in {"saved", "alt", "sb_cols", "viewport", "last_char", "visible",
                            "pane_cols", "pane_dirty", "frame", "session"} : u[f] = t[f]
<1>. DEFINE a == SetOriginMode(t.grid, FALSE)
            b == SetScrollRegion(a, 0, t.grid.row_count - 1)
            c == ClearAllTabStops(b)
            g == SetCursor(c, 0, 0)
            s == SelectionClear(t)
            u == [s EXCEPT !.modes = SoftResetModes(@), !.grid = g,
                           !.attrs = DefaultAttrs, !.pane_dirty_all = TRUE]
<1>1. GridOK(t.grid) /\ DOMAIN t = TermFields /\ t.grid.row_count - 1 \in Nat
  <2>1. GridOK(t.grid) /\ DOMAIN t = TermFields
    BY DEF TermOK, ScreensOK
  <2>. QED  BY <2>1, GridSize
<1>2. GridOK(a)
  BY <1>1, OriginOK DEF Edited
<1>3. GridOK(b)
  <2>. HIDE DEF a
  <2>. QED  BY <1>1, <1>2, RegionOK DEF Edited
<1>4. GridOK(c)
  <2>. HIDE DEF b
  <2>. QED  BY <1>3, StopsOK DEF Edited
<1>5. GridOK(g)
  <2>. HIDE DEF c
  <2>. QED  BY <1>4, SetCursorOK DEF Edited
<1>6. DOMAIN s = TermFields /\ s.selection \in {t.selection, {}}
      /\ \A f \in TermFields \ {"selection", "pane_dirty_all"} : s[f] = t[f]
  BY <1>1 DEF SelectionClear, TermFields
<1>7. SoftReset(t) = u
  BY DEF SoftReset
<1>. HIDE DEF g, s
<1>8. DOMAIN u = TermFields /\ u.pane_dirty_all = TRUE /\ u.grid = g /\ u.attrs = DefaultAttrs
      /\ u.modes = SoftResetModes(s.modes) /\ u.selection = s.selection
      /\ \A f \in TermFields \ {"grid", "attrs", "modes", "pane_dirty_all"} : u[f] = s[f]
  BY <1>6 DEF TermFields
<1>. HIDE DEF u
<1>. QED  BY <1>5, <1>6, <1>7, <1>8, SizeAssumption DEF TermFields

\* RIS: the history goes, the pane is marked.
LEMMA FullResetFed ==
    ASSUME NEW t, TermOK(t)
    PROVE  Fed(t, FullReset(t))
<1>. DEFINE s == SoftReset(t)
            g == EraseInDisplay(s.grid, 2)
            u == FullReset(t)
<1>1. /\ DOMAIN s = TermFields /\ s.pane_dirty_all = TRUE
      /\ GridOK(s.grid) /\ s.attrs \in Attrs /\ s.modes = SoftResetModes(t.modes)
      /\ s.selection \in {t.selection, {}}
      /\ \A f \in {"saved", "alt", "sb_cols", "viewport", "last_char", "visible",
                   "pane_cols", "pane_dirty", "frame", "session"} : s[f] = t[f]
  BY SoftResetFields
<1>. HIDE DEF s
<1>2. GridOK(g)
  <2>1. 2 \in 0..3
    OBVIOUS
  <2>. QED  BY <1>1, <2>1, EraseOK DEF Edited
<1>3. u = [s EXCEPT !.grid = g, !.scrollback = <<>>]
  BY <1>1 DEF FullReset, TermFields, s
<1>. HIDE DEF g, u
<1>4. /\ DOMAIN u = TermFields /\ u.grid = g /\ u.scrollback = <<>>
      /\ \A f \in TermFields \ {"grid", "scrollback"} : u[f] = s[f]
  BY <1>1, <1>3 DEF TermFields
<1>5. /\ u.pane_dirty_all = TRUE /\ u.attrs = s.attrs /\ u.modes = s.modes /\ u.selection = s.selection
      /\ \A f \in {"saved", "alt", "sb_cols", "viewport", "last_char", "visible",
                   "pane_cols", "pane_dirty", "frame", "session"} : u[f] = s[f]
  BY <1>1, <1>4 DEF TermFields
<1>6. t.modes \in ModeSet
  BY DEF TermOK
<1>7. u.modes \in ModeSet /\ Synchronized(u) = Synchronized(t)
  BY <1>1, <1>5, <1>6, SoftResetModesOK DEF Synchronized
<1>8. /\ GridOK(u.grid) /\ u.attrs \in Attrs /\ u.scrollback \in {t.scrollback, <<>>}
      /\ u.selection \in {t.selection, {}}
      /\ \A f \in {"saved", "alt", "sb_cols", "viewport", "last_char", "visible",
                   "pane_cols", "pane_dirty", "frame", "session"} : u[f] = t[f]
  BY <1>1, <1>2, <1>4, <1>5
<1>9. Fed(t, u)
  BY <1>4, <1>5, <1>7, <1>8, MarkedFed
<1>. QED  BY <1>9 DEF u

\* ED, mode 3 with the history included.
LEMMA ApplyEraseFed ==
    ASSUME NEW t, TermOK(t), NEW mode \in 0..3
    PROVE  Fed(t, ApplyErase(t, mode))
<1>1. GridOK(t.grid) /\ DOMAIN t = TermFields
  BY DEF TermOK, ScreensOK
<1>2. CASE mode # 3
  <2>1. Edited(t.grid, EraseInDisplay(t.grid, mode))
    BY <1>1, EraseOK
  <2>. QED  BY <1>2, <2>1, OnGridFed DEF ApplyErase
<1>3. CASE mode = 3
  <2>. DEFINE g == EraseInDisplay(t.grid, 2)
              u == [t EXCEPT !.scrollback = <<>>, !.grid = g]
  <2>1. Edited(t.grid, g) /\ g.dirty_all
    <3>1. 2 \in 0..3
      OBVIOUS
    <3>. QED  BY <1>1, <3>1, EraseOK
  <2>2. ApplyErase(t, mode) = u
    BY <1>1, <1>3 DEF ApplyErase, TermFields
  <2>. HIDE DEF g
  <2>3. /\ u.grid = g /\ DOMAIN u = TermFields
        /\ u.saved = t.saved /\ u.alt = t.alt /\ u.scrollback = <<>>
        /\ u.sb_cols = t.sb_cols /\ u.viewport = t.viewport /\ u.selection = t.selection
        /\ u.attrs = t.attrs /\ u.last_char = t.last_char /\ u.modes = t.modes
        /\ u.visible = t.visible /\ u.pane_cols = t.pane_cols /\ u.pane_dirty = t.pane_dirty
        /\ u.pane_dirty_all = t.pane_dirty_all /\ u.frame = t.frame /\ u.session = t.session
    BY <1>1 DEF TermFields
  <2>. HIDE DEF u
  <2>4. HistoryOK(u)
    <3>1. u.scrollback \in Seq(Line(u.sb_cols)) /\ Len(u.scrollback) = 0
      BY <2>3, NoLines
    <3>. QED  BY <2>3, <3>1, TerminalAssumption DEF TermOK, HistoryOK
  <2>5. TermOK(u)
    BY <2>1, <2>3, <2>4 DEF TermOK, ScreensOK, Edited
  <2>6. OnPane(t, u) /\ Noted(t, u)
    BY <2>1, <2>3 DEF OnPane, Noted
  <2>. QED  BY <2>2, <2>3, <2>5, <2>6 DEF Fed, Synchronized
<1>. QED  BY <1>2, <1>3

-----------------------------------------------------------------------------
\* What leaving the alternate screen brings back.
MainScreen == {"rows", "scroll_top", "scroll_bottom", "tab_stops"}

\* From t to u the saved main screen is kept, or it is on screen again.
MainKept(t, u) ==
    t.alt => IF u.alt THEN u.saved = t.saved
             ELSE \A f \in MainScreen : u.grid[f] = (CHOOSE g \in t.saved : TRUE)[f]

\* What every parser action does to a terminal, screen switches included.
Emitted(t, u) ==
    /\ TermOK(u)
    /\ OnPane(t, u) /\ Noted(t, u)
    /\ MainKept(t, u)
    /\ Synchronized(u) = Synchronized(t) \/ u.pane_dirty_all
    /\ t.viewport.scroll_offset > 0 => u.viewport.scroll_offset > 0 \/ (u.alt /\ ~t.alt)

\* An action that stays on its screen is one of them.
LEMMA FedEmitted ==
    ASSUME NEW t, NEW u, Fed(t, u) PROVE Emitted(t, u)
<1>1. TermOK(u)
  BY DEF Fed
<1>. QED  BY <1>1 DEF Fed, Emitted, MainKept

\* Marking the whole pane leaves the other fields.
LEMMA MarkAllFields ==
    ASSUME NEW t, DOMAIN t = TermFields
    PROVE  LET u == [t EXCEPT !.pane_dirty_all = TRUE]
           IN  /\ DOMAIN u = TermFields /\ u.pane_dirty_all = TRUE
               /\ \A f \in TermFields \ {"pane_dirty_all"} : u[f] = t[f]
BY DEF TermFields

\* A private mode, whose every arm ends by marking the pane.
LEMMA MarkAllEmitted ==
    ASSUME NEW t, TermOK(t), NEW w, TermOK(w), NEW u, u = [w EXCEPT !.pane_dirty_all = TRUE],
           w.visible = t.visible, w.pane_cols = t.pane_cols, w.frame = t.frame,
           w.session = t.session, w.pane_dirty = t.pane_dirty, MainKept(t, w),
           t.viewport.scroll_offset > 0 => w.viewport.scroll_offset > 0 \/ (w.alt /\ ~t.alt)
    PROVE  Emitted(t, u)
<1>1. DOMAIN w = TermFields
  BY DEF TermOK
<1>2. /\ u.grid = w.grid /\ DOMAIN u = TermFields
      /\ u.saved = w.saved /\ u.alt = w.alt /\ u.scrollback = w.scrollback
      /\ u.sb_cols = w.sb_cols /\ u.viewport = w.viewport /\ u.selection = w.selection
      /\ u.attrs = w.attrs /\ u.last_char = w.last_char /\ u.modes = w.modes
      /\ u.visible = w.visible /\ u.pane_cols = w.pane_cols /\ u.pane_dirty = w.pane_dirty
      /\ u.pane_dirty_all = TRUE /\ u.frame = w.frame /\ u.session = w.session
  BY <1>1, MarkAllFields DEF TermFields
<1>3. TermOK(u)
  BY <1>2 DEF TermOK, ScreensOK, HistoryOK
<1>4. OnPane(t, u) /\ Noted(t, u) /\ MainKept(t, u)
  BY <1>2 DEF OnPane, Noted, MainKept
<1>. QED  BY <1>2, <1>3, <1>4 DEF Emitted

-----------------------------------------------------------------------------
(* Private modes and the alternate screen.                                  *)

\* Entering the alternate screen, or being there already.
LEMMA EnterAltOK ==
    ASSUME NEW t, TermOK(t), NEW save \in BOOLEAN, NEW w, w = EnterAltScreen(t, save)
    PROVE  /\ TermOK(w) /\ MainKept(t, w)
           /\ w.visible = t.visible /\ w.pane_cols = t.pane_cols /\ w.frame = t.frame
           /\ w.session = t.session /\ w.pane_dirty = t.pane_dirty
           /\ t.viewport.scroll_offset > 0 => w.viewport.scroll_offset > 0 \/ (w.alt /\ ~t.alt)
<1>1. CASE t.alt
  BY <1>1 DEF EnterAltScreen, MainKept
<1>2. CASE ~t.alt
  <2>. DEFINE main == IF save THEN SaveCursor(t.grid, t.attrs) ELSE t.grid
              g == NewGrid(t.grid.cols, t.grid.row_count)
              m == [t.modes EXCEPT !.flag["alt_screen"] = TRUE]
              v == [t.viewport EXCEPT !.scroll_offset = 0, !.follow_output = TRUE]
  <2>1. /\ GridOK(t.grid) /\ DOMAIN t = TermFields /\ t.attrs \in Attrs /\ t.modes \in ModeSet
        /\ t.viewport \in ViewportSet
    BY DEF TermOK, ScreensOK, ViewportOK
  <2>2. GridOK(main)
    BY <2>1, SaveCursorOK DEF Edited
  <2>3. GridOK(g)
    BY <2>1, NewGridOK DEF GridOK
  <2>4. m \in ModeSet
    <3>1. "alt_screen" \in FlagModes
      BY DEF FlagModes
    <3>2. \A on \in BOOLEAN : [t.modes EXCEPT !.flag["alt_screen"] = on] \in ModeSet
      BY <2>1, <3>1, FlagSet
    <3>. QED  BY <3>2
  <2>5. ViewportOK(v)
    <3>1. v \in ViewportSet /\ v.scroll_offset = 0 /\ v.max_offset \in Nat
      BY <2>1 DEF ViewportSet
    <3>. HIDE DEF v
    <3>. QED  BY <3>1 DEF ViewportOK
  <2>6. w = [t EXCEPT !.saved = {main}, !.grid = g, !.alt = TRUE, !.modes = m, !.viewport = v]
    BY <1>2, <2>1 DEF EnterAltScreen, TermFields, ModeSet
  <2>. HIDE DEF main, g, m, v
  <2>7. /\ w.grid = g /\ DOMAIN w = TermFields
        /\ w.saved = {main} /\ w.alt = TRUE /\ w.scrollback = t.scrollback
        /\ w.sb_cols = t.sb_cols /\ w.viewport = v /\ w.selection = t.selection
        /\ w.attrs = t.attrs /\ w.last_char = t.last_char /\ w.modes = m
        /\ w.visible = t.visible /\ w.pane_cols = t.pane_cols /\ w.pane_dirty = t.pane_dirty
        /\ w.pane_dirty_all = t.pane_dirty_all /\ w.frame = t.frame /\ w.session = t.session
    BY <2>1, <2>6 DEF TermFields
  <2>8. TermOK(w)
    BY <2>2, <2>3, <2>4, <2>5, <2>7 DEF TermOK, ScreensOK, HistoryOK
  <2>. QED  BY <1>2, <2>7, <2>8 DEF MainKept
<1>. QED  BY <1>1, <1>2 DEF TermOK, ScreensOK

\* DECRC leaves lines, region and tab stops.
LEMMA RestoreCursorKeeps ==
    ASSUME NEW g, GridOK(g)
    PROVE  \A f \in MainScreen : RestoreCursor(g)[f] = g[f]
<1>1. g \in GridSet(g.cols, g.row_count)
  BY DEF GridOK
<1>. DEFINE p == ClampCursor(g, g.saved_cursor.row, g.saved_cursor.col)
<1>2. RestoreCursor(g) = [g EXCEPT !.cursor = p, !.wrap_pending = FALSE]
  BY DEF RestoreCursor, MoveTo
<1>. HIDE DEF p
<1>. QED  BY <1>1, <1>2 DEF GridSet, MainScreen

\* Leaving the alternate screen brings the saved grid back.
LEMMA ExitAltOK ==
    ASSUME NEW t, TermOK(t), NEW restore \in BOOLEAN, NEW w, w = ExitAltScreen(t, restore)
    PROVE  /\ TermOK(w) /\ MainKept(t, w)
           /\ w.visible = t.visible /\ w.pane_cols = t.pane_cols /\ w.frame = t.frame
           /\ w.session = t.session /\ w.pane_dirty = t.pane_dirty
           /\ t.viewport.scroll_offset > 0 => w.viewport.scroll_offset > 0 \/ (w.alt /\ ~t.alt)
<1>1. CASE ~t.alt
  BY <1>1 DEF ExitAltScreen, MainKept
<1>2. CASE t.alt
  <2>. DEFINE main == CHOOSE g \in t.saved : TRUE
              m == [t.modes EXCEPT !.flag["alt_screen"] = FALSE]
              b == [t EXCEPT !.alt = FALSE, !.saved = {}, !.grid = main, !.modes = m]
  <2>1. /\ DOMAIN t = TermFields /\ t.modes \in ModeSet
        /\ t.saved # {} /\ \A g \in t.saved : GridOK(g)
    BY <1>2 DEF TermOK, ScreensOK
  <2>2. GridOK(main)
    BY <2>1
  <2>3. m \in ModeSet
    <3>1. "alt_screen" \in FlagModes
      BY DEF FlagModes
    <3>2. \A on \in BOOLEAN : [t.modes EXCEPT !.flag["alt_screen"] = on] \in ModeSet
      BY <2>1, <3>1, FlagSet
    <3>. QED  BY <3>2
  <2>4. w = IF restore THEN ApplyRestore(b) ELSE b
    <3>1. b = [t EXCEPT !.alt = FALSE, !.saved = {}, !.grid = main, !.modes.flag["alt_screen"] = FALSE]
      BY <2>1 DEF TermFields, ModeSet
    <3>. QED  BY <1>2, <3>1 DEF ExitAltScreen
  <2>5. MainScreen = {"rows", "scroll_top", "scroll_bottom", "tab_stops"}
    BY DEF MainScreen
  <2>. HIDE DEF m, main
  <2>6. /\ b.grid = main /\ DOMAIN b = TermFields
        /\ b.saved = {} /\ b.alt = FALSE /\ b.scrollback = t.scrollback
        /\ b.sb_cols = t.sb_cols /\ b.viewport = t.viewport /\ b.selection = t.selection
        /\ b.attrs = t.attrs /\ b.last_char = t.last_char /\ b.modes = m
        /\ b.visible = t.visible /\ b.pane_cols = t.pane_cols /\ b.pane_dirty = t.pane_dirty
        /\ b.pane_dirty_all = t.pane_dirty_all /\ b.frame = t.frame /\ b.session = t.session
    BY <2>1 DEF TermFields
  <2>. HIDE DEF b
  <2>7. TermOK(b)
    BY <2>2, <2>3, <2>6 DEF TermOK, ScreensOK, HistoryOK
  <2>8. Fed(b, w) /\ \A f \in MainScreen : w.grid[f] = main[f]
    <3>1. CASE restore
      <4>1. w = ApplyRestore(b)
        BY <2>4, <3>1
      <4>2. Fed(b, w) /\ w.grid = RestoreCursor(main)
        BY <2>6, <2>7, <4>1, ApplyRestoreFed
      <4>. QED  BY <2>2, <4>2, RestoreCursorKeeps
    <3>2. CASE ~restore
      <4>1. w = b
        BY <2>4, <3>2
      <4>. QED  BY <2>6, <2>7, <4>1, FedRefl
    <3>. QED  BY <3>1, <3>2
  <2>9. MainKept(t, w)
    BY <1>2, <2>6, <2>8 DEF MainKept, Fed, main
  <2>. QED  BY <2>6, <2>8, <2>9 DEF Fed, OnPane
<1>. QED  BY <1>1, <1>2 DEF TermOK, ScreensOK

\* A parser action followed by marking the pane.
LEMMA FedMarked ==
    ASSUME NEW t, TermOK(t), NEW w, Fed(t, w), NEW u, u = [w EXCEPT !.pane_dirty_all = TRUE]
    PROVE  Emitted(t, u)
<1>1. /\ TermOK(w) /\ MainKept(t, w)
      /\ w.visible = t.visible /\ w.pane_cols = t.pane_cols /\ w.frame = t.frame
      /\ w.session = t.session /\ w.pane_dirty = t.pane_dirty
      /\ t.viewport.scroll_offset > 0 => w.viewport.scroll_offset > 0
  BY FedEmitted DEF Fed, OnPane, Emitted
<1>. QED  BY <1>1, MarkAllEmitted

\* Every arm of set_private_mode.
LEMMA PrivateModeEmitted ==
    ASSUME NEW t, TermOK(t), NEW mode \in PrivateModes, NEW set \in BOOLEAN
    PROVE  Emitted(t, SetPrivateMode(t, mode, set))
<1>. DEFINE w == CASE mode \in PrivateFlags -> [t EXCEPT !.modes.flag[mode] = set]
                   [] mode = "origin" -> OnGrid(t, SetOriginMode(t.grid, set))
                   [] mode = "alternate" ->
                        IF set THEN EnterAltScreen(t, FALSE) ELSE ExitAltScreen(t, FALSE)
                   [] mode = "alternate_save" ->
                        IF set THEN EnterAltScreen(t, TRUE) ELSE ExitAltScreen(t, TRUE)
                   [] mode = "save_cursor" -> IF set THEN ApplySave(t) ELSE ApplyRestore(t)
                   [] mode \in MouseModes ->
                        [t EXCEPT !.modes.mouse = IF set THEN mode ELSE "None"]
                   [] OTHER -> t
            Good(x) ==
              /\ TermOK(x) /\ MainKept(t, x)
              /\ x.visible = t.visible /\ x.pane_cols = t.pane_cols /\ x.frame = t.frame
              /\ x.session = t.session /\ x.pane_dirty = t.pane_dirty
              /\ t.viewport.scroll_offset > 0 => x.viewport.scroll_offset > 0 \/ (x.alt /\ ~t.alt)
<1>1. \A x : Fed(t, x) => Good(x)
  BY FedEmitted DEF Fed, OnPane, Emitted
<1>2. DOMAIN t = TermFields /\ t.modes \in ModeSet /\ GridOK(t.grid)
  BY DEF TermOK, ScreensOK
<1>3. ASSUME NEW m \in ModeSet PROVE Good([t EXCEPT !.modes = m])
  <2>. DEFINE x == [t EXCEPT !.modes = m]
  <2>1. /\ x.grid = t.grid /\ DOMAIN x = TermFields
        /\ x.saved = t.saved /\ x.alt = t.alt /\ x.scrollback = t.scrollback
        /\ x.sb_cols = t.sb_cols /\ x.viewport = t.viewport /\ x.selection = t.selection
        /\ x.attrs = t.attrs /\ x.last_char = t.last_char /\ x.modes = m
        /\ x.visible = t.visible /\ x.pane_cols = t.pane_cols /\ x.pane_dirty = t.pane_dirty
        /\ x.pane_dirty_all = t.pane_dirty_all /\ x.frame = t.frame /\ x.session = t.session
    BY <1>2 DEF TermFields
  <2>. HIDE DEF x
  <2>2. TermOK(x)
    BY <2>1 DEF TermOK, ScreensOK, HistoryOK
  <2>3. Good(x)
    BY <2>1, <2>2 DEF MainKept
  <2>. QED  BY <2>3 DEF x
<1>. HIDE DEF Good
<1>4. Good(t)
  BY <1>1, FedRefl
<1>5. ASSUME mode \in PrivateFlags PROVE Good([t EXCEPT !.modes.flag[mode] = set])
  <2>. DEFINE m == [t.modes EXCEPT !.flag[mode] = set]
  <2>1. mode \in FlagModes
    BY <1>5 DEF PrivateFlags
  <2>2. m \in ModeSet
    BY <1>2, <2>1, FlagSet
  <2>3. [t EXCEPT !.modes.flag[mode] = set] = [t EXCEPT !.modes = m]
    BY <1>2 DEF TermFields, ModeSet
  <2>. HIDE DEF m
  <2>. QED  BY <1>3, <2>2, <2>3
<1>6. ASSUME mode \in MouseModes PROVE Good([t EXCEPT !.modes.mouse = IF set THEN mode ELSE "None"])
  <2>. DEFINE k == IF set THEN mode ELSE "None"
              m == [t.modes EXCEPT !.mouse = k]
  <2>1. k \in MouseModes
    BY <1>6 DEF MouseModes
  <2>. HIDE DEF k
  <2>2. m \in ModeSet
    BY <1>2, <2>1 DEF ModeSet
  <2>3. [t EXCEPT !.modes.mouse = k] = [t EXCEPT !.modes = m]
    BY <1>2 DEF TermFields, ModeSet
  <2>. HIDE DEF m
  <2>. QED  BY <1>3, <2>2, <2>3 DEF k
<1>7. Good(OnGrid(t, SetOriginMode(t.grid, set))) /\ Good(ApplySave(t)) /\ Good(ApplyRestore(t))
  BY <1>1, <1>2, OriginOK, OnGridFed, SaveFed, ApplyRestoreFed
<1>8. \A b \in BOOLEAN : Good(EnterAltScreen(t, b)) /\ Good(ExitAltScreen(t, b))
  BY EnterAltOK, ExitAltOK DEF Good
<1>9. Good(w)
  BY <1>4, <1>5, <1>6, <1>7, <1>8
<1>10. SetPrivateMode(t, mode, set) = [w EXCEPT !.pane_dirty_all = TRUE]
  BY DEF SetPrivateMode
<1>. HIDE DEF w
<1>. QED  BY <1>9, <1>10, MarkAllEmitted DEF Good

-----------------------------------------------------------------------------
(* The steps of the child's output.                                         *)

\* What is left of an Apply step once its operation is named.
FeedStep(u) ==
    /\ \E last \in BOOLEAN :
         /\ term' = IF last /\ ~Synced(term) THEN MarkDirtyFromGrid(u) ELSE u
         /\ chunk' = IF last THEN "none" ELSE IF Synced(term) THEN "synced" ELSE "plain"
    /\ gesture' = gesture

\* Apply is such a step.
LEMMA ApplyStep ==
    ASSUME NEW op, NEW u, Apply(op, u) PROVE FeedStep(u)
BY DEF Apply, FeedStep

\* CSI parameters count from 1.
LEMMA ParamsOK == CsiParams \subseteq Nat /\ \A n \in CsiParams : n - 1 \in Nat
BY TerminalAssumption DEF CsiParams

\* The step is a parser action that keeps what it must.
Emits == \E u : Emitted(term, u) /\ FeedStep(u)

\* Applying an action that stays on its screen.
LEMMA FedEmits ==
    ASSUME NEW op, NEW u, Fed(term, u), Apply(op, u) PROVE Emits
BY FedEmitted, ApplyStep DEF Emits

\* Applying an edit of the grid.
LEMMA GridEmits ==
    ASSUME TermOK(term), NEW op, NEW g, Edited(term.grid, g), Apply(op, OnGrid(term, g)) PROVE Emits
BY OnGridFed, FedEmits

\* Values to instantiate ModeFed with.
LEMMA ModeWitnesses ==
    TRUE \in BOOLEAN /\ "Block" \in CursorShapes /\ 0 \in 0..2 /\ DefaultAttrs \in Attrs
BY SizeAssumption DEF CursorShapes

\* Printing and REP.
LEMMA PrintingEmits == ASSUME TermOK(term), Printing PROVE Emits
<1>1. ASSUME NEW ch \in Chars \ {NoChar}, Apply("print", ApplyPrint(term, ch)) PROVE Emits
  BY <1>1, ApplyPrintFed, FedEmits
<1>2. ASSUME NEW n \in Params, Apply("repeat", ApplyRepeat(term, n)) PROVE Emits
  <2>1. n \in Nat
    BY TerminalAssumption
  <2>. QED  BY <1>2, <2>1, RepeatFed, FedEmits
<1>. QED  BY <1>1, <1>2 DEF Printing

\* The C0 controls and their escape forms.
LEMMA ControlsEmits == ASSUME TermOK(term), Controls PROVE Emits
<1>0. GridOK(term.grid)
  BY DEF TermOK, ScreensOK
<1>1. CASE Apply("backspace", OnGrid(term, Backspace(term.grid)))
  BY <1>0, <1>1, ReturnOK, GridEmits
<1>2. CASE Apply("tab", OnGrid(term, Tab(term.grid)))
  BY <1>0, <1>2, TabOK, GridEmits
<1>3. CASE Apply("linefeed", ApplyLineFeed(term))
  <2>1. Fed(term, ApplyLineFeed(term))
    <3>1. 1 \in Nat
      OBVIOUS
    <3>. QED  BY <3>1, LineFeedFed
  <2>. QED  BY <1>3, <2>1, FedEmits
<1>4. CASE Apply("return", OnGrid(term, CarriageReturn(term.grid)))
  BY <1>0, <1>4, ReturnOK, GridEmits
<1>5. CASE Apply("nextline", ApplyNextLine(term))
  <2>1. Fed(term, ApplyNextLine(term))
    <3>1. 1 \in Nat
      OBVIOUS
    <3>. QED  BY <3>1, LineFeedFed
  <2>. QED  BY <1>5, <2>1, FedEmits
<1>6. CASE Apply("reverse", ApplyReverseIndex(term))
  BY <1>6, ReverseFed, FedEmits
<1>7. CASE Apply("tabset", OnGrid(term, SetTabStop(term.grid)))
  BY <1>0, <1>7, StopsOK, GridEmits
<1>8. CASE Apply("ignored", term)
  BY <1>8, FedRefl, FedEmits
<1>. QED  BY <1>1, <1>2, <1>3, <1>4, <1>5, <1>6, <1>7, <1>8 DEF Controls

\* The escape sequences.
LEMMA EscapesEmits == ASSUME TermOK(term), Escapes PROVE Emits
<1>0. GridOK(term.grid)
  BY DEF TermOK, ScreensOK
<1>1. CASE Apply("save", ApplySave(term))
  BY <1>1, SaveFed, FedEmits
<1>2. CASE Apply("restore", ApplyRestore(term))
  BY <1>2, ApplyRestoreFed, FedEmits
<1>3. ASSUME NEW on \in BOOLEAN,
             Apply("keypad", [term EXCEPT !.modes.flag["application_keypad"] = on])
      PROVE  Emits
  <2>1. Fed(term, [term EXCEPT !.modes.flag["application_keypad"] = on])
    BY ModeWitnesses, ModeFed
  <2>. QED  BY <1>3, <2>1, FedEmits
<1>4. CASE Apply("reset", FullReset(term))
  BY <1>4, FullResetFed, FedEmits
<1>5. CASE Apply("align", OnGrid(term, FillScreen(term.grid, CHOOSE ch \in Narrow : TRUE)))
  <2>1. (CHOOSE ch \in Narrow : TRUE) \in Chars
    BY SizeAssumption DEF Chars
  <2>. QED  BY <1>0, <1>5, <2>1, FillOK, GridEmits
<1>. QED  BY <1>1, <1>2, <1>3, <1>4, <1>5 DEF Escapes

\* The cursor CSI sequences.
LEMMA CursorEmits == ASSUME TermOK(term), CsiCursor PROVE Emits
<1>0. GridOK(term.grid)
  BY DEF TermOK, ScreensOK
<1>1. ASSUME NEW n \in CsiParams, NEW d \in {-1, 1},
             \/ Apply("move", OnGrid(term, MoveCursor(term.grid, d * n, 0)))
             \/ Apply("move", OnGrid(term, MoveCursor(term.grid, 0, d * n)))
             \/ Apply("moveline", OnGrid(term, CarriageReturn(MoveCursor(term.grid, d * n, 0))))
      PROVE  Emits
  <2>. DEFINE k == d * n
  <2>1. k \in Int /\ 0 \in Int
    BY ParamsOK
  <2>. HIDE DEF k
  <2>2. Edited(term.grid, MoveCursor(term.grid, k, 0)) /\ Edited(term.grid, MoveCursor(term.grid, 0, k))
    BY <1>0, <2>1, MoveCursorOK
  <2>3. Edited(term.grid, CarriageReturn(MoveCursor(term.grid, k, 0)))
    <3>1. Edited(MoveCursor(term.grid, k, 0), CarriageReturn(MoveCursor(term.grid, k, 0)))
      BY <2>2, ReturnOK DEF Edited
    <3>. QED  BY <2>2, <3>1, EditedTrans
  <2>. QED  BY <1>1, <2>2, <2>3, GridEmits DEF k
<1>2. ASSUME NEW n \in CsiParams,
             \/ Apply("column", OnGrid(term, SetCol(term.grid, n - 1)))
             \/ Apply("row", OnGrid(term, SetRow(term.grid, n - 1)))
      PROVE  Emits
  <2>1. Edited(term.grid, SetCol(term.grid, n - 1)) /\ Edited(term.grid, SetRow(term.grid, n - 1))
    BY <1>0, ParamsOK, SetColOK, SetRowOK
  <2>. QED  BY <1>2, <2>1, GridEmits
<1>3. ASSUME NEW n \in CsiParams, NEW m \in CsiParams,
             Apply("position", OnGrid(term, SetCursor(term.grid, n - 1, m - 1)))
      PROVE  Emits
  <2>1. Edited(term.grid, SetCursor(term.grid, n - 1, m - 1))
    BY <1>0, ParamsOK, SetCursorOK
  <2>. QED  BY <1>3, <2>1, GridEmits
<1>4. ASSUME NEW n \in CsiParams,
             \/ Apply("tabs", OnGrid(term, Tabs(term.grid, n)))
             \/ Apply("backtabs", OnGrid(term, BackTabs(term.grid, n)))
      PROVE  Emits
  <2>1. Edited(term.grid, Tabs(term.grid, n)) /\ Edited(term.grid, BackTabs(term.grid, n))
    BY <1>0, ParamsOK, TabsOK, BackTabsOK
  <2>. QED  BY <1>4, <2>1, GridEmits
<1>. QED  BY <1>1, <1>2, <1>3, <1>4 DEF CsiCursor

\* The editing CSI sequences.
LEMMA EditEmits == ASSUME TermOK(term), CsiEdit PROVE Emits
<1>0. GridOK(term.grid)
  BY DEF TermOK, ScreensOK
<1>1. ASSUME NEW n \in CsiParams,
             \/ Apply("insertchars", OnGrid(term, InsertChars(term.grid, n)))
             \/ Apply("deletechars", OnGrid(term, DeleteChars(term.grid, n)))
             \/ Apply("erasechars", OnGrid(term, EraseChars(term.grid, n)))
             \/ Apply("insertlines", OnGrid(term, InsertLines(term.grid, n)))
             \/ Apply("deletelines", OnGrid(term, DeleteLines(term.grid, n)))
             \/ Apply("scrollup", ApplyScrollUp(term, n))
             \/ Apply("scrolldown", OnGrid(term, ScrollDownRegion(term.grid, n)))
      PROVE  Emits
  <2>1. n \in Nat
    BY ParamsOK
  <2>2. /\ Edited(term.grid, InsertChars(term.grid, n)) /\ Edited(term.grid, DeleteChars(term.grid, n))
        /\ Edited(term.grid, EraseChars(term.grid, n))
    BY <1>0, <2>1, CharsOK
  <2>3. Edited(term.grid, InsertLines(term.grid, n)) /\ Edited(term.grid, DeleteLines(term.grid, n))
    BY <1>0, <2>1, LinesOK
  <2>4. Edited(term.grid, ScrollDownRegion(term.grid, n)) /\ Fed(term, ApplyScrollUp(term, n))
    BY <1>0, <2>1, ScrollOK, LineFeedFed
  <2>. QED  BY <1>1, <2>2, <2>3, <2>4, GridEmits, FedEmits
<1>2. ASSUME NEW mode \in 0..2, Apply("eraseline", OnGrid(term, EraseInLine(term.grid, mode)))
      PROVE  Emits
  <2>1. mode \in 0..3
    OBVIOUS
  <2>2. Edited(term.grid, EraseInLine(term.grid, mode))
    BY <1>0, <2>1, EraseOK
  <2>. QED  BY <1>2, <2>2, GridEmits
<1>3. ASSUME NEW mode \in 0..3, Apply("erasedisplay", ApplyErase(term, mode)) PROVE Emits
  BY <1>3, ApplyEraseFed, FedEmits
<1>4. CASE \/ Apply("cleartab", OnGrid(term, ClearTabStop(term.grid)))
           \/ Apply("cleartab", OnGrid(term, ClearAllTabStops(term.grid)))
  BY <1>0, <1>4, StopsOK, GridEmits
<1>. QED  BY <1>1, <1>2, <1>3, <1>4 DEF CsiEdit

\* The CSI sequences that set modes and attributes.
LEMMA StateEmits == ASSUME TermOK(term), CsiState PROVE Emits
<1>0. GridOK(term.grid)
  BY DEF TermOK, ScreensOK
<1>1. ASSUME NEW n \in CsiParams, NEW m \in CsiParams,
             Apply("region", OnGrid(term, SetScrollRegion(term.grid, n - 1, m - 1)))
      PROVE  Emits
  <2>1. Edited(term.grid, SetScrollRegion(term.grid, n - 1, m - 1))
    BY <1>0, ParamsOK, RegionOK
  <2>. QED  BY <1>1, <2>1, GridEmits
<1>2. ASSUME NEW on \in BOOLEAN, Apply("insert", SetAnsiMode(term, on)) PROVE Emits
  <2>1. Fed(term, SetAnsiMode(term, on))
    BY ModeWitnesses, ModeFed
  <2>. QED  BY <1>2, <2>1, FedEmits
<1>3. ASSUME NEW mode \in PrivateModes, NEW set \in BOOLEAN, Apply(mode, SetPrivateMode(term, mode, set))
      PROVE  Emits
  BY <1>3, PrivateModeEmitted, ApplyStep DEF Emits
<1>4. ASSUME NEW shape \in CursorShapes, Apply("shape", SetCursorShape(term, shape)) PROVE Emits
  <2>1. Fed(term, SetCursorShape(term, shape))
    BY ModeWitnesses, ModeFed
  <2>. QED  BY <1>4, <2>1, FedEmits
<1>5. ASSUME NEW v \in 0..2, Apply("otherkeys", [term EXCEPT !.modes.modify_other_keys = v]) PROVE Emits
  <2>1. Fed(term, [term EXCEPT !.modes.modify_other_keys = v])
    BY ModeWitnesses, ModeFed
  <2>. QED  BY <1>5, <2>1, FedEmits
<1>6. ASSUME NEW a \in Attrs, Apply("sgr", Sgr(term, a)) PROVE Emits
  <2>1. Fed(term, Sgr(term, a))
    BY ModeWitnesses, ModeFed
  <2>. QED  BY <1>6, <2>1, FedEmits
<1>7. CASE Apply("query", QueueResponse(term))
  <2>1. Fed(term, QueueResponse(term))
    BY ModeWitnesses, ModeFed
  <2>. QED  BY <1>7, <2>1, FedEmits
<1>. QED  BY <1>1, <1>2, <1>3, <1>4, <1>5, <1>6, <1>7 DEF CsiState

\* Every step of the child's output.
LEMMA OutputEmits == ASSUME TermOK(term), Output PROVE Emits
BY PrintingEmits, ControlsEmits, EscapesEmits, CursorEmits, EditEmits, StateEmits DEF Output

-----------------------------------------------------------------------------
(* The pane.                                                                *)

\* The frame has nothing at a cell, or what painting it now would put there.
CellShown(t, i, c) ==
    \/ t.frame[i][c] = Unpainted
    \/ [t.frame[i][c] EXCEPT !.cursor = {}] = [PaintedCell(t, i, c) EXCEPT !.cursor = {}]

\* The row of the grid behind a row of the pane.
GridRow(t, i) == WindowStart(t) + i - Len(t.scrollback)

\* A row of the pane is right, marked on the pane or, while the marks of the
\* grid have not been taken over, marked on the grid.
ShownRow(t, open, i) ==
    \/ i \in t.pane_dirty
    \/ open /\ GridRow(t, i) \in t.grid.dirty
    \/ \A c \in CellsPainted(t, i) : CellShown(t, i, c)

\* The whole pane is right or marked; `open` says the grid's marks count.
Shown(t, open) ==
    \/ t.pane_dirty_all \/ (open /\ t.grid.dirty_all)
    \/ \A i \in 0..(LinesShown(t) - 1) : ShownRow(t, open, i)

\* The rows of the pane are rows of the document.
LEMMA ViewShape ==
    ASSUME NEW t, TermOK(t)
    PROVE  /\ Len(t.scrollback) \in Nat /\ t.grid.row_count \in Nat /\ t.visible \in Nat
           /\ WindowStart(t) \in Nat /\ DocRows(t) \in Nat /\ LinesShown(t) \in Int
           /\ LinesShown(t) <= t.visible /\ WindowStart(t) + LinesShown(t) <= DocRows(t)
           /\ DocRows(t) = Len(t.scrollback) + t.grid.row_count
           /\ \A r \in t.grid.dirty : r \in 0..(t.grid.row_count - 1)
<1>1. /\ Len(t.scrollback) \in Nat /\ t.grid.row_count \in Nat /\ t.visible \in Nat
      /\ t.viewport.scroll_offset \in Nat /\ GridOK(t.grid)
  <2>1. GridOK(t.grid) /\ t.scrollback \in Seq(Line(t.sb_cols)) /\ t.viewport \in ViewportSet
        /\ t.visible \in Nat
    BY DEF TermOK, ScreensOK, HistoryOK, ViewportOK
  <2>. QED  BY <2>1, GridSize DEF ViewportSet
<1>2. \A r \in t.grid.dirty : r \in 0..(t.grid.row_count - 1)
  BY <1>1, GridSize
<1>3. DocRows(t) \in Nat /\ DocRows(t) = Len(t.scrollback) + t.grid.row_count
  BY <1>1 DEF DocRows
<1>4. WindowStart(t) \in Nat
  BY <1>1, <1>3 DEF WindowStart, Least, Most
<1>5. LinesShown(t) \in Int /\ LinesShown(t) <= t.visible
      /\ WindowStart(t) + LinesShown(t) <= DocRows(t)
  BY <1>1, <1>3, <1>4 DEF LinesShown, Least
<1>. QED  BY <1>1, <1>2, <1>3, <1>4, <1>5

\* A painted cell without the cursor.
Plain(t, i, c) ==
    [cell |-> DocLine(t, WindowStart(t) + i)[c],
     selected |-> \E s \in t.selection : SelContains(s, WindowStart(t) + i, c),
     reverse |-> t.modes.flag["reverse_video"], cursor |-> {}]

\* PaintedCell is that, plus the cursor.
LEMMA PaintedPlain ==
    ASSUME NEW t, NEW i, NEW c
    PROVE  [PaintedCell(t, i, c) EXCEPT !.cursor = {}] = Plain(t, i, c)
<1>. DEFINE doc == WindowStart(t) + i
            here == /\ t.viewport.scroll_offset = 0 /\ ~t.alt
                    /\ t.modes.flag["cursor_visible"]
                    /\ Pos(doc - Len(t.scrollback), c) = t.grid.cursor
            a == DocLine(t, doc)[c]
            b == \E s \in t.selection : SelContains(s, doc, c)
            r == t.modes.flag["reverse_video"]
            d == IF here THEN {<<t.modes.shape, t.blink_phase>>} ELSE {}
<1>1. PaintedCell(t, i, c) = [cell |-> a, selected |-> b, reverse |-> r, cursor |-> d]
  BY DEF PaintedCell
<1>2. Plain(t, i, c) = [cell |-> a, selected |-> b, reverse |-> r, cursor |-> {}]
  BY DEF Plain
<1>. HIDE DEF a, b, r, d
<1>. QED  BY <1>1, <1>2

\* Two terminals that agree on what a row of the pane shows.
SameRow(t, u, i) ==
    /\ DocLine(u, WindowStart(u) + i) = DocLine(t, WindowStart(t) + i)
    /\ WindowStart(u) = WindowStart(t)
    /\ u.selection = t.selection /\ u.frame = t.frame /\ u.pane_cols = t.pane_cols
    /\ u.modes.flag["reverse_video"] = t.modes.flag["reverse_video"]

\* Such a row stays right.
LEMMA SameRowShown ==
    ASSUME NEW t, NEW u, NEW i, SameRow(t, u, i)
    PROVE  /\ CellsPainted(u, i) = CellsPainted(t, i)
           /\ \A c : CellShown(t, i, c) => CellShown(u, i, c)
<1>1. CellsPainted(u, i) = CellsPainted(t, i)
  BY DEF SameRow, CellsPainted
<1>2. ASSUME NEW c PROVE Plain(u, i, c) = Plain(t, i, c)
  BY DEF SameRow, Plain
<1>3. ASSUME NEW c, CellShown(t, i, c) PROVE CellShown(u, i, c)
  <2>1. u.frame = t.frame
    BY DEF SameRow
  <2>2. [PaintedCell(u, i, c) EXCEPT !.cursor = {}] = [PaintedCell(t, i, c) EXCEPT !.cursor = {}]
    BY <1>2, PaintedPlain
  <2>. QED  BY <1>3, <2>1, <2>2 DEF CellShown
<1>. QED  BY <1>1, <1>3

\* After a parser action the pane is right or marked, the grid's marks included.
LEMMA EmittedShown ==
    ASSUME NEW t, TermOK(t), NEW open \in BOOLEAN, Shown(t, open), NEW u, Emitted(t, u)
    PROVE  Shown(u, TRUE)
<1>0. TermOK(u) /\ Noted(t, u) /\ OnPane(t, u)
  BY DEF Emitted
<1>1. CASE u.pane_dirty_all \/ u.grid.dirty_all
  BY <1>1 DEF Shown
<1>2. CASE ~(u.pane_dirty_all \/ u.grid.dirty_all)
  <2>1. /\ u.scrollback = t.scrollback /\ u.viewport = t.viewport
        /\ u.selection = t.selection
        /\ u.modes.flag["reverse_video"] = t.modes.flag["reverse_video"]
        /\ u.grid.row_count = t.grid.row_count
        /\ ~t.grid.dirty_all /\ t.grid.dirty \subseteq u.grid.dirty
        /\ \A r \in 0..(t.grid.row_count - 1) :
              r \in u.grid.dirty \/ u.grid.rows[r] = t.grid.rows[r]
    BY <1>0, <1>2 DEF Noted
  <2>2. u.visible = t.visible /\ u.pane_cols = t.pane_cols /\ u.frame = t.frame
        /\ u.pane_dirty = t.pane_dirty /\ ~t.pane_dirty_all
    BY <1>0, <1>2 DEF OnPane
  <2>3. DocRows(u) = DocRows(t) /\ WindowStart(u) = WindowStart(t) /\ LinesShown(u) = LinesShown(t)
    BY <2>1, <2>2 DEF DocRows, WindowStart, LinesShown
  <2>4. ASSUME NEW i \in 0..(LinesShown(u) - 1) PROVE ShownRow(u, TRUE, i)
    <3>1. ShownRow(t, open, i)
      BY <2>1, <2>2, <2>3 DEF Shown
    <3>2. CASE i \in t.pane_dirty
      BY <2>2, <3>2 DEF ShownRow
    <3>3. GridRow(u, i) = GridRow(t, i)
      BY <2>1, <2>3 DEF GridRow
    <3>4. CASE GridRow(t, i) \in u.grid.dirty
      BY <3>3, <3>4 DEF ShownRow
    <3>5. CASE GridRow(t, i) \notin u.grid.dirty /\ i \notin t.pane_dirty
      <4>1. \A c \in CellsPainted(t, i) : CellShown(t, i, c)
        BY <2>1, <3>1, <3>5 DEF ShownRow
      <4>2. DocLine(u, WindowStart(u) + i) = DocLine(t, WindowStart(t) + i)
        <5>1. CASE WindowStart(t) + i < Len(t.scrollback)
          BY <2>1, <2>3, <5>1 DEF DocLine
        <5>2. CASE ~(WindowStart(t) + i < Len(t.scrollback))
          <6>1. GridRow(t, i) \in 0..(t.grid.row_count - 1)
            <7>1. /\ Len(t.scrollback) \in Nat /\ t.grid.row_count \in Nat /\ WindowStart(t) \in Nat
                  /\ LinesShown(t) \in Int /\ WindowStart(t) + LinesShown(t) <= DocRows(t)
                  /\ DocRows(t) = Len(t.scrollback) + t.grid.row_count
              BY ViewShape
            <7>2. i \in 0..(LinesShown(t) - 1)
              BY <2>3
            <7>. QED  BY <5>2, <7>1, <7>2 DEF GridRow
          <6>2. u.grid.rows[GridRow(t, i)] = t.grid.rows[GridRow(t, i)]
            BY <2>1, <3>5, <6>1
          <6>5. WindowStart(t) \in Nat /\ Len(t.scrollback) \in Nat /\ i \in Int
            BY ViewShape
          <6>3. DocLine(t, WindowStart(t) + i) = t.grid.rows[GridRow(t, i)]
            BY <5>2, <6>5 DEF DocLine, GridRow
          <6>4. DocLine(u, WindowStart(u) + i) = u.grid.rows[GridRow(t, i)]
            BY <2>1, <2>3, <5>2, <6>5 DEF DocLine, GridRow
          <6>. QED  BY <6>2, <6>3, <6>4
        <5>. QED  BY <5>1, <5>2
      <4>3. SameRow(t, u, i)
        BY <2>1, <2>2, <2>3, <4>2 DEF SameRow
      <4>. QED  BY <4>1, <4>3, SameRowShown DEF ShownRow
    <3>. QED  BY <3>2, <3>4, <3>5
  <2>. QED  BY <2>4 DEF Shown
<1>. QED  BY <1>1, <1>2

\* What MarkDirtyFromGrid leaves.
MarkedFrom(u, v) ==
    /\ DOMAIN v = TermFields /\ v.grid = CleanDirty(u.grid)
    /\ v.pane_dirty_all = (u.grid.dirty_all \/ u.pane_dirty_all)
    /\ \A f \in TermFields \ {"grid", "pane_dirty", "pane_dirty_all"} : v[f] = u[f]
    /\ \/ u.grid.dirty_all
       \/ /\ u.pane_dirty \subseteq v.pane_dirty
          /\ \A r \in u.grid.dirty : \A i \in 0..(u.visible - 1) :
                i = Len(u.scrollback) + r - WindowStart(u) => i \in v.pane_dirty

\* MarkDirtyFromGrid leaves that.
LEMMA MarkFields ==
    ASSUME NEW u, TermOK(u)
    PROVE  MarkedFrom(u, MarkDirtyFromGrid(u))
<1>. DEFINE g == CleanDirty(u.grid)
            clean == OnGrid(u, g)
            vis == {Len(u.scrollback) + r - WindowStart(u) : r \in u.grid.dirty}
            set == u.pane_dirty \cup (vis \cap 0..(u.visible - 1)) \cup CursorVisibleIndex(u)
            v == MarkDirtyFromGrid(u)
<1>1. DOMAIN u = TermFields /\ u.pane_dirty_all \in BOOLEAN /\ GridOK(u.grid)
  BY DEF TermOK, ScreensOK
<1>2. /\ clean.grid = g /\ DOMAIN clean = TermFields
      /\ \A f \in TermFields \ {"grid"} : clean[f] = u[f]
  BY OnGridFields
<1>3. clean.pane_dirty = u.pane_dirty /\ clean.pane_dirty_all = u.pane_dirty_all
  BY <1>2 DEF TermFields
<1>4. \A r \in u.grid.dirty : \A i \in 0..(u.visible - 1) :
         i = Len(u.scrollback) + r - WindowStart(u) => i \in set
  OBVIOUS
<1>5. u.pane_dirty \subseteq set
  OBVIOUS
<1>6. v = IF u.grid.dirty_all THEN [clean EXCEPT !.pane_dirty_all = TRUE]
          ELSE [clean EXCEPT !.pane_dirty = set]
  BY <1>2, <1>3 DEF MarkDirtyFromGrid, TermFields
<1>. HIDE DEF g, clean, vis, set, v
<1>7. CASE u.grid.dirty_all
  <2>1. v = [clean EXCEPT !.pane_dirty_all = TRUE]
    BY <1>6, <1>7
  <2>2. /\ DOMAIN v = TermFields /\ v.grid = g /\ v.pane_dirty_all = TRUE
        /\ \A f \in TermFields \ {"grid", "pane_dirty_all"} : v[f] = u[f]
    BY <1>2, <2>1 DEF TermFields
  <2>. QED  BY <1>7, <2>2 DEF MarkedFrom, g, v
<1>8. CASE ~u.grid.dirty_all
  <2>1. v = [clean EXCEPT !.pane_dirty = set]
    BY <1>6, <1>8
  <2>2. /\ DOMAIN v = TermFields /\ v.grid = g /\ v.pane_dirty_all = u.pane_dirty_all /\ v.pane_dirty = set
        /\ \A f \in TermFields \ {"grid", "pane_dirty"} : v[f] = u[f]
    BY <1>2, <1>3, <2>1 DEF TermFields
  <2>3. v.pane_dirty_all = (u.grid.dirty_all \/ u.pane_dirty_all)
    BY <1>1, <1>8, <2>2
  <2>4. \A f \in TermFields \ {"grid", "pane_dirty", "pane_dirty_all"} : v[f] = u[f]
    BY <2>2
  <2>. QED  BY <1>4, <1>5, <2>2, <2>3, <2>4 DEF MarkedFrom, g, v
<1>. QED  BY <1>7, <1>8

\* Taking the marks over changes nothing else.
LEMMA MarkSame ==
    ASSUME NEW u, TermOK(u), NEW v, MarkedFrom(u, v)
    PROVE  /\ TermOK(v)
           /\ v.saved = u.saved /\ v.alt = u.alt /\ v.scrollback = u.scrollback
           /\ v.sb_cols = u.sb_cols /\ v.viewport = u.viewport /\ v.selection = u.selection
           /\ v.modes = u.modes
           /\ v.visible = u.visible /\ v.pane_cols = u.pane_cols
           /\ v.frame = u.frame /\ v.session = u.session
           /\ v.grid.rows = u.grid.rows /\ v.grid.row_count = u.grid.row_count
           /\ v.grid.scroll_top = u.grid.scroll_top /\ v.grid.scroll_bottom = u.grid.scroll_bottom
           /\ v.grid.tab_stops = u.grid.tab_stops
<1>1. /\ DOMAIN v = TermFields /\ v.grid = CleanDirty(u.grid)
      /\ v.saved = u.saved /\ v.alt = u.alt /\ v.scrollback = u.scrollback
      /\ v.sb_cols = u.sb_cols /\ v.viewport = u.viewport /\ v.selection = u.selection
      /\ v.attrs = u.attrs /\ v.last_char = u.last_char /\ v.modes = u.modes
      /\ v.visible = u.visible /\ v.pane_cols = u.pane_cols
      /\ v.frame = u.frame /\ v.session = u.session
      /\ v.pane_dirty_all = (u.grid.dirty_all \/ u.pane_dirty_all)
  BY DEF MarkedFrom, TermFields
<1>2. GridOK(u.grid) /\ u.grid \in GridSet(u.grid.cols, u.grid.row_count)
  BY DEF TermOK, ScreensOK, GridOK
<1>3. GridOK(v.grid)
  BY <1>1, <1>2, CleanDirtyOK
<1>4. /\ v.grid.rows = u.grid.rows /\ v.grid.row_count = u.grid.row_count
      /\ v.grid.scroll_top = u.grid.scroll_top /\ v.grid.scroll_bottom = u.grid.scroll_bottom
      /\ v.grid.tab_stops = u.grid.tab_stops
  BY <1>1, <1>2 DEF CleanDirty, GridSet
<1>5. v.pane_dirty_all \in BOOLEAN
  BY <1>1
<1>6. TermOK(v)
  BY <1>1, <1>3, <1>5 DEF TermOK, ScreensOK, HistoryOK
<1>. QED  BY <1>1, <1>4, <1>6

\* Once the marks are taken over the pane's own marks suffice: a marked row of
\* the grid that is in view is a marked row of the pane.
LEMMA MarkShown ==
    ASSUME NEW u, TermOK(u), Shown(u, TRUE), NEW v, MarkedFrom(u, v)
    PROVE  Shown(v, FALSE)
<1>1. CASE u.grid.dirty_all \/ u.pane_dirty_all
  BY <1>1 DEF MarkedFrom, Shown
<1>2. CASE ~(u.grid.dirty_all \/ u.pane_dirty_all)
  <2>1. /\ u.pane_dirty \subseteq v.pane_dirty
        /\ \A r \in u.grid.dirty : \A i \in 0..(u.visible - 1) :
              i = Len(u.scrollback) + r - WindowStart(u) => i \in v.pane_dirty
    BY <1>2 DEF MarkedFrom
  <2>2. /\ v.scrollback = u.scrollback /\ v.viewport = u.viewport /\ v.selection = u.selection
        /\ v.modes = u.modes /\ v.visible = u.visible /\ v.pane_cols = u.pane_cols
        /\ v.frame = u.frame /\ v.grid.rows = u.grid.rows /\ v.grid.row_count = u.grid.row_count
    BY MarkSame
  <2>3. WindowStart(v) = WindowStart(u) /\ LinesShown(v) = LinesShown(u)
    BY <2>2 DEF DocRows, WindowStart, LinesShown
  <2>4. ASSUME NEW i \in 0..(LinesShown(v) - 1) PROVE ShownRow(v, FALSE, i)
    <3>1. ShownRow(u, TRUE, i)
      BY <1>2, <2>3 DEF Shown
    <3>2. CASE i \in u.pane_dirty
      BY <2>1, <3>2 DEF ShownRow
    <3>3. CASE GridRow(u, i) \in u.grid.dirty
      <4>1. i \in 0..(u.visible - 1) /\ i = Len(u.scrollback) + GridRow(u, i) - WindowStart(u)
        BY <2>3, ViewShape DEF GridRow
      <4>. QED  BY <2>1, <3>3, <4>1 DEF ShownRow
    <3>4. CASE \A c \in CellsPainted(u, i) : CellShown(u, i, c)
      <4>1. SameRow(u, v, i)
        BY <2>2, <2>3 DEF SameRow, DocLine
      <4>. QED  BY <3>4, <4>1, SameRowShown DEF ShownRow
    <3>. QED  BY <3>1, <3>2, <3>3, <3>4 DEF ShownRow
  <2>. QED  BY <2>4 DEF Shown
<1>. QED  BY <1>1, <1>2

\* Counting the grid's marks too asks for less.
LEMMA ShownOpen ==
    ASSUME NEW t, Shown(t, FALSE), NEW open \in BOOLEAN
    PROVE  Shown(t, open)
BY DEF Shown, ShownRow

-----------------------------------------------------------------------------
(* The host and the user.                                                   *)

\* Selections.
Selections == [anchor : Places, end : Places]

\* The user scrolled or selected: the pane is marked.
Looked(t, u) ==
    /\ DOMAIN u = TermFields /\ u.pane_dirty_all = TRUE
    /\ ViewportOK(u.viewport) /\ u.selection \in SUBSET Selections
    /\ \A f \in TermFields \ {"viewport", "selection", "pane_dirty_all"} : u[f] = t[f]

\* What a user action owes: the types, the frame and the saved screen.
Acted(t, u) ==
    /\ TermOK(u) /\ MainKept(t, u)
    /\ (t.session => Shown(t, Synchronized(t))) => (u.session => Shown(u, Synchronized(u)))

\* Scrolling and selecting owe no more than the mark.
LEMMA LookedActed ==
    ASSUME NEW t, TermOK(t), NEW u, Looked(t, u) PROVE Acted(t, u)
<1>1. /\ u.grid = t.grid /\ DOMAIN u = TermFields
      /\ u.saved = t.saved /\ u.alt = t.alt /\ u.scrollback = t.scrollback
      /\ u.sb_cols = t.sb_cols /\ u.attrs = t.attrs /\ u.last_char = t.last_char /\ u.modes = t.modes
      /\ u.visible = t.visible /\ u.pane_cols = t.pane_cols /\ u.session = t.session
      /\ u.pane_dirty_all = TRUE /\ ViewportOK(u.viewport) /\ u.selection \in SUBSET Selections
  BY DEF Looked, TermFields
<1>2. TermOK(u)
  BY <1>1 DEF TermOK, ScreensOK, HistoryOK, Selections
<1>. QED  BY <1>1, <1>2 DEF Acted, MainKept, Shown

\* An action on what the frame does not show owes nothing.
LEMMA SameActed ==
    ASSUME NEW t, TermOK(t), NEW u, DOMAIN u = TermFields,
           \A f \in TermFields \ {"exited", "response", "blink_phase", "cursor_dirty", "ui", "winsize"} :
              u[f] = t[f]
    PROVE  Acted(t, u)
<1>1. /\ u.grid = t.grid
      /\ u.saved = t.saved /\ u.alt = t.alt /\ u.scrollback = t.scrollback
      /\ u.sb_cols = t.sb_cols /\ u.viewport = t.viewport /\ u.selection = t.selection
      /\ u.attrs = t.attrs /\ u.last_char = t.last_char /\ u.modes = t.modes
      /\ u.visible = t.visible /\ u.pane_cols = t.pane_cols /\ u.pane_dirty = t.pane_dirty
      /\ u.pane_dirty_all = t.pane_dirty_all /\ u.frame = t.frame /\ u.session = t.session
  BY DEF TermFields
<1>2. TermOK(u)
  BY <1>1 DEF TermOK, ScreensOK, HistoryOK
<1>3. WindowStart(u) = WindowStart(t) /\ LinesShown(u) = LinesShown(t)
  BY <1>1 DEF DocRows, WindowStart, LinesShown
<1>4. ASSUME NEW open \in BOOLEAN, Shown(t, open) PROVE Shown(u, open)
  <2>1. ASSUME NEW i, ShownRow(t, open, i) PROVE ShownRow(u, open, i)
    <3>1. SameRow(t, u, i)
      BY <1>1, <1>3 DEF SameRow, DocLine
    <3>. QED  BY <1>1, <1>3, <2>1, <3>1, SameRowShown DEF ShownRow, GridRow
  <2>. QED  BY <1>1, <1>3, <1>4, <2>1 DEF Shown
<1>5. Synchronized(u) = Synchronized(t) /\ Synchronized(t) \in BOOLEAN
  BY <1>1 DEF Synchronized, TermOK, ModeSet, FlagModes
<1>. QED  BY <1>1, <1>2, <1>4, <1>5 DEF Acted, MainKept

\* Scrolling up and down and returning to the newest line.
LEMMA ScrollActed ==
    ASSUME NEW t, TermOK(t), NEW n \in Nat
    PROVE  Acted(t, ScrollUp(t, n)) /\ Acted(t, ScrollDown(t, n)) /\ Acted(t, ReturnToNewest(t))
<1>1. DOMAIN t = TermFields /\ t.viewport \in ViewportSet /\ Len(t.scrollback) \in Nat
      /\ t.selection \in SUBSET Selections /\ ViewportOK(t.viewport)
  BY ViewShape DEF TermOK, ViewportOK, Selections
<1>2. ASSUME NEW v, ViewportOK(v) PROVE Acted(t, [t EXCEPT !.viewport = v, !.pane_dirty_all = TRUE])
  <2>. DEFINE u == [t EXCEPT !.viewport = v, !.pane_dirty_all = TRUE]
  <2>1. /\ DOMAIN u = TermFields /\ u.pane_dirty_all = TRUE /\ u.viewport = v /\ u.selection = t.selection
        /\ \A f \in TermFields \ {"viewport", "selection", "pane_dirty_all"} : u[f] = t[f]
    BY <1>1 DEF TermFields
  <2>. HIDE DEF u
  <2>2. Looked(t, u)
    BY <1>1, <1>2, <2>1 DEF Looked
  <2>. QED  BY <2>2, LookedActed DEF u
<1>3. Acted(t, ScrollUp(t, n))
  <2>. DEFINE v == UpdateBounds(t.viewport, Len(t.scrollback))
              w == [v EXCEPT !.follow_output = FALSE, !.scroll_offset = Least(v.scroll_offset + n, v.max_offset)]
  <2>1. ViewportOK(v)
    BY <1>1, UpdateBoundsOK
  <2>. HIDE DEF v
  <2>2. v \in ViewportSet /\ v.scroll_offset \in Nat /\ v.max_offset \in Nat
    BY <2>1 DEF ViewportOK, ViewportSet
  <2>. DEFINE o == Least(v.scroll_offset + n, v.max_offset)
  <2>3. o \in Nat /\ o <= v.max_offset
    BY <2>2 DEF Least
  <2>. HIDE DEF o
  <2>4. w \in ViewportSet /\ w.scroll_offset = o /\ w.max_offset = v.max_offset /\ w.follow_output = FALSE
    BY <2>2, <2>3 DEF ViewportSet, o
  <2>5. ScrollUp(t, n) = [t EXCEPT !.viewport = w, !.pane_dirty_all = TRUE]
    BY <2>2 DEF ScrollUp, v, ViewportSet
  <2>. HIDE DEF w
  <2>6. ViewportOK(w)
    BY <2>3, <2>4 DEF ViewportOK
  <2>. QED  BY <1>2, <2>5, <2>6
<1>4. Acted(t, ScrollDown(t, n))
  <2>. DEFINE o == Most(t.viewport.scroll_offset - n, 0)
              f == t.viewport.follow_output \/ o = 0
              w == [t.viewport EXCEPT !.scroll_offset = o, !.follow_output = f]
  <2>1. t.viewport.scroll_offset \in Nat /\ t.viewport.max_offset \in Nat
        /\ t.viewport.follow_output \in BOOLEAN
    BY <1>1 DEF ViewportSet
  <2>2. o \in Nat /\ o <= t.viewport.scroll_offset
    BY <2>1 DEF Most
  <2>3. ScrollDown(t, n) = [t EXCEPT !.viewport = w, !.pane_dirty_all = TRUE]
    BY DEF ScrollDown
  <2>. HIDE DEF o
  <2>4. f \in BOOLEAN /\ (o > 0 => (f = t.viewport.follow_output))
    BY <2>1, <2>2
  <2>. HIDE DEF f
  <2>5. w \in ViewportSet /\ w.scroll_offset = o /\ w.follow_output = f /\ w.max_offset = t.viewport.max_offset
    BY <1>1, <2>2, <2>4 DEF ViewportSet
  <2>. HIDE DEF w
  <2>6. ViewportOK(w)
    BY <1>1, <2>1, <2>2, <2>4, <2>5 DEF ViewportOK
  <2>. QED  BY <1>2, <2>3, <2>6
<1>5. Acted(t, ReturnToNewest(t))
  <2>. DEFINE w == [t.viewport EXCEPT !.scroll_offset = 0, !.follow_output = TRUE]
  <2>1. w \in ViewportSet /\ w.scroll_offset = 0 /\ w.max_offset \in Nat
    BY <1>1 DEF ViewportSet
  <2>2. ReturnToNewest(t) = [t EXCEPT !.viewport = w, !.pane_dirty_all = TRUE]
    BY DEF ReturnToNewest
  <2>. HIDE DEF w
  <2>3. ViewportOK(w)
    BY <2>1 DEF ViewportOK
  <2>. QED  BY <1>2, <2>2, <2>3
<1>. QED  BY <1>3, <1>4, <1>5

\* A drag by any distance.
LEMMA ScrollByActed ==
    ASSUME NEW t, TermOK(t), NEW d \in Int
    PROVE  Acted(t, ScrollBy(t, d))
<1>1. CASE d > 0
  <2>1. d \in Nat
    BY <1>1
  <2>. QED  BY <1>1, <2>1, ScrollActed DEF ScrollBy
<1>2. CASE ~(d > 0)
  <2>1. Most(-d, 1) \in Nat
    BY DEF Most
  <2>. QED  BY <1>2, <2>1, ScrollActed DEF ScrollBy
<1>. QED  BY <1>1, <1>2

\* Starting, extending and copying a selection.
LEMMA SelectActed ==
    ASSUME NEW t, TermOK(t), NEW p \in Places, NEW ok \in BOOLEAN
    PROVE  /\ Acted(t, SelectionStart(t, p)) /\ Acted(t, SelectionExtend(t, p))
           /\ Acted(t, CopySelection(t, ok))
<1>1. DOMAIN t = TermFields /\ ViewportOK(t.viewport) /\ t.selection \in SUBSET Selections
  BY DEF TermOK, Selections
<1>2. ASSUME NEW s \in SUBSET Selections PROVE Acted(t, [t EXCEPT !.selection = s, !.pane_dirty_all = TRUE])
  <2>. DEFINE u == [t EXCEPT !.selection = s, !.pane_dirty_all = TRUE]
  <2>1. /\ DOMAIN u = TermFields /\ u.pane_dirty_all = TRUE /\ u.selection = s /\ u.viewport = t.viewport
        /\ \A f \in TermFields \ {"viewport", "selection", "pane_dirty_all"} : u[f] = t[f]
    BY <1>1 DEF TermFields
  <2>. HIDE DEF u
  <2>2. Looked(t, u)
    BY <1>1, <2>1 DEF Looked
  <2>. QED  BY <2>2, LookedActed DEF u
<1>3. Acted(t, t)
  BY <1>1, SameActed
<1>4. Acted(t, SelectionStart(t, p))
  <2>1. {[anchor |-> p, end |-> p]} \in SUBSET Selections
    BY DEF Selections
  <2>. QED  BY <1>2, <2>1 DEF SelectionStart
<1>5. Acted(t, SelectionExtend(t, p))
  <2>. DEFINE s == {[x EXCEPT !.end = p] : x \in t.selection}
  <2>1. s \in SUBSET Selections
    BY <1>1 DEF Selections
  <2>2. SelectionExtend(t, p) = IF t.selection = {} THEN t ELSE [t EXCEPT !.selection = s, !.pane_dirty_all = TRUE]
    BY <1>1 DEF SelectionExtend, TermFields
  <2>. HIDE DEF s
  <2>. QED  BY <1>2, <1>3, <2>1, <2>2
<1>6. Acted(t, CopySelection(t, ok))
  <2>1. {} \in SUBSET Selections
    OBVIOUS
  <2>. QED  BY <1>2, <1>3, <2>1 DEF CopySelection
<1>. QED  BY <1>4, <1>5, <1>6

\* The history refitted to a new width stays within its capacity.
LEMMA RefitOK ==
    ASSUME NEW m \in Nat, NEW ring \in Seq(Line(m)), NEW cols \in Nat
    PROVE  Refit(ring, cols) \in Seq(Line(cols)) /\ Len(Refit(ring, cols)) <= MaxLines
<1>. DEFINE N == Len(ring)
            S == {r \in Seq(Line(cols)) : Len(r) <= MaxLines}
            F == [a \in (1..N) \X S |-> RingPush(a[2], ring[a[1]], cols)]
            Table(f) == [i \in 0..N |-> IF i = 0 THEN <<>> ELSE RingPush(f[i - 1], ring[i], cols)]
            G == CHOOSE f : f = Table(f)
<1>1. N \in Nat /\ \A n \in 1..N : ring[n] \in Line(m)
  BY ElementOfSeq
<1>2. <<>> \in S
  BY NoLines, TerminalAssumption
<1>3. \A n \in 1..N, r \in S : RingPush(r, ring[n], cols) \in S
  <2>1. ASSUME NEW n \in 1..N, NEW r \in S PROVE RingPush(r, ring[n], cols) \in S
    <3>1. ring[n] \in Line(m)
      BY <1>1
    <3>2. RingPush(r, ring[n], cols) \in Seq(Line(cols)) /\ Len(RingPush(r, ring[n], cols)) \in 1..MaxLines
      BY <3>1, RingPushOK
    <3>. QED  BY <3>2, TerminalAssumption
  <2>. QED  BY <2>1
<1>4. Refit(ring, cols) = G[N]
  BY DEF Refit
<1>5. \A r \in S : r \in Seq(Line(cols)) /\ Len(r) <= MaxLines
  OBVIOUS
<1>. HIDE DEF S
<1>6. IsStep(F, N, S)
  BY <1>3 DEF IsStep
<1>7. PICK t : IsTable(t, <<>>, F, N, S)
  <2>. HIDE DEF F, N
  <2>. QED  BY <1>1, <1>2, <1>6, RecursionExists
<1>8. t \in [0..N -> S] /\ t[0] = <<>>
  BY <1>7 DEF IsTable
<1>9. ASSUME NEW n \in 1..N PROVE t[n] = RingPush(t[n - 1], ring[n], cols)
  <2>1. n - 1 \in 0..N
    BY <1>1
  <2>2. <<n, t[n - 1]>> \in (1..N) \X S
    BY <1>8, <2>1
  <2>3. t[n] = F[<<n, t[n - 1]>>]
    BY <1>7 DEF IsTable
  <2>. QED  BY <2>2, <2>3
<1>10. t = Table(t)
  <2>. HIDE DEF N
  <2>1. ASSUME NEW n \in 0..N PROVE t[n] = IF n = 0 THEN <<>> ELSE RingPush(t[n - 1], ring[n], cols)
    BY <1>1, <1>8, <1>9
  <2>. QED  BY <1>8, <2>1
<1>11. G = Table(G)
  BY <1>10
<1>. HIDE DEF G, N
<1>12. G[0] = <<>> /\ \A n \in 1..N : G[n] = RingPush(G[n - 1], ring[n], cols)
  BY <1>1, <1>11
<1>. DEFINE T == {n \in Nat : G[n] \in S}
<1>13. 0 \in T
  BY <1>2, <1>12
<1>14. ASSUME NEW n \in 0..(N - 1), n \in T PROVE n + 1 \in T
  <2>1. n + 1 \in 1..N /\ (n + 1) - 1 = n /\ n + 1 \in Nat
    BY <1>1
  <2>2. G[n + 1] = RingPush(G[n], ring[n + 1], cols)
    BY <1>12, <2>1
  <2>. QED  BY <1>3, <1>14, <2>1, <2>2
<1>. HIDE DEF T
<1>15. 0..N \subseteq T
  BY <1>1, <1>13, <1>14, BoundedInduction
<1>16. N \in T
  BY <1>1, <1>15
<1>. QED  BY <1>4, <1>5, <1>16 DEF T

\* A restart, with or without a new session.
LEMMA RestartOK ==
    ASSUME NEW t, TermOK(t), NEW ok \in BOOLEAN, NEW u, u = Restart(t, ok)
    PROVE  TermOK(u) /\ (u.session => Shown(u, Synchronized(u)))
<1>. DEFINE g == NewGrid(t.grid.cols, t.grid.row_count)
            f == [t EXCEPT !.exited = FALSE, !.session = ok, !.grid = g,
                           !.alt = FALSE, !.saved = {}, !.scrollback = <<>>,
                           !.viewport = DefaultViewport, !.selection = {}, !.attrs = DefaultAttrs]
            z == <<t.grid.cols, t.grid.row_count>>
<1>1. DOMAIN t = TermFields /\ GridOK(t.grid)
  BY DEF TermOK, ScreensOK
<1>2. GridOK(g)
  BY <1>1, NewGridOK DEF GridOK
<1>3. u = IF ok THEN [f EXCEPT !.pane_dirty_all = TRUE, !.winsize = z] ELSE f
  BY DEF Restart
<1>4. ViewportOK(DefaultViewport)
  BY DEF ViewportOK, ViewportSet, DefaultViewport
<1>. HIDE DEF g, z
<1>5. /\ f.grid = g /\ DOMAIN f = TermFields
      /\ f.saved = {} /\ f.alt = FALSE /\ f.scrollback = <<>>
      /\ f.sb_cols = t.sb_cols /\ f.viewport = DefaultViewport /\ f.selection = {}
      /\ f.attrs = DefaultAttrs /\ f.last_char = t.last_char /\ f.modes = t.modes
      /\ f.visible = t.visible /\ f.pane_cols = t.pane_cols
      /\ f.pane_dirty_all = t.pane_dirty_all /\ f.session = ok
  BY <1>1 DEF TermFields
<1>. HIDE DEF f
<1>6. /\ u.grid = g /\ DOMAIN u = TermFields
      /\ u.saved = {} /\ u.alt = FALSE /\ u.scrollback = <<>>
      /\ u.sb_cols = t.sb_cols /\ u.viewport = DefaultViewport /\ u.selection = {}
      /\ u.attrs = DefaultAttrs /\ u.last_char = t.last_char /\ u.modes = t.modes
      /\ u.visible = t.visible /\ u.pane_cols = t.pane_cols
      /\ (ok => u.pane_dirty_all = TRUE) /\ (~ok => u.pane_dirty_all = t.pane_dirty_all)
      /\ u.session = ok
  BY <1>3, <1>5 DEF TermFields
<1>7. HistoryOK(u)
  <2>1. u.scrollback \in Seq(Line(u.sb_cols)) /\ Len(u.scrollback) = 0
    BY <1>6, NoLines
  <2>. QED  BY <1>6, <2>1, TerminalAssumption DEF TermOK, HistoryOK
<1>8. TermOK(u)
  BY <1>2, <1>4, <1>6, <1>7, SizeAssumption DEF TermOK, ScreensOK
<1>. QED  BY <1>6, <1>8 DEF Shown

\* A row of the document is a line.
LEMMA DocLineOK ==
    ASSUME NEW t, TermOK(t), NEW doc \in 0..(DocRows(t) - 1)
    PROVE  \E n \in Nat : DocLine(t, doc) \in Line(n)
<1>1. /\ Len(t.scrollback) \in Nat /\ t.grid.row_count \in Nat
      /\ DocRows(t) = Len(t.scrollback) + t.grid.row_count
  BY ViewShape
<1>2. t.sb_cols \in Nat /\ t.scrollback \in Seq(Line(t.sb_cols)) /\ GridOK(t.grid)
  BY DEF TermOK, HistoryOK, ScreensOK
<1>3. CASE doc < Len(t.scrollback)
  <2>1. doc + 1 \in 1..Len(t.scrollback)
    BY <1>1, <1>3
  <2>2. t.scrollback[doc + 1] \in Line(t.sb_cols)
    BY <1>2, <2>1, ElementOfSeq
  <2>. QED  BY <1>2, <1>3, <2>2 DEF DocLine
<1>4. CASE ~(doc < Len(t.scrollback))
  <2>1. doc - Len(t.scrollback) \in 0..(t.grid.row_count - 1)
    BY <1>1, <1>4
  <2>2. t.grid.rows[doc - Len(t.scrollback)] \in Line(t.grid.cols) /\ t.grid.cols \in Nat
    BY <1>2, <2>1, GridSize
  <2>. QED  BY <1>4, <2>2 DEF DocLine
<1>. QED  BY <1>3, <1>4

\* Painting stays inside the frame.
LEMMA PaintedCols ==
    ASSUME NEW t, TermOK(t), NEW i \in 0..(LinesShown(t) - 1), NEW c \in CellsPainted(t, i)
    PROVE  c \in 0..(t.pane_cols - 1) /\ i \in 0..(t.visible - 1)
<1>1. WindowStart(t) + i \in 0..(DocRows(t) - 1) /\ i \in 0..(t.visible - 1)
  BY ViewShape
<1>2. PICK n \in Nat : DocLine(t, WindowStart(t) + i) \in Line(n)
  BY <1>1, DocLineOK
<1>3. c \in 0..(n - 1) /\ c < t.pane_cols
  BY <1>2 DEF CellsPainted, Line
<1>4. t.pane_cols \in Nat
  BY DEF TermOK
<1>. QED  BY <1>1, <1>3, <1>4

\* Terminal::resize, with a fresh frame whenever the pane's size changes.
LEMMA ResizeActed ==
    ASSUME NEW t, TermOK(t), NEW cols, NEW rows, SizeAllowed(cols, rows), NEW fresh \in BOOLEAN,
           ~fresh => cols = t.pane_cols /\ rows = t.visible,
           NEW u, u = Resize(t, cols, rows, fresh)
    PROVE  Acted(t, u)
<1>. DEFINE changed == <<cols, rows>> /= <<t.grid.cols, t.grid.row_count>>
            g == ResizeGrid(t.grid, cols, rows)
            ring == Refit(t.scrollback, cols)
            z == IF t.session THEN <<cols, rows>> ELSE t.winsize
            s == IF changed
                   THEN [t EXCEPT !.grid = g, !.scrollback = ring, !.sb_cols = cols,
                                  !.pane_dirty_all = TRUE, !.winsize = z]
                   ELSE t
            fr == IF fresh THEN FreshFrame(cols, rows) ELSE s.frame
            ui == IF fresh THEN {} ELSE s.ui
<1>1. /\ DOMAIN t = TermFields /\ GridOK(t.grid)
      /\ t.sb_cols \in Nat /\ t.scrollback \in Seq(Line(t.sb_cols))
      /\ cols \in Nat /\ rows \in Nat
  BY SizeAssumption DEF TermOK, ScreensOK, HistoryOK, SizeAllowed
<1>2. GridOK(g)
  BY <1>1, ResizeGridOK
<1>3. ring \in Seq(Line(cols)) /\ Len(ring) <= MaxLines
  BY <1>1, RefitOK
<1>4. u = [s EXCEPT !.visible = rows, !.pane_cols = cols, !.frame = fr, !.ui = ui]
  <2>1. s = IF changed
              THEN [t EXCEPT !.grid = ResizeGrid(@, cols, rows), !.scrollback = Refit(@, cols),
                             !.sb_cols = cols, !.pane_dirty_all = TRUE,
                             !.winsize = IF t.session THEN <<cols, rows>> ELSE @]
              ELSE t
    BY <1>1 DEF TermFields
  <2>2. DOMAIN s = TermFields
    BY <1>1 DEF TermFields
  <2>3. u = [s EXCEPT !.visible = rows, !.pane_cols = cols,
                      !.frame = IF fresh THEN FreshFrame(cols, rows) ELSE @,
                      !.ui = IF fresh THEN {} ELSE @]
    BY <2>1 DEF Resize
  <2>. HIDE DEF s
  <2>. QED  BY <2>2, <2>3 DEF TermFields
<1>5. /\ DOMAIN s = TermFields
      /\ \A f \in TermFields \ {"grid", "scrollback", "sb_cols", "pane_dirty_all", "winsize"} : s[f] = t[f]
      /\ changed => s.grid = g /\ s.scrollback = ring /\ s.sb_cols = cols /\ s.pane_dirty_all = TRUE
      /\ ~changed => s = t
  <2>. HIDE DEF g, ring, z
  <2>. QED  BY <1>1 DEF TermFields
<1>. HIDE DEF changed, g, ring, z, s, fr, ui
<1>6. /\ DOMAIN u = TermFields /\ u.visible = rows /\ u.pane_cols = cols /\ u.frame = fr
      /\ \A f \in TermFields \ {"visible", "pane_cols", "frame", "ui"} : u[f] = s[f]
  BY <1>4, <1>5 DEF TermFields
<1>7. /\ u.saved = t.saved /\ u.alt = t.alt /\ u.viewport = t.viewport /\ u.selection = t.selection
      /\ u.attrs = t.attrs /\ u.last_char = t.last_char /\ u.modes = t.modes
      /\ u.pane_dirty = t.pane_dirty /\ u.session = t.session
  BY <1>5, <1>6 DEF TermFields
<1>8. /\ u.grid = s.grid /\ u.scrollback = s.scrollback /\ u.sb_cols = s.sb_cols
      /\ u.pane_dirty_all = s.pane_dirty_all
  BY <1>6 DEF TermFields
<1>9. CASE changed
  <2>1. u.grid = g /\ u.scrollback = ring /\ u.sb_cols = cols /\ u.pane_dirty_all = TRUE
    BY <1>5, <1>8, <1>9
  <2>2. TermOK(u)
    BY <1>1, <1>2, <1>3, <1>6, <1>7, <2>1 DEF TermOK, ScreensOK, HistoryOK
  <2>. QED  BY <1>7, <2>1, <2>2 DEF Acted, MainKept, Shown
<1>10. CASE ~changed
  <2>1. u.grid = t.grid /\ u.scrollback = t.scrollback /\ u.sb_cols = t.sb_cols
        /\ u.pane_dirty_all = t.pane_dirty_all
    BY <1>5, <1>8, <1>10
  <2>2. TermOK(u)
    BY <1>1, <1>6, <1>7, <2>1 DEF TermOK, ScreensOK, HistoryOK
  <2>3. CASE fresh
    <3>1. u.frame = FreshFrame(cols, rows)
      BY <1>6, <2>3 DEF fr
    <3>2. ASSUME NEW i \in 0..(LinesShown(u) - 1), NEW c \in CellsPainted(u, i)
          PROVE  CellShown(u, i, c)
      <4>1. c \in 0..(cols - 1) /\ i \in 0..(rows - 1)
        BY <1>6, <2>2, PaintedCols
      <4>2. u.frame[i][c] = Unpainted
        BY <3>1, <4>1 DEF FreshFrame
      <4>. QED  BY <4>2 DEF CellShown
    <3>3. Shown(u, Synchronized(u))
      BY <3>2 DEF Shown, ShownRow
    <3>. QED  BY <1>7, <2>2, <3>3 DEF Acted, MainKept
  <2>4. CASE ~fresh
    <3>1. cols = t.pane_cols /\ rows = t.visible /\ u.frame = t.frame
      <4>1. s.frame = t.frame
        BY <1>5 DEF TermFields
      <4>. QED  BY <1>6, <2>4, <4>1 DEF fr
    <3>2. \A f \in TermFields \ {"exited", "response", "blink_phase", "cursor_dirty", "ui", "winsize"} :
             u[f] = t[f]
      BY <1>5, <1>6, <1>7, <2>1, <3>1 DEF TermFields
    <3>. QED  BY <1>6, <3>2, SameActed
  <2>. QED  BY <2>3, <2>4
<1>. QED  BY <1>9, <1>10

\* The fields Render changes.
Repainted(t, u) ==
    /\ DOMAIN u = TermFields /\ u.pane_dirty_all = FALSE
    /\ \A f \in TermFields \ {"frame", "ui", "pane_dirty", "pane_dirty_all", "cursor_dirty"} :
          u[f] = t[f]

\* The rows Render paints: all of them, or at least the marked ones.
PaintsRows(t, u, rows) ==
    /\ t.pane_dirty \subseteq rows
    /\ u.frame = [i \in 0..(t.visible - 1) |->
         IF (t.pane_dirty_all \/ rows = {} \/ i \in rows) /\ i < LinesShown(t)
           THEN [c \in 0..(t.pane_cols - 1) |->
                   IF c \in CellsPainted(t, i) THEN PaintedCell(t, i, c) ELSE t.frame[i][c]]
           ELSE t.frame[i]]

\* Render does both.
LEMMA RenderFields ==
    ASSUME NEW t, TermOK(t), NEW u, u = Render(t)
    PROVE  /\ Repainted(t, u)
           /\ \E rows : PaintsRows(t, u, rows)
<1>. DEFINE rows == t.pane_dirty \cup (IF t.cursor_dirty THEN CursorVisibleIndex(t) ELSE {})
            all  == t.pane_dirty_all \/ rows = {}
            fr == [i \in 0..(t.visible - 1) |->
                     IF (all \/ i \in rows) /\ i < LinesShown(t)
                       THEN [c \in 0..(t.pane_cols - 1) |->
                               IF c \in CellsPainted(t, i)
                                 THEN PaintedCell(t, i, c) ELSE t.frame[i][c]]
                       ELSE t.frame[i]]
            ui == Overlays(t)
<1>1. DOMAIN t = TermFields
  BY DEF TermOK
<1>2. u = [t EXCEPT !.frame = fr, !.ui = ui, !.pane_dirty = {}, !.pane_dirty_all = FALSE,
                    !.cursor_dirty = FALSE]
  BY <1>1 DEF Render, TermFields
<1>3. t.pane_dirty \subseteq rows
  OBVIOUS
<1>4. fr = [i \in 0..(t.visible - 1) |->
             IF (t.pane_dirty_all \/ rows = {} \/ i \in rows) /\ i < LinesShown(t)
               THEN [c \in 0..(t.pane_cols - 1) |->
                       IF c \in CellsPainted(t, i)
                         THEN PaintedCell(t, i, c) ELSE t.frame[i][c]]
               ELSE t.frame[i]]
  BY Zenon
<1>. HIDE DEF fr, rows, ui
<1>5. /\ DOMAIN u = TermFields /\ u.frame = fr /\ u.pane_dirty_all = FALSE
      /\ \A f \in TermFields \ {"frame", "ui", "pane_dirty", "pane_dirty_all", "cursor_dirty"} :
            u[f] = t[f]
  BY <1>1, <1>2 DEF TermFields
<1>6. PaintsRows(t, u, rows)
  BY <1>3, <1>4, <1>5 DEF PaintsRows
<1>. QED  BY <1>5, <1>6 DEF Repainted

\* Render pays what the marks stood for.
LEMMA RenderActed ==
    ASSUME NEW t, TermOK(t), NEW u, u = Render(t)
    PROVE  Acted(t, u)
<1>0. Repainted(t, u)
  BY RenderFields
<1>1. /\ DOMAIN u = TermFields /\ u.pane_dirty_all = FALSE
      /\ u.grid = t.grid /\ u.saved = t.saved /\ u.alt = t.alt /\ u.scrollback = t.scrollback
      /\ u.sb_cols = t.sb_cols /\ u.viewport = t.viewport /\ u.selection = t.selection
      /\ u.attrs = t.attrs /\ u.last_char = t.last_char /\ u.modes = t.modes
      /\ u.visible = t.visible /\ u.pane_cols = t.pane_cols /\ u.session = t.session
  BY <1>0 DEF Repainted, TermFields
<1>2. TermOK(u)
  BY <1>1 DEF TermOK, ScreensOK, HistoryOK
<1>3. MainKept(t, u)
  BY <1>1 DEF MainKept
<1>4. /\ WindowStart(u) = WindowStart(t) /\ LinesShown(u) = LinesShown(t)
      /\ \A d : DocLine(u, d) = DocLine(t, d)
  BY <1>1 DEF WindowStart, LinesShown, DocRows, DocLine
<1>5. /\ \A i : CellsPainted(u, i) = CellsPainted(t, i) /\ GridRow(u, i) = GridRow(t, i)
      /\ \A i, c : Plain(u, i, c) = Plain(t, i, c)
  BY <1>1, <1>4 DEF CellsPainted, Plain, GridRow
<1>6. Synchronized(u) = Synchronized(t)
  BY <1>1 DEF Synchronized
<1>7a. PICK rows : PaintsRows(t, u, rows)
  BY RenderFields
<1>7. /\ t.pane_dirty \subseteq rows
      /\ u.frame = [i \in 0..(t.visible - 1) |->
         IF (t.pane_dirty_all \/ rows = {} \/ i \in rows) /\ i < LinesShown(t)
           THEN [c \in 0..(t.pane_cols - 1) |->
                   IF c \in CellsPainted(t, i) THEN PaintedCell(t, i, c) ELSE t.frame[i][c]]
           ELSE t.frame[i]]
  BY <1>7a DEF PaintsRows
<1>8. ASSUME Shown(t, Synchronized(t)) PROVE Shown(u, Synchronized(u))
  <2>1. CASE Synchronized(t) /\ t.grid.dirty_all
    BY <1>1, <1>6, <2>1 DEF Shown
  <2>2. CASE ~(Synchronized(t) /\ t.grid.dirty_all)
    <3>1. ASSUME NEW i \in 0..(LinesShown(u) - 1) PROVE ShownRow(u, Synchronized(u), i)
      <4>0. i \in 0..(t.visible - 1) /\ i < LinesShown(t)
        <5>1. LinesShown(t) \in Int /\ LinesShown(t) <= t.visible /\ t.visible \in Nat
          BY ViewShape
        <5>. QED  BY <1>4, <3>1, <5>1
      <4>1. CASE t.pane_dirty_all \/ rows = {} \/ i \in rows
        <5>1. ASSUME NEW c \in CellsPainted(t, i) PROVE CellShown(u, i, c)
          <6>1. c \in 0..(t.pane_cols - 1)
            BY <1>4, <3>1, <5>1, PaintedCols
          <6>2. u.frame[i][c] = PaintedCell(t, i, c)
            BY <1>7, <4>0, <4>1, <5>1, <6>1
          <6>3. [u.frame[i][c] EXCEPT !.cursor = {}] = Plain(u, i, c)
            BY <1>5, <6>2, PaintedPlain
          <6>. QED  BY <6>3, PaintedPlain DEF CellShown
        <5>. QED  BY <1>5, <5>1 DEF ShownRow
      <4>2. CASE ~(t.pane_dirty_all \/ rows = {} \/ i \in rows)
        <5>1. ShownRow(t, Synchronized(t), i) /\ i \notin t.pane_dirty
          BY <1>4, <1>7, <1>8, <2>2, <4>2 DEF Shown
        <5>2. u.frame[i] = t.frame[i]
          BY <1>7, <4>0, <4>2
        <5>3. ASSUME NEW c, CellShown(t, i, c) PROVE CellShown(u, i, c)
          BY <1>5, <5>2, <5>3, PaintedPlain DEF CellShown
        <5>. QED  BY <1>1, <1>5, <1>6, <5>1, <5>3 DEF ShownRow
      <4>. QED  BY <4>1, <4>2
    <3>. QED  BY <3>1 DEF Shown
  <2>. QED  BY <2>1, <2>2
<1>. QED  BY <1>1, <1>2, <1>3, <1>8 DEF Acted

\* Pane gestures.
Gestures == [kind : {"none", "pending", "scroll", "select"}, row : Nat, cell : Places]

\* A step of the host or the user between chunks.
Served ==
    /\ chunk = "none" /\ chunk' = chunk /\ gesture' \in Gestures
    /\ Acted(term, term') \/ \E ok \in BOOLEAN : term' = Restart(term, ok)

\* A point of the pane is a position of the document.
LEMMA PointOK ==
    ASSUME TermOK(term), NEW row \in PaneRows, NEW col \in 0..(term.grid.cols - 1)
    PROVE  row \in Nat /\ PhysicalToDoc(term, row, col) \in Places
<1>1. WindowStart(term) \in Nat /\ term.visible \in Nat
  BY ViewShape
<1>2. row \in Nat /\ col \in Nat
  BY <1>1 DEF PaneRows
<1>. QED  BY <1>1, <1>2 DEF PhysicalToDoc, Pos, Places

\* Doing nothing owes nothing.
LEMMA SelfActed == ASSUME NEW t, TermOK(t) PROVE Acted(t, t)
<1>1. DOMAIN t = TermFields
  BY DEF TermOK
<1>. QED  BY <1>1, SameActed

\* main.rs paints.
LEMMA PaintServed == ASSUME TermOK(term), gesture \in Gestures, Paint PROVE Served
BY RenderActed DEF Paint, Served

\* The host resizes the pane.
LEMMA ResizeServed == ASSUME TermOK(term), gesture \in Gestures, HostResize PROVE Served
<1>1. chunk = "none" /\ chunk' = chunk /\ gesture' = gesture
  BY DEF HostResize, Idle
<1>2. PICK size \in Sizes, fresh \in BOOLEAN :
         /\ size /= <<term.pane_cols, term.visible>> => fresh
         /\ term' = Resize(term, size[1], size[2], fresh)
  BY DEF HostResize
<1>3. SizeAllowed(size[1], size[2])
  BY TerminalAssumption
<1>4. ~fresh => size[1] = term.pane_cols /\ size[2] = term.visible
  BY <1>2
<1>5. Acted(term, term')
  BY <1>2, <1>3, <1>4, ResizeActed
<1>. QED  BY <1>1, <1>5 DEF Served

\* Polling and blinking.
LEMMA TickServed ==
    ASSUME TermOK(term), gesture \in Gestures, PollSession \/ TickBlink PROVE Served
<1>1. chunk = "none" /\ chunk' = chunk /\ gesture' = gesture
  BY DEF PollSession, TickBlink, Idle
<1>2. DOMAIN term = TermFields
  BY DEF TermOK
<1>3. /\ DOMAIN term' = TermFields
      /\ \A f \in TermFields \ {"exited", "response", "blink_phase", "cursor_dirty"} : term'[f] = term[f]
  <2>1. CASE term' = [term EXCEPT !.exited = TRUE]
    BY <1>2, <2>1 DEF TermFields
  <2>2. CASE term' = [term EXCEPT !.response = 0]
    BY <1>2, <2>2 DEF TermFields
  <2>3. CASE term' = [term EXCEPT !.blink_phase = ~@, !.cursor_dirty = TRUE]
    BY <1>2, <2>3 DEF TermFields
  <2>. QED  BY <2>1, <2>2, <2>3 DEF PollSession, TickBlink
<1>4. Acted(term, term')
  BY <1>3, SameActed
<1>. QED  BY <1>1, <1>4 DEF Served

\* A press.
LEMMA PressServed == ASSUME TermOK(term), gesture \in Gestures, Press PROVE Served
<1>1. chunk = "none" /\ chunk' = chunk /\ term' = term
  BY DEF Press, Idle
<1>2. gesture' \in Gestures
  BY PointOK DEF Press, Gestures
<1>. QED  BY <1>1, <1>2, SelfActed DEF Served

\* A move.
LEMMA MoveServed == ASSUME TermOK(term), gesture \in Gestures, Move PROVE Served
<1>1. chunk = "none" /\ chunk' = chunk
  BY DEF Move, Idle
<1>2. PICK row \in PaneRows, col \in 0..(term.grid.cols - 1), long \in BOOLEAN :
         LET dy  == row - gesture.row
             pos == PhysicalToDoc(term, row, col)
         IN  \/ /\ gesture.kind = "pending"
                /\ Most(dy, -dy) > ScrollThreshold
                /\ term' = ScrollBy(term, dy)
                /\ gesture' = [gesture EXCEPT !.kind = "scroll", !.row = row]
             \/ /\ gesture.kind = "pending" /\ long
                /\ Most(dy, -dy) <= ScrollThreshold
                /\ term' = SelectionExtend(SelectionStart(term, gesture.cell), pos)
                /\ gesture' = [gesture EXCEPT !.kind = "select"]
             \/ /\ gesture.kind = "scroll" /\ dy /= 0
                /\ term' = ScrollBy(term, dy)
                /\ gesture' = [gesture EXCEPT !.row = row]
             \/ /\ gesture.kind = "select"
                /\ term' = SelectionExtend(term, pos)
                /\ UNCHANGED gesture
  BY DEF Move
<1>. DEFINE dy == row - gesture.row
            pos == PhysicalToDoc(term, row, col)
<1>3. row \in Nat /\ pos \in Places /\ gesture.row \in Nat /\ gesture.cell \in Places /\ dy \in Int
  BY PointOK DEF Gestures
<1>4. \/ term' = ScrollBy(term, dy)
      \/ term' = SelectionExtend(SelectionStart(term, gesture.cell), pos)
      \/ term' = SelectionExtend(term, pos)
  BY <1>2
<1>5. gesture' \in Gestures
  BY <1>2, <1>3 DEF Gestures
<1>. HIDE DEF dy, pos
<1>6. CASE term' = ScrollBy(term, dy)
  BY <1>1, <1>3, <1>5, <1>6, ScrollByActed DEF Served
<1>7. CASE term' = SelectionExtend(term, pos)
  BY <1>1, <1>3, <1>5, <1>7, SelectActed DEF Served
<1>8. CASE term' = SelectionExtend(SelectionStart(term, gesture.cell), pos)
  <2>. DEFINE s == SelectionStart(term, gesture.cell)
  <2>1. Acted(term, s)
    BY <1>3, SelectActed
  <2>2. TermOK(s)
    BY <2>1 DEF Acted
  <2>. HIDE DEF s
  <2>3. Acted(s, SelectionExtend(s, pos))
    BY <1>3, <2>2, SelectActed
  <2>4. s.alt = term.alt /\ s.saved = term.saved
    <3>1. DOMAIN term = TermFields
      BY DEF TermOK
    <3>. QED  BY <3>1 DEF s, SelectionStart, TermFields
  <2>5. Acted(term, SelectionExtend(s, pos))
    BY <2>1, <2>3, <2>4 DEF Acted, MainKept
  <2>. QED  BY <1>1, <1>5, <1>8, <2>5 DEF s, Served
<1>. QED  BY <1>4, <1>6, <1>7, <1>8

\* A release.
LEMMA ReleaseServed == ASSUME TermOK(term), gesture \in Gestures, Release PROVE Served
<1>1. chunk = "none" /\ chunk' = chunk
  BY DEF Release, Idle
<1>2. gesture' \in Gestures
  BY DEF Release, NoGesture, Gestures, Places, Pos
<1>3. PICK row \in PaneRows, col \in 0..(term.grid.cols - 1) :
         term' = CASE gesture.kind = "pending" -> SelectionStart(term, PhysicalToDoc(term, row, col))
                   [] gesture.kind = "select"  -> SelectionExtend(term, PhysicalToDoc(term, row, col))
                   [] OTHER                    -> term
  BY DEF Release
<1>4. PhysicalToDoc(term, row, col) \in Places
  BY PointOK
<1>5. \/ term' = SelectionStart(term, PhysicalToDoc(term, row, col))
      \/ term' = SelectionExtend(term, PhysicalToDoc(term, row, col))
      \/ term' = term
  BY <1>3
<1>6. Acted(term, term')
  BY <1>4, <1>5, SelectActed, SelfActed
<1>. QED  BY <1>1, <1>2, <1>6 DEF Served

\* A tap on a control.
LEMMA TapServed == ASSUME TermOK(term), gesture \in Gestures, TapControl PROVE Served
<1>1. chunk = "none" /\ chunk' = chunk /\ gesture' = gesture
  BY DEF TapControl, Idle
<1>2. CASE term' = ReturnToNewest(term)
  BY <1>1, <1>2, ScrollActed DEF Served
<1>3. CASE \E ok \in BOOLEAN : term' = CopySelection(term, ok)
  <2>1. Pos(0, 0) \in Places
    BY DEF Places, Pos
  <2>2. Acted(term, term')
    BY <1>3, <2>1, SelectActed
  <2>. QED  BY <1>1, <2>2 DEF Served
<1>4. CASE \E ok \in BOOLEAN : term' = Restart(term, ok)
  BY <1>1, <1>4 DEF Served
<1>. QED  BY <1>2, <1>3, <1>4 DEF TapControl

\* Every step of the host and the user.
LEMMA UserServed == ASSUME TermOK(term), gesture \in Gestures, User PROVE Served
BY PaintServed, ResizeServed, TickServed, PressServed, MoveServed, ReleaseServed, TapServed DEF User

-----------------------------------------------------------------------------
(* The inductive invariant and the theorems.                                *)

\* The frame's half of the invariant.  A chunk fed under a synchronized update
\* that has been closed since has marked the pane; while a session runs the pane is
\* right or marked, where the marks of the grid count inside a plain chunk and
\* while a synchronized update is open.
PaneKept ==
    /\ chunk = "synced" /\ ~Synchronized(term) => term.pane_dirty_all
    /\ term.session => Shown(term, chunk = "plain" \/ Synchronized(term))

\* The inductive invariant of the terminal.
IInv ==
    /\ TermOK(term)
    /\ chunk \in {"none", "synced", "plain"} /\ gesture \in Gestures
    /\ PaneKept

\* The terminal starts in it: well formed and wholly marked.
LEMMA InitInv == ASSUME Init PROVE IInv
<1>. DEFINE g == NewGrid(InitCols, InitRows)
            z == <<InitCols, InitRows>>
            fr == FreshFrame(InitCols, InitRows)
<1>1. InitCols \in Nat /\ InitRows \in Nat /\ SizeAllowed(InitCols, InitRows)
  BY TerminalAssumption, SizeAssumption DEF SizeAllowed
<1>2. GridOK(g)
  BY <1>1, NewGridOK
<1>3. ViewportOK(DefaultViewport)
  BY DEF ViewportOK, ViewportSet, DefaultViewport
<1>4. DefaultModes \in ModeSet
  BY DEF DefaultModes, ModeSet, FlagModes, MouseModes, CursorShapes
<1>5. <<>> \in Seq(Line(InitCols)) /\ Len(<<>>) = 0
  BY NoLines
<1>. HIDE DEF g, z, fr
<1>6. /\ DOMAIN InitTerm = TermFields /\ InitTerm.grid = g /\ InitTerm.saved = {} /\ InitTerm.alt = FALSE
      /\ InitTerm.scrollback = <<>> /\ InitTerm.sb_cols = InitCols /\ InitTerm.viewport = DefaultViewport
      /\ InitTerm.selection = {} /\ InitTerm.attrs = DefaultAttrs /\ InitTerm.last_char = {}
      /\ InitTerm.modes = DefaultModes /\ InitTerm.visible = InitRows /\ InitTerm.pane_cols = InitCols
      /\ InitTerm.pane_dirty_all = TRUE /\ InitTerm.session = TRUE
  BY DEF InitTerm, TermFields, g
<1>7. TermOK(InitTerm)
  <2>1. ScreensOK(InitTerm)
    BY <1>2, <1>6 DEF ScreensOK
  <2>2. HistoryOK(InitTerm)
    BY <1>1, <1>5, <1>6, TerminalAssumption DEF HistoryOK
  <2>3. DefaultAttrs \in Attrs
    BY SizeAssumption
  <2>. QED  BY <1>1, <1>3, <1>4, <1>6, <2>1, <2>2, <2>3 DEF TermOK
<1>8. NoGesture \in Gestures
  BY DEF NoGesture, Gestures, Places, Pos
<1>9. term = InitTerm /\ chunk = "none" /\ gesture = NoGesture
  BY DEF Init
<1>. QED  BY <1>6, <1>7, <1>8, <1>9 DEF IInv, PaneKept, Shown

\* The child's output keeps it, keeps the main screen and does not pull a
\* scrolled-up view down.
LEMMA OutputKeeps ==
    ASSUME IInv, Output
    PROVE  /\ IInv' /\ MainKept(term, term')
           /\ term.viewport.scroll_offset > 0 =>
                 term'.viewport.scroll_offset > 0 \/ (term'.alt /\ ~term.alt)
<1>0. TermOK(term) /\ gesture \in Gestures
  BY DEF IInv
<1>1. PICK u : Emitted(term, u) /\ FeedStep(u)
  BY <1>0, OutputEmits DEF Emits
<1>2. TermOK(u) /\ u.session = term.session /\ MainKept(term, u)
  BY <1>1 DEF Emitted, OnPane
<1>3. gesture' = gesture
  BY <1>1 DEF FeedStep
<1>4. term.session => Shown(u, TRUE)
  <2>1. ASSUME term.session PROVE Shown(u, TRUE)
    <3>1. Shown(term, chunk = "plain" \/ Synchronized(term))
      BY <2>1 DEF IInv, PaneKept
    <3>2. (chunk = "plain" \/ Synchronized(term)) \in BOOLEAN
      OBVIOUS
    <3>. QED  BY <1>0, <1>1, <3>1, <3>2, EmittedShown
  <2>. QED  BY <2>1
<1>5. CASE term' = MarkDirtyFromGrid(u) /\ chunk' = "none"
  <2>1. MarkedFrom(u, term')
    BY <1>2, <1>5, MarkFields
  <2>2. /\ TermOK(term') /\ term'.saved = u.saved /\ term'.alt = u.alt /\ term'.viewport = u.viewport
        /\ term'.session = u.session /\ term'.grid.rows = u.grid.rows
        /\ term'.grid.scroll_top = u.grid.scroll_top /\ term'.grid.scroll_bottom = u.grid.scroll_bottom
        /\ term'.grid.tab_stops = u.grid.tab_stops
    BY <1>2, <2>1, MarkSame
  <2>3. MainKept(term, term')
    <3>1. term'.alt \/ \A f \in MainScreen : term'.grid[f] = u.grid[f]
      BY <2>2 DEF MainScreen
    <3>. QED  BY <1>2, <2>2, <3>1 DEF MainKept
  <2>4. term'.session => Shown(term', FALSE)
    BY <1>2, <1>4, <2>1, <2>2, MarkShown
  <2>5. term'.session => Shown(term', chunk' = "plain" \/ Synchronized(term'))
    <3>1. (chunk' = "plain" \/ Synchronized(term')) \in BOOLEAN
      OBVIOUS
    <3>. QED  BY <2>4, <3>1, ShownOpen
  <2>6. IInv'
    BY <1>0, <1>3, <1>5, <2>2, <2>5 DEF IInv, PaneKept
  <2>. QED  BY <1>1, <2>2, <2>3, <2>6 DEF Emitted
<1>6. CASE term' = u /\ chunk' = "plain"
  <2>1. (chunk' = "plain" \/ Synchronized(term')) = TRUE
    BY <1>6
  <2>2. IInv'
    BY <1>0, <1>2, <1>3, <1>4, <1>6, <2>1 DEF IInv, PaneKept
  <2>. QED  BY <1>1, <1>2, <1>6, <2>2 DEF Emitted
<1>7. CASE Synced(term) /\ term' = u /\ chunk' \in {"none", "synced"}
  <2>1. ~Synchronized(u) => u.pane_dirty_all
    <3>1. CASE Synchronized(term)
      BY <1>1, <3>1 DEF Emitted
    <3>2. CASE ~Synchronized(term)
      <4>1. chunk = "synced"
        BY <1>7, <3>2 DEF Synced, Synchronized
      <4>. QED  BY <1>1, <3>2, <4>1 DEF IInv, PaneKept, Emitted, OnPane
    <3>. QED  BY <3>1, <3>2
  <2>2. term'.session => Shown(term', chunk' = "plain" \/ Synchronized(term'))
    <3>1. CASE Synchronized(u)
      <4>1. (chunk' = "plain" \/ Synchronized(term')) = TRUE
        BY <1>7, <3>1
      <4>. QED  BY <1>2, <1>4, <1>7, <4>1
    <3>2. CASE ~Synchronized(u)
      BY <1>7, <2>1, <3>2 DEF Shown
    <3>. QED  BY <3>1, <3>2
  <2>3. IInv'
    BY <1>0, <1>2, <1>3, <1>7, <2>1, <2>2 DEF IInv, PaneKept
  <2>. QED  BY <1>1, <1>2, <1>7, <2>3 DEF Emitted
<1>8. \/ term' = MarkDirtyFromGrid(u) /\ chunk' = "none"
      \/ term' = u /\ chunk' = "plain"
      \/ Synced(term) /\ term' = u /\ chunk' \in {"none", "synced"}
  BY <1>1 DEF FeedStep
<1>. QED  BY <1>5, <1>6, <1>7, <1>8

\* The user keeps it, and the main screen unless it is a restart.
LEMMA UserKeeps ==
    ASSUME IInv, User
    PROVE  IInv' /\ (MainKept(term, term') \/ \E ok \in BOOLEAN : term' = Restart(term, ok))
<1>0. TermOK(term) /\ gesture \in Gestures
  BY DEF IInv
<1>1. Served
  BY <1>0, UserServed
<1>2. chunk = "none" /\ chunk' = "none" /\ gesture' \in Gestures
  BY <1>1 DEF Served
<1>3. /\ (chunk = "plain" \/ Synchronized(term)) = Synchronized(term)
      /\ Synchronized(term) \in BOOLEAN
  BY <1>0, <1>2 DEF TermOK, ModeSet, FlagModes, Synchronized
<1>4. term.session => Shown(term, Synchronized(term))
  BY <1>3 DEF IInv, PaneKept
<1>5. TermOK(term') /\ (term'.session => Shown(term', Synchronized(term')))
  <2>1. CASE Acted(term, term')
    BY <1>4, <2>1 DEF Acted
  <2>2. CASE \E ok \in BOOLEAN : term' = Restart(term, ok)
    BY <1>0, <2>2, RestartOK
  <2>. QED  BY <1>1, <2>1, <2>2 DEF Served
<1>6. (chunk' = "plain" \/ Synchronized(term')) = Synchronized(term')
  BY <1>2, <1>5 DEF TermOK, ModeSet, FlagModes, Synchronized
<1>7. IInv'
  BY <1>2, <1>5, <1>6 DEF IInv, PaneKept
<1>. QED  BY <1>1, <1>7 DEF Served, Acted

\* Every step keeps it.
LEMMA NextInv == ASSUME IInv, [Next]_vars PROVE IInv'
<1>1. CASE Output
  BY <1>1, OutputKeeps
<1>2. CASE User
  BY <1>2, UserKeeps
<1>3. CASE UNCHANGED vars
  BY <1>3 DEF vars, IInv, PaneKept
<1>. QED  BY <1>1, <1>2, <1>3 DEF Next, Done

\* The invariant holds in every state.
THEOREM TerminalInvariant == Spec => []IInv
BY InitInv, NextInv, PTL DEF Spec

\* TypeOK for any grid size, history capacity, set of characters and workload:
\* no index grid.rs and terminal.rs use unchecked leaves its range, the saved
\* screen's included.
THEOREM TerminalTypes == Spec => []TypeOK
<1>1. IInv => TypeOK
  <2>1. ASSUME IInv PROVE TypeOK
    <3>1. TermOK(term)
      BY <2>1 DEF IInv
    <3>2. \A i \in 1..Len(term.scrollback) : term.scrollback[i] \in Line(term.sb_cols)
      BY <3>1, ElementOfSeq DEF TermOK, HistoryOK
    <3>. QED  BY <3>1, <3>2 DEF TypeOK, TermOK, ScreensOK, HistoryOK, ViewportOK
  <2>. QED  BY <2>1
<1>. QED  BY <1>1, TerminalInvariant, PTL

\* FrameShowsCells: dirty tracking is sound.  Nothing settled on the pane is
\* stale, whatever was printed, scrolled, evicted, erased, selected, resized or
\* switched before.
THEOREM FrameShowsTheCells == Spec => []FrameShowsCells
<1>1. IInv => FrameShowsCells
  <2>. SUFFICES ASSUME IInv, Settled, NEW i \in 0..(LinesShown(term) - 1), NEW c \in CellsPainted(term, i)
                PROVE  CellShown(term, i, c)
    BY DEF FrameShowsCells, CellShown
  <2>1. /\ chunk = "none" /\ term.session /\ ~term.pane_dirty_all /\ term.pane_dirty = {}
        /\ ~Synchronized(term)
    BY DEF Settled, IsDirty, Synchronized
  <2>2. (chunk = "plain" \/ Synchronized(term)) = FALSE
    BY <2>1
  <2>3. Shown(term, FALSE)
    BY <2>1, <2>2 DEF IInv, PaneKept
  <2>. QED  BY <2>1, <2>3 DEF Shown, ShownRow
<1>. QED  BY <1>1, TerminalInvariant, PTL

\* OutputNeverYanks: no output of the child ends the user's look back, except by
\* switching to the alternate screen.
THEOREM OutputNeverYanksTheView == Spec => OutputNeverYanks
<1>1. ASSUME IInv, [Next]_vars
      PROVE  [term.viewport.scroll_offset > 0 /\ term'.viewport.scroll_offset = 0
                => (term'.alt /\ ~term.alt) \/ ~Output]_vars
  BY <1>1, OutputKeeps
<1>. QED  BY <1>1, TerminalInvariant, PTL DEF Spec, OutputNeverYanks

\* MainScreenKept: the alternate screen never costs the main one a line, its
\* region or its tab stops.
THEOREM MainScreenIsKept == Spec => MainScreenKept
<1>1. ASSUME IInv, [Next]_vars
      PROVE  [term.alt /\ (\A ok \in BOOLEAN : term' # Restart(term, ok)) =>
                LET main == CHOOSE g \in term.saved : TRUE
                IN  IF term'.alt THEN term'.saved = term.saved
                    ELSE \A f \in {"rows", "scroll_top", "scroll_bottom", "tab_stops"} :
                            term'.grid[f] = main[f]]_vars
  <2>1. CASE UNCHANGED vars
    BY <2>1
  <2>2. CASE Output \/ User
    <3>1. MainKept(term, term') \/ \E ok \in BOOLEAN : term' = Restart(term, ok)
      BY <1>1, <2>2, OutputKeeps, UserKeeps
    <3>. QED  BY <3>1 DEF MainKept, MainScreen
  <2>. QED  BY <1>1, <2>1, <2>2 DEF Next, Done
<1>. QED  BY <1>1, TerminalInvariant, PTL DEF Spec, MainScreenKept

-----------------------------------------------------------------------------
(* The document: the screen and the history as one.                         *)

\* h has the lines of g one row further up, its last row apart.
Rolled(g, h) ==
    h.row_count = g.row_count /\ \A r \in 0..(g.row_count - 2) : h.rows[r] = g.rows[r + 1]

\* The line that left the screen is the newest of the history.
RolledIn(t, u) ==
    /\ TermOK(u) /\ Rolled(t.grid, u.grid) /\ u.selection = t.selection
    /\ u.scrollback = Append(t.scrollback, FitLine(t.grid.rows[0], t.sb_cols))

\* The region is the whole screen.
FullRegion(g) == g.scroll_top = 0 /\ g.scroll_bottom = g.row_count - 1

\* A history that grew by one got exactly the line that was pushed.
LEMMA PushOne ==
    ASSUME NEW w, TermOK(w), NEW k \in Nat, NEW lines \in Seq(Line(k)), Len(lines) \in {0, 1},
           NEW u, u = PushAll(w, lines), Len(u.scrollback) = Len(w.scrollback) + 1
    PROVE  /\ Len(lines) = 1 /\ u.selection = w.selection
           /\ u.scrollback = Append(w.scrollback, FitLine(lines[1], w.sb_cols))
<1>1. PICK g : IsPushTable(g, w, lines)
  BY PushAllTable
<1>2. Len(w.scrollback) \in Nat /\ Len(lines) \in Nat
  BY DEF TermOK, HistoryOK
<1>3. Len(lines) = 1
  <2>1. CASE Len(lines) = 0
    <3>1. u = w
      BY <1>1, <2>1 DEF IsPushTable
    <3>. QED  BY <1>2, <3>1
  <2>. QED  BY <2>1
<1>4. u = PushScrollback(w, lines[1])
  <2>1. 1 \in 1..Len(lines) /\ 1 - 1 = 0
    BY <1>3
  <2>2. g[1] = PushScrollback(g[1 - 1], lines[1])
    BY <1>1, <2>1 DEF IsPushTable
  <2>. QED  BY <1>1, <1>3, <2>1, <2>2 DEF IsPushTable
<1>5. ~w.alt
  BY <1>2, <1>4 DEF PushScrollback
<1>6. u.scrollback = RingPush(w.scrollback, lines[1], w.sb_cols) /\ u.selection = w.selection
  <2>. DEFINE ring == RingPush(w.scrollback, lines[1], w.sb_cols)
              v == UpdateBounds(w.viewport, Len(ring))
  <2>1. u = [w EXCEPT !.scrollback = ring, !.viewport = v]
    BY <1>4, <1>5 DEF PushScrollback, TermOK, TermFields
  <2>. HIDE DEF ring, v
  <2>2. u.scrollback = ring /\ u.selection = w.selection
    BY <2>1 DEF TermOK, TermFields
  <2>. QED  BY <2>2 DEF ring
<1>7. lines[1] \in Line(k)
  <2>1. 1 \in 1..Len(lines)
    BY <1>3
  <2>. QED  BY <2>1, ElementOfSeq
<1>8. w.sb_cols \in Nat /\ w.scrollback \in Seq(Line(w.sb_cols)) /\ Len(w.scrollback) <= MaxLines
  BY DEF TermOK, HistoryOK
<1>9. Len(w.scrollback) # MaxLines
  BY <1>2, <1>6, <1>7, <1>8, RingPushOK, TerminalAssumption
<1>10. RingPush(w.scrollback, lines[1], w.sb_cols) = Append(w.scrollback, FitLine(lines[1], w.sb_cols))
  BY <1>7, <1>8, <1>9, RingPushOK
<1>. QED  BY <1>3, <1>6, <1>10

\* SU 1 on a full region.
LEMMA ScrollRolls ==
    ASSUME NEW g, GridOK(g), FullRegion(g)
    PROVE  Rolled(g, ScrollUpRegion(g, 1))
<1>1. g.row_count \in Nat /\ g.row_count >= 1 /\ g.rows \in [0..(g.row_count - 1) -> Line(g.cols)]
  BY GridSize
<1>. DEFINE rows == ShiftUp(g, g.scroll_top, g.scroll_bottom, Least(1, RegionRows(g)))
<1>2. Least(1, RegionRows(g)) = 1
  BY <1>1 DEF FullRegion, RegionRows, Least
<1>3. ASSUME NEW r \in 0..(g.row_count - 2) PROVE rows[r] = g.rows[r + 1]
  <2>1. r \in DOMAIN g.rows /\ r \in 0..(g.row_count - 1) /\ r + 1 <= g.row_count - 1
    BY <1>1
  <2>. QED  BY <1>2, <2>1 DEF ShiftUp, FullRegion
<1>. HIDE DEF rows
<1>4. ScrollUpRegion(g, 1) = WithRows(g, rows)
  BY DEF ScrollUpRegion, rows
<1>5. WithRows(g, rows).rows = rows /\ WithRows(g, rows).row_count = g.row_count
  <2>1. g \in GridSet(g.cols, g.row_count)
    BY GridSize
  <2>. QED  BY <2>1 DEF WithRows, GridSet
<1>. QED  BY <1>3, <1>4, <1>5 DEF Rolled

\* IND at the bottom of a full region.
LEMMA IndexRolls ==
    ASSUME NEW g, GridOK(g), FullRegion(g), AtRegionBottom(g)
    PROVE  /\ Rolled(g, Index(g)) /\ Index(g).cursor.row = g.row_count - 1
           /\ Len(IndexOut(g)) = 1 /\ IndexOut(g)[1] = g.rows[0]
<1>. DEFINE h == ScrollUpRegion(g, 1)
<1>1. GridOK(h) /\ h.row_count = g.row_count
  BY ScrollOK DEF Edited
<1>2. h.cursor = g.cursor
  <2>1. g \in GridSet(g.cols, g.row_count)
    BY GridSize
  <2>. QED  BY <2>1 DEF ScrollUpRegion, WithRows, GridSet
<1>3. Rolled(g, h)
  BY ScrollRolls
<1>. HIDE DEF h
<1>4. Index(g) = [h EXCEPT !.wrap_pending = FALSE]
  BY DEF Index, h
<1>5. Index(g).rows = h.rows /\ Index(g).cursor = h.cursor /\ Index(g).row_count = h.row_count
  BY <1>1, <1>4, WrapOK DEF Edited
<1>6. g.cursor.row = g.row_count - 1
  <2>1. g.cursor.row \in 0..(g.row_count - 1) /\ g.row_count \in Nat
    BY GridSize
  <2>. QED  BY <2>1 DEF AtRegionBottom, FullRegion
<1>7. Len(IndexOut(g)) = 1 /\ IndexOut(g)[1] = g.rows[0]
  <2>1. 1 \in Nat
    OBVIOUS
  <2>. QED  BY <2>1, IndexOutOK DEF IndexOut, FullRegion
<1>. QED  BY <1>2, <1>3, <1>5, <1>6, <1>7 DEF Rolled

\* A wrap at the bottom of a full region: the glyph goes to the last row.
LEMMA PutCharRolls ==
    ASSUME NEW g, GridOK(g), FullRegion(g), NEW ch \in Chars, NEW attrs \in Attrs, PrintOut(g, ch) # <<>>
    PROVE  /\ Rolled(g, PutChar(g, ch, attrs)) /\ Len(PrintOut(g, ch)) = 1
           /\ PrintOut(g, ch)[1] = g.rows[0]
<1>1. CharWidth(ch) # 0 /\ NeedsWrap(g, ch) /\ AtRegionBottom(g) /\ PrintOut(g, ch) = IndexOut(g)
  BY DEF PrintOut, IndexOut, CharWidth
<1>. DEFINE h == Wrapped(g)
<1>2. GridOK(h) /\ h.row_count = g.row_count /\ h.rows = Index(g).rows /\ h.cursor.row = Index(g).cursor.row
  BY WrappedOK DEF Edited
<1>3. PutChar(g, ch, attrs) = PlaceChar(h, ch, attrs)
  BY <1>1 DEF PutChar
<1>. HIDE DEF h
<1>4. /\ PlaceChar(h, ch, attrs).row_count = h.row_count
      /\ \A r \in 0..(h.row_count - 1) :
            r # h.cursor.row => PlaceChar(h, ch, attrs).rows[r] = h.rows[r]
  BY <1>2, PlaceCharOK DEF Edited
<1>5. /\ Rolled(g, Index(g)) /\ Index(g).cursor.row = g.row_count - 1
      /\ Len(IndexOut(g)) = 1 /\ IndexOut(g)[1] = g.rows[0]
  BY <1>1, IndexRolls
<1>6. ASSUME NEW r \in 0..(g.row_count - 2) PROVE PutChar(g, ch, attrs).rows[r] = g.rows[r + 1]
  <2>1. r \in 0..(h.row_count - 1) /\ r # h.cursor.row
    <3>1. g.row_count \in Nat
      BY GridSize
    <3>. QED  BY <1>2, <1>5, <3>1
  <2>. QED  BY <1>2, <1>3, <1>4, <1>5, <2>1 DEF Rolled
<1>. QED  BY <1>1, <1>2, <1>3, <1>4, <1>5, <1>6 DEF Rolled

\* The text of one selection.
SelText(t, s) ==
    LET a == SelStart(s)
        b == SelEnd(s)
        chars(r) ==
            IF r >= DocRows(t) THEN <<>>
            ELSE LET line == DocLine(t, r)
                     cols == {c \in DOMAIN line : /\ (r = a.row => c >= a.col)
                                                  /\ (r = b.row => c <= b.col)}
                 IN  [c \in cols |-> line[c].ch]
    IN  [r \in a.row..b.row |-> chars(r)]

\* selected_text is that of each selection.
LEMMA SelectedTextOf ==
    \A t : SelectedText(t) = {SelText(t, s) : s \in {x \in t.selection : x.anchor /= x.end}}
BY DEF SelectedText, SelText

\* A line of the right width that does not end in half a glyph is kept whole.
LEMMA FitSame ==
    ASSUME NEW n \in Nat, NEW line \in Line(n), line[n - 1].part # "wide"
    PROVE  FitLine(line, n) = line
BY DEF FitLine, Line

\* Then every row of the document is where it was.
LEMMA RolledDoc ==
    ASSUME NEW t, TermOK(t), NEW u, RolledIn(t, u), t.sb_cols = t.grid.cols,
           t.grid.rows[0][t.grid.cols - 1].part # "wide"
    PROVE  /\ DocRows(u) = DocRows(t) + 1
           /\ \A d \in 0..(DocRows(t) - 1) : DocLine(u, d) = DocLine(t, d)
<1>1. /\ Len(t.scrollback) \in Nat /\ t.grid.row_count \in Nat /\ t.grid.row_count >= 1
      /\ DocRows(t) = Len(t.scrollback) + t.grid.row_count
      /\ t.grid.cols \in Nat /\ t.grid.rows \in [0..(t.grid.row_count - 1) -> Line(t.grid.cols)]
  BY ViewShape, GridSize DEF TermOK, ScreensOK
<1>2. t.grid.rows[0] \in Line(t.grid.cols)
  BY <1>1
<1>3. FitLine(t.grid.rows[0], t.sb_cols) = t.grid.rows[0]
  BY <1>1, <1>2, FitSame
<1>4. t.scrollback \in Seq(Line(t.grid.cols))
  BY DEF TermOK, HistoryOK
<1>. DEFINE ring == Append(t.scrollback, t.grid.rows[0])
            n == Len(t.scrollback)
<1>5. u.scrollback = ring /\ Rolled(t.grid, u.grid)
  BY <1>3 DEF RolledIn
<1>6. /\ Len(ring) = n + 1 /\ ring[n + 1] = t.grid.rows[0]
      /\ \A i \in 1..n : ring[i] = t.scrollback[i]
  BY <1>2, <1>4
<1>. HIDE DEF ring
<1>7. Len(u.scrollback) = n + 1 /\ DocRows(u) = DocRows(t) + 1
  <2>1. u.grid.row_count = t.grid.row_count
    BY <1>5 DEF Rolled
  <2>2. Len(u.scrollback) = n + 1
    BY <1>5, <1>6
  <2>3. DocRows(u) = (n + 1) + t.grid.row_count
    BY <2>1, <2>2 DEF DocRows
  <2>. QED  BY <1>1, <2>2, <2>3
<1>8. ASSUME NEW d \in 0..(DocRows(t) - 1) PROVE DocLine(u, d) = DocLine(t, d)
  <2>0. d \in Nat /\ n \in Nat
    BY <1>1
  <2>1. CASE d < n
    <3>1. d + 1 \in 1..n /\ d < n + 1
      BY <2>0, <2>1
    <3>. QED  BY <1>5, <1>6, <1>7, <2>1, <3>1 DEF DocLine
  <2>2. CASE d = n
    <3>1. d < n + 1 /\ ~(d < n) /\ d - n = 0
      BY <2>0, <2>2
    <3>. QED  BY <1>5, <1>6, <1>7, <2>2, <3>1 DEF DocLine
  <2>3. CASE d > n
    <3>1. ~(d < n + 1) /\ ~(d < n) /\ d - (n + 1) \in 0..(t.grid.row_count - 2) /\ (d - (n + 1)) + 1 = d - n
      BY <1>1, <2>0, <2>3
    <3>2. u.grid.rows[d - (n + 1)] = t.grid.rows[d - n]
      BY <1>5, <3>1 DEF Rolled
    <3>. QED  BY <1>7, <3>1, <3>2 DEF DocLine
  <2>. QED  BY <2>0, <2>1, <2>2, <2>3
<1>. QED  BY <1>7, <1>8

\* The same rows under a selection give the same text.
LEMMA SelectionKept ==
    ASSUME NEW t, TermOK(t), NEW u, TermOK(u), u.selection = t.selection,
           DocRows(u) = DocRows(t) + 1, \A d \in 0..(DocRows(t) - 1) : DocLine(u, d) = DocLine(t, d),
           \A s \in t.selection : SelEnd(s).row < DocRows(t)
    PROVE  SelectedText(u) = SelectedText(t)
<1>1. ASSUME NEW s \in t.selection PROVE SelText(u, s) = SelText(t, s)
  <2>1. s \in [anchor : Places, end : Places]
    BY DEF TermOK
  <2>2. SelStart(s).row \in Nat /\ SelEnd(s).row \in Nat
    BY <2>1 DEF SelStart, SelEnd, Places
  <2>3. DocRows(t) \in Nat
    BY ViewShape
  <2>. DEFINE a == SelStart(s)
              b == SelEnd(s)
  <2>4. \A r \in a.row..b.row : /\ ~(r >= DocRows(t)) /\ ~(r >= DocRows(u))
                                /\ DocLine(u, r) = DocLine(t, r)
    BY <2>2, <2>3
  <2>. HIDE DEF a, b
  <2>. QED  BY <2>4 DEF SelText, a, b
<1>. QED  BY <1>1, SelectedTextOf

\* LF, NEL, SU 1 and a wrap roll the screen into the history.
LEMMA ScrollsInRolls ==
    ASSUME NEW t, TermOK(t), FullRegion(t.grid), NEW u,
           Len(u.scrollback) = Len(t.scrollback) + 1,
           \/ u = ApplyLineFeed(t) \/ u = ApplyNextLine(t) \/ u = ApplyScrollUp(t, 1)
           \/ \E ch \in Chars : u = ApplyPrint(t, ch)
    PROVE  RolledIn(t, u)
<1>1. GridOK(t.grid) /\ t.grid.cols \in Nat /\ 1 \in Nat
  BY GridSize DEF TermOK, ScreensOK
<1>2. ASSUME NEW w, TermOK(w), w.scrollback = t.scrollback, w.sb_cols = t.sb_cols,
             w.selection = t.selection, NEW lines \in Seq(Line(t.grid.cols)), Len(lines) \in {0, 1},
             Len(lines) = 1 => lines[1] = t.grid.rows[0] /\ Rolled(t.grid, u.grid),
             u = PushAll(w, lines), TermOK(u)
      PROVE  RolledIn(t, u)
  <2>1. /\ Len(lines) = 1 /\ u.selection = w.selection
        /\ u.scrollback = Append(w.scrollback, FitLine(lines[1], w.sb_cols))
    BY <1>1, <1>2, PushOne
  <2>. QED  BY <1>2, <2>1 DEF RolledIn
<1>3. ASSUME NEW g, Edited(t.grid, g)
      PROVE  /\ TermOK(OnGrid(t, g)) /\ OnGrid(t, g).scrollback = t.scrollback
             /\ OnGrid(t, g).sb_cols = t.sb_cols /\ OnGrid(t, g).selection = t.selection
  <2>1. TermOK(OnGrid(t, g))
    BY <1>3, OnGridFed DEF Fed
  <2>. QED  BY <2>1, OnGridFields DEF TermFields
<1>4. CASE u = ApplyLineFeed(t)
  <2>. DEFINE g == t.grid
              lines == IndexOut(g)
  <2>1. lines \in Seq(Line(g.cols)) /\ Len(lines) \in {0, 1}
        /\ (Len(lines) = 1 => lines[1] = g.rows[0] /\ Rolled(g, Index(g)))
    <3>1. CASE AtRegionBottom(g)
      BY <1>1, <3>1, IndexOutOK, IndexRolls
    <3>2. CASE ~AtRegionBottom(g)
      BY <3>2, NoLines DEF IndexOut
    <3>. QED  BY <3>1, <3>2
  <2>2. TermOK(u) /\ u.grid = Index(g) /\ Edited(g, Index(g))
    BY <1>1, <1>4, LineFeedFed, IndexOK DEF Fed
  <2>3. u = PushAll(OnGrid(t, Index(g)), lines)
    BY <1>4 DEF ApplyLineFeed
  <2>. HIDE DEF lines
  <2>. QED  BY <1>2, <1>3, <2>1, <2>2, <2>3
<1>5. CASE u = ApplyNextLine(t)
  <2>. DEFINE h == CarriageReturn(t.grid)
              lines == IndexOut(h)
  <2>1. /\ GridOK(h) /\ h.cols = t.grid.cols /\ h.row_count = t.grid.row_count
        /\ h.rows = t.grid.rows /\ FullRegion(h)
    <3>1. GridOK(h) /\ h.cols = t.grid.cols /\ h.row_count = t.grid.row_count
      BY <1>1, ReturnOK DEF Edited
    <3>2. t.grid \in GridSet(t.grid.cols, t.grid.row_count)
      BY <1>1, GridSize
    <3>3. h.rows = t.grid.rows /\ h.scroll_top = t.grid.scroll_top /\ h.scroll_bottom = t.grid.scroll_bottom
      <4>. DEFINE pos == Pos(t.grid.cursor.row, Least(0, t.grid.cols - 1))
      <4>1. h = [t.grid EXCEPT !.cursor = pos, !.wrap_pending = FALSE]
        BY DEF CarriageReturn, SetCol, MoveTo
      <4>. HIDE DEF pos, h
      <4>. QED  BY <3>2, <4>1 DEF GridSet
    <3>. QED  BY <3>1, <3>3 DEF FullRegion
  <2>. HIDE DEF h
  <2>2. lines \in Seq(Line(h.cols)) /\ Len(lines) \in {0, 1}
        /\ (Len(lines) = 1 => lines[1] = h.rows[0] /\ Rolled(h, Index(h)))
    <3>1. CASE AtRegionBottom(h)
      BY <1>1, <2>1, <3>1, IndexOutOK, IndexRolls
    <3>2. CASE ~AtRegionBottom(h)
      BY <3>2, NoLines DEF IndexOut
    <3>. QED  BY <3>1, <3>2
  <2>3. TermOK(u) /\ u.grid = Index(h) /\ Edited(t.grid, Index(h))
    <3>1. NextLine(t.grid) = Index(h)
      BY DEF NextLine, h
    <3>. QED  BY <1>1, <1>5, <3>1, LineFeedFed, NextLineOK DEF Fed
  <2>4. u = PushAll(OnGrid(t, Index(h)), lines)
    BY <1>5 DEF ApplyNextLine, NextLine, h
  <2>5. Len(lines) = 1 => lines[1] = t.grid.rows[0] /\ Rolled(t.grid, u.grid)
    BY <2>1, <2>2, <2>3 DEF Rolled
  <2>. HIDE DEF lines
  <2>. QED  BY <1>2, <1>3, <2>1, <2>2, <2>3, <2>4, <2>5
<1>6. CASE u = ApplyScrollUp(t, 1)
  <2>. DEFINE g == t.grid
              lines == ScrollUpOut(g, 1)
  <2>1. lines \in Seq(Line(g.cols)) /\ Len(lines) = 1 /\ lines[1] = g.rows[0]
    BY <1>1, IndexOutOK DEF FullRegion
  <2>2. Rolled(g, ScrollUpRegion(g, 1))
    BY <1>1, ScrollRolls
  <2>3. TermOK(u) /\ u.grid = ScrollUpRegion(g, 1) /\ Edited(g, ScrollUpRegion(g, 1))
    BY <1>1, <1>6, LineFeedFed, ScrollOK DEF Fed
  <2>4. u = PushAll(OnGrid(t, ScrollUpRegion(g, 1)), lines)
    BY <1>6 DEF ApplyScrollUp, FullRegion
  <2>. HIDE DEF lines
  <2>. QED  BY <1>2, <1>3, <2>1, <2>2, <2>3, <2>4
<1>7. ASSUME NEW ch \in Chars, u = ApplyPrint(t, ch) PROVE RolledIn(t, u)
  <2>. DEFINE g == PutChar(t.grid, ch, t.attrs)
              w == Printed(t, g, ch)
              lines == PrintOut(t.grid, ch)
  <2>1. TermOK(u) /\ u.grid = g /\ u = PushAll(w, lines)
    BY <1>7, ApplyPrintFed DEF Fed
  <2>2. t.attrs \in Attrs /\ DOMAIN t = TermFields
    BY DEF TermOK
  <2>3. Edited(t.grid, g)
    BY <1>1, <2>2, PutCharOK
  <2>4. TermOK(w)
    BY <2>3, PrintedFed DEF Fed
  <2>5. w.scrollback = t.scrollback /\ w.sb_cols = t.sb_cols /\ w.selection = t.selection
    BY <2>2, PrintedFields DEF TermFields
  <2>6. lines \in Seq(Line(t.grid.cols))
    BY <1>1, PrintOutOK
  <2>7. Len(lines) \in {0, 1} /\ (Len(lines) = 1 => lines[1] = t.grid.rows[0] /\ Rolled(t.grid, g))
    <3>1. CASE lines = <<>>
      BY <3>1, NoLines
    <3>2. CASE lines # <<>>
      BY <1>1, <2>2, <3>2, PutCharRolls
    <3>. QED  BY <3>1, <3>2
  <2>. HIDE DEF g, w, lines
  <2>. QED  BY <1>2, <2>1, <2>4, <2>5, <2>6, <2>7
<1>. QED  BY <1>4, <1>5, <1>6, <1>7

\* SelectionAnchored: a full-screen scroll into a history of the same width
\* moves no text from under a selection.
THEOREM SelectionStaysAnchored == Spec => SelectionAnchored
<1>1. ASSUME IInv, [Next]_vars
      PROVE  [ScrolledIn /\ (\A s \in term.selection : SelEnd(s).row < DocRows(term))
                => SelectedText(term') = SelectedText(term)]_vars
  <2>. SUFFICES ASSUME ScrolledIn, \A s \in term.selection : SelEnd(s).row < DocRows(term)
                PROVE  SelectedText(term') = SelectedText(term)
    OBVIOUS
  <2>1. TermOK(term)
    BY <1>1 DEF IInv
  <2>2. PICK u : /\ FeedStep(u)
                 /\ \/ u = ApplyLineFeed(term) \/ u = ApplyNextLine(term) \/ u = ApplyScrollUp(term, 1)
                    \/ \E ch \in Chars : u = ApplyPrint(term, ch)
    BY ApplyStep DEF ScrolledIn, ScrollsIn
  <2>3. TermOK(u)
    BY <2>1, <2>2, LineFeedFed, ApplyPrintFed DEF Fed
  <2>4. term' = u \/ term' = MarkDirtyFromGrid(u)
    BY <2>2 DEF FeedStep
  <2>5. /\ TermOK(term') /\ term'.scrollback = u.scrollback /\ term'.selection = u.selection
        /\ term'.grid.rows = u.grid.rows /\ term'.grid.row_count = u.grid.row_count
    BY <2>3, <2>4, MarkFields, MarkSame
  <2>6. RolledIn(term, u)
    BY <2>1, <2>2, <2>5, ScrollsInRolls DEF ScrolledIn, FullRegion
  <2>7. RolledIn(term, term')
    BY <2>5, <2>6 DEF RolledIn, Rolled
  <2>8. /\ DocRows(term') = DocRows(term) + 1
        /\ \A d \in 0..(DocRows(term) - 1) : DocLine(term', d) = DocLine(term, d)
    BY <2>1, <2>7, RolledDoc DEF ScrolledIn
  <2>. QED  BY <2>1, <2>7, <2>8, SelectionKept DEF RolledIn
<1>. QED  BY <1>1, TerminalInvariant, PTL DEF Spec, SelectionAnchored
=============================================================================
