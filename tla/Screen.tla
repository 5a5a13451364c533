------------------------------ MODULE Screen ------------------------------
(***************************************************************************)
(* One screen of the terminal emulator (posh-term: screen.rs, cell.rs): a  *)
(* grid of rows over a bounded scrollback.  Everything here is a pure      *)
(* operator on a screen record; Terminal.tla drives them.  Characters are  *)
(* atoms, styles are those of Sgr.tla, and combining marks are kept as     *)
(* "has some".                                                             *)
(***************************************************************************)
EXTENDS Sgr

\* Cell::blank: the shape an erased cell takes.
Blank(style) == [ch |-> " ", width |-> 1, extra |-> FALSE, style |-> style, link |-> 0]

\* The cell behind the head of a wide character.
Spacer(head) == [ch |-> "nul", width |-> 0, extra |-> FALSE, style |-> head.style, link |-> head.link]

\* Cell::is_blank and Cell::is_dump_skippable.
IsBlank(c)   == c.ch \in {" ", "nul"} /\ ~c.extra
Skippable(c) == IsBlank(c) /\ c.style = DefaultStyle /\ c.link = 0

\* A sequence given element by element (the concatenation has TLC build it).
Each(n, Of(_)) == <<>> \o [i \in 1..n |-> Of(i)]

BlankCells(n, style) == Each(n, LAMBDA i : Blank(style))
BlankRow(cols, style) == [cells |-> BlankCells(cols, style), wrapped |-> FALSE, mark |-> "none"]
BlankRows(n, cols, style) == Each(n, LAMBDA i : BlankRow(cols, style))
AllSkippable(row) == \A i \in DOMAIN row.cells : Skippable(row.cells[i])

\* Position just after the last cell worth keeping (rposition + 1), 0 if none.
KeptLength(cells) == SelectLastInSeq(cells, LAMBDA c : ~Skippable(c))

NewScreen(rows, cols, max) ==
  [rows |-> rows, cols |-> cols, grid |-> BlankRows(rows, cols, DefaultStyle), scrollback |-> <<>>, max |-> max]

\* The ring buffer: only the newest `max` rows are kept.
Newest(rows, max) == SubSeq(rows, Most(1, Len(rows) - max + 1), Len(rows))

\* row_mut and cell_mut clamp their arguments to the grid.
RowAt(s, row) == Least(row, Len(s.grid) - 1) + 1
ColAt(s, col) == Least(col, s.cols - 1) + 1
CellOf(s, row, col) == s.grid[row + 1].cells[col + 1]
SetCell(s, row, col, cell) == [s EXCEPT !.grid[RowAt(s, row)].cells[ColAt(s, col)] = cell]
SetWrapped(s, row, w) == [s EXCEPT !.grid[RowAt(s, row)].wrapped = w]

\* How many rows a scroll of `n` in top..bot really moves.
Scrolled(top, bot, n) == Most(1, Least(n, bot - top + 1))

\* scroll_up: rows leave at the top, into the scrollback when `save` is set.
ScrollUp(s, top, bot, n, save, style) ==
  LET g == s.grid
      b == Least(bot, Len(g) - 1)
      k == Scrolled(top, b, n)
  IN  IF top > b THEN s
      ELSE [s EXCEPT !.grid = SubSeq(g, 1, top) \o SubSeq(g, top + k + 1, b + 1)
                                \o BlankRows(k, s.cols, style) \o SubSeq(g, b + 2, Len(g)),
                     !.scrollback = IF save THEN Newest(@ \o SubSeq(g, top + 1, top + k), s.max) ELSE @]

\* scroll_down: rows leave at the bottom and are lost.
ScrollDown(s, top, bot, n, style) ==
  LET g == s.grid
      b == Least(bot, Len(g) - 1)
      k == Scrolled(top, b, n)
  IN  IF top > b THEN s
      ELSE [s EXCEPT !.grid = SubSeq(g, 1, top) \o BlankRows(k, s.cols, style)
                                \o SubSeq(g, top + 1, b + 1 - k) \o SubSeq(g, b + 2, Len(g))]

ClearGrid(s, style) == [s EXCEPT !.grid = BlankRows(Len(@), s.cols, style)]

-----------------------------------------------------------------------------
(***************************************************************************)
(* Resizing.  A cursor is a pair <<row, column>>, 0-based, as in the code. *)
(***************************************************************************)

\* Row::resize_width: a wide head whose spacer is cut off is blanked.
ResizeWidth(row, cols) ==
  LET n == Len(row.cells)
      cut == SubSeq(row.cells, 1, cols)
  IN  [row EXCEPT !.cells = IF cols < n
                            THEN [cut EXCEPT ![cols] = IF @.width = 2 THEN Blank(DefaultStyle) ELSE @]
                            ELSE @ \o BlankCells(cols - n, DefaultStyle)]

\* The rows with the padding below the cursor's row (cursor_abs) dropped.
DropPadding(rows, cursor_abs) ==
  LET padding(i) == i > cursor_abs + 1 /\ AllSkippable(rows[i]) /\ ~rows[i].wrapped
      last == CHOOSE n \in 0..Len(rows) : /\ \A i \in n+1..Len(rows) : padding(i)
                                          /\ n = 0 \/ ~padding(n)
  IN  SubSeq(rows, 1, last)

\* The logical lines of a sequence of rows, as pairs <<first, last>>.
LogicalLines(rows) ==
  LET n == Len(rows)
      firsts == SelectSeq([i \in 1..n |-> i], LAMBDA i : i = 1 \/ ~rows[i-1].wrapped)
  IN  [k \in DOMAIN firsts |-> <<firsts[k], IF k = Len(firsts) THEN n ELSE firsts[k+1] - 1>>]

\* The cells of rows a..b joined, and the first mark among them.
JoinedCells(rows, a, b) == FlattenSeq([i \in 1..(b - a + 1) |-> rows[a + i - 1].cells])
FirstMark(rows, a, b) ==
  LET marked == SelectSeq(SubSeq(rows, a, b), LAMBDA r : r.mark # "none")
  IN  IF marked = <<>> THEN "none" ELSE marked[1].mark

\* The offset of the cursor in the line a..b, -1 when it is elsewhere.
CursorOffset(rows, a, b, cursor_abs, col) ==
  IF cursor_abs + 1 \in a..b THEN Len(JoinedCells(rows, a, cursor_abs)) + col ELSE -1

\* One cell of a logical line is put on the rows being built.  `done` are the
\* finished rows, `cur` the one being filled, `at` the cursor's new place
\* (<<>> while unknown), `skip` says the cell is the spacer of the head before.
Rewrapped(acc, line, j, off, width) ==
  LET cell == line[j]
      here(c) == <<Len(acc.done), c>>
      w == IF cell.width = 2 THEN 2 ELSE 1
      follows == j < Len(line) /\ line[j+1].width = 0
      pad == Len(acc.cur) + w > width
      full == acc.cur \o BlankCells(width - Len(acc.cur), DefaultStyle)
      done == IF pad THEN Append(acc.done, full) ELSE acc.done
      cur  == IF pad THEN <<>> ELSE acc.cur
      \* a completed row is pushed as soon as more of the line follows
      Pushed(d, c, next, at) ==
        IF Len(c) = width /\ next <= Len(line)
        THEN [done |-> Append(d, c), cur |-> <<>>, at |-> at, skip |-> next = j + 2]
        ELSE [done |-> d, cur |-> c, at |-> at, skip |-> next = j + 2]
  IN  CASE acc.skip -> [acc EXCEPT !.skip = FALSE]
        [] ~acc.skip /\ cell.width = 0 ->
             [acc EXCEPT !.at = IF off = j - 1 /\ @ = <<>> THEN here(Least(Len(acc.cur), width - 1)) ELSE @]
        [] ~acc.skip /\ w > width ->
             Pushed(acc.done, Append(acc.cur, Blank(DefaultStyle)), IF follows THEN j + 2 ELSE j + 1,
                    IF off \in {j - 1, j} THEN here(Len(acc.cur)) ELSE acc.at)
        [] OTHER ->
             Pushed(done, cur \o (IF w = 2 THEN <<cell, Spacer(cell)>> ELSE <<cell>>),
                    IF w = 2 /\ follows THEN j + 2 ELSE j + 1,
                    IF off = j - 1 \/ (w = 2 /\ off = j) THEN <<Len(done), Len(cur) + off - (j - 1)>> ELSE acc.at)

\* One logical line rewrapped to `width`: its rows, and the cursor's row and
\* column among them.
Rewrap(line, off, mark, width) ==
  LET after[j \in 0..Len(line)] ==
        IF j = 0 THEN [done |-> <<>>, cur |-> <<>>, at |-> <<>>, skip |-> FALSE]
        ELSE Rewrapped(after[j-1], line, j, off, width)
      end  == after[Len(line)]
      last == end.cur \o BlankCells(width - Len(end.cur), DefaultStyle)
      all  == Append(end.done, last)
  IN  [rows |-> [i \in DOMAIN all |-> [cells |-> all[i], wrapped |-> i < Len(all),
                                       mark |-> IF i = 1 THEN mark ELSE "none"]],
       at   |-> IF off >= 0 /\ end.at = <<>> THEN <<Len(end.done), Least(KeptLength(last), width - 1)>>
                ELSE end.at]

\* reflow_width: every logical line, scrollback included, is rewrapped and the
\* cursor stays on the cell it was on.
ReflowWidth(s, width, cursor) ==
  LET cursor_abs == Len(s.scrollback) + cursor[1]
      old   == DropPadding(s.scrollback \o s.grid, cursor_abs)
      lines == LogicalLines(old)
      new   == [k \in DOMAIN lines |->
                  LET a == lines[k][1]
                      b == lines[k][2]
                      cells == JoinedCells(old, a, b)
                      off   == CursorOffset(old, a, b, cursor_abs, cursor[2])
                  IN  Rewrap(SubSeq(cells, 1, Most(KeptLength(cells), off + 1)), off, FirstMark(old, a, b), width)]
      mine  == CHOOSE k \in DOMAIN lines : new[k].at # <<>>
      rows  == FlattenSeq([k \in DOMAIN new |-> new[k].rows])
      cur_abs == Len(FlattenSeq([k \in 1..mine-1 |-> new[k].rows])) + new[mine].at[1]
      start == Least(cur_abs, Most(0, Len(rows) - s.rows))
      grid  == SubSeq(rows, start + 1, Least(Len(rows), start + s.rows))
  IN  [screen |-> [s EXCEPT !.cols = width,
                            !.grid = grid \o BlankRows(s.rows - Len(grid), width, DefaultStyle),
                            !.scrollback = Newest(SubSeq(rows, 1, start), s.max)],
       cursor |-> <<cur_abs - start, new[mine].at[2]>>]

\* One row fewer: blank rows under the cursor go first, then the top row moves
\* to the scrollback (primary) or the bottom row is lost (alternate).
\* A slip: the bottom row goes first whatever is on it.
DropRowBlindly(r, reflow) ==
  LET n == Len(r.screen.grid)
  IN  IF r.cursor[1] < n - 1 \/ ~reflow THEN [r EXCEPT !.screen.grid = SubSeq(@, 1, n - 1)]
      ELSE [screen |-> [r.screen EXCEPT !.grid = Tail(@), !.scrollback = Newest(Append(@, r.screen.grid[1]), r.screen.max)],
            cursor |-> <<Most(0, r.cursor[1] - 1), r.cursor[2]>>]
DropRow(r, reflow) ==
  LET s == r.screen
      n == Len(s.grid)
      bottom == AllSkippable(s.grid[n]) /\ r.cursor[1] < n - 1
  IN  IF bottom \/ ~reflow THEN [r EXCEPT !.screen.grid = SubSeq(@, 1, n - 1)]
      ELSE [screen |-> [s EXCEPT !.grid = Tail(@), !.scrollback = Newest(Append(@, s.grid[1]), s.max)],
            cursor |-> <<Most(0, r.cursor[1] - 1), r.cursor[2]>>]

\* More rows: back from the scrollback (primary), then blank ones.
AddRows(r, rows, cols, reflow) ==
  LET s == r.screen
      missing == rows - Len(s.grid)
      back == IF reflow THEN Least(missing, Len(s.scrollback)) ELSE 0
      kept == Len(s.scrollback) - back
  IN  [screen |-> [s EXCEPT !.grid = SubSeq(s.scrollback, kept + 1, Len(s.scrollback)) \o @
                                        \o BlankRows(missing - back, cols, DefaultStyle),
                            !.scrollback = SubSeq(@, 1, kept)],
       cursor |-> <<r.cursor[1] + back, r.cursor[2]>>]

\* Screen::resize.
ResizeScreen(s, rows, cols, cursor, reflow) ==
  LET cut(rs) == Each(Len(rs), LAMBDA i : ResizeWidth(rs[i], cols))
      widened == CASE cols = s.cols -> [screen |-> s, cursor |-> cursor]
                   [] cols # s.cols /\ reflow -> ReflowWidth(s, cols, cursor)
                   [] OTHER -> [screen |-> [s EXCEPT !.cols = cols, !.grid = cut(@), !.scrollback = cut(@)],
                                cursor |-> cursor]
      clamped == [widened EXCEPT !.cursor[2] = Least(@, cols - 1)]
      excess  == Most(0, Len(clamped.screen.grid) - rows)
      shrunk[k \in 0..excess] == IF k = 0 THEN clamped ELSE DropRow(shrunk[k-1], reflow)
      grown   == AddRows(shrunk[excess], rows, cols, reflow)
  IN  [screen |-> [grown.screen EXCEPT !.rows = rows], cursor |-> <<Least(grown.cursor[1], rows - 1), grown.cursor[2]>>]
=============================================================================
