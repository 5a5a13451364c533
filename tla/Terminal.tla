----------------------------- MODULE Terminal -----------------------------
(***************************************************************************)
(* The terminal emulator behind every session (posh-term: terminal.rs,     *)
(* csi.rs, osc.rs, dcs.rs, modes.rs): what one parsed action does to the   *)
(* terminal's state.  VtParser.tla models how bytes become actions; here   *)
(* an action is a tuple whose first element is its class (print, exec,     *)
(* esc, csi, osc, dcs, apc), whose second is its final byte with prefixes, *)
(* and whose others are its parameters, 0 standing for an absent number.   *)
(*                                                                         *)
(* `touched` says that the generation counter advanced since the action    *)
(* began, which is what the remote server and client look at to find out   *)
(* that there is something new; `replies` is what was sent back.           *)
(***************************************************************************)
EXTENDS Graphics, FiniteSets

CONSTANTS WideChars,       \* characters of width 2
          CombiningChars,  \* characters of width 0
          Slots,           \* palette indices
          TabWidth,        \* 8 in default_tabs
          Cols132, Cols80, \* the two widths of DECCOLM
          ColorStackMax,   \* 10 in push_colors
          KittyStackMax    \* MAX_STACK

-----------------------------------------------------------------------------
\* wcwidth, on characters as atoms.
CharWidth(c) == CASE c \in WideChars -> 2 [] c \in CombiningChars -> 0 [] OTHER -> 1

\* Modes::default, one field per mode; the mouse has a mode and a protocol.
DefaultModes ==
  [m \in {"cursor_keys", "origin", "bracketed_paste", "focus_reporting", "alternate_scroll", "synchronized",
          "insert", "lnm", "keypad_app", "reverse_video", "cursor_blink", "deccolm", "allow_deccolm",
          "no_clear_on_deccolm"} |-> FALSE]
    @@ [m \in {"autowrap", "cursor_visible", "autorepeat"} |-> TRUE]
    @@ ("mouse_mode" :> "none") @@ ("mouse_protocol" :> "normal")

\* The DEC private modes that only set a flag, and the mouse ones.
FlagOf == (1 :> "cursor_keys") @@ (5 :> "reverse_video") @@ (8 :> "autorepeat") @@ (12 :> "cursor_blink")
            @@ (25 :> "cursor_visible") @@ (40 :> "allow_deccolm") @@ (66 :> "keypad_app")
            @@ (95 :> "no_clear_on_deccolm") @@ (1004 :> "focus_reporting") @@ (1007 :> "alternate_scroll")
            @@ (2004 :> "bracketed_paste") @@ (2026 :> "synchronized")
MouseModeOf == (9 :> "x10") @@ (1000 :> "press") @@ (1002 :> "button") @@ (1003 :> "any")
MouseProtocolOf == (1005 :> "utf8") @@ (1006 :> "sgr") @@ (1016 :> "pixel")
AnsiModeOf == (4 :> "insert") @@ (20 :> "lnm")
AltModes == {47, 1047, 1049}

DefaultCursor == [row |-> 0, col |-> 0, pending |-> FALSE, style |-> DefaultStyle, link |-> 0,
                  g0 |-> "ascii", g1 |-> "ascii", shift |-> 0]
DefaultSaved  == [cursor |-> DefaultCursor, origin |-> FALSE]
DefaultTabs(cols) == Each(cols, LAMBDA i : (i - 1) % TabWidth = 0)
DefaultPalette == [i \in Slots |-> "xterm"]
DefaultColors  == [palette |-> DefaultPalette, fg |-> "none", bg |-> "none", cursor |-> "none"]

\* with_scrollback: `max` rows of the primary screen are remembered.
NewTerminal(rows, cols, max) ==
  [primary |-> NewScreen(rows, cols, max), alt |-> NewScreen(rows, cols, 0), alt_active |-> FALSE,
   cursor |-> DefaultCursor, saved_primary |-> DefaultSaved, saved_alt |-> DefaultSaved,
   modes |-> DefaultModes, top |-> 0, bot |-> rows - 1, tabs |-> DefaultTabs(cols),
   title |-> "", icon |-> "", pwd |-> "", notification |-> "", pointer |-> "", bell |-> 0,
   colors |-> DefaultColors, color_stack |-> <<>>,
   selection |-> [k \in {"c", "p", "s"} |-> ""], clipboard_seq |-> 0, clipboard_kinds |-> <<"c">>,
   text_size |-> <<>>, links |-> <<>>, graphics |-> NoGraphics, shape |-> 0, kitty_primary |-> <<>>, kitty_alt |-> <<>>,
   last_printed |-> "", screen_switch |-> "none", touched |-> FALSE, replies |-> <<>>]

Rows(t) == t.primary.rows
Cols(t) == t.primary.cols
Scr(t)  == IF t.alt_active THEN t.alt ELSE t.primary
WithScr(t, s) == IF t.alt_active THEN [t EXCEPT !.alt = s] ELSE [t EXCEPT !.primary = s]
Touch(t) == [t EXCEPT !.touched = TRUE]
Respond(t, reply) == [t EXCEPT !.replies = Append(@, reply)]
BlankStyle(t) == [DefaultStyle EXCEPT !.bg = t.cursor.style.bg]
RegionTop(t) == Least(t.top, Rows(t) - 1)
RegionBot(t) == Least(t.bot, Rows(t) - 1)
ParamOr(n, default) == IF n = 0 THEN default ELSE n
KittyStack(t) == IF t.alt_active THEN t.kitty_alt ELSE t.kitty_primary
WithKitty(t, stack) == IF t.alt_active THEN [t EXCEPT !.kitty_alt = stack] ELSE [t EXCEPT !.kitty_primary = stack]

\* Most motions end this way: a new place, no pending wrap, something changed.
MovedTo(t, row, col) ==
  Touch([t EXCEPT !.cursor.row = row, !.cursor.col = col, !.cursor.pending = FALSE])

-----------------------------------------------------------------------------
(***************************************************************************)
(* Scrolling, controls and printing (terminal.rs).                         *)
(***************************************************************************)
ScrollUpN(t, n) ==
  LET top == RegionTop(t)
      bot == RegionBot(t)
      save == ~t.alt_active /\ top = 0 /\ bot = Rows(t) - 1
  IN  Touch(WithScr(t, ScrollUp(Scr(t), top, bot, n, save, BlankStyle(t))))

ScrollDownN(t, n) == Touch(WithScr(t, ScrollDown(Scr(t), RegionTop(t), RegionBot(t), n, BlankStyle(t))))

Index(t) ==
  LET u == MovedTo(t, t.cursor.row, t.cursor.col)
  IN  CASE t.cursor.row = RegionBot(t) -> ScrollUpN(u, 1)
        [] t.cursor.row # RegionBot(t) /\ t.cursor.row + 1 < Rows(t) -> [u EXCEPT !.cursor.row = @ + 1]
        [] OTHER -> u

ReverseIndex(t) ==
  LET u == MovedTo(t, t.cursor.row, t.cursor.col)
  IN  CASE t.cursor.row = RegionTop(t) -> ScrollDownN(u, 1)
        [] t.cursor.row # RegionTop(t) /\ t.cursor.row > 0 -> [u EXCEPT !.cursor.row = @ - 1]
        [] OTHER -> u

LineFeed(t) == LET u == Index(t) IN IF t.modes["lnm"] THEN [u EXCEPT !.cursor.col = 0] ELSE u
NextLine(t) == Index([t EXCEPT !.cursor.col = 0])

\* The next and the previous tab stop, or the edge.
NextStop(t, col) ==
  CHOOSE c \in Least(col + 1, Cols(t) - 1)..(Cols(t) - 1) :
    /\ t.tabs[c + 1] \/ c = Cols(t) - 1
    /\ \A d \in (col + 1)..(c - 1) : ~t.tabs[d + 1]
PreviousStop(t, col) ==
  CHOOSE c \in 0..Most(col - 1, 0) : (t.tabs[c + 1] \/ c = 0) /\ \A d \in (c + 1)..(col - 1) : ~t.tabs[d + 1]
HorizontalTab(t) == MovedTo(t, t.cursor.row, NextStop(t, t.cursor.col))
BackTab(t) == MovedTo(t, t.cursor.row, PreviousStop(t, t.cursor.col))
SetTab(t, on) == [t EXCEPT !.tabs[t.cursor.col + 1] = on]

\* The cells of one row of the active screen, read and replaced.
CellsOf(t, row) == Scr(t).grid[RowAt(Scr(t), row)].cells
WithCells(t, row, cells) == WithScr(t, [Scr(t) EXCEPT !.grid[RowAt(Scr(t), row)].cells = cells])

\* A head without its spacer, or a spacer without its head.
Orphan(cells, c) == \/ cells[c].width = 2 /\ (c = Len(cells) \/ cells[c+1].width # 0)
                    \/ cells[c].width = 0 /\ (c = 1 \/ cells[c-1].width # 2)

\* repair_wide_halves: orphans are blanked.
RepairWideHalves(t, row) ==
  LET cells == CellsOf(t, row)
  IN  WithCells(t, row, Each(Len(cells), LAMBDA c : IF Orphan(cells, c) THEN Blank(BlankStyle(t)) ELSE cells[c]))

\* clean_wide: the other halves of wide characters under a write of width w.
CleanWide(s, row, col, w, style) ==
  LET s1 == IF CellOf(s, row, col).width = 0 /\ col > 0 THEN SetCell(s, row, col - 1, Blank(style)) ELSE s
      behind(x, c) == IF c + 1 < x.cols /\ CellOf(x, row, c).width = 2 THEN SetCell(x, row, c + 1, Blank(style)) ELSE x
      s2 == behind(s1, col)
  IN  IF w = 2 /\ col + 1 < s.cols THEN behind(s2, col + 1) ELSE s2

\* Shifts the cells of a row right from `col`, n blanks coming in.
InsertCells(cells, col, n, style) ==
  SubSeq(SubSeq(cells, 1, col) \o BlankCells(n, style) \o SubSeq(cells, col + 1, Len(cells)), 1, Len(cells))

\* Where the cursor must be before a character of width w is written: a
\* pending wrap is carried out, and a wide character that does not fit goes to
\* the next row.
WrapPending(t) ==
  CASE t.cursor.pending /\ t.modes["autowrap"] ->
         Index([WithScr(t, SetWrapped(Scr(t), t.cursor.row, TRUE)) EXCEPT !.cursor.col = 0, !.cursor.pending = FALSE])
    [] t.cursor.pending /\ ~t.modes["autowrap"] -> [t EXCEPT !.cursor.pending = FALSE]
    [] OTHER -> t

MakeRoom(t, w) ==
  LET s == Scr(t)
      fits == w = 1 \/ t.cursor.col + 1 < Cols(t)
      blanked == SetWrapped(SetCell(s, t.cursor.row, t.cursor.col, Blank(BlankStyle(t))), t.cursor.row, TRUE)
  IN  CASE fits -> t
        [] ~fits /\ t.modes["autowrap"] -> Index([WithScr(t, blanked) EXCEPT !.cursor.col = 0])
        [] OTHER -> [t EXCEPT !.cursor.col = Most(0, Cols(t) - 2)]

\* The character itself, with the row shifted first in insert mode.
WriteChar(t, c, w) ==
  LET row == t.cursor.row
      col == t.cursor.col
      style == BlankStyle(t)
      shifted == IF t.modes["insert"]
                 THEN RepairWideHalves(WithCells(t, row, InsertCells(CellsOf(t, row), col, w, style)), row)
                 ELSE t
      cell == [ch |-> c, width |-> w, extra |-> FALSE, style |-> t.cursor.style, link |-> t.cursor.link]
      head == SetCell(CleanWide(Scr(shifted), row, col, w, style), row, col, cell)
      drawn == IF w = 2 THEN SetCell(head, row, col + 1, Spacer(cell)) ELSE head
      edge == col + w >= Cols(t)
  IN  [WithScr(t, drawn) EXCEPT !.cursor.col = IF edge THEN Cols(t) - 1 ELSE col + w,
                                !.cursor.pending = edge /\ t.modes["autowrap"]]

\* map_charset; the line-drawing set turns letters into glyphs of their own.
MapCharset(t, c) ==
  LET set == IF t.cursor.shift = 1 THEN t.cursor.g1 ELSE t.cursor.g0
      line == ("q" :> "line") @@ ("_" :> " ")
  IN  CASE set = "uk" /\ c = "#" -> "pound"
        [] set = "dec" /\ c \in DOMAIN line -> line[c]
        [] OTHER -> c

\* combine: a mark joins the character before the cursor.
\* A slip: the cell changes and the generation does not.
CombineUnseen(t) ==
  LET s == Scr(t)
      col == IF t.cursor.pending THEN t.cursor.col ELSE t.cursor.col - 1
      head == IF col > 0 /\ CellOf(s, t.cursor.row, col).width = 0 THEN col - 1 ELSE col
  IN  IF col < 0 THEN t ELSE WithScr(t, [s EXCEPT !.grid[t.cursor.row + 1].cells[head + 1].extra = TRUE])
Combine(t) ==
  LET s == Scr(t)
      col == IF t.cursor.pending THEN t.cursor.col ELSE t.cursor.col - 1
      head == IF col > 0 /\ CellOf(s, t.cursor.row, col).width = 0 THEN col - 1 ELSE col
  IN  IF col < 0 THEN t
      ELSE Touch(WithScr(t, [s EXCEPT !.grid[t.cursor.row + 1].cells[head + 1].extra = TRUE]))

\* print.  In one column, without autowrap, a wide character is dropped.
PutChar(t, ch) ==
  LET c == MapCharset(t, ch)
      w == CharWidth(c)
      ready == MakeRoom(WrapPending(Touch([t EXCEPT !.last_printed = c])), w)
  IN  CASE w = 0 -> Combine(t)
        [] w = 2 /\ Cols(t) = 1 /\ ~t.modes["autowrap"] -> ready
        [] OTHER -> WriteChar(ready, c, w)

PutChars(t, text) ==
  LET after[i \in 0..Len(text)] == IF i = 0 THEN t ELSE PutChar(after[i-1], text[i])
  IN  after[Len(text)]

Execute(t, b) ==
  CASE b = "BEL" -> Touch([t EXCEPT !.bell = @ + 1])
    [] b = "BS"  -> MovedTo(t, t.cursor.row, Most(0, t.cursor.col - 1))
    [] b = "HT"  -> HorizontalTab(t)
    [] b = "LF"  -> LineFeed(t)
    [] b = "CR"  -> MovedTo(t, t.cursor.row, 0)
    [] b = "SO"  -> [t EXCEPT !.cursor.shift = 1]
    [] b = "SI"  -> [t EXCEPT !.cursor.shift = 0]
    [] b = "IND" -> Index(t)
    [] b = "NEL" -> NextLine(t)
    [] b = "HTS" -> SetTab(t, TRUE)
    [] b = "RI"  -> ReverseIndex(t)
    [] OTHER -> t
=============================================================================
