--------------------------- MODULE TermControls ---------------------------
(***************************************************************************)
(* The control functions of the terminal emulator (posh-term: terminal.rs  *)
(* from esc_dispatch on, csi.rs, osc.rs, dcs.rs) and Dispatch, which gives *)
(* the terminal after one parsed action.                                   *)
(***************************************************************************)
EXTENDS Terminal

-----------------------------------------------------------------------------
(***************************************************************************)
(* Saved cursors, resets and screens.                                      *)
(***************************************************************************)
ClampIfOrigin(t) ==
  IF t.modes["origin"] THEN [t EXCEPT !.cursor.row = Most(RegionTop(t), Least(@, RegionBot(t)))] ELSE t

SaveCursor(t) ==
  LET saved == [cursor |-> t.cursor, origin |-> t.modes["origin"]]
  IN  IF t.alt_active THEN [t EXCEPT !.saved_alt = saved] ELSE [t EXCEPT !.saved_primary = saved]

\* A slip: the saved place is taken as it is, whatever the size is now.
RestoreCursorStale(t) ==
  LET saved == IF t.alt_active THEN t.saved_alt ELSE t.saved_primary
  IN  Touch(ClampIfOrigin([t EXCEPT !.cursor = saved.cursor, !.modes["origin"] = saved.origin]))
RestoreCursor(t) ==
  LET saved == IF t.alt_active THEN t.saved_alt ELSE t.saved_primary
      c == [saved.cursor EXCEPT !.row = Least(@, Rows(t) - 1), !.col = Least(@, Cols(t) - 1)]
  IN  Touch(ClampIfOrigin([t EXCEPT !.cursor = c, !.modes["origin"] = saved.origin]))

FullRegion(t) == [t EXCEPT !.top = 0, !.bot = Rows(t) - 1]

\* DECALN fills the screen with E; marks and wrap flags stay.
ScreenAlignment(t) ==
  LET s == Scr(t)
      e == [Blank(DefaultStyle) EXCEPT !.ch = "E"]
      filled == [s EXCEPT !.grid = Each(s.rows, LAMBDA r : [s.grid[r] EXCEPT !.cells = Each(s.cols, LAMBDA c : e)])]
  IN  MovedTo(FullRegion([WithScr(t, filled) EXCEPT !.modes["origin"] = FALSE]), 0, 0)

\* RIS.  The scrollback, the titles, the selections and the hyperlink table
\* survive it.
FullReset(t) ==
  Touch(FullRegion(
    [t EXCEPT !.screen_switch = "reset", !.alt_active = FALSE, !.primary = ClearGrid(@, DefaultStyle),
              !.alt = ClearGrid(@, DefaultStyle), !.cursor = DefaultCursor, !.saved_primary = DefaultSaved,
              !.saved_alt = DefaultSaved, !.modes = DefaultModes, !.tabs = DefaultTabs(Cols(t)),
              !.colors = DefaultColors, !.shape = 0, !.kitty_primary = <<>>, !.kitty_alt = <<>>,
              !.last_printed = "", !.color_stack = <<>>, !.text_size = <<>>,
              !.graphics = NoGraphics]))

\* DECSTR.
SoftReset(t) ==
  LET u == [t EXCEPT !.modes = ("cursor_visible" :> TRUE)
                                 @@ [m \in {"origin", "insert", "autowrap", "cursor_keys", "keypad_app"} |-> FALSE] @@ @,
                     !.cursor = [DefaultCursor EXCEPT !.row = t.cursor.row, !.col = t.cursor.col],
                     !.shape = 0]
      v == IF t.alt_active THEN [u EXCEPT !.saved_alt = DefaultSaved] ELSE [u EXCEPT !.saved_primary = DefaultSaved]
  IN  Touch(WithKitty(FullRegion(v), <<>>))

\* Terminal::resize: the primary screen reflows, the alternate one is cut or
\* padded; only the active screen has the cursor.
Resize(t, rows0, cols0) ==
  LET rows == Most(1, rows0)
      cols == Most(1, cols0)
      here == <<t.cursor.row, t.cursor.col>>
      home == <<0, 0>>
      p == ResizeScreen(t.primary, rows, cols, IF t.alt_active THEN home ELSE here, TRUE)
      a == ResizeScreen(t.alt, rows, cols, IF t.alt_active THEN here ELSE home, FALSE)
      at == IF t.alt_active THEN a.cursor ELSE p.cursor
      fresh == DefaultTabs(cols)
      u == [t EXCEPT !.primary = p.screen, !.alt = a.screen,
                     !.tabs = Each(cols, LAMBDA i : IF i <= Len(t.tabs) THEN t.tabs[i] ELSE fresh[i])]
  IN  IF rows = Rows(t) /\ cols = Cols(t) THEN t
      ELSE FullRegion(MovedTo(u, Least(at[1], rows - 1), Least(at[2], cols - 1)))

\* DECCOLM, honoured only after DECSET 40.
SetDeccolm(t, set) ==
  LET u == FullRegion(Resize([t EXCEPT !.modes["deccolm"] = set], Rows(t), IF set THEN Cols132 ELSE Cols80))
      v == IF t.modes["no_clear_on_deccolm"] THEN u ELSE WithScr(u, ClearGrid(Scr(u), BlankStyle(u)))
  IN  IF t.modes["allow_deccolm"] THEN MovedTo(v, 0, 0) ELSE t

\* Modes 47, 1047 and 1049; reported even when nothing flips.
SetAltScreen(t, mode, on) ==
  LET cleared(x) == [x EXCEPT !.alt = ClearGrid(@, BlankStyle(x))]
      entered == LET u == [(IF mode = 1049 THEN SaveCursor(t) ELSE t) EXCEPT !.alt_active = TRUE]
                 IN  IF mode = 1049 THEN cleared(u) ELSE u
      left == LET u == [(IF mode = 1047 THEN cleared(t) ELSE t) EXCEPT !.alt_active = FALSE]
              IN  IF mode = 1049 THEN RestoreCursor(u) ELSE u
      v == CASE on /\ ~t.alt_active -> entered
             [] ~on /\ t.alt_active -> left
             [] OTHER -> t
  IN  [MovedTo(v, Least(v.cursor.row, Rows(t) - 1), v.cursor.col) EXCEPT !.screen_switch = "alt"]

CharsetFor(f) == CASE f = "0" -> "dec" [] f = "A" -> "uk" [] OTHER -> "ascii"

EscDispatch(t, a) ==
  CASE a[2] = "7" -> SaveCursor(t)
    [] a[2] = "8" -> RestoreCursor(t)
    [] a[2] = "D" -> Index(t)
    [] a[2] = "E" -> NextLine(t)
    [] a[2] = "H" -> SetTab(t, TRUE)
    [] a[2] = "M" -> ReverseIndex(t)
    [] a[2] = "c" -> FullReset(t)
    [] a[2] = "=" -> Touch([t EXCEPT !.modes["keypad_app"] = TRUE])
    [] a[2] = ">" -> Touch([t EXCEPT !.modes["keypad_app"] = FALSE])
    [] a[2] = "Z" -> Respond(t, <<"DA">>)
    [] a[2] = "#8" -> ScreenAlignment(t)
    [] a[2] = "(" -> [t EXCEPT !.cursor.g0 = CharsetFor(a[3])]
    [] a[2] = ")" -> [t EXCEPT !.cursor.g1 = CharsetFor(a[3])]
    [] OTHER -> t

-----------------------------------------------------------------------------
(***************************************************************************)
(* Cursor motion, erasing and editing (csi.rs).                            *)
(***************************************************************************)
CursorUp(t, n) ==
  LET limit == IF t.cursor.row >= RegionTop(t) THEN RegionTop(t) ELSE 0
  IN  MovedTo(t, Most(t.cursor.row - n, limit), t.cursor.col)
CursorDown(t, n) ==
  LET limit == IF t.cursor.row <= RegionBot(t) THEN RegionBot(t) ELSE Rows(t) - 1
  IN  MovedTo(t, Least(t.cursor.row + n, limit), t.cursor.col)
CursorRight(t, n) == MovedTo(t, t.cursor.row, Least(t.cursor.col + n, Cols(t) - 1))
CursorLeft(t, n)  == MovedTo(t, t.cursor.row, Most(t.cursor.col - n, 0))

MoveTo(t, row, col) ==
  MovedTo(t, IF t.modes["origin"] THEN Least(RegionTop(t) + row, RegionBot(t)) ELSE Least(row, Rows(t) - 1),
          Least(col, Cols(t) - 1))

\* VPA and VPR: by row; only the absolute one respects origin mode.
RowAbsolute(t, row) ==
  LET r == IF t.modes["origin"] THEN RegionTop(t) + row ELSE row
  IN  ClampIfOrigin(MovedTo(t, Least(r, Rows(t) - 1), t.cursor.col))
RowRelative(t, n) == MovedTo(t, Least(t.cursor.row + n, Rows(t) - 1), t.cursor.col)

\* DECSTBM: an empty or upside-down region is ignored.
SetRegion(t, top0, bot0) ==
  LET top == ParamOr(top0, 1) - 1
      bot == Least(ParamOr(bot0, Rows(t)) - 1, Rows(t) - 1)
  IN  IF top < bot THEN MoveTo([t EXCEPT !.top = top, !.bot = bot], 0, 0) ELSE t

\* The cells from..to of a row erased, protected ones kept if selective.
EraseCells(t, s, row, from, to, selective) ==
  LET cells == s.grid[row + 1].cells
      gone(c) == c - 1 \in from..to /\ ~(selective /\ cells[c].style.protected)
  IN  [s EXCEPT !.grid[row + 1].cells =
                   Each(Len(cells), LAMBDA c : IF gone(c) THEN Blank(BlankStyle(t)) ELSE cells[c])]
EraseRow(t, s, row, selective) ==
  IF selective THEN SetWrapped(EraseCells(t, s, row, 0, s.cols - 1, TRUE), row, FALSE)
  ELSE [s EXCEPT !.grid[row + 1] = BlankRow(s.cols, BlankStyle(t))]
EraseRows(t, s, from, to, selective) ==
  [s EXCEPT !.grid = Each(Len(s.grid), LAMBDA r :
                       IF r - 1 \in from..to THEN EraseRow(t, s, r - 1, selective).grid[r] ELSE s.grid[r])]

EraseDisplay(t, mode, selective) ==
  LET s == Scr(t)
      row == t.cursor.row
      col == t.cursor.col
      erased == CASE mode = 0 -> EraseRows(t, SetWrapped(EraseCells(t, s, row, col, s.cols - 1, selective), row, FALSE),
                                           row + 1, s.rows - 1, selective)
                  [] mode = 1 -> EraseCells(t, EraseRows(t, s, 0, row - 1, selective), row, 0, col, selective)
                  [] mode = 2 -> EraseRows(t, s, 0, s.rows - 1, selective)
                  [] mode = 3 -> [s EXCEPT !.scrollback = <<>>]
                  [] OTHER -> s
  IN  MovedTo(WithScr(t, erased), row, col)

EraseLine(t, mode, selective) ==
  LET s == Scr(t)
      row == t.cursor.row
      from == IF mode = 0 THEN t.cursor.col ELSE 0
      to == IF mode = 1 THEN t.cursor.col ELSE s.cols - 1
      erased == EraseCells(t, s, row, from, to, selective)
  IN  IF mode \notin 0..2 THEN [t EXCEPT !.cursor.pending = FALSE]
      ELSE MovedTo(WithScr(t, IF mode = 1 THEN erased ELSE SetWrapped(erased, row, FALSE)), row, t.cursor.col)

InsertLines(t, n) ==
  IF t.cursor.row \notin RegionTop(t)..RegionBot(t) THEN t
  ELSE MovedTo(WithScr(t, ScrollDown(Scr(t), t.cursor.row, RegionBot(t), n, BlankStyle(t))), t.cursor.row, 0)
DeleteLines(t, n) ==
  IF t.cursor.row \notin RegionTop(t)..RegionBot(t) THEN t
  ELSE MovedTo(WithScr(t, ScrollUp(Scr(t), t.cursor.row, RegionBot(t), n, FALSE, BlankStyle(t))), t.cursor.row, 0)

\* ICH, DCH and ECH change the cells of one row and then repair it.
EditRow(t, Change(_)) ==
  LET row == t.cursor.row
  IN  MovedTo(RepairWideHalves(WithCells(t, row, Change(CellsOf(t, row))), row), row, t.cursor.col)
InsertChars(t, n) == EditRow(t, LAMBDA cells : InsertCells(cells, t.cursor.col, Least(n, Len(cells)), BlankStyle(t)))
DeleteChars(t, n) ==
  EditRow(t, LAMBDA cells :
    LET gone == Least(n, Len(cells) - t.cursor.col)
    IN  SubSeq(cells, 1, t.cursor.col) \o SubSeq(cells, t.cursor.col + gone + 1, Len(cells)) \o BlankCells(gone, BlankStyle(t)))
EraseChars(t, n) ==
  EditRow(t, LAMBDA cells :
    Each(Len(cells), LAMBDA c :
      IF c - 1 \in t.cursor.col..(t.cursor.col + n - 1) THEN Blank(BlankStyle(t)) ELSE cells[c]))

\* REP, at most a screenful.
RepeatChar(t, n) ==
  IF t.last_printed = "" THEN t
  ELSE PutChars(t, [i \in 1..Least(n, Rows(t) * Cols(t)) |-> t.last_printed])

-----------------------------------------------------------------------------
(***************************************************************************)
(* Modes, reports, colours and keyboard flags (csi.rs, kitty_keys.rs).     *)
(***************************************************************************)
SetAnsiMode(t, n, set) == Touch(IF n \in DOMAIN AnsiModeOf THEN [t EXCEPT !.modes[AnsiModeOf[n]] = set] ELSE t)

SetDecMode(t, n, set) ==
  Touch(CASE n \in DOMAIN FlagOf -> [t EXCEPT !.modes[FlagOf[n]] = set]
          [] n \in DOMAIN MouseModeOf -> [t EXCEPT !.modes["mouse_mode"] = IF set THEN MouseModeOf[n] ELSE "none"]
          [] n \in DOMAIN MouseProtocolOf ->
               [t EXCEPT !.modes["mouse_protocol"] = IF set THEN MouseProtocolOf[n] ELSE "normal"]
          [] n = 3 -> SetDeccolm(t, set)
          [] n = 6 -> MoveTo([t EXCEPT !.modes["origin"] = set], 0, 0)
          [] n = 7 -> [t EXCEPT !.modes["autowrap"] = set, !.cursor.pending = @ /\ set]
          [] n \in AltModes -> SetAltScreen(t, n, set)
          [] n = 1048 -> IF set THEN SaveCursor(t) ELSE RestoreCursor(t)
          [] OTHER -> t)

\* DECRQM: is the mode set?  1048 is always reported reset.
DecModeStatus(t, n) ==
  LET b(v) == IF v THEN 1 ELSE 2
  IN  CASE n \in DOMAIN FlagOf -> b(t.modes[FlagOf[n]])
        [] n \in DOMAIN MouseModeOf -> b(t.modes["mouse_mode"] = MouseModeOf[n])
        [] n \in DOMAIN MouseProtocolOf -> b(t.modes["mouse_protocol"] = MouseProtocolOf[n])
        [] n = 3 -> b(t.modes["deccolm"])
        [] n = 6 -> b(t.modes["origin"])
        [] n = 7 -> b(t.modes["autowrap"])
        [] n \in AltModes -> b(t.alt_active)
        [] n = 1048 -> 2
        [] OTHER -> 0
AnsiModeStatus(t, n) ==
  CASE n \in DOMAIN AnsiModeOf /\ t.modes[AnsiModeOf[n]] -> 1 [] n \in DOMAIN AnsiModeOf -> 2 [] OTHER -> 0

\* DSR 6: relative to the region in origin mode.
ReportCursor(t) ==
  LET top == IF t.modes["origin"] THEN RegionTop(t) ELSE 0
  IN  Respond(t, <<"CPR", Most(t.cursor.row - top, 0) + 1, t.cursor.col + 1>>)

\* XTPUSHCOLORS and XTPOPCOLORS: the oldest entry of a full stack is dropped.
PushColors(t) == [t EXCEPT !.color_stack = Append(Newest(@, ColorStackMax - 1), t.colors)]
PopColors(t) ==
  IF t.color_stack = <<>> THEN t ELSE Touch([t EXCEPT !.colors = Last(t.color_stack), !.color_stack = Front(@)])

\* The kitty keyboard stack of the active screen; flags are sets of bits, of
\* which five exist.
KnownFlags(flags) == flags \cap 0..4
KittyPush(t, flags) == WithKitty(t, Append(Newest(KittyStack(t), KittyStackMax - 1), KnownFlags(flags)))
KittyPop(t, n) == LET k == KittyStack(t) IN WithKitty(t, SubSeq(k, 1, Most(0, Len(k) - n)))
KittyFlags(t) == LET k == KittyStack(t) IN IF k = <<>> THEN {} ELSE Last(k)
KittySet(t, flags, mode) ==
  LET k == KittyStack(t)
      new == CASE mode = 2 -> KittyFlags(t) \cup KnownFlags(flags)
               [] mode = 3 -> KittyFlags(t) \ KnownFlags(flags)
               [] OTHER -> KnownFlags(flags)
  IN  WithKitty(t, IF k = <<>> THEN <<new>> ELSE [k EXCEPT ![Len(k)] = new])

\* SGR on the pen; without parameters nobody is told.
SetPen(t, params) ==
  LET u == [t EXCEPT !.cursor.style = ApplySgr(@, params)]
  IN  IF params = <<>> THEN u ELSE Touch(u)

Iterate(t, n, Op(_)) == LET after[i \in 0..n] == IF i = 0 THEN t ELSE Op(after[i-1]) IN after[n]

CsiDispatch(t, a) ==
  LET f == a[2]
      n == IF Len(a) >= 3 THEN a[3] ELSE 0
      k == IF Len(a) >= 4 THEN a[4] ELSE 0
      n1 == ParamOr(n, 1)
  IN  CASE f = "A" -> CursorUp(t, n1)
        [] f = "B" -> CursorDown(t, n1)
        [] f = "C" -> CursorRight(t, n1)
        [] f = "D" -> CursorLeft(t, n1)
        [] f = "E" -> [CursorDown(t, n1) EXCEPT !.cursor.col = 0]
        [] f = "F" -> [CursorUp(t, n1) EXCEPT !.cursor.col = 0]
        [] f = "G" -> MovedTo(t, t.cursor.row, Least(n1 - 1, Cols(t) - 1))
        [] f = "H" -> MoveTo(t, n1 - 1, ParamOr(k, 1) - 1)
        [] f = "I" -> Iterate(t, n1, HorizontalTab)
        [] f = "J" -> EraseDisplay(t, n, FALSE)
        [] f = "?J" -> EraseDisplay(t, n, TRUE)
        [] f = "K" -> EraseLine(t, n, FALSE)
        [] f = "?K" -> EraseLine(t, n, TRUE)
        [] f = "L" -> InsertLines(t, n1)
        [] f = "M" -> DeleteLines(t, n1)
        [] f = "P" -> DeleteChars(t, n1)
        [] f = "S" -> ScrollUpN(t, n1)
        [] f = "T" -> ScrollDownN(t, n1)
        [] f = "X" -> EraseChars(t, n1)
        [] f = "Z" -> Iterate(t, n1, BackTab)
        [] f = "@" -> InsertChars(t, n1)
        [] f = "a" -> CursorRight(t, n1)
        [] f = "b" -> RepeatChar(t, n1)
        [] f = "c" -> IF n = 0 THEN Respond(t, <<"DA">>) ELSE t
        [] f = ">c" -> Respond(t, <<"DA2">>)
        [] f = "d" -> RowAbsolute(t, n1 - 1)
        [] f = "e" -> RowRelative(t, n1)
        [] f = "g" -> CASE n = 0 -> SetTab(t, FALSE)
                        [] n = 3 -> [t EXCEPT !.tabs = Each(Cols(t), LAMBDA i : FALSE)]
                        [] OTHER -> t
        [] f = "h" -> SetAnsiMode(t, n, TRUE)
        [] f = "l" -> SetAnsiMode(t, n, FALSE)
        [] f = "?h" -> SetDecMode(t, n, TRUE)
        [] f = "?l" -> SetDecMode(t, n, FALSE)
        [] f = "m" -> SetPen(t, a[3])
        [] f = "n" -> CASE n = 5 -> Respond(t, <<"OK">>) [] n = 6 -> ReportCursor(t) [] OTHER -> t
        [] f = "?n" -> IF n = 6 THEN Respond(t, <<"XCPR", t.cursor.row + 1, t.cursor.col + 1>>) ELSE t
        [] f = "?$p" -> Respond(t, <<"RQM", n, DecModeStatus(t, n)>>)
        [] f = "$p" -> Respond(t, <<"RQM", n, AnsiModeStatus(t, n)>>)
        [] f = "!p" -> SoftReset(t)
        [] f = "guard" -> [t EXCEPT !.cursor.style.protected = n = 1]
        [] f = "#P" -> PushColors(t)
        [] f = "#Q" -> PopColors(t)
        [] f = "#R" -> Respond(t, <<"COLORS", Len(t.color_stack)>>)
        [] f = " q" -> IF n <= 6 THEN Touch([t EXCEPT !.shape = n]) ELSE t
        [] f = ">q" -> Respond(t, <<"VERSION">>)
        [] f = "r" -> SetRegion(t, n, k)
        [] f = "s" -> SaveCursor(t)
        [] f = "u" -> RestoreCursor(t)
        [] f = "?u" -> Respond(t, <<"KITTY", KittyFlags(t)>>)
        [] f = ">u" -> KittyPush(t, a[3])
        [] f = "<u" -> KittyPop(t, n1)
        [] f = "=u" -> KittySet(t, a[3], ParamOr(k, 1))
        [] f = "t" -> CASE n \in {14, 18} -> Respond(t, <<"SIZE", Rows(t), Cols(t)>>)
                        [] n = 16 -> Respond(t, <<"CELL">>)
                        [] OTHER -> t
        [] OTHER -> t

-----------------------------------------------------------------------------
(***************************************************************************)
(* Operating system commands, device strings and graphics (osc.rs, dcs.rs).*)
(* A parameter "?" is a query, "bad" one that does not parse.              *)
(***************************************************************************)
SetPalette(t, i, spec) ==
  CASE i \notin Slots \/ spec = "bad" -> t
    [] i \in Slots /\ spec = "?" -> Respond(t, <<"PALETTE", i, t.colors.palette[i]>>)
    [] OTHER -> Touch([t EXCEPT !.colors.palette[i] = spec])
SetDynamic(t, slot, spec) ==
  CASE spec = "bad" -> t
    [] spec = "?" -> Respond(t, <<"DYNAMIC", slot, t.colors[slot]>>)
    [] OTHER -> Touch([t EXCEPT !.colors[slot] = spec])
ResetPalette(t, slots) ==
  LET gone == IF slots = {} THEN Slots ELSE slots
  IN  Touch([t EXCEPT !.colors.palette = [i \in Slots |-> IF i \in gone THEN DefaultPalette[i] ELSE @[i]]])

\* OSC 8: the same (id, uri) pair keeps its slot; an empty uri closes the link.
SetLink(t, id, uri) ==
  LET known == {k \in DOMAIN t.links : t.links[k] = <<id, uri>>}
  IN  CASE uri = "" -> [t EXCEPT !.cursor.link = 0]
        [] uri # "" /\ known # {} -> [t EXCEPT !.cursor.link = CHOOSE k \in known : TRUE]
        [] OTHER -> [t EXCEPT !.links = Append(@, <<id, uri>>), !.cursor.link = Len(t.links) + 1]

\* OSC 52: a set writes every named selection, a query answers from the first.
SetClipboard(t, kinds0, payload) ==
  LET kinds == IF kinds0 = <<>> THEN <<"c">> ELSE kinds0
  IN  CASE payload = "bad" -> t
        [] payload = "?" -> Respond(t, <<"CLIPBOARD", kinds[1], t.selection[kinds[1]]>>)
        [] OTHER -> Touch([t EXCEPT !.selection = [k \in DOMAIN @ |-> IF k \in ToSet(kinds) THEN payload ELSE @[k]],
                                    !.clipboard_seq = @ + 1, !.clipboard_kinds = kinds])

\* OSC 66: the text as ordinary cells, then the declared width.
TextSize(t, w, text) ==
  LET u == PutChars([t EXCEPT !.text_size = <<w, text>>], text)
  IN  CASE text = <<>> -> u
        [] text # <<>> /\ w > 0 -> MovedTo(u, u.cursor.row, Least(t.cursor.col + w, Cols(t) - 1))
        [] OTHER -> Touch(u)

SetMark(t, mark) ==
  IF mark \notin {"A", "B", "C", "D"} THEN t
  ELSE Touch(WithScr(t, [Scr(t) EXCEPT !.grid[t.cursor.row + 1].mark = mark]))

DynamicSlot == (10 :> "fg") @@ (11 :> "bg") @@ (12 :> "cursor")

OscDispatch(t, a) ==
  LET code == a[2]
  IN  CASE code = 0 -> Touch([t EXCEPT !.title = a[3], !.icon = a[3]])
        [] code = 1 -> Touch([t EXCEPT !.icon = a[3]])
        [] code = 2 -> Touch([t EXCEPT !.title = a[3]])
        [] code = 4 -> SetPalette(t, a[3], a[4])
        [] code = 7 -> Touch([t EXCEPT !.pwd = a[3]])
        [] code = 8 -> SetLink(t, a[3], a[4])
        [] code \in {9, 99} -> Touch([t EXCEPT !.notification = a[3]])
        [] code \in 10..12 -> SetDynamic(t, DynamicSlot[code], a[3])
        [] code = 22 -> [t EXCEPT !.pointer = a[3]]
        [] code = 52 -> SetClipboard(t, a[3], a[4])
        [] code = 66 -> TextSize(t, a[3], a[4])
        [] code = 104 -> ResetPalette(t, a[3])
        [] code \in 110..112 -> [t EXCEPT !.colors[DynamicSlot[code - 100]] = "none"]
        [] code = 133 -> SetMark(t, a[3])
        [] OTHER -> t

\* DECRQSS answers pen, cursor shape and region; XTGETTCAP one reply a name.
DcsDispatch(t, a) ==
  CASE a[2] = "$q" -> Respond(t, CASE a[3] = "m" -> <<"RQSS", t.cursor.style>>
                                   [] a[3] = " q" -> <<"RQSS", t.shape>>
                                   [] a[3] = "r" -> <<"RQSS", RegionTop(t) + 1, RegionBot(t) + 1>>
                                   [] OTHER -> <<"RQSS">>)
    [] a[2] = "+q" -> [t EXCEPT !.replies = @ \o [i \in DOMAIN a[3] |-> <<"TCAP", a[3][i], a[3][i] \in {"Co", "RGB"}>>]]
    [] OTHER -> t

\* A graphics command; the cursor steps over the image it showed, if any.
ApcDispatch(t, cmd) ==
  LET d == GraphicsDispatch(t.graphics, cmd, <<t.cursor.row, t.cursor.col>>)
      u == [t EXCEPT !.graphics = d.g, !.replies = IF d.reply = <<>> THEN @ ELSE Append(@, <<"G">> \o d.reply)]
  IN  IF d.advance = <<>> THEN Touch(u)
      ELSE MovedTo(u, Least(t.cursor.row + d.advance[2] - 1, Rows(t) - 1), Least(t.cursor.col + d.advance[1], Cols(t) - 1))

Dispatch(t, a) ==
  CASE a[1] = "print" -> PutChar(t, a[2])
    [] a[1] = "exec" -> Execute(t, a[2])
    [] a[1] = "csi" -> CsiDispatch(t, a)
    [] a[1] = "esc" -> EscDispatch(t, a)
    [] a[1] = "osc" -> OscDispatch(t, a)
    [] a[1] = "dcs" -> DcsDispatch(t, a)
    [] a[1] = "apc" -> ApcDispatch(t, a[2])

\* Terminal::process on the actions a run of bytes parses to.
Process(t, actions) ==
  LET after[i \in 0..Len(actions)] == IF i = 0 THEN t ELSE Dispatch(after[i-1], actions[i])
  IN  after[Len(actions)]
=============================================================================
