----------------------------- MODULE TermDump -----------------------------
(***************************************************************************)
(* Serialising a terminal (posh-term: dump.rs).  A dump is the sequence of *)
(* actions its bytes parse to, so that replaying it is Process of          *)
(* TermControls.tla.  The remote server sends DumpVt as a frame and the    *)
(* session daemon sends DumpFlat on attach and DumpScreenSwitch when the   *)
(* application changes screens.                                            *)
(***************************************************************************)
EXTENDS TermControls

CONSTANT ChunkSize   \* bytes that CHUNK characters of base64 carry

When(cond, action) == IF cond THEN <<action>> ELSE <<>>

\* The stream so far with the pen the target has (EmitState).
NoOutput == [out |-> <<>>, style |-> DefaultStyle, link |-> 0]
Put(e, actions) == [e EXCEPT !.out = @ \o actions]

Guard(protected) == <<"csi", "guard", IF protected THEN 1 ELSE 0>>
SgrTo(style) == <<"csi", "m", SgrParams(style)>>

\* DECSCA first, so that what remains of the difference is SGR.
PenTo(e, style) ==
  LET e1 == Put(e, When(style.protected # e.style.protected, Guard(style.protected)))
      e2 == Put(e1, When(style # [e.style EXCEPT !.protected = style.protected], SgrTo(style)))
  IN  [e2 EXCEPT !.style = style]

\* emit_hyperlink, when the target's link differs.
LinkTo(t, e, link) ==
  LET open == IF link = 0 THEN <<"osc", 8, "", "">> ELSE <<"osc", 8, t.links[link][1], t.links[link][2]>>
  IN  [Put(e, When(link # e.link, open)) EXCEPT !.link = link]

Glyph(cell) ==
  <<<<"print", IF cell.ch = "nul" THEN " " ELSE cell.ch>>>>
    \o (IF cell.extra THEN <<<<"print", CHOOSE c \in CombiningChars : TRUE>>>> ELSE <<>>)

EmitCell(t, e, cell) ==
  IF cell.width = 0 THEN e ELSE Put(LinkTo(t, PenTo(e, cell.style), cell.link), Glyph(cell))

\* emit_row: all of a wrapped row, the rest without trailing blanks.
EmitRow(t, e, row) ==
  LET end == IF row.wrapped THEN Len(row.cells) ELSE KeptLength(row.cells)
      marked == Put(e, When(row.mark # "none", <<"osc", 133, row.mark>>))
      after[i \in 0..end] == IF i = 0 THEN marked ELSE EmitCell(t, after[i-1], row.cells[i])
  IN  after[end]

NewLine == <<<<"exec", "CR">>, <<"exec", "LF">>>>

ResetPen(t, e) == LinkTo(t, PenTo(e, DefaultStyle), 0)

\* Rows in flow order: a wrapped row is followed by no newline, so that the
\* target wraps by itself.  `clean` drops the pen before each newline.
EmitRows(t, e, rows, last, clean) ==
  LET line(x, i) == LET y == EmitRow(t, x, rows[i])
                    IN  IF rows[i].wrapped \/ (i = Len(rows) /\ last) THEN y
                        ELSE Put(IF clean THEN ResetPen(t, y) ELSE y, NewLine)
      after[i \in 0..Len(rows)] == IF i = 0 THEN e ELSE line(after[i-1], i)
  IN  after[Len(rows)]
DrawGrid(t, e, s) == EmitRows(t, e, s.grid, TRUE, FALSE)

Cup(row, col) == <<"csi", "H", row + 1, col + 1>>
Home == <<"csi", "H">>
DecSet(n) == <<"csi", "?h", n>>
DecReset(n) == <<"csi", "?l", n>>
Pushes(stack) == [i \in DOMAIN stack |-> <<"csi", ">u", stack[i]>>]

DumpColors(t) ==
  LET changed == SetToSortSeq({i \in Slots : t.colors.palette[i] # DefaultPalette[i]}, <)
      slot == <<"fg", "bg", "cursor">>
  IN  [k \in DOMAIN changed |-> <<"osc", 4, changed[k], t.colors.palette[changed[k]]>>]
        \o FlattenSeq([k \in 1..3 |-> When(t.colors[slot[k]] # "none", <<"osc", 9 + k, t.colors[slot[k]]>>)])

DumpTitles(t) ==
  (IF t.title # "" /\ t.title = t.icon THEN <<<<"osc", 0, t.title>>>>
   ELSE When(t.title # "", <<"osc", 2, t.title>>) \o When(t.icon # "", <<"osc", 1, t.icon>>))
    \o When(t.pwd # "", <<"osc", 7, t.pwd>>)

DumpCharsets(t) ==
  LET byte == ("dec" :> "0") @@ ("uk" :> "A")
  IN  When(t.cursor.g0 # "ascii", <<"esc", "(", IF t.cursor.g0 = "ascii" THEN "B" ELSE byte[t.cursor.g0]>>)
        \o When(t.cursor.g1 # "ascii", <<"esc", ")", IF t.cursor.g1 = "ascii" THEN "B" ELSE byte[t.cursor.g1]>>)
        \o When(t.cursor.shift = 1, <<"exec", "SO">>)

\* A slip: origin mode is set before the region exists.
DumpRegionLate(t) ==
  When(t.modes["origin"], DecSet(6))
    \o When(RegionTop(t) # 0, <<"csi", "r", RegionTop(t) + 1, RegionBot(t) + 1>>)
DumpRegion(t) ==
  When(RegionTop(t) # 0 \/ RegionBot(t) # Rows(t) - 1, <<"csi", "r", RegionTop(t) + 1, RegionBot(t) + 1>>)
    \o When(t.modes["origin"], DecSet(6))

DumpTabs(t) ==
  IF t.tabs = DefaultTabs(Cols(t)) THEN <<>>
  ELSE <<<<"csi", "g", 3>>>>
         \o FlattenSeq([i \in DOMAIN t.tabs |-> IF t.tabs[i] THEN <<Cup(0, i - 1), <<"esc", "H">>>> ELSE <<>>])

DumpModes(t) ==
  LET m == t.modes
      wide == m["deccolm"] /\ Cols(t) = Cols132
      set(flag, n) == When(m[flag], DecSet(n))
      mouse == SelectSeq(<<9, 1000, 1002, 1003>>, LAMBDA n : MouseModeOf[n] = m["mouse_mode"])
      proto == SelectSeq(<<1005, 1006, 1016>>, LAMBDA n : MouseProtocolOf[n] = m["mouse_protocol"])
  IN  When(m["allow_deccolm"] \/ m["deccolm"], DecSet(40))
        \o (IF wide THEN <<DecSet(95), DecSet(3)>> \o When(~m["no_clear_on_deccolm"], DecReset(95))
            ELSE When(m["no_clear_on_deccolm"], DecSet(95)))
        \o When(m["deccolm"] /\ ~m["allow_deccolm"], DecReset(40))
        \o DumpRegion(t) \o DumpTabs(t) \o DumpCharsets(t)
        \o set("cursor_keys", 1) \o When(~m["autowrap"], DecReset(7)) \o set("reverse_video", 5)
        \o When(~m["autorepeat"], DecReset(8)) \o set("cursor_blink", 12) \o set("bracketed_paste", 2004)
        \o set("focus_reporting", 1004) \o set("alternate_scroll", 1007) \o set("synchronized", 2026)
        \o When(m["insert"], <<"csi", "h", 4>>) \o When(m["lnm"], <<"csi", "h", 20>>)
        \o When(m["keypad_app"], <<"esc", "=">>)
        \o [k \in DOMAIN mouse |-> DecSet(mouse[k])] \o [k \in DOMAIN proto |-> DecSet(proto[k])]
        \o Pushes(KittyStack(t))

\* dump_cursor: pen, link, place; a pending wrap is re-armed by printing the
\* last cell again in its own style.
DumpCursor(t, e) ==
  LET c == t.cursor
      s == Scr(t)
      pen == LinkTo(t, PenTo(Put(e, When(t.shape # 0, <<"csi", " q", t.shape>>)), c.style), c.link)
      top == IF t.modes["origin"] THEN RegionTop(t) ELSE 0
      head == IF c.pending /\ c.col > 0 /\ CellOf(s, c.row, c.col).width = 0 THEN c.col - 1 ELSE c.col
      cell == CellOf(s, c.row, head)
      toggle == cell.style.protected # c.style.protected
      look == [cell.style EXCEPT !.protected = c.style.protected] # c.style
      again == When(toggle, Guard(cell.style.protected)) \o When(look, SgrTo(cell.style)) \o Glyph(cell)
                 \o When(look, SgrTo(c.style)) \o When(toggle, Guard(c.style.protected))
  IN  pen.out \o <<Cup(Most(0, c.row - top), head)>>
        \o (IF c.pending /\ cell.width \in {1, 2} THEN again ELSE <<>>)
        \o When(~t.modes["cursor_visible"], DecReset(25))

\* emit_apc_chunks: the keys go with the first chunk, `more` with all but the last.
ApcChunks(cmd, size) ==
  LET n == Most(1, CeilDiv(size, ChunkSize))
      part(k) == IF k = n THEN size - (n - 1) * ChunkSize ELSE ChunkSize
  IN  [k \in 1..n |-> <<"apc", [(IF k = 1 THEN cmd ELSE DefaultCommand) EXCEPT !.size = part(k), !.more = k < n]>>]

\* dump_placements: a placement whose parent is gone stands on its own; a
\* virtual one stands nowhere.
Silent(action, id) == [DefaultCommand EXCEPT !.action = action, !.quiet = 2, !.id = id]
ParentAlive(g, p) == p.parent # 0 /\ FindPlacement(g, p.parent, p.parent_placement) # 0
DumpPlacement(g, p) ==
  LET cmd == [Silent("p", p.image) EXCEPT !.placement = p.placement, !.w = p.w, !.h = p.h, !.cols = p.cols, !.rows = p.rows,
                                          !.z = p.z, !.unicode = p.unicode]
      linked == [cmd EXCEPT !.parent = p.parent, !.parent_placement = p.parent_placement, !.h_off = p.h_off, !.v_off = p.v_off]
  IN  When(~ParentAlive(g, p) /\ ~p.unicode, Cup(p.row, p.col)) \o <<<<"apc", IF ParentAlive(g, p) THEN linked ELSE cmd>>>>
DumpPlacements(t) ==
  LET g == t.graphics IN FlattenSeq([i \in DOMAIN g.placements |-> DumpPlacement(g, g.placements[i])])

\* dump_graphics: every image, its frames and its animation, then the placements.
FormatKey(rgb) == IF rgb THEN 24 ELSE 32
DumpFrame(id, f) ==
  ApcChunks([Silent("f", id) EXCEPT !.rows = f.number, !.format = FormatKey(f.rgb), !.width = f.width, !.height = f.height,
                                    !.x = f.x, !.y = f.y, !.z = f.gap, !.cols = f.base, !.cell_x = IF f.replace THEN 1 ELSE 0], f.size)
DumpImage(g, id) ==
  LET x == g.images[id]
      fs == FramesOf(g, id)
      anim == g.animations[id]
  IN  ApcChunks([Silent("t", id) EXCEPT !.format = FormatKey(x.rgb), !.width = x.width, !.height = x.height, !.number = x.number],
                x.size)
        \o FlattenSeq([i \in DOMAIN fs |-> DumpFrame(id, fs[i])])
        \o (IF id \notin DOMAIN g.animations THEN <<>>
            ELSE <<<<"apc", [Silent("a", id) EXCEPT !.width = anim.state, !.height = anim.loops, !.cols = anim.current]>>>>)
DumpGraphics(t) ==
  LET ids == SetToSortSeq(DOMAIN t.graphics.images, <)
  IN  FlattenSeq([k \in DOMAIN ids |-> DumpImage(t.graphics, ids[k])]) \o DumpPlacements(t)

\* The colours and titles come first in every dump.
Preamble(t) == DumpColors(t) \o DumpTitles(t)

\* dump_vt: both screens, the scrollback and the modes.
DumpVt(t) ==
  LET seeded == Put(NoOutput, Preamble(t) \o
                  IF ~t.alt_active /\ t.kitty_alt # <<>> THEN <<DecSet(1049)>> \o Pushes(t.kitty_alt) \o <<DecReset(1049)>>
                  ELSE <<>>)
      p == t.primary
      primary == IF p.scrollback # <<>>
                 THEN EmitRows(t, EmitRows(t, seeded, p.scrollback, FALSE, TRUE), p.grid, TRUE, TRUE)
                 ELSE DrawGrid(t, Put(seeded, <<Home>>), p)
      parked == Put(ResetPen(t, primary),
                  <<Cup(t.saved_primary.cursor.row, t.saved_primary.cursor.col)>> \o Pushes(t.kitty_primary) \o <<DecSet(1049)>>)
      drawn == IF t.alt_active THEN DrawGrid(t, parked, t.alt) ELSE primary
  IN  DumpCursor(t, Put(drawn, DumpGraphics(t) \o DumpModes(t)))

\* dump_vt_flat: the active grid only, never switching the target's screen.
DumpFlat(t) ==
  DumpCursor(t, Put(DrawGrid(t, Put(NoOutput, Preamble(t) \o <<Home>>), Scr(t)), DumpGraphics(t) \o DumpModes(t)))

\* A slip: autowrap, turned on for the repaint, stays on.
DumpScreenSwitchRaw(t) ==
  LET ready == <<DecReset(25), <<"csi", "r", 0, 0>>, DecReset(6), <<"esc", "(", "B">>, <<"exec", "SI">>,
                 <<"csi", "l", 4>>, DecSet(7), SgrTo(DefaultStyle), Guard(FALSE), <<"osc", 8, "", "">>,
                 <<"csi", "J", 2>>, Home>>
      drawn == DrawGrid(t, Put(NoOutput, ready), Scr(t))
      again == DumpRegion(t) \o DumpCharsets(t) \o When(t.modes["insert"], <<"csi", "h", 4>>) \o DumpPlacements(t)
  IN  DumpCursor(t, Put(drawn, again)) \o When(t.modes["cursor_visible"], DecSet(25))

\* dump_screen_switch: what replaces a screen switch in the raw broadcast.  The
\* target is made drawable, repainted, and put back to the model's modes.
DumpScreenSwitch(t) ==
  LET ready == <<DecReset(25), <<"csi", "r", 0, 0>>, DecReset(6), <<"esc", "(", "B">>, <<"exec", "SI">>,
                 <<"csi", "l", 4>>, DecSet(7), SgrTo(DefaultStyle), Guard(FALSE), <<"osc", 8, "", "">>,
                 <<"csi", "J", 2>>, Home>>
      drawn == DrawGrid(t, Put(NoOutput, ready), Scr(t))
      again == DumpRegion(t) \o DumpCharsets(t) \o When(t.modes["insert"], <<"csi", "h", 4>>)
                 \o When(~t.modes["autowrap"], DecReset(7)) \o DumpPlacements(t)
  IN  DumpCursor(t, Put(drawn, again)) \o When(t.modes["cursor_visible"], DecSet(25))

\* dump_text: logical lines, without trailing blanks, of scrollback and screen.
RowText(row) == SelectSeq(row.cells, LAMBDA c : c.width # 0)
Trimmed(cells) == SubSeq(cells, 1, SelectLastInSeq(cells, LAMBDA c : ~IsBlank(c)))
DumpText(t) ==
  LET rows == t.primary.scrollback \o Scr(t).grid
      lines == LogicalLines(rows)
      text(a, b) == Trimmed(FlattenSeq([i \in 1..(b - a + 1) |-> RowText(rows[a + i - 1])]))
  IN  [k \in DOMAIN lines |-> LET x == text(lines[k][1], lines[k][2])
                              IN  [i \in DOMAIN x |-> <<IF x[i].ch = "nul" THEN " " ELSE x[i].ch, x[i].extra>>]]

-----------------------------------------------------------------------------
(***************************************************************************)
(* What a replay must agree on: the doc of dump_vt names contents,         *)
(* attributes, cursor, modes, title and scroll region, that of             *)
(* dump_graphics the pictures.                                             *)
(***************************************************************************)
LinkName(t, link) == IF link = 0 THEN <<>> ELSE t.links[link]
Painted(t) == [r \in DOMAIN Scr(t).grid |->
                 [c \in DOMAIN Scr(t).grid[r].cells |->
                    LET x == Scr(t).grid[r].cells[c] IN <<x.ch, x.width, x.extra, x.style, LinkName(t, x.link)>>]]
CursorView(t) == <<t.cursor.row, t.cursor.col, t.cursor.pending, t.cursor.style, LinkName(t, t.cursor.link), t.shape>>
\* Pictures: neither when an image came nor where a virtual placement was made
\* matters, and a placement whose parent is gone is like one that had none.
Pictures(t) ==
  LET g == t.graphics
      place(p) == LET q == IF ParentAlive(g, p) THEN p
                           ELSE [p EXCEPT !.parent = 0, !.parent_placement = 0, !.h_off = 0, !.v_off = 0]
                  IN  IF p.unicode THEN [q EXCEPT !.row = 0, !.col = 0] ELSE q
  IN  <<[id \in DOMAIN g.images |-> [g.images[id] EXCEPT !.seq = 0]], g.frames, g.animations,
        [i \in DOMAIN g.placements |-> place(g.placements[i])]>>
Reproduced(t, u) ==
  /\ Painted(u) = Painted(t)
  /\ CursorView(u) = CursorView(t)
  /\ u.modes = t.modes
  /\ u.title = t.title
  /\ Pictures(u) = Pictures(t)
  /\ <<RegionTop(u), RegionBot(u), u.alt_active>> = <<RegionTop(t), RegionBot(t), t.alt_active>>
=============================================================================
