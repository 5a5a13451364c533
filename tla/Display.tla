------------------------------ MODULE Display ------------------------------
(***************************************************************************)
(* The client's renderer (remote/display.rs): the actions that turn the    *)
(* user's terminal from showing one snapshot into showing the next, and    *)
(* the banner drawn when the server has gone quiet.  The outer terminal    *)
(* is another terminal of TermControls.tla that the actions are replayed   *)
(* on.                                                                     *)
(***************************************************************************)
EXTENDS TermDump

CONSTANTS EraseRun,        \* 4: a longer run of blanks is erased, not printed
          ShortMove,       \* 5: shorter moves are made of LF or BS
          ServerLateAfter, \* SERVER_LATE_AFTER
          MessageTime      \* how long a transient message stays

-----------------------------------------------------------------------------
(***************************************************************************)
(* Snapshots.                                                              *)
(***************************************************************************)
SyncedFlags == <<"bracketed_paste", "cursor_keys", "focus_reporting", "alternate_scroll">>
SnapFlags == {"reverse_video", "keypad_app", "cursor_visible"} \cup ToSet(SyncedFlags)

\* Snapshot::from_term.  Cells keep the link number of their own terminal,
\* `links` what those numbers mean there.
Snapshot(t) ==
  LET s == Scr(t)
  IN  [rows |-> s.rows, cols |-> s.cols,
       cells |-> Each(s.rows, LAMBDA r : s.grid[r].cells),
       wrapped |-> Each(s.rows, LAMBDA r : s.grid[r].wrapped),
       row |-> Least(t.cursor.row, s.rows - 1), col |-> Least(t.cursor.col, s.cols - 1),
       title |-> t.title, bell |-> t.bell,
       clipboard_seq |-> t.clipboard_seq, clipboard_kinds |-> t.clipboard_kinds,
       clipboard |-> t.selection[t.clipboard_kinds[1]],
       flags |-> [m \in SnapFlags |-> t.modes[m]],
       mouse |-> t.modes["mouse_mode"], encoding |-> t.modes["mouse_protocol"],
       links |-> [k \in DOMAIN t.links |-> t.links[k][2]]]

\* Snapshot::blank.
BlankSnapshot(rows, cols) == Snapshot(NewTerminal(rows, cols, 0))

LinkUri(f, id) == IF id = 0 THEN "" ELSE f.links[id]

-----------------------------------------------------------------------------
(***************************************************************************)
(* FrameState: the stream with the outer cursor (x and y, -1 when unknown), *)
(* pen, open link and cursor visibility as the renderer believes them.     *)
(***************************************************************************)
Say(fr, actions) == [fr EXCEPT !.out = @ \o actions]
Times(n, action) == Each(n, LAMBDA i : action)
At(fr, y, x) == [fr EXCEPT !.y = y, !.x = x]

UpdateStyle(fr, style, force) ==
  [Say(fr, When(force \/ fr.style # style, SgrTo(style))) EXCEPT !.style = style]
UpdateLink(fr, uri, force) ==
  [Say(fr, When(force \/ fr.link # uri, <<"osc", 8, "", uri>>)) EXCEPT !.link = uri]
CanUseErase(fr) == fr.style = DefaultStyle /\ fr.link = ""

\* append_move: CR and a few LFs, a few BSs, or an absolute move.
AppendMove(fr, y, x) ==
  LET known == fr.x # -1 /\ fr.y # -1
      down == known /\ x = 0 /\ y - fr.y \in 0..(ShortMove - 1)
      back == known /\ ~down /\ y = fr.y /\ fr.x - x \in 1..(ShortMove - 1)
      move == CASE down -> When(fr.x # 0, <<"exec", "CR">>) \o Times(y - fr.y, <<"exec", "LF">>)
                [] back -> Times(fr.x - x, <<"exec", "BS">>)
                [] OTHER -> <<Cup(y, x)>>
  IN  At(Say(fr, move), y, x)

\* append_silent_move hides the cursor before it jumps.
SilentMove(fr, y, x) ==
  IF fr.x = x /\ fr.y = y THEN fr
  ELSE AppendMove([Say(fr, When(fr.visible, DecReset(25))) EXCEPT !.visible = FALSE], y, x)

Width1(cell) == Most(cell.width, 1)
Styled(fr, f, style, link) == UpdateLink(UpdateStyle(fr, style, FALSE), LinkUri(f, link), FALSE)

-----------------------------------------------------------------------------
(***************************************************************************)
(* put_row.  `x` is the column being looked at, `clear` the length of the  *)
(* pending run of blanks, `pen` its style and link.                        *)
(***************************************************************************)
FlushBlanks(p, f, y, atend) ==
  LET moved == Styled(SilentMove(p.fr, y, p.x - p.clear), f, p.pen[1], p.pen[2])
      erase == CanUseErase(moved) /\ (IF atend THEN ~f.wrapped[y + 1] ELSE p.clear > EraseRun)
      spaces == [Say(moved, Times(p.clear, <<"print", " ">>)) EXCEPT !.x = p.x]
  IN  CASE p.clear = 0 -> p
        [] p.clear > 0 /\ erase ->
             [p EXCEPT !.fr = Say(moved, IF atend THEN <<<<"csi", "K", 0>>>> ELSE <<<<"csi", "X", p.clear>>>>), !.clear = 0]
        [] OTHER -> [p EXCEPT !.fr = spaces, !.clear = 0, !.wrote = @ \/ atend]

DrawCell(p, f, y, cell) ==
  LET w == Width1(cell)
      edge == p.x + w >= f.cols
      lost == IF f.wrapped[y + 1] /\ edge THEN At(p.fr, -1, -1) ELSE p.fr
      drawn == Say(Styled(SilentMove(lost, y, p.x), f, cell.style, cell.link), Glyph(cell))
  IN  [p EXCEPT !.fr = [drawn EXCEPT !.x = @ + w], !.x = @ + w, !.wrote = @ \/ edge]

PutCell(p, init, f, y, old) ==
  LET cell == f.cells[y + 1][p.x + 1]
      pen == <<cell.style, cell.link>>
      run == IsBlank(cell) /\ (p.clear = 0 \/ pen = p.pen)
      flushed == FlushBlanks(p, f, y, FALSE)
  IN  CASE p.x >= f.cols -> p
        [] p.x < f.cols /\ init /\ p.clear = 0 /\ old[p.x + 1] = cell -> [p EXCEPT !.x = @ + Width1(cell)]
        [] p.x < f.cols /\ ~(init /\ p.clear = 0 /\ old[p.x + 1] = cell) /\ cell.width = 0 -> [p EXCEPT !.x = @ + 1]
        [] OTHER -> CASE run -> [p EXCEPT !.clear = @ + 1, !.x = @ + 1, !.pen = pen]
                      [] ~run /\ IsBlank(cell) -> [flushed EXCEPT !.clear = 1, !.x = @ + 1, !.pen = pen]
                      [] OTHER -> DrawCell(flushed, f, y, cell)

\* The state after a row: the frame, and whether the outer cursor is left at
\* the end of a line that goes on in the next row.
PutRow(init, fr, f, y, old, wrap) ==
  LET first == f.cells[y + 1][1]
      forced == Say(Styled(fr, f, first.style, first.link), Glyph(first))
      w == Width1(first)
      start == [fr |-> IF wrap THEN [forced EXCEPT !.x = @ + w] ELSE fr, x |-> IF wrap THEN w ELSE 0,
                clear |-> 0, pen |-> <<DefaultStyle, 0>>, wrote |-> FALSE]
      after[i \in 0..f.cols] == IF i = 0 THEN start ELSE PutCell(after[i-1], init, f, y, old)
      end == FlushBlanks(after[f.cols], f, y, TRUE)
      wrapping == f.wrapped[y + 1]
  IN  IF end.wrote /\ y + 1 < f.rows
      THEN [fr |-> At(IF wrapping THEN end.fr ELSE Say(end.fr, NewLine), end.fr.y + 1, 0), wrap |-> wrapping]
      ELSE [fr |-> end.fr, wrap |-> FALSE]

-----------------------------------------------------------------------------
(***************************************************************************)
(* new_frame.                                                              *)
(***************************************************************************)

\* How far the old rows moved up, and how many of them: the first old row
\* equal to the new row 0, unless it is row 0 itself.
ScrollShortcut(last, f) ==
  LET same(new, old) == f.cells[new + 1] = last.cells[old + 1] /\ f.wrapped[new + 1] = last.wrapped[old + 1]
      hits == {r \in 0..(f.rows - 1) : same(0, r)}
      lines == CHOOSE r \in hits : \A q \in hits : r <= q
      height == CHOOSE h \in 1..(f.rows - lines) : /\ \A k \in 0..(h - 1) : same(k, lines + k)
                                                   /\ h = f.rows - lines \/ ~same(h, lines + h)
  IN  IF hits = {} \/ 0 \in hits THEN [lines |-> 0, height |-> 0] ELSE [lines |-> lines, height |-> height]

\* One scroll of rows 0..lines+height-1 instead of rewriting them.
EmitScroll(fr, f, sc) ==
  LET plain == UpdateLink(UpdateStyle(fr, DefaultStyle, TRUE), "", TRUE)
      bottom == sc.lines + sc.height - 1
      whole == bottom + 1 = f.rows /\ fr.y + 1 = f.rows
      region == At(Say(plain, <<<<"csi", "r", 1, bottom + 1>>>>), -1, -1)
  IN  CASE sc.height = 0 -> fr
        [] sc.height > 0 /\ whole ->
             [Say(plain, <<<<"exec", "CR">>>> \o Times(sc.lines, <<"exec", "LF">>)) EXCEPT !.x = 0]
        [] OTHER -> At(Say(SilentMove(region, bottom, 0), Times(sc.lines, <<"exec", "LF">>) \o <<<<"csi", "r", 0, 0>>>>), -1, -1)

\* What the outer rows hold after that scroll.
\* A slip: the rows are compared with what was there before the scroll.
ScrolledRowsStale(last, f, sc) == last.cells
ScrolledRows(last, f, sc) ==
  Each(f.rows, LAMBDA y : CASE y > sc.lines + sc.height \/ sc.height = 0 -> last.cells[y]
                            [] sc.height > 0 /\ y <= sc.height -> last.cells[y + sc.lines]
                            [] OTHER -> BlankCells(f.cols, DefaultStyle))

Flag(on, n) == IF on THEN DecSet(n) ELSE DecReset(n)
NumberOf(name, table) == IF \E n \in DOMAIN table : table[n] = name THEN CHOOSE n \in DOMAIN table : table[n] = name ELSE 0

\* Mouse mode, with the wheel grab when the application wants no mouse.
MouseSync(init, last, f, grab) ==
  LET n == NumberOf(f.mouse, MouseModeOf)
  IN  CASE init /\ f.mouse = last.mouse -> <<>>
        [] ~(init /\ f.mouse = last.mouse) /\ f.mouse = "none" ->
             <<DecReset(1003), DecReset(1002)>>
               \o (IF grab THEN <<DecReset(9), DecSet(1000), DecSet(1006)>> ELSE <<DecReset(1000), DecReset(9)>>)
        [] OTHER -> When(init /\ last.mouse # "none", DecReset(NumberOf(last.mouse, MouseModeOf))) \o <<DecSet(n)>>
EncodingSync(init, last, f, grab) ==
  CASE init /\ f.encoding = last.encoding -> <<>>
    [] ~(init /\ f.encoding = last.encoding) /\ f.encoding = "normal" ->
         IF f.mouse = "none" /\ grab THEN <<>> ELSE <<DecReset(1016), DecReset(1006), DecReset(1005)>>
    [] OTHER -> When(init /\ last.encoding # "normal", DecReset(NumberOf(last.encoding, MouseProtocolOf)))
                  \o <<DecSet(NumberOf(f.encoding, MouseProtocolOf))>>

\* Title, bell, clipboard and reverse video come before the drawing.
Announce(init, last, f) ==
  When(~init \/ f.title # last.title, <<"osc", 0, f.title>>)
    \o When(f.bell # last.bell, <<"exec", "BEL">>)
    \o When(f.clipboard_seq # last.clipboard_seq, <<"osc", 52, f.clipboard_kinds, f.clipboard>>)
    \o When(~init \/ f.flags["reverse_video"] # last.flags["reverse_video"], Flag(f.flags["reverse_video"], 5))

\* The other modes come after it.
SyncModes(init, last, f, grab) ==
  LET number == ("bracketed_paste" :> 2004) @@ ("cursor_keys" :> 1) @@ ("focus_reporting" :> 1004) @@ ("alternate_scroll" :> 1007)
      changed(m) == ~init \/ f.flags[m] # last.flags[m]
      sync(m) == When(changed(m), Flag(f.flags[m], number[m]))
  IN  sync("bracketed_paste") \o sync("cursor_keys")
        \o When(changed("keypad_app"), <<"esc", IF f.flags["keypad_app"] THEN "=" ELSE ">">>)
        \o MouseSync(init, last, f, grab) \o sync("focus_reporting") \o sync("alternate_scroll")
        \o EncodingSync(init, last, f, grab)

NewFrame(initialized, last, f, grab) ==
  LET init == initialized /\ f.rows = last.rows /\ f.cols = last.cols
      start == [out |-> Announce(initialized, last, f), x |-> last.col, y |-> last.row, style |-> DefaultStyle,
                link |-> "", visible |-> last.flags["cursor_visible"]]
      cleared == [Say(start, <<<<"csi", "r", 0, 0>>, SgrTo(DefaultStyle), Home, <<"csi", "J", 2>>, DecReset(25)>>)
                    EXCEPT !.x = 0, !.y = 0, !.visible = FALSE]
      sc == IF init THEN ScrollShortcut(last, f) ELSE [lines |-> 0, height |-> 0]
      old == IF init THEN ScrolledRows(last, f, sc) ELSE Each(f.rows, LAMBDA y : BlankCells(f.cols, DefaultStyle))
      ready == IF init THEN EmitScroll(start, f, sc) ELSE cleared
      after[y \in sc.height..f.rows] ==
        IF y = sc.height THEN [fr |-> ready, wrap |-> FALSE]
        ELSE PutRow(init, after[y-1].fr, f, y - 1, old[y], after[y-1].wrap)
      drawn == after[f.rows].fr
      placed == IF ~init \/ drawn.y # f.row \/ drawn.x # f.col THEN AppendMove(drawn, f.row, f.col) ELSE drawn
      shown == f.flags["cursor_visible"]
      lit == Say(placed, When(~init \/ shown # placed.visible, Flag(shown, 25)))
      end == UpdateLink(UpdateStyle(lit, DefaultStyle, ~init), "", ~init)
  IN  end.out \o SyncModes(init, last, f, grab)

\* open_with and close_with: the connection lives on the outer alternate
\* screen (mode 1049 here, whatever terminfo says) and gives back a terminal
\* with the modes the client may have set reset.
OpenDisplay == <<DecSet(1049), <<"csi", "J", 2>>, Home>>
\* A slip: alternate scroll stays as the session had it.
CloseDisplayShort ==
  <<SgrTo(DefaultStyle), DecSet(25), DecReset(1), <<"esc", ">">>, DecReset(1003), DecReset(1002), DecReset(1000),
    DecReset(9), DecReset(1016), DecReset(1006), DecReset(1005), DecReset(2004), DecReset(1004),
    <<"csi", "r", 0, 0>>, DecReset(1049)>>
CloseDisplay ==
  <<SgrTo(DefaultStyle), DecSet(25), DecReset(1), <<"esc", ">">>, DecReset(1003), DecReset(1002), DecReset(1000),
    DecReset(9), DecReset(1016), DecReset(1006), DecReset(1005), DecReset(2004), DecReset(1004), DecReset(1007),
    <<"csi", "r", 0, 0>>, DecReset(1049)>>

-----------------------------------------------------------------------------
(***************************************************************************)
(* NotificationEngine: the status line.  An expiry of -1 is permanent.     *)
(***************************************************************************)
NewNotification(now) == [heard |-> now, message |-> "", expires |-> 0]
ServerHeard(n, now) == [n EXCEPT !.heard = now]
ServerLate(n, now) == Most(0, now - n.heard) > ServerLateAfter
SetMessage(n, message, permanent, now) ==
  [n EXCEPT !.message = message, !.expires = IF permanent THEN -1 ELSE now + MessageTime]
Adjust(n, now) == IF n.expires # -1 /\ now >= n.expires THEN [n EXCEPT !.message = ""] ELSE n
BannerShown(n, now) == n.message # "" \/ ServerLate(n, now)

\* apply: the bar takes the top row, and hides the cursor if it is there.
ApplyBanner(n, f, now) ==
  LET bar == [Blank(DefaultStyle) EXCEPT !.style.attrs = {"inverse", "bold"}]
      text == [bar EXCEPT !.ch = IF n.message = "" THEN "late" ELSE n.message]
  IN  IF ~BannerShown(n, now) THEN f
      ELSE [f EXCEPT !.cells[1] = Each(f.cols, LAMBDA c : IF c = 1 THEN text ELSE bar), !.wrapped[1] = FALSE,
                     !.flags["cursor_visible"] = f.flags["cursor_visible"] /\ f.row # 0]
=============================================================================
