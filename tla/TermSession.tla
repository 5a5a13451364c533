---------------------------- MODULE TermSession ----------------------------
(***************************************************************************)
(* A session's terminal, and the user's terminal that must look like it.   *)
(*                                                                         *)
(* `term` is the model of the session's screen (the remote server's, or    *)
(* the session daemon's); applications write to it and it is resized.      *)
(* `outer` is the terminal the user sits at.  It is kept alike in one of   *)
(* two ways:                                                               *)
(*   remote    the server dumps its model, the client replays the dump on  *)
(*             a fresh model, takes a snapshot, lays the banner over it    *)
(*             and draws the difference to the last one (client.rs);       *)
(*   attached  the daemon passes the application's output on and replaces  *)
(*             every switch of screens by a repaint (daemon.rs).           *)
(* The way a session works never changes; in the ways called text, control *)
(* and graphics only the model is looked at, nobody being attached.        *)
(***************************************************************************)
EXTENDS Display

\* The parts this module puts together, given as parameters: the emulator
\* (TermControls.tla), the dumps (TermDump.tla) and the renderer (Display.tla).
CONSTANTS
  Emulate(_, _),   \* Terminal::process
  ResizeTo(_, _, _), \* Terminal::resize
  Dump(_), AttachDump(_), SwitchDump(_), \* dump_vt, dump_vt_flat, dump_screen_switch
  Draw(_, _, _, _) \* new_frame

CONSTANTS
  Height, Width,   \* the size everything starts with
  History,         \* rows of scrollback of the session's model
  Sizes,           \* sizes it may be resized to
  Ways,            \* the ways looked at
  Scripts,         \* for every way, the output that came before
  Vocabulary,      \* for every way, what the application writes
  Outputs,         \* for every way, bound: how much it writes
  Latest           \* bound: the last moment of the clock

VARIABLES
  way,             \* one of Ways
  term,            \* the session's terminal model
  left,            \* how much may still be written
  grab,            \* the user asked for the wheel to be grabbed
  outer,           \* the user's terminal
  base,            \* a snapshot of st.server_term
  shown,           \* st.last_drawn
  initialized,     \* st.initialized
  astray,          \* history: a frame's cursor was put one column off
  now, note        \* the clock and st.notify

vars == <<way, term, left, grab, outer, base, shown, initialized, astray, now, note>>

-----------------------------------------------------------------------------
\* What was on the user's terminal before: a prompt in a colour of its own.
Shell == <<<<"csi", "m", <<<<32>>>>>>, <<"print", "$">>, <<"csi", "m", <<>>>>>>
Fresh == NewTerminal(Height, Width, History)
Before == Emulate(NewTerminal(Height, Width, 0), Shell)

\* Whatever was noticed or answered before is gone.
Quiet(t) == [t EXCEPT !.touched = FALSE, !.replies = <<>>, !.screen_switch = "none"]

\* RIS_SUBSTITUTE.
RisSubstitute ==
  <<<<"csi", "!p">>, DecReset(1000), DecReset(1002), DecReset(1003), DecReset(9), DecReset(1005), DecReset(1006),
    DecReset(1016), DecReset(2004), DecReset(1004), DecReset(1007), DecReset(12), DecSet(25), DecReset(1), DecReset(5),
    DecSet(8), DecReset(2026), <<"esc", ">">>, <<"csi", "l", 20>>, <<"csi", "l", 4>>, <<"osc", 104, {}>>,
    <<"osc", 110>>, <<"osc", 111>>, <<"osc", 112>>>>

\* What the daemon broadcasts for one action, `t` being its model after it.
\* SwitchFilter.tla has the bytes.
Broadcast(t, a) ==
  CASE t.screen_switch = "none" -> <<a>>
    [] t.screen_switch = "reset" -> RisSubstitute \o SwitchDump(t)
    [] OTHER -> SwitchDump(t)

Init ==
  /\ way \in Ways
  /\ \E s \in Scripts[way] : term = Quiet(Emulate(Fresh, s))
  /\ left = Outputs[way]
  /\ grab \in (IF way = "remote" THEN BOOLEAN ELSE {FALSE})
  /\ outer = LET opened == Emulate(Before, OpenDisplay)
             IN  CASE way = "attached" -> Quiet(Emulate(opened, AttachDump(term)))
                   [] way \in {"remote", "banner"} -> Quiet(opened)
                   [] OTHER -> Fresh
  /\ base = BlankSnapshot(Height, Width)
  /\ shown = BlankSnapshot(Height, Width)
  /\ initialized = FALSE
  /\ astray = FALSE
  /\ now = 0
  /\ note = NewNotification(0)

-----------------------------------------------------------------------------
(***************************************************************************)
(* The session.                                                            *)
(***************************************************************************)

\* The application writes.
Output ==
  /\ left > 0
  /\ left' = left - 1
  /\ \E a \in Vocabulary[way] :
       LET t == Emulate(Quiet(term), <<a>>)
       IN  /\ term' = t
           /\ outer' = IF way = "attached" THEN Quiet(Emulate(outer, Broadcast(t, a))) ELSE outer
  /\ UNCHANGED <<way, grab, base, shown, initialized, astray, now, note>>

\* Nobody is attached while the size changes: with somebody attached, the
\* session's size is the size of that somebody's terminal.
Resized ==
  /\ way = "control"
  /\ left > 0
  /\ left' = left - 1
  /\ \E s \in Sizes : term' = ResizeTo(Quiet(term), s[1], s[2])
  /\ UNCHANGED <<way, grab, outer, base, shown, initialized, astray, now, note>>

-----------------------------------------------------------------------------
(***************************************************************************)
(* The remote client.                                                      *)
(***************************************************************************)

\* apply_frame: the dump on a fresh model, which DECCOLM may have widened.
Applied(t) ==
  LET u == Emulate(NewTerminal(Height, Width, 0), Dump(t))
  IN  IF Rows(u) # Height \/ Cols(u) # Width THEN ResizeTo(u, Height, Width) ELSE u

\* After drawing the last cell of the bottom row the renderer counts its cursor
\* one column too far.  A terminal that waits there with the wrap pending then
\* takes a short move back one column too far, and all that is drawn from
\* there on is displaced, until a whole repaint.
CornerDrawn(f) ==
  LET last == f.cells[f.rows][f.cols] IN f.row = f.rows - 1 /\ (last.width = 0 \/ ~Skippable(last))

\* A frame arrives (heard), or only the clock went on, and compose_frame draws
\* again; predictions are in Predict.tla.
Render(heard) ==
  LET n == Adjust(IF heard THEN ServerHeard(note, now) ELSE note, now)
      b == IF heard THEN Snapshot(Applied(term)) ELSE base
      next == ApplyBanner(n, b, now)
  IN  /\ way \in {"remote", "banner"}
      /\ note' = n
      /\ base' = b
      /\ outer' = Quiet(Emulate(outer, Draw(initialized, shown, next, grab /\ b.mouse = "none")))
      /\ shown' = next
      /\ initialized' = TRUE
      /\ astray' = (CornerDrawn(next) \/ (initialized /\ astray))
      /\ UNCHANGED <<way, term, left, grab, now>>

\* Ctrl-L, SIGCONT.
Repaint ==
  /\ way \in {"remote", "banner"}
  /\ initialized
  /\ initialized' = FALSE
  /\ UNCHANGED <<way, term, left, grab, outer, base, shown, astray, now, note>>

\* suspend: the user's shell has the terminal for a while.
Suspend ==
  /\ way = "remote"
  /\ initialized
  /\ outer' = Quiet(Emulate(outer, CloseDisplay \o NewLine \o OpenDisplay))
  /\ initialized' = FALSE
  /\ UNCHANGED <<way, term, left, grab, base, shown, astray, now, note>>

\* The clock, and a message of the client's own.
Pass ==
  /\ way = "banner"
  /\ now < Latest
  /\ now' = now + 1
  /\ UNCHANGED <<way, term, left, grab, outer, base, shown, initialized, astray, note>>
Message ==
  /\ way = "banner"
  /\ \E m \in {"", "hello"}, permanent \in BOOLEAN : note' = SetMessage(note, m, permanent, now)
  /\ UNCHANGED <<way, term, left, grab, outer, base, shown, initialized, astray, now>>

Next == Output \/ Resized \/ Render(TRUE) \/ Render(FALSE) \/ Repaint \/ Suspend \/ Pass \/ Message

Spec == Init /\ [][Next]_vars

-----------------------------------------------------------------------------
(***************************************************************************)
(* Properties of the model of the screen.                                  *)
(***************************************************************************)
ScreenSound(s) ==
  /\ Len(s.grid) = s.rows
  /\ Len(s.scrollback) <= s.max
  /\ \A r \in DOMAIN s.grid : Len(s.grid[r].cells) = s.cols

\* What is stored is what is counted, and within the quota; nothing belongs to
\* an image that is gone.
Stored(g) ==
  LET ids == SetToSeq(DOMAIN g.images)
      sum[k \in 0..Len(ids)] == IF k = 0 THEN 0 ELSE sum[k-1] + g.images[ids[k]].size + SizeOf(FramesOf(g, ids[k]))
  IN  sum[Len(ids)]
GraphicsSound(g) ==
  /\ g.total = Stored(g) /\ g.total <= Quota
  /\ (DOMAIN g.frames \cup DOMAIN g.animations) \subseteq DOMAIN g.images

\* The grid stays rectangular, the scrollback within its limit, and the cursor
\* and the region inside the grid: code all over posh-term indexes by them.  The
\* bytes of all images are counted right through every replacement, eviction
\* and deletion (graphics.rs subtracts them unchecked), and under the quota.
GridSound ==
  /\ ScreenSound(term.primary)
  /\ ScreenSound(term.alt)
  /\ term.alt.rows = Rows(term) /\ term.alt.cols = Cols(term) /\ Len(term.tabs) = Cols(term)
  /\ term.cursor.row \in 0..(Rows(term) - 1)
  /\ term.cursor.col \in 0..(Cols(term) - 1)
  /\ 0 <= term.top /\ term.bot < Rows(term) /\ (term.top < term.bot \/ Rows(term) = 1)
  /\ term.cursor.pending => term.cursor.col = Cols(term) - 1
  /\ GraphicsSound(term.graphics)

\* What the user can see changes only if the generation counter advances: the
\* server makes a frame only then.
Visible(t) == [Snapshot(t) EXCEPT !.links = <<>>]
NoticedChanges == [][Visible(term') # Visible(term) => term'.touched]_vars

\* The characters of the primary screen and its scrollback, in order, and how
\* many of them come before the cursor.
Written(rows) == SelectSeq(FlattenSeq([r \in DOMAIN rows |-> rows[r].cells]), LAMBDA c : ~IsBlank(c))
Behind(t) ==
  LET rows == t.primary.scrollback \o SubSeq(t.primary.grid, 1, t.cursor.row)
  IN  Written(Append(rows, [cells |-> SubSeq(t.primary.grid[t.cursor.row + 1].cells, 1, t.cursor.col)]))

\* Resizing the primary screen rewraps it.  The characters keep their order and
\* only ones after the cursor may be lost (screen.rs keeps the cursor on screen
\* "even if rows below it overflow"); when there is nothing below the cursor's
\* row, none is, and the cursor stays between the same two characters.
ReflowKeepsText ==
  [][Resized /\ ~term.alt_active =>
       LET old == Written(term.primary.scrollback \o term.primary.grid)
           new == Written(term'.primary.scrollback \o term'.primary.grid)
       IN  /\ IsPrefix(new, old)
           /\ IsPrefix(Behind(term), new)
           /\ (\A r \in (term.cursor.row + 2)..Rows(term) : AllSkippable(term.primary.grid[r])) =>
                new = old /\ Behind(term') = Behind(term)]_vars

\* Rows that a dump can reproduce: no half of a wide character; and what follows
\* a wrapped row, which a replay only reaches by wrapping, has something in it
\* (an erased row is written as nothing, and all rows below it come out one too
\* high) and no blank end that the scrolling of that wrap would colour.
NoHalves(rows) == \A r \in DOMAIN rows : \A c \in DOMAIN rows[r].cells : ~Orphan(rows[r].cells, c)
Continued(rows) ==
  \A r \in 1..(Len(rows) - 1) : rows[r].wrapped => rows[r+1].wrapped \/ KeptLength(rows[r+1].cells) > 0
PlainEnds(rows) ==
  \A r \in 1..(Len(rows) - 1) :
    rows[r].wrapped => rows[r+1].cells[1].style.bg = DefaultColor \/ KeptLength(rows[r+1].cells) = Len(rows[r+1].cells)
TidyRows(rows) == NoHalves(rows) /\ Continued(rows) /\ PlainEnds(rows)

\* Pictures that a dump can reproduce: no placement outlived its image, and a
\* relative one comes after its parent, at its offset from where that is now
\* (a parent placed again goes to the end of the list); nothing is larger than
\* a chunked transmission may be.
PlainPlacement(t, i) ==
  LET g == t.graphics
      p == g.placements[i]
      k == FindPlacement(g, p.parent, p.parent_placement)
      q == g.placements[k]
  IN  /\ p.image \in DOMAIN g.images
      /\ IF k = 0 THEN p.unicode \/ (p.row < Rows(t) /\ p.col < Cols(t))
         ELSE k < i /\ ~q.unicode /\ p.row = Most(0, q.row + p.v_off) /\ p.col = Most(0, q.col + p.h_off)
TidyPictures(t) ==
  LET g == t.graphics
  IN  /\ \A i \in DOMAIN g.placements : PlainPlacement(t, i)
      /\ \A id \in DOMAIN g.images :
           g.images[id].size <= MaxPending /\ \A i \in DOMAIN FramesOf(g, id) : g.frames[id][i].size <= MaxPending
Tidy(t) ==
  /\ TidyPictures(t)
  /\ TidyRows(t.primary.scrollback \o t.primary.grid)
  /\ t.alt_active => TidyRows(t.alt.grid) /\ t.saved_primary.cursor.col = 0
  /\ t.cursor.pending => LET x == CellOf(Scr(t), t.cursor.row, t.cursor.col)
                         IN  x.link = t.cursor.link /\ MapCharset(t, x.ch) = x.ch

\* A frame is only a dump: replayed on a fresh terminal it must give the screen,
\* cursor, modes, title, region and pictures back, whatever sequence of text,
\* controls, resizes and graphics commands made them (dump_vt, dump_graphics).
Replayed == Reproduced(term, Emulate(NewTerminal(Rows(term), Cols(term), History), Dump(term)))
DumpReproduces == way \in {"text", "control", "graphics"} /\ Tidy(term) => Replayed

-----------------------------------------------------------------------------
(***************************************************************************)
(* Properties of the user's terminal.                                      *)
(***************************************************************************)
Look(t) == [r \in 1..Rows(t) |-> [c \in 1..Cols(t) |->
             LET x == CellOf(Scr(t), r - 1, c - 1)
             IN  <<IF x.ch = "nul" THEN " " ELSE x.ch, x.width, x.extra, [x.style EXCEPT !.protected = FALSE],
                   IF x.link = 0 THEN "" ELSE t.links[x.link][2]>>]]
SnapLook(f) == [r \in 1..f.rows |-> [c \in 1..f.cols |->
             LET x == f.cells[r][c]
             IN  <<IF x.ch = "nul" THEN " " ELSE x.ch, x.width, x.extra, [x.style EXCEPT !.protected = FALSE], LinkUri(f, x.link)>>]]

\* A frame, drawn as the difference to the one before or after Ctrl-L or a
\* suspension as a whole, leaves the user's terminal showing it: cells, cursor,
\* title and modes (new_frame's doc: "the escape stream that morphs a terminal
\* showing last into one showing f"), whatever predictions of its own position,
\* pen, link and scrolling the renderer made on the way.
DisplayMorphs ==
  way \in {"remote", "banner"} /\ initialized /\ ~astray =>
    /\ Look(outer) = SnapLook(shown)
    /\ <<outer.cursor.row, outer.cursor.col>> = <<shown.row, shown.col>>
    /\ \A m \in SnapFlags : outer.modes[m] = shown.flags[m]
    /\ outer.title = shown.title
    /\ grab \/ <<outer.modes["mouse_mode"], outer.modes["mouse_protocol"]>> = <<shown.mouse, shown.encoding>>

\* Daemon and user agree on all that later output is drawn by.
Mirrored ==
  /\ Painted(outer) = Painted(term)
  /\ CursorView(outer) = CursorView(term)
  /\ outer.modes = term.modes
  /\ <<RegionTop(outer), RegionBot(outer)>> = <<RegionTop(term), RegionBot(term)>>
  /\ \A g \in {"g0", "g1", "shift"} : outer.cursor[g] = term.cursor[g]

\* An attached terminal never changes screens, and still shows what the session
\* does: once alike it stays alike, and a switch of the session's screens makes
\* it alike again whatever was lost before (dump_screen_switch "repaints in
\* place" and puts region, origin, charsets, insert and autowrap back).
SwitchRepaints ==
  [][way = "attached" /\ (Mirrored \/ term'.screen_switch # "none") /\ TidyRows(Scr(term').grid) => Mirrored']_vars

\* At every moment the client can stop, or suspend itself, and give the user's
\* terminal back: close() "can restore the user's shell exactly as it was", its
\* screen, cursor and pen, and leaves no mode of the session's behind.  Reverse
\* video (DECSCNM) is the exception: new_frame sets it and close does not
\* reset it.
OuterGivenBack ==
  way \in {"remote", "banner"} =>
    LET given == Emulate(outer, CloseDisplay)
    IN  /\ given.primary = outer.primary /\ ~given.alt_active
        /\ <<given.cursor.row, given.cursor.col>> = <<outer.saved_primary.cursor.row, outer.saved_primary.cursor.col>>
        /\ given.cursor.style = DefaultStyle
        /\ \A m \in DOMAIN given.modes \ {"reverse_video"} : given.modes[m] = Before.modes[m]

=============================================================================
