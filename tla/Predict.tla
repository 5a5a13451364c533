------------------------------ MODULE Predict ------------------------------
(***************************************************************************)
(* Speculative local echo (crates/posh/src/remote/predict.rs) as the       *)
(* remote client drives it (client.rs process_user_input, process_frame,   *)
(* compose_frame). A keystroke is drawn as an overlay before the server    *)
(* answers. Each prediction belongs to an epoch and is hidden until some   *)
(* prediction of its epoch, or a later one, has come true; it is judged    *)
(* once the server's echo ack reaches its offset in the input stream, and  *)
(* one that is wrong takes the others with it.                             *)
(*                                                                         *)
(* The engine is a record, so that the bytes of one read can be folded     *)
(* over it. Renditions are left out: a cell is a glyph. Times and the      *)
(* thresholds they are compared with keep their order, not their size.     *)
(* Offsets in the input stream count bytes, as in the code.                *)
(*                                                                         *)
(* Outside the client there is an application that reads the keys in       *)
(* order and echoes each or does not (external). No two keys type the same *)
(* glyph, so that what is drawn tells when it was typed.                   *)
(***************************************************************************)
EXTENDS Integers, Sequences, SequencesExt

CONSTANTS
    Settings,           \* of POSH_PREDICTION and POSH_PREDICTION_OVERWRITE
    Screens,            \* screens the application starts with
    Glyphs,             \* the glyph of the first key typed, the second...
    Keys,               \* what the user types beside glyphs: byte sequences
    Intervals,          \* send intervals of the connection
    Pauses,             \* how far the clock may go on between two turns
    GLITCH_THRESHOLD, GLITCH_REPAIR_COUNT, GLITCH_REPAIR_MININTERVAL,
    GLITCH_FLAG_THRESHOLD, SRTT_TRIGGER_LOW, SRTT_TRIGGER_HIGH,
    FLAG_TRIGGER_LOW, FLAG_TRIGGER_HIGH,
    MaxKeys,            \* bound: keys typed
    PasteAt,            \* bound: after how many keys there may be a paste
    WinchAt,            \* bound: after how many keys a change of width
    PauseAt,            \* bound: after how many keys the clock may go on
    MaxTime,            \* bound: the clock
    Widths              \* widths the user's terminal may be changed to

VARIABLES
    engine,             \* PredictionEngine
    server_term,        \* the client's copy of the server's screen
    last_drawn,         \* what the user's terminal shows
    now,                \* the clock
    overlays_drawn,     \* last_render_overlays
    lines,              \* for each glyph typed, the line it was typed on
    keys,               \* keys typed
    offset,             \* outbox.end_offset: bytes typed
    unread,             \* keys the application has not read yet
    screen,             \* the application's screen
    read,               \* bytes the application has read
    line,               \* history: lines the user has entered
    vindicated,         \* history: lines of which a prediction came true
    reflects,           \* history: bytes the client's copy reflects, while foreseen
    cols,               \* the width of the user's terminal
    foreseen            \* history: the application did what anyone expects

client == <<engine, server_term, last_drawn, overlays_drawn, vindicated, reflects>>

user == <<lines, keys, offset, line, cols>>

application == <<unread, screen, read>>

vars == <<client, now, user, application, foreseen>>

Blank == " "

Later(a, b) == IF a > b THEN a ELSE b

\* u64::saturating_sub
Since(a, b) == IF a > b THEN a - b ELSE 0

\* Vec::retain: the elements of s whose index is in I.
Retain(s, I) ==
    LET kept[n \in 0 .. Len(s)] ==
            IF n = 0 THEN << >>
            ELSE IF n \in I THEN Append(kept[n - 1], s[n]) ELSE kept[n - 1]
    IN  kept[Len(s)]

Preferences == {"always", "never", "adaptive", "experimental"}

\* What a cell may show.
Characters ==
    {Blank, "narrow"} \cup Range(Glyphs) \cup UNION {Range(key) : key \in Keys}
      \cup UNION {UNION {Range(s.cell[r]) : r \in 0 .. s.rows - 1} : s \in Screens}

ScreenOf(h, w) ==
    [rows : {h}, cols : {w}, row : 0 .. h - 1, col : 0 .. w - 1,
     cell : [0 .. h - 1 -> [0 .. w - 1 -> Characters]]]

\* Glyphs are typed once each, and nothing else shows them.
ASSUME PredictAssumption ==
    /\ Settings \subseteq Preferences \X BOOLEAN
    /\ Glyphs \in Seq(Characters)
    /\ Range(Glyphs) \cap {Blank, "narrow"} = {}
    /\ \A key \in Keys : key \in Seq(Characters) /\ key # << >>
                          /\ Range(key) \cap Range(Glyphs) = {}
    /\ \A s \in Screens :
          /\ s.rows \in Nat \ {0} /\ s.cols \in Nat \ {0}
          /\ s \in ScreenOf(s.rows, s.cols)
          /\ \A r \in 0 .. s.rows - 1, j \in 0 .. s.cols - 1 :
                s.cell[r][j] \notin Range(Glyphs)
    /\ Intervals \subseteq Nat /\ Pauses \subseteq Nat /\ Widths \subseteq Nat \ {0}
    /\ {GLITCH_THRESHOLD, GLITCH_REPAIR_COUNT, GLITCH_REPAIR_MININTERVAL,
        GLITCH_FLAG_THRESHOLD, SRTT_TRIGGER_LOW, SRTT_TRIGGER_HIGH,
        FLAG_TRIGGER_LOW, FLAG_TRIGGER_HIGH} \subseteq Nat

-----------------------------------------------------------------------------
(***************************************************************************)
(* OverlayCell and CursorPrediction. What an inactive cell holds is never  *)
(* looked at; nor is the replacement of an unknown one. The line is        *)
(* history: how many lines had been entered when the prediction was made.  *)
(***************************************************************************)
NoCell ==
    [active |-> FALSE, unknown |-> FALSE, replacement |-> Blank, original |-> {},
     epoch |-> 0, expiration |-> 0, time |-> 0, line |-> 0]

Tentative(p, epoch) == p.epoch > epoch

\* reset_with_orig: what the cell was predicted to be counts as seen there.
Seen(c) ==
    IF c.active /\ ~ c.unknown THEN c.original \cup {c.replacement} ELSE {}

\* A new prediction g in place of c, over the glyph that is drawn there.
PredictCell(e, c, drawn, unknown, g, t) ==
    [active |-> TRUE, unknown |-> unknown,
     replacement |-> IF unknown THEN Blank ELSE g,
     original |-> Seen(c) \cup {drawn},
     epoch |-> e.prediction_epoch, expiration |-> e.sent + 1, time |-> t,
     line |-> e.line]

\* Mutated form: a cell is judged only by an ack past the one it waits for.
ValidityLate(c, fb, r, j, late_ack) ==
    CASE ~ c.active -> "Inactive"
      [] c.active /\ late_ack <= c.expiration -> "Pending"
      [] OTHER -> IF fb.cell[r][j] # c.replacement THEN "IncorrectOrExpired"
                  ELSE "Correct"

\* OverlayCell::get_validity
Validity(c, fb, r, j, late_ack) ==
    CASE ~ c.active -> "Inactive"
      [] c.active /\ (r >= fb.rows \/ j >= fb.cols) -> "IncorrectOrExpired"
      [] OTHER ->
            CASE late_ack < c.expiration -> "Pending"
              [] late_ack >= c.expiration /\ (c.unknown \/ c.replacement = Blank)
                    -> "CorrectNoCredit"
              [] OTHER ->
                    IF fb.cell[r][j] # c.replacement THEN "IncorrectOrExpired"
                    ELSE IF c.replacement \in c.original THEN "CorrectNoCredit"
                    ELSE "Correct"

\* CursorPrediction::get_validity
CursorValidity(c, fb, late_ack) ==
    IF c.row >= fb.rows \/ c.col >= fb.cols THEN "IncorrectOrExpired"
    ELSE IF late_ack < c.expiration THEN "Pending"
    ELSE IF fb.row = c.row /\ fb.col = c.col THEN "Correct"
    ELSE "IncorrectOrExpired"

-----------------------------------------------------------------------------
(***************************************************************************)
(* InputParser: the user's bytes as keys. The bytes of a character that is *)
(* not complete yet name the parser's state.                               *)
(***************************************************************************)
Controls == {"CR", "^T"}

Params == {" ", ";"}                                \* 0x20 .. 0x3F

Finals == Range(Glyphs) \cup {"A", "C", "D", "O", "["}  \* 0x40 .. 0x7E

Parsed(state, kind, ch) == [state |-> state, kind |-> kind, ch |-> ch]

FromGround(b) ==
    CASE b \in {"ESC", "LEAD2", "LEAD3"} -> Parsed(b, "None", b)
      [] b \in Controls \cup {"CONT"} -> Parsed("Ground", "Execute", b)
      [] OTHER -> Parsed("Ground", "Print", b)

InputByte(state, b) ==
    CASE state = "ESC" -> IF b \in {"[", "O"} THEN Parsed("CSI", "None", b)
                          ELSE Parsed("Ground", "EscDispatch", b)
      [] state = "CSI" ->
            CASE b \in Params -> Parsed("CSI", "None", b)
              [] b \in Finals -> Parsed("Ground", "CsiDispatch", b)
              [] OTHER -> Parsed("Ground", "Execute", b)
      [] state = "LEAD2" /\ b = "CONT" -> Parsed("Ground", "Print", "narrow")
      [] state = "LEAD3" /\ b = "CONT" -> Parsed("LAST3", "None", b)
      [] state = "LAST3" /\ b = "CONT" -> Parsed("Ground", "Print", "wide")
      [] OTHER -> FromGround(b)

-----------------------------------------------------------------------------
(***************************************************************************)
(* The engine.                                                             *)
(***************************************************************************)
NewEngine(preference, overwrite) ==
    [preference |-> preference, overwrite |-> overwrite,
     parser |-> "Ground", overlays |-> << >>, cursors |-> << >>,
     sent |-> 0, late_acked |-> 0,
     prediction_epoch |-> 1, confirmed_epoch |-> 0,
     flagging |-> FALSE, srtt_trigger |-> FALSE, glitch_trigger |-> 0,
     quick |-> 0, send_interval |-> FLAG_TRIGGER_HIGH + 1,
     height |-> 0, width |-> 0, mispredicted |-> FALSE, line |-> 0]

Experimental(e) == e.preference = "experimental"

Columns(row) == DOMAIN row.cells

Active(e) ==
    \/ e.cursors # << >>
    \/ \E i \in 1 .. Len(e.overlays) :
          \E j \in Columns(e.overlays[i]) : e.overlays[i].cells[j].active

Shown(e) ==
    CASE e.preference = "never" -> FALSE
      [] e.preference \in {"always", "experimental"} -> TRUE
      [] e.preference = "adaptive" -> e.srtt_trigger \/ e.glitch_trigger > 0

\* Mutated form: no key starts an epoch.
BecomeTentativeNever(e) == e

BecomeTentative(e) ==
    IF Experimental(e) THEN e ELSE [e EXCEPT !.prediction_epoch = @ + 1]

Reset(e) == BecomeTentative([e EXCEPT !.cursors = << >>, !.overlays = << >>])

CursorAt(e, row, col) ==
    [epoch |-> e.prediction_epoch, expiration |-> e.sent + 1,
     row |-> row, col |-> col]

\* init_cursor: a cursor of the present epoch, where the last one is.
InitCursor(e, fb) ==
    IF e.cursors # << >> /\ Last(e.cursors).epoch = e.prediction_epoch THEN e
    ELSE LET c == IF e.cursors = << >> THEN fb ELSE Last(e.cursors)
         IN  [e EXCEPT !.cursors = Append(@, CursorAt(e, c.row, c.col))]

\* Mutated form: the cursor is still judged by the ack of the byte before.
MoveCursorEarly(e, col) == [e EXCEPT !.cursors[Len(e.cursors)].col = col]

\* The last cursor moves, and is due when the present byte has been echoed.
MoveCursor(e, col) ==
    [e EXCEPT !.cursors[Len(e.cursors)] =
        [@ EXCEPT !.col = col, !.expiration = e.sent + 1]]

\* get_or_make_row: the cells of row r, and the engine with others there.
RowsAt(e, r) == {i \in 1 .. Len(e.overlays) : e.overlays[i].row = r}

CellsAt(e, r, width) ==
    IF RowsAt(e, r) = {} THEN [j \in 0 .. width - 1 |-> NoCell]
    ELSE e.overlays[CHOOSE i \in RowsAt(e, r) : TRUE].cells

WithCells(e, r, cells) ==
    LET row == [row |-> r, cells |-> cells]
    IN  IF RowsAt(e, r) = {} THEN [e EXCEPT !.overlays = Append(@, row)]
        ELSE [e EXCEPT !.overlays[CHOOSE i \in RowsAt(e, r) : TRUE] = row]

KillRow(row, epoch) ==
    [row |-> row.row,
     cells |-> [j \in Columns(row) |->
                  IF Tentative(row.cells[j], epoch - 1) THEN NoCell
                  ELSE row.cells[j]]]

KillEpoch(e, epoch, fb) ==
    LET stay == Retain(e.cursors,
                  {i \in 1 .. Len(e.cursors) : ~ Tentative(e.cursors[i], epoch - 1)})
    IN  BecomeTentative(
          [e EXCEPT !.cursors = Append(stay, CursorAt(e, fb.row, fb.col)),
                    !.overlays = [i \in 1 .. Len(@) |-> KillRow(@[i], epoch)]])

\* apply: what the predictions that are not hidden make of the screen.
Painted(e, r, j) ==
    {i \in 1 .. Len(e.overlays) :
        /\ Shown(e) /\ e.overlays[i].row = r /\ j \in Columns(e.overlays[i])
        /\ LET c == e.overlays[i].cells[j]
           IN  c.active /\ ~ c.unknown /\ ~ Tentative(c, e.confirmed_epoch)}

Apply(e, fb) ==
    LET cursors == Retain(e.cursors, {i \in 1 .. Len(e.cursors) :
                      /\ ~ Tentative(e.cursors[i], e.confirmed_epoch)
                      /\ e.cursors[i].row < fb.rows /\ e.cursors[i].col < fb.cols})
        c == IF Shown(e) /\ cursors # << >> THEN Last(cursors) ELSE fb
        Glyph(r, j) == IF Painted(e, r, j) = {} THEN fb.cell[r][j]
                       ELSE LET i == CHOOSE i \in Painted(e, r, j) : TRUE
                            IN  e.overlays[i].cells[j].replacement
    IN  [fb EXCEPT !.row = c.row, !.col = c.col,
                   !.cell = [r \in 0 .. fb.rows - 1 |->
                                [j \in 0 .. fb.cols - 1 |-> Glyph(r, j)]]]

-----------------------------------------------------------------------------
(***************************************************************************)
(* cull: the predictions are judged against a screen, row by row in the    *)
(* order the rows were made. s is [e, kills, reset].                       *)
(***************************************************************************)

\* A cell that came true soon repairs the glitch trigger by one step.
Repaired(e, c, t) ==
    IF /\ Since(t, c.time) < GLITCH_THRESHOLD
       /\ e.glitch_trigger > 0
       /\ Since(t, GLITCH_REPAIR_MININTERVAL) >= e.quick
    THEN [e EXCEPT !.glitch_trigger = @ - 1, !.quick = t]
    ELSE e

\* One that is long in coming makes the predictions visible, then underlined.
Glitched(e, c, t) ==
    CASE Since(t, c.time) >= GLITCH_FLAG_THRESHOLD ->
            [e EXCEPT !.glitch_trigger = GLITCH_REPAIR_COUNT * 2]
      [] Since(t, c.time) < GLITCH_FLAG_THRESHOLD /\ Since(t, c.time) >= GLITCH_THRESHOLD ->
            [e EXCEPT !.glitch_trigger = Later(@, GLITCH_REPAIR_COUNT)]
      [] OTHER -> e

\* OverlayCell::reset
Cleared(e, i, j) == [e EXCEPT !.overlays[i].cells[j] = NoCell]

Judge(s, i, j, fb, t) ==
    LET c == s.e.overlays[i].cells[j]
        v == Validity(c, fb, s.e.overlays[i].row, j, s.e.late_acked)
    IN  CASE v = "Inactive" -> s
          [] v = "Pending" -> [s EXCEPT !.e = Glitched(s.e, c, t)]
          [] v = "CorrectNoCredit" -> [s EXCEPT !.e = Cleared(s.e, i, j)]
          [] v = "Correct" ->
                [s EXCEPT !.e = Cleared(Repaired(
                    [s.e EXCEPT !.confirmed_epoch = Later(@, c.epoch)], c, t), i, j)]
          [] v = "IncorrectOrExpired" ->
                IF Experimental(s.e) THEN [s EXCEPT !.e = Cleared(s.e, i, j)]
                ELSE IF Tentative(c, s.e.confirmed_epoch)
                THEN [s EXCEPT !.kills = Append(@, c.epoch)]
                ELSE [s EXCEPT !.reset = TRUE]

JudgeRow(s, i, fb, t) ==
    LET J[n \in 0 .. s.e.width] ==
            IF n = 0 THEN s
            ELSE IF J[n - 1].reset THEN J[n - 1]
            ELSE Judge(J[n - 1], i, n - 1, fb, t)
    IN  J[s.e.width]

JudgeAll(e, fb, t) ==
    LET R[i \in 0 .. Len(e.overlays)] ==
            IF i = 0 THEN [e |-> e, kills |-> << >>, reset |-> FALSE]
            ELSE JudgeRow(R[i - 1], i, fb, t)
    IN  R[Len(e.overlays)]

KillAll(e, epochs, fb) ==
    LET K[n \in 0 .. Len(epochs)] ==
            IF n = 0 THEN e ELSE KillEpoch(K[n - 1], epochs[n], fb)
    IN  K[Len(epochs)]

\* The display triggers, each with its hysteresis.
Triggered(e) ==
    [e EXCEPT !.srtt_trigger =
                 \/ e.send_interval > SRTT_TRIGGER_HIGH
                 \/ @ /\ (e.send_interval > SRTT_TRIGGER_LOW \/ Active(e)),
              !.flagging =
                 \/ e.send_interval > FLAG_TRIGGER_HIGH
                 \/ @ /\ e.send_interval > FLAG_TRIGGER_LOW
                 \/ e.glitch_trigger > GLITCH_REPAIR_COUNT]

\* mispredict_resets, of which only whether there was one is kept.
Mispredicted(e) == Reset([e EXCEPT !.mispredicted = TRUE])

CullCursors(e, fb) ==
    LET late == e.late_acked
        wrong == /\ e.cursors # << >>
                 /\ CursorValidity(Last(e.cursors), fb, late) = "IncorrectOrExpired"
    IN  IF wrong /\ ~ Experimental(e) THEN Mispredicted(e)
        ELSE [e EXCEPT !.cursors =
                IF wrong THEN << >>
                ELSE Retain(@, {i \in 1 .. Len(@) :
                                 CursorValidity(@[i], fb, late) = "Pending"})]

Resized(e, fb) ==
    IF e.height = fb.rows /\ e.width = fb.cols THEN e
    ELSE Reset([e EXCEPT !.height = fb.rows, !.width = fb.cols])

Cull(e, fb, t) ==
    LET f == Triggered(Resized(e, fb))
        s == JudgeAll([f EXCEPT !.overlays =
                         Retain(@, {i \in 1 .. Len(@) : @[i].row < fb.rows})], fb, t)
    IN  IF e.preference = "never" THEN e
        ELSE IF s.reset THEN Mispredicted(s.e)
        ELSE CullCursors(KillAll(s.e, s.kills, fb), fb)

-----------------------------------------------------------------------------
(***************************************************************************)
(* new_user_byte: the predictions a key leads to. fb is what is drawn.     *)
(***************************************************************************)

\* What cell j of row r is expected to show now: its prediction, if any.
Expected(cells, fb, r, j) ==
    IF cells[j].active
    THEN [unknown |-> cells[j].unknown, glyph |-> cells[j].replacement]
    ELSE [unknown |-> FALSE, glyph |-> fb.cell[r][j]]

\* On the last row the scroll is not predicted, but a blank row is.
NewlineCarriageReturn(e, fb, t) ==
    LET f == InitCursor(e, fb)
        n == Len(f.cursors)
        cells == CellsAt(f, f.cursors[n].row, fb.cols)
        blanked ==
            [j \in DOMAIN cells |->
                [active |-> TRUE, unknown |-> FALSE, replacement |-> Blank,
                 original |-> cells[j].original, epoch |-> f.prediction_epoch,
                 expiration |-> f.sent + 1, time |-> t, line |-> f.line]]
    IN  IF f.cursors[n].row = fb.rows - 1
        THEN WithCells([f EXCEPT !.cursors[n].col = 0], f.cursors[n].row, blanked)
        ELSE [f EXCEPT !.cursors[n] = [@ EXCEPT !.col = 0, !.row = f.cursors[n].row + 1]]

\* handle_print: the glyph, and the rest of the row one column on.
HandleGlyph(e, g, fb, t) ==
    LET w == fb.cols
        e1 == InitCursor(e, fb)
        r == Last(e1.cursors).row
        col == Last(e1.cursors).col
        e2 == IF col + 1 >= w THEN BecomeTentative(e1) ELSE e1
        cells == CellsAt(e2, r, w)
        printed ==
            [j \in DOMAIN cells |->
                CASE j < col \/ (j > col /\ e.overwrite) -> cells[j]
                  [] j = col ->
                        PredictCell(e2, cells[j], fb.cell[r][j], FALSE, g, t)
                  [] OTHER ->
                        LET x == Expected(cells, fb, r, j - 1)
                        IN  PredictCell(e2, cells[j], fb.cell[r][j],
                                        j = w - 1 \/ x.unknown, x.glyph, t)]
        e3 == WithCells(e2, r, printed)
    IN  IF r >= fb.rows \/ col >= fb.cols THEN e1
        ELSE IF col + 1 < w THEN MoveCursor(e3, col + 1)
        ELSE NewlineCarriageReturn(BecomeTentative(MoveCursor(e3, col)), fb, t)

\* handle_backspace: the rest of the row one column back.
HandleBackspace(e, fb, t) ==
    LET w == fb.cols
        e1 == InitCursor(e, fb)
        r == Last(e1.cursors).row
        col == Last(e1.cursors).col - 1
        cells == CellsAt(e1, r, w)
        erased ==
            [j \in DOMAIN cells |->
                CASE j < col \/ (j > col /\ e.overwrite) -> cells[j]
                  [] j = col /\ e.overwrite ->
                        PredictCell(e1, cells[j], fb.cell[r][j], FALSE, Blank, t)
                  [] OTHER ->
                        LET x == IF j + 2 < w THEN Expected(cells, fb, r, j + 1)
                                 ELSE [unknown |-> TRUE, glyph |-> Blank]
                        IN  PredictCell(e1, cells[j], fb.cell[r][j],
                                        x.unknown, x.glyph, t)]
    IN  IF col < 0 THEN e1 ELSE WithCells(MoveCursor(e1, col), r, erased)

HandlePrint(e, ch, fb, t) ==
    CASE ch = "DEL" -> HandleBackspace(e, fb, t)
      [] ch = "wide" -> BecomeTentative(e)
      [] OTHER -> HandleGlyph(e, ch, fb, t)

HandleArrow(e, step, fb) ==
    LET f == InitCursor(e, fb)
        col == Last(f.cursors).col + step
    IN  IF col \in 0 .. fb.cols - 1 THEN MoveCursor(f, col) ELSE f

NewUserByte(e, b, fb, t) ==
    LET e1 == IF Experimental(e)
              THEN [e EXCEPT !.prediction_epoch = e.confirmed_epoch] ELSE e
        act == InputByte(e.parser, b)
        e2 == [Cull(e1, fb, t) EXCEPT !.parser = act.state]
    IN  CASE e.preference = "never" -> e
          [] e.preference # "never" /\ act.kind = "None" -> e2
          [] e.preference # "never" /\ act.kind = "Print" ->
                HandlePrint(e2, act.ch, fb, t)
          [] e.preference # "never" /\ act.kind = "Execute" /\ act.ch = "CR" ->
                NewlineCarriageReturn(BecomeTentative(e2), fb, t)
          [] e.preference # "never" /\ act.kind = "CsiDispatch"
                /\ act.ch \in {"C", "D"} ->
                HandleArrow(e2, IF act.ch = "C" THEN 1 ELSE -1, fb)
          [] OTHER -> BecomeTentative(e2)

-----------------------------------------------------------------------------
(***************************************************************************)
(* The application (external). It reads a key and echoes it the way a line *)
(* editor does, or swallows it.                                            *)
(***************************************************************************)
Fit(fb, w) ==
    [fb EXCEPT !.cols = w, !.col = IF @ < w THEN @ ELSE w - 1,
               !.cell = [r \in DOMAIN @ |-> [j \in 0 .. w - 1 |->
                            IF j \in DOMAIN @[r] THEN @[r][j] ELSE Blank]]]

Insert(fb, g) ==
    [fb EXCEPT !.col = IF @ + 1 < fb.cols THEN @ + 1 ELSE @,
               !.cell[fb.row] = [j \in DOMAIN @ |->
                    IF j < fb.col THEN @[j] ELSE IF j = fb.col THEN g ELSE @[j - 1]]]

Delete(fb) ==
    IF fb.col = 0 THEN fb
    ELSE [fb EXCEPT !.col = @ - 1,
                    !.cell[fb.row] = [j \in DOMAIN @ |->
                        IF j < fb.col - 1 THEN @[j]
                        ELSE IF j + 1 < fb.cols THEN @[j + 1] ELSE Blank]]

Scrolled(fb) ==
    [fb EXCEPT !.cell = [r \in DOMAIN @ |->
        IF r + 1 < fb.rows THEN @[r + 1] ELSE [j \in DOMAIN @[r] |-> Blank]]]

NewLine(fb) ==
    IF fb.row + 1 < fb.rows THEN [fb EXCEPT !.row = @ + 1, !.col = 0]
    ELSE [Scrolled(fb) EXCEPT !.col = 0]

Echo(fb, key) ==
    CASE key = <<"DEL">> -> Delete(fb)
      [] key = <<"CR">> -> NewLine(fb)
      [] key = <<"ESC", "[", "D">> -> [fb EXCEPT !.col = IF @ > 0 THEN @ - 1 ELSE 0]
      [] key = <<"ESC", "[", "C">> ->
            [fb EXCEPT !.col = IF @ + 1 < fb.cols THEN @ + 1 ELSE @]
      [] Len(key) = 1 /\ key[1] \in Range(Glyphs) -> Insert(fb, key[1])
      [] OTHER -> fb

\* What the engine does not claim to foresee: the last column, and a scroll.
Foreseeable(fb, key) ==
    IF key = <<"CR">> THEN fb.row + 1 < fb.rows ELSE fb.col + 1 < fb.cols

AppReads(echo) ==
    /\ unread # << >>
    /\ LET key == Head(unread)
       IN  /\ unread' = Tail(unread)
           /\ read' = read + Len(key)
           /\ screen' = IF echo THEN Echo(screen, key) ELSE screen
           /\ foreseen' = (foreseen /\ echo /\ Foreseeable(screen, key))
    /\ UNCHANGED <<client, now, user>>

\* The new width has come through to the application.
AppResized ==
    /\ screen.cols # cols
    /\ screen' = Fit(screen, cols)
    /\ UNCHANGED <<client, now, user, unread, read, foreseen>>

-----------------------------------------------------------------------------
(***************************************************************************)
(* One turn of the client's loop: the bytes of one read, then a frame,     *)
(* then what is drawn.                                                     *)
(***************************************************************************)

\* process_user_input: each byte is predicted at its offset, then queued.
Predicted(e, key, fb, t) ==
    LET P[n \in 0 .. Len(key)] ==
            IF n = 0 THEN e
            ELSE NewUserByte([P[n - 1] EXCEPT !.sent = offset + n - 1, !.line = line],
                             key[n], fb, t)
    IN  P[Len(key)]

\* process_frame: the acks of any frame count, that of a stale one too.
Acked(e, ack, interval) ==
    [e EXCEPT !.late_acked = Later(@, ack), !.send_interval = interval]

\* The lines of the predictions that the screen fb bears out.
CameTrue(e, fb) ==
    {l \in 0 .. line :
        \E i \in 1 .. Len(e.overlays) : \E j \in Columns(e.overlays[i]) :
            /\ e.overlays[i].cells[j].line = l
            /\ Validity(e.overlays[i].cells[j], fb, e.overlays[i].row, j, e.late_acked)
                 = "Correct"}

\* Mutated form: what was drawn last time does not count.
ComposeForgetful(e, fb, changed, t) ==
    /\ server_term' = fb
    /\ overlays_drawn' = Active(e)
    /\ vindicated' = vindicated \cup CameTrue(e, fb)
    /\ IF changed \/ Active(e)
       THEN engine' = Cull(e, fb, t) /\ last_drawn' = Apply(engine', fb)
       ELSE engine' = e /\ UNCHANGED last_drawn

\* compose_frame: an idle tick draws nothing.
Compose(e, fb, changed, t) ==
    /\ server_term' = fb
    /\ vindicated' = vindicated \cup CameTrue(e, fb)
    /\ IF changed \/ Active(e) \/ overlays_drawn
       THEN LET culled == Cull(e, fb, t)
            IN  /\ overlays_drawn' = Active(e)
                /\ engine' = culled
                /\ last_drawn' = Apply(culled, fb)
       ELSE /\ engine' = e
            /\ UNCHANGED <<overlays_drawn, last_drawn>>

NextGlyphs ==
    {<<Glyphs[i]>> : i \in {n \in 1 .. Len(Glyphs) :
        /\ Glyphs[n] \notin DOMAIN lines
        /\ \A k \in 1 .. n - 1 : Glyphs[k] \in DOMAIN lines}}

Typeable == IF keys < MaxKeys THEN Keys \cup NextGlyphs ELSE {}

\* The user types key, or pastes it with so much else that nothing is predicted.
Type(key, paste) ==
    /\ keys' = keys + 1
    /\ unread' = Append(unread, key)
    /\ offset' = offset + Len(key)
    /\ line' = IF key = <<"CR">> THEN line + 1 ELSE line
    /\ lines' = IF key[1] \in Range(Glyphs)
                THEN [g \in DOMAIN lines \cup {key[1]} |->
                        IF g = key[1] THEN line ELSE lines[g]]
                ELSE lines
    /\ LET e == IF paste THEN Reset(engine)
                ELSE Predicted(engine, key, last_drawn, now)
       IN  Compose(e, server_term, FALSE, now)
    /\ foreseen' = (foreseen /\ ~ paste)
    /\ UNCHANGED <<now, cols, screen, read, reflects>>

\* A frame comes in. Its body may be one that is not applied.
ReceiveFrame(ack, applied, interval) ==
    /\ LET shown == IF applied THEN read ELSE reflects
       IN  /\ foreseen' = (foreseen /\ ack <= shown)
           /\ reflects' = IF foreseen' THEN shown ELSE 0
    /\ Compose(Acked(engine, ack, interval),
               IF applied THEN Fit(screen, cols) ELSE server_term,
               applied, now)
    /\ UNCHANGED <<now, user, application>>

\* A turn with nothing to read: a pending prediction may have become a glitch.
Tick ==
    /\ Compose(engine, server_term, FALSE, now)
    /\ UNCHANGED <<now, user, application, reflects, foreseen>>

\* The clock goes on while the client sleeps in poll.
Wait(dt) ==
    /\ now + dt <= MaxTime
    /\ now' = now + dt
    /\ UNCHANGED <<client, user, application, foreseen>>

\* SIGWINCH: the predictions go, and everything is drawn again.
Winch(w) ==
    /\ w < cols
    /\ cols' = w
    /\ foreseen' = FALSE
    /\ Compose(Reset(engine), server_term, TRUE, now)
    /\ UNCHANGED <<now, lines, keys, offset, line, application, reflects>>

Init ==
    /\ \E s \in Settings : engine = NewEngine(s[1], s[2])
    /\ screen \in Screens
    /\ server_term = screen /\ last_drawn = screen /\ cols = screen.cols
    /\ overlays_drawn = FALSE
    /\ now = 0 /\ keys = 0 /\ offset = 0 /\ read = 0 /\ line = 0 /\ reflects = 0
    /\ lines = << >> /\ unread = << >>
    /\ vindicated = {} /\ foreseen = TRUE

\* The echo acks a frame may bring: an old one, an honest one, and one that
\* is ahead of the application.
Acks == {engine.late_acked, read, offset}

Next ==
    \/ \E key \in Typeable : Type(key, FALSE)
    \/ \E key \in NextGlyphs : keys \in PasteAt /\ Type(key, TRUE)
    \/ \E ack \in Acks, applied \in BOOLEAN, interval \in Intervals :
          ReceiveFrame(ack, applied, interval)
    \/ Tick
    \/ \E dt \in Pauses : keys \in PauseAt /\ Wait(dt)
    \/ \E w \in Widths : keys \in WinchAt /\ Winch(w)
    \/ \E echo \in BOOLEAN : AppReads(echo)
    \/ AppResized

Spec == Init /\ [][Next]_vars

-----------------------------------------------------------------------------
\* A cell that is due was judged when it fell due: what is left awaits a later
\* ack. new_user_byte culls against what is drawn, its own overlays among it
\* (predict.rs:757), so a cell still due then would be confirmed by itself.
NoStalePrediction ==
    engine.preference # "never" =>
      /\ \A i \in 1 .. Len(engine.cursors) :
            engine.cursors[i].expiration > engine.late_acked
      /\ \A i \in 1 .. Len(engine.overlays) :
            \A j \in Columns(engine.overlays[i]) :
                LET c == engine.overlays[i].cells[j]
                IN  c.active => c.expiration > engine.late_acked

\* What is typed on a line is drawn ahead of the server only once a prediction
\* made on that line, or a later one, has come true on the server's screen:
\* Enter starts an epoch (new_user_byte), so that a command line that was
\* echoed does not vouch for the password typed after it.
SecretNotShown ==
    Experimental(engine) \/
      \A r \in DOMAIN last_drawn.cell : \A j \in DOMAIN last_drawn.cell[r] :
         LET g == last_drawn.cell[r][j]
         IN  g \in DOMAIN lines /\ g # server_term.cell[r][j]
               => \E l \in vindicated : lines[g] <= l

\* While nothing is pasted, the application echoes as a line editor does away
\* from the margins, and no ack comes ahead of its screen, no prediction is
\* thrown away.
FulfilledStands == foreseen => ~ engine.mispredicted

\* With nothing outstanding, or everything acknowledged, the user's terminal
\* shows the client's copy of the screen: no overlay outlives its prediction,
\* whatever the idle test of compose_frame skips.
NothingLeftDrawn ==
    (~ Active(engine) \/ engine.late_acked = offset) => last_drawn = server_term

=============================================================================
