--------------------------- MODULE PredictProofs ---------------------------
(***************************************************************************)
(* The prediction engine for any screens, keys, settings and number of     *)
(* predictions: nothing that is due is left to be confirmed by itself,     *)
(* nothing drawn outlives its prediction, and what is typed on a line is   *)
(* drawn ahead of the server only once the server has borne that line out. *)
(*                                                                         *)
(* An engine is described by the sets of its cursors and of its active     *)
(* cells, wherever on the screen they are: what an operation does is which *)
(* of them it keeps, and what is true of those that it makes.              *)
(***************************************************************************)
EXTENDS Predict, SequenceTheorems, WellFoundedInduction, TLAPS

-----------------------------------------------------------------------------
(***************************************************************************)
(* Induction over an interval of naturals, and Vec::retain.                *)
(***************************************************************************)
LEMMA UpTo ==
    ASSUME NEW n \in Nat, NEW T, 0 \in T,
           \A k \in 1 .. n : k - 1 \in T => k \in T
    PROVE  \A k \in 0 .. n : k \in T
<1> DEFINE B == {k \in Nat : k <= n /\ k \notin T}
<1> SUFFICES ASSUME B # {} PROVE FALSE
  OBVIOUS
<1>1. PICK k \in B : \A m \in B : ~ (<<m, k>> \in OpToRel(<, Nat))
  <2>1. B \subseteq Nat
    OBVIOUS
  <2> HIDE DEF B
  <2> QED
    BY <2>1, NatLessThanWellFounded, WFMin
<1>2. k # 0 /\ k \in 1 .. n /\ k - 1 \in Nat /\ k - 1 <= n
  OBVIOUS
<1>3. k - 1 \in B
  BY <1>2
<1>4. <<k - 1, k>> \in OpToRel(<, Nat)
  <2>1. <<k - 1, k>> \in Nat \X Nat /\ <<k - 1, k>>[1] < <<k - 1, k>>[2]
    BY <1>2
  <2> HIDE DEF B
  <2> QED
    BY <2>1, Zenon DEF OpToRel
<1> QED
  BY <1>1, <1>3, <1>4

\* The elements of a sequence.
Elements(s) == {s[i] : i \in 1 .. Len(s)}

LEMMA ElementsOfAppend ==
    ASSUME NEW S, NEW s \in Seq(S), NEW x \in S
    PROVE  /\ Append(s, x) \in Seq(S)
           /\ Elements(Append(s, x)) = Elements(s) \cup {x}
<1>1. /\ Append(s, x) \in Seq(S) /\ Len(s) \in Nat
      /\ Len(Append(s, x)) = Len(s) + 1
      /\ \A i \in 1 .. Len(s) : Append(s, x)[i] = s[i]
      /\ Append(s, x)[Len(s) + 1] = x
  BY AppendProperties
<1>2. PICK n \in Nat, a \in Seq(S) : n = Len(s) /\ a = Append(s, x)
  BY <1>1
<1>3. {a[i] : i \in 1 .. n + 1} = {s[i] : i \in 1 .. n} \cup {x}
  BY ONLY <1>1, <1>2
<1> QED
  BY <1>1, <1>2, <1>3 DEF Elements

LEMMA ElementsTyped ==
    ASSUME NEW S, NEW s \in Seq(S)
    PROVE  Elements(s) \subseteq S /\ (Elements(s) = {} <=> s = << >>)
<1>1. \A i \in 1 .. Len(s) : s[i] \in S
  BY ElementOfSeq
<1>2. s # << >> => 1 \in 1 .. Len(s)
  BY EmptySeq
<1>3. s = << >> => Elements(s) = {}
  BY DEF Elements
<1>4. s # << >> => s[1] \in Elements(s)
  BY <1>2, Zenon DEF Elements
<1> QED
  BY <1>1, <1>3, <1>4 DEF Elements

IsRetained(h, s, I, n) ==
    h = [k \in 0 .. n |->
            IF k = 0 THEN << >>
            ELSE IF k \in I THEN Append(h[k - 1], s[k]) ELSE h[k - 1]]

LEMMA RetainedExists ==
    ASSUME NEW s, NEW I, NEW n \in Nat
    PROVE  \E h : IsRetained(h, s, I, n)
<1> DEFINE T == {k \in 0 .. n : \E h : IsRetained(h, s, I, k)}
<1>1. 0 \in T
  <2>1. IsRetained([k \in 0 .. 0 |-> << >>], s, I, 0)
    BY DEF IsRetained
  <2> QED
    BY <2>1
<1>2. ASSUME NEW m \in 1 .. n, m - 1 \in T PROVE m \in T
  <2>1. PICK h : IsRetained(h, s, I, m - 1)
    BY <1>2
  <2> DEFINE g == [k \in 0 .. m |->
                     IF k < m THEN h[k]
                     ELSE IF k \in I THEN Append(h[k - 1], s[k]) ELSE h[k - 1]]
  <2>2. \A k \in 0 .. m - 1 : h[k] = IF k = 0 THEN << >>
            ELSE IF k \in I THEN Append(h[k - 1], s[k]) ELSE h[k - 1]
    BY <2>1 DEF IsRetained
  <2>3. \A k \in 0 .. m : g[k] = IF k = 0 THEN << >>
            ELSE IF k \in I THEN Append(g[k - 1], s[k]) ELSE g[k - 1]
    BY <2>2
  <2>4. IsRetained(g, s, I, m)
    BY <2>3 DEF IsRetained
  <2> QED
    BY <2>4
<1> HIDE DEF T
<1>3. n \in T
  BY <1>1, <1>2, UpTo
<1> QED
  BY <1>3 DEF T

\* What retain keeps are the elements whose index was to be kept.
LEMMA RetainIs ==
    ASSUME NEW S, NEW s \in Seq(S), NEW I
    PROVE  /\ Retain(s, I) \in Seq(S)
           /\ Elements(Retain(s, I)) = {s[i] : i \in I \cap (1 .. Len(s))}
<1>1. PICK n \in Nat : n = Len(s)
  OBVIOUS
<1> DEFINE h == CHOOSE h : IsRetained(h, s, I, n)
<1>2. IsRetained(h, s, I, n)
  BY <1>1, RetainedExists
<1>3. Retain(s, I) = h[n]
  BY <1>1 DEF Retain, IsRetained
<1> HIDE DEF h
<1>4. /\ h[0] = << >>
      /\ \A k \in 1 .. n : h[k] = IF k \in I THEN Append(h[k - 1], s[k]) ELSE h[k - 1]
  <2>1. \A k \in 0 .. n : h[k] = IF k = 0 THEN << >>
            ELSE IF k \in I THEN Append(h[k - 1], s[k]) ELSE h[k - 1]
    BY <1>2, Zenon DEF IsRetained
  <2>2. 0 \in 0 .. n /\ \A k \in 1 .. n : k \in 0 .. n /\ k # 0
    BY <1>1
  <2> QED
    BY <2>1, <2>2, Zenon
<1> DEFINE Kept(k) == {s[i] : i \in I \cap (1 .. k)}
           T == {k \in 0 .. n : h[k] \in Seq(S) /\ Elements(h[k]) = Kept(k)}
<1>5. 0 \in T
  <2>1. h[0] \in Seq(S) /\ Elements(h[0]) = {} /\ Kept(0) = {}
    BY <1>4 DEF Elements
  <2> QED
    BY <1>1, <2>1
<1>6. ASSUME NEW k \in 1 .. n, k - 1 \in T PROVE k \in T
  <2>1. h[k - 1] \in Seq(S) /\ Elements(h[k - 1]) = Kept(k - 1)
    BY <1>6
  <2>2. s[k] \in S
    BY <1>1, ElementOfSeq
  <2>3. CASE k \in I
    <3>1. h[k] = Append(h[k - 1], s[k])
      BY <1>4, <2>3
    <3>2. h[k] \in Seq(S) /\ Elements(h[k]) = Kept(k - 1) \cup {s[k]}
      BY <2>1, <2>2, <3>1, ElementsOfAppend
    <3>3. Kept(k) = Kept(k - 1) \cup {s[k]}
      BY <2>3
    <3> QED
      BY <3>2, <3>3
  <2>4. CASE k \notin I
    <3>1. h[k] = h[k - 1] /\ Kept(k) = Kept(k - 1)
      BY <1>4, <2>4
    <3>2. h[k] \in Seq(S) /\ Elements(h[k]) = Kept(k)
      BY <2>1, <3>1
    <3> QED
      BY <3>2
  <2> QED
    BY <2>3, <2>4
<1>7. n \in T
  <2>1. \A k \in 0 .. n : k \in T
    <3> HIDE DEF T
    <3> QED
      BY <1>1, <1>5, <1>6, UpTo
  <2>2. n \in 0 .. n
    BY <1>1
  <2> QED
    BY <2>1, <2>2
<1> QED
  BY <1>1, <1>3, <1>7

-----------------------------------------------------------------------------
(***************************************************************************)
(* Engines and what is told of them.                                       *)
(***************************************************************************)
Cell ==
    [active : BOOLEAN, unknown : BOOLEAN, replacement : Characters,
     original : SUBSET Characters, epoch : Nat, expiration : Nat, time : Nat, line : Nat]

Cursor == [epoch : Nat, expiration : Nat, row : Nat, col : Nat]

CellsOf(w) == [0 .. w - 1 -> Cell]

RowOf(w) == [row : Nat, cells : CellsOf(w)]

Parsers == {"Ground", "ESC", "CSI", "LEAD2", "LEAD3", "LAST3"}

\* An engine whose rows have w columns.
EngineOf(w) ==
    [preference : Preferences, overwrite : BOOLEAN, parser : Parsers,
     overlays : Seq(RowOf(w)), cursors : Seq(Cursor),
     sent : Nat, late_acked : Nat, prediction_epoch : Nat, confirmed_epoch : Nat,
     flagging : BOOLEAN, srtt_trigger : BOOLEAN, glitch_trigger : Nat,
     quick : Nat, send_interval : Nat, height : Nat, width : {w},
     mispredicted : BOOLEAN, line : Nat]

\* The active cells of a row, and of all rows.
ActiveIn(cells, w) == {cells[j] : j \in {i \in 0 .. w - 1 : cells[i].active}}

ActiveCells(e) == UNION {ActiveIn(e.overlays[i].cells, e.width) : i \in 1 .. Len(e.overlays)}

Cursors(e) == Elements(e.cursors)

\* f is e but for its predictions, epochs and triggers.
Keeps(e, f) ==
    /\ f.preference = e.preference /\ f.overwrite = e.overwrite
    /\ f.sent = e.sent /\ f.late_acked = e.late_acked /\ f.line = e.line

\* f has e's predictions.
SamePredictions(e, f) ==
    f.overlays = e.overlays /\ f.cursors = e.cursors /\ f.width = e.width

LEMMA BecomeTentativeIs ==
    ASSUME NEW w, NEW e \in EngineOf(w)
    PROVE  /\ BecomeTentative(e) \in EngineOf(w)
           /\ Keeps(e, BecomeTentative(e))
           /\ SamePredictions(e, BecomeTentative(e))
           /\ BecomeTentative(e).confirmed_epoch = e.confirmed_epoch
           /\ BecomeTentative(e).height = e.height
           /\ BecomeTentative(e).prediction_epoch
                = IF Experimental(e) THEN e.prediction_epoch ELSE e.prediction_epoch + 1
<1>1. CASE Experimental(e)
  BY <1>1 DEF BecomeTentative, EngineOf, Keeps, SamePredictions
<1>2. CASE ~ Experimental(e)
  <2> DEFINE f == [e EXCEPT !.prediction_epoch = e.prediction_epoch + 1]
  <2>1. e.prediction_epoch + 1 \in Nat
    BY DEF EngineOf
  <2>2. BecomeTentative(e) = f
    BY <1>2 DEF BecomeTentative
  <2>3. /\ f \in EngineOf(w) /\ f.prediction_epoch = e.prediction_epoch + 1
        /\ f.confirmed_epoch = e.confirmed_epoch /\ f.height = e.height
        /\ Keeps(e, f) /\ SamePredictions(e, f)
    BY <2>1 DEF EngineOf, Keeps, SamePredictions
  <2> QED
    BY <1>2, <2>2, <2>3
<1> QED
  BY <1>1, <1>2

LEMMA ResetIs ==
    ASSUME NEW w, NEW e \in EngineOf(w)
    PROVE  /\ Reset(e) \in EngineOf(w)
           /\ Keeps(e, Reset(e))
           /\ Reset(e).overlays = << >> /\ Reset(e).cursors = << >>
           /\ Reset(e).confirmed_epoch = e.confirmed_epoch
           /\ Reset(e).height = e.height
           /\ Reset(e).prediction_epoch
                = IF Experimental(e) THEN e.prediction_epoch ELSE e.prediction_epoch + 1
<1> DEFINE f == [e EXCEPT !.cursors = << >>, !.overlays = << >>]
<1>1. << >> \in Seq(RowOf(w)) /\ << >> \in Seq(Cursor)
  OBVIOUS
<1>2. /\ f \in EngineOf(w) /\ Keeps(e, f)
      /\ f.overlays = << >> /\ f.cursors = << >>
      /\ f.confirmed_epoch = e.confirmed_epoch /\ f.height = e.height
      /\ f.prediction_epoch = e.prediction_epoch
  BY <1>1 DEF EngineOf, Keeps
<1> HIDE DEF f
<1>3. Reset(e) = BecomeTentative(f)
  BY DEF Reset, f
<1> QED
  BY <1>2, <1>3, BecomeTentativeIs DEF Keeps, SamePredictions, Experimental

LEMMA ActiveCellsAre ==
    ASSUME NEW w, NEW e \in EngineOf(w)
    PROVE  /\ ActiveCells(e) \subseteq Cell
           /\ \A c \in ActiveCells(e) : c.active
           /\ \A c \in ActiveCells(e) :
                \E i \in 1 .. Len(e.overlays), j \in 0 .. w - 1 : c = e.overlays[i].cells[j]
           /\ \A i \in 1 .. Len(e.overlays), j \in 0 .. w - 1 :
                e.overlays[i].cells[j].active => e.overlays[i].cells[j] \in ActiveCells(e)
           /\ \A i \in 1 .. Len(e.overlays) :
                e.overlays[i] \in RowOf(w) /\ e.overlays[i].cells \in CellsOf(w)
<1>1. e.width = w /\ e.overlays \in Seq(RowOf(w))
  BY DEF EngineOf
<1>2. \A i \in 1 .. Len(e.overlays) :
        e.overlays[i] \in RowOf(w) /\ e.overlays[i].cells \in CellsOf(w)
  <2>1. \A i \in 1 .. Len(e.overlays) : e.overlays[i] \in RowOf(w)
    BY <1>1, ElementOfSeq
  <2>2. \A r \in RowOf(w) : r.cells \in CellsOf(w)
    BY DEF RowOf
  <2> QED
    BY <2>1, <2>2
<1>3. \A i \in 1 .. Len(e.overlays), j \in 0 .. w - 1 : e.overlays[i].cells[j] \in Cell
  BY <1>2 DEF CellsOf
<1>4. \A c : c \in ActiveCells(e) <=>
        \E i \in 1 .. Len(e.overlays), j \in 0 .. w - 1 :
            c = e.overlays[i].cells[j] /\ e.overlays[i].cells[j].active
  BY <1>1 DEF ActiveCells, ActiveIn
<1> QED
  BY <1>2, <1>3, <1>4

LEMMA CursorsAre ==
    ASSUME NEW w, NEW e \in EngineOf(w)
    PROVE  /\ e.cursors \in Seq(Cursor) /\ Cursors(e) \subseteq Cursor
           /\ Cursors(e) = {} <=> e.cursors = << >>
           /\ e.cursors # << >> =>
                /\ Len(e.cursors) \in 1 .. Len(e.cursors)
                /\ Last(e.cursors) = e.cursors[Len(e.cursors)]
                /\ Last(e.cursors) \in Cursors(e)
<1>1. e.cursors \in Seq(Cursor)
  BY DEF EngineOf
<1>2. e.cursors # << >> => Len(e.cursors) \in 1 .. Len(e.cursors)
  BY <1>1, EmptySeq
<1>3. Elements(e.cursors) \subseteq Cursor /\ (Elements(e.cursors) = {} <=> e.cursors = << >>)
  BY <1>1, ElementsTyped
<1>4. Last(e.cursors) = e.cursors[Len(e.cursors)]
  BY DEF Last
<1>5. e.cursors # << >> => Last(e.cursors) \in Cursors(e)
  BY <1>2, <1>4, Zenon DEF Cursors, Elements
<1> QED
  BY <1>1, <1>2, <1>3, <1>4, <1>5 DEF Cursors

\* The offsets at which the cursors fall due, and whether they are on the screen.
Due(e) == {c.expiration : c \in Cursors(e)}

Within(e, fb) == \A c \in Cursors(e) : c.row < fb.rows /\ c.col < fb.cols

SameEpochs(e, f) ==
    f.prediction_epoch = e.prediction_epoch /\ f.confirmed_epoch = e.confirmed_epoch

\* f has e's overlays and epochs; its cursors may have moved.
CursorMoved(e, f) ==
    /\ Keeps(e, f) /\ SameEpochs(e, f)
    /\ f.overlays = e.overlays /\ f.width = e.width /\ f.height = e.height
    /\ Due(f) \subseteq Due(e) \cup {e.sent + 1}

LEMMA ScreenIs ==
    ASSUME NEW h, NEW w, NEW fb \in ScreenOf(h, w)
    PROVE  /\ fb.rows = h /\ fb.cols = w /\ fb.row \in 0 .. h - 1 /\ fb.col \in 0 .. w - 1
           /\ fb.cell \in [0 .. h - 1 -> [0 .. w - 1 -> Characters]]
  BY DEF ScreenOf

\* The engine with other cursors.
LEMMA CursorsSet ==
    ASSUME NEW w, NEW e \in EngineOf(w), NEW s \in Seq(Cursor),
           NEW f, f = [e EXCEPT !.cursors = s]
    PROVE  /\ f \in EngineOf(w) /\ Keeps(e, f) /\ SameEpochs(e, f)
           /\ f.overlays = e.overlays /\ f.width = e.width /\ f.height = e.height
           /\ f.cursors = s /\ Cursors(f) = Elements(s)
  BY DEF EngineOf, Keeps, SameEpochs, Cursors

LEMMA InitCursorIs ==
    ASSUME NEW w, NEW e \in EngineOf(w), NEW h \in Nat, NEW v \in Nat,
           NEW fb \in ScreenOf(h, v)
    PROVE  /\ InitCursor(e, fb) \in EngineOf(w)
           /\ CursorMoved(e, InitCursor(e, fb))
           /\ InitCursor(e, fb).cursors # << >>
           /\ Within(e, fb) => Within(InitCursor(e, fb), fb)
<1>1. CASE e.cursors # << >> /\ Last(e.cursors).epoch = e.prediction_epoch
  <2>1. InitCursor(e, fb) = e
    BY <1>1 DEF InitCursor
  <2> QED
    BY <1>1, <2>1 DEF CursorMoved, Keeps, SameEpochs
<1>2. CASE ~ (e.cursors # << >> /\ Last(e.cursors).epoch = e.prediction_epoch)
  <2> DEFINE c == IF e.cursors = << >> THEN fb ELSE Last(e.cursors)
             n == CursorAt(e, c.row, c.col)
             s == Append(e.cursors, n)
             f == [e EXCEPT !.cursors = s]
  <2>1. InitCursor(e, fb) = f
    BY <1>2 DEF InitCursor
  <2>2. /\ c.row \in Nat /\ c.col \in Nat
        /\ Within(e, fb) => c.row < fb.rows /\ c.col < fb.cols
    <3>1. CASE e.cursors = << >>
      BY <3>1, ScreenIs
    <3>2. CASE e.cursors # << >>
      <4>1. Last(e.cursors) \in Cursors(e) /\ Last(e.cursors) \in Cursor
        BY <3>2, CursorsAre
      <4> QED
        BY <3>2, <4>1 DEF Cursor, Within
    <3> QED
      BY <3>1, <3>2
  <2> HIDE DEF c
  <2>3. /\ n \in Cursor /\ n.expiration = e.sent + 1 /\ n.row = c.row /\ n.col = c.col
    BY <2>2 DEF CursorAt, Cursor, EngineOf
  <2> HIDE DEF n
  <2>4. /\ s \in Seq(Cursor) /\ Elements(s) = Cursors(e) \cup {n}
    BY <2>3, CursorsAre, ElementsOfAppend DEF Cursors
  <2> HIDE DEF s
  <2>5. /\ f \in EngineOf(w) /\ Keeps(e, f) /\ SameEpochs(e, f)
        /\ f.overlays = e.overlays /\ f.width = e.width /\ f.height = e.height
        /\ f.cursors = s /\ Cursors(f) = Cursors(e) \cup {n}
    <3>1. /\ f \in EngineOf(w) /\ Keeps(e, f) /\ SameEpochs(e, f)
          /\ f.overlays = e.overlays /\ f.width = e.width /\ f.height = e.height
          /\ f.cursors = s /\ Cursors(f) = Elements(s)
      BY <2>4, CursorsSet
    <3> QED
      BY <2>4, <3>1
  <2> HIDE DEF f
  <2>6. f.cursors # << >>
    BY <2>5, CursorsAre
  <2>7. CursorMoved(e, f)
    BY <2>3, <2>5 DEF CursorMoved, Due
  <2>8. Within(e, fb) => Within(f, fb)
    BY <2>2, <2>3, <2>5 DEF Within
  <2> QED
    BY <2>1, <2>5, <2>6, <2>7, <2>8
<1> QED
  BY <1>1, <1>2

\* The last cursor replaced.
LEMMA LastCursorSet ==
    ASSUME NEW w, NEW e \in EngineOf(w), e.cursors # << >>, NEW c \in Cursor,
           NEW f, f = [e EXCEPT !.cursors[Len(e.cursors)] = c]
    PROVE  /\ f \in EngineOf(w) /\ Keeps(e, f) /\ SameEpochs(e, f)
           /\ f.overlays = e.overlays /\ f.width = e.width /\ f.height = e.height
           /\ f.cursors # << >> /\ Len(f.cursors) = Len(e.cursors)
           /\ Last(f.cursors) = c /\ Cursors(f) \subseteq Cursors(e) \cup {c}
<1> DEFINE s == [e.cursors EXCEPT ![Len(e.cursors)] = c]
<1>1. /\ e.cursors \in Seq(Cursor) /\ Len(e.cursors) \in 1 .. Len(e.cursors)
      /\ Cursors(e) = Elements(e.cursors)
  BY CursorsAre DEF Cursors
<1>2. /\ s \in Seq(Cursor) /\ Len(s) = Len(e.cursors) /\ s[Len(e.cursors)] = c
      /\ \A i \in 1 .. Len(e.cursors) : s[i] = IF i = Len(e.cursors) THEN c ELSE e.cursors[i]
  BY <1>1, ExceptSeq
<1>3. f = [e EXCEPT !.cursors = s]
  BY DEF EngineOf
<1> HIDE DEF s
<1>4. /\ f \in EngineOf(w) /\ Keeps(e, f) /\ SameEpochs(e, f)
      /\ f.overlays = e.overlays /\ f.width = e.width /\ f.height = e.height
      /\ f.cursors = s /\ Cursors(f) = Elements(s)
  BY <1>2, <1>3, CursorsSet
<1>5. Elements(s) \subseteq Elements(e.cursors) \cup {c}
  BY <1>2 DEF Elements
<1>6. s # << >>
  BY <1>1, <1>2
<1> QED
  BY <1>1, <1>2, <1>4, <1>5, <1>6 DEF Last

LEMMA MoveCursorIs ==
    ASSUME NEW w, NEW e \in EngineOf(w), e.cursors # << >>, NEW col \in Nat
    PROVE  /\ MoveCursor(e, col) \in EngineOf(w)
           /\ CursorMoved(e, MoveCursor(e, col))
           /\ MoveCursor(e, col).cursors # << >>
           /\ \A fb : Within(e, fb) /\ col < fb.cols => Within(MoveCursor(e, col), fb)
<1> DEFINE o == Last(e.cursors)
           c == [o EXCEPT !.col = col, !.expiration = e.sent + 1]
           f == MoveCursor(e, col)
<1>1. o \in Cursor /\ o \in Cursors(e) /\ o = e.cursors[Len(e.cursors)]
  BY CursorsAre
<1>2. e.sent + 1 \in Nat
  BY DEF EngineOf
<1>3. f = [e EXCEPT !.cursors[Len(e.cursors)] = c]
  BY <1>1 DEF MoveCursor
<1> HIDE DEF o, f
<1>4. c \in Cursor /\ c.expiration = e.sent + 1 /\ c.row = o.row /\ c.col = col
  BY <1>1, <1>2 DEF Cursor
<1> HIDE DEF c
<1>5. /\ f \in EngineOf(w) /\ Keeps(e, f) /\ SameEpochs(e, f)
      /\ f.overlays = e.overlays /\ f.width = e.width /\ f.height = e.height
      /\ f.cursors # << >> /\ Cursors(f) \subseteq Cursors(e) \cup {c}
  BY <1>3, <1>4, LastCursorSet
<1>6. CursorMoved(e, f)
  BY <1>4, <1>5 DEF CursorMoved, Due
<1>7. \A fb : Within(e, fb) /\ col < fb.cols => Within(f, fb)
  BY <1>1, <1>4, <1>5 DEF Within
<1> QED
  BY <1>5, <1>6, <1>7 DEF f

\* The engine with other overlays.
LEMMA OverlaysSet ==
    ASSUME NEW w, NEW e \in EngineOf(w), NEW o \in Seq(RowOf(w)),
           NEW f, f = [e EXCEPT !.overlays = o]
    PROVE  /\ f \in EngineOf(w) /\ Keeps(e, f) /\ SameEpochs(e, f)
           /\ f.overlays = o /\ f.width = e.width /\ f.height = e.height
           /\ f.cursors = e.cursors
  BY DEF EngineOf, Keeps, SameEpochs

LEMMA NoCellIs == NoCell \in Cell /\ ~ NoCell.active
<1>1. NoCell \in Cell
  BY DEF NoCell, Cell, Characters
<1>2. ~ NoCell.active
  BY DEF NoCell
<1> QED
  BY <1>1, <1>2

\* get_or_make_row finds cells of the engine's, or makes inactive ones.
LEMMA CellsAtIs ==
    ASSUME NEW w, NEW e \in EngineOf(w), NEW r
    PROVE  /\ CellsAt(e, r, w) \in CellsOf(w)
           /\ ActiveIn(CellsAt(e, r, w), w) \subseteq ActiveCells(e)
<1>1. CASE RowsAt(e, r) = {}
  <2>1. CellsAt(e, r, w) = [j \in 0 .. w - 1 |-> NoCell]
    BY <1>1 DEF CellsAt
  <2> QED
    BY <2>1, NoCellIs DEF CellsOf, ActiveIn
<1>2. CASE RowsAt(e, r) # {}
  <2>1. PICK i : i = (CHOOSE k \in RowsAt(e, r) : TRUE)
    OBVIOUS
  <2>2. i \in 1 .. Len(e.overlays)
    BY <1>2, <2>1 DEF RowsAt
  <2>3. CellsAt(e, r, w) = e.overlays[i].cells
    BY <1>2, <2>1 DEF CellsAt
  <2>4. e.overlays[i].cells \in CellsOf(w)
    BY <2>2, ActiveCellsAre
  <2>5. ActiveIn(e.overlays[i].cells, w) \subseteq ActiveCells(e)
    BY <2>2 DEF ActiveCells, EngineOf
  <2> QED
    BY <2>3, <2>4, <2>5
<1> QED
  BY <1>1, <1>2

LEMMA WithCellsIs ==
    ASSUME NEW w, NEW e \in EngineOf(w), NEW r \in Nat, NEW cells \in CellsOf(w)
    PROVE  LET f == WithCells(e, r, cells)
           IN  /\ f \in EngineOf(w) /\ Keeps(e, f) /\ SameEpochs(e, f)
               /\ f.cursors = e.cursors /\ f.width = e.width /\ f.height = e.height
               /\ ActiveCells(f) \subseteq ActiveCells(e) \cup ActiveIn(cells, w)
<1> DEFINE row == [row |-> r, cells |-> cells]
           f == WithCells(e, r, cells)
<1>1. row \in RowOf(w) /\ row.cells = cells
  BY DEF RowOf
<1> HIDE DEF row
<1>2. e.overlays \in Seq(RowOf(w)) /\ e.width = w
  BY DEF EngineOf
<1>3. PICK o \in Seq(RowOf(w)) :
        /\ f = [e EXCEPT !.overlays = o]
        /\ \A i \in 1 .. Len(o) : o[i] = row \/ \E k \in 1 .. Len(e.overlays) : o[i] = e.overlays[k]
  <2>1. CASE RowsAt(e, r) = {}
    <3>1. f = [e EXCEPT !.overlays = Append(e.overlays, row)]
      BY <2>1 DEF WithCells, row
    <3>2. Append(e.overlays, row) \in Seq(RowOf(w))
      BY <1>1, <1>2
    <3>3. \A i \in 1 .. Len(Append(e.overlays, row)) :
            \/ Append(e.overlays, row)[i] = row
            \/ i \in 1 .. Len(e.overlays) /\ Append(e.overlays, row)[i] = e.overlays[i]
      BY <1>1, <1>2, AppendProperties
    <3> QED
      BY <3>1, <3>2, <3>3
  <2>2. CASE RowsAt(e, r) # {}
    <3>1. PICK k : k = (CHOOSE i \in RowsAt(e, r) : TRUE)
      OBVIOUS
    <3>2. k \in 1 .. Len(e.overlays)
      BY <2>2, <3>1 DEF RowsAt
    <3> DEFINE o == [e.overlays EXCEPT ![k] = row]
    <3>3. f = [e EXCEPT !.overlays[k] = row]
      BY <2>2, <3>1 DEF WithCells, row
    <3>4. f = [e EXCEPT !.overlays = o]
      BY <3>3 DEF EngineOf
    <3>5. /\ o \in Seq(RowOf(w)) /\ Len(o) = Len(e.overlays)
          /\ \A i \in 1 .. Len(e.overlays) : o[i] = IF i = k THEN row ELSE e.overlays[i]
      BY <1>1, <1>2, <3>2, ExceptSeq
    <3> HIDE DEF o
    <3> QED
      BY <3>4, <3>5
  <2> QED
    BY <2>1, <2>2
<1> HIDE DEF f
<1>4. /\ f \in EngineOf(w) /\ Keeps(e, f) /\ SameEpochs(e, f)
      /\ f.overlays = o /\ f.width = e.width /\ f.height = e.height
      /\ f.cursors = e.cursors
  BY <1>3, OverlaysSet
<1>5. ActiveCells(f) \subseteq ActiveCells(e) \cup ActiveIn(cells, w)
  BY <1>1, <1>2, <1>3, <1>4 DEF ActiveCells
<1> QED
  BY <1>4, <1>5 DEF f

-----------------------------------------------------------------------------
(***************************************************************************)
(* cull.                                                                   *)
(***************************************************************************)
LEMMA ValidityIs ==
    ASSUME NEW c \in Cell, NEW fb, NEW r, NEW j, NEW late \in Nat,
           NEW v, v = Validity(c, fb, r, j, late)
    PROVE  /\ v \in {"Inactive", "Pending", "CorrectNoCredit", "Correct", "IncorrectOrExpired"}
           /\ v = "Inactive" <=> ~ c.active
           /\ v = "Pending" => late < c.expiration
           /\ v = "Correct" =>
                c.expiration <= late /\ ~ c.unknown /\ c.replacement # Blank
<1>1. c.expiration \in Nat
  BY DEF Cell
<1>2. CASE ~ c.active
  BY <1>2 DEF Validity
<1>3. CASE c.active /\ (r >= fb.rows \/ j >= fb.cols)
  BY <1>3 DEF Validity
<1>4. CASE c.active /\ ~ (r >= fb.rows \/ j >= fb.cols)
  <2>1. CASE late < c.expiration
    BY <1>1, <1>4, <2>1 DEF Validity
  <2>2. CASE late >= c.expiration /\ (c.unknown \/ c.replacement = Blank)
    BY <1>1, <1>4, <2>2 DEF Validity
  <2>3. CASE late >= c.expiration /\ ~ (c.unknown \/ c.replacement = Blank)
    BY <1>1, <1>4, <2>3 DEF Validity
  <2> QED
    BY <1>1, <2>1, <2>2, <2>3
<1> QED
  BY <1>2, <1>3, <1>4

\* f is e but for the triggers.
Retuned(e, f) ==
    /\ Keeps(e, f) /\ SameEpochs(e, f) /\ SamePredictions(e, f) /\ f.height = e.height

LEMMA RepairedIs ==
    ASSUME NEW w, NEW e \in EngineOf(w), NEW c, NEW t \in Nat
    PROVE  Repaired(e, c, t) \in EngineOf(w) /\ Retuned(e, Repaired(e, c, t))
<1> DEFINE f == [e EXCEPT !.glitch_trigger = e.glitch_trigger - 1, !.quick = t]
<1>1. \/ Repaired(e, c, t) = e
      \/ e.glitch_trigger > 0 /\ Repaired(e, c, t) = f
  BY DEF Repaired
<1>2. e.glitch_trigger > 0 => e.glitch_trigger - 1 \in Nat
  BY DEF EngineOf
<1>3. e.glitch_trigger > 0 => f \in EngineOf(w) /\ Retuned(e, f)
  BY <1>2 DEF EngineOf, Retuned, Keeps, SameEpochs, SamePredictions
<1>4. Retuned(e, e)
  BY DEF Retuned, Keeps, SameEpochs, SamePredictions
<1> QED
  BY <1>1, <1>3, <1>4

LEMMA GlitchedIs ==
    ASSUME NEW w, NEW e \in EngineOf(w), NEW c, NEW t
    PROVE  Glitched(e, c, t) \in EngineOf(w) /\ Retuned(e, Glitched(e, c, t))
<1> DEFINE F(n) == [e EXCEPT !.glitch_trigger = n]
<1>1. GLITCH_REPAIR_COUNT \in Nat /\ e.glitch_trigger \in Nat
  BY PredictAssumption DEF EngineOf
<1>2. \/ Glitched(e, c, t) = F(GLITCH_REPAIR_COUNT * 2)
      \/ Glitched(e, c, t) = F(Later(e.glitch_trigger, GLITCH_REPAIR_COUNT))
      \/ Glitched(e, c, t) = e
  BY DEF Glitched
<1>3. \A n \in Nat : F(n) \in EngineOf(w) /\ Retuned(e, F(n))
  BY DEF EngineOf, Retuned, Keeps, SameEpochs, SamePredictions
<1>4. Retuned(e, e)
  BY DEF Retuned, Keeps, SameEpochs, SamePredictions
<1>5. GLITCH_REPAIR_COUNT * 2 \in Nat /\ Later(e.glitch_trigger, GLITCH_REPAIR_COUNT) \in Nat
  BY <1>1 DEF Later
<1> HIDE DEF F
<1> QED
  BY <1>2, <1>3, <1>4, <1>5

\* One cell given up.
LEMMA ClearedIs ==
    ASSUME NEW w, NEW e \in EngineOf(w),
           NEW i \in 1 .. Len(e.overlays), NEW j \in 0 .. w - 1
    PROVE  /\ Cleared(e, i, j) \in EngineOf(w)
           /\ Keeps(e, Cleared(e, i, j)) /\ SameEpochs(e, Cleared(e, i, j))
           /\ Cleared(e, i, j).cursors = e.cursors /\ Cleared(e, i, j).height = e.height
           /\ Len(Cleared(e, i, j).overlays) = Len(e.overlays)
           /\ ~ Cleared(e, i, j).overlays[i].cells[j].active
           /\ \A k \in 1 .. Len(e.overlays) :
                Cleared(e, i, j).overlays[k].row = e.overlays[k].row
           /\ \A k \in 1 .. Len(e.overlays), m \in 0 .. w - 1 :
                \/ k = i /\ m = j
                \/ Cleared(e, i, j).overlays[k].cells[m] = e.overlays[k].cells[m]
<1> DEFINE f == Cleared(e, i, j)
<1>1. /\ e.overlays \in Seq(RowOf(w)) /\ e.overlays[i] \in RowOf(w)
      /\ e.overlays[i].cells \in CellsOf(w)
  BY ActiveCellsAre DEF EngineOf
<1> DEFINE cells == [e.overlays[i].cells EXCEPT ![j] = NoCell]
           row == [e.overlays[i] EXCEPT !.cells = cells]
           o == [e.overlays EXCEPT ![i] = row]
<1>2. /\ cells \in CellsOf(w) /\ cells[j] = NoCell
      /\ \A m \in 0 .. w - 1 : m = j \/ cells[m] = e.overlays[i].cells[m]
  BY <1>1, NoCellIs DEF CellsOf
<1>3. row \in RowOf(w) /\ row.cells = cells /\ row.row = e.overlays[i].row
  <2> HIDE DEF cells
  <2> QED
    BY <1>1, <1>2 DEF RowOf
<1>4. /\ o \in Seq(RowOf(w)) /\ Len(o) = Len(e.overlays)
      /\ \A k \in 1 .. Len(e.overlays) : o[k] = IF k = i THEN row ELSE e.overlays[k]
  <2> HIDE DEF row
  <2> QED
    BY <1>1, <1>3, ExceptSeq
<1>5. f = [e EXCEPT !.overlays = o]
  BY DEF EngineOf, Cleared
<1> HIDE DEF cells, row, o, f
<1>6. /\ f \in EngineOf(w) /\ Keeps(e, f) /\ SameEpochs(e, f)
      /\ f.overlays = o /\ f.height = e.height /\ f.cursors = e.cursors
  <2>1. e \in EngineOf(w)
    OBVIOUS
  <2> QED
    BY ONLY <2>1, <1>4, <1>5, OverlaysSet
<1>7. /\ f \in EngineOf(w) /\ Keeps(e, f) /\ SameEpochs(e, f)
      /\ f.cursors = e.cursors /\ f.height = e.height
      /\ Len(f.overlays) = Len(e.overlays)
      /\ ~ f.overlays[i].cells[j].active
      /\ \A k \in 1 .. Len(e.overlays) : f.overlays[k].row = e.overlays[k].row
      /\ \A k \in 1 .. Len(e.overlays), m \in 0 .. w - 1 :
           (k = i /\ m = j) \/ f.overlays[k].cells[m] = e.overlays[k].cells[m]
  BY <1>2, <1>3, <1>4, <1>6, NoCellIs
<1> QED
  BY <1>7 DEF f

\* What cull has made of e after some cells.
Verdict(w) == [e : EngineOf(w), kills : Seq(Nat), reset : BOOLEAN]

\* The predictions of e that the screen fb bears out.
Proven(e, fb) ==
    {c \in ActiveCells(e) :
        \E i \in 1 .. Len(e.overlays), j \in 0 .. e.width - 1 :
            /\ c = e.overlays[i].cells[j]
            /\ Validity(c, fb, e.overlays[i].row, j, e.late_acked) = "Correct"}

\* Cells are given up and epochs confirmed; nothing else happens to e.
Judged(e, s, w, fb) ==
    /\ s \in Verdict(w)
    /\ Keeps(e, s.e) /\ s.e.cursors = e.cursors /\ s.e.height = e.height
    /\ s.e.prediction_epoch = e.prediction_epoch
    /\ Len(s.e.overlays) = Len(e.overlays)
    /\ \A k \in 1 .. Len(e.overlays) : s.e.overlays[k].row = e.overlays[k].row
    /\ \A k \in 1 .. Len(e.overlays), m \in 0 .. w - 1 :
          \/ s.e.overlays[k].cells[m] = e.overlays[k].cells[m]
          \/ ~ s.e.overlays[k].cells[m].active
    /\ \/ s.e.confirmed_epoch = e.confirmed_epoch
       \/ \E c \in Proven(e, fb) : s.e.confirmed_epoch = c.epoch
    /\ s.kills # << >> => ActiveCells(e) # {}

\* A cell that is left is not due yet, or its epoch is to be killed.
Settled(s, k, m) ==
    ~ s.reset /\ s.e.overlays[k].cells[m].active =>
        \/ s.e.overlays[k].cells[m].expiration > s.e.late_acked
        \/ \E x \in Elements(s.kills) : x <= s.e.overlays[k].cells[m].epoch

\* The cells before column n of row i, and those of the rows before it.
Covered(s, w, i, n) ==
    \A k \in 1 .. Len(s.e.overlays), m \in 0 .. w - 1 :
        k < i \/ (k = i /\ m < n) => Settled(s, k, m)

\* f has the rows of d, in which at most cell j of row i was given up.
Spares(d, f, n, w, i, j) ==
    /\ \A k \in 1 .. n : f.overlays[k].row = d.overlays[k].row
    /\ \A k \in 1 .. n, m \in 0 .. w - 1 :
          \/ k = i /\ m = j /\ ~ f.overlays[k].cells[m].active
          \/ f.overlays[k].cells[m] = d.overlays[k].cells[m]

\* A verdict with another engine.
LEMMA JudgedAnew ==
    ASSUME NEW w \in Nat, NEW e \in EngineOf(w), NEW fb, NEW s, Judged(e, s, w, fb),
           NEW i \in 1 .. Len(e.overlays), NEW j \in 0 .. w - 1, Covered(s, w, i, j),
           NEW f \in EngineOf(w), Keeps(s.e, f), f.cursors = s.e.cursors,
           f.height = s.e.height, f.prediction_epoch = s.e.prediction_epoch,
           Len(f.overlays) = Len(s.e.overlays), Spares(s.e, f, Len(e.overlays), w, i, j),
           \/ f.confirmed_epoch = s.e.confirmed_epoch
           \/ \E c \in Proven(e, fb) : f.confirmed_epoch = c.epoch,
           f.overlays[i].cells[j].active => f.overlays[i].cells[j].expiration > f.late_acked
    PROVE  Judged(e, [s EXCEPT !.e = f], w, fb) /\ Covered([s EXCEPT !.e = f], w, i, j + 1)
<1> DEFINE u == [s EXCEPT !.e = f]
<1>1. s \in Verdict(w)
  BY DEF Judged
<1>2. u \in Verdict(w) /\ u.e = f /\ u.kills = s.kills /\ u.reset = s.reset
  BY <1>1 DEF Verdict
<1> HIDE DEF u
<1>3. Keeps(e, f) /\ f.late_acked = s.e.late_acked
  BY DEF Judged, Keeps
<1>4. Judged(e, u, w, fb)
  <2>1. \A k \in 1 .. Len(e.overlays) : f.overlays[k].row = e.overlays[k].row
    BY DEF Judged, Spares
  <2>2. \A k \in 1 .. Len(e.overlays), m \in 0 .. w - 1 :
          \/ f.overlays[k].cells[m] = e.overlays[k].cells[m]
          \/ ~ f.overlays[k].cells[m].active
    BY DEF Judged, Spares
  <2>3. \/ f.confirmed_epoch = e.confirmed_epoch
        \/ \E c \in Proven(e, fb) : f.confirmed_epoch = c.epoch
    BY DEF Judged
  <2>4. /\ f.cursors = e.cursors /\ f.height = e.height
        /\ f.prediction_epoch = e.prediction_epoch /\ Len(f.overlays) = Len(e.overlays)
        /\ s.kills # << >> => ActiveCells(e) # {}
    BY DEF Judged
  <2> QED
    BY <1>2, <1>3, <2>1, <2>2, <2>3, <2>4, Zenon DEF Judged
<1>5. Covered(u, w, i, j + 1)
  <2> SUFFICES ASSUME NEW k \in 1 .. Len(e.overlays), NEW m \in 0 .. w - 1,
                      k < i \/ (k = i /\ m < j + 1)
               PROVE  Settled(u, k, m)
    BY <1>4 DEF Covered, Judged
  <2>1. CASE k = i /\ m = j
    BY <1>2, <2>1 DEF Settled
  <2>2. CASE ~ (k = i /\ m = j)
    <3>1. k < i \/ (k = i /\ m < j)
      BY <2>2
    <3>2. Settled(s, k, m)
      BY <3>1 DEF Covered, Judged
    <3>3. u.e.overlays[k].cells[m] = s.e.overlays[k].cells[m]
      BY <1>2, <2>2 DEF Spares
    <3> QED
      BY <1>2, <1>3, <3>2, <3>3 DEF Settled
  <2> QED
    BY <2>1, <2>2
<1> QED
  BY <1>4, <1>5 DEF u

\* One cell judged.
LEMMA JudgeStep ==
    ASSUME NEW w \in Nat, NEW e \in EngineOf(w), NEW fb, NEW t \in Nat,
           NEW s, Judged(e, s, w, fb), ~ s.reset,
           NEW i \in 1 .. Len(e.overlays), NEW j \in 0 .. w - 1, Covered(s, w, i, j)
    PROVE  /\ Judged(e, Judge(s, i, j, fb, t), w, fb)
           /\ Covered(Judge(s, i, j, fb, t), w, i, j + 1)
<1> DEFINE c == s.e.overlays[i].cells[j]
           r == s.e.overlays[i].row
           v == Validity(c, fb, r, j, s.e.late_acked)
           u == Judge(s, i, j, fb, t)
           Good(x) == Judged(e, x, w, fb) /\ Covered(x, w, i, j + 1)
<1>1. /\ s.e \in EngineOf(w) /\ s.kills \in Seq(Nat) /\ s \in Verdict(w)
      /\ Len(s.e.overlays) = Len(e.overlays)
      /\ s.e.late_acked = e.late_acked /\ e.late_acked \in Nat
  BY DEF Judged, Verdict, Keeps, EngineOf
<1>2. c \in Cell
  <2>1. s.e.overlays[i].cells \in CellsOf(w)
    BY <1>1, ActiveCellsAre
  <2> QED
    BY <2>1 DEF CellsOf
<1>3. /\ v \in {"Inactive", "Pending", "CorrectNoCredit", "Correct", "IncorrectOrExpired"}
      /\ v = "Inactive" <=> ~ c.active
      /\ v = "Pending" => s.e.late_acked < c.expiration
  BY <1>1, <1>2, ValidityIs
<1>4. u = CASE v = "Inactive" -> s
            [] v = "Pending" -> [s EXCEPT !.e = Glitched(s.e, c, t)]
            [] v = "CorrectNoCredit" ->
                  [s EXCEPT !.e = Cleared(s.e, i, j)]
            [] v = "Correct" ->
                  [s EXCEPT !.e = Cleared(Repaired([s.e EXCEPT !.confirmed_epoch
                                      = Later(s.e.confirmed_epoch, c.epoch)], c, t), i, j)]
            [] v = "IncorrectOrExpired" ->
                  IF Experimental(s.e)
                  THEN [s EXCEPT !.e = Cleared(s.e, i, j)]
                  ELSE IF Tentative(c, s.e.confirmed_epoch)
                  THEN [s EXCEPT !.kills = Append(s.kills, c.epoch)]
                  ELSE [s EXCEPT !.reset = TRUE]
  BY DEF Judge
<1>5. c.active => /\ c = e.overlays[i].cells[j] /\ r = e.overlays[i].row
                  /\ c \in ActiveCells(e)
  <2>1. c.active => c = e.overlays[i].cells[j] /\ r = e.overlays[i].row
    BY DEF Judged
  <2> QED
    BY <2>1, ActiveCellsAre
<1> HIDE DEF c, r, v, u
<1>6. ASSUME NEW g \in EngineOf(w), Retuned(s.e, g) \/ (/\ Keeps(s.e, g) /\ SamePredictions(s.e, g)
                      /\ g.height = s.e.height /\ g.prediction_epoch = s.e.prediction_epoch
                      /\ \E d \in Proven(e, fb) : g.confirmed_epoch = d.epoch)
      PROVE  Good([s EXCEPT !.e = Cleared(g, i, j)])
  <2>1. /\ Keeps(s.e, g) /\ SamePredictions(s.e, g)
        /\ g.height = s.e.height /\ g.prediction_epoch = s.e.prediction_epoch
        /\ \/ g.confirmed_epoch = s.e.confirmed_epoch
           \/ \E d \in Proven(e, fb) : g.confirmed_epoch = d.epoch
    BY <1>6 DEF Retuned, SameEpochs
  <2>2. PICK f : f = Cleared(g, i, j)
    OBVIOUS
  <2>3. g.overlays = s.e.overlays /\ i \in 1 .. Len(g.overlays)
    BY <1>1, <2>1 DEF SamePredictions
  <2>4. /\ f \in EngineOf(w) /\ Keeps(g, f) /\ SameEpochs(g, f)
        /\ f.cursors = g.cursors /\ f.height = g.height
        /\ Len(f.overlays) = Len(g.overlays)
        /\ ~ f.overlays[i].cells[j].active
        /\ \A k \in 1 .. Len(g.overlays) : f.overlays[k].row = g.overlays[k].row
        /\ \A k \in 1 .. Len(g.overlays), m \in 0 .. w - 1 :
             (k = i /\ m = j) \/ f.overlays[k].cells[m] = g.overlays[k].cells[m]
    <3>1. g \in EngineOf(w) /\ i \in 1 .. Len(g.overlays) /\ j \in 0 .. w - 1
      BY <2>3
    <3> QED
      BY ONLY <2>2, <3>1, ClearedIs, SMTT(30)
  <2>5. Keeps(s.e, f)
    BY <2>1, <2>4 DEF Keeps
  <2>6. /\ f.cursors = s.e.cursors /\ f.height = s.e.height
        /\ f.prediction_epoch = s.e.prediction_epoch /\ Len(f.overlays) = Len(s.e.overlays)
        /\ \/ f.confirmed_epoch = s.e.confirmed_epoch
           \/ \E d \in Proven(e, fb) : f.confirmed_epoch = d.epoch
    BY <2>1, <2>3, <2>4 DEF SameEpochs, SamePredictions
  <2>7. \A k \in 1 .. Len(e.overlays) : f.overlays[k].row = s.e.overlays[k].row
    BY <1>1, <2>3, <2>4
  <2>8. \A k \in 1 .. Len(e.overlays), m \in 0 .. w - 1 :
            \/ k = i /\ m = j /\ ~ f.overlays[k].cells[m].active
            \/ f.overlays[k].cells[m] = s.e.overlays[k].cells[m]
    BY <1>1, <2>3, <2>4
  <2>9. Spares(s.e, f, Len(e.overlays), w, i, j)
    BY <2>7, <2>8 DEF Spares
  <2>10. Good([s EXCEPT !.e = f])
    BY <2>4, <2>5, <2>6, <2>9, JudgedAnew
  <2> QED
    BY <2>2, <2>10
<1>7. CASE v = "Inactive"
  <2>1. u = s /\ ~ c.active
    BY <1>3, <1>4, <1>7
  <2>2. Settled(s, i, j)
    BY <2>1 DEF Settled, c
  <2>3. Covered(s, w, i, j + 1)
    <3> SUFFICES ASSUME NEW k \in 1 .. Len(s.e.overlays), NEW m \in 0 .. w - 1,
                        k < i \/ (k = i /\ m < j + 1)
                 PROVE  Settled(s, k, m)
      BY DEF Covered
    <3>1. k < i \/ (k = i /\ m < j) \/ (k = i /\ m = j)
      OBVIOUS
    <3> QED
      BY <2>2, <3>1 DEF Covered
  <2> QED
    BY <2>1, <2>3 DEF u
<1>8. CASE v = "Pending"
  <2>1. u = [s EXCEPT !.e = Glitched(s.e, c, t)]
    BY <1>4, <1>8
  <2>2. PICK f : f = Glitched(s.e, c, t)
    OBVIOUS
  <2>3. f \in EngineOf(w) /\ Retuned(s.e, f)
    BY <1>1, <2>2, GlitchedIs
  <2>4. /\ Keeps(s.e, f) /\ f.cursors = s.e.cursors /\ f.height = s.e.height
        /\ f.prediction_epoch = s.e.prediction_epoch /\ f.overlays = s.e.overlays
        /\ f.confirmed_epoch = s.e.confirmed_epoch /\ f.late_acked = s.e.late_acked
    BY <2>3 DEF Retuned, SameEpochs, SamePredictions, Keeps
  <2>5. f.overlays[i].cells[j].expiration > f.late_acked
    BY <1>1, <1>2, <1>3, <1>8, <2>4 DEF c, Cell
  <2>6. Spares(s.e, f, Len(e.overlays), w, i, j)
    BY <2>4 DEF Spares
  <2>7. Good([s EXCEPT !.e = f])
    BY <2>3, <2>4, <2>5, <2>6, JudgedAnew
  <2> QED
    BY <2>1, <2>2, <2>7 DEF u
<1>9. CASE v = "CorrectNoCredit" \/ (v = "IncorrectOrExpired" /\ Experimental(s.e))
  <2>1. u = [s EXCEPT !.e = Cleared(s.e, i, j)]
    BY <1>4, <1>9
  <2>2. Retuned(s.e, s.e)
    BY DEF Retuned, Keeps, SameEpochs, SamePredictions
  <2>3. Good([s EXCEPT !.e = Cleared(s.e, i, j)])
    BY <1>1, <1>6, <2>2
  <2> QED
    BY <2>1, <2>3 DEF u
<1>10. CASE v = "Correct"
  <2> DEFINE n == Later(s.e.confirmed_epoch, c.epoch)
             x == [s.e EXCEPT !.confirmed_epoch = n]
             g == Repaired(x, c, t)
  <2>1. u = [s EXCEPT !.e = Cleared(g, i, j)]
    BY <1>4, <1>10
  <2>2. n \in Nat /\ (n = s.e.confirmed_epoch \/ n = c.epoch)
    BY <1>1, <1>2 DEF Later, Cell, EngineOf
  <2> HIDE DEF n
  <2>3. /\ x \in EngineOf(w) /\ Keeps(s.e, x) /\ SamePredictions(s.e, x)
        /\ x.height = s.e.height /\ x.prediction_epoch = s.e.prediction_epoch
        /\ x.confirmed_epoch = n
    BY <1>1, <2>2 DEF EngineOf, Keeps, SamePredictions
  <2> HIDE DEF x
  <2>4. g \in EngineOf(w) /\ Retuned(x, g)
    BY <2>3, RepairedIs
  <2> HIDE DEF g
  <2>5. c \in Proven(e, fb)
    <3>1. c.active
      BY <1>3, <1>10
    <3>2. /\ c = e.overlays[i].cells[j] /\ r = e.overlays[i].row /\ c \in ActiveCells(e)
      BY <1>5, <3>1
    <3>3. Validity(c, fb, e.overlays[i].row, j, e.late_acked) = "Correct"
      BY <1>1, <1>10, <3>2 DEF v
    <3>4. j \in 0 .. e.width - 1
      BY DEF EngineOf
    <3> QED
      BY <3>2, <3>3, <3>4 DEF Proven
  <2>6. \/ Retuned(s.e, g)
        \/ /\ Keeps(s.e, g) /\ SamePredictions(s.e, g)
           /\ g.height = s.e.height /\ g.prediction_epoch = s.e.prediction_epoch
           /\ \E d \in Proven(e, fb) : g.confirmed_epoch = d.epoch
    BY <2>2, <2>3, <2>4, <2>5 DEF Retuned, Keeps, SamePredictions, SameEpochs
  <2>7. Good([s EXCEPT !.e = Cleared(g, i, j)])
    BY <1>6, <2>4, <2>6
  <2> QED
    BY <2>1, <2>7 DEF u
<1>11. CASE v = "IncorrectOrExpired" /\ ~ Experimental(s.e) /\ Tentative(c, s.e.confirmed_epoch)
  <2> DEFINE z == [s EXCEPT !.kills = Append(s.kills, c.epoch)]
  <2>1. u = z
    BY <1>4, <1>11
  <2>2. c.epoch \in Nat
    BY <1>2 DEF Cell
  <2>3. Append(s.kills, c.epoch) \in Seq(Nat)
        /\ Elements(Append(s.kills, c.epoch)) = Elements(s.kills) \cup {c.epoch}
    BY <1>1, <2>2, ElementsOfAppend, SMTT(30)
  <2>4. /\ z \in Verdict(w) /\ z.e = s.e /\ z.reset = s.reset
        /\ Elements(z.kills) = Elements(s.kills) \cup {c.epoch}
    BY <1>1, <2>3 DEF Verdict
  <2> HIDE DEF z
  <2>5. ActiveCells(e) # {}
    BY <1>3, <1>5, <1>11
  <2>6. Judged(e, z, w, fb)
    BY <2>4, <2>5 DEF Judged
  <2>7. Covered(z, w, i, j + 1)
    <3> SUFFICES ASSUME NEW k \in 1 .. Len(s.e.overlays), NEW m \in 0 .. w - 1,
                        k < i \/ (k = i /\ m < j + 1)
                 PROVE  Settled(z, k, m)
      BY <2>4 DEF Covered
    <3>1. CASE k = i /\ m = j
      <4>1. c.epoch <= c.epoch /\ c.epoch \in Elements(z.kills)
        BY <2>2, <2>4
      <4> QED
        BY <2>4, <3>1, <4>1 DEF Settled, c
    <3>2. CASE ~ (k = i /\ m = j)
      <4>1. Settled(s, k, m)
        BY <3>2 DEF Covered
      <4> QED
        BY <2>4, <4>1 DEF Settled
    <3> QED
      BY <3>1, <3>2
  <2> QED
    BY <2>1, <2>6, <2>7 DEF u
<1>12. CASE v = "IncorrectOrExpired" /\ ~ Experimental(s.e) /\ ~ Tentative(c, s.e.confirmed_epoch)
  <2> DEFINE z == [s EXCEPT !.reset = TRUE]
  <2>1. u = z
    BY <1>4, <1>12
  <2>2. z \in Verdict(w) /\ z.e = s.e /\ z.reset /\ z.kills = s.kills
    BY <1>1 DEF Verdict
  <2> HIDE DEF z
  <2>3. Judged(e, z, w, fb)
    BY <2>2 DEF Judged
  <2>4. Covered(z, w, i, j + 1)
    BY <2>2 DEF Covered, Settled
  <2> QED
    BY <2>1, <2>3, <2>4 DEF u
<1> QED
  BY <1>3, <1>7, <1>8, <1>9, <1>10, <1>11, <1>12

IsRowRun(h, s, i, fb, t, n) ==
    h = [k \in 0 .. n |->
            IF k = 0 THEN s
            ELSE IF h[k - 1].reset THEN h[k - 1]
            ELSE Judge(h[k - 1], i, k - 1, fb, t)]

LEMMA RowRunExists ==
    ASSUME NEW s, NEW i, NEW fb, NEW t, NEW n \in Nat
    PROVE  \E h : IsRowRun(h, s, i, fb, t, n)
<1> DEFINE T == {k \in 0 .. n : \E h : IsRowRun(h, s, i, fb, t, k)}
<1>1. 0 \in T
  <2>1. IsRowRun([k \in 0 .. 0 |-> s], s, i, fb, t, 0)
    BY DEF IsRowRun
  <2> QED
    BY <2>1
<1>2. ASSUME NEW m \in 1 .. n, m - 1 \in T PROVE m \in T
  <2>1. PICK h : IsRowRun(h, s, i, fb, t, m - 1)
    BY <1>2
  <2> DEFINE g == [k \in 0 .. m |->
                     IF k < m THEN h[k]
                     ELSE IF h[k - 1].reset THEN h[k - 1]
                     ELSE Judge(h[k - 1], i, k - 1, fb, t)]
  <2>2. \A k \in 0 .. m - 1 : h[k] = IF k = 0 THEN s
            ELSE IF h[k - 1].reset THEN h[k - 1]
            ELSE Judge(h[k - 1], i, k - 1, fb, t)
    BY <2>1 DEF IsRowRun
  <2>3. \A k \in 0 .. m : g[k] = IF k = 0 THEN s
            ELSE IF g[k - 1].reset THEN g[k - 1]
            ELSE Judge(g[k - 1], i, k - 1, fb, t)
    BY <2>2
  <2>4. IsRowRun(g, s, i, fb, t, m)
    BY <2>3 DEF IsRowRun
  <2> QED
    BY <2>4
<1> HIDE DEF T
<1>3. n \in T
  BY <1>1, <1>2, UpTo
<1> QED
  BY <1>3 DEF T

LEMMA JudgeRowIs ==
    ASSUME NEW w \in Nat, NEW e \in EngineOf(w), NEW fb, NEW t \in Nat,
           NEW s, Judged(e, s, w, fb),
           NEW i \in 1 .. Len(e.overlays), Covered(s, w, i, 0)
    PROVE  /\ Judged(e, JudgeRow(s, i, fb, t), w, fb)
           /\ Covered(JudgeRow(s, i, fb, t), w, i + 1, 0)
<1> DEFINE h == CHOOSE h : IsRowRun(h, s, i, fb, t, w)
<1>1. IsRowRun(h, s, i, fb, t, w)
  BY RowRunExists
<1>2. s.e.width = w
  BY DEF Judged, Verdict, EngineOf
<1>3. JudgeRow(s, i, fb, t) = h[w]
  BY <1>2 DEF JudgeRow, IsRowRun
<1> HIDE DEF h
<1>4. /\ h[0] = s
      /\ \A k \in 1 .. w : h[k] = IF h[k - 1].reset THEN h[k - 1]
                                  ELSE Judge(h[k - 1], i, k - 1, fb, t)
  <2>1. \A k \in 0 .. w : h[k] = IF k = 0 THEN s
            ELSE IF h[k - 1].reset THEN h[k - 1]
            ELSE Judge(h[k - 1], i, k - 1, fb, t)
    BY <1>1, Zenon DEF IsRowRun
  <2>2. 0 \in 0 .. w /\ \A k \in 1 .. w : k \in 0 .. w /\ k # 0
    OBVIOUS
  <2> QED
    BY <2>1, <2>2, Zenon
<1> DEFINE T == {k \in 0 .. w : Judged(e, h[k], w, fb) /\ Covered(h[k], w, i, k)}
<1>5. 0 \in T
  BY <1>4
<1>6. ASSUME NEW k \in 1 .. w, k - 1 \in T PROVE k \in T
  <2>1. Judged(e, h[k - 1], w, fb) /\ Covered(h[k - 1], w, i, k - 1)
    BY <1>6
  <2>2. CASE h[k - 1].reset
    <3>1. h[k] = h[k - 1]
      BY <1>4, <2>2
    <3>2. Covered(h[k], w, i, k)
      BY <2>2, <3>1 DEF Covered, Settled
    <3> QED
      BY <2>1, <3>1, <3>2
  <2>3. CASE ~ h[k - 1].reset
    <3>1. h[k] = Judge(h[k - 1], i, k - 1, fb, t)
      BY <1>4, <2>3
    <3>2. k - 1 \in 0 .. w - 1 /\ (k - 1) + 1 = k
      OBVIOUS
    <3>3. Judged(e, h[k], w, fb) /\ Covered(h[k], w, i, (k - 1) + 1)
      BY <2>1, <2>3, <3>1, <3>2, JudgeStep
    <3> QED
      BY <3>2, <3>3
  <2> QED
    BY <2>2, <2>3
<1>7. w \in T
  <2>1. \A k \in 0 .. w : k \in T
    <3> HIDE DEF T
    <3> QED
      BY <1>5, <1>6, UpTo
  <2> QED
    BY <2>1
<1>8. Judged(e, h[w], w, fb) /\ Covered(h[w], w, i, w)
  BY <1>7
<1>9. Covered(h[w], w, i + 1, 0)
  <2> SUFFICES ASSUME NEW k \in 1 .. Len(h[w].e.overlays), NEW m \in 0 .. w - 1,
                      k < i + 1
               PROVE  Settled(h[w], k, m)
    BY DEF Covered
  <2>1. k < i \/ (k = i /\ m < w)
    OBVIOUS
  <2> QED
    BY <1>8, <2>1 DEF Covered
<1> QED
  BY <1>3, <1>8, <1>9

IsRowsRun(h, e, fb, t, n) ==
    h = [i \in 0 .. n |->
            IF i = 0 THEN [e |-> e, kills |-> << >>, reset |-> FALSE]
            ELSE JudgeRow(h[i - 1], i, fb, t)]

LEMMA RowsRunExists ==
    ASSUME NEW e, NEW fb, NEW t, NEW n \in Nat
    PROVE  \E h : IsRowsRun(h, e, fb, t, n)
<1> DEFINE T == {k \in 0 .. n : \E h : IsRowsRun(h, e, fb, t, k)}
           s == [e |-> e, kills |-> << >>, reset |-> FALSE]
<1>1. 0 \in T
  <2>1. IsRowsRun([k \in 0 .. 0 |-> s], e, fb, t, 0)
    BY DEF IsRowsRun
  <2> QED
    BY <2>1
<1>2. ASSUME NEW m \in 1 .. n, m - 1 \in T PROVE m \in T
  <2>1. PICK h : IsRowsRun(h, e, fb, t, m - 1)
    BY <1>2
  <2> DEFINE g == [k \in 0 .. m |->
                     IF k < m THEN h[k] ELSE JudgeRow(h[k - 1], k, fb, t)]
  <2>2. \A k \in 0 .. m - 1 : h[k] = IF k = 0 THEN s ELSE JudgeRow(h[k - 1], k, fb, t)
    BY <2>1 DEF IsRowsRun
  <2> HIDE DEF s
  <2>3. \A k \in 0 .. m : g[k] = IF k = 0 THEN s ELSE JudgeRow(g[k - 1], k, fb, t)
    BY <2>2
  <2>4. IsRowsRun(g, e, fb, t, m)
    BY <2>3 DEF IsRowsRun, s
  <2> QED
    BY <2>4
<1> HIDE DEF T
<1>3. n \in T
  BY <1>1, <1>2, UpTo
<1> QED
  BY <1>3 DEF T

LEMMA JudgeAllIs ==
    ASSUME NEW w \in Nat, NEW e \in EngineOf(w), NEW fb, NEW t \in Nat
    PROVE  /\ Judged(e, JudgeAll(e, fb, t), w, fb)
           /\ \A k \in 1 .. Len(e.overlays), m \in 0 .. w - 1 :
                Settled(JudgeAll(e, fb, t), k, m)
<1>1. PICK n \in Nat : n = Len(e.overlays)
  BY DEF EngineOf
<1> DEFINE h == CHOOSE h : IsRowsRun(h, e, fb, t, n)
           s == [e |-> e, kills |-> << >>, reset |-> FALSE]
<1>2. IsRowsRun(h, e, fb, t, n)
  BY <1>1, RowsRunExists
<1>3. JudgeAll(e, fb, t) = h[n]
  BY <1>1 DEF JudgeAll, IsRowsRun
<1> HIDE DEF h
<1>4. h[0] = s /\ \A k \in 1 .. n : h[k] = JudgeRow(h[k - 1], k, fb, t)
  <2>1. \A k \in 0 .. n : h[k] = IF k = 0 THEN s ELSE JudgeRow(h[k - 1], k, fb, t)
    BY <1>2, Zenon DEF IsRowsRun
  <2>2. 0 \in 0 .. n /\ \A k \in 1 .. n : k \in 0 .. n /\ k # 0
    BY <1>1
  <2> HIDE DEF s
  <2> QED
    BY <2>1, <2>2, Zenon
<1>5. Judged(e, s, w, fb)
  <2>1. s \in Verdict(w) /\ s.e = e /\ s.kills = << >>
    BY DEF Verdict
  <2> HIDE DEF s
  <2> QED
    BY <2>1 DEF Judged, Keeps
<1>6. Covered(s, w, 1, 0)
  BY DEF Covered
<1> HIDE DEF s
<1> DEFINE T == {k \in 0 .. n : Judged(e, h[k], w, fb) /\ Covered(h[k], w, k + 1, 0)}
<1>7. 0 \in T
  BY <1>1, <1>4, <1>5, <1>6
<1>8. ASSUME NEW k \in 1 .. n, k - 1 \in T PROVE k \in T
  <2>1. Judged(e, h[k - 1], w, fb) /\ Covered(h[k - 1], w, k, 0)
    BY <1>8
  <2>2. h[k] = JudgeRow(h[k - 1], k, fb, t)
    BY <1>4
  <2>3. k \in 1 .. Len(e.overlays)
    BY <1>1
  <2>4. Judged(e, h[k], w, fb) /\ Covered(h[k], w, k + 1, 0)
    BY <2>1, <2>2, <2>3, JudgeRowIs
  <2> QED
    BY <2>4
<1>9. n \in T
  <2>1. \A k \in 0 .. n : k \in T
    <3> HIDE DEF T
    <3> QED
      BY <1>1, <1>7, <1>8, UpTo
  <2>2. n \in 0 .. n
    BY <1>1
  <2> QED
    BY <2>1, <2>2
<1>10. Judged(e, h[n], w, fb) /\ Covered(h[n], w, n + 1, 0)
  BY <1>9
<1>11. \A k \in 1 .. Len(e.overlays), m \in 0 .. w - 1 : Settled(h[n], k, m)
  <2>1. Len(h[n].e.overlays) = n
    BY <1>1, <1>10 DEF Judged
  <2>2. \A k \in 1 .. n : k < n + 1
    BY <1>1
  <2> QED
    BY <1>1, <1>10, <2>1, <2>2, Zenon DEF Covered
<1> QED
  BY <1>3, <1>10, <1>11

\* The cells of an epoch before x.
Before(C, x) == {c \in C : c.epoch < x}

LEMMA KillRowIs ==
    ASSUME NEW w, NEW row \in RowOf(w), NEW x \in Nat
    PROVE  /\ KillRow(row, x) \in RowOf(w)
           /\ ActiveIn(KillRow(row, x).cells, w) \subseteq Before(ActiveIn(row.cells, w), x)
<1>1. row.cells \in CellsOf(w) /\ row.row \in Nat
  BY DEF RowOf
<1>2. Columns(row) = 0 .. w - 1
  BY <1>1 DEF Columns, CellsOf
<1> DEFINE cells == [j \in 0 .. w - 1 |->
                       IF Tentative(row.cells[j], x - 1) THEN NoCell ELSE row.cells[j]]
<1>3. KillRow(row, x) = [row |-> row.row, cells |-> cells]
  BY <1>2 DEF KillRow
<1>4. \A j \in 0 .. w - 1 : row.cells[j] \in Cell /\ row.cells[j].epoch \in Nat
  BY <1>1 DEF CellsOf, Cell
<1>5. cells \in CellsOf(w)
  BY <1>4, NoCellIs DEF CellsOf
<1>6. \A j \in 0 .. w - 1 : cells[j].active => cells[j] = row.cells[j] /\ row.cells[j].epoch < x
  BY <1>4, NoCellIs DEF Tentative
<1> HIDE DEF cells
<1>7. ActiveIn(cells, w) \subseteq Before(ActiveIn(row.cells, w), x)
  BY <1>6 DEF ActiveIn, Before
<1> QED
  BY <1>1, <1>3, <1>5, <1>7 DEF RowOf

\* What every part of cull does: predictions are given up, epochs go on.
Culled(e, f, w) ==
    /\ f \in EngineOf(w) /\ Keeps(e, f)
    /\ f.prediction_epoch >= e.prediction_epoch
    /\ ActiveCells(f) \subseteq ActiveCells(e)
    /\ Due(f) \subseteq Due(e) \cup {e.sent + 1}

LEMMA KillEpochIs ==
    ASSUME NEW w, NEW e \in EngineOf(w), NEW x \in Nat, NEW h \in Nat, NEW v \in Nat,
           NEW fb \in ScreenOf(h, v)
    PROVE  /\ Culled(e, KillEpoch(e, x, fb), w)
           /\ ActiveCells(KillEpoch(e, x, fb)) \subseteq Before(ActiveCells(e), x)
           /\ KillEpoch(e, x, fb).confirmed_epoch = e.confirmed_epoch
<1> DEFINE I == {i \in 1 .. Len(e.cursors) : ~ Tentative(e.cursors[i], x - 1)}
           stay == Retain(e.cursors, I)
           n == CursorAt(e, fb.row, fb.col)
           s == Append(stay, n)
           o == [i \in 1 .. Len(e.overlays) |-> KillRow(e.overlays[i], x)]
           f == [e EXCEPT !.cursors = s, !.overlays = o]
<1>1. KillEpoch(e, x, fb) = BecomeTentative(f)
  BY DEF KillEpoch
<1>2. e.cursors \in Seq(Cursor) /\ e.overlays \in Seq(RowOf(w)) /\ e.width = w
      /\ e.prediction_epoch \in Nat /\ e.sent \in Nat
  BY DEF EngineOf
<1>3. stay \in Seq(Cursor) /\ Elements(stay) \subseteq Cursors(e)
  <2> HIDE DEF I
  <2>1. stay \in Seq(Cursor) /\ Elements(stay) = {e.cursors[i] : i \in I \cap (1 .. Len(e.cursors))}
    BY <1>2, RetainIs
  <2> HIDE DEF stay
  <2> QED
    BY <2>1 DEF Cursors, Elements
<1>4. n \in Cursor /\ n.expiration = e.sent + 1
  BY <1>2, ScreenIs DEF CursorAt, Cursor
<1> HIDE DEF stay, n
<1>5. s \in Seq(Cursor) /\ Elements(s) \subseteq Cursors(e) \cup {n}
  BY <1>3, <1>4, ElementsOfAppend
<1>6. /\ \A i \in 1 .. Len(e.overlays) : e.overlays[i] \in RowOf(w)
      /\ Len(e.overlays) \in Nat
  BY <1>2, ActiveCellsAre
<1>7. o \in Seq(RowOf(w)) /\ Len(o) = Len(e.overlays)
  BY <1>6, KillRowIs
<1>8. \A i \in 1 .. Len(e.overlays) : o[i] = KillRow(e.overlays[i], x)
  OBVIOUS
<1> HIDE DEF s, o
<1>9. /\ f \in EngineOf(w) /\ Keeps(e, f) /\ SameEpochs(e, f) /\ f.height = e.height
      /\ f.cursors = s /\ f.overlays = o /\ f.width = w
  BY <1>2, <1>5, <1>7 DEF EngineOf, Keeps, SameEpochs
<1> HIDE DEF f
<1>10. ActiveCells(f) \subseteq Before(ActiveCells(e), x)
  <2> SUFFICES ASSUME NEW c \in ActiveCells(f) PROVE c \in Before(ActiveCells(e), x)
    OBVIOUS
  <2>1. PICK i \in 1 .. Len(o) : c \in ActiveIn(o[i].cells, w)
    BY <1>9 DEF ActiveCells
  <2>2. c \in Before(ActiveIn(e.overlays[i].cells, w), x)
    BY <1>6, <1>7, <1>8, <2>1, KillRowIs
  <2>3. i \in 1 .. Len(e.overlays)
    BY <1>7
  <2> QED
    BY <1>2, <2>2, <2>3 DEF Before, ActiveCells
<1>11. Cursors(f) \subseteq Cursors(e) \cup {n}
  BY <1>5, <1>9 DEF Cursors
<1>12. Due(f) \subseteq Due(e) \cup {e.sent + 1}
  BY <1>4, <1>11 DEF Due
<1> DEFINE g == BecomeTentative(f)
<1>13. /\ g \in EngineOf(w) /\ Keeps(f, g) /\ SamePredictions(f, g)
       /\ g.confirmed_epoch = f.confirmed_epoch /\ g.height = f.height
       /\ g.prediction_epoch = f.prediction_epoch \/ g.prediction_epoch = f.prediction_epoch + 1
  BY <1>9, BecomeTentativeIs
<1> HIDE DEF g
<1>14. ActiveCells(g) = ActiveCells(f) /\ Due(g) = Due(f)
  BY <1>13 DEF SamePredictions, ActiveCells, Due, Cursors
<1>15. g.prediction_epoch >= e.prediction_epoch /\ g.confirmed_epoch = e.confirmed_epoch
  BY <1>2, <1>9, <1>13 DEF SameEpochs
<1>16. Culled(e, g, w)
  BY <1>9, <1>10, <1>12, <1>13, <1>14, <1>15 DEF Culled, Keeps, Before
<1> QED
  BY <1>1, <1>10, <1>14, <1>15, <1>16 DEF g

IsKilled(h, e, epochs, fb, n) ==
    h = [k \in 0 .. n |-> IF k = 0 THEN e ELSE KillEpoch(h[k - 1], epochs[k], fb)]

LEMMA KilledExists ==
    ASSUME NEW e, NEW epochs, NEW fb, NEW n \in Nat
    PROVE  \E h : IsKilled(h, e, epochs, fb, n)
<1> DEFINE T == {k \in 0 .. n : \E h : IsKilled(h, e, epochs, fb, k)}
<1>1. 0 \in T
  <2>1. IsKilled([k \in 0 .. 0 |-> e], e, epochs, fb, 0)
    BY DEF IsKilled
  <2> QED
    BY <2>1
<1>2. ASSUME NEW m \in 1 .. n, m - 1 \in T PROVE m \in T
  <2>1. PICK h : IsKilled(h, e, epochs, fb, m - 1)
    BY <1>2
  <2> DEFINE g == [k \in 0 .. m |->
                     IF k < m THEN h[k] ELSE KillEpoch(h[k - 1], epochs[k], fb)]
  <2>2. \A k \in 0 .. m - 1 : h[k] = IF k = 0 THEN e ELSE KillEpoch(h[k - 1], epochs[k], fb)
    BY <2>1 DEF IsKilled
  <2>3. \A k \in 0 .. m : g[k] = IF k = 0 THEN e ELSE KillEpoch(g[k - 1], epochs[k], fb)
    BY <2>2
  <2>4. IsKilled(g, e, epochs, fb, m)
    BY <2>3 DEF IsKilled
  <2> QED
    BY <2>4
<1> HIDE DEF T
<1>3. n \in T
  BY <1>1, <1>2, UpTo
<1> QED
  BY <1>3 DEF T

LEMMA CulledSelf == ASSUME NEW w, NEW e \in EngineOf(w) PROVE Culled(e, e, w)
  BY DEF Culled, Keeps, EngineOf

LEMMA CulledTwice ==
    ASSUME NEW u, NEW v, NEW w, NEW e \in EngineOf(u), NEW f, NEW g,
           Culled(e, f, v), Culled(f, g, w)
    PROVE  Culled(e, g, w)
<1>1. /\ e.prediction_epoch \in Nat /\ f.prediction_epoch \in Nat /\ g.prediction_epoch \in Nat
  BY DEF Culled, EngineOf
<1>2. g.prediction_epoch >= e.prediction_epoch
  BY <1>1 DEF Culled
<1> QED
  BY <1>2 DEF Culled, Keeps

LEMMA KillAllIs ==
    ASSUME NEW w, NEW e \in EngineOf(w), NEW epochs \in Seq(Nat),
           NEW h \in Nat, NEW v \in Nat, NEW fb \in ScreenOf(h, v)
    PROVE  /\ Culled(e, KillAll(e, epochs, fb), w)
           /\ \A x \in Elements(epochs) :
                ActiveCells(KillAll(e, epochs, fb)) \subseteq Before(ActiveCells(e), x)
           /\ KillAll(e, epochs, fb).confirmed_epoch = e.confirmed_epoch
           /\ epochs = << >> => KillAll(e, epochs, fb) = e
<1>1. PICK n \in Nat : n = Len(epochs)
  OBVIOUS
<1> DEFINE k == CHOOSE k : IsKilled(k, e, epochs, fb, n)
<1>2. IsKilled(k, e, epochs, fb, n)
  BY <1>1, KilledExists
<1>3. KillAll(e, epochs, fb) = k[n]
  BY <1>1 DEF KillAll, IsKilled
<1> HIDE DEF k
<1>4. k[0] = e /\ \A i \in 1 .. n : k[i] = KillEpoch(k[i - 1], epochs[i], fb)
  <2>1. \A i \in 0 .. n : k[i] = IF i = 0 THEN e ELSE KillEpoch(k[i - 1], epochs[i], fb)
    BY <1>2, Zenon DEF IsKilled
  <2>2. 0 \in 0 .. n /\ \A i \in 1 .. n : i \in 0 .. n /\ i # 0
    BY <1>1
  <2> QED
    BY <2>1, <2>2, Zenon
<1> DEFINE Gone(i) == \A m \in 1 .. i : ActiveCells(k[i]) \subseteq Before(ActiveCells(e), epochs[m])
           T == {i \in 0 .. n : /\ Culled(e, k[i], w) /\ k[i].confirmed_epoch = e.confirmed_epoch
                                /\ Gone(i)}
<1>5. 0 \in T
  BY <1>1, <1>4, CulledSelf
<1>6. ASSUME NEW i \in 1 .. n, i - 1 \in T PROVE i \in T
  <2>1. /\ Culled(e, k[i - 1], w) /\ k[i - 1].confirmed_epoch = e.confirmed_epoch
        /\ Gone(i - 1) /\ k[i - 1] \in EngineOf(w)
    BY <1>6 DEF Culled
  <2>2. epochs[i] \in Nat
    BY <1>1, ElementOfSeq
  <2>3. /\ Culled(k[i - 1], k[i], w)
        /\ ActiveCells(k[i]) \subseteq Before(ActiveCells(k[i - 1]), epochs[i])
        /\ k[i].confirmed_epoch = k[i - 1].confirmed_epoch
    BY <1>4, <2>1, <2>2, KillEpochIs
  <2>4. Culled(e, k[i], w)
    BY <2>1, <2>3, CulledTwice
  <2>5. Gone(i)
    <3> SUFFICES ASSUME NEW m \in 1 .. i
                 PROVE  ActiveCells(k[i]) \subseteq Before(ActiveCells(e), epochs[m])
      OBVIOUS
    <3>1. CASE m = i
      BY <2>1, <2>3, <3>1 DEF Culled, Before
    <3>2. CASE m # i
      <4>1. m \in 1 .. i - 1
        BY <3>2
      <4> QED
        BY <2>1, <2>3, <4>1 DEF Before
    <3> QED
      BY <3>1, <3>2
  <2> QED
    BY <2>1, <2>3, <2>4, <2>5
<1>7. n \in T
  <2>1. \A i \in 0 .. n : i \in T
    <3> HIDE DEF T
    <3> QED
      BY <1>1, <1>5, <1>6, UpTo
  <2>2. n \in 0 .. n
    BY <1>1
  <2> QED
    BY <2>1, <2>2
<1>8. /\ Culled(e, k[n], w) /\ k[n].confirmed_epoch = e.confirmed_epoch
      /\ \A m \in 1 .. Len(epochs) : ActiveCells(k[n]) \subseteq Before(ActiveCells(e), epochs[m])
  BY <1>1, <1>7
<1>9. epochs = << >> => k[n] = e
  BY <1>1, <1>4
<1> QED
  BY <1>3, <1>8, <1>9 DEF Elements

LEMMA TriggeredIs ==
    ASSUME NEW w, NEW e \in EngineOf(w)
    PROVE  Triggered(e) \in EngineOf(w) /\ Retuned(e, Triggered(e))
<1> DEFINE a == \/ e.send_interval > SRTT_TRIGGER_HIGH
                \/ e.srtt_trigger /\ (e.send_interval > SRTT_TRIGGER_LOW \/ Active(e))
           b == \/ e.send_interval > FLAG_TRIGGER_HIGH
                \/ e.flagging /\ e.send_interval > FLAG_TRIGGER_LOW
                \/ e.glitch_trigger > GLITCH_REPAIR_COUNT
<1>1. Triggered(e) = [e EXCEPT !.srtt_trigger = a, !.flagging = b]
  BY DEF Triggered
<1>2. a \in BOOLEAN /\ b \in BOOLEAN
  OBVIOUS
<1> HIDE DEF a, b
<1> QED
  BY <1>1, <1>2 DEF EngineOf, Retuned, Keeps, SameEpochs, SamePredictions

\* Nothing is predicted.
Quiet(e) == ActiveCells(e) = {} /\ Cursors(e) = {}

LEMMA EmptyQuiet ==
    ASSUME NEW w, NEW e \in EngineOf(w), e.overlays = << >>, e.cursors = << >>
    PROVE  Quiet(e)
  BY DEF Quiet, ActiveCells, Cursors, Elements

LEMMA ActiveIs == ASSUME NEW w, NEW e \in EngineOf(w) PROVE Active(e) <=> ~ Quiet(e)
<1>1. Cursors(e) = {} <=> e.cursors = << >>
  BY CursorsAre
<1>2. \A i \in 1 .. Len(e.overlays) : Columns(e.overlays[i]) = 0 .. w - 1
  BY ActiveCellsAre DEF CellsOf, Columns
<1>3. ActiveCells(e) # {} <=>
        \E i \in 1 .. Len(e.overlays), j \in 0 .. w - 1 : e.overlays[i].cells[j].active
  BY ActiveCellsAre
<1> QED
  BY <1>1, <1>2, <1>3 DEF Active, Quiet

LEMMA RetunedCulled ==
    ASSUME NEW w, NEW e \in EngineOf(w), NEW f \in EngineOf(w), Retuned(e, f)
    PROVE  /\ Culled(e, f, w) /\ ActiveCells(f) = ActiveCells(e) /\ Cursors(f) = Cursors(e)
           /\ f.confirmed_epoch = e.confirmed_epoch
<1>1. ActiveCells(f) = ActiveCells(e) /\ Cursors(f) = Cursors(e) /\ Due(f) = Due(e)
  BY DEF Retuned, SamePredictions, ActiveCells, Cursors, Due
<1>2. f.prediction_epoch >= e.prediction_epoch
  BY DEF Retuned, SameEpochs, EngineOf
<1> QED
  BY <1>1, <1>2 DEF Retuned, SameEpochs, Culled

\* reset gives up everything.
LEMMA ResetCulled ==
    ASSUME NEW w, NEW e \in EngineOf(w)
    PROVE  /\ Culled(e, Reset(e), w) /\ Quiet(Reset(e))
           /\ Reset(e).confirmed_epoch = e.confirmed_epoch
<1>1. /\ Reset(e) \in EngineOf(w) /\ Keeps(e, Reset(e))
      /\ Reset(e).overlays = << >> /\ Reset(e).cursors = << >>
      /\ Reset(e).confirmed_epoch = e.confirmed_epoch
      /\ \/ Reset(e).prediction_epoch = e.prediction_epoch
         \/ Reset(e).prediction_epoch = e.prediction_epoch + 1
  BY ResetIs
<1>2. Quiet(Reset(e))
  BY <1>1, EmptyQuiet
<1>3. e.prediction_epoch \in Nat
  BY DEF EngineOf
<1>4. Reset(e).prediction_epoch >= e.prediction_epoch
  BY <1>1, <1>3
<1> QED
  BY <1>1, <1>2, <1>4 DEF Culled, Quiet, Due

LEMMA MispredictedCulled ==
    ASSUME NEW w, NEW e \in EngineOf(w)
    PROVE  /\ Culled(e, Mispredicted(e), w) /\ Quiet(Mispredicted(e))
           /\ Mispredicted(e).confirmed_epoch = e.confirmed_epoch
<1> DEFINE f == [e EXCEPT !.mispredicted = TRUE]
<1>1. f \in EngineOf(w) /\ Retuned(e, f)
  BY DEF EngineOf, Retuned, Keeps, SameEpochs, SamePredictions
<1>2. Mispredicted(e) = Reset(f)
  BY DEF Mispredicted
<1> HIDE DEF f
<1>3. Culled(e, f, w) /\ f.confirmed_epoch = e.confirmed_epoch
  BY <1>1, RetunedCulled
<1>4. /\ Culled(f, Reset(f), w) /\ Quiet(Reset(f))
      /\ Reset(f).confirmed_epoch = f.confirmed_epoch
  BY <1>1, ResetCulled
<1> QED
  BY <1>2, <1>3, <1>4, CulledTwice

\* A change of size gives up everything.
LEMMA ResizedIs ==
    ASSUME NEW w, NEW e \in EngineOf(w), NEW h \in Nat, NEW v \in Nat, NEW fb \in ScreenOf(h, v)
    PROVE  /\ Culled(e, Resized(e, fb), v)
           /\ Resized(e, fb).confirmed_epoch = e.confirmed_epoch
           /\ Resized(e, fb) = e \/ Quiet(Resized(e, fb))
<1>1. fb.rows = h /\ fb.cols = v
  BY ScreenIs
<1>2. CASE e.height = fb.rows /\ e.width = fb.cols
  <2>1. Resized(e, fb) = e
    BY <1>2 DEF Resized
  <2>2. e \in EngineOf(v)
    BY <1>1, <1>2 DEF EngineOf
  <2> QED
    BY <2>1, <2>2, CulledSelf
<1>3. CASE ~ (e.height = fb.rows /\ e.width = fb.cols)
  <2> DEFINE f == [e EXCEPT !.height = h, !.width = v]
             o == [e EXCEPT !.cursors = << >>, !.overlays = << >>]
             g == [f EXCEPT !.cursors = << >>, !.overlays = << >>]
  <2>1. Resized(e, fb) = Reset(f)
    BY <1>1, <1>3 DEF Resized
  <2>2. << >> \in Seq(RowOf(v)) /\ << >> \in Seq(Cursor)
    OBVIOUS
  <2>3. /\ g \in EngineOf(v) /\ Keeps(e, g) /\ g.overlays = << >> /\ g.cursors = << >>
        /\ SameEpochs(e, g)
    BY <2>2 DEF EngineOf, Keeps, SameEpochs
  <2>4. Reset(f) = BecomeTentative(g)
    BY DEF Reset
  <2> HIDE DEF g, f
  <2>5. PICK x : x = BecomeTentative(g)
    OBVIOUS
  <2>6. /\ x \in EngineOf(v) /\ Keeps(g, x) /\ SamePredictions(g, x)
        /\ x.confirmed_epoch = g.confirmed_epoch
        /\ \/ x.prediction_epoch = g.prediction_epoch
           \/ x.prediction_epoch = g.prediction_epoch + 1
    BY <2>3, <2>5, BecomeTentativeIs
  <2>7. x.overlays = << >> /\ x.cursors = << >>
    BY <2>3, <2>6 DEF SamePredictions
  <2>8. Quiet(x)
    BY <2>6, <2>7, EmptyQuiet
  <2>9. e.prediction_epoch \in Nat
    BY DEF EngineOf
  <2>10. x.prediction_epoch >= e.prediction_epoch /\ x.confirmed_epoch = e.confirmed_epoch
    BY <2>3, <2>6, <2>9 DEF SameEpochs
  <2>11. Keeps(e, x)
    BY <2>3, <2>6 DEF Keeps
  <2>12. Culled(e, x, v)
    BY <2>6, <2>8, <2>10, <2>11 DEF Culled, Quiet, Due
  <2> QED
    BY <2>1, <2>4, <2>5, <2>8, <2>10, <2>12
<1> QED
  BY <1>2, <1>3

\* The cursors left await a later ack, and lie on the screen.
LEMMA CullCursorsIs ==
    ASSUME NEW w, NEW e \in EngineOf(w), NEW h \in Nat, NEW v \in Nat, NEW fb \in ScreenOf(h, v)
    PROVE  /\ Culled(e, CullCursors(e, fb), w)
           /\ Within(CullCursors(e, fb), fb)
           /\ \A d \in Due(CullCursors(e, fb)) : d > e.late_acked
           /\ CullCursors(e, fb).confirmed_epoch = e.confirmed_epoch
           /\ Quiet(e) => Quiet(CullCursors(e, fb))
<1> DEFINE late == e.late_acked
           I == {i \in 1 .. Len(e.cursors) : CursorValidity(e.cursors[i], fb, late) = "Pending"}
           kept == Retain(e.cursors, I)
<1>1. \/ CullCursors(e, fb) = Mispredicted(e)
      \/ CullCursors(e, fb) = [e EXCEPT !.cursors = << >>]
      \/ CullCursors(e, fb) = [e EXCEPT !.cursors = kept]
  BY DEF CullCursors
<1>2. e.late_acked \in Nat /\ e.cursors \in Seq(Cursor) /\ e.prediction_epoch \in Nat
  BY DEF EngineOf
<1>3. CASE CullCursors(e, fb) = Mispredicted(e)
  BY <1>3, MispredictedCulled DEF Quiet, Within, Due
<1>4. ASSUME NEW s \in Seq(Cursor), CullCursors(e, fb) = [e EXCEPT !.cursors = s],
             \A c \in Elements(s) :
               /\ c \in Cursors(e) /\ c.row < fb.rows /\ c.col < fb.cols
               /\ c.expiration > e.late_acked
      PROVE  /\ Culled(e, CullCursors(e, fb), w)
             /\ Within(CullCursors(e, fb), fb)
             /\ \A d \in Due(CullCursors(e, fb)) : d > e.late_acked
             /\ CullCursors(e, fb).confirmed_epoch = e.confirmed_epoch
             /\ Quiet(e) => Quiet(CullCursors(e, fb))
  <2>1. PICK f : f = CullCursors(e, fb)
    OBVIOUS
  <2>2. /\ f \in EngineOf(w) /\ Keeps(e, f) /\ SameEpochs(e, f)
        /\ f.overlays = e.overlays /\ f.width = e.width
        /\ Cursors(f) = Elements(s)
    BY <1>4, <2>1, CursorsSet
  <2>3. ActiveCells(f) = ActiveCells(e)
    BY <2>2 DEF ActiveCells
  <2>4. f.prediction_epoch >= e.prediction_epoch /\ f.confirmed_epoch = e.confirmed_epoch
    BY <1>2, <2>2 DEF SameEpochs
  <2>5. Cursors(f) \subseteq Cursors(e) /\ Within(f, fb)
    BY <1>4, <2>2 DEF Within
  <2>6. Due(f) \subseteq Due(e) /\ \A d \in Due(f) : d > e.late_acked
    BY <1>4, <2>2 DEF Due
  <2>7. Culled(e, f, w)
    BY <2>2, <2>3, <2>4, <2>6 DEF Culled
  <2> QED
    BY <2>1, <2>3, <2>4, <2>5, <2>6, <2>7 DEF Quiet
<1>5. CASE CullCursors(e, fb) = [e EXCEPT !.cursors = << >>]
  <2>1. << >> \in Seq(Cursor) /\ Elements(<< >>) = {}
    BY DEF Elements
  <2> QED
    BY <1>4, <1>5, <2>1
<1>6. CASE CullCursors(e, fb) = [e EXCEPT !.cursors = kept]
  <2>1. kept \in Seq(Cursor) /\ Elements(kept) = {e.cursors[i] : i \in I \cap (1 .. Len(e.cursors))}
    <3> HIDE DEF I
    <3> QED
      BY <1>2, RetainIs
  <2>2. \A i \in I :
          /\ e.cursors[i].row < fb.rows /\ e.cursors[i].col < fb.cols
          /\ e.cursors[i].expiration > e.late_acked
    <3> SUFFICES ASSUME NEW i \in I
                 PROVE  /\ e.cursors[i].row < fb.rows /\ e.cursors[i].col < fb.cols
                        /\ e.cursors[i].expiration > e.late_acked
      OBVIOUS
    <3>1. i \in 1 .. Len(e.cursors) /\ CursorValidity(e.cursors[i], fb, e.late_acked) = "Pending"
      OBVIOUS
    <3>2. e.cursors[i] \in Cursor
      BY <1>2, <3>1
    <3>3. ~ (e.cursors[i].row >= fb.rows \/ e.cursors[i].col >= fb.cols)
      BY <3>1 DEF CursorValidity
    <3>4. fb.rows \in Nat /\ fb.cols \in Nat
      BY ScreenIs
    <3>5. e.cursors[i].row < fb.rows /\ e.cursors[i].col < fb.cols
      BY <3>2, <3>3, <3>4 DEF Cursor
    <3>6. e.late_acked < e.cursors[i].expiration
      BY <3>1, <3>3 DEF CursorValidity
    <3> QED
      BY <1>2, <3>2, <3>5, <3>6 DEF Cursor
  <2>3. \A c \in Elements(kept) :
          /\ c \in Cursors(e) /\ c.row < fb.rows /\ c.col < fb.cols
          /\ c.expiration > e.late_acked
    <3> SUFFICES ASSUME NEW c \in Elements(kept)
                 PROVE  /\ c \in Cursors(e) /\ c.row < fb.rows /\ c.col < fb.cols
                        /\ c.expiration > e.late_acked
      OBVIOUS
    <3>1. PICK i \in I : c = e.cursors[i] /\ i \in 1 .. Len(e.cursors)
      BY <2>1
    <3> HIDE DEF I, kept
    <3> QED
      BY <2>2, <3>1 DEF Cursors, Elements
  <2> HIDE DEF kept
  <2> QED
    BY <1>4, <1>6, <2>1, <2>3
<1> QED
  BY <1>1, <1>3, <1>5, <1>6

LEMMA ActiveByRow ==
    ASSUME NEW e, NEW f, f.width = e.width, Elements(f.overlays) \subseteq Elements(e.overlays)
    PROVE  ActiveCells(f) \subseteq ActiveCells(e)
<1> SUFFICES ASSUME NEW c \in ActiveCells(f) PROVE c \in ActiveCells(e)
  OBVIOUS
<1>1. PICK i \in 1 .. Len(f.overlays) : c \in ActiveIn(f.overlays[i].cells, e.width)
  BY DEF ActiveCells
<1>2. f.overlays[i] \in Elements(e.overlays)
  BY DEF Elements
<1>3. PICK k \in 1 .. Len(e.overlays) : f.overlays[i] = e.overlays[k]
  BY <1>2 DEF Elements
<1> QED
  BY <1>1, <1>3 DEF ActiveCells

\* The first steps of cull: the triggers, and the rows that went off the screen.
InView(e, fb) ==
    LET f == Triggered(Resized(e, fb))
    IN  [f EXCEPT !.overlays = Retain(@, {i \in 1 .. Len(@) : @[i].row < fb.rows})]

LEMMA InViewIs ==
    ASSUME NEW w, NEW e \in EngineOf(w), NEW h \in Nat, NEW v \in Nat, NEW fb \in ScreenOf(h, v)
    PROVE  /\ Culled(e, InView(e, fb), v)
           /\ InView(e, fb).confirmed_epoch = e.confirmed_epoch
           /\ Proven(InView(e, fb), fb) \subseteq Proven(e, fb)
           /\ Quiet(e) => Quiet(InView(e, fb))
<1>1. PICK r : r = Resized(e, fb)
  OBVIOUS
<1>2. /\ Culled(e, r, v) /\ r.confirmed_epoch = e.confirmed_epoch
      /\ r = e \/ Quiet(r)
  BY <1>1, ResizedIs
<1>3. r \in EngineOf(v)
  BY <1>2 DEF Culled
<1>4. PICK f : f = Triggered(r)
  OBVIOUS
<1>5. f \in EngineOf(v) /\ Retuned(r, f)
  BY <1>3, <1>4, TriggeredIs
<1>6. /\ Culled(r, f, v) /\ ActiveCells(f) = ActiveCells(r) /\ Cursors(f) = Cursors(r)
      /\ f.confirmed_epoch = r.confirmed_epoch
  BY <1>3, <1>5, RetunedCulled
<1> DEFINE I == {i \in 1 .. Len(f.overlays) : f.overlays[i].row < fb.rows}
           o == Retain(f.overlays, I)
<1>7. PICK g : g = [f EXCEPT !.overlays = o]
  OBVIOUS
<1>8. InView(e, fb) = g
  BY <1>1, <1>4, <1>7 DEF InView
<1>9. f.overlays \in Seq(RowOf(v)) /\ f.prediction_epoch \in Nat
  BY <1>5 DEF EngineOf
<1> HIDE DEF I
<1>10. o \in Seq(RowOf(v)) /\ Elements(o) = {f.overlays[i] : i \in I \cap (1 .. Len(f.overlays))}
  BY <1>9, RetainIs
<1>11. Elements(o) \subseteq Elements(f.overlays)
  BY <1>10 DEF Elements
<1> HIDE DEF o
<1>12. /\ g \in EngineOf(v) /\ Keeps(f, g) /\ SameEpochs(f, g)
       /\ g.overlays = o /\ g.width = f.width /\ g.cursors = f.cursors
  BY <1>5, <1>7, <1>10, OverlaysSet
<1>13. ActiveCells(g) \subseteq ActiveCells(f)
  BY <1>11, <1>12, ActiveByRow
<1>14. Cursors(g) = Cursors(f) /\ Due(g) = Due(f)
  BY <1>12 DEF Cursors, Due
<1>15. g.prediction_epoch >= f.prediction_epoch /\ g.confirmed_epoch = f.confirmed_epoch
  BY <1>9, <1>12 DEF SameEpochs
<1>16. Culled(f, g, v)
  BY <1>12, <1>13, <1>14, <1>15 DEF Culled
<1>17. Culled(e, g, v)
  <2>1. Culled(e, f, v)
    BY ONLY e \in EngineOf(w), <1>2, <1>6, CulledTwice
  <2> QED
    BY ONLY e \in EngineOf(w), <2>1, <1>16, CulledTwice
<1>18. Quiet(e) => Quiet(g)
  BY <1>2, <1>6, <1>13, <1>14 DEF Quiet
<1>19. Proven(g, fb) \subseteq Proven(e, fb)
  <2>1. CASE Quiet(r)
    BY <1>6, <1>13, <2>1 DEF Quiet, Proven
  <2>2. CASE r = e
    <3> SUFFICES ASSUME NEW c \in Proven(g, fb) PROVE c \in Proven(e, fb)
      OBVIOUS
    <3>1. f.overlays = e.overlays /\ f.width = e.width /\ f.late_acked = e.late_acked
      BY <1>5, <2>2 DEF Retuned, SamePredictions, Keeps
    <3>2. g.width = e.width /\ g.late_acked = e.late_acked
      BY <1>12, <3>1 DEF Keeps
    <3>3. PICK i \in 1 .. Len(g.overlays), j \in 0 .. e.width - 1 :
            /\ c = g.overlays[i].cells[j]
            /\ Validity(c, fb, g.overlays[i].row, j, e.late_acked) = "Correct"
      BY <3>2 DEF Proven
    <3>4. g.overlays[i] \in Elements(e.overlays)
      BY <1>11, <1>12, <3>1 DEF Elements
    <3>5. PICK k \in 1 .. Len(e.overlays) : g.overlays[i] = e.overlays[k]
      BY <3>4 DEF Elements
    <3>6. c \in ActiveCells(e)
      BY <1>6, <1>13, <2>2 DEF Proven
    <3> QED
      BY <3>3, <3>5, <3>6 DEF Proven
  <2> QED
    BY <1>2, <2>1, <2>2
<1> QED
  BY <1>2, <1>6, <1>8, <1>15, <1>17, <1>18, <1>19

LEMMA JudgedCulled ==
    ASSUME NEW w \in Nat, NEW e \in EngineOf(w), NEW fb, NEW s, Judged(e, s, w, fb)
    PROVE  Culled(e, s.e, w) /\ Cursors(s.e) = Cursors(e)
<1>1. s.e \in EngineOf(w) /\ e.prediction_epoch \in Nat
  BY DEF Judged, Verdict, EngineOf
<1>2. Cursors(s.e) = Cursors(e) /\ Due(s.e) = Due(e)
  BY DEF Judged, Cursors, Due
<1>3. ActiveCells(s.e) \subseteq ActiveCells(e)
  <2> SUFFICES ASSUME NEW c \in ActiveCells(s.e) PROVE c \in ActiveCells(e)
    OBVIOUS
  <2>1. c.active
    BY ONLY c \in ActiveCells(s.e), <1>1, ActiveCellsAre
  <2>2. PICK i \in 1 .. Len(s.e.overlays), j \in 0 .. w - 1 : c = s.e.overlays[i].cells[j]
    BY ONLY c \in ActiveCells(s.e), <1>1, ActiveCellsAre
  <2>3. i \in 1 .. Len(e.overlays) /\ c = e.overlays[i].cells[j]
    BY <2>1, <2>2 DEF Judged
  <2> QED
    BY <2>1, <2>3, ActiveCellsAre
<1> QED
  BY <1>1, <1>2, <1>3 DEF Judged, Culled

\* What cull leaves is not due yet, and it confirms an epoch only for a
\* prediction of it that came true.
Survives(e, f, v, fb) ==
    /\ Culled(e, f, v)
    /\ \A c \in ActiveCells(f) : c.expiration > e.late_acked
    /\ \A d \in Due(f) : d > e.late_acked
    /\ Within(f, fb)
    /\ \/ f.confirmed_epoch = e.confirmed_epoch
       \/ \E c \in Proven(e, fb) : f.confirmed_epoch = c.epoch
    /\ Quiet(e) => Quiet(f)

LEMMA CullIs ==
    ASSUME NEW w, NEW e \in EngineOf(w), e.preference # "never",
           NEW h \in Nat, NEW v \in Nat, NEW fb \in ScreenOf(h, v), NEW t \in Nat
    PROVE  Survives(e, Cull(e, fb, t), v, fb)
<1>1. PICK g : g = InView(e, fb)
  OBVIOUS
<1>2. /\ Culled(e, g, v) /\ g.confirmed_epoch = e.confirmed_epoch
      /\ Proven(g, fb) \subseteq Proven(e, fb)
      /\ Quiet(e) => Quiet(g)
  BY <1>1, InViewIs
<1>3. PICK s : s = JudgeAll(g, fb, t)
  OBVIOUS
<1>4. Cull(e, fb, t) = IF s.reset THEN Mispredicted(s.e)
                       ELSE CullCursors(KillAll(s.e, s.kills, fb), fb)
  BY <1>1, <1>3 DEF Cull, InView
<1>5. g \in EngineOf(v)
  BY <1>2 DEF Culled
<1>6. /\ Judged(g, s, v, fb)
      /\ \A k \in 1 .. Len(g.overlays), m \in 0 .. v - 1 : Settled(s, k, m)
  BY <1>3, <1>5, JudgeAllIs
<1>7. Culled(g, s.e, v) /\ Cursors(s.e) = Cursors(g)
  BY <1>5, <1>6, JudgedCulled
<1>8. Culled(e, s.e, v)
  BY ONLY e \in EngineOf(w), <1>2, <1>7, CulledTwice
<1>9. /\ s.e \in EngineOf(v) /\ s.kills \in Seq(Nat)
      /\ Len(s.e.overlays) = Len(g.overlays)
      /\ s.kills # << >> => ActiveCells(g) # {}
  BY <1>6 DEF Judged, Verdict
<1>10. \/ s.e.confirmed_epoch = e.confirmed_epoch
       \/ \E c \in Proven(e, fb) : s.e.confirmed_epoch = c.epoch
  BY <1>2, <1>6 DEF Judged
<1>11. s.e.late_acked = e.late_acked /\ e.late_acked \in Nat
  BY <1>8 DEF Culled, Keeps, EngineOf
<1>12. CASE s.reset
  <2>1. Cull(e, fb, t) = Mispredicted(s.e)
    BY <1>4, <1>12
  <2>2. PICK f : f = Mispredicted(s.e)
    OBVIOUS
  <2>3. Culled(s.e, f, v) /\ Quiet(f) /\ f.confirmed_epoch = s.e.confirmed_epoch
    BY <1>9, <2>2, MispredictedCulled
  <2>4. Culled(e, f, v)
    BY ONLY e \in EngineOf(w), <1>8, <2>3, CulledTwice
  <2> QED
    BY <1>10, <2>1, <2>2, <2>3, <2>4 DEF Survives, Quiet, Due, Within
<1>13. CASE ~ s.reset
  <2>1. PICK k : k = KillAll(s.e, s.kills, fb)
    OBVIOUS
  <2>2. /\ Culled(s.e, k, v) /\ k.confirmed_epoch = s.e.confirmed_epoch
        /\ \A x \in Elements(s.kills) : ActiveCells(k) \subseteq Before(ActiveCells(s.e), x)
        /\ s.kills = << >> => k = s.e
    <3>1. s.e \in EngineOf(v) /\ s.kills \in Seq(Nat)
      BY <1>9
    <3>2. /\ Culled(s.e, KillAll(s.e, s.kills, fb), v)
          /\ \A x \in Elements(s.kills) :
               ActiveCells(KillAll(s.e, s.kills, fb)) \subseteq Before(ActiveCells(s.e), x)
          /\ KillAll(s.e, s.kills, fb).confirmed_epoch = s.e.confirmed_epoch
          /\ s.kills = << >> => KillAll(s.e, s.kills, fb) = s.e
      <4>1. PICK d : d = s.e
        OBVIOUS
      <4>2. PICK q : q = s.kills
        OBVIOUS
      <4>3. d \in EngineOf(v) /\ q \in Seq(Nat)
        BY <3>1, <4>1, <4>2
      <4>4. /\ Culled(d, KillAll(d, q, fb), v)
            /\ \A x \in Elements(q) : ActiveCells(KillAll(d, q, fb)) \subseteq Before(ActiveCells(d), x)
            /\ KillAll(d, q, fb).confirmed_epoch = d.confirmed_epoch
            /\ q = << >> => KillAll(d, q, fb) = d
        BY ONLY h \in Nat, v \in Nat, fb \in ScreenOf(h, v), <4>3, KillAllIs
      <4> QED
        BY ONLY <4>1, <4>2, <4>4
    <3> QED
      BY ONLY <2>1, <3>2
  <2>3. k \in EngineOf(v) /\ k.late_acked = e.late_acked
    BY <1>11, <2>2 DEF Culled, Keeps
  <2>4. PICK f : f = CullCursors(k, fb)
    OBVIOUS
  <2>5. /\ Culled(k, f, v) /\ Within(f, fb) /\ f.confirmed_epoch = k.confirmed_epoch
        /\ \A d \in Due(f) : d > e.late_acked
        /\ Quiet(k) => Quiet(f)
    BY <2>3, <2>4, CullCursorsIs
  <2>6. Culled(e, f, v)
    <3>1. Culled(e, k, v)
      BY ONLY e \in EngineOf(w), <1>8, <2>2, CulledTwice
    <3> QED
      BY ONLY e \in EngineOf(w), <3>1, <2>5, CulledTwice
  <2>7. Quiet(e) => Quiet(f)
    <3> SUFFICES ASSUME Quiet(e) PROVE Quiet(f)
      OBVIOUS
    <3>1. ActiveCells(g) = {} /\ Cursors(g) = {}
      BY <1>2 DEF Quiet
    <3>2. ActiveCells(s.e) = {} /\ Cursors(s.e) = {} /\ s.kills = << >>
      BY <1>7, <1>9, <3>1 DEF Culled
    <3> QED
      BY <2>2, <2>5, <3>2 DEF Quiet
  <2>8. \A c \in ActiveCells(f) : c.expiration > e.late_acked
    <3> SUFFICES ASSUME NEW c \in ActiveCells(f), ~ (c.expiration > e.late_acked)
                 PROVE  FALSE
      OBVIOUS
    <3>1. c \in ActiveCells(k) /\ c \in ActiveCells(s.e)
      BY <2>2, <2>5 DEF Culled
    <3>2. PICK i \in 1 .. Len(s.e.overlays), j \in 0 .. v - 1 : c = s.e.overlays[i].cells[j]
      BY <1>9, <3>1, ActiveCellsAre, SMTT(30)
    <3>3. c.active /\ c \in Cell
      BY <1>9, <3>1, ActiveCellsAre
    <3>4. Settled(s, i, j)
      BY <1>6, <1>9, <3>2
    <3>5. PICK x \in Elements(s.kills) : x <= c.epoch
      BY <1>11, <1>13, <3>2, <3>3, <3>4 DEF Settled
    <3>6. x \in Nat
      BY <1>9, <3>5, ElementsTyped
    <3>7. c.epoch < x
      BY <2>2, <3>1, <3>5 DEF Before
    <3> QED
      BY <3>3, <3>5, <3>6, <3>7 DEF Cell
  <2>9. \/ f.confirmed_epoch = e.confirmed_epoch
        \/ \E c \in Proven(e, fb) : f.confirmed_epoch = c.epoch
    BY <1>10, <2>2, <2>5
  <2> QED
    BY <1>4, <1>13, <2>1, <2>4, <2>5, <2>6, <2>7, <2>8, <2>9 DEF Survives
<1> QED
  BY <1>12, <1>13

-----------------------------------------------------------------------------
(***************************************************************************)
(* What the handlers of a key add. Every prediction they make is due with  *)
(* the present byte and of the present line and epoch or a later one, and  *)
(* shows a glyph of G: what was drawn or predicted before, or the key's.   *)
(***************************************************************************)
Made(c, e, f, G) ==
    /\ c.expiration = e.sent + 1 /\ c.line = e.line /\ c.replacement \in G
    /\ \/ Experimental(e)
       \/ e.prediction_epoch <= c.epoch /\ c.epoch <= f.prediction_epoch

Grown(e, f, w, G) ==
    /\ f \in EngineOf(w) /\ Keeps(e, f) /\ f.confirmed_epoch = e.confirmed_epoch
    /\ Experimental(e) \/ f.prediction_epoch >= e.prediction_epoch
    /\ \A c \in ActiveCells(f) : c \in ActiveCells(e) \/ Made(c, e, f, G)
    /\ Due(f) \subseteq Due(e) \cup {e.sent + 1}

Predicts(e, G) == \A c \in ActiveCells(e) : c.replacement \in G

Shows(fb, G) ==
    \A r \in 0 .. fb.rows - 1, j \in 0 .. fb.cols - 1 : fb.cell[r][j] \in G

LEMMA GrownTwice ==
    ASSUME NEW u, NEW v, NEW w, NEW G, NEW e \in EngineOf(u), NEW f, NEW g,
           Grown(e, f, v, G), Grown(f, g, w, G)
    PROVE  Grown(e, g, w, G)
<1>1. f \in EngineOf(v) /\ g \in EngineOf(w) /\ Keeps(e, f) /\ Keeps(f, g)
  BY DEF Grown
<1>2. Keeps(e, g) /\ f.sent = e.sent /\ f.line = e.line
      /\ (Experimental(f) <=> Experimental(e))
  BY <1>1 DEF Keeps, Experimental
<1>3. e.prediction_epoch \in Nat /\ f.prediction_epoch \in Nat /\ g.prediction_epoch \in Nat
  BY <1>1 DEF EngineOf
<1>4. Experimental(e) \/ (/\ f.prediction_epoch >= e.prediction_epoch
                          /\ g.prediction_epoch >= f.prediction_epoch)
  BY <1>2 DEF Grown
<1>5. ASSUME NEW c \in ActiveCells(g) PROVE c \in ActiveCells(e) \/ Made(c, e, g, G)
  <2>1. c.epoch \in Nat
    BY <1>1, ActiveCellsAre DEF Cell
  <2>2. CASE c \in ActiveCells(f)
    <3>1. c \in ActiveCells(e) \/ Made(c, e, f, G)
      BY <2>2 DEF Grown
    <3> QED
      BY <1>3, <1>4, <2>1, <3>1 DEF Made
  <2>3. CASE Made(c, f, g, G)
    BY <1>2, <1>3, <1>4, <2>1, <2>3 DEF Made
  <2> QED
    BY <2>2, <2>3 DEF Grown
<1>6. Due(g) \subseteq Due(e) \cup {e.sent + 1}
  BY <1>2 DEF Grown
<1>7. g.confirmed_epoch = e.confirmed_epoch
  BY DEF Grown
<1>8. Experimental(e) \/ g.prediction_epoch >= e.prediction_epoch
  BY <1>3, <1>4
<1> QED
  BY <1>1, <1>2, <1>5, <1>6, <1>7, <1>8 DEF Grown

LEMMA GrownWider ==
    ASSUME NEW w, NEW e, NEW f, NEW G, NEW H, G \subseteq H, Grown(e, f, w, G)
    PROVE  Grown(e, f, w, H)
  BY DEF Grown, Made

LEMMA CulledGrown ==
    ASSUME NEW w, NEW G, NEW e, NEW f, Culled(e, f, w), f.confirmed_epoch = e.confirmed_epoch
    PROVE  Grown(e, f, w, G)
  BY DEF Culled, Grown

LEMMA MovedGrown ==
    ASSUME NEW w, NEW G, NEW e \in EngineOf(w), NEW f \in EngineOf(w), CursorMoved(e, f)
    PROVE  Grown(e, f, w, G) /\ ActiveCells(f) = ActiveCells(e)
<1>1. ActiveCells(f) = ActiveCells(e)
  BY DEF CursorMoved, ActiveCells
<1>2. f.prediction_epoch >= e.prediction_epoch
  BY DEF CursorMoved, SameEpochs, EngineOf
<1> QED
  BY <1>1, <1>2 DEF CursorMoved, SameEpochs, Grown

LEMMA TentativeGrown ==
    ASSUME NEW w, NEW G, NEW e \in EngineOf(w)
    PROVE  /\ Grown(e, BecomeTentative(e), w, G)
           /\ ActiveCells(BecomeTentative(e)) = ActiveCells(e)
           /\ Cursors(BecomeTentative(e)) = Cursors(e)
           /\ \/ Experimental(e)
              \/ BecomeTentative(e).prediction_epoch = e.prediction_epoch + 1
<1>1. PICK f : f = BecomeTentative(e)
  OBVIOUS
<1>2. /\ f \in EngineOf(w) /\ Keeps(e, f) /\ SamePredictions(e, f)
      /\ f.confirmed_epoch = e.confirmed_epoch
      /\ f.prediction_epoch
           = IF Experimental(e) THEN e.prediction_epoch ELSE e.prediction_epoch + 1
  BY <1>1, BecomeTentativeIs
<1>3. ActiveCells(f) = ActiveCells(e) /\ Cursors(f) = Cursors(e) /\ Due(f) = Due(e)
  BY <1>2 DEF SamePredictions, ActiveCells, Cursors, Due
<1>4. e.prediction_epoch \in Nat
  BY DEF EngineOf
<1> QED
  BY <1>1, <1>2, <1>3, <1>4 DEF Grown

LEMMA GrownPredicts ==
    ASSUME NEW w, NEW G, NEW e, NEW f, Grown(e, f, w, G), Predicts(e, G)
    PROVE  Predicts(f, G)
  BY DEF Grown, Predicts, Made

LEMMA PredictCellIs ==
    ASSUME NEW w, NEW e \in EngineOf(w), NEW c \in Cell, NEW drawn \in Characters,
           NEW unknown \in BOOLEAN, NEW g \in Characters, NEW t \in Nat,
           NEW p, p = PredictCell(e, c, drawn, unknown, g, t)
    PROVE  /\ p \in Cell /\ p.expiration = e.sent + 1 /\ p.line = e.line
           /\ p.epoch = e.prediction_epoch /\ p.replacement \in {Blank, g}
<1>1. Blank \in Characters
  BY DEF Characters
<1>2. Seen(c) \cup {drawn} \in SUBSET Characters
  BY DEF Seen, Cell
<1>3. e.prediction_epoch \in Nat /\ e.sent + 1 \in Nat /\ e.line \in Nat
  BY DEF EngineOf
<1> DEFINE o == Seen(c) \cup {drawn}
           x == IF unknown THEN Blank ELSE g
<1>4. p = [active |-> TRUE, unknown |-> unknown, replacement |-> x, original |-> o,
           epoch |-> e.prediction_epoch, expiration |-> e.sent + 1, time |-> t,
           line |-> e.line]
  BY DEF PredictCell
<1>5. x \in Characters /\ x \in {Blank, g} /\ o \in SUBSET Characters
  BY <1>1, <1>2
<1> HIDE DEF x, o
<1> QED
  BY <1>3, <1>4, <1>5 DEF Cell

\* A row of cells that stay or are made anew.
Fresh(c, e, G) ==
    /\ c.expiration = e.sent + 1 /\ c.line = e.line /\ c.epoch = e.prediction_epoch
    /\ c.replacement \in G

Renewed(cells, e, w, G) ==
    \A j \in 0 .. w - 1 :
        cells[j].active => cells[j] \in ActiveCells(e) \/ Fresh(cells[j], e, G)

LEMMA WithCellsGrown ==
    ASSUME NEW w, NEW G, NEW e \in EngineOf(w), NEW r \in Nat, NEW cells \in CellsOf(w),
           Renewed(cells, e, w, G), NEW f, f = WithCells(e, r, cells)
    PROVE  Grown(e, f, w, G) /\ f.cursors = e.cursors
<1>1. f = WithCells(e, r, cells)
  OBVIOUS
<1>2. /\ f \in EngineOf(w) /\ Keeps(e, f) /\ SameEpochs(e, f)
      /\ f.cursors = e.cursors /\ f.width = e.width /\ f.height = e.height
      /\ ActiveCells(f) \subseteq ActiveCells(e) \cup ActiveIn(cells, w)
  BY <1>1, WithCellsIs
<1>3. e.prediction_epoch \in Nat /\ f.prediction_epoch = e.prediction_epoch
      /\ f.confirmed_epoch = e.confirmed_epoch
  BY <1>2 DEF EngineOf, SameEpochs
<1>4. Due(f) = Due(e)
  BY <1>2 DEF Due, Cursors
<1>5. ASSUME NEW c \in ActiveIn(cells, w)
      PROVE  c \in ActiveCells(e) \/ Fresh(c, e, G)
  BY DEF ActiveIn, Renewed
<1>6. ASSUME NEW c, Fresh(c, e, G) PROVE Made(c, e, f, G)
  BY <1>3, <1>6 DEF Fresh, Made
<1>7. \A c \in ActiveCells(f) : c \in ActiveCells(e) \/ Made(c, e, f, G)
  BY <1>2, <1>5, <1>6
<1> QED
  BY <1>1, <1>2, <1>3, <1>4, <1>5, <1>7 DEF Grown

\* The last cursor somewhere else, without a new due.
Shifted(e, row, col) ==
    [e EXCEPT !.cursors[Len(e.cursors)] =
        [Last(e.cursors) EXCEPT !.row = row, !.col = col]]

LEMMA LastCursorShifted ==
    ASSUME NEW w, NEW G, NEW e \in EngineOf(w), e.cursors # << >>,
           NEW row \in Nat, NEW col \in Nat, NEW f, f = Shifted(e, row, col)
    PROVE  /\ f \in EngineOf(w) /\ Grown(e, f, w, G) /\ ActiveCells(f) = ActiveCells(e)
           /\ SameEpochs(e, f) /\ f.overlays = e.overlays
<1> DEFINE c == [Last(e.cursors) EXCEPT !.row = row, !.col = col]
<1>1. Last(e.cursors) \in Cursor /\ Last(e.cursors) \in Cursors(e)
  BY CursorsAre
<1>2. c \in Cursor /\ c.expiration = Last(e.cursors).expiration
  BY <1>1 DEF Cursor
<1>3. /\ f \in EngineOf(w) /\ Keeps(e, f) /\ SameEpochs(e, f)
      /\ f.overlays = e.overlays /\ f.width = e.width /\ f.height = e.height
      /\ Cursors(f) \subseteq Cursors(e) \cup {c}
  <2>1. f = [e EXCEPT !.cursors[Len(e.cursors)] = c]
    BY DEF Shifted
  <2> HIDE DEF c
  <2> QED
    BY <1>2, <2>1, LastCursorSet
<1>4. Due(f) \subseteq Due(e)
  BY <1>1, <1>2, <1>3 DEF Due
<1>5. CursorMoved(e, f)
  BY <1>3, <1>4 DEF CursorMoved
<1> QED
  BY <1>3, <1>5, MovedGrown

LEMMA NewlineIs ==
    ASSUME NEW h \in Nat, NEW v \in Nat, NEW e \in EngineOf(v), NEW fb \in ScreenOf(h, v),
           NEW t \in Nat
    PROVE  Grown(e, NewlineCarriageReturn(e, fb, t), v, {Blank})
<1>0. PICK G : G = {Blank}
  OBVIOUS
<1>1. PICK f : f = InitCursor(e, fb)
  OBVIOUS
<1>2. f \in EngineOf(v) /\ CursorMoved(e, f) /\ f.cursors # << >>
  BY <1>1, InitCursorIs
<1>3. Grown(e, f, v, G) /\ ActiveCells(f) = ActiveCells(e)
  BY <1>2, MovedGrown
<1>4. PICK n : n = Len(f.cursors)
  OBVIOUS
<1>5. PICK l : l = f.cursors[n]
  OBVIOUS
<1>6. l = Last(f.cursors) /\ l \in Cursor
  BY <1>2, <1>4, <1>5, CursorsAre
<1>7. l.row \in Nat /\ l.col \in Nat /\ fb.cols = v
  BY <1>6, ScreenIs DEF Cursor
<1>8. PICK cells : cells = CellsAt(f, l.row, v)
  OBVIOUS
<1>9. cells \in CellsOf(v)
  BY <1>2, <1>8, CellsAtIs
<1> DEFINE blanked ==
            [j \in DOMAIN cells |->
                [active |-> TRUE, unknown |-> FALSE, replacement |-> Blank,
                 original |-> cells[j].original, epoch |-> f.prediction_epoch,
                 expiration |-> f.sent + 1, time |-> t, line |-> f.line]]
           a == [l EXCEPT !.col = 0]
           b == [l EXCEPT !.col = 0, !.row = l.row + 1]
           g == [f EXCEPT !.cursors[n].col = 0]
           k == [f EXCEPT !.cursors[n] = [@ EXCEPT !.col = 0, !.row = f.cursors[n].row + 1]]
<1>10. NewlineCarriageReturn(e, fb, t) =
          IF l.row = fb.rows - 1 THEN WithCells(g, l.row, blanked) ELSE k
  BY <1>1, <1>4, <1>5, <1>7, <1>8 DEF NewlineCarriageReturn
<1>11. f.cursors \in Seq(Cursor) /\ n \in 1 .. Len(f.cursors) /\ f.prediction_epoch \in Nat
       /\ f.sent + 1 \in Nat /\ f.line \in Nat
  <2>1. n \in 1 .. Len(f.cursors)
    BY <1>2, <1>4, CursorsAre
  <2>2. f \in EngineOf(v)
    BY <1>2
  <2>3. f.cursors \in Seq(Cursor) /\ f.prediction_epoch \in Nat /\ f.sent \in Nat /\ f.line \in Nat
    BY ONLY <2>2 DEF EngineOf
  <2> QED
    BY <2>1, <2>3
<1>12. DOMAIN cells = 0 .. v - 1 /\ \A j \in 0 .. v - 1 : cells[j] \in Cell
  BY <1>9 DEF CellsOf
<1>13. \A j \in 0 .. v - 1 :
         /\ blanked[j] \in Cell /\ blanked[j].replacement = Blank
         /\ blanked[j].expiration = f.sent + 1 /\ blanked[j].line = f.line
         /\ blanked[j].epoch = f.prediction_epoch
  <2> SUFFICES ASSUME NEW j \in 0 .. v - 1
               PROVE  /\ blanked[j] \in Cell /\ blanked[j].replacement = Blank
                      /\ blanked[j].expiration = f.sent + 1 /\ blanked[j].line = f.line
                      /\ blanked[j].epoch = f.prediction_epoch
    OBVIOUS
  <2>1. cells[j].original \in SUBSET Characters
    BY <1>12 DEF Cell
  <2>2. Blank \in Characters
    BY DEF Characters
  <2>3. blanked[j] = [active |-> TRUE, unknown |-> FALSE, replacement |-> Blank,
                 original |-> cells[j].original, epoch |-> f.prediction_epoch,
                 expiration |-> f.sent + 1, time |-> t, line |-> f.line]
    BY <1>12
  <2> HIDE DEF blanked
  <2> QED
    BY <1>11, <2>1, <2>2, <2>3 DEF Cell
<1>14. blanked \in CellsOf(v)
  BY <1>12, <1>13 DEF CellsOf
<1> HIDE DEF blanked
<1>15. CASE l.row = fb.rows - 1
  <2> DEFINE z == [Last(f.cursors) EXCEPT !.row = l.row, !.col = 0]
  <2>1. g = Shifted(f, l.row, 0)
    <3>1. a = z
      BY <1>6 DEF Cursor
    <3>2. g = [f EXCEPT !.cursors[n] = a]
      BY <1>5, <1>11 DEF EngineOf
    <3> QED
      BY <1>4, <3>1, <3>2 DEF Shifted
  <2>2. PICK m : m = g
    OBVIOUS
  <2> HIDE DEF g, k, z
  <2>3. /\ m \in EngineOf(v) /\ Grown(f, m, v, G) /\ ActiveCells(m) = ActiveCells(f)
        /\ SameEpochs(f, m)
    <3>1. PICK q : q = l.row
      OBVIOUS
    <3>2. q \in Nat /\ m = Shifted(f, q, 0) /\ 0 \in Nat
      BY <1>7, <2>1, <2>2, <3>1
    <3> QED
      BY ONLY <1>2, <3>2, LastCursorShifted
  <2>4. m.sent = f.sent /\ m.line = f.line /\ m.prediction_epoch = f.prediction_epoch
    BY <2>3 DEF SameEpochs, Grown, Keeps
  <2>5. \A j \in 0 .. v - 1 : Fresh(blanked[j], m, G)
    BY <1>0, <1>13, <2>4 DEF Fresh
  <2>6. PICK x : x = WithCells(m, l.row, blanked)
    OBVIOUS
  <2>7. Grown(m, x, v, G)
    <3>1. Renewed(blanked, m, v, G)
      BY <2>5 DEF Renewed
    <3> QED
      BY <1>7, <1>14, <2>3, <2>6, <3>1, WithCellsGrown, Zenon
  <2>8. Grown(e, x, v, G)
    <3>1. Grown(e, m, v, G)
      BY ONLY e \in EngineOf(v), <1>3, <2>3, GrownTwice
    <3> QED
      BY ONLY e \in EngineOf(v), <3>1, <2>7, GrownTwice
  <2> QED
    BY <1>0, <1>10, <1>15, <2>2, <2>6, <2>8
<1>16. CASE l.row # fb.rows - 1
  <2> DEFINE z == [Last(f.cursors) EXCEPT !.row = l.row + 1, !.col = 0]
  <2>1. k = Shifted(f, l.row + 1, 0)
    <3>1. b = z
      BY <1>6 DEF Cursor
    <3>2. k = [f EXCEPT !.cursors[n] = b]
      <4>1. PICK d : d = [f.cursors[n] EXCEPT !.col = 0, !.row = f.cursors[n].row + 1]
        OBVIOUS
      <4>2. d = b
        BY <1>5, <1>6, <4>1 DEF Cursor
      <4>3. k = [f EXCEPT !.cursors[n] = d]
        BY <4>1
      <4> QED
        BY <4>2, <4>3
    <3> QED
      BY <1>4, <3>1, <3>2 DEF Shifted
  <2>2. PICK m : m = k
    OBVIOUS
  <2> HIDE DEF g, k, z
  <2>3. Grown(f, m, v, G) /\ ActiveCells(m) = ActiveCells(f)
    <3>1. PICK q : q = l.row + 1
      OBVIOUS
    <3>2. q \in Nat /\ m = Shifted(f, q, 0) /\ 0 \in Nat
      BY <1>7, <2>1, <2>2, <3>1
    <3> QED
      BY ONLY <1>2, <3>2, LastCursorShifted
  <2>4. Grown(e, m, v, G)
    BY ONLY e \in EngineOf(v), <1>3, <2>3, GrownTwice
  <2> QED
    BY <1>0, <1>10, <1>16, <2>2, <2>4
<1> QED
  BY <1>15, <1>16

LEMMA ExpectedIs ==
    ASSUME NEW h \in Nat, NEW v \in Nat, NEW fb \in ScreenOf(h, v), NEW cells \in CellsOf(v),
           NEW G, Shows(fb, G), \A c \in ActiveIn(cells, v) : c.replacement \in G,
           NEW r \in 0 .. h - 1, NEW j \in 0 .. v - 1, NEW x, x = Expected(cells, fb, r, j)
    PROVE  x.unknown \in BOOLEAN /\ x.glyph \in Characters \cap G
<1>1. cells[j] \in Cell
  BY DEF CellsOf
<1>2. fb.cell[r][j] \in Characters \cap G
  BY ScreenIs DEF Shows
<1>3. CASE cells[j].active
  <2>1. cells[j] \in ActiveIn(cells, v)
    BY <1>3 DEF ActiveIn
  <2> QED
    BY <1>1, <1>3, <2>1 DEF Expected, Cell
<1>4. CASE ~ cells[j].active
  BY <1>2, <1>4 DEF Expected
<1> QED
  BY <1>3, <1>4

\* A row in which each cell stays or is predicted anew.
Foretold(row, cells, e, v, G, t) ==
    /\ DOMAIN row = 0 .. v - 1 /\ row = [j \in 0 .. v - 1 |-> row[j]]
    /\ \A j \in 0 .. v - 1 :
          \/ row[j] = cells[j]
          \/ \E drawn \in Characters, unknown \in BOOLEAN, g \in Characters \cap G :
                row[j] = PredictCell(e, cells[j], drawn, unknown, g, t)

LEMMA ForetoldIs ==
    ASSUME NEW v \in Nat, NEW e \in EngineOf(v), NEW cells \in CellsOf(v), NEW t \in Nat,
           ActiveIn(cells, v) \subseteq ActiveCells(e),
           NEW G, Blank \in G, NEW row, Foretold(row, cells, e, v, G, t)
    PROVE  row \in CellsOf(v) /\ Renewed(row, e, v, G)
<1>1. ASSUME NEW j \in 0 .. v - 1
      PROVE  /\ row[j] \in Cell
             /\ row[j].active => row[j] \in ActiveCells(e) \/ Fresh(row[j], e, G)
  <2>1. cells[j] \in Cell
    BY DEF CellsOf
  <2>2. CASE row[j] = cells[j]
    <3>1. cells[j].active => cells[j] \in ActiveIn(cells, v)
      BY DEF ActiveIn
    <3> QED
      BY <2>1, <2>2, <3>1
  <2>3. CASE \E drawn \in Characters, unknown \in BOOLEAN, g \in Characters \cap G :
               row[j] = PredictCell(e, cells[j], drawn, unknown, g, t)
    <3>1. PICK drawn \in Characters, unknown \in BOOLEAN, g \in Characters \cap G :
               row[j] = PredictCell(e, cells[j], drawn, unknown, g, t)
      BY <2>3
    <3>2. PICK c : c = cells[j]
      OBVIOUS
    <3>3. PICK p : p = row[j]
      OBVIOUS
    <3>4. c \in Cell /\ g \in Characters /\ p = PredictCell(e, c, drawn, unknown, g, t)
      BY <2>1, <3>1, <3>2, <3>3
    <3>5. /\ p \in Cell /\ p.expiration = e.sent + 1 /\ p.line = e.line
          /\ p.epoch = e.prediction_epoch /\ p.replacement \in {Blank, g}
      BY <3>1, <3>4, PredictCellIs
    <3> QED
      BY <3>1, <3>3, <3>5 DEF Fresh
  <2> QED
    BY <2>2, <2>3 DEF Foretold
<1>2. row \in CellsOf(v)
  BY <1>1 DEF Foretold, CellsOf
<1> QED
  BY <1>1, <1>2 DEF Renewed

LEMMA HandleGlyphIs ==
    ASSUME NEW h \in Nat, NEW v \in Nat, NEW e \in EngineOf(v), NEW fb \in ScreenOf(h, v),
           NEW t \in Nat, NEW G, NEW g \in Characters \cap G, Blank \in G,
           Shows(fb, G), Predicts(e, G)
    PROVE  Grown(e, HandleGlyph(e, g, fb, t), v, G)
<1>1. PICK e1 : e1 = InitCursor(e, fb)
  OBVIOUS
<1>2. e1 \in EngineOf(v) /\ CursorMoved(e, e1) /\ e1.cursors # << >>
  BY <1>1, InitCursorIs
<1>3. Grown(e, e1, v, G)
  BY <1>2, MovedGrown
<1>4. Last(e1.cursors) \in Cursor
  BY <1>2, CursorsAre
<1>5. PICK r : r = Last(e1.cursors).row
  OBVIOUS
<1>6. PICK col : col = Last(e1.cursors).col
  OBVIOUS
<1>7. r \in Nat /\ col \in Nat /\ fb.cols = v /\ fb.rows = h
  BY <1>4, <1>5, <1>6, ScreenIs DEF Cursor
<1>8. PICK e2 : e2 = IF col + 1 >= v THEN BecomeTentative(e1) ELSE e1
  OBVIOUS
<1>9. Grown(e1, e2, v, G) /\ e2.cursors = e1.cursors
  <2>1. CASE e2 = e1
    BY <1>2, <2>1, CulledSelf, CulledGrown
  <2>2. CASE e2 = BecomeTentative(e1)
    BY <1>2, <2>2, TentativeGrown, BecomeTentativeIs DEF SamePredictions
  <2> QED
    BY <1>8, <2>1, <2>2
<1>10. Grown(e, e2, v, G)
  BY ONLY e \in EngineOf(v), <1>3, <1>9, GrownTwice
<1>11. e2 \in EngineOf(v) /\ Predicts(e2, G) /\ e2.cursors # << >>
  BY <1>2, <1>9, <1>10, GrownPredicts DEF Grown
<1>12. PICK cells : cells = CellsAt(e2, r, v)
  OBVIOUS
<1>13. cells \in CellsOf(v) /\ ActiveIn(cells, v) \subseteq ActiveCells(e2)
  BY <1>11, <1>12, CellsAtIs
<1> DEFINE printed ==
            [j \in DOMAIN cells |->
                CASE j < col \/ (j > col /\ e.overwrite) -> cells[j]
                  [] j = col ->
                        PredictCell(e2, cells[j], fb.cell[r][j], FALSE, g, t)
                  [] OTHER ->
                        LET x == Expected(cells, fb, r, j - 1)
                        IN  PredictCell(e2, cells[j], fb.cell[r][j],
                                        j = v - 1 \/ x.unknown, x.glyph, t)]
           e3 == WithCells(e2, r, printed)
<1>14. HandleGlyph(e, g, fb, t) =
         IF r >= fb.rows \/ col >= v THEN e1
         ELSE IF col + 1 < v THEN MoveCursor(e3, col + 1)
         ELSE NewlineCarriageReturn(BecomeTentative(MoveCursor(e3, col)), fb, t)
  BY <1>1, <1>5, <1>6, <1>7, <1>8, <1>12 DEF HandleGlyph
<1>15. CASE r >= fb.rows \/ col >= v
  BY <1>3, <1>14, <1>15
<1>16. CASE ~ (r >= fb.rows \/ col >= v)
  <2>1. r \in 0 .. h - 1 /\ col \in 0 .. v - 1
    BY <1>7, <1>16
  <2>2. Foretold(printed, cells, e2, v, G, t)
    <3>1. DOMAIN printed = 0 .. v - 1 /\ printed = [j \in 0 .. v - 1 |-> printed[j]]
      BY <1>13 DEF CellsOf
    <3>2. ASSUME NEW j \in 0 .. v - 1
          PROVE  \/ printed[j] = cells[j]
                 \/ \E drawn \in Characters, unknown \in BOOLEAN, s \in Characters \cap G :
                      printed[j] = PredictCell(e2, cells[j], drawn, unknown, s, t)
      <4>1. PICK drawn : drawn = fb.cell[r][j]
        OBVIOUS
      <4>2. drawn \in Characters
        <5>1. fb.cell \in [0 .. h - 1 -> [0 .. v - 1 -> Characters]]
          BY ScreenIs
        <5> QED
          BY ONLY <2>1, <4>1, <5>1, j \in 0 .. v - 1
      <4>3. CASE j < col \/ (j > col /\ e.overwrite)
        <5>1. j # col /\ j \in DOMAIN cells
          BY <1>13, <2>1, <4>3 DEF CellsOf
        <5>2. printed[j] = cells[j]
          BY ONLY <4>3, <5>1
        <5> QED
          BY <5>2
      <4>4. CASE j = col
        <5>1. printed[j] = PredictCell(e2, cells[j], drawn, FALSE, g, t)
          BY <1>13, <2>1, <4>1, <4>4 DEF CellsOf
        <5> HIDE DEF printed
        <5> QED
          BY <4>2, <5>1
      <4>5. CASE ~ (j < col \/ (j > col /\ e.overwrite)) /\ j # col
        <5>1. j - 1 \in 0 .. v - 1
          BY <2>1, <4>5
        <5>2. PICK x : x = Expected(cells, fb, r, j - 1)
          OBVIOUS
        <5>3. \A c \in ActiveIn(cells, v) : c.replacement \in G
          BY <1>11, <1>13 DEF Predicts
        <5>4. x.unknown \in BOOLEAN /\ x.glyph \in Characters \cap G
          <6>1. PICK i : i = j - 1
            OBVIOUS
          <6>2. i \in 0 .. v - 1 /\ x = Expected(cells, fb, r, i)
            BY <5>1, <5>2, <6>1
          <6> QED
            BY <1>13, <2>1, <5>3, <6>2, ExpectedIs
        <5>5. printed[j] = PredictCell(e2, cells[j], drawn, j = v - 1 \/ x.unknown, x.glyph, t)
          BY <1>13, <4>1, <4>5, <5>2 DEF CellsOf
        <5> HIDE DEF printed
        <5>6. PICK u \in BOOLEAN : u = (j = v - 1 \/ x.unknown)
          BY <5>4
        <5> QED
          BY <4>2, <5>4, <5>5, <5>6
      <4> QED
        BY <4>3, <4>4, <4>5
    <3> HIDE DEF printed
    <3> QED
      BY <3>1, <3>2 DEF Foretold
  <2> HIDE DEF printed
  <2>3. printed \in CellsOf(v) /\ Renewed(printed, e2, v, G)
    BY <1>11, <1>13, <2>2, ForetoldIs
  <2>4. PICK f : f = e3
    OBVIOUS
  <2>5. Grown(e2, f, v, G) /\ f.cursors = e2.cursors
    <3>1. f = WithCells(e2, r, printed)
      BY <2>4
    <3>2. r \in Nat /\ e2 \in EngineOf(v)
      BY <1>7, <1>11
    <3> HIDE DEF e3
    <3>3. Grown(e2, f, v, G)
      BY <2>3, <3>1, <3>2, WithCellsGrown, Zenon
    <3>4. f.cursors = e2.cursors
      BY ONLY <2>3, <3>1, <3>2, WithCellsIs
    <3> QED
      BY <3>3, <3>4
  <2> HIDE DEF e3
  <2>6. Grown(e, f, v, G)
    BY ONLY e \in EngineOf(v), <1>10, <2>5, GrownTwice
  <2>7. f \in EngineOf(v) /\ f.cursors # << >>
    BY <1>11, <2>5 DEF Grown
  <2>8. ASSUME NEW c \in Nat
        PROVE  /\ MoveCursor(f, c) \in EngineOf(v) /\ Grown(e, MoveCursor(f, c), v, G)
    <3>1. PICK m : m = MoveCursor(f, c)
      OBVIOUS
    <3>2. m \in EngineOf(v) /\ CursorMoved(f, m)
      BY <2>7, <3>1, MoveCursorIs
    <3>3. Grown(f, m, v, G)
      BY <2>7, <3>2, MovedGrown
    <3>4. Grown(e, m, v, G)
      BY ONLY e \in EngineOf(v), <2>6, <3>3, GrownTwice
    <3> QED
      BY <3>1, <3>2, <3>4
  <2>9. CASE col + 1 < v
    <3>1. HandleGlyph(e, g, fb, t) = MoveCursor(f, col + 1) /\ col + 1 \in Nat
      BY <1>7, <1>14, <1>16, <2>4, <2>9
    <3> QED
      BY <2>8, <3>1
  <2>10. CASE ~ (col + 1 < v)
    <3>1. PICK m : m = MoveCursor(f, col)
      OBVIOUS
    <3>2. m \in EngineOf(v) /\ Grown(e, m, v, G)
      BY <1>7, <2>8, <3>1
    <3>3. PICK k : k = BecomeTentative(m)
      OBVIOUS
    <3>4. Grown(m, k, v, G)
      BY <3>2, <3>3, TentativeGrown
    <3>5. k \in EngineOf(v)
      BY <3>4 DEF Grown
    <3>6. PICK n : n = NewlineCarriageReturn(k, fb, t)
      OBVIOUS
    <3>7. Grown(k, n, v, {Blank})
      BY <3>5, <3>6, NewlineIs
    <3>8. Grown(k, n, v, G)
      BY <3>7, GrownWider
    <3>9. Grown(e, k, v, G)
      BY ONLY e \in EngineOf(v), <3>2, <3>4, GrownTwice
    <3>10. Grown(e, n, v, G)
      BY ONLY e \in EngineOf(v), <3>8, <3>9, GrownTwice
    <3> QED
      BY <1>14, <1>16, <2>4, <2>10, <3>1, <3>3, <3>6, <3>10
  <2> QED
    BY <2>9, <2>10
<1> QED
  BY <1>15, <1>16

LEMMA HandleBackspaceIs ==
    ASSUME NEW h \in Nat, NEW v \in Nat, NEW e \in EngineOf(v), NEW fb \in ScreenOf(h, v),
           NEW t \in Nat, NEW G, Blank \in G, Shows(fb, G), Predicts(e, G), Within(e, fb)
    PROVE  Grown(e, HandleBackspace(e, fb, t), v, G)
<1>1. PICK e1 : e1 = InitCursor(e, fb)
  OBVIOUS
<1>2. e1 \in EngineOf(v) /\ CursorMoved(e, e1) /\ e1.cursors # << >> /\ Within(e1, fb)
  BY <1>1, InitCursorIs
<1>3. Grown(e, e1, v, G)
  BY <1>2, MovedGrown
<1>4. Last(e1.cursors) \in Cursor /\ Last(e1.cursors) \in Cursors(e1)
  BY <1>2, CursorsAre
<1>5. PICK r : r = Last(e1.cursors).row
  OBVIOUS
<1>6. PICK col : col = Last(e1.cursors).col - 1
  OBVIOUS
<1>7. fb.cols = v /\ fb.rows = h
  BY ScreenIs
<1>8. r \in 0 .. h - 1 /\ col \in Int /\ col < v
  BY <1>2, <1>4, <1>5, <1>6, <1>7 DEF Cursor, Within
<1>9. Predicts(e1, G)
  BY <1>3, GrownPredicts
<1>10. PICK cells : cells = CellsAt(e1, r, v)
  OBVIOUS
<1>11. cells \in CellsOf(v) /\ ActiveIn(cells, v) \subseteq ActiveCells(e1)
  BY <1>2, <1>10, CellsAtIs
<1> DEFINE erased ==
            [j \in DOMAIN cells |->
                CASE j < col \/ (j > col /\ e.overwrite) -> cells[j]
                  [] j = col /\ e.overwrite ->
                        PredictCell(e1, cells[j], fb.cell[r][j], FALSE, Blank, t)
                  [] OTHER ->
                        LET x == IF j + 2 < v THEN Expected(cells, fb, r, j + 1)
                                 ELSE [unknown |-> TRUE, glyph |-> Blank]
                        IN  PredictCell(e1, cells[j], fb.cell[r][j],
                                        x.unknown, x.glyph, t)]
<1>12. HandleBackspace(e, fb, t) =
         IF col < 0 THEN e1 ELSE WithCells(MoveCursor(e1, col), r, erased)
  BY <1>1, <1>5, <1>6, <1>7, <1>10 DEF HandleBackspace
<1>13. CASE col < 0
  BY <1>3, <1>12, <1>13
<1>14. CASE ~ (col < 0)
  <2>1. col \in Nat
    BY <1>8, <1>14
  <2>2. Foretold(erased, cells, e1, v, G, t)
    <3>1. DOMAIN erased = 0 .. v - 1 /\ erased = [j \in 0 .. v - 1 |-> erased[j]]
      BY <1>11 DEF CellsOf
    <3>2. ASSUME NEW j \in 0 .. v - 1
          PROVE  \/ erased[j] = cells[j]
                 \/ \E drawn \in Characters, unknown \in BOOLEAN, s \in Characters \cap G :
                      erased[j] = PredictCell(e1, cells[j], drawn, unknown, s, t)
      <4>1. PICK drawn : drawn = fb.cell[r][j]
        OBVIOUS
      <4>2. drawn \in Characters /\ Blank \in Characters \cap G
        BY <1>8, <4>1, ScreenIs DEF Characters
      <4>3. CASE j < col \/ (j > col /\ e.overwrite)
        <5>1. ~ (j = col /\ e.overwrite) /\ j \in DOMAIN cells
          BY <1>11, <2>1, <4>3 DEF CellsOf
        <5>2. erased[j] = cells[j]
          BY ONLY <4>3, <5>1
        <5> QED
          BY <5>2
      <4>4. CASE j = col /\ e.overwrite
        <5>1. erased[j] = PredictCell(e1, cells[j], drawn, FALSE, Blank, t)
          BY <1>11, <2>1, <4>1, <4>4 DEF CellsOf
        <5> HIDE DEF erased
        <5> QED
          BY <4>2, <5>1
      <4>5. CASE ~ (j < col \/ (j > col /\ e.overwrite)) /\ ~ (j = col /\ e.overwrite)
        <5>1. PICK x : x = IF j + 2 < v THEN Expected(cells, fb, r, j + 1)
                           ELSE [unknown |-> TRUE, glyph |-> Blank]
          OBVIOUS
        <5>2. \A c \in ActiveIn(cells, v) : c.replacement \in G
          BY <1>9, <1>11 DEF Predicts
        <5>3. x.unknown \in BOOLEAN /\ x.glyph \in Characters \cap G
          <6>1. CASE j + 2 < v
            <7>1. PICK i : i = j + 1
              OBVIOUS
            <7>2. i \in 0 .. v - 1 /\ x = Expected(cells, fb, r, i)
              BY <5>1, <6>1, <7>1
            <7> QED
              BY <1>8, <1>11, <5>2, <7>2, ExpectedIs
          <6>2. CASE ~ (j + 2 < v)
            BY <4>2, <5>1, <6>2
          <6> QED
            BY <6>1, <6>2
        <5>4. erased[j] = PredictCell(e1, cells[j], drawn, x.unknown, x.glyph, t)
          BY <1>11, <4>1, <4>5, <5>1 DEF CellsOf
        <5> HIDE DEF erased
        <5> QED
          BY <4>2, <5>3, <5>4
      <4> QED
        BY <4>3, <4>4, <4>5
    <3> HIDE DEF erased
    <3> QED
      BY <3>1, <3>2 DEF Foretold
  <2> HIDE DEF erased
  <2>3. erased \in CellsOf(v) /\ Renewed(erased, e1, v, G)
    BY <1>2, <1>11, <2>2, ForetoldIs
  <2>4. PICK m : m = MoveCursor(e1, col)
    OBVIOUS
  <2>5. m \in EngineOf(v) /\ CursorMoved(e1, m)
    BY <1>2, <2>1, <2>4, MoveCursorIs
  <2>6. Grown(e1, m, v, G) /\ ActiveCells(m) = ActiveCells(e1)
    BY <1>2, <2>5, MovedGrown
  <2>7. Grown(e, m, v, G)
    BY ONLY e \in EngineOf(v), <1>3, <2>6, GrownTwice
  <2>8. Renewed(erased, m, v, G)
    <3>1. m.sent = e1.sent /\ m.line = e1.line /\ m.prediction_epoch = e1.prediction_epoch
      BY <2>5 DEF CursorMoved, Keeps, SameEpochs
    <3> QED
      BY <2>3, <2>6, <3>1 DEF Renewed, Fresh
  <2>9. PICK f : f = WithCells(m, r, erased)
    OBVIOUS
  <2>10. Grown(m, f, v, G)
    <3>1. r \in Nat /\ erased \in CellsOf(v)
      BY <1>8, <2>3
    <3> QED
      BY <2>5, <2>8, <2>9, <3>1, WithCellsGrown, Zenon
  <2>11. Grown(e, f, v, G)
    BY ONLY e \in EngineOf(v), <2>7, <2>10, GrownTwice
  <2> QED
    BY <1>12, <1>14, <2>4, <2>9, <2>11
<1> QED
  BY <1>13, <1>14

LEMMA HandleArrowIs ==
    ASSUME NEW h \in Nat, NEW v \in Nat, NEW e \in EngineOf(v), NEW fb \in ScreenOf(h, v),
           NEW step, NEW G
    PROVE  Grown(e, HandleArrow(e, step, fb), v, G)
<1>1. PICK f : f = InitCursor(e, fb)
  OBVIOUS
<1>2. f \in EngineOf(v) /\ CursorMoved(e, f) /\ f.cursors # << >>
  BY <1>1, InitCursorIs
<1>3. Grown(e, f, v, G)
  BY <1>2, MovedGrown
<1>4. PICK col : col = Last(f.cursors).col + step
  OBVIOUS
<1>5. HandleArrow(e, step, fb) = IF col \in 0 .. fb.cols - 1 THEN MoveCursor(f, col) ELSE f
  BY <1>1, <1>4 DEF HandleArrow
<1>6. CASE col \in 0 .. fb.cols - 1
  <2>1. col \in Nat
    BY <1>6, ScreenIs
  <2>2. PICK m : m = MoveCursor(f, col)
    OBVIOUS
  <2>3. m \in EngineOf(v) /\ CursorMoved(f, m)
    BY <1>2, <2>1, <2>2, MoveCursorIs
  <2>4. Grown(f, m, v, G)
    BY <1>2, <2>3, MovedGrown
  <2>5. Grown(e, m, v, G)
    BY ONLY e \in EngineOf(v), <1>3, <2>4, GrownTwice
  <2> QED
    BY <1>5, <1>6, <2>2, <2>5
<1> QED
  BY <1>3, <1>5, <1>6

LEMMA HandlePrintIs ==
    ASSUME NEW h \in Nat, NEW v \in Nat, NEW e \in EngineOf(v), NEW fb \in ScreenOf(h, v),
           NEW t \in Nat, NEW G, Blank \in G, Shows(fb, G), Predicts(e, G), Within(e, fb),
           NEW ch, ch = "wide" \/ ch \in Characters \cap G
    PROVE  Grown(e, HandlePrint(e, ch, fb, t), v, G)
<1>1. CASE ch = "DEL"
  BY <1>1, HandleBackspaceIs DEF HandlePrint
<1>2. CASE ch = "wide"
  BY <1>2, TentativeGrown DEF HandlePrint
<1>3. CASE ch # "DEL" /\ ch # "wide"
  BY <1>3, HandleGlyphIs DEF HandlePrint
<1> QED
  BY <1>1, <1>2, <1>3

\* A key is parsed whatever was cut short before it, and Enter is never taken
\* for part of another key.
LEMMA InputByteIs ==
    ASSUME NEW state \in Parsers, NEW b, NEW act, act = InputByte(state, b)
    PROVE  /\ act.state \in Parsers
           /\ act.kind = "Print" => act.ch \in {b, "narrow", "wide"}
           /\ b = "CR" => /\ act.kind \notin {"None", "Print"}
                          /\ act.kind = "CsiDispatch" => act.ch = "CR"
<1> DEFINE P(a) == /\ a.state \in Parsers
                   /\ a.kind = "Print" => a.ch \in {b, "narrow", "wide"}
                   /\ b = "CR" => /\ a.kind \notin {"None", "Print"}
                                  /\ a.kind = "CsiDispatch" => a.ch = "CR"
<1>1. P(FromGround(b))
  BY DEF FromGround, Parsed, Parsers, Controls
<1>2. CASE state = "ESC"
  BY <1>2 DEF InputByte, Parsed, Parsers
<1>3. CASE state = "CSI"
  BY <1>3 DEF InputByte, Parsed, Parsers, Params
<1>4. CASE state = "LEAD2"
  BY <1>1, <1>4 DEF InputByte, Parsed, Parsers
<1>5. CASE state = "LEAD3"
  BY <1>1, <1>5 DEF InputByte, Parsed, Parsers
<1>6. CASE state = "LAST3"
  BY <1>1, <1>6 DEF InputByte, Parsed, Parsers
<1>7. CASE state = "Ground"
  BY <1>1, <1>7 DEF InputByte
<1> QED
  BY <1>2, <1>3, <1>4, <1>5, <1>6, <1>7 DEF Parsers

\* Nothing that is predicted is due.
Pending(e) ==
    /\ \A c \in ActiveCells(e) : c.expiration > e.late_acked
    /\ \A d \in Due(e) : d > e.late_acked

LEMMA PendingUnproven ==
    ASSUME NEW w, NEW e \in EngineOf(w), Pending(e), NEW fb
    PROVE  Proven(e, fb) = {}
<1> SUFFICES ASSUME NEW c \in Proven(e, fb) PROVE FALSE
  OBVIOUS
<1>1. c \in Cell /\ c.expiration > e.late_acked /\ e.late_acked \in Nat
  BY ActiveCellsAre DEF Proven, Pending, EngineOf
<1>2. PICK i \in 1 .. Len(e.overlays), j \in 0 .. e.width - 1 :
        Validity(c, fb, e.overlays[i].row, j, e.late_acked) = "Correct"
  BY DEF Proven
<1>3. c.expiration <= e.late_acked
  <2>1. PICK late : late = e.late_acked
    OBVIOUS
  <2>2. PICK r : r = e.overlays[i].row
    OBVIOUS
  <2>3. late \in Nat /\ Validity(c, fb, r, j, late) = "Correct"
    BY <1>1, <1>2, <2>1, <2>2
  <2>4. c.expiration <= late
    BY <1>1, <2>3, ValidityIs
  <2> QED
    BY <2>1, <2>4
<1> QED
  BY <1>1, <1>3 DEF Cell

\* What one byte makes of the predictions: only Enter's handler is singled out,
\* which starts an epoch and predicts nothing but blanks in it.
Entered(e, f) ==
    /\ f.prediction_epoch > e.prediction_epoch
    /\ \A c \in ActiveCells(f) : c \in ActiveCells(e) \/ c.replacement = Blank

LEMMA NewUserByteIs ==
    ASSUME NEW w, NEW e \in EngineOf(w), e.preference # "never", Pending(e),
           NEW h \in Nat, NEW v \in Nat, NEW fb \in ScreenOf(h, v), NEW t \in Nat,
           NEW b \in Characters, NEW G, {Blank, "narrow", b} \subseteq G,
           Shows(fb, G), Predicts(e, G)
    PROVE  /\ Grown(e, NewUserByte(e, b, fb, t), v, G)
           /\ b = "CR" /\ ~ Experimental(e) => Entered(e, NewUserByte(e, b, fb, t))
<1>1. PICK e1 : e1 = IF Experimental(e) THEN [e EXCEPT !.prediction_epoch = e.confirmed_epoch] ELSE e
  OBVIOUS
<1>2. /\ e1 \in EngineOf(w) /\ Keeps(e, e1) /\ SamePredictions(e, e1)
      /\ e1.confirmed_epoch = e.confirmed_epoch
      /\ Experimental(e) \/ e1.prediction_epoch = e.prediction_epoch
  BY <1>1 DEF EngineOf, Keeps, SamePredictions
<1>3. /\ ActiveCells(e1) = ActiveCells(e) /\ Cursors(e1) = Cursors(e) /\ Due(e1) = Due(e)
      /\ e1.preference # "never" /\ e1.late_acked = e.late_acked
  BY <1>2 DEF SamePredictions, ActiveCells, Cursors, Due, Keeps
<1>4. Grown(e, e1, w, G)
  <2>1. e.prediction_epoch \in Nat
    BY DEF EngineOf
  <2> QED
    BY <1>2, <1>3, <2>1 DEF Grown
<1>5. Pending(e1)
  BY <1>3 DEF Pending
<1>6. PICK c : c = Cull(e1, fb, t)
  OBVIOUS
<1>7. Survives(e1, c, v, fb)
  BY <1>2, <1>3, <1>6, CullIs
<1>8. Culled(e1, c, v) /\ c.confirmed_epoch = e1.confirmed_epoch /\ Within(c, fb)
  <2>1. Proven(e1, fb) = {}
    BY <1>2, <1>5, PendingUnproven
  <2> QED
    BY <1>7, <2>1 DEF Survives
<1>9. PICK act : act = InputByte(e.parser, b)
  OBVIOUS
<1>10. /\ act.state \in Parsers
       /\ act.kind = "Print" => act.ch \in {b, "narrow", "wide"}
       /\ b = "CR" => /\ act.kind \notin {"None", "Print"}
                      /\ act.kind = "CsiDispatch" => act.ch = "CR"
  <2>1. PICK p : p = e.parser
    OBVIOUS
  <2>2. p \in Parsers /\ act = InputByte(p, b)
    BY <1>9, <2>1 DEF EngineOf
  <2> QED
    BY ONLY <2>2, InputByteIs
<1>11. PICK e2 : e2 = [c EXCEPT !.parser = act.state]
  OBVIOUS
<1>12. c \in EngineOf(v)
  BY <1>8 DEF Culled
<1>13. e2 \in EngineOf(v) /\ Retuned(c, e2)
  BY <1>10, <1>11, <1>12 DEF EngineOf, Retuned, Keeps, SameEpochs, SamePredictions
<1>14. /\ Culled(c, e2, v) /\ ActiveCells(e2) = ActiveCells(c) /\ Cursors(e2) = Cursors(c)
       /\ e2.confirmed_epoch = c.confirmed_epoch
  BY <1>12, <1>13, RetunedCulled
<1>15. Within(e2, fb)
  BY <1>8, <1>14 DEF Within
<1>16. Grown(e, e2, v, G) /\ ActiveCells(e2) \subseteq ActiveCells(e)
  <2>1. Culled(e1, e2, v)
    BY ONLY <1>2, <1>8, <1>14, CulledTwice
  <2>2. Grown(e1, e2, v, G)
    BY <1>8, <1>14, <2>1, CulledGrown
  <2>3. Grown(e, e2, v, G)
    BY ONLY e \in EngineOf(w), <1>4, <2>2, GrownTwice
  <2> QED
    BY <1>3, <2>1, <2>3 DEF Culled
<1>17. Predicts(e2, G)
  BY <1>16, GrownPredicts
<1>18. PICK f : f = NewUserByte(e, b, fb, t)
  OBVIOUS
<1> DEFINE ready == BecomeTentative(e2)
<1>19. /\ Grown(e2, ready, v, G) /\ ready \in EngineOf(v) /\ ActiveCells(ready) = ActiveCells(e2)
       /\ Experimental(e2) \/ ready.prediction_epoch = e2.prediction_epoch + 1
  BY <1>13, TentativeGrown DEF Grown
<1>20. /\ act.kind = "None" => f = e2
       /\ act.kind = "Print" => f = HandlePrint(e2, act.ch, fb, t)
       /\ act.kind = "Execute" /\ act.ch = "CR" => f = NewlineCarriageReturn(ready, fb, t)
       /\ act.kind = "CsiDispatch" /\ act.ch = "C" => f = HandleArrow(e2, 1, fb)
       /\ act.kind = "CsiDispatch" /\ act.ch = "D" => f = HandleArrow(e2, -1, fb)
       /\ ~ (\/ act.kind \in {"None", "Print"}
             \/ act.kind = "Execute" /\ act.ch = "CR"
             \/ act.kind = "CsiDispatch" /\ act.ch \in {"C", "D"}) => f = ready
  BY <1>1, <1>6, <1>9, <1>11, <1>18 DEF NewUserByte
<1> HIDE DEF ready
<1>21. Grown(ready, NewlineCarriageReturn(ready, fb, t), v, {Blank})
  BY <1>19, NewlineIs
<1>22. Grown(e2, f, v, G)
  <2>1. CASE act.kind = "None"
    BY <1>13, <1>20, <2>1, CulledSelf, CulledGrown
  <2>2. CASE act.kind = "Print"
    <3>1. PICK ch : ch = act.ch
      OBVIOUS
    <3>2. {b, "narrow"} \subseteq Characters \cap G
      BY DEF Characters
    <3>3. ch = "wide" \/ ch \in Characters \cap G
      BY <1>10, <2>2, <3>1, <3>2
    <3>4. f = HandlePrint(e2, ch, fb, t) /\ Blank \in G
      BY <1>20, <2>2, <3>1
    <3> QED
      BY <1>13, <1>15, <1>17, <3>3, <3>4, HandlePrintIs
  <2>3. CASE act.kind = "Execute" /\ act.ch = "CR"
    <3>1. PICK n : n = NewlineCarriageReturn(ready, fb, t)
      OBVIOUS
    <3>2. Grown(ready, n, v, G)
      BY <1>21, <3>1, GrownWider
    <3>3. Grown(e2, n, v, G)
      BY ONLY <1>13, <1>19, <3>2, GrownTwice
    <3> QED
      BY <1>20, <2>3, <3>1, <3>3
  <2>4. CASE act.kind = "CsiDispatch" /\ act.ch \in {"C", "D"}
    BY <1>13, <1>20, <2>4, HandleArrowIs
  <2>5. CASE f = ready
    BY <1>19, <2>5
  <2> QED
    BY <1>20, <2>1, <2>2, <2>3, <2>4, <2>5
<1>23. Grown(e, f, v, G)
  BY ONLY e \in EngineOf(w), <1>16, <1>22, GrownTwice
<1>24. ASSUME b = "CR", ~ Experimental(e) PROVE Entered(e, f)
  <2>1. e.prediction_epoch \in Nat /\ e2.prediction_epoch \in Nat
    BY <1>13 DEF EngineOf
  <2>2. e2.prediction_epoch >= e.prediction_epoch /\ ~ Experimental(e2)
    BY <1>16, <1>24 DEF Grown, Keeps, Experimental
  <2>3. ready.prediction_epoch > e.prediction_epoch /\ ready.prediction_epoch \in Nat
    BY <1>19, <2>1, <2>2
  <2>4. ActiveCells(ready) \subseteq ActiveCells(e) /\ ~ Experimental(ready)
    BY <1>16, <1>19, <2>2 DEF Grown, Keeps, Experimental
  <2>5. CASE f = ready
    BY <2>3, <2>4, <2>5 DEF Entered
  <2>6. CASE f = NewlineCarriageReturn(ready, fb, t)
    <3>1. Grown(ready, f, v, {Blank})
      BY <1>21, <2>6
    <3>2. f.prediction_epoch >= ready.prediction_epoch /\ f.prediction_epoch \in Nat
      BY <2>4, <3>1 DEF Grown, EngineOf
    <3>3. \A d \in ActiveCells(f) : d \in ActiveCells(ready) \/ d.replacement = Blank
      BY <3>1 DEF Grown, Made
    <3>4. f.prediction_epoch > e.prediction_epoch
      BY <2>1, <2>3, <3>2
    <3> QED
      BY <2>4, <3>3, <3>4 DEF Entered
  <2> QED
    BY <1>10, <1>20, <1>24, <2>5, <2>6
<1> QED
  BY <1>18, <1>23, <1>24

-----------------------------------------------------------------------------
(***************************************************************************)
(* The bytes of one read: what n bytes at offset o, on line l, add.        *)
(***************************************************************************)
Added(c, e, f, G, o, l, n) ==
    /\ c.expiration \in o + 1 .. o + n /\ c.line = l /\ c.replacement \in G
    /\ \/ Experimental(e)
       \/ e.prediction_epoch <= c.epoch /\ c.epoch <= f.prediction_epoch

Typed(e, f, G, o, l, n) ==
    /\ f \in EngineOf(f.width)
    /\ f.preference = e.preference /\ f.late_acked = e.late_acked
    /\ f.confirmed_epoch = e.confirmed_epoch
    /\ Experimental(e) \/ f.prediction_epoch >= e.prediction_epoch
    /\ \A c \in ActiveCells(f) : c \in ActiveCells(e) \/ Added(c, e, f, G, o, l, n)
    /\ Due(f) \subseteq Due(e) \cup (o + 1 .. o + n)
    /\ n > 0 => f.sent = o + n - 1

LEMMA TypedPending ==
    ASSUME NEW e, NEW w, e \in EngineOf(w), NEW f, NEW G, NEW o \in Nat, NEW l, NEW n \in Nat,
           Typed(e, f, G, o, l, n), Pending(e), e.late_acked <= o
    PROVE  Pending(f)
<1>1. e.late_acked \in Nat /\ f.late_acked = e.late_acked
  BY DEF EngineOf, Typed
<1>2. ASSUME NEW c \in ActiveCells(f) PROVE c.expiration > e.late_acked
  <2>1. CASE c \in ActiveCells(e)
    BY <2>1 DEF Pending
  <2>2. CASE Added(c, e, f, G, o, l, n)
    BY <1>1, <2>2 DEF Added
  <2> QED
    BY <2>1, <2>2 DEF Typed
<1>3. ASSUME NEW d \in Due(f) PROVE d > e.late_acked
  <2>1. d \in Due(e) \/ d \in o + 1 .. o + n
    BY DEF Typed
  <2> QED
    BY <1>1, <2>1 DEF Pending
<1> QED
  BY <1>1, <1>2, <1>3 DEF Pending

LEMMA TypedPredicts ==
    ASSUME NEW e, NEW f, NEW G, NEW o, NEW l, NEW n, Typed(e, f, G, o, l, n), Predicts(e, G)
    PROVE  Predicts(f, G)
  BY DEF Typed, Predicts, Added

At(e, sent, l) == [e EXCEPT !.sent = sent, !.line = l]

LEMMA AtIs ==
    ASSUME NEW w, NEW e \in EngineOf(w), NEW sent \in Nat, NEW l \in Nat,
           NEW f, f = At(e, sent, l)
    PROVE  /\ f \in EngineOf(w) /\ SamePredictions(e, f) /\ SameEpochs(e, f)
           /\ f.preference = e.preference /\ f.late_acked = e.late_acked
           /\ f.sent = sent /\ f.line = l
           /\ ActiveCells(f) = ActiveCells(e) /\ Cursors(f) = Cursors(e) /\ Due(f) = Due(e)
<1>1. /\ f \in EngineOf(w) /\ SamePredictions(e, f) /\ SameEpochs(e, f)
      /\ f.preference = e.preference /\ f.late_acked = e.late_acked
      /\ f.sent = sent /\ f.line = l
  BY DEF At, EngineOf, SamePredictions, SameEpochs
<1> QED
  BY <1>1 DEF SamePredictions, ActiveCells, Cursors, Due

LEMMA TypedByte ==
    ASSUME NEW w, NEW e \in EngineOf(w), e.preference # "never", Pending(e),
           NEW o \in Nat, NEW l \in Nat, e.late_acked <= o,
           NEW h \in Nat, NEW v \in Nat, NEW fb \in ScreenOf(h, v), NEW t \in Nat,
           NEW b \in Characters, NEW G, {Blank, "narrow", b} \subseteq G,
           Shows(fb, G), Predicts(e, G),
           NEW n \in Nat, NEW q, Typed(e, q, G, o, l, n),
           NEW f, f = NewUserByte(At(q, o + n, l), b, fb, t)
    PROVE  /\ Typed(e, f, G, o, l, n + 1)
           /\ q = e /\ b = "CR" /\ ~ Experimental(e) => Entered(e, f)
<1>1. PICK a : a = At(q, o + n, l)
  OBVIOUS
<1>2. PICK u : u = q.width
  OBVIOUS
<1>3. q \in EngineOf(u)
  BY <1>2 DEF Typed
<1>4. /\ a \in EngineOf(u) /\ SameEpochs(q, a)
      /\ a.preference = q.preference /\ a.late_acked = q.late_acked
      /\ a.sent = o + n /\ a.line = l
      /\ ActiveCells(a) = ActiveCells(q) /\ Due(a) = Due(q)
  <2>1. PICK s : s = o + n
    OBVIOUS
  <2>2. s \in Nat /\ a = At(q, s, l)
    BY <1>1, <2>1
  <2>3. a \in EngineOf(u) /\ SameEpochs(q, a)
    BY <1>3, <2>2, AtIs, Zenon
  <2>4. /\ a.preference = q.preference /\ a.late_acked = q.late_acked
        /\ a.sent = s /\ a.line = l
    BY <1>3, <2>2 DEF At, EngineOf
  <2>5. ActiveCells(a) = ActiveCells(q) /\ Due(a) = Due(q)
    BY <1>3, <2>2, AtIs
  <2> QED
    BY <2>1, <2>3, <2>4, <2>5
<1>5. Pending(q) /\ Predicts(q, G)
  BY TypedPending, TypedPredicts
<1>6. Pending(a) /\ Predicts(a, G) /\ a.preference # "never"
  BY <1>4, <1>5 DEF Pending, Predicts, Typed
<1>7. /\ Grown(a, f, v, G)
      /\ b = "CR" /\ ~ Experimental(a) => Entered(a, f)
  <2>1. f = NewUserByte(a, b, fb, t)
    BY <1>1
  <2> QED
    BY <1>4, <1>6, <2>1, NewUserByteIs
<1>8. f \in EngineOf(v) /\ Keeps(a, f) /\ f.confirmed_epoch = a.confirmed_epoch
  BY <1>7 DEF Grown
<1>9. f \in EngineOf(f.width)
  BY <1>8 DEF EngineOf
<1>10. /\ f.preference = e.preference /\ f.late_acked = e.late_acked
       /\ f.confirmed_epoch = e.confirmed_epoch
       /\ f.sent = o + n /\ (Experimental(a) <=> Experimental(e))
  BY <1>4, <1>8 DEF Keeps, SameEpochs, Typed, Experimental
<1>11. /\ e.prediction_epoch \in Nat /\ q.prediction_epoch \in Nat /\ f.prediction_epoch \in Nat
       /\ a.prediction_epoch = q.prediction_epoch
  BY <1>3, <1>4, <1>8 DEF EngineOf, SameEpochs
<1>12. \/ Experimental(e)
       \/ f.prediction_epoch >= q.prediction_epoch /\ q.prediction_epoch >= e.prediction_epoch
  BY <1>7, <1>10, <1>11 DEF Grown, Typed
<1>13. ASSUME NEW c \in ActiveCells(f)
       PROVE  c \in ActiveCells(e) \/ Added(c, e, f, G, o, l, n + 1)
  <2>1. c \in Cell
    BY <1>8, ActiveCellsAre
  <2>2. c.epoch \in Nat /\ c.expiration \in Nat
    BY <2>1 DEF Cell
  <2>3. CASE c \in ActiveCells(q)
    <3>1. CASE Added(c, e, q, G, o, l, n)
      BY <1>11, <1>12, <2>2, <3>1 DEF Added
    <3> QED
      BY <2>3, <3>1 DEF Typed
  <2>4. CASE Made(c, a, f, G)
    <3>1. c.expiration = o + n + 1 /\ c.line = l /\ c.replacement \in G
      BY <1>4, <2>4 DEF Made
    <3>2. \/ Experimental(e)
          \/ e.prediction_epoch <= c.epoch /\ c.epoch <= f.prediction_epoch
      BY <1>10, <1>11, <1>12, <2>2, <2>4 DEF Made
    <3>3. c.expiration \in o + 1 .. o + (n + 1)
      BY <3>1
    <3> QED
      BY <3>1, <3>2, <3>3 DEF Added
  <2> QED
    BY <1>4, <1>7, <2>3, <2>4 DEF Grown
<1>14. Due(f) \subseteq Due(e) \cup (o + 1 .. o + (n + 1))
  <2> SUFFICES ASSUME NEW d \in Due(f), d \notin Due(e) PROVE d \in o + 1 .. o + (n + 1)
    OBVIOUS
  <2>1. d \in Due(q) \/ d = o + n + 1
    BY <1>4, <1>7 DEF Grown
  <2>2. d \in o + 1 .. o + n \/ d = o + n + 1
    BY <2>1 DEF Typed
  <2> QED
    BY <2>2
<1>15. f.sent = o + (n + 1) - 1
  BY <1>10
<1>16. Experimental(e) \/ f.prediction_epoch >= e.prediction_epoch
  BY <1>11, <1>12
<1>17. Typed(e, f, G, o, l, n + 1)
  BY <1>9, <1>10, <1>13, <1>14, <1>15, <1>16 DEF Typed
<1>18. ASSUME q = e, b = "CR", ~ Experimental(e) PROVE Entered(e, f)
  <2>1. Entered(a, f)
    BY <1>7, <1>10, <1>18
  <2> QED
    BY <1>4, <1>11, <1>18, <2>1 DEF Entered
<1> QED
  BY <1>17, <1>18

IsTyped(x, e, key, fb, t, o, l, n) ==
    x = [k \in 0 .. n |-> IF k = 0 THEN e
                          ELSE NewUserByte(At(x[k - 1], o + k - 1, l), key[k], fb, t)]

LEMMA TypedExists ==
    ASSUME NEW e, NEW key, NEW fb, NEW t, NEW o, NEW l, NEW n \in Nat
    PROVE  \E x : IsTyped(x, e, key, fb, t, o, l, n)
<1> DEFINE T == {k \in 0 .. n : \E x : IsTyped(x, e, key, fb, t, o, l, k)}
<1>1. 0 \in T
  <2>1. IsTyped([k \in 0 .. 0 |-> e], e, key, fb, t, o, l, 0)
    BY DEF IsTyped
  <2> QED
    BY <2>1
<1>2. ASSUME NEW m \in 1 .. n, m - 1 \in T PROVE m \in T
  <2>1. PICK x : IsTyped(x, e, key, fb, t, o, l, m - 1)
    BY <1>2
  <2> DEFINE g == [k \in 0 .. m |->
                     IF k < m THEN x[k]
                     ELSE NewUserByte(At(x[k - 1], o + k - 1, l), key[k], fb, t)]
  <2>2. \A k \in 0 .. m - 1 :
          x[k] = IF k = 0 THEN e ELSE NewUserByte(At(x[k - 1], o + k - 1, l), key[k], fb, t)
    BY <2>1 DEF IsTyped
  <2>3. \A k \in 0 .. m :
          g[k] = IF k = 0 THEN e ELSE NewUserByte(At(g[k - 1], o + k - 1, l), key[k], fb, t)
    BY <2>2
  <2>4. IsTyped(g, e, key, fb, t, o, l, m)
    BY <2>3 DEF IsTyped
  <2> QED
    BY <2>4
<1> HIDE DEF T
<1>3. n \in T
  BY <1>1, <1>2, UpTo
<1> QED
  BY <1>3 DEF T

\* Mind the state variables: Predicted counts from offset, on the present line.
LEMMA PredictedIs ==
    ASSUME NEW w, NEW e \in EngineOf(w), e.preference # "never", Pending(e),
           offset \in Nat, line \in Nat, e.late_acked <= offset,
           NEW h \in Nat, NEW v \in Nat, NEW fb \in ScreenOf(h, v), NEW t \in Nat,
           NEW key \in Seq(Characters), NEW G, {Blank, "narrow"} \subseteq G,
           \A i \in 1 .. Len(key) : key[i] \in G,
           Shows(fb, G), Predicts(e, G)
    PROVE  /\ Typed(e, Predicted(e, key, fb, t), G, offset, line, Len(key))
           /\ key = <<"CR">> /\ ~ Experimental(e) => Entered(e, Predicted(e, key, fb, t))
<1>1. PICK n \in Nat : n = Len(key)
  OBVIOUS
<1>2. PICK o \in Nat : o = offset
  OBVIOUS
<1>3. PICK l \in Nat : l = line
  OBVIOUS
<1> DEFINE x == CHOOSE x : IsTyped(x, e, key, fb, t, o, l, n)
<1>4. IsTyped(x, e, key, fb, t, o, l, n)
  BY <1>1, TypedExists
<1>5. Predicted(e, key, fb, t) = x[n]
  BY <1>1, <1>2, <1>3 DEF Predicted, IsTyped, At
<1> HIDE DEF x
<1>6. x[0] = e /\ \A k \in 1 .. n : x[k] = NewUserByte(At(x[k - 1], o + k - 1, l), key[k], fb, t)
  <2>1. \A k \in 0 .. n : x[k] = IF k = 0 THEN e
                                 ELSE NewUserByte(At(x[k - 1], o + k - 1, l), key[k], fb, t)
    BY <1>4, Zenon DEF IsTyped
  <2>2. 0 \in 0 .. n /\ \A k \in 1 .. n : k \in 0 .. n /\ k # 0
    BY <1>1
  <2> QED
    BY <2>1, <2>2, Zenon
<1> DEFINE T == {k \in 0 .. n : Typed(e, x[k], G, o, l, k)}
<1>7. 0 \in T
  <2>1. e \in EngineOf(e.width) /\ e.prediction_epoch \in Nat
    BY DEF EngineOf
  <2>2. Typed(e, e, G, o, l, 0)
    BY <2>1 DEF Typed
  <2> QED
    BY <1>6, <2>2
<1>8. ASSUME NEW k \in 1 .. n, k - 1 \in T
      PROVE  /\ k \in T
             /\ x[k - 1] = e /\ key[k] = "CR" /\ ~ Experimental(e) => Entered(e, x[k])
  <2>1. PICK m \in Nat : m = k - 1
    OBVIOUS
  <2>2. PICK q : q = x[m]
    OBVIOUS
  <2>3. PICK f : f = x[k]
    OBVIOUS
  <2>4. PICK b : b = key[k]
    OBVIOUS
  <2>5. b \in Characters /\ {Blank, "narrow", b} \subseteq G
    BY <1>1, <2>4
  <2>6. Typed(e, q, G, o, l, m)
    BY <1>8, <2>1, <2>2
  <2>7. f = NewUserByte(At(q, o + m, l), b, fb, t)
    <3>1. o + k - 1 = o + m
      BY <2>1
    <3> QED
      BY <1>6, <2>1, <2>2, <2>3, <2>4, <3>1
  <2>8. /\ Typed(e, f, G, o, l, m + 1)
        /\ q = e /\ b = "CR" /\ ~ Experimental(e) => Entered(e, f)
    BY <1>2, <2>5, <2>6, <2>7, TypedByte
  <2>9. m + 1 = k
    BY <2>1
  <2> QED
    BY <2>1, <2>2, <2>3, <2>4, <2>8, <2>9
<1>9. n \in T
  <2>1. \A k \in 0 .. n : k \in T
    <3> HIDE DEF T
    <3> QED
      BY <1>1, <1>7, <1>8, UpTo
  <2>2. n \in 0 .. n
    BY <1>1
  <2> QED
    BY <2>1, <2>2
<1>10. ASSUME key = <<"CR">>, ~ Experimental(e) PROVE Entered(e, x[n])
  <2>1. n = 1 /\ key[1] = "CR" /\ 1 - 1 = 0
    BY <1>1, <1>10
  <2>2. 1 \in 1 .. n /\ 1 - 1 \in T /\ x[1 - 1] = e
    BY <1>6, <1>7, <2>1
  <2>3. Entered(e, x[1])
    BY <1>8, <1>10, <2>1, <2>2
  <2> QED
    BY <2>1, <2>3
<1> QED
  BY <1>1, <1>2, <1>3, <1>5, <1>9, <1>10

-----------------------------------------------------------------------------
(***************************************************************************)
(* What is drawn, and what the application's screen may become.            *)
(***************************************************************************)
LEMMA PaintedIs ==
    ASSUME NEW w, NEW e \in EngineOf(w), NEW r, NEW j, NEW i \in Painted(e, r, j)
    PROVE  LET c == e.overlays[i].cells[j]
           IN  c \in ActiveCells(e) /\ c.epoch <= e.confirmed_epoch /\ c.replacement \in Characters
<1>1. i \in 1 .. Len(e.overlays) /\ j \in Columns(e.overlays[i])
  BY DEF Painted
<1>2. e.overlays[i].cells \in CellsOf(w)
  BY <1>1, ActiveCellsAre
<1>3. j \in 0 .. w - 1
  BY <1>1, <1>2 DEF Columns, CellsOf
<1>4. PICK c : c = e.overlays[i].cells[j]
  OBVIOUS
<1>5. c \in Cell /\ c.active /\ ~ (c.epoch > e.confirmed_epoch)
  <2>1. c \in Cell
    BY <1>2, <1>3, <1>4 DEF CellsOf
  <2>2. c.active /\ ~ (c.epoch > e.confirmed_epoch)
    BY <1>4 DEF Painted, Tentative
  <2> QED
    BY <2>1, <2>2
<1>6. c \in ActiveCells(e)
  BY <1>1, <1>3, <1>4, <1>5, ActiveCellsAre
<1>7. c.epoch \in Nat /\ e.confirmed_epoch \in Nat /\ c.replacement \in Characters
  BY <1>5 DEF Cell, EngineOf
<1>8. c.epoch <= e.confirmed_epoch
  BY <1>5, <1>7
<1> QED
  BY <1>4, <1>6, <1>7, <1>8

\* Every cell of what is drawn is the server's, or a prediction of a confirmed
\* epoch; without predictions it is the server's screen.
Drawn(e, d, fb) ==
    \A r \in 0 .. fb.rows - 1, j \in 0 .. fb.cols - 1 :
        \/ d.cell[r][j] = fb.cell[r][j]
        \/ \E c \in ActiveCells(e) :
              c.epoch <= e.confirmed_epoch /\ d.cell[r][j] = c.replacement

LEMMA ApplyIs ==
    ASSUME NEW w, NEW e \in EngineOf(w), NEW h \in Nat, NEW v \in Nat, NEW fb \in ScreenOf(h, v)
    PROVE  /\ Apply(e, fb) \in ScreenOf(h, v)
           /\ Drawn(e, Apply(e, fb), fb)
           /\ Quiet(e) => Apply(e, fb) = fb
<1> DEFINE I == {i \in 1 .. Len(e.cursors) :
                   /\ ~ Tentative(e.cursors[i], e.confirmed_epoch)
                   /\ e.cursors[i].row < fb.rows /\ e.cursors[i].col < fb.cols}
           kept == Retain(e.cursors, I)
           c == IF Shown(e) /\ kept # << >> THEN Last(kept) ELSE fb
           Glyph(r, j) == IF Painted(e, r, j) = {} THEN fb.cell[r][j]
                          ELSE LET i == CHOOSE i \in Painted(e, r, j) : TRUE
                               IN  e.overlays[i].cells[j].replacement
           cell == [r \in 0 .. fb.rows - 1 |-> [j \in 0 .. fb.cols - 1 |-> Glyph(r, j)]]
<1>1. Apply(e, fb) = [fb EXCEPT !.row = c.row, !.col = c.col, !.cell = cell]
  BY DEF Apply
<1>2. /\ fb.rows = h /\ fb.cols = v /\ fb.row \in 0 .. h - 1 /\ fb.col \in 0 .. v - 1
      /\ fb.cell \in [0 .. h - 1 -> [0 .. v - 1 -> Characters]]
  BY ScreenIs
<1>3. e.cursors \in Seq(Cursor)
  BY DEF EngineOf
<1>4. kept \in Seq(Cursor) /\ Elements(kept) = {e.cursors[i] : i \in I \cap (1 .. Len(e.cursors))}
  <2> HIDE DEF I
  <2> QED
    BY <1>3, RetainIs
<1>5. \A x \in Elements(kept) : x.row < h /\ x.col < v
  BY <1>2, <1>4
<1> HIDE DEF kept, I
<1>6. c.row \in 0 .. h - 1 /\ c.col \in 0 .. v - 1
  <2>1. CASE kept # << >>
    <3>1. Last(kept) \in Elements(kept) /\ Last(kept) \in Cursor
      <4>1. Len(kept) \in 1 .. Len(kept) /\ Last(kept) = kept[Len(kept)]
        BY <1>4, <2>1 DEF Last
      <4> QED
        BY <1>4, <4>1 DEF Elements
    <3>2. Last(kept).row \in 0 .. h - 1 /\ Last(kept).col \in 0 .. v - 1
      BY <1>5, <3>1 DEF Cursor
    <3> QED
      BY <1>2, <3>2
  <2>2. CASE kept = << >>
    BY <1>2, <2>2
  <2> QED
    BY <2>1, <2>2
<1>7. Quiet(e) => c = fb
  <2> SUFFICES ASSUME Quiet(e) PROVE kept = << >>
    OBVIOUS
  <2>1. e.cursors = << >>
    BY CursorsAre DEF Quiet
  <2>2. Elements(kept) = {}
    BY <1>4, <2>1
  <2> QED
    BY <1>4, <2>2, ElementsTyped
<1>8. ASSUME NEW r \in 0 .. h - 1, NEW j \in 0 .. v - 1
      PROVE  /\ Glyph(r, j) \in Characters
             /\ \/ Glyph(r, j) = fb.cell[r][j]
                \/ \E x \in ActiveCells(e) :
                      x.epoch <= e.confirmed_epoch /\ Glyph(r, j) = x.replacement
  <2>1. CASE Painted(e, r, j) = {}
    BY <1>2, <2>1
  <2>2. CASE Painted(e, r, j) # {}
    <3>1. PICK i : i = CHOOSE k \in Painted(e, r, j) : TRUE
      OBVIOUS
    <3>2. i \in Painted(e, r, j)
      BY <2>2, <3>1
    <3>3. PICK x : x = e.overlays[i].cells[j]
      OBVIOUS
    <3>4. x \in ActiveCells(e) /\ x.epoch <= e.confirmed_epoch /\ x.replacement \in Characters
      BY <3>2, <3>3, PaintedIs
    <3>5. Glyph(r, j) = x.replacement
      BY <2>2, <3>1, <3>3
    <3> QED
      BY <3>4, <3>5
  <2> QED
    BY <2>1, <2>2
<1> HIDE DEF c, Glyph
<1>9. /\ cell \in [0 .. h - 1 -> [0 .. v - 1 -> Characters]]
      /\ \A r \in 0 .. h - 1, j \in 0 .. v - 1 : cell[r][j] = Glyph(r, j)
  BY <1>2, <1>8
<1> HIDE DEF cell
<1>10. Apply(e, fb) \in ScreenOf(h, v) /\ Apply(e, fb).cell = cell
  BY <1>1, <1>2, <1>6, <1>9 DEF ScreenOf
<1>11. Drawn(e, Apply(e, fb), fb)
  BY <1>2, <1>8, <1>9, <1>10 DEF Drawn
<1>12. ASSUME Quiet(e) PROVE Apply(e, fb) = fb
  <2>1. \A r \in 0 .. h - 1, j \in 0 .. v - 1 : cell[r][j] = fb.cell[r][j]
    BY <1>8, <1>9, <1>12 DEF Quiet
  <2>2. cell = fb.cell
    <3>1. \A r \in 0 .. h - 1 : cell[r] = fb.cell[r]
      <4> SUFFICES ASSUME NEW r \in 0 .. h - 1 PROVE cell[r] = fb.cell[r]
        OBVIOUS
      <4>1. cell[r] \in [0 .. v - 1 -> Characters] /\ fb.cell[r] \in [0 .. v - 1 -> Characters]
        BY <1>2, <1>9
      <4>2. PICK a, b : a = cell[r] /\ b = fb.cell[r]
        OBVIOUS
      <4>3. \A j \in 0 .. v - 1 : a[j] = b[j]
        BY <2>1, <4>2
      <4>4. a = b
        BY ONLY <4>1, <4>2, <4>3
      <4> QED
        BY <4>2, <4>4
    <3> QED
      BY <1>2, <1>9, <3>1
  <2> QED
    BY <1>1, <1>2, <1>7, <1>12, <2>2 DEF ScreenOf
<1> QED
  BY <1>10, <1>11, <1>12

LEMMA DrawnShows ==
    ASSUME NEW w, NEW e \in EngineOf(w), NEW h \in Nat, NEW v \in Nat, NEW fb \in ScreenOf(h, v),
           NEW d \in ScreenOf(h, v), Drawn(e, d, fb), NEW G, Shows(fb, G), Predicts(e, G)
    PROVE  Shows(d, G)
<1>1. d.rows = fb.rows /\ d.cols = fb.cols
  BY ScreenIs
<1> QED
  BY <1>1 DEF Drawn, Shows, Predicts

LEMMA FitIs ==
    ASSUME NEW h \in Nat, NEW w \in Nat, NEW fb \in ScreenOf(h, w), NEW v \in Nat \ {0},
           NEW G, Blank \in G, Shows(fb, G)
    PROVE  Fit(fb, v) \in ScreenOf(h, v) /\ Shows(Fit(fb, v), G)
<1> DEFINE col == IF fb.col < v THEN fb.col ELSE v - 1
           cell == [r \in DOMAIN fb.cell |-> [j \in 0 .. v - 1 |->
                       IF j \in DOMAIN fb.cell[r] THEN fb.cell[r][j] ELSE Blank]]
<1>1. Fit(fb, v) = [fb EXCEPT !.cols = v, !.col = col, !.cell = cell]
  BY DEF Fit
<1>2. /\ fb.rows = h /\ fb.cols = w /\ fb.row \in 0 .. h - 1 /\ fb.col \in 0 .. w - 1
      /\ fb.cell \in [0 .. h - 1 -> [0 .. w - 1 -> Characters]]
  BY ScreenIs
<1>3. col \in 0 .. v - 1
  BY <1>2
<1>4. Blank \in Characters
  BY DEF Characters
<1>5. ASSUME NEW r \in 0 .. h - 1, NEW j \in 0 .. v - 1
      PROVE  cell[r][j] \in Characters \cap G
  <2>1. cell[r][j] = IF j \in DOMAIN fb.cell[r] THEN fb.cell[r][j] ELSE Blank
    BY <1>2
  <2>2. DOMAIN fb.cell[r] = 0 .. w - 1
    BY <1>2
  <2>3. j \in 0 .. w - 1 => fb.cell[r][j] \in Characters \cap G
    BY <1>2 DEF Shows
  <2> QED
    BY <1>4, <2>1, <2>2, <2>3
<1>6. cell \in [0 .. h - 1 -> [0 .. v - 1 -> Characters]]
  <2>1. cell = [r \in 0 .. h - 1 |-> [j \in 0 .. v - 1 |-> cell[r][j]]]
    BY <1>2
  <2> HIDE DEF cell
  <2> QED
    BY <1>5, <2>1
<1> HIDE DEF cell, col
<1>7. Fit(fb, v) \in ScreenOf(h, v) /\ Fit(fb, v).cell = cell
  BY <1>1, <1>2, <1>3, <1>6 DEF ScreenOf
<1>8. Fit(fb, v).rows = h /\ Fit(fb, v).cols = v
  BY <1>7, ScreenIs
<1> QED
  BY <1>5, <1>7, <1>8 DEF Shows

Redrawn(fb, row, col, cell) == [fb EXCEPT !.row = row, !.col = col, !.cell = cell]

LEMMA RedrawnIs ==
    ASSUME NEW h \in Nat, NEW w \in Nat, NEW fb \in ScreenOf(h, w), NEW G,
           NEW row \in 0 .. h - 1, NEW col \in 0 .. w - 1,
           NEW cell \in [0 .. h - 1 -> [0 .. w - 1 -> Characters \cap G]],
           NEW f, f = Redrawn(fb, row, col, cell)
    PROVE  f \in ScreenOf(h, w) /\ Shows(f, G)
<1>1. cell \in [0 .. h - 1 -> [0 .. w - 1 -> Characters]]
  OBVIOUS
<1>2. f \in ScreenOf(h, w) /\ f.cell = cell
  BY <1>1 DEF ScreenOf, Redrawn
<1>3. f.rows = h /\ f.cols = w
  BY <1>2, ScreenIs
<1> QED
  BY <1>2, <1>3 DEF Shows

LEMMA EchoIs ==
    ASSUME NEW h \in Nat, NEW w \in Nat, NEW fb \in ScreenOf(h, w),
           NEW G, Blank \in G, Shows(fb, G), NEW key \in Seq(Characters),
           \A i \in 1 .. Len(key) : key[i] \in G
    PROVE  Echo(fb, key) \in ScreenOf(h, w) /\ Shows(Echo(fb, key), G)
<1>1. /\ fb.rows = h /\ fb.cols = w /\ fb.row \in 0 .. h - 1 /\ fb.col \in 0 .. w - 1
      /\ fb.cell \in [0 .. h - 1 -> [0 .. w - 1 -> Characters]]
  BY ScreenIs
<1>2. \A r \in 0 .. h - 1, j \in 0 .. w - 1 : fb.cell[r][j] \in Characters \cap G
  BY <1>1 DEF Shows
<1>3. Blank \in Characters \cap G
  BY DEF Characters
<1>4. ASSUME NEW row \in 0 .. h - 1, NEW col \in 0 .. w - 1,
             NEW f, f = [fb EXCEPT !.row = row, !.col = col]
      PROVE  f \in ScreenOf(h, w) /\ Shows(f, G)
  <2>1. f \in ScreenOf(h, w) /\ f.cell = fb.cell /\ f.rows = h /\ f.cols = w
    BY <1>1, <1>4 DEF ScreenOf
  <2> QED
    BY <1>2, <2>1 DEF Shows
<1>5. fb = [fb EXCEPT !.row = fb.row, !.col = fb.col]
  BY <1>1 DEF ScreenOf
<1>6. Shows(fb, G) /\ fb \in ScreenOf(h, w)
  OBVIOUS
<1>7. Delete(fb) \in ScreenOf(h, w) /\ Shows(Delete(fb), G)
  <2>1. CASE fb.col = 0
    BY <1>6, <2>1 DEF Delete
  <2>2. CASE fb.col # 0
    <3> DEFINE cell == [r \in 0 .. h - 1 |-> [j \in 0 .. w - 1 |->
                          IF r # fb.row \/ j < fb.col - 1 THEN fb.cell[r][j]
                          ELSE IF j + 1 < w THEN fb.cell[r][j + 1] ELSE Blank]]
    <3>1. Delete(fb) = Redrawn(fb, fb.row, fb.col - 1, cell)
      <4> DEFINE new == [j \in DOMAIN fb.cell[fb.row] |->
                           IF j < fb.col - 1 THEN fb.cell[fb.row][j]
                           ELSE IF j + 1 < fb.cols THEN fb.cell[fb.row][j + 1] ELSE Blank]
      <4>1. Delete(fb) = [fb EXCEPT !.col = fb.col - 1, !.cell[fb.row] = new]
        BY <2>2 DEF Delete
      <4>2. [fb.cell EXCEPT ![fb.row] = new] = cell
        <5>1. DOMAIN fb.cell[fb.row] = 0 .. w - 1
          BY <1>1
        <5>2. new = cell[fb.row]
          BY <1>1, <5>1
        <5>3. \A r \in 0 .. h - 1 : r # fb.row => cell[r] = fb.cell[r]
          BY <1>1
        <5> HIDE DEF new, cell
        <5>4. [fb.cell EXCEPT ![fb.row] = new] = [r \in 0 .. h - 1 |-> cell[r]]
          BY <1>1, <5>2, <5>3
        <5> QED
          BY <5>4 DEF cell
      <4> HIDE DEF new, cell
      <4> QED
        BY <1>1, <4>1, <4>2 DEF ScreenOf, Redrawn
    <3>2. \A r \in 0 .. h - 1, j \in 0 .. w - 1 : cell[r][j] \in Characters \cap G
      BY <1>1, <1>2, <1>3
    <3>3. cell \in [0 .. h - 1 -> [0 .. w - 1 -> Characters \cap G]]
      BY <3>2
    <3>4. fb.row \in 0 .. h - 1 /\ fb.col - 1 \in 0 .. w - 1
      BY <1>1, <2>2
    <3> HIDE DEF cell
    <3>5. PICK x : x = fb.row
      OBVIOUS
    <3>6. PICK y : y = fb.col - 1
      OBVIOUS
    <3>7. x \in 0 .. h - 1 /\ y \in 0 .. w - 1 /\ Delete(fb) = Redrawn(fb, x, y, cell)
      BY <3>1, <3>4, <3>5, <3>6
    <3> QED
      BY <3>3, <3>7, RedrawnIs
  <2> QED
    BY <2>1, <2>2
<1>8. NewLine(fb) \in ScreenOf(h, w) /\ Shows(NewLine(fb), G)
  <2>1. CASE fb.row + 1 < fb.rows
    <3>1. NewLine(fb) = [fb EXCEPT !.row = fb.row + 1, !.col = 0]
      BY <2>1 DEF NewLine
    <3>2. PICK x : x = fb.row + 1
      OBVIOUS
    <3>3. x \in 0 .. h - 1 /\ 0 \in 0 .. w - 1 /\ NewLine(fb) = [fb EXCEPT !.row = x, !.col = 0]
      BY <1>1, <2>1, <3>1, <3>2
    <3> QED
      BY <1>4, <3>3
  <2>2. CASE ~ (fb.row + 1 < fb.rows)
    <3> DEFINE cell == [r \in 0 .. h - 1 |-> [j \in 0 .. w - 1 |->
                          IF r + 1 < h THEN fb.cell[r + 1][j] ELSE Blank]]
               sc == [r \in DOMAIN fb.cell |->
                        IF r + 1 < fb.rows THEN fb.cell[r + 1]
                        ELSE [j \in DOMAIN fb.cell[r] |-> Blank]]
    <3>1. NewLine(fb) = Redrawn(fb, fb.row, 0, cell)
      <4>1. NewLine(fb) = [[fb EXCEPT !.cell = sc] EXCEPT !.col = 0]
        BY <2>2 DEF NewLine, Scrolled
      <4>2. sc = cell
        <5> SUFFICES ASSUME NEW r \in 0 .. h - 1 PROVE sc[r] = cell[r]
          BY <1>1
        <5>1. DOMAIN fb.cell[r] = 0 .. w - 1 /\ (r + 1 < h => r + 1 \in 0 .. h - 1)
          BY <1>1
        <5>2. r + 1 < h => fb.cell[r + 1] = [j \in 0 .. w - 1 |-> fb.cell[r + 1][j]]
          BY <1>1, <5>1
        <5> QED
          BY <1>1, <5>1, <5>2
      <4> HIDE DEF sc, cell
      <4> QED
        BY <1>1, <4>1, <4>2 DEF ScreenOf, Redrawn
    <3>2. \A r \in 0 .. h - 1, j \in 0 .. w - 1 : cell[r][j] \in Characters \cap G
      BY <1>1, <1>2, <1>3
    <3>3. cell \in [0 .. h - 1 -> [0 .. w - 1 -> Characters \cap G]]
      BY <3>2
    <3>4. fb.row \in 0 .. h - 1 /\ 0 \in 0 .. w - 1
      BY <1>1
    <3> HIDE DEF cell
    <3>5. PICK x : x = fb.row
      OBVIOUS
    <3>6. x \in 0 .. h - 1 /\ NewLine(fb) = Redrawn(fb, x, 0, cell)
      BY <3>1, <3>4, <3>5
    <3> QED
      BY <3>3, <3>4, <3>6, RedrawnIs
  <2> QED
    BY <2>1, <2>2
<1>9. ASSUME NEW g \in Characters \cap G
      PROVE  Insert(fb, g) \in ScreenOf(h, w) /\ Shows(Insert(fb, g), G)
  <2> DEFINE cell == [r \in 0 .. h - 1 |-> [j \in 0 .. w - 1 |->
                        IF r # fb.row \/ j < fb.col THEN fb.cell[r][j]
                        ELSE IF j = fb.col THEN g ELSE fb.cell[r][j - 1]]]
             col == IF fb.col + 1 < fb.cols THEN fb.col + 1 ELSE fb.col
             new == [j \in DOMAIN fb.cell[fb.row] |->
                       IF j < fb.col THEN fb.cell[fb.row][j]
                       ELSE IF j = fb.col THEN g ELSE fb.cell[fb.row][j - 1]]
  <2>1. Insert(fb, g) = Redrawn(fb, fb.row, col, cell)
    <3>1. Insert(fb, g) = [fb EXCEPT !.col = col, !.cell[fb.row] = new]
      BY DEF Insert
    <3>2. [fb.cell EXCEPT ![fb.row] = new] = cell
      <4>1. DOMAIN fb.cell[fb.row] = 0 .. w - 1
        BY <1>1
      <4>2. new = cell[fb.row]
        BY <1>1, <4>1
      <4>3. \A r \in 0 .. h - 1 : r # fb.row => cell[r] = fb.cell[r]
        BY <1>1
      <4> HIDE DEF new, cell
      <4>4. [fb.cell EXCEPT ![fb.row] = new] = [r \in 0 .. h - 1 |-> cell[r]]
        BY <1>1, <4>2, <4>3
      <4> QED
        BY <4>4 DEF cell
    <3> HIDE DEF new, cell, col
    <3> QED
      BY <1>1, <3>1, <3>2 DEF ScreenOf, Redrawn
  <2>2. \A r \in 0 .. h - 1, j \in 0 .. w - 1 : cell[r][j] \in Characters \cap G
    BY <1>1, <1>2
  <2>3. cell \in [0 .. h - 1 -> [0 .. w - 1 -> Characters \cap G]]
    BY <2>2
  <2>4. fb.row \in 0 .. h - 1 /\ col \in 0 .. w - 1
    BY <1>1
  <2> HIDE DEF cell, col, new
  <2>5. PICK x : x = fb.row
    OBVIOUS
  <2>6. x \in 0 .. h - 1 /\ Insert(fb, g) = Redrawn(fb, x, col, cell)
    BY <2>1, <2>4, <2>5
  <2> QED
    BY <2>3, <2>4, <2>6, RedrawnIs
<1>10. ASSUME NEW col \in 0 .. w - 1, NEW f, f = [fb EXCEPT !.col = col]
       PROVE  f \in ScreenOf(h, w) /\ Shows(f, G)
  <2>1. f \in ScreenOf(h, w) /\ f.cell = fb.cell /\ f.rows = h /\ f.cols = w
    BY <1>1, <1>10 DEF ScreenOf
  <2> QED
    BY <1>2, <2>1 DEF Shows
<1>11. \/ Echo(fb, key) = Delete(fb)
       \/ Echo(fb, key) = NewLine(fb)
       \/ Echo(fb, key) = [fb EXCEPT !.col = IF fb.col > 0 THEN fb.col - 1 ELSE 0]
       \/ Echo(fb, key) = [fb EXCEPT !.col = IF fb.col + 1 < fb.cols THEN fb.col + 1 ELSE fb.col]
       \/ Len(key) = 1 /\ Echo(fb, key) = Insert(fb, key[1])
       \/ Echo(fb, key) = fb
  BY DEF Echo
<1>12. CASE Echo(fb, key) = [fb EXCEPT !.col = IF fb.col > 0 THEN fb.col - 1 ELSE 0]
  <2>1. PICK x : x = IF fb.col > 0 THEN fb.col - 1 ELSE 0
    OBVIOUS
  <2>2. x \in 0 .. w - 1 /\ Echo(fb, key) = [fb EXCEPT !.col = x]
    BY <1>1, <1>12, <2>1
  <2> QED
    BY <1>10, <2>2
<1>13. CASE Echo(fb, key) = [fb EXCEPT !.col = IF fb.col + 1 < fb.cols THEN fb.col + 1 ELSE fb.col]
  <2>1. PICK x : x = IF fb.col + 1 < fb.cols THEN fb.col + 1 ELSE fb.col
    OBVIOUS
  <2>2. x \in 0 .. w - 1 /\ Echo(fb, key) = [fb EXCEPT !.col = x]
    BY <1>1, <1>13, <2>1
  <2> QED
    BY <1>10, <2>2
<1>14. CASE Len(key) = 1 /\ Echo(fb, key) = Insert(fb, key[1])
  <2>1. key[1] \in Characters \cap G
    BY <1>14
  <2> QED
    BY <1>9, <1>14, <2>1
<1> QED
  BY <1>6, <1>7, <1>8, <1>11, <1>12, <1>13, <1>14

-----------------------------------------------------------------------------
(***************************************************************************)
(* The inductive invariant.                                                *)
(***************************************************************************)
SoundScreen(s) ==
    s.rows \in Nat \ {0} /\ s.cols \in Nat \ {0} /\ s \in ScreenOf(s.rows, s.cols)

TypeOK ==
    /\ engine \in EngineOf(engine.width)
    /\ SoundScreen(server_term) /\ SoundScreen(last_drawn) /\ SoundScreen(screen)
    /\ last_drawn.rows = server_term.rows /\ last_drawn.cols = server_term.cols
    /\ overlays_drawn \in BOOLEAN
    /\ now \in Nat /\ offset \in Nat /\ read \in Nat /\ line \in Nat /\ cols \in Nat \ {0}
    /\ unread \in Seq(Seq(Characters))
    /\ DOMAIN lines \subseteq Range(Glyphs)
    /\ \A g \in DOMAIN lines : lines[g] \in 0 .. line
    /\ vindicated \subseteq Nat

\* The keys of q take the count of bytes from a to z.
Tally(ends, q, a, z) ==
    /\ ends \in [0 .. Len(q) -> Nat] /\ ends[0] = a /\ ends[Len(q)] = z
    /\ \A k \in 1 .. Len(q) : ends[k] = ends[k - 1] + Len(q[k])

\* What the application has not read is what the user has typed since.
Accounted == \E ends : Tally(ends, unread, read, offset)

\* A glyph of the user's is seen only once it has been typed.
Known(ls) == {x \in Characters : x \in Range(Glyphs) => x \in DOMAIN ls}

Origins ==
    /\ Shows(server_term, Known(lines)) /\ Shows(last_drawn, Known(lines))
    /\ Shows(screen, Known(lines)) /\ Predicts(engine, Known(lines))
    /\ \A k \in 1 .. Len(unread) :
          \A i \in 1 .. Len(unread[k]) : unread[k][i] \in Known(lines)

\* No prediction waits for a byte past the o that were typed.
Outstanding(e, o) ==
    /\ e.late_acked <= o
    /\ \A c \in ActiveCells(e) : c.expiration <= o
    /\ \A d \in Due(e) : d <= o
    /\ Quiet(e) \/ e.sent < o
    /\ e.preference = "never" => Quiet(e)

Timely ==
    /\ Outstanding(engine, offset)
    /\ engine.preference = "never" \/ Pending(engine)

Plain == ~ overlays_drawn \/ Quiet(engine) => last_drawn = server_term

\* Of the predictions that show something, those of an earlier line are of an
\* earlier epoch, and those of a confirmed epoch are of a line of which some
\* prediction came true, or of an earlier line.
Telling(e) == {c \in ActiveCells(e) : c.replacement # Blank}

Vouched(l, vs) == \E m \in vs : l <= m

Guarded(e, ls, l, vs) ==
    /\ \A c \in ActiveCells(e) :
          /\ c.line <= l /\ c.epoch <= e.prediction_epoch
          /\ c.replacement \in DOMAIN ls => ls[c.replacement] <= c.line
    /\ \A c \in Telling(e), d \in ActiveCells(e) : d.line > c.line => d.epoch > c.epoch
    /\ \A c \in Telling(e) : l > c.line => e.prediction_epoch > c.epoch
    /\ e.confirmed_epoch <= e.prediction_epoch
    /\ \A c \in Telling(e) : c.epoch <= e.confirmed_epoch => Vouched(c.line, vs)
    /\ e.prediction_epoch <= e.confirmed_epoch => Vouched(l, vs)

Watched(e) == ~ Experimental(e) /\ e.preference # "never"

Secrets == Watched(engine) => Guarded(engine, lines, line, vindicated)

Inv ==
    TypeOK /\ Accounted /\ Origins /\ Timely /\ Plain /\ Secrets /\ SecretNotShown

\* The part of Compose that concerns the predictions.
Settles(e, f, fb) ==
    /\ ActiveCells(f) \subseteq ActiveCells(e)
    /\ f.prediction_epoch >= e.prediction_epoch
    /\ \/ f.confirmed_epoch = e.confirmed_epoch
       \/ \E c \in Proven(e, fb) : f.confirmed_epoch = c.epoch

LEMMA SurvivorsOutstanding ==
    ASSUME NEW w, NEW e \in EngineOf(w), NEW o \in Nat, Outstanding(e, o),
           NEW v, NEW fb, NEW f, Survives(e, f, v, fb), e.preference # "never"
    PROVE  /\ f \in EngineOf(f.width) /\ f.preference = e.preference
           /\ Outstanding(f, o) /\ Pending(f) /\ Settles(e, f, fb)
<1>1. f \in EngineOf(v) /\ Keeps(e, f) /\ Culled(e, f, v)
  BY DEF Survives, Culled
<1>2. f \in EngineOf(f.width)
  BY <1>1 DEF EngineOf
<1>3. f.late_acked = e.late_acked /\ f.sent = e.sent /\ f.preference = e.preference
  BY <1>1 DEF Keeps
<1>4. Pending(f)
  BY <1>3 DEF Survives, Pending
<1>5. Settles(e, f, fb)
  BY DEF Survives, Culled, Settles
<1>6. \A c \in ActiveCells(f) : c.expiration <= o
  BY <1>1 DEF Culled, Outstanding
<1>7. Quiet(f) \/ e.sent < o
  BY DEF Survives, Outstanding
<1>8. \A d \in Due(f) : d <= o
  <2> SUFFICES ASSUME NEW d \in Due(f) PROVE d <= o
    OBVIOUS
  <2>1. e.sent \in Nat /\ e.sent < o
    BY <1>7 DEF EngineOf, Quiet, Due
  <2>2. d \in Due(e) \/ d = e.sent + 1
    BY <1>1 DEF Culled
  <2> QED
    BY <2>1, <2>2 DEF Outstanding
<1>9. Outstanding(f, o)
  BY <1>3, <1>6, <1>7, <1>8 DEF Outstanding
<1> QED
  BY <1>2, <1>3, <1>4, <1>5, <1>9

LEMMA ComposeIs ==
    ASSUME NEW w, NEW e \in EngineOf(w), NEW o \in Nat, Outstanding(e, o),
           NEW h \in Nat, NEW v \in Nat, NEW fb \in ScreenOf(h, v),
           NEW changed \in BOOLEAN, NEW t \in Nat, overlays_drawn \in BOOLEAN,
           changed \/ fb = server_term,
           ~ overlays_drawn => last_drawn = server_term,
           Compose(e, fb, changed, t)
    PROVE  /\ engine' \in EngineOf(engine'.width) /\ engine'.preference = e.preference
           /\ Outstanding(engine', o)
           /\ engine'.preference = "never" \/ Pending(engine')
           /\ Settles(e, engine', fb)
           /\ server_term' = fb /\ last_drawn' \in ScreenOf(h, v)
           /\ Drawn(engine', last_drawn', fb)
           /\ overlays_drawn' \in BOOLEAN
           /\ ~ overlays_drawn' \/ Quiet(engine') => last_drawn' = fb
<1>1. server_term' = fb
  BY DEF Compose
<1>2. PICK f : f = engine'
  OBVIOUS
<1>3. PICK d : d = last_drawn'
  OBVIOUS
<1>4. Active(e) <=> ~ Quiet(e)
  BY ActiveIs
<1>5. e \in EngineOf(e.width) /\ e.prediction_epoch \in Nat
  BY DEF EngineOf
<1>6. Settles(e, e, fb)
  BY <1>5 DEF Settles
<1>7. CASE changed \/ Active(e) \/ overlays_drawn
  <2>1. f = Cull(e, fb, t) /\ d = Apply(f, fb) /\ overlays_drawn' = Active(e)
    BY <1>2, <1>3, <1>7 DEF Compose
  <2>2. /\ f \in EngineOf(f.width) /\ f.preference = e.preference /\ Outstanding(f, o)
        /\ f.preference = "never" \/ Pending(f)
        /\ Settles(e, f, fb)
        /\ Quiet(e) => Quiet(f)
    <3>1. CASE e.preference = "never"
      <4>1. f = e
        BY <2>1, <3>1 DEF Cull
      <4> QED
        BY <1>5, <1>6, <3>1, <4>1
    <3>2. CASE e.preference # "never"
      <4>1. Survives(e, f, v, fb)
        BY <2>1, <3>2, CullIs
      <4>2. /\ f \in EngineOf(f.width) /\ f.preference = e.preference
            /\ Outstanding(f, o) /\ Pending(f) /\ Settles(e, f, fb)
        BY <3>2, <4>1, SurvivorsOutstanding
      <4> QED
        BY <4>1, <4>2 DEF Survives
    <3> QED
      BY <3>1, <3>2
  <2>3. d \in ScreenOf(h, v) /\ Drawn(f, d, fb) /\ (Quiet(f) => d = fb)
    BY <2>1, <2>2, ApplyIs
  <2>4. Active(e) \in BOOLEAN
    BY DEF Active
  <2>5. ~ overlays_drawn' => Quiet(f)
    BY <1>4, <2>1, <2>2
  <2> QED
    BY <1>1, <1>2, <1>3, <2>1, <2>2, <2>3, <2>4, <2>5
<1>8. CASE ~ (changed \/ Active(e) \/ overlays_drawn)
  <2>1. f = e /\ overlays_drawn' = overlays_drawn /\ d = last_drawn
    BY <1>2, <1>3, <1>8 DEF Compose
  <2>2. d = fb /\ Quiet(e)
    BY <1>4, <1>8, <2>1
  <2>3. Pending(f)
    BY <2>1, <2>2 DEF Pending, Quiet, Due
  <2>4. Drawn(f, d, fb)
    BY <2>2 DEF Drawn
  <2> QED
    BY <1>1, <1>2, <1>3, <1>5, <1>6, <2>1, <2>2, <2>3, <2>4
<1> QED
  BY <1>7, <1>8

\* The lines of the predictions that come true are noted.
LEMMA ProvenVouched ==
    ASSUME NEW w, NEW e \in EngineOf(w), NEW fb, line \in Nat,
           \A c \in ActiveCells(e) : c.line <= line, NEW c \in Proven(e, fb)
    PROVE  c.line \in CameTrue(e, fb) /\ c \in Telling(e)
<1>1. c \in ActiveCells(e) /\ c \in Cell
  BY ActiveCellsAre DEF Proven
<1>2. PICK i \in 1 .. Len(e.overlays), j \in 0 .. e.width - 1 :
        /\ c = e.overlays[i].cells[j]
        /\ Validity(c, fb, e.overlays[i].row, j, e.late_acked) = "Correct"
  BY DEF Proven
<1>3. c.line \in 0 .. line
  BY <1>1 DEF Cell
<1>4. j \in Columns(e.overlays[i])
  <2>1. e.width = w
    BY DEF EngineOf
  <2>2. e.overlays[i].cells \in CellsOf(w) /\ j \in 0 .. w - 1
    BY <1>2, <2>1, ActiveCellsAre
  <2> QED
    BY <2>2 DEF Columns, CellsOf
<1>5. c.line \in CameTrue(e, fb)
  BY <1>2, <1>3, <1>4 DEF CameTrue
<1>6. c.replacement # Blank
  <2>1. PICK late : late = e.late_acked
    OBVIOUS
  <2>2. PICK r : r = e.overlays[i].row
    OBVIOUS
  <2>3. late \in Nat /\ Validity(c, fb, r, j, late) = "Correct"
    BY <1>2, <2>1, <2>2 DEF EngineOf
  <2> QED
    BY <1>1, <2>3, ValidityIs
<1> QED
  BY <1>1, <1>5, <1>6 DEF Telling

LEMMA SettledGuarded ==
    ASSUME NEW w, NEW e \in EngineOf(w), NEW v, NEW f \in EngineOf(v), NEW fb, Settles(e, f, fb),
           NEW ls, NEW l \in Nat, NEW vs, NEW us, vs \subseteq us, Guarded(e, ls, l, vs),
           \A c \in Proven(e, fb) : c.line \in us /\ c \in Telling(e)
    PROVE  Guarded(f, ls, l, us)
<1>1. ActiveCells(f) \subseteq ActiveCells(e) /\ Telling(f) \subseteq Telling(e)
  BY DEF Settles, Telling
<1>2. /\ e.prediction_epoch \in Nat /\ f.prediction_epoch \in Nat
      /\ f.prediction_epoch >= e.prediction_epoch
      /\ e.confirmed_epoch \in Nat /\ f.confirmed_epoch \in Nat
  BY DEF EngineOf, Settles
<1>3. ASSUME NEW c \in ActiveCells(e)
      PROVE  /\ c.line \in Nat /\ c.epoch \in Nat /\ c.line <= l /\ c.epoch <= e.prediction_epoch
             /\ c.replacement \in DOMAIN ls => ls[c.replacement] <= c.line
  <2>1. c \in Cell
    BY ActiveCellsAre
  <2> QED
    BY <2>1 DEF Cell, Guarded
<1>4. \A c \in Telling(e) : c \in ActiveCells(e)
  BY DEF Telling
<1>5. \A m : Vouched(m, vs) => Vouched(m, us)
  BY DEF Vouched
<1>6. \A c \in ActiveCells(f) :
          /\ c.line <= l /\ c.epoch <= f.prediction_epoch
          /\ c.replacement \in DOMAIN ls => ls[c.replacement] <= c.line
  BY <1>1, <1>2, <1>3
<1>7. \A c \in Telling(f), d \in ActiveCells(f) : d.line > c.line => d.epoch > c.epoch
  BY <1>1 DEF Guarded
<1>8. \A c \in Telling(f) : l > c.line => f.prediction_epoch > c.epoch
  <2> SUFFICES ASSUME NEW c \in Telling(f), l > c.line PROVE f.prediction_epoch > c.epoch
    OBVIOUS
  <2>1. e.prediction_epoch > c.epoch /\ c.epoch \in Nat
    BY <1>1, <1>3, <1>4 DEF Guarded
  <2> QED
    BY <1>2, <2>1
<1>9. CASE f.confirmed_epoch = e.confirmed_epoch
  <2>1. f.confirmed_epoch <= f.prediction_epoch
    BY <1>2, <1>9 DEF Guarded
  <2>2. \A c \in Telling(f) : c.epoch <= f.confirmed_epoch => Vouched(c.line, us)
    BY <1>1, <1>5, <1>9 DEF Guarded
  <2>3. f.prediction_epoch <= f.confirmed_epoch => Vouched(l, us)
    <3>1. f.prediction_epoch <= f.confirmed_epoch => e.prediction_epoch <= e.confirmed_epoch
      BY <1>2, <1>9
    <3> QED
      BY <1>5, <3>1 DEF Guarded
  <2> QED
    BY <1>6, <1>7, <1>8, <2>1, <2>2, <2>3 DEF Guarded
<1>10. CASE \E c \in Proven(e, fb) : f.confirmed_epoch = c.epoch
  <2>1. PICK p \in Proven(e, fb) : f.confirmed_epoch = p.epoch
    BY <1>10
  <2>2. p.line \in us /\ p \in Telling(e) /\ p \in ActiveCells(e)
    BY <1>4
  <2>3. p.line \in Nat /\ p.epoch \in Nat /\ p.epoch <= e.prediction_epoch
    BY <1>3, <2>2
  <2>4. f.confirmed_epoch <= f.prediction_epoch
    BY <1>2, <2>1, <2>3
  <2>5. \A c \in Telling(f) : c.epoch <= f.confirmed_epoch => Vouched(c.line, us)
    <3> SUFFICES ASSUME NEW c \in Telling(f), c.epoch <= f.confirmed_epoch
                 PROVE  Vouched(c.line, us)
      OBVIOUS
    <3>1. c \in ActiveCells(e) /\ c.epoch \in Nat /\ c.line \in Nat
      BY <1>1, <1>3, <1>4
    <3>2. c.line > p.line => c.epoch > p.epoch
      BY <2>2, <3>1 DEF Guarded
    <3>3. c.line <= p.line
      BY <2>1, <2>3, <3>1, <3>2
    <3> QED
      BY <2>2, <3>3 DEF Vouched
  <2>6. f.prediction_epoch <= f.confirmed_epoch => Vouched(l, us)
    <3> SUFFICES ASSUME f.prediction_epoch <= f.confirmed_epoch PROVE Vouched(l, us)
      OBVIOUS
    <3>1. l > p.line => e.prediction_epoch > p.epoch
      BY <2>2 DEF Guarded
    <3>2. e.prediction_epoch <= p.epoch
      BY <1>2, <2>1, <2>3
    <3>3. l <= p.line
      BY <1>2, <2>3, <3>1, <3>2
    <3> QED
      BY <2>2, <3>3 DEF Vouched
  <2> QED
    BY <1>6, <1>7, <1>8, <2>4, <2>5, <2>6 DEF Guarded
<1> QED
  BY <1>9, <1>10 DEF Settles

LEMMA QuietGuarded ==
    ASSUME NEW w, NEW f \in EngineOf(w), Quiet(f), f.confirmed_epoch < f.prediction_epoch,
           NEW ls, NEW l, NEW vs
    PROVE  Guarded(f, ls, l, vs)
<1>1. f.confirmed_epoch \in Nat /\ f.prediction_epoch \in Nat
  BY DEF EngineOf
<1>2. ActiveCells(f) = {} /\ Telling(f) = {}
  BY DEF Quiet, Telling
<1>3. f.confirmed_epoch <= f.prediction_epoch /\ ~ (f.prediction_epoch <= f.confirmed_epoch)
  BY <1>1
<1> QED
  BY <1>2, <1>3 DEF Guarded

\* A glyph that is typed on line l is new to the engine.
Relined(e, ls, us, l) ==
    /\ \A g \in DOMAIN us : us[g] \in 0 .. l
    /\ \A c \in ActiveCells(e) : c.replacement \in DOMAIN us =>
          c.replacement \in DOMAIN ls /\ us[c.replacement] = ls[c.replacement]

\* Typing keeps the lines apart: a prediction made now is of the present epoch
\* or a later one, and Enter leaves every one that shows something behind it.
LEMMA TypedGuarded ==
    ASSUME NEW w, NEW e \in EngineOf(w), NEW f, NEW G, NEW o \in Nat, NEW l \in Nat, NEW n \in Nat,
           Typed(e, f, G, o, l, n), ~ Experimental(e),
           NEW ls, NEW vs, Guarded(e, ls, l, vs),
           NEW k \in Nat, k = l \/ (k = l + 1 /\ Entered(e, f)),
           NEW us, Relined(e, ls, us, l)
    PROVE  /\ Guarded(f, us, k, vs)
           /\ \A c \in ActiveCells(f) : c.line <= l
<1>1. f \in EngineOf(f.width) /\ f.confirmed_epoch = e.confirmed_epoch
      /\ f.prediction_epoch >= e.prediction_epoch
  BY DEF Typed
<1>2. /\ e.prediction_epoch \in Nat /\ f.prediction_epoch \in Nat /\ e.confirmed_epoch \in Nat
      /\ e.confirmed_epoch <= e.prediction_epoch
  BY <1>1 DEF EngineOf, Guarded
<1> DEFINE New(c) == /\ c.line = l
                     /\ e.prediction_epoch <= c.epoch /\ c.epoch <= f.prediction_epoch
           Old(c) == /\ c \in ActiveCells(e) /\ c.line <= l /\ c.epoch <= e.prediction_epoch
                     /\ c.replacement \in DOMAIN us => us[c.replacement] <= c.line
<1>3. ASSUME NEW c \in ActiveCells(f)
      PROVE  c.line \in Nat /\ c.epoch \in Nat /\ (Old(c) \/ New(c))
  <2>1. c \in Cell
    <3>1. PICK u : u = f.width
      OBVIOUS
    <3>2. f \in EngineOf(u)
      BY <1>1, <3>1
    <3> QED
      BY <3>2, ActiveCellsAre
  <2>2. CASE c \in ActiveCells(e)
    BY <2>1, <2>2 DEF Guarded, Cell, Relined
  <2>3. CASE Added(c, e, f, G, o, l, n)
    BY <2>1, <2>3 DEF Added, Cell
  <2> QED
    BY <2>2, <2>3 DEF Typed
<1>4. \A c \in Telling(f) : c \in ActiveCells(f) /\ (Old(c) => c \in Telling(e))
  BY DEF Telling
<1>5. \A c \in ActiveCells(f) :
          /\ c.line <= l /\ c.line <= k /\ c.epoch <= f.prediction_epoch
          /\ c.replacement \in DOMAIN us => us[c.replacement] <= c.line
  <2> SUFFICES ASSUME NEW c \in ActiveCells(f)
               PROVE  /\ c.line <= l /\ c.line <= k /\ c.epoch <= f.prediction_epoch
                      /\ c.replacement \in DOMAIN us => us[c.replacement] <= c.line
    OBVIOUS
  <2>1. c.line \in Nat /\ c.epoch \in Nat /\ (Old(c) \/ New(c))
    BY <1>3
  <2>2. CASE Old(c)
    BY <1>1, <1>2, <2>1, <2>2
  <2>3. CASE New(c)
    BY <2>1, <2>3 DEF Relined
  <2> QED
    BY <2>1, <2>2, <2>3
<1>6. \A c \in Telling(f), d \in ActiveCells(f) : d.line > c.line => d.epoch > c.epoch
  <2> SUFFICES ASSUME NEW c \in Telling(f), NEW d \in ActiveCells(f), d.line > c.line
               PROVE  d.epoch > c.epoch
    OBVIOUS
  <2>1. /\ c \in ActiveCells(f) /\ c.line \in Nat /\ c.epoch \in Nat /\ (Old(c) \/ New(c))
        /\ d.line \in Nat /\ d.epoch \in Nat /\ (Old(d) \/ New(d))
    BY <1>3, <1>4
  <2>2. d.line <= l
    BY <1>5
  <2>3. Old(c) /\ c \in Telling(e) /\ l > c.line
    BY <1>4, <2>1, <2>2
  <2>4. CASE Old(d)
    BY <2>3, <2>4 DEF Guarded
  <2>5. CASE New(d)
    <3>1. e.prediction_epoch > c.epoch
      BY <2>3 DEF Guarded
    <3> QED
      BY <1>2, <2>1, <2>5, <3>1
  <2> QED
    BY <2>1, <2>4, <2>5
<1>7. \A c \in Telling(f) : k > c.line => f.prediction_epoch > c.epoch
  <2> SUFFICES ASSUME NEW c \in Telling(f), k > c.line PROVE f.prediction_epoch > c.epoch
    OBVIOUS
  <2>1. c \in ActiveCells(f) /\ c.line \in Nat /\ c.epoch \in Nat /\ (Old(c) \/ New(c))
    BY <1>3, <1>4
  <2>2. CASE k = l
    <3>1. Old(c) /\ c \in Telling(e) /\ l > c.line
      BY <1>4, <2>1, <2>2
    <3>2. e.prediction_epoch > c.epoch
      BY <3>1 DEF Guarded
    <3> QED
      BY <1>1, <1>2, <2>1, <3>2
  <2>3. CASE Entered(e, f)
    <3>1. c \in ActiveCells(e)
      BY <2>1, <2>3 DEF Entered, Telling
    <3>2. c.epoch <= e.prediction_epoch
      BY <3>1 DEF Guarded
    <3> QED
      BY <1>2, <2>1, <2>3, <3>2 DEF Entered
  <2> QED
    BY <2>2, <2>3
<1>8. f.confirmed_epoch <= f.prediction_epoch
  BY <1>1, <1>2
<1>9. \A c \in Telling(f) : c.epoch <= f.confirmed_epoch => Vouched(c.line, vs)
  <2> SUFFICES ASSUME NEW c \in Telling(f), c.epoch <= f.confirmed_epoch PROVE Vouched(c.line, vs)
    OBVIOUS
  <2>1. c \in ActiveCells(f) /\ c.line \in Nat /\ c.epoch \in Nat /\ (Old(c) \/ New(c))
    BY <1>3, <1>4
  <2>2. CASE Old(c)
    <3>1. c \in Telling(e)
      BY <1>4, <2>2
    <3> QED
      BY <1>1, <3>1 DEF Guarded
  <2>3. CASE New(c)
    <3>1. e.prediction_epoch <= e.confirmed_epoch
      BY <1>1, <1>2, <2>1, <2>3
    <3> QED
      BY <2>3, <3>1 DEF Guarded
  <2> QED
    BY <2>1, <2>2, <2>3
<1>10. f.prediction_epoch <= f.confirmed_epoch => Vouched(k, vs)
  <2> SUFFICES ASSUME f.prediction_epoch <= f.confirmed_epoch PROVE Vouched(k, vs)
    OBVIOUS
  <2>1. e.prediction_epoch <= e.confirmed_epoch /\ ~ (f.prediction_epoch > e.prediction_epoch)
    BY <1>1, <1>2
  <2>2. k = l
    BY <2>1 DEF Entered
  <2> QED
    BY <2>1, <2>2 DEF Guarded
<1>11. Guarded(f, us, k, vs)
  BY <1>5, <1>6, <1>7, <1>8, <1>9, <1>10 DEF Guarded
<1> QED
  BY <1>5, <1>11

\* What the user typed is drawn only where it is the server's or vouched for.
LEMMA DrawnGuarded ==
    ASSUME NEW w, NEW e \in EngineOf(w), NEW ls, NEW l, NEW vs, Guarded(e, ls, l, vs),
           Blank \notin DOMAIN ls, \A g \in DOMAIN ls : ls[g] \in Nat, vs \subseteq Nat,
           NEW h \in Nat, NEW v \in Nat, NEW fb \in ScreenOf(h, v), NEW d \in ScreenOf(h, v),
           Drawn(e, d, fb)
    PROVE  \A r \in DOMAIN d.cell : \A j \in DOMAIN d.cell[r] :
              d.cell[r][j] \in DOMAIN ls /\ d.cell[r][j] # fb.cell[r][j]
                => \E m \in vs : ls[d.cell[r][j]] <= m
<1> SUFFICES ASSUME NEW r \in DOMAIN d.cell, NEW j \in DOMAIN d.cell[r],
                    d.cell[r][j] \in DOMAIN ls, d.cell[r][j] # fb.cell[r][j]
             PROVE  \E m \in vs : ls[d.cell[r][j]] <= m
  OBVIOUS
<1>1. r \in 0 .. h - 1 /\ j \in 0 .. v - 1 /\ fb.rows = h /\ fb.cols = v
  <2>1. fb.rows = h /\ fb.cols = v
    BY ScreenIs
  <2>2. d.cell \in [0 .. h - 1 -> [0 .. v - 1 -> Characters]]
    BY ScreenIs
  <2>3. r \in 0 .. h - 1
    BY <2>2
  <2>4. d.cell[r] \in [0 .. v - 1 -> Characters]
    BY <2>2, <2>3
  <2> QED
    BY <2>1, <2>3, <2>4
<1>2. PICK c \in ActiveCells(e) : c.epoch <= e.confirmed_epoch /\ d.cell[r][j] = c.replacement
  BY <1>1 DEF Drawn
<1>3. c \in Telling(e) /\ c.line \in Nat
  BY <1>2, ActiveCellsAre DEF Telling, Cell
<1>4. Vouched(c.line, vs) /\ ls[c.replacement] <= c.line /\ ls[c.replacement] \in Nat
  BY <1>2, <1>3 DEF Guarded
<1>5. PICK m \in vs : c.line <= m
  BY <1>4 DEF Vouched
<1>6. ls[c.replacement] <= m /\ m \in vs
  BY <1>3, <1>4, <1>5
<1> QED
  BY <1>2, <1>6

\* A user who never wants predictions gets none.
Untouched(e, f) ==
    /\ f \in EngineOf(f.width) /\ SamePredictions(e, f)
    /\ f.preference = e.preference /\ f.late_acked = e.late_acked

LEMMA PredictedNever ==
    ASSUME NEW w, NEW e \in EngineOf(w), e.preference = "never",
           offset \in Nat, line \in Nat, NEW key \in Seq(Characters), NEW fb, NEW t
    PROVE  Untouched(e, Predicted(e, key, fb, t))
<1>1. PICK n \in Nat : n = Len(key)
  OBVIOUS
<1>2. PICK o \in Nat : o = offset
  OBVIOUS
<1>3. PICK l \in Nat : l = line
  OBVIOUS
<1> DEFINE x == CHOOSE x : IsTyped(x, e, key, fb, t, o, l, n)
<1>4. IsTyped(x, e, key, fb, t, o, l, n)
  BY <1>1, TypedExists
<1>5. Predicted(e, key, fb, t) = x[n]
  BY <1>1, <1>2, <1>3 DEF Predicted, IsTyped, At
<1> HIDE DEF x
<1>6. x[0] = e /\ \A k \in 1 .. n : x[k] = NewUserByte(At(x[k - 1], o + k - 1, l), key[k], fb, t)
  <2>1. \A k \in 0 .. n : x[k] = IF k = 0 THEN e
                                 ELSE NewUserByte(At(x[k - 1], o + k - 1, l), key[k], fb, t)
    BY <1>4, Zenon DEF IsTyped
  <2>2. 0 \in 0 .. n /\ \A k \in 1 .. n : k \in 0 .. n /\ k # 0
    BY <1>1
  <2> QED
    BY <2>1, <2>2, Zenon
<1> DEFINE T == {k \in 0 .. n : Untouched(e, x[k])}
<1>7. 0 \in T
  <2>1. e \in EngineOf(e.width)
    BY DEF EngineOf
  <2> QED
    BY <1>6, <2>1 DEF Untouched, SamePredictions
<1>8. ASSUME NEW k \in 1 .. n, k - 1 \in T PROVE k \in T
  <2>1. PICK q : q = x[k - 1]
    OBVIOUS
  <2>2. PICK f : f = x[k]
    OBVIOUS
  <2>3. PICK s : s = o + k - 1
    OBVIOUS
  <2>4. Untouched(e, q) /\ s \in Nat
    BY <1>8, <2>1, <2>3
  <2>5. q.preference = "never"
    BY <2>4 DEF Untouched
  <2>6. f = NewUserByte(At(q, s, l), key[k], fb, t)
    BY <1>6, <2>1, <2>2, <2>3
  <2>7. PICK a : a = At(q, s, l)
    OBVIOUS
  <2>8. q \in EngineOf(q.width)
    BY <2>4 DEF Untouched
  <2>9. /\ a \in EngineOf(a.width) /\ SamePredictions(q, a)
        /\ a.preference = q.preference /\ a.late_acked = q.late_acked
    BY <2>4, <2>7, <2>8 DEF At, EngineOf, SamePredictions
  <2>10. f = a
    BY <2>5, <2>6, <2>7, <2>9 DEF NewUserByte
  <2>11. Untouched(e, f)
    BY <2>4, <2>9, <2>10 DEF Untouched, SamePredictions
  <2> QED
    BY <2>2, <2>11
<1>9. n \in T
  <2>1. \A k \in 0 .. n : k \in T
    <3> HIDE DEF T
    <3> QED
      BY <1>1, <1>7, <1>8, UpTo
  <2>2. n \in 0 .. n
    BY <1>1
  <2> QED
    BY <2>1, <2>2
<1> QED
  BY <1>5, <1>9

-----------------------------------------------------------------------------
(***************************************************************************)
(* The bytes between the user and the application.                         *)
(***************************************************************************)
LEMMA TallyBound ==
    ASSUME NEW ends, NEW q \in Seq(Seq(Characters)), NEW a \in Nat, NEW z \in Nat,
           Tally(ends, q, a, z)
    PROVE  a <= z
<1>1. PICK n \in Nat : n = Len(q)
  OBVIOUS
<1>2. /\ ends \in [0 .. n -> Nat] /\ ends[0] = a /\ ends[n] = z
      /\ \A k \in 1 .. n : ends[k] = ends[k - 1] + Len(q[k])
  BY <1>1 DEF Tally
<1> DEFINE T == {k \in 0 .. n : a <= ends[k]}
<1>3. 0 \in T
  BY <1>2
<1>4. ASSUME NEW k \in 1 .. n, k - 1 \in T PROVE k \in T
  <2>1. q[k] \in Seq(Characters)
    BY <1>1, ElementOfSeq
  <2>2. Len(q[k]) \in Nat
    BY <2>1
  <2>3. k \in 0 .. n /\ k - 1 \in 0 .. n
    OBVIOUS
  <2>4. ends[k - 1] \in Nat /\ ends[k] = ends[k - 1] + Len(q[k]) /\ a <= ends[k - 1]
    BY <1>2, <1>4, <2>3
  <2> QED
    BY <2>2, <2>3, <2>4
<1>5. \A k \in 0 .. n : k \in T
  <2> HIDE DEF T
  <2> QED
    BY <1>3, <1>4, UpTo
<1>6. n \in T
  BY <1>5
<1> QED
  BY <1>2, <1>6

LEMMA TallyAppend ==
    ASSUME NEW ends, NEW q \in Seq(Seq(Characters)), NEW a \in Nat, NEW z \in Nat,
           Tally(ends, q, a, z), NEW key \in Seq(Characters)
    PROVE  \E more : Tally(more, Append(q, key), a, z + Len(key))
<1>1. PICK n \in Nat : n = Len(q)
  OBVIOUS
<1>2. PICK m \in Nat : m = Len(key)
  OBVIOUS
<1>3. PICK p : p = Append(q, key)
  OBVIOUS
<1>4. Len(p) = n + 1 /\ p[n + 1] = key /\ \A k \in 1 .. n : p[k] = q[k]
  BY <1>1, <1>3, AppendProperties
<1>5. /\ ends \in [0 .. n -> Nat] /\ ends[0] = a /\ ends[n] = z
      /\ \A k \in 1 .. n : ends[k] = ends[k - 1] + Len(q[k])
  BY <1>1 DEF Tally
<1> DEFINE more == [k \in 0 .. n + 1 |-> IF k = n + 1 THEN z + m ELSE ends[k]]
<1>6. more \in [0 .. n + 1 -> Nat]
  BY <1>5
<1>7. more[0] = a /\ more[n + 1] = z + m
  BY <1>5
<1>8. ASSUME NEW k \in 1 .. n + 1 PROVE more[k] = more[k - 1] + Len(p[k])
  <2>1. CASE k = n + 1
    BY <1>2, <1>4, <1>5, <2>1
  <2>2. CASE k # n + 1
    <3>1. k \in 1 .. n /\ k \in 0 .. n + 1 /\ k - 1 \in 0 .. n + 1 /\ k - 1 # n + 1
      BY <2>2
    <3>2. more[k] = ends[k] /\ more[k - 1] = ends[k - 1]
      BY <2>2, <3>1
    <3> HIDE DEF more
    <3> QED
      BY <1>4, <1>5, <3>1, <3>2
  <2> QED
    BY <2>1, <2>2
<1> HIDE DEF more
<1>9. Tally(more, p, a, z + m)
  BY <1>4, <1>6, <1>7, <1>8 DEF Tally
<1> QED
  BY <1>2, <1>3, <1>9

LEMMA TallyTail ==
    ASSUME NEW ends, NEW q \in Seq(Seq(Characters)), NEW a \in Nat, NEW z \in Nat,
           Tally(ends, q, a, z), q # << >>
    PROVE  \E less : Tally(less, Tail(q), a + Len(Head(q)), z)
<1>1. PICK n \in Nat : n = Len(q)
  OBVIOUS
<1>2. n # 0
  BY <1>1, EmptySeq
<1>3. PICK p : p = Tail(q)
  OBVIOUS
<1>4. Len(p) = n - 1 /\ \A k \in 1 .. n - 1 : p[k] = q[k + 1]
  BY <1>1, <1>2, <1>3, HeadTailProperties
<1>5. /\ ends \in [0 .. n -> Nat] /\ ends[0] = a /\ ends[n] = z
      /\ \A k \in 1 .. n : ends[k] = ends[k - 1] + Len(q[k])
  BY <1>1 DEF Tally
<1> DEFINE less == [k \in 0 .. n - 1 |-> ends[k + 1]]
<1>6. less \in [0 .. n - 1 -> Nat]
  BY <1>5
<1>7. less[0] = a + Len(Head(q)) /\ less[n - 1] = z
  <2>1. Head(q) = q[1]
    BY <1>1, <1>2
  <2> QED
    BY <1>2, <1>5, <2>1
<1>8. ASSUME NEW k \in 1 .. n - 1 PROVE less[k] = less[k - 1] + Len(p[k])
  <2>1. k \in 0 .. n - 1 /\ k - 1 \in 0 .. n - 1 /\ k + 1 \in 1 .. n /\ k - 1 + 1 = k
        /\ k + 1 - 1 = k
    BY <1>2
  <2>2. less[k] = ends[k + 1] /\ less[k - 1] = ends[k]
    BY <2>1
  <2>3. ends[k + 1] = ends[k] + Len(q[k + 1])
    BY <1>5, <2>1
  <2> QED
    BY <1>4, <2>2, <2>3
<1> HIDE DEF less
<1>9. Tally(less, p, a + Len(Head(q)), z)
  BY <1>2, <1>4, <1>6, <1>7, <1>8 DEF Tally
<1> QED
  BY <1>3, <1>9

-----------------------------------------------------------------------------
(***************************************************************************)
(* The engine before a turn's Compose.                                     *)
(***************************************************************************)
LEMMA AckedIs ==
    ASSUME NEW w, NEW e \in EngineOf(w), NEW ack \in Nat, NEW interval \in Nat
    PROVE  /\ Acked(e, ack, interval) \in EngineOf(w)
           /\ SameEpochs(e, Acked(e, ack, interval))
           /\ Acked(e, ack, interval).preference = e.preference
           /\ ActiveCells(Acked(e, ack, interval)) = ActiveCells(e)
           /\ \A o \in Nat :
                 Outstanding(e, o) /\ ack <= o => Outstanding(Acked(e, ack, interval), o)
<1>1. PICK f : f = Acked(e, ack, interval)
  OBVIOUS
<1>2. Later(e.late_acked, ack) \in Nat
  BY DEF EngineOf, Later
<1>3. /\ f \in EngineOf(w) /\ SamePredictions(e, f) /\ SameEpochs(e, f)
      /\ f.preference = e.preference /\ f.sent = e.sent
      /\ f.late_acked = Later(e.late_acked, ack)
  BY <1>1, <1>2 DEF Acked, EngineOf, SamePredictions, SameEpochs
<1>4. ActiveCells(f) = ActiveCells(e) /\ Cursors(f) = Cursors(e) /\ Due(f) = Due(e)
  BY <1>3 DEF SamePredictions, ActiveCells, Cursors, Due
<1>5. ASSUME NEW o \in Nat, Outstanding(e, o), ack <= o PROVE Outstanding(f, o)
  <2>1. f.late_acked <= o
    BY <1>3, <1>5 DEF Outstanding, Later
  <2> QED
    BY <1>3, <1>4, <1>5, <2>1 DEF Outstanding, Quiet
<1> QED
  BY <1>1, <1>3, <1>4, <1>5

\* Guarded looks only at the active cells and the epochs.
LEMMA SameGuarded ==
    ASSUME NEW e, NEW f, ActiveCells(f) = ActiveCells(e), SameEpochs(e, f),
           NEW ls, NEW l, NEW vs, Guarded(e, ls, l, vs)
    PROVE  Guarded(f, ls, l, vs)
<1>1. Telling(f) = Telling(e)
  BY DEF Telling
<1> QED
  BY <1>1 DEF Guarded, SameEpochs

LEMMA ResetOutstanding ==
    ASSUME NEW w, NEW e \in EngineOf(w), NEW o \in Nat, NEW z \in Nat, o <= z, Outstanding(e, o)
    PROVE  Outstanding(Reset(e), z)
<1>1. PICK f : f = Reset(e)
  OBVIOUS
<1>2. Quiet(f) /\ f.late_acked = e.late_acked
  BY <1>1, ResetCulled DEF Culled, Keeps
<1>3. f.late_acked <= z
  BY <1>2 DEF Outstanding, EngineOf
<1>4. Outstanding(f, z)
  BY <1>2, <1>3 DEF Outstanding, Quiet, Due
<1> QED
  BY <1>1, <1>4

LEMMA ResetGuarded ==
    ASSUME NEW w, NEW e \in EngineOf(w), ~ Experimental(e), NEW ls, NEW l, NEW vs, NEW us, NEW k,
           Guarded(e, ls, l, vs)
    PROVE  Guarded(Reset(e), us, k, vs)
<1>1. PICK f : f = Reset(e)
  OBVIOUS
<1>2. /\ f \in EngineOf(w) /\ Quiet(f) /\ f.confirmed_epoch = e.confirmed_epoch
      /\ f.prediction_epoch = e.prediction_epoch + 1
  BY <1>1, ResetIs, ResetCulled
<1>3. f.confirmed_epoch < f.prediction_epoch
  <2>1. e.confirmed_epoch \in Nat /\ e.prediction_epoch \in Nat
    BY DEF EngineOf
  <2>2. e.confirmed_epoch <= e.prediction_epoch
    BY DEF Guarded
  <2> QED
    BY <1>2, <2>1, <2>2
<1> QED
  BY <1>1, <1>2, <1>3, QuietGuarded

\* What is typed is outstanding until its last byte is acknowledged.
LEMMA TypedOutstanding ==
    ASSUME NEW w, NEW e \in EngineOf(w), NEW f, NEW G, NEW o \in Nat, NEW l, NEW n \in Nat \ {0},
           Typed(e, f, G, o, l, n), Outstanding(e, o), e.preference # "never"
    PROVE  Outstanding(f, o + n)
<1>1. e.late_acked \in Nat /\ e.late_acked <= o /\ f.late_acked = e.late_acked
  BY DEF EngineOf, Typed, Outstanding
<1>2. f.late_acked <= o + n
  BY <1>1
<1>3. ASSUME NEW c \in ActiveCells(f) PROVE c.expiration <= o + n
  <2>1. CASE c \in ActiveCells(e)
    <3>1. c.expiration \in Nat
      BY <2>1, ActiveCellsAre DEF Cell
    <3>2. c.expiration <= o
      BY <2>1 DEF Outstanding
    <3> QED
      BY <3>1, <3>2
  <2>2. CASE Added(c, e, f, G, o, l, n)
    BY <2>2 DEF Added
  <2> QED
    BY <2>1, <2>2 DEF Typed
<1>4. ASSUME NEW d \in Due(f) PROVE d <= o + n
  <2>1. CASE d \in Due(e)
    <3>1. d \in Nat
      BY <2>1, CursorsAre DEF Due, Cursor
    <3>2. d <= o
      BY <2>1 DEF Outstanding
    <3> QED
      BY <3>1, <3>2
  <2>2. CASE d \in o + 1 .. o + n
    BY <2>2
  <2> QED
    BY <2>1, <2>2 DEF Typed
<1>5. f.sent < o + n
  <2>1. f.sent = o + n - 1
    BY DEF Typed
  <2> QED
    BY <2>1
<1>6. f.preference # "never"
  BY DEF Typed
<1> QED
  BY <1>2, <1>3, <1>4, <1>5, <1>6 DEF Outstanding

\* A key is a few characters; a glyph is typed for the first time.
LEMMA KeyIs ==
    ASSUME NEW key \in Keys \cup NextGlyphs, line \in Nat,
           DOMAIN lines \subseteq Range(Glyphs), \A g \in DOMAIN lines : lines[g] \in 0 .. line,
           NEW ls, ls = IF key[1] \in Range(Glyphs)
                        THEN [g \in DOMAIN lines \cup {key[1]} |->
                                IF g = key[1] THEN line ELSE lines[g]]
                        ELSE lines
    PROVE  /\ key \in Seq(Characters) /\ Len(key) \in Nat \ {0}
           /\ \A i \in 1 .. Len(key) : key[i] \in Known(ls)
           /\ Known(lines) \subseteq Known(ls)
           /\ DOMAIN ls \subseteq Range(Glyphs) /\ \A g \in DOMAIN ls : ls[g] \in 0 .. line
           /\ \A x \in Known(lines) : x \in DOMAIN ls => x \in DOMAIN lines /\ ls[x] = lines[x]
<1>1. Glyphs \in Seq(Characters)
  BY PredictAssumption
<1>2. CASE key \in Keys
  <2>1. key \in Seq(Characters) /\ key # << >> /\ Range(key) \cap Range(Glyphs) = {}
    BY <1>2, PredictAssumption
  <2>2. Len(key) \in Nat \ {0}
    BY <2>1, EmptySeq
  <2>3. \A i \in 1 .. Len(key) : key[i] \in Characters /\ key[i] \in Range(key)
    <3>1. DOMAIN key = 1 .. Len(key)
      BY <2>1
    <3> QED
      BY <2>1, <3>1, ElementOfSeq DEF Range
  <2>4. \A i \in 1 .. Len(key) : key[i] \notin Range(Glyphs)
    BY <2>1, <2>3
  <2>5. ls = lines
    BY <2>2, <2>4
  <2> QED
    BY <2>1, <2>2, <2>3, <2>4, <2>5 DEF Known
<1>3. CASE key \in NextGlyphs
  <2>1. PICK i \in 1 .. Len(Glyphs) : key = <<Glyphs[i]>> /\ Glyphs[i] \notin DOMAIN lines
    BY <1>3 DEF NextGlyphs
  <2>2. PICK g : g = Glyphs[i]
    OBVIOUS
  <2>3. g \in Characters /\ g \in Range(Glyphs) /\ g \notin DOMAIN lines
    <3>1. DOMAIN Glyphs = 1 .. Len(Glyphs)
      BY <1>1
    <3> QED
      BY <1>1, <2>1, <2>2, <3>1, ElementOfSeq DEF Range
  <2>4. key = <<g>> /\ key \in Seq(Characters) /\ Len(key) = 1 /\ key[1] = g
    BY <2>1, <2>2, <2>3
  <2>5. ls = [x \in DOMAIN lines \cup {g} |-> IF x = g THEN line ELSE lines[x]]
    BY <2>3, <2>4
  <2>6. DOMAIN ls = DOMAIN lines \cup {g} /\ ls[g] = line
        /\ \A x \in DOMAIN lines : ls[x] = lines[x]
    BY <2>3, <2>5
  <2>7. \A x \in 1 .. Len(key) : key[x] \in Known(ls)
    <3>1. \A x \in 1 .. Len(key) : key[x] = g
      BY <2>4
    <3> QED
      BY <2>3, <2>6, <3>1 DEF Known
  <2>8. Known(lines) \subseteq Known(ls)
    BY <2>6 DEF Known
  <2>9. \A x \in DOMAIN ls : ls[x] \in 0 .. line
    BY <2>6
  <2>10. \A x \in Known(lines) : x \in DOMAIN ls => x \in DOMAIN lines /\ ls[x] = lines[x]
    BY <2>3, <2>6 DEF Known
  <2>11. DOMAIN ls \subseteq Range(Glyphs)
    BY <2>3, <2>6
  <2>12. Len(key) \in Nat \ {0}
    BY <2>4
  <2>13. key \in Seq(Characters)
    BY <2>4
  <2> QED
    BY <2>7, <2>8, <2>9, <2>10, <2>11, <2>12, <2>13
<1> QED
  BY <1>2, <1>3

LEMMA BlankKnown ==
    ASSUME NEW ls, DOMAIN ls \subseteq Range(Glyphs)
    PROVE  Blank \notin DOMAIN ls /\ {Blank, "narrow"} \subseteq Known(ls)
  BY PredictAssumption DEF Known, Characters

\* What the invariant says of the client.
Served ==
    /\ engine \in EngineOf(engine.width)
    /\ SoundScreen(server_term) /\ SoundScreen(last_drawn)
    /\ last_drawn.rows = server_term.rows /\ last_drawn.cols = server_term.cols
    /\ overlays_drawn \in BOOLEAN /\ vindicated \subseteq Nat
    /\ Shows(server_term, Known(lines)) /\ Shows(last_drawn, Known(lines))
    /\ Predicts(engine, Known(lines))
    /\ Timely /\ Plain /\ Secrets /\ SecretNotShown

\* Every turn ends with Compose, which reestablishes it from what the turn
\* leaves of the engine.
LEMMA ComposeServes ==
    ASSUME TypeOK, Plain,
           NEW o \in Nat, o = offset', NEW l \in Nat, l = line', NEW ls, ls = lines',
           DOMAIN ls \subseteq Range(Glyphs), \A g \in DOMAIN ls : ls[g] \in Nat,
           NEW w, NEW e \in EngineOf(w), Outstanding(e, o), Predicts(e, Known(ls)),
           Watched(e) => Guarded(e, ls, l, vindicated),
           Watched(e) => \A c \in ActiveCells(e) : c.line <= line,
           NEW fb, SoundScreen(fb), Shows(fb, Known(ls)),
           NEW changed \in BOOLEAN, changed \/ fb = server_term,
           Compose(e, fb, changed, now)
    PROVE  Served'
<1>1. PICK f : f = engine'
  OBVIOUS
<1>2. PICK d : d = last_drawn'
  OBVIOUS
<1>3. PICK us : us = vindicated'
  OBVIOUS
<1>4. PICK h : h = fb.rows
  OBVIOUS
<1>5. PICK v : v = fb.cols
  OBVIOUS
<1>6. h \in Nat \ {0} /\ v \in Nat \ {0} /\ fb \in ScreenOf(h, v)
  BY <1>4, <1>5 DEF SoundScreen
<1>7. h \in Nat /\ v \in Nat /\ now \in Nat /\ overlays_drawn \in BOOLEAN
      /\ (~ overlays_drawn => last_drawn = server_term)
  BY <1>6 DEF TypeOK, Plain
<1>8. /\ f \in EngineOf(f.width) /\ f.preference = e.preference
      /\ Outstanding(f, o)
      /\ f.preference = "never" \/ Pending(f)
      /\ Settles(e, f, fb)
      /\ server_term' = fb /\ d \in ScreenOf(h, v)
      /\ Drawn(f, d, fb)
      /\ overlays_drawn' \in BOOLEAN
      /\ ~ overlays_drawn' \/ Quiet(f) => d = fb
  BY <1>1, <1>2, <1>6, <1>7, ComposeIs
<1>9. PICK u : u = f.width
  OBVIOUS
<1>10. f \in EngineOf(u)
  BY <1>8, <1>9
<1>11. SoundScreen(d) /\ d.rows = fb.rows /\ d.cols = fb.cols
  <2>1. d.rows = h /\ d.cols = v /\ fb.rows = h /\ fb.cols = v
    BY <1>6, <1>8, ScreenIs
  <2> QED
    BY <1>6, <1>8, <2>1 DEF SoundScreen
<1>12. Predicts(f, Known(ls))
  BY <1>8 DEF Settles, Predicts
<1>13. Shows(d, Known(ls))
  BY <1>6, <1>7, <1>8, <1>10, <1>12, DrawnShows
<1>14. us = vindicated \cup CameTrue(e, fb) /\ vindicated \subseteq us /\ us \subseteq Nat
  <2>1. us = vindicated \cup CameTrue(e, fb)
    BY <1>3 DEF Compose
  <2>2. CameTrue(e, fb) \subseteq 0 .. line /\ line \in Nat /\ vindicated \subseteq Nat
    BY DEF CameTrue, TypeOK
  <2>3. CameTrue(e, fb) \subseteq Nat
    BY <2>2
  <2> QED
    BY <2>1, <2>2, <2>3
<1>15. Watched(f) => Guarded(f, ls, l, us)
  <2> SUFFICES ASSUME Watched(f) PROVE Guarded(f, ls, l, us)
    OBVIOUS
  <2>1. Watched(e)
    BY <1>8 DEF Watched, Experimental
  <2>2. \A c \in Proven(e, fb) : c.line \in us /\ c \in Telling(e)
    <3>1. line \in Nat
      BY DEF TypeOK
    <3>2. \A c \in ActiveCells(e) : c.line <= line
      BY <2>1
    <3>3. \A c \in Proven(e, fb) : c.line \in CameTrue(e, fb) /\ c \in Telling(e)
      BY <3>1, <3>2, ProvenVouched
    <3> QED
      BY <1>14, <3>3
  <2>3. Guarded(e, ls, l, vindicated)
    BY <2>1
  <2>4. PICK vs : vs = vindicated
    OBVIOUS
  <2>5. vs \subseteq us /\ Guarded(e, ls, l, vs)
    BY <1>14, <2>3, <2>4
  <2> QED
    BY <1>8, <1>10, <2>2, <2>5, SettledGuarded
<1>16. f.preference = "never" => d = fb
  BY <1>8 DEF Outstanding
<1>17. Experimental(f) \/
         \A r \in DOMAIN d.cell : \A j \in DOMAIN d.cell[r] :
            d.cell[r][j] \in DOMAIN ls /\ d.cell[r][j] # fb.cell[r][j]
              => \E m \in us : ls[d.cell[r][j]] <= m
  <2>1. CASE Experimental(f)
    BY <2>1
  <2>2. CASE f.preference = "never"
    BY <1>16, <2>2
  <2>3. CASE Watched(f)
    <3>1. Guarded(f, ls, l, us) /\ Blank \notin DOMAIN ls
      BY <1>15, <2>3, BlankKnown
    <3> QED
      BY <1>6, <1>7, <1>8, <1>10, <1>14, <3>1, DrawnGuarded
  <2> QED
    BY <2>1, <2>2, <2>3 DEF Watched
<1>18. SecretNotShown'
  BY <1>1, <1>2, <1>3, <1>8, <1>17 DEF SecretNotShown
<1>19. Timely'
  BY <1>1, <1>8 DEF Timely
<1>20. Plain'
  BY <1>1, <1>2, <1>8 DEF Plain
<1>21. Secrets'
  BY <1>1, <1>3, <1>15 DEF Secrets
<1> QED
  BY <1>1, <1>2, <1>3, <1>8, <1>11, <1>12, <1>13, <1>14, <1>18, <1>19, <1>20, <1>21 DEF Served

\* What the invariant says of the user and the application.
Outside ==
    /\ SoundScreen(screen) /\ Shows(screen, Known(lines))
    /\ now \in Nat /\ offset \in Nat /\ read \in Nat /\ line \in Nat /\ cols \in Nat \ {0}
    /\ DOMAIN lines \subseteq Range(Glyphs) /\ \A g \in DOMAIN lines : lines[g] \in 0 .. line
    /\ unread \in Seq(Seq(Characters))
    /\ \A k \in 1 .. Len(unread) :
          \A i \in 1 .. Len(unread[k]) : unread[k][i] \in Known(lines)
    /\ Accounted

LEMMA InvParts == Inv <=> Served /\ Outside
  BY DEF Inv, TypeOK, Origins, Served, Outside

LEMMA InvNext == ASSUME Served', Outside' PROVE Inv'
  BY DEF Inv, TypeOK, Origins, Served, Outside

LEMMA ServedStill ==
    ASSUME Served, UNCHANGED <<client, lines, line, offset>>
    PROVE  Served'
<1>1. /\ engine' = engine /\ server_term' = server_term /\ last_drawn' = last_drawn
      /\ overlays_drawn' = overlays_drawn /\ vindicated' = vindicated
      /\ lines' = lines /\ line' = line /\ offset' = offset
  BY DEF client
<1>2. Timely' /\ Plain' /\ Secrets' /\ SecretNotShown'
  BY <1>1 DEF Served, Timely, Plain, Secrets, SecretNotShown
<1> QED
  BY <1>1, <1>2 DEF Served

LEMMA InitInv == Init => Inv
<1> SUFFICES ASSUME Init PROVE Inv
  OBVIOUS
<1>1. PICK s \in Settings : engine = NewEngine(s[1], s[2])
  BY DEF Init
<1>2. s[1] \in Preferences /\ s[2] \in BOOLEAN
  <2>1. s \in Preferences \X BOOLEAN
    BY PredictAssumption
  <2> QED
    BY <2>1
<1>3. PICK e : e = engine
  OBVIOUS
<1>4. /\ e \in EngineOf(0) /\ e.overlays = << >> /\ e.cursors = << >> /\ e.width = 0
      /\ e.late_acked = 0 /\ e.prediction_epoch = 1 /\ e.confirmed_epoch = 0
  <2>1. FLAG_TRIGGER_HIGH \in Nat
    BY PredictAssumption
  <2>2. << >> \in Seq(RowOf(0)) /\ << >> \in Seq(Cursor) /\ FLAG_TRIGGER_HIGH + 1 \in Nat
    BY <2>1
  <2> QED
    BY <1>1, <1>2, <1>3, <2>2 DEF NewEngine, EngineOf, Parsers
<1>5. Quiet(e)
  BY <1>4, EmptyQuiet
<1>6. Outstanding(e, 0) /\ Pending(e)
  BY <1>4, <1>5 DEF Outstanding, Pending, Quiet, Due
<1>7. \A ls, l, vs : Guarded(e, ls, l, vs)
  BY <1>4, <1>5, QuietGuarded
<1>8. /\ screen \in Screens /\ server_term = screen /\ last_drawn = screen /\ cols = screen.cols
      /\ overlays_drawn = FALSE /\ now = 0 /\ offset = 0 /\ read = 0 /\ line = 0
      /\ lines = << >> /\ unread = << >> /\ vindicated = {}
  BY DEF Init
<1>9. SoundScreen(screen)
      /\ \A r \in 0 .. screen.rows - 1, j \in 0 .. screen.cols - 1 :
            screen.cell[r][j] \notin Range(Glyphs)
  BY <1>8, PredictAssumption DEF SoundScreen
<1>10. Shows(screen, Known(lines))
  <2>1. PICK h : h = screen.rows
    OBVIOUS
  <2>2. PICK v : v = screen.cols
    OBVIOUS
  <2>3. screen \in ScreenOf(h, v)
    BY <1>9, <2>1, <2>2 DEF SoundScreen
  <2>4. screen.cell \in [0 .. h - 1 -> [0 .. v - 1 -> Characters]]
    BY <2>3, ScreenIs
  <2>5. \A r \in 0 .. h - 1, j \in 0 .. v - 1 : screen.cell[r][j] \in Characters
    BY <2>4
  <2> QED
    BY <1>9, <2>1, <2>2, <2>5 DEF Shows, Known
<1>11. DOMAIN lines = {}
  BY <1>8
<1>12. Predicts(e, Known(lines))
  BY <1>5 DEF Quiet, Predicts
<1>13. e \in EngineOf(e.width)
  BY <1>4
<1>14. Accounted
  <2> DEFINE ends == [k \in 0 .. 0 |-> 0]
  <2>1. Len(unread) = 0
    BY <1>8
  <2>2. ends \in [0 .. 0 -> Nat] /\ ends[0] = 0
    OBVIOUS
  <2> HIDE DEF ends
  <2>3. Tally(ends, unread, read, offset)
    BY <1>8, <2>1, <2>2 DEF Tally
  <2> QED
    BY <2>3 DEF Accounted
<1>15. Outside
  <2>1. unread \in Seq(Seq(Characters)) /\ Len(unread) = 0
    BY <1>8
  <2>2. cols \in Nat \ {0}
    BY <1>8, <1>9 DEF SoundScreen
  <2> QED
    BY <1>8, <1>9, <1>10, <1>11, <1>14, <2>1, <2>2 DEF Outside
<1>16. Timely /\ Plain /\ Secrets /\ SecretNotShown
  <2>1. Timely
    BY <1>3, <1>6, <1>8 DEF Timely
  <2>2. Plain
    BY <1>8 DEF Plain
  <2>3. Secrets
    BY <1>3, <1>7 DEF Secrets
  <2>4. SecretNotShown
    BY <1>8 DEF SecretNotShown
  <2> QED
    BY <2>1, <2>2, <2>3, <2>4
<1>17. Served
  BY <1>3, <1>8, <1>9, <1>10, <1>12, <1>13, <1>16 DEF Served
<1> QED
  BY <1>15, <1>17, InvParts

\* What a turn finds.
LEMMA TurnBegins ==
    ASSUME Inv
    PROVE  /\ TypeOK /\ Plain /\ Served /\ Outside
           /\ Outstanding(engine, offset) /\ Predicts(engine, Known(lines))
           /\ \A g \in DOMAIN lines : lines[g] \in Nat
           /\ Watched(engine) => Guarded(engine, lines, line, vindicated)
           /\ Watched(engine) => \A c \in ActiveCells(engine) : c.line <= line
<1>1. TypeOK /\ Plain /\ Timely /\ Origins /\ Secrets
  BY DEF Inv
<1>2. Served /\ Outside
  BY InvParts
<1>3. \A g \in DOMAIN lines : lines[g] \in Nat
  BY <1>1 DEF TypeOK
<1> QED
  BY <1>1, <1>2, <1>3 DEF Timely, Origins, Secrets, Guarded

\* The application's screen stays a screen, and shows nothing new of itself.
LEMMA FitSound ==
    ASSUME NEW fb, SoundScreen(fb), NEW v \in Nat \ {0}, NEW G, Blank \in G, Shows(fb, G)
    PROVE  SoundScreen(Fit(fb, v)) /\ Shows(Fit(fb, v), G)
<1>1. PICK h : h = fb.rows
  OBVIOUS
<1>2. PICK w : w = fb.cols
  OBVIOUS
<1>3. h \in Nat \ {0} /\ w \in Nat \ {0} /\ fb \in ScreenOf(h, w)
  BY <1>1, <1>2 DEF SoundScreen
<1>4. Fit(fb, v) \in ScreenOf(h, v) /\ Shows(Fit(fb, v), G)
  BY <1>3, FitIs
<1>5. Fit(fb, v).rows = h /\ Fit(fb, v).cols = v
  BY <1>4, ScreenIs
<1> QED
  BY <1>3, <1>4, <1>5 DEF SoundScreen

LEMMA EchoSound ==
    ASSUME NEW fb, SoundScreen(fb), NEW G, Blank \in G, Shows(fb, G),
           NEW key \in Seq(Characters), \A i \in 1 .. Len(key) : key[i] \in G
    PROVE  SoundScreen(Echo(fb, key)) /\ Shows(Echo(fb, key), G)
<1>1. PICK h : h = fb.rows
  OBVIOUS
<1>2. PICK w : w = fb.cols
  OBVIOUS
<1>3. h \in Nat \ {0} /\ w \in Nat \ {0} /\ fb \in ScreenOf(h, w)
  BY <1>1, <1>2 DEF SoundScreen
<1>4. Echo(fb, key) \in ScreenOf(h, w) /\ Shows(Echo(fb, key), G)
  BY <1>3, EchoIs
<1>5. Echo(fb, key).rows = h /\ Echo(fb, key).cols = w
  BY <1>4, ScreenIs
<1> QED
  BY <1>3, <1>4, <1>5 DEF SoundScreen

LEMMA TickInv == ASSUME Inv, Tick PROVE Inv'
<1>1. /\ TypeOK /\ Plain /\ Served /\ Outside
      /\ Outstanding(engine, offset) /\ Predicts(engine, Known(lines))
      /\ \A g \in DOMAIN lines : lines[g] \in Nat
      /\ Watched(engine) => Guarded(engine, lines, line, vindicated)
      /\ Watched(engine) => \A c \in ActiveCells(engine) : c.line <= line
  BY TurnBegins
<1>2. /\ Compose(engine, server_term, FALSE, now)
      /\ offset' = offset /\ line' = line /\ lines' = lines /\ now' = now /\ read' = read
      /\ cols' = cols /\ unread' = unread /\ screen' = screen
  BY DEF Tick, user, application
<1>3. PICK w : w = engine.width
  OBVIOUS
<1>4. engine \in EngineOf(w)
  BY <1>1, <1>3 DEF Served
<1>5. offset \in Nat /\ line \in Nat /\ DOMAIN lines \subseteq Range(Glyphs)
      /\ SoundScreen(server_term) /\ Shows(server_term, Known(lines))
  BY <1>1 DEF Served, Outside
<1>6. Served'
  <2>1. PICK e : e = engine
    OBVIOUS
  <2>2. PICK o : o = offset
    OBVIOUS
  <2>3. PICK ls : ls = lines
    OBVIOUS
  <2>4. PICK l : l = line
    OBVIOUS
  <2>5. PICK fb : fb = server_term
    OBVIOUS
  <2>6. /\ TypeOK /\ Plain /\ o \in Nat /\ o = offset' /\ l \in Nat /\ l = line' /\ ls = lines'
        /\ DOMAIN ls \subseteq Range(Glyphs) /\ \A g \in DOMAIN ls : ls[g] \in Nat
    BY <1>1, <1>2, <1>5, <2>2, <2>3, <2>4
  <2>7. /\ e \in EngineOf(w) /\ Outstanding(e, o) /\ Predicts(e, Known(ls))
        /\ Watched(e) => Guarded(e, ls, l, vindicated)
        /\ Watched(e) => \A c \in ActiveCells(e) : c.line <= line
    BY <1>1, <1>4, <2>1, <2>2, <2>3, <2>4
  <2>8. SoundScreen(fb) /\ Shows(fb, Known(ls)) /\ Compose(e, fb, FALSE, now)
    BY <1>2, <1>5, <2>1, <2>3, <2>5
  <2> QED
    BY <2>5, <2>6, <2>7, <2>8, ComposeServes
<1>7. Outside'
  BY <1>1, <1>2 DEF Outside, Accounted
<1> QED
  BY <1>6, <1>7, InvNext

LEMMA WaitInv == ASSUME Inv, NEW dt \in Pauses, Wait(dt) PROVE Inv'
<1>1. Served /\ Outside
  BY InvParts
<1>2. /\ UNCHANGED <<client, lines, line, offset>> /\ now' = now + dt
      /\ lines' = lines /\ line' = line /\ offset' = offset /\ read' = read
      /\ cols' = cols /\ unread' = unread /\ screen' = screen
  BY DEF Wait, user, application
<1>3. Served'
  BY <1>1, <1>2, ServedStill
<1>4. now' \in Nat
  <2>1. dt \in Nat /\ now \in Nat
    BY <1>1, PredictAssumption DEF Outside
  <2> QED
    BY <1>2, <2>1
<1>5. Outside'
  BY <1>1, <1>2, <1>4 DEF Outside, Accounted
<1> QED
  BY <1>3, <1>5, InvNext

LEMMA StutterInv == ASSUME Inv, UNCHANGED vars PROVE Inv'
<1>1. Served /\ Outside
  BY InvParts
<1>2. /\ UNCHANGED <<client, lines, line, offset>> /\ now' = now
      /\ lines' = lines /\ line' = line /\ offset' = offset /\ read' = read
      /\ cols' = cols /\ unread' = unread /\ screen' = screen
  BY DEF vars, user, application
<1>3. Served'
  BY <1>1, <1>2, ServedStill
<1>4. Outside'
  BY <1>1, <1>2 DEF Outside, Accounted
<1> QED
  BY <1>3, <1>4, InvNext

LEMMA AppResizedInv == ASSUME Inv, AppResized PROVE Inv'
<1>1. Served /\ Outside
  BY InvParts
<1>2. /\ UNCHANGED <<client, lines, line, offset>> /\ now' = now
      /\ lines' = lines /\ line' = line /\ offset' = offset /\ read' = read
      /\ cols' = cols /\ unread' = unread /\ screen' = Fit(screen, cols)
  BY DEF AppResized, user
<1>3. Served'
  BY <1>1, <1>2, ServedStill
<1>4. SoundScreen(Fit(screen, cols)) /\ Shows(Fit(screen, cols), Known(lines))
  <2>1. PICK v : v = cols
    OBVIOUS
  <2>2. PICK fb : fb = screen
    OBVIOUS
  <2>3. PICK G : G = Known(lines)
    OBVIOUS
  <2>4. SoundScreen(fb) /\ Shows(fb, G) /\ v \in Nat \ {0} /\ Blank \in G
    BY <1>1, <2>1, <2>2, <2>3, BlankKnown DEF Outside
  <2>5. SoundScreen(Fit(fb, v)) /\ Shows(Fit(fb, v), G)
    BY <2>4, FitSound
  <2> QED
    BY <2>1, <2>2, <2>3, <2>5
<1>5. Outside'
  BY <1>1, <1>2, <1>4 DEF Outside, Accounted
<1> QED
  BY <1>3, <1>5, InvNext

LEMMA AppReadsInv == ASSUME Inv, NEW echo \in BOOLEAN, AppReads(echo) PROVE Inv'
<1>1. Served /\ Outside
  BY InvParts
<1>2. PICK key : key = Head(unread)
  OBVIOUS
<1>3. /\ UNCHANGED <<client, lines, line, offset>> /\ now' = now
      /\ lines' = lines /\ line' = line /\ offset' = offset /\ cols' = cols
      /\ unread # << >> /\ unread' = Tail(unread) /\ read' = read + Len(key)
      /\ screen' = IF echo THEN Echo(screen, key) ELSE screen
  BY <1>2 DEF AppReads, user
<1>4. Served'
  BY <1>1, <1>3, ServedStill
<1>5. PICK q : q = unread
  OBVIOUS
<1>6. PICK G : G = Known(lines)
  OBVIOUS
<1>7. q \in Seq(Seq(Characters)) /\ \A k \in 1 .. Len(q) : \A i \in 1 .. Len(q[k]) : q[k][i] \in G
  BY <1>1, <1>5, <1>6 DEF Outside
<1>8. /\ q # << >> /\ Len(q) \in Nat \ {0} /\ key = q[1] /\ key \in Seq(Characters)
      /\ Tail(q) \in Seq(Seq(Characters)) /\ Len(Tail(q)) = Len(q) - 1
      /\ \A k \in 1 .. Len(Tail(q)) : k + 1 \in 1 .. Len(q) /\ Tail(q)[k] = q[k + 1]
  <2>1. q # << >> /\ key = Head(q)
    BY <1>2, <1>3, <1>5
  <2>2. Len(q) \in Nat \ {0}
    BY <1>7, <2>1, EmptySeq
  <2>3. key = q[1] /\ key \in Seq(Characters)
    <3>1. key = q[1]
      BY <1>7, <2>1
    <3> QED
      BY <1>7, <2>2, <3>1, ElementOfSeq
  <2>4. /\ Tail(q) \in Seq(Seq(Characters)) /\ Len(Tail(q)) = Len(q) - 1
        /\ \A k \in 1 .. Len(Tail(q)) : Tail(q)[k] = q[k + 1]
    BY <1>7, <2>1, HeadTailProperties
  <2>5. \A k \in 1 .. Len(Tail(q)) : k + 1 \in 1 .. Len(q)
    BY <2>2, <2>4
  <2> QED
    BY <2>1, <2>2, <2>3, <2>4, <2>5
<1>9. \A i \in 1 .. Len(key) : key[i] \in G
  BY <1>7, <1>8
<1>10. \A k \in 1 .. Len(Tail(q)) : \A i \in 1 .. Len(Tail(q)[k]) : Tail(q)[k][i] \in G
  BY <1>7, <1>8
<1>11. Len(key) \in Nat /\ read \in Nat /\ offset \in Nat /\ read + Len(key) \in Nat
  BY <1>1, <1>8 DEF Outside
<1>12. \E less : Tally(less, Tail(q), read + Len(key), offset)
  <2>1. PICK ends : Tally(ends, q, read, offset)
    BY <1>1, <1>5 DEF Outside, Accounted
  <2>2. PICK a : a = read
    OBVIOUS
  <2>3. PICK z : z = offset
    OBVIOUS
  <2>4. Tally(ends, q, a, z) /\ a \in Nat /\ z \in Nat
    BY <1>11, <2>1, <2>2, <2>3
  <2>5. \E less : Tally(less, Tail(q), a + Len(Head(q)), z)
    BY <1>7, <1>8, <2>4, TallyTail
  <2> QED
    BY <1>2, <1>5, <2>2, <2>3, <2>5
<1>13. SoundScreen(screen') /\ Shows(screen', G)
  <2>1. PICK fb : fb = screen
    OBVIOUS
  <2>2. SoundScreen(fb) /\ Shows(fb, G) /\ Blank \in G
    BY <1>1, <1>6, <2>1, BlankKnown DEF Outside
  <2>3. SoundScreen(Echo(fb, key)) /\ Shows(Echo(fb, key), G)
    BY <1>8, <1>9, <2>2, EchoSound
  <2> QED
    BY <1>3, <2>1, <2>2, <2>3
<1>14. Accounted'
  BY <1>3, <1>5, <1>12 DEF Accounted
<1>15. Outside'
  BY <1>1, <1>3, <1>5, <1>6, <1>8, <1>10, <1>11, <1>13, <1>14 DEF Outside
<1> QED
  BY <1>4, <1>15, InvNext

LEMMA ReceiveFrameInv ==
    ASSUME Inv, NEW ack \in Acks, NEW applied \in BOOLEAN, NEW interval \in Intervals,
           ReceiveFrame(ack, applied, interval)
    PROVE  Inv'
<1>1. /\ TypeOK /\ Plain /\ Served /\ Outside
      /\ Outstanding(engine, offset) /\ Predicts(engine, Known(lines))
      /\ \A g \in DOMAIN lines : lines[g] \in Nat
      /\ Watched(engine) => Guarded(engine, lines, line, vindicated)
      /\ Watched(engine) => \A c \in ActiveCells(engine) : c.line <= line
  BY TurnBegins
<1>2. PICK fb : fb = IF applied THEN Fit(screen, cols) ELSE server_term
  OBVIOUS
<1>3. PICK e : e = Acked(engine, ack, interval)
  OBVIOUS
<1>4. /\ Compose(e, fb, applied, now)
      /\ offset' = offset /\ line' = line /\ lines' = lines /\ now' = now /\ read' = read
      /\ cols' = cols /\ unread' = unread /\ screen' = screen
  BY <1>2, <1>3 DEF ReceiveFrame, user, application
<1>5. PICK o : o = offset
  OBVIOUS
<1>6. PICK ls : ls = lines
  OBVIOUS
<1>7. PICK l : l = line
  OBVIOUS
<1>8. PICK w : w = engine.width
  OBVIOUS
<1>9. PICK f : f = engine
  OBVIOUS
<1>10. /\ o \in Nat /\ o = offset' /\ l \in Nat /\ l = line' /\ ls = lines'
       /\ DOMAIN ls \subseteq Range(Glyphs) /\ \A g \in DOMAIN ls : ls[g] \in Nat
  BY <1>1, <1>4, <1>5, <1>6, <1>7 DEF Outside
<1>11. f \in EngineOf(w) /\ Outstanding(f, o) /\ interval \in Nat
  BY <1>1, <1>5, <1>8, <1>9, PredictAssumption DEF Served
<1>12. ack \in Nat /\ ack <= o
  <2>1. read \in Nat /\ read <= offset
    <3>1. PICK ends : Tally(ends, unread, read, offset)
      BY <1>1 DEF Outside, Accounted
    <3>2. read \in Nat /\ offset \in Nat /\ unread \in Seq(Seq(Characters))
      BY <1>1 DEF Outside
    <3> QED
      BY <3>1, <3>2, TallyBound
  <2>2. f.late_acked \in Nat /\ f.late_acked <= o
    BY <1>11 DEF EngineOf, Outstanding
  <2> QED
    BY <1>5, <1>9, <1>10, <2>1, <2>2 DEF Acks
<1>13. /\ e \in EngineOf(w) /\ SameEpochs(f, e) /\ e.preference = f.preference
       /\ ActiveCells(e) = ActiveCells(f) /\ Outstanding(e, o)
  <2>1. e = Acked(f, ack, interval) /\ ack \in Nat /\ interval \in Nat /\ o \in Nat
    BY <1>3, <1>9, <1>10, <1>11, <1>12
  <2>2. f \in EngineOf(w)
    BY <1>11
  <2>3. e \in EngineOf(w) /\ ActiveCells(e) = ActiveCells(f) /\ e.preference = f.preference
    BY ONLY <2>1, <2>2, AckedIs
  <2>4. SameEpochs(f, e) /\ \A z \in Nat : Outstanding(f, z) /\ ack <= z => Outstanding(e, z)
    BY ONLY <2>1, <2>2, AckedIs
  <2> QED
    BY <1>11, <1>12, <2>1, <2>3, <2>4
<1>14. Predicts(e, Known(ls))
  BY <1>1, <1>6, <1>9, <1>13 DEF Predicts
<1>15. /\ Watched(e) => Guarded(e, ls, l, vindicated)
       /\ Watched(e) => \A c \in ActiveCells(e) : c.line <= line
  <2> SUFFICES ASSUME Watched(e)
               PROVE  Guarded(e, ls, l, vindicated) /\ \A c \in ActiveCells(e) : c.line <= line
    OBVIOUS
  <2>1. PICK vs : vs = vindicated
    OBVIOUS
  <2>2. Watched(f)
    BY <1>13 DEF Watched, Experimental
  <2>3. Guarded(f, ls, l, vs) /\ \A c \in ActiveCells(f) : c.line <= line
    BY <1>1, <1>6, <1>7, <1>9, <2>1, <2>2
  <2>4. Guarded(e, ls, l, vs)
    BY <1>13, <2>3, SameGuarded
  <2> QED
    BY <1>13, <2>1, <2>3, <2>4
<1>16. SoundScreen(fb) /\ Shows(fb, Known(ls)) /\ (applied \/ fb = server_term)
  <2>1. PICK v : v = cols
    OBVIOUS
  <2>2. PICK s : s = screen
    OBVIOUS
  <2>3. PICK G : G = Known(ls)
    OBVIOUS
  <2>4. SoundScreen(s) /\ Shows(s, G) /\ v \in Nat \ {0} /\ Blank \in G
    BY <1>1, <1>6, <1>10, <2>1, <2>2, <2>3, BlankKnown DEF Outside
  <2>5. SoundScreen(Fit(s, v)) /\ Shows(Fit(s, v), G)
    BY <2>4, FitSound
  <2>6. SoundScreen(server_term) /\ Shows(server_term, G)
    BY <1>1, <1>6, <2>3 DEF Served
  <2> QED
    BY <1>2, <2>1, <2>2, <2>3, <2>5, <2>6
<1>17. Served'
  BY <1>1, <1>4, <1>10, <1>13, <1>14, <1>15, <1>16, ComposeServes
<1>18. Outside'
  BY <1>1, <1>4 DEF Outside, Accounted
<1> QED
  BY <1>17, <1>18, InvNext

\* A turn that gives up the predictions.
LEMMA ResetServes ==
    ASSUME Inv, NEW o \in Nat, o = offset', offset <= o, NEW l \in Nat, l = line',
           NEW ls, ls = lines', DOMAIN ls \subseteq Range(Glyphs),
           \A g \in DOMAIN ls : ls[g] \in Nat, Known(lines) \subseteq Known(ls),
           NEW changed \in BOOLEAN, Compose(Reset(engine), server_term, changed, now)
    PROVE  Served'
<1>1. /\ TypeOK /\ Plain /\ Served /\ Outside
      /\ Outstanding(engine, offset)
      /\ Watched(engine) => Guarded(engine, lines, line, vindicated)
  BY TurnBegins
<1>2. PICK e : e = Reset(engine)
  OBVIOUS
<1>3. PICK f : f = engine
  OBVIOUS
<1>4. PICK w : w = engine.width
  OBVIOUS
<1>5. PICK fb : fb = server_term
  OBVIOUS
<1>6. PICK z : z = offset
  OBVIOUS
<1>7. f \in EngineOf(w) /\ Outstanding(f, z) /\ z \in Nat /\ z <= o
  BY <1>1, <1>3, <1>4, <1>6 DEF Served, Outside
<1>8. e \in EngineOf(w) /\ Quiet(e) /\ e.preference = f.preference
  BY <1>2, <1>3, <1>7, ResetCulled DEF Culled, Keeps
<1>9. Outstanding(e, o)
  BY <1>2, <1>3, <1>7, ResetOutstanding
<1>10. /\ Predicts(e, Known(ls))
       /\ Watched(e) => \A c \in ActiveCells(e) : c.line <= line
  BY <1>8 DEF Quiet, Predicts
<1>11. Watched(e) => Guarded(e, ls, l, vindicated)
  <2> SUFFICES ASSUME Watched(e) PROVE Guarded(e, ls, l, vindicated)
    OBVIOUS
  <2>1. Watched(f)
    BY <1>8 DEF Watched, Experimental
  <2>2. Guarded(f, lines, line, vindicated) /\ ~ Experimental(f)
    BY <1>1, <1>3, <2>1 DEF Watched
  <2> QED
    BY <1>2, <1>3, <1>7, <2>2, ResetGuarded
<1>12. SoundScreen(fb) /\ Shows(fb, Known(ls)) /\ Compose(e, fb, changed, now)
  BY <1>1, <1>2, <1>5 DEF Served, Shows
<1> QED
  BY <1>1, <1>5, <1>8, <1>9, <1>10, <1>11, <1>12, ComposeServes

LEMMA WinchInv == ASSUME Inv, NEW w \in Widths, Winch(w) PROVE Inv'
<1>1. Served /\ Outside
  BY InvParts
<1>2. /\ Compose(Reset(engine), server_term, TRUE, now)
      /\ offset' = offset /\ line' = line /\ lines' = lines /\ now' = now /\ read' = read
      /\ cols' = w /\ unread' = unread /\ screen' = screen
  BY DEF Winch, application
<1>3. w \in Nat \ {0}
  BY PredictAssumption
<1>4. /\ offset \in Nat /\ line \in Nat /\ DOMAIN lines \subseteq Range(Glyphs)
      /\ \A g \in DOMAIN lines : lines[g] \in Nat
  BY <1>1 DEF Outside
<1>5. Served'
  <2>1. PICK o : o = offset
    OBVIOUS
  <2>2. PICK ls : ls = lines
    OBVIOUS
  <2>3. PICK l : l = line
    OBVIOUS
  <2>4. /\ o \in Nat /\ o = offset' /\ offset <= o /\ l \in Nat /\ l = line' /\ ls = lines'
        /\ DOMAIN ls \subseteq Range(Glyphs) /\ (\A g \in DOMAIN ls : ls[g] \in Nat)
        /\ Known(lines) \subseteq Known(ls)
    BY <1>2, <1>4, <2>1, <2>2, <2>3
  <2> QED
    BY <1>2, <2>4, ResetServes
<1>6. Outside'
  BY <1>1, <1>2, <1>3 DEF Outside, Accounted
<1> QED
  BY <1>5, <1>6, InvNext

LEMMA TypeInv ==
    ASSUME Inv, NEW key \in Keys \cup NextGlyphs, NEW paste \in BOOLEAN, Type(key, paste)
    PROVE  Inv'
<1>1. /\ TypeOK /\ Plain /\ Served /\ Outside /\ Timely
      /\ Outstanding(engine, offset) /\ Predicts(engine, Known(lines))
      /\ Watched(engine) => Guarded(engine, lines, line, vindicated)
      /\ Watched(engine) => \A c \in ActiveCells(engine) : c.line <= line
  BY TurnBegins DEF Inv
<1>2. PICK ls : ls = lines'
  OBVIOUS
<1>3. PICK l : l = line'
  OBVIOUS
<1>4. PICK e : e = IF paste THEN Reset(engine) ELSE Predicted(engine, key, last_drawn, now)
  OBVIOUS
<1>5. /\ offset' = offset + Len(key) /\ unread' = Append(unread, key)
      /\ l = IF key = <<"CR">> THEN line + 1 ELSE line
      /\ ls = IF key[1] \in Range(Glyphs)
              THEN [g \in DOMAIN lines \cup {key[1]} |->
                      IF g = key[1] THEN line ELSE lines[g]]
              ELSE lines
      /\ Compose(e, server_term, FALSE, now)
      /\ now' = now /\ cols' = cols /\ screen' = screen /\ read' = read
  BY <1>2, <1>3, <1>4 DEF Type
<1>6. /\ line \in Nat /\ DOMAIN lines \subseteq Range(Glyphs) /\ offset \in Nat
      /\ \A g \in DOMAIN lines : lines[g] \in 0 .. line
  BY <1>1 DEF Outside
<1>7. /\ key \in Seq(Characters) /\ Len(key) \in Nat \ {0}
      /\ \A i \in 1 .. Len(key) : key[i] \in Known(ls)
      /\ Known(lines) \subseteq Known(ls)
      /\ DOMAIN ls \subseteq Range(Glyphs) /\ (\A g \in DOMAIN ls : ls[g] \in 0 .. line)
      /\ \A x \in Known(lines) : x \in DOMAIN ls => x \in DOMAIN lines /\ ls[x] = lines[x]
  BY <1>5, <1>6, KeyIs
<1>8. PICK n \in Nat \ {0} : n = Len(key)
  BY <1>7
<1>9. PICK o \in Nat : o = offset + n
  BY <1>6, <1>8
<1>10. o = offset' /\ offset <= o /\ l \in Nat /\ line <= l /\ (\A g \in DOMAIN ls : ls[g] \in Nat)
  BY <1>5, <1>6, <1>7, <1>8, <1>9
<1>11. ASSUME paste PROVE Served'
  <2>1. Compose(Reset(engine), server_term, FALSE, now)
    BY <1>4, <1>5, <1>11
  <2> QED
    BY <1>2, <1>3, <1>7, <1>10, <2>1, ResetServes
<1>12. ASSUME ~ paste PROVE Served'
  <2>1. PICK f : f = engine
    OBVIOUS
  <2>2. PICK w : w = engine.width
    OBVIOUS
  <2>3. PICK d : d = last_drawn
    OBVIOUS
  <2>4. PICK G : G = Known(ls)
    OBVIOUS
  <2>5. PICK t : t = now
    OBVIOUS
  <2>6. /\ f \in EngineOf(w) /\ Outstanding(f, offset) /\ Predicts(f, G)
        /\ f.preference = "never" \/ Pending(f)
        /\ Watched(f) => Guarded(f, lines, line, vindicated)
    BY <1>1, <1>7, <2>1, <2>2, <2>4 DEF Served, Timely, Predicts
  <2>7. e = Predicted(f, key, d, t) /\ t \in Nat
    BY <1>1, <1>4, <1>12, <2>1, <2>3, <2>5 DEF Outside
  <2>8. PICK u : u = e.width
    OBVIOUS
  <2>9. /\ e \in EngineOf(u) /\ Outstanding(e, o) /\ Predicts(e, G)
        /\ Watched(e) => Guarded(e, ls, l, vindicated)
        /\ Watched(e) => \A c \in ActiveCells(e) : c.line <= line
    <3>1. CASE f.preference = "never"
      <4>1. Untouched(f, e)
        BY <1>6, <1>7, <2>6, <2>7, <3>1, PredictedNever
      <4>2. /\ e \in EngineOf(u) /\ e.preference = "never" /\ e.late_acked = f.late_acked
            /\ SamePredictions(f, e)
        BY <2>8, <3>1, <4>1 DEF Untouched
      <4>3. Quiet(f)
        BY <2>6, <3>1 DEF Outstanding
      <4>4. Quiet(e)
        BY <4>2, <4>3 DEF Quiet, SamePredictions, ActiveCells, Cursors
      <4>5. e.late_acked <= o
        <5>1. f.late_acked \in Nat
          BY <2>6 DEF EngineOf
        <5>2. f.late_acked <= offset
          BY <2>6 DEF Outstanding
        <5> QED
          BY <1>6, <1>10, <4>2, <5>1, <5>2
      <4>6. Outstanding(e, o)
        BY <4>4, <4>5 DEF Outstanding, Quiet, Due
      <4>7. ~ Watched(e) /\ Predicts(e, G)
        BY <4>2, <4>4 DEF Watched, Quiet, Predicts
      <4> QED
        BY <4>2, <4>6, <4>7
    <3>2. CASE f.preference # "never"
      <4>1. PICK h : h = d.rows
        OBVIOUS
      <4>2. PICK v : v = d.cols
        OBVIOUS
      <4>3. h \in Nat /\ v \in Nat /\ d \in ScreenOf(h, v) /\ Shows(d, G)
        BY <1>1, <1>7, <2>3, <2>4, <4>1, <4>2 DEF Served, SoundScreen, Shows
      <4>4. {Blank, "narrow"} \subseteq G /\ \A i \in 1 .. Len(key) : key[i] \in G
        BY <1>7, <2>4, BlankKnown
      <4>5. f.late_acked <= offset /\ Pending(f)
        BY <2>6, <3>2 DEF Outstanding
      <4>6. /\ Typed(f, e, G, offset, line, Len(key))
            /\ key = <<"CR">> /\ ~ Experimental(f) => Entered(f, e)
        BY <1>6, <1>7, <2>6, <2>7, <3>2, <4>3, <4>4, <4>5, PredictedIs
      <4>7. PICK p \in Nat : p = offset
        BY <1>6
      <4>8. PICK m \in Nat : m = line
        BY <1>6
      <4>9. Typed(f, e, G, p, m, n) /\ Outstanding(f, p) /\ o = p + n
        BY <1>8, <1>9, <2>6, <4>6, <4>7, <4>8
      <4>10. e \in EngineOf(u) /\ e.preference = f.preference
        BY <2>8, <4>9 DEF Typed
      <4>11. Outstanding(e, o)
        BY <2>6, <3>2, <4>9, TypedOutstanding
      <4>12. Predicts(e, G)
        BY <2>6, <4>9, TypedPredicts
      <4>13. ASSUME Watched(e)
             PROVE  Guarded(e, ls, l, vindicated) /\ \A c \in ActiveCells(e) : c.line <= m
        <5>1. Watched(f) /\ ~ Experimental(f)
          BY <4>10, <4>13 DEF Watched, Experimental
        <5>2. PICK os : os = lines
          OBVIOUS
        <5>3. PICK vs : vs = vindicated
          OBVIOUS
        <5>4. Guarded(f, os, m, vs)
          BY <2>6, <4>8, <5>1, <5>2, <5>3
        <5>5. l = m \/ (l = m + 1 /\ Entered(f, e))
          BY <1>5, <4>6, <4>8, <5>1
        <5>6. Relined(f, os, ls, m)
          BY <1>1, <1>7, <2>1, <4>8, <5>2 DEF Predicts, Relined
        <5>7. p \in Nat /\ m \in Nat /\ n \in Nat /\ l \in Nat /\ f \in EngineOf(w)
          BY <1>10, <2>6
        <5>8. Guarded(e, ls, l, vs) /\ \A c \in ActiveCells(e) : c.line <= m
          BY <4>9, <5>1, <5>4, <5>5, <5>6, <5>7, TypedGuarded
        <5> QED
          BY <5>3, <5>8
      <4> QED
        BY <4>8, <4>10, <4>11, <4>12, <4>13
    <3> QED
      BY <3>1, <3>2
  <2>10. PICK fb : fb = server_term
    OBVIOUS
  <2>11. SoundScreen(fb) /\ Shows(fb, Known(ls)) /\ Compose(e, fb, FALSE, now)
    BY <1>1, <1>5, <1>7, <2>10 DEF Served, Shows
  <2>12. Predicts(e, Known(ls))
    BY <2>4, <2>9
  <2> QED
    BY <1>1, <1>2, <1>3, <1>7, <1>10, <2>9, <2>10, <2>11, <2>12, ComposeServes
<1>13. Served'
  BY <1>11, <1>12
<1>14. Accounted'
  <2>1. PICK q \in Seq(Seq(Characters)) : q = unread
    BY <1>1 DEF Outside
  <2>2. PICK a \in Nat : a = read
    BY <1>1 DEF Outside
  <2>3. PICK z \in Nat : z = offset
    BY <1>1 DEF Outside
  <2>4. PICK ends : Tally(ends, q, a, z)
    BY <1>1, <2>1, <2>2, <2>3 DEF Outside, Accounted
  <2>5. \E more : Tally(more, Append(q, key), a, z + Len(key))
    BY <1>7, <2>4, TallyAppend
  <2> QED
    BY <1>5, <2>1, <2>2, <2>3, <2>5 DEF Accounted
<1>15. /\ unread' \in Seq(Seq(Characters))
       /\ \A k \in 1 .. Len(unread') :
             \A i \in 1 .. Len(unread'[k]) : unread'[k][i] \in Known(ls)
  <2>1. PICK q \in Seq(Seq(Characters)) : q = unread
    BY <1>1 DEF Outside
  <2>2. PICK p : p = Append(q, key)
    OBVIOUS
  <2>3. /\ p \in Seq(Seq(Characters)) /\ Len(p) = Len(q) + 1 /\ p[Len(q) + 1] = key
        /\ \A k \in 1 .. Len(q) : p[k] = q[k]
    BY <1>7, <2>2, AppendProperties
  <2>4. \A k \in 1 .. Len(q) : \A i \in 1 .. Len(q[k]) : q[k][i] \in Known(ls)
    BY <1>1, <1>7, <2>1 DEF Outside
  <2>5. \A k \in 1 .. Len(p) : k \in 1 .. Len(q) \/ k = Len(q) + 1
    BY <2>3
  <2>6. \A k \in 1 .. Len(p) : \A i \in 1 .. Len(p[k]) : p[k][i] \in Known(ls)
    BY <1>7, <2>3, <2>4, <2>5
  <2> QED
    BY <1>5, <2>1, <2>2, <2>3, <2>6
<1>16. Outside'
  <2>1. SoundScreen(screen) /\ Shows(screen, Known(ls))
    BY <1>1, <1>7 DEF Outside, Shows
  <2>2. \A g \in DOMAIN ls : ls[g] \in 0 .. l
    BY <1>6, <1>7, <1>10
  <2>3. now \in Nat /\ read \in Nat /\ cols \in Nat \ {0}
    BY <1>1 DEF Outside
  <2> QED
    BY <1>2, <1>3, <1>5, <1>7, <1>9, <1>10, <1>14, <1>15, <2>1, <2>2, <2>3 DEF Outside
<1> QED
  BY <1>13, <1>16, InvNext

-----------------------------------------------------------------------------
(***************************************************************************)
(* What follows for every behaviour.                                       *)
(***************************************************************************)

\* The inductive invariant holds for any screens, keys, settings and
\* thresholds: what the engine keeps is well formed, every prediction waits
\* for a byte that was typed and was not acknowledged, what is drawn is the
\* server's screen whenever nothing is predicted, and the predictions of a
\* confirmed epoch are of lines that the server has borne out.
THEOREM PredictionInvariant == Spec => []Inv
<1>1. Inv /\ [Next]_vars => Inv'
  <2> SUFFICES ASSUME Inv, [Next]_vars PROVE Inv'
    OBVIOUS
  <2>1. CASE \E key \in Typeable : Type(key, FALSE)
    <3>1. PICK key \in Typeable : Type(key, FALSE)
      BY <2>1
    <3>2. key \in Keys \cup NextGlyphs
      BY DEF Typeable
    <3> QED
      BY <3>1, <3>2, TypeInv
  <2>2. CASE \E key \in NextGlyphs : keys \in PasteAt /\ Type(key, TRUE)
    <3>1. PICK key \in NextGlyphs : Type(key, TRUE)
      BY <2>2
    <3>2. key \in Keys \cup NextGlyphs
      OBVIOUS
    <3> QED
      BY <3>1, <3>2, TypeInv
  <2>3. CASE \E ack \in Acks, applied \in BOOLEAN, interval \in Intervals :
                ReceiveFrame(ack, applied, interval)
    BY <2>3, ReceiveFrameInv
  <2>4. CASE Tick
    BY <2>4, TickInv
  <2>5. CASE \E dt \in Pauses : keys \in PauseAt /\ Wait(dt)
    BY <2>5, WaitInv
  <2>6. CASE \E w \in Widths : keys \in WinchAt /\ Winch(w)
    BY <2>6, WinchInv
  <2>7. CASE \E echo \in BOOLEAN : AppReads(echo)
    BY <2>7, AppReadsInv
  <2>8. CASE AppResized
    BY <2>8, AppResizedInv
  <2>9. CASE UNCHANGED vars
    BY <2>9, StutterInv
  <2> QED
    BY <2>1, <2>2, <2>3, <2>4, <2>5, <2>6, <2>7, <2>8, <2>9 DEF Next
<1> QED
  BY <1>1, InitInv, PTL DEF Spec

\* Every screen, engine and key stays within its type.
THEOREM PredictTypes == Spec => []TypeOK
<1>1. Inv => TypeOK
  BY DEF Inv
<1> QED
  BY <1>1, PredictionInvariant, PTL

\* Nothing that is predicted is due (predict.rs cull): every cursor and every
\* cell awaits an ack past the last one, so none is ever judged against an
\* overlay of its own.
THEOREM DueIsJudged == Spec => []NoStalePrediction
<1>1. Inv => NoStalePrediction
  <2> SUFFICES ASSUME Inv, engine.preference # "never"
               PROVE  /\ \A i \in 1 .. Len(engine.cursors) :
                            engine.cursors[i].expiration > engine.late_acked
                      /\ \A i \in 1 .. Len(engine.overlays) :
                            \A j \in Columns(engine.overlays[i]) :
                               engine.overlays[i].cells[j].active
                                 => engine.overlays[i].cells[j].expiration > engine.late_acked
    BY DEF NoStalePrediction
  <2>1. PICK e : e = engine
    OBVIOUS
  <2>2. PICK w : w = e.width
    OBVIOUS
  <2>3. e \in EngineOf(w) /\ Pending(e)
    BY <2>1, <2>2 DEF Inv, TypeOK, Timely
  <2>4. \A i \in 1 .. Len(e.cursors) : e.cursors[i].expiration > e.late_acked
    <3>1. \A i \in 1 .. Len(e.cursors) : e.cursors[i].expiration \in Due(e)
      BY DEF Due, Cursors, Elements
    <3> QED
      BY <2>3, <3>1 DEF Pending
  <2>5. ASSUME NEW i \in 1 .. Len(e.overlays), NEW j \in Columns(e.overlays[i]),
               e.overlays[i].cells[j].active
        PROVE  e.overlays[i].cells[j].expiration > e.late_acked
    <3>1. j \in 0 .. w - 1
      <4>1. e.overlays[i].cells \in CellsOf(w)
        BY <2>3, ActiveCellsAre
      <4> QED
        BY <4>1 DEF Columns, CellsOf
    <3>2. e.overlays[i].cells[j] \in ActiveCells(e)
      BY <2>3, <2>5, <3>1, ActiveCellsAre
    <3> QED
      BY <2>3, <3>2 DEF Pending
  <2> QED
    BY <2>1, <2>4, <2>5
<1> QED
  BY <1>1, PredictionInvariant, PTL

\* Whatever compose_frame's idle test skips, no overlay outlives its
\* prediction: with none left, or with every byte acknowledged, the user's
\* terminal shows the client's copy of the server's screen.
THEOREM OverlaysTakenBack == Spec => []NothingLeftDrawn
<1>1. Inv => NothingLeftDrawn
  <2> SUFFICES ASSUME Inv, ~ Active(engine) \/ engine.late_acked = offset
               PROVE  last_drawn = server_term
    BY DEF NothingLeftDrawn
  <2>1. PICK e : e = engine
    OBVIOUS
  <2>2. PICK w : w = e.width
    OBVIOUS
  <2>3. PICK o : o = offset
    OBVIOUS
  <2>4. /\ e \in EngineOf(w) /\ Outstanding(e, o) /\ o \in Nat
        /\ e.preference = "never" \/ Pending(e)
    BY <2>1, <2>2, <2>3 DEF Inv, TypeOK, Timely
  <2>5. Quiet(e)
    <3>1. CASE ~ Active(engine)
      BY <2>1, <2>4, <3>1, ActiveIs
    <3>2. CASE e.preference = "never"
      BY <2>4, <3>2 DEF Outstanding
    <3>3. CASE Pending(e) /\ e.late_acked = o
      <4>1. ActiveCells(e) = {}
        <5> SUFFICES ASSUME NEW c \in ActiveCells(e) PROVE FALSE
          OBVIOUS
        <5>1. c.expiration \in Nat
          BY <2>4, ActiveCellsAre DEF Cell
        <5>2. c.expiration > o /\ c.expiration <= o
          BY <2>4, <3>3 DEF Pending, Outstanding
        <5> QED
          BY <2>4, <5>1, <5>2
      <4>2. Cursors(e) = {}
        <5> SUFFICES ASSUME NEW c \in Cursors(e) PROVE FALSE
          OBVIOUS
        <5>1. c.expiration \in Nat
          BY <2>4, CursorsAre DEF Cursor
        <5>2. c.expiration > o /\ c.expiration <= o
          BY <2>4, <3>3 DEF Pending, Outstanding, Due
        <5> QED
          BY <2>4, <5>1, <5>2
      <4> QED
        BY <4>1, <4>2 DEF Quiet
    <3> QED
      BY <2>1, <2>3, <2>4, <3>1, <3>2, <3>3
  <2> QED
    BY <2>1, <2>5 DEF Inv, Plain
<1> QED
  BY <1>1, PredictionInvariant, PTL

\* What the user types on a line is drawn ahead of the server only once the
\* server's screen has borne out a prediction made on that line or a later
\* one. Of a password nothing is drawn while no prediction made since Enter
\* has come true, whatever is typed, acknowledged, withheld or resized.
THEOREM SecretsKept == Spec => []SecretNotShown
<1>1. Inv => SecretNotShown
  BY DEF Inv
<1> QED
  BY <1>1, PredictionInvariant, PTL

=============================================================================
