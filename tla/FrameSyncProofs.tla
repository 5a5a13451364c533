-------------------------- MODULE FrameSyncProofs --------------------------
(***************************************************************************)
(* The safety of screen synchronisation for any set of screens, any number *)
(* of frames and any cap on the remembered ones: the inductive invariant,  *)
(* the invariants that follow from it, and the refinement of ScreenMirror. *)
(***************************************************************************)
EXTENDS FrameSync, Diff, SequenceTheorems, FiniteSetTheorems, WellFoundedInduction, TLAPS

-----------------------------------------------------------------------------
(***************************************************************************)
(* The diff of sync.rs.                                                    *)
(***************************************************************************)
\* Least is well defined: every non-empty set of naturals has a least element.
LEMMA LeastExists ==
    ASSUME NEW T \in SUBSET Nat, T # {}
    PROVE  Least(T) \in T /\ \A y \in T : Least(T) <= y
<1>1. PICK x \in T : \A y \in T : ~(<<y, x>> \in OpToRel(<, Nat))
  BY NatLessThanWellFounded, WFMin
<1>2. \A y \in T : y < x => <<y, x>> \in OpToRel(<, Nat)
  <2> SUFFICES ASSUME NEW y \in T, y < x
               PROVE  <<y, x>> \in OpToRel(<, Nat)
    OBVIOUS
  <2>1. <<y, x>> \in Nat \X Nat
    OBVIOUS
  <2>2. <<y, x>>[1] < <<y, x>>[2]
    OBVIOUS
  <2> QED
    BY <2>1, <2>2, Zenon DEF OpToRel
<1>3. \A y \in T : ~(y < x)
  BY <1>1, <1>2
<1>4. \A y \in T : x <= y
  BY <1>3
<1> QED
  BY <1>4 DEF Least

\* The front scan: it stays within both streams and the bytes before it agree.
LEMMA PrefixAgrees ==
    ASSUME NEW S, NEW old \in Seq(S), NEW new \in Seq(S)
    PROVE  /\ PrefixLen(old, new) \in Nat
           /\ PrefixLen(old, new) <= ShorterLen(old, new)
           /\ \A i \in 1 .. PrefixLen(old, new) : old[i] = new[i]
<1> DEFINE m == ShorterLen(old, new)
           T == {k \in 0 .. m : k = m \/ old[k + 1] # new[k + 1]}
<1>1. m \in Nat
  BY DEF ShorterLen
<1>2. T \in SUBSET Nat /\ T # {}
  BY <1>1
<1>3. PrefixLen(old, new) = Least(T)
  BY DEF PrefixLen
<1>4. Least(T) \in T /\ \A y \in T : Least(T) <= y
  BY <1>2, LeastExists
<1> DEFINE p == Least(T)
<1>5. p \in 0 .. m /\ \A y \in T : p <= y
  BY <1>4
<1> HIDE DEF p, m
<1>6. ASSUME NEW i \in 1 .. p PROVE old[i] = new[i]
  <2>1. i - 1 \in 0 .. m /\ i - 1 < p /\ (i - 1) + 1 = i /\ i - 1 # m
    BY <1>1, <1>5
  <2>2. i - 1 \notin T
    <3> SUFFICES ASSUME i - 1 \in T PROVE FALSE
      OBVIOUS
    <3>1. p <= i - 1
      BY <1>5
    <3>2. p \in Nat /\ i \in Nat
      BY <1>1, <1>5
    <3> QED
      BY <2>1, <3>1, <3>2
  <2> QED
    BY <2>1, <2>2
<1> QED
  BY <1>1, <1>3, <1>5, <1>6 DEF p, m

\* The back scan: it stays clear of the prefix in both streams and the bytes
\* behind it agree.
LEMMA SuffixAgrees ==
    ASSUME NEW S, NEW old \in Seq(S), NEW new \in Seq(S), NEW p \in Nat,
           p <= ShorterLen(old, new)
    PROVE  /\ SuffixLen(old, new, p) \in Nat
           /\ p + SuffixLen(old, new, p) <= ShorterLen(old, new)
           /\ \A i \in 0 .. SuffixLen(old, new, p) - 1 :
                 old[Len(old) - i] = new[Len(new) - i]
<1> DEFINE m == ShorterLen(old, new) - p
           T == {k \in 0 .. m : k = m \/ old[Len(old) - k] # new[Len(new) - k]}
<1>0. ShorterLen(old, new) \in Nat
  BY DEF ShorterLen
<1>1. m \in Nat
  BY <1>0
<1>2. T \in SUBSET Nat /\ T # {}
  BY <1>1
<1>3. SuffixLen(old, new, p) = Least(T)
  BY DEF SuffixLen
<1>4. Least(T) \in T /\ \A y \in T : Least(T) <= y
  BY <1>2, LeastExists
<1> DEFINE s == Least(T)
<1>5. s \in 0 .. m /\ \A y \in T : s <= y
  BY <1>4
<1>6. p + s <= ShorterLen(old, new)
  <2> HIDE DEF s
  <2> QED
    BY <1>0, <1>5
<1> HIDE DEF s, m
<1>7. ASSUME NEW i \in 0 .. s - 1 PROVE old[Len(old) - i] = new[Len(new) - i]
  <2>1. i \in 0 .. m /\ i < s /\ i # m
    BY <1>1, <1>5
  <2>2. i \notin T
    BY <1>1, <1>5, <2>1
  <2> QED
    BY <2>1, <2>2
<1> QED
  BY <1>1, <1>3, <1>5, <1>6, <1>7 DEF s

\* make_diff followed by apply_diff is the identity: the diff applies to the
\* stream it was made from and yields the new stream.
THEOREM DiffRoundTrip ==
    ASSUME NEW S, NEW old \in Seq(S), NEW new \in Seq(S)
    PROVE  /\ Applicable(old, MakeDiff(old, new))
           /\ ApplyDiff(old, MakeDiff(old, new)) = new
<1> DEFINE p == PrefixLen(old, new)
           s == SuffixLen(old, new, p)
           lo == Len(old)
           ln == Len(new)
<1>1. /\ MakeDiff(old, new).prefix = p
      /\ MakeDiff(old, new).suffix = s
      /\ MakeDiff(old, new).middle = SubSeq(new, p + 1, ln - s)
  BY DEF MakeDiff
<1>2. /\ p \in Nat /\ p <= ShorterLen(old, new)
      /\ \A i \in 1 .. p : old[i] = new[i]
  BY PrefixAgrees
<1>3. /\ s \in Nat /\ p + s <= ShorterLen(old, new)
      /\ \A i \in 0 .. s - 1 : old[lo - i] = new[ln - i]
  BY <1>2, SuffixAgrees
<1>4. /\ ShorterLen(old, new) \in Nat
      /\ ShorterLen(old, new) <= lo /\ ShorterLen(old, new) <= ln
      /\ lo \in Nat /\ ln \in Nat
  BY DEF ShorterLen
<1> HIDE DEF p, s
<1>5. p + s <= lo /\ p + s <= ln
  BY <1>2, <1>3, <1>4
<1> DEFINE a == SubSeq(old, 1, p)
           b == SubSeq(new, p + 1, ln - s)
           c == SubSeq(old, lo - s + 1, lo)
<1>6. /\ a \in Seq(S) /\ Len(a) = p
      /\ \A i \in 1 .. p : a[i] = new[i]
  BY <1>2, <1>3, <1>4, <1>5
<1>7. /\ b \in Seq(S) /\ Len(b) = ln - s - p
      /\ \A i \in 1 .. ln - s - p : b[i] = new[p + i]
  BY <1>2, <1>3, <1>4, <1>5
<1>8. /\ c \in Seq(S) /\ Len(c) = s
      /\ \A i \in 1 .. s : c[i] = new[ln - s + i]
  <2>1. c \in Seq(S) /\ Len(c) = s /\ \A i \in 1 .. s : c[i] = old[lo - s + i]
    BY <1>2, <1>3, <1>4, <1>5
  <2>2. ASSUME NEW i \in 1 .. s PROVE old[lo - s + i] = new[ln - s + i]
    <3>1. /\ s - i \in 0 .. s - 1
          /\ lo - (s - i) = lo - s + i /\ ln - (s - i) = ln - s + i
      BY <1>3, <1>4
    <3> QED
      BY <1>3, <3>1
  <2> QED
    BY <2>1, <2>2
<1> HIDE DEF a, b, c
<1>9. /\ a \o b \in Seq(S) /\ Len(a \o b) = ln - s
      /\ \A i \in 1 .. ln - s : (a \o b)[i] = new[i]
  <2>1. /\ a \o b \in Seq(S) /\ Len(a \o b) = Len(a) + Len(b)
        /\ \A i \in 1 .. Len(a) + Len(b) :
              (a \o b)[i] = IF i <= Len(a) THEN a[i] ELSE b[i - Len(a)]
    BY <1>6, <1>7, ConcatProperties
  <2>2. Len(a) + Len(b) = ln - s
    BY <1>2, <1>3, <1>4, <1>6, <1>7
  <2>3. ASSUME NEW i \in 1 .. ln - s PROVE (a \o b)[i] = new[i]
    <3>1. CASE i <= p
      BY <1>2, <1>3, <1>4, <1>6, <2>1, <2>2, <3>1
    <3>2. CASE i > p
      <4>1. i - p \in 1 .. ln - s - p /\ p + (i - p) = i
        BY <1>2, <1>3, <1>4, <3>2
      <4> QED
        BY <1>2, <1>6, <1>7, <2>1, <2>2, <3>2, <4>1
    <3>3. i <= p \/ i > p
      BY <1>2, <1>3, <1>4
    <3> QED
      BY <3>1, <3>2, <3>3
  <2> QED
    BY <2>1, <2>2, <2>3
<1>10. (a \o b) \o c = new
  <2> DEFINE u == a \o b
  <2>1. u \in Seq(S) /\ Len(u) = ln - s /\ \A i \in 1 .. ln - s : u[i] = new[i]
    BY <1>9
  <2> HIDE DEF u
  <2>2. /\ u \o c \in Seq(S) /\ Len(u \o c) = Len(u) + Len(c)
        /\ \A i \in 1 .. Len(u) + Len(c) :
              (u \o c)[i] = IF i <= Len(u) THEN u[i] ELSE c[i - Len(u)]
    BY <2>1, <1>8, ConcatProperties
  <2>3. Len(u \o c) = ln
    BY <1>3, <1>4, <1>8, <2>1, <2>2
  <2>4. ASSUME NEW i \in 1 .. ln PROVE (u \o c)[i] = new[i]
    <3>1. CASE i <= ln - s
      BY <1>3, <1>4, <1>8, <2>1, <2>2, <3>1
    <3>2. CASE i > ln - s
      <4>1. i - (ln - s) \in 1 .. s /\ ln - s + (i - (ln - s)) = i
        BY <1>3, <1>4, <3>2
      <4> QED
        BY <1>3, <1>4, <1>8, <2>1, <2>2, <3>2, <4>1, SMTT(30)
    <3>3. i <= ln - s \/ i > ln - s
      BY <1>3, <1>4
    <3> QED
      BY <3>1, <3>2, <3>3
  <2>5. u \o c = new
    BY <2>2, <2>3, <2>4, SeqEqual
  <2> QED
    BY <2>5 DEF u
<1>11. ApplyDiff(old, MakeDiff(old, new)) = (a \o b) \o c
  BY <1>1 DEF ApplyDiff, a, b, c
<1> QED
  BY <1>1, <1>5, <1>10, <1>11 DEF Applicable

-----------------------------------------------------------------------------
(***************************************************************************)
(* Frames and acks.                                                        *)
(***************************************************************************)

\* The newest frame is the last one published.
Numbered ==
    /\ Len(published) = current.num + 1
    /\ current.data = published[current.num + 1]

\* Only the blank terminal is not one of the application's screens.
DirtyIsDrawn == dirty => screen \in Screens

\* A remembered frame is an older one with the bytes it was published with.
OutstandingFaithful ==
    \A f \in outstanding : f.num < current.num /\ f.data = published[f.num + 1]

\* A frame under way brings a client that can apply it to the screen it is
\* numbered for: a full dump is that screen, a diff leads to it from its base.
Faithful(f) ==
    /\ f.num \in Nat
    /\ f.num + 1 <= Len(published)
    /\ f.kind = "full" => f.data = published[f.num + 1]
    /\ f.kind = "diff" =>
         /\ f.base \in Nat
         /\ f.base + 1 <= Len(published)
         /\ ApplyDiff(published[f.base + 1], f.diff) = published[f.num + 1]

FramesFaithful == \A f \in frames : Faithful(f)

\* No ack runs ahead of the client.
AcksAreOld == \A n \in acks : n <= applied_num

\* The inductive invariant. ClientHoldsItsFrame rests on what is under way
\* being faithful; that rests on ServerKnowsClient, and this in turn on the
\* remembered frames and on acks that never run ahead.
IInv ==
    /\ TypeOK
    /\ Numbered
    /\ DirtyIsDrawn
    /\ ClientHoldsItsFrame
    /\ ServerKnowsClient
    /\ OutstandingFaithful
    /\ FramesFaithful
    /\ AcksAreOld

-----------------------------------------------------------------------------
LEMMA ScreensAreSequences == FrameData \subseteq Seq(Int)
<1>1. << >> \in Seq(Int)
  OBVIOUS
<1>2. \A s \in Screens : s \in Seq(Int)
  BY FrameAssumption
<1> QED
  BY <1>1, <1>2, Zenon DEF FrameData

LEMMA InitIInv == Init => IInv
<1> SUFFICES ASSUME Init PROVE IInv
  OBVIOUS
<1>1. << >> \in FrameData
  BY DEF FrameData
<1>2. published \in Seq(FrameData) /\ Len(published) = 1 /\ published[1] = << >>
  BY <1>1 DEF Init
<1>3. TypeOK
  BY <1>1, <1>2 DEF Init, TypeOK
<1> QED
  BY <1>2, <1>3 DEF Init, IInv, Numbered, DirtyIsDrawn, ClientHoldsItsFrame,
     ServerKnowsClient, OutstandingFaithful, FramesFaithful, AcksAreOld

\* What a newly built frame carries: a diff from the known base or a dump.
LEMMA FrameForIsFaithful ==
    ASSUME NEW num \in Nat, NEW data \in Seq(Int), NEW base \in Nat,
           NEW known, known \subseteq Seq(Int), NEW old \in Seq(Int),
           \A k \in known : k = old
    PROVE  LET f == FrameFor(num, data, base, known)
           IN  /\ f.num = num
               /\ f.kind = "full" => f.data = data
               /\ f.kind = "diff" => /\ f.base = base
                                     /\ ApplyDiff(old, f.diff) = data
<1> DEFINE k0 == CHOOSE k \in known : TRUE
           cheap == \E k \in known :
                      Len(MakeDiff(k, data).middle) + DiffOverhead < Len(data)
<1>1. CASE ~cheap
  BY <1>1 DEF FrameFor, FullFrame
<1>2. CASE cheap
  <2>1. k0 = old
    BY <1>2
  <2>2. ApplyDiff(old, MakeDiff(k0, data)) = data
    BY <2>1, DiffRoundTrip
  <2>3. FrameFor(num, data, base, known)
          = [num |-> num, kind |-> "diff", base |-> base,
             diff |-> MakeDiff(k0, data)]
    BY <1>2 DEF FrameFor, DiffFrame
  <2> HIDE DEF k0
  <2> QED
    BY <2>2, <2>3
<1> QED
  BY <1>1, <1>2

\* The types the steps below speak about.
LEMMA StateTypes ==
    ASSUME IInv
    PROVE  /\ screen \in FrameData
           /\ current = [num |-> current.num, data |-> current.data]
           /\ current.num \in Nat /\ current.data \in FrameData
           /\ acked_num \in Nat /\ acked_data \subseteq FrameData
           /\ applied_num \in Nat /\ applied_data \in FrameData
           /\ acks \subseteq Nat
           /\ published \in Seq(FrameData)
           /\ Len(published) = current.num + 1
           /\ acked_num <= applied_num
           /\ applied_num <= current.num
           /\ \A f \in outstanding :
                 /\ f = [num |-> f.num, data |-> f.data]
                 /\ f.num \in Nat /\ f.data \in FrameData
  BY DEF IInv, TypeOK, Numbered, ServerKnowsClient, ClientHoldsItsFrame

\* The frame for the newest content, built against what is known of the client.
LEMMA CurrentFrameIsFaithful ==
    ASSUME IInv
    PROVE  Faithful(CurrentFrame)
<1>0. /\ current.num \in Nat /\ current.data \in Seq(Int)
      /\ acked_num \in Nat /\ acked_data \subseteq Seq(Int)
      /\ Len(published) = current.num + 1 /\ acked_num <= current.num
  BY StateTypes, ScreensAreSequences
<1> DEFINE old == published[acked_num + 1]
<1>1. old \in Seq(Int)
  <2>1. acked_num + 1 \in 1 .. Len(published)
    BY <1>0
  <2>2. published \in Seq(FrameData)
    BY StateTypes
  <2>3. old \in FrameData
    BY <2>1, <2>2
  <2> QED
    BY <2>3, ScreensAreSequences
<1>2. \A k \in acked_data : k = old
  BY DEF IInv, ServerKnowsClient
<1>3. current.data = published[current.num + 1]
  BY DEF IInv, Numbered
<1> HIDE DEF old
<1>4. /\ CurrentFrame.num = current.num
      /\ CurrentFrame.kind = "full" => CurrentFrame.data = current.data
      /\ CurrentFrame.kind = "diff" =>
            /\ CurrentFrame.base = acked_num
            /\ ApplyDiff(old, CurrentFrame.diff) = current.data
  BY <1>0, <1>1, <1>2, FrameForIsFaithful DEF CurrentFrame
<1> QED
  BY <1>0, <1>3, <1>4 DEF Faithful, old

\* Publishing one more screen leaves every frame under way faithful.
LEMMA FaithfulStays ==
    ASSUME NEW s \in FrameData, published \in Seq(FrameData),
           published' = Append(published, s), NEW f, Faithful(f)
    PROVE  Faithful(f)'
<1>1. /\ Len(published) \in Nat
      /\ Len(published') = Len(published) + 1
      /\ \A i \in 1 .. Len(published) : published'[i] = published[i]
  BY AppendProperties
<1>2. f.num \in Nat /\ f.num + 1 <= Len(published)
  BY DEF Faithful
<1>3. f.num + 1 <= Len(published') /\ published'[f.num + 1] = published[f.num + 1]
  BY <1>1, <1>2
<1>4. ASSUME f.kind = "diff"
      PROVE  /\ f.base \in Nat
             /\ f.base + 1 <= Len(published')
             /\ published'[f.base + 1] = published[f.base + 1]
  BY <1>1, <1>4 DEF Faithful
<1> QED
  BY <1>2, <1>3, <1>4 DEF Faithful

-----------------------------------------------------------------------------
\* The steps. Those that only send or draw change little of the invariant.

LEMMA PtyOutputIInv ==
    ASSUME IInv, NEW s \in Screens, PtyOutput(s)
    PROVE  IInv'
<1>1. s \in FrameData
  BY DEF FrameData
<1> QED
  BY <1>1 DEF PtyOutput, client, IInv, TypeOK, Numbered, DirtyIsDrawn, ClientHoldsItsFrame,
     ServerKnowsClient, OutstandingFaithful, FramesFaithful, Faithful, AcksAreOld

LEMMA SendFrameIInv ==
    ASSUME IInv, NEW f, Faithful(f), frames' = frames \cup {f},
           UNCHANGED <<server, client, acks, published>>
    PROVE  IInv'
<1>1. FramesFaithful'
  <2> SUFFICES ASSUME NEW g \in frames' PROVE Faithful(g)'
    BY DEF FramesFaithful
  <2>1. Faithful(g)
    BY DEF IInv, FramesFaithful
  <2> QED
    BY <2>1 DEF Faithful
<1> QED
  BY <1>1 DEF server, client, IInv, TypeOK, Numbered, DirtyIsDrawn, ClientHoldsItsFrame,
     ServerKnowsClient, OutstandingFaithful, AcksAreOld

LEMMA ProduceFrameIInv ==
    ASSUME IInv, ProduceFrame
    PROVE  IInv'
<1>0. /\ screen \in FrameData
      /\ current = [num |-> current.num, data |-> current.data]
      /\ current.num \in Nat /\ current.data \in FrameData
      /\ acked_num \in Nat /\ acked_data \subseteq FrameData
      /\ applied_num \in Nat /\ applied_data \in FrameData
      /\ published \in Seq(FrameData)
      /\ Len(published) = current.num + 1
      /\ acked_num <= applied_num /\ applied_num <= current.num
  BY StateTypes
<1>1. /\ current' = [num |-> current.num + 1, data |-> screen]
      /\ published' = Append(published, screen)
      /\ outstanding' \subseteq outstanding \cup {current}
      /\ frames' = frames
            \cup {FrameFor(current.num + 1, screen, acked_num, acked_data)}
      /\ dirty' = FALSE
      /\ UNCHANGED <<screen, acked_num, acked_data, applied_num, applied_data,
                     acks>>
  BY DEF ProduceFrame, Remember, client
<1>2. PICK p \in Seq(FrameData) : p = published'
  BY <1>0, <1>1, AppendProperties
<1>3. /\ Len(p) = current.num + 2
      /\ \A i \in 1 .. current.num + 1 : p[i] = published[i]
      /\ p[current.num + 2] = screen
  BY <1>0, <1>1, <1>2, AppendProperties
<1>4. outstanding' \subseteq [num : Nat, data : FrameData]
  BY <1>0, <1>1 DEF IInv, TypeOK
<1>5. TypeOK'
  <2>1. current' \in [num : Nat, data : FrameData]
    BY <1>0, <1>1
  <2>2. published' \in Seq(FrameData)
    BY <1>2
  <2>3. dirty' \in BOOLEAN
    BY <1>1
  <2>4. acks' \subseteq Nat
    BY <1>1, StateTypes
  <2> QED
    BY <1>0, <1>1, <1>4, <2>1, <2>2, <2>3, <2>4 DEF TypeOK
<1>6. Numbered'
  <2>1. current'.num + 1 = current.num + 2 /\ current'.data = screen
    BY <1>0, <1>1
  <2> QED
    BY <1>2, <1>3, <2>1 DEF Numbered
<1>7. ClientHoldsItsFrame'
  <2>1. applied_num + 1 \in 1 .. current.num + 1
    BY <1>0
  <2>2. applied_num + 1 <= Len(p) /\ p[applied_num + 1] = applied_data
    BY <1>0, <1>3, <2>1 DEF IInv, ClientHoldsItsFrame
  <2> QED
    BY <1>1, <1>2, <2>2 DEF ClientHoldsItsFrame
<1>8. ServerKnowsClient'
  <2>1. acked_num + 1 \in 1 .. current.num + 1
    BY <1>0
  <2>2. p[acked_num + 1] = published[acked_num + 1]
    BY <1>3, <2>1
  <2> QED
    BY <1>1, <1>2, <2>2 DEF IInv, ServerKnowsClient
<1>9. OutstandingFaithful'
  <2> SUFFICES ASSUME NEW f \in outstanding'
               PROVE  f.num < current.num + 1 /\ f.data = p[f.num + 1]
    BY <1>1, <1>2 DEF OutstandingFaithful
  <2>1. f.num \in Nat
    BY <1>4
  <2>2. f.num <= current.num /\ f.data = published[f.num + 1]
    <3>1. CASE f = current
      BY <1>0, <3>1 DEF IInv, Numbered
    <3>2. CASE f \in outstanding
      BY <1>0, <2>1, <3>2 DEF IInv, OutstandingFaithful
    <3> QED
      BY <1>1, <3>1, <3>2
  <2>3. f.num + 1 \in 1 .. current.num + 1
    BY <1>0, <2>1, <2>2
  <2> QED
    BY <1>0, <1>3, <2>1, <2>2, <2>3
<1>10. FramesFaithful'
  <2> SUFFICES ASSUME NEW f \in frames' PROVE Faithful(f)'
    BY DEF FramesFaithful
  <2>1. CASE f \in frames
    <3>1. Faithful(f)
      BY <2>1 DEF IInv, FramesFaithful
    <3> QED
      BY <1>0, <1>1, <3>1, FaithfulStays
  <2>2. CASE f = FrameFor(current.num + 1, screen, acked_num, acked_data)
    <3>1. acked_num + 1 \in 1 .. current.num + 1 /\ acked_num + 1 <= Len(p)
      BY <1>0, <1>3
    <3>2. PICK old \in FrameData : old = published[acked_num + 1]
      BY <1>0, <3>1
    <3>3. p[acked_num + 1] = old
      BY <1>3, <3>1, <3>2
    <3>4. \A k \in acked_data : k = old
      BY <3>2 DEF IInv, ServerKnowsClient
    <3>5. /\ current.num + 1 \in Nat /\ screen \in Seq(Int)
          /\ acked_data \subseteq Seq(Int) /\ old \in Seq(Int)
      BY <1>0, <3>2, ScreensAreSequences
    <3>a. PICK n \in Nat : n = current.num + 1
      BY <3>5
    <3> DEFINE g == FrameFor(n, screen, acked_num, acked_data)
    <3>b. /\ g.num = n
          /\ g.kind = "full" => g.data = screen
          /\ g.kind = "diff" => /\ g.base = acked_num
                                /\ ApplyDiff(old, g.diff) = screen
      <4>1. n \in Nat /\ acked_num \in Nat
        BY <1>0, <3>a
      <4> QED
        BY <3>4, <3>5, <4>1, FrameForIsFaithful, SMTT(60)
    <3> HIDE DEF g
    <3>6. /\ f.num = current.num + 1
          /\ f.kind = "full" => f.data = screen
          /\ f.kind = "diff" => /\ f.base = acked_num
                                /\ ApplyDiff(old, f.diff) = screen
      BY <2>2, <3>a, <3>b DEF g
    <3>7. f.num \in Nat /\ f.num + 1 = current.num + 2
      BY <1>0, <3>6
    <3>8. f.num + 1 <= Len(p) /\ p[f.num + 1] = screen
      BY <1>0, <1>3, <3>7
    <3> QED
      BY <1>0, <1>2, <3>1, <3>3, <3>6, <3>7, <3>8 DEF Faithful
  <2> QED
    BY <1>1, <2>1, <2>2
<1>11. AcksAreOld'
  BY <1>1 DEF IInv, AcksAreOld
<1> QED
  BY <1>5, <1>6, <1>7, <1>8, <1>9, <1>1, <1>10, <1>11 DEF IInv, DirtyIsDrawn

LEMMA ReceiveAckIInv ==
    ASSUME IInv, NEW n \in acks, ReceiveAck(n)
    PROVE  IInv'
<1>0. /\ n \in Nat /\ n <= applied_num /\ acked_num' = n
      /\ current.num \in Nat /\ current.data \in FrameData
  BY StateTypes DEF IInv, AcksAreOld, ReceiveAck
<1>1. \A d \in FindAcked(n) : d \in FrameData /\ d = published[n + 1]
  <2>1. CASE n = current.num
    BY <1>0, <2>1 DEF FindAcked, IInv, Numbered
  <2>2. CASE n # current.num
    BY <2>2, StateTypes DEF FindAcked, IInv, OutstandingFaithful
  <2> QED
    BY <2>1, <2>2
<1>2. TypeOK'
  BY <1>0, <1>1 DEF ReceiveAck, client, IInv, TypeOK
<1>3. ServerKnowsClient'
  BY <1>0, <1>1 DEF ReceiveAck, client, ServerKnowsClient
<1> QED
  BY <1>2, <1>3 DEF ReceiveAck, client, IInv, Numbered, DirtyIsDrawn, ClientHoldsItsFrame,
     OutstandingFaithful, FramesFaithful, Faithful, AcksAreOld

\* A frame the client applies takes it to the screen of the frame's number.
LEMMA AppliedContent ==
    ASSUME IInv, NEW f \in frames, CanApply(f)
    PROVE  /\ f.num \in Nat /\ f.num > applied_num
           /\ f.num + 1 <= Len(published)
           /\ Content(f) = published[f.num + 1]
<1>1. Faithful(f)
  BY DEF IInv, FramesFaithful
<1>2. CASE f.kind = "full"
  BY <1>1, <1>2 DEF Faithful, Content, CanApply
<1>3. CASE f.kind # "full"
  <2>1. f.kind = "diff" /\ f.base = applied_num
    BY <1>3 DEF CanApply
  <2>2. applied_data = published[applied_num + 1]
    BY DEF IInv, ClientHoldsItsFrame
  <2> QED
    BY <1>1, <1>3, <2>1, <2>2 DEF Faithful, Content, CanApply
<1> QED
  BY <1>2, <1>3

LEMMA ReceiveFrameIInv ==
    ASSUME IInv, NEW f \in frames, ReceiveFrame(f)
    PROVE  IInv'
<1>0. /\ applied_num \in Nat /\ acked_num \in Nat /\ acked_num <= applied_num
      /\ published \in Seq(FrameData) /\ acks \subseteq Nat
      /\ Len(published) \in Nat
  BY StateTypes
<1>1. PICK k \in Nat : /\ k = applied_num' /\ applied_num <= k
                       /\ k + 1 <= Len(published)
                       /\ applied_data' = published[k + 1]
  <2>1. CASE CanApply(f)
    BY <1>0, <2>1, AppliedContent DEF ReceiveFrame
  <2>2. CASE ~CanApply(f)
    BY <1>0, <2>2 DEF ReceiveFrame, client, IInv, ClientHoldsItsFrame
  <2> QED
    BY <2>1, <2>2
<1>2. k + 1 \in 1 .. Len(published)
  <2>1. k \in Nat /\ k + 1 <= Len(published)
    BY <1>1
  <2> QED
    BY <1>0, <2>1
<1>3. applied_data' \in FrameData
  BY <1>0, <1>1, <1>2
<1>4. acks' \subseteq acks \cup {k}
  BY <1>1 DEF ReceiveFrame
<1>5. UNCHANGED <<server, frames, published>>
  BY DEF ReceiveFrame
<1>6. TypeOK'
  <2>1. acks' \subseteq Nat
    BY <1>0, <1>4
  <2> QED
    BY <1>1, <1>3, <1>5, <2>1 DEF server, IInv, TypeOK
<1>7. ServerKnowsClient'
  BY <1>0, <1>1, <1>5 DEF server, IInv, ServerKnowsClient
<1>8. AcksAreOld'
  <2>1. ASSUME NEW n \in acks' PROVE n <= k
    <3>1. CASE n = k
      BY <3>1, <1>1
    <3>2. CASE n \in acks
      BY <1>0, <1>1, <3>2 DEF IInv, AcksAreOld
    <3> QED
      BY <1>4, <3>1, <3>2
  <2> QED
    BY <1>1, <2>1 DEF AcksAreOld
<1>9. ClientHoldsItsFrame'
  BY <1>1, <1>5 DEF ClientHoldsItsFrame
<1>10. FramesFaithful'
  BY <1>5 DEF IInv, FramesFaithful, Faithful
<1> QED
  BY <1>5, <1>6, <1>7, <1>8, <1>9, <1>10
     DEF server, IInv, Numbered, DirtyIsDrawn, OutstandingFaithful

LEMMA SendMessageIInv ==
    ASSUME IInv, SendMessage
    PROVE  IInv'
<1>1. /\ acks' = acks \cup {applied_num}
      /\ UNCHANGED <<server, client, frames, published>>
      /\ applied_num \in Nat
  BY StateTypes DEF SendMessage
<1>2. FramesFaithful'
  BY <1>1 DEF IInv, FramesFaithful, Faithful
<1>3. AcksAreOld'
  BY <1>1 DEF client, IInv, AcksAreOld
<1> QED
  BY <1>1, <1>2, <1>3 DEF server, client, IInv, TypeOK, Numbered, DirtyIsDrawn,
     ClientHoldsItsFrame, ServerKnowsClient, OutstandingFaithful

LEMMA NextIInv == IInv /\ [Next]_vars => IInv'
<1> SUFFICES ASSUME IInv, [Next]_vars
             PROVE  IInv'
  OBVIOUS
<1>1. ASSUME NEW s \in Screens, PtyOutput(s) PROVE IInv'
  BY <1>1, PtyOutputIInv
<1>2. CASE ProduceFrame
  BY <1>2, ProduceFrameIInv
<1>3. CASE Retransmit
  BY <1>3, CurrentFrameIsFaithful, SendFrameIInv DEF Retransmit
<1>4. CASE SendEmpty
  <2>1. Faithful(EmptyFrame(current.num))
    BY StateTypes DEF Faithful, EmptyFrame
  <2> QED
    BY <1>4, <2>1, SendFrameIInv DEF SendEmpty
<1>5. ASSUME NEW n \in acks, ReceiveAck(n) PROVE IInv'
  BY <1>5, ReceiveAckIInv
<1>6. ASSUME NEW f \in frames, ReceiveFrame(f) PROVE IInv'
  BY <1>6, ReceiveFrameIInv
<1>7. CASE SendMessage
  BY <1>7, SendMessageIInv
<1>8. CASE UNCHANGED vars
  BY <1>8 DEF vars, server, client, IInv, TypeOK, Numbered, DirtyIsDrawn,
     ClientHoldsItsFrame, ServerKnowsClient, OutstandingFaithful,
     FramesFaithful, Faithful, AcksAreOld
<1> QED
  BY <1>1, <1>2, <1>3, <1>4, <1>5, <1>6, <1>7, <1>8 DEF Next

-----------------------------------------------------------------------------
\* The invariant holds in every reachable state of screen synchronisation.
THEOREM SyncInvariant == Spec => []IInv
  BY InitIInv, NextIInv, PTL DEF Spec

\* Whatever the network does to frames and acks, the client's applied_data is
\* the content of the frame it confirms (apply_frame).
THEOREM ClientNeverCorrupt == Spec => []ClientHoldsItsFrame
<1>1. IInv => ClientHoldsItsFrame
  BY DEF IInv
<1> QED
  BY <1>1, SyncInvariant, PTL

\* The base the server diffs against is a state the client has held, byte for
\* byte (update_acks).
THEOREM DiffBaseIsHeld == Spec => []ServerKnowsClient
<1>1. IInv => ServerKnowsClient
  BY DEF IInv
<1> QED
  BY <1>1, SyncInvariant, PTL

\* Frames, diffs, acks and an unreliable network implement the mirror: the
\* client shows published screens only, complete and in order.
THEOREM SyncImplementsMirror == Spec => MirrorsScreens
<1>1. Init => Mirror!Init
  BY DEF Init, Mirror!Init
<1>2. IInv /\ [Next]_vars => [Mirror!Next]_Mirror!vars
  <2> SUFFICES ASSUME IInv, [Next]_vars
               PROVE  [Mirror!Next]_Mirror!vars
    OBVIOUS
  <2>1. ASSUME NEW s \in Screens, PtyOutput(s) PROVE UNCHANGED Mirror!vars
    BY <2>1 DEF PtyOutput, client, Mirror!vars
  <2>2. CASE ProduceFrame
    BY <2>2 DEF IInv, DirtyIsDrawn, ProduceFrame, client, Mirror!Next,
                Mirror!Publish
  <2>3. CASE Retransmit \/ SendEmpty \/ SendMessage
    BY <2>3 DEF Retransmit, SendEmpty, SendMessage, client, Mirror!vars
  <2>4. ASSUME NEW n \in acks, ReceiveAck(n) PROVE UNCHANGED Mirror!vars
    BY <2>4 DEF ReceiveAck, client, Mirror!vars
  <2>5. ASSUME NEW f \in frames, ReceiveFrame(f)
        PROVE  [Mirror!Next]_Mirror!vars
    <3>1. CASE ~CanApply(f)
      BY <2>5, <3>1 DEF ReceiveFrame, client, Mirror!vars
    <3>2. CASE CanApply(f)
      <4>1. /\ f.num \in Nat /\ f.num > applied_num
            /\ f.num + 1 <= Len(published)
            /\ Content(f) = published[f.num + 1]
        BY <3>2, AppliedContent
      <4>2. /\ applied_num' = f.num /\ applied_data' = published[f.num + 1]
            /\ published' = published
        BY <2>5, <3>2, <4>1 DEF ReceiveFrame
      <4>3. /\ applied_num \in Nat /\ published \in Seq(FrameData)
            /\ f.num + 1 \in 1 .. Len(published)
        BY <4>1, StateTypes
      <4>4. Mirror!Show(f.num + 1)
        BY <4>1, <4>2, <4>3 DEF Mirror!Show
      <4> QED
        BY <4>3, <4>4 DEF Mirror!Next
    <3> QED
      BY <3>1, <3>2
  <2>6. CASE UNCHANGED vars
    BY <2>6 DEF vars, client, Mirror!vars
  <2> QED
    BY <2>1, <2>2, <2>3, <2>4, <2>5, <2>6 DEF Next
<1> QED
  BY <1>1, <1>2, SyncInvariant, PTL DEF Spec, MirrorsScreens, Mirror!Spec

-----------------------------------------------------------------------------
\* The remembered frames are the newest ones before the current, none left out,
\* and one that is not confirmed is forgotten only when there are as many as
\* may be.
Window ==
    \E lo \in 0 .. current.num :
        /\ {f.num : f \in outstanding} = lo .. current.num - 1
        /\ current.num - lo <= MaxOutstanding
        /\ lo > acked_num => current.num - lo = MaxOutstanding

\* As many elements as numbers.
LEMMA CountedByNumber ==
    ASSUME NEW S, NEW lo \in Int, NEW hi \in Int, lo <= hi,
           {f.num : f \in S} = lo .. hi,
           \A f, g \in S : f.num = g.num => f = g
    PROVE  IsFiniteSet(S) /\ Cardinality(S) = hi - lo + 1
<1> DEFINE F == [k \in lo .. hi |-> CHOOSE f \in S : f.num = k]
<1>1. \A k \in lo .. hi : F[k] \in S /\ F[k].num = k
  <2> TAKE k \in lo .. hi
  <2>1. \E f \in S : f.num = k
    OBVIOUS
  <2> QED
    BY <2>1
<1>2. F \in [lo .. hi -> S]
  BY <1>1
<1> HIDE DEF F
<1>3. F \in Injection(lo .. hi, S)
  BY <1>1, <1>2 DEF Injection, IsInjective
<1>4. F \in Surjection(lo .. hi, S)
  <2>1. ASSUME NEW f \in S PROVE \E k \in lo .. hi : F[k] = f
    <3>1. f.num \in lo .. hi
      OBVIOUS
    <3> QED
      BY <1>1, <3>1
  <2> QED
    BY <1>2, <2>1 DEF Surjection
<1>5. ExistsBijection(lo .. hi, S)
  BY <1>3, <1>4 DEF ExistsBijection, Bijection
<1>6. IsFiniteSet(lo .. hi) /\ Cardinality(lo .. hi) = hi - lo + 1
  BY FS_Interval
<1> QED
  BY <1>5, <1>6, FS_Bijection

\* Remembering one frame more moves the window on.
LEMMA Remembered ==
    ASSUME NEW out, NEW f, NEW lo \in Nat, f.num \in Nat, lo <= f.num,
           {g.num : g \in out} = lo .. f.num - 1,
           \A g, h \in out : g.num = h.num => g = h
    PROVE  IF f.num + 1 - lo > MaxOutstanding
           THEN {g.num : g \in Remember(out, f)} = lo + 1 .. f.num
           ELSE {g.num : g \in Remember(out, f)} = lo .. f.num
<1> DEFINE all == out \cup {f}
<1>1. \A k : (\E g \in out : g.num = k) <=> k \in lo .. f.num - 1
  <2>1. \A k : (\E g \in out : g.num = k) <=> k \in {g.num : g \in out}
    OBVIOUS
  <2> QED
    BY <2>1
<1>2. \A k : (\E g \in all : g.num = k) <=> k \in lo .. f.num
  <2>1. \A k : k \in lo .. f.num <=> k \in lo .. f.num - 1 \/ k = f.num
    OBVIOUS
  <2> QED
    BY <1>1, <2>1
<1>3. \A g \in out : g.num \in lo .. f.num - 1
  BY <1>1
<1>4. \A g, h \in all : g.num = h.num => g = h
  <2>1. \A g \in out : g.num # f.num
    BY <1>3
  <2> QED
    BY <2>1
<1>5. {g.num : g \in all} = lo .. f.num
  BY <1>2
<1> HIDE DEF all
<1>6. Cardinality(all) = f.num - lo + 1
  <2>1. PICK n \in Int : n = f.num
    OBVIOUS
  <2>2. lo \in Int /\ lo <= n /\ {g.num : g \in all} = lo .. n
    BY <1>5, <2>1
  <2>3. IsFiniteSet(all) /\ Cardinality(all) = n - lo + 1
    BY <1>4, <2>2, CountedByNumber, Zenon
  <2> QED
    BY <2>1, <2>3
<1>7. CASE f.num + 1 - lo > MaxOutstanding
  <2>1. Remember(out, f) = {g \in all : \E h \in all : h.num < g.num}
    BY <1>6, <1>7, FrameAssumption DEF Remember, all
  <2>2. \A g \in all : (\E h \in all : h.num < g.num) <=> g.num # lo
    <3> TAKE g \in all
    <3>1. g.num \in lo .. f.num
      BY <1>2
    <3>2. PICK h \in all : h.num = lo
      BY <1>2
    <3>3. \A e \in all : e.num \in lo .. f.num
      BY <1>2
    <3> QED
      BY <3>1, <3>2, <3>3
  <2>3. \A k : (\E g \in Remember(out, f) : g.num = k) <=> k \in lo .. f.num /\ k # lo
    BY <1>2, <2>1, <2>2
  <2>4. \A k : k \in lo .. f.num /\ k # lo <=> k \in lo + 1 .. f.num
    OBVIOUS
  <2>5. {g.num : g \in Remember(out, f)} = lo + 1 .. f.num
    BY <2>3, <2>4
  <2> QED
    BY <1>7, <2>5
<1>8. CASE ~ (f.num + 1 - lo > MaxOutstanding)
  <2>1. Remember(out, f) = all
    BY <1>6, <1>8, FrameAssumption DEF Remember, all
  <2> QED
    BY <1>5, <1>8, <2>1
<1> QED
  BY <1>7, <1>8

\* A frame is known by its number.
LEMMA NumbersAreUnique ==
    ASSUME IInv PROVE \A f, g \in outstanding : f.num = g.num => f = g
<1> TAKE f, g \in outstanding
<1>1. /\ f = [num |-> f.num, data |-> f.data] /\ g = [num |-> g.num, data |-> g.data]
  BY StateTypes
<1>2. f.data = published[f.num + 1] /\ g.data = published[g.num + 1]
  BY DEF IInv, OutstandingFaithful
<1> QED
  BY <1>1, <1>2

LEMMA WindowStep ==
    ASSUME IInv, Window, FullDumpOnlyWhenFarBehind, [Next]_vars
    PROVE  Window' /\ FullDumpOnlyWhenFarBehind'
<1>1. /\ current.num \in Nat /\ acked_num \in Nat /\ acks \subseteq Nat
      /\ MaxOutstanding \in Nat \ {0}
  BY StateTypes, FrameAssumption
<1>2. PICK lo \in 0 .. current.num :
        /\ {f.num : f \in outstanding} = lo .. current.num - 1
        /\ current.num - lo <= MaxOutstanding
        /\ lo > acked_num => current.num - lo = MaxOutstanding
  BY DEF Window
<1>3. CASE UNCHANGED <<current, acked_num, acked_data, outstanding>>
  BY <1>3 DEF Window, FullDumpOnlyWhenFarBehind
<1>4. CASE ProduceFrame
  <2>1. /\ current'.num = current.num + 1 /\ outstanding' = Remember(outstanding, current)
        /\ UNCHANGED <<acked_num, acked_data>>
    BY <1>4 DEF ProduceFrame
  <2>2. IF current.num + 1 - lo > MaxOutstanding
        THEN {f.num : f \in outstanding'} = lo + 1 .. current.num
        ELSE {f.num : f \in outstanding'} = lo .. current.num
    <3>1. /\ lo \in Nat /\ current.num \in Nat /\ lo <= current.num
          /\ \A f, g \in outstanding : f.num = g.num => f = g
      BY <1>1, <1>2, NumbersAreUnique
    <3> QED
      BY <1>2, <2>1, <3>1, Remembered, Zenon
  <2>3. \E k \in 0 .. current.num + 1 :
          /\ {f.num : f \in outstanding'} = k .. current.num
          /\ current.num + 1 - k <= MaxOutstanding
          /\ k > acked_num => current.num + 1 - k = MaxOutstanding
    <3>1. CASE current.num + 1 - lo > MaxOutstanding
      <4>1. {f.num : f \in outstanding'} = lo + 1 .. current.num /\ lo + 1 \in 0 .. current.num + 1
        BY <1>1, <1>2, <2>2, <3>1
      <4>2. current.num + 1 - (lo + 1) = MaxOutstanding
        BY <1>1, <1>2, <3>1
      <4> QED
        BY <1>1, <4>1, <4>2
    <3>2. CASE ~ (current.num + 1 - lo > MaxOutstanding)
      <4>1. {f.num : f \in outstanding'} = lo .. current.num /\ lo \in 0 .. current.num + 1
        BY <1>1, <1>2, <2>2, <3>2
      <4>2. lo <= acked_num
        BY <1>1, <1>2, <3>2
      <4> QED
        BY <1>1, <3>2, <4>1, <4>2
    <3> QED
      BY <3>1, <3>2
  <2>4. current'.num - 1 = current.num
    BY <1>1, <2>1
  <2>5. Window'
    <3>1. PICK k \in 0 .. current.num + 1 :
            /\ {f.num : f \in outstanding'} = k .. current.num
            /\ current.num + 1 - k <= MaxOutstanding
            /\ k > acked_num => current.num + 1 - k = MaxOutstanding
      BY <2>3
    <3>2. /\ k \in 0 .. current'.num
          /\ {f.num : f \in outstanding'} = k .. current'.num - 1
          /\ current'.num - k <= MaxOutstanding
          /\ k > acked_num' => current'.num - k = MaxOutstanding
      <4>1. k \in 0 .. current'.num /\ acked_num' = acked_num
        BY <2>1, <3>1
      <4>2. {f.num : f \in outstanding'} = k .. current'.num - 1
        BY <2>4, <3>1, Zenon
      <4>3. current'.num - k <= MaxOutstanding /\ (k > acked_num => current'.num - k = MaxOutstanding)
        BY <1>1, <2>1, <3>1
      <4> QED
        BY <4>1, <4>2, <4>3
    <3> QED
      BY <3>2 DEF Window
  <2>6. FullDumpOnlyWhenFarBehind'
    BY <1>1, <2>1 DEF FullDumpOnlyWhenFarBehind
  <2> QED
    BY <2>5, <2>6
<1>5. ASSUME NEW n \in acks, ReceiveAck(n) PROVE Window' /\ FullDumpOnlyWhenFarBehind'
  <2>1. /\ n \in Nat /\ n > acked_num /\ n <= current.num /\ current' = current
        /\ acked_num' = n /\ acked_data' = FindAcked(n)
        /\ outstanding' = {f \in outstanding : f.num >= n}
    BY <1>1, <1>5 DEF ReceiveAck, IsNewAck
  <2>2. \A k : (\E f \in outstanding : f.num = k) <=> k \in lo .. current.num - 1
    <3>1. \A k : (\E f \in outstanding : f.num = k) <=> k \in {f.num : f \in outstanding}
      OBVIOUS
    <3> QED
      BY <1>2, <3>1
  <2>3. \A k : (\E f \in outstanding' : f.num = k) <=> k \in lo .. current.num - 1 /\ k >= n
    BY <2>1, <2>2
  <2>4. CASE n >= lo
    <3>1. \A k : k \in lo .. current.num - 1 /\ k >= n <=> k \in n .. current.num - 1
      BY <1>1, <1>2, <2>1, <2>4
    <3>2. {f.num : f \in outstanding'} = n .. current.num - 1
      BY <2>3, <3>1
    <3>3. n \in 0 .. current.num /\ current.num - n <= MaxOutstanding /\ ~ (n > n)
      BY <1>1, <1>2, <2>1, <2>4
    <3>4. Window'
      BY <2>1, <3>2, <3>3 DEF Window
    <3>5. FindAcked(n) # {}
      <4>1. CASE n = current.num
        BY <4>1 DEF FindAcked
      <4>2. CASE n # current.num
        <5>1. n \in lo .. current.num - 1
          BY <1>1, <1>2, <2>1, <2>4, <4>2
        <5>2. PICK f \in outstanding : f.num = n
          BY <2>2, <5>1
        <5>3. f.data \in {g.data : g \in {h \in outstanding : h.num = n}}
          BY <5>2
        <5> QED
          BY <4>2, <5>3 DEF FindAcked
      <4> QED
        BY <4>1, <4>2
    <3> QED
      BY <2>1, <3>4, <3>5 DEF FullDumpOnlyWhenFarBehind
  <2>5. CASE ~ (n >= lo)
    <3>1. \A k : k \in lo .. current.num - 1 /\ k >= n <=> k \in lo .. current.num - 1
      BY <1>1, <1>2, <2>1, <2>5
    <3>2. {f.num : f \in outstanding'} = lo .. current.num - 1
      BY <2>3, <3>1
    <3>3. current.num - lo = MaxOutstanding
      BY <1>1, <1>2, <2>1, <2>5
    <3>4. Window'
      BY <1>2, <2>1, <3>2, <3>3 DEF Window
    <3>5. n + MaxOutstanding < current.num
      BY <1>1, <1>2, <2>1, <2>5, <3>3
    <3> QED
      BY <2>1, <3>4, <3>5 DEF FullDumpOnlyWhenFarBehind
  <2> QED
    BY <2>4, <2>5
<1> QED
  BY <1>3, <1>4, <1>5 DEF Next, PtyOutput, Retransmit, SendEmpty, ReceiveFrame, SendMessage,
     server, vars

\* Whatever acks are lost or late, a client that is no further behind than the
\* cap on `outstanding' can be sent a diff (update_acks, the push and the cap).
THEOREM DumpsOnlyFarBehind == Spec => []FullDumpOnlyWhenFarBehind
<1>1. Init => Window /\ FullDumpOnlyWhenFarBehind
  <2> SUFFICES ASSUME Init PROVE Window /\ FullDumpOnlyWhenFarBehind
    OBVIOUS
  <2>1. /\ current.num = 0 /\ {f.num : f \in outstanding} = 0 .. current.num - 1
    BY DEF Init
  <2>2. 0 \in 0 .. current.num /\ current.num - 0 <= MaxOutstanding /\ ~ (0 > acked_num)
    BY <2>1, FrameAssumption DEF Init
  <2> QED
    BY <2>1, <2>2 DEF Init, Window, FullDumpOnlyWhenFarBehind
<1>2. IInv /\ (Window /\ FullDumpOnlyWhenFarBehind) /\ [Next]_vars
        => (Window /\ FullDumpOnlyWhenFarBehind)'
  BY WindowStep
<1> QED
  BY <1>1, <1>2, SyncInvariant, PTL DEF Spec
=============================================================================
