------------------------ MODULE SessionDaemonProofs ------------------------
(***************************************************************************)
(* The session daemon, for any number of clients, sizes, chunks of output  *)
(* and frames under way: the pty has the size of the smallest client, and  *)
(* every client draws the model's screen.                                  *)
(*                                                                         *)
(* What a recursive function computes is shown by its least                *)
(* counterexample (LeastExists) in place of an induction.                  *)
(***************************************************************************)
EXTENDS SessionDaemon, SequenceTheorems, FiniteSetTheorems, WellFoundedInduction, TLAPS

-----------------------------------------------------------------------------
\* Sets of naturals.

LEMMA LeastExists ==
    ASSUME NEW T, T \subseteq Nat, T # {}
    PROVE  \E x \in T : \A y \in T : x <= y
<1> DEFINE R == {ss \in Nat \X Nat : ss[1] < ss[2]}
<1>1. \E x \in T : \A y \in T : ~ (<<y, x>> \in R)
  <2>1. IsWellFoundedOn(R, Nat)
    BY NatLessThanWellFounded DEF OpToRel
  <2> HIDE DEF R
  <2> QED
    BY <2>1, WFMin
<1>2. \A x, y \in Nat : <<y, x>> \in R <=> y < x
  OBVIOUS
<1> HIDE DEF R
<1>3. PICK x \in T : \A y \in T : ~ (<<y, x>> \in R)
  BY <1>1
<1>4. \A y \in T : x <= y
  <2> TAKE y \in T
  <2>1. x \in Nat /\ y \in Nat
    OBVIOUS
  <2>2. ~ (y < x)
    BY <1>2, <1>3, <2>1
  <2> QED
    BY <2>1, <2>2
<1> QED
  BY <1>4

LEMMA LeastIs ==
    ASSUME NEW T, T \subseteq Nat, T # {}
    PROVE  Least(T) \in T /\ \A y \in T : Least(T) <= y
  BY LeastExists DEF Least

\* The largest index of a sequence with some property.
LEMMA GreatestIs ==
    ASSUME NEW n \in Nat, NEW T, T \subseteq 1 .. n, T # {}
    PROVE  Greatest(T) \in T
<1> DEFINE D == {n - i : i \in T}
<1>1. D \subseteq Nat /\ D # {}
  <2>1. \A i \in T : i \in 1 .. n /\ n - i \in Nat
    OBVIOUS
  <2> QED
    BY <2>1
<1>2. PICK d \in D : \A e \in D : d <= e
  <2> HIDE DEF D
  <2> QED
    BY <1>1, LeastExists
<1>3. PICK x \in T : d = n - x
  BY <1>2
<1>4. \A y \in T : y <= x
  <2> TAKE y \in T
  <2>1. n - y \in D
    OBVIOUS
  <2>2. d <= n - y
    BY <1>2, <2>1
  <2>3. x \in 1 .. n /\ y \in 1 .. n
    OBVIOUS
  <2> QED
    BY <1>3, <2>2, <2>3
<1> QED
  BY <1>4 DEF Greatest

-----------------------------------------------------------------------------
\* Without.

LEMMA RangeOfAppend ==
    ASSUME NEW S, NEW list \in Seq(S), NEW x \in S
    PROVE  Range(Append(list, x)) = Range(list) \cup {x}
<1> DEFINE a == Append(list, x)
<1>1. /\ DOMAIN a = 1 .. Len(list) + 1 /\ a[Len(list) + 1] = x
      /\ \A i \in 1 .. Len(list) : a[i] = list[i]
      /\ DOMAIN list = 1 .. Len(list) /\ Len(list) \in Nat
  OBVIOUS
<1> HIDE DEF a
<1>2. Range(a) = {a[i] : i \in 1 .. Len(list) + 1} /\ Range(list) = {list[i] : i \in 1 .. Len(list)}
  BY <1>1 DEF Range
<1>3. {a[i] : i \in 1 .. Len(list) + 1} = {list[i] : i \in 1 .. Len(list)} \cup {x}
  BY <1>1
<1> QED
  BY <1>2, <1>3 DEF a

IsKept(h, list, C, n) ==
    h = [i \in 0 .. n |->
            IF i = 0 THEN << >>
            ELSE IF list[i] \in C THEN h[i - 1]
            ELSE Append(h[i - 1], list[i])]

LEMMA KeptExists ==
    ASSUME NEW S, NEW list \in Seq(S), NEW C
    PROVE  \E h : IsKept(h, list, C, Len(list))
<1> DEFINE T == {n \in 0 .. Len(list) : ~ \E h : IsKept(h, list, C, n)}
<1>0. Len(list) \in Nat /\ Len(list) \in 0 .. Len(list)
  OBVIOUS
<1>1. SUFFICES T = {}
  BY <1>0
<1>2. SUFFICES ASSUME T # {} PROVE FALSE
  OBVIOUS
<1>3. PICK n \in T : \A y \in T : n <= y
  <2>1. T \subseteq Nat
    OBVIOUS
  <2> HIDE DEF T
  <2> QED
    BY <1>2, <2>1, LeastExists
<1>4. n \in 0 .. Len(list) /\ ~ \E h : IsKept(h, list, C, n)
  BY <1>3
<1>5. n # 0
  <2>1. IsKept([i \in 0 .. 0 |-> << >>], list, C, 0)
    BY DEF IsKept
  <2> QED
    BY <1>4, <2>1
<1>6. PICK h : IsKept(h, list, C, n - 1)
  BY <1>3, <1>4, <1>5
<1> DEFINE g == [i \in 0 .. n |->
                   IF i < n THEN h[i]
                   ELSE IF list[i] \in C THEN h[i - 1]
                   ELSE Append(h[i - 1], list[i])]
<1>7. IsKept(g, list, C, n)
  <2>1. \A i \in 0 .. n - 1 : h[i] = IF i = 0 THEN << >>
            ELSE IF list[i] \in C THEN h[i - 1]
            ELSE Append(h[i - 1], list[i])
    BY <1>6 DEF IsKept
  <2>2. \A i \in 0 .. n : g[i] = IF i = 0 THEN << >>
            ELSE IF list[i] \in C THEN g[i - 1]
            ELSE Append(g[i - 1], list[i])
    BY <1>4, <1>5, <2>1
  <2> QED
    BY <2>2 DEF IsKept
<1> QED
  BY <1>4, <1>7

\* The list without C holds just the others.
LEMMA WithoutIs ==
    ASSUME NEW S, NEW list \in Seq(S), NEW C
    PROVE  Without(list, C) \in Seq(S) /\ Range(Without(list, C)) = Range(list) \ C
<1> DEFINE h == CHOOSE h : IsKept(h, list, C, Len(list))
<1>1. IsKept(h, list, C, Len(list))
  BY KeptExists
<1>2. Without(list, C) = h[Len(list)]
  BY DEF Without, IsKept
<1> HIDE DEF h
<1> DEFINE Good(i) == h[i] \in Seq(S) /\ Range(h[i]) = {list[j] : j \in 1 .. i} \ C
           T == {i \in 0 .. Len(list) : ~ Good(i)}
<1>3. T = {}
  <2>1. SUFFICES ASSUME T # {} PROVE FALSE
    OBVIOUS
  <2>2. PICK m \in T : \A y \in T : m <= y
    <3>1. T \subseteq Nat
      OBVIOUS
    <3> HIDE DEF T
    <3> QED
      BY <2>1, <3>1, LeastExists
  <2>3. m \in 0 .. Len(list) /\ ~ Good(m)
    BY <2>2
  <2>4. m # 0
    <3>1. h[0] = << >>
      BY <1>1 DEF IsKept
    <3>2. Good(0)
      BY <3>1 DEF Range
    <3> QED
      BY <2>3, <3>2
  <2>5. Good(m - 1)
    <3>1. m - 1 \in 0 .. Len(list) /\ ~ (m <= m - 1)
      BY <2>3, <2>4
    <3>2. m - 1 \notin T
      BY <2>2, <3>1
    <3> QED
      BY <3>1, <3>2
  <2>6. list[m] \in S
    BY <2>3, <2>4
  <2>7. h[m] = IF list[m] \in C THEN h[m - 1] ELSE Append(h[m - 1], list[m])
    BY <1>1, <2>3, <2>4 DEF IsKept
  <2>8. {list[j] : j \in 1 .. m} = {list[j] : j \in 1 .. m - 1} \cup {list[m]}
    BY <2>3, <2>4
  <2>9. CASE list[m] \in C
    BY <2>3, <2>5, <2>7, <2>8, <2>9
  <2>10. CASE list[m] \notin C
    <3>1. h[m] = Append(h[m - 1], list[m])
      BY <2>7, <2>10
    <3>2. Range(h[m]) = Range(h[m - 1]) \cup {list[m]}
      BY <2>5, <2>6, <3>1, RangeOfAppend
    <3>3. h[m] \in Seq(S)
      BY <2>5, <2>6, <3>1
    <3> QED
      BY <2>3, <2>5, <2>8, <2>10, <3>2, <3>3
  <2> QED
    BY <2>9, <2>10
<1>4. Good(Len(list))
  <2>1. Len(list) \in 0 .. Len(list)
    OBVIOUS
  <2> QED
    BY <1>3, <2>1
<1>5. Range(list) = {list[j] : j \in 1 .. Len(list)}
  BY DEF Range
<1> QED
  BY <1>2, <1>4, <1>5

-----------------------------------------------------------------------------
\* DrawnAll.

IsDrawn(h, screen, frames, n) ==
    h = [i \in 0 .. n |->
            IF i = 0 THEN screen ELSE Drawn(h[i - 1], frames[i])]

LEMMA DrawnExists ==
    ASSUME NEW S, NEW frames \in Seq(S), NEW screen
    PROVE  \E h : IsDrawn(h, screen, frames, Len(frames))
<1> DEFINE T == {n \in 0 .. Len(frames) : ~ \E h : IsDrawn(h, screen, frames, n)}
<1>0. Len(frames) \in Nat /\ Len(frames) \in 0 .. Len(frames)
  OBVIOUS
<1>1. SUFFICES T = {}
  BY <1>0
<1>2. SUFFICES ASSUME T # {} PROVE FALSE
  OBVIOUS
<1>3. PICK n \in T : \A y \in T : n <= y
  <2>1. T \subseteq Nat
    OBVIOUS
  <2> HIDE DEF T
  <2> QED
    BY <1>2, <2>1, LeastExists
<1>4. n \in 0 .. Len(frames) /\ ~ \E h : IsDrawn(h, screen, frames, n)
  BY <1>3
<1>5. n # 0
  <2>1. IsDrawn([i \in 0 .. 0 |-> screen], screen, frames, 0)
    BY DEF IsDrawn
  <2> QED
    BY <1>4, <2>1
<1>6. PICK h : IsDrawn(h, screen, frames, n - 1)
  BY <1>3, <1>4, <1>5
<1> DEFINE g == [i \in 0 .. n |-> IF i < n THEN h[i] ELSE Drawn(h[i - 1], frames[i])]
<1>7. IsDrawn(g, screen, frames, n)
  <2>1. \A i \in 0 .. n - 1 : h[i] = IF i = 0 THEN screen ELSE Drawn(h[i - 1], frames[i])
    BY <1>6 DEF IsDrawn
  <2>2. \A i \in 0 .. n : g[i] = IF i = 0 THEN screen ELSE Drawn(g[i - 1], frames[i])
    BY <1>4, <1>5, <2>1
  <2> QED
    BY <2>2 DEF IsDrawn
<1> QED
  BY <1>4, <1>7

\* DrawnAll is the end of any run.
LEMMA DrawnAllIs ==
    ASSUME NEW S, NEW frames \in Seq(S), NEW screen, NEW g,
           IsDrawn(g, screen, frames, Len(frames))
    PROVE  DrawnAll(screen, frames) = g[Len(frames)]
<1> DEFINE f == CHOOSE h : IsDrawn(h, screen, frames, Len(frames))
           T == {i \in 0 .. Len(frames) : f[i] # g[i]}
<1>1. IsDrawn(f, screen, frames, Len(frames))
  OBVIOUS
<1>2. DrawnAll(screen, frames) = f[Len(frames)]
  BY DEF DrawnAll, IsDrawn
<1> HIDE DEF f
<1>3. T = {}
  <2>1. SUFFICES ASSUME T # {} PROVE FALSE
    OBVIOUS
  <2>2. PICK m \in T : \A y \in T : m <= y
    <3>1. T \subseteq Nat
      OBVIOUS
    <3> HIDE DEF T
    <3> QED
      BY <2>1, <3>1, LeastExists
  <2>3. f[m] # g[m] /\ m \in 0 .. Len(frames)
    BY <2>2
  <2>4. m = 0 => f[m] = screen /\ g[m] = screen
    BY <1>1, <2>3 DEF IsDrawn
  <2>5. m # 0 => f[m - 1] = g[m - 1]
    BY <2>2
  <2>6. m # 0 => f[m] = Drawn(f[m - 1], frames[m]) /\ g[m] = Drawn(g[m - 1], frames[m])
    BY <1>1, <2>3 DEF IsDrawn
  <2> QED
    BY <2>3, <2>4, <2>5, <2>6
<1>4. Len(frames) \in 0 .. Len(frames)
  OBVIOUS
<1> QED
  BY <1>2, <1>3, <1>4

\* Frames are drawn one after the other.
LEMMA DrawnConcat ==
    ASSUME NEW S, NEW q \in Seq(S), NEW r \in Seq(S), NEW screen
    PROVE  DrawnAll(screen, q \o r) = DrawnAll(DrawnAll(screen, q), r)
<1>1. PICK h : IsDrawn(h, screen, q, Len(q))
  BY DrawnExists
<1>2. PICK g : IsDrawn(g, h[Len(q)], r, Len(r))
  BY DrawnExists
<1>3. /\ q \o r \in Seq(S) /\ Len(q \o r) = Len(q) + Len(r)
      /\ Len(q) \in Nat /\ Len(r) \in Nat
      /\ \A i \in 1 .. Len(q) + Len(r) :
            (q \o r)[i] = IF i <= Len(q) THEN q[i] ELSE r[i - Len(q)]
  BY ConcatProperties
<1> DEFINE k == [i \in 0 .. Len(q) + Len(r) |-> IF i <= Len(q) THEN h[i] ELSE g[i - Len(q)]]
<1>4. /\ h[0] = screen /\ \A i \in 1 .. Len(q) : h[i] = Drawn(h[i - 1], q[i])
      /\ g[0] = h[Len(q)] /\ \A i \in 1 .. Len(r) : g[i] = Drawn(g[i - 1], r[i])
  <2>1. h[0] = screen /\ \A i \in 1 .. Len(q) : h[i] = Drawn(h[i - 1], q[i])
    BY <1>1, <1>3 DEF IsDrawn
  <2>2. g[0] = h[Len(q)] /\ \A i \in 1 .. Len(r) : g[i] = Drawn(g[i - 1], r[i])
    BY <1>2, <1>3 DEF IsDrawn
  <2> QED
    BY <2>1, <2>2
<1>5. \A i \in 0 .. Len(q) + Len(r) :
         k[i] = IF i = 0 THEN screen ELSE Drawn(k[i - 1], (q \o r)[i])
  <2> TAKE i \in 0 .. Len(q) + Len(r)
  <2>1. CASE i = 0
    BY <1>3, <1>4, <2>1
  <2>2. CASE i \in 1 .. Len(q)
    BY <1>3, <1>4, <2>2
  <2>3. CASE i = Len(q) + 1
    BY <1>3, <1>4, <2>3
  <2>4. CASE i > Len(q) + 1
    <3>1. i - Len(q) \in 1 .. Len(r) /\ (i - Len(q)) - 1 = (i - 1) - Len(q)
      BY <1>3, <2>4
    <3>2. k[i] = g[i - Len(q)] /\ k[i - 1] = g[(i - 1) - Len(q)]
      BY <1>3, <2>4
    <3>3. (q \o r)[i] = r[i - Len(q)] /\ i # 0
      BY <1>3, <2>4
    <3> QED
      BY <1>4, <3>1, <3>2, <3>3
  <2> QED
    BY <1>3, <2>1, <2>2, <2>3, <2>4
<1>6. IsDrawn(k, screen, q \o r, Len(q \o r))
  BY <1>3, <1>5 DEF IsDrawn
<1>7. k[Len(q \o r)] = g[Len(r)]
  BY <1>3, <1>4
<1> HIDE DEF k
<1>8. DrawnAll(screen, q \o r) = g[Len(r)]
  BY <1>3, <1>6, <1>7, DrawnAllIs
<1>9. DrawnAll(screen, q) = h[Len(q)] /\ DrawnAll(h[Len(q)], r) = g[Len(r)]
  BY <1>1, <1>2, DrawnAllIs
<1> QED
  BY <1>8, <1>9

LEMMA DrawnAppend ==
    ASSUME NEW S, NEW q \in Seq(S), NEW f \in S, NEW screen
    PROVE  DrawnAll(screen, Append(q, f)) = Drawn(DrawnAll(screen, q), f)
<1>1. Append(q, f) = q \o <<f>> /\ <<f>> \in Seq(S) /\ Len(<<f>>) = 1
  BY AppendIsConcat
<1> DEFINE x == DrawnAll(screen, q)
           h == [i \in 0 .. 1 |-> IF i = 0 THEN x ELSE Drawn(x, f)]
<1> HIDE DEF x
<1>2. IsDrawn(h, x, <<f>>, 1)
  BY DEF IsDrawn
<1>3. DrawnAll(x, <<f>>) = h[1]
  BY <1>1, <1>2, DrawnAllIs
<1>4. DrawnAll(screen, q \o <<f>>) = DrawnAll(x, <<f>>)
  BY <1>1, DrawnConcat DEF x
<1> QED
  BY <1>1, <1>3, <1>4 DEF x

\* Frames that draw nothing.
Quiet(f) == f.tag \notin {"Output", "Replay"}

LEMMA DrawnQuiet ==
    ASSUME NEW S, NEW r \in Seq(S), \A i \in 1 .. Len(r) : Quiet(r[i]), NEW screen
    PROVE  DrawnAll(screen, r) = screen
<1> DEFINE h == [i \in 0 .. Len(r) |-> screen]
<1>1. \A i \in 1 .. Len(r) : Drawn(screen, r[i]) = screen
  BY DEF Quiet, Drawn
<1>2. IsDrawn(h, screen, r, Len(r))
  <2>1. \A i \in 0 .. Len(r) : h[i] = IF i = 0 THEN screen ELSE Drawn(h[i - 1], r[i])
    BY <1>1
  <2> QED
    BY <2>1 DEF IsDrawn
<1>3. DrawnAll(screen, r) = h[Len(r)]
  BY <1>2, DrawnAllIs
<1> QED
  BY <1>3

LEMMA DrawnNothing == \A screen : DrawnAll(screen, << >>) = screen
<1> TAKE screen
<1>1. << >> \in Seq({0}) /\ Len(<< >>) = 0
  OBVIOUS
<1>2. \A i \in 1 .. Len(<< >>) : Quiet(<< >>[i])
  BY <1>1
<1> QED
  BY <1>1, <1>2, DrawnQuiet

-----------------------------------------------------------------------------
\* The types of everything.

Size == Nat \X Nat

ToClient ==
    [tag : {"Output", "Replay"}, chunk : Nat] \cup [tag : {"Exit"}, code : Int]
      \cup [tag : {"Reply"}]

FromClient ==
    [tag : {"Init", "Resize"}, size : Size]
      \cup [tag : {"Detach", "DetachAll", "Kill", "Request"}]

Ending == {"farewell", "gone"}

DaemonType ==
    /\ phase \in {"top", "poll", "pty", "clients", "teardown"} \cup Ending
    /\ sigterm \in BOOLEAN /\ stale \in BOOLEAN
    /\ term \in Nat /\ pty \in Size
    /\ clients \in Seq(Clients)
    /\ size \in [Clients -> Size]
    /\ wbuf \in [Clients -> Seq(ToClient)]
    /\ readable \subseteq Clients /\ writable \subseteq Clients

ShellType == shell \in {"running", "exited"} /\ written \in Nat

ClientType ==
    /\ proc \in [Clients -> {"off", "attached", "command", "left"}]
    /\ open \in [Clients -> BOOLEAN]
    /\ inq \in [Clients -> Seq(FromClient)]
    /\ sock \in [Clients -> Seq(ToClient)]
    /\ shown \in [Clients -> Int]
    /\ inited \in [Clients -> BOOLEAN]
    /\ code \in [Clients -> Int]
    /\ sends \in Nat

TypeOK == DaemonType /\ ShellType /\ ClientType

-----------------------------------------------------------------------------
\* The parts of the inductive invariant, for one client.

\* The daemon knows only clients that run or ran, its records of one go when
\* the client is dropped, and an exit code is heard only at the end.
Connected(c) ==
    /\ c \in Range(clients) \/ open[c] \/ inited[c] => proc[c] # "off"
    /\ inited[c] => c \in Range(clients) \/ phase = "gone"
    /\ size[c] # Unreported => c \in Range(clients) \/ phase = "gone"
    /\ code[c] # NoCode => proc[c] = "left"
    /\ code[c] \notin {NoCode, 0} => phase \in Ending

\* Only posh kill sends a Kill.
KillsAlone(c) ==
    \A i \in 1 .. Len(inq[c]) :
        inq[c][i].tag = "Kill" => proc[c] # "attached" /\ code[c] = NoCode

\* Nothing is queued behind an Exit.
ExitEnds(c) ==
    /\ \A i \in 1 .. Len(wbuf[c]) :
          wbuf[c][i].tag = "Exit" => phase \in Ending /\ i = Len(wbuf[c])
    /\ \A i \in 1 .. Len(sock[c]) :
          sock[c][i].tag = "Exit"
            => phase \in Ending /\ i = Len(sock[c]) /\ wbuf[c] = << >>
    /\ phase = "farewell" /\ c \in writable => wbuf[c] # << >>

\* Without output there is nothing to draw, and an Init is not answered.
NothingYet(c) ==
    term = 0 => /\ shown[c] = 0
                /\ \A i \in 1 .. Len(wbuf[c]) : Quiet(wbuf[c][i])
                /\ \A i \in 1 .. Len(sock[c]) : Quiet(sock[c][i])

\* What is queued completes the client's screen, also once the daemon is gone.
Mirrors(c) ==
    proc[c] = "attached" /\ inited[c] /\ ~ AwaitsReplay(c)
        => DrawnAll(shown[c], sock[c] \o wbuf[c]) = term

Finished(c) ==
    code[c] \notin {NoCode, 0} /\ inited[c] /\ ~ AwaitsReplay(c)
        => shown[c] = term

ClientInv(c) ==
    /\ Connected(c) /\ KillsAlone(c) /\ ExitEnds(c)
    /\ NothingYet(c) /\ Mirrors(c) /\ Finished(c)

IInv == TypeOK /\ PtyIsSmallestClient /\ \A c \in Clients : ClientInv(c)

-----------------------------------------------------------------------------
\* Frames are what they are typed to be.

LEMMA FramesTyped ==
    /\ \A n \in Nat : Output(n) \in ToClient /\ Replay(n) \in ToClient
    /\ \A n \in Int : Exit(n) \in ToClient
    /\ Frame("Reply") \in ToClient
    /\ \A z \in Size : InitFrame(z) \in FromClient /\ ResizeFrame(z) \in FromClient
    /\ \A t \in {"Detach", "DetachAll", "Kill", "Request"} : Frame(t) \in FromClient
  BY DEF Output, Replay, Exit, Frame, InitFrame, ResizeFrame, ToClient, FromClient

LEMMA DrawnType ==
    ASSUME NEW frames \in Seq(ToClient), NEW screen \in Int
    PROVE  DrawnAll(screen, frames) \in Int
<1>1. PICK h : IsDrawn(h, screen, frames, Len(frames))
  BY DrawnExists
<1> DEFINE T == {i \in 0 .. Len(frames) : h[i] \notin Int}
<1>2. T = {}
  <2>1. SUFFICES ASSUME T # {} PROVE FALSE
    OBVIOUS
  <2>2. PICK m \in T : \A y \in T : m <= y
    <3>1. T \subseteq Nat
      OBVIOUS
    <3> HIDE DEF T
    <3> QED
      BY <2>1, <3>1, LeastExists
  <2>3. h[m] \notin Int /\ m \in 0 .. Len(frames)
    BY <2>2
  <2>4. m # 0
    BY <1>1, <2>3 DEF IsDrawn
  <2>5. h[m - 1] \in Int
    <3>1. m - 1 \in 0 .. Len(frames) /\ ~ (m <= m - 1)
      BY <2>3, <2>4
    <3> QED
      BY <2>2, <3>1
  <2>6. h[m] = Drawn(h[m - 1], frames[m])
    BY <1>1, <2>3, <2>4 DEF IsDrawn
  <2>7. frames[m] \in ToClient
    BY <2>3, <2>4
  <2>8. Drawn(h[m - 1], frames[m]) \in Int
    BY <2>5, <2>7 DEF Drawn, ToClient, Torn
  <2> QED
    BY <2>3, <2>6, <2>8
<1>3. h[Len(frames)] \in Int
  <2>1. Len(frames) \in 0 .. Len(frames)
    OBVIOUS
  <2> QED
    BY <1>2, <2>1
<1>4. DrawnAll(screen, frames) = h[Len(frames)]
  BY <1>1, DrawnAllIs
<1> QED
  BY <1>3, <1>4

\* What the loop over the frames of one read takes from them.
LEMMA TakenIs ==
    ASSUME NEW s \in Size, NEW frames \in Seq(FromClient)
    PROVE  LET b == Taken(s, frames)
           IN  /\ b.size \in Size /\ b.queue \in Seq({Frame("Reply")})
               /\ {b.resized, b.init, b.remove, b.all, b.kill} \subseteq BOOLEAN
               /\ ~ b.resized => b.size = s
               /\ b.kill => \E i \in 1 .. Len(frames) : frames[i].tag = "Kill"
               /\ ~ (b.remove \/ b.all \/ b.kill)
                    => (b.init <=> \E i \in 1 .. Len(frames) : frames[i].tag = "Init")
<1> DEFINE With(tags, n) == {i \in 1 .. n : frames[i].tag \in tags}
           ends == With({"Detach", "DetachAll", "Kill"}, Len(frames))
           last == IF ends = {} THEN "none" ELSE frames[Least(ends)].tag
           upto == IF ends = {} THEN Len(frames) ELSE Least(ends)
           sizes == With({"Init", "Resize"}, upto)
           asks == Cardinality(With({"Request"}, upto))
           b == Taken(s, frames)
<1>1. b = [size    |-> IF sizes = {} THEN s ELSE frames[Greatest(sizes)].size,
           resized |-> sizes # {},
           init    |-> With({"Init"}, upto) # {},
           remove  |-> last = "Detach",
           all     |-> last = "DetachAll",
           kill    |-> last = "Kill",
           queue   |-> [i \in 1 .. asks |-> Frame("Reply")]]
  BY DEF Taken
<1> HIDE DEF b
<1>2. Len(frames) \in Nat /\ \A i \in 1 .. Len(frames) : frames[i] \in FromClient
  OBVIOUS
<1>3. ends # {} => Least(ends) \in ends
  <2>1. ends \subseteq Nat
    OBVIOUS
  <2> HIDE DEF ends
  <2> QED
    BY <2>1, LeastIs
<1>4. upto \in 0 .. Len(frames)
  BY <1>2, <1>3
<1>5. /\ last \in {"none", "Detach", "DetachAll", "Kill"}
      /\ ends # {} => last # "none"
      /\ last = "Kill" => \E i \in 1 .. Len(frames) : frames[i].tag = "Kill"
  BY <1>3
<1>6. ends = {} => upto = Len(frames)
  OBVIOUS
<1> HIDE DEF ends, last, upto
<1>7. sizes # {} => frames[Greatest(sizes)].size \in Size
  <2>1. sizes \subseteq 1 .. upto /\ upto \in Nat
    BY <1>2, <1>4
  <2>2. sizes # {} => Greatest(sizes) \in sizes
    <3> HIDE DEF sizes
    <3> QED
      BY <2>1, GreatestIs
  <2>3. \A i \in sizes : frames[i] \in FromClient /\ frames[i].tag \in {"Init", "Resize"}
    BY <1>2, <1>4
  <2>4. \A f \in FromClient : f.tag \in {"Init", "Resize"} => f.size \in Size
    BY DEF FromClient
  <2> HIDE DEF sizes
  <2> QED
    BY <2>2, <2>3, <2>4
<1>8. asks \in Nat
  <2>1. IsFiniteSet(1 .. upto)
    BY <1>2, <1>4, FS_Interval
  <2>2. IsFiniteSet(With({"Request"}, upto))
    BY <2>1, FS_Subset
  <2> QED
    BY <2>2, FS_CardinalityType
<1> HIDE DEF asks
<1>9. [i \in 1 .. asks |-> Frame("Reply")] \in Seq({Frame("Reply")})
  BY <1>8
<1>10. With({"Init"}, Len(frames)) # {} <=> \E i \in 1 .. Len(frames) : frames[i].tag = "Init"
  OBVIOUS
<1> HIDE DEF With, sizes
<1>11. b.size \in Size /\ b.queue \in Seq({Frame("Reply")}) /\ (~ b.resized => b.size = s)
  BY <1>1, <1>7, <1>9
<1>12. {b.resized, b.init, b.remove, b.all, b.kill} \subseteq BOOLEAN
  BY <1>1
<1>13. b.kill => \E i \in 1 .. Len(frames) : frames[i].tag = "Kill"
  BY <1>1, <1>5
<1>14. ~ (b.remove \/ b.all \/ b.kill)
         => (b.init <=> \E i \in 1 .. Len(frames) : frames[i].tag = "Init")
  BY <1>1, <1>5, <1>6, <1>10
<1> QED
  BY <1>11, <1>12, <1>13, <1>14 DEF b

-----------------------------------------------------------------------------
LEMMA InitIInv == Init => IInv
<1> SUFFICES ASSUME Init PROVE IInv
  OBVIOUS
<1>1. Unreported \in Size
  BY DEF Unreported, Size
<1>2. /\ \A S : << >> \in Seq(S)
      /\ Len(<< >>) = 0 /\ Range(<< >>) = {}
  BY DEF Range
<1>3. DaemonType
  BY <1>1, <1>2, DaemonAssumption DEF Init, DaemonType, Size
<1>4. ShellType /\ ClientType
  BY <1>2 DEF Init, ShellType, ClientType, NoCode
<1>5. PtyIsSmallestClient
  BY <1>2 DEF Init, PtyIsSmallestClient, Reported, Applied
<1>6. ASSUME NEW c \in Clients PROVE ClientInv(c)
  BY <1>2, <1>6 DEF Init, ClientInv, Connected, KillsAlone, ExitEnds, NothingYet, Mirrors,
                    Finished
<1> QED
  BY <1>3, <1>4, <1>5, <1>6 DEF IInv, TypeOK

-----------------------------------------------------------------------------
\* What a step leaves alone.

\* A client that a step does not concern.
Same(c) ==
    /\ size'[c] = size[c] /\ wbuf'[c] = wbuf[c] /\ proc'[c] = proc[c]
    /\ inq'[c] = inq[c] /\ sock'[c] = sock[c]
    /\ shown'[c] = shown[c] /\ inited'[c] = inited[c] /\ code'[c] = code[c]
    /\ open'[c] => open[c]
    /\ c \in Range(clients') => c \in Range(clients) \/ open[c]
    /\ c \in Range(clients) => c \in Range(clients') \/ phase' = "gone"

\* The daemon comes no nearer to its end than it was, or does without a client
\* that is owed nothing.
PhaseGoesOn(c) ==
    /\ phase \in Ending => phase' \in Ending
    /\ phase = "gone" => phase' = "gone"
    /\ phase' = "farewell" /\ c \in writable' => phase = "farewell" /\ c \in writable

LEMMA Untouched ==
    ASSUME NEW c \in Clients, ClientInv(c), Same(c), PhaseGoesOn(c), term' = term
    PROVE  ClientInv(c)'
<1>1. Connected(c)'
  BY DEF ClientInv, Connected, Same, PhaseGoesOn
<1>2. KillsAlone(c)'
  BY DEF ClientInv, KillsAlone, Same
<1>3. ExitEnds(c)'
  BY DEF ClientInv, ExitEnds, Same, PhaseGoesOn
<1>4. NothingYet(c)'
  BY DEF ClientInv, NothingYet, Same
<1>5. Mirrors(c)'
  BY DEF ClientInv, Mirrors, Same, AwaitsReplay
<1>6. Finished(c)'
  BY DEF ClientInv, Finished, Same, AwaitsReplay
<1> QED
  BY <1>1, <1>2, <1>3, <1>4, <1>5, <1>6 DEF ClientInv

\* Clients, their sizes and the pty are as they were.
LEMMA PtyUntouched ==
    ASSUME PtyIsSmallestClient, UNCHANGED <<pty, clients, size, stale>>,
           Serving' => Serving
    PROVE  PtyIsSmallestClient'
  BY DEF PtyIsSmallestClient, Reported, Applied, MinClientSize

\* The shell's steps, the signal, and the daemon's changes of phase alone.
LEMMA PhaseSteps ==
    ASSUME IInv,
           \/ ShellWrites \/ ShellExits \/ SigtermArrives \/ Sigterm \/ PtyEof
           \/ UNCHANGED vars
    PROVE  IInv'
<1>1. /\ UNCHANGED <<pty, clients, size, stale, wbuf, term, readable, writable, clientVars>>
      /\ \/ phase' = phase
         \/ phase' \in {"top", "teardown"} /\ phase \notin {"teardown", "farewell", "gone"}
      /\ sigterm' \in {sigterm, TRUE}
  BY DEF ShellWrites, ShellExits, SigtermArrives, Sigterm, PtyEof, vars, daemonVars, polled
<1>2. TypeOK'
  <2>1. ShellType'
    BY DEF ShellWrites, ShellExits, SigtermArrives, Sigterm, PtyEof, vars, shellVars,
           IInv, TypeOK, ShellType
  <2>2. DaemonType' /\ ClientType'
    BY <1>1 DEF clientVars, IInv, TypeOK, DaemonType, ClientType, Ending
  <2> QED
    BY <2>1, <2>2 DEF TypeOK
<1>3. PtyIsSmallestClient'
  <2>1. Serving' => Serving
    BY <1>1 DEF Serving
  <2> QED
    BY <1>1, <2>1, PtyUntouched DEF IInv
<1>4. ASSUME NEW c \in Clients PROVE ClientInv(c)'
  <2>1. Same(c) /\ term' = term
    BY <1>1 DEF Same, clientVars
  <2>2. PhaseGoesOn(c)
    BY <1>1 DEF PhaseGoesOn, Ending
  <2> QED
    BY <1>4, <2>1, <2>2, Untouched DEF IInv
<1> QED
  BY <1>2, <1>3, <1>4 DEF IInv

-----------------------------------------------------------------------------
\* A queue, of which the first n frames are taken.
LEMMA SplitAt ==
    ASSUME NEW S, NEW q \in Seq(S), NEW n \in 0 .. Len(q)
    PROVE  LET q1 == SubSeq(q, 1, n)
               q2 == SubSeq(q, n + 1, Len(q))
           IN  /\ q1 \in Seq(S) /\ Len(q1) = n
               /\ \A i \in 1 .. n : q1[i] = q[i]
               /\ q2 \in Seq(S) /\ Len(q2) = Len(q) - n
               /\ \A i \in 1 .. Len(q) - n : q2[i] = q[n + i]
               /\ q1 \o q2 = q
<1>1. Len(q) \in Nat /\ n \in Nat /\ \A i \in 1 .. Len(q) : q[i] \in S
  OBVIOUS
<1>2. /\ SubSeq(q, 1, n) \in Seq(S) /\ Len(SubSeq(q, 1, n)) = n
      /\ \A i \in 1 .. n : SubSeq(q, 1, n)[i] = q[i]
  <2>1. \A i \in 1 .. n : q[i] \in S
    BY <1>1
  <2> QED
    BY <1>1, <2>1, SubSeqProperties
<1>3. /\ SubSeq(q, n + 1, Len(q)) \in Seq(S)
      /\ Len(SubSeq(q, n + 1, Len(q))) = Len(q) - n
      /\ \A i \in 1 .. Len(q) - n : SubSeq(q, n + 1, Len(q))[i] = q[n + i]
  BY <1>1
<1>4. SubSeq(q, 1, n) \o SubSeq(q, n + 1, Len(q)) = SubSeq(q, 1, Len(q))
  <2>1. 1 \in 1 .. Len(q) + 1 /\ n \in 1 - 1 .. Len(q) /\ Len(q) \in n .. Len(q)
    BY <1>1
  <2> QED
    BY <2>1, ConcatAdjacentSubSeq
<1>5. SubSeq(q, 1, Len(q)) = q
  BY SubSeqFull
<1> QED
  BY <1>2, <1>3, <1>4, <1>5

LEMMA ConcatAppend ==
    ASSUME NEW S, NEW q \in Seq(S), NEW r \in Seq(S), NEW f \in S
    PROVE  q \o Append(r, f) = Append(q \o r, f)
<1>1. Append(r, f) = r \o <<f>> /\ <<f>> \in Seq(S) /\ q \o r \in Seq(S)
  BY AppendIsConcat
<1>2. Append(q \o r, f) = (q \o r) \o <<f>>
  BY <1>1, AppendIsConcat
<1> QED
  BY <1>1, <1>2, ConcatAssociative

\* Concatenation, without what the provers know of sequences.
Cat(a, b) == a \o b

LEMMA CatAssociative ==
    \A a, b, d \in Seq(ToClient) :
        Cat(Cat(a, b), d) = Cat(a, Cat(b, d)) /\ Cat(a, b) \in Seq(ToClient)
<1> DEFINE S == ToClient
<1> HIDE DEF S
<1>1. ASSUME NEW a \in Seq(S), NEW b \in Seq(S), NEW d \in Seq(S)
      PROVE  Cat(Cat(a, b), d) = Cat(a, Cat(b, d)) /\ Cat(a, b) \in Seq(S)
  <2>1. a \o b \in Seq(S)
    BY ONLY a \in Seq(S), b \in Seq(S), ConcatProperties
  <2>2. (a \o b) \o d = a \o (b \o d)
    BY ONLY a \in Seq(S), b \in Seq(S), d \in Seq(S), ConcatAssociative
  <2> QED
    BY ONLY <2>1, <2>2, Zenon DEF Cat
<1> QED
  BY <1>1, Zenon DEF S

-----------------------------------------------------------------------------
\* The clients' steps.

\* A step of client c concerns no other client, nor the daemon.
ClientStep(c) ==
    /\ UNCHANGED <<daemonVars, shellVars>>
    /\ \A d \in Clients \ {c} : Same(d)

LEMMA ClientStepIs ==
    ASSUME IInv, NEW c \in Clients, ClientStep(c), ClientType', ClientInv(c)'
    PROVE  IInv'
<1>1. UNCHANGED <<phase, sigterm, term, pty, clients, size, wbuf, readable, writable, stale,
                  shell, written>>
  BY DEF ClientStep, daemonVars, shellVars, polled
<1>2. TypeOK'
  BY <1>1 DEF IInv, TypeOK, DaemonType, ShellType, Ending
<1>3. PtyIsSmallestClient'
  BY <1>1, PtyUntouched DEF IInv, Serving
<1>4. ASSUME NEW d \in Clients PROVE ClientInv(d)'
  <2>1. CASE d = c
    BY <2>1
  <2>2. CASE d # c
    <3>1. Same(d) /\ PhaseGoesOn(d) /\ ClientInv(d)
      BY <1>1, <1>4, <2>2 DEF ClientStep, PhaseGoesOn, IInv
    <3> QED
      BY <1>1, <1>4, <3>1, Untouched
  <2> QED
    BY <2>1, <2>2
<1> QED
  BY <1>2, <1>3, <1>4 DEF IInv

LEMMA ConnectsStep ==
    ASSUME IInv, NEW c \in Clients, NEW kind \in {"attached", "command"},
           NEW f \in FromClient, f.tag = "Kill" => kind = "command",
           Connects(c, kind, f)
    PROVE  IInv'
<1>1. ClientType /\ ClientInv(c)
  BY DEF IInv, TypeOK
<1>2. /\ UNCHANGED <<daemonVars, shellVars, sock, shown, inited, code, sends>>
      /\ proc[c] = "off"
      /\ proc' = [proc EXCEPT ![c] = kind]
      /\ open' = [open EXCEPT ![c] = TRUE]
      /\ inq' = [inq EXCEPT ![c] = <<f>>]
  BY DEF Connects
<1>3. UNCHANGED <<phase, term, clients, size, wbuf, writable>>
  BY <1>2 DEF daemonVars, polled
<1>4. <<f>> \in Seq(FromClient) /\ Len(<<f>>) = 1 /\ <<f>>[1] = f
  OBVIOUS
<1>5. ClientType'
  BY <1>1, <1>2, <1>4 DEF ClientType
<1>6. ClientStep(c)
  BY <1>1, <1>2, <1>3 DEF ClientStep, Same, ClientType
<1>7. proc'[c] = kind /\ inq'[c] = <<f>>
  BY <1>1, <1>2 DEF ClientType
<1>8. code[c] = NoCode /\ ~ inited[c]
  BY <1>1, <1>2 DEF ClientInv, Connected
<1>9. Connected(c)' /\ KillsAlone(c)'
  BY <1>1, <1>2, <1>3, <1>4, <1>7, <1>8 DEF ClientInv, Connected, KillsAlone
<1>10. ExitEnds(c)' /\ NothingYet(c)' /\ Mirrors(c)' /\ Finished(c)'
  BY <1>1, <1>2, <1>3, <1>8 DEF ClientInv, ExitEnds, NothingYet, Mirrors, Finished
<1> QED
  BY <1>5, <1>6, <1>9, <1>10, ClientStepIs DEF ClientInv

\* A frame sent by an attached client: an Init is sent from a blank terminal.
LEMMA SendsStep ==
    ASSUME IInv, NEW c \in Clients, NEW f \in FromClient,
           \/ f.tag \in {"Resize", "Detach"} /\ ClientSends(c, f)
           \/ \E z \in Sizes : f = InitFrame(z) /\ ClientResumes(c, z)
    PROVE  IInv'
<1>1. ClientType /\ ClientInv(c)
  BY DEF IInv, TypeOK
<1>2. /\ UNCHANGED <<daemonVars, shellVars, proc, open, sock, inited, code>>
      /\ proc[c] = "attached"
      /\ inq' = [inq EXCEPT ![c] = Append(@, f)]
      /\ sends' = sends + 1
      /\ shown' \in {shown, [shown EXCEPT ![c] = 0]}
  BY DEF ClientSends, ClientResumes
<1>3. UNCHANGED <<phase, term, clients, size, wbuf, writable>>
  BY <1>2 DEF daemonVars, polled
<1>4. inq[c] \in Seq(FromClient)
  BY <1>1 DEF ClientType
<1>5. /\ Append(inq[c], f) \in Seq(FromClient)
      /\ Len(Append(inq[c], f)) = Len(inq[c]) + 1 /\ Len(inq[c]) \in Nat
      /\ \A i \in 1 .. Len(inq[c]) : Append(inq[c], f)[i] = inq[c][i]
      /\ Append(inq[c], f)[Len(inq[c]) + 1] = f
  BY <1>4
<1>6. inq'[c] = Append(inq[c], f)
  BY <1>1, <1>2 DEF ClientType
<1>7. ClientType'
  BY <1>1, <1>2, <1>5 DEF ClientType
<1>8. ClientStep(c)
  BY <1>1, <1>2, <1>3 DEF ClientStep, Same, ClientType
<1>9. f.tag # "Kill" /\ code[c] = NoCode
  BY <1>1, <1>2 DEF InitFrame, ClientInv, Connected
<1>10. KillsAlone(c)'
  BY <1>1, <1>2, <1>5, <1>6, <1>9 DEF ClientInv, KillsAlone
<1>11. Connected(c)' /\ ExitEnds(c)' /\ Finished(c)'
  BY <1>1, <1>2, <1>3, <1>9 DEF ClientInv, Connected, ExitEnds, Finished
<1>12. NothingYet(c)'
  BY <1>1, <1>2, <1>3 DEF ClientInv, NothingYet, ClientType
<1>13. Mirrors(c)'
  <2>1. CASE f.tag \in {"Resize", "Detach"} /\ ClientSends(c, f)
    <3>1. shown' = shown
      BY <2>1 DEF ClientSends
    <3>2. AwaitsReplay(c)' <=> AwaitsReplay(c)
      BY <1>5, <1>6, <2>1 DEF AwaitsReplay
    <3> QED
      BY <1>1, <1>2, <1>3, <3>1, <3>2 DEF ClientInv, Mirrors
  <2>2. CASE \E z \in Sizes : f = InitFrame(z) /\ ClientResumes(c, z)
    <3>1. f.tag = "Init"
      BY <2>2 DEF InitFrame
    <3>2. AwaitsReplay(c)'
      BY <1>5, <1>6, <3>1 DEF AwaitsReplay
    <3> QED
      BY <3>2 DEF Mirrors
  <2> QED
    BY <2>1, <2>2
<1> QED
  BY <1>7, <1>8, <1>10, <1>11, <1>12, <1>13, ClientStepIs DEF ClientInv

\* The client draws what it reads. With an Exit it has read everything.
LEMMA ReadsStep ==
    ASSUME IInv, NEW c \in Clients, NEW n \in Nat, ClientReads(c, n)
    PROVE  IInv'
<1> DEFINE got == SubSeq(sock[c], 1, n)
           rest == SubSeq(sock[c], n + 1, Len(sock[c]))
           exits == {i \in 1 .. n : got[i].tag = "Exit"}
<1>1. DaemonType /\ ClientType /\ ClientInv(c)
  BY DEF IInv, TypeOK
<1>2. /\ UNCHANGED <<daemonVars, shellVars, open, inq, inited, sends>>
      /\ proc[c] = "attached"
      /\ n \in 0 .. Len(sock[c])
      /\ shown' = [shown EXCEPT ![c] = DrawnAll(@, got)]
      /\ sock' = [sock EXCEPT ![c] = rest]
      /\ \/ UNCHANGED <<proc, code>>
         \/ /\ proc' = [proc EXCEPT ![c] = "left"]
            /\ \/ code' = [code EXCEPT ![c] = 0]
               \/ exits # {} /\ code' = [code EXCEPT ![c] = got[CHOOSE i \in exits : TRUE].code]
  <2>1. sock[c] \in Seq(ToClient)
    BY <1>1 DEF ClientType
  <2>2. n \in 0 .. Len(sock[c])
    <3>1. sock[c] = << >> => n = 0
      BY DEF ClientReads
    <3>2. sock[c] # << >> => n \in 1 .. Len(sock[c])
      BY DEF ClientReads
    <3> QED
      BY <2>1, <3>1, <3>2
  <2>3. \/ UNCHANGED <<proc, code>>
        \/ /\ proc' = [proc EXCEPT ![c] = "left"]
           /\ code' = [code EXCEPT ![c] = IF exits = {} THEN 0
                                          ELSE got[CHOOSE i \in exits : TRUE].code]
    BY DEF ClientReads
  <2>4. /\ UNCHANGED <<daemonVars, shellVars, open, inq, inited, sends>>
        /\ proc[c] = "attached"
        /\ shown' = [shown EXCEPT ![c] = DrawnAll(@, got)]
        /\ sock' = [sock EXCEPT ![c] = rest]
    BY DEF ClientReads
  <2> HIDE DEF got, rest, exits
  <2> QED
    BY <2>2, <2>3, <2>4
<1>3. UNCHANGED <<phase, term, clients, size, wbuf, writable>>
  BY <1>2 DEF daemonVars, polled
<1>4. sock[c] \in Seq(ToClient) /\ wbuf[c] \in Seq(ToClient) /\ shown[c] \in Int
      /\ Len(sock[c]) \in Nat
  BY <1>1 DEF DaemonType, ClientType
<1>5. /\ got \in Seq(ToClient) /\ Len(got) = n
      /\ \A i \in 1 .. n : got[i] = sock[c][i]
  BY <1>2, <1>4, SplitAt
<1>6. /\ rest \in Seq(ToClient) /\ Len(rest) = Len(sock[c]) - n
      /\ \A i \in 1 .. Len(sock[c]) - n : rest[i] = sock[c][n + i]
  BY <1>2, <1>4, SplitAt
<1>7. got \o rest = sock[c]
  BY <1>2, <1>4, SplitAt, ZenonT(60)
<1>8. sock'[c] = rest /\ shown'[c] = DrawnAll(shown[c], got)
  BY <1>1, <1>2 DEF ClientType
<1>9. exits # {} => /\ got[CHOOSE i \in exits : TRUE].code \in Int
                    /\ phase \in Ending /\ wbuf[c] = << >> /\ n = Len(sock[c])
  <2> SUFFICES ASSUME exits # {}
               PROVE  /\ got[CHOOSE i \in exits : TRUE].code \in Int
                      /\ phase \in Ending /\ wbuf[c] = << >> /\ n = Len(sock[c])
    OBVIOUS
  <2> DEFINE e == CHOOSE i \in exits : TRUE
  <2>1. e \in exits
    OBVIOUS
  <2> HIDE DEF e
  <2>2. e \in 1 .. n /\ got[e].tag = "Exit" /\ got[e] = sock[c][e]
    BY <1>5, <2>1
  <2>3. phase \in Ending /\ wbuf[c] = << >> /\ e = Len(sock[c])
    BY <1>1, <1>2, <1>4, <2>2 DEF ClientInv, ExitEnds
  <2>4. got[e] \in ToClient
    BY <1>5, <2>2
  <2>5. got[e].code \in Int
    BY <2>2, <2>4 DEF ToClient
  <2> QED
    <3>1. n = Len(sock[c])
      BY <1>2, <1>4, <2>2, <2>3
    <3> QED
      BY <2>3, <2>5, <3>1 DEF e
<1> HIDE DEF got, rest, exits
<1>10. DrawnAll(shown[c], got) \in Int
  BY <1>4, <1>5, DrawnType
<1>11. ClientType'
  <2>1. proc' \in [Clients -> {"off", "attached", "command", "left"}]
        /\ code' \in [Clients -> Int]
    <3> DEFINE x == got[CHOOSE i \in exits : TRUE].code
    <3>1. \/ UNCHANGED <<proc, code>>
          \/ /\ proc' = [proc EXCEPT ![c] = "left"]
             /\ \/ code' = [code EXCEPT ![c] = 0]
                \/ x \in Int /\ code' = [code EXCEPT ![c] = x]
      BY <1>2, <1>9
    <3> HIDE DEF x
    <3>2. CASE UNCHANGED <<proc, code>>
      BY <1>1, <3>2 DEF ClientType
    <3>3. CASE \E y \in Int : /\ proc' = [proc EXCEPT ![c] = "left"]
                             /\ code' = [code EXCEPT ![c] = y]
      BY <1>1, <3>3 DEF ClientType
    <3> QED
      BY <3>1, <3>2, <3>3
  <2> QED
    BY <1>1, <1>2, <1>6, <1>10, <2>1 DEF ClientType
<1>12. ClientStep(c)
  <2>1. \A d \in Clients \ {c} : /\ proc'[d] = proc[d] /\ code'[d] = code[d]
                                 /\ sock'[d] = sock[d] /\ shown'[d] = shown[d]
    BY <1>1, <1>2 DEF ClientType
  <2> QED
    BY <1>2, <1>3, <2>1 DEF ClientStep, Same
<1>13. code[c] = NoCode
  BY <1>1, <1>2 DEF ClientInv, Connected
<1>14. /\ code'[c] # NoCode => proc'[c] = "left"
       /\ code'[c] \notin {NoCode, 0} => exits # {}
       /\ proc'[c] \in {"attached", "left"}
  BY <1>1, <1>2, <1>13 DEF ClientType
<1>15. Connected(c)'
  BY <1>1, <1>2, <1>3, <1>9, <1>14 DEF ClientInv, Connected
<1>16. KillsAlone(c)'
  BY <1>1, <1>2 DEF ClientInv, KillsAlone
<1>17. ExitEnds(c)'
  <2>1. ASSUME NEW i \in 1 .. Len(rest), rest[i].tag = "Exit"
        PROVE  phase \in Ending /\ i = Len(rest) /\ wbuf[c] = << >>
    <3>1. n + i \in 1 .. Len(sock[c]) /\ sock[c][n + i].tag = "Exit" /\ i \in Nat /\ n \in Nat
      BY <1>2, <1>4, <1>6, <2>1
    <3>2. phase \in Ending /\ n + i = Len(sock[c]) /\ wbuf[c] = << >>
      BY <1>1, <3>1 DEF ClientInv, ExitEnds
    <3> QED
      BY <1>4, <1>6, <3>1, <3>2
  <2> QED
    BY <1>1, <1>3, <1>8, <2>1 DEF ClientInv, ExitEnds
<1>18. NothingYet(c)'
  <2> SUFFICES ASSUME term = 0
               PROVE  /\ shown'[c] = 0
                      /\ \A i \in 1 .. Len(wbuf[c]) : Quiet(wbuf[c][i])
                      /\ \A i \in 1 .. Len(rest) : Quiet(rest[i])
    BY <1>3, <1>8 DEF NothingYet
  <2>1. /\ shown[c] = 0
        /\ \A i \in 1 .. Len(wbuf[c]) : Quiet(wbuf[c][i])
        /\ \A i \in 1 .. Len(sock[c]) : Quiet(sock[c][i])
    BY <1>1 DEF ClientInv, NothingYet
  <2>2. \A i \in 1 .. Len(got) : Quiet(got[i])
    BY <1>2, <1>4, <1>5, <2>1
  <2>3. \A i \in 1 .. Len(rest) : Quiet(rest[i])
    BY <1>2, <1>4, <1>6, <2>1
  <2>4. DrawnAll(shown[c], got) = shown[c]
    BY <1>5, <2>2, DrawnQuiet
  <2> QED
    BY <1>8, <2>1, <2>3, <2>4
<1>19. inited[c] /\ ~ AwaitsReplay(c) => DrawnAll(shown'[c], rest \o wbuf[c]) = term
  <2>1. sock[c] \o wbuf[c] = got \o (rest \o wbuf[c]) /\ rest \o wbuf[c] \in Seq(ToClient)
    <3>1. (got \o rest) \o wbuf[c] = got \o (rest \o wbuf[c])
      <4>1. PICK w \in Seq(ToClient) : w = wbuf[c]
        BY <1>4
      <4>2. (got \o rest) \o w = got \o (rest \o w)
        <5>1. got \in Seq(ToClient) /\ rest \in Seq(ToClient) /\ w \in Seq(ToClient)
          BY <1>5, <1>6
        <5> QED
          BY ONLY <5>1, ConcatAssociative
      <4> QED
        BY <4>1, <4>2
    <3>2. rest \o wbuf[c] \in Seq(ToClient)
      BY <1>4, <1>6
    <3> QED
      BY <1>7, <3>1, <3>2
  <2>2. DrawnAll(shown[c], got \o (rest \o wbuf[c]))
          = DrawnAll(DrawnAll(shown[c], got), rest \o wbuf[c])
    BY <1>5, <2>1, DrawnConcat
  <2> QED
    BY <1>1, <1>2, <1>8, <2>1, <2>2 DEF ClientInv, Mirrors
<1>20. Mirrors(c)'
  BY <1>2, <1>3, <1>8, <1>19 DEF Mirrors, AwaitsReplay
<1>21. Finished(c)'
  <2>1. exits # {} => rest = << >> /\ wbuf[c] = << >> /\ rest \o wbuf[c] = << >>
    BY <1>4, <1>6, <1>9
  <2>2. DrawnAll(shown'[c], << >>) = shown'[c]
    BY DrawnNothing
  <2> QED
    BY <1>2, <1>3, <1>14, <1>19, <2>1, <2>2 DEF Finished, AwaitsReplay
<1> QED
  BY <1>11, <1>12, <1>15, <1>16, <1>17, <1>18, <1>20, <1>21, ClientStepIs DEF ClientInv

\* A client that leaves, and a command that reads, take from the socket only.
LEMMA TakesStep ==
    ASSUME IInv, NEW c \in Clients, CommandReads(c) \/ ClientLeaves(c)
    PROVE  IInv'
<1>1. DaemonType /\ ClientType /\ ClientInv(c)
  BY DEF IInv, TypeOK
<1>2. /\ UNCHANGED <<daemonVars, shellVars, open, inq, inited, code, sends>>
      /\ proc[c] \in {"attached", "command"}
      /\ proc' \in {proc, [proc EXCEPT ![c] = "left"]}
      /\ proc'[c] \in {"command", "left"}
      /\ shown' \in {shown, [shown EXCEPT ![c] = 0]}
      /\ \/ sock' = [sock EXCEPT ![c] = << >>]
         \/ sock' = sock
         \/ sock[c] # << >> /\ sock' = [sock EXCEPT ![c] = Tail(@)]
  <2>1. CASE CommandReads(c)
    <3>1. proc' \in {proc, [proc EXCEPT ![c] = "left"]}
      BY <1>1, <2>1 DEF CommandReads, ClientType
    <3> QED
      BY <1>1, <2>1, <3>1 DEF CommandReads, ClientType
  <2>2. CASE ClientLeaves(c)
    BY <1>1, <2>2 DEF ClientLeaves, ClientType
  <2> QED
    BY <2>1, <2>2
<1>3. UNCHANGED <<phase, term, clients, size, wbuf, writable>>
  BY <1>2 DEF daemonVars, polled
<1>4. sock[c] \in Seq(ToClient) /\ Len(sock[c]) \in Nat
  BY <1>1 DEF ClientType
<1>5. /\ sock' \in [Clients -> Seq(ToClient)]
      /\ \/ sock'[c] = << >>
         \/ sock'[c] = sock[c]
         \/ /\ Len(sock'[c]) = Len(sock[c]) - 1
            /\ \A i \in 1 .. Len(sock'[c]) : sock'[c][i] = sock[c][i + 1]
  <2>1. CASE sock' = [sock EXCEPT ![c] = << >>]
    BY <1>1, <2>1 DEF ClientType
  <2>2. CASE sock' = sock
    BY <1>1, <2>2 DEF ClientType
  <2>3. CASE sock[c] # << >> /\ sock' = [sock EXCEPT ![c] = Tail(@)]
    <3>1. /\ Tail(sock[c]) \in Seq(ToClient) /\ Len(Tail(sock[c])) = Len(sock[c]) - 1
          /\ \A i \in 1 .. Len(Tail(sock[c])) : Tail(sock[c])[i] = sock[c][i + 1]
      BY <1>4, <2>3, HeadTailProperties
    <3>2. sock'[c] = Tail(sock[c]) /\ sock' \in [Clients -> Seq(ToClient)]
      BY <1>1, <2>3, <3>1 DEF ClientType
    <3> QED
      BY <3>1, <3>2
  <2> QED
    BY <1>2, <2>1, <2>2, <2>3
<1>6. ClientType'
  BY <1>1, <1>2, <1>5 DEF ClientType
<1>7. ClientStep(c)
  <2>1. \A d \in Clients \ {c} : /\ proc'[d] = proc[d] /\ sock'[d] = sock[d]
                                 /\ shown'[d] = shown[d]
    BY <1>1, <1>2 DEF ClientType
  <2> QED
    BY <1>2, <1>3, <2>1 DEF ClientStep, Same
<1>8. code[c] = NoCode
  BY <1>1, <1>2 DEF ClientInv, Connected
<1>9. Connected(c)' /\ Mirrors(c)' /\ Finished(c)'
  BY <1>1, <1>2, <1>3, <1>8 DEF ClientInv, Connected, Mirrors, Finished
<1>10. KillsAlone(c)'
  BY <1>1, <1>2, <1>8 DEF ClientInv, KillsAlone
<1>11. \A i \in 1 .. Len(sock'[c]) :
          \E j \in 1 .. Len(sock[c]) :
             sock'[c][i] = sock[c][j] /\ (j = Len(sock[c]) => i = Len(sock'[c]))
  <2>1. CASE sock'[c] = << >>
    BY <2>1
  <2>2. CASE sock'[c] = sock[c]
    BY <2>2
  <2>3. CASE /\ Len(sock'[c]) = Len(sock[c]) - 1
             /\ \A i \in 1 .. Len(sock'[c]) : sock'[c][i] = sock[c][i + 1]
    <3> TAKE i \in 1 .. Len(sock'[c])
    <3>1. i + 1 \in 1 .. Len(sock[c]) /\ (i + 1 = Len(sock[c]) => i = Len(sock'[c]))
      BY <1>4, <2>3
    <3> QED
      BY <2>3, <3>1
  <2> QED
    BY <1>5, <2>1, <2>2, <2>3
<1>12. ExitEnds(c)'
  BY <1>1, <1>3, <1>11 DEF ClientInv, ExitEnds
<1>13. NothingYet(c)'
  <2>1. shown'[c] \in {shown[c], 0}
    BY <1>1, <1>2 DEF ClientType
  <2> QED
    BY <1>1, <1>3, <1>11, <2>1 DEF ClientInv, NothingYet
<1> QED
  BY <1>6, <1>7, <1>9, <1>10, <1>12, <1>13, ClientStepIs DEF ClientInv

LEMMA ClientSteps ==
    ASSUME IInv, NEW c \in Clients, ClientNext(c)
    PROVE  IInv'
<1>1. CASE Attach(c)
  <2>1. InitFrame(StartSize[c]) \in FromClient /\ InitFrame(StartSize[c]).tag = "Init"
    BY DaemonAssumption, FramesTyped DEF Size, InitFrame
  <2> QED
    BY <1>1, <2>1, ConnectsStep DEF Attach
<1>2. ASSUME NEW f \in Requests, Command(c, f)
      PROVE  IInv'
  <2>1. f \in FromClient
    BY <1>2, FramesTyped DEF Requests
  <2> QED
    BY <1>2, <2>1, ConnectsStep DEF Command
<1>3. ASSUME NEW z \in Sizes, ClientResumes(c, z)
      PROVE  IInv'
  <2>1. InitFrame(z) \in FromClient
    BY <1>3, DaemonAssumption, FramesTyped DEF Size
  <2> QED
    BY <1>3, <2>1, SendsStep
<1>4. ASSUME NEW f \in {ResizeFrame(z) : z \in Sizes} \cup {Frame("Detach")}, ClientSends(c, f)
      PROVE  IInv'
  <2>1. f \in FromClient
    BY <1>4, DaemonAssumption, FramesTyped DEF Size
  <2>2. f.tag \in {"Resize", "Detach"}
    BY <1>4 DEF ResizeFrame, Frame
  <2> QED
    BY <1>4, <2>1, <2>2, SendsStep
<1>5. ASSUME NEW n \in 0 .. SockRoom, ClientReads(c, n)
      PROVE  IInv'
  <2>1. n \in Nat
    BY <1>5, DaemonAssumption
  <2> QED
    BY <1>5, <2>1, ReadsStep
<1>6. CASE CommandReads(c) \/ ClientLeaves(c)
  BY <1>6, TakesStep
<1> QED
  BY <1>1, <1>2, <1>3, <1>4, <1>5, <1>6 DEF ClientNext

-----------------------------------------------------------------------------
\* The pty's size.

\* Fewer clients, or none less, with the sizes they had.
LEMMA PtyKept ==
    ASSUME PtyIsSmallestClient, pty' = pty, Serving' => Serving,
           \A c \in Reported(clients', size') : c \in Reported(clients, size) /\ size'[c] = size[c],
           ~ stale' => ~ stale /\ Reported(clients, size) \subseteq Reported(clients', size')
    PROVE  PtyIsSmallestClient'
<1> DEFINE R == Reported(clients, size)
           Q == Reported(clients', size')
<1> SUFFICES ASSUME Serving, Serving'
             PROVE  /\ \A c \in Q : pty'[1] <= size'[c][1] /\ pty'[2] <= size'[c][2]
                    /\ stale' \/ pty' = IF Q = {} THEN pty'
                                       ELSE <<Least({size'[c][1] : c \in Q}),
                                              Least({size'[c][2] : c \in Q})>>
  BY DEF PtyIsSmallestClient, Applied, Reported, MinClientSize
<1>1. \A c \in R : pty[1] <= size[c][1] /\ pty[2] <= size[c][2]
  BY DEF PtyIsSmallestClient
<1>2. \A c \in Q : c \in R /\ size'[c] = size[c]
  OBVIOUS
<1>3. ASSUME ~ stale'
      PROVE  pty' = IF Q = {} THEN pty'
                    ELSE <<Least({size'[c][1] : c \in Q}), Least({size'[c][2] : c \in Q})>>
  <2>1. R = Q
    BY <1>2, <1>3
  <2>2. {size'[c][1] : c \in Q} = {size[c][1] : c \in R}
        /\ {size'[c][2] : c \in Q} = {size[c][2] : c \in R}
    BY <1>2, <2>1
  <2>3. pty = IF R = {} THEN pty
              ELSE <<Least({size[c][1] : c \in R}), Least({size[c][2] : c \in R})>>
    BY <1>3 DEF PtyIsSmallestClient, Applied, MinClientSize
  <2> HIDE DEF R, Q
  <2> QED
    BY <2>1, <2>2, <2>3
<1> HIDE DEF R, Q
<1> QED
  BY <1>1, <1>2, <1>3

\* apply_client_size.
LEMMA PtyApplied ==
    ASSUME pty \in Size, clients' \in Seq(Clients), size' \in [Clients -> Size],
           pty' = Applied(clients', size')
    PROVE  PtyIsSmallestClient' /\ pty' \in Size
<1> DEFINE Q == Reported(clients', size')
           rows == {size'[c][1] : c \in Q}
           cols == {size'[c][2] : c \in Q}
<1>1. pty' = IF Q = {} THEN pty ELSE <<Least(rows), Least(cols)>>
  BY DEF Applied, MinClientSize
<1>2. Q \subseteq Clients
  BY DEF Reported, Range
<1>3. rows \subseteq Nat /\ cols \subseteq Nat
  BY <1>2 DEF Size
<1>4. Q # {} => /\ Least(rows) \in Nat /\ Least(cols) \in Nat
                /\ \A c \in Q : Least(rows) <= size'[c][1] /\ Least(cols) <= size'[c][2]
  <2> SUFFICES ASSUME Q # {}
               PROVE  /\ Least(rows) \in Nat /\ Least(cols) \in Nat
                      /\ \A c \in Q : Least(rows) <= size'[c][1] /\ Least(cols) <= size'[c][2]
    OBVIOUS
  <2>1. rows # {} /\ cols # {} /\ \A c \in Q : size'[c][1] \in rows /\ size'[c][2] \in cols
    OBVIOUS
  <2> HIDE DEF Q, rows, cols
  <2>2. Least(rows) \in rows /\ \A y \in rows : Least(rows) <= y
    BY <1>3, <2>1, LeastIs
  <2>3. Least(cols) \in cols /\ \A y \in cols : Least(cols) <= y
    BY <1>3, <2>1, LeastIs
  <2> QED
    BY <1>3, <2>1, <2>2, <2>3
<1>5. pty' \in Size
  <2> HIDE DEF Q, rows, cols
  <2> QED
    BY <1>1, <1>4 DEF Size
<1>6. \A c \in Q : pty'[1] <= size'[c][1] /\ pty'[2] <= size'[c][2]
  <2> HIDE DEF rows, cols
  <2> QED
    BY <1>1, <1>4
<1>7. pty' = IF Q = {} THEN pty' ELSE <<Least(rows), Least(cols)>>
  BY <1>1
<1> QED
  BY <1>5, <1>6, <1>7 DEF PtyIsSmallestClient, Applied, MinClientSize, Reported

-----------------------------------------------------------------------------
\* What is queued while the session runs: what was queued before, answers, and
\* a replay once there is something to replay.
Old(c) ==
    Range(sock[c]) \cup Range(wbuf[c]) \cup {Frame("Reply")}
      \cup (IF term > 0 THEN {Replay(term)} ELSE {})

LEMMA QueueKept ==
    ASSUME TypeOK, NEW c \in Clients, ClientInv(c),
           phase \notin Ending, phase' \notin Ending,
           term' = term, shown'[c] = shown[c],
           sock'[c] \in Seq(ToClient), wbuf'[c] \in Seq(ToClient),
           Range(sock'[c]) \subseteq Old(c), Range(wbuf'[c]) \subseteq Old(c)
    PROVE  ExitEnds(c)' /\ NothingYet(c)'
<1>1. sock[c] \in Seq(ToClient) /\ wbuf[c] \in Seq(ToClient) /\ term \in Nat
  BY DEF TypeOK, DaemonType, ClientType
<1>2. \A f \in Old(c) : f.tag # "Exit" /\ (term = 0 => Quiet(f))
  <2> TAKE f \in Old(c)
  <2>1. CASE f \in Range(sock[c])
    BY <1>1, <2>1 DEF Range, ClientInv, ExitEnds, NothingYet
  <2>2. CASE f \in Range(wbuf[c])
    BY <1>1, <2>2 DEF Range, ClientInv, ExitEnds, NothingYet
  <2>3. CASE f \in {Frame("Reply")} \cup (IF term > 0 THEN {Replay(term)} ELSE {})
    BY <1>1, <2>3 DEF Frame, Replay, Quiet
  <2> QED
    BY <2>1, <2>2, <2>3 DEF Old
<1>3. /\ \A i \in 1 .. Len(sock'[c]) : sock'[c][i] \in Old(c)
      /\ \A i \in 1 .. Len(wbuf'[c]) : wbuf'[c][i] \in Old(c)
  BY DEF Range
<1>4. ExitEnds(c)'
  BY <1>2, <1>3 DEF ExitEnds, Ending
<1>5. NothingYet(c)'
  BY <1>2, <1>3 DEF NothingYet, ClientInv
<1> QED
  BY <1>4, <1>5

\* A client that the daemon drops.
LEMMA DroppedClient ==
    ASSUME TypeOK, NEW c \in Clients, ClientInv(c),
           phase \notin Ending, phase' \notin Ending,
           c \in Range(clients), c \notin Range(clients'),
           ~ open'[c], ~ inited'[c], size'[c] = Unreported,
           wbuf'[c] = << >>, inq'[c] = << >>,
           UNCHANGED <<proc, shown, code, term>>,
           sock'[c] \in Seq(ToClient), Range(sock'[c]) \subseteq Old(c)
    PROVE  ClientInv(c)'
<1>1. << >> \in Seq(ToClient) /\ Range(<< >>) = {} /\ Len(<< >>) = 0
  BY DEF Range
<1>2. ExitEnds(c)' /\ NothingYet(c)'
  BY <1>1, QueueKept
<1>3. Connected(c)' /\ Mirrors(c)' /\ Finished(c)'
  BY DEF ClientInv, Connected, Mirrors, Finished
<1>4. KillsAlone(c)'
  BY <1>1 DEF KillsAlone
<1> QED
  BY <1>2, <1>3, <1>4 DEF ClientInv

\* The list and the sockets once the clients in C are dropped.
LEMMA DroppedIs ==
    ASSUME TypeOK, NEW C, NEW unread \in [Clients -> Seq(FromClient)], Dropped(C, unread)
    PROVE  /\ clients' \in Seq(Clients) /\ Range(clients') = Range(clients) \ C
           /\ open' \in [Clients -> BOOLEAN] /\ inq' \in [Clients -> Seq(FromClient)]
           /\ \A c \in Clients :
                 /\ open'[c] = (c \notin C /\ open[c])
                 /\ inq'[c] = IF c \in C THEN << >> ELSE unread[c]
<1>1. clients \in Seq(Clients) /\ open \in [Clients -> BOOLEAN] /\ << >> \in Seq(FromClient)
  BY DEF TypeOK, DaemonType, ClientType
<1>2. clients' \in Seq(Clients) /\ Range(clients') = Range(clients) \ C
  BY <1>1, WithoutIs DEF Dropped
<1>3. open' = [c \in Clients |-> IF c \in C THEN FALSE ELSE open[c]]
      /\ inq' = [c \in Clients |-> IF c \in C THEN << >> ELSE unread[c]]
  BY DEF Dropped, Emptied
<1>4. open' \in [Clients -> BOOLEAN] /\ \A c \in Clients : open'[c] = (c \notin C /\ open[c])
  BY <1>1, <1>3
<1>5. /\ inq' \in [Clients -> Seq(FromClient)]
      /\ \A c \in Clients : inq'[c] = IF c \in C THEN << >> ELSE unread[c]
  BY <1>1, <1>3
<1> QED
  BY <1>2, <1>4, <1>5

-----------------------------------------------------------------------------
\* The daemon's steps.

LEMMA LoopTopStep == ASSUME IInv, LoopTop PROVE IInv'
<1> DEFINE slow == {c \in Range(clients) : IsSlow(c)}
<1>1. TypeOK /\ DaemonType /\ ClientType
  BY DEF IInv, TypeOK
<1>2. /\ phase = "top" /\ phase' = "poll"
      /\ Dropped(slow, inq)
      /\ inited' = Emptied(slow, inited, FALSE)
      /\ wbuf' = Emptied(slow, wbuf, << >>)
      /\ size' = Emptied(slow, size, Unreported)
      /\ stale' = (stale \/ slow # {})
      /\ UNCHANGED <<sigterm, term, pty, readable, writable, shell, written, proc, sock,
                     shown, code, sends>>
  BY DEF LoopTop, polled, shellVars
<1> HIDE DEF slow
<1>3. inq \in [Clients -> Seq(FromClient)]
  BY <1>1 DEF ClientType
<1>4. /\ clients' \in Seq(Clients) /\ Range(clients') = Range(clients) \ slow
      /\ open' \in [Clients -> BOOLEAN] /\ inq' \in [Clients -> Seq(FromClient)]
      /\ \A c \in Clients :
            /\ open'[c] = (c \notin slow /\ open[c])
            /\ inq'[c] = IF c \in slow THEN << >> ELSE inq[c]
  BY <1>1, <1>2, <1>3, DroppedIs
<1>5. /\ inited' \in [Clients -> BOOLEAN] /\ wbuf' \in [Clients -> Seq(ToClient)]
      /\ size' \in [Clients -> Size]
  <2>1. inited' \in [Clients -> BOOLEAN]
    BY <1>1, <1>2 DEF Emptied, ClientType
  <2>2. wbuf' \in [Clients -> Seq(ToClient)]
    BY <1>1, <1>2 DEF Emptied, DaemonType
  <2>3. size' \in [Clients -> Size]
    <3>1. Unreported \in Size
      BY DEF Unreported, Size
    <3> QED
      BY <1>1, <1>2, <3>1 DEF Emptied, DaemonType
  <2> QED
    BY <2>1, <2>2, <2>3
<1>6. \A c \in Clients : /\ inited'[c] = IF c \in slow THEN FALSE ELSE inited[c]
                         /\ wbuf'[c] = IF c \in slow THEN << >> ELSE wbuf[c]
                         /\ size'[c] = IF c \in slow THEN Unreported ELSE size[c]
  BY <1>2 DEF Emptied
<1>7. TypeOK'
  <2>1. DaemonType'
    BY <1>1, <1>2, <1>4, <1>5 DEF DaemonType
  <2>2. ShellType' /\ ClientType'
    BY <1>1, <1>2, <1>4, <1>5 DEF TypeOK, ShellType, ClientType
  <2> QED
    BY <2>1, <2>2 DEF TypeOK
<1>8. Range(clients) \subseteq Clients /\ slow \subseteq Range(clients)
  BY <1>1, RangeOfSeq DEF DaemonType, slow
<1>9. PtyIsSmallestClient'
  <2>1. \A c \in Reported(clients', size') :
           c \in Reported(clients, size) /\ size'[c] = size[c]
    BY <1>4, <1>6, <1>8 DEF Reported
  <2>2. ~ stale' => ~ stale /\ Reported(clients, size) \subseteq Reported(clients', size')
    BY <1>2, <1>4, <1>6, <1>8 DEF Reported
  <2>3. Serving
    BY <1>2 DEF Serving
  <2> QED
    BY <1>2, <2>1, <2>2, <2>3, PtyKept DEF IInv
<1>10. ASSUME NEW c \in Clients PROVE ClientInv(c)'
  <2>0. ClientInv(c) /\ phase \notin Ending /\ phase' \notin Ending
    BY <1>2, <1>10 DEF IInv, Ending
  <2>1. CASE c \in slow
    <3>1. sock'[c] \in Seq(ToClient) /\ Range(sock'[c]) \subseteq Old(c)
      BY <1>1, <1>2, <1>10 DEF ClientType, Old
    <3>2. /\ c \in Range(clients) /\ c \notin Range(clients') /\ ~ open'[c] /\ ~ inited'[c]
          /\ size'[c] = Unreported /\ wbuf'[c] = << >> /\ inq'[c] = << >>
      BY <1>4, <1>6, <1>8, <1>10, <2>1
    <3> QED
      BY <1>1, <1>2, <1>10, <2>0, <3>1, <3>2, DroppedClient
  <2>2. CASE c \notin slow
    <3>1. Same(c)
      BY <1>2, <1>4, <1>6, <1>10, <2>2 DEF Same
    <3>2. PhaseGoesOn(c)
      BY <1>2 DEF PhaseGoesOn, Ending
    <3> QED
      BY <1>2, <1>10, <2>0, <3>1, <3>2, Untouched
  <2> QED
    BY <2>1, <2>2
<1> QED
  BY <1>7, <1>9, <1>10 DEF IInv

LEMMA PollStep == ASSUME IInv, Poll PROVE IInv'
<1>1. TypeOK /\ DaemonType
  BY DEF IInv, TypeOK
<1>2. /\ phase = "poll" /\ phase' \in {"pty", "top", "clients"}
      /\ readable' \subseteq Range(clients) /\ writable' \subseteq Range(clients)
      /\ UNCHANGED <<sigterm, term, pty, size, wbuf, stale, shell, written, clientVars>>
      /\ \/ \E c \in Connecting : clients' = Append(clients, c)
         \/ UNCHANGED clients
  BY DEF Poll, ClientsNext, shellVars
<1>3. Range(clients) \subseteq Clients
  BY <1>1, RangeOfSeq DEF DaemonType
<1>4. /\ clients' \in Seq(Clients)
      /\ \E C \in SUBSET Connecting : Range(clients') = Range(clients) \cup C
  <2>1. CASE UNCHANGED clients
    <3>1. {} \in SUBSET Connecting /\ Range(clients') = Range(clients) \cup {}
      BY <2>1
    <3> QED
      BY <1>1, <2>1, <3>1 DEF DaemonType
  <2>2. ASSUME NEW c \in Connecting, clients' = Append(clients, c)
        PROVE  /\ clients' \in Seq(Clients)
               /\ \E C \in SUBSET Connecting : Range(clients') = Range(clients) \cup C
    <3>1. c \in Clients /\ clients \in Seq(Clients)
      BY <1>1, <2>2 DEF Connecting, DaemonType
    <3>2. Append(clients, c) \in Seq(Clients)
          /\ Range(Append(clients, c)) = Range(clients) \cup {c}
      BY <3>1, RangeOfAppend
    <3> QED
      BY <2>2, <3>2
  <2> QED
    BY <1>2, <2>1, <2>2
<1>5. PICK C \in SUBSET Connecting : Range(clients') = Range(clients) \cup C
  BY <1>4
<1>6. \A c \in C : c \in Clients /\ open[c] /\ size[c] = Unreported
  <2> TAKE c \in C
  <2>1. c \in Clients /\ open[c] /\ c \notin Range(clients)
    BY <1>5 DEF Connecting
  <2> QED
    BY <1>2, <2>1 DEF IInv, ClientInv, Connected
<1>7. TypeOK'
  <2>1. DaemonType'
    BY <1>1, <1>2, <1>3, <1>4 DEF DaemonType
  <2>2. ShellType' /\ ClientType'
    BY <1>1, <1>2 DEF TypeOK, ShellType, ClientType, clientVars
  <2> QED
    BY <2>1, <2>2 DEF TypeOK
<1>8. PtyIsSmallestClient'
  <2>1. Reported(clients', size') = Reported(clients, size)
    BY <1>2, <1>5, <1>6 DEF Reported, Unreported
  <2>2. Serving
    BY <1>2 DEF Serving
  <2> QED
    BY <1>2, <2>1, <2>2, PtyKept DEF IInv
<1>9. ASSUME NEW c \in Clients PROVE ClientInv(c)'
  <2>1. Same(c)
    BY <1>2, <1>5, <1>6 DEF Same, clientVars
  <2>2. PhaseGoesOn(c)
    BY <1>2 DEF PhaseGoesOn, Ending
  <2> QED
    BY <1>2, <1>9, <2>1, <2>2, Untouched DEF IInv
<1> QED
  BY <1>7, <1>8, <1>9 DEF IInv

\* The broadcast extends what every listed client will show by one chunk.
LEMMA PtyOutputStep == ASSUME IInv, PtyOutput PROVE IInv'
<1>1. TypeOK /\ DaemonType /\ ClientType
  BY DEF IInv, TypeOK
<1>2. /\ phase = "pty" /\ phase' \in {"top", "clients"}
      /\ term' = term + 1
      /\ wbuf' = [c \in Clients |->
                    IF c \in Range(clients) THEN Append(wbuf[c], Output(term + 1))
                    ELSE wbuf[c]]
      /\ UNCHANGED <<readable, writable, sigterm, pty, clients, size, stale, shell, written,
                     clientVars>>
  BY DEF PtyOutput, ClientsNext, shellVars, polled
<1>3. term \in Nat /\ term' \in Nat /\ term' # 0
  BY <1>1, <1>2 DEF DaemonType
<1>4. Output(term + 1) \in ToClient
  BY <1>2, <1>3, FramesTyped
<1>5. wbuf' \in [Clients -> Seq(ToClient)]
  BY <1>1, <1>2, <1>4 DEF DaemonType
<1>6. TypeOK'
  <2>1. DaemonType'
    BY <1>1, <1>2, <1>3, <1>5 DEF DaemonType
  <2>2. ShellType' /\ ClientType'
    BY <1>1, <1>2 DEF TypeOK, ShellType, ClientType, clientVars
  <2> QED
    BY <2>1, <2>2 DEF TypeOK
<1>7. PtyIsSmallestClient'
  <2>1. Serving' => Serving
    BY <1>2 DEF Serving
  <2> QED
    BY <1>2, <2>1, PtyUntouched DEF IInv
<1>8. ASSUME NEW c \in Clients PROVE ClientInv(c)'
  <2>0. ClientInv(c) /\ phase \notin Ending /\ phase' \notin Ending
    BY <1>2, <1>8 DEF IInv, Ending
  <2>1. UNCHANGED <<proc, open, inq, sock, shown, inited, code>>
    BY <1>2 DEF clientVars
  <2>2. wbuf[c] \in Seq(ToClient) /\ sock[c] \in Seq(ToClient)
    BY <1>1, <1>8 DEF DaemonType, ClientType
  <2>3. wbuf'[c] = IF c \in Range(clients) THEN Append(wbuf[c], Output(term + 1)) ELSE wbuf[c]
    BY <1>2, <1>8
  <2>4. Connected(c)'
    BY <1>2, <2>0, <2>1 DEF ClientInv, Connected, Ending
  <2>5. KillsAlone(c)'
    BY <2>0, <2>1 DEF ClientInv, KillsAlone
  <2>6. ExitEnds(c)'
    <3>1. \A i \in 1 .. Len(wbuf'[c]) : wbuf'[c][i].tag # "Exit"
      <4>1. \A i \in 1 .. Len(wbuf[c]) : wbuf[c][i].tag # "Exit"
        BY <2>0 DEF ClientInv, ExitEnds
      <4>2. Output(term + 1).tag # "Exit"
        BY DEF Output
      <4> QED
        BY <1>4, <2>2, <2>3, <4>1, <4>2, AppendProperties
    <3>2. \A i \in 1 .. Len(sock'[c]) : sock'[c][i].tag # "Exit"
      BY <2>0, <2>1 DEF ClientInv, ExitEnds
    <3> QED
      BY <2>0, <3>1, <3>2 DEF ExitEnds, Ending
  <2>7. NothingYet(c)'
    BY <1>3 DEF NothingYet
  <2>8. Mirrors(c)'
    <3> SUFFICES ASSUME proc[c] = "attached", inited[c], ~ AwaitsReplay(c)
                 PROVE  DrawnAll(shown[c], sock[c] \o wbuf'[c]) = term + 1
      BY <1>2, <2>1 DEF Mirrors, AwaitsReplay
    <3>1. c \in Range(clients) /\ DrawnAll(shown[c], sock[c] \o wbuf[c]) = term
      BY <1>2, <2>0 DEF ClientInv, Connected, Mirrors
    <3>2. PICK s \in Seq(ToClient), w \in Seq(ToClient) : s = sock[c] /\ w = wbuf[c]
      BY <2>2
    <3>3. s \o Append(w, Output(term + 1)) = Append(s \o w, Output(term + 1))
          /\ s \o w \in Seq(ToClient)
      BY <1>4, ConcatAppend
    <3>4. DrawnAll(shown[c], Append(s \o w, Output(term + 1))) = Drawn(term, Output(term + 1))
      BY <1>4, <3>1, <3>2, <3>3, DrawnAppend
    <3>5. Drawn(term, Output(term + 1)) = term + 1
      BY <1>3 DEF Drawn, Output
    <3> QED
      BY <2>3, <3>1, <3>2, <3>3, <3>4, <3>5
  <2>9. Finished(c)'
    BY <2>0, <2>1 DEF ClientInv, Connected, Finished
  <2> QED
    BY <2>4, <2>5, <2>6, <2>7, <2>8, <2>9 DEF ClientInv
<1> QED
  BY <1>6, <1>7, <1>8 DEF IInv

\* The turn of one client: what is read and what it says.
Turn(c, batch, unread) ==
    /\ phase = "clients" /\ c \in Range(clients)
    /\ UNCHANGED <<sigterm, term, shell, written, proc, shown, code, sends>>
    /\ unread \in [Clients -> Seq(FromClient)]
    /\ \A d \in Clients \ {c} : unread[d] = inq[d]
    /\ \A i \in 1 .. Len(unread[c]) : \E j \in 1 .. Len(inq[c]) : unread[c][i] = inq[c][j]
    /\ batch.size \in Size /\ batch.queue \in Seq({Frame("Reply")})
    /\ {batch.resized, batch.init, batch.remove, batch.all, batch.kill} \subseteq BOOLEAN
    /\ ~ batch.resized => batch.size = size[c]
    /\ batch.kill => \E i \in 1 .. Len(inq[c]) : inq[c][i].tag = "Kill"
    /\ ~ (batch.init \/ batch.remove \/ batch.all \/ batch.kill) /\ AwaitsReplay(c)
         => \E i \in 1 .. Len(unread[c]) : unread[c][i].tag = "Init"

LEMMA TurnIs ==
    ASSUME IInv, NEW c \in Clients, NEW n \in Nat, ClientTraffic(c, n)
    PROVE  \E batch, unread :
               /\ Turn(c, batch, unread)
               /\ KillFrame(c, batch, unread) \/ OtherFrames(c, batch, unread)
<1> DEFINE frames == SubSeq(inq[c], 1, n)
           rest   == SubSeq(inq[c], n + 1, Len(inq[c]))
           batch  == Taken(size[c], frames)
           unread == [inq EXCEPT ![c] = SubSeq(@, n + 1, Len(@))]
<1>1. DaemonType /\ ClientType
  BY DEF IInv, TypeOK
<1>2. inq[c] \in Seq(FromClient) /\ size[c] \in Size /\ inq \in [Clients -> Seq(FromClient)]
  BY <1>1 DEF DaemonType, ClientType
<1>3. n \in 0 .. Len(inq[c])
  <2>1. n = 0 \/ n \in 1 .. Len(inq[c])
    BY DEF ClientTraffic
  <2> QED
    BY <1>2, <2>1
<1>4. /\ KillFrame(c, batch, unread) \/ OtherFrames(c, batch, unread)
      /\ phase = "clients"
      /\ UNCHANGED <<sigterm, term, shell, written, proc, shown, code, sends>>
  BY DEF ClientTraffic, shellVars
<1>5. c \in Range(clients)
  <2>1. clients \in Seq(Clients)
    BY <1>1 DEF DaemonType
  <2>2. PICK i \in 1 .. Len(clients) : clients[i] = c
    BY DEF ClientTraffic, NextClient
  <2> QED
    BY <2>1, <2>2, RangeEquality
<1>6. /\ frames \in Seq(FromClient) /\ Len(frames) = n
      /\ \A i \in 1 .. n : frames[i] = inq[c][i]
      /\ rest \in Seq(FromClient) /\ Len(rest) = Len(inq[c]) - n
      /\ \A i \in 1 .. Len(inq[c]) - n : rest[i] = inq[c][n + i]
  BY <1>2, <1>3, SplitAt
<1>7. /\ unread \in [Clients -> Seq(FromClient)] /\ unread[c] = rest
      /\ \A d \in Clients \ {c} : unread[d] = inq[d]
  BY <1>2, <1>6
<1>8. \A i \in 1 .. Len(rest) : \E j \in 1 .. Len(inq[c]) : rest[i] = inq[c][j]
  <2> TAKE i \in 1 .. Len(rest)
  <2>1. n + i \in 1 .. Len(inq[c]) /\ rest[i] = inq[c][n + i]
    BY <1>2, <1>3, <1>6
  <2> QED
    BY <2>1
<1>9. /\ batch.size \in Size /\ batch.queue \in Seq({Frame("Reply")})
      /\ {batch.resized, batch.init, batch.remove, batch.all, batch.kill} \subseteq BOOLEAN
      /\ ~ batch.resized => batch.size = size[c]
      /\ batch.kill => \E i \in 1 .. Len(frames) : frames[i].tag = "Kill"
      /\ ~ (batch.remove \/ batch.all \/ batch.kill)
           => (batch.init <=> \E i \in 1 .. Len(frames) : frames[i].tag = "Init")
  BY <1>2, <1>6, TakenIs
<1> HIDE DEF frames, rest, batch
<1>10. batch.kill => \E i \in 1 .. Len(inq[c]) : inq[c][i].tag = "Kill"
  <2> SUFFICES ASSUME NEW i \in 1 .. Len(frames), frames[i].tag = "Kill"
               PROVE  i \in 1 .. Len(inq[c]) /\ inq[c][i].tag = "Kill"
    BY <1>9
  <2> QED
    BY <1>2, <1>3, <1>6
<1>11. ~ (batch.init \/ batch.remove \/ batch.all \/ batch.kill) /\ AwaitsReplay(c)
         => \E i \in 1 .. Len(rest) : rest[i].tag = "Init"
  <2> SUFFICES ASSUME ~ (batch.init \/ batch.remove \/ batch.all \/ batch.kill),
                      NEW j \in 1 .. Len(inq[c]), inq[c][j].tag = "Init"
               PROVE  \E i \in 1 .. Len(rest) : rest[i].tag = "Init"
    BY DEF AwaitsReplay
  <2>1. ~ (j \in 1 .. n)
    BY <1>6, <1>9
  <2>2. j - n \in 1 .. Len(rest) /\ n + (j - n) = j
    BY <1>2, <1>3, <1>6, <2>1
  <2> QED
    BY <1>6, <2>2
<1> HIDE DEF unread
<1> QED
  <2>1. Turn(c, batch, unread)
    BY <1>4, <1>5, <1>7, <1>8, <1>9, <1>10, <1>11 DEF Turn
  <2> QED
    BY <1>4, <2>1

\* posh kill: nobody is attached to that connection.
LEMMA KillStep ==
    ASSUME IInv, NEW c \in Clients, NEW batch, NEW unread,
           Turn(c, batch, unread), KillFrame(c, batch, unread)
    PROVE  IInv'
<1>1. TypeOK /\ DaemonType /\ ClientType /\ ClientInv(c)
  BY DEF IInv, TypeOK
<1>2. /\ phase = "clients" /\ c \in Range(clients)
      /\ UNCHANGED <<sigterm, term, shell, written, proc, shown, code, sends>>
      /\ unread \in [Clients -> Seq(FromClient)]
      /\ \A d \in Clients \ {c} : unread[d] = inq[d]
      /\ \A i \in 1 .. Len(unread[c]) : \E j \in 1 .. Len(inq[c]) : unread[c][i] = inq[c][j]
      /\ batch.size \in Size /\ batch.queue \in Seq({Frame("Reply")})
      /\ batch.kill => \E i \in 1 .. Len(inq[c]) : inq[c][i].tag = "Kill"
  BY DEF Turn
<1>3. /\ batch.kill
      /\ inq' = unread
      /\ phase' = "teardown"
      /\ size' = [size EXCEPT ![c] = batch.size]
      /\ wbuf' = [wbuf EXCEPT ![c] = @ \o batch.queue]
      /\ readable' = {} /\ writable' = {}
      /\ UNCHANGED <<clients, open, pty, stale, sock, inited>>
  BY DEF KillFrame
<1>4. proc[c] # "attached" /\ code[c] = NoCode
  BY <1>1, <1>2, <1>3 DEF ClientInv, KillsAlone
<1>5. /\ wbuf[c] \o batch.queue \in Seq(ToClient)
      /\ Range(wbuf[c] \o batch.queue) \subseteq Old(c)
  <2>1. wbuf[c] \in Seq(ToClient) /\ batch.queue \in Seq(ToClient)
        /\ Range(batch.queue) \subseteq {Frame("Reply")}
    BY <1>1, <1>2, FramesTyped, SeqMonotonic, RangeOfSeq DEF DaemonType
  <2> QED
    BY <2>1, ConcatProperties, RangeConcatenation DEF Old
<1>6. TypeOK'
  <2>1. DaemonType'
    BY <1>1, <1>2, <1>3, <1>5 DEF DaemonType
  <2>2. ShellType' /\ ClientType'
    BY <1>1, <1>2, <1>3 DEF TypeOK, ShellType, ClientType
  <2> QED
    BY <2>1, <2>2 DEF TypeOK
<1>7. PtyIsSmallestClient'
  BY <1>3 DEF PtyIsSmallestClient, Serving
<1>8. ASSUME NEW d \in Clients PROVE ClientInv(d)'
  <2>0. ClientInv(d) /\ phase \notin Ending /\ phase' \notin Ending
    BY <1>2, <1>3, <1>8 DEF IInv, Ending
  <2>1. CASE d # c
    <3>1. Same(d)
      BY <1>1, <1>2, <1>3, <1>8, <2>1 DEF Same, DaemonType
    <3>2. PhaseGoesOn(d)
      BY <2>0, <1>3 DEF PhaseGoesOn, Ending
    <3> QED
      BY <1>2, <1>8, <2>0, <3>1, <3>2, Untouched
  <2>2. CASE d = c
    <3>1. wbuf'[c] = wbuf[c] \o batch.queue /\ sock'[c] = sock[c] /\ sock[c] \in Seq(ToClient)
      BY <1>1, <1>3 DEF DaemonType, ClientType
    <3>2. ExitEnds(c)' /\ NothingYet(c)'
      <4>1. Range(sock[c]) \subseteq Old(c)
        BY DEF Old
      <4> QED
        BY <1>1, <1>2, <1>5, <2>0, <3>1, <4>1, QueueKept
    <3>3. Connected(c)' /\ Mirrors(c)' /\ Finished(c)'
      BY <1>1, <1>2, <1>3, <1>4 DEF ClientInv, Connected, Mirrors, Finished
    <3>4. KillsAlone(c)'
      BY <1>2, <1>3, <1>4 DEF KillsAlone
    <3> QED
      BY <2>2, <3>2, <3>3, <3>4 DEF ClientInv
  <2> QED
    BY <2>1, <2>2
<1> QED
  BY <1>6, <1>7, <1>8 DEF IInv

\* Everything else: what stays queued is what was queued, the answers, and a
\* replay after an Init, in this order, whatever part the socket took.
LEMMA OtherStep ==
    ASSUME IInv, NEW c \in Clients, NEW batch, NEW unread,
           Turn(c, batch, unread), OtherFrames(c, batch, unread)
    PROVE  IInv'
<1> DEFINE remove  == batch.remove \/ proc[c] = "left"
           queue   == wbuf[c] \o batch.queue
           m       == IF remove \/ c \notin writable \/ Len(queue) = 0
                         \/ Len(sock[c]) >= SockRoom
                      THEN 0
                      ELSE Least({Len(queue), SockRoom - Len(sock[c])})
           gone    == IF batch.all THEN Range(clients) ELSE IF remove THEN {c} ELSE {}
           repaint == IF NeedsReplay(c, batch) THEN <<Replay(term)>> ELSE << >>
           sent    == SubSeq(queue, 1, m)
           left    == SubSeq(queue, m + 1, Len(queue))
           kept    == left \o repaint
<1>1. TypeOK /\ DaemonType /\ ClientType /\ ClientInv(c)
  BY DEF IInv, TypeOK
<1>2. /\ phase = "clients" /\ c \in Range(clients)
      /\ UNCHANGED <<sigterm, term, shell, written, proc, shown, code, sends>>
      /\ unread \in [Clients -> Seq(FromClient)]
      /\ \A d \in Clients \ {c} : unread[d] = inq[d]
      /\ \A i \in 1 .. Len(unread[c]) : \E j \in 1 .. Len(inq[c]) : unread[c][i] = inq[c][j]
      /\ batch.size \in Size /\ batch.queue \in Seq({Frame("Reply")})
      /\ {batch.resized, batch.init, batch.remove, batch.all, batch.kill} \subseteq BOOLEAN
      /\ ~ batch.resized => batch.size = size[c]
      /\ ~ (batch.init \/ batch.remove \/ batch.all \/ batch.kill) /\ AwaitsReplay(c)
           => \E i \in 1 .. Len(unread[c]) : unread[c][i].tag = "Init"
  BY DEF Turn
<1>3. /\ ~ batch.kill
      /\ Dropped(gone, unread)
      /\ sock' = [sock EXCEPT ![c] = @ \o sent]
      /\ wbuf' = Emptied(gone, [wbuf EXCEPT ![c] = kept], << >>)
      /\ size' = Emptied(gone, [size EXCEPT ![c] = batch.size], Unreported)
      /\ IF ~ batch.all /\ (batch.resized \/ remove)
         THEN pty' = Applied(clients', size') /\ stale' = FALSE
         ELSE UNCHANGED <<pty, stale>>
      /\ readable' \subseteq readable /\ writable' \subseteq writable
      /\ inited' = Emptied(gone, [inited EXCEPT ![c] = @ \/ batch.init], FALSE)
      /\ phase' \in {"top", "clients"}
  BY DEF OtherFrames, ClientsNext
<1>4. /\ wbuf[c] \in Seq(ToClient) /\ sock[c] \in Seq(ToClient) /\ batch.queue \in Seq(ToClient)
      /\ Range(batch.queue) \subseteq {Frame("Reply")} /\ term \in Nat /\ shown[c] \in Int
  BY <1>1, <1>2, FramesTyped, SeqMonotonic, RangeOfSeq DEF DaemonType, ClientType
<1>5. queue \in Seq(ToClient) /\ Range(queue) \subseteq Old(c) /\ Len(queue) \in Nat
  <2>1. PICK w \in Seq(ToClient), r \in Seq(ToClient) : w = wbuf[c] /\ r = batch.queue
    BY <1>4
  <2>2. w \o r \in Seq(ToClient) /\ Range(w \o r) = Range(w) \cup Range(r)
    BY ConcatProperties, RangeConcatenation
  <2>3. Range(queue) \subseteq Old(c)
    BY <1>4, <2>1, <2>2 DEF Old
  <2>4. queue \in Seq(ToClient)
    BY <2>1, <2>2
  <2> HIDE DEF queue
  <2> QED
    BY <2>3, <2>4
<1>6. repaint \in Seq(ToClient) /\ Range(repaint) \subseteq Old(c)
  <2>1. NeedsReplay(c, batch) => Replay(term) \in Old(c) /\ Replay(term) \in ToClient
    BY <1>4, FramesTyped DEF NeedsReplay, Old
  <2>2. \A f \in ToClient : <<f>> \in Seq(ToClient) /\ Range(<<f>>) = {f}
    BY DEF Range
  <2>3. << >> \in Seq(ToClient) /\ Range(<< >>) = {}
    BY DEF Range
  <2> QED
    BY <2>1, <2>2, <2>3
<1>7. m \in 0 .. Len(queue)
  <2> DEFINE T == {Len(queue), SockRoom - Len(sock[c])}
  <2>1. Len(sock[c]) \in Nat /\ SockRoom \in Nat
    BY <1>4, DaemonAssumption
  <2> HIDE DEF queue
  <2>2. ASSUME ~ (Len(sock[c]) >= SockRoom) PROVE Least(T) \in 0 .. Len(queue)
    <3>1. T \subseteq Nat /\ T # {} /\ Len(queue) \in T
      BY <1>5, <2>1, <2>2
    <3> HIDE DEF T
    <3>2. Least(T) \in T /\ Least(T) <= Len(queue)
      BY <3>1, LeastIs
    <3>3. Least(T) \in Nat
      BY <3>1, <3>2
    <3> QED
      BY <1>5, <3>2, <3>3
  <2> HIDE DEF T
  <2>3. m = 0 \/ (m = Least(T) /\ ~ (Len(sock[c]) >= SockRoom))
    BY DEF T
  <2> HIDE DEF m
  <2> QED
    BY <1>5, <2>2, <2>3
<1> HIDE DEF m, repaint
<1>8. /\ sent \in Seq(ToClient) /\ left \in Seq(ToClient) /\ sent \o left = queue
      /\ Range(sent) \subseteq Range(queue) /\ Range(left) \subseteq Range(queue)
  <2> HIDE DEF queue
  <2>1. sent \in Seq(ToClient) /\ left \in Seq(ToClient) /\ sent \o left = queue
    BY <1>5, <1>7, SplitAt
  <2> HIDE DEF sent, left
  <2>2. Range(queue) = Range(sent) \cup Range(left)
    <3>1. Range(sent \o left) = Range(sent) \cup Range(left)
      BY ONLY <2>1, RangeConcatenation
    <3> QED
      BY <2>1, <3>1, Zenon
  <2> QED
    BY <2>1, <2>2
<1> HIDE DEF sent, left
<1>9. kept \in Seq(ToClient) /\ Range(kept) \subseteq Old(c)
  BY <1>5, <1>6, <1>8, ConcatProperties, RangeConcatenation
<1>10. sock[c] \o sent \in Seq(ToClient) /\ Range(sock[c] \o sent) \subseteq Old(c)
  <2>1. PICK s \in Seq(ToClient) : s = sock[c]
    BY <1>4
  <2>2. s \o sent \in Seq(ToClient) /\ Range(s \o sent) = Range(s) \cup Range(sent)
    BY <1>8, ConcatProperties, RangeConcatenation
  <2> QED
    BY <1>5, <1>8, <2>1, <2>2 DEF Old
<1> HIDE DEF queue, kept
<1>11. /\ clients' \in Seq(Clients) /\ Range(clients') = Range(clients) \ gone
       /\ open' \in [Clients -> BOOLEAN] /\ inq' \in [Clients -> Seq(FromClient)]
       /\ \A d \in Clients :
             /\ open'[d] = (d \notin gone /\ open[d])
             /\ inq'[d] = IF d \in gone THEN << >> ELSE unread[d]
  BY <1>1, <1>2, <1>3, DroppedIs
<1>12. gone \subseteq Range(clients) /\ Range(clients) \subseteq Clients
       /\ (c \notin gone => ~ batch.all /\ ~ remove /\ gone = {})
  BY <1>1, <1>2, RangeOfSeq DEF DaemonType
<1>13. ~ batch.all /\ ~ remove => gone = {}
  OBVIOUS
<1>14. batch.all => gone = Range(clients)
  OBVIOUS
<1> HIDE DEF gone
<1>15. sock' \in [Clients -> Seq(ToClient)] /\ sock'[c] = sock[c] \o sent
       /\ \A d \in Clients \ {c} : sock'[d] = sock[d]
  BY <1>1, <1>3, <1>10 DEF ClientType
<1>16. /\ wbuf' \in [Clients -> Seq(ToClient)]
       /\ wbuf'[c] = IF c \in gone THEN << >> ELSE kept
       /\ \A d \in Clients \ {c} : wbuf'[d] = IF d \in gone THEN << >> ELSE wbuf[d]
  <2>1. << >> \in Seq(ToClient)
    OBVIOUS
  <2> QED
    BY <1>1, <1>3, <1>9, <2>1 DEF DaemonType, Emptied
<1>17. /\ size' \in [Clients -> Size]
       /\ size'[c] = IF c \in gone THEN Unreported ELSE batch.size
       /\ \A d \in Clients \ {c} : size'[d] = IF d \in gone THEN Unreported ELSE size[d]
  <2>1. Unreported \in Size
    BY DEF Unreported, Size
  <2> QED
    BY <1>1, <1>2, <1>3, <2>1 DEF DaemonType, Emptied
<1>18. /\ inited' \in [Clients -> BOOLEAN]
       /\ inited'[c] = (c \notin gone /\ (inited[c] \/ batch.init))
       /\ \A d \in Clients \ {c} : inited'[d] = (d \notin gone /\ inited[d])
  BY <1>1, <1>2, <1>3 DEF ClientType, Emptied
<1>19. PtyIsSmallestClient' /\ pty' \in Size /\ stale' \in BOOLEAN
  <2>1. CASE ~ batch.all /\ (batch.resized \/ remove)
    <3>1. pty' = Applied(clients', size') /\ stale' = FALSE /\ pty \in Size
      BY <1>1, <1>3, <2>1 DEF DaemonType
    <3> QED
      BY <1>11, <1>17, <3>1, PtyApplied
  <2>2. CASE batch.all
    <3>1. UNCHANGED <<pty, stale>> /\ Range(clients') = {}
      BY <1>3, <1>11, <1>14, <2>2
    <3>2. Reported(clients', size') = {}
      BY <3>1 DEF Reported
    <3>3. PtyIsSmallestClient'
      BY <3>2 DEF PtyIsSmallestClient, Applied, Reported
    <3> QED
      BY <1>1, <3>1, <3>3 DEF DaemonType
  <2>3. CASE ~ batch.all /\ ~ batch.resized /\ ~ remove
    <3>1. UNCHANGED <<pty, stale>> /\ gone = {} /\ Range(clients') = Range(clients)
      BY <1>3, <1>11, <1>13, <2>3
    <3>2. \A d \in Clients : size'[d] = size[d]
      BY <1>2, <1>17, <2>3, <3>1
    <3>3. Reported(clients', size') = Reported(clients, size)
      BY <1>12, <3>1, <3>2 DEF Reported
    <3>4. \A d \in Reported(clients', size') : d \in Clients
      BY <1>12, <3>1 DEF Reported
    <3>5. Serving
      BY <1>2 DEF Serving
    <3>6. PtyIsSmallestClient'
      BY <3>1, <3>2, <3>3, <3>4, <3>5, PtyKept DEF IInv
    <3> QED
      BY <1>1, <3>1, <3>6 DEF DaemonType
  <2> QED
    BY <1>2, <2>1, <2>2, <2>3
<1>20. TypeOK'
  <2>1. DaemonType'
    BY <1>1, <1>2, <1>3, <1>11, <1>16, <1>17, <1>19 DEF DaemonType
  <2>2. ShellType' /\ ClientType'
    BY <1>1, <1>2, <1>11, <1>15, <1>18 DEF TypeOK, ShellType, ClientType
  <2> QED
    BY <2>1, <2>2 DEF TypeOK
<1>21. phase \notin Ending /\ phase' \notin Ending
  BY <1>2, <1>3 DEF Ending
<1>22. ASSUME NEW d \in Clients, d \in gone PROVE ClientInv(d)'
  <2>1. sock'[d] \in Seq(ToClient) /\ Range(sock'[d]) \subseteq Old(d)
    <3>1. CASE d = c
      BY <1>10, <1>15, <3>1
    <3>2. CASE d # c
      BY <1>1, <1>15, <1>22, <3>2 DEF ClientType, Old
    <3> QED
      BY <3>1, <3>2
  <2>2. /\ d \in Range(clients) /\ d \notin Range(clients') /\ ~ open'[d] /\ ~ inited'[d]
        /\ size'[d] = Unreported /\ wbuf'[d] = << >> /\ inq'[d] = << >>
    BY <1>11, <1>12, <1>16, <1>17, <1>18, <1>22
  <2>3. ClientInv(d)
    BY <1>22 DEF IInv
  <2> QED
    BY <1>1, <1>2, <1>21, <1>22, <2>1, <2>2, <2>3, DroppedClient
<1>23. ASSUME NEW d \in Clients, d \notin gone, d # c PROVE ClientInv(d)'
  <2>1. Same(d)
    <3>1. size'[d] = size[d] /\ wbuf'[d] = wbuf[d] /\ sock'[d] = sock[d]
      BY <1>15, <1>16, <1>17, <1>23
    <3>2. inq'[d] = inq[d]
      BY <1>2, <1>11, <1>23
    <3>3. inited'[d] = inited[d]
      <4>1. inited'[d] = (d \notin gone /\ inited[d]) /\ inited[d] \in BOOLEAN
        BY <1>1, <1>18, <1>23 DEF ClientType
      <4> QED
        BY <1>23, <4>1
    <3>4. open'[d] => open[d]
      BY <1>11, <1>23
    <3>5. d \in Range(clients') <=> d \in Range(clients)
      BY <1>11, <1>23
    <3> QED
      BY <1>2, <3>1, <3>2, <3>3, <3>4, <3>5 DEF Same
  <2>2. PhaseGoesOn(d)
    BY <1>3, <1>21 DEF PhaseGoesOn, Ending
  <2>3. ClientInv(d)
    BY <1>23 DEF IInv
  <2> QED
    BY <1>2, <1>23, <2>1, <2>2, <2>3, Untouched
<1>24. ASSUME c \notin gone PROVE ClientInv(c)'
  <2>1. wbuf'[c] = kept /\ inq'[c] = unread[c] /\ inited'[c] = (inited[c] \/ batch.init)
    BY <1>11, <1>16, <1>18, <1>24
  <2>2. ~ batch.all /\ ~ remove /\ gone = {} /\ Range(clients') = Range(clients)
    BY <1>11, <1>12, <1>24
  <2>3. ExitEnds(c)' /\ NothingYet(c)'
    BY <1>1, <1>2, <1>9, <1>10, <1>15, <1>21, <2>1, QueueKept
  <2>4. Connected(c)'
    BY <1>1, <1>2, <1>11, <1>21, <1>24, <2>2 DEF ClientInv, Connected, Ending
  <2>5. KillsAlone(c)'
    BY <1>1, <1>2, <2>1 DEF ClientInv, KillsAlone
  <2>6. Finished(c)'
    BY <1>1, <1>2, <1>21 DEF ClientInv, Connected, Finished
  <2>7. Mirrors(c)'
    <3> SUFFICES ASSUME proc[c] = "attached", inited[c] \/ batch.init, ~ AwaitsReplay(c)'
                 PROVE  DrawnAll(shown[c], sock'[c] \o wbuf'[c]) = term
      BY <1>2, <2>1 DEF Mirrors
    <3> DEFINE x == DrawnAll(shown[c], sock[c] \o wbuf[c])
               y == batch.queue \o repaint
    <3>1. sock'[c] \o wbuf'[c] = (sock[c] \o wbuf[c]) \o y /\ y \in Seq(ToClient)
          /\ sock[c] \o wbuf[c] \in Seq(ToClient)
      <4>1. Cat(Cat(sock[c], sent), Cat(left, repaint))
              = Cat(Cat(sock[c], wbuf[c]), Cat(batch.queue, repaint))
        <5>1. Cat(sent, left) = Cat(wbuf[c], batch.queue)
          BY <1>8 DEF Cat, queue
        <5>2. /\ sock[c] \in Seq(ToClient) /\ sent \in Seq(ToClient) /\ left \in Seq(ToClient)
              /\ repaint \in Seq(ToClient) /\ wbuf[c] \in Seq(ToClient)
              /\ batch.queue \in Seq(ToClient)
          BY <1>4, <1>6, <1>8
        <5>3. Cat(sock[c], sent) \in Seq(ToClient) /\ Cat(sock[c], wbuf[c]) \in Seq(ToClient)
          BY <5>2, CatAssociative
        <5>4. Cat(Cat(sock[c], sent), Cat(left, repaint))
                = Cat(Cat(Cat(sock[c], sent), left), repaint)
          BY <5>2, <5>3, CatAssociative
        <5>5. Cat(Cat(sock[c], sent), left) = Cat(sock[c], Cat(sent, left))
          <6>1. sock[c] \in Seq(ToClient) /\ sent \in Seq(ToClient) /\ left \in Seq(ToClient)
            BY <5>2
          <6> QED
            BY ONLY <6>1, CatAssociative, ZenonT(60)
        <5>6. Cat(sock[c], Cat(wbuf[c], batch.queue)) = Cat(Cat(sock[c], wbuf[c]), batch.queue)
          <6>1. sock[c] \in Seq(ToClient) /\ wbuf[c] \in Seq(ToClient)
                /\ batch.queue \in Seq(ToClient)
            BY <5>2
          <6> QED
            BY ONLY <6>1, CatAssociative, ZenonT(60)
        <5>7. Cat(Cat(Cat(sock[c], wbuf[c]), batch.queue), repaint)
                = Cat(Cat(sock[c], wbuf[c]), Cat(batch.queue, repaint))
          BY <5>2, <5>3, CatAssociative
        <5> QED
          BY <5>1, <5>4, <5>5, <5>6, <5>7
      <4>2. y \in Seq(ToClient)
        BY <1>4, <1>6, ConcatProperties
      <4>3. sock[c] \o wbuf[c] \in Seq(ToClient)
        BY <1>4, ConcatProperties
      <4> QED
        BY <1>15, <2>1, <4>1, <4>2, <4>3 DEF kept, Cat
    <3>2. DrawnAll(shown[c], sock'[c] \o wbuf'[c]) = DrawnAll(x, y)
      <4>1. PICK a \in Seq(ToClient), z \in Seq(ToClient) : a = sock[c] \o wbuf[c] /\ z = y
        BY <3>1
      <4>2. DrawnAll(shown[c], a \o z) = DrawnAll(DrawnAll(shown[c], a), z)
        BY DrawnConcat
      <4> QED
        BY <3>1, <4>1, <4>2
    <3>3. CASE NeedsReplay(c, batch)
      <4>1. y = Append(batch.queue, Replay(term)) /\ Replay(term) \in ToClient
        BY <1>4, <3>3, AppendIsConcat, FramesTyped DEF repaint
      <4>2. \A z : DrawnAll(z, Append(batch.queue, Replay(term)))
                     = Drawn(DrawnAll(z, batch.queue), Replay(term))
        BY <1>4, <4>1, DrawnAppend
      <4>3. \A z : Drawn(z, Replay(term)) = term
        BY DEF Drawn, Replay
      <4> QED
        BY <3>2, <4>1, <4>2, <4>3
    <3>4. CASE ~ NeedsReplay(c, batch)
      <4>1. y = batch.queue
        BY <1>4, <3>4, ConcatEmptySeq DEF repaint
      <4>2. \A i \in 1 .. Len(batch.queue) : Quiet(batch.queue[i])
        <5>1. \A i \in 1 .. Len(batch.queue) : batch.queue[i] = Frame("Reply")
          BY <1>2
        <5> QED
          BY <5>1 DEF Quiet, Frame
      <4>3. \A z : DrawnAll(z, batch.queue) = z
        BY <1>4, <4>2, DrawnQuiet
      <4>4. x = term
        <5>1. CASE term = 0
          <6>1. /\ shown[c] = 0
                /\ \A i \in 1 .. Len(wbuf[c]) : Quiet(wbuf[c][i])
                /\ \A i \in 1 .. Len(sock[c]) : Quiet(sock[c][i])
            BY <1>1, <5>1 DEF ClientInv, NothingYet
          <6>2. DrawnAll(shown[c], sock[c]) = shown[c]
            BY <1>4, <6>1, DrawnQuiet
          <6>3. DrawnAll(shown[c], wbuf[c]) = shown[c]
            BY <1>4, <6>1, DrawnQuiet
          <6>4. x = DrawnAll(DrawnAll(shown[c], sock[c]), wbuf[c])
            BY <1>4, DrawnConcat
          <6> QED
            BY <5>1, <6>1, <6>2, <6>3, <6>4
        <5>2. CASE ~ batch.init
          <6>1. ~ AwaitsReplay(c)
            BY <1>2, <1>3, <2>1, <2>2, <5>2 DEF AwaitsReplay
          <6> QED
            BY <1>1, <5>2, <6>1 DEF ClientInv, Mirrors
        <5> QED
          BY <1>2, <1>4, <3>4, <5>1, <5>2 DEF NeedsReplay
      <4> QED
        BY <3>2, <4>1, <4>3, <4>4
    <3> QED
      BY <3>3, <3>4
  <2> QED
    BY <2>3, <2>4, <2>5, <2>6, <2>7 DEF ClientInv
<1> QED
  BY <1>19, <1>20, <1>22, <1>23, <1>24 DEF IInv

\* Teardown: every listed client is owed an Exit, behind all else.
LEMMA ReapStep == ASSUME IInv, Reap PROVE IInv'
<1>1. TypeOK /\ DaemonType /\ ClientType
  BY DEF IInv, TypeOK
<1>2. /\ phase = "teardown" /\ phase' = "farewell" /\ shell' = "exited"
      /\ wbuf' = [c \in Clients |->
                    IF c \in Range(clients) THEN ExitFrames(c, Status) ELSE wbuf[c]]
      /\ readable' = {} /\ writable' = Range(clients)
      /\ UNCHANGED <<sigterm, term, pty, clients, size, stale, written, clientVars>>
  BY DEF Reap
<1>3. Exit(Status) \in ToClient /\ Exit(Status).tag = "Exit"
  <2>1. Status \in Int
    BY DEF Status, ExitStatus, KilledStatus
  <2> QED
    BY <2>1, FramesTyped DEF Exit
<1> DEFINE last == Exit(Status)
<1> HIDE DEF last
<1>4. wbuf' = [c \in Clients |-> IF c \in Range(clients) THEN Append(wbuf[c], last) ELSE wbuf[c]]
  BY <1>2 DEF ExitFrames, last
<1>5. last \in ToClient /\ last.tag = "Exit"
  BY <1>3 DEF last
<1>6. TypeOK'
  <2>1. wbuf' \in [Clients -> Seq(ToClient)]
    BY <1>1, <1>4, <1>5 DEF DaemonType
  <2>2. Range(clients) \subseteq Clients
    BY <1>1, RangeOfSeq DEF DaemonType
  <2>3. DaemonType'
    BY <1>1, <1>2, <2>1, <2>2 DEF DaemonType, Ending
  <2>4. ShellType' /\ ClientType'
    BY <1>1, <1>2 DEF TypeOK, ShellType, ClientType, clientVars
  <2> QED
    BY <2>3, <2>4 DEF TypeOK
<1>7. PtyIsSmallestClient'
  BY <1>2 DEF PtyIsSmallestClient, Serving
<1>8. ASSUME NEW c \in Clients PROVE ClientInv(c)'
  <2>0. ClientInv(c) /\ phase \notin Ending /\ phase' \in Ending
    BY <1>2, <1>8 DEF IInv, Ending
  <2>1. UNCHANGED <<proc, open, inq, sock, shown, inited, code, term, clients, size>>
    BY <1>2 DEF clientVars
  <2>2. CASE c \notin Range(clients)
    <3>1. Same(c)
      BY <1>4, <1>8, <2>1, <2>2 DEF Same
    <3>2. PhaseGoesOn(c)
      BY <1>2, <2>2 DEF PhaseGoesOn, Ending
    <3> QED
      BY <1>2, <1>8, <2>0, <3>1, <3>2, Untouched
  <2>3. CASE c \in Range(clients)
    <3>1. wbuf[c] \in Seq(ToClient) /\ sock[c] \in Seq(ToClient)
      BY <1>1, <1>8 DEF DaemonType, ClientType
    <3>2. wbuf'[c] = Append(wbuf[c], last)
      BY <1>4, <1>8, <2>3
    <3>3. Connected(c)' /\ KillsAlone(c)' /\ Finished(c)'
      <4>1. Connected(c)'
        BY <1>2, <2>0, <2>1 DEF ClientInv, Connected
      <4>2. KillsAlone(c)'
        BY <2>0, <2>1 DEF ClientInv, KillsAlone
      <4>3. Finished(c)'
        BY <2>0, <2>1 DEF ClientInv, Finished, AwaitsReplay
      <4> QED
        BY <4>1, <4>2, <4>3
    <3>4. /\ Len(wbuf'[c]) = Len(wbuf[c]) + 1 /\ Len(wbuf[c]) \in Nat
          /\ \A i \in 1 .. Len(wbuf[c]) : wbuf'[c][i] = wbuf[c][i]
          /\ wbuf'[c][Len(wbuf[c]) + 1] = last /\ wbuf'[c] # << >>
      BY <1>5, <3>1, <3>2, AppendProperties
    <3>5. ExitEnds(c)'
      <4>1. \A i \in 1 .. Len(wbuf[c]) : wbuf[c][i].tag # "Exit"
        BY <2>0 DEF ClientInv, ExitEnds
      <4>2. \A i \in 1 .. Len(sock[c]) : sock[c][i].tag # "Exit"
        BY <2>0 DEF ClientInv, ExitEnds
      <4>3. \A i \in 1 .. Len(wbuf'[c]) : wbuf'[c][i].tag = "Exit" => i = Len(wbuf'[c])
        BY <3>4, <4>1
      <4> QED
        BY <2>0, <2>1, <3>4, <4>2, <4>3 DEF ExitEnds
    <3>6. NothingYet(c)'
      <4>1. Quiet(last)
        BY <1>5 DEF Quiet
      <4>2. term = 0 => \A i \in 1 .. Len(wbuf'[c]) : Quiet(wbuf'[c][i])
        BY <2>0, <3>4, <4>1 DEF ClientInv, NothingYet
      <4> QED
        BY <2>0, <2>1, <4>2 DEF ClientInv, NothingYet
    <3>7. Mirrors(c)'
      <4> SUFFICES ASSUME proc[c] = "attached", inited[c], ~ AwaitsReplay(c)
                   PROVE  DrawnAll(shown[c], sock[c] \o wbuf'[c]) = term
        BY <2>1 DEF Mirrors, AwaitsReplay
      <4>1. DrawnAll(shown[c], sock[c] \o wbuf[c]) = term
        BY <2>0 DEF ClientInv, Mirrors
      <4>2. PICK s \in Seq(ToClient), w \in Seq(ToClient) : s = sock[c] /\ w = wbuf[c]
        BY <3>1
      <4>3. s \o Append(w, last) = Append(s \o w, last) /\ s \o w \in Seq(ToClient)
        BY <1>5, ConcatAppend
      <4>4. DrawnAll(shown[c], Append(s \o w, last)) = Drawn(term, last)
        BY <1>5, <4>1, <4>2, <4>3, DrawnAppend
      <4>5. Drawn(term, last) = term
        BY <1>5 DEF Drawn
      <4> QED
        BY <3>2, <4>2, <4>3, <4>4, <4>5
    <3> QED
      BY <3>3, <3>5, <3>6, <3>7 DEF ClientInv
  <2> QED
    BY <2>2, <2>3
<1> QED
  BY <1>6, <1>7, <1>8 DEF IInv

\* What taking the head off a queue leaves.
LEMMA HeadTaken ==
    ASSUME NEW S, NEW r \in Seq(S), r # << >>
    PROVE  /\ 1 \in 1 .. Len(r) /\ Head(r) = r[1]
           /\ \A i \in 1 .. Len(Tail(r)) :
                 /\ i + 1 \in 1 .. Len(r) /\ Tail(r)[i] = r[i + 1]
                 /\ i + 1 = Len(r) => i = Len(Tail(r))
           /\ Len(r) = 1 <=> Tail(r) = << >>
<1>1. PICK n \in Nat : n = Len(r) /\ n >= 1
  BY EmptySeq
<1>2. PICK t \in Seq(S) : t = Tail(r) /\ Len(t) = n - 1 /\ \A i \in 1 .. Len(t) : t[i] = r[i + 1]
  BY <1>1, HeadTailProperties
<1>3. 1 \in 1 .. Len(r) /\ Head(r) = r[1]
  BY <1>1
<1>4. ASSUME NEW i \in 1 .. Len(t)
      PROVE  i + 1 \in 1 .. n /\ t[i] = r[i + 1] /\ (i + 1 = n => i = Len(t))
  <2>1. i \in 1 .. n - 1 /\ Len(t) = n - 1
    BY <1>2, <1>4
  <2>2. i + 1 \in 1 .. n /\ (i + 1 = n => i = n - 1)
    BY <2>1
  <2> QED
    BY <1>2, <1>4, <2>1, <2>2
<1>5. n = 1 <=> t = << >>
  <2>1. t = << >> => Len(t) = 0
    BY EmptySeq
  <2>2. t # << >> => Len(t) \in Nat \ {0}
    BY EmptySeq
  <2> QED
    BY <1>2, <2>1, <2>2
<1> QED
  BY <1>1, <1>2, <1>3, <1>4, <1>5

LEMMA HeadMoved ==
    ASSUME NEW S, NEW q \in Seq(S), NEW r \in Seq(S), r # << >>
    PROVE  Append(q, Head(r)) \o Tail(r) = q \o r
<1>1. PICK f \in S, t \in Seq(S) : f = Head(r) /\ t = Tail(r)
  BY HeadTailProperties
<1>2. PICK h \in Seq(S) : h = <<f>>
  <2>1. <<f>> \in Seq(S)
    BY AppendIsConcat
  <2> QED
    BY <2>1
<1>3. Append(q, f) = q \o h
  BY <1>2, AppendIsConcat
<1>4. r = h \o t
  <2>1. /\ h \o t \in Seq(S) /\ Len(h \o t) = Len(h) + Len(t)
        /\ \A i \in 1 .. Len(h) + Len(t) : (h \o t)[i] = IF i <= Len(h) THEN h[i] ELSE t[i - Len(h)]
    BY ConcatProperties
  <2>2. Len(h) = 1 /\ h[1] = f
    BY <1>2
  <2>3. Len(t) = Len(r) - 1 /\ (\A i \in 1 .. Len(t) : t[i] = r[i + 1]) /\ f = r[1]
    BY <1>1, HeadTailProperties, HeadTaken
  <2>4. PICK n \in Nat : n = Len(r) /\ n >= 1
    BY EmptySeq
  <2>5. PICK g \in Seq(S) : g = h \o t
    BY <2>1
  <2>6. Len(g) = n
    BY <2>1, <2>2, <2>3, <2>4, <2>5
  <2>7. ASSUME NEW i \in 1 .. n PROVE g[i] = r[i]
    <3>1. CASE i = 1
      BY <2>1, <2>2, <2>3, <2>4, <2>5, <3>1
    <3>2. CASE i # 1
      <4>1. i - 1 \in 1 .. Len(t) /\ (i - 1) + 1 = i /\ i \in 1 .. Len(h) + Len(t) /\ ~(i <= Len(h))
        BY <2>2, <2>3, <2>4, <2>7, <3>2
      <4>2. g[i] = t[i - 1]
        BY <2>1, <2>2, <2>5, <4>1
      <4> QED
        BY <2>3, <4>1, <4>2
    <3> QED
      BY <3>1, <3>2
  <2> QED
    BY <2>4, <2>5, <2>6, <2>7, SeqEqual
<1>5. (q \o h) \o t = q \o (h \o t)
  <2>1. q \in Seq(S) /\ h \in Seq(S) /\ t \in Seq(S)
    BY <1>1, <1>2
  <2> QED
    BY ONLY <2>1, ConcatAssociative
<1> QED
  BY <1>1, <1>3, <1>4, <1>5

\* One frame goes from the queue to the socket, or the client is given up.
LEMMA FarewellStep == ASSUME IInv, NEW c \in Clients, Farewell(c) PROVE IInv'
<1>1. TypeOK /\ DaemonType /\ ClientType /\ ClientInv(c)
  BY DEF IInv, TypeOK
<1>2. /\ phase = "farewell" /\ c \in writable
      /\ UNCHANGED <<phase, sigterm, term, pty, clients, size, readable, stale, shell, written,
                     proc, open, inq, shown, inited, code, sends>>
      /\ \/ /\ sock' = [sock EXCEPT ![c] = Append(@, Head(wbuf[c]))]
            /\ wbuf' = [wbuf EXCEPT ![c] = Tail(@)]
            /\ writable' = IF Len(wbuf[c]) = 1 THEN writable \ {c} ELSE writable
         \/ writable' = writable \ {c} /\ UNCHANGED <<sock, wbuf>>
  BY DEF Farewell, shellVars
<1>3. PICK w \in Seq(ToClient), s \in Seq(ToClient) : w = wbuf[c] /\ s = sock[c]
  BY <1>1 DEF DaemonType, ClientType
<1>4. w # << >>
  BY <1>1, <1>2, <1>3 DEF ClientInv, ExitEnds
<1>5. /\ Head(w) \in ToClient /\ Tail(w) \in Seq(ToClient) /\ Len(Tail(w)) = Len(w) - 1
      /\ \A i \in 1 .. Len(Tail(w)) : Tail(w)[i] = w[i + 1]
      /\ Head(w) = w[1] /\ Len(w) \in Nat /\ Len(w) >= 1
  BY <1>4, HeadTailProperties
<1>6. /\ Append(s, Head(w)) \in Seq(ToClient) /\ Len(Append(s, Head(w))) = Len(s) + 1
      /\ \A i \in 1 .. Len(s) : Append(s, Head(w))[i] = s[i]
      /\ Append(s, Head(w))[Len(s) + 1] = Head(w) /\ Len(s) \in Nat
  BY <1>5, AppendProperties
<1>7. writable' \subseteq writable
  BY <1>2
<1>8. /\ sock' \in [Clients -> Seq(ToClient)] /\ wbuf' \in [Clients -> Seq(ToClient)]
      /\ \A d \in Clients \ {c} : sock'[d] = sock[d] /\ wbuf'[d] = wbuf[d]
      /\ \/ sock'[c] = s /\ wbuf'[c] = w /\ c \notin writable'
         \/ /\ sock'[c] = Append(s, Head(w)) /\ wbuf'[c] = Tail(w)
            /\ c \in writable' => Len(w) # 1
  <2>1. CASE /\ sock' = [sock EXCEPT ![c] = Append(@, Head(wbuf[c]))]
             /\ wbuf' = [wbuf EXCEPT ![c] = Tail(@)]
             /\ writable' = IF Len(wbuf[c]) = 1 THEN writable \ {c} ELSE writable
    <3>1. sock' = [sock EXCEPT ![c] = Append(s, Head(w))] /\ wbuf' = [wbuf EXCEPT ![c] = Tail(w)]
      BY <1>3, <2>1
    <3>2. c \in writable' => Len(w) # 1
      BY <1>3, <2>1
    <3> QED
      BY <1>1, <1>5, <1>6, <3>1, <3>2 DEF DaemonType, ClientType
  <2>2. CASE writable' = writable \ {c} /\ UNCHANGED <<sock, wbuf>>
    BY <1>1, <1>3, <2>2 DEF DaemonType, ClientType
  <2> QED
    BY <1>2, <2>1, <2>2
<1>9. TypeOK'
  <2>1. DaemonType'
    BY <1>1, <1>2, <1>7, <1>8 DEF DaemonType
  <2>2. ShellType' /\ ClientType'
    BY <1>1, <1>2, <1>8 DEF TypeOK, ShellType, ClientType
  <2> QED
    BY <2>1, <2>2 DEF TypeOK
<1>10. PtyIsSmallestClient'
  BY <1>2 DEF PtyIsSmallestClient, Serving
<1>11. ASSUME NEW d \in Clients, d # c PROVE ClientInv(d)'
  <2>1. Same(d)
    BY <1>2, <1>8, <1>11 DEF Same
  <2>2. PhaseGoesOn(d) /\ ClientInv(d)
    BY <1>2, <1>7, <1>11 DEF PhaseGoesOn, IInv
  <2> QED
    BY <1>2, <1>11, <2>1, <2>2, Untouched
<1>12. CASE sock'[c] = s /\ wbuf'[c] = w /\ c \notin writable'
  <2>1. Same(c)
    BY <1>2, <1>3, <1>12 DEF Same
  <2>2. PhaseGoesOn(c)
    BY <1>2, <1>7 DEF PhaseGoesOn
  <2>3. ClientInv(c)'
    BY <1>1, <1>2, <2>1, <2>2, Untouched
  <2> QED
    BY <1>9, <1>10, <1>11, <2>3 DEF IInv
<1>13. CASE /\ sock'[c] = Append(s, Head(w)) /\ wbuf'[c] = Tail(w)
            /\ c \in writable' => Len(w) # 1
  <2>1. Connected(c)' /\ Finished(c)'
    BY <1>1, <1>2 DEF ClientInv, Connected, Finished, AwaitsReplay
  <2>2. KillsAlone(c)'
    BY <1>1, <1>2 DEF ClientInv, KillsAlone
  <2>3. ExitEnds(c)'
    <3>1. \A i \in 1 .. Len(s) : s[i].tag # "Exit"
      BY <1>1, <1>3, <1>4 DEF ClientInv, ExitEnds
    <3>2. \A i \in 1 .. Len(w) : w[i].tag = "Exit" => i = Len(w)
      BY <1>1, <1>3 DEF ClientInv, ExitEnds
    <3>3. \A i \in 1 .. Len(Tail(w)) : Tail(w)[i].tag = "Exit" => i = Len(Tail(w))
      <4> TAKE i \in 1 .. Len(Tail(w))
      <4>1. i + 1 \in 1 .. Len(w) /\ Tail(w)[i] = w[i + 1] /\ (i + 1 = Len(w) => i = Len(Tail(w)))
        BY <1>4, HeadTaken
      <4> QED
        BY <3>2, <4>1
    <3>4. Head(w).tag = "Exit" => Len(w) = 1
      <4>1. 1 \in 1 .. Len(w) /\ Head(w) = w[1]
        BY <1>4, HeadTaken
      <4> QED
        BY <3>2, <4>1
    <3>5. Len(w) = 1 <=> Tail(w) = << >>
      BY <1>4, HeadTaken
    <3>6. \A i \in 1 .. Len(Append(s, Head(w))) :
             Append(s, Head(w))[i].tag = "Exit"
               => i = Len(Append(s, Head(w))) /\ Tail(w) = << >>
      BY <1>6, <3>1, <3>4, <3>5
    <3>7. phase' \in Ending
      BY <1>2 DEF Ending
    <3> QED
      BY <1>13, <3>3, <3>5, <3>6, <3>7 DEF ExitEnds
  <2>4. NothingYet(c)'
    <3> SUFFICES ASSUME term = 0
                 PROVE  /\ shown[c] = 0
                        /\ \A i \in 1 .. Len(Tail(w)) : Quiet(Tail(w)[i])
                        /\ \A i \in 1 .. Len(Append(s, Head(w))) : Quiet(Append(s, Head(w))[i])
      BY <1>2, <1>13 DEF NothingYet
    <3>1. /\ shown[c] = 0
          /\ \A i \in 1 .. Len(w) : Quiet(w[i])
          /\ \A i \in 1 .. Len(s) : Quiet(s[i])
      BY <1>1, <1>3 DEF ClientInv, NothingYet
    <3>2. \A i \in 1 .. Len(Tail(w)) : i + 1 \in 1 .. Len(w)
      BY <1>4, HeadTaken
    <3>3. \A i \in 1 .. Len(Tail(w)) : Quiet(Tail(w)[i])
      BY <1>5, <3>1, <3>2
    <3>4. Quiet(Head(w))
      BY <1>4, <3>1, HeadTaken
    <3> QED
      BY <1>6, <3>1, <3>3, <3>4
  <2>5. Mirrors(c)'
    <3>1. Append(s, Head(w)) \o Tail(w) = s \o w
      BY <1>4, HeadMoved
    <3> QED
      BY <1>1, <1>2, <1>3, <1>13, <3>1 DEF ClientInv, Mirrors, AwaitsReplay
  <2> QED
    BY <1>9, <1>10, <1>11, <2>1, <2>2, <2>3, <2>4, <2>5 DEF IInv, ClientInv
<1> QED
  BY <1>8, <1>12, <1>13

LEMMA ExitsStep == ASSUME IInv, DaemonExits PROVE IInv'
<1>1. TypeOK /\ DaemonType /\ ClientType
  BY DEF IInv, TypeOK
<1>2. /\ phase = "farewell" /\ phase' = "gone" /\ clients' = << >>
      /\ open' = [c \in Clients |-> FALSE]
      /\ UNCHANGED <<sigterm, term, pty, size, wbuf, readable, writable, stale, shell, written,
                     proc, inq, sock, shown, inited, code, sends>>
  BY DEF DaemonExits, polled, shellVars
<1>3. TypeOK'
  <2>1. DaemonType'
    BY <1>1, <1>2 DEF DaemonType, Ending
  <2>2. ShellType' /\ ClientType'
    BY <1>1, <1>2 DEF TypeOK, ShellType, ClientType
  <2> QED
    BY <2>1, <2>2 DEF TypeOK
<1>4. PtyIsSmallestClient'
  BY <1>2 DEF PtyIsSmallestClient, Serving
<1>5. ASSUME NEW c \in Clients PROVE ClientInv(c)'
  <2>1. Same(c)
    BY <1>2, <1>5 DEF Same, Range
  <2>2. PhaseGoesOn(c) /\ ClientInv(c)
    BY <1>2, <1>5 DEF PhaseGoesOn, IInv, Ending
  <2> QED
    BY <1>2, <1>5, <2>1, <2>2, Untouched
<1> QED
  BY <1>3, <1>4, <1>5 DEF IInv

-----------------------------------------------------------------------------
\* The invariant holds for any set of clients, sizes, backlogs and socket
\* buffers, in every order in which daemon_loop, the shell, signals and the
\* clients take their steps.
THEOREM DaemonInvariant == Spec => []IInv
<1>1. IInv /\ [Next]_vars => IInv'
  <2> SUFFICES ASSUME IInv, [Next]_vars PROVE IInv'
    OBVIOUS
  <2>1. CASE \/ ShellWrites \/ ShellExits \/ SigtermArrives \/ Sigterm \/ PtyEof
             \/ UNCHANGED vars
    BY <2>1, PhaseSteps
  <2>2. ASSUME NEW c \in Clients, ClientNext(c) PROVE IInv'
    BY <2>2, ClientSteps
  <2>3. CASE LoopTop
    BY <2>3, LoopTopStep
  <2>4. CASE Poll
    BY <2>4, PollStep
  <2>5. CASE PtyOutput
    BY <2>5, PtyOutputStep
  <2>6. ASSUME NEW c \in Clients, NEW n \in 0 .. MaxInq, ClientTraffic(c, n) PROVE IInv'
    <3>1. n \in Nat
      BY <2>6, DaemonAssumption
    <3>2. PICK batch, unread :
             /\ Turn(c, batch, unread)
             /\ KillFrame(c, batch, unread) \/ OtherFrames(c, batch, unread)
      BY <2>6, <3>1, TurnIs
    <3> QED
      BY <2>6, <3>2, KillStep, OtherStep
  <2>7. CASE Reap
    BY <2>7, ReapStep
  <2>8. ASSUME NEW c \in Clients, Farewell(c) PROVE IInv'
    BY <2>8, FarewellStep
  <2>9. CASE DaemonExits
    BY <2>9, ExitsStep
  <2>10. Done => UNCHANGED vars
    BY DEF Done
  <2> QED
    BY <2>1, <2>2, <2>3, <2>4, <2>5, <2>6, <2>7, <2>8, <2>9, <2>10 DEF Next, DaemonNext
<1> QED
  BY <1>1, InitIInv, PTL DEF Spec

\* apply_client_size: whichever clients come, resize, fall behind and go, the
\* pty is never larger than the terminal of a client that has reported a size,
\* and is the elementwise minimum unless the slow-client drop came last.
THEOREM PtyFitsEveryClient == Spec => []PtyIsSmallestClient
<1>1. IInv => PtyIsSmallestClient
  BY DEF IInv
<1> QED
  BY <1>1, DaemonInvariant, PTL

\* Broadcast, replay and partial writes: what is queued for an initialised
\* client always completes its screen to the model's, with no chunk lost,
\* repeated or overtaken by a replay.
THEOREM EveryClientMirrors == Spec => []ClientMirrorsModel
<1>1. IInv => ClientMirrorsModel
  BY DEF IInv, ClientInv, Mirrors, ClientMirrorsModel, InSession
<1> QED
  BY <1>1, DaemonInvariant, PTL

\* The Exit that daemon_main queues is the last frame a client gets: one that
\* leaves with the session's exit code has drawn everything the model has.
THEOREM ExitIsLast == Spec => []ExitComesLast
<1>1. IInv => ExitComesLast
  BY DEF IInv, ClientInv, Finished, ExitComesLast
<1> QED
  BY <1>1, DaemonInvariant, PTL
=============================================================================
