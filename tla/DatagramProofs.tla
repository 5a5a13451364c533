--------------------------- MODULE DatagramProofs ---------------------------
(***************************************************************************)
(* The datagram layer for any window width, any number of datagrams and    *)
(* any addresses: the replay window remembers exactly what it must, so     *)
(* nothing is handed on twice and no timely first arrival is refused, and  *)
(* the return path follows the client.                                     *)
(***************************************************************************)
EXTENDS Datagram, SequenceTheorems, TLAPS

ReplayWindow == [highest : Nat, bitmap : SUBSET (0 .. Window - 1),
                 initialized : BOOLEAN]

\* The numbers a log of deliveries holds.
Numbers(s) == {s[i] : i \in 1 .. Len(s)}

\* The window remembers the numbers in `got': the newest is in it, and the
\* bitmap has a bit for each of the others that is close enough.
Remembers(w, got) ==
    /\ ~w.initialized => got = {}
    /\ w.initialized =>
         /\ w.highest \in got
         /\ \A s \in got : s <= w.highest
         /\ \A d \in 0 .. Window - 1 :
               d \in w.bitmap <=> w.highest - d \in got

LEMMA NumbersOfAppend ==
    ASSUME NEW s \in Seq(Nat), NEW x \in Nat
    PROVE  /\ Append(s, x) \in Seq(Nat)
           /\ Numbers(Append(s, x)) = Numbers(s) \cup {x}
<1>1. /\ Append(s, x) \in Seq(Nat) /\ Len(s) \in Nat
      /\ Len(Append(s, x)) = Len(s) + 1
      /\ \A i \in 1 .. Len(s) : Append(s, x)[i] = s[i]
      /\ Append(s, x)[Len(s) + 1] = x
  BY AppendProperties
<1>2. ASSUME NEW y \in Numbers(Append(s, x)) PROVE y \in Numbers(s) \cup {x}
  <2>1. PICK i \in 1 .. Len(s) + 1 : y = Append(s, x)[i]
    BY <1>1 DEF Numbers
  <2>2. i \in 1 .. Len(s) \/ i = Len(s) + 1
    BY <1>1
  <2> QED
    BY <1>1, <2>1, <2>2 DEF Numbers
<1>3. ASSUME NEW y \in Numbers(s) PROVE y \in Numbers(Append(s, x))
  <2>1. PICK i \in 1 .. Len(s) : y = s[i]
    BY DEF Numbers
  <2>2. i \in 1 .. Len(s) + 1
    BY <1>1
  <2> QED
    BY <1>1, <2>1, <2>2 DEF Numbers
<1>4. x \in Numbers(Append(s, x))
  <2>1. Len(s) + 1 \in 1 .. Len(s) + 1
    BY <1>1
  <2> QED
    BY <1>1, <2>1 DEF Numbers
<1> QED
  BY <1>1, <1>2, <1>3, <1>4

\* ReplayWindow::check: what it lets through is new, and it remembers it.
LEMMA CheckRemembers ==
    ASSUME NEW w \in ReplayWindow, NEW got \in SUBSET Nat, Remembers(w, got),
           NEW seq \in Nat, ~Refuses(w, seq)
    PROVE  /\ seq \notin got
           /\ Checked(w, seq) \in ReplayWindow
           /\ Remembers(Checked(w, seq), got \cup {seq})
           /\ Checked(w, seq).initialized
           /\ Checked(w, seq).highest
                = IF w.initialized /\ seq <= w.highest THEN w.highest ELSE seq
<1>0. Window \in Nat \ {0}
  BY DatagramAssumption
<1>a. w.highest \in Nat /\ w.bitmap \in SUBSET (0 .. Window - 1)
  BY DEF ReplayWindow
<1>1. CASE ~w.initialized
  <2>1. got = {}
    BY <1>1 DEF Remembers
  <2>2. Checked(w, seq) = [highest |-> seq, bitmap |-> {0}, initialized |-> TRUE]
    BY <1>1 DEF Checked
  <2>3. \A d \in 0 .. Window - 1 : d \in {0} <=> seq - d \in {seq}
    BY <1>0
  <2>4. {0} \in SUBSET (0 .. Window - 1)
    BY <1>0
  <2> QED
    BY <1>1, <2>1, <2>2, <2>3, <2>4 DEF ReplayWindow, Remembers
<1>2. CASE w.initialized /\ seq > w.highest
  <2>1. /\ w.highest \in got /\ \A s \in got : s <= w.highest
        /\ \A d \in 0 .. Window - 1 : d \in w.bitmap <=> w.highest - d \in got
    BY <1>2 DEF Remembers
  <2> DEFINE bits == Shifted(w.bitmap, seq - w.highest)
             c == [highest |-> seq, bitmap |-> bits, initialized |-> TRUE]
  <2>2. Checked(w, seq) = c
    <3>1. w = [highest |-> w.highest, bitmap |-> w.bitmap,
               initialized |-> TRUE]
      BY <1>2 DEF ReplayWindow
    <3> QED
      BY <1>2, <3>1, <1>a DEF Checked
  <2>3. bits \in SUBSET (0 .. Window - 1)
    BY <1>0 DEF Shifted
  <2>4. ASSUME NEW d \in 0 .. Window - 1
        PROVE  d \in bits <=> seq - d \in got \cup {seq}
    <3>0. d \in Nat
      BY <1>0
    <3>1. CASE d = 0
      BY <3>1, <1>0 DEF Shifted
    <3>2. CASE d # 0
      <4>1. seq - d # seq
        BY <3>0, <3>2
      <4>2. d \in bits <=> d - (seq - w.highest) \in w.bitmap
        BY <3>2 DEF Shifted
      <4>3. PICK k \in Int : k = d - (seq - w.highest)
        BY <1>a, <3>0
      <4>4. w.highest - k = seq - d /\ k <= Window - 1
        BY <1>0, <1>2, <1>a, <3>0, <4>3
      <4>5. CASE k >= 0
        <5>1. k \in 0 .. Window - 1
          BY <1>0, <4>4, <4>5
        <5>2. k \in w.bitmap <=> seq - d \in got
          BY <2>1, <4>4, <5>1
        <5> QED
          BY <4>1, <4>2, <4>3, <5>2
      <4>6. CASE k < 0
        <5>1. k \notin w.bitmap
          BY <1>0, <1>a, <4>6
        <5>2. seq - d > w.highest
          BY <1>a, <3>0, <4>3, <4>6
        <5>3. seq - d \notin got
          <6> SUFFICES ASSUME seq - d \in got PROVE FALSE
            OBVIOUS
          <6>1. seq - d <= w.highest
            BY <2>1
          <6> QED
            BY <1>a, <3>0, <5>2, <6>1
        <5> QED
          BY <4>1, <4>2, <4>3, <5>1, <5>3
      <4> QED
        BY <4>5, <4>6
    <3> QED
      BY <3>1, <3>2
  <2>5. seq \notin got /\ \A s \in got \cup {seq} : s <= seq
    BY <1>2, <1>a, <2>1
  <2> HIDE DEF bits
  <2>6. c \in ReplayWindow /\ Remembers(c, got \cup {seq})
    BY <2>3, <2>4, <2>5 DEF ReplayWindow, Remembers
  <2> QED
    BY <1>2, <1>a, <2>2, <2>5, <2>6
<1>3. CASE w.initialized /\ seq <= w.highest
  <2>1. /\ w.highest \in got /\ \A s \in got : s <= w.highest
        /\ \A d \in 0 .. Window - 1 : d \in w.bitmap <=> w.highest - d \in got
    BY <1>3 DEF Remembers
  <2>2. PICK k \in Nat : k = w.highest - seq
    BY <1>3, <1>a
  <2>3. k \in 0 .. Window - 1 /\ k \notin w.bitmap /\ w.highest - k = seq
    BY <1>0, <1>3, <1>a, <2>2 DEF Refuses
  <2>4. seq \notin got
    BY <2>1, <2>3
  <2> DEFINE bits == w.bitmap \cup {k}
             c == [highest |-> w.highest, bitmap |-> bits, initialized |-> TRUE]
  <2>5. Checked(w, seq) = c
    <3>1. w = [highest |-> w.highest, bitmap |-> w.bitmap,
               initialized |-> TRUE]
      BY <1>3 DEF ReplayWindow
    <3>2. ~(seq > w.highest)
      BY <1>3, <1>a
    <3> QED
      BY <1>3, <3>1, <3>2, <2>2 DEF Checked
  <2>6. bits \in SUBSET (0 .. Window - 1)
    BY <1>a, <2>3
  <2>7. ASSUME NEW d \in 0 .. Window - 1
        PROVE  d \in bits <=> w.highest - d \in got \cup {seq}
    <3>0. d \in Nat
      BY <1>0
    <3>1. w.highest - d = seq <=> d = k
      BY <1>a, <2>2, <3>0
    <3> QED
      BY <2>1, <3>1
  <2> HIDE DEF bits
  <2>8. c \in ReplayWindow /\ Remembers(c, got \cup {seq})
    BY <1>3, <1>a, <2>1, <2>6, <2>7 DEF ReplayWindow, Remembers
  <2> QED
    BY <1>3, <2>4, <2>5, <2>8
<1> QED
  BY <1>1, <1>2, <1>3, <1>a

-----------------------------------------------------------------------------
\* Each end's window remembers what it has handed on, and the number recv()
\* expects next is the one behind the newest.
WindowsExact ==
    \A e \in End :
        /\ Remembers(replay[e], Numbers(delivered[e]))
        /\ expected_seq[e] = IF replay[e].initialized
                             THEN replay[e].highest + 1 ELSE 0

\* What the client has sealed since it moved last, it sealed at its present
\* address, and the server has been handed nothing the client did not seal.
SealedHere ==
    /\ moved_at <= next_seq["client"]
    /\ \A p \in network :
          p.dir = "client" => /\ p.seq < next_seq["client"]
                              /\ p.seq >= moved_at => p.from = addr
    /\ \A s \in Numbers(delivered["server"]) : s < next_seq["client"]

\* The return path is right as soon as the newest datagram is recent.
PathFollowsNewest ==
    replay["server"].initialized /\ replay["server"].highest >= moved_at
       => remote = {addr}

IInv ==
    /\ TypeOK
    /\ WindowsExact
    /\ AtMostOnce
    /\ SealedHere
    /\ PathFollowsNewest

LEMMA InitIInv == Init => IInv
<1> SUFFICES ASSUME Init PROVE IInv
  OBVIOUS
<1>1. \A e \in End : delivered[e] = << >> /\ Len(delivered[e]) = 0
  BY DEF Init
<1>2. \A e \in End : Numbers(delivered[e]) = {}
  BY <1>1 DEF Numbers
<1>3. TypeOK
  BY DatagramAssumption DEF Init, TypeOK
<1>4. WindowsExact
  BY <1>2 DEF Init, WindowsExact, Remembers
<1>5. AtMostOnce
  BY <1>1 DEF AtMostOnce
<1>6. SealedHere
  BY <1>2 DEF Init, SealedHere, End
<1>7. PathFollowsNewest
  BY DEF Init, PathFollowsNewest, End
<1> QED
  BY <1>3, <1>4, <1>5, <1>6, <1>7 DEF IInv

LEMMA SendIInv ==
    ASSUME IInv, NEW e \in End, Send(e)
    PROVE  IInv'
<1>0. next_seq \in [End -> Nat] /\ addr \in Addr /\ "client" \in End
  BY DEF IInv, TypeOK, End
<1>1. /\ network' = network \cup
           {[dir |-> e, seq |-> next_seq[e], from |-> addr]}
      /\ next_seq' = [next_seq EXCEPT ![e] = @ + 1]
      /\ UNCHANGED <<replay, expected_seq, remote, addr, roams, delivered,
                     moved_at>>
  BY DEF Send
<1>2. next_seq' \in [End -> Nat]
  BY <1>0, <1>1
<1>3. TypeOK'
  BY <1>0, <1>1, <1>2, SMTT(30) DEF IInv, TypeOK
<1>4. PICK n \in Nat : /\ n = next_seq'["client"]
                       /\ next_seq["client"] <= n
                       /\ e = "client" => n = next_seq["client"] + 1
  BY <1>0, <1>1
<1>5. SealedHere'
  <2>0. next_seq["client"] \in Nat /\ moved_at \in Nat
    BY <1>0 DEF IInv, TypeOK
  <2>1. moved_at <= n
    BY <1>4, <2>0 DEF IInv, SealedHere
  <2>2. ASSUME NEW p \in network', p.dir = "client"
        PROVE  p.seq < n /\ (p.seq >= moved_at => p.from = addr)
    <3>1. CASE p \in network
      <4>1. p.seq \in Nat /\ p.seq < next_seq["client"]
        BY <2>2, <3>1 DEF IInv, TypeOK, SealedHere
      <4> QED
        BY <1>4, <2>0, <2>2, <3>1, <4>1 DEF IInv, SealedHere
    <3>2. CASE p = [dir |-> e, seq |-> next_seq[e], from |-> addr]
      BY <1>4, <2>0, <2>2, <3>2
    <3> QED
      BY <1>1, <3>1, <3>2
  <2>3. ASSUME NEW s \in Numbers(delivered["server"]) PROVE s < n
    <3>1. s < next_seq["client"]
      BY DEF IInv, SealedHere
    <3>2. s \in Nat
      <4>1. delivered["server"] \in Seq(Nat)
        BY DEF IInv, TypeOK, End
      <4> QED
        BY <4>1 DEF Numbers
    <3> QED
      BY <1>4, <2>0, <3>1, <3>2
  <2> QED
    BY <1>1, <1>4, <2>1, <2>2, <2>3 DEF SealedHere
<1> QED
  BY <1>1, <1>3, <1>5 DEF IInv, WindowsExact, AtMostOnce, PathFollowsNewest

LEMMA RoamIInv ==
    ASSUME IInv, NEW a \in Addr, Roam(a)
    PROVE  IInv'
<1>0. /\ next_seq["client"] \in Nat /\ roams \in Nat
      /\ replay["server"].highest \in Nat
      /\ delivered["server"] \in Seq(Nat)
  BY DEF IInv, TypeOK, End
<1>1. /\ addr' = a /\ roams' = roams + 1 /\ moved_at' = next_seq["client"]
      /\ UNCHANGED <<next_seq, replay, expected_seq, remote, network, delivered>>
  BY DEF Roam
<1>2. TypeOK'
  BY <1>0, <1>1 DEF IInv, TypeOK
<1>3. SealedHere'
  <2>1. ASSUME NEW p \in network, p.dir = "client"
        PROVE  p.seq \in Nat /\ p.seq < next_seq["client"]
    BY <2>1 DEF IInv, TypeOK, SealedHere
  <2> QED
    BY <1>0, <1>1, <2>1 DEF IInv, SealedHere
<1>4. PathFollowsNewest'
  <2>1. replay["server"].initialized
          => replay["server"].highest < next_seq["client"]
    BY DEF IInv, WindowsExact, Remembers, SealedHere, End
  <2> QED
    BY <1>0, <1>1, <2>1 DEF PathFollowsNewest
<1> QED
  BY <1>1, <1>2, <1>3, <1>4 DEF IInv, WindowsExact, AtMostOnce

LEMMA RecvIInv ==
    ASSUME IInv, NEW e \in End, NEW p \in network, Recv(e, p)
    PROVE  IInv'
<1>0. /\ p.seq \in Nat /\ p.from \in Addr /\ p.dir \in End
      /\ replay \in [End -> ReplayWindow]
      /\ expected_seq \in [End -> Nat]
      /\ delivered \in [End -> Seq(Nat)]
      /\ "server" \in End /\ "client" \in End
  BY DEF IInv, TypeOK, ReplayWindow, End
<1> DEFINE w == replay[e]
           got == Numbers(delivered[e])
           c == Checked(replay[e], p.seq)
<1>1. w \in ReplayWindow /\ delivered[e] \in Seq(Nat)
  BY <1>0
<1>2. got \in SUBSET Nat /\ Remembers(w, got)
  <2>1. \A i \in 1 .. Len(delivered[e]) : delivered[e][i] \in Nat
    BY <1>1
  <2>2. got \in SUBSET Nat
    BY <2>1 DEF Numbers
  <2> QED
    BY <2>2 DEF IInv, WindowsExact
<1>3. ~Refuses(w, p.seq) /\ p.dir # e
  BY DEF Recv, Opens
<1> HIDE DEF w, got
<1>4. /\ p.seq \notin got
      /\ Checked(w, p.seq) \in ReplayWindow
      /\ Remembers(Checked(w, p.seq), got \cup {p.seq})
      /\ Checked(w, p.seq).initialized
      /\ Checked(w, p.seq).highest
           = IF w.initialized /\ p.seq <= w.highest THEN w.highest ELSE p.seq
  BY <1>0, <1>1, <1>2, <1>3, CheckRemembers
<1> USE DEF w, got
<1> HIDE DEF c
<1>5. /\ c \in ReplayWindow /\ c.initialized
      /\ Remembers(c, got \cup {p.seq})
      /\ c.highest = IF w.initialized /\ p.seq <= w.highest
                     THEN w.highest ELSE p.seq
  BY <1>4 DEF c
<1>6. /\ replay' = [replay EXCEPT ![e] = c]
      /\ delivered' = [delivered EXCEPT ![e] = Append(delivered[e], p.seq)]
      /\ UNCHANGED <<next_seq, addr, roams, network, moved_at>>
  BY <1>0 DEF Recv, c
<1>7. /\ Append(delivered[e], p.seq) \in Seq(Nat)
      /\ Numbers(Append(delivered[e], p.seq)) = got \cup {p.seq}
  BY <1>0, <1>1, NumbersOfAppend
<1>8. /\ replay'[e] = c /\ delivered'[e] = Append(delivered[e], p.seq)
      /\ \A f \in End : f # e => /\ replay'[f] = replay[f]
                                 /\ delivered'[f] = delivered[f]
                                 /\ expected_seq'[f] = expected_seq[f]
  BY <1>0, <1>6 DEF Recv
<1>9. w.highest \in Nat /\ c.highest \in Nat
  BY <1>1, <1>5 DEF ReplayWindow
<1>10. /\ expected_seq' \in [End -> Nat]
       /\ expected_seq'[e] = c.highest + 1
  <2>1. expected_seq[e] = IF w.initialized THEN w.highest + 1 ELSE 0
    BY DEF IInv, WindowsExact
  <2>2. CASE IsNewest(e, p.seq)
    <3>1. p.seq >= expected_seq[e]
      BY <2>2 DEF IsNewest
    <3>2. c.highest = p.seq
      BY <1>0, <1>5, <1>9, <2>1, <3>1
    <3>3. expected_seq' = [expected_seq EXCEPT ![e] = p.seq + 1]
      BY <2>2 DEF Recv
    <3> QED
      BY <1>0, <3>2, <3>3
  <2>3. CASE ~IsNewest(e, p.seq)
    <3>1. ~(p.seq >= expected_seq[e])
      BY <2>3 DEF IsNewest
    <3>2. w.initialized /\ p.seq <= w.highest
      BY <1>0, <1>9, <2>1, <3>1
    <3>3. c.highest = w.highest /\ expected_seq' = expected_seq
      BY <1>5, <2>3, <3>2 DEF Recv
    <3> QED
      BY <1>0, <2>1, <3>2, <3>3
  <2> QED
    BY <2>2, <2>3
<1>11. TypeOK'
  <2>1. remote' \in SUBSET Addr
    BY <1>0 DEF Recv, IInv, TypeOK
  <2>2. replay' \in [End -> ReplayWindow]
    BY <1>0, <1>5, <1>6
  <2>3. delivered' \in [End -> Seq(Nat)]
    BY <1>0, <1>6, <1>7
  <2> QED
    BY <1>6, <1>10, <2>1, <2>2, <2>3 DEF IInv, TypeOK, ReplayWindow
<1>12. WindowsExact'
  <2>1. /\ Remembers(replay'[e], Numbers(delivered'[e]))
        /\ replay'[e].initialized
        /\ expected_seq'[e] = replay'[e].highest + 1
    BY <1>5, <1>7, <1>8, <1>10
  <2>2. ASSUME NEW f \in End, f # e
        PROVE  /\ Remembers(replay'[f], Numbers(delivered'[f]))
               /\ expected_seq'[f] = IF replay'[f].initialized
                                     THEN replay'[f].highest + 1 ELSE 0
    BY <1>8, <2>2 DEF IInv, WindowsExact
  <2> QED
    BY <2>1, <2>2 DEF WindowsExact
<1>13. AtMostOnce'
  <2> SUFFICES ASSUME NEW f \in End,
                      NEW i \in 1 .. Len(delivered'[f]),
                      NEW j \in 1 .. Len(delivered'[f]), i < j
               PROVE  delivered'[f][i] # delivered'[f][j]
    BY DEF AtMostOnce
  <2>1. CASE f # e
    BY <1>8, <2>1 DEF IInv, AtMostOnce
  <2>2. CASE f = e
    <3>1. PICK s \in Seq(Nat) : s = delivered[e]
      BY <1>1
    <3>2. delivered'[f] = Append(s, p.seq)
      BY <1>8, <2>2, <3>1
    <3>3. /\ Len(Append(s, p.seq)) = Len(s) + 1 /\ Len(s) \in Nat
          /\ \A k \in 1 .. Len(s) : Append(s, p.seq)[k] = s[k]
          /\ Append(s, p.seq)[Len(s) + 1] = p.seq
      BY <1>0, AppendProperties, SMTT(30)
    <3>4. /\ i \in 1 .. Len(s) + 1 /\ j \in 1 .. Len(s) + 1
      BY <3>2, <3>3
    <3>5. i \in 1 .. Len(s) /\ Append(s, p.seq)[i] = s[i]
      BY <3>3, <3>4
    <3>6. CASE j = Len(s) + 1
      <4>1. s[i] \in got
        BY <3>1, <3>5 DEF Numbers
      <4> QED
        BY <1>4, <3>2, <3>3, <3>5, <3>6, <4>1
    <3>7. CASE j # Len(s) + 1
      <4>1. j \in 1 .. Len(s) /\ Append(s, p.seq)[j] = s[j]
        BY <3>3, <3>4, <3>7
      <4>2. s[i] # s[j]
        BY <3>1, <3>5, <4>1 DEF IInv, AtMostOnce
      <4> QED
        BY <3>2, <3>5, <4>1, <4>2
    <3> QED
      BY <3>6, <3>7
  <2> QED
    BY <2>1, <2>2
<1>14. SealedHere'
  <2>1. ASSUME NEW s \in Numbers(delivered'["server"])
        PROVE  s < next_seq["client"]
    <3>1. CASE e = "server"
      <4>1. s \in got \/ s = p.seq
        BY <1>7, <1>8, <2>1, <3>1
      <4>2. p.dir = "client"
        BY <1>0, <1>3, <3>1 DEF End
      <4> QED
        BY <3>1, <4>1, <4>2 DEF IInv, SealedHere
    <3>2. CASE e # "server"
      BY <1>0, <1>8, <2>1, <3>2 DEF IInv, SealedHere
    <3> QED
      BY <3>1, <3>2
  <2> QED
    BY <1>6, <2>1 DEF IInv, SealedHere
<1>15. PathFollowsNewest'
  <2>1. CASE e # "server"
    <3>1. replay'["server"] = replay["server"]
      BY <1>0, <1>8, <2>1
    <3>2. remote' = remote
      BY <2>1 DEF Recv
    <3> QED
      BY <1>6, <3>1, <3>2 DEF IInv, PathFollowsNewest
  <2>2. CASE e = "server"
    <3>1. p.dir = "client" /\ (p.seq >= moved_at => p.from = addr)
      BY <1>0, <1>3, <2>2 DEF End, IInv, SealedHere
    <3>2. replay'["server"].highest = c.highest
      BY <1>8, <2>2
    <3>3. expected_seq["server"]
            = IF w.initialized THEN w.highest + 1 ELSE 0
      BY <2>2 DEF IInv, WindowsExact
    <3>4. CASE IsNewest(e, p.seq)
      <4>1. p.seq >= expected_seq["server"]
        BY <2>2, <3>4 DEF IsNewest
      <4>2. c.highest = p.seq
        BY <1>0, <1>5, <1>9, <3>3, <4>1
      <4>3. remote' = {p.from}
        BY <2>2, <3>4 DEF Recv
      <4> QED
        BY <1>6, <3>1, <3>2, <4>2, <4>3 DEF PathFollowsNewest
    <3>5. CASE ~IsNewest(e, p.seq)
      <4>1. ~(p.seq >= expected_seq["server"])
        BY <2>2, <3>5 DEF IsNewest
      <4>2. w.initialized /\ p.seq <= w.highest
        BY <1>0, <1>9, <3>3, <4>1
      <4>3. c.highest = w.highest /\ remote' = remote
        BY <1>5, <3>5, <4>2 DEF Recv
      <4> QED
        BY <1>6, <2>2, <3>2, <4>2, <4>3 DEF IInv, PathFollowsNewest
    <3> QED
      BY <3>4, <3>5
  <2> QED
    BY <2>1, <2>2
<1> QED
  BY <1>11, <1>12, <1>13, <1>14, <1>15 DEF IInv

LEMMA NextIInv == IInv /\ [Next]_vars => IInv'
<1> SUFFICES ASSUME IInv, [Next]_vars
             PROVE  IInv'
  OBVIOUS
<1>1. ASSUME NEW e \in End, Send(e) PROVE IInv'
  BY <1>1, SendIInv
<1>2. ASSUME NEW a \in Addr, Roam(a) PROVE IInv'
  BY <1>2, RoamIInv
<1>3. ASSUME NEW e \in End, NEW p \in network, Recv(e, p) PROVE IInv'
  BY <1>3, RecvIInv
<1>4. CASE UNCHANGED vars
  BY <1>4 DEF vars, IInv, TypeOK, WindowsExact, AtMostOnce, SealedHere,
              PathFollowsNewest
<1> QED
  BY <1>1, <1>2, <1>3, <1>4 DEF Next

-----------------------------------------------------------------------------
\* The invariant holds in every reachable state of the datagram layer.
THEOREM DatagramInvariant == Spec => []IInv
  BY InitIInv, NextIInv, PTL DEF Spec

\* Connection::recv hands no datagram on twice, for any window width.
THEOREM HandedOnAtMostOnce == Spec => []AtMostOnce
<1>1. IInv => AtMostOnce
  BY DEF IInv
<1> QED
  BY <1>1, DatagramInvariant, PTL

\* ReplayWindow::check refuses no first arrival that fewer than Window newer
\* datagrams have overtaken.
THEOREM TimelyArrivalsAccepted == Spec => []FirstArrivalIsAccepted
<1>1. IInv => FirstArrivalIsAccepted
  <2> SUFFICES ASSUME IInv, NEW e \in End, NEW p \in network, p.dir # e,
                      \A i \in 1 .. Len(delivered[e]) :
                          /\ delivered[e][i] # p.seq
                          /\ delivered[e][i] < p.seq + Window
               PROVE  ~Refuses(replay[e], p.seq)
    BY DEF FirstArrivalIsAccepted, Opens
  <2>1. \A s \in Numbers(delivered[e]) : s # p.seq /\ s < p.seq + Window
    BY DEF Numbers
  <2>2. /\ replay[e].highest \in Nat /\ p.seq \in Nat /\ Window \in Nat
        /\ Remembers(replay[e], Numbers(delivered[e]))
    BY DatagramAssumption DEF IInv, TypeOK, WindowsExact
  <2>3. CASE replay[e].initialized /\ p.seq <= replay[e].highest
    <3>1. replay[e].highest < p.seq + Window
      BY <2>1, <2>2, <2>3 DEF Remembers
    <3>2. PICK d \in 0 .. Window - 1 : d = replay[e].highest - p.seq
      BY <2>2, <2>3, <3>1
    <3>3. replay[e].highest - d = p.seq
      BY <2>2, <3>2
    <3>4. d \notin replay[e].bitmap
      BY <2>1, <2>2, <2>3, <3>3 DEF Remembers
    <3> QED
      BY <2>2, <3>1, <3>2, <3>4 DEF Refuses
  <2> QED
    BY <2>3 DEF Refuses
<1> QED
  BY <1>1, DatagramInvariant, PTL

\* Stragglers from an address the client has left never move the server's
\* return path back to it (Connection::recv).
THEOREM PathNeverTurnsBack == Spec => []AnswersToPresentAddress
<1>1. IInv => AnswersToPresentAddress
  <2> SUFFICES ASSUME IInv, NEW i \in 1 .. Len(delivered["server"]),
                      delivered["server"][i] >= moved_at
               PROVE  remote = {addr}
    BY DEF AnswersToPresentAddress
  <2>1. /\ delivered["server"] \in Seq(Nat) /\ moved_at \in Nat
        /\ replay["server"].highest \in Nat
        /\ Remembers(replay["server"], Numbers(delivered["server"]))
    BY DEF IInv, TypeOK, WindowsExact, End
  <2>2. delivered["server"][i] \in Numbers(delivered["server"])
    BY DEF Numbers
  <2>3. delivered["server"][i] \in Nat
    BY <2>1
  <2>4. /\ replay["server"].initialized
        /\ delivered["server"][i] <= replay["server"].highest
    BY <2>1, <2>2 DEF Remembers
  <2>5. replay["server"].highest >= moved_at
    BY <2>1, <2>3, <2>4
  <2> QED
    BY <2>4, <2>5 DEF IInv, PathFollowsNewest
<1> QED
  BY <1>1, DatagramInvariant, PTL
=============================================================================
