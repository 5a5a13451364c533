------------------------ MODULE RemoteSessionProofs ------------------------
(***************************************************************************)
(* The remote session's echo acks and its shutdown handshake, for any      *)
(* number of keystrokes, outputs and datagrams under way: the inductive    *)
(* invariant and the two safety properties that follow from it.            *)
(***************************************************************************)
EXTENDS RemoteSession, SequenceTheorems, TLAPS

-----------------------------------------------------------------------------
\* The types of everything.

ScreenType == [echoed : Nat, other : Nat]

NumberedScreen == [num : Nat, screen : ScreenType]

ClientType ==
    [typed : Nat, base : Nat, applied : NumberedScreen, late_acked : Nat,
     heard : BOOLEAN, shutdown_requested : BOOLEAN, shutdown_seen : BOOLEAN,
     exit_status : Int, send_now : BOOLEAN,
     state : {"up", "done", "gaveup", "timeout"}]

ServerType ==
    [next : Nat, pending : Seq(Nat), echo_ack : Nat, term : ScreenType,
     dirty : BOOLEAN, current : NumberedScreen, acked_num : Nat,
     force_ack : BOOLEAN, force_frame : BOOLEAN, pty_open : BOOLEAN,
     peer : BOOLEAN, sent : BOOLEAN, shutdown : BOOLEAN, exit_status : Int,
     turn : {"poll", "read", "heard"},
     state : {"up", "done", "gaveup", "timeout"}]

MessageType == [ack : Nat, base : Nat, end : Nat, shut : BOOLEAN]

FrameType ==
    [num : Nat, kind : {"full", "diff", "empty"}, base : Nat,
     screen : ScreenType, input_ack : Nat, echo_ack : Nat, shut : BOOLEAN,
     status : Int]

TypeOK ==
    /\ cl \in ClientType
    /\ sv \in ServerType
    /\ c2s \subseteq MessageType
    /\ s2c \subseteq FrameType

-----------------------------------------------------------------------------
\* The parts of the inductive invariant.

\* EchoAck holds offsets of input that was taken, and no frame acks an echo
\* beyond the input it acks.
EchoesTaken ==
    /\ sv.echo_ack <= sv.next
    /\ \A i \in 1 .. Len(sv.pending) : sv.pending[i] <= sv.next
    /\ \A f \in s2c : f.echo_ack <= f.input_ack
    /\ cl.late_acked <= cl.base

\* Acks on their way, and those that have arrived, are behind the client, and
\* the client and the frames on their way are behind the server.
AcksBehind ==
    /\ sv.acked_num <= cl.applied.num
    /\ cl.applied.num <= sv.current.num
    /\ \A m \in c2s : m.ack <= cl.applied.num
    /\ \A f \in s2c : f.num <= sv.current.num

\* Whatever carries the newest number carries the newest screen.
NewestIsCurrent ==
    /\ cl.applied.num = sv.current.num => cl.applied.screen = sv.current.screen
    /\ \A f \in s2c :
          f.num = sv.current.num /\ f.kind # "empty" => f.screen = sv.current.screen

\* With nothing new to draw the newest frame shows the terminal, and a server
\* that has left after the handshake knows the newest frame confirmed.
SettledIsShown ==
    /\ ~ sv.dirty => sv.current.screen = sv.term
    /\ sv.state = "done" => ~ sv.dirty /\ sv.acked_num >= sv.current.num

IInv == TypeOK /\ EchoesTaken /\ AcksBehind /\ NewestIsCurrent /\ SettledIsShown

-----------------------------------------------------------------------------
LEMMA InitIInv == Init => IInv
<1> SUFFICES ASSUME Init PROVE IInv
  OBVIOUS
<1>1. Blank \in ScreenType
  BY DEF Blank, ScreenType
<1>2. cl \in ClientType /\ sv \in ServerType
  BY <1>1 DEF Init, ClientType, ServerType, NumberedScreen, NoStatus
<1>3. c2s \subseteq MessageType /\ s2c \subseteq FrameType
  BY <1>2 DEF Init, Message, MessageType, ClientType, NumberedScreen
<1>4. EchoesTaken /\ AcksBehind /\ NewestIsCurrent /\ SettledIsShown
  BY DEF Init, Message, EchoesTaken, AcksBehind, NewestIsCurrent, SettledIsShown
<1> QED
  BY <1>2, <1>3, <1>4 DEF IInv, TypeOK

\* Sending loses something or nothing, and adds nothing but what is sent.
LEMMA SentIsUnderWay ==
    ASSUME NEW channel, NEW d, NEW x \in Sent(channel, d)
    PROVE  x \subseteq channel \cup {d}
  BY DEF Sent

-----------------------------------------------------------------------------
\* The client's steps.

\* A frame: the acks only grow, together, and the screen becomes the frame's
\* or stays.
LEMMA FrameApplied ==
    ASSUME IInv, NEW f \in s2c
    PROVE  LET c == ApplyFrame(NoteFrame(cl, f), f)
           IN  /\ c \in ClientType
               /\ c.late_acked <= c.base
               /\ \/ c.applied = cl.applied
                  \/ /\ c.applied = [num |-> f.num, screen |-> f.screen]
                     /\ f.num > cl.applied.num /\ f.kind # "empty"
<1> DEFINE n == NoteFrame(cl, f)
           c == ApplyFrame(n, f)
<1>1. f \in FrameType /\ cl \in ClientType /\ f.echo_ack <= f.input_ack
      /\ cl.late_acked <= cl.base
  BY DEF IInv, TypeOK, EchoesTaken
<1>2. n \in ClientType /\ n.applied = cl.applied
  BY <1>1, ZenonT(60) DEF NoteFrame, ClientType, FrameType, NoStatus
<1>3. n.late_acked <= n.base
  BY <1>1 DEF NoteFrame, ClientType, FrameType
<1>4. c \in ClientType /\ c.late_acked = n.late_acked /\ c.base = n.base
  BY <1>1, <1>2 DEF ApplyFrame, ClientType, FrameType, NumberedScreen
<1>5. c.applied = IF Applies(n, f) THEN [num |-> f.num, screen |-> f.screen]
                  ELSE n.applied
  BY <1>2 DEF ApplyFrame, ClientType
<1> QED
  BY <1>2, <1>3, <1>4, <1>5 DEF Applies

LEMMA ClientSteps ==
    ASSUME IInv,
           \/ Type \/ Quit \/ ConnectTimeout
           \/ \E f \in s2c : ReceiveFrame(f)
           \/ \E grace \in BOOLEAN : ClientTick(grace)
    PROVE  IInv'
<1>0. cl \in ClientType
  BY DEF IInv, TypeOK
<1>1. CASE Type \/ Quit \/ ConnectTimeout
  <2>1. /\ cl' \in ClientType /\ cl'.applied = cl.applied
        /\ cl'.late_acked = cl.late_acked /\ cl'.base = cl.base
    <3>1. CASE Type
      <4>1. PICK n \in Nat : n = cl.typed + 1
        BY <1>0 DEF ClientType
      <4>2. cl' = [cl EXCEPT !.typed = n, !.send_now = TRUE]
        BY <3>1, <4>1 DEF Type
      <4> QED
        BY <1>0, <4>2 DEF ClientType
    <3>2. CASE Quit
      BY <1>0, <3>2 DEF Quit, ClientType
    <3>3. CASE ConnectTimeout
      BY <1>0, <3>3 DEF ConnectTimeout, ClientType
    <3> QED
      BY <1>1, <3>1, <3>2, <3>3
  <2>2. UNCHANGED <<sv, c2s, s2c>>
    BY <1>1 DEF Type, Quit, ConnectTimeout
  <2> QED
    BY <2>1, <2>2
       DEF IInv, TypeOK, EchoesTaken, AcksBehind, NewestIsCurrent, SettledIsShown
<1>2. ASSUME NEW f \in s2c, ReceiveFrame(f)
      PROVE  IInv'
  <2>1. /\ cl' \in ClientType /\ cl'.late_acked <= cl'.base
        /\ \/ cl'.applied = cl.applied
           \/ /\ cl'.applied = [num |-> f.num, screen |-> f.screen]
              /\ f.num > cl.applied.num /\ f.kind # "empty"
    BY <1>2, FrameApplied DEF ReceiveFrame
  <2>2. UNCHANGED <<sv, c2s>> /\ s2c' \subseteq s2c
    BY <1>2 DEF ReceiveFrame
  <2>3. /\ f.num \in Nat /\ cl.applied.num \in Nat /\ sv.acked_num \in Nat
        /\ \A m \in c2s : m.ack \in Nat
    BY DEF IInv, TypeOK, FrameType, ClientType, NumberedScreen, ServerType, MessageType
  <2>4. TypeOK' /\ EchoesTaken' /\ SettledIsShown'
    BY <2>1, <2>2 DEF IInv, TypeOK, EchoesTaken, SettledIsShown
  <2>5. cl'.applied.num >= cl.applied.num /\ cl'.applied.num <= sv.current.num
        /\ cl'.applied.num \in Nat
    BY <2>1, <2>3 DEF IInv, AcksBehind
  <2>6. AcksBehind'
    BY <2>2, <2>3, <2>5 DEF IInv, AcksBehind
  <2>7. NewestIsCurrent'
    BY <2>1, <2>2 DEF IInv, NewestIsCurrent
  <2> QED
    BY <2>4, <2>6, <2>7 DEF IInv
<1>3. ASSUME NEW grace \in BOOLEAN, ClientTick(grace)
      PROVE  IInv'
  <2>1. /\ cl' \in ClientType /\ cl'.applied = cl.applied
        /\ cl'.late_acked = cl.late_acked /\ cl'.base = cl.base
    BY <1>0, <1>3 DEF ClientTick, ClientType
  <2>2. UNCHANGED <<sv, s2c>> /\ c2s' \subseteq c2s \cup {Message(cl)}
    BY <1>3, SentIsUnderWay DEF ClientTick
  <2>3. Message(cl) \in MessageType /\ Message(cl).ack = cl.applied.num
        /\ cl.applied.num \in Nat
    BY <1>0 DEF Message, MessageType, ClientType, NumberedScreen
  <2>4. TypeOK' /\ EchoesTaken' /\ NewestIsCurrent' /\ SettledIsShown'
    BY <2>1, <2>2, <2>3
       DEF IInv, TypeOK, EchoesTaken, NewestIsCurrent, SettledIsShown
  <2>5. AcksBehind'
    BY <2>1, <2>2, <2>3 DEF IInv, AcksBehind
  <2> QED
    BY <2>4, <2>5 DEF IInv
<1> QED
  BY <1>1, <1>2, <1>3

-----------------------------------------------------------------------------
\* The server's steps.

\* A message: input is taken, the ack counted if it is new and possible.
LEMMA MessageTaken ==
    ASSUME IInv, NEW m \in c2s
    PROVE  LET s == UpdateAcks(NoteMessage(TakeInput(sv, m), m), m)
           IN  /\ s \in ServerType
               /\ s.echo_ack = sv.echo_ack /\ sv.next <= s.next
               /\ \A i \in 1 .. Len(s.pending) : s.pending[i] <= s.next
               /\ s.acked_num \in {sv.acked_num, m.ack}
               /\ s.current = sv.current /\ s.term = sv.term
               /\ s.dirty = sv.dirty /\ s.state = sv.state
<1> DEFINE t == TakeInput(sv, m)
           n == NoteMessage(t, m)
           s == UpdateAcks(n, m)
<1>0. sv \in ServerType /\ m \in MessageType
  BY DEF IInv, TypeOK
<1>1. sv.next \in Nat /\ sv.pending \in Seq(Nat) /\ m.end \in Nat /\ m.ack \in Nat
  BY <1>0 DEF ServerType, MessageType
<1>2. /\ t \in ServerType /\ t.echo_ack = sv.echo_ack
      /\ t.acked_num = sv.acked_num /\ t.current = sv.current
      /\ t.term = sv.term /\ t.dirty = sv.dirty /\ t.state = sv.state
  BY <1>0, <1>1, AppendProperties, ZenonT(60) DEF TakeInput, ServerType
<1>3. \/ t.next = sv.next /\ t.pending = sv.pending
      \/ sv.next < m.end /\ t.next = m.end /\ t.pending = Append(sv.pending, m.end)
  BY <1>0 DEF TakeInput, ServerType
<1>4. sv.next <= t.next /\ \A i \in 1 .. Len(t.pending) : t.pending[i] <= t.next
  <2>1. \A i \in 1 .. Len(sv.pending) : sv.pending[i] \in Nat /\ sv.pending[i] <= sv.next
    BY <1>1 DEF IInv, EchoesTaken
  <2>2. CASE t.next = sv.next /\ t.pending = sv.pending
    BY <1>1, <2>1, <2>2
  <2>3. CASE sv.next < m.end /\ t.next = m.end /\ t.pending = Append(sv.pending, m.end)
    BY <1>1, <2>1, <2>3, AppendProperties
  <2> QED
    BY <1>3, <2>2, <2>3
<1>5. /\ n \in ServerType /\ n.echo_ack = t.echo_ack /\ n.next = t.next
      /\ n.pending = t.pending /\ n.acked_num = t.acked_num
      /\ n.current = t.current /\ n.term = t.term /\ n.dirty = t.dirty
      /\ n.state = t.state
  BY <1>0, <1>2, ZenonT(60) DEF NoteMessage, ServerType, MessageType
<1>6. /\ s \in ServerType /\ s.echo_ack = n.echo_ack /\ s.next = n.next
      /\ s.pending = n.pending /\ s.acked_num \in {n.acked_num, m.ack}
      /\ s.current = n.current /\ s.term = n.term /\ s.dirty = n.dirty
      /\ s.state = n.state
  <2> HIDE DEF t, n
  <2>1. s = n \/ s = [n EXCEPT !.acked_num = m.ack]
    BY DEF UpdateAcks
  <2> HIDE DEF s
  <2>2. CASE s = n
    BY <1>5, <2>2
  <2>3. CASE s = [n EXCEPT !.acked_num = m.ack]
    BY <1>1, <1>5, <2>3 DEF ServerType
  <2> QED
    BY <2>1, <2>2, <2>3
<1>7. s = UpdateAcks(NoteMessage(TakeInput(sv, m), m), m)
  OBVIOUS
<1> HIDE DEF t, n, s
<1> QED
  BY <1>2, <1>4, <1>5, <1>6, <1>7

\* The echo ack advances to an offset that EchoAck held.
LEMMA EchoAdvanced ==
    ASSUME IInv, NEW k \in 0 .. Len(sv.pending)
    PROVE  LET s == EchoUpdated(sv, k)
           IN  /\ s \in ServerType
               /\ s.next = sv.next /\ s.echo_ack <= s.next
               /\ \A i \in 1 .. Len(s.pending) : s.pending[i] <= s.next
               /\ s.acked_num = sv.acked_num
               /\ s.current = sv.current /\ s.term = sv.term
               /\ s.dirty = sv.dirty /\ s.state = sv.state
<1> DEFINE s == EchoUpdated(sv, k)
<1>0. sv \in ServerType
  BY DEF IInv, TypeOK
<1>1. sv.pending \in Seq(Nat) /\ Len(sv.pending) \in Nat /\ k \in Nat
  BY <1>0 DEF ServerType
<1>2. CASE k = 0
  BY <1>0, <1>2 DEF EchoUpdated, IInv, EchoesTaken
<1>3. CASE k # 0
  <2>1. sv.pending[k] \in Nat /\ sv.pending[k] <= sv.next
    BY <1>1, <1>3 DEF IInv, EchoesTaken
  <2>2. /\ SubSeq(sv.pending, k + 1, Len(sv.pending)) \in Seq(Nat)
        /\ Len(SubSeq(sv.pending, k + 1, Len(sv.pending))) = Len(sv.pending) - k
        /\ \A i \in 1 .. Len(sv.pending) - k :
              SubSeq(sv.pending, k + 1, Len(sv.pending))[i] = sv.pending[k + i]
    BY <1>1
  <2>3. s = [sv EXCEPT !.echo_ack = sv.pending[k], !.force_ack = TRUE,
                       !.pending = SubSeq(@, k + 1, Len(@))]
    BY <1>3 DEF EchoUpdated
  <2>4. /\ s \in ServerType /\ s.next = sv.next /\ s.echo_ack = sv.pending[k]
        /\ s.pending = SubSeq(sv.pending, k + 1, Len(sv.pending))
        /\ s.acked_num = sv.acked_num /\ s.current = sv.current
        /\ s.term = sv.term /\ s.dirty = sv.dirty /\ s.state = sv.state
    BY <1>0, <2>1, <2>2, <2>3, ZenonT(60) DEF ServerType
  <2>5. \A i \in 1 .. Len(s.pending) : s.pending[i] <= s.next
    <3> SUFFICES ASSUME NEW i \in 1 .. Len(sv.pending) - k
                 PROVE  sv.pending[k + i] <= sv.next
      BY <2>2, <2>4
    <3>1. k + i \in 1 .. Len(sv.pending)
      BY <1>1
    <3> QED
      BY <3>1 DEF IInv, EchoesTaken
  <2> QED
    BY <2>1, <2>4, <2>5
<1> QED
  BY <1>2, <1>3

\* What the tick sends from: a new frame, if any, holds the terminal's screen
\* under the next number; everything else is as it was.
LEMMA FrameProduced ==
    ASSUME NEW s \in ServerType, NEW choice
    PROVE  LET p == Produced(s, choice)
           IN  /\ p \in ServerType
               /\ p.next = s.next /\ p.pending = s.pending
               /\ p.echo_ack = s.echo_ack /\ p.acked_num = s.acked_num
               /\ p.term = s.term /\ p.state = s.state
               /\ \/ p.current = s.current /\ p.dirty = s.dirty
                  \/ p.current = [num |-> s.current.num + 1, screen |-> s.term]
<1> DEFINE t == IF choice = "fresh"
                THEN [s EXCEPT !.dirty = FALSE, !.force_frame = FALSE,
                               !.current = [num |-> @.num + 1, screen |-> s.term]]
                ELSE s
           p == IF choice = "none" THEN t
                ELSE [t EXCEPT !.force_ack = FALSE, !.sent = TRUE]
<1>1. PICK n \in Nat : n = s.current.num + 1
  BY DEF ServerType, NumberedScreen
<1>2. /\ t \in ServerType /\ t.next = s.next /\ t.pending = s.pending
      /\ t.echo_ack = s.echo_ack /\ t.acked_num = s.acked_num
      /\ t.term = s.term /\ t.state = s.state
      /\ \/ t.current = s.current /\ t.dirty = s.dirty
         \/ t.current = [num |-> n, screen |-> s.term]
  <2>1. CASE choice = "fresh"
    <3>1. t = [s EXCEPT !.dirty = FALSE, !.force_frame = FALSE,
                        !.current = [num |-> n, screen |-> s.term]]
      BY <1>1, <2>1
    <3> HIDE DEF t
    <3>2. [num |-> n, screen |-> s.term] \in NumberedScreen
      BY DEF ServerType, NumberedScreen
    <3> QED
      BY <3>1, <3>2 DEF ServerType
  <2>2. CASE choice # "fresh"
    BY <2>2
  <2> QED
    BY <2>1, <2>2
<1> HIDE DEF t
<1>3. /\ p \in ServerType /\ p.next = t.next /\ p.pending = t.pending
      /\ p.echo_ack = t.echo_ack /\ p.acked_num = t.acked_num
      /\ p.term = t.term /\ p.state = t.state
      /\ p.current = t.current /\ p.dirty = t.dirty
  <2>1. CASE choice = "none"
    BY <1>2, <2>1
  <2>2. CASE choice # "none"
    BY <1>2, <2>2 DEF ServerType
  <2> QED
    BY <2>1, <2>2
<1>4. p = Produced(s, choice)
  BY DEF Produced, t
<1> HIDE DEF p
<1> QED
  BY <1>1, <1>2, <1>3, <1>4

\* What the tick puts on the wire is stamped with the server's numbers.
LEMMA FrameStamped ==
    ASSUME NEW s \in ServerType, NEW kind \in {"full", "diff", "empty"}
    PROVE  /\ Frame(s, kind) \in FrameType
           /\ Frame(s, kind).num = s.current.num
           /\ Frame(s, kind).input_ack = s.next
           /\ Frame(s, kind).echo_ack = s.echo_ack
           /\ Frame(s, kind).kind # "empty" => Frame(s, kind).screen = s.current.screen
<1>1. Blank \in ScreenType
  BY DEF Blank, ScreenType
<1>2. s.current.num \in Nat /\ s.current.screen \in ScreenType
  BY DEF ServerType, NumberedScreen
<1> QED
  BY <1>1, <1>2 DEF Frame, FrameType, ServerType, NoStatus

\* The tick as a whole.
LEMMA TickSteps ==
    ASSUME IInv, NEW k \in 0 .. Len(sv.pending), NEW grace \in BOOLEAN,
           ServerTick(k, grace)
    PROVE  IInv'
<1> DEFINE s == EchoUpdated(sv, k)
<1>1. /\ s \in ServerType
      /\ s.next = sv.next /\ s.echo_ack <= s.next
      /\ \A i \in 1 .. Len(s.pending) : s.pending[i] <= s.next
      /\ s.acked_num = sv.acked_num
      /\ s.current = sv.current /\ s.term = sv.term
      /\ s.dirty = sv.dirty /\ s.state = sv.state
  BY EchoAdvanced
<1> HIDE DEF s
<1>2. PICK choice \in Choices(s) : \E kind \in Bodies(choice) :
        LET t == [Produced(s, choice) EXCEPT
                    !.exit_status = IF Reaps(s, choice) THEN ExitCode ELSE @]
        IN  /\ s2c' \in IF choice = "none" THEN {s2c} ELSE Sent(s2c, Frame(t, kind))
            /\ sv' = [t EXCEPT
                        !.turn = "poll",
                        !.state = IF t.shutdown /\ Gate(t) THEN "done"
                                  ELSE IF grace THEN "gaveup" ELSE @]
  BY DEF ServerTick, s
<1>3. PICK kind \in Bodies(choice) :
        LET t == [Produced(s, choice) EXCEPT
                    !.exit_status = IF Reaps(s, choice) THEN ExitCode ELSE @]
        IN  /\ s2c' \in IF choice = "none" THEN {s2c} ELSE Sent(s2c, Frame(t, kind))
            /\ sv' = [t EXCEPT
                        !.turn = "poll",
                        !.state = IF t.shutdown /\ Gate(t) THEN "done"
                                  ELSE IF grace THEN "gaveup" ELSE @]
  BY <1>2
<1> DEFINE p == Produced(s, choice)
           t == [p EXCEPT !.exit_status = IF Reaps(s, choice) THEN ExitCode ELSE @]
<1>4. /\ p \in ServerType
      /\ p.next = s.next /\ p.pending = s.pending
      /\ p.echo_ack = s.echo_ack /\ p.acked_num = s.acked_num
      /\ p.term = s.term /\ p.state = s.state
      /\ \/ p.current = s.current /\ p.dirty = s.dirty
         \/ p.current = [num |-> s.current.num + 1, screen |-> s.term]
  BY <1>1, FrameProduced
<1> HIDE DEF p
<1>5. /\ t \in ServerType
      /\ t.next = p.next /\ t.pending = p.pending
      /\ t.echo_ack = p.echo_ack /\ t.acked_num = p.acked_num
      /\ t.term = p.term /\ t.state = p.state
      /\ t.current = p.current /\ t.dirty = p.dirty
  <2>1. PICK e \in Int : t = [p EXCEPT !.exit_status = e]
    <3>1. p.exit_status \in Int
      <4>1. p \in ServerType
        BY <1>4
      <4> QED
        BY ONLY <4>1 DEF ServerType
    <3>2. ExitCode \in Int
      BY ONLY SessionAssumption
    <3> QED
      BY <3>1, <3>2
  <2> HIDE DEF t
  <2> QED
    BY <1>4, <2>1 DEF ServerType
<1>6. s2c' \subseteq s2c \cup {Frame(t, kind)}
  BY <1>3, SentIsUnderWay DEF p
<1>7. sv' = [t EXCEPT !.turn = "poll",
                      !.state = IF t.shutdown /\ Gate(t) THEN "done"
                                ELSE IF grace THEN "gaveup" ELSE @]
  BY <1>3 DEF p
<1> HIDE DEF t
<1>8. /\ sv' \in ServerType
      /\ sv'.next = t.next /\ sv'.pending = t.pending
      /\ sv'.echo_ack = t.echo_ack /\ sv'.acked_num = t.acked_num
      /\ sv'.term = t.term /\ sv'.current = t.current /\ sv'.dirty = t.dirty
      /\ sv'.state = "done" => Gate(t) \/ sv.state = "done"
  BY <1>1, <1>4, <1>5, <1>7, ZenonT(60) DEF ServerType
<1>9. kind \in {"full", "diff", "empty"}
  BY <1>3 DEF Bodies
<1>10. UNCHANGED <<cl, c2s>> /\ sv.state = "up"
  BY DEF ServerTick, ServerRuns
<1>11. /\ Frame(t, kind) \in FrameType
       /\ Frame(t, kind).num = sv'.current.num
       /\ Frame(t, kind).input_ack = sv'.next
       /\ Frame(t, kind).echo_ack = sv'.echo_ack
       /\ Frame(t, kind).kind # "empty" => Frame(t, kind).screen = sv'.current.screen
  BY <1>5, <1>8, <1>9, FrameStamped
<1>12. /\ sv'.next = sv.next /\ sv'.echo_ack <= sv'.next
       /\ \A i \in 1 .. Len(sv'.pending) : sv'.pending[i] <= sv'.next
       /\ sv'.acked_num = sv.acked_num /\ sv'.term = sv.term
       /\ \/ sv'.current = sv.current /\ sv'.dirty = sv.dirty
          \/ sv'.current = [num |-> sv.current.num + 1, screen |-> sv.term]
  BY <1>1, <1>4, <1>5, <1>8
<1>13. /\ sv.acked_num \in Nat /\ cl.applied.num \in Nat /\ sv.current.num \in Nat
       /\ sv'.current.num \in Nat /\ \A f \in s2c : f.num \in Nat
  BY <1>8 DEF IInv, TypeOK, ServerType, ClientType, NumberedScreen, FrameType
<1>14. TypeOK'
  BY <1>6, <1>8, <1>10, <1>11 DEF IInv, TypeOK
<1>15. EchoesTaken'
  BY <1>6, <1>10, <1>11, <1>12 DEF IInv, EchoesTaken
<1>16. AcksBehind' /\ NewestIsCurrent'
  <2>1. CASE sv'.current = sv.current
    <3>1. AcksBehind'
      BY <1>6, <1>10, <1>11, <1>12, <1>13, <2>1 DEF IInv, AcksBehind
    <3>2. NewestIsCurrent'
      BY <1>6, <1>10, <1>11, <1>12, <2>1 DEF IInv, NewestIsCurrent
    <3> QED
      BY <3>1, <3>2
  <2>2. CASE sv'.current = [num |-> sv.current.num + 1, screen |-> sv.term]
    BY <1>6, <1>10, <1>11, <1>12, <1>13, <2>2 DEF IInv, AcksBehind, NewestIsCurrent
  <2> QED
    BY <1>12, <2>1, <2>2
<1>17. SettledIsShown'
  <2>1. ~ sv'.dirty => sv'.current.screen = sv'.term
    BY <1>12 DEF IInv, SettledIsShown
  <2>2. sv'.state = "done" => ~ sv'.dirty /\ sv'.acked_num >= sv'.current.num
    BY <1>8, <1>10 DEF Gate
  <2> QED
    BY <2>1, <2>2 DEF SettledIsShown
<1> QED
  BY <1>14, <1>15, <1>16, <1>17 DEF IInv

\* What the command and the server's other steps do: the numbered screens are
\* left alone, and a terminal that changes is dirty.
LEMMA ServerSteps ==
    ASSUME IInv,
           \/ PtyEcho \/ PtyOutput \/ PtyEof \/ ChildCloses \/ ChildDies
           \/ \E m \in c2s : ReceiveMessage(m)
           \/ \E k \in 0 .. Len(sv.pending), grace \in BOOLEAN : ServerTick(k, grace)
           \/ ServerGivesUp \/ Over
    PROVE  IInv'
<1>0. sv \in ServerType
  BY DEF IInv, TypeOK
<1>1. CASE PtyEcho \/ PtyOutput
  <2>1. PICK x \in ScreenType : PtyRead(x)
    <3>1. CASE PtyEcho
      <4>1. [sv.term EXCEPT !.echoed = @ + 1] \in ScreenType
        BY <1>0 DEF ServerType, ScreenType
      <4> QED
        BY <3>1, <4>1 DEF PtyEcho
    <3>2. CASE PtyOutput
      <4>1. [sv.term EXCEPT !.other = @ + 1] \in ScreenType
        BY <1>0 DEF ServerType, ScreenType
      <4> QED
        BY <3>2, <4>1 DEF PtyOutput
    <3> QED
      BY <1>1, <3>1, <3>2
  <2>2. /\ sv' \in ServerType /\ sv'.dirty /\ sv'.state = sv.state
        /\ sv'.next = sv.next /\ sv'.pending = sv.pending
        /\ sv'.echo_ack = sv.echo_ack /\ sv'.acked_num = sv.acked_num
        /\ sv'.current = sv.current
    BY <1>0, <2>1 DEF PtyRead, ServerType
  <2>3. UNCHANGED <<cl, c2s, s2c>> /\ sv.state = "up"
    BY <2>1 DEF PtyRead, ServerPolls, ServerRuns
  <2> QED
    BY <2>2, <2>3
       DEF IInv, TypeOK, EchoesTaken, AcksBehind, NewestIsCurrent, SettledIsShown
<1>2. CASE PtyEof \/ ServerGivesUp
  <2>1. /\ sv' \in ServerType /\ sv'.dirty = sv.dirty
        /\ sv'.state # "done"
        /\ sv'.next = sv.next /\ sv'.pending = sv.pending
        /\ sv'.echo_ack = sv.echo_ack /\ sv'.acked_num = sv.acked_num
        /\ sv'.current = sv.current /\ sv'.term = sv.term
    <3>1. CASE PtyEof
      <4>1. sv.exit_status \in Int /\ ExitCode \in Int /\ sv.state = "up"
        <5>1. sv.exit_status \in Int
          BY <1>0 DEF ServerType
        <5>2. ExitCode \in Int
          BY SessionAssumption
        <5>3. sv.state = "up"
          BY <3>1 DEF PtyEof, ServerPolls, ServerRuns
        <5> QED
          BY <5>1, <5>2, <5>3
      <4>2. PICK e \in Int, b \in BOOLEAN :
              sv' = [sv EXCEPT !.pty_open = FALSE, !.turn = "read", !.shutdown = TRUE,
                               !.force_frame = b, !.exit_status = e]
        BY <1>0, <3>1, <4>1 DEF PtyEof, ServerType
      <4> QED
        BY <1>0, <4>1, <4>2 DEF ServerType
    <3>2. CASE ServerGivesUp
      BY <1>0, <3>2, SMTT(30) DEF ServerGivesUp, ServerType
    <3> QED
      BY <1>2, <3>1, <3>2
  <2>2. UNCHANGED <<cl, c2s, s2c>>
    BY <1>2 DEF PtyEof, ServerGivesUp
  <2> QED
    BY <2>1, <2>2
       DEF IInv, TypeOK, EchoesTaken, AcksBehind, NewestIsCurrent, SettledIsShown
<1>3. CASE ChildCloses \/ ChildDies \/ Over
  BY <1>3 DEF ChildCloses, ChildDies, Over, vars,
              IInv, TypeOK, EchoesTaken, AcksBehind, NewestIsCurrent, SettledIsShown
<1>4. ASSUME NEW m \in c2s, ReceiveMessage(m)
      PROVE  IInv'
  <2> DEFINE s == UpdateAcks(NoteMessage(TakeInput(sv, m), m), m)
  <2>1. /\ s \in ServerType
        /\ s.echo_ack = sv.echo_ack /\ sv.next <= s.next
        /\ \A i \in 1 .. Len(s.pending) : s.pending[i] <= s.next
        /\ s.acked_num \in {sv.acked_num, m.ack}
        /\ s.current = sv.current /\ s.term = sv.term
        /\ s.dirty = sv.dirty /\ s.state = sv.state
    BY MessageTaken
  <2>2. sv' = [s EXCEPT !.turn = "heard"] /\ UNCHANGED <<cl, s2c>> /\ c2s' \subseteq c2s
    BY <1>4 DEF ReceiveMessage
  <2> HIDE DEF s
  <2>3. /\ sv' \in ServerType
        /\ sv'.echo_ack = s.echo_ack /\ sv'.next = s.next
        /\ sv'.pending = s.pending /\ sv'.acked_num = s.acked_num
        /\ sv'.current = s.current /\ sv'.term = s.term
        /\ sv'.dirty = s.dirty /\ sv'.state = s.state
    BY <2>1, <2>2 DEF ServerType
  <2>4. sv.state = "up" /\ sv.echo_ack \in Nat /\ sv.next \in Nat /\ s.next \in Nat
    BY <1>0, <1>4, <2>1 DEF ReceiveMessage, ServerRuns, ServerType
  <2>5. TypeOK'
    BY <2>2, <2>3 DEF IInv, TypeOK
  <2>6. EchoesTaken'
    BY <2>1, <2>2, <2>3, <2>4 DEF IInv, EchoesTaken
  <2>7. AcksBehind'
    BY <2>1, <2>2, <2>3 DEF IInv, AcksBehind
  <2>8. NewestIsCurrent' /\ SettledIsShown'
    BY <2>1, <2>2, <2>3, <2>4 DEF IInv, NewestIsCurrent, SettledIsShown
  <2> QED
    BY <2>5, <2>6, <2>7, <2>8 DEF IInv
<1>5. ASSUME NEW k \in 0 .. Len(sv.pending), NEW grace \in BOOLEAN, ServerTick(k, grace)
      PROVE  IInv'
  BY <1>5, TickSteps
<1> QED
  BY <1>1, <1>2, <1>3, <1>4, <1>5

-----------------------------------------------------------------------------
\* The invariant holds for any number of keystrokes, outputs and datagrams
\* under way: numbered frames, acks and echo acks stay consistent over a link
\* that loses datagrams and delivers them in any order.
THEOREM RemoteInvariant == Spec => []IInv
<1>1. IInv /\ [Next]_vars => IInv'
  <2> SUFFICES ASSUME IInv, [Next]_vars PROVE IInv'
    OBVIOUS
  <2>1. CASE \/ Type \/ Quit \/ ConnectTimeout
             \/ \E f \in s2c : ReceiveFrame(f)
             \/ \E grace \in BOOLEAN : ClientTick(grace)
    BY <2>1, ClientSteps
  <2>2. CASE \/ PtyEcho \/ PtyOutput \/ PtyEof \/ ChildCloses \/ ChildDies
             \/ \E m \in c2s : ReceiveMessage(m)
             \/ \E k \in 0 .. Len(sv.pending), grace \in BOOLEAN : ServerTick(k, grace)
             \/ ServerGivesUp \/ Over
    BY <2>2, ServerSteps
  <2>3. CASE UNCHANGED vars
    BY <2>3 DEF vars, IInv, TypeOK, EchoesTaken, AcksBehind, NewestIsCurrent,
                SettledIsShown
  <2> QED
    BY <2>1, <2>2, <2>3 DEF Next
<1> QED
  BY <1>1, InitIInv, PTL DEF Spec

\* The echo ack of the server never passes the input it has taken, and the
\* late ack of the client never passes the input it knows to be taken: the
\* prediction engine never judges a keystroke the server does not have.
THEOREM EchoStaysBehind == Spec => []EchoBehindInput
<1>1. IInv => EchoBehindInput
  BY DEF IInv, EchoesTaken, EchoBehindInput
<1> QED
  BY <1>1, RemoteInvariant, PTL

\* A server_loop that leaves because its gate opened leaves a client whose
\* applied frame is the newest and shows the terminal as it was at the end.
THEOREM HandshakeIsFinal == Spec => []HandshakeLeavesFinalScreen
<1>1. IInv => HandshakeLeavesFinalScreen
  <2> SUFFICES ASSUME IInv, sv.state = "done"
               PROVE  cl.applied = [num |-> sv.current.num, screen |-> sv.term]
    BY DEF HandshakeLeavesFinalScreen
  <2>1. /\ cl.applied \in NumberedScreen /\ sv.current.num \in Nat
        /\ sv.acked_num \in Nat /\ cl.applied.num \in Nat
    BY DEF IInv, TypeOK, ClientType, ServerType, NumberedScreen
  <2>2. cl.applied.num = sv.current.num
    BY <2>1 DEF IInv, AcksBehind, SettledIsShown
  <2>3. cl.applied.screen = sv.term
    BY <2>2 DEF IInv, NewestIsCurrent, SettledIsShown
  <2> QED
    BY <2>1, <2>2, <2>3 DEF NumberedScreen
<1> QED
  BY <1>1, RemoteInvariant, PTL
=============================================================================
