----------------------------- MODULE FrameSync -----------------------------
(***************************************************************************)
(* Screen synchronisation (crates/posh/src/remote): server_loop turns the  *)
(* terminal's state into numbered frames, sends each as a full dump or as  *)
(* a diff against the last frame the client confirmed, and retransmits the *)
(* newest one until it is confirmed (server.rs: frame production,          *)
(* update_acks). The client applies a frame only to the state it was       *)
(* computed from and confirms the newest frame it holds (client.rs:        *)
(* apply_frame, send_message).                                             *)
(*                                                                         *)
(* `frames' and `acks' hold everything ever sent; any element may be       *)
(* received at any time, again or never. Time is abstracted: whether the   *)
(* send interval or the retransmission timeout has passed is open in every *)
(* step, and since the interval is never longer than the timeout           *)
(* (datagram.rs: 20..250 ms, at most half the SRTT, against 50..1000 ms), a*)
(* retransmission happens only when there is nothing new to send.          *)
(***************************************************************************)
EXTENDS Diff, FiniteSets

CONSTANTS
    Screens,        \* the dump_vt streams the terminal can be in
    MaxOutstanding, \* unconfirmed frames remembered as diff bases (code: 8)
    DiffOverhead,   \* bytes a diff costs beyond its middle (code: 16)
    MaxFrames       \* bound: frames the server numbers in one behaviour

ASSUME FrameAssumption ==
    /\ \A s \in Screens : s \in Seq(Int)
    /\ MaxOutstanding \in Nat \ {0}
    /\ DiffOverhead \in Nat
    /\ MaxFrames \in Nat

VARIABLES
    screen,         \* what Terminal::dump_vt would return now
    dirty,          \* the terminal's generation differs from last_gen
    current,        \* the newest frame: [num, data]
    acked_num,      \* the newest frame the client is known to hold
    acked_data,     \* its bytes: {} when forgotten, else a singleton
    outstanding,    \* older frames still remembered; the Vec is in num order
    applied_num,    \* client: the frame its screen is built from
    applied_data,   \* client: that frame's bytes
    frames,         \* server frames sent
    acks,           \* acked_frame values of the client messages sent
    published       \* history: published[n + 1] is the content of frame n

server == <<screen, dirty, current, acked_num, acked_data, outstanding>>
client == <<applied_num, applied_data>>
vars == <<server, client, frames, acks, published>>

-----------------------------------------------------------------------------
\* Mutated forms of the operators below.

RememberOneLess(out, f) ==
    LET all == out \cup {f}
    IN  IF Cardinality(all) >= MaxOutstanding
        THEN {g \in all : \E h \in all : h.num < g.num}
        ELSE all

FindAckedFromCurrent(n) == {current.data}

CanApplyOlder(f) ==
    /\ f.num # applied_num
    /\ \/ f.kind = "full"
       \/ /\ f.kind = "diff"
          /\ f.base = applied_num
          /\ Applicable(applied_data, f.diff)

RepliesOnlyToNew(f) == f.num > applied_num /\ f.kind = "full"

-----------------------------------------------------------------------------
\* Frames.

FullFrame(num, data) == [num |-> num, kind |-> "full", data |-> data]

DiffFrame(num, base, diff) ==
    [num |-> num, kind |-> "diff", base |-> base, diff |-> diff]

EmptyFrame(num) == [num |-> num, kind |-> "empty"]

\* The frame that carries `data' under number `num' to a client known to
\* hold frame `base' with content `known': a diff when it is shorter.
FrameFor(num, data, base, known) ==
    IF \E old \in known :
         Len(MakeDiff(old, data).middle) + DiffOverhead < Len(data)
    THEN DiffFrame(num, base, MakeDiff(CHOOSE old \in known : TRUE, data))
    ELSE FullFrame(num, data)

CurrentFrame == FrameFor(current.num, current.data, acked_num, acked_data)

\* outstanding.push and the cap on its length, which drops the oldest.
Remember(out, f) ==
    LET all == out \cup {f}
    IN  IF Cardinality(all) > MaxOutstanding
        THEN {g \in all : \E h \in all : h.num < g.num}
        ELSE all

\* The bytes of frame n, if they are still at hand.
FindAcked(n) ==
    IF n = current.num THEN {current.data}
    ELSE {f.data : f \in {g \in outstanding : g.num = n}}

-----------------------------------------------------------------------------
\* Frame 0 is the blank terminal, which the client starts from as well.
Init ==
    /\ screen = << >>
    /\ dirty = FALSE
    /\ current = [num |-> 0, data |-> << >>]
    /\ acked_num = 0
    /\ acked_data = {<< >>}
    /\ outstanding = {}
    /\ applied_num = 0
    /\ applied_data = << >>
    /\ frames = {}
    /\ acks = {}
    /\ published = << << >> >>

\* The application writes to the pty, or the window is resized: the terminal
\* changes and its generation moves on.
PtyOutput(s) ==
    /\ current.num < MaxFrames
    /\ screen' = s
    /\ dirty' = TRUE
    /\ UNCHANGED <<current, acked_num, acked_data, outstanding,
                   client, frames, acks, published>>

\* A fresh frame: the old one is remembered, the new one is sent at once.
ProduceFrame ==
    /\ dirty
    /\ current.num < MaxFrames
    /\ dirty' = FALSE
    /\ outstanding' = Remember(outstanding, current)
    /\ current' = [num |-> current.num + 1, data |-> screen]
    /\ published' = Append(published, screen)
    /\ frames' = frames
          \cup {FrameFor(current.num + 1, screen, acked_num, acked_data)}
    /\ UNCHANGED <<screen, acked_num, acked_data, client, acks>>

\* The retransmission timeout passed with the newest frame unconfirmed.
Retransmit ==
    /\ ~dirty
    /\ acked_num < current.num
    /\ frames' = frames \cup {CurrentFrame}
    /\ UNCHANGED <<server, client, acks, published>>

\* A heartbeat or a prompt input ack, once everything sent is confirmed.
SendEmpty ==
    /\ acked_num >= current.num
    /\ frames' = frames \cup {EmptyFrame(current.num)}
    /\ UNCHANGED <<server, client, acks, published>>

\* update_acks: old acks and acks for frames never sent are ignored.
IsNewAck(n) == n > acked_num /\ n <= current.num

ReceiveAck(n) ==
    /\ IsNewAck(n)
    /\ acked_num' = n
    /\ acked_data' = FindAcked(n)
    /\ outstanding' = {f \in outstanding : f.num >= n}
    /\ UNCHANGED <<screen, dirty, current, client, frames, acks, published>>

-----------------------------------------------------------------------------
\* The client.

\* apply_frame gets as far as replacing the screen.
CanApply(f) ==
    /\ f.num > applied_num
    /\ \/ f.kind = "full"
       \/ /\ f.kind = "diff"
          /\ f.base = applied_num
          /\ Applicable(applied_data, f.diff)

\* apply_frame asks for an ack: for every frame but a current empty one.
Replies(f) == f.num < applied_num \/ f.kind # "empty"

Content(f) ==
    IF f.kind = "full" THEN f.data ELSE ApplyDiff(applied_data, f.diff)

ReceiveFrame(f) ==
    /\ IF CanApply(f)
       THEN applied_num' = f.num /\ applied_data' = Content(f)
       ELSE UNCHANGED client
    /\ acks' = IF Replies(f) THEN acks \cup {applied_num'} ELSE acks
    /\ UNCHANGED <<server, frames, published>>

\* Any other client message (keystrokes, resize, heartbeat).
SendMessage ==
    /\ acks' = acks \cup {applied_num}
    /\ UNCHANGED <<server, client, frames, published>>

-----------------------------------------------------------------------------
Next ==
    \/ \E s \in Screens : PtyOutput(s)
    \/ ProduceFrame
    \/ Retransmit
    \/ SendEmpty
    \/ \E n \in acks : ReceiveAck(n)
    \/ \E f \in frames : ReceiveFrame(f)
    \/ SendMessage

Spec == Init /\ [][Next]_vars

\* A link that may lose any datagram, but not every copy of one that is sent
\* again and again; loops that run. The application need not write.
ReceiveCurrentFrame == CurrentFrame \in frames /\ ReceiveFrame(CurrentFrame)

ReceiveAppliedAck == applied_num \in acks /\ ReceiveAck(applied_num)

Fairness ==
    /\ WF_vars(ProduceFrame)
    /\ WF_vars(Retransmit)
    /\ WF_vars(ReceiveCurrentFrame)
    /\ WF_vars(ReceiveAppliedAck)

FairSpec == Spec /\ Fairness
-----------------------------------------------------------------------------
FrameData == Screens \cup {<< >>}

TypeOK ==
    /\ screen \in FrameData
    /\ dirty \in BOOLEAN
    /\ current \in [num : Nat, data : FrameData]
    /\ acked_num \in Nat
    /\ acked_data \in SUBSET FrameData
    /\ outstanding \subseteq [num : Nat, data : FrameData]
    /\ applied_num \in Nat
    /\ applied_data \in FrameData
    /\ acks \subseteq Nat
    /\ published \in Seq(FrameData)

\* The client's screen is, byte for byte, the frame whose number it confirms,
\* whatever mixture of lost, stale and repeated diffs and dumps it was built
\* from (apply_frame).
ClientHoldsItsFrame ==
    /\ applied_num + 1 <= Len(published)
    /\ applied_data = published[applied_num + 1]

\* The server diffs against a state the client has really held, with that
\* state's bytes: it never believes the client further than it is, nor
\* confuses one frame's content with another's (update_acks).
ServerKnowsClient ==
    /\ acked_num <= applied_num
    /\ \A old \in acked_data : old = published[acked_num + 1]

\* The server falls back to full dumps only for a client that is more than
\* MaxOutstanding frames behind (the cap on `outstanding').
FullDumpOnlyWhenFarBehind ==
    acked_data = {} => acked_num + MaxOutstanding < current.num

\* The client's view mirrors the published screens, forwards only.
Mirror == INSTANCE ScreenMirror
            WITH shown <- applied_num + 1, view <- applied_data

MirrorsScreens == Mirror!Spec

\* Once the application stops writing, the client ends up with the terminal's
\* present screen and the server knows it.
Converges == <>[](applied_data = screen /\ acked_num = current.num)
=============================================================================
