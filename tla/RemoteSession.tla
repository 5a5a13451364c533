--------------------------- MODULE RemoteSession ---------------------------
(***************************************************************************)
(* A remote session end to end (crates/posh/src/remote): drive_client and  *)
(* server_loop with the input stream, the echo ack, the frames and the     *)
(* shutdown handshake running over the same datagrams, and the command     *)
(* behind the server's pty.                                                *)
(*                                                                         *)
(* Bytes are counted, not kept (InputStream has their values), and a       *)
(* screen is how many keystrokes it shows the echo of and how many other   *)
(* outputs (FrameSync has its bytes). One iteration of a loop is a turn:   *)
(* events in the code's order, then a tick that sends and decides whether  *)
(* to leave. How much time has passed is open at every tick.               *)
(*                                                                         *)
(* `c2s' and `s2c' hold the datagrams under way. They are lost, and        *)
(* overtake one another, but none arrives twice (Datagram!AtMostOnce).     *)
(***************************************************************************)
EXTENDS Integers, Sequences, FiniteSets

CONSTANTS
    MaxTyped,       \* bound: bytes the user types
    MaxOutput,      \* bound: outputs of the command that echo nothing
    InFlight,       \* bound: datagrams under way in one direction
    ExitCode,       \* what the command exits with
    PromptEcho,     \* whether the command echoes within ECHO_TIMEOUT
    IdleTimeout     \* whether POSH_SERVER_*_TMOUT is set

ASSUME SessionAssumption ==
    /\ MaxTyped \in Nat /\ MaxOutput \in Nat
    /\ InFlight \in Nat \ {0}
    /\ ExitCode \in 1 .. 255
    /\ PromptEcho \in BOOLEAN /\ IdleTimeout \in BOOLEAN

VARIABLES
    cl,             \* ClientState and the locals of drive_client
    sv,             \* the locals of server_loop
    child,          \* the command: "running", "closed" (it has let go of the
                    \*   pty and is exiting), "zombie" or "reaped"
    c2s,            \* client messages under way
    s2c             \* server frames under way

vars == <<cl, sv, child, c2s, s2c>>

\* How long ago the last datagram was sent. The four deadlines are ordered:
\* send_interval <= 250 ms and <= rto, rto <= 1 s, HEARTBEAT_INTERVAL = 3 s.
Elapsed == 0 .. 3
SendInterval == 1
Rto == 2
HeartbeatInterval == 3

NoStatus == -1

Blank == [echoed |-> 0, other |-> 0]

-----------------------------------------------------------------------------
\* Mutated forms of the operators below.

EchoUpdatedToNext(s, k) ==
    IF k = 0 THEN s
    ELSE [s EXCEPT !.echo_ack = s.pending[k] + 1, !.force_ack = TRUE,
                   !.pending = SubSeq(@, k + 1, Len(@))]

FrameChoiceAckedOnly(s, elapsed) ==
    IF (s.dirty \/ s.force_frame) /\ elapsed >= SendInterval THEN "fresh"
    ELSE IF s.force_ack /\ s.acked_num >= s.current.num THEN "empty"
    ELSE "none"

GateWithoutForce(s) ==
    s.acked_num >= s.current.num /\ s.echo_ack >= s.next

-----------------------------------------------------------------------------
\* The client.

\* send_message.
Message(c) ==
    [ack |-> c.applied.num, base |-> c.base, end |-> c.typed,
     shut |-> c.shutdown_requested]

\* process_frame up to apply_frame: acks, late acks, the shutdown flag.
NoteFrame(c, f) ==
    [c EXCEPT
       !.heard = TRUE,
       !.base = IF f.input_ack > @ THEN f.input_ack ELSE @,
       !.late_acked = IF f.echo_ack > @ THEN f.echo_ack ELSE @,
       !.shutdown_seen = @ \/ f.shut,
       !.exit_status = IF f.shut /\ f.status # NoStatus THEN f.status ELSE @]

\* apply_frame replaces the screen.
Applies(c, f) ==
    /\ f.num > c.applied.num
    /\ f.kind = "full" \/ (f.kind = "diff" /\ f.base = c.applied.num)

\* apply_frame asks for an ack.
Replies(c, f) == f.num < c.applied.num \/ f.kind # "empty"

ApplyFrame(c, f) ==
    [c EXCEPT
       !.applied = IF Applies(c, f) THEN [num |-> f.num, screen |-> f.screen]
                   ELSE @,
       !.send_now = @ \/ Replies(c, f)]

\* The condition for send_message at the end of a turn.
ClientSends(c, elapsed) ==
    \/ c.send_now
    \/ (c.base < c.typed \/ c.shutdown_requested) /\ elapsed >= Rto
    \/ elapsed >= HeartbeatInterval

-----------------------------------------------------------------------------
\* The server.

\* handle_client_message: new input goes to the pty and to EchoAck::record.
TakeInput(s, m) ==
    IF m.base <= s.next /\ s.next < m.end
    THEN [s EXCEPT !.next = m.end,
                   !.pending = Append(@, m.end),
                   !.force_ack = TRUE]
    ELSE s

\* server_loop: the peer's address and its capability are known from now on,
\* and a quit request starts the shutdown.
NoteMessage(s, m) ==
    [s EXCEPT !.peer = TRUE,
              !.shutdown = @ \/ m.shut,
              !.force_frame = @ \/ (m.shut /\ ~s.shutdown)]

\* update_acks.
UpdateAcks(s, m) ==
    IF m.ack > s.acked_num /\ m.ack <= s.current.num
    THEN [s EXCEPT !.acked_num = m.ack] ELSE s

\* EchoAck::update: the first k entries are older than ECHO_TIMEOUT.
EchoUpdated(s, k) ==
    IF k = 0 THEN s
    ELSE [s EXCEPT !.echo_ack = s.pending[k], !.force_ack = TRUE,
                   !.pending = SubSeq(@, k + 1, Len(@))]

\* Which frame a tick sends: a new one, the newest again, or an empty one.
FrameChoice(s, elapsed) ==
    IF (s.dirty \/ s.force_frame) /\ elapsed >= SendInterval THEN "fresh"
    ELSE IF s.acked_num < s.current.num /\ elapsed >= Rto THEN "again"
    ELSE IF elapsed >= HeartbeatInterval THEN "empty"
    ELSE IF s.force_ack /\ s.acked_num >= s.current.num THEN "empty"
    ELSE "none"

\* last_send starts at 0, the distant past.
ElapsedFor(s) ==
    IF ~s.peer THEN {} ELSE IF s.sent THEN Elapsed ELSE {HeartbeatInterval}

\* What the tick may choose as time goes by: nothing for a peer that is not
\* known yet or has been silent for PEER_TIMEOUT.
Choices(s) ==
    (IF s.turn = "heard" THEN {} ELSE {"none"})
      \cup {FrameChoice(s, elapsed) : elapsed \in ElapsedFor(s)}

\* The state behind the frame that is sent.
Produced(s, choice) ==
    LET t == IF choice = "fresh"
             THEN [s EXCEPT !.dirty = FALSE, !.force_frame = FALSE,
                            !.current = [num |-> @.num + 1, screen |-> s.term]]
             ELSE s
    IN  IF choice = "none" THEN t ELSE [t EXCEPT !.force_ack = FALSE, !.sent = TRUE]

\* try_reap: the exit code once the command can be waited for.
CanReap == child = "zombie"

\* A handshake frame retries the reap.
Reaps(s, choice) ==
    choice # "none" /\ s.shutdown /\ s.exit_status = NoStatus /\ CanReap

\* The bodies a frame can have. Whether a diff is shorter than the dump, and
\* whether its base is still at hand, is left open (see FrameSync).
Bodies(choice) ==
    IF choice \in {"fresh", "again"} THEN {"full", "diff"} ELSE {"empty"}

Frame(s, kind) ==
    [num |-> s.current.num,
     kind |-> kind,
     base |-> IF kind = "diff" THEN s.acked_num ELSE 0,
     screen |-> IF kind = "empty" THEN Blank ELSE s.current.screen,
     input_ack |-> s.next,
     echo_ack |-> s.echo_ack,
     shut |-> s.shutdown,
     status |-> IF s.shutdown THEN s.exit_status ELSE NoStatus]

\* The handshake is over: the client has confirmed the final state.
Gate(s) ==
    /\ ~s.force_frame /\ ~s.force_ack /\ ~s.dirty
    /\ s.acked_num >= s.current.num
    /\ s.echo_ack >= s.next

\* What may be under way once a datagram is sent: past the bound one of them,
\* the new one or another, is lost. One that is never received is lost too.
Sent(channel, d) ==
    LET under_way == channel \cup {d}
    IN  IF Cardinality(under_way) <= InFlight THEN {under_way}
        ELSE {under_way \ {lost} : lost \in under_way}

-----------------------------------------------------------------------------
\* The client has said hello; both loops are at the top.
Init ==
    /\ cl = [typed |-> 0, base |-> 0, applied |-> [num |-> 0, screen |-> Blank],
             late_acked |-> 0, heard |-> FALSE, shutdown_requested |-> FALSE,
             shutdown_seen |-> FALSE, exit_status |-> 0, send_now |-> FALSE,
             state |-> "up"]
    /\ sv = [next |-> 0, pending |-> << >>, echo_ack |-> 0,
             term |-> Blank, dirty |-> FALSE,
             current |-> [num |-> 0, screen |-> Blank], acked_num |-> 0,
             force_ack |-> FALSE, force_frame |-> FALSE, pty_open |-> TRUE,
             peer |-> FALSE, sent |-> FALSE, shutdown |-> FALSE, exit_status |-> NoStatus,
             turn |-> "poll", state |-> "up"]
    /\ child = "running"
    /\ c2s = {Message(cl)}
    /\ s2c = {}

\* process_user_input with one byte for the session.
Type ==
    /\ cl.state = "up"
    /\ cl.typed < MaxTyped
    /\ cl' = [cl EXCEPT !.typed = @ + 1, !.send_now = TRUE]
    /\ UNCHANGED <<sv, child, c2s, s2c>>

\* The quit sequence, end of file on the tty, or a signal: request_shutdown.
Quit ==
    /\ cl.state = "up"
    /\ cl' = [cl EXCEPT !.shutdown_requested = TRUE, !.send_now = TRUE]
    /\ UNCHANGED <<sv, child, c2s, s2c>>

\* process_frame, for each datagram the socket holds.
ReceiveFrame(f) ==
    /\ cl.state = "up"
    /\ s2c' = s2c \ {f}
    /\ cl' = ApplyFrame(NoteFrame(cl, f), f)
    /\ UNCHANGED <<sv, child, c2s>>

\* The end of a turn: send, then leave if the server has said so or did not
\* answer the quit request in time.
ClientTick(grace) ==
    /\ cl.state = "up"
    /\ grace => cl.shutdown_requested
    /\ \E sends \in {ClientSends(cl, elapsed) : elapsed \in Elapsed} :
          c2s' \in IF sends THEN Sent(c2s, Message(cl)) ELSE {c2s}
    /\ cl' = [cl EXCEPT !.send_now = FALSE,
                        !.state = IF cl.shutdown_seen THEN "done"
                                  ELSE IF grace THEN "gaveup" ELSE @]
    /\ UNCHANGED <<sv, child, s2c>>

\* No frame was ever heard: POSH_CONNECT_TMOUT.
ConnectTimeout ==
    /\ cl.state = "up" /\ ~cl.heard
    /\ cl' = [cl EXCEPT !.state = "timeout"]
    /\ UNCHANGED <<sv, child, c2s, s2c>>

-----------------------------------------------------------------------------
\* The top of the loop: a shutdown with no peer to tell ends it.
MustGiveUp == sv.turn = "poll" /\ sv.shutdown /\ ~sv.peer

ServerRuns == sv.state = "up" /\ ~MustGiveUp

ServerPolls == ServerRuns /\ sv.turn = "poll"

\* The command writes and the server feeds the terminal.
PtyRead(screen) ==
    /\ ServerPolls /\ sv.pty_open /\ child = "running"
    /\ sv' = [sv EXCEPT !.term = screen, !.dirty = TRUE, !.turn = "read"]
    /\ UNCHANGED <<cl, child, c2s, s2c>>

PtyEcho ==
    /\ sv.term.echoed < sv.next
    /\ PtyRead([sv.term EXCEPT !.echoed = @ + 1])

PtyOutput ==
    /\ sv.term.other < MaxOutput
    /\ PtyRead([sv.term EXCEPT !.other = @ + 1])

\* The command exits: first its end of the pty closes, later it can be reaped.
ChildCloses ==
    /\ child = "running" /\ child' = "closed" /\ UNCHANGED <<cl, sv, c2s, s2c>>

ChildDies ==
    /\ child = "closed" /\ child' = "zombie" /\ UNCHANGED <<cl, sv, c2s, s2c>>

\* End of file on the pty starts the shutdown handshake.
PtyEof ==
    /\ ServerPolls /\ sv.pty_open /\ child # "running"
    /\ sv' = [sv EXCEPT
                !.pty_open = FALSE, !.turn = "read",
                !.shutdown = TRUE,
                !.force_frame = @ \/ ~sv.shutdown,
                !.exit_status = IF ~sv.shutdown /\ CanReap THEN ExitCode ELSE @]
    /\ child' = IF ~sv.shutdown /\ CanReap THEN "reaped" ELSE child
    /\ UNCHANGED <<cl, c2s, s2c>>

\* One client message, for each datagram the socket holds.
ReceiveMessage(m) ==
    /\ ServerRuns
    /\ c2s' = c2s \ {m}
    /\ sv' = [UpdateAcks(NoteMessage(TakeInput(sv, m), m), m)
                EXCEPT !.turn = "heard"]
    /\ UNCHANGED <<cl, child, s2c>>

\* With PromptEcho, an entry old enough has been echoed into the terminal.
Mature(s, k) == PromptEcho /\ k > 0 => s.term.echoed >= s.pending[k]

\* The end of a turn: advance the echo ack, send what is due to a peer that is
\* known and not silent, leave if the handshake is over or took too long.
ServerTick(k, grace) ==
    /\ ServerRuns
    /\ grace => sv.shutdown
    /\ Mature(sv, k)
    /\ LET s == EchoUpdated(sv, k)
       IN  \E choice \in Choices(s) : \E kind \in Bodies(choice) :
             LET t == [Produced(s, choice) EXCEPT
                         !.exit_status = IF Reaps(s, choice) THEN ExitCode
                                         ELSE @]
             IN  /\ s2c' \in IF choice = "none" THEN {s2c}
                             ELSE Sent(s2c, Frame(t, kind))
                 /\ child' = IF Reaps(s, choice) THEN "reaped" ELSE child
                 /\ sv' = [t EXCEPT
                             !.turn = "poll",
                             !.state = IF t.shutdown /\ Gate(t) THEN "done"
                                       ELSE IF grace THEN "gaveup" ELSE @]
    /\ UNCHANGED <<cl, c2s>>

\* The top of the loop: a shutdown with a peer that is not known or has been
\* silent for PEER_TIMEOUT, or an idle timeout that the environment has set.
ServerGivesUp ==
    /\ sv.state = "up" /\ sv.turn = "poll"
    /\ sv.shutdown \/ IdleTimeout
    /\ sv' = [sv EXCEPT !.state = IF sv.shutdown THEN "gaveup" ELSE "timeout"]
    /\ UNCHANGED <<cl, child, c2s, s2c>>

\* Both ends have left.
Over ==
    /\ cl.state # "up" /\ sv.state # "up"
    /\ UNCHANGED vars

Next ==
    \/ Type \/ Quit \/ ConnectTimeout
    \/ \E f \in s2c : ReceiveFrame(f)
    \/ \E grace \in BOOLEAN : ClientTick(grace)
    \/ PtyEcho \/ PtyOutput \/ PtyEof \/ ChildCloses \/ ChildDies
    \/ \E m \in c2s : ReceiveMessage(m)
    \/ \E k \in 0 .. Len(sv.pending), grace \in BOOLEAN : ServerTick(k, grace)
    \/ ServerGivesUp
    \/ Over

Spec == Init /\ [][Next]_vars

\* Both loops run and time passes, so that what is due is sent and a loop that
\* must end ends; and a link that loses any datagram, but not all of those
\* sent again and again.
ClientResends ==
    /\ UNCHANGED <<sv, child, s2c>>
    /\ ClientTick(FALSE) /\ c2s' # c2s /\ Message(cl) \in c2s'

ServerResends ==
    /\ sv.peer /\ UNCHANGED <<cl, c2s>>
    /\ ServerTick(0, FALSE)
    /\ \E f \in s2c' : f = Frame(sv', f.kind)
    /\ ~sv'.dirty

ReceiveLatestMessage == \E m \in c2s : m = Message(cl) /\ ReceiveMessage(m)

ReceiveLatestFrame ==
    \E f \in s2c :
        /\ f.input_ack = sv.next /\ f.num = sv.current.num
        /\ f.kind # "diff" \/ f.base = cl.applied.num
        /\ ReceiveFrame(f)

Fairness ==
    /\ WF_vars(ClientResends)
    /\ WF_vars(ServerResends)
    /\ WF_vars(MustGiveUp /\ ServerGivesUp)
    /\ SF_vars(ReceiveLatestMessage)
    /\ SF_vars(ReceiveLatestFrame)

FairSpec == Spec /\ Fairness

-----------------------------------------------------------------------------
\* A server that leaves because the handshake is over leaves a client that
\* shows the last screen, whatever was lost or overtaken on the way.
HandshakeLeavesFinalScreen ==
    sv.state = "done" => cl.applied = [num |-> sv.current.num, screen |-> sv.term]

\* A keystroke is judged by its echo only once the server has it and the
\* client knows: the echo ack runs ahead of neither, in any order of frames.
EchoBehindInput == sv.echo_ack <= sv.next /\ cl.late_acked <= cl.base

\* While both ends run, what is typed is acknowledged in the end and what the
\* command draws reaches the client's screen, although new frames, then
\* retransmissions, go before prompt acks and either loop may be shutting down.
CatchesUp ==
    cl.base < cl.typed \/ sv.dirty
      ~> \/ cl.base = cl.typed /\ cl.applied.screen = sv.term
         \/ cl.state # "up" \/ sv.state # "up"
=============================================================================
