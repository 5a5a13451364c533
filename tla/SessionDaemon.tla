--------------------------- MODULE SessionDaemon ---------------------------
(***************************************************************************)
(* A running session (crates/posh/src/session/daemon.rs daemon_loop and    *)
(* the teardown in daemon_main; crates/posh/src/session/client.rs          *)
(* client_loop): the daemon holds the shell's pty and a model of its       *)
(* screen; clients come and go, each with a terminal of its own size that  *)
(* must show the shell's screen.                                           *)
(*                                                                         *)
(* The shell's output is a sequence of chunks; a screen is the number of   *)
(* chunks it shows. A chunk drawn on a screen that lacks an earlier one    *)
(* leaves the screen Torn; a replay repaints it whole. What a client types *)
(* goes to the shell, which may write at any time, and is left out.        *)
(*                                                                         *)
(* One iteration of daemon_loop is a pass through the phases "top" (the    *)
(* SIGTERM flag, slow clients), "poll", "pty" if the pty was readable and  *)
(* "clients" (the clients poll reported, last first).                      *)
(***************************************************************************)
EXTENDS Integers, Sequences, FiniteSets, SequencesExt

CONSTANTS
    Clients,        \* client processes, each of which runs once
    Readers,        \* the clients that attach and keep reading; the others may
                    \*   stick, or be commands
    Sizes,          \* terminal sizes <<rows, cols>>
    StartSize,      \* the size each client's terminal has when it attaches
    DefaultSize,    \* size of the pty before any client (24 x 80)
    MaxBacklog,     \* MAX_CLIENT_BACKLOG, in frames
    SockRoom,       \* frames a socket takes before write blocks
    MaxOutput,      \* bound: chunks the shell writes
    MaxInq,         \* bound: frames a client has under way
    MaxSends        \* bound: frames sent by attached clients after their Init

ASSUME DaemonAssumption ==
    /\ Readers \subseteq Clients
    /\ Sizes \subseteq Nat \X Nat
    /\ StartSize \in [Clients -> Nat \X Nat]
    /\ DefaultSize \in Nat \X Nat
    /\ MaxBacklog \in Nat /\ SockRoom \in Nat \ {0}
    /\ MaxOutput \in Nat /\ MaxInq \in Nat /\ MaxSends \in Nat

Torn == -1

Unreported == <<0, 0>>

NoCode == -1

VARIABLES
    phase,          \* the daemon: "top", "poll", "pty", "clients", "teardown",
                    \*   "farewell", "gone"
    sigterm,        \* SIGTERM_RECEIVED
    term,           \* chunks the daemon's model has processed
    pty,            \* size of the pty and of the model
    clients,        \* the daemon's list, in the order of accept
    size,           \* ClientConn.rows, .cols
    wbuf,           \* ClientConn.write_buf
    readable,       \* clients poll reported and the loop has not come to, by
    writable,       \*   POLLIN and POLLOUT; in "farewell" those not yet told
    stale,          \* a slow client was dropped and no size applied since
    shell,          \* "running", "exited"
    written,        \* chunks the shell has written
    proc,           \* a client process: "off", "attached", "command", "left"
    open,           \* the client's socket is not closed by the daemon
    inq,            \* frames from the client on the socket
    sock,           \* frames to the client on the socket
    shown,          \* what the client's terminal shows
    inited,         \* the daemon has taken an Init from the client
    code,           \* status client_loop returned, NoCode before that
    sends           \* frames counted against MaxSends

polled == <<readable, writable>>

daemonVars == <<phase, sigterm, term, pty, clients, size, wbuf, polled, stale>>

shellVars == <<shell, written>>

clientVars == <<proc, open, inq, sock, shown, inited, code, sends>>

vars == <<daemonVars, shellVars, clientVars>>

ExitStatus == 7

KilledStatus == 137

\* Frames from a client.
InitFrame(s) == [tag |-> "Init", size |-> s]

ResizeFrame(s) == [tag |-> "Resize", size |-> s]

Frame(tag) == [tag |-> tag]

\* Frames to a client; a replay is an Output frame that repaints everything.
Output(n) == [tag |-> "Output", chunk |-> n]

Replay(n) == [tag |-> "Replay", chunk |-> n]

Exit(status) == [tag |-> "Exit", code |-> status]

-----------------------------------------------------------------------------
\* Mutated forms of the operators below.

AppliedOfLast(cs, sz) == IF cs = << >> THEN pty ELSE sz[Last(cs)]

NeedsReplayOnce(c, batch) == batch.init /\ term > 0 /\ ~ inited[c]

ExitFramesOnly(c, status) == <<Exit(status)>>

PtyReadableOutput == term < written

TakesOutputTogether(c) ==
    wbuf[c] # << >> /\ \A d \in Range(clients) : Len(sock[d]) < SockRoom

-----------------------------------------------------------------------------
Init ==
    /\ phase = "top" /\ sigterm = FALSE /\ term = 0 /\ pty = DefaultSize
    /\ clients = << >>
    /\ size = [c \in Clients |-> Unreported]
    /\ wbuf = [c \in Clients |-> << >>]
    /\ readable = {} /\ writable = {} /\ stale = FALSE
    /\ shell = "running" /\ written = 0
    /\ proc = [c \in Clients |-> "off"]
    /\ open = [c \in Clients |-> FALSE]
    /\ inq = [c \in Clients |-> << >>]
    /\ sock = [c \in Clients |-> << >>]
    /\ shown = [c \in Clients |-> 0]
    /\ inited = [c \in Clients |-> FALSE]
    /\ code = [c \in Clients |-> NoCode]
    /\ sends = 0

-----------------------------------------------------------------------------
\* The shell (external).

ShellWrites ==
    /\ shell = "running" /\ written < MaxOutput
    /\ written' = written + 1
    /\ UNCHANGED <<daemonVars, shell, clientVars>>

ShellExits ==
    /\ shell = "running"
    /\ shell' = "exited"
    /\ UNCHANGED <<daemonVars, written, clientVars>>

-----------------------------------------------------------------------------
\* Client processes.

Connects(c, kind, f) ==
    /\ proc[c] = "off" /\ phase # "gone"
    /\ proc' = [proc EXCEPT ![c] = kind]
    /\ open' = [open EXCEPT ![c] = TRUE]
    /\ inq' = [inq EXCEPT ![c] = <<f>>]
    /\ UNCHANGED <<daemonVars, shellVars, sock, shown, inited, code, sends>>

\* client_loop begins: on a cleared terminal, with Init as the first frame.
Attach(c) == Connects(c, "attached", InitFrame(StartSize[c]))

\* posh list, history, run, detach, kill: connect and send one frame (the Info
\* that probes the session before a Kill is a Request of its own).
Command(c, f) == Connects(c, "command", f)

\* The detach key, or SIGWINCH.
ClientSends(c, f) ==
    /\ proc[c] = "attached" /\ open[c]
    /\ Len(inq[c]) < MaxInq /\ sends < MaxSends
    /\ inq' = [inq EXCEPT ![c] = Append(@, f)]
    /\ sends' = sends + 1
    /\ UNCHANGED <<daemonVars, shellVars, proc, open, sock, shown, inited, code>>

\* SIGCONT: the alternate screen is entered again, blank, and Init sent again.
ClientResumes(c, s) ==
    /\ proc[c] = "attached" /\ open[c]
    /\ Len(inq[c]) < MaxInq /\ sends < MaxSends
    /\ inq' = [inq EXCEPT ![c] = Append(@, InitFrame(s))]
    /\ sends' = sends + 1
    /\ shown' = [shown EXCEPT ![c] = 0]
    /\ UNCHANGED <<daemonVars, shellVars, proc, open, sock, inited, code>>

\* What a terminal shows once it has drawn a frame, and a run of frames.
Drawn(screen, f) ==
    CASE f.tag = "Output" -> IF screen = f.chunk - 1 THEN f.chunk ELSE Torn
      [] f.tag = "Replay" -> f.chunk
      [] OTHER -> screen

DrawnAll(screen, frames) ==
    LET after[i \in 0 .. Len(frames)] ==
            IF i = 0 THEN screen ELSE Drawn(after[i - 1], frames[i])
    IN  after[Len(frames)]

\* One turn of client_loop with the socket readable: n frames fit the read and
\* are drawn, up to an Exit. A turn in which poll also reported the hang-up is
\* the last, whatever is still unread; so is a read of nothing, end of file.
ClientReads(c, n) ==
    LET got   == SubSeq(sock[c], 1, n)
        exits == {i \in 1 .. n : got[i].tag = "Exit"}
    IN  /\ proc[c] = "attached"
        /\ IF sock[c] = << >> THEN n = 0 /\ ~ open[c] ELSE n \in 1 .. Len(sock[c])
        /\ shown' = [shown EXCEPT ![c] = DrawnAll(@, got)]
        /\ sock' = [sock EXCEPT ![c] = SubSeq(@, n + 1, Len(@))]
        /\ IF exits # {} \/ ~ open[c]
           THEN /\ proc' = [proc EXCEPT ![c] = "left"]
                /\ code' = [code EXCEPT ![c] =
                              IF exits = {} THEN 0
                              ELSE got[CHOOSE i \in exits : TRUE].code]
           ELSE UNCHANGED <<proc, code>>
        /\ UNCHANGED <<daemonVars, shellVars, open, inq, inited, sends>>

\* wait_for_frame: a command reads until its answer or the end of file.
CommandReads(c) ==
    /\ proc[c] = "command"
    /\ \/ /\ sock[c] # << >>
          /\ sock' = [sock EXCEPT ![c] = Tail(@)]
          /\ proc' = [proc EXCEPT ![c] =
                        IF Head(sock[c]).tag = "Reply" THEN "left" ELSE @]
       \/ /\ sock[c] = << >> /\ ~ open[c]
          /\ proc' = [proc EXCEPT ![c] = "left"]
          /\ UNCHANGED sock
    /\ UNCHANGED <<daemonVars, shellVars, open, inq, shown, inited, code, sends>>

\* The client process goes away by itself: its terminal closed, it was killed,
\* a command wanted no answer.
ClientLeaves(c) ==
    /\ proc[c] \in {"attached", "command"}
    /\ proc' = [proc EXCEPT ![c] = "left"]
    /\ sock' = [sock EXCEPT ![c] = << >>]
    /\ shown' = [shown EXCEPT ![c] = 0]
    /\ UNCHANGED <<daemonVars, shellVars, open, inq, inited, code, sends>>

-----------------------------------------------------------------------------
\* The daemon.

\* min_client_size: the elementwise minimum over clients that reported a size.
Reported(cs, sz) == {c \in Range(cs) : sz[c][1] # 0 /\ sz[c][2] # 0}

Least(S) == CHOOSE x \in S : \A y \in S : x <= y

Greatest(S) == CHOOSE x \in S : \A y \in S : y <= x

MinClientSize(cs, sz) ==
    <<Least({sz[c][1] : c \in Reported(cs, sz)}),
      Least({sz[c][2] : c \in Reported(cs, sz)})>>

\* apply_client_size: with no size reported the pty keeps the one it has.
Applied(cs, sz) ==
    IF Reported(cs, sz) = {} THEN pty ELSE MinClientSize(cs, sz)

Emptied(C, f, e) == [c \in Clients |-> IF c \in C THEN e ELSE f[c]]

\* The list without the clients in C: Vec::retain, Vec::remove, Vec::clear.
Without(list, C) ==
    LET kept[i \in 0 .. Len(list)] ==
            IF i = 0 THEN << >>
            ELSE IF list[i] \in C THEN kept[i - 1]
            ELSE Append(kept[i - 1], list[i])
    IN  kept[Len(list)]

\* Dropping a ClientConn closes its socket, and what the client has sent is
\* lost.
Dropped(C, unread) ==
    /\ clients' = Without(clients, C)
    /\ open' = Emptied(C, open, FALSE)
    /\ inq' = Emptied(C, unread, << >>)

\* The signal; poll returns early with EINTR, unless the signal came in between
\* the look at the flag and poll, which then waits for something else.
SigtermArrives ==
    /\ ~ sigterm /\ phase \in {"top", "poll", "pty", "clients"}
    /\ sigterm' = TRUE
    /\ \/ phase = "poll" /\ phase' = "top"
       \/ UNCHANGED phase
    /\ UNCHANGED <<term, pty, clients, size, wbuf, polled, stale, shellVars,
                   clientVars>>

IsSlow(c) == Len(wbuf[c]) > MaxBacklog

\* The top of the loop: slow clients are dropped (and the size left alone).
LoopTop ==
    LET slow == {c \in Range(clients) : IsSlow(c)}
    IN  /\ phase = "top" /\ ~ sigterm
        /\ phase' = "poll"
        /\ Dropped(slow, inq)
        /\ inited' = Emptied(slow, inited, FALSE)
        /\ wbuf' = Emptied(slow, wbuf, << >>)
        /\ size' = Emptied(slow, size, Unreported)
        /\ stale' = (stale \/ slow # {})
        /\ UNCHANGED <<sigterm, term, pty, polled, shellVars, proc, sock, shown,
                       code, sends>>

Sigterm ==
    /\ phase = "top" /\ sigterm
    /\ phase' = "teardown"
    /\ UNCHANGED <<sigterm, term, pty, clients, size, wbuf, polled, stale,
                   shellVars, clientVars>>

\* What poll finds ready.
Connecting == {c \in Clients : open[c] /\ c \notin Range(clients)}

PtyReadable == term < written \/ shell = "exited"

HasInput(c) == inq[c] # << >> \/ proc[c] = "left"

TakesOutput(c) ==
    wbuf[c] # << >> /\ (Len(sock[c]) < SockRoom \/ proc[c] = "left")

SomethingReady ==
    \/ Connecting # {} \/ PtyReadable
    \/ \E c \in Range(clients) : HasInput(c) \/ TakesOutput(c)

\* The clients poll reported are next, or else the next iteration.
ClientsNext == phase' = IF readable' \cup writable' = {} THEN "top" ELSE "clients"

\* poll, and the accept of one connection.
Poll ==
    /\ phase = "poll" /\ SomethingReady
    /\ readable' = {c \in Range(clients) : HasInput(c)}
    /\ writable' = {c \in Range(clients) : TakesOutput(c)}
    /\ IF PtyReadable THEN phase' = "pty" ELSE ClientsNext
    /\ \/ \E c \in Connecting : clients' = Append(clients, c)
       \/ Connecting = {} /\ UNCHANGED clients
    /\ UNCHANGED <<sigterm, term, pty, size, wbuf, stale, shellVars, clientVars>>

\* Output: the model processes it and it is broadcast.
PtyOutput ==
    /\ phase = "pty" /\ term < written
    /\ UNCHANGED polled /\ ClientsNext
    /\ term' = term + 1
    /\ wbuf' = [c \in Clients |->
                  IF c \in Range(clients) THEN Append(wbuf[c], Output(term + 1))
                  ELSE wbuf[c]]
    /\ UNCHANGED <<sigterm, pty, clients, size, stale, shellVars, clientVars>>

\* End of file on the pty, once everything written has been read.
PtyEof ==
    /\ phase = "pty" /\ term = written
    /\ phase' = "teardown"
    /\ UNCHANGED <<sigterm, term, pty, clients, size, wbuf, polled, stale,
                   shellVars, clientVars>>

\* The loop over the frames of one read: it ends at a Detach, DetachAll or Kill;
\* of the sizes before that the last one stays, and each request is answered.
Taken(s, frames) ==
    LET With(tags, upto) == {i \in 1 .. upto : frames[i].tag \in tags}
        ends  == With({"Detach", "DetachAll", "Kill"}, Len(frames))
        last  == IF ends = {} THEN "none" ELSE frames[Least(ends)].tag
        upto  == IF ends = {} THEN Len(frames) ELSE Least(ends)
        sizes == With({"Init", "Resize"}, upto)
    IN  [size    |-> IF sizes = {} THEN s ELSE frames[Greatest(sizes)].size,
         resized |-> sizes # {},
         init    |-> With({"Init"}, upto) # {},
         remove  |-> last = "Detach",
         all     |-> last = "DetachAll",
         kill    |-> last = "Kill",
         queue   |-> [i \in 1 .. Cardinality(With({"Request"}, upto)) |->
                        Frame("Reply")]]

\* has_pty_output, at an Init.
NeedsReplay(c, batch) == batch.init /\ term > 0

\* The loop walks the clients poll reported from the last to the first.
NextClient(c) ==
    LET todo == readable \cup writable
    IN  \E i \in 1 .. Len(clients) :
            /\ clients[i] = c /\ c \in todo
            /\ \A j \in i + 1 .. Len(clients) : clients[j] \notin todo

\* Kill ends the loop at once.
KillFrame(c, batch, unread) ==
    /\ batch.kill
    /\ inq' = unread
    /\ phase' = "teardown"
    /\ size' = [size EXCEPT ![c] = batch.size]
    /\ wbuf' = [wbuf EXCEPT ![c] = @ \o batch.queue]
    /\ readable' = {} /\ writable' = {}
    /\ UNCHANGED <<clients, open, pty, stale, sock, inited>>

\* A DetachAll breaks off the walk: its indices are no longer good.
Handled(c, gone) == gone \cup {c}

\* Otherwise the answers are queued, as much is written as the socket takes,
\* clients are removed, the size applied and the replay queued, in this order.
OtherFrames(c, batch, unread) ==
    LET remove == batch.remove \/ proc[c] = "left"
        queue  == wbuf[c] \o batch.queue
        m      == IF remove \/ c \notin writable \/ Len(queue) = 0
                     \/ Len(sock[c]) >= SockRoom
                  THEN 0
                  ELSE Least({Len(queue), SockRoom - Len(sock[c])})
        gone   == IF batch.all THEN Range(clients)
                  ELSE IF remove THEN {c} ELSE {}
        repaint == IF NeedsReplay(c, batch) THEN <<Replay(term)>> ELSE << >>
        kept    == SubSeq(queue, m + 1, Len(queue)) \o repaint
    IN  /\ ~ batch.kill
        /\ Dropped(gone, unread)
        /\ sock' = [sock EXCEPT ![c] = @ \o SubSeq(queue, 1, m)]
        /\ wbuf' = Emptied(gone, [wbuf EXCEPT ![c] = kept], << >>)
        /\ size' = Emptied(gone, [size EXCEPT ![c] = batch.size], Unreported)
        /\ IF ~ batch.all /\ (batch.resized \/ remove)
           THEN pty' = Applied(clients', size') /\ stale' = FALSE
           ELSE UNCHANGED <<pty, stale>>
        /\ readable' = readable \ Handled(c, gone)
        /\ writable' = writable \ Handled(c, gone)
        /\ inited' = Emptied(gone, [inited EXCEPT ![c] = @ \/ batch.init], FALSE)
        /\ ClientsNext

\* The turn of one client: n frames fit the read. A client that hung up is
\* removed whatever is left unread.
ClientTraffic(c, n) ==
    LET batch  == Taken(size[c], SubSeq(inq[c], 1, n))
        unread == [inq EXCEPT ![c] = SubSeq(@, n + 1, Len(@))]
    IN  /\ phase = "clients" /\ NextClient(c)
        /\ IF c \in readable /\ inq[c] # << >>
           THEN n \in 1 .. Len(inq[c]) ELSE n = 0
        /\ KillFrame(c, batch, unread) \/ OtherFrames(c, batch, unread)
        /\ UNCHANGED <<sigterm, term, shellVars, proc, shown, code, sends>>

\* What a client is still owed when the session ends.
ExitFrames(c, status) == Append(wbuf[c], Exit(status))

Status == IF shell = "exited" THEN ExitStatus ELSE KilledStatus

\* Teardown: the shell is hung up on, killed and reaped.
Reap ==
    /\ phase = "teardown"
    /\ phase' = "farewell"
    /\ shell' = "exited"
    /\ wbuf' = [c \in Clients |->
                  IF c \in Range(clients) THEN ExitFrames(c, Status) ELSE wbuf[c]]
    /\ readable' = {} /\ writable' = Range(clients)
    /\ UNCHANGED <<sigterm, term, pty, clients, size, stale, written, clientVars>>

\* write_all_retry, client by client: a socket that takes nothing for 100 ms, or
\* is closed, is given up.
Farewell(c) ==
    /\ phase = "farewell"
    /\ \E i \in 1 .. Len(clients) :
          /\ clients[i] = c /\ c \in writable
          /\ \A j \in 1 .. i - 1 : clients[j] \notin writable
    /\ IF proc[c] # "left" /\ Len(sock[c]) < SockRoom
       THEN /\ sock' = [sock EXCEPT ![c] = Append(@, Head(wbuf[c]))]
            /\ wbuf' = [wbuf EXCEPT ![c] = Tail(@)]
            /\ writable' = IF Len(wbuf[c]) = 1 THEN writable \ {c} ELSE writable
       ELSE writable' = writable \ {c} /\ UNCHANGED <<sock, wbuf>>
    /\ UNCHANGED <<phase, sigterm, term, pty, clients, size, readable, stale,
                   shellVars, proc, open, inq, shown, inited, code, sends>>

\* Everyone is hung up on, connections never accepted included.
DaemonExits ==
    /\ phase = "farewell" /\ writable = {}
    /\ phase' = "gone"
    /\ clients' = << >>
    /\ open' = [c \in Clients |-> FALSE]
    /\ UNCHANGED <<sigterm, term, pty, size, wbuf, polled, stale, shellVars,
                   proc, inq, sock, shown, inited, code, sends>>

-----------------------------------------------------------------------------
\* The session is over and nobody is left in it.
Done ==
    /\ phase = "gone" /\ \A c \in Clients : proc[c] \in {"off", "left"}
    /\ UNCHANGED vars

Requests == {Frame("Request"), Frame("DetachAll"), Frame("Kill")}

ClientNext(c) ==
    \/ Attach(c)
    \/ \E s \in Sizes : ClientResumes(c, s)
    \/ \E f \in Requests : c \notin Readers /\ Command(c, f)
    \/ \E f \in {ResizeFrame(s) : s \in Sizes} \cup {Frame("Detach")} :
          ClientSends(c, f)
    \/ \E n \in 0 .. SockRoom : ClientReads(c, n)
    \/ CommandReads(c) \/ ClientLeaves(c)

DaemonNext ==
    \/ LoopTop \/ Sigterm \/ Poll \/ PtyOutput \/ PtyEof
    \/ \E c \in Clients, n \in 0 .. MaxInq : ClientTraffic(c, n)
    \/ Reap \/ DaemonExits
    \/ \E c \in Clients : Farewell(c)

Next ==
    \/ ShellWrites \/ ShellExits
    \/ SigtermArrives
    \/ \E c \in Clients : ClientNext(c)
    \/ DaemonNext
    \/ Done

\* The daemon keeps running and nothing it does blocks; of the clients only the
\* Readers are sure to read on. A command waits for its answer.
Fairness ==
    /\ WF_vars(DaemonNext)
    /\ \A c \in Readers : WF_vars(\E n \in 0 .. SockRoom : ClientReads(c, n))

Spec == Init /\ [][Next]_vars /\ Fairness

-----------------------------------------------------------------------------
(***************************************************************************)
(* Properties.                                                             *)
(***************************************************************************)

Serving == phase \notin {"teardown", "farewell", "gone"}

\* daemon_loop, apply_client_size: whichever clients came, changed their size
\* and went, the pty is never larger than the terminal of any client that has
\* reported a size, and is the elementwise minimum unless the slow-client drop
\* was the last to change the set.
PtyIsSmallestClient ==
    Serving => /\ \A c \in Reported(clients, size) :
                     pty[1] <= size[c][1] /\ pty[2] <= size[c][2]
               /\ stale \/ pty = Applied(clients, size)

AwaitsReplay(c) == \E i \in 1 .. Len(inq[c]) : inq[c][i].tag = "Init"

InSession(c) == c \in Range(clients) /\ inited[c] /\ ~ AwaitsReplay(c)

\* daemon_loop, broadcast and replay: a client that has been initialised, and has
\* no further Init under way, will show exactly the model's screen once it has
\* drawn what is queued for it: no chunk is lost, repeated or overtaken by a
\* replay.
ClientMirrorsModel ==
    \A c \in Clients :
        InSession(c) /\ proc[c] = "attached"
            => DrawnAll(shown[c], sock[c] \o wbuf[c]) = term

\* daemon_main, Exit after the rest of the queue: a client that leaves with the
\* session's exit code has drawn everything the model has.
ExitComesLast ==
    \A c \in Clients :
        code[c] \notin {NoCode, 0} /\ inited[c] /\ ~ AwaitsReplay(c)
            => shown[c] = term

\* daemon_loop never blocks on a client: one that keeps reading comes to show the
\* model's screen or leaves, whatever the other clients do.
ReaderSeesScreen ==
    \A c \in Readers :
        (InSession(c) /\ proc[c] = "attached")
            ~> (shown[c] = term \/ AwaitsReplay(c) \/ proc[c] = "left")

\* The shell's exit ends the session, and so does SIGTERM (unless it comes
\* between the look at the flag and poll, which then waits for something else),
\* even with a client that has stopped reading; every client that reads is let
\* go.
SessionEnds ==
    (shell = "exited" \/ (sigterm /\ phase # "poll"))
        ~> (phase = "gone" /\ \A c \in Readers : proc[c] # "attached")

\* "notifies any attached clients with the real exit code" (doc/posh.7.scd): a
\* client on whose socket the exit code was written leaves with it.
ToldIsHeard ==
    \A c \in Clients :
        code[c] = 0 => ~ \E i \in 1 .. Len(sock[c]) : sock[c][i].tag = "Exit"
=============================================================================
