-------------------------- MODULE SessionLifecycle --------------------------
(***************************************************************************)
(* How a local session comes and goes (crates/posh/src/session): the       *)
(* socket file that names it, the commands that look for its daemon, clean *)
(* up after a dead one and start another, and the daemons themselves.      *)
(*                                                                         *)
(* One session name is modelled, so one path. Every system call that reads *)
(* or changes the path, or tries to connect to it, is a step of its own:   *)
(* exists, connect, remove, bind, listen. `attach' stands for the commands *)
(* that call ensure_session (attach, run, fork), `probe' for those that    *)
(* only look (list, kill, detach, history, the source of a fork).          *)
(***************************************************************************)
EXTENDS Naturals, FiniteSets

CONSTANTS
    Procs,          \* the posh commands that may run side by side
    MaxDaemons      \* bound: daemons ever started

ASSUME LifecycleAssumption == MaxDaemons \in Nat

Daemons == 1 .. MaxDaemons

NoSocket == 0

VARIABLES
    file,           \* the daemon whose socket the path is, or NoSocket
    daemon,         \* [Daemons -> where it is in its life]
    at,             \* [Procs -> the next system call of the command]
    cmd,            \* [Procs -> the command: "attach" or "probe"]
    peer            \* [Procs -> the daemon it is connected to or starting]

vars == <<file, daemon, at, cmd, peer>>

\* "bound": bind(2) is done, listen(2) is not. "listening": the starting
\* process holds the listener. "starting": forked, the shell is not spawned.
\* "ending": the loop is over, the process group is being killed. "leaving":
\* the path is removed, the process has not exited. "crashed": the process,
\* or the start of one, is gone and the path was left alone.
DaemonState ==
    {"unborn", "bound", "listening", "starting", "running", "ending",
     "leaving", "exited", "crashed"}

Step ==
    {"idle", "exists", "probe", "answer", "cleanup", "remove", "bind",
     "listen", "fork", "connect"}

-----------------------------------------------------------------------------
\* Mutated forms of the operators below.

IsDeadUnchecked == TRUE

IsDeadIfGone == file = NoSocket

-----------------------------------------------------------------------------
\* connect(2) succeeds: someone listens on the socket the path leads to.
Accepts(d) ==
    daemon[d] \in {"listening", "starting", "running", "ending", "leaving"}

PathAccepts == file # NoSocket /\ Accepts(file)

\* socket_is_dead: connect fails with ConnectionRefused or NotFound.
IsDead == ~PathAccepts

-----------------------------------------------------------------------------
Init ==
    /\ file = NoSocket
    /\ daemon = [d \in Daemons |-> "unborn"]
    /\ at = [p \in Procs |-> "idle"]
    /\ cmd = [p \in Procs |-> "probe"]
    /\ peer = [p \in Procs |-> NoSocket]

Goto(p, step) == at' = [at EXCEPT ![p] = step]

\* A command is entered.
Start(p, c) ==
    /\ at[p] = "idle"
    /\ Goto(p, "exists")
    /\ cmd' = [cmd EXCEPT ![p] = c]
    /\ UNCHANGED <<file, daemon, peer>>

\* session_socket_exists.
Exists(p) ==
    /\ at[p] = "exists"
    /\ Goto(p, IF file # NoSocket THEN "probe"
               ELSE IF cmd[p] = "attach" THEN "bind" ELSE "idle")
    /\ UNCHANGED <<file, daemon, cmd, peer>>

\* probe_session connects and asks for Info.
Probe(p) ==
    /\ at[p] = "probe"
    /\ Goto(p, IF PathAccepts THEN "answer" ELSE "cleanup")
    /\ peer' = [peer EXCEPT ![p] = IF PathAccepts THEN file ELSE NoSocket]
    /\ UNCHANGED <<file, daemon, cmd>>

\* The daemon answers: the session exists.
Answer(p) ==
    /\ at[p] = "answer"
    /\ daemon[peer[p]] = "running"
    /\ Goto(p, IF cmd[p] = "attach" THEN "connect" ELSE "idle")
    /\ peer' = [peer EXCEPT ![p] = NoSocket]
    /\ UNCHANGED <<file, daemon, cmd>>

\* It is slow, or hangs up: after a second the probe has failed.
NoAnswer(p) ==
    /\ at[p] = "answer"
    /\ Goto(p, "cleanup")
    /\ peer' = [peer EXCEPT ![p] = NoSocket]
    /\ UNCHANGED <<file, daemon, cmd>>

\* cleanup_stale_socket checks that the socket is dead; if it is not, the
\* session exists.
Cleanup(p) ==
    /\ at[p] = "cleanup"
    /\ Goto(p, IF IsDead THEN "remove"
               ELSE IF cmd[p] = "attach" THEN "connect" ELSE "idle")
    /\ UNCHANGED <<file, daemon, cmd, peer>>

\* cleanup_stale_socket removes whatever has the path by now.
Remove(p) ==
    /\ at[p] = "remove"
    /\ file' = NoSocket
    /\ Goto(p, IF cmd[p] = "attach" THEN "bind" ELSE "idle")
    /\ UNCHANGED <<daemon, cmd, peer>>

\* UnixListener::bind: socket and bind, which fails if the path is taken, or
\* for want of some resource.
BindFails(p) ==
    /\ at[p] = "bind"
    /\ Goto(p, "idle")
    /\ UNCHANGED <<file, daemon, cmd, peer>>

Bind(p, d) ==
    /\ at[p] = "bind" /\ file = NoSocket
    /\ daemon[d] = "unborn"
    /\ file' = d
    /\ daemon' = [daemon EXCEPT ![d] = "bound"]
    /\ peer' = [peer EXCEPT ![p] = d]
    /\ Goto(p, "listen")
    /\ UNCHANGED cmd

\* UnixListener::bind: listen.
Listen(p) ==
    /\ at[p] = "listen"
    /\ daemon' = [daemon EXCEPT ![peer[p]] = "listening"]
    /\ Goto(p, "fork")
    /\ UNCHANGED <<file, cmd, peer>>

\* double_fork: the daemon starts, the command goes on to connect.
Fork(p) ==
    /\ at[p] = "fork"
    /\ daemon' = [daemon EXCEPT ![peer[p]] = "starting"]
    /\ peer' = [peer EXCEPT ![p] = NoSocket]
    /\ Goto(p, "connect")
    /\ UNCHANGED <<file, cmd>>

\* listen or double_fork fails: an error, and the path stays.
StartFails(p) ==
    /\ at[p] \in {"listen", "fork"}
    /\ daemon' = [daemon EXCEPT ![peer[p]] = "crashed"]
    /\ peer' = [peer EXCEPT ![p] = NoSocket]
    /\ Goto(p, "idle")
    /\ UNCHANGED <<file, cmd>>

\* cmd_attach connects, to whatever has the path; or fails.
Connect(p) ==
    /\ at[p] = "connect"
    /\ Goto(p, "idle")
    /\ UNCHANGED <<file, daemon, cmd, peer>>

-----------------------------------------------------------------------------
Becomes(d, from, to) ==
    /\ daemon[d] = from
    /\ daemon' = [daemon EXCEPT ![d] = to]
    /\ UNCHANGED <<at, cmd, peer>>

\* daemon_main spawns the shell.
Spawn(d) == Becomes(d, "starting", "running") /\ UNCHANGED file

\* It cannot, and removes the socket it was started for.
SpawnFails(d) == Becomes(d, "starting", "leaving") /\ file' = NoSocket

\* daemon_loop is over: the shell exited, SIGTERM, or a Kill.
EndLoop(d) == Becomes(d, "running", "ending") /\ UNCHANGED file

\* The end of the teardown removes the path.
RemoveOwn(d) == Becomes(d, "ending", "leaving") /\ file' = NoSocket

Exit(d) == Becomes(d, "leaving", "exited") /\ UNCHANGED file

\* The daemon is killed, or the machine takes it down: the path stays.
Crash(d) ==
    /\ \E s \in {"starting", "running", "ending", "leaving"} :
          Becomes(d, s, "crashed")
    /\ UNCHANGED file

Command(p) ==
    \/ Exists(p) \/ Probe(p) \/ Answer(p) \/ NoAnswer(p)
    \/ Cleanup(p) \/ Remove(p)
    \/ BindFails(p) \/ \E d \in Daemons : Bind(p, d)
    \/ Listen(p) \/ Fork(p) \/ StartFails(p) \/ Connect(p)

Next ==
    \/ \E p \in Procs : Command(p) \/ \E c \in {"attach", "probe"} : Start(p, c)
    \/ \E d \in Daemons :
          \/ Spawn(d) \/ SpawnFails(d) \/ EndLoop(d) \/ RemoveOwn(d)
          \/ Exit(d) \/ Crash(d)

Spec == Init /\ [][Next]_vars

\* A command that has begun goes on, and the user enters commands for ever.
Fairness ==
    \A p \in Procs :
        WF_vars(Command(p)) /\ WF_vars(\E c \in {"attach", "probe"} : Start(p, c))

FairSpec == Spec /\ Fairness

-----------------------------------------------------------------------------
TypeOK ==
    /\ file \in Daemons \cup {NoSocket}
    /\ daemon \in [Daemons -> DaemonState]
    /\ at \in [Procs -> Step]
    /\ cmd \in [Procs -> {"attach", "probe"}]
    /\ peer \in [Procs -> Daemons \cup {NoSocket}]
    /\ \A p \in Procs :
          at[p] \in {"answer", "listen", "fork"} <=> peer[p] # NoSocket

\* A session being started, running or ending is the one its path leads to:
\* it can be reached, and there is no other (ensure_session: "don't remove
\* its socket and spawn a duplicate").
Holds(d) ==
    daemon[d] \in {"bound", "listening", "starting", "running", "ending"}

ReachableAndAlone == \A d \in Daemons : Holds(d) => file = d

\* What a crash or a failed start leaves behind does not stay: the next
\* commands reclaim the path (cleanup_stale_socket).
StaleIsReclaimed ==
    \A d \in Daemons : (file = d /\ daemon[d] = "crashed") ~> file # d

\* A command removes a path "only when the daemon behind it is genuinely gone"
\* (cleanup_stale_socket), never that of a daemon that takes connections.
OnlyDeadAreRemoved == [][\A p \in Procs : Remove(p) => ~PathAccepts]_vars

-----------------------------------------------------------------------------
\* With one command at a time ReachableAndAlone is inductive together with
\* what the path and the command know of the daemon.

\* The path leads to a daemon that holds it or was taken down holding it.
PathIsKnown == file # NoSocket => Holds(file) \/ daemon[file] = "crashed"

\* A daemon not yet forked is the one its command is starting.
StarterIsKnown ==
    /\ \A p \in Procs : at[p] = "listen" => daemon[peer[p]] = "bound"
    /\ \A p \in Procs : at[p] = "fork" => daemon[peer[p]] = "listening"
    /\ \A d \in Daemons :
          daemon[d] \in {"bound", "listening"} =>
            \E p \in Procs : peer[p] = d /\ at[p] \in {"listen", "fork"}

\* What a command is about to remove is still dead.
StillDead ==
    \A p \in Procs :
        at[p] = "remove" => file = NoSocket \/ daemon[file] = "crashed"

LifecycleInv ==
    /\ TypeOK /\ ReachableAndAlone /\ PathIsKnown /\ StarterIsKnown
    /\ StillDead
=============================================================================
