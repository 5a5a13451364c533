------------------------------ MODULE Datagram ------------------------------
(***************************************************************************)
(* The encrypted datagram layer (crates/posh/src/remote): a Connection at  *)
(* each end seals datagrams under increasing sequence numbers (crypto.rs,  *)
(* Session::seal), opens those of the other direction that its replay      *)
(* window has not seen (Session::open, ReplayWindow::check), and on the    *)
(* server follows the source address of the newest one (datagram.rs,       *)
(* Connection::recv). Encryption is perfect: a datagram is what its sender *)
(* sealed. Timestamps and the RTT estimate are left out.                   *)
(*                                                                         *)
(* `network' holds every datagram ever sealed. Any of them may reach any   *)
(* end, its own sender included, at any time, again or never.              *)
(***************************************************************************)
EXTENDS Integers, Sequences

CONSTANTS
    Addr,           \* addresses the client can have
    HomeAddr,       \* the one it starts with
    Window,         \* width of the replay bitmap (code: 64)
    MaxSeq,         \* bound: datagrams sealed by one end
    MaxRoams        \* bound: how often the client changes its address

ASSUME DatagramAssumption ==
    /\ HomeAddr \in Addr
    /\ Window \in Nat \ {0}
    /\ MaxSeq \in Nat /\ MaxRoams \in Nat

End == {"client", "server"}

VARIABLES
    next_seq,       \* Session.next_seq of each end
    replay,         \* ReplayWindow of each end; bits set, by distance
    expected_seq,   \* Connection.expected_receiver_seq of each end
    remote,         \* the server's peer address: {} until it is heard
    addr,           \* the address the client has now
    roams,          \* how often it has changed
    network,        \* datagrams sealed: [dir, seq, from]; `from' is the
                    \* client's address then, the server's does not matter
    delivered,      \* history: sequence numbers recv() handed on, by end
    moved_at        \* history: client's next_seq at its latest change

vars == <<next_seq, replay, expected_seq, remote, addr, roams, network,
          delivered, moved_at>>

-----------------------------------------------------------------------------
\* Mutated forms of the operators below.

RefusesOnlyOld(w, seq) == w.initialized /\ w.highest - seq >= Window

ShiftedKeepsBits(bits, shift) == bits \cup {0}

IsNewestOrLate(e, seq) == TRUE

IsNewestStrict(e, seq) == seq > expected_seq[e]

-----------------------------------------------------------------------------
\* ReplayWindow::check. Bit d of the bitmap stands for highest - d.

Refuses(w, seq) ==
    /\ w.initialized
    /\ seq <= w.highest
    /\ \/ w.highest - seq >= Window
       \/ w.highest - seq \in w.bitmap

\* The bitmap moved up by `shift' places, bit 0 set for the newcomer.
Shifted(bits, shift) ==
    {d \in 0 .. Window - 1 : d - shift \in bits} \cup {0}

Checked(w, seq) ==
    IF ~w.initialized
    THEN [highest |-> seq, bitmap |-> {0}, initialized |-> TRUE]
    ELSE IF seq > w.highest
    THEN [w EXCEPT !.highest = seq,
                   !.bitmap = Shifted(@, seq - w.highest)]
    ELSE [w EXCEPT !.bitmap = @ \cup {w.highest - seq}]

\* Session::open succeeds: the other direction, and not a replay.
Opens(e, p) == p.dir # e /\ ~Refuses(replay[e], p.seq)

\* Only the newest datagram may move the return path.
IsNewest(e, seq) == seq >= expected_seq[e]

-----------------------------------------------------------------------------
Init ==
    /\ next_seq = [e \in End |-> 0]
    /\ replay = [e \in End |->
         [highest |-> 0, bitmap |-> {}, initialized |-> FALSE]]
    /\ expected_seq = [e \in End |-> 0]
    /\ remote = {}
    /\ addr = HomeAddr
    /\ roams = 0
    /\ network = {}
    /\ delivered = [e \in End |-> << >>]
    /\ moved_at = 0

\* Connection::send. The server has nowhere to send to before it is reached.
Send(e) ==
    /\ e = "server" => remote # {}
    /\ next_seq[e] < MaxSeq
    /\ network' = network \cup
         {[dir |-> e, seq |-> next_seq[e], from |-> addr]}
    /\ next_seq' = [next_seq EXCEPT ![e] = @ + 1]
    /\ UNCHANGED <<replay, expected_seq, remote, addr, roams, delivered,
                   moved_at>>

\* The client's network changes under it; it sends from then on with another
\* source address and does nothing about it.
Roam(a) ==
    /\ roams < MaxRoams
    /\ next_seq["client"] < MaxSeq
    /\ a # addr
    /\ addr' = a
    /\ roams' = roams + 1
    /\ moved_at' = next_seq["client"]
    /\ UNCHANGED <<next_seq, replay, expected_seq, remote, network, delivered>>

\* Connection::recv, for a datagram that opens. Late ones inside the window
\* are handed on without touching the return path.
Recv(e, p) ==
    /\ Opens(e, p)
    /\ replay' = [replay EXCEPT ![e] = Checked(@, p.seq)]
    /\ delivered' = [delivered EXCEPT ![e] = Append(@, p.seq)]
    /\ IF IsNewest(e, p.seq)
       THEN /\ expected_seq' = [expected_seq EXCEPT ![e] = p.seq + 1]
            /\ remote' = IF e = "server" THEN {p.from} ELSE remote
       ELSE UNCHANGED <<expected_seq, remote>>
    /\ UNCHANGED <<next_seq, addr, roams, network, moved_at>>

Next ==
    \/ \E e \in End : Send(e)
    \/ \E a \in Addr : Roam(a)
    \/ \E e \in End, p \in network : Recv(e, p)

Spec == Init /\ [][Next]_vars

\* The client keeps sending (heartbeats, if nothing else), and a link that may
\* lose any datagram delivers some that are newer than all before.
RecvFresh ==
    \E p \in network :
        /\ p.seq >= moved_at /\ p.seq >= expected_seq["server"]
        /\ Recv("server", p)

Fairness == WF_vars(Send("client")) /\ WF_vars(RecvFresh)

FairSpec == Spec /\ Fairness

-----------------------------------------------------------------------------
TypeOK ==
    /\ next_seq \in [End -> Nat]
    /\ replay \in [End -> [highest : Nat, bitmap : SUBSET (0 .. Window - 1),
                           initialized : BOOLEAN]]
    /\ expected_seq \in [End -> Nat]
    /\ remote \in SUBSET Addr
    /\ addr \in Addr
    /\ roams \in Nat
    /\ network \subseteq [dir : End, seq : Nat, from : Addr]
    /\ delivered \in [End -> Seq(Nat)]
    /\ moved_at \in Nat

\* No datagram is handed on twice, whatever is replayed and however far the
\* window has jumped in between (ReplayWindow::check).
AtMostOnce ==
    \A e \in End : \A i, j \in 1 .. Len(delivered[e]) :
        i < j => delivered[e][i] # delivered[e][j]

\* A datagram overtaken by fewer than Window others is not taken for a replay:
\* its first arrival is handed on (ReplayWindow::check).
FirstArrivalIsAccepted ==
    \A e \in End : \A p \in network :
        /\ p.dir # e
        /\ \A i \in 1 .. Len(delivered[e]) :
              /\ delivered[e][i] # p.seq
              /\ delivered[e][i] < p.seq + Window
        => Opens(e, p)

\* "A stale packet from a pre-roam source must not re-target the stream"
\* (Connection::recv): once anything sent after the client's latest move has
\* arrived, the server answers to where the client is, and no older datagram
\* that straggles in sends its frames back to the address left behind.
AnswersToPresentAddress ==
    (\E i \in 1 .. Len(delivered["server"]) :
         delivered["server"][i] >= moved_at)
       => remote = {addr}

\* The server finds a client that has moved, once it stops moving.
PathRecovers == <>[](remote = {addr})
=============================================================================
