----------------------------- MODULE Fragments -----------------------------
(***************************************************************************)
(* Fragmentation of frames and client messages into datagrams              *)
(* (crates/posh/src/remote/sync.rs): Fragmenter cuts a payload into        *)
(* numbered pieces under a fresh instruction id, FragmentAssembly puts     *)
(* them together again, one instruction at a time.                         *)
(*                                                                         *)
(* The bytes of the i-th piece of instruction n are the pair <<n, i>>, so  *)
(* that a payload is its number of pieces and any mixture would show.      *)
(* `network' holds every fragment ever sent; any of them may arrive at any *)
(* time, again or never.                                                   *)
(***************************************************************************)
EXTENDS Integers, Sequences, FiniteSets

CONSTANTS
    MaxFragments,   \* pieces of an instruction the receiver accepts (8192)
    NumLimit,       \* fragment numbers a header can tell apart (32768)
    MaxPieces,      \* bound: pieces of a payload, see PiecesAssumption
    MaxPayloads     \* bound: payloads sent

\* A payload of more pieces than the header can number (some 44 MB) is not
\* considered; one of more pieces than the receiver accepts is.
ASSUME PiecesAssumption ==
    /\ MaxFragments \in Nat /\ NumLimit \in Nat
    /\ MaxPieces \in Nat /\ MaxPieces <= NumLimit
    /\ MaxPayloads \in Nat

VARIABLES
    sizes,          \* sizes[n] is the number of pieces of instruction n
    network,        \* fragments sent: [id, num, final, contents]
    asm,            \* FragmentAssembly: [id, fragments, arrived, total];
                    \*   id and total are 0 for None, a slot of `fragments'
                    \*   is {} for None, else it holds the piece
    returned        \* history: what add() has returned: [id, payload]

vars == <<sizes, network, asm, returned>>

-----------------------------------------------------------------------------
\* Mutated forms of the operators below.

RestartedNever(a, f) == [a EXCEPT !.id = f.id]

-----------------------------------------------------------------------------
\* Fragmenter::make_fragments and Fragment::to_bytes: the number is masked to
\* the header's width.
MakeFragments(id, size) ==
    {[id |-> id, num |-> (i - 1) % NumLimit, final |-> i = size,
      contents |-> <<id, i>>] : i \in 1 .. size}

\* FragmentAssembly::add: a fragment of another instruction discards what was
\* collected of the last.
Restarted(a, f) ==
    IF a.id = f.id THEN a
    ELSE [id |-> f.id, fragments |-> << >>, arrived |-> 0, total |-> 0]

\* Fragments that cannot belong to a well-formed instruction.
IsBogus(a, f) ==
    \/ f.num >= MaxFragments
    \/ a.total # 0 /\ f.num >= a.total
    \/ f.final /\ Len(a.fragments) > f.num + 1
    \/ f.final /\ a.total # 0 /\ a.total # f.num + 1

\* The slots, grown if need be, with the piece in its place.
Slots(slots, f) ==
    [i \in 1 .. (IF Len(slots) <= f.num THEN f.num + 1 ELSE Len(slots)) |->
        IF i <= Len(slots) /\ (i # f.num + 1 \/ slots[i] # {}) THEN slots[i]
        ELSE IF i = f.num + 1 THEN {f.contents} ELSE {}]

\* The slot was empty.
IsNewPiece(slots, f) == Len(slots) <= f.num \/ slots[f.num + 1] = {}

Placed(a, f) ==
    [a EXCEPT
        !.fragments = Slots(@, f),
        !.total = IF f.final THEN f.num + 1 ELSE @,
        !.arrived = IF IsNewPiece(a.fragments, f) THEN @ + 1 ELSE @]

IsComplete(a) == a.total = a.arrived /\ Len(a.fragments) = a.arrived

-----------------------------------------------------------------------------
Idle == [id |-> 0, fragments |-> << >>, arrived |-> 0, total |-> 0]

Init ==
    /\ sizes = << >>
    /\ network = {}
    /\ asm = Idle
    /\ returned = {}

\* A frame or message of `size' pieces is sent; ids count from 1.
SendPayload(size) ==
    /\ Len(sizes) < MaxPayloads
    /\ sizes' = Append(sizes, size)
    /\ network' = network \cup MakeFragments(Len(sizes) + 1, size)
    /\ UNCHANGED <<asm, returned>>

\* add(): returns the payload when it completes and starts afresh.
Add(f) ==
    LET a == Restarted(asm, f)
        b == Placed(a, f)
    IN  /\ IF IsBogus(a, f)
           THEN asm' = a /\ UNCHANGED returned
           ELSE IF IsComplete(b)
           THEN /\ asm' = Idle
                /\ returned' = returned
                     \cup {[id |-> f.id, payload |-> b.fragments]}
           ELSE asm' = b /\ UNCHANGED returned
        /\ UNCHANGED <<sizes, network>>

Next ==
    \/ \E size \in 1 .. MaxPieces : SendPayload(size)
    \/ \E f \in network : Add(f)

Spec == Init /\ [][Next]_vars

-----------------------------------------------------------------------------
Filled(slots) == {i \in 1 .. Len(slots) : slots[i] # {}}

\* Whatever comes back from add() is one whole instruction as it was sent:
\* every piece in its place, none missing (unwrap would panic), none of
\* another instruction whose fragments arrived in between.
AssembledIsSent ==
    \A r \in returned :
        /\ r.id \in 1 .. Len(sizes)
        /\ r.payload = [i \in 1 .. sizes[r.id] |-> {<<r.id, i>>}]

\* The assembly never sits on an instruction it has all pieces of: whichever
\* order they came in, the last one to arrive completes it.
NothingHeldBack ==
    asm.id # 0 => Cardinality(Filled(asm.fragments)) < sizes[asm.id]

\* A peer cannot make the buffer grow past its cap, nor past the instruction
\* it is for.
BufferBounded ==
    /\ Len(asm.fragments) <= MaxFragments
    /\ asm.id # 0 => Len(asm.fragments) <= sizes[asm.id]

\* Fragments give back whole payloads as they were sent, at the arrival of
\* their last piece, and reserve no slots beyond the limit or the payload
\* (FragmentAssembly::add).
Reassembles == AssembledIsSent /\ NothingHeldBack /\ BufferBounded
=============================================================================
