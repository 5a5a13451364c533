--------------------------- MODULE DetachMatcher ---------------------------
(***************************************************************************)
(* The detach key of an attached client (crates/posh/src/session/client.rs *)
(* DetachMatcher and the stdin branch of client_loop): the bytes read from *)
(* the terminal, in whatever pieces read(2) returns them, are searched for *)
(* Ctrl-\ as a raw byte or in one of its kitty encodings; everything       *)
(* before it goes to the daemon in Input frames, the key itself becomes a  *)
(* Detach frame.                                                           *)
(*                                                                         *)
(* The common part "[92;5" of the kitty encodings and the ":1" of the      *)
(* longer one count as one byte each.                                      *)
(***************************************************************************)
EXTENDS Integers, Sequences, SequencesExt

CONSTANTS
    MaxTyped,       \* bound: bytes typed in all
    MaxRead         \* bound: bytes one read returns (4096 in the code)

VARIABLES
    carry,          \* DetachMatcher.carry
    frames,         \* frames queued for the daemon: [tag, payload]
    typed           \* history: every byte read from the terminal

vars == <<carry, frames, typed>>

CtrlBackslash == "FS"

Esc == "ESC"

KittyDetachSeqs == {<<Esc, "[92;5", "u">>, <<Esc, "[92;5", ":1", "u">>}

Bytes == {CtrlBackslash, Esc, "[92;5", ":1", "u"}

-----------------------------------------------------------------------------
\* Mutated forms of the operators below.

IsPartialNever(s) == FALSE

-----------------------------------------------------------------------------
From(s, i) == SubSeq(s, i, Len(s))

\* match_kitty_detach: Full, Partial, and otherwise No.
IsFull(s) == \E seq \in KittyDetachSeqs : IsPrefix(seq, s)

IsPartial(s) ==
    ~ IsFull(s) /\ \E seq \in KittyDetachSeqs : IsStrictPrefix(s, seq)

\* The detach key stands at the head of s.
IsKey(s) == Head(s) = CtrlBackslash \/ IsFull(s)

WithCarry(held, input) == held \o input

\* DetachMatcher::feed: the scan stops at the first key, or at a tail that may
\* still become one, which is carried over to the next read.
Feed(held, input) ==
    LET data  == WithCarry(held, input)
        Stops == {i \in 1 .. Len(data) :
                    IsKey(From(data, i)) \/ IsPartial(From(data, i))}
    IN  IF Stops = {}
        THEN [forward |-> data, detached |-> FALSE, carry |-> << >>]
        ELSE LET i == CHOOSE i \in Stops : \A j \in Stops : i <= j
                 key == IsKey(From(data, i))
             IN  [forward |-> SubSeq(data, 1, i - 1), detached |-> key,
                  carry |-> IF key THEN << >> ELSE From(data, i)]

Init == carry = << >> /\ frames = << >> /\ typed = << >>

\* client_loop, stdin readable: Input with what may be forwarded, if anything,
\* then Detach if the key was found. The loop goes on until the daemon, having
\* read the Detach, hangs up.
ReadStdin(input) ==
    LET fed == Feed(carry, input)
    IN  /\ Len(typed) + Len(input) <= MaxTyped
        /\ typed' = typed \o input
        /\ carry' = fed.carry
        /\ frames' = frames
             \o (IF fed.forward = << >> THEN << >>
                 ELSE <<[tag |-> "Input", payload |-> fed.forward]>>)
             \o (IF fed.detached THEN <<[tag |-> "Detach", payload |-> << >>]>>
                 ELSE << >>)

Next ==
    \E n \in 1 .. MaxRead : \E input \in [1 .. n -> Bytes] : ReadStdin(input)

Spec == Init /\ [][Next]_vars

-----------------------------------------------------------------------------
\* What the daemon acts on: it drops the client at the first Detach.
Heard ==
    LET ends == {i \in 1 .. Len(frames) : frames[i].tag = "Detach"}
        upto == IF ends = {} THEN Len(frames)
                ELSE (CHOOSE i \in ends : \A j \in ends : i <= j) - 1
    IN  [i \in 1 .. upto |-> frames[i].payload]

Detached == \E i \in 1 .. Len(frames) : frames[i].tag = "Detach"

Keys == {i \in 1 .. Len(typed) : IsKey(From(typed, i))}

\* The client detaches exactly when the key was typed, however the reads cut
\* it up, and the session gets everything typed before it and nothing of the
\* key or after it.
DetachesAtKey ==
    /\ Detached <=> Keys # {}
    /\ Detached =>
         LET k == CHOOSE i \in Keys : \A j \in Keys : i <= j
         IN  FlattenSeq(Heard) = SubSeq(typed, 1, k - 1)

\* While the user has not detached, every byte typed is on its way to the
\* session, in order, but for a tail that may still become the key.
NothingSwallowed ==
    ~ Detached =>
        /\ FlattenSeq(Heard) \o carry = typed
        /\ carry # << >> => IsPartial(carry)
=============================================================================
