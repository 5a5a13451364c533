---------------------------- MODULE ScreenMirror ----------------------------
(***************************************************************************)
(* What screen synchronisation promises, without frames, diffs and acks:   *)
(* the server publishes a growing sequence of screens, the client shows    *)
(* one of them, complete and unaltered, and only ever moves on to a later  *)
(* one. It may skip any number of them.                                    *)
(***************************************************************************)
EXTENDS Naturals, Sequences

CONSTANT Screens

VARIABLES
    published,      \* every screen the server has numbered, in order
    shown,          \* the position of the screen the client shows
    view            \* the screen the client shows

vars == <<published, shown, view>>

Init == published = << << >> >> /\ shown = 1 /\ view = << >>

Publish ==
    /\ \E s \in Screens : published' = Append(published, s)
    /\ UNCHANGED <<shown, view>>

Show(n) ==
    /\ n > shown
    /\ shown' = n
    /\ view' = published[n]
    /\ UNCHANGED published

Next == Publish \/ \E n \in 1 .. Len(published) : Show(n)

Spec == Init /\ [][Next]_vars
=============================================================================
