------------------------------ MODULE InputPipe ------------------------------
(***************************************************************************)
(* What the input stream promises, without messages: a pipe. Bytes enter   *)
(* in the order they are typed and leave in that order, each once. Any     *)
(* number of waiting bytes may leave together.                             *)
(***************************************************************************)
EXTENDS Naturals, Sequences

CONSTANT Byte

VARIABLES
    typed,          \* every byte put in so far
    delivered       \* every byte taken out so far

vars == <<typed, delivered>>

Init == typed = << >> /\ delivered = << >>

Type(b) == typed' = Append(typed, b) /\ UNCHANGED delivered

Deliver(n) ==
    /\ Len(delivered) + n <= Len(typed)
    /\ delivered' = SubSeq(typed, 1, Len(delivered) + n)
    /\ UNCHANGED typed

Next ==
    \/ \E b \in Byte : Type(b)
    \/ \E n \in 1 .. Len(typed) : Deliver(n)

Spec == Init /\ [][Next]_vars
=============================================================================
