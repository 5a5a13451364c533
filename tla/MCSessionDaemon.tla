-------------------------- MODULE MCSessionDaemon --------------------------
(* Two clients, of which one may stop reading. *)
EXTENDS SessionDaemon

CONSTANTS a, b

MCReaders == {a}

\* b's terminal does not know its rows when it attaches, and such a size counts
\* for nothing. Of <<2, 1>> and <<1, 2>> neither is the minimum of the two.
MCStartSize == [c \in Clients |-> IF c = a THEN <<2, 1>> ELSE <<0, 2>>]

MCSizes == {<<1, 2>>}

MCDefaultSize == <<3, 3>>
=============================================================================
