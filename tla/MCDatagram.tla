----------------------------- MODULE MCDatagram -----------------------------
(***************************************************************************)
(* Small instance of Datagram: a window of two and four datagrams, so that *)
(* one can be late inside it, late beyond it, or jump past its width.      *)
(***************************************************************************)
EXTENDS Datagram

CONSTANTS wifi, cell

MCAddr == {wifi, cell}
=============================================================================
