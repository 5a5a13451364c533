--------------------------- MODULE MCInputStream ---------------------------
(***************************************************************************)
(* Small instance of InputStream: three keystrokes over two bytes, so that *)
(* several unacknowledged bytes, partial acks and overlapping              *)
(* retransmissions occur together.                                         *)
(***************************************************************************)
EXTENDS InputStream

MCByte == {"a", "b"}
=============================================================================
