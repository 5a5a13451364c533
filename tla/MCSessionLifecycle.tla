------------------------- MODULE MCSessionLifecycle -------------------------
(***************************************************************************)
(* Small instances of SessionLifecycle: one command after another over     *)
(* four daemons, and two commands side by side.                            *)
(***************************************************************************)
EXTENDS SessionLifecycle
=============================================================================
