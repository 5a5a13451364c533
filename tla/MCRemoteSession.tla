-------------------------- MODULE MCRemoteSession --------------------------
(***************************************************************************)
(* Model-checking instances of RemoteSession. The configurations bound     *)
(* what is typed and drawn and how many datagrams are under way; two under *)
(* way in one direction are enough for one to overtake another.            *)
(***************************************************************************)
EXTENDS RemoteSession
=============================================================================
