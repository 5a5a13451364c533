---------------------------- MODULE MCFrameSync ----------------------------
(***************************************************************************)
(* Small instance of FrameSync: streams of two bytes of which some pairs   *)
(* share a prefix, some a suffix and some nothing, so that diffs and full  *)
(* dumps both occur and a diff applied to the wrong base would show. One   *)
(* outstanding frame and three frames are enough for a base to be dropped. *)
(***************************************************************************)
EXTENDS FrameSync

MCScreens == {<<1, 1>>, <<1, 2>>, <<2, 1>>}
=============================================================================
