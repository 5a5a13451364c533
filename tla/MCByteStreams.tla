--------------------------- MODULE MCByteStreams ---------------------------
(***************************************************************************)
(* Small instances of the algorithms that cut up, search and rewrite byte  *)
(* streams: fragments, the frames of the session socket, the detach key,   *)
(* the remote client's keys and the screen-switch filter. They share       *)
(* nothing: `machine' says which of them the behaviour is about, and the   *)
(* variables of the others stay at their initial values.                   *)
(***************************************************************************)
EXTENDS ByteStreams

VARIABLES
    machine,
    grab, pending, mouse, quit, outbox, asked, keyed, keys, flips,
    term, held, fast, outer, ahead, did, agrees

\* The remote client's keys twice: the bytes that matter to the mouse filter,
\* and those that matter to the Ctrl-^ sequences.
Mouse == INSTANCE KeyInput
            WITH Bytes <- {"ESC", "[", "<", "64", ";", "M"}, typed <- keyed,
                 MaxMouseSeq <- 5, MaxTyped <- 6, MaxFlips <- 1

Keys == INSTANCE KeyInput
            WITH Bytes <- {"^^", "^", ".", "^Z", "x"}, typed <- keyed,
                 MaxMouseSeq <- 5, MaxTyped <- 6, MaxFlips <- 0

\* The screen-switch filter twice: room for a whole switch with another mode
\* set beside it, and every class of byte with sequences soon too long to hold
\* (there "A" twice is the number of another mode, and "h" any other letter).
Modes == INSTANCE SwitchFilter
            WITH Bytes <- {"ESC", "[", "?", "A", "9", "0", ";", "h", "CSI8", "C0"},
                 MaxHeld <- 6, MaxSequence <- 6, MaxParams <- 2, MaxString <- 1

Output == INSTANCE SwitchFilter
            WITH Bytes <- {"ESC", "[", "]", "?", "<", "A", ":", ";", "!", "h", "c",
                           "C0", "BEL", "CAN", "CSI8", "DCS8", "SOS8", "APC8",
                           "ST8", "C1", "CONT", "LEAD2", "LEAD3"},
                 MaxHeld <- 2, MaxSequence <- 3, MaxParams <- 1, MaxString <- 1

keyVars == <<grab, pending, mouse, quit, outbox, asked, keyed, keys, flips>>

filterVars == <<term, held, fast, outer, ahead, did, agrees>>

mcVars == <<machine, vars, detachVars, frameVars, keyVars, filterVars>>

-----------------------------------------------------------------------------
MCInit ==
    /\ machine \in {"fragments", "detach", "frames", "mouse", "keys",
                    "modes", "output"}
    /\ Init
    /\ Detach!Init /\ Frames!Init /\ Mouse!Init /\ Modes!Init

MCNext ==
    /\ UNCHANGED machine
    /\ \/ /\ machine = "fragments"
          /\ Next
          /\ UNCHANGED <<detachVars, frameVars, keyVars, filterVars>>
       \/ /\ machine = "detach"
          /\ Detach!Next
          /\ UNCHANGED <<vars, frameVars, keyVars, filterVars>>
       \/ /\ machine = "frames"
          /\ Frames!Next
          /\ UNCHANGED <<vars, detachVars, keyVars, filterVars>>
       \/ /\ \/ machine = "mouse" /\ Mouse!Next
             \/ machine = "keys" /\ Keys!Next
          /\ UNCHANGED <<vars, detachVars, frameVars, filterVars>>
       \/ /\ \/ machine = "modes" /\ Modes!Next
             \/ machine = "output" /\ Output!Next
          /\ UNCHANGED <<vars, detachVars, frameVars, keyVars>>

MCSpec == MCInit /\ [][MCNext]_mcVars

-----------------------------------------------------------------------------
\* Of what the user types the wheel grab rewrites mouse sequences and nothing
\* else, holding back no more than MAX_MOUSE_SEQ (MouseFilter::step,
\* take_pending); and the client quits or suspends only on a Ctrl-^ that is
\* not the second of a pair (process_user_input).
KeysHandedOn ==
    /\ machine = "mouse" => Mouse!OnlyMouseRewritten /\ Mouse!PendingBounded
    /\ machine = "keys" => Keys!CommandsAfterOddEscape

\* No broadcast switches an attached terminal's screen; apart from that the
\* terminal does what the daemon's model does, modes set in the same sequence
\* as a switch included, and no more than MAX_HELD bytes are held back
\* (ScreenSwitchFilter::feed, strip_alt_screen_params).
OuterFollowsModel ==
    /\ Modes!OuterNeverSwitches /\ Modes!OuterFollowsModel
    /\ Modes!CoSetModesForwarded
    /\ IF machine = "output" THEN Output!HeldBounded ELSE Modes!HeldBounded
=============================================================================
