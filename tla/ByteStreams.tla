---------------------------- MODULE ByteStreams ----------------------------
(***************************************************************************)
(* Three readers of byte streams side by side: payloads cut into datagrams *)
(* (Fragments), frames on the session socket (FrameBuffer) and the detach  *)
(* key in what the user types (DetachMatcher). They share no state.        *)
(***************************************************************************)
EXTENDS Fragments

CONSTANTS
    LenBase,        \* base of a length digit (256)
    MaxFrameLen,    \* MAX_FRAME_LEN (64 MiB)
    MaxRead,        \* most bytes one read returns (4096)
    MaxFrames,      \* bound: frames sent
    MaxStdin,       \* bound: bytes typed in all
    MaxStdinRead    \* bound: bytes one read of the terminal returns (4096)

\* A length is written in digits; nothing else is asked of the sizes.
ASSUME FramingAssumption ==
    /\ LenBase \in Nat \ {0}
    /\ MaxFrameLen \in Nat /\ MaxRead \in Nat /\ MaxFrames \in Nat
    /\ MaxStdin \in Nat /\ MaxStdinRead \in Nat

VARIABLES
    sent, wire, buf, head, draining, failed, got,
    carry, frames, typed

Frames == INSTANCE FrameBuffer

frameVars == <<sent, wire, buf, head, draining, failed, got>>

Detach == INSTANCE DetachMatcher WITH MaxTyped <- MaxStdin, MaxRead <- MaxStdinRead

detachVars == <<carry, frames, typed>>

-----------------------------------------------------------------------------
\* Every frame that has arrived on the session socket is returned, in order
\* and whole, only a frame over MAX_FRAME_LEN ends the conversation, and no
\* more than a frame and one read is buffered (FrameBuffer::next, feed).
FramesExact ==
    Frames!FramesExact /\ Frames!RefusesOversizeOnly /\ Frames!BufferBounded

\* The client detaches exactly at the detach key, however read(2) cuts it up,
\* and until then everything typed goes to the session but for a tail that may
\* still become the key (DetachMatcher::feed).
DetachesAtKey == Detach!DetachesAtKey /\ Detach!NothingSwallowed
=============================================================================
