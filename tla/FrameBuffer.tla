---------------------------- MODULE FrameBuffer ----------------------------
(***************************************************************************)
(* The framing of the session socket (crates/posh/src/session/ipc.rs):     *)
(* append_frame writes a tag, a little-endian length and a payload;        *)
(* FrameBuffer cuts the byte stream, which arrives in arbitrary pieces,    *)
(* back into frames. A frame with an unknown tag is skipped, one that      *)
(* announces more than MAX_FRAME_LEN ends the conversation.                *)
(*                                                                         *)
(* The length takes two digits of base LenBase instead of four bytes; the  *)
(* payload of the n-th frame sent is the byte n, repeated.                 *)
(***************************************************************************)
EXTENDS Integers, Sequences

CONSTANTS
    LenBase,        \* base of a length digit (256)
    MaxFrameLen,    \* MAX_FRAME_LEN (64 MiB)
    MaxRead,        \* most bytes one read returns (4096)
    MaxFrames       \* bound: frames sent

VARIABLES
    sent,           \* history: frames sent: [tag, len]
    wire,           \* bytes in the socket
    buf, head,      \* FrameBuffer: bytes received, and how many are used up
    draining,       \* the reader is in its loop around next()
    failed,         \* next() returned an error
    got             \* history: frames returned by next(): [tag, payload]

vars == <<sent, wire, buf, head, draining, failed, got>>

\* Tag::from_u8 knows 0 .. 11; here 0 stands for those and 1 for the others.
Tags == {0, 1}

IsKnown(tag) == tag = 0

HeaderLen == 3

-----------------------------------------------------------------------------
\* Mutated forms of the operators below.

HasFrameStrictly(b) == Len(b) > HeaderLen + b[2] + b[3] * LenBase

-----------------------------------------------------------------------------
\* append_frame
Encode(n, tag, len) ==
    <<tag, len % LenBase, len \div LenBase>> \o [i \in 1 .. len |-> n]

HasHeader(b) == Len(b) >= HeaderLen

DecodeLen(b) == b[2] + b[3] * LenBase

HasFrame(b) == Len(b) >= HeaderLen + DecodeLen(b)

TooLong(len) == len > MaxFrameLen

\* compact() drops what next() has used up.
Used(n) == n

Avail == SubSeq(buf, head + 1, Len(buf))

Init ==
    /\ sent = << >> /\ wire = << >>
    /\ buf = << >> /\ head = 0
    /\ draining = FALSE /\ failed = FALSE
    /\ got = << >>

\* The peer writes a frame.
Send(tag, len) ==
    /\ Len(sent) < MaxFrames
    /\ sent' = Append(sent, [tag |-> tag, len |-> len])
    /\ wire' = wire \o Encode(Len(sent) + 1, tag, len)
    /\ UNCHANGED <<buf, head, draining, failed, got>>

\* read_from: one read of n bytes, fed to the buffer; the caller then loops
\* around next(). After an error the connection is dropped.
ReadFrom(n) ==
    /\ ~ draining /\ ~ failed
    /\ n <= Len(wire)
    /\ wire' = SubSeq(wire, n + 1, Len(wire))
    /\ buf' = SubSeq(buf, Used(head) + 1, Len(buf)) \o SubSeq(wire, 1, n)
    /\ head' = head - Used(head)
    /\ draining' = TRUE
    /\ UNCHANGED <<sent, failed, got>>

\* One round of the loop in next(): no whole frame yet,
NextNone ==
    /\ draining
    /\ HasHeader(Avail) => ~ TooLong(DecodeLen(Avail)) /\ ~ HasFrame(Avail)
    /\ draining' = FALSE
    /\ UNCHANGED <<sent, wire, buf, head, failed, got>>

\* an error,
NextError ==
    /\ draining
    /\ HasHeader(Avail) /\ TooLong(DecodeLen(Avail))
    /\ failed' = TRUE /\ draining' = FALSE
    /\ UNCHANGED <<sent, wire, buf, head, got>>

\* or a frame, returned if its tag is known and passed over if not.
NextFrame ==
    /\ draining
    /\ HasHeader(Avail) /\ ~ TooLong(DecodeLen(Avail)) /\ HasFrame(Avail)
    /\ LET end == HeaderLen + DecodeLen(Avail)
       IN  /\ head' = head + end
           /\ got' = IF IsKnown(Avail[1])
                     THEN Append(got, [tag |-> Avail[1],
                             payload |-> SubSeq(Avail, HeaderLen + 1, end)])
                     ELSE got
    /\ UNCHANGED <<sent, wire, buf, draining, failed>>

Next ==
    \/ \E tag \in Tags, len \in 0 .. LenBase * LenBase - 1 : Send(tag, len)
    \/ \E n \in 1 .. MaxRead : ReadFrom(n)
    \/ NextNone \/ NextError \/ NextFrame

Spec == Init /\ [][Next]_vars

-----------------------------------------------------------------------------
\* Ends(s)[k] is how many bytes the first k frames of s take.
Ends(s) ==
    LET W[k \in 0 .. Len(s)] == IF k = 0 THEN 0 ELSE W[k - 1] + HeaderLen + s[k].len
    IN  W

\* Bytes the peer has written up to and including the k-th frame.
Written(k) == Ends(sent)[k]

BytesRead == Written(Len(sent)) - Len(wire)

\* The known frames among the first k of s, as next() should return them.
Returned(s) ==
    LET K[k \in 0 .. Len(s)] ==
            IF k = 0 THEN << >>
            ELSE IF IsKnown(s[k].tag)
            THEN Append(K[k - 1], [tag |-> s[k].tag, payload |-> [j \in 1 .. s[k].len |-> k]])
            ELSE K[k - 1]
    IN  K

Known(k) == Returned(sent)[k]

\* The frames that arrived whole, up to one that is too long.
Whole ==
    CHOOSE k \in 0 .. Len(sent) :
        /\ \A i \in 1 .. k : Written(i) <= BytesRead /\ sent[i].len <= MaxFrameLen
        /\ k = Len(sent) \/ Written(k + 1) > BytesRead
             \/ sent[k + 1].len > MaxFrameLen

\* However the stream was cut, a reader that has left its loop has had every
\* frame that is there, in order and byte for byte, and none is left behind in
\* the buffer until more bytes happen to arrive.
FramesExact == ~ draining => got = Known(Whole)

\* The reader gives up exactly when the header of a frame over the limit has
\* arrived; frames before it are not lost.
RefusesOversizeOnly ==
    ~ draining =>
        (failed <=> \E i \in 1 .. Len(sent) :
                        /\ sent[i].len > MaxFrameLen
                        /\ Written(i) - sent[i].len <= BytesRead)

\* No peer can make the buffer grow past one frame and one read.
BufferBounded == Len(buf) < HeaderLen + MaxFrameLen + MaxRead
=============================================================================
