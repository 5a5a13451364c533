---------------------------- MODULE InputStream ----------------------------
(***************************************************************************)
(* The reliable user-input stream between posh-client and posh-server      *)
(* (crates/posh/src/remote/sync.rs): InputOutbox numbers the keystrokes by *)
(* byte offset and offers the whole unacknowledged tail in every client    *)
(* message, InputInbox takes from each message only the bytes it has not   *)
(* taken yet, and every server frame acknowledges the inbox's next offset. *)
(*                                                                         *)
(* Datagrams are lost, delayed, reordered and repeated: `messages' and     *)
(* `acks' hold everything ever sent, and any element may be received at    *)
(* any time, again or never.                                               *)
(***************************************************************************)
EXTENDS Naturals, Sequences

CONSTANTS
    Byte,           \* the bytes a user can type
    MaxTyped        \* bound: number of bytes typed in one behaviour

ASSUME MaxTypedAssumption == MaxTyped \in Nat

VARIABLES
    typed,          \* history: every byte pushed so far
    outbox,         \* InputOutbox: [base, buf]
    next,           \* InputInbox.next
    accepted,       \* history: every byte accept() has returned
    written,        \* history: the offsets of the bytes the pty has taken
    messages,       \* client messages sent: [base, input]
    acks            \* input_ack values of the frames sent

vars == <<typed, outbox, next, accepted, written, messages, acks>>

-----------------------------------------------------------------------------
\* Mutated forms of the operators below, one per property.

ReleasedWithoutGuard(o, upto) ==
    IF upto >= o.base /\ upto - o.base < Len(o.buf)
    THEN upto - o.base ELSE Len(o.buf)

HasNewInputStrict(n, base, input) == base < n /\ n - base < Len(input)

NewInputUnskipped(n, base, input) == input

NewOffsetsFromBase(n, base, len) == [i \in 1 .. len |-> base + i - 1]

-----------------------------------------------------------------------------
\* The operations of InputOutbox and InputInbox.

\* Number of buffered bytes that an acknowledgement of `upto' releases.
Released(o, upto) ==
    IF upto <= o.base THEN 0
    ELSE IF upto - o.base < Len(o.buf) THEN upto - o.base ELSE Len(o.buf)

OutboxAck(o, upto) ==
    LET n == Released(o, upto)
    IN  [base |-> o.base + n, buf |-> SubSeq(o.buf, n + 1, Len(o.buf))]

EndOffset(o) == o.base + Len(o.buf)

\* The input part of a client message: base() and pending().
MessageOf(o) == [base |-> o.base, input |-> o.buf]

\* accept() returns something: no gap before the data, and new bytes in it.
HasNewInput(n, base, input) == base <= n /\ n - base < Len(input)

\* The suffix of the data that accept() returns.
NewInput(n, base, input) == SubSeq(input, n - base + 1, Len(input))

\* The stream offsets of the first `len' bytes of that suffix.
NewOffsets(n, base, len) == [i \in 1 .. len |-> n + i - 1]

-----------------------------------------------------------------------------
Init ==
    /\ typed = << >>
    /\ outbox = [base |-> 0, buf |-> << >>]
    /\ next = 0
    /\ accepted = << >>
    /\ written = << >>
    /\ messages = {}
    /\ acks = {}

\* The user types one byte.
Push(b) ==
    /\ Len(typed) < MaxTyped
    /\ typed' = Append(typed, b)
    /\ outbox' = [outbox EXCEPT !.buf = Append(@, b)]
    /\ UNCHANGED <<next, accepted, written, messages, acks>>

\* The client sends its base offset and the whole unacknowledged tail.
SendMessage ==
    /\ messages' = messages \cup {MessageOf(outbox)}
    /\ UNCHANGED <<typed, outbox, next, accepted, written, acks>>

\* The server takes what is new in a message and writes it to the pty. The
\* result of the write is ignored: what a stopped pty reader has not taken
\* when the write budget runs out is dropped, and still acknowledged.
Accept(m) ==
    /\ HasNewInput(next, m.base, m.input)
    /\ next' = m.base + Len(m.input)
    /\ LET new == NewInput(next, m.base, m.input)
       IN  /\ accepted' = accepted \o new
           /\ \E taken \in 0 .. Len(new) :
                written' = written \o NewOffsets(next, m.base, taken)
    /\ UNCHANGED <<typed, outbox, messages, acks>>

\* Every server frame carries the inbox's next offset.
SendAck ==
    /\ acks' = acks \cup {next}
    /\ UNCHANGED <<typed, outbox, next, accepted, written, messages>>

ReceiveAck(upto) ==
    /\ outbox' = OutboxAck(outbox, upto)
    /\ UNCHANGED <<typed, next, accepted, written, messages, acks>>

Next ==
    \/ \E b \in Byte : Push(b)
    \/ SendMessage
    \/ \E m \in messages : Accept(m)
    \/ SendAck
    \/ \E upto \in acks : ReceiveAck(upto)

Spec == Init /\ [][Next]_vars

\* A link that may lose any datagram, but not every copy of one that is sent
\* again and again. The client retransmits a non-empty outbox each RTO and
\* the server answers new input with a frame; the user need not type.
AcceptLatest == MessageOf(outbox) \in messages /\ Accept(MessageOf(outbox))

ReceiveLatest == next \in acks /\ ReceiveAck(next)

Fairness ==
    /\ WF_vars(SendMessage)
    /\ WF_vars(AcceptLatest)
    /\ WF_vars(SendAck)
    /\ WF_vars(ReceiveLatest)

FairSpec == Spec /\ Fairness

-----------------------------------------------------------------------------
TypeOK ==
    /\ typed \in Seq(Byte)
    /\ outbox \in [base : Nat, buf : Seq(Byte)]
    /\ next \in Nat
    /\ accepted \in Seq(Byte)
    /\ written \in Seq(Nat)
    /\ messages \subseteq [base : Nat, input : Seq(Byte)]
    /\ acks \subseteq Nat

\* Exactly once and in order: whatever was lost, repeated or overtaken on the
\* way, the bytes accept() has returned are precisely the first `next' bytes
\* typed (InputInbox::accept).
ExactlyOnce == next <= Len(typed) /\ accepted = SubSeq(typed, 1, next)

\* "Gap: cannot happen while the client retransmits from the acked base"
\* (sync.rs, InputInbox::accept): no message that may still arrive, however
\* old or new, starts past the server's next expected offset.
NoGap == \A m \in messages : m.base <= next

\* The client discards no byte the server has not taken, whichever old ack
\* arrives when: what is acked and what is buffered are together exactly what
\* was typed (InputOutbox::ack).
NothingForgotten ==
    /\ outbox.base <= next
    /\ outbox.base <= Len(typed)
    /\ outbox.buf = SubSeq(typed, outbox.base + 1, Len(typed))

\* No keystroke reaches the application twice or out of order, even when a
\* stopped reader makes the pty write give up half way and the bytes behind
\* it are retransmitted (handle_client_message).
WrittenOnceInOrder ==
    \A i, j \in 1 .. Len(written) : i < j => written[i] < written[j]

\* Every byte typed is eventually taken by the server and the outbox drains.
AllDelivered == <>[](next = Len(typed) /\ outbox.buf = << >>)

\* The protocol implements the pipe: each step types a byte, delivers some
\* bytes in order, or changes nothing a user of the stream can see.
Pipe == INSTANCE InputPipe WITH delivered <- accepted

ImplementsPipe == Pipe!Spec
=============================================================================
