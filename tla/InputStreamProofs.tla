------------------------- MODULE InputStreamProofs -------------------------
(***************************************************************************)
(* The safety of the input stream for any bytes and any number of          *)
(* keystrokes, messages and acks: the inductive invariant, the invariants  *)
(* that follow from it, and the refinement of the pipe.                    *)
(***************************************************************************)
EXTENDS InputStream, SequenceTheorems, TLAPS

-----------------------------------------------------------------------------
\* Appending an element leaves every subsequence of the old part as it was.
LEMMA SubSeqOfAppend ==
    ASSUME NEW S, NEW s \in Seq(S), NEW e \in S,
           NEW m \in Nat, NEW n \in Nat, m >= 1, n <= Len(s)
    PROVE  SubSeq(Append(s, e), m, n) = SubSeq(s, m, n)
  OBVIOUS

\* A sequence and its suffix grow by the same element.
LEMMA SuffixOfAppend ==
    ASSUME NEW S, NEW s \in Seq(S), NEW e \in S,
           NEW m \in Nat, m <= Len(s)
    PROVE  SubSeq(Append(s, e), m + 1, Len(s) + 1)
             = Append(SubSeq(s, m + 1, Len(s)), e)
<1> DEFINE t == SubSeq(Append(s, e), m + 1, Len(s) + 1)
           u == Append(SubSeq(s, m + 1, Len(s)), e)
<1>1. t \in Seq(S) /\ u \in Seq(S) /\ Len(t) = Len(u)
  OBVIOUS
<1>2. ASSUME NEW i \in 1 .. Len(t) PROVE t[i] = u[i]
  OBVIOUS
<1> QED
  BY <1>1, <1>2, SeqEqual

\* The part of a window of what was typed that lies past its first k bytes.
LEMMA SuffixOfWindow ==
    ASSUME typed \in Seq(Byte)
    PROVE  \A m, n, k \in Nat : m + k <= n /\ n <= Len(typed) =>
             SubSeq(SubSeq(typed, m + 1, n), k + 1, n - m) = SubSeq(typed, m + k + 1, n)
  OBVIOUS

\* A window of s: its type and its length.
LEMMA WindowProperties ==
    ASSUME NEW S, NEW s \in Seq(S), NEW m \in Nat, NEW n \in Nat,
           m <= n, n <= Len(s)
    PROVE  /\ SubSeq(s, m + 1, n) \in Seq(S)
           /\ Len(SubSeq(s, m + 1, n)) = n - m
  OBVIOUS

-----------------------------------------------------------------------------
\* Every message still under way is a window of what was typed that starts no
\* later than the outbox does.
MessagesAreWindows ==
    \A m \in messages :
        /\ m.base <= outbox.base
        /\ m.base + Len(m.input) <= Len(typed)
        /\ m.input = SubSeq(typed, m.base + 1, m.base + Len(m.input))

\* No ack runs ahead of the server.
AcksAreOld == \A upto \in acks : upto <= next

\* The pty has been given nothing the server has not accepted.
WrittenAccepted == \A i \in 1 .. Len(written) : written[i] < next

\* The inductive invariant. ExactlyOnce is not inductive alone: accepting an
\* old message preserves it only because that message is a window of what was
\* typed, and a message is one only because an ack, however old, releases no
\* byte the server lacks.
IInv ==
    /\ TypeOK
    /\ ExactlyOnce
    /\ NothingForgotten
    /\ MessagesAreWindows
    /\ AcksAreOld
    /\ WrittenAccepted
    /\ WrittenOnceInOrder

-----------------------------------------------------------------------------
LEMMA InitIInv == Init => IInv
  BY DEF Init, IInv, TypeOK, ExactlyOnce, NothingForgotten, MessagesAreWindows,
         AcksAreOld, WrittenAccepted, WrittenOnceInOrder

\* The types of the pieces of state a step of the proofs speaks about.
LEMMA StateTypes ==
    ASSUME IInv
    PROVE  /\ typed \in Seq(Byte) /\ Len(typed) \in Nat
           /\ outbox = [base |-> outbox.base, buf |-> outbox.buf]
           /\ outbox.base \in Nat
           /\ outbox.buf \in Seq(Byte) /\ Len(outbox.buf) \in Nat
           /\ next \in Nat
           /\ accepted \in Seq(Byte)
           /\ written \in Seq(Nat) /\ Len(written) \in Nat
           /\ acks \subseteq Nat
           /\ \A m \in messages : /\ m = [base |-> m.base, input |-> m.input]
                                  /\ m.base \in Nat
                                  /\ m.input \in Seq(Byte)
                                  /\ Len(m.input) \in Nat
  BY DEF IInv, TypeOK

\* The unacknowledged tail ends where the typed bytes end.
LEMMA OutboxEnds ==
    ASSUME IInv
    PROVE  outbox.base + Len(outbox.buf) = Len(typed)
<1>1. Len(SubSeq(typed, outbox.base + 1, Len(typed))) = Len(typed) - outbox.base
  BY StateTypes, WindowProperties DEF IInv, NothingForgotten
<1> QED
  BY <1>1, StateTypes DEF IInv, NothingForgotten

LEMMA PushIInv ==
    ASSUME IInv, NEW b \in Byte, Push(b)
    PROVE  IInv'
<1>0. /\ typed \in Seq(Byte) /\ Len(typed) \in Nat
      /\ outbox.base \in Nat /\ outbox.base <= Len(typed)
      /\ outbox.buf \in Seq(Byte)
      /\ next \in Nat /\ next <= Len(typed)
  BY StateTypes DEF IInv, NothingForgotten, ExactlyOnce
<1>1. /\ typed' = Append(typed, b)
      /\ outbox' = [base |-> outbox.base, buf |-> Append(outbox.buf, b)]
      /\ UNCHANGED <<next, accepted, written, messages, acks>>
  BY StateTypes DEF Push
<1>2. /\ typed' \in Seq(Byte) /\ Len(typed') = Len(typed) + 1
      /\ Append(outbox.buf, b) \in Seq(Byte)
  BY <1>0, <1>1, AppendProperties
<1>3. TypeOK'
  BY <1>0, <1>1, <1>2 DEF IInv, TypeOK
<1>4. ExactlyOnce'
  <2>1. SubSeq(typed', 1, next) = SubSeq(typed, 1, next)
    BY <1>0, <1>1, SubSeqOfAppend
  <2> QED
    BY <1>0, <1>1, <1>2, <2>1 DEF IInv, ExactlyOnce
<1>5. NothingForgotten'
  <2>1. SubSeq(typed', outbox.base + 1, Len(typed) + 1)
          = Append(SubSeq(typed, outbox.base + 1, Len(typed)), b)
    BY <1>0, <1>1, SuffixOfAppend
  <2>2. /\ outbox'.buf = Append(SubSeq(typed, outbox.base + 1, Len(typed)), b)
        /\ outbox'.base = outbox.base
    BY <1>1 DEF IInv, NothingForgotten
  <2>3. outbox.base <= next' /\ outbox.base <= Len(typed')
    BY <1>0, <1>1, <1>2 DEF IInv, NothingForgotten
  <2> QED
    BY <1>2, <2>1, <2>2, <2>3 DEF NothingForgotten
<1>6. MessagesAreWindows'
  <2> SUFFICES ASSUME NEW m \in messages
               PROVE  /\ m.base <= outbox'.base
                      /\ m.base + Len(m.input) <= Len(typed')
                      /\ m.input = SubSeq(typed', m.base + 1,
                                          m.base + Len(m.input))
    BY <1>1 DEF MessagesAreWindows
  <2>1. m.base \in Nat /\ Len(m.input) \in Nat
    BY StateTypes
  <2>2. /\ m.base <= outbox.base
        /\ m.base + Len(m.input) <= Len(typed)
        /\ m.input = SubSeq(typed, m.base + 1, m.base + Len(m.input))
    BY DEF IInv, MessagesAreWindows
  <2>3. SubSeq(typed', m.base + 1, m.base + Len(m.input))
          = SubSeq(typed, m.base + 1, m.base + Len(m.input))
    <3>1. /\ m.base + 1 \in Nat /\ m.base + Len(m.input) \in Nat
          /\ m.base + 1 >= 1 /\ m.base + Len(m.input) <= Len(typed)
      BY <2>1, <2>2
    <3>2. SubSeq(Append(typed, b), m.base + 1, m.base + Len(m.input))
            = SubSeq(typed, m.base + 1, m.base + Len(m.input))
      BY <1>0, <3>1, SubSeqOfAppend, SMTT(60)
    <3> QED
      BY <1>1, <3>2
  <2>4. m.base + Len(m.input) <= Len(typed')
    BY <1>0, <1>2, <2>1, <2>2
  <2> QED
    BY <1>1, <2>2, <2>3, <2>4
<1> QED
  BY <1>1, <1>3, <1>4, <1>5, <1>6
     DEF IInv, AcksAreOld, WrittenAccepted, WrittenOnceInOrder

LEMMA SendMessageIInv ==
    ASSUME IInv, SendMessage
    PROVE  IInv'
<1>1. /\ messages' = messages \cup {MessageOf(outbox)}
      /\ UNCHANGED <<typed, outbox, next, accepted, written, acks>>
  BY DEF SendMessage
<1>2. TypeOK'
  BY <1>1, StateTypes DEF IInv, TypeOK, MessageOf
<1>3. MessagesAreWindows'
  <2>1. /\ outbox.base \in Nat /\ Len(typed) \in Nat
        /\ outbox.base + Len(outbox.buf) = Len(typed)
    BY StateTypes, OutboxEnds
  <2>2. outbox.buf = SubSeq(typed, outbox.base + 1, outbox.base + Len(outbox.buf))
    BY <2>1 DEF IInv, NothingForgotten
  <2>3. /\ outbox.base <= outbox.base
        /\ outbox.base + Len(outbox.buf) <= Len(typed)
    BY <2>1
  <2>4. MessageOf(outbox).base = outbox.base /\ MessageOf(outbox).input = outbox.buf
    BY DEF MessageOf
  <2> HIDE DEF MessageOf
  <2> QED
    BY <1>1, <2>2, <2>3, <2>4 DEF IInv, MessagesAreWindows
<1> QED
  BY <1>1, <1>2, <1>3 DEF IInv, ExactlyOnce, NothingForgotten, AcksAreOld,
                          WrittenAccepted, WrittenOnceInOrder

\* What accept() returns is the typed bytes between the old and the new
\* offset, and nothing else.
LEMMA AcceptTakesTheNextBytes ==
    ASSUME IInv, NEW m \in messages, HasNewInput(next, m.base, m.input)
    PROVE  /\ m.base \in Nat /\ Len(m.input) \in Nat
           /\ next < m.base + Len(m.input)
           /\ m.base + Len(m.input) <= Len(typed)
           /\ NewInput(next, m.base, m.input)
                = SubSeq(typed, next + 1, m.base + Len(m.input))
<1>0. /\ typed \in Seq(Byte) /\ Len(typed) \in Nat /\ next \in Nat
      /\ m.base \in Nat /\ Len(m.input) \in Nat
  BY StateTypes
<1>1. m.base <= next /\ next - m.base < Len(m.input)
  BY DEF HasNewInput
<1>2. /\ m.base + Len(m.input) <= Len(typed)
      /\ m.input = SubSeq(typed, m.base + 1, m.base + Len(m.input))
  BY DEF IInv, MessagesAreWindows
<1> DEFINE k == next - m.base
           n == m.base + Len(m.input)
<1>3. /\ k \in Nat /\ n \in Nat /\ m.base + k = next
      /\ n - m.base = Len(m.input) /\ m.base + k <= n /\ n <= Len(typed)
  BY <1>0, <1>1, <1>2, SMTT(30)
<1>4. NewInput(next, m.base, m.input) = SubSeq(m.input, k + 1, n - m.base)
  BY <1>3 DEF NewInput
<1>5. m.input = SubSeq(typed, m.base + 1, n)
  BY <1>2
<1> HIDE DEF k, n
<1>6. SubSeq(SubSeq(typed, m.base + 1, n), k + 1, n - m.base)
        = SubSeq(typed, m.base + k + 1, n)
  <2>1. /\ typed \in Seq(Byte) /\ m.base \in Nat /\ n \in Nat /\ k \in Nat
        /\ m.base + k <= n /\ n <= Len(typed)
    BY <1>0, <1>3
  <2> QED
    BY <2>1, SuffixOfWindow, Zenon
<1>7. NewInput(next, m.base, m.input) = SubSeq(typed, next + 1, n)
  BY <1>3, <1>4, <1>5, <1>6
<1>8. next < n
  BY <1>0, <1>1 DEF n
<1> QED
  BY <1>0, <1>2, <1>7, <1>8 DEF n

\* Consecutive offsets from n on extend an increasing sequence of offsets
\* below n to an increasing sequence.
LEMMA OffsetsExtend ==
    ASSUME NEW w \in Seq(Nat), NEW n \in Nat, NEW base, NEW t \in Nat, NEW e \in Nat,
           n + t <= e,
           \A i \in 1 .. Len(w) : w[i] < n,
           \A i, j \in 1 .. Len(w) : i < j => w[i] < w[j]
    PROVE  LET v == w \o NewOffsets(n, base, t)
           IN  /\ v \in Seq(Nat)
               /\ \A i \in 1 .. Len(v) : v[i] < e
               /\ \A i, j \in 1 .. Len(v) : i < j => v[i] < v[j]
<1> DEFINE f == [i \in 1 .. t |-> n + i - 1]
           v == w \o f
<1>1. f \in Seq(Nat) /\ Len(f) = t /\ \A i \in 1 .. t : f[i] = n + i - 1
  OBVIOUS
<1> HIDE DEF f
<1>2. /\ v \in Seq(Nat) /\ Len(v) = Len(w) + t
      /\ \A i \in 1 .. Len(w) + t :
            v[i] = IF i <= Len(w) THEN w[i] ELSE f[i - Len(w)]
  BY <1>1, ConcatProperties
<1> HIDE DEF v
<1>3. Len(w) \in Nat /\ \A i \in 1 .. Len(w) : w[i] \in Nat
  OBVIOUS
<1>4. ASSUME NEW i \in 1 .. Len(w) PROVE v[i] = w[i]
  BY <1>2, <1>3
<1>5. ASSUME NEW i \in Len(w) + 1 .. Len(w) + t PROVE v[i] = n + (i - Len(w)) - 1
  BY <1>1, <1>2, <1>3
<1>6. \A i \in 1 .. Len(w) + t : v[i] < e
  BY <1>3, <1>4, <1>5, SMTT(30)
<1>7. ASSUME NEW i \in 1 .. Len(w) + t, NEW j \in 1 .. Len(w) + t, i < j
      PROVE  v[i] < v[j]
  BY <1>3, <1>4, <1>5, <1>7, SMTT(30)
<1> QED
  BY <1>2, <1>6, <1>7 DEF f, v, NewOffsets

LEMMA AcceptIInv ==
    ASSUME IInv, NEW m \in messages, Accept(m)
    PROVE  IInv'
<1>0. /\ typed \in Seq(Byte) /\ Len(typed) \in Nat /\ next \in Nat
      /\ accepted \in Seq(Byte)
      /\ written \in Seq(Nat) /\ Len(written) \in Nat
  BY StateTypes
<1>1. HasNewInput(next, m.base, m.input)
  BY DEF Accept
<1>2. PICK end \in Nat : end = m.base + Len(m.input)
  BY StateTypes
<1>3. /\ next < end /\ end <= Len(typed)
      /\ NewInput(next, m.base, m.input) = SubSeq(typed, next + 1, end)
  BY <1>1, <1>2, AcceptTakesTheNextBytes
<1>4. /\ next' = end
      /\ accepted' = accepted \o SubSeq(typed, next + 1, end)
      /\ UNCHANGED <<typed, outbox, messages, acks>>
  BY <1>2, <1>3 DEF Accept
<1>5. /\ SubSeq(typed, next + 1, end) \in Seq(Byte)
      /\ Len(SubSeq(typed, next + 1, end)) = end - next
  BY <1>0, <1>2, <1>3, WindowProperties
<1>6. PICK taken \in 0 .. end - next :
        written' = written \o NewOffsets(next, m.base, taken)
  BY <1>3, <1>5 DEF Accept
<1>7. /\ written' \in Seq(Nat)
      /\ \A i \in 1 .. Len(written') : written'[i] < end
      /\ \A i, j \in 1 .. Len(written') : i < j => written'[i] < written'[j]
  <2>1. /\ \A i \in 1 .. Len(written) : written[i] < next
        /\ \A i, j \in 1 .. Len(written) : i < j => written[i] < written[j]
    BY DEF IInv, WrittenAccepted, WrittenOnceInOrder
  <2>2. taken \in Nat /\ next + taken <= end
    BY <1>0, <1>2, <1>3, <1>6
  <2> QED
    BY <1>0, <1>2, <1>6, <2>1, <2>2, OffsetsExtend
<1>8. TypeOK'
  <2>1. accepted' \in Seq(Byte)
    BY <1>0, <1>4, <1>5, ConcatProperties
  <2> QED
    BY <1>2, <1>4, <1>7, <2>1 DEF IInv, TypeOK
<1>9. ExactlyOnce'
  <2>1. SubSeq(typed, 1, next) \o SubSeq(typed, next + 1, end)
          = SubSeq(typed, 1, end)
    <3>1. /\ 1 \in 1 .. Len(typed) + 1 /\ next \in 1 - 1 .. Len(typed)
          /\ end \in next .. Len(typed)
      BY <1>0, <1>2, <1>3
    <3> QED
      BY <1>0, <3>1, ConcatAdjacentSubSeq
  <2> QED
    BY <1>3, <1>4, <2>1 DEF IInv, ExactlyOnce
<1>10. NothingForgotten'
  <2>1. outbox.base \in Nat /\ outbox.base <= next
    BY StateTypes DEF IInv, NothingForgotten
  <2>2. outbox.base <= end
    BY <1>0, <1>2, <1>3, <2>1
  <2> QED
    BY <1>4, <2>2 DEF IInv, NothingForgotten
<1>11. MessagesAreWindows'
  BY <1>4 DEF IInv, MessagesAreWindows
<1>12. AcksAreOld'
  <2>1. \A upto \in acks : upto \in Nat /\ upto <= next
    BY StateTypes DEF IInv, AcksAreOld
  <2>2. \A upto \in acks : upto <= end
    BY <1>0, <1>2, <1>3, <2>1
  <2> QED
    BY <1>4, <2>2 DEF AcksAreOld
<1>13. WrittenAccepted' /\ WrittenOnceInOrder'
  BY <1>4, <1>7 DEF WrittenAccepted, WrittenOnceInOrder
<1> QED
  BY <1>8, <1>9, <1>10, <1>11, <1>12, <1>13 DEF IInv

LEMMA SendAckIInv ==
    ASSUME IInv, SendAck
    PROVE  IInv'
  BY DEF SendAck, IInv, TypeOK, ExactlyOnce, NothingForgotten,
         MessagesAreWindows, AcksAreOld, WrittenAccepted, WrittenOnceInOrder

\* An ack releases a prefix of the buffer that the server has already taken.
LEMMA ReleasedIsTaken ==
    ASSUME IInv, NEW upto \in acks
    PROVE  /\ Released(outbox, upto) \in 0 .. Len(outbox.buf)
           /\ outbox.base + Released(outbox, upto) <= next
<1>1. /\ upto \in Nat /\ upto <= next /\ outbox.base <= next
      /\ outbox.base \in Nat /\ next \in Nat /\ Len(outbox.buf) \in Nat
  BY StateTypes DEF IInv, AcksAreOld, NothingForgotten
<1> QED
  BY <1>1 DEF Released

LEMMA ReceiveAckIInv ==
    ASSUME IInv, NEW upto \in acks, ReceiveAck(upto)
    PROVE  IInv'
<1>0. /\ typed \in Seq(Byte) /\ Len(typed) \in Nat /\ next \in Nat
      /\ outbox.base \in Nat
      /\ outbox.buf \in Seq(Byte) /\ Len(outbox.buf) \in Nat
      /\ outbox.base + Len(outbox.buf) = Len(typed)
  BY StateTypes, OutboxEnds
<1> DEFINE n == Released(outbox, upto)
<1>1. n \in 0 .. Len(outbox.buf) /\ outbox.base + n <= next
  BY ReleasedIsTaken
<1>2. /\ outbox' = [base |-> outbox.base + n,
                    buf  |-> SubSeq(outbox.buf, n + 1, Len(outbox.buf))]
      /\ UNCHANGED <<typed, next, accepted, written, messages, acks>>
  BY DEF ReceiveAck, OutboxAck
<1> HIDE DEF n
<1>3. /\ n \in Nat /\ outbox.base + n \in Nat
      /\ outbox.base + n <= Len(typed)
      /\ Len(typed) - outbox.base = Len(outbox.buf)
  BY <1>0, <1>1
<1>4. SubSeq(outbox.buf, n + 1, Len(outbox.buf))
        = SubSeq(typed, outbox.base + n + 1, Len(typed))
  <2>1. SubSeq(SubSeq(typed, outbox.base + 1, Len(typed)), n + 1,
               Len(typed) - outbox.base)
          = SubSeq(typed, outbox.base + n + 1, Len(typed))
    <3>1. /\ typed \in Seq(Byte) /\ outbox.base \in Nat /\ Len(typed) \in Nat
          /\ n \in Nat /\ outbox.base + n <= Len(typed) /\ Len(typed) <= Len(typed)
      BY <1>0, <1>3
    <3> QED
      BY <3>1, SuffixOfWindow, Zenon
  <2> QED
    BY <1>3, <2>1 DEF IInv, NothingForgotten
<1>5. SubSeq(outbox.buf, n + 1, Len(outbox.buf)) \in Seq(Byte)
  BY <1>0, <1>1, WindowProperties
<1>6. TypeOK'
  BY <1>2, <1>3, <1>5 DEF IInv, TypeOK
<1>7. NothingForgotten'
  BY <1>1, <1>2, <1>3, <1>4 DEF NothingForgotten
<1>8. MessagesAreWindows'
  <2>1. ASSUME NEW m \in messages PROVE m.base <= outbox'.base
    <3>1. m.base \in Nat /\ m.base <= outbox.base
      BY StateTypes DEF IInv, MessagesAreWindows
    <3>2. outbox'.base = outbox.base + n
      BY <1>2
    <3> QED
      BY <1>0, <1>3, <3>1, <3>2
  <2> QED
    BY <1>2, <2>1 DEF IInv, MessagesAreWindows
<1> QED
  BY <1>2, <1>6, <1>7, <1>8
     DEF IInv, ExactlyOnce, AcksAreOld, WrittenAccepted, WrittenOnceInOrder

LEMMA NextIInv == IInv /\ [Next]_vars => IInv'
<1> SUFFICES ASSUME IInv, [Next]_vars
             PROVE  IInv'
  OBVIOUS
<1>1. ASSUME NEW b \in Byte, Push(b) PROVE IInv'
  BY <1>1, PushIInv
<1>2. CASE SendMessage
  BY <1>2, SendMessageIInv
<1>3. ASSUME NEW m \in messages, Accept(m) PROVE IInv'
  BY <1>3, AcceptIInv
<1>4. CASE SendAck
  BY <1>4, SendAckIInv
<1>5. ASSUME NEW upto \in acks, ReceiveAck(upto) PROVE IInv'
  BY <1>5, ReceiveAckIInv
<1>6. CASE UNCHANGED vars
  BY <1>6 DEF vars, IInv, TypeOK, ExactlyOnce, NothingForgotten,
              MessagesAreWindows, AcksAreOld, WrittenAccepted,
              WrittenOnceInOrder
<1> QED
  BY <1>1, <1>2, <1>3, <1>4, <1>5, <1>6 DEF Next

\* The invariant holds in every reachable state of the input stream.
THEOREM StreamInvariant == Spec => []IInv
  BY InitIInv, NextIInv, PTL DEF Spec

\* Type correctness of outbox, inbox and network.
THEOREM TypeCorrect == Spec => []TypeOK
<1>1. IInv => TypeOK
  BY DEF IInv
<1> QED
  BY <1>1, StreamInvariant, PTL

\* InputInbox::accept has returned exactly the first `next' bytes typed.
THEOREM InputExactlyOnce == Spec => []ExactlyOnce
<1>1. IInv => ExactlyOnce
  BY DEF IInv
<1> QED
  BY <1>1, StreamInvariant, PTL

\* The branch of InputInbox::accept that guards against a gap is dead code.
THEOREM GapNeverHappens == Spec => []NoGap
<1>1. IInv => NoGap
  BY DEF IInv, TypeOK, MessagesAreWindows, NothingForgotten, NoGap
<1> QED
  BY <1>1, StreamInvariant, PTL

\* InputOutbox::ack never drops a byte that the server still lacks.
THEOREM OutboxForgetsNothing == Spec => []NothingForgotten
<1>1. IInv => NothingForgotten
  BY DEF IInv
<1> QED
  BY <1>1, StreamInvariant, PTL

\* The pty receives keystrokes at most once and in order.
THEOREM PtyOrder == Spec => []WrittenOnceInOrder
<1>1. IInv => WrittenOnceInOrder
  BY DEF IInv
<1> QED
  BY <1>1, StreamInvariant, PTL

-----------------------------------------------------------------------------
\* Outbox, inbox and an unreliable network implement the pipe.
THEOREM StreamImplementsPipe == Spec => ImplementsPipe
<1>1. Init => Pipe!Init
  BY DEF Init, Pipe!Init
<1>2. IInv /\ [Next]_vars => [Pipe!Next]_Pipe!vars
  <2> SUFFICES ASSUME IInv, [Next]_vars
               PROVE  [Pipe!Next]_Pipe!vars
    OBVIOUS
  <2>1. ASSUME NEW b \in Byte, Push(b) PROVE Pipe!Next
    BY <2>1 DEF Push, Pipe!Next, Pipe!Type
  <2>2. ASSUME NEW m \in messages, Accept(m) PROVE Pipe!Next
    <3> DEFINE end == m.base + Len(m.input)
    <3>1. /\ end \in Nat
          /\ next < end /\ end <= Len(typed)
          /\ NewInput(next, m.base, m.input) = SubSeq(typed, next + 1, end)
      BY <2>2, AcceptTakesTheNextBytes DEF Accept
    <3>2. /\ typed \in Seq(Byte) /\ next \in Nat /\ next <= Len(typed)
          /\ accepted = SubSeq(typed, 1, next)
      BY DEF IInv, TypeOK, ExactlyOnce
    <3> HIDE DEF end
    <3>3. Len(accepted) = next
      BY <3>2
    <3>4. accepted' = SubSeq(typed, 1, end)
      <4>1. SubSeq(typed, 1, next) \o SubSeq(typed, next + 1, end)
              = SubSeq(typed, 1, end)
        BY <3>1, <3>2, ConcatAdjacentSubSeq
      <4> QED
        BY <2>2, <3>1, <3>2, <4>1 DEF Accept
    <3>5. Pipe!Deliver(end - next)
      BY <2>2, <3>1, <3>2, <3>3, <3>4, SMTT(30) DEF Accept, Pipe!Deliver
    <3>6. end - next \in 1 .. Len(typed)
      BY <3>1, <3>2
    <3> QED
      BY <3>5, <3>6 DEF Pipe!Next
  <2>3. CASE SendMessage
    BY <2>3 DEF SendMessage, Pipe!vars
  <2>4. CASE SendAck
    BY <2>4 DEF SendAck, Pipe!vars
  <2>5. ASSUME NEW upto \in acks, ReceiveAck(upto) PROVE UNCHANGED Pipe!vars
    BY <2>5 DEF ReceiveAck, Pipe!vars
  <2>6. CASE UNCHANGED vars
    BY <2>6 DEF vars, Pipe!vars
  <2> QED
    BY <2>1, <2>2, <2>3, <2>4, <2>5, <2>6 DEF Next
<1> QED
  BY <1>1, <1>2, StreamInvariant, PTL DEF Spec, ImplementsPipe, Pipe!Spec
=============================================================================
