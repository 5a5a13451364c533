------------------------- MODULE ByteStreamsProofs -------------------------
(***************************************************************************)
(* The readers of byte streams, for sizes of any bound. Reassembly of      *)
(* fragments: what add() returns is what was sent, whichever pieces arrive *)
(* in whichever order. Frames on the session socket: what next() returns   *)
(* is what was written, wherever the stream is cut. The detach key: feed() *)
(* finds it wherever the reads cut it, and swallows nothing else.          *)
(***************************************************************************)
EXTENDS ByteStreams, SequenceTheorems, FiniteSetTheorems, WellFoundedInduction, TLAPS

-----------------------------------------------------------------------------
(***************************************************************************)
(* Fragments.                                                              *)
(***************************************************************************)
\* The i-th piece of an instruction of `size' pieces.
Piece(id, i, size) ==
    [id |-> id, num |-> i - 1, final |-> i = size, contents |-> <<id, i>>]

\* The payload of instruction id as it was sent.
Whole(id, size) == [i \in 1 .. size |-> {<<id, i>>}]

SizesOK == sizes \in Seq(1 .. MaxPieces)

\* Only pieces of payloads that were sent are under way.
NetworkOK ==
    \A f \in network :
        /\ f.id \in 1 .. Len(sizes)
        /\ \E i \in 1 .. sizes[f.id] : f = Piece(f.id, i, sizes[f.id])

\* A buffer for an instruction of `size' pieces: every slot is empty or holds its own piece;
\* the slots reach as far as the last piece that came, `arrived' counts them,
\* and the total is known exactly when the final piece is there.
Collects(a, id, size) ==
    /\ a \in [id : {id}, fragments : Seq({{<<id, i>>} : i \in 1 .. size} \cup {{}}),
              arrived : Nat, total : Nat]
    /\ Len(a.fragments) <= size /\ Len(a.fragments) <= MaxFragments
    /\ \A i \in 1 .. Len(a.fragments) : a.fragments[i] \in {{}, {<<id, i>>}}
    /\ a.arrived = Cardinality(Filled(a.fragments))
    /\ a.total = IF Len(a.fragments) = size THEN size ELSE 0

AsmOK ==
    \/ asm = Idle
    \/ /\ asm.id \in 1 .. Len(sizes)
       /\ Collects(asm, asm.id, sizes[asm.id])
       /\ Cardinality(Filled(asm.fragments)) < sizes[asm.id]

\* The inductive invariant.
PiecesInv == SizesOK /\ NetworkOK /\ AsmOK /\ AssembledIsSent

-----------------------------------------------------------------------------
\* A number in the header is the piece's own: none wraps.
LEMMA PiecesAre ==
    ASSUME NEW id, NEW size \in 1 .. MaxPieces
    PROVE  MakeFragments(id, size) = {Piece(id, i, size) : i \in 1 .. size}
<1>1. \A i \in 1 .. size : (i - 1) % NumLimit = i - 1
  BY PiecesAssumption
<1> QED
  BY <1>1 DEF MakeFragments, Piece

\* A sequence given by its elements.
LEMMA GivenByElements ==
    ASSUME NEW S, NEW n \in Nat, NEW q \in [1 .. n -> S]
    PROVE  q \in Seq(S) /\ Len(q) = n
  OBVIOUS

LEMMA FilledIs ==
    ASSUME NEW S, NEW q \in Seq(S)
    PROVE  /\ IsFiniteSet(Filled(q)) /\ Filled(q) \subseteq 1 .. Len(q)
           /\ Cardinality(Filled(q)) \in Nat /\ Cardinality(Filled(q)) <= Len(q)
           /\ Cardinality(Filled(q)) = Len(q) => \A i \in 1 .. Len(q) : q[i] # {}
<1>1. Len(q) \in Nat /\ Filled(q) \subseteq 1 .. Len(q)
  BY DEF Filled
<1>2. IsFiniteSet(1 .. Len(q)) /\ Cardinality(1 .. Len(q)) = Len(q)
  <2>1. PICK n \in Nat : n = Len(q)
    BY <1>1
  <2>2. /\ IsFiniteSet(1 .. n)
        /\ Cardinality(1 .. n) = IF 1 > n THEN 0 ELSE n - 1 + 1
    BY FS_Interval
  <2> QED
    BY <2>1, <2>2
<1>3. /\ IsFiniteSet(Filled(q)) /\ Cardinality(Filled(q)) <= Len(q)
      /\ Cardinality(Filled(q)) = Len(q) => Filled(q) = 1 .. Len(q)
  BY <1>1, <1>2, FS_Subset
<1> QED
  BY <1>1, <1>3, FS_CardinalityType DEF Filled

-----------------------------------------------------------------------------
LEMMA InitPieces == Init => PiecesInv
  BY DEF Init, PiecesInv, SizesOK, NetworkOK, AsmOK, AssembledIsSent

\* One payload more leaves the earlier ones as they were.
LEMMA SendPieces ==
    ASSUME PiecesInv, NEW size \in 1 .. MaxPieces, SendPayload(size)
    PROVE  PiecesInv'
<1>1. /\ sizes' = Append(sizes, size)
      /\ network' = network \cup MakeFragments(Len(sizes) + 1, size)
      /\ asm' = asm /\ returned' = returned /\ sizes \in Seq(1 .. MaxPieces)
  BY DEF SendPayload, PiecesInv, SizesOK
<1>2. PICK n \in Nat, z \in Seq(1 .. MaxPieces) :
        /\ n = Len(sizes) /\ z = sizes' /\ Len(z) = n + 1 /\ z[n + 1] = size
        /\ \A i \in 1 .. n : z[i] = sizes[i]
  <2>1. /\ Append(sizes, size) \in Seq(1 .. MaxPieces)
        /\ Len(Append(sizes, size)) = Len(sizes) + 1
        /\ Append(sizes, size)[Len(sizes) + 1] = size
        /\ \A i \in 1 .. Len(sizes) : Append(sizes, size)[i] = sizes[i]
    BY <1>1, AppendProperties
  <2>2. Len(sizes) \in Nat
    BY <1>1
  <2> QED
    BY <1>1, <2>1, <2>2, Zenon
<1>3. 1 .. n \subseteq 1 .. Len(z)
  BY <1>2
<1>4. NetworkOK'
  <2> SUFFICES ASSUME NEW f \in network'
               PROVE  /\ f.id \in 1 .. Len(z)
                      /\ \E i \in 1 .. z[f.id] : f = Piece(f.id, i, z[f.id])
    BY <1>2 DEF NetworkOK
  <2>1. CASE f \in network
    <3>1. /\ f.id \in 1 .. n
          /\ \E i \in 1 .. sizes[f.id] : f = Piece(f.id, i, sizes[f.id])
      BY <1>2, <2>1 DEF PiecesInv, NetworkOK
    <3> QED
      BY <1>2, <1>3, <3>1
  <2>2. CASE f \in MakeFragments(n + 1, size)
    <3>1. PICK i \in 1 .. size : f = Piece(n + 1, i, size)
      BY <2>2, PiecesAre
    <3>2. f.id = n + 1
      BY <3>1 DEF Piece
    <3> QED
      BY <1>2, <3>1, <3>2
  <2> QED
    BY <1>1, <1>2, <2>1, <2>2
<1>5. AsmOK'
  <2>1. CASE asm = Idle
    BY <1>1, <2>1 DEF AsmOK
  <2>2. CASE asm # Idle
    <3>1. /\ asm.id \in 1 .. n /\ Collects(asm, asm.id, sizes[asm.id])
          /\ Cardinality(Filled(asm.fragments)) < sizes[asm.id]
      BY <1>2, <2>2 DEF PiecesInv, AsmOK
    <3>2. asm.id \in 1 .. Len(z) /\ z[asm.id] = sizes[asm.id]
      BY <1>2, <1>3, <3>1
    <3> QED
      BY <1>1, <1>2, <3>1, <3>2 DEF AsmOK
  <2> QED
    BY <2>1, <2>2
<1>6. AssembledIsSent'
  <2> SUFFICES ASSUME NEW r \in returned
               PROVE  r.id \in 1 .. Len(z) /\ r.payload = [i \in 1 .. z[r.id] |-> {<<r.id, i>>}]
    BY <1>1, <1>2 DEF AssembledIsSent
  <2>1. r.id \in 1 .. n /\ r.payload = [i \in 1 .. sizes[r.id] |-> {<<r.id, i>>}]
    BY <1>2 DEF PiecesInv, AssembledIsSent
  <2> QED
    BY <1>2, <1>3, <2>1
<1> QED
  BY <1>2, <1>4, <1>5, <1>6 DEF PiecesInv, SizesOK

\* add() starts from a buffer for the fragment's own instruction.
LEMMA RestartedCollects ==
    ASSUME PiecesInv, NEW f \in network
    PROVE  /\ Collects(Restarted(asm, f), f.id, sizes[f.id])
           /\ Cardinality(Filled(Restarted(asm, f).fragments)) < sizes[f.id]
<1>1. f.id \in 1 .. Len(sizes) /\ sizes \in Seq(1 .. MaxPieces) /\ f.id # 0
  BY DEF PiecesInv, NetworkOK, SizesOK
<1>2. sizes[f.id] \in 1 .. MaxPieces
  BY <1>1, ElementOfSeq
<1>3. CASE asm.id = f.id
  BY <1>1, <1>3 DEF PiecesInv, AsmOK, Idle, Restarted
<1>4. CASE asm.id # f.id
  <2>1. Restarted(asm, f) = [id |-> f.id, fragments |-> << >>, arrived |-> 0, total |-> 0]
    BY <1>4 DEF Restarted
  <2>2. Filled(<< >>) = {} /\ Cardinality(Filled(<< >>)) = 0
    BY FS_EmptySet DEF Filled
  <2> QED
    BY <1>2, <2>1, <2>2, PiecesAssumption DEF Collects
<1> QED
  BY <1>3, <1>4

\* A piece that is not refused goes into its slot; the count and the total
\* keep what they say of the slots.
LEMMA PlacedCollects ==
    ASSUME NEW a, NEW id, NEW size \in 1 .. MaxPieces, Collects(a, id, size),
           NEW i \in 1 .. size, NEW f, f = Piece(id, i, size), ~ IsBogus(a, f)
    PROVE  /\ Collects(Placed(a, f), id, size)
           /\ Filled(Placed(a, f).fragments) = Filled(a.fragments) \cup {i}
<1> DEFINE T == {{<<id, j>>} : j \in 1 .. size} \cup {{}}
<1>1. /\ f.id = id /\ f.num = i - 1 /\ f.final = (i = size) /\ f.contents = <<id, i>>
      /\ size \in Nat /\ i \in Nat /\ i - 1 + 1 = i
  BY PiecesAssumption DEF Piece
<1>2. PICK q \in Seq(T), m \in Nat : q = a.fragments /\ m = Len(q)
  <2>1. a.fragments \in Seq(T)
    BY DEF Collects
  <2> HIDE DEF T
  <2>2. Len(a.fragments) \in Nat
    BY <2>1
  <2> QED
    BY <2>1, <2>2
<1>3. /\ m <= size /\ m <= MaxFragments /\ \A j \in 1 .. m : q[j] \in {{}, {<<id, j>>}}
      /\ a.arrived = Cardinality(Filled(q)) /\ a.total = IF m = size THEN size ELSE 0
      /\ a \in [id : {id}, fragments : Seq(T), arrived : Nat, total : Nat]
  BY <1>2 DEF Collects
<1>4. i <= MaxFragments
  BY <1>1, PiecesAssumption DEF IsBogus
<1>5. PICK n \in Nat : n = IF m <= i - 1 THEN i ELSE m
  BY <1>1
<1>6. n <= size /\ n <= MaxFragments /\ i \in 1 .. n /\ m <= n
  BY <1>1, <1>3, <1>4, <1>5
<1> HIDE DEF T
<1> DEFINE r == [j \in 1 .. n |-> IF j = i THEN {<<id, i>>} ELSE IF j <= m THEN q[j] ELSE {}]
<1>7. Slots(q, f) = r
  <2>1. Slots(q, f) = [j \in 1 .. n |->
          IF j <= m /\ (j # i \/ q[j] # {}) THEN q[j] ELSE IF j = i THEN {<<id, i>>} ELSE {}]
    BY <1>1, <1>2, <1>5 DEF Slots
  <2>2. ASSUME NEW j \in 1 .. n
        PROVE  (IF j <= m /\ (j # i \/ q[j] # {}) THEN q[j] ELSE IF j = i THEN {<<id, i>>} ELSE {})
                 = IF j = i THEN {<<id, i>>} ELSE IF j <= m THEN q[j] ELSE {}
    <3>1. CASE j = i /\ j <= m
      <4>1. q[j] \in {{}, {<<id, j>>}}
        BY <1>3, <3>1
      <4> QED
        BY <3>1, <4>1
    <3>2. CASE ~ (j = i /\ j <= m)
      BY <3>2
    <3> QED
      BY <3>1, <3>2
  <2> QED
    BY <2>1, <2>2
<1>8. r \in Seq(T) /\ Len(r) = n
  <2>1. ASSUME NEW j \in 1 .. n PROVE r[j] \in T
    <3>1. j <= m => q[j] \in T
      BY <1>2
    <3>2. {<<id, i>>} \in T /\ {} \in T
      BY DEF T
    <3> QED
      BY <3>1, <3>2
  <2>2. r \in [1 .. n -> T]
    BY <2>1
  <2> HIDE DEF r
  <2> QED
    BY <2>2, GivenByElements
<1>9. /\ \A j \in 1 .. n : r[j] \in {{}, {<<id, j>>}}
      /\ \A j \in 1 .. n : r[j] # {} <=> j = i \/ (j <= m /\ q[j] # {})
  <2> SUFFICES ASSUME NEW j \in 1 .. n
               PROVE  /\ r[j] \in {{}, {<<id, j>>}}
                      /\ r[j] # {} <=> j = i \/ (j <= m /\ q[j] # {})
    BY Zenon
  <2>1. r[j] = IF j = i THEN {<<id, i>>} ELSE IF j <= m THEN q[j] ELSE {}
    OBVIOUS
  <2> HIDE DEF r
  <2>2. j <= m => q[j] \in {{}, {<<id, j>>}}
    BY <1>3
  <2>3. {<<id, i>>} # {}
    OBVIOUS
  <2> QED
    BY <2>1, <2>2, <2>3
<1> HIDE DEF r
<1>10. Filled(r) = Filled(q) \cup {i}
  <2>1. Filled(q) = {j \in 1 .. m : q[j] # {}} /\ Filled(r) = {j \in 1 .. n : r[j] # {}}
    BY <1>2, <1>8 DEF Filled
  <2>2. \A j : j \in 1 .. m <=> j \in 1 .. n /\ j <= m
    BY <1>6
  <2> QED
    BY <1>6, <1>9, <2>1, <2>2
<1>11. IsNewPiece(q, f) <=> i \notin Filled(q)
  BY <1>1, <1>2 DEF IsNewPiece, Filled
<1>12. Cardinality(Filled(r)) = IF i \in Filled(q) THEN Cardinality(Filled(q)) ELSE Cardinality(Filled(q)) + 1
  BY <1>10, FilledIs, FS_AddElement
<1>13. PICK b : b = Placed(a, f)
  OBVIOUS
<1>14. /\ b \in [id : {id}, fragments : Seq(T), arrived : Nat, total : Nat]
       /\ b.fragments = r
       /\ b.total = IF f.final THEN f.num + 1 ELSE a.total
       /\ b.arrived = IF IsNewPiece(q, f) THEN a.arrived + 1 ELSE a.arrived
  <2>1. b = [a EXCEPT !.fragments = r,
                      !.total = IF f.final THEN f.num + 1 ELSE a.total,
                      !.arrived = IF IsNewPiece(q, f) THEN a.arrived + 1 ELSE a.arrived]
    BY <1>2, <1>3, <1>7, <1>13 DEF Placed
  <2>2. f.num + 1 \in Nat
    BY <1>1
  <2>3. PICK v \in Nat, w \in Nat :
          /\ v = IF f.final THEN f.num + 1 ELSE a.total
          /\ w = IF IsNewPiece(q, f) THEN a.arrived + 1 ELSE a.arrived
    BY <1>3, <2>2
  <2>4. b = [a EXCEPT !.fragments = r, !.total = v, !.arrived = w]
    BY <2>1, <2>3
  <2> QED
    BY <1>3, <1>8, <2>3, <2>4
<1>15. b.total = IF n = size THEN size ELSE 0
  <2>1. b.total = IF i = size THEN size ELSE IF m = size THEN size ELSE 0
    BY <1>1, <1>3, <1>14
  <2>2. n = size <=> i = size \/ m = size
    BY <1>1, <1>3, <1>5
  <2> QED
    BY <2>1, <2>2
<1>16. b.arrived = Cardinality(Filled(r))
  BY <1>3, <1>11, <1>12, <1>14
<1> QED
  BY <1>6, <1>8, <1>9, <1>10, <1>13, <1>14, <1>15, <1>16, <1>2 DEF Collects, T

\* The count is full exactly when every slot is.
LEMMA CompleteIsFull ==
    ASSUME NEW b, NEW id, NEW size \in 1 .. MaxPieces, Collects(b, id, size),
           Filled(b.fragments) # {}
    PROVE  /\ Cardinality(Filled(b.fragments)) \in Nat
           /\ Cardinality(Filled(b.fragments)) <= size
           /\ IsComplete(b) <=> Cardinality(Filled(b.fragments)) = size
           /\ IsComplete(b) => b.fragments = Whole(id, size)
<1> DEFINE T == {{<<id, j>>} : j \in 1 .. size} \cup {{}}
<1>1. PICK q \in Seq(T), k \in Nat, m \in Nat :
        q = b.fragments /\ k = Cardinality(Filled(q)) /\ m = Len(q)
  <2>1. b.fragments \in Seq(T)
    BY DEF Collects
  <2> HIDE DEF T
  <2> QED
    BY <2>1, FilledIs
<1> HIDE DEF T
<1>2. k <= m /\ (k = m => \A i \in 1 .. m : q[i] # {}) /\ IsFiniteSet(Filled(q))
  BY <1>1, FilledIs
<1>3. k # 0
  BY <1>1, <1>2, FS_EmptySet
<1>4. /\ m <= size /\ \A j \in 1 .. m : q[j] \in {{}, {<<id, j>>}}
      /\ b.arrived = k /\ b.total = IF m = size THEN size ELSE 0
  BY <1>1 DEF Collects
<1>5. IsComplete(b) <=> k = size
  BY <1>1, <1>2, <1>3, <1>4, PiecesAssumption DEF IsComplete
<1>6. ASSUME k = size PROVE q = Whole(id, size)
  <2>1. m = size /\ DOMAIN q = 1 .. size
    BY <1>1, <1>2, <1>4, <1>6
  <2>2. \A i \in 1 .. size : q[i] = {<<id, i>>}
    BY <1>2, <1>4, <1>6, <2>1
  <2>3. q = [i \in 1 .. m |-> q[i]]
    BY <1>1
  <2> QED
    BY <2>1, <2>2, <2>3 DEF Whole
<1> QED
  BY <1>1, <1>2, <1>4, <1>5, <1>6

LEMMA AddPieces ==
    ASSUME PiecesInv, NEW f \in network, Add(f)
    PROVE  PiecesInv'
<1>1. SizesOK' /\ NetworkOK' /\ sizes' = sizes
  BY DEF Add, PiecesInv, SizesOK, NetworkOK
<1>2. PICK a, id, size :
        /\ a = Restarted(asm, f) /\ id = f.id /\ size = sizes[f.id]
        /\ Collects(a, id, size) /\ Cardinality(Filled(a.fragments)) < size
  BY RestartedCollects
<1>3. PICK i \in 1 .. size : f = Piece(id, i, size)
  BY <1>2 DEF PiecesInv, NetworkOK
<1>4. id \in 1 .. Len(sizes) /\ size \in 1 .. MaxPieces
  <2>1. f.id \in 1 .. Len(sizes) /\ sizes \in Seq(1 .. MaxPieces)
    BY DEF PiecesInv, NetworkOK, SizesOK
  <2>2. sizes[f.id] \in 1 .. MaxPieces
    BY <2>1, ElementOfSeq
  <2> QED
    BY <1>2, <2>1, <2>2
<1>5. PICK b : b = Placed(a, f)
  OBVIOUS
<1>6. \/ IsBogus(a, f) /\ asm' = a /\ returned' = returned
      \/ /\ ~ IsBogus(a, f) /\ IsComplete(b) /\ asm' = Idle
         /\ returned' = returned \cup {[id |-> id, payload |-> b.fragments]}
      \/ ~ IsBogus(a, f) /\ ~ IsComplete(b) /\ asm' = b /\ returned' = returned
  BY <1>2, <1>5 DEF Add
<1>7. ASSUME NEW c, Collects(c, id, size), Cardinality(Filled(c.fragments)) < size, asm' = c
      PROVE  AsmOK'
  <2>1. c.id = id
    BY <1>7 DEF Collects
  <2> QED
    BY <1>1, <1>2, <1>4, <1>7, <2>1 DEF AsmOK
<1>8. ASSUME ~ IsBogus(a, f)
      PROVE  /\ Collects(b, id, size) /\ Cardinality(Filled(b.fragments)) <= size
             /\ Cardinality(Filled(b.fragments)) \in Nat
             /\ IsComplete(b) <=> Cardinality(Filled(b.fragments)) = size
             /\ IsComplete(b) => b.fragments = Whole(id, size)
  <2>1. Collects(b, id, size) /\ Filled(b.fragments) = Filled(a.fragments) \cup {i}
    <3>1. size \in 1 .. MaxPieces /\ i \in 1 .. size /\ f = Piece(id, i, size)
      BY <1>3, <1>4
    <3>2. Collects(a, id, size) /\ ~ IsBogus(a, f)
      BY <1>2, <1>8
    <3>3. /\ Collects(Placed(a, f), id, size)
          /\ Filled(Placed(a, f).fragments) = Filled(a.fragments) \cup {i}
      BY ONLY PlacedCollects, <3>1, <3>2
    <3> QED
      BY <1>5, <3>3
  <2>2. Filled(b.fragments) # {}
    BY <2>1
  <2> QED
    BY ONLY <1>4, <2>1, <2>2, CompleteIsFull
<1>9. AsmOK'
  <2>1. CASE IsBogus(a, f) /\ asm' = a
    BY <1>2, <1>7, <2>1
  <2>2. CASE asm' = Idle
    BY <2>2 DEF AsmOK
  <2>3. CASE ~ IsBogus(a, f) /\ ~ IsComplete(b) /\ asm' = b
    <3>1. Cardinality(Filled(b.fragments)) < size
      BY <1>4, <1>8, <2>3, PiecesAssumption
    <3> QED
      BY <1>7, <1>8, <2>3, <3>1
  <2> QED
    BY <1>6, <2>1, <2>2, <2>3
<1>10. AssembledIsSent'
  <2>1. CASE returned' = returned
    BY <1>1, <2>1 DEF PiecesInv, AssembledIsSent
  <2>2. CASE /\ ~ IsBogus(a, f) /\ IsComplete(b)
             /\ returned' = returned \cup {[id |-> id, payload |-> b.fragments]}
    <3>1. b.fragments = [j \in 1 .. sizes[id] |-> {<<id, j>>}]
      BY <1>2, <1>8, <2>2 DEF Whole
    <3> SUFFICES ASSUME NEW r \in returned'
                 PROVE  /\ r.id \in 1 .. Len(sizes)
                        /\ r.payload = [j \in 1 .. sizes[r.id] |-> {<<r.id, j>>}]
      BY <1>1 DEF AssembledIsSent
    <3>2. CASE r \in returned
      BY <3>2 DEF PiecesInv, AssembledIsSent
    <3>3. CASE r = [id |-> id, payload |-> b.fragments]
      <4>1. r.id = id /\ r.payload = b.fragments
        BY <3>3
      <4> QED
        BY <1>4, <3>1, <4>1
    <3> QED
      BY <2>2, <3>2, <3>3
  <2> QED
    BY <1>6, <2>1, <2>2
<1> QED
  BY <1>1, <1>9, <1>10 DEF PiecesInv

LEMMA NextPieces == PiecesInv /\ [Next]_vars => PiecesInv'
<1>1. ASSUME PiecesInv, NEW size \in 1 .. MaxPieces, SendPayload(size) PROVE PiecesInv'
  BY <1>1, SendPieces
<1>2. ASSUME PiecesInv, NEW f \in network, Add(f) PROVE PiecesInv'
  BY <1>2, AddPieces
<1>3. ASSUME PiecesInv, UNCHANGED vars PROVE PiecesInv'
  <2>1. sizes' = sizes /\ network' = network /\ asm' = asm /\ returned' = returned
    BY <1>3 DEF vars
  <2>2. SizesOK' /\ NetworkOK'
    BY <1>3, <2>1 DEF PiecesInv, SizesOK, NetworkOK
  <2>3. AsmOK'
    BY <1>3, <2>1, Zenon DEF PiecesInv, AsmOK
  <2>4. AssembledIsSent'
    BY <1>3, <2>1 DEF PiecesInv, AssembledIsSent
  <2> QED
    BY <2>2, <2>3, <2>4 DEF PiecesInv
<1> QED
  BY <1>1, <1>2, <1>3 DEF Next

-----------------------------------------------------------------------------
\* The invariant holds in every reachable state.
THEOREM FragmentsInvariant == Spec => []PiecesInv
  BY InitPieces, NextPieces, PTL DEF Spec

\* add() gives back whole payloads as they were sent, at the arrival of their
\* last piece, and reserves no slots beyond the limit or the payload, whatever
\* the network does to the fragments (FragmentAssembly::add).
THEOREM ReassemblyIsExact == Spec => []Reassembles
<1>1. PiecesInv => Reassembles
  <2> SUFFICES ASSUME PiecesInv PROVE NothingHeldBack /\ BufferBounded
    BY DEF PiecesInv, Reassembles
  <2>1. CASE asm = Idle
    BY <2>1, PiecesAssumption DEF Idle, NothingHeldBack, BufferBounded
  <2>2. CASE asm # Idle
    BY <2>2 DEF PiecesInv, AsmOK, Collects, NothingHeldBack, BufferBounded
  <2> QED
    BY <2>1, <2>2
<1> QED
  BY <1>1, FragmentsInvariant, PTL
-----------------------------------------------------------------------------
(***************************************************************************)
(* Induction over an interval of naturals, and functions defined by        *)
(* recursion over one, the step being given as a function.                 *)
(***************************************************************************)
LEMMA UpTo ==
    ASSUME NEW n \in Nat, NEW T, 0 \in T,
           \A k \in 1 .. n : k - 1 \in T => k \in T
    PROVE  \A k \in 0 .. n : k \in T
<1> DEFINE B == {k \in Nat : k <= n /\ k \notin T}
<1> SUFFICES ASSUME B # {} PROVE FALSE
  OBVIOUS
<1>1. PICK k \in B : \A m \in B : ~ (<<m, k>> \in OpToRel(<, Nat))
  <2>1. B \subseteq Nat
    OBVIOUS
  <2> HIDE DEF B
  <2> QED
    BY <2>1, NatLessThanWellFounded, WFMin
<1>2. k # 0 /\ k \in 1 .. n /\ k - 1 \in Nat /\ k - 1 <= n
  OBVIOUS
<1>3. k - 1 \in B
  BY <1>2
<1>4. <<k - 1, k>> \in OpToRel(<, Nat)
  <2>1. <<k - 1, k>> \in Nat \X Nat /\ <<k - 1, k>>[1] < <<k - 1, k>>[2]
    BY <1>2
  <2> HIDE DEF B
  <2> QED
    BY <2>1, Zenon DEF OpToRel
<1> QED
  BY <1>1, <1>3, <1>4

Iterates(h, b, step, S, n) ==
    /\ h \in [0 .. n -> S] /\ h[0] = b
    /\ \A k \in 1 .. n : h[k] = step[<<k, h[k - 1]>>]

LEMMA IterationExists ==
    ASSUME NEW S, NEW b \in S, NEW n \in Nat, NEW step \in [(1 .. n) \X S -> S]
    PROVE  \E h : Iterates(h, b, step, S, n)
<1> DEFINE T == {m \in 0 .. n : \E h : Iterates(h, b, step, S, m)}
<1>1. 0 \in T
  <2>1. Iterates([i \in 0 .. 0 |-> b], b, step, S, 0)
    BY DEF Iterates
  <2> QED
    BY <2>1
<1>2. ASSUME NEW k \in 1 .. n, k - 1 \in T PROVE k \in T
  <2>1. PICK h : Iterates(h, b, step, S, k - 1)
    BY <1>2
  <2>2. /\ h \in [0 .. k - 1 -> S] /\ h[0] = b
        /\ \A i \in 1 .. k - 1 : h[i] = step[<<i, h[i - 1]>>]
    BY <2>1 DEF Iterates
  <2> DEFINE g == [i \in 0 .. k |-> IF i < k THEN h[i] ELSE step[<<k, h[k - 1]>>]]
  <2>3. step[<<k, h[k - 1]>>] \in S
    <3>1. h[k - 1] \in S
      BY <2>2
    <3>2. <<k, h[k - 1]>> \in (1 .. n) \X S
      BY <3>1
    <3> QED
      BY <3>2
  <2>4. g \in [0 .. k -> S]
    <3> SUFFICES ASSUME NEW i \in 0 .. k PROVE g[i] \in S
      OBVIOUS
    <3>1. i < k => i \in 0 .. k - 1
      OBVIOUS
    <3> QED
      BY <2>2, <2>3, <3>1
  <2>5. g[0] = b /\ g[k] = step[<<k, h[k - 1]>>] /\ \A i \in 0 .. k - 1 : g[i] = h[i]
    BY <2>2
  <2> HIDE DEF g
  <2>6. \A i \in 1 .. k : g[i] = step[<<i, g[i - 1]>>]
    <3> TAKE i \in 1 .. k
    <3>1. i - 1 \in 0 .. k - 1 /\ g[i - 1] = h[i - 1]
      BY <2>5
    <3>2. CASE i = k
      BY <2>5, <3>1, <3>2
    <3>3. CASE i # k
      <4>1. i \in 1 .. k - 1 /\ i \in 0 .. k - 1
        BY <3>3
      <4> QED
        BY <2>2, <2>5, <3>1, <4>1
    <3> QED
      BY <3>2, <3>3
  <2>7. Iterates(g, b, step, S, k)
    BY <2>4, <2>5, <2>6 DEF Iterates
  <2> QED
    BY <2>7
<1> HIDE DEF T
<1>3. n \in T
  <2>1. \A k \in 0 .. n : k \in T
    BY <1>1, <1>2, UpTo
  <2> QED
    BY <2>1
<1> QED
  BY <1>3 DEF T

LEMMA SliceIs ==
    ASSUME NEW S, NEW w \in Seq(S), NEW a \in Nat, NEW z \in Nat, a <= z, z <= Len(w)
    PROVE  /\ SubSeq(w, a + 1, z) \in Seq(S) /\ Len(SubSeq(w, a + 1, z)) = z - a
           /\ \A p \in 1 .. z - a : SubSeq(w, a + 1, z)[p] = w[a + p]
<1>1. PICK m \in Nat : m = a + 1
  OBVIOUS
<1>2. m \in 1 .. Len(w) + 1 /\ z \in m - 1 .. Len(w)
  BY <1>1
<1>3. m \in Int /\ z \in Int /\ z - m + 1 = (IF m <= z THEN z - m + 1 ELSE 0)
  BY <1>1
<1>4. \A i \in m .. z : w[i] \in S
  BY <1>2, ElementOfSeq
<1>5. /\ SubSeq(w, m, z) \in Seq(S)
      /\ Len(SubSeq(w, m, z)) = IF m <= z THEN z - m + 1 ELSE 0
      /\ \A p \in 1 .. z - m + 1 : SubSeq(w, m, z)[p] = w[m + p - 1]
  BY ONLY <1>3, <1>4, SubSeqProperties
<1>6. z - m + 1 = z - a /\ \A p \in 1 .. z - a : m + p - 1 = a + p
  BY <1>1
<1> QED
  BY <1>1, <1>3, <1>5, <1>6

\* The first n bytes.
LEMMA FirstAre ==
    ASSUME NEW S, NEW w \in Seq(S), NEW n \in Nat, n <= Len(w)
    PROVE  /\ SubSeq(w, 1, n) \in Seq(S) /\ Len(SubSeq(w, 1, n)) = n
           /\ \A p \in 1 .. n : SubSeq(w, 1, n)[p] = w[p]
<1>1. /\ SubSeq(w, 0 + 1, n) \in Seq(S) /\ Len(SubSeq(w, 0 + 1, n)) = n - 0
      /\ \A p \in 1 .. n - 0 : SubSeq(w, 0 + 1, n)[p] = w[0 + p]
  BY SliceIs
<1>2. 0 + 1 = 1 /\ n - 0 = n /\ \A p \in 1 .. n : 0 + p = p
  OBVIOUS
<1> QED
  BY <1>1, <1>2

-----------------------------------------------------------------------------
(***************************************************************************)
(* Frames on the session socket.                                           *)
(***************************************************************************)
SentFrame == [tag : Frames!Tags, len : Nat]

GotFrame == [tag : Frames!Tags, payload : Seq(Nat)]

\* How far the k-th frame reaches in the stream.
LEMMA EndsAre ==
    ASSUME NEW s \in Seq(SentFrame)
    PROVE  /\ Frames!Ends(s) \in [0 .. Len(s) -> Nat]
           /\ Frames!Ends(s)[0] = 0
           /\ \A k \in 1 .. Len(s) : Frames!Ends(s)[k] = Frames!Ends(s)[k - 1] + 3 + s[k].len
<1> DEFINE n == Len(s)
           step == [x \in (1 .. n) \X Nat |-> x[2] + 3 + s[x[1]].len]
           IsEnds(h) == h = [k \in 0 .. n |-> IF k = 0 THEN 0 ELSE h[k - 1] + 3 + s[k].len]
<1>1. n \in Nat /\ \A k \in 1 .. n : s[k].len \in Nat
  <2>1. \A k \in 1 .. Len(s) : s[k] \in SentFrame
    BY ElementOfSeq
  <2> QED
    BY <2>1 DEF SentFrame
<1>2. step \in [(1 .. n) \X Nat -> Nat]
  <2>1. ASSUME NEW x \in (1 .. n) \X Nat PROVE x[2] + 3 + s[x[1]].len \in Nat
    <3>1. x[1] \in 1 .. n /\ x[2] \in Nat
      OBVIOUS
    <3>2. s[x[1]].len \in Nat
      BY <1>1, <3>1
    <3> QED
      BY <3>1, <3>2
  <2> QED
    BY <2>1
<1>3. \A k \in 1 .. n, m \in Nat : step[<<k, m>>] = m + 3 + s[k].len
  OBVIOUS
<1> HIDE DEF n, step
<1>4. PICK h : Iterates(h, 0, step, Nat, n)
  BY <1>1, <1>2, IterationExists
<1>5. IsEnds(h)
  <2>1. /\ h \in [0 .. n -> Nat] /\ h[0] = 0
        /\ \A k \in 1 .. n : h[k] = step[<<k, h[k - 1]>>]
    BY <1>4 DEF Iterates
  <2>2. \A k \in 1 .. n : k - 1 \in 0 .. n /\ h[k - 1] \in Nat
    BY <1>1, <2>1
  <2>3. \A k \in 0 .. n : h[k] = IF k = 0 THEN 0 ELSE h[k - 1] + 3 + s[k].len
    <3>1. \A k \in 1 .. n : h[k] = h[k - 1] + 3 + s[k].len
      <4> TAKE k \in 1 .. n
      <4>1. step[<<k, h[k - 1]>>] = h[k - 1] + 3 + s[k].len
        BY <1>3, <2>2
      <4> QED
        BY <2>1, <4>1
    <3>2. \A k \in 0 .. n : k # 0 => k \in 1 .. n
      BY <1>1
    <3> QED
      BY <2>1, <3>1, <3>2, Zenon
  <2> QED
    BY <2>1, <2>3
<1> DEFINE w == CHOOSE v : IsEnds(v)
<1>6. IsEnds(w)
  BY <1>5
<1>7. Frames!Ends(s) = w
  BY DEF Frames!Ends, Frames!HeaderLen, n
<1> HIDE DEF w
<1>8. w[0] = 0 /\ \A k \in 1 .. n : w[k] = w[k - 1] + 3 + s[k].len
  BY <1>1, <1>6
<1>9. \A k \in 0 .. n : w[k] \in Nat
  <2> DEFINE T == {k \in 0 .. n : w[k] \in Nat}
  <2>1. 0 \in T
    BY <1>1, <1>8
  <2>2. ASSUME NEW k \in 1 .. n, k - 1 \in T PROVE k \in T
    <3>1. w[k - 1] \in Nat /\ s[k].len \in Nat
      BY <1>1, <2>2
    <3>2. w[k] = w[k - 1] + 3 + s[k].len
      BY <1>8
    <3>3. w[k] \in Nat
      BY ONLY <3>1, <3>2
    <3> QED
      BY <3>3
  <2>3. \A k \in 0 .. n : k \in T
    <3> HIDE DEF T
    <3> QED
      BY <1>1, <2>1, <2>2, UpTo
  <2> QED
    BY <2>3
<1>10. w \in [0 .. n -> Nat]
  BY <1>6, <1>9
<1> QED
  BY <1>7, <1>8, <1>10 DEF n

\* A longer stream has the shorter one's ends.
LEMMA EndsStay ==
    ASSUME NEW s \in Seq(SentFrame), NEW z \in Seq(SentFrame), Len(s) <= Len(z),
           \A k \in 1 .. Len(s) : z[k] = s[k]
    PROVE  \A k \in 0 .. Len(s) : Frames!Ends(z)[k] = Frames!Ends(s)[k]
<1>1. PICK n \in Nat, m \in Nat : n = Len(s) /\ m = Len(z)
  OBVIOUS
<1>2. PICK v \in [0 .. n -> Nat], w \in [0 .. m -> Nat] :
        n = Len(s) /\ m = Len(z) /\ v = Frames!Ends(s) /\ w = Frames!Ends(z)
  BY <1>1, EndsAre
<1>3. /\ n <= m /\ v[0] = 0 /\ w[0] = 0
      /\ \A k \in 1 .. n : v[k] = v[k - 1] + 3 + s[k].len
      /\ \A k \in 1 .. m : w[k] = w[k - 1] + 3 + z[k].len
  BY <1>2, EndsAre
<1> DEFINE T == {k \in 0 .. n : w[k] = v[k]}
<1>4. 0 \in T
  BY <1>3
<1>5. ASSUME NEW k \in 1 .. n, k - 1 \in T PROVE k \in T
  BY <1>2, <1>3, <1>5
<1>6. \A k \in 0 .. n : k \in T
  <2> HIDE DEF T
  <2> QED
    BY <1>4, <1>5, UpTo
<1> QED
  BY <1>2, <1>6

\* What is past a frame of length q that begins at a.
LEMMA PastFrame ==
    ASSUME NEW a \in Nat, NEW b \in Nat, NEW q \in Nat, b = a + 3 + q
    PROVE  a <= b /\ \A c \in Nat : c < 3 + q => b > a + c
  OBVIOUS

\* Each frame lies after those before it.
LEMMA EndsGrow ==
    ASSUME NEW s \in Seq(SentFrame), NEW i \in 0 .. Len(s)
    PROVE  \A k \in 0 .. Len(s) : i <= k => Frames!Ends(s)[i] <= Frames!Ends(s)[k]
<1>1. PICK n \in Nat : n = Len(s)
  OBVIOUS
<1>2. PICK v \in [0 .. n -> Nat] : n = Len(s) /\ v = Frames!Ends(s)
  BY <1>1, EndsAre
<1>3. \A k \in 1 .. n : v[k] = v[k - 1] + 3 + s[k].len /\ s[k].len \in Nat
  <2>1. \A k \in 1 .. n : s[k] \in SentFrame
    BY <1>2, ElementOfSeq
  <2> QED
    BY <1>2, <2>1, EndsAre DEF SentFrame
<1> DEFINE T == {k \in 0 .. n : i <= k => v[i] <= v[k]}
<1>4. 0 \in T
  BY <1>2
<1>5. ASSUME NEW k \in 1 .. n, k - 1 \in T PROVE k \in T
  <2>1. v[k] \in Nat /\ v[k - 1] \in Nat /\ v[k - 1] <= v[k] /\ v[i] \in Nat
    <3>1. k - 1 \in 0 .. n /\ k \in 0 .. n /\ i \in 0 .. n
      BY <1>2
    <3>2. v[k] \in Nat /\ v[k - 1] \in Nat /\ v[i] \in Nat
      BY <1>2, <3>1
    <3>3. v[k] = v[k - 1] + 3 + s[k].len /\ s[k].len \in Nat
      BY <1>3
    <3> QED
      BY <3>2, <3>3, PastFrame, Zenon
  <2>2. CASE i = k
    BY <2>1, <2>2
  <2>3. CASE i # k
    BY <1>2, <1>5, <2>1, <2>3
  <2> QED
    BY <2>2, <2>3
<1>6. \A k \in 0 .. n : k \in T
  <2> HIDE DEF T
  <2> QED
    BY <1>4, <1>5, UpTo
<1> QED
  BY <1>2, <1>6

\* The k-th frame as next() returns it.
GotOf(f, k) == [tag |-> f.tag, payload |-> [j \in 1 .. f.len |-> k]]

LEMMA GotOfType ==
    ASSUME NEW f \in SentFrame, NEW k \in Nat PROVE GotOf(f, k) \in GotFrame
<1>1. f.tag \in Frames!Tags /\ f.len \in Nat
  BY DEF SentFrame
<1>2. PICK n \in Nat : n = f.len
  BY <1>1
<1>3. [j \in 1 .. n |-> k] \in Seq(Nat)
  BY GivenByElements
<1> QED
  BY <1>1, <1>2, <1>3 DEF GotOf, GotFrame

LEMMA ReturnedAre ==
    ASSUME NEW s \in Seq(SentFrame)
    PROVE  /\ Frames!Returned(s) \in [0 .. Len(s) -> Seq(GotFrame)]
           /\ Frames!Returned(s)[0] = << >>
           /\ \A k \in 1 .. Len(s) :
                 Frames!Returned(s)[k] =
                    IF Frames!IsKnown(s[k].tag)
                    THEN Append(Frames!Returned(s)[k - 1], GotOf(s[k], k))
                    ELSE Frames!Returned(s)[k - 1]
<1> DEFINE n == Len(s)
           S == Seq(GotFrame)
           Then(k, q) == IF Frames!IsKnown(s[k].tag) THEN Append(q, GotOf(s[k], k)) ELSE q
           step == [x \in (1 .. n) \X S |-> Then(x[1], x[2])]
           IsReturned(h) == h = [k \in 0 .. n |-> IF k = 0 THEN << >> ELSE Then(k, h[k - 1])]
<1>1. n \in Nat /\ << >> \in S
  BY EmptySeq
<1>2. ASSUME NEW k \in 1 .. n, NEW q \in S PROVE Then(k, q) \in S
  <2>1. s[k] \in SentFrame /\ k \in Nat
    BY ElementOfSeq
  <2>2. GotOf(s[k], k) \in GotFrame
    BY <2>1, GotOfType
  <2>3. Append(q, GotOf(s[k], k)) \in S
    BY <2>2, AppendProperties
  <2> QED
    BY <2>3
<1> HIDE DEF n, S, Then
<1>3. step \in [(1 .. n) \X S -> S]
  <2>1. ASSUME NEW x \in (1 .. n) \X S PROVE Then(x[1], x[2]) \in S
    <3>1. x[1] \in 1 .. n /\ x[2] \in S
      OBVIOUS
    <3> QED
      BY <1>2, <3>1
  <2> QED
    BY <2>1
<1>4. \A k \in 1 .. n, q \in S : step[<<k, q>>] = Then(k, q)
  OBVIOUS
<1> HIDE DEF step
<1>5. PICK h : Iterates(h, << >>, step, S, n)
  BY <1>1, <1>3, IterationExists
<1>6. IsReturned(h)
  <2>1. /\ h \in [0 .. n -> S] /\ h[0] = << >>
        /\ \A k \in 1 .. n : h[k] = step[<<k, h[k - 1]>>]
    BY <1>5 DEF Iterates
  <2>2. \A k \in 1 .. n : k - 1 \in 0 .. n /\ h[k - 1] \in S
    BY <1>1, <2>1
  <2>3. \A k \in 0 .. n : h[k] = IF k = 0 THEN << >> ELSE Then(k, h[k - 1])
    <3>1. \A k \in 1 .. n : h[k] = Then(k, h[k - 1])
      <4> TAKE k \in 1 .. n
      <4>1. step[<<k, h[k - 1]>>] = Then(k, h[k - 1])
        BY <1>4, <2>2
      <4> QED
        BY <2>1, <4>1
    <3>2. \A k \in 0 .. n : k # 0 => k \in 1 .. n
      BY <1>1
    <3> QED
      BY <2>1, <3>1, <3>2, Zenon
  <2> QED
    BY <2>1, <2>3
<1> DEFINE w == CHOOSE v : IsReturned(v)
<1>7. IsReturned(w)
  BY <1>6
<1>8. Frames!Returned(s) = w
  BY DEF Frames!Returned, n, Then, GotOf
<1> HIDE DEF w
<1>9. w[0] = << >> /\ \A k \in 1 .. n : w[k] = Then(k, w[k - 1])
  BY <1>1, <1>7
<1>10. \A k \in 0 .. n : w[k] \in S
  <2> DEFINE T == {k \in 0 .. n : w[k] \in S}
  <2>1. 0 \in T
    BY <1>1, <1>9
  <2>2. ASSUME NEW k \in 1 .. n, k - 1 \in T PROVE k \in T
    <3>1. w[k - 1] \in S
      BY <2>2
    <3>2. Then(k, w[k - 1]) \in S
      BY <1>2, <3>1
    <3> QED
      BY <1>1, <1>9, <3>2
  <2>3. \A k \in 0 .. n : k \in T
    <3> HIDE DEF T
    <3> QED
      BY <1>1, <2>1, <2>2, UpTo
  <2> QED
    BY <2>3
<1>11. w \in [0 .. n -> S]
  BY <1>7, <1>10
<1> QED
  BY <1>8, <1>9, <1>11 DEF n, S, Then

LEMMA ReturnedStay ==
    ASSUME NEW s \in Seq(SentFrame), NEW z \in Seq(SentFrame), Len(s) <= Len(z),
           \A k \in 1 .. Len(s) : z[k] = s[k]
    PROVE  \A k \in 0 .. Len(s) : Frames!Returned(z)[k] = Frames!Returned(s)[k]
<1>1. PICK n \in Nat, m \in Nat : n = Len(s) /\ m = Len(z)
  OBVIOUS
<1>2. PICK v, w : n = Len(s) /\ m = Len(z) /\ v = Frames!Returned(s) /\ w = Frames!Returned(z)
  BY <1>1
<1>3. /\ n <= m /\ v[0] = << >> /\ w[0] = << >>
      /\ \A k \in 1 .. n : v[k] = IF Frames!IsKnown(s[k].tag)
                                   THEN Append(v[k - 1], GotOf(s[k], k)) ELSE v[k - 1]
      /\ \A k \in 1 .. m : w[k] = IF Frames!IsKnown(z[k].tag)
                                   THEN Append(w[k - 1], GotOf(z[k], k)) ELSE w[k - 1]
  BY <1>2, ReturnedAre
<1> DEFINE T == {k \in 0 .. n : w[k] = v[k]}
<1>4. 0 \in T
  BY <1>3
<1>5. ASSUME NEW k \in 1 .. n, k - 1 \in T PROVE k \in T
  <2>1. w[k - 1] = v[k - 1] /\ z[k] = s[k] /\ k \in 1 .. m
    BY <1>2, <1>3, <1>5
  <2>2. w[k] = v[k]
    BY <1>3, <2>1
  <2> QED
    BY <2>2
<1>6. \A k \in 0 .. n : k \in T
  <2> HIDE DEF T
  <2> QED
    BY <1>4, <1>5, UpTo
<1> QED
  BY <1>2, <1>6

-----------------------------------------------------------------------------
\* Bytes received and not used up.
Held == Len(buf) - head

\* The p-th byte to come from a buffer b, of which h bytes are used up, and
\* the socket w behind it.
Coming(b, h, w, p) == IF p <= Len(b) - h THEN b[h + p] ELSE w[p - (Len(b) - h)]

\* Buffer and socket hold the frames of s after the k-th, and nothing else.
Carries(s, w, b, h, k) ==
    /\ Len(b) - h + Len(w) = Frames!Ends(s)[Len(s)] - Frames!Ends(s)[k]
    /\ \A i \in k + 1 .. Len(s) : \A j \in 1 .. 3 + s[i].len :
          Coming(b, h, w, Frames!Ends(s)[i - 1] - Frames!Ends(s)[k] + j)
            = Frames!Encode(i, s[i].tag, s[i].len)[j]

FramesType ==
    /\ sent \in Seq(SentFrame)
    /\ wire \in Seq(Nat) /\ buf \in Seq(Nat)
    /\ head \in Nat /\ head <= Len(buf)
    /\ draining \in BOOLEAN /\ failed \in BOOLEAN

\* next() has used up k whole frames.
InStep(k) ==
    /\ Carries(sent, wire, buf, head, k)
    /\ got = Frames!Known(k)
    /\ \A i \in 1 .. k : sent[i].len <= MaxFrameLen

\* Why the reader has left its loop.
AtRest(k) ==
    /\ failed => ~ draining /\ k < Len(sent) /\ Held >= 3 /\ sent[k + 1].len > MaxFrameLen
    /\ ~ draining /\ ~ failed =>
          /\ Held < 3 + MaxFrameLen
          /\ k < Len(sent) =>
                \/ Held < 3
                \/ sent[k + 1].len <= MaxFrameLen /\ Held < 3 + sent[k + 1].len

\* The inductive invariant of the socket.
FramesInv ==
    /\ FramesType
    /\ Len(buf) < 3 + MaxFrameLen + MaxRead
    /\ \E k \in 0 .. Len(sent) : InStep(k) /\ AtRest(k)

\* What append_frame writes: a tag, the length in two digits, the payload.
IsEncoded(e, n, tag, len) ==
    /\ e \in Seq(Nat) /\ Len(e) = 3 + len
    /\ e[1] = tag /\ e[2] + e[3] * LenBase = len
    /\ \A j \in 1 .. len : e[3 + j] = n

LEMMA EncodeIs ==
    ASSUME NEW n \in Nat, NEW tag \in Frames!Tags, NEW len \in Nat
    PROVE  IsEncoded(Frames!Encode(n, tag, len), n, tag, len)
<1>1. PICK B \in Nat : B = LenBase /\ B > 0
  BY FramingAssumption
<1>2. PICK d \in Nat, m \in Nat : d = len \div B /\ m = len % B /\ m + d * B = len
  <2>1. len = B * (len \div B) + (len % B) /\ len \div B \in Nat /\ len % B \in Nat
    BY <1>1
  <2> QED
    BY <1>1, <2>1
<1>3. tag \in Nat
  BY DEF Frames!Tags
<1>4. PICK h \in Seq(Nat) : h = <<tag, m, d>> /\ Len(h) = 3 /\ h[1] = tag /\ h[2] = m /\ h[3] = d
  <2>1. <<tag, m, d>> \in Seq(Nat)
    BY <1>2, <1>3
  <2>2. /\ Len(<<tag, m, d>>) = 3 /\ <<tag, m, d>>[1] = tag
        /\ <<tag, m, d>>[2] = m /\ <<tag, m, d>>[3] = d
    OBVIOUS
  <2> QED
    BY <2>1, <2>2, Zenon
<1>5. PICK t \in Seq(Nat) : t = [i \in 1 .. len |-> n] /\ Len(t) = len /\ \A j \in 1 .. len : t[j] = n
  <2>1. [i \in 1 .. len |-> n] \in Seq(Nat) /\ Len([i \in 1 .. len |-> n]) = len
    BY GivenByElements
  <2> QED
    BY <2>1
<1>6. PICK e : e = Frames!Encode(n, tag, len) /\ e = h \o t
  BY <1>1, <1>2, <1>4, <1>5 DEF Frames!Encode
<1>7. /\ e \in Seq(Nat) /\ Len(e) = 3 + len
      /\ \A i \in 1 .. 3 + len : e[i] = IF i <= 3 THEN h[i] ELSE t[i - 3]
  BY <1>4, <1>5, <1>6, ConcatProperties
<1>8. e[1] = tag /\ e[2] = m /\ e[3] = d
  BY <1>4, <1>7
<1>9. \A j \in 1 .. len : e[3 + j] = n
  <2> TAKE j \in 1 .. len
  <2>1. 3 + j \in 1 .. 3 + len /\ ~ (3 + j <= 3) /\ 3 + j - 3 = j
    OBVIOUS
  <2> QED
    BY <1>5, <1>7, <2>1
<1> QED
  BY <1>1, <1>2, <1>6, <1>7, <1>8, <1>9 DEF IsEncoded

LEMMA AvailIs ==
    ASSUME FramesType
    PROVE  /\ Frames!Avail \in Seq(Nat) /\ Held \in Nat
           /\ Len(Frames!Avail) = Held
           /\ \A p \in 1 .. Held : Frames!Avail[p] = buf[head + p]
<1>1. PICK n \in Nat : n = Len(buf) /\ head <= n
  BY DEF FramesType
<1>2. head + 1 \in 1 .. n + 1 /\ n - head \in Nat
  BY <1>1 DEF FramesType
<1>3. /\ SubSeq(buf, head + 1, n) \in Seq(Nat)
      /\ Len(SubSeq(buf, head + 1, n)) = n - head
      /\ \A p \in 1 .. n - head : SubSeq(buf, head + 1, n)[p] = buf[head + p]
  <2>1. buf \in Seq(Nat) /\ head \in Nat /\ n <= Len(buf)
    BY <1>1 DEF FramesType
  <2> QED
    BY <1>1, <2>1, SliceIs
<1> QED
  BY <1>1, <1>2, <1>3 DEF Frames!Avail, Held

\* What next() finds in the buffer is the frame after those it has used up.
LEMMA Following ==
    ASSUME FramesType, NEW k \in 0 .. Len(sent), InStep(k), Held >= 3
    PROVE  /\ k < Len(sent)
           /\ Frames!Avail[1] = sent[k + 1].tag
           /\ Frames!DecodeLen(Frames!Avail) = sent[k + 1].len
           /\ Held >= 3 + sent[k + 1].len =>
                 SubSeq(Frames!Avail, 4, 3 + sent[k + 1].len) = [j \in 1 .. sent[k + 1].len |-> k + 1]
<1>1. /\ Len(sent) \in Nat /\ Frames!Ends(sent) \in [0 .. Len(sent) -> Nat]
      /\ Frames!Avail \in Seq(Nat) /\ Held \in Nat /\ Len(Frames!Avail) = Held
      /\ \A p \in 1 .. Held : Frames!Avail[p] = buf[head + p]
  <2>1. Len(sent) \in Nat /\ Frames!Ends(sent) \in [0 .. Len(sent) -> Nat]
    BY EndsAre DEF FramesType
  <2>2. /\ Frames!Avail \in Seq(Nat) /\ Held \in Nat /\ Len(Frames!Avail) = Held
        /\ \A p \in 1 .. Held : Frames!Avail[p] = buf[head + p]
    BY AvailIs
  <2> QED
    BY <2>1, <2>2
<1>a. PICK n \in Nat, h \in Nat : n = Len(sent) /\ h = Held
  BY <1>1
<1>2. PICK w \in [0 .. n -> Nat], a \in Seq(Nat) :
        /\ n = Len(sent) /\ h = Held /\ w = Frames!Ends(sent) /\ a = Frames!Avail
        /\ Len(a) = h /\ \A p \in 1 .. h : a[p] = buf[head + p]
  BY <1>1, <1>a, Zenon
<1>3. k < n
  <2>1. h + Len(wire) = w[n] - w[k] /\ Len(wire) \in Nat
    BY <1>2 DEF InStep, Carries, Held, FramesType
  <2>2. w[n] \in Nat /\ w[k] \in Nat
    BY <1>2
  <2>3. n # k
    BY <1>2, <2>1, <2>2
  <2> QED
    BY <1>2, <2>3
<1>4. k + 1 \in 1 .. n /\ k + 1 \in k + 1 .. n /\ (k + 1) - 1 = k
  BY <1>2, <1>3
<1>5. PICK f \in SentFrame : f = sent[k + 1]
  BY <1>2, <1>4, ElementOfSeq DEF FramesType
<1>6. f.tag \in Frames!Tags /\ f.len \in Nat
  BY <1>5 DEF SentFrame
<1>7. PICK e \in Seq(Nat) :
        /\ e = Frames!Encode(k + 1, f.tag, f.len) /\ Len(e) = 3 + f.len
        /\ e[1] = f.tag /\ e[2] + e[3] * LenBase = f.len /\ \A j \in 1 .. f.len : e[3 + j] = k + 1
  <2>1. k + 1 \in Nat
    BY <1>2
  <2>2. IsEncoded(Frames!Encode(k + 1, f.tag, f.len), k + 1, f.tag, f.len)
    BY <1>6, <2>1, EncodeIs
  <2> QED
    BY <2>2, Zenon DEF IsEncoded
<1>8. \A j \in 1 .. 3 + f.len : j <= h => a[j] = e[j]
  <2> SUFFICES ASSUME NEW j \in 1 .. 3 + f.len, j <= h PROVE a[j] = e[j]
    OBVIOUS
  <2>1. Coming(buf, head, wire, w[k] - w[k] + j) = e[j]
    BY <1>2, <1>4, <1>5, <1>7 DEF InStep, Carries
  <2>2. w[k] \in Nat /\ w[k] - w[k] + j = j
    <3>1. k \in 0 .. n /\ w \in [0 .. n -> Nat]
      BY <1>2, <1>3
    <3>2. w[k] \in Nat
      BY ONLY <3>1
    <3>3. j \in Nat
      BY <1>6
    <3> QED
      BY ONLY <3>2, <3>3
  <2>3. Coming(buf, head, wire, j) = buf[head + j] /\ j \in 1 .. h
    BY <1>2, <1>6 DEF Coming, Held
  <2> QED
    BY <1>2, <2>1, <2>2, <2>3
<1>9. a[1] = e[1] /\ a[2] = e[2] /\ a[3] = e[3]
  <2>1. 1 \in 1 .. 3 + f.len /\ 2 \in 1 .. 3 + f.len /\ 3 \in 1 .. 3 + f.len
    BY <1>6
  <2>2. 1 <= h /\ 2 <= h /\ 3 <= h
    <3>1. h \in Nat /\ h >= 3
      BY <1>2
    <3> QED
      BY ONLY <3>1
  <2> QED
    BY ONLY <1>8, <2>1, <2>2, Zenon
<1>10. Frames!DecodeLen(a) = f.len
  BY <1>7, <1>9 DEF Frames!DecodeLen
<1>11. ASSUME h >= 3 + f.len PROVE SubSeq(a, 4, 3 + f.len) = [j \in 1 .. f.len |-> k + 1]
  <2>1. PICK l \in Nat : l = f.len
    BY <1>6
  <2>2. PICK q : q = SubSeq(a, 4, 3 + l)
    OBVIOUS
  <2>3. 4 \in 1 .. Len(a) + 1 /\ 3 + l \in 3 .. Len(a)
    BY <1>2, <1>11, <2>1
  <2>4. q \in Seq(Nat) /\ Len(q) = l /\ \A j \in 1 .. l : q[j] = a[3 + j]
    <3>1. PICK d \in Seq(Nat), c \in Nat : d = a /\ c = 3 + l /\ c <= Len(d)
      BY <1>2, <2>1, <2>3
    <3>2. /\ SubSeq(d, 3 + 1, c) \in Seq(Nat) /\ Len(SubSeq(d, 3 + 1, c)) = c - 3
          /\ \A j \in 1 .. c - 3 : SubSeq(d, 3 + 1, c)[j] = d[3 + j]
      <4>1. /\ 3 \in Nat /\ 3 <= c /\ c <= Len(d)
            /\ c \in Nat /\ d \in Seq(Nat)
        BY <3>1
      <4> QED
        BY ONLY <4>1, SliceIs
    <3>3. c - 3 = l /\ 3 + 1 = 4
      BY <3>1
    <3> QED
      BY <2>2, <3>1, <3>2, <3>3
  <2>5. \A j \in 1 .. l : q[j] = k + 1
    <3> TAKE j \in 1 .. l
    <3>1. 3 + j \in 1 .. 3 + f.len /\ 3 + j <= h
      <4>1. h >= 3 + l /\ h \in Nat /\ l \in Nat
        BY <1>11, <2>1, Zenon
      <4>2. 3 + j \in 1 .. 3 + l /\ 3 + j <= h
        BY ONLY <4>1, j \in 1 .. l
      <4> QED
        BY <2>1, <4>2, Zenon
    <3> QED
      BY <1>7, <1>8, <2>1, <2>4, <3>1
  <2>6. q = [j \in 1 .. l |-> q[j]]
    BY <2>4
  <2>7. q = [j \in 1 .. l |-> k + 1]
    BY <2>5, <2>6
  <2> QED
    BY <2>1, <2>2, <2>7
<1> QED
  BY <1>2, <1>3, <1>5, <1>7, <1>9, <1>10, <1>11

\* z is s with one frame more, x is w with e behind it.
IsLonger(z, s, n) ==
    /\ s \in Seq(SentFrame) /\ z \in Seq(SentFrame)
    /\ Len(s) = n /\ Len(z) = n + 1 /\ \A i \in 1 .. n : z[i] = s[i]

IsJoined(x, w, e, m, l) ==
    /\ x \in Seq(Nat) /\ w \in Seq(Nat) /\ e \in Seq(Nat)
    /\ Len(w) = m /\ Len(e) = l /\ Len(x) = m + l
    /\ \A i \in 1 .. m : x[i] = w[i]
    /\ \A i \in 1 .. l : x[m + i] = e[i]

LEMMA JoinedIs ==
    ASSUME NEW w \in Seq(Nat), NEW e \in Seq(Nat)
    PROVE  IsJoined(w \o e, w, e, Len(w), Len(e))
<1>1. /\ w \o e \in Seq(Nat) /\ Len(w \o e) = Len(w) + Len(e)
      /\ \A i \in 1 .. Len(w) + Len(e) : (w \o e)[i] = IF i <= Len(w) THEN w[i] ELSE e[i - Len(w)]
  BY ConcatProperties
<1>2. PICK m \in Nat, l \in Nat : m = Len(w) /\ l = Len(e)
  OBVIOUS
<1>3. PICK x : x = w \o e
  OBVIOUS
<1>4. Len(x) = m + l /\ \A i \in 1 .. m + l : x[i] = IF i <= m THEN w[i] ELSE e[i - m]
  BY <1>1, <1>2, <1>3
<1>5. \A i \in 1 .. m : i \in 1 .. m + l /\ i <= m
  OBVIOUS
<1>6. \A i \in 1 .. l : m + i \in 1 .. m + l /\ ~ (m + i <= m) /\ m + i - m = i
  OBVIOUS
<1>7. \A i \in 1 .. m : x[i] = w[i]
  BY <1>4, <1>5
<1>8. \A i \in 1 .. l : x[m + i] = e[i]
  BY <1>4, <1>6
<1> QED
  BY <1>1, <1>2, <1>3, <1>4, <1>7, <1>8 DEF IsJoined

\* e is what append_frame makes of the last frame of z, of length l.
IsLast(e, z, n, l) ==
    z[n + 1].len = l /\ e = Frames!Encode(n + 1, z[n + 1].tag, z[n + 1].len)

HasLeft(b, h, c) == Len(b) - h = c

\* A frame more is written.
LEMMA CarriesSent ==
    ASSUME NEW n \in Nat, NEW m \in Nat, NEW l \in Nat, NEW c \in Nat, NEW k \in 0 .. n,
           NEW s, NEW z, IsLonger(z, s, n), NEW w, NEW x, NEW e, IsJoined(x, w, e, m, 3 + l),
           IsLast(e, z, n, l), NEW b, NEW h, HasLeft(b, h, c), Carries(s, w, b, h, k)
    PROVE  Carries(z, x, b, h, k)
<1>1. PICK v \in [0 .. n -> Nat] :
        /\ v = Frames!Ends(s)
        /\ \A i \in 1 .. n : v[i] = v[i - 1] + 3 + s[i].len
  BY EndsAre DEF IsLonger
<1>2. PICK u \in [0 .. n + 1 -> Nat] :
        /\ u = Frames!Ends(z)
        /\ \A i \in 1 .. n + 1 : u[i] = u[i - 1] + 3 + z[i].len
  <2>1. z \in Seq(SentFrame) /\ Len(z) = n + 1
    BY DEF IsLonger
  <2>2. /\ Frames!Ends(z) \in [0 .. n + 1 -> Nat]
        /\ \A i \in 1 .. n + 1 : Frames!Ends(z)[i] = Frames!Ends(z)[i - 1] + 3 + z[i].len
    BY <2>1, EndsAre
  <2> QED
    BY <2>2, Zenon
<1>3. /\ \A i \in 0 .. n : u[i] = v[i]
      /\ u[n + 1] = u[n] + 3 + l
  <2>1. n <= n + 1
    OBVIOUS
  <2>2. \A i \in 0 .. n : Frames!Ends(z)[i] = Frames!Ends(s)[i]
    BY <2>1, EndsStay DEF IsLonger
  <2>3. n + 1 \in 1 .. n + 1 /\ n + 1 - 1 = n
    OBVIOUS
  <2>4. \A i \in 0 .. n : u[i] = v[i]
    BY <1>1, <1>2, <2>2, Zenon
  <2>5. z[n + 1].len = l
    BY DEF IsLast
  <2>6. u[n + 1] = u[n] + 3 + z[n + 1].len
    <3>1. PICK i \in 1 .. n + 1 : i = n + 1
      BY <2>3
    <3>2. u[i] = u[i - 1] + 3 + z[i].len
      BY <1>2
    <3>3. i - 1 = n
      BY <3>1
    <3> QED
      BY ONLY <3>1, <3>2, <3>3
  <2> QED
    BY <2>4, <2>5, <2>6
<1>4. v[k] \in Nat /\ v[n] \in Nat /\ u[k] = v[k] /\ u[n] = v[n]
  <2>1. k \in 0 .. n /\ n \in 0 .. n
    OBVIOUS
  <2> QED
    BY <1>3, <2>1
<1>5. /\ c + m = v[n] - v[k]
      /\ \A i \in k + 1 .. n : \A j \in 1 .. 3 + s[i].len :
            Coming(b, h, w, v[i - 1] - v[k] + j) = Frames!Encode(i, s[i].tag, s[i].len)[j]
  BY <1>1 DEF Carries, IsLonger, IsJoined, HasLeft
<1>6. c + Len(x) = u[n + 1] - u[k]
  <2>1. Len(x) = m + (3 + l)
    BY DEF IsJoined
  <2>2. PICK p0 \in Nat, p1 \in Nat : p0 = v[k] /\ p1 = v[n]
    BY <1>4
  <2>3. PICK p2, p3 : p2 = u[n + 1] /\ p3 = Len(x)
    OBVIOUS
  <2>4. p2 = p1 + 3 + l /\ p3 = m + (3 + l) /\ c + m = p1 - p0
    BY <1>3, <1>4, <1>5, <2>1, <2>2, <2>3, Zenon
  <2>5. c + p3 = p2 - p0
    BY ONLY n \in Nat, m \in Nat, l \in Nat, c \in Nat, p0 \in Nat, p1 \in Nat, <2>4
  <2> QED
    BY <1>4, <2>2, <2>3, <2>5, Zenon
<1>7. \A i \in 1 .. n : s[i].len \in Nat
  <2>1. \A i \in 1 .. n : s[i] \in SentFrame
    BY ElementOfSeq DEF IsLonger
  <2> QED
    BY <2>1 DEF SentFrame
<1>8. \A i \in k + 1 .. n : v[k] <= v[i - 1] /\ v[i] <= v[n]
  <2> TAKE i \in k + 1 .. n
  <2>1. i - 1 \in 0 .. n /\ i \in 0 .. n /\ n \in 0 .. n /\ k <= i - 1 /\ i <= n /\ k \in 0 .. n
    OBVIOUS
  <2>2. v[k] <= v[i - 1]
    BY <1>1, <2>1, EndsGrow DEF IsLonger
  <2>3. v[i] <= v[n]
    BY <1>1, <2>1, EndsGrow DEF IsLonger
  <2> QED
    BY <2>2, <2>3
<1>9. ASSUME NEW i \in k + 1 .. n + 1, NEW y \in Nat, y = z[i].len, NEW j \in 1 .. 3 + y
       PROVE  Coming(b, h, x, u[i - 1] - u[k] + j) = Frames!Encode(i, z[i].tag, z[i].len)[j]
  <2>1. CASE i = n + 1
    <3>a. y = l
      BY <1>9, <2>1 DEF IsLast
    <3>1. j \in 1 .. 3 + l /\ i - 1 = n
      BY <2>1, <3>a
    <3>2. u[i - 1] - u[k] + j = c + m + j
      BY <1>4, <1>5, <3>1
    <3>3. ~ (c + m + j <= c) /\ c + m + j - c = m + j
      BY <3>1
    <3>4. Coming(b, h, x, c + m + j) = x[m + j]
      BY <3>3 DEF Coming, HasLeft
    <3>5. x[m + j] = e[j]
      BY <3>1 DEF IsJoined
    <3> QED
      BY <2>1, <3>2, <3>4, <3>5 DEF IsLast
  <2>2. CASE i # n + 1
    <3>1. i \in 1 .. n /\ i \in k + 1 .. n /\ i - 1 \in 0 .. n /\ i \in 0 .. n
      BY <2>2
    <3>2. z[i] = s[i] /\ s[i].len \in Nat
      BY <1>7, <3>1 DEF IsLonger
    <3>3. v[k] <= v[i - 1] /\ v[i] <= v[n] /\ v[i] = v[i - 1] + 3 + s[i].len
      BY <1>1, <1>8, <3>1
    <3>4. v[i - 1] \in Nat /\ v[i] \in Nat /\ u[i - 1] = v[i - 1]
      BY <1>3, <3>1
    <3>a. y = s[i].len
      BY <1>9, <3>2
    <3>5. PICK p \in Nat : p = v[i - 1] - v[k] + j /\ p >= 1 /\ p <= c + m
      <4>1. PICK p0 \in Nat, p1 \in Nat, p2 \in Nat, p3 \in Nat :
              p0 = v[k] /\ p1 = v[i - 1] /\ p2 = v[i] /\ p3 = v[n]
        BY <1>4, <3>4
      <4>2. p0 <= p1 /\ p2 <= p3 /\ p2 = p1 + 3 + y /\ c + m = p3 - p0
        BY <1>5, <3>3, <3>a, <4>1
      <4>3. p1 - p0 + j \in Nat /\ p1 - p0 + j >= 1 /\ p1 - p0 + j <= c + m
        BY <4>2
      <4> QED
        BY <4>1, <4>3
    <3>6. Coming(b, h, x, p) = Coming(b, h, w, p)
      <4>1. CASE p <= c
        BY <4>1 DEF Coming, HasLeft
      <4>2. CASE ~ (p <= c)
        <5>1. p - c \in 1 .. m
          <6>1. p <= c + m
            BY <3>5
          <6> QED
            BY ONLY p \in Nat, c \in Nat, m \in Nat, <4>2, <6>1
        <5>2. x[p - c] = w[p - c]
          BY <5>1 DEF IsJoined
        <5> QED
          BY <5>2 DEF Coming, HasLeft
      <4> QED
        BY <4>1, <4>2
    <3>7. Coming(b, h, w, p) = Frames!Encode(i, s[i].tag, s[i].len)[j]
      BY <1>5, <3>1, <3>5, <3>a
    <3> QED
      BY <1>4, <3>2, <3>4, <3>5, <3>6, <3>7
  <2> QED
    BY <2>1, <2>2
<1>10. \A i \in 1 .. n + 1 : z[i].len \in Nat
  <2>1. \A i \in 1 .. n + 1 : z[i] \in SentFrame
    BY ElementOfSeq DEF IsLonger
  <2> QED
    BY <2>1 DEF SentFrame
<1>11. \A i \in k + 1 .. n + 1 : i \in 1 .. n + 1
  OBVIOUS
<1> QED
  BY <1>2, <1>6, <1>9, <1>10, <1>11, ZenonT(60) DEF Carries, IsLonger, HasLeft

\* A byte of the i-th frame lies within what is still to come after the k-th.
LEMMA WithinStream ==
    ASSUME NEW n \in Nat, NEW s \in Seq(SentFrame), Len(s) = n, NEW k \in 0 .. n,
           NEW i \in k + 1 .. n, NEW y \in Nat, y = s[i].len, NEW j \in 1 .. 3 + y
    PROVE  Frames!Ends(s)[i - 1] - Frames!Ends(s)[k] + j
             \in 1 .. Frames!Ends(s)[n] - Frames!Ends(s)[k]
<1>1. PICK v \in [0 .. n -> Nat] :
        v = Frames!Ends(s) /\ \A a \in 1 .. n : v[a] = v[a - 1] + 3 + s[a].len
  BY EndsAre
<1>2. i \in 1 .. n /\ i - 1 \in 0 .. n /\ i \in 0 .. n /\ n \in 0 .. n /\ k <= i - 1 /\ i <= n
  OBVIOUS
<1>3. v[k] <= v[i - 1]
  BY <1>1, <1>2, EndsGrow
<1>4. v[i] <= v[n]
  BY <1>1, <1>2, EndsGrow
<1>5. PICK p0 \in Nat, p1 \in Nat, p2 \in Nat, p3 \in Nat :
        p0 = v[k] /\ p1 = v[i - 1] /\ p2 = v[i] /\ p3 = v[n]
  BY <1>2
<1>6. p0 <= p1 /\ p2 <= p3 /\ p2 = p1 + 3 + y
  BY <1>1, <1>2, <1>3, <1>4, <1>5
<1>7. p1 - p0 + j \in 1 .. p3 - p0
  <2>1. /\ p0 \in Nat /\ p1 \in Nat /\ p2 \in Nat /\ p3 \in Nat
        /\ y \in Nat /\ j \in 1 .. 3 + y
    OBVIOUS
  <2> QED
    BY ONLY <1>6, <2>1
<1> QED
  BY <1>1, <1>5, <1>7

\* q bytes of w are fed to a buffer that had c bytes left.
IsFed(x, w1, b, h, w, c, m, q) ==
    /\ x \in Seq(Nat) /\ w1 \in Seq(Nat)
    /\ Len(x) = c + q /\ Len(w1) = m - q
    /\ \A p \in 1 .. c : x[p] = b[h + p]
    /\ \A p \in 1 .. q : x[c + p] = w[p]
    /\ \A p \in 1 .. m - q : w1[p] = w[q + p]

LEMMA CutIs ==
    ASSUME NEW w \in Seq(Nat), NEW a \in Nat, NEW z \in Nat, a <= z, z <= Len(w)
    PROVE  /\ SubSeq(w, a + 1, z) \in Seq(Nat) /\ Len(SubSeq(w, a + 1, z)) = z - a
           /\ \A p \in 1 .. z - a : SubSeq(w, a + 1, z)[p] = w[a + p]
<1>1. PICK m \in Nat : m = a + 1
  OBVIOUS
<1>2. m \in 1 .. Len(w) + 1 /\ z \in m - 1 .. Len(w)
  BY <1>1
<1>3. /\ SubSeq(w, m, z) \in Seq(Nat) /\ Len(SubSeq(w, m, z)) = z - m + 1
      /\ \A p \in 1 .. z - m + 1 : SubSeq(w, m, z)[p] = w[m + p - 1]
  <2>1. m \in Int /\ z \in Int /\ z - m + 1 = (IF m <= z THEN z - m + 1 ELSE 0)
    BY <1>1
  <2>2. \A i \in m .. z : w[i] \in Nat
    BY <1>2, ElementOfSeq
  <2>3. /\ SubSeq(w, m, z) \in Seq(Nat)
        /\ Len(SubSeq(w, m, z)) = IF m <= z THEN z - m + 1 ELSE 0
        /\ \A p \in 1 .. z - m + 1 : SubSeq(w, m, z)[p] = w[m + p - 1]
    BY ONLY <2>1, <2>2, SubSeqProperties
  <2> QED
    BY <2>1, <2>3, Zenon
<1>4. z - m + 1 = z - a /\ \A p \in 1 .. z - a : m + p - 1 = a + p
  BY <1>1
<1> QED
  BY <1>1, <1>3, <1>4

LEMMA FedIs ==
    ASSUME NEW b \in Seq(Nat), NEW w \in Seq(Nat), NEW h \in Nat, h <= Len(b),
           NEW q \in Nat, q <= Len(w)
    PROVE  IsFed(SubSeq(b, h + 1, Len(b)) \o SubSeq(w, 1, q), SubSeq(w, q + 1, Len(w)),
                 b, h, w, Len(b) - h, Len(w), q)
<1>1. PICK o \in Nat, m \in Nat : o = Len(b) /\ m = Len(w) /\ h <= o /\ q <= m
  OBVIOUS
<1>2. PICK c \in Nat : c = o - h
  <2>1. o \in Nat /\ h \in Nat /\ h <= o
    BY <1>1
  <2>2. o - h \in Nat
    BY ONLY <2>1
  <2> QED
    BY <2>2
<1>3. PICK x0 \in Seq(Nat) :
        x0 = SubSeq(b, h + 1, o) /\ Len(x0) = c /\ \A p \in 1 .. c : x0[p] = b[h + p]
  <2>1. /\ SubSeq(b, h + 1, o) \in Seq(Nat) /\ Len(SubSeq(b, h + 1, o)) = o - h
        /\ \A p \in 1 .. o - h : SubSeq(b, h + 1, o)[p] = b[h + p]
    <3>1. o <= Len(b)
      BY <1>1
    <3> QED
      BY <1>1, <3>1, CutIs
  <2> QED
    BY <1>2, <2>1, Zenon
<1>4. PICK y0 \in Seq(Nat) :
        y0 = SubSeq(w, 1, q) /\ Len(y0) = q /\ \A p \in 1 .. q : y0[p] = w[p]
  <2>1. /\ SubSeq(w, 0 + 1, q) \in Seq(Nat) /\ Len(SubSeq(w, 0 + 1, q)) = q - 0
        /\ \A p \in 1 .. q - 0 : SubSeq(w, 0 + 1, q)[p] = w[0 + p]
    BY <1>1, CutIs
  <2>2. 0 + 1 = 1 /\ q - 0 = q /\ \A p \in 1 .. q : 0 + p = p
    OBVIOUS
  <2> QED
    BY <2>1, <2>2
<1>5. PICK z0 \in Seq(Nat) :
        z0 = SubSeq(w, q + 1, m) /\ Len(z0) = m - q /\ \A p \in 1 .. m - q : z0[p] = w[q + p]
  <2>1. /\ SubSeq(w, q + 1, m) \in Seq(Nat) /\ Len(SubSeq(w, q + 1, m)) = m - q
        /\ \A p \in 1 .. m - q : SubSeq(w, q + 1, m)[p] = w[q + p]
    <3>1. w \in Seq(Nat) /\ q \in Nat /\ m \in Nat /\ q <= m /\ m <= Len(w)
      BY <1>1
    <3> QED
      BY ONLY <3>1, CutIs
  <2> QED
    BY <2>1, Zenon
<1>6. IsJoined(x0 \o y0, x0, y0, c, q)
  BY <1>3, <1>4, JoinedIs
<1>7. PICK x : x = x0 \o y0 /\ IsJoined(x, x0, y0, c, q)
  BY <1>6
<1>8. IsFed(x, z0, b, h, w, c, m, q)
  BY <1>3, <1>4, <1>5, <1>7 DEF IsFed, IsJoined
<1> QED
  BY <1>1, <1>2, <1>3, <1>4, <1>5, <1>7, <1>8

LEMMA CarriesRead ==
    ASSUME NEW n \in Nat, NEW s \in Seq(SentFrame), Len(s) = n, NEW k \in 0 .. n,
           NEW c \in Nat, NEW m \in Nat, NEW q \in Nat, q <= m,
           NEW b, NEW h, HasLeft(b, h, c), NEW w, Len(w) = m,
           NEW x, NEW w1, IsFed(x, w1, b, h, w, c, m, q), Carries(s, w, b, h, k)
    PROVE  Carries(s, w1, x, 0, k)
<1>1. PICK v \in [0 .. n -> Nat] : v = Frames!Ends(s)
  BY EndsAre
<1>2. /\ c + m = v[n] - v[k]
      /\ \A i \in k + 1 .. n : \A j \in 1 .. 3 + s[i].len :
            Coming(b, h, w, v[i - 1] - v[k] + j) = Frames!Encode(i, s[i].tag, s[i].len)[j]
  BY <1>1 DEF Carries, HasLeft
<1>3. PICK o \in Nat, o1 \in Nat : o = Len(x) /\ o1 = Len(w1) /\ o = c + q /\ o1 = m - q
  BY DEF IsFed
<1>4. Len(x) - 0 + Len(w1) = v[n] - v[k]
  BY ONLY <1>2, <1>3, c \in Nat, m \in Nat, q \in Nat
<1>5. ASSUME NEW p \in Nat, p >= 1, p <= c + m
      PROVE  Coming(x, 0, w1, p) = Coming(b, h, w, p)
  <2>1. /\ Len(x) - 0 = c + q /\ 0 + p = p
    BY <1>3
  <2>2. CASE p <= c
    <3>1. p <= c + q /\ p \in 1 .. c
      BY <1>5, <2>2
    <3>2. x[p] = b[h + p]
      BY <3>1 DEF IsFed
    <3> QED
      BY <2>1, <2>2, <3>1, <3>2 DEF Coming, HasLeft
  <2>3. CASE ~ (p <= c) /\ p <= c + q
    <3>1. PICK p1 \in Nat : p1 = p - c /\ p1 \in 1 .. q /\ c + p1 = p
      BY <2>3
    <3>2. x[c + p1] = w[p1]
      BY <3>1 DEF IsFed
    <3> QED
      BY <2>1, <2>3, <3>1, <3>2 DEF Coming, HasLeft
  <2>4. CASE ~ (p <= c + q)
    <3>1. ~ (p <= c)
      BY <2>4
    <3>2. PICK p1 \in Nat : p1 = p - (c + q) /\ p1 \in 1 .. m - q /\ q + p1 = p - c
      BY <1>5, <2>4
    <3>3. w1[p1] = w[q + p1]
      BY <3>2 DEF IsFed
    <3> QED
      BY <2>1, <2>4, <3>1, <3>2, <3>3 DEF Coming, HasLeft
  <2> QED
    BY <2>2, <2>3, <2>4
<1>6. \A i \in k + 1 .. n : s[i].len \in Nat
  <2>1. \A i \in 1 .. n : s[i] \in SentFrame
    BY ElementOfSeq
  <2>2. \A i \in k + 1 .. n : i \in 1 .. n
    OBVIOUS
  <2> QED
    BY <2>1, <2>2 DEF SentFrame
<1>7. ASSUME NEW i \in k + 1 .. n, NEW y \in Nat, y = s[i].len, NEW j \in 1 .. 3 + y
      PROVE  Coming(x, 0, w1, v[i - 1] - v[k] + j) = Frames!Encode(i, s[i].tag, s[i].len)[j]
  <2>1. v[i - 1] - v[k] + j \in 1 .. v[n] - v[k]
    BY <1>1, <1>7, WithinStream
  <2>2. PICK p : p = v[i - 1] - v[k] + j
    OBVIOUS
  <2>3. p \in Nat /\ p >= 1 /\ p <= c + m
    BY <1>2, <2>1, <2>2
  <2>4. Coming(x, 0, w1, p) = Coming(b, h, w, p)
    BY <1>5, <2>3
  <2>5. Coming(b, h, w, v[i - 1] - v[k] + j) = Frames!Encode(i, s[i].tag, s[i].len)[j]
    BY <1>2, <1>7
  <2> QED
    BY <2>2, <2>4, <2>5
<1>8. \A i \in k + 1 .. n : \A j \in 1 .. 3 + s[i].len :
        Coming(x, 0, w1, v[i - 1] - v[k] + j) = Frames!Encode(i, s[i].tag, s[i].len)[j]
  BY <1>6, <1>7
<1> QED
  BY <1>1, <1>4, <1>8 DEF Carries

\* next() has used up one frame more.
LEMMA CarriesUsed ==
    ASSUME NEW n \in Nat, NEW s \in Seq(SentFrame), Len(s) = n, NEW k \in 0 .. n, k < n,
           NEW l \in Nat, s[k + 1].len = l, NEW w, Len(w) \in Nat,
           NEW b \in Seq(Nat), NEW h \in Nat, h + 3 + l <= Len(b), Carries(s, w, b, h, k)
    PROVE  Carries(s, w, b, h + (3 + l), k + 1)
<1>1. PICK v \in [0 .. n -> Nat] :
        v = Frames!Ends(s) /\ \A a \in 1 .. n : v[a] = v[a - 1] + 3 + s[a].len
  BY EndsAre
<1>2. /\ Len(b) - h + Len(w) = v[n] - v[k]
      /\ \A i \in k + 1 .. n : \A j \in 1 .. 3 + s[i].len :
            Coming(b, h, w, v[i - 1] - v[k] + j) = Frames!Encode(i, s[i].tag, s[i].len)[j]
  BY <1>1 DEF Carries
<1>3. PICK o \in Nat, m \in Nat : o = Len(b) /\ m = Len(w) /\ h + 3 + l <= o
  OBVIOUS
<1>4. v[k + 1] = v[k] + 3 + l
  <2>1. PICK i \in 1 .. n : i = k + 1 /\ i - 1 = k
    OBVIOUS
  <2>2. v[i] = v[i - 1] + 3 + s[i].len
    BY <1>1
  <2> QED
    BY <2>1, <2>2
<1>5. PICK p0 \in Nat, p1 \in Nat, p2 \in Nat :
        p0 = v[k] /\ p1 = v[k + 1] /\ p2 = v[n] /\ p1 = p0 + 3 + l
  <2>1. k \in 0 .. n /\ k + 1 \in 0 .. n /\ n \in 0 .. n
    OBVIOUS
  <2> QED
    BY <1>4, <2>1
<1>6. Len(b) - (h + (3 + l)) + Len(w) = v[n] - v[k + 1]
  <2>1. o - h + m = p2 - p0
    BY <1>2, <1>3, <1>5
  <2>2. o - (h + (3 + l)) + m = p2 - p1
    <3>1. o \in Nat /\ m \in Nat /\ l \in Nat /\ h \in Nat /\ p0 \in Nat /\ p2 \in Nat
      OBVIOUS
    <3>2. p1 = p0 + 3 + l
      BY <1>5
    <3> QED
      BY ONLY <2>1, <3>1, <3>2
  <2> QED
    BY <1>3, <1>5, <2>2
<1>7. \A i \in k + 1 .. n : s[i].len \in Nat
  <2>1. \A i \in 1 .. n : s[i] \in SentFrame
    BY ElementOfSeq
  <2>2. \A i \in k + 1 .. n : i \in 1 .. n
    OBVIOUS
  <2> QED
    BY <2>1, <2>2 DEF SentFrame
<1>8. ASSUME NEW p \in Nat
      PROVE  Coming(b, h + (3 + l), w, p) = Coming(b, h, w, (3 + l) + p)
  <2>1. /\ p <= o - (h + (3 + l)) <=> (3 + l) + p <= o - h
        /\ h + (3 + l) + p = h + ((3 + l) + p)
        /\ p - (o - (h + (3 + l))) = (3 + l) + p - (o - h)
    BY ONLY o \in Nat, h \in Nat, l \in Nat, p \in Nat
  <2>2. Coming(b, h + (3 + l), w, p)
          = IF p <= Len(b) - (h + (3 + l)) THEN b[h + (3 + l) + p]
            ELSE w[p - (Len(b) - (h + (3 + l)))]
    BY DEF Coming
  <2>3. Coming(b, h, w, (3 + l) + p)
          = IF (3 + l) + p <= Len(b) - h THEN b[h + ((3 + l) + p)]
            ELSE w[(3 + l) + p - (Len(b) - h)]
    BY DEF Coming
  <2>4. o = Len(b)
    BY <1>3
  <2> QED
    BY ONLY <2>1, <2>2, <2>3, <2>4
<1>9. ASSUME NEW i \in k + 1 + 1 .. n, NEW y \in Nat, y = s[i].len, NEW j \in 1 .. 3 + y
      PROVE  Coming(b, h + (3 + l), w, v[i - 1] - v[k + 1] + j)
               = Frames!Encode(i, s[i].tag, s[i].len)[j]
  <2>1. i \in k + 1 .. n /\ k + 1 \in 0 .. n
    OBVIOUS
  <2>2. v[i - 1] - v[k + 1] + j \in 1 .. v[n] - v[k + 1]
    BY <1>1, <1>9, <2>1, WithinStream
  <2>3. PICK p \in Nat : p = v[i - 1] - v[k + 1] + j
    BY <1>5, <2>2
  <2>4. (3 + l) + p = v[i - 1] - v[k] + j
    <3>1. PICK p3 \in Nat : p3 = v[i - 1]
      <4>1. n \in Nat /\ k \in 0 .. n /\ i \in k + 1 .. n
        BY <2>1
      <4>2. i - 1 \in 0 .. n
        BY ONLY <4>1
      <4>3. v[i - 1] \in Nat
        BY <4>2
      <4> QED
        BY <4>3
    <3>2. p = p3 - p1 + j
      BY <1>5, <2>3, <3>1
    <3>3. p1 = p0 + 3 + l
      BY <1>5
    <3>4. (3 + l) + p = p3 - p0 + j
      <4>1. p0 \in Nat /\ p3 \in Nat /\ l \in Nat /\ j \in Int
        BY <1>9
      <4> QED
        BY ONLY <3>2, <3>3, <4>1
    <3> QED
      BY <1>5, <3>1, <3>4
  <2>5. Coming(b, h, w, v[i - 1] - v[k] + j) = Frames!Encode(i, s[i].tag, s[i].len)[j]
    BY <1>2, <1>9, <2>1
  <2>6. Coming(b, h + (3 + l), w, p) = Coming(b, h, w, (3 + l) + p)
    BY <1>8
  <2> QED
    BY <2>3, <2>4, <2>5, <2>6
<1>10. \A i \in k + 1 + 1 .. n : i \in k + 1 .. n
  OBVIOUS
<1>11. \A i \in k + 1 + 1 .. n : \A j \in 1 .. 3 + s[i].len :
        Coming(b, h + (3 + l), w, v[i - 1] - v[k + 1] + j)
          = Frames!Encode(i, s[i].tag, s[i].len)[j]
  BY <1>7, <1>9, <1>10
<1> QED
  BY <1>1, <1>6, <1>11 DEF Carries

-----------------------------------------------------------------------------
LEMMA FramesStart == Frames!Init => FramesInv
<1> SUFFICES ASSUME Frames!Init PROVE FramesInv
  OBVIOUS
<1>1. /\ sent = << >> /\ wire = << >> /\ buf = << >> /\ head = 0
      /\ draining = FALSE /\ failed = FALSE /\ got = << >>
  BY DEF Frames!Init
<1>2. FramesType
  <2>1. << >> \in Seq(SentFrame) /\ << >> \in Seq(Nat) /\ 0 \in Nat /\ 0 <= Len(<< >>)
    BY EmptySeq
  <2> QED
    BY <1>1, <2>1, Zenon DEF FramesType
<1>3. Len(sent) = 0 /\ Len(buf) = 0 /\ Len(wire) = 0
  BY <1>1
<1>4. Frames!Ends(sent)[0] = 0 /\ Frames!Returned(sent)[0] = << >>
  BY <1>2, EndsAre, ReturnedAre DEF FramesType
<1>5. InStep(0)
  <2>1. Carries(sent, wire, buf, head, 0)
    BY <1>1, <1>3, <1>4 DEF Carries
  <2> QED
    BY <1>1, <1>4, <2>1 DEF InStep, Frames!Known
<1>6. AtRest(0)
  BY <1>1, <1>3, FramingAssumption DEF AtRest, Held
<1> QED
  BY <1>2, <1>3, <1>5, <1>6, FramingAssumption DEF FramesInv

\* Before frames have been read, none has been: all that was written is there.
LEMMA NothingBehind ==
    ASSUME FramesType, InStep(Len(sent)) PROVE Held = 0
<1>1. PICK n \in Nat, m \in Nat : n = Len(sent) /\ m = Len(wire)
  BY DEF FramesType
<1>2. Held \in Nat
  BY AvailIs
<1>3. Frames!Ends(sent)[n] \in Nat
  <2>1. n \in 0 .. n
    OBVIOUS
  <2>2. Frames!Ends(sent) \in [0 .. n -> Nat]
    BY <1>1, EndsAre DEF FramesType
  <2> QED
    BY <2>1, <2>2
<1>4. Held + m = Frames!Ends(sent)[n] - Frames!Ends(sent)[n]
  BY <1>1 DEF InStep, Carries, Held
<1> QED
  BY <1>2, <1>3, <1>4

LEMMA FramesSend ==
    ASSUME FramesInv, NEW tag \in Frames!Tags, NEW len \in Nat, Frames!Send(tag, len)
    PROVE  FramesInv'
<1>1. PICK k \in 0 .. Len(sent) : InStep(k) /\ AtRest(k)
  BY DEF FramesInv
<1>2. FramesType
  BY DEF FramesInv
<1>3. PICK n \in Nat, m \in Nat, c \in Nat : n = Len(sent) /\ m = Len(wire) /\ c = Held /\ k \in 0 .. n
  BY <1>2, AvailIs DEF FramesType
<1>4. PICK f \in SentFrame : f = [tag |-> tag, len |-> len] /\ f.tag = tag /\ f.len = len
  <2>1. [tag |-> tag, len |-> len] \in SentFrame
    BY DEF SentFrame
  <2>2. [tag |-> tag, len |-> len].tag = tag /\ [tag |-> tag, len |-> len].len = len
    OBVIOUS
  <2> QED
    BY <2>1, <2>2, Zenon
<1>5. PICK e \in Seq(Nat) : e = Frames!Encode(n + 1, tag, len) /\ Len(e) = 3 + len
  <2>1. n + 1 \in Nat
    OBVIOUS
  <2>2. IsEncoded(Frames!Encode(n + 1, tag, len), n + 1, tag, len)
    BY <2>1, EncodeIs
  <2> QED
    BY <2>2 DEF IsEncoded
<1>6. /\ sent' = Append(sent, f) /\ wire' = wire \o e
      /\ buf' = buf /\ head' = head /\ draining' = draining /\ failed' = failed /\ got' = got
  BY <1>3, <1>4, <1>5 DEF Frames!Send
<1>7. IsLonger(sent', sent, n) /\ sent'[n + 1] = f
  <2>1. /\ Append(sent, f) \in Seq(SentFrame) /\ Len(Append(sent, f)) = n + 1
        /\ \A i \in 1 .. n : Append(sent, f)[i] = sent[i]
        /\ Append(sent, f)[n + 1] = f
    BY <1>2, <1>3, AppendProperties DEF FramesType
  <2> QED
    BY <1>2, <1>3, <1>6, <2>1, Zenon DEF IsLonger, FramesType
<1>8. IsJoined(wire', wire, e, m, 3 + len)
  <2>1. IsJoined(wire \o e, wire, e, m, Len(e))
    BY <1>2, <1>3, JoinedIs DEF FramesType
  <2> QED
    BY <1>5, <1>6, <2>1
<1>9. FramesType'
  <2>1. sent' \in Seq(SentFrame) /\ wire' \in Seq(Nat)
    BY <1>7, <1>8 DEF IsLonger, IsJoined
  <2> QED
    BY <1>2, <1>6, <2>1 DEF FramesType
<1>10. Carries(sent', wire', buf, head, k)
  <2>1. IsLast(e, sent', n, len)
    BY <1>4, <1>5, <1>7 DEF IsLast
  <2>2. HasLeft(buf, head, c)
    BY <1>3 DEF HasLeft, Held
  <2>3. Carries(sent, wire, buf, head, k)
    BY <1>1 DEF InStep
  <2> QED
    <3>1. n \in Nat /\ m \in Nat /\ len \in Nat /\ c \in Nat /\ k \in 0 .. n
      BY <1>3
    <3> QED
      BY ONLY <3>1, <1>7, <1>8, <2>1, <2>2, <2>3, CarriesSent, ZenonT(60)
<1>11. InStep(k)'
  <2>1. Frames!Returned(sent')[k] = Frames!Returned(sent)[k]
    <3>1. /\ sent \in Seq(SentFrame) /\ sent' \in Seq(SentFrame) /\ Len(sent) <= Len(sent')
          /\ \A i \in 1 .. Len(sent) : sent'[i] = sent[i]
      BY <1>7 DEF IsLonger
    <3> QED
      BY <3>1, ReturnedStay
  <2>2. \A i \in 1 .. k : sent'[i] = sent[i]
    BY <1>3, <1>7 DEF IsLonger
  <2>3. got = Frames!Known(k) /\ \A i \in 1 .. k : sent[i].len <= MaxFrameLen
    BY <1>1 DEF InStep
  <2>4. got' = Frames!Known(k)'
    BY <1>6, <2>1, <2>3 DEF Frames!Known
  <2>5. \A i \in 1 .. k : sent'[i].len <= MaxFrameLen
    BY <2>2, <2>3
  <2> QED
    BY <1>6, <1>10, <2>4, <2>5 DEF InStep
<1>12. AtRest(k)'
  <2>1. Held' = Held /\ Len(sent') = n + 1
    BY <1>6, <1>7 DEF Held, IsLonger
  <2>2. CASE k = n
    <3>1. Held = 0
      BY <1>1, <1>2, <1>3, <2>2, NothingBehind
    <3> QED
      BY <1>1, <1>6, <2>1, <3>1, FramingAssumption DEF AtRest
  <2>3. CASE k # n
    <3>1. k < Len(sent) /\ k < Len(sent') /\ sent'[k + 1] = sent[k + 1]
      <4>1. k + 1 \in 1 .. n /\ k < n /\ k < n + 1
        BY <1>3, <2>3
      <4> QED
        BY <1>3, <1>7, <2>1, <4>1 DEF IsLonger
    <3> QED
      BY <1>1, <1>6, <2>1, <3>1 DEF AtRest
  <2> QED
    BY <2>2, <2>3
<1>13. k \in 0 .. Len(sent')
  BY <1>3, <1>7 DEF IsLonger
<1>14. Len(buf') < 3 + MaxFrameLen + MaxRead
  BY <1>6 DEF FramesInv
<1>15. \E i \in 0 .. Len(sent') : InStep(i)' /\ AtRest(i)'
  BY <1>11, <1>12, <1>13
<1> QED
  BY <1>9, <1>14, <1>15 DEF FramesInv

LEMMA FramesRead ==
    ASSUME FramesInv, NEW q \in 1 .. MaxRead, Frames!ReadFrom(q)
    PROVE  FramesInv'
<1>1. PICK k \in 0 .. Len(sent) : InStep(k) /\ AtRest(k)
  BY DEF FramesInv
<1>2. FramesType
  BY DEF FramesInv
<1>3. PICK n \in Nat, m \in Nat, c \in Nat, r \in Nat, l \in Nat :
        /\ n = Len(sent) /\ m = Len(wire) /\ c = Held /\ k \in 0 .. n
        /\ r = MaxRead /\ l = MaxFrameLen
  BY <1>2, AvailIs, FramingAssumption DEF FramesType
<1>4. q \in Nat /\ q <= m /\ q <= r /\ draining = FALSE /\ failed = FALSE
  BY <1>2, <1>3 DEF Frames!ReadFrom, FramesType
<1>5. PICK x, w1 :
        /\ x = SubSeq(buf, head + 1, Len(buf)) \o SubSeq(wire, 1, q)
        /\ w1 = SubSeq(wire, q + 1, Len(wire))
  OBVIOUS
<1>6. /\ buf' = x /\ wire' = w1 /\ head' = 0 /\ draining' = TRUE
      /\ sent' = sent /\ failed' = failed /\ got' = got
  BY <1>2, <1>5 DEF Frames!ReadFrom, Frames!Used, FramesType
<1>7. IsFed(x, w1, buf, head, wire, c, m, q)
  BY <1>2, <1>3, <1>4, <1>5, FedIs DEF FramesType, Held
<1>8. Carries(sent, w1, x, 0, k)
  <2>1. HasLeft(buf, head, c)
    BY <1>3 DEF HasLeft, Held
  <2>2. Carries(sent, wire, buf, head, k) /\ sent \in Seq(SentFrame)
    BY <1>1, <1>2 DEF InStep, FramesType
  <2> QED
    BY <1>3, <1>4, <1>7, <2>1, <2>2, CarriesRead
<1>9. FramesType' /\ Len(buf') = c + q
  <2>1. x \in Seq(Nat) /\ w1 \in Seq(Nat) /\ Len(x) = c + q
    BY <1>7 DEF IsFed
  <2> QED
    BY <1>2, <1>4, <1>6, <2>1 DEF FramesType
<1>10. Len(buf') < 3 + MaxFrameLen + MaxRead
  <2>1. c < 3 + l
    BY <1>1, <1>3, <1>4 DEF AtRest
  <2> QED
    BY <1>3, <1>4, <1>9, <2>1
<1>11. InStep(k)'
  BY <1>1, <1>6, <1>8 DEF InStep, Frames!Known
<1>12. AtRest(k)'
  BY <1>4, <1>6 DEF AtRest
<1>13. \E i \in 0 .. Len(sent') : InStep(i)' /\ AtRest(i)'
  BY <1>6, <1>11, <1>12
<1> QED
  BY <1>9, <1>10, <1>13 DEF FramesInv

LEMMA FramesNone ==
    ASSUME FramesInv, Frames!NextNone PROVE FramesInv'
<1>1. PICK k \in 0 .. Len(sent) : InStep(k) /\ AtRest(k)
  BY DEF FramesInv
<1>2. FramesType
  BY DEF FramesInv
<1>3. /\ draining = TRUE /\ draining' = FALSE /\ failed = FALSE
      /\ sent' = sent /\ wire' = wire /\ buf' = buf /\ head' = head
      /\ failed' = failed /\ got' = got
  BY <1>1, <1>2 DEF Frames!NextNone, AtRest, FramesType
<1>4. Held \in Nat /\ Len(Frames!Avail) = Held /\ Held' = Held
  BY <1>2, <1>3, AvailIs DEF Held
<1>5. AtRest(k)'
  <2>1. CASE Held < 3
    BY <1>3, <1>4, <2>1, FramingAssumption DEF AtRest
  <2>2. CASE Held >= 3
    <3>1. k < Len(sent) /\ Frames!DecodeLen(Frames!Avail) = sent[k + 1].len
      BY <1>1, <1>2, <2>2, Following
    <3>2. ~ Frames!TooLong(sent[k + 1].len) /\ ~ Frames!HasFrame(Frames!Avail)
      BY <1>4, <2>2, <3>1 DEF Frames!NextNone, Frames!HasHeader, Frames!HeaderLen
    <3>3. PICK l \in Nat : l = sent[k + 1].len
      <4>1. k + 1 \in 1 .. Len(sent)
        BY <1>2, <3>1 DEF FramesType
      <4>2. sent[k + 1] \in SentFrame
        BY <1>2, <4>1, ElementOfSeq DEF FramesType
      <4> QED
        BY <4>2 DEF SentFrame
    <3>4. l <= MaxFrameLen /\ Held < 3 + l
      BY <1>4, <3>1, <3>2, <3>3, FramingAssumption
         DEF Frames!TooLong, Frames!HasFrame, Frames!HeaderLen
    <3>5. Held < 3 + MaxFrameLen
      BY <1>4, <3>4, FramingAssumption
    <3> QED
      BY <1>3, <1>4, <3>1, <3>3, <3>4, <3>5 DEF AtRest
  <2> QED
    BY <1>4, <2>1, <2>2
<1>6. InStep(k)'
  BY <1>1, <1>3 DEF InStep, Frames!Known
<1>7. FramesType'
  BY <1>2, <1>3 DEF FramesType
<1>8. Len(buf') < 3 + MaxFrameLen + MaxRead
  BY <1>3 DEF FramesInv
<1>9. \E i \in 0 .. Len(sent') : InStep(i)' /\ AtRest(i)'
  BY <1>3, <1>5, <1>6
<1> QED
  BY <1>7, <1>8, <1>9 DEF FramesInv

LEMMA FramesError ==
    ASSUME FramesInv, Frames!NextError PROVE FramesInv'
<1>1. PICK k \in 0 .. Len(sent) : InStep(k) /\ AtRest(k)
  BY DEF FramesInv
<1>2. FramesType
  BY DEF FramesInv
<1>3. /\ draining = TRUE /\ draining' = FALSE /\ failed' = TRUE
      /\ sent' = sent /\ wire' = wire /\ buf' = buf /\ head' = head /\ got' = got
  BY <1>2 DEF Frames!NextError, FramesType
<1>4. Held \in Nat /\ Len(Frames!Avail) = Held /\ Held' = Held
  BY <1>2, <1>3, AvailIs DEF Held
<1>5. AtRest(k)'
  <2>1. Held >= 3
    BY <1>4 DEF Frames!NextError, Frames!HasHeader, Frames!HeaderLen
  <2>2. k < Len(sent) /\ Frames!DecodeLen(Frames!Avail) = sent[k + 1].len
    BY <1>1, <1>2, <2>1, Following
  <2>3. sent[k + 1].len > MaxFrameLen
    BY <2>2 DEF Frames!NextError, Frames!TooLong
  <2> QED
    BY <1>3, <1>4, <2>1, <2>2, <2>3 DEF AtRest
<1>6. InStep(k)'
  BY <1>1, <1>3 DEF InStep, Frames!Known
<1>7. FramesType'
  BY <1>2, <1>3 DEF FramesType
<1>8. Len(buf') < 3 + MaxFrameLen + MaxRead
  BY <1>3 DEF FramesInv
<1>9. \E i \in 0 .. Len(sent') : InStep(i)' /\ AtRest(i)'
  BY <1>3, <1>5, <1>6
<1> QED
  BY <1>7, <1>8, <1>9 DEF FramesInv

LEMMA FramesFrame ==
    ASSUME FramesInv, Frames!NextFrame PROVE FramesInv'
<1>1. PICK k \in 0 .. Len(sent) : InStep(k) /\ AtRest(k)
  BY DEF FramesInv
<1>2. FramesType
  BY DEF FramesInv
<1>3. /\ draining = TRUE /\ draining' = TRUE /\ failed = FALSE /\ failed' = FALSE
      /\ sent' = sent /\ wire' = wire /\ buf' = buf
  BY <1>1, <1>2 DEF Frames!NextFrame, AtRest, FramesType
<1>4. Held \in Nat /\ Len(Frames!Avail) = Held
  BY <1>2, AvailIs
<1>5. Held >= 3
  BY <1>4 DEF Frames!NextFrame, Frames!HasHeader, Frames!HeaderLen
<1>6. PICK n \in Nat : n = Len(sent) /\ k \in 0 .. n
  BY <1>2 DEF FramesType
<1>7. /\ k < n
      /\ Frames!Avail[1] = sent[k + 1].tag
      /\ Frames!DecodeLen(Frames!Avail) = sent[k + 1].len
      /\ Held >= 3 + sent[k + 1].len =>
            SubSeq(Frames!Avail, 4, 3 + sent[k + 1].len) = [j \in 1 .. sent[k + 1].len |-> k + 1]
  BY <1>1, <1>2, <1>5, <1>6, Following
<1>8. k + 1 \in 1 .. n /\ k + 1 \in 0 .. n /\ k + 1 - 1 = k
  BY <1>6, <1>7
<1>9. PICK f \in SentFrame : f = sent[k + 1]
  BY <1>2, <1>6, <1>8, ElementOfSeq DEF FramesType
<1>10. PICK l \in Nat : l = f.len
  BY <1>9 DEF SentFrame
<1>11. l <= MaxFrameLen /\ Held >= 3 + l
  BY <1>4, <1>7, <1>9, <1>10, FramingAssumption
     DEF Frames!NextFrame, Frames!TooLong, Frames!HasFrame, Frames!HeaderLen
<1>12. head' = head + (3 + l)
  BY <1>7, <1>9, <1>10 DEF Frames!NextFrame, Frames!HeaderLen
<1>13. got' = IF Frames!IsKnown(f.tag) THEN Append(got, GotOf(f, k + 1)) ELSE got
  <2>1. SubSeq(Frames!Avail, 4, 3 + l) = [j \in 1 .. l |-> k + 1]
    BY <1>7, <1>9, <1>10, <1>11
  <2>2. 3 + 1 = 4
    OBVIOUS
  <2>3. got' = IF Frames!IsKnown(f.tag)
               THEN Append(got, [tag |-> f.tag, payload |-> SubSeq(Frames!Avail, 4, 3 + l)])
               ELSE got
    BY <1>7, <1>9, <1>10, <2>2 DEF Frames!NextFrame, Frames!HeaderLen
  <2> QED
    BY <1>10, <2>1, <2>3 DEF GotOf
<1>14. PICK o \in Nat, h \in Nat : o = Len(buf) /\ h = head /\ h <= o /\ o - h = Held
  BY <1>2 DEF FramesType, Held
<1>15. h + (3 + l) <= o
  BY <1>11, <1>14
<1>16. FramesType'
  <2>1. head' \in Nat /\ head' <= Len(buf)
    BY <1>12, <1>14, <1>15
  <2> QED
    BY <1>2, <1>3, <2>1 DEF FramesType
<1>17. InStep(k + 1)'
  <2>1. Carries(sent, wire, buf, head + (3 + l), k + 1)
    <3>1. Carries(sent, wire, buf, head, k) /\ sent \in Seq(SentFrame) /\ Len(sent) = n
      BY <1>1, <1>2, <1>6 DEF InStep, FramesType
    <3>2. buf \in Seq(Nat) /\ head \in Nat /\ Len(wire) \in Nat /\ head + 3 + l <= Len(buf)
      BY <1>2, <1>14, <1>15 DEF FramesType
    <3>3. sent[k + 1].len = l
      BY <1>9, <1>10
    <3> QED
      BY <1>6, <1>7, <3>1, <3>2, <3>3, CarriesUsed
  <2>2. got' = Frames!Returned(sent)[k + 1]
    <3>1. got = Frames!Returned(sent)[k]
      BY <1>1 DEF InStep, Frames!Known
    <3>2. Frames!Returned(sent)[k + 1] =
            IF Frames!IsKnown(f.tag)
            THEN Append(Frames!Returned(sent)[k], GotOf(f, k + 1))
            ELSE Frames!Returned(sent)[k]
      <4>1. PICK i \in 1 .. Len(sent) : i = k + 1 /\ i - 1 = k /\ sent[i] = f
        BY <1>6, <1>8, <1>9
      <4>2. Frames!Returned(sent)[i] =
              IF Frames!IsKnown(sent[i].tag)
              THEN Append(Frames!Returned(sent)[i - 1], GotOf(sent[i], i))
              ELSE Frames!Returned(sent)[i - 1]
        BY <1>2, ReturnedAre DEF FramesType
      <4> QED
        BY <4>1, <4>2, Zenon
    <3> QED
      BY <1>13, <3>1, <3>2
  <2>3. \A i \in 1 .. k + 1 : sent[i].len <= MaxFrameLen
    <3>1. \A i \in 1 .. k : sent[i].len <= MaxFrameLen
      BY <1>1 DEF InStep
    <3>2. sent[k + 1].len <= MaxFrameLen
      BY <1>9, <1>10, <1>11
    <3>3. \A i \in 1 .. k + 1 : i = k + 1 \/ i \in 1 .. k
      BY <1>6
    <3> QED
      BY <3>1, <3>2, <3>3
  <2> QED
    BY <1>3, <1>12, <2>1, <2>2, <2>3 DEF InStep, Frames!Known
<1>18. AtRest(k + 1)'
  BY <1>3 DEF AtRest
<1>19. Len(buf') < 3 + MaxFrameLen + MaxRead
  BY <1>3 DEF FramesInv
<1>20. \E i \in 0 .. Len(sent') : InStep(i)' /\ AtRest(i)'
  BY <1>3, <1>6, <1>8, <1>17, <1>18
<1> QED
  BY <1>16, <1>19, <1>20 DEF FramesInv

-----------------------------------------------------------------------------
\* The bytes read are the frames used up and what is held of the next.
LEMMA ReadSoFar ==
    ASSUME FramesType, NEW k \in 0 .. Len(sent), InStep(k)
    PROVE  Frames!BytesRead = Frames!Ends(sent)[k] + Held
<1>1. PICK n \in Nat, m \in Nat, c \in Nat : n = Len(sent) /\ m = Len(wire) /\ c = Held
  BY AvailIs DEF FramesType
<1>2. Frames!Ends(sent) \in [0 .. n -> Nat] /\ n \in 0 .. n /\ k \in 0 .. n
  BY <1>1, EndsAre DEF FramesType
<1>3. PICK p0 \in Nat, p1 \in Nat : p0 = Frames!Ends(sent)[k] /\ p1 = Frames!Ends(sent)[n]
  BY <1>2
<1>4. c + m = p1 - p0
  BY <1>1, <1>3 DEF InStep, Carries, Held
<1>5. Frames!BytesRead = p1 - m
  BY <1>1, <1>3 DEF Frames!BytesRead, Frames!Written
<1>6. p1 - m = p0 + c
  BY ONLY <1>4, p0 \in Nat, p1 \in Nat, c \in Nat, m \in Nat
<1> QED
  BY <1>1, <1>3, <1>5, <1>6

\* A reader at rest has used up exactly the frames that arrived whole.
LEMMA WholeIsUsed ==
    ASSUME FramesType, NEW k \in 0 .. Len(sent), InStep(k), AtRest(k), ~ draining
    PROVE  Frames!Whole = k
<1>1. PICK n \in Nat, c \in Nat : n = Len(sent) /\ c = Held /\ k \in 0 .. n
  BY AvailIs DEF FramesType
<1>2. PICK v \in [0 .. n -> Nat] :
        v = Frames!Ends(sent) /\ \A a \in 1 .. n : v[a] = v[a - 1] + 3 + sent[a].len
  BY <1>1, EndsAre DEF FramesType
<1>3. PICK p \in Nat : p = Frames!BytesRead /\ p = v[k] + c
  BY <1>1, <1>2, ReadSoFar
<1> DEFINE P(x) == /\ \A i \in 1 .. x : v[i] <= p /\ sent[i].len <= MaxFrameLen
                   /\ x = n \/ v[x + 1] > p \/ sent[x + 1].len > MaxFrameLen
<1>4. Frames!Whole = CHOOSE x \in 0 .. n : P(x)
  BY <1>1, <1>2, <1>3, Zenon DEF Frames!Whole, Frames!Written
<1>5. P(k)
  <2>1. \A i \in 1 .. k : v[i] <= p /\ sent[i].len <= MaxFrameLen
    <3> TAKE i \in 1 .. k
    <3>1. i \in 0 .. n /\ i <= k
      BY <1>1
    <3>2. v[i] <= v[k]
      BY <1>1, <1>2, <3>1, EndsGrow DEF FramesType
    <3>3. v[i] \in Nat /\ v[k] \in Nat
      BY <1>1, <3>1
    <3>4. v[i] <= p
      BY <1>3, <3>2, <3>3
    <3> QED
      BY <3>4 DEF InStep
  <2>2. k = n \/ v[k + 1] > p \/ sent[k + 1].len > MaxFrameLen
    <3> SUFFICES ASSUME k # n, ~ (sent[k + 1].len > MaxFrameLen) PROVE v[k + 1] > p
      OBVIOUS
    <3>1. k + 1 \in 1 .. n /\ k + 1 - 1 = k /\ k < n
      BY <1>1
    <3>2. PICK l \in Nat : l = sent[k + 1].len
      <4>1. sent[k + 1] \in SentFrame
        BY <1>1, <3>1, ElementOfSeq DEF FramesType
      <4> QED
        BY <4>1 DEF SentFrame
    <3>3. v[k + 1] = v[k] + 3 + l /\ v[k] \in Nat
      <4>1. PICK a \in 1 .. n : a = k + 1 /\ a - 1 = k
        BY <3>1
      <4>2. v[a] = v[a - 1] + 3 + sent[a].len
        BY <1>2
      <4> QED
        BY <1>1, <3>2, <4>1, <4>2
    <3>4. ~ failed
      BY DEF AtRest
    <3>5. c < 3 \/ c < 3 + l
      BY <1>1, <3>1, <3>2, <3>4 DEF AtRest
    <3>6. c < 3 + l
      <4>1. c \in Nat /\ l \in Nat
        OBVIOUS
      <4> QED
        BY ONLY <3>5, <4>1
    <3>7. p = v[k] + c /\ c \in Nat /\ l \in Nat /\ v[k + 1] \in Nat
      BY <1>3, <3>1
    <3> QED
      BY <3>3, <3>6, <3>7, PastFrame, Zenon
  <2> QED
    BY <2>1, <2>2
<1>6. \A x, y \in 0 .. n : P(x) /\ P(y) => ~ (x < y)
  <2> SUFFICES ASSUME NEW x \in 0 .. n, NEW y \in 0 .. n, P(x), P(y), x < y PROVE FALSE
    OBVIOUS
  <2>1. x + 1 \in 1 .. y /\ x # n /\ x + 1 \in 0 .. n /\ x + 1 \in 1 .. n
    OBVIOUS
  <2>2. v[x + 1] <= p /\ sent[x + 1].len <= MaxFrameLen
    BY <2>1
  <2>3. v[x + 1] \in Nat
    BY <2>1
  <2>4. sent[x + 1].len \in Nat
    <3>1. sent[x + 1] \in SentFrame
      BY <1>1, <2>1, ElementOfSeq DEF FramesType
    <3> QED
      BY <3>1 DEF SentFrame
  <2>5. v[x + 1] > p \/ sent[x + 1].len > MaxFrameLen
    BY <2>1
  <2> QED
    BY <2>2, <2>3, <2>4, <2>5, FramingAssumption
<1> HIDE DEF P
<1>7. \A x \in 0 .. n : P(x) => x = k
  <2> SUFFICES ASSUME NEW x \in 0 .. n, P(x) PROVE x = k
    OBVIOUS
  <2>1. ~ (x < k) /\ ~ (k < x)
    BY <1>1, <1>5, <1>6
  <2> QED
    BY <1>1, <2>1
<1> QED
  BY <1>1, <1>4, <1>5, <1>7, Zenon

LEMMA OversizeOnly ==
    ASSUME FramesType, NEW k \in 0 .. Len(sent), InStep(k), AtRest(k)
    PROVE  Frames!RefusesOversizeOnly
<1> SUFFICES ASSUME ~ draining
             PROVE  failed <=> \E i \in 1 .. Len(sent) :
                                  /\ sent[i].len > MaxFrameLen
                                  /\ Frames!Written(i) - sent[i].len <= Frames!BytesRead
  BY DEF Frames!RefusesOversizeOnly
<1>1. PICK n \in Nat, c \in Nat : n = Len(sent) /\ c = Held /\ k \in 0 .. n
  BY AvailIs DEF FramesType
<1>2. PICK v \in [0 .. n -> Nat] :
        v = Frames!Ends(sent) /\ \A a \in 1 .. n : v[a] = v[a - 1] + 3 + sent[a].len
  BY <1>1, EndsAre DEF FramesType
<1>3. PICK p \in Nat : p = Frames!BytesRead /\ p = v[k] + c
  BY <1>1, <1>2, ReadSoFar
<1>4. \A i \in 1 .. n : sent[i].len \in Nat /\ v[i - 1] \in Nat /\ v[i] \in Nat
                        /\ v[i] = v[i - 1] + 3 + sent[i].len
  <2> TAKE i \in 1 .. n
  <2>1. sent[i] \in SentFrame
    BY <1>1, ElementOfSeq DEF FramesType
  <2>2. i - 1 \in 0 .. n /\ i \in 0 .. n
    OBVIOUS
  <2> QED
    BY <1>2, <2>1, <2>2 DEF SentFrame
<1>5. ASSUME NEW i \in 1 .. n
      PROVE  Frames!Written(i) - sent[i].len <= Frames!BytesRead <=> v[i - 1] + 3 <= p
  <2>1. PICK p0 \in Nat, p1 \in Nat, l \in Nat :
          p0 = v[i - 1] /\ p1 = v[i] /\ l = sent[i].len /\ p1 = p0 + 3 + l
    BY <1>4
  <2>2. Frames!Written(i) = p1
    BY <1>2, <2>1 DEF Frames!Written
  <2>3. p1 - l <= p <=> p0 + 3 <= p
    <3>1. p0 \in Nat /\ l \in Nat /\ p \in Nat /\ p1 = p0 + 3 + l
      BY <2>1
    <3> QED
      BY ONLY <3>1
  <2> QED
    BY <1>3, <2>1, <2>2, <2>3, Zenon
<1>6. ASSUME failed
      PROVE  \E i \in 1 .. n : sent[i].len > MaxFrameLen /\ v[i - 1] + 3 <= p
  <2>1. k < n /\ c >= 3 /\ sent[k + 1].len > MaxFrameLen
    BY <1>1, <1>6 DEF AtRest
  <2>2. k + 1 \in 1 .. n /\ k + 1 - 1 = k
    BY <1>1, <2>1
  <2>3. v[k] + 3 <= p
    BY <1>1, <1>3, <2>1
  <2> QED
    BY <2>1, <2>2, <2>3
<1>7. ASSUME NEW i \in 1 .. n, sent[i].len > MaxFrameLen, v[i - 1] + 3 <= p, ~ failed
      PROVE  FALSE
  <2>1. ~ (i \in 1 .. k)
    <3>1. i \in 1 .. k => sent[i].len <= MaxFrameLen
      BY DEF InStep
    <3>2. PICK y \in Nat : y = sent[i].len
      BY <1>4
    <3>3. y > MaxFrameLen /\ MaxFrameLen \in Nat
      BY <1>7, <3>2, FramingAssumption
    <3>4. ~ (y <= MaxFrameLen)
      BY <3>3
    <3> QED
      BY <3>1, <3>2, <3>4, Zenon
  <2>2. k + 1 \in 1 .. n /\ k < n /\ k <= i - 1 /\ k + 1 <= i /\ k + 1 - 1 = k
    BY <1>1, <2>1
  <2>3. i - 1 \in 0 .. n /\ k + 1 \in 0 .. n /\ k \in 0 .. n
    BY <1>1, <2>2
  <2>4. v[k] <= v[i - 1]
    BY <1>1, <1>2, <2>2, <2>3, EndsGrow DEF FramesType
  <2>5. PICK p0 \in Nat, p1 \in Nat, p2 \in Nat, l \in Nat :
          p0 = v[k] /\ p1 = v[i - 1] /\ p2 = v[k + 1] /\ l = sent[k + 1].len /\ p2 = p0 + 3 + l
    <3>1. PICK a \in 1 .. n : a = k + 1 /\ a - 1 = k
      BY <2>2
    <3>2. sent[a].len \in Nat /\ v[a] \in Nat /\ v[a] = v[a - 1] + 3 + sent[a].len
      BY <1>4
    <3>3. v[k] \in Nat /\ v[i - 1] \in Nat
      BY <2>3
    <3> QED
      BY <3>1, <3>2, <3>3
  <2>a. p = p0 + c /\ p1 + 3 <= p /\ p0 <= p1
    BY <1>3, <1>7, <2>4, <2>5, Zenon
  <2>6. c >= 3
    BY <2>a
  <2>7. l <= MaxFrameLen /\ c < 3 + l
    BY <1>1, <1>7, <2>2, <2>5, <2>6 DEF AtRest
  <2>8. i # k + 1
    <3> SUFFICES ASSUME i = k + 1 PROVE FALSE
      OBVIOUS
    <3>1. l > MaxFrameLen
      BY <1>7, <2>5, Zenon
    <3> QED
      BY <2>7, <3>1, FramingAssumption
  <2>9. k + 1 <= i - 1
    BY <1>1, <2>2, <2>8
  <2>10. v[k + 1] <= v[i - 1]
    BY <1>1, <1>2, <2>3, <2>9, EndsGrow DEF FramesType
  <2>11. p2 <= p1 /\ p2 = p0 + 3 + l
    BY <2>5, <2>10, Zenon
  <2> QED
    BY <2>7, <2>a, <2>11
<1> QED
  BY <1>1, <1>5, <1>6, <1>7

LEMMA FramesNext == FramesInv /\ [Frames!Next]_frameVars => FramesInv'
<1> SUFFICES ASSUME FramesInv, [Frames!Next]_frameVars PROVE FramesInv'
  OBVIOUS
<1>1. ASSUME NEW tag \in Frames!Tags, NEW len \in 0 .. LenBase * LenBase - 1, Frames!Send(tag, len)
      PROVE  FramesInv'
  <2>1. len \in Nat
    BY FramingAssumption
  <2> QED
    BY <1>1, <2>1, FramesSend
<1>2. ASSUME NEW n \in 1 .. MaxRead, Frames!ReadFrom(n) PROVE FramesInv'
  BY <1>2, FramesRead
<1>3. CASE Frames!NextNone
  BY <1>3, FramesNone
<1>4. CASE Frames!NextError
  BY <1>4, FramesError
<1>5. CASE Frames!NextFrame
  BY <1>5, FramesFrame
<1>6. CASE UNCHANGED frameVars
  <2>1. /\ sent' = sent /\ wire' = wire /\ buf' = buf /\ head' = head
        /\ draining' = draining /\ failed' = failed /\ got' = got
    BY <1>6 DEF frameVars
  <2>2. FramesType' /\ Held' = Held
    BY <2>1 DEF FramesInv, FramesType, Held
  <2>3. PICK k \in 0 .. Len(sent) : InStep(k) /\ AtRest(k)
    BY DEF FramesInv
  <2>4. InStep(k)' /\ AtRest(k)'
    BY <2>1, <2>2, <2>3 DEF InStep, AtRest, Frames!Known
  <2>5. \E i \in 0 .. Len(sent') : InStep(i)' /\ AtRest(i)'
    BY <2>1, <2>4
  <2> QED
    BY <2>1, <2>2, <2>5 DEF FramesInv
<1> QED
  BY <1>1, <1>2, <1>3, <1>4, <1>5, <1>6 DEF Frames!Next

(***************************************************************************)
(* On every session socket, for every size limit, however the writes and   *)
(* reads are cut: the bytes not used up by FrameBuffer::next and those     *)
(* still in the socket are the encodings of the frames after the k-th, and *)
(* next() has returned the known ones among the first k.                   *)
(***************************************************************************)
THEOREM FramesInvariant == Frames!Spec => []FramesInv
<1>1. Frames!Init => FramesInv
  BY FramesStart
<1>2. FramesInv /\ [Frames!Next]_frameVars => FramesInv'
  BY FramesNext
<1>3. Frames!Spec => Frames!Init /\ [][Frames!Next]_frameVars
  BY DEF Frames!Spec, Frames!vars, frameVars
<1> QED
  BY <1>1, <1>2, <1>3, PTL

(***************************************************************************)
(* FrameBuffer::next returns every frame that has arrived whole, in order  *)
(* and byte for byte; it gives up only on a frame over MAX_FRAME_LEN, and  *)
(* holds no more than one frame and one read.                              *)
(***************************************************************************)
THEOREM FramesAreExact == Frames!Spec => []FramesExact
<1>1. FramesInv => FramesExact
  <2> SUFFICES ASSUME FramesInv PROVE FramesExact
    OBVIOUS
  <2>1. FramesType
    BY DEF FramesInv
  <2>2. PICK k \in 0 .. Len(sent) : InStep(k) /\ AtRest(k)
    BY DEF FramesInv
  <2>3. Frames!FramesExact
    <3> SUFFICES ASSUME ~ draining PROVE got = Frames!Known(Frames!Whole)
      BY DEF Frames!FramesExact
    <3>1. Frames!Whole = k
      BY <2>1, <2>2, WholeIsUsed
    <3>2. got = Frames!Known(k)
      BY <2>2 DEF InStep
    <3> QED
      BY <3>1, <3>2
  <2>4. Frames!RefusesOversizeOnly
    BY <2>1, <2>2, OversizeOnly
  <2>5. Frames!BufferBounded
    BY DEF FramesInv, Frames!BufferBounded, Frames!HeaderLen
  <2> QED
    BY <2>3, <2>4, <2>5 DEF FramesExact
<1> QED
  BY <1>1, FramesInvariant, PTL

-----------------------------------------------------------------------------
(***************************************************************************)
(* The detach key.                                                         *)
(***************************************************************************)
LEMMA PrefixIs ==
    ASSUME NEW q \in Seq(Detach!Bytes), NEW t \in Seq(Detach!Bytes)
    PROVE  Detach!IsPrefix(q, t) <=> Len(q) <= Len(t) /\ \A p \in 1 .. Len(q) : t[p] = q[p]
<1>1. PICK n \in Nat, m \in Nat : n = Len(q) /\ m = Len(t)
  OBVIOUS
<1>2. SUFFICES ASSUME n <= m
               PROVE  SubSeq(q, 1, n) = SubSeq(t, 1, n) <=> \A p \in 1 .. n : t[p] = q[p]
  BY <1>1 DEF Detach!IsPrefix
<1>3. PICK q1 \in Seq(Detach!Bytes) :
        q1 = SubSeq(q, 1, n) /\ Len(q1) = n /\ \A p \in 1 .. n : q1[p] = q[p]
  BY <1>1, FirstAre
<1>4. PICK t1 \in Seq(Detach!Bytes) :
        t1 = SubSeq(t, 1, n) /\ Len(t1) = n /\ \A p \in 1 .. n : t1[p] = t[p]
  <2>1. n \in Nat /\ n <= Len(t)
    BY <1>1, <1>2
  <2>2. /\ SubSeq(t, 1, n) \in Seq(Detach!Bytes) /\ Len(SubSeq(t, 1, n)) = n
        /\ \A p \in 1 .. n : SubSeq(t, 1, n)[p] = t[p]
    BY <2>1, FirstAre
  <2> QED
    BY <2>2, Zenon
<1>5. ASSUME \A p \in 1 .. n : t[p] = q[p] PROVE q1 = t1
  <2>1. \A p \in 1 .. n : q1[p] = t1[p]
    BY <1>3, <1>4, <1>5
  <2> QED
    BY <1>3, <1>4, <2>1, SeqEqual
<1> QED
  BY <1>3, <1>4, <1>5

\* The detach key in one of its kitty encodings stands at position i of d, or
\* would if more followed.
FullAt(d, i) ==
    \E q \in Detach!KittyDetachSeqs :
        Len(q) <= Len(d) - i + 1 /\ \A p \in 1 .. Len(q) : d[i + p - 1] = q[p]

CutAt(d, i) ==
    \E q \in Detach!KittyDetachSeqs :
        Len(d) - i + 1 < Len(q) /\ \A p \in 1 .. Len(d) - i + 1 : d[i + p - 1] = q[p]

KeyAt(d, i) == d[i] = Detach!CtrlBackslash \/ FullAt(d, i)

\* The scan stops here.
StopAt(d, i) == KeyAt(d, i) \/ CutAt(d, i)

LEMMA TuplesAreSeqs ==
    ASSUME NEW S, NEW a \in S, NEW b \in S, NEW c \in S, NEW d \in S
    PROVE  <<a, b, c>> \in Seq(S) /\ <<a, b, c, d>> \in Seq(S)
  OBVIOUS

\* The encodings begin with an escape and have no other in them.
LEMMA KittySeqs ==
    ASSUME NEW q \in Detach!KittyDetachSeqs
    PROVE  /\ q \in Seq(Detach!Bytes) /\ Len(q) \in 3 .. 4 /\ q[1] = "ESC"
           /\ \A p \in 2 .. Len(q) : q[p] \notin {"ESC", "FS"}
<1>1. /\ "ESC" \in Detach!Bytes /\ "[92;5" \in Detach!Bytes
      /\ ":1" \in Detach!Bytes /\ "u" \in Detach!Bytes
  BY DEF Detach!Bytes, Detach!Esc
<1>2. CASE q = <<"ESC", "[92;5", "u">>
  <2>1. q \in Seq(Detach!Bytes)
    BY <1>1, <1>2, TuplesAreSeqs
  <2>2. Len(q) = 3 /\ q[1] = "ESC" /\ q[2] = "[92;5" /\ q[3] = "u"
    BY <1>2
  <2>3. \A p \in 2 .. 3 : p = 2 \/ p = 3
    OBVIOUS
  <2>4. \A p \in 2 .. 3 : q[p] \notin {"ESC", "FS"}
    BY ONLY <2>2, <2>3
  <2>5. 3 \in 3 .. 4
    OBVIOUS
  <2> QED
    BY <2>1, <2>2, <2>4, <2>5, Zenon
<1>3. CASE q = <<"ESC", "[92;5", ":1", "u">>
  <2>1. q \in Seq(Detach!Bytes)
    BY <1>1, <1>3, TuplesAreSeqs
  <2>2. Len(q) = 4 /\ q[1] = "ESC" /\ q[2] = "[92;5" /\ q[3] = ":1" /\ q[4] = "u"
    BY <1>3
  <2>3. \A p \in 2 .. 4 : p = 2 \/ p = 3 \/ p = 4
    OBVIOUS
  <2>4. \A p \in 2 .. 4 : q[p] \notin {"ESC", "FS"}
    BY ONLY <2>2, <2>3
  <2>5. 4 \in 3 .. 4
    OBVIOUS
  <2> QED
    BY <2>1, <2>2, <2>4, <2>5, Zenon
<1> QED
  BY <1>2, <1>3 DEF Detach!KittyDetachSeqs, Detach!Esc

LEMMA TailIs ==
    ASSUME NEW d \in Seq(Detach!Bytes), NEW i \in 1 .. Len(d)
    PROVE  /\ Detach!From(d, i) \in Seq(Detach!Bytes)
           /\ Len(Detach!From(d, i)) = Len(d) - i + 1
           /\ \A p \in 1 .. Len(d) - i + 1 : Detach!From(d, i)[p] = d[i + p - 1]
<1>1. PICK n \in Nat : n = Len(d) /\ i \in 1 .. n
  OBVIOUS
<1>2. i \in Int /\ n \in Int /\ n - i + 1 = (IF i <= n THEN n - i + 1 ELSE 0)
  BY <1>1
<1>3. \A p \in i .. n : d[p] \in Detach!Bytes
  BY <1>1, ElementOfSeq
<1>4. /\ SubSeq(d, i, n) \in Seq(Detach!Bytes)
      /\ Len(SubSeq(d, i, n)) = IF i <= n THEN n - i + 1 ELSE 0
      /\ \A p \in 1 .. n - i + 1 : SubSeq(d, i, n)[p] = d[i + p - 1]
  BY ONLY <1>2, <1>3, SubSeqProperties
<1> QED
  BY <1>1, <1>2, <1>4, Zenon DEF Detach!From

LEMMA StopIs ==
    ASSUME NEW d \in Seq(Detach!Bytes), NEW i \in 1 .. Len(d)
    PROVE  /\ Detach!IsKey(Detach!From(d, i)) <=> KeyAt(d, i)
           /\ Detach!IsPartial(Detach!From(d, i)) <=> ~ FullAt(d, i) /\ CutAt(d, i)
<1>1. PICK n \in Nat, m \in Nat : n = Len(d) /\ m = n - i + 1 /\ m >= 1
  OBVIOUS
<1>2. PICK t \in Seq(Detach!Bytes) :
        t = Detach!From(d, i) /\ Len(t) = m /\ \A p \in 1 .. m : t[p] = d[i + p - 1]
  BY <1>1, TailIs
<1>3. Head(t) = d[i]
  <2>1. 1 \in 1 .. m /\ i + 1 - 1 = i
    BY <1>1
  <2>2. t[1] = d[i]
    BY <1>2, <2>1
  <2> QED
    BY <1>1, <1>2, <2>2
<1>4. Detach!IsFull(t) <=> FullAt(d, i)
  <2>1. ASSUME NEW q \in Detach!KittyDetachSeqs
        PROVE  Detach!IsPrefix(q, t)
                 <=> Len(q) <= m /\ \A p \in 1 .. Len(q) : d[i + p - 1] = q[p]
    <3>1. q \in Seq(Detach!Bytes)
      BY KittySeqs
    <3>2. Detach!IsPrefix(q, t) <=> Len(q) <= m /\ \A p \in 1 .. Len(q) : t[p] = q[p]
      BY <1>2, <3>1, PrefixIs
    <3>3. PICK l \in Nat : l = Len(q)
      BY <3>1
    <3>4. l <= m => \A p \in 1 .. l : t[p] = d[i + p - 1]
      BY <1>2
    <3> QED
      BY <3>2, <3>3, <3>4
  <2> QED
    BY <1>1, <2>1 DEF Detach!IsFull, FullAt
<1>5. (\E q \in Detach!KittyDetachSeqs : Detach!IsStrictPrefix(t, q))
        <=> \E q \in Detach!KittyDetachSeqs :
               m <= Len(q) /\ t # q /\ \A p \in 1 .. m : d[i + p - 1] = q[p]
  <2>1. ASSUME NEW q \in Detach!KittyDetachSeqs
        PROVE  Detach!IsPrefix(t, q) <=> m <= Len(q) /\ \A p \in 1 .. m : d[i + p - 1] = q[p]
    <3>1. q \in Seq(Detach!Bytes)
      BY KittySeqs
    <3>2. Detach!IsPrefix(t, q) <=> m <= Len(q) /\ \A p \in 1 .. m : q[p] = t[p]
      BY <1>2, <3>1, PrefixIs
    <3> QED
      BY <1>2, <3>2
  <2> QED
    BY <2>1 DEF Detach!IsStrictPrefix
<1>6. ASSUME ~ FullAt(d, i), NEW q \in Detach!KittyDetachSeqs,
             \A p \in 1 .. m : d[i + p - 1] = q[p]
      PROVE  m <= Len(q) /\ t # q <=> m < Len(q)
  <2>1. PICK l \in Nat : l = Len(q)
    BY KittySeqs
  <2>2. m # l
    <3> SUFFICES ASSUME m = l PROVE FALSE
      OBVIOUS
    <3>1. Len(q) <= Len(d) - i + 1 /\ \A p \in 1 .. Len(q) : d[i + p - 1] = q[p]
      <4>1. Len(q) = m /\ Len(d) - i + 1 = m /\ m <= m
        <5>1. m <= m
          OBVIOUS
        <5> QED
          BY <1>1, <2>1, <5>1, Zenon
      <4> QED
        BY ONLY <1>6, <4>1
    <3> QED
      BY <1>1, <1>6, <3>1 DEF FullAt
  <2>3. m < l => t # q
    BY <1>2, <2>1
  <2> QED
    BY <2>1, <2>2, <2>3
<1>7. Detach!IsPartial(t) <=> ~ FullAt(d, i) /\ CutAt(d, i)
  BY <1>1, <1>4, <1>5, <1>6 DEF Detach!IsPartial, CutAt
<1> QED
  BY <1>2, <1>3, <1>4, <1>7 DEF Detach!IsKey, KeyAt

\* What follows a position can complete a key there but never undo one, and a
\* place that no more input can turn into a key stays so.
LEMMA Extended ==
    ASSUME NEW x \in Seq(Detach!Bytes), NEW y \in Seq(Detach!Bytes),
           Len(y) <= Len(x), \A p \in 1 .. Len(y) : x[p] = y[p],
           NEW i \in 1 .. Len(y)
    PROVE  (KeyAt(y, i) => KeyAt(x, i)) /\ (StopAt(x, i) => StopAt(y, i))
<1>1. PICK n \in Nat, m \in Nat : n = Len(x) /\ m = Len(y) /\ m <= n /\ i \in 1 .. m
  OBVIOUS
<1>2. \A p \in 1 .. m : x[p] = y[p]
  BY <1>1
<1>3. x[i] = y[i]
  BY <1>1, <1>2
<1>4. FullAt(y, i) => FullAt(x, i)
  <2> SUFFICES ASSUME NEW q \in Detach!KittyDetachSeqs, Len(q) <= m - i + 1,
                      \A p \in 1 .. Len(q) : y[i + p - 1] = q[p]
               PROVE  Len(q) <= n - i + 1 /\ \A p \in 1 .. Len(q) : x[i + p - 1] = q[p]
    BY <1>1 DEF FullAt
  <2>1. PICK l \in Nat : l = Len(q)
    BY KittySeqs
  <2>2. l <= n - i + 1 /\ \A p \in 1 .. l : i + p - 1 \in 1 .. m
    BY <1>1, <2>1
  <2> QED
    BY <1>2, <2>1, <2>2
<1>5. FullAt(x, i) => FullAt(y, i) \/ CutAt(y, i)
  <2> SUFFICES ASSUME NEW q \in Detach!KittyDetachSeqs, Len(q) <= n - i + 1,
                      \A p \in 1 .. Len(q) : x[i + p - 1] = q[p]
               PROVE  \/ Len(q) <= m - i + 1 /\ \A p \in 1 .. Len(q) : y[i + p - 1] = q[p]
                      \/ m - i + 1 < Len(q) /\ \A p \in 1 .. m - i + 1 : y[i + p - 1] = q[p]
    BY <1>1 DEF FullAt, CutAt
  <2>1. PICK l \in Nat : l = Len(q)
    BY KittySeqs
  <2>2. \A p \in 1 .. l : p <= m - i + 1 => y[i + p - 1] = q[p]
    <3> TAKE p \in 1 .. l
    <3> HAVE p <= m - i + 1
    <3>1. i + p - 1 \in 1 .. m
      BY <1>1
    <3> QED
      BY <1>2, <2>1, <3>1
  <2>3. CASE l <= m - i + 1
    BY <2>1, <2>2, <2>3
  <2>4. CASE m - i + 1 < l
    BY <1>1, <2>1, <2>2, <2>4
  <2> QED
    BY <1>1, <2>1, <2>3, <2>4
<1>6. CutAt(x, i) => CutAt(y, i)
  <2> SUFFICES ASSUME NEW q \in Detach!KittyDetachSeqs, n - i + 1 < Len(q),
                      \A p \in 1 .. n - i + 1 : x[i + p - 1] = q[p]
               PROVE  m - i + 1 < Len(q) /\ \A p \in 1 .. m - i + 1 : y[i + p - 1] = q[p]
    BY <1>1 DEF CutAt
  <2>1. PICK l \in Nat : l = Len(q)
    BY KittySeqs
  <2>2. \A p \in 1 .. m - i + 1 : i + p - 1 \in 1 .. m /\ p \in 1 .. n - i + 1
    BY <1>1
  <2> QED
    BY <1>1, <1>2, <2>1, <2>2
<1> QED
  BY <1>3, <1>4, <1>5, <1>6 DEF StopAt, KeyAt

\* Whether a key stands somewhere does not depend on what is before it.
LEMMA Shifted ==
    ASSUME NEW x \in Seq(Detach!Bytes), NEW d \in Seq(Detach!Bytes), NEW c \in Nat,
           Len(x) = c + Len(d), \A p \in 1 .. Len(d) : x[c + p] = d[p],
           NEW i \in 1 .. Len(d)
    PROVE  (KeyAt(x, c + i) <=> KeyAt(d, i)) /\ (CutAt(x, c + i) <=> CutAt(d, i))
<1>1. PICK m \in Nat : m = Len(d) /\ Len(x) = c + m /\ i \in 1 .. m
  OBVIOUS
<1>2. \A p \in 1 .. m : x[c + p] = d[p]
  BY <1>1
<1>3. x[c + i] = d[i]
  BY <1>1, <1>2
<1>4. \A p \in 1 .. m - i + 1 : x[(c + i) + p - 1] = d[i + p - 1]
  <2> TAKE p \in 1 .. m - i + 1
  <2>1. i + p - 1 \in 1 .. m /\ (c + i) + p - 1 = c + (i + p - 1)
    BY <1>1
  <2>2. PICK r \in 1 .. m : r = i + p - 1
    BY <2>1
  <2>3. x[c + r] = d[r] /\ (c + i) + p - 1 = c + r
    BY <1>2, <2>1, <2>2
  <2> QED
    BY <2>2, <2>3, Zenon
<1>5. (c + m) - (c + i) + 1 = m - i + 1
  BY <1>1
<1>6. \A l \in Nat : l <= m - i + 1 => 1 .. l \subseteq 1 .. m - i + 1
  BY <1>1
<1>7. FullAt(x, c + i) <=> FullAt(d, i)
  <2>1. ASSUME NEW q \in Detach!KittyDetachSeqs, Len(q) <= m - i + 1
        PROVE  (\A p \in 1 .. Len(q) : x[(c + i) + p - 1] = q[p])
                 <=> (\A p \in 1 .. Len(q) : d[i + p - 1] = q[p])
    <3>1. PICK l \in Nat : l = Len(q)
      BY KittySeqs
    <3>2. \A p \in 1 .. l : x[(c + i) + p - 1] = d[i + p - 1]
      BY <1>4, <1>6, <2>1, <3>1
    <3> QED
      BY <3>1, <3>2
  <2> QED
    BY <1>1, <1>5, <2>1 DEF FullAt
<1>8. CutAt(x, c + i) <=> CutAt(d, i)
  <2>1. ASSUME NEW q \in Detach!KittyDetachSeqs
        PROVE  (\A p \in 1 .. m - i + 1 : x[(c + i) + p - 1] = q[p])
                 <=> (\A p \in 1 .. m - i + 1 : d[i + p - 1] = q[p])
    BY <1>4
  <2>2. Len(x) - (c + i) + 1 = m - i + 1 /\ Len(d) - i + 1 = m - i + 1
    BY <1>1, <1>5
  <2>3. CutAt(x, c + i) <=> \E q \in Detach!KittyDetachSeqs :
           m - i + 1 < Len(q) /\ \A p \in 1 .. m - i + 1 : x[(c + i) + p - 1] = q[p]
    BY ONLY <2>2, Zenon DEF CutAt
  <2>4. CutAt(d, i) <=> \E q \in Detach!KittyDetachSeqs :
           m - i + 1 < Len(q) /\ \A p \in 1 .. m - i + 1 : d[i + p - 1] = q[p]
    BY ONLY <2>2, Zenon DEF CutAt
  <2> QED
    BY ONLY <2>1, <2>3, <2>4, Zenon
<1> QED
  BY <1>3, <1>7, <1>8 DEF KeyAt

\* Inside of what may become a key no key begins.
LEMMA NoneInside ==
    ASSUME NEW d \in Seq(Detach!Bytes), NEW i \in 1 .. Len(d), CutAt(d, i),
           NEW j \in i + 1 .. Len(d)
    PROVE  ~ KeyAt(d, j)
<1>1. PICK m \in Nat : m = Len(d) /\ i \in 1 .. m /\ j \in i + 1 .. m
  OBVIOUS
<1>2. PICK q \in Detach!KittyDetachSeqs :
        m - i + 1 < Len(q) /\ \A p \in 1 .. m - i + 1 : d[i + p - 1] = q[p]
  BY <1>1 DEF CutAt
<1>3. PICK l \in Nat : l = Len(q) /\ m - i + 1 < l
  BY <1>2, KittySeqs
<1>4. PICK r \in 1 .. m - i + 1 : r = j - i + 1 /\ r \in 2 .. l /\ i + r - 1 = j
  BY <1>1, <1>3
<1>5. d[j] = q[r]
  <2>1. d[i + r - 1] = q[r]
    BY <1>2
  <2> QED
    BY <1>4, <2>1
<1>6. d[j] \notin {"ESC", "FS"}
  BY <1>3, <1>4, <1>5, KittySeqs
<1>7. ASSUME FullAt(d, j) PROVE FALSE
  <2>1. PICK s \in Detach!KittyDetachSeqs : \A p \in 1 .. Len(s) : d[j + p - 1] = s[p]
    BY <1>7 DEF FullAt
  <2>2. Len(s) \in 3 .. 4 /\ s[1] = "ESC"
    BY KittySeqs
  <2>3. 1 \in 1 .. Len(s) /\ j + 1 - 1 = j
    BY <1>1, <2>2
  <2>4. d[j + 1 - 1] = s[1]
    BY <2>1, <2>3
  <2>5. d[j] = "ESC"
    BY <2>2, <2>3, <2>4
  <2> QED
    BY <1>6, <2>5
<1> QED
  BY <1>6, <1>7 DEF KeyAt, Detach!CtrlBackslash

LEMMA LeastExists ==
    ASSUME NEW T, T \subseteq Nat, T # {}
    PROVE  \E k \in T : \A j \in T : k <= j
<1>1. PICK k \in T : \A m \in T : ~ (<<m, k>> \in OpToRel(<, Nat))
  BY NatLessThanWellFounded, WFMin
<1>2. ASSUME NEW j \in T PROVE k <= j
  <2>1. j < k => <<j, k>> \in OpToRel(<, Nat)
    <3> SUFFICES ASSUME j < k PROVE <<j, k>> \in OpToRel(<, Nat)
      OBVIOUS
    <3>1. <<j, k>> \in Nat \X Nat /\ <<j, k>>[1] < <<j, k>>[2]
      OBVIOUS
    <3> QED
      BY <3>1, Zenon DEF OpToRel
  <2>2. ~ (j < k)
    BY <1>1, <2>1, Zenon
  <2>3. j \in Nat /\ k \in Nat
    OBVIOUS
  <2> QED
    BY ONLY <2>2, <2>3
<1> QED
  BY <1>2

\* The least element, as the code's scan and the properties choose it.
LEMMA LeastIs ==
    ASSUME NEW T, T \subseteq Nat, T # {}
    PROVE  LET k == CHOOSE i \in T : \A j \in T : i <= j
           IN  k \in T /\ \A j \in T : k <= j
<1>1. \E k \in T : \A j \in T : k <= j
  BY LeastExists
<1> QED
  BY ONLY <1>1

\* None of the first n bytes of d begins a key, or ever will.
Cold(d, n) == \A i \in 1 .. n : ~ StopAt(d, i)

\* What one call of feed does with the bytes it has to look at.
Fed(d, fed, n) ==
    /\ n \in 0 .. Len(d)
    /\ fed.forward = SubSeq(d, 1, n)
    /\ Cold(d, n)
    /\ \/ n = Len(d) /\ ~ fed.detached /\ fed.carry = << >>
       \/ n < Len(d) /\ fed.detached /\ fed.carry = << >> /\ KeyAt(d, n + 1)
       \/ /\ n < Len(d) /\ ~ fed.detached /\ fed.carry = Detach!From(d, n + 1)
          /\ CutAt(d, n + 1) /\ ~ KeyAt(d, n + 1)

LEMMA FeedIs ==
    ASSUME NEW held \in Seq(Detach!Bytes), NEW input \in Seq(Detach!Bytes)
    PROVE  /\ held \o input \in Seq(Detach!Bytes)
           /\ \E n \in Nat : Fed(held \o input, Detach!Feed(held, input), n)
<1> DEFINE d == held \o input
           Stops == {i \in 1 .. Len(d) :
                       Detach!IsKey(Detach!From(d, i)) \/ Detach!IsPartial(Detach!From(d, i))}
           fed == Detach!Feed(held, input)
<1>1. fed = IF Stops = {}
            THEN [forward |-> d, detached |-> FALSE, carry |-> << >>]
            ELSE LET i == CHOOSE i \in Stops : \A j \in Stops : i <= j
                     key == Detach!IsKey(Detach!From(d, i))
                 IN  [forward |-> SubSeq(d, 1, i - 1), detached |-> key,
                      carry |-> IF key THEN << >> ELSE Detach!From(d, i)]
  BY Zenon DEF Detach!Feed, Detach!WithCarry
<1>2. d \in Seq(Detach!Bytes)
  BY ConcatProperties
<1> HIDE DEF d, fed
<1>3. PICK m \in Nat : m = Len(d)
  BY <1>2
<1>4. Stops = {i \in 1 .. Len(d) : StopAt(d, i)}
  <2>1. ASSUME NEW i \in 1 .. Len(d)
        PROVE  (Detach!IsKey(Detach!From(d, i)) \/ Detach!IsPartial(Detach!From(d, i)))
                 <=> StopAt(d, i)
    BY <1>2, StopIs DEF StopAt, KeyAt
  <2> QED
    BY <2>1
<1>5. CASE Stops = {}
  <2>1. fed.forward = d /\ fed.detached = FALSE /\ fed.carry = << >>
    BY <1>1, <1>5
  <2>2. Cold(d, m)
    BY <1>3, <1>4, <1>5 DEF Cold
  <2>3. SubSeq(d, 1, Len(d)) = d
    BY <1>2, SubSeqFull
  <2>4. m \in 0 .. Len(d) /\ m = Len(d)
    BY <1>3
  <2>5. Fed(d, fed, m)
    BY <2>1, <2>2, <2>3, <2>4, Zenon DEF Fed
  <2> QED
    BY <1>2, <2>5 DEF fed, d
<1>6. CASE Stops # {}
  <2> DEFINE i == CHOOSE i \in Stops : \A j \in Stops : i <= j
  <2>1. Stops \subseteq Nat
    OBVIOUS
  <2>2. i \in Stops /\ \A j \in Stops : i <= j
    <3> HIDE DEF Stops
    <3> QED
      BY <1>6, <2>1, LeastIs
  <2>3. fed = [forward |-> SubSeq(d, 1, i - 1), detached |-> Detach!IsKey(Detach!From(d, i)),
               carry |-> IF Detach!IsKey(Detach!From(d, i)) THEN << >> ELSE Detach!From(d, i)]
    BY <1>1, <1>6, Zenon
  <2> HIDE DEF i
  <2>4. PICK n \in Nat : i = n + 1 /\ n < m /\ n + 1 \in 1 .. Len(d)
    <3>1. i \in 1 .. m
      BY <1>3, <2>2
    <3>2. i - 1 \in Nat /\ i = (i - 1) + 1 /\ i - 1 < m
      BY <3>1
    <3> QED
      BY <1>3, <3>1, <3>2
  <2>5. /\ fed.forward = SubSeq(d, 1, n)
        /\ fed.detached = Detach!IsKey(Detach!From(d, n + 1))
        /\ fed.carry = IF Detach!IsKey(Detach!From(d, n + 1)) THEN << >>
                       ELSE Detach!From(d, n + 1)
    <3>1. i - 1 = n
      BY <2>4
    <3> QED
      BY <2>3, <2>4, <3>1
  <2>6. Detach!IsKey(Detach!From(d, n + 1)) <=> KeyAt(d, n + 1)
    BY <1>2, <2>4, StopIs
  <2>7. Cold(d, n)
    <3> SUFFICES ASSUME NEW j \in 1 .. n, StopAt(d, j) PROVE FALSE
      BY DEF Cold
    <3>1. j \in 1 .. Len(d) /\ j < n + 1
      BY <1>3, <2>4
    <3>2. j \in Stops
      BY <1>4, <3>1
    <3> QED
      BY <2>2, <2>4, <3>1, <3>2
  <2>8. StopAt(d, n + 1)
    BY <1>4, <2>2, <2>4
  <2>9. n \in 0 .. Len(d) /\ n < Len(d)
    BY <1>3, <2>4
  <2>10. Fed(d, fed, n)
    <3>1. CASE KeyAt(d, n + 1)
      <4>1. fed.detached /\ fed.carry = << >>
        BY <2>5, <2>6, <3>1
      <4> QED
        BY <2>5, <2>7, <2>9, <3>1, <4>1, Zenon DEF Fed
    <3>2. CASE ~ KeyAt(d, n + 1)
      <4>1. ~ fed.detached /\ fed.carry = Detach!From(d, n + 1)
        BY <2>5, <2>6, <3>2
      <4>2. CutAt(d, n + 1)
        BY <2>8, <3>2 DEF StopAt
      <4> QED
        BY <2>5, <2>7, <2>9, <3>2, <4>1, <4>2, Zenon DEF Fed
    <3> QED
      BY <3>1, <3>2
  <2> QED
    BY <1>2, <2>10 DEF fed, d
<1> QED
  BY <1>5, <1>6

\* FlattenSeq goes through the pieces from the left.
Flattens(s, h) ==
    /\ h \in [0 .. Len(s) -> Seq(Detach!Bytes)]
    /\ h[0] = << >>
    /\ \A k \in 1 .. Len(s) : h[k] = h[k - 1] \o s[k]

LEMMA FlattenIs ==
    ASSUME NEW s \in Seq(Seq(Detach!Bytes))
    PROVE  \E h : Flattens(s, h) /\ Detach!FlattenSeq(s) = h[Len(s)]
<1> DEFINE B == Seq(Detach!Bytes)
           n == Len(s)
           step == [x \in (1 .. n) \X B |-> x[2] \o s[x[1]]]
           IsFlat(g) == g = [i \in 1 .. n |-> IF i = 1 THEN s[i] ELSE g[i - 1] \o s[i]]
<1>1. n \in Nat /\ << >> \in B /\ \A k \in 1 .. n : s[k] \in B
  BY ElementOfSeq
<1>2. step \in [(1 .. n) \X B -> B]
  <2>1. ASSUME NEW x \in (1 .. n) \X B PROVE x[2] \o s[x[1]] \in B
    <3>1. x[1] \in 1 .. n /\ x[2] \in B /\ s[x[1]] \in B
      BY <1>1
    <3> QED
      BY <3>1, ConcatProperties
  <2> QED
    BY <2>1
<1>3. \A k \in 1 .. n, q \in B : step[<<k, q>>] = q \o s[k]
  OBVIOUS
<1> HIDE DEF step
<1>4. PICK h : Iterates(h, << >>, step, B, n)
  <2> HIDE DEF B, n
  <2> QED
    BY <1>1, <1>2, IterationExists
<1>5. /\ h \in [0 .. n -> B] /\ h[0] = << >>
      /\ \A k \in 1 .. n : h[k] = h[k - 1] \o s[k]
  <2>1. /\ h \in [0 .. n -> B] /\ h[0] = << >>
        /\ \A k \in 1 .. n : h[k] = step[<<k, h[k - 1]>>]
    BY <1>4 DEF Iterates
  <2>2. \A k \in 1 .. n : k - 1 \in 0 .. n
    BY <1>1
  <2> HIDE DEF B, n
  <2>3. \A k \in 1 .. n : h[k - 1] \in B
    BY <2>1, <2>2
  <2> QED
    BY <1>3, <2>1, <2>3, Zenon
<1>6. Flattens(s, h)
  BY <1>5 DEF Flattens
<1>7. CASE n = 0
  <2>1. s = << >> /\ Detach!FlattenSeq(s) = s
    BY <1>7, EmptySeq DEF Detach!FlattenSeq
  <2> QED
    BY <1>5, <1>6, <1>7, <2>1
<1>8. CASE n # 0
  <2> DEFINE f == [k \in 1 .. n |-> h[k]]
  <2>1. IsFlat(f)
    <3>1. ASSUME NEW i \in 1 .. n
          PROVE  h[i] = IF i = 1 THEN s[i] ELSE f[i - 1] \o s[i]
      <4>1. CASE i = 1
        <5>1. 1 \in 1 .. n /\ 1 - 1 = 0
          BY <4>1
        <5>2. h[1] = h[0] \o s[1] /\ s[1] \in B
          <6> HIDE DEF n, B
          <6>1. h[1] = h[1 - 1] \o s[1] /\ s[1] \in B
            BY <1>1, <1>5, <5>1, Zenon
          <6> QED
            BY <5>1, <6>1, Zenon
        <5>3. << >> \o s[1] = s[1]
          BY <5>2, ConcatEmptySeq
        <5> QED
          BY <1>5, <4>1, <5>2, <5>3
      <4>2. CASE i # 1
        <5>1. i - 1 \in 1 .. n
          BY <1>1, <4>2
        <5>2. f[i - 1] = h[i - 1]
          BY <5>1
        <5> HIDE DEF f, n
        <5> QED
          BY <1>5, <4>2, <5>2, Zenon
      <4> QED
        BY <4>1, <4>2
    <3> HIDE DEF n
    <3> QED
      BY <3>1
  <2> HIDE DEF f
  <2> DEFINE g == CHOOSE g : IsFlat(g)
  <2>2. IsFlat(g)
    <3> HIDE DEF IsFlat
    <3> QED
      BY <2>1
  <2>3. Detach!FlattenSeq(s) = g[n]
    BY <1>8, Zenon DEF Detach!FlattenSeq
  <2> HIDE DEF g
  <2> DEFINE T == {k \in 0 .. n : k # 0 => g[k] = h[k]}
  <2>4. 0 \in T
    BY <1>1
  <2>5. ASSUME NEW k \in 1 .. n, k - 1 \in T PROVE k \in T
    <3>1. g[k] = IF k = 1 THEN s[k] ELSE g[k - 1] \o s[k]
      BY <2>2
    <3>2. f[k] = IF k = 1 THEN s[k] ELSE f[k - 1] \o s[k]
      BY <2>1
    <3>3. f[k] = h[k] /\ (k # 1 => f[k - 1] = h[k - 1])
      BY <1>1 DEF f
    <3>4. k # 1 => g[k - 1] = h[k - 1]
      BY <2>5
    <3>5. g[k] = h[k]
      BY <3>1, <3>2, <3>3, <3>4, Zenon
    <3> QED
      BY <1>1, <3>5
  <2>6. \A k \in 0 .. n : k \in T
    <3> HIDE DEF T
    <3> QED
      BY <1>1, <2>4, <2>5, UpTo
  <2>7. g[n] = h[n]
    BY <1>1, <1>8, <2>6
  <2> QED
    BY <1>6, <2>3, <2>7, Zenon
<1> QED
  BY <1>7, <1>8

LEMMA FlattenAppended ==
    ASSUME NEW s \in Seq(Seq(Detach!Bytes)), NEW x \in Seq(Detach!Bytes)
    PROVE  /\ Detach!FlattenSeq(s) \in Seq(Detach!Bytes)
           /\ Detach!FlattenSeq(Append(s, x)) = Detach!FlattenSeq(s) \o x
<1> DEFINE B == Seq(Detach!Bytes)
           t == Append(s, x)
<1>1. PICK n \in Nat : n = Len(s)
  OBVIOUS
<1>2. /\ t \in Seq(B) /\ Len(t) = n + 1 /\ t[n + 1] = x
      /\ \A k \in 1 .. n : t[k] = s[k]
  BY <1>1, AppendProperties
<1> HIDE DEF t
<1>3. PICK h : Flattens(s, h) /\ Detach!FlattenSeq(s) = h[Len(s)]
  BY FlattenIs
<1>4. PICK g : Flattens(t, g) /\ Detach!FlattenSeq(t) = g[Len(t)]
  BY <1>2, FlattenIs
<1>5. /\ h \in [0 .. n -> B] /\ h[0] = << >>
      /\ \A k \in 1 .. n : h[k] = h[k - 1] \o s[k]
  BY <1>1, <1>3 DEF Flattens
<1>6. /\ g[0] = << >> /\ \A k \in 1 .. n + 1 : g[k] = g[k - 1] \o t[k]
  BY <1>2, <1>4 DEF Flattens
<1> HIDE DEF B
<1> DEFINE T == {k \in 0 .. n : g[k] = h[k]}
<1>7. 0 \in T
  BY <1>5, <1>6
<1>8. ASSUME NEW k \in 1 .. n, k - 1 \in T PROVE k \in T
  <2>1. g[k - 1] = h[k - 1] /\ t[k] = s[k] /\ k \in 1 .. n + 1 /\ k \in 0 .. n
    BY <1>2, <1>8
  <2>2. g[k] = g[k - 1] \o t[k] /\ h[k] = h[k - 1] \o s[k]
    BY <1>5, <1>6, <2>1, Zenon
  <2>3. g[k] = h[k]
    BY <2>1, <2>2, Zenon
  <2> QED
    BY <2>1, <2>3
<1>9. g[n] = h[n]
  <2>1. \A k \in 0 .. n : k \in T
    <3> HIDE DEF T
    <3> QED
      BY <1>7, <1>8, UpTo
  <2> QED
    BY <2>1
<1>10. g[n + 1] = g[n] \o x
  <2>1. n + 1 \in 1 .. n + 1 /\ (n + 1) - 1 = n
    OBVIOUS
  <2>2. g[n + 1] = g[(n + 1) - 1] \o t[n + 1]
    BY <1>6, <2>1, Zenon
  <2> QED
    BY <1>2, <2>1, <2>2, Zenon
<1>11. h[n] \in B
  BY <1>5
<1> QED
  BY <1>1, <1>2, <1>3, <1>4, <1>9, <1>10, <1>11, Zenon DEF t, B

ClientFrame == [tag : {"Input", "Detach"}, payload : Seq(Detach!Bytes)]

Payloads(f, u) == [i \in 1 .. u |-> f[i].payload]

\* Up to u the client has only sent Input frames.
InputsUpTo(f, u) == \A i \in 1 .. u : f[i].tag # "Detach"

LEMMA HeardIs ==
    ASSUME frames \in Seq(ClientFrame), NEW u \in 0 .. Len(frames),
           InputsUpTo(frames, u), u < Len(frames) => frames[u + 1].tag = "Detach"
    PROVE  /\ Detach!Heard = Payloads(frames, u)
           /\ Detach!Detached <=> u < Len(frames)
<1> DEFINE ends == {i \in 1 .. Len(frames) : frames[i].tag = "Detach"}
           upto == IF ends = {} THEN Len(frames)
                   ELSE (CHOOSE i \in ends : \A j \in ends : i <= j) - 1
<1>1. Detach!Heard = [i \in 1 .. upto |-> frames[i].payload]
  BY Zenon DEF Detach!Heard
<1>2. PICK n \in Nat : n = Len(frames) /\ u \in 0 .. n
  OBVIOUS
<1>3. CASE u = n
  <2>1. ends = {}
    BY <1>2, <1>3 DEF InputsUpTo
  <2>2. upto = u
    BY <1>2, <1>3, <2>1
  <2>3. ~ Detach!Detached
    BY <2>1 DEF Detach!Detached
  <2> QED
    BY <1>1, <1>2, <1>3, <2>2, <2>3 DEF Payloads
<1>4. CASE u < n
  <2>1. u + 1 \in ends
    BY <1>2, <1>4
  <2>2. \A j \in ends : u + 1 <= j
    BY <1>2 DEF InputsUpTo
  <2>3. ends \subseteq Nat
    OBVIOUS
  <2>4. Detach!Detached
    BY <2>1 DEF Detach!Detached
  <2> HIDE DEF ends
  <2> DEFINE k == CHOOSE i \in ends : \A j \in ends : i <= j
  <2>5. k \in ends /\ \A j \in ends : k <= j
    BY <2>1, <2>3, LeastIs
  <2>6. upto = k - 1
    BY <2>1
  <2> HIDE DEF k
  <2>7. k = u + 1
    <3>1. k \in Nat /\ k <= u + 1 /\ u + 1 <= k
      BY <2>1, <2>2, <2>3, <2>5
    <3> QED
      BY <1>2, <3>1
  <2>8. upto = u
    BY <1>2, <2>6, <2>7
  <2> QED
    BY <1>1, <1>2, <1>4, <2>4, <2>8 DEF Payloads
<1> QED
  BY <1>2, <1>3, <1>4

-----------------------------------------------------------------------------
\* The daemon has heard the first n of the bytes typed, none of which begins a
\* key. Either the matcher has all the others, which may become one, or a key
\* is what follows and a Detach has been sent at that point.
HeardSoFar(u, n) ==
    /\ u \in 0 .. Len(frames) /\ n \in 0 .. Len(typed)
    /\ InputsUpTo(frames, u)
    /\ Detach!FlattenSeq(Payloads(frames, u)) = SubSeq(typed, 1, n)
    /\ Cold(typed, n)

Attached(u, n) ==
    /\ u = Len(frames) /\ Len(typed) = n + Len(carry)
    /\ \A p \in 1 .. Len(carry) : typed[n + p] = carry[p]
    /\ carry # << >> => CutAt(carry, 1) /\ ~ KeyAt(carry, 1)

Gone(u, n) ==
    /\ u < Len(frames) /\ frames[u + 1].tag = "Detach"
    /\ n < Len(typed) /\ KeyAt(typed, n + 1)

DetachInv ==
    /\ carry \in Seq(Detach!Bytes) /\ typed \in Seq(Detach!Bytes)
    /\ frames \in Seq(ClientFrame)
    /\ \E u \in Nat, n \in Nat : HeardSoFar(u, n) /\ (Attached(u, n) \/ Gone(u, n))

LEMMA NothingHeard ==
    ASSUME NEW f PROVE Payloads(f, 0) = << >> /\ Detach!FlattenSeq(Payloads(f, 0)) = << >>
<1>1. Payloads(f, 0) = << >>
  BY DEF Payloads
<1> QED
  BY <1>1 DEF Detach!FlattenSeq

LEMMA DetachInit == Detach!Init => DetachInv
<1> SUFFICES ASSUME Detach!Init PROVE DetachInv
  OBVIOUS
<1>1. carry = << >> /\ frames = << >> /\ typed = << >>
  BY DEF Detach!Init
<1>2. HeardSoFar(0, 0)
  <2>1. SubSeq(typed, 1, 0) = << >>
    BY <1>1
  <2>2. 0 \in 0 .. Len(frames) /\ 0 \in 0 .. Len(typed)
    BY <1>1
  <2>3. InputsUpTo(frames, 0) /\ Cold(typed, 0)
    BY DEF InputsUpTo, Cold
  <2> QED
    BY <2>1, <2>2, <2>3, NothingHeard, Zenon DEF HeardSoFar
<1>3. Attached(0, 0)
  BY <1>1 DEF Attached
<1> QED
  BY <1>1, <1>2, <1>3 DEF DetachInv

-----------------------------------------------------------------------------
\* One read of the terminal.

IsConcat(x, v, w, a, b) ==
    /\ x \in Seq(Detach!Bytes) /\ Len(x) = a + b
    /\ \A p \in 1 .. a + b : x[p] = IF p <= a THEN v[p] ELSE w[p - a]

LEMMA ConcatIs ==
    ASSUME NEW v \in Seq(Detach!Bytes), NEW w \in Seq(Detach!Bytes)
    PROVE  IsConcat(v \o w, v, w, Len(v), Len(w))
  BY ConcatProperties DEF IsConcat

IsFirst(x, w, n) ==
    x \in Seq(Detach!Bytes) /\ Len(x) = n /\ \A p \in 1 .. n : x[p] = w[p]

LEMMA FirstIs ==
    ASSUME NEW w \in Seq(Detach!Bytes), NEW n \in Nat, n <= Len(w)
    PROVE  IsFirst(SubSeq(w, 1, n), w, n)
  BY FirstAre DEF IsFirst

\* x begins with y; after its first n bytes it is d.
Continues(x, y) == Len(y) <= Len(x) /\ \A p \in 1 .. Len(y) : x[p] = y[p]

EndsIn(x, d, n) == Len(x) = n + Len(d) /\ \A p \in 1 .. Len(d) : x[n + p] = d[p]

\* The bytes feed looks at are those typed that the daemon has not heard.
LEMMA NotHeardYet ==
    ASSUME NEW y \in Seq(Detach!Bytes), NEW c \in Seq(Detach!Bytes),
           NEW input \in Seq(Detach!Bytes), NEW n \in Nat, EndsIn(y, c, n)
    PROVE  Continues(y \o input, y) /\ EndsIn(y \o input, c \o input, n)
<1>1. Len(y) = n + Len(c) /\ \A p \in 1 .. Len(c) : y[n + p] = c[p]
  BY DEF EndsIn
<1>2. PICK l \in Nat, k \in Nat : l = Len(c) /\ k = Len(input) /\ Len(y) = n + l
  BY <1>1
<1>3. PICK x : x = y \o input /\ IsConcat(x, y, input, n + l, k)
  BY <1>2, ConcatIs, Zenon
<1>4. PICK d : d = c \o input /\ IsConcat(d, c, input, l, k)
  BY <1>2, ConcatIs, Zenon
<1>5. /\ x \in Seq(Detach!Bytes) /\ Len(x) = n + l + k
      /\ \A p \in 1 .. n + l + k : x[p] = IF p <= n + l THEN y[p] ELSE input[p - (n + l)]
  BY <1>3 DEF IsConcat
<1>6. /\ d \in Seq(Detach!Bytes) /\ Len(d) = l + k
      /\ \A p \in 1 .. l + k : d[p] = IF p <= l THEN c[p] ELSE input[p - l]
  BY <1>4 DEF IsConcat
<1>7. Len(y) <= Len(x) /\ Len(x) = n + Len(d)
  BY <1>2, <1>5, <1>6
<1>8. \A p \in 1 .. Len(y) : x[p] = y[p]
  BY <1>2, <1>5
<1>9. ASSUME NEW p \in 1 .. l + k PROVE x[n + p] = d[p]
  <2>1. PICK r \in 1 .. n + l + k : r = n + p /\ r - (n + l) = p - l /\ (r <= n + l <=> p <= l)
    <3>1. /\ n + p \in 1 .. n + l + k /\ (n + p) - (n + l) = p - l
          /\ n + p <= n + l <=> p <= l
      BY <1>2
    <3> QED
      BY <3>1
  <2>2. x[r] = IF r <= n + l THEN y[r] ELSE input[r - (n + l)]
    BY <1>5
  <2>3. d[p] = IF p <= l THEN c[p] ELSE input[p - l]
    BY <1>6
  <2>4. p <= l => y[n + p] = c[p]
    BY <1>1, <1>2
  <2> QED
    BY <2>1, <2>2, <2>3, <2>4, Zenon
<1>10. \A p \in 1 .. Len(d) : x[n + p] = d[p]
  BY <1>6, <1>9
<1> QED
  BY <1>7, <1>8, <1>10, <1>3, <1>4, Zenon DEF Continues, EndsIn

LEMMA Joined ==
    ASSUME NEW x \in Seq(Detach!Bytes), NEW y \in Seq(Detach!Bytes),
           NEW d \in Seq(Detach!Bytes), NEW n \in Nat, NEW m \in Nat,
           n <= Len(y), Continues(x, y), m <= Len(d), EndsIn(x, d, n)
    PROVE  SubSeq(y, 1, n) \o SubSeq(d, 1, m) = SubSeq(x, 1, n + m)
<1>1. /\ Len(y) <= Len(x) /\ \A p \in 1 .. Len(y) : x[p] = y[p]
      /\ Len(x) = n + Len(d) /\ \A p \in 1 .. Len(d) : x[n + p] = d[p]
  BY DEF Continues, EndsIn
<1>2. n + m \in Nat /\ n + m <= Len(x)
  <2>1. Len(d) \in Nat
    OBVIOUS
  <2> QED
    BY <1>1, <2>1
<1>3. PICK a : a = SubSeq(y, 1, n) /\ IsFirst(a, y, n)
  BY FirstIs, Zenon
<1>4. PICK b : b = SubSeq(d, 1, m) /\ IsFirst(b, d, m)
  BY FirstIs, Zenon
<1>5. PICK c : c = SubSeq(x, 1, n + m) /\ IsFirst(c, x, n + m)
  BY <1>2, FirstIs, Zenon
<1>6. a \in Seq(Detach!Bytes) /\ Len(a) = n /\ \A p \in 1 .. n : a[p] = y[p]
  BY <1>3 DEF IsFirst
<1>7. b \in Seq(Detach!Bytes) /\ Len(b) = m /\ \A p \in 1 .. m : b[p] = d[p]
  BY <1>4 DEF IsFirst
<1>8. c \in Seq(Detach!Bytes) /\ Len(c) = n + m /\ \A p \in 1 .. n + m : c[p] = x[p]
  BY <1>5 DEF IsFirst
<1>9. PICK e : e = a \o b /\ IsConcat(e, a, b, n, m)
  BY <1>6, <1>7, ConcatIs, Zenon
<1>10. /\ e \in Seq(Detach!Bytes) /\ Len(e) = n + m
       /\ \A p \in 1 .. n + m : e[p] = IF p <= n THEN a[p] ELSE b[p - n]
  BY <1>9 DEF IsConcat
<1>11. ASSUME NEW p \in 1 .. n + m PROVE e[p] = c[p]
  <2>1. c[p] = x[p] /\ e[p] = IF p <= n THEN a[p] ELSE b[p - n]
    BY <1>8, <1>10
  <2>2. CASE p <= n
    <3>1. p \in 1 .. n /\ p \in 1 .. Len(y)
      <4>1. Len(y) \in Nat
        OBVIOUS
      <4> QED
        BY <2>2, <4>1
    <3>2. a[p] = y[p] /\ x[p] = y[p]
      BY <1>6, <1>1, <3>1
    <3> QED
      BY <2>1, <2>2, <3>2
  <2>3. CASE ~ (p <= n)
    <3>1. PICK r \in 1 .. m : r = p - n /\ n + r = p
      <4>1. p - n \in 1 .. m /\ n + (p - n) = p
        BY <2>3
      <4> QED
        BY <4>1
    <3>2. r \in 1 .. Len(d)
      <4>1. Len(d) \in Nat
        OBVIOUS
      <4> QED
        BY <4>1
    <3>3. b[r] = d[r] /\ x[n + r] = d[r]
      BY <1>7, <1>1, <3>2
    <3> QED
      BY <2>1, <2>3, <3>1, <3>3
  <2> QED
    BY <2>2, <2>3
<1>12. e = c
  BY <1>8, <1>10, <1>11, SeqEqual
<1> QED
  BY <1>12, <1>3, <1>4, <1>5, <1>9, Zenon

\* What client_loop queues after one read.
Queued(f, forward, detached) ==
    f \o (IF forward = << >> THEN << >> ELSE <<[tag |-> "Input", payload |-> forward]>>)
      \o (IF detached THEN <<[tag |-> "Detach", payload |-> << >>]>> ELSE << >>)

IsQueued(g, f, forward, detached, l, u) ==
    /\ g \in Seq(ClientFrame)
    /\ u = IF forward = << >> THEN l ELSE l + 1
    /\ Len(g) = IF detached THEN u + 1 ELSE u
    /\ \A i \in 1 .. l : g[i] = f[i]
    /\ forward # << >> => g[l + 1] = [tag |-> "Input", payload |-> forward]
    /\ detached => g[u + 1].tag = "Detach"

LEMMA OneMore ==
    ASSUME NEW S, NEW f \in Seq(S), NEW x \in S, NEW l \in Nat, l = Len(f)
    PROVE  /\ f \o <<x>> \in Seq(S) /\ Len(f \o <<x>>) = l + 1
           /\ (f \o <<x>>)[l + 1] = x /\ \A i \in 1 .. l : (f \o <<x>>)[i] = f[i]
<1>1. f \o <<x>> = Append(f, x)
  BY AppendIsConcat
<1>2. /\ Append(f, x) \in Seq(S) /\ Len(Append(f, x)) = l + 1
      /\ Append(f, x)[l + 1] = x /\ \A i \in 1 .. l : Append(f, x)[i] = f[i]
  BY AppendProperties
<1> QED
  BY <1>1, <1>2, Zenon

LEMMA QueuedIs ==
    ASSUME NEW f \in Seq(ClientFrame), NEW forward \in Seq(Detach!Bytes), NEW detached,
           NEW l \in Nat, l = Len(f)
    PROVE  \E u \in Nat : IsQueued(Queued(f, forward, detached), f, forward, detached, l, u)
<1> DEFINE x == [tag |-> "Input", payload |-> forward]
           z == [tag |-> "Detach", payload |-> << >>]
           F == ClientFrame
<1>1. x \in F /\ z \in F /\ z.tag = "Detach"
  BY DEF ClientFrame
<1> HIDE DEF x, z, F
<1> DEFINE g == f \o (IF forward = << >> THEN << >> ELSE <<x>>)
           u == IF forward = << >> THEN l ELSE l + 1
<1>2. /\ g \in Seq(F) /\ Len(g) = u /\ u \in Nat
      /\ \A i \in 1 .. l : g[i] = f[i]
      /\ forward # << >> => g[l + 1] = x
  <2>1. CASE forward = << >>
    <3>1. f \o << >> = f /\ f \in Seq(F)
      BY ConcatEmptySeq DEF F
    <3>2. g = f /\ u = l
      BY <2>1, <3>1, Zenon
    <3> QED
      BY <2>1, <3>1, <3>2, Zenon
  <2>2. CASE forward # << >>
    <3>1. /\ f \o <<x>> \in Seq(F) /\ Len(f \o <<x>>) = l + 1 /\ l + 1 \in Nat
          /\ (f \o <<x>>)[l + 1] = x /\ \A i \in 1 .. l : (f \o <<x>>)[i] = f[i]
      BY <1>1, OneMore DEF F
    <3>2. g = f \o <<x>> /\ u = l + 1
      BY <2>2, Zenon
    <3> HIDE DEF g, u
    <3> QED
      BY <3>1, <3>2, Zenon
  <2> QED
    BY <2>1, <2>2, Zenon
<1>3. Queued(f, forward, detached) = g \o (IF detached THEN <<z>> ELSE << >>)
  BY Zenon DEF Queued, x, z
<1>4. l <= u /\ (forward # << >> => l + 1 <= u)
  OBVIOUS
<1>5. u = IF forward = << >> THEN l ELSE l + 1
  BY Zenon
<1> HIDE DEF g, u
<1>6. IsQueued(Queued(f, forward, detached), f, forward, detached, l, u)
  <2>1. CASE ~ detached
    <3>1. Queued(f, forward, detached) = g
      BY <1>2, <1>3, <2>1, ConcatEmptySeq
    <3> QED
      BY <1>2, <1>5, <2>1, <3>1, Zenon DEF IsQueued, F, x
  <2>2. CASE detached
    <3> DEFINE h == g \o <<z>>
    <3>1. /\ h \in Seq(F) /\ Len(h) = u + 1
          /\ h[u + 1] = z /\ \A i \in 1 .. u : h[i] = g[i]
      BY <1>1, <1>2, OneMore
    <3>2. Queued(f, forward, detached) = h
      BY <1>3, <2>2, Zenon
    <3> HIDE DEF h
    <3>3. \A i \in 1 .. l : h[i] = f[i]
      <4>1. \A i \in 1 .. l : i \in 1 .. u
        BY <1>2, <1>4
      <4> QED
        BY <1>2, <3>1, <4>1, Zenon
    <3>4. forward # << >> => h[l + 1] = x
      <4>1. forward # << >> => l + 1 \in 1 .. u
        BY <1>2, <1>4
      <4> QED
        BY <1>2, <3>1, <4>1, Zenon
    <3> QED
      BY <1>1, <1>2, <1>5, <2>2, <3>1, <3>2, <3>3, <3>4, Zenon DEF IsQueued, F, x
  <2> QED
    BY <2>1, <2>2
<1> QED
  BY <1>2, <1>6, Zenon

HearsMore(g, u, f, l, forward) ==
    /\ InputsUpTo(g, u) /\ u \in 0 .. Len(g)
    /\ Detach!FlattenSeq(Payloads(g, u)) = Detach!FlattenSeq(Payloads(f, l)) \o forward

\* The daemon hears what was forwarded, in the place where it was forwarded.
LEMMA HeardMore ==
    ASSUME NEW f \in Seq(ClientFrame), NEW g, NEW forward \in Seq(Detach!Bytes),
           NEW detached, NEW l \in Nat, l = Len(f), NEW u \in Nat,
           IsQueued(g, f, forward, detached, l, u), InputsUpTo(f, l)
    PROVE  HearsMore(g, u, f, l, forward)
<1>1. /\ u = IF forward = << >> THEN l ELSE l + 1
      /\ Len(g) = IF detached THEN u + 1 ELSE u
      /\ \A i \in 1 .. l : g[i] = f[i]
      /\ forward # << >> => g[l + 1] = [tag |-> "Input", payload |-> forward]
  BY Zenon DEF IsQueued
<1>2. \A i \in 1 .. l : g[i].tag # "Detach"
  BY <1>1 DEF InputsUpTo
<1>3. u \in 0 .. Len(g)
  BY <1>1
<1>4. Payloads(f, l) \in Seq(Seq(Detach!Bytes)) /\ Len(Payloads(f, l)) = l
  <2>1. \A i \in 1 .. l : f[i] \in ClientFrame
    BY ElementOfSeq
  <2>2. \A i \in 1 .. l : f[i].payload \in Seq(Detach!Bytes)
    BY <2>1 DEF ClientFrame
  <2> DEFINE P == Seq(Detach!Bytes)
  <2> HIDE DEF P
  <2>3. [i \in 1 .. l |-> f[i].payload] \in [1 .. l -> P]
    BY <2>2 DEF P
  <2> QED
    BY <2>3 DEF Payloads, P
<1>5. CASE forward = << >>
  <2>1. u = l
    BY <1>1, <1>5
  <2>2. Payloads(g, u) = Payloads(f, l)
    BY <1>1, <2>1 DEF Payloads
  <2>3. Detach!FlattenSeq(Payloads(f, l)) \in Seq(Detach!Bytes)
    BY <1>4, FlattenAppended
  <2>4. Detach!FlattenSeq(Payloads(f, l)) \o << >> = Detach!FlattenSeq(Payloads(f, l))
    BY <2>3, ConcatEmptySeq
  <2> QED
    BY <1>2, <1>3, <1>5, <2>1, <2>2, <2>4, Zenon DEF InputsUpTo, HearsMore
<1>6. CASE forward # << >>
  <2>1. u = l + 1 /\ g[l + 1].tag = "Input" /\ g[l + 1].payload = forward
    BY <1>1, <1>6
  <2>2. InputsUpTo(g, u)
    <3> SUFFICES ASSUME NEW i \in 1 .. u PROVE g[i].tag # "Detach"
      BY DEF InputsUpTo
    <3>1. i \in 1 .. l \/ i = l + 1
      BY <2>1
    <3> QED
      BY <1>2, <2>1, <3>1
  <2>3. Payloads(g, u) = Append(Payloads(f, l), forward)
    <3> DEFINE s == Payloads(f, l)
               t == Append(s, forward)
               P == Seq(Detach!Bytes)
    <3>1. \A i \in 1 .. l : s[i] = f[i].payload
      BY DEF Payloads
    <3>2. s \in Seq(P) /\ Len(s) = l /\ forward \in P
      BY <1>4
    <3> HIDE DEF s, P
    <3>3. /\ t \in Seq(P) /\ Len(t) = l + 1 /\ t[l + 1] = forward
          /\ \A i \in 1 .. l : t[i] = s[i]
      BY <3>2, AppendProperties
    <3> HIDE DEF t
    <3>4. \A i \in 1 .. l + 1 : t[i] = g[i].payload
      <4> TAKE i \in 1 .. l + 1
      <4>1. i \in 1 .. l \/ i = l + 1
        OBVIOUS
      <4> QED
        BY <1>1, <2>1, <3>1, <3>3, <4>1, Zenon
    <3>5. t = [i \in 1 .. l + 1 |-> t[i]]
      BY <3>3
    <3>6. t = Payloads(g, u)
      BY <2>1, <3>4, <3>5, Zenon DEF Payloads
    <3> QED
      BY <3>6 DEF t, s
  <2>4. Detach!FlattenSeq(Append(Payloads(f, l), forward))
          = Detach!FlattenSeq(Payloads(f, l)) \o forward
    BY <1>4, FlattenAppended
  <2> QED
    BY <1>3, <2>2, <2>3, <2>4, Zenon DEF HearsMore
<1> QED
  BY <1>5, <1>6

\* More input leaves a cold stretch cold, and a key a key.
LEMMA ColdLater ==
    ASSUME NEW x \in Seq(Detach!Bytes), NEW y \in Seq(Detach!Bytes),
           Len(y) <= Len(x), \A p \in 1 .. Len(y) : x[p] = y[p],
           NEW n \in 0 .. Len(y), Cold(y, n)
    PROVE  Cold(x, n) /\ (n < Len(y) /\ KeyAt(y, n + 1) => KeyAt(x, n + 1))
<1>1. \A i \in 1 .. Len(y) :
        (KeyAt(y, i) => KeyAt(x, i)) /\ (StopAt(x, i) => StopAt(y, i))
  BY Extended
<1>2. PICK m \in Nat : m = Len(y) /\ n \in 0 .. m
  OBVIOUS
<1>3. \A i \in 1 .. n : i \in 1 .. m
  BY <1>2
<1>4. n < m => n + 1 \in 1 .. m
  BY <1>2
<1> QED
  BY <1>1, <1>2, <1>3, <1>4, Zenon DEF Cold

\* A cold stretch after a cold stretch.
LEMMA ColdFurther ==
    ASSUME NEW x \in Seq(Detach!Bytes), NEW d \in Seq(Detach!Bytes), NEW c \in Nat,
           Len(x) = c + Len(d), \A p \in 1 .. Len(d) : x[c + p] = d[p],
           NEW m \in 0 .. Len(d), Cold(x, c), Cold(d, m)
    PROVE  Cold(x, c + m)
<1>1. PICK l \in Nat : l = Len(d) /\ m \in 0 .. l
  OBVIOUS
<1>2. ASSUME NEW i \in 1 .. c + m, StopAt(x, i) PROVE FALSE
  <2>1. CASE i <= c
    <3>1. i \in 1 .. c
      BY <2>1
    <3> QED
      BY <1>2, <3>1, Zenon DEF Cold
  <2>2. CASE ~ (i <= c)
    <3>1. PICK j \in 1 .. m : i = c + j
      <4>1. i - c \in 1 .. m /\ i = c + (i - c)
        BY <1>1, <2>2
      <4> QED
        BY <4>1
    <3>2. j \in 1 .. Len(d)
      BY <1>1
    <3>3. (KeyAt(x, c + j) <=> KeyAt(d, j)) /\ (CutAt(x, c + j) <=> CutAt(d, j))
      BY <3>2, Shifted
    <3>4. StopAt(d, j)
      BY <1>2, <3>1, <3>3, Zenon DEF StopAt
    <3> QED
      BY <3>4, Zenon DEF Cold
  <2> QED
    BY <2>1, <2>2
<1> QED
  BY <1>2, Zenon DEF Cold

LEMMA DetachReads ==
    ASSUME DetachInv, NEW input \in Seq(Detach!Bytes), Detach!ReadStdin(input)
    PROVE  DetachInv'
<1> DEFINE d == carry \o input
           fed == Detach!Feed(carry, input)
           B == Detach!Bytes
<1>1. /\ typed' = typed \o input /\ carry' = fed.carry
      /\ frames' = Queued(frames, fed.forward, fed.detached)
  BY Zenon DEF Detach!ReadStdin, Queued
<1>2. carry \in Seq(B) /\ typed \in Seq(B) /\ frames \in Seq(ClientFrame)
  BY DEF DetachInv
<1>3. PICK u \in Nat, n \in Nat : HeardSoFar(u, n) /\ (Attached(u, n) \/ Gone(u, n))
  BY DEF DetachInv
<1>4. /\ u \in 0 .. Len(frames) /\ n \in 0 .. Len(typed)
      /\ InputsUpTo(frames, u)
      /\ Detach!FlattenSeq(Payloads(frames, u)) = SubSeq(typed, 1, n)
      /\ Cold(typed, n)
  BY <1>3 DEF HeardSoFar
<1>5. d \in Seq(B) /\ \E m \in Nat : Fed(d, fed, m)
  BY <1>2, FeedIs
<1> HIDE DEF d, fed
<1>6. PICK m \in Nat : Fed(d, fed, m)
  BY <1>5
<1>7. /\ m \in 0 .. Len(d)
      /\ fed.forward = SubSeq(d, 1, m)
      /\ Cold(d, m)
      /\ \/ m = Len(d) /\ ~ fed.detached /\ fed.carry = << >>
         \/ m < Len(d) /\ fed.detached /\ fed.carry = << >> /\ KeyAt(d, m + 1)
         \/ /\ m < Len(d) /\ ~ fed.detached /\ fed.carry = Detach!From(d, m + 1)
            /\ CutAt(d, m + 1) /\ ~ KeyAt(d, m + 1)
  BY <1>6, Zenon DEF Fed
<1>8. PICK k \in Nat : k = Len(d) /\ m \in 0 .. k
  BY <1>5, <1>7
<1>9. PICK l \in Nat : l = Len(frames)
  BY <1>2
<1>10. IsFirst(fed.forward, d, m)
  <2>1. m <= Len(d)
    BY <1>8
  <2> QED
    BY <1>5, <1>7, <2>1, FirstIs
<1>11. PICK v \in Nat : IsQueued(frames', frames, fed.forward, fed.detached, l, v)
  <2>1. fed.forward \in Seq(B)
    BY <1>10, Zenon DEF IsFirst
  <2> HIDE DEF B
  <2> QED
    BY <1>1, <1>2, <1>9, <2>1, QueuedIs, Zenon DEF B
<1>12. frames' \in Seq(ClientFrame) /\ \A i \in 1 .. l : frames'[i] = frames[i]
  BY <1>11, Zenon DEF IsQueued
<1>13. l <= Len(frames')
  <2>1. /\ v = IF fed.forward = << >> THEN l ELSE l + 1
        /\ Len(frames') = IF fed.detached THEN v + 1 ELSE v
    BY <1>11, Zenon DEF IsQueued
  <2> QED
    BY <2>1
<1>14. /\ typed' \in Seq(B) /\ Len(typed) <= Len(typed')
       /\ \A p \in 1 .. Len(typed) : typed'[p] = typed[p]
  <2>1. IsConcat(typed', typed, input, Len(typed), Len(input))
    BY <1>1, <1>2, ConcatIs
  <2>2. PICK a \in Nat, b \in Nat : a = Len(typed) /\ b = Len(input)
    BY <1>2
  <2>3. /\ typed' \in Seq(B) /\ Len(typed') = a + b
        /\ \A p \in 1 .. a + b : typed'[p] = IF p <= a THEN typed[p] ELSE input[p - a]
    BY <2>1, <2>2 DEF IsConcat
  <2>4. \A p \in 1 .. a : p \in 1 .. a + b /\ p <= a
    OBVIOUS
  <2>5. a <= a + b
    OBVIOUS
  <2>6. \A p \in 1 .. a : typed'[p] = typed[p]
    BY <2>3, <2>4, Zenon
  <2> QED
    BY <2>2, <2>3, <2>5, <2>6, Zenon
<1>15. Cold(typed', n) /\ (n < Len(typed) /\ KeyAt(typed, n + 1) => KeyAt(typed', n + 1))
  BY <1>2, <1>4, <1>14, ColdLater
<1>16. carry' \in Seq(B)
  <2>1. CASE fed.carry = << >>
    BY <1>1, <2>1
  <2>2. CASE m < Len(d) /\ fed.carry = Detach!From(d, m + 1)
    <3>1. m + 1 \in 1 .. Len(d)
      BY <1>8, <2>2
    <3> QED
      BY <1>1, <1>5, <2>2, <3>1, TailIs
  <2> QED
    BY <1>7, <2>1, <2>2
<1>17. CASE Gone(u, n)
  <2>1. /\ u < l /\ u + 1 \in 1 .. l /\ frames[u + 1].tag = "Detach"
        /\ n < Len(typed) /\ KeyAt(typed, n + 1) /\ u \in 0 .. l
    BY <1>4, <1>9, <1>17 DEF Gone
  <2>2. /\ u < Len(frames') /\ u \in 0 .. Len(frames')
        /\ n < Len(typed') /\ n \in 0 .. Len(typed')
    <3>1. Len(frames') \in Nat /\ Len(typed') \in Nat /\ Len(typed) \in Nat
      BY <1>2, <1>12, <1>14
    <3> QED
      BY <1>13, <1>14, <2>1, <3>1
  <2>3. Gone(u, n)'
    <3>1. frames'[u + 1] = frames[u + 1]
      BY <1>12, <2>1, Zenon
    <3> QED
      BY <1>15, <2>1, <2>2, <3>1, Zenon DEF Gone, KeyAt, FullAt
  <2>4. \A i \in 1 .. u : i \in 1 .. l /\ frames'[i] = frames[i]
    <3>1. \A i \in 1 .. u : i \in 1 .. l
      BY <2>1
    <3> QED
      BY <1>12, <3>1, Zenon
  <2>5. InputsUpTo(frames', u)
    BY <1>4, <2>4 DEF InputsUpTo
  <2>6. Payloads(frames', u) = Payloads(frames, u)
    BY <2>4 DEF Payloads
  <2>7. SubSeq(typed', 1, n) = SubSeq(typed, 1, n)
    <3>1. n <= Len(typed) /\ n <= Len(typed')
      <4>1. Len(typed') \in Nat /\ Len(typed) \in Nat
        BY <1>2, <1>14
      <4> QED
        BY <2>1, <2>2, <4>1
    <3>2. IsFirst(SubSeq(typed, 1, n), typed, n)
      BY <1>2, <3>1, FirstIs
    <3>3. IsFirst(SubSeq(typed', 1, n), typed', n)
      BY <1>14, <3>1, FirstIs
    <3>4. \A p \in 1 .. n : typed'[p] = typed[p]
      <4>1. \A p \in 1 .. n : p \in 1 .. Len(typed)
        BY <1>2, <3>1
      <4> QED
        BY <1>14, <4>1, Zenon
    <3>5. PICK a, b : a = SubSeq(typed, 1, n) /\ b = SubSeq(typed', 1, n)
      OBVIOUS
    <3>6. /\ a \in Seq(B) /\ Len(a) = n /\ \A p \in 1 .. n : a[p] = typed[p]
          /\ b \in Seq(B) /\ Len(b) = n /\ \A p \in 1 .. n : b[p] = typed'[p]
      BY <3>2, <3>3, <3>5 DEF IsFirst
    <3>7. \A p \in 1 .. n : b[p] = a[p]
      BY <3>4, <3>6, Zenon
    <3>8. b = a
      BY <3>6, <3>7, SeqEqual
    <3> QED
      BY <3>5, <3>8, Zenon
  <2>8. HeardSoFar(u, n)'
    BY <1>4, <1>15, <2>2, <2>5, <2>6, <2>7, Zenon
      DEF HeardSoFar, Cold, StopAt, KeyAt, CutAt, FullAt, Payloads, InputsUpTo
  <2> QED
    BY <1>12, <1>14, <1>16, <2>3, <2>8 DEF DetachInv
<1>18. CASE Attached(u, n)
  <2>1. /\ u = l /\ Len(typed) = n + Len(carry)
        /\ \A p \in 1 .. Len(carry) : typed[n + p] = carry[p]
    BY <1>9, <1>18 DEF Attached
  <2>2. Len(typed') = n + k /\ \A p \in 1 .. k : typed'[n + p] = d[p]
    <3>1. EndsIn(typed, carry, n)
      BY <2>1 DEF EndsIn
    <3>2. EndsIn(typed', d, n)
      BY <1>1, <1>2, <3>1, NotHeardYet, Zenon DEF d
    <3> QED
      BY <1>8, <3>2 DEF EndsIn
  <2>3. PICK z \in Nat : z = n + m /\ z \in 0 .. n + k
    <3>1. n + m \in Nat /\ n + m \in 0 .. n + k
      BY <1>8
    <3> QED
      BY <3>1
  <2>4. Cold(typed', z)
    <3>1. Len(typed') = n + Len(d) /\ \A p \in 1 .. Len(d) : typed'[n + p] = d[p]
      BY <1>8, <2>2
    <3> QED
      BY <1>5, <1>7, <1>14, <1>15, <2>3, <3>1, ColdFurther
  <2>5. SubSeq(typed, 1, n) \o SubSeq(d, 1, m) = SubSeq(typed', 1, z)
    <3>1. n <= Len(typed) /\ m <= Len(d)
      BY <1>2, <1>4, <1>8
    <3>2. Continues(typed', typed) /\ EndsIn(typed', d, n)
      BY <1>8, <1>14, <2>2 DEF Continues, EndsIn
    <3>3. SubSeq(typed, 1, n) \o SubSeq(d, 1, m) = SubSeq(typed', 1, n + m)
      <4>1. /\ typed' \in Seq(Detach!Bytes) /\ typed \in Seq(Detach!Bytes)
            /\ d \in Seq(Detach!Bytes) /\ n \in Nat /\ m \in Nat
        BY <1>2, <1>5, <1>14
      <4> QED
        BY ONLY <3>1, <3>2, <4>1, Joined
    <3> QED
      BY <2>3, <3>3, Zenon
  <2>6. /\ InputsUpTo(frames', v) /\ v \in 0 .. Len(frames')
        /\ Detach!FlattenSeq(Payloads(frames', v))
             = Detach!FlattenSeq(Payloads(frames, l)) \o fed.forward
    <3>1. fed.forward \in Seq(B)
      BY <1>10, Zenon DEF IsFirst
    <3>2. InputsUpTo(frames, l)
      BY <1>4, <2>1
    <3>3. HearsMore(frames', v, frames, l, fed.forward)
      BY <1>2, <1>9, <1>11, <3>1, <3>2, HeardMore, Zenon
    <3> QED
      BY <3>3, Zenon DEF HearsMore
  <2>7. HeardSoFar(v, z)'
    <3>1. Detach!FlattenSeq(Payloads(frames', v)) = SubSeq(typed', 1, z)
      BY <1>4, <1>7, <2>1, <2>5, <2>6, Zenon
    <3>2. z \in 0 .. Len(typed')
      BY <2>2, <2>3
    <3> QED
      BY <2>4, <2>6, <3>1, <3>2, Zenon
        DEF HeardSoFar, Cold, StopAt, KeyAt, CutAt, FullAt, Payloads, InputsUpTo
  <2>8. /\ Len(frames') = IF fed.detached THEN v + 1 ELSE v
        /\ fed.detached => frames'[v + 1].tag = "Detach"
    BY <1>11, Zenon DEF IsQueued
  <2>9. m < k => /\ m + 1 \in 1 .. k /\ n + (m + 1) = z + 1
                 /\ KeyAt(typed', z + 1) <=> KeyAt(d, m + 1)
    <3> SUFFICES ASSUME m < k
                 PROVE  /\ m + 1 \in 1 .. k /\ n + (m + 1) = z + 1
                        /\ KeyAt(typed', z + 1) <=> KeyAt(d, m + 1)
      OBVIOUS
    <3>1. m + 1 \in 1 .. k /\ n + (m + 1) = z + 1
      BY <2>3
    <3>2. Len(typed') = n + Len(d) /\ \A p \in 1 .. Len(d) : typed'[n + p] = d[p]
      BY <1>8, <2>2
    <3>3. m + 1 \in 1 .. Len(d)
      BY <1>8, <3>1
    <3>4. KeyAt(typed', n + (m + 1)) <=> KeyAt(d, m + 1)
      BY <1>5, <1>14, <3>2, <3>3, Shifted
    <3> QED
      BY <3>1, <3>4, Zenon
  <2>10. CASE m = Len(d) /\ ~ fed.detached /\ fed.carry = << >>
    <3>1. v = Len(frames') /\ carry' = << >> /\ Len(carry') = 0
      BY <1>1, <2>8, <2>10
    <3>2. Len(typed') = z + Len(carry')
      BY <1>8, <2>2, <2>3, <2>10, <3>1
    <3>3. \A p \in 1 .. Len(carry') : typed'[z + p] = carry'[p]
      BY <3>1
    <3>4. Attached(v, z)'
      BY <3>1, <3>2, <3>3, Zenon DEF Attached
    <3> QED
      BY <1>12, <1>14, <1>16, <2>7, <3>4 DEF DetachInv
  <2>11. CASE m < Len(d) /\ fed.detached /\ KeyAt(d, m + 1)
    <3>1. v < Len(frames') /\ frames'[v + 1].tag = "Detach"
      BY <2>8, <2>11
    <3>2. z < Len(typed') /\ KeyAt(typed', z + 1)
      BY <1>8, <2>2, <2>3, <2>9, <2>11
    <3>3. Gone(v, z)'
      BY <3>1, <3>2, Zenon DEF Gone, KeyAt, FullAt
    <3> QED
      BY <1>12, <1>14, <1>16, <2>7, <3>3 DEF DetachInv
  <2>12. CASE /\ m < Len(d) /\ ~ fed.detached /\ fed.carry = Detach!From(d, m + 1)
              /\ CutAt(d, m + 1) /\ ~ KeyAt(d, m + 1)
    <3>1. v = Len(frames') /\ carry' = Detach!From(d, m + 1)
      BY <1>1, <2>8, <2>12
    <3>2. m + 1 \in 1 .. Len(d) /\ m < k
      BY <1>8, <2>12
    <3>3. /\ Len(carry') = Len(d) - (m + 1) + 1
          /\ \A p \in 1 .. Len(d) - (m + 1) + 1 : carry'[p] = d[(m + 1) + p - 1]
      BY <1>5, <3>1, <3>2, TailIs
    <3>4. PICK r \in Nat : r = Len(carry') /\ k = m + r /\ r >= 1
      <4>1. k - (m + 1) + 1 \in Nat /\ k = m + (k - (m + 1) + 1) /\ k - (m + 1) + 1 >= 1
        BY <3>2
      <4> QED
        BY <1>8, <3>3, <4>1
    <3>5. \A p \in 1 .. r : d[m + p] = carry'[p]
      <4> TAKE p \in 1 .. r
      <4>1. p \in 1 .. Len(d) - (m + 1) + 1 /\ (m + 1) + p - 1 = m + p
        BY <1>8, <3>4
      <4> QED
        BY <3>3, <4>1, Zenon
    <3>6. \A p \in 1 .. r : typed'[z + p] = carry'[p]
      <4> TAKE p \in 1 .. r
      <4>1. PICK s \in 1 .. k : s = m + p /\ n + s = z + p
        <5>1. m + p \in 1 .. k /\ n + (m + p) = z + p
          BY <2>3, <3>4
        <5> QED
          BY <5>1
      <4>2. typed'[n + s] = d[s]
        BY <2>2, Zenon
      <4> QED
        BY <3>5, <4>1, <4>2, Zenon
    <3>7. Len(typed') = z + r
      BY <2>2, <2>3, <3>4
    <3>8. CutAt(carry', 1) /\ ~ KeyAt(carry', 1)
      <4>1. Len(d) = m + Len(carry') /\ \A p \in 1 .. Len(carry') : d[m + p] = carry'[p]
        BY <1>8, <3>4, <3>5
      <4>2. 1 \in 1 .. Len(carry')
        BY <3>4
      <4>3. (KeyAt(d, m + 1) <=> KeyAt(carry', 1)) /\ (CutAt(d, m + 1) <=> CutAt(carry', 1))
        BY <1>5, <1>16, <4>1, <4>2, Shifted
      <4> QED
        BY <2>12, <4>3, Zenon
    <3>9. Attached(v, z)'
      BY <3>1, <3>4, <3>6, <3>7, <3>8, Zenon DEF Attached, KeyAt, CutAt, FullAt
    <3> QED
      BY <1>12, <1>14, <1>16, <2>7, <3>9 DEF DetachInv
  <2> QED
    BY <1>7, <2>10, <2>11, <2>12, Zenon
<1> QED
  BY <1>3, <1>17, <1>18

LEMMA DetachNext == DetachInv /\ [Detach!Next]_detachVars => DetachInv'
<1> SUFFICES ASSUME DetachInv, [Detach!Next]_detachVars PROVE DetachInv'
  OBVIOUS
<1>1. CASE Detach!Next
  <2>1. PICK n \in 1 .. MaxStdinRead : \E input \in [1 .. n -> Detach!Bytes] :
                                         Detach!ReadStdin(input)
    BY <1>1 DEF Detach!Next
  <2>2. PICK input \in [1 .. n -> Detach!Bytes] : Detach!ReadStdin(input)
    BY <2>1
  <2>3. input \in Seq(Detach!Bytes)
    <3>1. n \in Nat
      OBVIOUS
    <3> DEFINE B == Detach!Bytes
    <3> HIDE DEF B
    <3>2. input \in [1 .. n -> B]
      BY DEF B
    <3>3. input \in Seq(B)
      BY ONLY <3>1, <3>2
    <3> QED
      BY <3>3 DEF B
  <2> QED
    BY <2>2, <2>3, DetachReads
<1>2. CASE UNCHANGED detachVars
  BY <1>2, Zenon DEF detachVars, DetachInv, HeardSoFar, Attached, Gone
<1> QED
  BY <1>1, <1>2

\* Nothing was typed that is a key while the client is attached.
LEMMA NoKeyYet ==
    ASSUME DetachInv, NEW u \in Nat, NEW n \in Nat, HeardSoFar(u, n), Attached(u, n)
    PROVE  /\ \A i \in 1 .. Len(typed) : ~ KeyAt(typed, i)
           /\ SubSeq(typed, 1, n) \o carry = typed
           /\ carry # << >> => Detach!IsPartial(carry)
<1>1. typed \in Seq(Detach!Bytes) /\ carry \in Seq(Detach!Bytes)
  BY DEF DetachInv
<1>2. PICK c \in Nat : c = Len(carry) /\ Len(typed) = n + c
  BY <1>1 DEF Attached
<1>3. /\ \A p \in 1 .. Len(carry) : typed[n + p] = carry[p]
      /\ Len(typed) = n + Len(carry)
      /\ carry # << >> => CutAt(carry, 1) /\ ~ KeyAt(carry, 1)
  BY DEF Attached
<1>4. \A i \in 1 .. n : ~ StopAt(typed, i)
  BY DEF HeardSoFar, Cold
<1>5. carry # << >> => c >= 1 /\ 1 \in 1 .. Len(carry)
  BY <1>1, <1>2, EmptySeq
<1>6. ASSUME NEW i \in 1 .. n + c, KeyAt(typed, i) PROVE FALSE
  <2>1. CASE i <= n
    <3>1. i \in 1 .. n
      BY <2>1
    <3> QED
      BY <1>4, <1>6, <3>1, Zenon DEF StopAt
  <2>2. CASE ~ (i <= n)
    <3>1. PICK j \in 1 .. c : i = n + j
      <4>1. i - n \in 1 .. c /\ i = n + (i - n)
        BY <2>2
      <4> QED
        BY <4>1
    <3>2. j \in 1 .. Len(carry) /\ carry # << >>
      BY <1>1, <1>2
    <3>3. KeyAt(typed, n + j) <=> KeyAt(carry, j)
      BY <1>1, <1>3, <3>2, Shifted
    <3>4. KeyAt(carry, j)
      BY <1>6, <3>1, <3>3, Zenon
    <3>5. CASE j = 1
      BY <1>3, <3>2, <3>4, <3>5, Zenon
    <3>6. CASE j # 1
      <4>1. j \in 1 + 1 .. Len(carry)
        BY <1>2, <3>6
      <4> QED
        BY <1>1, <1>3, <1>5, <3>2, <3>4, <4>1, NoneInside
    <3> QED
      BY <3>5, <3>6
  <2> QED
    BY <2>1, <2>2
<1>7. SubSeq(typed, 1, n) \o carry = typed
  <2>1. Continues(typed, typed) /\ EndsIn(typed, carry, n)
    <3>1. Len(typed) <= Len(typed)
      BY <1>1
    <3> QED
      BY <1>3, <3>1, Zenon DEF Continues, EndsIn
  <2>2. n <= Len(typed) /\ c <= Len(carry)
    BY <1>2
  <2>3. SubSeq(typed, 1, n) \o SubSeq(carry, 1, c) = SubSeq(typed, 1, n + c)
    BY <1>1, <2>1, <2>2, Joined
  <2>4. SubSeq(carry, 1, c) = carry /\ SubSeq(typed, 1, n + c) = typed
    BY <1>1, <1>2, SubSeqFull
  <2> QED
    BY <2>3, <2>4, Zenon
<1>8. ASSUME carry # << >> PROVE Detach!IsPartial(carry)
  <2>1. Detach!From(carry, 1) = carry
    BY <1>1, SubSeqFull DEF Detach!From
  <2>2. 1 \in 1 .. Len(carry) /\ CutAt(carry, 1) /\ ~ KeyAt(carry, 1)
    BY <1>3, <1>5, <1>8
  <2>3. Detach!IsPartial(Detach!From(carry, 1)) <=> ~ FullAt(carry, 1) /\ CutAt(carry, 1)
    BY <1>1, <2>2, StopIs
  <2> QED
    BY <2>1, <2>2, <2>3, Zenon DEF KeyAt
<1> QED
  BY <1>2, <1>6, <1>7, <1>8

LEMMA DetachIsExact == DetachInv => DetachesAtKey
<1> SUFFICES ASSUME DetachInv PROVE DetachesAtKey
  OBVIOUS
<1>1. PICK u \in Nat, n \in Nat : HeardSoFar(u, n) /\ (Attached(u, n) \/ Gone(u, n))
  BY DEF DetachInv
<1>2. typed \in Seq(Detach!Bytes) /\ frames \in Seq(ClientFrame)
  BY DEF DetachInv
<1>3. Detach!Heard = Payloads(frames, u) /\ (Detach!Detached <=> u < Len(frames))
  <2>1. u \in 0 .. Len(frames) /\ InputsUpTo(frames, u)
    BY <1>1 DEF HeardSoFar
  <2>2. u < Len(frames) => frames[u + 1].tag = "Detach"
    BY <1>1, <1>2 DEF Attached, Gone
  <2> QED
    BY <1>2, <2>1, <2>2, HeardIs
<1>4. Detach!FlattenSeq(Detach!Heard) = SubSeq(typed, 1, n)
  BY <1>1, <1>3, Zenon DEF HeardSoFar
<1>5. Detach!Keys = {i \in 1 .. Len(typed) : KeyAt(typed, i)}
  <2>1. \A i \in 1 .. Len(typed) : Detach!IsKey(Detach!From(typed, i)) <=> KeyAt(typed, i)
    BY <1>2, StopIs
  <2> QED
    BY <2>1, Zenon DEF Detach!Keys
<1>6. CASE Attached(u, n)
  <2>1. ~ Detach!Detached
    BY <1>2, <1>3, <1>6 DEF Attached
  <2>2. Detach!Keys = {}
    BY <1>1, <1>5, <1>6, NoKeyYet
  <2>3. Detach!DetachesAtKey
    BY <2>1, <2>2, Zenon DEF Detach!DetachesAtKey
  <2>4. Detach!NothingSwallowed
    BY <1>1, <1>4, <1>6, NoKeyYet DEF Detach!NothingSwallowed
  <2> QED
    BY <2>3, <2>4 DEF DetachesAtKey
<1>7. CASE Gone(u, n)
  <2>1. Detach!Detached /\ n < Len(typed) /\ KeyAt(typed, n + 1)
    BY <1>3, <1>7 DEF Gone
  <2>2. n + 1 \in Detach!Keys /\ Detach!Keys \subseteq Nat
    BY <1>2, <1>5, <2>1
  <2>3. ASSUME NEW j \in Detach!Keys PROVE n + 1 <= j
    <3>1. j \in 1 .. Len(typed) /\ KeyAt(typed, j)
      BY <1>5
    <3>2. ~ (j \in 1 .. n)
      BY <1>1, <3>1, Zenon DEF HeardSoFar, Cold, StopAt
    <3>3. Len(typed) \in Nat
      BY <1>2
    <3> QED
      BY <3>1, <3>2, <3>3
  <2> DEFINE k == CHOOSE i \in Detach!Keys : \A j \in Detach!Keys : i <= j
  <2>4. k \in Detach!Keys /\ \A j \in Detach!Keys : k <= j
    BY <2>2, LeastIs
  <2>5. k - 1 = n
    <3> HIDE DEF k
    <3>1. k <= n + 1 /\ n + 1 <= k /\ k \in Nat
      BY <2>2, <2>3, <2>4
    <3> QED
      BY <3>1
  <2>6. Detach!FlattenSeq(Detach!Heard) = SubSeq(typed, 1, k - 1)
    BY <1>4, <2>5, Zenon
  <2>7. Detach!DetachesAtKey
    BY <2>1, <2>2, <2>6, Zenon DEF Detach!DetachesAtKey
  <2> QED
    BY <2>1, <2>7 DEF DetachesAtKey, Detach!NothingSwallowed
<1> QED
  BY <1>1, <1>6, <1>7

\* For any keys typed and any cut of them into reads, the daemon has heard the
\* bytes before the first detach key and no others, or, while there is no key,
\* all that DetachMatcher does not hold back.
THEOREM DetachInvariant == Detach!Spec => []DetachInv
<1>1. Detach!Init => DetachInv
  BY DetachInit
<1>2. DetachInv /\ [Detach!Next]_detachVars => DetachInv'
  BY DetachNext
<1> QED
  BY <1>1, <1>2, PTL DEF Detach!Spec, Detach!vars, detachVars

\* DetachMatcher::feed finds the detach key wherever read(2) cuts it, the
\* session gets every byte before it and none of it or after it, and without a
\* key nothing is held back but what may still become one.
THEOREM DetachIsAtKey == Detach!Spec => []DetachesAtKey
  BY DetachInvariant, DetachIsExact, PTL
=============================================================================
