------------------------------ MODULE CaptureProofs ------------------------------
(***************************************************************************)
(* Proofs about the framing, the data of a capture, and the capture        *)
(* itself: for every scenario, fault, order and form of packets, and       *)
(* bound.                                                                  *)
(*                                                                         *)
(* The data: a VarInt and a packet are read as they were written; ByKey    *)
(* gives items the order of their keys; a registry comes back from its     *)
(* JSON as it was read, and the tags come back with their numeric ids.  So *)
(* what is served of a data set is a packet of its server at each place,   *)
(* and two data sets of one server are one.                                *)
(*                                                                         *)
(* The capture: CaptureInv is inductive, and implies the properties that   *)
(* the run VanillaCapture checks on a small instance.                      *)
(***************************************************************************)
EXTENDS VanillaCapture, TLAPS, SequenceTheorems, FiniteSetTheorems, NaturalsInduction, WellFoundedInduction

---------------------------------------------------------------------------
(* The framing *)

\* The length of a VarInt, its groups, and its bytes
VarIntSize(v) == IF v < 0 THEN MaxVarIntBytes
                 ELSE CHOOSE k \in 1..MaxVarIntBytes : /\ k = MaxVarIntBytes \/ v < Weight[k + 1]
                                                       /\ k = 1 \/ v >= Weight[k]
VarIntGroup(v, i) == (v \div Weight[i]) % (IF i = MaxVarIntBytes THEN 16 ELSE 128)
VarIntByte(v, i)  == VarIntGroup(v, i) + (IF i < VarIntSize(v) THEN 128 ELSE 0)

Int32 == {v \in Int : (-2147483648) <= v /\ v <= 2147483647}

(* A VarInt has one to five bytes, and as few as it can.                   *)
LEMMA VarIntSizeBounds ==
    ASSUME NEW v \in Int32
    PROVE  /\ VarIntSize(v) \in 1..5
           /\ v < 0 => VarIntSize(v) = 5
           /\ v >= 0 => /\ VarIntSize(v) = 5 \/ v < Weight[VarIntSize(v) + 1]
                        /\ VarIntSize(v) = 1 \/ v >= Weight[VarIntSize(v)]
<1> DEFINE P(k) == (k = 5 \/ v < Weight[k + 1]) /\ (k = 1 \/ v >= Weight[k])
<1>1. v >= 0 => \E k \in 1..5 : P(k)
  <2>1. Weight[1] = 1 /\ Weight[2] = 128 /\ Weight[3] = 16384 /\ Weight[4] = 2097152 /\ Weight[5] = 268435456
    BY SMT DEF Weight
  <2>2. CASE v < 128
    <3>1. P(1)
      BY SMT, <2>1, <2>2
    <3>2. QED
      BY SMT, <3>1
  <2>3. CASE v >= 128 /\ v < 16384
    <3>1. P(2)
      BY SMT, <2>1, <2>3
    <3>2. QED
      BY SMT, <3>1
  <2>4. CASE v >= 16384 /\ v < 2097152
    <3>1. P(3)
      BY SMT, <2>1, <2>4
    <3>2. QED
      BY SMT, <3>1
  <2>5. CASE v >= 2097152 /\ v < 268435456
    <3>1. P(4)
      BY SMT, <2>1, <2>5
    <3>2. QED
      BY SMT, <3>1
  <2>6. CASE v >= 268435456
    <3>1. P(5)
      BY SMT, <2>1, <2>6
    <3>2. QED
      BY SMT, <3>1
  <2>7. QED
    BY SMT, <2>2, <2>3, <2>4, <2>5, <2>6 DEF Int32
<1>2. v >= 0 => VarIntSize(v) = CHOOSE k \in 1..5 : P(k)
  BY SMT DEF VarIntSize, MaxVarIntBytes, Int32
<1>3. v >= 0 => VarIntSize(v) \in 1..5 /\ P(VarIntSize(v))
  <2> HIDE DEF P
  <2>1. (\E k \in 1..5 : P(k)) => (CHOOSE k \in 1..5 : P(k)) \in 1..5 /\ P(CHOOSE k \in 1..5 : P(k))
    BY ONLY Zenon
  <2>2. QED
    BY ONLY <1>1, <1>2, <2>1, Zenon
<1>4. v < 0 => VarIntSize(v) = 5
  BY SMT DEF VarIntSize, MaxVarIntBytes
<1>5. v \in Int
  BY DEF Int32
<1>6. PICK k : k = VarIntSize(v)
  OBVIOUS
<1>7. v >= 0 => k \in 1..5 /\ (k = 5 \/ v < Weight[k + 1]) /\ (k = 1 \/ v >= Weight[k])
  BY <1>3, <1>6
<1>8. v < 0 => k = 5
  BY <1>4, <1>6
<1>9. QED
  BY ONLY <1>5, <1>6, <1>7, <1>8, SMT

(* Each group has seven bits, the fifth four.                              *)
LEMMA VarIntGroupBounds ==
    ASSUME NEW v \in Int32, NEW i \in 1..5
    PROVE  /\ VarIntGroup(v, i) \in 0..127
           /\ i = 5 => VarIntGroup(v, i) \in 0..15
<1>1. i \in {1, 2, 3, 4, 5}
  BY SMT
<1>2. Weight[i] \in Nat \ {0}
  BY SMT, <1>1 DEF Weight
<1>3. PICK q \in Int : q = v \div Weight[i]
  BY SMT, <1>2 DEF Int32
<1>4. QED
  BY SMT, <1>3, <1>1 DEF VarIntGroup, MaxVarIntBytes

(* The groups of a number, each times what it counts, are the number.      *)
LEMMA VarIntValue ==
    ASSUME NEW v \in Int32
    PROVE  /\ v = VarIntGroup(v, 1) + (128 * VarIntGroup(v, 2)) + (16384 * VarIntGroup(v, 3))
                    + (2097152 * VarIntGroup(v, 4)) + (268435456 * (v \div 268435456))
           /\ VarIntGroup(v, 5) = (v \div 268435456) % 16
<1>1. /\ VarIntGroup(v, 1) = v % 128
      /\ VarIntGroup(v, 2) = (v \div 128) % 128
      /\ VarIntGroup(v, 3) = (v \div 16384) % 128
      /\ VarIntGroup(v, 4) = (v \div 2097152) % 128
      /\ VarIntGroup(v, 5) = (v \div 268435456) % 16
  BY SMT DEF VarIntGroup, Weight, MaxVarIntBytes, Int32
<1>2. v \in Int
  BY SMT DEF Int32
<1>3. v = (v % 128) + (128 * (v \div 128))
  BY SMT, <1>2
<1>4. v \div 128 = ((v \div 128) % 128) + (128 * (v \div 16384))
  BY SMT, <1>2
<1>5. v \div 16384 = ((v \div 16384) % 128) + (128 * (v \div 2097152))
  BY SMT, <1>2
<1>6. v \div 2097152 = ((v \div 2097152) % 128) + (128 * (v \div 268435456))
  BY SMT, <1>2
<1>7. QED
  BY SMT, <1>1, <1>2, <1>3, <1>4, <1>5, <1>6

(* What AppendVarInt appends.                                              *)
LEMMA VarIntBytes ==
    ASSUME NEW v \in Int32
    PROVE  /\ AppendVarInt(<<>>, v) \in Seq(Nat)
           /\ Len(AppendVarInt(<<>>, v)) = VarIntSize(v)
           /\ \A i \in 1..VarIntSize(v) : /\ AppendVarInt(<<>>, v)[i] = VarIntByte(v, i)
                                          /\ VarIntByte(v, i) \in Nat
                                          /\ i < VarIntSize(v) => VarIntByte(v, i) >= 128
                                          /\ i = VarIntSize(v) => VarIntByte(v, i) < 128
                                          /\ VarIntByte(v, i) % 128 = VarIntGroup(v, i)
                                          /\ i = VarIntSize(v) => VarIntByte(v, i) = VarIntGroup(v, i)
<1> DEFINE n == VarIntSize(v)
           bytes == [i \in 1..n |-> VarIntByte(v, i)]
<1>1. n \in 1..5
  BY VarIntSizeBounds
<1>2. AppendVarInt(<<>>, v) = <<>> \o bytes
  BY DEF AppendVarInt, VarIntByte, VarIntGroup, VarIntSize
<1>3. ASSUME NEW i \in 1..n
      PROVE  /\ VarIntByte(v, i) \in Nat
             /\ i < n => VarIntByte(v, i) >= 128
             /\ i = n => VarIntByte(v, i) < 128
             /\ VarIntByte(v, i) % 128 = VarIntGroup(v, i)
             /\ i = n => VarIntByte(v, i) = VarIntGroup(v, i)
  <2>1. i \in 1..5
    BY <1>1
  <2>2. VarIntGroup(v, i) \in 0..127
    BY <2>1, VarIntGroupBounds
  <2>3. QED
    BY <1>1, <2>1, <2>2 DEF VarIntByte
<1>4. bytes \in Seq(Nat) /\ Len(bytes) = n
  <2> HIDE DEF n
  <2>1. bytes \in [1..n -> Nat]
    BY <1>3
  <2>2. QED
    BY <1>1, <2>1
<1>5. <<>> \o bytes = bytes
  BY <1>4, ConcatEmptySeq
<1>6. QED
  BY <1>2, <1>3, <1>4, <1>5

(* The groups that are written add up to the number: those that are not    *)
(* written are zero, and the fifth has its sign.                           *)
LEMMA VarIntSum ==
    ASSUME NEW v \in Int32
    PROVE  LET n == VarIntSize(v)
               top == IF n = 5 THEN Signed(VarIntGroup(v, 5) % 16, 16) ELSE VarIntGroup(v, n)
               Part(i) == IF i > n THEN 0 ELSE Weight[i] * (IF i = n THEN top ELSE VarIntGroup(v, i))
           IN Part(1) + Part(2) + Part(3) + Part(4) + Part(5) = v
<1> DEFINE n == VarIntSize(v)
           G(i) == VarIntGroup(v, i)
           top == IF n = 5 THEN Signed(G(5) % 16, 16) ELSE G(n)
           Part(i) == IF i > n THEN 0 ELSE Weight[i] * (IF i = n THEN top ELSE G(i))
<1>1. n \in 1..5 /\ v \in Int /\ (v < 0 => n = 5)
  BY SMT, VarIntSizeBounds DEF Int32
<1>2. /\ G(1) \in 0..127 /\ G(2) \in 0..127 /\ G(3) \in 0..127 /\ G(4) \in 0..127 /\ G(5) \in 0..15
  BY VarIntGroupBounds
<1>3. PICK q \in Int : q = v \div 268435456
  BY SMT, <1>1
<1>4. /\ v = G(1) + (128 * G(2)) + (16384 * G(3)) + (2097152 * G(4)) + (268435456 * q)
      /\ G(5) = q % 16
  BY SMT, <1>3, VarIntValue
<1>5. /\ Weight[1] = 1 /\ Weight[2] = 128 /\ Weight[3] = 16384
      /\ Weight[4] = 2097152 /\ Weight[5] = 268435456
  BY SMT DEF Weight
<1>6. q \in (-8)..7
  BY SMT, <1>1, <1>3 DEF Int32
<1>7. q >= 0 => G(5) = q
  BY <1>4, <1>6
<1>8. q < 0 => G(5) = q + 16
  BY <1>4, <1>6
<1>9. Signed(G(5) % 16, 16) = q
  BY <1>2, <1>6, <1>7, <1>8 DEF Signed
<1>10. top = IF n = 5 THEN q ELSE G(n)
  BY <1>9
<1> HIDE DEF n, G, top
<1>11. n = 5 => Part(1) = G(1) /\ Part(2) = 128 * G(2) /\ Part(3) = 16384 * G(3)
                /\ Part(4) = 2097152 * G(4) /\ Part(5) = 268435456 * q
  BY SMT, <1>2, <1>5, <1>6, <1>10
<1>12. n \in 1..4 => v >= 0 /\ v < Weight[n + 1] /\ q = 0
  <2>1. n \in 1..4 => v >= 0 /\ v < Weight[n + 1]
    BY SMT, <1>1, VarIntSizeBounds DEF n
  <2>2. n \in 1..4 => v < 268435456
    BY SMT, <1>1, <1>5, <2>1
  <2>3. QED
    BY SMT, <1>1, <1>3, <2>1, <2>2
<1>13. n = 4 => Part(1) = G(1) /\ Part(2) = 128 * G(2) /\ Part(3) = 16384 * G(3)
                /\ Part(4) = 2097152 * G(4) /\ Part(5) = 0
  BY SMT, <1>2, <1>5, <1>10
<1>14. n = 3 => Part(1) = G(1) /\ Part(2) = 128 * G(2) /\ Part(3) = 16384 * G(3)
                /\ Part(4) = 0 /\ Part(5) = 0 /\ v < 2097152
  BY SMT, <1>2, <1>5, <1>10, <1>12
<1>15. n = 2 => Part(1) = G(1) /\ Part(2) = 128 * G(2) /\ Part(3) = 0
                /\ Part(4) = 0 /\ Part(5) = 0 /\ v < 16384
  BY SMT, <1>2, <1>5, <1>10, <1>12
<1>16. n = 1 => Part(1) = G(1) /\ Part(2) = 0 /\ Part(3) = 0
                /\ Part(4) = 0 /\ Part(5) = 0 /\ v < 128
  BY SMT, <1>2, <1>5, <1>10, <1>12
<1> HIDE DEF Part
<1>18. n \in 1..4 => /\ v < 2097152 => G(4) = 0
                     /\ v < 16384 => G(3) = 0 /\ G(4) = 0
                     /\ v < 128 => G(2) = 0 /\ G(3) = 0 /\ G(4) = 0
  <2>1. PICK a \in 0..127 : a = G(1)
    BY <1>2
  <2>2. PICK b \in 0..127 : b = G(2)
    BY <1>2
  <2>3. PICK c \in 0..127 : c = G(3)
    BY <1>2
  <2>4. PICK d \in 0..127 : d = G(4)
    BY <1>2
  <2>5. ASSUME n \in 1..4
        PROVE  /\ v < 2097152 => d = 0
               /\ v < 16384 => c = 0 /\ d = 0
               /\ v < 128 => b = 0 /\ c = 0 /\ d = 0
    <3>1. v = a + (128 * b) + (16384 * c) + (2097152 * d)
      BY SMT, <1>4, <1>12, <2>1, <2>2, <2>3, <2>4, <2>5
    <3>2. v \in Int
      BY <1>1
    <3>3. QED
      <4>1. PICK w \in Int : w = v
        BY <3>2
      <4>2. w = a + (128 * b) + (16384 * c) + (2097152 * d)
        BY SMT, <3>1, <4>1
      <4>3. /\ w < 2097152 => d = 0
            /\ w < 16384 => c = 0 /\ d = 0
            /\ w < 128 => b = 0 /\ c = 0 /\ d = 0
        BY SMT, <4>2
      <4>4. QED
        BY SMT, <4>1, <4>3
  <2>6. QED
    BY SMT, <2>2, <2>3, <2>4, <2>5
<1>17. Part(1) + Part(2) + Part(3) + Part(4) + Part(5) = v
  <2>1. n = 5 => Part(1) + Part(2) + Part(3) + Part(4) + Part(5) = v
    BY SMT, <1>2, <1>4, <1>6, <1>11
  <2>2. n = 4 => Part(1) + Part(2) + Part(3) + Part(4) + Part(5) = v
    BY SMT, <1>2, <1>4, <1>6, <1>12, <1>13
  <2>3. n = 3 => Part(1) + Part(2) + Part(3) + Part(4) + Part(5) = v
    <3>1. n = 3 => G(4) = 0
      BY SMT, <1>14, <1>18
    <3>2. QED
      BY SMT, <1>2, <1>4, <1>12, <1>14, <3>1
  <2>4. n = 2 => Part(1) + Part(2) + Part(3) + Part(4) + Part(5) = v
    <3>1. n = 2 => G(4) = 0 /\ G(3) = 0
      BY SMT, <1>15, <1>18
    <3>2. QED
      BY SMT, <1>2, <1>4, <1>12, <1>15, <3>1
  <2>5. n = 1 => Part(1) + Part(2) + Part(3) + Part(4) + Part(5) = v
    <3>1. n = 1 => G(4) = 0 /\ G(3) = 0 /\ G(2) = 0
      BY SMT, <1>16, <1>18
    <3>2. QED
      BY SMT, <1>2, <1>4, <1>12, <1>16, <3>1
  <2>6. QED
    BY SMT, <1>1, <2>1, <2>2, <2>3, <2>4, <2>5
<1>19. QED
  BY <1>17 DEF n, G, top, Part

(* A stream that starts with the bytes of a VarInt is read as the number   *)
(* and the rest.                                                           *)
LEMMA ReadVarIntAtHead ==
    ASSUME NEW v \in Int32, NEW b \in Seq(Nat), VarIntSize(v) <= Len(b),
           \A i \in 1..VarIntSize(v) : b[i] = VarIntByte(v, i)
    PROVE  ReadVarInt(b) = << v, Rest(b, VarIntSize(v)) >>
<1> DEFINE n == VarIntSize(v)
           ends == {i \in 1..MaxVarIntBytes : i <= Len(b) /\ b[i] < 128}
           first == CHOOSE i \in ends : \A j \in ends : i <= j
           last == IF first = MaxVarIntBytes THEN Signed(b[first] % 16, 16) ELSE b[first]
           Group(i) == IF i > first THEN 0 ELSE Weight[i] * (IF i = first THEN last ELSE b[i] % 128)
<1>1. n \in 1..5
  BY VarIntSizeBounds
<1>2. \A i \in 1..n : /\ i < n => b[i] >= 128
                      /\ i = n => b[i] < 128
                      /\ b[i] % 128 = VarIntGroup(v, i)
                      /\ i = n => b[i] = VarIntGroup(v, i)
  BY VarIntBytes
<1>3. n \in ends /\ \A j \in ends : n <= j
  <2>1. n \in ends
    BY <1>1, <1>2 DEF MaxVarIntBytes
  <2>2. ASSUME NEW j \in ends, j < n PROVE FALSE
    <3>1. j \in 1..n /\ b[j] >= 128 /\ b[j] < 128 /\ b[j] \in Nat
      BY <1>1, <1>2, <2>2 DEF MaxVarIntBytes
    <3>2. QED
      BY <3>1
  <2>3. QED
    BY <1>1, <2>1, <2>2 DEF MaxVarIntBytes
<1>4. first = n
  <2>1. ends \subseteq 1..5
    BY DEF MaxVarIntBytes
  <2> HIDE DEF ends, n
  <2>2. \E i \in ends : \A j \in ends : i <= j
    BY <1>3
  <2>3. first \in ends /\ \A j \in ends : first <= j
    BY <2>2
  <2> HIDE DEF first
  <2>4. first \in 1..5 /\ n <= first /\ first <= n
    BY <1>3, <2>1, <2>3
  <2>5. QED
    BY <1>1, <2>4
<1> DEFINE top == IF n = 5 THEN Signed(VarIntGroup(v, 5) % 16, 16) ELSE VarIntGroup(v, n)
           Part(i) == IF i > n THEN 0 ELSE Weight[i] * (IF i = n THEN top ELSE VarIntGroup(v, i))
<1>5. last = top
  <2> HIDE DEF n, first
  <2>1. QED
    BY <1>1, <1>2, <1>4 DEF MaxVarIntBytes
<1>6. \A i \in 1..5 : Group(i) = Part(i)
  <2> HIDE DEF n, first, last, top
  <2>1. QED
    BY <1>1, <1>2, <1>4, <1>5
<1>7. Part(1) + Part(2) + Part(3) + Part(4) + Part(5) = v
  BY VarIntSum
<1>8. Group(1) + Group(2) + Group(3) + Group(4) + Group(5) = v
  <2> HIDE DEF Group, Part
  <2>1. QED
    BY <1>6, <1>7
<1> HIDE DEF Group
<1>9. ReadVarInt(b) = << Group(1) + Group(2) + Group(3) + Group(4) + Group(5), Rest(b, first) >>
  BY <1>3 DEF ReadVarInt, Group
<1>10. QED
  BY <1>4, <1>8, <1>9

(* A stream that ends within a VarInt cannot be read.                      *)
LEMMA ReadVarIntCutShort ==
    ASSUME NEW v \in Int32, NEW b \in Seq(Nat), Len(b) < VarIntSize(v),
           \A i \in 1..Len(b) : b[i] = VarIntByte(v, i)
    PROVE  ReadVarInt(b) = Fail
<1>1. VarIntSize(v) \in 1..5 /\ Len(b) \in Nat
  BY VarIntSizeBounds
<1>2. ASSUME NEW i \in 1..MaxVarIntBytes, i <= Len(b), b[i] < 128 PROVE FALSE
  <2>1. i \in 1..Len(b) /\ i \in 1..VarIntSize(v) /\ i < VarIntSize(v)
    BY <1>1, <1>2
  <2>2. VarIntByte(v, i) \in Nat /\ VarIntByte(v, i) >= 128
    BY <2>1, VarIntBytes
  <2>3. QED
    BY <1>2, <2>1, <2>2
<1>3. {i \in 1..MaxVarIntBytes : i <= Len(b) /\ b[i] < 128} = {}
  BY <1>2
<1>4. QED
  BY <1>3 DEF ReadVarInt

(* What is behind the head of a stream.                                    *)
LEMMA RestOfConcat ==
    ASSUME NEW h \in Seq(Nat), NEW t \in Seq(Nat)
    PROVE  Rest(h \o t, Len(h)) = t
<1> DEFINE b == h \o t
           r == SubSeq(b, Len(h) + 1, Len(b))
<1>1. /\ b \in Seq(Nat) /\ Len(b) = Len(h) + Len(t)
      /\ \A i \in 1..Len(h) + Len(t) : b[i] = IF i <= Len(h) THEN h[i] ELSE t[i - Len(h)]
  BY ConcatProperties
<1>2. Len(h) \in Nat /\ Len(t) \in Nat
  OBVIOUS
<1>3. \A i \in (Len(h) + 1)..Len(b) : b[i] \in Nat
  BY <1>1, <1>2, ElementOfSeq
<1> HIDE DEF b
<1>4. r \in Seq(Nat) /\ Len(r) = Len(t) /\ \A i \in 1..Len(t) : r[i] = b[Len(h) + 1 + i - 1]
  BY <1>1, <1>2, <1>3, SubSeqProperties, SMTT(60)
<1>5. ASSUME NEW i \in 1..Len(t) PROVE r[i] = t[i]
  <2>1. Len(h) + i \in 1..(Len(h) + Len(t)) /\ ~(Len(h) + i <= Len(h)) /\ (Len(h) + i) - Len(h) = i
    BY <1>2
  <2>2. b[Len(h) + i] = t[i]
    BY <1>1, <2>1
  <2>3. ((Len(h) + 1) + i) - 1 = Len(h) + i
    BY <1>2
  <2>4. QED
    BY <1>4, <2>2, <2>3
<1>6. r = t
  BY <1>4, <1>5, SeqEqual
<1>7. QED
  BY <1>6 DEF b, Rest

(* A number is read as it was written.                                     *)
THEOREM VarIntRoundTrip ==
    ASSUME NEW v \in Int32, NEW rest \in Seq(Nat)
    PROVE  ReadVarInt(AppendVarInt(<<>>, v) \o rest) = << v, rest >>
<1> DEFINE h == AppendVarInt(<<>>, v)
           b == h \o rest
<1>1. h \in Seq(Nat) /\ Len(h) = VarIntSize(v) /\ VarIntSize(v) \in 1..5
  BY VarIntBytes, VarIntSizeBounds
<1>2. /\ b \in Seq(Nat) /\ Len(b) = VarIntSize(v) + Len(rest)
      /\ \A i \in 1..VarIntSize(v) : b[i] = h[i]
  BY <1>1
<1>3. \A i \in 1..VarIntSize(v) : b[i] = VarIntByte(v, i)
  BY <1>2, VarIntBytes
<1>4. ReadVarInt(b) = << v, Rest(b, VarIntSize(v)) >>
  <2>1. VarIntSize(v) <= Len(b)
    BY <1>1, <1>2
  <2> HIDE DEF b
  <2>2. QED
    BY <1>2, <1>3, <2>1, ReadVarIntAtHead
<1>5. Rest(b, VarIntSize(v)) = rest
  BY <1>1, RestOfConcat
<1>6. QED
  BY <1>4, <1>5

(* A packet as it is written: its length, its id and its payload.          *)
LEMMA FrameOfPacket ==
    ASSUME NEW id \in Int32, NEW payload \in Seq(Nat), WritePacket(id, payload) # Fail
    PROVE  LET body == AppendVarInt(<<>>, id) \o payload
           IN /\ body \in Seq(Nat)
              /\ Len(body) \in 1..MaxPacketSize
              /\ Len(body) \in Int32
              /\ AppendVarInt(<<>>, Len(body)) \in Seq(Nat)
              /\ WritePacket(id, payload) = AppendVarInt(<<>>, Len(body)) \o body
              /\ WritePacket(id, payload) \in Seq(Nat)
<1> DEFINE header == AppendVarInt(<<>>, id)
           body == header \o payload
           total == Len(header) + Len(payload)
           size == AppendVarInt(<<>>, total)
<1>1. id \in Int32
  OBVIOUS
<1>2. header \in Seq(Nat) /\ Len(header) \in Nat
  BY <1>1, VarIntBytes
<1> HIDE DEF header
<1>3. body \in Seq(Nat) /\ Len(body) = total /\ total \in Nat
  BY <1>2
<1>4. /\ ~(total <= 0 \/ total > MaxPacketSize)
      /\ WritePacket(id, payload) = size \o header \o payload
  BY DEF WritePacket, header
<1>5. MaxPacketSize \in Nat /\ MaxPacketSize <= 2097152
  BY SMT, SizesAssumption
<1>6. total \in 1..MaxPacketSize /\ total \in Int32
  BY SMT, <1>3, <1>4, <1>5 DEF Int32
<1> HIDE DEF total
<1>7. size \in Seq(Nat)
  BY <1>6, VarIntBytes
<1> HIDE DEF size
<1>8. (size \o header) \o payload = size \o body
  <2>1. ASSUME NEW x \in Seq(Nat), NEW y \in Seq(Nat), NEW z \in Seq(Nat)
        PROVE  (x \o y) \o z = x \o (y \o z)
    BY ONLY x \in Seq(Nat), y \in Seq(Nat), z \in Seq(Nat), ConcatAssociative, SMTT(60)
  <2>2. size \in Seq(Nat) /\ header \in Seq(Nat) /\ payload \in Seq(Nat)
    BY <1>2, <1>7
  <2>3. (size \o header) \o payload = size \o (header \o payload)
    BY ONLY <2>1, <2>2, Zenon
  <2>4. QED
    BY <2>3
<1>9. size \o body \in Seq(Nat)
  BY <1>3, <1>7
<1>10. QED
  BY <1>3, <1>4, <1>6, <1>7, <1>8, <1>9 DEF header, size

(* A packet is read as it was written.                                     *)
THEOREM PacketRoundTrip ==
    ASSUME NEW id \in Int32, NEW payload \in Seq(Nat), WritePacket(id, payload) # Fail
    PROVE  ReadPacket(WritePacket(id, payload)) = << id, payload >>
<1> DEFINE body == AppendVarInt(<<>>, id) \o payload
<1>1. id \in Int32
  OBVIOUS
<1>2. ReadVarInt(body) = << id, payload >>
  BY <1>1, VarIntRoundTrip
<1>3. /\ body \in Seq(Nat) /\ Len(body) \in 1..MaxPacketSize /\ Len(body) \in Int32
      /\ WritePacket(id, payload) = AppendVarInt(<<>>, Len(body)) \o body
  BY FrameOfPacket
<1> HIDE DEF body
<1>4. PICK total \in Int32 : total = Len(body)
  BY <1>3
<1>5. ReadVarInt(WritePacket(id, payload)) = << total, body >>
  BY <1>3, <1>4, VarIntRoundTrip
<1>6. total \in Nat /\ ~(total <= 0 \/ total > MaxPacketSize)
  <2>1. MaxPacketSize \in Int
    BY SMT, SizesAssumption
  <2>2. QED
    BY <1>3, <1>4, <2>1
<1>7. SubSeq(body, 1, total) = body
  BY <1>3, <1>4, SubSeqFull
<1>8. ReadFull(body, total)[1] = body /\ ReadFull(body, total) # Fail
  BY <1>4, <1>6, <1>7 DEF ReadFull, Fail
<1>9. QED
  BY <1>2, <1>5, <1>6, <1>8 DEF ReadPacket, Then, Fail

(* A packet that has not arrived in full cannot be read.                   *)
THEOREM PacketCutShort ==
    ASSUME NEW id \in Int32, NEW payload \in Seq(Nat), WritePacket(id, payload) # Fail,
           NEW n \in Nat, n < Len(WritePacket(id, payload))
    PROVE  ReadPacket(SubSeq(WritePacket(id, payload), 1, n)) = Fail
<1> DEFINE body == AppendVarInt(<<>>, id) \o payload
           frame == WritePacket(id, payload)
           b == SubSeq(frame, 1, n)
<1>1. /\ body \in Seq(Nat) /\ Len(body) \in 1..MaxPacketSize /\ Len(body) \in Int32
      /\ frame = AppendVarInt(<<>>, Len(body)) \o body
  BY FrameOfPacket
<1> HIDE DEF body, frame
<1>2. PICK total \in Int32 : total = Len(body)
  BY <1>1
<1>3. PICK k \in 1..5 : k = VarIntSize(total)
  BY VarIntSizeBounds
<1>4. PICK size \in Seq(Nat) : size = AppendVarInt(<<>>, total)
  BY VarIntBytes
<1>5. /\ Len(size) = k
      /\ \A i \in 1..k : size[i] = VarIntByte(total, i)
  BY <1>3, <1>4, VarIntBytes
<1>6. frame = size \o body /\ frame \in Seq(Nat) /\ Len(frame) = k + total /\ total \in Nat
  <2>1. frame = size \o body /\ body \in Seq(Nat) /\ size \in Seq(Nat)
    BY <1>1, <1>2, <1>4
  <2>2. Len(size) = k /\ Len(body) = total /\ total \in Nat
    BY <1>1, <1>2, <1>5
  <2>3. size \o body \in Seq(Nat) /\ Len(size \o body) = Len(size) + Len(body)
    BY ONLY <2>1, ConcatProperties
  <2>4. QED
    BY ONLY <2>1, <2>2, <2>3
<1>7. ASSUME NEW i \in 1..k PROVE frame[i] = VarIntByte(total, i)
  <2>1. \A j \in 1..Len(size) + Len(body) :
          (size \o body)[j] = IF j <= Len(size) THEN size[j] ELSE body[j - Len(size)]
    BY <1>1, ConcatProperties
  <2>2. i \in 1..Len(size) + Len(body) /\ i <= Len(size)
    BY ONLY i \in 1..k, <1>2, <1>3, <1>5, <1>6
  <2>3. QED
    BY <1>5, <1>6, <2>1, <2>2
<1>8. n < k + total
  BY <1>6 DEF frame
<1>9. /\ b \in Seq(Nat) /\ Len(b) = n
      /\ \A i \in 1..n : b[i] = frame[i]
  <2>1. ASSUME NEW i \in 1..n PROVE frame[i] \in Nat
    <3>1. i \in 1..Len(frame)
      BY <1>6, <1>8
    <3>2. QED
      BY <1>6, <3>1, ElementOfSeq
  <2>2. \A i \in 1..n : frame[i] \in Nat
    BY <2>1
  <2>3. /\ SubSeq(frame, 1, n) \in Seq(Nat)
        /\ Len(SubSeq(frame, 1, n)) = IF 1 <= n THEN (n - 1) + 1 ELSE 0
        /\ \A i \in 1..((n - 1) + 1) : SubSeq(frame, 1, n)[i] = frame[(1 + i) - 1]
    BY <2>2, SubSeqProperties
  <2>4. (n - 1) + 1 = n /\ \A i \in 1..n : (1 + i) - 1 = i
    OBVIOUS
  <2>5. QED
    BY <2>3, <2>4
<1> HIDE DEF b
<1>10. CASE n < k
  <2>1. ASSUME NEW i \in 1..Len(b) PROVE b[i] = VarIntByte(total, i)
    <3>1. i \in 1..n /\ i \in 1..k
      BY <1>9, <1>10
    <3>2. QED
      BY <1>7, <1>9, <3>1
  <2>2. ReadVarInt(b) = Fail
    BY <1>3, <1>9, <1>10, <2>1, ReadVarIntCutShort
  <2>3. QED
    BY <2>2 DEF ReadPacket, Then, b, frame
<1>11. CASE n >= k
  <2>1. k <= Len(b) /\ \A i \in 1..k : b[i] = VarIntByte(total, i)
    <3>1. k <= n /\ \A i \in 1..k : i \in 1..n
      BY <1>11
    <3>2. QED
      BY <1>7, <1>9, <3>1
  <2>2. ReadVarInt(b) = << total, Rest(b, k) >>
    BY <1>3, <1>9, <2>1, ReadVarIntAtHead
  <2>3. Len(Rest(b, k)) < total
    <3>1. \A i \in (k + 1)..n : b[i] \in Nat
      BY <1>9, <1>11, ElementOfSeq
    <3>2. Len(SubSeq(b, k + 1, n)) = IF k + 1 <= n THEN n - (k + 1) + 1 ELSE 0
      BY <1>9, <1>11, <3>1, SubSeqProperties
    <3>3. Rest(b, k) = SubSeq(b, k + 1, n)
      BY <1>9 DEF Rest
    <3>4. total > 0 /\ total \in Nat
      BY ONLY <1>1, <1>2, <1>6
    <3>5. n \in Nat /\ k \in Nat
      BY ONLY n \in Nat, <1>3
    <3>6. QED
      BY ONLY <1>8, <1>11, <3>2, <3>3, <3>4, <3>5
  <2>4. ReadFull(Rest(b, k), total) = Fail
    BY <2>3 DEF ReadFull
  <2>5. QED
    BY <2>2, <2>4 DEF ReadPacket, Then, Fail, b, frame
<1>12. QED
  BY <1>10, <1>11

(* Nothing can be read of nothing.                                         *)
LEMMA NoPacket == ReadPacket(<<>>) = Fail
<1>1. {i \in 1..MaxVarIntBytes : i <= Len(<<>>) /\ <<>>[i] < 128} = {}
  OBVIOUS
<1>2. ReadVarInt(<<>>) = Fail
  BY <1>1 DEF ReadVarInt
<1>3. QED
  BY <1>2 DEF ReadPacket, Then

---------------------------------------------------------------------------
(* The order of keys *)

\* How many numbers of a set are below n
Below(S, n) == Cardinality({m \in S : m < n})

(* As many are below the numbers of a set as it has numbers before them,   *)
(* so each has its place.                                                  *)
LEMMA PlacesOfNumbers ==
    ASSUME NEW S \in SUBSET Nat, IsFiniteSet(S)
    PROVE  /\ Cardinality(S) \in Nat
           /\ \A n \in S : Below(S, n) \in 0..(Cardinality(S) - 1)
           /\ \A n, k \in S : Below(S, n) = Below(S, k) => n = k
<1>1. Cardinality(S) \in Nat
  BY FS_CardinalityType
<1>2. ASSUME NEW n \in S PROVE IsFiniteSet({m \in S : m < n}) /\ Below(S, n) \in Nat
  <2>1. {m \in S : m < n} \in SUBSET S
    OBVIOUS
  <2>2. IsFiniteSet({m \in S : m < n})
    BY <2>1, FS_Subset
  <2>3. QED
    BY <2>2, FS_CardinalityType DEF Below
<1>3. ASSUME NEW n \in S, NEW T \in SUBSET S, IsFiniteSet(T), n \in T, \A m \in S : m < n => m \in T
      PROVE  Below(S, n) < Cardinality(T)
  <2>1. PICK U : U = {m \in S : m < n}
    OBVIOUS
  <2>2. n \notin U
    <3>1. n \in Nat
      OBVIOUS
    <3>2. ~(n < n)
      BY ONLY <3>1
    <3>3. QED
      BY ONLY <2>1, <3>2
  <2>3. U \union {n} \in SUBSET T
    BY ONLY <1>3, <2>1
  <2>4. IsFiniteSet(U) /\ Below(S, n) = Cardinality(U)
    BY <1>2, <2>1 DEF Below
  <2>5. IsFiniteSet(U \union {n}) /\ Cardinality(U \union {n}) = Cardinality(U) + 1
    BY <2>2, <2>4, FS_AddElement
  <2>6. Cardinality(U \union {n}) <= Cardinality(T)
    BY <1>3, <2>3, FS_Subset
  <2>7. Cardinality(T) \in Nat /\ Cardinality(U) \in Nat
    BY <1>3, <2>4, FS_CardinalityType
  <2>8. QED
    BY <2>4, <2>5, <2>6, <2>7
<1>4. ASSUME NEW n \in S PROVE Below(S, n) \in 0..(Cardinality(S) - 1)
  <2>1. PICK T \in SUBSET S : T = S
    OBVIOUS
  <2>2. IsFiniteSet(T) /\ n \in T /\ \A m \in S : m < n => m \in T
    BY <2>1
  <2>3. Below(S, n) < Cardinality(T)
    BY ONLY <1>3, <2>2, n \in S, T \in SUBSET S
  <2>4. Below(S, n) \in Nat
    BY <1>2
  <2>5. QED
    BY ONLY <1>1, <2>1, <2>3, <2>4
<1>5. ASSUME NEW n \in S, NEW k \in S, n < k PROVE Below(S, n) # Below(S, k)
  <2>1. PICK T \in SUBSET S : T = {m \in S : m < k}
    OBVIOUS
  <2>2. n \in T /\ \A m \in S : m < n => m \in T
    <3>1. n \in Nat /\ k \in Nat /\ \A m \in S : m \in Nat
      OBVIOUS
    <3>2. QED
      BY <1>5, <2>1, <3>1
  <2>3. IsFiniteSet(T) /\ Below(S, k) = Cardinality(T)
    BY <1>2, <2>1 DEF Below
  <2>4. Below(S, n) < Below(S, k)
    BY ONLY <1>3, <2>2, <2>3, n \in S, T \in SUBSET S
  <2>5. Below(S, n) \in Nat /\ Below(S, k) \in Nat
    BY <1>2
  <2>6. QED
    BY ONLY <2>4, <2>5
<1>6. ASSUME NEW n \in S, NEW k \in S, Below(S, n) = Below(S, k) PROVE n = k
  <2>1. ~(n < k) /\ ~(k < n)
    BY <1>5, <1>6
  <2>2. n \in Nat /\ k \in Nat
    OBVIOUS
  <2>3. QED
    BY <2>1, <2>2
<1>7. QED
  BY <1>1, <1>4, <1>6

(* Ascending has each number of a finite set once.                         *)
LEMMA AscendingNumbers ==
    ASSUME NEW S \in SUBSET Nat, IsFiniteSet(S)
    PROVE  /\ Cardinality(S) \in Nat
           /\ Ascending(S) = [i \in 1..Cardinality(S) |-> Ascending(S)[i]]
           /\ \A i \in 1..Cardinality(S) : Ascending(S)[i] \in S
           /\ \A i, j \in 1..Cardinality(S) : Ascending(S)[i] = Ascending(S)[j] => i = j
           /\ \A n \in S : \E i \in 1..Cardinality(S) : Ascending(S)[i] = n
<1>1. PICK c : c = Cardinality(S)
  OBVIOUS
<1>2. /\ c \in Nat
      /\ \A n \in S : Below(S, n) \in 0..(c - 1)
      /\ \A n, k \in S : Below(S, n) = Below(S, k) => n = k
  BY <1>1, PlacesOfNumbers
<1> DEFINE place == [n \in S |-> Below(S, n)]
<1>3. place \in Injection(S, 0..(c - 1))
  BY <1>2 DEF Injection, IsInjective
<1>4. IsFiniteSet(0..(c - 1)) /\ Cardinality(0..(c - 1)) = c
  <2>1. 0 \in Int /\ (c - 1) \in Int
    BY <1>2
  <2>2. IsFiniteSet(0..(c - 1)) /\ Cardinality(0..(c - 1)) = IF 0 > (c - 1) THEN 0 ELSE ((c - 1) - 0) + 1
    BY <2>1, FS_Interval
  <2>3. QED
    BY <1>2, <2>2
<1>5. place \in Surjection(S, 0..(c - 1))
  <2> HIDE DEF place
  <2>1. QED
    BY <1>1, <1>3, <1>4, FS_Injection
<1>6. ASSUME NEW i \in 1..c PROVE \E n \in S : Below(S, n) = i - 1
  <2>1. i - 1 \in 0..(c - 1)
    BY <1>2
  <2>2. PICK n \in S : place[n] = i - 1
    BY <1>5, <2>1 DEF Surjection
  <2>3. QED
    BY <2>2
<1>7. Ascending(S) = [i \in 1..c |-> CHOOSE n \in S : Below(S, n) = i - 1]
  BY <1>1 DEF Ascending, Below
<1>8. ASSUME NEW i \in 1..c PROVE Ascending(S)[i] \in S /\ Below(S, Ascending(S)[i]) = i - 1
  <2> DEFINE m == CHOOSE n \in S : Below(S, n) = i - 1
  <2>1. m \in S /\ Below(S, m) = i - 1
    BY <1>6
  <2>2. Ascending(S)[i] = m
    BY <1>7
  <2>3. QED
    BY <2>1, <2>2
<1>9. Ascending(S) = [i \in 1..c |-> Ascending(S)[i]]
  BY <1>7
<1>10. ASSUME NEW i \in 1..c, NEW j \in 1..c, Ascending(S)[i] = Ascending(S)[j] PROVE i = j
  <2>1. i - 1 = j - 1
    BY <1>8, <1>10
  <2>2. QED
    BY <1>2, <2>1
<1>11. ASSUME NEW n \in S PROVE \E i \in 1..c : Ascending(S)[i] = n
  <2>1. Below(S, n) \in Nat /\ (Below(S, n) + 1) \in 1..c
    BY <1>2
  <2>2. PICK i \in 1..c : i = Below(S, n) + 1
    BY <2>1
  <2>3. Below(S, Ascending(S)[i]) = i - 1 /\ Ascending(S)[i] \in S /\ i - 1 = Below(S, n)
    BY <1>8, <2>1, <2>2
  <2>4. QED
    BY <1>2, <2>3
<1>12. QED
  BY <1>1, <1>2, <1>8, <1>9, <1>10, <1>11

\* A sequence of items, each with a key that is a number, of which no two have one key
Items(items) == \E n \in Nat : /\ DOMAIN items = 1..n /\ items = [i \in 1..n |-> items[i]]
                               /\ \A i \in 1..n : items[i].key \in Nat
                               /\ \A i, j \in 1..n : items[i].key = items[j].key => i = j

(* As many keys as items.                                                  *)
LEMMA KeysOfItems ==
    ASSUME NEW items, Items(items), NEW n, DOMAIN items = 1..n, n \in Nat
    PROVE  /\ ToSet(Keys(items)) = {items[i].key : i \in 1..n}
           /\ ToSet(Keys(items)) \in SUBSET Nat
           /\ IsFiniteSet(ToSet(Keys(items)))
           /\ Cardinality(ToSet(Keys(items))) = n
<1>1. \A i \in 1..n : items[i].key \in Nat
  BY DEF Items
<1>2. \A i, j \in 1..n : items[i].key = items[j].key => i = j
  BY DEF Items
<1>3. PICK K : K = {items[i].key : i \in 1..n}
  OBVIOUS
<1>4. ToSet(Keys(items)) = K
  BY <1>3 DEF ToSet, Keys
<1> DEFINE key == [i \in 1..n |-> items[i].key]
<1>5. key \in Surjection(1..n, K) /\ key \in Injection(1..n, K)
  BY <1>2, <1>3 DEF Surjection, Injection, IsInjective
<1>6. IsFiniteSet(1..n) /\ Cardinality(1..n) = n
  <2>1. 1 \in Int /\ n \in Int
    OBVIOUS
  <2>2. IsFiniteSet(1..n) /\ Cardinality(1..n) = IF 1 > n THEN 0 ELSE (n - 1) + 1
    BY <2>1, FS_Interval
  <2>3. QED
    BY <2>2
<1>7. IsFiniteSet(K) /\ Cardinality(K) = n
  <2> HIDE DEF key
  <2>1. QED
    BY <1>5, <1>6, FS_Surjection
<1>8. QED
  BY <1>1, <1>3, <1>4, <1>7

(* The item with a key is the one that Get returns.                        *)
LEMMA GetItem ==
    ASSUME NEW items, Items(items), NEW i \in DOMAIN items
    PROVE  Get(items, items[i].key) = items[i]
<1> DEFINE j == CHOOSE k \in DOMAIN items : items[k].key = items[i].key
<1>1. j \in DOMAIN items /\ items[j].key = items[i].key
  OBVIOUS
<1>2. j = i
  BY <1>1 DEF Items
<1>3. QED
  BY <1>2 DEF Get

(* ByKey has the same items, in the order of their keys.                   *)
LEMMA ItemsByKey ==
    ASSUME NEW items, Items(items)
    PROVE  /\ Items(ByKey(items))
           /\ DOMAIN ByKey(items) = DOMAIN items
           /\ \A i \in DOMAIN ByKey(items) : \E j \in DOMAIN items : ByKey(items)[i] = items[j]
           /\ \A j \in DOMAIN items : \E i \in DOMAIN ByKey(items) : ByKey(items)[i] = items[j]
<1>1. PICK n \in Nat : DOMAIN items = 1..n
  BY DEF Items
<1>2. PICK K : K = ToSet(Keys(items))
  OBVIOUS
<1>3. /\ K = {items[i].key : i \in 1..n}
      /\ K \in SUBSET Nat /\ IsFiniteSet(K) /\ Cardinality(K) = n
  BY <1>1, <1>2, KeysOfItems
<1>4. PICK keys : keys = Ascending(K)
  OBVIOUS
<1>5. /\ keys = [i \in 1..n |-> keys[i]]
      /\ \A i \in 1..n : keys[i] \in K
      /\ \A i, j \in 1..n : keys[i] = keys[j] => i = j
      /\ \A k \in K : \E i \in 1..n : keys[i] = k
  BY <1>3, <1>4, AscendingNumbers
<1>6. DOMAIN keys = 1..n
  BY <1>5
<1>7. ByKey(items) = [i \in 1..n |-> Get(items, keys[i])]
  BY <1>2, <1>4, <1>6 DEF ByKey
<1>8. ASSUME NEW i \in 1..n
      PROVE  \E j \in 1..n : ByKey(items)[i] = items[j] /\ items[j].key = keys[i]
  <2>1. PICK j \in 1..n : keys[i] = items[j].key
    BY <1>3, <1>5
  <2>2. Get(items, keys[i]) = items[j]
    BY <1>1, <2>1, GetItem
  <2>3. QED
    BY <1>7, <2>1, <2>2
<1>9. ASSUME NEW j \in 1..n
      PROVE  \E i \in 1..n : ByKey(items)[i] = items[j]
  <2>1. PICK i \in 1..n : keys[i] = items[j].key
    BY <1>3, <1>5
  <2>2. Get(items, keys[i]) = items[j]
    BY <1>1, <2>1, GetItem
  <2>3. QED
    BY <1>7, <2>1, <2>2
<1>10. DOMAIN ByKey(items) = 1..n /\ ByKey(items) = [i \in 1..n |-> ByKey(items)[i]]
  BY <1>7
<1>11. \A i \in 1..n : ByKey(items)[i].key = keys[i] /\ keys[i] \in Nat
  BY <1>3, <1>5, <1>8
<1>12. Items(ByKey(items))
  <2>1. PICK y : y = ByKey(items)
    OBVIOUS
  <2>2. /\ DOMAIN y = 1..n /\ y = [i \in 1..n |-> y[i]]
        /\ \A i \in 1..n : y[i].key \in Nat
        /\ \A i, j \in 1..n : y[i].key = y[j].key => i = j
    BY <1>5, <1>10, <1>11, <2>1
  <2>3. Items(y)
    BY ONLY <2>2, n \in Nat DEF Items
  <2>4. QED
    BY <2>1, <2>3
<1>13. QED
  BY <1>1, <1>8, <1>9, <1>10, <1>12

(* At each place ByKey has the item with the key of that place.            *)
LEMMA ByKeyPlaces ==
    ASSUME NEW items, Items(items), NEW keys, keys = Ascending(ToSet(Keys(items)))
    PROVE  /\ ByKey(items) = [i \in DOMAIN keys |-> ByKey(items)[i]]
           /\ \A i \in DOMAIN keys : \E j \in DOMAIN items :
                ByKey(items)[i] = items[j] /\ items[j].key = keys[i]
<1>1. PICK n \in Nat : DOMAIN items = 1..n
  BY DEF Items
<1>2. PICK K : K = ToSet(Keys(items))
  OBVIOUS
<1>3. K = {items[i].key : i \in 1..n} /\ K \in SUBSET Nat /\ IsFiniteSet(K)
  BY <1>1, <1>2, KeysOfItems
<1>4. /\ keys = [i \in 1..Cardinality(K) |-> keys[i]]
      /\ \A i \in 1..Cardinality(K) : keys[i] \in K
  <2>1. keys = Ascending(K)
    BY <1>2
  <2>2. QED
    BY <1>3, <2>1, AscendingNumbers
<1>5. \A i \in DOMAIN keys : keys[i] \in K
  BY <1>4
<1>6. ByKey(items) = [i \in DOMAIN keys |-> Get(items, keys[i])]
  BY DEF ByKey
<1>7. ASSUME NEW i \in DOMAIN keys
      PROVE  \E j \in DOMAIN items : ByKey(items)[i] = items[j] /\ items[j].key = keys[i]
  <2>1. PICK j \in 1..n : keys[i] = items[j].key
    BY <1>3, <1>5
  <2>2. Get(items, items[j].key) = items[j]
    BY <1>1, GetItem
  <2>3. QED
    BY <1>1, <1>6, <2>1, <2>2
<1>8. QED
  BY <1>6, <1>7

(* What ByKey makes of items does not depend on the order they had.        *)
LEMMA ByKeyIsUnordered ==
    ASSUME NEW x, NEW y, Items(x), Items(y), ToSet(x) = ToSet(y)
    PROVE  ByKey(x) = ByKey(y)
<1>1. PICK n \in Nat : DOMAIN x = 1..n
  BY DEF Items
<1>2. PICK m \in Nat : DOMAIN y = 1..m
  BY DEF Items
<1>3. /\ \A i \in 1..n : \E j \in 1..m : x[i] = y[j]
      /\ \A j \in 1..m : \E i \in 1..n : x[i] = y[j]
  <2>1. ToSet(x) = {x[i] : i \in 1..n} /\ ToSet(y) = {y[j] : j \in 1..m}
    BY <1>1, <1>2 DEF ToSet
  <2>2. QED
    BY <2>1
<1>4. PICK K : K = ToSet(Keys(x))
  OBVIOUS
<1>5. K = {x[i].key : i \in 1..n} /\ K \in SUBSET Nat /\ IsFiniteSet(K)
  BY <1>1, <1>4, KeysOfItems
<1>6. ToSet(Keys(y)) = {y[j].key : j \in 1..m}
  BY <1>2, KeysOfItems
<1>7. ToSet(Keys(y)) = K
  BY <1>3, <1>5, <1>6
<1>8. ASSUME NEW k \in K PROVE Get(x, k) = Get(y, k)
  <2>1. PICK i \in 1..n : k = x[i].key
    BY <1>5
  <2>2. PICK j \in 1..m : x[i] = y[j]
    BY <1>3
  <2>3. Get(x, x[i].key) = x[i]
    BY <1>1, GetItem
  <2>4. Get(y, y[j].key) = y[j]
    BY <1>2, GetItem
  <2>5. QED
    BY <2>1, <2>2, <2>3, <2>4
<1>9. PICK keys : keys = Ascending(K)
  OBVIOUS
<1>10. \A i \in DOMAIN keys : keys[i] \in K
  <2>1. /\ keys = [i \in 1..Cardinality(K) |-> keys[i]]
        /\ \A i \in 1..Cardinality(K) : keys[i] \in K
    BY <1>5, <1>9, AscendingNumbers
  <2>2. DOMAIN keys = 1..Cardinality(K)
    BY <2>1
  <2>3. QED
    BY <2>1, <2>2
<1>11. ByKey(x) = [i \in DOMAIN keys |-> Get(x, keys[i])]
  <2>1. keys = Ascending(ToSet(Keys(x)))
    BY <1>4, <1>9
  <2>2. QED
    BY <2>1 DEF ByKey
<1>12. ByKey(y) = [i \in DOMAIN keys |-> Get(y, keys[i])]
  <2>1. keys = Ascending(ToSet(Keys(y)))
    BY <1>7, <1>9
  <2>2. QED
    BY <2>1 DEF ByKey
<1>13. QED
  BY <1>8, <1>10, <1>11, <1>12

---------------------------------------------------------------------------
(* The readers of collections *)

(* Induction up to n over a set of numbers.                                *)
LEMMA UpTo ==
    ASSUME NEW n \in Nat, NEW S, 0 \in S, \A i \in 1..n : i - 1 \in S => i \in S
    PROVE  \A i \in 0..n : i \in S
<1> DEFINE Missing == {i \in 0..n : i \notin S}
<1>1. SUFFICES ASSUME Missing # {} PROVE FALSE
  OBVIOUS
<1> DEFINE R == OpToRel(<, Nat)
<1>2. IsWellFoundedOn(R, Nat)
  BY NatLessThanWellFounded
<1>3. \A x, y \in Nat : x < y => <<x, y>> \in R
  BY DEF OpToRel
<1> HIDE DEF R
<1>4. Missing \subseteq Nat
  OBVIOUS
<1>5. PICK m \in Missing : \A y \in Missing : ~ (<<y, m>> \in R)
  <2> HIDE DEF Missing
  <2>1. QED
    BY <1>1, <1>2, <1>4, WFMin
<1>6. m \in 1..n
  OBVIOUS
<1>7. m - 1 \notin Missing
  <2>1. m - 1 \in Nat /\ m \in Nat /\ m - 1 < m
    BY <1>6
  <2>2. <<m - 1, m>> \in R
    BY <1>3, <2>1
  <2>3. QED
    BY <1>5, <2>2
<1>8. m - 1 \in 0..n
  BY <1>6
<1>9. QED
  BY <1>5, <1>6, <1>7, <1>8

\* The readers that are repeated
Reading(kind, b) == CASE kind = "id"    -> ReadID(b)
                      [] kind = "tag"   -> ReadTag(b)
                      [] kind = "group" -> ReadTagGroup(b)
                      [] OTHER          -> ReadEntry(b, TRUE)

\* What there is after i readings, if there is f[i - 1] before the last one
After(kind, b, f, i) ==
  IF i = 0 THEN << <<>>, b >>
  ELSE IF f[i - 1] = Fail \/ Reading(kind, f[i - 1][2]) = Fail THEN Fail
  ELSE << Append(f[i - 1][1], Reading(kind, f[i - 1][2])[1]), Reading(kind, f[i - 1][2])[2] >>

(* However often a reader is repeated, there is something after each time. *)
LEMMA ReadingsExist ==
    ASSUME NEW kind, NEW b, NEW n \in Nat
    PROVE  \E f : f = [i \in 0..n |-> After(kind, b, f, i)]
<1> DEFINE S == {m \in 0..n : \E f : f = [i \in 0..m |-> After(kind, b, f, i)]}
<1>1. 0 \in S
  <2>1. PICK f : f = [i \in 0..0 |-> << <<>>, b >>]
    OBVIOUS
  <2>2. \A i \in 0..0 : After(kind, b, f, i) = << <<>>, b >>
    BY DEF After
  <2>3. f = [i \in 0..0 |-> After(kind, b, f, i)]
    BY <2>1, <2>2
  <2>4. 0 \in 0..n
    OBVIOUS
  <2>5. QED
    BY <2>3, <2>4
<1>2. ASSUME NEW m \in 1..n, m - 1 \in S PROVE m \in S
  <2>1. PICK f : f = [i \in 0..(m - 1) |-> After(kind, b, f, i)]
    BY <1>2
  <2> DEFINE g == [i \in 0..m |-> IF i = m THEN After(kind, b, f, m) ELSE f[i]]
  <2>2. ASSUME NEW i \in 0..m PROVE g[i] = After(kind, b, g, i)
    <3>1. CASE i = 0
      <4>1. i \in 0..(m - 1) /\ i # m
        BY <3>1
      <4>2. g[i] = f[i] /\ f[i] = After(kind, b, f, i)
        BY <2>1, <4>1
      <4>3. QED
        BY <3>1, <4>2 DEF After
    <3>2. CASE i # 0
      <4>1. i - 1 \in 0..m /\ i - 1 # m
        BY <3>2
      <4>2. g[i - 1] = f[i - 1]
        BY <4>1
      <4>3. g[i] = After(kind, b, f, i)
        <5>1. CASE i = m
          BY <5>1
        <5>2. CASE i # m
          <6>1. i \in 0..(m - 1)
            BY <5>2
          <6>2. f[i] = After(kind, b, f, i)
            BY <2>1, <6>1
          <6>3. QED
            BY <5>2, <6>2
        <5>3. QED
          BY <5>1, <5>2
      <4>4. After(kind, b, f, i) = After(kind, b, g, i)
        <5> HIDE DEF g
        <5>1. QED
          BY <4>2 DEF After
      <4>5. QED
        BY <4>3, <4>4
    <3>3. QED
      BY <3>1, <3>2
  <2>3. g = [i \in 0..m |-> After(kind, b, g, i)]
    <3>1. g = [i \in 0..m |-> g[i]]
      OBVIOUS
    <3> HIDE DEF g
    <3>2. QED
      BY <2>2, <3>1
  <2>4. m \in 0..n
    OBVIOUS
  <2>5. QED
    BY <2>3, <2>4
<1>3. \A i \in 0..n : i \in S
  <2> HIDE DEF S
  <2>1. QED
    BY <1>1, <1>2, UpTo
<1>4. n \in S
  BY <1>3
<1>5. QED
  BY <1>4

(* What has been read in the end are values of the reader.                 *)
LEMMA ReadingsTyped ==
    ASSUME NEW kind, NEW b, NEW n \in Nat, NEW f, f = [i \in 0..n |-> After(kind, b, f, i)],
           NEW V, \A i \in 1..n : f[i - 1] # Fail /\ Reading(kind, f[i - 1][2]) # Fail =>
                                    Reading(kind, f[i - 1][2])[1] \in V
    PROVE  f[n] = Fail \/ \E w \in Seq(V) : \E rest : f[n] = << w, rest >>
<1> DEFINE S == {m \in 0..n : f[m] = Fail \/ \E w \in Seq(V) : \E rest : f[m] = << w, rest >>}
<1>1. 0 \in S
  <2>1. 0 \in 0..n
    OBVIOUS
  <2>2. f[0] = << <<>>, b >>
    BY <2>1 DEF After
  <2>3. <<>> \in Seq(V)
    OBVIOUS
  <2>4. QED
    BY <2>1, <2>2, <2>3
<1>2. ASSUME NEW m \in 1..n, m - 1 \in S PROVE m \in S
  <2>1. m \in 0..n /\ m # 0
    OBVIOUS
  <2>2. f[m] = After(kind, b, f, m)
    BY <2>1
  <2>3. CASE f[m - 1] = Fail
    <3>1. f[m] = Fail
      BY <2>1, <2>2, <2>3 DEF After
    <3>2. QED
      BY <2>1, <3>1
  <2>4. CASE f[m - 1] # Fail
    <3>1. PICK w, rest : w \in Seq(V) /\ f[m - 1] = << w, rest >>
      BY <1>2, <2>4
    <3>2. PICK x : x = Reading(kind, f[m - 1][2])
      OBVIOUS
    <3>3. f[m] = IF x = Fail THEN Fail ELSE << Append(w, x[1]), x[2] >>
      <4>1. f[m - 1][1] = w
        <5>1. PICK z : z = << w, rest >>
          OBVIOUS
        <5>2. z[1] = w
          BY ONLY <5>1
        <5>3. z = f[m - 1]
          BY <3>1, <5>1
        <5>4. QED
          BY <5>2, <5>3
      <4>2. QED
        BY <2>1, <2>2, <2>4, <3>2, <4>1 DEF After
    <3>4. CASE x = Fail
      BY <2>1, <3>3, <3>4
    <3>5. CASE x # Fail
      <4>1. x[1] \in V
        BY <2>4, <3>2, <3>5
      <4>2. Append(w, x[1]) \in Seq(V)
        BY <4>1
      <4>3. QED
        BY <2>1, <3>3, <3>5, <4>2
    <3>6. QED
      BY <3>4, <3>5
  <2>5. QED
    BY <2>3, <2>4
<1>3. \A i \in 0..n : i \in S
  <2> HIDE DEF S
  <2>1. QED
    BY <1>1, <1>2, UpTo
<1>4. n \in S
  BY <1>3
<1>5. QED
  BY <1>4

(* Ids are numbers.                                                        *)
LEMMA IDsRead ==
    ASSUME NEW n \in Nat, NEW b
    PROVE  ReadIDs(n, b) = Fail \/ \E w \in Seq(Nat) : \E rest : ReadIDs(n, b) = << w, rest >>
<1> DEFINE P(f) == f = [i \in 0..n |->
                          IF i = 0 THEN << <<>>, b >>
                          ELSE Then(f[i - 1], LAMBDA values, rest :
                                 Then(ReadID(rest), LAMBDA v, more : << Append(values, v), more >>))]
           after == CHOOSE f : P(f)
<1>1. \A x : Reading("id", x) = ReadID(x)
  BY DEF Reading
<1>2. \A f : P(f) <=> f = [i \in 0..n |-> After("id", b, f, i)]
  BY <1>1 DEF After, Then
<1>3. \E f : P(f)
  <2>1. PICK f : f = [i \in 0..n |-> After("id", b, f, i)]
    BY ReadingsExist
  <2>2. QED
    BY <1>2, <2>1
<1>4. P(after)
  BY <1>3
<1>5. ReadIDs(n, b) = after[n]
  BY DEF ReadIDs, Repeat
<1> HIDE DEF P, after
<1>6. \A x : ReadID(x) # Fail => ReadID(x)[1] \in Nat
  BY DEF ReadID, Then
<1>7. PICK a, kind, V : a = after /\ kind = "id" /\ V = Nat
  OBVIOUS
<1>8. a[n] = Fail \/ \E w \in Seq(Nat) : \E rest : a[n] = << w, rest >>
  <2>1. a = [i \in 0..n |-> After(kind, b, a, i)]
    BY <1>2, <1>4, <1>7
  <2>2. \A x : Reading(kind, x) # Fail => Reading(kind, x)[1] \in V
    BY <1>1, <1>6, <1>7
  <2>3. \A i \in 1..n : a[i - 1] # Fail /\ Reading(kind, a[i - 1][2]) # Fail =>
                          Reading(kind, a[i - 1][2])[1] \in V
    BY <2>2
  <2>4. a[n] = Fail \/ \E w \in Seq(V) : \E rest : a[n] = << w, rest >>
    BY <2>1, <2>3, ReadingsTyped
  <2>5. QED
    BY <1>7, <2>4
<1>9. QED
  BY <1>5, <1>7, <1>8

(* What has been read are values of the reader: identifiers, counts.       *)
LEMMA IdentifierRead == \A b : ReadIdentifier(b) # Fail => ReadIdentifier(b)[1] \in Identifiers
BY DEF ReadIdentifier, Then

(* A count is a number.                                                    *)
LEMMA CountRead == \A b : ReadCount(b) # Fail => ReadCount(b)[1] \in Nat
BY CollectionAssumption DEF ReadCount, Then

\* What ReadTag and ReadTagGroup may return
TagSet   == [key : Identifiers, ids : Seq(Nat)]
GroupSet == {g \in [key : Identifiers, tags : Seq(TagSet)] : IsInjective(Keys(g.tags))}

(* A tag has a key and ids.                                                *)
LEMMA TagRead == \A b : ReadTag(b) # Fail => ReadTag(b)[1] \in TagSet
<1> SUFFICES ASSUME NEW b, ReadTag(b) # Fail PROVE ReadTag(b)[1] \in TagSet
  OBVIOUS
<1>1. PICK x, y, z : x = ReadIdentifier(b) /\ y = ReadCount(x[2]) /\ z = ReadIDs(y[1], y[2])
  OBVIOUS
<1>2. x # Fail /\ y # Fail /\ z # Fail /\ ReadTag(b) = << [key |-> x[1], ids |-> z[1]], z[2] >>
  BY <1>1 DEF ReadTag, Then
<1>3. x[1] \in Identifiers /\ y[1] \in Nat
  BY <1>1, <1>2, IdentifierRead, CountRead
<1>4. z[1] \in Seq(Nat)
  <2>1. PICK n, c : n \in Nat /\ n = y[1] /\ c = y[2]
    BY <1>3
  <2>2. PICK w, rest : w \in Seq(Nat) /\ z = << w, rest >>
    BY <1>1, <1>2, <2>1, IDsRead
  <2>3. QED
    BY <2>2
<1>5. [key |-> x[1], ids |-> z[1]] \in TagSet
  BY <1>3, <1>4 DEF TagSet
<1>6. QED
  BY <1>2, <1>5

(* Tags are a sequence of tags.                                            *)
LEMMA TagsRead ==
    ASSUME NEW n \in Nat, NEW b
    PROVE  ReadTags(n, b) = Fail \/ \E w \in Seq(TagSet) : \E rest : ReadTags(n, b) = << w, rest >>
<1> DEFINE P(f) == f = [i \in 0..n |->
                          IF i = 0 THEN << <<>>, b >>
                          ELSE Then(f[i - 1], LAMBDA values, rest :
                                 Then(ReadTag(rest), LAMBDA v, more : << Append(values, v), more >>))]
           after == CHOOSE f : P(f)
<1>1. \A x : Reading("tag", x) = ReadTag(x)
  BY DEF Reading
<1>2. \A f : P(f) <=> f = [i \in 0..n |-> After("tag", b, f, i)]
  BY <1>1 DEF After, Then
<1>3. \E f : P(f)
  <2>1. PICK f : f = [i \in 0..n |-> After("tag", b, f, i)]
    BY ReadingsExist
  <2>2. QED
    BY <1>2, <2>1
<1>4. P(after)
  BY <1>3
<1>5. ReadTags(n, b) = after[n]
  BY DEF ReadTags, Repeat
<1> HIDE DEF P, after
<1>6. PICK a, kind, V : a = after /\ kind = "tag" /\ V = TagSet
  OBVIOUS
<1>7. a[n] = Fail \/ \E w \in Seq(TagSet) : \E rest : a[n] = << w, rest >>
  <2>1. a = [i \in 0..n |-> After(kind, b, a, i)]
    BY <1>2, <1>4, <1>6
  <2>2. \A x : Reading(kind, x) # Fail => Reading(kind, x)[1] \in V
    BY <1>1, <1>6, TagRead
  <2>3. \A i \in 1..n : a[i - 1] # Fail /\ Reading(kind, a[i - 1][2]) # Fail =>
                          Reading(kind, a[i - 1][2])[1] \in V
    BY <2>2
  <2>4. a[n] = Fail \/ \E w \in Seq(V) : \E rest : a[n] = << w, rest >>
    BY <2>1, <2>3, ReadingsTyped
  <2>5. QED
    BY <1>6, <2>4
<1>8. QED
  BY <1>5, <1>6, <1>7

(* A group has a key and tags, of which no two have one key.               *)
LEMMA TagGroupRead == \A b : ReadTagGroup(b) # Fail => ReadTagGroup(b)[1] \in GroupSet
<1> SUFFICES ASSUME NEW b, ReadTagGroup(b) # Fail PROVE ReadTagGroup(b)[1] \in GroupSet
  OBVIOUS
<1>1. PICK x, y, z : x = ReadIdentifier(b) /\ y = ReadCount(x[2]) /\ z = ReadTags(y[1], y[2])
  OBVIOUS
<1>2. /\ x # Fail /\ y # Fail /\ z # Fail /\ IsInjective(Keys(z[1]))
      /\ ReadTagGroup(b) = << [key |-> x[1], tags |-> z[1]], z[2] >>
  BY <1>1 DEF ReadTagGroup, Then
<1>3. x[1] \in Identifiers /\ y[1] \in Nat
  BY <1>1, <1>2, IdentifierRead, CountRead
<1>4. z[1] \in Seq(TagSet)
  <2>1. PICK n, c : n \in Nat /\ n = y[1] /\ c = y[2]
    BY <1>3
  <2>2. PICK w, rest : w \in Seq(TagSet) /\ z = << w, rest >>
    BY <1>1, <1>2, <2>1, TagsRead
  <2>3. QED
    BY <2>2
<1>5. [key |-> x[1], tags |-> z[1]] \in GroupSet
  BY <1>2, <1>3, <1>4 DEF GroupSet
<1>6. QED
  BY <1>2, <1>5

(* The groups are a sequence of groups.                                    *)
LEMMA TagGroupsRead ==
    ASSUME NEW n \in Nat, NEW b
    PROVE  ReadTagGroups(n, b) = Fail \/ \E w \in Seq(GroupSet) : \E rest : ReadTagGroups(n, b) = << w, rest >>
<1> DEFINE P(f) == f = [i \in 0..n |->
                          IF i = 0 THEN << <<>>, b >>
                          ELSE Then(f[i - 1], LAMBDA values, rest :
                                 Then(ReadTagGroup(rest), LAMBDA v, more : << Append(values, v), more >>))]
           after == CHOOSE f : P(f)
<1>1. \A x : Reading("group", x) = ReadTagGroup(x)
  BY DEF Reading
<1>2. \A f : P(f) <=> f = [i \in 0..n |-> After("group", b, f, i)]
  BY <1>1 DEF After, Then
<1>3. \E f : P(f)
  <2>1. PICK f : f = [i \in 0..n |-> After("group", b, f, i)]
    BY ReadingsExist
  <2>2. QED
    BY <1>2, <2>1
<1>4. P(after)
  BY <1>3
<1>5. ReadTagGroups(n, b) = after[n]
  BY DEF ReadTagGroups, Repeat
<1> HIDE DEF P, after
<1>6. PICK a, kind, V : a = after /\ kind = "group" /\ V = GroupSet
  OBVIOUS
<1>7. a[n] = Fail \/ \E w \in Seq(GroupSet) : \E rest : a[n] = << w, rest >>
  <2>1. a = [i \in 0..n |-> After(kind, b, a, i)]
    BY <1>2, <1>4, <1>6
  <2>2. \A x : Reading(kind, x) # Fail => Reading(kind, x)[1] \in V
    BY <1>1, <1>6, TagGroupRead
  <2>3. \A i \in 1..n : a[i - 1] # Fail /\ Reading(kind, a[i - 1][2]) # Fail =>
                          Reading(kind, a[i - 1][2])[1] \in V
    BY <2>2
  <2>4. a[n] = Fail \/ \E w \in Seq(V) : \E rest : a[n] = << w, rest >>
    BY <2>1, <2>3, ReadingsTyped
  <2>5. QED
    BY <1>6, <2>4
<1>8. QED
  BY <1>5, <1>6, <1>7

(* An entry has a key, and data of some kind.                              *)
LEMMA EntryRead ==
  \A b : ReadEntry(b, TRUE) # Fail =>
           /\ ReadEntry(b, TRUE)[1] = [key |-> ReadEntry(b, TRUE)[1].key, data |-> ReadEntry(b, TRUE)[1].data]
           /\ ReadEntry(b, TRUE)[1].key \in Identifiers
<1> SUFFICES ASSUME NEW b, NEW e, e = ReadEntry(b, TRUE), e # Fail
             PROVE  e[1] = [key |-> e[1].key, data |-> e[1].data] /\ e[1].key \in Identifiers
  OBVIOUS
<1>1. PICK x : x = ReadIdentifier(b)
  OBVIOUS
<1>2. x # Fail /\ \E d, rest : e = << [key |-> x[1], data |-> d], rest >>
  BY <1>1 DEF ReadEntry, Then
<1>3. PICK d, rest, r : e = << r, rest >> /\ r = [key |-> x[1], data |-> d]
  BY <1>2
<1>4. e[1] = r
  BY ONLY <1>3
<1>5. r = [key |-> r.key, data |-> r.data] /\ r.key = x[1]
  BY ONLY <1>3
<1>6. x[1] \in Identifiers
  BY <1>1, <1>2, IdentifierRead
<1>7. QED
  BY <1>4, <1>5, <1>6

(* The entries of a registry are a sequence of entries.                    *)
LEMMA EntriesRead ==
    ASSUME NEW n \in Nat, NEW b, ReadEntries(n, b, TRUE) # Fail
    PROVE  \E D : \E w \in Seq([key : Identifiers, data : D]) : \E rest : ReadEntries(n, b, TRUE) = << w, rest >>
<1> DEFINE P(f) == f = [i \in 0..n |->
                          IF i = 0 THEN << <<>>, b >>
                          ELSE Then(f[i - 1], LAMBDA values, rest :
                                 Then(ReadEntry(rest, TRUE), LAMBDA v, more : << Append(values, v), more >>))]
           after == CHOOSE f : P(f)
<1>1. \A x : Reading("entry", x) = ReadEntry(x, TRUE)
  BY DEF Reading
<1>2. \A f : P(f) <=> f = [i \in 0..n |-> After("entry", b, f, i)]
  BY <1>1 DEF After, Then
<1>3. \E f : P(f)
  <2>1. PICK f : f = [i \in 0..n |-> After("entry", b, f, i)]
    BY ReadingsExist
  <2>2. QED
    BY <1>2, <2>1
<1>4. P(after)
  BY <1>3
<1>5. ReadEntries(n, b, TRUE) = after[n]
  BY DEF ReadEntries, Repeat
<1> HIDE DEF P, after
<1>6. PICK a, kind : a = after /\ kind = "entry"
  OBVIOUS
<1>7. PICK D : D = {ReadEntry(a[i - 1][2], TRUE)[1].data : i \in 1..n}
  OBVIOUS
<1>8. PICK V : V = [key : Identifiers, data : D]
  OBVIOUS
<1>9. a[n] = Fail \/ \E w \in Seq(V) : \E rest : a[n] = << w, rest >>
  <2>1. a = [i \in 0..n |-> After(kind, b, a, i)]
    BY <1>2, <1>4, <1>6
  <2>2. ASSUME NEW i \in 1..n, Reading(kind, a[i - 1][2]) # Fail
        PROVE  Reading(kind, a[i - 1][2])[1] \in V
    <3>1. PICK e : e = ReadEntry(a[i - 1][2], TRUE)
      OBVIOUS
    <3>2. e[1] = [key |-> e[1].key, data |-> e[1].data] /\ e[1].key \in Identifiers
      BY <1>1, <1>6, <2>2, <3>1, EntryRead
    <3>3. e[1].data \in D
      BY <1>7, <3>1
    <3>4. PICK r : r = e[1]
      OBVIOUS
    <3>5. r = [key |-> r.key, data |-> r.data] /\ r.key \in Identifiers /\ r.data \in D
      BY <3>2, <3>3, <3>4
    <3>6. r \in V
      BY ONLY <1>8, <3>5
    <3>7. Reading(kind, a[i - 1][2]) = e
      BY <1>1, <1>6, <3>1
    <3>8. QED
      BY <3>4, <3>6, <3>7
  <2>3. \A i \in 1..n : a[i - 1] # Fail /\ Reading(kind, a[i - 1][2]) # Fail =>
                          Reading(kind, a[i - 1][2])[1] \in V
    BY <2>2
  <2>4. QED
    BY ONLY <2>1, <2>3, ReadingsTyped, n \in Nat
<1>10. QED
  BY <1>5, <1>6, <1>8, <1>9

---------------------------------------------------------------------------
(* What a capture reads, and what it makes of it *)

(* What a capture reads: registries.                                       *)
LEMMA RegistryTyped ==
    ASSUME NEW p, NEW reg, reg = DecodeRegistryData(p, TRUE), reg # Fail
    PROVE  /\ reg = [key |-> reg.key, entries |-> reg.entries]
           /\ reg.key \in Identifiers
           /\ \E D : reg.entries \in Seq([key : Identifiers, data : D])
           /\ IsInjective(Keys(reg.entries))
           /\ ToSet(Keys(reg.entries)) \subseteq Identifiers
<1>1. PICK x, y, z : x = ReadIdentifier(p) /\ y = ReadCount(x[2]) /\ z = ReadEntries(y[1], y[2], TRUE)
  OBVIOUS
<1>2. /\ x # Fail /\ y # Fail /\ z # Fail
      /\ reg = NewRegistry(x[1], z[1])
  <2>1. x # Fail
    BY <1>1 DEF DecodeRegistryData, Whole, Then
  <2>2. y # Fail
    BY <1>1, <2>1 DEF DecodeRegistryData, Whole, Then
  <2>3. z # Fail
    BY <1>1, <2>1, <2>2 DEF DecodeRegistryData, Whole, Then
  <2>4. PICK u : u = IF IsInjective(Keys(z[1])) THEN << NewRegistry(x[1], z[1]), z[2] >> ELSE Fail
    OBVIOUS
  <2>5. reg = Whole(u)
    BY <1>1, <2>1, <2>2, <2>3, <2>4 DEF DecodeRegistryData, Then
  <2>6. u # Fail /\ reg = u[1]
    BY <2>5 DEF Whole, Then
  <2>7. QED
    BY <2>1, <2>2, <2>3, <2>4, <2>6
<1>3. y[1] \in Nat
  BY <1>1, <1>2, CountRead
<1>4. \E D : z[1] \in Seq([key : Identifiers, data : D])
  <2>1. PICK n, c : n \in Nat /\ n = y[1] /\ c = y[2]
    BY <1>3
  <2>2. ReadEntries(n, c, TRUE) # Fail /\ z = ReadEntries(n, c, TRUE)
    BY <1>1, <1>2, <2>1
  <2>3. \E D : \E w \in Seq([key : Identifiers, data : D]) : \E rest : ReadEntries(n, c, TRUE) = << w, rest >>
    BY ONLY <2>1, <2>2, EntriesRead, ZenonT(60)
  <2>4. PICK D : \E w \in Seq([key : Identifiers, data : D]) : \E rest : z = << w, rest >>
    BY ONLY <2>2, <2>3
  <2>5. PICK w, rest : w \in Seq([key : Identifiers, data : D]) /\ z = << w, rest >>
    BY <2>4
  <2>6. z[1] = w
    BY ONLY <2>5
  <2>7. QED
    BY <2>5, <2>6
<1>5. /\ reg = [key |-> x[1], entries |-> z[1]]
      /\ {x[1]} \union ToSet(Keys(z[1])) \subseteq Identifiers /\ IsInjective(Keys(z[1]))
  BY <1>2 DEF NewRegistry
<1>6. reg.key = x[1] /\ reg.entries = z[1]
  BY ONLY <1>5
<1>7. QED
  BY <1>4, <1>5, <1>6

(* What a capture reads: groups.                                           *)
LEMMA GroupsTyped ==
    ASSUME NEW p, NEW t, t = DecodeUpdateTags(p), t # Fail
    PROVE  /\ t = << t[1] >>
           /\ t[1] \in Seq(GroupSet)
           /\ IsInjective(Keys(t[1]))
<1>1. PICK y, z : y = ReadCount(p) /\ z = ReadTagGroups(y[1], y[2])
  OBVIOUS
<1>2. y # Fail /\ z # Fail /\ IsInjective(Keys(z[1])) /\ t = << z[1] >>
  <2>1. y # Fail
    BY <1>1 DEF DecodeUpdateTags, Whole, Then
  <2>2. z # Fail
    BY <1>1, <2>1 DEF DecodeUpdateTags, Whole, Then
  <2>3. PICK u : u = IF IsInjective(Keys(z[1])) THEN << << z[1] >>, z[2] >> ELSE Fail
    OBVIOUS
  <2>4. t = Whole(u)
    BY <1>1, <2>1, <2>2, <2>3 DEF DecodeUpdateTags, Then
  <2>5. u # Fail /\ t = u[1]
    BY <2>4 DEF Whole, Then
  <2>6. QED
    BY <2>1, <2>2, <2>3, <2>5
<1>3. y[1] \in Nat
  BY <1>1, <1>2, CountRead
<1>4. z[1] \in Seq(GroupSet)
  <2>1. PICK n, c : n \in Nat /\ n = y[1] /\ c = y[2]
    BY <1>3
  <2>2. PICK w, rest : w \in Seq(GroupSet) /\ z = << w, rest >>
    BY <1>1, <1>2, <2>1, TagGroupsRead
  <2>3. QED
    BY <2>2
<1>5. t[1] = z[1]
  BY ONLY <1>2
<1>6. QED
  BY <1>2, <1>4, <1>5

(* Sequences with injective keys are items.                                *)
LEMMA ItemsOfSequence ==
    ASSUME NEW V, \A v \in V : v.key \in Nat, NEW w \in Seq(V), IsInjective(Keys(w))
    PROVE  Items(w)
<1>1. PICK n \in Nat : DOMAIN w = 1..n /\ w = [i \in 1..n |-> w[i]]
  BY ONLY w \in Seq(V)
<1>2. \A i \in 1..n : w[i] \in V
  BY <1>1
<1>3. Keys(w) = [i \in 1..n |-> w[i].key]
  BY <1>1 DEF Keys
<1>4. \A i, j \in 1..n : w[i].key = w[j].key => i = j
  BY <1>3 DEF IsInjective
<1>5. QED
  BY <1>1, <1>2, <1>4 DEF Items

(* The order of identifiers is an order of numbers.                        *)
LEMMA IdentifiersAreNumbers == Identifiers \subseteq Nat
BY KeysAssumption

(* The entries of a registry are items.                                    *)
LEMMA EntriesAreItems ==
    ASSUME NEW D, NEW w \in Seq([key : Identifiers, data : D]), IsInjective(Keys(w))
    PROVE  Items(w)
<1>1. PICK V : V = [key : Identifiers, data : D]
  OBVIOUS
<1>2. \A v \in V : v.key \in Nat
  BY <1>1, IdentifiersAreNumbers
<1>3. QED
  BY <1>1, <1>2, ItemsOfSequence

(* The tags of a group are items.                                          *)
LEMMA TagsAreItems ==
    ASSUME NEW w \in Seq(TagSet), IsInjective(Keys(w))
    PROVE  Items(w)
<1>1. \A v \in TagSet : v.key \in Nat
  BY IdentifiersAreNumbers DEF TagSet
<1>2. QED
  BY <1>1, ItemsOfSequence

(* The groups of a packet are items.                                       *)
LEMMA GroupsAreItems ==
    ASSUME NEW w \in Seq(GroupSet), IsInjective(Keys(w))
    PROVE  Items(w)
<1>1. \A v \in GroupSet : v.key \in Nat
  BY IdentifiersAreNumbers DEF GroupSet
<1>2. QED
  BY <1>1, ItemsOfSequence

(* The data set that was built.                                            *)
LEMMA DatasetBuilt ==
    ASSUME NEW r, NEW groups, NEW report, NEW dataset, dataset = BuildDataset(r, groups, report), dataset # Fail,
           NEW definitions, definitions = RegistryDefinitions(r, groups, report),
           NEW tags, tags = TagDefinitions(definitions, ByKey(groups))
    PROVE  /\ IsInjective(Keys(r)) /\ IsInjective(Keys(groups))
           /\ \A i \in DOMAIN definitions : definitions[i] # Fail
           /\ tags # Fail
           /\ dataset = [registries |-> definitions, tags |-> tags[1]]
BY DEF BuildDataset, Made

(* The set that is made of a data set.                                     *)
LEMMA DatasetDecoded ==
    ASSUME NEW definitions, NEW groups, NEW dataset, dataset = [registries |-> definitions, tags |-> groups],
           NEW set, set = DecodeDataset(dataset), set # Fail
    PROVE  /\ set = [registries |-> set.registries, groups |-> groups]
           /\ set.registries = [i \in DOMAIN definitions |-> DecodeRegistry(definitions[i])]
           /\ \A i \in DOMAIN definitions : DecodeRegistry(definitions[i]) # Fail
           /\ IsInjective(Keys(set.registries)) /\ IsInjective(Keys(groups))
           /\ \A g \in DOMAIN groups : LegalTagGroup(set.registries, groups[g])
<1>1. PICK registries : registries = [i \in DOMAIN definitions |-> DecodeRegistry(definitions[i])]
  OBVIOUS
<1>2. dataset.registries = definitions /\ dataset.tags = groups
  OBVIOUS
<1>3. ~(\E i \in DOMAIN registries : registries[i] = Fail) /\ set = NewSet(registries, groups)
  BY <1>1, <1>2 DEF DecodeDataset, Made
<1>4. /\ set = [registries |-> registries, groups |-> groups]
      /\ IsInjective(Keys(registries)) /\ IsInjective(Keys(groups))
      /\ \A g \in DOMAIN groups : LegalTagGroup(registries, groups[g])
  BY <1>3 DEF NewSet
<1>5. set.registries = registries
  BY ONLY <1>4
<1>6. \A i \in DOMAIN definitions : DecodeRegistry(definitions[i]) # Fail
  BY <1>1, <1>3
<1>7. QED
  BY <1>1, <1>4, <1>5, <1>6

(* A registry has the key and the names of its definition, in its order.   *)
LEMMA RegistryDecoded ==
    ASSUME NEW definition, NEW reg, reg = DecodeRegistry(definition), reg # Fail
    PROVE  /\ reg.key = definition.key
           /\ DOMAIN reg.entries = DOMAIN definition.entries
           /\ \A i \in DOMAIN definition.entries : reg.entries[i].key = definition.entries[i].key
           /\ IsInjective(Keys(reg.entries))
<1>1. PICK data : data = [i \in DOMAIN definition.entries |-> DecodeOptionalNBT(definition.entries[i].data)]
  OBVIOUS
<1>2. PICK entries : entries = [i \in DOMAIN data |-> [key |-> definition.entries[i].key, data |-> data[i][1]]]
  OBVIOUS
<1>3. reg = NewRegistry(definition.key, entries)
  BY <1>1, <1>2 DEF DecodeRegistry, Made
<1>4. reg = [key |-> definition.key, entries |-> entries] /\ IsInjective(Keys(entries))
  BY <1>3 DEF NewRegistry
<1>5. reg.key = definition.key /\ reg.entries = entries
  BY ONLY <1>4
<1>6. DOMAIN entries = DOMAIN definition.entries
  BY <1>1, <1>2
<1>7. \A i \in DOMAIN definition.entries : entries[i].key = definition.entries[i].key
  BY <1>1, <1>2
<1>8. QED
  BY <1>4, <1>5, <1>6, <1>7

(* The data of an entry that was written as JSON is read as what it was.   *)
LEMMA DataDecoded ==
    ASSUME NEW s \in DOMAIN Scenarios, NEW reg \in RegistriesOf(s), NEW i \in DOMAIN reg.entries,
           NEW json, json = JSONOfValue(reg.entries[i].data), json # Fail
    PROVE  DecodeOptionalNBT(json) = << reg.entries[i].data >>
<1>1. PICK v : v = reg.entries[i].data
  OBVIOUS
<1>2. v # Fail /\ json # NullJSON /\ ValueOfJSON(json) = v
  BY <1>1, CodecAssumption
<1>3. json # Omitted
  BY DEF Omitted, Fail
<1>4. DecodeOptionalNBT(json) = Made(<< v >>, LAMBDA value : value)
  BY <1>2, <1>3 DEF DecodeOptionalNBT
<1>5. Made(<< v >>, LAMBDA value : value) = << v >>
  <2>1. PICK parts : parts = << v >>
    OBVIOUS
  <2>2. \A k \in DOMAIN parts : parts[k] # Fail
    <3>1. DOMAIN parts = {1} /\ parts[1] = v
      BY ONLY <2>1
    <3>2. QED
      BY <1>2, <3>1
  <2>3. Made(parts, LAMBDA value : value) = parts
    BY <2>2 DEF Made
  <2>4. QED
    BY <2>1, <2>3
<1>6. QED
  BY <1>1, <1>4, <1>5

(* A synchronized registry comes back from its definition as it was.       *)
LEMMA SynchronizedDecoded ==
    ASSUME NEW s \in DOMAIN Scenarios, NEW reg \in RegistriesOf(s),
           NEW definition, definition = SynchronizedDefinition(reg), definition # Fail,
           DecodeRegistry(definition) # Fail
    PROVE  DecodeRegistry(definition) = reg
<1>1. PICK p : reg = DecodeRegistryData(p, TRUE) /\ reg # Fail
  BY DEF RegistriesOf
<1>2. reg = [key |-> reg.key, entries |-> reg.entries]
  BY <1>1, RegistryTyped
<1>3. PICK E : E = reg.entries
  OBVIOUS
<1>4. E = [i \in DOMAIN E |-> [key |-> E[i].key, data |-> E[i].data]]
  <2>1. \E D : reg.entries \in Seq([key : Identifiers, data : D])
    BY <1>1, RegistryTyped
  <2>2. PICK D : E \in Seq([key : Identifiers, data : D])
    BY <1>3, <2>1
  <2>3. E = [i \in DOMAIN E |-> E[i]]
    BY ONLY <2>2
  <2>4. ASSUME NEW i \in DOMAIN E PROVE E[i] = [key |-> E[i].key, data |-> E[i].data]
    <3>1. PICK V : V = [key : Identifiers, data : D]
      OBVIOUS
    <3>2. E \in Seq(V)
      BY <2>2, <3>1
    <3>3. PICK e \in V : e = E[i]
      BY ONLY <3>2, i \in DOMAIN E
    <3>4. e = [key |-> e.key, data |-> e.data]
      BY ONLY <3>1, e \in V
    <3>5. QED
      BY <3>3, <3>4
  <2>5. QED
    BY ONLY <2>3, <2>4
<1>5. PICK json : json = [i \in DOMAIN E |-> JSONOfValue(E[i].data)]
  OBVIOUS
<1>6. /\ \A i \in DOMAIN E : json[i] # Fail
      /\ definition = [key |-> reg.key,
                       entries |-> [i \in DOMAIN E |-> [key |-> E[i].key, data |-> json[i]]]]
  BY <1>3, <1>5 DEF SynchronizedDefinition, Made
<1>7. /\ definition.key = reg.key
      /\ definition.entries = [i \in DOMAIN E |-> [key |-> E[i].key, data |-> json[i]]]
  BY ONLY <1>6
<1>8. ASSUME NEW i \in DOMAIN E
      PROVE  /\ definition.entries[i].key = E[i].key
             /\ DecodeOptionalNBT(definition.entries[i].data) = << E[i].data >>
  <2>1. PICK x : x = json[i]
    OBVIOUS
  <2>2. definition.entries[i].key = E[i].key /\ definition.entries[i].data = x
    BY <1>7, <2>1
  <2>3. x = JSONOfValue(reg.entries[i].data) /\ x # Fail /\ i \in DOMAIN reg.entries
    BY <1>3, <1>5, <1>6, <2>1
  <2>4. DecodeOptionalNBT(x) = << reg.entries[i].data >>
    BY <2>3, DataDecoded
  <2>5. QED
    BY <1>3, <2>2, <2>4
<1>9. DOMAIN definition.entries = DOMAIN E
  BY <1>7
<1>10. PICK data : data = [i \in DOMAIN definition.entries |-> DecodeOptionalNBT(definition.entries[i].data)]
  OBVIOUS
<1>11. DOMAIN data = DOMAIN E /\ \A i \in DOMAIN E : data[i][1] = E[i].data
  BY <1>8, <1>9, <1>10
<1>12. PICK entries : entries = [i \in DOMAIN data |-> [key |-> definition.entries[i].key, data |-> data[i][1]]]
  OBVIOUS
<1>13. entries = E
  <2>1. entries = [i \in DOMAIN E |-> [key |-> E[i].key, data |-> E[i].data]]
    BY <1>8, <1>11, <1>12
  <2>2. QED
    BY ONLY <1>4, <2>1
<1>14. DecodeRegistry(definition) = NewRegistry(definition.key, entries)
  BY <1>10, <1>12 DEF DecodeRegistry, Made
<1>15. DecodeRegistry(definition) = [key |-> reg.key, entries |-> E]
  BY <1>7, <1>13, <1>14 DEF NewRegistry
<1>16. QED
  BY <1>2, <1>3, <1>15

(* The registries of a session were read in the packets at their places.   *)
LEMMA RegistryInPlace ==
    ASSUME NEW s \in DOMAIN Scenarios, NEW r \in SequencesOf(s), IsInjective(Keys(r)),
           NEW i \in DOMAIN SynchronizedRegistryKeys
    PROVE  /\ r[i] \in RegistriesOf(s) /\ r[i] # Fail /\ r[i].key = SynchronizedRegistryKeys[i]
           /\ \E p \in Scenarios[s].registryForms[i] :
                r[i] = DecodeRegistryData(p, TRUE) /\ SamePacket(i, Scenarios[s].registryForms[i], p)
<1>1. r \in [DOMAIN SynchronizedRegistryKeys -> RegistriesOf(s)] /\ Keys(r) = SynchronizedRegistryKeys
  BY DEF SequencesOf, InSequence
<1>2. r[i] \in RegistriesOf(s) /\ DOMAIN r = DOMAIN SynchronizedRegistryKeys
  BY <1>1
<1>3. PICK p \in UNION ToSet(Scenarios[s].registryForms) : r[i] = DecodeRegistryData(p, TRUE) /\ r[i] # Fail
  BY <1>2 DEF RegistriesOf
<1>4. PICK j \in DOMAIN Scenarios[s].registryForms : p \in Scenarios[s].registryForms[j]
  BY <1>3 DEF ToSet
<1>5. SamePacket(j, Scenarios[s].registryForms[j], p)
  BY <1>4, RegistryFormsAssumption
<1>6. r[i].key = SynchronizedRegistryKeys[j]
  BY <1>3, <1>5 DEF SamePacket
<1>7. j \in DOMAIN SynchronizedRegistryKeys
  <2>1. /\ SynchronizedRegistryKeys \in Seq(Identifiers)
        /\ Scenarios[s].registryForms \in Seq(SUBSET Seq(Nat))
        /\ Len(Scenarios[s].registryForms) = Len(SynchronizedRegistryKeys)
    BY KeysAssumption, PayloadsAssumption
  <2>2. PICK K, F : K = SynchronizedRegistryKeys /\ F = Scenarios[s].registryForms
    OBVIOUS
  <2>3. DOMAIN K = 1..Len(K) /\ DOMAIN F = 1..Len(F) /\ Len(F) = Len(K)
    BY <2>1, <2>2
  <2>4. QED
    BY <1>4, <2>2, <2>3
<1>8. Keys(r) = [k \in DOMAIN SynchronizedRegistryKeys |-> r[k].key]
  BY <1>2 DEF Keys
<1>9. r[i].key = SynchronizedRegistryKeys[i] /\ r[j].key = SynchronizedRegistryKeys[j]
  BY <1>1, <1>7, <1>8
<1>10. i = j
  BY <1>6, <1>7, <1>8, <1>9 DEF IsInjective
<1>11. QED
  BY <1>2, <1>3, <1>4, <1>5, <1>9, <1>10

(* One server, one sequence of registries.                                 *)
LEMMA OneSequence ==
    ASSUME NEW s \in DOMAIN Scenarios, NEW x \in SequencesOf(s), NEW y \in SequencesOf(s),
           IsInjective(Keys(x)), IsInjective(Keys(y))
    PROVE  x = y
<1>1. ASSUME NEW i \in DOMAIN SynchronizedRegistryKeys PROVE x[i] = y[i]
  <2>1. PICK p \in Scenarios[s].registryForms[i] :
           x[i] = DecodeRegistryData(p, TRUE) /\ SamePacket(i, Scenarios[s].registryForms[i], p)
    BY RegistryInPlace
  <2>2. PICK q \in Scenarios[s].registryForms[i] : y[i] = DecodeRegistryData(q, TRUE)
    BY RegistryInPlace
  <2>3. x[i] # Fail /\ y[i] # Fail
    BY RegistryInPlace
  <2>4. QED
    BY <2>1, <2>2, <2>3 DEF SamePacket
<1>2. /\ x \in [DOMAIN SynchronizedRegistryKeys -> RegistriesOf(s)]
      /\ y \in [DOMAIN SynchronizedRegistryKeys -> RegistriesOf(s)]
  BY DEF SequencesOf
<1>3. QED
  BY <1>1, <1>2

\* A data set as it is made of registries r and a payload p of tags
MadeFrom(s, dataset, r, p, groups, definitions, tags) ==
  /\ r \in SequencesOf(s) /\ p \in Scenarios[s].tagForms
  /\ DecodeUpdateTags(p) = << groups >>
  /\ groups \in Seq(GroupSet)
  /\ definitions = RegistryDefinitions(r, groups, Reports[s][1])
  /\ tags = TagDefinitions(definitions, ByKey(groups))
  /\ IsInjective(Keys(r)) /\ IsInjective(Keys(groups))
  /\ \A i \in DOMAIN definitions : definitions[i] # Fail
  /\ tags # Fail
  /\ dataset = [registries |-> definitions, tags |-> tags[1]]

(* What a data set is made of.                                             *)
LEMMA DatasetMade ==
    ASSUME NEW s \in DOMAIN Scenarios, NEW dataset \in DatasetsOf(s), dataset # Fail
    PROVE  \E r, p, groups, definitions, tags : MadeFrom(s, dataset, r, p, groups, definitions, tags)
<1>1. PICK r \in SequencesOf(s), t \in TagsOf(s) : dataset = BuildDataset(r, t[1], Reports[s][1])
  BY DEF DatasetsOf
<1>2. PICK p \in Scenarios[s].tagForms : t = DecodeUpdateTags(p) /\ t # Fail
  BY DEF TagsOf
<1>3. t = << t[1] >> /\ t[1] \in Seq(GroupSet)
  BY <1>2, GroupsTyped
<1>4. PICK groups, report : groups = t[1] /\ report = Reports[s][1]
  OBVIOUS
<1>5. PICK definitions : definitions = RegistryDefinitions(r, groups, report)
  OBVIOUS
<1>6. PICK tags : tags = TagDefinitions(definitions, ByKey(groups))
  OBVIOUS
<1>7. dataset = BuildDataset(r, groups, report)
  BY <1>1, <1>4
<1>8. /\ IsInjective(Keys(r)) /\ IsInjective(Keys(groups))
      /\ \A i \in DOMAIN definitions : definitions[i] # Fail
      /\ tags # Fail
      /\ dataset = [registries |-> definitions, tags |-> tags[1]]
  BY <1>5, <1>6, <1>7, DatasetBuilt
<1>9. DecodeUpdateTags(p) = << groups >> /\ groups \in Seq(GroupSet)
  BY <1>2, <1>3, <1>4
<1>10. definitions = RegistryDefinitions(r, groups, Reports[s][1])
  BY <1>4, <1>5
<1>11. MadeFrom(s, dataset, r, p, groups, definitions, tags)
  BY <1>2, <1>6, <1>8, <1>9, <1>10 DEF MadeFrom
<1>12. QED
  BY <1>11

(* The groups of a data set, with names in the place of ids.               *)
LEMMA TagsDefined ==
    ASSUME NEW definitions, NEW groups, NEW tags, tags = TagDefinitions(definitions, groups), tags # Fail
    PROVE  /\ tags[1] = [g \in DOMAIN groups |->
                           TagGroupDefinition(groups[g], Get(definitions, groups[g].key).entries)]
           /\ \A g \in DOMAIN groups : \A tag \in ToSet(groups[g].tags) : \A id \in ToSet(tag.ids) :
                id + 1 \in DOMAIN Get(definitions, groups[g].key).entries
BY DEF TagDefinitions

(* What is made of a group does not depend on the order of its tags.       *)
LEMMA OneGroupDefinition ==
    ASSUME NEW x \in GroupSet, NEW y \in GroupSet, x.key = y.key, ToSet(x.tags) = ToSet(y.tags), NEW entries
    PROVE  TagGroupDefinition(x, entries) = TagGroupDefinition(y, entries)
<1>1. /\ x.tags \in Seq(TagSet) /\ IsInjective(Keys(x.tags))
      /\ y.tags \in Seq(TagSet) /\ IsInjective(Keys(y.tags))
  BY DEF GroupSet
<1>2. PICK u, v : u = x.tags /\ v = y.tags
  OBVIOUS
<1>3. Items(u) /\ Items(v)
  BY <1>1, <1>2, TagsAreItems
<1>4. ByKey(u) = ByKey(v)
  BY <1>2, <1>3, ByKeyIsUnordered
<1>5. QED
  BY <1>2, <1>4 DEF TagGroupDefinition

(* Groups that differ in their order only have one definition.             *)
LEMMA OneDefinition ==
    ASSUME NEW x \in Seq(GroupSet), NEW y \in Seq(GroupSet), IsInjective(Keys(x)), IsInjective(Keys(y)),
           Unordered(x) = Unordered(y)
    PROVE  /\ ToSet(Keys(x)) = ToSet(Keys(y))
           /\ \A definitions :
                \/ TagDefinitions(definitions, ByKey(x)) = Fail
                \/ TagDefinitions(definitions, ByKey(y)) = Fail
                \/ TagDefinitions(definitions, ByKey(x))[1] = TagDefinitions(definitions, ByKey(y))[1]
<1>1. Items(x) /\ Items(y)
  BY GroupsAreItems
<1>2. /\ \A g \in DOMAIN x : \E h \in DOMAIN y : x[g].key = y[h].key /\ ToSet(x[g].tags) = ToSet(y[h].tags)
      /\ \A h \in DOMAIN y : \E g \in DOMAIN x : x[g].key = y[h].key /\ ToSet(x[g].tags) = ToSet(y[h].tags)
  <2>1. ASSUME NEW g \in DOMAIN x
        PROVE  \E h \in DOMAIN y : x[g].key = y[h].key /\ ToSet(x[g].tags) = ToSet(y[h].tags)
    <3>1. << x[g].key, ToSet(x[g].tags) >> \in Unordered(y)
      BY DEF Unordered
    <3>2. PICK h \in DOMAIN y : << x[g].key, ToSet(x[g].tags) >> = << y[h].key, ToSet(y[h].tags) >>
      BY <3>1 DEF Unordered
    <3>3. QED
      BY <3>2
  <2>2. ASSUME NEW h \in DOMAIN y
        PROVE  \E g \in DOMAIN x : x[g].key = y[h].key /\ ToSet(x[g].tags) = ToSet(y[h].tags)
    <3>1. << y[h].key, ToSet(y[h].tags) >> \in Unordered(x)
      BY DEF Unordered
    <3>2. PICK g \in DOMAIN x : << y[h].key, ToSet(y[h].tags) >> = << x[g].key, ToSet(x[g].tags) >>
      BY <3>1 DEF Unordered
    <3>3. QED
      BY <3>2
  <2>3. QED
    BY <2>1, <2>2
<1>3. ToSet(Keys(x)) = ToSet(Keys(y))
  <2>1. ToSet(Keys(x)) = {x[g].key : g \in DOMAIN x} /\ ToSet(Keys(y)) = {y[h].key : h \in DOMAIN y}
    BY DEF ToSet, Keys
  <2>2. PICK K, L : K = ToSet(Keys(x)) /\ L = ToSet(Keys(y))
    OBVIOUS
  <2>3. K \subseteq L
    BY ONLY <1>2, <2>1, <2>2
  <2>4. L \subseteq K
    BY ONLY <1>2, <2>1, <2>2
  <2>5. QED
    BY <2>2, <2>3, <2>4
<1>4. PICK keys : keys = Ascending(ToSet(Keys(x)))
  OBVIOUS
<1>5. PICK a, b : a = ByKey(x) /\ b = ByKey(y)
  OBVIOUS
<1>6. /\ a = [i \in DOMAIN keys |-> a[i]]
      /\ \A i \in DOMAIN keys : \E j \in DOMAIN x : a[i] = x[j] /\ x[j].key = keys[i]
  <2>1. /\ ByKey(x) = [i \in DOMAIN keys |-> ByKey(x)[i]]
        /\ \A i \in DOMAIN keys : \E j \in DOMAIN x : ByKey(x)[i] = x[j] /\ x[j].key = keys[i]
    BY <1>1, <1>4, ByKeyPlaces
  <2>2. QED
    BY <1>5, <2>1
<1>7. /\ b = [i \in DOMAIN keys |-> b[i]]
      /\ \A i \in DOMAIN keys : \E j \in DOMAIN y : b[i] = y[j] /\ y[j].key = keys[i]
  BY <1>1, <1>3, <1>4, <1>5, ByKeyPlaces
<1>8. ASSUME NEW i \in DOMAIN keys
      PROVE  a[i] \in GroupSet /\ b[i] \in GroupSet /\ a[i].key = b[i].key /\ ToSet(a[i].tags) = ToSet(b[i].tags)
  <2>1. PICK j \in DOMAIN x : a[i] = x[j] /\ x[j].key = keys[i]
    BY <1>6
  <2>2. PICK k \in DOMAIN y : b[i] = y[k] /\ y[k].key = keys[i]
    BY <1>7
  <2>3. PICK h \in DOMAIN y : x[j].key = y[h].key /\ ToSet(x[j].tags) = ToSet(y[h].tags)
    BY <1>2
  <2>4. h = k
    BY <1>1, <2>1, <2>2, <2>3 DEF Items
  <2>5. x[j] \in GroupSet /\ y[k] \in GroupSet
    OBVIOUS
  <2>6. QED
    BY <2>1, <2>2, <2>3, <2>4, <2>5
<1>9. ASSUME NEW definitions, NEW t, NEW u,
             t = TagDefinitions(definitions, a), t # Fail, u = TagDefinitions(definitions, b), u # Fail
      PROVE  t[1] = u[1]
  <2>1. t[1] = [g \in DOMAIN a |-> TagGroupDefinition(a[g], Get(definitions, a[g].key).entries)]
    BY <1>9, TagsDefined
  <2>2. u[1] = [g \in DOMAIN b |-> TagGroupDefinition(b[g], Get(definitions, b[g].key).entries)]
    BY <1>9, TagsDefined
  <2>3. DOMAIN a = DOMAIN keys /\ DOMAIN b = DOMAIN keys
    BY <1>6, <1>7
  <2>4. ASSUME NEW g \in DOMAIN keys
        PROVE  TagGroupDefinition(a[g], Get(definitions, a[g].key).entries) =
                 TagGroupDefinition(b[g], Get(definitions, b[g].key).entries)
    <3>1. PICK c \in GroupSet, d \in GroupSet : c = a[g] /\ d = b[g]
      BY <1>8
    <3>2. c.key = d.key /\ ToSet(c.tags) = ToSet(d.tags)
      BY <1>8, <3>1
    <3>3. PICK entries : entries = Get(definitions, c.key).entries
      OBVIOUS
    <3>4. TagGroupDefinition(c, entries) = TagGroupDefinition(d, entries)
      BY <3>2, OneGroupDefinition
    <3>5. QED
      BY <3>1, <3>2, <3>3, <3>4
  <2>5. QED
    BY <2>1, <2>2, <2>3, <2>4
<1>10. QED
  BY <1>3, <1>5, <1>9

(* Of one server, one data set can be made.                                *)
THEOREM OneDataset ==
    ASSUME NEW s \in DOMAIN Scenarios, NEW x \in DatasetsOf(s), NEW y \in DatasetsOf(s),
           Capturable(x), Capturable(y)
    PROVE  x = y
<1>1. x # Fail /\ y # Fail
  BY DEF Capturable
<1>2a. PICK r, p, groups, definitions, tags : MadeFrom(s, x, r, p, groups, definitions, tags)
  BY <1>1, DatasetMade
<1>2. /\ r \in SequencesOf(s) /\ p \in Scenarios[s].tagForms
      /\ DecodeUpdateTags(p) = << groups >>
      /\ groups \in Seq(GroupSet)
      /\ definitions = RegistryDefinitions(r, groups, Reports[s][1])
      /\ tags = TagDefinitions(definitions, ByKey(groups))
      /\ IsInjective(Keys(r)) /\ IsInjective(Keys(groups))
      /\ tags # Fail
      /\ x = [registries |-> definitions, tags |-> tags[1]]
  BY <1>2a DEF MadeFrom
<1>3a. PICK r2, p2, groups2, definitions2, tags2 : MadeFrom(s, y, r2, p2, groups2, definitions2, tags2)
  BY <1>1, DatasetMade
<1>3. /\ r2 \in SequencesOf(s) /\ p2 \in Scenarios[s].tagForms
      /\ DecodeUpdateTags(p2) = << groups2 >>
      /\ groups2 \in Seq(GroupSet)
      /\ definitions2 = RegistryDefinitions(r2, groups2, Reports[s][1])
      /\ tags2 = TagDefinitions(definitions2, ByKey(groups2))
      /\ IsInjective(Keys(r2)) /\ IsInjective(Keys(groups2))
      /\ tags2 # Fail
      /\ y = [registries |-> definitions2, tags |-> tags2[1]]
  BY <1>3a DEF MadeFrom
<1>4. r = r2
  BY <1>2, <1>3, OneSequence
<1>5. Unordered(groups2) = Unordered(groups)
  <2>1. SameTags(Scenarios[s].tagForms, p)
    BY <1>2, TagFormsAssumption
  <2>2. DecodeUpdateTags(p) # Fail /\ DecodeUpdateTags(p2) # Fail
    BY <1>2, <1>3 DEF Fail
  <2>3. Unordered(DecodeUpdateTags(p2)[1]) = Unordered(DecodeUpdateTags(p)[1])
    BY <1>2, <1>3, <2>1, <2>2 DEF SameTags
  <2>4. DecodeUpdateTags(p)[1] = groups /\ DecodeUpdateTags(p2)[1] = groups2
    BY <1>2, <1>3
  <2>5. QED
    BY <2>3, <2>4
<1>6. /\ ToSet(Keys(groups)) = ToSet(Keys(groups2))
      /\ \A d : \/ TagDefinitions(d, ByKey(groups)) = Fail
                \/ TagDefinitions(d, ByKey(groups2)) = Fail
                \/ TagDefinitions(d, ByKey(groups))[1] = TagDefinitions(d, ByKey(groups2))[1]
  BY <1>2, <1>3, <1>5, OneDefinition
<1>7. definitions = definitions2
  BY <1>2, <1>3, <1>4, <1>6 DEF RegistryDefinitions, StaticKeys
<1>8. tags[1] = tags2[1]
  BY <1>2, <1>3, <1>6, <1>7
<1>9. QED
  BY <1>2, <1>3, <1>7, <1>8

---------------------------------------------------------------------------
(* What is served *)

(* Of items with different keys Get returns the one with the key.          *)
LEMMA GetInjective ==
    ASSUME NEW items, IsInjective(Keys(items)), NEW i \in DOMAIN items
    PROVE  Get(items, items[i].key) = items[i]
<1> DEFINE j == CHOOSE k \in DOMAIN items : items[k].key = items[i].key
<1>1. j \in DOMAIN items /\ items[j].key = items[i].key
  OBVIOUS
<1>2. j = i
  <2> HIDE DEF j
  <2>1. DOMAIN Keys(items) = DOMAIN items /\ Keys(items)[i] = Keys(items)[j]
    BY <1>1 DEF Keys
  <2>2. QED
    BY <1>1, <2>1 DEF IsInjective
<1>3. QED
  BY <1>2 DEF Get

(* The definitions are those of the synchronized registries, and others    *)
(* behind them.                                                            *)
LEMMA DefinitionsInPlace ==
    ASSUME NEW s \in DOMAIN Scenarios, NEW r \in SequencesOf(s), NEW groups \in Seq(GroupSet),
           IsInjective(Keys(groups)), NEW report,
           NEW definitions, definitions = RegistryDefinitions(r, groups, report)
    PROVE  /\ \E n \in Nat : DOMAIN definitions = 1..n
           /\ \A i \in DOMAIN SynchronizedRegistryKeys :
                i \in DOMAIN definitions /\ definitions[i] = SynchronizedDefinition(r[i])
<1>1. PICK static : static = StaticKeys(r, groups)
  OBVIOUS
<1>2. PICK c \in Nat : static = [i \in 1..c |-> static[i]]
  <2>1. Items(groups)
    BY GroupsAreItems
  <2>2. PICK n \in Nat : DOMAIN groups = 1..n
    BY <2>1 DEF Items
  <2>3. ToSet(Keys(groups)) \in SUBSET Nat /\ IsFiniteSet(ToSet(Keys(groups)))
    BY <2>1, <2>2, KeysOfItems
  <2>4. PICK S : S = ToSet(Keys(groups)) \ ToSet(Keys(r))
    OBVIOUS
  <2>5. S \in SUBSET ToSet(Keys(groups))
    BY <2>4
  <2>6. S \in SUBSET Nat /\ IsFiniteSet(S)
    BY <2>3, <2>5, FS_Subset
  <2>7. static = Ascending(S)
    BY <1>1, <2>4 DEF StaticKeys
  <2>8. QED
    BY <2>6, <2>7, AscendingNumbers
<1>3. PICK k \in Nat : DOMAIN SynchronizedRegistryKeys = 1..k
  BY KeysAssumption
<1>4. DOMAIN r = 1..k
  BY <1>3 DEF SequencesOf
<1>5. PICK a, b : /\ a = [i \in DOMAIN r |-> SynchronizedDefinition(r[i])]
                  /\ b = [i \in DOMAIN static |-> StaticDefinition(static[i], report)]
  OBVIOUS
<1>6. definitions = a \o b
  BY <1>1, <1>5 DEF RegistryDefinitions
<1>7. PICK V : V = {a[i] : i \in 1..k} \union {b[i] : i \in 1..c}
  OBVIOUS
<1>8. a \in Seq(V) /\ Len(a) = k
  <2>1. a = [i \in 1..k |-> a[i]] /\ \A i \in 1..k : a[i] \in V
    BY <1>4, <1>5, <1>7
  <2>2. QED
    BY ONLY <2>1, k \in Nat
<1>9. b \in Seq(V) /\ Len(b) = c
  <2>1. DOMAIN static = 1..c
    BY <1>2
  <2>2. b = [i \in 1..c |-> b[i]] /\ \A i \in 1..c : b[i] \in V
    BY <1>5, <1>7, <2>1
  <2>3. QED
    BY ONLY <2>2, c \in Nat
<1>10. /\ a \o b \in Seq(V) /\ Len(a \o b) = k + c
       /\ \A i \in 1..(k + c) : (a \o b)[i] = IF i <= k THEN a[i] ELSE b[i - k]
  BY <1>8, <1>9, ConcatProperties
<1>11. DOMAIN definitions = 1..(k + c) /\ \A i \in 1..k : definitions[i] = a[i]
  BY <1>6, <1>10
<1>12. \A i \in 1..k : a[i] = SynchronizedDefinition(r[i])
  BY <1>4, <1>5
<1>13. QED
  BY <1>3, <1>11, <1>12

\* A tag and a group as they are served
TagServed(reg, tag) == [key |-> tag.key,
                        ids |-> [k \in DOMAIN tag.entries |-> EntryID(reg, tag.entries[k])]]
GroupServed(set, reg) ==
  [key |-> reg.key,
   tags |-> [j \in DOMAIN Get(set.groups, reg.key).tags |-> TagServed(reg, Get(set.groups, reg.key).tags[j])]]

(* The groups that are served, in the order of their registries.           *)
LEMMA TagGroupsServed ==
    ASSUME NEW set, NEW P, P = {i \in DOMAIN set.registries : Has(set.groups, set.registries[i].key)},
           NEW places, places = Ascending(P)
    PROVE  TagGroups(set) = [i \in DOMAIN places |-> GroupServed(set, set.registries[places[i]])]
BY DEF TagGroups, GroupServed, TagServed

(* The id of an entry is its place, from 0.                                *)
LEMMA IDOfEntry ==
    ASSUME NEW reg, IsInjective(Keys(reg.entries)), NEW id \in Nat, id + 1 \in DOMAIN reg.entries
    PROVE  EntryID(reg, reg.entries[id + 1].key) = id
<1>1. PICK E, i : E = reg.entries /\ i = id + 1
  OBVIOUS
<1> DEFINE j == CHOOSE k \in DOMAIN E : E[k].key = E[i].key
<1>2. j \in DOMAIN E /\ E[j].key = E[i].key /\ i \in DOMAIN E
  BY <1>1
<1>3. j = i
  <2> HIDE DEF j
  <2>1. DOMAIN Keys(E) = DOMAIN E /\ Keys(E)[i] = Keys(E)[j]
    BY <1>2 DEF Keys
  <2>2. QED
    BY <1>1, <1>2, <2>1 DEF IsInjective
<1>4. EntryID(reg, reg.entries[id + 1].key) = j - 1
  BY <1>1 DEF EntryID
<1>5. i - 1 = id
  BY ONLY <1>1, id \in Nat
<1>6. QED
  BY <1>3, <1>4, <1>5

(* A tag of which the ids have become names is served with its ids.        *)
LEMMA TagReturns ==
    ASSUME NEW tag \in TagSet, NEW reg, NEW entries, IsInjective(Keys(reg.entries)),
           DOMAIN reg.entries = DOMAIN entries, \A i \in DOMAIN entries : reg.entries[i].key = entries[i].key,
           \A id \in ToSet(tag.ids) : id + 1 \in DOMAIN entries,
           NEW named, named = [key |-> tag.key,
                               entries |-> [k \in DOMAIN tag.ids |-> entries[tag.ids[k] + 1].key]]
    PROVE  TagServed(reg, named) = tag
<1>1. tag = [key |-> tag.key, ids |-> tag.ids] /\ tag.ids \in Seq(Nat)
  BY DEF TagSet
<1>2. PICK ids \in Seq(Nat) : ids = tag.ids
  BY <1>1
<1>3. ids = [k \in DOMAIN ids |-> ids[k]] /\ \A k \in DOMAIN ids : ids[k] \in Nat
  BY ONLY ids \in Seq(Nat)
<1>4. PICK names : names = [k \in DOMAIN ids |-> entries[ids[k] + 1].key]
  OBVIOUS
<1>5. named.key = tag.key /\ named.entries = names
  BY <1>2, <1>4
<1>6. ASSUME NEW k \in DOMAIN ids PROVE EntryID(reg, names[k]) = ids[k]
  <2>1. PICK id \in Nat : id = ids[k]
    BY <1>3
  <2>2. id \in ToSet(ids)
    BY <2>1 DEF ToSet
  <2>3. id + 1 \in DOMAIN entries
    BY <1>2, <2>2
  <2>4. id + 1 \in DOMAIN reg.entries /\ names[k] = reg.entries[id + 1].key
    BY <1>4, <2>1, <2>3
  <2>5. EntryID(reg, reg.entries[id + 1].key) = id
    BY <2>4, IDOfEntry
  <2>6. QED
    BY <2>1, <2>4, <2>5
<1>7. [k \in DOMAIN names |-> EntryID(reg, names[k])] = ids
  <2>1. DOMAIN names = DOMAIN ids
    BY <1>4
  <2>2. QED
    BY <1>3, <1>6, <2>1
<1>8. TagServed(reg, named) = [key |-> tag.key, ids |-> ids]
  BY <1>5, <1>7 DEF TagServed
<1>9. QED
  BY <1>1, <1>2, <1>8

(* A group of which the ids have become names is served with its ids, and  *)
(* with its tags by key.                                                   *)
LEMMA GroupReturns ==
    ASSUME NEW group \in GroupSet, NEW reg, NEW entries, IsInjective(Keys(reg.entries)),
           DOMAIN reg.entries = DOMAIN entries, \A i \in DOMAIN entries : reg.entries[i].key = entries[i].key,
           \A tag \in ToSet(group.tags) : \A id \in ToSet(tag.ids) : id + 1 \in DOMAIN entries,
           NEW set, reg.key = group.key, Get(set.groups, reg.key) = TagGroupDefinition(group, entries)
    PROVE  GroupServed(set, reg) = [key |-> group.key, tags |-> ByKey(group.tags)]
<1>1. PICK tags \in Seq(TagSet) : tags = group.tags /\ IsInjective(Keys(tags))
  BY DEF GroupSet
<1>2. Items(tags)
  BY <1>1, TagsAreItems
<1>3. PICK sorted : sorted = ByKey(tags)
  OBVIOUS
<1>4. Items(sorted) /\ \A j \in DOMAIN sorted : \E i \in DOMAIN tags : sorted[j] = tags[i]
  BY <1>2, <1>3, ItemsByKey
<1>5. PICK n \in Nat : DOMAIN sorted = 1..n /\ sorted = [j \in 1..n |-> sorted[j]]
  BY <1>4 DEF Items
<1>6. PICK named : named = [j \in 1..n |->
                     [key |-> sorted[j].key,
                      entries |-> [k \in DOMAIN sorted[j].ids |-> entries[sorted[j].ids[k] + 1].key]]]
  OBVIOUS
<1>7. Get(set.groups, reg.key).tags = named
  <2>1. TagGroupDefinition(group, entries).tags =
          [j \in DOMAIN sorted |->
             [key |-> sorted[j].key,
              entries |-> [k \in DOMAIN sorted[j].ids |-> entries[sorted[j].ids[k] + 1].key]]]
    BY <1>1, <1>3 DEF TagGroupDefinition
  <2>2. QED
    BY <1>5, <1>6, <2>1
<1>8. ASSUME NEW j \in 1..n PROVE TagServed(reg, named[j]) = sorted[j]
  <2>1. PICK i \in DOMAIN tags : sorted[j] = tags[i]
    BY <1>4, <1>5
  <2>2. tags[i] \in TagSet /\ tags[i] \in ToSet(group.tags)
    BY <1>1 DEF ToSet
  <2>3. PICK tag \in TagSet : tag = sorted[j] /\ tag \in ToSet(group.tags)
    BY <2>1, <2>2
  <2>4. PICK name : name = [key |-> tag.key, entries |-> [k \in DOMAIN tag.ids |-> entries[tag.ids[k] + 1].key]]
    OBVIOUS
  <2>5. named[j] = name
    BY <1>6, <2>3, <2>4
  <2>6. \A id \in ToSet(tag.ids) : id + 1 \in DOMAIN entries
    BY <2>3
  <2>7. TagServed(reg, name) = tag
    <3>1. \A k \in DOMAIN entries : reg.entries[k].key = entries[k].key
      OBVIOUS
    <3>2. IsInjective(Keys(reg.entries)) /\ DOMAIN reg.entries = DOMAIN entries
      OBVIOUS
    <3>3. QED
      BY ONLY <2>4, <2>6, <3>1, <3>2, tag \in TagSet, TagReturns
  <2>8. QED
    BY <2>3, <2>5, <2>7
<1>9. DOMAIN named = 1..n
  BY <1>6
<1>10. [j \in DOMAIN named |-> TagServed(reg, named[j])] = sorted
  BY <1>5, <1>8, <1>9
<1>11. GroupServed(set, reg) = [key |-> group.key, tags |-> sorted]
  BY <1>7, <1>10 DEF GroupServed
<1>12. QED
  BY <1>1, <1>3, <1>11

(* The tags that are served are those that were captured, in another       *)
(* order.                                                                  *)
LEMMA TagsInOrder ==
    ASSUME NEW groups \in Seq(GroupSet), IsInjective(Keys(groups)),
           NEW definitions, \E n \in Nat : DOMAIN definitions = 1..n,
           NEW tags, tags = TagDefinitions(definitions, ByKey(groups)), tags # Fail,
           NEW set, set.groups = tags[1],
           set.registries = [i \in DOMAIN definitions |-> DecodeRegistry(definitions[i])],
           \A i \in DOMAIN definitions : DecodeRegistry(definitions[i]) # Fail,
           IsInjective(Keys(set.registries)), IsInjective(Keys(set.groups)),
           \A g \in DOMAIN set.groups : LegalTagGroup(set.registries, set.groups[g])
    PROVE  \E order \in Bijection(DOMAIN groups, DOMAIN groups) : TagGroups(set) = Reordered(groups, order)
<1>1. Items(groups)
  BY GroupsAreItems
<1>2. PICK n \in Nat : DOMAIN groups = 1..n
  BY <1>1 DEF Items
<1>3. PICK m \in Nat : DOMAIN definitions = 1..m
  OBVIOUS
<1>4. PICK R, D, sorted : R = set.registries /\ D = set.groups /\ sorted = ByKey(groups)
  OBVIOUS
<1>5. /\ R = [i \in 1..m |-> DecodeRegistry(definitions[i])] /\ \A i \in 1..m : R[i] # Fail
      /\ IsInjective(Keys(R)) /\ IsInjective(Keys(D))
      /\ \A g \in DOMAIN D : LegalTagGroup(R, D[g])
  <2>1. R = [i \in 1..m |-> DecodeRegistry(definitions[i])]
    BY <1>3, <1>4
  <2>2. \A i \in 1..m : R[i] # Fail
    BY <1>3, <2>1
  <2>3. IsInjective(Keys(R)) /\ IsInjective(Keys(D)) /\ \A g \in DOMAIN D : LegalTagGroup(R, D[g])
    BY <1>4
  <2>4. QED
    BY <2>1, <2>2, <2>3
<1>6. DOMAIN R = 1..m /\ \A i, j \in 1..m : R[i].key = R[j].key => i = j
  <2>1. DOMAIN R = 1..m
    BY <1>5
  <2>2. Keys(R) = [i \in 1..m |-> R[i].key]
    BY <2>1 DEF Keys
  <2>3. \A i, j \in 1..m : R[i].key = R[j].key => i = j
    <3>1. PICK K : K = Keys(R)
      OBVIOUS
    <3>2. DOMAIN K = 1..m /\ \A i \in 1..m : K[i] = R[i].key
      BY <2>2, <3>1
    <3>3. \A i, j \in DOMAIN K : K[i] = K[j] => i = j
      BY <1>5, <3>1 DEF IsInjective
    <3>4. QED
      BY ONLY <3>2, <3>3
  <2>4. QED
    BY <2>1, <2>3
<1>7. ASSUME NEW i \in 1..m
      PROVE  /\ R[i].key = definitions[i].key /\ DOMAIN R[i].entries = DOMAIN definitions[i].entries
             /\ \A k \in DOMAIN definitions[i].entries : R[i].entries[k].key = definitions[i].entries[k].key
             /\ IsInjective(Keys(R[i].entries))
  <2>1. PICK definition, reg : definition = definitions[i] /\ reg = R[i]
    OBVIOUS
  <2>2. reg = DecodeRegistry(definition) /\ reg # Fail
    BY <1>5, <2>1
  <2>3. /\ reg.key = definition.key /\ DOMAIN reg.entries = DOMAIN definition.entries
        /\ \A k \in DOMAIN definition.entries : reg.entries[k].key = definition.entries[k].key
        /\ IsInjective(Keys(reg.entries))
    BY <2>2, RegistryDecoded
  <2>4. QED
    BY <2>1, <2>3
<1>8. /\ D = [g \in DOMAIN sorted |-> TagGroupDefinition(sorted[g], Get(definitions, sorted[g].key).entries)]
      /\ \A g \in DOMAIN sorted : \A tag \in ToSet(sorted[g].tags) : \A id \in ToSet(tag.ids) :
           id + 1 \in DOMAIN Get(definitions, sorted[g].key).entries
  <2>1. tags = TagDefinitions(definitions, sorted) /\ D = tags[1]
    BY <1>4
  <2>2. QED
    BY <2>1, TagsDefined
<1>9. /\ \A g \in DOMAIN sorted : \E h \in 1..n : sorted[g] = groups[h]
      /\ \A h \in 1..n : \E g \in DOMAIN sorted : sorted[g] = groups[h]
  <2>1. /\ \A g \in DOMAIN ByKey(groups) : \E h \in DOMAIN groups : ByKey(groups)[g] = groups[h]
        /\ \A h \in DOMAIN groups : \E g \in DOMAIN ByKey(groups) : ByKey(groups)[g] = groups[h]
    BY <1>1, ItemsByKey
  <2>2. QED
    BY <1>2, <1>4, <2>1
<1>10. DOMAIN D = DOMAIN sorted /\ \A g \in DOMAIN sorted : D[g].key = sorted[g].key
  <2>1. DOMAIN D = DOMAIN sorted
    BY <1>8
  <2>2. ASSUME NEW g \in DOMAIN sorted PROVE D[g].key = sorted[g].key
    <3>1. PICK x, e : x = sorted[g] /\ e = Get(definitions, sorted[g].key).entries
      OBVIOUS
    <3>2. D[g] = TagGroupDefinition(x, e)
      BY <1>8, <3>1
    <3>3. TagGroupDefinition(x, e).key = x.key
      BY DEF TagGroupDefinition
    <3>4. QED
      BY <3>1, <3>2, <3>3
  <2>3. QED
    BY <2>1, <2>2
<1>11. PICK P : P = {i \in 1..m : Has(D, R[i].key)}
  OBVIOUS
<1>12. PICK places : places = Ascending(P)
  OBVIOUS
<1>13. PICK c \in Nat :
         /\ places = [i \in 1..c |-> places[i]]
         /\ \A i \in 1..c : places[i] \in P
         /\ \A i, j \in 1..c : places[i] = places[j] => i = j
         /\ \A p \in P : \E i \in 1..c : places[i] = p
  <2>1. IsFiniteSet(1..m)
    <3>1. 1 \in Int /\ m \in Int
      OBVIOUS
    <3>2. QED
      BY <3>1, FS_Interval
  <2>2. P \in SUBSET (1..m)
    BY <1>11
  <2>3. IsFiniteSet(P)
    BY <2>1, <2>2, FS_Subset
  <2>4. P \in SUBSET Nat
    BY <2>2
  <2>5. PICK c : c = Cardinality(P)
    OBVIOUS
  <2>6. /\ c \in Nat
        /\ places = [i \in 1..c |-> places[i]]
        /\ \A i \in 1..c : places[i] \in P
        /\ \A i, j \in 1..c : places[i] = places[j] => i = j
        /\ \A p \in P : \E i \in 1..c : places[i] = p
    <3>1. /\ Cardinality(P) \in Nat
          /\ Ascending(P) = [i \in 1..Cardinality(P) |-> Ascending(P)[i]]
          /\ \A i \in 1..Cardinality(P) : Ascending(P)[i] \in P
          /\ \A i, j \in 1..Cardinality(P) : Ascending(P)[i] = Ascending(P)[j] => i = j
          /\ \A n1 \in P : \E i \in 1..Cardinality(P) : Ascending(P)[i] = n1
      BY <2>3, <2>4, AscendingNumbers
    <3>2. QED
      BY <1>12, <2>5, <3>1
  <2>7. QED
    BY <2>6
<1>14. DOMAIN places = 1..c
  BY <1>13
<1>15. ASSUME NEW i \in 1..c
       PROVE  \E h \in 1..n : groups[h].key = R[places[i]].key
  <2>1. PICK p \in 1..m : p = places[i] /\ Has(D, R[p].key)
    BY <1>11, <1>13
  <2>2. PICK g \in DOMAIN D : D[g].key = R[p].key
    BY <2>1 DEF Has
  <2>3. PICK h \in 1..n : sorted[g] = groups[h]
    BY <1>9, <1>10, <2>2
  <2>4. QED
    BY <1>10, <2>1, <2>2, <2>3
<1>16. ASSUME NEW h \in 1..n
       PROVE  \E i \in 1..c : groups[h].key = R[places[i]].key
  <2>1. PICK g \in DOMAIN D : sorted[g] = groups[h]
    BY <1>9, <1>10
  <2>2. D[g].key = groups[h].key
    BY <1>10, <2>1
  <2>3. Has(R, D[g].key)
    BY <1>5 DEF LegalTagGroup
  <2>4. PICK p \in 1..m : R[p].key = D[g].key
    BY <1>6, <2>3 DEF Has
  <2>5. Has(D, R[p].key)
    BY <2>4 DEF Has
  <2>6. p \in P
    BY <1>11, <2>5
  <2>7. PICK i \in 1..c : places[i] = p
    BY <1>13, <2>6
  <2>8. QED
    BY <2>2, <2>4, <2>7
<1>17. PICK order : order = [i \in 1..c |-> CHOOSE h \in 1..n : groups[h].key = R[places[i]].key]
  OBVIOUS
<1>18. ASSUME NEW i \in 1..c PROVE order[i] \in 1..n /\ groups[order[i]].key = R[places[i]].key
  <2> DEFINE h == CHOOSE h \in 1..n : groups[h].key = R[places[i]].key
  <2>1. h \in 1..n /\ groups[h].key = R[places[i]].key
    BY <1>15
  <2>2. order[i] = h
    BY <1>17
  <2>3. QED
    BY <2>1, <2>2
<1>19. \A h, k \in 1..n : groups[h].key = groups[k].key => h = k
  BY <1>1, <1>2 DEF Items
<1>20. order \in [1..c -> 1..n]
  BY <1>17, <1>18
<1>21. order \in Injection(1..c, 1..n)
  <2>1. ASSUME NEW i \in 1..c, NEW j \in 1..c, order[i] = order[j] PROVE i = j
    <3>1. PICK p \in 1..m, q \in 1..m : p = places[i] /\ q = places[j]
      BY <1>11, <1>13
    <3>2. R[p].key = R[q].key
      BY <1>18, <2>1, <3>1
    <3>3. p = q
      BY <1>6, <3>2
    <3>4. QED
      BY <1>13, <3>1, <3>3
  <2>2. DOMAIN order = 1..c
    BY <1>20
  <2>3. IsInjective(order)
    BY <2>1, <2>2 DEF IsInjective
  <2>4. QED
    BY <1>20, <2>3 DEF Injection
<1>22. order \in Surjection(1..c, 1..n)
  <2>1. ASSUME NEW h \in 1..n PROVE \E i \in 1..c : order[i] = h
    <3>1. PICK i \in 1..c : groups[h].key = R[places[i]].key
      BY <1>16
    <3>2. order[i] \in 1..n /\ groups[order[i]].key = groups[h].key
      BY <1>18, <3>1
    <3>3. QED
      BY <1>19, <3>2
  <2>2. QED
    BY <1>20, <2>1 DEF Surjection
<1>23. c = n
  <2>1. IsFiniteSet(1..c) /\ Cardinality(1..c) = c /\ Cardinality(1..n) = n
    <3>1. 1 \in Int /\ c \in Int /\ n \in Int
      OBVIOUS
    <3>2. /\ IsFiniteSet(1..c) /\ Cardinality(1..c) = IF 1 > c THEN 0 ELSE (c - 1) + 1
          /\ Cardinality(1..n) = IF 1 > n THEN 0 ELSE (n - 1) + 1
      BY <3>1, FS_Interval
    <3>3. QED
      BY ONLY <3>2, c \in Nat, n \in Nat
  <2>2. Cardinality(1..n) = Cardinality(1..c)
    BY <1>21, <1>22, <2>1, FS_Surjection
  <2>3. QED
    BY <2>1, <2>2
<1>24. order \in Bijection(DOMAIN groups, DOMAIN groups)
  BY <1>2, <1>21, <1>22, <1>23 DEF Bijection
<1>25. ASSUME NEW i \in 1..c
       PROVE  GroupServed(set, R[places[i]]) =
                [key |-> groups[order[i]].key, tags |-> ByKey(groups[order[i]].tags)]
  <2>1. PICK p \in 1..m : p = places[i]
    BY <1>11, <1>13
  <2>2. PICK h \in 1..n : h = order[i] /\ groups[h].key = R[p].key
    BY <1>18, <2>1
  <2>3. PICK g \in DOMAIN sorted : sorted[g] = groups[h]
    BY <1>9
  <2>4. PICK group \in GroupSet : group = groups[h]
    BY <1>2
  <2>5. PICK reg, entries : reg = R[p] /\ entries = definitions[p].entries
    OBVIOUS
  <2>6. Get(definitions, group.key) = definitions[p]
    <3>1. \A j \in 1..m : definitions[j].key = R[j].key
      BY <1>7
    <3>2. DOMAIN Keys(definitions) = 1..m /\ \A j \in 1..m : Keys(definitions)[j] = R[j].key
      BY <1>3, <3>1 DEF Keys
    <3>3. IsInjective(Keys(definitions))
      BY <1>6, <3>2 DEF IsInjective
    <3>4. definitions[p].key = group.key
      BY <2>2, <2>4, <3>1
    <3>5. Get(definitions, definitions[p].key) = definitions[p]
      BY <1>3, <3>3, GetInjective
    <3>6. QED
      BY <3>4, <3>5
  <2>7. /\ IsInjective(Keys(reg.entries)) /\ DOMAIN reg.entries = DOMAIN entries
        /\ \A k \in DOMAIN entries : reg.entries[k].key = entries[k].key
    BY <1>7, <2>5
  <2>8. \A tag \in ToSet(group.tags) : \A id \in ToSet(tag.ids) : id + 1 \in DOMAIN entries
    BY <1>8, <2>3, <2>4, <2>5, <2>6
  <2>9. reg.key = group.key
    BY <2>2, <2>4, <2>5
  <2>10. Get(set.groups, reg.key) = TagGroupDefinition(group, entries)
    <3>1. D[g] = TagGroupDefinition(group, entries) /\ g \in DOMAIN D /\ D[g].key = group.key
      BY <1>8, <1>10, <2>3, <2>4, <2>5, <2>6
    <3>2. Get(D, D[g].key) = D[g]
      BY <1>5, <3>1, GetInjective
    <3>3. QED
      BY <1>4, <2>9, <3>1, <3>2
  <2>11. GroupServed(set, reg) = [key |-> group.key, tags |-> ByKey(group.tags)]
    BY <2>7, <2>8, <2>9, <2>10, GroupReturns
  <2>12. QED
    BY <2>1, <2>2, <2>4, <2>5, <2>11
<1>26. TagGroups(set) = [i \in 1..c |-> GroupServed(set, R[places[i]])]
  <2>1. P = {i \in DOMAIN set.registries : Has(set.groups, set.registries[i].key)}
    BY <1>4, <1>6, <1>11
  <2>2. TagGroups(set) = [i \in DOMAIN places |-> GroupServed(set, set.registries[places[i]])]
    BY ONLY <1>12, <2>1, TagGroupsServed
  <2>3. QED
    BY <1>4, <1>14, <2>2
<1>27. TagGroups(set) = Reordered(groups, order)
  BY <1>2, <1>23, <1>25, <1>26 DEF Reordered
<1>28. QED
  BY <1>24, <1>27

(* The registries of a capturable data set, as its set has them.           *)
LEMMA RegistriesServed ==
    ASSUME NEW s \in DOMAIN Scenarios, NEW r \in SequencesOf(s), IsInjective(Keys(r)),
           NEW definitions,
           \A i \in DOMAIN SynchronizedRegistryKeys :
             i \in DOMAIN definitions /\ definitions[i] = SynchronizedDefinition(r[i]),
           \A i \in DOMAIN definitions : definitions[i] # Fail,
           NEW set, RegistryDataRegistries(set) # Fail,
           set.registries = [i \in DOMAIN definitions |-> DecodeRegistry(definitions[i])],
           \A i \in DOMAIN definitions : DecodeRegistry(definitions[i]) # Fail,
           IsInjective(Keys(set.registries))
    PROVE  RegistryDataRegistries(set) = [i \in DOMAIN SynchronizedRegistryKeys |-> r[i]]
<1>1. ASSUME NEW i \in DOMAIN SynchronizedRegistryKeys
      PROVE  Get(set.registries, SynchronizedRegistryKeys[i]) = r[i]
  <2>1. r[i] \in RegistriesOf(s) /\ r[i].key = SynchronizedRegistryKeys[i]
    BY RegistryInPlace
  <2>2. PICK reg, definition : reg \in RegistriesOf(s) /\ reg = r[i] /\ definition = definitions[i]
    BY <2>1
  <2>3. definition = SynchronizedDefinition(reg) /\ definition # Fail /\ DecodeRegistry(definition) # Fail
    BY <2>2
  <2>4. DecodeRegistry(definition) = reg
    BY <2>2, <2>3, SynchronizedDecoded
  <2>5. i \in DOMAIN set.registries /\ set.registries[i] = reg
    BY <2>2, <2>4
  <2>6. Get(set.registries, set.registries[i].key) = set.registries[i]
    BY <2>5, GetInjective
  <2>7. QED
    BY <2>1, <2>2, <2>5, <2>6
<1>2. RegistryDataRegistries(set) =
        [i \in DOMAIN SynchronizedRegistryKeys |-> Get(set.registries, SynchronizedRegistryKeys[i])]
  BY DEF RegistryDataRegistries
<1>3. QED
  BY <1>1, <1>2

(* CyuCore makes packets of a data set that was captured, can send them,   *)
(* and each of them is one that the vanilla server might have sent.        *)
THEOREM DatasetServed ==
    ASSUME NEW s \in DOMAIN Scenarios, NEW dataset \in DatasetsOf(s), Capturable(dataset),
           NEW manifest, ValidManifest(manifest),
           NEW packets, packets = LoadVanillaConfiguration(manifest, dataset)
    PROVE  /\ Loads(packets)
           /\ Len(packets.registryData) = Len(Scenarios[s].registryForms)
           /\ \A i \in DOMAIN Scenarios[s].registryForms :
                packets.registryData[i] \in Scenarios[s].registryForms[i]
           /\ packets.updateTags \in Scenarios[s].tagForms
<1>1. PICK set : set = DecodeDataset(dataset)
  OBVIOUS
<1>2. dataset # Fail /\ set # Fail /\ ValidSet(set) /\ RegistryDataRegistries(set) # Fail
  BY <1>1 DEF Capturable, MarshalDataset, ValidSet, ValidConfigurationSet
<1>3a. PICK r, p, groups, definitions, tags : MadeFrom(s, dataset, r, p, groups, definitions, tags)
  <2>1. s \in DOMAIN Scenarios /\ dataset \in DatasetsOf(s) /\ dataset # Fail
    BY <1>2
  <2>2. QED
    BY ONLY <2>1, DatasetMade
<1>3. /\ r \in SequencesOf(s) /\ p \in Scenarios[s].tagForms
      /\ DecodeUpdateTags(p) = << groups >>
      /\ groups \in Seq(GroupSet)
      /\ definitions = RegistryDefinitions(r, groups, Reports[s][1])
      /\ tags = TagDefinitions(definitions, ByKey(groups))
      /\ IsInjective(Keys(r)) /\ IsInjective(Keys(groups))
      /\ \A i \in DOMAIN definitions : definitions[i] # Fail
      /\ tags # Fail
      /\ dataset = [registries |-> definitions, tags |-> tags[1]]
  BY ONLY <1>3a DEF MadeFrom
<1>4. PICK report : report = Reports[s][1]
  OBVIOUS
<1>5. /\ \E n \in Nat : DOMAIN definitions = 1..n
      /\ \A i \in DOMAIN SynchronizedRegistryKeys :
           i \in DOMAIN definitions /\ definitions[i] = SynchronizedDefinition(r[i])
  BY <1>3, <1>4, DefinitionsInPlace
<1>6. PICK named : named = tags[1]
  OBVIOUS
<1>7. /\ set = [registries |-> set.registries, groups |-> named]
      /\ set.registries = [i \in DOMAIN definitions |-> DecodeRegistry(definitions[i])]
      /\ \A i \in DOMAIN definitions : DecodeRegistry(definitions[i]) # Fail
      /\ IsInjective(Keys(set.registries)) /\ IsInjective(Keys(named))
      /\ \A g \in DOMAIN named : LegalTagGroup(set.registries, named[g])
  BY <1>1, <1>2, <1>3, <1>6, DatasetDecoded
<1>8. set.groups = named
  BY <1>7
<1>9. RegistryDataRegistries(set) = [i \in DOMAIN SynchronizedRegistryKeys |-> r[i]]
  <2>1. IsInjective(Keys(r)) /\ r \in SequencesOf(s) /\ s \in DOMAIN Scenarios
    BY <1>3
  <2>2. \A i \in DOMAIN SynchronizedRegistryKeys :
          i \in DOMAIN definitions /\ definitions[i] = SynchronizedDefinition(r[i])
    BY <1>5
  <2>3. \A i \in DOMAIN definitions : definitions[i] # Fail
    BY <1>3
  <2>4. set.registries = [i \in DOMAIN definitions |-> DecodeRegistry(definitions[i])]
    BY <1>7
  <2>5. \A i \in DOMAIN definitions : DecodeRegistry(definitions[i]) # Fail
    BY <1>7
  <2>6. IsInjective(Keys(set.registries)) /\ RegistryDataRegistries(set) # Fail
    BY <1>2, <1>7
  <2>7. QED
    BY ONLY <2>1, <2>2, <2>3, <2>4, <2>5, <2>6, RegistriesServed
<1>10. PICK order \in Bijection(DOMAIN groups, DOMAIN groups) : TagGroups(set) = Reordered(groups, order)
  <2>1. /\ set.groups = tags[1] /\ IsInjective(Keys(set.groups))
        /\ \A g \in DOMAIN set.groups : LegalTagGroup(set.registries, set.groups[g])
    BY <1>6, <1>7, <1>8
  <2>2. groups \in Seq(GroupSet) /\ IsInjective(Keys(groups)) /\ \E n \in Nat : DOMAIN definitions = 1..n
    BY <1>3, <1>5
  <2>3. tags = TagDefinitions(definitions, ByKey(groups)) /\ tags # Fail
    BY <1>3
  <2>4. set.registries = [i \in DOMAIN definitions |-> DecodeRegistry(definitions[i])]
    BY <1>7
  <2>5. \A i \in DOMAIN definitions : DecodeRegistry(definitions[i]) # Fail
    BY <1>7
  <2>6. IsInjective(Keys(set.registries))
    BY <1>7
  <2>7. QED
    BY ONLY <2>1, <2>2, <2>3, <2>4, <2>5, <2>6, TagsInOrder, SMTT(60)
<1>11. PICK sent : sent = EncodeUpdateTags(set)
  OBVIOUS
<1>12. sent \in Scenarios[s].tagForms /\ WritePacket(UpdateTagsID, sent) # Fail
  <2>1. SameTags(Scenarios[s].tagForms, p)
    BY <1>3, TagFormsAssumption
  <2>2. DecodeUpdateTags(p) # Fail /\ DecodeUpdateTags(p)[1] = groups
    BY <1>3 DEF Fail
  <2>3. sent = WriteTagGroups(Reordered(groups, order))
    BY <1>10, <1>11 DEF EncodeUpdateTags
  <2>4. QED
    BY <1>10, <2>1, <2>2, <2>3 DEF SameTags
<1>13. PICK data : data = [i \in DOMAIN SynchronizedRegistryKeys |-> EncodeRegistryData(r[i])]
  OBVIOUS
<1>14. ASSUME NEW i \in DOMAIN SynchronizedRegistryKeys
       PROVE  /\ data[i] # Fail /\ data[i] \in Scenarios[s].registryForms[i]
              /\ WritePacket(RegistryDataID, data[i]) # Fail
  <2>1. PICK q \in Scenarios[s].registryForms[i] :
          r[i] = DecodeRegistryData(q, TRUE) /\ SamePacket(i, Scenarios[s].registryForms[i], q)
    BY <1>3, RegistryInPlace
  <2>2. r[i] # Fail
    BY <1>3, RegistryInPlace
  <2>3. data[i] = EncodeRegistryData(r[i])
    BY <1>13
  <2>4. QED
    BY <2>1, <2>2, <2>3 DEF SamePacket
<1>15. packets = [registryData |-> data, updateTags |-> sent]
  <2>1. packets = ConfigurationPackets(set)
    BY <1>1, <1>2 DEF LoadVanillaConfiguration
  <2>2. PICK registries : registries = RegistryDataRegistries(set)
    OBVIOUS
  <2>3. [i \in DOMAIN registries |-> EncodeRegistryData(registries[i])] = data
    BY <1>9, <1>13, <2>2
  <2>4. ~(\E i \in DOMAIN data : data[i] = Fail)
    BY <1>13, <1>14
  <2>5. QED
    BY <1>11, <2>1, <2>2, <2>3, <2>4 DEF ConfigurationPackets, Made
<1>16. packets.registryData = data /\ packets.updateTags = sent /\ packets # Fail
  BY <1>15 DEF Fail
<1>17. DOMAIN data = DOMAIN SynchronizedRegistryKeys
  BY <1>13
<1>18. /\ DOMAIN Scenarios[s].registryForms = DOMAIN SynchronizedRegistryKeys
       /\ Len(data) = Len(Scenarios[s].registryForms)
  <2>1. PICK K \in Seq(Identifiers), F \in Seq(SUBSET Seq(Nat)) :
          K = SynchronizedRegistryKeys /\ F = Scenarios[s].registryForms /\ Len(F) = Len(K)
    BY KeysAssumption, PayloadsAssumption
  <2>2. DOMAIN K = 1..Len(K) /\ DOMAIN F = 1..Len(F) /\ Len(K) \in Nat
    OBVIOUS
  <2>3. DOMAIN data = 1..Len(K)
    BY <1>17, <2>1, <2>2
  <2>4. Len(data) = Len(K)
    BY ONLY <2>2, <2>3
  <2>5. QED
    BY <2>1, <2>2, <2>4
<1>19. Loads(packets)
  BY <1>12, <1>14, <1>16, <1>17 DEF Loads
<1>20. QED
  BY <1>12, <1>14, <1>16, <1>18, <1>19

---------------------------------------------------------------------------
(* The inductive invariant *)

\* The packets that may be on their way, and the report has been read
Packets == IF pc = "login" THEN LoginPackets ELSE ConfigPackets

\* The variables have their types, and a run is going on only if the report could be read
TypesInv ==
  /\ vanilla \in DOMAIN Scenarios
  /\ pc \in {"idle", "login", "configuration", "create", "write", "sync", "rename"}
  /\ faults \in Nat /\ runs \in Nat
  /\ exit \in {"none", "refused", "killed", "done"}
  /\ file \in {"dataset", "manifest"}
  /\ pc # "idle" => exit = "none" /\ Reports[vanilla] # Fail

\* On a connection that is up there is a whole packet or none, and what is left of a packet
\* when it breaks is the packet, or cannot be read
LinkInv ==
  /\ link \in [up : BOOLEAN, frame : Seq(Nat)]
  /\ InSession /\ link.up /\ link.frame # <<>> =>
       \E p \in Packets : WritePacket(p[1], p[2]) # Fail /\ link.frame = WritePacket(p[1], p[2])
  /\ InSession /\ ReadPacket(link.frame) # Fail => ReadPacket(link.frame) \in Packets

\* What has been collected was read in packets of the server
SessionInv ==
  /\ session \in [packs : BOOLEAN, registries : Seq(RegistriesOf(vanilla)),
                  tags : {Nothing} \union TagsOf(vanilla)]
  /\ pc \in {"idle", "login"} => session = NoSession

\* A registry that was read in one of the forms of the packet at this place
AtPlace(i, reg) == \E p \in ScenarioOf.registryForms[i] : reg = DecodeRegistryData(p, TRUE)

\* As long as nothing went wrong, the connection is up, every packet is in its place, and so
\* is what was read in them
UndisturbedInv ==
  faults = 0 /\ InSession =>
    /\ link.up
    /\ link.frame # <<>> => InOrder(ReadPacket(link.frame))
    /\ session.registries # <<>> => session.packs
    /\ Len(session.registries) <= Len(ScenarioOf.registryForms)
    /\ \A i \in DOMAIN session.registries : AtPlace(i, session.registries[i])

\* What is written may be written
Built(out) == /\ out.dataset \in DatasetsOf(vanilla) /\ Capturable(out.dataset)
              /\ out.manifest = ManifestOf(vanilla) /\ out.manifest # Fail
              /\ out = [dataset |-> out.dataset, manifest |-> out.manifest]

OutputInv ==
  /\ Writing => Built(output)
  /\ ~Writing => output = Nothing /\ file = "dataset"

\* The temporary file is at the state that its step of writeFileAtomic leaves
TempInv ==
  /\ pc \in {"write", "sync", "rename"} =>
       temp = [content |-> temp.content, synced |-> temp.synced, of |-> vanilla]
  /\ pc \in {"sync", "rename"} => temp.content = << output[file] >>
  /\ pc = "rename" => temp.synced = TRUE

\* A file is missing, or the older one, or what this server was captured as; in any case synced
Captured(f, x) ==
  IF f = "dataset" THEN x \in DatasetsOf(vanilla) /\ Capturable(x)
  ELSE x = ManifestOf(vanilla) /\ x # Fail

Own(f, x) == x = WholeFile(x.content[1], vanilla) /\ Captured(f, x.content[1])

Version(f, x) == x = Nothing \/ x = Older[f] \/ Own(f, x)

OfVanilla(x) == x # Nothing /\ x.of = vanilla

\* A power failure may leave the versions that a file has had, all of them whole, and one of
\* this server only if the file is of this server
DiskInv ==
  /\ disk = [f \in {"dataset", "manifest"} |-> disk[f]]
  /\ \A f \in {"dataset", "manifest"} : disk[f] \in saved[f]
  /\ \A f \in {"dataset", "manifest"} : \A x \in saved[f] : Version(f, x)
  /\ \A f \in {"dataset", "manifest"} : \A x \in saved[f] : OfVanilla(x) => OfVanilla(disk[f])
  /\ saved = [f \in {"dataset", "manifest"} |-> saved[f]]
  /\ ManifestNotAhead
  /\ Writing /\ file = "manifest" => OfVanilla(disk["dataset"])

\* A run of a server of which no data set can be made never wrote anything
RefusedInv == ScenarioOf.sound \/ exit # "done"

CaptureInv == /\ TypesInv /\ LinkInv /\ SessionInv /\ UndisturbedInv /\ OutputInv /\ TempInv
              /\ DiskInv /\ RefusedInv /\ WellFormedIsCaptured
              /\ CheckedInDataLoads /\ FaithfulToVanilla

(* The packets of a server have an id of 32 bits and a stream.              *)
LEMMA PacketTypes ==
    ASSUME TypesInv, NEW p \in Packets
    PROVE  /\ p = << p[1], p[2] >>
           /\ p[1] \in Int32
           /\ p[2] \in Seq(Nat)
<1>1. /\ ScenarioOf.registryForms \in Seq(SUBSET Seq(Nat))
      /\ ScenarioOf.tagForms \subseteq Seq(Nat)
  BY PayloadsAssumption DEF TypesInv, ScenarioOf
<1>2. ASSUME NEW payload \in UNION ToSet(ScenarioOf.registryForms) PROVE payload \in Seq(Nat)
  <2>1. PICK i \in DOMAIN ScenarioOf.registryForms : payload \in ScenarioOf.registryForms[i]
    BY <1>2 DEF ToSet
  <2>2. ScenarioOf.registryForms[i] \in SUBSET Seq(Nat)
    BY <1>1, <2>1
  <2>3. QED
    BY <2>1, <2>2
<1>3. ASSUME NEW id \in Int32, NEW payload \in Seq(Nat), p = << id, payload >>
      PROVE  p = << p[1], p[2] >> /\ p[1] \in Int32 /\ p[2] \in Seq(Nat)
  BY <1>3
<1>4. CASE p \in LoginPackets
  <2>1. PICK id \in {0, 2, 3, 4} : p = << id, <<>> >>
    BY <1>4 DEF LoginPackets, LoginDisconnect, LoginSuccess, LoginCompress, LoginPluginRequest
  <2>2. id \in Int32 /\ <<>> \in Seq(Nat)
    BY SMT DEF Int32
  <2>3. QED
    BY <1>3, <2>1, <2>2
<1>5. CASE p \in ConfigPackets
  <2>1. CASE \E id \in {1, 2, 3, 14} : p = << id, <<>> >>
    <3>1. PICK id \in {1, 2, 3, 14} : p = << id, <<>> >>
      BY <2>1
    <3>2. id \in Int32 /\ <<>> \in Seq(Nat)
      BY SMT DEF Int32
    <3>3. QED
      BY <1>3, <3>1, <3>2
  <2>2. CASE \E id \in {4, 5}, n \in {4, 5, 7, 8} : p = << id, [i \in 1..n |-> i] >>
    <3>1. PICK id \in {4, 5}, n \in {4, 5, 7, 8} : p = << id, [i \in 1..n |-> i] >>
      BY <2>2
    <3>2. id \in Int32 /\ n \in Nat
      BY SMT DEF Int32
    <3>3. [i \in 1..n |-> i] \in Seq(Nat)
      BY <3>2
    <3>4. QED
      BY <1>3, <3>1, <3>2, <3>3
  <2>3. CASE \E id \in {7, 13}, payload \in Seq(Nat) : p = << id, payload >>
    <3>1. PICK id \in {7, 13}, payload \in Seq(Nat) : p = << id, payload >>
      BY <2>3
    <3>2. id \in Int32
      BY SMT DEF Int32
    <3>3. QED
      BY <1>3, <3>1, <3>2
  <2>4. QED
    BY <1>1, <1>2, <1>5, <2>1, <2>2, <2>3
       DEF ConfigPackets, ConfigPluginMessage, ConfigDisconnect, ConfigFinish, ConfigKnownPacks,
           ConfigKeepAlive, ConfigPing, UpdateTagsID, RegistryDataID
<1>6. QED
  BY <1>4, <1>5 DEF Packets

(* What a handler gets is a packet of the server or nothing, and as long   *)
(* as nothing went wrong, a packet in its place.                           *)
LEMMA PacketReceived ==
    ASSUME TypesInv, LinkInv, UndisturbedInv, InSession, NEW packet, packet = ReadPacket(link.frame)
    PROVE  /\ packet = Fail \/ packet \in Packets
           /\ faults = 0 /\ packet # Fail => InOrder(packet)
           /\ link.up /\ link.frame # <<>> => packet # Fail
<1>1. packet # Fail => link.frame # <<>>
  BY NoPacket
<1>2. ASSUME link.up, link.frame # <<>> PROVE packet # Fail
  <2>1. PICK p \in Packets : WritePacket(p[1], p[2]) # Fail /\ link.frame = WritePacket(p[1], p[2])
    BY <1>2 DEF LinkInv
  <2>2. PICK id \in Int32, payload \in Seq(Nat) : id = p[1] /\ payload = p[2]
    BY PacketTypes
  <2>3. ReadPacket(WritePacket(id, payload)) = << id, payload >>
    BY <2>1, <2>2, PacketRoundTrip
  <2>4. QED
    BY <2>1, <2>2, <2>3 DEF Fail
<1>3. QED
  BY <1>1, <1>2 DEF LinkInv, UndisturbedInv

(* Some state of the variables that the disk depends on.                   *)
LEMMA DiskUnchanged ==
    ASSUME DiskInv, UNCHANGED << vanilla, disk, saved, lost >>, exit' = "done" => exit = "done",
           Writing' /\ file' = "manifest" => Writing /\ file = "manifest"
    PROVE  DiskInv'
<1>1. \A f, x : Version(f, x)' = Version(f, x) /\ OfVanilla(x)' = OfVanilla(x)
  BY DEF Version, Own, Captured, OfVanilla
<1>2. ManifestNotAhead'
  BY DEF DiskInv, ManifestNotAhead
<1>3. \A f \in {"dataset", "manifest"} : OfVanilla(disk[f])' = OfVanilla(disk[f])
  BY DEF OfVanilla
<1>4. QED
  BY <1>1, <1>2, <1>3 DEF DiskInv

(* When a run ends, nothing is left of it but what is on disk and how it   *)
(* ended.                                                                  *)
LEMMA RunEnds ==
    ASSUME CaptureInv, NEW how \in {"none", "refused", "killed", "done"}, EndRun(how), DiskInv', faults' \in Nat,
           how = "refused" /\ ScenarioOf.sound => faults' # 0,
           how = "done" => ScenarioOf.sound
    PROVE  CaptureInv'
<1>1. /\ vanilla' = vanilla /\ pc' = "idle" /\ exit' = how /\ runs' = runs /\ server' = server
      /\ link' = [up |-> FALSE, frame |-> <<>>] /\ session' = NoSession
      /\ output' = Nothing /\ file' = "dataset" /\ temp' = Nothing
  BY DEF EndRun, Closed, Files
<1>2. ScenarioOf' = ScenarioOf
  BY <1>1 DEF ScenarioOf
<1>3. TypesInv'
  BY <1>1 DEF CaptureInv, TypesInv
<1>4. LinkInv'
  BY <1>1 DEF LinkInv, InSession
<1>5. SessionInv'
  BY <1>1 DEF SessionInv, NoSession
<1>6. UndisturbedInv' /\ OutputInv' /\ TempInv'
  BY <1>1 DEF UndisturbedInv, OutputInv, TempInv, InSession, Writing
<1>7. RefusedInv'
  BY <1>1, <1>2 DEF RefusedInv
<1>8. WellFormedIsCaptured'
  BY <1>1, <1>2 DEF WellFormedIsCaptured
<1>9. CheckedInDataLoads' /\ FaithfulToVanilla'
  BY <1>1, <1>2 DEF CaptureInv, CheckedInDataLoads, FaithfulToVanilla
<1>10. QED
  BY <1>3, <1>4, <1>5, <1>6, <1>7, <1>8, <1>9 DEF CaptureInv

(* A run that is refused where no undisturbed session of a sound server    *)
(* gets to.                                                                *)
LEMMA RunRefused ==
    ASSUME CaptureInv, Refuse, ScenarioOf.sound => faults # 0
    PROVE  CaptureInv'
<1>1. /\ EndRun("refused") /\ UNCHANGED << vanilla, disk, saved, lost, faults >>
      /\ pc' = "idle" /\ exit' = "refused"
  BY DEF Refuse, EndRun, diskVars
<1>2. DiskInv'
  BY <1>1, DiskUnchanged DEF CaptureInv, Writing
<1>3. faults' \in Nat
  BY <1>1 DEF CaptureInv, TypesInv
<1>4. QED
  BY <1>1, <1>2, <1>3, RunEnds

(* A fault ends the run.                                                   *)
LEMMA RunDisturbed ==
    ASSUME CaptureInv, NEW how \in {"refused", "killed"}, EndRun(how), Fault, UNCHANGED diskVars
    PROVE  CaptureInv'
<1>1. /\ UNCHANGED << vanilla, disk, saved, lost >>
      /\ pc' = "idle" /\ exit' = how /\ faults' = faults + 1
  BY DEF EndRun, Fault, diskVars
<1>2. DiskInv'
  BY <1>1, DiskUnchanged DEF CaptureInv, Writing
<1>3. faults' \in Nat /\ faults' # 0
  BY <1>1 DEF CaptureInv, TypesInv
<1>4. QED
  BY <1>1, <1>2, <1>3, RunEnds

(* A packet has been consumed, and what was made of it is in its place.    *)
LEMMA SessionGoesOn ==
    ASSUME CaptureInv, InSession, NEW next, Continue(next), SessionInv',
           faults = 0 => /\ next.registries # <<>> => next.packs
                         /\ Len(next.registries) <= Len(ScenarioOf.registryForms)
                         /\ \A i \in DOMAIN next.registries : AtPlace(i, next.registries[i])
    PROVE  CaptureInv'
<1>1. /\ UNCHANGED << vanilla, pc, output, file, temp, disk, saved, lost, runs, faults, exit, server >>
      /\ session' = next
      /\ link' = [up |-> link.up, frame |-> <<>>]
  BY DEF Continue, writeVars, diskVars, CaptureInv, LinkInv
<1>2. ScenarioOf' = ScenarioOf /\ InSession' /\ ~Writing /\ ~Writing'
  BY <1>1 DEF ScenarioOf, InSession, Writing
<1>3. TypesInv'
  BY <1>1 DEF CaptureInv, TypesInv
<1>4. LinkInv'
  BY <1>1, NoPacket DEF CaptureInv, LinkInv
<1>5. UndisturbedInv'
  BY <1>1, <1>2 DEF CaptureInv, UndisturbedInv, AtPlace
<1>6. OutputInv' /\ TempInv'
  BY <1>1, <1>2 DEF CaptureInv, OutputInv, TempInv, Writing
<1>7. DiskInv'
  BY <1>1, <1>2, DiskUnchanged DEF CaptureInv
<1>8. RefusedInv' /\ WellFormedIsCaptured' /\ CheckedInDataLoads' /\ FaithfulToVanilla'
  BY <1>1, <1>2 DEF CaptureInv, RefusedInv, WellFormedIsCaptured, CheckedInDataLoads, FaithfulToVanilla
<1>9. QED
  BY <1>3, <1>4, <1>5, <1>6, <1>7, <1>8 DEF CaptureInv

(* A server is sound or not.                                               *)
LEMMA SoundOrNot ==
    ASSUME TypesInv
    PROVE  IF ScenarioOf.sound THEN Sound(vanilla) ELSE Unsound(vanilla)
BY SoundAssumption DEF TypesInv, ScenarioOf

(* A run begins with nothing read, or is refused at once: the report of a  *)
(* sound server can be read, so that is a fault.                           *)
LEMMA BeginStep == CaptureInv /\ Begin => CaptureInv'
<1> SUFFICES ASSUME CaptureInv, Begin PROVE CaptureInv'
  OBVIOUS
<1>1. /\ UNCHANGED << vanilla, session, output, file, temp, disk, saved, lost, server >>
      /\ pc = "idle" /\ server = Nothing /\ runs' = runs + 1
  BY DEF Begin, writeVars, diskVars
<1>2. ScenarioOf' = ScenarioOf /\ ~Writing /\ ~InSession
  BY <1>1 DEF ScenarioOf, Writing, InSession
<1>3. session = NoSession
  BY <1>1 DEF CaptureInv, SessionInv
<1>4. CheckedInDataLoads' /\ FaithfulToVanilla'
  BY <1>1 DEF CheckedInDataLoads, FaithfulToVanilla
<1>5. CASE /\ Reports[vanilla] # Fail
           /\ pc' = "login" /\ exit' = "none" /\ link' = [up |-> TRUE, frame |-> <<>>]
           /\ faults' = 0
  <2>1. TypesInv'
    BY <1>1, <1>5 DEF CaptureInv, TypesInv
  <2>2. LinkInv'
    BY <1>1, <1>5, NoPacket DEF LinkInv
  <2>3. SessionInv'
    BY <1>1, <1>3, <1>5 DEF CaptureInv, SessionInv
  <2>4. UndisturbedInv'
    <3>1. Len(ScenarioOf.registryForms) \in Nat
      BY PayloadsAssumption DEF CaptureInv, TypesInv, ScenarioOf
    <3>2. session'.registries = <<>> /\ link'.up /\ link'.frame = <<>>
      BY <1>1, <1>3, <1>5 DEF NoSession
    <3>3. QED
      BY <1>2, <3>1, <3>2 DEF UndisturbedInv
  <2>5. OutputInv' /\ TempInv' /\ ~Writing'
    BY <1>1, <1>2, <1>5 DEF CaptureInv, OutputInv, TempInv, Writing
  <2>6. DiskInv'
    BY <1>1, <1>5, <2>5, DiskUnchanged DEF CaptureInv
  <2>7. RefusedInv' /\ WellFormedIsCaptured'
    BY <1>5 DEF RefusedInv, WellFormedIsCaptured
  <2>8. QED
    BY <1>4, <2>1, <2>2, <2>3, <2>4, <2>5, <2>6, <2>7 DEF CaptureInv
<1>6. CASE /\ pc' = "idle" /\ exit' = "refused" /\ UNCHANGED link
           /\ faults' = IF Reports[vanilla] = Fail THEN 0 ELSE 1
  <2>1. TypesInv'
    BY <1>1, <1>6 DEF CaptureInv, TypesInv
  <2>2. LinkInv'
    BY <1>1, <1>6 DEF CaptureInv, LinkInv, InSession
  <2>3. SessionInv'
    BY <1>1, <1>3, <1>6 DEF CaptureInv, SessionInv
  <2>4. UndisturbedInv' /\ OutputInv' /\ TempInv' /\ ~Writing'
    BY <1>1, <1>2, <1>6 DEF CaptureInv, UndisturbedInv, OutputInv, TempInv, Writing, InSession
  <2>5. DiskInv'
    BY <1>1, <1>6, <2>4, DiskUnchanged DEF CaptureInv
  <2>6. RefusedInv'
    BY <1>6 DEF RefusedInv
  <2>7. WellFormedIsCaptured'
    <3>1. ScenarioOf.sound => Reports[vanilla] # Fail
      BY SoundOrNot DEF CaptureInv, Sound
    <3>2. QED
      BY <1>2, <1>6, <3>1 DEF WellFormedIsCaptured
  <2>8. QED
    BY <1>4, <2>1, <2>2, <2>3, <2>4, <2>5, <2>6, <2>7 DEF CaptureInv
<1>7. QED
  BY <1>5, <1>6 DEF Begin

(* What the network does leaves all the rest alone.                        *)
LEMMA OnlyLink ==
    ASSUME CaptureInv, InSession, LinkInv', UndisturbedInv', faults' \in Nat, faults = faults' \/ faults' # 0,
           UNCHANGED << vanilla, pc, session, writeVars, runs, exit, server >>
    PROVE  CaptureInv'
<1>1. UNCHANGED << vanilla, pc, session, output, file, temp, disk, saved, lost, runs, exit, server >>
  BY DEF writeVars, diskVars
<1>2. ScenarioOf' = ScenarioOf /\ ~Writing /\ ~Writing'
  BY <1>1 DEF ScenarioOf, Writing, InSession
<1>3. TypesInv' /\ SessionInv'
  BY <1>1 DEF CaptureInv, TypesInv, SessionInv
<1>4. OutputInv' /\ TempInv'
  BY <1>1, <1>2 DEF CaptureInv, OutputInv, TempInv, Writing
<1>5. DiskInv'
  BY <1>1, <1>2, DiskUnchanged DEF CaptureInv
<1>6. RefusedInv' /\ WellFormedIsCaptured' /\ CheckedInDataLoads' /\ FaithfulToVanilla'
  BY <1>1, <1>2 DEF CaptureInv, RefusedInv, WellFormedIsCaptured, CheckedInDataLoads, FaithfulToVanilla
<1>7. QED
  BY <1>3, <1>4, <1>5, <1>6 DEF CaptureInv

(* The server sends a whole packet. One out of its place counts as a       *)
(* fault.                                                                  *)
LEMMA VanillaSendsStep == CaptureInv /\ VanillaSends => CaptureInv'
<1> SUFFICES ASSUME CaptureInv, VanillaSends PROVE CaptureInv'
  OBVIOUS
<1>1. PICK p \in Packets :
        /\ (InOrder(p) /\ UNCHANGED faults) \/ Fault
        /\ link' = [link EXCEPT !.frame = WritePacket(p[1], p[2])]
  BY DEF VanillaSends, Packets
<1>2. /\ InSession /\ link = [up |-> TRUE, frame |-> <<>>]
      /\ UNCHANGED << vanilla, pc, session, writeVars, runs, exit, server >>
  BY DEF VanillaSends
<1>3. ScenarioOf' = ScenarioOf /\ Packets' = Packets /\ (InSession <=> InSession')
  BY <1>2 DEF ScenarioOf, InSession, Packets, ConfigPackets
<1>4. PICK id \in Int32, payload \in Seq(Nat) : p = << id, payload >> /\ id = p[1] /\ payload = p[2]
  BY PacketTypes DEF CaptureInv
<1>5. PICK frame : frame = WritePacket(id, payload)
  OBVIOUS
<1>6. frame # Fail => frame \in Seq(Nat) /\ ReadPacket(frame) = p
  BY <1>4, <1>5, FrameOfPacket, PacketRoundTrip
<1>7. frame \in Seq(Nat) /\ ReadPacket(frame) \in {Fail, p}
  <2>1. CASE frame = Fail
    <3>1. <<>> \in Seq(Nat) /\ frame = <<>>
      BY <2>1 DEF Fail
    <3>2. QED
      BY <3>1, NoPacket
  <2>2. QED
    BY <1>6, <2>1
<1>8. link' = [up |-> TRUE, frame |-> frame]
  BY <1>1, <1>2, <1>4, <1>5
<1>9. LinkInv'
  <2>1. link' \in [up : BOOLEAN, frame : Seq(Nat)]
    BY <1>7, <1>8
  <2>2. link'.frame # <<>> => WritePacket(p[1], p[2]) # Fail /\ link'.frame = WritePacket(p[1], p[2])
    BY <1>4, <1>5, <1>8 DEF Fail
  <2>3. ReadPacket(link'.frame) \in {Fail, p}
    BY <1>7, <1>8
  <2>4. QED
    BY <1>3, <2>1, <2>2, <2>3 DEF LinkInv
<1>10. UndisturbedInv'
  <2>1. ASSUME faults' = 0 PROVE faults = 0 /\ InOrder(p)
    BY <1>1, <2>1 DEF Fault, CaptureInv, TypesInv
  <2>2. link'.frame # <<>> => ReadPacket(link'.frame) = p
    BY <1>6, <1>8 DEF Fail
  <2>3. ASSUME faults' = 0, link'.frame # <<>> PROVE InOrder(ReadPacket(link.frame))'
    <3>1. InOrder(p)
      BY <2>1, <2>3
    <3>2. ReadPacket(link'.frame) = p
      BY <2>2, <2>3
    <3>3. UNCHANGED << pc, session >>
      BY <1>2
    <3>4. QED
      BY <1>3, <3>1, <3>2, <3>3 DEF InOrder
  <2>4. link'.up /\ UNCHANGED << pc, session >>
    BY <1>2, <1>8
  <2>5. faults' = 0 => UndisturbedInv
    BY DEF CaptureInv
  <2>6. QED
    BY <1>2, <1>3, <2>1, <2>3, <2>4, <2>5 DEF UndisturbedInv, AtPlace
<1>11. faults' \in Nat /\ (faults = faults' \/ faults' # 0)
  BY <1>1 DEF Fault, CaptureInv, TypesInv
<1>12. QED
  BY <1>2, <1>9, <1>10, <1>11, OnlyLink

(* The connection breaks: what is left of a packet is the packet, or       *)
(* cannot be read.                                                         *)
LEMMA ConnectionLostStep == CaptureInv /\ ConnectionLost => CaptureInv'
<1> SUFFICES ASSUME CaptureInv, ConnectionLost PROVE CaptureInv'
  OBVIOUS
<1>1. link \in [up : BOOLEAN, frame : Seq(Nat)]
  BY DEF CaptureInv, LinkInv
<1>2. PICK frame \in Seq(Nat) : frame = link.frame
  BY <1>1
<1>3. PICK n \in {0, Len(frame) \div 2, Len(frame) - 1, Len(frame)} :
        link' = [up |-> FALSE, frame |-> SubSeq(frame, 1, n)]
  BY <1>2 DEF ConnectionLost
<1>4. /\ InSession /\ link.up /\ faults' = faults + 1
      /\ UNCHANGED << vanilla, pc, session, writeVars, runs, exit, server >>
  BY DEF ConnectionLost, Fault
<1>5. n \in (-1)..Len(frame)
  <2>1. PICK l \in Nat : l = Len(frame)
    BY <1>2
  <2>2. l \div 2 \in 0..l
    BY <2>1
  <2>3. QED
    BY <1>3, <2>1, <2>2
<1>6. SubSeq(frame, 1, n) \in Seq(Nat)
  <2>1. \A i \in 1..n : frame[i] \in Nat
    BY <1>5, ElementOfSeq
  <2>2. QED
    BY <1>5, <2>1, SubSeqProperties
<1>7. ReadPacket(SubSeq(frame, 1, n)) \in {Fail, ReadPacket(frame)}
  <2>1. CASE frame = <<>>
    <3>1. n < 1
      BY <1>5, <2>1
    <3>2. SubSeq(frame, 1, n) = <<>>
      BY <1>5, <3>1, SubSeqEmpty
    <3>3. QED
      BY <3>2, NoPacket
  <2>2. CASE frame # <<>>
    <3>1. PICK p \in Packets : WritePacket(p[1], p[2]) # Fail /\ frame = WritePacket(p[1], p[2])
      BY <1>2, <1>4, <2>2 DEF CaptureInv, LinkInv
    <3>2. PICK id \in Int32, payload \in Seq(Nat) : id = p[1] /\ payload = p[2]
      BY PacketTypes DEF CaptureInv
    <3>3. CASE n = Len(frame)
      BY <3>3, SubSeqFull
    <3>4. CASE n < Len(frame)
      <4>1. Len(frame) \in Nat /\ Len(frame) # 0
        BY <2>2
      <4>2. n \in Nat
        BY <1>3, <4>1
      <4>3. QED
        BY <3>1, <3>2, <3>4, <4>2, PacketCutShort
    <3>5. QED
      BY <1>5, <3>3, <3>4
  <2>3. QED
    BY <2>1, <2>2
<1>8. Packets' = Packets /\ (InSession' <=> InSession)
  BY <1>4 DEF Packets, ConfigPackets, ScenarioOf, InSession
<1>9. LinkInv'
  <2>1. link' \in [up : BOOLEAN, frame : Seq(Nat)] /\ ~link'.up
    BY <1>3, <1>6
  <2>2. ReadPacket(link'.frame) \in {Fail, ReadPacket(link.frame)}
    BY <1>2, <1>3, <1>7
  <2>3. QED
    BY <1>8, <2>1, <2>2 DEF CaptureInv, LinkInv
<1>10. faults' \in Nat /\ faults' # 0
  BY <1>4 DEF CaptureInv, TypesInv
<1>11. UndisturbedInv'
  BY <1>10 DEF UndisturbedInv
<1>12. QED
  BY <1>4, <1>9, <1>10, <1>11, OnlyLink

(* What a packet in its place is.                                          *)
LEMMA InOrderOfLogin ==
    ASSUME NEW p, InOrder(p), pc = "login"
    PROVE  p[1] \in {LoginSuccess, LoginPluginRequest}
BY DEF InOrder

(* What a packet of the configuration must be to be in its place.          *)
LEMMA InOrderOfConfiguration ==
    ASSUME NEW p, InOrder(p), pc = "configuration"
    PROVE  /\ p[1] # ConfigDisconnect
           /\ p[1] = ConfigKnownPacks => ~session.packs
           /\ p[1] = RegistryDataID => /\ session.packs
                                       /\ Len(session.registries) < Len(ScenarioOf.registryForms)
                                       /\ p[2] \in ScenarioOf.registryForms[Len(session.registries) + 1]
           /\ p[1] = UpdateTagsID => session.tags = Nothing
           /\ p[1] = ConfigFinish => /\ Len(session.registries) = Len(ScenarioOf.registryForms)
                                     /\ session.tags # Nothing
           /\ p[1] = ConfigKeepAlive => Len(p[2]) = 8
           /\ p[1] = ConfigPing => Len(p[2]) = 4
<1>1. CASE p[1] \in {ConfigKnownPacks, RegistryDataID, UpdateTagsID, ConfigFinish}
  BY <1>1 DEF InOrder, ConfigKnownPacks, RegistryDataID, UpdateTagsID, ConfigFinish, ConfigDisconnect,
              ConfigKeepAlive, ConfigPing
<1>2. CASE p[1] \notin {ConfigKnownPacks, RegistryDataID, UpdateTagsID, ConfigFinish}
  <2>1. p \in {<< ConfigKeepAlive, [i \in 1..8 |-> i] >>, << ConfigPing, [i \in 1..4 |-> i] >>,
               << ConfigPluginMessage, <<>> >>}
    BY <1>2 DEF InOrder
  <2>2. Len([i \in 1..8 |-> i]) = 8 /\ Len([i \in 1..4 |-> i]) = 4
    OBVIOUS
  <2> DEFINE eight == [i \in 1..8 |-> i]
             four == [i \in 1..4 |-> i]
  <2> HIDE DEF eight, four
  <2>3. Len(eight) = 8 /\ Len(four) = 4 /\ p \in {<< 4, eight >>, << 5, four >>, << 1, <<>> >>}
    BY <2>1, <2>2 DEF ConfigKeepAlive, ConfigPing, ConfigPluginMessage, eight, four
  <2>4. QED
    BY <1>2, <2>3 DEF ConfigKeepAlive, ConfigPing, ConfigDisconnect
<1>3. QED
  BY <1>1, <1>2

(* The payloads of the packets that carry data.                            *)
LEMMA PayloadOf ==
    ASSUME NEW p \in ConfigPackets
    PROVE  /\ p[1] = RegistryDataID => p[2] \in UNION ToSet(ScenarioOf.registryForms)
           /\ p[1] = UpdateTagsID => p[2] \in ScenarioOf.tagForms
<1>1. CASE p[1] \notin {RegistryDataID, UpdateTagsID}
  BY <1>1
<1>2. CASE p[1] \in {RegistryDataID, UpdateTagsID}
  <2>1. \/ \E payload \in ScenarioOf.tagForms : p = << UpdateTagsID, payload >>
        \/ \E payload \in UNION ToSet(ScenarioOf.registryForms) : p = << RegistryDataID, payload >>
    BY <1>2 DEF ConfigPackets, ConfigPluginMessage, ConfigDisconnect, ConfigFinish, ConfigKnownPacks,
           ConfigKeepAlive, ConfigPing, UpdateTagsID, RegistryDataID
  <2>2. QED
    BY <2>1 DEF UpdateTagsID, RegistryDataID
<1>3. QED
  BY <1>1, <1>2

(* The login is over.                                                      *)
LEMMA LoginSucceedsStep == ASSUME CaptureInv, NEW packet, LoginSucceeds(packet) PROVE CaptureInv'
<1>1. /\ UNCHANGED << vanilla, session, output, file, temp, disk, saved, lost, runs, faults, exit, server >>
      /\ pc = "login" /\ pc' = "configuration"
      /\ link' = [up |-> link.up, frame |-> <<>>]
  BY DEF LoginSucceeds, writeVars, diskVars, CaptureInv, LinkInv
<1>2. ScenarioOf' = ScenarioOf /\ InSession /\ InSession' /\ ~Writing /\ ~Writing'
  BY <1>1 DEF ScenarioOf, InSession, Writing
<1>3. TypesInv'
  BY <1>1 DEF CaptureInv, TypesInv
<1>4. LinkInv'
  BY <1>1, NoPacket DEF CaptureInv, LinkInv
<1>5. SessionInv'
  BY <1>1 DEF CaptureInv, SessionInv
<1>6. UndisturbedInv'
  BY <1>1, <1>2 DEF CaptureInv, UndisturbedInv, AtPlace
<1>7. OutputInv' /\ TempInv'
  BY <1>1, <1>2 DEF CaptureInv, OutputInv, TempInv, Writing
<1>8. DiskInv'
  BY <1>1, <1>2, DiskUnchanged DEF CaptureInv
<1>9. RefusedInv' /\ WellFormedIsCaptured' /\ CheckedInDataLoads' /\ FaithfulToVanilla'
  BY <1>1, <1>2 DEF CaptureInv, RefusedInv, WellFormedIsCaptured, CheckedInDataLoads, FaithfulToVanilla
<1>10. QED
  BY <1>3, <1>4, <1>5, <1>6, <1>7, <1>8, <1>9 DEF CaptureInv

(* The session goes on with what it has.                                   *)
LEMMA SessionKept ==
    ASSUME CaptureInv, InSession, Continue(session) PROVE CaptureInv'
<1>1. UNCHANGED << vanilla, pc, session >>
  BY DEF Continue
<1>2. SessionInv'
  BY <1>1 DEF CaptureInv, SessionInv
<1>3. PICK next : next = session
  OBVIOUS
<1>4. Continue(next)
  BY <1>3
<1>5. faults = 0 => /\ next.registries # <<>> => next.packs
                    /\ Len(next.registries) <= Len(ScenarioOf.registryForms)
                    /\ \A i \in DOMAIN next.registries : AtPlace(i, next.registries[i])
  BY <1>3 DEF CaptureInv, UndisturbedInv
<1>6. QED
  BY <1>2, <1>4, <1>5, SessionGoesOn

(* What a sequence is with one more element.                               *)
LEMMA AppendedTo ==
    ASSUME NEW T, NEW s \in Seq(T), NEW e \in T
    PROVE  /\ Append(s, e) \in Seq(T)
           /\ Len(Append(s, e)) = Len(s) + 1
           /\ \A i \in 1..Len(s) : Append(s, e)[i] = s[i]
           /\ Append(s, e)[Len(s) + 1] = e
BY AppendProperties

(* A registry has been read.                                               *)
LEMMA RegistryRead ==
    ASSUME CaptureInv, pc = "configuration", NEW payload \in UNION ToSet(ScenarioOf.registryForms),
           NEW reg, reg = DecodeRegistryData(payload, TRUE), reg # Fail, session.packs,
           Continue([session EXCEPT !.registries = Append(@, reg)]),
           faults = 0 => /\ Len(session.registries) < Len(ScenarioOf.registryForms)
                         /\ payload \in ScenarioOf.registryForms[Len(session.registries) + 1]
    PROVE  CaptureInv'
<1>1. PICK next : next = [session EXCEPT !.registries = Append(@, reg)]
  OBVIOUS
<1>2. reg \in RegistriesOf(vanilla)
  BY DEF RegistriesOf, ScenarioOf
<1>3. /\ session.packs \in BOOLEAN /\ session.registries \in Seq(RegistriesOf(vanilla))
      /\ session.tags \in {Nothing} \union TagsOf(vanilla)
  BY DEF CaptureInv, SessionInv
<1>4. PICK regs \in Seq(RegistriesOf(vanilla)) : regs = session.registries
  BY <1>3
<1>5. next = [packs |-> session.packs, registries |-> Append(regs, reg), tags |-> session.tags]
  BY <1>1, <1>4 DEF CaptureInv, SessionInv
<1>6. /\ Append(regs, reg) \in Seq(RegistriesOf(vanilla))
      /\ Len(Append(regs, reg)) = Len(regs) + 1
      /\ \A i \in 1..Len(regs) : Append(regs, reg)[i] = regs[i]
      /\ Append(regs, reg)[Len(regs) + 1] = reg
  <2>1. PICK T : T = RegistriesOf(vanilla)
    OBVIOUS
  <2>2. regs \in Seq(T) /\ reg \in T
    BY <1>2, <2>1
  <2>3. /\ Append(regs, reg) \in Seq(T)
        /\ Len(Append(regs, reg)) = Len(regs) + 1
        /\ \A i \in 1..Len(regs) : Append(regs, reg)[i] = regs[i]
        /\ Append(regs, reg)[Len(regs) + 1] = reg
    BY ONLY <2>2, AppendedTo
  <2>4. QED
    BY <2>1, <2>3
<1>7. Continue(next) /\ UNCHANGED << vanilla, pc >> /\ session' = next
  BY <1>1 DEF Continue
<1>8. SessionInv'
  <2>1. next \in [packs : BOOLEAN, registries : Seq(RegistriesOf(vanilla)),
                  tags : {Nothing} \union TagsOf(vanilla)]
    BY <1>3, <1>5, <1>6
  <2>2. QED
    BY <1>7, <2>1 DEF SessionInv
<1>9. ASSUME faults = 0
      PROVE  /\ next.registries # <<>> => next.packs
             /\ Len(next.registries) <= Len(ScenarioOf.registryForms)
             /\ \A i \in DOMAIN next.registries : AtPlace(i, next.registries[i])
  <2>1. Len(regs) < Len(ScenarioOf.registryForms) /\ payload \in ScenarioOf.registryForms[Len(regs) + 1]
    BY <1>4, <1>9
  <2>2. \A i \in 1..Len(regs) : AtPlace(i, regs[i])
    BY <1>4, <1>9 DEF CaptureInv, UndisturbedInv, InSession
  <2>3. AtPlace(Len(regs) + 1, reg)
    BY <2>1 DEF AtPlace
  <2>4. Len(ScenarioOf.registryForms) \in Nat
    BY PayloadsAssumption DEF CaptureInv, TypesInv, ScenarioOf
  <2>5. next.registries = Append(regs, reg) /\ next.packs
    BY <1>5
  <2>6. Len(next.registries) = Len(regs) + 1 /\ DOMAIN next.registries = 1..(Len(regs) + 1)
    <3>1. PICK T : T = RegistriesOf(vanilla)
      OBVIOUS
    <3>2. Append(regs, reg) \in Seq(T) /\ Len(Append(regs, reg)) = Len(regs) + 1
      BY <1>6, <3>1
    <3>3. DOMAIN Append(regs, reg) = 1..(Len(regs) + 1)
      BY <3>2
    <3>4. QED
      BY <1>6, <2>5, <3>3
  <2>7. \A i \in 1..(Len(regs) + 1) : AtPlace(i, next.registries[i])
    <3>1. TAKE i \in 1..(Len(regs) + 1)
    <3>2. CASE i \in 1..Len(regs)
      BY <1>6, <2>2, <2>5, <3>2
    <3>3. CASE i = Len(regs) + 1
      BY <1>6, <2>3, <2>5, <3>3
    <3>4. QED
      BY <3>2, <3>3
  <2>8. Len(next.registries) <= Len(ScenarioOf.registryForms)
    BY <2>1, <2>4, <2>6
  <2>9. QED
    BY <2>5, <2>6, <2>7, <2>8
<1>10. InSession
  BY DEF InSession
<1>11. QED
  BY <1>7, <1>8, <1>9, <1>10, SessionGoesOn

(* Known packs have been read, or the tags.                                *)
LEMMA PacksOrTagsRead ==
    ASSUME CaptureInv, pc = "configuration", NEW next, Continue(next),
           \/ next = [session EXCEPT !.packs = TRUE]
           \/ \E tags \in TagsOf(vanilla) : next = [session EXCEPT !.tags = tags]
    PROVE  CaptureInv'
<1>1. UNCHANGED << vanilla, pc >> /\ session' = next
  BY DEF Continue
<1>2. session \in [packs : BOOLEAN, registries : Seq(RegistriesOf(vanilla)),
                   tags : {Nothing} \union TagsOf(vanilla)]
  BY DEF CaptureInv, SessionInv
<1>3. /\ next \in [packs : BOOLEAN, registries : Seq(RegistriesOf(vanilla)),
                   tags : {Nothing} \union TagsOf(vanilla)]
      /\ next.registries = session.registries
      /\ session.packs => next.packs
  BY <1>2
<1>4. SessionInv'
  BY <1>1, <1>3 DEF SessionInv
<1>5. InSession
  BY DEF InSession
<1>6. faults = 0 => /\ next.registries # <<>> => next.packs
                    /\ Len(next.registries) <= Len(ScenarioOf.registryForms)
                    /\ \A i \in DOMAIN next.registries : AtPlace(i, next.registries[i])
  BY <1>3, <1>5 DEF CaptureInv, UndisturbedInv
<1>7. QED
  BY <1>4, <1>5, <1>6, SessionGoesOn

(* The session is over, and what has been collected is built and checked.  *)
LEMMA BuildOutputStep ==
    ASSUME CaptureInv, pc = "configuration", session.tags # Nothing, InSequence(session.registries), BuildOutput
    PROVE  CaptureInv'
<1>1. PICK dataset : /\ dataset = BuildDataset(session.registries, session.tags[1], Reports[vanilla][1])
                     /\ IF Capturable(dataset) /\ Manifest # Fail THEN WriteOutput(dataset) ELSE Refuse
  BY DEF BuildOutput
<1>2. dataset \in DatasetsOf(vanilla)
  <2>1. session.tags \in TagsOf(vanilla)
    BY DEF CaptureInv, SessionInv
  <2>2. session.registries \in Seq(RegistriesOf(vanilla))
    BY DEF CaptureInv, SessionInv
  <2>3. PICK T : T = RegistriesOf(vanilla)
    OBVIOUS
  <2>9. PICK regs \in Seq(T) : regs = session.registries
    BY <2>2, <2>3
  <2>4. Keys(regs) = SynchronizedRegistryKeys
    BY <2>9 DEF InSequence
  <2>5. DOMAIN regs = DOMAIN SynchronizedRegistryKeys
    BY ONLY <2>4 DEF Keys
  <2>6. regs \in [DOMAIN SynchronizedRegistryKeys -> T]
    BY ONLY <2>5, regs \in Seq(T)
  <2>7. session.registries \in SequencesOf(vanilla)
    BY <2>3, <2>6, <2>9 DEF SequencesOf
  <2>8. QED
    BY <1>1, <2>1, <2>7 DEF DatasetsOf
<1>3. CASE Capturable(dataset) /\ Manifest # Fail
  <2>1. /\ UNCHANGED << vanilla, session, file, temp, disk, saved, lost, runs, faults, exit, server >>
        /\ pc' = "create" /\ link' = [up |-> FALSE, frame |-> <<>>]
        /\ output' = [dataset |-> dataset, manifest |-> Manifest]
    BY <1>1, <1>3 DEF WriteOutput, Closed, diskVars
  <2>2. ScenarioOf' = ScenarioOf /\ ~Writing /\ Writing' /\ ~InSession'
    BY <2>1 DEF ScenarioOf, InSession, Writing
  <2>3. TypesInv'
    BY <2>1 DEF CaptureInv, TypesInv
  <2>4. LinkInv'
    BY <2>1, <2>2 DEF LinkInv
  <2>5. SessionInv'
    BY <2>1 DEF CaptureInv, SessionInv
  <2>6. UndisturbedInv' /\ TempInv'
    BY <2>1, <2>2 DEF UndisturbedInv, TempInv
  <2>7. OutputInv'
    <3>1. output'.dataset = dataset /\ output'.manifest = ManifestOf(vanilla)
      BY <2>1 DEF Manifest
    <3>2. Built(output)'
      BY <1>2, <1>3, <2>1, <3>1 DEF Built, Manifest
    <3>3. QED
      BY <2>2, <3>2 DEF OutputInv
  <2>8. DiskInv'
    <3>1. file' = "dataset"
      BY <2>1, <2>2 DEF CaptureInv, OutputInv
    <3>2. QED
      BY <2>1, <3>1, DiskUnchanged DEF CaptureInv
  <2>9. RefusedInv' /\ WellFormedIsCaptured' /\ CheckedInDataLoads' /\ FaithfulToVanilla'
    BY <2>1, <2>2 DEF CaptureInv, RefusedInv, WellFormedIsCaptured, CheckedInDataLoads, FaithfulToVanilla
  <2>10. QED
    BY <2>3, <2>4, <2>5, <2>6, <2>7, <2>8, <2>9 DEF CaptureInv
<1>4. CASE ~(Capturable(dataset) /\ Manifest # Fail)
  <2>1. Refuse
    BY <1>1, <1>4
  <2>2. ~ScenarioOf.sound
    BY <1>2, <1>4, SoundOrNot DEF Sound, Manifest, CaptureInv
  <2>3. QED
    BY <2>1, <2>2, RunRefused
<1>5. QED
  BY <1>3, <1>4

(* When all packets of an undisturbed sound server have arrived, there is  *)
(* a registry for each key, in their order.                                *)
LEMMA AllReceived ==
    ASSUME CaptureInv, InSession, faults = 0, ScenarioOf.sound,
           Len(session.registries) = Len(ScenarioOf.registryForms)
    PROVE  session.packs /\ InSequence(session.registries)
<1>1. /\ SynchronizedRegistryKeys \in Seq(Identifiers) /\ SynchronizedRegistryKeys # <<>>
      /\ ScenarioOf.registryForms \in Seq(SUBSET Seq(Nat))
      /\ Len(ScenarioOf.registryForms) = Len(SynchronizedRegistryKeys)
  BY KeysAssumption, PayloadsAssumption DEF CaptureInv, TypesInv, ScenarioOf
<1>10. PICK T : T = RegistriesOf(vanilla)
  OBVIOUS
<1>2. PICK regs \in Seq(T) : regs = session.registries
  BY <1>10 DEF CaptureInv, SessionInv
<1>3. Len(regs) = Len(SynchronizedRegistryKeys)
  BY <1>1, <1>2
<1>4. regs # <<>>
  BY ONLY <1>1, <1>3, regs \in Seq(T)
<1>5. session.packs /\ \A i \in DOMAIN regs : AtPlace(i, regs[i])
  BY <1>2, <1>4 DEF CaptureInv, UndisturbedInv
<1>6. /\ DOMAIN regs = 1..Len(SynchronizedRegistryKeys)
      /\ DOMAIN SynchronizedRegistryKeys = 1..Len(SynchronizedRegistryKeys)
      /\ DOMAIN ScenarioOf.registryForms = 1..Len(SynchronizedRegistryKeys)
  BY <1>1, <1>3
<1>7. ASSUME NEW i \in DOMAIN regs PROVE regs[i].key = SynchronizedRegistryKeys[i]
  <2>1. PICK p \in ScenarioOf.registryForms[i] : regs[i] = DecodeRegistryData(p, TRUE)
    BY <1>5, <1>7 DEF AtPlace
  <2>2. i \in DOMAIN ScenarioOf.registryForms
    BY <1>6, <1>7
  <2>3. p \in UNION ToSet(ScenarioOf.registryForms)
    BY <2>1, <2>2 DEF ToSet
  <2>4. regs[i] # Fail
    BY <2>1, <2>3, SoundOrNot DEF Sound, ScenarioOf, CaptureInv
  <2>5. SamePacket(i, ScenarioOf.registryForms[i], p)
    BY <2>1, <2>2, RegistryFormsAssumption DEF ScenarioOf, CaptureInv, TypesInv
  <2>6. QED
    BY <2>1, <2>4, <2>5 DEF SamePacket
<1>8. Keys(regs) = SynchronizedRegistryKeys
  <2>1. Keys(regs) = [i \in DOMAIN regs |-> SynchronizedRegistryKeys[i]]
    BY <1>7 DEF Keys
  <2>2. QED
    BY <1>1, <1>6, <2>1
<1>9. QED
  BY <1>2, <1>5, <1>8 DEF InSequence

(* Whatever a packet is, what the session makes of it keeps the invariant. *)
LEMMA HandleStep == CaptureInv /\ Handle => CaptureInv'
<1> SUFFICES ASSUME CaptureInv, Handle PROVE CaptureInv'
  OBVIOUS
<1>1. PICK packet : /\ packet = ReadPacket(link.frame)
                    /\ \/ ReadFails(packet) \/ ReplyFails(packet)
                       \/ LoginRefused(packet) \/ LoginSucceeds(packet) \/ Ignored(packet) \/ Disconnected(packet)
                       \/ KnownPacks(packet) \/ Echoed(packet) \/ RegistryData(packet) \/ UpdateTags(packet)
                       \/ Finish(packet)
  BY DEF Handle
<1>2. InSession
  BY <1>1 DEF ReadFails, ReplyFails, LoginRefused, LoginSucceeds, Ignored, Disconnected, KnownPacks, Echoed,
              RegistryData, UpdateTags, Finish, InSession
<1>3. /\ packet = Fail \/ packet \in Packets
      /\ faults = 0 /\ packet # Fail => InOrder(packet)
      /\ link.up /\ link.frame # <<>> => packet # Fail
      /\ faults = 0 => link.up
  BY <1>1, <1>2, PacketReceived DEF CaptureInv, UndisturbedInv
<1>4. ASSUME faults = 0, packet # Fail, pc = "login" PROVE packet[1] \in {LoginSuccess, LoginPluginRequest}
  BY <1>3, <1>4, InOrderOfLogin
<1>5. ASSUME faults = 0, packet # Fail, pc = "configuration"
      PROVE  /\ packet[1] # ConfigDisconnect
             /\ packet[1] = ConfigKnownPacks => ~session.packs
             /\ packet[1] = RegistryDataID => /\ session.packs
                                         /\ Len(session.registries) < Len(ScenarioOf.registryForms)
                                         /\ packet[2] \in ScenarioOf.registryForms[Len(session.registries) + 1]
             /\ packet[1] = UpdateTagsID => session.tags = Nothing
             /\ packet[1] = ConfigFinish => /\ Len(session.registries) = Len(ScenarioOf.registryForms)
                                       /\ session.tags # Nothing
             /\ packet[1] = ConfigKeepAlive => Len(packet[2]) = 8
             /\ packet[1] = ConfigPing => Len(packet[2]) = 4
  BY <1>3, <1>5, InOrderOfConfiguration
<1>6. pc = "configuration" /\ packet # Fail => packet \in ConfigPackets
  BY <1>3 DEF Packets
<1>7. CASE ReadFails(packet)
  <2>1. Refuse /\ packet = Fail /\ (~link.up \/ link.frame # <<>>)
    BY <1>7 DEF ReadFails
  <2>2. faults # 0
    BY <1>3, <2>1
  <2>3. QED
    BY <2>1, <2>2, RunRefused
<1>8. CASE ReplyFails(packet)
  <2>1. Refuse /\ ~link.up
    BY <1>8 DEF ReplyFails
  <2>2. faults # 0
    BY <1>3, <2>1
  <2>3. QED
    BY <2>1, <2>2, RunRefused
<1>9. CASE LoginRefused(packet)
  <2>1. Refuse /\ pc = "login" /\ packet # Fail /\ packet[1] \in {0, 3}
    BY <1>9 DEF LoginRefused, Received, LoginDisconnect, LoginCompress
  <2>2. faults # 0
    BY <1>4, <2>1 DEF LoginSuccess, LoginPluginRequest
  <2>3. QED
    BY <2>1, <2>2, RunRefused
<1>10. CASE LoginSucceeds(packet)
  BY <1>10, LoginSucceedsStep
<1>11. CASE Ignored(packet)
  BY <1>2, <1>11, SessionKept DEF Ignored
<1>12. CASE Disconnected(packet)
  <2>1. Refuse /\ pc = "configuration" /\ packet # Fail /\ packet[1] = ConfigDisconnect
    BY <1>12 DEF Disconnected, Received
  <2>2. faults # 0
    BY <1>5, <2>1
  <2>3. QED
    BY <2>1, <2>2, RunRefused
<1>13. CASE KnownPacks(packet)
  <2>1. pc = "configuration" /\ packet # Fail /\ packet[1] = ConfigKnownPacks
    BY <1>13 DEF KnownPacks, Received
  <2>2. CASE session.packs
    <3>1. faults # 0
      BY <1>5, <2>1, <2>2
    <3>2. QED
      BY <1>13, <2>2, <3>1, RunRefused DEF KnownPacks
  <2>3. CASE ~session.packs
    <3>1. PICK next : next = [session EXCEPT !.packs = TRUE]
      OBVIOUS
    <3>2. Continue(next)
      BY <1>13, <2>3, <3>1 DEF KnownPacks
    <3>3. QED
      BY <2>1, <3>1, <3>2, PacksOrTagsRead
  <2>4. QED
    BY <2>2, <2>3
<1>14. CASE Echoed(packet)
  <2>1. pc = "configuration" /\ packet # Fail
    BY <1>14 DEF Echoed, Received
  <2>2. CASE Continue(session)
    BY <1>2, <2>2, SessionKept
  <2>3. CASE packet[1] = ConfigKeepAlive /\ (IF Len(packet[2]) = 8 THEN Continue(session) ELSE Refuse)
    <3>1. CASE Len(packet[2]) = 8
      BY <2>2, <2>3, <3>1
    <3>2. CASE Len(packet[2]) # 8
      <4>1. Refuse
        BY <2>3, <3>2
      <4>2. faults # 0
        BY <1>5, <2>1, <2>3, <3>2
      <4>3. QED
        BY <4>1, <4>2, RunRefused
    <3>3. QED
      BY <3>1, <3>2
  <2>4. CASE packet[1] = ConfigPing /\ (IF Len(packet[2]) = 4 THEN Continue(session) ELSE Refuse)
    <3>1. CASE Len(packet[2]) = 4
      BY <2>2, <2>4, <3>1
    <3>2. CASE Len(packet[2]) # 4
      <4>1. Refuse
        BY <2>4, <3>2
      <4>2. faults # 0
        BY <1>5, <2>1, <2>4, <3>2
      <4>3. QED
        BY <4>1, <4>2, RunRefused
    <3>3. QED
      BY <3>1, <3>2
  <2>5. QED
    BY <1>14, <2>3, <2>4 DEF Echoed, Received
<1>15. CASE RegistryData(packet)
  <2>1. pc = "configuration" /\ packet # Fail /\ packet[1] = RegistryDataID
    BY <1>15 DEF RegistryData, Received
  <2>2. PICK payload \in UNION ToSet(ScenarioOf.registryForms) : payload = packet[2]
    BY <1>6, <2>1, PayloadOf
  <2>3. PICK reg : /\ reg = DecodeRegistryData(payload, TRUE)
                   /\ IF ~session.packs \/ reg = Fail THEN Refuse
                      ELSE Continue([session EXCEPT !.registries = Append(@, reg)])
    BY <1>15, <2>2 DEF RegistryData
  <2>4. CASE ~session.packs \/ reg = Fail
    <3>1. ScenarioOf.sound => reg # Fail
      BY <2>2, <2>3, SoundOrNot DEF Sound, ScenarioOf, CaptureInv
    <3>2. ScenarioOf.sound => faults # 0
      BY <1>5, <2>1, <2>4, <3>1
    <3>3. QED
      BY <2>3, <2>4, <3>2, RunRefused
  <2>5. CASE session.packs /\ reg # Fail
    <3>1. faults = 0 => /\ Len(session.registries) < Len(ScenarioOf.registryForms)
                        /\ payload \in ScenarioOf.registryForms[Len(session.registries) + 1]
      BY <1>5, <2>1, <2>2
    <3>2. QED
      BY <2>1, <2>3, <2>5, <3>1, RegistryRead
  <2>6. QED
    BY <2>4, <2>5 DEF CaptureInv, SessionInv
<1>16. CASE UpdateTags(packet)
  <2>1. pc = "configuration" /\ packet # Fail /\ packet[1] = UpdateTagsID
    BY <1>16 DEF UpdateTags, Received
  <2>2. packet[2] \in ScenarioOf.tagForms
    BY <1>6, <2>1, PayloadOf
  <2>3. PICK tags : /\ tags = DecodeUpdateTags(packet[2])
                    /\ IF session.tags # Nothing \/ tags = Fail THEN Refuse
                       ELSE Continue([session EXCEPT !.tags = tags])
    BY <1>16 DEF UpdateTags
  <2>4. CASE session.tags # Nothing \/ tags = Fail
    <3>1. ScenarioOf.sound => tags # Fail
      BY <2>2, <2>3, SoundOrNot DEF Sound, ScenarioOf, CaptureInv
    <3>2. ScenarioOf.sound => faults # 0
      BY <1>5, <2>1, <2>4, <3>1
    <3>3. QED
      BY <2>3, <2>4, <3>2, RunRefused
  <2>5. CASE session.tags = Nothing /\ tags # Fail
    <3>1. tags \in TagsOf(vanilla)
      BY <2>2, <2>3, <2>5 DEF TagsOf, ScenarioOf
    <3>2. PICK next : next = [session EXCEPT !.tags = tags]
      OBVIOUS
    <3>3. Continue(next)
      BY <2>3, <2>5, <3>2
    <3>4. QED
      BY <2>1, <3>1, <3>2, <3>3, PacksOrTagsRead
  <2>6. QED
    BY <2>4, <2>5
<1>17. CASE Finish(packet)
  <2>1. pc = "configuration" /\ packet # Fail /\ packet[1] = ConfigFinish
    BY <1>17 DEF Finish, Received
  <2>2. CASE session.packs /\ session.tags # Nothing /\ InSequence(session.registries)
    BY <1>17, <2>1, <2>2, BuildOutputStep DEF Finish
  <2>3. CASE ~(session.packs /\ session.tags # Nothing /\ InSequence(session.registries))
    <3>1. ASSUME faults = 0, ScenarioOf.sound PROVE FALSE
      <4>1. session.tags # Nothing /\ Len(session.registries) = Len(ScenarioOf.registryForms)
        BY <1>5, <2>1, <3>1
      <4>2. session.packs /\ InSequence(session.registries)
        BY <1>2, <3>1, <4>1, AllReceived
      <4>3. QED
        BY <2>3, <4>1, <4>2
    <3>2. QED
      BY <1>17, <2>3, <3>1, RunRefused DEF Finish
  <2>4. QED
    BY <2>2, <2>3
<1>18. QED
  BY <1>1, <1>7, <1>8, <1>9, <1>10, <1>11, <1>12, <1>13, <1>14, <1>15, <1>16, <1>17

(* What an older version left.                                             *)
LEMMA OlderFiles ==
    /\ \A f \in {"dataset", "manifest"} : /\ Older[f] = WholeFile(Older[f].content[1], Older[f].of)
                                          /\ Older[f].of \notin DOMAIN Scenarios
    /\ Older = [f \in {"dataset", "manifest"} |-> Older[f]]
    /\ ValidManifest(Older["manifest"].content[1])
    /\ Loads(LoadVanillaConfiguration(Older["manifest"].content[1], Older["dataset"].content[1]))
<1>1. \A f \in {"dataset", "manifest"} : /\ Older[f] = WholeFile(Older[f].content[1], Older[f].of)
                                         /\ Older[f].of \notin DOMAIN Scenarios
  BY OlderAssumption
<1>2. Older = [f \in {"dataset", "manifest"} |-> Older[f]]
  BY OlderAssumption
<1>3. Loads(LoadVanillaConfiguration(Older["manifest"].content[1], Older["dataset"].content[1]))
  BY OlderAssumption
<1>4. ValidManifest(Older["manifest"].content[1])
  BY <1>3 DEF Loads, LoadVanillaConfiguration
<1>5. QED
  BY <1>1, <1>2, <1>3, <1>4

(* A version of a file that is there is whole and synced.                  *)
LEMMA WholeFiles ==
    ASSUME vanilla \in DOMAIN Scenarios, NEW f \in {"dataset", "manifest"},
           NEW x, Version(f, x), x # Nothing
    PROVE  /\ x.synced = TRUE /\ x.content = << x.content[1] >>
           /\ x.of = vanilla => Captured(f, x.content[1])
           /\ x.of # vanilla => x = Older[f]
<1>1. x = Older[f] \/ Own(f, x)
  BY DEF Version
<1>2. CASE Own(f, x)
  <2>1. x = WholeFile(x.content[1], vanilla) /\ Captured(f, x.content[1])
    BY <1>2 DEF Own
  <2>2. QED
    BY <2>1 DEF WholeFile
<1>3. CASE x = Older[f]
  <2>1. x = WholeFile(x.content[1], x.of) /\ x.of \notin DOMAIN Scenarios
    BY <1>3, OlderFiles
  <2>2. QED
    BY <1>3, <2>1 DEF WholeFile
<1>4. QED
  BY <1>1, <1>2, <1>3

(* What is on disk is a version that a power failure may leave.            *)
LEMMA DiskVersions ==
    ASSUME CaptureInv, NEW f \in {"dataset", "manifest"}
    PROVE  Version(f, disk[f])
BY DEF CaptureInv, DiskInv

(* Two versions of one file that stem from one server hold the same.       *)
LEMMA SameVersions ==
    ASSUME vanilla \in DOMAIN Scenarios, NEW f \in {"dataset", "manifest"}, NEW x, NEW y,
           Version(f, x), x # Nothing, Version(f, y), y # Nothing, x.of = y.of
    PROVE  y.content = x.content
<1>1. /\ x.content = << x.content[1] >> /\ y.content = << y.content[1] >>
      /\ x.of = vanilla => Captured(f, x.content[1]) /\ Captured(f, y.content[1])
      /\ x.of # vanilla => x = Older[f] /\ y = Older[f]
  BY WholeFiles
<1>2. CASE x.of # vanilla
  BY <1>1, <1>2
<1>3. CASE x.of = vanilla
  <2>1. PICK a, b : a = x.content[1] /\ b = y.content[1]
    OBVIOUS
  <2>2. a = b
    <3>1. CASE f = "dataset"
      <4>1. /\ a \in DatasetsOf(vanilla) /\ Capturable(a)
            /\ b \in DatasetsOf(vanilla) /\ Capturable(b)
        BY <1>1, <1>3, <2>1, <3>1 DEF Captured
      <4>2. QED
        BY <4>1, OneDataset
    <3>2. CASE f = "manifest"
      BY <1>1, <1>3, <2>1, <3>2 DEF Captured
    <3>3. QED
      BY <3>1, <3>2
  <2>3. QED
    BY <1>1, <2>1, <2>2
<1>4. QED
  BY <1>2, <1>3

(* What has been built is of a sound server.                               *)
LEMMA BuiltIsSound ==
    ASSUME CaptureInv, Writing
    PROVE  ScenarioOf.sound /\ Built(output)
<1>1. Built(output)
  BY DEF CaptureInv, OutputInv
<1>2. Reports[vanilla] # Fail
  BY DEF CaptureInv, TypesInv, Writing
<1>3. ~Unsound(vanilla)
  BY <1>1, <1>2 DEF Unsound, Built
<1>4. QED
  BY <1>1, <1>3, SoundOrNot DEF CaptureInv

(* A step of writeFileAtomic before the last one.                          *)
LEMMA WriteGoesOn ==
    ASSUME CaptureInv, Writing, Writing', TempInv',
           UNCHANGED << vanilla, sessionVars, output, file, diskVars, runs, faults, exit, server >>
    PROVE  CaptureInv'
<1>1. UNCHANGED << vanilla, link, session, output, file, disk, saved, lost, runs, faults, exit, server >>
  BY DEF sessionVars, diskVars
<1>2. ScenarioOf' = ScenarioOf /\ ~InSession' /\ pc # "idle" /\ pc' \in {"create", "write", "sync", "rename"}
  BY <1>1 DEF ScenarioOf, InSession, Writing
<1>3. TypesInv'
  BY <1>1, <1>2 DEF CaptureInv, TypesInv
<1>4. LinkInv' /\ SessionInv' /\ UndisturbedInv'
  BY <1>1, <1>2 DEF CaptureInv, LinkInv, SessionInv, UndisturbedInv
<1>5. OutputInv'
  BY <1>1 DEF CaptureInv, OutputInv, Built
<1>6. DiskInv'
  BY <1>1, DiskUnchanged DEF CaptureInv
<1>7. RefusedInv' /\ WellFormedIsCaptured' /\ CheckedInDataLoads' /\ FaithfulToVanilla'
  BY <1>1, <1>2 DEF CaptureInv, RefusedInv, WellFormedIsCaptured, CheckedInDataLoads, FaithfulToVanilla
<1>8. QED
  BY <1>3, <1>4, <1>5, <1>6, <1>7 DEF CaptureInv

(* The temporary file is created, written and synced.                      *)
LEMMA TempStep == CaptureInv /\ (CreateTemp \/ WriteTemp \/ SyncTemp) => CaptureInv'
<1> SUFFICES ASSUME CaptureInv, CreateTemp \/ WriteTemp \/ SyncTemp PROVE CaptureInv'
  OBVIOUS
<1>1. UNCHANGED << vanilla, sessionVars, output, file, diskVars, runs, faults, exit, server >>
  BY DEF CreateTemp, WriteTemp, SyncTemp, Step
<1>2. /\ pc \in {"create", "write", "sync"} /\ pc' \in {"write", "sync", "rename"}
      /\ Writing /\ Writing'
  BY DEF CreateTemp, WriteTemp, SyncTemp, Step, Writing
<1>3. TempInv
  BY DEF CaptureInv
<1>4. CASE CreateTemp
  <2>1. pc' = "write" /\ temp' = [content |-> Torn, synced |-> FALSE, of |-> vanilla] /\ vanilla' = vanilla
    BY <1>4 DEF CreateTemp, Step
  <2>2. TempInv'
    BY <2>1 DEF TempInv
  <2>3. QED
    BY <1>1, <1>2, <2>2, WriteGoesOn
<1>5. CASE WriteTemp
  <2>1. /\ pc = "write" /\ pc' = "sync" /\ UNCHANGED << vanilla, output, file >>
        /\ temp' = [temp EXCEPT !.content = << output[file] >>, !.synced = FALSE]
    BY <1>5 DEF WriteTemp, Step
  <2>2. PICK c, y : temp = [content |-> c, synced |-> y, of |-> vanilla]
    BY <1>3, <2>1 DEF TempInv
  <2>3. temp' = [content |-> << output[file] >>, synced |-> FALSE, of |-> vanilla]
    BY ONLY <2>1, <2>2
  <2>4. TempInv'
    BY <2>1, <2>3 DEF TempInv
  <2>5. QED
    BY <1>1, <1>2, <2>4, WriteGoesOn
<1>6. CASE SyncTemp
  <2>1. /\ pc = "sync" /\ pc' = "rename" /\ UNCHANGED << vanilla, output, file >>
        /\ temp' = [temp EXCEPT !.synced = TRUE]
    BY <1>6 DEF SyncTemp, Step
  <2>2. PICK c, y : temp = [content |-> c, synced |-> y, of |-> vanilla] /\ c = << output[file] >>
    BY <1>3, <2>1 DEF TempInv
  <2>3. temp' = [content |-> c, synced |-> TRUE, of |-> vanilla]
    BY ONLY <2>1, <2>2
  <2>4. TempInv'
    BY <2>1, <2>2, <2>3 DEF TempInv
  <2>5. QED
    BY <1>1, <1>2, <2>4, WriteGoesOn
<1>7. QED
  BY <1>4, <1>5, <1>6

(* The manifest is written after the data set, and is the last.            *)
LEMMA NextFiles == NextFile("dataset") = << "manifest" >> /\ NextFile("manifest") = <<>>
<1>1. Files = << "dataset", "manifest" >> /\ DOMAIN Files = {1, 2} /\ Len(Files) = 2
  BY DEF Files
<1>2. (CHOOSE i \in DOMAIN Files : Files[i] = "dataset") = 1
  BY <1>1
<1>3. (CHOOSE i \in DOMAIN Files : Files[i] = "manifest") = 2
  BY <1>1
<1>4. QED
  BY <1>1, <1>2, <1>3 DEF NextFile

(* The file that replaces the older one is whole, synced, and of this      *)
(* server; the manifest comes when the data set is in place.               *)
LEMMA RenameStep == CaptureInv /\ Rename => CaptureInv'
<1> SUFFICES ASSUME CaptureInv, Rename PROVE CaptureInv'
  OBVIOUS
<1>1. /\ pc = "rename" /\ Writing /\ disk' = [disk EXCEPT ![file] = temp] /\ faults' = faults
      /\ saved' = [saved EXCEPT ![file] = @ \union {temp}] /\ lost' = lost \ {file}
      /\ vanilla' = vanilla /\ file \in {"dataset", "manifest"}
  BY DEF Rename, EndRun, Writing, CaptureInv, TypesInv
<1>2. temp = WholeFile(output[file], vanilla)
  BY <1>1 DEF CaptureInv, TempInv, WholeFile
<1>3. ScenarioOf.sound /\ Built(output)
  BY <1>1, BuiltIsSound
<1>4. Captured(file, output[file])
  <2>1. CASE file = "dataset"
    <3>1. output[file] = output.dataset
      BY <2>1
    <3>2. QED
      BY <1>3, <2>1, <3>1 DEF Built, Captured
  <2>2. CASE file = "manifest"
    <3>1. output[file] = output.manifest
      BY <2>2
    <3>2. QED
      BY <1>3, <2>2, <3>1 DEF Built, Captured
  <2>3. QED
    BY <1>1, <2>1, <2>2
<1>5. PICK f, x : f \in {"dataset", "manifest"} /\ f = file /\ x = output[file]
  BY <1>1
<1>6. /\ temp = WholeFile(x, vanilla) /\ Captured(f, x)
      /\ temp.content[1] = x /\ temp.of = vanilla /\ temp # Nothing
  BY <1>2, <1>4, <1>5 DEF WholeFile, Nothing
<1>7. /\ disk = [g \in {"dataset", "manifest"} |-> disk[g]]
      /\ saved = [g \in {"dataset", "manifest"} |-> saved[g]]
  BY DEF CaptureInv, DiskInv
<1>8. /\ disk' = [g \in {"dataset", "manifest"} |-> disk'[g]]
      /\ disk'[f] = temp
      /\ \A g \in {"dataset", "manifest"} \ {f} : disk'[g] = disk[g]
  BY <1>1, <1>5, <1>7
<1>9. /\ saved' = [g \in {"dataset", "manifest"} |-> saved'[g]]
      /\ saved'[f] = saved[f] \union {temp}
      /\ \A g \in {"dataset", "manifest"} \ {f} : saved'[g] = saved[g]
  BY <1>1, <1>5, <1>7
<1>10. /\ Version(f, temp) /\ OfVanilla(temp)
       /\ \A g, y : Version(g, y)' = Version(g, y) /\ OfVanilla(y)' = OfVanilla(y)
  <2>1. Version(f, temp) /\ OfVanilla(temp)
    BY <1>6 DEF Version, Own, OfVanilla
  <2>2. QED
    BY <1>1, <2>1 DEF Version, Own, Captured, OfVanilla
<1>11. OfVanilla(disk'["dataset"])
  <2>1. CASE f = "dataset"
    BY <1>8, <1>10, <2>1
  <2>2. CASE f = "manifest"
    <3>1. OfVanilla(disk["dataset"])
      BY <1>1, <1>5, <2>2 DEF CaptureInv, DiskInv
    <3>2. QED
      BY <1>8, <2>2, <3>1
  <2>3. QED
    BY <1>5, <2>1, <2>2
<1>12. \A g \in {"dataset", "manifest"} :
         /\ disk'[g] \in saved'[g]
         /\ \A y \in saved'[g] : Version(g, y) /\ (OfVanilla(y) => OfVanilla(disk'[g]))
  <2>1. TAKE g \in {"dataset", "manifest"}
  <2>2. CASE g = f
    BY <1>8, <1>9, <1>10, <2>2 DEF CaptureInv, DiskInv
  <2>3. CASE g # f
    <3>1. disk'[g] = disk[g] /\ saved'[g] = saved[g]
      BY <1>8, <1>9, <2>3
    <3>2. QED
      BY <3>1 DEF CaptureInv, DiskInv
  <2>4. QED
    BY <2>2, <2>3
<1>13. ManifestNotAhead'
  <2>1. disk'["dataset"] # Nothing /\ disk'["dataset"].of = vanilla'
    BY <1>1, <1>11 DEF OfVanilla
  <2>2. ASSUME exit' = "done" PROVE f = "manifest"
    <3>1. CASE f = "dataset"
      <4>1. exit' = exit /\ exit = "none"
        BY <1>1, <1>5, <3>1, NextFiles DEF Rename, CaptureInv, TypesInv
      <4>2. QED
        BY <2>2, <4>1
    <3>2. QED
      BY <1>5, <3>1
  <2>3. exit' = "done" => disk'["manifest"] # Nothing /\ disk'["manifest"].of = vanilla'
    BY <1>1, <1>6, <1>8, <2>2
  <2>4. DOMAIN disk' = {"dataset", "manifest"}
    BY <1>8
  <2>5. QED
    BY <2>1, <2>3, <2>4 DEF ManifestNotAhead
<1>14. DiskInv'
  <2>1. \A g \in {"dataset", "manifest"} : OfVanilla(disk[g])' = OfVanilla(disk'[g])
    BY <1>1 DEF OfVanilla
  <2>2. QED
    BY <1>8, <1>9, <1>10, <1>11, <1>12, <1>13, <2>1 DEF DiskInv
<1>15. CASE NextFile(file) # <<>>
  <2>1. file = "dataset" /\ NextFile(file)[1] = "manifest"
    BY <1>1, <1>15, NextFiles
  <2>2. ~EndRun("done") \/ NextFile(file) # <<>>
    BY <1>15
  <2>3. /\ pc' = "create" /\ file' = "manifest" /\ temp' = Nothing
        /\ UNCHANGED << vanilla, link, session, output, runs, exit, server >>
    BY <1>15, <2>1 DEF Rename, sessionVars
  <2>4. ScenarioOf' = ScenarioOf /\ ~InSession' /\ Writing'
    BY <2>3 DEF ScenarioOf, InSession, Writing
  <2>5. TypesInv'
    BY <1>1, <2>3 DEF CaptureInv, TypesInv
  <2>6. LinkInv' /\ SessionInv' /\ UndisturbedInv' /\ TempInv'
    BY <2>3, <2>4 DEF CaptureInv, LinkInv, SessionInv, UndisturbedInv, TempInv
  <2>7. OutputInv'
    BY <1>1, <2>3, <2>4 DEF CaptureInv, OutputInv, Built
  <2>8. RefusedInv' /\ WellFormedIsCaptured' /\ CheckedInDataLoads' /\ FaithfulToVanilla'
    BY <1>1, <2>3, <2>4 DEF CaptureInv, RefusedInv, WellFormedIsCaptured, CheckedInDataLoads, FaithfulToVanilla
  <2>9. QED
    BY <1>14, <2>5, <2>6, <2>7, <2>8 DEF CaptureInv
<1>16. CASE NextFile(file) = <<>>
  <2>1. EndRun("done")
    BY <1>16 DEF Rename
  <2>2. faults' \in Nat
    BY <1>1 DEF CaptureInv, TypesInv
  <2>3. QED
    BY <1>3, <1>14, <2>1, <2>2, RunEnds
<1>17. QED
  BY <1>15, <1>16

(* A kill ends the run.                                                    *)
LEMMA KilledStep == CaptureInv /\ Killed => CaptureInv'
BY RunDisturbed DEF Killed

(* A power failure may undo replacements, but nothing it leaves is torn:   *)
(* every version was synced before it got the name of the file.            *)
LEMMA PowerFailureTearsNothing ==
    ASSUME CaptureInv, PowerFails
    PROVE  \E left : /\ disk' = [f \in {"dataset", "manifest"} |-> left[f]]
                     /\ saved' = [f \in {"dataset", "manifest"} |-> {left[f]}]
                     /\ lost' = lost \union {f \in {"dataset", "manifest"} : left[f] # disk[f]}
                     /\ \A f \in {"dataset", "manifest"} : left[f] \in saved[f]
<1>1. DOMAIN disk = {"dataset", "manifest"} /\ vanilla \in DOMAIN Scenarios
  BY DEF CaptureInv, DiskInv, TypesInv
<1>2. PICK left :
        /\ \A f \in {"dataset", "manifest"} : left[f] \in saved[f]
        /\ disk' = [f \in {"dataset", "manifest"} |-> Surviving(left[f])]
        /\ saved' = [f \in {"dataset", "manifest"} |-> {Surviving(left[f])}]
        /\ lost' = lost \union {f \in {"dataset", "manifest"} : left[f] # disk[f]}
  BY <1>1 DEF PowerFails
<1>3. \A f \in {"dataset", "manifest"} : Surviving(left[f]) = left[f]
  <2>1. TAKE f \in {"dataset", "manifest"}
  <2>2. Version(f, left[f])
    BY <1>2 DEF CaptureInv, DiskInv
  <2>3. left[f] = Nothing \/ left[f].synced = TRUE
    BY <1>1, <2>2, WholeFiles
  <2>4. QED
    BY <2>3 DEF Surviving
<1>4. QED
  BY <1>2, <1>3

(* After a power failure, the manifest is of this server only if it was    *)
(* before, and then the data set is, or its replacement has been undone.   *)
LEMMA PowerFailsStep == CaptureInv /\ PowerFails => CaptureInv'
<1> SUFFICES ASSUME CaptureInv, PowerFails PROVE CaptureInv'
  OBVIOUS
<1>1. PICK how : how = (IF pc = "idle" THEN exit ELSE "killed")
  OBVIOUS
<1>2. /\ EndRun(how) /\ Fault /\ vanilla' = vanilla /\ pc' = "idle" /\ exit' = how
      /\ how \in {"none", "refused", "killed", "done"}
      /\ how = "done" => exit = "done" /\ ScenarioOf.sound
  BY <1>1 DEF PowerFails, EndRun, CaptureInv, TypesInv, RefusedInv
<1>3. PICK left :
        /\ disk' = [f \in {"dataset", "manifest"} |-> left[f]]
        /\ saved' = [f \in {"dataset", "manifest"} |-> {left[f]}]
        /\ lost' = lost \union {f \in {"dataset", "manifest"} : left[f] # disk[f]}
        /\ \A f \in {"dataset", "manifest"} : left[f] \in saved[f]
  BY PowerFailureTearsNothing
<1>4. DOMAIN disk = {"dataset", "manifest"} /\ DOMAIN disk' = {"dataset", "manifest"}
  BY <1>3 DEF CaptureInv, DiskInv
<1>5. \A f \in {"dataset", "manifest"} :
        /\ disk'[f] = left[f] /\ saved'[f] = {left[f]} /\ Version(f, left[f])
        /\ OfVanilla(left[f]) => OfVanilla(disk[f])
        /\ f \notin lost' => f \notin lost /\ left[f] = disk[f]
  BY <1>3 DEF CaptureInv, DiskInv
<1>6. ManifestNotAhead
  BY DEF CaptureInv, DiskInv
<1>7. ManifestNotAhead'
  <2>1. ASSUME OfVanilla(left["manifest"]), "dataset" \notin lost'
        PROVE  OfVanilla(left["dataset"])
    <3>1. OfVanilla(disk["manifest"]) /\ "dataset" \notin lost /\ left["dataset"] = disk["dataset"]
      BY <1>5, <2>1
    <3>2. QED
      BY <1>6, <3>1 DEF ManifestNotAhead, OfVanilla
  <2>2. ASSUME how = "done", NEW f \in {"dataset", "manifest"}, f \notin lost'
        PROVE  OfVanilla(left[f])
    <3>1. f \notin lost /\ left[f] = disk[f] /\ exit = "done"
      BY <1>2, <1>5, <2>2
    <3>2. QED
      BY <1>4, <1>6, <3>1 DEF ManifestNotAhead, OfVanilla
  <2>3. QED
    BY <1>2, <1>4, <1>5, <2>1, <2>2 DEF ManifestNotAhead, OfVanilla
<1>8. DiskInv'
  <2>1. \A f, x : Version(f, x)' = Version(f, x)
    BY <1>2 DEF Version, Own, Captured
  <2>2. \A f \in {"dataset", "manifest"} : \A x \in saved'[f] : x = disk'[f]
    BY <1>5
  <2>3. disk' = [f \in {"dataset", "manifest"} |-> disk'[f]]
    BY <1>3
  <2>4. saved' = [f \in {"dataset", "manifest"} |-> saved'[f]]
    BY <1>3
  <2>5. ~Writing'
    BY <1>2 DEF Writing
  <2>6. \A f \in {"dataset", "manifest"} : \A x \in saved'[f] : OfVanilla(x)' => OfVanilla(disk[f])'
    BY <2>2
  <2>7. QED
    BY <1>5, <1>7, <2>1, <2>2, <2>3, <2>4, <2>5, <2>6 DEF DiskInv
<1>9. faults' \in Nat /\ faults' # 0
  BY <1>2 DEF Fault, CaptureInv, TypesInv
<1>10. QED
  BY <1>2, <1>8, <1>9, RunEnds

(* A start changes nothing but what is served.                             *)
LEMMA StartRest ==
    ASSUME CaptureInv, CheckedInDataLoads', FaithfulToVanilla',
           UNCHANGED << vanilla, pc, link, session, output, file, temp, disk, saved, lost, runs, faults, exit >>
    PROVE  CaptureInv'
<1>1. ScenarioOf' = ScenarioOf /\ Packets' = Packets /\ (InSession <=> InSession') /\ (Writing <=> Writing')
  BY DEF ScenarioOf, Packets, ConfigPackets, InSession, Writing
<1>2. TypesInv'
  BY DEF CaptureInv, TypesInv
<1>3. LinkInv' /\ SessionInv'
  BY <1>1 DEF CaptureInv, LinkInv, SessionInv
<1>4. UndisturbedInv'
  BY <1>1 DEF CaptureInv, UndisturbedInv, AtPlace, InOrder
<1>5. OutputInv' /\ TempInv'
  BY <1>1 DEF CaptureInv, OutputInv, TempInv, Built
<1>6. DiskInv'
  BY <1>1, DiskUnchanged DEF CaptureInv
<1>7. RefusedInv' /\ WellFormedIsCaptured'
  BY <1>1 DEF CaptureInv, RefusedInv, WellFormedIsCaptured
<1>8. QED
  BY <1>2, <1>3, <1>4, <1>5, <1>6, <1>7 DEF CaptureInv

(* Which of two valid manifests there is makes no difference to CyuCore.   *)
LEMMA AnyManifestLoads ==
    ASSUME NEW m, NEW n, ValidManifest(m), ValidManifest(n), NEW dataset
    PROVE  LoadVanillaConfiguration(m, dataset) = LoadVanillaConfiguration(n, dataset)
BY DEF LoadVanillaConfiguration

(* CyuCore is started with the two files. They need not stem from one run: *)
(* the manifest may be older, and after a power failure the data set.      *)
LEMMA StartStep == CaptureInv /\ Start => CaptureInv'
<1> SUFFICES ASSUME CaptureInv, Start PROVE CaptureInv'
  OBVIOUS
<1>1. /\ UNCHANGED << vanilla, pc, link, session, output, file, temp, disk, saved, lost, runs, faults, exit >>
      /\ server' = [packets |-> Loaded, of |-> disk["dataset"].of]
      /\ \A f \in DOMAIN disk : disk[f] # Nothing
  BY DEF Start, sessionVars, writeVars, diskVars
<1>2. vanilla \in DOMAIN Scenarios /\ DiskInv
  BY DEF CaptureInv, TypesInv
<1>3. DOMAIN disk = {"dataset", "manifest"}
  BY <1>2 DEF DiskInv
<1>4. \A f \in {"dataset", "manifest"} :
        /\ disk[f].content = << disk[f].content[1] >>
        /\ disk[f].of = vanilla => Captured(f, disk[f].content[1])
        /\ disk[f].of # vanilla => disk[f] = Older[f]
  BY <1>1, <1>2, <1>3, DiskVersions, WholeFiles
<1>5. PICK dataset, manifest : dataset = disk["dataset"].content[1] /\ manifest = disk["manifest"].content[1]
  OBVIOUS
<1>6. PICK packets : packets = LoadVanillaConfiguration(manifest, dataset)
  OBVIOUS
<1>7. server'.packets = packets /\ server'.of = disk["dataset"].of
  <2>1. \A f \in DOMAIN disk : disk[f].content # Torn
    BY <1>3, <1>4 DEF Torn
  <2>2. Loaded = packets
    BY <1>5, <1>6, <2>1 DEF Loaded
  <2>3. QED
    BY <1>1, <2>2
<1>8. ValidManifest(manifest)
  <2>1. CASE disk["manifest"].of = vanilla
    <3>1. manifest = ManifestOf(vanilla) /\ manifest # Fail
      BY <1>4, <1>5, <2>1 DEF Captured
    <3>2. QED
      BY <3>1 DEF ManifestOf, WriteManifest
  <2>2. CASE disk["manifest"].of # vanilla
    BY <1>4, <1>5, <2>2, OlderFiles
  <2>3. QED
    BY <2>1, <2>2
<1>9. CASE disk["dataset"].of = vanilla
  <2>1. dataset \in DatasetsOf(vanilla) /\ Capturable(dataset)
    BY <1>4, <1>5, <1>9 DEF Captured
  <2>2. /\ Loads(packets)
        /\ Len(packets.registryData) = Len(Scenarios[vanilla].registryForms)
        /\ \A i \in DOMAIN Scenarios[vanilla].registryForms :
             packets.registryData[i] \in Scenarios[vanilla].registryForms[i]
        /\ packets.updateTags \in Scenarios[vanilla].tagForms
    BY <1>2, <1>6, <1>8, <2>1, DatasetServed
  <2>3. CheckedInDataLoads' /\ FaithfulToVanilla'
    BY <1>1, <1>7, <2>2 DEF CheckedInDataLoads, FaithfulToVanilla, ScenarioOf
  <2>4. QED
    BY <1>1, <2>3, StartRest
<1>10. CASE disk["dataset"].of # vanilla
  <2>1. dataset = Older["dataset"].content[1]
    BY <1>4, <1>5, <1>10
  <2>2. packets = LoadVanillaConfiguration(Older["manifest"].content[1], dataset)
    BY <1>6, <1>8, OlderFiles, AnyManifestLoads
  <2>3. Loads(packets)
    BY <2>1, <2>2, OlderFiles
  <2>4. CheckedInDataLoads' /\ FaithfulToVanilla'
    BY <1>1, <1>7, <1>10, <2>3 DEF CheckedInDataLoads, FaithfulToVanilla
  <2>5. QED
    BY <1>1, <2>4, StartRest
<1>11. QED
  BY <1>9, <1>10

(* A capture starts from nothing, or from what an older version left.      *)
LEMMA CaptureStarts == CaptureInit => CaptureInv
<1> SUFFICES ASSUME CaptureInit PROVE CaptureInv
  OBVIOUS
<1>1. /\ vanilla \in DOMAIN Scenarios /\ pc = "idle" /\ file = "dataset"
      /\ link = [up |-> FALSE, frame |-> <<>>] /\ session = NoSession
      /\ output = Nothing /\ runs = 0 /\ faults = 0 /\ exit = "none" /\ server = Nothing
      /\ disk \in {[f \in ToSet(Files) |-> Nothing], Older}
      /\ saved = [f \in ToSet(Files) |-> {disk[f]}]
  BY DEF CaptureInit, Closed, Files
<1>2. ~InSession /\ ~Writing
  BY <1>1 DEF InSession, Writing
<1>3. TypesInv
  BY <1>1 DEF TypesInv
<1>4. LinkInv /\ UndisturbedInv /\ OutputInv /\ TempInv
  BY <1>1, <1>2 DEF LinkInv, UndisturbedInv, OutputInv, TempInv
<1>5. SessionInv
  BY <1>1 DEF SessionInv, NoSession
<1>6. DiskInv
  <2>1. ToSet(Files) = {"dataset", "manifest"}
    BY DEF ToSet, Files
  <2>2. /\ saved = [f \in {"dataset", "manifest"} |-> saved[f]]
        /\ \A f \in {"dataset", "manifest"} : saved[f] = {disk[f]}
    BY <1>1, <2>1
  <2>3. /\ disk = [f \in {"dataset", "manifest"} |-> disk[f]]
        /\ \A f \in {"dataset", "manifest"} : disk[f] = Nothing \/ disk[f] = Older[f]
    <3>1. CASE disk = [f \in {"dataset", "manifest"} |-> Nothing]
      BY <3>1
    <3>2. CASE disk = Older
      BY <3>2, OlderFiles
    <3>3. QED
      BY <1>1, <2>1, <3>1, <3>2
  <2>4. \A f \in {"dataset", "manifest"} : Version(f, disk[f])
    BY <2>3 DEF Version
  <2>5. ~OfVanilla(disk["manifest"])
    BY <1>1, <2>3, OlderFiles DEF OfVanilla
  <2>6. ManifestNotAhead
    BY <1>1, <2>5 DEF ManifestNotAhead, OfVanilla
  <2>7. QED
    BY <1>2, <2>2, <2>3, <2>4, <2>6 DEF DiskInv
<1>7. RefusedInv /\ WellFormedIsCaptured /\ CheckedInDataLoads /\ FaithfulToVanilla
  BY <1>1 DEF RefusedInv, WellFormedIsCaptured, CheckedInDataLoads, FaithfulToVanilla
<1>8. QED
  BY <1>3, <1>4, <1>5, <1>6, <1>7 DEF CaptureInv

(* Every step of the capture, of the vanilla server, of the network and of *)
(* CyuCore keeps the invariant.                                            *)
LEMMA CaptureSteps == CaptureInv /\ [CaptureNext]_captureVars => CaptureInv'
<1> SUFFICES ASSUME CaptureInv, [CaptureNext]_captureVars PROVE CaptureInv'
  OBVIOUS
<1>1. CASE Begin
  BY <1>1, BeginStep
<1>2. CASE VanillaSends
  BY <1>2, VanillaSendsStep
<1>3. CASE ConnectionLost
  BY <1>3, ConnectionLostStep
<1>4. CASE Deadline
  <2>1. EndRun("refused") /\ Fault /\ UNCHANGED diskVars
    BY <1>4 DEF Deadline
  <2>2. QED
    BY <2>1, RunDisturbed
<1>5. CASE Handle
  BY <1>5, HandleStep
<1>6. CASE Write
  BY <1>6, TempStep, RenameStep DEF Write
<1>7. CASE WriteFails
  <2>1. EndRun("refused") /\ Fault /\ UNCHANGED diskVars
    BY <1>7 DEF WriteFails
  <2>2. QED
    BY <2>1, RunDisturbed
<1>8. CASE Killed
  BY <1>8, KilledStep
<1>9. CASE PowerFails
  BY <1>9, PowerFailsStep
<1>10. CASE Start
  BY <1>10, StartStep
<1>11. CASE UNCHANGED captureVars
  <2>1. UNCHANGED << vanilla, pc, link, session, output, file, temp, disk, saved, lost, runs, faults, exit, server >>
    BY <1>11 DEF captureVars, sessionVars, writeVars, diskVars
  <2>2. CheckedInDataLoads' /\ FaithfulToVanilla'
    BY <2>1 DEF CaptureInv, CheckedInDataLoads, FaithfulToVanilla, ScenarioOf
  <2>3. QED
    BY <2>1, <2>2, StartRest
<1>12. QED
  BY <1>1, <1>2, <1>3, <1>4, <1>5, <1>6, <1>7, <1>8, <1>9, <1>10, <1>11 DEF CaptureNext

(* Whatever arrives, breaks or is killed, the invariant holds.             *)
THEOREM CaptureIsInvariant == CaptureSpec => []CaptureInv
<1>1. QED
  BY CaptureStarts, CaptureSteps, PTL DEF CaptureSpec

(* CyuCore starts with whatever the capture leaves on disk, also if it was *)
(* killed between any two steps or a power failure undoes a replacement,   *)
(* and can send all of it.                                                 *)
THEOREM CaptureLoads == CaptureSpec => []CheckedInDataLoads
<1>1. CaptureInv => CheckedInDataLoads
  BY DEF CaptureInv
<1>2. QED
  BY <1>1, CaptureIsInvariant, PTL

(* CyuCore sends what the vanilla server that was captured might have      *)
(* sent.                                                                   *)
THEOREM CaptureIsFaithful == CaptureSpec => []FaithfulToVanilla
<1>1. CaptureInv => FaithfulToVanilla
  BY DEF CaptureInv
<1>2. QED
  BY <1>1, CaptureIsInvariant, PTL

(* Errors and kills leave no manifest of this server beside an older data  *)
(* set or none, and after a run that is done both files are of this        *)
(* server, unless a power failure has undone a replacement.                *)
THEOREM ManifestIsNotAhead == CaptureSpec => []ManifestNotAhead
<1>1. CaptureInv => ManifestNotAhead
  BY DEF CaptureInv, DiskInv
<1>2. QED
  BY <1>1, CaptureIsInvariant, PTL

(* What an undisturbed sound server sends is not refused.                  *)
THEOREM CaptureRefusesNoSound == CaptureSpec => []WellFormedIsCaptured
<1>1. CaptureInv => WellFormedIsCaptured
  BY DEF CaptureInv
<1>2. QED
  BY <1>1, CaptureIsInvariant, PTL

(* A server of which no data set can be made never gets one written.       *)
THEOREM CaptureRefusesUnsound == CaptureSpec => []IllFormedIsRefused
<1>1. CaptureInv => IllFormedIsRefused
  BY BuiltIsSound DEF CaptureInv, RefusedInv, OutputInv, IllFormedIsRefused
<1>2. QED
  BY <1>1, CaptureIsInvariant, PTL

(* A capture is of one server.                                             *)
LEMMA OneServer == [CaptureNext]_captureVars => vanilla' = vanilla
<1> SUFFICES ASSUME [CaptureNext]_captureVars PROVE vanilla' = vanilla
  OBVIOUS
<1>1. CASE Handle
  BY <1>1 DEF Handle, ReadFails, ReplyFails, LoginRefused, LoginSucceeds, Ignored, Disconnected,
              KnownPacks, Echoed, RegistryData, UpdateTags, Finish, BuildOutput, WriteOutput,
              Refuse, EndRun, Continue
<1>2. CASE Write
  BY <1>2 DEF Write, CreateTemp, WriteTemp, SyncTemp, Step, Rename, EndRun
<1>3. QED
  BY <1>1, <1>2 DEF CaptureNext, Begin, VanillaSends, ConnectionLost, Deadline, WriteFails, Killed,
                    PowerFails, EndRun, Start, captureVars

(* Two captures of one server write the same, in whatever order and form   *)
(* its packets come, and a power failure that undoes the later of them     *)
(* leaves the same.                                                        *)
THEOREM CaptureIsReproducible == CaptureSpec => Reproducible
<1>1. ASSUME CaptureInv, CaptureInv', [CaptureNext]_captureVars
      PROVE  [\A f \in DOMAIN disk :
                /\ disk[f] # Nothing /\ disk'[f] # Nothing
                /\ disk[f].of = disk'[f].of /\ disk'[f].content # Torn
                => disk'[f].content = disk[f].content]_captureVars
  <2>1. /\ DOMAIN disk = {"dataset", "manifest"} /\ vanilla \in DOMAIN Scenarios
        /\ vanilla' = vanilla
    BY <1>1, OneServer DEF CaptureInv, DiskInv, TypesInv
  <2>2. ASSUME NEW f \in DOMAIN disk, disk[f] # Nothing, disk'[f] # Nothing, disk[f].of = disk'[f].of
        PROVE  disk'[f].content = disk[f].content
    <3>1. PICK x, y : x = disk[f] /\ y = disk'[f]
      OBVIOUS
    <3>2. Version(f, x)
      BY <1>1, <2>1, <3>1, DiskVersions
    <3>3. Version(f, y)
      <4>1. Version(f, disk[f])'
        BY <1>1, <2>1 DEF CaptureInv, DiskInv
      <4>2. QED
        BY <2>1, <3>1, <4>1 DEF Version, Own, Captured
    <3>4. QED
      BY <2>1, <2>2, <3>1, <3>2, <3>3, SameVersions
  <2>3. QED
    BY <2>2
<1>2. QED
  BY <1>1, CaptureIsInvariant, PTL DEF CaptureSpec, Reproducible
==================================================================================
