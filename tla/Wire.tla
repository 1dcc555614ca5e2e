---------------------------------- MODULE Wire ----------------------------------
(***************************************************************************)
(* The framing of internal/protocol/codec.go.  A stream is a sequence of   *)
(* symbols: a byte (0..255), or an identifier, a number above every byte,  *)
(* which stands for the characters of a resource location.  The order of   *)
(* the numbers is the order of the strings.                                *)
(*                                                                         *)
(* A reader returns << value, the rest of the stream >>, a writer what it  *)
(* appends; either returns Fail where the code returns an error.           *)
(***************************************************************************)
EXTENDS Integers, SequencesExt

CONSTANTS MaxPacketSize,    \* DefaultMaxPacketSize
          MaxStringSize     \* DefaultMaxStringSize

ASSUME SizesAssumption == {MaxPacketSize, MaxStringSize} \subseteq {n \in Nat : n <= 2097152}

MaxVarIntBytes == 5

Fail == <<>>

\* The next step of a reader, if the one before succeeded
Then(read, Next(_, _)) == IF read = Fail THEN Fail ELSE Next(read[1], read[2])

Rest(b, n) == SubSeq(b, n + 1, Len(b))

\* io.ReadFull: all n symbols or an error
ReadFull(b, n) == IF Len(b) < n THEN Fail ELSE << SubSeq(b, 1, n), Rest(b, n) >>

ReadByte(b) == Then(ReadFull(b, 1), LAMBDA s, rest : << s[1], rest >>)

\* n values read one after the other: what there is after i of them
Repeat(n, Read(_), b) ==
  LET after[i \in 0..n] ==
        IF i = 0 THEN << <<>>, b >>
        ELSE Then(after[i - 1], LAMBDA values, rest :
               Then(Read(rest), LAMBDA v, more : << Append(values, v), more >>))
  IN after[n]

\* What is made of the parts, if none of them failed
Made(parts, Make(_)) == IF \E i \in DOMAIN parts : parts[i] = Fail THEN Fail ELSE Make(parts)

\* Everything was written, or nothing
Join(parts) == Made(parts, LAMBDA written : FlattenSeq(written))

\* The two's complement reading of an unsigned number below m
Signed(u, m) == IF u < m \div 2 THEN u ELSE u - m

---------------------------------------------------------------------------
\* What the groups of a VarInt count: 128^(i - 1)
Weight == << 1, 128, 16384, 2097152, 268435456 >>

\* An int32 in groups of seven bits, the lowest first.  The fifth group has only
\* the four bits that are left of 32: what a shift drops is dropped here too.
AppendVarInt(dst, v) ==
  LET n == IF v < 0 THEN MaxVarIntBytes
           ELSE CHOOSE k \in 1..MaxVarIntBytes : /\ k = MaxVarIntBytes \/ v < Weight[k + 1]
                                                 /\ k = 1 \/ v >= Weight[k]
      Group(i) == (v \div Weight[i]) % (IF i = MaxVarIntBytes THEN 16 ELSE 128)
  IN dst \o [i \in 1..n |-> Group(i) + (IF i < n THEN 128 ELSE 0)]

ReadVarInt(b) ==
  LET ends == {i \in 1..MaxVarIntBytes : i <= Len(b) /\ b[i] < 128}
      n    == CHOOSE i \in ends : \A j \in ends : i <= j
      last == IF n = MaxVarIntBytes THEN Signed(b[n] % 16, 16) ELSE b[n]
      Group(i) == IF i > n THEN 0 ELSE Weight[i] * (IF i = n THEN last ELSE b[i] % 128)
  IN IF ends = {} THEN Fail
     ELSE << Group(1) + Group(2) + Group(3) + Group(4) + Group(5), Rest(b, n) >>

AppendString(dst, s) == AppendVarInt(dst, Len(s)) \o s

ReadString(b) ==
  Then(ReadVarInt(b), LAMBDA length, rest :
    IF length < 0 \/ length > MaxStringSize THEN Fail ELSE ReadFull(rest, length))

\* One packet, << id, payload >>, at the head of a stream.  It returns Fail as well
\* when the connection breaks before its last symbol.
ReadPacket(b) ==
  Then(ReadVarInt(b), LAMBDA length, rest :
    IF length <= 0 \/ length > MaxPacketSize THEN Fail
    ELSE Then(ReadFull(rest, length), LAMBDA raw, more : ReadVarInt(raw)))

WritePacket(id, payload) ==
  LET header == AppendVarInt(<<>>, id)
      total  == Len(header) + Len(payload)
  IN IF total <= 0 \/ total > MaxPacketSize THEN Fail
     ELSE AppendVarInt(<<>>, total) \o header \o payload
=================================================================================
