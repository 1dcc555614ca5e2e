---------------------------------- MODULE Nbt -----------------------------------
(***************************************************************************)
(* internal/nbt: the anonymous form on the network, the typed JSON of the  *)
(* data set, and Modified UTF-8.                                           *)
(*                                                                         *)
(* A value is a tuple that starts with its type:                           *)
(*   << a number type or a float type, its bits as a signed integer >>     *)
(*   << an array type, sequence of such integers >>                        *)
(*   << StringType, sequence of code points >>                             *)
(*   << ListType, element type, sequence of values >>                      *)
(*   << CompoundType, function from keys (code points) to values >>        *)
(* The 4- and 8-byte types of the code have half their width here, so that *)
(* a Long, read as a [high, low] pair of Ints, is still an integer of TLC. *)
(***************************************************************************)
EXTENDS Wire

CONSTANTS MaxDepth,               \* defaultMaxDepth
          MaxModifiedUTF8Bytes

ASSUME LimitsAssumption == {MaxDepth, MaxModifiedUTF8Bytes} \subseteq 1..65535

End == 0
ByteType == 1
ShortType == 2
IntType == 3
LongType == 4
FloatType == 5
DoubleType == 6
ByteArrayType == 7
StringType == 8
ListType == 9
CompoundType == 10
IntArrayType == 11
LongArrayType == 12

ValueTypes == ByteType..LongArrayType

NilValue == <<>>

TypeOf(v) == v[1]

\* The bytes of a number, or of an element of an array
Width(t) == CASE t \in {ByteType, ByteArrayType} -> 1
              [] t \in {ShortType, IntType, FloatType, IntArrayType} -> 2
              [] t \in {LongType, DoubleType, LongArrayType} -> 4

Numbers == {ByteType, ShortType, IntType, LongType, FloatType, DoubleType}
Arrays  == {ByteArrayType, IntArrayType, LongArrayType}

\* Not a NaN and not an infinity: the exponent is not all ones
Finite(v) == CASE TypeOf(v) = FloatType  -> (v[2] \div 2^10) % 2^5 # 2^5 - 1
               [] TypeOf(v) = DoubleType -> (v[2] \div 2^23) % 2^8 # 2^8 - 1
               [] OTHER -> TRUE

\* sort.Strings: the order of the first code point that differs
Before(s, t) == \E i \in 1..Len(t) : /\ i <= Len(s) + 1
                                     /\ \A j \in 1..(i - 1) : s[j] = t[j]
                                     /\ i = Len(s) + 1 \/ s[i] < t[i]

---------------------------------------------------------------------------
(* Modified UTF-8 *)

High(unit) == unit \in 55296..56319
Low(unit)  == unit \in 56320..57343

\* utf16.Encode, of a valid string
Units(s) ==
  FlattenSeq([i \in DOMAIN s |->
    IF s[i] < 65536 THEN << s[i] >>
    ELSE << 55296 + ((s[i] - 65536) \div 1024), 56320 + (s[i] % 1024) >>])

\* utf16.Decode, of units whose surrogates are paired
CodePoints(u) ==
  LET starts == SelectSeq([i \in DOMAIN u |-> i], LAMBDA i : ~Low(u[i]))
  IN [k \in DOMAIN starts |->
        LET i == starts[k]
        IN IF High(u[i]) THEN 65536 + ((u[i] - 55296) * 1024) + (u[i + 1] - 56320) ELSE u[i]]

EncodeUnit(u) == CASE u \in 1..127 -> << u >>
                   [] u \notin 1..127 /\ u < 2048 -> << 192 + (u \div 64), 128 + (u % 64) >>
                   [] OTHER -> << 224 + (u \div 4096), 128 + ((u \div 64) % 64), 128 + (u % 64) >>

\* BigEndian, and the sign that the conversion to a signed type finds
PutInt(v, w) == [i \in 1..w |-> (v \div 256^(w - i)) % 256]

GetInt(bytes) == FoldLeft(LAMBDA acc, b : (acc * 256) + b, Signed(bytes[1], 256), Tail(bytes))

WriteModifiedUTF8(s) ==
  LET Prefixed(encoded) == IF Len(encoded) > MaxModifiedUTF8Bytes THEN Fail
                           ELSE PutInt(Len(encoded), 2) \o encoded
      Encode(units) == FlattenSeq([i \in DOMAIN units |-> EncodeUnit(units[i])])
  IN Prefixed(Encode(Units(s)))

\* << the code units >>, whichever length each was written with
RECURSIVE DecodeUnits(_)
DecodeUnits(e) ==
  IF e = <<>> THEN << <<>> >>
  ELSE LET n == CASE e[1] \in 1..127 -> 1 [] e[1] \div 32 = 6 -> 2 [] e[1] \div 16 = 14 -> 3 [] OTHER -> 0
           unit == CASE n = 1 -> e[1]
                     [] n = 2 -> (e[1] % 32) * 64 + (e[2] % 64)
                     [] n = 3 -> (e[1] % 16) * 4096 + (e[2] % 64) * 64 + (e[3] % 64)
           wellFormed == n \in 1..Len(e) /\ \A i \in 2..n : e[i] \div 64 = 2
           more == DecodeUnits(Rest(e, n))
       IN IF ~wellFormed \/ more = Fail THEN Fail ELSE << << unit >> \o more[1] >>

Paired(u) == \A i \in DOMAIN u : /\ High(u[i]) => i < Len(u) /\ Low(u[i + 1])
                                 /\ Low(u[i])  => i > 1 /\ High(u[i - 1])

ReadModifiedUTF8(b) ==
  Then(ReadFull(b, 2), LAMBDA prefix, rest :
    Then(ReadFull(rest, prefix[1] * 256 + prefix[2]), LAMBDA encoded, more :
      LET units == DecodeUnits(encoded)
      IN IF units = Fail \/ ~Paired(units[1]) THEN Fail ELSE << CodePoints(units[1]), more >>))

---------------------------------------------------------------------------
(* The network form *)

WriteLength(n) == PutInt(n, Width(IntType))

ReadLength(b) == Then(ReadFull(b, Width(IntType)), LAMBDA s, rest :
                   IF GetInt(s) < 0 THEN Fail ELSE << GetInt(s), rest >>)

\* A list is homogeneous, of a value type; an empty one may keep any element type.
\* A compound is written in the order of its keys.
RECURSIVE WritePayload(_, _)
WritePayload(v, depth) ==
  LET t == TypeOf(v)
      Elements == [i \in DOMAIN v[2] |-> PutInt(v[2][i], Width(t))]
      List == IF v[3] = <<>>
              THEN IF v[2] \in ValueTypes \union {End} THEN << v[2] >> \o WriteLength(0) ELSE Fail
              ELSE IF v[2] \in ValueTypes /\ \A i \in DOMAIN v[3] : TypeOf(v[3][i]) = v[2]
                   THEN Join(<< << v[2] >>, WriteLength(Len(v[3])) >>
                             \o [i \in DOMAIN v[3] |-> WritePayload(v[3][i], depth + 1)])
                   ELSE Fail
      keys == SetToSortSeq(DOMAIN v[2], Before)
      Entry(k) == Join(<< << TypeOf(v[2][k]) >>, WriteModifiedUTF8(k),
                          WritePayload(v[2][k], depth + 1) >>)
  IN IF depth > MaxDepth THEN Fail
     ELSE CASE t \in Numbers -> PutInt(v[2], Width(t))
            [] t \in Arrays -> WriteLength(Len(v[2])) \o FlattenSeq(Elements)
            [] t = StringType -> WriteModifiedUTF8(v[2])
            [] t = ListType -> List
            [] t = CompoundType -> Join([i \in DOMAIN keys |-> Entry(keys[i])] \o << << End >> >>)

WriteNetwork(v) == IF v = NilValue THEN Fail ELSE Join(<< << TypeOf(v) >>, WritePayload(v, 0) >>)

RECURSIVE ReadPayload(_, _, _), ReadCompound(_, _, _)
ReadPayload(b, t, depth) ==
  LET Number(s) == Then(ReadFull(s, Width(t)), LAMBDA x, rest : << GetInt(x), rest >>)
      List == Then(ReadByte(b), LAMBDA elem, b1 : Then(ReadLength(b1), LAMBDA n, b2 :
                IF elem \notin (IF n = 0 THEN ValueTypes \union {End} ELSE ValueTypes) THEN Fail
                ELSE Then(Repeat(n, LAMBDA s : ReadPayload(s, elem, depth + 1), b2),
                          LAMBDA values, rest : << << ListType, elem, values >>, rest >>)))
  IN IF depth > MaxDepth THEN Fail
     ELSE CASE t \in Numbers -> Then(Number(b), LAMBDA n, rest : << << t, n >>, rest >>)
            [] t \in Arrays -> Then(ReadLength(b), LAMBDA n, b1 :
                 Then(Repeat(n, Number, b1), LAMBDA items, rest : << << t, items >>, rest >>))
            [] t = StringType -> Then(ReadModifiedUTF8(b), LAMBDA s, rest : << << t, s >>, rest >>)
            [] t = ListType -> List
            [] t = CompoundType -> ReadCompound(b, depth, <<>>)

\* The entries up to TAG_End, none of them twice
ReadCompound(b, depth, sofar) ==
  Then(ReadByte(b), LAMBDA t, b1 :
    IF t = End THEN << << CompoundType, sofar >>, b1 >>
    ELSE IF t \notin ValueTypes THEN Fail
    ELSE Then(ReadModifiedUTF8(b1), LAMBDA key, b2 :
           IF key \in DOMAIN sofar THEN Fail
           ELSE Then(ReadPayload(b2, t, depth + 1), LAMBDA v, b3 :
                  ReadCompound(b3, depth,
                               [k \in DOMAIN sofar \union {key} |-> IF k = key THEN v ELSE sofar[k]]))))

ReadNetwork(b) ==
  Then(ReadByte(b), LAMBDA t, rest : IF t \in ValueTypes THEN ReadPayload(rest, t, 0) ELSE Fail)

---------------------------------------------------------------------------
(* The typed JSON.  A document is a tuple that starts with its kind:       *)
(* null, number, string, array, node (a typed value), list, fields.        *)

Null == << "null" >>

Names == << "byte", "short", "int", "long", "float", "double",
            "byteArray", "string", "list", "compound", "intArray", "longArray" >>

TypeName(t) == IF t = End THEN "end" ELSE Names[t]

\* The type a name stands for, or -1 (shortArray among them)
TypeNamed(name) == IF name = "end" THEN End
                   ELSE IF \E t \in ValueTypes : Names[t] = name
                        THEN CHOOSE t \in ValueTypes : Names[t] = name ELSE -1

\* The halves of a long, both signed
LongPair(n) == << "array", << << "number", n \div 2^16 >>, << "number", Signed(n % 2^16, 2^16) >> >> >>

\* An array that is nil in the code is a null, which is what appending no Int to
\* nothing gives.
Node(t, payload) == IF payload = Fail THEN Fail ELSE << "node", TypeName(t), payload >>

RECURSIVE EncodePayload(_)
EncodePayload(v) ==
  LET t == TypeOf(v)
      Items(Item(_)) == << "array", [i \in DOMAIN v[2] |-> Item(v[2][i])] >>
  IN CASE t \in {ByteType, ShortType, IntType} -> << "number", v[2] >>
       [] t = LongType -> LongPair(v[2])
       [] t \in {FloatType, DoubleType} -> IF Finite(v) THEN << "number", v[2] >> ELSE Fail
       [] t = StringType -> << "string", v[2] >>
       [] t = ByteArrayType -> Items(LAMBDA n : << "number", n >>)
       [] t = IntArrayType -> IF v[2] = <<>> THEN Null ELSE Items(LAMBDA n : << "number", n >>)
       [] t = LongArrayType -> Items(LongPair)
       [] t = ListType ->
            IF \/ v[2] = End /\ v[3] # <<>>
               \/ \E i \in DOMAIN v[3] : TypeOf(v[3][i]) # v[2]
            THEN Fail
            ELSE Made([i \in DOMAIN v[3] |-> EncodePayload(v[3][i])], LAMBDA elements :
                   << "list", TypeName(v[2]), elements >>)
       [] t = CompoundType ->
            Made([k \in DOMAIN v[2] |-> Node(TypeOf(v[2][k]), EncodePayload(v[2][k]))], LAMBDA fields :
              << "fields", fields >>)

EncodeJSON(v) == IF v = NilValue THEN Null ELSE Node(TypeOf(v), EncodePayload(v))

\* parseSignedInteger: << the integer >> if it fits in so many bits
ParseInteger(j, bits) ==
  IF j[1] = "number" /\ j[2] \in (-(2^(bits - 1)))..(2^(bits - 1) - 1) THEN << j[2] >> ELSE Fail

ParseLong(j) ==
  IF j[1] # "array" \/ Len(j[2]) # 2 THEN Fail
  ELSE LET high == ParseInteger(j[2][1], 16)
           low  == ParseInteger(j[2][2], 16)
       IN IF high = Fail \/ low = Fail THEN Fail ELSE << (high[1] * 2^16) + (low[1] % 2^16) >>

ParseItem(t, j) ==
  CASE t = ByteArrayType -> ParseInteger(j, 8)
    [] t = IntArrayType -> ParseInteger(j, 16)
    [] t = LongArrayType -> ParseLong(j)

\* << the items >> of an array of type t, none if it is null
ParseItems(t, j) ==
  IF j = Null THEN << <<>> >>
  ELSE IF j[1] # "array" THEN Fail
  ELSE Made([i \in DOMAIN j[2] |-> ParseItem(t, j[2][i])], LAMBDA items :
         << [i \in DOMAIN items |-> items[i][1]] >>)

\* The value of the named type, or Fail
RECURSIVE DecodePayload(_, _)
DecodePayload(name, j) ==
  LET t == TypeNamed(name)
      Value(parsed) == IF parsed = Fail THEN Fail ELSE << t, parsed[1] >>
  IN CASE t = ByteType -> Value(ParseInteger(j, 8))
       [] t \in {ShortType, IntType} -> Value(ParseInteger(j, 16))
       [] t = LongType -> Value(ParseLong(j))
       [] t \in {FloatType, DoubleType} -> IF j[1] = "number" THEN << t, j[2] >> ELSE Fail
       [] t = StringType -> IF j = Null THEN << t, <<>> >>
                            ELSE IF j[1] = "string" THEN << t, j[2] >> ELSE Fail
       [] t \in {ByteArrayType, IntArrayType, LongArrayType} -> Value(ParseItems(t, j))
       [] t = ListType ->
            IF \/ j[1] # "list" \/ TypeNamed(j[2]) = -1
               \/ j[2] = "end" /\ j[3] # <<>>
            THEN Fail
            ELSE Made([i \in DOMAIN j[3] |-> DecodePayload(j[2], j[3][i])], LAMBDA elements :
                   << t, TypeNamed(j[2]), elements >>)
       [] t = CompoundType ->
            IF j = Null THEN << t, <<>> >>
            ELSE IF j[1] # "fields" THEN Fail
            ELSE Made([k \in {k \in DOMAIN j[2] : j[2][k] # Null} |-> DecodePayload(j[2][k][2], j[2][k][3])],
                      LAMBDA fields : << t, fields >>)
       [] OTHER -> Fail

DecodeJSON(j) == IF j[1] = "node" THEN DecodePayload(j[2], j[3]) ELSE Fail
=================================================================================
