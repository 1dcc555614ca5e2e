------------------------------- MODULE World -------------------------------
(***************************************************************************)
(* The world and its clock, world.go, with the coordinates as the packets  *)
(* carry them (packPosition and unpackPosition in types.go).               *)
(*                                                                         *)
(* One axis stands for x, y and z: they are packed alike, in 26, 12 and 26 *)
(* bits.  The integers of the clock are int64.  An integer of w bits is    *)
(* one of -2^(w-1) .. 2^(w-1) - 1; CoordinateLimit and TickLimit stand for *)
(* the 2^(w-1), scaled down.                                               *)
(***************************************************************************)
EXTENDS Integers

CONSTANTS
    CoordinateLimit,     \* 2^25 and 2^11: a packed coordinate is below
    TickLimit,           \* 2^63: a value of the clock is below
    DayLength,           \* 24000
    Platform,            \* coordinates of the spawn platform
    Air, Bricks, PlatformBlock

ASSUME WorldAssumption ==
    /\ CoordinateLimit \in Nat \ {0}
    /\ TickLimit \in Nat \ {0}
    /\ DayLength \in 1..TickLimit
    /\ Platform \subseteq Int

VARIABLES
    blocks,              \* modifiedBlocks: a function on the blocks set so far
    worldAge,
    timeOfDay

worldVars == <<blocks, worldAge, timeOfDay>>

\* n as the two's complement integer in -limit..limit - 1.
Wrap(n, limit) == ((n + limit) % (2 * limit)) - limit

Int64(n) == Wrap(n, TickLimit)

\* What a client reads where the server packed c, and the server where a
\* client packed it.
Packed(c) == Wrap(c, CoordinateLimit)

WirePositions == -CoordinateLimit..CoordinateLimit - 1

\* A block is placed beside a position a client has named.
WorldPositions == -CoordinateLimit - 1..CoordinateLimit

\* The remainder of Go takes the sign of the dividend.
Remainder(a, b) == IF a < 0 THEN -((-a) % b) ELSE a % b

\* Mutant: the remainder of Go is taken for the residue.
KeepSign(t) == Remainder(t, DayLength)

NormalizeTimeOfDay(t) ==
    LET r == Remainder(t, DayLength)
    IN  IF r < 0 THEN r + DayLength ELSE r

WorldInit ==
    /\ blocks = [c \in Platform |-> PlatformBlock]
    /\ worldAge = 0
    /\ timeOfDay = 0

SetBlock(c, block) ==
    /\ blocks' = [p \in DOMAIN blocks \cup {c} |->
                      IF p = c THEN block ELSE blocks[p]]
    /\ UNCHANGED <<worldAge, timeOfDay>>

AdvanceTime(ticks) ==
    /\ worldAge' = Int64(worldAge + ticks)
    /\ timeOfDay' = NormalizeTimeOfDay(Int64(timeOfDay + ticks))
    /\ UNCHANGED blocks

SetTimeOfDay(t) ==
    /\ timeOfDay' = NormalizeTimeOfDay(t)
    /\ UNCHANGED <<blocks, worldAge>>

WorldTypeOK ==
    /\ DOMAIN blocks \subseteq Platform \cup WorldPositions
    /\ \A c \in DOMAIN blocks : blocks[c] \in {Air, Bricks, PlatformBlock}
    /\ worldAge \in -TickLimit..TickLimit - 1
    /\ timeOfDay \in 0..DayLength - 1
=============================================================================
