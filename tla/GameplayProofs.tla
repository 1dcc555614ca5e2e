--------------------------- MODULE GameplayProofs ---------------------------
(***************************************************************************)
(* What clients are sent adds up to what the server has, for any number of *)
(* sessions, places, modes and events, any capacity of the queues and any  *)
(* width of the integers: blocks, entities, clock and mode.                *)
(*                                                                         *)
(* Two facts carry it.  A packet that is still to be sent tells what the   *)
(* server has now (TruthInv).  Whatever a connected client's view has      *)
(* wrong, some packet that is still to be sent to it puts right (the       *)
(* Known parts); so when nothing is to be sent, its view is right.         *)
(***************************************************************************)
EXTENDS Gameplay, FiniteSetTheorems, TLAPS

Clock == -TickLimit..TickLimit - 1

BlockKinds == {Air, Bricks, PlatformBlock}

Fields == [place : Places, mode : Modes]

Packet ==
    [kind : {"BlockUpdate"}, at : WirePositions, block : BlockKinds]
    \cup [kind : {"SetTime"}, age : Clock]
    \cup [kind : {"GameMode"}, mode : Modes]
    \cup [kind : {"Entity", "Move"}, of : Sessions, place : Places]
    \cup [kind : {"Remove"}, of : Sessions]
    \cup [kind : {"Note"}]

View ==
    [blocks : [WirePositions -> BlockKinds \cup {Unmodified}],
     entities : [Sessions -> Places \cup {Nowhere}],
     mode : Modes,
     age : Clock]

GameTypeOK ==
    /\ WorldTypeOK
    /\ players \subseteq Sessions /\ joining \in Sessions \cup {NoSession}
    /\ IsFiniteSet(players)
    /\ state \in [Sessions -> {"PlayPending", "Play", "Closed"}]
    /\ player \in [Sessions -> Fields]
    /\ snapshot = player
    /\ queued \in [Sessions -> 0..OutboundCapacity]
    /\ view \in [Sessions -> View]
    /\ outgoing \in [Sessions -> Seq(Packet)]
    /\ replay \in [Sessions -> SUBSET DOMAIN blocks]

\* What the running handler still has to send to s, and what is about the
\* entity of o in it.
Pending(s) == Range(outgoing[s])

PendingOf(s, kinds) == {p \in Pending(s) : p.kind \in kinds}

PendingAbout(s, o, kinds) == {p \in PendingOf(s, kinds) : p.of = o}

\* A packet that tells s what the server has now.
Truthful(s, p) ==
    \/ \E c \in DOMAIN blocks : p = BlockUpdate(c, blocks[c])
    \/ p = SetTime(worldAge)
    \/ p = GameMode(player[s].mode)
    \/ \E o \in players : \/ p = AddEntity(o, player[o].place)
                          \/ p = EntityPositionSync(o, player[o].place)
    \/ \E o \in Sessions \ players : p = RemoveEntities(o)
    \/ p = Note

TruthInv == \A s \in Sessions : \A p \in Pending(s) : Truthful(s, p)

\* A client that is not yet a player has seen neither blocks nor entities.
Newcomer(s) ==
    /\ Pending(s) \subseteq {GameMode(player[s].mode), Note}
    /\ replay[s] = {}
    /\ \A c \in WirePositions : view[s].blocks[c] = Unmodified
    /\ \A o \in Sessions : view[s].entities[o] = Nowhere

NewcomerInv ==
    \A s \in Sessions :
        /\ state[s] = "PlayPending" => s \notin players
        /\ s \notin players /\ state[s] # "Closed" => Newcomer(s)

(***************************************************************************)
(* The four parts of a view: when it is right, and when it is, or a packet *)
(* to come will make it so.                                                *)
(***************************************************************************)
BlocksAt(c) == {blocks[q] : q \in {p \in DOMAIN blocks : Packed(p) = c}}

BlockRight(s, c) ==
    IF BlocksAt(c) = {} THEN view[s].blocks[c] = Unmodified
    ELSE view[s].blocks[c] \in BlocksAt(c)

BlockKnown(s, c) ==
    \/ BlockRight(s, c)
    \/ \E p \in PendingOf(s, {"BlockUpdate"}) : p.at = c
    \/ \E q \in replay[s] : Packed(q) = c

PlaceRight(s, o) == view[s].entities[o] \in {Nowhere, player[o].place}
AbsentRight(s, o) == o \notin players => view[s].entities[o] = Nowhere
ShownRight(s, o) == InPlay(o) => view[s].entities[o] # Nowhere

EntityRight(s, o) == PlaceRight(s, o) /\ AbsentRight(s, o) /\ ShownRight(s, o)

EntityKnown(s, o) ==
    /\ PlaceRight(s, o) \/ PendingAbout(s, o, {"Entity", "Move", "Remove"}) # {}
    /\ AbsentRight(s, o) \/ PendingAbout(s, o, {"Remove"}) # {}
    /\ ShownRight(s, o) \/ PendingAbout(s, o, {"Entity"}) # {}

ModeRight(s) == view[s].mode = player[s].mode

ModeKnown(s) == ModeRight(s) \/ PendingOf(s, {"GameMode"}) # {}

\* The ticks since the age of the world was last a multiple of the rate; the
\* last multiple before the wrap is TickLimit % Rate short of TickLimit.
SinceTold(age) ==
    IF age >= (TickLimit % Rate) - TickLimit THEN age % Rate
    ELSE age + TickLimit + (TickLimit % Rate)

ClockRight(s) == (worldAge - view[s].age) % (2 * TickLimit) <= SinceTold(worldAge)

ClockKnown(s) == ClockRight(s) \/ PendingOf(s, {"SetTime"}) # {}

BlocksInv == \A s \in Present : \A c \in WirePositions : BlockKnown(s, c)
EntitiesInv == \A s \in Present : \A o \in Others(s) : EntityKnown(s, o)
ModeInv == \A s \in Sessions : state[s] = "Play" => ModeKnown(s)
ClockInv == \A s \in Present : ClockKnown(s)

GameInv ==
    /\ GameTypeOK
    /\ TruthInv
    /\ NewcomerInv
    /\ BlocksInv
    /\ EntitiesInv
    /\ ModeInv
    /\ ClockInv

-----------------------------------------------------------------------------
(***************************************************************************)
(* Integers of a fixed width, and remainders.                              *)
(***************************************************************************)
LEMMA WrapRange ==
    ASSUME NEW n \in Int, NEW limit \in Nat \ {0}
    PROVE  Wrap(n, limit) \in -limit..limit - 1
  BY DEF Wrap

LEMMA DayRange ==
    ASSUME NEW t \in Int
    PROVE  NormalizeTimeOfDay(t) \in 0..DayLength - 1
  BY WorldAssumption DEF NormalizeTimeOfDay, Remainder

LEMMA Division ==
    ASSUME NEW n \in Int, NEW m \in Nat \ {0}
    PROVE  \E q \in Int, r \in 0..m - 1 : n = m * q + r /\ n % m = r
<1>1. n = m * (n \div m) + (n % m) /\ n \div m \in Int /\ n % m \in 0..m - 1
  OBVIOUS
<1>2. QED
  BY <1>1

LEMMA RemainderIs ==
    ASSUME NEW m \in Nat \ {0}, NEW q \in Int, NEW r \in 0..m - 1, NEW n \in Int,
           n = m * q + r
    PROVE  n % m = r
  OBVIOUS

LEMMA NextRemainder ==
    ASSUME NEW n \in Int, NEW m \in Nat \ {0}, (n + 1) % m # 0
    PROVE  (n + 1) % m = (n % m) + 1
<1>1. PICK q \in Int, r \in 0..m - 1 : n = m * q + r /\ n % m = r
  BY Division
<1>2. CASE r = m - 1
  <2>1. PICK k \in Int, p \in Int : k = n + 1 /\ p = q + 1
    BY <1>1
  <2>2. k = m * p + 0 /\ 0 \in 0..m - 1
    BY <1>1, <1>2, <2>1
  <2>3. k % m = 0
    BY <2>2, RemainderIs
  <2>4. QED
    BY <2>1, <2>3
<1>3. CASE r # m - 1
  <2>1. n + 1 \in Int /\ n + 1 = m * q + (r + 1) /\ r + 1 \in 0..m - 1
    BY <1>1, <1>3
  <2>2. QED
    BY <2>1, <1>1, RemainderIs
<1>4. QED
  BY <1>2, <1>3

LEMMA DownToMultiple ==
    ASSUME NEW n \in Int, NEW m \in Nat \ {0}
    PROVE  ((n % m) - n) % m = 0
<1>1. PICK q \in Int, r \in 0..m - 1 : n = m * q + r /\ n % m = r
  BY Division
<1>2. PICK k \in Int, p \in Int : k = (n % m) - n /\ p = -q
  BY <1>1
<1>3. k = m * p + 0 /\ 0 \in 0..m - 1
  BY <1>1, <1>2
<1>4. k % m = 0
  BY <1>3, RemainderIs
<1>5. QED
  BY <1>2, <1>4

(***************************************************************************)
(* The clock.                                                              *)
(***************************************************************************)
LEMMA Behind ==
    ASSUME NEW a \in Clock, NEW b \in Clock
    PROVE  (a - b) % (2 * TickLimit) = IF a >= b THEN a - b ELSE a - b + 2 * TickLimit
  BY WorldAssumption DEF Clock

LEMMA NextAge ==
    ASSUME NEW a \in Clock
    PROVE  Int64(a + 1) = IF a = TickLimit - 1 THEN -TickLimit ELSE a + 1
  BY WorldAssumption DEF Clock, Int64, Wrap

LEMMA SinceToldIsShort ==
    ASSUME NEW a \in Clock
    PROVE  SinceTold(a) \in 0..Rate - 1
<1>1. PICK h \in 0..Rate - 1 : h = TickLimit % Rate /\ 2 * h <= Rate
  BY WorldAssumption, GameplayAssumption
<1>2. a % Rate \in 0..Rate - 1
  BY GameplayAssumption DEF Clock
<1>3. QED
  BY <1>1, <1>2, WorldAssumption, GameplayAssumption DEF SinceTold, Clock

LEMMA SinceToldGrows ==
    ASSUME NEW a \in Clock, Int64(a + 1) % Rate # 0
    PROVE  SinceTold(Int64(a + 1)) = SinceTold(a) + 1
<1> USE WorldAssumption, GameplayAssumption
<1>1. PICK h \in 0..Rate - 1 : h = TickLimit % Rate
  OBVIOUS
<1>2. (h - TickLimit) % Rate = 0
  BY <1>1, DownToMultiple
<1>3. CASE a = TickLimit - 1
  <2>1. Int64(a + 1) = -TickLimit
    BY <1>3, NextAge
  <2>2. h # 0
    BY <1>1, <1>2, <2>1
  <2>3. TickLimit % Rate = ((TickLimit - 1) % Rate) + 1
    <3>1. PICK n \in Int : n = TickLimit - 1
      OBVIOUS
    <3>2. n + 1 = TickLimit /\ (n + 1) % Rate # 0
      BY <1>1, <2>2, <3>1
    <3>3. QED
      BY <3>1, <3>2, NextRemainder
  <2>4. h <= TickLimit
    <3>1. CASE TickLimit < Rate
      <4>1. TickLimit = Rate * 0 + TickLimit /\ TickLimit \in 0..Rate - 1
        BY <3>1
      <4>2. TickLimit % Rate = TickLimit
        BY <4>1, RemainderIs
      <4>3. QED
        BY <1>1, <4>2
    <3>2. QED
      BY <1>1, <3>1
  <2>5. QED
    BY <1>1, <1>3, <2>1, <2>2, <2>3, <2>4 DEF SinceTold
<1>4. CASE a # TickLimit - 1
  <2>1. Int64(a + 1) = a + 1 /\ a \in Int
    BY <1>4, NextAge DEF Clock
  <2>2. (a + 1) % Rate = (a % Rate) + 1
    BY <2>1, NextRemainder
  <2>3. CASE a >= h - TickLimit
    BY <1>1, <2>1, <2>2, <2>3 DEF SinceTold
  <2>4. CASE a < h - TickLimit
    <3>1. a + 1 # h - TickLimit
      BY <1>2, <2>1
    <3>2. QED
      BY <1>1, <2>1, <2>4, <3>1 DEF SinceTold
  <2>5. QED
    BY <1>1, <2>1, <2>3, <2>4
<1>5. QED
  BY <1>3, <1>4


-----------------------------------------------------------------------------
(***************************************************************************)
(* Packets, and sequences of them.                                         *)
(***************************************************************************)
LEMMA FirstAndRest ==
    ASSUME NEW q \in Seq(Packet), q # <<>>
    PROVE  /\ Head(q) \in Packet /\ Tail(q) \in Seq(Packet)
           /\ Range(q) = {Head(q)} \cup Range(Tail(q))
<1>1. Head(q) \in Packet /\ Tail(q) \in Seq(Packet) /\ Len(q) \in Nat \ {0}
  OBVIOUS
<1>2. /\ DOMAIN q = 1..Len(q) /\ DOMAIN Tail(q) = 1..Len(q) - 1
      /\ Head(q) = q[1] /\ \A i \in 1..Len(q) - 1 : Tail(q)[i] = q[i + 1]
  OBVIOUS
<1>3. ASSUME NEW i \in DOMAIN q PROVE q[i] \in {Head(q)} \cup Range(Tail(q))
  <2>1. i = 1 \/ (i - 1 \in DOMAIN Tail(q) /\ Tail(q)[i - 1] = q[i])
    BY <1>1, <1>2
  <2>2. QED
    BY <1>2, <2>1 DEF Range
<1>4. ASSUME NEW i \in DOMAIN Tail(q) PROVE Tail(q)[i] \in Range(q)
  <2>1. i + 1 \in DOMAIN q /\ Tail(q)[i] = q[i + 1]
    BY <1>1, <1>2
  <2>2. QED
    BY <2>1 DEF Range
<1>5. Head(q) \in Range(q)
  BY <1>1, <1>2 DEF Range
<1>6. QED
  BY <1>1, <1>3, <1>4, <1>5 DEF Range

LEMMA OneAfterTheOther ==
    ASSUME NEW a \in Seq(Packet), NEW b \in Seq(Packet)
    PROVE  a \o b \in Seq(Packet) /\ Range(a \o b) = Range(a) \cup Range(b)
<1>1. /\ a \o b \in Seq(Packet) /\ Len(a) \in Nat /\ Len(b) \in Nat
      /\ DOMAIN a = 1..Len(a) /\ DOMAIN b = 1..Len(b)
      /\ DOMAIN (a \o b) = 1..Len(a) + Len(b)
      /\ \A i \in 1..Len(a) : (a \o b)[i] = a[i]
      /\ \A i \in 1..Len(b) : (a \o b)[Len(a) + i] = b[i]
  OBVIOUS
<1>2. ASSUME NEW i \in DOMAIN (a \o b) PROVE (a \o b)[i] \in Range(a) \cup Range(b)
  <2>1. CASE i \in 1..Len(a)
    BY <1>1, <2>1 DEF Range
  <2>2. CASE i \notin 1..Len(a)
    <3>1. PICK j \in 1..Len(b) : i = Len(a) + j
      <4>1. i - Len(a) \in 1..Len(b) /\ i = Len(a) + (i - Len(a))
        BY <1>1, <2>2
      <4>2. QED
        BY <4>1
    <3>2. QED
      BY <1>1, <3>1 DEF Range
  <2>3. QED
    BY <2>1, <2>2
<1>3. ASSUME NEW i \in DOMAIN a PROVE a[i] \in Range(a \o b)
  <2>1. i \in DOMAIN (a \o b) /\ (a \o b)[i] = a[i]
    BY <1>1
  <2>2. QED
    BY <2>1 DEF Range
<1>4. ASSUME NEW i \in DOMAIN b PROVE b[i] \in Range(a \o b)
  <2>1. Len(a) + i \in DOMAIN (a \o b) /\ (a \o b)[Len(a) + i] = b[i]
    BY <1>1
  <2>2. QED
    BY <2>1 DEF Range
<1>5. QED
  BY <1>1, <1>2, <1>3, <1>4 DEF Range

LEMMA FewPackets ==
    /\ <<>> \in Seq(Packet) /\ Range(<<>>) = {}
    /\ \A p \in Packet : <<p>> \in Seq(Packet) /\ Range(<<p>>) = {p}
    /\ \A p, q \in Packet : <<p, q>> \in Seq(Packet) /\ Range(<<p, q>>) = {p, q}
    /\ \A p, q, r \in Packet :
          <<p, q, r>> \in Seq(Packet) /\ Range(<<p, q, r>>) = {p, q, r}
  BY DEF Range

LEMMA PacketTypes ==
    /\ \A c \in Int, block \in BlockKinds : BlockUpdate(c, block) \in Packet
    /\ \A age \in Clock : SetTime(age) \in Packet
    /\ \A mode \in Modes : GameMode(mode) \in Packet
    /\ \A o \in Sessions, place \in Places :
          AddEntity(o, place) \in Packet /\ EntityPositionSync(o, place) \in Packet
    /\ \A o \in Sessions : RemoveEntities(o) \in Packet
    /\ Note \in Packet
<1>1. \A c \in Int : Packed(c) \in WirePositions
  BY WrapRange, WorldAssumption DEF Packed, WirePositions
<1>2. QED
  BY <1>1 DEF Packet, BlockUpdate, SetTime, GameMode, AddEntity, EntityPositionSync,
              RemoveEntities, Note

LEMMA OnlyNotes ==
    ASSUME NEW n \in Nat
    PROVE  Notes(n) \in Seq(Packet) /\ Range(Notes(n)) \subseteq {Note}
  BY PacketTypes DEF Notes, Range

LEMMA Delivered ==
    ASSUME NEW v \in View, NEW p \in Packet
    PROVE  /\ Deliver(v, p) \in View
           /\ Deliver(v, p).blocks = IF p.kind = "BlockUpdate"
                                     THEN [v.blocks EXCEPT ![p.at] = p.block]
                                     ELSE v.blocks
           /\ Deliver(v, p).entities =
                 IF p.kind = "Entity" \/ (p.kind = "Move" /\ v.entities[p.of] # Nowhere)
                 THEN [v.entities EXCEPT ![p.of] = p.place]
                 ELSE IF p.kind = "Remove" THEN [v.entities EXCEPT ![p.of] = Nowhere]
                 ELSE v.entities
           /\ Deliver(v, p).mode = IF p.kind = "GameMode" THEN p.mode ELSE v.mode
           /\ Deliver(v, p).age = IF p.kind = "SetTime" THEN p.age ELSE v.age
<1>1. CASE p.kind = "BlockUpdate"
  BY <1>1 DEF Packet, View, Deliver
<1>2. CASE p.kind = "SetTime"
  BY <1>2 DEF Packet, View, Deliver
<1>3. CASE p.kind = "GameMode"
  BY <1>3 DEF Packet, View, Deliver
<1>4. CASE p.kind = "Entity"
  BY <1>4 DEF Packet, View, Deliver
<1>5. CASE p.kind = "Move"
  BY <1>5 DEF Packet, View, Deliver
<1>6. CASE p.kind = "Remove"
  BY <1>6 DEF Packet, View, Deliver
<1>7. CASE p.kind = "Note"
  BY <1>7 DEF Packet, View, Deliver
<1>8. QED
  BY <1>1, <1>2, <1>3, <1>4, <1>5, <1>6, <1>7 DEF Packet


-----------------------------------------------------------------------------
(***************************************************************************)
(* What a step does to clients.  A handler runs when everything is sent,   *)
(* changes one thing, and leaves its packets to be sent; apart from those  *)
(* listed there are only packets that take room.                           *)
(***************************************************************************)
Tells(o, packets) ==
    /\ packets \subseteq Pending(o)'
    /\ Pending(o)' \subseteq packets \cup {Note}

Handling == AllSent /\ UNCHANGED view

PlacesBlock(c, block) ==
    /\ Handling
    /\ SetBlock(c, block)
    /\ UNCHANGED <<state, players, player, replay>>
    /\ \A o \in Sessions :
          Tells(o, IF o \in Present THEN {BlockUpdate(c, block)} ELSE {})

MovesTo(s, place) ==
    /\ Handling
    /\ player' = [player EXCEPT ![s].place = place]
    /\ UNCHANGED <<worldVars, state, players, replay>>
    /\ \A o \in Sessions :
          Tells(o, IF o \in Others(s) \cap Present
                   THEN {EntityPositionSync(s, place)} ELSE {})

PlaysIn(s, mode) ==
    /\ Handling
    /\ player' = [player EXCEPT ![s].mode = mode]
    /\ UNCHANGED <<worldVars, state, players, replay>>
    /\ \A o \in Sessions : Tells(o, IF o = s THEN {GameMode(mode)} ELSE {})

TellsTime ==
    /\ Handling
    /\ UNCHANGED <<blocks, state, players, player, replay>>
    /\ \A o \in Sessions : Tells(o, IF o \in Present THEN {SetTime(worldAge')} ELSE {})

Ages ==
    /\ Handling
    /\ worldAge' = Int64(worldAge + 1) /\ worldAge' % Rate # 0
    /\ UNCHANGED <<blocks, state, players, player, replay>>
    /\ \A o \in Sessions : Tells(o, {})

Talks ==
    /\ Handling
    /\ UNCHANGED <<blocks, worldAge, state, players, player, replay>>
    /\ \A o \in Sessions : Tells(o, {})

Enters(s) ==
    /\ Handling
    /\ state[s] = "PlayPending" /\ state' = [state EXCEPT ![s] = "Play"]
    /\ player' = [player EXCEPT ![s] = [place |-> Spawn, mode |-> DefaultMode]]
    /\ UNCHANGED <<worldVars, players, replay>>
    /\ \A o \in Sessions : Tells(o, IF o = s THEN {GameMode(DefaultMode)} ELSE {})

Joins(s) ==
    /\ Handling
    /\ state[s] = "Play" /\ s \notin players
    /\ players' = players \cup {s}
    /\ replay' = [replay EXCEPT ![s] = DOMAIN blocks]
    /\ UNCHANGED <<worldVars, state, player>>
    /\ \A o \in Sessions :
          Tells(o, IF o \in Present THEN {AddEntity(s, player[s].place)}
                   ELSE IF o = s
                   THEN {SetTime(worldAge)} \cup {AddEntity(p, player[p].place) : p \in Present}
                   ELSE {})

Leaves(s) ==
    /\ Handling
    /\ state[s] = "Closed"
    /\ players' = players \ {s}
    /\ UNCHANGED <<worldVars, state, player, replay>>
    /\ \A o \in Sessions : Tells(o, IF o \in Present THEN {RemoveEntities(s)} ELSE {})

\* A packet reaches the queue of s, from whoever sends it.
Delivers(s, p) ==
    /\ p \in Packet /\ Truthful(s, p)
    /\ view' = [view EXCEPT ![s] = Deliver(view[s], p)]
    /\ Pending(s)' \subseteq Pending(s) /\ Pending(s) \subseteq Pending(s)' \cup {p}
    /\ p \in Pending(s) \/ p = Note \/ replay[s] # {}
    /\ replay'[s] \subseteq replay[s]
    /\ \A q \in replay[s] \ replay'[s] : p = BlockUpdate(q, blocks[q])
    /\ \A o \in Others(s) : replay'[o] = replay[o] /\ outgoing'[o] = outgoing[o]
    /\ UNCHANGED <<worldVars, state, players, player>>

Closes(s) ==
    /\ Closed(s)
    /\ UNCHANGED <<worldVars, players, player>>

Rests == UNCHANGED <<worldVars, playVars, view, outgoing, replay>>

Effect ==
    \/ Rests \/ TellsTime \/ Ages \/ Talks
    \/ \E c \in Int, block \in BlockKinds : PlacesBlock(c, block)
    \/ \E s \in Sessions :
          \/ \E place \in Places : s \in Present /\ MovesTo(s, place)
          \/ \E mode \in Modes : s \in Present /\ PlaysIn(s, mode)
          \/ Enters(s) \/ Joins(s) \/ Leaves(s) \/ Closes(s)
          \/ \E p \in Packet : Delivers(s, p)

(***************************************************************************)
(* What the operators of the model send.                                   *)
(***************************************************************************)
LEMMA ToOne ==
    ASSUME NEW s \in Sessions, NEW q \in Seq(Packet)
    PROVE  /\ To(s, q) \in [Sessions -> Seq(Packet)]
           /\ \A o \in Sessions : Range(To(s, q)[o]) = IF o = s THEN Range(q) ELSE {}
  BY FewPackets DEF To

LEMMA ToSome ==
    ASSUME NEW receivers, NEW q \in Seq(Packet)
    PROVE  /\ BroadcastTo(receivers, q) \in [Sessions -> Seq(Packet)]
           /\ \A o \in Sessions : Range(BroadcastTo(receivers, q)[o]) =
                                      IF o \in receivers \cap Present THEN Range(q) ELSE {}
  BY FewPackets DEF BroadcastTo

LEMMA ToBoth ==
    ASSUME NEW a \in [Sessions -> Seq(Packet)], NEW b \in [Sessions -> Seq(Packet)]
    PROVE  /\ Then(a, b) \in [Sessions -> Seq(Packet)]
           /\ \A o \in Sessions : Range(Then(a, b)[o]) = Range(a[o]) \cup Range(b[o])
  BY OneAfterTheOther DEF Then

LEMMA PresentOnes ==
    ASSUME GameTypeOK
    PROVE  /\ Present \subseteq players /\ Present \subseteq Sessions
           /\ \A s \in Present : state[s] = "Play"
           /\ \A s \in players : state[s] = "Play" => s \in Present
  BY DEF Present, InPlay, GameTypeOK

LEMMA WhatIsSent ==
    ASSUME NEW packets \in [Sessions -> Seq(Packet)], Sends(packets)
    PROVE  /\ UNCHANGED <<queued, view, replay>>
           /\ outgoing' \in [Sessions -> Seq(Packet)]
           /\ \A o \in Sessions : Pending(o)' = IF state[o] = "Closed" THEN {}
                                                ELSE Range(packets[o])
  BY FewPackets DEF Sends, Pending

LEMMA OneIsTold ==
    ASSUME NEW s \in Sessions, state[s] # "Closed", NEW q \in Seq(Packet), Sends(To(s, q))
    PROVE  /\ UNCHANGED <<queued, view, replay>>
           /\ outgoing' \in [Sessions -> Seq(Packet)]
           /\ \A o \in Sessions : Pending(o)' = IF o = s THEN Range(q) ELSE {}
<1>1. PICK packets \in [Sessions -> Seq(Packet)] :
          /\ packets = To(s, q)
          /\ \A o \in Sessions : Range(packets[o]) = IF o = s THEN Range(q) ELSE {}
  BY ToOne
<1>2. Sends(packets)
  BY <1>1
<1>3. QED
  BY <1>1, <1>2, WhatIsSent

LEMMA SomeAreTold ==
    ASSUME GameTypeOK, NEW receivers, NEW q \in Seq(Packet), Sends(BroadcastTo(receivers, q))
    PROVE  /\ UNCHANGED <<queued, view, replay>>
           /\ outgoing' \in [Sessions -> Seq(Packet)]
           /\ \A o \in Sessions :
                 Pending(o)' = IF o \in receivers \cap Present THEN Range(q) ELSE {}
<1>1. PICK packets \in [Sessions -> Seq(Packet)] :
          /\ packets = BroadcastTo(receivers, q)
          /\ \A o \in Sessions : Range(packets[o]) =
                                      IF o \in receivers \cap Present THEN Range(q) ELSE {}
  BY ToSome
<1>2. Sends(packets)
  BY <1>1
<1>3. \A o \in Present : state[o] # "Closed"
  BY PresentOnes
<1>4. QED
  BY <1>1, <1>2, <1>3, WhatIsSent

LEMMA BothAreTold ==
    ASSUME NEW a \in [Sessions -> Seq(Packet)], NEW b \in [Sessions -> Seq(Packet)],
           NEW packets, packets = Then(a, b) \/ packets = Then(b, a), Sends(packets)
    PROVE  /\ UNCHANGED <<queued, view, replay>>
           /\ outgoing' \in [Sessions -> Seq(Packet)]
           /\ \A o \in Sessions : Pending(o)' = IF state[o] = "Closed" THEN {}
                                                ELSE Range(a[o]) \cup Range(b[o])
<1>1. /\ packets \in [Sessions -> Seq(Packet)]
      /\ \A o \in Sessions : Range(packets[o]) = Range(a[o]) \cup Range(b[o])
  <2>1. /\ Then(a, b) \in [Sessions -> Seq(Packet)]
        /\ \A o \in Sessions : Range(Then(a, b)[o]) = Range(a[o]) \cup Range(b[o])
    BY ToBoth
  <2>2. /\ Then(b, a) \in [Sessions -> Seq(Packet)]
        /\ \A o \in Sessions : Range(Then(b, a)[o]) = Range(b[o]) \cup Range(a[o])
    BY ToBoth
  <2>3. CASE packets = Then(a, b)
    BY <2>1, <2>3
  <2>4. CASE packets = Then(b, a)
    BY <2>2, <2>4
  <2>5. QED
    BY <2>3, <2>4
<1>2. QED
  BY <1>1, WhatIsSent

\* A broadcast, and packets that take room to one session, in either order.
LEMMA AllAreTold ==
    ASSUME GameTypeOK, NEW receivers, NEW q \in Seq(Packet),
           NEW s \in Sessions, NEW own \in Seq(Packet), Range(own) \subseteq {Note},
           \/ Sends(Then(BroadcastTo(receivers, q), To(s, own)))
           \/ Sends(Then(To(s, own), BroadcastTo(receivers, q)))
    PROVE  /\ UNCHANGED <<queued, view, replay>>
           /\ outgoing' \in [Sessions -> Seq(Packet)]
           /\ \A o \in Sessions :
                 Tells(o, IF o \in receivers \cap Present THEN Range(q) ELSE {})
<1>1. PICK a \in [Sessions -> Seq(Packet)] :
          /\ a = BroadcastTo(receivers, q)
          /\ \A o \in Sessions : Range(a[o]) =
                                      IF o \in receivers \cap Present THEN Range(q) ELSE {}
  BY ToSome
<1>2. PICK b \in [Sessions -> Seq(Packet)] :
          /\ b = To(s, own)
          /\ \A o \in Sessions : Range(b[o]) = IF o = s THEN Range(own) ELSE {}
  BY ToOne
<1>3. Sends(Then(a, b)) \/ Sends(Then(b, a))
  BY <1>1, <1>2
<1>4. PICK packets : (packets = Then(a, b) \/ packets = Then(b, a)) /\ Sends(packets)
  BY <1>3
<1>5. /\ UNCHANGED <<queued, view, replay>> /\ outgoing' \in [Sessions -> Seq(Packet)]
      /\ \A o \in Sessions : Pending(o)' = IF state[o] = "Closed" THEN {}
                                           ELSE Range(a[o]) \cup Range(b[o])
  BY <1>4, BothAreTold
<1>6. ASSUME NEW o \in Sessions
      PROVE  Tells(o, IF o \in receivers \cap Present THEN Range(q) ELSE {})
  <2>1. Range(b[o]) \subseteq {Note}
    BY <1>2
  <2>2. CASE o \in receivers \cap Present
    <3>1. state[o] # "Closed" /\ Range(a[o]) = Range(q)
      BY <1>1, <2>2, PresentOnes
    <3>2. Pending(o)' = Range(q) \cup Range(b[o])
      BY <1>5, <3>1
    <3>3. QED
      BY <2>1, <2>2, <3>2 DEF Tells
  <2>3. CASE o \notin receivers \cap Present
    <3>1. Pending(o)' \subseteq Range(b[o])
      BY <1>1, <1>5, <2>3
    <3>2. QED
      BY <2>1, <2>3, <3>1 DEF Tells
  <2>4. QED
    BY <2>2, <2>3
<1>7. QED
  BY <1>5, <1>6


(***************************************************************************)
(* The handlers.                                                           *)
(***************************************************************************)
\* Of the types, a handler can disturb those of what it assigns.
LEMMA TypesKept ==
    ASSUME GameTypeOK, WorldTypeOK', DOMAIN blocks \subseteq DOMAIN blocks',
           player' \in [Sessions -> Fields], snapshot' = player',
           outgoing' \in [Sessions -> Seq(Packet)],
           UNCHANGED <<state, players, joining, queued, view, replay>>
    PROVE  GameTypeOK'
<1>1. replay \in [Sessions -> SUBSET DOMAIN blocks']
  BY DEF GameTypeOK
<1>2. QED
  BY <1>1 DEF GameTypeOK

LEMMA WorldKept ==
    ASSUME GameTypeOK, UNCHANGED worldVars
    PROVE  WorldTypeOK' /\ DOMAIN blocks \subseteq DOMAIN blocks'
  BY DEF GameTypeOK, WorldTypeOK, worldVars

LEMMA SetterTypes ==
    ASSUME GameTypeOK, NEW s \in Sessions, NEW fields \in Fields, SetPlayer(s, fields)
    PROVE  /\ player' = [player EXCEPT ![s] = fields]
           /\ player' \in [Sessions -> Fields] /\ snapshot' = player'
  BY DEF SetPlayer, GameTypeOK

LEMMA BlockEffect ==
    ASSUME GameTypeOK, NEW s \in Sessions, Event(s),
           NEW c \in WorldPositions, NEW block \in BlockKinds, ChangeBlock(s, c, block)
    PROVE  GameTypeOK' /\ Effect
<1>1. PICK ack \in {<<>>, <<Note>>} :
          Sends(Then(BroadcastTo(Sessions, <<BlockUpdate(c, block)>>), To(s, ack)))
  BY DEF ChangeBlock
<1>2. c \in Int /\ BlockUpdate(c, block) \in Packet /\ Note \in Packet
  BY PacketTypes, WorldAssumption DEF WorldPositions
<1>3. PICK q \in Seq(Packet) : q = <<BlockUpdate(c, block)>> /\ Range(q) = {BlockUpdate(c, block)}
  BY <1>2, FewPackets
<1>4. ack \in Seq(Packet) /\ Range(ack) \subseteq {Note}
  BY <1>2, FewPackets
<1>5. Sends(Then(BroadcastTo(Sessions, q), To(s, ack)))
  BY <1>1, <1>3
<1>6. /\ UNCHANGED <<queued, view, replay>> /\ outgoing' \in [Sessions -> Seq(Packet)]
      /\ \A o \in Sessions :
            Tells(o, IF o \in Sessions \cap Present THEN Range(q) ELSE {})
  BY <1>4, <1>5, AllAreTold
<1>7. AllSent /\ SetBlock(c, block) /\ UNCHANGED <<state, players, player, snapshot, joining>>
  BY DEF ChangeBlock, Event, Idle
<1>8. PlacesBlock(c, block)
  BY <1>3, <1>6, <1>7 DEF PlacesBlock, Handling
<1>9. WorldTypeOK' /\ DOMAIN blocks \subseteq DOMAIN blocks'
  BY <1>7 DEF SetBlock, WorldTypeOK, GameTypeOK, BlockKinds
<1>10. GameTypeOK'
  BY <1>6, <1>7, <1>9, TypesKept DEF GameTypeOK
<1>11. QED
  BY <1>2, <1>8, <1>10 DEF Effect

LEMMA MoveEffect ==
    ASSUME GameTypeOK, NEW s \in Sessions, Event(s), UNCHANGED worldVars,
           NEW place \in Places,
           \/ Teleport(s, place)
           \/ /\ SetPlayer(s, [player[s] EXCEPT !.place = place])
              /\ Sends(BroadcastTo(Others(s), <<EntityPositionSync(s, place)>>))
    PROVE  GameTypeOK' /\ Effect
<1>1. PICK fields \in Fields : fields = [player[s] EXCEPT !.place = place]
  BY DEF GameTypeOK, Fields
<1>2. /\ EntityPositionSync(s, place) \in Packet /\ Note \in Packet
      /\ SetPlayer(s, fields)
  BY <1>1, PacketTypes DEF Teleport
<1>3. PICK q \in Seq(Packet) :
          q = <<EntityPositionSync(s, place)>> /\ Range(q) = {EntityPositionSync(s, place)}
  BY <1>2, FewPackets
<1>4. PICK own \in Seq(Packet) : own = <<Note, Note>> /\ Range(own) \subseteq {Note}
  <2>1. <<Note, Note>> \in Seq(Packet) /\ Range(<<Note, Note>>) = {Note, Note}
    BY <1>2, FewPackets
  <2>2. QED
    BY <2>1
<1>5. \/ Sends(Then(To(s, own), BroadcastTo(Others(s), q)))
      \/ Sends(BroadcastTo(Others(s), q))
  BY <1>3, <1>4 DEF Teleport
<1>6. /\ UNCHANGED <<queued, view, replay>> /\ outgoing' \in [Sessions -> Seq(Packet)]
      /\ \A o \in Sessions :
            Tells(o, IF o \in Others(s) \cap Present THEN Range(q) ELSE {})
  <2>1. CASE Sends(Then(To(s, own), BroadcastTo(Others(s), q)))
    BY <1>4, <2>1, AllAreTold
  <2>2. CASE Sends(BroadcastTo(Others(s), q))
    BY <2>2, SomeAreTold DEF Tells
  <2>3. QED
    BY <1>5, <2>1, <2>2
<1>7. AllSent /\ s \in Present /\ UNCHANGED <<worldVars, state, players, joining>>
  BY DEF Event, Idle, Present, InPlay
<1>8. /\ player' = [player EXCEPT ![s].place = place]
      /\ player' \in [Sessions -> Fields] /\ snapshot' = player'
  BY <1>1, <1>2, SetterTypes
<1>9. MovesTo(s, place)
  BY <1>3, <1>6, <1>7, <1>8 DEF MovesTo, Handling
<1>10. GameTypeOK'
  BY <1>6, <1>7, <1>8, WorldKept, TypesKept
<1>11. QED
  BY <1>7, <1>9, <1>10 DEF Effect

LEMMA ModeEffect ==
    ASSUME GameTypeOK, NEW s \in Sessions, CmdGameMode(s)
    PROVE  GameTypeOK' /\ Effect
<1>1. PICK mode \in Modes : /\ SetPlayer(s, [player[s] EXCEPT !.mode = mode])
                            /\ Sends(To(s, <<GameMode(mode), Note>>))
  BY DEF CmdGameMode
<1>2. PICK fields \in Fields : fields = [player[s] EXCEPT !.mode = mode]
  BY DEF GameTypeOK, Fields
<1>3. GameMode(mode) \in Packet /\ Note \in Packet /\ SetPlayer(s, fields)
  BY <1>1, <1>2, PacketTypes
<1>4. PICK q \in Seq(Packet) :
          q = <<GameMode(mode), Note>> /\ Range(q) = {GameMode(mode), Note}
  BY <1>3, FewPackets
<1>5. AllSent /\ s \in Present /\ UNCHANGED <<worldVars, state, players, joining>>
  BY DEF CmdGameMode, Event, Idle, Present, InPlay
<1>6. Sends(To(s, q)) /\ state[s] # "Closed"
  BY <1>1, <1>4, <1>5, PresentOnes
<1>7. /\ UNCHANGED <<queued, view, replay>> /\ outgoing' \in [Sessions -> Seq(Packet)]
      /\ \A o \in Sessions : Pending(o)' = IF o = s THEN Range(q) ELSE {}
  BY <1>6, OneIsTold
<1>8. ASSUME NEW o \in Sessions
      PROVE  Tells(o, IF o = s THEN {GameMode(mode)} ELSE {})
  BY <1>4, <1>7 DEF Tells
<1>9. /\ player' = [player EXCEPT ![s].mode = mode]
      /\ player' \in [Sessions -> Fields] /\ snapshot' = player'
  BY <1>2, <1>3, SetterTypes
<1>10. PlaysIn(s, mode)
  BY <1>5, <1>7, <1>8, <1>9 DEF PlaysIn, Handling
<1>11. GameTypeOK'
  BY <1>5, <1>7, <1>9, WorldKept, TypesKept
<1>12. QED
  BY <1>5, <1>10, <1>11 DEF Effect


LEMMA ClockTypes ==
    ASSUME GameTypeOK
    PROVE  /\ \A t \in Nat : AdvanceTime(t) => /\ worldAge' \in Clock /\ WorldTypeOK'
                                               /\ UNCHANGED blocks
           /\ \A t \in Int : SetTimeOfDay(t) => /\ worldAge' \in Clock /\ WorldTypeOK'
                                                /\ UNCHANGED blocks
<1>1. worldAge \in Int /\ timeOfDay \in Int
  BY WorldAssumption DEF GameTypeOK, WorldTypeOK
<1>2. \A n \in Int : Int64(n) \in Clock /\ Int64(n) \in Int
  BY WrapRange, WorldAssumption DEF Int64, Clock
<1>3. \A n \in Int : NormalizeTimeOfDay(n) \in 0..DayLength - 1
  BY DayRange
<1>4. ASSUME NEW t \in Nat, AdvanceTime(t)
      PROVE  worldAge' \in Clock /\ WorldTypeOK' /\ UNCHANGED blocks
  BY <1>1, <1>2, <1>3, <1>4 DEF AdvanceTime, GameTypeOK, WorldTypeOK, Clock
<1>5. ASSUME NEW t \in Int, SetTimeOfDay(t)
      PROVE  worldAge' \in Clock /\ WorldTypeOK' /\ UNCHANGED blocks
  BY <1>1, <1>3, <1>5 DEF SetTimeOfDay, GameTypeOK, WorldTypeOK, Clock
<1>6. QED
  BY <1>4, <1>5

LEMMA TimeEffect ==
    ASSUME GameTypeOK, NEW s \in Sessions, CmdTimeSet(s) \/ CmdTimeAdd(s)
    PROVE  GameTypeOK' /\ Effect
<1>1. /\ Event(s) /\ AnnounceTime(s) /\ UNCHANGED <<player, snapshot>>
      /\ \/ \E t \in Int : SetTimeOfDay(t)
         \/ \E t \in Nat : AdvanceTime(t)
  BY GameplayAssumption DEF CmdTimeSet, CmdTimeAdd
<1>2. WorldTypeOK' /\ UNCHANGED blocks /\ worldAge' \in Clock
  BY <1>1, ClockTypes
<1>3. PICK age \in Clock : age = worldAge'
  BY <1>2
<1>4. SetTime(age) \in Packet /\ Note \in Packet
  BY PacketTypes
<1>5. PICK q \in Seq(Packet) : q = <<SetTime(age)>> /\ Range(q) = {SetTime(age)}
  BY <1>4, FewPackets
<1>6. PICK own \in Seq(Packet) : own = <<Note>> /\ Range(own) \subseteq {Note}
  BY <1>4, FewPackets
<1>7. Sends(Then(BroadcastTo(Sessions, q), To(s, own)))
  BY <1>1, <1>3, <1>5, <1>6 DEF AnnounceTime
<1>8. /\ UNCHANGED <<queued, view, replay>> /\ outgoing' \in [Sessions -> Seq(Packet)]
      /\ \A o \in Sessions : Tells(o, IF o \in Sessions \cap Present THEN Range(q) ELSE {})
  BY <1>6, <1>7, AllAreTold
<1>9. AllSent /\ UNCHANGED <<state, players, joining>>
  BY <1>1 DEF Event, Idle
<1>10. TellsTime
  BY <1>1, <1>2, <1>3, <1>5, <1>8, <1>9 DEF TellsTime, Handling
<1>11. GameTypeOK'
  BY <1>1, <1>2, <1>8, <1>9, TypesKept DEF GameTypeOK
<1>12. QED
  BY <1>10, <1>11 DEF Effect

LEMMA TickEffect ==
    ASSUME GameTypeOK, Tick
    PROVE  GameTypeOK' /\ Effect
<1>1. AllSent /\ AdvanceTime(1) /\ UNCHANGED <<state, players, player, snapshot, joining>>
  BY DEF Tick, Idle, playVars
<1>2. /\ WorldTypeOK' /\ UNCHANGED blocks /\ worldAge' \in Clock
      /\ worldAge' = Int64(worldAge + 1)
  BY <1>1, ClockTypes DEF AdvanceTime
<1>3. PICK age \in Clock : age = worldAge'
  BY <1>2
<1>4. CASE age % Rate = 0
  <2>1. PICK q \in Seq(Packet) : q = <<SetTime(age)>> /\ Range(q) = {SetTime(age)}
    BY PacketTypes, FewPackets
  <2>2. Sends(BroadcastTo(Sessions, q))
    BY <1>3, <1>4, <2>1 DEF Tick
  <2>3. /\ UNCHANGED <<queued, view, replay>> /\ outgoing' \in [Sessions -> Seq(Packet)]
        /\ \A o \in Sessions :
              Pending(o)' = IF o \in Sessions \cap Present THEN Range(q) ELSE {}
    BY <2>2, SomeAreTold
  <2>4. ASSUME NEW o \in Sessions
        PROVE  Tells(o, IF o \in Present THEN {SetTime(worldAge')} ELSE {})
    BY <1>3, <2>1, <2>3 DEF Tells
  <2>5. TellsTime
    BY <1>1, <1>2, <2>3, <2>4 DEF TellsTime, Handling
  <2>6. GameTypeOK'
    BY <1>1, <1>2, <2>3, TypesKept DEF GameTypeOK
  <2>7. QED
    BY <2>5, <2>6 DEF Effect
<1>5. CASE age % Rate # 0
  <2>1. PICK q \in Seq(Packet) : q = <<>> /\ Range(q) = {}
    BY FewPackets
  <2>2. Sends(BroadcastTo(Sessions, q))
    BY <1>3, <1>5, <2>1 DEF Tick
  <2>3. /\ UNCHANGED <<queued, view, replay>> /\ outgoing' \in [Sessions -> Seq(Packet)]
        /\ \A o \in Sessions :
              Pending(o)' = IF o \in Sessions \cap Present THEN Range(q) ELSE {}
    BY <2>2, SomeAreTold
  <2>4. \A o \in Sessions : Tells(o, {})
    BY <2>1, <2>3 DEF Tells
  <2>5. Ages
    BY <1>1, <1>2, <1>3, <1>5, <2>3, <2>4 DEF Ages, Handling
  <2>6. GameTypeOK'
    BY <1>1, <1>2, <2>3, TypesKept DEF GameTypeOK
  <2>7. QED
    BY <2>5, <2>6 DEF Effect
<1>6. QED
  BY <1>4, <1>5

\* What only takes room.
LEMMA TalkEffect ==
    ASSUME GameTypeOK, NEW s \in Sessions, Chat(s) \/ Swing(s) \/ Answer(s)
    PROVE  GameTypeOK' /\ Effect
<1>1. /\ Event(s) /\ UNCHANGED <<worldVars, player, snapshot>>
      /\ \/ \E receivers \in {Sessions, Others(s)} : Sends(BroadcastTo(receivers, <<Note>>))
         \/ \E n \in Nat : Sends(To(s, Notes(n)))
  BY GameplayAssumption DEF Chat, Swing, Answer, Talk
<1>2. /\ UNCHANGED <<queued, view, replay>> /\ outgoing' \in [Sessions -> Seq(Packet)]
      /\ \A o \in Sessions : Pending(o)' \subseteq {Note}
  <2>1. CASE \E receivers \in {Sessions, Others(s)} : Sends(BroadcastTo(receivers, <<Note>>))
    <3>1. PICK q \in Seq(Packet) : q = <<Note>> /\ Range(q) = {Note}
      BY PacketTypes, FewPackets
    <3>2. PICK receivers : Sends(BroadcastTo(receivers, q))
      BY <2>1, <3>1
    <3>3. /\ UNCHANGED <<queued, view, replay>> /\ outgoing' \in [Sessions -> Seq(Packet)]
          /\ \A o \in Sessions :
                Pending(o)' = IF o \in receivers \cap Present THEN Range(q) ELSE {}
      BY <3>2, SomeAreTold
    <3>4. QED
      BY <3>1, <3>3
  <2>2. CASE \E n \in Nat : Sends(To(s, Notes(n)))
    <3>1. PICK q \in Seq(Packet) : Sends(To(s, q)) /\ Range(q) \subseteq {Note}
      BY <2>2, OnlyNotes
    <3>2. state[s] # "Closed"
      BY <1>1 DEF Event, InPlay
    <3>3. QED
      BY <3>1, <3>2, OneIsTold
  <2>3. QED
    BY <1>1, <2>1, <2>2
<1>3. AllSent /\ UNCHANGED <<state, players, joining>>
  BY <1>1 DEF Event, Idle
<1>4. Talks
  BY <1>1, <1>2, <1>3 DEF Talks, Handling, Tells, worldVars
<1>5. GameTypeOK'
  BY <1>1, <1>2, <1>3, WorldKept, TypesKept DEF GameTypeOK
<1>6. QED
  BY <1>4, <1>5 DEF Effect

LEMMA HandlerEffect ==
    ASSUME GameTypeOK, NEW s \in Sessions, Handle(s)
    PROVE  GameTypeOK' /\ Effect
<1>1. CASE PlayerAction(s)
  <2>1. PICK c \in WirePositions : Event(s) /\ ChangeBlock(s, c, Air)
    BY <1>1 DEF PlayerAction
  <2>2. c \in WorldPositions /\ Air \in BlockKinds
    BY WorldAssumption DEF WirePositions, WorldPositions, BlockKinds
  <2>3. QED
    BY <2>1, <2>2, BlockEffect
<1>2. CASE UseItemOn(s)
  <2>1. PICK c \in WirePositions, side \in {-1, 1} :
            Event(s) /\ ChangeBlock(s, c + side, Bricks)
    BY <1>2 DEF UseItemOn
  <2>2. PICK d \in WorldPositions : d = c + side
    BY WorldAssumption DEF WirePositions, WorldPositions
  <2>3. Bricks \in BlockKinds /\ ChangeBlock(s, d, Bricks)
    BY <2>1, <2>2 DEF BlockKinds
  <2>4. QED
    BY <2>1, <2>3, BlockEffect
<1>3. CASE PlayerMove(s)
  <2>1. player[s].place \in Places /\ Spawn \in Places
    BY GameplayAssumption DEF GameTypeOK, Fields
  <2>2. QED
    BY <1>3, <2>1, MoveEffect DEF PlayerMove
<1>4. CASE CmdTeleport(s)
  <2>1. \A o \in Present : player[o].place \in Places
    BY PresentOnes DEF GameTypeOK, Fields
  <2>2. QED
    BY <1>4, <2>1, MoveEffect DEF CmdTeleport
<1>5. QED
  BY <1>1, <1>2, <1>3, <1>4, ModeEffect, TimeEffect, TalkEffect DEF Handle


(***************************************************************************)
(* Joining and leaving.                                                    *)
(***************************************************************************)
LEMMA SequenceOfSet ==
    ASSUME NEW S, IsFiniteSet(S)
    PROVE  SetToSeq(S) \in Seq(S) /\ Range(SetToSeq(S)) = S
<1> DEFINE n == Cardinality(S)
<1>1. n \in Nat /\ ExistsBijection(1..n, S)
  BY FS_CardinalityType
<1>2. PICK f \in [1..n -> S] : IsInjective(f)
  BY <1>1 DEF ExistsBijection, Bijection, Injection
<1>3. SetToSeq(S) \in [1..n -> S] /\ IsInjective(SetToSeq(S))
  BY <1>2 DEF SetToSeq
<1>4. PICK g \in Injection(1..n, S) : g = SetToSeq(S)
  BY <1>3 DEF Injection
<1>5. Cardinality(1..n) = n
  BY <1>1, FS_Interval
<1>6. g \in Surjection(1..n, S)
  BY <1>4, <1>5, FS_Injection
<1>7. Range(g) = S
  BY <1>6 DEF Surjection, Range
<1>8. QED
  BY <1>1, <1>3, <1>4, <1>7

LEMMA AllAppearances ==
    ASSUME GameTypeOK, NEW q \in Seq(Sessions)
    PROVE  /\ Appearances(q) \in Seq(Packet)
           /\ Range(Appearances(q)) \subseteq
                 {AddEntity(o, player[o].place) : o \in Range(q)} \cup {Note}
           /\ {AddEntity(o, player[o].place) : o \in Range(q)} \subseteq Range(Appearances(q))
<1> DEFINE n == 2 * Len(q)
<1> DEFINE who(i) == q[(i + 1) \div 2]
<1>1. n \in Nat /\ DOMAIN q = 1..Len(q) /\ Len(q) \in Nat
  OBVIOUS
<1>2. Appearances(q) = [i \in 1..n |-> Appearance(who(i))[2 - (i % 2)]]
  BY DEF Appearances
<1>3. ASSUME NEW i \in 1..n
      PROVE  /\ (i + 1) \div 2 \in DOMAIN q /\ who(i) \in Range(q) /\ who(i) \in Sessions
             /\ Appearances(q)[i] = IF i % 2 = 1 THEN Note
                                    ELSE AddEntity(who(i), player[who(i)].place)
  <2>1. (i + 1) \div 2 \in DOMAIN q
    BY <1>1
  <2>2. i % 2 \in {0, 1}
    BY <1>1
  <2>3. QED
    BY <1>2, <2>1, <2>2 DEF Appearance, Range
<1>4. ASSUME NEW i \in 1..n
      PROVE  /\ Appearances(q)[i] \in Packet
             /\ Appearances(q)[i] \in {AddEntity(o, player[o].place) : o \in Range(q)} \cup {Note}
  <2>1. player[who(i)].place \in Places
    BY <1>3 DEF GameTypeOK, Fields
  <2>2. QED
    BY <1>3, <2>1, PacketTypes
<1>5. Appearances(q) \in Seq(Packet) /\ DOMAIN Appearances(q) = 1..n
  BY <1>1, <1>2, <1>4
<1>6. ASSUME NEW o \in Range(q) PROVE AddEntity(o, player[o].place) \in Range(Appearances(q))
  <2>1. PICK j \in DOMAIN q : o = q[j]
    BY DEF Range
  <2>2. PICK i \in 1..n : i = 2 * j
    BY <1>1
  <2>3. (i + 1) \div 2 = j /\ i % 2 = 0
    BY <1>1, <2>2
  <2>4. Appearances(q)[i] = AddEntity(o, player[o].place)
    BY <1>3, <2>1, <2>3
  <2>5. QED
    BY <1>5, <2>4 DEF Range
<1>7. QED
  BY <1>4, <1>5, <1>6 DEF Range

LEMMA EnterEffect ==
    ASSUME GameTypeOK, NEW s \in Sessions, EnterPlay(s)
    PROVE  GameTypeOK' /\ Effect
<1>1. /\ AllSent /\ state[s] = "PlayPending" /\ state' = [state EXCEPT ![s] = "Play"]
      /\ SetPlayer(s, [place |-> Spawn, mode |-> DefaultMode])
      /\ Sends(To(s, <<GameMode(DefaultMode)>> \o Notes(1 + JoinPackets)))
      /\ joining' = s /\ UNCHANGED <<worldVars, players>>
  BY DEF EnterPlay, Idle
<1>2. PICK fields \in Fields : fields = [place |-> Spawn, mode |-> DefaultMode]
  BY GameplayAssumption DEF Fields
<1>3. /\ player' = [player EXCEPT ![s] = fields]
      /\ player' \in [Sessions -> Fields] /\ snapshot' = player'
  BY <1>1, <1>2, SetterTypes
<1>4. PICK first \in Seq(Packet) :
          first = <<GameMode(DefaultMode)>> /\ Range(first) = {GameMode(DefaultMode)}
  BY GameplayAssumption, PacketTypes, FewPackets
<1>5. PICK rest \in Seq(Packet) : rest = Notes(1 + JoinPackets) /\ Range(rest) \subseteq {Note}
  <2>1. PICK n \in Nat : n = 1 + JoinPackets
    BY GameplayAssumption
  <2>2. QED
    BY <2>1, OnlyNotes
<1>6. PICK q \in Seq(Packet) : q = first \o rest /\ Range(q) = Range(first) \cup Range(rest)
  BY OneAfterTheOther
<1>7. Sends(To(s, q)) /\ state[s] # "Closed"
  BY <1>1, <1>4, <1>5, <1>6
<1>8. /\ UNCHANGED <<queued, view, replay>> /\ outgoing' \in [Sessions -> Seq(Packet)]
      /\ \A o \in Sessions : Pending(o)' = IF o = s THEN Range(q) ELSE {}
  BY <1>7, OneIsTold
<1>9. \A o \in Sessions : Tells(o, IF o = s THEN {GameMode(DefaultMode)} ELSE {})
  BY <1>4, <1>5, <1>6, <1>8 DEF Tells
<1>10. Enters(s)
  <2>1. player' = [player EXCEPT ![s] = [place |-> Spawn, mode |-> DefaultMode]]
    BY <1>2, <1>3
  <2>2. Handling /\ UNCHANGED <<worldVars, players, replay>>
    BY <1>1, <1>8 DEF Handling
  <2>3. QED
    BY <1>1, <1>9, <2>1, <2>2 DEF Enters
<1>11. GameTypeOK'
  <2>1. WorldTypeOK' /\ UNCHANGED blocks
    BY <1>1, WorldKept DEF worldVars
  <2>2. state' \in [Sessions -> {"PlayPending", "Play", "Closed"}]
    BY <1>1 DEF GameTypeOK
  <2>3. QED
    BY <1>1, <1>3, <1>8, <2>1, <2>2 DEF GameTypeOK
<1>12. QED
  BY <1>10, <1>11 DEF Effect

LEMMA AddEffect ==
    ASSUME GameTypeOK, NEW s \in Sessions, AddPlayer(s)
    PROVE  GameTypeOK' /\ Effect
<1>1. /\ AllSent /\ state[s] = "Play" /\ s \notin players
      /\ players' = players \cup {s}
      /\ outgoing' = Then(BroadcastTo(Others(s), Appearance(s)),
                          To(s, Appearances(SetToSeq(Present))
                                    \o <<Note, SetTime(worldAge)>>))
      /\ replay' = [replay EXCEPT ![s] = DOMAIN blocks]
      /\ UNCHANGED <<worldVars, state, player, snapshot, queued, view, joining>>
  BY DEF AddPlayer
<1>2. PICK mine \in Packet : mine = AddEntity(s, player[s].place)
  <2>1. player[s].place \in Places
    BY DEF GameTypeOK, Fields
  <2>2. QED
    BY <2>1, PacketTypes
<1>3. PICK hello \in Seq(Packet) : hello = Appearance(s) /\ Range(hello) = {Note, mine}
  BY <1>2, PacketTypes, FewPackets DEF Appearance
<1>4. PICK q \in Seq(Sessions) : q = SetToSeq(Present) /\ Range(q) = Present
  <2>1. IsFiniteSet(Present) /\ Present \subseteq Sessions
    BY PresentOnes, FS_Subset DEF GameTypeOK
  <2>2. SetToSeq(Present) \in Seq(Present) /\ Range(SetToSeq(Present)) = Present
    BY <2>1, SequenceOfSet
  <2>3. QED
    BY <2>1, <2>2
<1>5. PICK those \in Seq(Packet) :
          /\ those = Appearances(q)
          /\ Range(those) \subseteq {AddEntity(o, player[o].place) : o \in Present} \cup {Note}
          /\ {AddEntity(o, player[o].place) : o \in Present} \subseteq Range(those)
  BY <1>4, AllAppearances
<1>6. PICK last \in Seq(Packet) :
          last = <<Note, SetTime(worldAge)>> /\ Range(last) = {Note, SetTime(worldAge)}
  <2>1. worldAge \in Clock
    BY DEF GameTypeOK, WorldTypeOK, Clock
  <2>2. QED
    BY <2>1, PacketTypes, FewPackets
<1>7. PICK own \in Seq(Packet) : own = those \o last /\ Range(own) = Range(those) \cup Range(last)
  BY OneAfterTheOther
<1>8. PICK a \in [Sessions -> Seq(Packet)] :
          /\ a = BroadcastTo(Others(s), hello)
          /\ \A o \in Sessions :
                Range(a[o]) = IF o \in Others(s) \cap Present THEN Range(hello) ELSE {}
  BY ToSome
<1>9. PICK b \in [Sessions -> Seq(Packet)] :
          /\ b = To(s, own)
          /\ \A o \in Sessions : Range(b[o]) = IF o = s THEN Range(own) ELSE {}
  <2>1. /\ To(s, own) \in [Sessions -> Seq(Packet)]
        /\ \A o \in Sessions : Range(To(s, own)[o]) = IF o = s THEN Range(own) ELSE {}
    BY ToOne
  <2>2. QED
    BY <2>1
<1>10. outgoing' = Then(a, b)
  BY <1>1, <1>3, <1>4, <1>5, <1>6, <1>7, <1>8, <1>9
<1>11. /\ Then(a, b) \in [Sessions -> Seq(Packet)]
       /\ \A o \in Sessions : Range(Then(a, b)[o]) = Range(a[o]) \cup Range(b[o])
  BY ToBoth
<1>12. \A o \in Sessions : Pending(o)' = Range(a[o]) \cup Range(b[o])
  BY <1>10, <1>11 DEF Pending
<1>13. ASSUME NEW o \in Sessions
       PROVE  Tells(o, IF o \in Present THEN {AddEntity(s, player[s].place)}
                       ELSE IF o = s
                       THEN {SetTime(worldAge)} \cup {AddEntity(p, player[p].place) : p \in Present}
                       ELSE {})
  <2>1. s \notin Present
    BY <1>1, PresentOnes
  <2>2. CASE o \in Present
    <3>1. o # s /\ o \in Others(s)
      BY <2>1, <2>2 DEF Others
    <3>2. Pending(o)' = {Note, mine}
      BY <1>3, <1>8, <1>9, <1>12, <2>2, <3>1
    <3>3. QED
      BY <1>2, <2>2, <3>2 DEF Tells
  <2>3. CASE o = s
    <3>1. Pending(o)' = Range(those) \cup {Note, SetTime(worldAge)}
      BY <1>6, <1>7, <1>8, <1>9, <1>12, <2>1, <2>3
    <3>2. QED
      BY <1>5, <2>1, <2>3, <3>1 DEF Tells
  <2>4. CASE o \notin Present /\ o # s
    <3>1. Pending(o)' = {}
      BY <1>8, <1>9, <1>12, <2>4
    <3>2. QED
      BY <2>4, <3>1 DEF Tells
  <2>5. QED
    BY <2>2, <2>3, <2>4
<1>14. Joins(s)
  BY <1>1, <1>13 DEF Joins, Handling
<1>15. GameTypeOK'
  <2>1. WorldTypeOK' /\ UNCHANGED blocks
    BY <1>1, WorldKept DEF worldVars
  <2>2. players' \subseteq Sessions /\ IsFiniteSet(players')
    BY <1>1, FS_AddElement DEF GameTypeOK
  <2>3. outgoing' \in [Sessions -> Seq(Packet)] /\ replay' \in [Sessions -> SUBSET DOMAIN blocks]
    BY <1>1, <1>10, <1>11 DEF GameTypeOK
  <2>4. QED
    BY <1>1, <2>1, <2>2, <2>3 DEF GameTypeOK
<1>16. QED
  BY <1>14, <1>15 DEF Effect

LEMMA WelcomeEffect ==
    ASSUME GameTypeOK, NEW s \in Sessions, Welcome(s)
    PROVE  GameTypeOK' /\ Effect
<1>1. /\ AllSent /\ joining' = NoSession
      /\ Sends(Then(To(s, Notes(2)), BroadcastTo(Others(s), <<Note>>)))
      /\ UNCHANGED <<worldVars, state, players, player, snapshot>>
  BY DEF Welcome, playVars
<1>2. PICK own \in Seq(Packet) : own = Notes(2) /\ Range(own) \subseteq {Note}
  BY OnlyNotes
<1>3. PICK q \in Seq(Packet) : q = <<Note>> /\ Range(q) = {Note}
  BY PacketTypes, FewPackets
<1>4. Sends(Then(To(s, own), BroadcastTo(Others(s), q)))
  BY <1>1, <1>2, <1>3
<1>5. /\ UNCHANGED <<queued, view, replay>> /\ outgoing' \in [Sessions -> Seq(Packet)]
      /\ \A o \in Sessions :
            Tells(o, IF o \in Others(s) \cap Present THEN Range(q) ELSE {})
  BY <1>2, <1>4, AllAreTold
<1>6. \A o \in Sessions : Tells(o, {})
  BY <1>3, <1>5 DEF Tells
<1>7. Talks
  BY <1>1, <1>5, <1>6 DEF Talks, Handling, worldVars
<1>8. WorldTypeOK' /\ UNCHANGED blocks
  BY <1>1, WorldKept DEF worldVars
<1>9. GameTypeOK'
  BY <1>1, <1>5, <1>8 DEF GameTypeOK
<1>10. QED
  BY <1>7, <1>9 DEF Effect

LEMMA RemoveEffect ==
    ASSUME GameTypeOK, NEW s \in Sessions, RemovePlayer(s)
    PROVE  GameTypeOK' /\ Effect
<1>1. /\ AllSent /\ state[s] = "Closed" /\ players' = players \ {s}
      /\ Sends(BroadcastTo(Others(s), <<RemoveEntities(s), Note, Note>>))
      /\ UNCHANGED <<worldVars, state, player, snapshot, joining>>
  BY DEF RemovePlayer, Idle
<1>2. PICK q \in Seq(Packet) : /\ q = <<RemoveEntities(s), Note, Note>>
                               /\ Range(q) = {RemoveEntities(s), Note}
  <2>1. RemoveEntities(s) \in Packet /\ Note \in Packet
    BY PacketTypes
  <2>2. /\ <<RemoveEntities(s), Note, Note>> \in Seq(Packet)
        /\ Range(<<RemoveEntities(s), Note, Note>>) = {RemoveEntities(s), Note, Note}
    BY <2>1, FewPackets
  <2>3. QED
    BY <2>2
<1>3. Sends(BroadcastTo(Others(s), q))
  BY <1>1, <1>2
<1>4. /\ UNCHANGED <<queued, view, replay>> /\ outgoing' \in [Sessions -> Seq(Packet)]
      /\ \A o \in Sessions :
            Pending(o)' = IF o \in Others(s) \cap Present THEN Range(q) ELSE {}
  BY <1>3, SomeAreTold
<1>5. \A o \in Present : o \in Others(s)
  BY <1>1, PresentOnes DEF Others
<1>6. \A o \in Sessions : Tells(o, IF o \in Present THEN {RemoveEntities(s)} ELSE {})
  BY <1>2, <1>4, <1>5 DEF Tells
<1>7. Leaves(s)
  BY <1>1, <1>4, <1>6 DEF Leaves, Handling
<1>8. WorldTypeOK' /\ UNCHANGED blocks
  BY <1>1, WorldKept DEF worldVars
<1>9. players' \subseteq Sessions /\ IsFiniteSet(players')
  BY <1>1, FS_RemoveElement DEF GameTypeOK
<1>10. GameTypeOK'
  BY <1>1, <1>4, <1>8, <1>9 DEF GameTypeOK
<1>11. QED
  BY <1>7, <1>10 DEF Effect

(***************************************************************************)
(* SendPacket, the writer, and Close.                                      *)
(***************************************************************************)
LEMMA NoView == EmptyView \in View
  BY WorldAssumption, GameplayAssumption DEF EmptyView, View, Clock

LEMMA CloseEffect ==
    ASSUME GameTypeOK, NEW s \in Sessions, Closed(s),
           UNCHANGED <<worldVars, players, player, snapshot, joining>>
    PROVE  GameTypeOK' /\ Effect
<1>1. Closes(s)
  BY DEF Closes
<1>2. WorldTypeOK' /\ UNCHANGED blocks
  BY WorldKept DEF worldVars
<1>3. /\ state' \in [Sessions -> {"PlayPending", "Play", "Closed"}]
      /\ queued' \in [Sessions -> 0..OutboundCapacity]
      /\ replay' \in [Sessions -> SUBSET DOMAIN blocks]
  BY GameplayAssumption DEF Closed, GameTypeOK
<1>4. view' \in [Sessions -> View]
  BY NoView DEF Closed, GameTypeOK
<1>5. outgoing' \in [Sessions -> Seq(Packet)]
  BY FewPackets DEF Closed, GameTypeOK
<1>6. GameTypeOK'
  BY <1>2, <1>3, <1>4, <1>5 DEF GameTypeOK
<1>7. QED
  BY <1>1, <1>6 DEF Effect

LEMMA BlockTypes ==
    ASSUME GameTypeOK
    PROVE  \A c \in DOMAIN blocks : c \in Int /\ blocks[c] \in BlockKinds
<1>1. WorldPositions \subseteq Int
  BY WorldAssumption DEF WorldPositions
<1>2. QED
  BY <1>1, WorldAssumption DEF GameTypeOK, WorldTypeOK, BlockKinds

\* What is accepted, from wherever it comes, is of the right type.
LEMMA AcceptTypes ==
    ASSUME GameTypeOK, NEW s \in Sessions, NEW p \in Packet, Accept(s, p),
           UNCHANGED <<worldVars, players, player, snapshot, joining>>,
           outgoing' \in [Sessions -> Seq(Packet)],
           replay' \in [Sessions -> SUBSET DOMAIN blocks]
    PROVE  GameTypeOK' /\ view' = [view EXCEPT ![s] = Deliver(view[s], p)]
<1>1. view[s] \in View
  BY DEF GameTypeOK
<1>2. Deliver(view[s], p) \in View
  BY <1>1, Delivered
<1>3. view' = [view EXCEPT ![s] = Deliver(view[s], p)]
  BY DEF Accept, GameTypeOK
<1>4. view' \in [Sessions -> View]
  BY <1>2, <1>3 DEF GameTypeOK
<1>5. queued' \in [Sessions -> 0..OutboundCapacity]
  BY GameplayAssumption DEF Accept, GameTypeOK
<1>6. WorldTypeOK' /\ UNCHANGED blocks
  BY WorldKept DEF worldVars
<1>7. GameTypeOK'
  BY <1>4, <1>5, <1>6 DEF GameTypeOK, Accept
<1>8. QED
  BY <1>3, <1>7

LEMMA SendEffect ==
    ASSUME GameTypeOK, TruthInv, NEW s \in Sessions, SendNext(s)
    PROVE  GameTypeOK' /\ Effect
<1>1. UNCHANGED <<worldVars, players, player, snapshot, joining>>
  BY DEF SendNext
<1>2. CASE Overflow(s)
  BY <1>1, <1>2, CloseEffect DEF Overflow
<1>3. CASE /\ outgoing[s] # <<>> /\ Accept(s, Head(outgoing[s]))
           /\ outgoing' = [outgoing EXCEPT ![s] = Tail(@)] /\ UNCHANGED replay
  <2>1. PICK q \in Seq(Packet) : q = outgoing[s] /\ q # <<>>
    BY <1>3 DEF GameTypeOK
  <2>2. /\ Head(q) \in Packet /\ Tail(q) \in Seq(Packet)
        /\ Range(q) = {Head(q)} \cup Range(Tail(q))
    BY <2>1, FirstAndRest
  <2>3. PICK p \in Packet : p = Head(q)
    BY <2>2
  <2>4. Accept(s, p) /\ outgoing' = [outgoing EXCEPT ![s] = Tail(q)]
    BY <1>3, <2>1, <2>3
  <2>5. /\ outgoing' \in [Sessions -> Seq(Packet)]
        /\ replay' \in [Sessions -> SUBSET DOMAIN blocks]
    BY <1>3, <2>2, <2>4 DEF GameTypeOK
  <2>6. GameTypeOK' /\ view' = [view EXCEPT ![s] = Deliver(view[s], p)]
    BY <1>1, <2>4, <2>5, AcceptTypes
  <2>7. Pending(s) = {p} \cup Pending(s)'
    BY <2>1, <2>2, <2>3, <2>4 DEF Pending, GameTypeOK
  <2>8. Truthful(s, p)
    BY <2>7 DEF TruthInv
  <2>9. \A o \in Others(s) : replay'[o] = replay[o] /\ outgoing'[o] = outgoing[o]
    BY <1>3, <2>4 DEF GameTypeOK, Others
  <2>10. Delivers(s, p)
    BY <1>1, <1>3, <2>4, <2>6, <2>7, <2>8, <2>9 DEF Delivers, Accept
  <2>11. QED
    BY <2>6, <2>10 DEF Effect
<1>4. ASSUME NEW c \in replay[s], Accept(s, BlockUpdate(c, blocks[c])),
             replay' = [replay EXCEPT ![s] = @ \ {c}], UNCHANGED outgoing
      PROVE  GameTypeOK' /\ Effect
  <2>1. c \in DOMAIN blocks /\ c \in Int /\ blocks[c] \in BlockKinds
    <3>1. c \in DOMAIN blocks
      BY DEF GameTypeOK
    <3>2. QED
      BY <3>1, BlockTypes
  <2>2. PICK p \in Packet : p = BlockUpdate(c, blocks[c])
    BY <2>1, PacketTypes
  <2>3. Accept(s, p)
    BY <1>4, <2>2
  <2>4. /\ outgoing' \in [Sessions -> Seq(Packet)]
        /\ replay' \in [Sessions -> SUBSET DOMAIN blocks]
    BY <1>4 DEF GameTypeOK
  <2>5. GameTypeOK' /\ view' = [view EXCEPT ![s] = Deliver(view[s], p)]
    BY <1>1, <2>3, <2>4, AcceptTypes
  <2>6. Truthful(s, p)
    BY <2>1, <2>2 DEF Truthful
  <2>7. /\ replay'[s] = replay[s] \ {c}
        /\ \A o \in Others(s) : replay'[o] = replay[o] /\ outgoing'[o] = outgoing[o]
    BY <1>4 DEF GameTypeOK, Others
  <2>8. Pending(s)' = Pending(s)
    BY <1>4 DEF Pending
  <2>9. Delivers(s, p)
    BY <1>1, <1>4, <2>2, <2>3, <2>5, <2>6, <2>7, <2>8 DEF Delivers, Accept
  <2>10. QED
    BY <2>5, <2>9 DEF Effect
<1>5. QED
  BY <1>2, <1>3, <1>4 DEF SendNext

LEMMA ElsewhereEffect ==
    ASSUME GameTypeOK, NEW s \in Sessions, SendFromElsewhere(s)
    PROVE  GameTypeOK' /\ Effect
<1>1. UNCHANGED <<worldVars, players, player, snapshot, joining>>
  BY DEF SendFromElsewhere
<1>2. CASE Overflow(s)
  BY <1>1, <1>2, CloseEffect DEF Overflow
<1>3. CASE Accept(s, Note) /\ UNCHANGED <<outgoing, replay>>
  <2>1. PICK p \in Packet : p = Note
    BY PacketTypes
  <2>2. Accept(s, p)
    BY <1>3, <2>1
  <2>3. GameTypeOK' /\ view' = [view EXCEPT ![s] = Deliver(view[s], p)]
    BY <1>1, <1>3, <2>2, AcceptTypes DEF GameTypeOK
  <2>4. Truthful(s, p) /\ Pending(s)' = Pending(s)
    BY <1>3, <2>1 DEF Truthful, Pending
  <2>5. Delivers(s, p)
    BY <1>1, <1>3, <2>1, <2>2, <2>3, <2>4 DEF Delivers, Accept
  <2>6. QED
    BY <2>3, <2>5 DEF Effect
<1>4. QED
  BY <1>2, <1>3 DEF SendFromElsewhere

LEMMA RestEffect ==
    ASSUME GameTypeOK,
           \/ UNCHANGED vars
           \/ \E s \in Sessions : WriteOne(s) \/ EnterFails(s)
    PROVE  GameTypeOK' /\ Effect
<1>1. /\ UNCHANGED <<blocks, worldAge, timeOfDay, state, players, player, snapshot>>
      /\ UNCHANGED <<view, outgoing, replay>>
      /\ joining' \in {joining, NoSession}
      /\ queued' \in [Sessions -> 0..OutboundCapacity]
  <2>1. CASE UNCHANGED vars
    BY <2>1 DEF vars, worldVars, playVars, sendVars, GameTypeOK
  <2>2. ASSUME NEW s \in Sessions, WriteOne(s) PROVE queued' \in [Sessions -> 0..OutboundCapacity]
    BY <2>2, GameplayAssumption DEF WriteOne, GameTypeOK
  <2>3. CASE \E s \in Sessions : WriteOne(s)
    BY <2>2, <2>3 DEF WriteOne, worldVars, playVars
  <2>4. CASE \E s \in Sessions : EnterFails(s)
    BY <2>4 DEF EnterFails, worldVars, playVars, sendVars, GameTypeOK
  <2>5. QED
    BY <2>1, <2>3, <2>4
<1>2. Rests
  BY <1>1 DEF Rests, worldVars, playVars
<1>3. WorldTypeOK'
  BY <1>1, WorldKept DEF worldVars
<1>4. GameTypeOK'
  BY <1>1, <1>3 DEF GameTypeOK
<1>5. QED
  BY <1>2, <1>4 DEF Effect

LEMMA StepEffect ==
    ASSUME GameTypeOK, TruthInv, [Next]_vars
    PROVE  GameTypeOK' /\ Effect
<1>1. ASSUME NEW s \in Sessions, Close(s) PROVE GameTypeOK' /\ Effect
  BY <1>1, CloseEffect DEF Close
<1>2. ASSUME NEW s \in Sessions,
             \/ EnterPlay(s) \/ AddPlayer(s) \/ Welcome(s) \/ RemovePlayer(s)
      PROVE  GameTypeOK' /\ Effect
  BY <1>2, EnterEffect, AddEffect, WelcomeEffect, RemoveEffect
<1>3. ASSUME NEW s \in Sessions,
             SendNext(s) \/ SendFromElsewhere(s) \/ Handle(s)
      PROVE  GameTypeOK' /\ Effect
  BY <1>3, SendEffect, ElsewhereEffect, HandlerEffect
<1>4. CASE Tick
  BY <1>4, TickEffect
<1>5. CASE UNCHANGED vars \/ \E s \in Sessions : WriteOne(s) \/ EnterFails(s)
  BY <1>5, RestEffect
<1>6. QED
  BY <1>1, <1>2, <1>3, <1>4, <1>5 DEF Next

-----------------------------------------------------------------------------
(***************************************************************************)
(* What the effects preserve.                                              *)
(***************************************************************************)
LEMMA AllTold ==
    ASSUME GameInv, AllSent
    PROVE  /\ \A s \in Sessions : Pending(s) = {} /\ replay[s] = {}
           /\ \A s \in Present : /\ \A c \in WirePositions : BlockRight(s, c)
                                 /\ \A o \in Others(s) : EntityRight(s, o)
                                 /\ ClockRight(s)
           /\ \A s \in Sessions : state[s] = "Play" => ModeRight(s)
<1>1. \A s \in Sessions : Pending(s) = {} /\ replay[s] = {}
  BY FewPackets DEF AllSent, Pending
<1>2. ASSUME NEW s \in Sessions PROVE \A kinds : PendingOf(s, kinds) = {}
  BY <1>1 DEF PendingOf
<1>3. ASSUME NEW s \in Sessions, NEW o
      PROVE  \A kinds : PendingAbout(s, o, kinds) = {}
  BY <1>2 DEF PendingAbout
<1>4. Present \subseteq Sessions
  BY PresentOnes DEF GameInv
<1>5. ASSUME NEW s \in Present, NEW c \in WirePositions PROVE BlockRight(s, c)
  BY <1>1, <1>2, <1>4 DEF GameInv, BlocksInv, BlockKnown
<1>6. ASSUME NEW s \in Present, NEW o \in Others(s) PROVE EntityRight(s, o)
  BY <1>3, <1>4 DEF GameInv, EntitiesInv, EntityKnown, EntityRight
<1>7. ASSUME NEW s \in Present PROVE ClockRight(s)
  BY <1>2, <1>4 DEF GameInv, ClockInv, ClockKnown
<1>8. ASSUME NEW s \in Sessions, state[s] = "Play" PROVE ModeRight(s)
  BY <1>2, <1>8 DEF GameInv, ModeInv, ModeKnown
<1>9. QED
  BY <1>1, <1>5, <1>6, <1>7, <1>8

LEMMA PresentKept ==
    ASSUME UNCHANGED <<state, players>>
    PROVE  Present' = Present /\ \A o : InPlay(o)' = InPlay(o)
  BY DEF Present, InPlay

\* The view a packet makes.
LEMMA AfterDelivery ==
    ASSUME GameTypeOK, NEW s \in Sessions, NEW p \in Packet, Delivers(s, p)
    PROVE  /\ \A o \in Others(s) : /\ view'[o] = view[o] /\ replay'[o] = replay[o]
                                   /\ Pending(o)' = Pending(o)
           /\ Pending(s)' \subseteq Pending(s) /\ Pending(s) \subseteq Pending(s)' \cup {p}
           /\ view'[s].blocks = IF p.kind = "BlockUpdate"
                                THEN [view[s].blocks EXCEPT ![p.at] = p.block]
                                ELSE view[s].blocks
           /\ view'[s].entities =
                 IF p.kind = "Entity" \/ (p.kind = "Move" /\ view[s].entities[p.of] # Nowhere)
                 THEN [view[s].entities EXCEPT ![p.of] = p.place]
                 ELSE IF p.kind = "Remove" THEN [view[s].entities EXCEPT ![p.of] = Nowhere]
                 ELSE view[s].entities
           /\ view'[s].mode = IF p.kind = "GameMode" THEN p.mode ELSE view[s].mode
           /\ view'[s].age = IF p.kind = "SetTime" THEN p.age ELSE view[s].age
<1>1. \A o \in Others(s) : /\ view'[o] = view[o] /\ replay'[o] = replay[o]
                           /\ Pending(o)' = Pending(o)
  BY DEF Delivers, Others, GameTypeOK, Pending
<1>2. PICK v \in View : v = view[s]
  BY DEF GameTypeOK
<1>3. view'[s] = Deliver(v, p)
  BY <1>2 DEF Delivers, GameTypeOK
<1>4. /\ Deliver(v, p).blocks = IF p.kind = "BlockUpdate"
                                THEN [v.blocks EXCEPT ![p.at] = p.block]
                                ELSE v.blocks
      /\ Deliver(v, p).entities =
            IF p.kind = "Entity" \/ (p.kind = "Move" /\ v.entities[p.of] # Nowhere)
            THEN [v.entities EXCEPT ![p.of] = p.place]
            ELSE IF p.kind = "Remove" THEN [v.entities EXCEPT ![p.of] = Nowhere]
            ELSE v.entities
      /\ Deliver(v, p).mode = IF p.kind = "GameMode" THEN p.mode ELSE v.mode
      /\ Deliver(v, p).age = IF p.kind = "SetTime" THEN p.age ELSE v.age
  BY Delivered
<1>5. QED
  BY <1>1, <1>2, <1>3, <1>4 DEF Delivers

LEMMA StillTrue ==
    ASSUME UNCHANGED <<blocks, worldAge, players, player>>, NEW s, NEW p, Truthful(s, p)
    PROVE  Truthful(s, p)'
  BY DEF Truthful, BlockUpdate, SetTime, GameMode, AddEntity, EntityPositionSync,
         RemoveEntities, Note

LEMMA TruthStep ==
    ASSUME GameInv, GameTypeOK', Effect
    PROVE  TruthInv'
<1> DEFINE NewTruth == \A o \in Sessions : \A p \in Pending(o)' : Truthful(o, p)'
<1>1. ASSUME NEW o PROVE Truthful(o, Note)'
  BY DEF Truthful
<1>2. CASE Rests \/ \E s \in Sessions : Closes(s) \/ \E p \in Packet : Delivers(s, p)
  <2>1. UNCHANGED <<blocks, worldAge, players, player>>
    BY <1>2 DEF Rests, Closes, Delivers, worldVars, playVars
  <2>2. ASSUME NEW o \in Sessions PROVE Pending(o)' \subseteq Pending(o)
    <3>1. CASE Rests
      BY <3>1 DEF Rests, Pending
    <3>2. ASSUME NEW s \in Sessions, Closes(s) PROVE Pending(o)' \subseteq Pending(o)
      BY <3>2, FewPackets DEF Closes, Closed, Pending, GameInv, GameTypeOK
    <3>3. ASSUME NEW s \in Sessions, NEW p \in Packet, Delivers(s, p)
          PROVE  Pending(o)' \subseteq Pending(o)
      BY <3>3, AfterDelivery DEF GameInv, Others
    <3>4. QED
      BY <1>2, <3>1, <3>2, <3>3
  <2>3. ASSUME NEW o \in Sessions, NEW p \in Pending(o)' PROVE Truthful(o, p)'
    <3>1. Truthful(o, p)
      BY <2>2 DEF GameInv, TruthInv
    <3>2. QED
      BY <2>1, <3>1, StillTrue
  <2>4. QED
    BY <2>3 DEF TruthInv
<1>3. ASSUME NEW c \in Int, NEW block \in BlockKinds, PlacesBlock(c, block) PROVE NewTruth
  <2>1. c \in DOMAIN blocks' /\ blocks'[c] = block
    BY <1>3 DEF PlacesBlock, SetBlock
  <2>2. \A o : Truthful(o, BlockUpdate(c, block))'
    BY <2>1 DEF Truthful, BlockUpdate
  <2>3. QED
    BY <1>1, <1>3, <2>2 DEF PlacesBlock, Tells
<1>4. ASSUME NEW s \in Present, NEW place \in Places, MovesTo(s, place) PROVE NewTruth
  <2>1. s \in players /\ s \in Sessions
    BY PresentOnes DEF GameInv
  <2>2. player'[s].place = place /\ s \in players'
    BY <1>4, <2>1 DEF MovesTo, GameInv, GameTypeOK, Fields
  <2>3. \A o : Truthful(o, EntityPositionSync(s, place))'
    BY <2>2 DEF Truthful, EntityPositionSync
  <2>4. QED
    BY <1>1, <1>4, <2>3 DEF MovesTo, Tells
<1>5. ASSUME NEW s \in Sessions, NEW mode \in Modes,
             \/ PlaysIn(s, mode)
             \/ Enters(s) /\ mode = DefaultMode
      PROVE  NewTruth
  <2>1. player'[s].mode = mode
    BY <1>5 DEF PlaysIn, Enters, GameInv, GameTypeOK, Fields
  <2>2. Truthful(s, GameMode(mode))'
    BY <2>1 DEF Truthful, GameMode
  <2>3. QED
    BY <1>1, <1>5, <2>2 DEF PlaysIn, Enters, Tells
<1>6. CASE TellsTime \/ Ages \/ Talks
  <2>1. PICK age : age = worldAge'
    OBVIOUS
  <2>2. \A o : Truthful(o, SetTime(age))'
    BY <2>1 DEF Truthful, SetTime
  <2>3. NewTruth
    BY <1>1, <1>6, <2>1, <2>2 DEF TellsTime, Ages, Talks, Tells
  <2>4. QED
    BY <2>3 DEF TruthInv
<1>7. ASSUME NEW s \in Sessions, Joins(s) PROVE NewTruth
  <2>1. \A o, age : age = worldAge => Truthful(o, SetTime(age))'
    BY <1>7 DEF Truthful, SetTime, Joins, worldVars
  <2>2. \A o, place : \A q \in Present \cup {s} :
            place = player[q].place => Truthful(o, AddEntity(q, place))'
    BY <1>7, PresentOnes DEF Truthful, AddEntity, Joins, GameInv
  <2>3. ASSUME NEW o \in Sessions
        PROVE  Pending(o)' \subseteq {SetTime(worldAge), Note}
                                   \cup {AddEntity(p, player[p].place) : p \in Present \cup {s}}
    <3>1. Tells(o, IF o \in Present THEN {AddEntity(s, player[s].place)}
                   ELSE IF o = s
                   THEN {SetTime(worldAge)} \cup {AddEntity(p, player[p].place) : p \in Present}
                   ELSE {})
      BY <1>7 DEF Joins
    <3>2. CASE o \in Present
      BY <3>1, <3>2 DEF Tells
    <3>3. CASE o \notin Present /\ o = s
      <4>1. Pending(o)' \subseteq {SetTime(worldAge)}
                                  \cup {AddEntity(p, player[p].place) : p \in Present} \cup {Note}
        BY <3>1, <3>3 DEF Tells
      <4>2. QED
        BY <4>1
    <3>4. CASE o \notin Present /\ o # s
      BY <3>1, <3>4 DEF Tells
    <3>5. QED
      BY <3>2, <3>3, <3>4
  <2>4. ASSUME NEW o \in Sessions, NEW p \in Pending(o)' PROVE Truthful(o, p)'
    <3>1. CASE p \in {SetTime(worldAge), Note}
      BY <1>1, <2>1, <3>1
    <3>2. CASE p \notin {SetTime(worldAge), Note}
      <4>1. PICK q \in Present \cup {s} : p = AddEntity(q, player[q].place)
        BY <2>3, <3>2
      <4>2. QED
        BY <2>2, <4>1
    <3>3. QED
      BY <3>1, <3>2
  <2>5. QED
    BY <2>4
<1>8. ASSUME NEW s \in Sessions, Leaves(s) PROVE NewTruth
  <2>1. \A o : Truthful(o, RemoveEntities(s))'
    BY <1>8 DEF Truthful, RemoveEntities, Leaves
  <2>2. QED
    BY <1>1, <1>8, <2>1 DEF Leaves, Tells
<1>9. QED
  <2>1. NewTruth => TruthInv'
    BY DEF TruthInv
  <2>2. Present \subseteq Sessions /\ DefaultMode \in Modes
    BY PresentOnes, GameplayAssumption DEF GameInv
  <2>3. QED
    BY <1>2, <1>3, <1>4, <1>5, <1>6, <1>7, <1>8, <2>1, <2>2 DEF Effect

LEMMA NewcomerKept ==
    ASSUME NEW o, Newcomer(o), replay'[o] \subseteq replay[o],
           view'[o].blocks = view[o].blocks, view'[o].entities = view[o].entities,
           Pending(o)' \subseteq {GameMode(player'[o].mode), Note}
    PROVE  Newcomer(o)'
  BY DEF Newcomer, GameMode, Note, Pending

LEMMA NewcomerStep ==
    ASSUME GameInv, GameTypeOK', Effect
    PROVE  NewcomerInv'
<1> DEFINE Good(o) == /\ state'[o] = "PlayPending" => o \notin players'
                      /\ o \notin players' /\ state'[o] # "Closed" => Newcomer(o)'
<1> SUFFICES ASSUME NEW o \in Sessions PROVE Good(o)
  BY DEF NewcomerInv
<1>1. /\ state[o] = "PlayPending" => o \notin players
      /\ o \notin players /\ state[o] # "Closed" => Newcomer(o)
      /\ o \notin players => o \notin Present
  BY PresentOnes DEF GameInv, NewcomerInv
<1>2. CASE \/ TellsTime \/ Ages \/ Talks
           \/ \E c \in Int, block \in BlockKinds : PlacesBlock(c, block)
           \/ \E s \in Present, place \in Places : MovesTo(s, place)
           \/ \E s \in Present, mode \in Modes : PlaysIn(s, mode)
  <2>1. UNCHANGED <<state, players, view, replay>>
    BY <1>2 DEF TellsTime, Ages, Talks, PlacesBlock, MovesTo, PlaysIn, Handling
  <2>2. o \notin players => Tells(o, {})
    BY <1>1, <1>2 DEF TellsTime, Ages, Talks, PlacesBlock, MovesTo, PlaysIn
  <2>3. QED
    BY <1>1, <2>1, <2>2, NewcomerKept DEF Tells
<1>3. ASSUME NEW s \in Sessions, Enters(s) PROVE Good(o)
  <2>1. UNCHANGED <<players, view, replay>>
    BY <1>3 DEF Enters, Handling
  <2>2. s \notin players /\ state'[o] = IF o = s THEN "Play" ELSE state[o]
    BY <1>3 DEF Enters, GameInv, NewcomerInv, GameTypeOK
  <2>3. Tells(o, IF o = s THEN {GameMode(DefaultMode)} ELSE {})
    BY <1>3 DEF Enters
  <2>4. o = s => player'[o].mode = DefaultMode
    BY <1>3 DEF Enters, GameInv, GameTypeOK
  <2>5. Pending(o)' \subseteq {GameMode(player'[o].mode), Note}
    BY <2>3, <2>4 DEF Tells
  <2>6. state'[o] # "Closed" => state[o] # "Closed"
    BY <1>3, <2>2 DEF Enters
  <2>7. QED
    BY <1>1, <2>1, <2>2, <2>5, <2>6, NewcomerKept
<1>4. ASSUME NEW s \in Sessions, Joins(s) PROVE Good(o)
  <2>1. CASE o = s
    BY <1>4, <2>1 DEF Joins
  <2>2. CASE o # s
    <3>1. state' = state /\ view' = view /\ replay'[o] = replay[o] /\ (o \in players' <=> o \in players)
      BY <1>4, <2>2 DEF Joins, Handling, GameInv, GameTypeOK
    <3>2. o \notin players => Tells(o, {})
      BY <1>1, <1>4, <2>2 DEF Joins
    <3>3. QED
      BY <1>1, <3>1, <3>2, NewcomerKept DEF Tells
  <2>3. QED
    BY <2>1, <2>2
<1>5. ASSUME NEW s \in Sessions, Leaves(s) PROVE Good(o)
  <2>1. CASE o = s
    BY <1>5, <2>1 DEF Leaves
  <2>2. CASE o # s
    <3>1. UNCHANGED <<state, view, replay>> /\ (o \in players' <=> o \in players)
      BY <1>5, <2>2 DEF Leaves, Handling
    <3>2. o \notin players => Tells(o, {})
      BY <1>1, <1>5 DEF Leaves
    <3>3. QED
      BY <1>1, <3>1, <3>2, NewcomerKept DEF Tells
  <2>3. QED
    BY <2>1, <2>2
<1>6. ASSUME NEW s \in Sessions, Closes(s) PROVE Good(o)
  <2>1. CASE o = s
    BY <1>6, <2>1 DEF Closes, Closed, GameInv, GameTypeOK
  <2>2. CASE o # s
    <3>1. /\ state'[o] = state[o] /\ view'[o] = view[o] /\ replay'[o] = replay[o]
          /\ outgoing'[o] = outgoing[o] /\ players' = players /\ player' = player
      BY <1>6, <2>2 DEF Closes, Closed, GameInv, GameTypeOK
    <3>2. Newcomer(o) => Pending(o)' \subseteq {GameMode(player'[o].mode), Note}
      BY <3>1 DEF Newcomer, Pending
    <3>3. QED
      BY <1>1, <3>1, <3>2, NewcomerKept
  <2>3. QED
    BY <2>1, <2>2
<1>7. ASSUME NEW s \in Sessions, NEW p \in Packet, Delivers(s, p) PROVE Good(o)
  <2>1. UNCHANGED <<state, players, player>>
    BY <1>7 DEF Delivers
  <2>2. ASSUME Newcomer(o)
        PROVE  /\ replay'[o] \subseteq replay[o] /\ Pending(o)' \subseteq Pending(o)
               /\ view'[o].blocks = view[o].blocks /\ view'[o].entities = view[o].entities
    <3>1. CASE o = s
      <4>1. p \in {GameMode(player[o].mode), Note}
        BY <1>7, <2>2, <3>1 DEF Delivers, Newcomer
      <4>2. p.kind \in {"GameMode", "Note"}
        BY <4>1 DEF GameMode, Note
      <4>3. view'[o].blocks = view[o].blocks /\ view'[o].entities = view[o].entities
        BY <1>7, <3>1, <4>2, AfterDelivery DEF GameInv
      <4>4. QED
        BY <1>7, <3>1, <4>3 DEF Delivers
    <3>2. CASE o # s
      BY <1>7, <3>2, AfterDelivery DEF GameInv, Others
    <3>3. QED
      BY <3>1, <3>2
  <2>3. Newcomer(o) => Pending(o)' \subseteq {GameMode(player'[o].mode), Note}
    BY <2>1, <2>2 DEF Newcomer
  <2>4. QED
    BY <1>1, <2>1, <2>2, <2>3, NewcomerKept
<1>8. CASE Rests
  BY <1>1, <1>8 DEF Rests, playVars, Newcomer, Pending
<1>9. QED
  BY <1>2, <1>3, <1>4, <1>5, <1>6, <1>7, <1>8 DEF Effect

(***************************************************************************)
(* Blocks.                                                                 *)
(***************************************************************************)
LEMMA StillRight ==
    ASSUME NEW s, NEW c, BlockRight(s, c), UNCHANGED blocks,
           view'[s].blocks[c] = view[s].blocks[c]
    PROVE  BlockRight(s, c)'
  BY DEF BlockRight, BlocksAt, Packed, Wrap

LEMMA StillKnown ==
    ASSUME NEW s, NEW c, BlockKnown(s, c), UNCHANGED blocks, view'[s] = view[s],
           Pending(s)' = Pending(s), replay'[s] = replay[s]
    PROVE  BlockKnown(s, c)'
<1>1. CASE BlockRight(s, c)
  BY <1>1, StillRight DEF BlockKnown
<1>2. CASE ~BlockRight(s, c)
  BY <1>2 DEF BlockKnown, PendingOf, Packed, Wrap
<1>3. QED
  BY <1>1, <1>2

LEMMA BlockDelivered ==
    ASSUME GameInv, NEW s \in Sessions, NEW p \in Packet, Delivers(s, p),
           NEW c \in WirePositions, BlockKnown(s, c)
    PROVE  BlockKnown(s, c)'
<1> USE DEF GameInv
<1>1. /\ UNCHANGED blocks
      /\ Pending(s)' \subseteq Pending(s) /\ Pending(s) \subseteq Pending(s)' \cup {p}
      /\ view'[s].blocks = IF p.kind = "BlockUpdate"
                           THEN [view[s].blocks EXCEPT ![p.at] = p.block]
                           ELSE view[s].blocks
      /\ view[s].blocks \in [WirePositions -> BlockKinds \cup {Unmodified}]
  BY AfterDelivery DEF Delivers, worldVars, GameTypeOK, View
<1>2. CASE p.kind = "BlockUpdate" /\ p.at = c
  <2>1. Truthful(s, p)
    BY DEF Delivers
  <2>2. PICK q \in DOMAIN blocks : p = BlockUpdate(q, blocks[q])
    BY <1>2, <2>1 DEF Truthful, SetTime, GameMode, AddEntity, EntityPositionSync,
                      RemoveEntities, Note
  <2>3. view'[s].blocks[c] = blocks[q] /\ Packed(q) = c
    BY <1>1, <1>2, <2>2 DEF BlockUpdate
  <2>4. BlocksAt(c)' = BlocksAt(c) /\ blocks[q] \in BlocksAt(c)
    BY <1>1, <2>3 DEF BlocksAt, Packed, Wrap
  <2>5. BlockRight(s, c)'
    BY <2>3, <2>4 DEF BlockRight
  <2>6. QED
    BY <2>5 DEF BlockKnown
<1>3. CASE ~(p.kind = "BlockUpdate" /\ p.at = c)
  <2>1. CASE BlockRight(s, c)
    <3>1. view'[s].blocks[c] = view[s].blocks[c]
      BY <1>1, <1>3
    <3>2. QED
      BY <1>1, <2>1, <3>1, StillRight DEF BlockKnown
  <2>2. CASE \E q \in PendingOf(s, {"BlockUpdate"}) : q.at = c
    <3>1. PICK q \in Pending(s) : q.kind = "BlockUpdate" /\ q.at = c
      BY <2>2 DEF PendingOf
    <3>2. q \in Pending(s)'
      BY <1>1, <1>3, <3>1
    <3>3. QED
      BY <3>1, <3>2 DEF BlockKnown, PendingOf
  <2>3. CASE \E q \in replay[s] : Packed(q) = c
    <3>1. PICK q \in replay[s] : Packed(q) = c
      BY <2>3
    <3>2. q \in replay'[s]
      BY <1>3, <3>1 DEF Delivers, BlockUpdate
    <3>3. QED
      BY <3>1, <3>2 DEF BlockKnown, Packed, Wrap
  <2>4. QED
    BY <2>1, <2>2, <2>3 DEF BlockKnown
<1>4. QED
  BY <1>2, <1>3

LEMMA BlocksStep ==
    ASSUME GameInv, GameTypeOK', Effect
    PROVE  BlocksInv'
<1> DEFINE Good == \A s \in Present' : \A c \in WirePositions : BlockKnown(s, c)'
<1> Present \subseteq Sessions
  BY PresentOnes DEF GameInv
<1>1. Good => BlocksInv'
  BY DEF BlocksInv
<1>2. ASSUME NEW s \in Present PROVE \A c \in WirePositions : BlockKnown(s, c)
  BY DEF GameInv, BlocksInv
\* What tells nobody of a block leaves them as they were.
<1>3. ASSUME UNCHANGED <<blocks, view>>, AllSent, Present' \subseteq Present PROVE Good
  <2>1. ASSUME NEW s \in Present, NEW c \in WirePositions PROVE BlockKnown(s, c)'
    BY <1>3, AllTold, StillRight DEF BlockKnown
  <2>2. QED
    BY <1>3, <2>1
<1>4. CASE \/ TellsTime \/ Ages \/ Talks
           \/ \E s \in Present, place \in Places : MovesTo(s, place)
           \/ \E s \in Present, mode \in Modes : PlaysIn(s, mode)
  <2>1. UNCHANGED <<blocks, view, state, players>> /\ AllSent
    BY <1>4 DEF TellsTime, Ages, Talks, MovesTo, PlaysIn, Handling, worldVars
  <2>2. QED
    BY <1>1, <1>3, <2>1, PresentKept
<1>5. ASSUME NEW s \in Sessions, Enters(s) \/ Leaves(s) PROVE Good
  <2>1. UNCHANGED <<blocks, view>> /\ AllSent
    BY <1>5 DEF Enters, Leaves, Handling, worldVars
  <2>2. Present' \subseteq Present
    BY <1>5 DEF Enters, Leaves, Present, InPlay, GameInv, NewcomerInv, GameTypeOK
  <2>3. QED
    BY <1>3, <2>1, <2>2
<1>6. ASSUME NEW d \in Int, NEW block \in BlockKinds, PlacesBlock(d, block) PROVE Good
  <2>1. /\ AllSent /\ view' = view /\ Present' = Present
        /\ blocks' = [p \in DOMAIN blocks \cup {d} |-> IF p = d THEN block ELSE blocks[p]]
    BY <1>6, PresentKept DEF PlacesBlock, Handling, SetBlock
  <2>2. ASSUME NEW s \in Present, NEW c \in WirePositions PROVE BlockKnown(s, c)'
    <3>1. CASE Packed(d) = c
      <4>1. BlockUpdate(d, block) \in Pending(s)'
        BY <1>6 DEF PlacesBlock, Tells
      <4>2. BlockUpdate(d, block).kind = "BlockUpdate" /\ BlockUpdate(d, block).at = c
        BY <3>1 DEF BlockUpdate
      <4>3. QED
        BY <4>1, <4>2 DEF BlockKnown, PendingOf
    <3>2. CASE Packed(d) # c
      <4>1. BlocksAt(c)' = BlocksAt(c)
        BY <2>1, <3>2 DEF BlocksAt, Packed, Wrap
      <4>2. BlockRight(s, c)
        BY <2>1, AllTold
      <4>3. BlockRight(s, c)'
        BY <2>1, <4>1, <4>2 DEF BlockRight
      <4>4. QED
        BY <4>3 DEF BlockKnown
    <3>3. QED
      BY <3>1, <3>2
  <2>3. QED
    BY <2>1, <2>2
<1>7. ASSUME NEW s \in Sessions, Joins(s) PROVE Good
  <2>1. /\ AllSent /\ UNCHANGED <<blocks, view>> /\ replay'[s] = DOMAIN blocks
        /\ s \notin players /\ state[s] = "Play"
    BY <1>7 DEF Joins, Handling, worldVars, GameInv, GameTypeOK
  <2>2. Present' \subseteq Present \cup {s}
    BY <1>7 DEF Joins, Present, InPlay
  <2>3. ASSUME NEW o \in Present, NEW c \in WirePositions PROVE BlockKnown(o, c)'
    BY <2>1, AllTold, StillRight DEF BlockKnown
  <2>4. ASSUME NEW c \in WirePositions PROVE BlockKnown(s, c)'
    <3>1. CASE BlocksAt(c) = {}
      <4>1. view[s].blocks[c] = Unmodified
        BY <2>1 DEF GameInv, NewcomerInv, Newcomer
      <4>2. BlockRight(s, c)
        BY <3>1, <4>1 DEF BlockRight
      <4>3. QED
        BY <2>1, <4>2, StillRight DEF BlockKnown
    <3>2. CASE BlocksAt(c) # {}
      <4>1. PICK q \in DOMAIN blocks : Packed(q) = c
        BY <3>2 DEF BlocksAt
      <4>2. QED
        BY <2>1, <4>1 DEF BlockKnown, Packed, Wrap
    <3>3. QED
      BY <3>1, <3>2
  <2>5. QED
    BY <2>2, <2>3, <2>4
<1>8. ASSUME NEW s \in Sessions, Closes(s) PROVE Good
  <2>1. /\ UNCHANGED blocks /\ Present' \subseteq Present \ {s}
        /\ \A o \in Others(s) : /\ view'[o] = view[o] /\ Pending(o)' = Pending(o)
                                /\ replay'[o] = replay[o]
    BY <1>8 DEF Closes, Closed, Present, InPlay, Others, GameInv, GameTypeOK, Pending, worldVars
  <2>2. ASSUME NEW o \in Present', NEW c \in WirePositions PROVE BlockKnown(o, c)'
    <3>1. o \in Present /\ o \in Others(s)
      BY <2>1 DEF Others
    <3>2. QED
      BY <1>2, <2>1, <3>1, StillKnown
  <2>3. QED
    BY <2>2
<1>9. ASSUME NEW s \in Sessions, NEW p \in Packet, Delivers(s, p) PROVE Good
  <2>1. /\ UNCHANGED blocks /\ Present' = Present
        /\ \A o \in Others(s) : /\ view'[o] = view[o] /\ Pending(o)' = Pending(o)
                                /\ replay'[o] = replay[o]
    BY <1>9, PresentKept, AfterDelivery DEF Delivers, worldVars, GameInv
  <2>2. ASSUME NEW o \in Present, NEW c \in WirePositions PROVE BlockKnown(o, c)'
    <3>1. CASE o = s
      BY <1>2, <1>9, <3>1, BlockDelivered
    <3>2. CASE o # s
      BY <1>2, <2>1, <3>2, StillKnown DEF Others
    <3>3. QED
      BY <3>1, <3>2
  <2>3. QED
    BY <2>1, <2>2
<1>10. CASE Rests
  <2>1. UNCHANGED <<blocks, view, replay>> /\ Present' = Present
    BY <1>10, PresentKept DEF Rests, worldVars, playVars
  <2>2. \A s \in Sessions : Pending(s)' = Pending(s)
    BY <1>10 DEF Rests, Pending
  <2>3. ASSUME NEW s \in Present, NEW c \in WirePositions PROVE BlockKnown(s, c)'
    BY <1>2, <2>1, <2>2, StillKnown
  <2>4. QED
    BY <1>1, <2>1, <2>3
<1>11. QED
  BY <1>1, <1>4, <1>5, <1>6, <1>7, <1>8, <1>9, <1>10 DEF Effect

(***************************************************************************)
(* Entities.                                                               *)
(***************************************************************************)
\* A view of an entity stays right while the entity and the view stay; who
\* closes is no longer to be shown.
LEMMA EntityStays ==
    ASSUME NEW s, NEW o, EntityRight(s, o),
           view'[s].entities[o] = view[s].entities[o],
           view[s].entities[o] = Nowhere \/ player'[o].place = player[o].place,
           o \in players' <=> o \in players, InPlay(o)' => InPlay(o)
    PROVE  EntityRight(s, o)'
  BY DEF EntityRight, PlaceRight, AbsentRight, ShownRight

LEMMA RightIsKnown ==
    ASSUME NEW s, NEW o
    PROVE  EntityRight(s, o)' => EntityKnown(s, o)'
  BY DEF EntityRight, EntityKnown

LEMMA EntityKept ==
    ASSUME NEW s, NEW o, EntityKnown(s, o), Pending(s)' = Pending(s),
           view'[s] = view[s], player' = player, players' = players,
           InPlay(o)' => InPlay(o)
    PROVE  EntityKnown(s, o)'
<1>1. \A kinds : PendingAbout(s, o, kinds)' = PendingAbout(s, o, kinds)
  BY DEF PendingAbout, PendingOf
<1>2. PlaceRight(s, o)' = PlaceRight(s, o) /\ AbsentRight(s, o)' = AbsentRight(s, o)
  BY DEF PlaceRight, AbsentRight
<1>3. ShownRight(s, o) => ShownRight(s, o)'
  BY DEF ShownRight
<1>4. QED
  BY <1>1, <1>2, <1>3 DEF EntityKnown

LEMMA EntityDelivered ==
    ASSUME GameInv, NEW s \in Sessions, NEW p \in Packet, Delivers(s, p),
           NEW o \in Sessions, EntityKnown(s, o)
    PROVE  EntityKnown(s, o)'
<1> USE DEF GameInv
<1>1. /\ UNCHANGED <<state, players, player>>
      /\ Pending(s)' \subseteq Pending(s) /\ Pending(s) \subseteq Pending(s)' \cup {p}
      /\ view'[s].entities =
            IF p.kind = "Entity" \/ (p.kind = "Move" /\ view[s].entities[p.of] # Nowhere)
            THEN [view[s].entities EXCEPT ![p.of] = p.place]
            ELSE IF p.kind = "Remove" THEN [view[s].entities EXCEPT ![p.of] = Nowhere]
            ELSE view[s].entities
      /\ view[s].entities \in [Sessions -> Places \cup {Nowhere}]
      /\ InPlay(o)' = InPlay(o) /\ (InPlay(o) => o \in players)
  BY AfterDelivery, PresentKept DEF Delivers, GameTypeOK, View, InPlay
<1>2. Nowhere \notin Places
  BY GameplayAssumption DEF Nowhere
<1>3. Truthful(s, p)
  BY DEF Delivers
<1>4. ASSUME NEW kinds, NEW q \in PendingAbout(s, o, kinds), q # p
      PROVE  q \in PendingAbout(s, o, kinds)'
  BY <1>1, <1>4 DEF PendingAbout, PendingOf
<1>5. CASE p.kind \in {"Entity", "Move"} /\ p.of = o
  <2>1. o \in players /\ p.place = player[o].place /\ p.place \in Places
    <3>1. o \in players /\ p.place = player[o].place
      BY <1>3, <1>5 DEF Truthful, BlockUpdate, SetTime, GameMode, AddEntity,
                        EntityPositionSync, RemoveEntities, Note
    <3>2. QED
      BY <1>5, <3>1 DEF Packet
  <2>2. \/ view'[s].entities[o] = p.place
        \/ /\ p.kind = "Move" /\ view[s].entities[o] = Nowhere
           /\ view'[s].entities[o] = Nowhere
    <3>1. CASE p.kind = "Entity"
      BY <1>1, <1>5, <3>1
    <3>2. CASE p.kind = "Move"
      BY <1>1, <1>5, <3>2
    <3>3. QED
      BY <1>5, <3>1, <3>2
  <2>3. PlaceRight(s, o)' /\ AbsentRight(s, o)'
    BY <1>1, <2>1, <2>2 DEF PlaceRight, AbsentRight
  <2>4. ShownRight(s, o)' \/ PendingAbout(s, o, {"Entity"})' # {}
    <3>1. CASE view'[s].entities[o] = p.place
      BY <1>2, <2>1, <3>1 DEF ShownRight
    <3>2. CASE view'[s].entities[o] # p.place
      <4>1. /\ p.kind = "Move" /\ view[s].entities[o] = Nowhere
            /\ view'[s].entities[o] = Nowhere
        BY <2>2, <3>2
      <4>2. CASE ShownRight(s, o)
        BY <1>1, <4>1, <4>2 DEF ShownRight
      <4>3. CASE PendingAbout(s, o, {"Entity"}) # {}
        <5>1. PICK q \in PendingAbout(s, o, {"Entity"}) : q.kind = "Entity"
          BY <4>3 DEF PendingAbout, PendingOf
        <5>2. q # p
          BY <4>1, <5>1
        <5>3. QED
          BY <1>4, <5>2
      <4>4. QED
        BY <4>2, <4>3 DEF EntityKnown
    <3>3. QED
      BY <3>1, <3>2
  <2>5. QED
    BY <2>3, <2>4 DEF EntityKnown
<1>6. CASE p.kind = "Remove" /\ p.of = o
  <2>1. o \notin players
    BY <1>3, <1>6 DEF Truthful, BlockUpdate, SetTime, GameMode, AddEntity,
                      EntityPositionSync, RemoveEntities, Note
  <2>2. view'[s].entities[o] = Nowhere
    BY <1>1, <1>6
  <2>3. EntityRight(s, o)'
    BY <1>1, <2>1, <2>2 DEF EntityRight, PlaceRight, AbsentRight, ShownRight
  <2>4. QED
    BY <2>3, RightIsKnown
<1>7. CASE ~(p.kind \in {"Entity", "Move", "Remove"} /\ p.of = o)
  <2>1. view'[s].entities[o] = view[s].entities[o]
    BY <1>1, <1>7
  <2>2. ASSUME NEW kinds \in SUBSET {"Entity", "Move", "Remove"},
               PendingAbout(s, o, kinds) # {}
        PROVE  PendingAbout(s, o, kinds)' # {}
    <3>1. PICK q \in PendingAbout(s, o, kinds) : q.kind \in kinds /\ q.of = o
      BY <2>2 DEF PendingAbout, PendingOf
    <3>2. q # p
      BY <1>7, <3>1
    <3>3. QED
      BY <1>4, <3>2
  <2>3. /\ PlaceRight(s, o) => PlaceRight(s, o)'
        /\ AbsentRight(s, o) => AbsentRight(s, o)'
        /\ ShownRight(s, o) => ShownRight(s, o)'
    BY <1>1, <2>1 DEF PlaceRight, AbsentRight, ShownRight
  <2>4. QED
    BY <2>2, <2>3 DEF EntityKnown
<1>8. QED
  BY <1>5, <1>6, <1>7

LEMMA EntitiesStep ==
    ASSUME GameInv, GameTypeOK', Effect
    PROVE  EntitiesInv'
<1> DEFINE Good == \A s \in Present' : \A o \in Others(s) : EntityKnown(s, o)'
<1> Present \subseteq Sessions /\ Present \subseteq players
  BY PresentOnes DEF GameInv
<1>1. Good => EntitiesInv'
  BY DEF EntitiesInv, Others
<1>2. ASSUME NEW s \in Present, NEW o \in Others(s)
      PROVE  EntityKnown(s, o) /\ o \in Sessions /\ o # s /\ (InPlay(o) <=> o \in Present)
  BY DEF GameInv, EntitiesInv, Others, Present, InPlay
<1>3. ASSUME AllSent, NEW s \in Present, NEW o \in Others(s) PROVE EntityRight(s, o)
  BY <1>3, AllTold
<1>4. ASSUME NEW m \in Present, NEW place \in Places, MovesTo(m, place) PROVE Good
  <2>1. AllSent /\ view' = view /\ players' = players /\ Present' = Present
    BY <1>4, PresentKept DEF MovesTo, Handling
  <2>2. ASSUME NEW s \in Present, NEW o \in Others(s) PROVE EntityKnown(s, o)'
    <3>1. CASE o # m
      <4>1. player'[o] = player[o] /\ InPlay(o)' = InPlay(o)
        BY <1>2, <1>4, <3>1, PresentKept DEF MovesTo, GameInv, GameTypeOK
      <4>2. QED
        BY <1>3, <2>1, <4>1, EntityStays, RightIsKnown
    <3>2. CASE o = m
      <4>1. EntityPositionSync(o, place) \in Pending(s)'
        BY <1>2, <1>4, <3>2 DEF MovesTo, Tells, Others
      <4>2. PendingAbout(s, o, {"Entity", "Move", "Remove"})' # {}
        BY <4>1 DEF PendingAbout, PendingOf, EntityPositionSync
      <4>3. AbsentRight(s, o)' /\ ShownRight(s, o)'
        BY <1>3, <1>4, <2>1, PresentKept DEF EntityRight, AbsentRight, ShownRight, MovesTo
      <4>4. QED
        BY <4>2, <4>3 DEF EntityKnown
    <3>3. QED
      BY <3>1, <3>2
  <2>3. QED
    BY <2>1, <2>2
<1>5. CASE \/ TellsTime \/ Ages \/ Talks
           \/ \E c \in Int, block \in BlockKinds : PlacesBlock(c, block)
           \/ \E m \in Present, mode \in Modes : PlaysIn(m, mode)
  <2>1. AllSent /\ UNCHANGED <<view, state, players>>
    BY <1>5 DEF TellsTime, Ages, Talks, PlacesBlock, PlaysIn, Handling
  <2>2. \A o \in Sessions : player'[o].place = player[o].place
    <3>1. ASSUME NEW m \in Present, NEW mode \in Modes, PlaysIn(m, mode)
          PROVE  \A o \in Sessions : player'[o].place = player[o].place
      BY <3>1 DEF PlaysIn, GameInv, GameTypeOK, Fields
    <3>2. QED
      BY <1>5, <3>1 DEF TellsTime, Ages, Talks, PlacesBlock
  <2>3. Present' = Present /\ \A o : InPlay(o)' = InPlay(o)
    BY <2>1, PresentKept
  <2>4. ASSUME NEW s \in Present, NEW o \in Others(s) PROVE EntityKnown(s, o)'
    BY <1>2, <1>3, <2>1, <2>2, <2>3, EntityStays, RightIsKnown
  <2>5. QED
    BY <1>1, <2>3, <2>4
<1>6. ASSUME NEW e \in Sessions, Enters(e) PROVE Good
  <2>1. /\ AllSent /\ view' = view /\ players' = players /\ e \notin players
        /\ \A o \in Others(e) : player'[o] = player[o] /\ state'[o] = state[o]
    BY <1>6 DEF Enters, Handling, Others, GameInv, NewcomerInv, GameTypeOK
  <2>2. Present' = Present /\ \A o \in Sessions : InPlay(o)' = InPlay(o)
    <3>1. \A o \in Sessions : InPlay(o)' = InPlay(o)
      BY <2>1 DEF InPlay, Others
    <3>2. QED
      BY <2>1, <3>1 DEF Present, GameInv, GameTypeOK
  <2>3. ASSUME NEW s \in Present, NEW o \in Others(s) PROVE EntityKnown(s, o)'
    <3>1. EntityRight(s, o) /\ o \in Sessions
      BY <1>2, <1>3, <2>1
    <3>2. view[s].entities[o] = Nowhere \/ player'[o].place = player[o].place
      BY <2>1, <3>1 DEF EntityRight, AbsentRight, Others
    <3>3. QED
      BY <2>1, <2>2, <3>1, <3>2, EntityStays, RightIsKnown
  <2>4. QED
    BY <2>2, <2>3
<1>7. ASSUME NEW j \in Sessions, Joins(j) PROVE Good
  <2>1. /\ AllSent /\ UNCHANGED <<view, state, player>> /\ players' = players \cup {j}
        /\ j \notin players /\ state[j] = "Play" /\ Present' = Present \cup {j}
        /\ \A o : o # j => InPlay(o)' = InPlay(o)
    BY <1>7 DEF Joins, Handling, Present, InPlay
  <2>2. ASSUME NEW s \in Present, NEW o \in Others(s) PROVE EntityKnown(s, o)'
    <3>1. CASE o # j
      BY <1>3, <2>1, <3>1, EntityStays, RightIsKnown
    <3>2. CASE o = j
      <4>1. AddEntity(o, player[o].place) \in Pending(s)'
        BY <1>7, <3>2 DEF Joins, Tells
      <4>2. \A kinds : "Entity" \in kinds => PendingAbout(s, o, kinds)' # {}
        BY <4>1 DEF PendingAbout, PendingOf, AddEntity
      <4>3. AbsentRight(s, o)'
        BY <2>1, <3>2 DEF AbsentRight
      <4>4. QED
        BY <4>2, <4>3 DEF EntityKnown
    <3>3. QED
      BY <3>1, <3>2
  <2>3. ASSUME NEW o \in Others(j) PROVE EntityKnown(j, o)'
    <3>1. o \in Sessions /\ o # j /\ view'[j].entities[o] = Nowhere
      BY <2>1 DEF Others, GameInv, NewcomerInv, Newcomer
    <3>2. PlaceRight(j, o)' /\ AbsentRight(j, o)'
      BY <3>1 DEF PlaceRight, AbsentRight
    <3>3. CASE o \in Present
      <4>1. AddEntity(o, player[o].place) \in Pending(j)'
        BY <1>7, <2>1, <3>3 DEF Joins, Tells
      <4>2. PendingAbout(j, o, {"Entity"})' # {}
        BY <4>1 DEF PendingAbout, PendingOf, AddEntity
      <4>3. QED
        BY <3>2, <4>2 DEF EntityKnown
    <3>4. CASE o \notin Present
      <4>1. ShownRight(j, o)'
        BY <2>1, <3>1, <3>4 DEF ShownRight, Present, InPlay
      <4>2. QED
        BY <3>2, <4>1 DEF EntityKnown
    <3>5. QED
      BY <3>3, <3>4
  <2>4. QED
    BY <2>1, <2>2, <2>3
<1>8. ASSUME NEW l \in Sessions, Leaves(l) PROVE Good
  <2>1. /\ AllSent /\ UNCHANGED <<view, state, player>> /\ players' = players \ {l}
        /\ state[l] = "Closed" /\ Present' = Present
        /\ \A o : InPlay(o)' = InPlay(o)
    BY <1>8 DEF Leaves, Handling, Present, InPlay
  <2>2. ASSUME NEW s \in Present, NEW o \in Others(s) PROVE EntityKnown(s, o)'
    <3>1. CASE o # l
      BY <1>3, <2>1, <3>1, EntityStays, RightIsKnown
    <3>2. CASE o = l
      <4>1. RemoveEntities(o) \in Pending(s)'
        BY <1>8, <3>2 DEF Leaves, Tells
      <4>2. \A kinds : "Remove" \in kinds => PendingAbout(s, o, kinds)' # {}
        BY <4>1 DEF PendingAbout, PendingOf, RemoveEntities
      <4>3. ShownRight(s, o)'
        BY <2>1, <3>2 DEF ShownRight, InPlay
      <4>4. QED
        BY <4>2, <4>3 DEF EntityKnown
    <3>3. QED
      BY <3>1, <3>2
  <2>3. QED
    BY <2>1, <2>2
<1>9. ASSUME NEW x \in Sessions, Closes(x) PROVE Good
  <2>1. /\ UNCHANGED <<players, player>> /\ Present' \subseteq Present \ {x}
        /\ \A o \in Sessions : InPlay(o)' => InPlay(o)
        /\ \A o \in Others(x) : view'[o] = view[o] /\ Pending(o)' = Pending(o)
    BY <1>9 DEF Closes, Closed, Present, InPlay, Others, GameInv, GameTypeOK, Pending
  <2>2. ASSUME NEW s \in Present', NEW o \in Others(s) PROVE EntityKnown(s, o)'
    <3>1. s \in Present /\ s \in Others(x)
      BY <2>1 DEF Others
    <3>2. EntityKnown(s, o) /\ o \in Sessions
      BY <1>2, <3>1
    <3>3. QED
      BY <2>1, <3>1, <3>2, EntityKept
  <2>3. QED
    BY <2>2
<1>10. ASSUME NEW x \in Sessions, NEW p \in Packet, Delivers(x, p) PROVE Good
  <2>1. /\ UNCHANGED <<players, player>> /\ Present' = Present
        /\ \A o : InPlay(o)' = InPlay(o)
        /\ \A o \in Others(x) : view'[o] = view[o] /\ Pending(o)' = Pending(o)
    BY <1>10, PresentKept, AfterDelivery DEF Delivers, GameInv
  <2>2. ASSUME NEW s \in Present, NEW o \in Others(s) PROVE EntityKnown(s, o)'
    <3>1. EntityKnown(s, o) /\ o \in Sessions
      BY <1>2
    <3>2. CASE s = x
      BY <1>10, <3>1, <3>2, EntityDelivered
    <3>3. CASE s # x
      BY <2>1, <3>1, <3>3, EntityKept DEF Others
    <3>4. QED
      BY <3>2, <3>3
  <2>3. QED
    BY <2>1, <2>2
<1>11. CASE Rests
  <2>1. /\ UNCHANGED <<view, state, players, player>> /\ Present' = Present
        /\ \A o : InPlay(o)' = InPlay(o)
    BY <1>11, PresentKept DEF Rests, playVars
  <2>2. \A s \in Sessions : Pending(s)' = Pending(s)
    BY <1>11 DEF Rests, Pending
  <2>3. ASSUME NEW s \in Present, NEW o \in Others(s) PROVE EntityKnown(s, o)'
    BY <1>2, <2>1, <2>2, EntityKept
  <2>4. QED
    BY <1>1, <2>1, <2>3
<1>12. QED
  BY <1>1, <1>4, <1>5, <1>6, <1>7, <1>8, <1>9, <1>10, <1>11 DEF Effect

(***************************************************************************)
(* The mode.                                                               *)
(***************************************************************************)
LEMMA ModeStep ==
    ASSUME GameInv, GameTypeOK', Effect
    PROVE  ModeInv'
<1> USE DEF GameInv
<1> DEFINE Good(o) == state'[o] = "Play" => ModeKnown(o)'
<1> SUFFICES ASSUME NEW o \in Sessions PROVE Good(o)
  BY DEF ModeInv
<1>1. state[o] = "Play" => ModeKnown(o)
  BY DEF ModeInv
<1>2. ASSUME state'[o] = state[o], view'[o].mode = view[o].mode, ModeRight(o),
             player'[o].mode = player[o].mode
      PROVE  Good(o)
  BY <1>2 DEF ModeKnown, ModeRight
<1>3. AllSent /\ state[o] = "Play" => ModeRight(o)
  BY AllTold
<1>4. CASE \/ TellsTime \/ Ages \/ Talks
           \/ \E c \in Int, block \in BlockKinds : PlacesBlock(c, block)
           \/ \E s \in Sessions : Joins(s) \/ Leaves(s)
  <2>1. AllSent /\ UNCHANGED <<state, view, player>>
    BY <1>4 DEF TellsTime, Ages, Talks, PlacesBlock, Joins, Leaves, Handling
  <2>2. QED
    BY <1>2, <1>3, <2>1
<1>5. ASSUME NEW s \in Sessions, NEW place \in Places, MovesTo(s, place) PROVE Good(o)
  <2>1. AllSent /\ UNCHANGED <<state, view>> /\ player'[o].mode = player[o].mode
    BY <1>5 DEF MovesTo, Handling, GameTypeOK, Fields
  <2>2. QED
    BY <1>2, <1>3, <2>1
<1>6. ASSUME NEW s \in Sessions, NEW mode \in Modes,
             \/ PlaysIn(s, mode)
             \/ Enters(s) /\ mode = DefaultMode
      PROVE  Good(o)
  <2>1. CASE o = s
    <3>1. GameMode(mode) \in Pending(o)'
      BY <1>6, <2>1 DEF PlaysIn, Enters, Tells
    <3>2. QED
      BY <3>1 DEF ModeKnown, PendingOf, GameMode
  <2>2. CASE o # s
    <3>1. /\ AllSent /\ view' = view /\ state'[o] = state[o] /\ player'[o] = player[o]
      BY <1>6, <2>2 DEF PlaysIn, Enters, Handling, GameTypeOK
    <3>2. QED
      BY <1>2, <1>3, <3>1
  <2>3. QED
    BY <2>1, <2>2
<1>7. ASSUME state'[o] = state[o], view'[o] = view[o], player' = player,
             Pending(o)' = Pending(o)
      PROVE  Good(o)
  BY <1>1, <1>7 DEF ModeKnown, ModeRight, PendingOf
<1>8. ASSUME NEW s \in Sessions, Closes(s) PROVE Good(o)
  <2>1. CASE o = s
    BY <1>8, <2>1 DEF Closes, Closed, GameTypeOK
  <2>2. CASE o # s
    <3>1. /\ state'[o] = state[o] /\ view'[o] = view[o] /\ player' = player
          /\ Pending(o)' = Pending(o)
      BY <1>8, <2>2 DEF Closes, Closed, GameTypeOK, Pending
    <3>2. QED
      BY <1>7, <3>1
  <2>3. QED
    BY <2>1, <2>2
<1>9. ASSUME NEW s \in Sessions, NEW p \in Packet, Delivers(s, p) PROVE Good(o)
  <2>1. UNCHANGED <<state, player>>
    BY <1>9 DEF Delivers
  <2>2. CASE o # s
    BY <1>7, <1>9, <2>1, <2>2, AfterDelivery DEF Others
  <2>3. CASE o = s /\ p.kind = "GameMode"
    <3>1. p.mode = player[s].mode
      BY <1>9, <2>3 DEF Delivers, Truthful, BlockUpdate, SetTime, GameMode, AddEntity,
                        EntityPositionSync, RemoveEntities, Note
    <3>2. view'[o].mode = p.mode
      BY <1>9, <2>3, AfterDelivery
    <3>3. QED
      BY <2>1, <2>3, <3>1, <3>2 DEF ModeKnown, ModeRight
  <2>4. CASE o = s /\ p.kind # "GameMode"
    <3>1. view'[o].mode = view[o].mode /\ Pending(o) \subseteq Pending(o)' \cup {p}
      BY <1>9, <2>4, AfterDelivery
    <3>2. PendingOf(o, {"GameMode"}) \subseteq PendingOf(o, {"GameMode"})'
      BY <2>4, <3>1 DEF PendingOf
    <3>3. QED
      BY <1>1, <2>1, <3>1, <3>2 DEF ModeKnown, ModeRight
  <2>5. QED
    BY <2>2, <2>3, <2>4
<1>10. CASE Rests
  BY <1>7, <1>10 DEF Rests, playVars, Pending
<1>11. QED
  BY <1>4, <1>5, <1>6, <1>8, <1>9, <1>10, PresentOnes, GameplayAssumption DEF Effect

(***************************************************************************)
(* The clock.                                                              *)
(***************************************************************************)
\* The difference to a clock that goes on by one grows by at most one.
LEMMA FallsBehind ==
    ASSUME NEW a \in Clock, NEW b \in Clock
    PROVE  (Int64(a + 1) - b) % (2 * TickLimit) <= ((a - b) % (2 * TickLimit)) + 1
<1>1. PICK next \in Clock : next = Int64(a + 1)
  BY WrapRange, WorldAssumption DEF Clock, Int64
<1>2. next = IF a = TickLimit - 1 THEN -TickLimit ELSE a + 1
  BY <1>1, NextAge
<1>3. (a - b) % (2 * TickLimit) = IF a >= b THEN a - b ELSE a - b + 2 * TickLimit
  BY Behind
<1>4. (next - b) % (2 * TickLimit) = IF next >= b THEN next - b ELSE next - b + 2 * TickLimit
  BY Behind
<1>5. (next - b) % (2 * TickLimit) <= ((a - b) % (2 * TickLimit)) + 1
  BY <1>2, <1>3, <1>4, WorldAssumption DEF Clock
<1>6. QED
  BY <1>1, <1>5

LEMMA ClockStep ==
    ASSUME GameInv, GameTypeOK', Effect
    PROVE  ClockInv'
<1> USE DEF GameInv
<1> DEFINE Good == \A o \in Present' : ClockKnown(o)'
<1> Present \subseteq Sessions
  BY PresentOnes
<1>1. Good => ClockInv'
  BY DEF ClockInv
<1>2. ASSUME NEW o \in Present PROVE ClockKnown(o) /\ (AllSent => ClockRight(o))
  BY AllTold DEF ClockInv
<1>3. ASSUME NEW o, ClockRight(o), view'[o].age = view[o].age, worldAge' = worldAge
      PROVE  ClockKnown(o)'
  BY <1>3 DEF ClockKnown, ClockRight, SinceTold
<1>4. ASSUME NEW o, ClockKnown(o), view'[o] = view[o], worldAge' = worldAge,
             Pending(o)' = Pending(o)
      PROVE  ClockKnown(o)'
  BY <1>4 DEF ClockKnown, ClockRight, SinceTold, PendingOf
<1>5. ASSUME AllSent, UNCHANGED <<view, worldAge>>, Present' \subseteq Present PROVE Good
  BY <1>2, <1>3, <1>5
<1>6. CASE \/ Talks
           \/ \E c \in Int, block \in BlockKinds : PlacesBlock(c, block)
           \/ \E s \in Present, place \in Places : MovesTo(s, place)
           \/ \E s \in Present, mode \in Modes : PlaysIn(s, mode)
  <2>1. AllSent /\ UNCHANGED <<view, worldAge, state, players>>
    BY <1>6 DEF Talks, PlacesBlock, SetBlock, MovesTo, PlaysIn, Handling, worldVars
  <2>2. Present' = Present
    BY <2>1, PresentKept
  <2>3. QED
    BY <1>1, <1>5, <2>1, <2>2
<1>7. ASSUME NEW s \in Sessions, Enters(s) \/ Leaves(s) PROVE Good
  <2>1. AllSent /\ UNCHANGED <<view, worldAge>>
    BY <1>7 DEF Enters, Leaves, Handling, worldVars
  <2>2. Present' \subseteq Present
    BY <1>7 DEF Enters, Leaves, Present, InPlay, NewcomerInv, GameTypeOK
  <2>3. QED
    BY <1>5, <2>1, <2>2
<1>8. ASSUME NEW s \in Sessions, Joins(s) PROVE Good
  <2>1. /\ AllSent /\ UNCHANGED <<view, worldAge>> /\ s \notin Present
        /\ Present' \subseteq Present \cup {s}
    BY <1>8 DEF Joins, Handling, worldVars, Present, InPlay
  <2>2. \A o \in Present : ClockKnown(o)'
    BY <1>2, <1>3, <2>1
  <2>3. SetTime(worldAge) \in Pending(s)'
    BY <1>8, <2>1 DEF Joins, Tells
  <2>4. ClockKnown(s)'
    BY <2>3 DEF ClockKnown, PendingOf, SetTime
  <2>5. QED
    BY <2>1, <2>2, <2>4
<1>9. CASE TellsTime
  <2>1. Present' = Present
    BY <1>9, PresentKept DEF TellsTime
  <2>2. ASSUME NEW o \in Present PROVE ClockKnown(o)'
    <3>1. SetTime(worldAge') \in Pending(o)'
      BY <1>9 DEF TellsTime, Tells
    <3>2. QED
      BY <3>1 DEF ClockKnown, PendingOf, SetTime
  <2>3. QED
    BY <1>1, <2>1, <2>2
<1>10. CASE Ages
  <2>1. /\ AllSent /\ view' = view /\ Present' = Present
        /\ worldAge' = Int64(worldAge + 1) /\ worldAge' % Rate # 0
    BY <1>10, PresentKept DEF Ages, Handling
  <2>2. PICK a \in Clock : a = worldAge
    BY DEF GameTypeOK, WorldTypeOK, Clock
  <2>3. PICK next \in Clock : next = worldAge' /\ next = Int64(a + 1)
    BY <2>1, <2>2 DEF GameTypeOK, WorldTypeOK, Clock
  <2>4. SinceTold(next) = SinceTold(a) + 1
    BY <2>1, <2>3, SinceToldGrows
  <2>5. ASSUME NEW o \in Present PROVE ClockKnown(o)'
    <3>1. PICK b \in Clock : b = view[o].age
      BY DEF GameTypeOK, View
    <3>2. (a - b) % (2 * TickLimit) <= SinceTold(a)
      BY <1>2, <2>1, <2>2, <3>1 DEF ClockRight
    <3>3. (next - b) % (2 * TickLimit) <= ((a - b) % (2 * TickLimit)) + 1
      BY <2>3, FallsBehind
    <3>4. /\ SinceTold(a) \in Int /\ (a - b) % (2 * TickLimit) \in Int
          /\ (next - b) % (2 * TickLimit) \in Int
      BY SinceToldIsShort, WorldAssumption DEF Clock
    <3>5. (next - b) % (2 * TickLimit) <= SinceTold(next)
      BY <2>4, <3>2, <3>3, <3>4
    <3>6. ClockRight(o)'
      BY <2>1, <2>3, <3>1, <3>5 DEF ClockRight, SinceTold
    <3>7. QED
      BY <3>6 DEF ClockKnown
  <2>6. QED
    BY <1>1, <2>1, <2>5
<1>11. ASSUME NEW s \in Sessions, Closes(s) PROVE Good
  <2>1. /\ UNCHANGED worldAge /\ Present' \subseteq Present \ {s}
        /\ \A o \in Others(s) : view'[o] = view[o] /\ Pending(o)' = Pending(o)
    BY <1>11 DEF Closes, Closed, Present, InPlay, Others, GameTypeOK, Pending, worldVars
  <2>2. ASSUME NEW o \in Present' PROVE ClockKnown(o)'
    <3>1. o \in Present /\ o \in Others(s)
      BY <2>1 DEF Others
    <3>2. QED
      BY <1>2, <1>4, <2>1, <3>1
  <2>3. QED
    BY <2>2
<1>12. ASSUME NEW s \in Sessions, NEW p \in Packet, Delivers(s, p) PROVE Good
  <2>1. /\ UNCHANGED worldAge /\ Present' = Present
        /\ \A o \in Others(s) : view'[o] = view[o] /\ Pending(o)' = Pending(o)
    BY <1>12, PresentKept, AfterDelivery DEF Delivers, worldVars
  <2>2. ASSUME NEW o \in Present PROVE ClockKnown(o)'
    <3>1. CASE o # s
      BY <1>2, <1>4, <2>1, <3>1 DEF Others
    <3>2. CASE o = s /\ p.kind = "SetTime"
      <4>1. p.age = worldAge
        BY <1>12, <3>2 DEF Delivers, Truthful, BlockUpdate, SetTime, GameMode, AddEntity,
                           EntityPositionSync, RemoveEntities, Note
      <4>2. view'[o].age = p.age
        BY <1>12, <3>2, AfterDelivery
      <4>3. PICK a \in Clock : a = worldAge
        BY DEF GameTypeOK, WorldTypeOK, Clock
      <4>4. (a - a) % (2 * TickLimit) = 0 /\ SinceTold(a) >= 0
        BY Behind, SinceToldIsShort DEF Clock
      <4>5. ClockRight(o)'
        BY <2>1, <4>1, <4>2, <4>3, <4>4 DEF ClockRight, SinceTold
      <4>6. QED
        BY <4>5 DEF ClockKnown
    <3>3. CASE o = s /\ p.kind # "SetTime"
      <4>1. view'[o].age = view[o].age /\ Pending(o) \subseteq Pending(o)' \cup {p}
        BY <1>12, <3>3, AfterDelivery
      <4>2. PendingOf(o, {"SetTime"}) \subseteq PendingOf(o, {"SetTime"})'
        BY <3>3, <4>1 DEF PendingOf
      <4>3. CASE ClockRight(o)
        BY <1>3, <2>1, <4>1, <4>3
      <4>4. CASE ~ClockRight(o)
        BY <1>2, <4>2, <4>4 DEF ClockKnown
      <4>5. QED
        BY <4>3, <4>4
    <3>4. QED
      BY <3>1, <3>2, <3>3
  <2>3. QED
    BY <2>1, <2>2
<1>13. CASE Rests
  <2>1. UNCHANGED <<worldAge, view>> /\ Present' = Present
    BY <1>13, PresentKept DEF Rests, worldVars, playVars
  <2>2. \A o \in Sessions : Pending(o)' = Pending(o)
    BY <1>13 DEF Rests, Pending
  <2>3. QED
    BY <1>1, <1>2, <1>4, <2>1, <2>2
<1>14. QED
  BY <1>1, <1>6, <1>7, <1>8, <1>9, <1>10, <1>11, <1>12, <1>13 DEF Effect

-----------------------------------------------------------------------------
(***************************************************************************)
(* The theorems.                                                           *)
(***************************************************************************)
LEMMA InitGame ==
    ASSUME Init
    PROVE  GameInv
<1>1. /\ players = {} /\ joining = NoSession
      /\ state = [s \in Sessions |-> "PlayPending"]
      /\ player = [s \in Sessions |-> [place |-> Spawn, mode |-> DefaultMode]]
      /\ snapshot = player
      /\ queued = [s \in Sessions |-> 0]
      /\ view = [s \in Sessions |-> EmptyView]
      /\ outgoing = [s \in Sessions |-> <<>>]
      /\ replay = [s \in Sessions |-> {}]
  BY DEF Init
<1>2. WorldTypeOK
  BY WorldAssumption DEF Init, WorldInit, WorldTypeOK
<1>3. player \in [Sessions -> Fields]
  BY <1>1, GameplayAssumption DEF Fields
<1>4. view \in [Sessions -> View] /\ queued \in [Sessions -> 0..OutboundCapacity]
  BY <1>1, NoView, GameplayAssumption
<1>5. outgoing \in [Sessions -> Seq(Packet)] /\ \A s \in Sessions : Pending(s) = {}
  BY <1>1, FewPackets DEF Pending
<1>6. GameTypeOK
  BY <1>1, <1>2, <1>3, <1>4, <1>5, FS_EmptySet DEF GameTypeOK
<1>7. TruthInv /\ Present = {}
  BY <1>1, <1>5 DEF TruthInv, Present
<1>8. NewcomerInv
  BY <1>1, <1>5 DEF NewcomerInv, Newcomer, EmptyView
<1>9. BlocksInv /\ EntitiesInv /\ ModeInv /\ ClockInv
  BY <1>1, <1>7 DEF BlocksInv, EntitiesInv, ModeInv, ClockInv
<1>10. QED
  BY <1>6, <1>7, <1>8, <1>9 DEF GameInv

LEMMA NextGame ==
    ASSUME GameInv, [Next]_vars
    PROVE  GameInv'
<1>1. GameTypeOK' /\ Effect
  BY StepEffect DEF GameInv
<1>2. QED
  BY <1>1, TruthStep, NewcomerStep, BlocksStep, EntitiesStep, ModeStep, ClockStep DEF GameInv

\* The inductive invariant: what is to be sent is true, and whatever a client
\* that is connected has wrong is to be sent to it (SendPacket, Broadcast and
\* the handlers of server.go, world.go and commands.go).
THEOREM ClientsCatchUp == Spec => []GameInv
<1>1. Init => GameInv
  BY InitGame
<1>2. GameInv /\ [Next]_vars => GameInv'
  BY NextGame
<1>3. QED
  BY <1>1, <1>2, PTL DEF Spec

\* The types of the world, the sessions, the players and the queues; a queue
\* never holds more than outboundQueueCapacity packets, and AddPlayer replays
\* only blocks that were set.
THEOREM GameplayTypeCorrect == Spec => []TypeOK
<1>1. GameInv => TypeOK
  BY DEF GameInv, GameTypeOK, TypeOK, Fields
<1>2. QED
  BY <1>1, ClientsCatchUp, PTL

\* Between two handlers a connected client has the block set last at every
\* position, those changed before AddPlayer replayed them to it included, in
\* whatever order the map is iterated over.
THEOREM ClientsSeeTheBlocks == Spec => []BlocksAgree
<1>1. GameInv => BlocksAgree
  <2> SUFFICES ASSUME GameInv, Idle, NEW s \in players, state[s] = "Play",
                      NEW c \in WirePositions
               PROVE  LET here == {p \in DOMAIN blocks : Packed(p) = c}
                      IN  IF here = {} THEN view[s].blocks[c] = Unmodified
                          ELSE view[s].blocks[c] \in {blocks[p] : p \in here}
    BY DEF BlocksAgree
  <2>1. s \in Present /\ AllSent
    BY PresentOnes DEF GameInv, Idle
  <2>2. BlockRight(s, c)
    BY <2>1, AllTold
  <2>3. QED
    BY <2>2 DEF BlockRight, BlocksAt
<1>2. QED
  BY <1>1, ClientsCatchUp, PTL

\* Between two handlers a connected client sees every other player that is
\* there, where it is, and none that has left, whoever joined, moved or failed
\* while something was being sent (AddPlayer, RemovePlayer, the moves).
THEOREM ClientsSeeThePlayers == Spec => []EntitiesAgree
<1>1. GameInv => EntitiesAgree
  <2> SUFFICES ASSUME GameInv, Idle, NEW s \in players, NEW o \in Others(s),
                      state[s] = "Play"
               PROVE  LET seen == view[s].entities[o]
                      IN  /\ seen = Nowhere \/ seen = player[o].place
                          /\ o \notin players => seen = Nowhere
                          /\ InPlay(o) => seen # Nowhere
    BY DEF EntitiesAgree
  <2>1. s \in Present /\ AllSent
    BY PresentOnes DEF GameInv, Idle
  <2>2. EntityRight(s, o)
    BY <2>1, AllTold
  <2>3. QED
    BY <2>2 DEF EntityRight, PlaceRight, AbsentRight, ShownRight
<1>2. QED
  BY <1>1, ClientsCatchUp, PTL

\* No connected client is as much as tick.DefaultRate ticks behind the age of
\* the world, when the int64 wraps and whatever the time command adds included.
THEOREM ClientsKnowTheTime == Spec => []ClockIsFresh
<1>1. GameInv => ClockIsFresh
  <2> SUFFICES ASSUME GameInv, Idle, NEW s \in players, state[s] = "Play"
               PROVE  (worldAge - view[s].age) % (2 * TickLimit) < Rate
    BY DEF ClockIsFresh
  <2>1. s \in Present /\ s \in Sessions /\ AllSent
    BY PresentOnes DEF GameInv, Idle
  <2>2. ClockRight(s)
    BY <2>1, AllTold
  <2>3. PICK a \in Clock, b \in Clock : a = worldAge /\ b = view[s].age
    BY <2>1 DEF GameInv, GameTypeOK, WorldTypeOK, Clock, View
  <2>4. (a - b) % (2 * TickLimit) <= SinceTold(a) /\ SinceTold(a) \in 0..Rate - 1
    BY <2>2, <2>3, SinceToldIsShort DEF ClockRight
  <2>5. (a - b) % (2 * TickLimit) \in Int
    BY WorldAssumption DEF Clock
  <2>6. (a - b) % (2 * TickLimit) < Rate
    BY <2>4, <2>5, GameplayAssumption
  <2>7. QED
    BY <2>3, <2>6
<1>2. QED
  BY <1>1, ClientsCatchUp, PTL

\* Between two handlers the snapshot is the tick owner's player, and the client
\* plays in the mode the server plays it in (publishPlayerSnapshot, SetGameMode).
THEOREM SnapshotsAreCurrent == Spec => []SnapshotIsCurrent
<1>1. GameInv => SnapshotIsCurrent
  <2> SUFFICES ASSUME GameInv, Idle, NEW s \in players
               PROVE  /\ snapshot[s] = player[s]
                      /\ state[s] = "Play" => view[s].mode = player[s].mode
    BY DEF SnapshotIsCurrent
  <2>1. snapshot = player /\ s \in Sessions /\ AllSent
    BY DEF GameInv, GameTypeOK, Idle
  <2>2. state[s] = "Play" => ModeRight(s)
    BY <2>1, AllTold
  <2>3. QED
    BY <2>1, <2>2 DEF ModeRight
<1>2. QED
  BY <1>1, ClientsCatchUp, PTL

=============================================================================
