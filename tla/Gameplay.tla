------------------------------ MODULE Gameplay ------------------------------
(***************************************************************************)
(* What clients see of the game: the tick owner's handlers of Play events, *)
(* the built-in commands, the joining and leaving of players, and the      *)
(* bounded outbound queue of every session.                                *)
(*                                                                         *)
(* A handler changes the tick-owned state at once and then sends packets,  *)
(* one SendPacket per step (outgoing, replay), while writers, keep-alives, *)
(* the console and failing connections go on.  Range visits the sessions   *)
(* in any order, so the packets of different sessions are sent in any      *)
(* order; those of one session keep theirs.  A queued packet is delivered  *)
(* in order or never, so view[s] is what the client of s will see once all *)
(* that was accepted has arrived, and the queue is only its length.        *)
(*                                                                         *)
(* The mailbox is left out: any event of a session that is in Play may be  *)
(* the next one, however old (Mailbox and PlayerLifecycle have the rest).  *)
(***************************************************************************)
EXTENDS World, Sequences, FiniteSets, SequencesExt

CONSTANTS
    Sessions, NoSession,
    Places, Spawn, Void, \* positions of players; Void is any below y = -10
    Modes, DefaultMode,  \* game modes
    OutboundCapacity,    \* outboundQueueCapacity
    JoinPackets,         \* initial packets beyond login and position
    HelpLines,           \* lines of the longest answer, /help
    Rate,                \* tick.DefaultRate, the period of the clock packets
    Times,               \* arguments of the time command
    MaxEvents            \* events of clients handled (bounds the run)

\* The clock wraps from a maximum that is not a multiple of the rate: the two
\* multiples around it must not be further apart than the rate.
ASSUME GameplayAssumption ==
    /\ {Spawn, Void} \subseteq Places
    /\ DefaultMode \in Modes
    /\ OutboundCapacity \in Nat \ {0} /\ {JoinPackets, HelpLines} \subseteq Nat
    /\ Rate \in Nat \ {0} /\ 2 * (TickLimit % Rate) <= Rate
    /\ Times \subseteq Nat
    /\ "nowhere" \notin Places /\ NoSession \notin Sessions

VARIABLES
    state,               \* PlayerSession.state
    players,             \* registered and in Server.players
    player,              \* tick-owned fields: position, gameMode
    snapshot,            \* what publishPlayerSnapshot stored last
    queued,              \* packets in sendChan
    view,                \* what the client of s makes of the packets accepted
    outgoing,            \* packets the running handler still has to send
    replay,              \* blocks AddPlayer still has to send
    joining,             \* the session in enterPlay, or NoSession
    events               \* events of clients handled so far

playVars == <<state, players, player, snapshot>>
sendVars == <<queued, view, outgoing, replay>>
vars == <<worldVars, playVars, sendVars, joining, events>>

(***************************************************************************)
(* Packets.  Note is one that only takes room: chat, keep-alive, commands. *)
(***************************************************************************)
BlockUpdate(c, block) == [kind |-> "BlockUpdate", at |-> Packed(c), block |-> block]
SetTime(age) == [kind |-> "SetTime", age |-> age]
GameMode(mode) == [kind |-> "GameMode", mode |-> mode]
AddEntity(s, place) == [kind |-> "Entity", of |-> s, place |-> place]
EntityPositionSync(s, place) == [kind |-> "Move", of |-> s, place |-> place]
RemoveEntities(s) == [kind |-> "Remove", of |-> s]
Note == [kind |-> "Note"]
Notes(n) == [i \in 1..n |-> Note]

Unmodified == "unmodified"
Nowhere == "nowhere"

\* The chunks show the platform as it was generated; others are not there yet.
EmptyView ==
    [blocks |-> [c \in WirePositions |-> Unmodified],
     entities |-> [s \in Sessions |-> Nowhere],
     mode |-> DefaultMode,
     age |-> 0]

Deliver(v, packet) ==
    CASE packet.kind = "BlockUpdate" -> [v EXCEPT !.blocks[packet.at] = packet.block]
      [] packet.kind = "SetTime" -> [v EXCEPT !.age = packet.age]
      [] packet.kind = "GameMode" -> [v EXCEPT !.mode = packet.mode]
      [] packet.kind = "Entity" -> [v EXCEPT !.entities[packet.of] = packet.place]
      [] packet.kind = "Move" ->
            IF v.entities[packet.of] = Nowhere THEN v
            ELSE [v EXCEPT !.entities[packet.of] = packet.place]
      [] packet.kind = "Remove" -> [v EXCEPT !.entities[packet.of] = Nowhere]
      [] packet.kind = "Note" -> v

Init ==
    /\ WorldInit
    /\ state = [s \in Sessions |-> "PlayPending"]
    /\ players = {}
    /\ player = [s \in Sessions |-> [place |-> Spawn, mode |-> DefaultMode]]
    /\ snapshot = player
    /\ queued = [s \in Sessions |-> 0]
    /\ view = [s \in Sessions |-> EmptyView]
    /\ outgoing = [s \in Sessions |-> <<>>]
    /\ replay = [s \in Sessions |-> {}]
    /\ joining = NoSession
    /\ events = 0

(***************************************************************************)
(* Who is sent what: sequences of packets by session.                      *)
(***************************************************************************)
InPlay(s) == s \in players /\ state[s] = "Play"

\* FindPlayer: the players a Range acts on.
Present == {s \in players : InPlay(s)}

To(s, packets) == [o \in Sessions |-> IF o = s THEN packets ELSE <<>>]

BroadcastTo(receivers, packets) ==
    [o \in Sessions |-> IF o \in receivers \cap Present THEN packets ELSE <<>>]

Others(s) == Sessions \ {s}

Then(first, second) == [o \in Sessions |-> first[o] \o second[o]]

\* What is sent to a closed session is refused.
Sends(packets) ==
    /\ outgoing' = [o \in Sessions |->
                        IF state[o] = "Closed" THEN <<>> ELSE packets[o]]
    /\ UNCHANGED <<queued, view, replay>>

AllSent == \A s \in Sessions : outgoing[s] = <<>> /\ replay[s] = {}

Idle == AllSent /\ joining = NoSession

(***************************************************************************)
(* SendPacket, the writer, and Close.                                      *)
(***************************************************************************)
Closed(s) ==
    /\ state' = [state EXCEPT ![s] = "Closed"]
    /\ queued' = [queued EXCEPT ![s] = 0]
    /\ view' = [view EXCEPT ![s] = EmptyView]
    /\ outgoing' = [outgoing EXCEPT ![s] = <<>>]
    /\ replay' = [replay EXCEPT ![s] = {}]

\* Mutant: a packet for a full queue is dropped and the session lives on.
AcceptOrDrop(s, packet) ==
    /\ IF queued[s] < OutboundCapacity
       THEN /\ queued' = [queued EXCEPT ![s] = @ + 1]
            /\ view' = [view EXCEPT ![s] = Deliver(@, packet)]
       ELSE UNCHANGED <<queued, view>>
    /\ UNCHANGED state

Accept(s, packet) ==
    /\ queued[s] < OutboundCapacity
    /\ queued' = [queued EXCEPT ![s] = @ + 1]
    /\ view' = [view EXCEPT ![s] = Deliver(@, packet)]
    /\ UNCHANGED state

Overflow(s) ==
    /\ queued[s] = OutboundCapacity
    /\ Closed(s)

\* The tick owner's next packet to s; the blocks of a join come in the order
\* of the iteration over a Go map.
SendNext(s) ==
    /\ \/ /\ outgoing[s] # <<>>
          /\ \/ /\ Accept(s, Head(outgoing[s]))
                /\ outgoing' = [outgoing EXCEPT ![s] = Tail(@)]
                /\ UNCHANGED replay
             \/ Overflow(s)
       \/ /\ outgoing[s] = <<>>
          /\ \E c \in replay[s] :
                \/ /\ Accept(s, BlockUpdate(c, blocks[c]))
                   /\ replay' = [replay EXCEPT ![s] = @ \ {c}]
                   /\ UNCHANGED outgoing
                \/ Overflow(s)
    /\ UNCHANGED <<worldVars, players, player, snapshot, joining, events>>

\* keepAliveLoop and the console send to a player of their own accord.
SendFromElsewhere(s) ==
    /\ InPlay(s)
    /\ \/ Accept(s, Note) /\ UNCHANGED <<outgoing, replay>>
       \/ Overflow(s)
    /\ UNCHANGED <<worldVars, players, player, snapshot, joining, events>>

WriteOne(s) ==
    /\ queued[s] > 0
    /\ queued' = [queued EXCEPT ![s] = @ - 1]
    /\ UNCHANGED <<worldVars, playVars, view, outgoing, replay, joining, events>>

\* A kick, or a failure of the connection.
Close(s) ==
    /\ state[s] # "Closed"
    /\ Closed(s)
    /\ UNCHANGED <<worldVars, players, player, snapshot, joining, events>>

(***************************************************************************)
(* Joining and leaving.                                                    *)
(***************************************************************************)
SetPlayer(s, fields) ==
    /\ player' = [player EXCEPT ![s] = fields]
    /\ snapshot' = [snapshot EXCEPT ![s] = fields]

EnterPlay(s) ==
    /\ Idle
    /\ state[s] = "PlayPending"
    /\ state' = [state EXCEPT ![s] = "Play"]
    /\ SetPlayer(s, [place |-> Spawn, mode |-> DefaultMode])
    /\ Sends(To(s, <<GameMode(DefaultMode)>> \o Notes(1 + JoinPackets)))
    /\ joining' = s
    /\ UNCHANGED <<worldVars, players, events>>

EnterFails(s) ==
    /\ joining = s
    /\ state[s] = "Closed"
    /\ s \notin players
    /\ joining' = NoSession
    /\ UNCHANGED <<worldVars, playVars, sendVars, events>>

\* Mutant: a newcomer is told that everybody stands where it stands.
AppearanceAtSpawn(s) == <<Note, AddEntity(s, Spawn)>>

\* PlayerInfoUpdate and AddEntity.
Appearance(s) == <<Note, AddEntity(s, player[s].place)>>

\* The appearances of all in a sequence of sessions, one after the other.
Appearances(present) ==
    [i \in 1..2 * Len(present) |-> Appearance(present[(i + 1) \div 2])[2 - (i % 2)]]

AddPlayer(s) ==
    /\ joining = s /\ AllSent
    /\ state[s] = "Play"
    /\ s \notin players
    /\ players' = players \cup {s}
    /\ outgoing' = Then(BroadcastTo(Others(s), Appearance(s)),
                        To(s, Appearances(SetToSeq(Present))
                                  \o <<Note, SetTime(worldAge)>>))
    /\ replay' = [replay EXCEPT ![s] = DOMAIN blocks]
    /\ UNCHANGED <<worldVars, state, player, snapshot, queued, view, joining, events>>

Welcome(s) ==
    /\ joining = s /\ AllSent
    /\ s \in players
    /\ Sends(Then(To(s, Notes(2)), BroadcastTo(Others(s), <<Note>>)))
    /\ joining' = NoSession
    /\ UNCHANGED <<worldVars, playVars, events>>

RemovePlayer(s) ==
    /\ Idle
    /\ s \in players /\ state[s] = "Closed"
    /\ players' = players \ {s}
    /\ Sends(BroadcastTo(Others(s), <<RemoveEntities(s), Note, Note>>))
    /\ UNCHANGED <<worldVars, state, player, snapshot, joining, events>>

(***************************************************************************)
(* The handlers of Play events.  Event(s) is runtimePlayerActive.          *)
(***************************************************************************)
Event(s) ==
    /\ Idle
    /\ InPlay(s)
    /\ events < MaxEvents
    /\ events' = events + 1
    /\ UNCHANGED <<state, players, joining>>

\* The acknowledgement is sent if the sequence number is not negative.
ChangeBlock(s, c, block) ==
    /\ SetBlock(c, block)
    /\ \E ack \in {<<>>, <<Note>>} :
           Sends(Then(BroadcastTo(Sessions, <<BlockUpdate(c, block)>>), To(s, ack)))
    /\ UNCHANGED <<player, snapshot>>

\* Status 0 starts digging and 2 ends it, the others are not posted.
PlayerAction(s) ==
    /\ Event(s)
    /\ \E c \in WirePositions : ChangeBlock(s, c, Air)

\* Faces 0, 2 and 4 are the lower side of an axis, 1, 3 and 5 the upper one;
\* what has no such face is not posted.
UseItemOn(s) ==
    /\ Event(s)
    /\ \E c \in WirePositions, side \in {-1, 1} : ChangeBlock(s, c + side, Bricks)

\* Mutant: the fields are set and the others told, the snapshot is forgotten.
TeleportUnpublished(s, place) ==
    /\ player' = [player EXCEPT ![s].place = place]
    /\ UNCHANGED snapshot
    /\ Sends(Then(To(s, <<Note, Note>>),
                  BroadcastTo(Others(s), <<EntityPositionSync(s, place)>>)))

Teleport(s, place) ==
    /\ SetPlayer(s, [player[s] EXCEPT !.place = place])
    /\ Sends(Then(To(s, <<Note, Note>>),
                  BroadcastTo(Others(s), <<EntityPositionSync(s, place)>>)))

\* A move without a position (a turn, a change of onGround) keeps it; whoever
\* is in the void afterwards is put back.
PlayerMove(s) ==
    /\ Event(s)
    /\ \E place \in Places \cup {player[s].place} :
          IF place = Void
          THEN Teleport(s, Spawn)
          ELSE /\ SetPlayer(s, [player[s] EXCEPT !.place = place])
               /\ Sends(BroadcastTo(Others(s), <<EntityPositionSync(s, place)>>))
    /\ UNCHANGED worldVars

\* /tp to coordinates or to a player, /spawn.
CmdTeleport(s) ==
    /\ Event(s)
    /\ \E place \in Places \cup {player[o].place : o \in Present} :
           Teleport(s, place)
    /\ UNCHANGED worldVars

CmdGameMode(s) ==
    /\ Event(s)
    /\ \E mode \in Modes :
          /\ SetPlayer(s, [player[s] EXCEPT !.mode = mode])
          /\ Sends(To(s, <<GameMode(mode), Note>>))
    /\ UNCHANGED worldVars

\* Mutant: the clients are left to find out.
AnnounceTimeToSender(s) == Sends(To(s, <<SetTime(worldAge'), Note>>))

AnnounceTime(s) ==
    Sends(Then(BroadcastTo(Sessions, <<SetTime(worldAge')>>), To(s, <<Note>>)))

CmdTimeSet(s) ==
    /\ Event(s)
    /\ \E t \in Times \cup {-t : t \in Times} : SetTimeOfDay(t)
    /\ AnnounceTime(s)
    /\ UNCHANGED <<player, snapshot>>

CmdTimeAdd(s) ==
    /\ Event(s)
    /\ \E t \in Times : AdvanceTime(t)
    /\ AnnounceTime(s)
    /\ UNCHANGED <<player, snapshot>>

Talk(s, packets) ==
    /\ Event(s)
    /\ Sends(packets)
    /\ UNCHANGED <<worldVars, player, snapshot>>

\* Chat and /say, a swing of the arm, and a command that only answers.
Chat(s) == Talk(s, BroadcastTo(Sessions, <<Note>>))

Swing(s) == Talk(s, BroadcastTo(Others(s), <<Note>>))

Answer(s) == \E lines \in {1, HelpLines} : Talk(s, To(s, Notes(lines)))

Handle(s) ==
    \/ PlayerAction(s) \/ UseItemOn(s) \/ PlayerMove(s)
    \/ CmdTeleport(s) \/ CmdGameMode(s) \/ CmdTimeSet(s) \/ CmdTimeAdd(s)
    \/ Chat(s) \/ Swing(s) \/ Answer(s)

\* The end of a tick: the clock goes on.
Tick ==
    /\ Idle
    /\ AdvanceTime(1)
    /\ Sends(BroadcastTo(Sessions,
                 IF worldAge' % Rate = 0 THEN <<SetTime(worldAge')>> ELSE <<>>))
    /\ UNCHANGED <<playVars, joining, events>>

Next ==
    \/ Tick
    \/ \E s \in Sessions :
          \/ SendNext(s) \/ SendFromElsewhere(s) \/ WriteOne(s) \/ Close(s)
          \/ EnterPlay(s) \/ EnterFails(s) \/ AddPlayer(s) \/ Welcome(s)
          \/ RemovePlayer(s) \/ Handle(s)

Spec == Init /\ [][Next]_vars

(***************************************************************************)
(* Properties.                                                             *)
(***************************************************************************)
TypeOK ==
    /\ WorldTypeOK
    /\ players \subseteq Sessions /\ joining \in Sessions \cup {NoSession}
    /\ \A s \in Sessions :
          /\ state[s] \in {"PlayPending", "Play", "Closed"}
          /\ player[s] \in [place : Places, mode : Modes]
          /\ queued[s] \in 0..OutboundCapacity
          /\ replay[s] \subseteq DOMAIN blocks

\* Between two handlers, whatever was sent to a client that is still connected
\* adds up to the world: at every position it can name it has the block set
\* last there, those changed before it joined included.  (Two coordinates
\* that are packed alike are one position to it; it has the block of either.)
BlocksAgree ==
    Idle => \A s \in players : state[s] = "Play" =>
        \A c \in WirePositions :
            LET here == {p \in DOMAIN blocks : Packed(p) = c}
            IN  IF here = {} THEN view[s].blocks[c] = Unmodified
                ELSE view[s].blocks[c] \in {blocks[p] : p \in here}

\* Between two handlers a connected client sees no player that has left, every
\* player that is there, and each where the server has it.
EntitiesAgree ==
    Idle => \A s \in players : \A o \in Others(s) : state[s] = "Play" =>
        LET seen == view[s].entities[o]
        IN  /\ seen = Nowhere \/ seen = player[o].place
            /\ o \notin players => seen = Nowhere
            /\ InPlay(o) => seen # Nowhere

\* World-time packets go out once per 20 ticks: no connected client is further
\* behind the world's age than that, however commands move the clock, and when
\* it wraps.
ClockIsFresh ==
    Idle => \A s \in players : state[s] = "Play" =>
        (worldAge - view[s].age) % (2 * TickLimit) < Rate

\* Between two handlers plugins and the console read what the tick owner has,
\* and the client plays in the mode the server plays it in.
SnapshotIsCurrent ==
    Idle => \A s \in players :
        /\ snapshot[s] = player[s]
        /\ state[s] = "Play" => view[s].mode = player[s].mode

\* "SendPacket ... treats a full outbound queue as a slow-client failure"
\* (docs/DEVLOG.md:92): what one event sends a client fits its empty queue, so
\* that only a client that is behind can overflow it.
EventFitsQueue ==
    \A s \in Sessions : Len(outgoing[s]) + Cardinality(replay[s]) <= OutboundCapacity
=============================================================================
