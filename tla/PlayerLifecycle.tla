--------------------------- MODULE PlayerLifecycle ---------------------------
(***************************************************************************)
(* The life of a client session, from accept to cleanup, across every      *)
(* goroutine that touches it: session.go, session_login.go, server.go and  *)
(* the lifecycle half of player_state.go.                                  *)
(*                                                                         *)
(* The goroutines are                                                      *)
(*   - the reader of each session, which runs the protocol state machine   *)
(*     and posts work for the tick owner (reader[s] is where it stands);   *)
(*   - the goroutine that won closeOnce and runs the rest of Close         *)
(*     (closing[s] is where it stands, closer[s] who it is);               *)
(*   - the tick owner, which drains the mailbox one event at a time        *)
(*     (tick, current, drained);                                           *)
(*   - the goroutine in Server.Stop (stop, unvisited).                     *)
(* An action is one atomic step of one of them: an atomic load, store or   *)
(* swap, a sync.Map operation, a mailbox operation.                        *)
(***************************************************************************)
EXTENDS Mailbox, Integers, FiniteSets

CONSTANTS
    Sessions,            \* the *PlayerSession objects accept can create
    Names,               \* lower-cased user names a client may log in with
    Unnamed,             \* the empty user name of a session before LoginStart
    NoSession,           \* nil
    MaxEventsPerTick,    \* maxRuntimeEventsPerTick
    MaxChats,            \* Play packets one client sends (bounds the run)
    MayStop,             \* does the operator ever stop the server?
    BarrierMayTimeOut    \* may waitRuntimeBarrier give up (a hung tick)?

ASSUME LifecycleAssumption ==
    /\ Unnamed \notin Names
    /\ NoSession \notin Sessions
    /\ MaxEventsPerTick \in Nat \ {0}
    /\ MaxChats \in Nat
    /\ MayStop \in BOOLEAN
    /\ BarrierMayTimeOut \in BOOLEAN

VARIABLES
    state,               \* PlayerSession.state, "None" before accept
    name,                \* PlayerSession.username, lower-cased
    configurationSent,   \* PlayerSession.configurationSent
    reader,              \* program counter of readLoop
    chats,               \* Play packets read so far (bounded by MaxChats)
    closeOnce,           \* PlayerSession.closeOnce
    closing,             \* program counter of the Close that won closeOnce
    closer,              \* the goroutine running that Close
    registered,          \* PlayerSession.registered
    removal,             \* program counter of removePlayerOwned
    players,             \* Server.players, keyed by name
    onlineCount,         \* Server.onlineCount
    tick,                \* program counter of the tick owner
    current,             \* session of the event the tick owner is applying
    drained,             \* events applied in this tick
    stop,                \* program counter of Server.Stop
    unvisited,           \* keys its players.Range has not reached yet
    barrierDone,         \* the barrier channel is closed
    joins, quits,        \* PlayerJoin / PlayerQuit deliveries to the plugin
    offTick              \* the plugin was called by a goroutine that is not
                         \* the tick owner

sessionVars == <<state, name, configurationSent, reader, chats>>
closeVars   == <<closeOnce, closing, closer>>
rosterVars  == <<registered, removal, players, onlineCount>>
tickVars    == <<tick, current, drained>>
stopVars    == <<stop, unvisited, barrierDone>>
pluginVars  == <<joins, quits, offTick>>

vars == <<mailboxVars, sessionVars, closeVars, rosterVars, tickVars, stopVars,
          pluginVars>>

Keys == Names \cup {Unnamed}

SessionState == {"None", "Handshake", "Status", "Login", "Config",
                 "PlayPending", "Play", "Closed"}

ReaderPc  == {"read", "postEnterPlay", "postChat", "close", "returned"}
ClosingPc == {"open", "store", "load", "reload", "running", "post", "owned",
              "closed"}
Closer    == {"nobody", "network", "tick", "stop"}
RemovalPc == {"none", "swap", "delete", "count", "announce", "over"}
TickPc    == {"between", "drain", "enter", "publish", "initial", "recheck",
              "register", "store", "duplicate", "duplicateClose", "verify",
              "unstore", "unregister", "count", "announce", "welcome",
              "remove", "check", "apply", "finish", "exited"}
StopPc    == {"up", "listener", "broadcast", "range", "barrier", "wait",
              "halt", "join", "disable", "stopped"}

RuntimeEvent == [kind : {"EnterPlay", "RemovePlayer", "PlayerChat"},
                 session : Sessions]
                \cup [kind : {"Barrier"}, session : {NoSession}]

EnterPlayOf(s)    == [kind |-> "EnterPlay", session |-> s]
RemovePlayerOf(s) == [kind |-> "RemovePlayer", session |-> s]
ChatOf(s)         == [kind |-> "PlayerChat", session |-> s]
Barrier           == [kind |-> "Barrier", session |-> NoSession]

(***************************************************************************)
(* What the program counter of Stop says about the flags only Stop writes. *)
(***************************************************************************)
Listening      == stop \in {"up", "listener"}
StopChClosed   == stop \in {"join", "disable", "stopped"}
LoopRunning    == stop \notin {"disable", "stopped"}
PluginsEnabled == stop # "stopped"

(* A goroutine inside Close runs nothing else until Close returns. *)
Busy(who) == \E s \in Sessions :
                closer[s] = who /\ closing[s] \notin {"open", "closed"}

Init ==
    /\ MailboxInit
    /\ state = [s \in Sessions |-> "None"]
    /\ name = [s \in Sessions |-> Unnamed]
    /\ configurationSent = [s \in Sessions |-> FALSE]
    /\ reader = [s \in Sessions |-> "read"]
    /\ chats = [s \in Sessions |-> 0]
    /\ closeOnce = [s \in Sessions |-> FALSE]
    /\ closing = [s \in Sessions |-> "open"]
    /\ closer = [s \in Sessions |-> "nobody"]
    /\ registered = [s \in Sessions |-> FALSE]
    /\ removal = [s \in Sessions |-> "none"]
    /\ players = [k \in Keys |-> NoSession]
    /\ onlineCount = 0
    /\ tick = "between"
    /\ current = NoSession
    /\ drained = 0
    /\ stop = "up"
    /\ unvisited = {}
    /\ barrierDone = FALSE
    /\ joins = [s \in Sessions |-> 0]
    /\ quits = [s \in Sessions |-> 0]
    /\ offTick = FALSE

-----------------------------------------------------------------------------
(***************************************************************************)
(* The network side: accept and the reader goroutine of a session.         *)
(***************************************************************************)
Accept(s) ==
    /\ Listening
    /\ state[s] = "None"
    /\ state' = [state EXCEPT ![s] = "Handshake"]
    /\ UNCHANGED <<mailboxVars, name, configurationSent, reader, chats,
                   closeVars, rosterVars, tickVars, stopVars, pluginVars>>

Reading(s) == reader[s] = "read"

Transition(s, from, to) ==
    /\ state[s] = from
    /\ state' = [state EXCEPT ![s] = to]

HandleHandshake(s) ==
    /\ Reading(s)
    /\ \E intent \in {"Status", "Login"} : Transition(s, "Handshake", intent)
    /\ UNCHANGED <<mailboxVars, name, configurationSent, reader, chats,
                   closeVars, rosterVars, tickVars, stopVars, pluginVars>>

\* LoginStart only stores the name; nothing stops a client from sending it
\* again, or from skipping it.
HandleLoginStart(s) ==
    /\ Reading(s)
    /\ state[s] = "Login"
    /\ \E n \in Names : name' = [name EXCEPT ![s] = n]
    /\ UNCHANGED <<mailboxVars, state, configurationSent, reader, chats,
                   closeVars, rosterVars, tickVars, stopVars, pluginVars>>

HandleLoginAcknowledged(s) ==
    /\ Reading(s)
    /\ Transition(s, "Login", "Config")
    /\ UNCHANGED <<mailboxVars, name, configurationSent, reader, chats,
                   closeVars, rosterVars, tickVars, stopVars, pluginVars>>

\* A second KnownPacks closes the session.
HandleKnownPacks(s) ==
    /\ Reading(s)
    /\ state[s] = "Config"
    /\ \/ /\ ~configurationSent[s]
          /\ configurationSent' = [configurationSent EXCEPT ![s] = TRUE]
          /\ UNCHANGED reader
       \/ /\ configurationSent[s]
          /\ reader' = [reader EXCEPT ![s] = "close"]
          /\ UNCHANGED configurationSent
    /\ UNCHANGED <<mailboxVars, state, name, chats, closeVars, rosterVars,
                   tickVars, stopVars, pluginVars>>

\* FinishConfiguration is accepted only after the configuration was sent; the
\* Config -> PlayPending CAS comes first and the post is a step of its own.
HandleFinishConfig(s) ==
    /\ Reading(s)
    /\ \/ /\ configurationSent[s]
          /\ Transition(s, "Config", "PlayPending")
          /\ reader' = [reader EXCEPT ![s] = "postEnterPlay"]
       \/ /\ state[s] = "Config"
          /\ ~configurationSent[s]
          /\ reader' = [reader EXCEPT ![s] = "close"]
          /\ UNCHANGED state
    /\ UNCHANGED <<mailboxVars, name, configurationSent, chats, closeVars,
                   rosterVars, tickVars, stopVars, pluginVars>>

\* Mutant: a full mailbox is ignored instead of closing the session.
PostEnterPlayIgnoresFull(s) ==
    /\ reader[s] = "postEnterPlay"
    /\ reader' = [reader EXCEPT ![s] = "read"]
    /\ \/ TryPost(EnterPlayOf(s))
       \/ Full /\ UNCHANGED mailboxVars
    /\ UNCHANGED <<state, name, configurationSent, chats, closeVars,
                   rosterVars, tickVars, stopVars, pluginVars>>

\* TryPost of EnterPlay; when the mailbox is full the reader closes.
PostEnterPlay(s) ==
    /\ reader[s] = "postEnterPlay"
    /\ \/ /\ TryPost(EnterPlayOf(s))
          /\ reader' = [reader EXCEPT ![s] = "read"]
       \/ /\ Full
          /\ reader' = [reader EXCEPT ![s] = "close"]
          /\ UNCHANGED mailboxVars
    /\ UNCHANGED <<state, name, configurationSent, chats, closeVars,
                   rosterVars, tickVars, stopVars, pluginVars>>

\* postPlayerRuntime: the state is read first, the value posted afterwards.
HandlePlayChat(s) ==
    /\ Reading(s)
    /\ state[s] = "Play"
    /\ chats[s] < MaxChats
    /\ chats' = [chats EXCEPT ![s] = @ + 1]
    /\ reader' = [reader EXCEPT ![s] = "postChat"]
    /\ UNCHANGED <<mailboxVars, state, name, configurationSent, closeVars,
                   rosterVars, tickVars, stopVars, pluginVars>>

PostChat(s) ==
    /\ reader[s] = "postChat"
    /\ \/ /\ TryPost(ChatOf(s))
          /\ reader' = [reader EXCEPT ![s] = "read"]
       \/ /\ Full
          /\ reader' = [reader EXCEPT ![s] = "close"]
          /\ UNCHANGED mailboxVars
    /\ UNCHANGED <<state, name, configurationSent, chats, closeVars,
                   rosterVars, tickVars, stopVars, pluginVars>>

-----------------------------------------------------------------------------
(***************************************************************************)
(* Close: one goroutine wins closeOnce and runs the remaining steps.       *)
(***************************************************************************)
BeginClose(s, who) ==
    /\ ~closeOnce[s]
    /\ closeOnce' = [closeOnce EXCEPT ![s] = TRUE]
    /\ closing' = [closing EXCEPT ![s] = "store"]
    /\ closer' = [closer EXCEPT ![s] = who]

\* The reader's own Close calls; when another goroutine was first it returns.
ReaderClose(s) ==
    /\ reader[s] = "close"
    /\ reader' = [reader EXCEPT ![s] = "returned"]
    /\ \/ BeginClose(s, "network")
       \/ closeOnce[s] /\ UNCHANGED closeVars
    /\ UNCHANGED <<mailboxVars, state, name, configurationSent, chats,
                   rosterVars, tickVars, stopVars, pluginVars>>

\* A read or write error, a deadline, a kick from the console, or an outbound
\* queue that another goroutine than the tick owner and Stop finds full.
NetworkClose(s) ==
    /\ state[s] # "None"
    /\ BeginClose(s, "network")
    /\ UNCHANGED <<mailboxVars, sessionVars, rosterVars, tickVars, stopVars,
                   pluginVars>>

CloseStep(s, from, to) ==
    /\ closing[s] = from
    /\ closing' = [closing EXCEPT ![s] = to]
    /\ UNCHANGED <<closeOnce, closer>>

\* state.Store(StateClosed), close(done), conn.Close.
CloseStore(s) ==
    /\ CloseStep(s, "store", "load")
    /\ state' = [state EXCEPT ![s] = "Closed"]
    /\ UNCHANGED <<mailboxVars, name, configurationSent, reader, chats,
                   rosterVars, tickVars, stopVars, pluginVars>>

\* registered.Load: only a published session has cleanup to ask for.  Close
\* looks first, and RemovePlayer once more.
CloseLoad(s) ==
    /\ \/ CloseStep(s, "load", IF registered[s] THEN "reload" ELSE "closed")
       \/ CloseStep(s, "reload", IF registered[s] THEN "running" ELSE "closed")
    /\ UNCHANGED <<mailboxVars, sessionVars, rosterVars, tickVars, stopVars,
                   pluginVars>>

\* Mutant: the network goroutine removes the player although the loop runs.
CloseRunningRemovesDirectly(s) ==
    /\ CloseStep(s, "running", "owned")
    /\ removal' = [removal EXCEPT ![s] = "swap"]
    /\ UNCHANGED <<mailboxVars, sessionVars, registered, players, onlineCount,
                   tickVars, stopVars, pluginVars>>

\* RemovePlayer: with the loop running the removal is posted, without it the
\* caller removes the player itself.
CloseRunning(s) ==
    /\ CloseStep(s, "running", IF LoopRunning THEN "post" ELSE "owned")
    /\ removal' = IF LoopRunning THEN removal
                                 ELSE [removal EXCEPT ![s] = "swap"]
    /\ UNCHANGED <<mailboxVars, sessionVars, registered, players, onlineCount,
                   tickVars, stopVars, pluginVars>>

\* Mutant: the cleanup goes through the bounded lane and is dropped when full.
ClosePostDropsWhenFull(s) ==
    /\ CloseStep(s, "post", "closed")
    /\ \/ TryPost(RemovePlayerOf(s))
       \/ Full /\ UNCHANGED mailboxVars
    /\ UNCHANGED <<sessionVars, rosterVars, tickVars, stopVars, pluginVars>>

ClosePost(s) ==
    /\ CloseStep(s, "post", "closed")
    /\ PostCritical(RemovePlayerOf(s))
    /\ UNCHANGED <<sessionVars, rosterVars, tickVars, stopVars, pluginVars>>

-----------------------------------------------------------------------------
(***************************************************************************)
(* removePlayerOwned, run by the tick owner for a RemovePlayer event or by *)
(* the closing goroutine when the loop does not run.                       *)
(***************************************************************************)
ByTick(s)   == tick = "remove" /\ current = s
ByCloser(s) == closing[s] = "owned"

\* Go on to pc, or return to the caller when pc is "over".
RemovalStep(s, pc) ==
    /\ removal' = [removal EXCEPT ![s] = pc]
    /\ tick' = IF pc = "over" /\ ByTick(s) THEN "drain" ELSE tick
    /\ current' = IF pc = "over" /\ ByTick(s) THEN NoSession ELSE current
    /\ closing' = IF pc = "over" /\ ByCloser(s)
                  THEN [closing EXCEPT ![s] = "closed"] ELSE closing
    /\ UNCHANGED <<closeOnce, closer, drained>>

RemoveSwap(s) ==
    /\ removal[s] = "swap"
    /\ RemovalStep(s, IF registered[s] THEN "delete" ELSE "over")
    /\ registered' = [registered EXCEPT ![s] = FALSE]
    /\ UNCHANGED <<mailboxVars, sessionVars, players, onlineCount, stopVars,
                   pluginVars>>

RemoveDelete(s) ==
    /\ removal[s] = "delete"
    /\ LET mine == players[name[s]] = s
       IN  /\ RemovalStep(s, IF mine THEN "count" ELSE "over")
           /\ players' = IF mine THEN [players EXCEPT ![name[s]] = NoSession]
                                 ELSE players
    /\ UNCHANGED <<mailboxVars, sessionVars, registered, onlineCount, stopVars,
                   pluginVars>>

RemoveCount(s) ==
    /\ removal[s] = "count"
    /\ RemovalStep(s, "announce")
    /\ onlineCount' = onlineCount - 1
    /\ UNCHANGED <<mailboxVars, sessionVars, registered, players, stopVars,
                   pluginVars>>

\* The packets to the other players, then PlayerQuit.
RemoveAnnounce(s) ==
    /\ removal[s] = "announce"
    /\ ByTick(s) => ~Busy("tick")
    /\ RemovalStep(s, "over")
    /\ quits' = [quits EXCEPT ![s] = IF PluginsEnabled THEN @ + 1 ELSE @]
    /\ offTick' = (offTick \/ (PluginsEnabled /\ ~ByTick(s)))
    /\ UNCHANGED <<mailboxVars, sessionVars, registered, players, onlineCount,
                   stopVars, joins>>

-----------------------------------------------------------------------------
(***************************************************************************)
(* The tick owner: drainRuntimeEvents between two waits of the loop.       *)
(***************************************************************************)
TickStep(from, to) ==
    /\ tick = from
    /\ ~Busy("tick")
    /\ tick' = to
    /\ current' = IF to = "drain" THEN NoSession ELSE current
    /\ UNCHANGED drained

TickStart ==
    /\ tick = "between"
    /\ tick' = "drain"
    /\ UNCHANGED <<mailboxVars, sessionVars, closeVars, rosterVars, current,
                   drained, stopVars, pluginVars>>

TickExit ==
    /\ StopChClosed
    /\ TickStep("between", "exited")
    /\ UNCHANGED <<mailboxVars, sessionVars, closeVars, rosterVars, stopVars,
                   pluginVars>>

\* Mutant: applyRuntimeEvent does not close the barrier channel.
ApplyForgetsBarrier(e) ==
    /\ current' = e.session
    /\ drained' = drained + 1
    /\ tick' = CASE e.kind = "EnterPlay"    -> "enter"
                 [] e.kind = "RemovePlayer" -> "remove"
                 [] e.kind = "PlayerChat"   -> "check"
                 [] e.kind = "Barrier"      -> "drain"
    /\ removal' = IF e.kind = "RemovePlayer"
                  THEN [removal EXCEPT ![e.session] = "swap"] ELSE removal
    /\ UNCHANGED <<sessionVars, closeVars, registered, players, onlineCount,
                   stopVars, pluginVars>>

\* applyRuntimeEvent: hand the event to its handler.
Apply(e) ==
    /\ current' = e.session
    /\ drained' = drained + 1
    /\ tick' = CASE e.kind = "EnterPlay"    -> "enter"
                 [] e.kind = "RemovePlayer" -> "remove"
                 [] e.kind = "PlayerChat"   -> "check"
                 [] e.kind = "Barrier"      -> "drain"
    /\ removal' = IF e.kind = "RemovePlayer"
                  THEN [removal EXCEPT ![e.session] = "swap"] ELSE removal
    /\ barrierDone' = (barrierDone \/ e.kind = "Barrier")
    /\ UNCHANGED <<sessionVars, closeVars, registered, players, onlineCount,
                   stop, unvisited, pluginVars>>

Draining == tick = "drain" /\ drained < MaxEventsPerTick

DrainCritical ==
    /\ Draining
    /\ LET e == Head(critical) IN PopCritical(e) /\ Apply(e)

DrainPass ==
    /\ Draining
    /\ PassCritical
    /\ UNCHANGED <<sessionVars, closeVars, rosterVars, tickVars, stopVars,
                   pluginVars>>

DrainOrdinary ==
    /\ Draining
    /\ LET e == Head(values) IN PopOrdinary(e) /\ Apply(e)

DrainEmpty ==
    /\ Draining
    /\ PopNothing
    /\ tick' = "finish"
    /\ UNCHANGED <<sessionVars, closeVars, rosterVars, current, drained,
                   stopVars, pluginVars>>

DrainLimit ==
    /\ drained = MaxEventsPerTick
    /\ TickStep("drain", "finish")
    /\ UNCHANGED <<mailboxVars, sessionVars, closeVars, rosterVars, stopVars,
                   pluginVars>>

\* The rest of Server.tick: plugin tasks, world time and its broadcast.
TickFinish ==
    /\ tick = "finish"
    /\ ~Busy("tick")
    /\ tick' = "between"
    /\ drained' = 0
    /\ UNCHANGED <<mailboxVars, sessionVars, closeVars, rosterVars, current,
                   stopVars, pluginVars>>

\* A session whose outbound queue is full when the tick owner sends to it: the
\* tick owner runs its Close before it goes on.  The receivers are the players
\* in Play, and the session being initialised.
TickOverflow(s) ==
    /\ ~Busy("tick")
    /\ tick = "remove" => removal[current] = "announce"
    /\ \/ s = current /\ tick \in {"initial", "announce", "welcome"}
       \/ /\ state[s] = "Play" /\ players[name[s]] = s
          /\ tick \in {"announce", "welcome", "apply", "remove", "finish"}
    /\ state[s] # "Closed"
    /\ BeginClose(s, "tick")
    /\ UNCHANGED <<mailboxVars, sessionVars, rosterVars, tickVars, stopVars,
                   pluginVars>>

-----------------------------------------------------------------------------
(***************************************************************************)
(* EnterPlay: enterPlay and the AddPlayer it calls, for session current.   *)
(***************************************************************************)
Publishable(s) == state[s] = "Play" /\ ~closeOnce[s]

EnterCheck ==
    /\ TickStep("enter", IF state[current] = "PlayPending" /\ ~closeOnce[current]
                         THEN "publish" ELSE "drain")
    /\ UNCHANGED <<mailboxVars, sessionVars, closeVars, rosterVars, stopVars,
                   pluginVars>>

\* Mutant: a plain Store instead of the CAS.
EnterPublishStores ==
    /\ TickStep("publish", "initial")
    /\ state' = [state EXCEPT ![current] = "Play"]
    /\ UNCHANGED <<mailboxVars, name, configurationSent, reader, chats,
                   closeVars, rosterVars, stopVars, pluginVars>>

\* The PlayPending -> Play CAS.
EnterPublish ==
    /\ \/ /\ TickStep("publish", "initial")
          /\ Transition(current, "PlayPending", "Play")
       \/ /\ TickStep("publish", "drain")
          /\ state[current] # "PlayPending"
          /\ UNCHANGED state
    /\ UNCHANGED <<mailboxVars, name, configurationSent, reader, chats,
                   closeVars, rosterVars, stopVars, pluginVars>>

\* sendInitialPlayPackets: gives up as soon as the session is closed.
EnterInitial ==
    /\ TickStep("initial", IF state[current] = "Closed" THEN "drain" ELSE "recheck")
    /\ UNCHANGED <<mailboxVars, sessionVars, closeVars, rosterVars, stopVars,
                   pluginVars>>

\* The same test twice in a row, at the end of enterPlay and in AddPlayer.
EnterRecheck ==
    /\ TickStep("recheck", IF Publishable(current) THEN "register" ELSE "drain")
    /\ UNCHANGED <<mailboxVars, sessionVars, closeVars, rosterVars, stopVars,
                   pluginVars>>

\* registered.CompareAndSwap(false, true).
AddRegister ==
    /\ TickStep("register", IF registered[current] THEN "drain" ELSE "store")
    /\ registered' = [registered EXCEPT ![current] = TRUE]
    /\ UNCHANGED <<mailboxVars, sessionVars, closeVars, removal, players,
                   onlineCount, stopVars, pluginVars>>

\* Mutant: players.Store, which overwrites a player of the same name.
AddStoreOverwrites ==
    /\ TickStep("store", "verify")
    /\ players' = [players EXCEPT ![name[current]] = current]
    /\ UNCHANGED <<mailboxVars, sessionVars, closeVars, registered, removal,
                   onlineCount, stopVars, pluginVars>>

\* players.LoadOrStore.
AddStore ==
    /\ \/ /\ TickStep("store", "verify")
          /\ players[name[current]] = NoSession
          /\ players' = [players EXCEPT ![name[current]] = current]
       \/ /\ TickStep("store", "duplicate")
          /\ players[name[current]] # NoSession
          /\ UNCHANGED players
    /\ UNCHANGED <<mailboxVars, sessionVars, closeVars, registered, removal,
                   onlineCount, stopVars, pluginVars>>

\* Mutant: the registered flag of the rejected session is left set.
AddDuplicateKeepsFlag ==
    /\ TickStep("duplicate", "duplicateClose")
    /\ UNCHANGED <<mailboxVars, sessionVars, closeVars, rosterVars, stopVars,
                   pluginVars>>

\* The name is taken: registered.Store(false), a Disconnect packet, Close.
AddDuplicate ==
    /\ TickStep("duplicate", "duplicateClose")
    /\ registered' = [registered EXCEPT ![current] = FALSE]
    /\ UNCHANGED <<mailboxVars, sessionVars, closeVars, removal, players,
                   onlineCount, stopVars, pluginVars>>

AddDuplicateClose ==
    /\ TickStep("duplicateClose", "drain")
    /\ \/ BeginClose(current, "tick")
       \/ closeOnce[current] /\ UNCHANGED closeVars
    /\ UNCHANGED <<mailboxVars, sessionVars, rosterVars, stopVars, pluginVars>>

\* Mutant: no second look at the session after it was stored.
AddVerifyTrusts ==
    /\ TickStep("verify", "count")
    /\ UNCHANGED <<mailboxVars, sessionVars, closeVars, rosterVars, stopVars,
                   pluginVars>>

\* A Close may have raced with the registration: undo it.
AddVerify ==
    /\ TickStep("verify", IF Publishable(current) THEN "count" ELSE "unstore")
    /\ UNCHANGED <<mailboxVars, sessionVars, closeVars, rosterVars, stopVars,
                   pluginVars>>

AddUnstore ==
    /\ TickStep("unstore", "unregister")
    /\ players' = IF players[name[current]] = current
                  THEN [players EXCEPT ![name[current]] = NoSession] ELSE players
    /\ UNCHANGED <<mailboxVars, sessionVars, closeVars, registered, removal,
                   onlineCount, stopVars, pluginVars>>

AddUnregister ==
    /\ TickStep("unregister", "drain")
    /\ registered' = [registered EXCEPT ![current] = FALSE]
    /\ UNCHANGED <<mailboxVars, sessionVars, closeVars, removal, players,
                   onlineCount, stopVars, pluginVars>>

AddCount ==
    /\ TickStep("count", "announce")
    /\ onlineCount' = onlineCount + 1
    /\ UNCHANGED <<mailboxVars, sessionVars, closeVars, registered, removal,
                   players, stopVars, pluginVars>>

\* The packets to and about the other players, then PlayerJoin.
AddAnnounce ==
    /\ TickStep("announce", "welcome")
    /\ joins' = [joins EXCEPT ![current] = @ + 1]
    /\ UNCHANGED <<mailboxVars, sessionVars, closeVars, rosterVars, stopVars,
                   quits, offTick>>

EnterWelcome ==
    /\ TickStep("welcome", "drain")
    /\ UNCHANGED <<mailboxVars, sessionVars, closeVars, rosterVars, stopVars,
                   pluginVars>>

(***************************************************************************)
(* A Play event: runtimePlayerActive, then the event and its broadcast.    *)
(***************************************************************************)
\* Mutant: runtimePlayerActive looks at the state only.
PlayCheckStateOnly ==
    /\ TickStep("check", IF state[current] = "Play" THEN "apply" ELSE "drain")
    /\ UNCHANGED <<mailboxVars, sessionVars, closeVars, rosterVars, stopVars,
                   pluginVars>>

PlayCheck ==
    /\ TickStep("check", IF state[current] = "Play" /\ registered[current]
                         THEN "apply" ELSE "drain")
    /\ UNCHANGED <<mailboxVars, sessionVars, closeVars, rosterVars, stopVars,
                   pluginVars>>

PlayApply ==
    /\ TickStep("apply", "drain")
    /\ UNCHANGED <<mailboxVars, sessionVars, closeVars, rosterVars, stopVars,
                   pluginVars>>

-----------------------------------------------------------------------------
(***************************************************************************)
(* Server.Stop.                                                            *)
(***************************************************************************)
StopStep(from, to) ==
    /\ stop = from
    /\ ~Busy("stop")
    /\ stop' = to
    /\ UNCHANGED <<mailboxVars, sessionVars, rosterVars, tickVars, pluginVars>>

\* running.Swap(false).
StopBegin ==
    /\ MayStop
    /\ StopStep("up", "listener")
    /\ UNCHANGED <<closeVars, unvisited, barrierDone>>

StopListener ==
    /\ StopStep("listener", "broadcast")
    /\ UNCHANGED <<closeVars, unvisited, barrierDone>>

\* A player whose outbound queue the shutdown message overflows.
StopOverflow(s) ==
    /\ StopStep("broadcast", "broadcast")
    /\ state[s] = "Play"
    /\ players[name[s]] = s
    /\ BeginClose(s, "stop")
    /\ UNCHANGED <<unvisited, barrierDone>>

StopBroadcast ==
    /\ StopStep("broadcast", "range")
    /\ unvisited' = Keys
    /\ UNCHANGED <<closeVars, barrierDone>>

\* players.Range visits each key once, in any order, and sees the value it
\* has at that moment; the session found there is disconnected and closed.
StopVisit(k) ==
    /\ StopStep("range", "range")
    /\ k \in unvisited
    /\ unvisited' = unvisited \ {k}
    /\ \/ /\ players[k] # NoSession
          /\ BeginClose(players[k], "stop")
       \/ /\ players[k] # NoSession => closeOnce[players[k]]
          /\ UNCHANGED closeVars
    /\ UNCHANGED barrierDone

StopRangeDone ==
    /\ StopStep("range", "barrier")
    /\ unvisited = {}
    /\ UNCHANGED <<closeVars, unvisited, barrierDone>>

\* waitRuntimeBarrier: the loop runs, so the barrier is posted.
StopPostBarrier ==
    /\ stop = "barrier"
    /\ stop' = "wait"
    /\ PostCritical(Barrier)
    /\ UNCHANGED <<sessionVars, closeVars, rosterVars, tickVars, unvisited,
                   barrierDone, pluginVars>>

StopBarrierDone ==
    /\ StopStep("wait", "halt")
    /\ barrierDone
    /\ UNCHANGED <<closeVars, unvisited, barrierDone>>

StopBarrierTimeout ==
    /\ BarrierMayTimeOut
    /\ StopStep("wait", "halt")
    /\ UNCHANGED <<closeVars, unvisited, barrierDone>>

\* tickLoop.Stop: close(stopCh), wait for doneCh, running.Store(false).
StopCloseStopCh ==
    /\ StopStep("halt", "join")
    /\ UNCHANGED <<closeVars, unvisited, barrierDone>>

StopJoin ==
    /\ StopStep("join", "disable")
    /\ tick = "exited"
    /\ UNCHANGED <<closeVars, unvisited, barrierDone>>

StopDisablePlugins ==
    /\ StopStep("disable", "stopped")
    /\ UNCHANGED <<closeVars, unvisited, barrierDone>>

-----------------------------------------------------------------------------
Enter == \/ EnterCheck \/ EnterPublish \/ EnterInitial \/ EnterRecheck
         \/ EnterWelcome

AddPlayer == \/ AddRegister \/ AddStore \/ AddDuplicate \/ AddDuplicateClose
             \/ AddVerify \/ AddUnstore \/ AddUnregister
             \/ AddCount \/ AddAnnounce

Drain == DrainCritical \/ DrainPass \/ DrainOrdinary \/ DrainEmpty \/ DrainLimit

Tick == \/ TickStart \/ Drain \/ Enter \/ AddPlayer \/ PlayCheck \/ PlayApply
        \/ TickFinish

Close(s) == CloseStore(s) \/ CloseLoad(s) \/ CloseRunning(s) \/ ClosePost(s)

RemovePlayerOwned(s) == \/ RemoveSwap(s) \/ RemoveDelete(s) \/ RemoveCount(s)
                        \/ RemoveAnnounce(s)

ReaderPost(s) == PostEnterPlay(s) \/ PostChat(s) \/ ReaderClose(s)

Read(s) == \/ HandleHandshake(s) \/ HandleLoginStart(s)
           \/ HandleLoginAcknowledged(s) \/ HandleKnownPacks(s)
           \/ HandleFinishConfig(s) \/ HandlePlayChat(s)

Stop == \/ StopListener \/ StopBroadcast \/ StopRangeDone
        \/ (\E k \in Keys : StopVisit(k))
        \/ StopPostBarrier \/ StopBarrierDone \/ StopBarrierTimeout
        \/ StopCloseStopCh \/ StopJoin \/ StopDisablePlugins

\* Stop has returned, and no goroutine has a step of its own left.
Terminated ==
    /\ stop = "stopped"
    /\ \A s \in Sessions :
          /\ state[s] = "None" \/ closing[s] = "closed"
          /\ reader[s] \in {"read", "returned"}
    /\ UNCHANGED vars

Next ==
    \/ \E s \in Sessions :
          \/ Accept(s) \/ Read(s) \/ ReaderPost(s)
          \/ NetworkClose(s) \/ Close(s) \/ RemovePlayerOwned(s)
          \/ TickOverflow(s) \/ StopOverflow(s)
    \/ Tick \/ TickExit
    \/ StopBegin \/ Stop
    \/ Terminated

(***************************************************************************)
(* Every goroutine that has a step of its own to take eventually takes it; *)
(* clients, the operator and the network owe nothing.  The select of the   *)
(* tick loop chooses at random between a due tick and stopCh, so the exit  *)
(* is strongly fair.                                                       *)
(***************************************************************************)
Fairness ==
    /\ \A s \in Sessions :
          /\ WF_vars(ReaderPost(s))
          /\ WF_vars(Close(s))
          /\ WF_vars(RemovePlayerOwned(s))
    /\ WF_vars(Tick)
    /\ SF_vars(TickExit)
    /\ WF_vars(Stop)

Spec == Init /\ [][Next]_vars /\ Fairness

-----------------------------------------------------------------------------
(***************************************************************************)
(* Properties.                                                             *)
(***************************************************************************)
MailboxTypeOK ==
    /\ values \in Seq(RuntimeEvent) /\ Len(values) <= Capacity
    /\ critical \in Seq(RuntimeEvent)
    /\ passed \in BOOLEAN

SessionTypeOK ==
    /\ state \in [Sessions -> SessionState]
    /\ name \in [Sessions -> Keys]
    /\ configurationSent \in [Sessions -> BOOLEAN]
    /\ reader \in [Sessions -> ReaderPc]
    /\ chats \in [Sessions -> 0 .. MaxChats]

CloseTypeOK ==
    /\ closeOnce \in [Sessions -> BOOLEAN]
    /\ closing \in [Sessions -> ClosingPc]
    /\ closer \in [Sessions -> Closer]

RosterTypeOK ==
    /\ registered \in [Sessions -> BOOLEAN]
    /\ removal \in [Sessions -> RemovalPc]
    /\ players \in [Keys -> Sessions \cup {NoSession}]
    /\ onlineCount \in Int

TickTypeOK ==
    /\ tick \in TickPc
    /\ current \in Sessions \cup {NoSession}
    /\ drained \in 0 .. MaxEventsPerTick

StopTypeOK ==
    /\ stop \in StopPc
    /\ unvisited \in SUBSET Keys
    /\ barrierDone \in BOOLEAN

PluginTypeOK ==
    /\ joins \in [Sessions -> Nat]
    /\ quits \in [Sessions -> Nat]
    /\ offTick \in BOOLEAN

\* Every variable keeps its type: the ordinary lane of the mailbox stays within
\* its capacity and the tick owner within maxRuntimeEventsPerTick.
TypeOK ==
    /\ MailboxTypeOK /\ SessionTypeOK /\ CloseTypeOK /\ RosterTypeOK
    /\ TickTypeOK /\ StopTypeOK /\ PluginTypeOK

Visible(s) == joins[s] > quits[s]

\* AddPlayer has set registered for s and has not yet decided whether it stays.
Registering(s) ==
    /\ current = s
    /\ tick \in {"store", "duplicate", "verify", "unstore", "unregister"}

\* A cleanup of s is queued, or has been taken from the queue and not begun.
CleanupQueued(s) == \E i \in DOMAIN critical : critical[i] = RemovePlayerOf(s)

CleanupPending(s) == CleanupQueued(s) \/ removal[s] = "swap"

\* A Close that runs concurrently with AddPlayer is never lost between the
\* state check and the registration (server.go:211-213): once Close has
\* returned, a session that is still registered has its cleanup queued, unless
\* AddPlayer is still to discover the Close itself.
NoLostCleanup ==
    \A s \in Sessions :
        closing[s] = "closed" /\ registered[s] =>
            CleanupPending(s) \/ Registering(s)

\* The registered flag and the player map say the same of a session, except in
\* the middle of AddPlayer or removePlayerOwned.
RegisteredIsPublished ==
    /\ \A s \in Sessions :
          registered[s] => \/ players[name[s]] = s
                           \/ current = s /\ tick \in {"store", "duplicate", "unregister"}
    /\ \A k \in Keys : players[k] # NoSession =>
          /\ name[players[k]] = k
          /\ registered[players[k]] \/ removal[players[k]] = "delete"

\* onlineCount is the number of published players; AddPlayer counts after it
\* stores and removePlayerOwned after it deletes.
OnlineCountMatches ==
    onlineCount + (IF tick \in {"verify", "unstore", "count"} THEN 1 ELSE 0) =
        Cardinality({k \in Keys : players[k] # NoSession})
            + Cardinality({s \in Sessions : removal[s] = "count"})

\* Gameplay of a session reaches the world and the plugins only between its
\* PlayerJoin and its PlayerQuit.
GameplayOnlyWhilePresent ==
    tick = "apply" => Visible(current)

\* "a closed session cannot be resurrected": no CAS of the state machine
\* leaves Closed, whatever it interleaves with.
ClosedIsFinal ==
    [][\A s \in Sessions : state[s] = "Closed" => state'[s] = "Closed"]_vars

\* While the tick loop runs, the plugin is called by the tick owner only.
HandlersOnTickWhileRunning == LoopRunning => ~offTick

\* When the barrier of Stop comes back, every session Stop closed has left the
\* roster and its PlayerQuit has been delivered.
StopDrainsWhatItClosed ==
    barrierDone => \A s \in Sessions :
        closer[s] = "stop" => ~registered[s] /\ ~Visible(s)

\* Why those two hold: closeOnce and the program counter of Close agree; a
\* removal in progress is the tick owner's, or the closing goroutine's after the
\* loop has stopped; and past its Swap the session is no longer registered.
CloseStarted ==
    \A s \in Sessions : closeOnce[s] <=> closing[s] # "open"

RemovalOwner ==
    \A s \in Sessions :
        removal[s] \in {"swap", "delete", "count", "announce"} =>
            ByTick(s) \/ (ByCloser(s) /\ ~LoopRunning)

RemovedIsUnregistered ==
    \A s \in Sessions :
        removal[s] \in {"delete", "count", "announce"} => ~registered[s]

LoopExited == ~LoopRunning => tick = "exited"

\* The inductive invariant of the cleanup protocol.
CleanupInv ==
    /\ TypeOK
    /\ CloseStarted
    /\ RemovalOwner
    /\ RemovedIsUnregistered
    /\ LoopExited
    /\ NoLostCleanup
    /\ HandlersOnTickWhileRunning

\* The plugin's view of the players is a Roster.
RosterView == INSTANCE Roster WITH
    present <- {<<name[s], s>> : s \in {t \in Sessions : Visible(t)}},
    left <- {s \in Sessions : quits[s] > 0}

ImplementsRoster == RosterView!Spec

\* A player whose session closes leaves the world: its cleanup waits for no
\* other client.  (Once the server stops, Stop is responsible.)
ClosedPlayersLeave ==
    \A s \in Sessions :
        (Visible(s) /\ state[s] = "Closed") ~> (~Visible(s) \/ stop # "up")

\* A client that finished its configuration is admitted or disconnected.
EntryResolves ==
    \A s \in Sessions :
        (state[s] = "PlayPending") ~>
            (joins[s] > 0 \/ state[s] = "Closed" \/ stop # "up")
=============================================================================
