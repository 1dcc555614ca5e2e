--------------------------- MODULE ShutdownProofs ---------------------------
(***************************************************************************)
(* The shutdown: when the barrier of Server.Stop comes back, every session *)
(* that Stop closed has left the roster and its PlayerQuit is delivered;   *)
(* and a process that is asked to end by one of its two ways exits only    *)
(* after Stop has finished.                                                *)
(***************************************************************************)
EXTENDS PlayerLifecycleProofs, ServerProcess

ClosedByStop(s) == closer[s] = "stop"

(* The tick owner has s in hand and has not yet registered it.             *)
Unregistered(s) == current = s /\ tick \in {"initial", "recheck", "register"}

(* Stop closes sessions it found in the player map, so none that is still  *)
(* to be registered; and it leaves no Close unfinished behind.             *)
StopCloses ==
    \A s \in Sessions : ClosedByStop(s) =>
        /\ Admitted(s)
        /\ closeOnce[s]
        /\ ~Unregistered(s)
        /\ stop \notin {"broadcast", "range"} => closing[s] = "closed"

(* The barrier is posted once, by Stop, in the critical lane.              *)
BarrierToCome ==
    stop \in {"up", "listener", "broadcast", "range", "barrier"} =>
        ~barrierDone /\ \A i \in DOMAIN critical : critical[i] # Barrier

BarrierIsCritical == \A i \in DOMAIN values : values[i].kind # "Barrier"

(* What the barrier waits for: a session that Stop closed and that is      *)
(* still registered is about to be undone by AddPlayer, is being removed,  *)
(* or has its cleanup in front of the barrier.                             *)
Undone(s) == Registering(s) \/ removal[s] = "swap"

CleanupBefore(s, j) == \E i \in 1 .. j - 1 : critical[i] = RemovePlayerOf(s)

BarrierBehindCleanups ==
    \A j \in DOMAIN critical : critical[j] = Barrier =>
        \A s \in Sessions :
            ClosedByStop(s) /\ registered[s] => Undone(s) \/ CleanupBefore(s, j)

StopInv ==
    /\ StopCloses
    /\ BarrierToCome
    /\ BarrierIsCritical
    /\ BarrierBehindCleanups
    /\ StopDrainsWhatItClosed

-----------------------------------------------------------------------------
LEMMA InitStop == Init => StopInv
<1> SUFFICES ASSUME Init PROVE StopInv
  OBVIOUS
<1>1. StopCloses /\ BarrierToCome /\ StopDrainsWhatItClosed
  BY DEF Init, MailboxInit, StopCloses, ClosedByStop, BarrierToCome,
         StopDrainsWhatItClosed
<1>2. BarrierIsCritical /\ BarrierBehindCleanups
  BY DEF Init, MailboxInit, BarrierIsCritical, BarrierBehindCleanups
<1>3. QED
  BY <1>1, <1>2 DEF StopInv

(* An event of the mailbox that asks for the barrier is the Barrier.       *)
LEMMA OneBarrier ==
    ASSUME NEW e \in RuntimeEvent
    PROVE  e.kind = "Barrier" <=> e = Barrier
  BY DEF RuntimeEvent, Barrier

TickMoves == \/ Enter \/ AddPlayer \/ PlayCheck \/ PlayApply \/ TickStart
             \/ TickFinish \/ TickExit

(* Who moves the tick owner, the removals and the registered flags.        *)
LEMMA Movers ==
    ASSUME [Next]_vars
    PROVE  \/ UNCHANGED <<tick, current, removal, registered>>
           \/ \E s \in Sessions : CloseRunning(s) \/ RemovePlayerOwned(s)
           \/ Drain
           \/ TickMoves
<1> USE DEF rosterVars, tickVars
<1>1. ASSUME NEW s \in Sessions,
             Accept(s) \/ Read(s) \/ ReaderPost(s) \/ NetworkClose(s) \/ CloseStore(s)
                       \/ CloseLoad(s) \/ ClosePost(s) \/ TickOverflow(s)
                       \/ StopOverflow(s)
      PROVE  UNCHANGED <<tick, current, removal, registered>>
  BY <1>1 DEF Accept, Read, HandleHandshake, HandleLoginStart, HandleLoginAcknowledged,
              HandleKnownPacks, HandleFinishConfig, HandlePlayChat, ReaderPost,
              PostEnterPlay, PostChat, ReaderClose, NetworkClose, CloseStore, CloseLoad,
              ClosePost, TickOverflow, StopOverflow, StopStep
<1>2. ASSUME StopBegin \/ Stop PROVE UNCHANGED <<tick, current, removal, registered>>
  BY <1>2 DEF StopBegin, Stop, StopListener, StopBroadcast, StopRangeDone, StopVisit,
              StopPostBarrier, StopBarrierDone, StopBarrierTimeout, StopCloseStopCh,
              StopJoin, StopDisablePlugins, StopStep
<1>3. CASE UNCHANGED vars
  BY <1>3 DEF vars
<1>4. QED
  BY <1>1, <1>2, <1>3 DEF Next, Tick, Close, Terminated, TickMoves

(* A session is taken in hand to be registered only from PlayPending.      *)
LEMMA TakenInHand ==
    ASSUME RosterInv, [Next]_vars, NEW t \in Sessions, Unregistered(t)'
    PROVE  Unregistered(t) \/ state[t] = "PlayPending"
<1> USE DEF Unregistered
<1>1. CASE \E s \in Sessions : CloseRunning(s) \/ RemovePlayerOwned(s)
  BY <1>1, RemovalAlone DEF CloseRunning, tickVars
<1>2. CASE Drain
  <2>1. tick' \in {"drain", "finish", "enter", "remove", "check"}
    <3>1. ASSUME NEW e \in RuntimeEvent, Apply(e)
          PROVE  tick' \in {"drain", "enter", "remove", "check"}
      BY <3>1, EventFields DEF Apply
    <3>2. DrainCritical => tick' \in {"drain", "enter", "remove", "check"}
      BY <3>1, PopCriticalType DEF DrainCritical, RosterInv, CleanupInv, TypeOK
    <3>3. DrainOrdinary => tick' \in {"drain", "enter", "remove", "check"}
      BY <3>1, PopOrdinaryType DEF DrainOrdinary, RosterInv, CleanupInv, TypeOK
    <3>4. QED
      BY <1>2, <3>2, <3>3 DEF Drain, DrainPass, DrainEmpty, DrainLimit, Draining,
                              TickStep, tickVars
  <2>2. QED
    BY <2>1
<1>3. CASE TickMoves
  BY <1>3 DEF TickMoves, Enter, EnterCheck, EnterPublish, EnterInitial, EnterRecheck,
              EnterWelcome, AddPlayer, AddRegister, AddStore, AddDuplicate,
              AddDuplicateClose, AddVerify, AddUnstore, AddUnregister, AddCount,
              AddAnnounce, PlayCheck, PlayApply, TickStart, TickFinish, TickExit,
              TickStep, Transition
<1>4. QED
  BY <1>1, <1>2, <1>3, Movers

(* A Close that began goes on, with the same closer; and what Stop closes  *)
(* it found in the player map, while it was sending or visiting.           *)
Caught(t) ==
    /\ closeOnce'[t] /\ Published(t)
    /\ stop \in {"broadcast", "range"}
    /\ UNCHANGED <<stop, tick, current, state>>

LEMMA CloseGoesOn ==
    ASSUME RosterInv, [Next]_vars, NEW t \in Sessions
    PROVE  /\ closeOnce[t] => closeOnce'[t] /\ closer'[t] = closer[t]
           /\ closing[t] = "closed" => closing'[t] = "closed"
           /\ ClosedByStop(t)' => ClosedByStop(t) \/ Caught(t)
<1> DEFINE Goal == /\ closeOnce[t] => closeOnce'[t] /\ closer'[t] = closer[t]
                   /\ closing[t] = "closed" => closing'[t] = "closed"
                   /\ ClosedByStop(t)' => ClosedByStop(t) \/ Caught(t)
<1> USE DEF closeVars
<1>1. TypeOK /\ (closeOnce[t] <=> closing[t] # "open")
  BY DEF RosterInv, CleanupInv, CloseStarted
<1>2. CASE UNCHANGED closeVars
  BY <1>2 DEF ClosedByStop
<1>3. ASSUME NEW s \in Sessions, NEW who \in {"network", "tick"}, BeginClose(s, who)
      PROVE  Goal
  BY <1>1, <1>3 DEF BeginClose, ClosedByStop, TypeOK, CloseTypeOK
<1>4. ASSUME NEW s \in Sessions, BeginClose(s, "stop"), Published(s),
             stop \in {"broadcast", "range"}, UNCHANGED <<stop, tick, current, state>>
      PROVE  Goal
  <2>1. CASE t = s
    BY <1>1, <1>4, <2>1 DEF BeginClose, Caught, TypeOK, CloseTypeOK
  <2>2. CASE t # s
    BY <1>1, <1>4, <2>2 DEF BeginClose, ClosedByStop, TypeOK, CloseTypeOK
  <2>3. QED
    BY <2>1, <2>2
<1>5. ASSUME NEW s \in Sessions, Close(s) \/ RemovePlayerOwned(s)
      PROVE  Goal
  <2>1. UNCHANGED <<closeOnce, closer>>
    BY <1>5 DEF Close, CloseStore, CloseLoad, CloseRunning, ClosePost, CloseStep,
                RemovePlayerOwned, RemoveSwap, RemoveDelete, RemoveCount,
                RemoveAnnounce, RemovalStep
  <2>2. closing[t] = "closed" => closing'[t] = "closed"
    BY <1>1, <1>5
       DEF Close, CloseStore, CloseLoad, CloseRunning, ClosePost, CloseStep,
           RemovePlayerOwned, RemoveSwap, RemoveDelete, RemoveCount, RemoveAnnounce,
           RemovalStep, ByCloser, TypeOK, CloseTypeOK
  <2>3. QED
    BY <2>1, <2>2 DEF ClosedByStop
<1>6. ASSUME NEW s \in Sessions,
             Accept(s) \/ Read(s) \/ ReaderPost(s) \/ NetworkClose(s) \/ TickOverflow(s)
      PROVE  Goal
  BY <1>2, <1>3, <1>6
     DEF Accept, Read, HandleHandshake, HandleLoginStart, HandleLoginAcknowledged,
         HandleKnownPacks, HandleFinishConfig, HandlePlayChat, ReaderPost,
         PostEnterPlay, PostChat, ReaderClose, NetworkClose, TickOverflow
<1>7. ASSUME NEW s \in Sessions, StopOverflow(s) PROVE Goal
  BY <1>4, <1>7 DEF StopOverflow, StopStep, tickVars, sessionVars, Published
<1>8. ASSUME Drain \/ Enter \/ AddPlayer \/ PlayCheck \/ PlayApply \/ TickStart
             \/ TickFinish \/ TickExit
      PROVE  Goal
  <2>1. CASE AddDuplicateClose
    <3>1. current \in Sessions
      BY <2>1 DEF AddDuplicateClose, TickStep, RosterInv, CurrentIsSession
    <3>2. QED
      BY <1>2, <1>3, <2>1, <3>1 DEF AddDuplicateClose
  <2>2. CASE ~AddDuplicateClose
    BY <1>2, <1>8, <2>2
       DEF Drain, DrainCritical, DrainPass, DrainOrdinary, DrainEmpty, DrainLimit,
           Apply, Enter, EnterCheck, EnterPublish, EnterInitial, EnterRecheck,
           EnterWelcome, AddPlayer, AddRegister, AddStore, AddDuplicate, AddVerify,
           AddUnstore, AddUnregister, AddCount, AddAnnounce, PlayCheck, PlayApply,
           TickStart, TickFinish, TickExit
  <2>3. QED
    BY <2>1, <2>2
<1>9. ASSUME StopBegin \/ Stop PROVE Goal
  <2>1. CASE \E k \in Keys : StopVisit(k)
    <3>1. PICK k \in Keys : StopVisit(k)
      BY <2>1
    <3>2. CASE players[k] # NoSession /\ BeginClose(players[k], "stop")
      <4>1. players[k] \in Sessions
        BY <1>1, <3>2 DEF TypeOK, RosterTypeOK
      <4>2. Published(players[k])
        BY <4>1, PublishedUnder DEF RosterInv
      <4>3. stop = "range" /\ UNCHANGED <<stop, tick, current, state>>
        BY <3>1 DEF StopVisit, StopStep, tickVars, sessionVars
      <4>4. QED
        BY <1>4, <3>2, <4>1, <4>2, <4>3
    <3>3. QED
      BY <1>2, <3>1, <3>2 DEF StopVisit
  <2>2. CASE ~(\E k \in Keys : StopVisit(k))
    BY <1>2, <1>9, <2>2
       DEF StopBegin, Stop, StopListener, StopBroadcast, StopRangeDone, StopPostBarrier,
           StopBarrierDone, StopBarrierTimeout, StopCloseStopCh, StopJoin,
           StopDisablePlugins
  <2>3. QED
    BY <2>1, <2>2
<1>10. CASE UNCHANGED vars
  BY <1>2, <1>10 DEF vars
<1>11. QED
  BY <1>5, <1>6, <1>7, <1>8, <1>9, <1>10 DEF Next, Tick, Terminated

(* Who moves Stop, and where to.                                           *)
LEMMA StopMoves ==
    ASSUME [Next]_vars
    PROVE  \/ stop' = stop
           \/ StopBegin \/ StopListener \/ StopBroadcast \/ StopRangeDone
           \/ StopPostBarrier \/ StopBarrierDone \/ StopBarrierTimeout
           \/ StopCloseStopCh \/ StopJoin \/ StopDisablePlugins
<1> USE DEF stopVars
<1>1. ASSUME NEW s \in Sessions,
             Accept(s) \/ Read(s) \/ ReaderPost(s) \/ NetworkClose(s) \/ Close(s)
                       \/ RemovePlayerOwned(s) \/ TickOverflow(s)
      PROVE  stop' = stop
  BY <1>1 DEF Accept, Read, HandleHandshake, HandleLoginStart, HandleLoginAcknowledged,
              HandleKnownPacks, HandleFinishConfig, HandlePlayChat, ReaderPost,
              PostEnterPlay, PostChat, ReaderClose, NetworkClose, Close, CloseStore,
              CloseLoad, CloseRunning, ClosePost, RemovePlayerOwned, RemoveSwap,
              RemoveDelete, RemoveCount, RemoveAnnounce, TickOverflow
<1>2. ASSUME Drain \/ Enter \/ AddPlayer \/ PlayCheck \/ PlayApply \/ TickStart
             \/ TickFinish \/ TickExit
      PROVE  stop' = stop
  BY <1>2 DEF Drain, DrainCritical, DrainPass, DrainOrdinary, DrainEmpty, DrainLimit,
              Apply, Enter, EnterCheck, EnterPublish, EnterInitial, EnterRecheck,
              EnterWelcome, AddPlayer, AddRegister, AddStore, AddDuplicate,
              AddDuplicateClose, AddVerify, AddUnstore, AddUnregister, AddCount,
              AddAnnounce, PlayCheck, PlayApply, TickStart, TickFinish, TickExit
<1>3. ASSUME NEW s \in Sessions, StopOverflow(s) PROVE stop' = stop
  BY <1>3 DEF StopOverflow, StopStep
<1>4. ASSUME NEW k \in Keys, StopVisit(k) PROVE stop' = stop
  BY <1>4 DEF StopVisit, StopStep
<1>5. CASE UNCHANGED vars
  BY <1>5 DEF vars
<1>6. QED
  BY <1>1, <1>2, <1>3, <1>4, <1>5 DEF Next, Tick, Stop, Terminated

LEMMA StopGoesOn ==
    ASSUME [Next]_vars
    PROVE  \/ stop' = stop
           \/ /\ stop \notin {"broadcast", "range", "stopped"}
              /\ stop' \in {"broadcast", "range"} => stop = "listener"
              /\ stop' \in {"up", "listener", "barrier"} => stop = "up"
           \/ stop = "broadcast" /\ stop' = "range"
           \/ stop = "range" /\ stop' = "barrier" /\ ~Busy("stop") /\ UNCHANGED closeVars
  BY StopMoves DEF StopBegin, StopListener, StopBroadcast, StopRangeDone, StopPostBarrier,
                   StopBarrierDone, StopBarrierTimeout, StopCloseStopCh, StopJoin,
                   StopDisablePlugins, StopStep

LEMMA NextStopCloses ==
    ASSUME RosterInv, StopCloses, [Next]_vars
    PROVE  StopCloses'
<1> SUFFICES ASSUME NEW s \in Sessions, ClosedByStop(s)'
             PROVE  /\ Admitted(s)'
                    /\ closeOnce'[s]
                    /\ ~Unregistered(s)'
                    /\ stop' \notin {"broadcast", "range"} => closing'[s] = "closed"
  BY DEF StopCloses
<1>1. StageOf(s) /\ TypeOK
  BY DEF RosterInv, CleanupInv
<1>2. CASE ClosedByStop(s)
  <2>1. /\ Admitted(s) /\ closeOnce[s] /\ ~Unregistered(s)
        /\ stop \notin {"broadcast", "range"} => closing[s] = "closed"
    BY <1>2 DEF StopCloses
  <2>2. Admitted(s)' /\ closeOnce'[s]
    BY <1>1, <2>1, AdmittedStays, CloseGoesOn
  <2>3. ~Unregistered(s)'
    BY <2>1, TakenInHand DEF Admitted
  <2>4. ASSUME stop' \notin {"broadcast", "range"} PROVE closing'[s] = "closed"
    <3>1. CASE stop \notin {"broadcast", "range"}
      BY <2>1, <3>1, CloseGoesOn
    <3>2. CASE stop \in {"broadcast", "range"}
      <4>1. ~Busy("stop") /\ closing' = closing
        BY <2>4, <3>2, StopGoesOn DEF closeVars
      <4>2. QED
        BY <1>2, <2>1, <4>1
           DEF Busy, ClosedByStop, RosterInv, CleanupInv, CloseStarted
    <3>3. QED
      BY <3>1, <3>2
  <2>5. QED
    BY <2>2, <2>3, <2>4
<1>3. CASE Caught(s)
  <2>1. Published(s) /\ closeOnce'[s] /\ stop' \in {"broadcast", "range"}
    BY <1>3 DEF Caught
  <2>2. Admitted(s)' /\ ~Unregistered(s)'
    BY <1>1, <1>3, <2>1 DEF Caught, StageOf, Out, Entering, Unregistered, Admitted
  <2>3. QED
    BY <2>1, <2>2
<1>4. QED
  BY <1>2, <1>3, CloseGoesOn

-----------------------------------------------------------------------------
(* Who moves the critical lane, and who closes the barrier channel.        *)
LEMMA CriticalLane ==
    ASSUME [Next]_vars
    PROVE  \/ UNCHANGED <<critical, barrierDone>>
           \/ \E s \in Sessions : ClosePost(s)
           \/ StopPostBarrier
           \/ DrainCritical \/ DrainOrdinary
<1> USE DEF mailboxVars, stopVars
<1>1. ASSUME NEW s \in Sessions,
             Accept(s) \/ Read(s) \/ ReaderPost(s) \/ NetworkClose(s) \/ CloseStore(s)
                       \/ CloseLoad(s) \/ CloseRunning(s) \/ RemovePlayerOwned(s)
                       \/ TickOverflow(s) \/ StopOverflow(s)
      PROVE  UNCHANGED <<critical, barrierDone>>
  BY <1>1 DEF Accept, Read, HandleHandshake, HandleLoginStart, HandleLoginAcknowledged,
              HandleKnownPacks, HandleFinishConfig, HandlePlayChat, ReaderPost,
              PostEnterPlay, PostChat, TryPost, ReaderClose, NetworkClose, CloseStore,
              CloseLoad, CloseRunning, RemovePlayerOwned, RemoveSwap, RemoveDelete,
              RemoveCount, RemoveAnnounce, TickOverflow, StopOverflow, StopStep
<1>2. ASSUME DrainPass \/ DrainEmpty \/ DrainLimit \/ TickMoves
      PROVE  UNCHANGED <<critical, barrierDone>>
  BY <1>2 DEF DrainPass, PassCritical, DrainEmpty, PopNothing, DrainLimit, TickMoves,
              Enter, EnterCheck, EnterPublish, EnterInitial, EnterRecheck,
              EnterWelcome, AddPlayer, AddRegister, AddStore, AddDuplicate,
              AddDuplicateClose, AddVerify, AddUnstore, AddUnregister, AddCount,
              AddAnnounce, PlayCheck, PlayApply, TickStart, TickFinish, TickExit
<1>3. ASSUME StopBegin \/ StopListener \/ StopBroadcast \/ StopRangeDone
             \/ (\E k \in Keys : StopVisit(k)) \/ StopBarrierDone \/ StopBarrierTimeout
             \/ StopCloseStopCh \/ StopJoin \/ StopDisablePlugins
      PROVE  UNCHANGED <<critical, barrierDone>>
  BY <1>3 DEF StopBegin, StopListener, StopBroadcast, StopRangeDone, StopVisit,
              StopBarrierDone, StopBarrierTimeout, StopCloseStopCh, StopJoin,
              StopDisablePlugins, StopStep
<1>4. CASE UNCHANGED vars
  BY <1>4 DEF vars
<1>5. QED
  BY <1>1, <1>2, <1>3, <1>4 DEF Next, Tick, Drain, Close, Stop, Terminated, TickMoves

LEMMA NextBarrierIsCritical ==
    ASSUME RosterInv, BarrierIsCritical, [Next]_vars
    PROVE  BarrierIsCritical'
<1> USE DEF mailboxVars
<1>1. values \in Seq(RuntimeEvent)
  BY DEF RosterInv, CleanupInv, TypeOK, MailboxTypeOK
<1>2. CASE UNCHANGED values
  BY <1>2 DEF BarrierIsCritical
<1>3. ASSUME NEW v \in RuntimeEvent, v.kind # "Barrier", values' = Append(values, v)
      PROVE  BarrierIsCritical'
  BY <1>1, <1>3 DEF BarrierIsCritical
<1>4. CASE values # <<>> /\ values' = Tail(values)
  BY <1>1, <1>4 DEF BarrierIsCritical
<1>5. ASSUME NEW s \in Sessions, Accept(s) \/ Read(s) \/ ReaderPost(s) \/ NetworkClose(s)
                \/ Close(s) \/ RemovePlayerOwned(s) \/ TickOverflow(s) \/ StopOverflow(s)
      PROVE  BarrierIsCritical'
  <2>1. CASE PostEnterPlay(s)
    BY <1>2, <1>3, <2>1, EventType DEF PostEnterPlay, TryPost, EnterPlayOf
  <2>2. CASE PostChat(s)
    BY <1>2, <1>3, <2>2, EventType DEF PostChat, TryPost, ChatOf
  <2>3. CASE ~PostEnterPlay(s) /\ ~PostChat(s)
    BY <1>2, <1>5, <2>3
       DEF Accept, Read, HandleHandshake, HandleLoginStart, HandleLoginAcknowledged,
           HandleKnownPacks, HandleFinishConfig, HandlePlayChat, ReaderPost,
           ReaderClose, NetworkClose, Close, CloseStore, CloseLoad, CloseRunning,
           ClosePost, PostCritical, RemovePlayerOwned, RemoveSwap, RemoveDelete,
           RemoveCount, RemoveAnnounce, TickOverflow, StopOverflow, StopStep
  <2>4. QED
    BY <2>1, <2>2, <2>3
<1>6. ASSUME Drain PROVE BarrierIsCritical'
  BY <1>2, <1>4, <1>6
     DEF Drain, DrainCritical, PopCritical, DrainPass, PassCritical, DrainOrdinary,
         PopOrdinary, DrainEmpty, PopNothing, DrainLimit
<1>7. ASSUME TickMoves \/ StopBegin \/ Stop PROVE UNCHANGED values
  BY <1>7 DEF TickMoves, Enter, EnterCheck, EnterPublish, EnterInitial, EnterRecheck,
              EnterWelcome, AddPlayer, AddRegister, AddStore, AddDuplicate,
              AddDuplicateClose, AddVerify, AddUnstore, AddUnregister, AddCount,
              AddAnnounce, PlayCheck, PlayApply, TickStart, TickFinish, TickExit,
              StopBegin, Stop, StopListener, StopBroadcast, StopRangeDone, StopVisit,
              StopPostBarrier, PostCritical, StopBarrierDone, StopBarrierTimeout,
              StopCloseStopCh, StopJoin, StopDisablePlugins, StopStep
<1>8. CASE UNCHANGED vars
  BY <1>2, <1>8 DEF vars
<1>9. QED
  BY <1>2, <1>5, <1>6, <1>7, <1>8 DEF Next, Tick, Terminated, TickMoves

LEMMA NextBarrierToCome ==
    ASSUME RosterInv, BarrierToCome, BarrierIsCritical, [Next]_vars
    PROVE  BarrierToCome'
<1> DEFINE Early == {"up", "listener", "broadcast", "range", "barrier"}
<1> SUFFICES ASSUME stop' \in Early
             PROVE  ~barrierDone' /\ \A i \in DOMAIN critical' : critical'[i] # Barrier'
  BY DEF BarrierToCome, Barrier
<1>1. /\ stop \in Early
      /\ TypeOK /\ MailboxTypeOK
      /\ critical \in Seq(RuntimeEvent)
      /\ Barrier' = Barrier
  BY StopGoesOn DEF RosterInv, CleanupInv, TypeOK, MailboxTypeOK, Barrier
<1>2. ~barrierDone /\ \A i \in DOMAIN critical : critical[i] # Barrier
  BY <1>1 DEF BarrierToCome
<1>3. CASE UNCHANGED <<critical, barrierDone>>
  BY <1>1, <1>2, <1>3
<1>4. ASSUME NEW s \in Sessions, ClosePost(s)
      PROVE  ~barrierDone' /\ \A i \in DOMAIN critical' : critical'[i] # Barrier
  <2>1. /\ critical' = Append(critical, RemovePlayerOf(s))
        /\ barrierDone' = barrierDone
        /\ RemovePlayerOf(s) # Barrier
    BY <1>4 DEF ClosePost, PostCritical, RemovePlayerOf, Barrier, stopVars
  <2>2. QED
    BY <1>1, <1>2, <2>1
<1>5. ~StopPostBarrier
  BY DEF StopPostBarrier
<1>6. CASE DrainCritical
  <2>1. /\ PopCritical(Head(critical)) /\ Apply(Head(critical))
        /\ critical # <<>> /\ critical' = Tail(critical)
    BY <1>6 DEF DrainCritical, PopCritical
  <2>2. Head(critical) \in RuntimeEvent /\ Head(critical) # Barrier
    BY <1>1, <1>2, <2>1
  <2>3. ~barrierDone'
    BY <1>2, <2>1, <2>2, OneBarrier DEF Apply
  <2>4. QED
    BY <1>1, <1>2, <2>1, <2>3
<1>7. CASE DrainOrdinary
  <2>1. PopOrdinary(Head(values)) /\ Apply(Head(values))
    BY <1>7 DEF DrainOrdinary
  <2>2. values # <<>> /\ Head(values).kind # "Barrier" /\ critical' = critical
    BY <1>1, <2>1 DEF PopOrdinary, BarrierIsCritical, MailboxTypeOK
  <2>3. QED
    BY <1>1, <1>2, <2>1, <2>2 DEF Apply
<1>8. QED
  BY <1>1, <1>3, <1>4, <1>5, <1>6, <1>7, CriticalLane

-----------------------------------------------------------------------------
(* Only AddPlayer sets the flag, and then it still has to look again.      *)
LEMMA FlagSet ==
    ASSUME RosterInv, [Next]_vars, NEW s \in Sessions, ~registered[s], registered'[s]
    PROVE  Unregistered(s) /\ Undone(s)'
<1>1. AddStep
  BY RosterSteps
     DEF RosterInv, CleanupInv, TypeOK, RosterTypeOK, Quiet, RemovePlayerOwned,
         RemoveSwap, RemoveDelete, RemoveCount, RemoveAnnounce
<1>2. AddRegister
  BY <1>1 DEF AddStep, AddStore, AddDuplicate, AddUnstore, AddUnregister, AddCount,
              AddAnnounce, RosterInv, CleanupInv, TypeOK, RosterTypeOK, rosterVars
<1>3. tick = "register" /\ current = s
  BY <1>2 DEF AddRegister, TickStep, RosterInv, CleanupInv, TypeOK, RosterTypeOK
<1>4. tick' = "store" /\ current' = s
  BY <1>2, <1>3 DEF AddRegister, TickStep
<1>5. QED
  BY <1>3, <1>4 DEF Unregistered, Undone, Registering

(* AddPlayer does not keep a session whose Close has begun, and a removal  *)
(* that is under way takes the flag.                                       *)
LEMMA UndoneStays ==
    ASSUME RosterInv, [Next]_vars, NEW s \in Sessions, closeOnce[s], Undone(s),
           registered'[s]
    PROVE  Undone(s)'
<1> USE DEF Undone, Registering
<1>1. TypeOK
  BY DEF RosterInv, CleanupInv
<1>2. CASE UNCHANGED <<tick, current, removal, registered>>
  BY <1>2
<1>3. ASSUME NEW t \in Sessions, CloseRunning(t) PROVE Undone(s)'
  BY <1>1, <1>3 DEF CloseRunning, tickVars, TypeOK, RosterTypeOK
<1>4. ASSUME NEW t \in Sessions, RemovePlayerOwned(t) PROVE Undone(s)'
  <2>1. removal[s] = "swap"
    BY <1>4, RemovalAlone
  <2>2. CASE t = s
    BY <1>1, <1>4, <2>1, <2>2
       DEF RemovePlayerOwned, RemoveSwap, RemoveDelete, RemoveCount, RemoveAnnounce,
           TypeOK, RosterTypeOK
  <2>3. QED
    BY <1>4, <2>1, <2>2, RemovalAlone
<1>5. CASE Drain
  <2>1. tick = "drain"
    BY <1>5 DEF Drain, DrainCritical, DrainPass, DrainOrdinary, DrainEmpty, DrainLimit,
                Draining, TickStep
  <2>2. QED
    BY <2>1, NobodyRemoves DEF RosterInv
<1>6. CASE TickMoves
  <2>1. tick \notin {"remove", "exited"}
    BY <1>6 DEF TickMoves, Enter, EnterCheck, EnterPublish, EnterInitial, EnterRecheck,
                EnterWelcome, AddPlayer, AddRegister, AddStore, AddDuplicate,
                AddDuplicateClose, AddVerify, AddUnstore, AddUnregister, AddCount,
                AddAnnounce, PlayCheck, PlayApply, TickStart, TickFinish, TickExit,
                TickStep
  <2>2. Registering(s)
    BY <2>1, NobodyRemoves DEF RosterInv
  <2>3. CASE AddStore \/ AddVerify \/ AddUnstore
    BY <2>2, <2>3 DEF AddStore, AddVerify, AddUnstore, TickStep, Publishable
  <2>4. CASE AddDuplicate \/ AddUnregister
    BY <1>1, <2>2, <2>4 DEF AddDuplicate, AddUnregister, TypeOK, RosterTypeOK
  <2>5. QED
    BY <1>6, <2>2, <2>3, <2>4
       DEF TickMoves, Enter, EnterCheck, EnterPublish, EnterInitial, EnterRecheck,
           EnterWelcome, AddPlayer, AddRegister, AddDuplicateClose, AddCount,
           AddAnnounce, PlayCheck, PlayApply, TickStart, TickFinish, TickExit, TickStep
<1>7. QED
  BY <1>2, <1>3, <1>4, <1>5, <1>6, Movers

(* Before the step, such a session was closed by Stop, and it was already  *)
(* waiting for its cleanup or is undone now.                               *)
LEMMA WasClosedByStop ==
    ASSUME RosterInv, StopCloses, [Next]_vars, NEW s \in Sessions, ClosedByStop(s)',
           stop \notin {"broadcast", "range"}
    PROVE  /\ ClosedByStop(s) /\ closeOnce[s] /\ closing[s] = "closed"
           /\ registered'[s] => registered[s]
<1>1. ClosedByStop(s)
  BY CloseGoesOn DEF Caught
<1>2. closeOnce[s] /\ ~Unregistered(s) /\ closing[s] = "closed"
  BY <1>1 DEF StopCloses
<1>3. QED
  BY <1>1, <1>2, FlagSet

LEMMA BehindKept ==
    ASSUME RosterInv, StopCloses, BarrierToCome, BarrierBehindCleanups, [Next]_vars,
           NEW j \in DOMAIN critical, critical[j] = Barrier,
           \A i \in 1 .. j : critical'[i] = critical[i],
           NEW s \in Sessions, ClosedByStop(s)', registered'[s]
    PROVE  Undone(s)' \/ CleanupBefore(s, j)'
<1>1. stop \notin {"broadcast", "range"}
  BY DEF BarrierToCome
<1>2. ClosedByStop(s) /\ closeOnce[s] /\ registered[s]
  BY <1>1, WasClosedByStop
<1>3. Undone(s) \/ CleanupBefore(s, j)
  BY <1>2 DEF BarrierBehindCleanups
<1>4. CASE Undone(s)
  BY <1>2, <1>4, UndoneStays
<1>5. CASE CleanupBefore(s, j)
  <2>1. PICK i \in 1 .. j - 1 : critical[i] = RemovePlayerOf(s)
    BY <1>5 DEF CleanupBefore
  <2>2. j \in Nat
    BY DEF RosterInv, CleanupInv, TypeOK, MailboxTypeOK
  <2>3. critical'[i] = RemovePlayerOf(s)
    BY <2>1, <2>2
  <2>4. QED
    BY <2>1, <2>3 DEF CleanupBefore, RemovePlayerOf
<1>6. QED
  BY <1>3, <1>4, <1>5

LEMMA NextBehind ==
    ASSUME RosterInv, StopCloses, BarrierToCome, BarrierBehindCleanups, [Next]_vars
    PROVE  BarrierBehindCleanups'
<1> SUFFICES ASSUME NEW j \in DOMAIN critical', critical'[j] = Barrier,
                    NEW s \in Sessions, ClosedByStop(s)', registered'[s]
             PROVE  Undone(s)' \/ CleanupBefore(s, j)'
  BY DEF BarrierBehindCleanups, Barrier
<1>1. critical \in Seq(RuntimeEvent)
  BY DEF RosterInv, CleanupInv, TypeOK, MailboxTypeOK
<1>2. CASE critical' = critical
  BY <1>2, BehindKept
<1>3. ASSUME NEW u \in Sessions, ClosePost(u)
      PROVE  Undone(s)' \/ CleanupBefore(s, j)'
  <2>1. critical' = Append(critical, RemovePlayerOf(u)) /\ RemovePlayerOf(u) # Barrier
    BY <1>3 DEF ClosePost, PostCritical, RemovePlayerOf, Barrier
  <2>2. /\ j \in DOMAIN critical /\ critical[j] = Barrier
        /\ \A i \in 1 .. j : critical'[i] = critical[i]
    BY <1>1, <2>1
  <2>3. QED
    BY <2>2, BehindKept
<1>4. CASE StopPostBarrier
  <2>1. /\ stop = "barrier"
        /\ critical' = Append(critical, Barrier)
        /\ UNCHANGED <<registered, removal, tick, current>>
    BY <1>4 DEF StopPostBarrier, PostCritical, rosterVars, tickVars
  <2>2. closing[s] = "closed" /\ registered[s]
    BY <2>1, WasClosedByStop
  <2>3. CleanupPending(s) \/ Registering(s)
    BY <2>2 DEF RosterInv, CleanupInv, NoLostCleanup
  <2>4. CASE CleanupQueued(s)
    <3>1. PICK i \in DOMAIN critical : critical[i] = RemovePlayerOf(s)
      BY <2>4 DEF CleanupQueued
    <3>2. \A m \in DOMAIN critical : critical[m] # Barrier
      BY <2>1 DEF BarrierToCome
    <3>3. j = Len(critical) + 1
      BY <1>1, <2>1, <3>2
    <3>4. i \in 1 .. j - 1 /\ critical'[i] = RemovePlayerOf(s)
      BY <1>1, <2>1, <3>1, <3>3
    <3>5. QED
      BY <3>4 DEF CleanupBefore, RemovePlayerOf
  <2>5. QED
    BY <2>1, <2>3, <2>4 DEF CleanupPending, Undone, Registering
<1>5. CASE DrainCritical
  <2>1. /\ Apply(Head(critical)) /\ tick = "drain"
        /\ critical # <<>> /\ critical' = Tail(critical)
    BY <1>5 DEF DrainCritical, PopCritical, Draining
  <2>2. /\ Head(critical) = critical[1] /\ Head(critical) \in RuntimeEvent
        /\ j \in Nat \ {0} /\ j + 1 \in DOMAIN critical /\ critical[j + 1] = Barrier
        /\ \A i \in 1 .. j : critical'[i] = critical[i + 1]
    BY <1>1, <2>1
  <2>3. stop \notin {"broadcast", "range"}
    BY <2>2 DEF BarrierToCome
  <2>4. ClosedByStop(s) /\ registered[s]
    BY <2>3, WasClosedByStop
  <2>5. ~Undone(s)
    BY <2>1, NobodyRemoves DEF Undone, Registering, RosterInv
  <2>6. PICK i \in 1 .. (j + 1) - 1 : critical[i] = RemovePlayerOf(s)
    BY <2>2, <2>4, <2>5 DEF BarrierBehindCleanups, CleanupBefore
  <2>7. CASE i = 1
    <3>1. Head(critical) = RemovePlayerOf(s)
      BY <2>2, <2>6, <2>7
    <3>2. removal'[s] = "swap"
      BY <2>1, <3>1
         DEF Apply, RemovePlayerOf, RosterInv, CleanupInv, TypeOK, RosterTypeOK
    <3>3. QED
      BY <3>2 DEF Undone
  <2>8. CASE i # 1
    <3>1. i - 1 \in 1 .. j - 1 /\ critical'[i - 1] = RemovePlayerOf(s)
      BY <2>2, <2>6, <2>8
    <3>2. QED
      BY <3>1 DEF CleanupBefore, RemovePlayerOf
  <2>9. QED
    BY <2>7, <2>8
<1>6. QED
  BY <1>2, <1>3, <1>4, <1>5, CriticalLane DEF DrainOrdinary, PopOrdinary

(* A plugin sees nobody new but the session that AddPlayer announces.      *)
LEMMA SeenBefore ==
    ASSUME RosterInv, [Next]_vars, NEW s \in Sessions, Visible(s)', ~Visible(s)
    PROVE  registered[s]
<1>1. TypeOK
  BY DEF RosterInv, CleanupInv
<1>2. CASE AddAnnounce
  <2>1. current = s /\ tick = "announce"
    BY <1>1, <1>2 DEF AddAnnounce, TickStep, Visible, TypeOK, PluginTypeOK
  <2>2. QED
    BY <2>1 DEF RosterInv, StageOf, Storing, Stored
<1>3. CASE ~AddAnnounce
  BY <1>1, <1>3, RosterSteps
     DEF RosterInv, Quiet, AddStep, AddRegister, AddStore, AddDuplicate, AddUnstore,
         AddUnregister, AddCount, RemovePlayerOwned, RemoveSwap, RemoveDelete,
         RemoveCount, RemoveAnnounce, pluginVars, Visible, TypeOK, PluginTypeOK
<1>4. QED
  BY <1>2, <1>3

LEMMA NextDrained ==
    ASSUME RosterInv, StopInv, [Next]_vars
    PROVE  StopDrainsWhatItClosed'
<1> SUFFICES ASSUME barrierDone', NEW s \in Sessions, ClosedByStop(s)'
             PROVE  ~registered'[s] /\ ~Visible(s)'
  BY DEF StopDrainsWhatItClosed, ClosedByStop
<1>1. TypeOK /\ MailboxTypeOK /\ critical \in Seq(RuntimeEvent)
  BY DEF RosterInv, CleanupInv, TypeOK, MailboxTypeOK
<1> SUFFICES ~registered[s] /\ ~Visible(s) /\ stop \notin {"broadcast", "range"}
  BY WasClosedByStop, SeenBefore DEF StopInv
<1>2. CASE barrierDone
  <2>1. stop \notin {"broadcast", "range"}
    BY <1>2 DEF StopInv, BarrierToCome
  <2>2. ClosedByStop(s)
    BY <2>1, WasClosedByStop DEF StopInv
  <2>3. QED
    BY <1>2, <2>1, <2>2 DEF StopInv, StopDrainsWhatItClosed, ClosedByStop
<1>3. CASE ~barrierDone
  <2>1. ~DrainOrdinary
    <3>1. DrainOrdinary => Apply(Head(values)) /\ values # <<>>
      BY DEF DrainOrdinary, PopOrdinary
    <3>2. values # <<>> => Head(values).kind # "Barrier"
      BY <1>1 DEF StopInv, BarrierIsCritical, MailboxTypeOK
    <3>3. QED
      BY <1>3, <3>1, <3>2 DEF Apply
  <2>2. DrainCritical
    BY <1>3, <2>1, CriticalLane DEF ClosePost, StopPostBarrier, stopVars
  <2>3. /\ Apply(Head(critical)) /\ tick = "drain" /\ critical # <<>>
        /\ Head(critical) \in RuntimeEvent /\ Head(critical) = critical[1]
        /\ 1 \in DOMAIN critical
    BY <1>1, <2>2 DEF DrainCritical, PopCritical, Draining
  <2>4. critical[1] = Barrier
    BY <1>3, <2>3, OneBarrier DEF Apply
  <2>5. stop \notin {"broadcast", "range"}
    BY <2>3, <2>4 DEF StopInv, BarrierToCome
  <2>6. ClosedByStop(s)
    BY <2>5, WasClosedByStop DEF StopInv
  <2>7. ~Undone(s) /\ ~Removing(s) /\ ~CleanupBefore(s, 1)
    BY <2>3, NobodyRemoves
       DEF Undone, Registering, Removing, CleanupBefore, RosterInv
  <2>8. ~registered[s]
    BY <2>3, <2>4, <2>6, <2>7 DEF StopInv, BarrierBehindCleanups
  <2>9. Out(s) \/ Gone(s)
    BY <2>3, <2>7, <2>8 DEF RosterInv, StageOf, Flagging, Storing, Present
  <2>10. PluginsEnabled
    BY <2>3 DEF RosterInv, CleanupInv, LoopExited, LoopRunning, PluginsEnabled
  <2>11. QED
    BY <2>5, <2>8, <2>9, <2>10 DEF Out, Gone, Visible
<1>4. QED
  BY <1>2, <1>3

LEMMA NextStop == RosterInv /\ StopInv /\ [Next]_vars => StopInv'
<1> SUFFICES ASSUME RosterInv, StopInv, [Next]_vars PROVE StopInv'
  OBVIOUS
<1>1. /\ StopCloses /\ BarrierToCome /\ BarrierIsCritical /\ BarrierBehindCleanups
  BY DEF StopInv
<1>2. QED
  BY <1>1, NextStopCloses, NextBarrierToCome, NextBarrierIsCritical, NextBehind,
     NextDrained DEF StopInv

\* server.go:91-117: when the barrier of Stop comes back, every session that
\* Stop closed has left the player map, and if the plugins knew it they have
\* had its PlayerQuit; also when its Close raced with AddPlayer, and whatever
\* else is queued.
THEOREM BarrierDrainsTheClosed == Spec => []StopDrainsWhatItClosed
<1>1. StopInv => StopDrainsWhatItClosed
  BY DEF StopInv
<1>2. QED
  BY <1>1, InitStop, NextStop, RosterConsistent, PTL DEF Spec

-----------------------------------------------------------------------------
(***************************************************************************)
(* The process.                                                            *)
(***************************************************************************)
BarrierSeen == stop \in {"halt", "join", "disable", "stopped"} => barrierDone

(* Before main listens to signals there is nobody who could ask, and Stop  *)
(* was called by whoever asked first.                                      *)
NobodyAsked == console = "none" /\ ~signal /\ ~stopChan /\ asked = {}

Callers ==
    /\ main \in {"load", "enable", "run"} => NobodyAsked
    /\ stop = "up" \/ stopper \in {"console", "main"}
    /\ console \in {"stop", "over"} \/ stopper = "console" => "console" \in asked
    /\ signal \/ main = "stop" \/ stopper = "main" => "signal" \in asked
    /\ console \in {"stop", "over"} \/ main = "stop" => stop # "up"

(* Who has returned from the Stop that runs has seen its end.              *)
Returned ==
    /\ stopChan => console = "over"
    /\ console = "over" => StopReturned("console")
    /\ main = "exited" /\ asked \in {{"console"}, {"signal"}} => stop = "stopped"

ProcessInv == Callers /\ Returned

LEMMA InitProcess == ProcessInit => RosterInv /\ StopInv /\ BarrierSeen /\ ProcessInv
<1> SUFFICES ASSUME ProcessInit
             PROVE  RosterInv /\ StopInv /\ BarrierSeen /\ ProcessInv
  OBVIOUS
<1>1. Init /\ stop = "up"
  BY DEF ProcessInit, Init
<1>2. BarrierSeen /\ ProcessInv
  BY <1>1 DEF ProcessInit, BarrierSeen, ProcessInv, Callers, NobodyAsked, Returned
<1>3. QED
  BY <1>1, <1>2, InitRoster, InitStop

LEMMA BarrierStaysDone ==
    ASSUME [Next]_vars, barrierDone
    PROVE  barrierDone'
  BY CriticalLane DEF ClosePost, StopPostBarrier, DrainCritical, DrainOrdinary, Apply,
                      stopVars

\* If waitRuntimeBarrier cannot give up, Stop goes on when the barrier is back.
LEMMA NextBarrierSeen ==
    ASSUME ~BarrierMayTimeOut, BarrierSeen, [Next]_vars
    PROVE  BarrierSeen'
<1>1. CASE stop' = stop
  BY <1>1, BarrierStaysDone DEF BarrierSeen
<1>2. CASE StopBegin \/ StopListener \/ StopBroadcast \/ StopRangeDone \/ StopPostBarrier
           \/ StopBarrierDone \/ StopCloseStopCh \/ StopJoin \/ StopDisablePlugins
  <2>1. \/ stop' \notin {"halt", "join", "disable", "stopped"}
        \/ stop \in {"halt", "join", "disable", "stopped"}
        \/ barrierDone
    BY <1>2 DEF StopBegin, StopListener, StopBroadcast, StopRangeDone, StopPostBarrier,
                StopBarrierDone, StopCloseStopCh, StopJoin, StopDisablePlugins, StopStep
  <2>2. QED
    BY <2>1, BarrierStaysDone DEF BarrierSeen
<1>3. QED
  BY <1>1, <1>2, StopMoves DEF StopBarrierTimeout

(* A step of the process is a step of the server, or leaves it alone.      *)
LEMMA ProcessStep ==
    ASSUME [ProcessNext]_allVars
    PROVE  /\ [Next]_vars
           /\ stop # "up" => stop' # "up"
           /\ stop = "stopped" => stop' = "stopped"
<1>1. UNCHANGED allVars \/ Exited => [Next]_vars
  BY DEF allVars, Exited
<1>2. Starting \/ Signal \/ ConsoleClose \/ SelectStopChan \/ MainReturn => [Next]_vars
  BY DEF Starting, Load, Enable, Run, Signal, ConsoleClose, SelectStopChan, MainReturn
<1>3. ConsoleStop \/ SelectSignal \/ ServerStep => [Next]_vars
  BY DEF ConsoleStop, SelectSignal, CallStop, ServerStep, Next
<1>4. [Next]_vars
  BY <1>1, <1>2, <1>3 DEF ProcessNext, Stopping
<1>5. QED
  BY <1>4, StopGoesOn

LEMMA NextProcess ==
    ASSUME ProcessInv, [ProcessNext]_allVars
    PROVE  ProcessInv'
<1> USE DEF ProcessInv, Callers, NobodyAsked, Returned, StopReturned, MainStep
<1>1. /\ stop # "up" => stop' # "up"
      /\ stop = "stopped" => stop' = "stopped"
  BY ProcessStep
<1>2. CASE UNCHANGED allVars \/ Exited
  BY <1>2 DEF allVars, Exited, processVars, vars, stopVars
<1>3. CASE main # "exited" /\ (Load \/ Enable)
  BY <1>3 DEF Load, Enable, vars, stopVars
<1>4. CASE main # "exited" /\ Run
  BY <1>4 DEF Run, vars, stopVars
<1>5. CASE main # "exited" /\ Signal
  BY <1>5 DEF Signal, Serving, vars, stopVars
<1>6. ASSUME NEW who \in {"console", "main"}, CallStop(who)
      PROVE  /\ stop' # "up"
             /\ stopper' \in {"console", "main"}
             /\ stopper' = stopper \/ stopper' = who
             /\ stopper' # stopper => stop = "up"
  BY <1>1, <1>6 DEF CallStop, StopBegin, StopStep, vars, stopVars
<1>7. CASE main # "exited" /\ ConsoleStop
  BY <1>1, <1>6, <1>7 DEF ConsoleStop
<1>8. CASE main # "exited" /\ ConsoleClose
  BY <1>8 DEF ConsoleClose, vars, stopVars
<1>9. CASE main # "exited" /\ SelectStopChan
  BY <1>9 DEF SelectStopChan, vars, stopVars
<1>10. CASE main # "exited" /\ SelectSignal
  BY <1>1, <1>6, <1>10 DEF SelectSignal
<1>11. CASE main # "exited" /\ MainReturn
  BY <1>11 DEF MainReturn, vars, stopVars
<1>12. CASE main # "exited" /\ ServerStep
  BY <1>1, <1>12 DEF ServerStep, processVars
<1>13. QED
  BY <1>2, <1>3, <1>4, <1>5, <1>7, <1>8, <1>9, <1>10, <1>11, <1>12
     DEF ProcessNext, Starting, Stopping

\* server.go, main.go: the invariants of the roster and of Stop hold around every
\* step of the server inside its process, and a process that was asked in one way
\* leaves main only when the Stop that won its Swap is over.
THEOREM ProcessKeepsTheServer ==
    ProcessSpec => [](RosterInv /\ StopInv /\ ProcessInv)
<1>1. RosterInv /\ StopInv /\ ProcessInv /\ [ProcessNext]_allVars
        => (RosterInv /\ StopInv /\ ProcessInv)'
  BY ProcessStep, NextRoster, NextStop, NextProcess
<1>2. QED
  BY <1>1, InitProcess, PTL DEF ProcessSpec

\* main.go and console.go: a process that was asked once to end, on the console
\* or by a signal, exits only when the tick loop has exited, the plugins are
\* disabled and, as long as waitRuntimeBarrier does not give up after its two
\* seconds, every session that Stop closed has left and its quit is delivered.
THEOREM ProcessEndsClean ==
    ASSUME ~BarrierMayTimeOut
    PROVE  ProcessSpec => []ExitAfterShutdown
<1>1. BarrierSeen /\ [ProcessNext]_allVars => BarrierSeen'
  BY ProcessStep, NextBarrierSeen
<1>2. RosterInv /\ StopInv /\ ProcessInv /\ BarrierSeen => ExitAfterShutdown
  <2> SUFFICES ASSUME RosterInv, StopInv, ProcessInv, BarrierSeen, main = "exited",
                      asked \in {{"console"}, {"signal"}}
               PROVE  /\ tick = "exited" /\ ~PluginsEnabled
                      /\ \A s \in Sessions :
                            closer[s] = "stop" => ~registered[s] /\ ~Visible(s)
    BY DEF ExitAfterShutdown
  <2>1. stop = "stopped"
    BY DEF ProcessInv, Returned
  <2>2. tick = "exited" /\ ~PluginsEnabled
    BY <2>1 DEF RosterInv, CleanupInv, LoopExited, LoopRunning, PluginsEnabled
  <2>3. barrierDone
    BY <2>1 DEF BarrierSeen
  <2>4. QED
    BY <2>2, <2>3 DEF StopInv, StopDrainsWhatItClosed
<1>3. ProcessSpec => []BarrierSeen
  BY <1>1, InitProcess, PTL DEF ProcessSpec
<1>4. QED
  BY <1>2, <1>3, ProcessKeepsTheServer, PTL

=============================================================================
