------------------------ MODULE PlayerLifecycleProofs ------------------------
(***************************************************************************)
(* Theorems about PlayerLifecycle, for every number of sessions, every set *)
(* of names and every bound: its types, the protocol that cleans up after  *)
(* a session, the roster, and that the life cycle implements Roster.       *)
(***************************************************************************)
EXTENDS PlayerLifecycle, TLAPS, FiniteSetTheorems

-----------------------------------------------------------------------------
(***************************************************************************)
(* Type correctness.                                                       *)
(***************************************************************************)
LEMMA EventType ==
    /\ \A s \in Sessions : /\ EnterPlayOf(s) \in RuntimeEvent
                           /\ RemovePlayerOf(s) \in RuntimeEvent
                           /\ ChatOf(s) \in RuntimeEvent
    /\ Barrier \in RuntimeEvent
  BY DEF EnterPlayOf, RemovePlayerOf, ChatOf, Barrier, RuntimeEvent

LEMMA EventFields ==
    ASSUME NEW e \in RuntimeEvent
    PROVE  /\ e.kind \in {"EnterPlay", "RemovePlayer", "PlayerChat", "Barrier"}
           /\ e.session \in Sessions \cup {NoSession}
           /\ e.kind = "RemovePlayer" =>
                 e.session \in Sessions /\ e = RemovePlayerOf(e.session)
  BY DEF RuntimeEvent, RemovePlayerOf

(* What the mailbox operations do to the types of the two lanes. *)
LEMMA MailboxInitType == MailboxInit => MailboxTypeOK
<1>1. <<>> \in Seq(RuntimeEvent) /\ Len(<<>>) <= Capacity
  BY CapacityAssumption
<1>2. QED
  BY <1>1 DEF MailboxInit, MailboxTypeOK

LEMMA TryPostType ==
    ASSUME NEW v \in RuntimeEvent, MailboxTypeOK, TryPost(v)
    PROVE  MailboxTypeOK'
  BY CapacityAssumption DEF MailboxTypeOK, TryPost, Full

LEMMA PostCriticalType ==
    ASSUME NEW v \in RuntimeEvent, MailboxTypeOK, PostCritical(v)
    PROVE  MailboxTypeOK'
  BY DEF MailboxTypeOK, PostCritical

LEMMA PopCriticalType ==
    ASSUME MailboxTypeOK, PopCritical(Head(critical))
    PROVE  MailboxTypeOK' /\ Head(critical) \in RuntimeEvent
  BY DEF MailboxTypeOK, PopCritical

LEMMA PopOrdinaryType ==
    ASSUME MailboxTypeOK, PopOrdinary(Head(values))
    PROVE  MailboxTypeOK' /\ Head(values) \in RuntimeEvent
<1>1. values # <<>> /\ values' = Tail(values) /\ passed' = FALSE /\ critical' = critical
  BY DEF PopOrdinary
<1>2. /\ Head(values) \in RuntimeEvent
      /\ Tail(values) \in Seq(RuntimeEvent)
      /\ Len(Tail(values)) <= Capacity
  BY <1>1, CapacityAssumption DEF MailboxTypeOK
<1>3. QED
  BY <1>1, <1>2 DEF MailboxTypeOK

LEMMA PassType ==
    ASSUME MailboxTypeOK, PassCritical \/ PopNothing
    PROVE  MailboxTypeOK'
  BY DEF MailboxTypeOK, PassCritical, PopNothing

(* A group of variables that a step leaves alone keeps its type. *)
LEMMA Frame ==
    ASSUME TypeOK
    PROVE  /\ UNCHANGED mailboxVars => MailboxTypeOK'
           /\ UNCHANGED sessionVars => SessionTypeOK'
           /\ UNCHANGED closeVars => CloseTypeOK'
           /\ UNCHANGED rosterVars => RosterTypeOK'
           /\ UNCHANGED tickVars => TickTypeOK'
           /\ UNCHANGED stopVars => StopTypeOK'
           /\ UNCHANGED pluginVars => PluginTypeOK'
<1>1. UNCHANGED mailboxVars => MailboxTypeOK'
  BY DEF TypeOK, MailboxTypeOK, mailboxVars
<1>2. UNCHANGED sessionVars => SessionTypeOK'
  BY DEF TypeOK, SessionTypeOK, sessionVars
<1>3. UNCHANGED closeVars => CloseTypeOK'
  BY DEF TypeOK, CloseTypeOK, closeVars
<1>4. UNCHANGED rosterVars => RosterTypeOK'
  BY DEF TypeOK, RosterTypeOK, rosterVars
<1>5. UNCHANGED tickVars => TickTypeOK'
  BY DEF TypeOK, TickTypeOK, tickVars
<1>6. UNCHANGED stopVars => StopTypeOK'
  BY DEF TypeOK, StopTypeOK, stopVars
<1>7. UNCHANGED pluginVars => PluginTypeOK'
  BY DEF TypeOK, PluginTypeOK, pluginVars
<1>8. QED
  BY <1>1, <1>2, <1>3, <1>4, <1>5, <1>6, <1>7

LEMMA BeginCloseType ==
    ASSUME CloseTypeOK, NEW s \in Sessions, NEW who \in Closer, BeginClose(s, who)
    PROVE  CloseTypeOK'
  BY DEF CloseTypeOK, BeginClose, ClosingPc

LEMMA CloseStepType ==
    ASSUME CloseTypeOK, NEW s \in Sessions, NEW from, NEW to \in ClosingPc,
           CloseStep(s, from, to)
    PROVE  CloseTypeOK'
  BY DEF CloseTypeOK, CloseStep

LEMMA TickStepType ==
    ASSUME TickTypeOK, NEW from, NEW to \in TickPc, TickStep(from, to)
    PROVE  TickTypeOK'
  BY DEF TickTypeOK, TickStep

LEMMA StopStepType ==
    ASSUME TypeOK, NEW from, NEW to \in StopPc, StopStep(from, to)
    PROVE  /\ MailboxTypeOK' /\ SessionTypeOK' /\ RosterTypeOK' /\ TickTypeOK'
           /\ PluginTypeOK'
           /\ stop' \in StopPc
  BY Frame DEF StopStep

LEMMA InitType == Init => TypeOK
<1> SUFFICES ASSUME Init PROVE TypeOK
  OBVIOUS
<1>1. MailboxTypeOK
  BY MailboxInitType DEF Init
<1>2. SessionTypeOK
  BY LifecycleAssumption DEF Init, SessionTypeOK, SessionState, ReaderPc, Keys
<1>3. CloseTypeOK
  BY DEF Init, CloseTypeOK, ClosingPc, Closer
<1>4. RosterTypeOK
  BY DEF Init, RosterTypeOK, RemovalPc
<1>5. TickTypeOK
  BY LifecycleAssumption DEF Init, TickTypeOK, TickPc
<1>6. StopTypeOK
  BY DEF Init, StopTypeOK, StopPc
<1>7. PluginTypeOK
  <2>1. /\ joins = [s \in Sessions |-> 0]
        /\ quits = [s \in Sessions |-> 0]
        /\ offTick = FALSE
    BY DEF Init
  <2>2. QED
    BY ONLY <2>1 DEF PluginTypeOK
<1>8. QED
  BY <1>1, <1>2, <1>3, <1>4, <1>5, <1>6, <1>7 DEF TypeOK

LEMMA NetworkType ==
    ASSUME TypeOK, NEW s \in Sessions,
           Accept(s) \/ Read(s) \/ ReaderPost(s) \/ NetworkClose(s)
    PROVE  TypeOK'
<1> USE Frame DEF TypeOK
<1>1. CASE Accept(s)
  <2>1. SessionTypeOK'
    BY <1>1 DEF Accept, SessionTypeOK, SessionState
  <2>2. QED
    BY <1>1, <2>1 DEF Accept
<1>2. CASE HandleHandshake(s)
  <2>1. SessionTypeOK'
    BY <1>2 DEF HandleHandshake, Transition, SessionTypeOK, SessionState
  <2>2. QED
    BY <1>2, <2>1 DEF HandleHandshake
<1>3. CASE HandleLoginStart(s)
  <2>1. SessionTypeOK'
    BY <1>3 DEF HandleLoginStart, SessionTypeOK, Keys
  <2>2. QED
    BY <1>3, <2>1 DEF HandleLoginStart
<1>4. CASE HandleLoginAcknowledged(s)
  <2>1. SessionTypeOK'
    BY <1>4 DEF HandleLoginAcknowledged, Transition, SessionTypeOK, SessionState
  <2>2. QED
    BY <1>4, <2>1 DEF HandleLoginAcknowledged
<1>5. CASE HandleKnownPacks(s)
  <2>1. SessionTypeOK'
    BY <1>5 DEF HandleKnownPacks, SessionTypeOK, ReaderPc
  <2>2. QED
    BY <1>5, <2>1 DEF HandleKnownPacks
<1>6. CASE HandleFinishConfig(s)
  <2>1. SessionTypeOK'
    BY <1>6 DEF HandleFinishConfig, Transition, SessionTypeOK, SessionState, ReaderPc
  <2>2. QED
    BY <1>6, <2>1 DEF HandleFinishConfig
<1>7. CASE HandlePlayChat(s)
  <2>1. chats[s] + 1 \in 0 .. MaxChats
    BY <1>7, LifecycleAssumption DEF HandlePlayChat, SessionTypeOK
  <2>2. SessionTypeOK'
    BY <1>7, <2>1 DEF HandlePlayChat, SessionTypeOK, ReaderPc
  <2>3. QED
    BY <1>7, <2>2 DEF HandlePlayChat
<1>8. CASE PostEnterPlay(s)
  <2>1. SessionTypeOK'
    BY <1>8 DEF PostEnterPlay, SessionTypeOK, ReaderPc
  <2>2. MailboxTypeOK'
    BY <1>8, EventType, TryPostType DEF PostEnterPlay
  <2>3. QED
    BY <1>8, <2>1, <2>2 DEF PostEnterPlay
<1>9. CASE PostChat(s)
  <2>1. SessionTypeOK'
    BY <1>9 DEF PostChat, SessionTypeOK, ReaderPc
  <2>2. MailboxTypeOK'
    BY <1>9, EventType, TryPostType DEF PostChat
  <2>3. QED
    BY <1>9, <2>1, <2>2 DEF PostChat
<1>10. CASE ReaderClose(s)
  <2>1. SessionTypeOK'
    BY <1>10 DEF ReaderClose, SessionTypeOK, ReaderPc
  <2>2. CloseTypeOK'
    BY <1>10, BeginCloseType DEF ReaderClose, Closer
  <2>3. QED
    BY <1>10, <2>1, <2>2 DEF ReaderClose
<1>11. CASE NetworkClose(s)
  <2>1. CloseTypeOK'
    BY <1>11, BeginCloseType DEF NetworkClose, Closer
  <2>2. QED
    BY <1>11, <2>1 DEF NetworkClose
<1>12. QED
  BY <1>1, <1>2, <1>3, <1>4, <1>5, <1>6, <1>7, <1>8, <1>9, <1>10, <1>11
     DEF Read, ReaderPost

LEMMA RemovalType ==
    ASSUME TypeOK, NEW s \in Sessions, NEW pc \in RemovalPc, RemovalStep(s, pc)
    PROVE  TickTypeOK' /\ CloseTypeOK' /\ removal' \in [Sessions -> RemovalPc]
<1>1. TickTypeOK'
  BY DEF TypeOK, TickTypeOK, RemovalStep, TickPc
<1>2. CloseTypeOK'
  BY DEF TypeOK, CloseTypeOK, RemovalStep, ClosingPc
<1>3. QED
  BY <1>1, <1>2 DEF TypeOK, RosterTypeOK, RemovalStep

LEMMA CloseType ==
    ASSUME TypeOK, NEW s \in Sessions,
           Close(s) \/ RemovePlayerOwned(s) \/ TickOverflow(s) \/ StopOverflow(s)
    PROVE  TypeOK'
<1> USE Frame DEF TypeOK
<1>1. CASE CloseStore(s)
  <2>1. SessionTypeOK'
    BY <1>1 DEF CloseStore, SessionTypeOK, SessionState
  <2>2. CloseTypeOK'
    BY <1>1, CloseStepType DEF CloseStore, ClosingPc
  <2>3. QED
    BY <1>1, <2>1, <2>2 DEF CloseStore
<1>2. CASE CloseLoad(s)
  <2>1. CloseTypeOK'
    BY <1>2, CloseStepType DEF CloseLoad, ClosingPc
  <2>2. QED
    BY <1>2, <2>1 DEF CloseLoad
<1>3. CASE CloseRunning(s)
  <2>1. CloseTypeOK'
    BY <1>3, CloseStepType DEF CloseRunning, ClosingPc
  <2>2. RosterTypeOK'
    BY <1>3 DEF CloseRunning, RosterTypeOK, RemovalPc
  <2>3. QED
    BY <1>3, <2>1, <2>2 DEF CloseRunning
<1>4. CASE ClosePost(s)
  <2>1. CloseTypeOK'
    BY <1>4, CloseStepType DEF ClosePost, ClosingPc
  <2>2. MailboxTypeOK'
    BY <1>4, EventType, PostCriticalType DEF ClosePost
  <2>3. QED
    BY <1>4, <2>1, <2>2 DEF ClosePost
<1>5. CASE RemoveSwap(s)
  <2>1. /\ TickTypeOK' /\ CloseTypeOK'
        /\ removal' \in [Sessions -> RemovalPc]
    BY <1>5, RemovalType DEF RemoveSwap, RemovalPc
  <2>2. RosterTypeOK'
    BY <1>5, <2>1 DEF RemoveSwap, RosterTypeOK
  <2>3. QED
    BY <1>5, <2>1, <2>2 DEF RemoveSwap
<1>6. CASE RemoveDelete(s)
  <2>1. /\ TickTypeOK' /\ CloseTypeOK'
        /\ removal' \in [Sessions -> RemovalPc]
    BY <1>6, RemovalType DEF RemoveDelete, RemovalPc
  <2>2. RosterTypeOK'
    BY <1>6, <2>1 DEF RemoveDelete, RosterTypeOK
  <2>3. QED
    BY <1>6, <2>1, <2>2 DEF RemoveDelete
<1>7. CASE RemoveCount(s)
  <2>1. /\ TickTypeOK' /\ CloseTypeOK'
        /\ removal' \in [Sessions -> RemovalPc]
    BY <1>7, RemovalType DEF RemoveCount, RemovalPc
  <2>2. RosterTypeOK'
    BY <1>7, <2>1 DEF RemoveCount, RosterTypeOK
  <2>3. QED
    BY <1>7, <2>1, <2>2 DEF RemoveCount
<1>8. CASE RemoveAnnounce(s)
  <2>1. /\ TickTypeOK' /\ CloseTypeOK'
        /\ removal' \in [Sessions -> RemovalPc]
    BY <1>8, RemovalType DEF RemoveAnnounce, RemovalPc
  <2>2. RosterTypeOK'
    BY <1>8, <2>1 DEF RemoveAnnounce, RosterTypeOK
  <2>3. PluginTypeOK'
    <3>1. /\ quits \in [Sessions -> Nat]
          /\ quits' = [quits EXCEPT ![s] = IF PluginsEnabled THEN @ + 1 ELSE @]
      BY <1>8 DEF RemoveAnnounce, PluginTypeOK
    <3>2. quits' \in [Sessions -> Nat]
      BY ONLY <3>1
    <3>3. joins' = joins /\ offTick' \in BOOLEAN
      BY <1>8 DEF RemoveAnnounce
    <3>4. QED
      BY <3>2, <3>3 DEF PluginTypeOK
  <2>4. QED
    BY <1>8, <2>1, <2>2, <2>3 DEF RemoveAnnounce
<1>9. CASE TickOverflow(s)
  <2>1. CloseTypeOK'
    BY <1>9, BeginCloseType DEF TickOverflow, Closer
  <2>2. QED
    BY <1>9, <2>1 DEF TickOverflow
<1>10. CASE StopOverflow(s)
  <2>1. CloseTypeOK'
    BY <1>10, BeginCloseType DEF StopOverflow, Closer
  <2>2. StopTypeOK'
    BY <1>10, StopStepType DEF StopOverflow, StopTypeOK, StopPc
  <2>3. QED
    BY <1>10, <2>1, <2>2, StopStepType DEF StopOverflow, StopPc
<1>11. QED
  BY <1>1, <1>2, <1>3, <1>4, <1>5, <1>6, <1>7, <1>8, <1>9, <1>10
     DEF Close, RemovePlayerOwned

LEMMA ApplyType ==
    ASSUME TypeOK, NEW e \in RuntimeEvent, Draining, Apply(e), MailboxTypeOK'
    PROVE  TypeOK'
<1> USE Frame, EventFields DEF TypeOK
<1>1. drained' \in 0 .. MaxEventsPerTick
  BY LifecycleAssumption DEF Apply, Draining, TickTypeOK
<1>2. TickTypeOK'
  BY <1>1 DEF Apply, TickTypeOK, TickPc
<1>3. RosterTypeOK'
  BY DEF Apply, RosterTypeOK, RemovalPc
<1>4. StopTypeOK'
  BY DEF Apply, StopTypeOK
<1>5. QED
  BY <1>2, <1>3, <1>4 DEF Apply

LEMMA DrainType == ASSUME TypeOK, Drain PROVE TypeOK'
<1> USE Frame DEF TypeOK
<1>1. CASE DrainCritical
  BY <1>1, PopCriticalType, ApplyType DEF DrainCritical
<1>2. CASE DrainPass
  BY <1>2, PassType DEF DrainPass
<1>3. CASE DrainOrdinary
  BY <1>3, PopOrdinaryType, ApplyType DEF DrainOrdinary
<1>4. CASE DrainEmpty
  <2>1. TickTypeOK'
    BY <1>4 DEF DrainEmpty, TickTypeOK, TickPc
  <2>2. QED
    BY <1>4, <2>1, PassType DEF DrainEmpty
<1>5. CASE DrainLimit
  BY <1>5, TickStepType DEF DrainLimit, TickPc
<1>6. QED
  BY <1>1, <1>2, <1>3, <1>4, <1>5 DEF Drain

LEMMA TickType ==
    ASSUME TypeOK, Enter \/ AddPlayer \/ PlayCheck \/ PlayApply \/ TickStart
                         \/ TickFinish \/ TickExit
    PROVE  TypeOK'
<1> USE Frame DEF TypeOK
<1>1. CASE Enter
  <2>1. CASE EnterPublish
    <3>1. SessionTypeOK'
      BY <2>1 DEF EnterPublish, Transition, SessionTypeOK, SessionState
    <3>2. TickTypeOK'
      BY <2>1, TickStepType DEF EnterPublish, TickPc
    <3>3. QED
      BY <2>1, <3>1, <3>2 DEF EnterPublish
  <2>2. CASE EnterCheck \/ EnterInitial \/ EnterRecheck \/ EnterWelcome
    <3>1. TickTypeOK'
      BY <2>2, TickStepType
         DEF EnterCheck, EnterInitial, EnterRecheck, EnterWelcome, TickPc
    <3>2. QED
      BY <2>2, <3>1 DEF EnterCheck, EnterInitial, EnterRecheck, EnterWelcome
  <2>3. QED
    BY <1>1, <2>1, <2>2 DEF Enter
<1>2. CASE AddRegister
  <2>1. TickTypeOK'
    BY <1>2, TickStepType DEF AddRegister, TickPc
  <2>2. RosterTypeOK'
    BY <1>2 DEF AddRegister, RosterTypeOK
  <2>3. QED
    BY <1>2, <2>1, <2>2 DEF AddRegister
<1>3. CASE AddStore
  <2>1. TickTypeOK'
    BY <1>3, TickStepType DEF AddStore, TickPc
  <2>2. RosterTypeOK'
    <3>1. players' \in [Keys -> Sessions \cup {NoSession}]
      BY <1>3 DEF AddStore, RosterTypeOK, TickTypeOK
    <3>2. QED
      BY <1>3, <3>1 DEF AddStore, RosterTypeOK
  <2>3. QED
    BY <1>3, <2>1, <2>2 DEF AddStore
<1>4. CASE AddDuplicate
  <2>1. TickTypeOK'
    BY <1>4, TickStepType DEF AddDuplicate, TickPc
  <2>2. RosterTypeOK'
    BY <1>4 DEF AddDuplicate, RosterTypeOK
  <2>3. QED
    BY <1>4, <2>1, <2>2 DEF AddDuplicate
<1>5. CASE AddDuplicateClose
  <2>1. TickTypeOK'
    BY <1>5, TickStepType DEF AddDuplicateClose, TickPc
  <2>2. CloseTypeOK'
    BY <1>5 DEF AddDuplicateClose, BeginClose, CloseTypeOK, ClosingPc, Closer
  <2>3. QED
    BY <1>5, <2>1, <2>2 DEF AddDuplicateClose
<1>6. CASE AddVerify
  <2>1. TickTypeOK'
    BY <1>6, TickStepType DEF AddVerify, TickPc
  <2>2. QED
    BY <1>6, <2>1 DEF AddVerify
<1>7. CASE AddUnstore
  <2>1. TickTypeOK'
    BY <1>7, TickStepType DEF AddUnstore, TickPc
  <2>2. RosterTypeOK'
    BY <1>7 DEF AddUnstore, RosterTypeOK
  <2>3. QED
    BY <1>7, <2>1, <2>2 DEF AddUnstore
<1>8. CASE AddUnregister
  <2>1. TickTypeOK'
    BY <1>8, TickStepType DEF AddUnregister, TickPc
  <2>2. RosterTypeOK'
    BY <1>8 DEF AddUnregister, RosterTypeOK
  <2>3. QED
    BY <1>8, <2>1, <2>2 DEF AddUnregister
<1>9. CASE AddCount
  <2>1. TickTypeOK'
    BY <1>9, TickStepType DEF AddCount, TickPc
  <2>2. RosterTypeOK'
    BY <1>9 DEF AddCount, RosterTypeOK
  <2>3. QED
    BY <1>9, <2>1, <2>2 DEF AddCount
<1>10. CASE AddAnnounce
  <2>1. TickTypeOK'
    BY <1>10, TickStepType DEF AddAnnounce, TickPc
  <2>2. joins \in [Sessions -> Nat] /\ joins' = [joins EXCEPT ![current] = @ + 1]
    BY <1>10 DEF AddAnnounce, PluginTypeOK
  <2>3. \A x \in Sessions : joins'[x] \in Nat
    BY ONLY <2>2
  <2>4. joins' \in [Sessions -> Nat]
    BY ONLY <2>2, <2>3
  <2>5. QED
    BY <1>10, <2>1, <2>4 DEF AddAnnounce, PluginTypeOK
<1>11. CASE PlayCheck \/ PlayApply
  <2>1. TickTypeOK'
    BY <1>11, TickStepType DEF PlayCheck, PlayApply, TickPc
  <2>2. QED
    BY <1>11, <2>1 DEF PlayCheck, PlayApply
<1>12. CASE TickStart \/ TickFinish \/ TickExit
  <2>1. TickTypeOK'
    BY <1>12, LifecycleAssumption
       DEF TickStart, TickFinish, TickExit, TickStep, TickTypeOK, TickPc
  <2>2. QED
    BY <1>12, <2>1 DEF TickStart, TickFinish, TickExit
<1>13. QED
  BY <1>1, <1>2, <1>3, <1>4, <1>5, <1>6, <1>7, <1>8, <1>9, <1>10, <1>11, <1>12
     DEF AddPlayer

LEMMA StopType == ASSUME TypeOK, StopBegin \/ Stop PROVE TypeOK'
<1> USE Frame DEF TypeOK
<1>1. CASE StopPostBarrier
  <2>1. MailboxTypeOK'
    BY <1>1, EventType, PostCriticalType DEF StopPostBarrier
  <2>2. StopTypeOK'
    BY <1>1 DEF StopPostBarrier, StopTypeOK, StopPc
  <2>3. QED
    BY <1>1, <2>1, <2>2 DEF StopPostBarrier
<1>2. CASE \E k \in Keys : StopVisit(k)
  <2>1. PICK k \in Keys : StopVisit(k)
    BY <1>2
  <2>2. CloseTypeOK'
    BY <2>1 DEF StopVisit, BeginClose, CloseTypeOK, RosterTypeOK, ClosingPc, Closer
  <2>3. StopTypeOK'
    BY <2>1, StopStepType DEF StopVisit, StopTypeOK, StopPc
  <2>4. QED
    BY <2>1, <2>2, <2>3, StopStepType DEF StopVisit, StopPc
<1>3. CASE StopBegin \/ StopListener \/ StopBroadcast \/ StopRangeDone
  <2>1. StopTypeOK'
    BY <1>3 DEF StopBegin, StopListener, StopBroadcast, StopRangeDone, StopStep,
                StopTypeOK, StopPc
  <2>2. QED
    BY <1>3, <2>1
       DEF StopBegin, StopListener, StopBroadcast, StopRangeDone, StopStep
<1>4. CASE StopBarrierDone \/ StopBarrierTimeout \/ StopCloseStopCh \/ StopJoin
           \/ StopDisablePlugins
  <2>1. StopTypeOK'
    BY <1>4 DEF StopBarrierDone, StopBarrierTimeout, StopCloseStopCh, StopJoin,
                StopDisablePlugins, StopStep, StopTypeOK, StopPc
  <2>2. QED
    BY <1>4, <2>1
       DEF StopBarrierDone, StopBarrierTimeout, StopCloseStopCh, StopJoin,
           StopDisablePlugins, StopStep
<1>5. QED
  BY <1>1, <1>2, <1>3, <1>4 DEF Stop

LEMMA NextType == TypeOK /\ [Next]_vars => TypeOK'
<1> SUFFICES ASSUME TypeOK, [Next]_vars PROVE TypeOK'
  OBVIOUS
<1>1. CASE UNCHANGED vars
  BY <1>1, Frame DEF vars, TypeOK
<1>2. CASE Terminated
  BY <1>1, <1>2 DEF Terminated
<1>3. QED
  BY <1>1, <1>2, NetworkType, CloseType, DrainType, TickType, StopType
     DEF Next, Tick

\* Every variable keeps its type: the ordinary lane of the mailbox stays within
\* its capacity (queue.go:29-39) and the tick owner within
\* maxRuntimeEventsPerTick (player_state.go:161-175).
THEOREM TypeCorrect == Spec => []TypeOK
<1>1. QED
  BY InitType, NextType, PTL DEF Spec

(* No step moves a session out of Closed: Accept and every transition of   *)
(* the state machine start from another state, and Close only stores.      *)
LEMMA ClosedStays ==
    ASSUME TypeOK, [Next]_vars, NEW s \in Sessions, state[s] = "Closed"
    PROVE  state'[s] = "Closed"
<1> USE DEF TypeOK, SessionTypeOK, Transition, sessionVars
<1>1. CASE UNCHANGED vars
  BY <1>1 DEF vars
<1>2. ASSUME NEW t \in Sessions, Accept(t) \/ Read(t) \/ ReaderPost(t)
      PROVE  state'[s] = "Closed"
  BY <1>2 DEF Accept, Read, HandleHandshake, HandleLoginStart, HandleLoginAcknowledged,
              HandleKnownPacks, HandleFinishConfig, HandlePlayChat, ReaderPost,
              PostEnterPlay, PostChat, ReaderClose
<1>3. ASSUME NEW t \in Sessions, NetworkClose(t) \/ Close(t) \/ RemovePlayerOwned(t)
                                 \/ TickOverflow(t) \/ StopOverflow(t)
      PROVE  state'[s] = "Closed"
  BY <1>3 DEF NetworkClose, Close, CloseStore, CloseLoad, CloseRunning, ClosePost,
              RemovePlayerOwned, RemoveSwap, RemoveDelete, RemoveCount,
              RemoveAnnounce, TickOverflow, StopOverflow, StopStep
<1>4. ASSUME Drain PROVE state'[s] = "Closed"
  BY <1>4 DEF Drain, DrainCritical, DrainPass, DrainOrdinary, DrainEmpty, DrainLimit,
              Apply
<1>5. ASSUME Enter PROVE state'[s] = "Closed"
  BY <1>5 DEF Enter, EnterCheck, EnterPublish, EnterInitial, EnterRecheck,
              EnterWelcome
<1>6. ASSUME AddPlayer PROVE state'[s] = "Closed"
  BY <1>6 DEF AddPlayer, AddRegister, AddStore, AddDuplicate, AddDuplicateClose,
              AddVerify, AddUnstore, AddUnregister, AddCount, AddAnnounce
<1>7. ASSUME PlayCheck \/ PlayApply \/ TickStart \/ TickFinish \/ TickExit
      PROVE  state'[s] = "Closed"
  BY <1>7 DEF PlayCheck, PlayApply, TickStart, TickFinish, TickExit
<1>8. ASSUME StopBegin \/ Stop PROVE state'[s] = "Closed"
  BY <1>8 DEF StopBegin, Stop, StopListener, StopBroadcast, StopRangeDone, StopVisit,
              StopPostBarrier, StopBarrierDone, StopBarrierTimeout, StopCloseStopCh,
              StopJoin, StopDisablePlugins, StopStep
<1>9. QED
  BY <1>1, <1>2, <1>3, <1>4, <1>5, <1>6, <1>7, <1>8 DEF Next, Tick, Terminated

\* docs/DEVLOG.md:273: a closed session cannot be resurrected, whatever the
\* reader, the tick owner and Close do at the same time.
THEOREM ClosedForever == Spec => ClosedIsFinal
<1>1. TypeOK /\ [Next]_vars =>
         [\A s \in Sessions : state[s] = "Closed" => state'[s] = "Closed"]_vars
  BY ClosedStays
<1>2. QED
  BY <1>1, TypeCorrect, PTL DEF Spec, ClosedIsFinal

-----------------------------------------------------------------------------
(***************************************************************************)
(* The cleanup of a closed session is never lost, and plugin handlers run  *)
(* on the tick owner while the loop runs: CleanupInv is inductive.         *)
(***************************************************************************)
LEMMA InitCleanup == Init => CleanupInv
<1> SUFFICES ASSUME Init PROVE CleanupInv
  OBVIOUS
<1>1. TypeOK
  BY InitType
<1>2. CloseStarted
  BY DEF Init, CloseStarted
<1>3. RemovalOwner /\ RemovedIsUnregistered
  BY DEF Init, RemovalOwner, RemovedIsUnregistered
<1>4. LoopExited
  BY DEF Init, LoopExited, LoopRunning
<1>5. NoLostCleanup
  BY DEF Init, NoLostCleanup
<1>6. HandlersOnTickWhileRunning
  BY DEF Init, HandlersOnTickWhileRunning
<1>7. QED
  BY <1>1, <1>2, <1>3, <1>4, <1>5, <1>6 DEF CleanupInv

(* While the tick owner is neither removing nor gone, nobody removes: the  *)
(* closing goroutine does it itself only after the loop has exited.        *)
LEMMA NobodyRemoves ==
    ASSUME CleanupInv, tick \notin {"remove", "exited"}, NEW s \in Sessions
    PROVE  removal[s] \notin {"swap", "delete", "count", "announce"}
  BY DEF CleanupInv, RemovalOwner, LoopExited, ByTick

(* Queueing something behind a cleanup keeps it queued. *)
LEMMA QueuedAppend ==
    ASSUME CleanupInv, NEW e \in RuntimeEvent, PostCritical(e), NEW s \in Sessions
    PROVE  /\ CleanupQueued(s) => CleanupQueued(s)'
           /\ e = RemovePlayerOf(s) => CleanupQueued(s)'
<1>1. critical \in Seq(RuntimeEvent) /\ critical' = Append(critical, e)
  BY DEF CleanupInv, TypeOK, MailboxTypeOK, PostCritical
<1>2. /\ Len(critical) \in Nat
      /\ DOMAIN critical = 1 .. Len(critical)
      /\ DOMAIN critical' = 1 .. Len(critical) + 1
      /\ critical'[Len(critical) + 1] = e
      /\ \A i \in 1 .. Len(critical) : critical'[i] = critical[i]
  BY <1>1
<1>3. QED
  BY <1>2 DEF CleanupQueued, RemovePlayerOf

(* Taking the head leaves every other cleanup queued. *)
LEMMA QueuedPop ==
    ASSUME CleanupInv, PopCritical(Head(critical)), NEW s \in Sessions, CleanupQueued(s)
    PROVE  Head(critical) = RemovePlayerOf(s) \/ CleanupQueued(s)'
<1>1. /\ critical \in Seq(RuntimeEvent) /\ critical # <<>>
      /\ critical' = Tail(critical)
  BY DEF CleanupInv, TypeOK, MailboxTypeOK, PopCritical
<1>2. PICK i \in DOMAIN critical : critical[i] = RemovePlayerOf(s)
  BY DEF CleanupQueued
<1>3. CASE i = 1
  BY <1>1, <1>2, <1>3
<1>4. CASE i # 1
  <2>1. i - 1 \in DOMAIN critical' /\ critical'[i - 1] = critical[i]
    BY <1>1, <1>2, <1>4
  <2>2. QED
    BY <1>2, <2>1 DEF CleanupQueued, RemovePlayerOf
<1>5. QED
  BY <1>3, <1>4

(* A step that touches nothing of the protocol but the rest of the mailbox. *)
LEMMA CleanupFrame ==
    ASSUME CleanupInv, TypeOK',
           UNCHANGED <<critical, closeVars, registered, removal, tick, current,
                       stop, offTick>>
    PROVE  CleanupInv'
<1>1. /\ CloseStarted' /\ RemovalOwner' /\ RemovedIsUnregistered' /\ LoopExited'
      /\ HandlersOnTickWhileRunning'
  BY DEF CleanupInv, CloseStarted, RemovalOwner, RemovedIsUnregistered, LoopExited,
         HandlersOnTickWhileRunning, ByTick, ByCloser, LoopRunning, closeVars
<1>2. NoLostCleanup'
  BY DEF CleanupInv, NoLostCleanup, CleanupPending, CleanupQueued, Registering, closeVars
<1>3. QED
  BY <1>1, <1>2 DEF CleanupInv

(* A step that starts a Close and nothing else. *)
LEMMA BeginCloseCleanup ==
    ASSUME CleanupInv, TypeOK', NEW s \in Sessions, NEW who, BeginClose(s, who),
           UNCHANGED <<critical, registered, removal, tick, current, stop, offTick>>
    PROVE  CleanupInv'
<1>1. CloseStarted'
  BY DEF CleanupInv, CloseStarted, BeginClose, TypeOK, CloseTypeOK
<1>2. closing[s] = "open"
  BY DEF CleanupInv, CloseStarted, BeginClose
<1>3. RemovalOwner'
  BY <1>2 DEF CleanupInv, RemovalOwner, BeginClose, ByTick, ByCloser, LoopRunning,
              TypeOK, CloseTypeOK
<1>4. NoLostCleanup'
  BY DEF CleanupInv, NoLostCleanup, CleanupPending, CleanupQueued, Registering,
         BeginClose, TypeOK, CloseTypeOK
<1>5. RemovedIsUnregistered' /\ LoopExited' /\ HandlersOnTickWhileRunning'
  BY DEF CleanupInv, RemovedIsUnregistered, LoopExited, HandlersOnTickWhileRunning,
         LoopRunning
<1>6. QED
  BY <1>1, <1>3, <1>4, <1>5 DEF CleanupInv

(* A step of the tick owner outside removePlayerOwned that leaves the      *)
(* queue, the flags and the other goroutines alone.                        *)
LEMMA TickStepCleanup ==
    ASSUME CleanupInv, TypeOK', tick \notin {"remove", "exited"},
           UNCHANGED <<critical, closeVars, removal, stop, offTick>>,
           \A s \in Sessions :
              registered'[s] => \/ registered[s] /\ (Registering(s) => Registering(s)')
                                \/ closing[s] # "closed"
                                \/ Registering(s)'
    PROVE  CleanupInv'
<1>1. CloseStarted'
  BY DEF CleanupInv, CloseStarted, closeVars
<1>2. RemovalOwner' /\ RemovedIsUnregistered'
  BY NobodyRemoves DEF RemovalOwner, RemovedIsUnregistered
<1>3. LoopExited' /\ HandlersOnTickWhileRunning'
  BY DEF CleanupInv, LoopExited, HandlersOnTickWhileRunning, LoopRunning
<1>4. NoLostCleanup'
  BY DEF CleanupInv, NoLostCleanup, CleanupPending, CleanupQueued, closeVars
<1>5. QED
  BY <1>1, <1>2, <1>3, <1>4 DEF CleanupInv

LEMMA NetworkCleanup ==
    ASSUME CleanupInv, NEW s \in Sessions,
           Accept(s) \/ Read(s) \/ ReaderPost(s) \/ NetworkClose(s) \/ TickOverflow(s)
                     \/ StopOverflow(s)
    PROVE  CleanupInv'
<1> USE DEF mailboxVars, closeVars, rosterVars, tickVars, stopVars, pluginVars
<1>1. TypeOK'
  BY NetworkType, CloseType DEF CleanupInv
<1>2. CASE Accept(s)
  BY <1>1, <1>2, CleanupFrame DEF Accept
<1>3. CASE Read(s)
  <2>1. UNCHANGED <<critical, closeVars, registered, removal, tick, current, stop, offTick>>
    BY <1>3 DEF Read, HandleHandshake, HandleLoginStart, HandleLoginAcknowledged,
                HandleKnownPacks, HandleFinishConfig, HandlePlayChat
  <2>2. QED
    BY <1>1, <2>1, CleanupFrame
<1>4. CASE PostEnterPlay(s) \/ PostChat(s)
  <2>1. UNCHANGED <<critical, closeVars, registered, removal, tick, current, stop, offTick>>
    BY <1>4 DEF PostEnterPlay, PostChat, TryPost
  <2>2. QED
    BY <1>1, <2>1, CleanupFrame
<1>5. CASE ReaderClose(s)
  BY <1>1, <1>5, BeginCloseCleanup, CleanupFrame DEF ReaderClose
<1>6. CASE NetworkClose(s)
  BY <1>1, <1>6, BeginCloseCleanup DEF NetworkClose
<1>7. CASE TickOverflow(s)
  BY <1>1, <1>7, BeginCloseCleanup DEF TickOverflow
<1>8. CASE StopOverflow(s)
  BY <1>1, <1>8, BeginCloseCleanup DEF StopOverflow, StopStep
<1>9. QED
  BY <1>2, <1>3, <1>4, <1>5, <1>6, <1>7, <1>8 DEF ReaderPost

(* The steps of Close after the first one. *)
LEMMA CloseCleanup ==
    ASSUME CleanupInv, NEW s \in Sessions, Close(s)
    PROVE  CleanupInv'
<1> USE DEF mailboxVars, rosterVars, tickVars, stopVars, pluginVars
<1>1. TypeOK /\ TypeOK'
  BY CloseType DEF CleanupInv
<1>2. /\ closing[s] \notin {"open", "owned", "closed"}
      /\ closing'[s] # "open"
      /\ \A t \in Sessions \ {s} : closing'[t] = closing[t]
      /\ closeOnce' = closeOnce
      /\ UNCHANGED <<registered, tick, current, stop, offTick>>
  BY <1>1 DEF Close, CloseStore, CloseLoad, CloseRunning, ClosePost, CloseStep,
              TypeOK, CloseTypeOK
<1>3. CloseStarted'
  BY <1>2 DEF CleanupInv, CloseStarted
<1>4. removal' = removal \/ CloseRunning(s)
  BY DEF Close, CloseStore, CloseLoad, ClosePost
<1>5. RemovalOwner' /\ RemovedIsUnregistered'
  <2>1. CASE removal' = removal
    BY <1>2, <2>1 DEF CleanupInv, RemovalOwner, RemovedIsUnregistered, ByTick, ByCloser,
                      LoopRunning
  <2>2. CASE CloseRunning(s) /\ removal' # removal
    <3>1. /\ ~LoopRunning
          /\ removal' = [removal EXCEPT ![s] = "swap"]
          /\ closing'[s] = "owned"
      BY <1>1, <2>2 DEF CloseRunning, CloseStep, TypeOK, CloseTypeOK
    <3>2. QED
      BY <1>1, <1>2, <3>1
         DEF CleanupInv, RemovalOwner, RemovedIsUnregistered, ByTick, ByCloser,
             LoopRunning, TypeOK, RosterTypeOK
  <2>3. QED
    BY <1>4, <2>1, <2>2
<1>6. LoopExited' /\ HandlersOnTickWhileRunning'
  BY <1>2 DEF CleanupInv, LoopExited, HandlersOnTickWhileRunning, LoopRunning
<1>7. NoLostCleanup'
  <2> SUFFICES ASSUME NEW t \in Sessions, closing'[t] = "closed", registered'[t]
               PROVE  CleanupPending(t)' \/ Registering(t)'
    BY DEF NoLostCleanup
  <2>1. CASE ClosePost(s)
    <3>1. PostCritical(RemovePlayerOf(s)) /\ RemovePlayerOf(s) \in RuntimeEvent
      BY <2>1, EventType DEF ClosePost
    <3>2. CASE t = s
      BY <3>1, <3>2, QueuedAppend DEF CleanupPending
    <3>3. CASE t # s
      <4>1. CleanupPending(t) \/ Registering(t)
        BY <1>2, <3>3 DEF CleanupInv, NoLostCleanup
      <4>2. removal' = removal
        BY <2>1 DEF ClosePost
      <4>3. QED
        BY <1>2, <3>1, <4>1, <4>2, QueuedAppend DEF CleanupPending, Registering
    <3>4. QED
      BY <3>2, <3>3
  <2>2. CASE CloseStore(s) \/ CloseLoad(s) \/ CloseRunning(s)
    <3>1. t # s /\ critical' = critical
      BY <1>1, <1>2, <2>2
         DEF CloseStore, CloseLoad, CloseRunning, CloseStep, TypeOK, CloseTypeOK
    <3>2. CleanupPending(t) \/ Registering(t)
      BY <1>2, <3>1 DEF CleanupInv, NoLostCleanup
    <3>3. removal'[t] = removal[t]
      BY <1>1, <2>2, <3>1 DEF CloseStore, CloseLoad, CloseRunning, TypeOK, RosterTypeOK
    <3>4. QED
      BY <1>2, <3>1, <3>2, <3>3 DEF CleanupPending, CleanupQueued, Registering
  <2>3. QED
    BY <2>1, <2>2 DEF Close
<1>8. QED
  BY <1>1, <1>3, <1>5, <1>6, <1>7 DEF CleanupInv

(* removePlayerOwned, run by its one owner. *)
LEMMA RemovalCleanup ==
    ASSUME CleanupInv, NEW s \in Sessions, RemovePlayerOwned(s)
    PROVE  CleanupInv'
<1> USE DEF mailboxVars, sessionVars, stopVars, pluginVars
<1>1. TypeOK /\ TypeOK'
  BY CloseType DEF CleanupInv
<1>2. /\ removal[s] \in {"swap", "delete", "count", "announce"}
      /\ \A t \in Sessions \ {s} : removal'[t] = removal[t]
      /\ UNCHANGED <<critical, stop>>
  BY <1>1 DEF RemovePlayerOwned, RemoveSwap, RemoveDelete, RemoveCount, RemoveAnnounce,
              RemovalStep, TypeOK, RosterTypeOK
<1>3. /\ ~registered'[s]
      /\ \A t \in Sessions \ {s} : registered'[t] = registered[t]
      /\ removal'[s] # "swap"
  BY <1>1 DEF CleanupInv, RemovedIsUnregistered, RemovePlayerOwned, RemoveSwap,
              RemoveDelete, RemoveCount, RemoveAnnounce, RemovalStep, TypeOK,
              RosterTypeOK
<1>4. \/ UNCHANGED <<tick, current>>
      \/ /\ tick = "remove" /\ current = s /\ tick' = "drain"
         /\ removal'[s] = "over"
  BY <1>1 DEF RemovePlayerOwned, RemoveSwap, RemoveDelete, RemoveCount,
              RemoveAnnounce, RemovalStep, ByTick, TypeOK, RosterTypeOK
<1>5. /\ closeOnce' = closeOnce
      /\ \/ closing' = closing
         \/ /\ closing[s] = "owned" /\ closing' = [closing EXCEPT ![s] = "closed"]
            /\ removal'[s] = "over"
  BY <1>1 DEF RemovePlayerOwned, RemoveSwap, RemoveDelete, RemoveCount,
              RemoveAnnounce, RemovalStep, ByCloser, TypeOK, RosterTypeOK
<1>6. CloseStarted'
  BY <1>1, <1>5 DEF CleanupInv, CloseStarted, TypeOK, CloseTypeOK
<1>7. RemovalOwner'
  <2> SUFFICES ASSUME NEW t \in Sessions,
                      removal'[t] \in {"swap", "delete", "count", "announce"}
               PROVE  ByTick(t)' \/ (ByCloser(t)' /\ ~LoopRunning')
    BY DEF RemovalOwner
  <2>1. ByTick(t) \/ (ByCloser(t) /\ ~LoopRunning)
    BY <1>2 DEF CleanupInv, RemovalOwner
  <2>2. ByTick(t) => ByTick(t)'
    BY <1>4 DEF ByTick
  <2>3. ByCloser(t) => ByCloser(t)'
    BY <1>1, <1>5 DEF ByCloser, TypeOK, CloseTypeOK
  <2>4. QED
    BY <1>2, <2>1, <2>2, <2>3 DEF LoopRunning
<1>8. RemovedIsUnregistered'
  BY <1>2, <1>3 DEF CleanupInv, RemovedIsUnregistered
<1>9. LoopExited'
  BY <1>2, <1>4 DEF CleanupInv, LoopExited, LoopRunning
<1>10. HandlersOnTickWhileRunning'
  <2>1. offTick' = offTick \/ RemoveAnnounce(s)
    BY DEF RemovePlayerOwned, RemoveSwap, RemoveDelete, RemoveCount
  <2>2. CASE RemoveAnnounce(s)
    <3>1. LoopRunning => ByTick(s)
      BY <1>2 DEF CleanupInv, RemovalOwner
    <3>2. LoopRunning => offTick' = offTick
      BY <1>1, <2>2, <3>1 DEF RemoveAnnounce, TypeOK, PluginTypeOK
    <3>3. QED
      BY <1>2, <3>2 DEF CleanupInv, HandlersOnTickWhileRunning, LoopRunning
  <2>3. QED
    BY <1>2, <2>1, <2>2 DEF CleanupInv, HandlersOnTickWhileRunning, LoopRunning
<1>11. NoLostCleanup'
  <2> SUFFICES ASSUME NEW t \in Sessions, closing'[t] = "closed", registered'[t]
               PROVE  CleanupPending(t)' \/ Registering(t)'
    BY DEF NoLostCleanup
  <2>1. t # s /\ registered[t] /\ closing[t] = "closed"
    BY <1>1, <1>3, <1>5 DEF TypeOK, CloseTypeOK
  <2>2. CleanupPending(t) \/ Registering(t)
    BY <2>1 DEF CleanupInv, NoLostCleanup
  <2>3. QED
    BY <1>2, <1>4, <2>1, <2>2 DEF CleanupPending, CleanupQueued, Registering
<1>12. QED
  BY <1>1, <1>6, <1>7, <1>8, <1>9, <1>10, <1>11 DEF CleanupInv

(* An event taken from the mailbox and handed to its handler; the cleanups *)
(* still queued are those of before, except the one just taken.            *)
LEMMA ApplyCleanup ==
    ASSUME CleanupInv, TypeOK', NEW e \in RuntimeEvent, tick = "drain", Apply(e),
           \A s \in Sessions : CleanupQueued(s) =>
              e = RemovePlayerOf(s) \/ CleanupQueued(s)'
    PROVE  CleanupInv'
<1>1. /\ tick' \notin {"drain", "exited"} \/ e.kind = "Barrier"
      /\ UNCHANGED <<closeOnce, closing, registered, stop, offTick>>
      /\ current' = e.session
      /\ tick' # "exited"
  BY EventFields DEF Apply, closeVars, pluginVars
<1>2. \A s \in Sessions :
         IF e = RemovePlayerOf(s)
         THEN removal'[s] = "swap" /\ tick' = "remove" /\ current' = s
         ELSE removal'[s] = removal[s]
  BY EventFields DEF CleanupInv, TypeOK, RosterTypeOK, Apply, RemovePlayerOf
<1>3. CloseStarted'
  BY <1>1 DEF CleanupInv, CloseStarted
<1>4. RemovalOwner' /\ RemovedIsUnregistered'
  BY <1>2, NobodyRemoves DEF RemovalOwner, RemovedIsUnregistered, ByTick
<1>5. LoopExited' /\ HandlersOnTickWhileRunning'
  BY <1>1 DEF CleanupInv, LoopExited, HandlersOnTickWhileRunning, LoopRunning
<1>6. NoLostCleanup'
  <2> SUFFICES ASSUME NEW s \in Sessions, closing'[s] = "closed", registered'[s]
               PROVE  CleanupPending(s)' \/ Registering(s)'
    BY DEF NoLostCleanup
  <2>1. CleanupQueued(s)
    BY <1>1, NobodyRemoves
       DEF CleanupInv, NoLostCleanup, CleanupPending, Registering
  <2>2. QED
    BY <1>2, <2>1 DEF CleanupPending
<1>7. QED
  BY <1>3, <1>4, <1>5, <1>6 DEF CleanupInv

LEMMA DrainCleanup == ASSUME CleanupInv, Drain PROVE CleanupInv'
<1> USE DEF mailboxVars, closeVars, rosterVars, stopVars, pluginVars
<1>1. TypeOK /\ MailboxTypeOK /\ TypeOK' /\ tick = "drain"
  BY DrainType DEF CleanupInv, TypeOK, Drain, DrainCritical, DrainPass, DrainOrdinary,
                   DrainEmpty, DrainLimit, Draining, TickStep
<1>2. CASE DrainCritical
  <2>1. PopCritical(Head(critical)) /\ Apply(Head(critical))
    BY <1>2 DEF DrainCritical
  <2>2. Head(critical) \in RuntimeEvent
    BY <1>1, <2>1, PopCriticalType
  <2>3. QED
    BY <1>1, <2>1, <2>2, QueuedPop, ApplyCleanup
<1>3. CASE DrainOrdinary
  <2>1. PopOrdinary(Head(values)) /\ Apply(Head(values))
    BY <1>3 DEF DrainOrdinary
  <2>2. Head(values) \in RuntimeEvent /\ critical' = critical
    BY <1>1, <2>1, PopOrdinaryType DEF PopOrdinary
  <2>3. \A s \in Sessions : CleanupQueued(s) => CleanupQueued(s)'
    BY <2>2 DEF CleanupQueued
  <2>4. QED
    BY <1>1, <2>1, <2>2, <2>3, ApplyCleanup
<1>4. CASE DrainPass \/ DrainEmpty \/ DrainLimit
  <2>1. /\ UNCHANGED <<critical, closeVars, registered, removal, stop, offTick>>
        /\ \A s \in Sessions : ~Registering(s)
    BY <1>1, <1>4 DEF DrainPass, DrainEmpty, DrainLimit, PassCritical, PopNothing,
                      Registering
  <2>2. QED
    BY <1>1, <2>1, TickStepCleanup
<1>5. QED
  BY <1>2, <1>3, <1>4 DEF Drain

LEMMA TickCleanup ==
    ASSUME CleanupInv, Enter \/ AddPlayer \/ PlayCheck \/ PlayApply \/ TickStart
                             \/ TickFinish \/ TickExit
    PROVE  CleanupInv'
<1> USE DEF mailboxVars, sessionVars, closeVars, rosterVars, stopVars, pluginVars
<1>1. TypeOK /\ TypeOK'
  BY TickType DEF CleanupInv
<1>2. CASE Enter \/ PlayCheck \/ PlayApply \/ TickStart \/ TickFinish \/ TickExit
           \/ AddCount \/ AddAnnounce
  <2>1. /\ tick \in {"enter", "publish", "initial", "recheck", "welcome", "check",
                     "apply", "between", "finish", "count", "announce"}
        /\ UNCHANGED <<critical, closeOnce, closing, closer, registered, removal,
                       stop, offTick>>
    BY <1>2 DEF Enter, EnterCheck, EnterPublish, EnterInitial, EnterRecheck,
                EnterWelcome, PlayCheck, PlayApply, TickStart, TickFinish, TickExit,
                AddCount, AddAnnounce, TickStep
  <2>2. \A s \in Sessions : ~Registering(s)
    BY <2>1 DEF Registering
  <2>3. QED
    BY <1>1, <2>1, <2>2, TickStepCleanup
<1>3. CASE AddRegister
  <2>1. /\ tick = "register"
        /\ UNCHANGED <<critical, closeOnce, closing, closer, removal, stop, offTick>>
    BY <1>3 DEF AddRegister, TickStep
  <2>2. ASSUME NEW s \in Sessions, registered'[s]
        PROVE  (registered[s] /\ ~Registering(s)) \/ Registering(s)'
    BY <1>1, <1>3, <2>1, <2>2
       DEF AddRegister, TickStep, Registering, TypeOK, RosterTypeOK
  <2>3. QED
    BY <1>1, <2>1, <2>2, TickStepCleanup
<1>4. CASE AddStore \/ AddUnstore
  <2>1. /\ tick \in {"store", "unstore"}
        /\ tick' \in {"verify", "duplicate", "unregister"}
        /\ current' = current
        /\ UNCHANGED <<critical, closeOnce, closing, closer, registered, removal,
                       stop, offTick>>
    BY <1>4 DEF AddStore, AddUnstore, TickStep
  <2>2. \A s \in Sessions : Registering(s) => Registering(s)'
    BY <2>1 DEF Registering
  <2>3. QED
    BY <1>1, <2>1, <2>2, TickStepCleanup
<1>5. CASE AddDuplicate \/ AddUnregister
  <2>1. /\ tick \in {"duplicate", "unregister"}
        /\ registered' = [registered EXCEPT ![current] = FALSE]
        /\ UNCHANGED <<critical, closeOnce, closing, closer, removal, stop, offTick>>
    BY <1>5 DEF AddDuplicate, AddUnregister, TickStep
  <2>2. ASSUME NEW s \in Sessions, registered'[s]
        PROVE  registered[s] /\ ~Registering(s)
    BY <1>1, <2>1, <2>2 DEF Registering, TypeOK, RosterTypeOK
  <2>3. QED
    BY <1>1, <2>1, <2>2, TickStepCleanup
<1>6. CASE AddDuplicateClose
  <2>1. /\ tick = "duplicateClose" /\ tick' = "drain"
        /\ UNCHANGED <<critical, registered, removal, stop, offTick>>
    BY <1>6 DEF AddDuplicateClose, TickStep
  <2>2. \A s \in Sessions : ~Registering(s)
    BY <2>1 DEF Registering
  <2>3. CASE UNCHANGED closeVars
    BY <1>1, <2>1, <2>2, <2>3, TickStepCleanup
  <2>4. CASE BeginClose(current, "tick")
    <3>1. CloseStarted'
      BY <2>4 DEF CleanupInv, CloseStarted, BeginClose, TypeOK, CloseTypeOK
    <3>2. RemovalOwner' /\ RemovedIsUnregistered'
      BY <2>1, NobodyRemoves DEF RemovalOwner, RemovedIsUnregistered
    <3>3. LoopExited' /\ HandlersOnTickWhileRunning'
      BY <2>1 DEF CleanupInv, LoopExited, HandlersOnTickWhileRunning, LoopRunning
    <3>4. NoLostCleanup'
      BY <1>1, <2>1, <2>2, <2>4
         DEF CleanupInv, NoLostCleanup, CleanupPending, CleanupQueued, BeginClose,
             TypeOK, CloseTypeOK
    <3>5. QED
      BY <1>1, <3>1, <3>2, <3>3, <3>4 DEF CleanupInv
  <2>5. QED
    BY <1>6, <2>3, <2>4 DEF AddDuplicateClose
<1>7. CASE AddVerify
  <2>1. /\ tick = "verify" /\ current' = current
        /\ tick' = IF Publishable(current) THEN "count" ELSE "unstore"
        /\ UNCHANGED <<critical, closeOnce, closing, closer, registered, removal,
                       stop, offTick>>
    BY <1>7 DEF AddVerify, TickStep
  <2>2. ASSUME NEW s \in Sessions, Registering(s)
        PROVE  closing[s] # "closed" \/ Registering(s)'
    \* A session that is kept had not begun its Close when AddPlayer looked again.
    BY <2>1, <2>2 DEF Registering, Publishable, CleanupInv, CloseStarted
  <2>3. QED
    BY <1>1, <2>1, <2>2, TickStepCleanup
<1>8. QED
  BY <1>2, <1>3, <1>4, <1>5, <1>6, <1>7 DEF AddPlayer

LEMMA StopCleanup == ASSUME CleanupInv, StopBegin \/ Stop PROVE CleanupInv'
<1> USE DEF mailboxVars, sessionVars, rosterVars, tickVars, pluginVars
<1>1. TypeOK /\ TypeOK'
  BY StopType DEF CleanupInv
<1>2. CASE \E k \in Keys : StopVisit(k)
  <2>1. PICK k \in Keys : StopVisit(k)
    BY <1>2
  <2>2. UNCHANGED <<critical, registered, removal, tick, current, stop, offTick>>
    BY <2>1 DEF StopVisit, StopStep
  <2>3. CASE UNCHANGED closeVars
    BY <1>1, <2>2, <2>3, CleanupFrame DEF closeVars
  <2>4. CASE players[k] # NoSession /\ BeginClose(players[k], "stop")
    <3>1. players[k] \in Sessions
      BY <1>1, <2>4 DEF TypeOK, RosterTypeOK
    <3>2. QED
      BY <1>1, <2>2, <2>4, <3>1, BeginCloseCleanup
  <2>5. QED
    BY <2>1, <2>3, <2>4 DEF StopVisit
<1>3. CASE StopPostBarrier
  <2>1. /\ PostCritical(Barrier) /\ Barrier \in RuntimeEvent
        /\ UNCHANGED <<closeOnce, closing, registered, removal, tick, current, offTick>>
        /\ stop = "barrier" /\ stop' = "wait"
    BY <1>3, EventType DEF StopPostBarrier, closeVars
  <2>2. /\ CloseStarted' /\ RemovalOwner' /\ RemovedIsUnregistered' /\ LoopExited'
        /\ HandlersOnTickWhileRunning'
    BY <2>1 DEF CleanupInv, CloseStarted, RemovalOwner, RemovedIsUnregistered,
                LoopExited, HandlersOnTickWhileRunning, ByTick, ByCloser, LoopRunning
  <2>3. \A s \in Sessions : CleanupQueued(s) => CleanupQueued(s)'
    BY <2>1, QueuedAppend
  <2>4. NoLostCleanup'
    BY <2>1, <2>3 DEF CleanupInv, NoLostCleanup, CleanupPending, Registering
  <2>5. QED
    BY <1>1, <2>2, <2>4 DEF CleanupInv
<1>4. CASE StopBegin \/ StopListener \/ StopBroadcast \/ StopRangeDone \/ StopBarrierDone
           \/ StopBarrierTimeout \/ StopCloseStopCh \/ StopJoin \/ StopDisablePlugins
  <2>1. /\ UNCHANGED <<critical, closeOnce, closing, registered, removal, tick,
                       current, offTick>>
        /\ LoopRunning' => LoopRunning
        /\ ~LoopRunning' => ~LoopRunning \/ tick = "exited"
    BY <1>4 DEF StopBegin, StopListener, StopBroadcast, StopRangeDone, StopBarrierDone,
                StopBarrierTimeout, StopCloseStopCh, StopJoin, StopDisablePlugins,
                StopStep, LoopRunning, closeVars
  <2>2. CloseStarted' /\ RemovedIsUnregistered'
    BY <2>1 DEF CleanupInv, CloseStarted, RemovedIsUnregistered
  <2>3. RemovalOwner'
    BY <2>1 DEF CleanupInv, RemovalOwner, ByTick, ByCloser
  <2>4. LoopExited' /\ HandlersOnTickWhileRunning'
    BY <2>1 DEF CleanupInv, LoopExited, HandlersOnTickWhileRunning
  <2>5. NoLostCleanup'
    BY <2>1 DEF CleanupInv, NoLostCleanup, CleanupPending, CleanupQueued, Registering
  <2>6. QED
    BY <1>1, <2>2, <2>3, <2>4, <2>5 DEF CleanupInv
<1>5. QED
  BY <1>2, <1>3, <1>4 DEF Stop

LEMMA NextCleanup == CleanupInv /\ [Next]_vars => CleanupInv'
<1> SUFFICES ASSUME CleanupInv, [Next]_vars PROVE CleanupInv'
  OBVIOUS
<1>1. CASE UNCHANGED vars
  <2>1. TypeOK'
    BY <1>1, NextType DEF CleanupInv
  <2>2. UNCHANGED <<critical, closeVars, registered, removal, tick, current, stop, offTick>>
    BY <1>1 DEF vars, mailboxVars, closeVars, rosterVars, tickVars, stopVars, pluginVars
  <2>3. QED
    BY <2>1, <2>2, CleanupFrame
<1>2. CASE Terminated
  BY <1>1, <1>2 DEF Terminated
<1>3. QED
  BY <1>1, <1>2, NetworkCleanup, CloseCleanup, RemovalCleanup, DrainCleanup,
     TickCleanup, StopCleanup
     DEF Next, Tick

\* The whole protocol invariant, for any number of sessions and names.
THEOREM CleanupProtocol == Spec => []CleanupInv
<1>1. QED
  BY InitCleanup, NextCleanup, PTL DEF Spec

\* server.go:211-213: a Close that races with AddPlayer is never lost.  Once it
\* has returned, a session that is still registered has a removal queued or
\* under way, or AddPlayer is about to discover the Close.
THEOREM CleanupNeverLost == Spec => []NoLostCleanup
<1>1. CleanupInv => NoLostCleanup
  BY DEF CleanupInv
<1>2. QED
  BY <1>1, CleanupProtocol, PTL

\* server.go:275-285: as long as the tick loop runs, PlayerQuit and PlayerJoin
\* are dispatched by the tick owner and by no other goroutine.
THEOREM HandlersStayOnTick == Spec => []HandlersOnTickWhileRunning
<1>1. CleanupInv => HandlersOnTickWhileRunning
  BY DEF CleanupInv
<1>2. QED
  BY <1>1, CleanupProtocol, PTL

-----------------------------------------------------------------------------
(***************************************************************************)
(* The roster stays consistent: the registered flag, the player map, the   *)
(* online count and the plugin's view of the players agree, whatever the   *)
(* tick owner, the readers and the goroutines in Close interleave; and the *)
(* life cycle implements Roster.                                           *)
(***************************************************************************)
Published(s) == players[name[s]] = s

(* The stages of a session on its way through the roster.                  *)
Out(s)     == ~registered[s] /\ ~Published(s) /\ joins[s] = 0 /\ quits[s] = 0
Flagged(s) == registered[s] /\ ~Published(s) /\ joins[s] = 0 /\ quits[s] = 0
Stored(s)  == registered[s] /\ Published(s) /\ joins[s] = 0 /\ quits[s] = 0
Present(s) == registered[s] /\ Published(s) /\ joins[s] = 1 /\ quits[s] = 0
Leaving(s) == ~registered[s] /\ Published(s) /\ joins[s] = 1 /\ quits[s] = 0
Deleted(s) == ~registered[s] /\ ~Published(s) /\ joins[s] = 1 /\ quits[s] = 0
Gone(s)    == /\ ~registered[s] /\ ~Published(s) /\ joins[s] = 1
              /\ quits[s] = 1 \/ (quits[s] = 0 /\ ~PluginsEnabled)

(* Where the tick owner and a removal stand with respect to it.            *)
Entering(s) == current = s /\ tick \in {"initial", "recheck", "register",
                                        "duplicateClose"}
Flagging(s) == current = s /\ tick \in {"store", "duplicate", "unregister"}
Storing(s)  == current = s /\ tick \in {"verify", "unstore", "count", "announce"}
Removing(s) == removal[s] \in {"delete", "count", "announce"}

Admitted(s) == state[s] \in {"Play", "Closed"}

(* The program counters determine the stage of a session, except between   *)
(* AddPlayer and the removal, where it is out, present or gone; and it is  *)
(* out until the session has been admitted to Play.                        *)
StageOf(s) ==
    /\ Entering(s) => Out(s) /\ Admitted(s)
    /\ ~Admitted(s) => Out(s)
    /\ Flagging(s) => Flagged(s)
    /\ Storing(s) => Stored(s)
    /\ removal[s] = "delete" => Leaving(s)
    /\ removal[s] \in {"count", "announce"} => Deleted(s)
    /\ \/ Flagging(s) \/ Storing(s) \/ Removing(s)
       \/ Out(s) \/ Present(s) \/ Gone(s)

(* A player is published under the name of its session.                    *)
NamedByKey == \A k \in Keys : players[k] # NoSession => name[players[k]] = k

(* A handler of the tick owner has a session in hand.                      *)
CurrentIsSession ==
    tick \notin {"between", "drain", "finish", "exited"} => current \in Sessions

(* Nothing unregisters the session of the Play event being applied.        *)
ActiveIsRegistered == tick = "apply" => registered[current]

RosterInv ==
    /\ CleanupInv
    /\ NamedByKey
    /\ \A s \in Sessions : StageOf(s)
    /\ CurrentIsSession
    /\ ActiveIsRegistered

-----------------------------------------------------------------------------
LEMMA InitRoster == Init => RosterInv
<1> SUFFICES ASSUME Init PROVE RosterInv
  OBVIOUS
<1>1. CleanupInv
  BY InitCleanup
<1>2. NamedByKey
  BY DEF Init, NamedByKey
<1>3. ASSUME NEW s \in Sessions PROVE StageOf(s)
  <2>1. name[s] = Unnamed /\ players[Unnamed] = NoSession
    BY DEF Init, Keys
  <2>2. Out(s) /\ ~Removing(s) /\ ~Entering(s) /\ ~Flagging(s) /\ ~Storing(s)
    BY <2>1, LifecycleAssumption
       DEF Init, Out, Published, Removing, Entering, Flagging, Storing
  <2>3. QED
    BY <2>2 DEF StageOf, Removing
<1>4. CurrentIsSession /\ ActiveIsRegistered
  BY DEF Init, CurrentIsSession, ActiveIsRegistered
<1>5. QED
  BY <1>1, <1>2, <1>3, <1>4 DEF RosterInv

(* Once a session is in Play it keeps its name, and can only close.        *)
LEMMA AdmittedStays ==
    ASSUME TypeOK, [Next]_vars, NEW s \in Sessions, Admitted(s)
    PROVE  Admitted(s)' /\ name'[s] = name[s]
<1> USE DEF Admitted, TypeOK, SessionTypeOK, Transition, sessionVars
<1>1. CASE UNCHANGED vars
  BY <1>1 DEF vars
<1>2. ASSUME NEW t \in Sessions, Accept(t) \/ Read(t) \/ ReaderPost(t)
      PROVE  Admitted(s)' /\ name'[s] = name[s]
  BY <1>2 DEF Accept, Read, HandleHandshake, HandleLoginStart, HandleLoginAcknowledged,
              HandleKnownPacks, HandleFinishConfig, HandlePlayChat, ReaderPost,
              PostEnterPlay, PostChat, ReaderClose
<1>3. ASSUME NEW t \in Sessions, NetworkClose(t) \/ Close(t) \/ RemovePlayerOwned(t)
                                 \/ TickOverflow(t) \/ StopOverflow(t)
      PROVE  Admitted(s)' /\ name'[s] = name[s]
  BY <1>3 DEF NetworkClose, Close, CloseStore, CloseLoad, CloseRunning, ClosePost,
              RemovePlayerOwned, RemoveSwap, RemoveDelete, RemoveCount,
              RemoveAnnounce, TickOverflow, StopOverflow, StopStep
<1>4. ASSUME Drain PROVE Admitted(s)' /\ name'[s] = name[s]
  BY <1>4 DEF Drain, DrainCritical, DrainPass, DrainOrdinary, DrainEmpty, DrainLimit,
              Apply
<1>5. ASSUME Enter PROVE Admitted(s)' /\ name'[s] = name[s]
  BY <1>5 DEF Enter, EnterCheck, EnterPublish, EnterInitial, EnterRecheck,
              EnterWelcome
<1>6. ASSUME AddPlayer PROVE Admitted(s)' /\ name'[s] = name[s]
  BY <1>6 DEF AddPlayer, AddRegister, AddStore, AddDuplicate, AddDuplicateClose,
              AddVerify, AddUnstore, AddUnregister, AddCount, AddAnnounce
<1>7. ASSUME PlayCheck \/ PlayApply \/ TickStart \/ TickFinish \/ TickExit
      PROVE  Admitted(s)' /\ name'[s] = name[s]
  BY <1>7 DEF PlayCheck, PlayApply, TickStart, TickFinish, TickExit
<1>8. ASSUME StopBegin \/ Stop PROVE Admitted(s)' /\ name'[s] = name[s]
  BY <1>8 DEF StopBegin, Stop, StopListener, StopBroadcast, StopRangeDone, StopVisit,
              StopPostBarrier, StopBarrierDone, StopBarrierTimeout, StopCloseStopCh,
              StopJoin, StopDisablePlugins, StopStep
<1>9. QED
  BY <1>1, <1>2, <1>3, <1>4, <1>5, <1>6, <1>7, <1>8 DEF Next, Tick, Terminated

-----------------------------------------------------------------------------
(***************************************************************************)
(* The steps that move a session through the roster; every other step is   *)
(* quiet.                                                                  *)
(***************************************************************************)
Counting == tick \in {"verify", "unstore", "count"}

SamePlace(t) ==
    /\ Flagging(t)' <=> Flagging(t)
    /\ Storing(t)' <=> Storing(t)
    /\ Entering(t)' => Entering(t) \/ (state[t] = "PlayPending" /\ Admitted(t)')
    /\ removal'[t] = removal[t] \/ (~Removing(t) /\ ~Removing(t)')

Quiet ==
    /\ UNCHANGED <<registered, players, onlineCount, joins, quits>>
    /\ PluginsEnabled' => PluginsEnabled
    /\ Counting' <=> Counting
    /\ \A t \in Sessions : SamePlace(t)

AddStep == \/ AddRegister \/ AddStore \/ AddDuplicate \/ AddUnstore
           \/ AddUnregister \/ AddCount \/ AddAnnounce

(* A step that leaves the tick owner and the removals where they are.      *)
LEMMA QuietFrame ==
    ASSUME UNCHANGED <<registered, players, onlineCount, joins, quits, removal,
                       tick, current, stop>>
    PROVE  Quiet
  BY DEF Quiet, SamePlace, Flagging, Storing, Entering, Removing, Counting,
         PluginsEnabled

LEMMA NetworkQuiet ==
    ASSUME NEW s \in Sessions,
           Accept(s) \/ Read(s) \/ ReaderPost(s) \/ NetworkClose(s) \/ TickOverflow(s)
                     \/ StopOverflow(s)
    PROVE  Quiet
<1> USE DEF mailboxVars, rosterVars, tickVars, stopVars, pluginVars
<1>1. CASE Accept(s) \/ NetworkClose(s) \/ TickOverflow(s) \/ StopOverflow(s)
  BY <1>1, QuietFrame DEF Accept, NetworkClose, TickOverflow, StopOverflow, StopStep
<1>2. CASE Read(s)
  BY <1>2, QuietFrame
     DEF Read, HandleHandshake, HandleLoginStart, HandleLoginAcknowledged,
         HandleKnownPacks, HandleFinishConfig, HandlePlayChat
<1>3. CASE ReaderPost(s)
  BY <1>3, QuietFrame DEF ReaderPost, PostEnterPlay, PostChat, ReaderClose
<1>4. QED
  BY <1>1, <1>2, <1>3

(* A goroutine that begins to remove a player itself was not removing it.  *)
LEMMA CloseQuiet ==
    ASSUME CleanupInv, NEW s \in Sessions, Close(s)
    PROVE  Quiet
<1> USE DEF mailboxVars, rosterVars, tickVars, stopVars, pluginVars
<1>1. CASE CloseStore(s) \/ CloseLoad(s) \/ ClosePost(s)
  BY <1>1, QuietFrame DEF CloseStore, CloseLoad, ClosePost
<1>2. CASE CloseRunning(s)
  <2>1. CASE LoopRunning
    BY <1>2, <2>1, QuietFrame DEF CloseRunning
  <2>2. CASE ~LoopRunning
    <3>1. /\ UNCHANGED <<registered, players, onlineCount, joins, quits, tick,
                         current, stop>>
          /\ removal' = [removal EXCEPT ![s] = "swap"]
      BY <1>2, <2>2 DEF CloseRunning
    <3>2. ~Removing(s)
      BY <1>2, <2>2
         DEF CloseRunning, CloseStep, CleanupInv, RemovalOwner, LoopExited, ByTick,
             ByCloser, Removing
    <3>3. ASSUME NEW t \in Sessions
          PROVE  removal'[t] = removal[t] \/ (~Removing(t) /\ ~Removing(t)')
      BY <3>1, <3>2 DEF Removing, CleanupInv, TypeOK, RosterTypeOK
    <3>4. QED
      BY <3>1, <3>3
         DEF Quiet, SamePlace, Flagging, Storing, Entering, Counting, PluginsEnabled
  <2>3. QED
    BY <2>1, <2>2
<1>3. QED
  BY <1>1, <1>2 DEF Close

LEMMA DrainQuiet == ASSUME CleanupInv, Drain PROVE Quiet
<1> USE DEF mailboxVars, sessionVars, closeVars, rosterVars, tickVars, stopVars,
            pluginVars
<1>1. tick = "drain"
  BY DEF Drain, DrainCritical, DrainPass, DrainOrdinary, DrainEmpty, DrainLimit,
         Draining, TickStep
<1>2. CASE DrainPass \/ DrainEmpty \/ DrainLimit
  <2>1. /\ UNCHANGED <<registered, players, onlineCount, joins, quits, removal, stop>>
        /\ tick' \in {"drain", "finish"}
    BY <1>1, <1>2 DEF DrainPass, DrainEmpty, DrainLimit, TickStep
  <2>2. QED
    BY <1>1, <2>1 DEF Quiet, SamePlace, Flagging, Storing, Entering, Removing,
                      Counting, PluginsEnabled
<1>3. ASSUME NEW e \in RuntimeEvent, Apply(e)
      PROVE  Quiet
  <2>1. /\ UNCHANGED <<registered, players, onlineCount, joins, quits, stop>>
        /\ tick' \in {"enter", "remove", "check", "drain"}
        /\ \A t \in Sessions : removal'[t] \in {removal[t], "swap"}
    BY <1>3, EventFields DEF Apply, CleanupInv, TypeOK, RosterTypeOK
  <2>2. ASSUME NEW t \in Sessions PROVE ~Removing(t) /\ ~Removing(t)'
    BY <1>1, <2>1, NobodyRemoves DEF Removing
  <2>3. QED
    BY <1>1, <2>1, <2>2 DEF Quiet, SamePlace, Flagging, Storing, Entering,
                            Counting, PluginsEnabled
<1>4. CASE DrainCritical
  <2>1. PopCritical(Head(critical)) /\ Apply(Head(critical))
    BY <1>4 DEF DrainCritical
  <2>2. QED
    BY <1>3, <2>1, PopCriticalType DEF CleanupInv, TypeOK
<1>5. CASE DrainOrdinary
  <2>1. PopOrdinary(Head(values)) /\ Apply(Head(values))
    BY <1>5 DEF DrainOrdinary
  <2>2. QED
    BY <1>3, <2>1, PopOrdinaryType DEF CleanupInv, TypeOK
<1>6. QED
  BY <1>2, <1>4, <1>5 DEF Drain

LEMMA TickQuiet ==
    ASSUME CleanupInv, Enter \/ AddDuplicateClose \/ AddVerify \/ PlayCheck \/ PlayApply
                             \/ TickStart \/ TickFinish \/ TickExit
    PROVE  Quiet
<1> USE DEF mailboxVars, rosterVars, stopVars, pluginVars
<1>1. UNCHANGED <<registered, players, onlineCount, joins, quits, removal, stop>>
  BY DEF Enter, EnterCheck, EnterPublish, EnterInitial, EnterRecheck, EnterWelcome,
         AddDuplicateClose, AddVerify, PlayCheck, PlayApply, TickStart, TickFinish,
         TickExit
<1>2. CASE EnterPublish
  <2>1. \/ /\ tick = "publish" /\ tick' = "initial" /\ current' = current
           /\ state[current] = "PlayPending"
           /\ state' = [state EXCEPT ![current] = "Play"]
        \/ tick = "publish" /\ tick' = "drain"
    BY <1>2 DEF EnterPublish, TickStep, Transition
  <2>2. \A t \in Sessions : Entering(t)' => state[t] = "PlayPending" /\ Admitted(t)'
    BY <2>1 DEF Entering, Admitted, CleanupInv, TypeOK, SessionTypeOK
  <2>3. QED
    BY <1>1, <2>1, <2>2
       DEF Quiet, SamePlace, Flagging, Storing, Removing, Counting, PluginsEnabled
<1>3. CASE EnterCheck \/ EnterInitial \/ EnterRecheck \/ EnterWelcome
           \/ AddDuplicateClose \/ PlayCheck \/ PlayApply \/ TickStart \/ TickFinish
           \/ TickExit
  <2>1. \/ tick \in {"initial", "recheck"} /\ tick' \in {"recheck", "register", "drain"}
           /\ (tick' # "drain" => current' = current)
        \/ /\ tick \in {"enter", "welcome", "duplicateClose", "check", "apply",
                        "between", "finish"}
           /\ tick' \in {"publish", "drain", "apply", "between", "exited"}
    BY <1>3 DEF EnterCheck, EnterInitial, EnterRecheck, EnterWelcome,
                AddDuplicateClose, PlayCheck, PlayApply, TickStart, TickFinish,
                TickExit, TickStep
  <2>2. QED
    BY <1>1, <2>1
       DEF Quiet, SamePlace, Flagging, Storing, Entering, Counting, PluginsEnabled
<1>4. CASE AddVerify
  <2>1. tick = "verify" /\ tick' \in {"count", "unstore"} /\ current' = current
    BY <1>4 DEF AddVerify, TickStep
  <2>2. QED
    BY <1>1, <2>1
       DEF Quiet, SamePlace, Flagging, Storing, Entering, Counting, PluginsEnabled
<1>5. QED
  BY <1>2, <1>3, <1>4 DEF Enter

LEMMA StopQuiet == ASSUME StopBegin \/ Stop PROVE Quiet
<1> USE DEF mailboxVars, rosterVars, tickVars, pluginVars
<1>1. /\ UNCHANGED <<registered, players, onlineCount, joins, quits, removal,
                     tick, current>>
      /\ PluginsEnabled' => PluginsEnabled
  BY DEF StopBegin, Stop, StopListener, StopBroadcast, StopRangeDone, StopVisit,
         StopPostBarrier, StopBarrierDone, StopBarrierTimeout, StopCloseStopCh,
         StopJoin, StopDisablePlugins, StopStep, PluginsEnabled
<1>2. QED
  BY <1>1 DEF Quiet, SamePlace, Flagging, Storing, Entering, Removing, Counting

(* Every step is quiet, a step of AddPlayer or a step of a removal.        *)
LEMMA RosterSteps ==
    ASSUME CleanupInv, [Next]_vars
    PROVE  Quiet \/ AddStep \/ \E s \in Sessions : RemovePlayerOwned(s)
<1>1. CASE UNCHANGED vars
  BY <1>1, QuietFrame DEF vars, rosterVars, tickVars, stopVars, pluginVars
<1>2. CASE Terminated
  BY <1>1, <1>2 DEF Terminated
<1>3. QED
  BY <1>1, <1>2, NetworkQuiet, CloseQuiet, DrainQuiet, TickQuiet, StopQuiet
     DEF Next, Tick, AddPlayer, AddStep

-----------------------------------------------------------------------------
(* A session whose standing and place a step leaves alone keeps its stage. *)
SameStanding(t) ==
    /\ registered'[t] <=> registered[t]
    /\ Published(t)' <=> Published(t)
    /\ joins'[t] = joins[t]
    /\ quits'[t] = quits[t]

LEMMA StageKept ==
    ASSUME RosterInv, [Next]_vars, NEW t \in Sessions, SameStanding(t), SamePlace(t),
           PluginsEnabled' => PluginsEnabled
    PROVE  StageOf(t)'
<1>1. StageOf(t)
  BY DEF RosterInv
<1>2. /\ Out(t)' <=> Out(t)
      /\ Flagged(t)' <=> Flagged(t)
      /\ Stored(t)' <=> Stored(t)
      /\ Present(t)' <=> Present(t)
      /\ Leaving(t)' <=> Leaving(t)
      /\ Deleted(t)' <=> Deleted(t)
      /\ Gone(t) => Gone(t)'
  BY DEF SameStanding, Out, Flagged, Stored, Present, Leaving, Deleted, Gone
<1>3. Admitted(t) => Admitted(t)'
  BY AdmittedStays DEF RosterInv, CleanupInv
<1>4. state[t] = "PlayPending" => ~Admitted(t)
  BY DEF Admitted
<1>5. /\ Flagging(t)' => Flagging(t)
      /\ Storing(t)' => Storing(t)
      /\ Entering(t)' => Entering(t) \/ (state[t] = "PlayPending" /\ Admitted(t)')
  BY DEF SamePlace
<1>6. /\ removal'[t] = "delete" => removal[t] = "delete"
      /\ removal'[t] \in {"count", "announce"} => removal[t] \in {"count", "announce"}
      /\ Removing(t) => Removing(t)'
  BY DEF SamePlace, Removing
<1>7. Entering(t)' => Out(t)' /\ Admitted(t)'
  BY <1>1, <1>2, <1>3, <1>4, <1>5 DEF StageOf
<1>8. ~Admitted(t)' => Out(t)'
  BY <1>1, <1>2, <1>3 DEF StageOf
<1>9. (Flagging(t)' => Flagged(t)') /\ (Storing(t)' => Stored(t)')
  BY <1>1, <1>2, <1>5 DEF StageOf
<1>10. /\ removal'[t] = "delete" => Leaving(t)'
       /\ removal'[t] \in {"count", "announce"} => Deleted(t)'
  BY <1>1, <1>2, <1>6 DEF StageOf
<1>11. \/ Flagging(t)' \/ Storing(t)' \/ Removing(t)'
       \/ Out(t)' \/ Present(t)' \/ Gone(t)'
  BY <1>1, <1>2, <1>6 DEF StageOf, SamePlace
<1>12. QED
  BY <1>7, <1>8, <1>9, <1>10, <1>11 DEF StageOf

(* A session is published under at most its own name.                      *)
LEMMA PublishedUnder ==
    ASSUME NamedByKey, NEW t \in Sessions, NEW k \in Keys, players[k] = t
    PROVE  name[t] = k /\ Published(t)
  BY LifecycleAssumption DEF NamedByKey, Published

(* A step that leaves the map alone leaves everyone published as before,   *)
(* although a session that is not admitted yet may change its name.        *)
LEMMA SameMapSamePublished ==
    ASSUME RosterInv, [Next]_vars, UNCHANGED players, NEW t \in Sessions
    PROVE  Published(t)' <=> Published(t)
<1>1. TypeOK /\ TypeOK' /\ NamedByKey /\ StageOf(t)
  BY NextType DEF RosterInv, CleanupInv
<1>2. CASE Admitted(t)
  BY <1>1, <1>2, AdmittedStays DEF Published
<1>3. CASE ~Admitted(t)
  <2>1. ~Published(t)
    BY <1>1, <1>3 DEF StageOf, Out
  <2>2. name'[t] \in Keys
    BY <1>1 DEF TypeOK, SessionTypeOK
  <2>3. players[name'[t]] # t
    BY <1>1, <2>1, <2>2, PublishedUnder
  <2>4. QED
    BY <2>1, <2>3 DEF Published
<1>4. QED
  BY <1>2, <1>3

LEMMA SameMapSameNames ==
    ASSUME RosterInv, [Next]_vars,
           \A k \in Keys : players'[k] \in {players[k], NoSession}
    PROVE  NamedByKey'
<1> SUFFICES ASSUME NEW k \in Keys, players'[k] # NoSession
             PROVE  name'[players'[k]] = k
  BY DEF NamedByKey
<1>1. players'[k] = players[k] /\ players[k] \in Sessions
  BY DEF RosterInv, CleanupInv, TypeOK, RosterTypeOK
<1>2. Published(players[k]) /\ name[players[k]] = k
  BY <1>1, PublishedUnder DEF RosterInv
<1>3. Admitted(players[k])
  BY <1>1, <1>2 DEF RosterInv, StageOf, Out
<1>4. QED
  BY <1>1, <1>2, <1>3, AdmittedStays DEF RosterInv, CleanupInv

-----------------------------------------------------------------------------
(* AddPlayer moves the session in hand and nobody else.                    *)
LEMMA AddOthers ==
    ASSUME RosterInv, [Next]_vars, AddStep, NEW t \in Sessions, t # current
    PROVE  SameStanding(t) /\ SamePlace(t)
<1> USE DEF sessionVars, rosterVars, stopVars, pluginVars
<1>1. TypeOK /\ NamedByKey /\ CurrentIsSession
  BY DEF RosterInv, CleanupInv
<1>2. /\ current \in Sessions
      /\ current' \in {current, NoSession}
      /\ UNCHANGED <<name, removal, quits>>
  BY <1>1 DEF AddStep, AddRegister, AddStore, AddDuplicate, AddUnstore, AddUnregister,
              AddCount, AddAnnounce, TickStep, CurrentIsSession
<1>3. SamePlace(t)
  BY <1>2, LifecycleAssumption DEF SamePlace, Flagging, Storing, Entering
<1>4. registered'[t] = registered[t]
  BY <1>1, <1>2
     DEF AddStep, AddRegister, AddStore, AddDuplicate, AddUnstore, AddUnregister,
         AddCount, AddAnnounce, TypeOK, RosterTypeOK
<1>5. joins'[t] = joins[t]
  BY <1>1, <1>2
     DEF AddStep, AddRegister, AddStore, AddDuplicate, AddUnstore, AddUnregister,
         AddCount, AddAnnounce, TypeOK, PluginTypeOK
<1>6. Published(t)' <=> Published(t)
  <2>1. CASE UNCHANGED players
    BY <2>1, SameMapSamePublished
  <2>2. CASE players[name[current]] = NoSession
             /\ players' = [players EXCEPT ![name[current]] = current]
    BY <1>1, <1>2, <2>2, LifecycleAssumption
       DEF Published, TypeOK, RosterTypeOK, SessionTypeOK
  <2>3. CASE players[name[current]] = current
             /\ players' = [players EXCEPT ![name[current]] = NoSession]
    BY <1>1, <1>2, <2>3, LifecycleAssumption
       DEF Published, TypeOK, RosterTypeOK, SessionTypeOK
  <2>4. QED
    BY <2>1, <2>2, <2>3
       DEF AddStep, AddRegister, AddStore, AddDuplicate, AddUnstore, AddUnregister,
           AddCount, AddAnnounce
<1>7. QED
  BY <1>2, <1>3, <1>4, <1>5, <1>6 DEF SameStanding

LEMMA AddStage ==
    ASSUME RosterInv, [Next]_vars, AddStep, NEW t \in Sessions
    PROVE  StageOf(t)'
<1> USE DEF sessionVars, rosterVars, stopVars, pluginVars, TickStep
<1>1. TypeOK /\ TypeOK' /\ StageOf(t)
  BY NextType DEF RosterInv, CleanupInv
<1>2. /\ tick \in {"register", "store", "duplicate", "unstore", "unregister", "count",
                   "announce"}
      /\ UNCHANGED <<state, name, removal, quits, stop>>
  BY DEF AddStep, AddRegister, AddStore, AddDuplicate, AddUnstore, AddUnregister,
         AddCount, AddAnnounce
<1>3. CASE t # current
  BY <1>2, <1>3, AddOthers, StageKept DEF PluginsEnabled
<1>4. CASE t = current
  <2>1. removal'[t] \notin {"delete", "count", "announce"}
    BY <1>2, NobodyRemoves DEF RosterInv
  <2>2. Admitted(t)'
    BY <1>1, <1>2, <1>4
       DEF Admitted, StageOf, Entering, Flagging, Flagged, Storing, Stored, Out
  <2> USE DEF StageOf, Entering, Flagging, Storing, Removing
  <2>3. CASE AddRegister
    <3>1. Out(t) /\ tick' = "store" /\ current' = t
      BY <1>1, <1>4, <2>3 DEF AddRegister, Out
    <3>2. Flagged(t)'
      BY <1>1, <1>4, <2>3, <3>1
         DEF AddRegister, Out, Flagged, Published, TypeOK, RosterTypeOK
    <3>3. QED
      BY <2>1, <2>2, <3>1, <3>2
  <2>4. CASE AddStore
    <3>1. Flagged(t) /\ current' = t
      BY <1>1, <1>4, <2>4 DEF AddStore
    <3>2. CASE tick' = "verify"
      <4>1. Stored(t)'
        BY <1>1, <1>4, <2>4, <3>1, <3>2
           DEF AddStore, Flagged, Stored, Published, TypeOK, RosterTypeOK, SessionTypeOK
      <4>2. QED
        BY <2>1, <2>2, <3>1, <3>2, <4>1
    <3>3. CASE tick' = "duplicate"
      <4>1. Flagged(t)'
        BY <1>1, <1>4, <2>4, <3>1, <3>3 DEF AddStore, Flagged, Published
      <4>2. QED
        BY <2>1, <2>2, <3>1, <3>3, <4>1
    <3>4. QED
      BY <2>4, <3>2, <3>3 DEF AddStore
  <2>5. CASE AddDuplicate \/ AddUnregister
    <3>1. Flagged(t) /\ tick' \in {"duplicateClose", "drain"}
      BY <1>1, <1>4, <2>5 DEF AddDuplicate, AddUnregister
    <3>2. Out(t)'
      BY <1>1, <1>4, <2>5, <3>1
         DEF AddDuplicate, AddUnregister, Flagged, Out, Published, TypeOK, RosterTypeOK
    <3>3. QED
      BY <2>1, <2>2, <3>1, <3>2
  <2>6. CASE AddUnstore
    <3>1. Stored(t) /\ tick' = "unregister" /\ current' = t
      BY <1>1, <1>4, <2>6 DEF AddUnstore
    <3>2. Flagged(t)'
      BY <1>1, <1>2, <1>4, <2>6, <3>1, LifecycleAssumption
         DEF AddUnstore, Flagged, Stored, Published, TypeOK, RosterTypeOK, SessionTypeOK
    <3>3. QED
      BY <2>1, <2>2, <3>1, <3>2
  <2>7. CASE AddCount
    <3>1. Stored(t) /\ tick' = "announce"
      BY <1>1, <1>4, <2>7 DEF AddCount
    <3>2. Stored(t)'
      BY <1>4, <2>7, <3>1 DEF AddCount, Stored, Published
    <3>3. QED
      BY <1>4, <2>1, <2>2, <2>7, <3>1, <3>2 DEF AddCount
  <2>8. CASE AddAnnounce
    <3>1. Stored(t) /\ tick' = "welcome"
      BY <1>1, <1>4, <2>8 DEF AddAnnounce
    <3>2. Present(t)'
      BY <1>1, <1>4, <2>8, <3>1
         DEF AddAnnounce, Stored, Present, Published, TypeOK, PluginTypeOK
    <3>3. QED
      BY <2>1, <2>2, <3>1, <3>2
  <2>9. QED
    BY <2>3, <2>4, <2>5, <2>6, <2>7, <2>8 DEF AddStep
<1>5. QED
  BY <1>3, <1>4

(* A removal moves its session; while it goes on, AddPlayer does not run.  *)
LEMMA RemovalAlone ==
    ASSUME RosterInv, NEW s \in Sessions, RemovePlayerOwned(s)
    PROVE  /\ tick \in {"remove", "exited"} /\ tick' \in {"remove", "exited", "drain"}
           /\ UNCHANGED <<state, name, joins, stop>>
           /\ \A t \in Sessions \ {s} : removal'[t] = removal[t]
<1>1. ByTick(s) \/ tick = "exited"
  BY DEF RosterInv, CleanupInv, RemovalOwner, LoopExited, RemovePlayerOwned, RemoveSwap,
         RemoveDelete, RemoveCount, RemoveAnnounce
<1>2. /\ tick' \in {tick, "drain"}
      /\ UNCHANGED <<state, name, joins, stop>>
      /\ \A t \in Sessions \ {s} : removal'[t] = removal[t]
  BY DEF RemovePlayerOwned, RemoveSwap, RemoveDelete, RemoveCount, RemoveAnnounce,
         RemovalStep, sessionVars, stopVars, pluginVars, RosterInv, CleanupInv, TypeOK,
         RosterTypeOK
<1>3. QED
  BY <1>1, <1>2 DEF ByTick

LEMMA RemovalStage ==
    ASSUME RosterInv, [Next]_vars, NEW s \in Sessions, RemovePlayerOwned(s),
           NEW t \in Sessions
    PROVE  StageOf(t)'
<1> USE DEF Entering, Flagging, Storing, Removing, pluginVars
<1>1. TypeOK /\ TypeOK' /\ NamedByKey /\ StageOf(s)
  BY NextType DEF RosterInv, CleanupInv
<1>2. /\ tick \in {"remove", "exited"} /\ tick' \in {"remove", "exited", "drain"}
      /\ UNCHANGED <<state, name, joins, stop>>
      /\ \A u \in Sessions \ {s} : removal'[u] = removal[u]
  BY RemovalAlone
<1>3. CASE t # s
  <2>1. SamePlace(t)
    BY <1>2, <1>3 DEF SamePlace
  <2>2. registered'[t] = registered[t] /\ quits'[t] = quits[t]
    BY <1>1, <1>3
       DEF RemovePlayerOwned, RemoveSwap, RemoveDelete, RemoveCount, RemoveAnnounce,
           TypeOK, RosterTypeOK, PluginTypeOK
  <2>3. Published(t)' <=> Published(t)
    <3>1. CASE UNCHANGED players
      BY <3>1, SameMapSamePublished
    <3>2. CASE /\ players[name[s]] = s
               /\ players' = [players EXCEPT ![name[s]] = NoSession]
      BY <1>1, <1>2, <1>3, <3>2, LifecycleAssumption
         DEF Published, TypeOK, RosterTypeOK, SessionTypeOK
    <3>3. QED
      BY <3>1, <3>2 DEF RemovePlayerOwned, RemoveSwap, RemoveDelete, RemoveCount,
                        RemoveAnnounce
  <2>4. QED
    BY <1>2, <2>1, <2>2, <2>3, StageKept DEF SameStanding, PluginsEnabled
<1>4. CASE t = s
  <2>1. Admitted(s)' <=> Admitted(s)
    BY <1>2 DEF Admitted
  <2>2. CASE RemoveSwap(s)
    <3>1. /\ ~registered'[s] /\ removal'[s] \in {"delete", "over"}
          /\ removal'[s] = "delete" <=> registered[s]
          /\ quits'[s] = quits[s]
          /\ Published(s)' <=> Published(s)
      BY <1>1, <1>2, <2>2
         DEF RemoveSwap, RemovalStep, Published, TypeOK, RosterTypeOK
    <3>2. CASE registered[s]
      <4>1. Present(s)
        BY <1>1, <1>2, <2>2, <3>2 DEF StageOf, RemoveSwap, Out, Gone
      <4>2. Leaving(s)'
        BY <1>2, <3>1, <4>1 DEF Present, Leaving
      <4>3. QED
        BY <1>1, <1>2, <1>4, <2>1, <3>1, <3>2, <4>1, <4>2 DEF StageOf, Present, Out
    <3>3. CASE ~registered[s]
      <4>1. Out(s) \/ Gone(s)
        BY <1>1, <1>2, <2>2, <3>3 DEF StageOf, RemoveSwap, Present
      <4>2. (Out(s) => Out(s)') /\ (Gone(s) => Gone(s)')
        BY <1>2, <3>1 DEF Out, Gone, PluginsEnabled
      <4>3. QED
        BY <1>1, <1>2, <1>4, <2>1, <3>1, <3>3, <4>1, <4>2 DEF StageOf
    <3>4. QED
      BY <3>2, <3>3
  <2>3. CASE RemoveDelete(s)
    <3>1. Leaving(s)
      BY <1>1, <2>3 DEF StageOf, RemoveDelete
    <3>2. removal'[s] = "count" /\ Deleted(s)'
      BY <1>1, <1>2, <2>3, <3>1, LifecycleAssumption
         DEF RemoveDelete, RemovalStep, Leaving, Deleted, Published, TypeOK,
             RosterTypeOK, SessionTypeOK
    <3>3. QED
      BY <1>1, <1>2, <1>4, <2>1, <3>1, <3>2 DEF StageOf, Leaving, Out
  <2>4. CASE RemoveCount(s)
    <3>1. Deleted(s) /\ removal'[s] = "announce"
      BY <1>1, <2>4 DEF StageOf, RemoveCount, RemovalStep, TypeOK, RosterTypeOK
    <3>2. Deleted(s)'
      BY <1>2, <2>4, <3>1 DEF RemoveCount, Deleted, Published
    <3>3. QED
      BY <1>1, <1>2, <1>4, <2>1, <3>1, <3>2 DEF StageOf, Deleted, Out
  <2>5. CASE RemoveAnnounce(s)
    <3>1. Deleted(s) /\ removal'[s] = "over"
      BY <1>1, <2>5 DEF StageOf, RemoveAnnounce, RemovalStep, TypeOK, RosterTypeOK
    <3>2. Gone(s)'
      BY <1>1, <1>2, <2>5, <3>1
         DEF RemoveAnnounce, Deleted, Gone, Published, PluginsEnabled, TypeOK,
             PluginTypeOK
    <3>3. QED
      BY <1>1, <1>2, <1>4, <2>1, <3>1, <3>2 DEF StageOf, Deleted, Out
  <2>6. QED
    BY <2>2, <2>3, <2>4, <2>5 DEF RemovePlayerOwned
<1>5. QED
  BY <1>3, <1>4

LEMMA NextNamed ==
    ASSUME RosterInv, [Next]_vars
    PROVE  NamedByKey'
<1>1. TypeOK /\ NamedByKey /\ CurrentIsSession
  BY DEF RosterInv, CleanupInv
<1>2. CASE AddStep
  <2>1. CASE players[name[current]] = NoSession /\ tick = "store"
             /\ players' = [players EXCEPT ![name[current]] = current]
    <3>1. current \in Sessions /\ Admitted(current)
      BY <1>1, <2>1 DEF CurrentIsSession, RosterInv, StageOf, Flagging, Flagged, Out
    <3>2. ASSUME NEW k \in Keys, players'[k] # NoSession
          PROVE  name'[players'[k]] = k
      <4>1. CASE k = name[current]
        BY <1>1, <2>1, <3>1, <4>1, AdmittedStays DEF TypeOK, RosterTypeOK
      <4>2. CASE k # name[current]
        <5>1. players'[k] = players[k] /\ players[k] \in Sessions
          BY <1>1, <2>1, <3>2, <4>2 DEF TypeOK, RosterTypeOK
        <5>2. Published(players[k]) /\ name[players[k]] = k
          BY <1>1, <5>1, PublishedUnder
        <5>3. Admitted(players[k])
          BY <5>1, <5>2 DEF RosterInv, StageOf, Out
        <5>4. QED
          BY <1>1, <5>1, <5>2, <5>3, AdmittedStays
      <4>3. QED
        BY <4>1, <4>2
    <3>3. QED
      BY <3>2 DEF NamedByKey
  <2>2. CASE \A k \in Keys : players'[k] \in {players[k], NoSession}
    BY <2>2, SameMapSameNames
  <2>3. CASE AddUnstore
    BY <1>1, <2>3, <2>2 DEF AddUnstore, TypeOK, RosterTypeOK
  <2>4. QED
    BY <1>2, <2>1, <2>2, <2>3
       DEF AddStep, AddRegister, AddStore, AddDuplicate, AddUnregister, AddCount,
           AddAnnounce, TickStep, rosterVars
<1>3. CASE Quiet \/ \E s \in Sessions : RemovePlayerOwned(s)
  <2>1. \A k \in Keys : players'[k] \in {players[k], NoSession}
    BY <1>1, <1>3
       DEF Quiet, RemovePlayerOwned, RemoveSwap, RemoveDelete, RemoveCount,
           RemoveAnnounce, TypeOK, RosterTypeOK
  <2>2. QED
    BY <2>1, SameMapSameNames
<1>4. QED
  BY <1>2, <1>3, RosterSteps DEF RosterInv

LEMMA NextStage ==
    ASSUME RosterInv, [Next]_vars, NEW t \in Sessions
    PROVE  StageOf(t)'
<1>1. CASE Quiet
  <2>1. Published(t)' <=> Published(t)
    BY <1>1, SameMapSamePublished DEF Quiet
  <2>2. QED
    BY <1>1, <2>1, StageKept DEF Quiet, SameStanding
<1>2. QED
  BY <1>1, RosterSteps, AddStage, RemovalStage DEF RosterInv

(* Where a step of the tick owner comes from, and what it keeps in hand.   *)
LEMMA NextCurrent ==
    ASSUME RosterInv, [Next]_vars
    PROVE  CurrentIsSession' /\ ActiveIsRegistered'
<1> USE DEF tickVars, rosterVars
<1>1. TypeOK /\ CurrentIsSession /\ ActiveIsRegistered
  BY DEF RosterInv, CleanupInv
<1>2. CASE UNCHANGED <<tick, current, registered>>
  BY <1>1, <1>2 DEF CurrentIsSession, ActiveIsRegistered
<1>3. ASSUME NEW s \in Sessions,
             Accept(s) \/ Read(s) \/ ReaderPost(s) \/ NetworkClose(s) \/ Close(s)
                       \/ TickOverflow(s) \/ StopOverflow(s)
      PROVE  UNCHANGED <<tick, current, registered>>
  BY <1>3 DEF Accept, Read, HandleHandshake, HandleLoginStart, HandleLoginAcknowledged,
              HandleKnownPacks, HandleFinishConfig, HandlePlayChat, ReaderPost,
              PostEnterPlay, PostChat, ReaderClose, NetworkClose, Close, CloseStore,
              CloseLoad, CloseRunning, ClosePost, TickOverflow, StopOverflow, StopStep
<1>4. ASSUME NEW s \in Sessions, RemovePlayerOwned(s)
      PROVE  CurrentIsSession' /\ ActiveIsRegistered'
  <2>1. tick' \in {"remove", "exited", "drain"} /\ tick \in {"remove", "exited"}
    BY <1>4, RemovalAlone
  <2>2. UNCHANGED <<tick, current>> \/ tick' = "drain"
    BY <1>4 DEF RemovePlayerOwned, RemoveSwap, RemoveDelete, RemoveCount,
                RemoveAnnounce, RemovalStep
  <2>3. QED
    BY <1>1, <2>1, <2>2 DEF CurrentIsSession, ActiveIsRegistered
<1>5. ASSUME Drain PROVE CurrentIsSession' /\ ActiveIsRegistered'
  <2>1. ASSUME NEW e \in RuntimeEvent, Apply(e)
        PROVE  CurrentIsSession' /\ ActiveIsRegistered'
    BY <2>1 DEF Apply, RuntimeEvent, CurrentIsSession, ActiveIsRegistered
  <2>2. CASE DrainPass \/ DrainEmpty \/ DrainLimit
    BY <2>2 DEF DrainPass, Draining, DrainEmpty, DrainLimit, TickStep, CurrentIsSession,
                ActiveIsRegistered
  <2>3. CASE DrainCritical
    BY <1>1, <2>1, <2>3, PopCriticalType DEF DrainCritical, TypeOK
  <2>4. CASE DrainOrdinary
    BY <1>1, <2>1, <2>4, PopOrdinaryType DEF DrainOrdinary, TypeOK
  <2>5. QED
    BY <1>5, <2>2, <2>3, <2>4 DEF Drain
<1>6. ASSUME Enter \/ AddPlayer \/ PlayCheck \/ PlayApply \/ TickStart \/ TickFinish
             \/ TickExit
      PROVE  CurrentIsSession' /\ ActiveIsRegistered'
  <2>1. \/ tick' \in {"drain", "between", "exited"}
        \/ /\ tick \notin {"between", "drain", "finish", "exited"}
           /\ current' = current
    BY <1>6 DEF Enter, EnterCheck, EnterPublish, EnterInitial, EnterRecheck,
                EnterWelcome, AddPlayer, AddRegister, AddStore, AddDuplicate,
                AddDuplicateClose, AddVerify, AddUnstore, AddUnregister, AddCount,
                AddAnnounce, PlayCheck, PlayApply, TickStart, TickFinish, TickExit,
                TickStep
  <2>2. tick' = "apply" => registered'[current']
    BY <1>6 DEF Enter, EnterCheck, EnterPublish, EnterInitial, EnterRecheck,
                EnterWelcome, AddPlayer, AddRegister, AddStore, AddDuplicate,
                AddDuplicateClose, AddVerify, AddUnstore, AddUnregister, AddCount,
                AddAnnounce, PlayCheck, PlayApply, TickStart, TickFinish, TickExit,
                TickStep
  <2>3. QED
    BY <1>1, <2>1, <2>2 DEF CurrentIsSession, ActiveIsRegistered
<1>7. ASSUME StopBegin \/ Stop PROVE UNCHANGED <<tick, current, registered>>
  BY <1>7 DEF StopBegin, Stop, StopListener, StopBroadcast, StopRangeDone, StopVisit,
              StopPostBarrier, StopBarrierDone, StopBarrierTimeout, StopCloseStopCh,
              StopJoin, StopDisablePlugins, StopStep
<1>8. CASE UNCHANGED vars
  BY <1>2, <1>8 DEF vars
<1>9. QED
  BY <1>2, <1>3, <1>4, <1>5, <1>6, <1>7, <1>8 DEF Next, Tick, Terminated

LEMMA NextRoster == RosterInv /\ [Next]_vars => RosterInv'
<1> SUFFICES ASSUME RosterInv, [Next]_vars PROVE RosterInv'
  OBVIOUS
<1>1. CleanupInv'
  BY NextCleanup DEF RosterInv
<1>2. \A s \in Sessions : StageOf(s)'
  BY NextStage
<1>3. QED
  BY <1>1, <1>2, NextNamed, NextCurrent DEF RosterInv

\* server.go:211-306: the program counters of the tick owner and of a removal
\* determine, for every session, its flag, its place in the map and its events.
THEOREM RosterConsistent == Spec => []RosterInv
<1>1. QED
  BY InitRoster, NextRoster, PTL DEF Spec

-----------------------------------------------------------------------------
\* server.go:214-239 and 286-296: outside AddPlayer and removePlayerOwned the
\* registered flag and the player map say the same of every session, and a
\* name maps to a session of that name.
THEOREM FlagAndMapAgree == Spec => []RegisteredIsPublished
<1>1. RosterInv => RegisteredIsPublished
  <2> SUFFICES ASSUME RosterInv PROVE RegisteredIsPublished
    OBVIOUS
  <2>1. ASSUME NEW s \in Sessions, registered[s]
        PROVE  \/ players[name[s]] = s
               \/ current = s /\ tick \in {"store", "duplicate", "unregister"}
    <3>1. StageOf(s)
      BY DEF RosterInv
    <3>2. QED
      BY <2>1, <3>1
         DEF StageOf, Out, Stored, Present, Leaving, Deleted, Gone, Published,
             Flagging, Storing, Removing
  <2>2. ASSUME NEW k \in Keys, players[k] # NoSession
        PROVE  /\ name[players[k]] = k
               /\ registered[players[k]] \/ removal[players[k]] = "delete"
    <3>1. players[k] \in Sessions
      BY <2>2 DEF RosterInv, CleanupInv, TypeOK, RosterTypeOK
    <3>2. StageOf(players[k]) /\ Published(players[k]) /\ name[players[k]] = k
      BY <3>1, PublishedUnder DEF RosterInv
    <3>3. QED
      BY <3>2 DEF StageOf, Out, Flagged, Stored, Present, Leaving, Deleted, Gone,
                  Flagging, Storing, Removing
  <2>3. QED
    BY <2>1, <2>2 DEF RegisteredIsPublished
<1>2. QED
  BY <1>1, RosterConsistent, PTL

\* player_state.go:189-218, runtimePlayerActive: a Play event reaches the world and the
\* plugins only while its session is between its PlayerJoin and its PlayerQuit.
THEOREM GameplayOnlyOfPlayers == Spec => []GameplayOnlyWhilePresent
<1>1. RosterInv => GameplayOnlyWhilePresent
  <2> SUFFICES ASSUME RosterInv, tick = "apply" PROVE Visible(current)
    BY DEF GameplayOnlyWhilePresent
  <2>1. current \in Sessions /\ registered[current]
    BY DEF RosterInv, CurrentIsSession, ActiveIsRegistered
  <2>2. StageOf(current)
    BY <2>1 DEF RosterInv
  <2>3. Present(current)
    BY <2>1, <2>2 DEF StageOf, Out, Leaving, Deleted, Gone, Flagging, Storing, Removing
  <2>4. QED
    BY <2>3 DEF Present, Visible
<1>2. QED
  BY <1>1, RosterConsistent, PTL

-----------------------------------------------------------------------------
(***************************************************************************)
(* The online count.                                                       *)
(***************************************************************************)
Taken   == {k \in Keys : players[k] # NoSession}
Leavers == {s \in Sessions : removal[s] = "count"}

CountInv ==
    /\ IsFiniteSet(Taken)
    /\ IsFiniteSet(Leavers)
    /\ onlineCount + (IF Counting THEN 1 ELSE 0) = Cardinality(Taken) + Cardinality(Leavers)

LEMMA CountFrame ==
    ASSUME CountInv, Taken' = Taken, Leavers' = Leavers,
           \/ onlineCount' = onlineCount /\ (Counting' <=> Counting)
           \/ TypeOK /\ onlineCount' = onlineCount + 1 /\ Counting /\ ~Counting'
    PROVE  CountInv'
  BY DEF CountInv, TypeOK, RosterTypeOK

LEMMA InitCount == Init => CountInv
<1> SUFFICES ASSUME Init PROVE CountInv
  OBVIOUS
<1>1. Taken = {} /\ Leavers = {} /\ onlineCount = 0 /\ ~Counting
  BY DEF Init, Taken, Leavers, Counting
<1>2. QED
  BY <1>1, FS_EmptySet DEF CountInv

LEMMA AddCounts ==
    ASSUME RosterInv, CountInv, AddStep
    PROVE  CountInv'
<1> USE DEF sessionVars, rosterVars, TickStep
<1>1. TypeOK /\ CurrentIsSession /\ Leavers' = Leavers
  BY DEF RosterInv, CleanupInv, AddStep, AddRegister, AddStore, AddDuplicate,
         AddUnstore, AddUnregister, AddCount, AddAnnounce, Leavers
<1>2. CASE AddRegister \/ AddDuplicate \/ AddUnregister \/ AddCount \/ AddAnnounce
           \/ (AddStore /\ tick' = "duplicate")
  <2>1. Taken' = Taken
    BY <1>2 DEF AddRegister, AddDuplicate, AddUnregister, AddCount, AddAnnounce,
                AddStore, Taken
  <2>2. \/ onlineCount' = onlineCount /\ (Counting' <=> Counting)
        \/ onlineCount' = onlineCount + 1 /\ Counting /\ ~Counting'
    BY <1>2 DEF AddRegister, AddDuplicate, AddUnregister, AddCount, AddAnnounce,
                AddStore, Counting
  <2>3. QED
    BY <1>1, <2>1, <2>2, CountFrame
<1>3. CASE AddStore /\ tick' = "verify"
  <2>1. /\ current \in Sessions /\ name[current] \in Keys
        /\ players[name[current]] = NoSession
        /\ players' = [players EXCEPT ![name[current]] = current]
        /\ onlineCount' = onlineCount /\ ~Counting /\ Counting'
    BY <1>1, <1>3
       DEF AddStore, Counting, CurrentIsSession, TypeOK, SessionTypeOK
  <2>2. name[current] \notin Taken /\ Taken' = Taken \cup {name[current]}
    BY <1>1, <2>1, LifecycleAssumption DEF Taken, TypeOK, RosterTypeOK
  <2>3. IsFiniteSet(Taken') /\ Cardinality(Taken') = Cardinality(Taken) + 1
    BY <2>2, FS_AddElement DEF CountInv
  <2>4. QED
    BY <1>1, <2>1, <2>3, FS_CardinalityType DEF CountInv, TypeOK, RosterTypeOK
<1>4. CASE AddUnstore
  <2>1. current \in Sessions /\ tick = "unstore" /\ name[current] \in Keys
    BY <1>1, <1>4 DEF AddUnstore, CurrentIsSession, TypeOK, SessionTypeOK
  <2>2. players[name[current]] = current
    BY <2>1 DEF RosterInv, StageOf, Storing, Stored, Published
  <2>3. /\ players' = [players EXCEPT ![name[current]] = NoSession]
        /\ onlineCount' = onlineCount /\ Counting /\ ~Counting'
    BY <1>4, <2>2 DEF AddUnstore, Counting
  <2>4. name[current] \in Taken /\ Taken' = Taken \ {name[current]}
    BY <1>1, <2>1, <2>2, <2>3, LifecycleAssumption DEF Taken, TypeOK, RosterTypeOK
  <2>5. IsFiniteSet(Taken') /\ Cardinality(Taken') = Cardinality(Taken) - 1
    BY <2>4, FS_RemoveElement DEF CountInv
  <2>6. QED
    BY <1>1, <2>3, <2>5, FS_CardinalityType DEF CountInv, TypeOK, RosterTypeOK
<1>5. QED
  BY <1>2, <1>3, <1>4 DEF AddStep, AddStore

LEMMA RemovalCounts ==
    ASSUME RosterInv, CountInv, NEW s \in Sessions, RemovePlayerOwned(s)
    PROVE  CountInv'
<1>1. TypeOK /\ StageOf(s) /\ name[s] \in Keys
  BY DEF RosterInv, CleanupInv, TypeOK, SessionTypeOK
<1>2. ~Counting /\ ~Counting'
  BY RemovalAlone DEF Counting
<1>3. CASE RemoveSwap(s) \/ RemoveAnnounce(s)
  <2>1. /\ UNCHANGED <<players, onlineCount>>
        /\ removal[s] # "count" /\ removal'[s] # "count"
        /\ \A t \in Sessions \ {s} : removal'[t] = removal[t]
    BY <1>1, <1>3 DEF RemoveSwap, RemoveAnnounce, RemovalStep, TypeOK, RosterTypeOK
  <2>2. Taken' = Taken /\ Leavers' = Leavers
    BY <2>1 DEF Taken, Leavers
  <2>3. QED
    BY <1>2, <2>1, <2>2, CountFrame
<1>4. CASE RemoveDelete(s)
  <2>1. players[name[s]] = s
    BY <1>1, <1>4 DEF RemoveDelete, StageOf, Leaving, Published
  <2>2. /\ players' = [players EXCEPT ![name[s]] = NoSession]
        /\ removal[s] = "delete" /\ removal' = [removal EXCEPT ![s] = "count"]
        /\ onlineCount' = onlineCount
    BY <1>4, <2>1 DEF RemoveDelete, RemovalStep
  <2>3. name[s] \in Taken /\ Taken' = Taken \ {name[s]}
    BY <1>1, <2>1, <2>2, LifecycleAssumption DEF Taken, TypeOK, RosterTypeOK
  <2>4. s \notin Leavers /\ Leavers' = Leavers \cup {s}
    BY <1>1, <2>2 DEF Leavers, TypeOK, RosterTypeOK
  <2>5. IsFiniteSet(Taken') /\ Cardinality(Taken') = Cardinality(Taken) - 1
    BY <2>3, FS_RemoveElement DEF CountInv
  <2>6. IsFiniteSet(Leavers') /\ Cardinality(Leavers') = Cardinality(Leavers) + 1
    BY <2>4, FS_AddElement DEF CountInv
  <2>7. QED
    BY <1>1, <1>2, <2>2, <2>5, <2>6, FS_CardinalityType
       DEF CountInv, TypeOK, RosterTypeOK
<1>5. CASE RemoveCount(s)
  <2>1. /\ players' = players
        /\ removal[s] = "count" /\ removal' = [removal EXCEPT ![s] = "announce"]
        /\ onlineCount' = onlineCount - 1
    BY <1>5 DEF RemoveCount, RemovalStep
  <2>2. Taken' = Taken
    BY <2>1 DEF Taken
  <2>3. s \in Leavers /\ Leavers' = Leavers \ {s}
    BY <1>1, <2>1 DEF Leavers, TypeOK, RosterTypeOK
  <2>4. IsFiniteSet(Leavers') /\ Cardinality(Leavers') = Cardinality(Leavers) - 1
    BY <2>3, FS_RemoveElement DEF CountInv
  <2>5. QED
    BY <1>1, <1>2, <2>1, <2>2, <2>4, FS_CardinalityType
       DEF CountInv, TypeOK, RosterTypeOK
<1>6. QED
  BY <1>3, <1>4, <1>5 DEF RemovePlayerOwned

LEMMA NextCount == RosterInv /\ CountInv /\ [Next]_vars => CountInv'
<1> SUFFICES ASSUME RosterInv, CountInv, [Next]_vars PROVE CountInv'
  OBVIOUS
<1>1. CASE Quiet
  <2>1. Taken' = Taken /\ Leavers' = Leavers
    BY <1>1 DEF Quiet, SamePlace, Removing, Taken, Leavers
  <2>2. QED
    BY <1>1, <2>1, CountFrame DEF Quiet
<1>2. QED
  BY <1>1, RosterSteps, AddCounts, RemovalCounts DEF RosterInv

\* server.go:241 and 297: whatever number of players joins, is rejected and
\* leaves at the same time, onlineCount is the number of players in the map,
\* but for the session whose step is between the two.
THEOREM OnlineCountIsExact == Spec => []OnlineCountMatches
<1>1. CountInv => OnlineCountMatches
  BY DEF CountInv, OnlineCountMatches, Counting, Taken, Leavers
<1>2. QED
  BY <1>1, InitCount, NextCount, RosterConsistent, PTL DEF Spec

-----------------------------------------------------------------------------
(***************************************************************************)
(* The refinement: PlayerJoin is Join, PlayerQuit is Quit, and every other *)
(* step leaves what the plugin knows alone.                                *)
(***************************************************************************)
Players == {<<name[s], s>> : s \in {t \in Sessions : Visible(t)}}
Quitted == {s \in Sessions : quits[s] > 0}

(* A player that a plugin sees keeps its name.                             *)
LEMMA VisibleStays ==
    ASSUME RosterInv, [Next]_vars, NEW t \in Sessions, Visible(t)
    PROVE  name'[t] = name[t]
<1>1. Admitted(t)
  BY DEF RosterInv, StageOf, Out, Visible
<1>2. QED
  BY <1>1, AdmittedStays DEF RosterInv, CleanupInv

LEMMA SameEventsSameView ==
    ASSUME RosterInv, [Next]_vars, UNCHANGED <<joins, quits>>
    PROVE  Players' = Players /\ Quitted' = Quitted
<1>1. \A t \in Sessions : (Visible(t)' <=> Visible(t)) /\ (Visible(t) => name'[t] = name[t])
  BY VisibleStays DEF Visible
<1>2. QED
  BY <1>1 DEF Players, Quitted

LEMMA JoinStep ==
    ASSUME RosterInv, [Next]_vars, NEW s \in Sessions, s = current, AddAnnounce
    PROVE  RosterView!Join(name[s], s)
<1> USE DEF sessionVars, rosterVars, stopVars, TickStep
<1>1. TypeOK /\ tick = "announce"
  BY DEF RosterInv, CleanupInv, AddAnnounce
<1>2. Stored(s)
  BY <1>1 DEF RosterInv, StageOf, Storing
<1>3. /\ name' = name /\ quits' = quits
      /\ joins' = [joins EXCEPT ![s] = @ + 1]
  BY DEF AddAnnounce
<1>4. s \notin Quitted /\ Quitted' = Quitted
  BY <1>2, <1>3 DEF Stored, Quitted
<1>5. Players' = Players \cup {<<name[s], s>>}
  <2>1. ~Visible(s) /\ Visible(s)'
    BY <1>1, <1>2, <1>3 DEF Stored, Visible, TypeOK, PluginTypeOK
  <2>2. \A t \in Sessions \ {s} : Visible(t)' <=> Visible(t)
    BY <1>1, <1>3 DEF Visible, TypeOK, PluginTypeOK
  <2>3. QED
    BY <1>1, <1>3, <2>1, <2>2 DEF Players
<1>6. ASSUME NEW entry \in Players
      PROVE  entry[1] # name[s] /\ entry[2] # s
  <2>1. PICK t \in Sessions : Visible(t) /\ entry = <<name[t], t>>
    BY DEF Players
  <2>2. t # s
    BY <1>2, <2>1 DEF Stored, Visible
  \* While AddPlayer announces a player, every other visible one is published.
  <2>3. Present(t)
    <3>1. PluginsEnabled /\ ~Removing(t)
      BY <1>1, NobodyRemoves
         DEF RosterInv, CleanupInv, LoopExited, LoopRunning, PluginsEnabled, Removing
    <3>2. ~Flagging(t) /\ ~Storing(t) /\ StageOf(t)
      BY <2>2 DEF Flagging, Storing, RosterInv
    <3>3. QED
      BY <2>1, <3>1, <3>2 DEF StageOf, Out, Gone, Visible
  <2>4. name[t] # name[s]
    BY <1>2, <2>2, <2>3 DEF Present, Stored, Published
  <2>5. QED
    BY <2>1, <2>2, <2>4
<1>7. QED
  BY <1>4, <1>5, <1>6 DEF RosterView!Join, Players, Quitted

LEMMA QuitStep ==
    ASSUME RosterInv, [Next]_vars, NEW s \in Sessions, RemoveAnnounce(s), PluginsEnabled
    PROVE  RosterView!Quit(name[s], s)
<1>1. TypeOK
  BY DEF RosterInv, CleanupInv
<1>2. Deleted(s)
  BY DEF RosterInv, StageOf, RemoveAnnounce
<1>3. /\ name' = name /\ joins' = joins
      /\ quits' = [quits EXCEPT ![s] = @ + 1]
  BY DEF RemoveAnnounce, sessionVars
<1>4. Visible(s) /\ ~Visible(s)'
  BY <1>1, <1>2, <1>3 DEF Deleted, Visible, TypeOK, PluginTypeOK
<1>5. \A t \in Sessions \ {s} : (Visible(t)' <=> Visible(t)) /\ quits'[t] = quits[t]
  BY <1>1, <1>3 DEF Visible, TypeOK, PluginTypeOK
<1>6. <<name[s], s>> \in Players /\ Players' = Players \ {<<name[s], s>>}
  BY <1>3, <1>4, <1>5 DEF Players
<1>7. Quitted' = Quitted \cup {s}
  BY <1>1, <1>2, <1>3, <1>5 DEF Quitted, Deleted, TypeOK, PluginTypeOK
<1>8. QED
  BY <1>6, <1>7 DEF RosterView!Quit, Players, Quitted

LEMMA ViewStep ==
    ASSUME RosterInv, [Next]_vars
    PROVE  [RosterView!Next]_(RosterView!vars)
<1>1. CASE UNCHANGED <<joins, quits>>
  BY <1>1, SameEventsSameView DEF RosterView!vars, Players, Quitted
<1>2. CASE AddAnnounce
  <2>1. PICK s \in Sessions : s = current
    BY <1>2 DEF RosterInv, CurrentIsSession, AddAnnounce, TickStep
  <2>2. name[s] \in Keys
    BY DEF RosterInv, CleanupInv, TypeOK, SessionTypeOK
  <2>3. RosterView!Join(name[s], s)
    BY <1>2, <2>1, JoinStep
  <2>4. QED
    BY <2>2, <2>3 DEF RosterView!Next
<1>3. ASSUME NEW s \in Sessions, RemoveAnnounce(s)
      PROVE  [RosterView!Next]_(RosterView!vars)
  <2>1. CASE PluginsEnabled
    <3>1. name[s] \in Keys
      BY DEF RosterInv, CleanupInv, TypeOK, SessionTypeOK
    <3>2. QED
      BY <1>3, <2>1, <3>1, QuitStep DEF RosterView!Next
  <2>2. CASE ~PluginsEnabled
    <3>1. UNCHANGED <<joins, quits>>
      BY <1>3, <2>2 DEF RemoveAnnounce, RosterInv, CleanupInv, TypeOK, PluginTypeOK
    <3>2. QED
      BY <1>1, <3>1
  <2>3. QED
    BY <2>1, <2>2
<1>4. QED
  BY <1>1, <1>2, <1>3, RosterSteps
     DEF RosterInv, Quiet, AddStep, AddRegister, AddStore, AddDuplicate, AddUnstore,
         AddUnregister, AddCount, RemovePlayerOwned, RemoveSwap, RemoveDelete,
         RemoveCount, pluginVars

\* What a plugin sees is a Roster (server.go:211-306): a session joins at most
\* once, quits at most once and only after it joined, and two players who are
\* present at the same time never share a name.
THEOREM LifecycleImplementsRoster == Spec => ImplementsRoster
<1>1. Init => RosterView!Init
  <2> SUFFICES ASSUME Init PROVE RosterView!Init
    OBVIOUS
  <2>1. \A s \in Sessions : ~Visible(s) /\ ~(quits[s] > 0)
    BY DEF Init, Visible
  <2>2. QED
    BY <2>1 DEF RosterView!Init
<1>2. RosterInv /\ [Next]_vars => [RosterView!Next]_(RosterView!vars)
  BY ViewStep
<1>3. QED
  BY <1>1, <1>2, RosterConsistent, PTL DEF Spec, ImplementsRoster, RosterView!Spec

=============================================================================
