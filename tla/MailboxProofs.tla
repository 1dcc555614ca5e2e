---------------------------- MODULE MailboxProofs ----------------------------
(***************************************************************************)
(* The lanes of the mailbox are FIFO and lossless, and a waiting critical  *)
(* value is overtaken at most once, for every capacity, every set of       *)
(* producers and every number of posts.                                    *)
(***************************************************************************)
EXTENDS MailboxClients, TLAPS

ClientsTypeOK ==
    /\ posts \in [Producers -> Nat]
    /\ values \in Seq(Value)
    /\ critical \in Seq(Value)
    /\ passed \in BOOLEAN
    /\ accepted \in Seq(Value)
    /\ lifecycle \in Seq(Value)
    /\ gotOrdinary \in Seq(Value)
    /\ gotCritical \in Seq(Value)
    /\ overtaken \in Nat

\* Nothing has been overtaken while nothing critical waits, nor by a TryPop
\* that has found the critical lane empty.
OvertakenFromEmpty ==
    /\ critical = <<>> => overtaken = 0
    /\ passed => overtaken = 0

\* The inductive invariant of the two lanes.
LanesInv == ClientsTypeOK /\ LanesFIFO /\ OvertakenFromEmpty /\ OvertakenOnce

-----------------------------------------------------------------------------
(* What a lane took is kept in order when a value enters at one end ...    *)
LEMMA LaneTakes ==
    ASSUME NEW S, NEW got \in Seq(S), NEW lane \in Seq(S), NEW v \in S
    PROVE  got \o Append(lane, v) = Append(got \o lane, v)
  OBVIOUS

(* ... and when one leaves at the other.                                   *)
LEMMA LaneGives ==
    ASSUME NEW S, NEW got \in Seq(S), NEW lane \in Seq(S), lane # <<>>
    PROVE  /\ Append(got, Head(lane)) \o Tail(lane) = got \o lane
           /\ Head(lane) \in S
           /\ Tail(lane) \in Seq(S)
  OBVIOUS

LEMMA StampType ==
    ASSUME ClientsTypeOK, NEW p \in Producers
    PROVE  Stamp(p) \in Value
  BY DEF ClientsTypeOK, Stamp, Value

LEMMA CountedType ==
    ASSUME ClientsTypeOK, NEW p \in Producers, Counted(p)
    PROVE  posts' \in [Producers -> Nat]
  BY DEF ClientsTypeOK, Counted

LEMMA InitLanes == Init => LanesInv
<1> SUFFICES ASSUME Init PROVE LanesInv
  OBVIOUS
<1>1. ClientsTypeOK
  <2>1. <<>> \in Seq(Value)
    OBVIOUS
  <2>2. posts \in [Producers -> Nat]
    BY DEF Init
  <2>3. QED
    BY <2>1, <2>2 DEF Init, MailboxInit, ClientsTypeOK
<1>2. LanesFIFO
  BY DEF Init, MailboxInit, LanesFIFO
<1>3. OvertakenFromEmpty /\ OvertakenOnce
  BY DEF Init, MailboxInit, OvertakenFromEmpty, OvertakenOnce
<1>4. QED
  BY <1>1, <1>2, <1>3 DEF LanesInv

LEMMA PostLanes ==
    ASSUME LanesInv, NEW p \in Producers, Post(p) \/ Reject(p) \/ PostLifecycle(p)
    PROVE  LanesInv'
<1> USE DEF LanesInv
<1>1. Stamp(p) \in Value
  BY StampType
<1>2. posts' \in [Producers -> Nat]
  BY CountedType DEF Post, Reject, PostLifecycle
<1>3. CASE Post(p)
  <2>1. /\ values' = Append(values, Stamp(p))
        /\ accepted' = Append(accepted, Stamp(p))
        /\ UNCHANGED <<critical, passed, lifecycle, gotOrdinary, gotCritical, overtaken>>
    BY <1>3 DEF Post, TryPost
  <2>2. ClientsTypeOK'
    BY <1>1, <1>2, <2>1 DEF ClientsTypeOK
  <2>3. gotOrdinary \o Append(values, Stamp(p)) = Append(gotOrdinary \o values, Stamp(p))
    BY <1>1, LaneTakes DEF ClientsTypeOK
  <2>4. LanesFIFO'
    BY <2>1, <2>3 DEF LanesFIFO
  <2>5. QED
    BY <2>1, <2>2, <2>4 DEF OvertakenFromEmpty, OvertakenOnce
<1>4. CASE Reject(p)
  BY <1>2, <1>4 DEF Reject, mailboxVars, ClientsTypeOK, LanesFIFO, OvertakenFromEmpty,
                    OvertakenOnce
<1>5. CASE PostLifecycle(p)
  <2>1. /\ critical' = Append(critical, Stamp(p))
        /\ lifecycle' = Append(lifecycle, Stamp(p))
        /\ UNCHANGED <<values, passed, accepted, gotOrdinary, gotCritical, overtaken>>
    BY <1>5 DEF PostLifecycle, PostCritical
  <2>2. ClientsTypeOK'
    BY <1>1, <1>2, <2>1 DEF ClientsTypeOK
  <2>3. gotCritical \o Append(critical, Stamp(p)) = Append(gotCritical \o critical, Stamp(p))
    BY <1>1, LaneTakes DEF ClientsTypeOK
  <2>4. LanesFIFO'
    BY <2>1, <2>3 DEF LanesFIFO
  <2>5. critical' # <<>>
    BY <1>1, <2>1 DEF ClientsTypeOK
  <2>6. QED
    BY <2>1, <2>2, <2>4, <2>5 DEF OvertakenFromEmpty, OvertakenOnce
<1>6. QED
  BY <1>3, <1>4, <1>5

LEMMA ConsumeLanes == ASSUME LanesInv, Consume PROVE LanesInv'
<1> USE DEF LanesInv
<1>1. CASE TakeCritical
  <2>1. /\ critical # <<>>
        /\ critical' = Tail(critical)
        /\ gotCritical' = Append(gotCritical, Head(critical))
        /\ overtaken' = IF critical' = <<>> THEN 0 ELSE overtaken
        /\ ~passed
        /\ UNCHANGED <<values, passed, posts, accepted, lifecycle, gotOrdinary>>
    BY <1>1 DEF TakeCritical, PopCritical
  <2>2. /\ Head(critical) \in Value
        /\ Tail(critical) \in Seq(Value)
        /\ gotCritical' \o critical' = lifecycle'
    BY <2>1, LaneGives DEF ClientsTypeOK, LanesFIFO
  <2>3. ClientsTypeOK'
    BY <2>1, <2>2 DEF ClientsTypeOK
  <2>4. LanesFIFO'
    BY <2>1, <2>2 DEF LanesFIFO
  <2>5. QED
    BY <2>1, <2>3, <2>4 DEF OvertakenFromEmpty, OvertakenOnce
<1>2. CASE SkipCritical \/ FindNothing
  BY <1>2 DEF SkipCritical, PassCritical, FindNothing, PopNothing, ghosts,
              ClientsTypeOK, LanesFIFO, OvertakenFromEmpty, OvertakenOnce
<1>3. CASE TakeOrdinary
  <2>1. /\ values # <<>>
        /\ values' = Tail(values)
        /\ gotOrdinary' = Append(gotOrdinary, Head(values))
        /\ overtaken' = IF critical = <<>> THEN 0 ELSE overtaken + 1
        /\ passed /\ passed' = FALSE
        /\ UNCHANGED <<critical, posts, accepted, lifecycle, gotCritical>>
    BY <1>3 DEF TakeOrdinary, PopOrdinary
  <2>2. /\ Head(values) \in Value
        /\ Tail(values) \in Seq(Value)
        /\ gotOrdinary' \o values' = accepted'
    BY <2>1, LaneGives DEF ClientsTypeOK, LanesFIFO
  <2>3. ClientsTypeOK'
    <3>1. /\ values' \in Seq(Value)
          /\ gotOrdinary' \in Seq(Value)
      BY <2>1, <2>2 DEF ClientsTypeOK
    <3>2. overtaken' \in Nat
      <4>1. overtaken \in Nat
        BY DEF ClientsTypeOK
      <4>2. QED
        BY <2>1, <4>1
    <3>3. passed' \in BOOLEAN
      BY <2>1
    <3>4. /\ critical' \in Seq(Value) /\ gotCritical' \in Seq(Value)
          /\ accepted' \in Seq(Value) /\ lifecycle' \in Seq(Value)
          /\ posts' \in [Producers -> Nat]
      BY <2>1 DEF ClientsTypeOK
    <3>5. QED
      BY <3>1, <3>2, <3>3, <3>4 DEF ClientsTypeOK
  <2>4. LanesFIFO'
    BY <2>1, <2>2 DEF LanesFIFO
  <2>5. OvertakenFromEmpty' /\ OvertakenOnce'
    BY <2>1 DEF OvertakenFromEmpty, OvertakenOnce
  <2>6. QED
    BY <2>3, <2>4, <2>5
<1>4. QED
  BY <1>1, <1>2, <1>3 DEF Consume

LEMMA NextLanes == LanesInv /\ [Next]_vars => LanesInv'
<1> SUFFICES ASSUME LanesInv, [Next]_vars PROVE LanesInv'
  OBVIOUS
<1>1. CASE UNCHANGED vars
  <2>1. /\ UNCHANGED <<values, critical, passed, posts, accepted, lifecycle>>
        /\ UNCHANGED <<gotOrdinary, gotCritical, overtaken>>
    BY <1>1 DEF vars, mailboxVars, ghosts
  <2>2. ClientsTypeOK'
    BY <2>1 DEF LanesInv, ClientsTypeOK
  <2>3. LanesFIFO'
    BY <2>1 DEF LanesInv, LanesFIFO
  <2>4. OvertakenFromEmpty' /\ OvertakenOnce'
    BY <2>1 DEF LanesInv, OvertakenFromEmpty, OvertakenOnce
  <2>5. QED
    BY <2>2, <2>3, <2>4 DEF LanesInv
<1>2. QED
  BY <1>1, PostLanes, ConsumeLanes DEF Next

LEMMA LanesInvariant == Spec => []LanesInv
<1>1. QED
  BY InitLanes, NextLanes, PTL DEF Spec

-----------------------------------------------------------------------------
\* queue.go: what TryPop has returned from a lane, followed by what is still in
\* it, is exactly what TryPost and PostCritical accepted: nothing is lost, doubled
\* or reordered, however producers run between the two steps of a TryPop.
THEOREM LanesAreFIFO == Spec => []LanesFIFO
<1>1. LanesInv => LanesFIFO
  BY DEF LanesInv
<1>2. QED
  BY <1>1, LanesInvariant, PTL

\* queue.go:42: while critical values wait, at most one ordinary value is
\* returned before them, the one whose TryPop had already looked.
THEOREM OvertakenAtMostOnce == Spec => []OvertakenOnce
<1>1. LanesInv => OvertakenOnce
  BY DEF LanesInv
<1>2. QED
  BY <1>1, LanesInvariant, PTL
=============================================================================
