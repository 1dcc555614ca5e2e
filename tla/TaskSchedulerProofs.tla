-------------------------- MODULE TaskSchedulerProofs --------------------------
(***************************************************************************)
(* For any number of owners, tasks and periods and any budget: the heap,   *)
(* the flags, the registrations and the counters of the scheduler agree, a *)
(* closed owner has no task, repeating tasks keep their fixed delay, and   *)
(* no task starves.                                                        *)
(*                                                                         *)
(* RegistryInv is about the goroutines that schedule, cancel, open and     *)
(* close; RunInv about what the tick owner remembers of a task between the *)
(* critical sections of advance; QueueInv counts what goes before a task.  *)
(***************************************************************************)
EXTENDS TaskScheduler, FiniteSetTheorems, WellFoundedInduction, TLAPS

\* Ids are handed out in sequence.
IdsInv == \E n \in 0 .. MaxTasks : DOMAIN tasks = 1 .. n

\* The tick owner holds a task that is registered but not in the heap; a
\* one-shot is not even registered, and only a repeating task is cancelled.
HeldInv ==
    tick \in {"check", "cancel", "invoke"} =>
        /\ popped \in DOMAIN tasks \ queue
        /\ executed < Limit
        /\ OneShot(popped) => popped \notin active /\ tick # "cancel"

\* The owners' registrations and counters are those of the active flags.
OwnersAgree ==
    \A o \in Owners :
        /\ byOwner[o] = {t \in active : tasks[t].owner = o}
        /\ pending[o] = Cardinality(byOwner[o])

RegistryInv == TypeOK /\ IdsInv /\ HeldInv /\ RegistrationsAgree

\* The next run of t is not due before its delay has passed since the last one.
Delayed(t) ==
    lastRun[t] # 0 => ~OneShot(t) /\ tasks[t].due >= lastRun[t] + tasks[t].interval

RunInv ==
    /\ \A t \in Ids : lastRun[t] <= now
    /\ \A t \in Ids \ DOMAIN tasks : lastRun[t] = 0
    /\ \A t \in queue : Delayed(t)
    /\ tick = "check" => Delayed(popped) /\ Due(popped)

\* What is served before t.
AheadOf(t) == {u \in queue : Before(u, t)}

\* Handlers that t has waited for since its deadline, the one in hand included.
InHand == IF tick \in {"check", "invoke"} THEN 1 ELSE 0

Served(t) == (now - tasks[t].due) * Limit + executed + InHand

\* What t has waited for and what it still waits for are all different tasks.
QueueInv ==
    \A t \in queue : Due(t) =>
        /\ Cardinality(AheadOf(t)) + Served(t) < MaxTasks
        /\ tick = "idle" => executed = Limit

-----------------------------------------------------------------------------

LEMMA TaskType ==
    ASSUME NEW t, tasks[t] \in Task
    PROVE  tasks[t].owner \in Owners /\ tasks[t].due \in Nat /\ tasks[t].interval \in Nat
<1>1. /\ tasks[t].owner \in Owners
      /\ tasks[t].due \in 0 .. MaxUint
      /\ tasks[t].interval \in Periods \cup {0}
  BY DEF Task
<1>2. 0 .. MaxUint \subseteq Nat
  BY SchedulerAssumption
<1>3. Periods \cup {0} \subseteq Nat
  BY SchedulerAssumption
<1>4. QED
  BY <1>1, <1>2, <1>3

LEMMA NextIdIsFresh ==
    ASSUME RegistryInv, nextID \in Ids
    PROVE  /\ nextID \notin DOMAIN tasks
           /\ DOMAIN tasks \cup {nextID} = 1 .. nextID
           /\ nextID \in 1 .. MaxTasks
<1>1. PICK n \in 0 .. MaxTasks : DOMAIN tasks = 1 .. n
  BY DEF RegistryInv, IdsInv
<1>2. n \in Nat /\ n <= MaxTasks /\ MaxTasks \in Nat
  BY <1>1, SchedulerAssumption
<1>3. Cardinality(1 .. n) = n
  BY <1>2, FS_Interval
<1>4. nextID = n + 1
  BY <1>1, <1>3 DEF nextID
<1>5. QED
  BY <1>1, <1>2, <1>4 DEF Ids

LEMMA TasksAreFinite ==
    ASSUME RegistryInv
    PROVE  IsFiniteSet(active) /\ \A o \in Owners : IsFiniteSet(byOwner[o])
<1>1. IsFiniteSet(Ids)
  BY SchedulerAssumption, FS_Interval DEF Ids
<1>2. active \in SUBSET Ids /\ \A o \in Owners : byOwner[o] \in SUBSET Ids
  BY DEF RegistryInv, TypeOK
<1>3. QED
  BY <1>1, <1>2, FS_Subset

LEMMA AgreeingOwners ==
    RegistrationsAgree <=> queue \subseteq active /\ active \ queue \subseteq Held /\ OwnersAgree
  BY DEF RegistrationsAgree, OwnersAgree

(* What Retire does to the registrations, whoever calls it.                *)
LEMMA RetireKeeps ==
    ASSUME RegistryInv, NEW t \in active, Retire(t),
           DOMAIN tasks' = DOMAIN tasks,
           \A u \in DOMAIN tasks : tasks'[u].owner = tasks[u].owner
    PROVE  /\ active' = active \ {t}
           /\ active' \subseteq DOMAIN tasks
           /\ byOwner' \in [Owners -> SUBSET DOMAIN tasks]
           /\ pending' \in [Owners -> Nat]
           /\ OwnersAgree'
<1> DEFINE o == tasks[t].owner
<1>1. t \in DOMAIN tasks /\ o \in Owners
  BY DEF RegistryInv, TypeOK, Task
<1>2. t \in byOwner[o] /\ IsFiniteSet(byOwner[o]) /\ pending[o] = Cardinality(byOwner[o])
  BY <1>1, TasksAreFinite DEF RegistryInv, RegistrationsAgree
<1>3. /\ Cardinality(byOwner[o] \ {t}) = pending[o] - 1
      /\ pending[o] - 1 \in Nat
  <2>1. IsFiniteSet(byOwner[o] \ {t}) /\ Cardinality(byOwner[o] \ {t}) = Cardinality(byOwner[o]) - 1
    BY <1>2, FS_RemoveElement
  <2>2. Cardinality(byOwner[o] \ {t}) \in Nat
    BY <2>1, FS_CardinalityType
  <2>3. QED
    BY <1>2, <2>1, <2>2
<1>4. /\ byOwner \in [Owners -> SUBSET DOMAIN tasks]
      /\ pending \in [Owners -> Nat]
      /\ active \subseteq DOMAIN tasks
  BY DEF RegistryInv, TypeOK
<1>5. /\ active' = active \ {t}
      /\ byOwner' = [byOwner EXCEPT ![o] = byOwner[o] \ {t}]
      /\ pending' = [pending EXCEPT ![o] = pending[o] - 1]
  BY DEF Retire
<1>6. /\ byOwner' \in [Owners -> SUBSET DOMAIN tasks]
      /\ pending' \in [Owners -> Nat]
  BY <1>1, <1>3, <1>4, <1>5
<1>7. ASSUME NEW q \in Owners
      PROVE  /\ byOwner'[q] = {u \in active' : tasks'[u].owner = q}
             /\ pending'[q] = Cardinality(byOwner'[q])
  <2>1. byOwner[q] = {u \in active : tasks[u].owner = q} /\ pending[q] = Cardinality(byOwner[q])
    BY DEF RegistryInv, RegistrationsAgree
  <2>2. CASE q = o
    BY <1>1, <1>3, <1>4, <1>5, <2>1, <2>2
  <2>3. CASE q # o
    BY <1>1, <1>4, <1>5, <2>1, <2>3
  <2>4. QED
    BY <2>2, <2>3
<1>8. QED
  BY <1>4, <1>5, <1>6, <1>7 DEF OwnersAgree

LEMMA InitRegistry == Init => RegistryInv
<1> SUFFICES ASSUME Init PROVE RegistryInv
  OBVIOUS
<1> USE DEF Init
<1>1. DOMAIN tasks = {} /\ 1 .. 0 = {} /\ 0 \in 0 .. MaxTasks
  BY SchedulerAssumption
<1>2. TypeOK
  BY <1>1, SchedulerAssumption DEF TypeOK, Life, TickPc
<1>3. IdsInv /\ HeldInv
  BY <1>1 DEF IdsInv, HeldInv
<1>4. RegistrationsAgree
  BY FS_EmptySet DEF RegistrationsAgree, Held
<1>5. QED
  BY <1>2, <1>3, <1>4 DEF RegistryInv

LEMMA ScheduleKeeps ==
    ASSUME RegistryInv, NEW o \in Owners, NEW delay \in Periods,
           NEW interval \in Periods \cup {0}, Schedule(o, delay, interval)
    PROVE  RegistryInv'
<1> DEFINE t == nextID
<1>1. /\ t \in Ids
      /\ MaxUint - now >= delay
      /\ tasks' = [id \in DOMAIN tasks \cup {t} |->
                      IF id = t THEN [owner |-> o, due |-> now + delay, interval |-> interval]
                      ELSE tasks[id]]
      /\ queue' = queue \cup {t}
      /\ active' = active \cup {t}
      /\ byOwner' = [byOwner EXCEPT ![o] = byOwner[o] \cup {t}]
      /\ pending' = [pending EXCEPT ![o] = pending[o] + 1]
      /\ UNCHANGED <<now, life, tick, popped, executed, lastRun, cancelled>>
  BY DEF Schedule, Enqueue, advancing, ghosts
<1>2. t \notin DOMAIN tasks /\ DOMAIN tasks \cup {t} = 1 .. t /\ t \in 1 .. MaxTasks
  BY <1>1, NextIdIsFresh
<1> HIDE DEF t
<1>3. TypeOK
  BY DEF RegistryInv
<1>4. /\ DOMAIN tasks' = DOMAIN tasks \cup {t}
      /\ \A u \in DOMAIN tasks : tasks'[u] = tasks[u]
      /\ tasks'[t] = [owner |-> o, due |-> now + delay, interval |-> interval]
  BY <1>1, <1>2
<1>5. tasks'[t] \in Task
  <2>1. now + delay \in 0 .. MaxUint
    BY <1>1, <1>3, SchedulerAssumption DEF TypeOK
  <2>2. QED
    BY <1>4, <2>1 DEF Task
<1>6. IsFiniteSet(byOwner[o]) /\ pending[o] = Cardinality(byOwner[o]) /\ t \notin byOwner[o]
  BY <1>2, <1>3, TasksAreFinite DEF RegistryInv, RegistrationsAgree, TypeOK
<1>7. Cardinality(byOwner[o] \cup {t}) = pending[o] + 1
  BY <1>6, FS_AddElement
<1>8. TypeOK'
  <2>1. DOMAIN tasks' \subseteq Ids /\ \A u \in DOMAIN tasks' : tasks'[u] \in Task
    BY <1>1, <1>3, <1>4, <1>5 DEF TypeOK
  <2>2. queue' \subseteq DOMAIN tasks' /\ active' \subseteq DOMAIN tasks'
    BY <1>1, <1>3, <1>4 DEF TypeOK
  <2>3. byOwner' \in [Owners -> SUBSET DOMAIN tasks'] /\ pending' \in [Owners -> Nat]
    <3>1. byOwner \in [Owners -> SUBSET DOMAIN tasks] /\ pending \in [Owners -> Nat]
      BY <1>3 DEF TypeOK
    <3>2. byOwner' \in [Owners -> SUBSET DOMAIN tasks']
      BY <1>1, <1>4, <3>1
    <3>3. pending' \in [Owners -> Nat]
      BY <1>1, <3>1
    <3>4. QED
      BY <3>2, <3>3
  <2>4. QED
    BY <1>1, <1>3, <2>1, <2>2, <2>3 DEF TypeOK
<1>9. IdsInv'
  BY <1>2, <1>4 DEF IdsInv
<1>10. HeldInv'
  BY <1>1, <1>2, <1>3, <1>4 DEF RegistryInv, HeldInv, OneShot, TypeOK
<1>11. OwnersAgree'
  <2>1. SUFFICES ASSUME NEW q \in Owners
                 PROVE  /\ byOwner'[q] = {u \in active' : tasks'[u].owner = q}
                        /\ pending'[q] = Cardinality(byOwner'[q])
    BY DEF OwnersAgree
  <2>2. byOwner[q] = {u \in active : tasks[u].owner = q} /\ pending[q] = Cardinality(byOwner[q])
    BY DEF RegistryInv, RegistrationsAgree
  <2>3. tasks'[t].owner = o /\ \A u \in active : u # t /\ tasks'[u].owner = tasks[u].owner
    BY <1>2, <1>3, <1>4 DEF TypeOK
  <2>4. byOwner'[q] = IF q = o THEN byOwner[q] \cup {t} ELSE byOwner[q]
    BY <1>1, <1>3 DEF TypeOK
  <2>5. pending'[q] = IF q = o THEN pending[q] + 1 ELSE pending[q]
    BY <1>1, <1>3 DEF TypeOK
  <2>6. CASE q = o
    <3>1. byOwner'[q] = {u \in active' : tasks'[u].owner = q}
      BY <1>1, <2>2, <2>3, <2>4, <2>6
    <3>2. pending'[q] = Cardinality(byOwner'[q])
      BY <1>7, <2>4, <2>5, <2>6
    <3>3. QED
      BY <3>1, <3>2
  <2>7. CASE q # o
    BY <1>1, <2>2, <2>3, <2>4, <2>5, <2>7
  <2>8. QED
    BY <2>6, <2>7
<1>12. RegistrationsAgree'
  <2>1. queue' \subseteq active' /\ active' \ queue' \subseteq Held'
    BY <1>1 DEF RegistryInv, RegistrationsAgree, Held
  <2>2. QED
    BY <1>11, <2>1 DEF RegistrationsAgree, OwnersAgree
<1>13. QED
  BY <1>8, <1>9, <1>10, <1>12 DEF RegistryInv

LEMMA CancelKeeps == ASSUME RegistryInv, NEW t \in active, Cancel(t) PROVE RegistryInv'
<1>1. /\ Retire(t)
      /\ queue' = queue \ {t}
      /\ cancelled' \in {cancelled, cancelled \cup {t}}
      /\ UNCHANGED <<now, tasks, life, tick, popped, executed, lastRun>>
  BY DEF Cancel, advancing
<1>2. /\ active' = active \ {t}
      /\ active' \subseteq DOMAIN tasks
      /\ byOwner' \in [Owners -> SUBSET DOMAIN tasks]
      /\ pending' \in [Owners -> Nat]
      /\ OwnersAgree'
  BY <1>1, RetireKeeps
<1>3. TypeOK'
  BY <1>1, <1>2 DEF RegistryInv, TypeOK
<1>4. IdsInv' /\ HeldInv'
  BY <1>1, <1>2 DEF RegistryInv, IdsInv, HeldInv, OneShot
<1>5. queue' \subseteq active' /\ active' \ queue' \subseteq Held'
  BY <1>1, <1>2 DEF RegistryInv, RegistrationsAgree, Held
<1>6. QED
  BY <1>2, <1>3, <1>4, <1>5 DEF RegistryInv, RegistrationsAgree, OwnersAgree

LEMMA LiveKeeps ==
    ASSUME RegistryInv, NEW o \in Owners, OpenOwner(o) \/ EnableOwner(o) \/ DisableOwner(o)
    PROVE  RegistryInv'
<1>1. /\ life' = [life EXCEPT ![o] = life'[o]]
      /\ life'[o] \in Life
      /\ UNCHANGED <<now, registry, advancing, ghosts>>
  BY DEF OpenOwner, EnableOwner, DisableOwner, Live, RegistryInv, TypeOK, Life
<1>2. UNCHANGED <<now, tasks, queue, active, byOwner, pending, tick, popped, executed,
                  lastRun, cancelled>>
  BY <1>1 DEF registry, advancing, ghosts
<1>3. TypeOK'
  BY <1>1, <1>2 DEF RegistryInv, TypeOK
<1>4. IdsInv' /\ HeldInv' /\ RegistrationsAgree'
  BY <1>2 DEF RegistryInv, IdsInv, HeldInv, OneShot, RegistrationsAgree, Held
<1>5. QED
  BY <1>3, <1>4 DEF RegistryInv

LEMMA CloseKeeps == ASSUME RegistryInv, NEW o \in Owners, CloseOwner(o) PROVE RegistryInv'
<1>1. /\ life' = [life EXCEPT ![o] = "closed"]
      /\ active' = active \ byOwner[o]
      /\ queue' = queue \ byOwner[o]
      /\ byOwner' = [byOwner EXCEPT ![o] = {}]
      /\ pending' = [pending EXCEPT ![o] = pending[o] - Cardinality(byOwner[o] \cap active)]
      /\ UNCHANGED <<now, tasks, tick, popped, executed, lastRun, cancelled>>
  BY DEF CloseOwner, Live, advancing, ghosts
<1>2. byOwner[o] \cap active = byOwner[o] /\ pending[o] = Cardinality(byOwner[o])
  BY DEF RegistryInv, RegistrationsAgree
<1>3. pending[o] \in Nat
  BY DEF RegistryInv, TypeOK
<1>4. pending' = [pending EXCEPT ![o] = 0]
  <2>1. Cardinality(byOwner[o] \cap active) = pending[o]
    BY <1>2
  <2>2. pending[o] - Cardinality(byOwner[o] \cap active) = 0
    BY <1>3, <2>1
  <2>3. QED
    BY <1>1, <2>2
<1>5. TypeOK'
  BY <1>1, <1>4 DEF RegistryInv, TypeOK, Life
<1>6. IdsInv' /\ HeldInv'
  BY <1>1 DEF RegistryInv, IdsInv, HeldInv, OneShot
<1>7. ASSUME NEW q \in Owners
      PROVE  /\ byOwner'[q] = {u \in active' : tasks'[u].owner = q}
             /\ pending'[q] = Cardinality(byOwner'[q])
  <2>1. \A p \in Owners : byOwner[p] = {u \in active : tasks[u].owner = p}
    BY DEF RegistryInv, RegistrationsAgree
  <2>2. pending[q] = Cardinality(byOwner[q])
    BY DEF RegistryInv, RegistrationsAgree
  <2>3. /\ byOwner'[q] = IF q = o THEN {} ELSE byOwner[q]
        /\ pending'[q] = IF q = o THEN 0 ELSE pending[q]
    BY <1>1, <1>4 DEF RegistryInv, TypeOK
  <2>4. byOwner'[q] = {u \in active' : tasks'[u].owner = q}
    BY <1>1, <2>1, <2>3
  <2>5. pending'[q] = Cardinality(byOwner'[q])
    BY <2>2, <2>3, FS_EmptySet
  <2>6. QED
    BY <2>4, <2>5
<1>8. queue' \subseteq active' /\ active' \ queue' \subseteq Held'
  BY <1>1 DEF RegistryInv, RegistrationsAgree, Held
<1>9. QED
  BY <1>5, <1>6, <1>7, <1>8 DEF RegistryInv, RegistrationsAgree

(* The tick owner, step by step.                                           *)
LEMMA BeginKeeps == ASSUME RegistryInv, AdvanceBegin PROVE RegistryInv'
<1>1. /\ tick = "idle" /\ tick' = "loop"
      /\ now < MaxUint /\ now' = now + 1
      /\ executed' = 0
      /\ UNCHANGED <<tasks, queue, active, byOwner, pending, life, popped, lastRun, cancelled>>
  BY DEF AdvanceBegin, registry, ghosts
<1>2. TypeOK'
  BY <1>1, SchedulerAssumption DEF RegistryInv, TypeOK, TickPc
<1>3. IdsInv' /\ HeldInv' /\ RegistrationsAgree'
  BY <1>1 DEF RegistryInv, IdsInv, HeldInv, RegistrationsAgree, Held
<1>4. QED
  BY <1>2, <1>3 DEF RegistryInv

LEMMA PopKeeps == ASSUME RegistryInv, NEW t \in queue, Pop(t) PROVE RegistryInv'
<1>1. /\ tick = "loop" /\ tick' = "check"
      /\ executed < Limit
      /\ queue' = queue \ {t}
      /\ popped' = t
      /\ UNCHANGED <<now, tasks, life, executed, lastRun, cancelled>>
  BY DEF Pop, ghosts
<1>2. t \in DOMAIN tasks /\ t \in Ids /\ t \in active
  BY DEF RegistryInv, TypeOK, RegistrationsAgree
<1>3. /\ active' = IF OneShot(t) THEN active \ {t} ELSE active
      /\ active' \subseteq DOMAIN tasks
      /\ byOwner' \in [Owners -> SUBSET DOMAIN tasks]
      /\ pending' \in [Owners -> Nat]
      /\ OwnersAgree'
  <2>1. CASE OneShot(t)
    BY <1>1, <1>2, <2>1, RetireKeeps DEF Pop
  <2>2. CASE ~OneShot(t)
    BY <1>1, <2>2 DEF Pop, RegistryInv, TypeOK, RegistrationsAgree, OwnersAgree
  <2>3. QED
    BY <2>1, <2>2
<1>4. TypeOK'
  BY <1>1, <1>2, <1>3 DEF RegistryInv, TypeOK, TickPc
<1>5. IdsInv' /\ HeldInv'
  BY <1>1, <1>2, <1>3 DEF RegistryInv, IdsInv, HeldInv, OneShot
<1>6. queue' \subseteq active' /\ active' \ queue' \subseteq Held'
  BY <1>1, <1>3 DEF RegistryInv, RegistrationsAgree, Held
<1>7. QED
  BY <1>3, <1>4, <1>5, <1>6 DEF RegistryInv, RegistrationsAgree, OwnersAgree

LEMMA EndKeeps == ASSUME RegistryInv, AdvanceEnd PROVE RegistryInv'
<1>1. /\ tick = "loop" /\ tick' = "idle"
      /\ UNCHANGED <<now, tasks, queue, active, byOwner, pending, life, popped, executed,
                     lastRun, cancelled>>
  BY DEF AdvanceEnd, registry, ghosts
<1>2. TypeOK'
  BY <1>1 DEF RegistryInv, TypeOK, TickPc
<1>3. IdsInv' /\ HeldInv' /\ RegistrationsAgree'
  BY <1>1 DEF RegistryInv, IdsInv, HeldInv, RegistrationsAgree, Held
<1>4. QED
  BY <1>2, <1>3 DEF RegistryInv

LEMMA CheckKeeps == ASSUME RegistryInv, CheckOwner PROVE RegistryInv'
<1>1. /\ tick = "check"
      /\ tick' \in {"invoke", "loop", "cancel"}
      /\ lastRun' \in {lastRun, [lastRun EXCEPT ![popped] = now]}
      /\ tick' = "loop" => OneShot(popped)
      /\ tick' = "cancel" => ~OneShot(popped)
      /\ UNCHANGED <<now, tasks, queue, active, byOwner, pending, life, popped, executed, cancelled>>
  BY DEF CheckOwner, registry
<1>2. TypeOK'
  <2>1. lastRun' \in [Ids -> 0 .. MaxUint]
    BY <1>1 DEF RegistryInv, TypeOK
  <2>2. QED
    BY <1>1, <2>1 DEF RegistryInv, TypeOK, TickPc
<1>3. IdsInv' /\ HeldInv'
  BY <1>1 DEF RegistryInv, IdsInv, HeldInv, OneShot
<1>4. RegistrationsAgree'
  BY <1>1 DEF RegistryInv, RegistrationsAgree, Held, HeldInv, OneShot
<1>5. QED
  BY <1>2, <1>3, <1>4 DEF RegistryInv

(* Cancelling the task in hand, or leaving it cancelled.                   *)
LEMMA DropKeeps ==
    ASSUME RegistryInv, tick \in {"cancel", "invoke"}, popped \in DOMAIN tasks \ queue,
           IF popped \in active THEN Retire(popped) ELSE UNCHANGED <<active, byOwner, pending>>,
           UNCHANGED tasks
    PROVE  /\ active' = active \ {popped}
           /\ active' \subseteq DOMAIN tasks
           /\ byOwner' \in [Owners -> SUBSET DOMAIN tasks]
           /\ pending' \in [Owners -> Nat]
           /\ OwnersAgree'
<1>1. CASE popped \in active
  BY <1>1, RetireKeeps
<1>2. CASE popped \notin active
  BY <1>2 DEF RegistryInv, TypeOK, RegistrationsAgree, OwnersAgree
<1>3. QED
  BY <1>1, <1>2

LEMMA CancelPoppedKeeps == ASSUME RegistryInv, CancelPopped PROVE RegistryInv'
<1>1. /\ tick = "cancel" /\ tick' = "loop"
      /\ UNCHANGED <<now, tasks, queue, life, popped, executed, lastRun, cancelled>>
  BY DEF CancelPopped, ghosts
<1>2. popped \in DOMAIN tasks \ queue
  BY <1>1 DEF RegistryInv, HeldInv
<1>3. /\ active' = active \ {popped}
      /\ active' \subseteq DOMAIN tasks
      /\ byOwner' \in [Owners -> SUBSET DOMAIN tasks]
      /\ pending' \in [Owners -> Nat]
      /\ OwnersAgree'
  BY <1>1, <1>2, DropKeeps DEF CancelPopped
<1>4. TypeOK'
  BY <1>1, <1>3 DEF RegistryInv, TypeOK, TickPc
<1>5. IdsInv' /\ HeldInv'
  BY <1>1 DEF RegistryInv, IdsInv, HeldInv
<1>6. queue' \subseteq active' /\ active' \ queue' \subseteq Held'
  BY <1>1, <1>2, <1>3 DEF RegistryInv, RegistrationsAgree, Held
<1>7. QED
  BY <1>3, <1>4, <1>5, <1>6 DEF RegistryInv, RegistrationsAgree, OwnersAgree

(* A repeating task goes back into the heap with a later deadline, or is   *)
(* dropped; nothing else happens to the registrations.                     *)
Rearmed ==
    /\ popped \in active
    /\ MaxUint - now >= tasks[popped].interval
    /\ tasks' = [tasks EXCEPT ![popped].due = now + tasks[popped].interval]
    /\ queue' = queue \cup {popped}
    /\ UNCHANGED <<active, byOwner, pending>>

Dropped ==
    /\ IF popped \in active THEN Retire(popped) ELSE UNCHANGED <<active, byOwner, pending>>
    /\ UNCHANGED <<tasks, queue>>

LEMMA RescheduleCases == Reschedule => Rearmed \/ Dropped
  BY DEF Reschedule, Rearmed, Dropped

LEMMA RearmedTasks ==
    ASSUME RegistryInv, Rearmed
    PROVE  /\ DOMAIN tasks' = DOMAIN tasks
           /\ \A u \in DOMAIN tasks : u # popped => tasks'[u] = tasks[u]
           /\ tasks'[popped].owner = tasks[popped].owner
           /\ tasks'[popped].interval = tasks[popped].interval
           /\ tasks'[popped].due = now + tasks[popped].interval
           /\ \A u \in DOMAIN tasks : tasks'[u] \in Task
<1>1. /\ popped \in DOMAIN tasks
      /\ tasks[popped] \in Task
      /\ tasks' = [tasks EXCEPT ![popped] = [tasks[popped] EXCEPT !.due = now + tasks[popped].interval]]
  BY DEF Rearmed, RegistryInv, TypeOK
<1>2. now + tasks[popped].interval \in 0 .. MaxUint
  BY <1>1, SchedulerAssumption DEF Rearmed, RegistryInv, TypeOK, Task
<1>3. tasks'[popped] = [tasks[popped] EXCEPT !.due = now + tasks[popped].interval]
  BY <1>1
<1>4. /\ DOMAIN tasks' = DOMAIN tasks
      /\ \A u \in DOMAIN tasks : u # popped => tasks'[u] = tasks[u]
  BY <1>1
<1>5. /\ tasks'[popped] \in Task
      /\ tasks'[popped].owner = tasks[popped].owner
      /\ tasks'[popped].interval = tasks[popped].interval
      /\ tasks'[popped].due = now + tasks[popped].interval
  BY <1>1, <1>2, <1>3 DEF Task
<1>6. QED
  BY <1>4, <1>5 DEF RegistryInv, TypeOK

LEMMA InvokeKeeps == ASSUME RegistryInv, InvokeEnd PROVE RegistryInv'
<1>1. /\ tick = "invoke" /\ tick' = "loop"
      /\ executed' = executed + 1
      /\ UNCHANGED <<now, life, popped, lastRun, cancelled>>
  BY DEF InvokeEnd, ghosts
<1>2. popped \in DOMAIN tasks \ queue /\ executed' \in 0 .. Limit
  BY <1>1, SchedulerAssumption DEF RegistryInv, HeldInv, TypeOK
<1>3. CASE OneShot(popped)
  <2>1. UNCHANGED <<tasks, queue, active, byOwner, pending>>
    BY <1>3 DEF InvokeEnd, registry
  <2>2. TypeOK'
    BY <1>1, <1>2, <2>1 DEF RegistryInv, TypeOK, TickPc
  <2>3. IdsInv' /\ HeldInv'
    BY <1>1, <2>1 DEF RegistryInv, IdsInv, HeldInv
  <2>4. RegistrationsAgree'
    BY <1>1, <1>3, <2>1 DEF RegistryInv, HeldInv, RegistrationsAgree, Held
  <2>5. QED
    BY <2>2, <2>3, <2>4 DEF RegistryInv
<1>4. CASE ~OneShot(popped) /\ Rearmed
  <2>1. /\ DOMAIN tasks' = DOMAIN tasks
        /\ \A u \in DOMAIN tasks : tasks'[u].owner = tasks[u].owner /\ tasks'[u] \in Task
    BY <1>2, <1>4, RearmedTasks
  <2>2. queue' = queue \cup {popped} /\ UNCHANGED <<active, byOwner, pending>> /\ popped \in active
    BY <1>4 DEF Rearmed
  <2>3. TypeOK'
    BY <1>1, <1>2, <2>1, <2>2 DEF RegistryInv, TypeOK, TickPc
  <2>4. IdsInv' /\ HeldInv'
    BY <1>1, <2>1 DEF RegistryInv, IdsInv, HeldInv
  <2>5. queue' \subseteq active' /\ active' \ queue' \subseteq Held'
    BY <1>1, <2>2 DEF RegistryInv, RegistrationsAgree, Held
  <2>6. OwnersAgree'
    <3>1. active \subseteq DOMAIN tasks
      BY DEF RegistryInv, TypeOK
    <3>2. QED
      BY <2>1, <2>2, <3>1 DEF RegistryInv, RegistrationsAgree, OwnersAgree
  <2>7. QED
    BY <2>3, <2>4, <2>5, <2>6 DEF RegistryInv, RegistrationsAgree, OwnersAgree
<1>5. CASE ~OneShot(popped) /\ Dropped
  <2>1. /\ active' = active \ {popped}
        /\ active' \subseteq DOMAIN tasks
        /\ byOwner' \in [Owners -> SUBSET DOMAIN tasks]
        /\ pending' \in [Owners -> Nat]
        /\ OwnersAgree'
    BY <1>1, <1>2, <1>5, DropKeeps DEF Dropped
  <2>2. UNCHANGED <<tasks, queue>>
    BY <1>5 DEF Dropped
  <2>3. TypeOK'
    BY <1>1, <1>2, <2>1, <2>2 DEF RegistryInv, TypeOK, TickPc
  <2>4. IdsInv' /\ HeldInv'
    BY <1>1, <2>2 DEF RegistryInv, IdsInv, HeldInv
  <2>5. queue' \subseteq active' /\ active' \ queue' \subseteq Held'
    BY <1>1, <1>2, <2>1, <2>2 DEF RegistryInv, RegistrationsAgree, Held
  <2>6. QED
    BY <2>1, <2>3, <2>4, <2>5 DEF RegistryInv, RegistrationsAgree, OwnersAgree
<1>6. QED
  BY <1>3, <1>4, <1>5, RescheduleCases DEF InvokeEnd

(* Every step, named by its action and its arguments.                      *)
LEMMA NextCases ==
    ASSUME [Next]_vars
    PROVE  \/ \E o \in Owners, delay \in Periods, interval \in Periods \cup {0} :
                  Schedule(o, delay, interval)
           \/ \E o \in Owners : OpenOwner(o) \/ EnableOwner(o) \/ DisableOwner(o)
           \/ \E o \in Owners : CloseOwner(o)
           \/ \E t \in active : Cancel(t)
           \/ AdvanceBegin
           \/ \E t \in queue : Pop(t)
           \/ AdvanceEnd
           \/ CheckOwner
           \/ CancelPopped
           \/ InvokeEnd
           \/ UNCHANGED vars
  BY DEF Next, Advance, AfterTicks, EveryTicks

LEMMA NextRegistry == RegistryInv /\ [Next]_vars => RegistryInv'
<1> SUFFICES ASSUME RegistryInv, [Next]_vars PROVE RegistryInv'
  OBVIOUS
<1>1. CASE UNCHANGED vars
  <2>1. UNCHANGED <<now, tasks, queue, active, byOwner, pending, life, tick, popped, executed,
                    lastRun, cancelled>>
    BY <1>1 DEF vars, registry, advancing, ghosts
  <2>2. TypeOK'
    BY <2>1 DEF RegistryInv, TypeOK
  <2>3. IdsInv' /\ HeldInv' /\ RegistrationsAgree'
    BY <2>1 DEF RegistryInv, IdsInv, HeldInv, OneShot, RegistrationsAgree, Held
  <2>4. QED
    BY <2>2, <2>3 DEF RegistryInv
<1>2. QED
  BY <1>1, NextCases, ScheduleKeeps, CancelKeeps, LiveKeeps, CloseKeeps, BeginKeeps, PopKeeps,
     EndKeeps, CheckKeeps, CancelPoppedKeeps, InvokeKeeps

LEMMA RegistryInvariant == Spec => []RegistryInv
  BY InitRegistry, NextRegistry, PTL DEF Spec

-----------------------------------------------------------------------------
(* What every step but a registration leaves of the tasks.                 *)
LEMMA TasksKept ==
    ASSUME RegistryInv,
           \/ \E t \in active : Cancel(t)
           \/ \E o \in Owners : OpenOwner(o) \/ EnableOwner(o) \/ DisableOwner(o) \/ CloseOwner(o)
           \/ AdvanceBegin \/ AdvanceEnd \/ CheckOwner \/ CancelPopped
           \/ \E t \in queue : Pop(t)
           \/ UNCHANGED vars
    PROVE  UNCHANGED tasks /\ queue' \subseteq queue /\ active' \subseteq active
<1>1. CASE \E t \in active : Cancel(t)
  BY <1>1 DEF Cancel, Retire
<1>2. CASE \E o \in Owners : OpenOwner(o) \/ EnableOwner(o) \/ DisableOwner(o) \/ CloseOwner(o)
  BY <1>2 DEF OpenOwner, EnableOwner, DisableOwner, CloseOwner, registry
<1>3. CASE AdvanceBegin \/ AdvanceEnd \/ CheckOwner \/ CancelPopped
  BY <1>3 DEF AdvanceBegin, AdvanceEnd, CheckOwner, CancelPopped, Retire, registry
<1>4. CASE \E t \in queue : Pop(t)
  BY <1>4 DEF Pop, Retire
<1>5. CASE UNCHANGED vars
  BY <1>5 DEF vars, registry
<1>6. QED
  BY <1>1, <1>2, <1>3, <1>4, <1>5

LEMMA InvokeTasks ==
    ASSUME RegistryInv, InvokeEnd
    PROVE  \/ UNCHANGED <<tasks, queue>> /\ active' \subseteq active
           \/ Rearmed /\ popped \in DOMAIN tasks \ queue
  BY RescheduleCases DEF InvokeEnd, registry, RegistryInv, HeldInv, Dropped, Retire

LEMMA RegisteredTasks ==
    ASSUME RegistryInv, NEW o \in Owners, NEW delay \in Periods,
           NEW interval \in Periods \cup {0}, Schedule(o, delay, interval)
    PROVE  /\ nextID \in Ids \ DOMAIN tasks
           /\ \A u \in DOMAIN tasks : tasks'[u] = tasks[u]
           /\ tasks'[nextID] = [owner |-> o, due |-> now + delay, interval |-> interval]
           /\ DOMAIN tasks' = DOMAIN tasks \cup {nextID}
           /\ queue' = queue \cup {nextID}
           /\ active' = active \cup {nextID}
           /\ Open(o)
           /\ UNCHANGED <<now, life, tick, popped, executed, lastRun, cancelled>>
<1> DEFINE t == nextID
<1>1. t \in Ids \ DOMAIN tasks
  BY NextIdIsFresh DEF Schedule, Enqueue
<1>2. tasks' = [id \in DOMAIN tasks \cup {t} |->
                   IF id = t THEN [owner |-> o, due |-> now + delay, interval |-> interval]
                   ELSE tasks[id]]
  BY DEF Schedule, Enqueue
<1>3. /\ queue' = queue \cup {t}
      /\ active' = active \cup {t}
      /\ Open(o)
      /\ UNCHANGED <<now, life, tick, popped, executed, lastRun, cancelled>>
  BY DEF Schedule, Enqueue, advancing, ghosts
<1> HIDE DEF t
<1>4. /\ \A u \in DOMAIN tasks : tasks'[u] = tasks[u]
      /\ tasks'[t] = [owner |-> o, due |-> now + delay, interval |-> interval]
      /\ DOMAIN tasks' = DOMAIN tasks \cup {t}
  BY <1>1, <1>2
<1>5. QED
  BY <1>1, <1>3, <1>4 DEF t

LEMMA NextClosed ==
    ASSUME RegistryInv, ClosedOwnersHaveNoTask, [Next]_vars
    PROVE  ClosedOwnersHaveNoTask'
<1>0. active \subseteq DOMAIN tasks
  BY DEF RegistryInv, TypeOK
<1>1. ASSUME NEW o \in Owners, NEW delay \in Periods, NEW interval \in Periods \cup {0},
             Schedule(o, delay, interval)
      PROVE  ClosedOwnersHaveNoTask'
  <2>1. /\ \A u \in DOMAIN tasks : tasks'[u] = tasks[u]
        /\ tasks'[nextID].owner = o
        /\ active' = active \cup {nextID}
        /\ life[o] # "closed"
        /\ UNCHANGED life
    <3>1. /\ \A u \in DOMAIN tasks : tasks'[u] = tasks[u]
          /\ tasks'[nextID] = [owner |-> o, due |-> now + delay, interval |-> interval]
          /\ active' = active \cup {nextID}
          /\ Open(o) /\ UNCHANGED life
      BY <1>1, RegisteredTasks
    <3>2. QED
      BY <3>1 DEF Open
  <2>2. ASSUME NEW u \in active' PROVE life'[tasks'[u].owner] # "closed"
    <3>1. CASE u = nextID
      <4>1. tasks'[u].owner = o /\ life'[o] # "closed"
        BY <2>1, <3>1
      <4>2. QED
        BY <4>1
    <3>2. CASE u \in active
      BY <1>0, <2>1, <3>2 DEF ClosedOwnersHaveNoTask, Open
    <3>3. QED
      BY <2>1, <2>2, <3>1, <3>2
  <2>3. QED
    BY <2>2 DEF ClosedOwnersHaveNoTask, Open
<1>2. ASSUME NEW o \in Owners, OpenOwner(o) \/ EnableOwner(o) \/ DisableOwner(o)
      PROVE  ClosedOwnersHaveNoTask'
  <2>1. UNCHANGED tasks /\ active' \subseteq active
    BY <1>2, TasksKept
  <2>2. \A q \in Owners : life[q] # "closed" => life'[q] # "closed"
    BY <1>2 DEF OpenOwner, EnableOwner, DisableOwner, Live, RegistryInv, TypeOK
  <2>3. \A t \in active : tasks[t].owner \in Owners
    BY <1>0 DEF RegistryInv, TypeOK, Task
  <2>4. QED
    BY <2>1, <2>2, <2>3 DEF ClosedOwnersHaveNoTask, Open
<1>3. ASSUME NEW o \in Owners, CloseOwner(o) PROVE ClosedOwnersHaveNoTask'
  <2>1. /\ UNCHANGED tasks
        /\ active' = active \ {t \in active : tasks[t].owner = o}
    BY <1>3 DEF CloseOwner, RegistryInv, RegistrationsAgree
  <2>2. \A q \in Owners \ {o} : life'[q] = life[q]
    BY <1>3 DEF CloseOwner, Live, RegistryInv, TypeOK
  <2>3. \A t \in active : tasks[t].owner \in Owners
    BY <1>0 DEF RegistryInv, TypeOK, Task
  <2>4. QED
    BY <2>1, <2>2, <2>3 DEF ClosedOwnersHaveNoTask, Open
<1>4. CASE \/ \E t \in active : Cancel(t)
           \/ AdvanceBegin \/ AdvanceEnd \/ CheckOwner \/ CancelPopped
           \/ \E t \in queue : Pop(t)
           \/ UNCHANGED vars
  <2>1. UNCHANGED tasks /\ active' \subseteq active
    BY <1>4, TasksKept
  <2>2. UNCHANGED life
    BY <1>4 DEF Cancel, AdvanceBegin, AdvanceEnd, CheckOwner, CancelPopped, Pop, vars
  <2>3. QED
    BY <2>1, <2>2 DEF ClosedOwnersHaveNoTask, Open
<1>5. CASE InvokeEnd
  <2>1. UNCHANGED life
    BY <1>5 DEF InvokeEnd
  <2>2. active' \subseteq active /\ \A t \in active : tasks'[t].owner = tasks[t].owner
    BY <1>0, <1>5, InvokeTasks, RearmedTasks DEF Rearmed
  <2>3. QED
    BY <2>1, <2>2 DEF ClosedOwnersHaveNoTask, Open
<1>6. QED
  BY <1>1, <1>2, <1>3, <1>4, <1>5, NextCases

-----------------------------------------------------------------------------
(* A popped task is due, so its next run is.                               *)
LEMMA NextRun == ASSUME RegistryInv, RunInv, [Next]_vars PROVE RunInv'
<1>0. /\ queue \subseteq DOMAIN tasks
      /\ DOMAIN tasks \subseteq Ids
      /\ \A t \in DOMAIN tasks : tasks[t] \in Task
      /\ now \in Nat
      /\ lastRun \in [Ids -> Nat]
  BY SchedulerAssumption DEF RegistryInv, TypeOK
<1>1. ASSUME NEW o \in Owners, NEW delay \in Periods, NEW interval \in Periods \cup {0},
             Schedule(o, delay, interval)
      PROVE  RunInv'
  <2>1. lastRun'[nextID] = 0
    BY <1>1, RegisteredTasks DEF RunInv
  <2>2. tick = "check" => popped \in DOMAIN tasks
    BY DEF RegistryInv, HeldInv
  <2>3. /\ \A u \in DOMAIN tasks : tasks'[u] = tasks[u]
        /\ DOMAIN tasks' = DOMAIN tasks \cup {nextID}
        /\ queue' = queue \cup {nextID}
        /\ UNCHANGED <<now, tick, popped, lastRun>>
    BY <1>1, RegisteredTasks
  <2>4. \A u \in queue' : Delayed(u)'
    BY <1>0, <2>1, <2>3 DEF RunInv, Delayed, OneShot
  <2>5. tick' = "check" => Delayed(popped)' /\ Due(popped)'
    BY <2>2, <2>3 DEF RunInv, Delayed, OneShot, Due
  <2>6. QED
    BY <2>3, <2>4, <2>5 DEF RunInv
<1>2. CASE \/ \E t \in active : Cancel(t)
           \/ \E o \in Owners : OpenOwner(o) \/ EnableOwner(o) \/ DisableOwner(o) \/ CloseOwner(o)
           \/ AdvanceBegin \/ AdvanceEnd \/ CancelPopped
           \/ UNCHANGED vars
  <2>1. UNCHANGED tasks /\ queue' \subseteq queue
    BY <1>2, TasksKept
  <2>2. /\ UNCHANGED <<lastRun, popped>>
        /\ tick' = "check" => tick = "check"
        /\ now' \in {now, now + 1}
    BY <1>2 DEF Cancel, OpenOwner, EnableOwner, DisableOwner, CloseOwner, Live, AdvanceBegin,
                AdvanceEnd, CancelPopped, vars, advancing, ghosts
  <2>3. tick = "check" => now' = now
    BY <1>2 DEF Cancel, OpenOwner, EnableOwner, DisableOwner, CloseOwner, Live, AdvanceBegin,
                AdvanceEnd, CancelPopped, vars
  <2>4. QED
    BY <1>0, <2>1, <2>2, <2>3 DEF RunInv, Delayed, OneShot, Due
<1>3. ASSUME NEW t \in queue, Pop(t) PROVE RunInv'
  <2>1. /\ UNCHANGED <<tasks, lastRun, now>>
        /\ queue' \subseteq queue
        /\ popped' = t
        /\ Due(t)
    BY <1>3 DEF Pop, ghosts
  <2>2. QED
    BY <2>1 DEF RunInv, Delayed, OneShot, Due
<1>4. CASE CheckOwner
  <2>1. /\ UNCHANGED <<tasks, queue, now, popped>>
        /\ lastRun' \in {lastRun, [lastRun EXCEPT ![popped] = now]}
        /\ tick = "check" /\ tick' # "check"
        /\ popped \in DOMAIN tasks \ queue
    BY <1>4 DEF CheckOwner, registry, RegistryInv, HeldInv
  <2>2. \A t \in Ids : t # popped => lastRun'[t] = lastRun[t]
    BY <1>0, <2>1
  <2>3. lastRun'[popped] \in {lastRun[popped], now}
    BY <1>0, <2>1
  <2>4. QED
    BY <1>0, <2>1, <2>2, <2>3 DEF RunInv, Delayed, OneShot
<1>5. CASE InvokeEnd
  <2>1. /\ UNCHANGED <<now, lastRun, popped>>
        /\ tick' # "check"
    BY <1>5 DEF InvokeEnd, ghosts
  <2>2. CASE UNCHANGED <<tasks, queue>>
    BY <2>1, <2>2 DEF RunInv, Delayed, OneShot
  <2>3. CASE Rearmed /\ popped \in DOMAIN tasks \ queue /\ ~OneShot(popped)
    <3>1. /\ DOMAIN tasks' = DOMAIN tasks
          /\ \A u \in queue : tasks'[u] = tasks[u]
          /\ tasks'[popped].interval = tasks[popped].interval
          /\ tasks'[popped].due = now + tasks[popped].interval
          /\ queue' = queue \cup {popped}
      BY <1>0, <2>3, RearmedTasks DEF Rearmed
    <3>2. Delayed(popped)'
      <4>0. popped \in Ids /\ tasks[popped] \in Task
        BY <1>0, <2>3
      <4>1. lastRun[popped] \in Nat /\ lastRun[popped] <= now
        BY <1>0, <4>0 DEF RunInv
      <4>2. tasks[popped].interval \in Nat
        BY <4>0, TaskType
      <4>3. now + tasks[popped].interval >= lastRun[popped] + tasks[popped].interval
        <5>1. now \in Nat
          BY <1>0
        <5>2. QED
          BY <4>1, <4>2, <5>1
      <4>4. tasks'[popped].due >= lastRun'[popped'] + tasks'[popped].interval
        BY <2>1, <3>1, <4>3
      <4>5. tasks'[popped].interval # 0
        BY <2>3, <3>1 DEF OneShot
      <4>6. QED
        BY <2>1, <4>4, <4>5 DEF Delayed, OneShot
    <3>3. \A u \in queue : Delayed(u)'
      BY <2>1, <3>1 DEF RunInv, Delayed, OneShot
    <3>4. QED
      BY <2>1, <3>1, <3>2, <3>3 DEF RunInv
  <2>4. QED
    BY <1>5, <2>2, <2>3, RescheduleCases DEF InvokeEnd, registry, Dropped, RegistryInv, HeldInv
<1>6. QED
  BY <1>1, <1>2, <1>3, <1>4, <1>5, NextCases

(* Only CheckOwner starts an invocation, of the due task in hand.          *)
LEMMA RunsAreDelayed ==
    ASSUME RegistryInv, RunInv, [Next]_vars
    PROVE  \A t \in Ids : lastRun'[t] # lastRun[t] /\ lastRun[t] # 0 =>
               tasks[t].interval > 0 /\ lastRun'[t] >= lastRun[t] + tasks[t].interval
<1>1. CASE CheckOwner
  <2>1. /\ lastRun' \in {lastRun, [lastRun EXCEPT ![popped] = now]}
        /\ popped \in Ids
        /\ tasks[popped] \in Task
        /\ Delayed(popped) /\ Due(popped)
    BY <1>1 DEF CheckOwner, RegistryInv, HeldInv, TypeOK, RunInv
  <2>2. /\ lastRun \in [Ids -> Nat]
        /\ now \in Nat
        /\ tasks[popped].interval \in Nat /\ tasks[popped].due \in Nat
    BY <2>1, TaskType, SchedulerAssumption DEF RegistryInv, TypeOK
  <2>3. ASSUME NEW t \in Ids, lastRun'[t] # lastRun[t], lastRun[t] # 0
        PROVE  tasks[t].interval > 0 /\ lastRun'[t] >= lastRun[t] + tasks[t].interval
    <3>1. t = popped /\ lastRun'[t] = now
      BY <2>1, <2>2, <2>3
    <3>2. tasks[t].interval # 0 /\ tasks[t].due >= lastRun[t] + tasks[t].interval
      BY <2>1, <2>3, <3>1 DEF Delayed, OneShot
    <3>3. tasks[t].due <= now
      BY <2>1, <3>1 DEF Due
    <3>4. QED
      BY <2>2, <3>1, <3>2, <3>3
  <2>4. QED
    BY <2>3
<1>2. CASE ~CheckOwner
  <2>1. UNCHANGED lastRun
    BY <1>2 DEF Next, Advance, AfterTicks, EveryTicks, Schedule, Enqueue, Cancel, OpenOwner,
                EnableOwner, DisableOwner, CloseOwner, Live, AdvanceBegin, Pop, AdvanceEnd,
                CancelPopped, InvokeEnd, vars, ghosts
  <2>2. QED
    BY <2>1
<1>3. QED
  BY <1>1, <1>2

-----------------------------------------------------------------------------
(* Arithmetic: a set of naturals has a least element; a set without one of *)
(* its elements is smaller; a product of naturals, one step further.       *)
LEMMA LeastNatural ==
    ASSUME NEW S \in SUBSET Nat, S # {}
    PROVE  \E m \in S : \A k \in S : m <= k
<1> DEFINE R == OpToRel(<, Nat)
<1>1. IsWellFoundedOn(R, Nat)
  BY NatLessThanWellFounded
<1>2. \A x, y \in Nat : x < y => <<x, y>> \in R
  BY DEF OpToRel
<1> HIDE DEF R
<1>3. \E x \in S : \A y \in S : ~ (<<y, x>> \in R)
  BY <1>1, WFMin
<1>4. PICK m \in S : \A y \in S : ~ (<<y, m>> \in R)
  BY <1>3
<1>5. ASSUME NEW k \in S PROVE m <= k
  <2>1. m \in Nat /\ k \in Nat
    OBVIOUS
  <2>2. ~(k < m)
    BY <1>2, <1>4, <2>1
  <2>3. QED
    BY <2>1, <2>2
<1>6. QED
  BY <1>5

LEMMA OthersAreFewer ==
    ASSUME NEW S \in SUBSET Ids, NEW t \in S, NEW A \in SUBSET (S \ {t})
    PROVE  IsFiniteSet(A) /\ Cardinality(A) \in Nat /\ Cardinality(A) < MaxTasks
<1>1. IsFiniteSet(Ids) /\ Cardinality(Ids) = MaxTasks
  BY SchedulerAssumption, FS_Interval DEF Ids
<1>2. t \in Ids /\ A \in SUBSET (Ids \ {t}) /\ MaxTasks \in Nat
  BY SchedulerAssumption
<1>3. IsFiniteSet(Ids \ {t}) /\ Cardinality(Ids \ {t}) = MaxTasks - 1
  BY <1>1, <1>2, FS_RemoveElement
<1>4. IsFiniteSet(A) /\ Cardinality(A) <= MaxTasks - 1
  BY <1>2, <1>3, FS_Subset
<1>5. Cardinality(A) \in Nat
  BY <1>4, FS_CardinalityType
<1>6. QED
  BY <1>2, <1>4, <1>5

LEMMA OneMoreRound ==
    ASSUME NEW a \in Nat, NEW b \in Nat
    PROVE  a * b \in Nat /\ (a + 1) * b = a * b + b
  OBVIOUS

(* The heap has an earliest task; it is before every other one.            *)
LEMMA EarliestExists ==
    ASSUME RegistryInv, queue # {}
    PROVE  \E t \in queue : Earliest(t)
<1>1. /\ queue \subseteq Nat
      /\ \A t \in queue : tasks[t].due \in Nat
  BY TaskType DEF RegistryInv, TypeOK, Ids
<1> DEFINE Dues == {tasks[t].due : t \in queue}
<1>2. PICK d \in Dues : \A e \in Dues : d <= e
  <2>1. Dues \in SUBSET Nat /\ Dues # {}
    BY <1>1
  <2> HIDE DEF Dues
  <2>2. QED
    BY <2>1, LeastNatural
<1> DEFINE First == {t \in queue : tasks[t].due = d}
<1>3. PICK t \in First : \A u \in First : t <= u
  <2>1. First \in SUBSET Nat /\ First # {}
    BY <1>1, <1>2
  <2> HIDE DEF First
  <2>2. QED
    BY <2>1, LeastNatural
<1>4. ASSUME NEW u \in queue \ {t} PROVE Before(t, u)
  <2>1. tasks[t].due = d /\ d <= tasks[u].due /\ t \in Nat /\ u \in Nat /\ t # u
    BY <1>1, <1>2, <1>3
  <2>2. d \in Nat /\ tasks[u].due \in Nat
    BY <1>1, <2>1
  <2>3. CASE tasks[u].due = d
    <3>1. t <= u
      BY <1>3, <2>3
    <3>2. QED
      BY <2>1, <2>3, <3>1 DEF Before
  <2>4. CASE tasks[u].due # d
    BY <2>1, <2>2, <2>4 DEF Before
  <2>5. QED
    BY <2>3, <2>4
<1>5. QED
  BY <1>3, <1>4 DEF Earliest

(* What is ahead of a due task only shrinks.                               *)
LEMMA AheadType ==
    ASSUME RegistryInv, NEW t \in queue
    PROVE  /\ t \notin AheadOf(t)
           /\ IsFiniteSet(AheadOf(t))
           /\ Cardinality(AheadOf(t)) \in Nat
           /\ Cardinality(AheadOf(t)) < MaxTasks
<1>1. queue \in SUBSET Ids /\ t \in Nat /\ tasks[t].due \in Nat
  BY TaskType DEF RegistryInv, TypeOK, Ids
<1>2. t \notin AheadOf(t)
  BY <1>1 DEF AheadOf, Before
<1>3. AheadOf(t) \in SUBSET (queue \ {t})
  BY <1>2 DEF AheadOf
<1>4. QED
  BY <1>1, <1>2, <1>3, OthersAreFewer

LEMMA ServedType ==
    ASSUME RegistryInv, NEW t \in queue, Due(t)
    PROVE  (now - tasks[t].due) * Limit \in Nat /\ executed \in Nat /\ InHand \in {0, 1}
<1>1. /\ now \in Nat /\ tasks[t].due \in Nat /\ tasks[t].due <= now
      /\ Limit \in Nat /\ executed \in Nat
  BY TaskType, SchedulerAssumption DEF RegistryInv, TypeOK, Due
<1>2. now - tasks[t].due \in Nat
  BY <1>1
<1>3. QED
  BY <1>1, <1>2, OneMoreRound DEF InHand

LEMMA InitQueue == Init => QueueInv
  BY DEF Init, QueueInv

(* While the clock and the tick owner stand still, tasks leave the heap or *)
(* enter it with a later deadline.                                         *)
LEMMA QueueShrinks ==
    ASSUME RegistryInv, QueueInv,
           UNCHANGED <<now, tasks, tick, executed>>, queue' \subseteq queue
    PROVE  QueueInv'
<1>1. SUFFICES ASSUME NEW t \in queue', Due(t)'
               PROVE  /\ Cardinality(AheadOf(t)') + Served(t)' < MaxTasks
                      /\ tick' = "idle" => executed' = Limit
  BY DEF QueueInv
<1>2. t \in queue /\ Due(t) /\ Served(t)' = Served(t)
  <2>1. now' = now /\ tasks' = tasks /\ tick' = tick /\ executed' = executed
    OBVIOUS
  <2>2. InHand' = InHand
    BY <2>1 DEF InHand
  <2>3. Served(t)' = Served(t)
    BY <2>1, <2>2 DEF Served
  <2>4. t \in queue /\ Due(t)
    BY <1>1, <2>1 DEF Due
  <2>5. QED
    BY <2>3, <2>4
<1>3. AheadOf(t)' \subseteq AheadOf(t)
  BY DEF AheadOf, Before
<1>4. Cardinality(AheadOf(t)') <= Cardinality(AheadOf(t)) /\ Cardinality(AheadOf(t)') \in Nat
  BY <1>2, <1>3, AheadType, FS_Subset, FS_CardinalityType
<1>5. Cardinality(AheadOf(t)) + Served(t) < MaxTasks /\ (tick = "idle" => executed = Limit)
  BY <1>2 DEF QueueInv
<1>6. Served(t) \in Nat /\ Cardinality(AheadOf(t)) \in Nat /\ MaxTasks \in Nat
  BY <1>2, ServedType, AheadType, SchedulerAssumption DEF Served
<1>7. QED
  BY <1>2, <1>4, <1>5, <1>6

LEMMA QueueGrows ==
    ASSUME RegistryInv, QueueInv,
           NEW new, new \notin queue,
           queue' = queue \cup {new},
           \A u \in queue : tasks'[u] = tasks[u],
           tasks'[new].due \in Nat, tasks'[new].due > now, now' = now
    PROVE  \A t \in queue' : Due(t)' => t \in queue /\ Due(t) /\ AheadOf(t)' = AheadOf(t)
<1>1. SUFFICES ASSUME NEW t \in queue', Due(t)'
               PROVE  t \in queue /\ Due(t) /\ AheadOf(t)' = AheadOf(t)
  OBVIOUS
<1>2. now \in Nat /\ \A u \in queue : tasks[u].due \in Nat
  BY TaskType, SchedulerAssumption DEF RegistryInv, TypeOK
<1>3. t \in queue /\ Due(t)
  <2>1. tasks'[t].due <= now
    BY <1>1 DEF Due
  <2>2. t # new
    BY <1>2, <2>1
  <2>3. QED
    BY <1>1, <2>1, <2>2 DEF Due
<1>4. tasks'[t].due = tasks[t].due /\ tasks[t].due <= now
  BY <1>3 DEF Due
<1>5. \A u \in queue : Before(u, t)' <=> Before(u, t)
  BY <1>3 DEF Before
<1>6. ~Before(new, t)'
  BY <1>2, <1>3, <1>4 DEF Before
<1>7. AheadOf(t)' = AheadOf(t)
  BY <1>5, <1>6 DEF AheadOf
<1>8. QED
  BY <1>3, <1>7

LEMMA ScheduleQueue ==
    ASSUME RegistryInv, QueueInv, NEW o \in Owners, NEW delay \in Periods,
           NEW interval \in Periods \cup {0}, Schedule(o, delay, interval)
    PROVE  QueueInv'
<1>1. /\ nextID \notin queue
      /\ queue' = queue \cup {nextID}
      /\ \A u \in queue : tasks'[u] = tasks[u]
      /\ tasks'[nextID] = [owner |-> o, due |-> now + delay, interval |-> interval]
      /\ UNCHANGED <<now, tick, executed>>
  BY RegisteredTasks DEF RegistryInv, TypeOK
<1>2. tasks'[nextID].due \in Nat /\ tasks'[nextID].due > now
  <2>1. now \in Nat /\ delay \in Nat \ {0}
    BY SchedulerAssumption DEF RegistryInv, TypeOK
  <2>2. QED
    BY <1>1, <2>1
<1>3. \A t \in queue' : Due(t)' => t \in queue /\ Due(t) /\ AheadOf(t)' = AheadOf(t)
  BY <1>1, <1>2, QueueGrows
<1>4. \A t \in queue : Served(t)' = Served(t)
  BY <1>1 DEF Served, InHand
<1>5. QED
  BY <1>1, <1>3, <1>4 DEF QueueInv

LEMMA BeginQueue == ASSUME RegistryInv, QueueInv, AdvanceBegin PROVE QueueInv'
<1>1. /\ tick = "idle" /\ tick' = "loop"
      /\ now' = now + 1 /\ executed' = 0
      /\ UNCHANGED <<tasks, queue>>
  BY DEF AdvanceBegin, registry
<1>2. SUFFICES ASSUME NEW t \in queue, Due(t)'
               PROVE  Cardinality(AheadOf(t)) + Served(t)' < MaxTasks
  <2>1. \A t \in queue : AheadOf(t)' = AheadOf(t)
    BY <1>1 DEF AheadOf, Before
  <2>2. QED
    BY <1>1, <2>1 DEF QueueInv
<1>3. /\ now \in Nat /\ tasks[t].due \in Nat /\ Limit \in Nat /\ MaxTasks \in Nat
      /\ Cardinality(AheadOf(t)) \in Nat /\ Cardinality(AheadOf(t)) < MaxTasks
  BY TaskType, AheadType, SchedulerAssumption DEF RegistryInv, TypeOK
<1>4. tasks[t].due <= now + 1
  BY <1>1, <1>2 DEF Due
<1>5. Served(t)' = ((now + 1) - tasks[t].due) * Limit
  <2>1. InHand' = 0
    BY <1>1 DEF InHand
  <2>2. Served(t)' = ((now + 1) - tasks[t].due) * Limit + 0 + 0
    <3>1. Served(t)' = (now' - tasks'[t].due) * Limit + executed' + InHand'
      BY DEF Served
    <3>2. now' - tasks'[t].due = (now + 1) - tasks[t].due
      BY <1>1
    <3>3. executed' = 0
      BY <1>1
    <3>4. QED
      BY <2>1, <3>1, <3>2, <3>3
  <2>3. (now + 1) - tasks[t].due \in Nat
    BY <1>3, <1>4
  <2>4. QED
    BY <1>3, <2>2, <2>3, OneMoreRound
<1>6. CASE tasks[t].due = now + 1
  <2>1. ((now + 1) - tasks[t].due) * Limit = 0
    BY <1>3, <1>6
  <2>2. QED
    BY <1>3, <1>5, <2>1
<1>7. CASE tasks[t].due <= now
  <2>1. Due(t) /\ executed = Limit /\ Cardinality(AheadOf(t)) + Served(t) < MaxTasks
    BY <1>1, <1>7 DEF Due, QueueInv
  <2>2. now - tasks[t].due \in Nat /\ (now + 1) - tasks[t].due = (now - tasks[t].due) + 1
    BY <1>3, <1>7
  <2>3. Served(t)' = (now - tasks[t].due) * Limit + Limit
    BY <1>3, <1>5, <2>2, OneMoreRound
  <2>4. (now - tasks[t].due) * Limit \in Nat
    BY <1>3, <2>2, OneMoreRound
  <2>5. Served(t) = (now - tasks[t].due) * Limit + Limit
    BY <1>1, <1>3, <2>1, <2>4 DEF Served, InHand
  <2>6. QED
    BY <2>1, <2>3, <2>5
<1>8. QED
  BY <1>3, <1>4, <1>6, <1>7

LEMMA PopQueue == ASSUME RegistryInv, QueueInv, NEW p \in queue, Pop(p) PROVE QueueInv'
<1>1. /\ tick = "loop" /\ tick' = "check"
      /\ queue' = queue \ {p}
      /\ Earliest(p)
      /\ UNCHANGED <<now, tasks, executed>>
  BY DEF Pop
<1>2. SUFFICES ASSUME NEW t \in queue', Due(t)'
               PROVE  Cardinality(AheadOf(t)') + Served(t)' < MaxTasks
  BY <1>1 DEF QueueInv
<1>3. t \in queue /\ t # p /\ Due(t)
  BY <1>1, <1>2 DEF Due
<1>4. p \in AheadOf(t) /\ AheadOf(t)' = AheadOf(t) \ {p}
  BY <1>1, <1>3 DEF AheadOf, Before, Earliest
<1>5. Cardinality(AheadOf(t)') = Cardinality(AheadOf(t)) - 1
  BY <1>3, <1>4, AheadType, FS_RemoveElement
<1>6. InHand = 0 /\ InHand' = 1
  BY <1>1 DEF InHand
<1>7. Cardinality(AheadOf(t)) + Served(t) < MaxTasks
  BY <1>3 DEF QueueInv
<1> DEFINE Rounds == (now - tasks[t].due) * Limit
<1>8. Served(t) = Rounds + executed + InHand /\ Served(t)' = Rounds + executed + InHand'
  BY <1>1 DEF Served
<1>9. Rounds \in Nat /\ executed \in Nat /\ Cardinality(AheadOf(t)) \in Nat /\ MaxTasks \in Nat
  BY <1>3, ServedType, AheadType, SchedulerAssumption
<1> HIDE DEF Rounds
<1>10. QED
  BY <1>5, <1>6, <1>7, <1>8, <1>9

LEMMA EndQueue == ASSUME RegistryInv, QueueInv, AdvanceEnd PROVE QueueInv'
<1>1. /\ tick = "loop" /\ tick' = "idle"
      /\ executed = Limit \/ \A u \in queue : Earliest(u) => ~Due(u)
      /\ UNCHANGED <<now, tasks, queue, executed>>
  BY DEF AdvanceEnd, registry
<1>2. SUFFICES ASSUME NEW t \in queue, Due(t)
               PROVE  executed = Limit
  <2>1. /\ InHand' = InHand
        /\ \A t \in queue : (Due(t)' <=> Due(t)) /\ AheadOf(t)' = AheadOf(t)
    BY <1>1 DEF InHand, Due, AheadOf, Before
  <2>2. \A t \in queue : Served(t)' = Served(t)
    BY <1>1, <2>1 DEF Served
  <2>3. QED
    BY <1>1, <2>1, <2>2 DEF QueueInv
<1>3. PICK u \in queue : Earliest(u)
  BY EarliestExists
<1>4. Due(u)
  <2>1. /\ now \in Nat
        /\ tasks[t].due \in Nat /\ tasks[u].due \in Nat
    BY TaskType, SchedulerAssumption DEF RegistryInv, TypeOK
  <2>2. u = t \/ tasks[u].due <= tasks[t].due
    BY <1>3, <2>1 DEF Earliest, Before
  <2>3. QED
    BY <1>2, <2>1, <2>2 DEF Due
<1>5. QED
  BY <1>1, <1>3, <1>4

LEMMA HandQueue == ASSUME RegistryInv, QueueInv, CheckOwner \/ CancelPopped PROVE QueueInv'
<1>1. /\ UNCHANGED <<now, tasks, queue, executed>>
      /\ tick' # "idle"
      /\ InHand' \in {0, InHand}
  BY DEF CheckOwner, CancelPopped, registry, InHand
<1>2. SUFFICES ASSUME NEW t \in queue, Due(t)
               PROVE  Cardinality(AheadOf(t)) + Served(t)' < MaxTasks
  <2>1. \A t \in queue : (Due(t)' <=> Due(t)) /\ AheadOf(t)' = AheadOf(t)
    BY <1>1 DEF Due, AheadOf, Before
  <2>2. QED
    BY <1>1, <2>1 DEF QueueInv
<1>3. Cardinality(AheadOf(t)) + Served(t) < MaxTasks
  BY <1>2 DEF QueueInv
<1> DEFINE Rounds == (now - tasks[t].due) * Limit
<1>4. Served(t) = Rounds + executed + InHand /\ Served(t)' = Rounds + executed + InHand'
  BY <1>1 DEF Served
<1>5. /\ Rounds \in Nat /\ executed \in Nat /\ InHand \in {0, 1}
      /\ Cardinality(AheadOf(t)) \in Nat /\ MaxTasks \in Nat
  BY <1>2, ServedType, AheadType, SchedulerAssumption
<1> HIDE DEF Rounds
<1>6. QED
  BY <1>1, <1>3, <1>4, <1>5

LEMMA InvokeQueue == ASSUME RegistryInv, QueueInv, InvokeEnd PROVE QueueInv'
<1>1. /\ tick = "invoke" /\ tick' = "loop"
      /\ executed' = executed + 1
      /\ UNCHANGED <<now, popped>>
  BY DEF InvokeEnd
<1>2. \A t \in queue' : Due(t)' => /\ t \in queue /\ Due(t)
                                  /\ AheadOf(t)' = AheadOf(t)
                                  /\ tasks'[t] = tasks[t]
  <2>1. CASE UNCHANGED <<tasks, queue>>
    BY <1>1, <2>1 DEF Due, AheadOf, Before
  <2>2. CASE Rearmed /\ popped \in DOMAIN tasks \ queue /\ ~OneShot(popped)
    <3>1. /\ \A u \in DOMAIN tasks : u # popped => tasks'[u] = tasks[u]
          /\ tasks'[popped].due = now + tasks[popped].interval
          /\ queue' = queue \cup {popped}
          /\ queue \subseteq DOMAIN tasks
      BY <2>2, RearmedTasks DEF Rearmed, RegistryInv, TypeOK
    <3>2. \A u \in queue : tasks'[u] = tasks[u]
      BY <2>2, <3>1
    <3>3. tasks'[popped].due \in Nat /\ tasks'[popped].due > now
      <4>1. tasks[popped] \in Task /\ now \in Nat
        BY <2>2, SchedulerAssumption DEF RegistryInv, TypeOK
      <4>2. tasks[popped].interval \in Nat /\ tasks[popped].interval # 0
        BY <2>2, <4>1, TaskType DEF OneShot
      <4>3. QED
        BY <3>1, <4>1, <4>2
    <3>4. \A t \in queue' : Due(t)' => t \in queue /\ Due(t) /\ AheadOf(t)' = AheadOf(t)
      BY <1>1, <2>2, <3>1, <3>2, <3>3, QueueGrows
    <3>5. QED
      BY <3>2, <3>4
  <2>3. QED
    BY <2>1, <2>2, RescheduleCases DEF InvokeEnd, registry, Dropped, RegistryInv, HeldInv
<1>3. SUFFICES ASSUME NEW t \in queue, Due(t), tasks'[t] = tasks[t]
               PROVE  Cardinality(AheadOf(t)) + Served(t)' < MaxTasks
  BY <1>1, <1>2 DEF QueueInv
<1>4. Cardinality(AheadOf(t)) + Served(t) < MaxTasks
  BY <1>3 DEF QueueInv
<1> DEFINE Rounds == (now - tasks[t].due) * Limit
<1>5. InHand = 1 /\ InHand' = 0
  BY <1>1 DEF InHand
<1>6. Served(t) = Rounds + executed + 1 /\ Served(t)' = Rounds + (executed + 1) + 0
  BY <1>1, <1>3, <1>5 DEF Served
<1>7. Rounds \in Nat /\ executed \in Nat
  BY <1>3, ServedType
<1> HIDE DEF Rounds
<1>8. Served(t)' = Served(t)
  BY <1>6, <1>7
<1>9. QED
  BY <1>4, <1>8

LEMMA NextQueue == RegistryInv /\ QueueInv /\ [Next]_vars => QueueInv'
<1> SUFFICES ASSUME RegistryInv, QueueInv, [Next]_vars PROVE QueueInv'
  OBVIOUS
<1>1. CASE \/ \E t \in active : Cancel(t)
           \/ \E o \in Owners : OpenOwner(o) \/ EnableOwner(o) \/ DisableOwner(o) \/ CloseOwner(o)
           \/ UNCHANGED vars
  <2>1. UNCHANGED tasks /\ queue' \subseteq queue
    BY <1>1, TasksKept
  <2>2. UNCHANGED <<now, tick, executed>>
    BY <1>1 DEF Cancel, OpenOwner, EnableOwner, DisableOwner, CloseOwner, Live, advancing, vars
  <2>3. QED
    BY <2>1, <2>2, QueueShrinks
<1>2. QED
  BY <1>1, NextCases, ScheduleQueue, BeginQueue, PopQueue, EndQueue, HandQueue, InvokeQueue

\* All of it together.
SchedulerInv == RegistryInv /\ ClosedOwnersHaveNoTask /\ RunInv /\ QueueInv

LEMMA SchedulerInvariant == Spec => []SchedulerInv
<1>1. Init => ClosedOwnersHaveNoTask /\ RunInv
  BY DEF Init, ClosedOwnersHaveNoTask, RunInv
<1>2. Init => SchedulerInv
  BY <1>1, InitRegistry, InitQueue DEF SchedulerInv
<1>3. SchedulerInv /\ [Next]_vars => SchedulerInv'
  BY NextRegistry, NextClosed, NextRun, NextQueue DEF SchedulerInv
<1>4. QED
  BY <1>2, <1>3, PTL DEF Spec

-----------------------------------------------------------------------------
\* scheduler.go: every field keeps its type for any number of tasks; no
\* deadline passes the end of the clock and no pending counter goes below zero.
THEOREM SchedulerTypeCorrect == Spec => []TypeOK
<1>1. SchedulerInv => TypeOK
  BY DEF SchedulerInv, RegistryInv
<1>2. QED
  BY <1>1, SchedulerInvariant, PTL

\* scheduler.go: heap, active flags, byOwner and pending describe the same tasks
\* after every critical section, whoever cancels, closes or pops in between.
THEOREM RegistrationsStayExact == Spec => []RegistrationsAgree
<1>1. SchedulerInv => RegistrationsAgree
  BY DEF SchedulerInv, RegistryInv
<1>2. QED
  BY <1>1, SchedulerInvariant, PTL

\* docs/PLUGIN_API_LOG.md:96, scheduler.go closeOwner: a plugin that is disabled
\* leaves no task behind, and none is put back for it afterwards.
THEOREM NoTaskOfAClosedOwner == Spec => []ClosedOwnersHaveNoTask
<1>1. SchedulerInv => ClosedOwnersHaveNoTask
  BY DEF SchedulerInv
<1>2. QED
  BY <1>1, SchedulerInvariant, PTL

\* api/scheduler/scheduler.go:31-32, scheduler.go advance: two runs of a task
\* are at least its interval apart, and a one-shot runs once.
THEOREM RunsKeepTheirDelay == Spec => FixedDelay
<1>1. SchedulerInv /\ [Next]_vars =>
          [\A t \in Ids : lastRun'[t] # lastRun[t] /\ lastRun[t] # 0 =>
              tasks[t].interval > 0 /\ lastRun'[t] >= lastRun[t] + tasks[t].interval]_vars
  BY RunsAreDelayed DEF SchedulerInv
<1>2. QED
  BY <1>1, SchedulerInvariant, PTL DEF Spec, FixedDelay

\* scheduler.go advance, maxPluginTasksPerTick: however many tasks are due, and
\* although repeating ones come back, a task waits no longer than it takes to run
\* every other task once, at Limit of them per tick.
THEOREM NoTaskStarves == Spec => []BoundedLateness
<1>1. SchedulerInv => BoundedLateness
  <2>1. SUFFICES ASSUME SchedulerInv, tick = "idle", NEW t \in queue
                 PROVE  (now - tasks[t].due + 1) * Limit < MaxTasks
    BY DEF BoundedLateness
  <2>2. RegistryInv /\ QueueInv
    BY <2>1 DEF SchedulerInv
  <2>3. /\ now \in Nat /\ tasks[t].due \in Nat
        /\ Limit \in Nat \ {0} /\ MaxTasks \in Nat
        /\ Cardinality(AheadOf(t)) \in Nat /\ Cardinality(AheadOf(t)) < MaxTasks
    BY <2>2, TaskType, AheadType, SchedulerAssumption DEF RegistryInv, TypeOK
  <2>4. CASE Due(t)
    <3>1. now - tasks[t].due \in Nat
      BY <2>3, <2>4 DEF Due
    <3>2. (now - tasks[t].due) * Limit + Limit + Cardinality(AheadOf(t)) < MaxTasks
      <4>1. (now - tasks[t].due) * Limit \in Nat
        BY <2>3, <3>1, OneMoreRound
      <4>2. executed = Limit /\ InHand = 0 /\ Cardinality(AheadOf(t)) + Served(t) < MaxTasks
        BY <2>1, <2>2, <2>4 DEF QueueInv, InHand
      <4>3. Served(t) = (now - tasks[t].due) * Limit + Limit + 0
        BY <4>2 DEF Served
      <4>4. QED
        BY <2>3, <4>1, <4>2, <4>3
    <3>3. (now - tasks[t].due + 1) * Limit = (now - tasks[t].due) * Limit + Limit
      BY <2>3, <3>1, OneMoreRound
    <3>4. (now - tasks[t].due) * Limit \in Nat
      BY <2>3, <3>1, OneMoreRound
    <3>5. QED
      BY <2>3, <3>2, <3>3, <3>4
  <2>5. CASE ~Due(t)
    <3>1. /\ now - tasks[t].due + 1 \in Int
          /\ now - tasks[t].due + 1 <= 0
      BY <2>3, <2>5 DEF Due
    <3>2. \A a \in Int, b \in Nat : a <= 0 => a * b <= 0
      OBVIOUS
    <3>3. (now - tasks[t].due + 1) * Limit \in Int /\ (now - tasks[t].due + 1) * Limit <= 0
      BY <2>3, <3>1, <3>2
    <3>4. QED
      BY <2>3, <3>3
  <2>6. QED
    BY <2>4, <2>5
<1>2. QED
  BY <1>1, SchedulerInvariant, PTL
=============================================================================
