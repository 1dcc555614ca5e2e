---------------------------- MODULE TaskScheduler ----------------------------
(***************************************************************************)
(* The tick-based task scheduler of the plugin runtime:                    *)
(* internal/pluginruntime/scheduler.go.                                    *)
(*                                                                         *)
(* Three kinds of goroutine meet in it: the tick owner in advance (tick,   *)
(* popped, executed), any goroutine of a plugin that schedules or cancels, *)
(* handlers included, and the plugin manager that opens and closes owners. *)
(* A critical section of scheduler.mu is one action; so is each atomic     *)
(* access outside it.  container/heap is taken for what it promises: the   *)
(* queue is a set whose earliest task is popped.                           *)
(***************************************************************************)
EXTENDS Integers, FiniteSets

CONSTANTS
    Owners,              \* plugin entries
    MaxTasks,            \* registrations made (bounds the run)
    Periods,             \* delays and intervals plugins ask for
    Limit,               \* maxPluginTasksPerTick
    MaxUint              \* the largest uint64, scaled down; ticks stop there

ASSUME SchedulerAssumption ==
    /\ MaxTasks \in Nat
    /\ Periods \subseteq Nat \ {0}
    /\ Limit \in Nat \ {0}
    /\ MaxUint \in Nat

VARIABLES
    now,                 \* scheduler.now
    tasks,               \* the task of each id handed out: owner, due, interval
    queue,               \* ids in the heap (task.index >= 0)
    active,              \* ids whose active flag is set
    byOwner,             \* scheduler.byOwner
    pending,             \* schedulerOwnerState.pending
    life,                \* where the manager stands with each owner
    tick,                \* program counter of advance
    popped,              \* the task taken from the heap
    executed,            \* handlers invoked in this tick
    lastRun,             \* tick of the latest invocation, 0 before the first
    cancelled            \* ids for which Cancel has returned true while no
                         \* invocation of them was executing

registry  == <<tasks, queue, active, byOwner, pending>>
advancing == <<tick, popped, executed>>
ghosts    == <<lastRun, cancelled>>
vars      == <<now, registry, life, advancing, ghosts>>

Ids      == 1 .. MaxTasks
Task     == [owner : Owners, due : 0 .. MaxUint, interval : Periods \cup {0}]
Life     == {"closed", "enabling", "enabled", "disabling"}
TickPc   == {"idle", "loop", "check", "cancel", "invoke"}

nextID     == Cardinality(DOMAIN tasks) + 1
Open(o)    == life[o] # "closed"
Enabled(o) == life[o] = "enabled"
OneShot(t) == tasks[t].interval = 0

Init ==
    /\ now = 0
    /\ tasks = [t \in {} |-> 0]
    /\ queue = {}
    /\ active = {}
    /\ byOwner = [o \in Owners |-> {}]
    /\ pending = [o \in Owners |-> 0]
    /\ life = [o \in Owners |-> "closed"]
    /\ tick = "idle"
    /\ popped = 0
    /\ executed = 0
    /\ lastRun = [t \in Ids |-> 0]
    /\ cancelled = {}

-----------------------------------------------------------------------------
(***************************************************************************)
(* Registration and cancellation.                                          *)
(***************************************************************************)
Enqueue(o, delay, interval) ==
    /\ nextID \in Ids
    /\ LET t == nextID
       IN  /\ tasks' = [id \in DOMAIN tasks \cup {t} |->
                           IF id = t THEN [owner |-> o, due |-> now + delay,
                                           interval |-> interval]
                           ELSE tasks[id]]
           /\ queue' = queue \cup {t}
           /\ active' = active \cup {t}
           /\ byOwner' = [byOwner EXCEPT ![o] = @ \cup {t}]
           /\ pending' = [pending EXCEPT ![o] = @ + 1]
    /\ UNCHANGED <<now, life, advancing, ghosts>>

\* Mutant: the owner's open flag is not looked at under the lock.
ScheduleWhenClosed(o, delay, interval) ==
    /\ MaxUint - now >= delay
    /\ Enqueue(o, delay, interval)

\* Mutant: a deadline past the last tick is not refused.
ScheduleTooLate(o, delay, interval) ==
    /\ Open(o)
    /\ Enqueue(o, delay, interval)

\* schedule: a closed owner and a deadline past the last tick are errors.
Schedule(o, delay, interval) ==
    /\ Open(o)
    /\ MaxUint - now >= delay
    /\ Enqueue(o, delay, interval)

AfterTicks(o) == \E delay \in Periods : Schedule(o, delay, 0)
EveryTicks(o) == \E interval \in Periods : Schedule(o, interval, interval)

\* active.CompareAndSwap(true, false) and removeRegistrationLocked.
Retire(t) ==
    /\ active' = active \ {t}
    /\ byOwner' = [byOwner EXCEPT ![tasks[t].owner] = @ \ {t}]
    /\ pending' = [pending EXCEPT ![tasks[t].owner] = @ - 1]

\* Mutant: a cancelled task stays in the heap.
CancelStaysQueued(t) ==
    /\ t \in active
    /\ Retire(t)
    /\ cancelled' = IF tick = "invoke" /\ popped = t THEN cancelled
                                                     ELSE cancelled \cup {t}
    /\ UNCHANGED <<now, tasks, queue, life, advancing, lastRun>>

\* Cancel by whoever holds the task; a second Cancel returns false.
Cancel(t) ==
    /\ t \in active
    /\ Retire(t)
    /\ queue' = queue \ {t}
    /\ cancelled' = IF tick = "invoke" /\ popped = t THEN cancelled
                                                     ELSE cancelled \cup {t}
    /\ UNCHANGED <<now, tasks, life, advancing, lastRun>>

-----------------------------------------------------------------------------
(***************************************************************************)
(* The manager: openOwner, Enable, and disableEntry, which clears enabled  *)
(* before it closes the owner.                                             *)
(***************************************************************************)
Live(o, from, to) ==
    /\ life[o] \in from
    /\ life' = [life EXCEPT ![o] = to]
    /\ UNCHANGED <<now, advancing, ghosts>>

OpenOwner(o)   == Live(o, {"closed"}, "enabling") /\ UNCHANGED registry
EnableOwner(o) == Live(o, {"enabling"}, "enabled") /\ UNCHANGED registry

\* enabled.Store(false), for a plugin that was enabled or failed to enable.
DisableOwner(o) ==
    Live(o, {"enabling", "enabled"}, "disabling") /\ UNCHANGED registry

CloseOwner(o) ==
    /\ Live(o, {"disabling"}, "closed")
    /\ active' = active \ byOwner[o]
    /\ queue' = queue \ byOwner[o]
    /\ byOwner' = [byOwner EXCEPT ![o] = {}]
    /\ pending' = [pending EXCEPT ![o] = @ - Cardinality(byOwner[o] \cap active)]
    /\ UNCHANGED tasks

-----------------------------------------------------------------------------
(***************************************************************************)
(* advance, run by the tick owner.                                         *)
(***************************************************************************)
AdvanceBegin ==
    /\ tick = "idle"
    /\ now < MaxUint
    /\ now' = now + 1
    /\ executed' = 0
    /\ tick' = "loop"
    /\ UNCHANGED <<registry, life, popped, ghosts>>

Before(t, u) == \/ tasks[t].due < tasks[u].due
                \/ tasks[t].due = tasks[u].due /\ t < u

\* Mutant: the oldest registration goes first, whatever its deadline.
EarliestById(t) == t \in queue /\ \A u \in queue \ {t} : t < u

Earliest(t) == t \in queue /\ \A u \in queue \ {t} : Before(t, u)

Due(t) == tasks[t].due <= now

Pop(t) ==
    /\ tick = "loop"
    /\ executed < Limit
    /\ Earliest(t)
    /\ Due(t)
    /\ queue' = queue \ {t}
    /\ IF OneShot(t) THEN Retire(t) ELSE UNCHANGED <<active, byOwner, pending>>
    /\ tick' = "check"
    /\ popped' = t
    /\ UNCHANGED <<now, tasks, life, executed, ghosts>>

AdvanceEnd ==
    /\ tick = "loop"
    /\ executed = Limit \/ \A t \in queue : Earliest(t) => ~Due(t)
    /\ tick' = "idle"
    /\ UNCHANGED <<now, registry, life, popped, executed, ghosts>>

\* owner.enabled is read outside the lock, and nothing else is.
CheckOwner ==
    /\ tick = "check"
    /\ IF Enabled(tasks[popped].owner)
       THEN /\ tick' = "invoke"
            /\ lastRun' = [lastRun EXCEPT ![popped] = now]
       ELSE /\ tick' = IF OneShot(popped) THEN "loop" ELSE "cancel"
            /\ UNCHANGED lastRun
    /\ UNCHANGED <<now, registry, life, popped, executed, cancelled>>

CancelPopped ==
    /\ tick = "cancel"
    /\ tick' = "loop"
    /\ IF popped \in active THEN Retire(popped)
                            ELSE UNCHANGED <<active, byOwner, pending>>
    /\ UNCHANGED <<now, tasks, queue, life, popped, executed, ghosts>>

\* Mutant: the next deadline is counted from the last one (a catch-up burst).
ReschedulesFromDue ==
    IF popped \in active /\ Enabled(tasks[popped].owner)
    THEN /\ tasks' = [tasks EXCEPT ![popped].due = @ + tasks[popped].interval]
         /\ queue' = queue \cup {popped}
         /\ UNCHANGED <<active, byOwner, pending>>
    ELSE /\ IF popped \in active THEN Retire(popped)
                                 ELSE UNCHANGED <<active, byOwner, pending>>
         /\ UNCHANGED <<tasks, queue>>

\* A repeating task goes back into the heap, interval ticks after this one,
\* unless it was cancelled, its owner is going away, or the clock would wrap.
Reschedule ==
    IF /\ popped \in active
       /\ Enabled(tasks[popped].owner)
       /\ MaxUint - now >= tasks[popped].interval
    THEN /\ tasks' = [tasks EXCEPT ![popped].due = now + tasks[popped].interval]
         /\ queue' = queue \cup {popped}
         /\ UNCHANGED <<active, byOwner, pending>>
    ELSE /\ IF popped \in active THEN Retire(popped)
                                 ELSE UNCHANGED <<active, byOwner, pending>>
         /\ UNCHANGED <<tasks, queue>>

\* The handler returns, with an error or a recovered panic or without.
InvokeEnd ==
    /\ tick = "invoke"
    /\ tick' = "loop"
    /\ executed' = executed + 1
    /\ IF OneShot(popped) THEN UNCHANGED registry ELSE Reschedule
    /\ UNCHANGED <<now, life, popped, ghosts>>

-----------------------------------------------------------------------------
Advance == \/ AdvanceBegin \/ (\E t \in queue : Pop(t)) \/ AdvanceEnd
           \/ CheckOwner \/ CancelPopped \/ InvokeEnd

Next ==
    \/ Advance
    \/ \E o \in Owners :
          \/ AfterTicks(o) \/ EveryTicks(o)
          \/ OpenOwner(o) \/ EnableOwner(o) \/ DisableOwner(o) \/ CloseOwner(o)
    \/ \E t \in active : Cancel(t)

Spec == Init /\ [][Next]_vars

-----------------------------------------------------------------------------
(***************************************************************************)
(* Properties.                                                             *)
(***************************************************************************)
\* Every variable keeps its type; in particular no deadline wraps around.
TypeOK ==
    /\ now \in 0 .. MaxUint
    /\ DOMAIN tasks \subseteq Ids /\ \A t \in DOMAIN tasks : tasks[t] \in Task
    /\ queue \subseteq DOMAIN tasks
    /\ active \subseteq DOMAIN tasks
    /\ byOwner \in [Owners -> SUBSET DOMAIN tasks]
    /\ pending \in [Owners -> Nat]
    /\ life \in [Owners -> Life]
    /\ tick \in TickPc
    /\ popped \in Ids \cup {0}
    /\ executed \in 0 .. Limit
    /\ lastRun \in [Ids -> 0 .. MaxUint]
    /\ cancelled \subseteq Ids

\* The task the tick owner holds outside the heap.
Held == IF tick \in {"check", "cancel", "invoke"} THEN {popped} ELSE {}

\* The heap, the active flags, the registrations of the owners and their
\* pending counters always describe the same set of tasks; only the task that
\* the tick owner holds is registered without being in the heap.
RegistrationsAgree ==
    /\ queue \subseteq active
    /\ active \ queue \subseteq Held
    /\ \A o \in Owners :
          /\ byOwner[o] = {t \in active : tasks[t].owner = o}
          /\ pending[o] = Cardinality(byOwner[o])

\* "Disable/rollback must leave no ... scheduled task belonging to that plugin"
\* (docs/PLUGIN_API_LOG.md:96), whatever the plugin's goroutines and the tick
\* owner do at the same time.
ClosedOwnersHaveNoTask ==
    \A t \in active : Open(tasks[t].owner)

\* Fixed delay (api/scheduler/scheduler.go:31-32): a repeating task runs again
\* interval ticks after the tick that ran it, or later; a one-shot task never
\* runs again.
FixedDelay ==
    [][\A t \in Ids : lastRun'[t] # lastRun[t] /\ lastRun[t] # 0 =>
          tasks[t].interval > 0 /\ lastRun'[t] >= lastRun[t] + tasks[t].interval]_vars

\* With more due tasks than Limit the rest wait, but none starves: each tick
\* since its deadline that left a task waiting has run Limit others, and no two
\* of these ticks the same one.
BoundedLateness ==
    tick = "idle" => \A t \in queue :
        (now - tasks[t].due + 1) * Limit < MaxTasks

\* "cancellation prevents future invocations" (api/scheduler/scheduler.go:20-22):
\* no invocation of a task starts once its Cancel has returned true.
CancelPreventsInvocation == tick = "invoke" => popped \notin cancelled
=============================================================================
