---------------------------- MODULE PlayerSnapshot ----------------------------
(***************************************************************************)
(* playerSnapshotStore (player_state.go:52-110): the seqlock through which *)
(* console and plugin goroutines read the tick-owned state of a player.    *)
(*                                                                         *)
(* A published snapshot is represented by the number of its Store, so a    *)
(* field holds the number of the Store that wrote it last.  Go's atomics   *)
(* are sequentially consistent: each Load, Store and Add is one action.    *)
(* The sequence is a uint64 that no run can wrap; MaxStores bounds it.     *)
(***************************************************************************)
EXTENDS Integers

CONSTANTS
    Readers,             \* goroutines calling Load
    FieldCount,          \* the fields are stored, and loaded, in this order
    MaxStores            \* calls of Store (bounds the run)

ASSUME SnapshotAssumption == FieldCount \in Nat \ {0} /\ MaxStores \in Nat

VARIABLES
    sequence,            \* playerSnapshotStore.sequence
    memory,              \* gameMode, x, y, z, yaw, pitch, onGround
    stores,              \* the Store in progress, or the latest one
    writing,             \* the field it writes next, 0 when none is in progress
    pc,                  \* where each reader stands
    start,               \* the sequence it read first
    next,                \* the field it loads next
    copy,                \* what it has loaded
    floor                \* the latest complete Store when its Load was called

writerVars == <<sequence, memory, stores, writing>>
readerVars == <<pc, start, next, copy, floor>>
vars       == <<writerVars, readerVars>>

Fields    == 1 .. FieldCount
ReaderPc  == {"idle", "start", "fields", "returned"}
Completed == IF writing = 0 THEN stores ELSE stores - 1

\* NewPlayerSession leaves the zero snapshot in place; it counts as number 0.
Init ==
    /\ sequence = 0
    /\ memory = [f \in Fields |-> 0]
    /\ stores = 0
    /\ writing = 0
    /\ pc = [r \in Readers |-> "idle"]
    /\ start = [r \in Readers |-> 0]
    /\ next = [r \in Readers |-> 1]
    /\ copy = [r \in Readers |-> [f \in Fields |-> 0]]
    /\ floor = [r \in Readers |-> 0]

-----------------------------------------------------------------------------
(* Store, by the runtime owner alone.                                      *)

StoreBegin ==
    /\ writing = 0 /\ stores < MaxStores
    /\ sequence' = sequence + 1
    /\ stores' = stores + 1
    /\ writing' = 1
    /\ UNCHANGED <<memory, readerVars>>

StoreField ==
    /\ writing \in Fields
    /\ memory' = [memory EXCEPT ![writing] = stores]
    /\ writing' = writing + 1
    /\ UNCHANGED <<sequence, stores, readerVars>>

StoreEnd ==
    /\ writing = FieldCount + 1
    /\ sequence' = sequence + 1
    /\ writing' = 0
    /\ UNCHANGED <<memory, stores, readerVars>>

-----------------------------------------------------------------------------
(* Load, by any goroutine.                                                 *)

LoadCalled(r) ==
    /\ pc[r] \in {"idle", "returned"}
    /\ pc' = [pc EXCEPT ![r] = "start"]
    /\ floor' = [floor EXCEPT ![r] = Completed]
    /\ UNCHANGED <<writerVars, start, next, copy>>

\* An odd sequence: a Store is in progress, look again.
LoadStart(r) ==
    /\ pc[r] = "start"
    /\ sequence % 2 = 0
    /\ start' = [start EXCEPT ![r] = sequence]
    /\ next' = [next EXCEPT ![r] = 1]
    /\ pc' = [pc EXCEPT ![r] = "fields"]
    /\ UNCHANGED <<writerVars, copy, floor>>

LoadField(r) ==
    /\ pc[r] = "fields" /\ next[r] \in Fields
    /\ copy' = [copy EXCEPT ![r] = [copy[r] EXCEPT ![next[r]] = memory[next[r]]]]
    /\ next' = [next EXCEPT ![r] = next[r] + 1]
    /\ UNCHANGED <<writerVars, pc, start, floor>>

\* Mutant: the sequence is not read a second time.
LoadEndTrusts(r) ==
    /\ pc[r] = "fields" /\ next[r] = FieldCount + 1
    /\ pc' = [pc EXCEPT ![r] = "returned"]
    /\ UNCHANGED <<writerVars, start, next, copy, floor>>

LoadEnd(r) ==
    /\ pc[r] = "fields" /\ next[r] = FieldCount + 1
    /\ pc' = [pc EXCEPT ![r] = IF sequence = start[r] THEN "returned" ELSE "start"]
    /\ UNCHANGED <<writerVars, start, next, copy, floor>>

-----------------------------------------------------------------------------
Store   == StoreBegin \/ StoreField \/ StoreEnd
Load(r) == LoadCalled(r) \/ LoadStart(r) \/ LoadField(r) \/ LoadEnd(r)

Next == Store \/ \E r \in Readers : Load(r)

Spec == Init /\ [][Next]_vars

-----------------------------------------------------------------------------
TypeOK ==
    /\ sequence \in Nat
    /\ memory \in [Fields -> Nat]
    /\ stores \in Nat
    /\ writing \in 0 .. FieldCount + 1
    /\ pc \in [Readers -> ReaderPc]
    /\ start \in [Readers -> Nat]
    /\ next \in [Readers -> 1 .. FieldCount + 1]
    /\ copy \in [Readers -> [Fields -> Nat]]
    /\ floor \in [Readers -> Nat]

\* "readers that observe the same even sequence before and after their loads
\* have a coherent snapshot" (player_state.go:73-75): the fields Load returns
\* are those of one Store, and of none older than the last one that was
\* complete when Load was called.
CoherentAndFresh ==
    \A r \in Readers : pc[r] = "returned" =>
        \E v \in floor[r] .. stores : \A f \in Fields : copy[r][f] = v

\* What the writer guarantees: the sequence counts its Stores, and only the
\* fields not yet written hold the previous snapshot.
WriterInv ==
    /\ sequence = IF writing = 0 THEN 2 * stores ELSE 2 * stores - 1
    /\ writing # 0 => stores > 0
    /\ \A f \in Fields :
          memory[f] = IF writing = 0 \/ f < writing THEN stores ELSE stores - 1

\* What a reader relies on: its start is even and not in the future, and unless
\* a Store has begun since, what it has loaded so far belongs to it.
ReaderInv ==
    \A r \in Readers :
        /\ floor[r] <= Completed
        /\ pc[r] = "fields" =>
              \E v \in floor[r] .. Completed :
                 /\ start[r] = 2 * v
                 /\ sequence = start[r] =>
                       \A f \in Fields : f < next[r] => copy[r][f] = v

\* The inductive invariant: it also says that a Store never starts before the
\* previous one is over, the single-writer rule the seqlock rests on.
SeqlockInv == TypeOK /\ WriterInv /\ ReaderInv /\ CoherentAndFresh
=============================================================================
