------------------------------ MODULE Mailbox ------------------------------
(***************************************************************************)
(* The two-lane mailbox between the network goroutines (producers) and the *)
(* tick goroutine (the only consumer): internal/runtime/mailbox/queue.go.  *)
(*                                                                         *)
(* A TryPop is two atomic steps of the code, the locked popCritical and    *)
(* the receive on the channel; producers can run between them.  passed is  *)
(* the consumer's program counter: TRUE once popCritical has found the     *)
(* critical lane empty and the receive is still to come.                   *)
(***************************************************************************)
EXTENDS Naturals, Sequences

CONSTANT Capacity        \* capacity of the ordinary channel

ASSUME CapacityAssumption == Capacity \in Nat \ {0}

VARIABLES
    values,              \* the buffered channel, oldest value first
    critical,            \* the retained slice under criticalMu
    passed               \* the consumer is between popCritical and the receive

mailboxVars == <<values, critical, passed>>

MailboxInit ==
    /\ values = <<>>
    /\ critical = <<>>
    /\ passed = FALSE

(***************************************************************************)
(* Producers.  TryPost returns TRUE and enqueues, or returns FALSE (Full)  *)
(* and leaves the queue alone; it never waits.                             *)
(***************************************************************************)
\* Mutant: one more value than the channel holds.
FullOffByOne == Len(values) > Capacity

Full == Len(values) = Capacity

TryPost(v) ==
    /\ ~Full
    /\ values' = Append(values, v)
    /\ UNCHANGED <<critical, passed>>

\* Mutant: the newest critical value comes out first.
PostCriticalInFront(v) ==
    /\ critical' = <<v>> \o critical
    /\ UNCHANGED <<values, passed>>

PostCritical(v) ==
    /\ critical' = Append(critical, v)
    /\ UNCHANGED <<values, passed>>

(***************************************************************************)
(* The consumer.  PopCritical and PopOrdinary return a value, PassCritical *)
(* is the failing popCritical, PopNothing a TryPop that returns false.     *)
(***************************************************************************)
\* Mutant: the value is returned and stays in the slice.
PopCriticalKeeps(v) ==
    /\ ~passed
    /\ critical # <<>>
    /\ v = Head(critical)
    /\ UNCHANGED mailboxVars

PopCritical(v) ==
    /\ ~passed
    /\ critical # <<>>
    /\ v = Head(critical)
    /\ critical' = Tail(critical)
    /\ UNCHANGED <<values, passed>>

PassCritical ==
    /\ ~passed
    /\ critical = <<>>
    /\ passed' = TRUE
    /\ UNCHANGED <<values, critical>>

\* Mutant: the channel is drained before the critical lane is looked at again.
PopOrdinaryStays(v) ==
    /\ passed
    /\ values # <<>>
    /\ v = Head(values)
    /\ values' = Tail(values)
    /\ UNCHANGED <<critical, passed>>

PopOrdinary(v) ==
    /\ passed
    /\ values # <<>>
    /\ v = Head(values)
    /\ values' = Tail(values)
    /\ passed' = FALSE
    /\ UNCHANGED critical

\* Mutant: after an empty receive the critical lane is not looked at again.
PopNothingStays ==
    /\ passed
    /\ values = <<>>
    /\ UNCHANGED mailboxVars

PopNothing ==
    /\ passed
    /\ values = <<>>
    /\ passed' = FALSE
    /\ UNCHANGED <<values, critical>>
=============================================================================
