--------------------------- MODULE MailboxClients ---------------------------
(***************************************************************************)
(* The mailbox with its producers and its consumer, and what they rely on. *)
(* A producer posts numbered values; the ghosts accepted, lifecycle,       *)
(* gotOrdinary and gotCritical are the histories of what each lane took    *)
(* and gave back.  No value is posted twice.                               *)
(***************************************************************************)
EXTENDS Mailbox

CONSTANTS
    Producers,           \* goroutines that post
    MaxPosts             \* posts each of them makes (bounds the run)

ASSUME MaxPostsAssumption == MaxPosts \in Nat

VARIABLES
    posts,               \* posts[p]: posts made by p so far
    accepted,            \* every ordinary value TryPost has taken, in order
    lifecycle,           \* every value PostCritical has taken, in order
    gotOrdinary,         \* ordinary values TryPop has returned, in order
    gotCritical,         \* critical values TryPop has returned, in order
    overtaken            \* ordinary values returned while the critical lane
                         \* has been continuously non-empty

ghosts == <<posts, accepted, lifecycle, gotOrdinary, gotCritical, overtaken>>
vars == <<mailboxVars, ghosts>>

Value == [by : Producers, number : Nat]

Init ==
    /\ MailboxInit
    /\ posts = [p \in Producers |-> 0]
    /\ accepted = <<>>
    /\ lifecycle = <<>>
    /\ gotOrdinary = <<>>
    /\ gotCritical = <<>>
    /\ overtaken = 0

Stamp(p) == [by |-> p, number |-> posts[p]]

Counted(p) ==
    /\ posts[p] < MaxPosts
    /\ posts' = [posts EXCEPT ![p] = @ + 1]

Post(p) ==
    /\ Counted(p)
    /\ TryPost(Stamp(p))
    /\ accepted' = Append(accepted, Stamp(p))
    /\ UNCHANGED <<lifecycle, gotOrdinary, gotCritical, overtaken>>

Reject(p) ==
    /\ Counted(p)
    /\ Full
    /\ UNCHANGED <<mailboxVars, accepted, lifecycle, gotOrdinary, gotCritical, overtaken>>

PostLifecycle(p) ==
    /\ Counted(p)
    /\ PostCritical(Stamp(p))
    /\ lifecycle' = Append(lifecycle, Stamp(p))
    /\ UNCHANGED <<accepted, gotOrdinary, gotCritical, overtaken>>

TakeCritical ==
    \E v \in {critical[i] : i \in DOMAIN critical} :
        /\ PopCritical(v)
        /\ gotCritical' = Append(gotCritical, v)
        /\ overtaken' = IF critical' = <<>> THEN 0 ELSE overtaken
        /\ UNCHANGED <<posts, accepted, lifecycle, gotOrdinary>>

SkipCritical ==
    /\ PassCritical
    /\ UNCHANGED ghosts

TakeOrdinary ==
    \E v \in {values[i] : i \in DOMAIN values} :
        /\ PopOrdinary(v)
        /\ gotOrdinary' = Append(gotOrdinary, v)
        /\ overtaken' = IF critical = <<>> THEN 0 ELSE overtaken + 1
        /\ UNCHANGED <<posts, accepted, lifecycle, gotCritical>>

FindNothing ==
    /\ PopNothing
    /\ UNCHANGED ghosts

Consume == TakeCritical \/ SkipCritical \/ TakeOrdinary \/ FindNothing

Next ==
    \/ \E p \in Producers : Post(p) \/ Reject(p) \/ PostLifecycle(p)
    \/ Consume

Spec == Init /\ [][Next]_vars /\ WF_vars(Consume)

-----------------------------------------------------------------------------
\* Nothing is lost, duplicated or reordered within a lane: what TryPop has
\* returned followed by what is still queued is exactly what was accepted
\* (TryPost that returned true, PostCritical).
LanesFIFO ==
    /\ gotOrdinary \o values = accepted
    /\ gotCritical \o critical = lifecycle

\* Priority that the two-step TryPop really gives: while lifecycle work is
\* waiting, at most one ordinary value gets past it, the one whose TryPop had
\* already looked at the critical lane.
OvertakenOnce == overtaken <= 1

\* Every accepted value is eventually returned: a producer that was told true
\* is not forgotten, in either lane.
EverythingDelivered ==
    <>[](gotOrdinary = accepted /\ gotCritical = lifecycle)
=============================================================================
