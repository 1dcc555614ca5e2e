----------------------------- MODULE PluginProofs -----------------------------
(***************************************************************************)
(* For any number of plugins, literals, subscriptions and commands: what   *)
(* EnableAll and DisableAll leave, in which order, and that nothing of a   *)
(* disabled plugin stays behind.                                           *)
(*                                                                         *)
(* LifecycleInv says how far the holder of lifecycleMu has come.  Its plan *)
(* is a suffix of the registration order while it enables, and a reversed  *)
(* prefix while it disables, whether in DisableAll or in a rollback; the   *)
(* entries are Live before the one it is working on and Settled after it.  *)
(***************************************************************************)
EXTENDS PluginLifecycle, TLAPS

\* The first n registered plugins.
Oldest(n) == {order[i] : i \in 1 .. n}

\* Those in S are enabled for everybody to see, and owed a Disable.
Live(S) ==
    \A p \in S : /\ state[p] = "enabled"
                 /\ p \in enabled /\ p \in accepting /\ p \in owed

\* Those outside S are not enabled, in any respect.
Settled(S) ==
    \A p \in Plugins \ S : /\ state[p] \in {"registered", "disabled", "failed"}
                           /\ p \notin enabled /\ p \notin accepting /\ p \notin owed

\* Everything up to the n-th is enabled, and nothing else.
UpTo(n) == Live(Oldest(n)) /\ Settled(Oldest(n))

\* Between the two, the n-th entry is being worked on.
At(n) == Live(Oldest(n - 1)) /\ Settled(Oldest(n)) /\ order[n] \notin enabled

IdleInv ==
    mgr = "idle" =>
        /\ plan = <<>>
        /\ target = "disabled"
        /\ IF active THEN UpTo(Len(order)) ELSE Settled({})

EnableInv ==
    mgr \in {"enable", "enableCall"} =>
        /\ target = "disabled"
        /\ Len(plan) <= Len(order)
        /\ \A i \in 1 .. Len(plan) : plan[i] = order[Len(order) - Len(plan) + i]
        /\ mgr = "enable" => UpTo(Len(order) - Len(plan))
        /\ mgr = "enableCall" =>
              /\ plan # <<>>
              /\ At(Len(order) - Len(plan) + 1)
              /\ state[Head(plan)] = "enabling"
              /\ Head(plan) \in accepting /\ Head(plan) \in owed

Disabling == {"close", "disableCall", "removeHandlers", "removeCommands"}

DisableInv ==
    mgr \in {"disable"} \cup Disabling =>
        /\ Len(plan) <= Len(order)
        /\ \A i \in 1 .. Len(plan) : plan[i] = order[Len(plan) + 1 - i]
        /\ mgr = "disable" /\ target = "disabled" => UpTo(Len(plan)) \/ Settled({})
        /\ mgr = "disable" /\ target = "failed" => plan # <<>> /\ state[Head(plan)] = "enabling"
        /\ mgr \in Disabling => plan # <<>>
        /\ mgr \in Disabling \/ target = "failed" => At(Len(plan))
        /\ mgr = "close" => state[Head(plan)] \in {"enabling", "enabled"}
        /\ mgr \in Disabling \ {"close"} =>
              state[Head(plan)] = "disabling" /\ Head(plan) \notin accepting
        /\ mgr \in {"removeHandlers", "removeCommands"} => Head(plan) \notin owed

LifecycleInv == IdleInv /\ EnableInv /\ DisableInv

\* Who may own a handler or a command: a plugin that may register them, or the
\* one whose are about to be removed.
Leaving(phases) == {p \in Plugins : mgr \in phases /\ p = Head(plan)}

LeftoverInv ==
    /\ \A h \in table :
          h.owner \in accepting \cup Leaving({"disableCall", "removeHandlers"})
    /\ \A c \in DOMAIN byID :
          byID[c].owner \in accepting
              \cup Leaving({"disableCall", "removeHandlers", "removeCommands"})

EnabledIsProven == enabled \subseteq proven

LeaseInv ==
    /\ source => host \in {"command", "invalidate"}
    /\ replying => host \in {"command", "invalidate"}

PluginInv ==
    /\ TypeOK
    /\ LifecycleInv
    /\ LeftoverInv
    /\ LiteralsAgree
    /\ EnabledIsProven /\ CalledOnlyIfProven
    /\ LeaseInv

-----------------------------------------------------------------------------
(***************************************************************************)
(* Sequences.                                                              *)
(***************************************************************************)
LEMMA ReverseOf ==
    ASSUME NEW S, NEW s \in Seq(S)
    PROVE  /\ Reverse(s) \in Seq(S)
           /\ Len(Reverse(s)) = Len(s)
           /\ \A i \in 1 .. Len(s) : Reverse(s)[i] = s[Len(s) + 1 - i]
<1>1. Reverse(s) = [i \in 1 .. Len(s) |-> s[(Len(s) - i) + 1]]
  BY DEF Reverse
<1>2. \A i \in 1 .. Len(s) : (Len(s) - i) + 1 \in 1 .. Len(s)
  OBVIOUS
<1>3. QED
  BY <1>1, <1>2

LEMMA TailOf ==
    ASSUME NEW S, NEW s \in Seq(S), s # <<>>
    PROVE  /\ Head(s) \in S /\ Head(s) = s[1]
           /\ Tail(s) \in Seq(S) /\ Len(Tail(s)) = Len(s) - 1
           /\ Len(s) \in Nat \ {0}
           /\ \A i \in 1 .. Len(s) - 1 : Tail(s)[i] = s[i + 1]
  OBVIOUS

(* The plan of a rollback is the reverse of a prefix of the order. *)
LEMMA RollbackPlan ==
    ASSUME NEW S, NEW s \in Seq(S), NEW k \in 0 .. Len(s) - 1
    PROVE  LET r == <<s[k + 1]>> \o Reverse(SubSeq(s, 1, k))
           IN  /\ r \in Seq(S)
               /\ Len(r) = k + 1
               /\ \A i \in 1 .. k + 1 : r[i] = s[k + 2 - i]
<1> DEFINE p == SubSeq(s, 1, k)
           q == Reverse(p)
<1>1. p \in Seq(S) /\ Len(p) = k /\ \A i \in 1 .. k : p[i] = s[i]
  OBVIOUS
<1> HIDE DEF p
<1>2. q \in Seq(S) /\ Len(q) = k /\ \A i \in 1 .. k : q[i] = p[k + 1 - i]
  BY <1>1, ReverseOf
<1>3. s[k + 1] \in S
  OBVIOUS
<1> HIDE DEF q
<1>4. /\ <<s[k + 1]>> \o q \in Seq(S)
      /\ Len(<<s[k + 1]>> \o q) = k + 1
      /\ (<<s[k + 1]>> \o q)[1] = s[k + 1]
      /\ \A i \in 2 .. k + 1 : (<<s[k + 1]>> \o q)[i] = q[i - 1]
  BY <1>2, <1>3
<1>5. \A i \in 1 .. k + 1 : (<<s[k + 1]>> \o q)[i] = s[k + 2 - i]
  BY <1>1, <1>2, <1>4
<1>6. QED
  BY <1>4, <1>5 DEF p, q

-----------------------------------------------------------------------------
(***************************************************************************)
(* The manager keeps its types, and LifecycleInv.                          *)
(***************************************************************************)
LEMMA InitLifecycle == Init => LifecycleTypeOK /\ LifecycleInv
<1> SUFFICES ASSUME Init PROVE LifecycleTypeOK /\ LifecycleInv
  OBVIOUS
<1>1. LifecycleTypeOK
  <2>1. order \in Seq(Plugins) /\ IsInjective(order) /\ plan \in Seq(Plugins)
    BY DEF Init, IsInjective
  <2>2. enables \in 0 .. MaxEnables
    BY PluginAssumption DEF Init
  <2>3. QED
    BY <2>1, <2>2 DEF Init, LifecycleTypeOK, State, MgrPc
<1>2. LifecycleInv
  BY DEF Init, LifecycleInv, IdleInv, EnableInv, DisableInv, Disabling, Settled
<1>3. QED
  BY <1>1, <1>2

LEMMA LifecycleFrame ==
    ASSUME LifecycleTypeOK, LifecycleInv, UNCHANGED lifecycleVars
    PROVE  LifecycleTypeOK' /\ LifecycleInv'
  BY DEF LifecycleTypeOK, LifecycleInv, lifecycleVars, IdleInv, EnableInv, DisableInv,
         Disabling, UpTo, At, Live, Settled, Oldest

LEMMA RegisterKeeps ==
    ASSUME LifecycleTypeOK, LifecycleInv, NEW p \in Plugins, Register(p)
    PROVE  LifecycleTypeOK' /\ LifecycleInv'
<1>1. p \notin {order[i] : i \in DOMAIN order}
  BY DEF Register, Registered, ToSet
<1>2. order' \in Seq(Plugins) /\ IsInjective(order')
  <2>1. /\ order \in Seq(Plugins) /\ order' = Append(order, p)
        /\ \A i, j \in DOMAIN order : order[i] = order[j] => i = j
    BY DEF LifecycleTypeOK, IsInjective, Register
  <2>2. QED
    BY <1>1, <2>1 DEF IsInjective
<1>3. LifecycleTypeOK'
  BY <1>2 DEF LifecycleTypeOK, Register
<1>4. LifecycleInv'
  BY DEF Register, LifecycleInv, IdleInv, EnableInv, DisableInv, Disabling, Settled
<1>5. QED
  BY <1>3, <1>4

LEMMA EnableAllKeeps ==
    ASSUME LifecycleTypeOK, LifecycleInv, EnableAll
    PROVE  LifecycleTypeOK' /\ LifecycleInv'
<1>1. LifecycleTypeOK'
  BY PluginAssumption DEF LifecycleTypeOK, EnableAll, MgrPc
<1>2. Settled({})
  BY DEF EnableAll, LifecycleInv, IdleInv
<1>3. EnableInv'
  <2>1. Len(order) \in Nat /\ plan' = order /\ order' = order
    BY DEF LifecycleTypeOK, EnableAll
  <2>2. UpTo(0)'
    BY <1>2 DEF EnableAll, UpTo, Live, Settled, Oldest
  <2>3. target = "disabled"
    BY DEF EnableAll, LifecycleInv, IdleInv
  <2>4. QED
    BY <2>1, <2>2, <2>3 DEF EnableAll, EnableInv
<1>4. IdleInv' /\ DisableInv'
  BY DEF EnableAll, IdleInv, DisableInv, Disabling
<1>5. QED
  BY <1>1, <1>3, <1>4 DEF LifecycleInv

(* The n-th entry and those before it. *)
LEMMA OldestStep ==
    ASSUME LifecycleTypeOK, NEW n \in 1 .. Len(order)
    PROVE  /\ Oldest(n) = Oldest(n - 1) \cup {order[n]}
           /\ order[n] \notin Oldest(n - 1)
           /\ order[n] \in Plugins /\ Oldest(n) \subseteq Plugins
<1>1. /\ order \in Seq(Plugins)
      /\ \A i, j \in 1 .. Len(order) : order[i] = order[j] => i = j
  BY DEF LifecycleTypeOK, IsInjective
<1>2. QED
  BY <1>1 DEF Oldest

(* Working on the n-th entry leaves those before and after it alone. *)
LEMMA OthersStay ==
    ASSUME LifecycleTypeOK, NEW n \in 1 .. Len(order), UNCHANGED order,
           Live(Oldest(n - 1)), Settled(Oldest(n)),
           \A p \in Plugins \ {order[n]} :
              /\ state'[p] = state[p]
              /\ p \in enabled' <=> p \in enabled
              /\ p \in accepting' <=> p \in accepting
              /\ p \in owed' <=> p \in owed
    PROVE  Live(Oldest(n - 1))' /\ Settled(Oldest(n))'
<1>1. Oldest(n - 1)' = Oldest(n - 1) /\ Oldest(n)' = Oldest(n)
  BY DEF Oldest
<1>2. \A p \in Oldest(n - 1) : p \in Plugins \ {order[n]}
  BY OldestStep
<1>3. \A p \in Plugins \ Oldest(n) : p \in Plugins \ {order[n]}
  BY OldestStep
<1>4. QED
  BY <1>1, <1>2, <1>3 DEF Live, Settled

LEMMA EnableNextKeeps ==
    ASSUME LifecycleTypeOK, LifecycleInv, EnableNext
    PROVE  LifecycleTypeOK' /\ LifecycleInv'
<1> DEFINE n == Len(order) - Len(plan) + 1
           p == Head(plan)
<1>1. /\ mgr = "enable" /\ mgr' = "enableCall" /\ plan # <<>>
      /\ UNCHANGED <<order, plan, target, active>>
      /\ enabled' = enabled \ {p} /\ accepting' = accepting \cup {p}
      /\ state' = [state EXCEPT ![p] = "enabling"]
      /\ owed' = owed \cup {p}
  BY DEF EnableNext
<1>2. p \in Plugins /\ p = plan[1] /\ Len(plan) \in Nat \ {0} /\ Len(order) \in Nat
  BY <1>1 DEF LifecycleTypeOK
<1>3. LifecycleTypeOK'
  BY <1>1, <1>2 DEF LifecycleTypeOK, EnableNext, State, MgrPc
<1>4. /\ target = "disabled" /\ Len(plan) <= Len(order)
      /\ \A i \in 1 .. Len(plan) : plan[i] = order[Len(order) - Len(plan) + i]
      /\ UpTo(n - 1)
  BY <1>1, <1>2 DEF LifecycleInv, EnableInv
<1>5. n \in 1 .. Len(order) /\ p = order[n]
  BY <1>2, <1>4
<1>6. At(n)'
  <2>1. Live(Oldest(n - 1)) /\ Settled(Oldest(n))
    BY <1>4, <1>5, OldestStep DEF UpTo, Settled
  <2>2. Live(Oldest(n - 1))' /\ Settled(Oldest(n))'
    BY <1>1, <1>2, <1>5, <2>1, OthersStay DEF LifecycleTypeOK
  <2>3. QED
    BY <1>1, <1>5, <2>2 DEF At
<1>7. state'[p] = "enabling"
  BY <1>1, <1>2 DEF LifecycleTypeOK
<1>8. EnableInv'
  BY <1>1, <1>2, <1>4, <1>6, <1>7 DEF EnableInv
<1>9. IdleInv' /\ DisableInv'
  BY <1>1 DEF IdleInv, DisableInv, Disabling
<1>10. QED
  BY <1>3, <1>8, <1>9 DEF LifecycleInv

LEMMA EnableSucceedsKeeps ==
    ASSUME LifecycleTypeOK, LifecycleInv, EnableSucceeds
    PROVE  LifecycleTypeOK' /\ LifecycleInv'
<1> DEFINE p == Head(plan)
<1>1. /\ mgr = "enableCall" /\ mgr' = "enable" /\ plan' = Tail(plan)
      /\ UNCHANGED <<order, target, active, accepting, owed>>
      /\ enabled' = enabled \cup {p}
      /\ state' = [state EXCEPT ![p] = "enabled"]
      /\ proven' = proven \cup {p}
  BY DEF EnableSucceeds
<1>2. /\ target = "disabled" /\ plan # <<>> /\ Len(plan) <= Len(order)
      /\ \A i \in 1 .. Len(plan) : plan[i] = order[Len(order) - Len(plan) + i]
      /\ At(Len(order) - Len(plan) + 1) /\ p \in accepting /\ p \in owed
  BY <1>1 DEF LifecycleInv, EnableInv
<1>3. /\ p \in Plugins /\ p = plan[1]
      /\ Len(plan) \in Nat \ {0} /\ Len(order) \in Nat
      /\ plan' \in Seq(Plugins) /\ Len(plan') = Len(plan) - 1
      /\ \A i \in 1 .. Len(plan) - 1 : plan'[i] = plan[i + 1]
  BY <1>1, <1>2, TailOf DEF LifecycleTypeOK
<1>4. LifecycleTypeOK'
  BY <1>1, <1>3 DEF LifecycleTypeOK, EnableSucceeds, State, MgrPc
<1>5. PICK n \in 1 .. Len(order) : n = Len(order) - Len(plan) + 1 /\ p = order[n]
  <2>1. /\ Len(order) - Len(plan) + 1 \in 1 .. Len(order)
        /\ p = order[Len(order) - Len(plan) + 1]
    BY <1>2, <1>3
  <2>2. QED
    BY <2>1
<1>6. UpTo(n)'
  <2>1. Live(Oldest(n - 1)) /\ Settled(Oldest(n))
    BY <1>2, <1>5 DEF At
  <2>2. Live(Oldest(n - 1))' /\ Settled(Oldest(n))'
    BY <1>1, <1>3, <1>5, <2>1, OthersStay DEF LifecycleTypeOK
  <2>3. state'[p] = "enabled" /\ p \in enabled' /\ p \in accepting' /\ p \in owed'
    BY <1>1, <1>2, <1>3 DEF LifecycleTypeOK
  <2>4. Oldest(n)' = Oldest(n - 1)' \cup {p}
    BY <1>1, <1>5, OldestStep DEF Oldest
  <2>5. QED
    BY <2>2, <2>3, <2>4 DEF UpTo, Live
<1>7. EnableInv'
  <2>1. Len(order') - Len(plan') = n /\ Len(plan') <= Len(order')
    BY <1>1, <1>2, <1>3, <1>5
  <2>2. \A i \in 1 .. Len(plan') : plan'[i] = order'[Len(order') - Len(plan') + i]
    BY <1>1, <1>2, <1>3
  <2>3. UpTo(Len(order) - Len(plan))'
    BY <1>6, <2>1
  <2>4. QED
    BY <1>1, <1>2, <2>1, <2>2, <2>3 DEF EnableInv
<1>8. IdleInv' /\ DisableInv'
  BY <1>1 DEF IdleInv, DisableInv, Disabling
<1>9. QED
  BY <1>4, <1>7, <1>8 DEF LifecycleInv

LEMMA EnableFailsKeeps ==
    ASSUME LifecycleTypeOK, LifecycleInv, EnableFails
    PROVE  LifecycleTypeOK' /\ LifecycleInv'
<1> DEFINE p == Head(plan)
<1>1. /\ mgr = "enableCall" /\ mgr' = "disable" /\ target' = "failed"
      /\ plan' = <<p>> \o Reverse(SubSeq(order, 1, Len(order) - Len(plan)))
      /\ UNCHANGED <<order, active, enables, state, enabled, accepting, owed, proven>>
  BY DEF EnableFails, EnabledSoFar
<1>2. /\ plan # <<>> /\ Len(plan) <= Len(order)
      /\ \A i \in 1 .. Len(plan) : plan[i] = order[Len(order) - Len(plan) + i]
      /\ At(Len(order) - Len(plan) + 1) /\ state[p] = "enabling"
  BY <1>1 DEF LifecycleInv, EnableInv
<1>3. /\ p = plan[1] /\ Len(plan) \in Nat \ {0} /\ Len(order) \in Nat
      /\ order \in Seq(Plugins)
  BY <1>2, TailOf DEF LifecycleTypeOK
<1>4. PICK k \in 0 .. Len(order) - 1 : k = Len(order) - Len(plan) /\ p = order[k + 1]
  BY <1>2, <1>3
<1>5. /\ plan' \in Seq(Plugins) /\ Len(plan') = k + 1
      /\ \A i \in 1 .. k + 1 : plan'[i] = order[k + 2 - i]
  <2>1. plan' = <<order[k + 1]>> \o Reverse(SubSeq(order, 1, k))
    BY <1>1, <1>4
  <2>2. QED
    BY <1>3, <2>1, RollbackPlan
<1>6. LifecycleTypeOK'
  BY <1>1, <1>5 DEF LifecycleTypeOK, MgrPc
<1>7. DisableInv'
  <2>1. At(k + 1)'
    BY <1>1, <1>2, <1>4 DEF At, Live, Settled, Oldest
  <2>2. Head(plan') = p /\ plan' # <<>> /\ Len(plan') <= Len(order')
    BY <1>1, <1>4, <1>5
  <2>3. At(Len(plan))'
    BY <1>5, <2>1
  <2>4. \A i \in 1 .. Len(plan') : plan'[i] = order'[Len(plan') + 1 - i]
    <3>1. Len(plan') = k + 1 /\ order' = order /\ k \in Int
      BY <1>1, <1>3, <1>5
    <3>2. \A i \in 1 .. k + 1 : (k + 1) + 1 - i = k + 2 - i
      BY <3>1
    <3>3. QED
      BY <1>5, <3>1, <3>2
  <2>5. QED
    BY <1>1, <1>2, <2>2, <2>3, <2>4 DEF DisableInv, Disabling
<1>8. IdleInv' /\ EnableInv'
  BY <1>1 DEF IdleInv, EnableInv
<1>9. QED
  BY <1>6, <1>7, <1>8 DEF LifecycleInv

LEMMA EnableDoneKeeps ==
    ASSUME LifecycleTypeOK, LifecycleInv, EnableDone
    PROVE  LifecycleTypeOK' /\ LifecycleInv'
<1>1. /\ mgr = "enable" /\ mgr' = "idle" /\ plan = <<>> /\ active' = TRUE
      /\ UNCHANGED <<order, state, enabled, accepting, owed, plan, target>>
  BY DEF EnableDone
<1>2. LifecycleTypeOK'
  BY DEF EnableDone, LifecycleTypeOK, MgrPc
<1>3. target = "disabled" /\ UpTo(Len(order))
  <2>1. Len(plan) = 0 /\ Len(order) \in Nat
    BY <1>1 DEF LifecycleTypeOK
  <2>2. QED
    BY <1>1, <2>1 DEF LifecycleInv, EnableInv
<1>4. IdleInv'
  BY <1>1, <1>3 DEF IdleInv, UpTo, Live, Settled, Oldest
<1>5. EnableInv' /\ DisableInv'
  BY <1>1 DEF EnableInv, DisableInv, Disabling
<1>6. QED
  BY <1>2, <1>4, <1>5 DEF LifecycleInv

LEMMA DisableAllKeeps ==
    ASSUME LifecycleTypeOK, LifecycleInv, DisableAll
    PROVE  LifecycleTypeOK' /\ LifecycleInv'
<1>1. /\ mgr = "idle" /\ mgr' = "disable" /\ target' = "disabled"
      /\ plan' = Reverse(order)
      /\ UNCHANGED <<order, active, enables, state, enabled, accepting, owed, proven>>
  BY DEF DisableAll
<1>2. /\ plan' \in Seq(Plugins) /\ Len(plan') = Len(order)
      /\ \A i \in 1 .. Len(order) : plan'[i] = order[Len(order) + 1 - i]
      /\ Len(order) \in Nat
  BY <1>1, ReverseOf DEF LifecycleTypeOK
<1>3. LifecycleTypeOK'
  BY <1>1, <1>2 DEF LifecycleTypeOK, MgrPc
<1>4. DisableInv'
  <2>1. UpTo(Len(order)) \/ Settled({})
    BY <1>1 DEF LifecycleInv, IdleInv
  <2>2. UpTo(Len(plan))' \/ Settled({})'
    BY <1>1, <1>2, <2>1 DEF UpTo, Live, Settled, Oldest
  <2>3. QED
    BY <1>1, <1>2, <2>2 DEF DisableInv, Disabling
<1>5. IdleInv' /\ EnableInv'
  BY <1>1 DEF IdleInv, EnableInv
<1>6. QED
  BY <1>3, <1>4, <1>5 DEF LifecycleInv

(* While it disables, the manager works on the last entry of the prefix that *)
(* is left.                                                                  *)
LEMMA HeadOfPlan ==
    ASSUME LifecycleTypeOK, LifecycleInv, mgr \in {"disable"} \cup Disabling, plan # <<>>
    PROVE  /\ Len(plan) \in 1 .. Len(order) /\ Len(order) \in Nat
           /\ Head(plan) = order[Len(plan)] /\ Head(plan) \in Plugins
           /\ Tail(plan) \in Seq(Plugins) /\ Len(Tail(plan)) = Len(plan) - 1
           /\ \A i \in 1 .. Len(Tail(plan)) :
                 Tail(plan)[i] = order[Len(Tail(plan)) + 1 - i]
<1>1. /\ Len(plan) <= Len(order)
      /\ \A i \in 1 .. Len(plan) : plan[i] = order[Len(plan) + 1 - i]
  BY DEF LifecycleInv, DisableInv
<1>2. /\ Head(plan) \in Plugins /\ Head(plan) = plan[1]
      /\ Tail(plan) \in Seq(Plugins) /\ Len(Tail(plan)) = Len(plan) - 1
      /\ Len(plan) \in Nat \ {0} /\ Len(order) \in Nat
      /\ \A i \in 1 .. Len(plan) - 1 : Tail(plan)[i] = plan[i + 1]
  BY TailOf DEF LifecycleTypeOK
<1>3. Head(plan) = order[Len(plan)]
  BY <1>1, <1>2
<1>4. \A i \in 1 .. Len(plan) - 1 : plan[i + 1] = order[Len(plan) - i]
  <2>1. \A m \in Nat : \A i \in 1 .. m - 1 :
           i + 1 \in 1 .. m /\ m + 1 - (i + 1) = m - i
    OBVIOUS
  <2>2. \A i \in 1 .. Len(plan) - 1 :
           i + 1 \in 1 .. Len(plan) /\ Len(plan) + 1 - (i + 1) = Len(plan) - i
    BY <1>2, <2>1
  <2>3. QED
    BY <1>1, <2>2
<1>5. \A i \in 1 .. Len(Tail(plan)) : Tail(plan)[i] = order[Len(Tail(plan)) + 1 - i]
  <2>1. \A i \in 1 .. Len(plan) - 1 : (Len(plan) - 1) + 1 - i = Len(plan) - i
    BY <1>2
  <2>2. QED
    BY <1>2, <1>4, <2>1
<1>6. QED
  BY <1>1, <1>2, <1>3, <1>5

LEMMA DisableSkipKeeps ==
    ASSUME LifecycleTypeOK, LifecycleInv, DisableSkip
    PROVE  LifecycleTypeOK' /\ LifecycleInv'
<1>1. /\ mgr = "disable" /\ mgr' = "disable" /\ plan # <<>> /\ plan' = Tail(plan)
      /\ target = "disabled" /\ state[Head(plan)] # "enabled"
      /\ UNCHANGED <<order, active, enables, state, enabled, accepting, target, owed,
                     proven>>
  BY DEF DisableSkip, IsEnabled
<1>2. /\ Len(plan) \in 1 .. Len(order) /\ Len(order) \in Nat
      /\ Head(plan) = order[Len(plan)]
      /\ Tail(plan) \in Seq(Plugins) /\ Len(Tail(plan)) = Len(plan) - 1
      /\ \A i \in 1 .. Len(Tail(plan)) :
            Tail(plan)[i] = order[Len(Tail(plan)) + 1 - i]
  BY <1>1, HeadOfPlan
<1>3. LifecycleTypeOK'
  BY <1>1, <1>2 DEF LifecycleTypeOK
<1>4. Settled({})
  <2>1. UpTo(Len(plan)) \/ Settled({})
    BY <1>1 DEF LifecycleInv, DisableInv
  <2>2. Head(plan) \in Oldest(Len(plan))
    BY <1>2 DEF Oldest
  <2>3. QED
    BY <1>1, <2>1, <2>2 DEF UpTo, Live
<1>5. DisableInv'
  <2>1. Settled({})'
    BY <1>1, <1>4 DEF Settled
  <2>2. Len(plan') <= Len(order')
    BY <1>1, <1>2
  <2>3. QED
    BY <1>1, <1>2, <2>1, <2>2 DEF DisableInv, Disabling
<1>6. IdleInv' /\ EnableInv'
  BY <1>1 DEF IdleInv, EnableInv
<1>7. QED
  BY <1>3, <1>5, <1>6 DEF LifecycleInv

LEMMA DisableGateKeeps ==
    ASSUME LifecycleTypeOK, LifecycleInv, DisableGate
    PROVE  LifecycleTypeOK' /\ LifecycleInv'
<1> DEFINE p == Head(plan)
<1>1. /\ mgr = "disable" /\ mgr' = "close" /\ plan # <<>>
      /\ state[p] = "enabled" \/ target = "failed"
      /\ enabled' = enabled \ {p}
      /\ UNCHANGED <<order, active, enables, state, accepting, plan, target, owed,
                     proven>>
  BY DEF DisableGate, IsEnabled
<1>2. PICK n \in 1 .. Len(order) : n = Len(plan) /\ p = order[n] /\ p \in Plugins
  BY <1>1, HeadOfPlan
<1>3. LifecycleTypeOK'
  BY <1>1 DEF LifecycleTypeOK, MgrPc
<1>4. /\ Live(Oldest(n - 1)) /\ Settled(Oldest(n))
      /\ state[p] \in {"enabling", "enabled"}
  <2>1. CASE target = "failed"
    BY <1>1, <1>2, <2>1 DEF LifecycleInv, DisableInv, At
  <2>2. CASE target = "disabled"
    <3>1. UpTo(n) \/ Settled({})
      BY <1>1, <1>2, <2>2 DEF LifecycleInv, DisableInv
    <3>2. UpTo(n)
      BY <1>1, <1>2, <2>2, <3>1 DEF Settled
    <3>3. QED
      BY <1>1, <1>2, <2>2, <3>2, OldestStep DEF UpTo, Live
  <2>3. QED
    BY <2>1, <2>2 DEF LifecycleTypeOK
<1>5. At(n)'
  <2>1. Live(Oldest(n - 1))' /\ Settled(Oldest(n))'
    BY <1>1, <1>2, <1>4, OthersStay
  <2>2. QED
    BY <1>1, <1>2, <2>1 DEF At
<1>6. DisableInv'
  <2>1. /\ Len(plan) <= Len(order)
        /\ \A i \in 1 .. Len(plan) : plan[i] = order[Len(plan) + 1 - i]
    BY <1>1 DEF LifecycleInv, DisableInv
  <2>2. At(Len(plan))'
    BY <1>1, <1>2, <1>5
  <2>3. QED
    BY <1>1, <1>4, <2>1, <2>2 DEF DisableInv, Disabling
<1>7. IdleInv' /\ EnableInv'
  BY <1>1 DEF IdleInv, EnableInv
<1>8. QED
  BY <1>3, <1>6, <1>7 DEF LifecycleInv

(* The head of the plan is alone in changing, and stays the one at work. *)
LEMMA WorkGoesOn ==
    ASSUME LifecycleTypeOK, LifecycleInv, mgr \in Disabling, mgr' \in Disabling,
           UNCHANGED <<order, plan, enabled>>,
           \A p \in Plugins \ {Head(plan)} :
              /\ state'[p] = state[p]
              /\ p \in accepting' <=> p \in accepting
              /\ p \in owed' <=> p \in owed,
           mgr' \notin {"close"},
           state'[Head(plan)] = "disabling" /\ Head(plan) \notin accepting',
           mgr' \in {"removeHandlers", "removeCommands"} => Head(plan) \notin owed'
    PROVE  LifecycleInv'
<1>1. /\ plan # <<>> /\ At(Len(plan)) /\ Len(plan) <= Len(order)
      /\ \A i \in 1 .. Len(plan) : plan[i] = order[Len(plan) + 1 - i]
  BY DEF LifecycleInv, DisableInv
<1>2. PICK n \in 1 .. Len(order) : n = Len(plan) /\ Head(plan) = order[n]
  BY <1>1, HeadOfPlan
<1>3. At(n)'
  <2>1. Live(Oldest(n - 1)) /\ Settled(Oldest(n)) /\ order[n] \notin enabled
    BY <1>1, <1>2 DEF At
  <2>2. Live(Oldest(n - 1))' /\ Settled(Oldest(n))'
    BY <1>2, <2>1, OthersStay
  <2>3. QED
    BY <2>1, <2>2 DEF At
<1>4. At(Len(plan))'
  BY <1>2, <1>3
<1>5. DisableInv'
  BY <1>1, <1>4 DEF DisableInv, Disabling
<1>6. IdleInv' /\ EnableInv'
  BY DEF IdleInv, EnableInv, Disabling
<1>7. QED
  BY <1>5, <1>6 DEF LifecycleInv

LEMMA DisableCloseKeeps ==
    ASSUME LifecycleTypeOK, LifecycleInv, DisableClose
    PROVE  LifecycleTypeOK' /\ LifecycleInv'
<1>1. /\ mgr = "close" /\ mgr' = "disableCall"
      /\ accepting' = accepting \ {Head(plan)}
      /\ state' = [state EXCEPT ![Head(plan)] = "disabling"]
      /\ UNCHANGED <<order, active, enables, enabled, plan, target, owed, proven>>
  BY DEF DisableClose
<1>2. Head(plan) \in Plugins
  BY <1>1, HeadOfPlan DEF LifecycleInv, DisableInv, Disabling
<1>3. LifecycleTypeOK'
  BY <1>1, <1>2 DEF LifecycleTypeOK, MgrPc, State
<1>4. /\ \A p \in Plugins \ {Head(plan)} : state'[p] = state[p]
      /\ state'[Head(plan)] = "disabling"
  BY <1>1, <1>2 DEF LifecycleTypeOK
<1>5. LifecycleInv'
  BY <1>1, <1>4, WorkGoesOn DEF Disabling
<1>6. QED
  BY <1>3, <1>5

LEMMA DisableReturnsKeeps ==
    ASSUME LifecycleTypeOK, LifecycleInv, DisableReturns
    PROVE  LifecycleTypeOK' /\ LifecycleInv'
<1>1. /\ mgr = "disableCall" /\ mgr' = "removeHandlers"
      /\ owed' = owed \ {Head(plan)}
      /\ UNCHANGED <<order, active, enables, state, enabled, accepting, plan, proven>>
  BY DEF DisableReturns
<1>2. LifecycleTypeOK'
  BY DEF DisableReturns, LifecycleTypeOK, MgrPc
<1>3. state[Head(plan)] = "disabling" /\ Head(plan) \notin accepting
  BY <1>1 DEF LifecycleInv, DisableInv, Disabling
<1>4. LifecycleInv'
  BY <1>1, <1>3, WorkGoesOn DEF Disabling
<1>5. QED
  BY <1>2, <1>4

LEMMA RemoveHandlersKeeps ==
    ASSUME LifecycleTypeOK, LifecycleInv, RemoveHandlers
    PROVE  LifecycleTypeOK' /\ LifecycleInv'
<1>1. /\ mgr = "removeHandlers" /\ mgr' = "removeCommands"
      /\ UNCHANGED <<order, active, enables, state, enabled, accepting, plan, target,
                     owed, proven>>
  BY DEF RemoveHandlers
<1>2. LifecycleTypeOK'
  BY <1>1 DEF LifecycleTypeOK, MgrPc
<1>3. /\ state[Head(plan)] = "disabling" /\ Head(plan) \notin accepting
      /\ Head(plan) \notin owed
  BY <1>1 DEF LifecycleInv, DisableInv, Disabling
<1>4. LifecycleInv'
  BY <1>1, <1>3, WorkGoesOn DEF Disabling
<1>5. QED
  BY <1>2, <1>4

LEMMA RemoveCommandsKeeps ==
    ASSUME LifecycleTypeOK, LifecycleInv, RemoveCommands
    PROVE  LifecycleTypeOK' /\ LifecycleInv'
<1> DEFINE p == Head(plan)
<1>1. /\ mgr = "removeCommands" /\ mgr' = "disable" /\ plan' = Tail(plan)
      /\ state' = [state EXCEPT ![p] = target] /\ target' = "disabled"
      /\ UNCHANGED <<order, active, enables, enabled, accepting, owed, proven>>
  BY DEF RemoveCommands
<1>2. /\ plan # <<>> /\ At(Len(plan)) /\ Len(plan) <= Len(order)
      /\ p \notin accepting /\ p \notin owed
  BY <1>1 DEF LifecycleInv, DisableInv, Disabling
<1>3. /\ Len(plan) \in 1 .. Len(order) /\ Len(order) \in Nat
      /\ p = order[Len(plan)] /\ p \in Plugins
      /\ plan' \in Seq(Plugins) /\ Len(plan') = Len(plan) - 1
      /\ \A i \in 1 .. Len(plan') : plan'[i] = order[Len(plan') + 1 - i]
  BY <1>1, <1>2, HeadOfPlan DEF Disabling
<1>4. LifecycleTypeOK'
  BY <1>1, <1>3 DEF LifecycleTypeOK, MgrPc, State
<1>5. PICK n \in 1 .. Len(order) : n = Len(plan) /\ p = order[n]
  BY <1>3
<1>6. UpTo(n - 1)'
  <2>1. Live(Oldest(n - 1)) /\ Settled(Oldest(n)) /\ p \notin enabled
    BY <1>2, <1>5 DEF At
  <2>2. Live(Oldest(n - 1))' /\ Settled(Oldest(n))'
    BY <1>1, <1>3, <1>5, <2>1, OthersStay DEF LifecycleTypeOK
  <2>3. /\ state'[p] \in {"registered", "disabled", "failed"}
        /\ p \notin enabled' /\ p \notin accepting' /\ p \notin owed'
    BY <1>1, <1>2, <1>3, <2>1 DEF LifecycleTypeOK
  <2>4. Oldest(n)' = Oldest(n - 1)' \cup {p}
    BY <1>1, <1>5, OldestStep DEF Oldest
  <2>5. QED
    BY <2>2, <2>3, <2>4 DEF UpTo, Settled
<1>7. DisableInv'
  <2>1. UpTo(Len(plan))' /\ Len(plan') <= Len(order')
    BY <1>1, <1>3, <1>5, <1>6
  <2>2. QED
    BY <1>1, <1>3, <2>1 DEF DisableInv, Disabling
<1>8. IdleInv' /\ EnableInv'
  BY <1>1 DEF IdleInv, EnableInv
<1>9. QED
  BY <1>4, <1>7, <1>8 DEF LifecycleInv

LEMMA DisableDoneKeeps ==
    ASSUME LifecycleTypeOK, LifecycleInv, DisableDone
    PROVE  LifecycleTypeOK' /\ LifecycleInv'
<1>1. /\ mgr = "disable" /\ mgr' = "idle" /\ plan = <<>> /\ active' = FALSE
      /\ UNCHANGED <<order, enables, state, enabled, accepting, plan, target, owed,
                     proven>>
  BY DEF DisableDone
<1>2. LifecycleTypeOK'
  BY <1>1 DEF LifecycleTypeOK, MgrPc
<1>3. target = "disabled"
  BY <1>1 DEF LifecycleInv, DisableInv, LifecycleTypeOK
<1>4. Settled({})
  <2>1. UpTo(0) \/ Settled({})
    BY <1>1, <1>3 DEF LifecycleInv, DisableInv
  <2>2. QED
    BY <2>1 DEF UpTo, Oldest, Settled
<1>5. IdleInv'
  BY <1>1, <1>3, <1>4 DEF IdleInv, Settled
<1>6. EnableInv' /\ DisableInv'
  BY <1>1 DEF EnableInv, DisableInv, Disabling
<1>7. QED
  BY <1>2, <1>5, <1>6 DEF LifecycleInv

LEMMA LifecycleStep ==
    ASSUME LifecycleTypeOK, LifecycleInv, [Next]_vars
    PROVE  LifecycleTypeOK' /\ LifecycleInv'
<1>1. CASE Manager
  <2>1. ASSUME NEW p \in Plugins, Register(p) PROVE LifecycleTypeOK' /\ LifecycleInv'
    BY <2>1, RegisterKeeps
  <2>2. CASE ReserveCommands
    BY <2>2, LifecycleFrame DEF ReserveCommands
  <2>3. QED
    BY <1>1, <2>1, <2>2, EnableAllKeeps, EnableNextKeeps, EnableSucceedsKeeps,
       EnableFailsKeeps, EnableDoneKeeps, DisableAllKeeps, DisableSkipKeeps,
       DisableGateKeeps, DisableCloseKeeps, DisableReturnsKeeps, RemoveHandlersKeeps,
       RemoveCommandsKeeps, DisableDoneKeeps DEF Manager
<1>2. CASE PluginSide
  <2>1. UNCHANGED lifecycleVars
    BY <1>2 DEF PluginSide, BeginRegistration, Subscribe, RegisterCommand, EndRegistration,
                CancelSubscription, Unregister, BeginReply, EndReply
  <2>2. QED
    BY <2>1, LifecycleFrame
<1>3. CASE Host
  <2>1. UNCHANGED lifecycleVars
    BY <1>3 DEF Host, Dispatch, DispatchNext, HandlerReturns, DispatchDone, ExecuteCommand,
                ExecuteCheck, CommandReturns, Invalidate
  <2>2. QED
    BY <2>1, LifecycleFrame
<1>4. CASE UNCHANGED vars
  BY <1>4, LifecycleFrame DEF vars
<1>5. QED
  BY <1>1, <1>2, <1>3, <1>4 DEF Next

-----------------------------------------------------------------------------
(***************************************************************************)
(* The other types, and the registries.                                    *)
(***************************************************************************)
LEMMA EventStep ==
    ASSUME TypeOK, [Next]_vars
    PROVE  EventTypeOK'
<1> USE DEF TypeOK, EventTypeOK
<1>1. ASSUME table' \subseteq table, rest' \subseteq rest \cup table, UNCHANGED nextHandler
      PROVE  EventTypeOK'
  BY <1>1
<1>2. CASE Manager
  <2>1. /\ table' \subseteq table
        /\ UNCHANGED <<rest, nextHandler>>
    BY <1>2 DEF Manager, Register, ReserveCommands, EnableAll, EnableNext, EnableSucceeds,
                EnableFails, EnableDone, DisableAll, DisableSkip, DisableGate, DisableClose,
                DisableReturns, RemoveHandlers, RemoveCommands, DisableDone,
                eventVars, hostVars
  <2>2. QED
    BY <1>1, <2>1
<1>3. CASE PluginSide
  <2>1. ASSUME NEW p \in Plugins, Subscribe(p), p \in accepting
        PROVE  EventTypeOK'
    <3>1. /\ nextHandler' = nextHandler + 1 /\ nextHandler < MaxHandlers
          /\ table' = table \cup {[id |-> nextHandler + 1, owner |-> p]}
          /\ rest' = rest
      BY <2>1 DEF Subscribe, EndRegistration, hostVars
    <3>2. [id |-> nextHandler + 1, owner |-> p] \in Handler
      BY <3>1, PluginAssumption DEF Handler
    <3>3. \A h \in table : h.id \in Int
      BY DEF Handler
    <3>4. nextHandler' \in 0 .. MaxHandlers
      BY <3>1, PluginAssumption
    <3>5. \A h \in table' : h.id <= nextHandler'
      BY <3>1, <3>3, PluginAssumption
    <3>6. \A g, h \in table' : g.id = h.id => g = h
      BY <3>1, <3>3, PluginAssumption
    <3>7. QED
      BY <3>1, <3>2, <3>4, <3>5, <3>6
  <2>2. CASE /\ UNCHANGED <<rest, nextHandler>>
             /\ table' \subseteq table
    BY <1>1, <2>2
  <2>3. QED
    BY <1>3, <2>1, <2>2 DEF PluginSide, BeginRegistration, Subscribe, RegisterCommand,
       EndRegistration, CancelSubscription, Unregister, BeginReply, EndReply, eventVars, hostVars
<1>4. CASE Host
  <2>1. rest' \subseteq rest \cup table /\ UNCHANGED <<table, nextHandler>>
    BY <1>4 DEF Host, Dispatch, DispatchNext, HandlerReturns, DispatchDone, ExecuteCommand,
                ExecuteCheck, CommandReturns, Invalidate, eventVars
  <2>2. QED
    BY <1>1, <2>1
<1>5. CASE UNCHANGED vars
  BY <1>1, <1>5 DEF vars, eventVars, hostVars
<1>6. QED
  BY <1>2, <1>3, <1>4, <1>5 DEF Next

(* Removing commands gives back all of their literals, and no others. *)
LEMMA ForgetKeeps ==
    ASSUME CommandTypeOK, LiteralsAgree, NEW cs, Forget(cs), cs \subseteq DOMAIN byID,
           UNCHANGED <<nextCommand, reserved>>
    PROVE  CommandTypeOK' /\ LiteralsAgree'
<1> USE DEF CommandTypeOK, Nobody
<1>1. /\ DOMAIN byID' = DOMAIN byID \ cs
      /\ \A c \in DOMAIN byID' : byID'[c] = byID[c]
      /\ byName' = [n \in Names |-> IF byName[n] \in cs THEN 0 ELSE byName[n]]
  BY DEF Forget
<1>2. CommandTypeOK'
  BY <1>1
<1>3. \A c \in DOMAIN byID' : c # 0
  BY <1>1
<1>4. \A c \in DOMAIN byID', n \in Names : byName'[n] = c <=> byName[n] = c
  BY <1>1, <1>3
<1>5. LiteralsAgree'
  BY <1>1, <1>4 DEF LiteralsAgree
<1>6. QED
  BY <1>2, <1>5

(* A new command takes literals that were free. *)
LEMMA PublishKeeps ==
    ASSUME CommandTypeOK, LiteralsAgree, NEW p \in Plugins,
           NEW literals \in SUBSET Names \ {{}}, \A n \in literals : Free(n),
           Publish(p, literals), UNCHANGED reserved
    PROVE  CommandTypeOK' /\ LiteralsAgree'
<1> USE DEF CommandTypeOK, Nobody
<1> DEFINE k == nextCommand + 1
<1>1. /\ nextCommand' = k /\ k \in 1 .. MaxCommands
      /\ nextCommand \in Nat
      /\ DOMAIN byID' = DOMAIN byID \cup {k}
      /\ byID'[k] = [owner |-> p, literals |-> literals]
      /\ \A c \in DOMAIN byID : c # k /\ c # 0 /\ byID'[c] = byID[c]
      /\ byName' = [n \in Names |-> IF n \in literals THEN k ELSE byName[n]]
  BY PluginAssumption DEF Publish
<1>2. CommandTypeOK'
  <2>1. \A c \in DOMAIN byID' : byID'[c] \in Command
    BY <1>1 DEF Command
  <2>2. DOMAIN byID' \subseteq 1 .. nextCommand' /\ nextCommand' \in 0 .. MaxCommands
    BY <1>1
  <2>3. byName' \in [Names -> {Nobody} \cup DOMAIN byID']
    BY <1>1
  <2>4. QED
    BY <2>1, <2>2, <2>3
<1>3. \A n \in literals : byName[n] = 0 /\ n \notin reserved
  BY DEF Free
<1>4. \A c \in DOMAIN byID : byID'[c].literals = {n \in Names : byName'[n] = c}
  BY <1>1, <1>3 DEF LiteralsAgree
<1>5. byID'[k].literals = {n \in Names : byName'[n] = k}
  BY <1>1
<1>6. LiteralsAgree'
  BY <1>1, <1>3, <1>4, <1>5 DEF LiteralsAgree
<1>7. QED
  BY <1>2, <1>6

LEMMA CommandStep ==
    ASSUME TypeOK, LiteralsAgree, [Next]_vars
    PROVE  CommandTypeOK' /\ LiteralsAgree'
<1>1. CASE UNCHANGED commandVars
  BY <1>1 DEF TypeOK, CommandTypeOK, LiteralsAgree, commandVars
<1>2. CASE Manager
  <2>1. CASE ReserveCommands
    <3>1. /\ reserved' = reserved \cup Core /\ UNCHANGED <<byName, byID, nextCommand>>
          /\ \A n \in Core : byName[n] = Nobody
      BY <2>1 DEF ReserveCommands
    <3>2. QED
      BY <3>1, PluginAssumption DEF TypeOK, CommandTypeOK, LiteralsAgree
  <2>2. CASE RemoveCommands
    BY <2>2, ForgetKeeps DEF RemoveCommands, TypeOK
  <2>3. QED
    BY <1>1, <1>2, <2>1, <2>2 DEF Manager, Register, EnableAll, EnableNext, EnableSucceeds,
       EnableFails, EnableDone, DisableAll, DisableSkip, DisableGate, DisableClose,
       DisableReturns, RemoveHandlers, DisableDone
<1>3. CASE PluginSide
  <2>1. ASSUME NEW p \in Plugins, NEW literals \in SUBSET Names \ {{}},
               RegisterCommand(p, literals)
        PROVE  CommandTypeOK' /\ LiteralsAgree'
    BY <1>1, <2>1, PublishKeeps DEF RegisterCommand, commandVars, TypeOK
  <2>2. ASSUME NEW c \in DOMAIN byID, Unregister(c)
        PROVE  CommandTypeOK' /\ LiteralsAgree'
    BY <2>2, ForgetKeeps DEF Unregister, TypeOK
  <2>3. QED
    BY <1>1, <1>3, <2>1, <2>2 DEF PluginSide, BeginRegistration, Subscribe,
       CancelSubscription, BeginReply, EndReply
<1>4. CASE Host
  BY <1>1, <1>4 DEF Host, Dispatch, DispatchNext, HandlerReturns, DispatchDone,
     ExecuteCommand, ExecuteCheck, CommandReturns, Invalidate
<1>5. CASE UNCHANGED vars
  BY <1>1, <1>5 DEF vars
<1>6. QED
  BY <1>2, <1>3, <1>4, <1>5 DEF Next

-----------------------------------------------------------------------------
(***************************************************************************)
(* The host's calls, and the source of a command.                          *)
(***************************************************************************)
LEMMA HostTypeStep ==
    ASSUME TypeOK, [Next]_vars
    PROVE  HostTypeOK'
<1> USE DEF TypeOK, HostTypeOK
<1>1. CASE UNCHANGED <<registering, host, found, source, replying>>
  BY <1>1
<1>2. CASE Manager
  BY <1>1, <1>2 DEF Manager, Register, ReserveCommands, EnableAll, EnableNext,
     EnableSucceeds, EnableFails, EnableDone, DisableAll, DisableSkip, DisableGate,
     DisableClose, DisableReturns, RemoveHandlers, RemoveCommands, DisableDone, hostVars,
     leaseVars
<1>3. CASE PluginSide
  BY <1>3 DEF PluginSide, BeginRegistration, Subscribe, RegisterCommand, EndRegistration,
     CancelSubscription, Unregister, BeginReply, EndReply, hostVars, leaseVars
<1>4. CASE Host
  <2>1. ASSUME NEW n \in Names, ExecuteCommand(n)
        PROVE  HostTypeOK'
    <3>1. byName[n] \in DOMAIN byID
      BY <2>1 DEF ExecuteCommand, CommandTypeOK
    <3>2. byID[byName[n]].owner \in Plugins
      BY <3>1 DEF CommandTypeOK, Command
    <3>3. QED
      BY <2>1, <3>2 DEF ExecuteCommand, HostPc, leaseVars
  <2>2. CASE ExecuteCheck
    <3>1. source' \in BOOLEAN /\ replying' = replying
      <4>1. source' = (found \in enabled) /\ replying' = replying
        BY <2>2 DEF ExecuteCheck
      <4>2. (found \in enabled) \in BOOLEAN
        OBVIOUS
      <4>3. QED
        BY <4>1, <4>2
    <3>2. UNCHANGED <<registering, found>> /\ host' \in HostPc
      BY <2>2, SMT DEF ExecuteCheck, HostPc
    <3>3. QED
      BY <3>1, <3>2
  <2>3. CASE Invalidate
    BY <2>3 DEF Invalidate, HostPc
  <2>4. CASE Dispatch \/ DispatchNext \/ HandlerReturns \/ DispatchDone \/ CommandReturns
    <3>1. host' \in HostPc /\ UNCHANGED <<registering, found>>
      BY <2>4, SMT DEF Dispatch, DispatchNext, HandlerReturns, DispatchDone, CommandReturns, HostPc
    <3>2. UNCHANGED <<source, replying>>
      BY <2>4, Zenon DEF Dispatch, DispatchNext, HandlerReturns, DispatchDone, CommandReturns,
         leaseVars
    <3>3. QED
      BY <3>1, <3>2
  <2>5. QED
    BY <1>4, <2>1, <2>2, <2>3, <2>4 DEF Host
<1>5. CASE UNCHANGED vars
  BY <1>1, <1>5 DEF vars, hostVars, leaseVars
<1>6. QED
  BY <1>2, <1>3, <1>4, <1>5 DEF Next

LEMMA ProvenStep ==
    ASSUME EnabledIsProven, CalledOnlyIfProven, [Next]_vars
    PROVE  EnabledIsProven' /\ CalledOnlyIfProven'
<1> USE DEF EnabledIsProven, CalledOnlyIfProven
<1>1. CASE UNCHANGED <<enabled, proven, host, rest, found>>
  BY <1>1
<1>2. CASE Manager
  <2>1. /\ enabled' \subseteq proven' /\ proven \subseteq proven'
        /\ UNCHANGED <<host, rest, found>>
    BY <1>2 DEF Manager, Register, ReserveCommands, EnableAll, EnableNext, EnableSucceeds,
       EnableFails, EnableDone, DisableAll, DisableSkip, DisableGate, DisableClose,
       DisableReturns, RemoveHandlers, RemoveCommands, DisableDone, lifecycleVars, hostVars
  <2>2. QED
    BY <2>1
<1>3. CASE PluginSide
  BY <1>1, <1>3 DEF PluginSide, BeginRegistration, Subscribe, RegisterCommand,
     EndRegistration, CancelSubscription, Unregister, BeginReply, EndReply, lifecycleVars,
     hostVars
<1>4. CASE Host
  <2>1. UNCHANGED <<enabled, proven>>
    BY <1>4 DEF Host, Dispatch, DispatchNext, HandlerReturns, DispatchDone, ExecuteCommand,
       ExecuteCheck, CommandReturns, Invalidate, lifecycleVars
  <2>2. host' = "handler" => First(rest').owner \in proven
    <3>1. SUFFICES ASSUME host' = "handler" PROVE First(rest').owner \in proven
      OBVIOUS
    <3>2. DispatchNext
      BY <1>4, <3>1 DEF Host, Dispatch, HandlerReturns, DispatchDone, ExecuteCommand,
         ExecuteCheck, CommandReturns, Invalidate
    <3>3. First(rest).owner \in enabled /\ rest' = rest
      BY <3>1, <3>2 DEF DispatchNext
    <3>4. QED
      BY <3>3
  <2>3. host' = "command" => found' \in proven
    BY <1>4 DEF Host, Dispatch, DispatchNext, HandlerReturns, DispatchDone, ExecuteCommand,
       ExecuteCheck, CommandReturns, Invalidate
  <2>4. QED
    BY <2>1, <2>2, <2>3
<1>5. CASE UNCHANGED vars
  BY <1>1, <1>5 DEF vars, lifecycleVars, hostVars
<1>6. QED
  BY <1>2, <1>3, <1>4, <1>5 DEF Next

LEMMA LeaseStep ==
    ASSUME TypeOK, LeaseInv, [Next]_vars
    PROVE  LeaseInv'
<1> USE DEF LeaseInv
<1>1. CASE UNCHANGED <<host, source, replying>>
  BY <1>1
<1>2. CASE Manager
  BY <1>1, <1>2 DEF Manager, Register, ReserveCommands, EnableAll, EnableNext,
     EnableSucceeds, EnableFails, EnableDone, DisableAll, DisableSkip, DisableGate,
     DisableClose, DisableReturns, RemoveHandlers, RemoveCommands, DisableDone, hostVars,
     leaseVars
<1>3. CASE PluginSide
  <2>1. CASE BeginReply \/ EndReply
    BY <2>1 DEF BeginReply, EndReply, hostVars
  <2>2. ASSUME ~(BeginReply \/ EndReply)
        PROVE  UNCHANGED <<host, source, replying>>
    BY <1>3, <2>2 DEF PluginSide, BeginRegistration, Subscribe, RegisterCommand,
       EndRegistration, CancelSubscription, Unregister, hostVars, leaseVars
  <2>3. QED
    BY <1>1, <2>1, <2>2
<1>4. CASE Host
  BY <1>4 DEF Host, Dispatch, DispatchNext, HandlerReturns, DispatchDone, ExecuteCommand,
     ExecuteCheck, CommandReturns, Invalidate, leaseVars
<1>5. CASE UNCHANGED vars
  BY <1>1, <1>5 DEF vars, hostVars, leaseVars
<1>6. QED
  BY <1>2, <1>3, <1>4, <1>5 DEF Next

-----------------------------------------------------------------------------
(***************************************************************************)
(* What a plugin that is no longer accepted may still own.                 *)
(***************************************************************************)
LEMMA LeftoverStep ==
    ASSUME TypeOK, LifecycleInv, LeftoverInv, [Next]_vars
    PROVE  LeftoverInv'
<1> USE DEF LeftoverInv, Leaving
<1>1. CASE UNCHANGED <<accepting, mgr, plan, table, byID>>
  BY <1>1
<1>2. CASE Manager
  <2>1. CASE DisableClose
    <3>1. /\ mgr' = "disableCall" /\ accepting' = accepting \ {Head(plan)}
          /\ mgr = "close" /\ UNCHANGED <<plan, table, byID>>
      BY <2>1 DEF DisableClose, eventVars, commandVars
    <3>2. accepting \subseteq Plugins
      BY DEF TypeOK, LifecycleTypeOK
    <3>3. QED
      BY <3>1, <3>2
  <2>2. CASE DisableReturns
    BY <2>2 DEF DisableReturns, eventVars, commandVars
  <2>3. CASE RemoveHandlers
    BY <2>3 DEF RemoveHandlers, commandVars
  <2>4. CASE RemoveCommands
    <3>1. /\ mgr = "removeCommands" /\ UNCHANGED <<accepting, table>>
          /\ \A c \in DOMAIN byID' :
                c \in DOMAIN byID /\ byID'[c] = byID[c] /\ byID[c].owner # Head(plan)
      BY <2>4 DEF RemoveCommands, Forget, eventVars
    <3>2. QED
      BY <3>1
  <2>5. CASE \/ EnableAll \/ EnableNext \/ EnableSucceeds \/ EnableFails \/ EnableDone
             \/ DisableAll \/ DisableSkip \/ DisableGate \/ DisableDone
    <3>1. /\ mgr \notin {"disableCall", "removeHandlers", "removeCommands"}
          /\ accepting \subseteq accepting' /\ UNCHANGED <<table, byID>>
      BY <2>5 DEF EnableAll, EnableNext, EnableSucceeds, EnableFails, EnableDone, DisableAll,
         DisableSkip, DisableGate, DisableDone, eventVars, commandVars
    <3>2. QED
      BY <3>1
  <2>6. CASE ReserveCommands \/ \E p \in Plugins : Register(p)
    BY <1>1, <2>6 DEF ReserveCommands, Register, lifecycleVars, eventVars, commandVars
  <2>7. QED
    BY <1>2, <2>1, <2>2, <2>3, <2>4, <2>5, <2>6 DEF Manager
<1>3. CASE PluginSide
  <2>1. UNCHANGED <<accepting, mgr, plan>>
    BY <1>3 DEF PluginSide, BeginRegistration, Subscribe, RegisterCommand, EndRegistration,
       CancelSubscription, Unregister, BeginReply, EndReply, lifecycleVars
  <2>2. ASSUME NEW p \in Plugins, Subscribe(p)
        PROVE  LeftoverInv'
    <3>1. UNCHANGED byID /\ \A h \in table' : h \in table \/ h.owner \in accepting
      BY <2>2 DEF Subscribe, eventVars, commandVars
    <3>2. QED
      BY <2>1, <3>1
  <2>3. ASSUME NEW p \in Plugins, NEW literals \in SUBSET Names \ {{}},
               RegisterCommand(p, literals)
        PROVE  LeftoverInv'
    <3>1. UNCHANGED table
      BY <2>3 DEF RegisterCommand, eventVars
    <3>2. \A c \in DOMAIN byID' :
             \/ c \in DOMAIN byID /\ byID'[c] = byID[c]
             \/ byID'[c].owner \in accepting
      BY <2>3 DEF RegisterCommand, Publish
    <3>3. QED
      BY <2>1, <3>1, <3>2
  <2>4. ASSUME NEW c \in DOMAIN byID, Unregister(c)
        PROVE  LeftoverInv'
    BY <2>1, <2>4 DEF Unregister, Forget, eventVars
  <2>5. ASSUME NEW h \in table, CancelSubscription(h)
        PROVE  LeftoverInv'
    BY <2>1, <2>5 DEF CancelSubscription, commandVars
  <2>6. QED
    BY <1>1, <1>3, <2>1, <2>2, <2>3, <2>4, <2>5 DEF PluginSide, BeginRegistration, BeginReply,
       EndReply, eventVars, commandVars
<1>4. CASE Host
  BY <1>1, <1>4 DEF Host, Dispatch, DispatchNext, HandlerReturns, DispatchDone,
     ExecuteCommand, ExecuteCheck, CommandReturns, Invalidate, lifecycleVars, eventVars,
     commandVars
<1>5. CASE UNCHANGED vars
  BY <1>1, <1>5 DEF vars, lifecycleVars, eventVars, commandVars
<1>6. QED
  BY <1>2, <1>3, <1>4, <1>5 DEF Next

-----------------------------------------------------------------------------
(***************************************************************************)
(* The theorems.                                                           *)
(***************************************************************************)
LEMMA InitPlugin == Init => PluginInv
<1> SUFFICES ASSUME Init PROVE PluginInv
  OBVIOUS
<1>1. LifecycleTypeOK /\ LifecycleInv
  BY InitLifecycle
<1>2. EventTypeOK /\ CommandTypeOK /\ HostTypeOK
  <2>1. MaxHandlers \in Nat /\ MaxCommands \in Nat
    BY PluginAssumption
  <2>2. EventTypeOK
    BY <2>1 DEF Init, EventTypeOK
  <2>3. CommandTypeOK
    BY <2>1 DEF Init, CommandTypeOK
  <2>4. HostTypeOK
    BY DEF Init, HostTypeOK, HostPc
  <2>5. QED
    BY <2>2, <2>3, <2>4
<1>3. LeftoverInv /\ LiteralsAgree
  BY DEF Init, LeftoverInv, LiteralsAgree
<1>4. EnabledIsProven /\ CalledOnlyIfProven /\ LeaseInv
  BY DEF Init, EnabledIsProven, CalledOnlyIfProven, LeaseInv
<1>5. QED
  BY <1>1, <1>2, <1>3, <1>4 DEF PluginInv, TypeOK

\* The invariant of the plugin runtime is inductive, for any number of plugins
\* and literals, and whatever Enable, Disable and the plugins' goroutines do.
THEOREM PluginRuntime == Spec => []PluginInv
<1>1. Init => PluginInv
  BY InitPlugin
<1>2. PluginInv /\ [Next]_vars => PluginInv'
  <2> SUFFICES ASSUME PluginInv, [Next]_vars PROVE PluginInv'
    OBVIOUS
  <2>1. LifecycleTypeOK' /\ LifecycleInv'
    BY LifecycleStep DEF PluginInv, TypeOK
  <2>2. EventTypeOK' /\ HostTypeOK'
    BY EventStep, HostTypeStep DEF PluginInv
  <2>3. CommandTypeOK' /\ LiteralsAgree'
    BY CommandStep DEF PluginInv
  <2>4. LeftoverInv' /\ LeaseInv'
    BY LeftoverStep, LeaseStep DEF PluginInv
  <2>5. EnabledIsProven' /\ CalledOnlyIfProven'
    BY ProvenStep DEF PluginInv
  <2>6. QED
    BY <2>1, <2>2, <2>3, <2>4, <2>5 DEF PluginInv, TypeOK
<1>3. QED
  BY <1>1, <1>2, PTL DEF Spec

LEMMA OldestIsSubSeq ==
    ASSUME LifecycleTypeOK, NEW n \in 0 .. Len(order)
    PROVE  Oldest(n) = ToSet(SubSeq(order, 1, n))
<1>1. order \in Seq(Plugins)
  BY DEF LifecycleTypeOK
<1>2. /\ DOMAIN SubSeq(order, 1, n) = 1 .. n
      /\ \A i \in 1 .. n : SubSeq(order, 1, n)[i] = order[i]
  BY <1>1
<1>3. QED
  BY <1>2 DEF Oldest, ToSet

(* Whatever the manager is doing, the enabled ones are the first few.      *)
LEMMA EnabledAreOldest ==
    ASSUME LifecycleTypeOK, LifecycleInv
    PROVE  \E n \in 0 .. Len(order) : enabled = Oldest(n)
<1>1. Len(order) \in Nat /\ Len(plan) \in Nat /\ order \in Seq(Plugins)
  BY DEF LifecycleTypeOK
<1>2. ASSUME NEW n \in 0 .. Len(order), UpTo(n)
      PROVE  enabled = Oldest(n)
  <2>1. Oldest(n) \subseteq Plugins
    BY <1>1 DEF Oldest
  <2>2. QED
    BY <1>2, <2>1 DEF UpTo, Live, Settled, LifecycleTypeOK
<1>3. ASSUME NEW n \in 1 .. Len(order), At(n)
      PROVE  enabled = Oldest(n - 1)
  <2>1. Oldest(n) = Oldest(n - 1) \cup {order[n]}
    BY <1>1, OldestStep
  <2>2. Oldest(n - 1) \subseteq enabled
    BY <1>3 DEF At, Live
  <2>3. enabled \subseteq Oldest(n) \ {order[n]}
    BY <1>3 DEF At, Settled, LifecycleTypeOK
  <2>4. QED
    BY <2>1, <2>2, <2>3
<1>4. ASSUME Settled({})
      PROVE  enabled = Oldest(0)
  BY <1>4 DEF Settled, Oldest, LifecycleTypeOK
<1>5. CASE mgr = "idle"
  BY <1>1, <1>2, <1>4, <1>5 DEF LifecycleInv, IdleInv
<1>6. CASE mgr \in {"enable", "enableCall"}
  <2>1. CASE mgr = "enable"
    <3>1. Len(order) - Len(plan) \in 0 .. Len(order) /\ UpTo(Len(order) - Len(plan))
      BY <1>1, <2>1 DEF LifecycleInv, EnableInv
    <3>2. QED
      BY <1>2, <3>1
  <2>2. CASE mgr = "enableCall"
    <3>1. /\ Len(order) - Len(plan) + 1 \in 1 .. Len(order)
          /\ At(Len(order) - Len(plan) + 1)
      BY <1>1, <2>2 DEF LifecycleInv, EnableInv, LifecycleTypeOK
    <3>2. QED
      BY <1>1, <1>3, <3>1
  <2>3. QED
    BY <1>6, <2>1, <2>2
<1>7. CASE mgr \in {"disable"} \cup Disabling
  <2>1. CASE mgr = "disable" /\ target = "disabled"
    <3>1. Len(plan) \in 0 .. Len(order) /\ (UpTo(Len(plan)) \/ Settled({}))
      BY <1>1, <2>1 DEF LifecycleInv, DisableInv
    <3>2. QED
      BY <1>1, <1>2, <1>4, <3>1
  <2>2. CASE mgr \in Disabling \/ target = "failed"
    <3>1. Len(plan) \in 1 .. Len(order) /\ At(Len(plan))
      BY <1>1, <1>7, <2>2, HeadOfPlan DEF LifecycleInv, DisableInv, Disabling
    <3>2. QED
      BY <1>1, <1>3, <3>1
  <2>3. QED
    BY <1>7, <2>1, <2>2 DEF LifecycleTypeOK
<1>8. QED
  BY <1>5, <1>6, <1>7 DEF LifecycleTypeOK, MgrPc, Disabling

\* However many plugins there are and whichever of their calls fail, those
\* enabled at any moment are the ones registered first: EnableAll goes forward,
\* its rollback and DisableAll go backward.
THEOREM DeterministicOrder == Spec => []EnabledIsPrefix
<1>1. PluginInv => EnabledIsPrefix
  BY EnabledAreOldest, OldestIsSubSeq DEF PluginInv, TypeOK, EnabledIsPrefix
<1>2. QED
  BY <1>1, PluginRuntime, PTL

\* EnableAll enables every plugin or none, and after it or DisableAll every
\* Enable that ran has had its Disable.
THEOREM Transactional == Spec => []AllOrNothing
<1>1. PluginInv => AllOrNothing
  <2> SUFFICES ASSUME PluginInv, mgr = "idle"
               PROVE  IF active THEN enabled = Registered /\ \A p \in Registered : IsEnabled(p)
                      ELSE /\ enabled = {} /\ accepting = {} /\ owed = {}
                           /\ \A p \in Plugins :
                                 state[p] \in {"registered", "disabled", "failed"}
    BY DEF AllOrNothing
  <2>1. LifecycleTypeOK /\ (IF active THEN UpTo(Len(order)) ELSE Settled({}))
    BY DEF PluginInv, TypeOK, LifecycleInv, IdleInv
  <2>2. Oldest(Len(order)) = Registered /\ Registered \subseteq Plugins
    BY <2>1 DEF LifecycleTypeOK, Oldest, Registered, ToSet
  <2>3. CASE active
    <3>1. Live(Registered) /\ Settled(Registered)
      BY <2>1, <2>2, <2>3 DEF UpTo
    <3>2. enabled = Registered
      BY <2>1, <2>2, <3>1 DEF Live, Settled, LifecycleTypeOK
    <3>3. \A p \in Registered : IsEnabled(p)
      BY <3>1 DEF Live, IsEnabled
    <3>4. QED
      BY <2>3, <3>2, <3>3
  <2>4. CASE ~active
    BY <2>1, <2>4 DEF Settled, LifecycleTypeOK
  <2>5. QED
    BY <2>3, <2>4
<1>2. QED
  BY <1>1, PluginRuntime, PTL

\* A plugin that is not enabled owns no handler and no command, even when one
\* of its goroutines was about to register when the gate closed.
THEOREM NothingLeftBehind == Spec => []NoLeftovers
<1>1. PluginInv => NoLeftovers
  <2> SUFFICES ASSUME PluginInv, NEW p \in Plugins,
                      state[p] \in {"registered", "disabled", "failed"}
               PROVE  /\ \A h \in table : h.owner # p
                      /\ \A c \in DOMAIN byID : byID[c].owner # p
    BY DEF NoLeftovers
  <2>1. p \notin Leaving({"disableCall", "removeHandlers", "removeCommands"})
    BY DEF PluginInv, LifecycleInv, DisableInv, Disabling, Leaving
  <2>2. p \notin accepting
    <3>1. LifecycleTypeOK /\ LifecycleInv
      BY DEF PluginInv, TypeOK
    <3>2. ASSUME NEW n \in 0 .. Len(order), UpTo(n)
          PROVE  p \notin accepting
      BY <3>2 DEF UpTo, Live, Settled
    <3>3. ASSUME NEW n \in 1 .. Len(order), At(n),
                 order[n] \in accepting => state[order[n]] \in {"enabling", "enabled"}
          PROVE  p \notin accepting
      BY <3>1, <3>3, OldestStep DEF At, Live, Settled
    <3>4. CASE mgr = "idle"
      <4>1. Len(order) \in 0 .. Len(order)
        BY <3>1 DEF LifecycleTypeOK
      <4>2. QED
        BY <3>1, <3>2, <3>4, <4>1 DEF LifecycleInv, IdleInv, Settled
    <3>5. CASE mgr = "enable"
      <4>1. Len(order) - Len(plan) \in 0 .. Len(order) /\ UpTo(Len(order) - Len(plan))
        BY <3>1, <3>5 DEF LifecycleInv, EnableInv, LifecycleTypeOK
      <4>2. QED
        BY <3>2, <4>1
    <3>6. CASE mgr = "enableCall"
      <4>1. /\ Len(order) - Len(plan) + 1 \in 1 .. Len(order)
            /\ At(Len(order) - Len(plan) + 1)
            /\ state[order[Len(order) - Len(plan) + 1]] = "enabling"
        BY <3>1, <3>6 DEF LifecycleInv, EnableInv, LifecycleTypeOK
      <4>2. QED
        BY <3>3, <4>1
    <3>7. CASE mgr = "disable" /\ target = "disabled"
      <4>1. Len(plan) \in 0 .. Len(order) /\ (UpTo(Len(plan)) \/ Settled({}))
        BY <3>1, <3>7 DEF LifecycleInv, DisableInv, LifecycleTypeOK
      <4>2. QED
        BY <3>2, <4>1 DEF Settled
    <3>8. CASE mgr \in Disabling \/ (mgr = "disable" /\ target = "failed")
      <4>1. plan # <<>> /\ At(Len(plan))
        BY <3>1, <3>8 DEF LifecycleInv, DisableInv, Disabling
      <4>2. Len(plan) \in 1 .. Len(order) /\ Head(plan) = order[Len(plan)]
        BY <3>1, <3>8, <4>1, HeadOfPlan
      <4>3. Head(plan) \in accepting => state[Head(plan)] \in {"enabling", "enabled"}
        BY <3>1, <3>8 DEF LifecycleInv, DisableInv, Disabling
      <4>4. QED
        BY <3>3, <4>1, <4>2, <4>3
    <3>9. QED
      BY <3>1, <3>4, <3>5, <3>6, <3>7, <3>8 DEF LifecycleTypeOK, MgrPc, Disabling
  <2>3. QED
    BY <2>1, <2>2 DEF PluginInv, LeftoverInv, Leaving
<1>2. QED
  BY <1>1, PluginRuntime, PTL

\* No handler or command of a plugin runs unless one of its Enable calls
\* succeeded, although the host works on tables and records it read earlier.
THEOREM OnlyProvenAreCalled == Spec => []CalledOnlyIfProven
<1>1. PluginInv => CalledOnlyIfProven
  BY DEF PluginInv
<1>2. QED
  BY <1>1, PluginRuntime, PTL

\* Commands and literals stay in step under every interleaving of plugins.
THEOREM LiteralsStayInStep == Spec => []LiteralsAgree
<1>1. PluginInv => LiteralsAgree
  BY DEF PluginInv
<1>2. QED
  BY <1>1, PluginRuntime, PTL

\* A plugin's access to the session behind a command source never outlives the
\* command, whichever goroutine of the plugin makes it.
THEOREM LeaseIsOver == Spec => []LeaseEndsWithCommand
<1>1. PluginInv => LeaseEndsWithCommand
  BY DEF PluginInv, LeaseInv, LeaseEndsWithCommand
<1>2. QED
  BY <1>1, PluginRuntime, PTL

===============================================================================
