--------------------------- MODULE PluginLifecycle ---------------------------
(***************************************************************************)
(* The plugin runtime: lifecycle, event subscriptions and commands         *)
(* (internal/pluginruntime/manager.go, event_bus.go, command_registry.go)  *)
(* and the host's side of a command (plugin_host.go).                      *)
(*                                                                         *)
(* Three kinds of goroutine meet in it: the one holding lifecycleMu, which *)
(* enables or disables plugins one at a time (mgr, plan, target); any      *)
(* goroutine of a plugin that has been handed its Context, which           *)
(* subscribes, registers commands and replies to command sources whenever  *)
(* it likes (registering, replying); and the host goroutine that           *)
(* dispatches events and executes commands (host, table snapshot rest).    *)
(* A critical section of a mutex is one action, and so is each atomic      *)
(* access outside one.  Task scheduling is in TaskScheduler.               *)
(***************************************************************************)
EXTENDS Integers, SequencesExt

CONSTANTS
    Plugins,             \* entries a host may register
    Names,               \* command literals
    Core,                \* the literals the host reserves
    MaxEnables,          \* calls of EnableAll (bounds the run)
    MaxHandlers,         \* event subscriptions made (bounds the run)
    MaxCommands          \* commands registered (bounds the run)

ASSUME PluginAssumption ==
    /\ Core \subseteq Names
    /\ {MaxEnables, MaxHandlers, MaxCommands} \subseteq Nat

VARIABLES
    order,               \* Manager.order
    active,              \* Manager.active
    enables,             \* EnableAll calls so far
    state,               \* entry.state
    enabled,             \* entries whose enabled flag is set
    accepting,           \* entries whose acceptSubscriptions flag is set
    mgr,                 \* program counter of the holder of lifecycleMu
    plan,                \* entries it has still to enable, or to disable
    target,              \* state the entry being disabled will end in
    owed,                \* plugins whose Enable ran and whose Disable did not
    proven,              \* plugins whose Enable succeeded at least once
    registering,         \* what a plugin goroutine waits for a mutex to do
    table,               \* the published handler table, in the order of ids
    nextHandler,         \* eventBus.nextID
    byName, byID,        \* commandRegistry.byName and byID
    nextCommand,         \* commandRegistry.nextID
    reserved,            \* commandRegistry.reserved
    host,                \* program counter of the host goroutine
    rest,                \* handlers its dispatch has still to consider
    found,               \* the command it looked up
    source,              \* a plugin holds the command's source, still active
    replying             \* a plugin goroutine holds the source's mutex

lifecycleVars == <<order, active, enables, state, enabled, accepting, mgr,
                   plan, target, owed, proven>>
eventVars     == <<table, nextHandler>>
commandVars   == <<byName, byID, nextCommand, reserved>>
hostVars      == <<host, rest, found>>
leaseVars     == <<source, replying>>

vars == <<lifecycleVars, registering, eventVars, commandVars, hostVars,
          leaseVars>>

State  == {"registered", "enabling", "enabled", "disabling", "disabled", "failed"}
MgrPc  == {"idle", "enable", "enableCall", "disable", "close", "disableCall",
           "removeHandlers", "removeCommands"}
HostPc == {"idle", "dispatch", "handler", "lookup", "command", "invalidate"}

Registered == ToSet(order)
Handler    == [id : 1 .. MaxHandlers, owner : Plugins]
Command    == [owner : Plugins, literals : SUBSET Names \ {{}}]
Nobody     == 0            \* nil; ids start at 1

Init ==
    /\ order = <<>>
    /\ active = FALSE
    /\ enables = 0
    /\ state = [p \in Plugins |-> "registered"]
    /\ enabled = {}
    /\ accepting = {}
    /\ mgr = "idle"
    /\ plan = <<>>
    /\ target = "disabled"
    /\ owed = {}
    /\ proven = {}
    /\ registering = [p \in Plugins |-> "nothing"]
    /\ table = {}
    /\ nextHandler = 0
    /\ byName = [n \in Names |-> Nobody]
    /\ byID = <<>>
    /\ nextCommand = 0
    /\ reserved = {}
    /\ host = "idle"
    /\ rest = {}
    /\ found = Nobody
    /\ source = FALSE
    /\ replying = FALSE

-----------------------------------------------------------------------------
(***************************************************************************)
(* The manager.  lifecycleMu makes each operation run alone; the state     *)
(* changes other goroutines can see in between are steps of their own.     *)
(***************************************************************************)
\* Register; a nil plugin, a duplicate id or an active manager is an error.
Register(p) ==
    /\ mgr = "idle" /\ ~active
    /\ p \notin Registered
    /\ order' = Append(order, p)
    /\ UNCHANGED <<active, enables, state, enabled, accepting, mgr, plan,
                   target, owed, proven, registering, eventVars, commandVars,
                   hostVars, leaseVars>>

\* ReserveCommands: all of the host's literals, or none if one is taken.
ReserveCommands ==
    /\ mgr = "idle" /\ ~active
    /\ \A n \in Core : byName[n] = Nobody
    /\ reserved' = reserved \cup Core
    /\ UNCHANGED <<lifecycleVars, registering, eventVars, byName, byID,
                   nextCommand, hostVars, leaseVars>>

\* EnableAll and enablePlan: one failed entry makes the whole call an error.
EnableAll ==
    /\ mgr = "idle" /\ ~active
    /\ enables < MaxEnables
    /\ enables' = enables + 1
    /\ \A p \in Registered : state[p] \in {"registered", "disabled"}
    /\ mgr' = "enable"
    /\ plan' = order
    /\ UNCHANGED <<order, active, state, enabled, accepting, target, owed,
                   proven, registering, eventVars, commandVars, hostVars,
                   leaseVars>>

\* The gates of the next entry are opened and its Enable is called.
EnableNext ==
    /\ mgr = "enable" /\ plan # <<>>
    /\ mgr' = "enableCall"
    /\ LET p == Head(plan)
       IN  /\ enabled' = enabled \ {p}
           /\ accepting' = accepting \cup {p}
           /\ state' = [state EXCEPT ![p] = "enabling"]
           /\ owed' = owed \cup {p}
    /\ UNCHANGED <<order, active, enables, plan, target, proven, registering,
                   eventVars, commandVars, hostVars, leaseVars>>

EnableSucceeds ==
    /\ mgr = "enableCall"
    /\ mgr' = "enable"
    /\ LET p == Head(plan)
       IN  /\ enabled' = enabled \cup {p}
           /\ state' = [state EXCEPT ![p] = "enabled"]
           /\ proven' = proven \cup {p}
    /\ plan' = Tail(plan)
    /\ UNCHANGED <<order, active, enables, accepting, target, owed, registering,
                   eventVars, commandVars, hostVars, leaseVars>>

\* The entries enabled so far in this call, oldest first.
EnabledSoFar == SubSeq(order, 1, Len(order) - Len(plan))

\* Mutant: only the failing plugin is cleaned up.
EnableFailsKeepsOthers ==
    /\ mgr = "enableCall"
    /\ mgr' = "disable"
    /\ target' = "failed"
    /\ plan' = <<Head(plan)>>
    /\ UNCHANGED <<order, active, enables, state, enabled, accepting, owed,
                   proven, registering, eventVars, commandVars, hostVars,
                   leaseVars>>

\* Enable returns an error or panics: the failing plugin is cleaned up first
\* and ends failed, then those enabled before it, the latest first.
EnableFails ==
    /\ mgr = "enableCall"
    /\ mgr' = "disable"
    /\ target' = "failed"
    /\ plan' = <<Head(plan)>> \o Reverse(EnabledSoFar)
    /\ UNCHANGED <<order, active, enables, state, enabled, accepting, owed,
                   proven, registering, eventVars, commandVars, hostVars,
                   leaseVars>>

EnableDone ==
    /\ mgr = "enable" /\ plan = <<>>
    /\ mgr' = "idle"
    /\ active' = TRUE
    /\ UNCHANGED <<order, enables, state, enabled, accepting, plan, target,
                   owed, proven, registering, eventVars, commandVars, hostVars,
                   leaseVars>>

IsEnabled(p) == state[p] = "enabled"

\* Mutant: the plugins are disabled in registration order.
DisableAllForward ==
    /\ mgr = "idle"
    /\ mgr' = "disable"
    /\ plan' = order
    /\ target' = "disabled"
    /\ UNCHANGED <<order, active, enables, state, enabled, accepting, owed,
                   proven, registering, eventVars, commandVars, hostVars,
                   leaseVars>>

DisableAll ==
    /\ mgr = "idle"
    /\ mgr' = "disable"
    /\ plan' = Reverse(order)
    /\ target' = "disabled"
    /\ UNCHANGED <<order, active, enables, state, enabled, accepting, owed,
                   proven, registering, eventVars, commandVars, hostVars,
                   leaseVars>>

\* DisableAll passes over what is not enabled; a rollback meets nothing such,
\* but the plugin whose Enable failed.
DisableSkip ==
    /\ mgr = "disable" /\ plan # <<>>
    /\ ~IsEnabled(Head(plan)) /\ target = "disabled"
    /\ plan' = Tail(plan)
    /\ UNCHANGED <<order, active, enables, state, enabled, accepting, mgr, target,
                   owed, proven, registering, eventVars, commandVars, hostVars,
                   leaseVars>>

\* disableEntry: first no more invocations ...
DisableGate ==
    /\ mgr = "disable" /\ plan # <<>>
    /\ IsEnabled(Head(plan)) \/ target = "failed"
    /\ mgr' = "close"
    /\ enabled' = enabled \ {Head(plan)}
    /\ UNCHANGED <<order, active, enables, state, accepting, plan, target,
                   owed, proven, registering, eventVars, commandVars, hostVars,
                   leaseVars>>

\* ... then no more registrations, and Disable is called.
DisableClose ==
    /\ mgr = "close"
    /\ mgr' = "disableCall"
    /\ accepting' = accepting \ {Head(plan)}
    /\ state' = [state EXCEPT ![Head(plan)] = "disabling"]
    /\ UNCHANGED <<order, active, enables, enabled, plan, target, owed, proven,
                   registering, eventVars, commandVars, hostVars, leaseVars>>

\* Disable returns; an error or a panic makes the plugin failed.
DisableReturns ==
    /\ mgr = "disableCall"
    /\ mgr' = "removeHandlers"
    /\ target' \in {target, "failed"}
    /\ owed' = owed \ {Head(plan)}
    /\ UNCHANGED <<order, active, enables, state, enabled, accepting, plan,
                   proven, registering, eventVars, commandVars, hostVars,
                   leaseVars>>

RemoveHandlers ==
    /\ mgr = "removeHandlers"
    /\ mgr' = "removeCommands"
    /\ table' = {h \in table : h.owner # Head(plan)}
    /\ UNCHANGED <<order, active, enables, state, enabled, accepting, plan,
                   target, owed, proven, registering, nextHandler, commandVars,
                   hostVars, leaseVars>>

\* Forget the commands in cs, each with all of its literals.
Forget(cs) ==
    /\ byID' = [c \in DOMAIN byID \ cs |-> byID[c]]
    /\ byName' = [n \in Names |-> IF byName[n] \in cs THEN Nobody ELSE byName[n]]

\* commands.removeOwner and the final state of the entry.
RemoveCommands ==
    /\ mgr = "removeCommands"
    /\ mgr' = "disable"
    /\ Forget({c \in DOMAIN byID : byID[c].owner = Head(plan)})
    /\ state' = [state EXCEPT ![Head(plan)] = target]
    /\ plan' = Tail(plan)
    /\ target' = "disabled"
    /\ UNCHANGED <<order, active, enables, enabled, accepting, owed, proven,
                   registering, eventVars, nextCommand, reserved, hostVars,
                   leaseVars>>

DisableDone ==
    /\ mgr = "disable" /\ plan = <<>>
    /\ mgr' = "idle"
    /\ active' = FALSE
    /\ UNCHANGED <<order, enables, state, enabled, accepting, plan, target,
                   owed, proven, registering, eventVars, commandVars, hostVars,
                   leaseVars>>

-----------------------------------------------------------------------------
(***************************************************************************)
(* The plugins' side.  A registration looks at acceptSubscriptions before  *)
(* it takes the mutex, and again once it holds it.                         *)
(***************************************************************************)
BeginRegistration(p, what) ==
    /\ p \in accepting
    /\ registering[p] = "nothing"
    /\ registering' = [registering EXCEPT ![p] = what]
    /\ UNCHANGED <<lifecycleVars, eventVars, commandVars, hostVars, leaseVars>>

EndRegistration(p, what) ==
    /\ registering[p] = what
    /\ registering' = [registering EXCEPT ![p] = "nothing"]
    /\ UNCHANGED <<lifecycleVars, hostVars, leaseVars>>

\* Mutant: the flag is not looked at again under the mutex.
SubscribeTrusts(p) ==
    /\ EndRegistration(p, "subscription")
    /\ nextHandler < MaxHandlers
    /\ nextHandler' = nextHandler + 1
    /\ table' = table \cup {[id |-> nextHandler + 1, owner |-> p]}
    /\ UNCHANGED commandVars

Subscribe(p) ==
    /\ EndRegistration(p, "subscription")
    /\ IF p \in accepting
       THEN /\ nextHandler < MaxHandlers
            /\ nextHandler' = nextHandler + 1
            /\ table' = table \cup {[id |-> nextHandler + 1, owner |-> p]}
       ELSE UNCHANGED eventVars
    /\ UNCHANGED commandVars

\* Subscription.Cancel, by whoever holds the subscription.
CancelSubscription(h) ==
    /\ table' = table \ {h}
    /\ UNCHANGED <<lifecycleVars, registering, nextHandler, commandVars,
                   hostVars, leaseVars>>

Free(n) == n \notin reserved /\ byName[n] = Nobody

Publish(p, literals) ==
    /\ nextCommand < MaxCommands
    /\ nextCommand' = nextCommand + 1
    /\ byID' = [c \in DOMAIN byID \cup {nextCommand'} |->
                   IF c = nextCommand' THEN [owner |-> p, literals |-> literals]
                                       ELSE byID[c]]
    /\ byName' = [n \in Names |-> IF n \in literals THEN nextCommand'
                                                   ELSE byName[n]]

\* Mutant: only one of the literals has to be free.
RegisterCommandAnyFree(p, literals) ==
    /\ EndRegistration(p, "command")
    /\ IF p \in accepting /\ \E n \in literals : Free(n)
       THEN Publish(p, literals)
       ELSE UNCHANGED <<byName, byID, nextCommand>>
    /\ UNCHANGED <<eventVars, reserved>>

\* The name and its aliases: all of them, or none if one is reserved or taken.
RegisterCommand(p, literals) ==
    /\ EndRegistration(p, "command")
    /\ IF p \in accepting /\ \A n \in literals : Free(n)
       THEN Publish(p, literals)
       ELSE UNCHANGED <<byName, byID, nextCommand>>
    /\ UNCHANGED <<eventVars, reserved>>

Unregister(c) ==
    /\ Forget({c})
    /\ UNCHANGED <<lifecycleVars, registering, eventVars, nextCommand, reserved,
                   hostVars, leaseVars>>

-----------------------------------------------------------------------------
(***************************************************************************)
(* The host's side: dispatch and ExecuteCommand.  Both look at the owner's *)
(* enabled flag, then call the plugin.                                     *)
(***************************************************************************)
\* Handlers are called in the order in which they subscribed.
First(handlers) == CHOOSE h \in handlers : \A g \in handlers : h.id <= g.id

\* One load of the immutable table serves the whole dispatch.
Dispatch ==
    /\ host = "idle" /\ table # {}
    /\ host' = "dispatch"
    /\ rest' = table
    /\ UNCHANGED <<lifecycleVars, registering, eventVars, commandVars, found,
                   leaseVars>>

\* Mutant: the handlers of a plugin that is not enabled are called too.
DispatchAll ==
    /\ host = "dispatch" /\ rest # {}
    /\ host' = "handler"
    /\ UNCHANGED <<lifecycleVars, registering, eventVars, commandVars, rest,
                   found, leaseVars>>

DispatchNext ==
    /\ host = "dispatch" /\ rest # {}
    /\ IF First(rest).owner \in enabled
       THEN host' = "handler" /\ UNCHANGED rest
       ELSE host' = "dispatch" /\ rest' = rest \ {First(rest)}
    /\ UNCHANGED <<lifecycleVars, registering, eventVars, commandVars, found,
                   leaseVars>>

\* An error or a panic of a handler does not keep the next one from running.
HandlerReturns ==
    /\ host = "handler"
    /\ host' = "dispatch"
    /\ rest' = rest \ {First(rest)}
    /\ UNCHANGED <<lifecycleVars, registering, eventVars, commandVars, found,
                   leaseVars>>

DispatchDone ==
    /\ host = "dispatch" /\ rest = {}
    /\ host' = "idle"
    /\ UNCHANGED <<lifecycleVars, registering, eventVars, commandVars, rest,
                   found, leaseVars>>

\* executePluginCommand looks the command up under the RLock ...
ExecuteCommand(n) ==
    /\ host = "idle" /\ byName[n] # Nobody
    /\ host' = "lookup"
    /\ found' = byID[byName[n]].owner
    /\ UNCHANGED <<lifecycleVars, registering, eventVars, commandVars, rest,
                   leaseVars>>

\* ... and hands the source to the handler only if the owner is enabled.
ExecuteCheck ==
    /\ host = "lookup"
    /\ host' = IF found \in enabled THEN "command" ELSE "invalidate"
    /\ source' = (found \in enabled)
    /\ UNCHANGED <<lifecycleVars, registering, eventVars, commandVars, rest,
                   found, replying>>

CommandReturns ==
    /\ host = "command"
    /\ host' = "invalidate"
    /\ UNCHANGED <<lifecycleVars, registering, eventVars, commandVars, rest,
                   found, leaseVars>>

\* Mutant: the source is invalidated without its mutex.
InvalidateUnlocked ==
    /\ host = "invalidate"
    /\ host' = "idle"
    /\ source' = FALSE
    /\ found' = Nobody
    /\ UNCHANGED <<lifecycleVars, registering, eventVars, commandVars, rest,
                   replying>>

\* invalidate waits for an access in progress.
Invalidate ==
    /\ host = "invalidate" /\ ~replying
    /\ host' = "idle"
    /\ source' = FALSE
    /\ found' = Nobody
    /\ UNCHANGED <<lifecycleVars, registering, eventVars, commandVars, rest,
                   replying>>

\* A goroutine of the plugin that was handed the source, in the handler or
\* long after it; Kind, Player and Reply all look at active under the mutex.
BeginReply ==
    /\ ~replying /\ source
    /\ replying' = TRUE
    /\ UNCHANGED <<lifecycleVars, registering, eventVars, commandVars, hostVars,
                   source>>

EndReply ==
    /\ replying
    /\ replying' = FALSE
    /\ UNCHANGED <<lifecycleVars, registering, eventVars, commandVars, hostVars,
                   source>>
-----------------------------------------------------------------------------
Manager == \/ (\E p \in Plugins : Register(p)) \/ ReserveCommands
           \/ EnableAll \/ EnableNext \/ EnableSucceeds \/ EnableFails
           \/ EnableDone
           \/ DisableAll \/ DisableSkip \/ DisableGate \/ DisableClose \/ DisableReturns
           \/ RemoveHandlers \/ RemoveCommands \/ DisableDone

PluginSide ==
    \/ \E p \in Plugins :
          \/ \E what \in {"subscription", "command"} : BeginRegistration(p, what)
          \/ Subscribe(p)
          \/ \E literals \in SUBSET Names \ {{}} : RegisterCommand(p, literals)
    \/ \E h \in table : CancelSubscription(h)
    \/ \E c \in DOMAIN byID : Unregister(c)
    \/ BeginReply \/ EndReply

Host == \/ Dispatch \/ DispatchNext \/ HandlerReturns \/ DispatchDone
        \/ (\E n \in Names : ExecuteCommand(n))
        \/ ExecuteCheck \/ CommandReturns \/ Invalidate

Next == Manager \/ PluginSide \/ Host

Spec == Init /\ [][Next]_vars

-----------------------------------------------------------------------------
(***************************************************************************)
(* Properties.                                                             *)
(***************************************************************************)
LifecycleTypeOK ==
    /\ order \in Seq(Plugins) /\ IsInjective(order)
    /\ active \in BOOLEAN
    /\ enables \in 0 .. MaxEnables
    /\ state \in [Plugins -> State]
    /\ enabled \subseteq Plugins /\ accepting \subseteq Plugins
    /\ mgr \in MgrPc
    /\ plan \in Seq(Plugins)
    /\ target \in {"disabled", "failed"}
    /\ owed \subseteq Plugins /\ proven \subseteq Plugins

EventTypeOK ==
    /\ nextHandler \in 0 .. MaxHandlers
    /\ table \subseteq Handler /\ rest \subseteq Handler
    /\ \A h \in table : h.id <= nextHandler
    /\ \A g, h \in table : g.id = h.id => g = h

CommandTypeOK ==
    /\ nextCommand \in 0 .. MaxCommands
    /\ DOMAIN byID \subseteq 1 .. nextCommand
    /\ \A c \in DOMAIN byID : byID[c] \in Command
    /\ byName \in [Names -> {Nobody} \cup DOMAIN byID]
    /\ reserved \subseteq Names

HostTypeOK ==
    /\ registering \in [Plugins -> {"nothing", "subscription", "command"}]
    /\ host \in HostPc
    /\ found \in {Nobody} \cup Plugins
    /\ source \in BOOLEAN /\ replying \in BOOLEAN

\* Every variable keeps its type: no plugin is registered twice, a subscription
\* has an id of its own, and a literal names a command that exists.
TypeOK == LifecycleTypeOK /\ EventTypeOK /\ CommandTypeOK /\ HostTypeOK

\* "deterministic registration/enable/reverse-disable order"
\* (docs/PLUGIN_API_LOG.md:16): whatever fails, the plugins that are enabled at
\* any moment are the ones registered first, so a plugin may rely on those
\* registered before it.
EnabledIsPrefix ==
    \E n \in 0 .. Len(order) : enabled = ToSet(SubSeq(order, 1, n))

\* EnableAll is transactional and DisableAll complete: between operations
\* either the manager is active and every plugin is enabled, or none is, none
\* can register anything, and every Enable that ran has had its Disable.
AllOrNothing ==
    mgr = "idle" =>
        IF active THEN enabled = Registered /\ \A p \in Registered : IsEnabled(p)
        ELSE /\ enabled = {} /\ accepting = {} /\ owed = {}
             /\ \A p \in Plugins : state[p] \in {"registered", "disabled", "failed"}

\* "Disable/rollback must leave no event handler, command ... belonging to
\* that plugin" (docs/PLUGIN_API_LOG.md:96), even when a goroutine of the
\* plugin was about to register when the gate closed.
NoLeftovers ==
    \A p \in Plugins : state[p] \in {"registered", "disabled", "failed"} =>
        /\ \A h \in table : h.owner # p
        /\ \A c \in DOMAIN byID : byID[c].owner # p

\* A command answers to all of its literals or does not exist, no literal is
\* left behind by a removed one, and the host's literals are never a plugin's.
LiteralsAgree ==
    /\ \A c \in DOMAIN byID : byID[c].literals = {n \in Names : byName[n] = c}
    /\ \A n \in reserved : byName[n] = Nobody

\* What a plugin registered in an Enable that failed is never called: a handler
\* or command runs only for a plugin whose Enable succeeded.
CalledOnlyIfProven ==
    /\ host = "handler" => First(rest).owner \in proven
    /\ host = "command" => found \in proven

\* "once command dispatch returns, retained sources report SourceUnknown,
\* Player() fails and Reply() becomes a no-op" (docs/PLUGIN_API_LOG.md:81):
\* no access to the session is in progress once the command is over.
LeaseEndsWithCommand == replying => host \in {"command", "invalidate"}

=============================================================================
