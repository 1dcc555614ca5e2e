# A verification of CyuCore 26.2

CyuCore is a Minecraft 26.2 server in Go: network goroutines decode packets and
hand values to one tick goroutine, which owns the world, the players and every
call into plugins. This directory holds TLA+ models of that machinery, their TLC
runs, and proofs of its central invariants for every number of sessions and plugins.
Its data (registries, tags) is recorded from a vanilla server by a tool of the same
repository; that tool, the codecs it shares with the server, and the server's start
from what it wrote are modelled as well.

## 1. The system

| Part | Source | State it keeps | Operations |
|---|---|---|---|
| Runtime mailbox | `internal/runtime/mailbox/queue.go` | a bounded channel, an unbounded critical list | `TryPost`, `PostCritical`, `TryPop` (one consumer, two steps) |
| Session | `session.go`, `session_login.go`, `session_play.go` | protocol state, name, `registered`, `closeOnce`, outbound queue | packet handlers, `enterPlay`, `SendPacket`, `Close` |
| Server and roster | `server.go` | `players` map, `onlineCount`, `running` | `Start`, `Stop`, `acceptLoop`, `AddPlayer`, `RemovePlayer`, broadcasts, kick |
| Runtime owner | `player_state.go`, `internal/runtime/tick/loop.go` | the tick, stop and done channels | `tick`, `drainRuntimeEvents`, `applyRuntimeEvent`, loop `Start`/`Stop` |
| Player snapshot | `player_state.go` | a seqlock over seven fields | `Store` (tick owner), `Load` (console, plugins) |
| Plugin manager | `internal/pluginruntime/manager.go` | entries, order, states, gates | `Register`, `ReserveCommands`, `EnableAll`, `DisableAll` |
| Event bus | `internal/pluginruntime/event_bus.go` | an immutable handler table | `subscribe`, `Cancel`, `removeOwner`, `dispatch` |
| Commands | `internal/pluginruntime/command_registry.go`, `plugin_host.go` | literals, reserved literals, the source's lease | `register`, `Unregister`, `removeOwner`, `execute`, `invalidate` |
| Task scheduler | `internal/pluginruntime/scheduler.go` | clock, heap, registrations per owner | `AfterTicks`, `EveryTicks`, `Cancel`, `openOwner`, `closeOwner`, `advance` |
| World, built-in commands, joining | `world.go`, `commands.go`, `session_play.go`, `server.go` | blocks, world age, time of day; each player's position and mode; each client's queue | `SetBlock`, `AdvanceTime`, the commands, moves, broadcasts, the replay of `AddPlayer` |
| Process | `main.go`, `console.go` | `stopChan`, `sigChan` | start, console commands, signals, exit |
| Codec | `internal/protocol/codec.go`, `types.go`, `chunk.go` | none | VarInt, strings, framing, packet layout |
| NBT | `internal/nbt` | none | network NBT to values, values to typed JSON, and both back |
| Registries | `internal/registry`, `internal/protocol/java/v776`, `vanilla_data.go` | an immutable set after startup | `DecodeDataset`, `NewSet`, `ValidateConfigurationSet`, the encoders of RegistryData and UpdateTags |
| Capture | `cmd/vanilla-capture`, `internal/vanilla/capture`, `internal/vanilla/datagen` | a session with a vanilla server; two files | read the report, play the client, build the data set, replace both files |

How they meet: a reader goroutine per session runs the protocol state machine and
posts *values* to the mailbox; the tick owner pops at most 1024 of them per tick
and applies them; anything that fails on a session calls `Close`, on whichever
goroutine it happens, and `Close` posts the cleanup to the mailbox's critical
lane; `Server.Stop` closes everybody, posts a barrier to the same lane, waits for
it, stops the loop and disables the plugins. Plugins are called by the tick owner
only, but their own goroutines may subscribe, schedule, cancel and reply at any
moment. The capture is another process: it talks to a vanilla server and leaves a data
set and a manifest, which are embedded in the server at build time, checked when it
starts, and sent to every client.

What is hard in it is the concurrency. `Close` may run on four kinds of
goroutine, in the middle of `AddPlayer`, of a broadcast or of `Stop`; `TryPop`
looks at its two lanes in two steps; `RemovePlayer` checks whether the loop runs
and acts on the answer later; a scheduled task is held by the tick owner outside
the lock; a plugin's registration may be on its way while the plugin is disabled.
In the capture it is what a fault leaves behind, and that six conversions (NBT read,
JSON written and read, NBT written, ids to names and back) must add up to the
identity at every edge of every type.
`PROJECT.json` lists these hazards line by line with the properties about them.

What makes each part correct:

- mailbox: nothing accepted is lost or reordered within a lane, and lifecycle
  work is not starved by gameplay;
- session and roster: a closed session stays closed, a player that was published
  is removed exactly once, the flags, the map and the counter agree, plugins see
  one join and one quit and no two players with a name;
- shutdown: `Stop` returns, and the barrier really covers what was closed;
- scheduler, event bus, commands: nothing of a disabled plugin is left or runs,
  bookkeeping stays exact under every interleaving, no task starves;
- snapshot: a reader never sees a mixture of two states, or an old one;
- gameplay: whatever joins, leaves, moves and overflows, a client that is still
  connected has been sent the world, the players and the clock the server has;
- process: asked once, it ends, and not before the shutdown is over;
- data: what the capture leaves on disk, whatever interrupts it, is what a server
  starts with, and what that server sends is byte by byte what the vanilla server
  might have sent; what is no such data is refused before anything is written.

## 2. Modules

| Module | Models | Notes |
|---|---|---|
| `Mailbox` | `queue.go`, as operators on `values`, `critical`, `passed` | `passed` is the moment between the two looks of `TryPop` |
| `MailboxClients` | the mailbox with producers, its consumer and histories | |
| `MailboxProofs` | the proofs about `MailboxClients` | |
| `PlayerLifecycle` | sessions, `Close`, roster, tick owner, `Stop`; extends `Mailbox` | the core of the project |
| `ServerProcess` | `main`, `Server.Start`, the console and signals around it; extends `PlayerLifecycle` | |
| `Roster` | what plugins are promised about joins and quits | abstract specification |
| `MCPlayerLifecycle` | symmetry, and a documented statement the code does not keep | |
| `PlayerLifecycleProofs` | the proofs about `PlayerLifecycle`: types, cleanup, roster, and that it implements `Roster` | |
| `ShutdownProofs` | the proofs about `Stop` and about `ServerProcess`; extends `PlayerLifecycleProofs` | |
| `TaskScheduler` | `scheduler.go` and the gates the manager moves | |
| `TaskSchedulerProofs` | the proofs about `TaskScheduler` | |
| `PluginLifecycle` | `manager.go`, `event_bus.go`, `command_registry.go`, the command source | |
| `PluginProofs` | the proofs about `PluginLifecycle` | |
| `PlayerSnapshot`, `PlayerSnapshotProofs` | the seqlock and its proof | |
| `World` | `world.go`, and the packed positions of `types.go` | integers wrap at their (scaled) width |
| `Wire` | VarInts, strings, framed packets of `codec.go`, reads that come to an end | pure operators on sequences of bytes |
| `Nbt` | `internal/nbt`: Modified UTF-8, the four directions, the limits; extends `Wire` | recursive operators, so no theorems there; only the MC module extends it |
| `Registries` | `model.go`, `dataset.go`, `v776`: what a set may be, the checks, the packets; extends `Wire` | the codec of the values is a parameter (`ReadValue`, `WriteValue`, `ValueOfJSON`, `JSONOfValue`), `Nbt` in the run |
| `CaptureData` | `capture/configuration.go`, `datagen`: report, decoders, `BuildDataset`, `MarshalDataset`, manifest; extends `Registries` | |
| `VanillaCapture`, `MCVanillaCapture` | `cmd/vanilla-capture/main.go` step by step, the files, and the load at the start of the server; extends `CaptureData` | the MC module holds 93 vanilla servers |
| `CaptureProofs` | the proofs about framing, registries, tags and the capture | |
| `Gameplay`, `MCGameplay` | the handlers of Play events, the commands, joining and leaving, the outbound queue; extends `World` | what clients see |
| `GameplayProofs` | the proofs about `Gameplay` | |

`PlayerLifecycle` in more detail. Every goroutine has a program counter:
`reader[s]` (readLoop), `closing[s]` with `closer[s]` (the one that won
`closeOnce`), `removal[s]` (`removePlayerOwned`), `tick` with `current` and
`drained` (the tick owner), `stop` with `unvisited` (`Stop`). An action is one
atomic access of the code: the CAS of a state, a `sync.Map` operation, a mailbox
operation. A goroutine inside `Close` runs nothing else, which `Busy` expresses:
when the tick owner overflows a client's queue in a broadcast, its program counter
waits until the steps of that `Close` are over. `sync.Map.Range` is modelled as it
is documented: every key once, in any order, each with the value it has at that
moment. The fields `running`, `stopCh` and the manager's state are functions of
`stop`, because only `Stop` writes them.

In `ServerProcess` a step of the server is any step of `PlayerLifecycle` but the
beginning of `Stop`, which is a call of the console or of `main`; the caller whose
`Swap` wins is `stopper`, and the other one's call is over at once. The model stops
when `main` returns, as the process does. `Start` is its failures and its success:
nothing can happen between its steps, because neither reader nor caller of `Stop`
exists yet. That `signal.Notify` comes a moment after the console is started is left
out: a signal in that moment kills the process like any other before it.

In `TaskScheduler` and `PluginLifecycle` a critical section is one action and every
atomic access outside a lock is one of its own; `container/heap` and the
copy-on-write table are taken for what they promise (the table is a set whose
members are called in the order of their ids, since a rebuilt table keeps it). `life` of the scheduler is
what `disableEntry` does to `enabled` and `open`, in its order. In
`PluginLifecycle` the pieces of `EnableAll` and `DisableAll` between which another
goroutine can run are actions of the holder of `lifecycleMu` (`mgr`, and `plan`,
what its loop has still to visit; `DisableSkip` passes over a plugin that is not
enabled), and a registration is two steps, one for the look at `acceptSubscriptions` before the
mutex and one under it. Enabling a plugin sets `acceptSubscriptions` and the state of its
entry in one step (`EnableNext`): between the two nothing looks at the state that does not
wait for `lifecycleMu`, but for a status query.

In `Gameplay` a handler changes the tick-owned state in one step, as nobody else
writes it, and leaves the packets it is about to send in `outgoing` (and the blocks
of a join in `replay`); each `SendPacket` is then a step, between which writers,
keep-alives, kicks and failing connections go on, and a queue that is full closes
its session. A queue is only its length: what was accepted is delivered in order
or, if the session closes, not at all, so `view[s]` folds the accepted packets into
what the client of `s` will know. The client (`Deliver`) is external to the
repository. The mailbox is left out, since any event of a session in Play may come
next and the properties hold for all of them; names are distinct, since
`PlayerLifecycle` has the duplicates. One axis stands for x, y and z, which are
packed alike. A position is a place; the void is the one below y = -10.

In `VanillaCapture` the vanilla server is external. It has a *scenario*: the forms
its RegistryData and UpdateTags may have on the network, its report, and whether a
vanilla server may hold this at all (`sound`). Packets are sequences of bytes,
written out by hand in `MCVanillaCapture` and not by the encoders of the model, so
that a mistake a reader shares with a writer shows. The bytes are those of the
network with two reductions: an integer has half its width (Int and Float two bytes,
Long and Double four), and an identifier is one symbol above 255, ordered as the
strings are. `VanillaSends` chooses the next packet in its order, or, a bounded number
of times, out of it; `ConnectionLost` cuts the packet that is under way at nothing, half,
all but the last byte, or the end. `Killed` ends the process and leaves the disk as it is.
`PowerFails` may come during a run or after it: a version of a file that was not synced is torn,
and each of the two files goes back to any version it has had since the last power failure
(`saved`), because `writeFileAtomic` syncs the file but not the directory it renames it in.
`lost` is a history variable: the files whose last replacement has been taken back so. Building and checking the data
set is one step with the end of the session, since nothing outside can see between.
`Start` is a CyuCore that was built with the files and started. Versions and the kind of source in
the manifest are the same constants in the tool and the server and are left out;
what remains of it are its two hashes.

What the data is reduced to: in `PlayerLifecycle` packets are left out except for what they do to the
session (an overflow closes it); all gameplay events are one kind, `PlayerChat`,
because `applyRuntimeEvent` treats them alike; snapshots are the number of the
`Store` that wrote them; names are lower-cased already.

## 3. Runs

| Run | Question | Result |
|---|---|---|
| `MailboxLanes` | Are the lanes lossless and FIFO, and how strong is the priority? | Yes; a waiting critical value is overtaken by at most one ordinary value (`OvertakenOnce`), and everything accepted is returned |
| `Shutdown` | Two sessions, one name, `Stop` at any moment, a barrier that may time out: do cleanup, roster, flags, count and plugin view agree? | Yes; refines `Roster`; the barrier covers everybody `Stop` closed |
| `LifecycleLiveness` | Do closed players leave, are pending clients admitted or dropped, and is what a client sent applied only while it is in the world? | Yes, with a mailbox of one slot |
| `ServerProcess` | Stopped on the console, by a signal or both: does the process end, without the timeout, and shut down first? | Yes, but not if both ask (below) |
| `ShutdownDrains` | Does shutdown drain all registered players? | **No**, see below |
| `Scheduler` | Are heap, flags, registrations and counters exact? Does a task starve, or burst? | Exact; late by at most the ticks it takes to run every other task once; fixed delay |
| `SchedulerCancel` | Does `Cancel` prevent every invocation that has not begun? | **No**, see below |
| `Plugins` | Is `EnableAll` transactional, with the documented order? Are handlers and literals exact and clean after a disable, and the source dead after the command? | Yes |
| `Seqlock` | Is a snapshot coherent and fresh? | Yes |
| `Gameplay` | Does what clients are sent add up to the server's world, players and clock? | Yes; positions that are packed alike are one to a client (`BlocksAgree`), and it is never 20 ticks behind |
| `VanillaCapture` | Does what is on disk always load, and does the server then send what the vanilla server did? Is all sound data captured, everything else refused, and does a run end? | Yes |
| `JoinBurst` | Does one event send no more than an empty queue holds? | **No**, see below |

The three disagreements between documents and code:

- `ShutdownDrains`. `docs/PLUGIN_API_LOG.md:39` promises that shutdown drains the
  lifecycle work of registered players before the loop stops and plugins are
  disabled. `Stop` closes the players its `Range` finds, but the tick owner still
  admits those whose `EnterPlay` is queued. One that is stored after the `Range`
  has passed is never closed; the plugin has seen its `PlayerJoin` and is disabled
  without a `PlayerQuit`. What does hold is `StopDrainsWhatItClosed`.
- `SchedulerCancel`. `api/scheduler/scheduler.go:20-22` says cancellation prevents
  future invocations. Between `heap.Pop` and the call of the handler the lock is
  free and only the owner's flag is looked at, so a `Cancel` that returns true in
  that window is followed by an invocation.
- `JoinBurst`. `docs/DEVLOG.md:92` treats a full outbound queue as a slow-client
  failure. `AddPlayer` sends one packet per block ever set, 256 of them for the
  spawn platform, without waiting for the writer of a queue of 128: a client whose
  queue was empty is closed if the tick owner outruns its writer. Nothing ever
  leaves `modifiedBlocks`, so the burst grows with every position built on.

Four more were met and are not given a run. A second `Stop` returns at once while
the first is still draining (`server.go:95`), and `main` exits when either returns: an
operator who types `stop` and then presses Ctrl-C gets the log line "Server stopped" and
an end of the process before players are removed and plugins disabled. `ExitAfterShutdown`
is what holds for who asks once. `docs/PLUGIN_API_LOG.md:94` says
network goroutines never invoke plugin gameplay callbacks directly; after the loop
has stopped and before the plugins are disabled, `RemovePlayer` (`server.go:284`)
runs the `PlayerQuit` handlers on the closing goroutine. While the loop runs the
statement is true (`HandlersOnTickWhileRunning`, proved). `queue.go:42` says critical values are
returned before ordinary ones, which the two steps of `TryPop` weaken to
`OvertakenOnce`; and `max_players` (`config.yml:8`) is reported to clients but
never enforced by `AddPlayer`.

Bounds, and why they are enough. `Shutdown` and `ShutdownDrains` have two sessions; `ServerProcess`
has one, because its question is who waits for whom, and every wait is for the tick
owner or for one session; for the same reason its client sends nothing in Play, which is left to
`LifecycleLiveness`. There both clients skip `LoginStart`, so that they share the empty name, and a
tick takes one event, so that the other session closes between event and tick. Two sessions and one name are what a duplicate
login, a reconnect and a cleanup racing a registration need; a third session would
only repeat one of the two roles. A mailbox of capacity 1 is full as soon as the
other session has posted. Two events per tick let a tick end with work still
queued and with none. One Play packet per client is enough to have an event queued
when its sender closes. In the mailbox runs every producer posts three values on
either lane, so that both lanes hold several. The scheduler has three
registrations for a budget of one, so that due tasks are left over for two ticks,
and `MaxUint` is 4, so that the end of the clock is reached. Two plugins, whose
Enable and Disable may both fail, have an order to be disabled in; two enables
show what survives a disable; the theorems hold for any number. The seqlock
has three fields and three Stores, so that two Stores may fit between two loads.
`Gameplay` has two players with a queue of three packets, fewer than a join needs,
so that overflows happen in the middle of everything; two events of clients, which
can conflict (a block set twice, a move before a teleport, the time changed while a
player joins); positions of one bit (`CoordinateLimit` is 1), so that two of the four
coordinates alias; and a clock of three bits (`TickLimit` is 4) with a day and a rate of 3,
so that it wraps within the run. `GameplayAssumption` asks of the width what the code's 64
bits have: 2^63 is 8 modulo 20, so the multiples of the rate on both sides of the wrap are
16 apart, which is at most the rate.
`JoinBurst` uses the real sizes.

`VanillaCapture` has two synchronized registries and a static one, so that ids come
from both sources and a sequence has an order; `MaxRegistryData` of 3 is one more
than the sequence. Every other scenario differs from the plain one in one thing: 39
values that sit at an edge of their type, 17 that are no value, ten frames of a registry, tags,
reports whose names and ids are in different orders, a registry with more than 128
entries, whose ids need two bytes. Faults of the server (`faults`, two) are tried
on the plain scenario only, as they are about the order of packets, not their content;
lost connections, deadlines, failing writes, kills and power failures on all. The limits are small and
just large enough: `MaxPacketSize` is the length of the largest packet, `MaxDepth`
and the string limits are reached by one value and passed by another. Two runs (`MaxRuns`)
find on disk an older data set, nothing, or what the first left, half of it included, also
after a power failure between the two. With no run going on, power fails only when a replacement
can be lost, as it changes nothing otherwise.

Fairness. `PlayerLifecycle!Fairness` gives every goroutine that has a step of its
own weak fairness: Go schedules every runnable goroutine, and none of these steps
waits for a peer outside the process. Clients, the operator and the network owe
nothing: no packet, kick, error or `Stop` need ever happen. `TickExit` is strongly
fair, because `select` chooses at random among ready cases, so a loop that finds a
due tick every time still takes `stopCh` eventually. The timer of the barrier is
not relied on: `ServerProcess` runs with `BarrierMayTimeOut = FALSE`. `ProcessFairness` adds
the steps of `main` and of the console, which wait for nobody outside; nobody has to type
or to send a signal. `CaptureFairness` has the deadline of the connection, which a timer
of the runtime keeps, and the steps of `writeFileAtomic`, which wait for nothing; no
server has to send anything. The
consumer of `MailboxClients` is weakly fair, as the tick owner is.

Deadlock checking is on in all runs but `VanillaCapture`, a tool that simply ends.
`Terminated` is the state in which `Stop` has returned and every goroutine is finished
or waits for a client; `Exited` is the end of the process.

Mutants. The operators under a `Mutant` comment are the code with a plausible
mistake in it (a dropped second check, a plain store for a CAS, a missing
`Store(false)`, a bounded post for a critical one); each property of a passing run
is violated by one of them.

## 4. Theorems

All are checked by `tlapm` without assumptions other than the named `ASSUME`s on
the constants.

- `PlayerLifecycleProofs!TypeCorrect`: `Spec => []TypeOK`, for any finite or
  infinite set of sessions. One lemma per component (`MailboxTypeOK`, ...).
- `PlayerLifecycleProofs!ClosedForever`: no step leaves `Closed`. The point is
  that every write to `state` after `Close` is a compare-and-swap from another
  state.
- `PlayerLifecycleProofs!CleanupProtocol`: `Spec => []CleanupInv`. `NoLostCleanup` alone is
  not inductive. Close is over with a session still registered only if the cleanup
  is queued or running, or `AddPlayer` is still to look at the session again. To
  keep that across the other steps one needs to know that `closing` and `closeOnce`
  agree (`CloseStarted`), so that the second look of `AddPlayer` finds the Close;
  that a removal in progress belongs to the tick owner, or after the loop to the
  closing goroutine (`RemovalOwner`), so that only one goroutine takes a cleanup;
  that it has cleared `registered` once past its swap (`RemovedIsUnregistered`);
  and that the tick owner has exited when `running` is false (`LoopExited`).
- `PlayerLifecycleProofs!CleanupNeverLost` and `HandlersStayOnTick` follow from it.
- `PluginProofs!PluginRuntime`: `Spec => []PluginInv`, for any number of plugins,
  literals, handlers and commands. None of the properties is inductive alone.
  `LifecycleInv` says where the holder of `lifecycleMu` is: its plan is a suffix of
  the registration order while it enables and a reversed prefix while it disables,
  in `DisableAll` and in a rollback alike; every plugin on one side of that point
  is `Live` (enabled, accepting, owed a Disable) and every one on the other
  `Settled`. `LeftoverInv` says who may own a handler or a command: a plugin that
  is accepting, or the one being disabled until the sweep for it. It is the second
  look at `acceptSubscriptions` that keeps it when a registration was under way.
  `LeaseInv` ties the source and its mutex to the host's place in the command.
- `DeterministicOrder`, `Transactional`, `NothingLeftBehind`, `OnlyProvenAreCalled`,
  `LiteralsStayInStep` and `LeaseIsOver` follow from it.
- `PlayerSnapshotProofs!SeqlockCorrect`, `LoadCoherent`: the seqlock for any number
  of readers, fields and Stores. `WriterInv` says which fields belong to which
  Store; `ReaderInv` that a reader's copy belongs to the Store it started from as
  long as the sequence has not moved, and the sequence never returns to an old
  value.

- `PlayerLifecycleProofs!RosterConsistent`: `Spec => []RosterInv`, on top of `CleanupInv`. A
  session goes through seven stages (`Out`, `Flagged`, `Stored`, `Present`, `Leaving`,
  `Deleted`, `Gone`), each a combination of its `registered` flag, its place in
  the map and the events plugins have had. `StageOf(s)` says that the program
  counters of the tick owner and of a removal determine the stage, and that where neither
  is at work on `s` it is `Out`, `Present` or `Gone`. Properties like
  `RegisteredIsPublished` talk about two of these facts and are not inductive without the
  third. The steps that move a session are eleven (`RosterSteps`); all the others
  are `Quiet`.
- `FlagAndMapAgree` and `GameplayOnlyOfPlayers` follow from it.
- `OnlineCountIsExact`: `CountInv` adds that the counter is the number of the names that
  are taken, less the session that is between the map and the counter when it joins,
  plus those between them when they leave. There may be several of the latter once the
  loop has stopped and every closing goroutine removes its own session. The sets are
  finite because one step adds at most one, so the constants need not be.
- `LifecycleImplementsRoster`: the initial states map, `AddAnnounce` is a `Join`,
  `RemoveAnnounce` a `Quit`, every other step a stutter.
- `ShutdownProofs!BarrierDrainsTheClosed`: a session that `Stop` closed and that is still
  registered is about to be undone by `AddPlayer` (the second look), in removal, or its cleanup is
  *in front of* the barrier in the critical lane (`BarrierBehindCleanups`). That is kept
  because `Stop` posts the barrier after its last `Close`, because a session it closes
  was in the map and so is past `AddRegister` (`StopCloses`), and because a lane is FIFO.
  It holds for every capacity and tick budget, and when the barrier may time out: the theorem
  speaks of the moment at which the barrier has been run. After a timeout `ImplementsRoster` and
  `NoLostCleanup` still exclude a wrong or a doubled notice, but a cleanup may be left in
  the queue of a loop that has stopped, and nothing promises its delivery.
- `ShutdownProofs!ProcessKeepsTheServer`, `ProcessEndsClean`: the process around the server
  keeps its invariants (every step of `ServerProcess` is one of `PlayerLifecycle` or leaves
  it alone), and `Callers` and `Returned` say which caller won the `Swap` and what one whose
  `Stop` is over has seen. `ProcessEndsClean` assumes `~BarrierMayTimeOut`, as the run
  does: after a timeout the plugins are disabled with players still on the roster.
- `MailboxProofs!LanesAreFIFO`, `OvertakenAtMostOnce`: the lanes for any number of
  producers and values. The second needs that nothing has been overtaken whenever
  `TryPop` has found the critical lane empty (`OvertakenFromEmpty`).
- `TaskSchedulerProofs!SchedulerTypeCorrect`, `RegistrationsStayExact` and
  `NoTaskOfAClosedOwner`: any number of owners and tasks. `HeldInv` says what the tick
  owner holds between `heap.Pop` and the second critical section: a task that is registered
  but not in the heap; a one-shot is not even registered.
- `RunsKeepTheirDelay`: a task in the heap is not due before its interval has passed
  since its last run, nor is the one in hand (`RunInv`).
- `NoTaskStarves`: for a due task, the tasks ahead of it in the heap and those that ran
  since its deadline are all different (`QueueInv`), because a task that repeats comes
  back with a later deadline; together they are fewer than `MaxTasks`. While the
  backlog lasts every tick runs `Limit` of them. The minimum that `heap.Pop` takes exists
  for every heap by a least counterexample (`LeastNatural`), in place of an induction.

- `GameplayProofs!ClientsCatchUp`: `Spec => []GameInv`, for any number of sessions, places,
  modes and events, any size of the outbound queue and any width of the integers that
  `GameplayAssumption` admits. The properties speak of the moments between two handlers
  (`Idle`); what makes them inductive is what holds in the middle of one. A packet that is
  still to be sent tells what the server has now (`TruthInv`): this is where it matters that
  a handler, the join included, sends everything before the next one begins. And whatever
  a connected client has wrong is put right by a packet or a block that is still to be
  sent to it (`BlockKnown`, `EntityKnown`, `ModeKnown`, `ClockKnown`; for an entity each
  of its three parts has packets of its own, since a move does not make it appear). A
  client that is not yet a player has seen neither blocks nor entities (`NewcomerInv`),
  which is where a join starts from.
  The proof first reduces the twenty actions to what they do to clients (`Effect`:
  a handler that changes one thing and tells whom it should, a packet that is accepted,
  a session that closes), and then shows of each part that the effects keep it.
- `ClientsSeeTheBlocks`, `ClientsSeeThePlayers` and `SnapshotsAreCurrent` follow, since
  between two handlers nothing is to be sent. `ClientsKnowTheTime` adds arithmetic: a
  connected client is behind by at most the ticks since the age of the world was last a
  multiple of the rate (`SinceTold`), and these are fewer than the rate, on both sides of
  the wrap from the largest age to the least, because the multiples nearest to it are no
  further apart than the rate.

- `CaptureProofs!VarIntRoundTrip`, `PacketRoundTrip`, `PacketCutShort`: the framing, byte by
  byte, for every 32-bit number, every packet that `WritePacket` accepts (its id any 32-bit number) and every place
  at which a connection may break. `VarIntSum` adds up the groups of seven bits; that a
  packet cut short cannot be read is what makes a broken connection visible to the capture.
- `OneDataset`: of one server one data set can be made. A registry is determined by the key
  of its packet (`OneSequence`), and the tags by their keys alone, since `ByKey` puts items
  into the order of their keys: it is a permutation (`ByKeyPlaces`) that depends on the set of
  the items only (`ByKeyIsUnordered`).
- `DatasetServed`: a data set that passed the checks loads, all its packets can be written, and
  each is one that its server might have sent. `SynchronizedDecoded` takes a registry through
  its JSON and back. `TagsInOrder` takes the tags to names and back to ids: each name is found
  at the place its id had, because entries of a registry have different keys. What comes back
  are the groups in another order, each with its tags by key, so the packet is one the server
  might have sent if the server too may send them in any order. The readers repeat a step a
  number of times they read; what they return is typed (`RegistryTyped`, `GroupsTyped`) by an
  induction over the count, which `UpTo` states for a set of numbers.
- `CaptureIsInvariant`: `CaptureSpec => []CaptureInv`, for every set of scenarios, every
  older pair of files, every bound on runs and packets. The properties speak of what is on disk
  and of how a run ended; what makes them inductive is where the run has come. A frame on the
  connection is a whole packet, or it cannot be read (`LinkInv`, by `PacketRoundTrip` and
  `PacketCutShort`), so whatever is collected was read in packets of this server
  (`SessionInv`), and, as long as nothing went wrong, in their order (`UndisturbedInv`). What is
  about to be written passed the checks (`OutputInv`); a temporary file is synced and whole
  before it replaces anything (`TempInv`); so every version that a file
  has had, and with it every one that a power failure may leave, is missing, the older one or
  one that passed the checks, and synced in any case, which is why a power failure
  tears nothing (`DiskInv`, `PowerFailureTearsNothing`).
- `ManifestIsNotAhead` says what the order of the two replacements gives, and no more. An
  error or a kill may leave a new data set beside an older manifest, but not the reverse;
  after a run that is done both files are of its server. A power failure can break either,
  and only by taking back a replacement. `DiskInv` keeps for it that a version of this server is
  among the saved ones only if the file is of this server now, so that what a power failure puts
  in place was there or is `lost`. That whatever pair is left loads does not depend on this: the
  manifest only has to be valid (`AnyManifestLoads`).
- `CaptureLoads`, `CaptureIsFaithful`, `ManifestIsNotAhead`, `CaptureRefusesNoSound` and
  `CaptureRefusesUnsound` follow, and `CaptureIsReproducible` with `OneDataset`: two versions
  of a file that stem from one server hold the same (`SameVersions`), whether one replaces the
  other or a power failure puts it back.

What the theorems about the capture assume of its parameters is named in the modules, and TLC
evaluates all of it in the run `VanillaCapture`, on its 93 servers and with the codec of `Nbt`:
`SizesAssumption`, `KeysAssumption`, `CollectionAssumption` and `BoundsAssumption` give the
constants their ranges. `PayloadsAssumption`, `RegistryFormsAssumption` and
`TagFormsAssumption` describe a vanilla server: it has one content, which it may write in
several forms and orders, and the form in which CyuCore writes that content is among them. `OlderAssumption`:
the files of an earlier version were good. `CodecAssumption` is the one property of
`internal/nbt` that the proofs need: a value that has JSON is what that JSON is read as.
`SoundAssumption` says what `sound` means: of a sound server's packets every one can be read and
every data set passes the checks, and of the others none does. So
`CaptureRefusesNoSound` and `CaptureRefusesUnsound` prove the conversation and the order of the
checks (nothing else in a run refuses, nothing else lets through), and the run shows that each
of the 93 servers is on the side where it belongs.

Only model-checked: the codec of `Nbt` and the data of the single scenarios, because they are recursive operators
for which the proof system has no solver; and all liveness under fairness (`CaptureEnds`,
`ClosedPlayersLeave`, `EntryResolves`, `ProcessEnds` and their like), which is beyond the prover. The
inductive invariants were given to TLC on a run before they were proved.

## 5. Not modelled

- What a killed server leaves: it has no files but its configuration.
- Parsing of `config.yml`, `plugin`, `event`, `player` and `command` value types of
  `api/`: they have no state, and no other part depends on how they are written.
- `GetBlock`, which nothing calls; the confirmation of teleports, which the server
  ignores; whether the `Disconnect` of a kick is written before the connection
  closes, which `docs/DEVLOG.md:293` defers.
- The layout of gameplay packets and chunks; `datapack.go`, `NewList`, the optional
  NBT values, `ValidateRequirements` and `Lookup`, which only tests call.
- JSON as text: `encoding/json` is trusted to read back what it wrote, and to order
  the keys of a map. What the code does with null, numbers and fields is modelled.
- Timings: deadlines and timers are steps that may happen at any moment.
- Metrics and logging.

## 6. Plan

Done, in this order: mailbox; session, roster and shutdown, with the proof of the
cleanup protocol; scheduler; plugin manager, event bus and commands; snapshot;
world, gameplay and the outbound queue; the codecs, the registries and the capture;
the process.

The proofs about the life cycle came in this order too: types, cleanup, roster with its
refinement, shutdown, process; then the mailbox, the scheduler, and gameplay.

The proof of the capture came last. For it the values of `internal/nbt` became a parameter of
`Registries`, so that no module below the MC module declares a recursive operator.

Next: nothing that the prover reaches is left unproved of the properties the runs check. What could be
added are the optional parts of the packet layouts, and `datapack.go` once a command uses it.
