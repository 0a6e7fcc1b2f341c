# A verification of queued_signal

TLA+ modules, TLC configurations and TLAPS proofs about `queued_signal` (a dioxus signal with queued
writes over a left-right double buffer) and the crate `dioxus_bevy_signals` that mirrors bevy data with
it. Paths below are relative to the repository.

## The system

| component | state | operations | meets |
|---|---|---|---|
| **driver** `WriterDriver` (`queued_signal/src/state.rs`) | three channels, `abs_slot`, the left-right buffers with their oplog, `version`, `last_health`, `last_publish` | `append`, `write_absolute`, `tick` | senders (channels), readers (buffers, Arc counts), tasks (watch channels) |
| **readers** `QueuedState`, `TrackedReadGuard`, `ReaderRegistry` (same file) | the buffer entered, the registry entry with its heartbeat, the Arc kept | `read`, `heartbeat`, drop, clone of the Arc | driver |
| **forwarding tasks** `forward_to`, `use_queued_state_inner` (same file) | watch receivers, the dioxus value and health signal | wake, enter, clone, display, unmount | driver, readers |
| **hub** `create_queued_signal_hub` (`signal.rs`) | registered signals, drivers, parked requests, command queue | register, request, eviction, tick of all drivers, shutdown | hooks (commands, oneshot answers) |
| **hook** `use_queued_signal` (`signal.rs`) | `value`, `health`, `writer` | request, receive, write, unmount | hub, forwarding task |
| **sync schedules**, **command channel** (`dioxus_bevy_signals/src/schedules.rs`, `lib.rs`) | frame order, queued commands | run a frame, send a command | all mirrors |
| **resource mirror** (`resource/mod.rs`) | resource, its signal, last version | request, sync either way, drive | driver, command channel |
| **query and component mirrors** (`query/`) | mirrors per entity, tracking counts, query signal | request, count deltas, sync, delete unused | driver, command channel |
| **asset mirror** (`asset/mod.rs`) | mirror map, init requests, deltas, changed ids | request, rebind, sync, delete unused | driver, command channel, asset events |
| **reflected mirrors** (`reflect/`) | registries of dynamic mirrors, elevation subscriptions, paths | request by name, elevate, drive, read and write at a path | driver, resource and query mirrors |

What is hard: the driver runs on its own thread against readers, senders and tasks, and a publish depends
on who holds which buffer and which Arc at two different moments; every operation is applied twice, to one
buffer now and to the other a publish later; a task must neither miss a version nor keep the Arc that
defers the next one; requests, registrations, evictions and the end of the hub race each other; the mirrors
pass changes both ways through several systems of one frame. PROJECT.json lists these hazards by line.

What makes each component correct:

* driver: operations of one kind take effect at most once and in order; none is lost; both buffers get
  every operation; what is sent is eventually published; stalls are reported;
* readers: nothing changes under a guard or behind a kept Arc; a reader sees published prefixes only, and
  never goes back;
* tasks: no lost notification of a version or a health status; a deferral is temporary;
* hub: no request is dropped that follows a registration; every hook gets an answer; queued writes reach a tick;
* mirrors: both sides converge, bevy's changes are not undone by the mirror's own past; where mirrors are counted,
  lists hold live handles only, one in use is never deleted and one out of use is;
* dynamic mirrors: hooks follow an elevation, and show and write what the mirror in charge has; what an inspector
  lists, parses, writes and shows is one and the same value.

## Modules

| module | what it is |
|---|---|
| `QueuedSignal` | one signal: senders, driver, buffers, readers and forwarding tasks |
| `SnapshotLog` | what a signal promises: an append-only log, a published prefix, views of it |
| `MCQueuedSignal` | instances for TLC |
| `QueuedSignalProofs`, `QueuedOrderProofs` | theorems about `QueuedSignal`; those about its queues in the second |
| `SignalHub`, `MCSignalHub` | the hub and its hooks, and its instances |
| `SignalHubProofs` | theorems about `SignalHub` |
| `ResourceMirror` | a bevy resource and its mirror, over frames of the sync schedules |
| `ResourceMirrorProofs` | theorems about `ResourceMirror` |
| `QueryMirror`, `MCQueryMirror` | the mirrors of one component type, the queries that list them, and instances for TLC |
| `QueryMirrorProofs` | theorems about `QueryMirror` |
| `AssetMirror`, `MCAssetMirror` | the mirrors of the assets of one type, hooks that move between assets, and instances for TLC |
| `AssetMirrorProofs` | theorems about `AssetMirror` |
| `ReflectMirror` | a dynamic mirror of a resource or of a query, and its elevation by a typed one |
| `ReflectValues` | paths, primitives and names of reflected values, as functions |
| `MCReflectMirror` | instances of `ReflectMirror`, and `ReflectValues` over small values |
| `ReflectMirrorProofs` | theorems about `ReflectMirror` and `ReflectValues`; it extends `MCReflectMirror` for the small values of `InspectorIsExact` |
| `SetInduction` | induction on numbers as a fact about sets of them, for the proofs about recursive functions |

### QueuedSignal and the code

A value of type T is the sequence of the operations applied to make it, and an operation is its kind and its
number in its queue; closures and replacement values are told apart by `IsSet` only. So a value shows
which operations it lacks, repeats or has out of order. Arc allocations are the elements of `Cells`: two
buffers, guards and signals that share one share the cell, and `Exclusive` is `Arc::strong_count == 1`.
A cell that nobody owns is emptied, so that the number of states stays finite.

| state | code |
|---|---|
| `chan`, `absSlot` | the flume channels, `abs_slot` |
| `pc`, `discard`, `didWork`, `todo` | where `tick` (or `write_absolute`) is, its locals, the part of the oplog `publish` still applies |
| `arc`, `heap`, `readBuf`, `phase`, `half`, `pend` | left-right: the buffers, which one readers enter, `first`/`second` and the oplog split at `swap_index` |
| `version`, `dirty`, `health`, `hdirty` | the watch channels, seen from the driver and from each receiver |
| `guard`, `reg`, `hold` | a reader's guard, its registry entry, the Arc in its signal |
| `task`, `shown` | where a forwarding task is between its awaits and calls; the health it displays |

`tick` is split wherever another thread can act in between: the slot, each drain, the check, the wait, each
operation applied, the swap, the notification and the health update. `append` and `write_absolute` need the
driver, so they start only between ticks; `write_absolute`'s drains are steps of their own, like tick's.
left-right 0.11 is not in the repository; it is modelled from how `state.rs` uses it: direct application
before the first publish, `sync_with` in the second, `absorb_second` for the half the other buffer has,
`absorb_first` for the rest, and the wait for readers of the write buffer before anything is applied.

`SlowClone` says how slow a reader may be between entering a buffer and cloning its Arc. With it a reader
may sleep there while a swap happens and while the next tick checks the strong count; without it the clone
is over by then. The code does nothing to rule the slow reader out, so the properties that do not survive
it (`NothingLost`, `BuffersAgree` with subscribers, `SnapshotSpec`) are checked and proved without it,
and run `QS_slow_reader` shows what happens with it. The other invariants and action properties are proved with it too; and that a slow
reader costs closures only, never their order and never a replacement value, is proved as `ReplacementsAreKept`.

Left out: `enter()` returning `None`, which only happens once the write handle is gone; the publish counter;
`Display` and `Debug`; the identity of reader ids, which a map from readers to entries replaces.

### SignalHub and the code

A registered signal is the number of the registration that made it; `drivers` holds the ones the hub ticks.
Commands carry a type and their number. Time is the set `old` of parked requests that are older than
PARKED_REQUEST_TIMEOUT; requests are parked in the order in which they were sent and grow old in that order.
The vector `pending` of a type is a set: a registration answers all of it in one step of the thread.
The thread's loop is `Drain`, one `Execute...` per command, `Evict`, `TickAll`, then `Continue` or `Stop`;
senders, hooks and the clock act in between. A mounted hook keeps a sender, in the closure of its future.
What an instance does with its queue is `QueuedSignal`'s subject: here a tick drains it (`queued`).

### ResourceMirror and the code

The signal of the mirror is not `QueuedSignal` again but what `SnapshotLog` says it is, an accepted value and a
published one that catches up; `ImplementsSnapshotLog` is why that is enough, as long as no reader is slow to
clone. A value is again the sequence of the writes that made it, from the last full replacement on, so that it shows
whose writes it contains.

| state | code |
|---|---|
| `exists`, `res`, `changed` | the resource and what `resource_changed` will say of it |
| `pc` | where the frame is: bevy's systems, commands, the accumulator's loop, the schedules in order |
| `commands`, `batch` | the command channel, and the queue that `run_dioxus_sync_main` collected from it |
| `mirrors` | `ResourceQueuedSignalMirror<T>` is there (with its driver and systems) |
| `setQueue`, `mutateQueue`, `accepted`, `published`, `pending`, `version` | the mirror's `QueuedSignal` |
| `lastVersion` | `Local<u64>` of `sync_resource_to_mirror` |
| `hook`, `writer` | where `use_bevy_resource` is, and the signal it was given |

Components act at any time, between any two systems: they run on other threads and reach the mirror only through
channels. `mutate` and `mutate_set` are one queue of closures here, since both are drained after `set_value`.
Virtual time is a choice: after the commands, and after every run of the schedules, they run (again) or the frame
ends. `Defer` is a component that keeps the Arc of the write buffer. A frame starts with the commands, so that a
mirror that was just requested takes part in it; its systems are new and see the resource as changed.

### QueryMirror and the code

One component type T and any number of queries over it, each with a filter of its own (`matches`). A value of T is
the set of the writes that it contains; mirrors are numbered as they are made, and a handle is the number of its
mirror, so that a list that still holds the handle of a removed mirror differs from one that holds its successor's.

| state | code |
|---|---|
| `comp`, `changed`, `matches` | T, `Changed<T>` since `sync_mirror_to_component` ran, what the filters let through |
| `mounted`, `counted`, `asked`, `ready` | a hook: its component, its effect, its future, its answer |
| `early` | nothing: how many hooks of a query unmounted before their effect ran, a history variable no guard reads |
| `deltas`, `requests`, `pending` | the command channel and `PendingQueryTrackingDeltas` |
| `count`, `active`, `initialized` | `MirrorQueryHandleCount`, `MirrorQueryActive`, `QueryMirrorInitialized` |
| `mirror`, `track`, `doomed` | `DioxusMirror<T>`, `DioxusTrackingQueries<T>`, queued removals |
| `queue`, `replace`, `accepted`, `published`, `version`, `lastVersion` | a mirror's signal, and `last_versions` |
| `fresh`, `listed`, `shown` | mirrors that are `Changed` for a query's system, its map, and the map its hooks see |

`listed` is the query's signal with all that was sent to it, and its domain is `known_entities`: both are updated by
the same statements. The component systems are a chain; `apply_tracking_queries_delta` is ordered before or after
`delete_unused_mirrors` by nobody, so it may take either place, and the removals are applied when the schedule ends.
The systems of two queries share nothing but the sync point after them: they are one step, in which any of the
queries that lack a mirror makes it (`insert_if_new`). `Changed<DioxusMirror<T>>` needs no state for values: a
version differs from the remembered one only if `drive_component_signals` has just marked the mirror.

A component may be dropped before its effect has run; dioxus queues the effect and drops it with the scope (external to the
repository). The +1 is then never sent, while `use_drop` sends its -1 all the same (`query/mod.rs:906`), so `Unmount`
takes any mounted hook, sends -1, and notes in `early` that no +1 went before it.

A component that writes while a frame is under way might as well write before it or after it: commands are read when
a frame starts, and a mirror's queue when its driver ticks, once per run of the schedules. So hooks act between
frames only, where the schedules may run any number of times.

### AssetMirror and the code

The value of a mirror is an error, or `Ok` with the set of the writes that it contains. A behaviour has one scenario:
how many hooks and assets take part, and how often each kind of thing may happen. The mirrors of an id are numbered,
so that a hook that kept the signal of a removed mirror differs from one that has its successor's.

| state | code |
|---|---|
| `world`, `asset` | what the asset server and `Assets` know of an id (`get_load_state`), and the asset |
| `unsent`, `recent`, `old`, `expired` | asset events: waiting in `Assets`, in the two buffers of bevy's messages, dropped unread |
| `mounted`, `gone`, `want`, `unread` | a hook, the newest id of its memo, and whether its task has received it |
| `asking`, `answer`, `requests` | the id whose mirror the task awaits, the answer, the request in the command channel |
| `req`, `writer` | `requested_id` and `writer_signal`; they differ while a hook moves |
| `telling`, `told`, `changed` | a running `mutate` between its two sends, the changed-id channel, `ChangedAssetMirrors` |
| `deltas`, `pending`, `track` | tracking deltas in the channel, `PendingAssetTrackingDeltas`, `tracking_signals` |
| `live`, `made`, `init` | `AssetMirrorMap`, how many mirrors an id has had, `init_requests` |
| `sent`, `queue`, `accepted`, `published`, `readable` | a mirror's signal: the newest value sent, closures, and the two values |
| `pc`, `todo`, `late` | where the frame is, the systems that the schedules have yet to run, the place of `asset_events` |

What is kept of concurrency: nobody orders bevy's `asset_events` with `run_dioxus_sync_main`, nor the systems of one
schedule with each other except as the code says; bevy ages its messages once per frame at most, and at a fixed rate
not in every one; a hook may be retargeted or unmounted in any wait of its task; `mutate` sends a closure and then
an id, which two runs of the schedules may see apart. Components' tasks run on one thread, so nothing of theirs
comes between these two sends. Commands are read at the start of a frame, so hooks act between frames, except that
closures and ids may also arrive while the systems of `Update` run, where order matters.
`apart` and `expired` are history variables: they name the ids to which one of two known gaps happened (the
id of a closure seen in another run than its publish; an event that expired before it was read), so that the
properties can say exactly when an asset and its mirror may differ.
Left out: the capacity of the id channel, and assets behind other handles than the ids.

### ReflectMirror and the code

One module for both kinds of dynamic mirror, told apart by `scenario.kind`: a resource is one place, a query has
several. Signals are `dyn`, the dynamic mirror's, and `typed`, that of `ResourceMirror`, whose systems are
here as well, because both mirrors may be at work on one resource.

| state | code |
|---|---|
| `world`, `changed` | bevy's value, and what `resource_changed` will say of it |
| `commands`, `pc`, `todo` | the command channel, the frame, the systems of this run still to come |
| `mirror`, `handle` | the registry entry: none, active, `elevated`; the handle in its watch channel |
| `typed` | the typed mirror exists, with its systems |
| `hook`, `bound`, `news`, `shown` | a hook's future, the handle it has, `rx.changed()`, its value signal |
| `sent`, `queue`, `accepted`, `published`, `pending`, `readable`, `fresh` | the two signals; `fresh` is version > last version |

A scenario says, besides the numbers of writes, three things that the code leaves open and on which the properties
depend: whether the typed mirror may come before the dynamic one, whether a tick may run before the read system of its
run (nothing orders the two), and whether a publish may be deferred. Each property names the conditions it needs;
dropping any of them makes TLC find it violated, which is how they were found. A closure that is
queued at the dynamic signal when the mirror is elevated stays there for good (`Stranded`).

### ReflectValues and the code

Reading and writing at a path, parsing and showing a primitive, the walk over the leaves as the example
`bevy_reflection_tests` does it, and the resolution of a name, as functions. A numeral is its rank among the boundaries
of the integer types and their neighbours (`Numerals`), since nothing else of it matters to `parse`; a text is a numeral, with or
without a sign, or a word. What they are for is said at the end of the module, one predicate each, with the set of values
that it is about as a parameter: `WalkIsComplete`, `ParseIsStable`, `WriteIsTyped`, `EditIsExact`, `NameIsExact`.
`InspectorIsExact` evaluates them over all values of at most seven nodes, paths of at most three segments, all texts and kinds,
and all registries of two types; `ReflectMirrorProofs` proves them for all. The walk and both ways along a path
are recursive functions of a number (`Reached`, `Rewritten`, `Turns`), no operators, so that they can be reasoned about.

## Runs

| run | question | bounds |
|---|---|---|
| `QS_subscribers` | two slow subscribers: lost notifications, frozen guards, immutable Arcs, deferral | 1 `set_value`, 1 `mutate_set`, 1 `mutate` |
| `QS_absolute` | four of the five kinds of write, a user that keeps guards and Arcs, an interval that may hold a publish: types, agreement, order, refinement | 1 absolute write, 1 `append`, 1 `set_value`, 2 `mutate` |
| `QS_live` | everything is published and shown, nothing is lost, under fairness | 1 subscriber that may stall, 1 `set_value`, 1 `mutate` |
| `Hub_answers` | parking, answers, shutdown; no hook fetches for ever, writes reach a tick | 2 hooks, 2 types, 2 registrations, 3 requests |
| `Res_mirror` | bevy and components write one resource: nothing of bevy's lost, agreement, no echo, closures arrive | 2 hooks, 2 bevy writes, 1 `set_value`, 2 closures |
| `Query_mirror` | mirrors that come and go under two queries: counts, live handles only, bevy's changes kept, agreement | 2 hooks, 2 queries, 1 entity, 3 mounts, 1 change of a filter, 1 bevy write, 1 closure |
| `Query_live` | a query with more hooks than have left early shows all that matches in the end, unused mirrors go, closures arrive | as above, 2 mounts, no bevy write |
| `Asset_mirror` | hooks that come, move and go, assets that load, change and leave: counts, agreement, bevy's changes, binding, showing, closures | four scenarios of 1 or 2 hooks, 1 or 2 assets, at most 1 of each change |
| `Reflect_mirror` | dynamic and typed mirrors of one resource, a dynamic query: handles, agreement, bevy's changes, closures; values, paths and names | six scenarios of 1 or 2 hooks, at most 2 writes of a kind |

Why the bounds are enough: left-right has three phases (`first`, `second`, later) and delays an operation by
one publish; three operations reach the third phase with both halves of the oplog occupied. Two readers
are the smallest number for which one may hold each buffer, or a buffer and its Arc. An allocation per reader
and per buffer suffices, which `CellsAssumption` states. Subscribers are symmetric, and so are users and
cells, except in the liveness run, which uses no symmetry. In the hub two registrations of a type show the duplicate, and
three requests let a hook remount while another one waits. `CHECK_DEADLOCK FALSE` is set for the hub only:
it stops by design.

`QS_absolute` sends no `mutate_set` (its channel is drained like that of `mutate`) but two `mutate`, so that order
within a queue shows; `QS_subscribers` sends one operation to each channel. In `Res_mirror` two bevy writes are
enough for one to be written while the mirror still has the other, two closures for one to be queued while the
other's publish is deferred, and two hooks to ask for the mirror in one frame. In `QueryMirror` two queries share an
entity, so that one query's components may come and go while the other's stay; three mounts let a query lose its
mirror and get another one; and since entities do not influence each other's mirrors, one of them, which may enter
or leave a filter, is enough for everything but the sizes that the reconciliation compares.

`MCAssetMirror` and `MCReflectMirror` give TLC several scenarios instead of one large instance: everything at once is
out of reach, and what could go wrong needs a few things at a time. In `Asset_mirror` two hooks and an asset
whose loading ends show what depends on who asks first and who counts first; one hook that moves between two
assets, with a closure, shows requests and deltas of one hook that cross; two hooks and a closure show a mirror that goes
and comes back around a write; both sides that write one asset, which is loaded, added or removed, show what
events and ids bring to whom. In `Reflect_mirror` two hooks meet one elevation in different places of their
futures; then two writes of either side meet it with and without deferral; then replacements; then
ticks before reads; and last a query with two entities, one of which comes or goes. The runs that must be violated use
the smallest scenario that shows it.

### Where the code does not do what it says

Each of these is a run that TLC must find violated; PROJECT.json quotes both sides.

| run | what it shows |
|---|---|
| `QS_slow_reader` | publish skips a closure, while the warning says it defers it |
| `Asset_stay` | deltas of two hooks of one asset, +1, -1, +1, remove the mirror that the second one shows |
| `Reflect_query` | nothing ticks the signal of a dynamic query: its hooks show the empty map for ever |

Further places, met while modelling; the modules follow the code in each, and no run is spent on them:

* `queued_signal/src/state.rs:500`: before the first publish left-right applies operations directly and has none pending,
  so one that is drained while the interval has not elapsed is not published until another one comes;
* `state.rs:504`: a reader that blocks publish is not reported as stalled while it does, because the report comes after
  publish;
* `state.rs:612`: a later `set_value` of the same tick does not override a `mutate_set`;
* `query/mod.rs:194`: the count of a new component mirror starts at 0, so the first unmount may remove it from a
  component that still uses it;
* `query/mod.rs:906`: a component that is dropped before its effect has run sends -1 without a +1. `MirrorQueryHandleCount`,
  the "Total number of active dioxus components using this query" (`query/mod.rs:124`), is then -1, the next component that
  mounts takes it to 0, and its query is not active although a component needs it (`query/mod.rs:144`): it is never
  shown a match. `EventuallyShown` is stated for queries that have more mounted hooks than hooks that left early; of every
  mounted hook TLC refutes it, within the bounds of `Query_live`, by mount, unmount, mount;
* `asset/mod.rs:712`: a hook that unmounts while its task awaits an answer leaves a mirror without readers, which no
  delta will ever remove;
* `reflect/resource.rs:125`: the tick of dynamic resources is not ordered after their read, so a write-back may bring an
  older value to bevy.

### Fairness

`QueuedSignal!Fairness`: the driver is ticked for ever (the hub's loop and `drive_signal` do), so `Tick` is
weakly fair; `StartPublish` is strongly fair, since the interval and a component's Arc may forbid it time
and again but not always; the runtime polls every woken task, so waking and forwarding are weakly fair.
Nothing makes a component mount, send, or drop a guard or an Arc, so none of these is fair. Users are
therefore left out of `QS_live`: one that keeps a guard or an Arc for ever blocks publishing for ever.
`SignalHub!FairSpec`: the hub thread runs, time passes for parked requests, and hooks are polled.
`ResourceMirror!FairSpec`: frames follow each other and run to their end (`Frame`), the schedules run again and
again because virtual time advances (`RunSchedules`, strongly, since a frame may be too short for them), and no
component defers publishing for ever (`Publish`, strongly), which is what `DeferralEnds` shows for the
forwarding tasks and what an application's own Arcs must respect. Bevy's systems and components owe nothing.

`QueryMirror!FairSpec` says the same of its frames and publishes, and that the runtime runs the effect and the
future of a component that stays mounted (strongly, since both wait for a frame to end); one that does not stay may go
before either. `UnusedAreDeleted` assumes what it says: all components unmounted for good, and no entity left a filter.

`AssetMirror!FairSpec` and `ReflectMirror!FairSpec`: systems of a frame run to its end (`Frame`, weakly), frames end
(`EndFrame`, strongly, since the schedules may run again and again within one), virtual time advances
(`SyncMirrorsToAssets`, `RunSchedules`, strongly), dioxus polls the tasks of mounted components (`Dioxus`, strongly, since
they wait between frames), and the tick that defers nothing happens again and again (strongly). Hooks owe nothing,
and neither does bevy: loads need not end.

## Proofs

`QueuedSignalProofs` and `QueuedOrderProofs` prove, for any finite sets of readers and cells that satisfy the assumptions of
`QueuedSignal` and for any bounds:

| theorem | property | needs |
|---|---|---|
| `TypeCorrect` | `TypeOK` | inductive by itself; cell allocation and health counts stay in range |
| `ArcsStayDistinct` | `DistinctArcs` | `BufferInv` |
| `GuardsFreezeBuffers` | `FrozenUnderGuard` | `BufferInv` |
| `KeptArcsAreImmutable` | `ArcImmutable` | `BufferInv` |
| `NoWakeupIsLost` | `NoLostWakeup` | `WakeupInv` |
| `DeferralIsTemporary` | `DeferralEnds` | `WakeupInv` |
| `BuffersConverge` | `BuffersAgree` | `OplogInv`, `StaysExclusive`, `~SlowClone` |
| `ImplementsSnapshotLog` | `SnapshotSpec` | all of these and `ViewInv`, `~SlowClone` |
| `AcceptedInOrder` | `AppliedInOrder` | `BufferInv`, `PhaseInv` and `OrderInv` |
| `ReplacementsAreKept` | `ReplacementsKept` and `PublishedStay`, stated with the theorem | `BufferInv`, `PhaseInv` and `ReplacedInv` |
| `NoOperationIsLost` | `NothingLost` | `BufferInv`, `OplogInv` and `LostInv`, `~SlowClone` |

`BufferInv` is why nothing changes under a reader: besides the distinct Arcs it says that while publish
writes, nobody is inside the write buffer (`ReadersOut`), and that before the first publish nobody has
ever reached it (`PrivateUntilPublished`), which is when `append` writes to it directly. `DistinctArcs`
alone is not inductive, and neither are the action properties: both need these.
`WakeupInv` follows a task from mounting to waiting and says at each place which buffer it has or will
have read if no further notification is to come; only its last clause is `NoLostWakeup`.
`OplogInv` says in each phase and at each point of publish what the write buffer still lacks; that it can
be applied is `StaysExclusive`, the part that a slow reader breaks. `ViewInv` says that what a reader keeps is
a prefix of what is published, bounded by the buffer that it may still clone from; with it every step
is a step of `SnapshotLog` or a stutter. `OrderInv` adds the queues to the log: each queue is in order and behind what
was accepted of its kind, and the absolute slot behind the absolute writes. They rest on one lemma about
all steps, `DraftStep`, which sets beside the log what will be published next, `Draft`: a drain, a direct append or the
absolute slot gives both the same operations, a swap exchanges the two, and a closure that finds its Arc shared drops out of
`Draft` alone. So the two may differ while readers are slow, but both are in order (`OrderInv`) and have the same replacements
(`ReplacedInv`). Where readers are not slow the two are equal by `OplogInv`, and no operation is lost (`LostInv`). TLC checked each of these as an invariant before they were proved.

`SignalHubProofs`, `ResourceMirrorProofs`, `QueryMirrorProofs`, `AssetMirrorProofs` and `ReflectMirrorProofs` do
the same for the hub and the mirrors, for any finite sets of hooks, types, queries, entities and places, and any numbers of writes and commands:

| theorem | property | inductive invariant |
|---|---|---|
| `SignalHubProofs!OneDriverPerType` | `TypeOK` | `TypeInv`: with finitely many registered types, and hooks that fetch have asked |
| `SignalHubProofs!LateRequestsAreAnswered` | `AnsweredIfRegisteredFirst` | `OrderInv` |
| `ResourceMirrorProofs!TypesCorrect` | `TypeOK` | inductive by itself |
| `ResourceMirrorProofs!ChangesAreKept` | `BevyChangesKept` | `BevyInv` |
| `ResourceMirrorProofs!SidesAgree` | `Converged` | `AgreeInv` |
| `ResourceMirrorProofs!NothingEchoes` | `NoEcho` | `EchoInv` |
| `QueryMirrorProofs!TypesCorrect` | `TypeOK` | `CountInv` |
| `QueryMirrorProofs!ListsAreLive` | `ListedAreLive` | `ListInv` |
| `QueryMirrorProofs!ChangesAreKept` | `BevyChangesKept` | `ChangeInv`, per entity `MirrorInv` |
| `QueryMirrorProofs!SidesAgree` | `Converged` | `AgreeInv`, with `HandedInv`, `NewInv` and `OnceInv` |
| `AssetMirrorProofs!ChangesAreKept` | `BevyChangesKept` | `ChangeInv`: `KeptInv`, and where the frame is |
| `AssetMirrorProofs!SidesAgree` | `Converged` | `AgreeInv`, per asset `MirrorInv`, with `ChangeInv` |
| `AssetMirrorProofs!CountsAreUsed` | `CountedAreUsed` | `CountInv`, with `HookInv` |
| `AssetMirrorProofs!TypesCorrect` | `TypeOK` | `HookInv`, `ValueTypes`, `NoteTypes`, `CountInv` |
| `ReflectMirrorProofs!TypesCorrect` | `TypeOK` | `ChannelInv`, `EditTypes`, `FrameTypes`, `ValueTypes` |
| `ReflectMirrorProofs!HooksFollowHandles` | `HandlesFollow` | `ChannelInv` |
| `ReflectMirrorProofs!DynamicChangesAreKept` | `BevyChangesKept` | `ChangeInv` |
| `ReflectMirrorProofs!InspectorIsCorrect` | `InspectorIsExact` | none: the theorems about `ReflectValues` below |

`OrderInv` reads the rest of the batch and the queue behind it as one sequence of commands: a request that was sent
after a registration of its type finds the type registered, or the registration ahead of it in that sequence. So it is
never among the parked ones, which are the only ones that age; and the hub ends, and drops its queue, only when no hook is left.

`KeptInv` of the resource mirror says at each place of the frame who has bevy's changes: the resource always, what
was sent to the mirror, and what the mirror accepted unless a change of the resource is still to be sent. `AgreeInv`
adds that a mirror with nothing to publish or to write back has published what the resource holds, from the drains of
a run to the read of the next. `EchoInv` counts: what was published, is pending, queued, or will be sent is paid for by a write,
but for the one publish that the new system's first look at the resource causes.

`ListInv` says of every query, active or not, that a handle in its list is current or that the query is yet to
be told of the new mirror; the property, about active queries between frames, follows where the list was just reconciled.
`MirrorInv` follows one entity's mirror from the read over the tick to the write-back.
That the sides agree is harder for components than for a resource, because the versions of a mirror that is made again
start over while `last_versions` keeps its predecessor's: `NewInv` says that until the next run has compared the two nobody
has the new handle, so that no closure can be published under the old number, and `OnceInv` that a queued closure is new
to the mirror, so that accepting it is seen.

`CountInv` adds what is on its way to what is counted: count, collected deltas and the deltas in the channel make up the
hooks that are counted in the query, less the hooks that left before their effects. So no order of mounts and unmounts takes
a count above the number of hooks, or below zero by more than the number of hooks that left early (`TypeOK`).
`EarlyLeaversKeepPlaces` says what that means: each of them keeps the place of a mounted hook for good.
The counts of single mirrors have no such bound, since an entity that leaves a filter keeps its mirror's counts and gets
further ones when it is back; `TypeOK` only says that they are natural numbers.

For assets, `KeptInv` says that what was sent to a mirror whose id has no event left has all changes of the asset, and so
has what it accepted unless a tick is about to replace it. `AgreeInv` follows a closure: while it is queued, or accepted
and not in the asset, its id is being told, in the channel, or collected for a write-back to come (`QueueInv`, `ClosureInv`),
unless the two halves fell into different runs; and conversely a mirror that was told of everything has nothing but the asset's
writes and closures (`ToldInv`). `NewInv` and `SentInv` are about initialization, which may come before or after the write-back
of its run.

`CountInv` of assets says that the deltas of an id, pending and then in the channel, lead from some number of users to
the present one, by way of numbers of users only, and that the count is no higher than the one they lead from (`LagsBehind`). It
has to speak of the numbers in between: a mirror is dropped where its count comes to 0, the deltas behind that one are for
nothing or for its successor, whose count starts at 0 and may lag for good, which is what run `Asset_stay` shows. Appending
a delta (`LagAppend`) and counting the first one (`LagDrop`) keep it, and a run of `apply_tracking_queries_delta` is as many of the
latter as there are deltas. `HookInv` is that a hook which asks for an asset has none, so that it is counted once.

`ChannelInv` says of every hook that has an answer, bound yet or not, that it has the handle of the mirror or a
notification that it has not seen; and of the command channel that each request is in it once, a hook's while it waits and the
typed mirror's before it is made, since a handle is replaced when that one is executed. `HandlesFollow` alone, which is about bound hooks, is not inductive, because a hook
may be answered before an elevation and bound after it. `ChangeInv` of the dynamic mirror bounds every value from both sides:
values contain no change that bevy's value lacks (`ValueInv`), and those about to be written back lack none that it
has (`SeenInv`), the dynamic signal because each of its ticks follows a read of its run, the typed one because it
has seen whatever has not changed since. A write-back may then be either mirror's, in either order.

`EditTypes` is there because the replacements queued at a signal are not ordered but for the newest, which wins: a queue with
a replacement has a newest one only because there are finitely many numbers below `replaces`, and `AppliedIsValue` needs it.

#### What the liveness properties rest on

That something happens under fairness stays with TLC. But most of what can go wrong with it is safe to state: that what is
awaited sits somewhere it can still come from. These theorems say so, for all constants; each was first checked by
TLC on the instance of its component.

| theorem | what it says | core of | inductive invariant |
|---|---|---|---|
| `SignalHubProofs!RequestsAreAccounted` | a request is in one of the channel or batch, the parked, the answered and the dropped | | `AccountInv` |
| `SignalHubProofs!AwaitedRequestsAreKept` | a hook that fetches awaits one that can still be answered or dropped | `FetchingEnds` | `PlaceInv` |
| `SignalHubProofs!AnswersAreFinal` | no answer and no type's signal ever changes | `FetchingEnds` | `PlaceInv` |
| `SignalHubProofs!WritersAreOfTheType` | a hook writes to the signal of its type, which no other type has | `WritesDrained` | `PlaceInv` |
| `SignalHubProofs!WritesAreDriven` | a signal with queued writes is among the drivers | `WritesDrained` | `PlaceInv` |
| `ResourceMirrorProofs!ArrivalsAreFinal` | unless replaced, no write leaves the resource | `MutationsArrive` | `StayInv` |
| `ResourceMirrorProofs!ClosuresAreKept` | a closure is in the resource or on its way there | `MutationsArrive` | `ClosureInv` |
| `QueryMirrorProofs!WritesAreFinal` | no write leaves a component | `MutationsArrive` | `StayInv` |
| `QueryMirrorProofs!ClosuresAreKept` | what a mirror took is in its component, or to be published or written back | `MutationsArrive` | `FirstInv`, `AgreeInv` |
| `QueryMirrorProofs!NothingIsLeftTracked` | without hooks and deltas no query is active and no mirror tracked | `UnusedAreDeleted` | `TrackInv` |
| `QueryMirrorProofs!EarlyLeaversKeepPlaces` | without deltas, a query is active if and only if its counted hooks are more than those that left early | `EventuallyShown` | `TrackInv`, `CountInv` |
| `QueryMirrorProofs!PublishedListsAreExact` | a query publishes its matches, all of them | `EventuallyShown` | `ListsAreExact` |
| `AssetMirrorProofs!TakenClosuresArrive` | a closure is in the asset by the end of the run that took it | `MutationsArrive` | `TakenInv` |
| `AssetMirrorProofs!ArrivalsAreFinal` | no write leaves an asset that stays, with the exceptions below | `MutationsArrive` | `AgreeInv`, `ChangeInv` |
| `AssetMirrorProofs!HooksAreServed` | a hook has what it wants, or it is asked for, or answered | `EventuallyBound` | `ServedInv` |
| `AssetMirrorProofs!LoadedAreReached` | the mirror of a loaded asset has it, or it is on its way | `EventuallyShown` | `ReachedInv` |
| `ReflectMirrorProofs!ClosuresAreKept` | a closure is in the resource or on its way there, and stays, across an elevation | `MutationsArrive` | `ReachInv`, `HeldInv`, `OneInv` |
| `ReflectMirrorProofs!QueriesAreSilent` | a dynamic query shows and writes nothing, ever | run `Reflect_query` | `SilentInv` |

`AccountInv` says where requests are, `SignalInv` that registrations are new when they are executed, so that no two types
share a signal, and the `HookInv` of the hub that what a hook awaits is about its type wherever it is. `StayInv` is the
converse of what bevy's changes need: what is in the resource is in the mirror, unless the mirror is about to be told. It holds because a
run sends the resource before it ticks the mirror, even if the write-back of an older, deferred publish came in between.
The closures of a resource or a component are followed only where nothing else is written, as `MutationsArrive` does:
a value of bevy's that is sent while a publish is deferred replaces what the mirror has accepted.

`TrackInv` of queries says that no mirror is tracked for more hooks than its query would count had no hook left early, though
mirrors made after a hook was counted start at 0, and that a mirror is tracked for no hook only while the query that made it is
active; so that the last delta removes what is left, as long as no entity leaves a filter and keeps its counts.
`ListsAreExact` is about the reconciliation, which compares the numbers of matches and of known entities and looks
closer only if they differ: `NothingUnseen` shows that this is enough, since what is known was a part of what matches
once the entities that left were taken out.

For assets `ArrivalsAreFinal` needs three exceptions, which the code has: the asset was removed; publish and changed id fell
into different runs (`apart`); or an event of the asset is unsent, unread or was dropped (`Untold`). TLC finds a closure undone
without the last one: the initialization of a new mirror and a write-back belong to one `PostUpdate` and nobody orders
them, so that a mirror that was sent the asset as it was before the write-back shows, and may write, the older value until the event of
that write-back is read.

The dynamic and the typed mirror of a resource are two signals that write one value. `OneInv` says that they never run together, if the
typed one is asked for second; `HeldInv` that what is about to be published or written back has all closures that have arrived, of
either mirror. A closure in the queue of a dynamic signal whose mirror was elevated stays there (`Stranded`): it is
kept, and never arrives, which `MutationsArrive` excepts.

#### Reflected values

What `ReflectValues` computes is proved without a state, for any value and text:

| theorem of `ReflectMirrorProofs` | predicate | of what |
|---|---|---|
| `ParsesAreStable` | `ParseIsStable` | every kind and text |
| `NamesAreExact` | `NameIsExact` | every finite registry with distinct full paths, every name |
| `WritesAreTyped` | `WriteIsTyped` | every value and path, whatever is written |
| `EditsAreExact` | `EditIsExact` | every value, leaf and text |
| `WalksAreComplete` | `WalkIsComplete` | every value of finitely many nodes, in at least as many turns |

"Every value" is every member of any set V with `Values(V, Names)`: leaves that read as what they are, structs of distinct field
names whose fields are in V again, and others; there is no bound on depth or width. TLC evaluates `Values` on the values of
`InspectorIsExact` (`MCValues`), so the theorems speak of these among others. First the recursive functions are unfolded
(`ReachedUnfold`, `RewrittenUnfold`, `TurnsUnfold`, and `EntriesUnfold` in `AssetMirrorProofs`): TLA+ defines such a function by
CHOOSE, and that one exists is proved by induction over the set of the arguments up to which it does. `SetInduction` derives that from the
well-foundedness of `<`, so that no theorem with an operator as a parameter is instantiated. A path that reaches something `Leads`
through structs; a write replaces the nodes on the way up (`WrittenReached`), and a path that leaves that way somewhere is
none the wiser (`OthersStay`). `WalkInv` says of each turn of the walk that every leaf is listed or below the stack, that
what is listed is declared before what is on the stack, and the top of the stack before the rest; a turn leaves
less below the stack (`TurnShrinks`), so the walk ends.

Assumptions: those named in the modules (disjoint finite sets, one spare allocation per reader, a place that is not
`"nothing"`, a hook that is not `"typed"`, which is how a command that is no hook's is written) and, for three theorems,
`~SlowClone`. `ReplacementsAreKept` was checked with slow readers before it was proved and has no run, and `ArcsStayDistinct` has none either: `BufferInv`, which contains it, is what the others need. Only
model-checked: what is under fairness, which TLAPS does not reach (`EventuallyPublished`, `FetchingEnds`, `WritesDrained`,
`UnusedAreDeleted`, `EventuallyBound`, and the `EventuallyShown` and `MutationsArrive` of the modules that have them), and the runs that
must find a violation. Every invariant and action property of the other runs is a theorem as it stands; most are about every
instance, `InspectorIsExact` about the values that it names, and the theorems it follows from about all.

## Not modelled

* queries of several components, and `query/single.rs`, which picks one entity of a query for a component;
* the removal of a resource while its mirror exists: the crate has no code for it, and the sync systems then fail
  their parameter validation;
* `ReflectComponentRegistry`, which nothing uses, clones of reflected values that fail, and dynamic queries of
  several component types, which add entries to each entity's map and nothing to the protocol;
* the bound of the changed-id channel of assets (100): a send to the full channel is reported, and its id lost;
* `send_command` with its 10 s limit, which only blocks its caller, and `add_systems_through_world`;
* `enter()` returning `None`, the publish counter, `Display`: see the notes above;
* `query/macros.rs` (generated implementations), the tracing macros (logging), and the examples, but for the walk and the
  edit of `bevy_reflection_tests`, which are how `reflect/path.rs` is used.

## Plan

1. `QueryMirror` with queries of two components, whose mirrors are counted separately, and the view of one entity.
2. `AssetMirror` and `QueuedSignal` composed, for what a deferred publish does to a write-back, which the mirrors take
   from `SnapshotLog` at present.
