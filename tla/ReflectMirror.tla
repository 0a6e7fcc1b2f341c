---------------------------- MODULE ReflectMirror ----------------------------
(***************************************************************************)
(* A dynamic mirror: reflect/resource.rs for a resource that a component    *)
(* asks for by name, reflect/query.rs for the entities that have some named *)
(* components.  A typed mirror of the resource (ResourceMirror), or a typed *)
(* query, elevates it: the dynamic systems stop, and for a resource the     *)
(* hooks are handed the typed signal.                                       *)
(*                                                                         *)
(* Bevy's value is a function: from the entities that match a query, or     *)
(* from the resource alone, to the set of the writes that each contains.    *)
(* Signals are what SnapshotLog says: an accepted value and a published one *)
(* that catches up unless a tick defers.  Versions are abstracted to        *)
(* whether the last one is written back.  Clones of reflected values do not *)
(* fail, and names resolve (ReflectValues) to one type.                     *)
(***************************************************************************)
EXTENDS Naturals, Sequences, FiniteSets

CONSTANTS
    Hooks,       \* calls of use_bevy_resource_dyn or use_bevy_query_dyn
    Places,      \* entities, or the resource
    Scenarios    \* what may happen in one behaviour: see Scenario

\* What is mirrored; how many times bevy spawns or despawns, bevy writes, and
\* hooks send closures and replacements; whether the typed mirror may be asked
\* for (at all, before the dynamic one); whether a tick may come before the read
\* of its run, and whether it may defer.  A behaviour has one scenario.
Scenario == [kind : {"resource", "query"}, hooks : SUBSET Hooks, places : SUBSET Places,
             spawn : Nat, bevy : Nat, mutate : Nat, set : Nat,
             typed : {"never", "after", "any"}, driveFirst : BOOLEAN, defer : BOOLEAN]

ASSUME ReflectAssumption ==
    /\ IsFiniteSet(Hooks) /\ IsFiniteSet(Places) /\ Scenarios \subseteq Scenario
    /\ "nothing" \notin Places /\ "typed" \notin Hooks

Signals == {"dyn", "typed"}

Write == {"bevy", "mutate", "set"} \X Nat

IsValue(v) == DOMAIN v \subseteq Places /\ \A p \in DOMAIN v : v[p] \subseteq Write

Empty == [p \in {} |-> {}]

\* No value was sent, or shown: NotInitialized or NameError.
Nothing == [p \in {"nothing"} |-> {}]

VARIABLES
    scenario,   \* the scenario of this behaviour
    world,      \* bevy's value
    changed,    \* it changed since resource_changed was last evaluated
    spawns, bevyWrites, mutates, replaces,   \* what happened so far
    pc,         \* where the frame is
    todo,       \* the systems that this run of the schedules has yet to run
    commands,   \* the command channel: hooks that ask, and "typed"
    mirror,     \* the dynamic mirror: none, active, elevated
    typed,      \* the typed mirror of the resource exists
    handle,     \* the signal behind the mirror's handle
    hook,       \* hook[h]: what h's future is doing
    bound,      \* bound[h]: the signal it was answered or bound to
    news,       \* hooks whose receiver has a handle that it has not seen
    shown,      \* shown[h]: its value signal
    sent,       \* sent[s]: the newest value in the set_value channel
    queue,      \* queue[s]: its closures
    accepted,   \* accepted[s]: the value with all that ticks have drained
    published,  \* published[s]: the published value
    pending,    \* signals that drained something since their last publish
    readable,   \* signals that have published
    fresh       \* signals whose last version is not written back

worldVars  == <<scenario, world, changed, spawns, bevyWrites>>
hookVars   == <<hook, bound, news, shown>>
editVars   == <<mutates, replaces, queue>>
mirrorVars == <<commands, mirror, typed, handle>>
frameVars  == <<pc, todo>>
signalVars == <<accepted, published, pending, readable>>
vars == <<worldVars, hookVars, editVars, mirrorVars, frameVars, signalVars, sent, fresh>>

Systems == {"read", "drive", "drive typed", "write", "write typed"}

TypeOK ==
    /\ scenario \in Scenarios
    /\ IsValue(world)
    /\ changed \in BOOLEAN /\ typed \in BOOLEAN
    /\ spawns \in 0..scenario.spawn /\ bevyWrites \in 0..scenario.bevy
    /\ mutates \in 0..scenario.mutate /\ replaces \in 0..scenario.set
    /\ pc \in {"bevy", "commands", "accumulate", "sync"} /\ todo \subseteq Systems
    /\ commands \in Seq(Hooks \cup {"typed"})
    /\ mirror \in {"none", "active", "elevated"} /\ handle \in Signals
    /\ hook \in [Hooks -> {"off", "waiting", "answered", "failed", "bound"}]
    /\ bound \in [Hooks -> Signals \cup {"none"}]
    /\ \A h \in Hooks : (hook[h] \in {"answered", "bound"}) = (bound[h] # "none")
    /\ news \subseteq {h \in Hooks : bound[h] = "dyn"}
    /\ DOMAIN shown = Hooks /\ \A h \in Hooks : shown[h] = Nothing \/ IsValue(shown[h])
    /\ DOMAIN sent = Signals /\ DOMAIN accepted = Signals /\ DOMAIN published = Signals
    /\ \A s \in Signals : /\ sent[s] = Nothing \/ IsValue(sent[s])
                          /\ IsValue(accepted[s]) /\ IsValue(published[s])
    /\ queue \in [Signals -> SUBSET Write]
    /\ pending \cup fresh \subseteq Signals /\ readable \subseteq Signals
    /\ ("typed" \in readable => typed) /\ ("dyn" \in readable => mirror # "none")

Init ==
    /\ scenario \in Scenarios
    /\ world \in {[p \in P |-> {}] : P \in SUBSET scenario.places}
    /\ changed = FALSE /\ typed = FALSE
    /\ spawns = 0 /\ bevyWrites = 0 /\ mutates = 0 /\ replaces = 0
    /\ pc = "bevy" /\ todo = {} /\ commands = <<>>
    /\ mirror = "none" /\ handle = "dyn"
    /\ hook = [h \in Hooks |-> "off"] /\ bound = [h \in Hooks |-> "none"] /\ news = {}
    /\ shown = [h \in Hooks |-> Nothing]
    /\ sent = [s \in Signals |-> Nothing] /\ queue = [s \in Signals |-> {}]
    /\ accepted = [s \in Signals |-> Empty] /\ published = [s \in Signals |-> Empty]
    /\ pending = {} /\ readable = {} /\ fresh = {}

IsResource == scenario.kind = "resource"

----------------------------------------------------------------------------
(* Components.  The command channel is read when a frame starts: what is    *)
(* sent later might as well be sent between frames.                         *)

\* use_bevy_resource_dyn, use_bevy_query_dyn: the future sends its request once.
Request(h) ==
    /\ pc = "bevy" /\ h \in scenario.hooks /\ hook[h] = "off"
    /\ hook' = [hook EXCEPT ![h] = "waiting"]
    /\ commands' = Append(commands, h)
    /\ UNCHANGED <<worldVars, bound, news, shown, editVars, mirror, typed, handle,
                   frameVars, signalVars, sent, fresh>>

\* A typed hook asks for its mirror, or elevate_query is called.  Further typed
\* hooks change nothing: only the command that makes the typed mirror elevates.
RequestTyped ==
    /\ pc = "bevy" /\ ~typed /\ mirror # "elevated"
    /\ \/ scenario.typed = "any"
       \/ scenario.typed = "after" /\ mirror # "none"
    /\ \A i \in DOMAIN commands : commands[i] # "typed"
    /\ commands' = Append(commands, "typed")
    /\ UNCHANGED <<worldVars, hookVars, editVars, mirror, typed, handle, frameVars,
                   signalVars, sent, fresh>>

\* The answer binds the handle and shows its value.
Bind(h) ==
    /\ hook[h] = "answered"
    /\ hook' = [hook EXCEPT ![h] = "bound"]
    /\ shown' = [shown EXCEPT ![h] = published[bound[h]]]
    /\ UNCHANGED <<worldVars, bound, news, editVars, mirrorVars, frameVars, signalVars,
                   sent, fresh>>

\* rx.changed(): the hook leaves its task for the new handle.
Rebind(h) ==
    /\ hook[h] = "bound" /\ h \in news
    /\ news' = news \ {h}
    /\ bound' = [bound EXCEPT ![h] = handle]
    /\ shown' = [shown EXCEPT ![h] = published[handle]]
    /\ UNCHANGED <<worldVars, hook, editVars, mirrorVars, frameVars, signalVars, sent, fresh>>

\* Its forwarding task shows what the signal has published.
Forward(h) ==
    /\ hook[h] = "bound" /\ shown[h] # published[bound[h]]
    /\ shown' = [shown EXCEPT ![h] = published[bound[h]]]
    /\ UNCHANGED <<worldVars, hook, bound, news, editVars, mirrorVars, frameVars,
                   signalVars, sent, fresh>>

\* After the ticks of a run, writes might as well come between frames.
MayWrite(h) ==
    /\ IsResource /\ hook[h] = "bound"
    /\ pc = "bevy" \/ (pc = "sync" /\ {"drive", "drive typed"} \cap todo # {})

\* mutate, mutate_set: through the handle that the hook has.
Mutate(h) ==
    /\ MayWrite(h) /\ mutates < scenario.mutate
    /\ mutates' = mutates + 1
    /\ queue' = [queue EXCEPT ![bound[h]] = @ \cup {<<"mutate", mutates + 1>>}]
    /\ UNCHANGED <<worldVars, hookVars, replaces, mirrorVars, frameVars, signalVars,
                   sent, fresh>>

\* set_value of the dynamic handle; that of a typed one is a closure, try_apply.
SetValue(h) ==
    /\ MayWrite(h) /\ replaces < scenario.set
    /\ replaces' = replaces + 1
    /\ \/ /\ bound[h] = "dyn"
          /\ sent' = [sent EXCEPT !["dyn"] = [p \in scenario.places |-> {<<"set", replaces + 1>>}]]
          /\ UNCHANGED queue
       \/ /\ bound[h] = "typed"
          /\ queue' = [queue EXCEPT !["typed"] = @ \cup {<<"set", replaces + 1>>}]
          /\ UNCHANGED sent
    /\ UNCHANGED <<worldVars, hookVars, mutates, mirrorVars, frameVars, signalVars, fresh>>

----------------------------------------------------------------------------
(* The bevy world                                                          *)

\* The resource is inserted; an entity starts or stops to match the query.
SpawnOrDespawn ==
    /\ pc = "bevy" /\ spawns < scenario.spawn
    /\ spawns' = spawns + 1
    /\ \E p \in scenario.places :
          \/ /\ p \notin DOMAIN world
             /\ world' = [q \in DOMAIN world \cup {p} |-> IF q = p THEN {} ELSE world[q]]
          \/ /\ p \in DOMAIN world /\ ~IsResource
             /\ world' = [q \in DOMAIN world \ {p} |-> world[q]]
    /\ changed' = TRUE
    /\ UNCHANGED <<scenario, bevyWrites, hookVars, editVars, mirrorVars, frameVars,
                   signalVars, sent, fresh>>

BevyWrite ==
    /\ pc = "bevy" /\ bevyWrites < scenario.bevy
    /\ bevyWrites' = bevyWrites + 1
    /\ \E p \in DOMAIN world :
          world' = [world EXCEPT ![p] = @ \cup {<<"bevy", bevyWrites + 1>>}]
    /\ changed' = TRUE
    /\ UNCHANGED <<scenario, spawns, hookVars, editVars, mirrorVars, frameVars, signalVars,
                   sent, fresh>>

----------------------------------------------------------------------------
(* The frame applies the commands.                                         *)

StartFrame ==
    /\ pc = "bevy" /\ pc' = "commands"
    /\ UNCHANGED <<worldVars, hookVars, editVars, mirrorVars, todo, signalVars, sent, fresh>>

NextCommand == pc = "commands" /\ commands # <<>> /\ commands' = Tail(commands)

\* A signal starts with a value, and with empty queues.
Started(s, value) ==
    /\ accepted' = [accepted EXCEPT ![s] = value]
    /\ published' = [published EXCEPT ![s] = value]

\* The future gets the current handle with a receiver that has seen it.
Answer(h) ==
    /\ hook' = [hook EXCEPT ![h] = "answered"]
    /\ bound' = [bound EXCEPT ![h] = handle]

\* register_or_get_resource_dyn: an error without the resource; the mirror's
\* handle if there is a mirror; else a mirror with the resource's value.
RegisterOrGetResourceDyn ==
    /\ NextCommand /\ IsResource /\ Head(commands) \in Hooks
    /\ \/ /\ mirror = "none" /\ world = Empty
          /\ hook' = [hook EXCEPT ![Head(commands)] = "failed"]
          /\ UNCHANGED <<bound, mirror, signalVars>>
       \/ /\ mirror = "none" /\ world # Empty
          /\ mirror' = "active" /\ Started("dyn", world)
          /\ Answer(Head(commands)) /\ UNCHANGED <<pending, readable>>
       \/ /\ mirror # "none"
          /\ Answer(Head(commands)) /\ UNCHANGED <<mirror, signalVars>>
    /\ UNCHANGED <<worldVars, news, shown, editVars, typed, handle, frameVars, sent, fresh>>

\* register_or_get_query_dyn: a mirror starts empty, and may have no entities.
RegisterOrGetQueryDyn ==
    /\ NextCommand /\ ~IsResource /\ Head(commands) \in Hooks
    /\ mirror' = IF mirror = "none" THEN "active" ELSE mirror
    /\ Answer(Head(commands))
    /\ UNCHANGED <<worldVars, news, shown, editVars, typed, handle, frameVars, signalVars,
                   sent, fresh>>

\* Mutant: only the mirror's own handle is replaced.
Unaware == {}

\* Mutant: hooks that subscribe later find the change again.
Everyone == Hooks

\* send_replace marks every receiver, those of hooks not yet bound included.
Receivers == {h \in Hooks : bound[h] # "none"}

\* notify_typed_resource_mirror
NotifyTypedResourceMirror ==
    \/ /\ mirror = "none"
       /\ UNCHANGED <<mirror, handle, news>>
    \/ /\ mirror # "none"
       /\ mirror' = "elevated" /\ handle' = "typed" /\ news' = Receivers

\* The typed mirror is made from the resource; it is not without one.  What its
\* new systems see counts as changed.  It elevates a dynamic mirror that exists.
RequestBevyResource ==
    /\ NextCommand /\ IsResource /\ Head(commands) = "typed"
    /\ \/ /\ world # Empty
          /\ typed' = TRUE /\ changed' = TRUE /\ Started("typed", world)
          /\ NotifyTypedResourceMirror
       \/ /\ world = Empty
          /\ UNCHANGED <<typed, changed, accepted, published, mirror, handle, news>>
    /\ UNCHANGED <<scenario, world, spawns, bevyWrites, hook, bound, shown, editVars,
                   frameVars, pending, readable, sent, fresh>>

\* ElevateReflectQuery finds the mirror or does nothing.
ElevateReflectQuery ==
    /\ NextCommand /\ ~IsResource /\ Head(commands) = "typed"
    /\ mirror' = IF mirror = "none" THEN "none" ELSE "elevated"
    /\ UNCHANGED <<worldVars, hookVars, editVars, typed, handle, frameVars, signalVars,
                   sent, fresh>>

Idle == pc = "accumulate" \/ (pc = "commands" /\ commands = <<>>)

EndFrame ==
    /\ Idle /\ pc' = "bevy"
    /\ UNCHANGED <<worldVars, hookVars, editVars, mirrorVars, todo, signalVars, sent, fresh>>

----------------------------------------------------------------------------
(* A run of the schedules                                                  *)

\* The systems of an elevated mirror return at once; no system drives a query.
Due ==
    (IF mirror = "active" THEN {"read", "write"} ELSE {})
      \cup (IF mirror = "active" /\ IsResource THEN {"drive"} ELSE {})
      \cup (IF typed THEN {"drive typed", "write typed"} ELSE {})

\* PreUpdate: sync_mirror_to_resource sends the resource to its typed mirror.
RunSchedules ==
    /\ Idle /\ Due # {}
    /\ pc' = "sync" /\ todo' = Due
    /\ sent' = [sent EXCEPT !["typed"] = IF typed /\ changed THEN world ELSE @]
    /\ changed' = (changed /\ ~typed)
    /\ UNCHANGED <<scenario, world, spawns, bevyWrites, hookVars, editVars, mirrorVars,
                   signalVars, fresh>>

Runs(system) == pc = "sync" /\ system \in todo /\ todo' = todo \ {system} /\ pc' = pc

\* Update: the read system sends bevy's value, changed or not.
ReadResource ==
    /\ Runs("read") /\ IsResource
    /\ sent' = [sent EXCEPT !["dyn"] = world]
    /\ UNCHANGED <<worldVars, hookVars, editVars, mirrorVars, signalVars, fresh>>

ReadQuery ==
    /\ Runs("read") /\ ~IsResource
    /\ sent' = [sent EXCEPT !["dyn"] = world]
    /\ UNCHANGED <<worldVars, hookVars, editVars, mirrorVars, signalVars, fresh>>

Latest(ops) == CHOOSE op \in ops : \A o \in ops : o[2] <= op[2]

\* Closures: what mutate_set sent, typed replacements, before what mutate sent.
Applied(value, ops) ==
    LET replacing == {op \in ops : op[1] = "set"}
        base(p)   == IF replacing = {} THEN value[p] ELSE {Latest(replacing)}
    IN  [p \in DOMAIN value |-> base(p) \cup (ops \ replacing)]

\* Mutant: a value that was sent wins over the closures.
ValueOnly(s) == IF sent[s] = Nothing THEN Applied(accepted[s], queue[s]) ELSE sent[s]

Drained(s) == Applied(IF sent[s] = Nothing THEN accepted[s] ELSE sent[s], queue[s])

\* tick drains s and publishes if anything is pending, unless it defers, which
\* no reader can cause before the first publish.
Tick(s, defer) ==
    LET work == sent[s] # Nothing \/ queue[s] # {} \/ s \in pending
    IN  /\ defer => s \in readable /\ scenario.defer
        /\ accepted' = [accepted EXCEPT ![s] = Drained(s)]
        /\ \/ /\ work /\ ~defer
              /\ published' = [published EXCEPT ![s] = accepted'[s]]
              /\ pending' = pending \ {s} /\ readable' = readable \cup {s}
              /\ fresh' = fresh \cup {s}
           \/ /\ work /\ defer
              /\ pending' = pending \cup {s}
              /\ UNCHANGED <<published, readable, fresh>>
           \/ ~work /\ UNCHANGED <<published, pending, readable, fresh>>
        /\ sent' = [sent EXCEPT ![s] = Nothing]
        /\ queue' = [queue EXCEPT ![s] = {}]

\* drive_reflect_resource_signals is ordered neither before nor after the read.
DriveReflectResourceSignals(defer) ==
    /\ Runs("drive") /\ ("read" \in todo => scenario.driveFirst)
    /\ Tick("dyn", defer)
    /\ UNCHANGED <<worldVars, hookVars, mutates, replaces, mirrorVars>>

DriveSignal(defer) ==
    /\ Runs("drive typed")
    /\ Tick("typed", defer)
    /\ UNCHANGED <<worldVars, hookVars, mutates, replaces, mirrorVars>>

\* PostUpdate
Posted(system) == Runs(system) /\ {"read", "drive", "drive typed"} \cap todo = {}

\* Bevy's value with what a signal has published: entities that left stay away.
Merged(s) == [p \in DOMAIN world |-> IF p \in DOMAIN published[s] THEN published[s][p] ELSE world[p]]

\* Mutant: in every run, also when nothing new is published.
EveryRun(s) == TRUE

NewVersion(s) == s \in fresh

\* Back to bevy if the version is new; only the dynamic mirrors mark a change.
WriteBack(s, marks) ==
    /\ \/ /\ NewVersion(s)
          /\ world' = Merged(s) /\ changed' = (changed \/ marks)
       \/ ~NewVersion(s) /\ UNCHANGED <<world, changed>>
    /\ fresh' = fresh \ {s}
    /\ UNCHANGED <<scenario, spawns, bevyWrites, hookVars, editVars, mirrorVars, signalVars, sent>>

WriteResource == Posted("write") /\ IsResource /\ WriteBack("dyn", TRUE)

WriteQuery == Posted("write") /\ ~IsResource /\ WriteBack("dyn", TRUE)

SyncResourceToMirror == Posted("write typed") /\ WriteBack("typed", FALSE)

EndRun ==
    /\ pc = "sync" /\ todo = {} /\ pc' = "accumulate"
    /\ UNCHANGED <<worldVars, hookVars, editVars, mirrorVars, todo, signalVars, sent, fresh>>

----------------------------------------------------------------------------
ApplyCommand ==
    \/ RegisterOrGetResourceDyn \/ RegisterOrGetQueryDyn
    \/ RequestBevyResource \/ ElevateReflectQuery

Frame ==
    \/ StartFrame \/ ApplyCommand \/ EndFrame \/ RunSchedules \/ EndRun
    \/ ReadResource \/ ReadQuery
    \/ \E defer \in BOOLEAN : DriveReflectResourceSignals(defer) \/ DriveSignal(defer)
    \/ WriteResource \/ WriteQuery \/ SyncResourceToMirror

\* What the thread of the components runs by itself.
Dioxus == \E h \in Hooks : Bind(h) \/ Rebind(h) \/ Forward(h)

Next ==
    \/ \E h \in Hooks : Request(h) \/ Mutate(h) \/ SetValue(h)
    \/ RequestTyped \/ Dioxus
    \/ SpawnOrDespawn \/ BevyWrite
    \/ Frame

Spec == Init /\ [][Next]_vars

\* Frames end and follow each other, and virtual time advances; dioxus polls the
\* tasks of components; a reader does not defer for ever.
FairSpec ==
    /\ Spec
    /\ WF_vars(Frame) /\ SF_vars(EndFrame) /\ SF_vars(RunSchedules) /\ SF_vars(Dioxus)
    /\ SF_vars(DriveReflectResourceSignals(FALSE)) /\ SF_vars(DriveSignal(FALSE))

----------------------------------------------------------------------------
(* What a dynamic mirror promises.                                         *)

\* Re-bind whenever bevy replaces the handle on elevation: a hook without a
\* notification writes to the handle of the mirror, whenever it was answered.
HandlesFollow ==
    \A h \in Hooks : hook[h] = "bound" /\ h \notin news => bound[h] = handle

BevyPart(writes) == writes \cap ({"bevy"} \X Nat)

\* Unless a tick precedes the read of its run, or a hook replaces the value, no
\* write-back undoes a change of bevy's: elevated or not, deferred or not, and
\* with both mirrors at work.
BevyChangesKept ==
    [][scenario.set = 0 /\ ~scenario.driveFirst
         => \A p \in DOMAIN world \cap DOMAIN world' :
              BevyPart(world[p]) \subseteq BevyPart(world'[p])]_vars

ShownNow(h) == hook[h] = "bound" => shown[h] = world

\* If reads precede ticks, the hooks of a resource end up showing it, across
\* elevations, replacements and both mirrors at work.
EventuallyShown ==
    <>[](IsResource /\ ~scenario.driveFirst => \A h \in Hooks : ShownNow(h))

\* A closure that was sent to a dynamic mirror that no longer ticks.
Stranded(op) == op \in queue["dyn"] /\ mirror = "elevated"

\* If moreover no tick defers and the typed mirror came second, every closure ends
\* up in the resource, or in the queue of an elevated mirror.
MutationsArrive ==
    <>[](scenario.set = 0 /\ ~scenario.driveFirst /\ ~scenario.defer /\ scenario.typed # "any"
           => \A n \in 1..mutates :
                Stranded(<<"mutate", n>>) \/ \A p \in DOMAIN world : <<"mutate", n>> \in world[p])

\* "Read the current query snapshot": the hooks of a query end up showing it.
QueriesShown == <>[](\A h \in Hooks : ShownNow(h))
=============================================================================
