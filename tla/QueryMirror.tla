----------------------------- MODULE QueryMirror -----------------------------
(***************************************************************************)
(* The mirrors of one component type T and the queries that list them:     *)
(* query/mod.rs.  A hook counts itself in its query and asks for the       *)
(* query's signal, a map from entities to handles of their mirrors.  The   *)
(* PostUpdate systems pass values between T and its mirror and delete      *)
(* mirrors whose counts are gone; the Last systems make the mirrors that   *)
(* an active query lacks and bring its map up to date.                     *)
(*                                                                         *)
(* A value of T is the set of the writes it contains.  Mirrors are         *)
(* numbered, and a handle is the number of its mirror.  Both kinds of      *)
(* signal are what SnapshotLog says: an accepted value and a published one *)
(* that catches up.  Queries have one component and a filter of their own. *)
(***************************************************************************)
EXTENDS Integers, FiniteSets

CONSTANTS
    Hooks, Queries, Entities,
    QueryOf,    \* QueryOf[h]: the query of hook h
    MaxMount,   \* how many times hooks mount
    MaxToggle,  \* how many times an entity enters or leaves a filter
    MaxBevy,    \* how many times bevy systems change a component
    MaxMutate   \* how many closures are sent through handles

ASSUME QueryAssumption ==
    /\ IsFiniteSet(Hooks) /\ IsFiniteSet(Queries) /\ IsFiniteSet(Entities)
    /\ QueryOf \in [Hooks -> Queries]
    /\ {MaxMount, MaxToggle, MaxBevy, MaxMutate} \subseteq Nat

Write == {"bevy", "mutate"} \X Nat

VARIABLES
    matches,     \* matches[q]: the entities that q's filter lets through
    comp,        \* comp[e]: the component
    changed,     \* entities whose component changed since it was last looked at
    toggles, bevyWrites, mutates, mounts,   \* what happened so far
    mounted,     \* hooks of mounted components
    counted,     \* those whose effect has sent its +1
    early,       \* early[q]: hooks of q that unmounted before that, a history variable
    asked,       \* those whose future has sent its request
    ready,       \* those that were answered
    deltas,      \* deltas[q]: the sum of the deltas in the command channel
    requests,    \* hooks whose requests are in the command channel
    pc,          \* where the frame is
    registered,  \* queries whose systems exist
    pending,     \* PendingQueryTrackingDeltas
    count,       \* MirrorQueryHandleCount
    active,      \* queries whose MirrorQueryActive is true
    initialized, \* queries whose QueryMirrorInitialized is true
    fresh,       \* fresh[q]: mirrors inserted since q's sync system last ran
    listed,      \* listed[q]: q's map, with all that was sent to its signal
    shown,       \* shown[q]: q's published map
    mirror,      \* mirror[e]: the DioxusMirror of e, 0 if none
    made,        \* mirrors made so far
    track,       \* track[e]: tracking_counts
    doomed,      \* entities whose mirrors a queued command removes
    queue,       \* queue[e]: closures sent to e's mirror
    replace,     \* entities whose component was sent to their mirrors
    accepted,    \* accepted[e]: the mirror with all that ticks have drained
    published,   \* published[e]: its published value
    version,     \* version[e]: its publishes
    lastVersion  \* last_versions of sync_component_to_mirror

bevyVars   == <<matches, comp, changed, toggles, bevyWrites>>
hookVars   == <<mounts, mounted, counted, early, asked, ready, mutates>>
channelVars == <<deltas, requests>>
queryVars  == <<registered, pending, count, active, initialized, fresh, listed, shown>>
mirrorVars == <<mirror, made, track, accepted, published, version>>
vars == <<bevyVars, hookVars, channelVars, queryVars, mirrorVars, doomed,
          pc, queue, replace, lastVersion>>

Value == SUBSET Write

\* The count of a query that an entity left may grow when it comes back.
Counts(f) == DOMAIN f \subseteq Queries /\ f \in [DOMAIN f -> Nat]

Map == UNION {[D -> 0..made] : D \in SUBSET Entities}

\* The deltas of hooks that were counted cancel out; each hook that unmounted
\* before it was counted leaves its -1.
TypeOK ==
    /\ matches \in [Queries -> SUBSET Entities]
    /\ comp \in [Entities -> Value] /\ changed \subseteq Entities
    /\ toggles \in 0..MaxToggle /\ bevyWrites \in 0..MaxBevy
    /\ mutates \in 0..MaxMutate /\ mounts \in 0..MaxMount
    /\ counted \cup asked \subseteq mounted /\ mounted \subseteq Hooks
    /\ ready \subseteq asked /\ requests \subseteq Hooks
    /\ deltas \in [Queries -> Int] /\ pending \in [Queries -> Int]
    /\ pc \in {"bevy", "accumulate", "toMirror", "drive", "toComponent", "delete",
               "applied", "sync", "driveQuery"}
    /\ active \cup initialized \subseteq registered
    /\ registered \subseteq Queries
    /\ early \in [Queries -> Nat] /\ count \in [Queries -> Int]
    /\ \A q \in Queries : count[q] \in -early[q]..Cardinality(Hooks)
    /\ fresh \in [Queries -> SUBSET Entities]
    /\ listed \in [Queries -> Map] /\ shown \in [Queries -> Map]
    /\ mirror \in [Entities -> 0..made] /\ made \in Nat
    /\ DOMAIN track = Entities /\ \A e \in Entities : Counts(track[e])
    /\ doomed \subseteq Entities
    /\ queue \in [Entities -> Value] /\ replace \subseteq Entities
    /\ accepted \in [Entities -> Value] /\ published \in [Entities -> Value]
    /\ version \in [Entities -> Nat] /\ lastVersion \in [Entities -> Nat \cup {-1}]

Init ==
    /\ matches \in [Queries -> SUBSET Entities]
    /\ comp = [e \in Entities |-> {}] /\ changed = Entities
    /\ toggles = 0 /\ bevyWrites = 0 /\ mutates = 0 /\ mounts = 0
    /\ mounted = {} /\ counted = {} /\ asked = {} /\ ready = {}
    /\ early = [q \in Queries |-> 0]
    /\ deltas = [q \in Queries |-> 0] /\ requests = {}
    /\ pc = "bevy"
    /\ registered = {} /\ active = {} /\ initialized = {}
    /\ pending = [q \in Queries |-> 0] /\ count = [q \in Queries |-> 0]
    /\ fresh = [q \in Queries |-> {}]
    /\ listed = [q \in Queries |-> <<>>] /\ shown = [q \in Queries |-> <<>>]
    /\ mirror = [e \in Entities |-> 0] /\ made = 0
    /\ track = [e \in Entities |-> <<>>]
    /\ doomed = {}
    /\ queue = [e \in Entities |-> {}] /\ replace = {}
    /\ accepted = [e \in Entities |-> {}] /\ published = [e \in Entities |-> {}]
    /\ version = [e \in Entities |-> 0] /\ lastVersion = [e \in Entities |-> -1]

Mirrored == {e \in Entities : mirror[e] # 0}

----------------------------------------------------------------------------
(* Components: use_bevy_query.  The command channel is read when a frame    *)
(* starts and a mirror's queue when its driver ticks, once per run of the   *)
(* schedules; what is sent in between might as well be sent between frames. *)

Mount(h) ==
    /\ pc = "bevy" /\ h \notin mounted /\ mounts < MaxMount
    /\ mounts' = mounts + 1 /\ mounted' = mounted \cup {h}
    /\ UNCHANGED <<bevyVars, counted, early, asked, ready, mutates, channelVars, queryVars,
                   mirrorVars, doomed, pc, queue, replace, lastVersion>>

\* The effect that runs after the component's first render.
Count(h) ==
    /\ pc = "bevy" /\ h \in mounted \ counted
    /\ counted' = counted \cup {h}
    /\ deltas' = [deltas EXCEPT ![QueryOf[h]] = @ + 1]
    /\ UNCHANGED <<bevyVars, mounts, mounted, early, asked, ready, mutates, requests, queryVars,
                   mirrorVars, doomed, pc, queue, replace, lastVersion>>

Ask(h) ==
    /\ pc = "bevy" /\ h \in mounted \ asked
    /\ asked' = asked \cup {h}
    /\ requests' = requests \cup {h}
    /\ UNCHANGED <<bevyVars, mounts, mounted, counted, early, ready, mutates, deltas, queryVars,
                   mirrorVars, doomed, pc, queue, replace, lastVersion>>

\* use_drop sends its -1 whether or not the effect has sent its +1: a scope that
\* is dropped takes its queued effects with it.
Unmount(h) ==
    /\ pc = "bevy" /\ h \in mounted
    /\ mounted' = mounted \ {h} /\ counted' = counted \ {h}
    /\ asked' = asked \ {h} /\ ready' = ready \ {h}
    /\ deltas' = [deltas EXCEPT ![QueryOf[h]] = @ - 1]
    /\ early' = IF h \in counted THEN early ELSE [early EXCEPT ![QueryOf[h]] = @ + 1]
    /\ UNCHANGED <<bevyVars, mounts, mutates, requests, queryVars, mirrorVars, doomed,
                   pc, queue, replace, lastVersion>>

\* A closure goes to the mirror whose handle is shown; the queue of a mirror
\* that was removed is never drained.
Mutate(h, e) ==
    /\ pc = "bevy" /\ h \in ready /\ mutates < MaxMutate
    /\ e \in DOMAIN shown[QueryOf[h]]
    /\ mutates' = mutates + 1
    /\ queue' = IF shown[QueryOf[h]][e] = mirror[e]
                THEN [queue EXCEPT ![e] = @ \cup {<<"mutate", mutates + 1>>}]
                ELSE queue
    /\ UNCHANGED <<bevyVars, mounts, mounted, counted, early, asked, ready, channelVars, queryVars,
                   mirrorVars, doomed, pc, replace, lastVersion>>

----------------------------------------------------------------------------
(* The bevy world                                                          *)

\* A component that a filter looks for is inserted or removed.
Toggle(q, e) ==
    /\ pc = "bevy" /\ toggles < MaxToggle
    /\ toggles' = toggles + 1
    /\ matches' = [matches EXCEPT ![q] = IF e \in @ THEN @ \ {e} ELSE @ \cup {e}]
    /\ UNCHANGED <<comp, changed, bevyWrites, hookVars, channelVars, queryVars, mirrorVars,
                   doomed, pc, queue, replace, lastVersion>>

BevyWrite(e) ==
    /\ pc = "bevy" /\ bevyWrites < MaxBevy
    /\ bevyWrites' = bevyWrites + 1
    /\ comp' = [comp EXCEPT ![e] = @ \cup {<<"bevy", bevyWrites + 1>>}]
    /\ changed' = changed \cup {e}
    /\ UNCHANGED <<matches, toggles, hookVars, channelVars, queryVars, mirrorVars, doomed,
                   pc, queue, replace, lastVersion>>

\* run_dioxus_sync_main applies all that the channel holds.  The deltas are
\* collected, and a query's first request makes its systems and resources.
StartFrame ==
    /\ pc = "bevy" /\ pc' = "accumulate"
    /\ pending' = [q \in Queries |-> pending[q] + deltas[q]]
    /\ deltas' = [q \in Queries |-> 0]
    /\ registered' = registered \cup {QueryOf[h] : h \in requests}
    /\ ready' = ready \cup (requests \cap asked)
    /\ requests' = {}
    /\ UNCHANGED <<bevyVars, mounts, mounted, counted, early, asked, mutates, count, active,
                   initialized, fresh, listed, shown, mirrorVars, doomed, queue, replace,
                   lastVersion>>

\* As in ResourceMirror, time decides whether the schedules run, once more.
RunSchedules ==
    /\ pc = "accumulate" /\ registered # {}
    /\ pc' = "toMirror"
    /\ UNCHANGED <<bevyVars, hookVars, channelVars, queryVars, mirrorVars, doomed,
                   queue, replace, lastVersion>>

EndFrame ==
    /\ pc = "accumulate" /\ pc' = "bevy"
    /\ UNCHANGED <<bevyVars, hookVars, channelVars, queryVars, mirrorVars, doomed,
                   queue, replace, lastVersion>>

----------------------------------------------------------------------------
(* DioxusSyncPostUpdate: a chain, and a system per query besides it        *)

\* sync_mirror_to_component: set_value with each changed component.
SyncMirrorToComponent ==
    /\ pc = "toMirror" /\ pc' = "drive"
    /\ replace' = changed \cap Mirrored
    /\ changed' = {}
    /\ UNCHANGED <<matches, comp, toggles, bevyWrites, hookVars, channelVars, queryVars,
                   mirrorVars, doomed, queue, lastVersion>>

Drained(e) == (IF e \in replace THEN comp[e] ELSE accepted[e]) \cup queue[e]

\* tick of each mirror; the ones in deferring are held back by somebody's Arc,
\* which nobody can have before the first publish.
DriveComponentSignals(deferring) ==
    LET publishing == {e \in Mirrored \ deferring : e \in replace \/ Drained(e) # published[e]}
    IN  /\ pc = "drive" /\ pc' = "toComponent"
        /\ \A e \in deferring : version[e] # 0
        /\ accepted' = [e \in Entities |-> IF e \in Mirrored THEN Drained(e) ELSE accepted[e]]
        /\ published' = [e \in Entities |-> IF e \in publishing THEN Drained(e) ELSE published[e]]
        /\ version' = [e \in Entities |-> IF e \in publishing THEN version[e] + 1 ELSE version[e]]
        /\ queue' = [e \in Entities |-> {}] /\ replace' = {}
        /\ UNCHANGED <<bevyVars, hookVars, channelVars, queryVars, mirror, made, track,
                       doomed, lastVersion>>

\* Mutant: every mirror is written back in every run.
AnyVersion(e) == TRUE

\* Mutant: off by one.
OneBehind(e) == version[e] > lastVersion[e] + 1

\* Mutant: only mirrors never seen before are written back.
FirstOnly(e) == lastVersion[e] = -1

NewVersion(e) == version[e] # lastVersion[e]

\* sync_component_to_mirror
SyncComponentToMirror ==
    LET synced == {e \in Mirrored : NewVersion(e)}
    IN  /\ pc = "toComponent" /\ pc' = "delete"
        /\ comp' = [e \in Entities |-> IF e \in synced THEN published[e] ELSE comp[e]]
        /\ lastVersion' = [e \in Entities |-> IF e \in synced THEN version[e] ELSE lastVersion[e]]
        /\ UNCHANGED <<matches, changed, toggles, bevyWrites, hookVars, channelVars, queryVars,
                       mirrorVars, doomed, queue, replace>>

\* Mutant: off by one.
Zero(n) == n = 0

Unused(n) == n <= 0

\* MirrorQueryData::apply_tracking_delta for one component: a key that is
\* missing starts at 0, and one that is not positive is removed.
Tracked(counts, q, delta) ==
    LET n == (IF q \in DOMAIN counts THEN counts[q] ELSE 0) + delta
    IN  IF Unused(n)
        THEN [p \in DOMAIN counts \ {q} |-> counts[p]]
        ELSE [p \in DOMAIN counts \cup {q} |-> IF p = q THEN n ELSE counts[p]]

\* Mutant: pending is not reset.
KeepPending(n) == n

AfterApply(n) == 0

\* apply_tracking_queries_delta, for a query that has a delta; it is ordered
\* neither before nor after delete_unused_mirrors.
ApplyTrackingQueriesDelta(q) ==
    /\ pc \in {"delete", "applied"}
    /\ q \in registered /\ pending[q] # 0
    /\ track' = [e \in Entities |->
                    IF e \in Mirrored \cap matches[q]
                    THEN Tracked(track[e], q, pending[q])
                    ELSE track[e]]
    /\ count' = [count EXCEPT ![q] = @ + pending[q]]
    /\ active' = IF count'[q] > 0 THEN active \cup {q} ELSE active \ {q}
    /\ pending' = [pending EXCEPT ![q] = AfterApply(@)]
    /\ UNCHANGED <<bevyVars, hookVars, channelVars, registered, initialized, fresh, listed, shown,
                   mirror, made, accepted, published, version, doomed, pc, queue, replace,
                   lastVersion>>

DeleteUnusedMirrors ==
    /\ pc = "delete" /\ pc' = "applied"
    /\ doomed' = {e \in Mirrored : DOMAIN track[e] = {}}
    /\ UNCHANGED <<bevyVars, hookVars, channelVars, queryVars, mirrorVars, queue,
                   replace, lastVersion>>

\* The end of the schedule applies the commands of delete_unused_mirrors.
RemoveMirrors ==
    /\ pc = "applied" /\ pc' = "sync"
    /\ \A q \in registered : pending[q] = 0
    /\ mirror' = [e \in Entities |-> IF e \in doomed THEN 0 ELSE mirror[e]]
    /\ track' = [e \in Entities |-> IF e \in doomed THEN <<>> ELSE track[e]]
    /\ accepted' = [e \in Entities |-> IF e \in doomed THEN {} ELSE accepted[e]]
    /\ published' = [e \in Entities |-> IF e \in doomed THEN {} ELSE published[e]]
    /\ version' = [e \in Entities |-> IF e \in doomed THEN 0 ELSE version[e]]
    /\ queue' = [e \in Entities |-> IF e \in doomed THEN {} ELSE queue[e]]
    /\ doomed' = {}
    /\ UNCHANGED <<bevyVars, hookVars, channelVars, queryVars, made, replace, lastVersion>>

----------------------------------------------------------------------------
(* DioxusSyncLast: per query, a chain of two                               *)

\* Mutant: a mirror that replaced another one is not seen as changed.
NoneFresh(q) == {}

\* changed_mirrors, as far as handles are concerned: one that only published
\* is listed again under the same handle.
ChangedMirrors(q) == fresh[q]

Present(q) == matches[q] \cap Mirrored

Missing(q) == matches[q] \ Mirrored

\* Mutant: entities that match without a change are not looked for.
NoneUnseen(q, seen) == {}

\* The reconciliation: mirrors that are there and neither known nor changed.
Unseen(q, seen) ==
    IF Cardinality(Present(q)) # Cardinality(seen) THEN Present(q) \ seen ELSE {}

\* The map that q's system leaves: what it knew and is still there, what
\* changed, and what it finds when the numbers disagree.
Relisted(q) ==
    LET kept   == DOMAIN listed[q] \cap Present(q)
        listing == Present(q) \cap ChangedMirrors(q)
        seen   == kept \cup listing
        found  == Unseen(q, seen)
    IN  [e \in seen \cup found |-> IF e \in listing \cup found THEN mirror[e] ELSE listed[q][e]]

\* sync_query_mirror_to_signal, which runs while its query is active.  The
\* systems of all queries share nothing but the sync point after them, which
\* applies their commands: insert_if_new, so that of several queries that
\* lack the same mirror the first one in some order makes it.
SyncQueryMirrorsToSignals ==
    LET complete == {q \in active \ initialized : Missing(q) = {}}
        spawned  == UNION {Missing(q) : q \in active}
    IN  /\ pc = "sync" /\ pc' = "driveQuery"
        /\ initialized' = initialized \cup complete
        /\ listed' = [q \in Queries |->
              CASE q \in complete -> [e \in Present(q) |-> mirror[e]]
                [] q \in active \cap initialized -> Relisted(q)
                [] OTHER -> listed[q]]
        /\ made' = IF spawned = {} THEN made ELSE made + 1
        /\ mirror' = [e \in Entities |-> IF e \in spawned THEN made + 1 ELSE mirror[e]]
        /\ \E first \in [spawned -> active] :
              /\ \A e \in spawned : e \in Missing(first[e])
              /\ track' = [e \in Entities |->
                             IF e \in spawned THEN [q \in {first[e]} |-> 0] ELSE track[e]]
        /\ accepted' = [e \in Entities |-> IF e \in spawned THEN comp[e] ELSE accepted[e]]
        /\ published' = [e \in Entities |-> IF e \in spawned THEN comp[e] ELSE published[e]]
        /\ fresh' = [q \in Queries |-> IF q \in active THEN spawned ELSE fresh[q] \cup spawned]
        /\ UNCHANGED <<bevyVars, hookVars, channelVars, registered, pending, count, active,
                       shown, version, doomed, queue, replace, lastVersion>>

\* drive_query_signal
DriveQuerySignals(deferring) ==
    /\ pc = "driveQuery" /\ pc' = "accumulate"
    /\ shown' = [q \in Queries |-> IF q \in deferring THEN shown[q] ELSE listed[q]]
    /\ UNCHANGED <<bevyVars, hookVars, channelVars, registered, pending, count, active,
                   initialized, fresh, listed, mirrorVars, doomed, queue, replace,
                   lastVersion>>

----------------------------------------------------------------------------
Frame ==
    \/ StartFrame \/ RunSchedules \/ EndFrame
    \/ SyncMirrorToComponent
    \/ \E deferring \in SUBSET Mirrored : DriveComponentSignals(deferring)
    \/ SyncComponentToMirror \/ DeleteUnusedMirrors \/ RemoveMirrors
    \/ \E q \in Queries : ApplyTrackingQueriesDelta(q)
    \/ SyncQueryMirrorsToSignals
    \/ \E deferring \in SUBSET Queries : DriveQuerySignals(deferring)

Hook(h) ==
    \/ Mount(h) \/ Count(h) \/ Ask(h) \/ Unmount(h)
    \/ \E e \in Entities : Mutate(h, e)

Next ==
    \/ \E h \in Hooks : Hook(h)
    \/ \E e \in Entities : BevyWrite(e)
    \/ \E q \in Queries, e \in Entities : Toggle(q, e)
    \/ Frame

Spec == Init /\ [][Next]_vars

\* Frames follow each other, virtual time advances, a mounted component's
\* effect and future run, frames end, and no component defers publishing for ever.
FairSpec ==
    /\ Spec
    /\ WF_vars(Frame) /\ SF_vars(RunSchedules) /\ SF_vars(EndFrame)
    /\ \A h \in Hooks : SF_vars(Count(h) \/ Ask(h))
    /\ SF_vars(DriveQuerySignals({}))
    /\ SF_vars(DriveComponentSignals({}))

----------------------------------------------------------------------------
(* What the mirrors and queries promise.                                   *)

\* Between frames an active query lists no handle of a mirror that was
\* removed, nor one of a predecessor of the mirror that an entity has.
ListedAreLive ==
    pc = "bevy" => \A q \in active : \A e \in DOMAIN listed[q] : listed[q][e] = mirror[e]

\* A change by a bevy system is never undone by an older value of a mirror,
\* through deferred publishes, and mirrors that are removed and made again.
BevyChangesKept == \A n \in 1..bevyWrites : \E e \in Entities : <<"bevy", n>> \in comp[e]

\* Between frames, a component and a mirror that have nothing to tell each
\* other hold the same value.
Converged ==
    pc = "bevy" =>
        \A e \in Mirrored \ changed :
            queue[e] = {} /\ accepted[e] = published[e] => comp[e] = published[e]

\* Once all components have unmounted for good, no mirror is left, provided
\* that no entity left a filter while it was mirrored.
UnusedAreDeleted ==
    <>[](mounted = {} /\ toggles = 0) => <>[](Mirrored = {})

\* A query is shown, in the end, every entity that it matches, with the mirror
\* that it has, if more of its hooks stay mounted than have unmounted before their
\* effects; otherwise their -1 keep it inactive under the hooks that are mounted.
EventuallyShown ==
    \A q \in Queries :
        <>[](Cardinality({h \in mounted : QueryOf[h] = q}) > early[q]) =>
            <>[](/\ matches[q] \subseteq Mirrored
                 /\ shown[q] = [e \in matches[q] |-> mirror[e]])

\* A closure that a live mirror accepts reaches the component, unless a change
\* by bevy takes its place or the mirror is removed.
MutationsArrive ==
    \A e \in Entities : \A n \in 1..MaxMutate :
        <<"mutate", n>> \in queue[e]
          ~> (<<"mutate", n>> \in comp[e] \/ bevyWrites > 0 \/ mirror[e] = 0)
=============================================================================
