----------------------------- MODULE AssetMirror -----------------------------
(***************************************************************************)
(* The mirrors of the assets of one type: asset/mod.rs.  A hook follows an  *)
(* id that may change: its task gives up the mirror of the old id, asks for *)
(* the one of the new id and, once answered, counts itself with +1.  Bevy   *)
(* tells the mirrors of changes by asset events; closures reach a mirror    *)
(* through its queue, and the asset by an id that mutate sends after it.    *)
(*                                                                         *)
(* The value of a mirror is an error, or "Ok" with the set of the writes    *)
(* that it contains.  The signal is what SnapshotLog says: an accepted      *)
(* value and a published one that catches up unless a tick defers.  The     *)
(* mirrors of an id are numbered; only the newest can be in the map.        *)
(***************************************************************************)
EXTENDS Integers, Sequences, FiniteSets

CONSTANTS
    Hooks,       \* calls of use_bevy_asset, each mounted at most once
    Ids,         \* asset ids
    NoId,        \* an id that is not available: the Err of the memo, None
    Scenarios    \* what may happen in one behaviour: see Scenario

\* The hooks that mount, the ids they want, what these are at first, and how many
\* times an id changes, an asset is loaded, added or removed, bevy changes an
\* asset, and a closure is sent.  A behaviour has one scenario: one run explores
\* a few small ones.
Scenario == [hooks : SUBSET Hooks, ids : SUBSET Ids,
             initial : SUBSET {"NonAsset", "NotLoaded", "Loading", "Added"},
             retarget : Nat, world : Nat, bevy : Nat, mutate : Nat]

ASSUME AssetAssumption ==
    IsFiniteSet(Hooks) /\ IsFiniteSet(Ids) /\ NoId \notin Ids /\ Scenarios \subseteq Scenario

VARIABLES
    scenario,   \* the scenario of this behaviour
    world,      \* world[id]: what the asset server and Assets know of id
    asset,      \* asset[id]: the writes that the asset contains
    unsent,     \* ids whose events wait in Assets
    recent, old,             \* messages written since, and before, the last aging
    retargets, worldChanges, bevyWrites, mutates,  \* what happened so far
    mounted, gone,           \* hooks
    want,       \* want[h]: the newest id of h's memo
    unread,     \* hooks whose task has not received it
    asking,     \* asking[h]: the id whose mirror the task awaits
    answer,     \* answer[h]: the number of the mirror it was answered, 0 if none
    req,        \* req[h]: requested_id; the forwarding tasks run iff it is set
    writer,     \* writer[h]: the signal in writer_signal, with extra_info's id
    telling,    \* the id that a running mutate has yet to send
    requests,   \* requests[h]: h's request in the command channel
    deltas,     \* deltas[id]: the deltas of id in the command channel
    pc,         \* where the frame is
    todo,       \* the systems that this run of the schedules has yet to run
    late,       \* asset_events runs after the sync schedules in this frame
    live,       \* ids in AssetMirrorMap
    made,       \* made[id]: mirrors made so far
    track,      \* track[id]: tracking_signals
    init,       \* init_requests
    pending,    \* pending[id]: PendingAssetTrackingDeltas
    told,       \* the ids in the changed-id channel
    changed,    \* ChangedAssetMirrors
    sent,       \* sent[id]: the newest value in the mirror's set_value channel
    queue,      \* queue[id]: the closures sent to it
    accepted,   \* accepted[id]: the mirror with all that ticks have drained
    published,  \* published[id]: its published value
    readable,   \* mirrors that have published, whose readers may defer a tick
    apart,      \* ids whose closures were published and told in different runs
    expired     \* ids with an event that bevy dropped before it was read

worldVars  == <<scenario, world, asset, worldChanges, bevyWrites>>
eventVars  == <<unsent, recent, old, late, expired>>
hookVars   == <<mounted, gone, want, unread, asking, answer, req, writer, retargets>>
mutateVars == <<telling, told, queue, mutates>>
frameVars  == <<pc, todo>>
mapVars    == <<live, made, track, init, pending, changed, apart>>
signalVars == <<sent, accepted, published, readable>>
vars == <<worldVars, eventVars, hookVars, mutateVars, requests, deltas,
          frameVars, mapVars, signalVars>>

Write == {"bevy", "mutate"} \X Nat

Ok(writes) == [state |-> "Ok", writes |-> writes]
Err(e)     == [state |-> e, writes |-> {}]

Errors == {"Loading", "NotLoaded", "NonAsset", "Fetching", "Error"}

Value == {Err(e) : e \in Errors} \cup [state : {"Ok"}, writes : SUBSET Write]

\* No value was sent.
Nothing == Err("Nothing")

Systems == {"collect", "drive", "init", "write", "track"}

NoWriter == [id |-> NoId, mirror |-> 0]

TypeOK ==
    /\ scenario \in Scenarios
    /\ world \in [Ids -> {"NonAsset", "NotLoaded", "Loading", "Failed",
                          "Loaded", "Added", "Removed"}]
    /\ asset \in [Ids -> SUBSET Write]
    /\ unsent \cup recent \cup old \subseteq Ids /\ expired \cup apart \subseteq Ids
    /\ retargets \in 0..scenario.retarget /\ worldChanges \in 0..scenario.world
    /\ bevyWrites \in 0..scenario.bevy /\ mutates \in 0..scenario.mutate
    /\ mounted \cup gone \subseteq Hooks /\ mounted \cap gone = {}
    /\ want \in [Hooks -> Ids \cup {NoId}] /\ unread \subseteq mounted
    /\ asking \in [Hooks -> Ids \cup {NoId}] /\ requests \in [Hooks -> Ids \cup {NoId}]
    /\ answer \in [Hooks -> Nat] /\ req \in [Hooks -> Ids \cup {NoId}]
    /\ writer \in [Hooks -> [id : Ids, mirror : Nat \ {0}] \cup {NoWriter}]
    /\ \A h \in Hooks : writer[h].id # NoId => writer[h].mirror <= made[writer[h].id]
    /\ telling \in Ids \cup {NoId} /\ told \cup changed \subseteq Ids
    /\ deltas \in [Ids -> Seq({-1, 1})] /\ pending \in [Ids -> Seq({-1, 1})]
    /\ pc \in {"bevy", "accumulate", "sync"} /\ todo \subseteq Systems /\ late \in BOOLEAN
    /\ live \subseteq {id \in Ids : made[id] > 0} /\ made \in [Ids -> Nat]
    /\ track \in [Ids -> 0..Cardinality(Hooks)] /\ init \subseteq Ids
    /\ sent \in [Ids -> Value \cup {Nothing}] /\ queue \in [Ids -> SUBSET Write]
    /\ accepted \in [Ids -> Value] /\ published \in [Ids -> Value] /\ readable \subseteq live

Init ==
    /\ scenario \in Scenarios
    /\ \E initial \in [scenario.ids -> scenario.initial] :
          world = [id \in Ids |-> IF id \in scenario.ids THEN initial[id] ELSE "NonAsset"]
    /\ asset = [id \in Ids |-> {}]
    /\ unsent = {} /\ recent = {} /\ old = {} /\ expired = {} /\ apart = {}
    /\ retargets = 0 /\ worldChanges = 0 /\ bevyWrites = 0 /\ mutates = 0
    /\ mounted = {} /\ gone = {} /\ unread = {}
    /\ want = [h \in Hooks |-> NoId] /\ asking = [h \in Hooks |-> NoId]
    /\ requests = [h \in Hooks |-> NoId] /\ answer = [h \in Hooks |-> 0]
    /\ req = [h \in Hooks |-> NoId] /\ writer = [h \in Hooks |-> NoWriter]
    /\ telling = NoId /\ told = {} /\ changed = {}
    /\ deltas = [id \in Ids |-> <<>>] /\ pending = [id \in Ids |-> <<>>]
    /\ pc = "bevy" /\ todo = {} /\ late = FALSE
    /\ live = {} /\ made = [id \in Ids |-> 0] /\ track = [id \in Ids |-> 0] /\ init = {}
    /\ sent = [id \in Ids |-> Nothing] /\ queue = [id \in Ids |-> {}]
    /\ accepted = [id \in Ids |-> Err("Fetching")]
    /\ published = [id \in Ids |-> Err("Fetching")]
    /\ readable = {}

----------------------------------------------------------------------------
(* Components: use_bevy_asset.  They run on one thread, so that nothing of  *)
(* theirs comes between the two sends of a mutate.  The command channel is  *)
(* read when a frame starts: what is sent later might as well be sent       *)
(* between frames.                                                          *)

HookRuns(h) == pc = "bevy" /\ telling = NoId /\ h \in mounted

\* The memo sends its id to the task, which is to receive the newest only.
Mount(h) ==
    /\ pc = "bevy" /\ telling = NoId /\ h \in scenario.hooks \ (mounted \cup gone)
    /\ mounted' = mounted \cup {h} /\ unread' = unread \cup {h}
    /\ \E id \in scenario.ids \cup {NoId} : want' = [want EXCEPT ![h] = id]
    /\ UNCHANGED <<worldVars, eventVars, gone, asking, answer, req, writer, retargets,
                   mutateVars, requests, deltas, frameVars, mapVars, signalVars>>

Retarget(h) ==
    /\ HookRuns(h) /\ retargets < scenario.retarget
    /\ retargets' = retargets + 1
    /\ \E id \in (scenario.ids \cup {NoId}) \ {want[h]} : want' = [want EXCEPT ![h] = id]
    /\ unread' = unread \cup {h}
    /\ UNCHANGED <<worldVars, eventVars, mounted, gone, asking, answer, req, writer,
                   mutateVars, requests, deltas, frameVars, mapVars, signalVars>>

\* Mutant: the old asset is not released.
Kept(h) == deltas

\* send_tracking_delta(-1) for the asset that h counts itself in, if any.
Released(h) ==
    [id \in Ids |-> IF id = req[h] THEN Append(deltas[id], -1) ELSE deltas[id]]

\* The task receives the newest id; it does not while it awaits an answer.
Receive(h) ==
    /\ HookRuns(h) /\ h \in unread /\ asking[h] = NoId
    /\ unread' = unread \ {h}
    /\ \/ /\ want[h] = NoId
          /\ deltas' = Released(h)
          /\ req' = [req EXCEPT ![h] = NoId]
          /\ writer' = [writer EXCEPT ![h] = NoWriter]
          /\ UNCHANGED <<asking, requests>>
       \/ /\ want[h] # NoId /\ want[h] = req[h]
          /\ UNCHANGED <<deltas, req, writer, asking, requests>>
       \/ /\ want[h] \notin {NoId, req[h]}
          /\ deltas' = Released(h)
          /\ req' = [req EXCEPT ![h] = NoId]
          /\ asking' = [asking EXCEPT ![h] = want[h]]
          /\ requests' = [requests EXCEPT ![h] = want[h]]
          /\ UNCHANGED writer
    /\ UNCHANGED <<worldVars, eventVars, mounted, gone, want, answer, retargets,
                   mutateVars, frameVars, mapVars, signalVars>>

\* The task is answered: it counts its reader, forwards and sets the writer.
Bind(h) ==
    /\ HookRuns(h) /\ answer[h] # 0
    /\ req' = [req EXCEPT ![h] = asking[h]]
    /\ deltas' = [deltas EXCEPT ![asking[h]] = Append(@, 1)]
    /\ writer' = [writer EXCEPT ![h] = [id |-> asking[h], mirror |-> answer[h]]]
    /\ asking' = [asking EXCEPT ![h] = NoId] /\ answer' = [answer EXCEPT ![h] = 0]
    /\ UNCHANGED <<worldVars, eventVars, mounted, gone, want, unread, retargets,
                   mutateVars, requests, frameVars, mapVars, signalVars>>

\* use_drop; the task is dropped with its component, its request is not.
Unmount(h) ==
    /\ HookRuns(h)
    /\ mounted' = mounted \ {h} /\ gone' = gone \cup {h} /\ unread' = unread \ {h}
    /\ deltas' = Released(h)
    /\ want' = [want EXCEPT ![h] = NoId] /\ req' = [req EXCEPT ![h] = NoId]
    /\ asking' = [asking EXCEPT ![h] = NoId] /\ answer' = [answer EXCEPT ![h] = 0]
    /\ writer' = [writer EXCEPT ![h] = NoWriter]
    /\ UNCHANGED <<worldVars, eventVars, retargets, mutateVars, requests, frameVars,
                   mapVars, signalVars>>

InMap(w) == w.id \in live /\ w.mirror = made[w.id]

Updating == pc = "sync" /\ {"collect", "drive"} \cap todo # {}

\* mutate sends the closure to the writer, which a rebinding hook still has for
\* its old asset; a mirror that left the map is never ticked again ...
Mutate(h) ==
    /\ pc = "bevy" \/ Updating
    /\ telling = NoId /\ writer[h] # NoWriter /\ mutates < scenario.mutate
    /\ mutates' = mutates + 1
    /\ queue' = [id \in Ids |-> IF id = writer[h].id /\ InMap(writer[h])
                                THEN queue[id] \cup {<<"mutate", mutates + 1>>} ELSE queue[id]]
    /\ telling' = writer[h].id
    /\ UNCHANGED <<worldVars, eventVars, hookVars, told, requests, deltas, frameVars,
                   mapVars, signalVars>>

\* ... and then the id, which bevy's thread may see in a later run.
Notify ==
    /\ pc = "bevy" \/ Updating
    /\ telling # NoId
    /\ told' = told \cup {telling} /\ telling' = NoId
    /\ UNCHANGED <<worldVars, eventVars, hookVars, queue, mutates, requests, deltas,
                   frameVars, mapVars, signalVars>>

----------------------------------------------------------------------------
(* The bevy world                                                          *)

Present(id) == world[id] \in {"Loaded", "Added"}

WorldStep ==
    /\ pc = "bevy" /\ worldChanges < scenario.world
    /\ worldChanges' = worldChanges + 1

\* The asset server starts a load, and ends it: LoadedWithDependencies.
StartLoad(id) ==
    /\ WorldStep /\ world[id] = "NotLoaded"
    /\ world' = [world EXCEPT ![id] = "Loading"]
    /\ UNCHANGED <<scenario, asset, bevyWrites, eventVars, hookVars, mutateVars, requests, deltas,
                   frameVars, mapVars, signalVars>>

EndLoad(id) ==
    /\ WorldStep /\ world[id] = "Loading"
    /\ \/ world' = [world EXCEPT ![id] = "Loaded"] /\ unsent' = unsent \cup {id}
       \/ world' = [world EXCEPT ![id] = "Failed"] /\ UNCHANGED unsent
    /\ UNCHANGED <<scenario, asset, bevyWrites, recent, old, late, expired, hookVars, mutateVars,
                   requests, deltas, frameVars, mapVars, signalVars>>

\* Assets::insert and Assets::remove, whose events no system here looks at.
AddOrRemove(id) ==
    /\ WorldStep
    /\ \/ world[id] = "NonAsset" /\ world' = [world EXCEPT ![id] = "Added"]
       \/ world[id] = "Added"    /\ world' = [world EXCEPT ![id] = "NonAsset"]
       \/ world[id] = "Loaded"   /\ world' = [world EXCEPT ![id] = "Removed"]
    /\ asset' = [asset EXCEPT ![id] = {}]
    /\ UNCHANGED <<scenario, bevyWrites, eventVars, hookVars, mutateVars, requests, deltas,
                   frameVars, mapVars, signalVars>>

\* Assets::get_mut by a system of the application: Modified.
BevyWrite(id) ==
    /\ pc = "bevy" /\ Present(id) /\ bevyWrites < scenario.bevy
    /\ bevyWrites' = bevyWrites + 1
    /\ asset' = [asset EXCEPT ![id] = @ \cup {<<"bevy", bevyWrites + 1>>}]
    /\ unsent' = unsent \cup {id}
    /\ UNCHANGED <<scenario, world, worldChanges, recent, old, late, expired, hookVars, mutateVars,
                   requests, deltas, frameVars, mapVars, signalVars>>

----------------------------------------------------------------------------
(* A frame: run_dioxus_sync_main, which bevy orders before or after the     *)
(* system that sends the asset events.                                      *)

Requested == {requests[h] : h \in Hooks} \ {NoId}

NewMirrors == Requested \ live

\* Mutant: a mirror that exists is not handed out.
FirstOnly(h) == asking[h] # NoId /\ requests[h] \in NewMirrors

Answered(h) == asking[h] # NoId /\ requests[h] # NoId

\* Bevy may age its messages, the frame may send the new events first, and the
\* commands are applied: deltas are set aside, requests are answered by the
\* mirror of the id, made if there is none.
StartFrame ==
    /\ pc = "bevy" /\ pc' = "accumulate"
    /\ \E aged \in BOOLEAN :
          /\ late' \in BOOLEAN
          /\ old' = IF aged THEN recent ELSE old
          /\ recent' = (IF aged THEN {} ELSE recent) \cup (IF late' THEN {} ELSE unsent)
          /\ unsent' = IF late' THEN unsent ELSE {}
          /\ expired' = IF aged THEN expired \cup old ELSE expired
    /\ pending' = [id \in Ids |-> pending[id] \o deltas[id]]
    /\ deltas' = [id \in Ids |-> <<>>]
    /\ live' = live \cup NewMirrors /\ init' = init \cup NewMirrors
    /\ made' = [id \in Ids |-> IF id \in NewMirrors THEN made[id] + 1 ELSE made[id]]
    /\ sent' = [id \in Ids |-> IF id \in NewMirrors THEN Nothing ELSE sent[id]]
    /\ queue' = [id \in Ids |-> IF id \in NewMirrors THEN {} ELSE queue[id]]
    /\ accepted' = [id \in Ids |-> IF id \in NewMirrors THEN Err("Fetching") ELSE accepted[id]]
    /\ published' = [id \in Ids |-> IF id \in NewMirrors THEN Err("Fetching") ELSE published[id]]
    /\ answer' = [h \in Hooks |-> IF Answered(h) THEN made'[requests[h]] ELSE answer[h]]
    /\ requests' = [h \in Hooks |-> NoId]
    /\ UNCHANGED <<worldVars, mounted, gone, want, unread, asking, req, writer, retargets,
                   telling, told, mutates, todo, track, changed, apart, readable>>

EndFrame ==
    /\ pc = "accumulate" /\ pc' = "bevy"
    /\ recent' = IF late THEN recent \cup unsent ELSE recent
    /\ unsent' = IF late THEN {} ELSE unsent
    /\ late' = FALSE
    /\ UNCHANGED <<worldVars, old, expired, hookVars, mutateVars, requests, deltas, todo,
                   mapVars, signalVars>>

\* The systems of Update and PostUpdate; those that only look at requests and
\* deltas of this frame do nothing without any.
Due == {"collect", "drive", "write"}
         \cup {s \in {"init"} : init # {}}
         \cup {s \in {"track"} : \E id \in Ids : pending[id] # <<>>}

\* Mutant: messages of this frame only.
Newest == recent

Unread == recent \cup old

\* The schedules run if enough time has passed.  PreUpdate, which is the first:
\* sync_mirrors_to_assets.  ChangedAssetMirrors is always empty by now.
SyncMirrorsToAssets ==
    /\ pc = "accumulate" /\ pc' = "sync" /\ todo' = Due
    /\ \E id \in Ids : made[id] # 0
    /\ sent' = [id \in Ids |->
                  IF id \in (Unread \cap live) \ changed /\ Present(id)
                  THEN Ok(asset[id]) ELSE sent[id]]
    /\ recent' = {} /\ old' = {}
    /\ UNCHANGED <<worldVars, unsent, late, expired, hookVars, mutateVars, requests, deltas,
                   mapVars, accepted, published, readable>>

Runs(system) == pc = "sync" /\ system \in todo /\ todo' = todo \ {system} /\ pc' = pc

\* Update
CollectChangedIds ==
    /\ Runs("collect")
    /\ changed' = changed \cup told /\ told' = {}
    /\ UNCHANGED <<worldVars, eventVars, hookVars, telling, queue, mutates, requests, deltas,
                   live, made, track, init, pending, apart, signalVars>>

Applied(base, id) == IF base.state = "Ok" THEN Ok(base.writes \cup queue[id]) ELSE base

\* Mutant: closures win over a value that was sent.
ClosuresOnly(id) ==
    Applied(IF sent[id] = Nothing \/ queue[id] # {} THEN accepted[id] ELSE sent[id], id)

\* tick: the value that was sent, then the closures, which do nothing to an error.
Drained(id) == Applied(IF sent[id] = Nothing THEN accepted[id] ELSE sent[id], id)

\* drive_maybe_assets ticks every mirror; those in deferred do not publish.
DriveMaybeAssets(deferred) ==
    /\ Runs("drive")
    /\ deferred \subseteq readable
    /\ accepted' = [id \in Ids |-> IF id \in live THEN Drained(id) ELSE accepted[id]]
    /\ published' = [id \in Ids |->
                       IF id \in live \ deferred THEN accepted'[id] ELSE published[id]]
    /\ readable' = readable \cup
         {id \in live \ deferred : sent[id] # Nothing \/ queue[id] # {}}
    /\ sent' = [id \in Ids |-> IF id \in live THEN Nothing ELSE sent[id]]
    /\ queue' = [id \in Ids |-> IF id \in live THEN {} ELSE queue[id]]
    /\ UNCHANGED <<worldVars, eventVars, hookVars, telling, told, mutates, requests, deltas,
                   mapVars>>

\* PostUpdate, in any order
Posted(system) == Runs(system) /\ {"collect", "drive"} \cap todo = {}

\* Mutant: a loaded asset is left to its event.
FetchAdded(id) == IF world[id] = "Added" THEN Ok(asset[id]) ELSE Err("Loading")

\* Mutant: the server's state is passed on as it is.
FetchRaw(id) == IF Present(id) THEN Ok(asset[id]) ELSE Err(world[id])

\* get_load_state, and Assets for what the server does not know
Fetch(id) ==
    IF Present(id) THEN Ok(asset[id])
    ELSE IF world[id] \in {"Failed", "Removed"} THEN Err("Error")
    ELSE Err(world[id])

InitRequestedAssetMirrors ==
    /\ Posted("init")
    /\ sent' = [id \in Ids |-> IF id \in init \cap live THEN Fetch(id) ELSE sent[id]]
    /\ UNCHANGED <<worldVars, eventVars, hookVars, mutateVars, requests, deltas, mapVars,
                   accepted, published, readable>>

\* Mutant: only for readers that are counted already.
CountedOnly ==
    {id \in changed \cap live : Present(id) /\ published[id].state = "Ok" /\ track[id] > 0}

WrittenBack == {id \in changed \cap live : Present(id) /\ published[id].state = "Ok"}

Closures(value) == value.writes \cap ({"mutate"} \X Nat)

\* Ids told before all their closures were published, or published before told.
Apart ==
    {id \in live : \/ id \in changed /\ (queue[id] # {} \/ accepted[id] # published[id])
                   \/ /\ telling = id \/ id \in told
                      /\ Closures(accepted[id]) \ asset[id] # {}}

SyncAssetsToMirrors ==
    /\ Posted("write")
    /\ asset' = [id \in Ids |-> IF id \in WrittenBack THEN published[id].writes ELSE asset[id]]
    /\ unsent' = unsent \cup WrittenBack
    /\ apart' = apart \cup Apart
    /\ UNCHANGED <<scenario, world, worldChanges, bevyWrites, recent, old, late, expired, hookVars,
                   mutateVars, requests, deltas, live, made, track, init, pending, changed,
                   signalVars>>

\* One delta of PendingAssetTrackingDeltas: without an entry it is dropped.
Counted(entry, delta) ==
    IF ~entry.live THEN entry
    ELSE IF entry.count + delta <= 0 THEN [live |-> FALSE, count |-> 0]
    ELSE [live |-> TRUE, count |-> entry.count + delta]

\* The entry of id in AssetMirrorMap before and after each of its pending deltas.
Entries(id) ==
    LET entry[n \in 0..Len(pending[id])] ==
            IF n = 0 THEN [live |-> id \in live, count |-> track[id]]
            ELSE Counted(entry[n - 1], pending[id][n])
    IN  entry

Entry(id) == Entries(id)[Len(pending[id])]

ApplyTrackingQueriesDelta ==
    /\ Posted("track")
    /\ live' = {id \in live : Entry(id).live}
    /\ track' = [id \in Ids |-> Entry(id).count]
    /\ pending' = [id \in Ids |-> <<>>]
    /\ readable' = readable \cap live'
    /\ UNCHANGED <<worldVars, eventVars, hookVars, mutateVars, requests, deltas,
                   made, init, changed, apart, sent, accepted, published>>

\* DioxusSyncLast: clear_changed_flags, clear_asset_init_requests
ClearFlags ==
    /\ pc = "sync" /\ todo = {} /\ pc' = "accumulate"
    /\ changed' = {} /\ init' = {}
    /\ UNCHANGED <<worldVars, eventVars, hookVars, mutateVars, requests, deltas, todo,
                   live, made, track, pending, apart, signalVars>>

----------------------------------------------------------------------------
Frame ==
    \/ StartFrame \/ EndFrame \/ SyncMirrorsToAssets
    \/ CollectChangedIds \/ (\E deferred \in SUBSET readable : DriveMaybeAssets(deferred))
    \/ InitRequestedAssetMirrors \/ SyncAssetsToMirrors \/ ApplyTrackingQueriesDelta
    \/ ClearFlags

\* What the thread of the components runs by itself.
Dioxus == Notify \/ \E h \in Hooks : Receive(h) \/ Bind(h)

World(id) == StartLoad(id) \/ EndLoad(id) \/ AddOrRemove(id) \/ BevyWrite(id)

Next ==
    \/ \E h \in Hooks : Mount(h) \/ Retarget(h) \/ Unmount(h) \/ Mutate(h)
    \/ Dioxus
    \/ \E id \in scenario.ids : World(id)
    \/ Frame

Spec == Init /\ [][Next]_vars

\* Frames end and follow each other, and virtual time advances; dioxus polls the
\* tasks of mounted components; a reader does not defer for ever.
FairSpec ==
    /\ Spec
    /\ WF_vars(Frame) /\ SF_vars(EndFrame) /\ SF_vars(SyncMirrorsToAssets)
    /\ SF_vars(DriveMaybeAssets({})) /\ SF_vars(Dioxus)

----------------------------------------------------------------------------
(* What the mirrors promise.                                               *)

Shows(h, id) == req[h] = id /\ InMap(writer[h])

\* Whatever order deltas and requests arrive in, no count is higher than the
\* number of hooks that use the id: a count never keeps an unused mirror.
CountedAreUsed ==
    \A id \in Ids :
        (pending[id] = <<>> /\ deltas[id] = <<>>)
          => track[id] <= Cardinality({h \in Hooks : req[h] = id})

\* The write-back undoes a change of bevy's only before the mirror was told of
\* it (its event is not sent, not read or expired) or while a publish is deferred.
BevyChangesKept ==
    [][\A id \in Ids :
         SyncAssetsToMirrors /\ ~(asset[id] \cap ({"bevy"} \X Nat) \subseteq asset'[id])
           => \/ id \in unsent \cup recent \cup old \cup expired
              \/ accepted[id] # published[id]]_vars

NeverRemoved(id) == world[id] = "Loaded" \/ (world[id] = "Added" /\ worldChanges = 0)

Quiet(id) ==
    /\ pc = "bevy" /\ telling # id /\ id \notin told \cup unsent \cup recent \cup old
    /\ sent[id] = Nothing /\ queue[id] = {} /\ accepted[id] = published[id]

\* Between frames, an asset and its mirror agree when nothing is under way.
Converged ==
    \A id \in live \ (apart \cup expired) :
        Quiet(id) /\ published[id].state = "Ok" /\ NeverRemoved(id)
          => published[id].writes = asset[id]

\* However ids change while answers are awaited, again and again every hook has
\* the mirror of the id it wants.
EventuallyBound == []<>(\A h \in mounted : req[h] = want[h])

\* The hooks that show a mirror in the map see the asset once it is loaded,
\* before or after the mirror was made, if the event is read in time.
EventuallyShown ==
    []<>(\A id \in live \ expired : world[id] = "Loaded" => published[id].state = "Ok")

MostMutations == CHOOSE n \in {s.mutate : s \in Scenarios} : \A s \in Scenarios : s.mutate <= n

\* A closure that a mirror took reaches the asset while the mirror lives, unless
\* its publish and its id fell into different runs or bevy replaced the value.
MutationsArrive ==
    \A id \in Ids, n \in 1..MostMutations :
        (<<"mutate", n>> \in accepted[id].writes /\ id \in live)
          ~> (\/ <<"mutate", n>> \in asset[id] \/ id \in apart \/ id \notin live
              \/ bevyWrites > 0 \/ ~NeverRemoved(id))

\* cleanup of unused mirrors: the mirror of a hook that shows it stays.
BoundMirrorsStay ==
    [][\A h \in Hooks, id \in Ids :
         Shows(h, id) /\ req'[h] = id => InMap(writer[h])']_vars
=============================================================================
