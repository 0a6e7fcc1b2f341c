-------------------------- MODULE AssetMirrorProofs --------------------------
(***************************************************************************)
(* Theorems about AssetMirror, for any hooks, ids and scenarios: types, the  *)
(* counts of readers, what the write-back may do to an asset, that both      *)
(* sides agree, and that no closure, hook or loaded asset is forgotten.      *)
(***************************************************************************)
EXTENDS AssetMirror, SetInduction

----------------------------------------------------------------------------
(* Hooks and types                                                          *)

\* What the hooks hold, and the mirrors that they may have been answered.
HookTypes ==
    /\ scenario \in Scenarios /\ retargets \in 0..scenario.retarget
    /\ mounted \cup gone \subseteq Hooks /\ mounted \cap gone = {} /\ unread \subseteq mounted
    /\ want \in [Hooks -> Ids \cup {NoId}]
    /\ asking \in [Hooks -> Ids \cup {NoId}] /\ requests \in [Hooks -> Ids \cup {NoId}]
    /\ answer \in [Hooks -> Nat] /\ req \in [Hooks -> Ids \cup {NoId}]
    /\ writer \in [Hooks -> [id : Ids, mirror : Nat \ {0}] \cup {NoWriter}]
    /\ \A h \in Hooks : writer[h].id # NoId => writer[h].mirror <= made[writer[h].id]
    /\ made \in [Ids -> Nat] /\ live \subseteq {id \in Ids : made[id] > 0}

\* A hook awaits at most one answer, which its request in the channel or the
\* mirror that it was answered stands for, and counts itself in nothing meanwhile.
AskingInv ==
    \A h \in Hooks :
        /\ asking[h] # NoId => req[h] = NoId /\ requests[h] \in {NoId, asking[h]}
        /\ answer[h] # 0 => asking[h] # NoId /\ requests[h] = NoId /\ answer[h] <= made[asking[h]]

HookInv == HookTypes /\ AskingInv

\* The numbers, hooks and ids of a scenario are within those of the module.
LEMMA ScenarioFacts ==
    \A s \in Scenarios : /\ s.retarget \in Nat /\ s.world \in Nat /\ s.bevy \in Nat /\ s.mutate \in Nat
                         /\ s.hooks \subseteq Hooks /\ s.ids \subseteq Ids
                         /\ s.initial \subseteq {"NonAsset", "NotLoaded", "Loading", "Added"}
BY AssetAssumption DEF Scenario

\* No hook has asked or counts itself at first.
LEMMA HookInit == Init => HookInv
BY ScenarioFacts, AssetAssumption DEF Init, HookInv, HookTypes, AskingInv, NoWriter

\* The steps that leave hooks, requests and the numbers of mirrors alone.
LEMMA HookElsewhere ==
    ASSUME HookInv, UNCHANGED <<scenario, hookVars, requests, made>>, live' \subseteq live
    PROVE  HookInv'
BY DEF HookInv, HookTypes, AskingInv, hookVars

\* What a hook does keeps its types and what it asks for.
LEMMA HookSteps ==
    ASSUME HookInv, NEW h \in Hooks, Mount(h) \/ Retarget(h) \/ Receive(h) \/ Bind(h) \/ Unmount(h)
    PROVE  HookInv'
<1> USE AssetAssumption, ScenarioFacts DEF HookInv, HookTypes, AskingInv, HookRuns, worldVars, mapVars
<1>1. CASE Mount(h)
  BY <1>1 DEF Mount
<1>2. CASE Retarget(h)
  BY <1>2 DEF Retarget
<1>3. CASE Receive(h)
  <2>1. UNCHANGED <<scenario, retargets, mounted, gone, want, answer, made, live>> /\ unread' = unread \ {h}
        /\ asking[h] = NoId
    BY <1>3 DEF Receive
  <2>2. answer[h] = 0
    BY <2>1
  <2>3. CASE want[h] = NoId /\ req' = [req EXCEPT ![h] = NoId] /\ writer' = [writer EXCEPT ![h] = NoWriter]
             /\ UNCHANGED <<asking, requests>>
    BY <2>1, <2>3 DEF NoWriter
  <2>4. CASE UNCHANGED <<req, writer, asking, requests>>
    BY <2>1, <2>4
  <2>5. CASE want[h] # NoId /\ req' = [req EXCEPT ![h] = NoId] /\ asking' = [asking EXCEPT ![h] = want[h]]
             /\ requests' = [requests EXCEPT ![h] = want[h]] /\ UNCHANGED writer
    BY <2>1, <2>2, <2>5
  <2> QED BY <1>3, <2>3, <2>4, <2>5 DEF Receive
<1>4. CASE Bind(h)
  <2>1. asking[h] \in Ids /\ answer[h] \in Nat \ {0} /\ answer[h] <= made[asking[h]]
    BY <1>4 DEF Bind
  <2>2. [id |-> asking[h], mirror |-> answer[h]] \in [id : Ids, mirror : Nat \ {0}]
    BY <2>1
  <2>3. UNCHANGED <<scenario, retargets, mounted, gone, want, unread, requests, made, live>>
    BY <1>4 DEF Bind
  <2>4. HookTypes'
    BY <1>4, <2>1, <2>2, <2>3 DEF Bind
  <2>5. AskingInv'
    BY <1>4, <2>1, <2>3 DEF Bind
  <2> QED BY <2>4, <2>5
<1>5. CASE Unmount(h)
  BY <1>5 DEF Unmount, NoWriter
<1> QED BY <1>1, <1>2, <1>3, <1>4, <1>5

\* So does the start of a frame, which answers requests and makes mirrors.
LEMMA HookFrame ==
    ASSUME HookInv, StartFrame
    PROVE  HookInv'
<1> USE AssetAssumption DEF HookInv, HookTypes, AskingInv
<1>1. NewMirrors \subseteq Ids /\ \A h \in Hooks : requests[h] # NoId => requests[h] \in live \cup NewMirrors
  BY DEF NewMirrors, Requested
<1>2. /\ made' = [id \in Ids |-> IF id \in NewMirrors THEN made[id] + 1 ELSE made[id]]
      /\ live' = live \cup NewMirrors
      /\ answer' = [h \in Hooks |-> IF Answered(h) THEN made'[requests[h]] ELSE answer[h]]
      /\ requests' = [h \in Hooks |-> NoId]
      /\ UNCHANGED <<scenario, mounted, gone, want, unread, asking, req, writer, retargets>>
  BY DEF StartFrame, worldVars
<1>3. made' \in [Ids -> Nat] /\ \A id \in Ids : made[id] <= made'[id] /\ (id \in live' => made'[id] > 0)
  BY <1>1, <1>2
<1>4. HookTypes'
  <2>1. answer' \in [Hooks -> Nat] /\ requests' \in [Hooks -> Ids \cup {NoId}]
    BY <1>2, <1>3 DEF Answered
  <2>2. live' \subseteq {id \in Ids : made'[id] > 0}
    BY <1>1, <1>2, <1>3
  <2>3. ASSUME NEW h \in Hooks, writer'[h].id # NoId PROVE writer'[h].mirror <= made'[writer'[h].id]
    <3>1. writer[h] # NoWriter
      BY <1>2, <2>3 DEF NoWriter
    <3>2. writer[h].id \in Ids /\ writer[h].mirror \in Nat /\ writer[h].mirror <= made[writer[h].id]
      BY <1>2, <2>3, <3>1
    <3>3. made[writer[h].id] \in Nat /\ made'[writer[h].id] \in Nat
          /\ made[writer[h].id] <= made'[writer[h].id]
      BY <1>3, <3>2
    <3> HIDE DEF HookInv, HookTypes, AskingInv
    <3> QED BY <1>2, <3>2, <3>3
  <2> QED BY <1>2, <1>3, <2>1, <2>2, <2>3
<1>5. AskingInv'
  BY <1>2, <1>3 DEF Answered
<1> QED BY <1>4, <1>5

\* So does every step.
LEMMA HookStep == HookInv /\ [Next]_vars => HookInv'
<1> SUFFICES ASSUME HookInv, [Next]_vars PROVE HookInv'
  OBVIOUS
<1> USE DEF worldVars, mapVars
<1>1. CASE UNCHANGED vars
  BY <1>1, HookElsewhere DEF vars
<1>2. CASE \E h \in Hooks : Mount(h) \/ Retarget(h) \/ Receive(h) \/ Bind(h) \/ Unmount(h)
  BY <1>2, HookSteps
<1>3. CASE \E h \in Hooks : Mutate(h)
  BY <1>3, HookElsewhere DEF Mutate
<1>4. CASE Notify \/ \E id \in scenario.ids : World(id)
  BY <1>4, HookElsewhere DEF Notify, World, StartLoad, EndLoad, AddOrRemove, BevyWrite
<1>5. CASE StartFrame
  BY <1>5, HookFrame
<1>6. CASE EndFrame \/ SyncMirrorsToAssets \/ CollectChangedIds \/ InitRequestedAssetMirrors
           \/ SyncAssetsToMirrors \/ ApplyTrackingQueriesDelta \/ ClearFlags
           \/ \E deferred \in SUBSET readable : DriveMaybeAssets(deferred)
  <2>1. UNCHANGED <<scenario, hookVars, requests, made>> /\ live' \subseteq live
    BY <1>6 DEF EndFrame, SyncMirrorsToAssets, CollectChangedIds, InitRequestedAssetMirrors,
         SyncAssetsToMirrors, ApplyTrackingQueriesDelta, ClearFlags, DriveMaybeAssets
  <2> QED BY <2>1, HookElsewhere
<1> QED BY <1>1, <1>2, <1>3, <1>4, <1>5, <1>6 DEF Next, Dioxus, Frame

\* Assets, and the values that mirrors hold.
ValueTypes ==
    /\ scenario \in Scenarios
    /\ world \in [Ids -> {"NonAsset", "NotLoaded", "Loading", "Failed",
                          "Loaded", "Added", "Removed"}]
    /\ asset \in [Ids -> SUBSET Write]
    /\ worldChanges \in 0..scenario.world /\ bevyWrites \in 0..scenario.bevy
    /\ mutates \in 0..scenario.mutate
    /\ sent \in [Ids -> Value \cup {Nothing}] /\ queue \in [Ids -> SUBSET Write]
    /\ accepted \in [Ids -> Value] /\ published \in [Ids -> Value]

\* Ids that are to be told of something, and where the frame is.
NoteTypes ==
    /\ unsent \cup recent \cup old \subseteq Ids /\ expired \cup apart \subseteq Ids
    /\ telling \in Ids \cup {NoId} /\ told \cup changed \subseteq Ids /\ init \subseteq Ids
    /\ pc \in {"bevy", "accumulate", "sync"} /\ todo \subseteq Systems /\ late \in BOOLEAN
    /\ readable \subseteq live

\* Errors and accepted writes are values, which contain writes only.
LEMMA ValueFacts ==
    /\ Err("Fetching") \in Value
    /\ \A writes \in SUBSET Write : Ok(writes) \in Value /\ Ok(writes).state = "Ok"
    /\ \A v \in Value : v.writes \subseteq Write
    /\ Nothing.state = "Nothing" /\ Nothing.writes = {}
    /\ \A e \in Errors : Err(e) \in Value
BY DEF Value, Ok, Err, Errors, Nothing

\* At first every value is one, and nothing is noted.
LEMMA ValueInit == Init => ValueTypes /\ NoteTypes
<1> SUFFICES ASSUME Init PROVE ValueTypes /\ NoteTypes
  OBVIOUS
<1>1. scenario \in Scenarios /\ scenario.initial \subseteq {"NonAsset", "NotLoaded", "Loading", "Added"}
      /\ scenario.ids \subseteq Ids
  BY ScenarioFacts DEF Init
<1>2. world \in [Ids -> {"NonAsset", "NotLoaded", "Loading", "Added"}]
  BY <1>1 DEF Init
<1>3. ValueTypes
  BY <1>1, <1>2, ScenarioFacts, ValueFacts DEF Init, ValueTypes
<1>4. NoteTypes
  BY DEF Init, NoteTypes
<1> QED BY <1>3, <1>4

\* The steps that move no value.
LEMMA ValueElsewhere ==
    ASSUME ValueTypes, UNCHANGED <<worldVars, mutates, queue, sent, accepted, published>>
    PROVE  ValueTypes'
BY DEF ValueTypes, worldVars

\* Steps of the bevy world.
LEMMA ValueWorld ==
    ASSUME ValueTypes, NEW i \in Ids, World(i)
    PROVE  ValueTypes'
<1> USE ScenarioFacts DEF ValueTypes, WorldStep, mutateVars, signalVars
<1>1. CASE StartLoad(i)
  BY <1>1 DEF StartLoad
<1>2. CASE EndLoad(i)
  BY <1>2 DEF EndLoad
<1>3. CASE AddOrRemove(i)
  BY <1>3 DEF AddOrRemove
<1>4. CASE BevyWrite(i)
  <2>1. <<"bevy", bevyWrites + 1>> \in Write
    BY DEF Write
  <2>2. asset' \in [Ids -> SUBSET Write]
    BY <1>4, <2>1 DEF BevyWrite
  <2> QED BY <1>4, <2>2 DEF BevyWrite
<1> QED BY <1>1, <1>2, <1>3, <1>4 DEF World

\* A closure is queued at the mirror that its hook holds.
LEMMA ValueMutate ==
    ASSUME ValueTypes, NEW h \in Hooks, Mutate(h)
    PROVE  ValueTypes'
<1> USE ScenarioFacts DEF ValueTypes
<1>1. <<"mutate", mutates + 1>> \in Write
  BY DEF Write
<1>2. queue' \in [Ids -> SUBSET Write]
  BY <1>1 DEF Mutate
<1> QED BY <1>2 DEF Mutate, worldVars, signalVars

\* The start of a frame makes mirrors, whose first value is an error.
LEMMA ValueFrame ==
    ASSUME ValueTypes, StartFrame
    PROVE  ValueTypes'
<1>1. /\ sent' \in [Ids -> Value \cup {Nothing}] /\ queue' \in [Ids -> SUBSET Write]
      /\ accepted' \in [Ids -> Value] /\ published' \in [Ids -> Value]
  <2> HIDE DEF Err, Nothing
  <2> QED BY ValueFacts DEF StartFrame, ValueTypes
<1> QED BY <1>1 DEF StartFrame, ValueTypes, worldVars

\* The systems of a run make values of values.
LEMMA ValueRun ==
    ASSUME ValueTypes,
           \/ SyncMirrorsToAssets \/ InitRequestedAssetMirrors \/ SyncAssetsToMirrors
           \/ \E deferred \in SUBSET readable : DriveMaybeAssets(deferred)
    PROVE  ValueTypes'
<1>1. CASE SyncMirrorsToAssets
  <2>1. sent' \in [Ids -> Value \cup {Nothing}]
    BY <1>1, ValueFacts DEF SyncMirrorsToAssets, ValueTypes
  <2> QED BY <1>1, <2>1 DEF SyncMirrorsToAssets, ValueTypes, worldVars, mutateVars
<1>2. CASE InitRequestedAssetMirrors
  <2>1. ASSUME NEW id \in Ids PROVE Fetch(id) \in Value
    <3>1. CASE Present(id)
      BY <3>1, ValueFacts DEF Fetch, ValueTypes
    <3>2. CASE ~Present(id) /\ world[id] \in {"Failed", "Removed"}
      <4>1. Fetch(id) = Err("Error") /\ "Error" \in Errors
        BY <3>2 DEF Fetch, Errors
      <4> QED BY <4>1, ValueFacts
    <3>3. CASE ~Present(id) /\ world[id] \notin {"Failed", "Removed"}
      <4>1. Fetch(id) = Err(world[id]) /\ world[id] \in {"NonAsset", "NotLoaded", "Loading"}
        BY <3>3 DEF Fetch, ValueTypes, Present
      <4>2. world[id] \in Errors
        BY <4>1 DEF Errors
      <4> QED BY <4>1, <4>2, ValueFacts
    <3> QED BY <3>1, <3>2, <3>3
  <2>2. sent' \in [Ids -> Value \cup {Nothing}]
    BY <1>2, <2>1 DEF InitRequestedAssetMirrors, ValueTypes
  <2> QED BY <1>2, <2>2 DEF InitRequestedAssetMirrors, ValueTypes, worldVars, mutateVars
<1>3. CASE SyncAssetsToMirrors
  <2>1. asset' \in [Ids -> SUBSET Write]
    BY <1>3, ValueFacts DEF SyncAssetsToMirrors, ValueTypes
  <2> QED BY <1>3, <2>1 DEF SyncAssetsToMirrors, ValueTypes, mutateVars, signalVars
<1>4. ASSUME NEW deferred \in SUBSET readable, DriveMaybeAssets(deferred) PROVE ValueTypes'
  <2>1. ASSUME NEW id \in Ids PROVE Drained(id) \in Value
    <3> DEFINE base == IF sent[id] = Nothing THEN accepted[id] ELSE sent[id]
    <3>1. base \in Value /\ queue[id] \subseteq Write
      BY DEF ValueTypes
    <3> HIDE DEF base
    <3>2. base.writes \cup queue[id] \in SUBSET Write
      BY <3>1, ValueFacts
    <3>3. Applied(base, id) \in Value
      BY <3>1, <3>2, ValueFacts DEF Applied
    <3> QED BY <3>3 DEF Drained, base
  <2>2. /\ accepted' \in [Ids -> Value]
        /\ published' = [id \in Ids |-> IF id \in live \ deferred THEN accepted'[id] ELSE published[id]]
        /\ sent' \in [Ids -> Value \cup {Nothing}] /\ queue' \in [Ids -> SUBSET Write]
    BY <1>4, <2>1 DEF DriveMaybeAssets, ValueTypes
  <2>3. published' \in [Ids -> Value]
    BY <2>2 DEF ValueTypes
  <2> QED BY <1>4, <2>2, <2>3 DEF DriveMaybeAssets, ValueTypes, worldVars
<1> QED BY <1>1, <1>2, <1>3, <1>4

\* So does every step.
LEMMA ValueStep == scenario.ids \subseteq Ids /\ ValueTypes /\ [Next]_vars => ValueTypes'
<1> SUFFICES ASSUME scenario.ids \subseteq Ids, ValueTypes, [Next]_vars PROVE ValueTypes'
  OBVIOUS
<1> USE DEF mutateVars, signalVars
<1>1. CASE UNCHANGED vars
  BY <1>1, ValueElsewhere DEF vars
<1>2. CASE \E h \in Hooks : Mount(h) \/ Retarget(h) \/ Receive(h) \/ Bind(h) \/ Unmount(h)
  BY <1>2, ValueElsewhere DEF Mount, Retarget, Receive, Bind, Unmount
<1>3. CASE \E h \in Hooks : Mutate(h)
  BY <1>3, ValueMutate
<1>4. CASE \E id \in scenario.ids : World(id)
  BY <1>4, ValueWorld
<1>5. CASE Notify \/ EndFrame \/ CollectChangedIds \/ ApplyTrackingQueriesDelta \/ ClearFlags
  BY <1>5, ValueElsewhere DEF Notify, EndFrame, CollectChangedIds, ApplyTrackingQueriesDelta, ClearFlags
<1>6. CASE StartFrame
  BY <1>6, ValueFrame
<1>7. CASE SyncMirrorsToAssets \/ InitRequestedAssetMirrors \/ SyncAssetsToMirrors
           \/ \E deferred \in SUBSET readable : DriveMaybeAssets(deferred)
  BY <1>7, ValueRun
<1> QED BY <1>1, <1>2, <1>3, <1>4, <1>5, <1>6, <1>7 DEF Next, Dioxus, Frame

\* The steps that note no id.
LEMMA NoteElsewhere ==
    ASSUME NoteTypes, UNCHANGED <<eventVars, telling, told, frameVars, init, changed, apart, live, readable>>
    PROVE  NoteTypes'
BY DEF NoteTypes, eventVars, frameVars

\* Every step notes ids only, and keeps the place of the frame.
LEMMA NoteStep == HookInv /\ NoteTypes /\ [Next]_vars => NoteTypes'
<1> SUFFICES ASSUME HookInv, NoteTypes, [Next]_vars PROVE NoteTypes'
  OBVIOUS
<1> USE DEF eventVars, frameVars, mapVars, mutateVars, signalVars
<1>1. CASE UNCHANGED vars
  BY <1>1, NoteElsewhere DEF vars
<1>2. CASE \E h \in Hooks : Mount(h) \/ Retarget(h) \/ Receive(h) \/ Bind(h) \/ Unmount(h)
  BY <1>2, NoteElsewhere DEF Mount, Retarget, Receive, Bind, Unmount
<1>3. ASSUME NEW h \in Hooks, Mutate(h) PROVE NoteTypes'
  <2>1. telling' \in Ids
    BY <1>3 DEF Mutate, HookInv, HookTypes
  <2> QED BY <1>3, <2>1 DEF Mutate, NoteTypes
<1>4. CASE \E id \in scenario.ids : World(id)
  <2>1. scenario.ids \subseteq Ids
    BY ScenarioFacts DEF HookInv, HookTypes
  <2> QED BY <1>4, <2>1 DEF World, StartLoad, EndLoad, AddOrRemove, BevyWrite, NoteTypes
<1>5. CASE Notify
  BY <1>5 DEF Notify, NoteTypes
<1>6. CASE StartFrame
  <2>1. NewMirrors \subseteq Ids
    BY DEF NewMirrors, Requested, HookInv, HookTypes
  <2>2. readable' \subseteq live'
    BY <1>6 DEF StartFrame, NoteTypes
  <2>3. init' \subseteq Ids /\ late' \in BOOLEAN /\ pc' = "accumulate"
        /\ UNCHANGED <<telling, told, todo, changed, apart>>
    BY <1>6, <2>1 DEF StartFrame, NoteTypes
  <2>4. unsent' \cup recent' \cup old' \cup expired' \subseteq Ids
    BY <1>6 DEF StartFrame, NoteTypes
  <2> QED BY <2>2, <2>3, <2>4 DEF NoteTypes
<1>7. CASE EndFrame
  BY <1>7 DEF EndFrame, NoteTypes
<1>8. CASE SyncMirrorsToAssets
  <2>1. todo' \subseteq Systems
    BY <1>8 DEF SyncMirrorsToAssets, Due, Systems
  <2> QED BY <1>8, <2>1 DEF SyncMirrorsToAssets, NoteTypes
<1>9. CASE CollectChangedIds \/ InitRequestedAssetMirrors \/ ClearFlags
  BY <1>9 DEF CollectChangedIds, InitRequestedAssetMirrors, ClearFlags, Posted, Runs, NoteTypes
<1>10. ASSUME NEW deferred \in SUBSET readable, DriveMaybeAssets(deferred) PROVE NoteTypes'
  BY <1>10 DEF DriveMaybeAssets, Runs, NoteTypes
<1>11. CASE SyncAssetsToMirrors
  <2>1. WrittenBack \subseteq Ids /\ Apart \subseteq Ids
    BY DEF WrittenBack, Apart, NoteTypes, HookInv, HookTypes
  <2> QED BY <1>11, <2>1 DEF SyncAssetsToMirrors, Posted, Runs, NoteTypes
<1>12. CASE ApplyTrackingQueriesDelta
  <2>1. readable' \subseteq live'
    BY <1>12 DEF ApplyTrackingQueriesDelta
  <2> QED BY <1>12, <2>1 DEF ApplyTrackingQueriesDelta, Posted, Runs, NoteTypes
<1> QED BY <1>1, <1>2, <1>3, <1>4, <1>5, <1>6, <1>7, <1>8, <1>9, <1>10, <1>11, <1>12 DEF Next, Dioxus, Frame

----------------------------------------------------------------------------
(* Counts                                                                  *)

\* The recursion of Entries, by induction on the number of deltas.
LEMMA EntriesUnfold ==
    ASSUME NEW id \in Ids, Len(pending[id]) \in Nat
    PROVE  Entries(id) = [n \in 0..Len(pending[id]) |->
                             IF n = 0 THEN [live |-> id \in live, count |-> track[id]]
                             ELSE Counted(Entries(id)[n - 1], pending[id][n])]
<1> DEFINE m    == Len(pending[id])
           c    == [live |-> id \in live, count |-> track[id]]
           From(f, k) == [n \in 0..k |-> IF n = 0 THEN c ELSE Counted(f[n - 1], pending[id][n])]
           Done == {k \in 0..m : \E f : f = From(f, k)}
<1>1. 0 \in Done
  <2>1. [n \in 0..0 |-> c] = From([n \in 0..0 |-> c], 0)
    OBVIOUS
  <2>2. \E f : f = From(f, 0)
    BY <2>1
  <2>3. 0 \in 0..m
    OBVIOUS
  <2> QED BY <2>2, <2>3
<1>2. \A k \in 0..(m - 1) : k \in Done => k + 1 \in Done
  <2> SUFFICES ASSUME NEW k \in 0..(m - 1), NEW f, f = From(f, k)
               PROVE  \E g : g = From(g, k + 1)
    OBVIOUS
  <2> DEFINE g == [n \in 0..(k + 1) |-> IF n = k + 1 THEN Counted(f[k], pending[id][n]) ELSE f[n]]
  <2>1. \A n \in 0..(k + 1) : g[n] = IF n = 0 THEN c ELSE Counted(g[n - 1], pending[id][n])
    <3> SUFFICES ASSUME NEW n \in 0..(k + 1)
                 PROVE  g[n] = IF n = 0 THEN c ELSE Counted(g[n - 1], pending[id][n])
      OBVIOUS
    <3>1. CASE n = k + 1
      BY <3>1
    <3>2. CASE n # k + 1
      <4>1. g[n] = f[n] /\ n \in 0..k /\ (n # 0 => g[n - 1] = f[n - 1])
        BY <3>2
      <4>2. f[n] = IF n = 0 THEN c ELSE Counted(f[n - 1], pending[id][n])
        BY <4>1
      <4> QED BY <4>1, <4>2
    <3> QED BY <3>1, <3>2
  <2>2. g = From(g, k + 1)
    BY <2>1
  <2> QED BY <2>2
<1> HIDE DEF Done
<1>3. m \in Done
  <2>1. 0..m \subseteq Done
    BY <1>1, <1>2, UpInduction
  <2> QED BY <2>1
<1>4. PICK g : g = From(g, m)
  BY <1>3 DEF Done
<1>5. Entries(id) = CHOOSE f : f = From(f, m)
  BY DEF Entries
<1> HIDE DEF From
<1>6. Entries(id) = From(Entries(id), m)
  BY <1>4, <1>5
<1> QED BY <1>6 DEF From

\* The hooks that count themselves in id.
Users(id) == {h \in Hooks : req[h] = id}

\* The deltas of id that its mirror's count has yet to see.
Flight(id) == pending[id] \o deltas[id]

\* past[i]: how many hooks used an asset when the first i deltas had been sent.
Leads(past, flight, count, users) ==
    /\ past[Len(flight)] = users
    /\ \A i \in 1..Len(flight) : past[i] = past[i - 1] + flight[i]
    /\ count <= past[0]

\* The deltas lead to the number of users from no lower a number than the count.
LagsBehind(flight, count, users) ==
    \E past \in [0..Len(flight) -> 0..Cardinality(Hooks)] : Leads(past, flight, count, users)

Lag(id) == LagsBehind(Flight(id), track[id], Cardinality(Users(id)))

\* So do the deltas of every id, and a mirror that is not in the map counts none.
CountInv ==
    /\ deltas \in [Ids -> Seq({-1, 1})] /\ pending \in [Ids -> Seq({-1, 1})]
    /\ track \in [Ids -> Nat]
    /\ \A id \in Ids : Lag(id) /\ (id \notin live => track[id] = 0)

\* A hook that begins or ceases to use an asset sends what makes the difference.
LEMMA LagAppend ==
    ASSUME NEW flight \in Seq({-1, 1}), NEW count, NEW users, NEW x \in {-1, 1}, NEW now,
           LagsBehind(flight, count, users), now = users + x, now \in 0..Cardinality(Hooks)
    PROVE  LagsBehind(Append(flight, x), count, now)
<1> DEFINE n == Len(flight)
           longer == Append(flight, x)
<1>1. /\ n \in Nat /\ Len(longer) = n + 1 /\ longer[n + 1] = x
      /\ \A i \in 1..n : longer[i] = flight[i]
  OBVIOUS
<1>2. PICK past \in [0..n -> 0..Cardinality(Hooks)] : Leads(past, flight, count, users)
  BY DEF LagsBehind
<1> DEFINE next == [i \in 0..(n + 1) |-> IF i = n + 1 THEN now ELSE past[i]]
<1>3. past[n] = users /\ count <= past[0] /\ \A i \in 1..n : past[i] = past[i - 1] + flight[i]
  BY <1>2 DEF Leads
<1> HIDE DEF n, longer
<1>4. next \in [0..(n + 1) -> 0..Cardinality(Hooks)] /\ next[n + 1] = now /\ next[0] = past[0]
  BY <1>1
<1>5. ASSUME NEW i \in 1..(n + 1) PROVE next[i] = next[i - 1] + longer[i]
  <2>1. CASE i = n + 1
    BY <1>1, <1>3, <2>1
  <2>2. CASE i # n + 1
    <3>1. i \in 1..n /\ next[i] = past[i] /\ next[i - 1] = past[i - 1]
      BY <1>1, <2>2
    <3> QED BY <1>1, <1>3, <3>1
  <2> QED BY <2>1, <2>2
<1> HIDE DEF next
<1>6. Leads(next, longer, count, now)
  BY <1>1, <1>3, <1>4, <1>5 DEF Leads
<1>7. LagsBehind(longer, count, now)
  BY <1>1, <1>4, <1>6 DEF LagsBehind
<1> QED BY <1>7 DEF longer

\* A count that has seen the first deltas still has to see the others.
LEMMA LagDrop ==
    ASSUME NEW p \in Seq({-1, 1}), NEW d \in Seq({-1, 1}), NEW count, NEW users, NEW seen,
           NEW past \in [0..Len(p \o d) -> 0..Cardinality(Hooks)],
           Leads(past, p \o d, count, users), seen <= past[Len(p)]
    PROVE  LagsBehind(d, seen, users)
<1> DEFINE m == Len(p)
           k == Len(d)
           next == [i \in 0..k |-> past[i + m]]
<1>1. m \in Nat /\ k \in Nat /\ Len(p \o d) = m + k /\ \A i \in 1..k : (p \o d)[i + m] = d[i]
  OBVIOUS
<1>2. past[m + k] = users /\ \A i \in 1..(m + k) : past[i] = past[i - 1] + (p \o d)[i]
  BY <1>1 DEF Leads
<1> HIDE DEF m, k
<1>3. next \in [0..k -> 0..Cardinality(Hooks)]
  BY <1>1
<1>4. ASSUME NEW i \in 1..k PROVE next[i] = next[i - 1] + d[i]
  <2>1. i + m \in 1..(m + k) /\ i \in 0..k /\ i - 1 \in 0..k /\ (i - 1) + m = (i + m) - 1
    BY <1>1
  <2> QED BY <1>1, <1>2, <2>1
<1>5. next[k] = users /\ next[0] = past[m]
  BY <1>1, <1>2
<1>6. Leads(next, d, seen, users)
  <2> HIDE DEF next
  <2> QED BY <1>4, <1>5 DEF Leads, m, k
<1>7. next \in [0..Len(d) -> 0..Cardinality(Hooks)]
  BY <1>3 DEF k
<1> HIDE DEF next
<1> QED BY <1>6, <1>7 DEF LagsBehind

\* Any set of hooks is finite and no larger than all of them.
LEMMA UsersFinite ==
    /\ Cardinality(Hooks) \in Nat
    /\ \A H \in SUBSET Hooks : IsFiniteSet(H) /\ Cardinality(H) \in 0..Cardinality(Hooks)
BY AssetAssumption, FS_Subset, FS_CardinalityType

\* No hook counts itself and no delta is sent at first.
LEMMA CountInit == Init => CountInv
<1> SUFFICES ASSUME Init PROVE CountInv
  OBVIOUS
<1>1. ASSUME NEW id \in Ids PROVE Lag(id)
  <2>1. Users(id) = {} /\ Flight(id) = <<>> /\ track[id] = 0
    BY AssetAssumption DEF Init, Users, Flight
  <2>2. Cardinality(Users(id)) = 0
    BY <2>1, FS_EmptySet
  <2> DEFINE past == [i \in 0..Len(Flight(id)) |-> 0]
  <2>3. Len(Flight(id)) = 0 /\ past \in [0..Len(Flight(id)) -> 0..Cardinality(Hooks)]
    BY <2>1, UsersFinite
  <2>4. Leads(past, Flight(id), track[id], Cardinality(Users(id)))
    BY <2>1, <2>2, <2>3 DEF Leads
  <2> QED BY <2>3, <2>4 DEF Lag, LagsBehind
<1> QED BY <1>1 DEF Init, CountInv

\* Steps that concern neither hooks nor counts.
LEMMA LagElsewhere ==
    ASSUME NEW id \in Ids, Lag(id), Users(id)' = Users(id), Flight(id)' = Flight(id), track'[id] = track[id]
    PROVE  Lag(id)'
BY DEF Lag

\* The steps that concern neither hooks, deltas nor counts.
LEMMA CountElsewhere ==
    ASSUME CountInv, UNCHANGED <<req, deltas, pending, track, live>>
    PROVE  CountInv'
<1>1. ASSUME NEW id \in Ids PROVE Lag(id)'
  <2>1. Users(id)' = Users(id) /\ Flight(id)' = Flight(id)
    BY DEF Users, Flight
  <2> QED BY <2>1, LagElsewhere DEF CountInv
<1> QED BY <1>1 DEF CountInv

\* A hook that counts itself, or no longer does, sends what makes the difference.
LEMMA LagSent ==
    ASSUME NEW id \in Ids, CountInv, NEW x \in {-1, 1},
           pending'[id] = pending[id], deltas'[id] = Append(deltas[id], x), track'[id] = track[id],
           Cardinality(Users(id)') = Cardinality(Users(id)) + x
    PROVE  Lag(id)'
<1>1. Flight(id) \in Seq({-1, 1}) /\ Flight(id)' = Append(Flight(id), x)
  BY DEF Flight, CountInv
<1>2. Users(id)' \in SUBSET Hooks
  BY DEF Users
<1>3. Cardinality(Users(id)') \in 0..Cardinality(Hooks)
  BY <1>2, UsersFinite
<1>4. LagsBehind(Flight(id), track[id], Cardinality(Users(id)))
  BY DEF CountInv, Lag
<1>5. LagsBehind(Append(Flight(id), x), track[id], Cardinality(Users(id)'))
  BY <1>1, <1>3, <1>4, LagAppend
<1> QED BY <1>1, <1>5 DEF Lag

\* A hook gives up what it uses, with a delta.
LEMMA CountReleased ==
    ASSUME HookInv, CountInv, NEW h \in Hooks, deltas' = Released(h), req' = [req EXCEPT ![h] = NoId],
           UNCHANGED <<pending, track, live>>
    PROVE  CountInv'
<1> USE DEF CountInv
<1>1. req \in [Hooks -> Ids \cup {NoId}]
  BY DEF HookInv, HookTypes
<1>2. ASSUME NEW id \in Ids PROVE Lag(id)'
  <2>1. CASE id = req[h]
    <3>1. h \in Users(id) /\ Users(id)' = Users(id) \ {h}
      BY <1>1, <2>1, AssetAssumption DEF Users
    <3>2. Users(id) \in SUBSET Hooks /\ Cardinality(Users(id)) \in Nat /\ IsFiniteSet(Users(id))
      BY UsersFinite DEF Users
    <3>3. Cardinality(Users(id)') = Cardinality(Users(id)) + (-1)
      BY <3>1, <3>2, FS_RemoveElement
    <3>4. deltas'[id] = Append(deltas[id], -1)
      BY <2>1 DEF Released
    <3> QED BY <3>3, <3>4, LagSent
  <2>2. CASE id # req[h]
    <3>1. Users(id)' = Users(id)
      BY <1>1, <2>2, AssetAssumption DEF Users
    <3>2. Flight(id)' = Flight(id)
      BY <2>2 DEF Released, Flight
    <3> QED BY <3>1, <3>2, LagElsewhere
  <2> QED BY <2>1, <2>2
<1>3. deltas' \in [Ids -> Seq({-1, 1})]
  BY DEF Released
<1> QED BY <1>2, <1>3

\* A hook that binds, moves or leaves sends what it adds or takes away.
LEMMA CountHooks ==
    ASSUME HookInv, CountInv, NEW h \in Hooks, Mount(h) \/ Retarget(h) \/ Receive(h) \/ Bind(h) \/ Unmount(h)
    PROVE  CountInv'
<1> USE DEF mapVars
<1>1. CASE Mount(h) \/ Retarget(h)
  BY <1>1, CountElsewhere DEF Mount, Retarget
<1>2. CASE Receive(h)
  BY <1>2, CountElsewhere, CountReleased DEF Receive
<1>3. CASE Unmount(h)
  BY <1>3, CountReleased DEF Unmount
<1>4. CASE Bind(h)
  <2>1. asking[h] \in Ids /\ req[h] = NoId /\ req \in [Hooks -> Ids \cup {NoId}]
        /\ req' = [req EXCEPT ![h] = asking[h]] /\ deltas' = [deltas EXCEPT ![asking[h]] = Append(@, 1)]
        /\ UNCHANGED <<pending, track, live>>
    BY <1>4 DEF Bind, HookInv, HookTypes, AskingInv
  <2>2. ASSUME NEW id \in Ids PROVE Lag(id)'
    <3>1. CASE id = asking[h]
      <4>1. h \notin Users(id) /\ Users(id)' = Users(id) \cup {h}
        BY <2>1, <3>1, AssetAssumption DEF Users
      <4>2. IsFiniteSet(Users(id))
        BY UsersFinite DEF Users
      <4>3. Cardinality(Users(id)') = Cardinality(Users(id)) + 1
        BY <4>1, <4>2, FS_AddElement
      <4> QED BY <2>1, <3>1, <4>3, LagSent DEF CountInv
    <3>2. CASE id # asking[h]
      <4>1. Users(id)' = Users(id)
        BY <2>1, <3>2, AssetAssumption DEF Users
      <4>2. Flight(id)' = Flight(id)
        BY <2>1, <3>2 DEF Flight, CountInv
      <4> QED BY <2>1, <4>1, <4>2, LagElsewhere DEF CountInv
    <3> QED BY <3>1, <3>2
  <2>3. deltas' \in [Ids -> Seq({-1, 1})]
    BY <2>1 DEF CountInv
  <2> QED BY <2>1, <2>2, <2>3 DEF CountInv
<1> QED BY <1>1, <1>2, <1>3, <1>4

\* The commands are applied: deltas are set aside.
LEMMA CountFrame ==
    ASSUME CountInv, StartFrame
    PROVE  CountInv'
<1>1. /\ pending' = [id \in Ids |-> pending[id] \o deltas[id]] /\ deltas' = [id \in Ids |-> <<>>]
      /\ live \subseteq live' /\ UNCHANGED <<req, track>>
  BY DEF StartFrame
<1>2. ASSUME NEW id \in Ids PROVE Lag(id)'
  <2>1. Users(id)' = Users(id)
    BY <1>1 DEF Users
  <2>2. Flight(id)' = Flight(id)
    BY <1>1 DEF Flight, CountInv
  <2> QED BY <1>1, <2>1, <2>2, LagElsewhere DEF CountInv
<1>3. pending' \in [Ids -> Seq({-1, 1})] /\ deltas' \in [Ids -> Seq({-1, 1})]
  BY <1>1 DEF CountInv
<1> QED BY <1>1, <1>2, <1>3 DEF CountInv

\* After each pending delta, the count is no higher than the number of hooks was.
LEMMA EntriesLag ==
    ASSUME CountInv, NEW id \in Ids,
           NEW past \in [0..Len(Flight(id)) -> 0..Cardinality(Hooks)], 
           Leads(past, Flight(id), track[id], Cardinality(Users(id)))
    PROVE  LET entry == Entry(id)
           IN  /\ entry.count \in Nat /\ entry.count <= past[Len(pending[id])]
               /\ entry.live => id \in live
               /\ ~entry.live => entry.count = 0
<1> DEFINE m == Len(pending[id])
           Fine(n) == LET entry == Entries(id)[n]
                      IN  /\ entry.count \in Nat /\ entry.count <= past[n]
                          /\ entry.live \in BOOLEAN
                          /\ entry.live => id \in live
                          /\ ~entry.live => entry.count = 0
           S == {n \in 0..m : Fine(n)}
<1>1. m \in Nat /\ m <= Len(Flight(id)) /\ Len(Flight(id)) \in Nat
      /\ \A n \in 1..m : Flight(id)[n] = pending[id][n] /\ pending[id][n] \in {-1, 1}
  BY DEF CountInv, Flight
<1>2. Entries(id) = [n \in 0..m |-> IF n = 0 THEN [live |-> id \in live, count |-> track[id]]
                                    ELSE Counted(Entries(id)[n - 1], pending[id][n])]
  BY <1>1, EntriesUnfold
<1> HIDE DEF m
<1>3. 0 \in S
  <2>1. Entries(id)[0] = [live |-> id \in live, count |-> track[id]]
    BY <1>1, <1>2
  <2>2. track[id] \in Nat /\ (id \notin live => track[id] = 0) /\ track[id] <= past[0]
    BY DEF CountInv, Leads
  <2>3. Fine(0)
    BY <2>1, <2>2
  <2> QED BY <1>1, <2>3
<1>4. ASSUME NEW n \in 0..(m - 1), n \in S PROVE n + 1 \in S
  <2>1. Entries(id)[n + 1] = Counted(Entries(id)[n], pending[id][n + 1])
    <3>1. n + 1 \in 0..m /\ n + 1 # 0 /\ (n + 1) - 1 = n
      BY <1>1
    <3>2. Entries(id)[n + 1] = Counted(Entries(id)[(n + 1) - 1], pending[id][n + 1])
      BY <1>2, <3>1
    <3> QED BY <3>1, <3>2
  <2>2. past[n + 1] = past[n] + pending[id][n + 1] /\ past[n] \in Nat /\ past[n + 1] \in Nat
        /\ pending[id][n + 1] \in {-1, 1} /\ n + 1 \in 0..m
    <3>1. n + 1 \in 1..Len(Flight(id)) /\ n + 1 \in 1..m /\ (n + 1) - 1 = n
      BY <1>1
    <3>2. past[n + 1] = past[(n + 1) - 1] + Flight(id)[n + 1]
      BY <3>1 DEF Leads
    <3>3. past[n] \in Nat /\ past[n + 1] \in Nat
      BY <1>1, <3>1, UsersFinite
    <3> QED BY <1>1, <3>1, <3>2, <3>3
  <2>3. Fine(n)
    BY <1>4
  <2> DEFINE e == Entries(id)[n]
             d == pending[id][n + 1]
  <2> HIDE DEF e, d
  <2>4. e.count \in Nat /\ e.count <= past[n] /\ e.live \in BOOLEAN /\ (e.live => id \in live)
        /\ (~e.live => e.count = 0) /\ d \in {-1, 1} /\ past[n + 1] = past[n] + d
    BY <2>2, <2>3 DEF e, d
  <2>5. LET f == Counted(e, d)
        IN  /\ f.count \in Nat /\ f.count <= past[n + 1] /\ f.live \in BOOLEAN
            /\ (f.live => id \in live) /\ (~f.live => f.count = 0)
    <3> DEFINE f == Counted(e, d)
    <3>0. past[n] \in Nat /\ past[n + 1] \in Nat /\ e.count + d \in Int /\ e.count + d <= past[n + 1]
      BY <2>2, <2>4
    <3>1. CASE ~e.live
      BY <2>4, <3>0, <3>1 DEF Counted
    <3>2. CASE e.live /\ e.count + d <= 0
      <4>1. f = [live |-> FALSE, count |-> 0]
        BY <3>2 DEF Counted
      <4>2. f.live = FALSE /\ f.count = 0
        BY <4>1
      <4>3. f.count \in Nat /\ f.count <= past[n + 1]
        BY <3>0, <4>2
      <4> QED BY <4>2, <4>3
    <3>3. CASE e.live /\ ~(e.count + d <= 0)
      <4>1. f = [live |-> TRUE, count |-> e.count + d]
        BY <3>3 DEF Counted
      <4>2. f.live = TRUE /\ f.count = e.count + d
        BY <4>1
      <4>3. f.count \in Nat /\ f.count <= past[n + 1]
        BY <3>0, <3>3, <4>2
      <4>4. id \in live
        BY <2>4, <3>3
      <4> QED BY <4>2, <4>3, <4>4
    <3> QED BY <2>4, <3>1, <3>2, <3>3
  <2>6. Fine(n + 1)
    BY <2>1, <2>5 DEF e, d
  <2> QED BY <2>2, <2>6
<1> HIDE DEF S
<1>5. 0..m \subseteq S
  BY <1>1, <1>3, <1>4, UpInduction
<1> USE DEF S
<1>6. m \in S
  BY <1>1, <1>5
<1> QED BY <1>6 DEF Entry, m

\* Counts follow, and a mirror whose count falls to zero leaves the map.
LEMMA CountApplied ==
    ASSUME CountInv, ApplyTrackingQueriesDelta
    PROVE  CountInv'
<1>1. /\ live' = {id \in live : Entry(id).live} /\ track' = [id \in Ids |-> Entry(id).count]
      /\ pending' = [id \in Ids |-> <<>>] /\ UNCHANGED <<req, deltas>>
  BY DEF ApplyTrackingQueriesDelta, hookVars
<1>2. ASSUME NEW id \in Ids
      PROVE  track'[id] \in Nat /\ Lag(id)' /\ (id \notin live' => track'[id] = 0)
  <2>1. PICK past \in [0..Len(Flight(id)) -> 0..Cardinality(Hooks)] :
             Leads(past, Flight(id), track[id], Cardinality(Users(id)))
    BY DEF CountInv, Lag, LagsBehind
  <2>2. /\ Entry(id).count \in Nat /\ Entry(id).count <= past[Len(pending[id])]
        /\ Entry(id).live => id \in live
        /\ ~Entry(id).live => Entry(id).count = 0
    BY <2>1, EntriesLag
  <2>3. pending[id] \in Seq({-1, 1}) /\ deltas[id] \in Seq({-1, 1})
    BY DEF CountInv
  <2>4. LagsBehind(deltas[id], Entry(id).count, Cardinality(Users(id)))
    BY <2>1, <2>2, <2>3, LagDrop DEF Flight
  <2>5. Flight(id)' = deltas[id] /\ Users(id)' = Users(id)
    BY <1>1, <2>3 DEF Flight, Users
  <2> QED BY <1>1, <2>2, <2>4, <2>5 DEF Lag
<1>3. pending' \in [Ids -> Seq({-1, 1})] /\ track' \in [Ids -> Nat]
  BY <1>1, <1>2
<1> QED BY <1>1, <1>2, <1>3 DEF CountInv

\* Every step keeps every id counted.
LEMMA CountStep == HookInv /\ CountInv /\ [Next]_vars => CountInv'
<1> SUFFICES ASSUME HookInv, CountInv, [Next]_vars PROVE CountInv'
  OBVIOUS
<1> USE DEF mapVars, hookVars
<1>1. CASE UNCHANGED vars
  BY <1>1, CountElsewhere DEF vars
<1>2. CASE \E h \in Hooks : Mount(h) \/ Retarget(h) \/ Receive(h) \/ Bind(h) \/ Unmount(h)
  BY <1>2, CountHooks
<1>3. CASE Notify \/ (\E h \in Hooks : Mutate(h)) \/ \E id \in scenario.ids : World(id)
  BY <1>3, CountElsewhere DEF Mutate, Notify, World, StartLoad, EndLoad, AddOrRemove, BevyWrite
<1>4. CASE StartFrame
  BY <1>4, CountFrame
<1>5. CASE ApplyTrackingQueriesDelta
  BY <1>5, CountApplied
<1>6. CASE EndFrame \/ SyncMirrorsToAssets \/ CollectChangedIds \/ InitRequestedAssetMirrors
           \/ SyncAssetsToMirrors \/ ClearFlags
           \/ \E deferred \in SUBSET readable : DriveMaybeAssets(deferred)
  BY <1>6, CountElsewhere
     DEF EndFrame, SyncMirrorsToAssets, CollectChangedIds, InitRequestedAssetMirrors,
         SyncAssetsToMirrors, ClearFlags, DriveMaybeAssets
<1> QED BY <1>1, <1>2, <1>3, <1>4, <1>5, <1>6 DEF Next, Dioxus, Frame

\* Whatever order deltas, requests and frames come in, for any numbers of hooks
\* and ids: once its deltas are counted, no mirror's count is higher than the
\* number of hooks that use its id.
THEOREM CountsAreUsed == Spec => []CountedAreUsed
<1>1. CountInv => CountedAreUsed
  <2> SUFFICES ASSUME CountInv, NEW id \in Ids, pending[id] = <<>>, deltas[id] = <<>>
               PROVE  track[id] <= Cardinality(Users(id))
    BY DEF CountedAreUsed, Users
  <2>1. PICK past \in [0..Len(Flight(id)) -> 0..Cardinality(Hooks)] :
             Leads(past, Flight(id), track[id], Cardinality(Users(id)))
    BY DEF CountInv, Lag, LagsBehind
  <2>2. Len(Flight(id)) = 0
    BY DEF Flight
  <2> QED BY <2>1, <2>2 DEF Leads
<1> QED BY <1>1, HookInit, HookStep, CountInit, CountStep, PTL DEF Spec

\* The state is well-typed in every behaviour: what the maps, channels, counts and
\* signals hold, for any hooks, ids and scenarios.  A count stays within the number
\* of hooks because it lags behind one.
THEOREM TypesCorrect == Spec => []TypeOK
<1>1. HookInv /\ ValueTypes /\ NoteTypes /\ CountInv => TypeOK
  <2> SUFFICES ASSUME HookInv, ValueTypes, NoteTypes, CountInv PROVE TypeOK
    OBVIOUS
  <2>1. ASSUME NEW id \in Ids PROVE track[id] \in 0..Cardinality(Hooks)
    <3>1. PICK past \in [0..Len(Flight(id)) -> 0..Cardinality(Hooks)] :
               Leads(past, Flight(id), track[id], Cardinality(Users(id)))
      BY DEF CountInv, Lag, LagsBehind
    <3>2. Len(Flight(id)) \in Nat
      BY DEF CountInv, Flight
    <3>3. past[0] \in 0..Cardinality(Hooks) /\ track[id] <= past[0] /\ track[id] \in Nat
      BY <3>1, <3>2 DEF Leads, CountInv
    <3> QED BY <3>3, UsersFinite
  <2>2. track \in [Ids -> 0..Cardinality(Hooks)]
    BY <2>1 DEF CountInv
  <2> QED BY <2>2 DEF TypeOK, HookInv, HookTypes, ValueTypes, NoteTypes, CountInv
<1>2. HookInv => scenario.ids \subseteq Ids
  BY ScenarioFacts DEF HookInv, HookTypes
<1> QED BY <1>1, <1>2, HookInit, HookStep, ValueInit, ValueStep, NoteStep, CountInit, CountStep, PTL DEF Spec

----------------------------------------------------------------------------
(* Bevy's changes                                                          *)

\* The ids whose mirrors have yet to be told of a change, or never will be.
Untold == unsent \cup recent \cup old \cup expired

BevyPart(writes) == writes \cap ({"bevy"} \X Nat)

\* A value that is written back undoes no change of bevy's.
Keeps(value, id) == value.state = "Ok" => BevyPart(asset[id]) \subseteq value.writes

\* Only the ids of assets that are there have changes.
WorldInv ==
    /\ DOMAIN world = Ids /\ DOMAIN asset = Ids /\ scenario.ids \subseteq Ids
    /\ world = [id \in Ids |-> world[id]] /\ asset = [id \in Ids |-> asset[id]]
    /\ \A id \in Ids : ~Present(id) => asset[id] = {}

\* Where the frame is.
PlaceInv ==
    /\ pc \in {"bevy", "accumulate", "sync"}
    /\ pc \in {"bevy", "accumulate"} => changed = {}

\* What was sent to a mirror that was told of all changes keeps them, and so
\* does what it accepted, unless a tick is about to replace it.
KeptInv ==
    \A id \in (live \cap Ids) \ Untold :
        /\ Keeps(sent[id], id)
        /\ (pc = "sync" /\ "drive" \in todo /\ sent[id] # Nothing) \/ Keeps(accepted[id], id)

ChangeInv == WorldInv /\ PlaceInv /\ KeptInv

LEMMA ChangeInit == Init => ChangeInv
BY AssetAssumption DEF Init, ChangeInv, WorldInv, PlaceInv, KeptInv, Present, Scenario

\* Steps of the components, and closures on their way, concern no values.
LEMMA ChangeElsewhere ==
    ASSUME ChangeInv, UNCHANGED <<worldVars, eventVars, frameVars, mapVars, signalVars>>
    PROVE  ChangeInv'
BY DEF ChangeInv, WorldInv, PlaceInv, KeptInv, Keeps, Present, Untold,
       worldVars, eventVars, frameVars, mapVars, signalVars

\* Every step of the bevy world is told, or takes changes away.
LEMMA WorldKeeps ==
    ASSUME ChangeInv, NEW i \in Ids, World(i)
    PROVE  ChangeInv'
<1> USE DEF ChangeInv, WorldInv, PlaceInv
<1>1. UNCHANGED <<scenario, recent, old, expired, live, pc, changed, todo, sent, accepted>>
      /\ unsent \subseteq unsent'
  BY DEF World, StartLoad, EndLoad, AddOrRemove, BevyWrite, eventVars, frameVars, mapVars, signalVars
<1>2. WorldInv'
  <2>1. CASE StartLoad(i) \/ EndLoad(i)
    BY <2>1 DEF StartLoad, EndLoad, Present
  <2>2. CASE AddOrRemove(i)
    BY <2>2 DEF AddOrRemove, Present
  <2>3. CASE BevyWrite(i)
    BY <2>3 DEF BevyWrite, Present
  <2> QED BY <2>1, <2>2, <2>3 DEF World
<1>3. \A id \in (live \cap Ids) \ Untold' : BevyPart(asset'[id]) \subseteq BevyPart(asset[id])
  <2>1. CASE StartLoad(i) \/ EndLoad(i) \/ AddOrRemove(i)
    BY <2>1 DEF StartLoad, EndLoad, AddOrRemove, BevyPart
  <2>2. CASE BevyWrite(i)
    BY <2>2 DEF BevyWrite, Untold
  <2> QED BY <2>1, <2>2 DEF World
<1>4. KeptInv'
  BY <1>1, <1>3 DEF KeptInv, Keeps, Untold
<1> QED BY <1>1, <1>2, <1>4

\* A frame passes the events on: none is lost unless it is marked.
LEMMA FrameKeeps ==
    ASSUME ChangeInv, StartFrame \/ EndFrame
    PROVE  ChangeInv'
<1> USE DEF ChangeInv
<1>1. CASE StartFrame
  <2>1. /\ WorldInv' /\ PlaceInv' /\ UNCHANGED asset /\ pc = "bevy" /\ pc' = "accumulate"
        /\ live' = live \cup NewMirrors /\ NewMirrors \cap live = {}
    BY <1>1 DEF StartFrame, WorldInv, PlaceInv, Present, worldVars, NewMirrors
  <2>3. Untold' = Untold
    BY <1>1 DEF StartFrame, Untold
  <2>4. \A id \in NewMirrors \cap Ids : sent'[id] = Nothing /\ accepted'[id] = Err("Fetching")
    BY <1>1 DEF StartFrame
  <2>5. \A id \in live \cap Ids : sent'[id] = sent[id] /\ accepted'[id] = accepted[id]
    BY <1>1, <2>1 DEF StartFrame
  <2>6. KeptInv'
    BY <2>1, <2>3, <2>4, <2>5 DEF KeptInv, Keeps, Nothing, Err
  <2> QED BY <2>1, <2>6
<1>2. CASE EndFrame
  BY <1>2 DEF EndFrame, WorldInv, PlaceInv, KeptInv, Keeps, Present, Untold,
              worldVars, mapVars, signalVars
<1> QED BY <1>1, <1>2

\* A run of the schedules: who was told of a change gets it before it writes back.
LEMMA RunKeeps ==
    ASSUME ChangeInv,
           \/ SyncMirrorsToAssets \/ CollectChangedIds
           \/ \E deferred \in SUBSET readable : DriveMaybeAssets(deferred)
           \/ InitRequestedAssetMirrors \/ ApplyTrackingQueriesDelta \/ ClearFlags
    PROVE  ChangeInv'
<1> USE DEF ChangeInv
<1>1. CASE SyncMirrorsToAssets
  <2>1. /\ UNCHANGED <<scenario, world, asset, live, changed, accepted, unsent, expired>> /\ changed = {}
        /\ pc = "accumulate" /\ pc' = "sync" /\ "drive" \in todo'
        /\ Untold \subseteq Untold' \cup Unread
    BY <1>1 DEF SyncMirrorsToAssets, PlaceInv, worldVars, mapVars, Due, Untold, Unread
  <2>2. WorldInv' /\ PlaceInv'
    BY <2>1 DEF WorldInv, PlaceInv, Present
  <2>3. ASSUME NEW id \in (live \cap Ids) \ Untold', id \in Unread, Present(id)
        PROVE  sent'[id] = Ok(asset[id])
    BY <1>1, <2>1, <2>3 DEF SyncMirrorsToAssets
  <2>4. ASSUME NEW id \in (live \cap Ids) \ Untold', ~(id \in Unread /\ Present(id))
        PROVE  sent'[id] = sent[id] /\ (asset[id] = {} \/ id \notin Untold)
    BY <1>1, <2>1, <2>4 DEF SyncMirrorsToAssets, WorldInv
  <2>5. ASSUME NEW id \in (live \cap Ids) \ Untold'
        PROVE  /\ Keeps(sent[id], id)'
               /\ sent'[id] # Nothing \/ Keeps(accepted[id], id)'
    <3>1. CASE id \in Unread /\ Present(id)
      <4>1. sent'[id] = Ok(asset[id]) /\ asset'[id] = asset[id]
        BY <2>1, <2>3, <3>1
      <4>2. Ok(asset[id]).state = "Ok" /\ Ok(asset[id]).writes = asset[id]
        BY DEF Ok
      <4>3. Nothing.state = "Nothing"
        BY DEF Nothing, Err
      <4>4. BevyPart(asset[id]) \subseteq asset[id]
        BY DEF BevyPart
      <4> QED BY <4>1, <4>2, <4>3, <4>4 DEF Keeps
    <3>2. CASE ~(id \in Unread /\ Present(id))
      BY <2>1, <2>4, <3>2 DEF KeptInv, Keeps, BevyPart
    <3> QED BY <3>1, <3>2
  <2>6. KeptInv'
    BY <2>1, <2>5 DEF KeptInv
  <2> QED BY <2>1, <2>2, <2>6
<1>2. CASE CollectChangedIds
  BY <1>2 DEF CollectChangedIds, Runs, WorldInv, PlaceInv, KeptInv, Keeps, Present, Untold,
              worldVars, eventVars, signalVars
<1>3. ASSUME NEW deferred \in SUBSET readable, DriveMaybeAssets(deferred) PROVE ChangeInv'
  <2>1. /\ UNCHANGED <<scenario, world, asset, live, changed, pc>> /\ Untold' = Untold /\ pc = "sync"
    BY <1>3 DEF DriveMaybeAssets, Runs, worldVars, eventVars, mapVars, Untold
  <2>2. \A id \in live \cap Ids : sent'[id] = Nothing /\ accepted'[id] = Drained(id)
    BY <1>3 DEF DriveMaybeAssets
  <2>3. \A id \in (live \cap Ids) \ Untold : Keeps(Drained(id), id)
    BY DEF KeptInv, Keeps, Drained, Applied, Ok
  <2>4. WorldInv' /\ PlaceInv'
    BY <2>1 DEF WorldInv, PlaceInv, Present
  <2>5. KeptInv'
    BY <2>1, <2>2, <2>3 DEF KeptInv, Keeps, Nothing, Err
  <2> QED BY <2>1, <2>4, <2>5
<1>4. CASE InitRequestedAssetMirrors
  <2>1. /\ UNCHANGED <<scenario, world, asset, live, changed, pc, accepted>> /\ Untold' = Untold
        /\ pc = "sync" /\ "drive" \notin todo /\ todo' \subseteq todo
    BY <1>4 DEF InitRequestedAssetMirrors, Posted, Runs, worldVars, eventVars, mapVars, Untold
  <2>2. WorldInv' /\ PlaceInv'
    BY <2>1 DEF WorldInv, PlaceInv, Present
  <2>3. \A id \in live \cap Ids : sent'[id] = Fetch(id) \/ sent'[id] = sent[id]
    BY <1>4 DEF InitRequestedAssetMirrors
  <2>4. \A id \in live \cap Ids : Keeps(Fetch(id), id)
    BY DEF Keeps, Fetch, Ok, Err, WorldInv, BevyPart
  <2>5. KeptInv'
    BY <2>1, <2>3, <2>4 DEF KeptInv, Keeps
  <2> QED BY <2>1, <2>2, <2>5
<1>5. CASE ApplyTrackingQueriesDelta
  <2>1. /\ UNCHANGED <<scenario, world, asset, changed, pc, sent, accepted>> /\ Untold' = Untold
        /\ live' \subseteq live /\ pc = "sync" /\ "drive" \notin todo
    BY <1>5 DEF ApplyTrackingQueriesDelta, Posted, Runs, worldVars, eventVars, Untold
  <2> QED BY <2>1 DEF WorldInv, PlaceInv, KeptInv, Keeps, Present
<1>6. CASE ClearFlags
  BY <1>6 DEF ClearFlags, WorldInv, PlaceInv, KeptInv, Keeps, Present, Untold,
              worldVars, eventVars, signalVars
<1> QED BY <1>1, <1>2, <1>3, <1>4, <1>5, <1>6

\* The write-back marks what it writes as changed.
LEMMA WriteKeeps ==
    ASSUME ChangeInv, SyncAssetsToMirrors
    PROVE  /\ ChangeInv'
           /\ \A id \in Ids :
                ~(asset[id] \cap ({"bevy"} \X Nat) \subseteq asset'[id])
                  => \/ id \in unsent \cup recent \cup old \cup expired
                     \/ accepted[id] # published[id]
<1> USE DEF ChangeInv
<1>1. /\ UNCHANGED <<scenario, world, recent, old, expired, live, changed, pc, sent, accepted, published>>
      /\ unsent' = unsent \cup WrittenBack /\ pc = "sync" /\ "drive" \notin todo
      /\ asset' = [id \in Ids |-> IF id \in WrittenBack THEN published[id].writes ELSE asset[id]]
  BY DEF SyncAssetsToMirrors, Posted, Runs, signalVars
<1>2. WorldInv' /\ PlaceInv'
  BY <1>1 DEF WorldInv, PlaceInv, Present, WrittenBack
<1>3. KeptInv'
  BY <1>1 DEF KeptInv, Keeps, Untold, SyncAssetsToMirrors, Posted, Runs
<1>4. ASSUME NEW id \in Ids, ~(BevyPart(asset[id]) \subseteq asset'[id]),
             id \notin Untold, accepted[id] = published[id]
      PROVE  FALSE
  <2>1. id \in WrittenBack /\ asset'[id] = published[id].writes
    BY <1>1, <1>4 DEF BevyPart
  <2>2. id \in live /\ published[id].state = "Ok"
    BY <2>1 DEF WrittenBack
  <2>3. Keeps(accepted[id], id)
    BY <1>1, <1>4, <2>2 DEF KeptInv
  <2> QED BY <1>4, <2>1, <2>2, <2>3 DEF Keeps
<1> QED BY <1>1, <1>2, <1>3, <1>4 DEF BevyPart, Untold

\* Every step keeps the mirrors at the changes they were told of.
LEMMA ChangeStep == ChangeInv /\ [Next]_vars => ChangeInv'
<1> SUFFICES ASSUME ChangeInv, [Next]_vars PROVE ChangeInv'
  OBVIOUS
<1>1. CASE UNCHANGED vars
  BY <1>1, ChangeElsewhere DEF vars
<1>2. ASSUME NEW h \in Hooks, Mount(h) \/ Retarget(h) \/ Unmount(h) \/ Mutate(h) PROVE ChangeInv'
  BY <1>2, ChangeElsewhere DEF Mount, Retarget, Unmount, Mutate
<1>3. CASE Dioxus
  BY <1>3, ChangeElsewhere DEF Dioxus, Notify, Receive, Bind
<1>4. CASE \E id \in scenario.ids : World(id)
  BY <1>4, WorldKeeps DEF ChangeInv, WorldInv
<1>5. CASE Frame
  BY <1>5, FrameKeeps, RunKeeps, WriteKeeps DEF Frame
<1> QED BY <1>1, <1>2, <1>3, <1>4, <1>5 DEF Next

\* sync_assets_to_mirrors undoes a change of bevy's only while the mirror was not
\* told of it or its publish is deferred, for any ids, hooks and numbers of writes.
THEOREM ChangesAreKept == Spec => BevyChangesKept
<1>1. ChangeInv /\ [Next]_vars =>
        [\A id \in Ids :
           SyncAssetsToMirrors /\ ~(asset[id] \cap ({"bevy"} \X Nat) \subseteq asset'[id])
             => \/ id \in unsent \cup recent \cup old \cup expired
                \/ accepted[id] # published[id]]_vars
  BY WriteKeeps
<1> QED BY <1>1, ChangeInit, ChangeStep, PTL DEF Spec, BevyChangesKept

----------------------------------------------------------------------------
(* Both sides agree                                                        *)

IsOk(value) == value.state = "Ok"

Closure == {"mutate"} \X Nat

\* The run has yet to tick the mirrors.
Driving == pc = "sync" /\ "drive" \in todo

\* The id is on its way to the write-back, or about to be written back.
Noted(id) == telling = id \/ id \in told \/ (id \in changed /\ "write" \in todo)

\* Before the asset is loaded its mirror holds an error.
LoadInv(id) ==
    world[id] \in {"NotLoaded", "Loading"} => ~IsOk(accepted[id]) /\ ~IsOk(sent[id])

\* A new mirror holds an error until the run that initializes it; what it holds
\* then is not older than what it is initialized with.
NewInv(id) ==
    id \in init =>
      /\ pc # "sync" => ~IsOk(accepted[id]) /\ ~IsOk(sent[id])
      /\ Driving => /\ ~IsOk(accepted[id])
                    /\ IsOk(sent[id]) => asset[id] = sent[id].writes
      /\ id \notin apart /\ IsOk(accepted[id]) => asset[id] \subseteq accepted[id].writes

\* After the ticks of a run only the initialization sends values.
SentInv(id) == pc = "sync" /\ "drive" \notin todo /\ sent[id] # Nothing => id \in init

\* A closure is known to the asset, or its id is noted.
QueueInv(id) ==
    /\ queue[id] \subseteq Closure
    /\ id \notin apart /\ queue[id] # {} => Noted(id)

ClosureInv(id) ==
    id \notin apart /\ NeverRemoved(id) =>
      /\ IsOk(accepted[id]) /\ ~(accepted[id].writes \cap Closure \subseteq asset[id]) => Noted(id)
      /\ IsOk(sent[id]) => sent[id].writes \cap Closure \subseteq asset[id]

\* A mirror that was told of everything has, or is about to get, the asset's
\* writes, and others only by closures.
ToldInv(id) ==
    id \notin apart \cup Untold /\ NeverRemoved(id) =>
      /\ IsOk(sent[id]) => sent[id].writes = asset[id]
      /\ IsOk(accepted[id]) /\ ~(Driving /\ sent[id] # Nothing)
           => asset[id] \subseteq accepted[id].writes /\ accepted[id].writes \subseteq asset[id] \cup Closure

MirrorInv(id) ==
    LoadInv(id) /\ NewInv(id) /\ SentInv(id) /\ QueueInv(id) /\ ClosureInv(id) /\ ToldInv(id)

AgreeInv ==
    /\ worldChanges \in Nat /\ mutates \in Nat
    /\ pc = "sync" /\ "collect" \in todo => "write" \in todo
    /\ \A id \in live \cap Ids : MirrorInv(id)

LEMMA AgreeInit == Init => AgreeInv
BY DEF Init, AgreeInv

LEMMA NothingIsNotOk == ~IsOk(Nothing) /\ \A e \in Errors : ~IsOk(Err(e))
BY DEF IsOk, Nothing, Err, Errors

LEMMA OkIsOk == \A writes : IsOk(Ok(writes)) /\ Ok(writes).writes = writes /\ Ok(writes) # Nothing
<1> SUFFICES ASSUME NEW writes
             PROVE  IsOk(Ok(writes)) /\ Ok(writes).writes = writes /\ Ok(writes) # Nothing
  OBVIOUS
<1>1. Ok(writes).state = "Ok" /\ Ok(writes).writes = writes /\ Nothing.state = "Nothing"
  BY DEF Ok, Nothing, Err
<1> QED BY <1>1 DEF IsOk

\* Steps that change nothing that concerns the values.
LEMMA AgreeElsewhere ==
    ASSUME AgreeInv, UNCHANGED <<worldVars, eventVars, mutateVars, frameVars, init, changed, apart,
                                 signalVars>>,
           live' \subseteq live
    PROVE  AgreeInv'
<1>1. ASSUME NEW id \in live \cap Ids PROVE MirrorInv(id)'
  BY <1>1 DEF AgreeInv, MirrorInv, LoadInv, NewInv, SentInv, QueueInv, ClosureInv, ToldInv, Untold,
       Noted, Driving, NeverRemoved, worldVars, eventVars, mutateVars, frameVars, signalVars
<1> QED BY <1>1 DEF AgreeInv, worldVars, mutateVars, frameVars

\* A closure is queued before its id is sent.
LEMMA MutateAgrees ==
    ASSUME AgreeInv, NEW h \in Hooks, Mutate(h)
    PROVE  AgreeInv'
<1>1. /\ UNCHANGED <<worldVars, eventVars, told, frameVars, mapVars, signalVars>>
      /\ telling = NoId /\ telling' = writer[h].id /\ mutates' = mutates + 1
      /\ queue' = [id \in Ids |-> IF id = writer[h].id /\ InMap(writer[h])
                                  THEN queue[id] \cup {<<"mutate", mutates + 1>>} ELSE queue[id]]
  BY DEF Mutate
<1>2. ASSUME NEW id \in live \cap Ids PROVE MirrorInv(id)'
  <2>1. Noted(id) => Noted(id)'
    BY <1>1, AssetAssumption DEF Noted, frameVars, mapVars
  <2>2. QueueInv(id)'
    BY <1>1, <2>1 DEF AgreeInv, MirrorInv, QueueInv, Noted, Closure, mapVars
  <2>3. (LoadInv(id) /\ NewInv(id) /\ SentInv(id) /\ ClosureInv(id) /\ ToldInv(id))'
    BY <1>1, <2>1 DEF AgreeInv, MirrorInv, LoadInv, NewInv, SentInv, ClosureInv, ToldInv, Untold,
         Driving, NeverRemoved, worldVars, eventVars, frameVars, mapVars, signalVars
  <2> QED BY <2>2, <2>3 DEF MirrorInv
<1> QED BY <1>1, <1>2 DEF AgreeInv, worldVars, frameVars, mapVars

\* The id follows, and is collected before it is written back.
LEMMA NotedAgrees ==
    ASSUME AgreeInv, PlaceInv, Notify \/ CollectChangedIds \/ ClearFlags
    PROVE  AgreeInv'
<1>1. /\ UNCHANGED <<worldVars, eventVars, queue, mutates, live, apart, signalVars>>
      /\ \/ pc' = pc /\ init' = init
         \/ pc = "sync" /\ pc' = "accumulate" /\ init' = {} /\ todo = {}
      /\ "drive" \in todo' <=> "drive" \in todo
      /\ pc' = "sync" /\ "collect" \in todo' => "write" \in todo'
  <2>1. CASE Notify
    BY <2>1 DEF Notify, frameVars, mapVars, AgreeInv
  <2>2. CASE CollectChangedIds
    BY <2>2 DEF CollectChangedIds, Runs, AgreeInv
  <2>3. CASE ClearFlags
    BY <2>3 DEF ClearFlags, mutateVars
  <2> QED BY <2>1, <2>2, <2>3
<1>2. ASSUME NEW id \in live \cap Ids, Noted(id) PROVE Noted(id)'
  <2>1. CASE Notify
    BY <1>2, <2>1 DEF Notify, Noted, frameVars, mapVars
  <2>2. CASE CollectChangedIds
    BY <1>2, <2>2 DEF CollectChangedIds, Runs, Noted, AgreeInv
  <2>3. CASE ClearFlags
    BY <1>2, <2>3 DEF ClearFlags, Noted, mutateVars
  <2> QED BY <2>1, <2>2, <2>3
<1>3. ASSUME NEW id \in live \cap Ids PROVE MirrorInv(id)'
  <2>1. LoadInv(id)' /\ NewInv(id)' /\ SentInv(id)'
    BY <1>1, <1>3 DEF AgreeInv, MirrorInv, LoadInv, NewInv, SentInv, Driving, worldVars, signalVars
  <2>2. QueueInv(id)' /\ ClosureInv(id)'
    BY <1>1, <1>2, <1>3 DEF AgreeInv, MirrorInv, QueueInv, ClosureInv, NeverRemoved, worldVars, signalVars
  <2>3. ToldInv(id)'
    BY <1>1, <1>3 DEF AgreeInv, MirrorInv, ToldInv, Untold, Driving, NeverRemoved,
         worldVars, eventVars, signalVars
  <2> QED BY <2>1, <2>2, <2>3 DEF MirrorInv
<1> QED BY <1>1, <1>3 DEF AgreeInv, worldVars

\* What bevy does to an asset is told, or ends its being NeverRemoved.
LEMMA WorldAgrees ==
    ASSUME AgreeInv, WorldInv, PlaceInv, NEW i \in Ids, World(i)
    PROVE  AgreeInv'
<1>1. /\ UNCHANGED <<mutateVars, frameVars, mapVars, signalVars, recent, old, expired>>
      /\ pc = "bevy" /\ unsent \subseteq unsent'
  BY DEF World, StartLoad, EndLoad, AddOrRemove, BevyWrite, WorldStep, eventVars
<1>2. worldChanges' \in Nat /\ (worldChanges' = worldChanges \/ worldChanges' > 0)
  BY DEF World, StartLoad, EndLoad, AddOrRemove, BevyWrite, WorldStep, AgreeInv
<1>3. ASSUME NEW id \in live \cap Ids PROVE MirrorInv(id)'
  <2>1. \/ world'[id] = world[id]
        \/ world[id] = "Loading" /\ world'[id] = "Loaded" /\ id \in unsent'
        \/ world[id] = "NotLoaded" /\ world'[id] = "Loading"
        \/ world'[id] \in {"Failed", "NonAsset", "Removed"}
        \/ world'[id] = "Added" /\ worldChanges' > 0
    BY <1>2 DEF World, StartLoad, EndLoad, AddOrRemove, BevyWrite, WorldStep, WorldInv, AgreeInv
  <2>2. NeverRemoved(id)' => \/ asset'[id] = asset[id]
                             \/ asset[id] \subseteq asset'[id] /\ id \in unsent'
    <3>1. CASE StartLoad(i) \/ EndLoad(i)
      BY <3>1 DEF StartLoad, EndLoad
    <3>2. CASE AddOrRemove(i) /\ i # id
      BY <3>2 DEF AddOrRemove, WorldInv
    <3>3. CASE AddOrRemove(i) /\ i = id
      BY <3>3 DEF AddOrRemove, WorldStep, WorldInv, NeverRemoved, AgreeInv
    <3>4. CASE BevyWrite(i)
      BY <3>4 DEF BevyWrite, WorldInv
    <3> QED BY <3>1, <3>2, <3>3, <3>4 DEF World
  <2>3. NeverRemoved(id)' => NeverRemoved(id) \/ (world[id] = "Loading" /\ id \in unsent')
    BY <1>2, <2>1 DEF NeverRemoved
  <2>4. LoadInv(id)'
    BY <1>1, <2>1 DEF AgreeInv, MirrorInv, LoadInv, signalVars
  <2>5. NewInv(id)' /\ SentInv(id)' /\ QueueInv(id)' /\ (Noted(id) => Noted(id)')
    BY <1>1 DEF AgreeInv, MirrorInv, NewInv, SentInv, QueueInv, Noted, Driving,
         mutateVars, frameVars, mapVars, signalVars
  <2>6. ClosureInv(id)'
    BY <1>1, <2>2, <2>3, <2>5 DEF AgreeInv, MirrorInv, LoadInv, ClosureInv, mapVars, signalVars
  <2>7. ToldInv(id)'
    BY <1>1, <2>2, <2>3 DEF AgreeInv, MirrorInv, ToldInv, Untold, Driving, mapVars, signalVars
  <2> QED BY <2>4, <2>5, <2>6, <2>7 DEF MirrorInv
<1> QED BY <1>1, <1>2, <1>3 DEF AgreeInv, mutateVars, frameVars, mapVars

\* New mirrors hold errors; the events pass on.
LEMMA FrameAgrees ==
    ASSUME AgreeInv, PlaceInv, StartFrame \/ EndFrame
    PROVE  AgreeInv'
<1>1. /\ UNCHANGED <<worldVars, telling, told, mutates, todo, changed, apart>> /\ Untold' = Untold
      /\ pc # "sync" /\ pc' # "sync"
  BY DEF StartFrame, EndFrame, Untold, mutateVars, mapVars
<1>2. ASSUME NEW id \in live' \cap Ids PROVE MirrorInv(id)'
  <2>1. CASE id \in live /\ UNCHANGED <<sent[id], queue[id], accepted[id]>> /\ (id \in init' => id \in init)
    BY <1>1, <2>1 DEF AgreeInv, MirrorInv, LoadInv, NewInv, SentInv, QueueInv, ClosureInv,
         ToldInv, Noted, Driving, NeverRemoved, worldVars
  <2>2. CASE sent'[id] = Nothing /\ queue'[id] = {} /\ accepted'[id] = Err("Fetching")
    BY <1>1, <2>2, NothingIsNotOk DEF MirrorInv, LoadInv, NewInv, SentInv, QueueInv, ClosureInv,
         ToldInv, Driving, Errors
  <2>3. CASE StartFrame
    <3>1. CASE id \in NewMirrors
      BY <2>2, <2>3, <3>1 DEF StartFrame
    <3>2. CASE id \notin NewMirrors
      BY <2>1, <2>3, <3>2 DEF StartFrame
    <3> QED BY <3>1, <3>2
  <2>4. CASE EndFrame
    BY <2>1, <2>4 DEF EndFrame, mutateVars, mapVars, signalVars
  <2> QED BY <2>3, <2>4
<1> QED BY <1>1, <1>2 DEF AgreeInv, worldVars

\* Those that an event tells of are sent the asset.
LEMMA SyncAgrees ==
    ASSUME AgreeInv, PlaceInv, SyncMirrorsToAssets
    PROVE  AgreeInv'
<1>1. /\ UNCHANGED <<worldVars, unsent, expired, mutateVars, live, init, apart, accepted>>
      /\ changed = {} /\ changed' = {} /\ pc = "accumulate" /\ pc' = "sync"
      /\ "drive" \in todo' /\ "write" \in todo' /\ Untold \subseteq Untold' \cup Unread
  BY DEF SyncMirrorsToAssets, PlaceInv, mapVars, Due, Untold, Unread
<1>2. ASSUME NEW id \in live \cap Ids PROVE MirrorInv(id)'
  <2>1. CASE id \in Unread /\ Present(id)
    <3>1. sent'[id] = Ok(asset[id])
      BY <1>1, <2>1 DEF SyncMirrorsToAssets
    <3>2. IsOk(sent'[id]) /\ sent'[id].writes = asset'[id] /\ sent'[id] # Nothing
      BY <1>1, <3>1, OkIsOk DEF worldVars
    <3>3. world'[id] \notin {"NotLoaded", "Loading"}
      BY <1>1, <2>1 DEF Present, worldVars
    <3> QED BY <1>1, <3>2, <3>3
         DEF AgreeInv, MirrorInv, LoadInv, NewInv, SentInv, QueueInv, ClosureInv, ToldInv,
             Noted, Driving, NeverRemoved, worldVars, mutateVars
  <2>2. CASE ~(id \in Unread /\ Present(id))
    <3>1. sent'[id] = sent[id]
      BY <1>1, <2>2 DEF SyncMirrorsToAssets
    <3>2. NeverRemoved(id)' => NeverRemoved(id) /\ (id \in Untold => id \in Untold')
      BY <1>1, <2>2 DEF NeverRemoved, Present, worldVars
    <3> QED BY <1>1, <3>1, <3>2
         DEF AgreeInv, MirrorInv, LoadInv, NewInv, SentInv, QueueInv, ClosureInv, ToldInv,
             Noted, Driving, worldVars, mutateVars
  <2> QED BY <2>1, <2>2
<1> QED BY <1>1, <1>2 DEF AgreeInv, worldVars, mutateVars

\* A tick takes what was sent, and then the closures.
LEMMA DriveAgrees ==
    ASSUME AgreeInv, PlaceInv, NEW deferred \in SUBSET readable, DriveMaybeAssets(deferred)
    PROVE  AgreeInv'
<1>1. /\ UNCHANGED <<worldVars, eventVars, telling, told, mutates, mapVars, pc>>
      /\ pc = "sync" /\ "drive" \in todo /\ "drive" \notin todo'
      /\ \A s \in {"write", "collect"} : s \in todo' <=> s \in todo
  BY DEF DriveMaybeAssets, Runs
<1>2. ASSUME NEW id \in live \cap Ids PROVE MirrorInv(id)'
  <2> DEFINE base == IF sent[id] = Nothing THEN accepted[id] ELSE sent[id]
  <2>1. sent'[id] = Nothing /\ queue'[id] = {} /\ accepted'[id] = Applied(base, id)
    BY <1>2 DEF DriveMaybeAssets, Drained
  <2>2. MirrorInv(id)
    BY <1>2 DEF AgreeInv
  <2>3. IF IsOk(base) THEN IsOk(accepted'[id]) /\ accepted'[id].writes = base.writes \cup queue[id]
                      ELSE accepted'[id] = base
    BY <2>1, OkIsOk DEF Applied, IsOk
  <2> HIDE DEF base
  <2>4. /\ queue[id] \subseteq Closure /\ ~IsOk(Nothing)
        /\ base = sent[id] \/ (base = accepted[id] /\ sent[id] = Nothing)
    BY <2>2, NothingIsNotOk DEF base, MirrorInv, QueueInv
  <2>5. Noted(id)' <=> Noted(id)
    BY <1>1 DEF Noted, mapVars
  <2>6. LoadInv(id)'
    BY <1>1, <2>1, <2>2, <2>3, <2>4 DEF MirrorInv, LoadInv, worldVars
  <2>7. NewInv(id)' /\ SentInv(id)' /\ QueueInv(id)'
    BY <1>1, <2>1, <2>2, <2>3, <2>4
       DEF MirrorInv, NewInv, SentInv, QueueInv, Driving, worldVars, mapVars
  <2>8. ClosureInv(id)'
    <3> SUFFICES ASSUME id \notin apart, NeverRemoved(id), IsOk(accepted'[id]),
                        ~(accepted'[id].writes \cap Closure \subseteq asset[id])
                 PROVE  Noted(id)
      BY <1>1, <2>1, <2>4, <2>5 DEF ClosureInv, NeverRemoved, worldVars, mapVars
    <3>1. IsOk(base) /\ (queue[id] # {} \/ ~(base.writes \cap Closure \subseteq asset[id]))
      BY <2>3
    <3>2. queue[id] # {} => Noted(id)
      BY <2>2 DEF MirrorInv, QueueInv
    <3>3. ~(base.writes \cap Closure \subseteq asset[id]) => Noted(id)
      BY <2>2, <2>4, <3>1 DEF MirrorInv, ClosureInv
    <3> QED BY <3>1, <3>2, <3>3
  <2>9. ToldInv(id)'
    <3> SUFFICES ASSUME id \notin apart \cup Untold, NeverRemoved(id), IsOk(accepted'[id])
                 PROVE  /\ asset[id] \subseteq accepted'[id].writes
                        /\ accepted'[id].writes \subseteq asset[id] \cup Closure
      BY <1>1, <2>1, <2>4 DEF ToldInv, NeverRemoved, Untold, worldVars, eventVars, mapVars
    <3>1. IsOk(base)
      BY <2>3
    <3>2. asset[id] \subseteq base.writes /\ base.writes \subseteq asset[id] \cup Closure
      BY <2>2, <2>4, <3>1 DEF MirrorInv, ToldInv
    <3> QED BY <2>3, <2>4, <3>1, <3>2
  <2> QED BY <2>6, <2>7, <2>8, <2>9 DEF MirrorInv
<1> QED BY <1>1, <1>2 DEF AgreeInv, worldVars, mapVars

\* A new mirror is sent the asset, or why there is none.
LEMMA InitAgrees ==
    ASSUME AgreeInv, PlaceInv, InitRequestedAssetMirrors
    PROVE  AgreeInv'
<1>1. /\ UNCHANGED <<worldVars, eventVars, mutateVars, mapVars, accepted, pc>>
      /\ pc = "sync" /\ "drive" \notin todo /\ "drive" \notin todo'
      /\ \A s \in {"write", "collect"} : s \in todo' <=> s \in todo
  BY DEF InitRequestedAssetMirrors, Posted, Runs
<1>2. ASSUME NEW id \in live \cap Ids PROVE MirrorInv(id)'
  <2>1. MirrorInv(id)
    BY <1>2 DEF AgreeInv
  <2>2. \/ sent'[id] = sent[id]
        \/ id \in init /\ Present(id) /\ IsOk(sent'[id]) /\ sent'[id].writes = asset[id]
        \/ id \in init /\ ~Present(id)
             /\ (world[id] \in {"NotLoaded", "Loading"} => ~IsOk(sent'[id]))
    <3>1. sent'[id] = sent[id] \/ (id \in init /\ sent'[id] = Fetch(id))
      BY <1>2 DEF InitRequestedAssetMirrors
    <3>2. Present(id) => Fetch(id) = Ok(asset[id])
      BY DEF Fetch
    <3>3. world[id] \in {"NotLoaded", "Loading"} => Fetch(id).state = world[id]
      BY DEF Fetch, Err, Present
    <3> QED BY <3>1, <3>2, <3>3, OkIsOk DEF IsOk
  <2>3. NeverRemoved(id) => Present(id)
    BY DEF NeverRemoved, Present
  <2>4. (LoadInv(id) /\ NewInv(id) /\ SentInv(id) /\ QueueInv(id))'
    BY <1>1, <2>1, <2>2
       DEF MirrorInv, LoadInv, NewInv, SentInv, QueueInv, Noted, Driving, Present, worldVars, mutateVars, mapVars
  <2>5. (ClosureInv(id) /\ ToldInv(id))'
    BY <1>1, <2>1, <2>2, <2>3
       DEF MirrorInv, ClosureInv, ToldInv, Untold, Noted, Driving, NeverRemoved,
           worldVars, eventVars, mutateVars, mapVars
  <2> QED BY <2>4, <2>5 DEF MirrorInv
<1> QED BY <1>1, <1>2 DEF AgreeInv, worldVars, mutateVars, mapVars

\* The write-back makes the closures of those known that it notes as together.
LEMMA WriteAgrees ==
    ASSUME AgreeInv, PlaceInv, SyncAssetsToMirrors
    PROVE  AgreeInv'
<1>1. /\ UNCHANGED <<world, worldChanges, mutateVars, live, init, changed, signalVars, pc, recent, old, expired>>
      /\ unsent' = unsent \cup WrittenBack /\ apart' = apart \cup Apart
      /\ pc = "sync" /\ "drive" \notin todo /\ "drive" \notin todo' /\ "collect" \notin todo'
      /\ \A id \in Ids : asset'[id] = IF id \in WrittenBack THEN published[id].writes ELSE asset[id]
  BY DEF SyncAssetsToMirrors, Posted, Runs
<1>2. ASSUME NEW id \in live \cap Ids PROVE MirrorInv(id)'
  <2>1. MirrorInv(id)
    BY <1>2 DEF AgreeInv
  <2>2. id \in WrittenBack <=> id \in changed /\ Present(id) /\ IsOk(published[id])
    BY <1>2 DEF WrittenBack, IsOk
  <2>3. id \notin Apart => /\ id \in changed => queue[id] = {} /\ accepted[id] = published[id]
                           /\ telling = id \/ id \in told
                                => accepted[id].writes \cap Closure \subseteq asset[id]
    BY <1>2 DEF Apart, Closures, Closure
  <2>4. LoadInv(id)' /\ SentInv(id)'
    BY <1>1, <2>1 DEF MirrorInv, LoadInv, SentInv, signalVars
  <2>5. NewInv(id)'
    BY <1>1, <2>1, <2>2, <2>3 DEF MirrorInv, NewInv, Driving, signalVars
  <2>6. QueueInv(id)'
    BY <1>1, <2>1, <2>3 DEF MirrorInv, QueueInv, Noted, mutateVars
  <2>7. ClosureInv(id)'
    <3> SUFFICES ASSUME id \notin apart \cup Apart, NeverRemoved(id)
                 PROVE  /\ IsOk(accepted[id]) => accepted[id].writes \cap Closure \subseteq asset'[id]
                        /\ IsOk(sent[id]) => sent[id].writes \cap Closure \subseteq asset'[id]
      BY <1>1 DEF ClosureInv, NeverRemoved, signalVars
    <3>1. Present(id)
      BY DEF NeverRemoved, Present
    <3>2. IsOk(accepted[id]) => accepted[id].writes \cap Closure \subseteq asset'[id]
      BY <1>1, <2>1, <2>2, <2>3, <3>1 DEF MirrorInv, ClosureInv, Noted
    <3>3. CASE IsOk(sent[id])
      <4>1. id \in init /\ sent[id].writes \cap Closure \subseteq asset[id]
        BY <1>1, <2>1, <3>3, NothingIsNotOk DEF MirrorInv, SentInv, ClosureInv
      <4>2. asset[id] \subseteq asset'[id]
        <5>1. CASE id \in WrittenBack
          <6>1. asset'[id] = accepted[id].writes /\ IsOk(accepted[id])
            BY <1>1, <1>2, <2>2, <2>3, <5>1
          <6> QED BY <2>1, <4>1, <6>1 DEF MirrorInv, NewInv
        <5>2. CASE id \notin WrittenBack
          BY <1>1, <1>2, <5>2
        <5> QED BY <5>1, <5>2
      <4> QED BY <3>2, <4>1, <4>2
    <3> QED BY <3>2, <3>3
  <2>8. ToldInv(id)'
    <3> SUFFICES ASSUME id \notin Untold', id \notin apart
                 PROVE  ToldInv(id)'
      BY <1>1 DEF ToldInv
    <3>1. id \notin WrittenBack /\ id \notin Untold /\ asset'[id] = asset[id]
      BY <1>1, <1>2 DEF Untold
    <3> QED BY <1>1, <2>1, <3>1 DEF MirrorInv, ToldInv, Driving, NeverRemoved, signalVars
  <2> QED BY <2>4, <2>5, <2>6, <2>7, <2>8 DEF MirrorInv
<1> QED BY <1>1, <1>2 DEF AgreeInv, mutateVars

\* Every step keeps what the sides know of each other.
LEMMA AgreeStep == ChangeInv /\ AgreeInv /\ [Next]_vars => AgreeInv'
<1> SUFFICES ASSUME ChangeInv, AgreeInv, [Next]_vars PROVE AgreeInv'
  OBVIOUS
<1>0. PlaceInv /\ WorldInv
  BY DEF ChangeInv
<1>1. CASE UNCHANGED vars
  BY <1>1, AgreeElsewhere DEF vars, mapVars
<1>2. ASSUME NEW h \in Hooks, Mount(h) \/ Retarget(h) \/ Unmount(h) \/ Receive(h) \/ Bind(h)
      PROVE  AgreeInv'
  BY <1>2, AgreeElsewhere DEF Mount, Retarget, Unmount, Receive, Bind, mapVars
<1>3. CASE Dioxus
  BY <1>0, <1>2, <1>3, NotedAgrees DEF Dioxus
<1>4. CASE \E id \in scenario.ids : World(id)
  BY <1>0, <1>4, WorldAgrees DEF WorldInv
<1>5. CASE ApplyTrackingQueriesDelta
  <2>1. /\ UNCHANGED <<worldVars, eventVars, mutateVars, init, changed, apart, sent, accepted>>
        /\ live' \subseteq live /\ pc' = pc /\ todo' = todo \ {"track"}
    BY <1>5 DEF ApplyTrackingQueriesDelta, Posted, Runs
  <2>2. ASSUME NEW id \in live \cap Ids PROVE MirrorInv(id)'
    BY <2>1, <2>2 DEF AgreeInv, MirrorInv, LoadInv, NewInv, SentInv, QueueInv, ClosureInv, ToldInv,
         Untold, Noted, Driving, NeverRemoved, worldVars, eventVars, mutateVars
  <2> QED BY <2>1, <2>2 DEF AgreeInv, worldVars, mutateVars
<1>6. CASE Frame
  BY <1>0, <1>5, <1>6, FrameAgrees, SyncAgrees, NotedAgrees, DriveAgrees, InitAgrees, WriteAgrees DEF Frame
<1> QED BY <1>1, <1>2, <1>3, <1>4, <1>6, MutateAgrees DEF Next

\* An asset and its mirror agree when nothing is under way, for any ids, hooks,
\* writes and closures, loads that end and mirrors that are made again.
THEOREM SidesAgree == Spec => []Converged
<1>1. HookInv /\ ChangeInv /\ AgreeInv => Converged
  <2> SUFFICES ASSUME HookInv, ChangeInv, AgreeInv, NEW id \in live \ (apart \cup expired),
                      Quiet(id), published[id].state = "Ok", NeverRemoved(id)
               PROVE  published[id].writes = asset[id]
    BY DEF Converged
  <2>1. pc = "bevy" /\ changed = {} /\ id \notin Untold /\ accepted[id] = published[id] /\ ~Noted(id)
    BY DEF Quiet, ChangeInv, PlaceInv, Untold, Noted
  <2>2. ClosureInv(id) /\ ToldInv(id) /\ IsOk(accepted[id])
    BY <2>1 DEF HookInv, HookTypes, AgreeInv, MirrorInv, IsOk
  <2> QED BY <2>1, <2>2 DEF ClosureInv, ToldInv, Driving
<1> QED BY <1>1, HookInit, HookStep, ChangeInit, ChangeStep, AgreeInit, AgreeStep, PTL DEF Spec

----------------------------------------------------------------------------
(* Taken closures arrive                                                    *)

\* The run has ticked the mirrors, and has yet to write back.
WritingBack == pc = "sync" /\ "drive" \notin todo /\ "write" \in todo

Taken(id) ==
    NeverRemoved(id) /\ IsOk(accepted[id])
      => WritingBack \/ Closures(accepted[id]) \subseteq asset[id]

\* A closure that a mirror took is in its asset when the write-back of the same
\* run is over, unless it was told in another run than it was published in.
TakenInv ==
    /\ Driving => "write" \in todo
    /\ \A id \in (live \cap Ids) \ apart : Taken(id)

\* No mirror is in the map at first.
LEMMA TakenInit == Init => TakenInv
BY DEF Init, TakenInv, Driving

\* What holds of an asset that keeps its writes and of a mirror that keeps its value.
LEMMA TakenKept ==
    ASSUME TakenInv, pc' = "sync" /\ "drive" \in todo' => "write" \in todo',
           WritingBack => WritingBack', apart \subseteq apart',
           \A id \in (live' \cap Ids) \ apart' :
              NeverRemoved(id)' /\ IsOk(accepted'[id])
                => /\ id \in live /\ accepted'[id] = accepted[id]
                   /\ NeverRemoved(id) /\ asset[id] \subseteq asset'[id]
    PROVE  TakenInv'
<1>1. ASSUME NEW id \in (live' \cap Ids) \ apart', NeverRemoved(id)', IsOk(accepted'[id]), ~WritingBack'
      PROVE  Closures(accepted'[id]) \subseteq asset'[id]
  <2>1. id \in (live \cap Ids) \ apart /\ accepted'[id] = accepted[id] /\ NeverRemoved(id)
        /\ asset[id] \subseteq asset'[id] /\ ~WritingBack
    BY <1>1
  <2>2. Closures(accepted[id]) \subseteq asset[id]
    BY <1>1, <2>1 DEF TakenInv, Taken
  <2> QED BY <2>1, <2>2
<1> QED BY <1>1 DEF TakenInv, Taken, Driving

\* An asset only loses writes when it is removed, or added anew.
LEMMA WorldGrows ==
    ASSUME WorldInv, worldChanges \in Nat, NEW i \in Ids, World(i), NEW id \in Ids, NeverRemoved(id)'
    PROVE  /\ asset[id] \subseteq asset'[id]
           /\ NeverRemoved(id) \/ world[id] = "Loading"
<1>1. CASE StartLoad(i)
  BY <1>1 DEF StartLoad, WorldStep, WorldInv, NeverRemoved
<1>2. CASE EndLoad(i)
  BY <1>2 DEF EndLoad, WorldStep, WorldInv, NeverRemoved
<1>3. CASE AddOrRemove(i)
  <2>1. worldChanges' # 0 /\ world'[id] = "Loaded"
    BY <1>3 DEF AddOrRemove, WorldStep, NeverRemoved
  <2>2. i # id
    BY <1>3, <2>1 DEF AddOrRemove, WorldInv
  <2> QED BY <1>3, <2>1, <2>2 DEF AddOrRemove, WorldInv, NeverRemoved
<1>4. CASE BevyWrite(i)
  BY <1>4 DEF BevyWrite, WorldInv, NeverRemoved
<1> QED BY <1>1, <1>2, <1>3, <1>4 DEF World

\* The write-back brings what the ticks of the run took.
LEMMA WriteTakes ==
    ASSUME AgreeInv, TakenInv, SyncAssetsToMirrors
    PROVE  TakenInv'
<1>1. /\ UNCHANGED <<world, worldChanges, live, accepted>> /\ apart' = apart \cup Apart
      /\ pc = "sync" /\ pc' = pc /\ "drive" \notin todo /\ todo' = todo \ {"write"}
      /\ \A id \in Ids : asset'[id] = IF id \in WrittenBack THEN published[id].writes ELSE asset[id]
  BY DEF SyncAssetsToMirrors, Posted, Runs, signalVars
<1>2. ASSUME NEW id \in (live \cap Ids) \ apart', NeverRemoved(id), IsOk(accepted[id])
      PROVE  Closures(accepted[id]) \subseteq asset'[id]
  <2>1. id \notin apart /\ id \notin Apart /\ Present(id)
    BY <1>1, <1>2 DEF NeverRemoved, Present
  <2>2. CASE id \in changed
    <3>1. accepted[id] = published[id]
      BY <1>2, <2>1, <2>2 DEF Apart
    <3>2. asset'[id] = accepted[id].writes
      BY <1>1, <1>2, <2>1, <2>2, <3>1 DEF WrittenBack, IsOk
    <3> QED BY <3>2 DEF Closures
  <2>3. CASE id \notin changed
    <3>1. asset'[id] = asset[id]
      BY <1>1, <2>3 DEF WrittenBack
    <3>2. telling = id \/ id \in told => Closures(accepted[id]) \subseteq asset[id]
      BY <1>2, <2>1 DEF Apart
    <3>3. ~(Closures(accepted[id]) \subseteq asset[id]) => telling = id \/ id \in told
      BY <1>2, <2>1, <2>3 DEF AgreeInv, MirrorInv, ClosureInv, Noted, Closures, Closure
    <3> QED BY <3>1, <3>2, <3>3
  <2> QED BY <2>2, <2>3
<1> QED BY <1>1, <1>2 DEF TakenInv, Taken, Driving, NeverRemoved

\* Every step keeps closures on their way.
LEMMA TakenStep == ChangeInv /\ AgreeInv /\ TakenInv /\ [Next]_vars => TakenInv'
<1> SUFFICES ASSUME ChangeInv, AgreeInv, TakenInv, [Next]_vars PROVE TakenInv'
  OBVIOUS
<1> USE DEF Driving, WritingBack
<1>0. PlaceInv /\ WorldInv /\ worldChanges \in Nat
  BY DEF ChangeInv, AgreeInv
<1>1. ASSUME UNCHANGED <<worldVars, frameVars, accepted, apart>>, live' \subseteq live PROVE TakenInv'
  BY <1>1, TakenKept DEF worldVars, frameVars, NeverRemoved, TakenInv
<1>2. CASE UNCHANGED vars
  BY <1>1, <1>2 DEF vars, mapVars, signalVars
<1>3. CASE \E h \in Hooks : Mount(h) \/ Retarget(h) \/ Unmount(h) \/ Receive(h) \/ Bind(h) \/ Mutate(h)
  BY <1>1, <1>3 DEF Mount, Retarget, Unmount, Receive, Bind, Mutate, mapVars, signalVars
<1>4. CASE Notify \/ EndFrame
  <2>1. CASE Notify
    BY <1>1, <2>1 DEF Notify, mapVars, signalVars
  <2>2. CASE EndFrame
    BY <2>2, TakenKept DEF EndFrame, worldVars, mapVars, signalVars, NeverRemoved
  <2> QED BY <1>4, <2>1, <2>2
<1>5. ASSUME NEW i \in Ids, World(i) PROVE TakenInv'
  <2>1. UNCHANGED <<frameVars, live, apart, accepted>>
    BY <1>5 DEF World, StartLoad, EndLoad, AddOrRemove, BevyWrite, mapVars, signalVars
  <2>2. ASSUME NEW id \in live \cap Ids, NeverRemoved(id)', IsOk(accepted[id])
        PROVE  NeverRemoved(id) /\ asset[id] \subseteq asset'[id]
    BY <1>0, <1>5, <2>2, WorldGrows DEF AgreeInv, MirrorInv, LoadInv
  <2> QED BY <2>1, <2>2, TakenKept DEF TakenInv, frameVars
<1>6. CASE StartFrame
  <2>1. /\ UNCHANGED <<worldVars, todo, apart>> /\ pc = "bevy" /\ pc' = "accumulate"
        /\ live' = live \cup NewMirrors
        /\ accepted' = [id \in Ids |-> IF id \in NewMirrors THEN Err("Fetching") ELSE accepted[id]]
    BY <1>6 DEF StartFrame
  <2>2. ~IsOk(Err("Fetching"))
    BY NothingIsNotOk DEF Errors
  <2> QED BY <2>1, <2>2, TakenKept DEF worldVars, NeverRemoved
<1>7. CASE SyncMirrorsToAssets
  <2>1. /\ UNCHANGED <<worldVars, live, apart, accepted>> /\ pc = "accumulate" /\ "write" \in todo'
    BY <1>7 DEF SyncMirrorsToAssets, mapVars, Due
  <2> QED BY <2>1, TakenKept DEF worldVars, NeverRemoved
<1>8. CASE CollectChangedIds \/ InitRequestedAssetMirrors \/ ApplyTrackingQueriesDelta \/ ClearFlags
  <2>1. /\ UNCHANGED <<worldVars, apart, accepted>> /\ live' \subseteq live
        /\ \/ pc' = pc /\ \A s \in {"drive", "write"} : s \in todo' <=> s \in todo
           \/ todo = {} /\ pc' = "accumulate"
    BY <1>8 DEF CollectChangedIds, InitRequestedAssetMirrors, ApplyTrackingQueriesDelta, ClearFlags,
         Posted, Runs, mapVars, signalVars
  <2> QED BY <2>1, TakenKept DEF worldVars, NeverRemoved, TakenInv
<1>9. ASSUME NEW deferred \in SUBSET readable, DriveMaybeAssets(deferred) PROVE TakenInv'
  <2>1. pc' = "sync" /\ "drive" \notin todo' /\ "write" \in todo'
    BY <1>9 DEF DriveMaybeAssets, Runs, TakenInv
  <2> QED BY <2>1 DEF TakenInv, Taken
<1> QED BY <1>0, <1>2, <1>3, <1>4, <1>5, <1>6, <1>7, <1>8, <1>9, WriteTakes
     DEF Next, Dioxus, Frame, WorldInv

\* A closure that a mirror took is in the asset by the end of the write-back of
\* that run while the mirror lives and the asset stays, unless publish and id fell
\* into different runs, for any hooks, ids and closures: the safe part of
\* MutationsArrive, with changes of bevy's at any time.
THEOREM TakenClosuresArrive == Spec => []TakenInv
BY HookInit, HookStep, ChangeInit, ChangeStep, AgreeInit, AgreeStep, TakenInit, TakenStep, PTL DEF Spec

\* A write-back, as every other step, keeps the writes that an asset contains.
LEMMA WritesStay ==
    ASSUME ChangeInv, AgreeInv, HookInv, Next, NEW id \in Ids,
           id \notin apart' \cup Untold, NeverRemoved(id)'
    PROVE  asset[id] \subseteq asset'[id]
<1>1. CASE asset' = asset
  BY <1>1
<1>2. ASSUME NEW i \in scenario.ids, World(i) PROVE asset[id] \subseteq asset'[id]
  BY <1>2, WorldGrows DEF ChangeInv, AgreeInv, WorldInv
<1>3. CASE SyncAssetsToMirrors
  <2>1. /\ UNCHANGED <<world, worldChanges>> /\ apart' = apart \cup Apart
        /\ pc = "sync" /\ "drive" \notin todo
        /\ asset'[id] = IF id \in WrittenBack THEN published[id].writes ELSE asset[id]
    BY <1>3 DEF SyncAssetsToMirrors, Posted, Runs
  <2>2. CASE id \in WrittenBack
    <3>1. id \in live \cap Ids /\ IsOk(accepted[id]) /\ accepted[id] = published[id]
      BY <2>1, <2>2 DEF WrittenBack, Apart, IsOk
    <3>2. ToldInv(id) /\ NeverRemoved(id) /\ ~Driving
      BY <2>1, <3>1 DEF AgreeInv, MirrorInv, NeverRemoved, Driving
    <3> QED BY <2>1, <2>2, <3>1, <3>2 DEF ToldInv
  <2> QED BY <2>1, <2>2
<1>4. CASE \E h \in Hooks : Mount(h) \/ Retarget(h) \/ Unmount(h) \/ Mutate(h)
  BY <1>1, <1>4 DEF Mount, Retarget, Unmount, Mutate, worldVars
<1>5. CASE Dioxus
  BY <1>1, <1>5 DEF Dioxus, Notify, Receive, Bind, worldVars
<1>6. CASE Frame
  <2>1. CASE ~SyncAssetsToMirrors
    BY <1>1, <1>6, <2>1 DEF Frame, StartFrame, EndFrame, SyncMirrorsToAssets, CollectChangedIds, DriveMaybeAssets,
         InitRequestedAssetMirrors, ApplyTrackingQueriesDelta, ClearFlags, worldVars
  <2> QED BY <1>3, <2>1
<1> QED BY <1>2, <1>4, <1>5, <1>6 DEF Next

\* No write, of bevy's or of a component's, leaves an asset that stays, but while
\* an event of its mirror is under way or lost, or publish and id fell apart.
KeepsWrites ==
    \A id \in Ids : asset[id] \subseteq asset'[id] \/ id \in apart' \cup Untold \/ ~NeverRemoved(id)'

ArrivedStay == [][KeepsWrites]_vars

\* Once written back, closures stay, as do the changes of bevy's that the mirror
\* was told of: no write-back, whichever reader deferred, undoes another.
THEOREM ArrivalsAreFinal == Spec => ArrivedStay
<1>1. HookInv /\ ChangeInv /\ AgreeInv /\ [Next]_vars => [KeepsWrites]_vars
  BY WritesStay DEF KeepsWrites
<1> QED BY <1>1, HookInit, HookStep, ChangeInit, ChangeStep, AgreeInit, AgreeStep, PTL DEF Spec, ArrivedStay

----------------------------------------------------------------------------
(* No hook and no loaded asset is forgotten                                 *)

\* A hook whose task has received its memo's newest id shows that id or asks for
\* it; one that asks has its request in the channel, or the answer.
Served(h) ==
    /\ h \in mounted \ unread => want[h] = IF asking[h] = NoId THEN req[h] ELSE asking[h]
    /\ asking[h] # NoId => requests[h] = asking[h] \/ answer[h] # 0

ServedInv == \A h \in Hooks : Served(h)

\* No hook is mounted at first, and none asks.
LEMMA ServedInit == Init => ServedInv
BY DEF Init, ServedInv, Served

\* Steps that leave the hooks and their requests alone.
LEMMA ServedElsewhere ==
    ASSUME ServedInv, UNCHANGED <<mounted, unread, want, asking, req, requests, answer>>
    PROVE  ServedInv'
BY DEF ServedInv, Served

\* What a hook does is about itself, and leaves it served.
LEMMA ServedSteps ==
    ASSUME HookInv, ServedInv, NEW h \in Hooks,
           Mount(h) \/ Retarget(h) \/ Receive(h) \/ Bind(h) \/ Unmount(h)
    PROVE  ServedInv'
<1> USE DEF HookInv, HookTypes, AskingInv, HookRuns
<1>1. CASE Mount(h)
  BY <1>1 DEF Mount, ServedInv, Served
<1>2. CASE Retarget(h)
  BY <1>2 DEF Retarget, ServedInv, Served
<1>3. CASE Receive(h)
  <2>1. /\ UNCHANGED <<mounted, want, answer>> /\ unread' = unread \ {h} /\ asking[h] = NoId
        /\ answer[h] = 0 /\ requests[h] = requests[h]
    BY <1>3 DEF Receive
  <2>2. ASSUME NEW g \in Hooks, g # h PROVE Served(g)'
    BY <1>3, <2>1, <2>2 DEF Receive, ServedInv, Served
  <2>3. Served(h)'
    BY <1>3, <2>1 DEF Receive, Served
  <2> QED BY <2>2, <2>3 DEF ServedInv
<1>4. CASE Bind(h)
  <2>1. asking[h] # NoId /\ req[h] = NoId
    BY <1>4 DEF Bind
  <2> QED BY <1>4, <2>1 DEF Bind, ServedInv, Served
<1>5. CASE Unmount(h)
  BY <1>5 DEF Unmount, ServedInv, Served
<1> QED BY <1>1, <1>2, <1>3, <1>4, <1>5

\* The start of a frame answers every request of a hook that still asks.
LEMMA ServedFrame ==
    ASSUME HookInv, ServedInv, StartFrame
    PROVE  ServedInv'
<1>1. /\ UNCHANGED <<mounted, unread, want, asking, req>> /\ live' = live \cup NewMirrors
      /\ answer' = [h \in Hooks |-> IF Answered(h) THEN made'[requests[h]] ELSE answer[h]]
  BY DEF StartFrame
<1>2. HookInv'
  BY HookFrame
<1>3. ASSUME NEW h \in Hooks, asking[h] # NoId PROVE answer'[h] # 0
  <2>1. CASE Answered(h)
    <3>1. requests[h] \in live'
      BY <1>1, <2>1 DEF Answered, NewMirrors, Requested
    <3>2. made'[requests[h]] \in Nat /\ made'[requests[h]] > 0
      BY <1>2, <3>1 DEF HookInv, HookTypes
    <3> QED BY <1>1, <2>1, <3>2
  <2>2. CASE ~Answered(h)
    <3>1. answer[h] # 0
      BY <1>3, <2>2 DEF Answered, ServedInv, Served
    <3> QED BY <1>1, <2>2, <3>1
  <2> QED BY <2>1, <2>2
<1> QED BY <1>1, <1>3 DEF ServedInv, Served

\* So does every step.
LEMMA ServedStep == HookInv /\ ServedInv /\ [Next]_vars => ServedInv'
<1> SUFFICES ASSUME HookInv, ServedInv, [Next]_vars PROVE ServedInv'
  OBVIOUS
<1> USE DEF hookVars
<1>1. CASE UNCHANGED vars
  BY <1>1, ServedElsewhere DEF vars
<1>2. CASE \E h \in Hooks : Mount(h) \/ Retarget(h) \/ Receive(h) \/ Bind(h) \/ Unmount(h)
  BY <1>2, ServedSteps
<1>3. CASE \E h \in Hooks : Mutate(h)
  BY <1>3, ServedElsewhere DEF Mutate
<1>4. CASE Notify \/ \E id \in scenario.ids : World(id)
  BY <1>4, ServedElsewhere DEF Notify, World, StartLoad, EndLoad, AddOrRemove, BevyWrite
<1>5. CASE StartFrame
  BY <1>5, ServedFrame
<1>6. CASE EndFrame \/ SyncMirrorsToAssets \/ CollectChangedIds \/ InitRequestedAssetMirrors
           \/ SyncAssetsToMirrors \/ ApplyTrackingQueriesDelta \/ ClearFlags
           \/ \E deferred \in SUBSET readable : DriveMaybeAssets(deferred)
  <2>1. UNCHANGED <<hookVars, requests>>
    BY <1>6 DEF EndFrame, SyncMirrorsToAssets, CollectChangedIds, InitRequestedAssetMirrors,
         SyncAssetsToMirrors, ApplyTrackingQueriesDelta, ClearFlags, DriveMaybeAssets
  <2> QED BY <2>1, ServedElsewhere
<1> QED BY <1>1, <1>2, <1>3, <1>4, <1>5, <1>6 DEF Next, Dioxus, Frame

\* However ids change, hooks unmount and frames fall, no hook waits for what
\* nobody is to send it, for any hooks and ids: the safe part of EventuallyBound.
THEOREM HooksAreServed == Spec => []ServedInv
BY HookInit, HookStep, ServedInit, ServedStep, PTL DEF Spec

\* The initialization of a new mirror is to come.
Initializing(id) == id \in init /\ (pc = "sync" => "init" \in todo)

\* A mirror of a loaded asset has an event to read or its initialization to come,
\* is sent the asset, or took it.
Reached(id) ==
    world[id] = "Loaded" =>
      \/ id \in unsent \cup recent \cup old
      \/ Initializing(id) \/ IsOk(sent[id])
      \/ sent[id] = Nothing /\ IsOk(accepted[id])

ReachedInv == \A id \in (live \cap Ids) \ expired : Reached(id)

\* No mirror is in the map at first.
LEMMA ReachedInit == Init => ReachedInv
BY DEF Init, ReachedInv

\* Steps that leave the mirrors and their events alone.
LEMMA ReachedElsewhere ==
    ASSUME ReachedInv, live' \subseteq live,
           UNCHANGED <<unsent, recent, old, expired, init, sent, accepted>>,
           \A id \in Ids : world'[id] = "Loaded" => world[id] = "Loaded",
           \A id \in Ids : Initializing(id) => Initializing(id)'
    PROVE  ReachedInv'
BY DEF ReachedInv, Reached

\* Every step keeps a mirror within reach of its loaded asset.
LEMMA ReachedStep ==
    HookInv /\ ChangeInv /\ ReachedInv /\ [Next]_vars => ReachedInv'
<1> SUFFICES ASSUME HookInv, ChangeInv, ReachedInv, [Next]_vars PROVE ReachedInv'
  OBVIOUS
<1> USE DEF Initializing
<1>0. WorldInv
  BY DEF ChangeInv
<1>1. ASSUME UNCHANGED <<world, eventVars, frameVars, mapVars, signalVars>> PROVE ReachedInv'
  BY <1>1, ReachedElsewhere DEF eventVars, frameVars, mapVars, signalVars
<1>2. CASE UNCHANGED vars
  BY <1>1, <1>2 DEF vars, worldVars
<1>3. CASE Notify \/ \E h \in Hooks : \/ Mount(h) \/ Retarget(h) \/ Unmount(h) \/ Receive(h) \/ Bind(h)
                                      \/ Mutate(h)
  BY <1>1, <1>3 DEF Notify, Mount, Retarget, Unmount, Receive, Bind, Mutate, worldVars
<1>4. ASSUME NEW i \in Ids, World(i) PROVE ReachedInv'
  <2>1. /\ UNCHANGED <<frameVars, mapVars, signalVars, recent, old, expired>> /\ unsent \subseteq unsent'
    BY <1>4 DEF World, StartLoad, EndLoad, AddOrRemove, BevyWrite, eventVars
  <2>2. \A id \in Ids : world'[id] = "Loaded" => world[id] = "Loaded" \/ id \in unsent'
    BY <1>0, <1>4 DEF World, StartLoad, EndLoad, AddOrRemove, BevyWrite, WorldInv
  <2> QED BY <2>1, <2>2 DEF ReachedInv, Reached, frameVars, mapVars, signalVars
<1>5. CASE StartFrame
  <2>1. /\ UNCHANGED world /\ pc' = "accumulate" /\ live' = live \cup NewMirrors /\ init' = init \cup NewMirrors
        /\ pc = "bevy"
        /\ sent' = [id \in Ids |-> IF id \in NewMirrors THEN Nothing ELSE sent[id]]
        /\ accepted' = [id \in Ids |-> IF id \in NewMirrors THEN Err("Fetching") ELSE accepted[id]]
    BY <1>5 DEF StartFrame, worldVars
  <2>2. expired \subseteq expired' /\ unsent \cup recent \cup old \subseteq unsent' \cup recent' \cup old' \cup expired'
    BY <1>5 DEF StartFrame
  <2>3. ASSUME NEW id \in (live' \cap Ids) \ expired', id \notin NewMirrors PROVE Reached(id)'
    <3>1. Reached(id) /\ sent'[id] = sent[id] /\ accepted'[id] = accepted[id]
      BY <2>1, <2>2, <2>3 DEF ReachedInv
    <3> QED BY <2>1, <2>2, <2>3, <3>1 DEF Reached
  <2>4. ASSUME NEW id \in NewMirrors PROVE Reached(id)'
    BY <2>1, <2>4 DEF Reached
  <2> QED BY <2>3, <2>4 DEF ReachedInv
<1>6. CASE EndFrame
  <2>1. /\ UNCHANGED <<world, mapVars, signalVars, expired>> /\ pc' = "bevy"
        /\ unsent' \cup recent' \cup old' = unsent \cup recent \cup old
    BY <1>6 DEF EndFrame, worldVars
  <2>2. pc = "accumulate"
    BY <1>6 DEF EndFrame
  <2> QED BY <2>1, <2>2 DEF ReachedInv, Reached, mapVars, signalVars
<1>7. CASE SyncMirrorsToAssets
  <2>1. /\ UNCHANGED <<world, unsent, expired, live, init, accepted>> /\ changed = {} /\ todo' = Due
        /\ pc = "accumulate" /\ recent' = {} /\ old' = {}
        /\ sent' = [id \in Ids |-> IF id \in (Unread \cap live) \ changed /\ Present(id)
                                   THEN Ok(asset[id]) ELSE sent[id]]
    BY <1>7 DEF SyncMirrorsToAssets, ChangeInv, PlaceInv, worldVars, mapVars
  <2>2. ASSUME NEW id \in (live \cap Ids) \ expired, world[id] = "Loaded" PROVE Reached(id)'
    <3>1. CASE id \in Unread
      <4>1. sent'[id] = Ok(asset[id])
        BY <2>1, <2>2, <3>1 DEF Present
      <4> QED BY <4>1, OkIsOk DEF Reached
    <3>2. CASE id \notin Unread
      <4>1. sent'[id] = sent[id] /\ Reached(id)
        BY <2>1, <2>2, <3>2 DEF ReachedInv
      <4>2. Initializing(id) => Initializing(id)'
        BY <2>1 DEF Due
      <4> QED BY <2>1, <2>2, <3>2, <4>1, <4>2 DEF Reached, Unread
    <3> QED BY <3>1, <3>2
  <2> QED BY <2>1, <2>2 DEF ReachedInv, Reached
<1>8. CASE CollectChangedIds \/ SyncAssetsToMirrors \/ ApplyTrackingQueriesDelta
  <2>1. /\ UNCHANGED <<world, recent, old, expired, init, sent, accepted, pc>> /\ live' \subseteq live
        /\ unsent \subseteq unsent' /\ ("init" \in todo => "init" \in todo')
    BY <1>8 DEF CollectChangedIds, SyncAssetsToMirrors, ApplyTrackingQueriesDelta, Posted, Runs,
         worldVars, eventVars, mapVars, signalVars
  <2> QED BY <2>1 DEF ReachedInv, Reached
<1>9. ASSUME NEW deferred \in SUBSET readable, DriveMaybeAssets(deferred) PROVE ReachedInv'
  <2>1. /\ UNCHANGED <<world, eventVars, mapVars, pc>> /\ ("init" \in todo => "init" \in todo')
        /\ \A id \in live \cap Ids : sent'[id] = Nothing /\ accepted'[id] = Drained(id)
    BY <1>9 DEF DriveMaybeAssets, Runs, worldVars
  <2>2. ASSUME NEW id \in live \cap Ids, IsOk(sent[id]) \/ (sent[id] = Nothing /\ IsOk(accepted[id]))
        PROVE  IsOk(Drained(id))
    <3> DEFINE base == IF sent[id] = Nothing THEN accepted[id] ELSE sent[id]
    <3>1. IsOk(base)
      BY <2>2, NothingIsNotOk
    <3> HIDE DEF base
    <3>2. IsOk(Applied(base, id))
      BY <3>1, OkIsOk DEF Applied, IsOk
    <3> QED BY <3>2 DEF Drained, base
  <2> QED BY <2>1, <2>2 DEF ReachedInv, Reached, eventVars, mapVars
<1>10. CASE InitRequestedAssetMirrors
  <2>1. /\ UNCHANGED <<world, eventVars, mapVars, accepted, pc>>
        /\ sent' = [id \in Ids |-> IF id \in init \cap live THEN Fetch(id) ELSE sent[id]]
    BY <1>10 DEF InitRequestedAssetMirrors, Posted, Runs, worldVars
  <2>2. ASSUME NEW id \in (live \cap Ids) \ expired PROVE Reached(id)'
    <3>1. CASE id \in init /\ world[id] = "Loaded"
      <4>1. sent'[id] = Ok(asset[id])
        BY <2>1, <2>2, <3>1 DEF Fetch, Present
      <4> QED BY <4>1, OkIsOk DEF Reached
    <3>2. CASE id \notin init
      <4>1. sent'[id] = sent[id]
        BY <2>1, <2>2, <3>2
      <4> QED BY <2>1, <2>2, <3>2, <4>1 DEF ReachedInv, Reached, eventVars, mapVars
    <3> QED BY <2>1, <3>1, <3>2 DEF Reached
  <2> QED BY <2>1, <2>2 DEF ReachedInv, eventVars, mapVars
<1>11. CASE ClearFlags
  <2>1. /\ UNCHANGED <<world, eventVars, live, signalVars>> /\ pc = "sync" /\ todo = {}
    BY <1>11 DEF ClearFlags, worldVars
  <2> QED BY <2>1 DEF ReachedInv, Reached, eventVars, signalVars
<1> QED BY <1>0, <1>2, <1>3, <1>4, <1>5, <1>6, <1>7, <1>8, <1>9, <1>10, <1>11
     DEF Next, Dioxus, Frame, WorldInv

\* Whether an asset is loaded before or after its mirror is made, and whatever is
\* in between, the mirror has it, or it is under way, if bevy drops no event unread, for any
\* ids, hooks and loads: the safe part of EventuallyShown.
THEOREM LoadedAreReached == Spec => []ReachedInv
BY HookInit, HookStep, ChangeInit, ChangeStep, ReachedInit, ReachedStep, PTL DEF Spec
=============================================================================
