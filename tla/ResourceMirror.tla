--------------------------- MODULE ResourceMirror ---------------------------
(***************************************************************************)
(* A bevy resource and its mirror: resource/mod.rs, with the command       *)
(* channel of lib.rs and the frame of schedules.rs.  Hooks request the     *)
(* mirror with a command; in every run of the sync schedules bevy's value  *)
(* is sent to the mirror if it changed, the mirror is ticked, and what it  *)
(* published is written back to the resource.                              *)
(*                                                                         *)
(* A value is the sequence of the writes that made it, from the last       *)
(* replacement on.  The signal is what SnapshotLog says a QueuedSignal is: *)
(* an accepted value, and a published one that catches up unless a tick    *)
(* defers its publish.  mutate and mutate_set are both closures here.      *)
(***************************************************************************)
EXTENDS Naturals, Sequences, FiniteSets

LOCAL INSTANCE SequencesExt

CONSTANTS
    Hooks,      \* components that call use_bevy_resource
    MaxBevy,    \* how many times bevy systems change the resource
    MaxSet,     \* how many times components call set_value
    MaxMutate   \* how many times components call mutate or mutate_set

ASSUME ResourceAssumption ==
    IsFiniteSet(Hooks) /\ MaxBevy \in Nat /\ MaxSet \in Nat /\ MaxMutate \in Nat

Write == {"bevy", "set", "mutate"} \X Nat

Value == Seq(Write)

VARIABLES
    exists,      \* the resource has been inserted
    res,         \* its value
    changed,     \* it changed since resource_changed was last evaluated
    bevyWrites, setWrites, mutateWrites,   \* writes so far
    pc,          \* where the frame is
    commands,    \* the command channel: the hooks that request the mirror
    batch,       \* the requests that this frame applies
    mirrors,     \* how many mirrors were ever created; the last one is in use
    setQueue,    \* the mirror's set_value channel
    mutateQueue, \* the mirror's closure channels
    accepted,    \* its value with all that ticks have drained
    published,   \* its published value
    pending,     \* something was drained since the last publish
    version,     \* publishes so far
    lastVersion, \* the last_version of sync_resource_to_mirror
    hook,        \* hook[h]: what use_bevy_resource is doing in h
    writer       \* writer[h]: the mirror that h was given, 0 if none

worldVars  == <<exists, res, changed, bevyWrites>>
frameVars  == <<pc, lastVersion>>
requestVars == <<commands, batch, hook, writer>>
queueVars  == <<setQueue, mutateQueue, setWrites, mutateWrites>>
signalVars == <<mirrors, accepted, published, pending, version>>
vars == <<worldVars, frameVars, requestVars, queueVars, signalVars>>

TypeOK ==
    /\ exists \in BOOLEAN /\ res \in Value /\ changed \in BOOLEAN
    /\ bevyWrites \in 0..MaxBevy /\ setWrites \in 0..MaxSet /\ mutateWrites \in 0..MaxMutate
    /\ pc \in {"bevy", "commands", "accumulate", "preUpdate", "drainSets", "drainClosures",
               "publish", "postUpdate"}
    /\ commands \in Seq(Hooks) /\ batch \in Seq(Hooks)
    /\ mirrors \in 0..1
    /\ setQueue \in Seq(Value) /\ mutateQueue \in Seq(Write)
    /\ accepted \in Value /\ published \in Value /\ pending \in BOOLEAN
    /\ version \in Nat /\ lastVersion \in 0..version
    /\ hook \in [Hooks -> {"off", "waiting", "failed", "ready"}]
    /\ writer \in [Hooks -> 0..mirrors]

Init ==
    /\ exists \in BOOLEAN /\ res = <<>> /\ changed = FALSE
    /\ bevyWrites = 0 /\ setWrites = 0 /\ mutateWrites = 0
    /\ pc = "bevy"
    /\ commands = <<>> /\ batch = <<>>
    /\ mirrors = 0 /\ setQueue = <<>> /\ mutateQueue = <<>>
    /\ accepted = <<>> /\ published = <<>> /\ pending = FALSE
    /\ version = 0 /\ lastVersion = 0
    /\ hook = [h \in Hooks |-> "off"] /\ writer = [h \in Hooks |-> 0]

----------------------------------------------------------------------------
(* Components, at any time                                                 *)

\* use_bevy_resource: its future sends the request once.
Request(h) ==
    /\ hook[h] = "off"
    /\ hook' = [hook EXCEPT ![h] = "waiting"]
    /\ commands' = Append(commands, h)
    /\ UNCHANGED <<worldVars, frameVars, batch, writer, queueVars, signalVars>>

\* Writes go to the mirror the hook was given; without one they are dropped.
InUse(h) == hook[h] = "ready" /\ writer[h] = mirrors

SetValue(h) ==
    /\ InUse(h) /\ setWrites < MaxSet
    /\ setWrites' = setWrites + 1
    /\ setQueue' = Append(setQueue, << <<"set", setWrites + 1>> >>)
    /\ UNCHANGED <<worldVars, frameVars, requestVars, mutateQueue, mutateWrites, signalVars>>

Mutate(h) ==
    /\ InUse(h) /\ mutateWrites < MaxMutate
    /\ mutateWrites' = mutateWrites + 1
    /\ mutateQueue' = Append(mutateQueue, <<"mutate", mutateWrites + 1>>)
    /\ UNCHANGED <<worldVars, frameVars, requestVars, setQueue, setWrites, signalVars>>

----------------------------------------------------------------------------
(* The bevy world                                                          *)

InsertResource ==
    /\ pc = "bevy" /\ ~exists
    /\ exists' = TRUE /\ changed' = TRUE
    /\ UNCHANGED <<res, bevyWrites, frameVars, requestVars, queueVars, signalVars>>

\* A system of the application changes the resource in place.
BevyWrite ==
    /\ pc = "bevy" /\ exists /\ bevyWrites < MaxBevy
    /\ bevyWrites' = bevyWrites + 1
    /\ res' = Append(res, <<"bevy", bevyWrites + 1>>)
    /\ changed' = TRUE
    /\ UNCHANGED <<exists, frameVars, requestVars, queueVars, signalVars>>

\* run_dioxus_sync_main empties the command channel ...
StartFrame ==
    /\ pc = "bevy" /\ pc' = "commands"
    /\ batch' = commands /\ commands' = <<>>
    /\ UNCHANGED <<worldVars, lastVersion, hook, writer, queueVars, signalVars>>

\* Mutant: every request makes a mirror.
Always == exists

NoMirror == mirrors = 0

\* ... and applies the requests: a mirror that exists is handed out.  The
\* first one is made from the resource, whose systems are new to the schedule,
\* so that they see it as changed; without a resource the response is dropped.
ApplyRequest ==
    /\ pc = "commands" /\ batch # <<>>
    /\ batch' = Tail(batch)
    /\ \/ /\ NoMirror /\ exists
          /\ mirrors' = mirrors + 1
          /\ accepted' = res /\ published' = res
          /\ setQueue' = <<>> /\ mutateQueue' = <<>>
          /\ changed' = TRUE
       \/ /\ ~(NoMirror /\ exists)
          /\ UNCHANGED <<mirrors, accepted, published, setQueue, mutateQueue, changed>>
    /\ hook' = [hook EXCEPT ![Head(batch)] = IF mirrors' = 0 THEN "failed" ELSE "ready"]
    /\ writer' = [writer EXCEPT ![Head(batch)] = mirrors']
    /\ UNCHANGED <<exists, res, bevyWrites, frameVars, commands, setWrites, mutateWrites,
                   pending, version>>

\* The accumulated time decides whether the sync schedules run, once more;
\* without a mirror there is nothing in them.
RunSchedules ==
    /\ \/ pc = "commands" /\ batch = <<>>
       \/ pc = "accumulate"
    /\ mirrors # 0
    /\ pc' = "preUpdate"
    /\ UNCHANGED <<worldVars, lastVersion, requestVars, queueVars, signalVars>>

EndFrame ==
    /\ \/ pc = "commands" /\ batch = <<>>
       \/ pc = "accumulate"
    /\ pc' = "bevy"
    /\ UNCHANGED <<worldVars, lastVersion, requestVars, queueVars, signalVars>>

\* sync_mirror_to_resource.run_if(resource_changed)
SyncMirrorToResource ==
    /\ pc = "preUpdate" /\ pc' = "drainSets"
    /\ changed' = FALSE
    /\ setQueue' = IF changed THEN Append(setQueue, res) ELSE setQueue
    /\ UNCHANGED <<exists, res, bevyWrites, lastVersion, requestVars, mutateQueue,
                   setWrites, mutateWrites, signalVars>>

\* drive_signal: tick drains set_value first ...
DrainSets ==
    /\ pc = "drainSets" /\ pc' = "drainClosures"
    /\ accepted' = IF setQueue = <<>> THEN accepted ELSE Last(setQueue)
    /\ pending' = (pending \/ setQueue # <<>>)
    /\ setQueue' = <<>>
    /\ UNCHANGED <<worldVars, lastVersion, requestVars, mutateQueue, setWrites,
                   mutateWrites, mirrors, published, version>>

\* ... and the closures afterwards.
DrainClosures ==
    /\ pc = "drainClosures" /\ pc' = "publish"
    /\ accepted' = accepted \o mutateQueue
    /\ pending' = (pending \/ mutateQueue # <<>>)
    /\ mutateQueue' = <<>>
    /\ UNCHANGED <<worldVars, lastVersion, requestVars, setQueue, setWrites,
                   mutateWrites, mirrors, published, version>>

Publish ==
    /\ pc = "publish" /\ pc' = "postUpdate"
    /\ pending /\ pending' = FALSE
    /\ published' = accepted /\ version' = version + 1
    /\ UNCHANGED <<worldVars, lastVersion, requestVars, queueVars, mirrors, accepted>>

\* A component keeps the Arc of the write buffer, which nobody can before the
\* first publish, or there is nothing to publish.
Defer ==
    /\ pc = "publish" /\ pc' = "postUpdate"
    /\ pending => version # 0
    /\ UNCHANGED <<worldVars, lastVersion, requestVars, queueVars, signalVars>>

\* Mutant: the mirror is written back in every run.
EveryRun == TRUE

\* Mutant: off by one.
OneBehind == version > lastVersion + 1

NewVersion == version # lastVersion

\* Mutant: writing back triggers change detection.
Detected == TRUE

\* bypass_change_detection
Bypassed == changed

\* sync_resource_to_mirror
SyncResourceToMirror ==
    /\ pc = "postUpdate" /\ pc' = "accumulate"
    /\ \/ /\ NewVersion
          /\ lastVersion' = version
          /\ res' = published
          /\ changed' = Bypassed
       \/ /\ ~NewVersion
          /\ UNCHANGED <<lastVersion, res, changed>>
    /\ UNCHANGED <<exists, bevyWrites, requestVars, queueVars, signalVars>>

----------------------------------------------------------------------------
Sync ==
    \/ SyncMirrorToResource \/ DrainSets \/ DrainClosures
    \/ Publish \/ Defer \/ SyncResourceToMirror

Frame == StartFrame \/ ApplyRequest \/ RunSchedules \/ EndFrame \/ Sync

Next ==
    \/ \E h \in Hooks : Request(h) \/ SetValue(h) \/ Mutate(h)
    \/ InsertResource \/ BevyWrite
    \/ Frame

Spec == Init /\ [][Next]_vars

\* Frames follow each other, virtual time advances, and no component defers
\* publishing for ever (QueuedSignal!DeferralEnds).
FairSpec == Spec /\ WF_vars(Frame) /\ SF_vars(RunSchedules) /\ SF_vars(Publish)

----------------------------------------------------------------------------
(* What a mirror promises.                                                 *)

\* A change by a bevy system is never undone by an older value of the mirror
\* coming back, through deferred publishes and components' closures: only a
\* component that replaces the whole value can take it away.
BevyChangesKept ==
    setWrites = 0 => \A n \in 1..bevyWrites : Contains(res, <<"bevy", n>>)

\* Between frames, a resource and a mirror that have nothing to tell each
\* other hold the same value.
Converged ==
    pc = "bevy" /\ mirrors # 0 /\ ~changed /\ setQueue = <<>> /\ ~pending => res = published

\* The two directions do not feed each other: every publish but the first,
\* which the new systems cause, carries a write of bevy's or of a component's.
NoEcho == version <= bevyWrites + setWrites + mutateWrites + 1

\* A component's closure reaches the resource, unless a replacement is sent.
MutationsArrive ==
    \A n \in 1..MaxMutate :
        mutateWrites >= n
          ~> (Contains(res, <<"mutate", n>>) \/ bevyWrites > 0 \/ setWrites > 0)
=============================================================================
