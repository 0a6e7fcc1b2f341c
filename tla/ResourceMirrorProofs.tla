------------------------ MODULE ResourceMirrorProofs ------------------------
(***************************************************************************)
(* Theorems about ResourceMirror, for any hooks and any bounds: its types,  *)
(* that bevy's changes are kept, that both sides agree when nothing is      *)
(* under way, that the two directions do not feed each other, and that      *)
(* closures are neither lost nor undone.                                    *)
(***************************************************************************)
EXTENDS ResourceMirror, TLAPS

LOCAL INSTANCE SequencesExt

USE ResourceAssumption

----------------------------------------------------------------------------
(* Types                                                                   *)

\* The types of the variables are correct at first, and after every step.
LEMMA TypeInit == Init => TypeOK
<1> SUFFICES ASSUME Init PROVE TypeOK
  OBVIOUS
<1>1. /\ <<>> \in Seq(Write) /\ <<>> \in Seq(Value) /\ <<>> \in Seq(Hooks)
      /\ 0 \in 0..MaxBevy /\ 0 \in 0..MaxSet /\ 0 \in 0..MaxMutate
  OBVIOUS
<1>2. exists \in BOOLEAN /\ changed \in BOOLEAN /\ pending \in BOOLEAN
  BY Zenon DEF Init
<1> QED
  BY <1>1, <1>2 DEF Init, TypeOK, Value

\* Every step keeps the types.
LEMMA TypeStep == TypeOK /\ [Next]_vars => TypeOK'
<1> SUFFICES ASSUME TypeOK, [Next]_vars PROVE TypeOK'
  OBVIOUS
<1> USE DEF TypeOK, Value, Write
<1>1. ASSUME NEW h \in Hooks, Request(h) PROVE TypeOK'
  BY <1>1 DEF Request, worldVars, frameVars, queueVars, signalVars
<1>2. ASSUME NEW h \in Hooks, SetValue(h) PROVE TypeOK'
  <2>1. << <<"set", setWrites + 1>> >> \in Seq(Write)
    OBVIOUS
  <2>2. setQueue' \in Seq(Value)
    BY <1>2, <2>1 DEF SetValue
  <2> QED
    BY <1>2, <2>2 DEF SetValue, worldVars, frameVars, requestVars, signalVars
<1>3. ASSUME NEW h \in Hooks, Mutate(h) PROVE TypeOK'
  BY <1>3 DEF Mutate, worldVars, frameVars, requestVars, signalVars
<1>4. CASE InsertResource
  BY <1>4 DEF InsertResource, frameVars, requestVars, queueVars, signalVars
<1>5. CASE BevyWrite
  BY <1>5 DEF BevyWrite, frameVars, requestVars, queueVars, signalVars
<1>6. CASE StartFrame
  BY <1>6 DEF StartFrame, worldVars, queueVars, signalVars
<1>7. CASE ApplyRequest
  <2>1. Head(batch) \in Hooks /\ batch' \in Seq(Hooks)
    BY <1>7 DEF ApplyRequest
  <2>2. mirrors' \in 0..1 /\ mirrors <= mirrors'
    BY <1>7 DEF ApplyRequest, NoMirror
  <2>3. /\ accepted' \in Value /\ published' \in Value /\ changed' \in BOOLEAN
        /\ setQueue' \in Seq(Value) /\ mutateQueue' \in Seq(Write)
    <3>1. changed' \in BOOLEAN
      BY <1>7, Zenon DEF ApplyRequest
    <3>2. <<>> \in Seq(Write) /\ <<>> \in Seq(Value)
      OBVIOUS
    <3>3. setQueue' \in {<<>>, setQueue} /\ mutateQueue' \in {<<>>, mutateQueue}
      BY <1>7 DEF ApplyRequest
    <3>4. accepted' \in {res, accepted} /\ published' \in {res, published}
      BY <1>7 DEF ApplyRequest
    <3> QED
      BY <3>1, <3>2, <3>3, <3>4
  <2>4. hook' \in [Hooks -> {"off", "waiting", "failed", "ready"}]
    BY <1>7, <2>1 DEF ApplyRequest
  <2>5. writer' \in [Hooks -> 0..mirrors']
    BY <1>7, <2>1, <2>2 DEF ApplyRequest
  <2> QED
    BY <1>7, <2>1, <2>2, <2>3, <2>4, <2>5 DEF ApplyRequest, frameVars
<1>8. CASE RunSchedules
  BY <1>8 DEF RunSchedules, worldVars, requestVars, queueVars, signalVars
<1>9. CASE EndFrame
  BY <1>9 DEF EndFrame, worldVars, requestVars, queueVars, signalVars
<1>10. CASE SyncMirrorToResource
  <2>1. changed' \in BOOLEAN
    BY <1>10, Zenon DEF SyncMirrorToResource
  <2> QED
    BY <1>10, <2>1 DEF SyncMirrorToResource, requestVars, signalVars
<1>11. CASE DrainSets
  <2>1. setQueue # <<>> => Last(setQueue) \in Value
    BY DEF Last
  <2>2. setQueue' \in Seq(Value) /\ accepted' \in Value /\ pending' \in BOOLEAN
    BY <1>11, <2>1 DEF DrainSets
  <2> QED
    BY <1>11, <2>2 DEF DrainSets, worldVars, requestVars
<1>12. CASE DrainClosures
  BY <1>12 DEF DrainClosures, worldVars, requestVars
<1>13. CASE Publish
  <2>1. pending' \in BOOLEAN
    BY <1>13, Zenon DEF Publish
  <2> QED
    BY <1>13, <2>1 DEF Publish, worldVars, requestVars, queueVars
<1>14. CASE Defer
  BY <1>14 DEF Defer, worldVars, requestVars, queueVars, signalVars
<1>15. CASE SyncResourceToMirror
  BY <1>15 DEF SyncResourceToMirror, NewVersion, Bypassed, requestVars, queueVars, signalVars
<1>16. CASE UNCHANGED vars
  BY <1>16 DEF vars, worldVars, frameVars, requestVars, queueVars, signalVars
<1> QED
  BY <1>1, <1>2, <1>3, <1>4, <1>5, <1>6, <1>7, <1>8, <1>9, <1>10, <1>11, <1>12, <1>13,
     <1>14, <1>15, <1>16 DEF Next, Frame, Sync

\* Every variable of the mirror stays within its type.
THEOREM TypesCorrect == Spec => []TypeOK
BY TypeInit, TypeStep, PTL DEF Spec

----------------------------------------------------------------------------
(* Bevy's changes                                                          *)

\* v contains every change that bevy has made.
Kept(v) == \A n \in 1..bevyWrites : Contains(v, <<"bevy", n>>)

\* Between the write-back of one run and the read of the next.
Idle == {"bevy", "commands", "accumulate", "preUpdate"}

\* Without a mirror no run takes place; within one nothing changes the resource
\* before the write-back, and what that has to write back is all that was accepted.
FrameInv ==
    /\ mirrors = 0 => pc \in {"bevy", "commands", "accumulate"}
    /\ pc \notin Idle => ~changed
    /\ version # lastVersion => pc = "postUpdate" /\ published = accepted

\* Unless a component replaces the value, bevy's changes are in the resource, in
\* what was sent to the mirror, and, once it is drained, in what it accepted.
KeptInv ==
    setWrites = 0 =>
      /\ Kept(res)
      /\ \A i \in DOMAIN setQueue : Kept(setQueue[i])
      /\ pc # "drainSets" => setQueue = <<>>
      /\ pc = "drainSets" /\ setQueue = <<>> => Kept(accepted)
      /\ pc # "drainSets" /\ mirrors # 0 /\ ~changed => Kept(accepted)

BevyInv == TypeOK /\ FrameInv /\ KeptInv

\* Every step keeps what is known of each place of the frame.
LEMMA FrameStep == TypeOK /\ FrameInv /\ [Next]_vars => FrameInv'
<1> SUFFICES ASSUME TypeOK, FrameInv, [Next]_vars PROVE FrameInv'
  OBVIOUS
<1> USE DEF FrameInv, Idle
<1>1. ASSUME NEW h \in Hooks, Request(h) \/ SetValue(h) \/ Mutate(h) PROVE FrameInv'
  BY <1>1 DEF Request, SetValue, Mutate, worldVars, frameVars, signalVars
<1>2. CASE InsertResource \/ BevyWrite
  BY <1>2 DEF InsertResource, BevyWrite, frameVars, signalVars
<1>3. CASE StartFrame
  BY <1>3 DEF StartFrame, worldVars, signalVars
<1>4. CASE ApplyRequest
  BY <1>4 DEF ApplyRequest, NoMirror, frameVars
<1>5. CASE RunSchedules \/ EndFrame
  BY <1>5 DEF RunSchedules, EndFrame, worldVars, signalVars
<1>6. CASE SyncMirrorToResource
  BY <1>6 DEF SyncMirrorToResource, signalVars
<1>7. CASE DrainSets \/ DrainClosures
  BY <1>7 DEF DrainSets, DrainClosures, worldVars
<1>8. CASE Publish
  BY <1>8 DEF Publish, worldVars
<1>9. CASE Defer
  BY <1>9 DEF Defer, worldVars, signalVars
<1>10. CASE SyncResourceToMirror
  BY <1>10 DEF SyncResourceToMirror, NewVersion, Bypassed, signalVars
<1>11. CASE UNCHANGED vars
  BY <1>11 DEF vars, worldVars, frameVars, signalVars
<1> QED
  BY <1>1, <1>2, <1>3, <1>4, <1>5, <1>6, <1>7, <1>8, <1>9, <1>10, <1>11 DEF Next, Frame, Sync

\* A value that is extended contains what it contained.
LEMMA ContainsExtended ==
    ASSUME NEW v \in Seq(Write), NEW w \in Seq(Write), NEW x, Contains(v, x)
    PROVE  Contains(v \o w, x)
BY DEF Contains

\* A write that is appended to a value is in it, with all that was there.
LEMMA ContainsAppended ==
    ASSUME NEW v \in Seq(Write), NEW w \in Write
    PROVE  /\ Contains(Append(v, w), w)
           /\ \A x : Contains(v, x) => Contains(Append(v, w), x)
<1>1. Append(v, w)[Len(v) + 1] = w /\ Len(v) + 1 \in 1..Len(Append(v, w))
  OBVIOUS
<1>2. \A i \in 1..Len(v) : Append(v, w)[i] = v[i] /\ i \in 1..Len(Append(v, w))
  OBVIOUS
<1> QED BY <1>1, <1>2 DEF Contains

\* Every step keeps the mirror's values at bevy's changes.
LEMMA KeptStep == BevyInv /\ [Next]_vars => KeptInv'
<1> SUFFICES ASSUME BevyInv, [Next]_vars, setWrites' = 0 PROVE KeptInv'
  BY DEF KeptInv
<1> USE DEF BevyInv
<1>0. setWrites \in Nat /\ bevyWrites \in Nat
  BY DEF TypeOK
<1>1. ASSUME NEW h \in Hooks, Request(h) PROVE KeptInv'
  BY <1>1 DEF Request, KeptInv, Kept, worldVars, frameVars, queueVars, signalVars
<1>2. ASSUME NEW h \in Hooks, SetValue(h) PROVE KeptInv'
  BY <1>0, <1>2 DEF SetValue
<1>3. ASSUME NEW h \in Hooks, Mutate(h) PROVE KeptInv'
  BY <1>3 DEF Mutate, KeptInv, Kept, worldVars, frameVars, signalVars
<1>4. CASE InsertResource
  BY <1>4 DEF InsertResource, KeptInv, Kept, frameVars, queueVars, signalVars
<1>5. CASE BevyWrite
  <2>1. Kept(res)'
    <3> SUFFICES ASSUME NEW n \in 1..(bevyWrites + 1)
                 PROVE  Contains(Append(res, <<"bevy", bevyWrites + 1>>), <<"bevy", n>>)
      BY <1>5 DEF BevyWrite, Kept
    <3>1. res \in Seq(Write) /\ <<"bevy", bevyWrites + 1>> \in Write
      BY <1>0 DEF TypeOK, Value, Write
    <3>2. CASE n = bevyWrites + 1
      BY <3>1, <3>2, ContainsAppended
    <3>3. CASE n \in 1..bevyWrites
      <4>1. Contains(res, <<"bevy", n>>)
        BY <1>5, <3>3 DEF BevyWrite, queueVars, KeptInv, Kept
      <4> QED BY <3>1, <4>1, ContainsAppended
    <3> QED BY <1>0, <3>2, <3>3
  <2> QED
    BY <1>5, <2>1 DEF BevyWrite, KeptInv, frameVars, queueVars, signalVars
<1>6. CASE StartFrame
  BY <1>6 DEF StartFrame, KeptInv, Kept, worldVars, queueVars, signalVars
<1>7. CASE ApplyRequest
  <2>1. CASE NoMirror /\ exists
    BY <1>7, <2>1 DEF ApplyRequest, KeptInv, Kept, frameVars
  <2>2. CASE ~(NoMirror /\ exists)
    BY <1>7, <2>2 DEF ApplyRequest, KeptInv, Kept, frameVars
  <2> QED BY <2>1, <2>2
<1>8. CASE RunSchedules \/ EndFrame
  BY <1>8 DEF RunSchedules, EndFrame, KeptInv, Kept, worldVars, queueVars, signalVars
<1>9. CASE SyncMirrorToResource
  <2>0. /\ setQueue = <<>> /\ Kept(res) /\ setWrites = 0 /\ mirrors # 0
        /\ ~changed => Kept(accepted)
    BY <1>9 DEF SyncMirrorToResource, KeptInv, FrameInv
  <2>1. CASE changed
    <3>1. setQueue' = <<res>>
      BY <1>9, <2>0, <2>1 DEF SyncMirrorToResource
    <3> QED BY <1>9, <2>0, <3>1 DEF SyncMirrorToResource, KeptInv, Kept
  <2>2. CASE ~changed
    BY <1>9, <2>0, <2>2 DEF SyncMirrorToResource, KeptInv, Kept, signalVars
  <2> QED BY <2>1, <2>2
<1>10. CASE DrainSets
  <2>1. setWrites = 0 /\ Kept(res)
    BY <1>10 DEF DrainSets, KeptInv
  <2>2. Kept(accepted)'
    <3>1. CASE setQueue = <<>>
      BY <1>10, <2>1, <3>1 DEF DrainSets, KeptInv, Kept, worldVars
    <3>2. CASE setQueue # <<>>
      <4>1. Len(setQueue) \in DOMAIN setQueue
        BY <3>2 DEF TypeOK
      <4> QED BY <1>10, <2>1, <3>2, <4>1 DEF DrainSets, Last, KeptInv, Kept, worldVars
    <3> QED BY <3>1, <3>2
  <2> QED BY <1>10, <2>1, <2>2 DEF DrainSets, KeptInv, Kept, worldVars
<1>11. CASE DrainClosures
  <2>1. /\ setWrites = 0 /\ Kept(res) /\ setQueue = <<>> /\ Kept(accepted)
    BY <1>11 DEF DrainClosures, KeptInv, FrameInv, Idle
  <2>2. accepted \in Seq(Write) /\ mutateQueue \in Seq(Write)
    BY DEF TypeOK, Value
  <2>3. Kept(accepted)'
    BY <1>11, <2>1, <2>2, ContainsExtended DEF DrainClosures, Kept, worldVars
  <2> QED BY <1>11, <2>1, <2>3 DEF DrainClosures, KeptInv, Kept, worldVars
<1>12. CASE Publish
  BY <1>12 DEF Publish, KeptInv, Kept, worldVars, queueVars
<1>13. CASE Defer
  BY <1>13 DEF Defer, KeptInv, Kept, worldVars, queueVars, signalVars
<1>14. CASE SyncResourceToMirror
  <2>1. Kept(accepted) /\ Kept(res) /\ setQueue = <<>> /\ setWrites = 0 /\ ~changed
    BY <1>14 DEF SyncResourceToMirror, KeptInv, FrameInv, Idle, queueVars
  <2>2. res' \in {res, accepted}
    BY <1>14 DEF SyncResourceToMirror, NewVersion, FrameInv
  <2> QED
    BY <1>14, <2>1, <2>2 DEF SyncResourceToMirror, KeptInv, Kept, queueVars, signalVars
<1>15. CASE UNCHANGED vars
  BY <1>15 DEF vars, KeptInv, Kept, worldVars, frameVars, queueVars, signalVars
<1> QED
  BY <1>1, <1>2, <1>3, <1>4, <1>5, <1>6, <1>7, <1>8, <1>9, <1>10, <1>11, <1>12, <1>13,
     <1>14, <1>15 DEF Next, Frame, Sync

\* Without a mirror there is nothing to keep.
LEMMA BevyInitial == Init => FrameInv /\ KeptInv
BY DEF Init, FrameInv, KeptInv, Kept, Idle

\* No change by a bevy system is undone by what the mirror writes back, whatever
\* components' closures and deferred publishes come between, as long as no
\* component replaces the value.
THEOREM ChangesAreKept == Spec => []BevyChangesKept
<1>1. BevyInv => BevyChangesKept
  BY DEF BevyInv, KeptInv, Kept, BevyChangesKept
<1>2. Init => BevyInv
  BY TypeInit, BevyInitial DEF BevyInv
<1>3. BevyInv /\ [Next]_vars => BevyInv'
  BY TypeStep, FrameStep, KeptStep DEF BevyInv
<1> QED BY <1>1, <1>2, <1>3, PTL DEF Spec

----------------------------------------------------------------------------
(* Agreement, and no echo                                                  *)

\* From the read of a run to its publish, and after its write-back, a mirror that
\* has nothing to publish has published the resource's value.
AgreeInv ==
    /\ mirrors # 0 /\ ~pending /\ version = lastVersion
    /\ pc \in Idle => ~changed
    /\ pc \in Idle \cup {"drainSets"} => setQueue = <<>>
    => res = published

\* Every step keeps the sides in agreement, or one of them is about to be told.
LEMMA AgreeStep == TypeOK /\ FrameInv /\ AgreeInv /\ [Next]_vars => AgreeInv'
<1> SUFFICES ASSUME TypeOK, FrameInv, AgreeInv, [Next]_vars PROVE AgreeInv'
  OBVIOUS
<1> USE DEF AgreeInv, FrameInv, Idle
<1>1. ASSUME NEW h \in Hooks, Request(h) \/ Mutate(h) PROVE AgreeInv'
  BY <1>1 DEF Request, Mutate, worldVars, frameVars, queueVars, signalVars
<1>2. ASSUME NEW h \in Hooks, SetValue(h) PROVE AgreeInv'
  <2>1. setQueue \in Seq(Value) /\ << <<"set", setWrites + 1>> >> \in Value
    BY DEF TypeOK, Value, Write
  <2>2. setQueue' # <<>>
    BY <1>2, <2>1 DEF SetValue
  <2> QED BY <1>2, <2>2 DEF SetValue, worldVars, frameVars, signalVars
<1>3. CASE InsertResource \/ BevyWrite
  BY <1>3 DEF InsertResource, BevyWrite, frameVars, signalVars
<1>4. CASE StartFrame
  BY <1>4 DEF StartFrame, worldVars, queueVars, signalVars
<1>5. CASE ApplyRequest
  BY <1>5 DEF ApplyRequest, frameVars
<1>6. CASE RunSchedules \/ EndFrame
  BY <1>6 DEF RunSchedules, EndFrame, worldVars, queueVars, signalVars
<1>7. CASE SyncMirrorToResource
  <2>1. changed => setQueue' # <<>>
    BY <1>7 DEF SyncMirrorToResource, TypeOK
  <2> QED BY <1>7, <2>1 DEF SyncMirrorToResource, signalVars
<1>8. CASE DrainSets
  BY <1>8 DEF DrainSets, worldVars
<1>9. CASE DrainClosures
  BY <1>9 DEF DrainClosures, worldVars
<1>10. CASE Publish
  BY <1>10 DEF Publish, TypeOK, worldVars
<1>11. CASE Defer
  BY <1>11 DEF Defer, worldVars, queueVars, signalVars
<1>12. CASE SyncResourceToMirror
  BY <1>12 DEF SyncResourceToMirror, NewVersion, Bypassed, queueVars, signalVars
<1>13. CASE UNCHANGED vars
  BY <1>13 DEF vars, worldVars, frameVars, queueVars, signalVars
<1> QED
  BY <1>1, <1>2, <1>3, <1>4, <1>5, <1>6, <1>7, <1>8, <1>9, <1>10, <1>11, <1>12, <1>13
     DEF Next, Frame, Sync

\* Between frames, a resource and a mirror with nothing to tell each other agree.
THEOREM SidesAgree == Spec => []Converged
<1>1. TypeOK /\ FrameInv /\ AgreeInv => Converged
  BY DEF FrameInv, AgreeInv, Converged, Idle
<1>2. Init => TypeOK /\ FrameInv /\ AgreeInv
  BY TypeInit, BevyInitial DEF Init, AgreeInv
<1> QED BY <1>1, <1>2, TypeStep, FrameStep, AgreeStep, PTL DEF Spec

\* What may still become a publish.
One(b) == IF b THEN 1 ELSE 0

\* Every publish, made or to come, is paid for by a write, but for one that the
\* mirror's first sight of the resource causes.
EchoInv ==
    /\ mirrors # 0 => exists
    /\ mirrors = 0 => version = 0 /\ ~pending
    /\ mirrors # 0 =>
         version + One(pending) + One(changed) + Len(setQueue) + Len(mutateQueue)
           <= bevyWrites + setWrites + mutateWrites + 1

\* Every step keeps the count of write-backs within that of the changes.
LEMMA EchoStep == TypeOK /\ FrameInv /\ EchoInv /\ [Next]_vars => EchoInv'
<1> SUFFICES ASSUME TypeOK, FrameInv, EchoInv, [Next]_vars PROVE EchoInv'
  OBVIOUS
<1> USE DEF EchoInv, One
<1>0. /\ version \in Nat /\ bevyWrites \in Nat /\ setWrites \in Nat /\ mutateWrites \in Nat
      /\ setQueue \in Seq(Value) /\ mutateQueue \in Seq(Write) /\ res \in Value
      /\ Len(setQueue) \in Nat /\ Len(mutateQueue) \in Nat
      /\ (setQueue # <<>> => Len(setQueue) > 0) /\ (mutateQueue # <<>> => Len(mutateQueue) > 0)
  BY DEF TypeOK
<1>1. ASSUME NEW h \in Hooks, Request(h) PROVE EchoInv'
  BY <1>1 DEF Request, worldVars, frameVars, queueVars, signalVars
<1>2. ASSUME NEW h \in Hooks, SetValue(h) PROVE EchoInv'
  <2>1. Len(setQueue') = Len(setQueue) + 1
    BY <1>0, <1>2 DEF SetValue
  <2> QED BY <1>0, <1>2, <2>1 DEF SetValue, worldVars, frameVars, signalVars
<1>3. ASSUME NEW h \in Hooks, Mutate(h) PROVE EchoInv'
  <2>1. Len(mutateQueue') = Len(mutateQueue) + 1
    BY <1>0, <1>3 DEF Mutate
  <2> QED BY <1>0, <1>3, <2>1 DEF Mutate, worldVars, frameVars, signalVars
<1>4. CASE InsertResource
  BY <1>0, <1>4 DEF InsertResource, frameVars, queueVars, signalVars
<1>5. CASE BevyWrite
  BY <1>0, <1>5 DEF BevyWrite, frameVars, queueVars, signalVars
<1>6. CASE StartFrame
  BY <1>6 DEF StartFrame, worldVars, queueVars, signalVars
<1>7. CASE ApplyRequest
  <2>1. CASE NoMirror /\ exists
    BY <1>0, <1>7, <2>1 DEF ApplyRequest, NoMirror
  <2>2. CASE ~(NoMirror /\ exists)
    BY <1>0, <1>7, <2>2 DEF ApplyRequest
  <2> QED BY <2>1, <2>2
<1>8. CASE RunSchedules \/ EndFrame
  BY <1>8 DEF RunSchedules, EndFrame, worldVars, queueVars, signalVars
<1>9. CASE SyncMirrorToResource
  <2>1. Len(setQueue') = Len(setQueue) + One(changed)
    BY <1>0, <1>9 DEF SyncMirrorToResource
  <2>2. One(changed') = 0 /\ One(pending') = One(pending)
    BY <1>9 DEF SyncMirrorToResource, signalVars
  <2>3. UNCHANGED <<exists, mirrors, version, bevyWrites, setWrites, mutateWrites, mutateQueue, pending>>
    BY <1>9 DEF SyncMirrorToResource, signalVars
  <2>4. One(pending) \in {0, 1} /\ One(changed) \in {0, 1}
    OBVIOUS
  <2> HIDE DEF One
  <2> QED BY <1>0, <2>1, <2>2, <2>3, <2>4
<1>10. CASE DrainSets
  <2>1. Len(setQueue') = 0 /\ One(pending') <= One(pending) + Len(setQueue)
    <3>1. Len(setQueue') = 0 /\ One(pending') <= 1
      BY <1>0, <1>10 DEF DrainSets
    <3>2. CASE setQueue = <<>>
      <4>1. pending' = pending
        BY <1>10, <3>2, Zenon DEF DrainSets, TypeOK
      <4> QED BY <1>0, <3>1, <4>1
    <3>3. CASE setQueue # <<>>
      BY <1>0, <3>1, <3>3
    <3> QED BY <3>2, <3>3
  <2> QED BY <1>0, <1>10, <2>1 DEF DrainSets, FrameInv, worldVars
<1>11. CASE DrainClosures
  <2>1. Len(mutateQueue') = 0 /\ One(pending') <= One(pending) + Len(mutateQueue)
    <3>1. Len(mutateQueue') = 0 /\ One(pending') <= 1
      BY <1>0, <1>11 DEF DrainClosures
    <3>2. CASE mutateQueue = <<>>
      <4>1. pending' = pending
        BY <1>11, <3>2, Zenon DEF DrainClosures, TypeOK
      <4> QED BY <1>0, <3>1, <4>1
    <3>3. CASE mutateQueue # <<>>
      BY <1>0, <3>1, <3>3
    <3> QED BY <3>2, <3>3
  <2> QED BY <1>0, <1>11, <2>1 DEF DrainClosures, FrameInv, worldVars
<1>12. CASE Publish
  BY <1>0, <1>12 DEF Publish, FrameInv, worldVars, queueVars
<1>13. CASE Defer
  BY <1>13 DEF Defer, worldVars, queueVars, signalVars
<1>14. CASE SyncResourceToMirror
  BY <1>14 DEF SyncResourceToMirror, Bypassed, queueVars, signalVars
<1>15. CASE UNCHANGED vars
  BY <1>15 DEF vars, worldVars, frameVars, queueVars, signalVars
<1> QED
  BY <1>1, <1>2, <1>3, <1>4, <1>5, <1>6, <1>7, <1>8, <1>9, <1>10, <1>11, <1>12, <1>13,
     <1>14, <1>15 DEF Next, Frame, Sync

\* Every publish but one carries a write of bevy's or of a component's: a value
\* does not go back and forth between the two sides.
THEOREM NothingEchoes == Spec => []NoEcho
<1>1. TypeOK /\ EchoInv => NoEcho
  BY DEF TypeOK, EchoInv, One, NoEcho
<1>2. Init => TypeOK /\ FrameInv /\ EchoInv
  BY TypeInit, BevyInitial DEF Init, EchoInv
<1> QED BY <1>1, <1>2, TypeStep, FrameStep, EchoStep, PTL DEF Spec

----------------------------------------------------------------------------
(* Components' closures                                                    *)

\* Unless a component replaces the value, a write that is in the resource is in
\* what was sent to the mirror, and, once it is drained, in what it accepted.
StayInv ==
    setWrites = 0 =>
      \A x \in Write :
        Contains(res, x) =>
          /\ \A i \in DOMAIN setQueue : Contains(setQueue[i], x)
          /\ pc = "drainSets" /\ setQueue = <<>> => Contains(accepted, x)
          /\ pc # "drainSets" /\ mirrors # 0 /\ ~changed => Contains(accepted, x)

Closure(n) == <<"mutate", n>>

\* A closure that waits for a tick, for a publish, or for a write-back.
UnderWay(n) ==
    \/ Contains(mutateQueue, Closure(n))
    \/ Contains(accepted, Closure(n)) /\ pending
    \/ Contains(published, Closure(n)) /\ version # lastVersion

\* What the mirror holds is the resource's value.
Same == accepted = res /\ ~pending /\ version = lastVersion

\* A closure is sent to a mirror.  If neither bevy nor a component has written
\* anything else, the mirror is sent only the value it has, and a closure that left
\* the queue is accepted, and published or about to be.
ClosureInv ==
    /\ mirrors # 0 => exists
    /\ mirrors = 0 => mutateWrites = 0 /\ version = 0 /\ ~pending
    /\ mirrors = 0 => \A h \in Hooks : hook[h] # "ready"
    /\ bevyWrites = 0 /\ setWrites = 0 =>
         /\ (changed /\ mirrors # 0) \/ setQueue # <<>> => Same
         /\ \A i \in DOMAIN setQueue : setQueue[i] = res
         /\ \A n \in 1..mutateWrites :
              \/ Contains(mutateQueue, Closure(n))
              \/ /\ Contains(accepted, Closure(n))
                 /\ pending \/ version # lastVersion \/ Contains(res, Closure(n))

\* Replacements are only ever counted up.
LEMMA ReplacementsCount ==
    ASSUME TypeOK, [Next]_vars, setWrites' = 0
    PROVE  setWrites = 0
<1>1. setWrites \in Nat /\ (setWrites' = setWrites \/ setWrites' = setWrites + 1)
  BY DEF TypeOK, Next, Frame, Sync, Request, SetValue, Mutate, InsertResource, BevyWrite,
         StartFrame, ApplyRequest, RunSchedules, EndFrame, SyncMirrorToResource, DrainSets,
         DrainClosures, Publish, Defer, SyncResourceToMirror, queueVars, vars
<1> QED BY <1>1

\* A value that another one extends contains what the other contains.
LEMMA ContainsAfter ==
    ASSUME NEW v \in Seq(Write), NEW w \in Seq(Write), NEW x, Contains(w, x)
    PROVE  Contains(v \o w, x)
<1>1. PICK i \in 1..Len(w) : w[i] = x
  BY DEF Contains
<1>2. Len(v) + i \in 1..Len(v \o w) /\ (v \o w)[Len(v) + i] = w[i]
  BY <1>1
<1> QED BY <1>1, <1>2 DEF Contains

\* Every step keeps the mirror's values at what the resource contains.
LEMMA StayStep == BevyInv /\ StayInv /\ [Next]_vars => StayInv'
<1> SUFFICES ASSUME BevyInv, StayInv, [Next]_vars, setWrites' = 0,
                    NEW x \in Write, Contains(res', x)
             PROVE  /\ \A i \in DOMAIN setQueue' : Contains(setQueue'[i], x)
                    /\ pc' = "drainSets" /\ setQueue' = <<>> => Contains(accepted', x)
                    /\ pc' # "drainSets" /\ mirrors' # 0 /\ ~changed' => Contains(accepted', x)
  BY DEF StayInv
<1> DEFINE Goal == /\ \A i \in DOMAIN setQueue' : Contains(setQueue'[i], x)
                   /\ pc' = "drainSets" /\ setQueue' = <<>> => Contains(accepted', x)
                   /\ pc' # "drainSets" /\ mirrors' # 0 /\ ~changed' => Contains(accepted', x)
<1> USE DEF BevyInv
<1>0. setWrites = 0
  BY ReplacementsCount DEF BevyInv
<1>1. CASE UNCHANGED <<res, setQueue, accepted, mirrors, changed>> /\ (pc' = pc \/ {pc, pc'} \cap {"drainSets"} = {})
  BY <1>0, <1>1 DEF StayInv
<1>2. CASE changed' /\ UNCHANGED <<setQueue, pc>> /\ pc # "drainSets"
  BY <1>0, <1>2 DEF StayInv, KeptInv
<1>3. CASE ApplyRequest
  <2>1. CASE NoMirror /\ exists
    BY <1>0, <1>3, <2>1 DEF ApplyRequest, frameVars
  <2>2. CASE ~(NoMirror /\ exists)
    BY <1>0, <1>1, <1>3, <2>2 DEF ApplyRequest, frameVars
  <2> QED BY <2>1, <2>2
<1>4. CASE SyncMirrorToResource
  <2>1. setQueue = <<>> /\ res' = res /\ mirrors # 0 /\ accepted' = accepted
    BY <1>0, <1>4 DEF SyncMirrorToResource, KeptInv, FrameInv, signalVars
  <2>2. CASE changed
    <3>1. setQueue' = <<res>>
      BY <1>4, <2>1, <2>2 DEF SyncMirrorToResource
    <3> QED BY <1>4, <2>1, <3>1 DEF SyncMirrorToResource
  <2>3. CASE ~changed
    BY <1>0, <1>4, <2>1, <2>3 DEF SyncMirrorToResource, StayInv
  <2> QED BY <2>2, <2>3
<1>5. CASE DrainSets
  <2>1. Contains(accepted', x)
    <3>1. CASE setQueue = <<>>
      BY <1>0, <1>5, <3>1 DEF DrainSets, StayInv, worldVars
    <3>2. CASE setQueue # <<>>
      <4>1. Len(setQueue) \in DOMAIN setQueue
        BY <3>2 DEF TypeOK
      <4> QED BY <1>0, <1>5, <3>2, <4>1 DEF DrainSets, Last, StayInv, worldVars
    <3> QED BY <3>1, <3>2
  <2> QED BY <1>5, <2>1 DEF DrainSets
<1>6. CASE DrainClosures
  <2>1. setQueue = <<>> /\ mirrors # 0 /\ ~changed /\ res' = res
    BY <1>0, <1>6 DEF DrainClosures, KeptInv, FrameInv, Idle, worldVars
  <2>2. Contains(accepted, x) /\ accepted \in Seq(Write) /\ mutateQueue \in Seq(Write)
    BY <1>0, <1>6, <2>1 DEF DrainClosures, StayInv, TypeOK, Value
  <2>3. Contains(accepted', x)
    BY <1>6, <2>2, ContainsExtended DEF DrainClosures
  <2> QED BY <1>6, <2>1, <2>3 DEF DrainClosures
<1>7. CASE SyncResourceToMirror
  <2>1. setQueue = <<>> /\ mirrors # 0 /\ ~changed
    BY <1>0, <1>7 DEF SyncResourceToMirror, KeptInv, FrameInv, Idle
  <2>2. accepted' = accepted /\ setQueue' = setQueue
    BY <1>7 DEF SyncResourceToMirror, signalVars, queueVars
  <2>3. Contains(res, x) \/ res' = accepted
    BY <1>7 DEF SyncResourceToMirror, NewVersion, FrameInv
  <2>4. Contains(accepted, x)
    BY <1>0, <1>7, <2>1, <2>3 DEF SyncResourceToMirror, StayInv
  <2> QED BY <2>1, <2>2, <2>4
<1>8. ASSUME NEW h \in Hooks, SetValue(h) PROVE Goal
  BY <1>0, <1>8 DEF SetValue, TypeOK
<1>9. ASSUME \/ InsertResource \/ BevyWrite
             \/ UNCHANGED vars \/ StartFrame \/ RunSchedules \/ EndFrame \/ Publish \/ Defer
             \/ \E h \in Hooks : Request(h) \/ Mutate(h)
      PROVE  Goal
  BY <1>1, <1>2, <1>9 DEF InsertResource, BevyWrite, StartFrame, RunSchedules, EndFrame, Publish,
     Defer, Request, Mutate, vars, worldVars, frameVars, queueVars, signalVars
<1> QED
  BY <1>3, <1>4, <1>5, <1>6, <1>7, <1>8, <1>9 DEF Next, Frame, Sync

\* Nothing that is in the resource, of bevy's or of a component's, is undone by what
\* the mirror writes back: stale publishes and deferred ones included.
ArrivalsStay ==
    [][setWrites' = 0 => \A x \in Write : Contains(res, x) => Contains(res', x)]_vars

\* Unless a component replaces the value, the resource only ever gains writes.
THEOREM ArrivalsAreFinal == Spec => ArrivalsStay
<1>1. Init => StayInv
  BY DEF Init, StayInv, Contains
<1>2. ASSUME BevyInv, StayInv, [Next]_vars, setWrites' = 0, NEW x \in Write, Contains(res, x)
      PROVE  Contains(res', x)
  <2>0. setWrites = 0
    BY <1>2, ReplacementsCount DEF BevyInv
  <2>1. CASE BevyWrite
    <3>1. res \in Seq(Write) /\ <<"bevy", bevyWrites + 1>> \in Write
      BY <1>2 DEF BevyInv, TypeOK, Value, Write
    <3> QED BY <1>2, <2>1, <3>1, ContainsAppended DEF BevyWrite
  <2>2. CASE SyncResourceToMirror
    <3>1. setQueue = <<>> /\ mirrors # 0 /\ ~changed
      BY <1>2, <2>0, <2>2 DEF BevyInv, SyncResourceToMirror, KeptInv, FrameInv, Idle
    <3>2. Contains(accepted, x)
      BY <1>2, <2>0, <2>2, <3>1 DEF SyncResourceToMirror, StayInv
    <3> QED BY <1>2, <2>2, <3>2 DEF BevyInv, SyncResourceToMirror, NewVersion, FrameInv
  <2>3. ~BevyWrite /\ ~SyncResourceToMirror => res' = res
    BY <1>2 DEF Next, Frame, Sync, Request, SetValue, Mutate, InsertResource, StartFrame,
       ApplyRequest, RunSchedules, EndFrame, SyncMirrorToResource, DrainSets, DrainClosures,
       Publish, Defer, worldVars, vars
  <2> QED BY <1>2, <2>1, <2>2, <2>3
<1>3. BevyInv /\ StayInv /\ [Next]_vars
        => [setWrites' = 0 => \A x \in Write : Contains(res, x) => Contains(res', x)]_vars
  BY <1>2
<1>4. Init => BevyInv
  BY TypeInit, BevyInitial DEF BevyInv
<1>5. BevyInv /\ [Next]_vars => BevyInv'
  BY TypeStep, FrameStep, KeptStep DEF BevyInv
<1> QED BY <1>1, <1>3, <1>4, <1>5, StayStep, PTL DEF Spec, ArrivalsStay

\* Every step takes a closure from one place to the next.
LEMMA ClosureStep == BevyInv /\ ClosureInv /\ [Next]_vars => ClosureInv'
<1> SUFFICES ASSUME BevyInv, ClosureInv, [Next]_vars PROVE ClosureInv'
  OBVIOUS
<1> USE DEF BevyInv
<1>0. /\ bevyWrites \in Nat /\ setWrites \in Nat /\ mutateWrites \in Nat
      /\ accepted \in Seq(Write) /\ res \in Seq(Write) /\ mutateQueue \in Seq(Write)
  BY DEF TypeOK, Value
<1>1. ASSUME NEW h \in Hooks, Request(h) PROVE ClosureInv'
  BY <1>1 DEF Request, ClosureInv, Same, worldVars, frameVars, queueVars, signalVars, TypeOK
<1>2. ASSUME NEW h \in Hooks, SetValue(h) PROVE ClosureInv'
  BY <1>0, <1>2 DEF SetValue, InUse, ClosureInv, worldVars, frameVars, requestVars, signalVars
<1>3. ASSUME NEW h \in Hooks, Mutate(h) PROVE ClosureInv'
  <2>1. Closure(mutateWrites + 1) \in Write /\ mutateQueue' = Append(mutateQueue, Closure(mutateWrites + 1))
    BY <1>0, <1>3 DEF Mutate, Closure, Write
  <2>2. \A n \in 1..(mutateWrites + 1) : n = mutateWrites + 1 \/ n \in 1..mutateWrites
    BY <1>0
  <2>3. /\ Contains(mutateQueue', Closure(mutateWrites + 1))
        /\ \A n : Contains(mutateQueue, Closure(n)) => Contains(mutateQueue', Closure(n))
    BY <1>0, <2>1, ContainsAppended
  <2> QED
    BY <1>3, <2>2, <2>3 DEF Mutate, InUse, ClosureInv, Same, worldVars, frameVars, requestVars,
       signalVars
<1>4. CASE InsertResource
  <2>1. mirrors = 0
    BY <1>4 DEF InsertResource, ClosureInv
  <2> QED
    BY <1>4, <2>1 DEF InsertResource, ClosureInv, Same, frameVars, requestVars, queueVars, signalVars
<1>5. CASE BevyWrite
  BY <1>0, <1>5 DEF BevyWrite, ClosureInv, frameVars, requestVars, queueVars, signalVars
<1>6. CASE StartFrame
  BY <1>6 DEF StartFrame, ClosureInv, Same, worldVars, queueVars, signalVars
<1>7. CASE ApplyRequest
  <2>0. Head(batch) \in Hooks /\ DOMAIN hook = Hooks
    BY <1>7 DEF ApplyRequest, TypeOK
  <2>1. CASE NoMirror /\ exists
    <3>1. mirrors' # 0 /\ mutateWrites' = 0 /\ exists'
      BY <1>0, <1>7, <2>1 DEF ApplyRequest, NoMirror, ClosureInv
    <3>2. setQueue' = <<>> /\ 1..mutateWrites' = {} /\ DOMAIN setQueue' = {}
      BY <1>7, <2>1, <3>1 DEF ApplyRequest
    <3>3. bevyWrites' = bevyWrites /\ setWrites' = setWrites
      BY <1>7 DEF ApplyRequest
    <3>4. Same'
      <4>1. ~pending /\ version = 0
        BY <2>1, <1>7 DEF ClosureInv, NoMirror, ApplyRequest
      <4>2. lastVersion = version
        BY <4>1 DEF TypeOK
      <4> QED BY <1>7, <2>1, <4>1, <4>2 DEF ApplyRequest, Same, frameVars
    <3> QED BY <3>1, <3>2, <3>4 DEF ClosureInv
  <2>2. CASE ~(NoMirror /\ exists)
    BY <1>7, <2>0, <2>2 DEF ApplyRequest, ClosureInv, Same, frameVars
  <2> QED BY <2>1, <2>2
<1>8. CASE RunSchedules \/ EndFrame
  BY <1>8 DEF RunSchedules, EndFrame, ClosureInv, Same, worldVars, requestVars, queueVars, signalVars
<1>9. CASE SyncMirrorToResource
  <2>1. CASE changed
    <3>1. mirrors # 0 /\ setWrites' = setWrites /\ bevyWrites' = bevyWrites
      BY <1>9 DEF SyncMirrorToResource, FrameInv
    <3>2. setWrites = 0 => setQueue = <<>>
      BY <1>9 DEF SyncMirrorToResource, KeptInv
    <3>3. setWrites = 0 => setQueue' = <<res>>
      BY <1>9, <2>1, <3>2 DEF SyncMirrorToResource
    <3>4. UNCHANGED <<mirrors, exists, mutateWrites, hook, accepted, pending, version, lastVersion,
                      mutateQueue, res>>
      BY <1>9 DEF SyncMirrorToResource, signalVars, requestVars
    <3> QED BY <2>1, <3>1, <3>3, <3>4 DEF ClosureInv, Same
  <2>2. CASE ~changed
    BY <1>9, <2>2 DEF SyncMirrorToResource, ClosureInv, Same, requestVars, signalVars
  <2> QED BY <2>1, <2>2
<1>10. CASE DrainSets
  <2>1. /\ UNCHANGED <<exists, mirrors, hook, bevyWrites, setWrites, mutateWrites, mutateQueue,
                       version, lastVersion, res, changed>>
        /\ mirrors # 0
    BY <1>10 DEF DrainSets, worldVars, requestVars, FrameInv
  <2>2. setQueue' = <<>> /\ DOMAIN setQueue' = {} /\ ~changed'
    BY <1>10, <2>1 DEF DrainSets, FrameInv, Idle
  <2>3. bevyWrites = 0 /\ setWrites = 0 => accepted' = accepted
    <3>1. CASE setQueue = <<>>
      BY <1>10, <3>1 DEF DrainSets
    <3>2. CASE setQueue # <<>>
      <4>1. Len(setQueue) \in DOMAIN setQueue
        BY <3>2 DEF TypeOK
      <4> QED BY <1>10, <3>2, <4>1 DEF DrainSets, Last, ClosureInv, Same
    <3> QED BY <3>1, <3>2
  <2>4. pending => pending'
    BY <1>10 DEF DrainSets
  <2> QED BY <2>1, <2>2, <2>3, <2>4 DEF ClosureInv
<1>11. CASE DrainClosures
  <2>1. /\ UNCHANGED <<exists, mirrors, hook, bevyWrites, setWrites, mutateWrites, setQueue,
                       version, lastVersion, res, changed>>
        /\ mirrors # 0
    BY <1>11 DEF DrainClosures, worldVars, requestVars, FrameInv
  <2>2. ~changed' /\ (setWrites = 0 => setQueue' = <<>>)
    BY <1>11, <2>1 DEF FrameInv, KeptInv, DrainClosures, Idle
  <2>3. \A n : Contains(mutateQueue, Closure(n)) => Contains(accepted', Closure(n)) /\ pending'
    <3> SUFFICES ASSUME NEW n, Contains(mutateQueue, Closure(n))
                 PROVE  Contains(accepted', Closure(n)) /\ pending'
      OBVIOUS
    <3>1. mutateQueue # <<>>
      BY DEF Contains
    <3>2. Contains(accepted \o mutateQueue, Closure(n))
      BY <1>0, ContainsAfter
    <3> QED BY <1>11, <3>1, <3>2 DEF DrainClosures
  <2>4. \A n : Contains(accepted, Closure(n)) => Contains(accepted', Closure(n))
    BY <1>0, <1>11, ContainsExtended DEF DrainClosures
  <2>5. pending => pending'
    BY <1>11 DEF DrainClosures
  <2> QED BY <2>1, <2>2, <2>3, <2>4, <2>5 DEF ClosureInv
<1>12. CASE Publish
  <2>1. version' # lastVersion' /\ pc = "publish" /\ mirrors # 0
    BY <1>12 DEF Publish, TypeOK, FrameInv
  <2>2. UNCHANGED <<exists, mirrors, hook, bevyWrites, setWrites, mutateWrites, mutateQueue,
                    setQueue, res, changed, accepted>>
    BY <1>12 DEF Publish, worldVars, requestVars, queueVars
  <2>3. ~changed' /\ (setWrites = 0 => setQueue' = <<>>)
    BY <2>1, <2>2 DEF FrameInv, KeptInv, Idle
  <2> QED BY <2>1, <2>2, <2>3 DEF ClosureInv
<1>13. CASE Defer
  BY <1>13 DEF Defer, ClosureInv, Same, worldVars, requestVars, queueVars, signalVars
<1>14. CASE SyncResourceToMirror
  <2>1. UNCHANGED <<exists, mirrors, hook, bevyWrites, setWrites, mutateWrites, mutateQueue,
                    setQueue, accepted, pending, version>>
    BY <1>14 DEF SyncResourceToMirror, requestVars, queueVars, signalVars
  <2>2. ~changed' /\ (setWrites = 0 => setQueue' = <<>>)
    BY <1>14, <2>1 DEF SyncResourceToMirror, Bypassed, FrameInv, KeptInv, Idle
  <2>3. CASE NewVersion
    <3>1. res' = accepted
      BY <1>14, <2>3 DEF SyncResourceToMirror, NewVersion, FrameInv
    <3> QED BY <2>1, <2>2, <3>1 DEF ClosureInv
  <2>4. CASE ~NewVersion
    BY <1>14, <2>1, <2>2, <2>4 DEF SyncResourceToMirror, ClosureInv
  <2> QED BY <2>3, <2>4
<1>15. CASE UNCHANGED vars
  BY <1>15 DEF vars, ClosureInv, Same, worldVars, frameVars, requestVars, queueVars, signalVars
<1> QED
  BY <1>1, <1>2, <1>3, <1>4, <1>5, <1>6, <1>7, <1>8, <1>9, <1>10, <1>11, <1>12, <1>13,
     <1>14, <1>15 DEF Next, Frame, Sync

\* Every closure is in the resource, or in a place from which it gets there.
ClosuresKept ==
    bevyWrites = 0 /\ setWrites = 0
      => \A n \in 1..mutateWrites : UnderWay(n) \/ Contains(res, Closure(n))

\* If neither bevy nor a component writes anything else, no closure is lost between
\* the queue, a deferred publish and the write-back: with ArrivalsAreFinal, what
\* MutationsArrive is about, but for the fairness that makes it arrive.
THEOREM ClosuresAreKept == Spec => []ClosuresKept
<1>1. BevyInv /\ ClosureInv => ClosuresKept
  BY DEF BevyInv, FrameInv, ClosureInv, ClosuresKept, UnderWay
<1>2. Init => ClosureInv
  BY DEF Init, ClosureInv, Same
<1>3. Init => BevyInv
  BY TypeInit, BevyInitial DEF BevyInv
<1>4. BevyInv /\ [Next]_vars => BevyInv'
  BY TypeStep, FrameStep, KeptStep DEF BevyInv
<1> QED BY <1>1, <1>2, <1>3, <1>4, ClosureStep, PTL DEF Spec
=============================================================================
