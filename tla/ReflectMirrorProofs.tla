------------------------ MODULE ReflectMirrorProofs ------------------------
(***************************************************************************)
(* Theorems about ReflectMirror, for any hooks, places and scenarios: the   *)
(* handles of hooks, bevy's changes, types, the silence of queries and what *)
(* becomes of closures; and about ReflectValues, for any values, paths,     *)
(* texts and names, among which are the small ones of MCReflectMirror.      *)
(***************************************************************************)
EXTENDS MCReflectMirror, SetInduction

(* Handles                                                                 *)

\* A hook's request is in the channel at most once, while it waits, and so is the
\* typed mirror's, before it is made: only then are handles replaced.
CommandInv ==
    /\ commands \in Seq(Hooks \cup {"typed"})
    /\ \A i, j \in 1..Len(commands) : commands[i] = commands[j] => i = j
    /\ \A i \in 1..Len(commands) :
          IF commands[i] = "typed" THEN ~typed ELSE hook[commands[i]] = "waiting"
    /\ typed \in BOOLEAN /\ mirror \in {"none", "active", "elevated"} /\ handle \in Signals
    /\ handle = "typed" => typed

\* What an answer leaves behind: without a mirror no hook has one, and a hook that
\* was answered has the current handle or is to be told of it.  Only handles that
\* were replaced are news.
AnswerInv ==
    /\ hook \in [Hooks -> {"off", "waiting", "answered", "failed", "bound"}]
    /\ bound \in [Hooks -> Signals \cup {"none"}]
    /\ \A h \in Hooks : hook[h] \in {"answered", "bound"} <=> bound[h] # "none"
    /\ news \subseteq {h \in Hooks : bound[h] = "dyn"}
    /\ \A h \in Hooks : bound[h] # "none" /\ h \notin news => bound[h] = handle
    /\ handle = "dyn" => \A h \in Hooks : bound[h] \in {"dyn", "none"}
    /\ mirror = "none" => \A h \in Hooks : bound[h] = "none"

ChannelInv == CommandInv /\ AnswerInv

\* Nothing is asked for, and no hook has an answer, at first.
LEMMA ChannelInit == Init => ChannelInv
<1> SUFFICES ASSUME Init PROVE ChannelInv
  OBVIOUS
<1>1. commands = <<>> /\ Len(commands) = 0 /\ commands \in Seq(Hooks \cup {"typed"})
  BY DEF Init
<1>2. CommandInv
  <2>1. typed = FALSE /\ mirror = "none" /\ handle = "dyn"
    BY DEF Init
  <2>2. 1..Len(commands) = {}
    BY <1>1
  <2> QED BY <1>1, <2>1, <2>2 DEF CommandInv, Signals
<1>3. AnswerInv
  BY DEF Init, AnswerInv, Signals
<1> QED BY <1>2, <1>3 DEF ChannelInv

\* The steps that leave hooks, answers, notifications, commands and mirrors alone.
LEMMA ChannelElsewhere ==
    ASSUME ChannelInv, UNCHANGED <<hook, bound, news, commands, mirror, typed, handle>>
    PROVE  ChannelInv'
BY DEF ChannelInv, CommandInv, AnswerInv

\* Sending: what is sent is not in the channel yet.
LEMMA ChannelSend ==
    ASSUME ChannelInv, NEW c \in Hooks \cup {"typed"}, commands' = Append(commands, c),
           \A i \in 1..Len(commands) : commands[i] # c,
           UNCHANGED <<bound, news, mirror, typed, handle>>,
           \/ c = "typed" /\ ~typed /\ hook' = hook
           \/ c \in Hooks /\ c # "typed" /\ hook[c] = "off" /\ hook' = [hook EXCEPT ![c] = "waiting"]
    PROVE  ChannelInv'
<1> USE DEF ChannelInv
<1>1. commands \in Seq(Hooks \cup {"typed"}) /\ hook \in [Hooks -> {"off", "waiting", "answered", "failed", "bound"}]
  BY DEF CommandInv, AnswerInv
<1>2. /\ Len(commands) \in Nat /\ Len(commands') = Len(commands) + 1
      /\ commands' \in Seq(Hooks \cup {"typed"}) /\ commands'[Len(commands) + 1] = c
      /\ \A i \in 1..Len(commands) : commands'[i] = commands[i] /\ commands[i] \in Hooks \cup {"typed"}
  BY <1>1
<1>3. ASSUME NEW i \in 1..Len(commands'), NEW j \in 1..Len(commands'), commands'[i] = commands'[j]
      PROVE  i = j
  <2>1. \A k \in 1..Len(commands') : k \in 1..Len(commands) \/ k = Len(commands) + 1
    BY <1>2
  <2> QED BY <1>2, <1>3, <2>1 DEF CommandInv
<1>4. ASSUME NEW i \in 1..Len(commands')
      PROVE  IF commands'[i] = "typed" THEN ~typed' ELSE hook'[commands'[i]] = "waiting"
  <2>1. CASE i = Len(commands) + 1
    BY <1>1, <1>2, <2>1
  <2>2. CASE i \in 1..Len(commands)
    <3>1. commands'[i] = commands[i] /\ commands[i] # c
      BY <1>2, <2>2
    <3>2. CASE commands[i] = "typed"
      BY <2>2, <3>1, <3>2 DEF CommandInv
    <3>3. CASE commands[i] # "typed"
      <4>1. commands[i] \in Hooks /\ hook[commands[i]] = "waiting"
        BY <1>2, <2>2, <3>3 DEF CommandInv
      <4> QED BY <1>1, <3>1, <3>3, <4>1
    <3> QED BY <3>2, <3>3
  <2> QED BY <1>2, <2>1, <2>2
<1>5. CommandInv'
  BY <1>2, <1>3, <1>4 DEF CommandInv
<1>6. AnswerInv'
  BY <1>1 DEF AnswerInv
<1> QED BY <1>5, <1>6

\* Receiving: what is left in the channel concerns others.
LEMMA ChannelReceive ==
    ASSUME ChannelInv, NextCommand
    PROVE  /\ commands' \in Seq(Hooks \cup {"typed"})
           /\ \A i, j \in 1..Len(commands') : commands'[i] = commands'[j] => i = j
           /\ \A i \in 1..Len(commands') :
                /\ commands'[i] \in Hooks \cup {"typed"} /\ commands'[i] # Head(commands)
                /\ IF commands'[i] = "typed" THEN ~typed ELSE hook[commands'[i]] = "waiting"
           /\ IF Head(commands) = "typed" THEN ~typed ELSE hook[Head(commands)] = "waiting"
<1>1. commands \in Seq(Hooks \cup {"typed"}) /\ commands # <<>> /\ commands' = Tail(commands)
  BY DEF NextCommand, ChannelInv, CommandInv
<1>2. /\ Len(commands) \in Nat /\ Len(commands) # 0 /\ Len(commands') = Len(commands) - 1
      /\ commands' \in Seq(Hooks \cup {"typed"})
      /\ \A i \in 1..Len(commands') : commands'[i] = commands[i + 1] /\ commands[i + 1] \in Hooks \cup {"typed"}
      /\ Head(commands) = commands[1]
  BY <1>1
<1>3. \A i \in 1..Len(commands') : i + 1 \in 1..Len(commands) /\ i + 1 # 1
  BY <1>2
<1>4. 1 \in 1..Len(commands)
  BY <1>2
<1>5. ASSUME NEW i \in 1..Len(commands'), NEW j \in 1..Len(commands'), commands'[i] = commands'[j]
      PROVE  i = j
  <2>1. i + 1 = j + 1
    BY <1>2, <1>3, <1>5 DEF ChannelInv, CommandInv
  <2> QED BY <2>1
<1>6. ASSUME NEW i \in 1..Len(commands')
      PROVE  /\ commands'[i] # Head(commands)
             /\ IF commands'[i] = "typed" THEN ~typed ELSE hook[commands'[i]] = "waiting"
  BY <1>2, <1>3, <1>4 DEF ChannelInv, CommandInv
<1>7. IF Head(commands) = "typed" THEN ~typed ELSE hook[Head(commands)] = "waiting"
  BY <1>2, <1>4 DEF ChannelInv, CommandInv
<1> QED BY <1>2, <1>5, <1>6, <1>7

\* A waiting hook is answered with the handle of a mirror, or told that there is none.
LEMMA ChannelAnswer ==
    ASSUME ChannelInv, NextCommand, Head(commands) \in Hooks,
           UNCHANGED <<news, typed, handle>>,
           \/ Answer(Head(commands)) /\ mirror' \in {"active", "elevated"}
           \/ hook' = [hook EXCEPT ![Head(commands)] = "failed"] /\ UNCHANGED <<bound, mirror>>
    PROVE  ChannelInv'
<1> DEFINE c == Head(commands)
<1>1. c # "typed" /\ hook[c] = "waiting"
  BY ReflectAssumption, ChannelReceive
<1>2. hook \in [Hooks -> {"off", "waiting", "answered", "failed", "bound"}]
      /\ bound \in [Hooks -> Signals \cup {"none"}] /\ handle \in Signals
      /\ bound[c] = "none" /\ c \notin news
  <2>1. bound[c] = "none"
    BY <1>1 DEF ChannelInv, AnswerInv
  <2>2. "dyn" # "none"
    OBVIOUS
  <2> QED BY <2>1, <2>2 DEF ChannelInv, AnswerInv, CommandInv
<1>3. \A h \in Hooks \ {c} : hook'[h] = hook[h] /\ bound'[h] = bound[h]
  BY <1>2 DEF Answer
<1>4. ASSUME NEW i \in 1..Len(commands')
      PROVE  IF commands'[i] = "typed" THEN ~typed' ELSE hook'[commands'[i]] = "waiting"
  BY <1>3, ChannelReceive
<1>5. CommandInv'
  <2>1. mirror' \in {"none", "active", "elevated"}
    BY DEF ChannelInv, CommandInv
  <2> QED BY <1>4, <2>1, ChannelReceive DEF ChannelInv, CommandInv
<1>6. AnswerInv'
  <2> USE DEF ChannelInv, AnswerInv
  <2>1. CASE Answer(c) /\ mirror' \in {"active", "elevated"}
    <3>1. hook' = [hook EXCEPT ![c] = "answered"] /\ bound' = [bound EXCEPT ![c] = handle]
          /\ mirror' # "none"
      BY <2>1 DEF Answer
    <3>2. handle # "none" /\ (handle = "dyn" \/ handle = "typed")
      BY <1>2 DEF Signals
    <3> QED BY <1>2, <3>1, <3>2
  <2>2. CASE hook' = [hook EXCEPT ![c] = "failed"] /\ UNCHANGED <<bound, mirror>>
    BY <1>2, <2>2
  <2> QED BY <2>1, <2>2
<1> QED BY <1>5, <1>6 DEF ChannelInv

\* Every step keeps what is asked and what was answered.
LEMMA ChannelStep == ChannelInv /\ [Next]_vars => ChannelInv'
<1> SUFFICES ASSUME ChannelInv, [Next]_vars PROVE ChannelInv'
  OBVIOUS
<1>1. ASSUME NEW h \in Hooks, Request(h) PROVE ChannelInv'
  <2>1. /\ hook[h] = "off" /\ hook' = [hook EXCEPT ![h] = "waiting"] /\ commands' = Append(commands, h)
        /\ h # "typed" /\ UNCHANGED <<bound, news, mirror, typed, handle>>
    BY <1>1, ReflectAssumption DEF Request
  <2>2. \A i \in 1..Len(commands) : commands[i] # h
    BY <2>1 DEF ChannelInv, CommandInv
  <2> QED BY <2>1, <2>2, ChannelSend
<1>2. CASE RequestTyped
  <2>1. /\ commands' = Append(commands, "typed") /\ ~typed /\ hook' = hook
        /\ UNCHANGED <<bound, news, mirror, typed, handle>>
        /\ \A i \in DOMAIN commands : commands[i] # "typed"
    BY <1>2 DEF RequestTyped, hookVars
  <2>2. DOMAIN commands = 1..Len(commands)
    BY DEF ChannelInv, CommandInv
  <2> QED BY <2>1, <2>2, ChannelSend
<1>3. ASSUME NEW h \in Hooks, Bind(h) PROVE ChannelInv'
  BY <1>3 DEF Bind, ChannelInv, CommandInv, AnswerInv, mirrorVars
<1>4. ASSUME NEW h \in Hooks, Rebind(h) PROVE ChannelInv'
  <2>1. /\ hook' = hook /\ news' = news \ {h} /\ bound' = [bound EXCEPT ![h] = handle]
        /\ hook[h] = "bound" /\ UNCHANGED <<commands, mirror, typed, handle>>
    BY <1>4 DEF Rebind, mirrorVars
  <2>2. handle # "none" /\ bound[h] # "none" /\ handle \in {"dyn", "typed"}
    BY <2>1 DEF ChannelInv, CommandInv, AnswerInv, Signals
  <2> QED BY <2>1, <2>2 DEF ChannelInv, CommandInv, AnswerInv
<1>5. ASSUME NEW h \in Hooks, Mutate(h) \/ SetValue(h) \/ Forward(h) PROVE ChannelInv'
  BY <1>5, ChannelElsewhere DEF Mutate, SetValue, Forward, hookVars, mirrorVars
<1>6. CASE RegisterOrGetResourceDyn
  <2>1. Head(commands) \in Hooks /\ NextCommand /\ UNCHANGED <<news, typed, handle>>
    BY <1>6 DEF RegisterOrGetResourceDyn
  <2>2. CASE hook' = [hook EXCEPT ![Head(commands)] = "failed"] /\ UNCHANGED <<bound, mirror>>
    BY <2>1, <2>2, ChannelAnswer
  <2>3. CASE Answer(Head(commands)) /\ mirror' = "active"
    BY <2>1, <2>3, ChannelAnswer
  <2>4. CASE Answer(Head(commands)) /\ mirror # "none" /\ mirror' = mirror
    <3>1. mirror' \in {"active", "elevated"}
      BY <2>4 DEF ChannelInv, CommandInv
    <3> QED BY <2>1, <2>4, <3>1, ChannelAnswer
  <2> QED BY <1>6, <2>2, <2>3, <2>4 DEF RegisterOrGetResourceDyn
<1>7. CASE RegisterOrGetQueryDyn
  <2>1. mirror' \in {"active", "elevated"}
    BY <1>7 DEF RegisterOrGetQueryDyn, ChannelInv, CommandInv
  <2> QED BY <1>7, <2>1, ChannelAnswer DEF RegisterOrGetQueryDyn
<1>8. CASE RequestBevyResource
  <2>1. Head(commands) = "typed" /\ NextCommand /\ UNCHANGED <<hook, bound>>
    BY <1>8 DEF RequestBevyResource
  <2>2. ~typed /\ handle = "dyn"
    BY <2>1, ChannelReceive DEF ChannelInv, CommandInv, Signals
  <2>3. \/ UNCHANGED <<typed, mirror, handle, news>>
        \/ typed' = TRUE /\ UNCHANGED <<mirror, handle, news>>
        \/ typed' = TRUE /\ mirror # "none" /\ mirror' = "elevated" /\ handle' = "typed" /\ news' = Receivers
    BY <1>8 DEF RequestBevyResource, NotifyTypedResourceMirror
  <2>4. \A i \in 1..Len(commands') : commands'[i] # "typed" /\ hook'[commands'[i]] = "waiting"
    BY <2>1, ChannelReceive
  <2>5. CommandInv'
    <3>1. typed' \in BOOLEAN /\ (handle' = "typed" => typed')
      BY <2>2, <2>3 DEF ChannelInv, CommandInv
    <3>2. mirror' \in {"none", "active", "elevated"} /\ handle' \in Signals
      BY <2>3 DEF ChannelInv, CommandInv, Signals
    <3> QED BY <2>1, <2>4, <3>1, <3>2, ChannelReceive DEF CommandInv
  <2>6. Receivers \subseteq {h \in Hooks : bound[h] = "dyn"}
    BY <2>2 DEF Receivers, ChannelInv, AnswerInv
  <2>7. AnswerInv'
    <3>1. CASE UNCHANGED <<mirror, handle, news>>
      BY <2>1, <3>1 DEF ChannelInv, AnswerInv
    <3>2. CASE mirror' = "elevated" /\ handle' = "typed" /\ news' = Receivers
      <4>1. \A h \in Hooks : bound[h] # "none" => h \in news'
        BY <3>2 DEF Receivers
      <4> QED BY <2>1, <2>6, <3>2, <4>1 DEF ChannelInv, AnswerInv
    <3> QED BY <2>3, <3>1, <3>2
  <2> QED BY <2>5, <2>7 DEF ChannelInv
<1>9. CASE ElevateReflectQuery
  <2>1. NextCommand /\ UNCHANGED <<hook, bound, news, typed, handle>>
        /\ mirror' = IF mirror = "none" THEN "none" ELSE "elevated"
    BY <1>9 DEF ElevateReflectQuery, hookVars
  <2>2. CommandInv'
    BY <2>1, ChannelReceive DEF ChannelInv, CommandInv
  <2>3. AnswerInv'
    BY <2>1 DEF ChannelInv, AnswerInv
  <2> QED BY <2>2, <2>3 DEF ChannelInv
<1>10. CASE StartFrame \/ EndFrame \/ RunSchedules \/ EndRun \/ ReadResource \/ ReadQuery
            \/ SpawnOrDespawn \/ BevyWrite
  BY <1>10, ChannelElsewhere
     DEF StartFrame, EndFrame, RunSchedules, EndRun, ReadResource, ReadQuery, SpawnOrDespawn, BevyWrite,
         hookVars, mirrorVars
<1>11. ASSUME NEW defer \in BOOLEAN, DriveReflectResourceSignals(defer) \/ DriveSignal(defer)
       PROVE  ChannelInv'
  BY <1>11, ChannelElsewhere DEF DriveReflectResourceSignals, DriveSignal, hookVars, mirrorVars
<1>12. CASE WriteResource \/ WriteQuery \/ SyncResourceToMirror
  BY <1>12, ChannelElsewhere
     DEF WriteResource, WriteQuery, SyncResourceToMirror, WriteBack, hookVars, mirrorVars
<1>13. CASE UNCHANGED vars
  BY <1>13, ChannelElsewhere DEF vars, hookVars, mirrorVars
<1> QED
  BY <1>1, <1>2, <1>3, <1>4, <1>5, <1>6, <1>7, <1>8, <1>9, <1>10, <1>11, <1>12, <1>13
     DEF Next, Dioxus, Frame, ApplyCommand

\* "Re-bind whenever bevy replaces the handle on elevation": a hook that has no
\* notification pending writes to the handle of the mirror, whether it asked
\* before, during or after the elevation.
THEOREM HooksFollowHandles == Spec => []HandlesFollow
<1>1. ChannelInv => HandlesFollow
  BY DEF ChannelInv, AnswerInv, HandlesFollow
<1> QED BY <1>1, ChannelInit, ChannelStep, PTL DEF Spec

----------------------------------------------------------------------------
(* Bevy's changes                                                          *)

\* A resource, where nothing despawns, without replacements or early ticks.
Plain == IsResource /\ scenario.set = 0 /\ ~scenario.driveFirst

\* v has all changes of bevy's that w has, in what it says of w.
Has(v, w) == \A p \in DOMAIN w \cap DOMAIN v : BevyPart(w[p]) \subseteq v[p]

\* v has no change of bevy's that w lacks.
Within(v, w) == \A p \in DOMAIN v : p \in DOMAIN w /\ BevyPart(v[p]) \subseteq w[p]

\* The systems of a run: what is fresh is still to be written back.
RunInv ==
    /\ DOMAIN world \subseteq Places /\ scenario.places \subseteq Places
    /\ fresh \subseteq Signals
    /\ typed \/ "typed" \in fresh \/ "drive typed" \in todo => IsResource
    /\ "drive typed" \in todo => typed
    /\ IF pc = "sync"
       THEN /\ "drive" \in todo => "write" \in todo /\ IsResource
            /\ "drive typed" \in todo => "write typed" \in todo
            /\ "dyn" \in fresh => "write" \in todo /\ IsResource
            /\ "typed" \in fresh => "write typed" \in todo
       ELSE fresh = {}

\* Closures replace nothing, and values say of bevy's changes what is true.
ValueInv ==
    /\ queue \in [Signals -> SUBSET Write] /\ mutates \in Nat /\ replaces \in Nat
    /\ scenario.set \in Nat
    /\ scenario.set = 0 => \A s \in Signals : \A op \in queue[s] : op[1] = "mutate"
    /\ DOMAIN sent = Signals /\ DOMAIN accepted = Signals /\ DOMAIN published = Signals
    /\ Plain => \A s \in Signals :
         /\ sent[s] # Nothing => Within(sent[s], world)
         /\ Within(accepted[s], world) /\ Within(published[s], world)

\* What is about to be written back has all changes: the dynamic mirror reads
\* before it ticks, and the typed one has seen what has not changed since.
SeenInv ==
    Plain =>
      /\ \A s \in fresh : Has(published[s], world)
      /\ pc = "sync" /\ "drive" \in todo /\ "read" \notin todo
           => sent["dyn"] # Nothing /\ Has(sent["dyn"], world)
      /\ pc = "sync" /\ "drive typed" \in todo
           => Has(IF sent["typed"] = Nothing THEN accepted["typed"] ELSE sent["typed"], world)
      /\ ~(pc = "sync" /\ "drive typed" \in todo)
           => sent["typed"] = Nothing /\ (typed /\ ~changed => Has(accepted["typed"], world))

ChangeInv == RunInv /\ ValueInv /\ SeenInv

\* Closures that replace nothing add to what is there.
LEMMA AppliedAdds ==
    ASSUME NEW v, NEW ops \in SUBSET Write, \A op \in ops : op[1] = "mutate"
    PROVE  /\ DOMAIN Applied(v, ops) = DOMAIN v
           /\ \A p \in DOMAIN v : /\ v[p] \subseteq Applied(v, ops)[p]
                                  /\ BevyPart(Applied(v, ops)[p]) \subseteq v[p]
<1>1. {op \in ops : op[1] = "set"} = {}
  OBVIOUS
<1>2. Applied(v, ops) = [p \in DOMAIN v |-> v[p] \cup ops]
  BY <1>1 DEF Applied
<1>3. BevyPart(ops) = {}
  BY DEF BevyPart
<1> QED BY <1>2, <1>3 DEF BevyPart

\* So they neither lose a change of bevy's nor make one up.
LEMMA AppliedHas ==
    ASSUME NEW v, NEW w, NEW ops \in SUBSET Write, \A op \in ops : op[1] = "mutate"
    PROVE  /\ Has(v, w) => Has(Applied(v, ops), w)
           /\ Within(v, w) => Within(Applied(v, ops), w)
BY AppliedAdds DEF Has, Within, BevyPart

\* A world that differs in other things than bevy's changes.
LEMMA SameChanges ==
    ASSUME NEW v, NEW w, NEW x, DOMAIN x = DOMAIN w,
           \A p \in DOMAIN w : BevyPart(x[p]) = BevyPart(w[p])
    PROVE  /\ Has(v, w) => Has(v, x)
           /\ Within(v, w) => Within(v, x)
BY DEF Has, Within, BevyPart

\* A world that grows.
LEMMA MoreChanges ==
    ASSUME NEW v, NEW w, NEW x, \A p \in DOMAIN w : p \in DOMAIN x /\ w[p] \subseteq x[p],
           Within(v, w)
    PROVE  Within(v, x)
BY DEF Within

\* A value has its own changes.
LEMMA ItsOwn == ASSUME NEW w PROVE Has(w, w) /\ Within(w, w)
BY DEF Has, Within, BevyPart

\* The steps that concern other things than values.
LEMMA ChangeElsewhere ==
    ASSUME ChangeInv, UNCHANGED <<worldVars, editVars, signalVars, sent, fresh, todo, typed>>,
           UNCHANGED pc \/ "sync" \notin {pc, pc'}
    PROVE  ChangeInv'
BY DEF ChangeInv, RunInv, ValueInv, SeenInv, Plain, IsResource, worldVars, editVars, signalVars

\* A tick: the values of the other signal stay.
LEMMA TickStep ==
    ASSUME ChangeInv, NEW s \in Signals, NEW defer \in BOOLEAN, Tick(s, defer),
           UNCHANGED <<worldVars, mutates, replaces, typed, pc>>, todo' \subseteq todo
    PROVE  /\ ValueInv'
           /\ fresh' \subseteq fresh \cup {s}
           /\ \A r \in Signals \ {s} : /\ sent'[r] = sent[r] /\ accepted'[r] = accepted[r]
                                       /\ published'[r] = published[r]
           /\ sent'[s] = Nothing
           /\ Plain /\ Has(IF sent[s] = Nothing THEN accepted[s] ELSE sent[s], world)
                => Has(accepted'[s], world)
           /\ published'[s] = accepted'[s] \/ (published'[s] = published[s] /\ fresh' = fresh)
<1>1. /\ accepted' = [accepted EXCEPT ![s] = Drained(s)]
      /\ sent' = [sent EXCEPT ![s] = Nothing] /\ queue' = [queue EXCEPT ![s] = {}]
      /\ \/ published' = [published EXCEPT ![s] = accepted'[s]] /\ fresh' = fresh \cup {s}
         \/ published' = published /\ fresh' = fresh
  BY DEF Tick
<1>2. /\ DOMAIN sent = Signals /\ DOMAIN accepted = Signals /\ DOMAIN published = Signals
      /\ queue \in [Signals -> SUBSET Write]
  BY DEF ChangeInv, ValueInv
<1>3. /\ accepted'[s] = Drained(s) /\ sent'[s] = Nothing /\ queue'[s] = {}
      /\ DOMAIN sent' = Signals /\ DOMAIN accepted' = Signals /\ DOMAIN published' = Signals
      /\ queue' \in [Signals -> SUBSET Write]
      /\ \A r \in Signals \ {s} : /\ sent'[r] = sent[r] /\ accepted'[r] = accepted[r]
                                  /\ published'[r] = published[r] /\ queue'[r] = queue[r]
  BY <1>1, <1>2
<1>4. published'[s] = accepted'[s] \/ (published'[s] = published[s] /\ fresh' = fresh)
  BY <1>1, <1>2
<1> DEFINE base == IF sent[s] = Nothing THEN accepted[s] ELSE sent[s]
<1>5. ASSUME Plain
      PROVE  /\ Within(accepted'[s], world)
             /\ Has(base, world) => Has(accepted'[s], world)
  <2>1. \A op \in queue[s] : op[1] = "mutate"
    BY <1>5 DEF Plain, ChangeInv, ValueInv
  <2>2. Within(base, world)
    BY <1>5 DEF ChangeInv, ValueInv
  <2>3. queue[s] \in SUBSET Write /\ accepted'[s] = Applied(base, queue[s])
    BY <1>2, <1>3 DEF Drained
  <2> HIDE DEF base
  <2> QED BY <2>1, <2>2, <2>3, AppliedHas
<1>6. ASSUME Plain, NEW r \in Signals
      PROVE  /\ sent'[r] # Nothing => Within(sent'[r], world)
             /\ Within(accepted'[r], world) /\ Within(published'[r], world)
  <2>1. CASE r # s
    BY <1>3, <1>6, <2>1 DEF ChangeInv, ValueInv
  <2>2. CASE r = s
    BY <1>3, <1>4, <1>5, <1>6, <2>2 DEF ChangeInv, ValueInv
  <2> QED BY <2>1, <2>2
<1>7. ValueInv'
  <2>1. scenario.set = 0 => \A r \in Signals : \A op \in queue'[r] : op[1] = "mutate"
    BY <1>3 DEF ChangeInv, ValueInv
  <2> QED BY <1>3, <1>6, <2>1 DEF ChangeInv, ValueInv, Plain, IsResource, worldVars
<1> QED BY <1>1, <1>3, <1>4, <1>5, <1>7

\* A write-back changes nothing of bevy's.
LEMMA WriteBackKeeps ==
    ASSUME ChangeInv, NEW s \in Signals, NEW marks \in BOOLEAN, WriteBack(s, marks),
           Plain \/ s \notin fresh
    PROVE  /\ DOMAIN world' = DOMAIN world
           /\ \A p \in DOMAIN world : BevyPart(world'[p]) = BevyPart(world[p])
<1>1. CASE s \notin fresh
  BY <1>1 DEF WriteBack, NewVersion
<1>2. CASE Plain /\ s \in fresh
  <2>1. world' = Merged(s) /\ Has(published[s], world) /\ Within(published[s], world)
    BY <1>2 DEF WriteBack, NewVersion, ChangeInv, SeenInv, ValueInv
  <2>2. DOMAIN world' = DOMAIN world
    BY <2>1 DEF Merged
  <2>3. ASSUME NEW p \in DOMAIN world PROVE BevyPart(world'[p]) = BevyPart(world[p])
    <3>1. CASE p \in DOMAIN published[s]
      BY <2>1, <3>1 DEF Merged, Has, Within, BevyPart
    <3>2. CASE p \notin DOMAIN published[s]
      BY <2>1, <3>2 DEF Merged
    <3> QED BY <3>1, <3>2
  <2> QED BY <2>2, <2>3
<1> QED BY <1>1, <1>2

\* A write-back keeps what the signals have of the changes.
LEMMA WriteBackStep ==
    ASSUME ChangeInv, NEW s \in Signals, NEW marks \in BOOLEAN, WriteBack(s, marks),
           pc = "sync", pc' = pc, {"drive", "drive typed"} \cap todo = {},
           NEW system, todo' = todo \ {system},
           system = "write" => s = "dyn", system = "write typed" => s = "typed"
    PROVE  ChangeInv'
<1>1. DOMAIN world' = DOMAIN world
  BY DEF WriteBack, Merged
<1>2. /\ fresh' = fresh \ {s}
      /\ UNCHANGED <<scenario, editVars, typed, accepted, published, sent>>
  BY DEF WriteBack, mirrorVars, signalVars
<1>3. ASSUME Plain, NEW v
      PROVE  (Has(v, world) => Has(v, world')) /\ (Within(v, world) => Within(v, world'))
  <2>1. \A p \in DOMAIN world : BevyPart(world'[p]) = BevyPart(world[p])
    BY <1>3, WriteBackKeeps
  <2> QED BY <1>1, <2>1, SameChanges
<1>4. RunInv'
  BY <1>1, <1>2 DEF ChangeInv, RunInv, IsResource
<1>5. ValueInv'
  BY <1>2, <1>3 DEF ChangeInv, ValueInv, Plain, IsResource, editVars
<1>6. ~changed' => ~changed
  BY Zenon DEF WriteBack
<1>7. SeenInv'
  BY <1>2, <1>3, <1>6 DEF ChangeInv, SeenInv, Plain, IsResource
<1> QED BY <1>4, <1>5, <1>7 DEF ChangeInv

\* The signals start empty, and bevy has changed nothing.
LEMMA ChangeInit == Init => ChangeInv
<1> SUFFICES ASSUME Init PROVE ChangeInv
  OBVIOUS
<1>1. scenario \in Scenario
  BY ReflectAssumption DEF Init
<1>2. RunInv
  BY <1>1 DEF Init, RunInv, Scenario
<1>3. ValueInv
  BY <1>1 DEF Init, ValueInv, Scenario, Within, Empty, Signals
<1>4. SeenInv
  BY DEF Init, SeenInv, Has, Empty, Signals
<1> QED BY <1>2, <1>3, <1>4 DEF ChangeInv

\* Every step keeps what the signals have of the changes.
LEMMA ChangeStep == ChangeInv /\ [Next]_vars => ChangeInv'
<1> SUFFICES ASSUME ChangeInv, [Next]_vars PROVE ChangeInv'
  OBVIOUS
<1>1. ASSUME NEW h \in Hooks, Request(h) \/ Bind(h) \/ Rebind(h) \/ Forward(h) PROVE ChangeInv'
  BY <1>1, ChangeElsewhere DEF Request, Bind, Rebind, Forward, mirrorVars, frameVars
<1>2. ASSUME NEW h \in Hooks, Mutate(h) \/ SetValue(h) PROVE ChangeInv'
  <2>1. CASE Mutate(h)
    <3>0. /\ mutates' \in Nat /\ <<"mutate", mutates + 1>> \in Write
          /\ queue \in [Signals -> SUBSET Write]
      BY <2>1 DEF Mutate, ChangeInv, ValueInv, Write
    <3>1. queue' \in [Signals -> SUBSET Write] /\ mutates' \in Nat
      BY <2>1, <3>0 DEF Mutate
    <3>2. ASSUME scenario.set = 0, NEW s \in Signals, NEW op \in queue'[s] PROVE op[1] = "mutate"
      BY <2>1, <3>2 DEF Mutate, ChangeInv, ValueInv
    <3> QED
      BY <2>1, <3>1, <3>2
         DEF Mutate, ChangeInv, RunInv, ValueInv, SeenInv, Plain, IsResource, worldVars, mirrorVars, frameVars, signalVars
  <2>2. CASE SetValue(h)
    <3>1. scenario.set # 0 /\ ~Plain
      BY <2>2 DEF SetValue, ChangeInv, ValueInv, Plain
    <3>2. queue' \in [Signals -> SUBSET Write] /\ replaces' \in Nat /\ DOMAIN sent' = Signals
      BY <2>2 DEF SetValue, ChangeInv, ValueInv, Write, Signals
    <3> QED
      BY <2>2, <3>1, <3>2
         DEF SetValue, ChangeInv, RunInv, ValueInv, SeenInv, Plain, IsResource, worldVars, mirrorVars, frameVars, signalVars
  <2> QED BY <1>2, <2>1, <2>2
<1>3. CASE RequestTyped \/ StartFrame \/ RegisterOrGetQueryDyn \/ ElevateReflectQuery \/ EndFrame
  BY <1>3, ChangeElsewhere
     DEF RequestTyped, StartFrame, RegisterOrGetQueryDyn, ElevateReflectQuery, EndFrame,
         NextCommand, Idle, mirrorVars, frameVars
<1>4. CASE SpawnOrDespawn \/ BevyWrite
  <2>1. /\ pc = "bevy" /\ changed' = TRUE
        /\ UNCHANGED <<scenario, mutates, replaces, queue, typed, pc, todo, accepted, published,
                       sent, fresh>>
    BY <1>4 DEF SpawnOrDespawn, BevyWrite, editVars, mirrorVars, frameVars, signalVars
  <2>2. DOMAIN world' \subseteq Places
    BY <1>4 DEF SpawnOrDespawn, BevyWrite, ChangeInv, RunInv
  <2>3. IsResource => \A p \in DOMAIN world : p \in DOMAIN world' /\ world[p] \subseteq world'[p]
    BY <1>4 DEF SpawnOrDespawn, BevyWrite
  <2>4. ASSUME Plain, NEW v, Within(v, world) PROVE Within(v, world')
    BY <2>3, <2>4, MoreChanges DEF Plain
  <2> QED BY <2>1, <2>2, <2>4 DEF ChangeInv, RunInv, ValueInv, SeenInv, Plain, IsResource
<1>5. CASE RegisterOrGetResourceDyn
  <2>1. /\ pc = "commands"
        /\ UNCHANGED <<worldVars, editVars, typed, pc, todo, sent, fresh>>
        /\ \/ UNCHANGED <<accepted, published>>
           \/ Started("dyn", world)
    BY <1>5 DEF RegisterOrGetResourceDyn, NextCommand, frameVars, signalVars
  <2>2. Within(world, world)
    BY ItsOwn
  <2>3. ASSUME Started("dyn", world)
        PROVE  /\ accepted' = [accepted EXCEPT !["dyn"] = world]
               /\ published' = [published EXCEPT !["dyn"] = world]
    BY <2>3 DEF Started
  <2> QED
    BY <2>1, <2>2, <2>3
       DEF ChangeInv, RunInv, ValueInv, SeenInv, Plain, IsResource, worldVars, editVars, Signals
<1>6. CASE RequestBevyResource
  <2>1. /\ pc = "commands" /\ IsResource
        /\ UNCHANGED <<scenario, world, editVars, pc, todo, sent, fresh>>
        /\ \/ UNCHANGED <<typed, changed, accepted, published>>
           \/ changed' = TRUE /\ Started("typed", world)
    BY <1>6 DEF RequestBevyResource, NextCommand, frameVars, signalVars
  <2>2. Within(world, world)
    BY ItsOwn
  <2>3. ASSUME Started("typed", world)
        PROVE  /\ accepted' = [accepted EXCEPT !["typed"] = world]
               /\ published' = [published EXCEPT !["typed"] = world]
    BY <2>3 DEF Started
  <2>4. "drive typed" \in todo' => typed'
    <3>1. todo' = todo /\ ("drive typed" \in todo => typed)
      BY <2>1 DEF ChangeInv, RunInv
    <3>2. CASE typed' = TRUE
      BY <3>2
    <3>3. CASE UNCHANGED typed
      BY <3>1, <3>3
    <3> QED BY <1>6, <3>2, <3>3 DEF RequestBevyResource
  <2>5. RunInv'
    BY <2>1, <2>4 DEF ChangeInv, RunInv, IsResource
  <2>6. DOMAIN accepted' = Signals /\ DOMAIN published' = Signals
    BY <2>1, <2>3 DEF ChangeInv, ValueInv
  <2>7. ASSUME Plain, NEW r \in Signals PROVE Within(accepted'[r], world) /\ Within(published'[r], world)
    BY <2>1, <2>2, <2>3, <2>7 DEF ChangeInv, ValueInv, Signals
  <2>8. ValueInv'
    BY <2>1, <2>6, <2>7 DEF ChangeInv, ValueInv, Plain, IsResource, editVars
  <2>9. SeenInv'
    <3>1. pc # "sync" /\ pc' # "sync" /\ fresh = {} /\ fresh' = {} /\ sent' = sent
      BY <2>1 DEF ChangeInv, RunInv
    <3>2. Plain' => Plain
      BY <2>1 DEF Plain, IsResource
    <3>3. CASE changed' = TRUE
      BY <3>1, <3>2, <3>3 DEF ChangeInv, SeenInv
    <3>4. CASE UNCHANGED <<typed, changed, accepted>>
      BY <2>1, <3>1, <3>2, <3>4 DEF ChangeInv, SeenInv
    <3> QED BY <2>1, <3>3, <3>4
  <2> QED BY <2>5, <2>8, <2>9 DEF ChangeInv
<1>7. CASE RunSchedules
  <2>1. /\ pc # "sync" /\ pc' = "sync" /\ todo' = Due
        /\ sent' = [sent EXCEPT !["typed"] = IF typed /\ changed THEN world ELSE @]
        /\ changed' = (changed /\ ~typed)
        /\ UNCHANGED <<scenario, world, editVars, typed, accepted, published, fresh>>
    BY <1>7 DEF RunSchedules, Idle, mirrorVars, signalVars
  <2>2. fresh = {} /\ DOMAIN sent = Signals
    BY <2>1 DEF ChangeInv, RunInv, ValueInv
  <2>3. DOMAIN sent' = Signals
        /\ sent'["typed"] = (IF typed /\ changed THEN world ELSE sent["typed"])
        /\ sent'["dyn"] = sent["dyn"]
    BY <2>1, <2>2 DEF Signals
  <2>4. /\ "drive typed" \in Due <=> typed
        /\ "drive" \in Due => "read" \in Due /\ "write" \in Due /\ IsResource
        /\ "drive typed" \in Due => "write typed" \in Due
    BY DEF Due
  <2>5. RunInv'
    BY <2>1, <2>2, <2>4 DEF ChangeInv, RunInv, IsResource
  <2>6. Within(world, world) /\ Has(world, world) /\ world # Nothing
    BY ItsOwn, ReflectAssumption DEF ChangeInv, RunInv, Nothing
  <2>7. ValueInv'
    BY <2>1, <2>3, <2>6 DEF ChangeInv, ValueInv, Plain, IsResource, editVars, Signals
  <2>8. SeenInv'
    BY <2>1, <2>2, <2>3, <2>4, <2>6 DEF ChangeInv, SeenInv, Plain, IsResource
  <2> QED BY <2>5, <2>7, <2>8 DEF ChangeInv
<1>8. CASE EndRun
  <2>1. /\ pc = "sync" /\ todo = {} /\ pc' = "accumulate"
        /\ UNCHANGED <<worldVars, editVars, typed, todo, accepted, published, sent, fresh>>
    BY <1>8 DEF EndRun, mirrorVars, signalVars
  <2>2. fresh = {}
    BY <2>1 DEF ChangeInv, RunInv, Signals
  <2> QED
    BY <2>1, <2>2 DEF ChangeInv, RunInv, ValueInv, SeenInv, Plain, IsResource, worldVars, editVars
<1>9. CASE ReadResource \/ ReadQuery
  <2>1. /\ pc = "sync" /\ pc' = pc /\ todo' = todo \ {"read"}
        /\ sent' = [sent EXCEPT !["dyn"] = world]
        /\ UNCHANGED <<worldVars, editVars, typed, accepted, published, fresh>>
    BY <1>9 DEF ReadResource, ReadQuery, Runs, mirrorVars, signalVars
  <2>2. Within(world, world) /\ Has(world, world) /\ world # Nothing
    BY ItsOwn, ReflectAssumption DEF ChangeInv, RunInv, Nothing
  <2>3. DOMAIN sent' = Signals /\ sent'["dyn"] = world /\ sent'["typed"] = sent["typed"]
    BY <2>1 DEF ChangeInv, ValueInv, Signals
  <2>4. RunInv'
    BY <2>1 DEF ChangeInv, RunInv, IsResource, worldVars
  <2>5. ValueInv'
    BY <2>1, <2>2, <2>3
       DEF ChangeInv, ValueInv, Plain, IsResource, worldVars, editVars, Signals
  <2>6. SeenInv'
    BY <2>1, <2>2, <2>3 DEF ChangeInv, SeenInv, Plain, IsResource, worldVars
  <2> QED BY <2>4, <2>5, <2>6 DEF ChangeInv
<1>10. ASSUME NEW defer \in BOOLEAN, DriveReflectResourceSignals(defer) PROVE ChangeInv'
  <2>1. /\ pc = "sync" /\ "drive" \in todo /\ ("read" \in todo => scenario.driveFirst)
        /\ pc' = pc /\ todo' = todo \ {"drive"} /\ Tick("dyn", defer)
        /\ UNCHANGED <<worldVars, mutates, replaces, typed>>
    BY <1>10 DEF DriveReflectResourceSignals, Runs, mirrorVars
  <2>2. "dyn" \in Signals /\ todo' \subseteq todo
    BY <2>1 DEF Signals
  <2>3. /\ ValueInv'
        /\ fresh' \subseteq fresh \cup {"dyn"}
        /\ \A r \in Signals \ {"dyn"} : /\ sent'[r] = sent[r] /\ accepted'[r] = accepted[r]
                                         /\ published'[r] = published[r]
        /\ sent'["dyn"] = Nothing
        /\ Plain /\ Has(IF sent["dyn"] = Nothing THEN accepted["dyn"] ELSE sent["dyn"], world)
             => Has(accepted'["dyn"], world)
        /\ \/ published'["dyn"] = accepted'["dyn"]
           \/ published'["dyn"] = published["dyn"] /\ fresh' = fresh
    BY <2>1, <2>2, TickStep
  <2>4. /\ sent'["typed"] = sent["typed"] /\ accepted'["typed"] = accepted["typed"]
        /\ published'["typed"] = published["typed"]
    BY <2>3 DEF Signals
  <2>5. RunInv'
    BY <2>1, <2>3 DEF ChangeInv, RunInv, IsResource, worldVars, Signals
  <2>6. ASSUME Plain PROVE sent["dyn"] # Nothing /\ Has(sent["dyn"], world)
    BY <2>1, <2>6 DEF ChangeInv, SeenInv, Plain
  <2>7. SeenInv'
    <3> SUFFICES ASSUME Plain PROVE SeenInv'
      BY <2>1 DEF SeenInv, Plain, IsResource, worldVars
    <3>1. Has(accepted'["dyn"], world)
      BY <2>3, <2>6
    <3>2. ASSUME NEW r \in fresh' PROVE Has(published'[r], world)
      BY <2>3, <2>4, <3>1 DEF ChangeInv, RunInv, SeenInv, Signals
    <3> QED
      BY <2>1, <2>3, <2>4, <2>5, <3>1, <3>2 DEF ChangeInv, RunInv, SeenInv, worldVars
  <2> QED BY <2>3, <2>5, <2>7 DEF ChangeInv
<1>11. ASSUME NEW defer \in BOOLEAN, DriveSignal(defer) PROVE ChangeInv'
  <2>1. /\ pc = "sync" /\ "drive typed" \in todo
        /\ pc' = pc /\ todo' = todo \ {"drive typed"} /\ Tick("typed", defer)
        /\ UNCHANGED <<worldVars, mutates, replaces, typed>>
    BY <1>11 DEF DriveSignal, Runs, mirrorVars
  <2>2. "typed" \in Signals /\ todo' \subseteq todo
    BY <2>1 DEF Signals
  <2>3. /\ ValueInv'
        /\ fresh' \subseteq fresh \cup {"typed"}
        /\ \A r \in Signals \ {"typed"} : /\ sent'[r] = sent[r] /\ accepted'[r] = accepted[r]
                                         /\ published'[r] = published[r]
        /\ sent'["typed"] = Nothing
        /\ Plain /\ Has(IF sent["typed"] = Nothing THEN accepted["typed"] ELSE sent["typed"], world)
             => Has(accepted'["typed"], world)
        /\ \/ published'["typed"] = accepted'["typed"]
           \/ published'["typed"] = published["typed"] /\ fresh' = fresh
    BY <2>1, <2>2, TickStep
  <2>4. /\ sent'["dyn"] = sent["dyn"] /\ accepted'["dyn"] = accepted["dyn"]
        /\ published'["dyn"] = published["dyn"]
    BY <2>3 DEF Signals
  <2>5. RunInv'
    BY <2>1, <2>3 DEF ChangeInv, RunInv, IsResource, worldVars, Signals
  <2>6. ASSUME Plain
        PROVE  Has(IF sent["typed"] = Nothing THEN accepted["typed"] ELSE sent["typed"], world)
    BY <2>1, <2>6 DEF ChangeInv, SeenInv
  <2>7. SeenInv'
    <3> SUFFICES ASSUME Plain PROVE SeenInv'
      BY <2>1 DEF SeenInv, Plain, IsResource, worldVars
    <3>1. Has(accepted'["typed"], world)
      BY <2>3, <2>6
    <3>2. ASSUME NEW r \in fresh' PROVE Has(published'[r], world)
      BY <2>3, <2>4, <3>1 DEF ChangeInv, RunInv, SeenInv, Signals
    <3> QED
      BY <2>1, <2>3, <2>4, <2>5, <3>1, <3>2 DEF ChangeInv, RunInv, SeenInv, worldVars
  <2> QED BY <2>3, <2>5, <2>7 DEF ChangeInv
<1>12. CASE WriteResource \/ WriteQuery
  <2>1. /\ pc = "sync" /\ pc' = pc /\ todo' = todo \ {"write"}
        /\ {"drive", "drive typed"} \cap todo = {} /\ WriteBack("dyn", TRUE)
    BY <1>12 DEF WriteResource, WriteQuery, Posted, Runs
  <2> QED BY <2>1, WriteBackStep DEF Signals
<1>13. CASE SyncResourceToMirror
  <2>1. /\ pc = "sync" /\ pc' = pc /\ todo' = todo \ {"write typed"}
        /\ {"drive", "drive typed"} \cap todo = {} /\ WriteBack("typed", FALSE)
    BY <1>13 DEF SyncResourceToMirror, Posted, Runs
  <2> QED BY <2>1, WriteBackStep DEF Signals
<1>14. CASE UNCHANGED vars
  BY <1>14, ChangeElsewhere DEF vars, mirrorVars, frameVars
<1> QED
  BY <1>1, <1>2, <1>3, <1>4, <1>5, <1>6, <1>7, <1>8, <1>9, <1>10, <1>11, <1>12, <1>13, <1>14
     DEF Next, Dioxus, Frame, ApplyCommand

\* No write-back undoes a change of bevy's, whatever the interleaving of frames,
\* elevations, ticks that defer and closures: only a replacement, or a tick that
\* precedes the read of its run, can.
THEOREM DynamicChangesAreKept == Spec => BevyChangesKept
<1> DEFINE Kept == scenario.set = 0 /\ ~scenario.driveFirst
                     => \A p \in DOMAIN world \cap DOMAIN world' :
                          BevyPart(world[p]) \subseteq BevyPart(world'[p])
<1>1. ASSUME ChangeInv, [Next]_vars PROVE [Kept]_vars
  <2>1. CASE UNCHANGED world
    BY <2>1
  <2>2. CASE SpawnOrDespawn \/ BevyWrite
    BY <2>2 DEF SpawnOrDespawn, BevyWrite, BevyPart
  <2>3. CASE \E s \in Signals, marks \in BOOLEAN : WriteBack(s, marks) /\ (IsResource \/ s \notin fresh)
    BY <1>1, <2>3, WriteBackKeeps DEF Plain
  <2>4. CASE WriteResource \/ WriteQuery \/ SyncResourceToMirror
    BY <1>1, <2>3, <2>4
       DEF WriteResource, WriteQuery, SyncResourceToMirror, ChangeInv, RunInv, Posted, Runs, Signals
  <2> QED
    BY <1>1, <2>1, <2>2, <2>4
       DEF Next, Dioxus, Frame, ApplyCommand, vars, worldVars, Request, Mutate, SetValue, RequestTyped,
           Bind, Rebind, Forward, StartFrame, EndFrame, RunSchedules, EndRun, ReadResource, ReadQuery,
           RegisterOrGetResourceDyn, RegisterOrGetQueryDyn, RequestBevyResource, ElevateReflectQuery,
           DriveReflectResourceSignals, DriveSignal
<1> QED BY <1>1, ChangeInit, ChangeStep, PTL DEF Spec, BevyChangesKept

----------------------------------------------------------------------------
(* Types                                                                   *)

\* What happened so far, and the closures: the latest replacement is one of them.
EditTypes ==
    /\ scenario \in Scenarios
    /\ spawns \in 0..scenario.spawn /\ bevyWrites \in 0..scenario.bevy
    /\ mutates \in 0..scenario.mutate /\ replaces \in 0..scenario.set
    /\ queue \in [Signals -> SUBSET Write]
    /\ \A s \in Signals : \A op \in queue[s] : op[1] = "set" => op[2] <= replaces

\* Where the frame is: the systems of a mirror run, and its signal publishes, once
\* it exists.
FrameTypes ==
    /\ pc \in {"bevy", "commands", "accumulate", "sync"} /\ todo \subseteq Systems
    /\ pending \cup fresh \subseteq Signals /\ readable \subseteq Signals
    /\ "typed" \in readable \/ "drive typed" \in todo => typed
    /\ "dyn" \in readable \/ "drive" \in todo => mirror # "none"

\* Values of entities, of signals, and of hooks.
ValueTypes ==
    /\ IsValue(world) /\ changed \in BOOLEAN
    /\ DOMAIN shown = Hooks /\ \A h \in Hooks : shown[h] = Nothing \/ IsValue(shown[h])
    /\ DOMAIN sent = Signals /\ DOMAIN accepted = Signals /\ DOMAIN published = Signals
    /\ \A s \in Signals : /\ sent[s] = Nothing \/ IsValue(sent[s])
                          /\ IsValue(accepted[s]) /\ IsValue(published[s])

\* The numbers of a scenario.
LEMMA ScenarioTypes ==
    ASSUME scenario \in Scenarios
    PROVE  /\ scenario.spawn \in Nat /\ scenario.bevy \in Nat /\ scenario.mutate \in Nat
           /\ scenario.set \in Nat /\ scenario.places \subseteq Places
BY ReflectAssumption DEF Scenario

\* Of some writes with bounded numbers there is a latest.
LEMMA LatestIsOne ==
    ASSUME NEW ops \in SUBSET Write, ops # {}, NEW n \in Nat, \A op \in ops : op[2] <= n
    PROVE  Latest(ops) \in ops
<1> DEFINE T == {k \in 0..n : \E op \in ops : op[2] = k}
<1>1. \A op \in ops : op[2] \in Nat
  BY DEF Write
<1>2. T \in SUBSET Nat /\ T # {} /\ (\A x \in T : x <= n) /\ (\A op \in ops : op[2] \in T)
  BY <1>1
<1>3. \A x \in T : \E op \in ops : op[2] = x
  OBVIOUS
<1> HIDE DEF T
<1>4. PICK x \in T : \A y \in T : y <= x
  BY <1>2, GreatestMember
<1>5. PICK op \in ops : op[2] = x
  BY <1>3
<1>6. \A o \in ops : o[2] <= op[2]
  BY <1>2, <1>4, <1>5
<1> QED BY <1>6 DEF Latest

\* Closures make a value of a value.
LEMMA AppliedIsValue ==
    ASSUME NEW v, IsValue(v), NEW ops \in SUBSET Write, NEW n \in Nat,
           \A op \in ops : op[1] = "set" => op[2] <= n
    PROVE  IsValue(Applied(v, ops))
<1> DEFINE replacing == {op \in ops : op[1] = "set"}
<1>1. replacing # {} => Latest(replacing) \in Write
  <2>1. replacing \in SUBSET Write /\ \A op \in replacing : op[2] <= n
    OBVIOUS
  <2> HIDE DEF replacing
  <2> QED BY <2>1, LatestIsOne
<1>2. ops \ replacing \subseteq Write
  OBVIOUS
<1>3. Applied(v, ops) = [p \in DOMAIN v |-> (IF replacing = {} THEN v[p] ELSE {Latest(replacing)})
                                              \cup (ops \ replacing)]
  BY Zenon DEF Applied
<1> HIDE DEF replacing
<1> QED BY <1>1, <1>2, <1>3 DEF IsValue

\* The steps that send no closure and touch no counter.
LEMMA EditsElsewhere ==
    ASSUME EditTypes, UNCHANGED <<scenario, spawns, bevyWrites, mutates, replaces>>,
           \/ UNCHANGED queue
           \/ \E s \in Signals : queue' = [queue EXCEPT ![s] = {}]
    PROVE  EditTypes'
BY DEF EditTypes

\* Every step keeps the bounds, and the numbers of the closures within them.
LEMMA EditStep == ChannelInv /\ EditTypes /\ [Next]_vars => EditTypes'
<1> SUFFICES ASSUME ChannelInv, EditTypes, [Next]_vars PROVE EditTypes'
  OBVIOUS
<1>0. /\ scenario.spawn \in Nat /\ scenario.bevy \in Nat /\ scenario.mutate \in Nat
      /\ scenario.set \in Nat
  BY ScenarioTypes DEF EditTypes
<1>1. ASSUME NEW h \in Hooks, Mutate(h) PROVE EditTypes'
  <2>1. /\ mutates < scenario.mutate /\ mutates' = mutates + 1
        /\ queue' = [queue EXCEPT ![bound[h]] = @ \cup {<<"mutate", mutates + 1>>}]
        /\ UNCHANGED <<scenario, spawns, bevyWrites, replaces>>
    BY <1>1 DEF Mutate, worldVars
  <2>2. <<"mutate", mutates + 1>> \in Write /\ mutates + 1 \in 0..scenario.mutate
    BY <1>0, <2>1 DEF EditTypes, Write
  <2>3. queue' \in [Signals -> SUBSET Write]
    BY <2>1, <2>2 DEF EditTypes
  <2>4. \A s \in Signals : \A op \in queue'[s] : op[1] = "set" => op \in queue[s]
    BY <2>1 DEF EditTypes
  <2> QED BY <2>1, <2>2, <2>3, <2>4 DEF EditTypes
<1>2. ASSUME NEW h \in Hooks, SetValue(h) PROVE EditTypes'
  <2>1. /\ replaces < scenario.set /\ replaces' = replaces + 1
        /\ \/ UNCHANGED queue
           \/ queue' = [queue EXCEPT !["typed"] = @ \cup {<<"set", replaces + 1>>}]
        /\ UNCHANGED <<scenario, spawns, bevyWrites, mutates>>
    BY <1>2 DEF SetValue, worldVars
  <2>2. <<"set", replaces + 1>> \in Write /\ replaces + 1 \in 0..scenario.set /\ replaces \in Nat
    BY <1>0, <2>1 DEF EditTypes, Write
  <2>3. queue' \in [Signals -> SUBSET Write]
    BY <2>1, <2>2 DEF EditTypes
  <2>4. \A s \in Signals : \A op \in queue'[s] : op \in queue[s] \/ op = <<"set", replaces + 1>>
    BY <2>1 DEF EditTypes
  <2>5. ASSUME NEW s \in Signals, NEW op \in queue'[s], op[1] = "set" PROVE op[2] <= replaces'
    <3>1. CASE op \in queue[s]
      <4>1. op[2] \in Nat /\ op[2] <= replaces
        BY <2>5, <3>1 DEF EditTypes, Write
      <4> QED BY <2>1, <2>2, <4>1
    <3>2. CASE op = <<"set", replaces + 1>>
      BY <2>1, <2>2, <3>2
    <3> QED BY <2>4, <3>1, <3>2
  <2> QED BY <2>1, <2>2, <2>3, <2>5 DEF EditTypes
<1>3. CASE SpawnOrDespawn
  <2>1. /\ spawns < scenario.spawn /\ spawns' = spawns + 1
        /\ UNCHANGED <<scenario, bevyWrites, mutates, replaces, queue>>
    BY <1>3 DEF SpawnOrDespawn, editVars
  <2> QED BY <1>0, <2>1 DEF EditTypes
<1>4. CASE BevyWrite
  <2>1. /\ bevyWrites < scenario.bevy /\ bevyWrites' = bevyWrites + 1
        /\ UNCHANGED <<scenario, spawns, mutates, replaces, queue>>
    BY <1>4 DEF BevyWrite, editVars
  <2> QED BY <1>0, <2>1 DEF EditTypes
<1>5. ASSUME NEW h \in Hooks, Request(h) \/ Bind(h) \/ Rebind(h) \/ Forward(h) PROVE EditTypes'
  BY <1>5, EditsElsewhere DEF Request, Bind, Rebind, Forward, worldVars, editVars
<1>6. CASE RequestTyped \/ StartFrame \/ EndFrame \/ RunSchedules \/ EndRun \/ ReadResource \/ ReadQuery
  BY <1>6, EditsElsewhere
     DEF RequestTyped, StartFrame, EndFrame, RunSchedules, EndRun, ReadResource, ReadQuery, worldVars, editVars
<1>7. CASE ApplyCommand
  BY <1>7, EditsElsewhere
     DEF ApplyCommand, RegisterOrGetResourceDyn, RegisterOrGetQueryDyn, RequestBevyResource,
         ElevateReflectQuery, worldVars, editVars
<1>8. ASSUME NEW defer \in BOOLEAN, DriveReflectResourceSignals(defer) \/ DriveSignal(defer)
      PROVE  EditTypes'
  <2>1. /\ \E s \in Signals : queue' = [queue EXCEPT ![s] = {}]
        /\ UNCHANGED <<scenario, spawns, bevyWrites, mutates, replaces>>
    BY <1>8 DEF DriveReflectResourceSignals, DriveSignal, Tick, worldVars, Signals
  <2> QED BY <2>1, EditsElsewhere
<1>9. CASE WriteResource \/ WriteQuery \/ SyncResourceToMirror
  BY <1>9, EditsElsewhere DEF WriteResource, WriteQuery, SyncResourceToMirror, WriteBack, editVars
<1>10. CASE UNCHANGED vars
  BY <1>10, EditsElsewhere DEF vars, worldVars, editVars
<1> QED
  BY <1>1, <1>2, <1>3, <1>4, <1>5, <1>6, <1>7, <1>8, <1>9, <1>10 DEF Next, Dioxus, Frame

\* The steps that run no system, publish nothing and make no mirror.
LEMMA FrameElsewhere ==
    ASSUME FrameTypes, UNCHANGED <<frameVars, pending, readable, fresh, mirror, typed>>
    PROVE  FrameTypes'
BY DEF FrameTypes, frameVars

\* Every step keeps the systems and the signals within what exists.
LEMMA FrameStep == ChannelInv /\ FrameTypes /\ [Next]_vars => FrameTypes'
<1> SUFFICES ASSUME ChannelInv, FrameTypes, [Next]_vars PROVE FrameTypes'
  OBVIOUS
<1>1. ASSUME NEW h \in Hooks, \/ Request(h) \/ Bind(h) \/ Rebind(h) \/ Forward(h)
                              \/ Mutate(h) \/ SetValue(h)
      PROVE  FrameTypes'
  BY <1>1, FrameElsewhere DEF Request, Bind, Rebind, Forward, Mutate, SetValue, mirrorVars, signalVars
<1>2. CASE RequestTyped \/ SpawnOrDespawn \/ BevyWrite
  BY <1>2, FrameElsewhere DEF RequestTyped, SpawnOrDespawn, BevyWrite, mirrorVars, signalVars
<1>3. CASE RegisterOrGetResourceDyn
  <2>1. /\ UNCHANGED <<frameVars, pending, readable, fresh, typed>>
        /\ mirror' = mirror \/ mirror' # "none"
    BY <1>3 DEF RegisterOrGetResourceDyn, signalVars
  <2> QED BY <2>1 DEF FrameTypes, frameVars
<1>4. CASE RegisterOrGetQueryDyn \/ ElevateReflectQuery
  <2>1. /\ UNCHANGED <<frameVars, pending, readable, fresh, typed>>
        /\ mirror' = mirror \/ mirror' # "none"
    BY <1>4 DEF RegisterOrGetQueryDyn, ElevateReflectQuery, signalVars
  <2> QED BY <2>1 DEF FrameTypes, frameVars
<1>5. CASE RequestBevyResource
  <2>1. UNCHANGED <<frameVars, pending, readable, fresh>>
    BY <1>5 DEF RequestBevyResource
  <2>2. CASE typed' = TRUE /\ NotifyTypedResourceMirror
    <3>1. mirror # "none" => mirror' # "none"
      BY <2>2 DEF NotifyTypedResourceMirror
    <3> QED BY <2>1, <2>2, <3>1 DEF FrameTypes, frameVars
  <2>3. CASE UNCHANGED <<typed, mirror>>
    BY <2>1, <2>3, FrameElsewhere
  <2> QED BY <1>5, <2>2, <2>3 DEF RequestBevyResource
<1>6. CASE StartFrame \/ EndFrame \/ EndRun
  <2>1. /\ pc' \in {"bevy", "commands", "accumulate"}
        /\ UNCHANGED <<todo, pending, readable, fresh, typed, mirror>>
    BY <1>6 DEF StartFrame, EndFrame, EndRun, mirrorVars, signalVars
  <2> QED BY <2>1 DEF FrameTypes
<1>7. CASE RunSchedules
  <2>1. /\ pc' = "sync" /\ todo' = Due /\ UNCHANGED <<pending, readable, fresh, typed, mirror>>
    BY <1>7 DEF RunSchedules, mirrorVars, signalVars
  <2>2. Due \subseteq Systems /\ ("drive typed" \in Due => typed) /\ ("drive" \in Due => mirror # "none")
    BY DEF Due, Systems
  <2> QED BY <2>1, <2>2 DEF FrameTypes
<1>8. CASE ReadResource \/ ReadQuery
  <2>1. /\ pc' = pc /\ todo' \subseteq todo
        /\ UNCHANGED <<pending, readable, fresh, typed, mirror>>
    BY <1>8 DEF ReadResource, ReadQuery, Runs, mirrorVars, signalVars
  <2> QED BY <2>1 DEF FrameTypes
<1>9. ASSUME NEW defer \in BOOLEAN, NEW s \in Signals, Tick(s, defer),
             s = "typed" => "drive typed" \in todo, s = "dyn" => "drive" \in todo,
             pc' = pc, todo' \subseteq todo, UNCHANGED <<typed, mirror>>
      PROVE  FrameTypes'
  <2>1. /\ pending' \subseteq pending \cup {s} /\ fresh' \subseteq fresh \cup {s}
        /\ readable' \subseteq readable \cup {s}
    BY <1>9 DEF Tick
  <2> QED BY <1>9, <2>1 DEF FrameTypes
<1>10. ASSUME NEW defer \in BOOLEAN, DriveReflectResourceSignals(defer) \/ DriveSignal(defer)
       PROVE  FrameTypes'
  BY <1>9, <1>10 DEF DriveReflectResourceSignals, DriveSignal, Runs, mirrorVars, Signals
<1>11. CASE WriteResource \/ WriteQuery \/ SyncResourceToMirror
  <2>1. /\ pc' = pc /\ todo' \subseteq todo /\ fresh' \subseteq fresh
        /\ UNCHANGED <<pending, readable, typed, mirror>>
    BY <1>11
       DEF WriteResource, WriteQuery, SyncResourceToMirror, WriteBack, Posted, Runs, mirrorVars, signalVars
  <2> QED BY <2>1 DEF FrameTypes
<1>12. CASE UNCHANGED vars
  BY <1>12, FrameElsewhere DEF vars, mirrorVars, signalVars
<1> QED
  BY <1>1, <1>2, <1>3, <1>4, <1>5, <1>6, <1>7, <1>8, <1>10, <1>11, <1>12
     DEF Next, Dioxus, Frame, ApplyCommand

\* The steps that move no value.
LEMMA ValuesElsewhere ==
    ASSUME ValueTypes, UNCHANGED <<world, shown, sent, accepted, published>>, changed' \in BOOLEAN
    PROVE  ValueTypes'
BY DEF ValueTypes, IsValue

\* A hook shows what a signal has published.
LEMMA ShowsPublished ==
    ASSUME ValueTypes, NEW h \in Hooks, NEW s \in Signals,
           shown' = [shown EXCEPT ![h] = published[s]],
           UNCHANGED <<world, changed, sent, accepted, published>>
    PROVE  ValueTypes'
BY DEF ValueTypes, IsValue

\* A signal starts with bevy's value.
LEMMA StartedTypes ==
    ASSUME ValueTypes, NEW s \in Signals, Started(s, world),
           UNCHANGED <<world, shown, sent>>, changed' \in BOOLEAN
    PROVE  ValueTypes'
BY DEF ValueTypes, Started, IsValue

\* A value is sent.
LEMMA SentTypes ==
    ASSUME ValueTypes, NEW s \in Signals, NEW v, IsValue(v),
           sent' = [sent EXCEPT ![s] = v],
           UNCHANGED <<world, shown, accepted, published>>, changed' \in BOOLEAN
    PROVE  ValueTypes'
BY DEF ValueTypes, IsValue

\* Every step makes values of values.
LEMMA ValueStep == ChannelInv /\ EditTypes /\ ValueTypes /\ [Next]_vars => ValueTypes'
<1> SUFFICES ASSUME ChannelInv, EditTypes, ValueTypes, [Next]_vars PROVE ValueTypes'
  OBVIOUS
<1>0. changed \in BOOLEAN /\ typed \in BOOLEAN /\ IsValue(world) /\ scenario.places \subseteq Places
  BY ScenarioTypes DEF ValueTypes, ChannelInv, CommandInv, EditTypes
<1>1. ASSUME NEW h \in Hooks, Request(h) \/ Mutate(h) PROVE ValueTypes'
  BY <1>0, <1>1, ValuesElsewhere DEF Request, Mutate, worldVars, hookVars, signalVars
<1>2. ASSUME NEW h \in Hooks, Bind(h) \/ Rebind(h) \/ Forward(h) PROVE ValueTypes'
  <2>1. handle \in Signals /\ (hook[h] \in {"answered", "bound"} => bound[h] \in Signals)
    BY DEF ChannelInv, CommandInv, AnswerInv
  <2>2. /\ \E s \in Signals : shown' = [shown EXCEPT ![h] = published[s]]
        /\ UNCHANGED <<world, changed, sent, accepted, published>>
    BY <1>2, <2>1 DEF Bind, Rebind, Forward, worldVars, signalVars
  <2> QED BY <2>2, ShowsPublished
<1>3. ASSUME NEW h \in Hooks, SetValue(h) PROVE ValueTypes'
  <2>1. UNCHANGED <<world, changed, shown, accepted, published>>
    BY <1>3 DEF SetValue, worldVars, hookVars, signalVars
  <2>2. CASE UNCHANGED sent
    BY <1>0, <2>1, <2>2, ValuesElsewhere
  <2>3. CASE sent' = [sent EXCEPT !["dyn"] = [p \in scenario.places |-> {<<"set", replaces + 1>>}]]
    <3>1. <<"set", replaces + 1>> \in Write
      BY DEF EditTypes, Write
    <3>2. IsValue([p \in scenario.places |-> {<<"set", replaces + 1>>}])
      BY <1>0, <3>1 DEF IsValue
    <3> QED BY <1>0, <2>1, <2>3, <3>2, SentTypes DEF Signals
  <2> QED BY <1>3, <2>2, <2>3 DEF SetValue
<1>4. CASE SpawnOrDespawn
  <2>1. changed' = TRUE /\ UNCHANGED <<shown, sent, accepted, published>>
    BY <1>4 DEF SpawnOrDespawn, hookVars, signalVars
  <2>2. IsValue(world')
    <3>1. PICK p \in scenario.places :
            \/ world' = [q \in DOMAIN world \cup {p} |-> IF q = p THEN {} ELSE world[q]]
            \/ world' = [q \in DOMAIN world \ {p} |-> world[q]]
      BY <1>4 DEF SpawnOrDespawn
    <3> QED BY <1>0, <3>1 DEF IsValue
  <2> QED BY <2>1, <2>2 DEF ValueTypes, IsValue
<1>5. CASE BevyWrite
  <2>1. changed' = TRUE /\ UNCHANGED <<shown, sent, accepted, published>>
    BY <1>5 DEF BevyWrite, hookVars, signalVars
  <2>2. <<"bevy", bevyWrites + 1>> \in Write
    BY DEF EditTypes, Write
  <2>3. PICK p \in DOMAIN world : world' = [world EXCEPT ![p] = @ \cup {<<"bevy", bevyWrites + 1>>}]
    BY <1>5 DEF BevyWrite
  <2>4. IsValue(world')
    BY <1>0, <2>2, <2>3 DEF IsValue
  <2> QED BY <2>1, <2>4 DEF ValueTypes, IsValue
<1>6. CASE RequestTyped \/ StartFrame \/ EndFrame \/ EndRun \/ RegisterOrGetQueryDyn \/ ElevateReflectQuery
  BY <1>0, <1>6, ValuesElsewhere
     DEF RequestTyped, StartFrame, EndFrame, EndRun, RegisterOrGetQueryDyn, ElevateReflectQuery,
         worldVars, hookVars, signalVars
<1>7. CASE RegisterOrGetResourceDyn
  <2>1. /\ UNCHANGED <<world, changed, shown, sent>>
        /\ UNCHANGED <<accepted, published>> \/ Started("dyn", world)
    BY <1>7 DEF RegisterOrGetResourceDyn, worldVars, signalVars
  <2> QED BY <1>0, <2>1, ValuesElsewhere, StartedTypes DEF Signals
<1>8. CASE RequestBevyResource
  <2>1. /\ UNCHANGED <<world, shown, sent>> /\ changed' \in BOOLEAN
        /\ UNCHANGED <<accepted, published>> \/ Started("typed", world)
    BY <1>0, <1>8 DEF RequestBevyResource
  <2> QED BY <2>1, ValuesElsewhere, StartedTypes DEF Signals
<1>9. CASE RunSchedules
  <2>1. /\ sent' = [sent EXCEPT !["typed"] = IF typed /\ changed THEN world ELSE @]
        /\ changed' \in BOOLEAN /\ UNCHANGED <<world, shown, accepted, published>>
    BY <1>0, <1>9 DEF RunSchedules, hookVars, signalVars
  <2> QED BY <1>0, <2>1 DEF ValueTypes, IsValue
<1>10. CASE ReadResource \/ ReadQuery
  <2>1. /\ sent' = [sent EXCEPT !["dyn"] = world]
        /\ UNCHANGED <<world, changed, shown, accepted, published>>
    BY <1>10 DEF ReadResource, ReadQuery, worldVars, hookVars, signalVars
  <2> QED BY <1>0, <2>1, SentTypes DEF Signals
<1>11. ASSUME NEW defer \in BOOLEAN, NEW s \in Signals, Tick(s, defer),
              UNCHANGED <<world, changed, shown>>
       PROVE  ValueTypes'
  <2>1. /\ accepted' = [accepted EXCEPT ![s] = Drained(s)]
        /\ sent' = [sent EXCEPT ![s] = Nothing]
        /\ \/ published' = [published EXCEPT ![s] = accepted'[s]]
           \/ published' = published
    BY <1>11 DEF Tick
  <2>2. IsValue(Drained(s))
    <3>1. /\ queue[s] \in SUBSET Write /\ replaces \in Nat
          /\ \A op \in queue[s] : op[1] = "set" => op[2] <= replaces
      BY DEF EditTypes
    <3>2. IsValue(IF sent[s] = Nothing THEN accepted[s] ELSE sent[s])
      BY DEF ValueTypes
    <3> QED BY <3>1, <3>2, AppliedIsValue DEF Drained
  <2>3. DOMAIN sent = Signals /\ DOMAIN accepted = Signals /\ DOMAIN published = Signals
    BY DEF ValueTypes
  <2>4. /\ DOMAIN sent' = Signals /\ DOMAIN accepted' = Signals /\ DOMAIN published' = Signals
        /\ accepted'[s] = Drained(s) /\ sent'[s] = Nothing
        /\ published'[s] = Drained(s) \/ published'[s] = published[s]
        /\ \A r \in Signals \ {s} : /\ sent'[r] = sent[r] /\ accepted'[r] = accepted[r]
                                    /\ published'[r] = published[r]
    BY <2>1, <2>3
  <2>5. ASSUME NEW r \in Signals
        PROVE  (sent'[r] = Nothing \/ IsValue(sent'[r])) /\ IsValue(accepted'[r]) /\ IsValue(published'[r])
    <3>1. CASE r = s
      BY <2>2, <2>4, <3>1 DEF ValueTypes
    <3>2. CASE r # s
      BY <2>4, <3>2 DEF ValueTypes
    <3> QED BY <3>1, <3>2
  <2> QED BY <1>11, <2>4, <2>5 DEF ValueTypes, IsValue
<1>12. ASSUME NEW defer \in BOOLEAN, DriveReflectResourceSignals(defer) \/ DriveSignal(defer)
       PROVE  ValueTypes'
  BY <1>11, <1>12 DEF DriveReflectResourceSignals, DriveSignal, worldVars, hookVars, Signals
<1>13. ASSUME NEW s \in Signals, NEW marks \in BOOLEAN, WriteBack(s, marks) PROVE ValueTypes'
  <2>1. UNCHANGED <<shown, sent, accepted, published>>
    BY <1>13 DEF WriteBack, hookVars, signalVars
  <2>2. IsValue(Merged(s))
    BY DEF Merged, ValueTypes, IsValue
  <2>3. IsValue(world')
    BY <1>0, <1>13, <2>2 DEF WriteBack
  <2>4. changed' \in BOOLEAN
    BY <1>0, <1>13, Zenon DEF WriteBack
  <2> QED BY <2>1, <2>3, <2>4 DEF ValueTypes, IsValue
<1>14. CASE WriteResource \/ WriteQuery \/ SyncResourceToMirror
  BY <1>13, <1>14 DEF WriteResource, WriteQuery, SyncResourceToMirror, Signals
<1>15. CASE UNCHANGED vars
  BY <1>0, <1>15, ValuesElsewhere DEF vars, worldVars, hookVars, signalVars
<1> QED
  BY <1>1, <1>2, <1>3, <1>4, <1>5, <1>6, <1>7, <1>8, <1>9, <1>10, <1>12, <1>14, <1>15
     DEF Next, Dioxus, Frame, ApplyCommand

\* At first no mirror exists.
LEMMA TypesInit == Init => EditTypes /\ FrameTypes /\ ValueTypes
<1> SUFFICES ASSUME Init PROVE EditTypes /\ FrameTypes /\ ValueTypes
  OBVIOUS
<1>1. EditTypes
  BY ScenarioTypes DEF Init, EditTypes
<1>2. FrameTypes
  BY DEF Init, FrameTypes
<1>3. IsValue(Empty)
  BY DEF IsValue, Empty
<1>4. IsValue(world)
  BY ScenarioTypes DEF Init, IsValue
<1>5. ValueTypes
  BY <1>3, <1>4 DEF Init, ValueTypes
<1> QED BY <1>1, <1>2, <1>5

\* Whatever hooks ask, write and are told, in whatever order with the commands,
\* the frames and the two mirrors' ticks: the command channel holds each request
\* once, a hook has a handle iff it was answered, and no signal publishes before
\* its mirror exists.
THEOREM TypesCorrect == Spec => []TypeOK
<1> DEFINE Inv == ChannelInv /\ EditTypes /\ FrameTypes /\ ValueTypes
<1>1. Init => Inv
  BY ChannelInit, TypesInit
<1>2. Inv /\ [Next]_vars => Inv'
  BY ChannelStep, EditStep, FrameStep, ValueStep
<1>3. Inv => TypeOK
  <2> SUFFICES ASSUME Inv PROVE TypeOK
    OBVIOUS
  <2>1. \A h \in Hooks : (hook[h] \in {"answered", "bound"}) = (bound[h] # "none")
    BY DEF ChannelInv, AnswerInv
  <2> QED
    BY <2>1 DEF TypeOK, ChannelInv, CommandInv, AnswerInv, EditTypes, FrameTypes, ValueTypes
<1> QED BY <1>1, <1>2, <1>3, PTL DEF Spec

----------------------------------------------------------------------------
(* Reflected values                                                        *)

\* The kinds of primitives are distinct.
LEMMA KindTypes ==
    /\ Integer = {"I8", "I16", "I32", "I64", "U8", "U16", "U32", "U64"}
    /\ "Bool" \notin Integer \cup Float /\ "String" \notin Integer \cup Float
    /\ Integer \cap Float = {}
BY DEF Integer, Low, Float

\* A text is a numeral without or with a sign, or a word.
LEMMA TextTypes ==
    ASSUME NEW text \in Text
    PROVE  /\ text.sort = "numeral" => text.rank \in Numerals /\ Numeral(text.rank, FALSE) \in Text
           /\ text.sort = "numeral" => text.word = ""
           /\ Word("rounded") \in Text
<1>1. PICK n \in Numerals, b \in BOOLEAN, w \in {"true", "false", "NaN", "rounded", "else"} :
        text = Numeral(n, b) \/ text = Word(w)
  <2>1. Zero..25 \subseteq Numerals /\ 0 \in Numerals
    BY DEF Zero, Numerals
  <2> QED BY <2>1 DEF Text
<1>2. \A m \in Numerals : Numeral(m, FALSE) \in Text
  BY DEF Text
<1>3. Word("rounded") \in Text
  BY DEF Text
<1>4. CASE text = Numeral(n, b)
  BY <1>2, <1>3, <1>4 DEF Numeral
<1>5. CASE text = Word(w)
  BY <1>3, <1>5 DEF Word
<1> QED BY <1>1, <1>4, <1>5

\* What parsing a text makes.
LEMMA ParseTypes ==
    ASSUME NEW kind \in PrimitiveKind, NEW text \in Text, Parse(text, kind) # None
    PROVE  \E t \in Text : Parse(text, kind) = Leaf(kind, t) /\ Parse(t, kind) = Leaf(kind, t)
<1>1. CASE kind = "String"
  BY <1>1, KindTypes DEF Parse
<1>2. CASE kind = "Bool"
  BY <1>2, KindTypes DEF Parse
<1>3. CASE kind \in Integer
  <2>1. kind # "String" /\ kind # "Bool" /\ kind \notin Float
    BY <1>3, KindTypes
  <2>2. /\ text.sort = "numeral" /\ InRange(text.rank, kind)
        /\ Parse(text, kind) = Leaf(kind, Numeral(text.rank, FALSE))
    BY <1>3, <2>1 DEF Parse
  <2> DEFINE t == Numeral(text.rank, FALSE)
  <2>3. t \in Text /\ t.sort = "numeral" /\ t.rank = text.rank
    BY <2>2, TextTypes DEF Numeral
  <2>4. Parse(t, kind) = Leaf(kind, t)
    BY <1>3, <2>1, <2>2, <2>3 DEF Parse
  <2> QED BY <2>2, <2>3, <2>4
<1>4. CASE kind \in Float
  <2>1. kind # "String" /\ kind # "Bool" /\ kind \notin Integer
    BY <1>4, KindTypes
  <2>2. CASE text.sort = "numeral" /\ SmallInteger(text.rank)
    <3> DEFINE t == Numeral(text.rank, FALSE)
    <3>1. t \in Text /\ t.sort = "numeral" /\ t.rank = text.rank
      BY <2>2, TextTypes DEF Numeral
    <3>2. Parse(text, kind) = Leaf(kind, t)
      BY <1>4, <2>1, <2>2, TextTypes DEF Parse
    <3>3. Parse(t, kind) = Leaf(kind, t)
      BY <1>4, <2>1, <2>2, <3>1 DEF Parse
    <3> QED BY <3>1, <3>2, <3>3
  <2>3. Word("rounded") \in Text /\ Parse(Word("rounded"), kind) = Leaf(kind, Word("rounded"))
    BY <1>4, <2>1, TextTypes DEF Parse, Word
  <2>4. CASE text.sort = "numeral" /\ ~SmallInteger(text.rank)
    <3>1. Parse(text, kind) = Leaf(kind, Word("rounded"))
      BY <1>4, <2>1, <2>4, TextTypes DEF Parse
    <3> QED BY <2>3, <3>1
  <2>5. CASE text.sort # "numeral"
    BY <1>4, <2>1, <2>5 DEF Parse
  <2> QED BY <2>2, <2>4, <2>5
<1> QED BY <1>1, <1>2, <1>3, <1>4 DEF PrimitiveKind

\* A text that parses, shown as its value and parsed again, makes the same value:
\* for every kind and text, in range or rounded.
THEOREM ParsesAreStable ==
    ASSUME NEW kind \in PrimitiveKind, NEW text \in Text
    PROVE  ParseIsStable(text, kind)
BY ParseTypes DEF ParseIsStable, Repr, Leaf

\* resolve_name in any finite registry, whose full paths are distinct: a full path
\* wins over short ones, and a short path that several types have is ambiguous.
THEOREM NamesAreExact ==
    ASSUME NEW registry, IsFiniteSet(DOMAIN registry),
           \A t, u \in DOMAIN registry : registry[t].full = registry[u].full => t = u,
           NEW name
    PROVE  NameIsExact(registry, name)
<1> DEFINE infos == EnumerateReflectTypes(registry)
           full  == {t \in infos : registry[t].full = name}
           short == {t \in infos : registry[t].short = name}
           found == ResolveName(registry, name)
<1>1. infos \subseteq DOMAIN registry /\ full \subseteq DOMAIN registry /\ short \subseteq DOMAIN registry
  BY DEF EnumerateReflectTypes
<1>2. Matches(registry, infos, name) = IF full # {} THEN full ELSE short
  BY DEF Matches
<1>3. full # {} => Cardinality(full) = 1
  <2> SUFFICES ASSUME NEW t \in full PROVE Cardinality(full) = 1
    OBVIOUS
  <2>1. full = {t}
    BY <1>1
  <2> HIDE DEF full
  <2> QED BY <2>1, FS_Singleton
<1>4. Cardinality({}) = 0
  BY FS_EmptySet
<1> HIDE DEF infos, full, short
<1>5. CASE full # {}
  <2>1. found.type = full
    BY <1>2, <1>3, <1>5 DEF ResolveName, infos
  <2> QED BY <1>5, <2>1 DEF NameIsExact, infos, full
<1>6. CASE full = {} /\ Cardinality(short) = 1
  <2>1. found.type = short
    BY <1>2, <1>6 DEF ResolveName, infos
  <2> QED BY <1>6, <2>1 DEF NameIsExact, infos, full, short
<1>7. CASE full = {} /\ Cardinality(short) # 1
  <2>1. ~found.ok /\ found.error = IF short = {} THEN NotFound ELSE Ambiguous
    BY <1>2, <1>7 DEF ResolveName, infos
  <2>2. (found.error = Ambiguous) = (short # {})
    BY <2>1 DEF Ambiguous, NotFound
  <2> QED BY <1>7, <2>1, <2>2 DEF NameIsExact, infos, full, short
<1> QED BY <1>5, <1>6, <1>7

----------------------------------------------------------------------------
(* Paths                                                                   *)

\* The recursion of Reached, by induction on the length of the path.
LEMMA ReachedUnfold ==
    ASSUME NEW value, NEW path, Len(path) \in Nat
    PROVE  Reached(value, path) = [n \in 0..Len(path) |->
                                     IF n = 0 THEN value ELSE FieldAt(Reached(value, path)[n - 1], path[n])]
<1> DEFINE m    == Len(path)
           From(f, k) == [n \in 0..k |-> IF n = 0 THEN value ELSE FieldAt(f[n - 1], path[n])]
           Done == {k \in 0..m : \E f : f = From(f, k)}
<1>1. 0 \in Done
  <2>1. [n \in 0..0 |-> value] = From([n \in 0..0 |-> value], 0)
    OBVIOUS
  <2>2. \E f : f = From(f, 0)
    BY <2>1
  <2>3. 0 \in 0..m
    OBVIOUS
  <2> QED BY <2>2, <2>3
<1>2. \A k \in 0..(m - 1) : k \in Done => k + 1 \in Done
  <2> SUFFICES ASSUME NEW k \in 0..(m - 1), NEW f, f = From(f, k)
               PROVE  \E g : g = From(g, k + 1)
    OBVIOUS
  <2> DEFINE g == [n \in 0..(k + 1) |-> IF n = k + 1 THEN FieldAt(f[k], path[n]) ELSE f[n]]
  <2>1. \A n \in 0..(k + 1) : g[n] = IF n = 0 THEN value ELSE FieldAt(g[n - 1], path[n])
    <3> SUFFICES ASSUME NEW n \in 0..(k + 1)
                 PROVE  g[n] = IF n = 0 THEN value ELSE FieldAt(g[n - 1], path[n])
      OBVIOUS
    <3>1. CASE n = k + 1
      BY <3>1
    <3>2. CASE n # k + 1
      <4>1. g[n] = f[n] /\ n \in 0..k /\ (n # 0 => g[n - 1] = f[n - 1])
        BY <3>2
      <4>2. f[n] = IF n = 0 THEN value ELSE FieldAt(f[n - 1], path[n])
        BY <4>1
      <4> QED BY <4>1, <4>2
    <3> QED BY <3>1, <3>2
  <2>2. g = From(g, k + 1)
    BY <2>1
  <2> QED BY <2>2
<1> HIDE DEF Done
<1>3. m \in Done
  <2>1. 0..m \subseteq Done
    BY <1>1, <1>2, UpInduction
  <2> QED BY <2>1
<1>4. PICK g : g = From(g, m)
  BY <1>3 DEF Done
<1>5. Reached(value, path) = CHOOSE f : f = From(f, m)
  BY DEF Reached
<1> HIDE DEF From
<1>6. Reached(value, path) = From(Reached(value, path), m)
  BY <1>4, <1>5
<1> QED BY <1>6 DEF From

\* A node that write_at_path goes through, with a new field.
Replaced(value, name, new) == [value EXCEPT !.field = [@ EXCEPT ![name] = new]]

\* The recursion of Rewritten.
LEMMA RewrittenUnfold ==
    ASSUME NEW root, NEW path, NEW primitive, Len(path) \in Nat
    PROVE  Rewritten(root, path, primitive) =
             [n \in 0..Len(path) |->
                IF n = 0 THEN primitive
                ELSE Replaced(Reached(root, path)[Len(path) - n], path[Len(path) - n + 1],
                              Rewritten(root, path, primitive)[n - 1])]
<1> DEFINE m    == Len(path)
           Node(n, v) == Replaced(Reached(root, path)[m - n], path[m - n + 1], v)
           From(f, k) == [n \in 0..k |-> IF n = 0 THEN primitive ELSE Node(n, f[n - 1])]
           Done == {k \in 0..m : \E f : f = From(f, k)}
<1>5. Rewritten(root, path, primitive) = CHOOSE f : f = From(f, m)
  BY DEF Rewritten, Replaced
<1> HIDE DEF Node
<1>1. 0 \in Done
  <2>1. [n \in 0..0 |-> primitive] = From([n \in 0..0 |-> primitive], 0)
    OBVIOUS
  <2>2. \E f : f = From(f, 0)
    BY <2>1
  <2>3. 0 \in 0..m
    OBVIOUS
  <2> QED BY <2>2, <2>3
<1>2. \A k \in 0..(m - 1) : k \in Done => k + 1 \in Done
  <2> SUFFICES ASSUME NEW k \in 0..(m - 1), NEW f, f = From(f, k)
               PROVE  \E g : g = From(g, k + 1)
    OBVIOUS
  <2> DEFINE g == [n \in 0..(k + 1) |-> IF n = k + 1 THEN Node(n, f[k]) ELSE f[n]]
  <2>1. \A n \in 0..(k + 1) : g[n] = IF n = 0 THEN primitive ELSE Node(n, g[n - 1])
    <3> SUFFICES ASSUME NEW n \in 0..(k + 1)
                 PROVE  g[n] = IF n = 0 THEN primitive ELSE Node(n, g[n - 1])
      OBVIOUS
    <3>1. CASE n = k + 1
      BY <3>1
    <3>2. CASE n # k + 1
      <4>1. g[n] = f[n] /\ n \in 0..k /\ (n # 0 => g[n - 1] = f[n - 1])
        BY <3>2
      <4>2. f[n] = IF n = 0 THEN primitive ELSE Node(n, f[n - 1])
        BY <4>1
      <4> QED BY <4>1, <4>2
    <3> QED BY <3>1, <3>2
  <2>2. g = From(g, k + 1)
    BY <2>1
  <2> QED BY <2>2
<1> HIDE DEF Done
<1>3. m \in Done
  <2>1. 0..m \subseteq Done
    BY <1>1, <1>2, UpInduction
  <2> QED BY <2>1
<1>4. PICK g : g = From(g, m)
  BY <1>3 DEF Done
<1> HIDE DEF From
<1>6. Rewritten(root, path, primitive) = From(Rewritten(root, path, primitive), m)
  BY <1>4, <1>5
<1> QED BY <1>6 DEF From, Node

\* A struct that has a field of that name.
HasField(v, name) ==
    /\ v = Struct(v.names, v.field) /\ v.field = [x \in DOMAIN v.field |-> v.field[x]]
    /\ \A i \in DOMAIN v.names : v.names[i] \in DOMAIN v.field
    /\ name \in DOMAIN v.field /\ \E i \in DOMAIN v.names : v.names[i] = name

\* A path leads through structs.
Leads(root, path) ==
    \A n \in 0..(Len(path) - 1) : HasField(Reached(root, path)[n], path[n + 1])

\* The first step, and every further one.
LEMMA ReachedSteps ==
    ASSUME NEW root, NEW path, Len(path) \in Nat
    PROVE  /\ Reached(root, path)[0] = root
           /\ \A n \in 0..(Len(path) - 1) :
                Reached(root, path)[n + 1] = FieldAt(Reached(root, path)[n], path[n + 1])
<1>1. Reached(root, path)[0] = root
  BY ReachedUnfold
<1>2. ASSUME NEW n \in 0..(Len(path) - 1)
      PROVE  Reached(root, path)[n + 1] = FieldAt(Reached(root, path)[n], path[n + 1])
  <2>1. n + 1 \in 0..Len(path) /\ n + 1 # 0 /\ (n + 1) - 1 = n
    OBVIOUS
  <2> QED BY <2>1, ReachedUnfold
<1> QED BY <1>1, <1>2

\* A struct's field, and nothing else's.
LEMMA FieldTypes ==
    ASSUME NEW v, NEW name
    PROVE  /\ HasField(v, name) => FieldAt(v, name) = v.field[name] /\ v.is = "struct"
           /\ FieldAt(v, name).is # "none"
                => v.is = "struct" /\ \E i \in DOMAIN v.names : v.names[i] = name
           /\ v.is # "struct" => FieldAt(v, name) = None
BY DEF HasField, FieldAt, Struct, None

\* What a path reaches in a value of a set is in the set, or nothing.
LEMMA ReachedTypes ==
    ASSUME NEW Names, NEW V, Values(V, Names), NEW root \in V, NEW path, Len(path) \in Nat
    PROVE  \A n \in 0..Len(path) : Reached(root, path)[n] \in V \cup {None}
<1> DEFINE S == {n \in 0..Len(path) : Reached(root, path)[n] \in V \cup {None}}
<1>1. 0 \in S
  BY ReachedSteps
<1>2. \A n \in 0..(Len(path) - 1) : n \in S => n + 1 \in S
  <2> SUFFICES ASSUME NEW n \in 0..(Len(path) - 1), n \in S PROVE n + 1 \in S
    OBVIOUS
  <2> DEFINE v == Reached(root, path)[n]
  <2>1. n + 1 \in 0..Len(path) /\ Reached(root, path)[n + 1] = FieldAt(v, path[n + 1])
    BY ReachedSteps
  <2>2. v \in V \cup {None}
    OBVIOUS
  <2> HIDE DEF v
  <2>3. CASE v.is = "struct" /\ \E i \in DOMAIN v.names : v.names[i] = path[n + 1]
    <3>1. v.field \in [DOMAIN v.field -> V] /\ path[n + 1] \in DOMAIN v.field
      BY <2>2, <2>3 DEF Values, None, Neither, Leaf
    <3>2. FieldAt(v, path[n + 1]) \in V
      BY <2>3, <3>1 DEF FieldAt
    <3> QED BY <2>1, <3>2
  <2>4. CASE ~(v.is = "struct" /\ \E i \in DOMAIN v.names : v.names[i] = path[n + 1])
    <3>1. FieldAt(v, path[n + 1]) = None
      BY <2>4 DEF FieldAt
    <3> QED BY <2>1, <3>1
  <2> QED BY <2>3, <2>4
<1> HIDE DEF S
<1>3. 0..Len(path) \subseteq S
  BY <1>1, <1>2, UpInduction
<1> QED BY <1>3 DEF S

\* A path that reaches something leads through structs.
LEMMA SomethingLeads ==
    ASSUME NEW Names, NEW V, Values(V, Names), NEW root \in V, NEW path, Len(path) \in Nat,
           ReadAtPath(root, path).is # "none"
    PROVE  Leads(root, path)
<1> DEFINE S == {n \in 0..Len(path) : Reached(root, path)[n].is # "none"}
<1>1. Len(path) \in S
  BY DEF ReadAtPath
<1>2. \A n \in 0..(Len(path) - 1) : n + 1 \in S
         => n \in S /\ HasField(Reached(root, path)[n], path[n + 1])
  <2> SUFFICES ASSUME NEW n \in 0..(Len(path) - 1), n + 1 \in S
               PROVE  n \in S /\ HasField(Reached(root, path)[n], path[n + 1])
    OBVIOUS
  <2> DEFINE v == Reached(root, path)[n]
  <2>1. v.is = "struct" /\ \E i \in DOMAIN v.names : v.names[i] = path[n + 1]
    <3>1. Reached(root, path)[n + 1] = FieldAt(v, path[n + 1])
      BY ReachedSteps
    <3>2. FieldAt(v, path[n + 1]).is # "none"
      BY <3>1
    <3> HIDE DEF v
    <3> QED BY <3>2, FieldTypes
  <2>2. v \in V \cup {None}
    BY ReachedTypes
  <2>3. n \in S
    BY <2>1
  <2> HIDE DEF v, S
  <2>4. v = Struct(v.names, v.field) /\ v.field \in [DOMAIN v.field -> V]
        /\ path[n + 1] \in DOMAIN v.field
        /\ \A i \in DOMAIN v.names : v.names[i] \in DOMAIN v.field
    BY <2>1, <2>2 DEF Values, None, Neither, Leaf
  <2>5. HasField(v, path[n + 1])
    BY <2>1, <2>4 DEF HasField
  <2> QED BY <2>3, <2>5 DEF v
<1>3. \A n \in 1..Len(path) : n \in S => n - 1 \in S
  <2> SUFFICES ASSUME NEW n \in 1..Len(path), n \in S PROVE n - 1 \in S
    OBVIOUS
  <2>1. n - 1 \in 0..(Len(path) - 1) /\ (n - 1) + 1 = n
    OBVIOUS
  <2> HIDE DEF S
  <2> QED BY <1>2, <2>1
<1> HIDE DEF S
<1>4. 0..Len(path) \subseteq S
  BY <1>1, <1>3, DownInduction
<1>5. \A n \in 0..(Len(path) - 1) : n + 1 \in 0..Len(path)
  OBVIOUS
<1> QED BY <1>2, <1>4, <1>5 DEF Leads

\* A new field is read back; others stay.
LEMMA ReplacedReads ==
    ASSUME NEW v, NEW name, NEW new, HasField(v, name)
    PROVE  /\ HasField(Replaced(v, name, new), name)
           /\ Replaced(v, name, new).is = "struct"
           /\ FieldAt(Replaced(v, name, new), name) = new
           /\ \A other : other # name => FieldAt(Replaced(v, name, new), other) = FieldAt(v, other)
           /\ Replaced(v, name, v.field[name]) = v
           /\ \A n : Replaced(Replaced(v, name, new), name, n) = Replaced(v, name, n)
<1> DEFINE names == v.names
           field == v.field
<1>1. /\ v = [is |-> "struct", names |-> names, field |-> field]
      /\ field = [x \in DOMAIN field |-> field[x]] /\ name \in DOMAIN field
      /\ \A i \in DOMAIN names : names[i] \in DOMAIN field
      /\ \E i \in DOMAIN names : names[i] = name
  BY DEF HasField, Struct
<1> HIDE DEF names, field
<1> DEFINE w(n) == Replaced(v, name, n)
<1>2. \A n : w(n) = [is |-> "struct", names |-> names, field |-> [field EXCEPT ![name] = n]]
  BY <1>1 DEF Replaced
<1>3. w(field[name]) = v
  <2>1. [field EXCEPT ![name] = field[name]] = field
    BY <1>1
  <2> HIDE DEF w
  <2> QED BY <1>1, <1>2, <2>1
<1>4. \A n : Replaced(w(new), name, n) = w(n)
  <2>1. \A n : [[field EXCEPT ![name] = new] EXCEPT ![name] = n] = [field EXCEPT ![name] = n]
    BY <1>1
  <2> HIDE DEF w
  <2> QED BY <1>2, <2>1 DEF Replaced
<1> HIDE DEF w
<1>5. w(new).is = "struct" /\ w(new).names = names /\ w(new).field = [field EXCEPT ![name] = new]
  BY <1>2
<1>6. HasField(w(new), name)
  <2>1. [field EXCEPT ![name] = new] = [x \in DOMAIN [field EXCEPT ![name] = new] |-> [field EXCEPT ![name] = new][x]]
        /\ DOMAIN [field EXCEPT ![name] = new] = DOMAIN field
    BY <1>1
  <2> QED BY <1>1, <1>2, <1>5, <2>1 DEF HasField, Struct
<1>7. FieldAt(w(new), name) = new
  <2>1. [field EXCEPT ![name] = new][name] = new
    BY <1>1
  <2>2. FieldAt(w(new), name) = w(new).field[name]
    BY <1>6, FieldTypes
  <2> QED BY <1>5, <2>1, <2>2
<1>8. ASSUME NEW other, other # name
      PROVE  FieldAt(w(new), other) = FieldAt(v, other)
  <2>1. CASE \E i \in DOMAIN names : names[i] = other
    <3>1. [field EXCEPT ![name] = new][other] = field[other]
      BY <1>1, <1>8, <2>1
    <3>2. FieldAt(v, other) = field[other]
      BY <1>1, <2>1 DEF FieldAt
    <3>3. FieldAt(w(new), other) = [field EXCEPT ![name] = new][other]
      BY <1>5, <2>1 DEF FieldAt
    <3> QED BY <3>1, <3>2, <3>3
  <2>2. CASE ~\E i \in DOMAIN names : names[i] = other
    BY <1>1, <1>5, <2>2 DEF FieldAt
  <2> QED BY <2>1, <2>2
<1> QED BY <1>3, <1>4, <1>5, <1>6, <1>7, <1>8 DEF w, field

\* The root with what is written at the end of a path that leads there.
Written(root, path, primitive) == Rewritten(root, path, primitive)[Len(path)]

\* Its first step, and every further one.
LEMMA RewrittenSteps ==
    ASSUME NEW root, NEW path, NEW primitive, Len(path) \in Nat
    PROVE  /\ Rewritten(root, path, primitive)[0] = primitive
           /\ \A n \in 0..(Len(path) - 1) :
                Rewritten(root, path, primitive)[Len(path) - n] =
                  Replaced(Reached(root, path)[n], path[n + 1],
                           Rewritten(root, path, primitive)[Len(path) - (n + 1)])
<1> DEFINE m == Len(path)
           new == Rewritten(root, path, primitive)
<1>1. new = [n \in 0..m |-> IF n = 0 THEN primitive
                            ELSE Replaced(Reached(root, path)[m - n], path[m - n + 1], new[n - 1])]
  BY RewrittenUnfold
<1> HIDE DEF new
<1>2. new[0] = primitive
  BY <1>1
<1>3. ASSUME NEW n \in 0..(m - 1)
      PROVE  new[m - n] = Replaced(Reached(root, path)[n], path[n + 1], new[m - (n + 1)])
  <2>1. m - n \in 0..m /\ m - n # 0 /\ m - (m - n) = n /\ (m - n) - 1 = m - (n + 1)
    OBVIOUS
  <2> QED BY <1>1, <2>1
<1> QED BY <1>2, <1>3 DEF new

\* The path leads there again, through the nodes that were replaced.
LEMMA WrittenReached ==
    ASSUME NEW root, NEW path, NEW primitive, Len(path) \in Nat, Leads(root, path)
    PROVE  \A n \in 0..Len(path) :
             Reached(Written(root, path, primitive), path)[n] = Rewritten(root, path, primitive)[Len(path) - n]
<1> DEFINE m   == Len(path)
           top == Written(root, path, primitive)
           new == Rewritten(root, path, primitive)
           S   == {n \in 0..m : Reached(top, path)[n] = new[m - n]}
<1>1. 0 \in S
  BY ReachedSteps DEF Written
<1>2. \A n \in 0..(m - 1) : n \in S => n + 1 \in S
  <2> SUFFICES ASSUME NEW n \in 0..(m - 1), n \in S PROVE n + 1 \in S
    OBVIOUS
  <2> DEFINE v == Reached(root, path)[n]
  <2>1. n + 1 \in 0..m /\ HasField(v, path[n + 1])
    BY DEF Leads
  <2>2. Reached(top, path)[n + 1] = FieldAt(new[m - n], path[n + 1])
    <3>1. Reached(top, path)[n] = new[m - n]
      OBVIOUS
    <3> HIDE DEF top, new, S
    <3> QED BY <3>1, ReachedSteps
  <2>3. new[m - n] = Replaced(v, path[n + 1], new[m - (n + 1)])
    BY RewrittenSteps
  <2> HIDE DEF v, top, new
  <2>4. FieldAt(new[m - n], path[n + 1]) = new[m - (n + 1)]
    BY <2>1, <2>3, ReplacedReads
  <2> QED BY <2>1, <2>2, <2>4
<1> HIDE DEF S
<1>3. 0..m \subseteq S
  BY <1>1, <1>2, UpInduction
<1> QED BY <1>3 DEF S

\* So it reads what was written, and leads through structs as before.
LEMMA WrittenReads ==
    ASSUME NEW root, NEW path, NEW primitive, Len(path) \in Nat, Leads(root, path)
    PROVE  /\ ReadAtPath(Written(root, path, primitive), path) = primitive
           /\ Leads(Written(root, path, primitive), path)
<1> DEFINE m   == Len(path)
           top == Written(root, path, primitive)
           new == Rewritten(root, path, primitive)
<1>1. ReadAtPath(top, path) = primitive
  <2>1. m \in 0..m /\ m - m = 0
    OBVIOUS
  <2> QED BY <2>1, WrittenReached, RewrittenSteps DEF ReadAtPath
<1>2. ASSUME NEW n \in 0..(m - 1) PROVE HasField(Reached(top, path)[n], path[n + 1])
  <2> DEFINE v == Reached(root, path)[n]
  <2>1. HasField(v, path[n + 1]) /\ n \in 0..m
    BY DEF Leads
  <2>2. Reached(top, path)[n] = new[m - n]
    BY <2>1, WrittenReached
  <2>3. new[m - n] = Replaced(v, path[n + 1], new[m - (n + 1)])
    BY RewrittenSteps
  <2> HIDE DEF v, top, new
  <2> QED BY <2>1, <2>2, <2>3, ReplacedReads
<1> QED BY <1>1, <1>2 DEF Leads

\* Writing what is there changes nothing.
LEMMA WrittenAgain ==
    ASSUME NEW root, NEW path, Len(path) \in Nat, Leads(root, path)
    PROVE  Written(root, path, ReadAtPath(root, path)) = root
<1> DEFINE m   == Len(path)
           new == Rewritten(root, path, ReadAtPath(root, path))
           S   == {n \in 0..m : new[m - n] = Reached(root, path)[n]}
<1>1. m \in S
  BY RewrittenSteps DEF ReadAtPath
<1>2. \A n \in 1..m : n \in S => n - 1 \in S
  <2> SUFFICES ASSUME NEW k \in 1..m, k \in S PROVE k - 1 \in S
    OBVIOUS
  <2> DEFINE n == k - 1
             v == Reached(root, path)[n]
  <2>1. n \in 0..(m - 1) /\ n + 1 = k /\ n \in 0..m
    OBVIOUS
  <2>2. new[m - k] = Reached(root, path)[k]
    OBVIOUS
  <2> HIDE DEF n, S
  <2>3. HasField(v, path[n + 1]) /\ Reached(root, path)[n + 1] = FieldAt(v, path[n + 1])
    BY <2>1, ReachedSteps DEF Leads
  <2>4. new[m - n] = Replaced(v, path[n + 1], new[m - (n + 1)])
    BY <2>1, RewrittenSteps
  <2> HIDE DEF v, new
  <2>5. FieldAt(v, path[n + 1]) = v.field[path[n + 1]] /\ Replaced(v, path[n + 1], v.field[path[n + 1]]) = v
    BY <2>3, FieldTypes, ReplacedReads
  <2>6. new[m - n] = v
    BY <2>1, <2>2, <2>3, <2>4, <2>5
  <2> QED BY <2>1, <2>6 DEF S, v, n
<1> HIDE DEF S
<1>3. 0..m \subseteq S
  BY <1>1, <1>2, DownInduction
<1>4. 0 \in 0..m /\ m - 0 = m
  OBVIOUS
<1> QED BY <1>3, <1>4, ReachedSteps DEF S, Written

\* Whatever else is read: another path leaves this one, or ends before it does, or
\* goes on where there is nothing.
LEMMA OthersStay ==
    ASSUME NEW root, NEW path, NEW primitive, Len(path) \in Nat, Leads(root, path),
           ReadAtPath(root, path).is = "leaf", primitive.is = "leaf",
           NEW other, Len(other) \in Nat,
           Len(other) = Len(path) => \E n \in 1..Len(path) : other[n] # path[n]
    PROVE  LET top == Written(root, path, primitive)
           IN  \/ ReadAtPath(top, other) = ReadAtPath(root, other)
               \/ ReadAtPath(top, other).is = "struct" /\ ReadAtPath(root, other).is = "struct"
<1> DEFINE m   == Len(path)
           top == Written(root, path, primitive)
           old(n) == Reached(root, other)[n]
           new(n) == Reached(top, other)[n]
           Along(n) == /\ n <= m /\ \A k \in 1..n : other[k] = path[k]
                       /\ new(n) = Reached(top, path)[n] /\ old(n) = Reached(root, path)[n]
           S == {n \in 0..Len(other) : Along(n) \/ new(n) = old(n)}
<1>1. 0 \in S
  <2>1. Along(0)
    BY ReachedSteps
  <2> QED BY <2>1
<1>2. \A n \in 0..(m - 1) : /\ Reached(top, path)[n] = Replaced(Reached(root, path)[n], path[n + 1], Reached(top, path)[n + 1])
                             /\ HasField(Reached(root, path)[n], path[n + 1])
  <2> SUFFICES ASSUME NEW n \in 0..(m - 1)
               PROVE  /\ Reached(top, path)[n] = Replaced(Reached(root, path)[n], path[n + 1], Reached(top, path)[n + 1])
                      /\ HasField(Reached(root, path)[n], path[n + 1])
    OBVIOUS
  <2>1. n \in 0..m /\ n + 1 \in 0..m
    OBVIOUS
  <2>2. /\ Reached(top, path)[n] = Rewritten(root, path, primitive)[m - n]
        /\ Reached(top, path)[n + 1] = Rewritten(root, path, primitive)[m - (n + 1)]
    BY <2>1, WrittenReached
  <2> QED BY <2>2, RewrittenSteps DEF Leads
<1>3. Reached(top, path)[m] = primitive /\ Reached(root, path)[m].is = "leaf"
  BY WrittenReads DEF ReadAtPath
<1>4. \A n \in 0..(Len(other) - 1) : n \in S => n + 1 \in S
  <2> SUFFICES ASSUME NEW n \in 0..(Len(other) - 1), n \in S PROVE n + 1 \in S
    OBVIOUS
  <2>1. /\ n + 1 \in 0..Len(other)
        /\ new(n + 1) = FieldAt(new(n), other[n + 1]) /\ old(n + 1) = FieldAt(old(n), other[n + 1])
    BY ReachedSteps
  <2>2. CASE new(n) = old(n)
    BY <2>1, <2>2
  <2>3. CASE Along(n) /\ n = m
    <3>1. FieldAt(new(n), other[n + 1]) = None /\ FieldAt(old(n), other[n + 1]) = None
      BY <1>3, <2>3 DEF FieldAt
    <3> QED BY <2>1, <3>1
  <2>4. CASE Along(n) /\ n # m /\ other[n + 1] = path[n + 1]
    <3>1. n \in 0..(m - 1)
      BY <2>4
    <3>2. /\ Reached(top, path)[n + 1] = FieldAt(Reached(top, path)[n], path[n + 1])
          /\ Reached(root, path)[n + 1] = FieldAt(Reached(root, path)[n], path[n + 1])
      BY <3>1, ReachedSteps
    <3>3. \A k \in 1..(n + 1) : other[k] = path[k]
      BY <2>4
    <3>4. Along(n + 1)
      BY <2>1, <2>4, <3>1, <3>2, <3>3
    <3> QED BY <2>1, <3>4
  <2>5. CASE Along(n) /\ n # m /\ other[n + 1] # path[n + 1]
    <3>1. n \in 0..(m - 1)
      BY <2>5
    <3> HIDE DEF S, top
    <3>2. FieldAt(new(n), other[n + 1]) = FieldAt(old(n), other[n + 1])
      BY <1>2, <2>5, <3>1, ReplacedReads
    <3> QED BY <2>1, <3>2 DEF S
  <2> QED BY <2>2, <2>3, <2>4, <2>5
<1> HIDE DEF S
<1>5. 0..Len(other) \subseteq S
  BY <1>1, <1>4, UpInduction
<1>6. Len(other) \in 0..Len(other)
  OBVIOUS
<1>7. CASE new(Len(other)) = old(Len(other))
  BY <1>7 DEF ReadAtPath
<1>8. CASE Along(Len(other))
  <2>1. Len(other) # m
    BY <1>8
  <2>2. Len(other) \in 0..(m - 1)
    BY <1>8, <2>1
  <2> HIDE DEF S, top
  <2>3. new(Len(other)).is = "struct" /\ old(Len(other)).is = "struct"
    BY <1>2, <1>8, <2>2, ReplacedReads, FieldTypes
  <2> QED BY <2>3 DEF ReadAtPath, top
<1> QED BY <1>5, <1>6, <1>7, <1>8 DEF S

\* What write_at_path writes.
LEMMA WriteIsWritten ==
    ASSUME NEW root, NEW path, NEW primitive, path # <<>>,
           ReadAtPath(root, path).is = "leaf", ReadAtPath(root, path).kind = primitive.kind
    PROVE  WriteAtPath(root, path, primitive) = [ok |-> TRUE, root |-> Written(root, path, primitive)]
BY DEF WriteAtPath, Writable, Written

\* In any values, of any depth and with any fields: nothing is written at a path
\* without a leaf or from a value of another kind, and what is written is read.
THEOREM WritesAreTyped ==
    ASSUME NEW Names, NEW V, Values(V, Names), NEW root \in V, NEW path \in Seq(Names),
           NEW primitive
    PROVE  WriteIsTyped(root, path, primitive)
<1> DEFINE leaf == ReadAtPath(root, path)
<1>1. CASE path # <<>> /\ leaf.is = "leaf" /\ leaf.kind = primitive.kind
  <2>1. Leads(root, path)
    BY <1>1, SomethingLeads
  <2>2. ReadAtPath(Written(root, path, primitive), path) = primitive
    BY <2>1, WrittenReads
  <2> QED BY <1>1, <2>2, WriteIsWritten DEF WriteIsTyped
<1>2. CASE ~(path # <<>> /\ leaf.is = "leaf" /\ leaf.kind = primitive.kind)
  BY <1>2 DEF WriteIsTyped, WriteAtPath, Writable
<1> QED BY <1>1, <1>2

\* A text that is typed into any leaf of any value is refused, or the leaf shows a
\* value of its kind that reads the same when it is typed again; every other leaf
\* stays, and none appears or goes.
THEOREM EditsAreExact ==
    ASSUME NEW Names, NEW V, Values(V, Names), NEW root \in V, NEW path \in Seq(Names), path # <<>>,
           ReadAtPath(root, path).is = "leaf", NEW text \in Text
    PROVE  EditIsExact(root, Seq(Names), path, text)
<1> DEFINE leaf   == ReadAtPath(root, path)
           kind   == leaf.kind
           parsed == Parse(text, kind)
           new    == Edited(root, path, kind, text)
<1>1. /\ leaf = Leaf(kind, leaf.text) /\ kind \in PrimitiveKind /\ leaf.text \in Text
      /\ Parse(Repr(leaf), kind) = leaf /\ leaf # None
  <2>1. leaf \in V \cup {None}
    BY ReachedTypes DEF ReadAtPath
  <2>2. leaf.is = "leaf"
    OBVIOUS
  <2> HIDE DEF leaf
  <2> QED BY <2>1, <2>2 DEF Values, None, Neither, Struct, Leaf, Repr
<1>2. Leads(root, path)
  BY SomethingLeads
<1>3. Edited(root, path, kind, Repr(leaf)) = root
  <2>1. WriteAtPath(root, path, leaf).root = Written(root, path, leaf)
    BY WriteIsWritten
  <2>2. Written(root, path, leaf) = root
    BY <1>2, WrittenAgain
  <2> HIDE DEF leaf, kind
  <2> QED BY <1>1, <2>1, <2>2 DEF Edited
<1>4. CASE parsed = None
  <2>1. new = root
    BY <1>4 DEF Edited
  <2> QED BY <1>1, <1>3, <2>1 DEF EditIsExact
<1>5. CASE parsed # None
  <2>1. PICK t \in Text : parsed = Leaf(kind, t) /\ Parse(t, kind) = Leaf(kind, t)
    BY <1>1, <1>5, ParseTypes
  <2>2. parsed.is = "leaf" /\ parsed.kind = kind /\ Parse(Repr(parsed), kind) = parsed
    BY <2>1 DEF Leaf, Repr
  <2>3. new = Written(root, path, parsed)
    <3>1. WriteAtPath(root, path, parsed).root = Written(root, path, parsed)
      BY <2>2, WriteIsWritten
    <3> QED BY <1>5, <3>1 DEF Edited
  <2> HIDE DEF parsed, new, leaf
  <2>4. ReadAtPath(new, path) = parsed /\ Leads(new, path)
    BY <1>2, <2>3, WrittenReads
  <2>5. Edited(new, path, kind, Repr(parsed)) = new
    <3>1. WriteAtPath(new, path, parsed).root = Written(new, path, parsed)
      BY <2>2, <2>4, WriteIsWritten
    <3>2. Written(new, path, parsed) = new
      BY <2>4, WrittenAgain
    <3> QED BY <1>5, <2>2, <3>1, <3>2 DEF Edited
  <2>6. ASSUME NEW p \in Seq(Names), p # path
        PROVE  \/ ReadAtPath(new, p) = ReadAtPath(root, p)
               \/ ReadAtPath(new, p).is = "struct" /\ ReadAtPath(root, p).is = "struct"
    <3>1. Len(p) = Len(path) => \E n \in 1..Len(path) : p[n] # path[n]
      BY <2>6
    <3>2. ReadAtPath(root, path).is = "leaf" /\ Len(p) \in Nat /\ Len(path) \in Nat
      OBVIOUS
    <3> QED BY <1>2, <2>2, <2>3, <3>1, <3>2, OthersStay
  <2>7. Declared(new, Seq(Names)) = Declared(root, Seq(Names))
    <3>1. \A p \in Seq(Names) : ReadAtPath(new, p).is = "leaf" <=> ReadAtPath(root, p).is = "leaf"
      BY <2>2, <2>4, <2>6
    <3> QED BY <3>1 DEF Declared
  <2>8. \A p \in Declared(root, Seq(Names)) \ {path} : ReadAtPath(new, p) = ReadAtPath(root, p)
    BY <2>6 DEF Declared
  <2> QED
    BY <1>3, <2>2, <2>4, <2>5, <2>7, <2>8 DEF EditIsExact, new, leaf
<1> QED BY <1>4, <1>5

----------------------------------------------------------------------------
(* The walk                                                                *)

\* The recursion of Turns.
LEMMA TurnsUnfold ==
    ASSUME NEW root, NEW turns \in Nat
    PROVE  Turns(root, turns) =
             [n \in 0..turns |->
                IF n = 0 THEN [stack |-> << [path |-> <<>>, value |-> root] >>, leaves |-> <<>>]
                ELSE IF Turns(root, turns)[n - 1].stack = <<>> THEN Turns(root, turns)[n - 1]
                ELSE Popped(Turns(root, turns)[n - 1])]
<1> DEFINE m    == turns
           c    == [stack |-> << [path |-> <<>>, value |-> root] >>, leaves |-> <<>>]
           Turn(w) == IF w.stack = <<>> THEN w ELSE Popped(w)
           From(f, k) == [n \in 0..k |-> IF n = 0 THEN c ELSE Turn(f[n - 1])]
           Done == {k \in 0..m : \E f : f = From(f, k)}
<1>5. Turns(root, turns) = CHOOSE f : f = From(f, m)
  BY DEF Turns
<1> HIDE DEF Turn, c
<1>1. 0 \in Done
  <2>1. [n \in 0..0 |-> c] = From([n \in 0..0 |-> c], 0)
    OBVIOUS
  <2>2. \E f : f = From(f, 0)
    BY <2>1
  <2>3. 0 \in 0..m
    OBVIOUS
  <2> QED BY <2>2, <2>3
<1>2. \A k \in 0..(m - 1) : k \in Done => k + 1 \in Done
  <2> SUFFICES ASSUME NEW k \in 0..(m - 1), NEW f, f = From(f, k)
               PROVE  \E g : g = From(g, k + 1)
    OBVIOUS
  <2> DEFINE g == [n \in 0..(k + 1) |-> IF n = k + 1 THEN Turn(f[k]) ELSE f[n]]
  <2>1. \A n \in 0..(k + 1) : g[n] = IF n = 0 THEN c ELSE Turn(g[n - 1])
    <3> SUFFICES ASSUME NEW n \in 0..(k + 1) PROVE g[n] = IF n = 0 THEN c ELSE Turn(g[n - 1])
      OBVIOUS
    <3>1. CASE n = k + 1
      BY <3>1
    <3>2. CASE n # k + 1
      <4>1. g[n] = f[n] /\ n \in 0..k /\ (n # 0 => g[n - 1] = f[n - 1])
        BY <3>2
      <4>2. f[n] = IF n = 0 THEN c ELSE Turn(f[n - 1])
        BY <4>1
      <4> QED BY <4>1, <4>2
    <3> QED BY <3>1, <3>2
  <2>2. g = From(g, k + 1)
    BY <2>1
  <2> QED BY <2>2
<1> HIDE DEF Done
<1>3. m \in Done
  <2>1. 0..m \subseteq Done
    BY <1>1, <1>2, UpInduction
  <2> QED BY <2>1
<1>4. PICK g : g = From(g, m)
  BY <1>3 DEF Done
<1> HIDE DEF From
<1>6. Turns(root, turns) = From(Turns(root, turns), m)
  BY <1>4, <1>5
<1> QED BY <1>6 DEF From, Turn, c

\* A path that starts with another one goes through what that one reaches.
Starts(q, p) == Len(q) <= Len(p) /\ \A k \in 1..Len(q) : p[k] = q[k]

\* Up to there the two reach the same.
LEMMA StartsReached ==
    ASSUME NEW root, NEW p, NEW q, Len(p) \in Nat, Len(q) \in Nat, Starts(q, p)
    PROVE  \A n \in 0..Len(q) : Reached(root, p)[n] = Reached(root, q)[n]
<1> DEFINE S == {n \in 0..Len(q) : Reached(root, p)[n] = Reached(root, q)[n]}
<1>1. 0 \in S
  BY ReachedSteps
<1>2. \A n \in 0..(Len(q) - 1) : n \in S => n + 1 \in S
  <2> SUFFICES ASSUME NEW n \in 0..(Len(q) - 1), n \in S PROVE n + 1 \in S
    OBVIOUS
  <2>1. n + 1 \in 0..Len(q) /\ n \in 0..(Len(p) - 1) /\ p[n + 1] = q[n + 1]
    BY DEF Starts
  <2>2. Reached(root, p)[n + 1] = FieldAt(Reached(root, p)[n], p[n + 1])
    BY <2>1, ReachedSteps
  <2>3. Reached(root, q)[n + 1] = FieldAt(Reached(root, q)[n], q[n + 1])
    BY ReachedSteps
  <2> QED BY <2>1, <2>2, <2>3
<1> HIDE DEF S
<1>3. 0..Len(q) \subseteq S
  BY <1>1, <1>2, UpInduction
<1> QED BY <1>3 DEF S

\* One segment more.
LEMMA AppendReached ==
    ASSUME NEW root, NEW Names, NEW q \in Seq(Names), NEW name \in Names
    PROVE  /\ \A n \in 0..Len(q) : Reached(root, Append(q, name))[n] = Reached(root, q)[n]
           /\ ReadAtPath(root, Append(q, name)) = FieldAt(ReadAtPath(root, q), name)
<1> DEFINE p == Append(q, name)
<1>1. /\ Len(p) = Len(q) + 1 /\ Len(q) \in Nat /\ p[Len(q) + 1] = name
      /\ \A k \in 1..Len(q) : p[k] = q[k]
  OBVIOUS
<1> HIDE DEF p
<1>2. \A n \in 0..Len(q) : Reached(root, p)[n] = Reached(root, q)[n]
  BY <1>1, StartsReached DEF Starts
<1>3. Reached(root, p)[Len(q) + 1] = FieldAt(Reached(root, p)[Len(q)], p[Len(q) + 1])
  BY <1>1, ReachedSteps
<1> QED BY <1>1, <1>2, <1>3 DEF p, ReadAtPath

\* Where two paths part, they part however they go on.
LEMMA BeforeAppend ==
    ASSUME NEW root, NEW Names, NEW p \in Seq(Names), NEW q \in Seq(Names), NEW name \in Names,
           Before(root, p, q)
    PROVE  Before(root, Append(p, name), q) /\ Before(root, p, Append(q, name))
<1>1. PICK i \in DOMAIN p \cap DOMAIN q :
        /\ \A k \in 1..(i - 1) : p[k] = q[k]
        /\ \E a, b \in DOMAIN Reached(root, p)[i - 1].names :
             a < b /\ Reached(root, p)[i - 1].names[a] = p[i] /\ Reached(root, p)[i - 1].names[b] = q[i]
  BY DEF Before
<1>2. i \in 1..Len(p) /\ i \in 1..Len(q) /\ i - 1 \in 0..Len(p)
  OBVIOUS
<1>3. Before(root, Append(p, name), q)
  <2> DEFINE r == Append(p, name)
  <2>1. i \in DOMAIN r /\ \A k \in 1..i : r[k] = p[k]
    BY <1>2
  <2>2. Reached(root, r)[i - 1] = Reached(root, p)[i - 1]
    BY <1>2, AppendReached
  <2>3. r[i] = p[i] /\ \A k \in 1..(i - 1) : r[k] = q[k]
    BY <1>1, <1>2, <2>1
  <2> HIDE DEF r
  <2>4. Before(root, r, q)
    BY <1>1, <2>1, <2>2, <2>3 DEF Before
  <2> QED BY <2>4 DEF r
<1>4. Before(root, p, Append(q, name))
  <2> DEFINE r == Append(q, name)
  <2>1. i \in DOMAIN r /\ \A k \in 1..i : r[k] = q[k]
    BY <1>2
  <2>2. r[i] = q[i] /\ \A k \in 1..(i - 1) : p[k] = r[k]
    BY <1>1, <1>2, <2>1
  <2> HIDE DEF r
  <2>3. Before(root, p, r)
    BY <1>1, <2>1, <2>2 DEF Before
  <2> QED BY <2>3 DEF r
<1> QED BY <1>3, <1>4

\* What the stack and the list hold: what is reached from the root.
Items(root, V, Names) ==
    {x \in [path : Seq(Names), value : V] : x.value = ReadAtPath(root, x.path)}

\* The children of a node, the last one first: exactly its fields.
LEMMA PushedTypes ==
    ASSUME NEW Names, NEW V, Values(V, Names), NEW root \in V, NEW x \in Items(root, V, Names)
    PROVE  /\ Pushed(x) \in Seq(Items(root, V, Names))
           /\ \A i \in 1..Len(Pushed(x)) : \E name \in Names : Pushed(x)[i].path = Append(x.path, name)
           /\ \A i, j \in 1..Len(Pushed(x)) : i < j => Before(root, Pushed(x)[j].path, Pushed(x)[i].path)
           /\ \A name \in Names : FieldAt(x.value, name).is # "none"
                => \E i \in 1..Len(Pushed(x)) : Pushed(x)[i].path = Append(x.path, name)
<1>1. x.path \in Seq(Names) /\ x.value \in V /\ x.value = ReadAtPath(root, x.path)
  BY DEF Items
<1>2. CASE x.value.is # "struct"
  <2>1. Children(x) = <<>>
    BY <1>2 DEF Children
  <2>2. Pushed(x) = <<>>
    BY <2>1 DEF Pushed, Reverse
  <2>3. \A name : FieldAt(x.value, name).is = "none"
    BY <1>2 DEF FieldAt, None
  <2>4. Len(Pushed(x)) = 0 /\ 1..0 = {} /\ Pushed(x) \in Seq(Items(root, V, Names))
    BY <2>2
  <2> QED BY <2>3, <2>4
<1>3. CASE x.value.is = "struct"
  <2> DEFINE names == x.value.names
             field == x.value.field
             m     == Len(names)
             q     == x.path
  <2>1. /\ names \in Seq(Names) /\ field \in [DOMAIN field -> V]
        /\ \A i \in DOMAIN names : names[i] \in DOMAIN field
    BY <1>1, <1>3 DEF Values, Neither, Leaf
  <2>2. m \in Nat /\ DOMAIN names = 1..m /\ q \in Seq(Names) /\ ReadAtPath(root, q) = x.value
    BY <1>1, <2>1
  <2>3. Children(x) = [i \in 1..m |-> [path |-> Append(q, names[i]), value |-> field[names[i]]]]
    BY <1>3, <2>2 DEF Children
  <2> HIDE DEF names, field, m, q
  <2>4. Len(Children(x)) = m
    BY <2>2, <2>3
  <2>5. Pushed(x) = [i \in 1..m |-> Children(x)[m - i + 1]]
    BY <2>4 DEF Pushed, Reverse
  <2>6. Len(Pushed(x)) = m /\ DOMAIN Pushed(x) = 1..m
    BY <2>2, <2>5
  <2>14. \A name \in Names : ReadAtPath(root, Append(q, name)) = FieldAt(x.value, name)
    <3> SUFFICES ASSUME NEW name \in Names
                 PROVE  ReadAtPath(root, Append(q, name)) = FieldAt(x.value, name)
      OBVIOUS
    <3>1. ReadAtPath(root, Append(q, name)) = FieldAt(ReadAtPath(root, q), name)
      <4>1. q \in Seq(Names)
        BY <2>2
      <4> QED BY <4>1, AppendReached
    <3> QED BY <2>2, <3>1
  <2> DEFINE Child(k) == [path |-> Append(q, names[k]), value |-> field[names[k]]]
  <2>7. ASSUME NEW k \in 1..m PROVE names[k] \in Names /\ Child(k) \in Items(root, V, Names)
    <3>1. names[k] \in Names /\ names[k] \in DOMAIN field /\ k \in DOMAIN names
      BY <2>1, <2>2
    <3>2. Append(q, names[k]) \in Seq(Names) /\ field[names[k]] \in V
      BY <2>1, <2>2, <3>1
    <3>3. ReadAtPath(root, Append(q, names[k])) = FieldAt(x.value, names[k])
      BY <2>14, <3>1
    <3>4. FieldAt(x.value, names[k]) = field[names[k]]
      BY <1>3, <3>1 DEF FieldAt, names, field
    <3> QED BY <3>1, <3>2, <3>3, <3>4 DEF Items
  <2> DEFINE turned(i) == m - i + 1
  <2>11. /\ \A i \in 1..m : turned(i) \in 1..m /\ turned(turned(i)) = i
         /\ \A i, j \in 1..m : i < j => turned(j) < turned(i)
    BY <2>2
  <2>12. \A i \in 1..m : Pushed(x)[i] = Child(turned(i))
    BY <2>3, <2>5, <2>11
  <2>15. \A k \in 1..m : Child(k).path = Append(q, names[k]) /\ names[k] \in Names
    BY <2>7
  <2> HIDE DEF turned, Child
  <2>8. Pushed(x) \in Seq(Items(root, V, Names))
    <3>1. \A i \in 1..m : Pushed(x)[i] \in Items(root, V, Names)
      BY <2>7, <2>11, <2>12
    <3>2. Pushed(x) = [i \in 1..m |-> Pushed(x)[i]]
      BY <2>5
    <3> QED BY <2>2, <3>1, <3>2
  <2>9. ASSUME NEW i \in 1..m, NEW j \in 1..m, i < j
        PROVE  Before(root, Pushed(x)[j].path, Pushed(x)[i].path)
    <3> DEFINE p == Append(q, names[turned(j)])
               r == Append(q, names[turned(i)])
    <3>1. Pushed(x)[j].path = p /\ Pushed(x)[i].path = r
      BY <2>11, <2>12, <2>15
    <3>2. Len(q) + 1 \in DOMAIN p /\ Len(q) + 1 \in DOMAIN r /\ (Len(q) + 1) - 1 = Len(q)
          /\ p[Len(q) + 1] = names[turned(j)] /\ r[Len(q) + 1] = names[turned(i)]
          /\ \A k \in 1..Len(q) : p[k] = r[k]
      BY <2>2, <2>11, <2>15
    <3>3. turned(j) < turned(i) /\ turned(j) \in DOMAIN names /\ turned(i) \in DOMAIN names
      BY <2>2, <2>9, <2>11
    <3>4. Reached(root, p)[Len(q)].names = names
      <4>1. names[turned(j)] \in Names /\ Len(q) \in 0..Len(q)
        BY <2>2, <2>11, <2>15
      <4>2. Reached(root, p)[Len(q)] = Reached(root, q)[Len(q)]
        BY <2>2, <4>1, AppendReached
      <4> QED BY <1>1, <4>2 DEF names, q, ReadAtPath
    <3> HIDE DEF p, r
    <3>5. Before(root, p, r)
      BY <3>2, <3>3, <3>4 DEF Before
    <3> QED BY <3>1, <3>5
  <2>10. ASSUME NEW name \in Names, FieldAt(x.value, name).is # "none"
         PROVE  \E i \in 1..m : Pushed(x)[i].path = Append(q, name)
    <3>1. PICK k \in DOMAIN names : names[k] = name
      BY <2>10, FieldTypes DEF names
    <3>2. k \in 1..m /\ turned(k) \in 1..m /\ turned(turned(k)) = k
      BY <2>2, <2>11, <3>1
    <3>3. Pushed(x)[turned(k)] = Child(k)
      BY <2>12, <3>2
    <3> QED BY <2>15, <3>1, <3>2, <3>3
  <2>13. \A i \in 1..m : \E name \in Names : Pushed(x)[i].path = Append(q, name)
    BY <2>11, <2>12, <2>15
  <2> QED BY <2>6, <2>8, <2>9, <2>10, <2>13 DEF q
<1> QED BY <1>2, <1>3

\* A turn of the walk leaves every leaf listed or below the stack, and what is
\* listed before what is on the stack, whose top comes first.
WalkInv(root, V, Names, walk) ==
    /\ walk.stack \in Seq(Items(root, V, Names)) /\ walk.leaves \in Seq(Items(root, V, Names))
    /\ \A i \in 1..Len(walk.leaves) : walk.leaves[i].value.is = "leaf"
    /\ \A p \in Declared(root, Seq(Names)) :
          \/ \E i \in 1..Len(walk.leaves) : walk.leaves[i].path = p
          \/ \E i \in 1..Len(walk.stack) : Starts(walk.stack[i].path, p)
    /\ \A i, j \in 1..Len(walk.stack) :
          i < j => Before(root, walk.stack[j].path, walk.stack[i].path)
    /\ \A i, j \in 1..Len(walk.leaves) :
          i < j => Before(root, walk.leaves[i].path, walk.leaves[j].path)
    /\ \A i \in 1..Len(walk.leaves), j \in 1..Len(walk.stack) :
          Before(root, walk.leaves[i].path, walk.stack[j].path)

\* A leaf below a node is the node itself, or below one of its fields.
LEMMA LeafBelow ==
    ASSUME NEW Names, NEW V, Values(V, Names), NEW root \in V, NEW x \in Items(root, V, Names),
           NEW p \in Declared(root, Seq(Names)), Starts(x.path, p)
    PROVE  \/ x.value.is = "leaf" /\ p = x.path
           \/ /\ x.value.is # "leaf"
              /\ \E name \in Names : /\ FieldAt(x.value, name).is # "none"
                                     /\ Starts(Append(x.path, name), p)
<1> DEFINE q == x.path
<1>1. q \in Seq(Names) /\ p \in Seq(Names) /\ x.value = Reached(root, q)[Len(q)]
      /\ ReadAtPath(root, p).is = "leaf"
  BY DEF Items, Declared, ReadAtPath
<1> HIDE DEF q
<1>2. Len(q) \in Nat /\ Len(p) \in Nat /\ Len(q) <= Len(p) /\ Len(q) \in 0..Len(q)
      /\ \A k \in 1..Len(q) : p[k] = q[k]
  BY <1>1 DEF Starts, q
<1>3. Reached(root, p)[Len(q)] = x.value
  BY <1>1, <1>2, StartsReached DEF q
<1>4. CASE Len(q) = Len(p)
  <2>1. p = q
    BY <1>1, <1>2, <1>4
  <2> QED BY <1>1, <2>1 DEF ReadAtPath, q
<1>5. CASE Len(q) # Len(p)
  <2>1. Len(q) \in 0..(Len(p) - 1) /\ Len(q) + 1 \in 1..Len(p)
    BY <1>2, <1>5
  <2> DEFINE name == p[Len(q) + 1]
  <2>2. Leads(root, p)
    <3>1. ReadAtPath(root, p).is # "none"
      BY <1>1
    <3> QED BY <1>2, <3>1, SomethingLeads
  <2>3. HasField(x.value, name)
    BY <1>3, <2>1, <2>2 DEF Leads
  <2>4. name \in Names
    BY <1>1, <2>1
  <2>5. FieldAt(x.value, name).is # "none" /\ x.value.is = "struct"
    <3>1. Reached(root, p)[Len(q) + 1] = FieldAt(x.value, name)
      BY <1>2, <1>3, <2>1, ReachedSteps
    <3>2. Reached(root, p)[Len(q) + 1].is # "none"
      <4>1. CASE Len(q) + 1 = Len(p)
        BY <1>1, <4>1 DEF ReadAtPath
      <4>2. CASE Len(q) + 1 # Len(p)
        <5>1. Len(q) + 1 \in 0..(Len(p) - 1)
          BY <2>1, <4>2
        <5>2. HasField(Reached(root, p)[Len(q) + 1], p[(Len(q) + 1) + 1])
          BY <2>2, <5>1 DEF Leads
        <5>3. Reached(root, p)[Len(q) + 1].is = "struct"
          BY <5>2, FieldTypes
        <5> QED BY <5>3
      <4> QED BY <4>1, <4>2
    <3> QED BY <2>3, <3>1, <3>2, FieldTypes
  <2> HIDE DEF name
  <2>6. Starts(Append(q, name), p)
    <3>1. Len(Append(q, name)) = Len(q) + 1 /\ Append(q, name)[Len(q) + 1] = name
          /\ \A k \in 1..Len(q) : Append(q, name)[k] = q[k]
      BY <1>1, <2>4
    <3>2. \A k \in 1..(Len(q) + 1) : k \in 1..Len(q) \/ k = Len(q) + 1
      BY <1>2
    <3> QED BY <1>2, <2>1, <3>1, <3>2 DEF Starts, name
  <2> QED BY <2>4, <2>5, <2>6 DEF q
<1> QED BY <1>4, <1>5

\* The walk starts with the root on the stack.
LEMMA WalkStarts ==
    ASSUME NEW Names, NEW V, NEW root \in V
    PROVE  WalkInv(root, V, Names,
                   [stack |-> << [path |-> <<>>, value |-> root] >>, leaves |-> <<>>])
<1> DEFINE x == [path |-> <<>>, value |-> root]
           s == << x >>
           l == <<>>
           w == [stack |-> s, leaves |-> l]
<1>1. ReadAtPath(root, <<>>) = root
  <2>1. Len(<<>>) = 0
    OBVIOUS
  <2> QED BY <2>1, ReachedSteps DEF ReadAtPath
<1>2. x \in Items(root, V, Names)
  BY <1>1 DEF Items
<1>3. \A p \in Seq(Names) : Starts(x.path, p)
  BY DEF Starts
<1>4. x.path = <<>>
  OBVIOUS
<1> HIDE DEF x
<1>5. s \in Seq(Items(root, V, Names)) /\ Len(s) = 1 /\ s[1] = x
      /\ l \in Seq(Items(root, V, Names)) /\ Len(l) = 0
  BY <1>2
<1>6. w.stack = s /\ w.leaves = l
  OBVIOUS
<1> HIDE DEF s, l, w
<1>7. 1..Len(l) = {} /\ 1..Len(s) = {1}
  BY <1>5
<1>8. \A p \in Declared(root, Seq(Names)) : Starts(s[1].path, p)
  BY <1>3, <1>5 DEF Declared
<1>9. \A i, j \in 1..Len(s) : ~(i < j)
  BY <1>7
<1>10. 1 \in 1..Len(s)
  BY <1>7
<1>11. /\ \A i \in 1..Len(l) : l[i].value.is = "leaf"
       /\ \A i, j \in 1..Len(l) : i < j => Before(root, l[i].path, l[j].path)
       /\ \A i \in 1..Len(l), j \in 1..Len(s) : Before(root, l[i].path, s[j].path)
  BY <1>7
<1>12. \A i, j \in 1..Len(s) : i < j => Before(root, s[j].path, s[i].path)
  BY <1>9
<1>13. \A p \in Declared(root, Seq(Names)) : \E i \in 1..Len(s) : Starts(s[i].path, p)
  BY <1>8, <1>10
<1>14. s \in Seq(Items(root, V, Names)) /\ l \in Seq(Items(root, V, Names))
  BY <1>5
<1>15. WalkInv(root, V, Names, w)
  BY <1>6, <1>11, <1>12, <1>13, <1>14 DEF WalkInv
<1> QED BY <1>15 DEF w, s, l, x

\* A turn keeps that.
LEMMA WalkTurns ==
    ASSUME NEW Names, NEW V, Values(V, Names), NEW root \in V, NEW walk,
           WalkInv(root, V, Names, walk), walk.stack # <<>>
    PROVE  WalkInv(root, V, Names, Popped(walk))
<1> DEFINE I      == Items(root, V, Names)
           stack  == walk.stack
           leaves == walk.leaves
           n      == Len(stack) - 1
           x      == stack[Len(stack)]
           rest   == Front(stack)
           new    == Popped(walk)
<1>1. stack \in Seq(I) /\ leaves \in Seq(I) /\ stack # <<>>
  BY DEF WalkInv
<1>2. \A i \in 1..Len(leaves) : leaves[i].value.is = "leaf"
  BY DEF WalkInv
<1>3. \A p \in Declared(root, Seq(Names)) :
          \/ \E i \in 1..Len(leaves) : leaves[i].path = p
          \/ \E i \in 1..Len(stack) : Starts(stack[i].path, p)
  BY DEF WalkInv
<1>4. \A i, j \in 1..Len(stack) : i < j => Before(root, stack[j].path, stack[i].path)
  BY DEF WalkInv
<1>5. \A i, j \in 1..Len(leaves) : i < j => Before(root, leaves[i].path, leaves[j].path)
  BY DEF WalkInv
<1>6. \A i \in 1..Len(leaves), j \in 1..Len(stack) : Before(root, leaves[i].path, stack[j].path)
  BY DEF WalkInv
<1>7. new = IF ReflectToPrimitive(x.value) # None
            THEN [stack |-> rest, leaves |-> Append(leaves, x)]
            ELSE [stack |-> rest \o Pushed(x), leaves |-> leaves]
  BY DEF Popped, Last
<1> HIDE DEF stack, leaves, new, I
<1>8. Len(stack) \in Nat /\ Len(stack) # 0 /\ Len(leaves) \in Nat /\ n \in Nat /\ n + 1 = Len(stack)
      /\ x \in I /\ Len(stack) \in 1..Len(stack)
  BY <1>1
<1>9. rest \in Seq(I) /\ Len(rest) = n /\ \A i \in 1..n : rest[i] = stack[i] /\ i \in 1..Len(stack) /\ i < Len(stack)
  BY <1>1, <1>8 DEF Front
<1> HIDE DEF rest, x, n
<1>10. \A i \in 1..n : Before(root, x.path, rest[i].path)
  BY <1>4, <1>8, <1>9 DEF x
<1>11. \A i, j \in 1..n : i < j => Before(root, rest[j].path, rest[i].path)
  BY <1>4, <1>9
<1>12. \A i \in 1..Len(leaves) : Before(root, leaves[i].path, x.path) /\ \A j \in 1..n : Before(root, leaves[i].path, rest[j].path)
  BY <1>6, <1>8, <1>9 DEF x
<1>13. \A p \in Declared(root, Seq(Names)) :
          \/ \E i \in 1..Len(leaves) : leaves[i].path = p
          \/ \E i \in 1..n : Starts(rest[i].path, p)
          \/ Starts(x.path, p)
  <2>1. \A i \in 1..Len(stack) : stack[i] = x \/ (i \in 1..n /\ rest[i] = stack[i])
    BY <1>8, <1>9 DEF x
  <2> QED BY <1>3, <2>1
<1>14. CASE x.value.is = "leaf"
  <2> DEFINE l == Append(leaves, x)
  <2>1. new = [stack |-> rest, leaves |-> l]
    BY <1>7, <1>14 DEF ReflectToPrimitive, None
  <2>2. l \in Seq(I) /\ Len(l) = Len(leaves) + 1 /\ l[Len(leaves) + 1] = x
        /\ \A i \in 1..Len(leaves) : l[i] = leaves[i] /\ i \in 1..Len(l)
        /\ Len(leaves) + 1 \in 1..Len(l)
    BY <1>1, <1>8
  <2>3. \A i \in 1..Len(l) : i \in 1..Len(leaves) \/ i = Len(leaves) + 1
    BY <1>8, <2>2
  <2> HIDE DEF l
  <2>4. new.stack = rest /\ new.leaves = l
    BY <2>1
  <2>5. \A i \in 1..Len(l) : l[i].value.is = "leaf"
    BY <1>2, <1>14, <2>2, <2>3
  <2>6. ASSUME NEW p \in Declared(root, Seq(Names))
        PROVE  (\E i \in 1..Len(l) : l[i].path = p) \/ (\E i \in 1..n : Starts(rest[i].path, p))
    <3>1. CASE Starts(x.path, p)
      <4>1. p = x.path
        BY <1>8, <1>14, <3>1, LeafBelow DEF I
      <4> QED BY <2>2, <4>1
    <3> QED BY <1>13, <2>2, <3>1
  <2>7. ASSUME NEW i \in 1..Len(l), NEW j \in 1..Len(l), i < j
        PROVE  Before(root, l[i].path, l[j].path)
    <3>1. i \in 1..Len(leaves) /\ l[i] = leaves[i]
      BY <1>8, <2>2, <2>3, <2>7
    <3>2. CASE j \in 1..Len(leaves)
      BY <1>5, <2>2, <2>7, <3>1, <3>2
    <3>3. CASE j = Len(leaves) + 1
      BY <1>12, <2>2, <3>1, <3>3
    <3> QED BY <2>3, <3>2, <3>3
  <2>8. \A i \in 1..Len(l), j \in 1..n : Before(root, l[i].path, rest[j].path)
    BY <1>10, <1>12, <2>2, <2>3
  <2>9. WalkInv(root, V, Names, new)
    BY <1>9, <1>11, <2>2, <2>4, <2>5, <2>6, <2>7, <2>8 DEF WalkInv, I
  <2> QED BY <2>9 DEF new
<1>15. CASE x.value.is # "leaf"
  <2> DEFINE c == Pushed(x)
             s == rest \o c
  <2>1. new = [stack |-> s, leaves |-> leaves]
    BY <1>7, <1>15 DEF ReflectToPrimitive
  <2>2. /\ c \in Seq(I)
        /\ \A i \in 1..Len(c) : \E name \in Names : c[i].path = Append(x.path, name)
        /\ \A i, j \in 1..Len(c) : i < j => Before(root, c[j].path, c[i].path)
        /\ \A name \in Names : FieldAt(x.value, name).is # "none"
             => \E i \in 1..Len(c) : c[i].path = Append(x.path, name)
    <3>1. x \in Items(root, V, Names)
      BY <1>8 DEF I
    <3> HIDE DEF I
    <3>2. Pushed(x) \in Seq(Items(root, V, Names))
      BY <3>1, PushedTypes
    <3>3. \A i \in 1..Len(Pushed(x)) : \E name \in Names : Pushed(x)[i].path = Append(x.path, name)
      BY <3>1, PushedTypes
    <3>4. \A i, j \in 1..Len(Pushed(x)) : i < j => Before(root, Pushed(x)[j].path, Pushed(x)[i].path)
      BY <3>1, PushedTypes
    <3>5. \A name \in Names : FieldAt(x.value, name).is # "none"
             => \E i \in 1..Len(Pushed(x)) : Pushed(x)[i].path = Append(x.path, name)
      BY <3>1, PushedTypes
    <3> QED BY <3>2, <3>3, <3>4, <3>5 DEF I
  <2> HIDE DEF c
  <2>3. Len(c) \in Nat /\ n \in Nat /\ s \in Seq(I) /\ Len(s) = n + Len(c)
        /\ (\A i \in 1..n : s[i] = rest[i] /\ i \in 1..Len(s))
        /\ (\A i \in 1..Len(c) : s[n + i] = c[i] /\ n + i \in 1..Len(s))
    <3>1. c \in Seq(I) /\ rest \in Seq(I)
      BY <1>9, <2>2
    <3> HIDE DEF I
    <3>2. Len(c) \in Nat /\ Len(s) = Len(rest) + Len(c) /\ s \in Seq(I)
      BY <3>1
    <3>3. \A i \in 1..Len(s) : s[i] = IF i <= Len(rest) THEN rest[i] ELSE c[i - Len(rest)]
      BY <3>1
    <3>4. Len(rest) = n /\ n \in Nat
      BY <1>8, <1>9
    <3> HIDE DEF s
    <3>5. \A i \in 1..n : s[i] = rest[i] /\ i \in 1..Len(s)
      BY <3>2, <3>3, <3>4
    <3>6. \A i \in 1..Len(c) : s[n + i] = c[i] /\ n + i \in 1..Len(s)
      <4> SUFFICES ASSUME NEW i \in 1..Len(c) PROVE s[n + i] = c[i] /\ n + i \in 1..Len(s)
        OBVIOUS
      <4>1. n + i \in 1..Len(s) /\ ~(n + i <= Len(rest)) /\ (n + i) - Len(rest) = i
        BY <3>2, <3>4
      <4> QED BY <3>3, <4>1
    <3> QED BY <3>2, <3>4, <3>5, <3>6
  <2> HIDE DEF s
  <2>4. \A i \in 1..Len(s) : i \in 1..n \/ (i - n \in 1..Len(c) /\ n + (i - n) = i)
    BY <2>3
  <2>5. new.stack = s /\ new.leaves = leaves
    BY <2>1
  <2>6. x.path \in Seq(Names) /\ (\A i \in 1..Len(leaves) : leaves[i].path \in Seq(Names))
        /\ (\A i \in 1..n : rest[i].path \in Seq(Names))
    BY <1>1, <1>8, <1>9 DEF I, Items
  <2>7. ASSUME NEW i \in 1..Len(c)
        PROVE  /\ \A j \in 1..n : Before(root, c[i].path, rest[j].path)
               /\ \A j \in 1..Len(leaves) : Before(root, leaves[j].path, c[i].path)
    <3>1. PICK name \in Names : c[i].path = Append(x.path, name)
      BY <2>2
    <3> QED BY <1>10, <1>12, <2>6, <3>1, BeforeAppend
  <2>8. ASSUME NEW p \in Declared(root, Seq(Names))
        PROVE  (\E i \in 1..Len(leaves) : leaves[i].path = p) \/ (\E i \in 1..Len(s) : Starts(s[i].path, p))
    <3>1. CASE Starts(x.path, p)
      <4>1. PICK name \in Names : FieldAt(x.value, name).is # "none" /\ Starts(Append(x.path, name), p)
        BY <1>8, <1>15, <3>1, LeafBelow DEF I
      <4>2. PICK i \in 1..Len(c) : c[i].path = Append(x.path, name)
        BY <2>2, <4>1
      <4>3. n + i \in 1..Len(s) /\ Starts(s[n + i].path, p)
        BY <2>3, <4>1, <4>2
      <4> QED BY <4>3
    <3>2. CASE \E i \in 1..n : Starts(rest[i].path, p)
      BY <2>3, <3>2
    <3> QED BY <1>13, <3>1, <3>2
  <2>9. ASSUME NEW i \in 1..Len(s), NEW j \in 1..Len(s), i < j
        PROVE  Before(root, s[j].path, s[i].path)
    <3>1. CASE j \in 1..n
      <4>1. i \in 1..n
        BY <2>9, <3>1, <2>3
      <4> QED BY <1>11, <2>3, <2>9, <3>1, <4>1
    <3>2. CASE j \notin 1..n
      <4>1. j - n \in 1..Len(c) /\ s[j] = c[j - n]
        BY <2>3, <2>4, <3>2
      <4>2. CASE i \in 1..n
        BY <2>3, <2>7, <4>1, <4>2
      <4>3. CASE i \notin 1..n
        <5>1. i - n \in 1..Len(c) /\ s[i] = c[i - n] /\ i - n < j - n
          BY <2>3, <2>4, <2>9, <4>3
        <5> QED BY <2>2, <4>1, <5>1
      <4> QED BY <4>2, <4>3
    <3> QED BY <3>1, <3>2
  <2>10. ASSUME NEW i \in 1..Len(leaves), NEW j \in 1..Len(s)
         PROVE  Before(root, leaves[i].path, s[j].path)
    <3>1. CASE j \in 1..n
      BY <1>12, <2>3, <3>1
    <3>2. CASE j \notin 1..n
      <4>1. j - n \in 1..Len(c) /\ s[j] = c[j - n]
        BY <2>3, <2>4, <3>2
      <4> QED BY <2>7, <4>1
    <3> QED BY <3>1, <3>2
  <2>11. WalkInv(root, V, Names, new)
    BY <1>1, <1>2, <1>5, <2>3, <2>5, <2>8, <2>9, <2>10 DEF WalkInv, I
  <2> QED BY <2>11 DEF new
<1> QED BY <1>14, <1>15

\* The paths that reach something, and those of them that go through the stack.
Nodes(root, Names) == {p \in Seq(Names) : ReadAtPath(root, p).is # "none"}

Below(root, Names, stack) ==
    {p \in Nodes(root, Names) : \E i \in 1..Len(stack) : Starts(stack[i].path, p)}

\* Where two paths part, the second one is no prefix of the first.
LEMMA BeforeParts ==
    ASSUME NEW Names, NEW V, Values(V, Names), NEW root \in V,
           NEW p \in Seq(Names), NEW q \in Seq(Names),
           ReadAtPath(root, p).is # "none", Before(root, p, q)
    PROVE  ~Starts(q, p)
<1> SUFFICES ASSUME Starts(q, p) PROVE FALSE
  OBVIOUS
<1>1. PICK i \in DOMAIN p \cap DOMAIN q :
        \E a, b \in DOMAIN Reached(root, p)[i - 1].names :
             a < b /\ Reached(root, p)[i - 1].names[a] = p[i] /\ Reached(root, p)[i - 1].names[b] = q[i]
  BY DEF Before
<1>2. p[i] = q[i]
  BY DEF Starts
<1> DEFINE v == Reached(root, p)[i - 1]
<1>3. i - 1 \in 0..(Len(p) - 1) /\ i - 1 \in 0..Len(p) /\ (i - 1) + 1 = i
  OBVIOUS
<1>4. Leads(root, p)
  BY SomethingLeads
<1>5. HasField(v, p[i])
  BY <1>3, <1>4 DEF Leads
<1>6. v \in V \cup {None}
  BY <1>3, ReachedTypes
<1>7. PICK a \in DOMAIN v.names, b \in DOMAIN v.names : a < b /\ v.names[a] = p[i] /\ v.names[b] = p[i]
  BY <1>1, <1>2
<1> HIDE DEF v
<1>8. v.is = "struct"
  BY <1>5, FieldTypes
<1>9. v.names \in Seq(Names) /\ \A k, l \in DOMAIN v.names : v.names[k] = v.names[l] => k = l
  BY <1>6, <1>8 DEF Values, None, Neither, Leaf
<1>10. a = b /\ a \in Nat
  BY <1>7, <1>9
<1> QED BY <1>7, <1>10

\* A turn leaves less below the stack: what it popped is not reached again.
LEMMA TurnShrinks ==
    ASSUME NEW Names, NEW V, Values(V, Names), NEW root \in V, NEW walk,
           WalkInv(root, V, Names, walk), walk.stack # <<>>
    PROVE  \E p \in Below(root, Names, walk.stack) :
              Below(root, Names, Popped(walk).stack) \subseteq Below(root, Names, walk.stack) \ {p}
<1> DEFINE I     == Items(root, V, Names)
           stack == walk.stack
           n     == Len(stack) - 1
           x     == stack[Len(stack)]
           rest  == Front(stack)
           new   == Popped(walk).stack
<1>1. stack \in Seq(I) /\ stack # <<>>
  BY DEF WalkInv
<1>2. \A i, j \in 1..Len(stack) : i < j => Before(root, stack[j].path, stack[i].path)
  BY DEF WalkInv
<1>3. new = IF x.value.is = "leaf" THEN rest ELSE rest \o Pushed(x)
  BY DEF Popped, Last, ReflectToPrimitive, None
<1> HIDE DEF stack, new, I
<1>4. Len(stack) \in Nat /\ Len(stack) # 0 /\ n \in Nat /\ n + 1 = Len(stack)
      /\ x \in I /\ Len(stack) \in 1..Len(stack)
  BY <1>1
<1>5. rest \in Seq(I) /\ Len(rest) = n /\ \A i \in 1..n : rest[i] = stack[i] /\ i \in 1..Len(stack) /\ i < Len(stack)
  BY <1>1, <1>4 DEF Front
<1> HIDE DEF rest, x, n
<1>6. \A i \in 1..n : Before(root, x.path, rest[i].path) /\ rest[i].path \in Seq(Names)
  <2>1. \A i \in 1..n : Before(root, x.path, rest[i].path)
    BY <1>2, <1>4, <1>5 DEF x
  <2>2. \A i \in 1..n : rest[i] \in I
    BY <1>5
  <2> QED BY <2>1, <2>2 DEF I, Items
<1>7. x.path \in Seq(Names) /\ ReadAtPath(root, x.path).is # "none"
  <2>1. x.path \in Seq(Names) /\ x.value \in V /\ x.value = ReadAtPath(root, x.path)
    BY <1>4 DEF I, Items
  <2>2. x.value.is # "none"
    BY <2>1 DEF Values, Neither
  <2> QED BY <2>1, <2>2
<1>8. x.path \in Below(root, Names, stack)
  <2>1. Starts(x.path, x.path)
    BY <1>7 DEF Starts
  <2>2. x.path \in Nodes(root, Names)
    BY <1>7 DEF Nodes
  <2> QED BY <1>4, <2>1, <2>2 DEF Below, x
<1>9. \A i \in 1..n : ~Starts(rest[i].path, x.path)
  BY <1>6, <1>7, BeforeParts
<1>10. ASSUME NEW p \in Nodes(root, Names), NEW i \in 1..n, Starts(rest[i].path, p)
       PROVE  p \in Below(root, Names, stack) \ {x.path}
  <2>1. p # x.path
    BY <1>9, <1>10
  <2> QED BY <1>5, <1>10, <2>1 DEF Below
<1>11. CASE x.value.is = "leaf"
  <2>1. new = rest
    BY <1>3, <1>11
  <2>2. Below(root, Names, new) \subseteq Below(root, Names, stack) \ {x.path}
    BY <1>5, <1>10, <2>1 DEF Below
  <2> QED BY <1>8, <2>2 DEF new, stack
<1>12. CASE x.value.is # "leaf"
  <2> DEFINE c == Pushed(x)
  <2>1. new = rest \o c
    BY <1>3, <1>12
  <2>2. x \in Items(root, V, Names)
    BY <1>4 DEF I
  <2>3. c \in Seq(I)
    <3> HIDE DEF I
    <3>1. Pushed(x) \in Seq(Items(root, V, Names))
      BY <2>2, PushedTypes
    <3> QED BY <3>1 DEF I
  <2>4. \A i \in 1..Len(c) : \E name \in Names : c[i].path = Append(x.path, name)
    BY <2>2, PushedTypes
  <2> HIDE DEF c
  <2>5. ASSUME NEW p \in Nodes(root, Names), NEW i \in 1..Len(c), Starts(c[i].path, p)
        PROVE  p \in Below(root, Names, stack) \ {x.path}
    <3>1. PICK name \in Names : c[i].path = Append(x.path, name)
      BY <2>4
    <3>2. p \in Seq(Names)
      BY DEF Nodes
    <3>3. Starts(x.path, p) /\ Len(p) # Len(x.path)
      <4> DEFINE q == x.path
                 r == Append(q, name)
      <4>1. q \in Seq(Names) /\ Starts(r, p)
        BY <1>7, <2>5, <3>1
      <4>2. Len(r) = Len(q) + 1 /\ Len(q) \in Nat /\ \A k \in 1..Len(q) : r[k] = q[k] /\ k \in 1..Len(r)
        BY <4>1
      <4>3. Len(p) \in Nat
        BY <3>2
      <4> HIDE DEF q, r
      <4>4. Starts(q, p) /\ Len(p) # Len(q)
        BY <4>1, <4>2, <4>3 DEF Starts
      <4> QED BY <4>4 DEF q
    <3>4. p # x.path
      BY <3>3
    <3> QED BY <1>4, <3>3, <3>4 DEF Below, x
  <2>6. ASSUME NEW p \in Below(root, Names, new)
        PROVE  p \in Below(root, Names, stack) \ {x.path}
    <3>1. p \in Nodes(root, Names)
      BY DEF Below
    <3>2. PICK i \in 1..Len(new) : Starts(new[i].path, p)
      BY DEF Below
    <3>3. \/ i \in 1..n /\ new[i] = rest[i]
          \/ i - n \in 1..Len(c) /\ new[i] = c[i - n]
      <4>1. Len(c) \in Nat /\ Len(rest \o c) = Len(rest) + Len(c)
            /\ \A j \in 1..Len(rest \o c) :
                  (rest \o c)[j] = IF j <= Len(rest) THEN rest[j] ELSE c[j - Len(rest)]
        BY <1>5, <2>3
      <4>2. Len(rest) = n /\ n \in Nat
        BY <1>4, <1>5
      <4> QED BY <2>1, <4>1, <4>2
    <3> QED BY <1>10, <2>5, <3>1, <3>2, <3>3
  <2> QED BY <1>8, <2>6 DEF new, stack
<1> QED BY <1>11, <1>12

\* The walk over a value of finitely many nodes ends, after a turn for each.
LEMMA WalksEnd ==
    ASSUME NEW Names, NEW V, Values(V, Names), NEW root \in V, NEW turns \in Nat,
           IsFiniteSet(Nodes(root, Names)), Cardinality(Nodes(root, Names)) <= turns
    PROVE  /\ WalkInv(root, V, Names, Turns(root, turns)[turns])
           /\ Turns(root, turns)[turns].stack = <<>>
<1> DEFINE walk(n)  == Turns(root, turns)[n]
           Left(n)  == Below(root, Names, walk(n).stack)
           Fewer(n) == walk(n).stack = <<>> \/ Cardinality(Left(n)) + n <= turns
           S == {n \in 0..turns : WalkInv(root, V, Names, walk(n)) /\ Fewer(n)}
<1>1. \A n : /\ IsFiniteSet(Left(n)) /\ Cardinality(Left(n)) \in Nat
             /\ Cardinality(Left(n)) <= Cardinality(Nodes(root, Names))
  <2>1. \A n : Left(n) \subseteq Nodes(root, Names)
    BY DEF Below
  <2> HIDE DEF Left
  <2> QED BY <2>1, FS_Subset, FS_CardinalityType
<1>2. 0 \in S
  <2>1. walk(0) = [stack |-> << [path |-> <<>>, value |-> root] >>, leaves |-> <<>>]
    BY TurnsUnfold
  <2>2. WalkInv(root, V, Names, walk(0))
    BY <2>1, WalkStarts
  <2>3. Cardinality(Nodes(root, Names)) \in Nat
    BY FS_CardinalityType
  <2>4. Cardinality(Left(0)) <= Cardinality(Nodes(root, Names)) /\ Cardinality(Left(0)) \in Nat
    BY <1>1
  <2> HIDE DEF walk, Left
  <2>5. Fewer(0)
    BY <2>3, <2>4
  <2> QED BY <2>2, <2>5
<1>3. \A n \in 0..(turns - 1) : n \in S => n + 1 \in S
  <2> SUFFICES ASSUME NEW n \in 0..(turns - 1), n \in S PROVE n + 1 \in S
    OBVIOUS
  <2>1. n + 1 \in 0..turns /\ n + 1 # 0 /\ (n + 1) - 1 = n /\ WalkInv(root, V, Names, walk(n)) /\ Fewer(n)
    OBVIOUS
  <2>2. walk(n + 1) = IF walk(n).stack = <<>> THEN walk(n) ELSE Popped(walk(n))
    BY <2>1, TurnsUnfold
  <2> HIDE DEF walk
  <2>3. WalkInv(root, V, Names, walk(n + 1))
    BY <2>1, <2>2, WalkTurns
  <2>4. CASE walk(n).stack = <<>>
    BY <2>1, <2>2, <2>3, <2>4
  <2>5. CASE walk(n).stack # <<>>
    <3>1. walk(n + 1) = Popped(walk(n))
      BY <2>2, <2>5
    <3>2. PICK p \in Left(n) : Left(n + 1) \subseteq Left(n) \ {p}
      <4>1. \E p \in Below(root, Names, walk(n).stack) :
              Below(root, Names, Popped(walk(n)).stack) \subseteq Below(root, Names, walk(n).stack) \ {p}
        BY <2>1, <2>5, TurnShrinks
      <4> QED BY <3>1, <4>1
    <3>3. IsFiniteSet(Left(n)) /\ Cardinality(Left(n)) \in Nat /\ Cardinality(Left(n + 1)) \in Nat
      BY <1>1
    <3>4. Cardinality(Left(n)) + n <= turns
      BY <2>1, <2>5
    <3> HIDE DEF Left
    <3>5. IsFiniteSet(Left(n) \ {p}) /\ Cardinality(Left(n) \ {p}) = Cardinality(Left(n)) - 1
      BY <3>3, FS_RemoveElement
    <3>6. Cardinality(Left(n + 1)) <= Cardinality(Left(n) \ {p})
      BY <3>2, <3>5, FS_Subset
    <3>7. Cardinality(Left(n + 1)) + (n + 1) <= turns
      BY <3>3, <3>4, <3>5, <3>6
    <3> QED BY <2>1, <2>3, <3>7
  <2> QED BY <2>4, <2>5
<1> HIDE DEF S
<1>4. 0..turns \subseteq S
  BY <1>2, <1>3, UpInduction
<1>5. turns \in 0..turns
  OBVIOUS
<1>6. WalkInv(root, V, Names, walk(turns)) /\ Fewer(turns)
  BY <1>4, <1>5 DEF S
<1>7. walk(turns).stack = <<>>
  <2> SUFFICES ASSUME walk(turns).stack # <<>> PROVE FALSE
    OBVIOUS
  <2>1. Left(turns) # {}
    <3> HIDE DEF walk
    <3> QED BY <1>6, TurnShrinks
  <2>2. Cardinality(Left(turns)) + turns <= turns
    BY <1>6
  <2>3. IsFiniteSet(Left(turns)) /\ Cardinality(Left(turns)) \in Nat
    BY <1>1
  <2> HIDE DEF walk, Left
  <2>4. Cardinality(Left(turns)) = 0
    BY <2>2, <2>3
  <2>5. Left(turns) = {}
    BY <2>3, <2>4, FS_EmptySet
  <2> QED BY <2>1, <2>5
<1> QED BY <1>6, <1>7
\* The walk over any value of finitely many nodes, of any depth and width, ends
\* and lists each primitive leaf once, with its value, in the order of declaration.
THEOREM WalksAreComplete ==
    ASSUME NEW Names, NEW V, Values(V, Names), NEW root \in V, NEW turns \in Nat,
           IsFiniteSet(Nodes(root, Names)), Cardinality(Nodes(root, Names)) <= turns
    PROVE  WalkIsComplete(root, Seq(Names), turns)
<1> DEFINE walk   == Turns(root, turns)[turns]
           leaves == walk.leaves
<1>1. WalkInv(root, V, Names, walk) /\ walk.stack = <<>>
  BY WalksEnd
<1>2. CollectLeaves(root, turns) = leaves
  BY DEF CollectLeaves
<1>3. walk.stack = <<>> /\ 1..Len(walk.stack) = {}
  BY <1>1
<1> HIDE DEF walk
<1>4. /\ leaves \in Seq(Items(root, V, Names))
      /\ \A i \in 1..Len(leaves) : leaves[i].value.is = "leaf"
      /\ \A p \in Declared(root, Seq(Names)) : \E i \in 1..Len(leaves) : leaves[i].path = p
      /\ \A i, j \in 1..Len(leaves) : i < j => Before(root, leaves[i].path, leaves[j].path)
  BY <1>1, <1>3 DEF WalkInv
<1> HIDE DEF leaves
<1>5. DOMAIN leaves = 1..Len(leaves)
      /\ \A i \in 1..Len(leaves) : /\ leaves[i].path \in Seq(Names)
                                   /\ leaves[i].value = ReadAtPath(root, leaves[i].path)
  BY <1>4 DEF Items
<1>6. \A i \in 1..Len(leaves) : leaves[i].path \in Declared(root, Seq(Names))
  BY <1>4, <1>5 DEF Declared
<1>7. {leaves[i].path : i \in DOMAIN leaves} = Declared(root, Seq(Names))
  BY <1>4, <1>5, <1>6
<1>8. \A i, j \in 1..Len(leaves) : i < j => leaves[i].path # leaves[j].path
  <2> SUFFICES ASSUME NEW i \in 1..Len(leaves), NEW j \in 1..Len(leaves), i < j,
                      leaves[i].path = leaves[j].path
               PROVE  FALSE
    OBVIOUS
  <2> DEFINE p == leaves[i].path
  <2>1. Before(root, p, p)
    BY <1>4
  <2>2. p \in Seq(Names) /\ ReadAtPath(root, p).is = "leaf"
    BY <1>4, <1>5
  <2>3. ReadAtPath(root, p).is # "none"
    BY <2>2
  <2>4. Starts(p, p)
    BY <2>2 DEF Starts
  <2> HIDE DEF p
  <2> QED BY <2>1, <2>2, <2>3, <2>4, BeforeParts
<1> QED BY <1>2, <1>4, <1>5, <1>7, <1>8 DEF WalkIsComplete

----------------------------------------------------------------------------
(* The inspector over the small values that TLC enumerates                 *)

SmallNames == {"a", "b"}

Small == Roots \cup Pairs

\* What the small structs consist of.
LEMMA SmallFields ==
    /\ \A v \in Leaves : v = Neither \/ v.is = "leaf"
    /\ \A v \in Pairs : /\ v.is = "struct" /\ v = Struct(v.names, v.field)
                        /\ v.names = <<"a", "b">> /\ v.field \in [{"a", "b"} -> Leaves]
    /\ \A v \in Roots \ Leaves :
          /\ v.is = "struct" /\ v = Struct(v.names, v.field)
          /\ \/ /\ v.names = <<>> \/ v.names = <<"a">>
                /\ v.field \in [{"a"} -> Leaves \cup Pairs]
             \/ v.names = <<"b", "a">> /\ v.field \in [{"a", "b"} -> Leaves \cup Pairs]
<1>1. ASSUME NEW v \in Leaves PROVE v = Neither \/ v.is = "leaf"
  <2>1. v = Neither \/ \E kind, text : v = Leaf(kind, text)
    BY Zenon DEF Leaves
  <2> QED BY <2>1 DEF Leaf
<1>2. ASSUME NEW v \in Pairs
      PROVE  /\ v.is = "struct" /\ v = Struct(v.names, v.field)
             /\ v.names = <<"a", "b">> /\ v.field \in [{"a", "b"} -> Leaves]
  <2>1. PICK l \in Leaves, k \in Leaves : v = Struct(<<"a", "b">>, [a |-> l, b |-> k])
    BY DEF Pairs
  <2>2. [a |-> l, b |-> k] \in [{"a", "b"} -> Leaves]
    OBVIOUS
  <2> QED BY <2>1, <2>2 DEF Struct
<1>3. ASSUME NEW v \in Roots \ Leaves
      PROVE  /\ v.is = "struct" /\ v = Struct(v.names, v.field)
             /\ \/ /\ v.names = <<>> \/ v.names = <<"a">>
                   /\ v.field \in [{"a"} -> Leaves \cup Pairs]
                \/ v.names = <<"b", "a">> /\ v.field \in [{"a", "b"} -> Leaves \cup Pairs]
  <2>1. v \in Structs(Leaves \cup Pairs)
    BY DEF Roots
  <2>2. CASE \E names \in {<<>>, <<"a">>}, field \in [{"a"} -> Leaves \cup Pairs] :
               v = Struct(names, field)
    BY <2>2 DEF Struct
  <2>3. CASE \E field \in [{"a", "b"} -> Leaves \cup Pairs] : v = Struct(<<"b", "a">>, field)
    BY <2>3 DEF Struct
  <2> QED BY <2>1, <2>2, <2>3 DEF Structs
<1> QED BY <1>1, <1>2, <1>3

\* They are such as the theorems about values speak of.
LEMMA SmallValues == Values(Small, SmallNames)
<1> SUFFICES ASSUME NEW v \in Small
    PROVE  \/ v = Neither
           \/ /\ v.is = "leaf"
              /\ v = Leaf(v.kind, v.text) /\ v.kind \in PrimitiveKind /\ v.text \in Text
              /\ Parse(v.text, v.kind) = v
           \/ /\ v.is = "struct"
              /\ v = Struct(v.names, v.field) /\ v.names \in Seq(SmallNames)
              /\ \A i, j \in DOMAIN v.names : v.names[i] = v.names[j] => i = j
              /\ v.field \in [DOMAIN v.field -> Small]
              /\ \A i \in DOMAIN v.names : v.names[i] \in DOMAIN v.field
  BY DEF Values
<1>1. CASE v \in Leaves /\ v # Neither
  <2>1. /\ {"U8", "Bool", "String"} \subseteq PrimitiveKind
        /\ "U8" \in Integer /\ InRange(10, "U8")
    BY DEF PrimitiveKind, Integer, InRange, Low, High, Zero
  <2>2. {Numeral(10, FALSE), Numeral(10, TRUE), Word("true")} \subseteq Text
    <3>1. 10 \in Numerals /\ 10 \in Zero..25
      BY DEF Numerals, Zero
    <3> QED BY <3>1 DEF Text
  <2>3. CASE v = Leaf("U8", Numeral(10, FALSE))
    <3> DEFINE text == Numeral(10, FALSE)
    <3>1. text.sort = "numeral" /\ text.rank = 10
      BY DEF Numeral
    <3> HIDE DEF text
    <3>2. Parse(text, "U8") = Leaf("U8", Numeral(text.rank, FALSE))
      BY <2>1, <3>1, KindTypes DEF Parse
    <3>3. v.is = "leaf" /\ v.kind = "U8" /\ v.text = text
      BY <2>3 DEF Leaf, text
    <3> QED BY <2>1, <2>2, <2>3, <3>1, <3>2, <3>3 DEF text
  <2>4. CASE v = Leaf("Bool", Word("true"))
    <3> DEFINE text == Word("true")
    <3>1. text.word = "true"
      BY DEF Word
    <3> HIDE DEF text
    <3>2. Parse(text, "Bool") = Leaf("Bool", text)
      BY <3>1, KindTypes DEF Parse
    <3>3. v.is = "leaf" /\ v.kind = "Bool" /\ v.text = text
      BY <2>4 DEF Leaf, text
    <3> QED BY <2>1, <2>2, <2>4, <3>2, <3>3 DEF text
  <2>5. CASE v = Leaf("String", Numeral(10, TRUE))
    <3> DEFINE text == Numeral(10, TRUE)
    <3> HIDE DEF text
    <3>2. Parse(text, "String") = Leaf("String", text)
      BY KindTypes DEF Parse
    <3>3. v.is = "leaf" /\ v.kind = "String" /\ v.text = text
      BY <2>5 DEF Leaf, text
    <3> QED BY <2>1, <2>2, <2>5, <3>2, <3>3 DEF text
  <2> QED BY <1>1, <2>3, <2>4, <2>5 DEF Leaves
<1>2. CASE v \notin Leaves
  <2>1. Leaves \cup Pairs \subseteq Small
    BY DEF Small, Roots
  <2>2. /\ v.is = "struct" /\ v = Struct(v.names, v.field)
        /\ v.names \in {<<>>, <<"a">>, <<"a", "b">>, <<"b", "a">>}
    BY <1>2, SmallFields DEF Small
  <2>3. \/ v.field \in [{"a"} -> Leaves \cup Pairs] /\ v.names \in {<<>>, <<"a">>}
        \/ v.field \in [{"a", "b"} -> Leaves \cup Pairs]
    BY <1>2, SmallFields DEF Small
  <2>4. /\ v.field \in [DOMAIN v.field -> Small]
        /\ \/ v.names \in {<<>>, <<"a">>} /\ DOMAIN v.field = {"a"}
           \/ DOMAIN v.field = {"a", "b"}
    BY <2>1, <2>3
  <2>5. /\ v.names \in Seq(SmallNames)
        /\ \A i, j \in DOMAIN v.names : v.names[i] = v.names[j] => i = j
    <3>1. CASE v.names = <<>>
      BY <3>1
    <3>2. CASE v.names = <<"a">>
      BY <3>2 DEF SmallNames
    <3>3. CASE v.names = <<"a", "b">>
      BY <3>3 DEF SmallNames
    <3>4. CASE v.names = <<"b", "a">>
      BY <3>4 DEF SmallNames
    <3> QED BY <2>2, <3>1, <3>2, <3>3, <3>4
  <2>6. \A i \in DOMAIN v.names : v.names[i] \in DOMAIN v.field
    <3>1. CASE v.names = <<>>
      BY <3>1
    <3>2. CASE v.names = <<"a">>
      BY <2>4, <3>2
    <3>3. CASE v.names \in {<<"a", "b">>, <<"b", "a">>}
      BY <2>4, <3>3
    <3> QED BY <2>2, <3>1, <3>2, <3>3
  <2> QED BY <2>2, <2>4, <2>5, <2>6
<1> QED BY <1>1, <1>2

\* A path of more than two fields reaches nothing in them.
LEMMA SmallDepth ==
    ASSUME NEW root \in Roots, NEW path \in Seq(SmallNames), ReadAtPath(root, path).is # "none"
    PROVE  Len(path) <= 2
<1> SUFFICES ASSUME ~(Len(path) <= 2) PROVE FALSE
  OBVIOUS
<1> DEFINE m == Len(path)
           at(n) == Reached(root, path)[n]
<1>0. m \in Nat /\ m > 2 /\ \A n \in 1..m : path[n] \in SmallNames
  OBVIOUS
<1>1. at(0) = root /\ \A n \in 0..(m - 1) : at(n + 1) = FieldAt(at(n), path[n + 1])
  BY <1>0, ReachedSteps
<1>2. ASSUME NEW v \in Leaves \cup {None}, NEW name PROVE FieldAt(v, name) = None
  BY SmallFields DEF FieldAt, None, Neither
<1>3. ASSUME NEW v \in Pairs \cup Leaves \cup {None}, NEW name PROVE FieldAt(v, name) \in Leaves \cup {None}
  <2>1. CASE v \in Pairs
    <3>1. v.names = <<"a", "b">> /\ v.field \in [{"a", "b"} -> Leaves]
      BY <2>1, SmallFields
    <3>2. \A i \in DOMAIN v.names : v.names[i] \in {"a", "b"}
      BY <3>1
    <3> QED BY <3>1, <3>2 DEF FieldAt
  <2> QED BY <1>2, <1>3, <2>1
<1>4. ASSUME NEW name PROVE FieldAt(root, name) \in Pairs \cup Leaves \cup {None}
  <2>1. CASE root \notin Leaves
    <3>1. \/ root.names \in {<<>>, <<"a">>} /\ root.field \in [{"a"} -> Leaves \cup Pairs]
          \/ root.names = <<"b", "a">> /\ root.field \in [{"a", "b"} -> Leaves \cup Pairs]
      BY <2>1, SmallFields
    <3>2. CASE root.names \in {<<>>, <<"a">>} /\ root.field \in [{"a"} -> Leaves \cup Pairs]
      <4>1. \A i \in DOMAIN root.names : root.names[i] = "a"
        BY <3>2
      <4> QED BY <3>2, <4>1 DEF FieldAt
    <3>3. CASE root.names = <<"b", "a">> /\ root.field \in [{"a", "b"} -> Leaves \cup Pairs]
      <4>1. \A i \in DOMAIN root.names : root.names[i] \in {"a", "b"}
        BY <3>3
      <4> QED BY <3>3, <4>1 DEF FieldAt
    <3> QED BY <3>1, <3>2, <3>3
  <2> QED BY <1>2, <2>1
<1> HIDE DEF at
<1>5. at(1) \in Pairs \cup Leaves \cup {None}
  BY <1>0, <1>1, <1>4
<1>6. at(2) \in Leaves \cup {None}
  BY <1>0, <1>1, <1>3, <1>5
<1>7. at(3) = None
  <2>1. 2 \in 0..(m - 1) /\ 2 + 1 = 3
    BY <1>0
  <2>2. at(3) = FieldAt(at(2), path[3])
    BY <1>1, <2>1
  <2> QED BY <1>2, <1>6, <2>2
<1> DEFINE S == {n \in 0..m : n < 3 \/ at(n) = None}
<1>8. 0 \in S
  BY <1>0
<1>9. ASSUME NEW n \in 0..(m - 1), n \in S PROVE n + 1 \in S
  <2>1. CASE n < 2
    BY <1>0, <2>1
  <2>2. CASE n = 2
    BY <1>0, <1>7, <2>2
  <2>3. CASE n > 2
    <3>1. at(n) = None /\ at(n + 1) = FieldAt(at(n), path[n + 1])
      BY <1>0, <1>1, <1>9, <2>3
    <3>2. at(n + 1) = None
      BY <1>2, <3>1
    <3> QED BY <1>0, <3>2
  <2> QED BY <1>0, <2>1, <2>2, <2>3
<1> HIDE DEF S
<1>10. m \in S
  <2>1. 0..m \subseteq S
    BY <1>0, <1>8, <1>9, UpInduction
  <2> QED BY <1>0, <2>1
<1>11. at(m) = None
  BY <1>0, <1>10 DEF S
<1> QED BY <1>11 DEF ReadAtPath, at, None

\* The enumerated paths are sequences of the names.
LEMMA SmallPaths == Paths \subseteq Seq(SmallNames)
<1> SUFFICES ASSUME NEW p \in Paths PROVE p \in Seq(SmallNames)
  OBVIOUS
<1>1. PICK n \in 0..3 : p \in [1..n -> {"a", "b"}]
  BY DEF Paths
<1> QED BY <1>1 DEF SmallNames

\* The range of n values has at most n.
LEMMA RangeSize ==
    ASSUME NEW n \in Nat, NEW f, f \in [1..n -> {f[i] : i \in 1..n}]
    PROVE  IsFiniteSet({f[i] : i \in 1..n}) /\ Cardinality({f[i] : i \in 1..n}) <= n
<1> DEFINE T == {f[i] : i \in 1..n}
<1>1. IsFiniteSet(1..n) /\ Cardinality(1..n) = n
  <2>1. \A a, b \in Int : /\ IsFiniteSet(a..b)
                          /\ Cardinality(a..b) = IF a > b THEN 0 ELSE b - a + 1
    BY FS_Interval
  <2>2. 1 \in Int /\ n \in Int /\ (IF 1 > n THEN 0 ELSE n - 1 + 1) = n
    OBVIOUS
  <2> QED BY <2>1, <2>2
<1>2. f \in [1..n -> T] /\ \A t \in T : \E i \in 1..n : f[i] = t
  OBVIOUS
<1> HIDE DEF T
<1>3. f \in Surjection(1..n, T)
  BY <1>2 DEF Surjection
<1>4. IsFiniteSet(T) /\ Cardinality(T) <= Cardinality(1..n)
  BY <1>1, <1>3, FS_Surjection
<1> QED BY <1>1, <1>4 DEF T

\* At most seven of the paths reach something, and all that do are enumerated.
LEMMA SmallNodes ==
    ASSUME NEW root \in Roots
    PROVE  /\ IsFiniteSet(Nodes(root, SmallNames)) /\ Cardinality(Nodes(root, SmallNames)) <= 7
           /\ Declared(root, Paths) = Declared(root, Seq(SmallNames))
<1> DEFINE all == << <<>>, <<"a">>, <<"b">>, <<"a", "a">>, <<"a", "b">>, <<"b", "a">>, <<"b", "b">> >>
           P7  == {all[i] : i \in 1..7}
<1>1. ASSUME NEW p \in Seq(SmallNames), Len(p) <= 2 PROVE p \in P7
  <2>1. /\ all[1] = <<>> /\ all[2] = <<"a">> /\ all[3] = <<"b">> /\ all[4] = <<"a", "a">>
        /\ all[5] = <<"a", "b">> /\ all[6] = <<"b", "a">> /\ all[7] = <<"b", "b">>
    OBVIOUS
  <2> HIDE DEF all
  <2>2. CASE Len(p) = 0
    <3>1. p = <<>>
      BY <2>2
    <3> QED BY <2>1, <3>1
  <2>3. CASE Len(p) = 1
    <3>1. p = <<p[1]>> /\ p[1] \in SmallNames
      BY <2>3
    <3> QED BY <2>1, <3>1 DEF SmallNames
  <2>4. CASE Len(p) = 2
    <3>1. p = <<p[1], p[2]>> /\ p[1] \in SmallNames /\ p[2] \in SmallNames
      BY <2>4
    <3>2. p \in {all[4], all[5], all[6], all[7]}
      BY <2>1, <3>1 DEF SmallNames
    <3>3. {4, 5, 6, 7} \subseteq 1..7
      OBVIOUS
    <3> QED BY <3>2, <3>3
  <2>5. Len(p) \in {0, 1, 2}
    <3>1. Len(p) \in Nat /\ \A n \in Nat : n <= 2 => n \in {0, 1, 2}
      OBVIOUS
    <3> QED BY <1>1, <3>1
  <2> HIDE DEF P7
  <2> QED BY <2>2, <2>3, <2>4, <2>5
<1> HIDE DEF all
<1>2. IsFiniteSet(P7) /\ Cardinality(P7) <= 7
  <2>1. all \in [1..7 -> {all[i] : i \in 1..7}] /\ 7 \in Nat
    BY DEF all
  <2> QED BY <2>1, RangeSize
<1>3. Nodes(root, SmallNames) \subseteq P7
  BY <1>1, SmallDepth DEF Nodes
<1> HIDE DEF P7
<1>4. IsFiniteSet(Nodes(root, SmallNames)) /\ Cardinality(Nodes(root, SmallNames)) <= 7
  <2>1. /\ IsFiniteSet(Nodes(root, SmallNames))
        /\ Cardinality(Nodes(root, SmallNames)) <= Cardinality(P7)
    BY <1>2, <1>3, FS_Subset
  <2> QED BY <1>2, <2>1, FS_CardinalityType
<1>5. Declared(root, Paths) \subseteq Declared(root, Seq(SmallNames))
  <2>1. Paths \subseteq Seq(SmallNames)
    BY SmallPaths
  <2> QED BY <2>1 DEF Declared
<1>6. ASSUME NEW p \in Declared(root, Seq(SmallNames)) PROVE p \in Declared(root, Paths)
  <2>1. p \in Seq(SmallNames) /\ ReadAtPath(root, p).is = "leaf"
    BY DEF Declared
  <2>2. Len(p) <= 2 /\ Len(p) \in 0..3
    <3>1. ReadAtPath(root, p).is # "none"
      BY <2>1
    <3>2. Len(p) <= 2 /\ Len(p) \in Nat
      BY <2>1, <3>1, SmallDepth
    <3>3. \A n \in Nat : n <= 2 => n \in 0..3
      OBVIOUS
    <3> QED BY <3>2, <3>3
  <2>3. p \in [1..Len(p) -> {"a", "b"}]
    BY <2>1 DEF SmallNames
  <2>4. p \in Paths
    BY <2>2, <2>3 DEF Paths
  <2> QED BY <2>1, <2>4 DEF Declared
<1> QED BY <1>4, <1>5, <1>6

\* Walks, edits and names are exact over the small values, whatever the hooks do.
THEOREM InspectorIsCorrect == Spec => []InspectorIsExact
<1>1. ASSUME NEW kind \in PrimitiveKind, NEW text \in Text PROVE ParseIsStable(text, kind)
  BY ParsesAreStable
<1>2. ASSUME NEW root \in Roots
      PROVE  /\ WalkIsComplete(root, Paths, 7)
             /\ \A path \in Paths, primitive \in Leaves \ {Neither} : WriteIsTyped(root, path, primitive)
             /\ \A path \in Declared(root, Paths) \ {<<>>}, text \in Text :
                   EditIsExact(root, Paths, path, text)
  <2>0. root \in Small /\ Paths \subseteq Seq(SmallNames) /\ 7 \in Nat
    BY SmallPaths DEF Small
  <2>1. WalkIsComplete(root, Paths, 7)
    <3>1. WalkIsComplete(root, Seq(SmallNames), 7)
      BY <2>0, SmallValues, SmallNodes, WalksAreComplete
    <3> QED BY <3>1, SmallNodes DEF WalkIsComplete
  <2>2. ASSUME NEW path \in Paths, NEW primitive PROVE WriteIsTyped(root, path, primitive)
    <3>1. path \in Seq(SmallNames)
      BY <2>0
    <3> QED BY <2>0, <3>1, SmallValues, WritesAreTyped
  <2>3. ASSUME NEW path \in Declared(root, Paths) \ {<<>>}, NEW text \in Text
        PROVE  EditIsExact(root, Paths, path, text)
    <3>1. path \in Seq(SmallNames) /\ path # <<>> /\ ReadAtPath(root, path).is = "leaf"
      BY <2>0 DEF Declared
    <3>2. EditIsExact(root, Seq(SmallNames), path, text)
      BY <2>0, <3>1, SmallValues, EditsAreExact
    <3>3. \A top : Declared(top, Paths) = Declared(top, Seq(SmallNames)) \cap Paths
      BY <2>0 DEF Declared
    <3> QED BY <3>2, <3>3 DEF EditIsExact
  <2> QED BY <2>1, <2>2, <2>3
<1>3. ASSUME NEW registry \in Registries, registry[1].full # registry[2].full, NEW name
      PROVE  NameIsExact(registry, name)
  <2>1. DOMAIN registry = {1, 2}
    BY DEF Registries
  <2>2. IsFiniteSet({1, 2})
    <3>1. {1, 2} = {1} \cup {2} /\ 2 \notin {1}
      OBVIOUS
    <3>2. IsFiniteSet({1})
      BY FS_Singleton
    <3>3. IsFiniteSet({1} \cup {2})
      BY <3>1, <3>2, FS_AddElement
    <3> QED BY <3>1, <3>3
  <2>3. \A t, u \in DOMAIN registry : registry[t].full = registry[u].full => t = u
    BY <1>3, <2>1
  <2>4. IsFiniteSet(DOMAIN registry)
    BY <2>1, <2>2
  <2> QED BY <2>3, <2>4, NamesAreExact
<1>4. Exact
  BY <1>1, <1>2, <1>3 DEF Exact
<1>5. InspectorIsExact
  BY <1>4 DEF InspectorIsExact
<1> QED BY <1>5, PTL

----------------------------------------------------------------------------
(* Queries                                                                 *)

\* No system drives a query's signal and no typed mirror replaces it, so that it
\* never publishes anything, and no hook has anything else to show.
SilentInv ==
    ~IsResource =>
      /\ ~typed /\ handle = "dyn" /\ published["dyn"] = Empty /\ fresh = {}
      /\ todo \cap {"drive", "drive typed", "write typed"} = {}
      /\ \A h \in Hooks : hook[h] = "bound" => shown[h] = Empty

\* The steps that leave the mirror, its run and what hooks show alone.
LEMMA SilentElsewhere ==
    ASSUME SilentInv, UNCHANGED <<scenario, typed, handle, published, fresh, todo, hook, shown>>
    PROVE  SilentInv'
BY DEF SilentInv, IsResource

\* No step breaks the silence of a query.
LEMMA SilentStep == ChannelInv /\ ValueTypes /\ SilentInv /\ [Next]_vars => SilentInv'
<1> SUFFICES ASSUME ChannelInv, ValueTypes, SilentInv, [Next]_vars PROVE SilentInv'
  OBVIOUS
<1> USE DEF IsResource
<1>1. ASSUME NEW h \in Hooks, Request(h) PROVE SilentInv'
  BY <1>1 DEF Request, SilentInv, ChannelInv, AnswerInv, worldVars, frameVars, signalVars
<1>2. ASSUME NEW h \in Hooks, Bind(h) \/ Rebind(h) \/ Forward(h) PROVE SilentInv'
  <2>1. UNCHANGED <<scenario, typed, handle, published, fresh, todo>>
    BY <1>2 DEF Bind, Rebind, Forward, worldVars, mirrorVars, signalVars, frameVars
  <2>2. \A k \in Hooks \ {h} : shown'[k] = shown[k] /\ hook'[k] = hook[k]
    BY <1>2 DEF Bind, Rebind, Forward, ValueTypes, ChannelInv, AnswerInv
  <2>3. ~IsResource => shown'[h] = Empty
    <3>1. handle = "dyn" => bound[h] \in {"dyn", "none"}
      BY DEF ChannelInv, AnswerInv
    <3>2. hook[h] \in {"answered", "bound"} => bound[h] # "none"
      BY DEF ChannelInv, AnswerInv
    <3> QED BY <1>2, <3>1, <3>2 DEF Bind, Rebind, Forward, SilentInv, ValueTypes
  <2> QED BY <2>1, <2>2, <2>3 DEF SilentInv
<1>3. ASSUME NEW h \in Hooks, Mutate(h) \/ SetValue(h) PROVE SilentInv'
  BY <1>3, SilentElsewhere
     DEF Mutate, SetValue, worldVars, hookVars, mirrorVars, frameVars, signalVars
<1>4. CASE RequestTyped \/ SpawnOrDespawn \/ BevyWrite \/ StartFrame \/ EndFrame
  BY <1>4, SilentElsewhere
     DEF RequestTyped, SpawnOrDespawn, BevyWrite, StartFrame, EndFrame, worldVars, hookVars,
         mirrorVars, frameVars, signalVars
<1>5. CASE RegisterOrGetResourceDyn \/ RequestBevyResource
  <2>1. IsResource /\ scenario' = scenario
    BY <1>5 DEF RegisterOrGetResourceDyn, RequestBevyResource, worldVars
  <2> QED BY <2>1 DEF SilentInv
<1>6. CASE RegisterOrGetQueryDyn
  <2>1. UNCHANGED <<scenario, typed, handle, published, fresh, todo, shown>>
    BY <1>6 DEF RegisterOrGetQueryDyn, worldVars, frameVars, signalVars
  <2>2. \A h \in Hooks : hook'[h] = "bound" => hook[h] = "bound"
    BY <1>6 DEF RegisterOrGetQueryDyn, Answer, ChannelInv, AnswerInv
  <2> QED BY <2>1, <2>2 DEF SilentInv
<1>7. CASE ElevateReflectQuery
  BY <1>7, SilentElsewhere DEF ElevateReflectQuery, worldVars, hookVars, frameVars, signalVars
<1>8. CASE RunSchedules
  <2>1. UNCHANGED <<scenario, typed, handle, published, fresh, hook, shown>> /\ todo' = Due
    BY <1>8 DEF RunSchedules, hookVars, mirrorVars, signalVars
  <2>2. ~IsResource /\ ~typed => Due \subseteq {"read", "write"}
    BY DEF Due
  <2> QED BY <2>1, <2>2 DEF SilentInv
<1>9. CASE ReadResource \/ ReadQuery \/ EndRun
  <2>1. UNCHANGED <<scenario, typed, handle, published, fresh, hook, shown>> /\ todo' \subseteq todo
    BY <1>9 DEF ReadResource, ReadQuery, EndRun, Runs, worldVars, hookVars, mirrorVars, signalVars
  <2> QED BY <2>1 DEF SilentInv
<1>10. ASSUME NEW defer \in BOOLEAN, DriveReflectResourceSignals(defer) \/ DriveSignal(defer)
       PROVE  SilentInv'
  <2>1. scenario' = scenario /\ {"drive", "drive typed"} \cap todo # {}
    BY <1>10 DEF DriveReflectResourceSignals, DriveSignal, Runs, worldVars
  <2> QED BY <2>1 DEF SilentInv
<1>11. CASE WriteResource \/ WriteQuery \/ SyncResourceToMirror
  <2>1. /\ UNCHANGED <<scenario, typed, handle, published, hook, shown>>
        /\ todo' \subseteq todo /\ fresh' \subseteq fresh
    BY <1>11 DEF WriteResource, WriteQuery, SyncResourceToMirror, WriteBack, Posted, Runs,
       hookVars, mirrorVars, signalVars
  <2> QED BY <2>1 DEF SilentInv
<1>12. CASE UNCHANGED vars
  BY <1>12, SilentElsewhere DEF vars, worldVars, hookVars, mirrorVars, frameVars, signalVars
<1> QED
  BY <1>1, <1>2, <1>3, <1>4, <1>5, <1>6, <1>7, <1>8, <1>9, <1>10, <1>11, <1>12
     DEF Next, Dioxus, Frame, ApplyCommand

\* A hook of a query shows no entity, whatever matches it.
QueriesStayEmpty == ~IsResource => \A h \in Hooks : hook[h] = "bound" => shown[h] = Empty

\* Nor does a run of the schedules write to an entity.
QueriesWriteNothing == [][~IsResource /\ pc # "bevy" => world' = world]_vars

\* The counterexample to QueriesShown is no accident of an instance: whatever
\* entities there are, whatever bevy does and however long the frames go on, elevated
\* or not, a query that is asked for by name shows nothing, and writes nothing back.
THEOREM QueriesAreSilent == Spec => []QueriesStayEmpty /\ QueriesWriteNothing
<1> DEFINE Inv == ChannelInv /\ EditTypes /\ ValueTypes /\ SilentInv
<1>1. Init => Inv
  <2>1. Init => SilentInv
    BY DEF Init, SilentInv, Signals
  <2> QED BY <2>1, ChannelInit, TypesInit
<1>2. Inv /\ [Next]_vars => Inv'
  BY ChannelStep, EditStep, ValueStep, SilentStep
<1>3. Inv => QueriesStayEmpty
  BY DEF SilentInv, QueriesStayEmpty
<1>4. ASSUME Inv, [Next]_vars PROVE [~IsResource /\ pc # "bevy" => world' = world]_vars
  <2> SUFFICES ASSUME ~IsResource, pc # "bevy" PROVE world' = world
    OBVIOUS
  <2>1. fresh = {}
    BY <1>4 DEF SilentInv
  <2>2. \A s, marks : WriteBack(s, marks) => world' = world
    BY <2>1 DEF WriteBack, NewVersion
  <2>3. CASE WriteResource \/ WriteQuery \/ SyncResourceToMirror
    BY <2>2, <2>3 DEF WriteResource, WriteQuery, SyncResourceToMirror
  <2>4. CASE ~(WriteResource \/ WriteQuery \/ SyncResourceToMirror)
    BY <1>4, <2>4
       DEF Next, Dioxus, Frame, ApplyCommand, vars, worldVars, Request, Mutate, SetValue, RequestTyped,
           Bind, Rebind, Forward, StartFrame, EndFrame, RunSchedules, EndRun, ReadResource, ReadQuery,
           RegisterOrGetResourceDyn, RegisterOrGetQueryDyn, RequestBevyResource, ElevateReflectQuery,
           DriveReflectResourceSignals, DriveSignal, SpawnOrDespawn, BevyWrite
  <2> QED BY <2>3, <2>4
<1> HIDE DEF Inv
<1>5. Inv /\ [Next]_vars => [~IsResource /\ pc # "bevy" => world' = world]_vars
  BY <1>4
<1> QED BY <1>1, <1>2, <1>3, <1>5, PTL DEF Spec, QueriesWriteNothing

----------------------------------------------------------------------------
(* Closures                                                                 *)

\* What MutationsArrive supposes, of a resource, which is in one place.
Orderly ==
    /\ Plain /\ ~scenario.defer /\ scenario.typed # "any"
    /\ \E p \in Places : scenario.places = {p}

ClosurePart(writes) == {w \in writes : w[1] = "mutate"}

\* v says of the resource what it is, with all closures that have reached it.
Carries(v) ==
    /\ DOMAIN v = DOMAIN world
    /\ \A p \in DOMAIN world : ClosurePart(world[p]) \subseteq v[p]

\* A run has the systems of the mirrors that there are.  If the typed mirror is
\* asked for second, it finds the dynamic one and ends it, so that never both run.
\* There is no mirror without the resource, and no closure without a mirror.
OneInv ==
    /\ IF pc = "sync" THEN todo \subseteq Due ELSE todo = {}
    /\ scenario.typed # "any" =>
         /\ typed => mirror = "elevated"
         /\ mirror = "none" => \A i \in 1..Len(commands) : commands[i] # "typed"
    /\ world = [p \in DOMAIN world |-> world[p]] /\ DOMAIN world \subseteq scenario.places
    /\ IsResource /\ mirror # "none" => DOMAIN world # {}
    /\ mutates > 0 => mirror # "none"

\* What a mirror is about to publish, or to write back, has the closures that have
\* arrived: the dynamic one reads them in each run, the typed one was sent them or
\* has written them itself.
HeldInv ==
    Orderly /\ mirror # "none" =>
      /\ \A s \in fresh : Carries(published[s])
      /\ "drive" \in todo => "dyn" \notin fresh
      /\ "drive typed" \in todo => "typed" \notin fresh
      /\ "drive" \in todo /\ "read" \notin todo => sent["dyn"] # Nothing /\ Carries(sent["dyn"])
      /\ "drive typed" \in todo
           => Carries(IF sent["typed"] = Nothing THEN accepted["typed"] ELSE sent["typed"])
      /\ "drive typed" \notin todo /\ typed /\ ~changed => Carries(accepted["typed"])
      /\ "typed" \in fresh => published["typed"] = accepted["typed"]

\* No mirror, no command and no closure is there at first.
LEMMA OneInit == Init => OneInv /\ HeldInv
BY DEF Init, OneInv, HeldInv

\* The steps that leave the mirrors, their run and the channel alone.
LEMMA OneElsewhere ==
    ASSUME OneInv, UNCHANGED <<scenario, todo, typed, mirror, commands, world, mutates>>,
           UNCHANGED pc \/ (todo = {} /\ pc' # "sync")
    PROVE  OneInv'
BY DEF OneInv, Due, IsResource

\* Every step keeps the mirrors apart.
LEMMA OneStep == ChannelInv /\ ChangeInv /\ OneInv /\ [Next]_vars => OneInv'
<1> SUFFICES ASSUME ChannelInv, ChangeInv, OneInv, [Next]_vars PROVE OneInv'
  OBVIOUS
<1>0. /\ commands \in Seq(Hooks \cup {"typed"}) /\ mutates \in Nat /\ "typed" \notin Hooks
      /\ mirror \in {"none", "active", "elevated"}
  BY ReflectAssumption DEF ChannelInv, CommandInv, ChangeInv, ValueInv
<1>1. ASSUME NEW h \in Hooks, Request(h) PROVE OneInv'
  <2>1. /\ UNCHANGED <<scenario, todo, typed, mirror, world, mutates, pc>>
        /\ commands' = Append(commands, h) /\ h # "typed"
    BY <1>0, <1>1 DEF Request, worldVars, editVars, frameVars
  <2>2. (\A i \in 1..Len(commands) : commands[i] # "typed")
          => \A i \in 1..Len(commands') : commands'[i] # "typed"
    BY <1>0, <2>1
  <2> QED BY <2>1, <2>2 DEF OneInv, Due, IsResource
<1>2. ASSUME NEW h \in Hooks, Bind(h) \/ Rebind(h) \/ Forward(h) \/ SetValue(h) PROVE OneInv'
  BY <1>2, OneElsewhere
     DEF Bind, Rebind, Forward, SetValue, worldVars, editVars, mirrorVars, frameVars
<1>3. ASSUME NEW h \in Hooks, Mutate(h) PROVE OneInv'
  <2>1. UNCHANGED <<scenario, todo, typed, mirror, commands, world, pc>> /\ hook[h] = "bound"
    BY <1>3 DEF Mutate, MayWrite, worldVars, mirrorVars, frameVars
  <2>2. mirror # "none"
    BY <2>1 DEF ChannelInv, AnswerInv
  <2> QED BY <2>1, <2>2 DEF OneInv, Due, IsResource
<1>4. CASE RequestTyped
  <2>1. /\ UNCHANGED <<scenario, todo, typed, mirror, world, mutates, pc>>
        /\ scenario.typed = "any" \/ mirror # "none"
    BY <1>4 DEF RequestTyped, worldVars, editVars, frameVars
  <2> QED BY <2>1 DEF OneInv, Due, IsResource
<1>5. CASE SpawnOrDespawn \/ BevyWrite
  <2>1. /\ UNCHANGED <<scenario, todo, typed, mirror, commands, mutates, pc>> /\ pc = "bevy"
        /\ world' = [p \in DOMAIN world' |-> world'[p]] /\ DOMAIN world' \subseteq scenario.places
        /\ IsResource => DOMAIN world \subseteq DOMAIN world'
    BY <1>5 DEF SpawnOrDespawn, BevyWrite, editVars, mirrorVars, frameVars, OneInv
  <2> QED BY <2>1 DEF OneInv, IsResource
<1>6. CASE StartFrame \/ EndFrame \/ EndRun
  BY <1>6, OneElsewhere
     DEF StartFrame, EndFrame, EndRun, Idle, worldVars, editVars, mirrorVars, OneInv
<1>7. CASE ApplyCommand
  <2>1. /\ UNCHANGED <<scenario, world, mutates, pc, todo>> /\ pc = "commands" /\ commands # <<>>
        /\ commands' = Tail(commands)
    BY <1>7 DEF ApplyCommand, RegisterOrGetResourceDyn, RegisterOrGetQueryDyn, RequestBevyResource,
         ElevateReflectQuery, NextCommand, worldVars, editVars, frameVars
  <2>2. (\A i \in 1..Len(commands) : commands[i] # "typed")
          => \A i \in 1..Len(commands') : commands'[i] # "typed"
    BY <1>0, <2>1
  <2>3. mirror # "none" => mirror' # "none"
    BY <1>7 DEF ApplyCommand, RegisterOrGetResourceDyn, RegisterOrGetQueryDyn, RequestBevyResource,
         NotifyTypedResourceMirror, ElevateReflectQuery
  <2>4. IsResource /\ mirror' # "none" => DOMAIN world # {}
    <3>1. IsResource /\ mirror' # "none" /\ mirror = "none" => world # Empty
      BY <1>7 DEF ApplyCommand, RegisterOrGetResourceDyn, RegisterOrGetQueryDyn, RequestBevyResource,
           NotifyTypedResourceMirror, ElevateReflectQuery
    <3>2. DOMAIN world = {} => world = Empty
      BY DEF OneInv, Empty
    <3> QED BY <3>1, <3>2 DEF OneInv
  <2>5. ASSUME scenario.typed # "any" PROVE typed' => mirror' = "elevated"
    <3>1. CASE RequestBevyResource
      <4>1. Head(commands) = commands[1] /\ 1 \in 1..Len(commands)
        BY <1>0, <2>1
      <4>2. mirror # "none"
        BY <2>5, <3>1, <4>1 DEF RequestBevyResource, OneInv
      <4>3. mirror' = "elevated" \/ UNCHANGED <<typed, mirror>>
        BY <3>1, <4>2 DEF RequestBevyResource, NotifyTypedResourceMirror
      <4> QED BY <2>5, <4>3 DEF OneInv
    <3>2. CASE RegisterOrGetResourceDyn \/ RegisterOrGetQueryDyn \/ ElevateReflectQuery
      <4>1. typed' = typed /\ (mirror = "elevated" => mirror' = "elevated")
        BY <3>2 DEF RegisterOrGetResourceDyn, RegisterOrGetQueryDyn, ElevateReflectQuery
      <4> QED BY <2>5, <4>1 DEF OneInv
    <3> QED BY <1>7, <3>1, <3>2 DEF ApplyCommand
  <2> QED BY <2>1, <2>2, <2>3, <2>4, <2>5 DEF OneInv, IsResource
<1>8. CASE RunSchedules
  <2>1. UNCHANGED <<scenario, world, mutates, typed, mirror, commands>> /\ pc' = "sync" /\ todo' = Due
    BY <1>8 DEF RunSchedules, editVars, mirrorVars
  <2> QED BY <2>1 DEF OneInv, Due, IsResource
<1>9. CASE ReadResource \/ ReadQuery \/ \E defer \in BOOLEAN : DriveReflectResourceSignals(defer) \/ DriveSignal(defer)
  <2>1. UNCHANGED <<scenario, world, mutates, typed, mirror, commands, pc>> /\ pc = "sync" /\ todo' \subseteq todo
    BY <1>9 DEF ReadResource, ReadQuery, DriveReflectResourceSignals, DriveSignal, Runs, worldVars,
         editVars, mirrorVars
  <2> QED BY <2>1 DEF OneInv, Due, IsResource
<1>10. CASE WriteResource \/ WriteQuery \/ SyncResourceToMirror
  <2>1. /\ UNCHANGED <<scenario, mutates, typed, mirror, commands, pc>> /\ pc = "sync" /\ todo' \subseteq todo
    BY <1>10 DEF WriteResource, WriteQuery, SyncResourceToMirror, Posted, Runs, WriteBack,
         editVars, mirrorVars
  <2>2. world' = world \/ \E s \in Signals : world' = Merged(s)
    BY <1>10 DEF WriteResource, WriteQuery, SyncResourceToMirror, WriteBack, Signals
  <2>3. DOMAIN world' = DOMAIN world /\ world' = [p \in DOMAIN world' |-> world'[p]]
    BY <2>2 DEF Merged, OneInv
  <2> QED BY <2>1, <2>3 DEF OneInv, Due, IsResource
<1>11. CASE UNCHANGED vars
  BY <1>11, OneElsewhere DEF vars, worldVars, editVars, mirrorVars, frameVars
<1> QED BY <1>1, <1>2, <1>3, <1>4, <1>5, <1>6, <1>7, <1>8, <1>9, <1>10, <1>11 DEF Next, Dioxus, Frame

\* A tick that does not defer publishes all closures, on top of what it was sent.
LEMMA TickTakes ==
    ASSUME ChangeInv, Orderly, NEW s \in Signals, NEW defer \in BOOLEAN, Tick(s, defer), s \notin fresh,
           UNCHANGED world,
           Carries(IF sent[s] = Nothing THEN accepted[s] ELSE sent[s])
    PROVE  /\ Carries(accepted'[s])
           /\ \A op \in queue[s] : s \in fresh' /\ \A p \in DOMAIN world : op \in published'[s][p]
           /\ sent[s] # Nothing => s \in fresh'
           /\ fresh' \subseteq fresh \cup {s} /\ fresh \subseteq fresh'
           /\ s \in fresh' => published'[s] = accepted'[s]
           /\ \A r \in Signals \ {s} : queue'[r] = queue[r]
<1> DEFINE base == IF sent[s] = Nothing THEN accepted[s] ELSE sent[s]
<1>1. /\ DOMAIN accepted = Signals /\ DOMAIN published = Signals /\ queue \in [Signals -> SUBSET Write]
      /\ \A op \in queue[s] : op[1] = "mutate"
  BY DEF ChangeInv, ValueInv, Orderly, Plain
<1>2. defer = FALSE
  BY DEF Tick, Orderly
<1>3. accepted'[s] = Applied(base, queue[s])
  BY <1>1 DEF Tick, Drained
<1>4. Applied(base, queue[s]) = [p \in DOMAIN base |-> base[p] \cup queue[s]]
  <2>1. {op \in queue[s] : op[1] = "set"} = {}
    BY <1>1
  <2> HIDE DEF base
  <2> QED BY <2>1 DEF Applied
<1> HIDE DEF base
<1>5. Carries(base)
  BY DEF base
<1>6. Carries(accepted'[s]) /\ \A op \in queue[s], p \in DOMAIN world : op \in accepted'[s][p]
  BY <1>3, <1>4, <1>5 DEF Carries
<1>7. \/ published'[s] = accepted'[s] /\ fresh' = fresh \cup {s}
      \/ sent[s] = Nothing /\ queue[s] = {} /\ fresh' = fresh
  BY <1>1, <1>2 DEF Tick
<1>8. \A r \in Signals \ {s} : queue'[r] = queue[r]
  BY <1>1 DEF Tick
<1> QED BY <1>6, <1>7, <1>8

\* While the system that writes a signal back is due, no other one is fresh.
LEMMA OneIsFresh ==
    ASSUME ChangeInv, OneInv, scenario.typed # "any", pc = "sync"
    PROVE  /\ "write" \in todo => fresh \subseteq {"dyn"}
           /\ "write typed" \in todo => fresh \subseteq {"typed"}
<1>1. "write" \in todo => mirror = "active"
  BY DEF OneInv, Due
<1>2. "write typed" \in todo => mirror = "elevated"
  BY DEF OneInv, Due
<1>3. ("dyn" \in fresh => "write" \in todo) /\ ("typed" \in fresh => "write typed" \in todo)
      /\ fresh \subseteq {"dyn", "typed"}
  BY DEF ChangeInv, RunInv, Signals
<1> QED BY <1>1, <1>2, <1>3

\* A write-back keeps the closures that are there, and brings those of its signal.
LEMMA WriteBackBrings ==
    ASSUME ChangeInv, HeldInv, Orderly, mirror # "none", NEW s \in Signals, fresh \subseteq {s},
           NEW marks \in BOOLEAN, WriteBack(s, marks), marks \/ s = "typed",
           {"drive", "drive typed"} \cap todo = {}, todo' \subseteq todo
    PROVE  /\ HeldInv'
           /\ \A p \in DOMAIN world : ClosurePart(world[p]) \subseteq world'[p]
           /\ fresh' = {} /\ queue' = queue /\ DOMAIN world' = DOMAIN world
           /\ s \in fresh => \A p \in DOMAIN world : world'[p] = published[s][p]
<1>1. /\ UNCHANGED <<scenario, mirror, typed, queue, accepted, published, sent>> /\ fresh' = {}
      /\ "drive" \notin todo' /\ "drive typed" \notin todo'
  BY DEF WriteBack, editVars, mirrorVars, signalVars
<1>2. CASE s \in fresh
  <2>1. world' = Merged(s) /\ Carries(published[s]) /\ changed' = (changed \/ marks)
    BY <1>2 DEF WriteBack, NewVersion, HeldInv
  <2>2. DOMAIN world' = DOMAIN world /\ \A p \in DOMAIN world : world'[p] = published[s][p]
    BY <2>1 DEF Merged, Carries
  <2>3. ASSUME typed, ~changed' PROVE Carries(accepted["typed"])'
    <3>1. s = "typed" /\ published["typed"] = accepted["typed"]
      BY <1>2, <2>1, <2>3 DEF HeldInv
    <3>2. accepted'["typed"] = published[s]
      BY <1>1, <3>1
    <3> QED BY <2>1, <2>2, <3>2 DEF Carries, ClosurePart
  <2>4. \A p \in DOMAIN world : ClosurePart(world[p]) \subseteq world'[p]
    BY <2>1, <2>2 DEF Carries
  <2> QED BY <1>1, <2>2, <2>3, <2>4 DEF HeldInv
<1>3. CASE s \notin fresh
  <2>1. UNCHANGED <<world, changed>>
    BY <1>3 DEF WriteBack, NewVersion
  <2> QED BY <1>1, <1>3, <2>1 DEF HeldInv, Carries, ClosurePart
<1> QED BY <1>2, <1>3

\* A behaviour keeps its scenario.
LEMMA ScenarioStays == [Next]_vars => scenario' = scenario
<1>1. ASSUME NEW h \in Hooks,
             Request(h) \/ Bind(h) \/ Rebind(h) \/ Forward(h) \/ Mutate(h) \/ SetValue(h)
      PROVE  scenario' = scenario
  BY <1>1 DEF Request, Bind, Rebind, Forward, Mutate, SetValue, worldVars
<1>2. ASSUME RequestTyped \/ SpawnOrDespawn \/ BevyWrite \/ UNCHANGED vars
      PROVE  scenario' = scenario
  BY <1>2 DEF RequestTyped, SpawnOrDespawn, BevyWrite, vars, worldVars
<1>3. ASSUME StartFrame \/ ApplyCommand \/ EndFrame \/ RunSchedules \/ EndRun
      PROVE  scenario' = scenario
  BY <1>3 DEF StartFrame, EndFrame, RunSchedules, EndRun, ApplyCommand, RegisterOrGetResourceDyn,
     RegisterOrGetQueryDyn, RequestBevyResource, ElevateReflectQuery, worldVars
<1>4. ASSUME ReadResource \/ ReadQuery \/ WriteResource \/ WriteQuery \/ SyncResourceToMirror
      PROVE  scenario' = scenario
  BY <1>4 DEF ReadResource, ReadQuery, WriteResource, WriteQuery, SyncResourceToMirror, WriteBack,
     worldVars
<1>5. ASSUME NEW defer \in BOOLEAN, DriveReflectResourceSignals(defer) \/ DriveSignal(defer)
      PROVE  scenario' = scenario
  BY <1>5 DEF DriveReflectResourceSignals, DriveSignal, worldVars
<1> QED BY <1>1, <1>2, <1>3, <1>4, <1>5 DEF Next, Dioxus, Frame

\* Every step keeps what the signals hold of the closures.
LEMMA HeldStep == ChangeInv /\ OneInv /\ HeldInv /\ [Next]_vars => HeldInv'
<1> SUFFICES ASSUME ChangeInv, OneInv, HeldInv, [Next]_vars, Orderly, mirror' # "none"
             PROVE  HeldInv'
  BY ScenarioStays DEF HeldInv, Orderly, Plain, IsResource
<1>0. IsResource /\ scenario.typed # "any" /\ scenario.set = 0 /\ ~scenario.driveFirst
  BY DEF Orderly, Plain
<1>1. ASSUME UNCHANGED <<scenario, world, changed, mirror, typed, sent, accepted, published, fresh, todo>>
      PROVE  HeldInv'
  BY <1>1 DEF HeldInv, Carries
<1>2. CASE \E h \in Hooks : Request(h) \/ Bind(h) \/ Rebind(h) \/ Forward(h) \/ Mutate(h)
  BY <1>1, <1>2 DEF Request, Bind, Rebind, Forward, Mutate, worldVars, mirrorVars, frameVars, signalVars
<1>3. ASSUME NEW h \in Hooks, SetValue(h) PROVE HeldInv'
  BY <1>0, <1>3 DEF SetValue, ChangeInv, ValueInv
<1>4. CASE RequestTyped \/ StartFrame \/ EndFrame \/ EndRun \/ UNCHANGED vars
  BY <1>1, <1>4 DEF RequestTyped, StartFrame, EndFrame, EndRun, vars, worldVars, mirrorVars, frameVars,
     signalVars
<1>5. CASE SpawnOrDespawn \/ BevyWrite
  <2>1. pc = "bevy" /\ changed' = TRUE /\ UNCHANGED <<todo, fresh>>
    BY <1>5 DEF SpawnOrDespawn, BevyWrite, frameVars
  <2> QED BY <2>1 DEF HeldInv, OneInv, ChangeInv, RunInv
<1>6. CASE ApplyCommand
  <2>1. /\ UNCHANGED <<scenario, world, todo, fresh, sent>> /\ pc = "commands"
    BY <1>6 DEF ApplyCommand, RegisterOrGetResourceDyn, RegisterOrGetQueryDyn, RequestBevyResource,
         ElevateReflectQuery, NextCommand, worldVars, frameVars
  <2>2. todo = {} /\ fresh = {}
    BY <2>1 DEF OneInv, ChangeInv, RunInv
  <2>3. ASSUME typed', ~changed' PROVE typed /\ ~changed /\ accepted'["typed"] = accepted["typed"]
    <3>1. CASE RegisterOrGetResourceDyn
      BY <2>3, <3>1 DEF RegisterOrGetResourceDyn, Started, ChangeInv, ValueInv, worldVars, signalVars, Signals
    <3>2. CASE RequestBevyResource
      <4>1. CASE world # Empty
        <5>1. changed' = TRUE
          BY <3>2, <4>1 DEF RequestBevyResource
        <5> QED BY <2>3, <5>1
      <4>2. CASE world = Empty
        <5>1. typed' = typed /\ changed' = changed /\ accepted' = accepted
          BY <3>2, <4>2 DEF RequestBevyResource
        <5>2. typed /\ ~changed
          BY <2>3, <5>1, Zenon
        <5> QED BY <5>1, <5>2
      <4> QED BY <4>1, <4>2
    <3> QED BY <1>0, <1>6, <3>1, <3>2 DEF ApplyCommand, RegisterOrGetQueryDyn, ElevateReflectQuery
  <2>4. typed => mirror # "none"
    BY <1>0 DEF OneInv
  <2> QED BY <2>1, <2>2, <2>3, <2>4 DEF HeldInv, Carries
<1>7. CASE RunSchedules
  <2>1. /\ UNCHANGED <<scenario, world, mirror, typed, accepted, published, fresh>> /\ todo' = Due
        /\ sent' = [sent EXCEPT !["typed"] = IF typed /\ changed THEN world ELSE @]
        /\ pc # "sync"
    BY <1>7 DEF RunSchedules, Idle, mirrorVars, signalVars
  <2>2. /\ fresh = {} /\ todo = {} /\ sent["typed"] = Nothing /\ world # Nothing
        /\ sent'["typed"] = IF typed /\ changed THEN world ELSE Nothing
    BY <2>1, ReflectAssumption
       DEF ChangeInv, RunInv, ValueInv, SeenInv, Orderly, OneInv, Nothing, Signals
  <2>3. /\ "drive" \in Due => "read" \in Due
        /\ "drive typed" \in Due <=> typed
    BY DEF Due
  <2>4. Carries(world)
    BY DEF Carries, ClosurePart
  <2>5. ASSUME typed
        PROVE  Carries(IF sent'["typed"] = Nothing THEN accepted["typed"] ELSE sent'["typed"])
    BY <2>1, <2>2, <2>4, <2>5 DEF HeldInv
  <2> QED BY <2>1, <2>2, <2>3, <2>5 DEF HeldInv, Carries
<1>8. CASE ReadResource \/ ReadQuery
  <2>1. /\ UNCHANGED <<scenario, world, changed, mirror, typed, accepted, published, fresh>>
        /\ todo' = todo \ {"read"} /\ sent' = [sent EXCEPT !["dyn"] = world]
    BY <1>8 DEF ReadResource, ReadQuery, Runs, worldVars, mirrorVars, signalVars
  <2>2. sent'["dyn"] = world /\ sent'["typed"] = sent["typed"] /\ world # Nothing
    BY <2>1, ReflectAssumption DEF ChangeInv, RunInv, ValueInv, Nothing, Signals
  <2>3. Carries(world)
    BY DEF Carries, ClosurePart
  <2> QED BY <2>1, <2>2, <2>3 DEF HeldInv, Carries
<1>9. ASSUME NEW defer \in BOOLEAN, DriveReflectResourceSignals(defer) PROVE HeldInv'
  <2>1. /\ UNCHANGED <<scenario, world, changed, mirror, typed>> /\ todo' = todo \ {"drive"}
        /\ "drive" \in todo /\ "read" \notin todo /\ Tick("dyn", defer) /\ "dyn" \in Signals
    BY <1>0, <1>9 DEF DriveReflectResourceSignals, Runs, worldVars, mirrorVars, Signals
  <2>2. "dyn" \notin fresh /\ Carries(IF sent["dyn"] = Nothing THEN accepted["dyn"] ELSE sent["dyn"])
    BY <2>1 DEF HeldInv
  <2>3. /\ Carries(accepted'["dyn"]) /\ fresh' \subseteq fresh \cup {"dyn"}
        /\ "dyn" \in fresh' => published'["dyn"] = accepted'["dyn"]
    BY <2>1, <2>2, TickTakes
  <2>4. /\ sent'["typed"] = sent["typed"] /\ accepted'["typed"] = accepted["typed"]
        /\ published'["typed"] = published["typed"]
    BY <2>1 DEF Tick, ChangeInv, ValueInv, Signals
  <2>5. ASSUME NEW s \in fresh' PROVE Carries(published'[s])
    BY <2>1, <2>3, <2>4, <2>5 DEF HeldInv, ChangeInv, RunInv, Signals
  <2> QED BY <2>1, <2>3, <2>4, <2>5 DEF HeldInv, Carries
<1>10. ASSUME NEW defer \in BOOLEAN, DriveSignal(defer) PROVE HeldInv'
  <2>1. /\ UNCHANGED <<scenario, world, changed, mirror, typed>> /\ todo' = todo \ {"drive typed"}
        /\ "drive typed" \in todo /\ Tick("typed", defer) /\ "typed" \in Signals
    BY <1>10 DEF DriveSignal, Runs, worldVars, mirrorVars, Signals
  <2>2. /\ "typed" \notin fresh
        /\ Carries(IF sent["typed"] = Nothing THEN accepted["typed"] ELSE sent["typed"])
    BY <2>1 DEF HeldInv
  <2>3. /\ Carries(accepted'["typed"]) /\ fresh' \subseteq fresh \cup {"typed"}
        /\ "typed" \in fresh' => published'["typed"] = accepted'["typed"]
    BY <2>1, <2>2, TickTakes
  <2>4. sent'["dyn"] = sent["dyn"] /\ published'["dyn"] = published["dyn"]
    BY <2>1 DEF Tick, ChangeInv, ValueInv, Signals
  <2>5. ASSUME NEW s \in fresh' PROVE Carries(published'[s])
    BY <2>1, <2>3, <2>4, <2>5 DEF HeldInv, ChangeInv, RunInv, Signals
  <2>6. "drive" \in todo' => "dyn" \notin fresh'
    BY <2>1, <2>3 DEF HeldInv
  <2> QED BY <2>1, <2>3, <2>4, <2>5, <2>6 DEF HeldInv, Carries
<1>11. CASE WriteResource \/ WriteQuery \/ SyncResourceToMirror
  <2>1. /\ pc = "sync" /\ todo' \subseteq todo /\ {"drive", "drive typed"} \cap todo = {}
        /\ mirror # "none"
        /\ \/ "write" \in todo /\ WriteBack("dyn", TRUE)
           \/ "write typed" \in todo /\ WriteBack("typed", FALSE)
    BY <1>11 DEF WriteResource, WriteQuery, SyncResourceToMirror, Posted, Runs, WriteBack, mirrorVars
  <2> QED BY <1>0, <2>1, OneIsFresh, WriteBackBrings DEF Signals
<1> QED BY <1>2, <1>3, <1>4, <1>5, <1>6, <1>7, <1>8, <1>9, <1>10, <1>11 DEF Next, Dioxus, Frame

\* A closure is in a queue, published and about to be written back, or in bevy.
Arrives(op) ==
    \/ op \in queue["dyn"] \cup queue["typed"]
    \/ \E s \in fresh : \A p \in DOMAIN world : op \in published[s][p]
    \/ \A p \in DOMAIN world : op \in world[p]

\* No closure of a resource is lost, by either mirror or between them, ...
ReachInv == Orderly => \A n \in 1..mutates : Arrives(<<"mutate", n>>)

\* ... and the resource is there to receive it.
ClosuresReach ==
    Orderly /\ mutates > 0
      => DOMAIN world # {} /\ \A n \in 1..mutates : Arrives(<<"mutate", n>>)

\* What has arrived stays, whatever is published or written back later.
KeepsClosures == Orderly => \A p \in DOMAIN world : ClosurePart(world[p]) \subseteq world'[p]

ClosuresStay == [][KeepsClosures]_vars

\* What only adds to the queues and to bevy loses no closure.
LEMMA ReachElsewhere ==
    ASSUME ReachInv, UNCHANGED <<scenario, fresh, published, mutates>>,
           \A s \in Signals : queue[s] \subseteq queue'[s],
           DOMAIN world' = DOMAIN world, \A p \in DOMAIN world : world[p] \subseteq world'[p]
    PROVE  ReachInv' /\ KeepsClosures
BY DEF ReachInv, Arrives, KeepsClosures, ClosurePart, Orderly, Plain, IsResource, Signals

\* The tick of s moves its closures from the queue to what it publishes.
LEMMA ReachTick ==
    ASSUME ChangeInv, HeldInv, ReachInv, Orderly, NEW s \in Signals, NEW defer \in BOOLEAN,
           Tick(s, defer), s \notin fresh, UNCHANGED <<scenario, world, mutates>>,
           Carries(IF sent[s] = Nothing THEN accepted[s] ELSE sent[s])
    PROVE  ReachInv' /\ KeepsClosures
<1>1. /\ \A op \in queue[s] : s \in fresh' /\ \A p \in DOMAIN world : op \in published'[s][p]
      /\ fresh \subseteq fresh' /\ \A r \in Signals \ {s} : queue'[r] = queue[r]
  BY TickTakes
<1>2. \A r \in fresh : published'[r] = published[r]
  BY DEF Tick, ChangeInv, ValueInv, RunInv
<1>3. \A op : Arrives(op) => Arrives(op)'
  <2> SUFFICES ASSUME NEW op, Arrives(op) PROVE Arrives(op)'
    OBVIOUS
  <2>1. CASE op \in queue[s]
    BY <1>1, <2>1 DEF Arrives
  <2>2. CASE op \notin queue[s] /\ op \in queue["dyn"] \cup queue["typed"]
    BY <1>1, <2>2 DEF Arrives, Signals
  <2>3. CASE \E r \in fresh : \A p \in DOMAIN world : op \in published[r][p]
    BY <1>1, <1>2, <2>3 DEF Arrives
  <2>4. CASE \A p \in DOMAIN world : op \in world[p]
    BY <2>4 DEF Arrives
  <2> QED BY <2>1, <2>2, <2>3, <2>4 DEF Arrives
<1> QED BY <1>3 DEF ReachInv, Orderly, Plain, IsResource, KeepsClosures, ClosurePart

\* Every step keeps all closures that were sent, and those that have arrived.
LEMMA ReachStep ==
    /\ ChannelInv /\ ChangeInv /\ OneInv /\ HeldInv /\ ReachInv /\ [Next]_vars
    => ReachInv' /\ KeepsClosures
<1> SUFFICES ASSUME ChannelInv, ChangeInv, OneInv, HeldInv, ReachInv, [Next]_vars, Orderly
             PROVE  ReachInv' /\ KeepsClosures
  BY ScenarioStays DEF ReachInv, KeepsClosures, Orderly, Plain, IsResource
<1>0. /\ IsResource /\ scenario.typed # "any" /\ scenario.set = 0 /\ ~scenario.driveFirst
      /\ scenario' = scenario /\ mutates \in Nat
  BY ScenarioStays DEF Orderly, Plain, ChangeInv, ValueInv
<1>1. ASSUME UNCHANGED <<scenario, fresh, published, mutates, queue, world>>
      PROVE  ReachInv' /\ KeepsClosures
  BY <1>1, ReachElsewhere
<1>2. ASSUME NEW h \in Hooks, Request(h) \/ Bind(h) \/ Rebind(h) \/ Forward(h)
      PROVE  ReachInv' /\ KeepsClosures
  BY <1>1, <1>2 DEF Request, Bind, Rebind, Forward, worldVars, editVars, signalVars
<1>3. ASSUME NEW h \in Hooks, SetValue(h) PROVE ReachInv' /\ KeepsClosures
  BY <1>0, <1>3 DEF SetValue, ChangeInv, ValueInv
<1>4. ASSUME NEW h \in Hooks, Mutate(h) PROVE ReachInv' /\ KeepsClosures
  <2>1. /\ UNCHANGED <<scenario, world, fresh, published>> /\ hook[h] = "bound"
        /\ mutates' = mutates + 1
        /\ queue' = [queue EXCEPT ![bound[h]] = @ \cup {<<"mutate", mutates + 1>>}]
    BY <1>4 DEF Mutate, MayWrite, worldVars, signalVars
  <2>2. bound[h] \in Signals /\ queue \in [Signals -> SUBSET Write]
    BY <2>1 DEF ChannelInv, AnswerInv, ChangeInv, ValueInv
  <2>3. /\ \A s \in Signals : queue[s] \subseteq queue'[s]
        /\ <<"mutate", mutates + 1>> \in queue'[bound[h]]
    BY <2>1, <2>2
  <2>4. \A n \in 1..mutates : Arrives(<<"mutate", n>>)'
    BY <2>1, <2>3 DEF ReachInv, Arrives, Signals
  <2>5. ASSUME NEW n, n = mutates + 1 PROVE Arrives(<<"mutate", n>>)'
    BY <2>2, <2>3, <2>5 DEF Arrives, Signals
  <2>6. \A n \in 1..mutates' : n \in 1..mutates \/ n = mutates + 1
    BY <1>0, <2>1
  <2> QED BY <2>1, <2>4, <2>5, <2>6 DEF ReachInv, KeepsClosures, ClosurePart
<1>5. CASE RequestTyped \/ StartFrame \/ EndFrame \/ RunSchedules \/ EndRun \/ UNCHANGED vars
  BY <1>1, <1>5 DEF RequestTyped, StartFrame, EndFrame, RunSchedules, EndRun, vars, worldVars, editVars,
     signalVars
<1>6. CASE ReadResource \/ ReadQuery
  BY <1>1, <1>6 DEF ReadResource, ReadQuery, worldVars, editVars, signalVars
<1>7. CASE SpawnOrDespawn
  <2>1. PICK p \in scenario.places :
          /\ p \notin DOMAIN world
          /\ world' = [q \in DOMAIN world \cup {p} |-> IF q = p THEN {} ELSE world[q]]
    BY <1>0, <1>7 DEF SpawnOrDespawn
  <2>2. DOMAIN world = {}
    BY <2>1 DEF Orderly, OneInv
  <2>3. ~(mutates > 0) /\ mutates' = mutates
    BY <1>0, <1>7, <2>2 DEF OneInv, SpawnOrDespawn, editVars
  <2>4. 1..mutates' = {}
    BY <1>0, <2>3
  <2> QED BY <2>2, <2>4 DEF ReachInv, KeepsClosures
<1>8. CASE BevyWrite
  <2>1. /\ UNCHANGED <<scenario, fresh, published, mutates, queue>>
        /\ \E p \in DOMAIN world :
              world' = [world EXCEPT ![p] = @ \cup {<<"bevy", bevyWrites + 1>>}]
    BY <1>8 DEF BevyWrite, editVars, signalVars
  <2>2. DOMAIN world' = DOMAIN world /\ \A p \in DOMAIN world : world[p] \subseteq world'[p]
    BY <2>1
  <2> QED BY <2>1, <2>2, ReachElsewhere
<1>9. CASE ApplyCommand
  <2>1. /\ UNCHANGED <<scenario, world, fresh, mutates, queue>> /\ pc = "commands"
    BY <1>9 DEF ApplyCommand, RegisterOrGetResourceDyn, RegisterOrGetQueryDyn, RequestBevyResource,
         ElevateReflectQuery, NextCommand, worldVars, editVars
  <2>2. fresh = {}
    BY <2>1 DEF ChangeInv, RunInv
  <2> QED BY <2>1, <2>2 DEF ReachInv, Arrives, KeepsClosures, ClosurePart
<1>10. ASSUME NEW defer \in BOOLEAN, DriveReflectResourceSignals(defer) \/ DriveSignal(defer)
       PROVE  ReachInv' /\ KeepsClosures
  <2>1. /\ UNCHANGED <<scenario, world, mutates>> /\ pc = "sync"
        /\ \/ "drive" \in todo /\ "read" \notin todo /\ Tick("dyn", defer)
           \/ "drive typed" \in todo /\ Tick("typed", defer)
    BY <1>0, <1>10 DEF DriveReflectResourceSignals, DriveSignal, Runs, worldVars
  <2>2. mirror # "none"
    BY <1>0, <2>1 DEF OneInv, Due
  <2>3. CASE "drive" \in todo /\ "read" \notin todo /\ Tick("dyn", defer)
    BY <2>1, <2>2, <2>3, ReachTick DEF HeldInv, Signals
  <2>4. CASE "drive typed" \in todo /\ Tick("typed", defer)
    BY <2>1, <2>2, <2>4, ReachTick DEF HeldInv, Signals
  <2> QED BY <2>1, <2>3, <2>4
<1>11. CASE WriteResource \/ WriteQuery \/ SyncResourceToMirror
  <2>1. /\ pc = "sync" /\ todo' \subseteq todo /\ {"drive", "drive typed"} \cap todo = {}
        /\ mutates' = mutates
        /\ \/ "write" \in todo /\ WriteBack("dyn", TRUE)
           \/ "write typed" \in todo /\ WriteBack("typed", FALSE)
    BY <1>11 DEF WriteResource, WriteQuery, SyncResourceToMirror, Posted, Runs, WriteBack, editVars
  <2>2. mirror # "none"
    BY <1>0, <2>1 DEF OneInv, Due
  <2>3. ASSUME NEW s \in Signals, NEW marks \in BOOLEAN, marks \/ s = "typed", WriteBack(s, marks),
               fresh \subseteq {s}
        PROVE  ReachInv' /\ KeepsClosures
    <3>1. /\ \A p \in DOMAIN world : ClosurePart(world[p]) \subseteq world'[p]
          /\ queue' = queue /\ DOMAIN world' = DOMAIN world
          /\ s \in fresh => \A p \in DOMAIN world : world'[p] = published[s][p]
      BY <2>1, <2>2, <2>3, WriteBackBrings
    <3>2. \A n \in 1..mutates : Arrives(<<"mutate", n>>)'
      <4> SUFFICES ASSUME NEW n \in 1..mutates PROVE Arrives(<<"mutate", n>>)'
        OBVIOUS
      <4> DEFINE op == <<"mutate", n>>
      <4>1. Arrives(op) /\ op[1] = "mutate"
        BY DEF ReachInv
      <4> HIDE DEF op
      <4>2. CASE op \in queue["dyn"] \cup queue["typed"]
        BY <3>1, <4>2 DEF Arrives, op
      <4>3. CASE \E r \in fresh : \A p \in DOMAIN world : op \in published[r][p]
        BY <2>3, <3>1, <4>3 DEF Arrives, op
      <4>4. CASE \A p \in DOMAIN world : op \in world[p]
        BY <3>1, <4>1, <4>4 DEF Arrives, op, ClosurePart
      <4> QED BY <4>1, <4>2, <4>3, <4>4 DEF Arrives
    <3> QED BY <2>1, <3>1, <3>2 DEF ReachInv, KeepsClosures
  <2> QED BY <1>0, <2>1, <2>3, OneIsFresh DEF Signals
<1> QED BY <1>2, <1>3, <1>4, <1>5, <1>6, <1>7, <1>8, <1>9, <1>10, <1>11 DEF Next, Dioxus, Frame

\* While no publish defers, no closure that a component sends to a reflected
\* resource is lost, and none that has arrived is undone, for any hooks and numbers
\* of closures and bevy's writes, before, during and after the elevation.  With the
\* fairness of MutationsArrive, this is why closures arrive, but for those that an
\* elevation leaves in the queue of the dynamic signal (Stranded).
THEOREM ClosuresAreKept == Spec => []ClosuresReach /\ ClosuresStay
<1>1. Init => ReachInv
  BY DEF Init, ReachInv
<1>2. OneInv /\ ReachInv => ClosuresReach
  BY DEF OneInv, ReachInv, ClosuresReach, Orderly, Plain
<1> QED BY <1>1, <1>2, ChannelInit, ChannelStep, ChangeInit, ChangeStep, OneInit, OneStep, HeldStep,
           ReachStep, PTL DEF Spec, ClosuresStay
====
