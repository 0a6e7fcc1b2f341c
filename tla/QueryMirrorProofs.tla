------------------------- MODULE QueryMirrorProofs --------------------------
(***************************************************************************)
(* Theorems about QueryMirror, for any hooks, queries, entities and bounds: *)
(* lists hold live handles and show what matches, bevy's changes and the    *)
(* closures are kept, both sides agree, counts are what the deltas say, and *)
(* nothing that is out of use stays tracked.                                *)
(***************************************************************************)
EXTENDS QueryMirror, FiniteSetTheorems, TLAPS

----------------------------------------------------------------------------
(* Lists                                                                   *)

\* The lists of active queries are up to date from the system that updates them
\* until the next run removes mirrors.
Synced == {"driveQuery", "accumulate", "bevy"}

\* A handle in a list is the one of its entity's mirror, or the query has yet to
\* see that the mirror is a new one; a query that is inactive may list mirrors
\* that are gone.
ListInv ==
    /\ \A q \in Queries : DOMAIN listed[q] \subseteq Entities
    /\ \A q \in Queries \ initialized : DOMAIN listed[q] = {}
    /\ \A q \in Queries : \A e \in DOMAIN listed[q] \cap Mirrored :
         listed[q][e] = mirror[e] \/ e \in fresh[q]
    /\ pc \in Synced =>
         \A q \in active : \A e \in DOMAIN listed[q] : listed[q][e] = mirror[e]
    /\ active \subseteq Queries

\* The steps that change neither lists nor mirrors.
LEMMA ListElsewhere ==
    ASSUME ListInv, UNCHANGED <<listed, fresh, mirror, initialized, active>>,
           pc' \in Synced => pc \in Synced
    PROVE  ListInv'
BY DEF ListInv, Mirrored

\* Every step keeps the listed mirrors alive.
LEMMA ListStep == ListInv /\ [Next]_vars => ListInv'
<1> SUFFICES ASSUME ListInv, [Next]_vars PROVE ListInv'
  OBVIOUS
<1> USE DEF Synced
<1>1. ASSUME NEW h \in Hooks, Hook(h) PROVE ListInv'
  BY <1>1, ListElsewhere DEF Hook, Mount, Count, Ask, Unmount, Mutate, queryVars, mirrorVars
<1>2. ASSUME NEW e \in Entities, BevyWrite(e) PROVE ListInv'
  BY <1>2, ListElsewhere DEF BevyWrite, queryVars, mirrorVars
<1>3. ASSUME NEW q \in Queries, NEW e \in Entities, Toggle(q, e) PROVE ListInv'
  BY <1>3, ListElsewhere DEF Toggle, queryVars, mirrorVars
<1>4. CASE StartFrame \/ RunSchedules \/ EndFrame \/ SyncMirrorToComponent
  BY <1>4, ListElsewhere
     DEF StartFrame, RunSchedules, EndFrame, SyncMirrorToComponent, queryVars, mirrorVars
<1>5. ASSUME NEW deferring \in SUBSET Mirrored, DriveComponentSignals(deferring) PROVE ListInv'
  BY <1>5, ListElsewhere DEF DriveComponentSignals, queryVars
<1>6. CASE SyncComponentToMirror \/ DeleteUnusedMirrors
  BY <1>6, ListElsewhere DEF SyncComponentToMirror, DeleteUnusedMirrors, queryVars, mirrorVars
<1>7. CASE RemoveMirrors
  BY <1>7 DEF RemoveMirrors, ListInv, Mirrored, queryVars
<1>8. ASSUME NEW q \in Queries, ApplyTrackingQueriesDelta(q) PROVE ListInv'
  BY <1>8 DEF ApplyTrackingQueriesDelta, ListInv, Mirrored
<1>9. CASE SyncQueryMirrorsToSignals
  <2> DEFINE complete == {q \in active \ initialized : Missing(q) = {}}
             spawned  == UNION {Missing(q) : q \in active}
  <2>1. /\ initialized' = initialized \cup complete /\ active' = active /\ pc' = "driveQuery"
        /\ listed' = [q \in Queries |->
              CASE q \in complete -> [e \in Present(q) |-> mirror[e]]
                [] q \in active \cap initialized -> Relisted(q)
                [] OTHER -> listed[q]]
        /\ mirror' = [e \in Entities |-> IF e \in spawned THEN made + 1 ELSE mirror[e]]
        /\ fresh' = [q \in Queries |-> IF q \in active THEN spawned ELSE fresh[q] \cup spawned]
    BY <1>9 DEF SyncQueryMirrorsToSignals, queryVars
  <2>2. spawned \cap Mirrored = {}
    BY DEF Missing
  <2>3. \A e \in Mirrored : mirror'[e] = mirror[e]
    BY <2>1, <2>2 DEF Mirrored
  <2>4. ASSUME NEW q \in active
        PROVE  /\ DOMAIN listed'[q] \subseteq Mirrored
               /\ \A e \in DOMAIN listed'[q] : listed'[q][e] = mirror[e]
               /\ q \notin initialized' => DOMAIN listed'[q] = {}
    <3>1. q \in Queries
      BY DEF ListInv
    <3>2. CASE q \in complete
      <4>1. listed'[q] = [e \in Present(q) |-> mirror[e]]
        BY <2>1, <3>1, <3>2
      <4> QED BY <2>1, <3>2, <4>1 DEF Present
    <3>3. CASE q \in initialized
      <4>1. listed'[q] = Relisted(q)
        BY <2>1, <3>1, <3>3
      <4> DEFINE kept    == DOMAIN listed[q] \cap Present(q)
                 listing == Present(q) \cap ChangedMirrors(q)
                 found   == Unseen(q, kept \cup listing)
      <4>2. listed'[q] = [e \in kept \cup listing \cup found |->
                            IF e \in listing \cup found THEN mirror[e] ELSE listed[q][e]]
        BY <4>1 DEF Relisted
      <4>3. kept \cup listing \cup found \subseteq Present(q)
        BY DEF Unseen
      <4>4. \A e \in kept \ listing : listed[q][e] = mirror[e]
        BY <3>1 DEF ListInv, ChangedMirrors, Present
      <4> HIDE DEF kept, listing, found
      <4> QED BY <2>1, <3>3, <4>2, <4>3, <4>4 DEF Present
    <3>4. CASE q \notin complete /\ q \notin initialized
      BY <2>1, <3>1, <3>4 DEF ListInv
    <3> QED BY <3>2, <3>3, <3>4
  <2>5. ASSUME NEW q \in Queries \ active
        PROVE  listed'[q] = listed[q] /\ fresh'[q] = fresh[q] \cup spawned
    BY <2>1
  <2>6. \A q \in active : \A e \in DOMAIN listed'[q] : listed'[q][e] = mirror'[e]
    BY <2>3, <2>4
  <2>7. \A q \in Queries : \A e \in DOMAIN listed'[q] \cap Mirrored' :
          listed'[q][e] = mirror'[e] \/ e \in fresh'[q]
    <3> SUFFICES ASSUME NEW q \in Queries \ active, NEW e \in DOMAIN listed[q], e \in Mirrored',
                        e \notin spawned
                 PROVE  listed[q][e] = mirror[e] \/ e \in fresh[q]
      BY <2>1, <2>5, <2>6 DEF Mirrored
    <3>1. e \in Mirrored
      BY <2>1 DEF Mirrored
    <3> QED BY <3>1 DEF ListInv
  <2>8. \A q \in Queries : /\ DOMAIN listed'[q] \subseteq Entities
                           /\ q \notin initialized' => DOMAIN listed'[q] = {}
    <3>1. \A q \in active : DOMAIN listed'[q] \subseteq Entities
      BY <2>4 DEF Mirrored
    <3>2. \A q \in Queries \ active : /\ DOMAIN listed'[q] \subseteq Entities
                                      /\ q \notin initialized' => DOMAIN listed'[q] = {}
      BY <2>1, <2>5 DEF ListInv
    <3> QED BY <2>4, <3>1, <3>2
  <2> QED BY <2>1, <2>6, <2>7, <2>8 DEF ListInv
<1>10. ASSUME NEW deferring \in SUBSET Queries, DriveQuerySignals(deferring) PROVE ListInv'
  BY <1>10, ListElsewhere DEF DriveQuerySignals, mirrorVars
<1>11. CASE UNCHANGED vars
  BY <1>11, ListElsewhere DEF vars, queryVars, mirrorVars
<1> QED
  BY <1>1, <1>2, <1>3, <1>4, <1>5, <1>6, <1>7, <1>8, <1>9, <1>10, <1>11 DEF Next, Frame

\* Between frames, the list of an active query holds no handle of a mirror that
\* was removed, or replaced by another one while the query was not looking.
THEOREM ListsAreLive == Spec => []ListedAreLive
<1>1. Init => ListInv
  BY DEF Init, ListInv, Mirrored
<1>2. ListInv => ListedAreLive
  BY DEF ListInv, ListedAreLive, Synced
<1> QED BY <1>1, <1>2, ListStep, PTL DEF Spec

----------------------------------------------------------------------------
(* Bevy's changes                                                          *)

BevyPart(v) == v \cap ({"bevy"} \X Nat)

\* What the run that is under way has yet to do to e's mirror.
Unread(e) == e \in changed \/ (pc = "drive" /\ e \in replace)

\* A mirror has no change of bevy's that its component lacks, and has accepted
\* all that it was sent.  One that was published in this run, or never since it
\* was made, has published them; any other one is not written back.
MirrorInv(e) ==
    /\ BevyPart(accepted[e]) \subseteq comp[e] /\ BevyPart(published[e]) \subseteq comp[e]
    /\ Unread(e) \/ BevyPart(comp[e]) \subseteq accepted[e]
    /\ version[e] = 0 => published[e] = accepted[e]
    /\ IF pc = "toComponent"
       THEN version[e] # lastVersion[e] => BevyPart(comp[e]) \subseteq published[e]
       ELSE version[e] \in {0, lastVersion[e]}

ChangeInv ==
    /\ comp \in [Entities -> Value] /\ queue \in [Entities -> Value] /\ bevyWrites \in Nat
    /\ mutates \in Nat
    /\ accepted \in [Entities -> Value] /\ published \in [Entities -> Value] /\ made \in Nat
    /\ \A e \in Entities : BevyPart(queue[e]) = {}
    /\ pc \notin {"bevy", "accumulate", "toMirror"} => changed = {}
    /\ \A e \in Mirrored : MirrorInv(e)
    /\ \A e \in Entities \ Mirrored : version[e] = 0
    /\ BevyChangesKept

\* The steps that concern other things than values.
LEMMA ChangeElsewhere ==
    ASSUME ChangeInv, UNCHANGED <<mirrorVars, comp, bevyWrites, mutates, queue, replace, changed, lastVersion>>,
           pc' \in {"bevy", "accumulate", "toMirror"} \/ pc \notin {"bevy", "accumulate", "toMirror"},
           "toComponent" \notin {pc, pc'} \/ pc' = pc, "drive" \notin {pc, pc'} \/ pc' = pc
    PROVE  ChangeInv'
BY DEF ChangeInv, MirrorInv, Unread, Mirrored, BevyChangesKept, BevyPart, mirrorVars

\* Every step keeps the mirror's values at bevy's changes.
LEMMA ChangeStep == ChangeInv /\ [Next]_vars => ChangeInv'
<1> SUFFICES ASSUME ChangeInv, [Next]_vars PROVE ChangeInv'
  OBVIOUS
<1>1. ASSUME NEW h \in Hooks, Mount(h) \/ Count(h) \/ Ask(h) \/ Unmount(h) PROVE ChangeInv'
  BY <1>1, ChangeElsewhere DEF Mount, Count, Ask, Unmount, bevyVars
<1>2. ASSUME NEW h \in Hooks, NEW e \in Entities, Mutate(h, e) PROVE ChangeInv'
  <2>1. queue' \in [Entities -> Value] /\ \A f \in Entities : BevyPart(queue'[f]) = {}
    <3>1. BevyPart({<<"mutate", mutates + 1>>}) = {}
      BY DEF BevyPart
    <3>2. <<"mutate", mutates + 1>> \in Write
      BY DEF ChangeInv, Write
    <3>3. CASE queue' = [queue EXCEPT ![e] = @ \cup {<<"mutate", mutates + 1>>}]
      BY <3>1, <3>2, <3>3 DEF ChangeInv, BevyPart, Value
    <3>4. CASE queue' = queue
      BY <3>4 DEF ChangeInv
    <3> QED BY <1>2, <3>3, <3>4 DEF Mutate
  <2> QED
    BY <1>2, <2>1 DEF Mutate, ChangeInv, MirrorInv, Unread, Mirrored, BevyChangesKept, BevyPart,
                      bevyVars, mirrorVars
<1>3. ASSUME NEW e \in Entities, BevyWrite(e) PROVE ChangeInv'
  <2> DEFINE w == <<"bevy", bevyWrites + 1>>
  <2>1. /\ comp' = [comp EXCEPT ![e] = @ \cup {w}] /\ bevyWrites' = bevyWrites + 1
        /\ changed' = changed \cup {e} /\ pc = "bevy"
        /\ UNCHANGED <<mirrorVars, mutates, pc, queue, replace, lastVersion>>
    BY <1>3 DEF BevyWrite, hookVars
  <2>2. w \in Write /\ comp' \in [Entities -> Value] /\ bevyWrites' \in Nat
    BY <2>1 DEF ChangeInv, Value, Write
  <2>3. BevyChangesKept'
    <3> SUFFICES ASSUME NEW n \in 1..(bevyWrites + 1)
                 PROVE  \E f \in Entities : <<"bevy", n>> \in comp'[f]
      BY <2>1 DEF BevyChangesKept
    <3>1. CASE n = bevyWrites + 1
      BY <2>1, <2>2, <3>1 DEF ChangeInv
    <3>2. CASE n \in 1..bevyWrites
      BY <2>1, <3>2 DEF ChangeInv, BevyChangesKept
    <3> QED BY <3>1, <3>2 DEF ChangeInv
  <2>4. \A f \in Entities : comp[f] \subseteq comp'[f] /\ (f # e => comp'[f] = comp[f])
    BY <2>1 DEF ChangeInv
  <2> QED
    BY <2>1, <2>2, <2>3, <2>4 DEF ChangeInv, MirrorInv, Unread, Mirrored, BevyPart, mirrorVars
<1>4. ASSUME NEW q \in Queries, NEW e \in Entities, Toggle(q, e) PROVE ChangeInv'
  BY <1>4, ChangeElsewhere DEF Toggle, hookVars
<1>5. CASE StartFrame \/ RunSchedules \/ EndFrame
  BY <1>5, ChangeElsewhere DEF StartFrame, RunSchedules, EndFrame, bevyVars, hookVars
<1>6. CASE SyncMirrorToComponent
  BY <1>6 DEF SyncMirrorToComponent, ChangeInv, MirrorInv, Unread, Mirrored, BevyChangesKept,
              BevyPart, mirrorVars, hookVars
<1>7. ASSUME NEW deferring \in SUBSET Mirrored, DriveComponentSignals(deferring) PROVE ChangeInv'
  <2> DEFINE publishing == {e \in Mirrored \ deferring : e \in replace \/ Drained(e) # published[e]}
  <2>1. /\ pc = "drive" /\ pc' = "toComponent" /\ changed = {}
        /\ \A e \in deferring : version[e] # 0
        /\ accepted' = [e \in Entities |-> IF e \in Mirrored THEN Drained(e) ELSE accepted[e]]
        /\ published' = [e \in Entities |-> IF e \in publishing THEN Drained(e) ELSE published[e]]
        /\ version' = [e \in Entities |-> IF e \in publishing THEN version[e] + 1 ELSE version[e]]
        /\ queue' = [e \in Entities |-> {}]
        /\ UNCHANGED <<bevyVars, mirror, made, mutates, lastVersion>>
    BY <1>7 DEF DriveComponentSignals, ChangeInv, hookVars
  <2>2. ASSUME NEW e \in Mirrored PROVE MirrorInv(e)'
    <3>1. e \in Entities /\ MirrorInv(e)
      BY DEF Mirrored, ChangeInv
    <3>2. BevyPart(Drained(e)) \subseteq comp[e] /\ BevyPart(comp[e]) \subseteq Drained(e)
      BY <2>1, <3>1 DEF Drained, ChangeInv, MirrorInv, Unread, BevyPart
    <3>3. CASE e \in publishing
      BY <2>1, <3>1, <3>2, <3>3 DEF MirrorInv, Unread, BevyPart, bevyVars
    <3>4. CASE e \notin publishing /\ version[e] = 0
      <4>1. Drained(e) = published[e]
        BY <2>1, <3>4
      <4> QED BY <2>1, <3>1, <3>2, <3>4, <4>1 DEF MirrorInv, Unread, BevyPart, bevyVars
    <3>5. CASE e \notin publishing /\ version[e] # 0
      BY <2>1, <3>1, <3>2, <3>5 DEF MirrorInv, Unread, BevyPart, bevyVars
    <3> QED BY <3>3, <3>4, <3>5
  <2>3. Mirrored' = Mirrored
    BY <2>1 DEF Mirrored
  <2>4. \A e \in Entities \ Mirrored : version'[e] = 0
    BY <2>1 DEF ChangeInv
  <2>5. queue' \in [Entities -> Value] /\ \A e \in Entities : BevyPart(queue'[e]) = {}
    BY <2>1 DEF Value, BevyPart
  <2>6. accepted' \in [Entities -> Value] /\ published' \in [Entities -> Value]
    <3>1. \A e \in Entities : Drained(e) \in Value
      BY DEF Drained, ChangeInv, Value
    <3> QED BY <2>1, <3>1 DEF ChangeInv
  <2> QED BY <2>1, <2>2, <2>3, <2>4, <2>5, <2>6 DEF ChangeInv, BevyChangesKept, bevyVars
<1>8. CASE SyncComponentToMirror
  <2> DEFINE synced == {e \in Mirrored : NewVersion(e)}
  <2>1. /\ pc = "toComponent" /\ pc' = "delete" /\ changed = {} /\ changed' = {}
        /\ comp' = [e \in Entities |-> IF e \in synced THEN published[e] ELSE comp[e]]
        /\ lastVersion' = [e \in Entities |-> IF e \in synced THEN version[e] ELSE lastVersion[e]]
        /\ UNCHANGED <<bevyWrites, mutates, mirrorVars, queue, replace>>
    BY <1>8 DEF SyncComponentToMirror, ChangeInv, hookVars
  <2>2. ASSUME NEW e \in Entities PROVE BevyPart(comp'[e]) = BevyPart(comp[e])
    BY <2>1 DEF ChangeInv, MirrorInv, NewVersion, BevyPart
  <2>3. comp' \in [Entities -> Value]
    BY <2>1 DEF ChangeInv
  <2>4. BevyChangesKept'
    BY <2>1, <2>2 DEF ChangeInv, BevyChangesKept, BevyPart
  <2>5. \A e \in Mirrored : MirrorInv(e)'
    BY <2>1, <2>2 DEF ChangeInv, MirrorInv, Unread, NewVersion, Mirrored, BevyPart, mirrorVars
  <2> QED BY <2>1, <2>3, <2>4, <2>5 DEF ChangeInv, Mirrored, mirrorVars
<1>9. ASSUME NEW q \in Queries, ApplyTrackingQueriesDelta(q) PROVE ChangeInv'
  BY <1>9 DEF ApplyTrackingQueriesDelta, ChangeInv, MirrorInv, Unread, Mirrored, BevyChangesKept,
              BevyPart, bevyVars, hookVars
<1>10. CASE DeleteUnusedMirrors
  BY <1>10, ChangeElsewhere DEF DeleteUnusedMirrors, bevyVars, hookVars
<1>11. CASE RemoveMirrors
  <2>1. /\ pc = "applied" /\ pc' = "sync"
        /\ mirror' = [e \in Entities |-> IF e \in doomed THEN 0 ELSE mirror[e]]
        /\ accepted' = [e \in Entities |-> IF e \in doomed THEN {} ELSE accepted[e]]
        /\ published' = [e \in Entities |-> IF e \in doomed THEN {} ELSE published[e]]
        /\ version' = [e \in Entities |-> IF e \in doomed THEN 0 ELSE version[e]]
        /\ queue' = [e \in Entities |-> IF e \in doomed THEN {} ELSE queue[e]]
        /\ UNCHANGED <<bevyVars, made, mutates, replace, lastVersion>>
    BY <1>11 DEF RemoveMirrors, hookVars
  <2>2. Mirrored' = Mirrored \ doomed
    BY <2>1 DEF Mirrored
  <2>3. \A e \in Mirrored' : MirrorInv(e)'
    BY <2>1, <2>2 DEF ChangeInv, MirrorInv, Unread, Mirrored, BevyPart, bevyVars
  <2>4. queue' \in [Entities -> Value] /\ \A e \in Entities : BevyPart(queue'[e]) = {}
    BY <2>1 DEF ChangeInv, Value, BevyPart
  <2> QED BY <2>1, <2>2, <2>3, <2>4 DEF ChangeInv, BevyChangesKept, bevyVars
<1>12. CASE SyncQueryMirrorsToSignals
  <2> DEFINE spawned == UNION {Missing(q) : q \in active}
  <2>1. /\ pc = "sync" /\ pc' = "driveQuery"
        /\ mirror' = [e \in Entities |-> IF e \in spawned THEN made + 1 ELSE mirror[e]]
        /\ accepted' = [e \in Entities |-> IF e \in spawned THEN comp[e] ELSE accepted[e]]
        /\ published' = [e \in Entities |-> IF e \in spawned THEN comp[e] ELSE published[e]]
        /\ made' \in Nat /\ made \in Nat
        /\ UNCHANGED <<bevyVars, mutates, version, queue, replace, lastVersion>>
    BY <1>12 DEF SyncQueryMirrorsToSignals, ChangeInv, hookVars
  <2>2. ASSUME NEW e \in Mirrored' PROVE MirrorInv(e)'
    <3>1. CASE e \in spawned
      <4>1. e \in Entities \ Mirrored
        BY <3>1 DEF Missing, Mirrored
      <4>2. version[e] = 0
        BY <4>1 DEF ChangeInv
      <4> QED BY <2>1, <3>1, <4>1, <4>2 DEF MirrorInv, Unread, BevyPart, bevyVars
    <3>2. CASE e \notin spawned
      <4>1. e \in Mirrored
        BY <2>1, <3>2 DEF Mirrored
      <4> QED BY <2>1, <3>2, <4>1 DEF ChangeInv, MirrorInv, Unread, Mirrored, BevyPart, bevyVars
    <3> QED BY <3>1, <3>2
  <2>3. \A e \in Entities \ Mirrored' : version'[e] = 0
    BY <2>1 DEF ChangeInv, Mirrored
  <2> QED BY <2>1, <2>2, <2>3 DEF ChangeInv, BevyChangesKept, bevyVars
<1>13. ASSUME NEW deferring \in SUBSET Queries, DriveQuerySignals(deferring) PROVE ChangeInv'
  <2>1. changed = {} /\ changed' = {} /\ pc = "driveQuery" /\ pc' = "accumulate"
    BY <1>13 DEF DriveQuerySignals, ChangeInv, bevyVars
  <2> QED
    BY <1>13, <2>1, ChangeElsewhere DEF DriveQuerySignals, bevyVars, hookVars
<1>14. CASE UNCHANGED vars
  BY <1>14, ChangeElsewhere DEF vars, bevyVars, hookVars
<1> QED
  BY <1>1, <1>2, <1>3, <1>4, <1>5, <1>6, <1>7, <1>8, <1>9, <1>10, <1>11, <1>12, <1>13, <1>14
     DEF Next, Frame, Hook

\* No change by a bevy system is undone by an older value of a mirror, through
\* deferred publishes, and mirrors that are removed and made again.
THEOREM ChangesAreKept == Spec => []BevyChangesKept
<1>1. Init => ChangeInv
  BY DEF Init, ChangeInv, MirrorInv, Mirrored, BevyChangesKept, BevyPart, Value
<1>2. ChangeInv => BevyChangesKept
  BY DEF ChangeInv
<1> QED BY <1>1, <1>2, ChangeStep, PTL DEF Spec

----------------------------------------------------------------------------
(* Agreement                                                               *)

\* The numbers of mirrors, in lists too, are those of mirrors that were made.
HandedInv ==
    /\ \A e \in Entities : mirror[e] \in 0..made
    /\ \A q \in Queries : \A e \in DOMAIN listed[q] : e \in Entities /\ listed[q][e] \in 1..made
    /\ \A q \in Queries : \A e \in DOMAIN shown[q] : e \in Entities /\ shown[q][e] \in 1..made

\* The versions of a mirror that is made again start over, while last_versions
\* keeps that of its predecessor: until the next run has compared the two, nobody
\* has the new handle, so that no closure can be published under the old number.
Unknown(e) ==
    \A q \in Queries : /\ e \in DOMAIN listed[q] => listed[q][e] # mirror[e]
                       /\ e \in DOMAIN shown[q] => shown[q][e] # mirror[e]

NewInv ==
    /\ version \in [Entities -> Nat]
    /\ \A e \in Entities \ Mirrored : queue[e] = {}
    /\ \A e \in Mirrored : NewVersion(e) =>
         \/ pc = "toComponent"
         \/ pc \notin {"delete", "applied", "sync"} /\ Unknown(e) /\ queue[e] = {}

\* A closure that is queued has not been accepted before.
OnceInv ==
    \A e \in Entities :
      /\ \A n \in Nat : <<"mutate", n>> \in queue[e] \cup accepted[e] \cup published[e] \cup comp[e]
                          => n <= mutates
      /\ queue[e] \cap (accepted[e] \cup published[e] \cup comp[e]) = {}

\* Bevy has a change that e's mirror has yet to read, or the mirror has
\* published a value that it has yet to write back.
Informed(e) ==
    CASE pc = "drive" -> e \in replace
      [] pc = "toComponent" -> NewVersion(e)
      [] OTHER -> e \in changed

AgreeInv ==
    \A e \in Mirrored : accepted[e] = published[e] /\ ~Informed(e) => comp[e] = published[e]

\* Every step lists only mirrors that were made.
LEMMA HandedStep == HandedInv /\ ChangeInv /\ [Next]_vars => HandedInv'
<1> SUFFICES ASSUME HandedInv, ChangeInv, [Next]_vars PROVE HandedInv'
  OBVIOUS
<1>0. made \in Nat
  BY DEF ChangeInv
<1>1. CASE UNCHANGED <<mirror, made, listed, shown>>
  BY <1>1 DEF HandedInv
<1>2. CASE RemoveMirrors
  BY <1>0, <1>2 DEF RemoveMirrors, HandedInv, queryVars
<1>3. CASE SyncQueryMirrorsToSignals
  <2> DEFINE complete == {q \in active \ initialized : Missing(q) = {}}
             spawned == UNION {Missing(q) : q \in active}
  <2>1. /\ made' \in {made, made + 1} /\ shown' = shown
        /\ made' = IF spawned = {} THEN made ELSE made + 1
        /\ mirror' = [e \in Entities |-> IF e \in spawned THEN made + 1 ELSE mirror[e]]
        /\ listed' = [q \in Queries |->
              CASE q \in complete -> [e \in Present(q) |-> mirror[e]]
                [] q \in active \cap initialized -> Relisted(q)
                [] OTHER -> listed[q]]
    BY <1>3 DEF SyncQueryMirrorsToSignals
  <2>2. \A e \in Entities : mirror'[e] \in 0..made'
    BY <1>0, <2>1 DEF HandedInv
  <2>3. ASSUME NEW q \in Queries, NEW e \in DOMAIN listed'[q]
        PROVE  e \in Entities /\ listed'[q][e] \in 1..made
    <3>1. \A f \in Present(q) : f \in Entities /\ mirror[f] \in 1..made
      BY <1>0 DEF Present, Mirrored, HandedInv
    <3>2. CASE listed'[q] = [f \in Present(q) |-> mirror[f]]
      BY <2>3, <3>1, <3>2
    <3>3. CASE listed'[q] = Relisted(q)
      BY <2>3, <3>1, <3>3 DEF Relisted, Unseen, HandedInv
    <3>4. CASE listed'[q] = listed[q]
      BY <2>3, <3>4 DEF HandedInv
    <3> QED BY <2>1, <3>2, <3>3, <3>4
  <2>4. 1..made \subseteq 1..made'
    BY <1>0, <2>1
  <2> QED BY <2>1, <2>2, <2>3, <2>4 DEF HandedInv
<1>4. ASSUME NEW deferring \in SUBSET Queries, DriveQuerySignals(deferring) PROVE HandedInv'
  BY <1>4 DEF DriveQuerySignals, HandedInv, mirrorVars
<1> QED
  BY <1>1, <1>2, <1>3, <1>4
     DEF Next, Frame, Hook, Mount, Count, Ask, Unmount, Mutate, BevyWrite, Toggle, StartFrame,
         RunSchedules, EndFrame, SyncMirrorToComponent, DriveComponentSignals,
         SyncComponentToMirror, ApplyTrackingQueriesDelta, DeleteUnusedMirrors,
         vars, queryVars, mirrorVars

\* The steps that concern neither handles, nor queues, nor versions.
LEMMA NewElsewhere ==
    ASSUME NewInv, UNCHANGED <<mirror, listed, shown, queue, version, lastVersion>>,
           pc' = "toComponent" \/ pc # "toComponent",
           pc' \in {"delete", "applied", "sync"} => pc \in {"delete", "applied", "sync"}
    PROVE  NewInv'
BY DEF NewInv, Unknown, Mirrored, NewVersion

\* Every step keeps new handles unknown until their versions were compared.
LEMMA NewStep == HandedInv /\ ChangeInv /\ NewInv /\ [Next]_vars => NewInv'
<1> SUFFICES ASSUME HandedInv, ChangeInv, NewInv, [Next]_vars PROVE NewInv'
  OBVIOUS
<1>1. ASSUME NEW h \in Hooks, Mount(h) \/ Count(h) \/ Ask(h) \/ Unmount(h) PROVE NewInv'
  BY <1>1, NewElsewhere DEF Mount, Count, Ask, Unmount, queryVars, mirrorVars
<1>2. ASSUME NEW h \in Hooks, NEW e \in Entities, Mutate(h, e), QueryOf[h] \in Queries PROVE NewInv'
  <2>1. /\ pc = "bevy" /\ pc' = pc
        /\ UNCHANGED <<mirror, listed, shown, version, lastVersion>>
        /\ e \in DOMAIN shown[QueryOf[h]]
        /\ shown[QueryOf[h]][e] # mirror[e] => queue' = queue
        /\ \A f \in Entities \ {e} : queue'[f] = queue[f]
    BY <1>2 DEF Mutate, queryVars, mirrorVars, ChangeInv
  <2>2. CASE shown[QueryOf[h]][e] # mirror[e]
    BY <2>1, <2>2, NewElsewhere
  <2>3. CASE shown[QueryOf[h]][e] = mirror[e]
    <3>1. e \in Mirrored /\ ~Unknown(e)
      BY <1>2, <2>1, <2>3 DEF HandedInv, ChangeInv, Mirrored, Unknown
    <3> QED BY <2>1, <3>1 DEF NewInv, Unknown, Mirrored, NewVersion
  <2> QED BY <2>2, <2>3
<1>3. ASSUME NEW e \in Entities, BevyWrite(e) PROVE NewInv'
  BY <1>3, NewElsewhere DEF BevyWrite, queryVars, mirrorVars
<1>4. ASSUME NEW q \in Queries, NEW e \in Entities, Toggle(q, e) PROVE NewInv'
  BY <1>4, NewElsewhere DEF Toggle, queryVars, mirrorVars
<1>5. CASE StartFrame \/ RunSchedules \/ EndFrame \/ SyncMirrorToComponent \/ DeleteUnusedMirrors
  <2>1. CASE DeleteUnusedMirrors
    BY <2>1, NewElsewhere DEF DeleteUnusedMirrors, queryVars, mirrorVars
  <2> QED
    BY <1>5, <2>1, NewElsewhere
       DEF StartFrame, RunSchedules, EndFrame, SyncMirrorToComponent, queryVars, mirrorVars
<1>6. ASSUME NEW deferring \in SUBSET Mirrored, DriveComponentSignals(deferring) PROVE NewInv'
  BY <1>6 DEF DriveComponentSignals, NewInv, Mirrored
<1>7. CASE SyncComponentToMirror
  BY <1>7 DEF SyncComponentToMirror, NewInv, Mirrored, NewVersion, mirrorVars
<1>8. ASSUME NEW q \in Queries, ApplyTrackingQueriesDelta(q) PROVE NewInv'
  BY <1>8, NewElsewhere DEF ApplyTrackingQueriesDelta
<1>9. CASE RemoveMirrors
  BY <1>9 DEF RemoveMirrors, NewInv, Mirrored, NewVersion
<1>10. CASE SyncQueryMirrorsToSignals
  <2> DEFINE spawned == UNION {Missing(q) : q \in active}
  <2>1. /\ pc = "sync" /\ pc' = "driveQuery" /\ shown' = shown
        /\ made' = IF spawned = {} THEN made ELSE made + 1
        /\ mirror' = [e \in Entities |-> IF e \in spawned THEN made + 1 ELSE mirror[e]]
        /\ UNCHANGED <<version, queue, lastVersion>>
    BY <1>10 DEF SyncQueryMirrorsToSignals
  <2>2. spawned \cap Mirrored = {} /\ made \in Nat
    BY DEF Missing, ChangeInv
  <2>3. \A q \in Queries : \A e \in DOMAIN listed'[q] : listed'[q][e] <= made
    <3> SUFFICES ASSUME NEW q \in Queries, NEW e \in DOMAIN listed'[q] PROVE listed'[q][e] <= made
      OBVIOUS
    <3>1. \A f \in Present(q) : mirror[f] <= made
      BY <2>2 DEF Present, Mirrored, HandedInv
    <3>2. \A f \in DOMAIN listed[q] : listed[q][f] <= made
      BY <2>2 DEF HandedInv
    <3>3. CASE listed'[q] = [f \in Present(q) |-> mirror[f]]
      BY <3>1, <3>3
    <3>4. CASE listed'[q] = Relisted(q)
      BY <3>1, <3>2, <3>4 DEF Relisted, Unseen
    <3>5. CASE listed'[q] = listed[q]
      BY <3>2, <3>5
    <3> QED BY <1>10, <3>3, <3>4, <3>5 DEF SyncQueryMirrorsToSignals
  <2>4. ASSUME NEW e \in Mirrored', NewVersion(e)' PROVE Unknown(e)' /\ queue'[e] = {}
    <3>1. e \in spawned /\ e \in Entities \ Mirrored
      BY <2>1, <2>2, <2>4 DEF NewInv, NewVersion, Mirrored
    <3>2. mirror'[e] = made + 1
      BY <2>1, <3>1
    <3>3. \A q \in Queries : e \in DOMAIN shown'[q] => shown'[q][e] <= made
      BY <2>1, <2>2 DEF HandedInv
    <3> QED BY <2>1, <2>2, <2>3, <3>1, <3>2, <3>3 DEF Unknown, NewInv
  <2> QED BY <2>1, <2>2, <2>4 DEF NewInv, Mirrored
<1>11. ASSUME NEW deferring \in SUBSET Queries, DriveQuerySignals(deferring) PROVE NewInv'
  BY <1>11 DEF DriveQuerySignals, NewInv, Unknown, Mirrored, NewVersion, mirrorVars
<1>12. CASE UNCHANGED vars
  BY <1>12, NewElsewhere DEF vars, queryVars, mirrorVars
<1> QED
  BY <1>1, <1>2, <1>3, <1>4, <1>5, <1>6, <1>7, <1>8, <1>9, <1>10, <1>11, <1>12, QueryAssumption
     DEF Next, Frame, Hook

\* The steps that concern no value.
LEMMA OnceElsewhere ==
    ASSUME OnceInv, UNCHANGED <<queue, accepted, published, comp, mutates>>
    PROVE  OnceInv'
BY DEF OnceInv

\* Every step leaves the queued closures new to their mirrors.
LEMMA OnceStep == ChangeInv /\ OnceInv /\ [Next]_vars => OnceInv'
<1> SUFFICES ASSUME ChangeInv, OnceInv, [Next]_vars PROVE OnceInv'
  OBVIOUS
<1>1. ASSUME NEW h \in Hooks, Mount(h) \/ Count(h) \/ Ask(h) \/ Unmount(h) PROVE OnceInv'
  BY <1>1, OnceElsewhere DEF Mount, Count, Ask, Unmount, bevyVars, mirrorVars
<1>2. ASSUME NEW h \in Hooks, NEW e \in Entities, Mutate(h, e) PROVE OnceInv'
  <2>1. /\ mutates' = mutates + 1 /\ mutates \in Nat
        /\ UNCHANGED <<accepted, published, comp>>
        /\ \A f \in Entities : queue'[f] \subseteq queue[f] \cup {<<"mutate", mutates + 1>>}
    BY <1>2 DEF Mutate, bevyVars, mirrorVars, ChangeInv
  <2> QED BY <2>1 DEF OnceInv
<1>3. ASSUME NEW e \in Entities, BevyWrite(e) PROVE OnceInv'
  <2>1. /\ UNCHANGED <<queue, accepted, published, mutates>> /\ bevyWrites \in Nat
        /\ \A f \in Entities : comp'[f] \subseteq comp[f] \cup {<<"bevy", bevyWrites + 1>>}
    BY <1>3 DEF BevyWrite, ChangeInv, mirrorVars, hookVars
  <2>2. \A f \in Entities : <<"bevy", bevyWrites + 1>> \notin queue[f]
    BY <2>1 DEF ChangeInv, BevyPart
  <2> QED BY <2>1, <2>2 DEF OnceInv
<1>4. ASSUME NEW q \in Queries, NEW e \in Entities, Toggle(q, e) PROVE OnceInv'
  BY <1>4, OnceElsewhere DEF Toggle, hookVars, mirrorVars
<1>5. CASE StartFrame \/ RunSchedules \/ EndFrame \/ SyncMirrorToComponent \/ DeleteUnusedMirrors
  BY <1>5, OnceElsewhere
     DEF StartFrame, RunSchedules, EndFrame, SyncMirrorToComponent, DeleteUnusedMirrors, bevyVars,
         hookVars, mirrorVars
<1>6. ASSUME NEW deferring \in SUBSET Mirrored, DriveComponentSignals(deferring) PROVE OnceInv'
  <2>1. /\ UNCHANGED <<comp, mutates>>
        /\ \A e \in Entities :
             /\ queue'[e] = {}
             /\ accepted'[e] \subseteq Drained(e) \cup accepted[e]
             /\ published'[e] \subseteq Drained(e) \cup published[e]
    BY <1>6 DEF DriveComponentSignals, bevyVars, hookVars
  <2>2. \A e \in Entities : Drained(e) \subseteq comp[e] \cup accepted[e] \cup queue[e]
    BY DEF Drained
  <2> QED BY <2>1, <2>2 DEF OnceInv
<1>7. CASE SyncComponentToMirror
  <2>1. /\ UNCHANGED <<queue, accepted, published, mutates>>
        /\ \A e \in Entities : comp'[e] \in {comp[e], published[e]}
    BY <1>7 DEF SyncComponentToMirror, mirrorVars, hookVars
  <2> QED BY <2>1 DEF OnceInv
<1>8. ASSUME NEW q \in Queries, ApplyTrackingQueriesDelta(q) PROVE OnceInv'
  BY <1>8, OnceElsewhere DEF ApplyTrackingQueriesDelta, bevyVars, hookVars
<1>9. CASE RemoveMirrors
  BY <1>9 DEF RemoveMirrors, OnceInv, bevyVars, hookVars
<1>10. CASE SyncQueryMirrorsToSignals
  <2>1. /\ UNCHANGED <<queue, comp, mutates>>
        /\ \A e \in Entities : /\ accepted'[e] \in {comp[e], accepted[e]}
                               /\ published'[e] \in {comp[e], published[e]}
    BY <1>10 DEF SyncQueryMirrorsToSignals, bevyVars, hookVars
  <2> QED BY <2>1 DEF OnceInv
<1>11. ASSUME NEW deferring \in SUBSET Queries, DriveQuerySignals(deferring) PROVE OnceInv'
  BY <1>11, OnceElsewhere DEF DriveQuerySignals, bevyVars, hookVars, mirrorVars
<1>12. CASE UNCHANGED vars
  BY <1>12, OnceElsewhere DEF vars, bevyVars, hookVars, mirrorVars
<1> QED
  BY <1>1, <1>2, <1>3, <1>4, <1>5, <1>6, <1>7, <1>8, <1>9, <1>10, <1>11, <1>12
     DEF Next, Frame, Hook

\* The steps that concern neither values nor what is to be read or written back.
LEMMA AgreeElsewhere ==
    ASSUME AgreeInv, UNCHANGED <<mirror, accepted, published, comp, changed>>,
           {"drive", "toComponent"} \cap {pc, pc'} = {}
    PROVE  AgreeInv'
BY DEF AgreeInv, Informed, Mirrored

\* Every step keeps the sides in agreement, or one of them is about to be told.
LEMMA AgreeStep == ChangeInv /\ NewInv /\ OnceInv /\ AgreeInv /\ [Next]_vars => AgreeInv'
<1> SUFFICES ASSUME ChangeInv, NewInv, OnceInv, AgreeInv, [Next]_vars PROVE AgreeInv'
  OBVIOUS
<1>1. ASSUME NEW h \in Hooks, Hook(h) PROVE AgreeInv'
  BY <1>1, AgreeElsewhere DEF Hook, Mount, Count, Ask, Unmount, Mutate, bevyVars, mirrorVars
<1>2. ASSUME NEW e \in Entities, BevyWrite(e) PROVE AgreeInv'
  BY <1>2 DEF BevyWrite, AgreeInv, Informed, Mirrored, ChangeInv, mirrorVars
<1>3. ASSUME NEW q \in Queries, NEW e \in Entities, Toggle(q, e) PROVE AgreeInv'
  BY <1>3, AgreeElsewhere DEF Toggle, hookVars, mirrorVars
<1>4. CASE StartFrame \/ RunSchedules \/ EndFrame \/ DeleteUnusedMirrors
  BY <1>4, AgreeElsewhere
     DEF StartFrame, RunSchedules, EndFrame, DeleteUnusedMirrors, bevyVars, mirrorVars
<1>5. CASE SyncMirrorToComponent
  BY <1>5 DEF SyncMirrorToComponent, AgreeInv, Informed, Mirrored, mirrorVars
<1>6. ASSUME NEW deferring \in SUBSET Mirrored, DriveComponentSignals(deferring) PROVE AgreeInv'
  <2> DEFINE publishing == {e \in Mirrored \ deferring : e \in replace \/ Drained(e) # published[e]}
  <2>1. /\ pc = "drive" /\ pc' = "toComponent"
        /\ \A e \in deferring : version[e] # 0
        /\ accepted' = [e \in Entities |-> IF e \in Mirrored THEN Drained(e) ELSE accepted[e]]
        /\ published' = [e \in Entities |-> IF e \in publishing THEN Drained(e) ELSE published[e]]
        /\ version' = [e \in Entities |-> IF e \in publishing THEN version[e] + 1 ELSE version[e]]
        /\ UNCHANGED <<comp, mirror, lastVersion>>
    BY <1>6 DEF DriveComponentSignals, bevyVars
  <2> SUFFICES ASSUME NEW e \in Mirrored, accepted'[e] = published'[e], ~NewVersion(e)'
               PROVE  comp[e] = published'[e]
    BY <2>1 DEF AgreeInv, Informed, Mirrored
  <2>2. e \in Entities /\ MirrorInv(e) /\ version'[e] = lastVersion[e]
    BY <2>1 DEF ChangeInv, Mirrored, NewVersion
  <2>3. version[e] \in {0, lastVersion[e]} /\ version[e] \in Nat
    BY <2>1, <2>2 DEF MirrorInv, NewInv
  <2>4. CASE e \in publishing
    <3>1. version[e] # lastVersion[e] /\ version[e] = 0
      BY <2>1, <2>2, <2>3, <2>4
    <3>2. queue[e] = {}
      BY <2>1, <3>1 DEF NewInv, NewVersion
    <3>3. published[e] = accepted[e]
      BY <2>2, <3>1 DEF MirrorInv
    <3>4. e \in replace
      BY <2>4, <3>2, <3>3 DEF Drained
    <3> QED BY <2>1, <2>2, <2>4, <3>2, <3>4 DEF Drained
  <2>5. CASE e \notin publishing
    <3>1. published'[e] = published[e] /\ Drained(e) = published[e]
      BY <2>1, <2>2, <2>5
    <3>2. queue[e] = {}
      BY <2>2, <3>1 DEF OnceInv, Drained
    <3>3. CASE e \in replace
      BY <3>1, <3>2, <3>3 DEF Drained
    <3>4. CASE e \notin replace
      BY <2>1, <3>1, <3>2, <3>4 DEF Drained, AgreeInv, Informed
    <3> QED BY <3>3, <3>4
  <2> QED BY <2>4, <2>5
<1>7. CASE SyncComponentToMirror
  <2>1. /\ pc = "toComponent" /\ pc' = "delete"
        /\ comp' = [e \in Entities |-> IF e \in Mirrored /\ NewVersion(e) THEN published[e] ELSE comp[e]]
        /\ UNCHANGED <<mirror, accepted, published>>
    BY <1>7 DEF SyncComponentToMirror, mirrorVars
  <2> QED BY <2>1 DEF AgreeInv, Informed, Mirrored
<1>8. ASSUME NEW q \in Queries, ApplyTrackingQueriesDelta(q) PROVE AgreeInv'
  BY <1>8, AgreeElsewhere DEF ApplyTrackingQueriesDelta, bevyVars
<1>9. CASE RemoveMirrors
  BY <1>9 DEF RemoveMirrors, AgreeInv, Informed, Mirrored, bevyVars
<1>10. CASE SyncQueryMirrorsToSignals
  <2> DEFINE spawned == UNION {Missing(q) : q \in active}
  <2>1. /\ pc = "sync" /\ pc' = "driveQuery"
        /\ mirror' = [e \in Entities |-> IF e \in spawned THEN made + 1 ELSE mirror[e]]
        /\ accepted' = [e \in Entities |-> IF e \in spawned THEN comp[e] ELSE accepted[e]]
        /\ published' = [e \in Entities |-> IF e \in spawned THEN comp[e] ELSE published[e]]
        /\ UNCHANGED <<comp, changed>>
    BY <1>10 DEF SyncQueryMirrorsToSignals, bevyVars
  <2> QED BY <2>1 DEF AgreeInv, Informed, Mirrored
<1>11. ASSUME NEW deferring \in SUBSET Queries, DriveQuerySignals(deferring) PROVE AgreeInv'
  BY <1>11, AgreeElsewhere DEF DriveQuerySignals, bevyVars, mirrorVars
<1>12. CASE UNCHANGED vars
  BY <1>12 DEF vars, bevyVars, mirrorVars, AgreeInv, Informed, Mirrored, NewVersion
<1> QED
  BY <1>1, <1>2, <1>3, <1>4, <1>5, <1>6, <1>7, <1>8, <1>9, <1>10, <1>11, <1>12 DEF Next, Frame

\* Between frames, a component and a mirror that have nothing to tell each other
\* hold the same value, also when the mirror took the place of another one whose
\* version is still remembered.
THEOREM SidesAgree == Spec => []Converged
<1>1. Init => ChangeInv
  BY DEF Init, ChangeInv, MirrorInv, Mirrored, BevyChangesKept, BevyPart, Value
<1>2. Init => HandedInv /\ NewInv /\ OnceInv /\ AgreeInv
  BY DEF Init, HandedInv, NewInv, OnceInv, AgreeInv, Mirrored
<1>3. AgreeInv => Converged
  BY DEF AgreeInv, Converged, Informed, Mirrored
<1> QED
  BY <1>1, <1>2, <1>3, ChangeStep, HandedStep, NewStep, OnceStep, AgreeStep, PTL DEF Spec

----------------------------------------------------------------------------
(* Types and counts                                                        *)

Users(q) == {h \in counted : QueryOf[h] = q}

\* The deltas on their way make up the difference between a query's count and
\* its users, less the hooks that left before they were counted; and what is
\* collected never takes a count further down than those did.
CountInv ==
    \A q \in Queries :
      /\ count[q] + pending[q] \in -early[q]..Cardinality(Hooks)
      /\ count[q] + pending[q] + deltas[q] = Cardinality(Users(q)) - early[q]

LEMMA UsersAreFinite ==
    ASSUME TypeOK, NEW q \in Queries
    PROVE  /\ IsFiniteSet(Users(q)) /\ Cardinality(Users(q)) \in 0..Cardinality(Hooks)
           /\ Cardinality(Hooks) \in Nat
<1>1. IsFiniteSet(Hooks) /\ Users(q) \subseteq Hooks
  BY QueryAssumption DEF TypeOK, Users
<1>2. IsFiniteSet(Users(q)) /\ Cardinality(Users(q)) <= Cardinality(Hooks)
  BY <1>1, FS_Subset
<1> QED BY <1>1, <1>2, FS_CardinalityType

\* The deltas of other queries stay as they are.
LEMMA CountElsewhere ==
    ASSUME CountInv, NEW q \in Queries, UNCHANGED <<count, pending>>,
           deltas'[q] = deltas[q], early'[q] = early[q], Users(q)' = Users(q)
    PROVE  /\ (count[q] + pending[q])' \in -early'[q]..Cardinality(Hooks)
           /\ (count[q] + pending[q] + deltas[q])' = Cardinality(Users(q)') - early'[q]
BY DEF CountInv

\* Every step keeps the account of the deltas.
LEMMA CountStep == TypeOK /\ CountInv /\ [Next]_vars => CountInv'
<1> SUFFICES ASSUME TypeOK, CountInv, [Next]_vars PROVE CountInv'
  OBVIOUS
<1>0. /\ count \in [Queries -> Int] /\ pending \in [Queries -> Int] /\ deltas \in [Queries -> Int]
      /\ early \in [Queries -> Nat] /\ QueryOf \in [Hooks -> Queries]
  BY QueryAssumption DEF TypeOK
<1>1. CASE UNCHANGED <<count, pending, deltas, counted, early>>
  BY <1>1 DEF CountInv, Users
<1>2. ASSUME NEW h \in Hooks, Count(h) PROVE CountInv'
  <2> PICK p \in Queries : p = QueryOf[h]
    BY <1>0
  <2>1. UNCHANGED <<count, pending, early>> /\ deltas' = [deltas EXCEPT ![p] = @ + 1]
        /\ h \notin counted /\ counted' = counted \cup {h}
    BY <1>2 DEF Count, queryVars
  <2> SUFFICES ASSUME NEW q \in Queries
               PROVE  /\ (count[q] + pending[q])' \in -early'[q]..Cardinality(Hooks)
                      /\ (count[q] + pending[q] + deltas[q])' = Cardinality(Users(q)') - early'[q]
    BY DEF CountInv
  <2>2. CASE q # p
    <3>1. Users(q)' = Users(q) /\ deltas'[q] = deltas[q]
      BY <1>0, <2>1, <2>2 DEF Users
    <3> QED BY <2>1, <3>1, CountElsewhere
  <2>3. CASE q = p
    <3>1. Users(q)' = Users(q) \cup {h} /\ h \notin Users(q) /\ deltas'[q] = deltas[q] + 1
      BY <1>0, <2>1, <2>3 DEF Users
    <3>2. IsFiniteSet(Users(q)) /\ Cardinality(Users(q)) \in Nat
      BY UsersAreFinite
    <3>3. Cardinality(Users(q)') = Cardinality(Users(q)) + 1
      BY <3>1, <3>2, FS_AddElement
    <3> QED BY <1>0, <2>1, <3>1, <3>2, <3>3 DEF CountInv
  <2> QED BY <2>2, <2>3
<1>3. ASSUME NEW h \in Hooks, Unmount(h) PROVE CountInv'
  <2> PICK p \in Queries : p = QueryOf[h]
    BY <1>0
  <2>1. /\ UNCHANGED <<count, pending>> /\ deltas' = [deltas EXCEPT ![p] = @ - 1]
        /\ early' = IF h \in counted THEN early ELSE [early EXCEPT ![p] = @ + 1]
        /\ counted' = counted \ {h}
    BY <1>3 DEF Unmount, queryVars
  <2> SUFFICES ASSUME NEW q \in Queries
               PROVE  /\ (count[q] + pending[q])' \in -early'[q]..Cardinality(Hooks)
                      /\ (count[q] + pending[q] + deltas[q])' = Cardinality(Users(q)') - early'[q]
    BY DEF CountInv
  <2>2. CASE q # p
    <3>1. Users(q)' = Users(q) /\ deltas'[q] = deltas[q] /\ early'[q] = early[q]
      BY <1>0, <2>1, <2>2 DEF Users
    <3> QED BY <2>1, <3>1, CountElsewhere
  <2>3. CASE q = p
    <3>1. /\ IsFiniteSet(Users(q)) /\ Cardinality(Users(q)) \in Nat /\ Cardinality(Hooks) \in Nat
          /\ deltas'[q] = deltas[q] - 1
      BY <1>0, <2>1, <2>3, UsersAreFinite
    \* Its +1 and its -1 have both been sent.
    <3>2. CASE h \in counted
      <4>1. Users(q)' = Users(q) \ {h} /\ h \in Users(q) /\ early'[q] = early[q]
        BY <2>1, <2>3, <3>2 DEF Users
      <4>2. Cardinality(Users(q)') = Cardinality(Users(q)) - 1
        BY <3>1, <4>1, FS_RemoveElement
      <4> QED BY <1>0, <2>1, <3>1, <4>1, <4>2 DEF CountInv
    \* Only its -1 is sent.
    <3>3. CASE h \notin counted
      <4>1. Users(q)' = Users(q) /\ early'[q] = early[q] + 1
        BY <1>0, <2>1, <2>3, <3>3 DEF Users
      <4> QED BY <1>0, <2>1, <3>1, <4>1 DEF CountInv
    <3> QED BY <3>2, <3>3
  <2> QED BY <2>2, <2>3
<1>4. CASE StartFrame
  <2>1. /\ UNCHANGED <<count, counted, early>>
        /\ \A q \in Queries : pending'[q] = pending[q] + deltas[q] /\ deltas'[q] = 0
    BY <1>4 DEF StartFrame
  <2>2. \A q \in Queries : Users(q)' = Users(q)
    BY <2>1 DEF Users
  <2> QED BY <1>0, <2>1, <2>2, UsersAreFinite DEF CountInv
<1>5. ASSUME NEW q \in Queries, ApplyTrackingQueriesDelta(q) PROVE CountInv'
  <2>1. /\ UNCHANGED <<deltas, counted, early>>
        /\ count'[q] = count[q] + pending[q] /\ pending'[q] = 0
        /\ \A p \in Queries \ {q} : count'[p] = count[p] /\ pending'[p] = pending[p]
    BY <1>0, <1>5 DEF ApplyTrackingQueriesDelta, hookVars, channelVars, AfterApply
  <2>2. \A p \in Queries : Users(p)' = Users(p)
    BY <2>1 DEF Users
  <2> QED BY <1>0, <2>1, <2>2 DEF CountInv
<1>6. ASSUME NEW h \in Hooks, Hook(h) PROVE CountInv'
  BY <1>1, <1>2, <1>3, <1>6 DEF Hook, Mount, Ask, Mutate, queryVars, channelVars
<1>7. CASE (\E e \in Entities : BevyWrite(e)) \/ \E q \in Queries, e \in Entities : Toggle(q, e)
  BY <1>1, <1>7 DEF BevyWrite, Toggle, hookVars, queryVars, channelVars
<1>8. CASE RunSchedules \/ EndFrame \/ SyncMirrorToComponent \/ SyncComponentToMirror
           \/ DeleteUnusedMirrors \/ RemoveMirrors
  BY <1>1, <1>8 DEF RunSchedules, EndFrame, SyncMirrorToComponent, SyncComponentToMirror,
       DeleteUnusedMirrors, RemoveMirrors, hookVars, queryVars, channelVars
<1>9. CASE \E deferring \in SUBSET Mirrored : DriveComponentSignals(deferring)
  BY <1>1, <1>9 DEF DriveComponentSignals, hookVars, queryVars, channelVars
<1>10. CASE SyncQueryMirrorsToSignals \/ \E deferring \in SUBSET Queries : DriveQuerySignals(deferring)
  BY <1>1, <1>10 DEF SyncQueryMirrorsToSignals, DriveQuerySignals, hookVars, channelVars
<1>11. CASE UNCHANGED vars
  BY <1>1, <1>11 DEF vars, hookVars, queryVars, channelVars
<1> QED BY <1>4, <1>5, <1>6, <1>7, <1>8, <1>9, <1>10, <1>11 DEF Next, Frame

LEMMA MapType == \A f : f \in Map <=> DOMAIN f \subseteq Entities /\ f \in [DOMAIN f -> 0..made]
BY DEF Map

LEMMA MapTypeNext == \A f : f \in Map' <=> DOMAIN f \subseteq Entities /\ f \in [DOMAIN f -> 0..made']
BY DEF Map

LEMMA NoEntries == <<>> \in Map /\ Counts(<<>>)
<1>1. DOMAIN <<>> = {} /\ <<>> = [x \in {} |-> 0]
  OBVIOUS
<1> QED BY <1>1, MapType DEF Counts

\* apply_tracking_delta leaves counts.
LEMMA TrackedType ==
    ASSUME NEW f, Counts(f), NEW q \in Queries, NEW delta \in Int
    PROVE  Counts(Tracked(f, q, delta))
<1> DEFINE n == (IF q \in DOMAIN f THEN f[q] ELSE 0) + delta
<1>1. f \in [DOMAIN f -> Nat] /\ DOMAIN f \subseteq Queries /\ n \in Int
  BY DEF Counts
<1>2. CASE n <= 0
  <2>1. Tracked(f, q, delta) = [p \in DOMAIN f \ {q} |-> f[p]]
    BY <1>2 DEF Tracked, Unused
  <2> QED BY <1>1, <2>1 DEF Counts
<1>3. CASE ~(n <= 0)
  <2>1. Tracked(f, q, delta) = [p \in DOMAIN f \cup {q} |-> IF p = q THEN n ELSE f[p]]
    BY <1>3 DEF Tracked, Unused
  <2> QED BY <1>1, <1>3, <2>1 DEF Counts
<1> QED BY <1>2, <1>3

\* Every step keeps the types.
LEMMA TypeStep == TypeOK /\ CountInv /\ [Next]_vars => TypeOK'
<1> SUFFICES ASSUME TypeOK, CountInv, [Next]_vars PROVE TypeOK'
  OBVIOUS
<1>0. {MaxMount, MaxToggle, MaxBevy, MaxMutate} \subseteq Nat /\ QueryOf \in [Hooks -> Queries]
  BY QueryAssumption
<1>a. made' = made => Map' = Map
  BY DEF Map
<1>1. ASSUME NEW h \in Hooks, Mount(h) \/ Count(h) \/ Ask(h) \/ Unmount(h) PROVE TypeOK'
  BY <1>0, <1>a, <1>1
     DEF TypeOK, Mount, Count, Ask, Unmount, bevyVars, hookVars, channelVars, queryVars, mirrorVars
<1>2. ASSUME NEW h \in Hooks, NEW e \in Entities, Mutate(h, e) PROVE TypeOK'
  <2>1. queue' \in [Entities -> Value]
    BY <1>0, <1>2 DEF Mutate, TypeOK, Value, Write
  <2> QED BY <1>0, <1>a, <1>2, <2>1
     DEF TypeOK, Mutate, bevyVars, hookVars, channelVars, queryVars, mirrorVars
<1>3. ASSUME NEW e \in Entities, BevyWrite(e) PROVE TypeOK'
  <2>1. comp' \in [Entities -> Value]
    BY <1>0, <1>3 DEF BevyWrite, TypeOK, Value, Write
  <2> QED BY <1>0, <1>a, <1>3, <2>1
     DEF TypeOK, BevyWrite, bevyVars, hookVars, channelVars, queryVars, mirrorVars
<1>4. ASSUME NEW q \in Queries, NEW e \in Entities, Toggle(q, e) PROVE TypeOK'
  BY <1>0, <1>a, <1>4
     DEF TypeOK, Toggle, bevyVars, hookVars, channelVars, queryVars, mirrorVars
<1>5. CASE StartFrame \/ RunSchedules \/ EndFrame
  <2>1. {QueryOf[h] : h \in requests} \subseteq Queries
    BY <1>0 DEF TypeOK
  <2> QED BY <1>a, <1>5, <2>1
     DEF TypeOK, StartFrame, RunSchedules, EndFrame, bevyVars, hookVars, channelVars, queryVars, mirrorVars
<1>6. CASE SyncMirrorToComponent \/ SyncComponentToMirror \/ DeleteUnusedMirrors
  BY <1>a, <1>6
     DEF TypeOK, SyncMirrorToComponent, SyncComponentToMirror, DeleteUnusedMirrors, Mirrored,
         bevyVars, hookVars, channelVars, queryVars, mirrorVars
<1>7. ASSUME NEW deferring \in SUBSET Mirrored, DriveComponentSignals(deferring) PROVE TypeOK'
  <2>1. \A e \in Entities : Drained(e) \in Value
    BY DEF TypeOK, Drained, Value
  <2>2. /\ accepted' \in [Entities -> Value] /\ published' \in [Entities -> Value]
        /\ version' \in [Entities -> Nat] /\ queue' \in [Entities -> Value] /\ replace' = {}
    BY <1>7, <2>1 DEF DriveComponentSignals, TypeOK, Value
  <2>3. /\ UNCHANGED <<bevyVars, hookVars, channelVars, queryVars, mirror, made, track, doomed, lastVersion>>
        /\ pc' = "toComponent"
    BY <1>7 DEF DriveComponentSignals
  <2> QED BY <1>a, <2>2, <2>3 DEF TypeOK, bevyVars, hookVars, channelVars, queryVars
<1>8. CASE RemoveMirrors
  <2>1. Counts(<<>>)
    BY NoEntries
  <2> QED BY <1>a, <1>8, <2>1
     DEF TypeOK, RemoveMirrors, Value, bevyVars, hookVars, channelVars, queryVars
<1>9. ASSUME NEW q \in Queries, ApplyTrackingQueriesDelta(q) PROVE TypeOK'
  <2>1. DOMAIN track' = Entities /\ \A e \in Entities : Counts(track'[e])
    BY <1>9, TrackedType DEF ApplyTrackingQueriesDelta, TypeOK
  <2>2. /\ count' \in [Queries -> Int]
        /\ \A p \in Queries : count'[p] \in -early[p]..Cardinality(Hooks)
    BY <1>9 DEF ApplyTrackingQueriesDelta, TypeOK, CountInv
  <2>3. active' \cup initialized' \subseteq registered'
    BY <1>9 DEF ApplyTrackingQueriesDelta, TypeOK
  <2>4. pending' \in [Queries -> Int]
    BY <1>9 DEF ApplyTrackingQueriesDelta, TypeOK, AfterApply
  <2>5. UNCHANGED <<bevyVars, hookVars, channelVars, registered, fresh, listed, shown,
                   mirror, made, accepted, published, version, doomed, pc, queue, replace, lastVersion>>
    BY <1>9 DEF ApplyTrackingQueriesDelta
  <2> QED BY <1>a, <2>1, <2>2, <2>3, <2>4, <2>5 DEF TypeOK, bevyVars, hookVars, channelVars
<1>10. CASE SyncQueryMirrorsToSignals
  <2> DEFINE spawned == UNION {Missing(q) : q \in active}
  <2>1. /\ spawned \subseteq Entities /\ active \subseteq Queries /\ made \in Nat
    BY DEF TypeOK, Missing
  <2>2. /\ made' \in {made, made + 1} /\ (spawned # {} => made' = made + 1)
        /\ mirror' = [e \in Entities |-> IF e \in spawned THEN made + 1 ELSE mirror[e]]
    BY <1>10 DEF SyncQueryMirrorsToSignals
  <2>3. mirror' \in [Entities -> 0..made'] /\ made' \in Nat /\ 0..made \subseteq 0..made'
    BY <2>1, <2>2 DEF TypeOK
  <2>4. Map \subseteq Map'
    BY <2>3, MapType, MapTypeNext
  <2>5. ASSUME NEW q \in Queries PROVE [e \in Present(q) |-> mirror[e]] \in Map /\ Relisted(q) \in Map
    <3>1. Present(q) \subseteq Entities /\ mirror \in [Entities -> 0..made]
      BY DEF TypeOK, Present, Mirrored
    <3>2. [e \in Present(q) |-> mirror[e]] \in Map
      BY <3>1, MapType
    <3>3. listed[q] \in [DOMAIN listed[q] -> 0..made]
      BY MapType DEF TypeOK
    <3> DEFINE kept == DOMAIN listed[q] \cap Present(q)
               listing == Present(q) \cap ChangedMirrors(q)
               seen == kept \cup listing
               found == Unseen(q, seen)
    <3>4. found \subseteq Present(q)
      BY DEF Unseen
    <3>5. Relisted(q) = [e \in seen \cup found |->
                           IF e \in listing \cup found THEN mirror[e] ELSE listed[q][e]]
      BY DEF Relisted
    <3>6. \A e \in seen \cup found : e \in Entities
             /\ (IF e \in listing \cup found THEN mirror[e] ELSE listed[q][e]) \in 0..made
      BY <3>1, <3>3, <3>4
    <3> HIDE DEF seen, found, listing
    <3>7. Relisted(q) \in Map
      BY <3>5, <3>6, MapType
    <3> QED BY <3>2, <3>7
  <2>6. listed' \in [Queries -> Map']
    <3>1. ASSUME NEW q \in Queries PROVE listed'[q] \in Map
      BY <1>10, <2>5 DEF SyncQueryMirrorsToSignals, TypeOK
    <3>2. listed' = [q \in Queries |-> listed'[q]]
      BY <1>10 DEF SyncQueryMirrorsToSignals
    <3> QED BY <2>4, <3>1, <3>2
  <2>7. DOMAIN track' = Entities /\ \A e \in Entities : Counts(track'[e])
    <3> PICK first \in [spawned -> active] :
               track' = [e \in Entities |->
                           IF e \in spawned THEN [q \in {first[e]} |-> 0] ELSE track[e]]
      BY <1>10 DEF SyncQueryMirrorsToSignals
    <3>1. ASSUME NEW e \in spawned PROVE Counts([q \in {first[e]} |-> 0])
      BY <2>1 DEF Counts
    <3> QED BY <3>1 DEF TypeOK
  <2>8. shown' \in [Queries -> Map']
    BY <1>10, <2>4 DEF SyncQueryMirrorsToSignals, TypeOK
  <2>9. /\ accepted' \in [Entities -> Value] /\ published' \in [Entities -> Value]
        /\ fresh' \in [Queries -> SUBSET Entities]
        /\ active' \cup initialized' \subseteq registered' /\ pc' = "driveQuery"
    BY <1>10, <2>1 DEF SyncQueryMirrorsToSignals, TypeOK
  <2>10. UNCHANGED <<bevyVars, hookVars, channelVars, registered, pending, count, version, doomed,
                     queue, replace, lastVersion>>
    BY <1>10 DEF SyncQueryMirrorsToSignals
  <2> QED BY <2>3, <2>6, <2>7, <2>8, <2>9, <2>10 DEF TypeOK, bevyVars, hookVars, channelVars
<1>11. ASSUME NEW deferring \in SUBSET Queries, DriveQuerySignals(deferring) PROVE TypeOK'
  BY <1>a, <1>11
     DEF TypeOK, DriveQuerySignals, bevyVars, hookVars, channelVars, queryVars, mirrorVars
<1>12. CASE UNCHANGED vars
  BY <1>a, <1>12 DEF TypeOK, vars, bevyVars, hookVars, channelVars, queryVars, mirrorVars
<1> QED
  BY <1>1, <1>2, <1>3, <1>4, <1>5, <1>6, <1>7, <1>8, <1>9, <1>10, <1>11, <1>12 DEF Next, Frame, Hook

LEMMA TypeInit == Init => TypeOK /\ CountInv
<1> SUFFICES ASSUME Init PROVE TypeOK /\ CountInv
  OBVIOUS
<1>1. Cardinality(Hooks) \in Nat /\ {MaxMount, MaxToggle, MaxBevy, MaxMutate} \subseteq Nat
  BY QueryAssumption, FS_CardinalityType
<1>2. <<>> \in Map /\ Counts(<<>>)
  BY NoEntries
<1>3. TypeOK
  BY <1>1, <1>2 DEF Init, TypeOK, Value
<1>4. \A q \in Queries : Users(q) = {}
  BY DEF Init, Users
<1>5. CountInv
  <2>1. \A q \in Queries : Cardinality(Users(q)) = 0
    BY <1>4, FS_EmptySet
  <2> QED BY <1>1, <2>1 DEF Init, CountInv
<1> QED BY <1>3, <1>5

\* The types of everything: a count is at most the number of hooks, and below zero
\* by no more than the hooks of its query that left before their effects, in any
\* order of mounts, effects, unmounts and batches of deltas.
THEOREM TypesCorrect == Spec => []TypeOK
BY TypeInit, TypeStep, CountStep, PTL DEF Spec

----------------------------------------------------------------------------
(* Components' closures                                                    *)

\* What is in a component is accepted by its mirror, once the mirror has read it,
\* and all that was accepted is published before it is written back.
StayInv ==
    \A e \in Mirrored :
      /\ Unread(e) \/ comp[e] \subseteq accepted[e]
      /\ pc = "toComponent" /\ NewVersion(e) => published[e] = accepted[e]

\* The steps that concern other things than values.
LEMMA StayElsewhere ==
    ASSUME StayInv, UNCHANGED <<mirror, comp, accepted, published, changed, replace>>,
           {"drive", "toComponent"} \cap {pc, pc'} = {}
    PROVE  StayInv'
BY DEF StayInv, Unread, Mirrored

\* Every step keeps the mirrors' values at what their components contain.
LEMMA StayStep == ChangeInv /\ NewInv /\ StayInv /\ [Next]_vars => StayInv'
<1> SUFFICES ASSUME ChangeInv, NewInv, StayInv, [Next]_vars PROVE StayInv'
  OBVIOUS
<1>1. ASSUME NEW h \in Hooks, Hook(h) PROVE StayInv'
  BY <1>1, StayElsewhere DEF Hook, Mount, Count, Ask, Unmount, Mutate, bevyVars, mirrorVars
<1>2. ASSUME NEW e \in Entities, BevyWrite(e) PROVE StayInv'
  BY <1>2 DEF BevyWrite, StayInv, Unread, Mirrored, ChangeInv, mirrorVars
<1>3. ASSUME NEW q \in Queries, NEW e \in Entities, Toggle(q, e) PROVE StayInv'
  BY <1>3, StayElsewhere DEF Toggle, hookVars, mirrorVars
<1>4. CASE StartFrame \/ RunSchedules \/ EndFrame \/ DeleteUnusedMirrors
  BY <1>4, StayElsewhere
     DEF StartFrame, RunSchedules, EndFrame, DeleteUnusedMirrors, bevyVars, mirrorVars
<1>5. CASE SyncMirrorToComponent
  BY <1>5 DEF SyncMirrorToComponent, StayInv, Unread, Mirrored, mirrorVars
<1>6. ASSUME NEW deferring \in SUBSET Mirrored, DriveComponentSignals(deferring) PROVE StayInv'
  <2> DEFINE publishing == {e \in Mirrored \ deferring : e \in replace \/ Drained(e) # published[e]}
  <2>1. /\ pc = "drive" /\ pc' = "toComponent" /\ changed = {}
        /\ \A e \in deferring : version[e] # 0
        /\ accepted' = [e \in Entities |-> IF e \in Mirrored THEN Drained(e) ELSE accepted[e]]
        /\ published' = [e \in Entities |-> IF e \in publishing THEN Drained(e) ELSE published[e]]
        /\ version' = [e \in Entities |-> IF e \in publishing THEN version[e] + 1 ELSE version[e]]
        /\ UNCHANGED <<comp, mirror, lastVersion>>
    BY <1>6 DEF DriveComponentSignals, ChangeInv, bevyVars
  <2> SUFFICES ASSUME NEW e \in Mirrored
               PROVE  /\ comp[e] \subseteq accepted'[e]
                      /\ NewVersion(e)' => published'[e] = accepted'[e]
    BY <2>1 DEF StayInv, Mirrored
  <2>2. e \in Entities /\ MirrorInv(e) /\ version[e] \in {0, lastVersion[e]}
    BY <2>1 DEF ChangeInv, Mirrored, MirrorInv
  <2>3. comp[e] \subseteq Drained(e)
    BY <2>1 DEF Drained, StayInv, Unread
  <2>4. CASE e \in publishing
    BY <2>1, <2>2, <2>3, <2>4
  <2>5. CASE e \notin publishing
    <3>1. NewVersion(e)' => version[e] = 0 /\ e \notin deferring
      BY <2>1, <2>2, <2>5 DEF NewVersion
    <3>2. NewVersion(e)' => published[e] = Drained(e)
      BY <2>5, <3>1
    <3> QED BY <2>1, <2>2, <2>3, <2>5, <3>2
  <2> QED BY <2>4, <2>5
<1>7. CASE SyncComponentToMirror
  <2>1. /\ pc = "toComponent" /\ pc' = "delete" /\ changed = {}
        /\ comp' = [e \in Entities |-> IF e \in Mirrored /\ NewVersion(e) THEN published[e] ELSE comp[e]]
        /\ UNCHANGED <<mirror, accepted, published, changed, replace>>
    BY <1>7 DEF SyncComponentToMirror, mirrorVars, ChangeInv
  <2> SUFFICES ASSUME NEW e \in Mirrored PROVE comp'[e] \subseteq accepted[e]
    BY <2>1 DEF StayInv, Unread, Mirrored
  <2>2. e \in Entities /\ comp[e] \subseteq accepted[e]
    BY <2>1 DEF Mirrored, StayInv, Unread
  <2>3. NewVersion(e) => published[e] = accepted[e]
    BY <2>1 DEF StayInv
  <2> QED BY <2>1, <2>2, <2>3
<1>8. ASSUME NEW q \in Queries, ApplyTrackingQueriesDelta(q) PROVE StayInv'
  BY <1>8, StayElsewhere DEF ApplyTrackingQueriesDelta, bevyVars
<1>9. CASE RemoveMirrors
  BY <1>9 DEF RemoveMirrors, StayInv, Unread, Mirrored, bevyVars
<1>10. CASE SyncQueryMirrorsToSignals
  <2> DEFINE spawned == UNION {Missing(q) : q \in active}
  <2>1. /\ pc = "sync" /\ pc' = "driveQuery"
        /\ mirror' = [e \in Entities |-> IF e \in spawned THEN made + 1 ELSE mirror[e]]
        /\ accepted' = [e \in Entities |-> IF e \in spawned THEN comp[e] ELSE accepted[e]]
        /\ UNCHANGED <<comp, changed, replace>>
    BY <1>10 DEF SyncQueryMirrorsToSignals, bevyVars
  <2> QED BY <2>1 DEF StayInv, Unread, Mirrored
<1>11. ASSUME NEW deferring \in SUBSET Queries, DriveQuerySignals(deferring) PROVE StayInv'
  BY <1>11, StayElsewhere DEF DriveQuerySignals, bevyVars, mirrorVars
<1>12. CASE UNCHANGED vars
  BY <1>12 DEF vars, bevyVars, mirrorVars, StayInv, Unread, Mirrored, NewVersion
<1> QED
  BY <1>1, <1>2, <1>3, <1>4, <1>5, <1>6, <1>7, <1>8, <1>9, <1>10, <1>11, <1>12 DEF Next, Frame

\* No component loses a write, bevy's or a closure.
WritesStay == [][\A e \in Entities : comp[e] \subseteq comp'[e]]_vars

\* Whatever a mirror writes back, it adds to what its component contains: through
\* deferred publishes, and mirrors that are removed and made again while the version
\* of their predecessor is still remembered.
THEOREM WritesAreFinal == Spec => WritesStay
<1>1. Init => ChangeInv
  BY DEF Init, ChangeInv, MirrorInv, Mirrored, BevyChangesKept, BevyPart, Value
<1>2. Init => HandedInv /\ NewInv /\ StayInv
  BY DEF Init, HandedInv, NewInv, StayInv, Mirrored
<1>3. ASSUME ChangeInv, StayInv, [Next]_vars
      PROVE  [\A e \in Entities : comp[e] \subseteq comp'[e]]_vars
  <2>1. CASE \E e \in Entities : BevyWrite(e)
    BY <1>3, <2>1 DEF BevyWrite, ChangeInv
  <2>2. CASE SyncComponentToMirror
    <3>1. ASSUME NEW e \in Mirrored, NewVersion(e) PROVE comp[e] \subseteq published[e]
      <4>1. pc = "toComponent" /\ e \notin changed
        BY <1>3, <2>2 DEF SyncComponentToMirror, ChangeInv
      <4> QED BY <1>3, <3>1, <4>1 DEF StayInv, Unread
    <3> QED BY <2>2, <3>1 DEF SyncComponentToMirror
  <2>3. CASE ~SyncComponentToMirror /\ ~\E e \in Entities : BevyWrite(e)
    <3>1. comp' = comp
      BY <1>3, <2>3 DEF Next, Frame, Hook, Mount, Count, Ask, Unmount, Mutate, Toggle, StartFrame,
         RunSchedules, EndFrame, SyncMirrorToComponent, DriveComponentSignals, DeleteUnusedMirrors,
         ApplyTrackingQueriesDelta, RemoveMirrors, SyncQueryMirrorsToSignals, DriveQuerySignals,
         bevyVars, vars
    <3> QED BY <3>1
  <2> QED BY <2>1, <2>2, <2>3
<1>4. ChangeInv /\ StayInv /\ [Next]_vars => [\A e \in Entities : comp[e] \subseteq comp'[e]]_vars
  BY <1>3
<1> QED BY <1>1, <1>2, <1>4, ChangeStep, HandedStep, NewStep, StayStep, PTL DEF Spec, WritesStay

\* Without a change of bevy's, every mirror is made from a component that was looked
\* at before, so that no value of the component ever replaces the mirror's.
FirstInv ==
    /\ bevyWrites \in Nat
    /\ bevyWrites = 0 => replace = {} /\ (Mirrored # {} => changed = {})

\* Every step but bevy's leaves the component's values unsent.
LEMMA FirstStep == ChangeInv /\ FirstInv /\ [Next]_vars => FirstInv'
<1> SUFFICES ASSUME ChangeInv, FirstInv, [Next]_vars PROVE FirstInv'
  OBVIOUS
<1>1. CASE UNCHANGED <<bevyWrites, replace, changed, mirror>>
  BY <1>1 DEF FirstInv, Mirrored
<1>2. ASSUME NEW e \in Entities, BevyWrite(e) PROVE FirstInv'
  BY <1>2 DEF BevyWrite, FirstInv
<1>3. CASE SyncMirrorToComponent
  BY <1>3 DEF SyncMirrorToComponent, FirstInv, Mirrored, mirrorVars
<1>4. ASSUME NEW deferring \in SUBSET Mirrored, DriveComponentSignals(deferring) PROVE FirstInv'
  BY <1>4 DEF DriveComponentSignals, FirstInv, Mirrored, bevyVars
<1>5. CASE RemoveMirrors
  <2>1. UNCHANGED <<bevyWrites, replace, changed>> /\ Mirrored' \subseteq Mirrored
    BY <1>5 DEF RemoveMirrors, Mirrored, bevyVars
  <2> QED BY <2>1 DEF FirstInv
<1>6. CASE SyncQueryMirrorsToSignals
  <2>1. UNCHANGED <<bevyWrites, replace, changed>> /\ pc = "sync"
    BY <1>6 DEF SyncQueryMirrorsToSignals, bevyVars
  <2>2. changed = {}
    BY <2>1 DEF ChangeInv
  <2> QED BY <2>1, <2>2 DEF FirstInv
<1> QED
  BY <1>1, <1>2, <1>3, <1>4, <1>5, <1>6
     DEF Next, Frame, Hook, Mount, Count, Ask, Unmount, Mutate, Toggle, StartFrame, RunSchedules,
         EndFrame, SyncComponentToMirror, DeleteUnusedMirrors, ApplyTrackingQueriesDelta,
         DriveQuerySignals, bevyVars, mirrorVars, vars

\* A mirror keeps what was sent to it until it is removed, ...
ClosuresStay ==
    [][bevyWrites' = 0 =>
         \A e \in Mirrored :
           mirror'[e] = mirror[e] => queue[e] \cup accepted[e] \subseteq queue'[e] \cup accepted'[e]]_vars

\* ... and what it accepted is in the component, or is yet to be published or
\* written back.
ClosuresReach ==
    bevyWrites = 0 =>
      \A e \in Mirrored : \/ accepted[e] = comp[e]
                          \/ accepted[e] # published[e]
                          \/ NewVersion(e)

\* As long as bevy does not change the components, no closure of a mirror that stays
\* is lost between its queue, a deferred publish and the write-back: with
\* WritesAreFinal, what MutationsArrive is about, but for the fairness that makes
\* closures arrive.
THEOREM ClosuresAreKept == Spec => []ClosuresReach /\ ClosuresStay
<1>1. Init => ChangeInv
  BY DEF Init, ChangeInv, MirrorInv, Mirrored, BevyChangesKept, BevyPart, Value
<1>2. Init => HandedInv /\ NewInv /\ OnceInv /\ AgreeInv /\ FirstInv
  BY DEF Init, HandedInv, NewInv, OnceInv, AgreeInv, FirstInv, Mirrored
<1>3. AgreeInv /\ FirstInv => ClosuresReach
  BY DEF AgreeInv, FirstInv, ClosuresReach, Informed, Mirrored
<1>4. ASSUME ChangeInv, FirstInv, [Next]_vars, bevyWrites' = 0, NEW e \in Mirrored, mirror'[e] = mirror[e]
      PROVE  queue[e] \cup accepted[e] \subseteq queue'[e] \cup accepted'[e]
  <2>0. e \in Entities /\ mirror[e] # 0
    BY DEF Mirrored
  <2>1. ASSUME NEW h \in Hooks, NEW f \in Entities, Mutate(h, f)
        PROVE  queue[e] \cup accepted[e] \subseteq queue'[e] \cup accepted'[e]
    <3>1. accepted' = accepted /\ queue[e] \subseteq queue'[e]
      BY <1>4, <2>0, <2>1 DEF Mutate, ChangeInv, mirrorVars
    <3> QED BY <3>1
  <2>2. ASSUME NEW deferring \in SUBSET Mirrored, DriveComponentSignals(deferring)
        PROVE  queue[e] \cup accepted[e] \subseteq queue'[e] \cup accepted'[e]
    <3>1. bevyWrites = 0 /\ e \notin replace
      BY <1>4, <2>2 DEF DriveComponentSignals, bevyVars, FirstInv
    <3>2. accepted'[e] = Drained(e)
      BY <2>0, <2>2 DEF DriveComponentSignals
    <3> QED BY <3>1, <3>2 DEF Drained
  <2>3. CASE RemoveMirrors
    BY <1>4, <2>0, <2>3 DEF RemoveMirrors
  <2>4. CASE SyncQueryMirrorsToSignals
    <3>1. ~\E q \in active : e \in Missing(q)
      BY DEF Missing
    <3>2. accepted'[e] = accepted[e] /\ queue' = queue
      BY <2>0, <2>4, <3>1 DEF SyncQueryMirrorsToSignals
    <3> QED BY <3>2
  <2>5. CASE UNCHANGED <<queue, accepted>>
    BY <2>5
  <2> QED
    BY <1>4, <2>1, <2>2, <2>3, <2>4, <2>5
       DEF Next, Frame, Hook, Mount, Count, Ask, Unmount, BevyWrite, Toggle, StartFrame, RunSchedules,
           EndFrame, SyncMirrorToComponent, SyncComponentToMirror, DeleteUnusedMirrors,
           ApplyTrackingQueriesDelta, DriveQuerySignals, mirrorVars, vars
<1>5. ChangeInv /\ FirstInv /\ [Next]_vars
        => [bevyWrites' = 0 =>
              \A e \in Mirrored :
                mirror'[e] = mirror[e]
                  => queue[e] \cup accepted[e] \subseteq queue'[e] \cup accepted'[e]]_vars
  BY <1>4
<1> QED
  BY <1>1, <1>2, <1>3, <1>5, ChangeStep, HandedStep, NewStep, OnceStep, AgreeStep, FirstStep, PTL
     DEF Spec, ClosuresStay

----------------------------------------------------------------------------
(* Mirrors that nobody uses                                                *)

\* A query is active while its count is positive.  While no entity enters or leaves
\* a filter, a mirror is tracked only by queries that match it: never for more hooks
\* than the query would count had no hook left early, and for none at all only
\* while the query that made it is active.
TrackInv ==
    /\ active = {q \in registered : count[q] > 0}
    /\ \A q \in Queries \ registered : count[q] = 0
    /\ toggles = 0 =>
         \A e \in Mirrored : \A q \in DOMAIN track[e] :
           /\ e \in matches[q]
           /\ track[e][q] <= count[q] + early[q]
           /\ track[e][q] = 0 => count[q] > 0

\* What apply_tracking_delta leaves: the other counts, and its own if that is positive.
LEMMA TrackedCounts ==
    ASSUME NEW f, Counts(f), NEW q \in Queries, NEW delta \in Int
    PROVE  LET n == (IF q \in DOMAIN f THEN f[q] ELSE 0) + delta
               g == Tracked(f, q, delta)
           IN  \A p \in DOMAIN g : IF p = q THEN n > 0 /\ g[p] = n
                                            ELSE p \in DOMAIN f /\ g[p] = f[p]
<1> DEFINE n == (IF q \in DOMAIN f THEN f[q] ELSE 0) + delta
<1>1. f \in [DOMAIN f -> Nat] /\ n \in Int
  BY DEF Counts
<1>2. CASE n <= 0
  <2>1. Tracked(f, q, delta) = [p \in DOMAIN f \ {q} |-> f[p]]
    BY <1>2 DEF Tracked, Unused
  <2> QED BY <2>1
<1>3. CASE ~(n <= 0)
  <2>1. Tracked(f, q, delta) = [p \in DOMAIN f \cup {q} |-> IF p = q THEN n ELSE f[p]]
    BY <1>3 DEF Tracked, Unused
  <2> QED BY <1>1, <1>3, <2>1
<1> QED BY <1>2, <1>3

\* The steps that leave filters, counts and mirrors alone.
LEMMA TrackElsewhere ==
    ASSUME TrackInv, UNCHANGED <<matches, toggles, registered, count, early, active, mirror, track>>
    PROVE  TrackInv'
BY DEF TrackInv, Mirrored

\* Every step leaves mirrors tracked by queries that are in use.
LEMMA TrackStep == TypeOK /\ CountInv /\ TrackInv /\ [Next]_vars => TrackInv'
<1> SUFFICES ASSUME TypeOK, CountInv, TrackInv, [Next]_vars PROVE TrackInv'
  OBVIOUS
<1>0. /\ count \in [Queries -> Int] /\ pending \in [Queries -> Int] /\ toggles \in Nat
      /\ early \in [Queries -> Nat] /\ active \subseteq registered /\ registered \subseteq Queries
  BY DEF TypeOK
<1>a. ASSUME NEW h \in Hooks, Unmount(h) PROVE TrackInv'
  <2>1. /\ UNCHANGED <<matches, toggles, registered, count, active, mirror, track>>
        /\ early' \in {early, [early EXCEPT ![QueryOf[h]] = @ + 1]}
    BY <1>a DEF Unmount, bevyVars, queryVars, mirrorVars
  <2>2. \A q \in Queries : early[q] <= early'[q] /\ early'[q] \in Nat
    BY <1>0, <2>1
  <2>3. ASSUME toggles = 0, NEW e \in Mirrored, NEW q \in DOMAIN track[e]
        PROVE  track[e][q] <= count[q] + early'[q]
    <3>1. q \in Queries /\ track[e][q] \in Nat /\ count[q] \in Int /\ early[q] \in Nat
      BY <1>0 DEF TypeOK, Counts, Mirrored
    <3> QED BY <2>2, <2>3, <3>1 DEF TrackInv
  <2> QED BY <2>1, <2>3 DEF TrackInv, Mirrored
<1>1. ASSUME NEW h \in Hooks, Hook(h) PROVE TrackInv'
  BY <1>1, <1>a, TrackElsewhere DEF Hook, Mount, Count, Ask, Mutate, bevyVars, queryVars, mirrorVars
<1>2. ASSUME NEW e \in Entities, BevyWrite(e) PROVE TrackInv'
  BY <1>2, TrackElsewhere DEF BevyWrite, hookVars, queryVars, mirrorVars
<1>3. ASSUME NEW q \in Queries, NEW e \in Entities, Toggle(q, e) PROVE TrackInv'
  <2>1. toggles' # 0 /\ UNCHANGED <<registered, count, active>>
    BY <1>0, <1>3 DEF Toggle, queryVars
  <2> QED BY <2>1 DEF TrackInv
<1>4. CASE StartFrame
  <2>1. /\ registered' = registered \cup {QueryOf[h] : h \in requests}
        /\ UNCHANGED <<matches, toggles, count, early, active, mirror, track>>
    BY <1>4 DEF StartFrame, bevyVars, mirrorVars
  <2>2. \A q \in registered' : count[q] > 0 => q \in registered
    <3>1. registered' \subseteq Queries
      BY <2>1, QueryAssumption DEF TypeOK
    <3> QED BY <3>1 DEF TrackInv
  <2> QED BY <2>1, <2>2 DEF TrackInv, Mirrored
<1>5. CASE RunSchedules \/ EndFrame \/ SyncMirrorToComponent \/ SyncComponentToMirror
           \/ DeleteUnusedMirrors
  BY <1>5, TrackElsewhere DEF RunSchedules, EndFrame, SyncMirrorToComponent, SyncComponentToMirror,
     DeleteUnusedMirrors, bevyVars, hookVars, queryVars, mirrorVars
<1>6. ASSUME NEW deferring \in SUBSET Mirrored, DriveComponentSignals(deferring) PROVE TrackInv'
  BY <1>6, TrackElsewhere DEF DriveComponentSignals, bevyVars, hookVars, queryVars
<1>7. ASSUME NEW q \in Queries, ApplyTrackingQueriesDelta(q) PROVE TrackInv'
  <2> DEFINE n == count[q] + pending[q]
  <2>1. /\ q \in registered /\ count' = [count EXCEPT ![q] = n]
        /\ active' = IF n > 0 THEN active \cup {q} ELSE active \ {q}
        /\ track' = [e \in Entities |-> IF e \in Mirrored \cap matches[q]
                                        THEN Tracked(track[e], q, pending[q]) ELSE track[e]]
        /\ UNCHANGED <<matches, toggles, registered, mirror, early>>
    BY <1>0, <1>7 DEF ApplyTrackingQueriesDelta, bevyVars, hookVars
  <2>2. n \in Int /\ count'[q] = n /\ \A p \in Queries \ {q} : count'[p] = count[p]
    BY <1>0, <2>1
  <2>3. active' = {p \in registered' : count'[p] > 0}
    BY <1>0, <2>1, <2>2 DEF TrackInv
  <2>4. \A p \in Queries \ registered' : count'[p] = 0
    BY <2>1, <2>2 DEF TrackInv
  <2>5. ASSUME toggles = 0, NEW e \in Mirrored, NEW p \in DOMAIN track'[e]
        PROVE  /\ e \in matches[p] /\ track'[e][p] <= count'[p] + early[p]
               /\ track'[e][p] = 0 => count'[p] > 0
    <3>1. e \in Entities /\ Counts(track[e]) /\ pending[q] \in Int /\ count[q] \in Int
      BY <1>0 DEF TypeOK, Mirrored
    <3>2. CASE e \notin matches[q]
      <4>1. track'[e] = track[e]
        BY <2>1, <3>1, <3>2
      <4>2. p \in Queries /\ p # q
        BY <2>5, <3>1, <3>2, <4>1 DEF Counts, TrackInv
      <4> QED BY <2>2, <2>5, <4>1, <4>2 DEF TrackInv
    <3>3. CASE e \in matches[q]
      <4>1. track'[e] = Tracked(track[e], q, pending[q])
        BY <2>1, <3>1, <3>3
      <4>2. CASE p = q
        <5> DEFINE m == IF q \in DOMAIN track[e] THEN track[e][q] ELSE 0
        <5>1. m + pending[q] > 0 /\ track'[e][p] = m + pending[q]
          BY <2>5, <3>1, <4>1, <4>2, TrackedCounts
        <5>2. m <= count[q] + early[q] /\ m \in Int /\ early[q] \in Nat
          <6>1. CASE q \in DOMAIN track[e]
            BY <1>0, <2>5, <3>1, <6>1 DEF TrackInv, Counts
          <6>2. CASE q \notin DOMAIN track[e]
            <7>1. count[q] \in -early[q]..Cardinality(Hooks) /\ early[q] \in Nat
              BY DEF TypeOK
            <7>2. Cardinality(Hooks) \in Nat
              BY QueryAssumption, FS_CardinalityType
            <7> QED BY <3>1, <6>2, <7>1, <7>2
          <6> QED BY <6>1, <6>2
        <5> HIDE DEF m
        <5> QED BY <2>2, <3>1, <3>3, <4>2, <5>1, <5>2
      <4>3. CASE p # q
        <5>1. p \in DOMAIN track[e] /\ track'[e][p] = track[e][p]
          BY <2>5, <3>1, <4>1, <4>3, TrackedCounts
        <5>2. p \in Queries
          BY <3>1, <5>1 DEF Counts
        <5> QED BY <2>2, <2>5, <4>3, <5>1, <5>2 DEF TrackInv
      <4> QED BY <4>2, <4>3
    <3> QED BY <3>2, <3>3
  <2>6. Mirrored' = Mirrored
    BY <2>1 DEF Mirrored
  <2> HIDE DEF n
  <2> QED BY <2>1, <2>3, <2>4, <2>5, <2>6 DEF TrackInv
<1>8. CASE RemoveMirrors
  <2>1. /\ \A e \in Mirrored' : e \in Mirrored /\ track'[e] = track[e]
        /\ UNCHANGED <<matches, toggles, registered, count, early, active>>
    BY <1>8 DEF RemoveMirrors, Mirrored, bevyVars, hookVars, queryVars
  <2> QED BY <2>1 DEF TrackInv
<1>9. CASE SyncQueryMirrorsToSignals
  <2> DEFINE spawned == UNION {Missing(q) : q \in active}
  <2>1. /\ mirror' = [e \in Entities |-> IF e \in spawned THEN made + 1 ELSE mirror[e]]
        /\ UNCHANGED <<matches, toggles, registered, count, early, active>>
    BY <1>9 DEF SyncQueryMirrorsToSignals, bevyVars, hookVars
  <2>2. PICK first \in [spawned -> active] :
          /\ \A e \in spawned : e \in Missing(first[e])
          /\ track' = [e \in Entities |->
                         IF e \in spawned THEN [q \in {first[e]} |-> 0] ELSE track[e]]
    BY <1>9 DEF SyncQueryMirrorsToSignals
  <2>3. ASSUME toggles = 0, NEW e \in Mirrored', NEW p \in DOMAIN track'[e]
        PROVE  /\ e \in matches[p] /\ track'[e][p] <= count[p] + early[p]
               /\ track'[e][p] = 0 => count[p] > 0
    <3>1. CASE e \in spawned
      <4>1. p = first[e] /\ track'[e][p] = 0 /\ first[e] \in active
        BY <2>2, <2>3, <3>1 DEF Mirrored
      <4>2. e \in matches[p] /\ count[p] > 0 /\ p \in Queries
        BY <1>0, <2>2, <3>1, <4>1 DEF Missing, TrackInv
      <4> QED BY <1>0, <4>1, <4>2
    <3>2. CASE e \notin spawned
      <4>1. e \in Mirrored /\ track'[e] = track[e]
        BY <2>1, <2>2, <2>3, <3>2 DEF Mirrored
      <4> QED BY <2>3, <4>1 DEF TrackInv
    <3> QED BY <3>1, <3>2
  <2> QED BY <2>1, <2>3 DEF TrackInv
<1>10. ASSUME NEW deferring \in SUBSET Queries, DriveQuerySignals(deferring) PROVE TrackInv'
  BY <1>10, TrackElsewhere DEF DriveQuerySignals, bevyVars, hookVars, mirrorVars
<1>11. CASE UNCHANGED vars
  BY <1>11, TrackElsewhere DEF vars, bevyVars, hookVars, queryVars, mirrorVars
<1> QED
  BY <1>1, <1>2, <1>3, <1>4, <1>5, <1>6, <1>7, <1>8, <1>9, <1>10, <1>11 DEF Next, Frame

\* Once nobody is counted and no delta is on its way, the next run of the schedules
\* deletes every mirror, and no query makes new ones.
UnusedAreUntracked ==
    toggles = 0 /\ counted = {} /\ (\A q \in Queries : deltas[q] = 0 /\ pending[q] = 0)
      => active = {} /\ \A e \in Mirrored : DOMAIN track[e] = {}

\* Counting up and down, in batches of any size and for mirrors that are made before
\* or after a hook was counted, leaves no mirror tracked: what UnusedAreDeleted is
\* about, but for the fairness that makes the deltas arrive and the run come.
THEOREM NothingIsLeftTracked == Spec => []UnusedAreUntracked
<1>1. Init => TrackInv
  BY DEF Init, TrackInv, Mirrored
<1>2. ASSUME TypeOK, CountInv, TrackInv PROVE UnusedAreUntracked
  <2> SUFFICES ASSUME toggles = 0, counted = {}, \A q \in Queries : deltas[q] = 0 /\ pending[q] = 0
               PROVE  active = {} /\ \A e \in Mirrored : DOMAIN track[e] = {}
    BY DEF UnusedAreUntracked
  <2>1. \A q \in Queries : count[q] = -early[q] /\ early[q] \in Nat
    <3>1. Cardinality({}) = 0
      BY FS_EmptySet
    <3>2. \A q \in Queries : Users(q) = {} /\ count[q] \in Int /\ early[q] \in Nat
      BY <1>2 DEF Users, TypeOK
    <3> QED BY <1>2, <3>1, <3>2 DEF CountInv
  <2>2. \A e \in Mirrored : \A q \in DOMAIN track[e] : q \in Queries /\ track[e][q] \in Nat
    BY <1>2 DEF TypeOK, Counts, Mirrored
  <2> QED BY <2>1, <2>2, <1>2 DEF TrackInv, TypeOK
<1> QED BY <1>1, <1>2, TypeInit, TypeStep, CountStep, TrackStep, PTL DEF Spec

\* Once its deltas have arrived, a query is active if and only if more hooks are
\* counted in it than have ever unmounted before their effects.
ActiveBeyondEarly ==
    \A q \in registered : deltas[q] = 0 /\ pending[q] = 0
      => (q \in active <=> Cardinality(Users(q)) > early[q])

\* Each -1 that use_drop sends for a hook that was not counted (query/mod.rs:906)
\* keeps the place of a mounted hook, for good: the premise of EventuallyShown is
\* what the code needs.
THEOREM EarlyLeaversKeepPlaces == Spec => []ActiveBeyondEarly
<1>1. Init => TrackInv
  BY DEF Init, TrackInv, Mirrored
<1>2. ASSUME TypeOK, CountInv, TrackInv PROVE ActiveBeyondEarly
  <2> SUFFICES ASSUME NEW q \in registered, deltas[q] = 0, pending[q] = 0
               PROVE  q \in active <=> Cardinality(Users(q)) > early[q]
    BY DEF ActiveBeyondEarly
  <2>1. q \in Queries /\ count[q] \in Int /\ early[q] \in Nat /\ Cardinality(Users(q)) \in Nat
    BY <1>2, UsersAreFinite DEF TypeOK
  <2>2. count[q] = Cardinality(Users(q)) - early[q]
    BY <1>2, <2>1 DEF CountInv
  <2>3. q \in active <=> count[q] > 0
    BY <1>2, <2>1 DEF TrackInv
  <2> QED BY <2>1, <2>2, <2>3
<1> QED BY <1>1, <1>2, TypeInit, TypeStep, CountStep, TrackStep, PTL DEF Spec

----------------------------------------------------------------------------
(* Queries list their matches                                               *)

Matching(q) == [e \in matches[q] \ fresh[q] |-> mirror[e]]

\* After the systems of the queries every match of an active query has a mirror,
\* and an initialized one lists them all, but those that were made in this run.
ListsAreExact ==
    pc = "driveQuery" => \A q \in active :
        /\ matches[q] \subseteq Mirrored
        /\ q \in initialized => listed[q] = Matching(q)

\* A set that is not smaller than the one it is part of is that one: where the
\* numbers agree, the reconciliation of sync_query_mirror_to_signal misses nothing.
LEMMA NothingUnseen ==
    ASSUME NEW q, IsFiniteSet(Present(q)), NEW seen \in SUBSET Present(q)
    PROVE  seen \cup Unseen(q, seen) = Present(q)
<1>1. CASE Cardinality(Present(q)) = Cardinality(seen)
  BY <1>1, FS_Subset DEF Unseen
<1>2. CASE Cardinality(Present(q)) # Cardinality(seen)
  BY <1>2 DEF Unseen
<1> QED BY <1>1, <1>2

\* An initialized query lists what is present, under the handles that it has.
LEMMA RelistedIsExact ==
    ASSUME TypeOK, ListInv, NEW q \in Queries
    PROVE  Relisted(q) = [e \in Present(q) |-> mirror[e]]
<1> DEFINE kept    == DOMAIN listed[q] \cap Present(q)
           listing == Present(q) \cap ChangedMirrors(q)
           found   == Unseen(q, kept \cup listing)
<1>1. IsFiniteSet(Present(q))
  BY QueryAssumption, FS_Subset DEF Present, Mirrored
<1>2. kept \cup listing \cup found = Present(q)
  BY <1>1, NothingUnseen
<1>3. \A e \in kept \ listing : listed[q][e] = mirror[e]
  BY DEF ListInv, ChangedMirrors, Present
<1>4. Relisted(q) = [e \in kept \cup listing \cup found |->
                       IF e \in listing \cup found THEN mirror[e] ELSE listed[q][e]]
  BY DEF Relisted
<1> HIDE DEF kept, listing, found
<1> QED BY <1>2, <1>3, <1>4

\* The systems of the queries leave exact lists; no other step leads there.
LEMMA ExactStep == TypeOK /\ ListInv /\ ListsAreExact /\ [Next]_vars => ListsAreExact'
<1> SUFFICES ASSUME TypeOK, ListInv, ListsAreExact, [Next]_vars PROVE ListsAreExact'
  OBVIOUS
<1>1. CASE UNCHANGED vars
  BY <1>1 DEF ListsAreExact, Matching, Mirrored, vars, bevyVars, queryVars, mirrorVars
<1>2. CASE SyncQueryMirrorsToSignals
  <2> DEFINE complete == {q \in active \ initialized : Missing(q) = {}}
             spawned  == UNION {Missing(q) : q \in active}
  <2>1. /\ initialized' = initialized \cup complete /\ active' = active /\ matches' = matches
        /\ listed' = [q \in Queries |->
              CASE q \in complete -> [e \in Present(q) |-> mirror[e]]
                [] q \in active \cap initialized -> Relisted(q)
                [] OTHER -> listed[q]]
        /\ mirror' = [e \in Entities |-> IF e \in spawned THEN made + 1 ELSE mirror[e]]
        /\ fresh' = [q \in Queries |-> IF q \in active THEN spawned ELSE fresh[q] \cup spawned]
    BY <1>2 DEF SyncQueryMirrorsToSignals, queryVars, bevyVars
  <2>2. ASSUME NEW q \in active
        PROVE  /\ matches[q] \subseteq Mirrored'
               /\ q \in initialized' => listed'[q] = Matching(q)'
    <3>1. /\ q \in Queries /\ matches[q] \subseteq Entities /\ made + 1 # 0
          /\ Missing(q) \subseteq spawned /\ spawned \cap Present(q) = {} /\ fresh'[q] = spawned
          /\ matches[q] = Present(q) \cup Missing(q)
      BY <2>1 DEF TypeOK, ListInv, Missing, Present
    <3>2. matches[q] \subseteq Mirrored'
      BY <2>1, <3>1 DEF Mirrored, Present
    <3>3. q \in initialized' => listed'[q] = [e \in Present(q) |-> mirror[e]]
      BY <2>1, <3>1, RelistedIsExact
    <3>4. /\ matches'[q] \ fresh'[q] = Present(q)
          /\ \A e \in Present(q) : mirror'[e] = mirror[e]
      BY <2>1, <3>1 DEF Present
    <3>5. Matching(q)' = [e \in Present(q) |-> mirror[e]]
      BY <3>4 DEF Matching
    <3> QED BY <3>2, <3>3, <3>5
  <2> QED BY <2>1, <2>2 DEF ListsAreExact
<1>3. ASSUME NEW h \in Hooks, Hook(h) PROVE ListsAreExact'
  BY <1>3 DEF Hook, Mount, Count, Ask, Unmount, Mutate, ListsAreExact
<1>4. CASE \/ \E e \in Entities : BevyWrite(e)
           \/ \E q \in Queries, e \in Entities : Toggle(q, e)
  BY <1>4 DEF BevyWrite, Toggle, ListsAreExact
<1>5. CASE Frame /\ ~SyncQueryMirrorsToSignals
  BY <1>5 DEF Frame, StartFrame, RunSchedules, EndFrame, SyncMirrorToComponent, DriveComponentSignals,
       SyncComponentToMirror, DeleteUnusedMirrors, RemoveMirrors, ApplyTrackingQueriesDelta,
       DriveQuerySignals, ListsAreExact
<1> QED BY <1>1, <1>2, <1>3, <1>4, <1>5 DEF Next

\* A publish of an active and initialized query shows all its matches under the
\* handles of the mirrors that they have, but those that got theirs in this run.
ShowsMatches ==
    pc = "driveQuery" /\ pc' = "accumulate" =>
        \A q \in active \cap initialized : shown'[q] \in {shown[q], Matching(q)}

QueriesShowMatches == [][ShowsMatches]_vars

\* What a component is shown is what its query matched, however entities enter
\* and leave filters, mirrors go and come back and queries rest: the
\* reconciliation by numbers misses no entity, for any queries and entities.
THEOREM PublishedListsAreExact == Spec => QueriesShowMatches
<1>1. Init => ListInv /\ ListsAreExact
  BY DEF Init, ListInv, ListsAreExact, Mirrored
<1>2. TypeOK /\ ListInv /\ ListsAreExact /\ [Next]_vars => [ShowsMatches]_vars
  <2> SUFFICES ASSUME TypeOK, ListInv, ListsAreExact, Next, pc = "driveQuery", pc' = "accumulate",
                      NEW q \in active \cap initialized
               PROVE  shown'[q] \in {shown[q], Matching(q)}
    BY DEF ShowsMatches
  <2>1. PICK deferring \in SUBSET Queries : DriveQuerySignals(deferring)
    BY DEF Next, Hook, Mount, Count, Ask, Unmount, Mutate, BevyWrite, Toggle, Frame, StartFrame,
         RunSchedules, EndFrame, SyncMirrorToComponent, DriveComponentSignals, SyncComponentToMirror,
         DeleteUnusedMirrors, RemoveMirrors, ApplyTrackingQueriesDelta, SyncQueryMirrorsToSignals
  <2>2. shown'[q] \in {shown[q], listed[q]}
    BY <2>1 DEF DriveQuerySignals, ListInv
  <2> QED BY <2>2 DEF ListsAreExact
<1> QED BY <1>1, <1>2, TypeInit, TypeStep, CountStep, ListStep, ExactStep, PTL DEF Spec, QueriesShowMatches
=============================================================================
