--------------------------- MODULE MCReflectMirror ---------------------------
(* Instances of ReflectMirror for TLC, and ReflectValues over small values. *)
EXTENDS ReflectMirror, ReflectValues

CONSTANTS h1, h2, p1, p2

MCScenarios ==
    LET Resource == [kind |-> "resource", hooks |-> {h1}, places |-> {p1}, spawn |-> 0,
                     bevy |-> 1, mutate |-> 1, set |-> 0, typed |-> "after",
                     driveFirst |-> FALSE, defer |-> FALSE]
    IN  {\* two hooks, elevation, changes of both sides
         [Resource EXCEPT !.hooks = {h1, h2}],
         \* with deferred publishes, either mirror first
         [Resource EXCEPT !.bevy = 2, !.mutate = 2, !.defer = TRUE, !.typed = "any",
                          !.spawn = 1],
         \* two changes of either side, without deferral
         [Resource EXCEPT !.bevy = 2, !.mutate = 2],
         \* with replacements
         [Resource EXCEPT !.set = 2],
         \* with ticks before reads
         [Resource EXCEPT !.driveFirst = TRUE],
         \* a query
         [Resource EXCEPT !.kind = "query", !.places = {p1, p2}, !.spawn = 1, !.mutate = 0,
                          !.typed = "any"]}

\* A query, which nothing elevates.
MCQuery ==
    {[kind |-> "query", hooks |-> {h1}, places |-> {p1}, spawn |-> 1, bevy |-> 1, mutate |-> 0,
      set |-> 0, typed |-> "never", driveFirst |-> FALSE, defer |-> FALSE]}

----------------------------------------------------------------------------
(* Values of at most seven nodes, with leaves of three kinds.               *)

Leaves == {Leaf("U8", Numeral(10, FALSE)), Leaf("Bool", Word("true")),
           Leaf("String", Numeral(10, TRUE)), Neither}

Structs(fields) ==
    {Struct(names, field) : names \in {<<>>, <<"a">>}, field \in [{"a"} -> fields]}
      \cup {Struct(<<"b", "a">>, field) : field \in [{"a", "b"} -> fields]}

Pairs == {Struct(<<"a", "b">>, [a |-> l, b |-> k]) : l, k \in Leaves}

Roots == Leaves \cup Structs(Leaves \cup Pairs)

\* They are such as the theorems about values speak of.
ASSUME MCValues == Values(Roots \cup Pairs, {"a", "b"})

Paths == UNION {[1..n -> {"a", "b"}] : n \in 0..3}

Registries ==
    [{1, 2} -> [full : {"m::A", "A", "B"}, short : {"A", "B"},
                data : SUBSET {"ReflectResource", "ReflectComponent"}]]

Exact ==
    /\ \A kind \in PrimitiveKind, text \in Text : ParseIsStable(text, kind)
    /\ \A root \in Roots :
          /\ WalkIsComplete(root, Paths, 7)
          /\ \A path \in Paths, primitive \in Leaves \ {Neither} : WriteIsTyped(root, path, primitive)
          /\ \A path \in Declared(root, Paths) \ {<<>>}, text \in Text :
                EditIsExact(root, Paths, path, text)
    /\ \A registry \in Registries :
          registry[1].full # registry[2].full
            => \A name \in {"m::A", "A", "B"} : NameIsExact(registry, name)

\* What a user interface does to the value that a hook shows, and to get there:
\* walks, edits and names are exact, for every small value, path, text and registry.
InspectorIsExact == (\E h \in Hooks : hook[h] = "bound") => Exact
=============================================================================
