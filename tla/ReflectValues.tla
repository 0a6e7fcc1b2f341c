---------------------------- MODULE ReflectValues ----------------------------
(***************************************************************************)
(* What a user interface edits through a dynamic mirror: reflect/path.rs,   *)
(* which finds and writes the primitive leaves of a reflected value, the    *)
(* name resolution of reflect/mod.rs, and the walk with which the example   *)
(* bevy_reflection_tests lists and edits the leaves.                        *)
(*                                                                         *)
(* A reflected value is a struct, a leaf, or neither of the two, None being *)
(* no value at all.  A primitive value has its kind and the text that it is *)
(* shown as.  A text is a numeral, with or without a plus sign, or a word.  *)
(* Of the numerals, the boundaries of the integer kinds and their           *)
(* neighbours matter: a numeral is its rank in this order.                  *)
(*                                                                         *)
(*   0   -2^63-1     7   -2^7       14  2^15-1      21  2^32                 *)
(*   1   -2^63       8   -1         15  2^15        22  2^63-1               *)
(*   2   -2^31-1     9   0          16  2^16-1      23  2^63                 *)
(*   3   -2^31       10  2^7-1      17  2^16        24  2^64-1               *)
(*   4   -2^15-1     11  2^7        18  2^31-1      25  2^64                 *)
(*   5   -2^15       12  2^8-1      19  2^31                                 *)
(*   6   -2^7-1      13  2^8        20  2^32-1                               *)
(***************************************************************************)
EXTENDS Naturals, Sequences, FiniteSets, SequencesExt

Numerals == 0..25

Zero == 9

\* The smallest and the largest value of each integer kind.
Low == [I8 |-> 7, I16 |-> 5, I32 |-> 3, I64 |-> 1, U8 |-> Zero, U16 |-> Zero,
        U32 |-> Zero, U64 |-> Zero]

High == [I8 |-> 10, I16 |-> 14, I32 |-> 18, I64 |-> 22, U8 |-> 12, U16 |-> 16,
         U32 |-> 20, U64 |-> 24]

Integer == DOMAIN Low

Float == {"F32", "F64"}

PrimitiveKind == Integer \cup Float \cup {"Bool", "String"}

Numeral(n, plus) == [sort |-> "numeral", rank |-> n, plus |-> plus, word |-> ""]
Word(w)          == [sort |-> "word", rank |-> 0, plus |-> FALSE, word |-> w]

\* "rounded" stands for the digits of a float that is not a small integer.
Text == {Numeral(n, FALSE) : n \in Numerals} \cup {Numeral(n, TRUE) : n \in Zero..25}
          \cup {Word(w) : w \in {"true", "false", "NaN", "rounded", "else"}}

Leaf(kind, text) == [is |-> "leaf", kind |-> kind, text |-> text]

Struct(names, field) == [is |-> "struct", names |-> names, field |-> field]

Neither == [is |-> "neither"]

None == [is |-> "none"]

----------------------------------------------------------------------------
(* Primitives                                                              *)

InRange(n, kind) == n \in Low[kind]..High[kind]

\* Floats show small integers exactly, and round large ones.
SmallInteger(n) == n \in 4..17

\* PrimitiveValue::parse: the value of that kind that the text stands for.
Parse(text, kind) ==
    CASE kind = "String" -> Leaf(kind, text)
      [] kind = "Bool" /\ text.word \in {"true", "false"} -> Leaf(kind, text)
      [] kind \in Integer /\ text.sort = "numeral" /\ InRange(text.rank, kind)
           -> Leaf(kind, Numeral(text.rank, FALSE))
      [] kind \in Float /\ text.sort = "numeral" /\ SmallInteger(text.rank)
           -> Leaf(kind, Numeral(text.rank, FALSE))
      [] kind \in Float /\ text.sort = "numeral" /\ ~SmallInteger(text.rank)
           -> Leaf(kind, Word("rounded"))
      [] kind \in Float /\ text.word \in {"NaN", "rounded"} -> Leaf(kind, text)
      [] OTHER -> None

\* to_string_repr
Repr(primitive) == primitive.text

\* reflect_to_primitive: downcasts to the one kind that the value is of, if any.
ReflectToPrimitive(value) == IF value.is = "leaf" THEN value ELSE None

\* write_primitive assigns "when the types match".
Writable(target, primitive) == target.is = "leaf" /\ target.kind = primitive.kind

----------------------------------------------------------------------------
(* Paths: sequences of the names of struct fields.                         *)

\* One segment: only structs have fields.
FieldAt(value, name) ==
    IF value.is = "struct" /\ \E i \in DOMAIN value.names : value.names[i] = name
    THEN value.field[name] ELSE None

\* The values that read_at_path goes through, one per segment.
Reached(value, path) ==
    LET at[n \in 0..Len(path)] == IF n = 0 THEN value ELSE FieldAt(at[n - 1], path[n])
    IN  at

\* read_at_path
ReadAtPath(value, path) == Reached(value, path)[Len(path)]

\* What write_at_path makes of them, from the leaf upwards.
Rewritten(root, path, primitive) ==
    LET old(n) == Reached(root, path)[Len(path) - n]
        new[n \in 0..Len(path)] ==
            IF n = 0 THEN primitive
            ELSE [old(n) EXCEPT !.field = [@ EXCEPT ![path[Len(path) - n + 1]] = new[n - 1]]]
    IN  new

\* write_at_path: whether it wrote, and the root afterwards.
WriteAtPath(root, path, primitive) ==
    IF path # <<>> /\ Writable(ReadAtPath(root, path), primitive)
    THEN [ok |-> TRUE, root |-> Rewritten(root, path, primitive)[Len(path)]]
    ELSE [ok |-> FALSE, root |-> root]

----------------------------------------------------------------------------
(* The walk of collect_leaves                                              *)

Children(item) ==
    IF item.value.is = "struct"
    THEN [i \in DOMAIN item.value.names |->
            [path  |-> Append(item.path, item.value.names[i]),
             value |-> item.value.field[item.value.names[i]]]]
    ELSE <<>>

\* "children.reverse()", so that the first is popped first.
Pushed(item) == Reverse(Children(item))

\* One turn of the loop: the top is a leaf, or its children are pushed.
Popped(walk) ==
    LET item == Last(walk.stack)
        rest == Front(walk.stack)
    IN  IF ReflectToPrimitive(item.value) # None
        THEN [stack |-> rest, leaves |-> Append(walk.leaves, item)]
        ELSE [stack |-> rest \o Pushed(item), leaves |-> walk.leaves]

\* collect_leaves: the turns of its loop, while the stack is not empty.
Turns(root, turns) ==
    LET walk[n \in 0..turns] ==
            IF n = 0
            THEN [stack |-> << [path |-> <<>>, value |-> root] >>, leaves |-> <<>>]
            ELSE IF walk[n - 1].stack = <<>> THEN walk[n - 1] ELSE Popped(walk[n - 1])
    IN  walk

\* It ends when it has visited all nodes.
CollectLeaves(root, turns) == Turns(root, turns)[turns].leaves

\* render_leaf's onchange: a text that parses is written.
Edited(root, path, kind, text) ==
    IF Parse(text, kind) = None THEN root
    ELSE WriteAtPath(root, path, Parse(text, kind)).root

----------------------------------------------------------------------------
(* Names.  A registration has a full path, a short path and type data.     *)

\* enumerate_reflect_types: a type that is both a resource and a component is
\* one info, which equality by type id makes of the two.
EnumerateReflectTypes(registry) ==
    {t \in DOMAIN registry : {"ReflectResource", "ReflectComponent"} \cap registry[t].data # {}}

NotFound == "NotFound"
Ambiguous == "Ambiguous"

\* Mutant: short names first.
ShortFirst(registry, infos, name) ==
    LET short == {t \in infos : registry[t].short = name}
    IN  IF Cardinality(short) = 1 THEN short ELSE {t \in infos : registry[t].full = name}

\* The types that a name selects: by full path, else by short path.
Matches(registry, infos, name) ==
    LET full == {t \in infos : registry[t].full = name}
    IN  IF full # {} THEN full ELSE {t \in infos : registry[t].short = name}

\* resolve_name: the set of the one type, or why there is none.
ResolveName(registry, name) ==
    LET matches == Matches(registry, EnumerateReflectTypes(registry), name)
    IN  CASE Cardinality(matches) = 1 -> [ok |-> TRUE, type |-> matches, error |-> ""]
          [] matches = {}             -> [ok |-> FALSE, type |-> {}, error |-> NotFound]
          [] OTHER                    -> [ok |-> FALSE, type |-> {}, error |-> Ambiguous]

----------------------------------------------------------------------------
(* What a user interface relies on.                                        *)

\* A set of reflected values: structs with the fields that they name, once each,
\* which are in the set again, primitives that are what their text parses as, and
\* others.
Values(V, Names) ==
    \A v \in V :
      \/ v = Neither
      \/ /\ v.is = "leaf"
         /\ v = Leaf(v.kind, v.text) /\ v.kind \in PrimitiveKind /\ v.text \in Text
         /\ Parse(v.text, v.kind) = v
      \/ /\ v.is = "struct"
         /\ v = Struct(v.names, v.field) /\ v.names \in Seq(Names)
         /\ \A i, j \in DOMAIN v.names : v.names[i] = v.names[j] => i = j
         /\ v.field \in [DOMAIN v.field -> V]
         /\ \A i \in DOMAIN v.names : v.names[i] \in DOMAIN v.field

\* The paths of the primitive leaves of root.
Declared(root, paths) == {path \in paths : ReadAtPath(root, path).is = "leaf"}

\* Which of two paths comes first in the declarations of root: where they part.
Before(root, p, q) ==
    \E i \in DOMAIN p \cap DOMAIN q :
        /\ \A k \in 1..(i - 1) : p[k] = q[k]
        /\ LET names == Reached(root, p)[i - 1].names
           IN  \E a, b \in DOMAIN names : a < b /\ names[a] = p[i] /\ names[b] = q[i]

\* The walk lists every primitive leaf once, in the order of declaration.
WalkIsComplete(root, paths, turns) ==
    LET leaves == CollectLeaves(root, turns)
    IN  /\ {leaves[i].path : i \in DOMAIN leaves} = Declared(root, paths)
        /\ \A i \in DOMAIN leaves : leaves[i].value = ReadAtPath(root, leaves[i].path)
        /\ \A i, j \in DOMAIN leaves : i < j =>
              /\ Before(root, leaves[i].path, leaves[j].path)
              /\ leaves[i].path # leaves[j].path

\* What was parsed reads the same when it is shown and parsed again.
ParseIsStable(text, kind) ==
    LET value == Parse(text, kind)
    IN  value # None => Parse(Repr(value), kind) = value

\* Nothing is written at a path without a leaf, or from a value of another kind.
WriteIsTyped(root, path, primitive) ==
    LET leaf == ReadAtPath(root, path)
        new  == WriteAtPath(root, path, primitive)
    IN  IF path # <<>> /\ leaf.is = "leaf" /\ leaf.kind = primitive.kind
        THEN new.ok /\ ReadAtPath(new.root, path) = primitive
        ELSE ~new.ok /\ new.root = root

\* A text that is typed into a leaf is refused, or the leaf shows a value of its
\* kind that reads the same when it is typed again; other leaves stay.
EditIsExact(root, paths, path, text) ==
    LET leaf == ReadAtPath(root, path)
        new  == Edited(root, path, leaf.kind, text)
        now  == ReadAtPath(new, path)
    IN  /\ Declared(new, paths) = Declared(root, paths)
        /\ \A p \in Declared(root, paths) \ {path} : ReadAtPath(new, p) = ReadAtPath(root, p)
        /\ now.kind = leaf.kind /\ Parse(Repr(now), now.kind) = now
        /\ Edited(new, path, leaf.kind, Repr(now)) = new
        /\ Edited(root, path, leaf.kind, Repr(leaf)) = root

\* A full path finds its type, even if it is another's short path; a short path
\* finds the only type that has it; no type is found by another name.
NameIsExact(registry, name) ==
    LET infos == EnumerateReflectTypes(registry)
        full  == {t \in infos : registry[t].full = name}
        short == {t \in infos : registry[t].short = name}
        found == ResolveName(registry, name)
    IN  IF full # {} THEN found.type = full
        ELSE IF Cardinality(short) = 1 THEN found.type = short
        ELSE ~found.ok /\ (found.error = Ambiguous) = (short # {})
=============================================================================
