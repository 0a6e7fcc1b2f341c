--------------------------- MODULE MCQueuedSignal ---------------------------
(* Instances of QueuedSignal for TLC: who reads, and how much is sent.     *)
EXTENDS QueuedSignal, TLC

CONSTANTS NSetValue, NMutateSet, NMutate, NAbsolute, NAppend

MCMaxSent ==
    [k \in Kind |->
        CASE k = "set_value"  -> NSetValue
          [] k = "mutate_set" -> NMutateSet
          [] k = "mutate"     -> NMutate
          [] k = "absolute"   -> NAbsolute
          [] k = "append"     -> NAppend]

\* Allocations, and readers of one kind, are interchangeable.
Symmetry == Permutations(Cells) \cup Permutations(Subscribers) \cup Permutations(Users)
=============================================================================
