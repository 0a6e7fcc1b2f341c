---------------------------- MODULE MCSignalHub -----------------------------
(***************************************************************************)
(* Instances of SignalHub: hooks h1 and h2 ask for type "a", h3 for "b".   *)
(***************************************************************************)
EXTENDS SignalHub

CONSTANTS h1, h2, h3

MCTypeOf == [h \in Hooks |-> IF h = h3 THEN "b" ELSE "a"]
=============================================================================
