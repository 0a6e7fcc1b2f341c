---------------------------- MODULE MCQueryMirror ----------------------------
(* Instances of QueryMirror for TLC: hook h1 uses query q1, h2 uses q2.     *)
EXTENDS QueryMirror

CONSTANTS h1, h2, q1, q2, e1

MCQueryOf == [h \in Hooks |-> IF h = h1 THEN q1 ELSE q2]
=============================================================================
