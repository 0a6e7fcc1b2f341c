----------------------------- MODULE SetInduction -----------------------------
(***************************************************************************)
(* Induction as a fact about sets of natural numbers: what a recursive      *)
(* function computes is proved by collecting the arguments at which it is   *)
(* right.  It follows from the well-foundedness of < alone.                 *)
(***************************************************************************)
EXTENDS Naturals, FiniteSets, FiniteSetTheorems, WellFoundedInduction, TLAPS

\* A non-empty set of numbers has a least member.
LEMMA LeastMember ==
    ASSUME NEW T \in SUBSET Nat, T # {}
    PROVE  \E x \in T : \A y \in T : x <= y
<1> DEFINE R == OpToRel(<, Nat)
<1>1. IsWellFoundedOn(R, Nat)
  BY NatLessThanWellFounded
<1>2. \A x, y \in Nat : <<y, x>> \in R \/ x <= y
  BY DEF OpToRel
<1> HIDE DEF R
<1>3. PICK x \in T : \A y \in T : ~(<<y, x>> \in R)
  BY <1>1, WFMin
<1>4. ASSUME NEW y \in T PROVE x <= y
  <2>1. x \in Nat /\ y \in Nat /\ ~(<<y, x>> \in R)
    BY <1>3
  <2> QED BY <1>2, <2>1
<1> QED BY <1>4

\* A set that has the first number of an interval, and with each the next, has all.
LEMMA UpInduction ==
    ASSUME NEW m \in Nat, NEW S,
           0 \in S, \A n \in 0..(m - 1) : n \in S => n + 1 \in S
    PROVE  0..m \subseteq S
<1> DEFINE T == {n \in 0..m : n \notin S}
<1>1. CASE T = {}
  BY <1>1
<1>2. CASE T # {}
  <2>1. T \in SUBSET Nat
    OBVIOUS
  <2> HIDE DEF T
  <2>2. PICK x \in T : \A y \in T : x <= y
    BY <1>2, <2>1, LeastMember
  <2> USE DEF T
  <2>3. x # 0 /\ x - 1 \in 0..(m - 1) /\ x - 1 \notin T
    BY <2>2
  <2> QED BY <2>2, <2>3
<1> QED BY <1>1, <1>2

\* Likewise downwards.
LEMMA DownInduction ==
    ASSUME NEW m \in Nat, NEW S,
           m \in S, \A n \in 1..m : n \in S => n - 1 \in S
    PROVE  0..m \subseteq S
<1> DEFINE T == {n \in 0..m : m - n \in S}
<1>1. 0 \in T
  OBVIOUS
<1>2. \A n \in 0..(m - 1) : n \in T => n + 1 \in T
  <2> SUFFICES ASSUME NEW n \in 0..(m - 1), n \in T PROVE n + 1 \in T
    OBVIOUS
  <2>1. m - n \in 1..m /\ m - n \in S /\ m - (n + 1) = (m - n) - 1
    OBVIOUS
  <2> QED BY <2>1
<1> HIDE DEF T
<1>3. 0..m \subseteq T
  BY <1>1, <1>2, UpInduction
<1> USE DEF T
<1>4. \A n \in 0..m : m - n \in 0..m /\ m - (m - n) = n
  OBVIOUS
<1> QED BY <1>3, <1>4

\* A non-empty finite set of numbers has a greatest member.
LEMMA GreatestMember ==
    ASSUME NEW T \in SUBSET Nat, T # {}, NEW m \in Nat, \A x \in T : x <= m
    PROVE  \E x \in T : \A y \in T : y <= x
<1> DEFINE U == {k \in 0..m : m - k \in T}
<1>1. U \in SUBSET Nat /\ \A x \in T : m - x \in U
  <2>1. \A x \in T : m - x \in 0..m /\ m - (m - x) = x
    OBVIOUS
  <2> QED BY <2>1
<1>2. U # {}
  BY <1>1
<1> HIDE DEF U
<1>3. PICK u \in U : \A k \in U : u <= k
  BY <1>1, <1>2, LeastMember
<1>4. m - u \in T /\ u \in 0..m
  BY DEF U
<1>5. ASSUME NEW y \in T PROVE y <= m - u
  <2>1. u <= m - y /\ y \in Nat
    BY <1>1, <1>3
  <2> QED BY <1>4, <2>1
<1> QED BY <1>4, <1>5
=============================================================================
