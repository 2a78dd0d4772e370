------------------------------ MODULE Induction ------------------------------
(***************************************************************************)
(* Induction over naturals in a form the provers can apply: the property   *)
(* proved is a set of numbers, not an operator.  It is what the proofs     *)
(* about recursive functions of the models rest on.                        *)
(***************************************************************************)
EXTENDS Integers, WellFoundedInduction, TLAPS

\* A non-empty set of naturals has a least element.
LEMMA LeastNatural ==
  ASSUME NEW T \in SUBSET Nat, T # {}
  PROVE  \E x \in T : \A y \in T : x <= y
  <1> DEFINE R == OpToRel(<, Nat)
  <1>1. IsWellFoundedOn(R, Nat)
    BY NatLessThanWellFounded
  <1>2. \A x, y \in Nat : y < x => <<y, x>> \in R
    BY DEF OpToRel
  <1> HIDE DEF R
  <1>3. PICK x \in T : \A y \in T : <<y, x>> \notin R
    BY <1>1, WFMin
  <1>4. ASSUME NEW y \in T PROVE x <= y
    <2>1. x \in Nat /\ y \in Nat /\ ~ (y < x)
      BY <1>2, <1>3
    <2>2. QED
      BY <2>1
  <1>5. QED
    BY <1>4

\* A set that contains 0, and i whenever it contains i - 1, contains 0 .. n.
LEMMA IntervalInduction ==
  ASSUME NEW n \in Nat, NEW S, 0 \in S, \A i \in 1 .. n : i - 1 \in S => i \in S
  PROVE  \A i \in 0 .. n : i \in S
  <1> DEFINE T == {i \in 0 .. n : i \notin S}
  <1>1. SUFFICES ASSUME T # {} PROVE FALSE
    OBVIOUS
  <1>2. PICK i \in T : \A j \in T : i <= j
    <2>1. T \in SUBSET Nat
      OBVIOUS
    <2> HIDE DEF T
    <2>2. QED
      BY <1>1, <2>1, LeastNatural
  <1>3. i \in 1 .. n /\ i - 1 \in 0 .. n
    BY <1>2
  <1>4. i - 1 \notin T
    BY <1>2, <1>3
  <1>5. QED
    BY <1>2, <1>3, <1>4

\* Two functions that start alike and step alike are the same up to n.
LEMMA SameRecursion ==
  ASSUME NEW n \in Nat, NEW f, NEW g, f[0] = g[0],
         \A i \in 1 .. n : f[i - 1] = g[i - 1] => f[i] = g[i]
  PROVE  \A i \in 0 .. n : f[i] = g[i]
  <1> DEFINE S == {i \in 0 .. n : f[i] = g[i]}
  <1>1. 0 \in S
    OBVIOUS
  <1>2. \A i \in 1 .. n : i - 1 \in S => i \in S
    OBVIOUS
  <1> HIDE DEF S
  <1>3. \A i \in 0 .. n : i \in S
    BY <1>1, <1>2, IntervalInduction
  <1>4. QED
    BY <1>3 DEF S
=============================================================================
