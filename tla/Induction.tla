------------------------------ MODULE Induction ------------------------------
(***************************************************************************)
(* Induction on numbers, stated of sets and functions rather than of       *)
(* operators, so that the provers can instantiate it: from the least       *)
(* element of a set of numbers (WFMin).                                    *)
(***************************************************************************)
EXTENDS Integers, WellFoundedInduction, TLAPS

(* A set of numbers that is not empty has a least one.                     *)
LEMMA LeastNumber ==
  ASSUME NEW S \in SUBSET Nat, S # {}
  PROVE  \E least \in S : \A n \in S : least <= n
<1> DEFINE R == OpToRel(<, Nat)
<1>1. IsWellFoundedOn(R, Nat)
  BY NatLessThanWellFounded
<1>2. PICK x \in S : \A y \in S : ~(<<y, x>> \in R)
  <2> HIDE DEF R
  <2> QED BY <1>1, WFMin
<1>3. \A n \in S : x <= n
  <2> SUFFICES ASSUME NEW n \in S, n < x PROVE FALSE
    OBVIOUS
  <2>1. <<n, x>> \in R
    BY DEF OpToRel
  <2> QED BY <1>2, <2>1
<1> QED BY <1>3

(* A set with 0 and, up to n, each successor of a member has all numbers   *)
(* up to n.                                                                *)
LEMMA IntervalInduction ==
  ASSUME NEW n \in Nat, NEW S, 0 \in S,
         \A k \in 0..(n - 1) : k \in S => k + 1 \in S
  PROVE  0..n \subseteq S
<1> DEFINE T == {k \in 0..n : k \notin S}
<1> SUFFICES ASSUME T # {} PROVE FALSE
  OBVIOUS
<1>1. T \in SUBSET Nat
  OBVIOUS
<1>2. PICK m \in T : \A k \in T : m <= k
  <2> HIDE DEF T
  <2> QED BY <1>1, LeastNumber
<1>3. m # 0 /\ m - 1 \in 0..(n - 1) /\ m - 1 \notin T
  BY <1>2
<1>4. m - 1 \in S
  BY <1>3
<1> QED BY <1>2, <1>3, <1>4

(* f begins with `first`, and each value follows from the one before.      *)
IsRecursion(f, n, first, next) ==
  f[0] = first /\ \A k \in 1..n : f[k] = next[k][f[k - 1]]

(* A value for 0 and a function that gives the value of a number from the  *)
(* one before define a function on 0..n.                                   *)
LEMMA RecursionExists ==
  ASSUME NEW n \in Nat, NEW D, NEW first \in D, NEW next \in [1..n -> [D -> D]]
  PROVE  \E f \in [0..n -> D] : IsRecursion(f, n, first, next)
<1> DEFINE S == {m \in 0..n : \E f \in [0..m -> D] : IsRecursion(f, m, first, next)}
<1>1. 0 \in S
  <2> DEFINE g == [k \in 0..0 |-> first]
  <2>1. g \in [0..0 -> D] /\ g[0] = first
    OBVIOUS
  <2>2. \A k \in 1..0 : g[k] = next[k][g[k - 1]]
    <3>1. 1..0 = {}
      OBVIOUS
    <3> QED BY <3>1, Zenon
  <2> HIDE DEF g
  <2>3. \E f \in [0..0 -> D] : IsRecursion(f, 0, first, next)
    BY <2>1, <2>2 DEF IsRecursion
  <2> QED BY <2>3
<1>2. ASSUME NEW m \in 0..(n - 1), m \in S
      PROVE  m + 1 \in S
  <2>1. PICK f \in [0..m -> D] : IsRecursion(f, m, first, next)
    BY <1>2
  <2> HIDE DEF S
  <2> DEFINE g == [k \in 0..(m + 1) |-> IF k = m + 1 THEN next[m + 1][f[m]] ELSE f[k]]
  <2>2. next[m + 1][f[m]] \in D
    BY m \in 0..m, m + 1 \in 1..n
  <2>3. \A k \in 0..m : k \in 0..(m + 1) /\ k # m + 1 /\ f[k] \in D
    OBVIOUS
  <2>4. m + 1 \in 0..(m + 1) /\ \A k \in 0..(m + 1) : k = m + 1 \/ k \in 0..m
    OBVIOUS
  <2>5. g[m + 1] = next[m + 1][f[m]] /\ \A k \in 0..m : g[k] = f[k]
    BY <2>3, <2>4, Zenon
  <2>6. g \in [0..(m + 1) -> D]
    BY <2>2, <2>3, <2>4, Zenon
  <2> HIDE DEF g
  <2>7. g[0] = first
    <3>1. 0 \in 0..m
      OBVIOUS
    <3> QED BY <3>1, <2>1, <2>5, Zenon DEF IsRecursion
  <2>8. ASSUME NEW k \in 1..(m + 1)
        PROVE  g[k] = next[k][g[k - 1]]
    <3>1. CASE k = m + 1
      <4>1. k - 1 = m /\ m \in 0..m
        BY <3>1
      <4> QED BY <3>1, <4>1, <2>5, Zenon
    <3>2. CASE k \in 1..m
      <4>1. k \in 0..m /\ k - 1 \in 0..m
        BY <3>2
      <4> QED BY <3>2, <4>1, <2>1, <2>5, Zenon DEF IsRecursion
    <3>3. k = m + 1 \/ k \in 1..m
      OBVIOUS
    <3> QED BY <3>1, <3>2, <3>3, Zenon
  <2>9. IsRecursion(g, m + 1, first, next)
    BY <2>7, <2>8, Zenon DEF IsRecursion
  <2>10. m + 1 \in 0..n
    OBVIOUS
  <2> QED BY <2>6, <2>9, <2>10 DEF S
<1>3. 0..n \subseteq S
  <2> HIDE DEF S
  <2> QED BY <1>1, <1>2, IntervalInduction
<1> QED BY <1>3, n \in 0..n
=============================================================================
