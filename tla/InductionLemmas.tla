---------------------------- MODULE InductionLemmas ----------------------------
(***************************************************************************)
(* Induction and recursion on natural numbers, for properties given as     *)
(* sets and steps given as functions.  What the specifications define by a *)
(* recursive function is a CHOOSE of a function that satisfies an          *)
(* equation: RecursionUpTo says that there is one, and InductionUpTo       *)
(* proves what its values have in common.                                  *)
(***************************************************************************)
EXTENDS Integers, WellFoundedInduction, TLAPS

(* Every non-empty set of naturals has a least element.                    *)
LEMMA LeastNatural ==
  ASSUME NEW P \in SUBSET Nat, P # {}
  PROVE  \E n \in P : \A m \in P : n =< m
<1>1. \A m, n \in Nat : m < n => <<m, n>> \in OpToRel(<, Nat)
  BY DEF OpToRel
<1>2. \E R : /\ IsWellFoundedOn(R, Nat)
             /\ \A m, n \in Nat : m < n => <<m, n>> \in R
  BY <1>1, NatLessThanWellFounded, Zenon
<1>3. PICK R : /\ IsWellFoundedOn(R, Nat)
               /\ \A m, n \in Nat : m < n => <<m, n>> \in R
  BY <1>2
<1>4. IsWellFoundedOn(R, Nat) /\ P \subseteq Nat /\ P # {}
  BY <1>3
<1>5. PICK n \in P : \A m \in P : ~(<<m, n>> \in R)
  BY <1>4, WFMin, Zenon
<1>6. \A m \in P : ~(m < n)
  BY <1>3, <1>5, Zenon
<1> QED
  BY <1>6

(* Every bounded, non-empty set of naturals has a greatest element.        *)
LEMMA GreatestNatural ==
  ASSUME NEW N \in Nat, NEW P \in SUBSET (0 .. N), P # {}
  PROVE  \E n \in P : \A m \in P : m =< n
<1> DEFINE Q == {N - m : m \in P}
<1>1. PICK q \in Q : \A m \in Q : q =< m
  BY LeastNatural, Q \in SUBSET Nat, Q # {}
<1>2. PICK n \in P : q = N - n
  BY <1>1
<1>3. \A m \in P : N - n =< N - m
  BY <1>1, <1>2
<1> QED
  BY <1>2, <1>3

(* Induction up to a bound.                                                *)
LEMMA InductionUpTo ==
  ASSUME NEW N \in Nat, NEW S, 0 \in S, \A i \in 1 .. N : i - 1 \in S => i \in S
  PROVE  0 .. N \subseteq S
<1> SUFFICES ASSUME ~ (0 .. N \subseteq S) PROVE FALSE
  OBVIOUS
<1> DEFINE bad == {i \in 0 .. N : i \notin S}
<1>1. PICK n \in bad : \A m \in bad : n =< m
  BY LeastNatural, bad \in SUBSET Nat, bad # {}
<1>2. n \in 1 .. N /\ n - 1 \in 0 .. N /\ ~ (n =< n - 1)
  BY <1>1
<1>3. n - 1 \in S
  BY <1>1, <1>2
<1> QED
  BY <1>1, <1>2, <1>3

(* Step[i] makes the i-th value of the one before, f is what becomes of x. *)
IsStep(Step, N, V) == Step \in [1 .. N -> [V -> V]]
IsRecursive(f, N, V, x, Step) ==
  /\ f \in [0 .. N -> V]
  /\ f[0] = x
  /\ \A i \in 1 .. N : f[i] = Step[i][f[i - 1]]

(* Recursion up to a bound.                                                *)
LEMMA RecursionUpTo ==
  ASSUME NEW N \in Nat, NEW V, NEW x \in V, NEW Step, IsStep(Step, N, V)
  PROVE  \E f : IsRecursive(f, N, V, x, Step)
<1>0. Step \in [1 .. N -> [V -> V]]
  BY DEF IsStep
<1> DEFINE Upto(n, f) == /\ f[0] = x
                         /\ \A i \in 1 .. n : f[i] = Step[i][f[i - 1]]
           S == {n \in 0 .. N : \E f \in [0 .. n -> V] : Upto(n, f)}
<1>1. 0 \in S
  <2> DEFINE g == [i \in 0 .. 0 |-> x]
  <2>1. g \in [0 .. 0 -> V] /\ g[0] = x
    OBVIOUS
  <2>2. \A i \in 1 .. 0 : g[i] = Step[i][g[i - 1]]
    OBVIOUS
  <2> HIDE DEF g
  <2>3. 0 \in 0 .. N /\ \E f \in [0 .. 0 -> V] : Upto(0, f)
    BY <2>1, <2>2
  <2> QED
    BY <2>3
<1>2. ASSUME NEW n \in 1 .. N, n - 1 \in S PROVE n \in S
  <2>1. PICK f \in [0 .. n - 1 -> V] : Upto(n - 1, f)
    BY <1>2
  <2> DEFINE y == Step[n][f[n - 1]]
             g == [i \in 0 .. n |-> IF i = n THEN y ELSE f[i]]
  <2>2. y \in V
    <3>1. f[n - 1] \in V
      BY <2>1
    <3> QED
      BY <1>0, <3>1
  <2> HIDE DEF y
  <2>3. g \in [0 .. n -> V]
    <3>1. \A i \in 0 .. n : i # n => i \in 0 .. n - 1
      OBVIOUS
    <3> QED
      BY <2>1, <2>2, <3>1
  <2>4. \A i \in 0 .. n - 1 : g[i] = f[i] /\ 0 \in 0 .. n - 1
    OBVIOUS
  <2>5. g[n] = Step[n][g[n - 1]]
    <3>1. g[n] = y /\ g[n - 1] = f[n - 1]
      OBVIOUS
    <3> QED
      BY <3>1 DEF y
  <2> HIDE DEF g
  <2>6. \A i \in 1 .. n - 1 : i \in 0 .. n - 1 /\ i - 1 \in 0 .. n - 1
    OBVIOUS
  <2>7. \A i \in 1 .. n - 1 : g[i] = Step[i][g[i - 1]]
    BY <2>1, <2>4, <2>6
  <2>8. g[0] = x /\ \A i \in 1 .. n : i = n \/ i \in 1 .. n - 1
    BY <2>1, <2>4, n - 1 \in 0 .. N
  <2>9. Upto(n, g)
    BY <2>5, <2>7, <2>8
  <2> HIDE DEF Upto
  <2>10. n \in 0 .. N /\ \E h \in [0 .. n -> V] : Upto(n, h)
    BY <2>3, <2>9
  <2> QED
    BY <2>10
<1> HIDE DEF S
<1>3. 0 .. N \subseteq S
  BY <1>1, <1>2, InductionUpTo
<1> QED
  BY <1>3, N \in 0 .. N DEF S, IsRecursive
=============================================================================
