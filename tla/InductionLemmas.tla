-------------------------- MODULE InductionLemmas ---------------------------
(***************************************************************************)
(* Induction over the naturals and the least number of a set, stated about *)
(* sets instead of predicates.  The library states them with an operator   *)
(* as parameter; here the property to prove is the set of the numbers that *)
(* have it, so that the provers can instantiate the lemmas.  They follow   *)
(* from the well-foundedness of the strict inclusion of finite sets.       *)
(***************************************************************************)
EXTENDS Integers, FiniteSets, FiniteSetTheorems, TLAPS

(* Every nonempty set of naturals has a least element. *)
LEMMA LeastNatural ==
  ASSUME NEW S \in SUBSET Nat, S # {}
  PROVE  \E m \in S : \A n \in S : m <= n
<1> DEFINE R == StrictSubsetOrdering(Nat)
           F == FiniteSubsetsOf(Nat)
           T == {0..n : n \in S}
<1>1. IsWellFoundedOn(R, F)
  BY FS_StrictSubsetOrderingWellFounded
<1>2. \A n \in Nat : 0..n \in F
  BY FS_Interval DEF FiniteSubsetsOf
<1>3. T \subseteq F
  BY <1>2
<1>4. T # {}
  OBVIOUS
<1>5. PICK X \in T : \A Y \in T : ~(<<Y, X>> \in R)
  <2> HIDE DEF R, F, T
  <2> QED
    BY <1>1, <1>3, <1>4, WFMin
<1>6. PICK m \in S : X = 0..m
  OBVIOUS
<1>7. ASSUME NEW n \in S, ~(m <= n) PROVE FALSE
  <2>1. n \in Nat /\ m \in Nat /\ n < m
    BY <1>7
  <2>2. (0..n) \subseteq (0..m) /\ 0..n # 0..m
    <3>1. m \in 0..m /\ m \notin 0..n
      BY <2>1
    <3> QED
      BY <2>1, <3>1
  <2>3. <<0..n, 0..m>> \in R
    BY <2>1, <2>2 DEF StrictSubsetOrdering
  <2> QED
    BY <2>3, <1>5, <1>6
<1> QED
  BY <1>6, <1>7

(* A set that holds 0 and the successor of each natural it holds, holds     *)
(* every natural.                                                           *)
LEMMA NatSetInduction ==
  ASSUME NEW S, 0 \in S, \A n \in Nat : n \in S => n + 1 \in S
  PROVE  Nat \subseteq S
<1> SUFFICES ASSUME ~(Nat \subseteq S) PROVE FALSE
  OBVIOUS
<1> DEFINE T == Nat \ S
<1>1. PICK m \in T : \A n \in T : m <= n
  BY LeastNatural
<1>2. m # 0 /\ m - 1 \in Nat
  OBVIOUS
<1>3. m - 1 \in S
  BY <1>1, <1>2
<1> QED
  BY <1>2, <1>3

(* What holds at 0 and is handed from each number to the next up to n holds *)
(* of every number up to n.                                                 *)
LEMMA BoundedInduction ==
  ASSUME NEW n \in Nat, NEW S, 0 \in S, \A k \in 1..n : k - 1 \in S => k \in S
  PROVE  \A k \in 0..n : k \in S
<1> DEFINE A == {k \in Nat : k <= n => k \in S}
<1>1. 0 \in A
  OBVIOUS
<1>2. ASSUME NEW k \in Nat, k \in A PROVE k + 1 \in A
  <2> SUFFICES ASSUME k + 1 <= n PROVE k + 1 \in S
    OBVIOUS
  <2>1. k + 1 \in 1..n /\ (k + 1) - 1 = k /\ k \in S
    BY <1>2
  <2> QED
    BY <2>1
<1>3. Nat \subseteq A
  <2> HIDE DEF A
  <2> QED
    BY <1>1, <1>2, NatSetInduction
<1> QED
  BY <1>3

(* n steps in P, and the values they lead to from t. *)
Steps(n, P) == [1..n -> [P -> P]]

Iterates(f, n, P, t, step) ==
  f \in [0..n -> P] /\ f[0] = t /\ \A k \in 1..n : f[k] = step[k][f[k - 1]]

(* Steps that lead from P into P can be taken one after the other. *)
LEMMA RecursionDefined ==
  ASSUME NEW n \in Nat, NEW P, NEW t \in P, NEW step \in Steps(n, P)
  PROVE  \E f : Iterates(f, n, P, t, step)
<1> USE DEF Steps, Iterates
<1> DEFINE Run(m, f) == f \in [0..m -> P] /\ f[0] = t /\ \A k \in 1..m : f[k] = step[k][f[k - 1]]
           S == {m \in 0..n : \E f : Run(m, f)}
<1>1. 0 \in S
  <2> DEFINE g == [k \in 0..0 |-> t]
  <2>1. g \in [0..0 -> P] /\ g[0] = t /\ 1..0 = {}
    OBVIOUS
  <2> HIDE DEF g
  <2>2. Run(0, g)
    BY <2>1
  <2> QED
    BY <2>2
<1>2. ASSUME NEW m \in 1..n, m - 1 \in S PROVE m \in S
  <2>1. PICK f : Run(m - 1, f)
    BY <1>2
  <2> DEFINE g == [k \in 0..m |-> IF k = m THEN step[m][f[m - 1]] ELSE f[k]]
  <2>2. f[m - 1] \in P /\ step[m][f[m - 1]] \in P
    BY <2>1
  <2>3. g \in [0..m -> P] /\ g[0] = t /\ g[m] = step[m][f[m - 1]] /\ \A k \in 0..m - 1 : g[k] = f[k]
    BY <2>1, <2>2
  <2> HIDE DEF g
  <2>4. ASSUME NEW k \in 1..m PROVE g[k] = step[k][g[k - 1]]
    <3>1. CASE k = m
      BY <2>3, <3>1
    <3>2. CASE k # m
      <4>1. k \in 1..m - 1 /\ k - 1 \in 0..m - 1 /\ k \in 0..m - 1
        BY <3>2
      <4> QED
        BY <4>1, <2>1, <2>3
    <3> QED
      BY <3>1, <3>2
  <2>5. Run(m, g)
    BY <2>3, <2>4
  <2> QED
    BY <2>5
<1>3. n \in S
  <2>1. n \in 0..n
    OBVIOUS
  <2> HIDE DEF S
  <2> QED
    BY <1>1, <1>2, <2>1, BoundedInduction
<1> QED
  BY <1>3

(* Every nonempty finite set of naturals has a greatest element. *)
LEMMA GreatestNatural ==
  ASSUME NEW S \in SUBSET Nat, IsFiniteSet(S), S # {}
  PROVE  \E m \in S : \A n \in S : n <= m
<1> DEFINE A == {k \in Nat : \A T \in SUBSET Nat : IsFiniteSet(T) /\ Cardinality(T) = k /\ T # {}
                                => \E m \in T : \A n \in T : n <= m}
<1>1. 0 \in A
  BY FS_EmptySet
<1>2. ASSUME NEW k \in Nat, k \in A PROVE k + 1 \in A
  <2> SUFFICES ASSUME NEW T \in SUBSET Nat, IsFiniteSet(T), Cardinality(T) = k + 1, T # {}
               PROVE  \E m \in T : \A n \in T : n <= m
    OBVIOUS
  <2> PICK x \in T : TRUE
    OBVIOUS
  <2> DEFINE U == T \ {x}
  <2>1. IsFiniteSet(U) /\ Cardinality(U) = k
    <3>1. IsFiniteSet(U) /\ Cardinality(U) = Cardinality(T) - 1
      BY FS_RemoveElement
    <3> QED
      BY <3>1
  <2>2. CASE U = {}
    BY <2>2
  <2>3. CASE U # {}
    <3>1. PICK m \in U : \A n \in U : n <= m
      BY <2>1, <2>3, <1>2
    <3>2. CASE m <= x
      BY <3>1, <3>2
    <3>3. CASE ~(m <= x)
      BY <3>1, <3>3
    <3> QED
      BY <3>2, <3>3
  <2> QED
    BY <2>2, <2>3
<1>3. Nat \subseteq A
  <2> HIDE DEF A
  <2> QED
    BY <1>1, <1>2, NatSetInduction
<1> QED
  BY <1>3, FS_CardinalityType

(* Among m + 1 different things one is not in a set of at most m. *)
LEMMA OneIsLeft ==
  ASSUME NEW m \in Nat, NEW S, IsFiniteSet(S), Cardinality(S) <= m, NEW h,
         \A i, j \in 1..m + 1 : h[i] = h[j] => i = j
  PROVE  \E n \in 1..m + 1 : h[n] \notin S
<1> SUFFICES ASSUME \A n \in 1..m + 1 : h[n] \in S PROVE FALSE
  OBVIOUS
<1> DEFINE f == [n \in 1..m + 1 |-> h[n]]
<1>1. f \in [1..m + 1 -> S]
  OBVIOUS
<1>2. IsFiniteSet(1..m + 1) /\ Cardinality(1..m + 1) = m + 1
  BY FS_Interval
<1>3. Cardinality(S) \in Nat /\ Cardinality(S) < Cardinality(1..m + 1)
  BY <1>2, FS_CardinalityType
<1>4. PICK x, y \in 1..m + 1 : x # y /\ f[x] = f[y]
  <2> HIDE DEF f
  <2> QED
    BY <1>1, <1>2, <1>3, FS_PigeonHole
<1> QED
  BY <1>4
=============================================================================
