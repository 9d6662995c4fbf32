---------------------------- MODULE OrderProofs -----------------------------
(***************************************************************************)
(* Finite sets of naturals listed in increasing order, what ORDER BY makes *)
(* of a set of lines.  Induction is by a minimal counterexample, which the *)
(* library states of a set and not of an operator.                         *)
(***************************************************************************)
EXTENDS Integers, Sequences, FiniteSets, FiniteSetTheorems, WellFoundedInduction, TLAPS

(* s lists S in increasing order.                                          *)
Sorted(s, S) ==
  s \in [1 .. Cardinality(S) -> S] /\ \A i, j \in DOMAIN s : i < j => s[i] < s[j]

-----------------------------------------------------------------------------
(* A set of naturals that is not empty has a least element.                *)
LEMMA LeastNat ==
  ASSUME NEW T \in SUBSET Nat, T # {}
  PROVE  \E x \in T : \A y \in T : x <= y
<1> DEFINE R == OpToRel(<, Nat)
<1>1. IsWellFoundedOn(R, Nat)
  BY NatLessThanWellFounded
<1>2. \A x, y \in Nat : y < x => <<y, x>> \in R
  BY DEF OpToRel
<1> HIDE DEF R
<1>3. \E x \in T : \A y \in T : ~(<<y, x>> \in R)
  BY <1>1, WFMin
<1>4. PICK x \in T : \A y \in T : ~(<<y, x>> \in R)
  BY <1>3
<1>5. \A y \in T : ~(y < x) /\ x \in Nat /\ y \in Nat
  BY <1>2, <1>4
<1>6. \A y \in T : x <= y
  BY <1>5
<1> QED BY <1>6

(* Of subsets of a finite set, one is minimal: the induction principle for *)
(* finite sets, as a fact about a set of counterexamples.                  *)
LEMMA LeastSubset ==
  ASSUME NEW S, IsFiniteSet(S), NEW B \in SUBSET SUBSET S, B # {}
  PROVE  \E U \in B : \A u \in U : U \ {u} \notin B
<1> DEFINE R == StrictSubsetOrdering(S)
<1>1. IsWellFoundedOn(R, SUBSET S)
  BY FS_StrictSubsetOrderingWellFounded, FS_FiniteSubsetsOfFinite
<1>2. \A U, V \in SUBSET S : V \subseteq U /\ V # U => <<V, U>> \in R
  BY DEF StrictSubsetOrdering
<1> HIDE DEF R
<1>3. PICK U \in B : \A V \in B : ~(<<V, U>> \in R)
  BY <1>1, WFMin
<1>4. ASSUME NEW u \in U PROVE U \ {u} \notin B
  <2>1. U \in SUBSET S /\ U \ {u} \in SUBSET S /\ U \ {u} \subseteq U /\ U \ {u} # U
    OBVIOUS
  <2> QED BY <1>2, <1>3, <2>1
<1> QED BY <1>4

(* A finite set of naturals that is not empty has a greatest element.      *)
LEMMA Greatest ==
  ASSUME NEW S \in SUBSET Nat, IsFiniteSet(S), S # {}
  PROVE  \E x \in S : \A y \in S : y <= x
<1> DEFINE Max(U, x) == x \in U /\ \A y \in U : y <= x
           B == {U \in SUBSET S : U # {} /\ ~\E x \in U : Max(U, x)}
<1> SUFFICES ASSUME B # {} PROVE FALSE
  OBVIOUS
<1>1. PICK U \in B : \A u \in U : U \ {u} \notin B
  <2>1. B \in SUBSET SUBSET S
    OBVIOUS
  <2> HIDE DEF B
  <2> QED BY <2>1, LeastSubset
<1>2. PICK u \in U : TRUE
  OBVIOUS
<1>3. CASE U \ {u} = {}
  BY <1>2, <1>3
<1>4. CASE U \ {u} # {}
  <2>1. U \ {u} \notin B
    BY <1>1, <1>2
  <2>2. PICK x \in U \ {u} : \A y \in U \ {u} : y <= x
    BY <1>4, <2>1
  <2>3. Max(U, x) \/ Max(U, u)
    BY <1>2, <2>2
  <2> QED BY <1>2, <2>2, <2>3
<1> QED BY <1>3, <1>4

(* A finite set of naturals can be listed in increasing order: its         *)
(* greatest element comes after the others.                                *)
LEMMA SortedExists ==
  ASSUME NEW S \in SUBSET Nat, IsFiniteSet(S)
  PROVE  \E s : Sorted(s, S)
<1> DEFINE B == {U \in SUBSET S : ~\E s : Sorted(s, U)}
<1> SUFFICES ASSUME B # {} PROVE FALSE
  OBVIOUS
<1>1. PICK U \in B : \A u \in U : U \ {u} \notin B
  <2>1. B \in SUBSET SUBSET S
    OBVIOUS
  <2> HIDE DEF B
  <2> QED BY <2>1, LeastSubset
<1>2. CASE U = {}
  <2>1. Cardinality(U) = 0 
    BY <1>2, FS_EmptySet
  <2>2. Sorted(<<>>, U)
    BY <1>2, <2>1 DEF Sorted
  <2> QED BY <2>2
<1>3. CASE U # {}
  <2>1. IsFiniteSet(U) /\ U \in SUBSET Nat
    BY FS_Subset
  <2>2. PICK x \in U : \A y \in U : y <= x
    BY <1>3, <2>1, Greatest
  <2> DEFINE V == U \ {x}
             n == Cardinality(V)
  <2>3. V \notin B
    BY <1>1, <2>2
  <2>4. PICK s : Sorted(s, V)
    BY <2>3
  <2>5. n \in Nat /\ Cardinality(U) = n + 1
    <3>1. IsFiniteSet(V) /\ Cardinality(V) = Cardinality(U) - 1
      BY <2>1, <2>2, FS_RemoveElement
    <3>2. Cardinality(V) \in Nat /\ Cardinality(U) \in Nat
      BY <2>1, <3>1, FS_CardinalityType
    <3> QED BY <3>1, <3>2
  <2> HIDE DEF n
  <2> DEFINE t == [i \in 1 .. n + 1 |-> IF i = n + 1 THEN x ELSE s[i]]
  <2>6. s \in [1 .. n -> V] /\ \A i, j \in 1 .. n : i < j => s[i] < s[j]
    BY <2>4 DEF Sorted, n
  <2>7. t \in [1 .. n + 1 -> U]
    BY <2>5, <2>6
  <2>8. ASSUME NEW i \in 1 .. n + 1, NEW j \in 1 .. n + 1, i < j
        PROVE  t[i] < t[j]
    <3>1. i \in 1 .. n
      BY <2>5, <2>8
    <3>2. CASE j = n + 1
      <4>1. t[i] = s[i] /\ t[j] = x
        BY <2>5, <3>1, <3>2
      <4>2. s[i] \in U /\ s[i] # x
        BY <2>6, <3>1
      <4>3. s[i] <= x /\ s[i] \in Nat /\ x \in Nat
        BY <2>1, <2>2, <4>2
      <4>4. s[i] < x
        BY <4>2, <4>3
      <4> QED BY <4>1, <4>4
    <3>3. CASE j # n + 1
      BY <2>5, <2>6, <2>8, <3>1, <3>3
    <3> QED BY <3>2, <3>3
  <2>9. Sorted(t, U)
    BY <2>5, <2>7, <2>8 DEF Sorted
  <2> QED BY <2>9
<1> QED BY <1>2, <1>3

(* An interval is listed in one way only.                                  *)
LEMMA SortedInterval ==
  ASSUME NEW a \in Int, NEW b \in Int, a <= b, NEW s, Sorted(s, a .. b)
  PROVE  s \in [1 .. b - a + 1 -> a .. b] /\ \A i \in 1 .. b - a + 1 : s[i] = a + i - 1
<1> DEFINE n == b - a + 1
<1>1. Cardinality(a .. b) = n /\ n \in Nat
  BY FS_Interval
<1> HIDE DEF n
<1>2. s \in [1 .. n -> a .. b] /\ \A i, j \in 1 .. n : i < j => s[i] < s[j]
  BY <1>1 DEF Sorted
<1>3. \A i \in 1 .. n : s[i] >= a + i - 1
  <2> DEFINE B == {i \in 1 .. n : s[i] < a + i - 1}
  <2>0. ASSUME NEW i \in 1 .. n, ~(s[i] >= a + i - 1)
        PROVE  i \in B
    <3>1. s[i] \in Int
      BY <1>2
    <3> QED BY <1>1, <2>0, <3>1
  <2> SUFFICES ASSUME B # {} PROVE FALSE
    BY <2>0
  <2>1. PICK i \in B : \A j \in B : i <= j
    <3>1. B \in SUBSET Nat
      BY <1>1
    <3> QED BY <3>1, LeastNat
  <2>2. CASE i = 1
    BY <1>1, <1>2, <2>2
  <2>3. CASE i # 1
    <3>1. i - 1 \in 1 .. n /\ i - 1 \notin B
      BY <1>1, <2>1, <2>3
    <3>2. s[i - 1] < s[i]
      BY <1>1, <1>2, <3>1
    <3>3. ~ (s[i-1] < a + (i - 1) - 1)
      BY <3>1
    <3>4. s[i] \in Int /\ s[i-1] \in Int /\ i \in Int /\ s[i] < a + i - 1
      BY <1>1, <1>2, <3>1
    <3> QED BY <3>2, <3>3, <3>4
  <2> QED BY <2>2, <2>3
<1>4. \A i \in 1 .. n : s[i] <= a + i - 1
  <2> DEFINE B == {k \in 0 .. n - 1 : s[n - k] > a + (n - k) - 1}
  <2>0. ASSUME NEW i \in 1 .. n, ~(s[i] <= a + i - 1)
        PROVE  n - i \in B
    <3>1. n - i \in 0 .. n - 1 /\ n - (n - i) = i /\ s[i] \in Int
      BY <1>1, <1>2
    <3> QED BY <2>0, <3>1
  <2> SUFFICES ASSUME B # {} PROVE FALSE
    BY <2>0
  <2>1. PICK k \in B : \A j \in B : k <= j
    <3>1. B \in SUBSET Nat
      BY <1>1
    <3> QED BY <3>1, LeastNat
  <2>2. CASE k = 0
    <3>1. s[n] \in a .. b /\ s[n] > a + n - 1
      BY <1>1, <1>2, <2>2
    <3> QED BY <3>1 DEF n
  <2>3. CASE k # 0
    <3>1. k - 1 \in 0 .. n - 1 /\ k - 1 \notin B /\ n - (k - 1) = n - k + 1
      <4>1. k \in 0 .. n - 1
        OBVIOUS
      <4> HIDE DEF B
      <4> QED BY <1>1, <2>1, <2>3, <4>1
    <3>2. n - k \in 1 .. n /\ n - k + 1 \in 1 .. n
      BY <1>1, <3>1
    <3>3. s[n - k] < s[n - k + 1] /\ s[n - k] \in Int /\ s[n - k + 1] \in Int
      BY <1>1, <1>2, <3>2
    <3>4. ~ (s[n - k + 1] > a + (n - k + 1) - 1)
      BY <3>1
    <3>5. s[n - k] > a + (n - k) - 1 /\ k \in Int
      BY <1>1
    <3> QED BY <1>1, <3>3, <3>4, <3>5
  <2> QED BY <2>2, <2>3
<1>5. \A i \in 1 .. n : s[i] \in Int /\ a + i - 1 \in Int
  BY <1>1, <1>2
<1>6. \A i \in 1 .. n : s[i] = a + i - 1
  BY <1>3, <1>4, <1>5
<1> QED BY <1>2, <1>6 DEF n
=============================================================================
