----------------------------- MODULE Extremes -----------------------------
(***************************************************************************)
(* Least and greatest elements of sets of natural numbers: the witnesses   *)
(* of every "the newest", "the first key" and "the top of the heap" of the *)
(* specifications.                                                         *)
(***************************************************************************)
EXTENDS Integers, FiniteSets, Sequences, TLAPS, WellFoundedInduction, FiniteSetTheorems

\* A non-empty set of naturals has a least element.
LEMMA LeastExists ==
    ASSUME NEW S \in SUBSET Nat, S # {}
    PROVE  \E m \in S : \A s \in S : m <= s
<1> DEFINE Less == OpToRel(<, Nat)
<1>1. IsWellFoundedOn(Less, Nat)
  BY NatLessThanWellFounded
<1>2. PICK m \in S : \A s \in S : ~ (<<s, m>> \in Less)
  <2> HIDE DEF Less
  <2> QED BY <1>1, WFMin
<1>3. \A s \in S : ~(s < m)
  BY <1>2 DEF OpToRel
<1> QED BY <1>3

\* A non-empty set of naturals with an upper bound has a greatest element.
LEMMA GreatestExists ==
    ASSUME NEW S \in SUBSET Nat, S # {}, NEW n \in Nat, \A s \in S : s <= n
    PROVE  \E m \in S : \A s \in S : s <= m
<1> DEFINE Gap == {n - s : s \in S}
<1>1. Gap \in SUBSET Nat /\ Gap # {}
  <2>1. \A s \in S : n - s \in Nat
    OBVIOUS
  <2> QED BY <2>1
<1>2. PICK g \in Gap : \A h \in Gap : g <= h
  <2> HIDE DEF Gap
  <2> QED BY <1>1, LeastExists
<1>3. PICK m \in S : g = n - m
  OBVIOUS
<1>4. ASSUME NEW s \in S PROVE s <= m
  <2>1. n - s \in Gap
    OBVIOUS
  <2>2. n - m <= n - s
    BY <1>2, <1>3, <2>1
  <2> HIDE DEF Gap
  <2> QED BY <2>2
<1> QED BY <1>4

\* A finite set of naturals has an upper bound: of the prefixes of an enumeration
\* of the set, none can be the first one without a bound.
LEMMA FiniteHasBound ==
    ASSUME NEW S \in SUBSET Nat, IsFiniteSet(S)
    PROVE  \E b \in Nat : \A s \in S : s <= b
<1>1. PICK n \in Nat : ExistsSurjection(1 .. n, S)
  BY FS_NatSurjection
<1>2. PICK f \in Surjection(1 .. n, S) : TRUE
  BY <1>1 DEF ExistsSurjection
<1>3. f \in [1 .. n -> S] /\ \A s \in S : \E i \in 1 .. n : f[i] = s
  BY <1>2 DEF Surjection
<1> DEFINE Bounded(m) == \E b \in Nat : \A i \in 1 .. m : f[i] <= b
           Bad == {m \in 0 .. n : ~Bounded(m)}
<1>4. Bad = {}
  <2> SUFFICES ASSUME Bad # {} PROVE FALSE
    OBVIOUS
  <2>1. PICK m \in Bad : \A k \in Bad : m <= k
    <3>1. Bad \in SUBSET Nat
      OBVIOUS
    <3> HIDE DEF Bad
    <3> QED BY <3>1, LeastExists
  <2>2. m \in 0 .. n /\ ~Bounded(m)
    OBVIOUS
  <2>3. m # 0
    <3>1. Bounded(0)
      <4>1. \A i \in 1 .. 0 : f[i] <= 0
        OBVIOUS
      <4> QED BY <4>1
    <3> HIDE DEF Bounded
    <3> QED BY <2>2, <3>1
  <2>4. m \in Nat /\ m \in 1 .. n /\ m - 1 \in 0 .. n /\ ~(m <= m - 1)
    BY <2>2, <2>3
  <2>5. PICK b \in Nat : \A i \in 1 .. m - 1 : f[i] <= b
    <3>1. m - 1 \notin Bad
      <4> HIDE DEF Bad
      <4> QED BY <2>1, <2>4
    <3> QED BY <2>4, <3>1
  <2> HIDE DEF Bad, Bounded
  <2>6. f[m] \in Nat
    BY <1>3, <2>4
  <2>7. \A i \in 1 .. m : f[i] <= b + f[m]
    <3> SUFFICES ASSUME NEW i \in 1 .. m PROVE f[i] <= b + f[m]
      OBVIOUS
    <3>1. CASE i = m
      BY <3>1, <2>6
    <3>2. CASE i # m
      <4>1. i \in 1 .. m - 1 /\ i \in 1 .. n
        BY <2>4, <3>2
      <4>2. f[i] \in Nat /\ f[i] <= b
        BY <1>3, <2>5, <4>1
      <4> QED BY <2>6, <4>2
    <3> QED BY <3>1, <3>2
  <2>8. b + f[m] \in Nat
    BY <2>6
  <2>9. Bounded(m)
    BY <2>7, <2>8 DEF Bounded
  <2> QED BY <2>2, <2>9
<1>5. PICK b \in Nat : \A i \in 1 .. n : f[i] <= b
  <2>1. n \notin Bad
    <3> HIDE DEF Bad
    <3> QED BY <1>4
  <2>2. n \in 0 .. n
    OBVIOUS
  <2> QED BY <2>1, <2>2
<1> QED BY <1>3, <1>5

\* A non-empty finite set of naturals has a greatest element.
LEMMA FiniteGreatest ==
    ASSUME NEW S \in SUBSET Nat, S # {}, IsFiniteSet(S)
    PROVE  \E m \in S : \A s \in S : s <= m
<1>1. PICK b \in Nat : \A s \in S : s <= b
  BY FiniteHasBound
<1> QED BY <1>1, GreatestExists
=============================================================================
