---------------------------- MODULE NumberLemmas ----------------------------
(***************************************************************************)
(* Facts about sets of natural numbers that the proofs about the           *)
(* components share: least and greatest members, induction stated with a   *)
(* set in place of a predicate, and division.                              *)
(***************************************************************************)
EXTENDS FiniteSetTheorems, TLAPS

\* A set of natural numbers has a least member.
LEMMA LeastMember ==
    ASSUME NEW S \in SUBSET Nat, S # {}
    PROVE  \E m \in S : \A n \in S : m <= n
<1> DEFINE UpTo(k) == {n \in S : n <= k}
           T == {UpTo(k) : k \in S}
<1>1. T \subseteq FiniteSubsetsOf(Nat)
  <2> SUFFICES ASSUME NEW k \in S  PROVE UpTo(k) \in FiniteSubsetsOf(Nat)
    OBVIOUS
  <2>1. UpTo(k) \in SUBSET Nat /\ k \in Nat /\ \A n \in UpTo(k) : n <= k
    OBVIOUS
  <2>2. IsFiniteSet(UpTo(k))
    BY <2>1, FS_BoundedSetOfNaturals
  <2> QED
    BY <2>1, <2>2 DEF FiniteSubsetsOf
<1>2. IsWellFoundedOn(StrictSubsetOrdering(Nat), FiniteSubsetsOf(Nat))
  BY FS_StrictSubsetOrderingWellFounded
<1>3. T # {}
  OBVIOUS
<1>4. PICK U \in T : \A V \in T : ~ (<<V, U>> \in StrictSubsetOrdering(Nat))
  <2> HIDE DEF T
  <2> QED
    BY <1>1, <1>2, <1>3, WFMin
<1>5. PICK k \in S : U = UpTo(k)
  OBVIOUS
<1>6. ASSUME NEW n \in S, ~ (k <= n)  PROVE FALSE
  <2>1. n < k /\ n \in Nat /\ k \in Nat
    BY <1>6
  <2>2. UpTo(n) \subseteq UpTo(k)
    <3> SUFFICES ASSUME NEW j \in S, j <= n  PROVE j <= k
      OBVIOUS
    <3>1. j \in Nat
      OBVIOUS
    <3> QED
      BY <2>1, <3>1
  <2>3. k \in UpTo(k) /\ k \notin UpTo(n)
    BY <2>1
  <2>4. UpTo(n) \in T /\ UpTo(n) \in SUBSET Nat /\ UpTo(k) \in SUBSET Nat
    OBVIOUS
  <2>5. <<UpTo(n), UpTo(k)>> \in StrictSubsetOrdering(Nat)
    BY <2>2, <2>3, <2>4 DEF StrictSubsetOrdering
  <2> QED
    BY <1>4, <1>5, <2>4, <2>5
<1> QED
  BY <1>6

\* A bounded one has a greatest member.
LEMMA GreatestMember ==
    ASSUME NEW S \in SUBSET Nat, S # {}, NEW b \in Nat, \A n \in S : n <= b
    PROVE  \E m \in S : \A n \in S : n <= m
<1> DEFINE Bounds == {k \in Nat : \A n \in S : n <= k}
<1>1. b \in Bounds /\ Bounds \in SUBSET Nat
  OBVIOUS
<1>2. PICK k \in Bounds : \A j \in Bounds : k <= j
  <2> HIDE DEF Bounds
  <2> QED
    BY <1>1, LeastMember
<1>3. k \in S
  <2> SUFFICES ASSUME k \notin S  PROVE FALSE
    OBVIOUS
  <2>1. k \in Nat /\ \A n \in S : n \in Nat /\ n < k
    OBVIOUS
  <2>2. k - 1 \in Nat
    <3>1. PICK n \in S : TRUE
      OBVIOUS
    <3> QED
      BY <2>1, <3>1
  <2>3. \A n \in S : n <= k - 1
    BY <2>1
  <2>4. k - 1 \in Bounds
    BY <2>2, <2>3
  <2> QED
    BY <1>2, <2>1, <2>4
<1> QED
  BY <1>3

\* A set with 0 and with every member's successor has all natural numbers.
LEMMA InductiveSet ==
    ASSUME NEW S, 0 \in S, \A n \in Nat : n \in S => n + 1 \in S
    PROVE  Nat \subseteq S
<1> SUFFICES ASSUME NEW k \in Nat, k \notin S  PROVE FALSE
  OBVIOUS
<1> DEFINE Missing == Nat \ S
<1>1. Missing \in SUBSET Nat /\ Missing # {}
  OBVIOUS
<1>2. PICK m \in Missing : \A n \in Missing : m <= n
  <2> HIDE DEF Missing
  <2> QED
    BY <1>1, LeastMember
<1>3. m \in Nat /\ m # 0 /\ m - 1 \in Nat /\ m - 1 \notin Missing
  BY <1>2
<1>4. m - 1 \in S /\ (m - 1) + 1 = m
  BY <1>3
<1> QED
  BY <1>2, <1>3, <1>4

\* Division with remainder, by a number that is not known.
LEMMA DivMod ==
    ASSUME NEW n \in Nat, NEW d \in Nat, d > 0
    PROVE  /\ n \div d \in Nat
           /\ n % d \in Nat /\ n % d < d
           /\ n = d * (n \div d) + (n % d)
  OBVIOUS

\* Quotient and remainder are determined by their sum.
LEMMA DivUnique ==
    ASSUME NEW d \in Nat, d > 0, NEW q \in Nat, NEW r \in Nat, r < d,
           NEW n \in Nat, n = d * q + r
    PROVE  n \div d = q /\ n % d = r
<1> DEFINE p == n \div d
           s == n % d
<1>1. p \in Nat /\ s \in Nat /\ s < d /\ n = d * p + s
  BY DivMod
<1> HIDE DEF p, s
<1>2. d * p \in Int /\ d * q \in Int /\ d * p - d * q < d /\ d * q - d * p < d
  BY <1>1
<1>3. d * (p - q) = d * p - d * q
  BY <1>1
<1>4. ~ p >= q + 1
  <2> SUFFICES ASSUME p >= q + 1  PROVE FALSE
    OBVIOUS
  <2>1. d * (p - q) >= d
    BY <1>1
  <2> QED
    BY <1>2, <1>3, <2>1
<1>5. ~ q >= p + 1
  <2> SUFFICES ASSUME q >= p + 1  PROVE FALSE
    OBVIOUS
  <2>1. d * (q - p) >= d
    BY <1>1
  <2>2. d * (q - p) = d * q - d * p
    BY <1>1
  <2> QED
    BY <1>2, <2>1, <2>2
<1>6. p = q
  BY <1>1, <1>4, <1>5
<1>7. s = r
  BY <1>1, <1>6
<1> QED
  BY <1>6, <1>7 DEF p, s
=============================================================================
