--------------------------- MODULE WaitGraphProofs ---------------------------
(***************************************************************************)
(* If finitely many transactions all wait for one another, one of them is  *)
(* on a cycle, so that PostgreSQL finds it.                                *)
(***************************************************************************)
EXTENDS WaitGraph, Integers, FiniteSetTheorems, WellFoundedInduction, TLAPS

\* Every non-empty set of naturals has a least element.
LEMMA LeastNatural ==
    ASSUME NEW N \in SUBSET Nat, N # {}
    PROVE  \E x \in N : \A y \in N : x <= y
<1> DEFINE R == OpToRel(<, Nat)
<1>1. IsWellFoundedOn(R, Nat)
  BY NatLessThanWellFounded
<1>2. \A x, y \in Nat : <<x, y>> \in R <=> x < y
  BY DEF OpToRel
<1> HIDE DEF R
<1>3. \E x \in N : \A y \in N : ~(<<y, x>> \in R)
  BY <1>1, WFMin
<1>4. PICK x \in N : \A y \in N : ~(<<y, x>> \in R)
  BY <1>3
<1>5. ASSUME NEW y \in N PROVE x <= y
  <2>1. x \in Nat /\ y \in Nat
    OBVIOUS
  <2>2. ~(y < x)
    BY <1>2, <1>4, <2>1
  <2> QED
    BY <2>1, <2>2
<1> QED
  BY <1>5

\* Among sets of which one is finite and not empty, some are smallest.
LEMMA SmallestSet ==
    ASSUME NEW W, IsFiniteSet(W), NEW F \in SUBSET SUBSET W, F # {}
    PROVE  \E T \in F : \A U \in F : Cardinality(T) <= Cardinality(U)
<1> DEFINE N == {Cardinality(T) : T \in F}
<1>1. \A T \in F : Cardinality(T) \in Nat
  BY FS_Subset, FS_CardinalityType
<1>2. N \in SUBSET Nat /\ N # {}
  BY <1>1
<1> HIDE DEF N
<1>3. PICK n \in N : \A m \in N : n <= m
  BY <1>2, LeastNatural
<1> QED
  BY <1>3 DEF N

\* Whoever is waited for by a member of T is in T.
WaitClosed(T, waits) == \A w \in waits : w[1] \in T => w[2] \in T

\* All of W wait, and only for each other: somebody is on a cycle.  The smallest closed part
\* of W is made of such: what one of its members leads to is no smaller.
LEMMA SomeoneOnCycle ==
    ASSUME NEW W, IsFiniteSet(W), W # {}, NEW waits \in SUBSET (W \X W),
           \A x \in W : \E y \in W : <<x, y>> \in waits
    PROVE  \E p \in W : OnCycle(p, waits)
<1> DEFINE F == {T \in SUBSET W : T # {} /\ WaitClosed(T, waits)}
<1>1. W \in F
  BY DEF WaitClosed
<1>2. PICK T \in F : \A U \in F : Cardinality(T) <= Cardinality(U)
  BY <1>1, SmallestSet
<1>3. PICK p \in T : TRUE
  OBVIOUS
<1>4. PICK q \in W : <<p, q>> \in waits
  OBVIOUS
<1>5. ASSUME NEW U, WaitClosed(U, waits), q \in U, p \notin U PROVE FALSE
  <2>1. q \in T
    BY <1>4 DEF WaitClosed
  <2>2. WaitClosed(T \cap U, waits)
    BY <1>5 DEF WaitClosed
  <2>3. T \cap U \in F
    BY <1>5, <2>1, <2>2
  <2>4. IsFiniteSet(T) /\ T \cap U \in SUBSET T
    BY FS_Subset
  <2>5. /\ Cardinality(T \cap U) <= Cardinality(T)
        /\ Cardinality(T) = Cardinality(T \cap U) => T = T \cap U
    BY <2>4, FS_Subset
  <2>6. Cardinality(T) \in Nat /\ Cardinality(T \cap U) \in Nat
    BY <2>4, FS_Subset, FS_CardinalityType
  <2>7. Cardinality(T) = Cardinality(T \cap U)
    BY <1>2, <2>3, <2>5, <2>6
  <2> QED
    BY <1>5, <2>5, <2>7
<1>6. OnCycle(p, waits)
  <2> SUFFICES ASSUME NEW U, p \notin U,
                      \A w \in waits : w[1] \in U \cup {p} => w[2] \in U
               PROVE  FALSE
    BY DEF OnCycle
  <2>1. q \in U /\ WaitClosed(U, waits)
    BY <1>4 DEF WaitClosed
  <2> QED
    BY <1>5, <2>1
<1> QED
  BY <1>6

=============================================================================
