------------------------------ MODULE Extrema ------------------------------
(***************************************************************************)
(* The least and the greatest element of a set of naturals, which the      *)
(* specifications take with Min and Max.                                   *)
(***************************************************************************)
EXTENDS Integers, FiniteSetsExt, FiniteSetTheorems, TLAPS

\* A set of naturals has a least element: what Min chooses.
LEMMA LeastNatural ==
  ASSUME NEW S, S \subseteq Nat, S # {}
  PROVE  \E x \in S : \A y \in S : x <= y
<1>1. IsWellFoundedOn(OpToRel(<, Nat), Nat)
  BY NatLessThanWellFounded
<1>2. \E x \in S : \A y \in S : ~ (<<y, x>> \in OpToRel(<, Nat))
  BY <1>1, WFMin
<1>3. PICK x \in S : \A y \in S : ~ (<<y, x>> \in OpToRel(<, Nat))
  BY <1>2
<1>4. ASSUME NEW y \in S PROVE x <= y
  <2>1. <<y, x>> \in Nat \X Nat
    OBVIOUS
  <2>2. ~ (y < x)
    BY <1>3, <2>1 DEF OpToRel
  <2>3. QED
    BY <2>2
<1>5. QED
  BY <1>4

\* A bounded set of naturals has a greatest element: what Max chooses.
LEMMA GreatestNatural ==
  ASSUME NEW S, S \subseteq Nat, S # {}, NEW b \in Nat, \A x \in S : x <= b
  PROVE  \E x \in S : \A y \in S : x >= y
<1> DEFINE T == {b - x : x \in S}
<1>1. T \subseteq Nat /\ T # {}
  <2>1. T \subseteq Nat
    OBVIOUS
  <2>2. T # {}
    OBVIOUS
  <2>3. QED
    BY <2>1, <2>2
<1>2. PICK t \in T : \A u \in T : t <= u
  BY <1>1, LeastNatural
<1>3. PICK x \in S : t = b - x
  BY <1>2
<1>4. ASSUME NEW y \in S PROVE x >= y
  BY <1>2, <1>3
<1>5. QED
  BY <1>4

\* Min is the least element.
LEMMA MinIsLeast ==
  ASSUME NEW S, S \subseteq Nat, S # {}
  PROVE  Min(S) \in S /\ \A y \in S : Min(S) <= y
BY LeastNatural DEF Min

\* Max is the greatest element, when there is a bound.
LEMMA MaxIsGreatest ==
  ASSUME NEW S, S \subseteq Nat, S # {}, NEW b \in Nat, \A x \in S : x <= b
  PROVE  Max(S) \in S /\ \A y \in S : Max(S) >= y
BY GreatestNatural DEF Max

\* A finite set of naturals has a bound.
LEMMA FiniteIsBounded ==
  ASSUME NEW S, S \subseteq Nat, IsFiniteSet(S)
  PROVE  \E b \in Nat : \A x \in S : x <= b
<1> DEFINE Bounded(U) == \E b \in Nat : \A x \in U : x <= b
           T == {n \in Nat : \E U \in SUBSET S : Cardinality(U) = n /\ ~ Bounded(U)}
<1>1. \A U \in SUBSET S : IsFiniteSet(U) /\ Cardinality(U) \in Nat
  BY FS_Subset, FS_CardinalityType
<1>2. T \subseteq Nat
  OBVIOUS
<1>3. SUFFICES ASSUME T # {} PROVE FALSE
  <2>1. Cardinality(S) \notin T
    BY <1>3
  <2> QED
    BY <1>1, <2>1
<1>4. PICK n \in T : \A m \in T : n <= m
  BY <1>2, <1>3, LeastNatural
<1>5. PICK U \in SUBSET S : Cardinality(U) = n /\ ~ Bounded(U)
  BY <1>4
<1>6. PICK x : x \in U
  <2>1. Bounded({})
    OBVIOUS
  <2> QED
    BY <1>5, <2>1
<1>7. ~ Bounded(U \ {x})
  <2> SUFFICES ASSUME NEW b \in Nat, \A y \in U \ {x} : y <= b PROVE FALSE
    OBVIOUS
  <2>1. PICK c \in Nat : b <= c /\ x <= c
    <3>1. x \in Nat
      BY <1>6
    <3>2. CASE x <= b
      BY <3>1, <3>2
    <3>3. CASE b <= x
      BY <3>1, <3>3
    <3> QED
      BY <3>1, <3>2, <3>3
  <2>2. \A y \in U : y <= c
    BY <2>1
  <2> QED
    BY <1>5, <2>1, <2>2
<1>8. Cardinality(U \ {x}) = n - 1 /\ Cardinality(U \ {x}) \in Nat
  BY <1>1, <1>5, <1>6, FS_RemoveElement
<1>9. n - 1 \in T
  BY <1>7, <1>8
<1> QED
  BY <1>2, <1>4, <1>9

=============================================================================
