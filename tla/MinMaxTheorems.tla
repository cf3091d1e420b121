--------------------------- MODULE MinMaxTheorems ---------------------------
(***************************************************************************)
(* Facts about Min, Max and ToSet of the community modules, which the      *)
(* models use for Python's min() and max() over a list.  A finite          *)
(* non-empty set of integers has a least and a greatest element; the       *)
(* argument counts, for each element, the elements below it and takes an   *)
(* element whose count is least (the naturals are well founded).           *)
(***************************************************************************)
EXTENDS Integers, FiniteSets, SequencesExt, FiniteSetTheorems,
        WellFoundedInduction, TLAPS

\* The elements of S below, resp. above, x.
BelowIn(S, x) == {z \in S : z < x}
AboveIn(S, x) == {z \in S : z > x}

\* The elements of a list form a finite set.
LEMMA ToSetFinite ==
    ASSUME NEW s \in Seq(Int)
    PROVE  /\ IsFiniteSet(ToSet(s))
           /\ ToSet(s) \subseteq Int
<1>1. IsFiniteSet(1..Len(s))
    BY FS_Interval
<1>2. s \in Surjection(1..Len(s), ToSet(s))
    BY DEF Surjection, ToSet
<1>. QED
    BY <1>1, <1>2, FS_Surjection DEF ToSet

\* The elements of a non-empty list form a non-empty set.
LEMMA ToSetNonEmpty ==
    ASSUME NEW s \in Seq(Int), s /= <<>>
    PROVE  s[1] \in ToSet(s)
BY Len(s) >= 1 DEF ToSet

\* A non-empty set of naturals has a least element.
LEMMA LeastNat ==
    ASSUME NEW T \in SUBSET Nat, T /= {}
    PROVE  \E d \in T : \A e \in T : ~(e < d)
<1>1. IsWellFoundedOn(OpToRel(<, Nat), Nat)
    BY NatLessThanWellFounded
<1>2. \E d \in T : \A e \in T : ~(<<e, d>> \in OpToRel(<, Nat))
    BY <1>1, WFMin, Zenon
<1>. QED
    BY <1>2 DEF OpToRel

\* A finite non-empty set of integers has a least element.
LEMMA MinExists ==
    ASSUME NEW S \in SUBSET Int, IsFiniteSet(S), S /= {}
    PROVE  \E m \in S : \A y \in S : m <= y
<1>1. ASSUME NEW x \in S
      PROVE  /\ IsFiniteSet(BelowIn(S, x))
             /\ Cardinality(BelowIn(S, x)) \in Nat
    <2>1. BelowIn(S, x) \subseteq S
        BY DEF BelowIn
    <2>. QED
        BY <2>1, FS_Subset, FS_CardinalityType
<1>2. /\ {Cardinality(BelowIn(S, x)) : x \in S} \subseteq Nat
      /\ {Cardinality(BelowIn(S, x)) : x \in S} /= {}
    BY <1>1
<1>3. \E d \in {Cardinality(BelowIn(S, x)) : x \in S} :
         \A e \in {Cardinality(BelowIn(S, x)) : x \in S} : ~(e < d)
    BY <1>2, LeastNat
<1>4. PICK x0 \in S : \A y \in S : ~(Cardinality(BelowIn(S, y)) < Cardinality(BelowIn(S, x0)))
    BY <1>3
<1>5. ASSUME NEW y \in S, y < x0 PROVE FALSE
    <2>1. BelowIn(S, y) \subseteq BelowIn(S, x0)
        <3>1. \A z \in S : z < y => z < x0
            BY <1>5
        <3>. QED
            BY <3>1 DEF BelowIn
    <2>2. y \in BelowIn(S, x0) /\ y \notin BelowIn(S, y)
        BY <1>5 DEF BelowIn
    <2>3. Cardinality(BelowIn(S, y)) < Cardinality(BelowIn(S, x0))
        BY <1>1, <2>1, <2>2, FS_Subset
    <2>. QED
        BY <1>4, <2>3
<1>. QED
    BY <1>5

\* A finite non-empty set of integers has a greatest element.
LEMMA MaxExists ==
    ASSUME NEW S \in SUBSET Int, IsFiniteSet(S), S /= {}
    PROVE  \E m \in S : \A y \in S : y <= m
<1>1. ASSUME NEW x \in S
      PROVE  /\ IsFiniteSet(AboveIn(S, x))
             /\ Cardinality(AboveIn(S, x)) \in Nat
    <2>1. AboveIn(S, x) \subseteq S
        BY DEF AboveIn
    <2>. QED
        BY <2>1, FS_Subset, FS_CardinalityType
<1>2. /\ {Cardinality(AboveIn(S, x)) : x \in S} \subseteq Nat
      /\ {Cardinality(AboveIn(S, x)) : x \in S} /= {}
    BY <1>1
<1>3. \E d \in {Cardinality(AboveIn(S, x)) : x \in S} :
         \A e \in {Cardinality(AboveIn(S, x)) : x \in S} : ~(e < d)
    BY <1>2, LeastNat
<1>4. PICK x0 \in S : \A y \in S : ~(Cardinality(AboveIn(S, y)) < Cardinality(AboveIn(S, x0)))
    BY <1>3
<1>5. ASSUME NEW y \in S, y > x0 PROVE FALSE
    <2>1. AboveIn(S, y) \subseteq AboveIn(S, x0)
        <3>1. \A z \in S : z > y => z > x0
            BY <1>5
        <3>. QED
            BY <3>1 DEF AboveIn
    <2>2. y \in AboveIn(S, x0) /\ y \notin AboveIn(S, y)
        BY <1>5 DEF AboveIn
    <2>3. Cardinality(AboveIn(S, y)) < Cardinality(AboveIn(S, x0))
        BY <1>1, <2>1, <2>2, FS_Subset
    <2>. QED
        BY <1>4, <2>3
<1>. QED
    BY <1>5

\* min() and max() of a non-empty list of integers: an element of the list
\* bounding every element from below, resp. above.
LEMMA MinMaxOfList ==
    ASSUME NEW s \in Seq(Int), s /= <<>>
    PROVE  /\ Min(ToSet(s)) \in ToSet(s)
           /\ Max(ToSet(s)) \in ToSet(s)
           /\ \A y \in ToSet(s) : Min(ToSet(s)) <= y /\ y <= Max(ToSet(s))
<1>1. ToSet(s) \subseteq Int /\ IsFiniteSet(ToSet(s)) /\ ToSet(s) /= {}
    BY ToSetFinite, ToSetNonEmpty
<1>2. \E m \in ToSet(s) : \A y \in ToSet(s) : m <= y
    BY <1>1, MinExists
<1>3. \E m \in ToSet(s) : \A y \in ToSet(s) : y <= m
    BY <1>1, MaxExists
<1>. QED
    BY <1>2, <1>3 DEF Min, Max

=============================================================================
