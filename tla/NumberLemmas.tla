---------------------------- MODULE NumberLemmas ----------------------------
(***************************************************************************)
(* Facts about sets of natural numbers that several proofs rest on.        *)
(* LeastNumber is how the proofs of this project do induction over data.   *)
(***************************************************************************)
EXTENDS Integers, FiniteSets, FiniteSetTheorems, WellFoundedInduction, TLAPS

\* A set of numbers that is not empty has a least one.
LEMMA LeastNumber ==
    ASSUME NEW S \in SUBSET Nat, S # {}
    PROVE  \E x \in S : \A y \in S : x <= y
<1> DEFINE R == OpToRel(<, Nat)
<1>1. IsWellFoundedOn(R, Nat)
  BY NatLessThanWellFounded, Zenon
<1>2. \A x, y \in Nat : x < y => <<x, y>> \in R
  BY DEF OpToRel
<1> HIDE DEF R
<1>3. PICK x \in S : \A y \in S : ~ (<<y, x>> \in R)
  BY <1>1, WFMin
<1>4. \A y \in S : ~ (y < x)
  BY <1>2, <1>3
<1> QED
  BY <1>4

\* A finite set of numbers is bounded: take one out of the smallest that is not.
LEMMA FiniteBounded ==
    ASSUME NEW S \in SUBSET Nat, IsFiniteSet(S)
    PROVE  \E b \in Nat : \A x \in S : x <= b
<1> DEFINE Bounded(T) == \E b \in Nat : \A x \in T : x <= b
           Open == {k \in Nat : \E T \in SUBSET Nat :
                        IsFiniteSet(T) /\ Cardinality(T) = k /\ ~ Bounded(T)}
<1> SUFFICES ASSUME ~ Bounded(S)
             PROVE  FALSE
  OBVIOUS
<1>1. Cardinality(S) \in Open
  BY FS_CardinalityType
<1>2. PICK k \in Open : \A j \in Open : k <= j
  <2>1. Open \in SUBSET Nat /\ Open # {}
    BY <1>1
  <2> HIDE DEF Open
  <2> QED
    BY <2>1, LeastNumber
<1>3. PICK T \in SUBSET Nat : IsFiniteSet(T) /\ Cardinality(T) = k /\ ~ Bounded(T)
  BY <1>2
<1>4. PICK t \in T : TRUE
  BY <1>3
<1>5. IsFiniteSet(T \ {t}) /\ Cardinality(T \ {t}) = k - 1 /\ k - 1 \in Nat
  <2>1. IsFiniteSet(T \ {t}) /\ Cardinality(T \ {t}) = k - 1
    BY <1>3, <1>4, FS_RemoveElement
  <2> QED
    BY <2>1, FS_CardinalityType
<1>6. k - 1 \notin Open
  BY <1>2, <1>5
<1>7. PICK b \in Nat : \A x \in T \ {t} : x <= b
  BY <1>5, <1>6
<1>8. \A x \in T : x <= IF b > t THEN b ELSE t
  BY <1>4, <1>7
<1> QED
  BY <1>3, <1>4, <1>8

\* A finite set of numbers that is not empty has a greatest one.
LEMMA GreatestNumber ==
    ASSUME NEW S \in SUBSET Nat, IsFiniteSet(S), S # {}
    PROVE  \E x \in S : \A y \in S : x >= y
<1> DEFINE Bounds == {b \in Nat : \A x \in S : x <= b}
<1>1. Bounds # {} /\ Bounds \in SUBSET Nat
  BY FiniteBounded
<1>2. PICK b \in Bounds : \A c \in Bounds : b <= c
  <2> HIDE DEF Bounds
  <2> QED
    BY <1>1, LeastNumber
<1>3. b \in S
  <2> SUFFICES ASSUME b \notin S
               PROVE  FALSE
    OBVIOUS
  <2>1. \A x \in S : x <= b - 1
    BY <1>2
  <2>2. b - 1 \in Nat
    <3>1. PICK x \in S : x <= b - 1
      BY <2>1
    <3>2. x \in Nat /\ b \in Nat
      BY <1>2
    <3> QED
      BY <3>1, <3>2
  <2>3. b - 1 \in Bounds
    BY <2>1, <2>2
  <2> QED
    BY <1>2, <2>3
<1> QED
  BY <1>2, <1>3

\* The image of a finite set under a function is finite.
LEMMA FiniteImage ==
    ASSUME NEW S, IsFiniteSet(S), NEW f, DOMAIN f = S, f = [x \in S |-> f[x]]
    PROVE  IsFiniteSet({f[x] : x \in S})
<1> DEFINE T == {f[x] : x \in S}
<1>1. f \in Surjection(S, T)
  BY DEF Surjection
<1> QED
  BY <1>1, FS_Surjection

\* The sizes of finite sets without a common element add up.
LEMMA DisjointUnion ==
    ASSUME NEW S, IsFiniteSet(S), NEW T, IsFiniteSet(T), S \cap T = {}
    PROVE  /\ IsFiniteSet(S \cup T)
           /\ Cardinality(S \cup T) = Cardinality(S) + Cardinality(T)
<1>1. IsFiniteSet(S \cup T)
  BY FS_Union
<1>2. Cardinality(S \cup T) = Cardinality(S) + Cardinality(T) - Cardinality(S \cap T)
  BY FS_Union
<1>3. Cardinality(S \cap T) = 0
  BY FS_EmptySet
<1>4. Cardinality(S) \in Nat /\ Cardinality(T) \in Nat
  BY FS_CardinalityType
<1> QED
  BY <1>1, <1>2, <1>3, <1>4

\* Division rounds down.
LEMMA Quotient ==
    ASSUME NEW a \in Nat, NEW b \in Nat \ {0}, NEW q \in Nat
    PROVE  a \div b = q <=> q * b <= a /\ a < (q + 1) * b
  OBVIOUS
=============================================================================
