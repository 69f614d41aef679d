------------------------------- MODULE Orders -------------------------------
(***************************************************************************)
(* Lemmas on finite sets under a strict total order, given as a set of     *)
(* pairs: the members can be numbered in their order, which is how the     *)
(* modules of this project sort what the code sorts.  A set of naturals    *)
(* that is not empty has a least member, which replaces induction in the   *)
(* proofs.                                                                 *)
(***************************************************************************)
EXTENDS Integers, FiniteSets, FiniteSetTheorems, TLAPS

\* The members of S up to x.
Below(S, before, x) == {y \in S : y = x \/ <<y, x>> \in before}

StrictOrder(S, before) ==
  /\ \A x \in S : <<x, x>> \notin before
  /\ \A x, y, z \in S : <<x, y>> \in before /\ <<y, z>> \in before => <<x, z>> \in before
  /\ \A x, y \in S : x = y \/ <<x, y>> \in before \/ <<y, x>> \in before

\* The rank of a member is a number up to the size of the set, and a later
\* member has a larger rank.
LEMMA RankGrows ==
  ASSUME NEW S, IsFiniteSet(S), NEW before, StrictOrder(S, before)
  PROVE  /\ Cardinality(S) \in Nat
         /\ \A x \in S : Cardinality(Below(S, before, x)) \in 1 .. Cardinality(S)
         /\ \A x, y \in S : <<x, y>> \in before =>
              Cardinality(Below(S, before, x)) < Cardinality(Below(S, before, y))
<1> DEFINE B(x) == Below(S, before, x)
<1>1. Cardinality(S) \in Nat
  BY FS_CardinalityType
<1>2. ASSUME NEW x \in S
      PROVE  IsFiniteSet(B(x)) /\ Cardinality(B(x)) \in 1 .. Cardinality(S)
  <2>1. B(x) \in SUBSET S /\ x \in B(x)
    BY DEF Below
  <2>2. IsFiniteSet(B(x)) /\ Cardinality(B(x)) <= Cardinality(S)
    BY <2>1, FS_Subset
  <2>3. Cardinality(B(x)) \in Nat /\ Cardinality(B(x)) # 0
    BY <2>1, <2>2, FS_CardinalityType, FS_EmptySet
  <2> QED
    BY <1>1, <2>2, <2>3
<1>3. ASSUME NEW x \in S, NEW y \in S, <<x, y>> \in before
      PROVE  Cardinality(B(x)) < Cardinality(B(y))
  <2>1. B(x) \in SUBSET B(y) /\ y \in B(y) /\ y \notin B(x)
    <3>1. x # y /\ <<y, x>> \notin before
      BY <1>3 DEF StrictOrder
    <3>2. \A z \in S : <<z, x>> \in before => <<z, y>> \in before
      BY <1>3 DEF StrictOrder
    <3> QED
      BY <1>3, <3>1, <3>2, Zenon DEF Below
  <2>2. /\ Cardinality(B(x)) <= Cardinality(B(y))
        /\ Cardinality(B(x)) # Cardinality(B(y))
    BY <1>2, <2>1, FS_Subset
  <2>3. Cardinality(B(x)) \in Nat /\ Cardinality(B(y)) \in Nat
    <3>1. /\ Cardinality(B(x)) \in 1 .. Cardinality(S)
          /\ Cardinality(B(y)) \in 1 .. Cardinality(S)
      BY <1>2
    <3> QED
      BY <1>1, <3>1
  <2> QED
    BY <2>2, <2>3
<1> QED
  BY <1>1, <1>2, <1>3

\* Every rank is one member's, and ranks are in the order of the members.
LEMMA RankOnto ==
  ASSUME NEW S, IsFiniteSet(S), NEW before, StrictOrder(S, before)
  PROVE  /\ \A k \in 1 .. Cardinality(S) :
              \E x \in S : Cardinality(Below(S, before, x)) = k
         /\ \A x, y \in S :
              Cardinality(Below(S, before, x)) = Cardinality(Below(S, before, y)) => x = y
<1> DEFINE N == Cardinality(S)
           rank == [x \in S |-> Cardinality(Below(S, before, x))]
<1>1. N \in Nat /\ rank \in [S -> 1 .. N]
  BY RankGrows
<1>2. \A x, y \in S : rank[x] = rank[y] => x = y
  <2> TAKE x, y \in S
  <2>1. rank[x] \in Nat /\ rank[y] \in Nat
    BY <1>1
  <2>2. /\ <<x, y>> \in before => rank[x] < rank[y]
        /\ <<y, x>> \in before => rank[y] < rank[x]
    BY RankGrows
  <2>3. x = y \/ <<x, y>> \in before \/ <<y, x>> \in before
    BY DEF StrictOrder
  <2> QED
    BY <2>1, <2>2, <2>3
<1>3. rank \in Injection(S, 1 .. N)
  BY <1>1, <1>2 DEF Injection, IsInjective
<1>4. IsFiniteSet(1 .. N) /\ Cardinality(1 .. N) = N
  BY <1>1, FS_Interval
<1>5. rank \in Surjection(S, 1 .. N)
  BY <1>3, <1>4, FS_Injection
<1> QED
  BY <1>2, <1>5 DEF Surjection

\* The k-th member, and all of them in order.
Nth(S, before, k) == CHOOSE x \in S : Cardinality(Below(S, before, x)) = k

LEMMA NthMembers ==
  ASSUME NEW S, IsFiniteSet(S), NEW before, StrictOrder(S, before)
  PROVE  /\ Cardinality(S) \in Nat
         /\ \A k \in 1 .. Cardinality(S) : Nth(S, before, k) \in S
         /\ \A x \in S : \E k \in 1 .. Cardinality(S) : Nth(S, before, k) = x
         /\ \A j, k \in 1 .. Cardinality(S) :
              j < k <=> <<Nth(S, before, j), Nth(S, before, k)>> \in before
<1> DEFINE N == Cardinality(S)
           nth(k) == Nth(S, before, k)
           rank(x) == Cardinality(Below(S, before, x))
<1>1. /\ N \in Nat
      /\ \A x \in S : rank(x) \in 1 .. N
      /\ \A x, y \in S : <<x, y>> \in before => rank(x) < rank(y)
  BY RankGrows
<1>2. /\ \A k \in 1 .. N : \E x \in S : rank(x) = k
      /\ \A x, y \in S : rank(x) = rank(y) => x = y
  BY RankOnto
<1> HIDE DEF rank
<1>3. \A k \in 1 .. N : nth(k) \in S /\ rank(nth(k)) = k
  BY <1>2 DEF Nth, rank
<1>4. \A x \in S : \E k \in 1 .. N : nth(k) = x
  BY <1>1, <1>2, <1>3
<1>5. ASSUME NEW j \in 1 .. N, NEW k \in 1 .. N
      PROVE  j < k <=> <<nth(j), nth(k)>> \in before
  <2>1. nth(j) \in S /\ nth(k) \in S /\ rank(nth(j)) = j /\ rank(nth(k)) = k
    BY <1>3
  <2>2. \/ nth(j) = nth(k)
        \/ <<nth(j), nth(k)>> \in before
        \/ <<nth(k), nth(j)>> \in before
    BY <2>1 DEF StrictOrder
  <2>3. /\ <<nth(j), nth(k)>> \in before => j < k
        /\ <<nth(k), nth(j)>> \in before => k < j
        /\ nth(j) = nth(k) => j = k
    BY <1>1, <2>1
  <2>4. j \in Nat /\ k \in Nat
    BY <1>1
  <2> QED
    BY <2>2, <2>3, <2>4
<1> QED
  BY <1>1, <1>3, <1>4, <1>5

\* Numbers in their own order.
LEMMA NumbersOrder ==
  ASSUME NEW S \in SUBSET Int
  PROVE  StrictOrder(S, {p \in S \X S : p[1] < p[2]})
<1> DEFINE before == {p \in S \X S : p[1] < p[2]}
<1>1. \A x, y \in S : <<x, y>> \in before <=> x < y
  OBVIOUS
<1>2. \A x \in S : x \in Int
  OBVIOUS
<1> HIDE DEF before
<1>3. \A x \in S : <<x, x>> \notin before
  BY <1>1, <1>2
<1>4. \A x, y, z \in S : <<x, y>> \in before /\ <<y, z>> \in before => <<x, z>> \in before
  BY <1>1, <1>2
<1>5. \A x, y \in S : x = y \/ <<x, y>> \in before \/ <<y, x>> \in before
  <2>1. \A x, y \in S : x = y \/ x < y \/ y < x
    BY <1>2
  <2> QED
    BY <1>1, <2>1, Zenon
<1>6. StrictOrder(S, before)
  BY <1>3, <1>4, <1>5 DEF StrictOrder
<1> QED
  BY <1>6 DEF before

\* A set of naturals that has a member has a least one.
LEMMA LeastNatural ==
  ASSUME NEW S \in SUBSET Nat, NEW m \in S
  PROVE  \E k \in S : \A j \in S : k <= j
<1> DEFINE T == S \cap (0 .. m)
           before == {p \in T \X T : p[1] < p[2]}
           first == Nth(T, before, 1)
<1>1. T \in SUBSET (0 .. m) /\ m \in T /\ T \in SUBSET Int /\ m \in Int
  OBVIOUS
<1>2. \A j \in S : j \in Nat /\ (j \in T \/ m < j)
  OBVIOUS
<1> HIDE DEF T
<1>3. IsFiniteSet(T)
  <2>1. IsFiniteSet(0 .. m)
    BY <1>1, FS_Interval
  <2> QED
    BY <1>1, <2>1, FS_Subset
<1>4. \A x, y \in T : <<x, y>> \in before <=> x < y
  OBVIOUS
<1>5. StrictOrder(T, before)
  BY <1>1, NumbersOrder
<1> HIDE DEF before
<1>6. /\ Cardinality(T) \in Nat
      /\ \A k \in 1 .. Cardinality(T) : Nth(T, before, k) \in T
      /\ \A x \in T : \E k \in 1 .. Cardinality(T) : Nth(T, before, k) = x
      /\ \A j, k \in 1 .. Cardinality(T) :
           j < k <=> <<Nth(T, before, j), Nth(T, before, k)>> \in before
  BY <1>3, <1>5, NthMembers
<1>7. 1 \in 1 .. Cardinality(T) /\ \A k \in 1 .. Cardinality(T) : k = 1 \/ 1 < k
  BY <1>1, <1>6
<1>8. first \in T
  BY <1>6, <1>7
<1>9. ASSUME NEW j \in T
      PROVE  first = j \/ first < j
  <2>1. PICK k \in 1 .. Cardinality(T) : Nth(T, before, k) = j
    BY <1>6
  <2>2. k = 1 \/ <<first, j>> \in before
    BY <1>6, <1>7, <2>1
  <2> QED
    BY <1>4, <1>8, <2>1, <2>2
<1>10. first \in S /\ first \in Nat /\ first <= m
  BY <1>1, <1>8 DEF T
<1>11. ASSUME NEW j \in S
       PROVE  first <= j
  <2>1. CASE j \in T
    BY <1>2, <1>9, <1>10, <2>1
  <2>2. CASE m < j
    BY <1>1, <1>2, <1>10, <2>2
  <2> QED
    BY <1>2, <2>1, <2>2
<1> QED
  BY <1>10, <1>11

=============================================================================
