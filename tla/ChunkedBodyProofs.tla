-------------------------- MODULE ChunkedBodyProofs --------------------------
(***************************************************************************)
(* Proofs about ChunkedBody.  The fragments of a plan are the view, cut    *)
(* where no if/else chain is open; every store call of the view is in the  *)
(* stitched body; what is validated passed the combined gates.             *)
(***************************************************************************)
EXTENDS ChunkedBody, Orders, SequenceTheorems

-----------------------------------------------------------------------------
(* The cuts of a view.                                                     *)

\* The cuts are numbered in their order, and the last is the view's end.
LEMMA CutOrder ==
  ASSUME NEW n \in Nat, NEW cuts \in SUBSET (0 .. n), n \in cuts
  PROVE  /\ Cardinality(cuts) \in Nat \ {0}
         /\ \A k \in 1 .. Cardinality(cuts) : Cut(cuts, k) \in cuts
         /\ \A j, k \in 1 .. Cardinality(cuts) : j < k => Cut(cuts, j) < Cut(cuts, k)
         /\ Cut(cuts, Cardinality(cuts)) = n
<1> DEFINE N == Cardinality(cuts)
           before == {p \in cuts \X cuts : p[1] < p[2]}
<1>1. IsFiniteSet(cuts) /\ \A c \in cuts : c \in Int
  <2>1. IsFiniteSet(0 .. n)
    <3>1. 0 \in Int /\ n \in Int
      OBVIOUS
    <3> QED
      BY <3>1, FS_Interval
  <2>2. IsFiniteSet(cuts)
    BY <2>1, FS_Subset
  <2> QED
    BY <2>2
<1>2. StrictOrder(cuts, before)
  BY <1>1, NumbersOrder
<1>3. \A c, d \in cuts : <<c, d>> \in before <=> c < d
  OBVIOUS
<1> HIDE DEF before
<1>4. /\ N \in Nat
      /\ \A k \in 1 .. N : Nth(cuts, before, k) \in cuts
      /\ \A c \in cuts : \E k \in 1 .. N : Nth(cuts, before, k) = c
      /\ \A j, k \in 1 .. N :
           j < k <=> <<Nth(cuts, before, j), Nth(cuts, before, k)>> \in before
  BY <1>1, <1>2, NthMembers
<1>5. N \in Nat \ {0}
  BY <1>4
<1>6. ASSUME NEW k \in 1 .. N
      PROVE  Cut(cuts, k) = Nth(cuts, before, k)
  <2>1. k # 0
    BY <1>4
  <2>2. ASSUME NEW c \in cuts
        PROVE  {d \in cuts : d <= c} = Below(cuts, before, c)
    <3>1. \A d \in cuts : d <= c <=> (d = c \/ d < c)
      BY <1>1
    <3> QED
      BY <1>3, <3>1 DEF Below
  <2>3. \A c \in cuts : Cardinality({d \in cuts : d <= c}) = k
                       <=> Cardinality(Below(cuts, before, c)) = k
    BY <2>2
  <2> QED
    BY <2>1, <2>3, Zenon DEF Cut, Nth
<1>7. \A k \in 1 .. N : Cut(cuts, k) \in cuts
  BY <1>4, <1>6
<1>8. ASSUME NEW j \in 1 .. N, NEW k \in 1 .. N, j < k
      PROVE  Cut(cuts, j) < Cut(cuts, k)
  <2>1. <<Nth(cuts, before, j), Nth(cuts, before, k)>> \in before
    BY <1>4, <1>8
  <2>2. Nth(cuts, before, j) \in cuts /\ Nth(cuts, before, k) \in cuts
    BY <1>4
  <2>3. Nth(cuts, before, j) < Nth(cuts, before, k)
    BY <1>3, <2>1, <2>2
  <2> QED
    BY <1>6, <2>3
<1>9. Cut(cuts, N) = n
  <2>1. PICK k \in 1 .. N : Cut(cuts, k) = n
    BY <1>4, <1>6
  <2>2. N \in 1 .. N /\ (k = N \/ k < N)
    BY <1>5
  <2>3. k < N => n < Cut(cuts, N)
    BY <1>8, <2>1, <2>2
  <2>4. Cut(cuts, N) \in 0 .. n
    BY <1>7, <2>2
  <2> QED
    BY <2>1, <2>2, <2>3, <2>4
<1> QED
  BY <1>5, <1>7, <1>8, <1>9

\* A view is cut after each of ends, and at its end.
Cuts(v, ends) == ends \cup {Len(v)}
Count(v, ends) == Cardinality(Cuts(v, ends))
At(v, ends, k) == Cut(Cuts(v, ends), k)

\* The lines of v the k-th piece stands for.
Piece(v, ends, k) == SubSeq(v, At(v, ends, k - 1) + 1, At(v, ends, k))

\* From line a + 1 to line b.
LEMMA Lines ==
  ASSUME NEW S, NEW v \in Seq(S), NEW a \in 0 .. Len(v), NEW b \in a .. Len(v)
  PROVE  /\ SubSeq(v, a + 1, b) \in Seq(S)
         /\ Len(SubSeq(v, a + 1, b)) = b - a
         /\ \A i \in 1 .. (b - a) : SubSeq(v, a + 1, b)[i] = v[a + i]
<1>1. Len(v) \in Nat /\ \A i \in 1 .. Len(v) : v[i] \in S
  BY LenProperties, ElementOfSeq
<1>2. a \in Nat /\ b \in Nat /\ a <= b /\ b <= Len(v)
  BY <1>1
<1>3. a + 1 \in Int /\ b \in Int /\ \A i \in (a + 1) .. b : v[i] \in S
  BY <1>1, <1>2
<1>4. /\ SubSeq(v, a + 1, b) \in Seq(S)
      /\ Len(SubSeq(v, a + 1, b)) = IF a + 1 <= b THEN b - (a + 1) + 1 ELSE 0
      /\ \A i \in 1 .. (b - (a + 1) + 1) : SubSeq(v, a + 1, b)[i] = v[(a + 1) + i - 1]
  BY <1>3, SubSeqProperties
<1>5. Len(SubSeq(v, a + 1, b)) = b - a
  BY <1>2, <1>4
<1>6. ASSUME NEW i \in 1 .. (b - a)
      PROVE  SubSeq(v, a + 1, b)[i] = v[a + i]
  <2>1. i \in 1 .. (b - (a + 1) + 1) /\ (a + 1) + i - 1 = a + i
    BY <1>2
  <2> QED
    BY <1>4, <2>1
<1> QED
  BY <1>4, <1>5, <1>6

\* The k-th piece goes from the cut before it to its own; a piece but the
\* first is not empty and starts after one of ends.
LEMMA PieceCuts ==
  ASSUME NEW S, NEW v \in Seq(S), NEW ends \in SUBSET (1 .. Len(v))
  PROVE  /\ Count(v, ends) \in Nat \ {0}
         /\ At(v, ends, 0) = 0 /\ At(v, ends, Count(v, ends)) = Len(v)
         /\ Pieces(v, ends) = [k \in 1 .. Count(v, ends) |-> Piece(v, ends, k)]
         /\ \A k \in 1 .. Count(v, ends) :
              /\ At(v, ends, k - 1) \in 0 .. Len(v)
              /\ At(v, ends, k) \in At(v, ends, k - 1) .. Len(v)
              /\ k > 1 => At(v, ends, k - 1) \in ends /\ At(v, ends, k - 1) < At(v, ends, k)
<1> DEFINE cuts == Cuts(v, ends)
           N == Count(v, ends)
           at(k) == At(v, ends, k)
<1>1. Len(v) \in Nat
  BY LenProperties
<1>2. cuts \in SUBSET (0 .. Len(v)) /\ Len(v) \in cuts
  <2>1. \A c \in 1 .. Len(v) : c \in 0 .. Len(v)
    BY <1>1
  <2>2. Len(v) \in 0 .. Len(v)
    BY <1>1
  <2> QED
    BY <2>1, <2>2, Zenon DEF Cuts
<1>3. /\ N \in Nat \ {0} /\ at(N) = Len(v)
      /\ \A k \in 1 .. N : at(k) \in cuts
      /\ \A j, k \in 1 .. N : j < k => at(j) < at(k)
  BY <1>1, <1>2, CutOrder DEF Count, At
<1>4. at(0) = 0
  BY DEF At, Cut
<1>5. Pieces(v, ends) = [k \in 1 .. N |-> Piece(v, ends, k)]
  BY DEF Pieces, Cuts, Count, At, Piece
<1> HIDE DEF cuts
<1>6. ASSUME NEW k \in 1 .. N
      PROVE  /\ at(k - 1) \in 0 .. Len(v) /\ at(k) \in at(k - 1) .. Len(v)
             /\ k > 1 => at(k - 1) \in ends /\ at(k - 1) < at(k)
  <2>1. at(k) \in 0 .. Len(v)
    BY <1>2, <1>3
  <2>2. CASE k = 1
    <3>1. k - 1 = 0
      BY <2>2
    <3> QED
      BY <1>1, <1>4, <2>1, <2>2, <3>1
  <2>3. CASE k # 1
    <3>1. k - 1 \in 1 .. N /\ k - 1 < k
      BY <1>3, <2>3
    <3>2. at(k - 1) \in cuts /\ at(k - 1) < at(k)
      BY <1>3, <3>1
    <3>3. at(k - 1) \in 0 .. Len(v)
      BY <1>2, <3>2
    <3>4. at(k - 1) # Len(v)
      BY <1>1, <2>1, <3>2, <3>3
    <3>5. at(k - 1) \in ends
      BY <3>2, <3>4 DEF cuts, Cuts
    <3> QED
      BY <1>1, <2>1, <3>2, <3>3, <3>5
  <2> QED
    BY <2>2, <2>3
<1>7. \A k \in 1 .. N :
        /\ at(k - 1) \in 0 .. Len(v) /\ at(k) \in at(k - 1) .. Len(v)
        /\ k > 1 => at(k - 1) \in ends /\ at(k - 1) < at(k)
  BY <1>6
<1> QED
  BY <1>3, <1>4, <1>5, <1>7, Zenon

-----------------------------------------------------------------------------
(* The plan: the pieces are the view.                                      *)

\* What FlattenSeq folds with, for the first k sequences of s.
Folded(s, k, f) == f = [i \in 1 .. k |-> IF i = 1 THEN s[i] ELSE f[i - 1] \o s[i]]

\* The recursive function exists: there is no least length without one.
LEMMA FoldExists ==
  ASSUME NEW s, NEW k \in Nat \ {0}
  PROVE  \E f : Folded(s, k, f)
<1> DEFINE Bad == {n \in Nat \ {0} : ~ \E f : Folded(s, n, f)}
<1> SUFFICES ASSUME k \in Bad PROVE FALSE
  OBVIOUS
<1>1. PICK m \in Bad : \A n \in Bad : m <= n
  BY LeastNatural
<1>2. m \in Nat \ {0} /\ ~ \E f : Folded(s, m, f)
  OBVIOUS
<1>3. CASE m = 1
  <2>1. Folded(s, 1, [i \in 1 .. 1 |-> s[i]])
    BY DEF Folded
  <2> QED
    BY <1>2, <1>3, <2>1
<1>4. CASE m # 1
  <2>1. m - 1 \in Nat \ {0} /\ m - 1 \notin Bad
    BY <1>1, <1>2, <1>4
  <2>2. PICK f : Folded(s, m - 1, f)
    BY <2>1
  <2> DEFINE g == [i \in 1 .. m |-> IF i = m THEN f[m - 1] \o s[m] ELSE f[i]]
  <2>3. ASSUME NEW i \in 1 .. m
        PROVE  g[i] = IF i = 1 THEN s[i] ELSE g[i - 1] \o s[i]
    <3>1. CASE i = m
      <4>1. m \in 1 .. m /\ m - 1 \in 1 .. m /\ m - 1 # m
        BY <1>2, <1>4
      <4>2. g[m] = f[m - 1] \o s[m] /\ g[m - 1] = f[m - 1]
        BY <4>1
      <4> QED
        BY <1>4, <3>1, <4>2
    <3>2. CASE i # m
      <4>1. i \in 1 .. (m - 1) /\ g[i] = f[i]
        BY <1>2, <3>2
      <4>2. f[i] = IF i = 1 THEN s[i] ELSE f[i - 1] \o s[i]
        BY <2>2, <4>1 DEF Folded
      <4>3. i # 1 => g[i - 1] = f[i - 1]
        BY <1>2, <4>1
      <4> QED
        BY <4>1, <4>2, <4>3
    <3> QED
      BY <3>1, <3>2
  <2>4. g = [i \in 1 .. m |-> IF i = 1 THEN s[i] ELSE g[i - 1] \o s[i]]
    BY <2>3
  <2> HIDE DEF g
  <2>5. Folded(s, m, g)
    BY <2>4 DEF Folded
  <2> QED
    BY <1>2, <2>5
<1> QED
  BY <1>3, <1>4

LEMMA FlattenFolds ==
  ASSUME NEW s, Len(s) \in Nat \ {0}
  PROVE  \E f : Folded(s, Len(s), f) /\ FlattenSeq(s) = f[Len(s)]
<1> DEFINE n == Len(s)
           P(f) == f = [i \in 1 .. n |-> IF i = 1 THEN s[i] ELSE f[i - 1] \o s[i]]
<1>1. FlattenSeq(s) = (CHOOSE f : P(f))[n]
  BY DEF FlattenSeq
<1>2. \E f : P(f)
  BY FoldExists DEF Folded
<1> HIDE DEF P
<1>3. P(CHOOSE f : P(f))
  BY <1>2
<1> USE DEF P
<1> QED
  BY <1>1, <1>3 DEF Folded

\* Cut anywhere, the pieces in order are the view.
LEMMA PiecesAreTheView ==
  ASSUME NEW S, NEW v \in Seq(S), NEW ends \in SUBSET (1 .. Len(v))
  PROVE  FlattenSeq(Pieces(v, ends)) = v
<1> DEFINE p == Pieces(v, ends)
           N == Count(v, ends)
           at(k) == At(v, ends, k)
<1>1. /\ Len(v) \in Nat /\ N \in Nat \ {0} /\ at(0) = 0 /\ at(N) = Len(v)
      /\ p = [k \in 1 .. N |-> Piece(v, ends, k)]
      /\ \A k \in 1 .. N : /\ at(k - 1) \in 0 .. Len(v)
                           /\ at(k) \in at(k - 1) .. Len(v)
  BY PieceCuts, LenProperties
<1>2. Len(p) = N
  BY <1>1
<1>3. PICK f : Folded(p, N, f) /\ FlattenSeq(p) = f[N]
  BY <1>1, <1>2, FlattenFolds
<1> DEFINE Bad == {k \in 1 .. N : f[k] # SubSeq(v, 1, at(k))}
<1>4. Bad = {}
  <2> SUFFICES ASSUME NEW b \in Bad PROVE FALSE
    OBVIOUS
  <2>1. Bad \in SUBSET Nat
    BY <1>1
  <2>2. PICK m \in Bad : \A k \in Bad : m <= k
    BY <2>1, LeastNatural
  <2>3. m \in 1 .. N /\ f[m] # SubSeq(v, 1, at(m))
    OBVIOUS
  <2>4. /\ f[m] = IF m = 1 THEN p[m] ELSE f[m - 1] \o p[m]
        /\ p[m] = SubSeq(v, at(m - 1) + 1, at(m))
    BY <1>1, <1>3, <2>3 DEF Folded, Piece
  <2>5. CASE m = 1
    <3>1. m - 1 = 0 /\ at(m - 1) + 1 = 1
      BY <1>1, <2>5
    <3> QED
      BY <2>3, <2>4, <2>5, <3>1
  <2>6. CASE m # 1
    <3>1. m - 1 \in 1 .. N /\ m - 1 < m
      BY <1>1, <2>3, <2>6
    <3>2. f[m - 1] = SubSeq(v, 1, at(m - 1))
      BY <1>1, <2>2, <2>3, <3>1
    <3>3. /\ 1 \in 1 .. Len(v) + 1 /\ at(m - 1) \in (1 - 1) .. Len(v)
          /\ at(m) \in at(m - 1) .. Len(v)
      BY <1>1, <2>3
    <3>4. SubSeq(v, 1, at(m - 1)) \o SubSeq(v, at(m - 1) + 1, at(m)) = SubSeq(v, 1, at(m))
      BY <3>3, ConcatAdjacentSubSeq
    <3> QED
      BY <2>3, <2>4, <2>6, <3>2, <3>4
  <2> QED
    BY <2>5, <2>6
<1>5. f[N] = SubSeq(v, 1, at(N))
  BY <1>1, <1>4
<1> QED
  BY <1>1, <1>3, <1>5, SubSeqFull

-----------------------------------------------------------------------------
(* The plan: no piece begins inside a chain, no line is lost.              *)

\* What a piece begins with, the view goes on with after the cut.
LEMMA BeginsAsView ==
  ASSUME NEW S, NEW v \in Seq(S), NEW a \in 0 .. Len(v), NEW b \in a .. Len(v),
         NEW kinds, NextBegins(SubSeq(v, a + 1, b), 0, kinds)
  PROVE  NextBegins(v, a, kinds)
<1> DEFINE p == SubSeq(v, a + 1, b)
<1>1. /\ Len(v) \in Nat /\ a \in Nat /\ b \in Nat /\ b <= Len(v)
      /\ Len(p) = b - a /\ \A i \in 1 .. (b - a) : p[i] = v[a + i]
  BY Lines, LenProperties
<1> HIDE DEF p
<1>2. PICK j \in (0 + 1) .. Len(p) :
        /\ \A h \in (0 + 1) .. (j - 1) : p[h].kind = "blank"
        /\ p[j].kind \in kinds
  BY DEF NextBegins, p
<1> DEFINE m == a + j
<1>3. m \in (a + 1) .. Len(v) /\ v[m].kind \in kinds
  BY <1>1, <1>2
<1>4. ASSUME NEW h \in (a + 1) .. (m - 1)
      PROVE  v[h].kind = "blank"
  <2>1. h - a \in (0 + 1) .. (j - 1) /\ h - a \in 1 .. (b - a) /\ a + (h - a) = h
    BY <1>1, <1>2
  <2> QED
    BY <1>1, <1>2, <2>1
<1> HIDE DEF m
<1>5. \A h \in (a + 1) .. (m - 1) : v[h].kind = "blank"
  BY <1>4
<1> QED
  BY <1>3, <1>5 DEF NextBegins

\* Every line of the view is a line of a piece.
LEMMA LinesHavePieces ==
  ASSUME NEW S, NEW v \in Seq(S), NEW ends \in SUBSET (1 .. Len(v)),
         NEW i \in 1 .. Len(v)
  PROVE  \E k \in 1 .. Count(v, ends) :
           \E j \in 1 .. Len(Piece(v, ends, k)) : Piece(v, ends, k)[j] = v[i]
<1> DEFINE N == Count(v, ends)
           at(k) == At(v, ends, k)
           S1 == {k \in 1 .. N : i <= at(k)}
<1>1. /\ Len(v) \in Nat /\ N \in Nat \ {0} /\ at(0) = 0 /\ at(N) = Len(v)
      /\ \A k \in 1 .. N : /\ at(k - 1) \in 0 .. Len(v)
                           /\ at(k) \in at(k - 1) .. Len(v)
  BY PieceCuts, LenProperties
<1>2. N \in S1 /\ S1 \in SUBSET Nat
  BY <1>1
<1>3. PICK k \in S1 : \A j \in S1 : k <= j
  BY <1>2, LeastNatural
<1>4. k \in 1 .. N /\ i <= at(k)
  OBVIOUS
<1>5. at(k - 1) < i
  <2>1. CASE k = 1
    <3>1. k - 1 = 0
      BY <2>1
    <3> QED
      BY <1>1, <3>1
  <2>2. CASE k # 1
    <3>1. k - 1 \in 1 .. N /\ k - 1 < k
      BY <1>1, <1>4, <2>2
    <3>2. ~ (i <= at(k - 1))
      BY <1>1, <1>3, <1>4, <3>1
    <3>3. at(k - 1) \in Nat
      BY <1>1, <1>4
    <3> QED
      BY <3>2, <3>3
  <2> QED
    BY <2>1, <2>2
<1>6. /\ at(k - 1) \in 0 .. Len(v) /\ at(k) \in at(k - 1) .. Len(v)
  BY <1>1, <1>4
<1>7. /\ Len(Piece(v, ends, k)) = at(k) - at(k - 1)
      /\ \A j \in 1 .. (at(k) - at(k - 1)) : Piece(v, ends, k)[j] = v[at(k - 1) + j]
  BY <1>6, Lines DEF Piece
<1>8. /\ i - at(k - 1) \in 1 .. (at(k) - at(k - 1))
      /\ at(k - 1) + (i - at(k - 1)) = i
  BY <1>1, <1>4, <1>5, <1>6
<1> QED
  BY <1>4, <1>7, <1>8

\* The lines a plan cuts after.
ChunkEnds(v, b, ends) ==
  /\ ends \in SUBSET UnitEnds(v)
  /\ GroupFragments(v, b) = Pieces(v, ends)

\* Units are cut where no chain is open, and chunks where units are.
LEMMA PlanCutsUnits ==
  ASSUME NEW S, NEW v \in Seq(S), NEW b
  PROVE  /\ UnitEnds(v) \in SUBSET (1 .. Len(v))
         /\ \E ends : ChunkEnds(v, b, ends)
<1> DEFINE U == UnitEnds(v)
           N == Count(v, U)
<1>1. U \in SUBSET (1 .. Len(v))
  BY LenProperties DEF UnitEnds, StatementEnds
<1>2. /\ Len(v) \in Nat /\ N \in Nat \ {0} /\ At(v, U, N) = Len(v)
      /\ Pieces(v, U) = [k \in 1 .. N |-> Piece(v, U, k)]
      /\ \A k \in 1 .. N : k > 1 => At(v, U, k - 1) \in U
  BY <1>1, PieceCuts, LenProperties
<1>3. Len(UnitsOf(v)) = N
  BY <1>2 DEF UnitsOf
<1>4. ASSUME NEW k \in 1 .. (N - 1)
      PROVE  Cut(U \cup {Len(v)}, k) \in U
  <2>1. k + 1 \in 1 .. N /\ k + 1 > 1 /\ (k + 1) - 1 = k
    BY <1>2
  <2>2. At(v, U, (k + 1) - 1) \in U
    BY <1>2, <2>1
  <2> QED
    BY <2>1, <2>2 DEF At, Cuts
<1> HIDE DEF U, N
<1>5. \E T \in SUBSET (1 .. (N - 1)) :
        GroupFragments(v, b) = Pieces(v, {Cut(U \cup {Len(v)}, k) : k \in T})
  BY <1>3 DEF GroupFragments, U
<1>6. PICK T \in SUBSET (1 .. (N - 1)) :
        GroupFragments(v, b) = Pieces(v, {Cut(U \cup {Len(v)}, k) : k \in T})
  BY <1>5
<1>7. {Cut(U \cup {Len(v)}, k) : k \in T} \in SUBSET U
  BY <1>4
<1> QED
  BY <1>1, <1>6, <1>7 DEF ChunkEnds, U

-----------------------------------------------------------------------------
(* The inductive invariant.                                                *)

\* The plan is made once, and nothing is converted before it is.
PlanInv ==
  /\ pc = "plan" => chunks = <<>> /\ bodies = <<>>
  /\ chunks = <<>> \/ chunks = GroupFragments(view, budget)
  /\ pc \notin {"plan", "failed"} => chunks = GroupFragments(view, budget)

\* An accepted fragment has the calls of its lines, the stitch those of all.
CallsInv ==
  /\ \A k \in DOMAIN bodies : Own(k) \subseteq bodies[k]
  /\ StitchKeepsCalls

\* What reaches the composer or the end of the path passed the gates.
PassInv ==
  /\ pc \in {"compose", "finish", "validated"} => Passes(body)
  /\ pc = "validated" => axis \/ kept = body

IInv == TypeOK /\ PlanInv /\ CallsInv /\ PassInv

LEMMA ViewType ==
  ASSUME view \in Views
  PROVE  view \in Seq(Range(view))
BY ChunkAssumption

\* A plan is a sequence of at least one fragment, each of lines of the view.
LEMMA PlanType ==
  ASSUME view \in Views, NEW b
  PROVE  /\ GroupFragments(view, b) \in Seq(Seq(Range(view)))
         /\ GroupFragments(view, b) # <<>>
<1>1. view \in Seq(Range(view))
  BY ViewType
<1>2. PICK ends : ChunkEnds(view, b, ends)
  BY <1>1, PlanCutsUnits
<1>3. /\ ends \in SUBSET (1 .. Len(view))
      /\ GroupFragments(view, b) = Pieces(view, ends)
  BY <1>1, <1>2, PlanCutsUnits DEF ChunkEnds
<1> DEFINE N == Count(view, ends)
<1>4. /\ N \in Nat \ {0}
      /\ Pieces(view, ends) = [k \in 1 .. N |-> Piece(view, ends, k)]
      /\ \A k \in 1 .. N : /\ At(view, ends, k - 1) \in 0 .. Len(view)
                           /\ At(view, ends, k) \in At(view, ends, k - 1) .. Len(view)
  BY <1>1, <1>3, PieceCuts
<1>5. \A k \in 1 .. N : Piece(view, ends, k) \in Seq(Range(view))
  BY <1>1, <1>4, Lines DEF Piece
<1>6. Pieces(view, ends) \in [1 .. N -> Seq(Range(view))]
  BY <1>4, <1>5
<1>7. Pieces(view, ends) \in Seq(Seq(Range(view))) /\ Len(Pieces(view, ends)) = N
  BY <1>4, <1>6, SeqDef
<1> QED
  BY <1>3, <1>4, <1>7

\* The calls of the view are those of the fragments.
LEMMA PlanHasCalls ==
  ASSUME view \in Views, NEW b, NEW c \in Calls
  PROVE  \E k \in DOMAIN GroupFragments(view, b) :
           c \in RequiredCalls(GroupFragments(view, b)[k], NoCall)
<1>1. view \in Seq(Range(view))
  BY ViewType
<1>2. PICK ends : ChunkEnds(view, b, ends)
  BY <1>1, PlanCutsUnits
<1>3. /\ ends \in SUBSET (1 .. Len(view))
      /\ GroupFragments(view, b) = Pieces(view, ends)
  BY <1>1, <1>2, PlanCutsUnits DEF ChunkEnds
<1>4. PICK i \in DOMAIN view : c = view[i].call /\ c # NoCall
  BY DEF Calls, RequiredCalls
<1>5. i \in 1 .. Len(view)
  BY <1>1, LenProperties
<1>6. PICK k \in 1 .. Count(view, ends) :
        \E j \in 1 .. Len(Piece(view, ends, k)) : Piece(view, ends, k)[j] = view[i]
  BY <1>1, <1>3, <1>5, LinesHavePieces
<1>7. PICK j \in 1 .. Len(Piece(view, ends, k)) : Piece(view, ends, k)[j] = view[i]
  BY <1>6
<1>8. /\ Pieces(view, ends) = [n \in 1 .. Count(view, ends) |-> Piece(view, ends, n)]
      /\ At(view, ends, k - 1) \in 0 .. Len(view)
      /\ At(view, ends, k) \in At(view, ends, k - 1) .. Len(view)
  BY <1>1, <1>3, PieceCuts
<1>9. DOMAIN Piece(view, ends, k) = 1 .. Len(Piece(view, ends, k))
  BY <1>1, <1>8, Lines, LenProperties DEF Piece
<1> QED
  BY <1>3, <1>4, <1>6, <1>7, <1>8, <1>9 DEF RequiredCalls

\* In order the fragments are the view, and none but the first begins
\* inside an if/else chain.
LEMMA PlanIsTheView ==
  ASSUME view \in Views, NEW b
  PROVE  /\ FlattenSeq(GroupFragments(view, b)) = view
         /\ \A k \in DOMAIN GroupFragments(view, b) :
              k > 1 => ~ NextBegins(GroupFragments(view, b)[k], 0, StartsElse)
<1>1. view \in Seq(Range(view))
  BY ViewType
<1>2. PICK ends : ChunkEnds(view, b, ends)
  BY <1>1, PlanCutsUnits
<1>3. /\ ends \in SUBSET (1 .. Len(view)) /\ ends \in SUBSET UnitEnds(view)
      /\ GroupFragments(view, b) = Pieces(view, ends)
  BY <1>1, <1>2, PlanCutsUnits DEF ChunkEnds
<1> DEFINE N == Count(view, ends)
           at(k) == At(view, ends, k)
<1>4. /\ Pieces(view, ends) = [k \in 1 .. N |-> Piece(view, ends, k)]
      /\ \A k \in 1 .. N :
           /\ at(k - 1) \in 0 .. Len(view) /\ at(k) \in at(k - 1) .. Len(view)
           /\ k > 1 => at(k - 1) \in ends
  BY <1>1, <1>3, PieceCuts
<1>5. ASSUME NEW k \in 1 .. N, k > 1, NextBegins(Piece(view, ends, k), 0, StartsElse)
      PROVE  FALSE
  <2>1. NextBegins(view, at(k - 1), StartsElse)
    BY <1>1, <1>4, <1>5, BeginsAsView DEF Piece
  <2>2. at(k - 1) \in UnitEnds(view)
    BY <1>3, <1>4, <1>5
  <2> QED
    BY <2>1, <2>2 DEF UnitEnds
<1>6. FlattenSeq(Pieces(view, ends)) = view
  BY <1>1, <1>3, PiecesAreTheView
<1> QED
  BY <1>3, <1>4, <1>5, <1>6

LEMMA InvInit == Init => IInv
<1> SUFFICES ASSUME Init PROVE IInv
  OBVIOUS
<1>1. /\ <<>> \in Seq(Seq(Range(view))) /\ <<>> \in Seq(SUBSET Calls) /\ Len(<<>>) = 0
  BY EmptySeq
<1>2. TypeOK
  <2>1. {body, kept} \subseteq [calls : SUBSET Calls, faults : SUBSET Faults]
    BY DEF Init, NoBody
  <2>2. /\ chunks \in Seq(Seq(Range(view))) /\ bodies \in Seq(SUBSET Calls)
        /\ Len(bodies) <= Len(chunks)
    BY <1>1 DEF Init
  <2> QED
    BY <2>1, <2>2 DEF Init, TypeOK
<1>3. PlanInv /\ PassInv
  BY DEF Init, PlanInv, PassInv
<1>4. CallsInv
  BY DEF Init, CallsInv, StitchKeepsCalls
<1> QED
  BY <1>2, <1>3, <1>4 DEF IInv

\* The calls of the view are what every gate demands, and the view stays.
LEMMA Frame ==
  ASSUME Next
  PROVE  /\ view' = view /\ budget' = budget /\ axis' = axis /\ Calls' = Calls
         /\ chunks' = chunks \/ PlanFragments
         /\ bodies' = bodies \/ FragmentAccepted
<1>1. view' = view /\ budget' = budget /\ axis' = axis
  BY DEF Next, Step, NoRoom, PlanFragments, FragmentAccepted, FragmentFailed, Stitch,
         WrapTx, RepairSkipped, RepairAccepted, RepairFailed, ComposeSkipped,
         ComposeAccepted, ComposeFailed, Finish, Cancel
<1>2. chunks' = chunks \/ PlanFragments
  BY DEF Next, Step, NoRoom, FragmentAccepted, FragmentFailed, Stitch,
         WrapTx, RepairSkipped, RepairAccepted, RepairFailed, ComposeSkipped,
         ComposeAccepted, ComposeFailed, Finish, Cancel
<1>3. bodies' = bodies \/ FragmentAccepted
  BY DEF Next, Step, NoRoom, PlanFragments, FragmentFailed, Stitch,
         WrapTx, RepairSkipped, RepairAccepted, RepairFailed, ComposeSkipped,
         ComposeAccepted, ComposeFailed, Finish, Cancel
<1> QED
  BY <1>1, <1>2, <1>3 DEF Calls, RequiredCalls

\* The plan is what GroupFragments returned, from the planning on.
LEMMA PlanStep == IInv /\ Next => PlanInv'
<1> SUFFICES ASSUME IInv, Next PROVE PlanInv'
  OBVIOUS
<1>1. /\ view' = view /\ budget' = budget
      /\ chunks' = chunks \/ PlanFragments
      /\ bodies' = bodies \/ FragmentAccepted
  BY Frame
<1>2. GroupFragments(view, budget)' = GroupFragments(view, budget)
  BY <1>1
<1>3. CASE PlanFragments
  BY <1>1, <1>2, <1>3 DEF PlanFragments, PlanInv, IInv, FragmentAccepted, AtFragment
<1>4. CASE ~ PlanFragments
  <2>1. chunks' = chunks
    BY <1>1, <1>4
  <2>2. pc' # "plan" \/ (pc = "plan" /\ bodies' = bodies)
    BY <1>4, <1>1 DEF Next, Step, NoRoom, PlanFragments, FragmentAccepted, FragmentFailed, Stitch,
         WrapTx, RepairSkipped, RepairAccepted, RepairFailed, ComposeSkipped,
         ComposeAccepted, ComposeFailed, Finish, Cancel, AtFragment
  <2>3. pc = "plan" => pc' \in {"plan", "failed"}
    BY <1>4 DEF Next, Step, NoRoom, FragmentAccepted, FragmentFailed, Stitch,
         WrapTx, RepairSkipped, RepairAccepted, RepairFailed, ComposeSkipped,
         ComposeAccepted, ComposeFailed, Finish, Cancel, AtFragment
  <2>4. pc = "failed" => pc' = "failed"
    BY DEF Next, Step, NoRoom, PlanFragments, FragmentAccepted, FragmentFailed, Stitch,
         WrapTx, RepairSkipped, RepairAccepted, RepairFailed, ComposeSkipped,
         ComposeAccepted, ComposeFailed, Finish, Cancel, AtFragment
  <2> QED
    BY <1>2, <2>1, <2>2, <2>3, <2>4 DEF PlanInv, IInv
<1> QED
  BY <1>3, <1>4

LEMMA TypeStep == IInv /\ Next => TypeOK'
<1> SUFFICES ASSUME IInv, Next PROVE TypeOK'
  OBVIOUS
<1>1. TypeOK /\ PlanInv
  BY DEF IInv
<1>2. view' = view /\ budget' = budget /\ axis' = axis /\ Calls' = Calls
  BY Frame
<1>3. /\ chunks' \in Seq(Seq(Range(view')))
      /\ bodies' \in Seq(SUBSET Calls')
      /\ Len(bodies') <= Len(chunks')
  <2>1. CASE PlanFragments
    <3>1. /\ chunks' = GroupFragments(view, budget) /\ bodies' = <<>>
      BY <1>1, <2>1 DEF PlanFragments, PlanInv
    <3>2. chunks' \in Seq(Seq(Range(view)))
      BY <1>1, <3>1, PlanType DEF TypeOK
    <3>3. Len(chunks') \in Nat
      BY <3>2, LenProperties
    <3>4. bodies' \in Seq(SUBSET Calls) /\ Len(bodies') = 0
      BY <3>1, EmptySeq
    <3> QED
      BY <1>2, <3>2, <3>3, <3>4
  <2>2. CASE FragmentAccepted
    <3>1. PICK calls \in SUBSET Calls : bodies' = Append(bodies, calls)
      BY <2>2 DEF FragmentAccepted
    <3>2. /\ bodies' \in Seq(SUBSET Calls) /\ Len(bodies') = Len(bodies) + 1
      BY <1>1, <3>1, AppendProperties DEF TypeOK
    <3>3. chunks' = chunks /\ Len(bodies) + 1 <= Len(chunks)
      BY <2>2 DEF FragmentAccepted, AtFragment, Turn
    <3> QED
      BY <1>1, <1>2, <3>2, <3>3 DEF TypeOK
  <2>3. CASE ~ PlanFragments /\ ~ FragmentAccepted
    <3>1. chunks' = chunks /\ bodies' = bodies
      BY <2>3, Frame
    <3> QED
      BY <1>1, <1>2, <3>1 DEF TypeOK
  <2> QED
    BY <2>1, <2>2, <2>3
<1>4. body' \in [calls : SUBSET Calls', faults : SUBSET Faults]
  <2>1. body \in [calls : SUBSET Calls, faults : SUBSET Faults]
    BY <1>1 DEF TypeOK
  <2>2. CASE Stitch
    <3>1. \A k \in DOMAIN bodies : bodies[k] \subseteq Calls
      <4>1. /\ bodies \in Seq(SUBSET Calls) /\ DOMAIN bodies = 1 .. Len(bodies)
        BY <1>1, LenProperties DEF TypeOK
      <4> QED
        BY <4>1, ElementOfSeq
    <3>2. UNION {bodies[k] : k \in DOMAIN bodies} \in SUBSET Calls
      BY <3>1
    <3>3. PICK faults \in StitchFaults :
            body' = [calls |-> UNION {bodies[k] : k \in DOMAIN bodies}, faults |-> faults]
      BY <2>2 DEF Stitch
    <3> QED
      BY <1>2, <3>2, <3>3 DEF StitchFaults, Faults
  <2>3. CASE WrapTx
    BY <1>2, <2>1, <2>3 DEF WrapTx
  <2>4. CASE RepairAccepted \/ ComposeAccepted
    BY <1>2, <2>4 DEF RepairAccepted, ComposeAccepted, Clean
  <2>5. CASE body' = body
    BY <1>2, <2>1, <2>5
  <2> QED
    BY <2>2, <2>3, <2>4, <2>5 DEF Next, Step, NoRoom, PlanFragments, FragmentAccepted,
         FragmentFailed, RepairSkipped, RepairFailed, ComposeSkipped, ComposeFailed, Finish, Cancel
<1>10. kept' \in [calls : SUBSET Calls', faults : SUBSET Faults]
  <2>1. {body, kept} \subseteq [calls : SUBSET Calls, faults : SUBSET Faults]
    BY <1>1 DEF TypeOK
  <2>2. CASE Finish
    <3>1. kept' \in {body} \cup Unwrapped(body)
      BY <2>2 DEF Finish
    <3>2. Unwrapped(body) \subseteq [calls : SUBSET Calls, faults : SUBSET Faults]
      BY <2>1 DEF Unwrapped, Faults
    <3> QED
      BY <1>2, <2>1, <3>1, <3>2
  <2>3. CASE kept' = kept
    BY <1>2, <2>1, <2>3
  <2> QED
    BY <2>2, <2>3 DEF Next, Step, NoRoom, PlanFragments, FragmentAccepted, FragmentFailed, Stitch,
         WrapTx, RepairSkipped, RepairAccepted, RepairFailed, ComposeSkipped,
         ComposeAccepted, ComposeFailed, Cancel
<1>5. spent' \in Nat
  <2>1. spent \in Nat /\ Attempts \in Nat /\ RepairAttempts \in Nat
    BY <1>1, ChunkAssumption DEF TypeOK, Attempts, RepairAttempts
  <2>2. \E c \in Nat : spent' = spent + c
    <3>1. 0 \in Nat /\ (spent' = spent => spent' = spent + 0)
      BY <2>1
    <3>2. (0 .. Attempts) \subseteq Nat /\ (0 .. RepairAttempts) \subseteq Nat
          /\ (1 .. Attempts) \subseteq Nat /\ (1 .. RepairAttempts) \subseteq Nat
      BY <2>1
    <3> QED
      BY <3>1, <3>2 DEF Next, Step, NoRoom, PlanFragments, FragmentAccepted, FragmentFailed, Stitch,
         WrapTx, RepairSkipped, RepairAccepted, RepairFailed, ComposeSkipped,
         ComposeAccepted, ComposeFailed, Finish, Cancel
  <2> QED
    BY <2>1, <2>2
<1>6. /\ pc' \in {"plan", "fragment", "wrap", "repair", "compose", "finish",
                 "validated", "failed"}
      /\ rejected' \in {"none", "fragment", "combined", "repair"}
  BY <1>1 DEF TypeOK, Next, Step, NoRoom, PlanFragments, FragmentAccepted, FragmentFailed, Stitch,
         WrapTx, RepairSkipped, RepairAccepted, RepairFailed, ComposeSkipped,
         ComposeAccepted, ComposeFailed, Finish, Cancel
<1>7. stitched' \in BOOLEAN
  BY <1>1 DEF TypeOK, Next, Step, NoRoom, PlanFragments, FragmentAccepted, FragmentFailed, Stitch,
         WrapTx, RepairSkipped, RepairAccepted, RepairFailed, ComposeSkipped,
         ComposeAccepted, ComposeFailed, Finish, Cancel, Passes
<1>8. cancelled' \in BOOLEAN
  BY <1>1 DEF TypeOK, Next, Step, NoRoom, PlanFragments, FragmentAccepted, FragmentFailed, Stitch,
         WrapTx, RepairSkipped, RepairAccepted, RepairFailed, ComposeSkipped,
         ComposeAccepted, ComposeFailed, Finish, Cancel
<1>9. view' \in Views /\ budget' \in Budgets /\ axis' \in BOOLEAN
  BY <1>1, <1>2 DEF TypeOK
<1> QED
  BY <1>3, <1>4, <1>5, <1>6, <1>7, <1>8, <1>9, <1>10 DEF TypeOK

\* The stitch has the calls of every fragment, so those of the view.
LEMMA CallsStep == IInv /\ Next => CallsInv'
<1> SUFFICES ASSUME IInv, Next PROVE CallsInv'
  OBVIOUS
<1>1. TypeOK /\ PlanInv /\ CallsInv
  BY DEF IInv
<1>2. Calls' = Calls
  BY Frame
<1>3. \A k \in DOMAIN bodies' : Own(k)' \subseteq bodies'[k]
  <2>1. CASE PlanFragments
    BY <1>1, <2>1 DEF PlanFragments, PlanInv
  <2>2. CASE FragmentAccepted
    <3>1. PICK calls \in SUBSET Calls :
            Own(Turn) \subseteq calls /\ bodies' = Append(bodies, calls)
      BY <2>2 DEF FragmentAccepted
    <3>2. chunks' = chunks
      BY <2>2 DEF FragmentAccepted
    <3>3. bodies \in Seq(SUBSET Calls) /\ DOMAIN bodies = 1 .. Len(bodies)
      BY <1>1, LenProperties DEF TypeOK
    <3>4. /\ bodies' \in Seq(SUBSET Calls) /\ Len(bodies') = Len(bodies) + 1
          /\ \A k \in 1 .. Len(bodies) : bodies'[k] = bodies[k]
          /\ bodies'[Len(bodies) + 1] = calls
      BY <3>1, <3>3, AppendProperties
    <3>5. DOMAIN bodies' = 1 .. (Len(bodies) + 1) /\ Len(bodies) \in Nat
      BY <3>3, <3>4, LenProperties
    <3>6. ASSUME NEW k \in DOMAIN bodies'
          PROVE  Own(k)' \subseteq bodies'[k]
      <4>1. Own(k)' = Own(k)
        BY <3>2 DEF Own
      <4>2. CASE k = Len(bodies) + 1
        BY <3>1, <3>4, <4>1, <4>2 DEF Turn
      <4>3. CASE k # Len(bodies) + 1
        <5>1. k \in 1 .. Len(bodies)
          BY <3>5, <4>3
        <5> QED
          BY <1>1, <3>3, <3>4, <4>1, <5>1 DEF CallsInv
      <4> QED
        BY <4>2, <4>3
    <3> QED
      BY <3>6
  <2>3. CASE ~ PlanFragments /\ ~ FragmentAccepted
    <3>1. chunks' = chunks /\ bodies' = bodies
      BY <2>3, Frame
    <3> QED
      BY <1>1, <3>1 DEF CallsInv, Own
  <2> QED
    BY <2>1, <2>2, <2>3
<1>4. StitchKeepsCalls'
  <2>1. CASE Stitch
    <3>1. Calls \subseteq UNION {bodies[k] : k \in DOMAIN bodies}
      <4> SUFFICES ASSUME NEW c \in Calls
                   PROVE  \E k \in DOMAIN bodies : c \in bodies[k]
        OBVIOUS
      <4>1. pc = "fragment" /\ ~ (Len(bodies) + 1 <= Len(chunks))
        <5>1. Len(bodies) \in Nat /\ Len(chunks) \in Nat
          BY <1>1, LenProperties DEF TypeOK
        <5> QED
          BY <2>1, <5>1 DEF Stitch, Turn
      <4>2. chunks = GroupFragments(view, budget)
        BY <1>1, <4>1 DEF PlanInv
      <4>3. PICK k \in DOMAIN chunks : c \in RequiredCalls(chunks[k], NoCall)
        BY <1>1, <4>2, PlanHasCalls DEF TypeOK
      <4>4. /\ DOMAIN bodies = 1 .. Len(bodies) /\ Len(bodies) \in Nat
            /\ DOMAIN chunks = 1 .. Len(chunks) /\ Len(chunks) \in Nat
        BY <1>1, LenProperties DEF TypeOK
      <4>5. k \in DOMAIN bodies
        BY <4>1, <4>3, <4>4
      <4> QED
        BY <1>1, <4>3, <4>5 DEF CallsInv, Own
    <3>2. body'.calls = UNION {bodies[k] : k \in DOMAIN bodies}
      BY <2>1 DEF Stitch
    <3> QED
      BY <1>2, <3>1, <3>2 DEF StitchKeepsCalls
  <2>2. CASE WrapTx
    <3>1. body'.calls = body.calls /\ pc = "wrap"
      BY <1>1, <2>2 DEF WrapTx, TypeOK
    <3> QED
      BY <1>1, <1>2, <3>1 DEF StitchKeepsCalls, CallsInv
  <2>3. CASE RepairAccepted \/ ComposeAccepted
    BY <1>2, <2>3 DEF RepairAccepted, ComposeAccepted, Clean, StitchKeepsCalls
  <2>4. CASE body' = body /\ (pc' \in {"wrap", "repair", "compose", "finish", "validated"}
                             => pc \in {"wrap", "repair", "compose", "finish", "validated"})
    BY <1>1, <1>2, <2>4 DEF StitchKeepsCalls, CallsInv
  <2> QED
    BY <2>1, <2>2, <2>3, <2>4 DEF Next, Step, NoRoom, PlanFragments, FragmentAccepted, AtFragment,
         FragmentFailed, RepairSkipped, RepairFailed, ComposeSkipped, ComposeFailed, Finish, Cancel
<1> QED
  BY <1>3, <1>4 DEF CallsInv

\* Every way to the end of the path is through the gates.
LEMMA PassStep == IInv /\ Next => PassInv'
<1> SUFFICES ASSUME IInv, Next PROVE PassInv'
  OBVIOUS
<1>1. TypeOK /\ PassInv /\ CallsInv /\ CallsInv'
  BY CallsStep DEF IInv
<1>2. Calls' = Calls /\ axis' = axis
  BY Frame
<1>7. pc' = "validated" => axis' \/ kept' = body'
  <2>1. CASE Finish
    BY <1>2, <2>1 DEF Finish
  <2>2. CASE pc' = "validated" => pc = "validated" /\ kept' = kept /\ body' = body
    BY <1>1, <1>2, <2>2 DEF PassInv
  <2> QED
    BY <2>1, <2>2 DEF Next, Step, NoRoom, PlanFragments, FragmentAccepted, AtFragment,
       FragmentFailed, Stitch, WrapTx, RepairSkipped, RepairAccepted, RepairFailed,
       ComposeSkipped, ComposeAccepted, ComposeFailed, Cancel
<1>3. CASE Stitch
  <2>1. PICK faults \in StitchFaults :
          LET b == [calls |-> UNION {bodies[k] : k \in DOMAIN bodies}, faults |-> faults] IN
          /\ body' = b
          /\ pc' = "compose" => Passes(b)
    BY <1>3 DEF Stitch
  <2>2. pc' \notin {"finish", "validated"}
    BY <1>3 DEF Stitch
  <2> QED
    BY <1>2, <2>1, <2>2, <1>7 DEF PassInv, Passes
<1>4. CASE WrapTx
  <2>1. pc' \in {"compose", "finish", "validated"} => body'.faults = {}
    BY <1>1, <1>4 DEF WrapTx, TypeOK
  <2> QED
    BY <1>1, <2>1, <1>7 DEF PassInv, Passes, CallsInv, StitchKeepsCalls
<1>5. CASE RepairAccepted \/ ComposeAccepted
  BY <1>2, <1>5, <1>7 DEF RepairAccepted, ComposeAccepted, Clean, PassInv, Passes
<1>6. CASE body' = body /\ (pc' \in {"compose", "finish", "validated"}
                           => pc \in {"compose", "finish", "validated"})
  BY <1>1, <1>2, <1>6, <1>7 DEF PassInv, Passes
<1> QED
  BY <1>3, <1>4, <1>5, <1>6 DEF Next, Step, NoRoom, PlanFragments, FragmentAccepted, AtFragment,
       FragmentFailed, RepairSkipped, RepairFailed, ComposeSkipped, ComposeFailed, Finish, Cancel

LEMMA InvStep == IInv /\ [Next]_vars => IInv'
<1>1. CASE Next
  BY <1>1, TypeStep, PlanStep, CallsStep, PassStep DEF IInv
<1>2. CASE UNCHANGED vars
  <2>1. Calls' = Calls
    BY <1>2 DEF vars, Calls, RequiredCalls
  <2> QED
    BY <1>2, <2>1 DEF vars, IInv, TypeOK, PlanInv, CallsInv, PassInv, StitchKeepsCalls, Own, Passes
<1> QED
  BY <1>1, <1>2

-----------------------------------------------------------------------------
(* What the path promises, for every view, budget and outcome of a seam.   *)

\* The invariant holds on every run.
THEOREM InvHolds == Spec => []IInv
BY InvInit, InvStep, PTL DEF Spec

\* The plan, the bodies and the body under judgement keep their types.
THEOREM TypeCorrect == Spec => []TypeOK
<1>1. IInv => TypeOK
  BY DEF IInv
<1> QED
  BY <1>1, InvHolds, PTL

\* splitStatements, glueChainUnits and groupFragments lose no line, repeat
\* none, and never hand the model the else of another fragment's if.
THEOREM FragmentsCorrect == Spec => []FragmentsAreTheView
<1>1. IInv => FragmentsAreTheView
  <2> SUFFICES ASSUME IInv PROVE Reassembles /\ NoDanglingElse
    BY DEF FragmentsAreTheView
  <2>1. view \in Views /\ (chunks = <<>> \/ chunks = GroupFragments(view, budget))
    BY DEF IInv, TypeOK, PlanInv
  <2>2. CASE chunks = <<>>
    BY <2>2 DEF Reassembles, NoDanglingElse
  <2>3. CASE chunks = GroupFragments(view, budget)
    BY <2>1, <2>3, PlanIsTheView DEF Reassembles, NoDanglingElse, StartsElse
  <2> QED
    BY <2>1, <2>2, <2>3
<1> QED
  BY <1>1, InvHolds, PTL

\* Every store call of the view is in the stitched body, and in whatever a
\* repair or the composer makes of it.
THEOREM CallsSurvive == Spec => []StitchKeepsCalls
<1>1. IInv => StitchKeepsCalls
  BY DEF IInv, CallsInv
<1> QED
  BY <1>1, InvHolds, PTL

\* A unit is recorded validated only when its body passed the combined gates,
\* whichever of the three ways it came, and that body is staged, unless it is
\* the arm of an entry.
THEOREM ValidatedCorrect == Spec => []ValidatedPasses
<1>1. IInv => ValidatedPasses
  BY DEF IInv, PassInv, ValidatedPasses, Passes
<1> QED
  BY <1>1, InvHolds, PTL

==============================================================================
