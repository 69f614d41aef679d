----------------------------- MODULE GoBodyProofs -----------------------------
(***************************************************************************)
(* Proofs about GoBody.  A generated body reports every failure of its     *)
(* calls, and what the text changes in one transaction is kept as a whole  *)
(* or not at all, for every well-formed text.                              *)
(***************************************************************************)
EXTENDS GoBody, Orders, SequenceTheorems

-----------------------------------------------------------------------------
(* Sets of lines.                                                          *)

\* The sequence a strict order makes of a finite set enumerates it.
LEMMA InOrderEnumerates ==
  ASSUME NEW S, IsFiniteSet(S), NEW before, StrictOrder(S, before)
  PROVE  /\ InOrder(S, before) \in Seq(S)
         /\ Len(InOrder(S, before)) = Cardinality(S)
         /\ \A x \in S : \E k \in 1 .. Cardinality(S) : InOrder(S, before)[k] = x
         /\ \A j, k \in 1 .. Cardinality(S) :
              j < k <=> <<InOrder(S, before)[j], InOrder(S, before)[k]>> \in before
<1> DEFINE N == Cardinality(S)
           seq == InOrder(S, before)
<1>1. /\ N \in Nat
      /\ \A k \in 1 .. N : Nth(S, before, k) \in S
      /\ \A x \in S : \E k \in 1 .. N : Nth(S, before, k) = x
      /\ \A j, k \in 1 .. N :
           j < k <=> <<Nth(S, before, j), Nth(S, before, k)>> \in before
  BY NthMembers
<1>2. seq = [k \in 1 .. N |-> Nth(S, before, k)]
  BY Zenon DEF InOrder, Nth, Below
<1> HIDE DEF seq, N
<1>3. seq \in [1 .. N -> S] /\ \A k \in 1 .. N : seq[k] = Nth(S, before, k)
  BY <1>1, <1>2
<1>4. seq \in Seq(S) /\ Len(seq) = N
  BY <1>1, <1>3
<1>5. \A x \in S : \E k \in 1 .. N : seq[k] = x
  BY <1>1, <1>3
<1>6. \A j, k \in 1 .. N : j < k <=> <<seq[j], seq[k]>> \in before
  BY <1>1, <1>3
<1> QED
  BY <1>4, <1>5, <1>6 DEF seq, N

\* The least of a set of naturals.
LEMMA MinBelongs ==
  ASSUME NEW S \in SUBSET Nat, S # {}
  PROVE  Min(S) \in S /\ \A x \in S : Min(S) <= x
<1>1. PICK m \in S : TRUE
  OBVIOUS
<1>2. \E k \in S : \A j \in S : k <= j
  BY LeastNatural
<1> QED
  BY <1>2 DEF Min

LEMMA LinesOfText ==
  ASSUME WellFormed, NEW u \in Units
  PROVE  IsFiniteSet(Lines(u)) /\ Lines(u) \in SUBSET Nat
<1>1. Lines(u) = 1 .. Len(u.src) /\ Len(u.src) \in Nat
  BY LenProperties DEF WellFormed, Lines
<1>2. IsFiniteSet(1 .. Len(u.src))
  <2>1. 1 \in Int /\ Len(u.src) \in Int
    BY <1>1
  <2> QED
    BY <2>1, FS_Interval
<1> QED
  BY <1>1, <1>2

-----------------------------------------------------------------------------
(* The statements of a text, numbered.                                     *)

\* The lines of statements that run in the transaction of the body.
InTx(u, l) == u.src[l].op = "dml" /\ u.src[l].tx /\ ~u.src[l].merge

LEMMA StatementsInOrder ==
  ASSUME WellFormed, NEW u \in Units
  PROVE  /\ IsFiniteSet(Statements(u)) /\ Statements(u) \in SUBSET Nat
         /\ \A l \in Statements(u) : LineOf(u, l) \in Nat
         /\ StrictOrder(Statements(u), StatementOrder(u))
<1>1. IsFiniteSet(Statements(u)) /\ Statements(u) \in SUBSET Nat
  <2>1. Statements(u) \in SUBSET Lines(u)
    BY DEF Statements, At
  <2> QED
    BY <2>1, LinesOfText, FS_Subset
<1>2. \A l \in Statements(u) : LineOf(u, l) \in Nat
  BY <1>1 DEF LineOf, WellFormed
<1>3. \A l, m \in Statements(u) :
        <<l, m>> \in StatementOrder(u)
          <=> (LineOf(u, l) < LineOf(u, m) \/ (LineOf(u, l) = LineOf(u, m) /\ l < m))
  BY DEF StatementOrder
<1>4. \A x \in Statements(u) : <<x, x>> \notin StatementOrder(u)
  BY <1>1, <1>2, <1>3
<1>5. \A x, y, z \in Statements(u) :
        <<x, y>> \in StatementOrder(u) /\ <<y, z>> \in StatementOrder(u)
          => <<x, z>> \in StatementOrder(u)
  BY <1>1, <1>2, <1>3
<1>6. \A x, y \in Statements(u) :
        x = y \/ <<x, y>> \in StatementOrder(u) \/ <<y, x>> \in StatementOrder(u)
  <2> TAKE x, y \in Statements(u)
  <2>1. x \in Nat /\ y \in Nat /\ LineOf(u, x) \in Nat /\ LineOf(u, y) \in Nat
    BY <1>1, <1>2
  <2>2. /\ <<x, y>> \in StatementOrder(u)
             <=> (LineOf(u, x) < LineOf(u, y) \/ (LineOf(u, x) = LineOf(u, y) /\ x < y))
        /\ <<y, x>> \in StatementOrder(u)
             <=> (LineOf(u, y) < LineOf(u, x) \/ (LineOf(u, y) = LineOf(u, x) /\ y < x))
    BY <1>3
  <2> HIDE <1>3
  <2> QED
    BY <2>1, <2>2
<1> QED
  BY <1>1, <1>2, <1>4, <1>5, <1>6 DEF StrictOrder

\* The planned calls stand for the statements one by one.
LEMMA CallsAreStatements ==
  ASSUME WellFormed, NEW u \in Units
  PROVE  /\ Len(Ordered(u)) \in Nat /\ DOMAIN Ordered(u) = 1 .. Len(Ordered(u))
         /\ \A i \in DOMAIN Ordered(u) :
              /\ Ordered(u)[i].site \in Statements(u)
              /\ Ordered(u)[i].line \in Nat
              /\ Ordered(u)[i].tx <=> InTx(u, Ordered(u)[i].site)
              /\ Ordered(u)[i].tx => Ordered(u)[i].shape = "error"
              /\ Ordered(u)[i].line = LineOf(u, Ordered(u)[i].site)
              /\ Ordered(u)[i].row # <<>> => Ordered(u)[i].shape \in {"rows", "single"}
         /\ \A i, j \in DOMAIN Ordered(u) : Ordered(u)[i].site = Ordered(u)[j].site => i = j
         /\ \A l \in Statements(u) : \E i \in DOMAIN Ordered(u) : Ordered(u)[i].site = l
         /\ u.sort # "helper" =>
              \A i, j \in DOMAIN Ordered(u) : i < j => Ordered(u)[i].site < Ordered(u)[j].site
<1> DEFINE S == Statements(u)
           before == StatementOrder(u)
           order == InOrder(S, before)
           N == Cardinality(S)
           calls == Ordered(u)
<1>1. IsFiniteSet(S) /\ S \in SUBSET Nat /\ StrictOrder(S, before)
      /\ \A l \in S : LineOf(u, l) \in Nat
  BY StatementsInOrder
<1>2. N \in Nat
  BY <1>1, FS_CardinalityType
<1>3. /\ order \in Seq(S) /\ Len(order) = N
      /\ \A l \in S : \E k \in 1 .. N : order[k] = l
      /\ \A j, k \in 1 .. N : j < k <=> <<order[j], order[k]>> \in before
  BY <1>1, InOrderEnumerates
<1>4. DOMAIN order = 1 .. N /\ \A k \in 1 .. N : order[k] \in S
  BY <1>3
<1>5. calls = [i \in DOMAIN order |->
         [site |-> order[i], line |-> LineOf(u, order[i]), q |-> u.src[order[i]].q,
          shape |-> Shape(u.src[order[i]]), binds |-> u.src[order[i]].binds,
          row |-> IF Shape(u.src[order[i]]) \in {"rows", "single"} THEN u.src[order[i]].into ELSE <<>>,
          capture |-> <<u.src[order[i]].q, Repeats(u, order, i)>>,
          tx |-> u.src[order[i]].op = "dml" /\ u.src[order[i]].tx /\ ~u.src[order[i]].merge]]
  BY DEF Ordered
<1> HIDE DEF order, calls, N
<1>6. DOMAIN calls = 1 .. N
  BY <1>4, <1>5
<1>7. \A i \in 1 .. N :
        /\ calls[i].site = order[i] /\ calls[i].line = LineOf(u, order[i])
        /\ calls[i].tx <=> InTx(u, order[i])
        /\ calls[i].shape = Shape(u.src[order[i]])
        /\ calls[i].row # <<>> => calls[i].shape \in {"rows", "single"}
  BY <1>4, <1>5 DEF InTx
<1>8. Len(calls) = N
  BY <1>2, <1>5, <1>6
<1>9. ASSUME NEW i \in 1 .. N, NEW j \in 1 .. N, calls[i].site = calls[j].site
      PROVE  i = j
  <2>1. order[i] = order[j] /\ order[i] \in S
    BY <1>4, <1>7, <1>9
  <2>2. <<order[i], order[j]>> \notin before /\ <<order[j], order[i]>> \notin before
    BY <1>1, <2>1 DEF StrictOrder
  <2>3. ~(i < j) /\ ~(j < i)
    BY <1>3, <2>2
  <2> QED
    BY <1>2, <2>3
<1>10. ASSUME NEW i \in 1 .. N
       PROVE  /\ calls[i].site \in S /\ calls[i].line \in Nat
              /\ calls[i].tx <=> InTx(u, calls[i].site)
              /\ calls[i].tx => calls[i].shape = "error"
              /\ calls[i].line = LineOf(u, calls[i].site)
              /\ calls[i].row # <<>> => calls[i].shape \in {"rows", "single"}
  <2>1. calls[i].site \in S /\ calls[i].line \in Nat
    BY <1>1, <1>4, <1>7
  <2>2. calls[i].tx <=> InTx(u, calls[i].site)
    BY <1>7
  <2>3. InTx(u, order[i]) => Shape(u.src[order[i]]) = "error"
    BY DEF InTx, Shape
  <2> QED
    BY <1>7, <2>1, <2>2, <2>3
<1>11. \A l \in S : \E i \in 1 .. N : calls[i].site = l
  BY <1>3, <1>7
<1>12. ASSUME u.sort # "helper", NEW i \in 1 .. N, NEW j \in 1 .. N, i < j
       PROVE  calls[i].site < calls[j].site
  <2>1. <<order[i], order[j]>> \in before
    BY <1>3, <1>12
  <2>2. order[i] \in Nat /\ order[j] \in Nat
    BY <1>1, <1>4
  <2>3. order[i] < order[j]
    BY <1>12, <2>1, <2>2 DEF StatementOrder, LineOf
  <2> QED
    BY <1>7, <2>3
<1> QED
  BY <1>2, <1>6, <1>8, <1>9, <1>10, <1>11, <1>12 DEF calls

-----------------------------------------------------------------------------
(* The body's events.                                                      *)

\* A helper is called on a line that calls it.
LEMMA HelpersAreCalls ==
  ASSUME WellFormed, NEW u \in Units, NEW h \in HelperCalls(u)
  PROVE  /\ h.site \in Lines(u) /\ h.line = h.site
         /\ u.src[h.site].op = "call" /\ u.src[h.site].fn = h.fn
         /\ \A k \in HelperCalls(u) : h.fn = k.fn => h = k
<1> DEFINE record(fn) ==
      [site |-> Min(Called(u, fn)), line |-> Min(Called(u, fn)), fn |-> fn, int |-> Fns[fn].int,
       args |-> [k \in DOMAIN Fns[fn].formals |-> OwnValue(u, Fns[fn].formals[k])]]
<1>1. \A k \in HelperCalls(u) : \E fn : k = record(fn) /\ Called(u, fn) # {}
  BY DEF HelperCalls
<1>2. PICK fn : h = record(fn) /\ Called(u, fn) # {}
  BY <1>1
<1>3. Called(u, fn) \in SUBSET Nat
  <2>1. Called(u, fn) \in SUBSET Lines(u)
    BY DEF Called, At
  <2> QED
    BY <2>1, LinesOfText
<1>4. Min(Called(u, fn)) \in Called(u, fn)
  BY <1>2, <1>3, MinBelongs
<1>5. h.site = Min(Called(u, fn)) /\ h.line = Min(Called(u, fn)) /\ h.fn = fn
  BY <1>2
<1>6. h.site \in Lines(u) /\ u.src[h.site].op = "call" /\ u.src[h.site].fn = h.fn
  BY <1>4, <1>5 DEF Called, At
<1>7. \A k \in HelperCalls(u) : h.fn = k.fn => h = k
  <2>1. \A k \in HelperCalls(u) : k = record(k.fn)
    <3> TAKE k \in HelperCalls(u)
    <3>1. PICK g : k = record(g)
      BY <1>1
    <3>2. k.fn = g
      BY <3>1
    <3> QED
      BY <3>1, <3>2
  <2> HIDE DEF record
  <2> QED
    BY <2>1
<1> QED
  BY <1>5, <1>6, <1>7

\* What is rendered: the store calls of the statements and the helper calls.
LEMMA RenderedCalls ==
  ASSUME WellFormed, NEW u \in Units, NEW e \in Rendered(u, Ordered(u))
  PROVE  /\ e.site \in Lines(u) /\ e.line \in Nat
         /\ e.tx <=> InTx(u, e.site)
         /\ e.tx => e.kind = "store" /\ e.shape = "error"
         /\ e.kind = "store" <=> e.site \in Statements(u)
         /\ e.kind \in {"store", "status", "void"}
         /\ e.line = IF e.kind = "store" THEN LineOf(u, e.site) ELSE e.site
         /\ u.src[e.site].op \in {"read", "dml", "call"}
<1>1. CASE \E i \in DOMAIN Ordered(u) : e = Store(u, Ordered(u), i)
  <2>1. PICK i \in DOMAIN Ordered(u) : e = Store(u, Ordered(u), i)
    BY <1>1
  <2>2. /\ e.kind = "store" /\ e.site = Ordered(u)[i].site /\ e.line = Ordered(u)[i].line
        /\ e.tx = Ordered(u)[i].tx /\ e.shape = Ordered(u)[i].shape
    BY <2>1 DEF Store
  <2>3. /\ Ordered(u)[i].site \in Statements(u) /\ Ordered(u)[i].line \in Nat
        /\ Ordered(u)[i].tx <=> InTx(u, Ordered(u)[i].site)
        /\ Ordered(u)[i].tx => Ordered(u)[i].shape = "error"
        /\ Ordered(u)[i].line = LineOf(u, Ordered(u)[i].site)
    BY CallsAreStatements
  <2>4. \A l \in Statements(u) : l \in Lines(u) /\ u.src[l].op \in {"read", "dml"}
    BY DEF Statements, At
  <2> QED
    BY <2>2, <2>3, <2>4, Zenon
<1>2. CASE \E h \in HelperCalls(u) : e = Helper(h)
  <2>1. PICK h \in HelperCalls(u) : e = Helper(h)
    BY <1>2
  <2>2. /\ e.kind \in {"status", "void"} /\ e.site = h.site /\ e.line = h.line /\ e.tx = FALSE
    BY <2>1 DEF Helper
  <2>3. h.site \in Lines(u) /\ h.line = h.site /\ u.src[h.site].op = "call"
    BY HelpersAreCalls
  <2>4. h.site \in Nat
    BY <2>3, LinesOfText
  <2>5. h.site \notin Statements(u) /\ ~InTx(u, h.site)
    BY <2>3 DEF Statements, At, InTx
  <2> QED
    BY <2>2, <2>3, <2>4, <2>5
<1> QED
  BY <1>1, <1>2 DEF Rendered

\* Two calls on one line with the same place are one call.
LEMMA OneCallPerLine ==
  ASSUME WellFormed, NEW u \in Units,
         NEW d \in Rendered(u, Ordered(u)), NEW e \in Rendered(u, Ordered(u)), d.site = e.site
  PROVE  d = e
<1>1. d.kind = "store" <=> e.kind = "store"
  BY RenderedCalls
<1>2. CASE d.kind = "store"
  <2>1. \A h : Helper(h).kind # "store"
    BY DEF Helper
  <2>2. PICK i \in DOMAIN Ordered(u) : d = Store(u, Ordered(u), i)
    BY <1>2, <2>1 DEF Rendered
  <2>3. PICK j \in DOMAIN Ordered(u) : e = Store(u, Ordered(u), j)
    BY <1>1, <1>2, <2>1 DEF Rendered
  <2>4. d.site = Ordered(u)[i].site /\ e.site = Ordered(u)[j].site
    BY <2>2, <2>3 DEF Store
  <2>5. i = j
    BY <2>4, CallsAreStatements
  <2> QED
    BY <2>2, <2>3, <2>5
<1>3. CASE d.kind # "store"
  <2>1. \A i : Store(u, Ordered(u), i).kind = "store"
    BY DEF Store
  <2>2. PICK h \in HelperCalls(u) : d = Helper(h)
    BY <1>3, <2>1 DEF Rendered
  <2>3. PICK k \in HelperCalls(u) : e = Helper(k)
    BY <1>1, <1>3, <2>1 DEF Rendered
  <2>4. h.site = k.site
    BY <2>2, <2>3 DEF Helper
  <2>5. u.src[h.site].fn = h.fn /\ u.src[k.site].fn = k.fn
    BY HelpersAreCalls
  <2>6. h = k
    BY <2>4, <2>5, HelpersAreCalls
  <2> QED
    BY <2>2, <2>3, <2>6
<1> QED
  BY <1>2, <1>3

\* The store calls stand in the order they are planned, the helper calls
\* after them.
LEMMA PlaceOfCalls ==
  ASSUME WellFormed, NEW u \in Units
  PROVE  /\ \A e \in Rendered(u, Ordered(u)) : Place(Ordered(u), e) \in Nat
         /\ \A d, e \in Rendered(u, Ordered(u)) :
              d.line = e.line /\ Place(Ordered(u), d) = Place(Ordered(u), e) => d = e
<1> DEFINE calls == Ordered(u)
           all == Rendered(u, calls)
<1>1. Len(calls) \in Nat /\ DOMAIN calls = 1 .. Len(calls)
  BY CallsAreStatements
<1>2. ASSUME NEW e \in all, e.kind = "store"
      PROVE  /\ Place(calls, e) \in 1 .. Len(calls)
             /\ calls[Place(calls, e)].site = e.site
  <2>1. \A h : Helper(h).kind # "store"
    BY DEF Helper
  <2>2. PICK i \in DOMAIN calls : e = Store(u, calls, i)
    BY <1>2, <2>1 DEF Rendered
  <2>3. calls[i].site = e.site
    BY <2>2 DEF Store
  <2>4. Place(calls, e) = CHOOSE j \in DOMAIN calls : calls[j].site = e.site
    BY <1>2 DEF Place
  <2> HIDE DEF calls
  <2> QED
    BY <1>1, <2>3, <2>4
<1>3. ASSUME NEW e \in all, e.kind # "store"
      PROVE  Place(calls, e) = Len(calls) + 1
  BY <1>3 DEF Place
<1>4. \A e \in all : Place(calls, e) \in Nat
  <2> HIDE DEF calls, all
  <2> QED
    BY <1>1, <1>2, <1>3
<1>5. ASSUME NEW d \in all, NEW e \in all, d.line = e.line, Place(calls, d) = Place(calls, e)
      PROVE  d.site = e.site
  <2>1. CASE d.kind = "store" /\ e.kind = "store"
    BY <1>2, <1>5, <2>1
  <2>2. CASE d.kind # "store" /\ e.kind # "store"
    BY <1>5, <2>2, RenderedCalls
  <2>3. d.kind = "store" <=> e.kind = "store"
    <3> HIDE DEF calls, all
    <3> QED
      BY <1>1, <1>2, <1>3, <1>5
  <2> QED
    BY <2>1, <2>2, <2>3
<1> QED
  BY <1>4, <1>5, OneCallPerLine

LEMMA RenderedInOrder ==
  ASSUME WellFormed, NEW u \in Units
  PROVE  /\ IsFiniteSet(Rendered(u, Ordered(u)))
         /\ StrictOrder(Rendered(u, Ordered(u)), EventOrder(u, Ordered(u)))
<1> DEFINE all == Rendered(u, Ordered(u))
           before == EventOrder(u, Ordered(u))
           site == [e \in all |-> e.site]
           line == [e \in all |-> e.line]
           place == [e \in all |-> Place(Ordered(u), e)]
<1>1. site \in Injection(all, Lines(u))
  <2>1. site \in [all -> Lines(u)]
    BY RenderedCalls
  <2>2. \A d, e \in all : site[d] = site[e] => d = e
    BY OneCallPerLine
  <2> HIDE DEF all, site
  <2> QED
    BY <2>1, <2>2 DEF Injection, IsInjective
<1>2. IsFiniteSet(all)
  BY <1>1, LinesOfText, FS_Injection
<1>3. \A e \in all : line[e] \in Nat /\ place[e] \in Nat
  BY RenderedCalls, PlaceOfCalls
<1>4. \A d, e \in all : line[d] = line[e] /\ place[d] = place[e] => d = e
  BY PlaceOfCalls
<1>5. \A d, e \in all :
        <<d, e>> \in before <=> (line[d] < line[e] \/ (line[d] = line[e] /\ place[d] < place[e]))
  BY DEF EventOrder
<1> HIDE DEF all, before, line, place
<1>6. \A x \in all : <<x, x>> \notin before
  BY <1>3, <1>5
<1>7. \A x, y, z \in all : <<x, y>> \in before /\ <<y, z>> \in before => <<x, z>> \in before
  BY <1>3, <1>5
<1>8. \A x, y \in all : x = y \/ <<x, y>> \in before \/ <<y, x>> \in before
  <2> TAKE x, y \in all
  <2>1. /\ <<x, y>> \in before <=> (line[x] < line[y] \/ (line[x] = line[y] /\ place[x] < place[y]))
        /\ <<y, x>> \in before <=> (line[y] < line[x] \/ (line[y] = line[x] /\ place[y] < place[x]))
    BY <1>5
  <2>2. line[x] \in Nat /\ place[x] \in Nat /\ line[y] \in Nat /\ place[y] \in Nat
    BY <1>3
  <2>3. line[x] = line[y] /\ place[x] = place[y] => x = y
    BY <1>4
  <2> HIDE <1>3, <1>5
  <2> QED
    BY <2>1, <2>2, <2>3
<1>9. StrictOrder(all, before)
  BY <1>6, <1>7, <1>8 DEF StrictOrder
<1> QED
  BY <1>2, <1>9 DEF all, before

\* The events of a body: every planned call and helper call, once.
LEMMA EventsOfBody ==
  ASSUME WellFormed, NEW u \in Units
  PROVE  /\ Len(Body(u).events) \in Nat
         /\ \A k \in 1 .. Len(Body(u).events) :
              /\ Body(u).events[k] \in Rendered(u, Ordered(u))
              /\ Body(u).events[k].tx => Body(u).tx
         /\ \A e \in Rendered(u, Ordered(u)) :
              \E k \in 1 .. Len(Body(u).events) : Body(u).events[k] = e
         /\ DOMAIN Body(u).events = 1 .. Len(Body(u).events)
         /\ Body(u).tx => \E i \in DOMAIN Ordered(u) : Ordered(u)[i].tx
         /\ Body(u).parses = Parses(u, Body(u).events)
<1> DEFINE all == Rendered(u, Ordered(u))
           before == EventOrder(u, Ordered(u))
           events == Events(u, Ordered(u))
<1>1. /\ events \in Seq(all) /\ Len(events) = Cardinality(all)
      /\ \A x \in all : \E k \in 1 .. Cardinality(all) : events[k] = x
  BY RenderedInOrder, InOrderEnumerates DEF Events
<1>2. Cardinality(all) \in Nat
  BY RenderedInOrder, FS_CardinalityType
<1>3. \A k \in 1 .. Len(events) : events[k] \in all
  <2> HIDE DEF events, all
  <2> QED
    BY <1>1, ElementOfSeq
<1>4. /\ Body(u).events = events /\ Body(u).tx = HasTx(Ordered(u))
      /\ Body(u).parses = Parses(u, events)
  BY DEF Body
<1>5. ASSUME NEW e \in all, e.tx
      PROVE  HasTx(Ordered(u))
  <2>1. \A h : Helper(h).tx = FALSE
    BY DEF Helper
  <2>2. PICK i \in DOMAIN Ordered(u) : e = Store(u, Ordered(u), i)
    BY <1>5, <2>1 DEF Rendered
  <2>3. Ordered(u)[i].tx
    BY <1>5, <2>2 DEF Store
  <2> QED
    BY <2>3 DEF HasTx
<1>6. HasTx(Ordered(u)) => \E i \in DOMAIN Ordered(u) : Ordered(u)[i].tx
  BY DEF HasTx
<1>7. DOMAIN events = 1 .. Len(events)
  <2> HIDE DEF events, all
  <2> QED
    BY <1>1
<1> HIDE DEF events, all
<1> QED
  BY <1>1, <1>2, <1>3, <1>4, <1>5, <1>6, <1>7 DEF all

\* A body that parses has one line with an open end at most, its last: a
\* helper with a transaction calls no helper whose failure it must report.
LEMMA NoStatusInTx ==
  ASSUME WellFormed, NEW u \in Units, u.sort = "helper", Body(u).tx, Body(u).parses,
         NEW k \in 1 .. Len(Body(u).events)
  PROVE  Body(u).events[k].kind # "status"
<1> DEFINE events == Body(u).events
<1>1. PICK i \in DOMAIN Ordered(u) : Ordered(u)[i].tx
  BY EventsOfBody
<1>2. Store(u, Ordered(u), i) \in Rendered(u, Ordered(u))
  BY DEF Rendered
<1>3. PICK j \in 1 .. Len(events) : events[j] = Store(u, Ordered(u), i)
  BY <1>2, EventsOfBody
<1>4. events[j].kind = "store" /\ events[j].shape = "error"
  BY <1>1, <1>3, CallsAreStatements DEF Store
<1>5. Len(events) \in Nat /\ Parses(u, events)
  BY EventsOfBody
<1>6. SUFFICES ASSUME events[k].kind = "status"
               PROVE  FALSE
  OBVIOUS
<1>7. EndsOpen(u, events[j]) /\ EndsOpen(u, events[k])
  BY <1>4, <1>6 DEF EndsOpen
<1>8. j # k /\ j \in 1 .. Len(events) /\ k \in 1 .. Len(events)
  BY <1>4, <1>6
<1> HIDE DEF events
<1>9. \A n \in 1 .. Len(events) - 1 : ~EndsOpen(u, events[n])
  BY <1>5 DEF Parses
<1>10. j \in 1 .. Len(events) - 1 \/ k \in 1 .. Len(events) - 1
  BY <1>5, <1>8
<1> QED
  BY <1>7, <1>9, <1>10

-----------------------------------------------------------------------------
(* What is left out.                                                       *)

\* A set of lines as a sequence.
LEMMA LineSeqEnumerates ==
  ASSUME NEW S \in SUBSET Nat, IsFiniteSet(S)
  PROVE  /\ DOMAIN LineSeq(S) = 1 .. Cardinality(S) /\ Cardinality(S) \in Nat
         /\ \A k \in DOMAIN LineSeq(S) : LineSeq(S)[k] \in S
         /\ \A l \in S : \E k \in DOMAIN LineSeq(S) : LineSeq(S)[k] = l
<1> DEFINE before == {p \in S \X S : p[1] < p[2]}
           seq == InOrder(S, before)
<1>1. StrictOrder(S, before)
  <2>1. S \in SUBSET Int
    OBVIOUS
  <2> QED
    BY <2>1, NumbersOrder
<1> HIDE DEF before
<1>2. /\ seq \in Seq(S) /\ Len(seq) = Cardinality(S)
      /\ \A x \in S : \E k \in 1 .. Cardinality(S) : seq[k] = x
  BY <1>1, InOrderEnumerates
<1>3. Cardinality(S) \in Nat
  BY FS_CardinalityType
<1>4. LineSeq(S) = seq
  BY DEF LineSeq, before
<1> HIDE DEF seq
<1>5. DOMAIN seq = 1 .. Cardinality(S) /\ \A k \in 1 .. Cardinality(S) : seq[k] \in S
  BY <1>2
<1> QED
  BY <1>2, <1>3, <1>4, <1>5

\* Without its repetitions a sequence has the members it had.
LEMMA DistinctMembers ==
  ASSUME NEW n \in Nat, NEW s, DOMAIN s = 1 .. n
  PROVE  Range(Distinct(s)) = Range(s)
<1> DEFINE firsts == {i \in DOMAIN s : \A j \in 1 .. i - 1 : s[j] # s[i]}
           order == LineSeq(firsts)
<1>1. firsts \in SUBSET Nat /\ IsFiniteSet(firsts)
  <2>1. IsFiniteSet(1 .. n)
    <3>1. 1 \in Int /\ n \in Int
      OBVIOUS
    <3> QED
      BY <3>1, FS_Interval
  <2>2. firsts \in SUBSET (1 .. n)
    OBVIOUS
  <2> QED
    BY <2>1, <2>2, FS_Subset
<1>2. ASSUME NEW i \in 1 .. n
      PROVE  \E j \in firsts : s[j] = s[i]
  <2> DEFINE same == {j \in 1 .. n : s[j] = s[i]}
  <2>1. same \in SUBSET Nat /\ i \in same
    OBVIOUS
  <2>2. PICK j \in same : \A k \in same : j <= k
    BY <2>1, LeastNatural
  <2>3. \A k \in 1 .. j - 1 : k \in 1 .. n /\ ~(j <= k)
    BY <2>2
  <2>4. \A k \in 1 .. j - 1 : s[k] # s[i]
    BY <2>2, <2>3
  <2>5. j \in firsts /\ s[j] = s[i]
    BY <2>2, <2>4
  <2> QED
    BY <2>5
<1>3. \A j \in firsts : j \in DOMAIN s
  OBVIOUS
<1>4. Distinct(s) = [k \in DOMAIN order |-> s[order[k]]]
  BY DEF Distinct
<1> HIDE DEF firsts
<1>5. /\ \A k \in DOMAIN order : order[k] \in firsts
      /\ \A j \in firsts : \E k \in DOMAIN order : order[k] = j
  BY <1>1, LineSeqEnumerates
<1> HIDE DEF order
<1>6. Range(Distinct(s)) = {s[order[k]] : k \in DOMAIN order}
  BY <1>4 DEF Range
<1>7. Range(s) = {s[i] : i \in 1 .. n}
  BY DEF Range
<1> QED
  BY <1>2, <1>3, <1>5, <1>6, <1>7

\* The response has the field of every line that adds to a buffer.
LEMMA FieldsOfAdds ==
  ASSUME WellFormed, NEW u \in Units
  PROVE  Range(ResponseFields(u)) = {u.src[l].field : l \in At(u, "add")}
<1> DEFINE adds == At(u, "add")
           all == LineSeq(adds)
           ops == [i \in DOMAIN all |-> u.src[all[i]]]
           fields == [i \in DOMAIN ops |-> ops[i].field]
<1>1. IsFiniteSet(adds) /\ adds \in SUBSET Nat
  <2>1. adds \in SUBSET Lines(u)
    BY DEF At
  <2> QED
    BY <2>1, LinesOfText, FS_Subset
<1> HIDE DEF adds
<1>2. /\ DOMAIN all = 1 .. Cardinality(adds) /\ Cardinality(adds) \in Nat
      /\ \A k \in DOMAIN all : all[k] \in adds
      /\ \A l \in adds : \E k \in DOMAIN all : all[k] = l
  BY <1>1, LineSeqEnumerates
<1>3. ResponseFields(u) = Distinct(fields)
  BY DEF ResponseFields, FieldsOf, adds
<1> HIDE DEF all
<1>4. DOMAIN fields = 1 .. Cardinality(adds)
  BY <1>2
<1>5. Range(fields) = {u.src[all[k]].field : k \in DOMAIN all}
  BY DEF Range
<1>6. Range(ResponseFields(u)) = Range(fields)
  <2> HIDE DEF fields
  <2> QED
    BY <1>2, <1>3, <1>4, DistinctMembers
<1> QED
  BY <1>2, <1>5, <1>6 DEF adds

\* The trail and the literals of a body.
LEMMA TrailOfBody ==
  ASSUME NEW u
  PROVE  /\ ZeroNotes(Body(u).events) \cup StubNotes(u) \cup TpNotes(u) \subseteq Body(u).notes
         /\ u.sort # "helper" => /\ ShapingNotes(u, Ordered(u)) \subseteq Body(u).notes
                                 /\ Body(u).literals = Literals(u, Ordered(u))
         /\ u.sort = "helper" =>
              Body(u).notes = ZeroNotes(Body(u).events) \cup StubNotes(u) \cup TpNotes(u)
                              \cup FlowNotes(u, Ordered(u), Body(u).events)
<1>1. /\ Body(u).events = Events(u, Ordered(u))
      /\ Body(u).literals = IF u.sort = "helper" THEN {} ELSE Literals(u, Ordered(u))
      /\ Body(u).notes = ZeroNotes(Events(u, Ordered(u))) \cup StubNotes(u) \cup TpNotes(u)
                         \cup (IF u.sort = "helper" THEN FlowNotes(u, Ordered(u), Events(u, Ordered(u)))
                               ELSE ShapingNotes(u, Ordered(u)))
  BY DEF Body
<1> QED
  BY <1>1

\* A field of the response is in a literal or is noted.
LEMMA FieldsAccounted ==
  ASSUME WellFormed, NEW u \in Units, u.sort # "helper", NEW f \in Range(ResponseFields(u))
  PROVE  \/ \E lit \in Body(u).literals : \E p \in lit.pairs : p[1] = f
         \/ \E n \in Body(u).notes : n[1] \in {"unsourced", "no row source"} /\ n[2] = f
<1> DEFINE calls == Ordered(u)
           notes == ShapingNotes(u, calls)
<1>1. CASE Reads(calls) = {}
  <2>1. <<"no row source", f>> \in notes
    BY <1>1 DEF ShapingNotes
  <2>2. <<"no row source", f>> \in Body(u).notes
    BY <2>1, TrailOfBody
  <2>3. <<"no row source", f>>[1] = "no row source" /\ <<"no row source", f>>[2] = f
    OBVIOUS
  <2> HIDE DEF notes
  <2> QED
    BY <2>2, <2>3
<1>2. CASE Reads(calls) # {} /\ f \in Unsourced(u, calls)
  <2>1. <<"unsourced", f>> \in notes
    BY <1>2 DEF ShapingNotes
  <2>2. <<"unsourced", f>> \in Body(u).notes
    BY <2>1, TrailOfBody
  <2>3. <<"unsourced", f>>[1] = "unsourced" /\ <<"unsourced", f>>[2] = f
    OBVIOUS
  <2> HIDE DEF notes
  <2> QED
    BY <2>2, <2>3
<1>3. CASE f \notin Unsourced(u, calls)
  <2> DEFINE h == TargetOf(u)[f]
             i == OwnerFor(calls, h)
             literal == [capture |-> calls[i].capture, site |-> calls[i].site,
                         pairs |-> Pairs(u, calls, i)]
  <2>1. f \in DOMAIN Owned(u, calls)
    BY <1>3 DEF Unsourced
  <2>2. f \in DOMAIN TargetOf(u) /\ Owns(calls, h) /\ Owned(u, calls)[f] = i
    BY <2>1 DEF Owned
  <2>3. i \in Readers(calls, h)
    <3>1. Readers(calls, h) \in SUBSET DOMAIN calls
      BY DEF Readers
    <3>2. DOMAIN calls \in SUBSET Nat
      BY CallsAreStatements
    <3>3. Readers(calls, h) \in SUBSET Nat /\ Readers(calls, h) # {}
      BY <2>2, <3>1, <3>2 DEF Owns
    <3> QED
      BY <3>3, MinBelongs DEF OwnerFor
  <2>4. i \in DOMAIN calls /\ h \in Range(calls[i].row)
    BY <2>3 DEF Readers
  <2>5. calls[i].shape \in {"rows", "single"}
    <3>1. Range(<<>>) = {}
      BY DEF Range
    <3>2. calls[i].row # <<>>
      BY <2>4, <3>1
    <3> QED
      BY <2>4, <3>2, CallsAreStatements
  <2> HIDE DEF calls, h, i
  <2>6. Feeds(u, calls, i)
    BY <2>1, <2>2 DEF Feeds, Range
  <2>7. literal \in Literals(u, calls)
    BY <2>4, <2>5, <2>6 DEF Literals, Of
  <2>8. <<f, h, "own">> \in Pairs(u, calls, i)
    <3>1. RowField(u, calls, i, f) = {<<h, "own">>}
      BY <2>2, <2>4 DEF RowField, h
    <3>2. h \in UNION {Range(calls[j].row) : j \in DOMAIN calls}
      BY <2>4
    <3>3. <<f, h, "own">> \in Range(ResponseFields(u))
            \X (UNION {Range(calls[j].row) : j \in DOMAIN calls}) \X {"own", "alike"}
      BY <3>2
    <3> QED
      BY <2>2, <3>1, <3>3 DEF Pairs
  <2>9. literal \in Body(u).literals
    BY <2>7, TrailOfBody DEF calls
  <2>10. \E p \in literal.pairs : p[1] = f
    BY <2>8
  <2> QED
    BY <2>9, <2>10
<1> QED
  BY <1>1, <1>2, <1>3

-----------------------------------------------------------------------------
(* Running a body.                                                         *)

\* The lines changed in the transaction by the first n calls.
TxSites(events, n) == {events[k].site : k \in {j \in 1 .. n : events[j].tx}}

\* Between two calls the open transaction has what the calls made so far
\* changed in it, and the database keeps none of it yet.
Running ==
  /\ goBody.parses
  /\ ran \in Seq(Lines(text)) /\ Len(ran) <= Len(goBody.events)
  /\ err = "nil" /\ failed = FALSE
  /\ tx = TxSites(goBody.events, Len(ran))
  /\ durable \cap TxSites(goBody.events, Len(goBody.events)) = {}

Inv ==
  /\ text \in Units
  /\ goStage = "write" =>
       ran = <<>> /\ err = "nil" /\ tx = {} /\ durable = {} /\ failed = FALSE
  /\ goStage # "write" => goBody = Body(text)
  /\ goStage = "run" => Running
  /\ ReportsFailure
  /\ OneTransaction

LEMMA InvInit ==
  ASSUME WellFormed, GoInit
  PROVE  Inv
BY DEF GoInit, Inv, ReportsFailure, OneTransaction

\* What is known of the call the body stands at.
LEMMA CurrentCall ==
  ASSUME WellFormed, Inv, AtCall
  PROVE  /\ Len(ran) \in Nat /\ Len(ran) + 1 \in 1 .. Len(goBody.events)
         /\ Current = goBody.events[Len(ran) + 1]
         /\ Current \in Rendered(text, Ordered(text))
         /\ Current.site \in Lines(text)
         /\ Current.tx <=> InTx(text, Current.site)
         /\ Current.tx => goBody.tx
         /\ Current.kind \in {"store", "status", "void"}
<1>1. text \in Units /\ goStage = "run" /\ goBody = Body(text) /\ Running
  BY DEF Inv, AtCall
<1>2. Len(ran) \in Nat
  BY <1>1, LenProperties DEF Running
<1>3. Len(goBody.events) \in Nat
  BY <1>1, EventsOfBody
<1>4. Len(ran) + 1 \in 1 .. Len(goBody.events)
  BY <1>2, <1>3 DEF AtCall
<1>5. Current = goBody.events[Len(ran) + 1]
  BY DEF Current
<1>6. Current \in Rendered(text, Ordered(text)) /\ (Current.tx => goBody.tx)
  BY <1>1, <1>4, <1>5, EventsOfBody
<1> QED
  BY <1>1, <1>2, <1>4, <1>5, <1>6, RenderedCalls

\* A line is in the transaction at every event on it or at none.
LEMMA SitesOfTx ==
  ASSUME WellFormed, NEW u \in Units, NEW n \in 0 .. Len(Body(u).events)
  PROVE  /\ \A k \in 1 .. Len(Body(u).events) :
              ~Body(u).events[k].tx =>
                Body(u).events[k].site \notin TxSites(Body(u).events, Len(Body(u).events))
         /\ n < Len(Body(u).events) =>
              TxSites(Body(u).events, n + 1) =
                IF Body(u).events[n + 1].tx
                THEN TxSites(Body(u).events, n) \cup {Body(u).events[n + 1].site}
                ELSE TxSites(Body(u).events, n)
         /\ ~Body(u).tx => TxSites(Body(u).events, n) = {}
         /\ TxSites(Body(u).events, 0) = {}
<1> DEFINE events == Body(u).events
           N == Len(events)
<1>1. N \in Nat /\ n \in Nat /\ n <= N
  BY EventsOfBody
<1>2. \A k \in 1 .. N : events[k].tx <=> InTx(u, events[k].site)
  BY EventsOfBody, RenderedCalls
<1>3. ~Body(u).tx => \A k \in 1 .. N : ~events[k].tx
  BY EventsOfBody
<1> HIDE DEF events
<1>4. ASSUME NEW k \in 1 .. N, ~events[k].tx
      PROVE  events[k].site \notin TxSites(events, N)
  BY <1>2, <1>4 DEF TxSites
<1>5. ASSUME n < N
      PROVE  TxSites(events, n + 1) =
               IF events[n + 1].tx THEN TxSites(events, n) \cup {events[n + 1].site}
               ELSE TxSites(events, n)
  <2>1. \A j : j \in 1 .. (n + 1) <=> (j \in 1 .. n \/ j = n + 1)
    BY <1>1
  <2> HIDE <1>1
  <2>2. CASE events[n + 1].tx
    BY <2>1, <2>2, Zenon DEF TxSites
  <2>3. CASE ~events[n + 1].tx
    BY <2>1, <2>3, Zenon DEF TxSites
  <2> QED
    BY <2>2, <2>3
<1>6. ~Body(u).tx => TxSites(events, n) = {}
  <2>1. \A k \in 1 .. n : k \in 1 .. N
    BY <1>1
  <2> QED
    BY <1>3, <2>1 DEF TxSites
<1>7. TxSites(events, 0) = {}
  <2>1. 1 .. 0 = {}
    OBVIOUS
  <2> QED
    BY <2>1 DEF TxSites
<1> QED
  BY <1>4, <1>5, <1>6, <1>7 DEF events

LEMMA InvWrite ==
  ASSUME WellFormed, Inv, Write
  PROVE  Inv'
<1>1. text' = text /\ text \in Units /\ goBody' = Body(text)
  BY DEF Write, Inv
<1>2. goStage' = IF goBody'.parses THEN "run" ELSE "skipped"
  BY DEF Write
<1>3. /\ ran' = <<>> /\ err' = "nil" /\ tx' = {} /\ durable' = {} /\ failed' = FALSE
  BY DEF Write, Inv
<1>4. goStage' = "run" => Running'
  <2>1. Len(goBody'.events) \in Nat
    BY <1>1, EventsOfBody
  <2>2. TxSites(goBody'.events, 0) = {}
    <3>1. 0 \in 0 .. Len(Body(text).events)
      BY <1>1, <2>1
    <3>2. TxSites(Body(text).events, 0) = {}
      BY <1>1, <3>1, SitesOfTx
    <3> QED
      BY <1>1, <3>2
  <2>3. ran' \in Seq(Lines(text')) /\ Len(ran') = 0
    BY <1>3
  <2>4. Len(ran') <= Len(goBody'.events)
    BY <2>1, <2>3
  <2>5. tx' = TxSites(goBody'.events, Len(ran'))
    BY <1>3, <2>2, <2>3
  <2>6. goStage' = "run" => goBody'.parses
    BY <1>2
  <2> QED
    BY <1>3, <2>3, <2>4, <2>5, <2>6 DEF Running, TxSites
<1>5. ReportsFailure' /\ OneTransaction'
  BY <1>2 DEF ReportsFailure, OneTransaction
<1>6. goBody' = Body(text')
  BY <1>1
<1> QED
  BY <1>1, <1>2, <1>4, <1>5, <1>6 DEF Inv

LEMMA InvCallSucceeds ==
  ASSUME WellFormed, Inv, CallSucceeds
  PROVE  Inv'
<1>1. /\ text' = text /\ goBody' = goBody /\ goStage' = goStage /\ failed' = failed /\ goStage = "run"
      /\ ran' = Append(ran, Current.site)
      /\ err' = IF Current.kind = "store" THEN "nil" ELSE err
      /\ tx' = IF Current.tx THEN tx \cup {Current.site} ELSE tx
      /\ durable' \subseteq durable \cup (IF Current.tx THEN {} ELSE {Current.site})
      /\ AtCall
  BY DEF CallSucceeds, AtCall
<1>2. text \in Units /\ goBody = Body(text) /\ Running
  BY <1>1 DEF Inv
<1>3. /\ Len(ran) \in Nat /\ Len(ran) + 1 \in 1 .. Len(goBody.events)
      /\ Current = goBody.events[Len(ran) + 1] /\ Current.site \in Lines(text)
  BY <1>1, CurrentCall
<1>4. Len(goBody.events) \in Nat /\ Len(ran) \in 0 .. Len(goBody.events) /\ Len(ran) < Len(goBody.events)
  <2>1. Len(goBody.events) \in Nat
    BY <1>2, EventsOfBody
  <2> QED
    BY <1>3, <2>1
<1>5. /\ ~Current.tx => Current.site \notin TxSites(goBody.events, Len(goBody.events))
      /\ TxSites(goBody.events, Len(ran) + 1) =
           IF Current.tx THEN TxSites(goBody.events, Len(ran)) \cup {Current.site}
           ELSE TxSites(goBody.events, Len(ran))
  BY <1>2, <1>3, <1>4, SitesOfTx
<1>6. Running'
  <2>1. ran' \in Seq(Lines(text)) /\ Len(ran') = Len(ran) + 1
    BY <1>1, <1>2, <1>3, AppendProperties DEF Running
  <2>2. Len(ran') <= Len(goBody.events)
    BY <1>3, <1>4, <2>1
  <2>3. tx' = TxSites(goBody.events, Len(ran'))
    BY <1>1, <1>2, <1>5, <2>1 DEF Running
  <2>4. durable' \cap TxSites(goBody.events, Len(goBody.events)) = {}
    BY <1>1, <1>2, <1>5 DEF Running
  <2>5. err' = "nil" /\ failed' = FALSE /\ goBody.parses
    BY <1>1, <1>2 DEF Running
  <2>6. goBody' = goBody /\ Lines(text') = Lines(text)
    BY <1>1
  <2> QED
    BY <2>1, <2>2, <2>3, <2>4, <2>5, <2>6 DEF Running
<1>7. ReportsFailure' /\ OneTransaction'
  BY <1>1 DEF ReportsFailure, OneTransaction
<1>8. goBody' = Body(text')
  BY <1>1, <1>2
<1> QED
  BY <1>1, <1>2, <1>6, <1>7, <1>8 DEF Inv

\* A body ends right when it reports an error exactly for a failure, and
\* keeps what its transaction changed exactly when nothing failed.
LEMMA EndsRight ==
  ASSUME WellFormed, Inv, goStage = "run", text' = text, goBody' = goBody, goStage' = "done",
         ~Void(text) => (result' = "error" <=> (failed' \/ goBody.tail = -1)),
         failed' => durable' = durable,
         ~failed' => /\ Len(ran) = Len(goBody.events)
                     /\ durable' = IF goBody.tx THEN durable \cup tx ELSE durable
  PROVE  Inv'
<1> DEFINE txs == TxSites(goBody.events, Len(goBody.events))
<1>1. text \in Units /\ goBody = Body(text) /\ Running
  BY DEF Inv
<1>2. Len(goBody.events) \in Nat /\ DOMAIN goBody.events = 1 .. Len(goBody.events)
  BY <1>1, EventsOfBody
<1>3. ~goBody.tx => txs = {}
  <2>1. Len(goBody.events) \in 0 .. Len(goBody.events)
    BY <1>2
  <2> QED
    BY <1>1, <2>1, SitesOfTx
<1>4. durable' \cap txs = IF failed' THEN {} ELSE txs
  <2>1. CASE failed'
    BY <1>1, <2>1 DEF Running
  <2>2. CASE ~failed'
    <3>1. tx = txs /\ durable \cap txs = {}
      BY <1>1, <2>2 DEF Running
    <3> HIDE DEF txs
    <3> QED
      BY <1>3, <2>2, <3>1
  <2> QED
    BY <2>1, <2>2
<1>5. txs = {e.site : e \in {x \in Range(goBody.events) : x.tx}}
  BY <1>2, Zenon DEF TxSites, Range
<1>6. OneTransaction'
  BY <1>4, <1>5 DEF OneTransaction
<1>7. ReportsFailure'
  <2>1. Void(text)' <=> Void(text)
    BY DEF Void
  <2> QED
    BY <2>1 DEF ReportsFailure
<1>8. text' \in Units /\ goBody' = Body(text')
  BY <1>1
<1> QED
  BY <1>6, <1>7, <1>8 DEF Inv

LEMMA InvCallFails ==
  ASSUME WellFormed, Inv, CallFails
  PROVE  Inv'
<1> DEFINE code == IF goBody.tx THEN ClosureReturn(text, Current) ELSE ReturnOnError(text, Current)
<1>1. /\ AtCall /\ goStage = "run" /\ text' = text /\ goBody' = goBody /\ failed' = TRUE
      /\ Current.kind # "void"
      /\ err' = IF Current.kind = "store" THEN "set" ELSE err
      /\ Ends(code, err')
  BY DEF CallFails, AtCall
<1>2. text \in Units /\ goBody = Body(text) /\ Running
  BY <1>1 DEF Inv
<1>3. /\ Len(ran) + 1 \in 1 .. Len(goBody.events) /\ Current = goBody.events[Len(ran) + 1]
      /\ Current.kind \in {"store", "status", "void"}
  BY <1>1, CurrentCall
<1>4. text.sort = "helper" /\ goBody.tx => Current.kind # "status"
  BY <1>2, <1>3, NoStatusInTx DEF Running
<1>5. goBody.tx \/ ~Void(text) => code \in {"new", "-1"} \/ (code = "err" /\ err' = "set")
  BY <1>1, <1>3, <1>4 DEF ClosureReturn, ReturnOnError, Void
<1> HIDE DEF code
<1>6. goStage' = "done" /\ durable' = durable /\ (~Void(text) => result' = "error")
  BY <1>1, <1>5 DEF Ends, Told
<1> QED
  BY <1>1, <1>6, EndsRight

LEMMA InvReturns ==
  ASSUME WellFormed, Inv, Returns
  PROVE  Inv'
<1>1. /\ goStage = "run" /\ text' = text /\ goBody' = goBody /\ failed' = failed
      /\ Len(ran) = Len(goBody.events) /\ Ends("nil", err)
  BY DEF Returns
<1>2. failed = FALSE
  BY <1>1 DEF Inv, Running
<1>3. /\ goStage' = "done"
      /\ durable' = IF goBody.tx THEN durable \cup tx ELSE durable
      /\ ~Void(text) => result' = IF goBody.tail = -1 THEN "error" ELSE "ok"
  BY <1>1 DEF Ends, Told
<1> QED
  BY <1>1, <1>2, <1>3, EndsRight

LEMMA InvCommitFails ==
  ASSUME WellFormed, Inv, CommitFails
  PROVE  Inv'
<1>1. /\ goStage = "run" /\ text' = text /\ goBody' = goBody /\ failed' = TRUE
      /\ goStage' = "done" /\ durable' = durable /\ (~Void(text) => result' = "error")
  BY DEF CommitFails, Told
<1> QED
  BY <1>1, EndsRight

LEMMA InvNext ==
  ASSUME WellFormed, Inv, [GoNext]_goVars
  PROVE  Inv'
<1>1. CASE UNCHANGED goVars
  BY <1>1 DEF goVars, Inv, Running, ReportsFailure, OneTransaction, Void
<1>2. CASE Write
  BY <1>2, InvWrite
<1>3. CASE CallSucceeds
  BY <1>3, InvCallSucceeds
<1>4. CASE CallFails
  BY <1>4, InvCallFails
<1>5. CASE Returns
  BY <1>5, InvReturns
<1>6. CASE CommitFails
  BY <1>6, InvCommitFails
<1> QED
  BY <1>1, <1>2, <1>3, <1>4, <1>5, <1>6 DEF GoNext

THEOREM InvHolds ==
  ASSUME WellFormed
  PROVE  GoSpec => []Inv
<1>1. GoInit => Inv
  BY InvInit
<1>2. Inv /\ [GoNext]_goVars => Inv'
  BY InvNext
<1> QED
  BY <1>1, <1>2, PTL DEF GoSpec

\* A generated body reports an error exactly when one of the calls it made,
\* or its commit, failed, or it left out a service call of a helper.
THEOREM FailuresAreReported ==
  ASSUME WellFormed
  PROVE  GoSpec => []ReportsFailure
<1>1. Inv => ReportsFailure
  BY DEF Inv
<1> QED
  BY <1>1, InvHolds, PTL

\* What a text changes in one transaction is kept as a whole when nothing
\* failed, and none of it is kept otherwise.
THEOREM TransactionIsOne ==
  ASSUME WellFormed
  PROVE  GoSpec => []OneTransaction
<1>1. Inv => OneTransaction
  BY DEF Inv
<1> QED
  BY <1>1, InvHolds, PTL

-----------------------------------------------------------------------------
(* Omissions are reported.                                                 *)

LEMMA LineIsAccounted ==
  ASSUME WellFormed, text \in Units, goBody = Body(text), NEW l \in Lines(text)
  PROVE  Accounted(text.src[l], l)
<1> DEFINE line == text.src[l]
<1>1. text \in Units /\ goBody = Body(text)
  OBVIOUS
<1>2. \A e \in Rendered(text, Ordered(text)) : e \in Range(goBody.events)
  BY <1>1, EventsOfBody DEF Range
<1>3. ASSUME line.op \in {"read", "dml"}
      PROVE  \E e \in Range(goBody.events) : e.site = l
  <2>1. l \in Statements(text)
    BY <1>3 DEF Statements, At
  <2>2. PICK i \in DOMAIN Ordered(text) : Ordered(text)[i].site = l
    BY <1>1, <2>1, CallsAreStatements
  <2>3. Store(text, Ordered(text), i) \in Rendered(text, Ordered(text))
    BY DEF Rendered
  <2>4. Store(text, Ordered(text), i).site = l
    BY <2>2 DEF Store
  <2> QED
    BY <1>2, <2>3, <2>4
<1>4. ASSUME line.op = "call", Planned(text, line.fn)
      PROVE  \/ \E e \in Range(goBody.events) : e.name = line.fn
             \/ <<"stub", line.fn>> \in goBody.notes
  <2>1. /\ line.fn # text.name /\ line.fn \in DOMAIN Fns
        /\ Fns[line.fn].sort \in {"helper", "stub"} /\ l \in At(text, "call")
    BY <1>1, <1>4 DEF WellFormed, Planned, At
  <2>2. CASE Fns[line.fn].sort = "helper"
    <3>1. l \in Called(text, line.fn)
      BY <2>1 DEF Called
    <3> DEFINE call(fn) ==
          [site |-> Min(Called(text, fn)), line |-> Min(Called(text, fn)), fn |-> fn,
           int |-> Fns[fn].int,
           args |-> [k \in DOMAIN Fns[fn].formals |-> OwnValue(text, Fns[fn].formals[k])]]
          named == {g \in DOMAIN Fns :
                      Fns[g].sort = "helper" /\ g # text.name /\ Called(text, g) # {}}
    <3>2. HelperCalls(text) = {call(fn) : fn \in named}
      BY DEF HelperCalls
    <3>3. line.fn \in named
      BY <2>1, <2>2, <3>1
    <3>4. call(line.fn).fn = line.fn
      OBVIOUS
    <3> HIDE DEF call, named
    <3>5. PICK h \in HelperCalls(text) : h.fn = line.fn
      BY <3>2, <3>3, <3>4
    <3>6. Helper(h) \in Rendered(text, Ordered(text)) /\ Helper(h).name = line.fn
      BY <3>5 DEF Rendered, Helper
    <3> QED
      BY <1>2, <3>6
  <2>3. CASE Fns[line.fn].sort = "stub"
    <3>1. <<"stub", line.fn>> \in StubNotes(text)
      BY <2>1, <2>3 DEF StubNotes
    <3> QED
      BY <1>1, <3>1, TrailOfBody
  <2> QED
    BY <2>1, <2>2, <2>3
<1>5. ASSUME line.op = "tpcall"
      PROVE  <<"tpcall", l>> \in goBody.notes
  <2>1. l \in At(text, "tpcall")
    BY <1>5 DEF At
  <2>2. 1 <= l /\ l <= Len(text.src)
    BY <1>1, LenProperties DEF WellFormed, Lines
  <2>3. <<"tpcall", l>> \in TpNotes(text)
    BY <2>1, <2>2 DEF TpNotes
  <2> QED
    BY <1>1, <2>3, TrailOfBody
<1>6. ASSUME line.op = "add", text.sort = "endpoint"
      PROVE  \/ \E lit \in goBody.literals : \E p \in lit.pairs : p[1] = line.field
             \/ \E n \in goBody.notes : n[1] \in {"unsourced", "no row source"} /\ n[2] = line.field
  <2>1. line.field \in Range(ResponseFields(text))
    <3>1. l \in At(text, "add")
      BY <1>6 DEF At
    <3> QED
      BY <1>1, <3>1, FieldsOfAdds
  <2>2. text.sort # "helper"
    BY <1>6
  <2> DEFINE f == line.field
  <2> HIDE DEF f
  <2>3. \/ \E lit \in goBody.literals : \E p \in lit.pairs : p[1] = f
        \/ \E n \in goBody.notes : n[1] \in {"unsourced", "no row source"} /\ n[2] = f
    <3>1. \/ \E lit \in Body(text).literals : \E p \in lit.pairs : p[1] = f
          \/ \E n \in Body(text).notes : n[1] \in {"unsourced", "no row source"} /\ n[2] = f
      <4>1. f \in Range(ResponseFields(text))
        BY <2>1 DEF f
      <4> QED
        BY <1>1, <2>2, <4>1, FieldsAccounted
    <3> QED
      BY <1>1, <3>1
  <2> QED
    BY <2>3 DEF f
<1>7. CASE line.op \in {"read", "dml"}
  BY <1>3, <1>7 DEF Accounted
<1>8. CASE line.op = "call"
  BY <1>4, <1>8 DEF Accounted
<1>9. CASE line.op = "tpcall"
  BY <1>5, <1>9 DEF Accounted
<1>10. CASE line.op = "add"
  BY <1>6, <1>10 DEF Accounted
<1>11. CASE line.op \notin {"read", "dml", "call", "tpcall", "add"}
  BY <1>11 DEF Accounted
<1> QED
  BY <1>7, <1>8, <1>9, <1>10, <1>11 DEF line

LEMMA NothingIsDropped ==
  ASSUME WellFormed, Inv
  PROVE  NothingDropped
<1> SUFFICES ASSUME Written
    PROVE  /\ \A l \in Lines(text) : Accounted(text.src[l], l)
           /\ \A e \in Range(goBody.events) : \A a \in Range(e.args) :
                a[1] = "zero" => <<"zero", e.name, a[2]>> \in goBody.notes
  BY DEF NothingDropped
<1>1. text \in Units /\ goBody = Body(text)
  BY DEF Inv, Written
<1>2. \A l \in Lines(text) : Accounted(text.src[l], l)
  BY <1>1, LineIsAccounted
<1>3. ASSUME NEW e \in Range(goBody.events), NEW a \in Range(e.args), a[1] = "zero"
      PROVE  <<"zero", e.name, a[2]>> \in goBody.notes
  <2>1. <<"zero", e.name, a[2]>> \in {<<"zero", e.name, b[2]>> : b \in {c \in Range(e.args) : c[1] = "zero"}}
    BY <1>3
  <2>2. <<"zero", e.name, a[2]>> \in ZeroNotes(goBody.events)
    BY <2>1 DEF ZeroNotes
  <2> QED
    BY <1>1, <2>2, TrailOfBody
<1> QED
  BY <1>2, <1>3

\* The greatest of a finite set of naturals.
LEMMA MaxBelongs ==
  ASSUME NEW S \in SUBSET Nat, IsFiniteSet(S), S # {}
  PROVE  Max(S) \in S /\ \A x \in S : x <= Max(S)
<1> DEFINE before == {p \in S \X S : p[1] < p[2]}
           N == Cardinality(S)
           last == Nth(S, before, N)
<1>1. StrictOrder(S, before)
  <2>1. S \in SUBSET Int
    OBVIOUS
  <2> QED
    BY <2>1, NumbersOrder
<1>2. \A x, y \in S : <<x, y>> \in before <=> x < y
  OBVIOUS
<1> HIDE DEF before
<1>3. /\ N \in Nat
      /\ \A k \in 1 .. N : Nth(S, before, k) \in S
      /\ \A x \in S : \E k \in 1 .. N : Nth(S, before, k) = x
      /\ \A j, k \in 1 .. N : j < k <=> <<Nth(S, before, j), Nth(S, before, k)>> \in before
  BY <1>1, NthMembers
<1>4. N # 0
  BY FS_EmptySet
<1>5. N \in 1 .. N /\ last \in S
  BY <1>3, <1>4
<1>6. ASSUME NEW x \in S
      PROVE  last >= x
  <2>1. PICK k \in 1 .. N : Nth(S, before, k) = x
    BY <1>3
  <2>2. k = N \/ k < N
    BY <1>3
  <2>3. k < N => x < last
    BY <1>2, <1>3, <1>5, <2>1
  <2>4. x \in Nat /\ last \in Nat
    BY <1>5
  <2> QED
    BY <2>1, <2>2, <2>3, <2>4
<1> HIDE DEF last
<1>7. Max(S) \in S /\ \A x \in S : Max(S) >= x
  BY <1>5, <1>6, Zenon DEF Max
<1>8. \A x \in S : x \in Nat
  OBVIOUS
<1> QED
  BY <1>7, <1>8

\* The blocks that hold a call and are taken for nothing else guard its line.
LEMMA GuardingIsAround ==
  ASSUME WellFormed, NEW u \in Units, u.sort = "helper",
         NEW e \in Rendered(u, Ordered(u)), e.line = e.site
  PROVE  Guarding(u, Ordered(u), e.line) = {g \in Around(u, e.site) : ~TakenFor(u, Ordered(u), g)}
<1>1. e.site \in Lines(u) /\ u.src[e.site].op \in {"read", "dml", "call"}
  BY RenderedCalls
<1>2. \A g \in Headers(u) : u.src[g].to \in Nat
  BY DEF WellFormed, Nested
<1>3. \A g \in Headers(u) : g \in Nat /\ u.src[g].op \in {"if", "loop"}
  <2>1. \A g \in Headers(u) : g \in Lines(u) /\ u.src[g].op \in {"if", "loop"}
    BY DEF Headers, At
  <2> QED
    BY <2>1, LinesOfText
<1>4. e.site \in Nat
  BY <1>1, LinesOfText
<1>5. \A g \in Headers(u) :
        g \in Around(u, e.site) <=> (g <= e.site /\ e.site <= u.src[g].to)
  <2> TAKE g \in Headers(u)
  <2>1. g # e.site
    BY <1>1, <1>3
  <2>2. g \in Around(u, e.site) <=> e.site \in (g + 1) .. u.src[g].to
    BY DEF Around, Inside
  <2>3. g \in Nat /\ u.src[g].to \in Nat
    BY <1>2, <1>3
  <2> QED
    BY <1>4, <2>1, <2>2, <2>3
<1>6. /\ NotRendered(u, Ordered(u)) = {g \in Headers(u) : ~TakenFor(u, Ordered(u), g)}
      /\ Around(u, e.site) \subseteq Headers(u)
  BY DEF NotRendered, Around
<1> QED
  BY <1>5, <1>6, Zenon DEF Guarding

\* The innermost of nested blocks is the one that begins last.
LEMMA InnermostIsLast ==
  ASSUME WellFormed, NEW u \in Units, u.sort = "helper",
         NEW l \in Lines(u), NEW S \in SUBSET Around(u, l), S # {}
  PROVE  Innermost(u, S) = Max(S)
<1> DEFINE m == Max(S)
           size(g) == u.src[g].to - g
<1>1. S \in SUBSET Headers(u) /\ S \in SUBSET Lines(u)
  BY DEF Around, Headers, At
<1>2. IsFiniteSet(S) /\ S \in SUBSET Nat
  BY <1>1, LinesOfText, FS_Subset
<1>3. m \in S /\ \A k \in S : k <= m
  BY <1>2, MaxBelongs
<1>4. \A g \in Headers(u) :
        u.src[g].to \in Nat /\ \A k \in Headers(u) \cap Inside(u, g) : u.src[k].to <= u.src[g].to
  BY DEF WellFormed, Nested
<1>5. l \in Nat
  BY LinesOfText
<1>6. \A g \in S : g < l /\ l <= u.src[g].to
  <2> TAKE g \in S
  <2>1. l \in (g + 1) .. u.src[g].to
    BY DEF Around, Inside
  <2>2. g \in Nat /\ u.src[g].to \in Nat
    BY <1>1, <1>2, <1>4
  <2> QED
    BY <1>5, <2>1, <2>2
<1> HIDE DEF m
<1>7. ASSUME NEW k \in S, k # m
      PROVE  size(m) < size(k)
  <2>1. k \in Nat /\ m \in Nat /\ k < m
    BY <1>2, <1>3, <1>7
  <2>2. /\ u.src[k].to \in Nat /\ u.src[m].to \in Nat
        /\ m \in Headers(u) /\ k \in Headers(u)
    BY <1>1, <1>3, <1>4
  <2>3. m \in Inside(u, k)
    <3>1. m < l /\ l <= u.src[k].to
      BY <1>3, <1>6
    <3>2. m \in (k + 1) .. u.src[k].to
      BY <1>5, <2>1, <2>2, <3>1
    <3> QED
      BY <3>2 DEF Inside
  <2>4. u.src[m].to <= u.src[k].to
    BY <1>4, <2>2, <2>3
  <2> QED
    BY <2>1, <2>2, <2>4
<1>8. \A k \in S : size(k) \in Int
  <2> TAKE k \in S
  <2>1. k \in Nat /\ u.src[k].to \in Nat
    BY <1>1, <1>2, <1>4
  <2> QED
    BY <2>1
<1>9. \A k \in S : size(m) <= size(k)
  BY <1>3, <1>7, <1>8
<1>10. \A g \in S : (\A k \in S : size(g) <= size(k)) => g = m
  BY <1>3, <1>7, <1>8
<1>11. Innermost(u, S) = CHOOSE g \in S : \A k \in S : size(g) <= size(k)
  BY DEF Innermost
<1> HIDE DEF size
<1>12. Innermost(u, S) = m
  BY <1>3, <1>9, <1>10, <1>11
<1> QED
  BY <1>12 DEF m

LEMMA GuardsAreReported ==
  ASSUME WellFormed, Inv
  PROVE  GuardedCallsReported
<1> DEFINE calls == Ordered(text)
           blocks(d) == {g \in Around(text, d.site) : ~TakenFor(text, calls, g)}
           leak(d) == <<"leak", d.name, d.line, Innermost(text, Guarding(text, calls, d.line))>>
<1> SUFFICES ASSUME Written, text.sort = "helper", NEW e \in Range(goBody.events), e.line = e.site
    PROVE  /\ blocks(e) # {} =>
                <<"leak", e.name, e.site, Max(blocks(e))>>
                  \in {n \in goBody.notes : n[1] = "leak" /\ n[2] = e.name}
           /\ blocks(e) = {} =>
                ~ \E n \in {x \in goBody.notes : x[1] = "leak" /\ x[2] = e.name} : n[3] = e.site
  BY DEF GuardedCallsReported
<1>1. text \in Units /\ goBody = Body(text)
  BY DEF Inv, Written
<1>2. e \in Rendered(text, Ordered(text))
  BY <1>1, EventsOfBody DEF Range
<1>3. Guarding(text, calls, e.line) = blocks(e)
  BY <1>1, <1>2, GuardingIsAround
<1>4. goBody.notes = ZeroNotes(goBody.events) \cup StubNotes(text) \cup TpNotes(text)
                     \cup FlowNotes(text, calls, goBody.events)
  BY <1>1, TrailOfBody
<1>5. GuardLeaks(text, calls, goBody.events) =
        {leak(d) : d \in {x \in Range(goBody.events) : Guarding(text, calls, x.line) # {}}}
  BY DEF GuardLeaks
<1>6. ASSUME blocks(e) # {}
      PROVE  <<"leak", e.name, e.site, Max(blocks(e))>>
               \in {n \in goBody.notes : n[1] = "leak" /\ n[2] = e.name}
  <2>1. leak(e) \in GuardLeaks(text, calls, goBody.events)
    BY <1>3, <1>5, <1>6
  <2>2. leak(e) \in goBody.notes
    BY <1>4, <2>1 DEF FlowNotes
  <2>3. e.site \in Lines(text) /\ blocks(e) \in SUBSET Around(text, e.site)
    BY <1>1, <1>2, RenderedCalls
  <2>4. leak(e) = <<"leak", e.name, e.site, Max(blocks(e))>>
    <3>1. Innermost(text, blocks(e)) = Max(blocks(e))
      <4> HIDE DEF blocks
      <4> QED
        BY <1>1, <1>6, <2>3, InnermostIsLast
    <3> HIDE DEF blocks, calls
    <3> QED
      BY <1>3, <3>1
  <2>5. leak(e)[1] = "leak" /\ leak(e)[2] = e.name
    OBVIOUS
  <2> HIDE DEF leak, blocks
  <2> QED
    BY <2>2, <2>4, <2>5
<1>7. ASSUME blocks(e) = {}, NEW n \in goBody.notes, n[1] = "leak", n[3] = e.site
      PROVE  FALSE
  <2>1. n \in GuardLeaks(text, calls, goBody.events)
    <3>1. \A x \in ZeroNotes(goBody.events) : x[1] = "zero"
      BY DEF ZeroNotes
    <3>2. \A x \in StubNotes(text) : x[1] = "stub"
      BY DEF StubNotes
    <3>3. \A x \in TpNotes(text) : x[1] = "tpcall"
      BY DEF TpNotes
    <3>4. \A x \in FlowNotes(text, calls, goBody.events) :
            x[1] = "not rendered" \/ x \in GuardLeaks(text, calls, goBody.events)
      <4>1. ASSUME NEW T, NEW x \in {<<"not rendered", g>> : g \in T}
            PROVE  x[1] = "not rendered"
        <5>1. PICK g \in T : x = <<"not rendered", g>>
          OBVIOUS
        <5> QED
          BY <5>1
      <4>2. FlowNotes(text, calls, goBody.events) =
              {<<"not rendered", g>> : g \in NotRendered(text, calls)}
              \cup GuardLeaks(text, calls, goBody.events)
        BY DEF FlowNotes
      <4> HIDE DEF calls, blocks
      <4> QED
        BY <4>1, <4>2, Zenon
    <3> HIDE DEF calls, blocks
    <3> QED
      BY <1>4, <1>7, <3>1, <3>2, <3>3, <3>4
  <2>2. PICK d \in Range(goBody.events) : Guarding(text, calls, d.line) # {} /\ n = leak(d)
    BY <1>5, <2>1
  <2>3. n[3] = d.line
    BY <2>2
  <2>4. d.line = e.line
    BY <1>7, <2>3
  <2> HIDE DEF blocks, calls, leak
  <2> QED
    BY <1>3, <1>7, <2>2, <2>4
<1> QED
  BY <1>6, <1>7

\* Every statement, function of the plan, service call and reply field of a
\* text is in its body or has a note, every argument without a value has one,
\* and a call planned at its own line that the text makes only in blocks has
\* one that names the innermost of those not taken for something else.
THEOREM OmissionsAreReported ==
  ASSUME WellFormed
  PROVE  GoSpec => []NothingLeftOut
<1>1. Inv => NothingLeftOut
  BY NothingIsDropped, GuardsAreReported DEF NothingLeftOut
<1> QED
  BY <1>1, InvHolds, PTL

-----------------------------------------------------------------------------
(* What an argument holds.                                                 *)

\* What a host variable holds before a line, in terms of what others held.
ValueAt(u, value, p) ==
  LET earlier == {l \in Writers(u, p[1]) : l < p[2]}
      last == Max(earlier)
      writer == u.src[last]
  IN CASE earlier = {} -> Initially(u, p[1])
       [] earlier # {} /\ writer.op = "get" -> <<"field", writer.field>>
       [] earlier # {} /\ writer.op = "read" -> <<"column", last, p[1]>>
       [] OTHER -> value[<<writer.from, last>>]

ValuesUpTo(u, value, n) ==
  value = [p \in Hosts(u) \X (1 .. n) |-> ValueAt(u, value, p)]

\* The last line before another that fills a host variable is before it.
LEMMA LastWriter ==
  ASSUME WellFormed, NEW u \in Units, NEW h \in Hosts(u), NEW n \in Nat,
         {l \in Writers(u, h) : l < n} # {}
  PROVE  LET last == Max({l \in Writers(u, h) : l < n})
         IN  last \in Writers(u, h) /\ last < n /\ last \in Nat /\ last >= 1
<1> DEFINE earlier == {l \in Writers(u, h) : l < n}
<1>1. earlier \in SUBSET Lines(u)
  BY DEF Writers
<1>2. IsFiniteSet(earlier) /\ earlier \in SUBSET Nat
  BY <1>1, LinesOfText, FS_Subset
<1>3. Max(earlier) \in earlier
  BY <1>2, MaxBelongs
<1>4. \A l \in Lines(u) : l \in Nat /\ l >= 1
  BY LenProperties DEF WellFormed, Lines
<1> QED
  BY <1>1, <1>3, <1>4

\* Where the value comes from is found among the lines before.
LEMMA ValueLooksBack ==
  ASSUME WellFormed, NEW u \in Units, NEW n \in Nat, NEW f, NEW g,
         \A p \in Hosts(u) \X (1 .. (n - 1)) : f[p] = g[p],
         NEW p \in Hosts(u) \X (1 .. n)
  PROVE  ValueAt(u, f, p) = ValueAt(u, g, p)
<1> DEFINE earlier == {l \in Writers(u, p[1]) : l < p[2]}
           last == Max(earlier)
           writer == u.src[last]
<1>1. CASE earlier # {} /\ writer.op \notin {"get", "read"}
  <2>1. p[1] \in Hosts(u) /\ p[2] \in Nat /\ p[2] <= n
    OBVIOUS
  <2>2. last \in Writers(u, p[1]) /\ last < p[2] /\ last \in Nat /\ last >= 1
    BY <1>1, <2>1, LastWriter
  <2>3. last \in Lines(u) /\ writer.op = "copy"
    BY <1>1, <2>2 DEF Writers, Writes
  <2>4. writer.from \in Hosts(u)
    <3>1. writer.from \in Mentions(writer)
      BY <2>3 DEF Mentions
    <3> QED
      BY <2>3, <3>1 DEF Hosts
  <2>5. last \in 1 .. (n - 1)
    BY <2>1, <2>2
  <2>6. f[<<writer.from, last>>] = g[<<writer.from, last>>]
    BY <2>4, <2>5
  <2> HIDE DEF earlier, last
  <2>7. ValueAt(u, f, p) = f[<<writer.from, last>>] /\ ValueAt(u, g, p) = g[<<writer.from, last>>]
    BY <1>1 DEF ValueAt, earlier, last
  <2> QED
    BY <2>6, <2>7
<1>2. CASE earlier = {} \/ writer.op \in {"get", "read"}
  BY <1>2 DEF ValueAt
<1> QED
  BY <1>1, <1>2

\* The values of a text are defined, line after line.
LEMMA ValuesExist ==
  ASSUME WellFormed, NEW u \in Units, NEW n \in Nat
  PROVE  \E value : ValuesUpTo(u, value, n)
<1> DEFINE bad == {k \in Nat : ~ \E value : ValuesUpTo(u, value, k)}
<1>1. SUFFICES ASSUME bad # {} PROVE FALSE
  OBVIOUS
<1>2. PICK m \in bad : \A k \in bad : m <= k
  BY <1>1, LeastNatural
<1>3. CASE m = 0
  <2> DEFINE empty == [p \in Hosts(u) \X (1 .. 0) |-> 0]
  <2>1. Hosts(u) \X (1 .. 0) = {}
    OBVIOUS
  <2>2. empty = [p \in Hosts(u) \X (1 .. 0) |-> ValueAt(u, empty, p)]
    BY <2>1
  <2> QED
    BY <1>2, <1>3, <2>2 DEF ValuesUpTo
<1>4. CASE m # 0
  <2>1. m - 1 \in Nat /\ m - 1 \notin bad
    BY <1>2, <1>4
  <2>2. PICK f : ValuesUpTo(u, f, m - 1)
    BY <2>1
  <2> DEFINE g == [p \in Hosts(u) \X (1 .. m) |-> ValueAt(u, f, p)]
  <2>3. \A p \in Hosts(u) \X (1 .. (m - 1)) : f[p] = ValueAt(u, f, p) /\ p \in Hosts(u) \X (1 .. m)
    BY <1>2, <2>2 DEF ValuesUpTo
  <2>4. \A p \in Hosts(u) \X (1 .. (m - 1)) : f[p] = g[p]
    BY <2>3
  <2> HIDE DEF g
  <2>5. \A p \in Hosts(u) \X (1 .. m) : ValueAt(u, f, p) = ValueAt(u, g, p)
    BY <1>2, <2>4, ValueLooksBack
  <2>6. g = [p \in Hosts(u) \X (1 .. m) |-> ValueAt(u, g, p)]
    BY <2>5 DEF g
  <2> QED
    BY <1>2, <2>6 DEF ValuesUpTo
<1> QED
  BY <1>3, <1>4

\* What a host variable of the text holds at one of its lines.
LEMMA ValueUnfolds ==
  ASSUME WellFormed, NEW u \in Units, NEW h \in Hosts(u), NEW l \in Lines(u)
  PROVE  CValue(u, h, l) = ValueAt(u, CValues(u), <<h, l>>)
<1>1. Lines(u) = 1 .. Len(u.src) /\ Len(u.src) \in Nat
  BY LenProperties DEF WellFormed, Lines
<1>2. \E value : value = [p \in Hosts(u) \X Lines(u) |-> ValueAt(u, value, p)]
  <2>1. PICK value : ValuesUpTo(u, value, Len(u.src))
    BY <1>1, ValuesExist
  <2> QED
    BY <1>1, <2>1 DEF ValuesUpTo
<1>3. CValues(u) = CHOOSE value : value = [p \in Hosts(u) \X Lines(u) |-> ValueAt(u, value, p)]
  BY DEF CValues, ValueAt
<1>4. CValues(u) = [p \in Hosts(u) \X Lines(u) |-> ValueAt(u, CValues(u), p)]
  BY <1>2, <1>3
<1> QED
  BY <1>4 DEF CValue

LEMMA MaxOfOne == ASSUME NEW n \in Int PROVE Max({n}) = n
BY DEF Max

\* A host variable holds what the last line before gave it.
LEMMA FilledByLine ==
  ASSUME WellFormed, NEW u \in Units, NEW h \in Hosts(u), NEW l \in Lines(u),
         NEW w \in Writers(u, h), w < l, \A v \in Writers(u, h) : v < l => v <= w
  PROVE  /\ u.src[w].op = "get" => CValue(u, h, l) = <<"field", u.src[w].field>>
         /\ u.src[w].op = "read" => CValue(u, h, l) = <<"column", w, h>>
<1> DEFINE earlier == {v \in Writers(u, h) : v < l}
<1>1. earlier \in SUBSET Lines(u) /\ w \in earlier
  BY DEF Writers
<1>2. IsFiniteSet(earlier) /\ earlier \in SUBSET Nat
  BY <1>1, LinesOfText, FS_Subset
<1>3. Max(earlier) \in earlier /\ w <= Max(earlier)
  BY <1>1, <1>2, MaxBelongs
<1>4. Max(earlier) = w
  BY <1>1, <1>2, <1>3
<1>5. CValue(u, h, l) = ValueAt(u, CValues(u), <<h, l>>)
  BY ValueUnfolds
<1> QED
  BY <1>1, <1>4, <1>5 DEF ValueAt

\* One that no line before fills holds what it came with.
LEMMA FilledBefore ==
  ASSUME WellFormed, NEW u \in Units, NEW h \in Hosts(u), NEW l \in Lines(u),
         \A v \in Writers(u, h) : ~(v < l)
  PROVE  CValue(u, h, l) = Initially(u, h)
<1>1. {v \in Writers(u, h) : v < l} = {}
  OBVIOUS
<1>2. CValue(u, h, l) = ValueAt(u, CValues(u), <<h, l>>)
  BY ValueUnfolds
<1> QED
  BY <1>1, <1>2 DEF ValueAt

\* What has filled a host variable by a line of an endpoint is one place, when
\* the text reads it from no request, and it is no place of a later line.
LEMMA FilledFrom ==
  ASSUME NEW u, NEW h, NEW l
  PROVE  /\ \A w \in Writers(u, h) : w < l => <<"line", w>> \in FilledBy(u, h, l)
         /\ \A i \in Early(u, h) : <<"preamble", i>> \in FilledBy(u, h, l)
<1>1. ASSUME NEW w \in Writers(u, h), w < l
      PROVE  <<"line", w>> \in FilledBy(u, h, l)
  <2>1. <<"line", w>> \in Fillings(u, h) /\ <<"line", w>>[2] < l
    BY <1>1 DEF Fillings
  <2> QED
    BY <2>1 DEF FilledBy
<1>2. ASSUME NEW i \in Early(u, h)
      PROVE  <<"preamble", i>> \in FilledBy(u, h, l)
  <2>1. <<"preamble", i>> \in Fillings(u, h) /\ <<"preamble", i>>[1] # "line"
    BY DEF Fillings
  <2> QED
    BY <2>1 DEF FilledBy
<1> QED
  BY <1>1, <1>2

\* A formal that nothing else fills holds what the helper was called with.
LEMMA FormalIsKept ==
  ASSUME WellFormed, NEW u \in Units, u.sort = "helper", NEW h \in Hosts(u), NEW l \in Lines(u),
         Settled(u, h, l), h \in Range(u.params)
  PROVE  CValue(u, h, l) = <<"formal", h>>
<1>1. \A x, y \in Fillings(u, h) : x = y
  BY DEF Settled
<1>2. PICK k \in DOMAIN u.params : u.params[k] = h
  BY DEF Range
<1>3. <<"formal", k>> \in Fillings(u, h)
  BY <1>2 DEF Fillings
<1>4. Writers(u, h) = {}
  <2>1. SUFFICES ASSUME NEW w \in Writers(u, h) PROVE FALSE
    OBVIOUS
  <2>2. <<"line", w>> \in Fillings(u, h)
    BY DEF Fillings
  <2>3. <<"line", w>> = <<"formal", k>>
    BY <1>1, <1>3, <2>2
  <2> QED
    BY <2>3
<1>5. Early(u, h) = {}
  <2>1. SUFFICES ASSUME NEW i \in Early(u, h) PROVE FALSE
    OBVIOUS
  <2>2. <<"preamble", i>> \in Fillings(u, h)
    BY DEF Fillings
  <2>3. <<"preamble", i>> = <<"formal", k>>
    BY <1>1, <1>3, <2>2
  <2> QED
    BY <2>3
<1>6. CValue(u, h, l) = Initially(u, h)
  BY <1>4, FilledBefore
<1> QED
  BY <1>5, <1>6 DEF Initially

\* The members of the preamble that join are of the preamble.
LEMMA JoiningIsEarly ==
  ASSUME WellFormed, NEW u \in Units, NEW k \in DOMAIN Joining(u)
  PROVE  \E i \in Early(u, Joining(u)[k].host) : Joining(u)[k] = u.preamble[i]
<1> DEFINE S == {i \in DOMAIN u.preamble : Named(u, u.preamble[i].host)}
<1>1. DOMAIN u.preamble = 1 .. Len(u.preamble) /\ Len(u.preamble) \in Nat
  BY LenProperties DEF WellFormed
<1>2. IsFiniteSet(DOMAIN u.preamble)
  <2>1. 1 \in Int /\ Len(u.preamble) \in Int
    BY <1>1
  <2> QED
    BY <1>1, <2>1, FS_Interval
<1>3. S \in SUBSET Nat /\ IsFiniteSet(S)
  BY <1>1, <1>2, FS_Subset
<1>4. \A j \in DOMAIN LineSeq(S) : LineSeq(S)[j] \in S
  BY <1>3, LineSeqEnumerates
<1>5. DOMAIN Joining(u) = DOMAIN LineSeq(S) /\ Joining(u)[k] = u.preamble[LineSeq(S)[k]]
  BY DEF Joining
<1>6. LineSeq(S)[k] \in DOMAIN u.preamble
  BY <1>4, <1>5
<1> QED
  BY <1>5, <1>6 DEF Early

\* The field a host variable is bound to is the one it was read from.
LEMMA RequestMapIsRight ==
  ASSUME WellFormed, NEW u \in Units, u.sort # "helper", NEW h \in Hosts(u), NEW l \in Lines(u),
         Settled(u, h, l), h \in DOMAIN RequestMap(u)
  PROVE  CValue(u, h, l) = <<"field", RequestMap(u)[h]>>
<1> DEFINE gets == {g \in At(u, "get") : u.src[g].host = h}
           read == {u.src[g].host : g \in At(u, "get")}
           early == {Joining(u)[i].host : i \in DOMAIN Joining(u)}
           named == {i \in DOMAIN Joining(u) : Joining(u)[i].host = h}
<1>1. /\ h \in read \cup early
      /\ RequestMap(u)[h] = IF h \in read THEN u.src[Max(gets)].field ELSE Joining(u)[Min(named)].field
  BY DEF RequestMap
<1>2. /\ \A g \in gets : g < l
      /\ \/ \A x, y \in FilledBy(u, h, l) : x = y
         \/ gets # {} /\ \A w \in Writers(u, h) : w < l => w <= Max(gets)
  BY DEF Settled
<1>3. CASE h \in read
  <2>1. gets # {} /\ gets \in SUBSET Lines(u)
    BY <1>3 DEF At
  <2>2. gets \in SUBSET Nat /\ IsFiniteSet(gets)
    BY <2>1, LinesOfText, FS_Subset
  <2>3. Max(gets) \in gets
    BY <2>1, <2>2, MaxBelongs
  <2>4. Max(gets) \in Writers(u, h) /\ u.src[Max(gets)].op = "get" /\ Max(gets) < l
    BY <1>2, <2>3 DEF At, Writers, Writes
  <2>5. Max(gets) \in Nat
    BY <2>2, <2>3
  <2> HIDE DEF gets
  <2>6. ASSUME NEW v \in Writers(u, h), v < l
        PROVE  v <= Max(gets)
    <3>1. CASE \A x, y \in FilledBy(u, h, l) : x = y
      <4>1. <<"line", v>> \in FilledBy(u, h, l) /\ <<"line", Max(gets)>> \in FilledBy(u, h, l)
        BY <2>4, <2>6, FilledFrom
      <4>2. <<"line", v>> = <<"line", Max(gets)>>
        BY <3>1, <4>1
      <4> QED
        BY <2>5, <4>2
    <3>2. CASE \A w \in Writers(u, h) : w < l => w <= Max(gets)
      BY <2>6, <3>2
    <3> QED
      BY <1>2, <3>1, <3>2
  <2>7. CValue(u, h, l) = <<"field", u.src[Max(gets)].field>>
    BY <2>4, <2>6, FilledByLine
  <2> QED
    BY <1>1, <1>3, <2>7
<1>4. CASE h \notin read
  <2>1. named # {} /\ gets = {}
    BY <1>1, <1>4
  <2>2. named \in SUBSET Nat
    <3> DEFINE S == {i \in DOMAIN u.preamble : Named(u, u.preamble[i].host)}
    <3>1. DOMAIN u.preamble = 1 .. Len(u.preamble) /\ Len(u.preamble) \in Nat
      BY LenProperties DEF WellFormed
    <3>2. IsFiniteSet(DOMAIN u.preamble)
      <4>1. 1 \in Int /\ Len(u.preamble) \in Int
        BY <3>1
      <4> QED
        BY <3>1, <4>1, FS_Interval
    <3>3. S \in SUBSET Nat /\ IsFiniteSet(S)
      BY <3>1, <3>2, FS_Subset
    <3> HIDE DEF S
    <3>4. DOMAIN LineSeq(S) = 1 .. Cardinality(S) /\ Cardinality(S) \in Nat
      BY <3>3, LineSeqEnumerates
    <3>5. DOMAIN Joining(u) = DOMAIN LineSeq(S)
      BY DEF Joining, S
    <3> QED
      BY <3>4, <3>5
  <2>3. Min(named) \in named
    BY <2>1, <2>2, MinBelongs
  <2>4. PICK i \in Early(u, h) : Joining(u)[Min(named)] = u.preamble[i]
    BY <2>3, JoiningIsEarly
  <2>5. \A x, y \in FilledBy(u, h, l) : x = y
    BY <1>2, <2>1
  <2>6. <<"preamble", i>> \in FilledBy(u, h, l)
    BY FilledFrom
  <2>7. \A v \in Writers(u, h) : ~(v < l)
    <3>1. SUFFICES ASSUME NEW v \in Writers(u, h), v < l PROVE FALSE
      OBVIOUS
    <3>2. <<"line", v>> \in FilledBy(u, h, l)
      BY <3>1, FilledFrom
    <3>3. <<"line", v>> = <<"preamble", i>>
      BY <2>5, <2>6, <3>2
    <3> QED
      BY <3>3
  <2>8. \A j \in Early(u, h) : j = i
    <3> TAKE j \in Early(u, h)
    <3>1. <<"preamble", j>> \in FilledBy(u, h, l)
      BY FilledFrom
    <3>2. <<"preamble", j>> = <<"preamble", i>>
      BY <2>5, <2>6, <3>1
    <3> QED
      BY <3>2
  <2>9. i \in Int
    BY LenProperties DEF Early, WellFormed
  <2>10. Early(u, h) = {i} /\ Max(Early(u, h)) = i
    BY <2>8, <2>9, MaxOfOne
  <2>11. CValue(u, h, l) = Initially(u, h)
    BY <2>7, FilledBefore
  <2>12. CValue(u, h, l) = <<"field", u.preamble[i].field>>
    BY <2>10, <2>11 DEF Initially
  <2> QED
    BY <1>1, <1>4, <2>4, <2>12
<1> QED
  BY <1>1, <1>3, <1>4

\* What the request or the parameters bind an argument to.
LEMMA OwnValueIsRight ==
  ASSUME WellFormed, text \in Units, NEW l \in Lines(text), NEW h \in Hosts(text),
         Settled(text, h, l), OwnValue(text, h)[1] \notin {"zero", "guess"}
  PROVE  GoValue(OwnValue(text, h)) = CValue(text, h, l)
<1>1. CASE text.sort = "helper"
  <2>1. h \in Range(text.params) /\ OwnValue(text, h) = <<"param", h>>
    BY <1>1 DEF OwnValue, FromParams, Zero
  <2>2. GoValue(OwnValue(text, h)) = <<"formal", h>>
    BY <2>1 DEF GoValue
  <2> QED
    BY <1>1, <2>1, <2>2, FormalIsKept
<1>2. CASE text.sort # "helper"
  <2>1. h \in DOMAIN RequestMap(text) /\ OwnValue(text, h) = <<"request", RequestMap(text)[h]>>
    BY <1>2 DEF OwnValue, FromRequest, Zero
  <2>2. GoValue(OwnValue(text, h)) = <<"field", RequestMap(text)[h]>>
    BY <2>1 DEF GoValue
  <2> QED
    BY <1>2, <2>1, <2>2, RequestMapIsRight
<1> QED
  BY <1>1, <1>2

\* The planned calls carry what the statements say, each under its own name.
LEMMA CallsCarryStatements ==
  ASSUME WellFormed, NEW u \in Units
  PROVE  /\ \A i \in DOMAIN Ordered(u) :
              LET line == u.src[Ordered(u)[i].site]
              IN /\ Ordered(u)[i].binds = line.binds
                 /\ Ordered(u)[i].row # <<>> => line.op = "read" /\ Ordered(u)[i].row = line.into
                 /\ line.op = "read" /\ line.shape \in {"rows", "single"} => Ordered(u)[i].row = line.into
         /\ \A i, j \in DOMAIN Ordered(u) : Ordered(u)[i].capture = Ordered(u)[j].capture => i = j
<1> DEFINE S == Statements(u)
           before == StatementOrder(u)
           order == InOrder(S, before)
           N == Cardinality(S)
           calls == Ordered(u)
<1>1. IsFiniteSet(S) /\ StrictOrder(S, before)
  BY StatementsInOrder
<1>2. N \in Nat
  BY <1>1, FS_CardinalityType
<1>3. order \in Seq(S) /\ Len(order) = N
  BY <1>1, InOrderEnumerates
<1>4. DOMAIN order = 1 .. N /\ \A k \in 1 .. N : order[k] \in S
  BY <1>3
<1>5. calls = [i \in DOMAIN order |->
         [site |-> order[i], line |-> LineOf(u, order[i]), q |-> u.src[order[i]].q,
          shape |-> Shape(u.src[order[i]]), binds |-> u.src[order[i]].binds,
          row |-> IF Shape(u.src[order[i]]) \in {"rows", "single"} THEN u.src[order[i]].into ELSE <<>>,
          capture |-> <<u.src[order[i]].q, Repeats(u, order, i)>>,
          tx |-> u.src[order[i]].op = "dml" /\ u.src[order[i]].tx /\ ~u.src[order[i]].merge]]
  BY DEF Ordered
<1> HIDE DEF order, calls, N
<1>6. DOMAIN calls = 1 .. N
  BY <1>4, <1>5
<1>7. ASSUME NEW i \in 1 .. N
      PROVE  /\ calls[i].site = order[i] /\ calls[i].binds = u.src[order[i]].binds
             /\ calls[i].row = IF Shape(u.src[order[i]]) \in {"rows", "single"}
                               THEN u.src[order[i]].into ELSE <<>>
             /\ calls[i].capture = <<u.src[order[i]].q, Repeats(u, order, i)>>
  BY <1>4, <1>5
<1>8. ASSUME NEW i \in 1 .. N
      PROVE  /\ calls[i].binds = u.src[calls[i].site].binds
             /\ calls[i].row # <<>> => /\ u.src[calls[i].site].op = "read"
                                       /\ calls[i].row = u.src[calls[i].site].into
             /\ u.src[calls[i].site].op = "read" /\ u.src[calls[i].site].shape \in {"rows", "single"}
                  => calls[i].row = u.src[calls[i].site].into
  <2>1. order[i] \in S
    BY <1>4
  <2>2. u.src[order[i]].op \in {"read", "dml"}
    BY <2>1 DEF Statements, At
  <2> QED
    BY <1>7, <2>2 DEF Shape
<1>9. ASSUME NEW i \in 1 .. N, NEW j \in 1 .. N, i < j, u.src[order[i]].q = u.src[order[j]].q
      PROVE  Repeats(u, order, i) # Repeats(u, order, j)
  <2> DEFINE upto(k) == {m \in 1 .. k : u.src[order[m]].q = u.src[order[k]].q}
  <2>1. i \in Int /\ j \in Int
    BY <1>2
  <2>2. upto(i) \in SUBSET upto(j) /\ j \in upto(j) /\ j \notin upto(i)
    BY <1>9, <2>1
  <2>3. IsFiniteSet(upto(j))
    <3>1. IsFiniteSet(1 .. j)
      BY <2>1, FS_Interval
    <3> QED
      BY <3>1, FS_Subset
  <2>4. Cardinality(upto(i)) # Cardinality(upto(j))
    <3> HIDE DEF upto
    <3> QED
      BY <2>2, <2>3, FS_Subset
  <2> QED
    BY <2>4 DEF Repeats
<1>10. ASSUME NEW i \in 1 .. N, NEW j \in 1 .. N, calls[i].capture = calls[j].capture
       PROVE  i = j
  <2>1. u.src[order[i]].q = u.src[order[j]].q /\ Repeats(u, order, i) = Repeats(u, order, j)
    BY <1>7, <1>10
  <2>2. ~(i < j) /\ ~(j < i)
    BY <1>9, <2>1
  <2> QED
    BY <1>2, <2>2
<1> QED
  BY <1>6, <1>8, <1>10 DEF calls

\* What a row of an earlier call binds an argument to, where neither the
\* request nor a parameter does.
LEMMA RowIsRight ==
  ASSUME WellFormed, text \in Units, NEW i \in DOMAIN Ordered(text), NEW h \in Hosts(text),
         Settled(text, h, Ordered(text)[i].site), OwnValue(text, h) = Zero(h),
         FromRow(Ordered(text), i, h)[1] # "zero"
  PROVE  GoValue(FromRow(Ordered(text), i, h)) = CValue(text, h, Ordered(text)[i].site)
<1> DEFINE calls == Ordered(text)
           made == Producers(calls, i, h)
           j == Min(made)
<1>1. made # {} /\ FromRow(calls, i, h) = <<"row", calls[j].capture, h>>
  BY DEF FromRow, Zero
<1>2. DOMAIN calls \in SUBSET Nat
  BY CallsAreStatements
<1>3. made \in SUBSET DOMAIN calls
  BY DEF Producers, Readers
<1>4. j \in made
  BY <1>1, <1>2, <1>3, MinBelongs
<1>5. j \in DOMAIN calls /\ h \in Range(calls[j].row) /\ j < i
  BY <1>2, <1>4 DEF Producers, Readers
<1> HIDE DEF calls, j, made
<1>6. calls[j].site \in Statements(text) /\ calls[i].site \in Statements(text) /\ calls[j].site # calls[i].site
  <2>1. i \in Nat /\ j \in Nat
    BY <1>2, <1>5 DEF calls
  <2> QED
    BY <1>5, <2>1, CallsAreStatements DEF calls
<1>7. calls[j].row # <<>>
  BY <1>5 DEF Range
<1>8. text.src[calls[j].site].op = "read" /\ calls[j].row = text.src[calls[j].site].into
  BY <1>5, <1>7, CallsCarryStatements DEF calls
<1>9. calls[j].site \in Writers(text, h)
  BY <1>5, <1>6, <1>8 DEF Writers, Writes, Statements, At
<1>10. /\ calls[j].site < calls[i].site
       /\ \A v \in Writers(text, h) : v < calls[i].site => v = calls[j].site
  <2>1. CASE text.sort = "helper"
    <3>1. \A x, y \in Fillings(text, h) : x = y
      BY <2>1 DEF Settled
    <3>2. \A v \in Writers(text, h) : v = calls[j].site
      <4> TAKE v \in Writers(text, h)
      <4>1. <<"line", v>> \in Fillings(text, h) /\ <<"line", calls[j].site>> \in Fillings(text, h)
        BY <1>9 DEF Fillings
      <4>2. <<"line", v>> = <<"line", calls[j].site>>
        BY <3>1, <4>1
      <4> QED
        BY <4>2
    <3>3. calls[j].site <= calls[i].site
      BY <1>9, <2>1 DEF Settled, calls
    <3>4. calls[j].site \in Nat /\ calls[i].site \in Nat
      BY <1>6, StatementsInOrder
    <3> QED
      BY <1>6, <3>2, <3>3, <3>4
  <2>2. CASE text.sort # "helper"
    <3>1. calls[j].site < calls[i].site
      BY <1>5, <2>2, CallsAreStatements DEF calls
    <3>2. \A g \in At(text, "get") : text.src[g].host # h
      <4>1. SUFFICES ASSUME NEW g \in At(text, "get"), text.src[g].host = h PROVE FALSE
        OBVIOUS
      <4>2. h \in DOMAIN RequestMap(text)
        BY <4>1 DEF RequestMap
      <4>3. OwnValue(text, h) = <<"request", RequestMap(text)[h]>>
        BY <2>2, <4>2 DEF OwnValue, FromRequest
      <4> QED
        BY <4>3 DEF Zero
    <3>3. \A x, y \in FilledBy(text, h, calls[i].site) : x = y
      BY <2>2, <3>2 DEF Settled, calls
    <3>4. ASSUME NEW v \in Writers(text, h), v < calls[i].site PROVE v = calls[j].site
      <4>1. /\ <<"line", v>> \in FilledBy(text, h, calls[i].site)
            /\ <<"line", calls[j].site>> \in FilledBy(text, h, calls[i].site)
        BY <1>9, <3>1, <3>4, FilledFrom
      <4>2. <<"line", v>> = <<"line", calls[j].site>>
        BY <3>3, <4>1
      <4> QED
        BY <4>2
    <3> QED
      BY <3>1, <3>4
  <2> QED
    BY <2>1, <2>2
<1>11. CValue(text, h, calls[i].site) = <<"column", calls[j].site, h>>
  <2>1. calls[i].site \in Lines(text)
    BY <1>6 DEF Statements, At
  <2>2. calls[j].site \in Nat
    BY <1>6, StatementsInOrder
  <2>3. \A v \in Writers(text, h) : v < calls[i].site => v <= calls[j].site
    BY <1>10, <2>2
  <2> QED
    BY <1>8, <1>9, <1>10, <2>1, <2>3, FilledByLine
<1>12. (CHOOSE c \in Statements(text) : \E k \in DOMAIN calls :
           calls[k].site = c /\ calls[k].capture = calls[j].capture) = calls[j].site
  <2>1. \A k \in DOMAIN calls : calls[k].capture = calls[j].capture => k = j
    BY <1>5, CallsCarryStatements DEF calls
  <2> QED
    BY <1>5, <1>6, <2>1
<1>13. GoValue(<<"row", calls[j].capture, h>>) = <<"column", calls[j].site, h>>
  BY <1>12 DEF GoValue, calls
<1> QED
  BY <1>1, <1>11, <1>13 DEF calls

\* An argument bound by the name the text passes holds what the text passes.
LEMMA ArgumentsAreRight ==
  ASSUME WellFormed, text \in Units, NEW e \in Rendered(text, Ordered(text)),
         NEW k \in DOMAIN e.args, e.args[k][1] \notin {"zero", "guess"},
         k \in DOMAIN Passed(text.src[e.site]),
         Passed(text.src[e.site])[k] = BoundBy(e)[k],
         Settled(text, Passed(text.src[e.site])[k], e.site)
  PROVE  GoValue(e.args[k]) = CValue(text, Passed(text.src[e.site])[k], e.site)
<1> DEFINE calls == Ordered(text)
           line == text.src[e.site]
           h == Passed(line)[k]
<1>1. e.site \in Lines(text) /\ line.op \in {"read", "dml", "call"}
  BY RenderedCalls
<1>2. h \in Hosts(text)
  <2>1. h \in Mentions(line)
    BY <1>1 DEF Passed, Mentions, Range
  <2> HIDE DEF h, line
  <2> QED
    BY <1>1, <2>1 DEF Hosts, line
<1>3. CASE \E i \in DOMAIN calls : e = Store(text, calls, i)
  <2>1. PICK i \in DOMAIN calls : e = Store(text, calls, i)
    BY <1>3
  <2>2. e.site = calls[i].site /\ e.args = CallArgs(text, calls, i) /\ e.kind = "store"
    BY <2>1 DEF Store
  <2>3. calls[i].binds = line.binds /\ BoundBy(e) = line.binds
    BY <2>2, CallsCarryStatements DEF BoundBy
  <2>4. e.args[k] = IF OwnValue(text, h) # Zero(h) THEN OwnValue(text, h) ELSE FromRow(calls, i, h)
    <3>1. h = calls[i].binds[k]
      BY <2>3
    <3>2. k \in DOMAIN calls[i].binds
      BY <2>2 DEF CallArgs
    <3> HIDE DEF calls, h
    <3> QED
      BY <2>2, <3>1, <3>2 DEF CallArgs
  <2> HIDE DEF calls, line, h
  <2>5. CASE OwnValue(text, h) # Zero(h)
    BY <1>1, <1>2, <2>4, <2>5, OwnValueIsRight DEF h, line
  <2>6. CASE OwnValue(text, h) = Zero(h)
    BY <1>2, <2>2, <2>4, <2>6, RowIsRight DEF h, line, calls
  <2> QED
    BY <2>5, <2>6 DEF h, line
<1>4. CASE \E c \in HelperCalls(text) : e = Helper(c)
  <2>1. PICK c \in HelperCalls(text) : e = Helper(c)
    BY <1>4
  <2>2. e.args = c.args /\ e.name = c.fn /\ e.kind # "store"
    BY <2>1 DEF Helper
  <2>3. c.args = [n \in DOMAIN Fns[c.fn].formals |-> OwnValue(text, Fns[c.fn].formals[n])]
    BY DEF HelperCalls
  <2>4. h = Fns[c.fn].formals[k]
    BY <2>2 DEF BoundBy
  <2>5. e.args[k] = OwnValue(text, h)
    BY <2>2, <2>3, <2>4
  <2> HIDE DEF line, h
  <2> QED
    BY <1>1, <1>2, <2>5, OwnValueIsRight DEF h, line
<1> QED
  BY <1>3, <1>4 DEF Rendered

\* A pair of a literal known by its host variable is written into the reply.
LEMMA PairsAreRight ==
  ASSUME WellFormed, text \in Units, text.sort # "helper",
         NEW i \in DOMAIN Ordered(text), NEW p \in Pairs(text, Ordered(text), i), p[3] = "own"
  PROVE  /\ AddsOf(text, p[1], p[2]) # {}
         /\ \A l \in AddsOf(text, p[1], p[2]) :
              FilledByRead(text, p[2], l) =>
                CValue(text, p[2], l) = <<"column", Ordered(text)[i].site, p[2]>>
<1> DEFINE calls == Ordered(text)
           f == p[1]
           h == p[2]
           c == calls[i].site
           own == f \in DOMAIN TargetOf(text) /\ TargetOf(text)[f] \in Range(calls[i].row)
           alike == {k \in DOMAIN calls[i].row : <<calls[i].row[k], f>> \in Alike}
<1>1. /\ <<h, "own">> \in RowField(text, calls, i, f)
      /\ f \in DOMAIN Owned(text, calls) => Owned(text, calls)[f] = i
  BY DEF Pairs
<1>2. own /\ h = TargetOf(text)[f]
  <2>1. CASE own
    BY <1>1, <2>1 DEF RowField
  <2>2. CASE ~own
    <3>1. <<h, "own">> \in IF alike # {} THEN {<<calls[i].row[Min(alike)], "alike">>} ELSE {}
      BY <1>1, <2>2 DEF RowField
    <3> QED
      BY <3>1
  <2> QED
    BY <2>1, <2>2
<1> HIDE DEF own, alike, h, f
<1>3. f \in DOMAIN TargetOf(text) /\ h \in Range(calls[i].row)
  BY <1>2 DEF own
<1>4. AddsOf(text, f, h) # {}
  <2> DEFINE S == {l \in Range(Adds(text)) : text.src[l].field = f}
             l == Min(S)
  <2>1. f \in {text.src[k].field : k \in Range(Adds(text))} /\ h = text.src[l].host
    BY <1>2, <1>3 DEF TargetOf
  <2>2. Range(Adds(text)) \in SUBSET {k \in At(text, "add") : text.src[k].reply}
    <3> DEFINE adds == {k \in At(text, "add") : text.src[k].reply}
    <3>1. adds \in SUBSET Lines(text)
      BY DEF At
    <3>2. adds \in SUBSET Nat /\ IsFiniteSet(adds)
      BY <3>1, LinesOfText, FS_Subset
    <3> HIDE DEF adds
    <3>3. \A k \in DOMAIN LineSeq(adds) : LineSeq(adds)[k] \in adds
      BY <3>2, LineSeqEnumerates
    <3> QED
      BY <3>3 DEF Adds, Range, adds
  <2>3. S # {} /\ S \in SUBSET Lines(text)
    BY <2>1, <2>2 DEF At
  <2>4. S \in SUBSET Nat
    BY <2>3, LinesOfText
  <2>5. l \in S
    BY <2>3, <2>4, MinBelongs
  <2>6. l \in At(text, "add") /\ text.src[l].reply /\ text.src[l].field = f
    BY <2>2, <2>5
  <2> QED
    BY <2>1, <2>6 DEF AddsOf
<1>5. i \in Readers(calls, h)
  BY <1>3 DEF Readers
<1>6. Readers(calls, h) \in SUBSET Nat
  BY CallsAreStatements DEF Readers
<1>7. \A k \in Readers(calls, h) : i <= k
  <2>1. f \in DOMAIN Owned(text, calls) /\ Owned(text, calls)[f] = OwnerFor(calls, h)
    BY <1>2, <1>3, <1>5 DEF Owned, Owns
  <2>2. i = Min(Readers(calls, h))
    BY <1>1, <2>1 DEF OwnerFor
  <2> QED
    BY <1>5, <1>6, <2>2, MinBelongs
<1>8. /\ c \in Statements(text)
      /\ text.src[c].op = "read" /\ calls[i].row = text.src[c].into
  <2>1. calls[i].row # <<>>
    BY <1>3 DEF Range
  <2> QED
    BY <2>1, CallsAreStatements, CallsCarryStatements
<1>9. c \in Writers(text, h)
  BY <1>3, <1>8 DEF Statements, At, Writers, Writes
<1>10. ASSUME NEW l \in AddsOf(text, f, h), FilledByRead(text, h, l)
       PROVE  CValue(text, h, l) = <<"column", c, h>>
  <2>1. PICK w \in At(text, "read") : /\ text.src[w].shape \in {"rows", "single"} /\ w < l
                                      /\ FilledBy(text, h, l) = {<<"line", w>>}
    BY <1>10 DEF FilledByRead
  <2>2. w \in Writers(text, h)
    <3>1. <<"line", w>> \in Fillings(text, h)
      BY <2>1 DEF FilledBy
    <3>2. \A k : <<"preamble", k>> # <<"line", w>> /\ <<"formal", k>> # <<"line", w>>
      OBVIOUS
    <3>3. PICK v \in Writers(text, h) : <<"line", v>> = <<"line", w>>
      BY <3>1, <3>2, Zenon DEF Fillings
    <3> QED
      BY <3>3
  <2>3. w \in Statements(text) /\ text.src[w].op = "read"
    BY DEF Statements, At
  <2>4. PICK k \in DOMAIN calls : calls[k].site = w
    BY <2>3, CallsAreStatements
  <2>5. calls[k].row = text.src[w].into
    BY <2>1, <2>3, <2>4, CallsCarryStatements DEF Shape
  <2>6. k \in Readers(calls, h)
    BY <2>2, <2>3, <2>4, <2>5 DEF Readers, Writers, Writes
  <2>7. c <= w
    <3>1. i <= k /\ i \in Nat /\ k \in Nat
      BY <1>5, <1>6, <1>7, <2>6
    <3>2. i < k => c < w
      BY <2>4, CallsAreStatements
    <3>3. c \in Nat /\ w \in Nat
      BY <1>8, <2>3, StatementsInOrder
    <3>4. i = k => c = w
      BY <2>4
    <3> HIDE DEF c
    <3> QED
      BY <3>1, <3>2, <3>3, <3>4
  <2>8. l \in Lines(text) /\ l \in Nat /\ text.src[l].op = "add" /\ text.src[l].host = h
    BY LinesOfText DEF AddsOf, At
  <2>9. c \in Nat /\ w \in Nat /\ c < l
    BY <1>8, <2>1, <2>3, <2>7, <2>8, StatementsInOrder
  <2>10. \A v \in Writers(text, h) : v < l => v = w
    <3> TAKE v \in Writers(text, h)
    <3> HAVE v < l
    <3>1. <<"line", v>> \in FilledBy(text, h, l)
      BY FilledFrom
    <3>2. <<"line", v>> = <<"line", w>>
      BY <2>1, <3>1
    <3> QED
      BY <3>2
  <2>11. c = w
    BY <1>9, <2>9, <2>10
  <2>12. h \in Hosts(text)
    <3>1. h \in Mentions(text.src[l])
      BY <2>8 DEF Mentions
    <3> QED
      BY <2>8, <3>1 DEF Hosts
  <2>13. \A v \in Writers(text, h) : v < l => v <= w
    BY <2>9, <2>10
  <2>14. CValue(text, h, l) = <<"column", w, h>>
    BY <2>1, <2>2, <2>3, <2>8, <2>12, <2>13, FilledByLine
  <2> QED
    BY <2>11, <2>14
<1> QED
  BY <1>4, <1>10 DEF f, h, calls

\* An argument bound by the name the text passes, and a response field bound by
\* its own host variable, hold what the C text passes and writes there wherever
\* what the variable holds is settled, for every well-formed text.
THEOREM ValuesAreKept ==
  ASSUME WellFormed
  PROVE  GoSpec => []ValuesAreLegacy
<1>1. Inv => ValuesAreLegacy
  <2> SUFFICES ASSUME Inv, Written PROVE ValuesAreLegacy
    BY DEF ValuesAreLegacy
  <2>1. text \in Units /\ goBody = Body(text)
    BY DEF Inv, Written
  <2>2. ASSUME NEW e \in Range(goBody.events), NEW k \in DOMAIN e.args
        PROVE  LET passed == Passed(text.src[e.site])
               IN /\ e.args[k][1] \notin {"zero", "guess"}
                  /\ k \in DOMAIN passed /\ passed[k] = BoundBy(e)[k]
                  /\ Settled(text, passed[k], e.site)
                  => GoValue(e.args[k]) = CValue(text, passed[k], e.site)
    <3>1. e \in Rendered(text, Ordered(text))
      BY <2>1, EventsOfBody DEF Range
    <3> QED
      BY <2>1, <3>1, ArgumentsAreRight
  <2>3. ASSUME NEW lit \in goBody.literals, NEW p \in lit.pairs, p[3] = "own"
        PROVE  /\ AddsOf(text, p[1], p[2]) # {}
               /\ \A l \in AddsOf(text, p[1], p[2]) :
                    FilledByRead(text, p[2], l) => CValue(text, p[2], l) = <<"column", lit.site, p[2]>>
    <3>1. text.sort # "helper" /\ lit \in Literals(text, Ordered(text))
      BY <2>1 DEF Body
    <3>2. PICK i \in DOMAIN Ordered(text) : lit.site = Ordered(text)[i].site
                                      /\ lit.pairs = Pairs(text, Ordered(text), i)
      BY <3>1 DEF Literals, Of
    <3> QED
      BY <2>1, <2>3, <3>1, <3>2, PairsAreRight
  <2> QED
    BY <2>2, <2>3 DEF ValuesAreLegacy
<1> QED
  BY <1>1, InvHolds, PTL
=============================================================================
