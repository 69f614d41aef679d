----------------------------- MODULE Scenarios -----------------------------
(***************************************************************************)
(* internal/flow/scenario.go: the slice of an entry for one value of its   *)
(* dispatch axis.  Every branch that tests the axis is folded under the    *)
(* assumption axis = value; an arm that is provably not taken is dropped,  *)
(* a guard that also tests something else keeps its residual.              *)
(***************************************************************************)
EXTENDS FlowTree

\* foldExpr: the residual expression and its truth; "unknown" is the shape
\* the fold does not understand.
Folded(e, t) == [e |-> e, t |-> t]
True == Folded(Empty, "true")
False == Folded(Empty, "false")
Mixed(e) == Folded(e, "mixed")
Unknown(e) == Folded(e, "unknown")

EqualsFold(v, value, op) ==
  CASE op = "==" -> IF v = value THEN True ELSE False
    [] op = "!=" -> IF v = value THEN False ELSE True
    [] OTHER -> Unknown(Empty)

\* What a literal or a name is looked up by.
LeafText(e) == IF e.kind \in {"ident", "raw"} THEN e.text ELSE ""
\* A strcmp between an assumed axis and a string: the string and the value.
StrcmpAxis(e, fs) ==
  IF e.kind # "call" \/ e.text \notin {"strcmp", "strncmp"} \/ Len(e.items) # 2 THEN {}
  ELSE {[lit |-> e.items[3 - i].text, value |-> a.value] :
          i \in {i \in 1..2 : e.items[3 - i].kind = "str"},
          a \in UNION {Assumed(fs, e.items[j].text) : j \in 1..2}}
The(s) == CHOOSE x \in s : TRUE
\* Mutant: strcmp taken for an equality test.
FoldCallAsEquality(e, fs) ==
  LET s == StrcmpAxis(e, fs)
  IN IF s = {} THEN Mixed(e) ELSE EqualsFold(The(s).lit, The(s).value, "==")
FoldCall(e, fs) == LET s == StrcmpAxis(e, fs)
                   IN IF s = {} THEN Mixed(e) ELSE EqualsFold(The(s).lit, The(s).value, "!=")

FoldCmp(e, fs) ==
  LET l == e.items[1]
      r == e.items[2]
      zero(x) == x = Num("0")
      left == Assumed(fs, LeafText(l))
      right == Assumed(fs, LeafText(r))
  IN CASE StrcmpAxis(l, fs) # {} /\ zero(r) ->
            EqualsFold(The(StrcmpAxis(l, fs)).lit, The(StrcmpAxis(l, fs)).value, e.text)
       [] StrcmpAxis(r, fs) # {} /\ zero(l) ->
            EqualsFold(The(StrcmpAxis(r, fs)).lit, The(StrcmpAxis(r, fs)).value, e.text)
       [] left # {} /\ right # {} -> IF left = right THEN True ELSE Mixed(e)
       [] left # {} /\ right = {} -> IF IsLit(r) THEN EqualsFold(r.text, The(left).value, e.text)
                                     ELSE Mixed(Cmp(Chr(The(left).value), e.text, r))
       [] left = {} /\ right # {} -> IF IsLit(l) THEN EqualsFold(l.text, The(right).value, e.text)
                                     ELSE Mixed(Cmp(l, e.text, Chr(The(right).value)))
       [] OTHER -> Mixed(e)

\* orOf and andOf: an item without text is left out.
Joint(kind, items) == LET es == SelectSeq(items, LAMBDA e : e # Empty)
                      IN IF Len(es) = 1 THEN es[1] ELSE Node(kind, "", es)
Negated(e) == IF e.kind = "not" THEN e.items[1] ELSE Not(e)

RECURSIVE FoldExpr(_, _)
FoldExpr(e, fs) ==
  LET parts == [i \in DOMAIN e.items |-> FoldExpr(e.items[i], fs)]
      \* The items the assumption did not decide.
      live == SelectSeq(parts, LAMBDA p : p.t \notin {"true", "false"})
      rest == [i \in DOMAIN live |-> live[i].e]
      some(t) == \E i \in DOMAIN parts : parts[i].t = t
  IN CASE e.kind = "or" -> IF some("true") THEN True
                           ELSE IF rest # <<>> THEN Mixed(Joint("or", rest)) ELSE False
       [] e.kind = "and" -> IF some("false") THEN False
                            ELSE IF rest # <<>> THEN Mixed(Joint("and", rest)) ELSE True
       [] e.kind = "not" -> CASE some("true") -> False
                              [] some("false") -> True
                              [] some("mixed") -> Mixed(Negated(parts[1].e))
                              [] OTHER -> Unknown(Not(parts[1].e))
       [] e.kind = "cmp" -> FoldCmp(e, fs)
       [] e.kind = "call" -> FoldCall(e, fs)
       [] e.kind = "ident" /\ Assumed(fs, e.text) # {} -> Mixed(e)
       [] OTHER -> Unknown(e)

---------------------------------------------------------------------------
\* SliceNode: a tree node and what the fold made of its branch.
SliceNode(n, fold, live, kids) ==
  [kind |-> n.kind, sub |-> n.sub, line |-> n.line, end |-> n.end, cond |-> n.cond,
   fold |-> fold, live |-> live, kids |-> kids]
Span(n) == n.line..n.end
\* A walk's result: the kept nodes, the dropped lines, the residue's lines.
Sliced(nodes, dropped, residue) == [nodes |-> nodes, dropped |-> dropped, residue |-> residue]

RECURSIVE Walk(_, _), WalkFrom(_, _, _, _)
\* One branch under the assumption; taken says it is provably entered.
KeptAround(n, fold, live, taken, residue, inner) ==
  [taken |-> taken,
   out |-> Sliced(<<SliceNode(n, fold, live, inner.nodes)>>, inner.dropped, inner.residue \cup residue)]
Judged(n, f, fs) ==
  IF f.t = "false" THEN [taken |-> FALSE, out |-> Sliced(<<>>, Span(n), {})]
  ELSE LET kind == CASE f.t = "true" -> "satisfied" [] f.t = "unknown" -> "unrecognized" [] OTHER -> f.t
           live == CASE f.t = "true" -> Empty [] f.t = "mixed" -> f.e [] OTHER -> n.cond
       IN KeptAround(n, kind, live, f.t = "true", IF kind = "unrecognized" THEN {n.line} ELSE {},
                     Walk(n.kids, fs))
FoldArm(n, fs) ==
  IF n.kind # "branch" \/ n.pred = Empty \/ ~Touches(n.pred, fs)
  THEN KeptAround(n, "kept", n.cond, FALSE, {}, Walk(n.kids, fs))
  ELSE Judged(n, FoldExpr(n.pred, fs), fs)

\* The nodes from i on; taken: an earlier arm of this chain surely matches.
WalkFrom(ns, i, taken, fs) ==
  IF i > Len(ns) THEN Sliced(<<>>, {}, {})
  ELSE LET n == ns[i]
           chain == {c \in Chains(ns) : i \in c[1]..c[2]}
           dispatch == \E c \in chain : Dispatches(ns, c, fs)
           prior == taken /\ \E c \in chain : i > c[1]
           arm == CASE dispatch /\ n.sub = "else" /\ prior ->
                         [taken |-> TRUE, out |-> Sliced(<<>>, Span(n), {})]
                    [] OTHER -> FoldArm(n, fs)
           beside(a, b) == Sliced(a.nodes \o b.nodes, a.dropped \cup b.dropped, a.residue \cup b.residue)
           then(a) == beside(a.out, WalkFrom(ns, i + 1, prior \/ a.taken, fs))
       IN then(arm)
Walk(ns, fs) == WalkFrom(ns, 1, FALSE, fs)

\* The top-level nodes before the first chain that tests the axis.
SplitAt(ns, inAxis(_)) ==
  LET firsts == {i \in DOMAIN ns : inAxis(ns[i])}
      heads(i) == {c[1] : c \in {d \in Chains(ns) : i \in d[1]..d[2]}}
  IN IF firsts = {} THEN Len(ns)
     ELSE LET i == Min(firsts) IN Min({i} \cup heads(i)) - 1

\* The scenario of one value; no axis (<<>>) keeps the whole function.
ScenarioFor(tree, axis, value) ==
  LET fs == IF axis = <<>> THEN <<>> ELSE <<Assume(axis, value)>>
      inAxis(n) == n.kind = "branch" /\ Touches(n.pred, fs)
      split == IF axis = <<>> THEN 0 ELSE SplitAt(tree, inAxis)
      of(body) == [value |-> value, preamble |-> SubSeq(tree, 1, split), body |-> body.nodes,
                   dropped |-> body.dropped, residue |-> body.residue, assumed |-> fs]
  IN of(Walk(SubSeq(tree, split + 1, Len(tree)), fs))

\* The value that names the default arm is no value of the domain.
DefaultKey(axis) == CHOOSE k \in {"default", "default_"} :
                      /\ k \notin axis.domain
                      /\ "default" \notin axis.domain => k = "default"
\* Mutant: the default arm gets no slice.
ScenariosOfDomain(tree, axis) == {ScenarioFor(tree, axis, v) : v \in axis.domain}
Scenarios(tree, axis) ==
  {ScenarioFor(tree, axis, v) :
     v \in axis.domain \cup IF axis.hasDefault THEN {DefaultKey(axis)} ELSE {}}

---------------------------------------------------------------------------
\* The census of a slice: what the plan and the prompt take from it - its text,
\* its FML reads and writes, its queries with their transaction decision, and
\* the value of every response field.
RECURSIVE AllSlices(_)
AllSlices(ns) == UNION {{ns[i]} \cup AllSlices(ns[i].kids) : i \in DOMAIN ns}
SpansOf(ns) == UNION {Span(n) : n \in AllSlices(ns)}
PreambleLines(sc) == UNION {Span(sc.preamble[i]) : i \in DOMAIN sc.preamble}

\* Whole spans, with the lines of arms dropped inside them (keptLineSet) ...
KeptLines(sc) == PreambleLines(sc) \cup SpansOf(sc.body)
\* ... and without (bodyLines): what the renderers and the prompt show.
BodyLines(sc) == SpansOf(sc.body) \ sc.dropped

---------------------------------------------------------------------------
\* Transaction calls, by what they do; a helper's name says it.
TxRole(name) == CASE name \in {"tpbegin", "fn_begintran"} -> "begin"
                  [] name \in {"tpcommit", "fn_committran"} -> "commit"
                  [] name \in {"fn_aborttran", "fn_rollbacktran"} -> "abort"
                  [] OTHER -> ""
RoleOf(l) == IF l.stmt = "call" THEN TxRole(l.args[1]) ELSE ""
\* A commit closes the nearest begin still open; aborts pair with nothing.
TxPairs(src, lines) ==
  LET step(o, i) ==
        CASE RoleOf(src[i]) = "begin" -> [o EXCEPT !.stack = Append(@, i)]
          [] RoleOf(src[i]) = "commit" /\ o.stack # <<>> ->
               [stack |-> Front(o.stack), pairs |-> o.pairs \cup {<<Last(o.stack), i>>}]
          [] OTHER -> o
  IN FoldLeft(step, [stack |-> <<>>, pairs |-> {}], InOrder(src, lines)).pairs
\* The sites are looked for in the body's spans only.
TxSpans(src, sc) == TxPairs(src, SpansOf(sc.body))
\* Mutant: everything after a begin is in its transaction.
InTxForEver(pairs, line) == \E p \in pairs : p[1] < line
InTx(pairs, line) == \E p \in pairs : p[1] < line /\ line < p[2]

\* The prompt's text: an abort call has no line, the wrapper rolls back.
SourceLines(src, sc) ==
  {l \in PreambleLines(sc) \cup BodyLines(sc) :
     ~(RoleOf(src[l]) = "abort" /\ l \in SpansOf(sc.body))}
\* Where a query's region begins and ends, counted in lines of that text.
QueryRegion(src, sc, tree, q) ==
  LET nodes == {n \in AllNodes(tree) : /\ n.kind = "sql" /\ n.line \in KeptLines(sc)
                                       /\ src[n.line].args[1] = q}
      at(l) == IF l \notin SourceLines(src, sc) THEN 0
               ELSE Cardinality({k \in SourceLines(src, sc) : k <= l})
  IN IF nodes = {} THEN <<>>
     ELSE LET s == at(Min({n.line : n \in nodes}))
              e == at(Max({n.end : n \in nodes}))
          IN IF s = 0 \/ e < s THEN <<>> ELSE <<s, e>>

---------------------------------------------------------------------------
\* The census: nodes of the tree whose own first line, and whose ancestors'
\* first lines, survive; annotate gave each one the operations of its span.
RECURSIVE Visited(_, _)
Visited(ns, kept) == UNION {{ns[i]} \cup Visited(ns[i].kids, kept) :
                              i \in {i \in DOMAIN ns : ns[i].line \in kept}}
\* Mutant: the preamble is left out of the census.
CensusOfBody(tree, sc) == Visited(tree, {n.line : n \in AllSlices(sc.body)})
CensusNodes(tree, sc) ==
  Visited(tree, PreambleLines(sc) \cup {n.line : n \in AllSlices(sc.body)})
CensusLines(tree, sc) == UNION {Span(n) : n \in CensusNodes(tree, sc)}
Counted(e) == {s.items[2].text : s \in {s \in ToSet(Subs(e)) : IsFoccur(s)}}
Gets(src, tree, sc) ==
  UNION {Counted(src[l].cond) \cup IF src[l].stmt = "get" THEN {src[l].args[1]} ELSE {} :
           l \in CensusLines(tree, sc)}
Adds(src, tree, sc) ==
  {src[l].args[1] : l \in {k \in CensusLines(tree, sc) : src[k].stmt = "add"}}

\* A query is placed at its own SQL node, or at the first node around it.
QueryLines(src, tree, sc) == {l \in CensusLines(tree, sc) : src[l].stmt = "sql"}
PlaceOf(tree, sc, l) ==
  LET around == {n \in CensusNodes(tree, sc) : l \in Span(n)}
  IN IF \E n \in around : n.kind = "sql" THEN l ELSE Min({n.line : n \in around})
Queries(src, tree, sc) ==
  {[id |-> src[l].args[1], line |-> l,
    tx |-> /\ src[l].args[2] \in {"INSERT", "UPDATE", "DELETE", "MERGE"}
           /\ InTx(TxSpans(src, sc), PlaceOf(tree, sc, l))] : l \in QueryLines(src, tree, sc)}

---------------------------------------------------------------------------
\* exclusiveBranch: the deepest nodes of the two lines, climbed to one level
\* of the tree, are arms of one chain.
RECURSIVE PathTo(_, _)
\* The nodes around a line, outermost first; of two that hold it, the last.
PathTo(ns, l) ==
  LET holds == {i \in DOMAIN ns : l \in Span(ns[i])}
  IN IF holds = {} THEN <<>>
     ELSE LET i == Max(holds) IN <<[level |-> ns, at |-> i]>> \o PathTo(ns[i].kids, l)
ExclusiveBranch(tree, a, b) ==
  LET pa == PathTo(tree, a)
      pb == PathTo(tree, b)
      depth == 1..Min({Len(pa), Len(pb)})
      parts == {d \in depth : pa[d].at # pb[d].at}
  IN /\ parts # {}
     /\ LET d == Min(parts)
            ns == pa[d].level
        IN \E c \in Chains(ns) : {pa[d].at, pb[d].at} \subseteq c[1]..c[2]

\* Mutant: a read of a request field is no write.
WriteOfCode(l, var) ==
  CASE l.stmt = "assign" /\ l.args[1] = var -> {l.args[2]}
    [] l.stmt = "sql" /\ l.args[2] = "SELECT" /\ l.args[3] = var -> {l.args[1]}
    [] OTHER -> {}
\* What a line writes into a variable, or nothing.
WriteOf(l, var) ==
  CASE l.stmt = "assign" /\ l.args[1] = var -> {l.args[2]}
    [] l.stmt = "get" /\ l.args[2] = var -> {l.args[1]}
    [] l.stmt = "sql" /\ l.args[2] = "SELECT" /\ l.args[3] = var -> {l.args[1]}
    [] OTHER -> {}
\* Where the census believes a line of text is: the texts of a node are
\* numbered from its first line, and only lines of code have one.
Records(src, tree, sc) ==
  LET code(n) == {l \in Span(n) : IsCode(src[l])}
      at(n, l) == n.line + Cardinality({k \in code(n) : k < l})
  IN UNION {{[at |-> at(n, l), from |-> l] : l \in code(n)} :
              n \in {n \in CensusNodes(tree, sc) : n.kind \in {"stmt", "sql", "unknown"}}}

\* resolveResponses: the value of a response is the last surviving write
\* above its add; a surviving write below it, not in an exclusive arm, makes
\* the value unstable.  A read survives by spans, any other write by the
\* census.
Responses(src, tree, sc) ==
  LET gets == {[at |-> l, from |-> l] : l \in {k \in KeptLines(sc) : src[k].stmt = "get"}}
      others == {r \in Records(src, tree, sc) : src[r.from].stmt # "get"}
      writing(rs, var) == {r \in rs : WriteOf(src[r.from], var) # {}}
      of(l) == LET var == src[l].args[2]
                   above == {w \in writing(gets \cup others, var) : w.at < l}
                   nearest == {w \in above : \A v \in above : v.at <= w.at}
               IN [line |-> l, field |-> src[l].args[1],
                   value |-> UNION {WriteOf(src[w.from], var) : w \in nearest},
                   writer |-> {w.from : w \in nearest},
                   stable |-> \A w \in writing(others, var) :
                                w.at > l => ExclusiveBranch(tree, l, w.at)]
  IN {of(l) : l \in {k \in KeptLines(sc) : src[k].stmt = "add"}}

---------------------------------------------------------------------------
\* internal/flow/scenariofilter.go: a slice chosen by a boolean over the dispatch
\* axes.  The filter becomes terms of `axis == value` literals, the terms become
\* assignments of values to axes, the assignments the source never witnesses are
\* pruned, and the tree is folded once under all that are left: a guard goes only
\* when every assignment decides it.
maxFilterTerms == 32
maxFilterAssignments == 25

Refused(why, pruned) == [ok |-> FALSE, why |-> why, pruned |-> pruned]

---------------------------------------------------------------------------
\* filterDNF: a sequence of terms, a term a sequence of literals; <<>> is
\* the refusal of a shape or a size the grammar does not allow.
Capped(terms) == IF Len(terms) > maxFilterTerms THEN <<>> ELSE terms
Pair(a, b) == FlattenSeq([i \in DOMAIN a |-> [j \in DOMAIN b |-> a[i] \o b[j]]])

\* filterAtom: the literal may stand on either side.
Atom(e, op) ==
  LET l == e.items[1]
      r == e.items[2]
      lit(v, x) == <<<<[var |-> v.text, op |-> op, value |-> x.text]>>>>
  IN CASE l.kind = "ident" /\ IsLit(r) -> lit(l, r)
       [] IsLit(l) /\ r.kind = "ident" -> lit(r, l)
       [] OTHER -> <<>>
\* Mutant: a negated atom keeps its operator.
OppositeSame == [o \in {"==", "!="} |-> o]
Opposite == [o \in {"==", "!="} |-> IF o = "==" THEN "!=" ELSE "=="]

RECURSIVE DNF(_, _), Cross(_, _)
\* Every item's terms joined (||), or their products (&&).
Union(items, neg) ==
  LET parts == [i \in DOMAIN items |-> DNF(items[i], neg)]
  IN IF \E i \in DOMAIN parts : parts[i] = <<>> THEN <<>> ELSE Capped(FlattenSeq(parts))
Cross(items, neg) ==
  LET step(acc, e) == IF acc = <<>> THEN <<>> ELSE Capped(Pair(acc, DNF(e, neg)))
  IN FoldLeft(step, <<<<>>>>, items)
\* neg: an odd number of negations stands above e.
DNF(e, neg) ==
  CASE e.kind = "or" -> IF neg THEN Cross(e.items, TRUE) ELSE Union(e.items, FALSE)
    [] e.kind = "and" -> IF neg THEN Union(e.items, TRUE) ELSE Cross(e.items, FALSE)
    [] e.kind = "not" -> DNF(e.items[1], ~neg)
    [] e.kind = "cmp" /\ e.text \in {"==", "!="} ->
         Atom(e, IF neg THEN Opposite[e.text] ELSE e.text)
    [] OTHER -> <<>>
ParseScenarioFilter(ts) == DNF(Parse(ts), FALSE)

---------------------------------------------------------------------------
axisUniverse(a) == a.domain \cup IF a.hasDefault THEN {DefaultKey(a)} ELSE {}
Admits(a, lit) == IF lit.op = "==" THEN {lit.value} ELSE axisUniverse(a) \ {lit.value}

\* The value combinations of one term: functions from its variables.
TermVars(t) == {t[i].var : i \in DOMAIN t}
Allowed(registry, t, v) ==
  LET a == CHOOSE a \in ToSet(registry) : a.name = v
  IN {x \in axisUniverse(a) : \A i \in DOMAIN t : t[i].var = v => x \in Admits(a, t[i])}
Combos(registry, t) ==
  {f \in [TermVars(t) -> UNION {axisUniverse(a) : a \in ToSet(registry)}] :
     \A v \in TermVars(t) : f[v] \in Allowed(registry, t, v)}

\* assignments: an axis nobody knows, a value outside its universe, a term
\* that contradicts itself and an explosion are all refused.
Assignments(registry, terms) ==
  LET known == \A i \in DOMAIN terms : TermVars(terms[i]) \subseteq {a.name : a \in ToSet(registry)}
      inDomain(l) == \E a \in ToSet(registry) : a.name = l.var /\ l.value \in axisUniverse(a)
      sizes[i \in 0..Len(terms)] ==   \* what earlier terms left, deduplicated, and this term
        IF i = 0 THEN {} ELSE sizes[i-1] \cup Combos(registry, terms[i])
      tooMany(i) == Cardinality(sizes[i-1]) + Cardinality(Combos(registry, terms[i]))
                      > maxFilterAssignments
  IN CASE terms = <<>> -> Refused("unsupported", {})
       [] ~known -> Refused("unknown axis", {})
       [] \E i \in DOMAIN terms, j \in 1..Max({Len(terms[k]) : k \in DOMAIN terms}) :
            j <= Len(terms[i]) /\ ~inDomain(terms[i][j]) -> Refused("outside domain", {})
       [] \E i \in DOMAIN terms : Combos(registry, terms[i]) = {} -> Refused("contradictory", {})
       [] \E i \in DOMAIN terms : tooMany(i) -> Refused("too many", {})
       [] OTHER -> [ok |-> TRUE, all |-> sizes[Len(terms)]]

---------------------------------------------------------------------------
\* The assumptions of one assignment, for foldExpr.
Assumptions(registry, f) ==
  LET axis(v) == CHOOSE a \in ToSet(registry) : a.name = v
  IN SetToSeq({Assume(axis(v), f[v]) : v \in DOMAIN f})
\* The asserted variables a predicate tests.
Tested(registry, f, e) ==
  {v \in DOMAIN f : Touches(e, Assumptions(registry, [u \in {v} |-> f[v]]))}
TouchesAny(registry, fs, e) == e # Empty /\ \E f \in fs : Tested(registry, f, e) # {}

\* The walk: what is kept, dropped and left as residue, and which asserted
\* variables each assignment has seen witnessed (pairs).
Met(nodes, dropped, residue, witness) ==
  [nodes |-> nodes, dropped |-> dropped, residue |-> residue, witness |-> witness]
Gone(n) == [true |-> {}, out |-> Met(<<>>, Span(n), {}, {})]

\* The assignments that get into an arm: all the fold does not contradict.
Enters(fold, reach) == {f \in reach : fold[f].t # "false"}

RECURSIVE FilterWalk(_, _, _, _), FilterFrom(_, _, _, _, _, _)
\* Two results in a row.
Beside(a, b) == Met(a.nodes \o b.nodes, a.dropped \cup b.dropped,
                    a.residue \cup b.residue, a.witness \cup b.witness)
\* A node kept around the walk of its children.
Around(n, kind, live, residue, witness, in) ==
  Met(<<SliceNode(n, kind, live, in.nodes)>>, in.dropped, in.residue \cup residue,
      in.witness \cup witness)
\* One arm: reach are the assignments whose control flow arrives at it.
FilterArm(registry, fs, n, reach) ==
  LET fold == [f \in fs |-> FoldExpr(n.pred, Assumptions(registry, f))]
      is(f, t) == fold[f].t = t
      enter == Enters(fold, reach)
      seen == UNION {{<<f, v>> : v \in Tested(registry, f, n.pred)} : f \in enter}
      plain == n.kind # "branch" \/ n.pred = Empty \/ ~TouchesAny(registry, fs, n.pred)
      kind == CASE plain -> "kept"
                [] \A f \in fs : is(f, "true") -> "satisfied"
                [] \E f \in fs : is(f, "unknown") -> "unrecognized"
                [] OTHER -> "mixed"
  IN IF ~plain /\ \A f \in fs : is(f, "false") THEN Gone(n)
     ELSE [true |-> {f \in reach : ~plain /\ is(f, "true")},
           out |-> Around(n, kind, IF kind = "satisfied" THEN Empty ELSE n.cond,
                          IF kind = "unrecognized" THEN {n.line} ELSE {},
                          IF plain THEN {} ELSE seen,
                          FilterWalk(registry, fs, n.kids, IF plain THEN reach ELSE enter))]

\* The nodes from i on; taken: assignments an earlier arm surely matched.
FilterFrom(registry, fs, ns, i, reach, taken) ==
  IF i > Len(ns) THEN Met(<<>>, {}, {}, {})
  ELSE LET n == ns[i]
           chain == {c \in Chains(ns) : i \in c[1]..c[2]}
           arms == UNION {c[1]..c[2] : c \in chain}
           before == IF \E c \in chain : i > c[1] THEN taken ELSE {}
           here == reach \ before
           tests(f) == UNION {Tested(registry, f, ns[k].pred) : k \in arms}
           default == n.sub = "else" /\ \E k \in arms : TouchesAny(registry, fs, ns[k].pred)
           arm == CASE default /\ here = {} -> Gone(n)
                    [] default -> [true |-> {}, out |->
                         Around(n, "kept", n.cond, {}, UNION {{<<f, v>> : v \in tests(f)} : f \in here},
                                FilterWalk(registry, fs, n.kids, here))]
                    [] OTHER -> FilterArm(registry, fs, n, here)
           then(a) == Beside(a.out, FilterFrom(registry, fs, ns, i + 1, reach, before \cup a.true))
       IN then(arm)
FilterWalk(registry, fs, ns, reach) == FilterFrom(registry, fs, ns, 1, reach, {})

Missing(w, f) == {v \in DOMAIN f : <<f, v>> \notin w}
\* ScenarioForFilter: a dry walk for the witnesses, then the fold under the
\* assignments that have them all.  The split looks into nested guards.
Filtered(tree, split, all, live, pruned, body) ==
  IF body.nodes = <<>> THEN Refused("no body", pruned)
  ELSE [ok |-> TRUE, preamble |-> SubSeq(tree, 1, split), body |-> body.nodes,
        dropped |-> body.dropped, residue |-> body.residue,
        live |-> live, all |-> all, pruned |-> pruned]
SplitForFilter(tree, registry, live) ==
  LET tests(n) == \E m \in AllNodes(<<n>>) : TouchesAny(registry, live, m.pred)
  IN SplitAt(tree, tests)
FoldLive(tree, registry, all, live, pruned, split) ==
  Filtered(tree, split, all, live, pruned,
           FilterWalk(registry, live, SubSeq(tree, split + 1, Len(tree)), live))
Witnessed(tree, registry, all, seen) ==
  LET live == {f \in all : Missing(seen, f) = {}}
      pruned == {[assignment |-> f, missing |-> Missing(seen, f)] : f \in all \ live}
  IN IF live = {} THEN Refused("no reachable arm", pruned)
     ELSE FoldLive(tree, registry, all, live, pruned, SplitForFilter(tree, registry, live))
ForAssignments(tree, registry, as) ==
  IF ~as.ok THEN as
  ELSE Witnessed(tree, registry, as.all, FilterWalk(registry, as.all, tree, as.all).witness)
ScenarioForFilter(tree, registry, terms) ==
  ForAssignments(tree, registry, Assignments(registry, terms))

---------------------------------------------------------------------------
\* The environments a slice speaks for: the axis, under both its names, has
\* the value; a default slice stands for every value outside the domain.
Agrees(env, a, v) ==
  \A n \in {a.ref, a.alias} \ {""} :
    IF v \in a.domain THEN env[n] = v ELSE env[n] \notin a.domain
AgreesAll(env, registry, f) ==
  \A v \in DOMAIN f : Agrees(env, CHOOSE a \in ToSet(registry) : a.name = v, f[v])
=============================================================================
