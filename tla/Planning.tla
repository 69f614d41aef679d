------------------------------ MODULE Planning ------------------------------
(***************************************************************************)
(* internal/plan: from the facts of a file and the user's mapping to the   *)
(* units that are generated.  A file is the entry function, the helper     *)
(* functions below it, and what is known of the functions it calls that    *)
(* are defined elsewhere; a mapping is a sequence of endpoints and the     *)
(* names pinned for the queries.  Method names are strings, because their  *)
(* collisions matter; a target path, a route or a template is left out.    *)
(***************************************************************************)
EXTENDS Scenarios, Inventory, PlanState

---------------------------------------------------------------------------
\* internal/flow/discover.go and the drafts of cmd/tuxconv/discover.go: which
\* blocks of an entry could be endpoints, the key each one gets in the draft, and
\* how a later command finds the block a key names.  A key is a sequence: the
\* index of a condition, then at every level below the ordinal of a qualifying
\* branch; 0 stands for no condition.
Calls == {"call", "get", "add", "tpcall"}
Does(src, l, names) == src[l].stmt = "call" /\ src[l].args[1] \in names
\* FML operations and terminals of a node: error adds report, they answer
\* nothing.
IsErrorAdd(l) == l.stmt = "add" /\ (l.args[1] = "FML_ERR_MSG" \/ l.args[2] = "c_errmsg")
NodeGets(src, n) ==
  UNION {Counted(src[l].cond) \cup IF src[l].stmt = "get" THEN {src[l].args[1]} ELSE {} : l \in Span(n)}
NodeAdds(src, n) == {src[l].args[1] : l \in {k \in Span(n) : src[k].stmt = "add" /\ ~IsErrorAdd(src[k])}}
NodeQueries(src, n) == {l \in Span(n) : src[l].stmt = "sql"}

Owned(n) == Span(n) \ UNION {Span(m) : m \in {m \in AllNodes(n.kids) : m.kind = "branch"}}
SuccessTerminal(src, n) ==
  LET at == {l \in Owned(n) : Does(src, l, {"tpsuccess", "tpforward"})}
  IN IF at = {} THEN 0 ELSE Min(at)
\* Some failure exit of its own has no code of its own after it.
EndsInExit(src, n) ==
  \E e \in Owned(n) : /\ src[e].stmt = "return" \/ Does(src, e, {"tpfail"})
                      /\ ~\E l \in Owned(n) : l > e /\ src[l].stmt \in Calls \cup {"return", "sql"}
BranchQualifies(src, n) ==
  /\ NodeAdds(src, n) # {}
  /\ \/ SuccessTerminal(src, n) # 0
     \/ NodeGets(src, n) # {} /\ ~EndsInExit(src, n)

---------------------------------------------------------------------------
\* conditionIndexOf and, the other way, rootFor: the same header line, else
\* containment.
ConditionIndexOf(n, conds) ==
  LET exact == {i \in DOMAIN conds : conds[i].from = n.line}
      around == {i \in DOMAIN conds : ArmHolds(conds[i], n.line)}
      size(i) == conds[i].to - conds[i].from
  IN CASE exact # {} -> Min(exact)
       [] around # {} -> Min({i \in around : \A j \in around : size(i) <= size(j)})
       [] OTHER -> 0
RootFor(tree, c) ==
  LET branch(i) == tree[i].kind = "branch"
      exact == {i \in DOMAIN tree : branch(i) /\ tree[i].line = c.from}
      inside == {i \in DOMAIN tree : branch(i) /\ ArmHolds(c, tree[i].line)}
  IN CASE exact # {} -> Min(exact) [] inside # {} -> Min(inside) [] OTHER -> 0

\* walkChildren: one counter for the whole subtree of a parent; a guard or
\* a loop is walked through without a key of its own, a candidate starts a
\* counter under its own key.
Candidate(key, n) == [key |-> key, line |-> n.line, end |-> n.end]
RECURSIVE Keyed(_, _, _, _), KeyedUnder(_, _, _)
\* Mutant: the walk into a guard numbers its candidates afresh.
KeyedAfresh(src, n, key, acc) ==
  IF n.kind = "branch" /\ BranchQualifies(src, n)
  THEN [k |-> acc.k + 1,
        out |-> acc.out \o <<Candidate(Append(key, acc.k + 1), n)>>
                \o KeyedUnder(src, n, Append(key, acc.k + 1))]
  ELSE [k |-> acc.k, out |-> acc.out \o KeyedUnder(src, n, key)]
Keyed(src, n, key, acc) ==
  IF n.kind = "branch" /\ BranchQualifies(src, n)
  THEN [k |-> acc.k + 1,
        out |-> acc.out \o <<Candidate(Append(key, acc.k + 1), n)>>
                \o KeyedUnder(src, n, Append(key, acc.k + 1))]
  ELSE FoldLeft(LAMBDA a, c : Keyed(src, c, key, a), acc, n.kids)
KeyedUnder(src, n, key) ==
  FoldLeft(LAMBDA a, c : Keyed(src, c, key, a), [k |-> 0, out |-> <<>>], n.kids).out

\* IsNoiseCond: a guard about plumbing (status codes, debug switches).
IsNoise(e) == \E s \in ToSet(Subs(e)) : s.text \in {"SQLCODE", "DEBUG", "Ferror"}
\* A success terminal outside every branch is the tail its arms drain into.
ConvergentTails(src, tree) ==
  {l \in DOMAIN src : /\ Does(src, l, {"tpsuccess", "tpforward"})
                      /\ ~\E n \in AllNodes(tree) : n.kind = "branch" /\ l \in Span(n)}
TailFeeders(src, tree, conds, emitted) ==
  LET feeds(n) == /\ n.kind = "branch" /\ ~IsNoise(n.cond) /\ ConditionIndexOf(n, conds) \notin {0} \cup emitted
                  /\ \E t \in ConvergentTails(src, tree) : n.end < t
                  /\ SuccessTerminal(src, n) = 0 /\ ~EndsInExit(src, n)
                  /\ NodeAdds(src, n) # {} \/ NodeQueries(src, n) # {}
      fed == SelectSeq(tree, feeds)
  IN [i \in DOMAIN fed |-> Candidate(<<ConditionIndexOf(fed[i], conds)>>, fed[i])]

Discover(src, tree, conds) ==
  LET index(n) == IF n.kind = "branch" THEN ConditionIndexOf(n, conds) ELSE 0
      is(n) == index(n) # 0 /\ BranchQualifies(src, n)
      of(n) == (IF is(n) THEN <<Candidate(<<index(n)>>, n)>> ELSE <<>>)
               \o KeyedUnder(src, n, <<index(n)>>)
      found == FlattenSeq([i \in DOMAIN tree |-> of(tree[i])])
      emitted == {index(n) : n \in {tree[i] : i \in {i \in DOMAIN tree : is(tree[i])}}}
      sooner(a, b) == a.line < b.line
  IN SortSeq(found \o TailFeeders(src, tree, conds, emitted), sooner)

---------------------------------------------------------------------------
\* ConditionFor replays the walk: the k-th qualifying branch below n, in
\* depth first order, not looking below those that qualify.
RECURSIVE Nearest(_, _)
Nearest(src, ns) ==
  FlattenSeq([i \in DOMAIN ns |-> IF ns[i].kind = "branch" /\ BranchQualifies(src, ns[i])
                                  THEN <<ns[i]>> ELSE Nearest(src, ns[i].kids)])
NoBlock == [ok |-> FALSE]
Block(n) == [ok |-> TRUE, node |-> n]
ConditionFor(src, tree, conds, key) ==
  LET root(i) == IF i = 0 THEN NoBlock ELSE Block(tree[i])
      kth(ns, k) == IF k \in DOMAIN ns THEN Block(ns[k]) ELSE NoBlock
      step(b, k) == IF b.ok THEN kth(Nearest(src, b.node.kids), k) ELSE b
  IN IF key[1] \notin DOMAIN conds THEN NoBlock
     ELSE FoldLeft(step, root(RootFor(tree, conds[key[1]])), SubSeq(key, 2, Len(key)))

---------------------------------------------------------------------------
\* The draft: a scenarioRef for every value whose slice reads or writes
\* FML, or without an axis the candidates.
Endpoint(by, arg) == [by |-> by, arg |-> arg]
CarriesContract(src, tree, sc) == Gets(src, tree, sc) # {} \/ Adds(src, tree, sc) # {}
ScenarioEndpoints(src, tree, axis) ==
  {Endpoint("scenario", <<axis.name, sc.value>>) : sc \in {s \in Scenarios(tree, axis) : CarriesContract(src, tree, s)}}
CandidateEndpoint(c) == IF Len(c.key) = 1 THEN Endpoint("condition", c.key[1]) ELSE Endpoint("ref", c.key)

---------------------------------------------------------------------------
CONSTANTS Files,     \* the services under conversion
          Filters,   \* the filters a mapping may use
          Envs       \* what the caller and the data may be

\* The file of PlanState is [src, defines, helpers, externals].
VARIABLE resolved    \* the endpoints of the mapping, resolved
vars == <<file, stage, ir, mapping, resolved, plan>>

---------------------------------------------------------------------------
\* The text of the file, function after function.
FileLines(f) == f.src \o FlattenSeq([i \in DOMAIN f.helpers |-> f.helpers[i].src])
HelperSpan(f, i) ==
  LET before == Len(f.src) + FoldLeft(LAMBDA n, h : n + Len(h.src), 0, SubSeq(f.helpers, 1, i - 1))
  IN before + 1 .. before + Len(f.helpers[i].src)
FunctionAt(f, l) == IF l <= Len(f.src) THEN "SVC"
                    ELSE f.helpers[CHOOSE i \in DOMAIN f.helpers : l \in HelperSpan(f, i)].name
CallSites(f, name) == {l \in DOMAIN FileLines(f) : Does(FileLines(f), l, {name})}
\* What the scanner and the extraction record of the file.
ScanFacts(f) ==
  LET lines == FileLines(f)
      all == [l \in DOMAIN lines |-> l]
      depth(l) == 1 + Len(OpenBlocks(f.src)[l]) - IF f.src[l].closes THEN 1 ELSE 0
      heads == SelectSeq([l \in DOMAIN f.src |-> l], LAMBDA l : f.src[l].head \in {"if", "elseif", "else"})
      sqls == SelectSeq(all, LAMBDA l : lines[l].stmt = "sql")
  IN [fragment |-> FALSE, last |-> Len(lines),
      functions |-> <<[name |-> "SVC", service |-> TRUE, from |-> 1, to |-> Len(f.src)]>>,
      branches |-> [i \in DOMAIN heads |->
        [fn |-> "SVC", kind |-> f.src[heads[i]].head, depth |-> depth(heads[i]), line |-> heads[i],
         from |-> IF f.src[heads[i]].opens THEN heads[i] ELSE 0, to |-> CloserOf(f.src, heads[i])]],
      sqls |-> [i \in DOMAIN sqls |->
        [text |-> lines[sqls[i]].args[1], verb |-> lines[sqls[i]].args[2],
         table |-> lines[sqls[i]].args[4], fn |-> FunctionAt(f, sqls[i]), line |-> sqls[i]]]]
Extracted(f) ==
  LET of(facts) == [tree |-> Build(f.src, f.defines), axes |-> AxesFor(f.src, f.defines),
                    conditions |-> Conditions(facts), queries |-> QueryUnits(facts)]
  IN of(ScanFacts(f))

QueryOf(id) == CHOOSE q \in ToSet(ir.queries) : q.id = id
QueryAtLine(l) == CHOOSE q \in ToSet(ir.queries) : q.line = l
\* Ids of the queries at some lines, and within a span, in source order.
IdsAt(lines) == LET there == SelectSeq(ir.queries, LAMBDA q : q.line \in lines)
                IN [i \in DOMAIN there |-> there[i].id]
Canonical(id) == QueryOf(id).canonical
Distinct(s) == FoldLeft(LAMBDA acc, x : IF x \in ToSet(acc) THEN acc ELSE Append(acc, x), <<>>, s)

---------------------------------------------------------------------------
\* Names.  methodName, then uniqueName: a name that is taken gains the id
\* of its query, then X after X.
VerbName == [v \in {"INSERT", "UPDATE", "DELETE", "MERGE", "SELECT"} |->
               CASE v = "INSERT" -> "Insert" [] v = "UPDATE" -> "Update" [] v = "DELETE" -> "Delete"
                 [] v = "MERGE" -> "Merge" [] OTHER -> "Get"]
NoPins == [id \in {} |-> ""]
MethodName(q, pins) == IF q.id \in DOMAIN pins THEN pins[q.id] ELSE VerbName[q.verb] \o q.table
RECURSIVE GrowX(_, _)
GrowX(name, taken) == IF name \in taken THEN GrowX(name \o "X", taken) ELSE name
\* Mutant: a taken name gains the id and nothing is checked again.
UniqueOnce(name, id, taken) == IF name \in taken THEN name \o id ELSE name
UniqueName(name, id, taken) == IF name \in taken THEN GrowX(name \o id, taken) ELSE name
MethodNames(queries, pins) ==
  LET step(names, q) == Append(names, UniqueName(MethodName(q, pins), q.id, ToSet(names)))
  IN FoldLeft(step, <<>>, queries)
\* DefaultMethodNames: the dbMethods block of a draft.
DefaultMethodNames(queries) ==
  LET own == SelectSeq(queries, LAMBDA q : q.canonical = q.id)
      names == MethodNames(own, NoPins)
  IN [id \in {q.id : q \in ToSet(own)} |-> names[CHOOSE i \in DOMAIN own : own[i].id = id]]

---------------------------------------------------------------------------
\* Validate: no endpoint is mapped twice.
Validates(endpoints) == endpoints # <<>> /\ IsInjective(endpoints)

Refusal(why) == [ok |-> FALSE, why |-> why]
NoScenario == [none |-> TRUE]
Slice(r) == r.scen # NoScenario
NoVotes == [id \in {} |-> FALSE]
Shape(scen, from, to, queries, tx) ==
  [ok |-> TRUE, scen |-> scen, from |-> from, to |-> to, queries |-> queries, tx |-> tx]
\* ScenarioCondition: the span runs from the first to the last kept line of
\* the body; the queries and their transaction flags are the census'.
BodyExtent(sc) == LET spans == SpansOf(sc.body)
                  IN IF spans = {} THEN <<0, 0>> ELSE <<Min(spans), Max(spans)>>
ShapeOf(sc) ==
  LET of(found, extent) ==
        Shape(sc, extent[1], extent[2], IdsAt({q.line : q \in found}),
              [id \in {QueryAtLine(q.line).id : q \in found} |->
                 \E q \in found : q.tx /\ QueryAtLine(q.line).id = id])
  IN of(Queries(file.src, ir.tree, sc), BodyExtent(sc))
ResolveScenario(key, value) ==
  CASE ir.axes = <<>> -> Refusal("no axis")
    [] ir.axes[1].name # key -> Refusal("other key")
    [] value \notin axisUniverse(ir.axes[1]) -> Refusal("outside domain")
    [] OTHER -> ShapeOf(ScenarioFor(ir.tree, ir.axes[1], value))
ResolveFilter(text) ==
  LET of(sc) == IF sc.ok THEN ShapeOf(sc) ELSE Refusal(sc.why)
  IN IF ir.axes = <<>> THEN Refusal("no axis")
     ELSE of(ScenarioForFilter(ir.tree, ir.axes, ParseScenarioFilter(Tokens(text))))
ResolveRef(key) ==
  LET of(b) == IF b.ok THEN Shape(NoScenario, b.node.line, b.node.end, IdsAt(Span(b.node)), NoVotes)
               ELSE Refusal("no such block")
  IN of(ConditionFor(file.src, ir.tree, ir.conditions, key))
ResolveCondition(i) ==
  IF i \notin DOMAIN ir.conditions THEN Refusal("no such condition")
  ELSE LET c == ir.conditions[i] IN Shape(NoScenario, c.from, c.to, IdsAt(c.from..c.to), NoVotes)
ResolveBlock(e) == IF e.by = "ref" THEN ResolveRef(e.arg) ELSE ResolveCondition(e.arg)
Resolve(e) ==
  CASE e.by = "scenario" -> ResolveScenario(e.arg[1], e.arg[2])
    [] e.by = "filter" -> ResolveFilter(e.arg)
    [] OTHER -> ResolveBlock(e)

---------------------------------------------------------------------------
\* Queries per endpoint.  A shape that names none takes all in its span.
EndpointIds(r) == IF r.queries # <<>> THEN r.queries ELSE IdsAt(r.from..r.to)
EndpointQueries == [i \in DOMAIN resolved |->
                      LET ids == EndpointIds(resolved[i]) IN [k \in DOMAIN ids |-> Canonical(ids[k])]]
\* dmlTxOf: the votes of the slices that own a query; unvoted, its writes
\* keep the transaction.
\* Mutant: a slice outside the transaction outvotes one inside.
TxOfAll(votes, id) == \A v \in votes[id] : v
TxOf(votes, id) == votes[id] = {} \/ TRUE \in votes[id]
Votes == [id \in {q.canonical : q \in ToSet(ir.queries)} |->
            UNION {{r.tx[x] : x \in {x \in DOMAIN r.tx : Canonical(x) = id}} : r \in ToSet(resolved)}]

\* Functions of the file its code calls.  One whose declaration cannot be
\* read is only warned about.
IsPlumbing(name) == name \in {"chk_session"}
Called(f) == {i \in DOMAIN f.helpers : CallSites(f, f.helpers[i].name) # {} /\ ~IsPlumbing(f.helpers[i].name)}
\* Mutant: the queries of a helper are left to the endpoints.
HelperWithout(i, go) == [name |-> file.helpers[i].name, go |-> go, queries |-> <<>>]
Helper(i, go) ==
  [name |-> file.helpers[i].name, go |-> go,
   queries |-> LET ids == IdsAt(HelperSpan(file, i)) IN [k \in DOMAIN ids |-> Canonical(ids[k])]]
LocalHelpers ==
  LET readable == SelectSeq([i \in DOMAIN file.helpers |-> i],
                            LAMBDA i : i \in Called(file) /\ file.helpers[i].readable)
      step(out, i) == Append(out, Helper(i, GrowX(file.helpers[i].go, {h.go : h \in ToSet(out)})))
  IN FoldLeft(step, <<>>, readable)

\* The arms no endpoint covers.  A header that shares its line with the
\* brace of the arm before it is looked for one line down.
\* Mutant: on the header's line, shared or not.
ProbeHeader(i) == ir.conditions[i].from
Probe(i) == LET c == ir.conditions[i]
                shared == i > 1 /\ ir.conditions[i-1].to >= c.from /\ c.from < c.to
            IN IF shared THEN c.from + 1 ELSE c.from
Covers(r, i) == IF Slice(r) THEN Probe(i) \in KeptLines(r.scen)
                ELSE r.from <= ir.conditions[i].from /\ ir.conditions[i].from <= r.to
Uncovered == {i \in DOMAIN ir.conditions : \A r \in ToSet(resolved) : ~Covers(r, i)}

\* Functions defined elsewhere.
External(f) == SelectSeq(f.externals, LAMBDA x : CallSites(f, x.name) # {})
DroppedFn(x) == \/ IsPlumbing(x.name) \/ TxRole(x.name) # ""
                \/ x.resolved /\ x.sqls = <<>>
Stubs == LET missing == SelectSeq(External(file), LAMBDA x : ~DroppedFn(x) /\ ~x.resolved)
             callers(x) == {i \in DOMAIN resolved : CallSites(file, x.name) \cap resolved[i].from..resolved[i].to # {}}
         IN [k \in DOMAIN missing |-> [fn |-> missing[k].name, endpoints |-> callers(missing[k])]]
\* The queries of the files that define the others.
FnQueries ==
  LET found == SelectSeq(External(file), LAMBDA x : ~DroppedFn(x) /\ x.resolved)
      of(x) == [k \in DOMAIN x.sqls |-> x.sqls[k] @@ [id |-> x.name \o ":q" \o ToString(k)]]
  IN FlattenSeq([k \in DOMAIN found |-> of(found[k])])

---------------------------------------------------------------------------
\* The units in the order they are generated; deps are positions.
Unit(kind, name, queries, deps) == [kind |-> kind, name |-> name, queries |-> queries, deps |-> deps]
Positions(units, kinds) == {i \in DOMAIN units : units[i].kind \in kinds}
WithStore(units) == Append(units, Unit("db_interface", "", <<>>, Positions(units, {"db_method"})))
Store(units) == Positions(units, {"db_interface"})
WithDb(queries, names, votes) ==
  LET of(k) == Unit("db_method", names[k], <<queries[k].id>>, {1})
                 @@ [tx |-> queries[k].id \in DOMAIN votes /\ TxOf(votes, queries[k].id)]
  IN WithStore(<<Unit("models", "", <<>>, {})>> \o [k \in DOMAIN queries |-> of(k)])
WithControllers(units, epQueries) ==
  LET made == units \o [i \in DOMAIN epQueries |-> Unit("controller_method", "", epQueries[i], Store(units)) @@ [endpoint |-> i]]
  IN Append(made, Unit("controller_interface", "", <<>>, Positions(made, {"controller_method"})))
WithHelpers(units, helpers, stubs) ==
  units \o [k \in DOMAIN helpers |-> Unit("fn_helper", helpers[k].go, helpers[k].queries, Store(units))]
  \o IF stubs = <<>> THEN <<>> ELSE <<Unit("fn_stub", "", <<>>, {})>>
\* A call belongs to the first endpoint whose span holds it.
TPCalls == SelectSeq([l \in DOMAIN FileLines(file) |-> l], LAMBDA l : FileLines(file)[l].stmt = "tpcall")
TPOwners(l) == {i \in DOMAIN resolved : l \in resolved[i].from..resolved[i].to}
TPName(l) == "TPCall" \o FileLines(file)[l].args[1]
WithCalls(units) ==
  LET owned == SelectSeq(TPCalls, LAMBDA l : TPOwners(l) # {})
      nth(k) == Cardinality({j \in 1..k : TPName(owned[j]) = TPName(owned[k])})
      name(k) == TPName(owned[k]) \o IF nth(k) = 1 THEN "" ELSE ToString(nth(k))
  IN units \o [k \in DOMAIN owned |->
                 Unit("tpcall", name(k), <<>>, Positions(units, {"controller_interface"})) @@ [line |-> owned[k]]]
WithHandlers(units, endpoints) ==
  LET ctrl == Positions(units, {"controller_interface"})
      made == units \o [i \in DOMAIN endpoints |-> Unit("handler_method", "", <<>>, ctrl) @@ [endpoint |-> i]]
      last == Len(made) + 1
  IN made \o <<Unit("handler_interface", "", <<>>, Positions(made, {"handler_method"})),
               Unit("router", "", <<>>, {last}), Unit("mocks", "", <<>>, Store(units) \cup ctrl)>>

---------------------------------------------------------------------------
Init == /\ file \in Files /\ stage = "source"
        /\ ir = Nothing /\ mapping = Nothing /\ resolved = <<>> /\ plan = Nothing

Extract == /\ stage = "source" /\ stage' = "extracted"
           /\ ir' = Extracted(file)
           /\ UNCHANGED <<file, mapping, resolved, plan>>

\* What a user may write into a mapping: the draft's endpoints, others of
\* the file, and references that are wrong.
Offered ==
  LET values == IF ir.axes = <<>> THEN {} ELSE axisUniverse(ir.axes[1])
      found == Discover(file.src, ir.tree, ir.conditions)
  IN {Endpoint("condition", i) : i \in 1..Len(ir.conditions) + 1}
     \cup {Endpoint("ref", found[k].key) : k \in DOMAIN found} \cup {Endpoint("ref", <<1, 9>>)}
     \cup {Endpoint("scenario", <<ir.axes[1].name, v>>) : v \in values} \cup {Endpoint("scenario", <<"zz", "H">>)}
     \cup {Endpoint("filter", f) : f \in Filters}
Mapping(endpoints, pins) == [endpoints |-> endpoints, pins |-> pins]
LoadMapping ==
  /\ stage = "extracted"
  /\ \E n \in 1..2, draft \in BOOLEAN : \E es \in [1..n -> Offered] :
       /\ mapping' = Mapping(es, IF draft THEN DefaultMethodNames(ir.queries) ELSE NoPins)
       /\ stage' = IF Validates(es) THEN "mapped" ELSE "refused"
  /\ UNCHANGED <<file, ir, resolved, plan>>

\* Every endpoint is resolved once, in order; the first that cannot be ends
\* the run.
ResolveEndpoint ==
  /\ stage = "mapped" /\ Len(resolved) < Len(mapping.endpoints)
  /\ LET r == Resolve(mapping.endpoints[Len(resolved) + 1])
     IN /\ resolved' = Append(resolved, r)
        /\ stage' = IF r.ok THEN stage ELSE "refused"
  /\ UNCHANGED <<file, ir, mapping, plan>>

\* The queries, then the helpers and what they add, then the rest.
Planned(epQueries, helpers, stubs, votes) ==
  LET own == Distinct(FlattenSeq(epQueries) \o FlattenSeq([k \in DOMAIN helpers |-> helpers[k].queries]))
      all == [k \in DOMAIN own |-> QueryOf(own[k])] \o FnQueries
      db == WithDb(all, MethodNames(all, mapping.pins), votes)
      ctrl == WithHelpers(WithControllers(db, epQueries), helpers, stubs)
  IN [units |-> WithHandlers(WithCalls(ctrl), mapping.endpoints), helpers |-> helpers, stubs |-> stubs,
      skipped |-> {q.canonical : q \in ToSet(ir.queries)} \ ToSet(own),
      warned |-> Uncovered]
BuildPlan ==
  /\ stage = "mapped" /\ Len(resolved) = Len(mapping.endpoints) /\ stage' = "planned"
  /\ plan' = Planned(EndpointQueries, LocalHelpers, Stubs, Votes)
  /\ UNCHANGED <<file, ir, mapping, resolved>>

Next == Extract \/ LoadMapping \/ ResolveEndpoint \/ BuildPlan
Spec == Init /\ [][Next]_vars

---------------------------------------------------------------------------
\* The inputs an endpoint is for: its slice's, or all that reach its arm;
\* and the lines of its scope that some of them make the entry execute.
InputsOf(r) ==
  CASE ~Slice(r) -> Envs
    [] "live" \in DOMAIN r.scen -> {e \in Envs : \E f \in r.scen.live : AgreesAll(e, ir.axes, f)}
    [] OTHER -> {e \in Envs : Agrees(e, ir.axes[1], r.scen.value)}
LinesRun(inputs) == UNION {Runs(file.src, env).ran : env \in inputs}
RunsIn(r) == LinesRun(InputsOf(r)) \cap IF Slice(r) THEN DOMAIN file.src ELSE r.from..r.to
Shown(r) == IF Slice(r) THEN PreambleLines(r.scen) \cup BodyLines(r.scen) ELSE r.from..r.to

Made(kind) == {u \in ToSet(plan.units) : u.kind = kind}
HasDb(id) == \E u \in Made("db_method") : u.queries = <<id>>
QueryPlanned(u, l) == LET id == Canonical(QueryAtLine(l).id) IN id \in ToSet(u.queries) /\ HasDb(id)
CallPlanned(name) ==
  /\ \A i \in DOMAIN file.helpers :
       file.helpers[i].name = name /\ file.helpers[i].readable /\ ~IsPlumbing(name) =>
         \E h \in ToSet(plan.helpers) : h.name = name
  /\ \A x \in ToSet(file.externals) :
       x.name = name => \/ DroppedFn(x) \/ \E s \in ToSet(plan.stubs) : s.fn = name
                        \/ x.resolved /\ \A k \in DOMAIN x.sqls : HasDb(name \o ":q" \o ToString(k))

\* What an endpoint's inputs make the entry execute is planned: a query in
\* the endpoint's unit and in a database unit, a call as a helper, a stub
\* that names the endpoint or queries of its own, a tpcall of its span as a
\* placeholder; and a helper's queries and calls with the helper.
PlanHasWhatRuns ==
  stage = "planned" =>
    /\ \A i \in DOMAIN resolved : \A l \in RunsIn(resolved[i]) :
         LET stmt == file.src[l].stmt
             inside == l \in resolved[i].from..resolved[i].to
         IN /\ stmt = "sql" => \E u \in Made("controller_method") : u.endpoint = i /\ QueryPlanned(u, l)
            /\ stmt = "call" => /\ CallPlanned(file.src[l].args[1])
                                /\ inside => \A s \in ToSet(plan.stubs) :
                                     s.fn = file.src[l].args[1] => i \in s.endpoints
            /\ stmt = "tpcall" /\ inside => \E u \in Made("tpcall") : u.line = l
    /\ \A i \in Called(file) : \A l \in HelperSpan(file, i) :
         LET at == FileLines(file)[l]
             units == {u \in ToSet(plan.helpers) : u.name = file.helpers[i].name}
         IN file.helpers[i].readable =>
              /\ at.stmt = "sql" => \E u \in units : QueryPlanned(u, l)
              /\ at.stmt = "call" => CallPlanned(at.args[1])

\* The arms of the inventory no endpoint shows a line of are the ones the
\* plan warns about: an arm some input runs is never left out in silence,
\* and no arm a slice shows is called uncovered.
Silent(runs) ==
  {i \in DOMAIN ir.conditions :
     LET arm == runs \cap ir.conditions[i].from..ir.conditions[i].to
     IN arm # {} /\ i \notin plan.warned /\ \A r \in ToSet(resolved) : arm \cap Shown(r) = {}}
NoSilentArm == stage = "planned" => Silent(LinesRun(Envs)) = {}
\* That, apart from the arm whose header is on the last line of a span an
\* endpoint names by its block.
SharesLine(i) == \E r \in ToSet(resolved) : ~Slice(r) /\ r.to = ir.conditions[i].from
ShowsArm(r, i, runs) == Slice(r) /\ runs \cap ir.conditions[i].from..ir.conditions[i].to \cap Shown(r) # {}
WarnsOfTheRest ==
  stage = "planned" =>
    LET of(runs) == /\ \A i \in Silent(runs) : SharesLine(i)
                    /\ \A i \in plan.warned, r \in ToSet(resolved) : ~ShowsArm(r, i, runs)
    IN of(LinesRun(Envs))

\* A write that some endpoint's input makes the entry run between a begin
\* and a commit is generated with the transaction, whichever endpoints
\* share its text; endpoints of both kinds in one mapping are left out.
TransactionKept ==
  stage = "planned" /\ (\A r, s \in ToSet(resolved) : Slice(r) <=> Slice(s)) =>
    \A r \in ToSet(resolved) : \A env \in InputsOf(r) :
      LET ran == Runs(file.src, env).ran
          at(role) == {l \in ran : RoleOf(file.src[l]) = role}
      IN \A l \in ran \cap r.from..r.to :
           /\ file.src[l].stmt = "sql" /\ IsDML(file.src[l].args[2])
           /\ \E b \in at("begin"), c \in at("commit") : b < l /\ l < c
           => \E u \in Made("db_method") : u.queries = <<Canonical(QueryAtLine(l).id)>> /\ u.tx

\* No two database methods have one name, and a mapping that keeps the
\* names of the draft gets them, whichever endpoints it keeps.
DbNamesAreTheDrafts ==
  stage = "planned" =>
    LET db == Positions(plan.units, {"db_method"})
    IN \A i \in db : LET u == plan.units[i] IN
         /\ \A j \in db \ {i} : plan.units[j].name # u.name
         /\ u.queries[1] \in DOMAIN mapping.pins => u.name = mapping.pins[u.queries[1]]

\* Every key of a draft names, to the commands that read the mapping, the
\* block the draft describes, and no two blocks have one key.
DraftNamesItsBlocks ==
  stage = "extracted" =>
    LET named(c, r) == r.ok /\ r.from = c.line /\ r.to = c.end
        of(found) == \A i \in DOMAIN found :
          /\ named(found[i], ResolveBlock(CandidateEndpoint(found[i])))
          /\ \A j \in DOMAIN found \ {i} : found[j].key # found[i].key
    IN of(Discover(file.src, ir.tree, ir.conditions))
=============================================================================
