----------------------------- MODULE CsConvert -----------------------------
(***************************************************************************)
(* internal/csplan, internal/csdraft, internal/csgen and internal/cschk:   *)
(* what the runs of `tuxconv convertcs` (CsRuns) compute: the draft of a   *)
(* mapping, the plan, the gates of a residual block, the seven files and   *)
(* their check.  Of a residual block the gates look at its conditions; its *)
(* other flaws are one value.                                              *)
(* The variables resolved and vars of Planning are not used here.          *)
(***************************************************************************)
EXTENDS Planning, CsRuns

---------------------------------------------------------------------------
\* The plan of a C# component (internal/csplan, internal/csdraft) from the facts
\* of an entry and a mapping of its own format, and the draft of such a mapping.
\* The endpoints of a file are found as for Go (Planning, whose variables file
\* and ir are used); what differs is which of them are refused, the constant and
\* the parameters of every query, and the guards a slice leaves to run time.
\* Binds and C# names are names; the columns of a query, routes and namespaces
\* are left out.
CONSTANTS Letters,    \* the values of the axes, in alphabetical order
          Binds,      \* the host variables of every SQL text, in order
          Multi,      \* the texts of the queries that return many rows
          Typed,      \* the host variables that are declared
          Pascal,     \* the C# spelling of a host variable
          Spoken,     \* the C# name of an FML field
          EndsIn    \* <<variable, other variable its name ends in>>

\* An endpoint has a name; a mapping also names the request properties and
\* the parameters of host variables.
Named(name, e) == e @@ [name |-> name]
CsMapping(component, endpoints, pins, requests, params) ==
  [component |-> component, endpoints |-> endpoints, pins |-> pins,
   requests |-> requests, params |-> params]
NoFields == [v \in {} |-> ""]

\* Validate: every reference and every name once, and a filter that parses.
CsValidates(m) ==
  LET refs == [i \in DOMAIN m.endpoints |-> Endpoint(m.endpoints[i].by, m.endpoints[i].arg)]
      parses(e) == e.by = "filter" => ParseScenarioFilter(Tokens(e.arg)) # <<>>
  IN /\ Validates(refs) /\ \A i \in DOMAIN refs : parses(refs[i])
     /\ IsInjective([i \in DOMAIN m.endpoints |-> m.endpoints[i].name])

---------------------------------------------------------------------------
\* The name of the constant that holds a query.
DefaultQueryName(q) == VerbName[q.verb] \o q.table \o "Query"
RECURSIVE Numbered(_, _, _)
Numbered(name, n, taken) ==
  IF name \o ToString(n) \in taken THEN Numbered(name, n + 1, taken) ELSE name \o ToString(n)
Free(name, taken) == IF name \in taken THEN Numbered(name, 2, taken) ELSE name
\* QueryNamesInOrder: the names a draft pins.
QueryNamesInOrder(queries) ==
  LET step(names, q) == Append(names, Free(DefaultQueryName(q), ToSet(names)))
      names == FoldLeft(step, <<>>, queries)
  IN [id \in {q.id : q \in ToSet(queries)} |-> names[CHOOSE i \in DOMAIN queries : queries[i].id = id]]
\* assignUniqueQueryNames: the pinned names are taken before any other.
\* Mutant: a name is compared with the earlier ones only.
UniqueAmongEarlier(queries, pins) ==
  LET step(out, q) == Append(out, IF q.id \in DOMAIN pins THEN q
                                  ELSE [q EXCEPT !.name = Free(@, {o.name : o \in ToSet(out)})])
  IN FoldLeft(step, <<>>, queries)
assignUniqueQueryNames(queries, pins) ==
  LET reserved == {q.name : q \in {q \in ToSet(queries) : q.id \in DOMAIN pins}}
      step(out, q) ==
        Append(out, IF q.id \in DOMAIN pins THEN q
                    ELSE [q EXCEPT !.name = Free(@, reserved \cup {o.name : o \in ToSet(out)})])
  IN FoldLeft(step, <<>>, queries)

\* buildQueryPlan: a bind without a declaration is no parameter.
CsParams(q, m) ==
  LET binds == Distinct(SelectSeq(Binds[q.text], LAMBDA b : b \in Typed))
      of(v, maps) == IF v \in DOMAIN maps THEN maps[v] ELSE ""
      name(v) == CASE of(v, m.params) # "" -> of(v, m.params)
                   [] of(v, m.requests) # "" -> of(v, m.requests)
                   [] OTHER -> Pascal[v]
  IN [k \in DOMAIN binds |-> [bind |-> binds[k], name |-> name(binds[k]), prop |-> of(binds[k], m.requests)]]
CsQuery(id, m) ==
  LET q == QueryOf(id)
  IN [id |-> id, sql |-> q.text, dml |-> IsDML(q.verb), multi |-> q.text \in Multi, line |-> q.line,
      name |-> IF id \in DOMAIN m.pins THEN m.pins[id] ELSE DefaultQueryName(q),
      params |-> CsParams(q, m)]

---------------------------------------------------------------------------
\* MixedGuards: the guards of a slice that are decided at run time and have
\* something to guard, folded, and as written where that differs.
RECURSIVE CarriesBehavior(_)
CarriesBehavior(n) == \E k \in ToSet(n.kids) : k.kind # "branch" \/ CarriesBehavior(k)
MixedGuards(sc) ==
  {[cond |-> n.live, alt |-> IF n.cond \in {Empty, n.live} THEN Empty ELSE n.cond] :
     n \in {n \in AllSlices(sc.body) : n.fold = "mixed" /\ n.live # Empty /\ CarriesBehavior(n)}}

IdentsOf(e) == {s.text : s \in {s \in ToSet(Subs(e)) : s.kind = "ident"}}
\* The C# spellings that may stand for a variable of a guard: a spelling two
\* of them claim stands for none.
ReadsOf(sc) == {file.src[l].args : l \in {l \in UNION {Span(n) : n \in Visited(ir.tree, KeptLines(sc))} :
                                            file.src[l].stmt = "get"}}
Claims(v, sc, m) ==
  {v, Pascal[v]} \cup {m.requests[x] : x \in DOMAIN m.requests \cap {v}}
  \cup {Spoken[r[1]] : r \in {r \in ReadsOf(sc) : r[2] = v \/ <<r[2], v>> \in EndsIn}}
Bind(g, sc, m) ==
  LET tested == IdentsOf(g.cond) \cup IdentsOf(g.alt)
      by(s) == {v \in tested : s \in Claims(v, sc, m)}
  IN [s \in UNION {Claims(v, sc, m) : v \in tested} |-> IF Cardinality(by(s)) = 1 THEN The(by(s)) ELSE ""]
BuildGuards(r, m) ==
  IF ~Slice(r) THEN {} ELSE {g @@ [bind |-> Bind(g, r.scen, m)] : g \in MixedGuards(r.scen)}

---------------------------------------------------------------------------
\* An endpoint: a scenario of any value of the dispatch axis, a filter, or a
\* block.  One that owns no SQL is refused.
CsScenario(key, value) ==
  IF ir.axes = <<>> \/ ir.axes[1].name # key THEN Refusal("other axis")
  ELSE ShapeOf(ScenarioFor(ir.tree, ir.axes[1], value))
CsResolve(e) ==
  CASE e.by = "scenario" -> CsScenario(e.arg[1], e.arg[2])
    [] e.by = "filter" -> ResolveFilter(e.arg)
    [] OTHER -> ResolveBlock(e)
queriesInSpan(r) == SelectSeq(IdsAt(r.from..r.to), LAMBDA id : Canonical(id) = id)
CsQueryIds(r) ==
  LET ids == IF r.queries # <<>> THEN r.queries ELSE queriesInSpan(r)
  IN Distinct([k \in DOMAIN ids |-> Canonical(ids[k])])

CsEndpoint(e, r, m) == [name |-> e.name, shape |-> r, ids |-> CsQueryIds(r), guards |-> BuildGuards(r, m)]

\* The advisory: every arm of the dispatch axis no endpoint keeps a line of.
\* A file without an axis has a tree all the same, and no advice.
Anchors(value) == LET ext == BodyExtent(ScenarioFor(ir.tree, ir.axes[1], value))
                  IN IF ext[1] < ext[2] THEN ext[1] + 1 ELSE ext[1]
KeepsAnchor(r, l) == IF Slice(r) THEN l \in KeptLines(r.scen) ELSE l \in r.from..r.to
CsWarnings(shapes) ==
  IF ir.axes = <<>> THEN {}
  ELSE {v \in axisUniverse(ir.axes[1]) : \A r \in shapes : ~KeepsAnchor(r, Anchors(v))}

\* Build.  The first endpoint that cannot be resolved ends the run; a query
\* is planned when the first endpoint reaches it.
CsBuild(m) ==
  LET of(shapes) ==
        IF \E i \in DOMAIN shapes : ~shapes[i].ok THEN Refusal("unresolved")
        ELSE LET eps == [i \in DOMAIN shapes |-> CsEndpoint(m.endpoints[i], shapes[i], m)]
                 ids == Distinct(FlattenSeq([i \in DOMAIN eps |-> eps[i].ids]))
                 queries == [k \in DOMAIN ids |-> CsQuery(ids[k], m)]
             IN IF \E i \in DOMAIN eps : eps[i].ids = <<>> THEN Refusal("owns no SQL")
                ELSE [ok |-> TRUE, component |-> m.component, endpoints |-> eps,
                      queries |-> assignUniqueQueryNames(queries, m.pins),
                      warned |-> CsWarnings(ToSet(shapes))]
  IN of([i \in DOMAIN m.endpoints |-> CsResolve(m.endpoints[i])])

---------------------------------------------------------------------------
\* The draft: one endpoint per slice with a contract, or per candidate; the
\* host variables the entry reads; a name for every query, in the order a
\* plan of all slices would meet them.
SlicesInOrder ==
  IF ir.axes = <<>> THEN <<>>
  ELSE LET a == ir.axes[1]
           keys == SelectSeq(Letters, LAMBDA v : v \in a.domain) \o IF a.hasDefault THEN <<DefaultKey(a)>> ELSE <<>>
       IN [i \in DOMAIN keys |-> ScenarioFor(ir.tree, a, keys[i])]
draftQueryOrder ==
  LET own == SelectSeq(ir.queries, LAMBDA q : q.canonical = q.id)
      reached == FlattenSeq([i \in DOMAIN SlicesInOrder |-> ShapeOf(SlicesInOrder[i]).queries])
      ids == Distinct([k \in DOMAIN reached |-> Canonical(reached[k])] \o [k \in DOMAIN own |-> own[k].id])
  IN [k \in DOMAIN ids |-> QueryOf(ids[k])]
CsFields == {file.src[l].args[2] : l \in {l \in DOMAIN file.src : file.src[l].stmt = "get"}} \cap Typed
CsDraft(component) ==
  LET slices == SelectSeq(SlicesInOrder, LAMBDA sc : CarriesContract(file.src, ir.tree, sc))
      found == Discover(file.src, ir.tree, ir.conditions)
      endpoints == IF ir.axes # <<>>
                   THEN [i \in DOMAIN slices |-> Named(component \o slices[i].value,
                           Endpoint("scenario", <<ir.axes[1].name, slices[i].value>>))]
                   ELSE [i \in DOMAIN found |-> Named(component \o "Action" \o ToString(i),
                           CandidateEndpoint(found[i]))]
      fields == [v \in CsFields |-> Pascal[v]]
  IN CsMapping(component, endpoints, QueryNamesInOrder(draftQueryOrder), fields, fields)

---------------------------------------------------------------------------
CONSTANTS UserMaps,     \* what the user makes of the draft mapping
          Editions,    \* the file a user may have instead of another
          Stops        \* after how many files a run may stop

---------------------------------------------------------------------------
\* buildEndpoints: a method for every query of every endpoint, numbered when
\* there are several; the first select gives the response its type.
Planned1(id) == CHOOSE q \in ToSet(plan.queries) : q.id = id
QueriesOf(ep) == [k \in DOMAIN ep.ids |-> Planned1(ep.ids[k])]
CsMethod(ep, k) == ep.name \o IF Len(ep.ids) > 1 THEN ToString(k) ELSE ""
Methods(ep) ==
  [k \in DOMAIN ep.ids |-> LET q == Planned1(ep.ids[k])
     IN [method |-> CsMethod(ep, k), const |-> q.name, sql |-> q.sql,
         binds |-> [i \in DOMAIN q.params |-> q.params[i].bind]]]
Flat1 == FlattenSeq([i \in DOMAIN plan.endpoints |-> Methods(plan.endpoints[i])])
RetType(ep) ==
  LET selects == SelectSeq(QueriesOf(ep), LAMBDA q : ~q.dml)
  IN CASE selects = <<>> -> "int" [] selects[1].multi -> "list" [] OTHER -> "row"
\* callArgs: the request property of a bind, or a gap for the user.
callArgs(ep, k) == LET q == Planned1(ep.ids[k]) IN [i \in DOMAIN q.params |-> q.params[i].prop]

---------------------------------------------------------------------------
\* guardErrs: every guard of the slice is the condition of some `if`, in a
\* spelling its variables own.
RECURSIVE Rename(_, _)
Rename(e, f) == IF e.kind = "ident" THEN (IF e.text \in DOMAIN f /\ f[e.text] # "" THEN Ident(f[e.text]) ELSE e)
                ELSE [e EXCEPT !.items = [i \in DOMAIN e.items |->
                        IF e.kind = "raw" THEN e.items[i] ELSE Rename(e.items[i], f)]]
KeptGuard(g, conds) ==
  \E c \in conds, want \in {g.cond, g.alt} \ {Empty} : Equivalent(Rename(want, g.bind), Rename(c, g.bind))
Body(conds, flaw) == [conds |-> conds, flaw |-> flaw]
\* armGates: empty, braces, SQL, EXEC SQL or the placeholder are flaws; the
\* signature, the calls and the return are the template's.
GatesOfArm(ep, b) == b.flaw = "" /\ \A g \in ep.guards : KeptGuard(g, b.conds)

\* External: the blocks a model may answer with: the guards in C, in the
\* names of the request, or with the names mixed up, as written, negated or
\* left out, and a flawed block.
Spelled(v) == IF v \in DOMAIN mapping.requests THEN mapping.requests[v] ELSE Pascal[v]
Replies(ep) ==
  LET names == UNION {IdentsOf(g.cond) : g \in ep.guards}
      as(s) == {Rename(g.cond, s) : g \in ep.guards}
      another(v) == IF names = {v} THEN "x" ELSE The(names \ {v})
      styles == {[v \in names |-> v], [v \in names |-> Spelled(v)], [v \in names |-> Spelled(another(v))]}
  IN {Body(as(s), "") : s \in styles} \cup {Body({Not(g.cond) : g \in ep.guards}, "")}
     \cup {Body({g.alt : g \in ep.guards} \ {Empty}, ""), Body({}, ""), Body({}, "exec sql")}

---------------------------------------------------------------------------
\* The seven files.
Filled(ep) == ep.name \in DOMAIN bodies
ServiceOf(ep) ==
  [name |-> ep.name, ret |-> RetType(ep),
   calls |-> [k \in DOMAIN ep.ids |-> [method |-> CsMethod(ep, k), args |-> callArgs(ep, k)]],
   body |-> IF Filled(ep) THEN bodies[ep.name] ELSE Nothing]
PerEndpoint(of(_)) == [i \in DOMAIN plan.endpoints |-> of(plan.endpoints[i])]
Rendered(kind) ==
  LET name(ep) == ep.name
      signature(ep) == <<ep.name, RetType(ep)>>
      eps == PerEndpoint(name)
  IN CASE kind = "Controller" -> eps
       [] kind = "DTO" -> SelectSeq(PerEndpoint(signature), LAMBDA s : s[2] # "int")
       [] kind = "NamedQueries" -> [k \in DOMAIN Flat1 |-> [const |-> Flat1[k].const, sql |-> Flat1[k].sql]]
       [] kind = "IRepository" -> [k \in DOMAIN Flat1 |-> Flat1[k].method]
       [] kind = "Repository" -> [k \in DOMAIN Flat1 |->
                                    [method |-> Flat1[k].method, const |-> Flat1[k].const, binds |-> Flat1[k].binds]]
       [] kind = "IService" -> PerEndpoint(signature)
       [] kind = "Service" -> PerEndpoint(ServiceOf)

\* SQLFidelity: the first constant of a query's name holds its SQL.
\* OracleParams: the first method that uses it passes its parameters.
First(s, test(_)) == SelectSeq(s, test)[1]
Deviates(q) == LET named(c) == c.const = q.name IN First(Rendered("NamedQueries"), named).sql # q.sql
Miscounts(q) == LET uses(m) == m.const = q.name
                IN Len(First(Rendered("Repository"), uses).binds) # Len(q.params)
Issues == {q \in ToSet(plan.queries) : Deviates(q) \/ Miscounts(q)}

---------------------------------------------------------------------------
csVars == <<file, stage, ir, mapping, resolved, plan, llm, resumed, bodies, at, ledger, tree, result, runs>>

CsInit == RunsFrom(Files) /\ resolved = <<>>

\* The mapping of a run is the draft with what the user chose.  A part the
\* user left alone is empty.
Chosen(ch) ==
  LET d == CsDraft("Cust")
      own(part, drafted) == IF part = <<>> THEN drafted ELSE part[1]
  IN [d EXCEPT !.endpoints = own(ch.endpoints, @), !.pins = own(ch.pins, @), !.requests = own(ch.requests, @)]
CsLoadMapping ==
  \E ch \in UserMaps : MappingLoaded(Chosen(ch), CsValidates(Chosen(ch)))
BuildCs == PlanBuilt(CsBuild(mapping))
FillFromReply == Turn /\ Asked(Ep) /\ \E b \in Replies(Ep) : FillArmBody(b)
FilesRendered == [k \in ToSet(FileKinds) |-> Rendered(k)]

CsNext ==
  /\ \/ StartRun(Extracted(file)) \/ CsLoadMapping \/ BuildCs
     \/ Resume \/ SkipSeam \/ Exhausted \/ FillFromReply
     \/ SaveLedger
     \/ \E n \in Stops \cup {7} : WriteTree(FilesRendered, n, Issues # {})
     \/ Crash \/ \E edition \in Editions[file] : EditFile(edition)
  /\ UNCHANGED resolved
CsSpec == CsInit /\ [][CsNext]_csVars

---------------------------------------------------------------------------
\* The variables a name in C# may stand for, by the mapping the request class
\* is made of; a name nobody declares stands for none.
Meanings(s) ==
  LET mapped == {v \in DOMAIN mapping.requests : mapping.requests[v] = s}
      spelled == {v \in ToSet(Names) : Pascal[v] = s}
      read == {r[2] : r \in {file.src[l].args : l \in {l \in DOMAIN file.src :
                               file.src[l].stmt = "get" /\ Spoken[file.src[l].args[1]] = s}}}
  IN CASE mapped # {} -> mapped [] s \in ToSet(Names) -> {s} [] spelled # {} -> spelled [] OTHER -> read
Decides(c, cond, env) ==
  /\ \A s \in IdentsOf(c) : Meanings(s) # {}
  /\ Holds(Rename(c, [s \in IdentsOf(c) |-> The(Meanings(s))]), env) = Holds(cond, env)
\* In the tree of a completed run every guard a slice leaves to run time is
\* the condition of some `if` of the endpoint's block, and it decides every
\* input of the endpoint as the entry would: in whatever spelling, and in a
\* block another run, source or mapping left behind.
GuardsStayLive ==
  result = "done" =>
    \A i \in DOMAIN plan.endpoints :
      LET ep == plan.endpoints[i]
          body == tree["Service"][i].body
      IN body # Nothing => \A g \in ep.guards : \E c \in body.conds :
           \A env \in InputsOf(ep.shape) : Decides(c, g.cond, env)

\* A run ends with issues only when the user pinned one name twice.  In the
\* tree of any other that completes, every query the endpoint's inputs make
\* the entry run is called by its service method, through a repository method
\* and a constant all of whose definitions are that SQL.
Reached(ep, l) ==
  \E c \in ToSet(ep.calls), m \in ToSet(tree["Repository"]) :
    LET defs == {d \in ToSet(tree["NamedQueries"]) : d.const = m.const}
    IN m.method = c.method /\ defs # {} /\ \A d \in defs : d.sql = file.src[l].args[1]
TreeRunsWhatRuns ==
  /\ result = "issues" => ~IsInjective(mapping.pins)
  /\ result = "done" =>
       \A i \in DOMAIN plan.endpoints : \A l \in RunsIn(plan.endpoints[i].shape) :
         file.src[l].stmt = "sql" => Reached(tree["Service"][i], l)

\* No constant is declared twice.
ConstsAreDistinct ==
  result = "done" => IsInjective([k \in DOMAIN tree["NamedQueries"] |-> tree["NamedQueries"][k].const])

\* A condition of the inventory no endpoint covers is warned of.
AdvisesOfEveryArm ==
  stage = "generating" /\ ir.axes = <<>> =>
    \A i \in DOMAIN ir.conditions :
      \/ \E ep \in ToSet(plan.endpoints) : ir.conditions[i].from \in ep.shape.from..ep.shape.to
      \/ i \in plan.warned
=============================================================================
