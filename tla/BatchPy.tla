------------------------------ MODULE BatchPy ------------------------------
(***************************************************************************)
(* internal/batchflow, pyplan, pygen and pychk: Pro*C batch programs to    *)
(* Python modules.  The entry body's queries are paired into cursor        *)
(* groups, or left as steps; the plan names constants and methods; a batch *)
(* that is all groups becomes one phase per cursor, any other a repository *)
(* and a body from the LLM seam.  BatchRun is the run around it.           *)
(* Names that differ in case only are one name here.                       *)
(***************************************************************************)
EXTENDS BatchRun, SequencesExt, TLC

CONSTANTS Tuxedo,     \* function names that begin with SVC_
          Envs,       \* what the tables hold: rows of each cursor, conditions
          Slips       \* the ways a reply may be wrong that no gate sees

VARIABLES repoForced, \* shape: auto or repo
          client      \* is there an LLM client
batchVars == <<runVars, repoForced, client>>

---------------------------------------------------------------------------
\* The lines of a body.  A loop over a cursor opens it, fetches into the
\* cursor's host variables and closes it; text stands for several lines.
Line(k) == [k |-> k]
RECURSIVE Lines(_)
Lines(b) ==
  LET of(n) ==
        CASE n.k = "loop" /\ n.cursor # "" ->
               <<Line("open"), Line("while"), Line("fetch")>> \o Lines(n.body) \o <<Line("end"), Line("close")>>
          [] n.k = "loop" -> <<Line("while")>> \o Lines(n.body) \o <<Line("end")>>
          [] n.k = "if" -> <<n>> \o Lines(n.body) \o <<Line("end")>>
          [] n.k = "text" -> [i \in 1 .. n.lines |-> n]
          [] OTHER -> <<n>>
  IN FlattenSeq([i \in DOMAIN b |-> of(b[i])])
Function(fn) == <<Line("{")>> \o Lines(fn.body) \o <<Line("}")>>
FileLines(f) == FlattenSeq([k \in DOMAIN f.fns |-> Function(f.fns[k])])
SqlLines(ls) == {l \in DOMAIN ls : ls[l].k \in {"declare", "open", "fetch", "close", "sql", "truncate"}}

\* entryBody: main, else a service, else the first function.
Entry(f) ==
  LET named(S) == {k \in DOMAIN f.fns : f.fns[k].name \in S}
  IN CASE named({"main"}) # {} -> Min(named({"main"}))
       [] named(Tuxedo) # {} -> Min(named(Tuxedo))
       [] OTHER -> 1
BodyStart(f) == Len(FileLines([f EXCEPT !.fns = SubSeq(@, 1, Entry(f) - 1)])) + 1
BodyEnd(f) == Len(FileLines([f EXCEPT !.fns = SubSeq(@, 1, Entry(f))]))

\* findLoops: the braced while and for loops of the body, in source order.
EndOf(ls, l) ==
  LET count(S, i) == Cardinality({k \in l .. i : ls[k].k \in S})
  IN Min({i \in l .. Len(ls) : count({"while", "if", "{"}, i) = count({"end", "}"}, i)})
findLoops(f) ==
  LET ls == FileLines(f)
      at == SelectSeq([l \in DOMAIN ls |-> l], LAMBDA l : ls[l].k = "while" /\ l \in BodyStart(f) .. BodyEnd(f))
  IN [i \in DOMAIN at |-> [start |-> at[i], end |-> EndOf(ls, at[i])]]

\* The queries of the body, each text once in the file: a cursor's select
\* stands at its declaration.
Query(ls, l) ==
  LET n == ls[l]
  IN [line |-> l, type |-> n.type, text |-> n.text, table |-> n.table,
      cursor |-> n.cursor, rows |-> n.rows, binds |-> n.binds]
UniqueQueries(ls) ==
  LET at == SelectSeq([l \in DOMAIN ls |-> l], LAMBDA l : ls[l].k \in {"declare", "sql"})
      first == SelectSeq(at, LAMBDA l : ~\E k \in ToSet(at) : k < l /\ ls[k].text = ls[l].text)
  IN [i \in DOMAIN first |-> Query(ls, first[i])]
BodyQueries(f) ==
  SelectSeq(UniqueQueries(FileLines(f)), LAMBDA q : q.line \in BodyStart(f) .. BodyEnd(f))
IsDML(q) == q.type \notin {"one", "many"}

---------------------------------------------------------------------------
\* batchflow.Build: a statement goes to the last cursor declared before it
\* whose row holds all its binds; the cursor keeps the first.
Fits(q, c) == c.line < q.line /\ q.binds # <<>> /\ ToSet(q.binds) \subseteq ToSet(c.rows)
Pairs(q, c, cursors) ==
  /\ q.cursor = "" /\ IsDML(q) /\ Fits(q, c)
  /\ \A d \in ToSet(cursors) : Fits(q, d) => d.line <= c.line
Groups(qs) ==
  LET cursors == SelectSeq(qs, LAMBDA q : q.cursor # "")
      dml(c) == SelectSeq(qs, LAMBDA q : Pairs(q, c, cursors))
      paired == SelectSeq(cursors, LAMBDA c : dml(c) # <<>>)
  IN [i \in DOMAIN paired |-> [cursor |-> paired[i].cursor, select |-> paired[i], dml |-> dml(paired[i])[1]]]
\* truncateBefore: the last TRUNCATE of the 15 lines above, unless another
\* statement follows any of them.
truncateBefore(ls, l) ==
  LET above == {s \in SqlLines(ls) : s < l}
      truncs == {s \in above : ls[s].k = "truncate"}
      near == {s \in truncs : l - s <= 15}
  IN IF near = {} \/ \E s \in above \ truncs, t \in near : t < s THEN "" ELSE ls[Max(near)].text
Steps(ls, qs, groups) ==
  LET covered == UNION {{groups[i].select, groups[i].dml} : i \in DOMAIN groups}
      left == SelectSeq(qs, LAMBDA q : q \notin covered)
      order == SelectSeq(left, LAMBDA q : q.cursor # "") \o SelectSeq(left, LAMBDA q : q.cursor = "")
  IN [i \in DOMAIN order |->
        [query |-> order[i],
         truncate |-> IF order[i].cursor # "" THEN "" ELSE truncateBefore(ls, order[i].line)]]
FlowOf(f, qs, groups, steps) ==
  [entry |-> f.fns[Entry(f)].name, start |-> BodyStart(f), end |-> BodyEnd(f), loops |-> findLoops(f),
   queries |-> qs, groups |-> groups, steps |-> steps,
   shape |-> IF steps = <<>> /\ groups # <<>> THEN "simple" ELSE "stateful"]
FlowWith(f, qs, groups) == FlowOf(f, qs, groups, Steps(FileLines(f), qs, groups))
FlowFor(f, qs) == FlowWith(f, qs, Groups(qs))
Flow(f) == FlowFor(f, BodyQueries(f))

---------------------------------------------------------------------------
\* pyplan.Build.  Names are asked for one after another; a name taken gets
\* the next number.
verbOf(q) == IF IsDML(q) THEN q.type ELSE "fetch"
Ask(role, base, q) == [role |-> role, base |-> base, query |-> q]
GroupConsts(g) ==
  <<Ask("const", "SELECT_" \o g.cursor \o "_QUERY", g.select),
    Ask("const", verbOf(g.dml) \o "_" \o g.cursor \o "_QUERY", g.dml)>>
GroupMethods(g) ==
  <<Ask("method", verbOf(g.select) \o "_" \o g.cursor, g.select),
    Ask("method", verbOf(g.dml) \o "_" \o g.cursor, g.dml)>>
Rebuilds(s) == s.truncate # "" /\ s.query.type = "insert"
StepNames(s) ==
  LET q == s.query
      when(b, seq) == IF b THEN seq ELSE <<>>
  IN when(Rebuilds(s), <<Ask("truncate", "TRUNCATE_" \o q.table \o "_QUERY", q)>>)
     \o <<Ask("const", verbOf(q) \o "_" \o q.table \o "_QUERY", q), Ask("method", verbOf(q) \o "_" \o q.table, q)>>
     \o when(Rebuilds(s), <<Ask("rebuild", "rebuild_" \o q.table, q)>>)
NextFree(base, taken) ==
  LET numbered(n) == IF n = 1 THEN base ELSE base \o "_" \o ToString(n)
  IN numbered(Min({n \in 1 .. (Cardinality(taken) + 1) : numbered(n) \notin taken}))
\* Mutant: no name is remembered.
TakeBase(asked) == [i \in DOMAIN asked |-> asked[i].base]
Take(asked) == FoldLeft(LAMBDA named, a : Append(named, NextFree(a.base, ToSet(named))), <<>>, asked)

Asked(flow, repo) ==
  FlattenSeq([i \in DOMAIN flow.groups |-> GroupConsts(flow.groups[i])])
  \o IF ~repo THEN <<>>
     ELSE FlattenSeq([i \in DOMAIN flow.groups |-> GroupMethods(flow.groups[i])])
          \o FlattenSeq([i \in DOMAIN flow.steps |-> StepNames(flow.steps[i])])
\* What was asked for, with the names given.
Given(asked) == LET name == Take(asked) IN [i \in DOMAIN asked |-> [name |-> name[i], for |-> asked[i]]]
NameFor(given, role, q) ==
  given[CHOOSE i \in DOMAIN given : given[i].for.role = role /\ given[i].for.query = q].name
Consts(flow, given) ==
  LET truncateOf(q) == (CHOOSE s \in ToSet(flow.steps) : s.query = q).truncate
      const(g) == [name |-> g.name, sql |-> IF g.for.role = "truncate" THEN truncateOf(g.for.query) ELSE g.for.query.text]
      asked == SelectSeq(given, LAMBDA g : g.for.role \in {"const", "truncate"})
  IN [i \in DOMAIN asked |-> const(asked[i])]
Repo(given) ==
  LET rebuilt(q) == \E i \in DOMAIN given : given[i].for.role = "rebuild" /\ given[i].for.query = q
      method(q, role, truncs) ==
        [name |-> NameFor(given, role, q), query |-> q, consts |-> truncs \o <<NameFor(given, "const", q)>>]
      asked == SelectSeq(given, LAMBDA g : g.for.role = "method")
  IN [i \in DOMAIN asked |->
        LET q == asked[i].for.query
        IN IF rebuilt(q) THEN method(q, "rebuild", <<NameFor(given, "truncate", q)>>) ELSE method(q, "method", <<>>)]
\* bindIdx: the column of the row each bind is; a column fetched twice is
\* the later one.
BindIdx(binds, rows) == [i \in DOMAIN binds |-> Max({k \in DOMAIN rows : rows[k] = binds[i]})]
Phases(groups, given) ==
  [i \in DOMAIN groups |->
     [cursor |-> groups[i].cursor,
      fetch |-> NameFor(given, "const", groups[i].select), dml |-> NameFor(given, "const", groups[i].dml),
      columns |-> BindIdx(groups[i].dml.binds, groups[i].select.rows)]]
PlanOf(f, flow, repo, given) ==
  [module |-> serviceName(f), shape |-> IF repo THEN "repo" ELSE "simple", flow |-> flow,
   consts |-> Consts(flow, given),
   phases |-> IF repo THEN <<>> ELSE Phases(flow.groups, given),
   repo |-> Repo(given)]
PlanFor(f, flow, repo) == PlanOf(f, flow, repo, Given(Asked(flow, repo)))
PlanIn(f, flow) == PlanFor(f, flow, repoForced \/ flow.shape = "stateful")
Plan(f) == PlanIn(f, Flow(f))

---------------------------------------------------------------------------
\* Orchestration: before the loops, each loop, between them and after; what
\* a block must call are the methods whose query stands in it.
Blocks(plan) ==
  LET flow == plan.flow
      loops == flow.loops
      n == Len(loops)
      range(a, b) == IF a <= b THEN <<[start |-> a, end |-> b]>> ELSE <<>>
      ranges == IF n = 0 THEN range(flow.start, flow.end)
                ELSE range(flow.start, loops[1].start - 1)
                     \o FlattenSeq([i \in 1 .. n |->
                          (IF i = 1 THEN <<>> ELSE range(loops[i - 1].end + 1, loops[i].start - 1)) \o <<loops[i]>>])
                     \o range(loops[n].end + 1, flow.end)
  IN [i \in DOMAIN ranges |->
        [range |-> ranges[i],
         methods |-> {m.name : m \in {x \in ToSet(plan.repo) :
                                        x.query.line \in ranges[i].start .. ranges[i].end}}]]
\* codeViewEntries: lines of SQL and of dropped calls go before what would
\* stand for them is looked up.
CodeView(f, plan) ==
  LET ls == FileLines(f)
      hidden == SqlLines(ls) \cup {l \in DOMAIN ls : ls[l].k = "dropped"}
      kept == SelectSeq([l \in 1 .. plan.flow.end |-> l], LAMBDA l : l >= plan.flow.start /\ l \notin hidden)
  IN [i \in DOMAIN kept |-> ls[kept[i]]]

---------------------------------------------------------------------------
\* pychk.Check: indentation, block by block; comments do not count.
Check(lines) ==
  LET code == SelectSeq(lines, LAMBDA x : x.k # "comment")
      step(st, x) ==
        LET top == Last(st.blocks)
            popped == SelectSeq(st.blocks, LAMBDA b : b <= x.in)
            bad == CASE st.opener >= 0 -> x.in <= st.opener
                     [] x.in > top -> TRUE
                     [] x.in < top -> popped = <<>> \/ Last(popped) # x.in
                     [] OTHER -> FALSE
        IN [blocks |-> IF st.opener >= 0 THEN Append(st.blocks, x.in)
                       ELSE IF x.in < top /\ popped # <<>> THEN popped ELSE st.blocks,
            opener |-> IF x.k \in {"class", "def"} THEN x.in ELSE -1,
            bad |-> st.bad \/ bad]
      end == FoldLeft(step, [blocks |-> <<0>>, opener |-> -1, bad |-> FALSE], code)
  IN ~end.bad /\ end.opener = -1
\* repoSection: the repository and the service around the body, or a body
\* that is a class in their place.
PyLine(indent, k, name, calls) == [in |-> indent, k |-> k, name |-> name, calls |-> calls, flaw |-> ""]
repoSection(plan, body) ==
  IF body[1].k = "class" THEN body
  ELSE <<PyLine(0, "class", "Repository", {})>>
       \o FlattenSeq([i \in DOMAIN plan.repo |->
            <<PyLine(1, "def", plan.repo[i].name, {}), PyLine(2, "stmt", "", {})>>])
       \o <<PyLine(0, "class", "Service", {}), PyLine(1, "def", "__init__", {}), PyLine(2, "stmt", "", {})>> \o body
\* reindent: a first line that is a flush def moves the body one level.
reindent(body) ==
  IF body[1].k = "def" /\ body[1].in = 0 THEN [i \in DOMAIN body |-> [body[i] EXCEPT !.in = @ + 1]] ELSE body
\* txnIssues, seamIssues and contractIssues look at text, comments too when
\* they look for a call.
contractHolds(plan, body) ==
  /\ \E i \in DOMAIN body : body[i].k = "def" /\ body[i].name = "run"
  /\ \A m \in ToSet(plan.repo) : \E i \in DOMAIN body : m.name \in body[i].calls
Gate(plan, body) ==
  /\ Check(repoSection(plan, body)) /\ contractHolds(plan, body)
  /\ \A i \in DOMAIN body : body[i].flaw = ""

\* External: what a model answers.
Replies(plan) ==
  LET ms == {m.name : m \in ToSet(plan.repo)}
      Def(indent) == PyLine(indent, "def", "run", {})
      Do(indent, calls) == PyLine(indent, "stmt", "", calls)
      Remark(calls) == PyLine(0, "comment", "", calls)
      flawed(x) == [Do(2, ms) EXCEPT !.flaw = x]
  IN {<<Def(1), Do(2, ms)>>, <<Def(0), Do(1, ms)>>, <<Def(1), Do(2, ms), Do(3, {})>>, <<Def(0), Do(2, ms), Def(1)>>}
     \cup {<<Def(1), Do(2, ms \ {m})>> : m \in ms}
     \cup {<<Def(1), flawed(x)>> : x \in {"commit", "router"}}
     \cup {r \in {<<PyLine(0, "class", "Service", {}), Def(1), Do(2, ms)>>} : "class" \in Slips}
     \cup {r \in {<<Remark({}), Def(0), Do(1, ms)>>} : "flush" \in Slips}
     \cup {r \in {<<Remark(ms), Def(1), Do(2, {})>>} : "remark" \in Slips}
Placeholder == <<PyLine(1, "def", "run", {}), PyLine(2, "raise", "", {})>>
\* fillServiceBody: a reply the gates take, or none of them was.
Bodies(plan) ==
  {Placeholder} \cup (IF client THEN {b \in {reindent(r) : r \in Replies(plan)} : Gate(plan, b)} ELSE {})
\* pygen.Generate.
Modules(f, plan) ==
  LET module(lines) == [file |-> f, plan |-> plan, lines |-> lines]
  IN IF plan.shape = "simple" THEN {module(<<>>)}
     ELSE {module(repoSection(plan, b)) : b \in Bodies(plan)}

---------------------------------------------------------------------------
\* runBatchpy.
BatchInit == RunInit /\ repoForced \in BOOLEAN /\ client \in BOOLEAN
\* convertBatchFile.
ConvertFile ==
  /\ phase = "convert" /\ Len(results) < Len(paths)
  /\ \E f \in {paths[Len(results) + 1]}, plan \in {Plan(paths[Len(results) + 1])} :
        \/ Convert("failed", <<>>)
        \/ plan.flow.entry \in Tuxedo /\ Convert("skipped", <<>>)
        \/ plan.flow.entry \notin Tuxedo /\ \E m \in Modules(f, plan) : Convert("converted", m)
  /\ UNCHANGED <<repoForced, client>>
AfterConversion == (CollisionGate \/ WriteModule \/ EndBatch) /\ UNCHANGED <<repoForced, client>>
BatchNext == ConvertFile \/ AfterConversion
BatchSpec == BatchInit /\ [][BatchNext]_batchVars

---------------------------------------------------------------------------
\* What the batch writes: each statement run, with what its binds hold.
RECURSIVE Exec(_, _, _)
Exec(b, start, env) ==
  LET row(n, r) == [v \in ToSet(n.rows) |-> <<n.cursor, r, Max({k \in DOMAIN n.rows : n.rows[k] = v})>>]
      do(st, n) ==
        CASE n.k = "loop" ->
               FoldLeft(LAMBDA s, r : Exec(n.body, [s EXCEPT !.host = row(n, r) @@ @, !.row = r], env),
                        st, [r \in 1 .. env.rows[n.cursor] |-> r])
          [] n.k = "if" -> IF st.row >= env.over THEN Exec(n.body, st, env) ELSE st
          [] n.k = "sql" /\ IsDML(n) ->
               [st EXCEPT !.out = Append(@, <<n.text, [i \in DOMAIN n.binds |-> st.host[n.binds[i]]]>>)]
          [] OTHER -> st
  IN FoldLeft(do, start, b)
BatchWrites(f, env) == Exec(f.fns[Entry(f)].body, [host |-> [v \in {} |-> <<>>], row |-> 0, out |-> <<>>], env).out
\* What Python finds under a name is the last that was given it.
ConstSql(plan, name) == plan.consts[Max({i \in DOMAIN plan.consts : plan.consts[i].name = name})].sql
MethodNamed(plan, name) == plan.repo[Max({i \in DOMAIN plan.repo : plan.repo[i].name = name})]
ModuleWrites(plan, env) ==
  FlattenSeq([p \in DOMAIN plan.phases |->
    LET ph == plan.phases[p]
    IN [r \in 1 .. env.rows[ph.cursor] |->
          <<ConstSql(plan, ph.dml), [i \in DOMAIN ph.columns |-> <<ph.cursor, r, ph.columns[i]>>]>>]])

\* A statement of the batch is run by a method, a TRUNCATE with the insert
\* that follows it.
RunBy(plan, l, text) ==
  \E m \in ToSet(plan.repo) :
    /\ MethodNamed(plan, m.name) = m /\ ConstSql(plan, Last(m.consts)) = text
    /\ \E b \in ToSet(Blocks(plan)) : m.name \in b.methods
TruncatedBy(plan, l, text) ==
  \E m \in ToSet(plan.repo) :
    MethodNamed(plan, m.name) = m /\ Len(m.consts) = 2 /\ ConstSql(plan, m.consts[1]) = text /\ m.query.line > l
\* The body raises, or its entry point is the class's and calls every
\* method, which the module defines.
BodyRuns(plan, lines) ==
  LET encloser(i) == Max({j \in 1 .. i : j < i /\ lines[j].in < lines[i].in /\ lines[j].k # "comment"})
  IN \/ \E i \in DOMAIN lines : lines[i].k = "raise"
     \/ /\ \E i \in DOMAIN lines : /\ lines[i].k = "def" /\ lines[i].name = "run" /\ lines[i].in > 0
                                  /\ lines[encloser(i)].k = "class"
        /\ \A m \in ToSet(plan.repo) :
             /\ \E i \in DOMAIN lines : lines[i].k # "comment" /\ m.name \in lines[i].calls
             /\ \E i \in DOMAIN lines : lines[i].k = "def" /\ lines[i].name = m.name

\* A module of phases writes the rows the batch writes, in its order.
\* batchflow.Build, pyplan.Build.
SimpleRunsTheBatch ==
  \A i \in Converted :
    LET m == results[i].module
    IN m.plan.shape = "simple" =>
         /\ \A env \in Envs : ModuleWrites(m.plan, env) = BatchWrites(m.file, env)
         /\ \A ph \in ToSet(m.plan.phases) : \E q \in ToSet(m.plan.flow.queries) :
              q.cursor = ph.cursor /\ q.text = ConstSql(m.plan, ph.fetch)
\* A TRUNCATE right before an INSERT is run by the insert's method.
\* truncateBefore: "the raw EXEC SQL TRUNCATE statement that sits
\* immediately before the query".
RebuildsTruncate ==
  \A i \in Converted :
    LET m == results[i].module
        ls == FileLines(m.file)
        body == m.plan.flow.start .. m.plan.flow.end
    IN m.plan.shape = "repo" =>
         \A l \in body : (ls[l].k = "truncate" /\ l + 1 \in body /\ ls[l + 1].k = "sql" /\ ls[l + 1].type = "insert")
                         => TruncatedBy(m.plan, l, ls[l].text)
\* Every statement of the batch is run by a method whose name and constant
\* no later one takes, listed in a block the body must implement, and the
\* body is the service's and calls it, or raises.  pyplan.Build,
\* Orchestration, contractIssues.
RepositoryRunsTheBatch ==
  \A i \in Converted :
    LET m == results[i].module
        ls == FileLines(m.file)
        body == m.plan.flow.start .. m.plan.flow.end
    IN m.plan.shape = "repo" =>
         /\ \A l \in body : ls[l].k \in {"declare", "sql"} => RunBy(m.plan, l, ls[l].text)
         /\ BodyRuns(m.plan, m.lines)
\* What a Python module holds runs what the batch ran.
ModulesRunTheBatch == SimpleRunsTheBatch /\ RebuildsTruncate /\ RepositoryRunsTheBatch
\* The view names the call of every statement.  pyplan.CodeView: "every EXEC
\* SQL span becomes one placeholder line naming the deterministic call".
ViewNamesEveryCall ==
  \A i \in Converted :
    LET m == results[i].module
        ls == FileLines(m.file)
        body == m.plan.flow.start .. m.plan.flow.end
        view == CodeView(m.file, m.plan)
    IN m.plan.shape = "repo" =>
         \A l \in body : ls[l].k = "sql" => \E j \in DOMAIN view : view[j].k = "call"
============================================================================
