------------------------------ MODULE GenTests ------------------------------
(***************************************************************************)
(* internal/testgen for a controller method: requests are served at the    *)
(* same time and write their lines to one log, the log is rotated, and     *)
(* gentest, run at any moment, parses what is there, builds the method's   *)
(* table of cases from the traces it finds (methods.go, logfixture.go) and *)
(* the cases are run one after the other against one gomock controller.    *)
(* For the db and the handler layers: the tables written from a body, and  *)
(* whether they hold on it.                                                *)
(***************************************************************************)
EXTENDS Naturals, Sequences, SequencesExt, FiniteSetsExt

\* A body is a sequence of statements: an assignment that calls the layer
\* below, a transaction with its closure, an `if` on what the last call
\* returned, a loop over a request field, a return.  The conversion's output
\* and the Go runtime are outside the repository; this is what the
\* generator's recognisers (isErrNilCheck, bareIdent, isErrNoRowsCheck,
\* isExecTransaction, tripExpr) take them to be.
CONSTANTS GetDB,     \* the store method that hands out the database
          NoVal,     \* no result value
          Yes,       \* the true of a boolean read
          Trips      \* the iterations of a loop

ASSUME TripsAssumption == Trips \in Nat \ {0}

Statement(k, call, arg, cond, then, else, ret) ==
  [k |-> k, call |-> call, arg |-> arg, cond |-> cond, then |-> then, else |-> else, ret |-> ret]

Assign(m, a) == Statement("assign", m, a, "", <<>>, <<>>, "")
Transaction(closure) == Statement("tx", GetDB, "none", "", closure, <<>>, "")
TailTransaction(closure) == Statement("tailTx", GetDB, "none", "", closure, <<>>, "")
TailCall(m, a) == Statement("tailCall", m, a, "", <<>>, <<>>, "")
If(cond, then, else) == Statement("if", "", "none", cond, then, else, "")
Unless(cond, then) == Statement("unless", "", "none", cond, then, <<>>, "")
ForRange(body) == Statement("range", "", "none", "", body, <<>>, "")
Return(r) == Statement("return", "", "none", "", <<>>, <<>>, r)

(***************************************************************************)
(* An execution: the calls made with what they returned, the error and the *)
(* value of the last of them, and once it has returned, the error it       *)
(* returned.  The layer below answers either as the live store does (a     *)
(* function from methods to answers) or as a gomock controller does: the   *)
(* first expectation left that matches the call, and a fatal failure when  *)
(* none does.                                                              *)
(***************************************************************************)
Answer(err, val) == [err |-> err, val |-> val]

Live(answers, req) ==
  [mocked |-> FALSE, store |-> answers, left |-> <<>>, req |-> req,
   calls |-> <<>>, err |-> "nil", val |-> NoVal, done |-> FALSE, result |-> "nil"]

Mocked(expectations, req) ==
  [mocked |-> TRUE, store |-> <<>>, left |-> expectations, req |-> req,
   calls |-> <<>>, err |-> "nil", val |-> NoVal, done |-> FALSE, result |-> "nil"]

Concrete(x, a) == IF a = "request" THEN x.req ELSE a

Matches(x, s) ==
  {i \in DOMAIN x.left : /\ x.left[i].method = s.call
                         /\ x.left[i].arg \in {"any", Concrete(x, s.arg)}}

Called(x, s, a) ==
  [x EXCEPT !.calls = Append(@, [method |-> s.call, arg |-> s.arg, err |-> a.err, val |-> a.val]),
            !.err = IF s.call = GetDB THEN @ ELSE a.err,
            !.val = IF s.call = GetDB THEN @ ELSE a.val]

Call(x, s) ==
  IF ~x.mocked THEN Called(x, s, x.store[s.call])
  ELSE IF Matches(x, s) = {} THEN [x EXCEPT !.done = TRUE, !.result = "fatal"]
  ELSE LET i == Min(Matches(x, s))
       IN  [Called(x, s, x.left[i].ret) EXCEPT !.left = RemoveAt(@, i)]

Holds(x, cond) ==
  CASE cond = "err" -> x.err # "nil"
    [] cond = "norows" -> x.err = "norows"
    [] cond = "flag" -> x.val = Yes
    [] cond = "zero" -> x.val = NoVal
    [] cond = "positive" -> x.val # NoVal
    [] OTHER -> x.req = cond

RECURSIVE Exec(_, _), Repeat(_, _, _)

Step(x, s) ==
  CASE x.done -> x
    [] s.k = "assign" -> Call(x, s)
    [] s.k \in {"tx", "tailTx"} ->
         LET c == Exec(Call(x, s), s.then)
         IN  [c EXCEPT !.done = @ /\ (s.k = "tailTx" \/ c.result = "fatal"), !.err = c.result]
    [] s.k = "tailCall" -> LET c == Call(x, s) IN IF c.done THEN c ELSE [c EXCEPT !.done = TRUE, !.result = c.err]
    [] s.k = "if" -> Exec(x, IF Holds(x, s.cond) THEN s.then ELSE s.else)
    [] s.k = "unless" -> IF Holds(x, s.cond) THEN x ELSE Exec(x, s.then)
    [] s.k = "range" -> Repeat(x, s.then, Trips)
    [] s.k = "return" -> [x EXCEPT !.done = TRUE, !.result = IF s.ret = "err" THEN x.err ELSE s.ret]

Exec(x, body) == FoldLeft(Step, x, body)

Repeat(x, body, n) == IF n = 0 THEN x ELSE Repeat(Exec(x, body), body, n - 1)

Succeeds(x) == x.result = "nil"

\* The calls a body makes, in source order.
RECURSIVE CallSites(_)
CallSites(body) ==
  FlattenSeq([i \in DOMAIN body |->
    (IF body[i].k \in {"assign", "tx", "tailTx", "tailCall"}
       THEN <<[method |-> body[i].call, arg |-> body[i].arg]>> ELSE <<>>)
    \o CallSites(body[i].then) \o CallSites(body[i].else)])

\* What it returns, in source order.
RECURSIVE ReturnsIn(_)
ReturnsIn(body) ==
  FlattenSeq([i \in DOMAIN body |->
    (IF body[i].k = "return" THEN <<body[i].ret>> ELSE <<>>)
    \o ReturnsIn(body[i].then) \o ReturnsIn(body[i].else)])

---------------------------------------------------------------------------
CONSTANTS Requests,
          NoRequest,   \* the null id of the lines of no request
          LogShape     \* how a store method logs its calls

\* The runtime log that logparse.go reads, and the parse: the lines of
\* requests served at the same time, grouped by request id, the database
\* calls of a request folded from its lines, the traces chosen for a method.
\*
\* A line has the request it belongs to, the layer and method that wrote it
\* (none: the framework), whether its message is the method's own name, the
\* value it carries, whether it is an error and of what kind, and for the
\* framework's last line of a request the status and the request's value and
\* response.
None == ""

Line(r, layer, method, entry, val, error) ==
  [rid |-> r, layer |-> layer, method |-> method, entry |-> entry, val |-> val,
   error |-> error, end |-> FALSE, status |-> 0, request |-> None, data |-> <<>>]

\* What one call writes: a read its entry and its value, some reads only the
\* value, a write its entry and its progress, the database handle nothing.
CallLines(r, c) ==
  LET entry == <<Line(r, "db", c.method, TRUE, NoVal, None)>>
      value == <<Line(r, "db", c.method, FALSE, c.val, None)>>
      progress == <<Line(r, "db", c.method, FALSE, NoVal, None)>>
      error == <<Line(r, "db", c.method, FALSE, NoVal, c.err)>>
  IN  CASE c.method = GetDB -> <<>>
        [] c.err # "nil" -> entry \o error
        [] LogShape[c.method] = "read" -> entry \o value
        [] LogShape[c.method] = "valued" -> value
        [] OTHER -> entry \o progress

\* What a request writes: the controller's entry, the calls, the controller's
\* error, the end of the API call; the response of a request that succeeded
\* is on a line of its own just before, which is left in the last one here.
LinesOf(r, method, x) ==
  <<Line(r, "controller", method, TRUE, NoVal, None)>> \o
  FlattenSeq([i \in DOMAIN x.calls |-> CallLines(r, x.calls[i])]) \o
  (IF Succeeds(x) THEN <<>> ELSE <<Line(r, "controller", method, FALSE, NoVal, x.result)>>) \o
  <<[Line(r, None, None, FALSE, NoVal, None) EXCEPT
       !.end = TRUE, !.status = IF Succeeds(x) THEN 200 ELSE 404, !.request = x.req,
       !.data = IF Succeeds(x) THEN [i \in DOMAIN x.calls |-> x.calls[i].val] ELSE <<>>]>>
-----------------------------------------------------------------------------
\* A variant that opens a call only where the method's name is logged.
mergeDBCallsByName(lines) ==
  FoldLeft(LAMBDA out, c :
             IF out = <<>> \/ c.entry THEN Append(out, c)
             ELSE IF c.val # NoVal THEN [out EXCEPT ![Len(out)].val = c.val]
             ELSE out, <<>>, lines)

\* A method's lines, folded into its calls: its own name opens a call, a value
\* completes it, and the next of either opens the next.
mergeDBCalls(lines) ==
  FoldLeft(LAMBDA out, c :
             IF out = <<>> \/ c.entry \/ Last(out).val # NoVal THEN Append(out, c)
             ELSE IF c.val # NoVal THEN [out EXCEPT ![Len(out)].val = c.val]
             ELSE out, <<>>, lines)

Trace(log, r) ==
  LET mine == SelectSeq(log, LAMBDA l : l.rid = r)
      ends == SelectSeq(mine, LAMBDA l : l.end)
      end == Last(ends)
  IN  [rid |-> r,
       end |-> ends # <<>>,
       status |-> IF ends = <<>> THEN 0 ELSE end.status,
       request |-> IF ends = <<>> THEN None ELSE end.request,
       data |-> IF ends = <<>> THEN <<>> ELSE end.data,
       callers |-> {<<l.layer, l.method>> : l \in {k \in ToSet(mine) : k.layer # None}},
       errors |-> SelectSeq(mine, LAMBDA l : l.error # None),
       db |-> [m \in DOMAIN LogShape |-> mergeDBCalls(SelectSeq(mine, LAMBDA l : l.layer = "db" /\ l.method = m))]]

\* The traces, in the order their requests first appear.
ParseLog(log) ==
  LET ids == FoldLeft(LAMBDA seen, l : IF l.rid = NoRequest \/ Contains(seen, l.rid) THEN seen ELSE Append(seen, l.rid),
                      <<>>, log)
  IN  [i \in DOMAIN ids |-> Trace(log, ids[i])]

Complete(t) == t.end /\ t.callers # {}
Successful(t) == Complete(t) /\ t.status = 200 /\ t.errors = <<>>
HasCaller(t, m) == \E c \in t.callers : c[2] = m
DBCalls(t, m) == t.db[m]

ErrorForLayer(t, layer, m) ==
  LET es == SelectSeq(t.errors, LAMBDA l : l.layer = layer /\ l.method = m)
  IN  IF es = <<>> THEN None ELSE es[1].error

\* The traces chosen for a method, as a sequence of at most one.
TraceFor(data, m, failed) ==
  LET mine == SelectSeq(data, LAMBDA t : HasCaller(t, m) /\ Complete(t))
      won == SelectSeq(mine, Successful)
      lost == SelectSeq(mine, LAMBDA t : ~Successful(t))
      first(s) == IF s = <<>> THEN <<>> ELSE <<s[1]>>
  IN  IF failed THEN first(lost) ELSE IF won # <<>> THEN first(won) ELSE first(mine)

---------------------------------------------------------------------------
\* ctrlpath.go: the paths through a controller method, enumerated from its
\* body by a walk that ends a path at every guard it recognises and goes on
\* along the success edge.  A builder has the paths emitted so far, the calls
\* of the one being walked, and whether the block walked last always returns;
\* a call of a path says how it fails and whether it repeats with its loop.
\* A guard's body is judged by whether every way through it returns.
RECURSIVE listReturns(_)

ifReturns(s) == /\ listReturns(s.then)
                /\ s.else # <<>> => listReturns(s.else)

listReturns(body) ==
  \E i \in DOMAIN body :
    \/ body[i].k \in {"return", "tailTx", "tailCall"}
    \/ body[i].k = "if" /\ ifReturns(body[i])

bodyReturns(s) == listReturns(s.then)

\* A guard's first test for sql.ErrNoRows, in source order.
RECURSIVE NoRowsTests(_)
NoRowsTests(body) ==
  FoldLeft(LAMBDA found, s :
             IF s.k = "if" /\ s.cond = "norows" THEN Append(found, s)
             ELSE found \o NoRowsTests(s.then) \o NoRowsTests(s.else), <<>>, body)

PathCall(s, trip) == [method |-> s.call, fails |-> "no", loop |-> trip]

WithLast(calls, how, loop) ==
  IF calls = <<>> THEN calls
  ELSE [calls EXCEPT ![Len(calls)] = [method |-> @.method, fails |-> how, loop |-> loop]]

\* A variant that leaves the failing call in its loop.
errBranchCallsLooped(calls, how) == WithLast(calls, how, calls # <<>> /\ Last(calls).loop)

\* The failing call of a loop fails on its first iteration.
errBranchCalls(calls, how) == WithLast(calls, how, FALSE)

Emit(b, calls, final) == [b EXCEPT !.out = Append(@, [calls |-> calls, final |-> final])]

Add(b, s, trip) == [b EXCEPT !.cur = Append(@, PathCall(s, trip))]

RECURSIVE Block(_, _, _)

emitErrPaths(b, s) ==
  LET tests == NoRowsTests(s.then)
      recovered == Block([b EXCEPT !.cur = errBranchCalls(@, "norows")], Head(tests).then, FALSE)
  IN  IF tests = <<>> THEN Emit(b, errBranchCalls(b.cur, "store"), FALSE)
      ELSE Emit(recovered, errBranchCalls(b.cur, "store"), FALSE)

branch(b, s, trip) ==
  CASE s.cond = "err" /\ bodyReturns(s) -> [emitErrPaths(b, s) EXCEPT !.returns = FALSE]
    [] s.cond = "flag" /\ bodyReturns(s) ->
         LET last == b.cur[Len(b.cur)]
         IN  Emit(b, WithLast(b.cur, "true", last.loop), FALSE)
    [] OTHER -> Block(b, s.then, trip)

\* The transaction's closure always returns, so the block around it does.
execTransaction(b, s, trip) == Block(Add(b, s, trip), s.then, trip)

Walk(b, s, trip) ==
  CASE b.returns -> b
    [] s.k = "assign" -> Add(b, s, trip)
    [] s.k = "tx" -> execTransaction(b, s, trip)
    [] s.k = "if" -> branch(b, s, trip)
    [] s.k = "range" -> Block(b, s.then, TRUE)
    [] s.k = "tailTx" -> [execTransaction(b, s, trip) EXCEPT !.returns = TRUE]
    [] s.k = "tailCall" -> [Add(b, s, trip) EXCEPT !.returns = TRUE]
    [] s.k = "return" -> [b EXCEPT !.returns = TRUE]

Block(b, body, trip) == FoldLeft(LAMBDA c, s : Walk(c, s, trip), [b EXCEPT !.returns = FALSE], body)

enumerateCtrlPaths(body) ==
  LET b == Block([out |-> <<>>, cur |-> <<>>, returns |-> FALSE], body, FALSE)
  IN  Append(b.out, [calls |-> b.cur, final |-> TRUE])
-----------------------------------------------------------------------------
\* What a path claims the store is asked and answers: the looped calls in a
\* row are repeated together.
RECURSIVE Unrolled(_)
Unrolled(calls) ==
  IF calls = <<>> THEN <<>>
  ELSE LET n == CHOOSE k \in 0 .. Len(calls) :
                  /\ \A i \in 1 .. k : calls[i].loop
                  /\ k < Len(calls) => ~calls[k + 1].loop
       IN  IF n = 0 THEN <<Head(calls)>> \o Unrolled(Tail(calls))
           ELSE FlattenSeq([j \in 1 .. Trips |-> SubSeq(calls, 1, n)]) \o Unrolled(SubSeq(calls, n + 1, Len(calls)))

Claims(p) ==
  LET calls == Unrolled(p.calls) IN [i \in DOMAIN calls |-> <<calls[i].method, calls[i].fails>>]

Made(x) ==
  [i \in DOMAIN x.calls |->
     <<x.calls[i].method,
       IF x.calls[i].err # "nil" THEN x.calls[i].err ELSE IF x.calls[i].val = Yes THEN "true" ELSE "no">>]

---------------------------------------------------------------------------
CONSTANTS Units,        \* the methods: [name, body, passthrough]
          Zero,         \* the zero value of a store method's result
          Placeholder,  \* an assumed row
          Asked,        \* what the requests may ask
          Outcomes,     \* what the store may answer them
          MaxSwitches   \* how often the log goes from one request to another

VARIABLES unit,     \* the method under test
          served,   \* the executions of the requests
          pending,  \* the lines each request has still to write
          log,      \* the log file
          switches, \* how often it went from one request to another
          suite     \* what gentest wrote, as a sequence of at most one

vars == <<unit, served, pending, log, switches, suite>>
-----------------------------------------------------------------------------
\* What is read off the body: extractCtrlFact.
StoreCalls(body) == CallSites(body)

\* The values a case takes from the log: ForUnit, ctrlCaseInputs.
ForUnit(data, m) ==
  LET success == TraceFor(data, m, FALSE)
      failed == TraceFor(data, m, TRUE)
      other == IF failed = success THEN <<>> ELSE failed
  IN  [success |-> success, failed |-> other,
       errMsg |-> IF other = <<>> THEN None ELSE ErrorForLayer(other[1], "controller", m)]

storeReturn(m, val, err) == Answer(err, IF val = NoVal THEN Zero[m] ELSE val)

\* The k-th call of a method in the body is given the k-th of the trace; one
\* the trace does not have gets no expectation.
Occurrence(calls, i) == Cardinality({j \in 1 .. i : calls[j].method = calls[i].method})

ctrlCaseInputs(calls, trace) ==
  [i \in DOMAIN calls |->
     LET made == DBCalls(trace, calls[i].method)
         k == Occurrence(calls, i)
     IN  IF k > Len(made) THEN <<>> ELSE <<storeReturn(calls[i].method, made[k].val, "nil")>>]

mockReturns(calls) ==
  [i \in DOMAIN calls |->
     <<Answer("nil", IF Zero[calls[i].method] = NoVal /\ LogShape[calls[i].method] # "dml"
                       THEN Placeholder ELSE Zero[calls[i].method])>>]

storeErrInputs(calls) ==
  [i \in DOMAIN calls |-> IF i = 1 THEN <<storeReturn(calls[1].method, NoVal, "store")>> ELSE <<>>]

\* A variant that pins every request field.
ctrlExpectArgPinned(a, value, ambiguous) ==
  CASE a = "request" -> value
    [] a = "result" -> "any"
    [] OTHER -> a

\* A request field the failed request had otherwise is not pinned.
ctrlExpectArg(a, value, ambiguous) ==
  CASE a = "request" -> IF ambiguous THEN "any" ELSE value
    [] a = "result" -> "any"
    [] OTHER -> a

Case(desc, req, inputs, error, output) ==
  [desc |-> desc, req |-> req, inputs |-> inputs, error |-> error, output |-> output]

renderCtrlMethod(body, fx) ==
  LET calls == StoreCalls(body)
      logged == fx.success # <<>>
      value == IF logged THEN fx.success[1].request ELSE "assumed"
      ambiguous == fx.failed # <<>> /\ fx.failed[1].request # value
      inputs == IF logged THEN ctrlCaseInputs(calls, fx.success[1]) ELSE mockReturns(calls)
      output == IF logged THEN fx.success[1].data ELSE [i \in DOMAIN calls |-> inputs[i][1].val]
  IN  [expects |-> [i \in DOMAIN calls |->
                      [method |-> calls[i].method, arg |-> ctrlExpectArg(calls[i].arg, value, ambiguous)]],
       cases |-> <<Case("StoreError", value, storeErrInputs(calls), "store", <<>>),
                   Case("Success", value, inputs, None, output)>> \o
                 (IF fx.failed = <<>> \/ fx.errMsg = None THEN <<>>
                  ELSE <<Case("Logged-Error", fx.failed[1].request,
                              ctrlCaseInputs(calls, fx.failed[1]), fx.errMsg, <<>>)>>)]

\* Which route a controller method takes: the template, with or without a
\* trace, or the model, which is left out here as with -no-llm.
renderUnit(u, fx) ==
  LET calls == StoreCalls(u.body)
      template == fx.success # <<>> \/ (u.passthrough /\ Len(calls) = 1)
  IN  IF template THEN [status |-> "template", fx |-> fx, table |-> renderCtrlMethod(u.body, fx)]
      ELSE [status |-> "llm-required", fx |-> fx, table |-> [expects |-> <<>>, cases |-> <<>>]]
-----------------------------------------------------------------------------
(* The generated loop (test_controller_method.tmpl): every case declares   *)
(* its expectations on the suite's one mock and calls the method.          *)

Expectations(expects, inputs) ==
  FlattenSeq([i \in DOMAIN expects |->
    IF inputs[i] = <<>> THEN <<>>
    ELSE <<[method |-> expects[i].method, arg |-> expects[i].arg, ret |-> inputs[i][1]]>>])

CaseHolds(x, c) ==
  IF c.error # None THEN x.result = c.error
  ELSE /\ Succeeds(x)
       /\ c.output = [i \in DOMAIN x.calls |-> x.calls[i].val]

RunCase(run, table, body, c) ==
  LET x == Exec(Mocked(run.left \o Expectations(table.expects, c.inputs), c.req), body)
  IN  [left |-> x.left, passed |-> run.passed /\ CaseHolds(x, c)]

\* What is expected and not called fails the suite when it finishes.
SuitePasses(table, body) ==
  LET run == FoldLeft(LAMBDA r, c : RunCase(r, table, body, c), [left |-> <<>>, passed |-> TRUE], table.cases)
  IN  run.passed /\ run.left = <<>>
-----------------------------------------------------------------------------
\* The requests the service gets; what each will write to the log is settled
\* by what it asks and what the store answers.
Init ==
  /\ unit \in Units
  /\ \E asked \in Asked, answers \in Outcomes :
       LET x == [r \in Requests |-> Exec(Live(answers[r], asked[r]), unit.body)]
       IN  /\ served = x
           /\ pending = [r \in Requests |-> LinesOf(r, unit.name, x[r])]
  /\ log = <<>>
  /\ switches = 0
  /\ suite = <<>>

\* A request writes its next line, among the others'.
Write(r) ==
  /\ suite = <<>> /\ pending[r] # <<>>
  /\ switches' = IF log = <<>> \/ Last(log).rid = r THEN switches ELSE switches + 1
  /\ switches' <= MaxSwitches
  /\ log' = Append(log, Head(pending[r]))
  /\ pending' = [pending EXCEPT ![r] = Tail(@)]
  /\ UNCHANGED <<unit, served, suite>>

\* The file's oldest line is rotated away.
Rotate ==
  /\ suite = <<>> /\ log # <<>>
  /\ \A r \in Requests : pending[r] = <<>>
  /\ log' = Tail(log)
  /\ UNCHANGED <<unit, served, pending, switches, suite>>

Gentest ==
  /\ suite = <<>>
  /\ suite' = <<renderUnit(unit, ForUnit(ParseLog(log), unit.name))>>
  /\ UNCHANGED <<unit, served, pending, log, switches>>

Next == Gentest \/ Rotate \/ \E r \in Requests : Write(r)

Spec == Init /\ [][Next]_vars
-----------------------------------------------------------------------------
\* Every line the request has to write is in the log.
Whole(r) ==
  Len(SelectSeq(log, LAMBDA l : l.rid = r)) = Len(LinesOf(r, unit.name, served[r]))

ValuesOf(calls, m) ==
  LET mine == SelectSeq(calls, LAMBDA c : c.method = m) IN [i \in DOMAIN mine |-> mine[i].val]

\* Requests served at the same time write their lines between each other's:
\* the trace of a request whose lines are all there has exactly the store
\* calls it made, in their order, each with the value it returned, and is
\* successful exactly when the request was (ParseLog, mergeDBCalls).
TraceIsItsRequest ==
  \A r \in Requests : Whole(r) =>
    LET t == Trace(log, r)
        x == served[r]
    IN  /\ \A m \in DOMAIN LogShape \ {GetDB} : ValuesOf(x.calls, m) = ValuesOf([i \in DOMAIN t.db[m] |->
              [method |-> m, val |-> t.db[m][i].val]], m)
        /\ Successful(t) => Succeeds(x)
        /\ Succeeds(x) /\ (\A i \in DOMAIN x.calls : x.calls[i].err = "nil") => Successful(t)

\* The bodies the template was written for: calls one after the other, each
\* store method at one place, the first with its error guard, every guard a
\* return.
Straight(body) ==
  /\ \A i \in DOMAIN body :
       \/ body[i].k \in {"assign", "tailCall", "return"}
       \/ /\ body[i].k = "if" /\ body[i].cond \in {"err", "flag"}
          /\ body[i].then \in {<<Return("err")>>, <<Return("business")>>}
  /\ body[1].k = "tailCall" \/ body[2] = If("err", <<Return("err")>>, <<>>)
  /\ LET calls == StoreCalls(body) IN \A i, j \in DOMAIN calls : calls[i].method = calls[j].method => i = j

\* With a log, the Success case is built from a successful request: without one
\* ForUnit falls back to a failed one.
FromASuccess(fx) == fx.success # <<>> => Successful(fx.success[1])

\* The failed request's lines are all there, and the store did what it was
\* asked: a store call that failed is mocked with a nil error (ctrlCaseInputs).
FailedInBusiness(fx) == fx.failed # <<>> => Whole(fx.failed[1].rid) /\ fx.errMsg = "business"

WithoutLoggedError(table) ==
  [table EXCEPT !.cases = SelectSeq(@, LAMBDA c : c.desc # "Logged-Error")]

\* A suite built from a log with a successful request in it fails on the code it
\* was built from in none of its cases - neither an unexpected call, nor an
\* unmet expectation, nor another result - however the lines of the requests
\* came and wherever the file was cut.  Its Logged-Error case is held to that
\* when the failed request was refused by the method itself and is whole
\* (renderCtrlMethod, ctrlExpectArgs, ctrlCaseInputs).
SuiteHolds ==
  \A i \in DOMAIN suite :
    LET fx == suite[i].fx
        table == suite[i].table
    IN  suite[i].status = "template" /\ Straight(unit.body) /\ FromASuccess(fx) =>
          SuitePasses(IF FailedInBusiness(fx) THEN table ELSE WithoutLoggedError(table), unit.body)

\* The same of every suite, which is not so: of a request whose store call
\* failed, or that is cut, or of a log in which every request failed.
EverySuiteHolds ==
  \A i \in DOMAIN suite :
    suite[i].status = "template" /\ Straight(unit.body) => SuitePasses(suite[i].table, unit.body)

\* Every enumerated path is a way through the body: a store that answers as
\* the path says is asked exactly the path's calls, in its order, and the
\* method succeeds on the final path and on no other; and every failure of
\* the store the body guards against has its path (enumerateCtrlPaths,
\* emitErrPaths, listReturns).
Replays(p, x) ==
  /\ Made(x) = Claims(p)
  /\ x.left = <<>>
  /\ p.final <=> Succeeds(x)

\* A path that ends at a guard stands for any error of its call.
Ending(made) ==
  IF made # <<>> /\ Last(made)[2] = "norows" THEN [made EXCEPT ![Len(made)][2] = "store"] ELSE made

AsClaimed(p) ==
  [i \in DOMAIN Claims(p) |->
     LET m == Claims(p)[i][1]
         how == Claims(p)[i][2]
     IN  [method |-> m, arg |-> "any",
          ret |-> IF how = "true" THEN Answer("nil", Yes) ELSE Answer(IF how = "no" THEN "nil" ELSE how, Zero[m])]]

PathsFollowTheBody ==
  log = <<>> /\ suite = <<>> =>
    LET paths == enumerateCtrlPaths(unit.body)
    IN  /\ \A i \in DOMAIN paths :
             \E v \in {"A", "B"} : Replays(paths[i], Exec(Mocked(AsClaimed(paths[i]), v), unit.body))
        /\ \A r \in Requests :
             ~Succeeds(served[r]) => \E i \in DOMAIN paths : Claims(paths[i]) = Ending(Made(served[r]))

---------------------------------------------------------------------------
\* The db and the handler layers: what the generator reads off a body, the
\* cases it writes (methods.go and the templates), and whether they pass on
\* the body they were read from.  A db method queries once and answers in the
\* shape its call has; the value of a write is its rows affected, NoVal when
\* there are none.  A handler routes the request to one of the controllers.
CONSTANTS Row,          \* a row, or a number of affected rows that is not zero
          Assumed,      \* the value the fixtures give a request field
          Empty         \* the value the binder refuses

Sentinel == "norows"    \* sql.ErrNoRows

RECURSIVE Guards(_)
Guards(body) ==
  FlattenSeq([i \in DOMAIN body |->
    (IF body[i].k = "if" THEN <<body[i]>> ELSE <<>>) \o Guards(body[i].then) \o Guards(body[i].else)])

\* What no row means to a read.
noRowsContractOf(body) ==
  LET guards == ToSet(Guards(body))
      explicit == \E g \in guards : g.cond = "norows"
      returned == UNION {ToSet(ReturnsIn(g.then)) : g \in {h \in guards : h.cond = "err"}}
  IN  IF ~explicit /\ "err" \in returned /\ "nil" \notin returned THEN "propagate" ELSE "tolerate"

\* The first literal error a write returns, none if it returns none.
noRowsErrorOf(body) ==
  LET literal == SelectSeq(ReturnsIn(body), LAMBDA r : r \notin {"err", "nil"})
  IN  IF literal = <<>> THEN "nil" ELSE literal[1]

DbCase(err, val, expected) == [answer |-> Answer(err, val), expected |-> expected]

\* A read of several rows has an empty result for none of them, and a read in
\* a transaction has no case for it.
dbCases(m) ==
  LET failing == DbCase("store", NoVal, "store")
      success == DbCase("nil", Row, "nil")
      none == DbCase(Sentinel, NoVal, IF noRowsContractOf(m.body) = "propagate" THEN Sentinel ELSE "nil")
  IN  IF m.shape = "dml" THEN <<failing, DbCase("nil", NoVal, noRowsErrorOf(m.body)), success>>
      ELSE IF m.shape \in {"scalar", "single"} /\ ~m.tx THEN <<failing, none, success>>
      ELSE <<failing, success>>

DbCasePasses(m, c) ==
  LET x == Exec(Mocked(<<[method |-> "query", arg |-> "any", ret |-> c.answer]>>, Assumed), m.body)
  IN  x.result = c.expected /\ x.left = <<>>

DbSuitePasses(m) == \A i \in DOMAIN dbCases(m) : DbCasePasses(m, dbCases(m)[i])

\* What the table takes for granted: the driver's error goes to the caller, by
\* a test of it rather than by returning the call; a method that singles out sql.ErrNoRows answers without an error there; a
\* write has one literal error, for no rows affected.
Conventional(m) ==
  LET run(answer) == Exec(Mocked(<<[method |-> "query", arg |-> "any", ret |-> answer]>>, Assumed), m.body).result
      literals == SelectSeq(ReturnsIn(m.body), LAMBDA r : r \notin {"err", "nil"})
  IN  /\ run(Answer("store", NoVal)) = "store"
      /\ \A i \in DOMAIN m.body : m.body[i].k # "tailCall"
      /\ \A g \in ToSet(Guards(m.body)) : g.cond = "norows" => ReturnsIn(g.then) = <<"nil">>
      /\ m.shape = "dml" => Len(literals) <= 1
-----------------------------------------------------------------------------
(* Handlers.  A route is an `if` on a request field whose block reaches a  *)
(* controller call; an `Unless` is such an `if` with its test negated.     *)

routingGuards(body) == SelectSeq(body, LAMBDA s : s.k \in {"if", "unless"} /\ s.cond # "err" /\ CallSites(s.then) # <<>>)

\* Guards and calls are paired in source order.
matchBranchesToCalls(body) ==
  LET guards == routingGuards(body)
      calls == CallSites(body)
  IN  [i \in DOMAIN calls |->
         [method |-> calls[i].method, guarded |-> i <= Len(guards),
          value |-> IF i <= Len(guards) THEN guards[i].cond ELSE ""]]

\* The call the table expects is the last one in the source.
CtrlCall(body) == Last(CallSites(body)).method

routingValue(body) ==
  LET mine == SelectSeq(matchBranchesToCalls(body), LAMBDA b : b.guarded /\ b.method = CtrlCall(body))
  IN  IF mine = <<>> THEN Assumed ELSE mine[1].value

writes(body, envelope) == envelope \in ToSet(ReturnsIn(body))

HandlerCase(answers, req, expected) ==
  [left |-> answers, req |-> req, expected |-> expected]

\* A controller error and an empty result where the body writes a failure, a
\* request the binder refuses where it writes a bad request, and a success.
HandlerCases(body) ==
  LET expect(answer) == <<[method |-> CtrlCall(body), arg |-> "any", ret |-> answer]>>
  IN  (IF writes(body, "err")
         THEN <<HandlerCase(expect(Answer("store", NoVal)), routingValue(body), "store"),
                HandlerCase(expect(Answer("nil", NoVal)), routingValue(body), "nil")>>
         ELSE <<>>) \o
      (IF writes(body, "bad") THEN <<HandlerCase(<<>>, Empty, "bad")>> ELSE <<>>) \o
      <<HandlerCase(expect(Answer("nil", Row)), routingValue(body), "nil")>>

\* A refused request is only asserted to be answered with a failure.
HandlerCasePasses(body, c) ==
  LET x == Exec(Mocked(c.left, c.req), body)
  IN  /\ IF c.expected = "bad" THEN x.result \notin {"nil", "fatal"} ELSE x.result = c.expected
      /\ x.left = <<>>

HandlerSuitePasses(m) == \A i \in DOMAIN HandlerCases(m.body) : HandlerCasePasses(m.body, HandlerCases(m.body)[i])

\* What the table takes for granted: a route tests the field for a value of
\* its own, calls once and returns, and the one call that may have no route
\* comes after them; a body that can refuse a request does so first.
Routed(m) ==
  LET routes == {i \in DOMAIN m.body : m.body[i] \in ToSet(routingGuards(m.body))}
      free == {i \in DOMAIN m.body \ routes : CallSites(<<m.body[i]>>) # <<>>}
  IN  /\ \A i \in routes : /\ m.body[i].k = "if" /\ m.body[i].cond \notin {Assumed, Empty}
                            /\ Len(CallSites(m.body[i].then)) = 1
                            /\ Last(m.body[i].then).k \in {"return", "tailCall"}
      /\ \A i, j \in routes : m.body[i].cond = m.body[j].cond => i = j
      /\ Cardinality(free) <= 1
      /\ \A i \in routes, j \in free : i < j
      /\ writes(m.body, "bad") => m.body[1] = If(Empty, <<Return("bad")>>, <<>>)

\* The gate's tests of one method; a controller's are SuitePasses, above, and
\* are taken to pass here.
Passes(m) ==
  CASE m.layer = "db" -> DbSuitePasses(m)
    [] m.layer = "handler" -> HandlerSuitePasses(m)
    [] OTHER -> TRUE
===============================================================================
