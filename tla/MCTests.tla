------------------------------ MODULE MCTests ------------------------------
(***************************************************************************)
(* One run over the test generation, two specifications side by side: two  *)
(* requests to one of a few controller methods over five store methods     *)
(* (GenTests), and runs of gentest over a service that grows (GenTestRuns).*)
(***************************************************************************)
EXTENDS GenTests, GenTestRuns, TLC

CONSTANTS No, Menu, r1, r2
VARIABLE part

\* find and list are reads, list logs only its result; exists answers yes or
\* no; save is a write.
StoreLog == [find |-> "read", list |-> "valued", exists |-> "read", save |-> "dml", GetDB |-> "none"]
ZeroValue == [m \in DOMAIN StoreLog |-> IF m = "exists" THEN No ELSE NoVal]

OkAnswer(r, m) ==
  Answer("nil", CASE m = "exists" -> No [] m \in {"save", "GetDB"} -> NoVal [] OTHER -> r)

AllOk(r) == [m \in DOMAIN StoreLog |-> OkAnswer(r, m)]

\* At most one store method does not answer well.
AnswersTo(r) ==
  {AllOk(r)} \cup {[AllOk(r) EXCEPT ![m] = Answer("store", ZeroValue[m])] : m \in {"find", "save"}}
  \cup {[AllOk(r) EXCEPT !.find = Answer("norows", NoVal)], [AllOk(r) EXCEPT !.exists = Answer("nil", Yes)]}

MCOutcomes == {(r1 :> a) @@ (r2 :> b) : a \in AnswersTo(r1), b \in AnswersTo(r2)}
MCAsked == {(r1 :> "A") @@ (r2 :> v) : v \in {"A", "B"}}

Propagate == If("err", <<Return("err")>>, <<>>)
Refuse == If("flag", <<Return("business")>>, <<>>)

ReadThenWrite ==
  <<Assign("find", "request"), Propagate, Assign("exists", "result"), Propagate, Refuse,
    Assign("save", "lit"), Propagate, Return("nil")>>
CheckThenRead == <<Assign("exists", "request"), Propagate, Refuse, Assign("list", "result"), Propagate, Return("nil")>>
Direct == <<TailCall("list", "request")>>
Unguarded == <<Assign("find", "request"), Assign("save", "result"), Propagate, Return("nil")>>
Looped == <<Assign("find", "request"), Propagate, ForRange(<<Assign("save", "lit"), Propagate>>), Return("nil")>>
LoopedRead == <<ForRange(<<Assign("list", "request"), Propagate>>), Assign("find", "lit"), Propagate, Return("nil")>>
Twice == <<Assign("find", "request"), Propagate, Assign("save", "lit"), Propagate, Assign("find", "result"), Propagate, Return("nil")>>
InTransaction ==
  <<Assign("exists", "request"), Propagate, Refuse,
    Transaction(<<Assign("save", "lit"), Propagate, Return("nil")>>), Propagate, Return("nil")>>
TailOfAll == <<TailTransaction(<<Assign("find", "lit"), Propagate, ForRange(<<Assign("save", "lit"), Propagate>>), Return("nil")>>)>>
Upsert ==
  <<Assign("find", "request"), If("err", <<If("norows", <<Assign("save", "lit"), Propagate>>, <<Return("err")>>)>>, <<>>),
    Assign("list", "lit"), Propagate, Return("nil")>>

\* Bodies outside what the enumerator recognises.
NotFound ==
  <<Assign("find", "request"), If("err", <<If("norows", <<Return("business")>>, <<>>), Return("err")>>, <<>>),
    Assign("save", "lit"), Propagate, Return("nil")>>
AfterTransaction ==
  <<Transaction(<<Assign("save", "lit"), Propagate, Return("nil")>>), Propagate, Assign("list", "lit"), Propagate, Return("nil")>>
RoutedBody == <<If("A", <<Assign("find", "lit"), Propagate>>, <<>>), Assign("list", "lit"), Propagate, Return("nil")>>
LoopOfTwo == <<ForRange(<<Assign("find", "request"), Propagate, Assign("save", "lit"), Propagate>>), Return("nil")>>

Method(body, passthrough) == [name |-> "M", body |-> body, passthrough |-> passthrough]

MCUnits ==
  CASE Menu = "all" ->
         {Method(b, FALSE) : b \in {ReadThenWrite, CheckThenRead, Unguarded, Looped, LoopedRead, Twice, InTransaction, TailOfAll, Upsert}}
         \cup {Method(Direct, TRUE), Method(Direct, FALSE)}
    [] Menu = "not found" -> {Method(NotFound, FALSE)}
    [] Menu = "after the transaction" -> {Method(AfterTransaction, FALSE)}
    [] Menu = "routed" -> {Method(RoutedBody, FALSE)}
    [] Menu = "loop of two" -> {Method(LoopOfTwo, FALSE)}
    [] OTHER -> {}

---------------------------------------------------------------------------
\* db methods and handlers of the shapes the conversion writes, and some it
\* does not, and controllers.
Query == Assign("query", "any")

Reads ==
  {<<Query, Propagate, Return("nil")>>,
   <<Query, If("err", <<Return("nil")>>, <<>>), Return("nil")>>,
   <<Query, If("err", <<If("norows", <<Return("nil")>>, <<>>), Return("err")>>, <<>>), Return("nil")>>,
   <<Query, If("err", <<If("norows", <<Return("nil")>>, <<Return("err")>>)>>, <<>>), Return("nil")>>,
   <<Query, If("err", <<If("norows", <<Return("none found")>>, <<>>), Return("err")>>, <<>>), Return("nil")>>,
   <<Query, If("err", <<If("norows", <<Return("err")>>, <<>>), Return("err")>>, <<>>), Return("nil")>>,
   <<Query, Return("nil")>>,
   <<TailCall("query", "any")>>}

Writes ==
  {<<Query, Propagate, If("zero", <<Return("not saved")>>, <<>>), Return("nil")>>,
   <<Query, Propagate, If("positive", <<Return("nil")>>, <<>>), Return("not saved")>>,
   <<Query, Propagate, If("zero", <<Return("norows")>>, <<>>), Return("nil")>>,
   <<Query, Propagate, Return("nil")>>,
   <<Query, If("err", <<Return("failed")>>, <<>>), If("zero", <<Return("not saved")>>, <<>>), Return("nil")>>,
   <<Query, Propagate, If("zero", <<Return("not saved")>>, <<>>), If("flag", <<Return("odd")>>, <<>>), Return("nil")>>}

Reject == If("", <<Return("bad")>>, <<>>)
Route(v, m) == If(v, <<Assign(m, "any"), Propagate, Return("nil")>>, <<>>)
Bodies ==
  {<<Reject, Assign("View", "any"), Propagate, Return("nil")>>,
   <<Assign("View", "any"), Propagate, Return("nil")>>,
   <<TailCall("View", "any")>>,
   <<Reject, Route("B", "View"), Route("L", "List"), Return("nil")>>,
   <<Reject, Route("B", "View"), Assign("List", "any"), Propagate, Return("nil")>>,
   <<Route("B", "View"), Route("L", "View"), Return("nil")>>,
   <<Assign("View", "any"), Propagate, Route("L", "List"), Return("nil")>>,
   <<Unless("B", <<Assign("View", "any"), Propagate, Return("nil")>>), Return("nil")>>}

Of(layer, name, shape, tx, body, template, names) ==
  [layer |-> layer, name |-> name, shape |-> shape, tx |-> tx, body |-> body, template |-> template, names |-> {name} \cup names]

\* A controller whose test names a store method called like another controller.
Controllers ==
  {Of("controller", n, "", FALSE, <<>>, n = "direct", {}) : n \in {"direct", "mapped", "other"}}
Alike == {Of("controller", "direct", "", FALSE, <<>>, TRUE, {"mapped"}), Of("controller", "mapped", "", FALSE, <<>>, FALSE, {})}

MCMethods ==
  CASE Menu = "all" ->
         {Of("db", "M", "single", FALSE, b, TRUE, {}) : b \in Reads}
         \cup {Of("db", "W", "dml", FALSE, b, TRUE, {}) : b \in Writes}
         \cup {Of("handler", "H", "", FALSE, b, TRUE, {}) : b \in Bodies}
         \cup Controllers
    [] Menu = "controllers" -> Controllers
    [] Menu = "alike" -> Alike
    [] OTHER -> {}

---------------------------------------------------------------------------
InitSuite == /\ part = "suite" /\ Init
             /\ present = "" /\ tests = [l \in Layers |-> NoFiles] /\ outTree = "" /\ report = "" /\ genRuns = ""
InitRuns == /\ part = "runs" /\ GenInit
            /\ unit = "" /\ served = "" /\ pending = "" /\ log = "" /\ switches = "" /\ suite = ""
SuiteStep == part = "suite" /\ Next /\ UNCHANGED <<part, genVars>>
RunsStep == part = "runs" /\ GenNext /\ UNCHANGED <<part, vars>>
BothSpec == (InitSuite \/ InitRuns) /\ [][SuiteStep \/ RunsStep]_<<part, vars, genVars>>

\* GenTests: a trace has the calls of its request.
TracesAreRequests == part = "suite" => TraceIsItsRequest
\* GenTests: a suite built from a log with a successful request holds on the code
\* it was built from; its Logged-Error case, when the method itself refused the
\* failed request and all its lines are there.
SuitesHold == part = "suite" => SuiteHolds
\* In no run: whatever the log, which is not so.
EverySuite == part = "suite" => EverySuiteHolds
\* GenTests: the paths are those of the body.
PathsAreTheBodys == part = "suite" => PathsFollowTheBody

\* In no run: a first run into an output tree fails its tests on no method
\* whose body has the shape the tables take for granted (dbCases,
\* HandlerCases, fullTestGate).
GateIsFair ==
  part = "runs" /\ report # <<>> /\ report[1].staged /\ report[1].testsFailed =>
    \E m \in report[1].written :
      \/ m.layer = "db" /\ ~Conventional(m)
      \/ m.layer = "handler" /\ ~Routed(m)
=============================================================================
