----------------------------- MODULE MCTargets -----------------------------
(***************************************************************************)
(* The other targets, side by side.  C#: services that dispatch on c with  *)
(* arms that also test d or x, whose arms query one table with different   *)
(* texts and share others, a later edition of one of them, a second        *)
(* service of the same component, and one without an axis; the user's      *)
(* mappings are the draft, and some of its endpoints with other pins and   *)
(* request properties.  Python: the batches of MCBatchPy.                  *)
(***************************************************************************)
EXTENDS CsConvert, BatchRun

CONSTANT Menu

MCNames == <<"c", "d", "v", "x">>
MCEnvs == {[c |-> c, d |-> d, x |-> x, v |-> "1"] :
             c \in {"H", "F", "Z"}, d \in {"K", "L"}, x \in {"0", "1"}}
MCLetters == <<"F", "H">>
MCPascal == [v \in ToSet(MCNames) |-> CASE v = "c" -> "C" [] v = "d" -> "D" [] v = "v" -> "V" [] OTHER -> "X"]
MCSpoken == [f \in {"IN"} |-> "In"]
MCTyped == {"d", "v", "x"}
MCBinds == [t \in {"s" \o ToString(i) : i \in 0..6} |->
              CASE t = "s0" -> <<>> [] t = "s1" -> <<"d", "mi", "d">> [] t = "s2" -> <<"v">>
                [] t = "s3" -> <<"v", "x">> [] OTHER -> <<"x", "d">>]
MCMulti == {"s2"}

x == Ident("x")
Eq(n, v) == Cmp(Ident(n), "==", Chr(v))
Sql(text, verb, table) == <<Stmt("sql", <<text, verb, "v", table>>)>>
GetIn == <<Stmt("get", <<"IN", "v">>)>>
Add == <<Stmt("add", <<"OUT", "v">>)>>
IfThen(p, b) == <<Opener("if", p)>> \o b \o <<Close>>
Else(b) == IF b = <<>> THEN <<>> ELSE <<Cuddled("else", Empty)>> \o b
Ladder(p, b, q, d, e) ==
  <<Opener("if", p)>> \o b \o <<Cuddled("elseif", q)>> \o d \o Else(e) \o <<Close>>
Both(p, q) == And(<<p, q>>)
Service(path, src) == [path |-> path, src |-> <<Stmt("decl", <<>>)>> \o src, defines |-> [n \in {} |-> Empty],
                       helpers |-> <<>>, externals |-> <<>>]

Update == Sql("s1", "UPDATE", "T")
One == Sql("s2", "SELECT", "T")
Other == Sql("s3", "SELECT", "T")
H == Eq("c", "H")
F == Eq("c", "F")
Guarded(g) == Service("svc.pc", GetIn \o Ladder(Both(H, g), Update \o One \o Add, F, Other \o Add, <<>>))
Twice == Service("svc.pc", Ladder(Both(H, Eq("d", "K")), Other \o Add, Or(<<F, Both(H, x)>>),
                                  Update \o Sql("s4", "SELECT", "T") \o Add, Update \o Add))
Foreign == Service("other.pc", GetIn \o Ladder(Both(H, Eq("d", "K")), One \o Add, F, Update \o Add, <<>>))
Undirected == Service("flat.pc", IfThen(x, GetIn \o Other \o Add) \o IfThen(Ident("v"), GetIn \o Update \o Add)
                                 \o IfThen(Ident("d"), <<Stmt("call", <<"trace">>)>>))
Shared == Service("svc.pc", GetIn \o Sql("s0", "SELECT", "T") \o Ladder(H, Update \o Add, F, Other \o Add, <<>>))

MCFiles == CASE Menu = "all" -> {Guarded(Eq("d", "K")), Twice, Undirected}
             [] Menu = "shared" -> {Shared}
             [] OTHER -> {Undirected}
MCEditions == [f \in MCFiles \cup {Guarded(x), Foreign} |->
                 CASE f = Guarded(Eq("d", "K")) -> {Guarded(x), Foreign}
                   [] f = Twice -> {Guarded(Eq("d", "K"))}
                   [] OTHER -> {}]

OnC(v) == Named("Cust" \o v, Endpoint("scenario", <<"c", v>>))
UserMap(endpoints, pins, requests) == [endpoints |-> endpoints, pins |-> pins, requests |-> requests]
MCUserMaps ==
  {UserMap(<<>>, <<>>, <<>>),
   UserMap(<<<<OnC("H")>>>>, <<NoPins>>, <<[v \in {"d"} |-> "Kind"]>>),
   UserMap(<<<<OnC("F"), OnC("H")>>>>, <<[q \in {"q2"} |-> "GetTQuery"]>>, <<[v \in {"x"} |-> "Kind"]>>),
   UserMap(<<<<Named("CustAll", Endpoint("filter", Or(<<H, F>>)))>>>>, <<NoPins>>, <<[v \in {"x", "d"} |-> IF v = "x" THEN "Flag" ELSE "Kind"]>>),
   UserMap(<<<<OnC("H"), Named("CustF", Endpoint("condition", 2))>>>>, <<[q \in {"q1", "q2"} |-> "OneQuery"]>>, <<>>)}
MCFilters == {}
MCStops == {3}

---------------------------------------------------------------------------
CONSTANTS Tuxedo, Tables
VARIABLES part, repoForced, client

PyMenu == INSTANCE MCBatchPy WITH Menu <- "all", Batches <- {}, Tuxedo <- {}, Envs <- {}, Slips <- {}
MCBatches == PyMenu!MCBatches
MCTuxedo == PyMenu!MCTuxedo
MCTables == PyMenu!MCEnvs
B == INSTANCE MCBatchPy WITH Menu <- "all", Envs <- Tables, Slips <- {}

pyVars == <<runVars, repoForced, client>>
NoPy == paths = "" /\ repoForced = "" /\ client = "" /\ results = "" /\ phase = "" /\ turn = "" /\ out = "" /\ firstErr = ""
NoCs == /\ file = "" /\ stage = "" /\ ir = "" /\ mapping = "" /\ resolved = "" /\ plan = "" /\ llm = ""
        /\ resumed = "" /\ bodies = "" /\ at = "" /\ ledger = "" /\ tree = "" /\ result = "" /\ runs = ""
InitCs == part = "cs" /\ CsInit /\ NoPy
InitPy == part = "py" /\ B!BatchInit /\ NoCs
CsStep == part = "cs" /\ CsNext /\ UNCHANGED <<part, pyVars>>
PyStep == part = "py" /\ B!BatchNext /\ UNCHANGED <<part, csVars>>
TargetsSpec == (InitCs \/ InitPy) /\ [][CsStep \/ PyStep]_<<part, csVars, pyVars>>

\* CsConvert: a block of the ledger keeps the guards of the source it is
\* used for.
BlocksKeepGuards == part = "cs" => GuardsStayLive
\* CsConvert: the seven files run what the entry runs.
TreesRunTheEntry == part = "cs" => TreeRunsWhatRuns
\* BatchPy: a module, whatever its shape, runs what the batch ran.
BatchesRunAsBefore == part = "py" => B!ModulesRunTheBatch
============================================================================
