----------------------------- MODULE MCAnalysis -----------------------------
(***************************************************************************)
(* One run over what is read off the sources before anything is generated, *)
(* two specifications side by side: corpora of services that call each     *)
(* other (MCServiceJoin), and services under conversion (Planning), whose  *)
(* entry dispatches on c in different layouts, whose arms run queries      *)
(* (some with the same text, some on one table), call helpers, functions   *)
(* defined elsewhere and services, or which have no axis and are discovered.*)
(***************************************************************************)
EXTENDS Planning

CONSTANT Menu   \* which services this run plans

MCNames == <<"c", "d", "v", "x">>
NoDefines == [n \in {} |-> Empty]
MCEnvs == {[c |-> c, d |-> d, x |-> x, v |-> IF d = "K" THEN "0" ELSE "1"] :
             c \in {"H", "F", "Z"}, d \in {"K", "L"}, x \in {"0", "1"}}

---------------------------------------------------------------------------
x == Ident("x")
Eq(n, v) == Cmp(Ident(n), "==", Chr(v))
Runs1(name) == <<Stmt("call", <<name>>)>>
Sql(text, verb, table) == <<Stmt("sql", <<text, verb, "v", table>>)>>
Get == <<Stmt("get", <<"IN", "v">>)>>
Add == <<Stmt("add", <<"OUT", "v">>)>>
Trap == <<Stmt("add", <<"FML_ERR_MSG", "v">>)>> \o Runs1("tpfail") \o <<Return>>
Success == Runs1("tpsuccess") \o <<Return>>
TpCall(service) == <<Stmt("tpcall", <<service>>)>>
Tx(b) == Runs1("tpbegin") \o b \o Runs1("tpcommit")
IfThen(p, b) == <<Opener("if", p)>> \o b \o <<Close>>
Loop(b) == <<Opener("while", x)>> \o b \o <<Close>>
Else(b) == IF b = <<>> THEN <<>> ELSE <<Cuddled("else", Empty)>> \o b
Ladder(p, b, q, d, e) ==
  <<Opener("if", p)>> \o b \o <<Cuddled("elseif", q)>> \o d \o Else(e) \o <<Close>>
OnC(a, b, e) == Ladder(Eq("c", "H"), a, Eq("c", "F"), b, e)
OnD(a, b) == Ladder(Eq("d", "K"), a, Eq("d", "L"), b, <<>>)

\* Helper functions below the entry, and functions of other files.
Fn(name, go, src, readable) == [name |-> name, go |-> go, src |-> src, readable |-> readable]
Helpers == <<Fn("fn_a", "FnA", Sql("s1", "UPDATE", "T") \o Runs1("fn_b") \o Runs1("fn_ext"), TRUE),
             Fn("fn_b", "FnB", Sql("s9", "UPDATE", "U"), TRUE), Fn("fnB", "FnB", Runs1("fn_b"), TRUE),
             Fn("fn_macro", "FnMacro", Sql("s8", "SELECT", "T"), FALSE),
             Fn("fn_dead", "FnDead", Sql("s7", "SELECT", "T"), TRUE)>>
Elsewhere(name, found, sqls) == [name |-> name, resolved |-> found, sqls |-> sqls]
Externals == <<Elsewhere("chk_session", FALSE, <<>>), Elsewhere("fn_ext", FALSE, <<>>),
               Elsewhere("fn_pure", TRUE, <<>>), Elsewhere("fn_begintran", FALSE, <<>>),
               Elsewhere("fn_lib", TRUE, <<[verb |-> "SELECT", table |-> "T"], [verb |-> "INSERT", table |-> "T"]>>)>>
Service(src) == [src |-> <<Stmt("decl", <<>>)>> \o src, defines |-> NoDefines,
                 helpers |-> Helpers, externals |-> Externals]

TxArm == Tx(Sql("s1", "UPDATE", "T")) \o Add
Arms == {TxArm, Sql("s2", "SELECT", "Tq3") \o Sql("s6", "SELECT", "T") \o Runs1("fn_a"),
         Runs1("fn_lib") \o Runs1("fnB") \o Runs1("fn_macro") \o Add,
         Get \o TpCall("SVC") \o Runs1("fn_ext") \o Add,
         OnD(Sql("s3", "DELETE", "T") \o Add, Sql("s1", "UPDATE", "T") \o Runs1("chk_session") \o Runs1("fn_pure")),
         <<>>}
\* The trap of the default ends some of them, a call of a service others.
Dispatching ==
  {Service(Get \o Sql("s0", "SELECT", "T") \o OnC(a, b, e) \o
           IF e = Trap THEN Add ELSE IfThen(x, TpCall("SVC")) \o Runs1("fn_begintran")) :
     a \in Arms \ {TxArm}, b \in Arms \ {<<>>}, e \in {<<>>, Trap}}

\* No axis: the blocks that answer are the endpoints.
Blocks == {Get \o Add \o Success, Get \o Trap, Add, Get \o Sql("s4", "SELECT", "U") \o Add}
Nested == {IfThen(x, a) \o IfThen(Ident("v"), b) : a \in Blocks, b \in Blocks \ {Add}}
Guarded == {IfThen(Ident("v"), Runs1("fn_b") \o IfThen(x, a) \o <<Return>>) \o IfThen(x, Get \o Add) : a \in Blocks}
Undirected ==
  {Service(Get \o Ladder(x, a, Ident("v"), b, <<>>) \o Sql("s5", "SELECT", "T") \o Success) :
     a \in Nested \cup Guarded, b \in {Add, Get \o Add \o Success}}

\* A block inside a loop of the entry has a key no command can resolve.
InLoop == {Service(Loop(IfThen(x, Get \o Add \o Success)))}

MCFiles == CASE Menu = "all" -> Dispatching \cup Undirected
             [] Menu = "loop" -> InLoop
             [] OTHER -> {}
MCFilters == {Or(<<Eq("c", "H"), Eq("c", "F")>>), And(<<Eq("c", "H"), Eq("d", "K")>>)}

---------------------------------------------------------------------------
VARIABLES part, corpus, irs        \* the last two of ServiceJoin

\* The menu needs none of the constants it gives values to.
JoinMenu == INSTANCE MCServiceJoin WITH Corpora <- {}, Flags <- {}
Corpora == JoinMenu!MCCorpora
Flags == JoinMenu!MCFlags
J == INSTANCE MCServiceJoin

ofJoin == <<corpus, irs>>
ofPlan == <<file, ir, mapping, resolved, plan>>
InitJoin == /\ part = "join" /\ J!Init
            /\ file = "" /\ ir = "" /\ mapping = "" /\ resolved = "" /\ plan = ""
InitPlan == part = "plan" /\ Init /\ corpus = "" /\ irs = ""
JoinStep == part = "join" /\ J!Next /\ UNCHANGED <<part, ofPlan>>
PlanStep == part = "plan" /\ Next /\ UNCHANGED <<part, ofJoin>>
BothSpec == (InitJoin \/ InitPlan) /\ [][JoinStep \/ PlanStep]_<<part, stage, ofJoin, ofPlan>>

\* ServiceJoin, for calls whose operations stand in the call's own block
\* (InItsBlock): what a call is said to send is what its buffer then holds, an
\* ambiguous one sends and reads nothing, and the findings of a join are the
\* reads nothing answers.
JoinsAreTrue ==
  part = "join" => J!SendIsTheBuffer /\ J!AmbiguousIsEmpty /\ J!IssuesAreTheMissingReads
\* Planning: the keys of a draft name the blocks they describe.
KeysNameTheirBlocks == part = "plan" => DraftNamesItsBlocks
\* Planning: what an endpoint's inputs make the entry execute is planned.
PlannedIsWhatRuns == part = "plan" => PlanHasWhatRuns
\* Planning: a write in a transaction is generated with it.
WritesKeepTheirTx == part = "plan" => TransactionKept
=============================================================================
