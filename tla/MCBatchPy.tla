----------------------------- MODULE MCBatchPy -----------------------------
(***************************************************************************)
(* Batches with one or two cursors, whose statements are in the cursors'   *)
(* own loops or not covered by them; programs whose main stands behind a   *)
(* helper, a service among batches, and two programs of one service name.  *)
(***************************************************************************)
EXTENDS BatchPy

CONSTANT Menu

MCTuxedo == {"SVC_CUST"}
MCEnvs == [rows : [{"c1", "c2", ""} -> 0 .. 2], over : {1, 2}]

Declare(c, rows) == [k |-> "declare", type |-> "many", text |-> "select " \o c, table |-> "t",
                     cursor |-> c, rows |-> rows, binds |-> <<>>]
Sql(type, table, text, binds) == [k |-> "sql", type |-> type, text |-> text, table |-> table,
                                  cursor |-> "", rows |-> <<>>, binds |-> binds]
Truncate(t) == [k |-> "truncate", text |-> "truncate " \o t]
Loop(c, rows, b) == [k |-> "loop", cursor |-> c, rows |-> rows, body |-> b]
If(b) == [k |-> "if", body |-> b]
Text(n) == [k |-> "text", lines |-> n]
Dropped == [k |-> "dropped"]
Main(b) == [name |-> "main", body |-> b]
Program(base, service, fns) == [base |-> base, service |-> service, fns |-> fns]

RowOf1 == <<"id", "amt">>
RowOf2 == <<"id", "flag">>
Update == Sql("update", "t", "update t", <<"amt", "id">>)
Mark == Sql("update", "t", "mark t", <<"flag", "id">>)
Close == Sql("update", "t", "close t", <<>>)
Reset == Sql("update", "t", "reset t", <<"run">>)
Fill(t) == Sql("insert", t, "insert " \o t, <<>>)
Count == Sql("one", "t", "count t", <<>>)

Rejects == Program("rejects", "", <<Main(<<Dropped, Declare("c1", RowOf1), Loop("c1", RowOf1, <<Update>>)>>)>>)
Both == Program("both", "bat_both", <<Main(<<Declare("c1", RowOf1), Declare("c2", RowOf2), Loop("c1", RowOf1, <<Update>>),
                                           Dropped, Loop("c2", RowOf2, <<Mark>>)>>)>>)
Rebuild == Program("rebuild", "bat_both",
  <<[name |-> "report", body |-> <<Text(1)>>],
    Main(<<Truncate("a"), Fill("a"), Text(16), Truncate("b"), Fill("b"), Declare("c1", RowOf1),
           Loop("c1", RowOf1, <<If(<<Update>>), Loop("", <<>>, <<Count>>)>>), Reset, Close>>)>>)
Running == Program("running", "", <<Main(<<Declare("c1", RowOf1), Loop("c1", RowOf1, <<Text(1), If(<<Update>>)>>)>>)>>)
TwoRebuilds == Program("two", "", <<Main(<<Truncate("a"), Fill("a"), Truncate("b"), Fill("b")>>)>>)
Service == Program("svc", "", <<[name |-> "report", body |-> <<Text(1)>>], [name |-> "SVC_CUST", body |-> <<Update>>]>>)
Unsorted == Program("unsorted", "", <<Main(<<Declare("c1", RowOf1), Declare("c2", RowOf2), Loop("c2", RowOf2, <<Mark>>),
                                             Loop("c1", RowOf1, <<Update>>)>>)>>)

MCBatches == CASE Menu = "all" -> {<<Rejects, Service, Rebuild>>, <<Both, Rejects, Rebuild>>}
               [] Menu = "two rebuilds" -> {<<TwoRebuilds, Rejects, Service>>}
               [] Menu = "running total" -> {<<Running>>}
               [] Menu = "unsorted" -> {<<Unsorted>>}
               [] OTHER -> {<<Rebuild>>}
MCSlips == {Menu} \cap {"class", "flush", "remark"}
============================================================================
