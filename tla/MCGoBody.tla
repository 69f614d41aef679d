------------------------------ MODULE MCGoBody ------------------------------
(***************************************************************************)
(* Every text of up to three lines over a menu of lines, as an endpoint    *)
(* under two preambles, four lines over a smaller one, and helper texts    *)
(* with blocks around their calls.                                         *)
(***************************************************************************)
EXTENDS GoBody

FnTable ==
  [hs |-> [sort |-> "helper", int |-> TRUE, formals |-> <<"h1">>],
   hv |-> [sort |-> "helper", int |-> FALSE, formals |-> <<"h2">>],
   st |-> [sort |-> "stub", int |-> TRUE, formals |-> <<>>],
   self |-> [sort |-> "helper", int |-> TRUE, formals |-> <<"h1">>],
   lib |-> [sort |-> "lib", int |-> TRUE, formals |-> <<>>]]

\* The request field F1, which h1 is read from, has h4's Go spelling; the name
\* of the reply field R5 contains h2's.
Spellings == {<<"h4", "F1">>}
Likeness == {<<"h2", "R5">>}
Numbers == {"h3"}

GetOf(h, f) == [op |-> "get", host |-> h, field |-> f]
ReadOf(q, shape, binds, into) == [op |-> "read", q |-> q, shape |-> shape, binds |-> binds, into |-> into]
DmlOf(q, binds, inTx, merge) == [op |-> "dml", q |-> q, binds |-> binds, tx |-> inTx, merge |-> merge]
AddOf(f, h, reply) == [op |-> "add", field |-> f, host |-> h, reply |-> reply]
CallOf(fn, actuals) == [op |-> "call", fn |-> fn, actuals |-> actuals]
CopyOf(h, from) == [op |-> "copy", host |-> h, from |-> from]
If(to, cond) == [op |-> "if", to |-> to, cond |-> cond]
Loop(to, cond) == [op |-> "loop", to |-> to, cond |-> cond]
Tp == [op |-> "tpcall"]
Log == [op |-> "log"]
Err == [op |-> "error", host |-> "msg"]
Slot == [op |-> "slot"]
Return(v) == [op |-> "return", value |-> v]

One == ReadOf("one", "single", <<"h1">>, <<"h2">>)
Other == ReadOf("other", "single", <<"h1">>, <<"h6">>)
Many == ReadOf("many", "rows", <<"h2">>, <<"h3">>)
Again == ReadOf("again", "single", <<"h2">>, <<"h2">>)
Count == ReadOf("count", "scalar", <<"h1">>, <<"h7">>)
Change == DmlOf("change", <<"h1", "h2">>, TRUE, FALSE)
Change2 == DmlOf("change2", <<"h3">>, TRUE, FALSE)
Merge == DmlOf("merge", <<"h1">>, TRUE, TRUE)
Plain == DmlOf("plain", <<"h4">>, FALSE, FALSE)

EndpointLines ==
  {GetOf("h1", "F1"), GetOf("h1", "F2"), GetOf("h2", "F2"), CopyOf("h4", "h1"), CopyOf("h5", "h2"),
   One, Other, Again, Many, Count, Change, Change2, Merge, Plain,
   CallOf("hs", <<"h1">>), CallOf("hs", <<"h6">>), CallOf("hv", <<"h2">>), CallOf("st", <<>>), CallOf("lib", <<>>), Tp,
   AddOf("R1", "h2", TRUE), AddOf("R2", "h3", TRUE), AddOf("R5", "h5", TRUE), AddOf("R4", "h1", FALSE), AddOf("R1", "h6", FALSE)}

\* A smaller menu, for longer texts.
CoreLines ==
  {CopyOf("h5", "h2"), One, Other, Many, Count, Change, CallOf("hs", <<"h1">>), AddOf("R1", "h2", TRUE),
   AddOf("R6", "h6", TRUE), AddOf("R5", "h5", TRUE)}

\* Longer texts have a preamble of their own.
Preambles == {<<>>, <<GetOf("h1", "F1"), GetOf("h6", "F2")>>, <<GetOf("h1", "F1")>>}

Sources == [1 .. 4 -> CoreLines] \cup UNION {[1 .. n -> EndpointLines] : n \in 1 .. 3}

Endpoint(preamble, src) ==
  [sort |-> "endpoint", name |-> "", params |-> <<>>, preamble |-> preamble, src |-> src,
   home |-> [l \in DOMAIN src |-> l]]

Endpoints == {Endpoint(t[1], t[2]) :
                t \in {t \in Preambles \X Sources : Len(t[1]) = 1 <=> Len(t[2]) = 4}}

HelperOf(params, int, src) ==
  [sort |-> "helper", name |-> "self", int |-> int, params |-> params, preamble |-> <<>>, src |-> src,
   home |-> [l \in DOMAIN src |-> l]]

HelperCallLines ==
  {One, Many, Count, Change, Change2, Plain, CallOf("hs", <<"h1">>), CallOf("hv", <<"h2">>), CallOf("self", <<"h1">>), Tp}

Shapes(a, b) ==
  {<<a>>, <<a, b>>, <<a, b, Return(1)>>, <<a, b, Tp, Return(0)>>,
   <<If(2, "plain"), a, b>>, <<a, If(3, "plain"), b>>, <<Loop(3, "plain"), a, b>>,
   <<If(4, "plain"), Loop(3, "plain"), a, b>>, <<a, If(4, "SQLCODE !="), Log, Return(-1), b>>,
   <<a, If(3, "SQLCODE !="), b>>, <<If(4, "plain"), a, If(4, "SQLCODE !="), Return(-1), b>>,
   <<If(2, "DEBUG"), Log, a, b>>, <<If(3, "Fget32"), Err, Return(-1), a, b>>,
   <<If(3, "plain"), a, If(3, "DEBUG"), b>>,
   <<Loop(3, "plain"), Slot, a, b>>, <<If(4, "plain"), Loop(4, "plain"), If(4, "slot"), a, b>>,
   <<Loop(4, "plain"), Loop(3, "plain"), Slot, a, b>>, <<Loop(3, "FETCH"), Slot, a, b>>}

Helpers ==
  {HelperOf(t[1], t[2], src) : t \in {<<<<"h1">>, TRUE>>, <<<<"h1", "h2">>, TRUE>>, <<<<"h1">>, FALSE>>},
                               src \in UNION {Shapes(a, b) : a, b \in HelperCallLines}}

\* The last statement has its text before the helper, or after it, in the file.
Shared ==
  {[HelperOf(<<"h1">>, TRUE, <<a, If(3, "plain"), b>>) EXCEPT !.home = <<1, 2, l>>]
   : a \in HelperCallLines, b \in {One, Many, Plain}, l \in {0, 9}}

MCUnits == Endpoints \cup Helpers \cup Shared
=============================================================================
