---------------------------- MODULE MCServiceJoin ----------------------------
(* Bounded instance of ServiceJoin: callers that fill, delete from, reset  *)
(* and reuse a send buffer around one or two calls of the service "B", and  *)
(* services that read and write with and without dispatch arms.             *)
EXTENDS ServiceJoin

CONSTANT Menu   \* which callers this run has

Add(b, f, v) == Do(Call("Fadd32", b, f, v))
Get(b, f, v) == Do(Call("Fget32", b, f, v))
Free == Do(Call("tpfree", "s", "", ""))
Calls(svc) == Call("tpcall", svc, "s", "r")
Return == Do(Call("return", "", "", ""))
Log == Do(Call("errlog", "", "", ""))
Fills == {Add("s", "F", "v1"), Add("s", "F", "v2"), Add("s", "G", "v2"),
          Do(Call("Fdel32", "s", "F", "")), Free,
          Do(Call("tpalloc", "s", "assigned", "")), Do(Call("tpalloc", "s", "member", "")),
          Do(Call("memset", "s", "0", ""))}
Fillings == UNION {[1..n -> Fills] : n \in 0..2} \cup {<<Add("s", "F", "v1"), Add("s", "G", "v2"), x>> : x \in Fills}
Reads == {<<Get("r", "R", "a")>>, <<If("allman", Call("Fget32", "r", "S", "b"), "failed", <<Log>>, <<>>), Get("r", "R", "a")>>}

Checked32 == If("allman", Calls("B"), "failed", <<Return>>, <<>>)
Ends(reads) == {<<Do(Calls("B"))>> \o reads, <<Checked32>> \o reads}
\* A call after some filling; the same in an arm; a second call after the first.
Plain == {p \o t : p \in Fillings, t \in UNION {Ends(r) : r \in Reads}}
InArm == {<<If("allman", NoCall, "x", p \o <<Do(Calls("B")), Get("r", "R", "a")>>, <<Get("r", "S", "b")>>)>> : p \in Fillings}
Twice == {<<Add("s", "F", "v1"), Checked32>> \o p \o <<Do(Calls("B")), Get("r", "R", "a")>> : p \in Fillings}
\* The call in an arm after fills in the body, and fills in an arm before it.
Few == {<<>>} \cup {<<f>> : f \in Fills}
CallInArm(p, q) == p \o <<If("allman", NoCall, "x", q \o <<Do(Calls("B")), Get("r", "R", "a")>>, <<>>)>>
FillInArm(p, q) == <<If("allman", NoCall, "x", p, <<>>)>> \o q \o <<Do(Calls("B")), Get("r", "R", "a")>>
Across == {CallInArm(p, q) : p \in Few, q \in Few} \cup {FillInArm(p, q) : p \in Few, q \in Few}
\* The answer fetched later: after it, on success only, or not at all.
Fetch == Call("tpgetrply", "r", "", "")
Later == {<<Do(Fetch), Get("r", "R", "a")>>,
          <<If("allman", Fetch, "failed", <<Return>>, <<>>)>>,
          <<If("allman", NoCall, "x", <<Do(Fetch), Get("r", "R", "a")>>, <<>>)>>,
          <<>>}
Async == {p \o <<Do(Call("tpacall", "B", "s", ""))>> \o q : p \in Few, q \in Later}
Callers == CASE Menu = "all" -> Plain \cup InArm \cup Twice \cup Across \cup Async
             [] Menu = "call in an arm" -> {CallInArm(<<Add("s", "F", "v1")>>, <<>>)}
             [] Menu = "fill in an arm" -> {FillInArm(<<Add("s", "F", "v1")>>, <<>>)}
             [] Menu = "brace on the line" ->
                  {<<Add("s", "F", "v1"), If("kr", Calls("B"), "failed", <<Return>>, <<>>), Get("r", "R", "a")>>}
             [] Menu = "free on error" ->
                  {<<If("allman", Call("Fadd32", "s", "F", "v1"), "failed", <<Free, Return>>, <<>>), Do(Calls("B"))>>}
             [] Menu = "NUL" ->
                  {<<Add("s", "F", "v1"), Do(Call("memset", "s", "NUL", "")), Do(Calls("B"))>>}
             [] OTHER -> {}

Fn(name, service, body) == [name |-> name, service |-> service, body |-> body]
\* A function of the service's file that the service does not call.
Helper == Fn("help", FALSE, <<Get("ibuffer", "F", "w"), Add("obuffer", "R", "z")>>)
In(f, v) == Get("ibuffer", f, v)
Out(f, v) == Add("obuffer", f, v)
Services ==
  {<<In("F", "a"), In("G", "b"), Out("R", "c")>>,
   <<If("allman", Call("Fget32", "ibuffer", "F", "a"), "failed", <<Return>>, <<>>), Out("R", "c")>>,
   <<If("allman", NoCall, "y", <<In("F", "a"), Out("R", "c")>>, <<In("G", "b"), Out("S", "d")>>)>>,
   <<If("bare", NoCall, "y", <<Return>>, <<>>), In("F", "a"), Out("S", "d")>>}
File(path, base, roles, fns) == [path |-> path, base |-> base, roles |-> roles, functions |-> fns]
MCRoles == ("ibuffer" :> "input") @@ ("obuffer" :> "output") @@ ("s" :> "send") @@ ("r" :> "recv")
Caller(body) == File("a.pc", "A", MCRoles, <<Fn("SVC_A", TRUE, body)>>)
Callee(body) == File("b.pc", "B", MCRoles, <<Helper, Fn("SVC_B", TRUE, body)>>)
AnyService == CHOOSE b \in Services : TRUE
\* A call the scanner finds no function around.
Ownerless == File("a.pc", "A", MCRoles, <<Fn("", FALSE, <<Add("s", "F", "v1"), Checked32, Get("r", "R", "a")>>)>>)
\* Callees that are missing, defined twice, or without entry or roles.
Odd(a) == {<<a>>, <<a, Callee(AnyService), File("sub/b.pc", "B", MCRoles, <<Helper>>)>>,
           <<a, File("b.pc", "B", MCRoles, <<Helper>>)>>,
           <<a, File("b.pc", "B", [b \in {} |-> ""], <<Fn("SVC_B", TRUE, AnyService)>>)>>}
MCCorpora ==
  {<<Caller(c), Callee(b)>> : c \in Callers, b \in Services}
  \cup {<<Ownerless, Callee(b)>> : b \in Services}
  \cup UNION {Odd(Caller(<<Add("s", "F", "v1"), Checked32, Get("r", "R", "a")>>))}
MCFlags == {"x", "y"}
=============================================================================
