----------------------------- MODULE PromptView -----------------------------
(***************************************************************************)
(* internal/convert, controllerBody and fnHelperBody: the branch a prompt  *)
(* shows.  One pass after another replaces what has one Go form - SQL, the *)
(* unpack block, error legs, the session check, transactions, helper calls *)
(* - and drops what has none, so that the model copies instead of echoing  *)
(* the legacy spelling.  A pass works on lines; only braceBlockLines looks *)
(* at braces, and a bare if whose line is dropped governs the next one.    *)
(***************************************************************************)
EXTENDS Predicates

\* What a branch of a service and the Go body made from it do when they run:
\* the store calls and helper calls with their arguments, what is packed into
\* the reply, what is committed and rolled back, and how it ends.  A branch
\* is a sequence of statements; a statement that opens a brace holds the
\* statements between its braces, so a list is one level of nesting.  The C
\* library, Tuxedo and Go are external to the code.

\* Pro*C statements.
Sql(q) == [k |-> "sql", q |-> q]
Get(f, t) == [k |-> "get", field |-> f, target |-> t, probed |-> TRUE]
BareGet(f, t) == [Get(f, t) EXCEPT !.probed = FALSE]
InitProbes == [k |-> "init"]
Ferr == [k |-> "ferr"]
\* The check of the unpack block: over the whole array (ix = 0) or one
\* entry; per arm the entry whose FNOTPRES it defaults; "led" when another
\* statement stands before the arms.
Arm(ix, t, v) == [ix |-> ix, target |-> t, val |-> v]
Probe(ix, arms, led) == [k |-> "probe", ix |-> ix, arms |-> arms, led |-> led]
Ssn(t) == [k |-> "ssn", target |-> t]
Set(t, v) == [k |-> "set", target |-> t, val |-> v]
Decl(t) == [k |-> "decl", target |-> t]
ErrLog(c) == [k |-> "errlog", code |-> c]
ErrAdd(e) == [k |-> "erradd", expr |-> e]
Add(f, t) == [k |-> "add", field |-> f, target |-> t]
Begin(h) == [k |-> "begin", target |-> h]
\* guard: "none", "braced" or "bare", how a failing commit is handled.
Commit(g) == [k |-> "commit", guard |-> g]
Abort == [k |-> "abort"]
Scaffold == [k |-> "scaffold"]
Comment == [k |-> "comment"]
CopyName == [k |-> "strcpy"]
Fn(f, args) == [k |-> "fn", fn |-> f, args |-> args]
Ret(st) == [k |-> "ret", st |-> st]
\* An if with its else; a bare one governs a single statement, no braces.
If(c, body, els) == [k |-> "if", cond |-> c, body |-> body, els |-> els, braced |-> TRUE]
BareIf(c, body) == [If(c, body, <<>>) EXCEPT !.braced = FALSE]
Failed(t) == Cmp(Ident(t), "==", Num("-1"))

\* Statements of the view and of a Go body.
StoreCall(q, name, tx, args) == [k |-> "call", q |-> q, name |-> name, tx |-> tx,
                                 args |-> args, cap |-> "", nth |-> 0]
Read(f, t) == [k |-> "read", field |-> f, target |-> t]
Method(f, args) == [k |-> "method", fn |-> f, args |-> args]
SetErr(c) == [k |-> "seterr", code |-> c]          \* errors.New("S31005")
SetErrFrom(t) == [k |-> "seterrfrom", expr |-> t]  \* fmt.Errorf("%s", t)
TxOpen == [k |-> "txopen"]
TxClose == [k |-> "txclose"]

\* The statements of a list with those inside its blocks.
RECURSIVE All(_)
All(b) == UNION {{b[i]} \cup (IF b[i].k = "if" THEN All(b[i].body) \cup All(b[i].els) ELSE {})
                 : i \in DOMAIN b}

RECURSIVE SubTrees(_)
SubTrees(e) == {e} \cup UNION {SubTrees(e.items[i]) : i \in DOMAIN e.items}
IdentsOf(e) == {x.text : x \in {y \in SubTrees(e) : y.kind = "ident"}}

---------------------------------------------------------------------------
\* queries gives what a statement of the database binds, sigs the formal
\* parameters of a helper that its Go method has.
Result(env) == [env |-> env, did |-> <<>>, err |-> "0", tx |-> "", probes |-> <<>>, ret |-> ""]
Did(r, e) == [r EXCEPT !.did = Append(@, e)]
Bind(r, t, v) == [r EXCEPT !.env = [x \in DOMAIN @ \cup {t} |-> IF x = t THEN v ELSE @[x]]]
Val(r, t) == IF t \in DOMAIN r.env THEN r.env[t] ELSE "0"
Vals(r, ts) == [i \in DOMAIN ts |-> Val(r, ts[i])]
Leave(r, st) ==
  [IF r.tx = "closure" THEN Did(r, <<IF st = "ok" THEN "commit" ELSE "rollback">>) ELSE r
   EXCEPT !.ret = st]

Unpacked(r, n) ==
  LET there == Val(r, n.field) # "0"
      probes == IF n.probed THEN Append(r.probes, there) ELSE r.probes
      got == IF there THEN Bind(r, n.target, r.env[n.field]) ELSE r
  IN [got EXCEPT !.probes = probes]
\* The first absent entry nobody defaults ends the service.
Checked(r, n) ==
  LET absent == {i \in DOMAIN r.probes : ~r.probes[i] /\ n.ix \in {0, i}}
      armOf(i) == {a \in DOMAIN n.arms : n.arms[a].ix = i}
      set == [t \in {n.arms[a].target : a \in UNION {armOf(i) : i \in absent}} |->
                n.arms[CHOOSE a \in UNION {armOf(i) : i \in absent} : n.arms[a].target = t].val]
  IN IF \E i \in absent : armOf(i) = {} THEN Leave(r, "unpack")
     ELSE [r EXCEPT !.env = [x \in DOMAIN @ \cup DOMAIN set |->
                               IF x \in DOMAIN set THEN set[x] ELSE @[x]]]

RECURSIVE Exec(_, _, _)
Do(n, r, lib) ==
  CASE n.k = "sql" -> LET q == lib.queries[n.q] IN
         Did(r, <<"call", n.q, IF r.tx = "" THEN "" ELSE "tx">> \o Vals(r, q.args))
    [] n.k = "call" -> Did(r, <<"call", n.q, IF r.tx = "" THEN "" ELSE "tx">> \o Vals(r, n.args))
    [] n.k = "get" -> Unpacked(r, n)
    [] n.k = "read" -> Bind(r, n.target, Val(r, n.field))
    [] n.k = "init" -> [r EXCEPT !.probes = <<>>]
    [] n.k = "probe" -> Checked(r, n)
    [] n.k = "ssn" -> Bind(r, n.target, "0")
    [] n.k = "set" -> Bind(r, n.target, n.val)
    [] n.k = "errlog" -> Bind(r, "c_errmsg", n.code)
    [] n.k \in {"erradd", "seterrfrom"} -> [r EXCEPT !.err = Val(r, n.expr)]
    [] n.k = "seterr" -> [r EXCEPT !.err = n.code]
    [] n.k \in {"add", "append"} -> Did(r, <<"add", n.field, Val(r, n.target)>>)
    [] n.k = "begin" -> [Bind(r, n.target, "0") EXCEPT !.tx = "open"]
    [] n.k = "txopen" -> [r EXCEPT !.tx = "closure"]
    [] n.k \in {"commit", "txclose"} /\ r.tx # "" -> [Did(r, <<"commit">>) EXCEPT !.tx = ""]
    [] n.k = "abort" /\ r.tx # "" -> [Did(r, <<"rollback">>) EXCEPT !.tx = ""]
    [] n.k = "fn" -> Did(r, <<"fn", n.fn>> \o
         Vals(r, IF n.fn \in DOMAIN lib.sigs
                 THEN [i \in 1..Len(lib.sigs[n.fn].kept) |-> n.args[lib.sigs[n.fn].kept[i]]]
                 ELSE SelectSeq(n.args, LAMBDA a : a \notin lib.session)))
    [] n.k = "method" -> Did(r, <<"fn", n.fn>> \o Vals(r, n.args))
    [] n.k = "ret" -> Leave(r, n.st)
    [] n.k = "if" -> IF Holds(n.cond, r.env) THEN Exec(n.body, r, lib) ELSE Exec(n.els, r, lib)
    [] OTHER -> r
Exec(b, r, lib) == IF b = <<>> \/ r.ret # "" THEN r ELSE Exec(Tail(b), Do(Head(b), r, lib), lib)

\* What a caller of the service can tell.
Outcome(r) == [did |-> r.did, ret |-> r.ret, err |-> IF r.ret = "fail" THEN r.err ELSE "0"]
Run(b, env, lib) == Outcome(Exec(b, Result(env), lib))

---------------------------------------------------------------------------
\* sessionArgNames and errBufferNames.
SessionArgs == {"c_ServiceName", "c_errmsg", "c_user_id", "li_session_id"}
ErrBuffers == {"c_errmsg"}

---------------------------------------------------------------------------
\* Every pass but the ones that look ahead maps one line to some lines.
\* A bare if that lost its statement takes the next one.
RECURSIVE Adopt(_), Lines(_, _)
Adopt(b) ==
  IF Len(b) < 2 THEN b
  ELSE IF b[1].k = "if" /\ ~b[1].braced /\ b[1].body = <<>>
  THEN <<[b[1] EXCEPT !.body = <<b[2]>>]>> \o Adopt(SubSeq(b, 3, Len(b)))
  ELSE <<b[1]>> \o Adopt(Tail(b))
\* Op(n) is what a line that opens no block becomes.
Lines(Op(_), b) ==
  LET of(n) == IF n.k = "if" THEN <<[n EXCEPT !.body = Lines(Op, n.body), !.els = Lines(Op, n.els)]>>
               ELSE Op(n)
  IN Adopt(FlattenSeq([i \in DOMAIN b |-> of(b[i])]))

\* The index of the line that ends the first brace block opened at or after
\* i, 0 when the enclosing block ends first.
RECURSIVE BlockEnd(_, _, _)
BlockEnd(b, i, depth) ==
  IF i > Len(b) THEN 0
  ELSE LET n == b[i]
           braced == n.k = "probe" \/ (n.k = "if" /\ n.braced) \/ (n.k = "commit" /\ n.guard = "braced")
           d == CASE n.k = "txopen" -> depth + 1 [] n.k = "txclose" -> depth - 1 [] OTHER -> depth
       IN IF d < 0 THEN 0
          ELSE IF d = 0 /\ (braced \/ n.k = "txclose") THEN i
          ELSE BlockEnd(b, i + 1, d)
braceBlockLines(b, i) == BlockEnd(b, i, 0)
Rest(b, i) == SubSeq(b, i + 1, Len(b))

---------------------------------------------------------------------------
\* budget.ReplaceQueries: every region has a resolved call, or the unit fails.
Resolvable(b, calls) == \A n \in All(b) : n.k = "sql" => n.q \in DOMAIN calls
ReplaceQueries(b, calls) ==
  Lines(LAMBDA n : IF n.k = "sql"
                   THEN LET c == calls[n.q] IN <<StoreCall(n.q, c.name, c.tx, c.args)>>
                   ELSE <<n>>, b)
stripDeadComments(b) == Lines(LAMBDA n : IF n.k = "comment" THEN <<>> ELSE <<n>>, b)

---------------------------------------------------------------------------
\* rewriteSeamLine: what a line becomes under the S-code of the line before.
SeamLine(n, reqMap, code) ==
  CASE n.k = "get" /\ n.field \in reqMap -> <<Read(n.field, n.target)>>
    [] n.k = "erradd" -> <<IF code # "" /\ n.expr \in ErrBuffers THEN SetErr(code)
                           ELSE SetErrFrom(n.expr)>>
    [] n.k = "ssn" -> <<Set(n.target, "0")>>
    [] OTHER -> <<n>>
\* identUsedElsewhere: declarations and = 0 are bookkeeping, not uses.
Mentions(n, t) ==
  \/ n.k \in {"ssn", "read", "get"} /\ n.target = t
  \/ n.k = "set" /\ n.target = t /\ n.val # "0"
  \/ n.k = "add" /\ n.target = t
  \/ n.k = "erradd" /\ n.expr = t
  \/ n.k \in {"call", "fn", "method"} /\ \E i \in DOMAIN n.args : n.args[i] = t
  \/ n.k = "if" /\ \E e \in SubTrees(n.cond) : e = Ident(t)
identUsedElsewhere(all, block, t) == \E n \in all \ All(block) : Mentions(n, t)

deadSessionGuard(b, i, t) ==
  IF i <= Len(b) /\ b[i].k = "if" /\ b[i].cond = Failed(t) THEN braceBlockLines(b, i) ELSE 0

RECURSIVE Seams(_, _, _, _)
rewriteLegacySeams(b, reqMap) == Seams(b, "", reqMap, All(b))
Seams(b, code, reqMap, all) ==
  IF b = <<>> THEN <<>>
  ELSE LET n == b[1]
           end == IF n.k = "ssn" THEN deadSessionGuard(b, 2, n.target) ELSE 0
           inner(x) == Seams(x, "", reqMap, all)
       IN CASE n.k = "errlog" -> <<n>> \o Seams(Tail(b), n.code, reqMap, all)
            [] n.k = "if" -> <<[n EXCEPT !.body = inner(@), !.els = inner(@)]>> \o inner(Tail(b))
            [] end # 0 -> (IF identUsedElsewhere(all, SubSeq(b, 1, end), n.target)
                           THEN <<Set(n.target, "0")>> ELSE <<>>) \o inner(Rest(b, end))
            [] OTHER -> SeamLine(n, reqMap, code) \o inner(Tail(b))

---------------------------------------------------------------------------
\* rewriteTxTemplate: begin and commit become the two ends of the wrapper,
\* a commit guard and its block too, aborts go; then the handle's lines.
RECURSIVE TxLines(_), WithoutHandles(_, _)
TxLines(b) ==
  IF b = <<>> THEN <<>>
  ELSE LET n == b[1]
           end == IF n.k = "commit" /\ n.guard # "none" THEN braceBlockLines(b, 1) ELSE 1
       IN CASE n.k = "begin" -> <<TxOpen>> \o TxLines(Tail(b))
            [] n.k = "commit" /\ end # 0 -> <<TxClose>> \o TxLines(Rest(b, end))
            [] n.k = "abort" -> TxLines(Tail(b))
            [] n.k = "if" -> <<[n EXCEPT !.body = TxLines(@), !.els = TxLines(@)]>> \o TxLines(Tail(b))
            [] OTHER -> <<n>> \o TxLines(Tail(b))
WithoutHandles(b, hs) ==
  IF b = <<>> THEN <<>>
  ELSE LET n == b[1]
           end == IF n.k = "if" /\ \E h \in hs : n.cond = Failed(h) THEN braceBlockLines(b, 1) ELSE 0
       IN CASE end # 0 -> WithoutHandles(Rest(b, end), hs)
            [] ((n.k = "set" /\ n.val = "0") \/ n.k = "decl") /\ n.target \in hs ->
                 WithoutHandles(Tail(b), hs)
            [] n.k = "if" -> <<[n EXCEPT !.body = WithoutHandles(@, hs), !.els = WithoutHandles(@, hs)]>>
                             \o WithoutHandles(Tail(b), hs)
            [] OTHER -> <<n>> \o WithoutHandles(Tail(b), hs)
rewriteTxTemplate(b) ==
  Adopt(WithoutHandles(TxLines(b), {n.target : n \in {m \in All(b) : m.k = "begin"}}))

---------------------------------------------------------------------------
\* stripFMLProbes.  fields is what the reads of the unpack block filled, ""
\* for one that stayed legacy; it lasts from INIT to the check.
NoBlock == [fields |-> <<>>, on |-> FALSE]
Collected(p, n) ==
  IF ~p.on THEN p
  ELSE CASE n.k = "read" -> [p EXCEPT !.fields = Append(@, n.field)]
         [] n.k = "get" /\ n.probed -> [p EXCEPT !.fields = Append(@, "")]
         [] OTHER -> p
\* The fallbacks of a check as Go presence guards.  A check whose body does
\* not start with its arms is taken for unpack plumbing.
Expressible(n, fields) ==
  n.led \/ \A a \in DOMAIN n.arms : n.arms[a].ix <= Len(fields) /\ fields[n.arms[a].ix] # ""
rewriteProbeBlock(n, fields) ==
  IF n.led THEN <<>>
  ELSE [a \in DOMAIN n.arms |-> If(Cmp(Ident(fields[n.arms[a].ix]), "==", Str("")),
                                   <<Set(n.arms[a].target, n.arms[a].val)>>, <<>>)]
RECURSIVE Elide(_, _)
Elide(b, p) ==
  IF b = <<>> THEN [out |-> <<>>, p |-> p]
  ELSE LET n == b[1]
           then(out, q) == LET r == Elide(Tail(b), q) IN [r EXCEPT !.out = out \o @]
       IN CASE n.k = "init" -> then(<<>>, [fields |-> <<>>, on |-> TRUE])
            [] n.k = "ferr" -> then(<<>>, p)
            [] n.k = "probe" -> then(IF Expressible(n, p.fields) THEN rewriteProbeBlock(n, p.fields)
                                     ELSE <<n>>, NoBlock)
            [] n.k = "if" -> LET x == Elide(n.body, p)  y == Elide(n.els, x.p)
                             IN then(<<[n EXCEPT !.body = x.out, !.els = y.out]>>, y.p)
            [] OTHER -> then(<<n>>, Collected(p, n))
stripFMLProbes(b) == Elide(b, NoBlock).out

---------------------------------------------------------------------------
\* Calls of functions with no source lose the arguments the middleware owns,
\* calls of the file's own helpers those their Go method does not have.
stripSessionArgs(b, stubs) ==
  Lines(LAMBDA n : CASE stubs # {} /\ n.k = "strcpy" -> <<>>
                     [] n.k = "fn" /\ n.fn \in stubs ->
                          <<[n EXCEPT !.args = SelectSeq(@, LAMBDA a : a \notin SessionArgs)]>>
                     [] OTHER -> <<n>>, b)
\* helperSignature: the positions of the formal parameters that stay.
HelperDropParams == SessionArgs \ {"c_user_id"}
helperSignature(formals) ==
  SelectSeq([i \in DOMAIN formals |-> i], LAMBDA i : formals[i] \notin HelperDropParams)
Params(formals) == SelectSeq(formals, LAMBDA p : p \notin HelperDropParams)
\* A variant of the call spelling that forgets what the signature kept.
helperCallByName(params, args) == SelectSeq(args, LAMBDA a : a \notin SessionArgs)
helperCallSpelling(params, args) ==
  SelectSeq(args, LAMBDA a : a \notin SessionArgs \/ \E i \in DOMAIN params : params[i] = a)
rewriteHelperCalls(b, helpers) ==
  Lines(LAMBDA n : IF n.k = "fn" /\ n.fn \in DOMAIN helpers
                   THEN <<Method(n.fn, helperCallSpelling(Params(helpers[n.fn]), n.args))>> ELSE <<n>>, b)

stripLegacyScaffold(b) ==
  Lines(LAMBDA n : IF n.k \in {"scaffold", "errlog"} THEN <<>> ELSE <<n>>, b)
RECURSIVE stripPreludeDecls(_)
stripPreludeDecls(b) ==
  IF b # <<>> /\ b[1].k = "decl" THEN stripPreludeDecls(Tail(b)) ELSE b
\* The names defined in front of the end of the branch, by their values.
inlineLegacyConstants(b, defines) ==
  LET RECURSIVE in(_)
      in(x) == [i \in DOMAIN x |->
                 IF x[i].k = "if" THEN [x[i] EXCEPT !.cond = Substitute(@, defines),
                                        !.body = in(@), !.els = in(@)]
                 ELSE x[i]]
  IN in(b)

---------------------------------------------------------------------------
\* assignStoreCalls: what each call returns to; the nth of a method gets a
\* suffix.
RECURSIVE Captured(_, _, _)
Captured(b, shape, used) ==
  IF b = <<>> THEN [out |-> <<>>, used |-> used]
  ELSE LET n == b[1]
           then(m, u) == LET r == Captured(Tail(b), shape, u) IN [r EXCEPT !.out = <<m>> \o @]
       IN CASE n.k = "call" ->
                 LET s == shape[n.name]
                     key == <<n.name, s>>
                 IN IF s = "error" THEN then([n EXCEPT !.cap = s], used)
                    ELSE then([n EXCEPT !.cap = s, !.nth = Len(SelectSeq(used, LAMBDA u : u = key)) + 1],
                              Append(used, key))
            [] n.k = "if" -> LET x == Captured(n.body, shape, used)  y == Captured(n.els, shape, x.used)
                             IN then([n EXCEPT !.body = x.out, !.els = y.out], y.used)
            [] OTHER -> then(n, used)
assignStoreCalls(b, shape) == Captured(b, shape, <<>>).out
===============================================================================
