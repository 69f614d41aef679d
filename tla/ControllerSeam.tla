--------------------------- MODULE ControllerSeam ---------------------------
(***************************************************************************)
(* controllerBody of internal/convert from the branch to the verdict on a  *)
(* reply: the passes over the view in their order, then a reply of the     *)
(* model, its repairs and the gate.  The model is external: it may copy    *)
(* the view faithfully, repeat the header of its arm, or make one slip.    *)
(***************************************************************************)
EXTENDS PromptView

---------------------------------------------------------------------------
\* What is done to a reply before it is a controller body.  The repairs of
\* repairControllerBody, then the gates: it parses and uses no name, rune or
\* result it may not, it has every call of the view and the transaction of the
\* plan, no empty branch, and the conditions of the branch (census) or of the
\* slice (guards).  A gate is the set of its notes; a body is accepted when
\* there is none.
\* A reply: statements, after the header of another arm the model repeats
\* (lead is "", "if" or "else", the header governing the first count of them).
Reply(lead, cond, body, tail) == [lead |-> lead, cond |-> cond, body |-> body, tail |-> tail]
Appended(f, t) == [k |-> "append", field |-> f, target |-> t]
Var(t) == [k |-> "var", target |-> t]

\* The statements of the runtime that tuxedoCallRe and tuxedoRefRe know by
\* name; calls of C functions a Go body does not declare.
LegacyKinds == {"sql", "get", "ferr", "probe", "ssn", "errlog", "erradd", "add", "scaffold"}
CCalls == {"init", "begin", "commit", "abort", "strcpy"}

Conds(b) == {n.cond : n \in {m \in All(b) : m.k = "if"}}

---------------------------------------------------------------------------
\* fixRuneLiterals: a letter in single quotes is the string, in a body that
\* parses; digits and escapes may be meant as numbers.
Letters == {"Y", "N"}
RECURSIVE StringsIn(_), fixRuneLiterals(_)
StringsIn(e) == IF e.kind = "chr" /\ e.text \in Letters THEN Str(e.text)
                ELSE [e EXCEPT !.items = [i \in DOMAIN @ |-> StringsIn(@[i])]]
fixRuneLiterals(b) ==
  [i \in DOMAIN b |-> IF b[i].k = "if" THEN [b[i] EXCEPT !.cond = StringsIn(@),
                                             !.body = fixRuneLiterals(@), !.els = fixRuneLiterals(@)]
                      ELSE b[i]]

\* terminates: the Go rule for the statements a body has.
RECURSIVE Terminates(_)
Terminates(b) ==
  /\ b # <<>>
  /\ LET n == Last(b) IN \/ n.k = "ret"
                         \/ n.k = "if" /\ n.els # <<>> /\ Terminates(n.body) /\ Terminates(n.els)
ensureTerminalReturn(b) == IF b = <<>> \/ Terminates(b) THEN b ELSE Append(b, Ret("ok"))

\* repairArmWrapper: a body that is one if over the axis, with no else.
IsArmWrapper(b, axis) ==
  /\ axis # "" /\ Len(b) = 1 /\ b[1].k = "if"
  /\ b[1].els = <<>> /\ b[1].body # <<>> /\ axis \in IdentsOf(b[1].cond)
repairArmWrapper(b, axis) ==
  IF IsArmWrapper(b, axis) THEN ensureTerminalReturn(b[1].body) ELSE b
\* stripLeadingArmChain: the header and its closing brace go, the rest stays.
stripLeadingArmChain(r) ==
  CASE r.lead = "else" -> r.body \o r.tail
    [] r.lead = "if" -> <<If(r.cond, r.body, <<>>)>> \o r.tail
    [] OTHER -> r.body \o r.tail
repairControllerBody(r, axis) ==
  ensureTerminalReturn(fixRuneLiterals(repairArmWrapper(fixRuneLiterals(stripLeadingArmChain(r)), axis)))

---------------------------------------------------------------------------
\* validateBody.  The wrapper's two ends parse only in one block, a C
\* declaration not at all.  A body is one scope here: what a block declares is
\* known after it.
RECURSIVE Closes(_, _)
Closes(b, open) ==
  IF b = <<>> THEN ~open
  ELSE CASE b[1].k = "txopen" -> ~open /\ Closes(Tail(b), TRUE)
         [] b[1].k = "txclose" -> open /\ Closes(Tail(b), FALSE)
         [] OTHER -> Closes(Tail(b), open)
Parses(b) ==
  /\ Closes(b, FALSE)
  /\ \A n \in All(b) : n.k # "decl"
  /\ \A n \in All(b) : n.k = "if" => Closes(n.body, FALSE) /\ Closes(n.els, FALSE)
UsedIn(n) ==
  CASE n.k = "if" -> IdentsOf(n.cond)
    [] n.k = "append" -> {n.target}
    [] n.k = "seterrfrom" -> {n.expr}
    [] n.k \in {"call", "fn", "method"} -> Range(n.args)
    [] OTHER -> {}
Uses(b) == UNION {UsedIn(n) : n \in All(b)}
Assigned(b) == {n.target : n \in {m \in All(b) : m.k = "set"}}
Declared(b) == {n.target : n \in {m \in All(b) : m.k \in {"read", "var"}}}
undeclaredIdentErrs(b, fields) ==
  ((Uses(b) \cup Assigned(b)) \ (Declared(b) \cup fields)) \cup {n.k : n \in {m \in All(b) : m.k \in CCalls}}
unusedLocalErrs(b) == Declared(b) \ Uses(b)
runeLiteralErrs(b) == {e \in UNION {SubTrees(c) : c \in Conds(b)} : e.kind = "chr"}
uncapturedStoreErrs(b) == {n.name : n \in {m \in All(b) : m.k = "call" /\ m.cap = ""}}

\* requiredCallErrs: by name, once is enough.
\* A variant of CallNames that forgets the helpers.
CallNamesOfStore(b) == {n.name : n \in {m \in All(b) : m.k = "call"}}
                       \cup (IF \E n \in All(b) : n.k = "txopen" THEN {"GetDB"} ELSE {})
CallNames(b) == {n.name : n \in {m \in All(b) : m.k = "call"}}
                \cup {n.fn : n \in {m \in All(b) : m.k = "method"}}
                \cup (IF \E n \in All(b) : n.k = "txopen" THEN {"GetDB"} ELSE {})
requiredCallErrs(view, b) == CallNames(view) \ CallNames(b)
controllerTuxedoErrs(b) == {n.k : n \in {m \in All(b) : m.k \in LegacyKinds}}
\* A variant of txGateErrs that asks for the wrapper of a branch without one.
txGateErrsAlways(b, calls) == IF ~\E n \in All(b) : n.k = "txopen" THEN {"ExecTransaction"} ELSE {}
\* txGateErrs: over the text, so where the call stands is not looked at.
txGateErrs(b, calls) ==
  LET tx == {calls[q].name : q \in {p \in DOMAIN calls : calls[p].tx # ""}}
  IN (IF tx # {} /\ ~\E n \in All(b) : n.k = "txopen" THEN {"ExecTransaction"} ELSE {})
     \cup {name \in tx : ~\E n \in All(b) : n.k = "call" /\ n.name = name /\ n.tx # ""}
emptyIfErrs(b) == {n \in All(b) : n.k = "if" /\ n.body = <<>> /\ n.els = <<>>}

---------------------------------------------------------------------------
\* The census of a branch: its conditions with the names assigned right in
\* the body; conditions of the SQL state and the unpack check are left out.
\* ExprIdents takes the words of a call, its buffer and field too.
RECURSIVE ExprIdents(_), Skeleton(_)
ExprIdents(e) ==
  CASE e.kind = "ident" -> {e.text}
    [] e.kind = "call" -> {e.text} \cup UNION {ExprIdents(e.items[i]) : i \in DOMAIN e.items}
    [] OTHER -> UNION {ExprIdents(e.items[i]) : i \in DOMAIN e.items}
\* Operators and literals stay, every name is a hole.
Skeleton(e) ==
  LET p == IF PresenceOf(e).ok THEN PresenceOf(e) ELSE GoPresenceOf(e) IN
  CASE p.ok -> Cmp(Ident("#"), IF p.present THEN "!=" ELSE "==", Str(""))
    [] ~p.ok /\ e.kind \in {"ident", "call"} -> Ident("#")
    [] ~p.ok /\ IsLit(e) -> NormLit(e)
    [] OTHER -> [e EXCEPT !.items = [i \in DOMAIN @ |-> Skeleton(@[i])]]
censusEffects(body) == {n.target : n \in {m \in Range(body) : m.k = "set"}}
RECURSIVE ConditionCensus(_)
ConditionCensus(b) ==
  UNION {IF b[i].k # "if" THEN {}
         ELSE {[cond |-> b[i].cond, effects |-> censusEffects(b[i].body)]}
              \cup ConditionCensus(b[i].body) \cup ConditionCensus(b[i].els) : i \in DOMAIN b}
         \cup {[cond |-> Cmp(Call("fn_committran", <<>>), "==", Num("-1")), effects |-> {}]
               : n \in {m \in Range(b) : m.k = "commit" /\ m.guard # "none"}}
\* The walk of the draft takes every if that shares a line with the branch:
\* unit.header, the condition of its own arm, when its line opens the span.
Census(unit) ==
  ConditionCensus(unit.branch)
  \cup {[cond |-> c, effects |-> censusEffects(unit.branch)] : c \in unit.header}
\* conditionPresenceErrs: some if of the body has the skeleton or one name
\* of the condition and assigns, anywhere under it, what the branch assigned.
Recalls(n, c) ==
  /\ \/ Skeleton(n.cond) = Skeleton(c.cond)
     \/ ExprIdents(n.cond) \cap ExprIdents(c.cond) # {}
  /\ c.effects \subseteq {m.target : m \in {x \in All(n.body) \cup All(n.els) : x.k \in {"set", "read"}}}
conditionPresenceErrs(census, b) ==
  {c \in census : ~\E n \in All(b) : n.k = "if" /\ Recalls(n, c)}

\* guardBindingsFor: a guard's names stand for themselves, a request field for
\* the name it is unpacked into; a claim of two names binds nothing.
guardBindingsFor(guards, b) ==
  LET names == UNION {ExprIdents(g.cond) \cup ExprIdents(g.alt) : g \in guards}
      claims == {<<i, i>> : i \in names}
                \cup {<<n.field, n.target>> : n \in {m \in All(b) : m.k = "get" /\ m.target \in names}}
      of(x) == {c[2] : c \in {d \in claims : d[1] = x}}
  IN [x \in {c[1] : c \in claims} |-> IF Cardinality(of(x)) = 1 THEN CHOOSE i \in of(x) : TRUE ELSE ""]
\* scenarioGuardErrs.  bind says which guard identifier a Go name stands for;
\* extendFromAssigns follows the locals that copy one; here a copy is a read,
\* and none is copied further.
extendFromAssigns(bind, b) ==
  LET reads == {n \in All(b) : n.k = "read" /\ n.field \in DOMAIN bind}
      to(t) == {bind[n.field] : n \in {m \in reads : m.target = t}}
  IN [x \in DOMAIN bind \cup {n.target : n \in reads} |->
        IF x \notin DOMAIN bind THEN IF Cardinality(to(x)) = 1 THEN CHOOSE i \in to(x) : TRUE ELSE ""
        ELSE IF to(x) \ {bind[x]} = {} THEN bind[x] ELSE ""]
RECURSIVE Bound(_, _)
Bound(e, bind) ==
  IF e.kind = "ident" THEN IF e.text \in DOMAIN bind /\ bind[e.text] # "" THEN Ident(bind[e.text]) ELSE e
  ELSE [e EXCEPT !.items = [i \in DOMAIN @ |-> Bound(@[i], bind)]]
scenarioGuardErrs(guards, bind, b) ==
  LET local == extendFromAssigns(bind, b)
      same(want, got) == Equivalent(Bound(want, local), Bound(got, local))
  IN {g \in guards : ~\E want \in {g.cond, g.alt}, got \in Conds(b) : same(want, got)}

---------------------------------------------------------------------------
\* The gate of the controller seam over a repaired body.
validateBody(b, fields) ==
  /\ Parses(b)
  /\ undeclaredIdentErrs(b, fields) = {} /\ unusedLocalErrs(b) = {}
  /\ runeLiteralErrs(b) = {} /\ uncapturedStoreErrs(b) = {}
Accepted(unit, view, b) ==
  /\ validateBody(b, unit.fields)
  /\ requiredCallErrs(view, b) = {}
  /\ controllerTuxedoErrs(b) = {}
  /\ txGateErrs(b, unit.calls) = {}
  /\ emptyIfErrs(b) = {}
  /\ unit.draft => conditionPresenceErrs(Census(unit), b) = {}
  /\ scenarioGuardErrs(unit.guards, guardBindingsFor(unit.guards, unit.branch), b) = {}

---------------------------------------------------------------------------
CONSTANT Units    \* the units whose body is asked for
VARIABLES unit, view, pass, reply
vars == <<unit, view, pass, reply>>

NoReply == Reply("", Empty, <<>>, <<>>)
Lib == [queries |-> unit.calls, session |-> SessionArgs,
        sigs |-> [f \in DOMAIN unit.helpers |-> [kept |-> helperSignature(unit.helpers[f])]]]
\* storeCallShapes.
Shape == [name \in {unit.calls[q].name : q \in DOMAIN unit.calls} |->
            unit.calls[CHOOSE q \in DOMAIN unit.calls : unit.calls[q].name = name].shape]

Init == /\ unit \in Units
        /\ view = unit.branch /\ pass = "branch" /\ reply = NoReply

Pass(from, to, v) == pass = from /\ view' = v /\ pass' = to /\ UNCHANGED <<unit, reply>>
QueriesReplaced ==
  IF Resolvable(view, unit.calls) THEN Pass("branch", "replaced", ReplaceQueries(view, unit.calls))
  ELSE Pass("branch", "failed", view)
CommentsStripped == Pass("replaced", "comments", stripDeadComments(view))
SeamsRewritten == Pass("comments", "seams", rewriteLegacySeams(view, unit.reqMap))
TxTemplated == Pass("seams", "tx", rewriteTxTemplate(view))
ProbesStripped == Pass("tx", "probes", stripFMLProbes(view))
SessionArgsStripped == Pass("probes", "session", stripSessionArgs(view, unit.stubs))
HelperCallsRewritten == Pass("session", "helpers", rewriteHelperCalls(view, unit.helpers))
ScaffoldStripped == Pass("helpers", "scaffold", stripLegacyScaffold(view))
PreludeStripped == Pass("scaffold", "prelude", stripPreludeDecls(view))
ConstantsInlined == Pass("prelude", "constants", inlineLegacyConstants(view, unit.defines))
CallsAssigned == Pass("constants", "shown", assignStoreCalls(view, Shape))

---------------------------------------------------------------------------
\* The faithful reply: what has a Go form is copied, a name that is used is
\* declared, a read nobody uses is left out, the reply is packed into data.
RECURSIVE GoCond(_)
GoCond(e) ==
  LET p == PresenceOf(e) IN
  CASE p.ok -> Cmp(Ident(p.field), IF p.present THEN "!=" ELSE "==", Str(""))
    [] ~p.ok /\ e.kind = "chr" /\ e.text \notin Letters -> Str(e.text)
    [] OTHER -> [e EXCEPT !.items = [i \in DOMAIN @ |-> GoCond(@[i])]]
Spoken(n) ==
  CASE n.k = "add" -> <<Appended(n.field, n.target)>>
    [] n.k \in {"decl", "ferr", "init"} -> <<>>
    [] OTHER -> <<n>>
RECURSIVE InGo(_)
InGo(b) == [i \in DOMAIN b |-> IF b[i].k = "if" THEN [b[i] EXCEPT !.cond = GoCond(@),
                                                      !.body = InGo(@), !.els = InGo(@)] ELSE b[i]]
Needed(b, uses) == Lines(LAMBDA n : IF n.k \in {"read", "set", "var"} /\ n.target \notin uses
                                    THEN <<>> ELSE <<n>>, b)
Spelled(b) == InGo(Lines(Spoken, b))
\* What is left unused is left out too.
Tidy(b) == Needed(b, Uses(b))
DeclareAll(b) == LET missing == SetToSeq((Uses(b) \cup Assigned(b)) \ (Declared(b) \cup unit.fields))
                 IN [i \in DOMAIN missing |-> Var(missing[i])] \o b
Echo(b) == DeclareAll(Tidy(Spelled(b)))
\* One statement lost, one result dropped, one guard lost, emptied or turned.
Slip(n) ==
  CASE n.k = "call" -> {<<>>, <<[n EXCEPT !.cap = ""]>>}
    [] n.k = "method" -> {<<>>}
    [] n.k = "if" -> {n.body, <<[n EXCEPT !.body = <<>>]>>}
                     \cup (IF unit.guards # {} THEN {<<[n EXCEPT !.cond = Not(@)]>>} ELSE {})
    [] OTHER -> {}
RECURSIVE Slips(_)
Slips(b) ==
  UNION {LET put(x) == SubSeq(b, 1, i - 1) \o x \o Rest(b, i) IN
         {put(x) : x \in Slip(b[i])}
         \cup (IF b[i].k # "if" THEN {}
               ELSE {put(<<[b[i] EXCEPT !.body = x]>>) : x \in Slips(b[i].body)}
                    \cup {put(<<[b[i] EXCEPT !.els = x]>>) : x \in Slips(b[i].els)})
         : i \in DOMAIN b}
WithoutTx(b) == Lines(LAMBDA n : CASE n.k \in {"txopen", "txclose"} -> <<>>
                                   [] n.k = "call" -> <<[n EXCEPT !.tx = ""]>>
                                   [] OTHER -> <<n>>, b)
Arms == {Cmp(Ident(unit.axis), "==", Chr(unit.arm))}
FaithfulTo(echo) == {Reply("", Empty, echo, <<>>), Reply("else", Empty, echo, <<>>)}
                    \cup {Reply("if", c, echo, <<>>) : c \in IF unit.axis = "" THEN {} ELSE Arms}
Faithful == UNION {FaithfulTo(echo) : echo \in {Echo(view)}}
Slipped(echo) == {Reply("", Empty, Tidy(b), <<>>) : b \in Slips(echo)}
                 \cup {Reply("", Empty, Tidy(b), <<>>) : b \in {WithoutTx(echo)} \ {echo}}

\* The model answers; a rejected reply may be followed by another.
Answer == /\ pass \in {"shown", "rejected"}
          /\ \E echo \in {Echo(view)} :
               \/ unit.replies \in {"faithful", "all"} /\ reply' \in FaithfulTo(echo)
               \/ unit.replies = "all" /\ reply' \in Slipped(echo)
          /\ pass' = "answered" /\ UNCHANGED <<unit, view>>
Body == repairControllerBody(reply, unit.axis)
Gate == /\ pass = "answered"
        /\ pass' = IF Accepted(unit, view, Body) THEN "accepted" ELSE "rejected"
        /\ UNCHANGED <<unit, view, reply>>
Next == \/ QueriesReplaced \/ CommentsStripped \/ SeamsRewritten \/ TxTemplated \/ ProbesStripped
        \/ SessionArgsStripped \/ HelperCallsRewritten \/ ScaffoldStripped \/ PreludeStripped
        \/ ConstantsInlined \/ CallsAssigned \/ Answer \/ Gate
Spec == Init /\ [][Next]_vars

---------------------------------------------------------------------------
\* A world is a request: a value for every name, a define's too.  A request
\* the unpack block turns down never reaches the body, the middleware's reads
\* answer it.
RunsAsTheBranch(b) ==
  \A env \in unit.worlds :
    LET legacy == Run(unit.branch, env, Lib) IN legacy.ret = "unpack" \/ Run(b, env, Lib) = legacy

\* The view runs as the branch did: the same calls with the same arguments
\* in the same transactions, the same reply and the same error.
ViewRunsAsTheBranch == pass = "shown" => RunsAsTheBranch(view)

\* A reply that copies the view is accepted: no gate asks for what the view
\* no longer shows.
EchoIsAccepted == pass = "rejected" => reply \notin Faithful

\* No single slip the gates are there for gets through: a body that is
\* accepted runs as the branch did.
AcceptedRunsAsTheBranch == pass = "accepted" => RunsAsTheBranch(Body)
=============================================================================
