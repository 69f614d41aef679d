----------------------------- MODULE ServiceJoin -----------------------------
(***************************************************************************)
(* ExtractDirOpts (internal/ir): the files of a directory are folded one   *)
(* by one in path order, then every tpcall finds the files that define its *)
(* service, then caller and callee are joined on the names of their FML    *)
(* fields (tpcalljoin.go).  Exec runs caller and callee against real       *)
(* buffers; the properties compare the join with it.                       *)
(***************************************************************************)
EXTENDS Inventory, TLC

---------------------------------------------------------------------------
\* What every tpcall sends and takes back (tpcall.go, srwindow.go).  A file is a
\* sequence of functions, a body a sequence of statements: a call on its own
\* line, or an `if` around more statements, in one of the layouts C programmers
\* use.  Place gives every statement its lines, the facts are what the scanner
\* records of them, and Exec is the program.
\* A library call: op and up to three operands.  Fadd32 and Fget32 <<buffer,
\* field, variable>>, Fdel32 and Foccur32 <<buffer, field>>, tpcall <<service,
\* send, reply>>, tpacall <<service, send>>, tpgetrply and tpfree <<buffer>>,
\* memset <<buffer, fill>>, tpalloc <<variable, how the result is used>>.
Call(op, a, b, c) == [op |-> op, a |-> a, b |-> b, c |-> c]
NoCall == Call("", "", "", "")
Do(call) == [kind |-> "do", call |-> call]
If(style, call, flag, then, else) ==
  [kind |-> "if", style |-> style, call |-> call, flag |-> flag, then |-> then, else |-> else]

RECURSIVE Height(_), Heights(_), Place(_, _)
Heights(ns) == FoldLeft(LAMBDA h, n : h + Height(n), 0, ns)
\* allman: braces on lines of their own; kr: on the header's and the else's.
Height(n) ==
  CASE n.kind = "do" -> 1
    [] n.style = "bare" -> 1 + Heights(n.then)
    [] n.style = "kr" -> 2 + Heights(n.then) + (IF n.else = <<>> THEN 0 ELSE Heights(n.else) + 1)
    [] OTHER -> 3 + Heights(n.then) + (IF n.else = <<>> THEN 0 ELSE Heights(n.else) + 3)
\* The statement with its line and the lines of its braces (0: none).
Placed(n, line) ==
  LET gap == IF n.style = "allman" THEN 1 ELSE 0
      braced == n.style # "bare"
      body == line + gap + 1
      to == body + Heights(n.then)
      elseAt == to + gap
  IN IF n.kind = "do" THEN n @@ [line |-> line]
     ELSE [n EXCEPT !.then = Place(@, body), !.else = Place(@, elseAt + gap + 1)]
          @@ [line |-> line, from |-> IF braced THEN line + gap ELSE 0, to |-> IF braced THEN to ELSE 0,
              elseLine |-> elseAt, elseFrom |-> elseAt + gap, elseTo |-> elseAt + gap + 1 + Heights(n.else)]
Place(ns, line) ==
  LET at(i) == line + Heights(SubSeq(ns, 1, i - 1)) IN [i \in DOMAIN ns |-> Placed(ns[i], at(i))]

---------------------------------------------------------------------------
\* The scanner's facts: calls and branches in source order.
RECURSIVE CallsOf(_, _), BranchesOf(_, _, _)
CallsOf(ns, fn) ==
  FlattenSeq([i \in DOMAIN ns |->
    IF ns[i].kind = "do" THEN <<ns[i].call @@ [line |-> ns[i].line, fn |-> fn]>>
    ELSE (IF ns[i].call = NoCall THEN <<>> ELSE <<ns[i].call @@ [line |-> ns[i].line, fn |-> fn]>>)
         \o CallsOf(ns[i].then, fn) \o CallsOf(ns[i].else, fn)])
Branch(fn, depth, kind, line, from, to, call) ==
  [fn |-> fn, depth |-> depth, kind |-> kind, line |-> line, from |-> from, to |-> to, test |-> call.op]
BranchesOf(ns, fn, depth) ==
  FlattenSeq([i \in DOMAIN ns |->
    IF ns[i].kind = "do" THEN <<>>
    ELSE LET n == ns[i]
             inner == IF n.from = 0 THEN depth ELSE depth + 1
         IN <<Branch(fn, depth, "if", n.line, n.from, n.to, n.call)>> \o BranchesOf(n.then, fn, inner)
            \o (IF n.else = <<>> THEN <<>>
                ELSE <<Branch(fn, depth, "else", n.elseLine, n.elseFrom, n.elseTo, NoCall)>>
                     \o BranchesOf(n.else, fn, inner))])

\* The functions of a file one after the other: a header, the brace, the
\* body, the closing brace.  A nameless one stands for lines the scanner finds
\* no function around: its calls have no owner.
PlacedFunctions(file) ==
  LET start(i) == 1 + FoldLeft(LAMBDA h, f : h + 3 + Heights(f.body), 0, SubSeq(file.functions, 1, i - 1))
  IN [i \in DOMAIN file.functions |->
        LET f == file.functions[i]
        IN [name |-> f.name, service |-> f.service, from |-> start(i) + 1,
            to |-> start(i) + 2 + Heights(f.body), body |-> Place(f.body, start(i) + 2)]]
\* FmlOpOf: the operations on FML buffers, a presence count as a read.
FmlKind(op) == CASE op = "Fadd32" -> "add" [] op = "Fdel32" -> "del"
                 [] op \in {"Fget32", "Foccur32"} -> "get" [] OTHER -> ""
FmlOps(calls) ==
  LET ops == SelectSeq(calls, LAMBDA c : FmlKind(c.op) # "")
  IN [i \in DOMAIN ops |-> [kind |-> FmlKind(ops[i].op), buffer |-> ops[i].a, field |-> ops[i].b,
                            target |-> ops[i].c, line |-> ops[i].line]]
FactsOf(file) ==
  LET of(fs, calls, branches) ==
        [functions |-> fs, calls |-> calls, branches |-> branches, ops |-> FmlOps(calls),
         fragment |-> FALSE, last |-> IF fs = <<>> THEN 0 ELSE Last(fs).to, sqls |-> <<>>]
      scan(fs) == of(fs, FlattenSeq([i \in DOMAIN fs |-> CallsOf(fs[i].body, fs[i].name)]),
                     FlattenSeq([i \in DOMAIN fs |-> BranchesOf(fs[i].body, fs[i].name, 1)]))
  IN scan(PlacedFunctions(file))

---------------------------------------------------------------------------
\* enclosingSpan: the innermost braced block around the call, else the body,
\* else the file.
EnclosingSpan(facts, c) ==
  LET f == IF c.fn = "" THEN [from |-> 1, to |-> facts.last] ELSE FunctionSpan(facts, c.fn)
      narrow(w, b) == IF /\ b.from # 0 /\ b.from <= c.line /\ c.line <= b.to
                         /\ b.from >= w.from /\ b.to <= w.to
                      THEN [from |-> b.from, to |-> b.to] ELSE w
  IN FoldLeft(narrow, [from |-> f.from, to |-> f.to], facts.branches)

\* isZeroFillArg: the number 0, or a character literal that is nothing but
\* zeros between the quotes.
IsZeroFill(fill) == fill \in {"0", "'0'"}
\* Mutant: only tpfree empties a buffer.
ResetsByFree(c, buf) == c.op = "tpfree" /\ c.a = buf
\* raisePastReset: the window starts after the last line that emptied buf.
Resets(c, buf) ==
  CASE c.op = "tpalloc" -> c.b = "assigned" /\ c.a = buf
    [] c.op = "tpfree" -> c.a = buf
    [] c.op = "memset" -> c.a = buf /\ IsZeroFill(c.b)
    [] OTHER -> FALSE
RaisePastReset(facts, buf, from, before) ==
  Max({from - 1} \cup {c.line : c \in {d \in ToSet(facts.calls) :
                                         from <= d.line /\ d.line <= before /\ Resets(d, buf)}}) + 1

Field(o) == [field |-> o.field, target |-> o.target, line |-> o.line]
\* replayFields: the last write of every field that no later delete removed.
SendFields(facts, buf, from, to) ==
  LET lo == RaisePastReset(facts, buf, from, to)
      step(live, o) ==
        LET others == {x \in live : x.field # o.field}
        IN CASE o.buffer # buf \/ o.line < lo \/ o.line > to \/ o.kind = "get" -> live
             [] o.kind = "add" -> others \cup {Field(o)}
             [] OTHER -> others
  IN FoldLeft(step, {}, facts.ops)
\* returnValueChecked: the read stands in the condition of an if.
Checked(facts, line) ==
  \E i \in DOMAIN facts.branches : facts.branches[i].line = line /\ facts.branches[i].test \in {"Fget32", "Foccur32"}
RecvFields(facts, buf, from, to) ==
  LET step(live, o) ==
        IF o.buffer # buf \/ o.line < from \/ o.line > to \/ o.kind # "get" THEN live
        ELSE {x \in live : x.field # o.field} \cup {Field(o) @@ [unchecked |-> ~Checked(facts, o.line)]}
  IN FoldLeft(step, {}, facts.ops)

\* Where the reply arrives, and up to where it is looked for: at the call
\* itself, or (correlateAsyncRecv) at the first tpgetrply after a tpacall.
Arrival(facts, c) ==
  LET after == {i \in DOMAIN facts.calls : /\ facts.calls[i].op = "tpgetrply"
                                           /\ facts.calls[i].fn = c.fn /\ facts.calls[i].line > c.line}
      at(g, buf) == [buffer |-> buf, line |-> g.line, to |-> EnclosingSpan(facts, g).to]
  IN CASE c.op = "tpcall" -> at(c, c.c)
       [] after = {} -> at(c, "")
       [] OTHER -> LET g == facts.calls[Min(after)] IN at(g, g.a)
Between(facts, buf, kinds, from, to) ==
  \E i \in DOMAIN facts.ops : LET o == facts.ops[i] IN
    o.buffer = buf /\ o.kind \in kinds /\ from <= o.line /\ o.line <= to
\* buildTPCalls, one call; the service files and the join come later.  The
\* fields read are those of the window of the call, a tpacall's too; a call is
\* ambiguous when neither side has an operation.
TPCall(facts, c) ==
  LET of(w, reply) ==
        [service |-> c.a, line |-> c.line, fn |-> c.fn, files |-> {}, refusal |-> "",
         bindings |-> {}, issues |-> {}, joined |-> FALSE,
         ambiguous |-> /\ c.b # "" /\ reply.buffer # ""
                       /\ ~Between(facts, c.b, {"add", "del"}, w.from, c.line - 1)
                       /\ ~Between(facts, reply.buffer, {"get"}, reply.line + 1, reply.to),
         send |-> IF c.b = "" THEN {} ELSE SendFields(facts, c.b, w.from, c.line),
         recv |-> IF reply.buffer = "" THEN {} ELSE RecvFields(facts, reply.buffer, c.line, w.to)]
  IN of(EnclosingSpan(facts, c), Arrival(facts, c))
TPCalls(facts) ==
  LET calls == SelectSeq(facts.calls, LAMBDA c : c.op \in {"tpcall", "tpacall"})
  IN [i \in DOMAIN calls |-> TPCall(facts, calls[i])]
\* build: what the file's IR keeps for the join.
IR(file) ==
  LET of(facts, entry, conds) ==
        [path |-> file.path, base |-> file.base, entry |-> entry, facts |-> facts, conditions |-> conds,
         preamble |-> PreambleOps(facts.ops, entry, conds), roles |-> file.roles, tpcalls |-> TPCalls(facts)]
      build(facts) == of(facts, Entry(facts), Conditions(facts))
  IN build(FactsOf(file))

---------------------------------------------------------------------------
CONSTANTS Corpora,   \* sequences of files [path, base, roles, functions]
          Flags      \* the variables the programs branch on

VARIABLES corpus, irs, stage
vars == <<corpus, irs, stage>>

---------------------------------------------------------------------------
\* The tpcall's service is the entry of the file, or its base name.
ServiceFiles(files, svc) == {i \in DOMAIN files : files[i].entry = svc \/ files[i].base = svc}
Resolved(tc, files) == [tc EXCEPT !.files = IF tc.service = "" THEN {} ELSE ServiceFiles(files, tc.service)]

ByRole(g, role) == {b \in DOMAIN g.roles : g.roles[b] = role}
\* calleeContract: the operations of the preamble, then those of the arms,
\* the ones in the entry's own body; collapse keeps a field's first access.
InEntry(g, ops) ==
  LET of(span) == SelectSeq(ops, LAMBDA o : SpanHolds(span, o.line)) IN of(FunctionSpan(g.facts, g.entry))
\* Mutant: the arms are left out.
EntryOpsOutside(g) == InEntry(g, g.preamble)
EntryOps(g) ==
  InEntry(g, g.preamble \o FlattenSeq([i \in DOMAIN g.conditions |-> ConditionOps(g.facts.ops, g.conditions[i])]))
Contract(ops, kind, buffers) ==
  LET first(acc, o) == IF o.kind # kind \/ o.buffer \notin buffers \/ (\E x \in acc : x.field = o.field)
                       THEN acc ELSE acc \cup {Field(o)}
  IN FoldLeft(first, {}, ops)

Named(side, name) == {x \in side : x.field = name}
FieldNames(side) == {x.field : x \in side}
Target(x) == x.target
\* joinSides: sent and read on the caller's side, expects and produces on
\* the callee's.
Binding(sent, read, expects, produces, name) ==
  LET in == name \in FieldNames(sent) \cap FieldNames(expects)
      out == name \in FieldNames(produces) \cap FieldNames(read)
      one(a, b) == IF Named(a, name) # {} THEN Target(CHOOSE x \in Named(a, name) : TRUE)
                   ELSE IF Named(b, name) # {} THEN Target(CHOOSE x \in Named(b, name) : TRUE) ELSE ""
  IN [field |-> name, callerVar |-> one(read, sent), calleeVar |-> one(produces, expects),
      direction |-> CASE in /\ out -> "inout" [] in -> "in" [] OTHER -> "out",
      unchecked |-> \E x \in Named(read, name) : x.unchecked]
Bindings(sent, read, expects, produces) ==
  {Binding(sent, read, expects, produces, name) :
     name \in (FieldNames(sent) \cap FieldNames(expects)) \cup (FieldNames(produces) \cap FieldNames(read))}
Issue(code, name) == [code |-> code, field |-> name]
Issues(sent, read, expects, produces) ==
  {Issue("callee_expects_unsent", n) : n \in FieldNames(expects) \ FieldNames(sent)}
  \cup {Issue("caller_reads_unwritten", n) : n \in FieldNames(read) \ FieldNames(produces)}
  \cup {Issue("sent_unread", n) : n \in FieldNames(sent) \ FieldNames(expects)}
  \cup {Issue("written_unread", n) : n \in FieldNames(produces) \ FieldNames(read)}

JoinWith(tc, g) ==
  LET joined(expects, produces) ==
        [tc EXCEPT !.joined = TRUE, !.bindings = Bindings(tc.send, tc.recv, expects, produces),
                   !.issues = Issues(tc.send, tc.recv, expects, produces)]
      contract(ops) == joined(Contract(ops, "get", ByRole(g, "input")), Contract(ops, "add", ByRole(g, "output")))
      refused(why) == [tc EXCEPT !.refusal = why]
  IN CASE g.entry = "" -> refused("callee_has_no_entry_function")
       [] ByRole(g, "input") \cup ByRole(g, "output") = {} -> refused("callee_buffer_roles_unresolved")
       [] OTHER -> contract(EntryOps(g))
\* joinTPCalls: nothing is recorded when no file defines the service, and
\* nothing is chosen among several.
Joined(tc, files) ==
  CASE tc.files = {} -> tc
    [] Cardinality(tc.files) > 1 -> [tc EXCEPT !.refusal = "ambiguous_callee"]
    [] OTHER -> JoinWith(tc, files[CHOOSE i \in tc.files : TRUE])
EachCall(files, Op(_, _)) ==
  [i \in DOMAIN files |->
     [files[i] EXCEPT !.tpcalls = [k \in DOMAIN files[i].tpcalls |-> Op(files[i].tpcalls[k], files)]]]

---------------------------------------------------------------------------
Init == corpus \in Corpora /\ irs = <<>> /\ stage = "build"
\* ScanFile and build of the next file, in path order.
BuildFile ==
  /\ stage = "build" /\ Len(irs) < Len(corpus)
  /\ irs' = Append(irs, IR(corpus[Len(irs) + 1]))
  /\ UNCHANGED <<corpus, stage>>
\* Every file is known before a service is looked up.
ResolveServices ==
  /\ stage = "build" /\ Len(irs) = Len(corpus)
  /\ irs' = EachCall(irs, Resolved) /\ stage' = "join"
  /\ UNCHANGED corpus
JoinTPCalls ==
  /\ stage = "join"
  /\ irs' = EachCall(irs, Joined) /\ stage' = "done"
  /\ UNCHANGED corpus
Next == BuildFile \/ ResolveServices \/ JoinTPCalls
Spec == Init /\ [][Next]_vars

---------------------------------------------------------------------------
\* The programs themselves.  A buffer is a set of [field, var]; a service
\* that ends by `return` failed (TPFAIL), as does a call of a service that
\* is not there.
NoAnswer == [reads |-> {}, stopped |-> TRUE]
Holding(buffers, received) ==
  [bufs |-> [b \in buffers |-> IF b = "ibuffer" THEN received ELSE {}],
   failed |-> FALSE, stopped |-> FALSE, sent |-> {}, reads |-> {}, inner |-> {}, answer |-> NoAnswer]
Put(content, f, v) == {x \in content : x.field # f} \cup {[field |-> f, var |-> v]}
Read(s, line, b, f, target) ==
  LET held == {x \in s.bufs[b] : x.field = f}
  IN [s EXCEPT !.failed = held = {},
               !.reads = @ \cup {[line |-> line, field |-> f, target |-> target,
                                  value |-> IF held = {} THEN "" ELSE (CHOOSE x \in held : TRUE).var]}]
Sent(s, c, reply) ==
  [s EXCEPT !.sent = @ \cup {[line |-> c.line, fields |-> s.bufs[c.b]]},
            !.inner = @ \cup {x @@ [at |-> c.line] : x \in reply.reads}]
Received(s, reply, b) ==
  [s EXCEPT !.failed = reply.stopped, !.bufs[b] = IF reply.stopped THEN @ ELSE reply.bufs["obuffer"]]
Effect(s, c, reply) ==
  CASE c.op = "Fadd32" -> [s EXCEPT !.bufs[c.a] = Put(@, c.b, c.c), !.failed = FALSE]
    [] c.op = "Fdel32" -> [s EXCEPT !.bufs[c.a] = {x \in @ : x.field # c.b}, !.failed = FALSE]
    [] c.op \in {"Fget32", "Foccur32"} -> Read(s, c.line, c.a, c.b, c.c)
    [] <<c.op, c.b>> \in {<<"tpalloc", "assigned">>, <<"tpfree", "">>, <<"memset", "0">>, <<"memset", "NUL">>} ->
         [s EXCEPT !.bufs[c.a] = {}, !.failed = FALSE]
    [] c.op = "tpcall" -> Received(Sent(s, c, reply), reply, c.c)
    [] c.op = "tpacall" -> [Sent(s, c, reply) EXCEPT !.answer = reply, !.failed = FALSE]
    [] c.op = "tpgetrply" -> Received(s, s.answer, c.a)
    [] c.op = "return" -> [s EXCEPT !.stopped = TRUE]
    [] OTHER -> s
RECURSIVE Exec(_, _, _, _)
\* service: the body behind a tpcall (<<>>: there is none).
Reply32(s, c, env, service) ==
  IF c.op \in {"tpcall", "tpacall"} /\ service # <<>>
  THEN Exec(service, Holding({"ibuffer", "obuffer"}, s.bufs[c.b]), env, <<>>)
  ELSE NoAnswer
Exec(ns, s, env, service) ==
  LET do(t, c) == Effect(t, c, Reply32(t, c, env, service))
      branch(t, n) == Exec(IF IF n.flag = "failed" THEN t.failed ELSE env[n.flag] THEN n.then ELSE n.else, t, env, service)
      step(t, n) == CASE t.stopped -> t
                      [] n.kind = "do" -> do(t, n.call @@ [line |-> n.line])
                      [] OTHER -> branch(IF n.call = NoCall THEN t ELSE do(t, n.call @@ [line |-> n.line]), n)
  IN FoldLeft(step, s, ns)

Body(g, name) == FunctionSpan(g.facts, name).body
CallerBuffers == {"s", "r"}
Values == [Flags -> BOOLEAN]
Service(files, tc) == files[CHOOSE i \in tc.files : TRUE]
\* The executions of the function that makes the call, one for each value
\* of the flags, with the service behind it when the two were joined.
Executions(files, g, tc) ==
  LET run(body, service) == {Exec(body, Holding(CallerBuffers, {}), env, service) : env \in Values}
      entry(s) == Body(s, s.entry)
  IN run(Body(g, tc.fn), IF tc.joined THEN entry(Service(files, tc)) ELSE <<>>)
\* The fields the service replies with when it is sent all it could read.
Replied(g) ==
  LET full == {[field |-> n, var |-> "any"] : n \in FieldNames(ToSet(g.facts.ops))}
      runs == {Exec(Body(g, g.entry), Holding({"ibuffer", "obuffer"}, full), env, <<>>) : env \in Values}
  IN UNION {FieldNames(r.bufs["obuffer"]) : r \in {t \in runs : ~t.stopped}}
EveryCall(P(_, _, _)) ==
  stage = "done" => \A i \in DOMAIN irs : \A k \in DOMAIN irs[i].tpcalls :
                      P(irs[i].facts, irs[i].tpcalls[k], Executions(irs, irs[i], irs[i].tpcalls[k]))

---------------------------------------------------------------------------
\* The operations of the function on the call's send buffer before the call,
\* its resets included, and the reads of the reply stand in the innermost block
\* of the call (or of its tpgetrply): what the windows are cut for.
InItsBlock(facts, tc) ==
  LET c == CHOOSE d \in ToSet(facts.calls) : d.op \in {"tpcall", "tpacall"} /\ d.line = tc.line
      reply == Arrival(facts, c)
      block(line) == EnclosingSpan(facts, [fn |-> c.fn, line |-> line])
      whole == IF c.fn = "" THEN [from |-> 1, to |-> facts.last] ELSE FunctionSpan(facts, c.fn)
      mine(line) == whole.from <= line /\ line <= whole.to
      fills == {o.line : o \in {p \in ToSet(facts.ops) : p.buffer = c.b /\ p.kind # "get"}}
               \cup {d.line : d \in {e \in ToSet(facts.calls) : Resets(e, c.b)}}
      reads == {o.line : o \in {p \in ToSet(facts.ops) : p.buffer = reply.buffer /\ p.kind = "get"}}
  IN /\ \A line \in fills : mine(line) /\ line < c.line => block(line) = block(c.line)
     /\ \A line \in reads : mine(line) /\ line > reply.line => block(line) = block(reply.line)

\* What a call is said to send is what the buffer holds when the call runs:
\* nothing of an earlier call on the same buffer, nothing deleted, nothing
\* missing, and from the last variable written.
SentExactly(facts, tc, runs) ==
  \A r \in runs : \A x \in r.sent :
    x.line = tc.line => x.fields = {[field |-> f.field, var |-> f.target] : f \in tc.send}
\* Wherever the buffer is filled, as srwindow.go:35 has it: not true of a fill
\* outside the call's block, nor of one in an arm before it.
EverySendIsTheBuffer == EveryCall(SentExactly)
\* True of a call whose operations stand in its own block.
SendIsTheBuffer ==
  LET exact(facts, tc, runs) == InItsBlock(facts, tc) => SentExactly(facts, tc, runs)
  IN EveryCall(exact)
\* A call whose contract is recorded as empty sends nothing, and nothing is
\* read of its reply.
AmbiguousIsEmpty ==
  LET empty(facts, tc, runs) == InItsBlock(facts, tc) /\ tc.ambiguous =>
        \A r \in runs : /\ \A x \in r.sent : x.line = tc.line => x.fields = {}
                        /\ \A x \in r.reads : x.line <= tc.line
  IN EveryCall(empty)
\* The findings of a join are true and complete: a field is expected and
\* not sent when some execution of the service reads it in vain, and read
\* and not written when the service never replies with it.
IssuesAreTheMissingReads ==
  LET missed(tc, runs) == FieldNames({y \in UNION {r.inner : r \in runs} : y.at = tc.line /\ y.value = ""})
      fields(tc, code) == FieldNames({y \in tc.issues : y.code = code})
      exact(facts, tc, runs) == tc.joined =>
        /\ InItsBlock(facts, tc) => fields(tc, "callee_expects_unsent") = missed(tc, runs)
        /\ fields(tc, "caller_reads_unwritten") = FieldNames(tc.recv) \ Replied(Service(irs, tc))
  IN EveryCall(exact)
\* A binding is a way values go: some execution hands the caller's variable
\* to the callee's, or, in a join that reports no missing read, the
\* callee's back to the caller's.
BindingsCarryValues ==
  LET carried(tc, runs, b) == \E r \in runs :
        IF b.direction = "in"
        THEN \E x \in r.inner : /\ x.at = tc.line /\ x.field = b.field
                                /\ x.value = b.callerVar /\ x.target = b.calleeVar
        ELSE \/ \E y \in tc.issues : y.code \in {"callee_expects_unsent", "caller_reads_unwritten"}
             \/ \E x \in r.reads : /\ x.line > tc.line /\ x.field = b.field
                                   /\ x.value = b.calleeVar /\ x.target = b.callerVar
      all(facts, tc, runs) == \A b \in tc.bindings : carried(tc, runs, b)
  IN EveryCall(all)
=============================================================================
