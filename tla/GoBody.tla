------------------------------- MODULE GoBody -------------------------------
(***************************************************************************)
(* The Go body the converter writes for an endpoint or a helper when no    *)
(* model is asked (internal/gen/deterministic.go), with its accounting of  *)
(* helper control flow (fncontrolflow.go, flow/patterns.go) and of service *)
(* calls (fntpcall.go), the index of reads (internal/walk) and the gates   *)
(* (internal/convert/deterministic.go).                                    *)
(*                                                                         *)
(* A unit is the C text of a slice or of a helper, line by line: reads of  *)
(* the request, statements, calls, reply fields, and the headers of the    *)
(* blocks around them.  The rendering is pure; the body it yields is then  *)
(* run call by call, each of which may fail, with the transaction around   *)
(* it, and compared with what the C text does.                             *)
(***************************************************************************)
EXTENDS Integers, Sequences, FiniteSets, FiniteSetsExt, SequencesExt, Functions

CONSTANTS Units,         \* the C texts
          Fns,           \* the functions a text may call: sort, status, formals
          Numeric,       \* host variables pinned to a numeric parameter
          SameSpelling,  \* <<host, field>>: the Go names of both are one
          Alike          \* <<host, field>>: one Go name contains the other

(***************************************************************************)
(* The C text.                                                             *)
(***************************************************************************)
Lines(u) == DOMAIN u.src
At(u, op) == {l \in Lines(u) : u.src[l].op = op}
Statements(u) == At(u, "read") \cup At(u, "dml")
Headers(u) == At(u, "if") \cup At(u, "loop")
Inside(u, g) == (g + 1) .. u.src[g].to
Around(u, l) == {g \in Headers(u) : l \in Inside(u, g)}

\* The host variables the text of a line names.
Mentions(line) ==
  CASE line.op = "get" -> {line.host}
    [] line.op = "read" -> Range(line.binds) \cup Range(line.into)
    [] line.op = "dml" -> Range(line.binds)
    [] line.op \in {"add", "error"} -> {line.host}
    [] line.op = "copy" -> {line.host, line.from}
    [] line.op = "call" -> Range(line.actuals)
    [] OTHER -> {}

\* The blocks of the text are nested.
Nested(u) ==
  \A g \in Headers(u) :
    u.src[g].to \in Nat /\ \A k \in Headers(u) \cap Inside(u, g) : u.src[k].to <= u.src[g].to

\* A text and its preamble are sequences of lines, every function it calls is
\* known, and the walk of the file gives every statement of a helper the line
\* of the planned one.
WellFormed ==
  \A u \in Units :
    /\ u.src \in Seq(Range(u.src)) /\ u.preamble \in Seq(Range(u.preamble))
    /\ \A l \in At(u, "read") : u.src[l].into \in Seq(Range(u.src[l].into))
    /\ \A l \in At(u, "call") : u.src[l].fn \in DOMAIN Fns
    /\ u.sort = "helper" => Nested(u) /\ \A l \in Statements(u) : u.home[l] \in Nat

\* A helper that returns nothing.
Void(u) == u.sort = "helper" /\ ~u.int

Named(u, h) == \E l \in Lines(u) : h \in Mentions(u.src[l])

(***************************************************************************)
(* The contract: the fields of the request and of the response, and the    *)
(* request field each host variable is read from.                          *)
(***************************************************************************)
\* The members of a finite set as a sequence: before holds the pairs of an
\* earlier and a later one.
InOrder(S, before) ==
  [k \in 1 .. Cardinality(S) |->
     CHOOSE x \in S : Cardinality({y \in S : y = x \/ <<y, x>> \in before}) = k]
LineSeq(S) == InOrder(S, {p \in S \X S : p[1] < p[2]})
\* The members of s in the order they first stand in it.
Distinct(s) ==
  LET firsts == LineSeq({i \in DOMAIN s : \A j \in 1 .. i - 1 : s[j] # s[i]})
  IN [k \in DOMAIN firsts |-> s[firsts[k]]]
FieldsOf(ops) == Distinct([i \in DOMAIN ops |-> ops[i].field])
Gets(u) == [i \in 1 .. Cardinality(At(u, "get")) |-> u.src[LineSeq(At(u, "get"))[i]]]

\* A read of the preamble joins when the text names its host variable.
Joining(u) ==
  LET named == LineSeq({i \in DOMAIN u.preamble : Named(u, u.preamble[i].host)})
  IN [k \in DOMAIN named |-> u.preamble[named[k]]]

RequestFields(u) == Distinct(FieldsOf(Gets(u)) \o FieldsOf(Joining(u)))

\* In the text the last read of a host wins, in the preamble the first, and
\* the text wins over the preamble.
RequestMap(u) ==
  LET Latest(h) == LET S == {l \in At(u, "get") : u.src[l].host = h} IN u.src[Max(S)].field
      First(h) == Joining(u)[Min({i \in DOMAIN Joining(u) : Joining(u)[i].host = h})].field
      read == {u.src[l].host : l \in At(u, "get")}
      early == {Joining(u)[i].host : i \in DOMAIN Joining(u)}
  IN [h \in read \cup early |-> IF h \in read THEN Latest(h) ELSE First(h)]

\* Mutant: the writes into the request buffer too.
AddsOfAnyBuffer(u) == LineSeq(At(u, "add"))
\* Only writes into the reply name a response field's host variable.
Adds(u) == LineSeq({l \in At(u, "add") : u.src[l].reply})
ResponseFields(u) ==
  LET all == LineSeq(At(u, "add")) IN FieldsOf([i \in DOMAIN all |-> u.src[all[i]]])

\* The first write of a response field names its host variable.
TargetOf(u) ==
  [f \in {u.src[l].field : l \in Range(Adds(u))} |->
     u.src[Min({l \in Range(Adds(u)) : u.src[l].field = f})].host]

(***************************************************************************)
(* The ordered calls of a body.  An endpoint's statements stand on their   *)
(* own lines; those of a helper are planned by the first statement of the  *)
(* file with the same text, and stand on its line.                         *)
(***************************************************************************)
LineOf(u, l) == IF u.sort = "helper" THEN u.home[l] ELSE l

Shape(line) == IF line.op = "dml" THEN "error" ELSE line.shape

Repeats(u, order, i) ==
  Cardinality({j \in 1 .. i : u.src[order[j]].q = u.src[order[i]].q})

StatementOrder(u) ==
  {p \in Statements(u) \X Statements(u) :
     \/ LineOf(u, p[1]) < LineOf(u, p[2])
     \/ LineOf(u, p[1]) = LineOf(u, p[2]) /\ p[1] < p[2]}

Ordered(u) ==
  LET order == InOrder(Statements(u), StatementOrder(u))
  IN [i \in DOMAIN order |->
        LET s == u.src[order[i]]
        IN [site |-> order[i], line |-> LineOf(u, order[i]), q |-> s.q,
            shape |-> Shape(s), binds |-> s.binds,
            row |-> IF Shape(s) \in {"rows", "single"} THEN s.into ELSE <<>>,
            capture |-> <<s.q, Repeats(u, order, i)>>,
            tx |-> s.op = "dml" /\ s.tx /\ ~s.merge]]

\* walk.Index: the first read that yields a host variable owns it.
Readers(calls, h) == {i \in DOMAIN calls : h \in Range(calls[i].row)}
Owns(calls, h) == Readers(calls, h) # {}
OwnerFor(calls, h) == Min(Readers(calls, h))

\* Mutant: among all calls.
ProducersOfAll(calls, i, h) == Readers(calls, h) \ {i}
\* detRegisterProducer: the same rule, among the calls before this one.
Producers(calls, i, h) == {j \in Readers(calls, h) : j < i}

(***************************************************************************)
(* Arguments.  An expression is <<"request", field>>, <<"param", name>>,   *)
(* <<"row", capture, host>>, <<"guess", field>> of the request, taken for  *)
(* its spelling, or <<"zero", host>>, which has a TODO.                    *)
(***************************************************************************)
Zero(h) == <<"zero", h>>

FromRow(calls, i, h) ==
  IF h \notin Numeric /\ Producers(calls, i, h) # {}
  THEN <<"row", calls[Min(Producers(calls, i, h))].capture, h>>
  ELSE Zero(h)

FromRequest(u, h) ==
  LET spelled == {f \in Range(RequestFields(u)) : <<h, f>> \in SameSpelling}
  IN CASE h \in DOMAIN RequestMap(u) -> <<"request", RequestMap(u)[h]>>
       [] h \notin DOMAIN RequestMap(u) /\ spelled # {} -> <<"guess", CHOOSE f \in spelled : TRUE>>
       [] OTHER -> Zero(h)

FromParams(u, h) == IF h \in Range(u.params) THEN <<"param", h>> ELSE Zero(h)

OwnValue(u, h) == IF u.sort = "helper" THEN FromParams(u, h) ELSE FromRequest(u, h)

CallArgs(u, calls, i) ==
  [k \in DOMAIN calls[i].binds |->
     LET h == calls[i].binds[k]
     IN IF OwnValue(u, h) # Zero(h) THEN OwnValue(u, h) ELSE FromRow(calls, i, h)]

\* A helper is called once, where its name first stands, and its arguments
\* are found by the names of its formals.
Called(u, fn) == {l \in At(u, "call") : u.src[l].fn = fn}

HelperCalls(u) ==
  {[site |-> Min(Called(u, fn)), line |-> Min(Called(u, fn)), fn |-> fn, int |-> Fns[fn].int,
    args |-> [k \in DOMAIN Fns[fn].formals |-> OwnValue(u, Fns[fn].formals[k])]]
   : fn \in {g \in DOMAIN Fns : Fns[g].sort = "helper" /\ g # u.name /\ Called(u, g) # {}}}

(***************************************************************************)
(* The statements of the body, in legacy order, a statement before a       *)
(* helper call on one line.                                                *)
(***************************************************************************)
Store(u, calls, i) ==
  [kind |-> "store", site |-> calls[i].site, line |-> calls[i].line, tx |-> calls[i].tx,
   shape |-> calls[i].shape, args |-> CallArgs(u, calls, i), name |-> calls[i].q,
   capture |-> calls[i].capture]
Helper(h) ==
  [kind |-> IF h.int THEN "status" ELSE "void", site |-> h.site, line |-> h.line, tx |-> FALSE,
   shape |-> "helper", args |-> h.args, name |-> h.fn, capture |-> <<h.fn, 1>>]

Rendered(u, calls) ==
  {Store(u, calls, i) : i \in DOMAIN calls} \cup {Helper(h) : h \in HelperCalls(u)}
Place(calls, e) ==
  IF e.kind = "store" THEN CHOOSE i \in DOMAIN calls : calls[i].site = e.site
  ELSE Len(calls) + 1
EventOrder(u, calls) ==
  {p \in Rendered(u, calls) \X Rendered(u, calls) :
     \/ p[1].line < p[2].line
     \/ p[1].line = p[2].line /\ Place(calls, p[1]) < Place(calls, p[2])}
Events(u, calls) == InOrder(Rendered(u, calls), EventOrder(u, calls))

\* Mutant: only the first call is asked.
HasTxFirst(calls) == calls # <<>> /\ calls[1].tx
HasTx(calls) == \E i \in DOMAIN calls : calls[i].tx

(***************************************************************************)
(* Response shaping: which read gives each response field.                 *)
(***************************************************************************)
Owned(u, calls) ==
  [f \in {g \in DOMAIN TargetOf(u) : Owns(calls, TargetOf(u)[g])} |->
     OwnerFor(calls, TargetOf(u)[f])]

Unsourced(u, calls) == Range(ResponseFields(u)) \ DOMAIN Owned(u, calls)

\* The row field of one read for one response field, and how it is known: its
\* own host variable, else the first row field whose name is alike.
RowField(u, calls, i, f) ==
  LET own == f \in DOMAIN TargetOf(u) /\ TargetOf(u)[f] \in Range(calls[i].row)
      alike == {k \in DOMAIN calls[i].row : <<calls[i].row[k], f>> \in Alike}
  IN CASE own -> {<<TargetOf(u)[f], "own">>}
       [] ~own /\ alike # {} -> {<<calls[i].row[Min(alike)], "alike">>}
       [] OTHER -> {}

Pairs(u, calls, i) ==
  {p \in Range(ResponseFields(u)) \X (UNION {Range(calls[j].row) : j \in DOMAIN calls}) \X {"own", "alike"} :
     /\ p[1] \in DOMAIN Owned(u, calls) => Owned(u, calls)[p[1]] = i
     /\ <<p[2], p[3]>> \in RowField(u, calls, i, p[1])}

Feeds(u, calls, i) == i \in Range(Owned(u, calls))

\* A read that feeds nothing but carries a host variable some unsourced
\* field is written from.
CouldSource(u, calls, i) ==
  \E f \in Unsourced(u, calls) \cap DOMAIN TargetOf(u) : TargetOf(u)[f] \in Range(calls[i].row)

Of(calls, shape) == {i \in DOMAIN calls : calls[i].shape = shape}
Reads(calls) == Of(calls, "rows") \cup Of(calls, "single") \cup Of(calls, "scalar")

\* The literals appended to the data: of every multi-row read, of the single
\* reads that feed the response, and a count put in the first field by position.
Literals(u, calls) ==
  {[capture |-> calls[i].capture, site |-> calls[i].site, pairs |-> Pairs(u, calls, i)]
   : i \in Of(calls, "rows") \cup {j \in Of(calls, "single") : Feeds(u, calls, j)}}

ScalarGuess(u, calls) ==
  IF Of(calls, "rows") \cup Of(calls, "single") = {} /\ ResponseFields(u) # <<>>
  THEN {i \in Of(calls, "scalar") : i = Min(Of(calls, "scalar"))}
  ELSE {}

ShapingNotes(u, calls) ==
  IF Reads(calls) = {}
  THEN {<<"no row source", f>> : f \in Range(ResponseFields(u))}
  ELSE {<<"unsourced", f>> : f \in Unsourced(u, calls)}
       \cup {<<IF CouldSource(u, calls, i) THEN "not placed" ELSE "kept", calls[i].site>>
             : i \in {j \in Of(calls, "single") : ~Feeds(u, calls, j)}}
       \cup {<<IF i \in ScalarGuess(u, calls) THEN "by position" ELSE "scalar unused", calls[i].site>>
             : i \in Of(calls, "scalar")}

(***************************************************************************)
(* The TODO trail of the calls.                                            *)
(***************************************************************************)
ZeroNotes(events) ==
  UNION {{<<"zero", e.name, a[2]>> : a \in {b \in Range(e.args) : b[1] = "zero"}}
         : e \in Range(events)}

StubNotes(u) == {<<"stub", u.src[l].fn>> : l \in {k \in At(u, "call") : Fns[u.src[k].fn].sort = "stub"}}

\* Mutant: the last line of the slice is left out.
TpNotesShort(u) == {<<"tpcall", l>> : l \in {k \in At(u, "tpcall") : 1 <= k /\ k < Len(u.src)}}

\* The service calls between the first and the last line of the slice.
TpNotes(u) == {<<"tpcall", l>> : l \in {k \in At(u, "tpcall") : 1 <= k /\ k <= Len(u.src)}}

(***************************************************************************)
(* Helper control flow: every branch and loop of the C body is rendered by *)
(* the error check of the call before it, elided by an idiom, or missing.  *)
(***************************************************************************)
ParentOf(u, l) == IF Around(u, l) = {} THEN 0 ELSE Max(Around(u, l))
Siblings(u, l) == {k \in Lines(u) : k < l /\ ParentOf(u, k) = ParentOf(u, l)}

IsRequestGuard(u, g) ==
  /\ u.src[g].op = "if" /\ u.src[g].cond = "Fget32"
  /\ \E l \in Inside(u, g) : u.src[l].op = "error"
  /\ \E l \in Inside(u, g) : u.src[l].op = "return"

\* Every call of the block is a logging call; a statement is no call.
IsDebugIf(u, g) ==
  /\ u.src[g].op = "if" /\ u.src[g].cond = "DEBUG"
  /\ \E l \in Inside(u, g) : u.src[l].op = "log"
  /\ \A l \in Inside(u, g) : u.src[l].op \notin {"call", "tpcall", "get", "add", "error"}

IsOccDecodeLoop(u, g) == u.src[g].op = "loop" /\ u.src[g].cond = "Foccur32"

\* A loop whose body, outside its inner loops, has a subscript and a -1 in a
\* statement or a condition.  A do loop and a loop with a FETCH are matched first.
IsErrOpLoop(u, g) ==
  /\ u.src[g].op = "loop" /\ u.src[g].cond \notin {"do", "FETCH"}
  /\ \E l \in Inside(u, g) :
       /\ u.src[l].op = "slot" \/ (u.src[l].op = "if" /\ u.src[l].cond = "slot")
       /\ \A k \in Around(u, l) : u.src[k].op = "loop" => k <= g

Elidable(u, g) ==
  IsRequestGuard(u, g) \/ IsDebugIf(u, g) \/ IsOccDecodeLoop(u, g) \/ IsErrOpLoop(u, g)

SqlAt(calls) == {calls[i].line : i \in DOMAIN calls}
IsErrorCheck(u, calls, g) ==
  /\ u.src[g].cond = "SQLCODE !="
  /\ Siblings(u, g) # {}
  /\ Max(Siblings(u, g)) \in SqlAt(calls)

\* A block that is taken for the error check of a call or for an idiom.
TakenFor(u, calls, g) == IsErrorCheck(u, calls, g) \/ Elidable(u, g)
NotRendered(u, calls) == {g \in Headers(u) : ~TakenFor(u, calls, g)}

\* Mutant: the last line of a block is outside it.
GuardingShort(u, calls, line) == {g \in NotRendered(u, calls) : g <= line /\ line < u.src[g].to}

\* The innermost missing construct whose span holds the line of a call.
Guarding(u, calls, line) == {g \in NotRendered(u, calls) : g <= line /\ line <= u.src[g].to}
Innermost(u, guards) ==
  CHOOSE g \in guards : \A k \in guards : u.src[g].to - g <= u.src[k].to - k

GuardLeaks(u, calls, events) ==
  {<<"leak", e.name, e.line, Innermost(u, Guarding(u, calls, e.line))>>
   : e \in {d \in Range(events) : Guarding(u, calls, d.line) # {}}}

FlowNotes(u, calls, events) ==
  {<<"not rendered", g>> : g \in NotRendered(u, calls)} \cup GuardLeaks(u, calls, events)

(***************************************************************************)
(* What a failed call returns, and the end of the body.  "err" is the      *)
(* variable, "new" an error made on the spot.                              *)
(***************************************************************************)
ReturnOnError(u, e) ==
  CASE Void(u) -> "nothing"
    [] u.sort = "helper" /\ ~Void(u) -> "-1"
    [] u.sort # "helper" /\ e.kind = "store" -> "err"
    [] OTHER -> "new"

\* Mutant: the closure returns the first value of the method's return.
ClosureReturnFirst(u, e) == IF u.sort = "helper" THEN "err" ELSE "nil"

\* detClosureLine, detFnErrReturn: in the closure of a transaction the error
\* is returned, and a helper returns the variable whatever failed.
ClosureReturn(u, e) == IF u.sort = "helper" THEN "err" ELSE ReturnOnError(u, e)

SuccessValue(u) ==
  LET values == {u.src[l].value : l \in {k \in At(u, "return") : u.src[k].value >= 0}}
  IN IF Cardinality(values) = 1 THEN CHOOSE v \in values : TRUE ELSE 0

\* A helper that did not make its service call must not report success.
TailValue(u) == IF u.sort = "helper" /\ At(u, "tpcall") # {} THEN -1 ELSE SuccessValue(u)

(***************************************************************************)
(* A line that ends a helper statement with no newline swallows the next.  *)
(***************************************************************************)
EndsOpen(u, e) ==
  u.sort = "helper" /\ (e.kind = "status" \/ e.shape = "error")

Parses(u, events) == \A i \in 1 .. Len(events) - 1 : ~EndsOpen(u, events[i])

Body(u) ==
  LET of(calls) ==
        LET with(events) ==
              [events |-> events, tx |-> HasTx(calls), tail |-> TailValue(u),
               parses |-> Parses(u, events),
               literals |-> IF u.sort = "helper" THEN {} ELSE Literals(u, calls),
               notes |-> ZeroNotes(events) \cup StubNotes(u) \cup TpNotes(u)
                         \cup (IF u.sort = "helper" THEN FlowNotes(u, calls, events)
                               ELSE ShapingNotes(u, calls))]
        IN with(Events(u, calls))
  IN of(Ordered(u))
-----------------------------------------------------------------------------
(***************************************************************************)
(* Writing and running a body.                                             *)
(***************************************************************************)
VARIABLES text,     \* the C text
          goBody,     \* what was written for it
          goStage,    \* "write", "run", "done", "skipped"
          ran,      \* the lines of the calls that succeeded, in order
          err,      \* the error variable: "nil" or "set"
          tx,       \* the lines changed in the open transaction
          durable,  \* the lines whose changes the database keeps
          failed,   \* a call failed
          result    \* "none", "ok", "error", and "silent" for a void helper

goVars == <<text, goBody, goStage, ran, err, tx, durable, failed, result>>

NoGoBody == [events |-> <<>>, tx |-> FALSE, tail |-> 0, parses |-> FALSE, literals |-> {}, notes |-> {}]

GoInit ==
  /\ text \in Units
  /\ goBody = NoGoBody /\ goStage = "write"
  /\ ran = <<>> /\ err = "nil" /\ tx = {} /\ durable = {} /\ failed = FALSE /\ result = "none"

\* A body that fails its gates is left out.
Write ==
  /\ goStage = "write"
  /\ goBody' = Body(text)
  /\ goStage' = IF goBody'.parses THEN "run" ELSE "skipped"
  /\ UNCHANGED <<text, ran, err, tx, durable, failed, result>>

AtCall == goStage = "run" /\ Len(ran) < Len(goBody.events)
Current == goBody.events[Len(ran) + 1]
Changes(e) == text.src[e.site].op = "dml"

CallSucceeds ==
  /\ AtCall
  /\ ran' = Append(ran, Current.site)
  /\ err' = IF Current.kind = "store" THEN "nil" ELSE err
  /\ tx' = IF Current.tx THEN tx \cup {Current.site} ELSE tx
  /\ durable' = IF Changes(Current) /\ ~Current.tx THEN durable \cup {Current.site} ELSE durable
  /\ UNCHANGED <<text, goBody, goStage, failed, result>>

\* What a method tells its caller: a void helper nothing.
Told(error) == IF Void(text) THEN "silent" ELSE IF error THEN "error" ELSE "ok"

\* What the closure returns decides the transaction, and the method returns
\* an error when it was rolled back.
Ends(code, errvar) ==
  LET error == code \in {"new", "-1"} \/ (code = "err" /\ errvar = "set")
  IN /\ goStage' = "done" /\ tx' = {}
     /\ durable' = IF goBody.tx /\ ~error THEN durable \cup tx ELSE durable
     /\ result' = Told(error \/ goBody.tail = -1)

\* A call of a void helper reports nothing.
CallFails ==
  /\ AtCall
  /\ Current.kind # "void"
  /\ failed' = TRUE
  /\ err' = IF Current.kind = "store" THEN "set" ELSE err
  /\ Ends(IF goBody.tx THEN ClosureReturn(text, Current) ELSE ReturnOnError(text, Current), err')
  /\ UNCHANGED <<text, goBody, ran>>

Returns ==
  /\ goStage = "run" /\ Len(ran) = Len(goBody.events)
  /\ Ends("nil", err)
  /\ UNCHANGED <<text, goBody, ran, err, failed>>

\* The commit of utils.ExecTransaction fails.
CommitFails ==
  /\ goStage = "run" /\ Len(ran) = Len(goBody.events) /\ goBody.tx
  /\ failed' = TRUE /\ goStage' = "done" /\ tx' = {} /\ result' = Told(TRUE)
  /\ UNCHANGED <<text, goBody, ran, err, durable>>

GoNext == Write \/ CallSucceeds \/ CallFails \/ Returns \/ CommitFails

GoSpec == GoInit /\ [][GoNext]_goVars
-----------------------------------------------------------------------------
(***************************************************************************)
(* The C text, executed: what a host variable holds before a line, as the  *)
(* place its value came from.                                              *)
(***************************************************************************)
Writes(line) ==
  CASE line.op \in {"get", "copy"} -> {line.host}
    [] line.op = "read" -> Range(line.into)
    [] OTHER -> {}

Writers(u, h) == {l \in Lines(u) : h \in Writes(u.src[l])}
Early(u, h) == {i \in DOMAIN u.preamble : u.preamble[i].host = h}

Hosts(u) == UNION {Mentions(u.src[l]) : l \in Lines(u)}

\* What a host variable holds until a line of the text fills it.
Initially(u, h) ==
  CASE Early(u, h) # {} -> <<"field", u.preamble[Max(Early(u, h))].field>>
    [] Early(u, h) = {} /\ h \in Range(u.params) -> <<"formal", h>>
    [] OTHER -> <<"nothing", h>>

CValues(u) ==
  LET value[p \in Hosts(u) \X Lines(u)] ==
        LET earlier == {l \in Writers(u, p[1]) : l < p[2]}
            last == Max(earlier)
            writer == u.src[last]
        IN CASE earlier = {} -> Initially(u, p[1])
             [] earlier # {} /\ writer.op = "get" -> <<"field", writer.field>>
             [] earlier # {} /\ writer.op = "read" -> <<"column", last, p[1]>>
             [] OTHER -> value[<<writer.from, last>>]
  IN value
CValue(u, host, line) == CValues(u)[<<host, line>>]

\* What an expression of the body denotes.
GoValue(e) ==
  CASE e[1] \in {"request", "guess"} -> <<"field", e[2]>>
    [] e[1] = "param" -> <<"formal", e[2]>>
    [] e[1] = "row" -> <<"column", CHOOSE c \in Statements(text) : \E i \in DOMAIN Ordered(text) :
                           Ordered(text)[i].site = c /\ Ordered(text)[i].capture = e[2], e[3]>>

\* The places that fill a host variable, and those that have by a line.
Fillings(u, h) ==
  {<<"line", l>> : l \in Writers(u, h)} \cup {<<"preamble", i>> : i \in Early(u, h)}
    \cup {<<"formal", k>> : k \in {n \in DOMAIN u.params : u.params[n] = h}}
FilledBy(u, h, l) == {x \in Fillings(u, h) : x[1] = "line" => x[2] < l}

\* By a line one place has filled a host variable, or several did and the last
\* was a read of the request, and no such read of it follows.  The statements
\* of a helper may be planned in another order: no other line of it fills it.
Settled(u, h, l) ==
  LET gets == {g \in At(u, "get") : u.src[g].host = h}
  IN IF u.sort = "helper"
     THEN (\A x, y \in Fillings(u, h) : x = y) /\ \A w \in Writers(u, h) : w <= l
     ELSE /\ \A g \in gets : g < l
          /\ \/ \A x, y \in FilledBy(u, h, l) : x = y
             \/ gets # {} /\ \A w \in Writers(u, h) : w < l => w <= Max(gets)

\* By a line a host variable has been filled by one read of a row, and nothing
\* else: the column of a scalar read is in no index.
FilledByRead(u, h, l) ==
  \E w \in At(u, "read") :
    u.src[w].shape \in {"rows", "single"} /\ w < l /\ FilledBy(u, h, l) = {<<"line", w>>}

\* The lines that write a field of the reply from a host variable.
AddsOf(u, f, h) ==
  {l \in At(u, "add") : u.src[l].reply /\ u.src[l].field = f /\ u.src[l].host = h}

Written == goStage \in {"run", "done", "skipped"}

\* What a line passes to a statement or a function, and the names its call is
\* bound by.
Passed(line) == IF line.op = "call" THEN line.actuals ELSE line.binds
BoundBy(e) == IF e.kind = "store" THEN text.src[e.site].binds ELSE Fns[e.name].formals

\* An argument bound by the name the C text passes holds, at that call, what the
\* text passes there, and a response field bound to a read by its own host
\* variable what the text writes into the reply: wherever what the variable
\* holds by then is settled.
ValuesAreLegacy ==
  Written =>
    /\ \A e \in Range(goBody.events) : \A k \in DOMAIN e.args :
         LET passed == Passed(text.src[e.site])
         IN /\ e.args[k][1] \notin {"zero", "guess"}
            /\ k \in DOMAIN passed /\ passed[k] = BoundBy(e)[k]
            /\ Settled(text, passed[k], e.site)
            => GoValue(e.args[k]) = CValue(text, passed[k], e.site)
    /\ \A lit \in goBody.literals : \A p \in lit.pairs :
         p[3] = "own" =>
           /\ AddsOf(text, p[1], p[2]) # {}
           /\ \A l \in AddsOf(text, p[1], p[2]) :
                FilledByRead(text, p[2], l) => CValue(text, p[2], l) = <<"column", lit.site, p[2]>>

\* The same without a condition, which is not so: of guesses, of actuals that
\* are not the formals, and of host variables filled again (README).
EveryValueIsLegacy ==
  Written =>
    /\ \A e \in Range(goBody.events) : \A k \in DOMAIN e.args :
         e.args[k][1] # "zero" =>
           GoValue(e.args[k]) = CValue(text, Passed(text.src[e.site])[k], e.site)
    /\ \A lit \in goBody.literals : \A p \in lit.pairs :
         \E l \in At(text, "add") :
           /\ text.src[l].reply /\ text.src[l].field = p[1]
           /\ CValue(text, text.src[l].host, l) = <<"column", lit.site, p[2]>>

\* A helper is never left out because its own text does not parse.
BodiesParse == goStage # "skipped"

\* The calls of the body stand in the order of the C text.
OrderIsLegacy ==
  Written => \A i, j \in DOMAIN goBody.events :
    i < j => goBody.events[i].site <= goBody.events[j].site

\* A body that reports at all reports a failure exactly when one of its calls
\* failed, or when it is a helper that left out its service call.
ReportsFailure ==
  goStage = "done" /\ ~Void(text) => (result = "error" <=> (failed \/ goBody.tail = -1))

\* The statements of one transaction are kept together: all of them when the
\* body reports success, none when a call or the commit failed.
OneTransaction ==
  goStage = "done" =>
    LET txs == {e.site : e \in {x \in Range(goBody.events) : x.tx}}
    IN durable \cap txs = IF failed THEN {} ELSE txs

\* A function of the plan, rendered or stubbed, and not the text itself.
Planned(u, fn) == fn # u.name /\ Fns[fn].sort \in {"helper", "stub"}

\* A statement, a function of the plan, a service call and a reply field are in
\* the body or have a note.
Accounted(line, l) ==
  CASE line.op \in {"read", "dml"} -> \E e \in Range(goBody.events) : e.site = l
    [] line.op = "call" /\ Planned(text, line.fn) ->
         \/ \E e \in Range(goBody.events) : e.name = line.fn
         \/ <<"stub", line.fn>> \in goBody.notes
    [] line.op = "tpcall" -> <<"tpcall", l>> \in goBody.notes
    [] line.op = "add" /\ text.sort = "endpoint" ->
         \/ \E lit \in goBody.literals : \E p \in lit.pairs : p[1] = line.field
         \/ \E n \in goBody.notes : n[1] \in {"unsourced", "no row source"} /\ n[2] = line.field
    [] OTHER -> TRUE

\* No line of the C text is dropped without a word, and no argument is left
\* without a value and without a note.
NothingDropped ==
  Written =>
    /\ \A l \in Lines(text) : Accounted(text.src[l], l)
    /\ \A e \in Range(goBody.events) : \A a \in Range(e.args) :
         a[1] = "zero" => <<"zero", e.name, a[2]>> \in goBody.notes

\* A call of a helper, planned at its own line, that the C text makes only in
\* blocks has a note that names the innermost of those which are taken neither
\* for an error check nor for an idiom, and one in no such block has none.
GuardedCallsReported ==
  Written /\ text.sort = "helper" =>
    \A e \in Range(goBody.events) :
      LET blocks == {g \in Around(text, e.site) : ~TakenFor(text, Ordered(text), g)}
          noted == {n \in goBody.notes : n[1] = "leak" /\ n[2] = e.name}
      IN e.line = e.site =>
           /\ blocks # {} => <<"leak", e.name, e.site, Max(blocks)>> \in noted
           /\ blocks = {} => ~ \E n \in noted : n[3] = e.site

\* What the text executes is in the body or has a note, and a call moved out
\* of its block has one.
NothingLeftOut == NothingDropped /\ GuardedCallsReported

\* The same of every call in a block, and of every function called, which is
\* not so: blocks taken for what they are not, statements that share their text
\* with one elsewhere, functions outside the plan (README).
EveryOmissionHasItsNote ==
  Written =>
    /\ \A l \in At(text, "call") :
         \/ \E e \in Range(goBody.events) : e.site = l
         \/ <<"stub", text.src[l].fn>> \in goBody.notes
    /\ text.sort = "helper" =>
         \A e \in Range(goBody.events) :
           Around(text, e.site) # {} =>
             <<"leak", e.name, e.site, Max(Around(text, e.site))>> \in goBody.notes
=============================================================================
