----------------------------- MODULE Predicates -----------------------------
(***************************************************************************)
(* internal/pred: the condition of a branch as a tree, how it is parsed    *)
(* from the tokens of the source, printed back, rewritten by #define, and  *)
(* compared by the guard checks.  A token is a leaf of the tree or a node  *)
(* of kind "tok"; the characters of a name or a literal are not modelled.  *)
(***************************************************************************)
EXTENDS Naturals, Sequences, SequencesExt, FiniteSetsExt

Node(kind, text, items) == [kind |-> kind, text |-> text, items |-> items]
Ident(n) == Node("ident", n, <<>>)
Chr(v) == Node("chr", v, <<>>)        \* 'A'
Str(v) == Node("str", v, <<>>)        \* "A"
Num(v) == Node("num", v, <<>>)
Call(name, args) == Node("call", name, args)
Cmp(l, op, r) == Node("cmp", op, <<l, r>>)
Not(e) == Node("not", "", <<e>>)
Or(es) == Node("or", "", es)
And(es) == Node("and", "", es)
Raw(ts) == Node("raw", "", ts)        \* text outside the grammar, as tokens
Empty == Node("", "", <<>>)           \* Go's zero Expr
Tok(t) == Node("tok", t, <<>>)

IsLit(e) == e.kind \in {"chr", "str", "num"}
CmpOps == {"==", "!=", ">=", "<=", ">", "<"}
\* What may not follow a finished comparison.
Continues == {"+", "-", "*", "/", "%", "?", ":", "=", "|", "&"}

---------------------------------------------------------------------------
\* The recursive-descent parser: every operator returns the tree and the
\* position after it, or Fail.
Fail == [ok |-> FALSE, e |-> Empty, pos |-> 0]
At(ts, i) == IF i <= Len(ts) THEN ts[i] ELSE Tok("end")
Got(e, i) == [ok |-> TRUE, e |-> e, pos |-> i]

RECURSIVE ParseList(_, _), ParseMore(_, _, _, _), ParseUnary(_, _)

\* One comparison at most: a second one leaves its operator unread.
Compared(ts, l, op, r) ==
  IF ~r.ok \/ At(ts, r.pos) \in {Tok(c) : c \in Continues} THEN Fail
  ELSE Got(Cmp(l.e, op, r.e), r.pos)
AfterOperand(ts, l, op) ==
  IF ~l.ok THEN Fail
  ELSE IF op.kind # "tok" \/ op.text \notin CmpOps THEN l
  ELSE Compared(ts, l, op.text, ParseUnary(ts, l.pos + 1))
OperatorAfter(ts, l) == AfterOperand(ts, l, At(ts, l.pos))
ParseCmp(ts, i) == OperatorAfter(ts, ParseUnary(ts, i))

\* parseOr and parseAnd: a list of the next level, joined by one operator.
AfterItem(op, ts, items, n) ==
  IF ~n.ok THEN Fail
  ELSE IF At(ts, n.pos) = Tok(op) THEN ParseMore(op, ts, Append(items, n.e), n.pos + 1)
  ELSE Got(IF items = <<>> THEN n.e
           ELSE IF op = "||" THEN Or(Append(items, n.e)) ELSE And(Append(items, n.e)), n.pos)
ParseMore(op, ts, items, i) ==
  AfterItem(op, ts, items, IF op = "||" THEN ParseList(ts, i) ELSE ParseCmp(ts, i))
ParseList(ts, i) == ParseMore("&&", ts, <<>>, i)
ParseOr(ts, i) == ParseMore("||", ts, <<>>, i)

Inverted(n) == IF n.ok THEN Got(Not(n.e), n.pos) ELSE Fail
Unwrapped(ts, n) == IF n.ok /\ At(ts, n.pos) = Tok(")") THEN Got(n.e, n.pos + 1) ELSE Fail
ParseUnary(ts, i) ==
  CASE At(ts, i) = Tok("!") -> Inverted(ParseUnary(ts, i + 1))
    [] At(ts, i) = Tok("(") -> Unwrapped(ts, ParseOr(ts, i + 1))
    [] At(ts, i).kind = "tok" /\ At(ts, i).text \notin {"!", "("} -> Fail
    [] OTHER -> Got(At(ts, i), i + 1)

Parsed(ts, n) == IF n.ok /\ n.pos > Len(ts) THEN n.e ELSE Raw(ts)
Parse(ts) == Parsed(ts, ParseOr(ts, 1))

---------------------------------------------------------------------------
RECURSIVE Joined(_, _), Printed(_), Tokens(_)
Joined(parts, op) ==
  IF Len(parts) <= 1 THEN FlattenSeq(parts)
  ELSE parts[1] \o <<Tok(op)>> \o Joined(Tail(parts), op)

\* Expr.String: only || and && are put in parentheses.
Printed(e) ==
  LET parts == [i \in DOMAIN e.items |-> Printed(e.items[i])] IN
  CASE e.kind = "or" -> <<Tok("(")>> \o Joined(parts, "||") \o <<Tok(")")>>
    [] e.kind = "and" -> <<Tok("(")>> \o Joined(parts, "&&") \o <<Tok(")")>>
    [] e.kind = "not" -> <<Tok("!")>> \o parts[1]
    [] e.kind = "cmp" -> parts[1] \o <<Tok(e.text)>> \o parts[2]
    [] e.kind = "raw" -> e.items
    [] e.kind = "" -> <<Str("")>>
    [] OTHER -> <<e>>

\* How a C programmer writes the same condition (the input of the scanner).
Wrapped(e) == IF e.kind \in {"or", "and", "cmp"}
              THEN <<Tok("(")>> \o Tokens(e) \o <<Tok(")")>> ELSE Tokens(e)
Tokens(e) ==
  LET parts == [i \in DOMAIN e.items |->
        IF e.kind = "and" /\ e.items[i].kind = "cmp" THEN Tokens(e.items[i])
        ELSE IF e.kind = "or" /\ e.items[i].kind \in {"cmp", "and"}
        THEN Tokens(e.items[i]) ELSE Wrapped(e.items[i])] IN
  CASE e.kind = "or" -> Joined(parts, "||")
    [] e.kind = "and" -> Joined(parts, "&&")
    [] e.kind = "not" -> <<Tok("!")>> \o parts[1]
    [] e.kind = "cmp" -> parts[1] \o <<Tok(e.text)>> \o parts[2]
    [] OTHER -> <<e>>

---------------------------------------------------------------------------
RECURSIVE Substitute(_, _), Resolved(_, _, _)
\* The define chain: literals resolve, an alias is followed, a cycle or a
\* compound value keeps the name.
Resolved(n, defines, seen) ==
  IF n \in seen \/ n \notin DOMAIN defines THEN Empty
  ELSE LET d == defines[n] IN
       IF IsLit(d) THEN d
       ELSE IF d.kind = "ident" THEN Resolved(d.text, defines, seen \cup {n})
       ELSE Empty
Substitute(e, defines) ==
  IF e.kind = "ident"
  THEN LET r == Resolved(e.text, defines, {}) IN IF r = Empty THEN e ELSE r
  ELSE IF e.kind \in {"or", "and", "not", "cmp"}
  THEN [e EXCEPT !.items = [i \in DOMAIN e.items |-> Substitute(e.items[i], defines)]]
  ELSE e

---------------------------------------------------------------------------
\* Presence checks: Foccur32 against the 0/1 boundary, and the Go form.
None == [ok |-> FALSE, field |-> "", present |-> FALSE]
Swapped == [o \in CmpOps |-> CASE o = ">" -> "<" [] o = "<" -> ">"
                               [] o = ">=" -> "<=" [] o = "<=" -> ">=" [] OTHER -> o]
IsFoccur(e) == e.kind = "call" /\ e.text = "Foccur32" /\ Len(e.items) >= 2
Boundary(op, n) == CASE op \in {">", "!="} -> IF n = "0" THEN "present" ELSE ""
                     [] op = ">=" -> IF n = "1" THEN "present" ELSE ""
                     [] op \in {"==", "<="} -> IF n = "0" THEN "absent" ELSE ""
                     [] op = "<" -> IF n = "1" THEN "absent" ELSE ""
Presence(call, op, lit) ==
  LET b == IF lit.kind = "num" THEN Boundary(op, lit.text) ELSE ""
  IN IF b = "" THEN None
     ELSE [ok |-> TRUE, field |-> call.items[2].text, present |-> b = "present"]
PresenceOf0(e) ==
  CASE IsFoccur(e) -> [ok |-> TRUE, field |-> e.items[2].text, present |-> TRUE]
    [] e.kind = "cmp" /\ IsFoccur(e.items[1]) -> Presence(e.items[1], e.text, e.items[2])
    [] e.kind = "cmp" /\ ~IsFoccur(e.items[1]) /\ IsFoccur(e.items[2]) ->
         Presence(e.items[2], Swapped[e.text], e.items[1])
    [] OTHER -> None
\* One negation is seen through, a double one is not.
PresenceOf(e) ==
  IF e.kind = "not" THEN LET p == PresenceOf0(e.items[1])
                         IN IF p.ok THEN [p EXCEPT !.present = ~@] ELSE None
  ELSE PresenceOf0(e)
GoPresenceOf(e) ==
  LET id == SelectSeq(e.items, LAMBDA x : x.kind = "ident")
      lit == SelectSeq(e.items, LAMBDA x : x.kind \in {"chr", "str"} /\ x.text = "")
  IN IF e.kind = "cmp" /\ e.text \in {"==", "!="} /\ Len(id) = 1 /\ Len(lit) = 1
     THEN [ok |-> TRUE, field |-> id[1].text, present |-> e.text = "!="]
     ELSE None

---------------------------------------------------------------------------
\* What the condition means to the C program: a value, "0" being false.
\* env gives every identifier a value and every FML field a count.
Truth(b) == IF b THEN "1" ELSE "0"
RECURSIVE Value(_, _)
Value(e, env) ==
  LET v(i) == Value(e.items[i], env) IN
  CASE e.kind = "ident" -> env[e.text]
    [] IsLit(e) -> e.text
    [] e.kind = "or" -> Truth(\E i \in DOMAIN e.items : v(i) # "0")
    [] e.kind = "and" -> Truth(\A i \in DOMAIN e.items : v(i) # "0")
    [] e.kind = "not" -> Truth(v(1) = "0")
    [] e.kind = "call" /\ e.text \in {"strcmp", "strncmp"} -> Truth(v(1) # v(2))
    [] e.kind = "call" /\ e.text = "Foccur32" -> env[e.items[2].text]
    [] GoPresenceOf(e).ok -> Truth((env[GoPresenceOf(e).field] # "0")
                                   = GoPresenceOf(e).present)
    [] e.kind = "cmp" /\ e.text = "==" -> Truth(v(1) = v(2))
    [] e.kind = "cmp" /\ e.text = "!=" -> Truth(v(1) # v(2))
    [] e.kind = "cmp" /\ e.text = ">" -> Truth(v(1) # "0" /\ v(2) = "0")
    [] e.kind = "cmp" /\ e.text = "<" -> Truth(v(1) = "0" /\ v(2) # "0")
    [] e.kind = "cmp" /\ e.text = ">=" -> Truth(v(1) # "0" \/ v(2) = "0")
    [] e.kind = "cmp" /\ e.text = "<=" -> Truth(v(1) = "0" \/ v(2) # "0")
    [] OTHER -> "0"
Holds(e, env) == Value(e, env) # "0"

---------------------------------------------------------------------------
RECURSIVE Flat(_, _), Equivalent(_, _)
Flat(e, kind) == IF e.kind # kind THEN <<e>>
                 ELSE FlattenSeq([i \in DOMAIN e.items |-> Flat(e.items[i], kind)])
\* Literals are compared by content: 'F' is "F".
NormLit(e) == IF e.kind = "chr" THEN [e EXCEPT !.kind = "str"] ELSE e
Equivalent(a, b) ==
  LET pa == PresenceOf(a)  pb == PresenceOf(b)
      ga == GoPresenceOf(a)  gb == GoPresenceOf(b)
      both(i, j) == Equivalent(a.items[i], b.items[j])
  IN IF pa.ok /\ pb.ok THEN pa = pb
     ELSE IF pa.ok /\ gb.ok THEN pa = gb
     ELSE IF ga.ok /\ pb.ok THEN ga = pb
     ELSE IF IsLit(a) THEN NormLit(a) = NormLit(b)
     ELSE IF a.kind # b.kind THEN FALSE
     ELSE CASE a.kind \in {"or", "and"} ->
                 LET xs == Flat(a, a.kind)  ys == Flat(b, a.kind)
                 IN Len(xs) = Len(ys) /\ \E p \in Permutations(DOMAIN ys) :
                      \A i \in DOMAIN xs : Equivalent(xs[i], ys[p[i]])
            [] a.kind = "not" -> both(1, 1)
            [] a.kind = "cmp" ->
                 /\ a.text = b.text
                 /\ \/ both(1, 1) /\ both(2, 2)
                    \/ a.text \in {"==", "!="} /\ both(1, 2) /\ both(2, 1)
            [] a.kind = "call" -> /\ a.text = b.text /\ Len(a.items) = Len(b.items)
                                  /\ \A i \in DOMAIN a.items : both(i, i)
            [] OTHER -> a = b
=============================================================================
