------------------------------ MODULE FlowTree ------------------------------
(***************************************************************************)
(* internal/flow/flow.go and axes.go: the statement tree of one function,  *)
(* built from the facts the scanner (internal/tsscan) recorded line by     *)
(* line, and the variables its branches dispatch on.                       *)
(* A source is a sequence of lines; FactsOf stands for the scanner, Build  *)
(* for the tree, and Runs for the C program the lines are.                 *)
(***************************************************************************)
EXTENDS Predicates, TLC

\* One source line: an optional `}`, an optional header with its condition,
\* an optional `{`, or a statement.  What a statement names is in args:
\* assign <<variable, value>>, get <<field, variable>>, call <<function>>,
\* add <<field, variable>>, sql <<query, verb, variable>>.  The value of a
\* variable filled by a read is the name of what filled it.
SrcLine(closes, head, cond, opens, stmt, args) ==
  [closes |-> closes, head |-> head, cond |-> cond, opens |-> opens,
   stmt |-> stmt, args |-> args]
Opener(head, cond) == SrcLine(FALSE, head, cond, TRUE, "", <<>>)
Cuddled(head, cond) == SrcLine(TRUE, head, cond, TRUE, "", <<>>)
Unbraced(head, cond) == SrcLine(FALSE, head, cond, FALSE, "", <<>>)
Close == SrcLine(TRUE, "", Empty, FALSE, "", <<>>)
Stmt(kind, args) == SrcLine(FALSE, "", Empty, FALSE, kind, args)
Return == Stmt("return", <<>>)

---------------------------------------------------------------------------
InOrder(src, lines) == SelectSeq([i \in DOMAIN src |-> i], LAMBDA i : i \in lines)

\* The blocks open before line i, innermost last; one more after the last.
OpenBlocks(src) ==
  LET step(obs, i) ==
        LET before == IF src[i].closes /\ Last(obs) # <<>> THEN Front(Last(obs)) ELSE Last(obs)
        IN Append(obs, IF src[i].opens THEN Append(before, i) ELSE before)
  IN FoldLeft(step, <<<<>>>>, InOrder(src, DOMAIN src))
\* The header that governs line i: the unbraced one just above, or the
\* innermost open block.
OwnersOf(src) ==
  LET ob == OpenBlocks(src) IN
  [i \in DOMAIN src |->
     LET outer == IF src[i].closes /\ ob[i] # <<>> THEN Front(ob[i]) ELSE ob[i]
     IN IF i > 1 /\ src[i-1].head # "" /\ ~src[i-1].opens /\ ~src[i].closes THEN i - 1
        ELSE IF outer = <<>> THEN 0 ELSE Last(outer)]
\* The line that closes the block opened at i.
CloserOf(src, i) ==
  LET ob == OpenBlocks(src)
      ends == {j \in i+1..Len(src) : src[j].closes /\ Last(ob[j]) = i}
  IN IF ends = {} THEN 0 ELSE Min(ends)

\* Branch, Loop, SQL and Return facts: what walkIf, walkWhile and the SQL
\* regions record, as the anchors collectAnchors makes of them.
Anchor(src, i) ==
  LET l == src[i]
      braced == l.opens /\ CloserOf(src, i) # 0
  IN [kind |-> CASE l.head = "while" -> "loop" [] l.head # "" -> "branch"
                 [] l.stmt = "sql" -> "sql" [] l.stmt = "return" -> "return"
                 [] OTHER -> "decl",
      sub |-> l.head, line |-> i, end |-> IF braced THEN CloserOf(src, i) ELSE i,
      cond |-> l.cond, braced |-> braced]
FactsOf(src) ==
  LET is == {i \in DOMAIN src : src[i].head # "" \/ src[i].stmt \in {"sql", "return", "decl"}}
      order == InOrder(src, is)
  IN [n \in DOMAIN order |-> Anchor(src, order[n])]

---------------------------------------------------------------------------
TreeNode(kind, sub, line, end, cond, pred, kids) ==
  [kind |-> kind, sub |-> sub, line |-> line, end |-> end, cond |-> cond,
   pred |-> pred, kids |-> kids]
IsCode(l) == l.head # "" \/ l.stmt # ""

\* The run of uncovered code lines between two anchors; its span keeps the
\* bare braces at its edges.
ResidualRun(src, from, to) ==
  LET code == {l \in from..to : IsCode(src[l])}
      unknown == \E l \in code : src[l].stmt = "break" \/ src[l].head # ""
  IN IF code = {} THEN <<>>
     ELSE <<TreeNode(IF unknown THEN "unknown" ELSE "stmt", "", from, to, Empty, Empty, <<>>)>>

\* The first statement of the run becomes the body of the unbraced branch
\* still pending; the branch's span grows over it.
AdoptUnbracedBody(src, nodes, run, host) ==
  IF run = <<>> THEN nodes
  ELSE IF host = 0 THEN nodes \o run
  ELSE LET k == Min({l \in run[1].line..run[1].end : IsCode(src[l])})
           body == [run[1] EXCEPT !.end = k]
       IN [nodes EXCEPT ![host].kids = <<body>>, ![host].end = k]
          \o ResidualRun(src, k + 1, run[1].end)

RECURSIVE Nest(_, _, _, _, _), NestFrom(_, _, _, _, _, _, _, _)
NestFrom(src, defines, as, i, cur, to, nodes, unbraced) ==
  IF i > Len(as)
  THEN AdoptUnbracedBody(src, nodes, ResidualRun(src, cur, to), unbraced)
  ELSE LET a == as[i] IN
  IF a.line < cur \/ a.line > to \/ a.end > to
  THEN NestFrom(src, defines, as, i + 1, cur, to, nodes, unbraced)
  ELSE LET run == ResidualRun(src, cur, a.line - 1)
           before == AdoptUnbracedBody(src, nodes, run, unbraced)
           kids == IF a.braced /\ a.end > a.line
                   THEN Nest(src, defines, SubSeq(as, i + 1, Len(as)), a.line + 1, a.end - 1)
                   ELSE <<>>
           pred == IF a.cond = Empty THEN Empty ELSE Substitute(Parse(Tokens(a.cond)), defines)
           n == TreeNode(a.kind, a.sub, a.line, a.end, a.cond, pred, kids)
           pending == IF ~a.braced /\ a.kind = "branch" THEN Len(before) + 1
                      ELSE IF run = <<>> THEN unbraced ELSE 0
       IN NestFrom(src, defines, as, i + 1, IF a.braced THEN a.end ELSE a.end + 1,
                   to, Append(before, n), pending)
Nest(src, defines, as, from, to) ==
  NestFrom(src, defines, as, 1, from, to, <<>>, 0)

Build(src, defines) == Nest(src, defines, FactsOf(src), 1, Len(src))

RECURSIVE AllNodes(_)
AllNodes(ns) == UNION {{ns[i]} \cup AllNodes(ns[i].kids) : i \in DOMAIN ns}

\* Coverage: an unknown node disowns its lines, its parent does not claim
\* them back.
Classified(src, ns) ==
  {l \in DOMAIN src : /\ IsCode(src[l])
                      /\ \E n \in AllNodes(ns) : /\ n.kind # "unknown" /\ l \in n.line..n.end
                            /\ \A c \in AllNodes(n.kids) : l \notin c.line..c.end}

---------------------------------------------------------------------------
\* The reference: what the C program executes.  env values every identifier
\* and every FML field; a loop body is executed at most once.
Start(env) == [ran |-> {}, taken |-> {}, env |-> env, sent |-> {}, done |-> FALSE]
RunLine(src, i, s) ==
  LET l == src[i]
      set(v, x) == [s.env EXCEPT ![v] = x]
  IN IF l.stmt = "" \/ s.done THEN s
     ELSE [s EXCEPT !.ran = @ \cup {i}, !.done = l.stmt = "return",
             !.env = CASE l.stmt = "assign" -> set(l.args[1], l.args[2])
                       [] l.stmt = "get" -> set(l.args[2], l.args[1])
                       [] l.stmt = "sql" /\ l.args[2] = "SELECT" -> set(l.args[3], l.args[1])
                       [] OTHER -> @,
             !.sent = IF l.stmt = "add" THEN @ \cup {<<i, s.env[l.args[2]]>>} ELSE @]
Runs(src, env) ==
  LET owner == OwnersOf(src)
      \* The earlier arms of the chain line i belongs to.
      heads(i) == {j \in 1..i-1 : owner[j] = owner[i] /\ src[j].head # ""}
      chain(i) == IF src[i].head \in {"elseif", "else"}
                  THEN {j \in heads(i) : \A k \in heads(i) :
                                           src[k].head = "if" => k <= j}
                  ELSE {}
      step(s, i) ==
        LET live == ~s.done /\ (owner[i] = 0 \/ owner[i] \in s.taken)
            enters == /\ src[i].head # "" /\ live /\ chain(i) \cap s.taken = {}
                      /\ src[i].cond = Empty \/ Holds(src[i].cond, s.env)
        IN IF ~live THEN s
           ELSE IF enters THEN [s EXCEPT !.taken = @ \cup {i}]
           ELSE RunLine(src, i, s)
  IN FoldLeft(step, Start(env), InOrder(src, DOMAIN src))

---------------------------------------------------------------------------
\* internal/flow/axes.go: which variables of an entry its branches dispatch on,
\* and over which values.  The harvest reads the source lines with regular
\* expressions, so it sees a comparison only in the spelling the expression
\* names: the variable first.
CONSTANT Names   \* every identifier, in alphabetical order

\* Every subexpression, the expression itself included.
RECURSIVE Subs(_)
Subs(e) == <<e>> \o FlattenSeq([i \in DOMAIN e.items |-> Subs(e.items[i])])

\* strcmpSiteRe, charCompareRe, identCompareRe: variable first.
IsStrcmpSite(e) == /\ e.kind = "call" /\ e.text \in {"strcmp", "strncmp"}
                   /\ e.items[1].kind = "ident" /\ e.items[2].kind = "str"
\* Mutant: only equalities are harvested.
ComparesEqual(e, kind) == /\ e.kind = "cmp" /\ e.text = "=="
                          /\ e.items[1].kind = "ident" /\ e.items[2].kind = kind
Compares(e, kind) == /\ e.kind = "cmp" /\ e.text \in {"==", "!="}
                     /\ e.items[1].kind = "ident" /\ e.items[2].kind = kind
IsSymbolSite(e, defines) == /\ Compares(e, "ident")
                            /\ e.items[2].text \in DOMAIN defines
                            /\ e.items[1].text \notin DOMAIN defines
\* The value a defined constant folds to; a compound one keeps its name.
SymbolValue(n, defines) == LET d == Resolved(n, defines, {})
                           IN IF d = Empty THEN n ELSE d.text

\* What one kind of comparison left in the source: variable, value and place.
Hits(src, IsSite(_), ValueOf(_)) ==
  UNION {LET es == Subs(src[i].cond) IN
         {[var |-> es[k].items[1].text, val |-> ValueOf(es[k].items[2]), line |-> i, at |-> k] :
            k \in {k \in DOMAIN es : IsSite(es[k])}} : i \in DOMAIN src}
Literal(e) == e.text
Harvest(src, defines) ==
  LET IsChar(e) == Compares(e, "chr")
      IsSymbol(e) == IsSymbolSite(e, defines)
      Symbol(e) == SymbolValue(e.text, defines)
      strcmps == Hits(src, IsStrcmpSite, Literal)
      assigns == {i \in DOMAIN src : src[i].stmt = "assign"}
      \* The nearest strcmp against the assigned value, at most 4 lines up.
      linked(i) == LET near == {h \in strcmps : h.line \in i-4..i-1 /\ h.val = src[i].args[2]}
                   IN {h \in near : \A g \in near : \/ g.line < h.line
                                                    \/ g.line = h.line /\ g.at >= h.at}
  IN [strcmps |-> strcmps, chars |-> Hits(src, IsChar, Literal),
      symbols |-> Hits(src, IsSymbol, Symbol),
      assigned |-> {[var |-> src[i].args[1], val |-> src[i].args[2]] : i \in assigns},
      links |-> UNION {{[ref |-> h.var, alias |-> src[i].args[1], line |-> i] :
                          h \in linked(i)} : i \in assigns}]

---------------------------------------------------------------------------
On(hits, n) == {h \in hits : h.var = n}
Vars(hits) == {h.var : h \in hits}
Values(hits, n) == {h.val : h \in On(hits, n)}
\* The branch headers the comparisons of n sit in; a loop is no guard.
Guards(src, hits, n) == {h.line : h \in {g \in On(hits, n) : src[g.line].head \in {"if", "elseif"}}}

Axis(ref, alias, domain, guards, sites, linked) ==
  [ref |-> ref, alias |-> alias, name |-> IF alias = "" THEN ref ELSE alias,
   domain |-> domain, guards |-> guards, sites |-> sites, normalized |-> linked,
   hasDefault |-> FALSE, kind |-> "primary"]
Qualifies(a) == Cardinality(a.guards) >= 2 /\ Cardinality(a.domain) >= 2
Rank(n) == CHOOSE i \in DOMAIN Names : Names[i] = n

\* A stable sort by descending weights, then by name.
Ranked(axes, weight(_)) ==
  LET better(a, b) == \/ weight(a) > weight(b)
                      \/ weight(a) = weight(b) /\ \/ a.sites > b.sites
                                                  \/ a.sites = b.sites /\ Rank(a.ref) < Rank(b.ref)
  IN SetToSortSeq({a \in axes : Qualifies(a) /\ weight(a) > 0}, better)

\* The alias most often assigned under a comparison of ref.
Count(h, ref, alias) == Cardinality({l \in h.links : l.ref = ref /\ l.alias = alias})
AliasOf(h, ref) ==
  LET all == {l.alias : l \in {k \in h.links : k.ref = ref}}
  IN IF all = {} THEN ""
     ELSE CHOOSE a \in all : \A b \in all \ {a} :
            \/ Count(h, ref, a) > Count(h, ref, b)
            \/ Count(h, ref, a) = Count(h, ref, b) /\ Rank(a) < Rank(b)

\* The three recognisers in their order of priority.
Normalised(src, h) ==
  LET links(a) == Count(h, a.ref, a.alias)
      axis(n) == LET al == AliasOf(h, n) IN
                 Axis(n, al, Values(h.strcmps, n),
                      Guards(src, h.strcmps, n) \cup Guards(src, h.chars, al),
                      Cardinality(On(h.strcmps, n)), TRUE)
  IN Ranked({axis(n) : n \in {n \in Vars(h.strcmps) : AliasOf(h, n) # ""}}, links)
Direct(src, h) ==
  LET size(a) == Cardinality(a.domain)
      axes(hits) == {Axis(n, "", Values(hits, n), Guards(src, hits, n),
                          Cardinality(On(hits, n)), FALSE) : n \in Vars(hits)}
  IN Ranked(axes(h.strcmps) \cup axes(h.symbols), size)
CharCompares(src, h) ==
  LET compared(a) == a.sites
      axis(n) == Axis(n, n, Values(h.chars, n) \cup Values(h.assigned, n),
                      Guards(src, h.chars, n), Cardinality(On(h.chars, n)),
                      \E l \in h.links : l.ref = n)
  IN Ranked({axis(n) : n \in Vars(h.chars) \cup Vars(h.assigned)}, compared)

\* Braced if and else-if arms around line i.
NestDepth(src, i) == Cardinality({j \in 1..i-1 : /\ src[j].head \in {"if", "elseif"}
                                                  /\ src[j].opens /\ i < CloserOf(src, j)})
NestOf(src, a) == Min({NestDepth(src, l) : l \in a.guards})
\* The candidates, shallowest guards first, in the recognisers' order.
Candidates(src, defines) ==
  LET inOrder(all) ==
        LET before(i, j) == \/ NestOf(src, all[i]) < NestOf(src, all[j])
                            \/ NestOf(src, all[i]) = NestOf(src, all[j]) /\ i < j
            order == SetToSortSeq(DOMAIN all, before)
        IN [k \in DOMAIN all |-> all[order[k]]]
      found(h) == inOrder(Normalised(src, h) \o Direct(src, h) \o CharCompares(src, h))
  IN found(Harvest(src, defines))

---------------------------------------------------------------------------
\* A chain is an `if` with the else-if and else siblings after it.
ChainEnd(ns, i) ==
  IF ns[i].kind # "branch" \/ ns[i].sub # "if" THEN i
  ELSE LET arms == {j \in i..Len(ns) : \A k \in i+1..j : ns[k].kind = "branch" /\ ns[k].sub = "elseif"}
           j == Max(arms)
       IN IF j < Len(ns) /\ ns[j+1].kind = "branch" /\ ns[j+1].sub = "else" THEN j + 1 ELSE j
Chains(ns) == {<<i, ChainEnd(ns, i)>> : i \in {i \in DOMAIN ns : ns[i].kind = "branch" /\ ns[i].sub = "if"}}

\* fs: the axes a fold assumes, each with its value.
Assumed(fs, text) == {a \in ToSet(fs) : text # "" /\ text \in {a.ref, a.alias}}
RECURSIVE Touches(_, _)
Touches(e, fs) ==
  CASE e.kind \in {"or", "and", "not", "cmp"} -> \E i \in DOMAIN e.items : Touches(e.items[i], fs)
    [] e.kind = "call" -> /\ e.text \in {"strcmp", "strncmp"}
                          /\ \E i \in DOMAIN e.items : i <= 2 /\ Assumed(fs, e.items[i].text) # {}
    [] e.kind = "ident" -> Assumed(fs, e.text) # {}
    [] e.kind = "raw" -> \E i \in DOMAIN e.items : /\ e.items[i].kind = "ident"
                                                  /\ Assumed(fs, e.items[i].text) # {}
    [] OTHER -> FALSE
Assume(a, v) == [key |-> a.name, ref |-> a.ref, alias |-> a.alias, value |-> v]
Dispatches(ns, c, fs) == \E k \in c[1]..c[2] : Touches(ns[k].pred, fs)

\* An else at the end of a chain that tests the axis: a default arm.
HasAxisDefault(ns, a) == \E c \in Chains(ns) : /\ Dispatches(ns, c, <<Assume(a, "")>>)
                                              /\ ns[c[2]].sub = "else"
RECURSIVE HasAxisDefaultDeep(_, _)
HasAxisDefaultDeep(ns, a) == \/ HasAxisDefault(ns, a)
                             \/ \E i \in DOMAIN ns : HasAxisDefaultDeep(ns[i].kids, a)

\* AxesFor: one entry for every spine; the first is the dispatch axis.
Spellings(src, defines, a) ==
  {a.ref, a.alias} \cup IF a.normalized
                        THEN {l.alias : l \in {k \in Harvest(src, defines).links : k.ref = a.ref}}
                        ELSE {}
WithKinds(src, tree, spines) ==
  LET deeper(a) == NestOf(src, a) > NestOf(src, spines[1])
  IN [i \in DOMAIN spines |->
        [spines[i] EXCEPT !.hasDefault = IF i = 1 THEN HasAxisDefault(tree, spines[i])
                                         ELSE HasAxisDefaultDeep(tree, spines[i]),
                          !.kind = IF deeper(spines[i]) THEN "secondary" ELSE "primary"]]
AxesFor(src, defines) ==
  LET add(out, a) == IF \E b \in ToSet(out) : \/ a.name = b.name
                                              \/ {a.ref, a.alias} \cap (Spellings(src, defines, b) \ {""}) # {}
                     THEN out ELSE Append(out, a)
  IN WithKinds(src, Build(src, defines), FoldLeft(add, <<>>, Candidates(src, defines)))
=============================================================================
