------------------------------ MODULE Slicing ------------------------------
(***************************************************************************)
(* The flow stage as the commands run it: build the tree of the entry,     *)
(* detect its dispatch axes, then cut slices, one value at a time or by a  *)
(* filter.  A slice is judged against what the C program would do, under   *)
(* every environment the slice speaks for.                                 *)
(***************************************************************************)
EXTENDS Scenarios

CONSTANTS Programs,   \* [src, defines]: the entries under conversion
          Filters,    \* the scenarioFilter expressions of the endpoints
          Envs        \* what the caller and the data may be

VARIABLES entry, stage, tree, axes, slice
vars == <<entry, stage, tree, axes, slice>>

NoSlice == [kind |-> "none"]
src == entry.src
dispatch == IF axes = <<>> THEN <<>> ELSE axes[1]

Init == /\ entry \in Programs
        /\ stage = "source" /\ tree = <<>> /\ axes = <<>> /\ slice = NoSlice

BuildTree == /\ stage = "source" /\ stage' = "tree"
             /\ tree' = Build(src, entry.defines)
             /\ UNCHANGED <<entry, axes, slice>>

DetectAxes == /\ stage = "tree" /\ stage' = "axes"
              /\ axes' = AxesFor(src, entry.defines)
              /\ UNCHANGED <<entry, tree, slice>>

Record(kind, sc) ==
  [kind |-> kind, sc |-> sc, queries |-> Queries(src, tree, sc),
   gets |-> Gets(src, tree, sc), adds |-> Adds(src, tree, sc),
   responses |-> Responses(src, tree, sc)]

\* One value of the dispatch axis, its default arm, or the whole entry.
SliceValue == /\ stage = "axes" /\ axes # <<>> /\ slice = NoSlice
              /\ \E v \in axisUniverse(dispatch) :
                   slice' = Record("value", ScenarioFor(tree, dispatch, v))
              /\ UNCHANGED <<entry, stage, tree, axes>>
SliceWhole == /\ stage = "axes" /\ axes = <<>> /\ slice = NoSlice
              /\ slice' = Record("whole", ScenarioFor(tree, <<>>, ""))
              /\ UNCHANGED <<entry, stage, tree, axes>>
\* The slice of a filter, or the reason it is refused.
FilterRecord(f, r) == IF r.ok THEN Record("filter", r) @@ [text |-> f]
                      ELSE [kind |-> "refused", why |-> r.why, text |-> f, sc |-> r]
SliceFilter == /\ stage = "axes" /\ axes # <<>> /\ slice = NoSlice
               /\ \E f \in Filters :
                    slice' = FilterRecord(f, ScenarioForFilter(tree, axes, ParseScenarioFilter(Tokens(f))))
               /\ UNCHANGED <<entry, stage, tree, axes>>

Next == BuildTree \/ DetectAxes \/ SliceValue \/ SliceWhole \/ SliceFilter
Spec == Init /\ [][Next]_vars

---------------------------------------------------------------------------
\* What the text of a slice does when it is run: the preamble verbatim, then
\* the body with every guard replaced by what the fold left of it.
RECURSIVE RunNodes(_, _, _, _)
RunNodes(ns, i, matched, s) ==
  IF i > Len(ns) THEN s
  ELSE LET n == ns[i]
           chained == n.kind = "branch" /\ n.sub \in {"elseif", "else"} /\ matched
           guard == n.live = Empty \/ Holds(n.live, s.env)
           enters == ~s.done /\ ~chained /\ guard
           ran == CASE n.kind \in {"branch", "loop"} ->
                         IF enters THEN RunNodes(n.kids, 1, FALSE, s) ELSE s
                    [] OTHER -> FoldLeft(LAMBDA t, l : RunLine(src, l, t), s,
                                     InOrder(src, Span(n)))
           taken == n.kind = "branch" /\ (enters \/ (n.sub # "if" /\ matched))
       IN RunNodes(ns, i + 1, taken, ran)
RECURSIVE Verbatim(_)
Verbatim(ns) == [i \in DOMAIN ns |-> SliceNode(ns[i], "kept", ns[i].cond, Verbatim(ns[i].kids))]
RunSlice(sc, env) == RunNodes(Verbatim(sc.preamble) \o sc.body, 1, FALSE, Start(env))

\* The environments the slice speaks for.
SpeaksFor == CASE slice.kind = "value" -> {e \in Envs : Agrees(e, dispatch, slice.sc.value)}
               [] slice.kind = "filter" -> {e \in Envs : \E f \in slice.sc.live : AgreesAll(e, axes, f)}
               [] slice.kind = "whole" -> Envs
               [] OTHER -> {}

---------------------------------------------------------------------------
\* For every input a slice speaks for, its text executes exactly the lines
\* the entry executes, sends the same fields with the same values and
\* returns at the same point: no arm is dropped that runs, no guard removed
\* that decides something, no residual weaker or stronger than the guard.
SliceFaithful ==
  \A env \in SpeaksFor : LET a == RunSlice(slice.sc, env)
                             b == Runs(src, env)
                         IN a.ran = b.ran /\ a.sent = b.sent /\ a.done = b.done

\* The assignments of a filter are the value combinations that satisfy the
\* expression as C reads it, the default key standing for any other value.
FilterMeansItsText ==
  slice.kind = "filter" =>
    LET keys == {a.name : a \in ToSet(axes)}
        all == {f \in [keys -> UNION {axisUniverse(a) : a \in ToSet(axes)}] :
                  \A a \in ToSet(axes) : f[a.name] \in axisUniverse(a)}
    IN \A f \in all : Holds(slice.text, f) <=>
                      \E g \in slice.sc.all : \A v \in DOMAIN g : f[v] = g[v]

\* Whatever some input makes the entry execute is in the text of a slice:
\* the domain and its default arm leave no behaviour without an endpoint.
EveryLineHasASlice ==
  stage = "axes" /\ slice = NoSlice /\ axes # <<>> =>
    LET shown == UNION {PreambleLines(sc) \cup BodyLines(sc) : sc \in Scenarios(tree, dispatch)}
    IN \A env \in Envs : Runs(src, env).ran \subseteq shown

\* The values outside the domain are alike: the entry does the same for
\* each of them, so one default slice can stand for all.
DomainIsComplete ==
  stage = "axes" /\ slice = NoSlice /\ axes # <<>> =>
    LET names == {dispatch.ref, dispatch.alias} \ {""}
        others == {e \in Envs : \A n \in names : e[n] \notin dispatch.domain}
        rest(e) == [v \in DOMAIN e \ names |-> e[v]]
        runs == {<<rest(e), Runs(src, e).ran>> : e \in others}
    IN \A p, q \in runs : p[1] = q[1] => p = q

\* Every field the slice's inputs make the entry read or write, and every
\* query they make it run, is in the census the request, response and
\* database contracts are generated from.
CensusHasWhatRuns ==
  \A env \in SpeaksFor : \A l \in Runs(src, env).ran :
    /\ src[l].stmt = "get" => src[l].args[1] \in slice.gets
    /\ src[l].stmt = "add" => src[l].args[1] \in slice.adds
    /\ src[l].stmt = "sql" => \E q \in slice.queries : q.id = src[l].args[1]

\* A DML statement is generated to run in the transaction exactly when the
\* entry runs it between a begin and a commit.
TxMatchesRun ==
  \A env \in SpeaksFor :
    LET ran == Runs(src, env).ran
        calls(role) == {l \in ran : RoleOf(src[l]) = role}
    IN \A q \in slice.queries :
         q.line \in ran /\ src[q.line].args[2] # "SELECT" =>
           (q.tx <=> \E b \in calls("begin"), c \in calls("commit") : b < q.line /\ q.line < c)

\* A response field said to be stable carries, whenever the write it names
\* runs before it, the value of that write.
ResponseNamesItsWrite ==
  \A env \in SpeaksFor : LET s == Runs(src, env) IN
    \A r \in IF slice.kind \in {"none", "refused"} THEN {} ELSE slice.responses :
      r.stable /\ r.line \in s.ran /\ r.writer # {} /\ r.writer \subseteq s.ran =>
        \E x \in r.value : <<r.line, x>> \in s.sent

=============================================================================
