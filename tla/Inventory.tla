----------------------------- MODULE Inventory -----------------------------
(***************************************************************************)
(* internal/ir: what extraction makes of the facts the scanner recorded    *)
(* about one file: the dispatch arms of the entry function, the query      *)
(* units, the FML operations and who owns a line.  Facts are a record:     *)
(* functions [name, from, to], branches [fn, kind, depth, line, from, to]  *)
(* in source order (from = 0: no braces), ops, sqls, fragment, last.       *)
(***************************************************************************)
EXTENDS SequencesExt, FiniteSetsExt, Integers, TLC

NoFunction == [name |-> "", from |-> 0, to |-> 0]
\* The entry is the first service function of the file.
Entries(facts) == SelectSeq(facts.functions, LAMBDA f : f.service)
Entry(facts) ==
  LET first(services) == CASE services # <<>> -> services[1].name
                           [] facts.fragment -> "__fragment"
                           [] OTHER -> ""
  IN first(Entries(facts))
FunctionSpan(facts, name) ==
  LET first(named) == IF named = <<>> THEN NoFunction ELSE named[1]
  IN first(SelectSeq(facts.functions, LAMBDA f : f.name = name))
\* Mutant: every line of the file is the function's.
SpanHoldsFile(f, line) == f.from >= 0 /\ line > 0
\* An unclosed body is open upward.
SpanHolds(f, line) == f.from <= line /\ (f.to = 0 \/ line <= f.to)

---------------------------------------------------------------------------
\* chainsOf: the braced arms at depth one; an arm without braces neither
\* joins a chain nor breaks one.
ChainStep(acc, b) ==
  LET closed == IF acc.open = <<>> THEN acc.done ELSE Append(acc.done, acc.open) IN
  CASE b.kind = "if" -> [done |-> closed, open |-> <<b>>]
    [] acc.open = <<>> -> acc
    [] b.kind = "elseif" -> [acc EXCEPT !.open = Append(@, b)]
    [] OTHER -> [done |-> Append(acc.done, Append(acc.open, b)), open |-> <<>>]
ChainsOf(facts) ==
  LET of(entry) == FoldLeft(ChainStep, [done |-> <<>>, open |-> <<>>],
                            SelectSeq(facts.branches, LAMBDA b : b.fn = entry /\ b.depth = 1 /\ b.from # 0))
      all(acc) == IF acc.open = <<>> THEN acc.done ELSE Append(acc.done, acc.open)
  IN all(of(Entry(facts)))

\* splitChains: one-arm chains count in a fragment, and in a file that has
\* no other.
Qualifying(facts) ==
  LET long(chains) == SelectSeq(chains, LAMBDA c : Len(c) >= (IF facts.fragment THEN 1 ELSE 2))
      chosen(chains, found) == IF found = <<>> /\ ~facts.fragment THEN chains ELSE found
      of(chains) == chosen(chains, long(chains))
  IN of(ChainsOf(facts))
Condition(index, kind, from, to) ==
  [index |-> index, kind |-> kind, from |-> from, to |-> to, isDefault |-> kind = "else"]
\* buildConditions: every arm of a qualifying chain, numbered in order; a
\* fragment without chains is one default arm.
Conditions(facts) ==
  LET numbered(arms) == [i \in DOMAIN arms |-> Condition(i, arms[i].kind, arms[i].line, arms[i].to)]
      inventory(conds) == IF conds = <<>> /\ facts.fragment THEN <<Condition(1, "else", 1, facts.last)>> ELSE conds
  IN IF Entry(facts) = "" THEN <<>> ELSE inventory(numbered(FlattenSeq(Qualifying(facts))))
ArmHolds(c, line) == c.from <= line /\ line <= c.to

\* preambleOps and the ops of each arm.  That there is an entry is all that
\* entryOwns asks of a line outside the arms.
EntryOwns(entry, conditions, line) ==
  entry # "" /\ \A i \in DOMAIN conditions : ~ArmHolds(conditions[i], line)
PreambleOps(ops, entry, conditions) == SelectSeq(ops, LAMBDA o : EntryOwns(entry, conditions, o.line))
ConditionOps(ops, c) == SelectSeq(ops, LAMBDA o : ArmHolds(c, o.line))

---------------------------------------------------------------------------
\* buildQueries: q<N> by ordinal; later units with the same text point at
\* the first (linkDuplicates).
IsDML(verb) == verb \in {"INSERT", "UPDATE", "DELETE", "MERGE"}
QueryUnits(facts) ==
  LET units == SelectSeq(facts.sqls, LAMBDA s : IsDML(s.verb) \/ s.verb = "SELECT")
      id(i) == "q" \o ToString(i)
      same(i) == {j \in 1..i : units[j].text = units[i].text}
  IN [i \in DOMAIN units |-> units[i] @@ [id |-> id(i), canonical |-> id(Min(same(i)))]]
QueryIdsIn(facts, c) ==
  LET inside == SelectSeq(QueryUnits(facts), LAMBDA q : ArmHolds(c, q.line))
  IN [i \in DOMAIN inside |-> inside[i].id]
=============================================================================
