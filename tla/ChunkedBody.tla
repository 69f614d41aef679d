----------------------------- MODULE ChunkedBody ----------------------------
(***************************************************************************)
(* convert/chunk.go controllerBodyChunked: an endpoint whose prompt or     *)
(* expected output is too large is converted fragment by fragment, the     *)
(* accepted fragments are stitched and judged by the combined gates, a     *)
(* failing stitch is repaired (deterministically, then by one more seam),  *)
(* a passing one is offered to a composer.                                 *)
(*                                                                         *)
(* A seam is one step here, with the outcomes its contract (SeamContract)  *)
(* allows; a body is what the gates see: the store calls it contains and   *)
(* what is wrong with it.                                                  *)
(***************************************************************************)
EXTENDS Integers, Sequences, SequencesExt, FiniteSets

---------------------------------------------------------------------------
\* The plan of the fragments: a flattened view is cut into statement units,
\* units that continue an if/else chain are glued to the unit that opened it,
\* and the units are packed into balanced contiguous chunks under a size
\* budget.  A line is what the scanner sees of it: how it begins and ends,
\* what it weighs, and the store call it carries; units and chunks are given
\* by the lines they end at.
Kinds == {"stmt", "head", "close", "elseHead", "elseStmt", "blank"}

\* Suffix ";" or "}"; prefix "}"; prefix "else" or "} else".
EndsStatement == {"stmt", "close", "elseStmt"}
StartsClose == {"close"}
\* Mutant: an else with its statement on the same line is not seen.
StartsElseWithBrace == {"elseHead"}
StartsElse == {"elseHead", "elseStmt"}

Weight(lines) == FoldLeft(LAMBDA w, l : w + l.weight, 0, lines)
RequiredCalls(lines, none) == {lines[i].call : i \in DOMAIN lines} \ {none}

\* The first line of code after line i begins with one of kinds.
NextBegins(view, i, kinds) ==
  \E j \in (i + 1) .. Len(view) :
    /\ \A h \in (i + 1) .. (j - 1) : view[h].kind = "blank"
    /\ view[j].kind \in kinds

\* splitStatements: the lookahead past blank lines keeps a unit open.
StatementEnds(view) ==
  {i \in DOMAIN view : /\ view[i].kind \in EndsStatement
                       /\ ~ NextBegins(view, i, StartsElse \cup StartsClose)}

\* glueChainUnits: a unit that begins with an else joins the one before.
UnitEnds(view) ==
  {i \in StatementEnds(view) : ~ NextBegins(view, i, StartsElse)}

\* Line 0, and the k-th of the lines that are cut after.
Cut(cuts, k) ==
  IF k = 0 THEN 0 ELSE CHOOSE c \in cuts : Cardinality({d \in cuts : d <= c}) = k

\* The pieces of view that end at the given lines, the rest last.
Pieces(view, ends) ==
  LET cuts == ends \cup {Len(view)} IN
  [k \in 1 .. Cardinality(cuts) |-> SubSeq(view, Cut(cuts, k - 1) + 1, Cut(cuts, k))]

UnitsOf(view) == Pieces(view, UnitEnds(view))

AtLeastOne(n) == IF n < 1 THEN 1 ELSE n

\* How many chunks to aim for.
ChunkCount(view, budget) ==
  LET n == AtLeastOne((Weight(view) + budget - 1) \div budget)
      units == Len(UnitsOf(view))
  IN IF n > units THEN units ELSE n

\* A chunk of weight chars, with done chunks before it, closes before a unit
\* of weight w: the unit would break the budget, or the balanced target of a
\* chunk at least half full.  Never beyond the planned count.
Closes(chars, done, w, n, target, budget) ==
  /\ done + 1 < n
  /\ chars + w > budget \/ (chars + w > target /\ chars >= target \div 2)

\* groupFragments, one unit after the other.
GroupFragments(view, budget) ==
  LET units == UnitsOf(view)
      n == ChunkCount(view, budget)
      target == AtLeastOne(Weight(view) \div n)
      open[k \in DOMAIN units] ==
        LET w == Weight(units[k]) IN
        IF k = 1 THEN [first |-> 1, chars |-> w, done |-> 0]
        ELSE LET acc == open[k - 1] IN
             IF Closes(acc.chars, acc.done, w, n, target, budget)
             THEN [first |-> k, chars |-> w, done |-> acc.done + 1]
             ELSE [acc EXCEPT !.chars = @ + w]
  IN Pieces(view, {Cut(UnitEnds(view) \cup {Len(view)}, k) :
                     k \in {k \in 1 .. (Len(units) - 1) : open[k + 1].first = k + 1}})

---------------------------------------------------------------------------
CONSTANTS
  Views,      \* flattened views, sequences of lines
  Budgets,    \* slice budgets
  MinBudget,  \* minFragmentChars
  NoCall,     \* a line without a store call
  MaxRetries,
  TxWrap,     \* Options.TxWrap: the deterministic transaction wrapper
  Ceiling     \* may the repair and composer prompts exceed the ceiling?

ASSUME ChunkAssumption ==
  /\ \A v \in Views : v \in Seq(Range(v))
  /\ MinBudget \in Nat \ {0} /\ Budgets \subseteq Nat
  /\ MaxRetries \in Nat
  /\ TxWrap \in BOOLEAN /\ Ceiling \in BOOLEAN

VARIABLES
  pc,        \* "plan", "fragment", "wrap", "repair", "compose", "finish",
             \* "validated", "failed"
  view, budget,
  chunks,    \* the fragment plan
  bodies,    \* the store calls of each accepted fragment
  axis,      \* the unit is an arm of its entry: it has a dispatch variable
  body,      \* the body under judgement
  kept,      \* the body the unit is staged with
  rejected,  \* whose output stays visible if the unit fails
  stitched,  \* the concatenated fragments passed the combined gates
  spent,     \* LLM calls, as the ledger's attempts counter records them
  cancelled

vars == <<pc, view, budget, axis, chunks, bodies, body, kept, rejected,
          stitched, spent, cancelled>>

Calls == RequiredCalls(view, NoCall)
Faults == {"parse", "tx", "cond", "tuxedo"}
Attempts == MaxRetries + 1
RepairAttempts == 2  \* the repair seam has MaxRetries 1 of its own
NoBody == [calls |-> {}, faults |-> {}]

TypeOK ==
  /\ pc \in {"plan", "fragment", "wrap", "repair", "compose", "finish",
             "validated", "failed"}
  /\ view \in Views /\ budget \in Budgets
  /\ chunks \in Seq(Seq(Range(view)))
  /\ bodies \in Seq(SUBSET Calls) /\ Len(bodies) <= Len(chunks)
  /\ axis \in BOOLEAN
  /\ {body, kept} \subseteq [calls : SUBSET Calls, faults : SUBSET Faults]
  /\ rejected \in {"none", "fragment", "combined", "repair"}
  /\ stitched \in BOOLEAN /\ cancelled \in BOOLEAN
  /\ spent \in Nat

Init ==
  /\ pc = "plan"
  /\ view \in Views /\ budget \in Budgets /\ axis \in BOOLEAN
  /\ chunks = <<>> /\ bodies = <<>>
  /\ body = NoBody /\ kept = NoBody
  /\ rejected = "none"
  /\ stitched = FALSE
  /\ spent = 0
  /\ cancelled = FALSE

\* The combined gate, also the composer's and the repair seam's.
Passes(b) == b.faults = {} /\ Calls \subseteq b.calls

\* Some body that passes / the faults a stitch of clean fragments can have:
\* each fragment was gated for legacy spellings and for its own calls.
Clean == {[calls |-> Calls, faults |-> {}]}
StitchFaults == SUBSET {"parse", "tx", "cond"}
-----------------------------------------------------------------------------
NoRoom ==
  /\ pc = "plan" /\ budget < MinBudget
  /\ pc' = "failed"
  /\ UNCHANGED <<view, budget, axis, chunks, bodies, body, kept, rejected,
                 stitched, spent, cancelled>>

PlanFragments ==
  /\ pc = "plan" /\ budget >= MinBudget
  /\ chunks' = GroupFragments(view, budget)
  /\ pc' = "fragment"
  /\ UNCHANGED <<view, budget, axis, bodies, body, kept, rejected, stitched,
                 spent, cancelled>>

Turn == Len(bodies) + 1
AtFragment == pc = "fragment" /\ Turn <= Len(chunks)
Own(k) == RequiredCalls(chunks[k], NoCall)

\* The fragment's gate demands its own calls; it may repeat others.
FragmentAccepted ==
  /\ AtFragment /\ ~ cancelled
  /\ \E calls \in SUBSET Calls :
       /\ Own(Turn) \subseteq calls
       /\ bodies' = Append(bodies, calls)
  /\ \E c \in 1 .. Attempts : spent' = spent + c
  /\ UNCHANGED <<pc, view, budget, axis, chunks, body, kept, rejected,
                 stitched, cancelled>>

\* The seam gave up, with or without a payload the gates saw (a prompt over
\* the ceiling, or chat errors only, leave none).
FragmentFailed ==
  /\ AtFragment
  /\ \E c \in 0 .. Attempts : spent' = spent + c
  /\ rejected' \in {"none", "fragment"}
  /\ pc' = "failed"
  /\ UNCHANGED <<view, budget, axis, chunks, bodies, body, kept, stitched,
                 cancelled>>

\* The concatenation and its gates.
Stitch ==
  /\ pc = "fragment" /\ Turn > Len(chunks)
  /\ \E faults \in StitchFaults :
       LET b == [calls |-> UNION {bodies[k] : k \in DOMAIN bodies},
                 faults |-> faults] IN
       /\ body' = b
       /\ stitched' = Passes(b)
       /\ pc' = IF Passes(b) THEN "compose"
                ELSE IF faults = {"tx"} /\ Calls \subseteq b.calls /\ TxWrap
                THEN "wrap" ELSE "repair"
  /\ rejected' = "combined"
  /\ UNCHANGED <<view, budget, axis, chunks, bodies, kept, spent, cancelled>>

\* Mutant: the wrapped body is kept without its gates.
WrapTxUngated ==
  /\ pc = "wrap"
  /\ \E faults \in SUBSET (Faults \ {"tuxedo"}) :
       body' = [body EXCEPT !.faults = faults]
  /\ pc' = "finish"
  /\ UNCHANGED <<view, budget, axis, chunks, bodies, kept, rejected, stitched,
                 spent, cancelled>>

\* wrapTxBody: re-gated, never bypassed; the composer is skipped after it.
\* It bails on a body that already has part of the wrapper or its own tx.
WrapTx ==
  /\ pc = "wrap"
  /\ \E faults \in SUBSET (Faults \ {"tuxedo"}) :
       IF faults = {}
       THEN body' = [body EXCEPT !.faults = {}] /\ pc' = "finish"
       ELSE pc' = "repair" /\ UNCHANGED body
  /\ UNCHANGED <<view, budget, axis, chunks, bodies, kept, rejected, stitched,
                 spent, cancelled>>

RepairSkipped ==
  /\ pc = "repair"
  /\ cancelled \/ Ceiling
  /\ pc' = "failed"
  /\ UNCHANGED <<view, budget, axis, chunks, bodies, body, kept, rejected,
                 stitched, spent, cancelled>>

RepairAccepted ==
  /\ pc = "repair" /\ ~ cancelled
  /\ body' \in Clean
  /\ \E c \in 1 .. RepairAttempts : spent' = spent + c
  /\ pc' = "finish"
  /\ UNCHANGED <<view, budget, axis, chunks, bodies, kept, rejected, stitched,
                 cancelled>>

RepairFailed ==
  /\ pc = "repair"
  /\ \E c \in 0 .. RepairAttempts : spent' = spent + c
  /\ rejected' \in {rejected, "repair"}
  /\ pc' = "failed"
  /\ UNCHANGED <<view, budget, axis, chunks, bodies, body, kept, stitched,
                 cancelled>>

\* One fragment needs no composer; a prompt over the ceiling skips it.
ComposeSkipped ==
  /\ pc = "compose"
  /\ Len(bodies) < 2 \/ Ceiling
  /\ pc' = "finish"
  /\ UNCHANGED <<view, budget, axis, chunks, bodies, body, kept, rejected,
                 stitched, spent, cancelled>>

ComposeAccepted ==
  /\ pc = "compose" /\ Len(bodies) >= 2 /\ ~ cancelled
  /\ body' \in Clean
  /\ \E c \in 1 .. Attempts : spent' = spent + c
  /\ pc' = "finish"
  /\ UNCHANGED <<view, budget, axis, chunks, bodies, kept, rejected, stitched,
                 cancelled>>

\* Best effort: the concatenation stands.
ComposeFailed ==
  /\ pc = "compose" /\ Len(bodies) >= 2
  /\ \E c \in 0 .. Attempts : spent' = spent + c
  /\ pc' = "finish"
  /\ UNCHANGED <<view, budget, axis, chunks, bodies, body, kept, rejected,
                 stitched, cancelled>>

\* repairArmWrapper, after the gates: a body that is one if (no init, no
\* else) whose condition mentions the dispatch variable becomes what the if
\* holds.  The condition goes, with what else it asked and called.
Unwrapped(b) == [calls : SUBSET b.calls, faults : SUBSET {"tx", "cond"}]

\* The terminal return is ensured and the unit recorded validated.
Finish ==
  /\ pc = "finish"
  /\ kept' \in {body} \cup (IF axis THEN Unwrapped(body) ELSE {})
  /\ pc' = "validated"
  /\ rejected' = "none"
  /\ UNCHANGED <<view, budget, axis, chunks, bodies, body, stitched, spent, cancelled>>

Cancel ==
  /\ ~ cancelled
  /\ pc \notin {"validated", "failed"}
  /\ cancelled' = TRUE
  /\ UNCHANGED <<pc, view, budget, axis, chunks, bodies, body, kept, rejected,
                 stitched, spent>>
-----------------------------------------------------------------------------
Step ==
  \/ NoRoom \/ PlanFragments
  \/ FragmentAccepted \/ FragmentFailed
  \/ Stitch \/ WrapTx
  \/ RepairSkipped \/ RepairAccepted \/ RepairFailed
  \/ ComposeSkipped \/ ComposeAccepted \/ ComposeFailed
  \/ Finish

Next == Step \/ Cancel

Spec == Init /\ [][Next]_vars

\* Seams return (LlmSeam!Terminates).
FairSpec == Spec /\ WF_vars(Step)
-----------------------------------------------------------------------------
(* Properties.                                                             *)

\* Chunking is lossless: the fragments in order are the view.
Reassembles == chunks # <<>> => FlattenSeq(chunks) = view

\* No fragment but the first begins inside an if/else chain: the model is
\* never asked to emit a dangling else.
NoDanglingElse ==
  \A k \in DOMAIN chunks :
    k > 1 => ~ NextBegins(chunks[k], 0, {"elseHead", "elseStmt"})

\* What the model is asked to convert is the view, cut between its chains.
FragmentsAreTheView == Reassembles /\ NoDanglingElse

\* Every store call of the view is in the body under judgement from the
\* stitch on, although no fragment's gate asks for more than its own.
StitchKeepsCalls ==
  pc \in {"wrap", "repair", "compose", "finish", "validated"} => Calls \subseteq body.calls

\* "the balanced target is soft, the budget is hard": only a unit too large
\* by itself exceeds the slice budget.
BudgetIsHard ==
  \A k \in DOMAIN chunks :
    Weight(chunks[k]) > budget => Len(UnitsOf(chunks[k])) = 1

\* What is validated passed the combined gates: every store call of the view,
\* whichever fragment it was in, whichever repair produced the body.  It is
\* what is staged, but for the arm of an entry, whose body is unwrapped after
\* its gates.
ValidatedPasses == pc = "validated" => Passes(body) /\ (axis \/ Passes(kept))

\* In no run, for it is not so: the staged body of an arm passes them too.
StagedPasses == pc = "validated" => Passes(kept)

\* A stitch that passes is never lost: whatever the composer does, the unit
\* is validated.
StitchWins == stitched ~> pc = "validated"
=============================================================================
