------------------------------ MODULE BatchRun ------------------------------
(***************************************************************************)
(* cmd/tuxconv/batchpy.go, runBatchpy: one run over the batch programs of  *)
(* a directory.  Every file is converted, by workers that share nothing    *)
(* but the client; when no two files give one module the results are       *)
(* written in order, each to the file of its module.  What a conversion    *)
(* does and what a module holds is BatchPy.                                *)
(***************************************************************************)
EXTENDS Integers, Sequences

CONSTANT Batches   \* sequences of programs, as a directory walk gives them
ASSUME BatchesAreSequences == \A b \in Batches : Len(b) \in Nat /\ DOMAIN b = 1 .. Len(b)

VARIABLES paths,      \* the programs of the run
          results,    \* of the programs converted so far
          phase, turn, \* "convert", "write", "refused", "ended"
          out,        \* module name -> what the last write to the file came to
          firstErr
runVars == <<paths, results, phase, turn, out, firstErr>>

serviceName(f) == IF f.service # "" THEN f.service ELSE f.base
Older == [state |-> "older", from |-> 0]

RunInit ==
  /\ paths \in Batches
  /\ results = <<>> /\ phase = "convert" /\ turn = 1
  /\ out = [n \in {serviceName(paths[i]) : i \in DOMAIN paths} |-> Older]
  /\ firstErr = FALSE

\* One fileResult: a conversion may fail, find that the file is no batch, or
\* return a module.
Outcome(status, f, module) ==
  [status |-> status, name |-> IF status = "converted" THEN serviceName(f) ELSE "", module |-> module]
Convert(status, module) ==
  /\ phase = "convert" /\ Len(results) < Len(paths)
  /\ results' = Append(results, Outcome(status, paths[Len(results) + 1], module))
  /\ UNCHANGED <<paths, phase, turn, out, firstErr>>

Converted == {i \in DOMAIN results : results[i].status = "converted"}
NameOf(i) == results[i].name
\* Mutant: modules of one name are not looked for.
NoGate ==
  /\ phase = "convert" /\ Len(results) = Len(paths)
  /\ phase' = "write"
  /\ UNCHANGED <<paths, results, turn, out, firstErr>>
CollisionGate ==
  /\ phase = "convert" /\ Len(results) = Len(paths)
  /\ firstErr' = \E i, j \in Converted : i # j /\ NameOf(i) = NameOf(j)
  /\ phase' = IF firstErr' THEN "refused" ELSE "write"
  /\ UNCHANGED <<paths, results, turn, out>>

\* A write that fails before the file is open leaves the older one, a later
\* failure leaves what the write got to.
Broken == {"unopened", "torn"}
\* One result's turn.
Put(state) == out' = [out EXCEPT ![NameOf(turn)] = [state |-> state, from |-> turn]]
WriteModule ==
  /\ phase = "write" /\ turn <= Len(results)
  /\ CASE results[turn].status = "skipped" -> UNCHANGED <<out, firstErr>>
       [] results[turn].status = "failed" -> firstErr' = TRUE /\ UNCHANGED out
       [] OTHER -> (Put("written") /\ UNCHANGED firstErr) \/ (\E b \in Broken : Put(b) /\ firstErr' = TRUE)
  /\ turn' = turn + 1
  /\ UNCHANGED <<paths, results, phase>>
EndBatch ==
  /\ phase = "write" /\ turn > Len(results)
  /\ phase' = "ended"
  /\ UNCHANGED <<paths, results, turn, out, firstErr>>

RunNext ==
  \/ \E status \in {"converted", "skipped", "failed"} : \E module : Convert(status, module)
  \/ CollisionGate \/ WriteModule \/ EndBatch
RunSpec == RunInit /\ [][RunNext]_runVars

---------------------------------------------------------------------------
\* A run that two files give one module writes nothing; in one that ends no
\* file is written for two modules, every module it converted had its write,
\* and the error says whether a file failed or a write did not end.
\* runBatchpy.
OutIsTheRuns ==
  /\ phase = "refused" => firstErr /\ \A n \in DOMAIN out : out[n] = Older
  /\ phase = "ended" =>
       /\ \A i \in Converted : out[NameOf(i)].from = i
       /\ \A n \in DOMAIN out : out[n] = Older \/ out[n].from \in Converted
       /\ firstErr <=> (\E i \in DOMAIN results : results[i].status = "failed")
                       \/ \E n \in DOMAIN out : out[n].state \in Broken
============================================================================
