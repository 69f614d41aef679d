---------------------------- MODULE GenTestRuns -----------------------------
(***************************************************************************)
(* Runs of gentest over a service whose code grows: the scan of a layer    *)
(* (internal/testscan), what a run renders and into which file, in place   *)
(* or into an output tree with the sources staged beside it, and the gate  *)
(* that runs what was written (gen.go, stage.go).                          *)
(*                                                                         *)
(* The methods of a layer are constants: their layer, whether a template   *)
(* renders them, and the methods their test would name.  Whether a         *)
(* method's test passes on its body is GenTests.                           *)
(***************************************************************************)
EXTENDS FiniteSets, Naturals

CONSTANTS Methods,      \* the methods that may come to be
          Existing,     \* those with a test in the user's own suite at first
          MaxMethods, MaxGenRuns,
          Green(_)       \* does a method's test pass on its body

Layers == {"db", "controller", "handler"}
Own == "own_test.go"                 \* the user's suite
Stem == "stem_test.go"               \* <source>_test.go
Twin == "service_gentest_test.go"    \* <service>_gentest_test.go

VARIABLES present,      \* the methods of the tree
          tests,        \* layer -> file -> the methods with a test in it
          outTree,      \* the output tree: the copies of each layer's sources, and the tests
          report,       \* what the last run said, as a sequence of at most one
          genRuns

genVars == <<present, tests, outTree, report, genRuns>>

In(layer) == {m \in present : m.layer = layer}
NoFiles == [f \in {} |-> {}]
Tested(files) == UNION {files[f] : f \in DOMAIN files}
-----------------------------------------------------------------------------
\* A test named for the method, or one that calls anything of that name.
testEvidence(files, m) ==
  \/ m \in Tested(files)
  \/ \E t \in Tested(files) : m.name \in t.names

HasTest(m) == testEvidence(tests[m.layer], m)

\* A variant with no twin.
outNamesOnce(layer) == Stem

outNames(layer) == IF tests[layer] # NoFiles THEN Twin ELSE Stem

\* What the run is to render, and what it has rendered once the model has
\* filled some of the methods it was asked for.
Uncovered(layer) == {m \in In(layer) : ~HasTest(m)}
Rendered(layer, filled) == {m \in Uncovered(layer) : m.template \/ m \in filled}

\* The file is written whole; one that cannot be composed is left as it was,
\* with a warning.
Having(files, name, written) ==
  [f \in DOMAIN files \cup {name} |-> IF f = name THEN written ELSE files[f]]
Composed(files, layer, filled, broken) ==
  IF Rendered(layer, filled) = {} \/ layer \in broken THEN files
  ELSE Having(files, outNames(layer), Rendered(layer, filled))

Report(filled, broken, staged, gate) ==
  [covered |-> {m \in present : HasTest(m)},
   written |-> UNION {Rendered(l, filled) : l \in Layers \ broken},
   required |-> UNION {Uncovered(l) : l \in Layers} \ UNION {Rendered(l, filled) : l \in Layers},
   staged |-> staged, testsFailed |-> gate]
-----------------------------------------------------------------------------
GenInit ==
  /\ present = Existing
  /\ tests = [l \in Layers |-> IF In(l) = {} THEN NoFiles ELSE Having(NoFiles, Own, In(l))]
  /\ outTree = [copies |-> [l \in Layers |-> 0], tests |-> [l \in Layers |-> NoFiles]]
  /\ report = <<>>
  /\ genRuns = 0

\* The service gets a method.
AddMethod(m) ==
  /\ m \notin present /\ Cardinality(present) < MaxMethods
  /\ present' = present \cup {m}
  /\ UNCHANGED <<tests, outTree, report, genRuns>>

\* The user writes a test of a method, in a suite of the layer that is theirs.
WriteTest(m, f) ==
  /\ m \in present
  /\ f \in DOMAIN tests[m.layer] \cup {Own}
  /\ m \notin Tested(tests[m.layer])
  /\ tests' = [tests EXCEPT ![m.layer] = Having(@, f, {m} \cup IF f \in DOMAIN @ THEN @[f] ELSE {})]
  /\ UNCHANGED <<present, outTree, report, genRuns>>

\* A run without -out writes beside the code.
GenerateInPlace(filled, broken) ==
  /\ genRuns < MaxGenRuns
  /\ filled \subseteq {m \in present : ~m.template /\ ~HasTest(m)}
  /\ tests' = [l \in Layers |-> Composed(tests[l], l, filled, broken)]
  /\ report' = <<Report(filled, broken, FALSE, FALSE)>>
  /\ genRuns' = genRuns + 1
  /\ UNCHANGED <<present, outTree>>

\* A run with -out writes to the output tree, stages every source file of the
\* layers beside what it wrote, under another name where there is one, and
\* runs the tests there: two copies of a package do not compile.
GenerateOut(filled, broken) ==
  LET written == [l \in Layers |-> Composed(outTree.tests[l], l, filled, broken)]
      copies == [l \in Layers |-> IF In(l) = {} THEN outTree.copies[l] ELSE outTree.copies[l] + 1]
      fails == \E l \in Layers : copies[l] > 1 \/ \E m \in Tested(written[l]) : ~Green(m)
  IN  /\ genRuns < MaxGenRuns
      /\ filled \subseteq {m \in present : ~m.template /\ ~HasTest(m)}
      /\ outTree' = [copies |-> copies, tests |-> written]
      /\ report' = <<Report(filled, broken, outTree.copies = [l \in Layers |-> 0], fails)>>
      /\ genRuns' = genRuns + 1
      /\ UNCHANGED <<present, tests>>

\* The user takes another output directory.
FreshOut ==
  /\ outTree.copies # [l \in Layers |-> 0]
  /\ outTree' = [copies |-> [l \in Layers |-> 0], tests |-> [l \in Layers |-> NoFiles]]
  /\ UNCHANGED <<present, tests, report, genRuns>>

GenNext ==
  \/ \E m \in Methods : AddMethod(m) \/ \E f \in {Own, Stem} : WriteTest(m, f)
  \/ \E filled \in SUBSET present, broken \in SUBSET {m.layer : m \in present} :
       GenerateInPlace(filled, broken) \/ GenerateOut(filled, broken)
  \/ FreshOut

GenSpec == GenInit /\ [][GenNext]_genVars
-----------------------------------------------------------------------------
\* No run takes a test out of a suite of the user's, nor out of the first file
\* gentest wrote, which they may have edited (outNames: "existing suites are
\* never touched").
SuitesKept ==
  [][\A l \in Layers : \A f \in DOMAIN tests[l] \ {Twin} :
       f \in DOMAIN tests'[l] /\ tests[l][f] \subseteq tests'[l][f]]_genVars

\* What a run reports as covered has a test after it, where the layer's tests
\* name no method but their own (buildUnit, testEvidence, outNames).
ReportIsTrue ==
  report # <<>> =>
    \A m \in report[1].covered : m \in Tested(tests[m.layer])
=============================================================================
