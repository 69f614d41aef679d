---------------------------- MODULE MCGeneration ----------------------------
(***************************************************************************)
(* One run over what becomes a body of the generated code, four            *)
(* specifications side by side: the slices an entry is cut into (Slicing), *)
(* bodies written without a model (GoBody), the prompt of a branch and the *)
(* gates of its reply (ControllerSeam), and branches converted fragment by *)
(* fragment (ChunkedBody).  The views of the last are a few lines:         *)
(* well-nested C, with statements that carry store calls, else arms on     *)
(* their own line or on a statement's, blank lines.                        *)
(***************************************************************************)
EXTENDS ChunkedBody, GoBody, TLC

CONSTANTS callA, callB, MaxLines,
          SeamUnits,                                   \* ControllerSeam
          SliceNames, Programs, Filters, Envs          \* Slicing

MCLines ==
  {[kind |-> "stmt", weight |-> 2, call |-> c] : c \in {NoCall, callA}} \cup
  {[kind |-> "head", weight |-> 1, call |-> NoCall],
   [kind |-> "close", weight |-> 1, call |-> NoCall],
   [kind |-> "elseHead", weight |-> 1, call |-> NoCall],
   [kind |-> "elseStmt", weight |-> 3, call |-> callB],
   [kind |-> "blank", weight |-> 1, call |-> NoCall]}

Depth(v, n) ==
  FoldLeft(LAMBDA d, l : d + (CASE l.kind = "head" -> 1
                                [] l.kind = "close" -> -1
                                [] OTHER -> 0), 0, SubSeq(v, 1, n))

\* Blocks close what they open, an else follows the block it belongs to.
WellNested(v) ==
  /\ Depth(v, Len(v)) = 0
  /\ \A n \in DOMAIN v :
       /\ Depth(v, n) >= 0
       /\ v[n].kind = "elseHead" => Depth(v, n) >= 1
       /\ v[n].kind = "elseStmt" =>
            \E j \in 1 .. (n - 1) :
              /\ v[j].kind = "close"
              /\ \A h \in (j + 1) .. (n - 1) : v[h].kind = "blank"

AllViews == {v \in UNION {[1 .. n -> MCLines] : n \in 1 .. MaxLines} : WellNested(v)}

\* Three statements with calls, one chain, a chain whose else is on a
\* statement's line, after a blank one, and two chains in a row.
Stmt(c) == [kind |-> "stmt", weight |-> 2, call |-> c]
Other(kind) == [kind |-> kind, weight |-> 1, call |-> NoCall]
ElseStmt == [kind |-> "elseStmt", weight |-> 3, call |-> callB]
SomeViews ==
  {<<Stmt(callA), Stmt(NoCall), Stmt(callB)>>,
   <<Stmt(callA), Other("head"), Stmt(callB), Other("elseHead"), Stmt(callA), Other("close"), Stmt(NoCall)>>,
   <<Stmt(callB)>>,
   <<Other("head"), Stmt(callA), Other("close"), ElseStmt, Stmt(callA)>>,
   <<Stmt(callA), Other("head"), Stmt(callB), Other("close"), Other("blank"), ElseStmt>>,
   <<Other("head"), Stmt(callA), Other("close"), ElseStmt, Other("head"), Stmt(callB), Other("elseHead"), Stmt(NoCall), Other("close")>>}
MCViews == AllViews \cup SomeViews

---------------------------------------------------------------------------
VARIABLES part,
          unit, prompt, pass, reply,        \* ControllerSeam
          stage, entry, tree, axes, slice   \* Slicing

\* The menus need none of the constants they give values to.
GoMenu == INSTANCE MCGoBody WITH
  Units <- {}, Fns <- {}, SameSpelling <- {}, Alike <- {}, Numeric <- {}
MCGoUnits == GoMenu!MCUnits
MCFns == GoMenu!FnTable
MCSameSpelling == GoMenu!Spellings
MCAlike == GoMenu!Likeness
MCNumeric == GoMenu!Numbers

\* What the proofs about GoBody assume of its texts.
ASSUME TextsAreInScope == WellFormed

SeamMenu == INSTANCE MCControllerSeam WITH Menu <- "all", Units <- {}, view <- prompt
MCSeamUnits == SeamMenu!MCUnits
S == INSTANCE MCControllerSeam WITH Menu <- "all", Units <- SeamUnits, view <- prompt

SliceMenu == INSTANCE MCSlices WITH Menu <- "all", Names <- <<>>, Programs <- {}, Filters <- {}, Envs <- {}
MCNames == SliceMenu!MCNames
MCPrograms == SliceMenu!MCPrograms
MCFilters == SliceMenu!MCFilters
MCEnvs == SliceMenu!MCEnvs
L == INSTANCE MCSlices WITH Menu <- "all", Names <- SliceNames

ofSlices == <<stage, entry, tree, axes, slice>>
ofSeam == <<unit, prompt, pass, reply>>
NoSlices == stage = "" /\ entry = "" /\ tree = "" /\ axes = "" /\ slice = ""
NoGo == /\ text = "" /\ goBody = "" /\ goStage = "" /\ ran = "" /\ err = "" /\ tx = "" /\ durable = ""
        /\ failed = "" /\ result = ""
NoSeam == unit = "" /\ prompt = "" /\ pass = "" /\ reply = ""
NoChunks == /\ pc = "" /\ view = "" /\ budget = "" /\ axis = "" /\ chunks = <<>> /\ bodies = ""
            /\ body = "" /\ kept = "" /\ rejected = "" /\ stitched = "" /\ spent = "" /\ cancelled = ""
InitSlices == part = "slices" /\ L!Init /\ NoGo /\ NoSeam /\ NoChunks
InitGo == part = "go" /\ GoInit /\ NoSlices /\ NoSeam /\ NoChunks
InitSeam == part = "seam" /\ S!Init /\ NoSlices /\ NoGo /\ NoChunks
InitChunks == part = "chunks" /\ Init /\ NoSlices /\ NoGo /\ NoSeam
SliceStep == part = "slices" /\ L!Next /\ UNCHANGED <<part, goVars, ofSeam, vars>>
GoStep == part = "go" /\ GoNext /\ UNCHANGED <<part, ofSlices, ofSeam, vars>>
SeamStep == part = "seam" /\ S!Next /\ UNCHANGED <<part, ofSlices, goVars, vars>>
ChunkStep == part = "chunks" /\ Next /\ UNCHANGED <<part, ofSlices, goVars, ofSeam>>
AllSpec == (InitGo \/ InitSeam \/ InitChunks \/ InitSlices)
             /\ [][SliceStep \/ GoStep \/ SeamStep \/ ChunkStep]_<<part, ofSlices, goVars, ofSeam, vars>>

\* The properties of ChunkedBody and GoBody are checked as they are: their
\* parts are empty in the others.
\* Slicing: a slice does, on its values, what the entry does; every line of
\* the entry that can run is in a slice, and what it reads, sends or executes
\* is in the census of the slice.
SlicesFaithful ==
  part = "slices" => L!SliceFaithful /\ L!EveryLineHasASlice /\ L!CensusHasWhatRuns
\* Slicing: a slice's transaction is the one the entry runs it in.
TxAsRun == part = "slices" => L!TxMatchesRun
\* Slicing: a field of the response names the write it is filled by.
ResponsesNameWrites == part = "slices" => L!ResponseNamesItsWrite
\* ControllerSeam: the view, as the prompt shows it, runs as the branch did.
ViewsRunAsBranches == part = "seam" => S!ViewRunsAsTheBranch
\* ControllerSeam: a reply that copies the view is accepted.
EchoesAccepted == part = "seam" => S!EchoIsAccepted
\* ControllerSeam: what is accepted runs as the branch did.
AcceptedRunAsBranches == part = "seam" => S!AcceptedRunsAsTheBranch
=============================================================================
