----------------------------- MODULE ConvertRun -----------------------------
(***************************************************************************)
(* internal/convert Run: the staged conversion of one service, the tree it *)
(* assembles method by method, the ledger it keeps in memory and saves     *)
(* once at the end, and what happens between runs (a crash, a mapping      *)
(* rename, an operator clearing the tree or the ledger).                   *)
(*                                                                         *)
(* A run walks the stages in program order: models, db, glue, one          *)
(* controller body per endpoint, the tpcall placeholders, one helper body  *)
(* per same-file function, and finally Ledger.Save.  Each LLM seam is one  *)
(* nondeterministic verdict here; module LlmSeam opens it up.              *)
(***************************************************************************)
EXTENDS Naturals

CONSTANTS
  NC, NH,          \* number of controller and of helper units in the plan
  CtrlNames,       \* method names of controller/<service>.go
  HelperNames,     \* method names of controller/fns.go
  NoName,
  Mappings,        \* the name assignments the mapping file may hold
  Prefix,          \* <<m, n>>: m is a proper prefix of n, same file
  Gap,             \* names whose deterministic body cannot be synthesised
  Fixed,           \* helpers whose signature the callers were generated from
  HasModels,       \* FALSE for a fn library without queries
  Echo,            \* may an accepted body repeat the baseline's marker line?
  Tearing,         \* files a write may go bad in: the process killed inside
                   \* os.WriteFile, or a rendered artifact that fails Tier A
  Crashes,         \* may a run be killed, or return before it saved?
  Operator         \* what the operator may do between runs

Names == CtrlNames \cup HelperNames
CtrlSlots == 1 .. NC
HelperSlots == (NC + 1) .. (NC + NH)
Slots == 1 .. (NC + NH)
Artifacts == {"models", "db", "glue", "tpcall"}

L == INSTANCE Ledger

\* An assignment gives every unit a name of its own kind, no name twice.
IsMapping(m) ==
  /\ m \in [Slots -> Names]
  /\ \A s \in CtrlSlots : m[s] \in CtrlNames
  /\ \A s \in HelperSlots : m[s] \in HelperNames
  /\ \A s, t \in Slots : m[s] = m[t] => s = t

ASSUME SizeAssumption == NC \in Nat /\ NH \in Nat
ASSUME NameAssumption ==
  /\ CtrlNames \cap HelperNames = {}
  /\ NoName \notin Names
  /\ Gap \subseteq Names
  /\ Fixed \subseteq HelperNames
ASSUME MappingAssumption == Mappings # {} /\ \A m \in Mappings : IsMapping(m)
ASSUME PrefixAssumption ==
  Prefix \subseteq (CtrlNames \X CtrlNames) \cup (HelperNames \X HelperNames)
ASSUME SwitchAssumption ==
  /\ HasModels \in BOOLEAN /\ Echo \in BOOLEAN
  /\ Tearing \subseteq Artifacts \cup {"ctrl", "help"} /\ Crashes \in BOOLEAN
  /\ Operator \subseteq {"clear", "forget", "rename"}

VARIABLES
  pc,       \* stage of the run under way, or how the last one ended
  mode,     \* "llm", or "nollm" for run.llm: false
  next,     \* the unit the controller/helper loop is at
  mapping,  \* the mapping file
  mem,      \* the ledger of the run under way
  saved,    \* <service>.ledger.json
  file,     \* whole-file artifacts on disk
  body,     \* what the merged file holds under each method name
  before,   \* <<m, n>>: m's text precedes n's in their file
  torn,     \* files an interrupted write left unparsable
  regen     \* for the properties: whether a tree cleared under its ledger is
            \* still to be regenerated, or a run that set out to broke off

vars == <<pc, mode, next, mapping, mem, saved, file, body, before, torn, regen>>
tree == <<file, body, before, torn>>

Stages == {"models", "db", "glue", "ctrl", "help"}
Running == pc \in Stages

\* What can stand under a name: nothing, a deterministic body, an accepted
\* LLM body, an accepted one that repeats the deterministic marker, a kept
\* rejected output behind a panicking placeholder, a gated-out helper's
\* compiling placeholder, or the head of a method whose tail was lost.
BodyKinds == {"none", "det", "llm", "echo", "rej", "todo", "cut"}

TypeOK ==
  /\ pc \in Stages \cup {"idle", "refused", "done"}
  /\ mode \in {"llm", "nollm"}
  /\ next \in 1 .. (NC + NH + 1)
  /\ mapping \in Mappings
  /\ mem \in L!LedgerValue
  /\ saved \in L!LedgerValue
  /\ file \in [Artifacts -> {"absent", "ok", "bad"}]
  /\ body \in [Names -> BodyKinds]
  /\ before \subseteq Names \X Names
  /\ torn \subseteq {"ctrl", "help"}
  /\ regen \in {"whole", "cleared", "broken"}

Init ==
  /\ pc = "idle"
  /\ mode = "llm"
  /\ next = 1
  /\ mapping \in Mappings
  /\ mem = L!EmptyLedger
  /\ saved = L!EmptyLedger
  /\ file = [a \in Artifacts |-> "absent"]
  /\ body = [n \in Names |-> "none"]
  /\ before = {}
  /\ torn = {}
  /\ regen = "whole"

-----------------------------------------------------------------------------
(* The merged method files.                                                *)

FileOf(n) == IF n \in CtrlNames THEN "ctrl" ELSE "help"
SameFile(n) == {m \in Names : FileOf(m) = FileOf(n)}

\* hasLiveMethod: any "func (...) name(" line, whatever its body is worth.
Live(n) == body[n] # "none"

\* IsDeterministic...: the marker comment followed by exactly this name.
DetMarked(n) == body[n] \in {"det", "echo"}

\* stripRejectedBlock looks for the text "REJECTED-BEGIN " + name, so it
\* stops at the first block whose name merely starts with it.
ForeignBlockFirst(n) ==
  \E m \in Names :
    /\ <<n, m>> \in Prefix
    /\ body[m] = "rej"
    /\ ~ (body[n] = "rej" /\ <<n, m>> \in before)

\* After the strip the text does not parse: another method's block lost its
\* head, or the file was torn before.
Unparsable(n) == FileOf(n) \in torn \/ ForeignBlockFirst(n)

\* Mutants: strip whatever method has the name; strip no rejected block.
LiveAfterStripAny(n) ==
  \/ body[n] \in {"todo", "cut"}
  \/ body[n] = "rej" /\ ForeignBlockFirst(n)
  \/ DetMarked(n) /\ Unparsable(n)
LiveAfterNoRejectedStrip(n) ==
  \/ body[n] \in {"llm", "todo", "cut", "rej"}
  \/ DetMarked(n) /\ Unparsable(n)

\* Still a live method once the rejected block and the deterministic method
\* of that name are stripped (the latter needs the file to parse).
LiveAfterStrip(n) ==
  \/ body[n] \in {"llm", "todo", "cut"}
  \/ body[n] = "rej" /\ ForeignBlockFirst(n)
  \/ DetMarked(n) /\ Unparsable(n)

\* The three ends of writeControllerArtifact / writeFnArtifact.
Outcome(n) ==
  IF LiveAfterStrip(n) THEN "kept"
  ELSE IF Unparsable(n) THEN "error" ELSE "written"

\* The file after the method is appended as k: the old text of n is gone,
\* everything else that stands in the file precedes the new one.
BodyWith(n, k) == [body EXCEPT ![n] = k]
OrderWith(n) ==
  {p \in before : p[1] # n /\ p[2] # n}
    \cup {<<m, n>> : m \in {m \in SameFile(n) \ {n} : Live(m)}}

Merge(n, k) ==
  IF Outcome(n) = "written"
  THEN body' = BodyWith(n, k) /\ before' = OrderWith(n)
  ELSE UNCHANGED <<body, before>>
-----------------------------------------------------------------------------
(* Starting a run, and the deterministic stages.                           *)

\* Mutants: no staged-collision guard; a zero-based unit index.
StartRunUnguarded(md) ==
  /\ ~ Running
  /\ mode' = md
  /\ next' = 1
  /\ pc' = IF HasModels THEN "models" ELSE "glue"
  /\ mem' = saved
  /\ UNCHANGED <<mapping, saved, tree, regen>>
StartRunZeroBased(md) ==
  /\ ~ Running
  /\ mode' = md
  /\ next' = 0
  /\ pc' = IF HasModels THEN "models" ELSE "glue"
  /\ mem' = saved
  /\ UNCHANGED <<mapping, saved, tree, regen>>

\* Load the ledger, then the staged-collision guard: a fresh ledger against
\* an existing models file is a hard error.
StartRun(md) ==
  /\ ~ Running
  /\ mode' = md
  /\ next' = 1
  /\ IF L!Fresh(saved) /\ file["models"] # "absent"
     THEN pc' = "refused" /\ mem' = L!EmptyLedger
     ELSE /\ pc' = IF HasModels THEN "models" ELSE "glue"
          /\ mem' = saved
  /\ UNCHANGED <<mapping, saved, tree, regen>>

StageAfter(st) ==
  CASE st = "models" -> "db" [] st = "db" -> "glue" [] st = "glue" -> "ctrl"

\* Mutant: trust the ledger's "appended" without looking at the disk.
GenerateFileTrusting(a) ==
  /\ pc = a
  /\ a \in {"models", "glue"}
  /\ IF mem.art[a] = "appended"
     THEN UNCHANGED <<mem, file>>
     ELSE /\ file' = [file EXCEPT ![a] = "ok"]
          /\ mem' = L!SetArtifact(mem, a, "appended")
  /\ pc' = StageAfter(a)
  /\ UNCHANGED <<mode, next, mapping, saved, body, before, torn, regen>>

\* generateFile: skip when recorded appended and still on disk, else render,
\* write, validate and record.
GenerateFile(a) ==
  /\ pc = a
  /\ a \in {"models", "glue"}
  /\ IF mem.art[a] = "appended" /\ file[a] # "absent"
     THEN UNCHANGED <<mem, file>>
     ELSE /\ file' = [file EXCEPT ![a] = "ok"]
          /\ mem' = L!SetArtifact(mem, a, "appended")
  /\ pc' = StageAfter(a)
  /\ UNCHANGED <<mode, next, mapping, saved, body, before, torn, regen>>

\* The db stage rewrites its file and rebuilds its interface on every run.
WriteDB ==
  /\ pc = "db"
  /\ file' = [file EXCEPT !["db"] = "ok"]
  /\ mem' = L!SetArtifact(mem, "db", "appended")
  /\ pc' = "glue"
  /\ UNCHANGED <<mode, next, mapping, saved, body, before, torn, regen>>

\* renderTPCallPlaceholders, between the controllers and the helpers.
PlaceTPCalls ==
  /\ pc = "ctrl"
  /\ next = NC + 1
  /\ IF mem.art["tpcall"] = "placeholder" /\ file["tpcall"] # "absent"
     THEN UNCHANGED <<mem, file>>
     ELSE /\ file' = [file EXCEPT !["tpcall"] = "ok"]
          /\ mem' = L!SetArtifact(mem, "tpcall", "placeholder")
  /\ pc' = "help"
  /\ UNCHANGED <<mode, next, mapping, saved, body, before, torn, regen>>
-----------------------------------------------------------------------------
(* The controller and helper loops: one unit per step.                     *)

AtUnit(s) ==
  /\ next = s
  /\ \/ pc = "ctrl" /\ s \in CtrlSlots
     \/ pc = "help" /\ s \in HelperSlots

Entry(s) == L!Get(mem, s, mapping[s])

\* Recorded appended and a live unmarked method on disk: nothing to do.
Resumed(s) ==
  /\ Entry(s).status = "appended"
  /\ Live(mapping[s])
  /\ ~ DetMarked(mapping[s])

Record(s, st) == L!SetUnit(mem, s, mapping[s], st)
\* Mutant: an accepted unit that never reaches the conversion map.
RecordUnmapped(s, st) == Record(s, st)
RecordMapped(s, st) == L!AddMap(Record(s, st), mapping[s])

UnitDone ==
  /\ next' = next + 1
  /\ UNCHANGED <<pc, mode, mapping, saved, file, torn, regen>>

ResumeSkip(s) ==
  /\ AtUnit(s)
  /\ Resumed(s)
  /\ mem' = Record(s, "appended")
  /\ UNCHANGED <<body, before>>
  /\ UnitDone

\* run.llm: false and the synthesis has a gap: recorded skipped.  A fixed
\* helper leaves a compiling placeholder so that its callers still build.
DeterministicGap(s) ==
  /\ AtUnit(s) /\ ~ Resumed(s)
  /\ mode = "nollm"
  /\ mapping[s] \in Gap
  /\ IF mapping[s] \in Fixed THEN Merge(mapping[s], "todo")
                             ELSE UNCHANGED <<body, before>>
  /\ mem' = Record(s, "skipped")
  /\ UnitDone

\* run.llm: false with a synthesised body.
DeterministicBody(s) ==
  /\ AtUnit(s) /\ ~ Resumed(s)
  /\ mode = "nollm"
  /\ mapping[s] \notin Gap
  /\ Merge(mapping[s], "det")
  /\ mem' = IF Outcome(mapping[s]) = "error" THEN Record(s, "failed")
                                            ELSE RecordMapped(s, "skipped")
  /\ UnitDone

\* The seam accepted a body.  A live method of that name wins over it.  The
\* marker can be repeated only when the deterministic body was the baseline.
AcceptedKinds(n) == {"llm"} \cup (IF Echo /\ DetMarked(n) THEN {"echo"} ELSE {})

LLMAccepted(s) ==
  /\ AtUnit(s) /\ ~ Resumed(s)
  /\ mode = "llm"
  /\ \E k \in AcceptedKinds(mapping[s]) : Merge(mapping[s], k)
  /\ mem' = IF Outcome(mapping[s]) = "error" THEN Record(s, "failed")
                                            ELSE RecordMapped(s, "appended")
  /\ UnitDone

\* The seam gave up.  The last rejected output, when there is one, is kept
\* behind a panicking placeholder (not for helpers without callers).
LLMRejected(s) ==
  /\ AtUnit(s) /\ ~ Resumed(s)
  /\ mode = "llm"
  /\ \/ /\ mapping[s] \in CtrlNames \cup Fixed
        /\ Merge(mapping[s], "rej")
     \/ UNCHANGED <<body, before>>
  /\ mem' = Record(s, "failed")
  /\ UnitDone

\* Ledger.Save, the only place the ledger reaches the disk.
Save ==
  /\ pc = "help"
  /\ next = NC + NH + 1
  /\ saved' = mem
  /\ mem' = L!EmptyLedger
  /\ pc' = "done"
  /\ next' = 1
  /\ regen' = IF regen = "cleared" THEN "whole" ELSE regen
  /\ UNCHANGED <<mode, mapping, tree>>
-----------------------------------------------------------------------------
(* Runs that end early.  Whatever the ledger learned is lost.              *)

Drop ==
  /\ pc' = "idle"
  /\ next' = 1
  /\ mem' = L!EmptyLedger
  /\ regen' = IF regen = "cleared" THEN "broken" ELSE regen
  /\ UNCHANGED <<mode, mapping, saved>>

\* A render error of a deterministic stage, or no LLM client configured;
\* and the process being killed: both leave the tree as it stands.
Abort ==
  /\ Crashes
  /\ Running
  /\ Drop
  /\ UNCHANGED tree

\* Killed inside os.WriteFile of a whole-file artifact, or the artifact was
\* written and failed its validation: Run returns, the bad file stays.
SpoilArtifact(a) ==
  /\ a \in Tearing
  /\ \/ pc = a /\ a # "tpcall"
     \/ pc = "ctrl" /\ next = NC + 1 /\ a = "tpcall"
  /\ \/ a = "db"
     \/ file[a] = "absent"
     \/ mem.art[a] \notin {"appended", "placeholder"}
  /\ file' = [file EXCEPT ![a] = "bad"]
  /\ Drop
  /\ UNCHANGED <<body, before, torn>>

\* Killed inside os.WriteFile of a merged file: a proper prefix of the new
\* text survives, its last method possibly cut.
WrittenKinds == IF mode = "llm" THEN {"llm", "rej"} ELSE {"det"}

TearMethods(s, k) ==
  LET n == mapping[s]
      now == BodyWith(n, k)
      order == OrderWith(n)
      present == {m \in SameFile(n) : now[m] # "none"}
      Prefixed(keep) ==
        \A m \in keep : \A p \in present : <<p, m>> \in order => p \in keep
  IN
  /\ FileOf(n) \in Tearing
  /\ AtUnit(s) /\ ~ Resumed(s)
  /\ Outcome(n) = "written"
  /\ \E keep \in SUBSET present :
       /\ keep # present
       /\ Prefixed(keep)
       /\ \E cut \in SUBSET (present \ keep) :
            /\ \A m \in cut : Prefixed(keep \cup {m})
            /\ \A m, p \in cut : m = p
            /\ body' = [m \in Names |->
                         IF m \notin SameFile(n) THEN body[m]
                         ELSE IF m \in keep THEN now[m]
                         ELSE IF m \in cut THEN "cut" ELSE "none"]
            /\ before' = {p \in order : body'[p[1]] # "none"
                                        /\ body'[p[2]] # "none"}
  /\ torn' = torn \cup {FileOf(n)}
  /\ Drop
  /\ UNCHANGED file
-----------------------------------------------------------------------------
(* Between runs.                                                           *)

ClearTree ==
  /\ ~ Running /\ "clear" \in Operator
  /\ file' = [a \in Artifacts |-> "absent"]
  /\ body' = [n \in Names |-> "none"]
  /\ before' = {}
  /\ torn' = {}
  /\ regen' = "cleared"
  /\ pc' = "idle"
  /\ UNCHANGED <<mode, next, mapping, mem, saved>>

ForgetLedger ==
  /\ ~ Running /\ "forget" \in Operator
  /\ saved' = L!EmptyLedger
  /\ regen' = "whole"
  /\ pc' = "idle"
  /\ UNCHANGED <<mode, next, mapping, mem, tree>>

RenameEndpoint ==
  /\ ~ Running /\ "rename" \in Operator
  /\ mapping' \in Mappings
  /\ pc' = "idle"
  /\ UNCHANGED <<mode, next, mem, saved, tree, regen>>
-----------------------------------------------------------------------------
UnitStep(s) ==
  \/ ResumeSkip(s)
  \/ DeterministicGap(s)
  \/ DeterministicBody(s)
  \/ LLMAccepted(s)
  \/ LLMRejected(s)

Step ==
  \/ \E a \in Artifacts : GenerateFile(a)
  \/ WriteDB
  \/ PlaceTPCalls
  \/ \E s \in Slots : UnitStep(s)
  \/ Save

Crash ==
  \/ Abort
  \/ \E a \in Artifacts : SpoilArtifact(a)
  \/ \E s \in Slots, k \in WrittenKinds : TearMethods(s, k)

Next ==
  \/ \E md \in {"llm", "nollm"} : StartRun(md)
  \/ Step
  \/ Crash
  \/ ClearTree
  \/ ForgetLedger
  \/ RenameEndpoint

Spec == Init /\ [][Next]_vars

\* A started process runs on (Step).  The rest is the environment: somebody
\* keeps re-running with the LLM, and a seam that is asked again and again
\* for the same unit sooner or later has an answer accepted.
FairSpec ==
  /\ Spec
  /\ WF_vars(Step)
  /\ SF_vars(StartRun("llm"))
  /\ \A s \in Slots : SF_vars(LLMAccepted(s))
-----------------------------------------------------------------------------
(* Properties.                                                             *)

\* Bodies that came out of an accepted LLM answer.
Accepted == {"llm", "echo"}

\* What a resume takes for an accepted body and is none: the compiling
\* placeholder a run without LLM left for a helper, and, where a run broke off
\* in a cleared tree, the placeholder it had put before a rejected body.
Mistaken(n) ==
  \/ body[n] = "todo"
  \/ body[n] = "rej" /\ regen = "broken"

\* A unit this run (or the ledger file, once a run has completed) calls
\* appended has its accepted body in the tree, under the name the mapping
\* gives it today.  "s \in seen" are the units whose verdict is final.
Honest(l, seen) ==
  \A s \in seen :
    l.unit[s].status = "appended" =>
      /\ l.unit[s].name = mapping[s]
      /\ body[mapping[s]] \in Accepted \/ Mistaken(mapping[s])

SeenSlots ==
  CASE pc = "ctrl" \/ pc = "help" -> {s \in Slots : s < next}
    [] OTHER -> {}

\* Whatever runs were killed, trees cleared, ledgers forgotten and endpoints
\* renamed before it: a run that went through a unit leaves it recorded
\* appended only with its accepted body in the tree (pipeline.go: "a cleared
\* staged tree with a kept ledger must regenerate instead of silently leaving
\* the tree incomplete").  The exceptions are the two placeholders that a
\* resume mistakes for an accepted body, because hasLiveMethod does not look
\* at what a method is worth; never a missing method or a deterministic body.
\* Nothing is claimed of a merged file that a kill left torn.
LedgerHonest ==
  torn = {} => /\ pc = "done" => Honest(saved, Slots)
               /\ Honest(mem, SeenSlots)

\* A completed run leaves every whole-file artifact its ledger claims on
\* disk and readable.
ArtifactsOnDisk ==
  pc = "done" =>
    \A a \in Artifacts :
      saved.art[a] \in {"appended", "placeholder"} => file[a] = "ok"

\* Every unit a ledger calls appended is in its conversion map, across
\* renames, aborted runs and resumes that skip the unit.
AppendedIsMapped ==
  \A s \in Slots :
    /\ saved.unit[s].status = "appended" => saved.unit[s].name \in saved.map
    /\ mem.unit[s].status = "appended" => mem.unit[s].name \in mem.map

\* "An accepted LLM body on disk always wins - never downgrade it": only the
\* operator or an interrupted write takes an accepted body away.
AcceptedKept ==
  [][\A n \in Names :
       body[n] \in Accepted /\ body'[n] \notin Accepted =>
         ClearTree \/ torn' # torn]_vars

\* A run with a fresh ledger starts only where no earlier run left methods:
\* generations never mix in one file (the staged-collision guard).
NoMixedGenerations ==
  [][pc' \in {"models", "glue"} /\ ~ Running /\ L!Fresh(saved)
       => \A n \in Names : body[n] = "none"]_vars

\* Retries converge: once the operator leaves the tree and the mapping alone,
\* a rejected unit, a skipped one and a deterministic body all end as accepted
\* bodies that the ledger calls appended, and stay so, however -no-llm and LLM
\* runs alternate.
Converges ==
  <>[][~ (ClearTree \/ RenameEndpoint)]_vars =>
    <>[](\A s \in Slots : /\ saved.unit[s].status = "appended"
                          /\ saved.unit[s].name = mapping[s]
                          /\ body[mapping[s]] \in Accepted)
=============================================================================
