------------------------------- MODULE CsRuns -------------------------------
(***************************************************************************)
(* cmd/tuxconv/convertcs.go and internal/csgen: one run of                 *)
(* `tuxconv convertcs` after another on one component.  A run plans the    *)
(* entry, fills the residual block of every endpoint from the ledger or by *)
(* the LLM seam, saves the ledger, checks and writes the seven files; it   *)
(* may be killed anywhere and any write may break off.  Between runs the   *)
(* source and the mapping may change.  What the facts, a mapping, a plan,  *)
(* a reply and a file hold is CsConvert; here they are any value.          *)
(***************************************************************************)
EXTENDS Naturals, Sequences, PlanState

CONSTANTS
  MaxRuns,
  armGates(_, _)   \* do the gates accept this block for this endpoint

\* stage is "idle", "extracted", "mapped", "generating" or "writing".
VARIABLES
  llm,       \* is there a client in this run
  resumed, bodies,  \* endpoint name -> residual block, loaded and now
  at,        \* the endpoint whose turn it is
  ledger, tree, result, runs
csRunVars == <<file, stage, ir, mapping, plan, llm, resumed, bodies, at, ledger, tree, result, runs>>
setup == <<file, ir, mapping, llm, runs>>

NoBodies == [n \in {} |-> Nothing]
Good(source, kept) == [state |-> "good", source |-> source, bodies |-> kept]
Torn == [state |-> "torn", source |-> "", bodies |-> NoBodies]
NoLedger == [state |-> "none", source |-> "", bodies |-> NoBodies]

---------------------------------------------------------------------------
RunsFrom(files) ==
  /\ file \in files /\ stage = "idle" /\ ir = Nothing /\ mapping = Nothing /\ plan = Nothing
  /\ llm = FALSE /\ resumed = NoBodies /\ bodies = NoBodies /\ at = 1
  /\ ledger = NoLedger /\ tree = [k \in {} |-> Nothing] /\ result = "" /\ runs = 0

\* A run begins with the facts of the file.
StartRun(facts) ==
  /\ stage = "idle" /\ runs < MaxRuns /\ stage' = "extracted" /\ runs' = runs + 1
  /\ result' = "" /\ ir' = facts /\ llm' \in BOOLEAN
  /\ mapping' = Nothing /\ plan' = Nothing /\ bodies' = NoBodies /\ at' = 1
  /\ resumed' = NoBodies /\ UNCHANGED <<file, ledger, tree>>
MappingLoaded(m, valid) ==
  /\ stage = "extracted" /\ mapping' = m
  /\ stage' = IF valid THEN "mapped" ELSE "idle"
  /\ result' = IF valid THEN "" ELSE "refused"
  /\ UNCHANGED <<file, ir, plan, llm, resumed, bodies, at, ledger, tree, runs>>

\* loadConvertcsLedger: only the blocks of the same source, only filled ones.
Loadable(path) == IF ledger.state = "good" /\ ledger.source = path THEN ledger.bodies ELSE NoBodies
\* A plan that is not refused has its endpoints in order.
IsPlan(p) == p.ok = TRUE => \E n \in Nat : Len(p.endpoints) = n /\ DOMAIN p.endpoints = 1..n
PlanBuilt(p) ==
  /\ stage = "mapped" /\ plan' = p
  /\ stage' = IF p.ok THEN "generating" ELSE "idle"
  /\ result' = IF p.ok THEN "" ELSE "refused"
  /\ resumed' = IF p.ok THEN Loadable(file.path) ELSE NoBodies
  /\ UNCHANGED <<setup, bodies, at, ledger, tree>>

---------------------------------------------------------------------------
\* epLineSpan and armView: a slice without a body has no view, no prompt.
HasArmView(ep) == ep.shape.from >= 1 /\ ep.shape.from <= ep.shape.to

\* Generate, endpoint after endpoint.  A block of the ledger is gated again
\* and needs no client; refused, it leaves the placeholder.
Turn == stage = "generating" /\ at <= Len(plan.endpoints)
Ep == plan.endpoints[at]
Fill(b) == bodies' = [n \in DOMAIN bodies \cup {Ep.name} |-> IF n \in DOMAIN bodies THEN bodies[n] ELSE b]
Advance == at' = at + 1 /\ UNCHANGED <<setup, stage, plan, resumed, ledger, tree, result>>
\* Mutant: without a client nothing is resumed.
ResumableWithClient(ep) == llm /\ ep.name \in DOMAIN resumed
Resumable(ep) == ep.name \in DOMAIN resumed
\* Mutant: what was accepted once is not gated again.
ReusableAsIs(ep) == TRUE
Reusable(ep) == armGates(ep, resumed[ep.name])
Resume == /\ Turn /\ Resumable(Ep) /\ Advance
          /\ IF Reusable(Ep) THEN Fill(resumed[Ep.name]) ELSE UNCHANGED bodies
Asked(ep) == ~Resumable(ep) /\ llm /\ HasArmView(ep)
SkipSeam == /\ Turn /\ ~Resumable(Ep) /\ ~Asked(Ep) /\ Advance /\ UNCHANGED bodies
\* fillArmBody: a reply the gates accept ends the attempts; without one the
\* placeholder stays.
FillArmBody(b) == /\ Turn /\ Asked(Ep) /\ Advance
                  /\ armGates(Ep, b) /\ Fill(b)
Exhausted == Turn /\ Asked(Ep) /\ Advance /\ UNCHANGED bodies

---------------------------------------------------------------------------
\* saveConvertcsLedger: a failed write is a warning; it may leave half a file.
SaveLedger ==
  /\ stage = "generating" /\ at > Len(plan.endpoints) /\ stage' = "writing"
  /\ ledger' \in {Good(file.path, bodies), ledger, Torn}
  /\ UNCHANGED <<setup, plan, resumed, bodies, at, tree, result>>

\* The seven files in order; a write that fails leaves the rest as they were
\* and its own half written.  Issues are reported after all are written.
FileKinds == <<"Controller", "DTO", "NamedQueries", "IRepository", "Repository", "IService", "Service">>
Overwritten(rendered, n) ==
  LET written == {FileKinds[i] : i \in 1..n}
      torn == IF n < 7 THEN {FileKinds[n + 1]} ELSE {}
  IN [k \in DOMAIN tree \cup written \cup torn |->
        IF k \in written THEN rendered[k] ELSE IF k \in torn THEN "torn" ELSE tree[k]]
WriteTree(rendered, n, issues) ==
  /\ stage = "writing" /\ stage' = "idle"
  /\ tree' = Overwritten(rendered, n)
  /\ result' = CASE n < 7 -> "failed" [] n = 7 /\ issues -> "issues" [] OTHER -> "done"
  /\ UNCHANGED <<setup, plan, resumed, bodies, at, ledger>>

\* A kill loses what is not on disk; inside a write it leaves a half of it.
Crash == /\ stage \in {"generating", "writing"} /\ stage' = "idle" /\ result' = "crashed"
         /\ ledger' \in {ledger} \cup IF stage = "generating" /\ at > Len(plan.endpoints) THEN {Torn} ELSE {}
         /\ UNCHANGED <<setup, plan, resumed, bodies, at, tree>>

EditFile(edition) ==
  /\ stage = "idle" /\ runs \in 1..MaxRuns - 1 /\ file' = edition
  /\ ir' = Nothing /\ mapping' = Nothing /\ plan' = Nothing /\ result' = ""
  /\ UNCHANGED <<stage, llm, resumed, bodies, at, ledger, tree, runs>>

CsRunsNext ==
  \/ \E facts : StartRun(facts)
  \/ \E m : \E valid \in BOOLEAN : MappingLoaded(m, valid)
  \/ \E p : IsPlan(p) /\ PlanBuilt(p)
  \/ Resume \/ SkipSeam \/ Exhausted \/ \E b : FillArmBody(b)
  \/ SaveLedger
  \/ \E rendered : \E n \in 0..7, issues \in BOOLEAN : WriteTree(rendered, n, issues)
  \/ Crash
  \/ \E edition : EditFile(edition)
CsRunsSpec == (\E files : RunsFrom(files)) /\ [][CsRunsNext]_csRunVars

---------------------------------------------------------------------------
\* A block that was accepted stays in the ledger until a write of it breaks
\* off, or a run saves it whose mapping has no such endpoint, whose source is
\* another, or whose gates refuse the block: not because a run had no client,
\* failed or was killed.
AcceptedBodiesKept ==
  [][ledger' # ledger /\ ledger.state = "good" =>
       \A n \in DOMAIN ledger.bodies :
         \/ ledger'.state = "torn" \/ ledger.source # file.path
         \/ ~\E i \in DOMAIN plan.endpoints :
               plan.endpoints[i].name = n /\ armGates(plan.endpoints[i], ledger.bodies[n])
         \/ n \in DOMAIN ledger'.bodies /\ ledger'.bodies[n] = ledger.bodies[n]]_csRunVars
=============================================================================
