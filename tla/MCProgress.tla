----------------------------- MODULE MCProgress -----------------------------
(***************************************************************************)
(* What must come to an end: runs of convert over one service until every  *)
(* unit is accepted, one seam, and one directory convert.  Three           *)
(* specifications with their fairness, side by side: a behaviour belongs   *)
(* to one part, and the variables of the other two keep one value.         *)
(*                                                                         *)
(* The seam has one good payload, a larger good one that only a roomy      *)
(* ceiling lets through, a bad one and a blank one.  The directory convert *)
(* has three entries and a mapping directory of four drafts; methods are   *)
(* numbers, a plan lists them in program order.                            *)
(***************************************************************************)
EXTENDS MCConvertRun, LlmSeam, Fanout

CONSTANTS good, long, bad, blank
Sizes == good :> 2 @@ long :> 5 @@ bad :> 2 @@ blank :> 1

CONSTANTS ka, kb, kc, kx, sa, sb, sc, sd, f1, f2, f3, f4

Draft(k, s, v) == [source |-> k, service |-> s, valid |-> v]

\* Distinct entries, distinct method names.
Keys == 1 :> ka @@ 2 :> kb @@ 3 :> kc
OwnMethods == 1 :> {1, 2} @@ 2 :> {3} @@ 3 :> {4}

\* The directories a team may have, every service with a name of its own:
\* complete, with a leftover, an excluded source, an untagged or malformed
\* draft, a duplicate.
OwnServices ==
  {f1 :> Draft(ka, sa, v1) @@ f2 :> Draft(kb, sb, TRUE) @@
   f3 :> Draft(k3, sc, TRUE) @@ f4 :> Draft(k4, sd, v4) :
     v1 \in BOOLEAN, v4 \in BOOLEAN,
     k3 \in {kc, kb, NoKey}, k4 \in {ka, kc, kx, NoKey}}

\* And one in which two entries name the same service.
SameService ==
  f1 :> Draft(ka, sa, TRUE) @@ f2 :> Draft(kb, sa, TRUE) @@
  f3 :> Draft(kc, sc, TRUE) @@ f4 :> Draft(kx, sd, TRUE)

TeamDirectories == OwnServices \cup {SameService}
-----------------------------------------------------------------------------
VARIABLE part

all == <<part, vars, seam, fanout>>
Parts == {"runs", "seam", "fanout"}

\* The parts that are not run hold one of their initial states.
AllInit ==
  /\ part \in Parts
  /\ Init /\ SeamInit /\ FanoutInit
  /\ part # "runs" => mapping = CHOOSE m \in Mappings : TRUE
  /\ part # "fanout" => dir = SameService

Runs(A) == part = "runs" /\ A /\ UNCHANGED <<part, seam, fanout>>
Seam(A) == part = "seam" /\ A /\ UNCHANGED <<part, vars, fanout>>
Convert(A) == part = "fanout" /\ A /\ UNCHANGED <<part, vars, seam>>

AllNext == Runs(Next) \/ Seam(SeamNext) \/ Convert(FanoutNext)

\* The fairness of each part is that of its own FairSpec.
AllSpec ==
  /\ AllInit /\ [][AllNext]_all
  /\ WF_all(Runs(Step)) /\ SF_all(Runs(StartRun("llm")))
  /\ \A s \in Slots : SF_all(Runs(LLMAccepted(s)))
  /\ WF_all(Seam(SeamStep))
  /\ WF_all(Convert(FanoutNext))

\* Retries of rejected units converge (Converges).
RunsConverge == part = "runs" => Converges
\* The seam always returns, whatever it is answered (Terminates).
SeamReturns == part = "seam" => Terminates
\* The directory convert ends, under every schedule (FanoutEnds).
ConvertEnds == part = "fanout" => FanoutEnds
=============================================================================
