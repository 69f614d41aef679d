----------------------------- MODULE PlanState -----------------------------
(***************************************************************************)
(* What a command has of the service it works on, in the order it gets it: *)
(* shared by the runs that plan for Go (Planning) and for C# (CsRuns).     *)
(***************************************************************************)
VARIABLES file,      \* the source: its path and its text
          stage,     \* how far the run is
          ir,        \* what was extracted from the file
          mapping, plan

\* No value yet.
Nothing == [none |-> TRUE]
=============================================================================
