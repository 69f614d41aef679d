---------------------------- MODULE ParallelFor -----------------------------
(***************************************************************************)
(* What the callers of common.RunIndexed rely on: every index is run       *)
(* exactly once, in no particular order, and the call returns only when    *)
(* all of them have ended, so the result slices are complete when read.    *)
(***************************************************************************)
CONSTANT Jobs

VARIABLES
  begun,     \* the indices fn was called with
  ended,     \* those whose call returned
  returned   \* the fan-out call itself returned

vars == <<begun, ended, returned>>

Init == begun = {} /\ ended = {} /\ returned = FALSE

Begin(j) ==
  /\ ~ returned
  /\ j \notin begun
  /\ begun' = begun \cup {j}
  /\ UNCHANGED <<ended, returned>>

End(j) ==
  /\ j \in begun \ ended
  /\ ended' = ended \cup {j}
  /\ UNCHANGED <<begun, returned>>

Return ==
  /\ ended = Jobs
  /\ returned' = TRUE
  /\ UNCHANGED <<begun, ended>>

Next == (\E j \in Jobs : Begin(j) \/ End(j)) \/ Return

Spec == Init /\ [][Next]_vars
=============================================================================
