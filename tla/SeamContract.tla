---------------------------- MODULE SeamContract ----------------------------
(***************************************************************************)
(* What a caller of llm.RunSeam may rely on, without its attempts: a       *)
(* bounded number of chat calls, and either a payload the caller's gates   *)
(* accept or none at all, with a rejected payload kept as the fallback.    *)
(* ConvertRun treats a seam as exactly this; LlmSeam implements it.        *)
(***************************************************************************)
EXTENDS Naturals

CONSTANTS
  Payloads,   \* what a reply can carry once extracted
  Good,       \* the payloads the caller's gates accept
  NoPayload,
  Attempts    \* the bound on chat calls

VARIABLES verdict, spent, kept, result
vars == <<verdict, spent, kept, result>>

Init ==
  /\ verdict = "pending"
  /\ spent = 0
  /\ kept = NoPayload
  /\ result = NoPayload

\* A chat call that got the caller nowhere; its payload may be kept.
Miss ==
  /\ verdict = "pending" /\ spent < Attempts
  /\ spent' = spent + 1
  /\ kept' \in {kept} \cup (Payloads \ Good)
  /\ verdict' \in {"pending", "failed"}
  /\ verdict' = "pending" => spent' < Attempts
  /\ UNCHANGED result

\* A chat call whose payload passed.
Accept ==
  /\ verdict = "pending" /\ spent < Attempts
  /\ spent' = spent + 1
  /\ result' \in Good
  /\ verdict' = "accepted"
  /\ UNCHANGED kept

\* No prompt that fits: the seam ends without another call.
GiveUp ==
  /\ verdict = "pending"
  /\ verdict' = "failed"
  /\ UNCHANGED <<spent, kept, result>>

Next == Miss \/ Accept \/ GiveUp

Spec == Init /\ [][Next]_vars
=============================================================================
