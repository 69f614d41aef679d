--------------------------- MODULE LlmSeamProofs ----------------------------
(***************************************************************************)
(* What holds of every LLM seam, for every budget, retry bound and payload *)
(* set: types, the audit trail, the token window, and the contract its     *)
(* callers rely on.                                                        *)
(***************************************************************************)
EXTENDS LlmSeam, TLAPS

USE DEF Attempts, Tries, AtLeastOne

\* A seam makes at least one attempt, a chat call at least one try.
LEMMA AttemptsPositive == Attempts \in Nat \ {0} /\ Tries \in Nat \ {0}
BY BoundAssumption

\* The ceiling handed to the model is a number whatever the policy.
LEMMA CeilingType ==
  ASSUME NEW n \in Nat
  PROVE  OutputCeiling(n) \in Int
BY BoundAssumption DEF OutputCeiling, Clamp, Reserved

\* The assembled input is a token count.
LEMMA InputType == SeamTypeOK => InputTokens \in Nat
<1> SUFFICES ASSUME SeamTypeOK PROVE InputTokens \in Nat
  OBVIOUS
<1>1. PatchCost \in Nat
  <2>1. CASE prev = NoPayload
    BY <2>1 DEF PatchCost
  <2>2. CASE prev # NoPayload
    BY <2>2, PayloadAssumption DEF PatchCost, SeamTypeOK, Maybe
  <2> QED BY <2>1, <2>2
<1>2. Len(notes) \in Nat
  BY DEF SeamTypeOK
<1>3. NoteCost * Len(notes) \in Nat
  BY <1>2, BoundAssumption
<1> QED BY <1>1, <1>3, BoundAssumption DEF InputTokens

\* The loop index and the calls agree while the loop runs, the trail records
\* every call, nothing is returned before acceptance, and a request in flight
\* was assembled under the ceiling.
LoopInv ==
  /\ turn \in {"assemble", "post"} => attempt < Attempts /\ calls = attempt
  /\ turn # "accepted" => result = NoPayload
  /\ turn = "accepted" => result \in Good
  /\ rejected \in (Payloads \ Good) \cup {NoPayload}
  /\ TrailIsComplete
  /\ RequestFits

Inv == SeamTypeOK /\ LoopInv

LEMMA InitInv == SeamInit => Inv
<1> SUFFICES ASSUME SeamInit PROVE Inv
  OBVIOUS
<1> USE AttemptsPositive
<1>1. SeamTypeOK
  <2>1. notes \in Seq(Reasons \cup {"truncated"}) /\ trail \in Seq(Exchange)
    BY DEF SeamInit
  <2>2. request \in [input : Nat, ceiling : Int, max : Int]
    BY DEF SeamInit, NoRequest
  <2>3. attempt \in 0 .. Attempts /\ calls \in 0 .. Attempts /\ try \in 0 .. (Tries - 1)
    BY BoundAssumption DEF SeamInit
  <2> QED BY <2>1, <2>2, <2>3 DEF SeamInit, SeamTypeOK, Maybe
<1>2. LoopInv
  BY DEF SeamInit, LoopInv, TrailIsComplete, RequestFits
<1> QED BY <1>1, <1>2 DEF Inv

\* Appending the exchange of the attempt under way keeps the trail complete;
\* an accepted exchange ends it.
LEMMA ArchiveKeepsTrail ==
  ASSUME Inv, turn = "post", NEW p \in Maybe,
         NEW o \in Reasons \cup {"ok"},
         Archive(p, o), calls' = calls + 1,
         o = "ok" => turn' = "accepted"
  PROVE  /\ trail' \in Seq(Exchange)
         /\ calls' \in 0 .. Attempts
         /\ TrailIsComplete'
<1> DEFINE e == [attempt |-> attempt, payload |-> p, outcome |-> o]
<1>1. attempt \in Nat /\ calls = attempt /\ attempt < Attempts
  BY AttemptsPositive DEF Inv, SeamTypeOK, LoopInv
<1>2. e \in Exchange
  BY <1>1 DEF Exchange
<1>3. trail \in Seq(Exchange) /\ Len(trail) = attempt
  BY <1>1 DEF Inv, SeamTypeOK, LoopInv, TrailIsComplete
<1>4. trail' = Append(trail, e)
  BY DEF Archive
<1>5. trail' \in Seq(Exchange) /\ Len(trail') = attempt + 1
  BY <1>2, <1>3, <1>4
<1>6. \A i \in 1 .. attempt : trail'[i] = trail[i]
  BY <1>2, <1>3, <1>4
<1>7. trail'[attempt + 1] = e
  BY <1>2, <1>3, <1>4
<1>8. \A i \in 1 .. attempt : trail[i].attempt = i - 1 /\ trail[i].outcome # "ok"
  BY <1>3 DEF Inv, LoopInv, TrailIsComplete
<1>9. \A i \in 1 .. (attempt + 1) :
        /\ trail'[i].attempt = i - 1
        /\ trail'[i].outcome = "ok" => i = attempt + 1 /\ turn' = "accepted"
  <2> SUFFICES ASSUME NEW i \in 1 .. (attempt + 1)
               PROVE  /\ trail'[i].attempt = i - 1
                      /\ trail'[i].outcome = "ok" =>
                           i = attempt + 1 /\ turn' = "accepted"
    OBVIOUS
  <2>1. CASE i = attempt + 1
    BY <2>1, <1>7, <1>1
  <2>2. CASE i # attempt + 1
    <3>1. i \in 1 .. attempt
      BY <2>2, <1>1
    <3> QED BY <3>1, <1>6, <1>8
  <2> QED BY <2>1, <2>2
<1>10. TrailIsComplete'
  BY <1>1, <1>5, <1>9 DEF TrailIsComplete
<1> QED BY <1>1, <1>5, <1>10, AttemptsPositive

LEMMA NextInv == Inv /\ [SeamNext]_seam => Inv'
<1> SUFFICES ASSUME Inv, [SeamNext]_seam PROVE Inv'
  OBVIOUS
<1> USE AttemptsPositive DEF Inv
<1>1. CASE AssembleUnderCeiling
  <2>1. InputTokens \in Nat
    BY InputType
  <2> DEFINE cap == OutputCeiling(InputTokens)
  <2>2. cap \in Int
    BY <2>1, CeilingType
  <2>3. request' \in [input : Nat, ceiling : Int, max : Int]
    BY <1>1, <2>1, <2>2, BoundAssumption DEF AssembleUnderCeiling
  <2>4. SeamTypeOK'
    BY <1>1, <2>3 DEF AssembleUnderCeiling, SeamTypeOK
  <2>5. /\ request'.input = InputTokens
        /\ Override = 0 /\ Dynamic => request'.max = cap
    BY <1>1 DEF AssembleUnderCeiling
  <2>6. ~ Refused(InputTokens)
    BY <1>1 DEF AssembleUnderCeiling
  <2>7. ASSUME Dynamic PROVE InputTokens + cap + Reserved <= Context
    <3>1. cap >= MinRoom
      BY <2>2, <2>6, <2>7, BoundAssumption DEF Refused
    <3>2. cap = AtLeastOne(Clamp(Context - InputTokens - Reserved, ModelMax))
      BY <2>7 DEF OutputCeiling
    <3>3. Reserved \in Nat
      BY BoundAssumption DEF Reserved
    <3>4. cap <= Context - InputTokens - Reserved
      BY <2>1, <3>1, <3>2, <3>3, BoundAssumption DEF Clamp
    <3> QED BY <2>1, <2>2, <3>3, <3>4, BoundAssumption
  <2>8. RequestFits'
    <3>1. MaxPrompt > 0 => InputTokens <= MaxPrompt
      BY <2>1, <2>6, BoundAssumption DEF Refused
    <3>2. Dynamic /\ Override = 0 =>
            request'.input + request'.max + Reserved <= Context
      BY <2>5, <2>7
    <3> QED BY <2>5, <3>1, <3>2 DEF RequestFits
  <2>9. LoopInv'
    BY <1>1, <2>8 DEF AssembleUnderCeiling, LoopInv, TrailIsComplete
  <2> QED BY <2>4, <2>9
<1>2. CASE AssembleOverCeiling
  BY <1>2 DEF AssembleOverCeiling, SeamTypeOK, LoopInv, TrailIsComplete, RequestFits
<1>3. CASE TransportRetry
  BY <1>3 DEF TransportRetry, SeamTypeOK, LoopInv, TrailIsComplete, RequestFits
<1>4. CASE ChatError
  <2>1. trail' \in Seq(Exchange) /\ calls' \in 0 .. Attempts /\ TrailIsComplete'
    BY <1>4, ArchiveKeepsTrail DEF ChatError, Maybe, Reasons
  <2>2. SeamTypeOK'
    <3>1. CASE AbortOnChatError
      BY <1>4, <2>1, <3>1 DEF ChatError, SeamTypeOK, LoopInv, Maybe
    <3>2. CASE ~ AbortOnChatError
      <4>1. notes' = Append(notes, "chat") /\ NextAttempt /\ prev' = NoPayload
        BY <1>4, <3>2 DEF ChatError
      <4>2. notes' \in Seq(Reasons \cup {"truncated"})
        BY <4>1 DEF SeamTypeOK, Reasons
      <4>3. turn' \in {"assemble", "failed"} /\ attempt' \in 0 .. Attempts
        BY <1>4, <4>1 DEF ChatError, NextAttempt, SeamTypeOK, LoopInv
      <4> QED
        BY <1>4, <2>1, <4>1, <4>2, <4>3 DEF ChatError, SeamTypeOK, Maybe
    <3> QED BY <3>1, <3>2
  <2>3. LoopInv'
    BY <1>4, <2>1 DEF ChatError, NextAttempt, SeamTypeOK, LoopInv, RequestFits
  <2> QED BY <2>2, <2>3
<1>5. ASSUME NEW p \in Payloads, NEW cut \in BOOLEAN, ReplyOverCap(p, cut)
      PROVE Inv'
  <2>1. trail' \in Seq(Exchange) /\ calls' \in 0 .. Attempts /\ TrailIsComplete'
    BY <1>5, ArchiveKeepsTrail DEF ReplyOverCap, Maybe, Reasons
  <2>2. SeamTypeOK'
    BY <1>5, <2>1
       DEF ReplyOverCap, NextAttempt, Noted, SeamTypeOK, LoopInv, Maybe, Reasons
  <2>3. LoopInv'
    BY <1>5, <2>1 DEF ReplyOverCap, NextAttempt, SeamTypeOK, LoopInv, RequestFits
  <2> QED BY <2>2, <2>3
<1>6. ASSUME NEW p \in Payloads, NEW cut \in BOOLEAN, ReplyRejected(p, cut)
      PROVE Inv'
  <2>1. trail' \in Seq(Exchange) /\ calls' \in 0 .. Attempts /\ TrailIsComplete'
    BY <1>6, ArchiveKeepsTrail DEF ReplyRejected, Maybe, Reasons
  <2>2. SeamTypeOK'
    BY <1>6, <2>1
       DEF ReplyRejected, NextAttempt, Noted, SeamTypeOK, LoopInv, Maybe, Reasons
  <2>3. LoopInv'
    BY <1>6, <2>1 DEF ReplyRejected, NextAttempt, SeamTypeOK, LoopInv, RequestFits
  <2> QED BY <2>2, <2>3
<1>7. ASSUME NEW p \in Payloads, NEW cut \in BOOLEAN, ReplyAccepted(p, cut)
      PROVE Inv'
  <2>1. trail' \in Seq(Exchange) /\ calls' \in 0 .. Attempts /\ TrailIsComplete'
    BY <1>7, ArchiveKeepsTrail DEF ReplyAccepted, Maybe, Reasons
  <2>2. SeamTypeOK'
    BY <1>7, <2>1 DEF ReplyAccepted, Noted, SeamTypeOK, LoopInv, Maybe, Reasons
  <2>3. LoopInv'
    BY <1>7, <2>1 DEF ReplyAccepted, SeamTypeOK, LoopInv, RequestFits
  <2> QED BY <2>2, <2>3
<1>8. CASE Cancel
  BY <1>8 DEF Cancel, SeamTypeOK, LoopInv, TrailIsComplete, RequestFits
<1>9. CASE UNCHANGED seam
  BY <1>9 DEF seam, SeamTypeOK, LoopInv, TrailIsComplete, RequestFits
<1> QED
  BY <1>1, <1>2, <1>3, <1>4, <1>5, <1>6, <1>7, <1>8, <1>9 DEF SeamNext, SeamStep

\* The invariant holds of every seam.
LEMMA AlwaysInv == SeamSpec => []Inv
BY InitInv, NextInv, PTL DEF SeamSpec

\* Types, for every budget, bound and payload set.
THEOREM TypeCorrect == SeamSpec => []SeamTypeOK
<1>1. Inv => SeamTypeOK
  BY DEF Inv
<1> QED BY AlwaysInv, <1>1, PTL

\* The audit trail accounts for every chat call of RunSeam, attempt by
\* attempt, and only an accepted payload is archived as ok.
THEOREM TrailComplete == SeamSpec => []TrailIsComplete
<1>1. Inv => TrailIsComplete
  BY DEF Inv, LoopInv
<1> QED BY AlwaysInv, <1>1, PTL

\* No request leaves the token window, whatever the retry turns added.
THEOREM RequestsFit == SeamSpec => []RequestFits
<1>1. Inv => RequestFits
  BY DEF Inv, LoopInv
<1> QED BY AlwaysInv, <1>1, PTL

\* RunSeam implements SeamContract: bounded calls, and an accepted payload
\* that passed the gates or none at all.
THEOREM SeamKeepsContract == SeamSpec => ImplementsContract
<1> USE AttemptsPositive
    DEF Contract!Init, Contract!Next, Contract!Miss, Contract!Accept,
        Contract!GiveUp, Contract!vars, Ended
<1>1. SeamInit => Contract!Init
  BY DEF SeamInit
<1>2. Inv /\ [SeamNext]_seam => [Contract!Next]_Contract!vars
  <2> SUFFICES ASSUME Inv, [SeamNext]_seam
               PROVE  [Contract!Next]_Contract!vars
    OBVIOUS
  <2> USE DEF Inv, LoopInv, SeamTypeOK
  <2>1. CASE AssembleUnderCeiling
    BY <2>1 DEF AssembleUnderCeiling
  <2>2. CASE AssembleOverCeiling
    BY <2>2 DEF AssembleOverCeiling
  <2>3. CASE TransportRetry
    BY <2>3 DEF TransportRetry
  <2>4. CASE ChatError
    BY <2>4 DEF ChatError, NextAttempt
  <2>5. ASSUME NEW p \in Payloads, NEW cut \in BOOLEAN, ReplyOverCap(p, cut)
        PROVE  [Contract!Next]_Contract!vars
    BY <2>5 DEF ReplyOverCap, NextAttempt
  <2>6. ASSUME NEW p \in Payloads, NEW cut \in BOOLEAN, ReplyRejected(p, cut)
        PROVE  [Contract!Next]_Contract!vars
    BY <2>6 DEF ReplyRejected, NextAttempt
  <2>7. ASSUME NEW p \in Payloads, NEW cut \in BOOLEAN, ReplyAccepted(p, cut)
        PROVE  [Contract!Next]_Contract!vars
    BY <2>7 DEF ReplyAccepted
  <2>8. CASE Cancel
    BY <2>8 DEF Cancel
  <2>9. CASE UNCHANGED seam
    BY <2>9 DEF seam
  <2> QED
    BY <2>1, <2>2, <2>3, <2>4, <2>5, <2>6, <2>7, <2>8, <2>9 DEF SeamNext, SeamStep
<1> QED
  BY <1>1, <1>2, AlwaysInv, PTL DEF SeamSpec, ImplementsContract, Contract!Spec
=============================================================================
