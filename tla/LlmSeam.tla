------------------------------ MODULE LlmSeam -------------------------------
(***************************************************************************)
(* internal/llm RunSeam with the transport retries of the client below it, *)
(* the token budget of internal/budget and the retry turns of              *)
(* convert/seamMessages: one bounded-retry LLM call, attempt by attempt.   *)
(*                                                                         *)
(* Texts are token counts: the base prompt weighs Base, one rejection note *)
(* NoteCost, a payload Size[p].  A reply is a payload and whether the      *)
(* provider says it was cut.                                               *)
(***************************************************************************)
EXTENDS Integers, Sequences

CONSTANTS
  Payloads, Good, NoPayload,
  Blank,             \* payloads of white space only
  Size,
  MaxRetries,        \* SeamInput.MaxRetries
  Retries,           \* Endpoint.Retries, per chat call
  Base, NoteCost,
  MaxPrompt,         \* Budget.MaxPromptTokens, 0 = no ceiling
  MaxOutput,         \* Budget.MaxOutputTokens
  Context,           \* Budget.ModelContextTokens, 0 = static policy
  ModelMax,          \* Budget.ModelMaxOutputTokens
  Reserve,           \* Budget.OutputReserveTokens
  MinRoom,           \* the least dynamic output room worth a call (256)
  Override,          \* SeamInput.MaxTokens, 0 = none
  Repair,            \* repair mode: rejected payloads ride back
  AbortOnChatError

ASSUME PayloadAssumption ==
  /\ Good \subseteq Payloads /\ Blank \subseteq Payloads \ Good
  /\ NoPayload \notin Payloads
  /\ Size \in [Payloads -> Nat]
ASSUME BoundAssumption ==
  /\ MaxRetries \in Int /\ Retries \in Int /\ Reserve \in Int
  /\ Base \in Nat /\ NoteCost \in Nat
  /\ MaxPrompt \in Nat /\ MaxOutput \in Nat /\ Context \in Nat
  /\ ModelMax \in Nat /\ Override \in Nat /\ MinRoom \in Nat \ {0, 1}
ASSUME ModeAssumption == Repair \in BOOLEAN /\ AbortOnChatError \in BOOLEAN

VARIABLES
  turn,         \* "assemble", "post", "accepted", "failed"
  attempt,    \* loop index of RunSeam
  try,        \* loop index of doWithRetries
  notes,      \* kinds of the accumulated notes, oldest first
  prev,       \* the payload the next attempt may patch
  calls,
  trail,      \* the archived exchanges
  rejected,   \* what the caller's Rejected callback last received
  result,
  request,    \* token counts of the chat request in flight
  cancelled   \* the context was cancelled

seam == <<turn, attempt, try, notes, prev, calls, trail, rejected, result,
          request, cancelled>>

AtLeastOne(n) == IF n < 1 THEN 1 ELSE n
Attempts == AtLeastOne(MaxRetries + 1)
Tries == AtLeastOne(Retries + 1)

Maybe == Payloads \cup {NoPayload}
Reasons == {"chat", "over", "gate"}
Exchange == [attempt : Nat, payload : Maybe, outcome : Reasons \cup {"ok"}]
NoRequest == [input |-> 0, ceiling |-> 0, max |-> 0]

SeamTypeOK ==
  /\ turn \in {"assemble", "post", "accepted", "failed"}
  /\ attempt \in 0 .. Attempts
  /\ try \in 0 .. (Tries - 1)
  /\ notes \in Seq(Reasons \cup {"truncated"})
  /\ prev \in Maybe
  /\ calls \in 0 .. Attempts
  /\ trail \in Seq(Exchange)
  /\ rejected \in Maybe
  /\ result \in Maybe
  /\ request \in [input : Nat, ceiling : Int, max : Int]
  /\ cancelled \in BOOLEAN

SeamInit ==
  /\ turn = "assemble"
  /\ attempt = 0 /\ try = 0
  /\ notes = <<>> /\ prev = NoPayload
  /\ calls = 0 /\ trail = <<>>
  /\ rejected = NoPayload /\ result = NoPayload
  /\ request = NoRequest
  /\ cancelled = FALSE
-----------------------------------------------------------------------------
(* The token budget.                                                       *)

Dynamic == Context > 0

\* seamMessages: no retry turn before the first note; in repair mode a
\* payload that is not blank rides back as an assistant turn before the notes.
PatchCost ==
  IF Repair /\ prev # NoPayload /\ prev \notin Blank THEN Size[prev] ELSE 0

InputTokens ==
  IF notes = <<>> THEN Base ELSE Base + PatchCost + NoteCost * Len(notes)

Clamp(room, limit) == IF limit > 0 /\ room > limit THEN limit ELSE room
Reserved == IF Reserve < 0 THEN 0 ELSE Reserve

\* Mutant: the reserve is forgotten.
CeilingWithoutReserve(input) ==
  IF ~ Dynamic THEN MaxOutput
  ELSE AtLeastOne(Clamp(Context - input, ModelMax))

OutputCeiling(input) ==
  IF ~ Dynamic THEN MaxOutput
  ELSE AtLeastOne(Clamp(Context - input - Reserved, ModelMax))

\* CheckInput, and the dynamic policy's refusal to ask for a sliver.
Refused(input) ==
  \/ MaxPrompt > 0 /\ input > MaxPrompt
  \/ Dynamic /\ OutputCeiling(input) < MinRoom
-----------------------------------------------------------------------------
Archive(p, o) ==
  trail' = Append(trail, [attempt |-> attempt, payload |-> p, outcome |-> o])

\* The loop head: another attempt, or the last error.
NextAttempt ==
  /\ attempt' = attempt + 1
  /\ turn' = IF attempt + 1 < Attempts THEN "assemble" ELSE "failed"

AssembleUnderCeiling ==
  /\ turn = "assemble"
  /\ ~ Refused(InputTokens)
  /\ LET cap == OutputCeiling(InputTokens) IN
       request' = [input |-> InputTokens, ceiling |-> cap,
                   max |-> IF Override = 0 /\ Dynamic THEN cap ELSE Override]
  /\ try' = 0
  /\ turn' = "post"
  /\ UNCHANGED <<attempt, notes, prev, calls, trail, rejected, result, cancelled>>

\* The assembled input does not fit: RunSeam returns, nothing is archived.
AssembleOverCeiling ==
  /\ turn = "assemble"
  /\ Refused(InputTokens)
  /\ turn' = "failed"
  /\ UNCHANGED <<attempt, try, notes, prev, calls, trail, rejected, result,
                 request, cancelled>>

\* doWithRetries: a transport error or a transient status, then the backoff.
TransportRetry ==
  /\ turn = "post"
  /\ ~ cancelled
  /\ try + 1 < Tries
  /\ try' = try + 1
  /\ UNCHANGED <<turn, attempt, notes, prev, calls, trail, rejected, result,
                 request, cancelled>>

\* Mutant: the payload survives a chat error as the repair base.
ChatErrorKeepingPrev ==
  /\ turn = "post"
  /\ calls' = calls + 1
  /\ Archive(NoPayload, "chat")
  /\ IF AbortOnChatError
     THEN turn' = "failed" /\ UNCHANGED <<attempt, notes>>
     ELSE notes' = Append(notes, "chat") /\ NextAttempt
  /\ UNCHANGED <<try, prev, rejected, result, request, cancelled>>

\* The chat call failed: a status that is not transient, the retries used
\* up, an undecodable answer, or a cancelled context.
ChatError ==
  /\ turn = "post"
  /\ calls' = calls + 1
  /\ Archive(NoPayload, "chat")
  /\ prev' = NoPayload
  /\ IF AbortOnChatError
     THEN turn' = "failed" /\ UNCHANGED <<attempt, notes>>
     ELSE notes' = Append(notes, "chat") /\ NextAttempt
  /\ UNCHANGED <<try, rejected, result, request, cancelled>>

\* Notes after a reply, with the truncation note first.
Noted(cut) == IF cut THEN Append(notes, "truncated") ELSE notes

OverCap(p) == request.ceiling > 0 /\ Size[p] > request.ceiling

\* Mutant: over-cap replies are retried without an exchange in the trail.
ReplyOverCapUnarchived(p, cut) ==
  /\ turn = "post" /\ ~ cancelled
  /\ OverCap(p)
  /\ calls' = calls + 1
  /\ prev' = NoPayload
  /\ notes' = Append(Noted(cut), "over")
  /\ NextAttempt
  /\ UNCHANGED <<try, trail, rejected, result, request, cancelled>>

ReplyOverCap(p, cut) ==
  /\ turn = "post" /\ ~ cancelled
  /\ OverCap(p)
  /\ calls' = calls + 1
  /\ Archive(p, "over")
  /\ prev' = NoPayload
  /\ notes' = Append(Noted(cut), "over")
  /\ NextAttempt
  /\ UNCHANGED <<try, rejected, result, request, cancelled>>

\* Mutant: the loop never ends.
ReplyRejectedForever(p, cut) ==
  /\ turn = "post" /\ ~ cancelled
  /\ ~ OverCap(p) /\ p \notin Good
  /\ turn' = "assemble"
  /\ UNCHANGED <<attempt, try, notes, prev, calls, trail, rejected, result,
                 request, cancelled>>

ReplyRejected(p, cut) ==
  /\ turn = "post" /\ ~ cancelled
  /\ ~ OverCap(p) /\ p \notin Good
  /\ calls' = calls + 1
  /\ Archive(p, "gate")
  /\ prev' = p
  /\ rejected' = p
  /\ notes' = Append(Noted(cut), "gate")
  /\ NextAttempt
  /\ UNCHANGED <<try, result, request, cancelled>>

\* Mutant: the last attempt's payload is returned whatever the gates said.
ReplyAcceptedAtLast(p, cut) ==
  /\ turn = "post" /\ ~ cancelled
  /\ p \in Good \/ attempt + 1 = Attempts
  /\ calls' = calls + 1
  /\ Archive(p, "ok")
  /\ result' = p
  /\ notes' = Noted(cut)
  /\ turn' = "accepted"
  /\ UNCHANGED <<attempt, try, prev, rejected, request, cancelled>>

ReplyAccepted(p, cut) ==
  /\ turn = "post" /\ ~ cancelled
  /\ ~ OverCap(p) /\ p \in Good
  /\ calls' = calls + 1
  /\ Archive(p, "ok")
  /\ result' = p
  /\ notes' = Noted(cut)
  /\ turn' = "accepted"
  /\ UNCHANGED <<attempt, try, prev, rejected, request, cancelled>>

\* The operator interrupts the command.
Cancel ==
  /\ ~ cancelled
  /\ turn \in {"assemble", "post"}
  /\ cancelled' = TRUE
  /\ UNCHANGED <<turn, attempt, try, notes, prev, calls, trail, rejected, result,
                 request>>
-----------------------------------------------------------------------------
SeamStep ==
  \/ AssembleUnderCeiling
  \/ AssembleOverCeiling
  \/ TransportRetry
  \/ ChatError
  \/ \E p \in Payloads, cut \in BOOLEAN :
       \/ ReplyOverCap(p, cut)
       \/ ReplyRejected(p, cut)
       \/ ReplyAccepted(p, cut)

SeamNext == SeamStep \/ Cancel

SeamSpec == SeamInit /\ [][SeamNext]_seam

\* Every request is answered or fails: the HTTP client has a timeout.
FairSeam == SeamSpec /\ WF_seam(SeamStep)
-----------------------------------------------------------------------------
(* Properties.                                                             *)

Ended == turn \in {"accepted", "failed"}

\* The audit folder can account for every chat call: one exchange per call,
\* the attempts numbered without gap or repetition (each has its own file
\* name), all failed but possibly the last.
TrailIsComplete ==
  /\ Len(trail) = calls
  /\ \A i \in 1 .. Len(trail) :
       /\ trail[i].attempt = i - 1
       /\ trail[i].outcome = "ok" => i = Len(trail) /\ turn = "accepted"

\* When a prompt is assembled the model hears of every failed attempt: the
\* notes are the trail's outcomes in order.  The payload it may patch is that
\* of the very last attempt, and only if the gates saw it.
FeedbackMatchesTrail ==
  turn = "assemble" =>
    /\ SelectSeq(notes, LAMBDA k : k # "truncated")
         = [i \in 1 .. Len(trail) |-> trail[i].outcome]
    /\ prev # NoPayload =>
         /\ trail[Len(trail)].outcome = "gate"
         /\ trail[Len(trail)].payload = prev

\* A request stays inside the window: prompt, granted output and reserve fit
\* the model context, retry turns included.
RequestFits ==
  turn = "post" =>
    /\ MaxPrompt > 0 => request.input <= MaxPrompt
    /\ Dynamic /\ Override = 0 =>
         request.input + request.max + Reserved <= Context

\* The seam always returns.
Terminates == <>Ended

\* The seam keeps the contract its callers use.
Contract == INSTANCE SeamContract WITH
  verdict <- IF Ended THEN turn ELSE "pending",
  spent <- calls,
  kept <- rejected
ImplementsContract == Contract!Spec
=============================================================================
