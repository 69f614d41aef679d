-------------------------- MODULE ConvertRunProofs --------------------------
(***************************************************************************)
(* Theorems about ConvertRun for every plan, mapping file, prefix relation *)
(* and switch setting its assumptions allow.                               *)
(***************************************************************************)
EXTENDS ConvertRun, TLAPS

USE SizeAssumption, NameAssumption, MappingAssumption, SwitchAssumption

-----------------------------------------------------------------------------
(* Lemmas about the operators.                                             *)

\* The entry a run works with carries the plan's name.
LEMMA GetType ==
  ASSUME NEW l \in L!LedgerValue, NEW s \in Slots, NEW n \in Names
  PROVE  /\ L!Get(l, s, n) \in L!UnitEntry
         /\ L!Get(l, s, n).name = n
BY DEF L!Get, L!LedgerValue, L!UnitEntry, L!UnitStatus

LEMMA SetUnitType ==
  ASSUME NEW l \in L!LedgerValue, NEW s \in Slots, NEW n \in Names,
         NEW st \in L!UnitStatus
  PROVE  /\ L!SetUnit(l, s, n, st) \in L!LedgerValue
         /\ L!AddMap(L!SetUnit(l, s, n, st), n) \in L!LedgerValue
BY DEF L!SetUnit, L!AddMap, L!LedgerValue, L!UnitEntry

LEMMA EmptyLedgerType == L!EmptyLedger \in L!LedgerValue
BY DEF L!EmptyLedger, L!NoEntry, L!LedgerValue, L!UnitEntry, L!UnitStatus,
       L!ArtifactStatus

LEMMA SetArtifactType ==
  ASSUME NEW l \in L!LedgerValue, NEW a \in Artifacts,
         NEW st \in L!ArtifactStatus
  PROVE  L!SetArtifact(l, a, st) \in L!LedgerValue
BY DEF L!SetArtifact, L!LedgerValue

\* The mapping names every unit.
LEMMA MappingType ==
  ASSUME mapping \in Mappings, NEW s \in Slots
  PROVE  mapping[s] \in Names
BY DEF IsMapping

\* Merging a method changes no other method's text and keeps the file typed.
LEMMA MergeType ==
  ASSUME body \in [Names -> BodyKinds], before \subseteq Names \X Names,
         NEW n \in Names, NEW k \in BodyKinds, Merge(n, k)
  PROVE  /\ body' \in [Names -> BodyKinds]
         /\ before' \subseteq Names \X Names
BY DEF Merge, BodyWith, OrderWith, SameFile
\* What the ledger operations change, entry by entry.
LEMMA SetUnitValue ==
  ASSUME NEW l \in L!LedgerValue, NEW s \in Slots, NEW n \in Names,
         NEW st \in L!UnitStatus
  PROVE  /\ L!SetUnit(l, s, n, st).unit[s] = [name |-> n, status |-> st]
         /\ \A t \in Slots \ {s} : L!SetUnit(l, s, n, st).unit[t] = l.unit[t]
         /\ L!SetUnit(l, s, n, st).map = l.map
         /\ L!SetUnit(l, s, n, st).art = l.art
BY DEF L!SetUnit, L!LedgerValue, L!UnitEntry

LEMMA AddMapValue ==
  ASSUME NEW l \in L!LedgerValue, NEW n \in Names
  PROVE  /\ L!AddMap(l, n).map = l.map \cup {n}
         /\ L!AddMap(l, n).unit = l.unit
         /\ L!AddMap(l, n).art = l.art
BY DEF L!AddMap, L!LedgerValue

LEMMA SetArtifactValue ==
  ASSUME NEW l \in L!LedgerValue, NEW a \in Artifacts,
         NEW st \in L!ArtifactStatus
  PROVE  /\ L!SetArtifact(l, a, st).unit = l.unit
         /\ L!SetArtifact(l, a, st).map = l.map
         /\ \A b \in Artifacts :
              L!SetArtifact(l, a, st).art[b] = IF b = a THEN st ELSE l.art[b]
BY DEF L!SetArtifact, L!LedgerValue

LEMMA EmptyLedgerValue ==
  \A s \in Slots : L!EmptyLedger.unit[s].status # "appended"
BY DEF L!EmptyLedger, L!NoEntry

\* Recording a unit leaves the artifacts' statuses alone.
LEMMA RecordKeepsArtifacts ==
  ASSUME TypeOK, NEW s \in Slots, NEW st \in L!UnitStatus
  PROVE  Record(s, st).art = mem.art /\ RecordMapped(s, st).art = mem.art
<1>1. mem \in L!LedgerValue /\ mapping[s] \in Names
  BY MappingType DEF TypeOK
<1>2. Record(s, st) \in L!LedgerValue
  BY <1>1, SetUnitType DEF Record
<1>3. RecordMapped(s, st).art = Record(s, st).art
  BY <1>1, <1>2, AddMapValue DEF RecordMapped
<1>4. Record(s, st).art = mem.art
  BY <1>1 DEF Record, L!SetUnit, L!LedgerValue
<1> QED
  BY <1>3, <1>4

-----------------------------------------------------------------------------
(* Type correctness.                                                       *)

\* What every unit step shares: it records one status, and merges at most
\* one method.
LEMMA UnitStepType ==
  ASSUME TypeOK, NEW s \in Slots, AtUnit(s), UnitDone,
         NEW st \in L!UnitStatus, mem' \in {Record(s, st), RecordMapped(s, st)},
         \/ UNCHANGED <<body, before>>
         \/ \E k \in BodyKinds : Merge(mapping[s], k)
  PROVE  TypeOK'
<1>1. mapping[s] \in Names
  BY MappingType DEF TypeOK
<1>2. mem' \in L!LedgerValue
  BY <1>1, SetUnitType DEF TypeOK, Record, RecordMapped
<1>3. body' \in [Names -> BodyKinds] /\ before' \subseteq Names \X Names
  BY <1>1, MergeType DEF TypeOK
<1>4. next' \in 1 .. (NC + NH + 1)
  BY DEF AtUnit, UnitDone, Slots, TypeOK
<1> QED
  BY <1>2, <1>3, <1>4 DEF TypeOK, UnitDone

THEOREM TypeCorrect == Spec => []TypeOK
<1>1. Init => TypeOK
  BY EmptyLedgerType DEF Init, TypeOK, BodyKinds, Artifacts
<1>2. TypeOK /\ [Next]_vars => TypeOK'
  <2> SUFFICES ASSUME TypeOK, [Next]_vars PROVE TypeOK'
    OBVIOUS
  <2>1. ASSUME NEW md \in {"llm", "nollm"}, StartRun(md) PROVE TypeOK'
    BY <2>1, EmptyLedgerType DEF StartRun, TypeOK, Stages, tree
  <2>2. ASSUME NEW a \in Artifacts, GenerateFile(a) PROVE TypeOK'
    <3>1. mem' \in L!LedgerValue
      BY <2>2, SetArtifactType DEF GenerateFile, TypeOK, L!ArtifactStatus
    <3> QED
      BY <2>2, <3>1 DEF GenerateFile, TypeOK, Stages, StageAfter
  <2>3. CASE WriteDB
    <3>1. mem' \in L!LedgerValue
      BY <2>3, SetArtifactType DEF WriteDB, TypeOK, L!ArtifactStatus, Artifacts
    <3> QED
      BY <2>3, <3>1 DEF WriteDB, TypeOK, Stages
  <2>4. CASE PlaceTPCalls
    <3>1. mem' \in L!LedgerValue
      BY <2>4, SetArtifactType
      DEF PlaceTPCalls, TypeOK, L!ArtifactStatus, Artifacts
    <3> QED
      BY <2>4, <3>1 DEF PlaceTPCalls, TypeOK, Stages
  <2>5. ASSUME NEW s \in Slots, UnitStep(s) PROVE TypeOK'
    <3> USE UnitStepType DEF L!UnitStatus, BodyKinds
    <3>1. CASE ResumeSkip(s)
      BY <3>1 DEF ResumeSkip
    <3>2. CASE DeterministicGap(s)
      BY <3>2 DEF DeterministicGap
    <3>3. CASE DeterministicBody(s)
      BY <3>3 DEF DeterministicBody
    <3>4. CASE LLMAccepted(s)
      BY <3>4 DEF LLMAccepted, AcceptedKinds
    <3>5. CASE LLMRejected(s)
      BY <3>5 DEF LLMRejected
    <3> QED
      BY <2>5, <3>1, <3>2, <3>3, <3>4, <3>5 DEF UnitStep
  <2>6. CASE Save
    BY <2>6, EmptyLedgerType DEF Save, TypeOK, tree
  <2>7. CASE Abort
    BY <2>7, EmptyLedgerType DEF Abort, Drop, TypeOK, tree
  <2>8. ASSUME NEW a \in Artifacts, SpoilArtifact(a) PROVE TypeOK'
    BY <2>8, EmptyLedgerType DEF SpoilArtifact, Drop, TypeOK
  <2>9. ASSUME NEW s \in Slots, NEW k \in WrittenKinds, TearMethods(s, k)
        PROVE TypeOK'
    <3>1. mapping[s] \in Names /\ k \in BodyKinds
      BY MappingType DEF TypeOK, WrittenKinds, BodyKinds
    <3>2. BodyWith(mapping[s], k) \in [Names -> BodyKinds]
      BY <3>1 DEF TypeOK, BodyWith
    <3>3. OrderWith(mapping[s]) \subseteq Names \X Names
      BY <3>1 DEF TypeOK, OrderWith, SameFile
    <3>4. body' \in [Names -> BodyKinds]
      BY <2>9, <3>2 DEF TearMethods, TypeOK, BodyKinds
    <3>5. before' \subseteq Names \X Names
      BY <2>9, <3>3 DEF TearMethods
    <3> QED
      BY <2>9, <3>4, <3>5, EmptyLedgerType
      DEF TearMethods, Drop, TypeOK, FileOf
  <2>10. CASE ClearTree
    BY <2>10 DEF ClearTree, TypeOK, BodyKinds
  <2>11. CASE ForgetLedger
    BY <2>11, EmptyLedgerType DEF ForgetLedger, TypeOK, tree
  <2>12. CASE RenameEndpoint
    BY <2>12 DEF RenameEndpoint, TypeOK, tree
  <2>13. CASE UNCHANGED vars
    BY <2>13 DEF vars, TypeOK
  <2> QED
    BY <2>1, <2>2, <2>3, <2>4, <2>5, <2>6, <2>7, <2>8, <2>9, <2>10, <2>11,
       <2>12, <2>13
    DEF Next, Step, Crash
<1> QED
  BY <1>1, <1>2, PTL DEF Spec
-----------------------------------------------------------------------------
(* The conversion map covers every appended unit.                          *)

MapCovers(l) ==
  \A s \in Slots : l.unit[s].status = "appended" => l.unit[s].name \in l.map

LEMMA EmptyCovers == MapCovers(L!EmptyLedger)
BY EmptyLedgerValue DEF MapCovers

LEMMA ArtifactCovers ==
  ASSUME NEW l \in L!LedgerValue, MapCovers(l), NEW a \in Artifacts,
         NEW st \in L!ArtifactStatus
  PROVE  MapCovers(L!SetArtifact(l, a, st))
BY SetArtifactValue DEF MapCovers

\* Recording any status with its link, or any status but "appended" without
\* one, keeps the map covering.
LEMMA RecordCovers ==
  ASSUME TypeOK, MapCovers(mem), NEW s \in Slots, NEW st \in L!UnitStatus
  PROVE  /\ MapCovers(RecordMapped(s, st))
         /\ st # "appended" => MapCovers(Record(s, st))
         /\ Entry(s).status = "appended" => MapCovers(Record(s, st))
<1>1. mem \in L!LedgerValue /\ mapping[s] \in Names
  BY MappingType DEF TypeOK
<1> DEFINE r == Record(s, st)
<1>2. /\ r.unit[s] = [name |-> mapping[s], status |-> st]
      /\ \A t \in Slots \ {s} : r.unit[t] = mem.unit[t]
      /\ r.map = mem.map
  BY <1>1, SetUnitValue DEF Record
<1>3. r \in L!LedgerValue
  BY <1>1, SetUnitType DEF Record
<1>4. st # "appended" => MapCovers(r)
  BY <1>2 DEF MapCovers
<1>5. Entry(s).status = "appended" => MapCovers(r)
  <2> SUFFICES ASSUME Entry(s).status = "appended"
               PROVE  mapping[s] \in mem.map
    BY <1>2 DEF MapCovers
  <2>1. mem.unit[s].name = mapping[s] /\ mem.unit[s].status = "appended"
    BY DEF Entry, L!Get
  <2> QED
    BY <2>1 DEF MapCovers
<1>6. MapCovers(RecordMapped(s, st))
  <2>1. /\ RecordMapped(s, st).map = r.map \cup {mapping[s]}
        /\ RecordMapped(s, st).unit = r.unit
    BY <1>1, <1>3, AddMapValue DEF RecordMapped
  <2> QED
    BY <1>2, <2>1 DEF MapCovers
<1> QED
  BY <1>4, <1>5, <1>6

\* Every unit a ledger calls appended is in its conversion map: across
\* renames, aborted runs and resumes that skip the unit, for every plan.
THEOREM MapCoversAppended == Spec => []AppendedIsMapped
<1> DEFINE Inv == MapCovers(saved) /\ MapCovers(mem)
<1>1. Init => Inv
  BY EmptyCovers DEF Init
<1>2. TypeOK /\ Inv /\ [Next]_vars => Inv'
  <2> SUFFICES ASSUME TypeOK, Inv, [Next]_vars PROVE Inv'
    OBVIOUS
  <2>1. ASSUME MapCovers(mem'), saved' = saved \/ saved' = mem
        PROVE  Inv'
    BY <2>1 DEF MapCovers
  <2>2. ASSUME NEW md \in {"llm", "nollm"}, StartRun(md) PROVE Inv'
    BY <2>1, <2>2, EmptyCovers DEF StartRun
  <2>3. ASSUME NEW a \in Artifacts, GenerateFile(a) PROVE Inv'
    BY <2>1, <2>3, ArtifactCovers
    DEF GenerateFile, TypeOK, L!ArtifactStatus
  <2>4. CASE WriteDB
    BY <2>1, <2>4, ArtifactCovers
    DEF WriteDB, TypeOK, L!ArtifactStatus, Artifacts
  <2>5. CASE PlaceTPCalls
    BY <2>1, <2>5, ArtifactCovers
    DEF PlaceTPCalls, TypeOK, L!ArtifactStatus, Artifacts
  <2>6. ASSUME NEW s \in Slots, UnitStep(s) PROVE Inv'
    <3>1. MapCovers(mem')
      BY <2>6, RecordCovers
      DEF UnitStep, ResumeSkip, Resumed, DeterministicGap, DeterministicBody,
          LLMAccepted, LLMRejected, L!UnitStatus
    <3>2. saved' = saved
      BY <2>6 DEF UnitStep, ResumeSkip, DeterministicGap, DeterministicBody,
                  LLMAccepted, LLMRejected, UnitDone
    <3> QED
      BY <2>1, <3>1, <3>2
  <2>7. CASE Save
    BY <2>1, <2>7, EmptyCovers DEF Save
  <2>8. CASE Crash
    BY <2>1, <2>8, EmptyCovers
    DEF Crash, Abort, SpoilArtifact, TearMethods, Drop
  <2>9. CASE ClearTree \/ RenameEndpoint \/ UNCHANGED vars
    BY <2>1, <2>9 DEF ClearTree, RenameEndpoint, vars
  <2>10. CASE ForgetLedger
    BY <2>10, EmptyCovers DEF ForgetLedger, tree
  <2> QED
    BY <2>2, <2>3, <2>4, <2>5, <2>6, <2>7, <2>8, <2>9, <2>10 DEF Next, Step
<1>3. Inv => AppendedIsMapped
  BY DEF MapCovers, AppendedIsMapped
<1> QED
  BY <1>1, <1>2, <1>3, TypeCorrect, PTL DEF Spec
-----------------------------------------------------------------------------
(* Accepted bodies stay.                                                   *)

\* Without an echoed marker no body is taken for a deterministic one.
NoEcho == \A n \in Names : body[n] # "echo"

\* A merge writes only under its own name, and never over a body that is
\* neither a deterministic one nor the method's own rejected block.
LEMMA MergeKeeps ==
  ASSUME TypeOK, NEW n \in Names, NEW k \in BodyKinds, Merge(n, k)
  PROVE  /\ \A m \in Names \ {n} : body'[m] = body[m]
         /\ body'[n] \in {body[n], k}
         /\ body[n] = "llm" => body'[n] = "llm"
BY DEF Merge, Outcome, LiveAfterStrip, BodyWith, TypeOK

\* A unit step changes at most the body of its own name, to a kind the mode
\* and the switches allow.
LEMMA UnitStepBody ==
  ASSUME TypeOK, NEW s \in Slots, UnitStep(s)
  PROVE  \/ UNCHANGED <<body, before>>
         \/ \E k \in {"det", "llm", "rej"} : Merge(mapping[s], k)
         \/ Echo /\ Merge(mapping[s], "echo")
         \/ mapping[s] \in Gap \cap Fixed /\ Merge(mapping[s], "todo")
<1>1. CASE ResumeSkip(s)
  BY <1>1 DEF ResumeSkip
<1>2. CASE DeterministicGap(s)
  BY <1>2 DEF DeterministicGap
<1>3. CASE DeterministicBody(s)
  BY <1>3 DEF DeterministicBody
<1>4. CASE LLMAccepted(s)
  BY <1>4 DEF LLMAccepted, AcceptedKinds
<1>5. CASE LLMRejected(s)
  BY <1>5 DEF LLMRejected
<1> QED
  BY <1>1, <1>2, <1>3, <1>4, <1>5 DEF UnitStep

\* Only unit steps, interrupted writes and a clearing operator touch bodies.
LEMMA OtherStepsKeepBody ==
  ASSUME [Next]_vars
  PROVE  \/ UNCHANGED <<body, before, torn>>
         \/ \E s \in Slots : UnitStep(s) /\ torn' = torn
         \/ \E s \in Slots, k \in WrittenKinds : TearMethods(s, k)
         \/ ClearTree
<1>1. CASE \E md \in {"llm", "nollm"} : StartRun(md)
  BY <1>1 DEF StartRun, tree
<1>2. CASE \E a \in Artifacts : GenerateFile(a)
  BY <1>2 DEF GenerateFile
<1>3. CASE WriteDB \/ PlaceTPCalls
  BY <1>3 DEF WriteDB, PlaceTPCalls
<1>4. ASSUME NEW s \in Slots, UnitStep(s) PROVE torn' = torn
  BY <1>4 DEF UnitStep, ResumeSkip, DeterministicGap, DeterministicBody,
              LLMAccepted, LLMRejected, UnitDone
<1>5. CASE Save \/ Abort \/ ForgetLedger \/ RenameEndpoint
  BY <1>5 DEF Save, Abort, ForgetLedger, RenameEndpoint, tree
<1>6. CASE \E a \in Artifacts : SpoilArtifact(a)
  BY <1>6 DEF SpoilArtifact
<1>7. CASE UNCHANGED vars
  BY <1>7 DEF vars
<1> QED
  BY <1>1, <1>2, <1>3, <1>4, <1>5, <1>6, <1>7 DEF Next, Step, Crash

\* An interrupted write happens to a file that parsed, so it is visible in
\* the set of torn files.
LEMMA TearShows ==
  ASSUME TypeOK, NEW s \in Slots, NEW k \in WrittenKinds, TearMethods(s, k)
  PROVE  torn' # torn
<1>1. FileOf(mapping[s]) \notin torn
  BY DEF TearMethods, Outcome, Unparsable
<1> QED
  BY <1>1 DEF TearMethods

LEMMA NoEchoInvariant == ASSUME ~ Echo PROVE Spec => []NoEcho
<1>1. Init => NoEcho
  BY DEF Init, NoEcho
<1>2. TypeOK /\ NoEcho /\ [Next]_vars => NoEcho'
  <2> SUFFICES ASSUME TypeOK, NoEcho, [Next]_vars PROVE NoEcho'
    OBVIOUS
  <2>1. ASSUME NEW s \in Slots, UnitStep(s) PROVE NoEcho'
    <3>1. mapping[s] \in Names
      BY MappingType DEF TypeOK
    <3> QED
      BY <2>1, <3>1, UnitStepBody, MergeKeeps DEF NoEcho, BodyKinds
  <2>2. ASSUME NEW s \in Slots, NEW k \in WrittenKinds, TearMethods(s, k)
        PROVE  NoEcho'
    <3>1. mapping[s] \in Names /\ k # "echo"
      BY MappingType DEF TypeOK, WrittenKinds
    <3>2. \A n \in Names : BodyWith(mapping[s], k)[n] # "echo"
      BY <3>1 DEF BodyWith, NoEcho, TypeOK
    <3> QED
      BY <2>2, <3>2 DEF TearMethods, NoEcho
  <2>3. CASE ClearTree
    BY <2>3 DEF ClearTree, NoEcho
  <2> QED
    BY <2>1, <2>2, <2>3, OtherStepsKeepBody DEF NoEcho
<1> QED
  BY <1>1, <1>2, TypeCorrect, PTL DEF Spec

\* "An accepted LLM body on disk always wins - never downgrade it", for every
\* plan, prefix relation and sequence of runs, provided no accepted body
\* repeats the deterministic marker.
THEOREM AcceptedStays == ASSUME ~ Echo PROVE Spec => AcceptedKept
<1>1. TypeOK /\ NoEcho /\ [Next]_vars =>
        [\A n \in Names : body[n] \in Accepted /\ body'[n] \notin Accepted =>
                            ClearTree \/ torn' # torn]_vars
  <2> SUFFICES ASSUME TypeOK, NoEcho, [Next]_vars, NEW n \in Names,
                      body[n] \in Accepted, body'[n] \notin Accepted
               PROVE  ClearTree \/ torn' # torn
    OBVIOUS
  <2>1. body[n] = "llm" /\ body'[n] # "llm"
    BY DEF NoEcho, Accepted
  <2>2. ASSUME NEW s \in Slots, UnitStep(s) PROVE FALSE
    <3>1. mapping[s] \in Names
      BY MappingType DEF TypeOK
    <3> QED
      BY <2>1, <2>2, <3>1, UnitStepBody, MergeKeeps DEF BodyKinds
  <2> QED
    BY <2>1, <2>2, TearShows, OtherStepsKeepBody
<1> QED
  BY <1>1, TypeCorrect, NoEchoInvariant, PTL DEF Spec, AcceptedKept
-----------------------------------------------------------------------------
(* The ledger tells the truth about accepted bodies.                       *)

\* The circumstances in which it does: no two names of which one is a prefix
\* of the other, and no echoed marker.  Runs may be killed anywhere, a write
\* torn, the tree cleared, a helper gated out: LedgerHonest itself says which
\* placeholders are then taken for bodies.
Calm == Prefix = {} /\ ~ Echo

\* Methods that nothing but the operator or a torn write takes away.
Firm == {"llm", "todo"}

\* Unless the tree was cleared under it, a ledger's appended entries point at
\* such methods, under whatever name they were recorded.
Truthful(l) ==
  regen = "whole" =>
    \A s \in Slots :
      l.unit[s].status = "appended" =>
        l.unit[s].name \in Names /\ body[l.unit[s].name] \in Firm

\* The units a run has dealt with carry the names of today's mapping, and
\* those it calls appended a method or what a broken-off run left of one.
Sound(l, seen) ==
  \A s \in seen :
    /\ l.unit[s].name = mapping[s]
    /\ l.unit[s].status = "appended" =>
         \/ body[mapping[s]] \in Firm
         \/ regen = "broken" /\ body[mapping[s]] = "rej"

\* A cleared tree holds what the run that regenerates it has dealt with.
Cleared ==
  regen = "cleared" =>
    \A n \in Names : body[n] # "none" => \E s \in SeenSlots : mapping[s] = n

HonestInv ==
  /\ \A n \in Names : body[n] \in Firm \cup {"none", "det", "rej"}
  /\ Truthful(mem) /\ Truthful(saved)
  /\ Sound(mem, SeenSlots)
  /\ pc = "done" => Sound(saved, Slots)
  /\ Cleared

\* Between runs no ledger is loaded, and a run meets its units in order.
LoopInv ==
  /\ ~ Running => mem = L!EmptyLedger
  /\ pc \in {"models", "db", "glue"} => next = 1

LEMMA RecordUnits ==
  ASSUME TypeOK, NEW s \in Slots, NEW st \in L!UnitStatus,
         mem' \in {Record(s, st), RecordMapped(s, st)}
  PROVE  /\ mem'.unit[s] = [name |-> mapping[s], status |-> st]
         /\ \A t \in Slots \ {s} : mem'.unit[t] = mem.unit[t]
<1>1. mem \in L!LedgerValue /\ mapping[s] \in Names
  BY MappingType DEF TypeOK
<1>2. Record(s, st) \in L!LedgerValue
  BY <1>1, SetUnitType DEF Record
<1>3. RecordMapped(s, st).unit = Record(s, st).unit
  BY <1>1, <1>2, AddMapValue DEF RecordMapped
<1>4. mem'.unit = Record(s, st).unit
  BY <1>3
<1> QED
  BY <1>1, <1>4, SetUnitValue DEF Record

\* In calm circumstances a merge leaves exactly its body under the name,
\* unless a firm one stands there.
LEMMA CalmMerge ==
  ASSUME Calm, TypeOK, torn = {}, HonestInv, NEW n \in Names,
         NEW k \in BodyKinds, Merge(n, k)
  PROVE  /\ body'[n] = IF body[n] \in Firm THEN body[n] ELSE k
         /\ Outcome(n) # "error"
         /\ \A m \in Names \ {n} : body'[m] = body[m]
BY DEF Calm, HonestInv, Firm, Merge, Outcome, LiveAfterStrip, DetMarked,
       Unparsable, ForeignBlockFirst, BodyWith, TypeOK

\* A unit step disturbs no method but its own, and calls its unit appended
\* only over a method that is firm, or was taken for one.
LEMMA CalmUnitStep ==
  ASSUME Calm, TypeOK, torn = {}, HonestInv, NEW s \in Slots, UnitStep(s)
  PROVE  HonestInv'
<1> DEFINE n == mapping[s]
           Good(st) == st = "appended" =>
                         \/ body'[n] \in Firm
                         \/ regen = "broken" /\ body'[n] = "rej"
<1>1. n \in Names /\ mapping \in Mappings
  BY MappingType DEF TypeOK
<1>2. /\ AtUnit(s)
      /\ UnitDone
  BY DEF UnitStep, ResumeSkip, DeterministicGap, DeterministicBody,
         LLMAccepted, LLMRejected
<1>3. s \notin SeenSlots /\ SeenSlots' = SeenSlots \cup {s}
  BY <1>2 DEF SeenSlots, AtUnit, UnitDone, Slots, TypeOK
<1>4. \A t \in Slots : mapping[t] = n => t = s
  BY <1>1 DEF IsMapping
<1>5. /\ \A m \in Names \ {n} : body'[m] = body[m]
      /\ body[n] \in Firm => body'[n] = body[n]
      /\ body'[n] \in Firm \cup {"none", "det", "rej"}
  <2>1. CASE UNCHANGED <<body, before>>
    BY <1>1, <2>1 DEF HonestInv
  <2>2. ASSUME NEW k \in {"det", "llm", "rej", "todo"}, Merge(n, k)
        PROVE  <1>5
    BY <1>1, <2>2, CalmMerge DEF BodyKinds, Firm
  <2> QED
    BY <2>1, <2>2, UnitStepBody DEF Calm
<1>6. PICK st \in L!UnitStatus :
        mem' \in {Record(s, st), RecordMapped(s, st)} /\ Good(st)
  <2>1. CASE ResumeSkip(s)
    <3>1. body'[n] = body[n] /\ body[n] \in Firm \cup {"rej"}
      BY <1>1, <2>1 DEF ResumeSkip, Resumed, Live, DetMarked, HonestInv
    <3>2. mem.unit[s].status = "appended" /\ mem.unit[s].name = n
      BY <2>1 DEF ResumeSkip, Resumed, Entry, L!Get
    <3>3. regen = "whole" => body[n] \in Firm
      BY <3>2 DEF HonestInv, Truthful
    <3>4. regen # "cleared"
      BY <1>1, <1>3, <1>4, <3>1 DEF HonestInv, Cleared, Firm, SeenSlots
    <3> QED
      BY <2>1, <3>1, <3>3, <3>4 DEF ResumeSkip, L!UnitStatus, TypeOK
  <2>2. CASE DeterministicGap(s)
    BY <2>2 DEF DeterministicGap, L!UnitStatus
  <2>3. CASE DeterministicBody(s)
    BY <2>3 DEF DeterministicBody, L!UnitStatus
  <2>4. CASE LLMAccepted(s)
    <3>1. Merge(n, "llm")
      BY <2>4 DEF LLMAccepted, AcceptedKinds, Calm
    <3>2. body'[n] \in Firm /\ Outcome(n) # "error"
      BY <1>1, <3>1, CalmMerge DEF BodyKinds, Firm
    <3> QED
      BY <2>4, <3>2 DEF LLMAccepted, L!UnitStatus
  <2>5. CASE LLMRejected(s)
    BY <2>5 DEF LLMRejected, L!UnitStatus
  <2> QED
    BY <2>1, <2>2, <2>3, <2>4, <2>5 DEF UnitStep
<1>7. /\ mem'.unit[s] = [name |-> n, status |-> st]
      /\ \A t \in Slots \ {s} : mem'.unit[t] = mem.unit[t]
  BY <1>6, RecordUnits
<1>8. UNCHANGED <<saved, mapping, regen>> /\ pc' \in {"ctrl", "help"}
  BY <1>2 DEF UnitDone, AtUnit
<1>9. \A m \in Names : body[m] \in Firm => body'[m] \in Firm
  BY <1>5
<1>10. Truthful(saved)'
  BY <1>8, <1>9 DEF Truthful, HonestInv
<1>11. Truthful(mem)'
  BY <1>1, <1>6, <1>7, <1>8, <1>9 DEF Truthful, HonestInv
<1>12. Sound(mem, SeenSlots)'
  <2> SUFFICES ASSUME NEW t \in SeenSlots \cup {s}
               PROVE  /\ mem'.unit[t].name = mapping[t]
                      /\ mem'.unit[t].status = "appended" =>
                           \/ body'[mapping[t]] \in Firm
                           \/ regen = "broken" /\ body'[mapping[t]] = "rej"
    BY <1>3, <1>8 DEF Sound
  <2>1. CASE t = s
    BY <1>6, <1>7, <2>1
  <2>2. CASE t # s
    <3>1. t \in Slots /\ t \in SeenSlots
      BY <2>2 DEF SeenSlots
    <3>2. mapping[t] \in Names \ {n}
      BY <1>4, <2>2, <3>1, MappingType DEF TypeOK
    <3> QED
      BY <1>5, <1>7, <2>2, <3>1, <3>2 DEF HonestInv, Sound
  <2> QED
    BY <2>1, <2>2
<1>13. Cleared'
  BY <1>3, <1>5, <1>8 DEF Cleared, HonestInv
<1>14. \A m \in Names : body'[m] \in Firm \cup {"none", "det", "rej"}
  BY <1>5 DEF HonestInv
<1> QED
  BY <1>8, <1>10, <1>11, <1>12, <1>13, <1>14 DEF HonestInv

\* The ledger in memory is empty between runs, and the unit loop is at its
\* start until the glue is written.
LEMMA LoopKeeps ==
  ASSUME TypeOK, LoopInv, [Next]_vars PROVE LoopInv'
<1>1. CASE \E md \in {"llm", "nollm"} : StartRun(md)
  BY <1>1 DEF StartRun, LoopInv, Running, Stages
<1>2. CASE \E a \in Artifacts : GenerateFile(a)
  BY <1>2 DEF GenerateFile, StageAfter, LoopInv, Running, Stages
<1>3. CASE WriteDB \/ PlaceTPCalls
  BY <1>3 DEF WriteDB, PlaceTPCalls, LoopInv, Running, Stages
<1>4. ASSUME NEW s \in Slots, UnitStep(s) PROVE LoopInv'
  BY <1>4 DEF UnitStep, ResumeSkip, DeterministicGap, DeterministicBody,
              LLMAccepted, LLMRejected, AtUnit, UnitDone, LoopInv, Running,
              Stages
<1>5. CASE Save \/ Crash
  BY <1>5 DEF Save, Crash, Abort, SpoilArtifact, TearMethods, Drop, LoopInv
<1>6. CASE ClearTree \/ ForgetLedger \/ RenameEndpoint
  BY <1>6 DEF ClearTree, ForgetLedger, RenameEndpoint, LoopInv, Running, Stages
<1>7. CASE UNCHANGED vars
  BY <1>7 DEF vars, LoopInv, Running
<1> QED
  BY <1>1, <1>2, <1>3, <1>4, <1>5, <1>6, <1>7 DEF Next, Step

\* A completed run's ledger is honest for every plan, in every order of runs,
\* kills, torn writes and operator steps, the clearing of a tree included.
\* The circumstances are a fact about the constants, so they hold for every
\* step; the inductive invariant adds what LedgerHonest leaves out: what an
\* unfinished run believes, what the ledger file says while a run is under
\* way, and what a cleared tree holds until a run has gone through it.
THEOREM LedgerIsHonest == ASSUME Calm PROVE Spec => []LedgerHonest
<1> DEFINE Inv == LoopInv /\ (torn = {} => HonestInv)
<1>1. Init => Inv
  BY EmptyLedgerValue
  DEF Init, LoopInv, HonestInv, Truthful, Sound, Cleared, SeenSlots, Running,
      Stages
<1>2. TypeOK /\ Inv /\ [Next]_vars => Inv'
  <2> SUFFICES ASSUME TypeOK, Inv, [Next]_vars, torn' = {} PROVE HonestInv'
    BY LoopKeeps
  <2>1. CASE ClearTree
    <3>1. ~ Running /\ mem = L!EmptyLedger
      BY <2>1 DEF ClearTree, LoopInv
    <3> QED
      BY <2>1, <3>1 DEF ClearTree, HonestInv, Truthful, Sound, Cleared,
                        SeenSlots
  <2> SUFFICES ASSUME ~ ClearTree PROVE HonestInv'
    BY <2>1
  <2>2. /\ torn = {} /\ HonestInv
        /\ ~ \E s \in Slots, k \in WrittenKinds : TearMethods(s, k)
    BY OtherStepsKeepBody DEF TearMethods
  \* A step that leaves bodies and units alone and has no unit behind it.
  <2>3. ASSUME UNCHANGED <<saved, body, mapping, regen>>,
               mem'.unit = mem.unit, pc' # "done", UNCHANGED SeenSlots
        PROVE  HonestInv'
    BY <2>2, <2>3 DEF HonestInv, Truthful, Sound, Cleared
  <2>4. ASSUME NEW md \in {"llm", "nollm"}, StartRun(md) PROVE HonestInv'
    <3>1. SeenSlots = {} /\ SeenSlots' = {} /\ pc' # "done"
      BY <2>4 DEF StartRun, SeenSlots, Running, Stages
    <3>2. UNCHANGED <<saved, body, mapping, regen>>
          /\ mem' \in {saved, L!EmptyLedger}
      BY <2>4 DEF StartRun, tree
    <3> QED
      BY <2>2, <3>1, <3>2, EmptyLedgerValue
      DEF HonestInv, Truthful, Sound, Cleared
  <2>5. ASSUME NEW a \in Artifacts, GenerateFile(a) PROVE HonestInv'
    <3>1. mem'.unit = mem.unit
      BY <2>5, SetArtifactValue DEF GenerateFile, TypeOK, L!ArtifactStatus
    <3>2. next' = 1 /\ pc' \in {"db", "ctrl"} /\ pc \in {"models", "glue"}
      BY <2>5 DEF GenerateFile, StageAfter, LoopInv
    <3>3. SeenSlots = {} /\ SeenSlots' = {}
      BY <3>2 DEF SeenSlots, Slots
    <3> QED
      BY <2>3, <2>5, <3>1, <3>2, <3>3 DEF GenerateFile
  <2>6. CASE WriteDB
    <3>1. mem'.unit = mem.unit
      BY <2>6, SetArtifactValue
      DEF WriteDB, TypeOK, L!ArtifactStatus, Artifacts
    <3> QED
      BY <2>3, <2>6, <3>1 DEF WriteDB, SeenSlots
  <2>7. CASE PlaceTPCalls
    <3>1. mem'.unit = mem.unit
      BY <2>7, SetArtifactValue
      DEF PlaceTPCalls, TypeOK, L!ArtifactStatus, Artifacts
    <3> QED
      BY <2>3, <2>7, <3>1 DEF PlaceTPCalls, SeenSlots
  <2>8. ASSUME NEW s \in Slots, UnitStep(s) PROVE HonestInv'
    BY <2>2, <2>8, CalmUnitStep
  <2>9. CASE Save
    <3>1. SeenSlots = Slots /\ SeenSlots' = {}
      BY <2>9 DEF Save, SeenSlots, Slots
    <3>2. /\ saved' = mem /\ mem' = L!EmptyLedger /\ pc' = "done"
          /\ UNCHANGED <<body, mapping>>
          /\ regen' = IF regen = "cleared" THEN "whole" ELSE regen
      BY <2>9 DEF Save, tree
    <3>3. Sound(mem, Slots)
      BY <2>2, <3>1 DEF HonestInv
    <3>4. \A s \in Slots : mapping[s] \in Names
      BY MappingType DEF TypeOK
    <3>5. Truthful(saved)'
      BY <2>2, <3>2, <3>3, <3>4 DEF Truthful, Sound, HonestInv
    <3>6. Sound(saved, Slots)'
      BY <3>2, <3>3 DEF Sound
    <3> QED
      BY <2>2, <3>1, <3>2, <3>5, <3>6, EmptyLedgerValue
      DEF HonestInv, Truthful, Sound, Cleared, TypeOK
  <2>10. CASE Abort \/ \E a \in Artifacts : SpoilArtifact(a)
    <3>1. UNCHANGED <<saved, body, mapping>> /\ Drop
      BY <2>10 DEF Abort, SpoilArtifact, Drop, tree
    <3> QED
      BY <2>2, <3>1, EmptyLedgerValue
      DEF Drop, HonestInv, Truthful, Sound, Cleared, SeenSlots
  <2>11. CASE ForgetLedger \/ RenameEndpoint
    <3>1. /\ ~ Running /\ pc' = "idle" /\ UNCHANGED <<mem, body>>
          /\ \/ saved' = L!EmptyLedger /\ regen' = "whole"
             \/ UNCHANGED <<saved, regen>>
      BY <2>11 DEF ForgetLedger, RenameEndpoint, tree
    <3>2. SeenSlots = {} /\ SeenSlots' = {} /\ mem = L!EmptyLedger
      BY <3>1 DEF SeenSlots, Running, Stages, LoopInv
    <3> QED
      BY <2>2, <3>1, <3>2, EmptyLedgerValue
      DEF HonestInv, Truthful, Sound, Cleared
  <2>12. CASE UNCHANGED vars
    BY <2>2, <2>12
    DEF vars, HonestInv, Truthful, Sound, Cleared, SeenSlots
  <2> QED
    BY <2>2, <2>4, <2>5, <2>6, <2>7, <2>8, <2>9, <2>10, <2>11, <2>12
    DEF Next, Step, Crash
<1>3. Inv => LedgerHonest
  <2> SUFFICES ASSUME HonestInv PROVE LedgerHonest
    BY DEF LedgerHonest
  <2>1. pc = "done" => Honest(saved, Slots)
    BY DEF HonestInv, Sound, Honest, Accepted, Firm, Mistaken
  <2>2. Honest(mem, SeenSlots)
    BY DEF HonestInv, Sound, Honest, Accepted, Firm, Mistaken
  <2> QED
    BY <2>1, <2>2 DEF LedgerHonest
<1> QED
  BY <1>1, <1>2, <1>3, TypeCorrect, PTL DEF Spec
-----------------------------------------------------------------------------
(* Generations never mix.                                                  *)

\* The models file is the root of the tree: it is written first, and while
\* any method stands it stands too, so probing it is probing the tree.
RootInv ==
  /\ pc \in {"db", "glue", "ctrl", "help"} => file["models"] # "absent"
  /\ \A n \in Names : body[n] # "none" => file["models"] # "absent"

\* The staged-collision guard suffices for every plan that has a models
\* unit: a fresh ledger starts a run only in a tree without methods.
THEOREM GenerationsApart == ASSUME HasModels PROVE Spec => NoMixedGenerations
<1>1. Init => RootInv
  BY DEF Init, RootInv
<1>2. TypeOK /\ RootInv /\ [Next]_vars => RootInv'
  <2> SUFFICES ASSUME TypeOK, RootInv, [Next]_vars PROVE RootInv'
    OBVIOUS
  <2>1. ASSUME NEW md \in {"llm", "nollm"}, StartRun(md) PROVE RootInv'
    BY <2>1 DEF StartRun, RootInv, tree
  <2>2. ASSUME NEW a \in Artifacts, GenerateFile(a) PROVE RootInv'
    BY <2>2 DEF GenerateFile, RootInv, StageAfter, TypeOK, Artifacts
  <2>3. CASE WriteDB \/ PlaceTPCalls
    BY <2>3 DEF WriteDB, PlaceTPCalls, RootInv, TypeOK, Artifacts
  <2>4. ASSUME NEW s \in Slots, UnitStep(s) PROVE RootInv'
    <3>1. AtUnit(s) /\ UnitDone
      BY <2>4 DEF UnitStep, ResumeSkip, DeterministicGap, DeterministicBody,
                  LLMAccepted, LLMRejected
    <3> QED
      BY <3>1 DEF AtUnit, UnitDone, RootInv
  <2>5. CASE Save \/ Abort
    BY <2>5 DEF Save, Abort, Drop, RootInv, tree
  <2>6. ASSUME NEW a \in Artifacts, SpoilArtifact(a) PROVE RootInv'
    BY <2>6 DEF SpoilArtifact, Drop, RootInv, TypeOK
  <2>7. ASSUME NEW s \in Slots, NEW k \in WrittenKinds, TearMethods(s, k)
        PROVE  RootInv'
    <3>1. file["models"] # "absent"
      BY <2>7 DEF TearMethods, AtUnit, RootInv
    <3> QED
      BY <2>7, <3>1 DEF TearMethods, Drop, RootInv
  <2>8. CASE ClearTree
    BY <2>8 DEF ClearTree, RootInv
  <2>9. CASE ForgetLedger \/ RenameEndpoint
    BY <2>9 DEF ForgetLedger, RenameEndpoint, RootInv, Running, Stages, tree
  <2>10. CASE UNCHANGED vars
    BY <2>10 DEF vars, RootInv
  <2> QED
    BY <2>1, <2>2, <2>3, <2>4, <2>5, <2>6, <2>7, <2>8, <2>9, <2>10
    DEF Next, Step, Crash
<1>3. TypeOK /\ RootInv /\ [Next]_vars =>
        [pc' \in {"models", "glue"} /\ ~ Running /\ L!Fresh(saved)
           => \A n \in Names : body[n] = "none"]_vars
  <2> SUFFICES ASSUME RootInv, [Next]_vars, ~ Running, L!Fresh(saved),
                      pc' \in {"models", "glue"}
               PROVE  \A n \in Names : body[n] = "none"
    OBVIOUS
  <2>1. PICK md \in {"llm", "nollm"} : StartRun(md)
    BY DEF Next, Step, Crash, GenerateFile, WriteDB, PlaceTPCalls, UnitStep,
           ResumeSkip, DeterministicGap, DeterministicBody, LLMAccepted,
           LLMRejected, UnitDone, AtUnit, Save, Abort, SpoilArtifact, TearMethods,
           Drop, ClearTree, ForgetLedger, RenameEndpoint, Running, Stages, vars
  <2> QED
    BY <2>1 DEF StartRun, RootInv
<1> QED
  BY <1>1, <1>2, <1>3, TypeCorrect, PTL DEF Spec, NoMixedGenerations
-----------------------------------------------------------------------------
(* The whole-file artifacts a completed run's ledger claims are on disk.   *)

\* No tree is cleared under a ledger whose run may then die in a write.  The
\* two together do lose an artifact: the cleared tree's file is written anew
\* and torn, the ledger still claims it, and the next run sees it present.
Recoverable == Tearing \cap Artifacts = {} \/ "clear" \notin Operator

Claims(l, a) == l.art[a] \in {"appended", "placeholder"}

\* The artifacts whose stage the run under way has behind it.
Passed ==
  CASE pc = "db" -> {"models"}
    [] pc = "glue" -> {"models", "db"}
    [] pc = "ctrl" -> {"models", "db", "glue"}
    [] pc = "help" -> Artifacts
    [] OTHER -> {}

\* A run knows its files by having passed their stages, not by the ledger it
\* loaded: a file may have been cleared since.  Where nothing is cleared, no
\* file that is claimed is ever absent, so that only an unclaimed one (or
\* db.go, which every run rewrites) can be spoilt.
ArtifactInv ==
  /\ \A a \in Passed : Claims(mem, a) => file[a] = "ok"
  /\ pc = "done" => \A a \in Artifacts : Claims(saved, a) => file[a] = "ok"
  /\ ~ HasModels =>
       /\ pc \notin {"models", "db"}
       /\ \A a \in {"models", "db"} : ~ Claims(mem, a) /\ ~ Claims(saved, a)
  /\ \A a \in Artifacts \ Tearing : file[a] # "bad"
  /\ "clear" \notin Operator =>
       /\ \A a \in Artifacts \ {"db"} :
            Claims(mem, a) \/ Claims(saved, a) => file[a] = "ok"
       /\ Running => \A a \in Artifacts : Claims(saved, a) => Claims(mem, a)

LEMMA EmptyClaimsNothing == \A a \in Artifacts : ~ Claims(L!EmptyLedger, a)
BY DEF L!EmptyLedger, Claims

\* A stage that leaves its file readable keeps the invariant: it touches no
\* other file and no other artifact's record.
LEMMA StageKeeps ==
  ASSUME TypeOK, ArtifactInv, NEW a \in Artifacts,
         Running, pc' \in {"db", "glue", "ctrl", "help"},
         Passed' \subseteq Passed \cup {a},
         HasModels \/ (pc' # "db" /\ a \in {"glue", "tpcall"}),
         file' = file \/ file' = [file EXCEPT ![a] = "ok"],
         file'[a] = "ok",
         \/ mem' = mem
         \/ \E st \in {"appended", "placeholder"} :
              mem' = L!SetArtifact(mem, a, st),
         saved' = saved
  PROVE  ArtifactInv'
<1>1. \A b \in Artifacts : file'[b] = IF b = a THEN "ok" ELSE file[b]
  BY DEF TypeOK
<1>2. \A b \in Artifacts \ {a} : mem'.art[b] = mem.art[b]
  BY SetArtifactValue DEF TypeOK, L!ArtifactStatus
<1>3. Claims(mem, a) => Claims(mem', a)
  BY SetArtifactValue DEF TypeOK, L!ArtifactStatus, Claims
<1>4. \A b \in Passed' : Claims(mem', b) => file'[b] = "ok"
  <2>1. Passed \subseteq Artifacts
    BY DEF Passed, Artifacts
  <2> QED
    BY <1>1, <1>2, <2>1 DEF ArtifactInv, Claims
<1>5. ~ HasModels => \A b \in {"models", "db"} :
                       ~ Claims(mem', b) /\ ~ Claims(saved', b)
  BY <1>2 DEF ArtifactInv, Claims, Artifacts
<1>6. \A b \in Artifacts \ Tearing : file'[b] # "bad"
  BY <1>1 DEF ArtifactInv
<1>7. "clear" \notin Operator =>
        /\ \A b \in Artifacts \ {"db"} :
             Claims(mem', b) \/ Claims(saved', b) => file'[b] = "ok"
        /\ \A b \in Artifacts : Claims(saved', b) => Claims(mem', b)
  BY <1>1, <1>2, <1>3 DEF ArtifactInv, Claims
<1> QED
  BY <1>4, <1>5, <1>6, <1>7 DEF ArtifactInv

\* A completed run leaves every whole-file artifact its ledger claims on disk
\* and readable, after any crashes, renames, forgotten ledgers, and either
\* cleared trees or torn writes.
THEOREM ArtifactsStay == ASSUME Recoverable PROVE Spec => []ArtifactsOnDisk
<1>1. Init => ArtifactInv
  BY EmptyClaimsNothing
  DEF Init, ArtifactInv, Passed, Artifacts, Running, Stages
<1>2. TypeOK /\ ArtifactInv /\ [Next]_vars => ArtifactInv'
  <2> SUFFICES ASSUME TypeOK, ArtifactInv, [Next]_vars PROVE ArtifactInv'
    OBVIOUS
  <2>1. ASSUME NEW md \in {"llm", "nollm"}, StartRun(md) PROVE ArtifactInv'
    <3>1. /\ UNCHANGED <<saved, file>>
          /\ mem' \in {L!EmptyLedger, saved}
          /\ pc' = "refused" \/ pc' = (IF HasModels THEN "models" ELSE "glue")
          /\ pc' # "refused" => mem' = saved
      BY <2>1 DEF StartRun, tree
    <3>2. \A a \in Artifacts : Claims(mem', a) => Claims(saved, a)
      BY <3>1, EmptyClaimsNothing
    <3>3. HasModels => Passed' = {}
      BY <3>1 DEF Passed
    <3>4. ~ HasModels => Passed' \subseteq {"models", "db"}
      BY <3>1 DEF Passed
    <3>5. Running' => mem' = saved
      BY <3>1 DEF Running, Stages
    <3> QED
      BY <3>1, <3>2, <3>3, <3>4, <3>5 DEF ArtifactInv, Artifacts
  <2>2. ASSUME NEW a \in Artifacts, GenerateFile(a) PROVE ArtifactInv'
    <3>1. file'[a] = "ok"
      <4>1. CASE mem.art[a] = "appended" /\ file[a] # "absent"
        BY <2>2, <4>1 DEF GenerateFile, TypeOK, ArtifactInv, Recoverable, Claims
      <4>2. CASE ~ (mem.art[a] = "appended" /\ file[a] # "absent")
        BY <2>2, <4>2 DEF GenerateFile, TypeOK
      <4> QED
        BY <4>1, <4>2
    <3>2. pc' \in {"db", "ctrl"} /\ Passed' \subseteq Passed \cup {a}
      BY <2>2 DEF GenerateFile, StageAfter, Passed
    <3>3. HasModels \/ (pc' # "db" /\ a \in {"glue", "tpcall"})
      BY <2>2 DEF GenerateFile, StageAfter, ArtifactInv
    <3> QED
      BY <2>2, <3>1, <3>2, <3>3, StageKeeps
      DEF GenerateFile, Running, Stages
  <2>3. CASE WriteDB
    <3>1. file'["db"] = "ok" /\ "db" \in Artifacts
      BY <2>3 DEF WriteDB, TypeOK, Artifacts
    <3>2. pc' = "glue" /\ Passed' \subseteq Passed \cup {"db"} /\ HasModels
      BY <2>3 DEF WriteDB, Passed, ArtifactInv
    <3> QED
      BY <2>3, <3>1, <3>2, StageKeeps DEF WriteDB, Running, Stages
  <2>4. CASE PlaceTPCalls
    <3>1. file'["tpcall"] = "ok" /\ "tpcall" \in Artifacts
      <4>1. "tpcall" \in Artifacts
        BY DEF Artifacts
      <4>2. CASE mem.art["tpcall"] = "placeholder" /\ file["tpcall"] # "absent"
        BY <2>4, <4>1, <4>2
        DEF PlaceTPCalls, TypeOK, ArtifactInv, Recoverable, Claims
      <4>3. CASE ~ (mem.art["tpcall"] = "placeholder"
                      /\ file["tpcall"] # "absent")
        BY <2>4, <4>1, <4>3 DEF PlaceTPCalls, TypeOK
      <4> QED
        BY <4>1, <4>2, <4>3
    <3>2. pc' = "help" /\ Passed' \subseteq Passed \cup {"tpcall"}
      BY <2>4 DEF PlaceTPCalls, Passed, Artifacts
    <3> QED
      BY <2>4, <3>1, <3>2, StageKeeps DEF PlaceTPCalls, Running, Stages
  <2>5. ASSUME NEW s \in Slots, UnitStep(s) PROVE ArtifactInv'
    <3>1. UNCHANGED <<pc, saved, file>>
      BY <2>5 DEF UnitStep, ResumeSkip, DeterministicGap, DeterministicBody,
                  LLMAccepted, LLMRejected, UnitDone
    <3>2. mem'.art = mem.art
      BY <2>5, RecordKeepsArtifacts
      DEF UnitStep, ResumeSkip, DeterministicGap, DeterministicBody,
          LLMAccepted, LLMRejected, L!UnitStatus
    <3> QED
      BY <3>1, <3>2 DEF ArtifactInv, Passed, Claims, Running
  <2>6. CASE Save
    <3>1. Passed = Artifacts /\ Passed' = {}
      BY <2>6 DEF Save, Passed
    <3> QED
      BY <2>6, <3>1, EmptyClaimsNothing
      DEF Save, ArtifactInv, Claims, Running, Stages, tree, Artifacts
  <2>7. ASSUME Drop, UNCHANGED file PROVE ArtifactInv'
    BY <2>7, EmptyClaimsNothing
    DEF Drop, ArtifactInv, Passed, Running, Stages, Artifacts
  <2>8. CASE Abort
    BY <2>7, <2>8 DEF Abort, tree
  <2>9. ASSUME NEW a \in Artifacts, SpoilArtifact(a) PROVE ArtifactInv'
    <3>1. a \in Tearing /\ "clear" \notin Operator /\ Running
      BY <2>9 DEF SpoilArtifact, Recoverable, Running, Stages, Artifacts
    <3>2. a = "db" \/ ~ Claims(saved, a)
      BY <2>9, <3>1 DEF SpoilArtifact, ArtifactInv, Claims
    <3>3. \A b \in Artifacts \ {a} : file'[b] = file[b]
      BY <2>9 DEF SpoilArtifact, TypeOK
    <3> QED
      BY <2>9, <3>1, <3>2, <3>3, EmptyClaimsNothing
      DEF SpoilArtifact, Drop, ArtifactInv, Passed, Running, Stages, Artifacts
  <2>10. ASSUME NEW s \in Slots, NEW k \in WrittenKinds, TearMethods(s, k)
         PROVE  ArtifactInv'
    BY <2>7, <2>10 DEF TearMethods
  <2>11. CASE ClearTree
    BY <2>11 DEF ClearTree, ArtifactInv, Passed
  <2>12. CASE ForgetLedger
    BY <2>12, EmptyClaimsNothing
    DEF ForgetLedger, ArtifactInv, Passed, Running, Stages, tree, Artifacts
  <2>13. CASE RenameEndpoint
    BY <2>13 DEF RenameEndpoint, ArtifactInv, Passed, Running, Stages, tree
  <2>14. CASE UNCHANGED vars
    BY <2>14 DEF vars, ArtifactInv, Passed, Running
  <2> QED
    BY <2>1, <2>2, <2>3, <2>4, <2>5, <2>6, <2>8, <2>9, <2>10, <2>11, <2>12,
       <2>13, <2>14
    DEF Next, Step, Crash
<1>3. ArtifactInv => ArtifactsOnDisk
  BY DEF ArtifactInv, ArtifactsOnDisk, Claims
<1> QED
  BY <1>1, <1>2, <1>3, TypeCorrect, PTL DEF Spec
=============================================================================
