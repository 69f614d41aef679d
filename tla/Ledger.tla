------------------------------- MODULE Ledger -------------------------------
(***************************************************************************)
(* The conversion ledger of internal/ledger: one status entry per plan     *)
(* unit, one per whole-file artifact, and the source-to-target conversion  *)
(* map.  A ledger is a value here; ConvertRun keeps one in memory (the run *)
(* under way) and one on disk (what the last completed run saved).         *)
(***************************************************************************)

CONSTANTS
  Slots,      \* positional unit IDs of the plan (u07, u08, ...)
  Names,      \* Go method names an endpoint or helper can be mapped to
  Artifacts,  \* whole-file units: models, db, glue, tpcall
  NoName      \* "no entry recorded"

UnitStatus ==
  {"planned", "appended", "failed", "skipped"}

ArtifactStatus == {"planned", "appended", "placeholder"}

UnitEntry == [name : Names \cup {NoName}, status : UnitStatus]

LedgerValue ==
  [unit : [Slots -> UnitEntry],
   art  : [Artifacts -> ArtifactStatus],
   map  : SUBSET Names]

NoEntry == [name |-> NoName, status |-> "planned"]

\* Load of an absent file: no entry, nothing mapped.
EmptyLedger ==
  [unit |-> [s \in Slots |-> NoEntry],
   art  |-> [a \in Artifacts |-> "planned"],
   map  |-> {}]

\* No unit record at all: a first run, not a resume.
Fresh(l) == l = EmptyLedger

\* Mutant: a status that survives the rename of its unit.
GetKeepingStatus(l, s, n) ==
  IF l.unit[s].name = NoName THEN [name |-> n, status |-> "planned"]
                             ELSE l.unit[s]

\* The entry a run works with: a first touch creates it planned, and a
\* recorded name that differs from the plan's (a mapping rename reusing the
\* positional ID) resets whatever status it had reached.
Get(l, s, n) ==
  IF l.unit[s].name = n THEN l.unit[s]
                        ELSE [name |-> n, status |-> "planned"]

SetUnit(l, s, n, st) ==
  [l EXCEPT !.unit[s] = [name |-> n, status |-> st]]

SetArtifact(l, a, st) == [l EXCEPT !.art[a] = st]

\* Identical links deduplicate, so a set of names is the whole map.
AddMap(l, n) == [l EXCEPT !.map = @ \cup {n}]
=============================================================================
