------------------------------- MODULE Fanout -------------------------------
(***************************************************************************)
(* cmd/tuxconv runConvertFanout: several services converted at once, one   *)
(* RunIndexed worker per entry file.  The mapping directory is matched     *)
(* first; each worker then loads its service's ledger, merges its methods  *)
(* into the service's controller file, archives its exchanges in the       *)
(* recorder all workers share, and saves the ledger.  What a service does  *)
(* alone is ConvertRun; this module is about what they do to each other.   *)
(***************************************************************************)
EXTENDS RunIndexed

CONSTANTS
  Sources,     \* lower-cased base names of entry files
  Key,         \* job -> its entry file's
  Methods,     \* job -> the controller methods its mapping names
  Drafts,      \* file names of the mapping directory
  Directories, \* what the mapping directory may hold
  NoKey,       \* a mapping without a source field
  Excluded,    \* the sources convert.fileFilter dropped
  Lenient,     \* the default mappings/ convention, not an explicit -mapping
  MayFail      \* jobs whose conversion may return an error

AllMethods == UNION {Methods[j] : j \in Jobs}
Services == UNION {{d[f].service : f \in Drafts} : d \in Directories}
Nobody == 0

ASSUME FanoutAssumption ==
  /\ Key \in [Jobs -> Sources] /\ NoKey \notin Sources
  /\ Methods \in [Jobs -> SUBSET AllMethods]
  /\ Excluded \subseteq Sources
  /\ Directories \subseteq
       [Drafts -> [source : Sources \cup {NoKey}, service : Services,
                   valid : BOOLEAN]]
  /\ Lenient \in BOOLEAN /\ MayFail \subseteq Jobs

VARIABLES
  dir,      \* the mapping directory
  phase,    \* "match", "pool", "summary", "exit"
  service,  \* job -> its service, once matched
  at,       \* job -> next step of convertOneService
  todo,     \* job -> methods still to convert
  view,     \* job -> the controller file as it last read it
  ledger,   \* job -> its ledger in memory
  recorded,    \* service -> methods its ledger file records
  models,   \* services whose models file exists
  merged,   \* service -> <<method, writer>> in its controller file
  folder,   \* method -> whose exchange its audit file holds
  results,   \* the indexed results slice
  exit      \* the job whose error the command returned

run == <<dir, phase, service, at, todo, view, ledger, recorded, models, merged,
         folder, results, exit>>
fanout == <<pool, run>>
disk == <<recorded, models, merged, folder>>

FanoutInit ==
  /\ PoolInit
  /\ dir \in Directories
  /\ phase = "match"
  /\ service = [j \in Jobs |-> NoKey]
  /\ at = [j \in Jobs |-> "load"]
  /\ todo = Methods
  /\ view = [j \in Jobs |-> {}]
  /\ ledger = [j \in Jobs |-> {}]
  /\ recorded = [s \in Services |-> {}]
  /\ models = {}
  /\ merged = [s \in Services |-> {}]
  /\ folder = [n \in AllMethods |-> Nobody]
  /\ results = [j \in Jobs |-> "none"]
  /\ exit = Nobody
-----------------------------------------------------------------------------
(* loadMappingDir and matchMappings.                                       *)

Tagged == {f \in Drafts : dir[f].source # NoKey}
Declaring(k) == {f \in Tagged : dir[f].source = k}

\* Strict: every yaml loads and names its source.  Lenient: only the source
\* field is read, and files without one are skipped.
DirectoryLoads ==
  /\ \A f, g \in Tagged : dir[f].source = dir[g].source => f = g
  /\ ~ Lenient => \A f \in Drafts : f \in Tagged /\ dir[f].valid

Used == UNION {Declaring(Key[j]) : j \in Jobs}
Orphans == {f \in Tagged \ Used : dir[f].source \notin Excluded}

\* Every entry has its mapping, which loads; in strict mode no mapping is
\* left over but for sources the file filter excluded.
Matches ==
  /\ \A j \in Jobs : \E f \in Declaring(Key[j]) : dir[f].valid
  /\ ~ Lenient => Orphans = {}

MatchMappings ==
  /\ phase = "match"
  /\ IF DirectoryLoads /\ Matches
     THEN /\ phase' = "pool"
          /\ service' = [j \in Jobs |->
                          dir[CHOOSE f \in Declaring(Key[j]) : TRUE].service]
     ELSE phase' = "exit" /\ UNCHANGED service
  /\ UNCHANGED <<pool, dir, at, todo, view, ledger, disk, results, exit>>
-----------------------------------------------------------------------------
(* convertOneService, the body of the worker.                              *)

At(j, step) == phase = "pool" /\ job[j] = "running" /\ at[j] = step

Goto(j, step) == at' = [at EXCEPT ![j] = step]

\* The ledger is loaded and the staged-collision guard consulted; the models
\* file is the first thing written.
LoadLedger(j) ==
  /\ At(j, "load")
  /\ LET s == service[j] IN
       IF recorded[s] = {} /\ s \in models
       THEN /\ results' = [results EXCEPT ![j] = "error"]
            /\ Goto(j, "over")
            /\ UNCHANGED <<ledger, models>>
       ELSE /\ ledger' = [ledger EXCEPT ![j] = recorded[s]]
            /\ models' = models \cup {s}
            /\ Goto(j, "read")
            /\ UNCHANGED results
  /\ UNCHANGED <<pool, dir, phase, service, todo, view, recorded, merged, folder, exit>>

\* A source that does not read, a plan that does not build, a stage that
\* returns an error: the worker's ledger is not recorded.
JobFails(j) ==
  /\ phase = "pool" /\ job[j] = "running" /\ at[j] # "over"
  /\ j \in MayFail
  /\ results' = [results EXCEPT ![j] = "error"]
  /\ Goto(j, "over")
  /\ UNCHANGED <<pool, dir, phase, service, todo, view, ledger, disk, exit>>

\* The seam ran and archived its exchange under a name of kind and method
\* (the recorder's mutex makes the write one step; os.Create truncates what
\* was there); then the controller file is read.
ReadFile(j) ==
  /\ At(j, "read")
  /\ todo[j] # {}
  /\ view' = [view EXCEPT ![j] = merged[service[j]]]
  /\ \E n \in todo[j] :
       /\ \A m \in todo[j] : n <= m
       /\ folder' = [folder EXCEPT ![n] = j]
  /\ Goto(j, "write")
  /\ UNCHANGED <<pool, dir, phase, service, todo, ledger, recorded, models, merged,
                 results, exit>>

\* The merged text is written back; a method that is already live is kept.
WriteFile(j) ==
  /\ At(j, "write")
  /\ \E n \in todo[j] :
       /\ \A m \in todo[j] : n <= m
       /\ merged' = IF \E p \in view[j] : p[1] = n THEN merged
                    ELSE [merged EXCEPT ![service[j]] = view[j] \cup {<<n, j>>}]
       /\ ledger' = [ledger EXCEPT ![j] = @ \cup {n}]
       /\ todo' = [todo EXCEPT ![j] = @ \ {n}]
  /\ Goto(j, "read")
  /\ UNCHANGED <<pool, dir, phase, service, view, recorded, models, folder, results, exit>>

\* Ledger.Save, and the outcome goes into the results slice.
SaveLedger(j) ==
  /\ At(j, "read")
  /\ todo[j] = {}
  /\ recorded' = [recorded EXCEPT ![service[j]] = ledger[j]]
  /\ results' = [results EXCEPT ![j] = "ok"]
  /\ Goto(j, "over")
  /\ UNCHANGED <<pool, dir, phase, service, todo, view, ledger, models, merged,
                 folder, exit>>

Work(j) == LoadLedger(j) \/ ReadFile(j) \/ WriteFile(j) \/ SaveLedger(j)
-----------------------------------------------------------------------------
(* The pool around it, and the ordered summary.                            *)

PoolStep ==
  /\ phase = "pool"
  /\ \/ Caller
     \/ \E j \in Jobs : Around(j)
     \/ \E j \in Jobs : End(j) /\ at[j] = "over"
  /\ UNCHANGED run

\* Mutant: the results are summarised while workers still run.
PoolReturnsEarly ==
  /\ phase = "pool" /\ loop \in {"wait", "returned"}
  /\ phase' = "summary"
  /\ UNCHANGED <<pool, dir, service, at, todo, view, ledger, disk, results, exit>>

PoolReturns ==
  /\ phase = "pool" /\ loop = "returned"
  /\ phase' = "summary"
  /\ UNCHANGED <<pool, dir, service, at, todo, view, ledger, disk, results, exit>>

Failed == {j \in Jobs : results[j] = "error"}

\* The first per-service error in input order is the command's error.
Summarise ==
  /\ phase = "summary"
  /\ exit' = IF Failed = {} THEN Nobody
             ELSE CHOOSE j \in Failed : \A k \in Failed : j <= k
  /\ phase' = "exit"
  /\ UNCHANGED <<pool, dir, service, at, todo, view, ledger, disk, results>>

FanoutNext ==
  \/ MatchMappings
  \/ PoolStep
  \/ \E j \in Jobs : Work(j) \/ JobFails(j)
  \/ PoolReturns
  \/ Summarise

FanoutSpec == FanoutInit /\ [][FanoutNext]_fanout

FairFanout == FanoutSpec /\ WF_fanout(FanoutNext)
-----------------------------------------------------------------------------
(* Properties.                                                             *)

FanoutTypeOK ==
  /\ PoolTypeOK
  /\ dir \in Directories
  /\ phase \in {"match", "pool", "summary", "exit"}
  /\ service \in [Jobs -> Services \cup {NoKey}]
  /\ at \in [Jobs -> {"load", "read", "write", "over"}]
  /\ todo \in [Jobs -> SUBSET AllMethods] /\ ledger \in [Jobs -> SUBSET AllMethods]
  /\ view \in [Jobs -> SUBSET (AllMethods \X Jobs)]
  /\ recorded \in [Services -> SUBSET AllMethods] /\ models \subseteq Services
  /\ merged \in [Services -> SUBSET (AllMethods \X Jobs)]
  /\ folder \in [AllMethods -> Jobs \cup {Nobody}]
  /\ results \in [Jobs -> {"none", "ok", "error"}]
  /\ exit \in Jobs \cup {Nobody}

Converted == phase \in {"summary", "exit"} /\ loop \in {"wait", "returned"}

\* No two entries were matched to one service.  Nothing in the code asks for
\* it: the mapping directory is keyed by source, not by service.
Apart == \A i, j \in Jobs : service[i] = service[j] => i = j

\* "Every service writes into its own output subtree": where the services are
\* apart, each that converted ends with exactly its methods in its file, all by
\* its own worker, and its ledger records exactly those, whatever the schedule.
OwnSubtree ==
  Converted /\ Apart =>
    \A j \in Jobs : results[j] = "ok" =>
      /\ merged[service[j]] = Methods[j] \X {j}
      /\ recorded[service[j]] = Methods[j]

\* The summary reads a complete results slice, and the exit status does not
\* depend on the schedule: no failure is reported iff none happened, and the
\* reported one is the first of them in input order.
SummaryIsComplete ==
  Converted =>
    /\ \A j \in Jobs : results[j] # "none"
    /\ phase = "exit" =>
         /\ exit = Nobody <=> Failed = {}
         /\ Failed # {} => exit \in Failed /\ \A j \in Failed : exit <= j

\* What the command reports is what its workers did, and what they did is on
\* disk.
ReportedAsDone == OwnSubtree /\ SummaryIsComplete

\* The command ends.
FanoutEnds == <>(phase = "exit")
=============================================================================
