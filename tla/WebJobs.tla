------------------------------- MODULE WebJobs ------------------------------
(***************************************************************************)
(* The job store of the web front end (web/lib/jobs.ts) and the route      *)
(* handlers that share it.  A job is a JavaScript object: every bundle has *)
(* its own Map of them and rehydrates one from job.json on a miss; a       *)
(* handler holds the object it was given across its awaits.  Between two   *)
(* awaits a handler runs alone.                                            *)
(*                                                                         *)
(* One job, seen by several requests, from the moment the upload answered  *)
(* with its id.  A job that is gone (404) or whose body is malformed is    *)
(* answered without a change, and is left out.                             *)
(***************************************************************************)
EXTENDS Naturals, TLC

CONSTANTS
  Bundles,     \* module instances of lib/jobs
  Home,        \* the bundle each route was compiled into
  Requests,    \* concurrent requests
  Routes,      \* the routes in use
  MaxObjects,  \* bound on the objects ever rehydrated
  MaxLogs,     \* bound on the runtime logs ever attached
  Reloads      \* may a bundle drop its module state?

AtOnce == {"analyze", "scenarios"}      \* marked before any await
AfterBody == {"discover", "preview", "convert", "check", "generate"}
OnLog == {"attach", "detach"}           \* POST and DELETE of gentest/log
OnTree == {"check", "generate"}         \* the two modes of gentest
WithMetric == {"scenarios", "discover", "convert", "generate"}

ASSUME WebAssumption ==
  /\ Routes \subseteq AtOnce \cup AfterBody \cup OnLog
  /\ Home \in [Routes -> Bundles]
  /\ MaxObjects \in Nat \ {0} /\ MaxLogs \in Nat /\ Reloads \in BOOLEAN

Objects == 1 .. MaxObjects
Absent == 0                             \* no object, no log

VARIABLES
  heap,     \* the job objects
  used,     \* how many were created
  cache,    \* each bundle's Map
  disk,     \* job.json
  logfile,  \* gentest/runtime.log: its version
  logs,     \* versions uploaded
  req,      \* the requests under way
  behind,   \* bundles whose Map holds another object than the one stored last
  crossed   \* two handlers met in a way the store does not order

history == <<behind, crossed>>
vars == <<heap, used, cache, disk, logfile, logs, req, history>>

Job == [status : {"running", "done", "error"},
        converted : {"none", "go", "other"},
        log : 0 .. MaxLogs,             \* gentestLog
        preflight : 0 .. MaxLogs,       \* gentestPreflight: the log it was read from
        summary : 0 .. MaxLogs]         \* gentestSummary, likewise

Idle == [pc |-> "idle", route |-> "analyze", job |-> Absent, log |-> Absent,
         withLog |-> FALSE]

\* Every job, cached, stored or held by a handler, is a job of the store, and
\* none has the status "ready": JobStatus declares it and no page handles it.
TypeOK ==
  /\ heap \in [Objects -> Job]
  /\ used \in Objects
  /\ cache \in [Bundles -> Objects \cup {Absent}]
  /\ disk \in Job
  /\ logfile \in 0 .. MaxLogs /\ logs \in 0 .. MaxLogs
  /\ req \in [Requests ->
       [pc : {"idle", "body", "run", "metric", "upload", "stored"},
        route : Routes \cup {"analyze"}, job : Objects \cup {Absent},
        log : 0 .. MaxLogs, withLog : BOOLEAN]]
  /\ behind \subseteq Bundles /\ crossed \in BOOLEAN

Uploaded == [status |-> "done", converted |-> "none", log |-> Absent,
             preflight |-> Absent, summary |-> Absent]

Init ==
  /\ heap = [o \in Objects |-> Uploaded]
  /\ used = 1
  /\ \E b \in Bundles : cache = [c \in Bundles |-> IF c = b THEN 1 ELSE Absent]
  /\ disk = Uploaded
  /\ logfile = Absent /\ logs = 0
  /\ req = [r \in Requests |-> Idle]
  /\ behind = {} /\ crossed = FALSE
-----------------------------------------------------------------------------
\* getJob: the cached object, else one parsed from the snapshot.
Hit(b) == cache[b] # Absent
Handle(b) == IF Hit(b) THEN cache[b] ELSE used + 1
Read(b) == IF Hit(b) THEN heap[cache[b]] ELSE disk

\* The Map and the count of objects after a getJob.
Cached(b) ==
  /\ Handle(b) \in Objects
  /\ cache' = [cache EXCEPT ![b] = Handle(b)]
  /\ used' = IF Hit(b) THEN used ELSE used + 1

At(r, pc) == req[r].pc = pc
Own(r) == heap[req[r].job]
Answer(r) == req' = [req EXCEPT ![r] = Idle]
Quiet == \A r \in Requests : At(r, "idle")

\* What the properties need to know of a write of object o: who is left with
\* another object of the job, in a Map or in a handler's hands; and whether the
\* object is one that was left behind itself.
Stores(o, overtaken) ==
  /\ behind' = {b \in Bundles : cache'[b] \notin {Absent, o}}
  /\ crossed' = (crossed \/ overtaken
                  \/ \E s \in Requests : ~ At(s, "idle") /\ req[s].job # o)

\* setJob: the handler's object and its snapshot.  The Map of its bundle holds
\* the object already (after a reload the handler still writes to the old Map).
SetJob(r, job) ==
  /\ heap' = [heap EXCEPT ![req[r].job] = job]
  /\ disk' = job
  /\ UNCHANGED <<used, cache>>
  /\ Stores(req[r].job, FALSE)

\* The busy check, and gentest's "convert a Go tree first".
Free(b, route) ==
  /\ Read(b).status # "running"
  /\ route \in OnTree => Read(b).converted = "go"

\* analyze and scenarios mark the job in the stretch that checked it.
StartAtOnce(r, route) ==
  /\ At(r, "idle") /\ route \in AtOnce
  /\ LET b == Home[route]
         job == [Read(b) EXCEPT !.status = "running"] IN
       /\ Free(b, route)
       /\ Cached(b)
       /\ heap' = [heap EXCEPT ![Handle(b)] = job]
       /\ disk' = job
       /\ Stores(Handle(b), b \in behind)
       /\ req' = [req EXCEPT ![r] = [Idle EXCEPT
                    !.pc = "run", !.route = route, !.job = Handle(b)]]
  /\ UNCHANGED <<logfile, logs>>

\* The others wait for the request's body first; an upload carries a new log.
Admit(r, route) ==
  /\ At(r, "idle") /\ route \notin AtOnce
  /\ LET b == Home[route]
         version == IF route = "attach" THEN logs + 1 ELSE Absent IN
       /\ Free(b, route)
       /\ Cached(b)
       /\ heap' = [heap EXCEPT ![Handle(b)] = Read(b)]
       /\ version <= MaxLogs
       /\ logs' = IF route = "attach" THEN version ELSE logs
       /\ req' = [req EXCEPT ![r] = [Idle EXCEPT
                    !.pc = IF route \in OnLog THEN "upload" ELSE "body",
                    !.route = route, !.job = Handle(b), !.log = version]]
       /\ crossed' = (crossed \/ b \in behind)
  /\ UNCHANGED <<disk, logfile, behind>>

\* The body has arrived: the job is marked and the CLI spawned.  A convert
\* drops the tree; gentest reads job.converted.root again, and throws if a
\* convert has dropped it meanwhile.  The log rides along if one is attached,
\* unless the caller opts out.
StartAfterBody(r) ==
  /\ At(r, "body")
  /\ LET route == req[r].route
         lost == route \in OnTree /\ Own(r).converted = "none" IN
       /\ SetJob(r, [Own(r) EXCEPT
            !.status = IF lost THEN "error" ELSE "running",
            !.converted = IF route = "convert" THEN "none" ELSE @])
       /\ \E with \in {FALSE} \cup (IF route \in OnTree THEN {Own(r).log # Absent} ELSE {}) :
            req' = [req EXCEPT ![r] =
                      IF lost THEN Idle ELSE [@ EXCEPT !.pc = "run", !.withLog = with]]
  /\ UNCHANGED <<logfile, logs>>

\* gentest's CLI reads the log's file at some time while it runs.
ReadLog(r) ==
  /\ At(r, "run") /\ req[r].withLog
  /\ req' = [req EXCEPT ![r].log = logfile]
  /\ UNCHANGED <<heap, used, cache, disk, logfile, logs, history>>

\* makeLogger re-persists at most every two seconds.
LogTick(r) ==
  /\ At(r, "run")
  /\ disk # Own(r)
  /\ SetJob(r, Own(r))
  /\ UNCHANGED <<logfile, logs, req>>

\* Mutant: the error is answered without being stored.
FailUnstored(r) ==
  /\ At(r, "run")
  /\ Answer(r)
  /\ UNCHANGED <<heap, used, cache, disk, logfile, logs, history>>

\* The CLI failed (or its five minutes are over): the catch branch.
Fail(r) ==
  /\ At(r, "run")
  /\ SetJob(r, [Own(r) EXCEPT !.status = "error"])
  /\ Answer(r)
  /\ UNCHANGED <<logfile, logs>>

\* analyze, a preview, a preflight and a convert that stopped at its drafts
\* store the outcome in the stretch that read it.
Finish(r) ==
  /\ At(r, "run") /\ req[r].route \in {"analyze", "preview", "check", "convert"}
  /\ SetJob(r, [Own(r) EXCEPT
       !.status = "done",
       !.preflight = IF req[r].route = "check" THEN req[r].log ELSE @])
  /\ Answer(r)
  /\ UNCHANGED <<logfile, logs>>

\* The others write the metrics file before the last setJob: all but gentest
\* have marked the object done by then.
FinishThenMetric(r) ==
  /\ At(r, "run") /\ req[r].route \in WithMetric
  /\ LET route == req[r].route IN
     \E tree \in IF route = "convert" THEN {"go", "other"} ELSE {Own(r).converted} :
       heap' = [heap EXCEPT ![req[r].job] = [Own(r) EXCEPT
         !.status = IF route = "generate" THEN @ ELSE "done",
         !.converted = tree,
         !.summary = IF route = "generate" THEN req[r].log ELSE @]]
  /\ req' = [req EXCEPT ![r].pc = "metric"]
  /\ UNCHANGED <<used, cache, disk, logfile, logs, history>>

\* Mutant: the answer is sent without the last setJob.
StoreForgotten(r) ==
  /\ At(r, "metric")
  /\ Answer(r)
  /\ UNCHANGED <<heap, used, cache, disk, logfile, logs, history>>

StoreAfterMetric(r) ==
  /\ At(r, "metric")
  /\ SetJob(r, [Own(r) EXCEPT
       !.status = IF req[r].route = "generate" THEN "done" ELSE @])
  /\ Answer(r)
  /\ UNCHANGED <<logfile, logs>>

\* The uploaded log is written over the old one, or the file removed.
StoreLog(r) ==
  /\ At(r, "upload")
  /\ logfile' = req[r].log
  /\ req' = [req EXCEPT ![r].pc = "stored"]
  /\ crossed' = (crossed \/ \E s \in Requests :
                    At(s, "stored") \/ (At(s, "run") /\ req[s].log # Absent))
  /\ UNCHANGED <<heap, used, cache, disk, logs, behind>>

\* Mutant: the results read from the old log are kept.
RecordLogOnly(r) ==
  /\ At(r, "stored")
  /\ SetJob(r, [Own(r) EXCEPT !.log = req[r].log])
  /\ Answer(r)
  /\ UNCHANGED <<logfile, logs>>

\* The write has ended: the log is recorded and what was read from the one
\* before is dropped.
RecordLog(r) ==
  /\ At(r, "stored")
  /\ SetJob(r, [Own(r) EXCEPT
       !.log = req[r].log, !.preflight = Absent, !.summary = Absent])
  /\ Answer(r)
  /\ UNCHANGED <<logfile, logs>>

\* A page polls the job through any bundle.
Poll(b) ==
  /\ ~ Hit(b)
  /\ Cached(b)
  /\ heap' = [heap EXCEPT ![Handle(b)] = disk]
  /\ UNCHANGED <<disk, logfile, logs, req, history>>

\* The dev server reloads a bundle; its handlers under way keep their object.
Reload(b) ==
  /\ Reloads
  /\ Hit(b)
  /\ cache' = [cache EXCEPT ![b] = Absent]
  /\ behind' = behind \ {b}
  /\ UNCHANGED <<heap, used, disk, logfile, logs, req, crossed>>
-----------------------------------------------------------------------------
Handler(r) ==
  \/ StartAfterBody(r) \/ ReadLog(r) \/ LogTick(r)
  \/ Fail(r) \/ Finish(r) \/ FinishThenMetric(r) \/ StoreAfterMetric(r)
  \/ StoreLog(r) \/ RecordLog(r)

Next ==
  \/ \E r \in Requests : Handler(r)
  \/ \E r \in Requests, route \in Routes : StartAtOnce(r, route) \/ Admit(r, route)
  \/ \E b \in Bundles : Poll(b) \/ Reload(b)

Spec == Init /\ [][Next]_vars
-----------------------------------------------------------------------------
(* Properties.                                                             *)

Runners == {r \in Requests : At(r, "run")}

\* The snapshot is never left running once every handler has answered, even
\* if the handlers outlived a reload: whoever rehydrates the job would be told
\* "job is busy" for ever.
Settled == Quiet => disk.status # "running"

\* "job is busy": the CLI never runs twice at a time in one job directory.
OneRunner == \A r, s \in Runners : r = s

\* Once the handlers have answered, the snapshot is what they left in memory,
\* whatever the order of their writes and whatever was reloaded meanwhile: a
\* bundle is shown something else only if its Map held an object of its own when
\* another one was stored.  Nothing a request was told is lost with the Maps.
SnapshotIsComplete ==
  Quiet => \A b \in Bundles \ behind : Hit(b) => Read(b) = disk

\* "this Map is only a cache - the tmpdir snapshot is the source of truth"
\* (jobs.ts:5-6): every bundle is shown what is stored.
MapIsACache == Quiet => \A b \in Bundles : Hit(b) => Read(b) = disk

\* What is shown beside a log was read from it.
Kept(j) == {j.preflight, j.summary} \subseteq {Absent, j.log}

\* "A replaced log invalidates the old preflight and generate summary"
\* (gentest/log/route.ts:54), however the requests overlapped.
ReplacedLogInvalidates == Quiet => Kept(disk)

\* The same for the code as it is: it holds in every bundle and across reloads,
\* with uploads, checks and runs under way together, unless a log was written
\* under a run that had read the one before or under another upload, or a
\* handler worked on an object that another one's store had left behind.
PreflightIsCurrent == Quiet /\ ~ crossed => Kept(disk)

-----------------------------------------------------------------------------
\* For TLC: the log routes are compiled into the one bundle, the others into the
\* other, if there are two; and requests may trade places.
First == CHOOSE b \in Bundles : TRUE
AllHomes == [route \in Routes |->
  IF route \in OnLog THEN CHOOSE b \in Bundles : b # First \/ Bundles = {First}
                     ELSE First]
Trades == Permutations(Requests)

\* For TLC: an object that no Map and no handler holds any longer is not told
\* apart from a new one.
Reached == {cache[b] : b \in Bundles} \cup {req[r].job : r \in Requests}
Seen == <<[o \in Objects |-> IF o \in Reached THEN heap[o] ELSE Uploaded],
          used, cache, disk, logfile, logs, req, history>>
=============================================================================
