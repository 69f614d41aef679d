---------------------------- MODULE WebJobsProofs ---------------------------
(***************************************************************************)
(* Theorems about WebJobs for every number of requests, objects and logs,  *)
(* every subset of the routes, every compilation of the routes into        *)
(* bundles and any reloads.                                                *)
(***************************************************************************)
EXTENDS WebJobs, TLAPS

USE WebAssumption

-----------------------------------------------------------------------------
(* What the store's operations return.                                     *)

\* A request under way.
Busy(r) == ~ At(r, "idle")

LEMMA ReadType ==
  ASSUME TypeOK, NEW b \in Bundles
  PROVE  Read(b) \in Job
BY DEF TypeOK, Read, Hit, Absent

\* A job stays one, whatever its status and whatever log its results are of.
LEMMA JobUpdate ==
  ASSUME NEW j \in Job, NEW st \in {"running", "done", "error"},
         NEW cv \in {"none", "go", "other"}, NEW lg \in 0 .. MaxLogs,
         NEW pf \in 0 .. MaxLogs, NEW sm \in 0 .. MaxLogs
  PROVE  /\ [j EXCEPT !.status = st] \in Job
         /\ [j EXCEPT !.status = st, !.converted = cv] \in Job
         /\ [j EXCEPT !.status = st, !.preflight = pf] \in Job
         /\ [j EXCEPT !.status = st, !.converted = cv, !.summary = sm] \in Job
         /\ [j EXCEPT !.log = lg, !.preflight = 0, !.summary = 0] \in Job
<1>1. 0 \in 0 .. MaxLogs
  OBVIOUS
<1> QED
  BY <1>1 DEF Job

\* Objects are numbered as they are created; a Map and a handler refer to
\* created ones only.
Created ==
  /\ \A b \in Bundles : cache[b] <= used
  /\ \A r \in Requests : Busy(r) => req[r].job \in Objects /\ req[r].job <= used

StoreInv == TypeOK /\ Created

LEMMA OwnType ==
  ASSUME StoreInv, NEW r \in Requests, Busy(r)
  PROVE  Own(r) \in Job
BY DEF StoreInv, TypeOK, Created, Own

\* getJob gives the object of the Map, or creates the next one.
LEMMA CachedType ==
  ASSUME StoreInv, NEW b \in Bundles, Cached(b)
  PROVE  /\ Handle(b) \in Objects /\ Handle(b) <= used'
         /\ used' \in Objects /\ used <= used'
         /\ cache' \in [Bundles -> Objects \cup {Absent}]
         /\ \A c \in Bundles : cache'[c] <= used'
BY DEF StoreInv, TypeOK, Created, Cached, Handle, Hit, Absent, Objects

LEMMA SetJobType ==
  ASSUME StoreInv, NEW r \in Requests, Busy(r), NEW j \in Job,
         SetJob(r, j)
  PROVE  /\ heap' \in [Objects -> Job] /\ disk' \in Job
         /\ UNCHANGED <<used, cache>>
BY DEF StoreInv, TypeOK, Created, SetJob

\* What a request is; its fields change one at a time.
Request ==
  [pc : {"idle", "body", "run", "metric", "upload", "stored"},
   route : Routes \cup {"analyze"}, job : Objects \cup {Absent},
   log : 0 .. MaxLogs, withLog : BOOLEAN]

LEMMA RequestUpdate ==
  ASSUME NEW q \in Request, NEW lg \in 0 .. MaxLogs, NEW wl \in BOOLEAN,
         NEW pc \in {"run", "metric", "stored"}
  PROVE  /\ [q EXCEPT !.pc = pc] \in Request
         /\ [q EXCEPT !.pc = pc].job = q.job
         /\ [q EXCEPT !.pc = pc].route = q.route
         /\ [q EXCEPT !.log = lg] \in Request
         /\ [q EXCEPT !.log = lg].job = q.job
         /\ [q EXCEPT !.log = lg].route = q.route
         /\ [q EXCEPT !.pc = pc, !.withLog = wl] \in Request
         /\ [q EXCEPT !.pc = pc, !.withLog = wl].job = q.job
         /\ [q EXCEPT !.pc = pc, !.withLog = wl].route = q.route
BY DEF Request

LEMMA IdleType == Idle \in Request
BY DEF Idle, Request, Absent

\* What a write does to the bundles and the handlers that hold another object.
LEMMA StoresHistory ==
  ASSUME StoreInv, NEW o, NEW overtaken, Stores(o, overtaken)
  PROVE  /\ behind' \subseteq Bundles /\ crossed' \in BOOLEAN
         /\ crossed => crossed'
         /\ \A b \in Bundles \ behind' : cache'[b] \in {Absent, o}
         /\ ~ crossed' => ~ overtaken /\ \A s \in Requests : Busy(s) => req[s].job = o
<1>1. behind' = {b \in Bundles : cache'[b] \notin {Absent, o}}
  BY DEF Stores
<1>2. /\ crossed' \in BOOLEAN /\ (crossed => crossed')
      /\ ~ crossed' => ~ overtaken /\ \A s \in Requests : ~ At(s, "idle") => req[s].job = o
  BY Zenon DEF Stores
<1> QED
  BY <1>1, <1>2, Zenon DEF Busy

\* A handler answers, or goes on with its own job; it creates none, and
\* stores what is a job again.
LEMMA HandlerEffect ==
  ASSUME StoreInv, NEW r \in Requests, Handler(r)
  PROVE  /\ UNCHANGED <<used, cache, logs>>
         /\ Busy(r)
         /\ \A s \in Requests \ {r} : req'[s] = req[s]
         /\ \/ req'[r] = Idle
            \/ /\ req'[r] \in Request /\ req'[r].job = req[r].job
               /\ req'[r].route = req[r].route
         /\ \A o \in Objects \ {req[r].job} : heap'[o] = heap[o]
         /\ heap' \in [Objects -> Job]
         /\ disk' \in Job
         /\ logfile' \in {logfile, req[r].log}
         /\ req' \in [Requests -> Request]
<1> DEFINE j == req[r].job
           Kin == {q \in Request : q.job = j /\ q.route = req[r].route}
           Effect(job, q) ==
             /\ UNCHANGED <<used, cache, logs>>
             /\ heap' = [heap EXCEPT ![j] = job]
             /\ disk' \in {disk, job}
             /\ req' = [req EXCEPT ![r] = q]
             /\ logfile' \in {logfile, req[r].log}
<1>1. Busy(r)
  BY DEF Handler, StartAfterBody, ReadLog, LogTick, Fail, Finish,
         FinishThenMetric, StoreAfterMetric, StoreLog, RecordLog, Busy, At
<1>2. /\ Own(r) \in Job /\ req[r] \in Request /\ j \in Objects
      /\ heap \in [Objects -> Job] /\ disk \in Job
      /\ req \in [Requests -> Request] /\ req[r].log \in 0 .. MaxLogs
      /\ logfile \in 0 .. MaxLogs
  BY <1>1, OwnType DEF StoreInv, TypeOK, Created, Request
<1>3. /\ heap = [heap EXCEPT ![j] = Own(r)]
      /\ Own(r).status \in {"running", "done", "error"}
      /\ Own(r).converted \in {"none", "go", "other"}
      /\ {Own(r).log, Own(r).preflight, Own(r).summary} \subseteq 0 .. MaxLogs
  BY <1>2 DEF Own, Job
<1> SUFFICES \E job \in Job :
               \E q \in {Idle} \cup Kin : Effect(job, q)
  BY <1>1, <1>2, IdleType
<1> HIDE DEF j
<1>4. CASE StartAfterBody(r)
  <2> DEFINE route == req[r].route
             lost == route \in OnTree /\ Own(r).converted = "none"
             st == IF lost THEN "error" ELSE "running"
             cv == IF route = "convert" THEN "none" ELSE Own(r).converted
             job == [Own(r) EXCEPT !.status = st, !.converted = cv]
  <2>1. job \in Job
    BY <1>2, <1>3, JobUpdate
  <2>2. SetJob(r, job) /\ UNCHANGED <<logfile, logs>>
    BY <1>4 DEF StartAfterBody
  <2>3. PICK with \in BOOLEAN :
          req' = [req EXCEPT ![r] = IF lost THEN Idle
                   ELSE [req[r] EXCEPT !.pc = "run", !.withLog = with]]
    BY <1>2, <1>4 DEF StartAfterBody
  <2> DEFINE q == IF lost THEN Idle
                  ELSE [req[r] EXCEPT !.pc = "run", !.withLog = with]
  <2>4. q \in {Idle} \cup Kin
    BY <1>2, RequestUpdate DEF j
  <2>5. Effect(job, q)
    BY <2>2, <2>3 DEF SetJob, j
  <2> QED
    BY <2>1, <2>4, <2>5
<1>5. CASE ReadLog(r)
  BY <1>2, <1>3, <1>5, RequestUpdate DEF ReadLog, j
<1>6. CASE LogTick(r)
  <2>1. req = [req EXCEPT ![r] = req[r]]
    BY <1>2
  <2>2. Effect(Own(r), req[r])
    BY <1>6, <2>1 DEF LogTick, SetJob, j
  <2> QED
    BY <1>2, <2>2 DEF j
<1>7. CASE Fail(r)
  BY <1>2, <1>7, JobUpdate DEF Fail, Answer, SetJob, j
<1>8. CASE Finish(r)
  BY <1>2, <1>3, <1>8, JobUpdate DEF Finish, Answer, SetJob, j
<1>9. CASE FinishThenMetric(r)
  <2> DEFINE route == req[r].route
             st == IF route = "generate" THEN Own(r).status ELSE "done"
             sm == IF route = "generate" THEN req[r].log ELSE Own(r).summary
             q == [req[r] EXCEPT !.pc = "metric"]
  <2>1. PICK tree \in {"go", "other", Own(r).converted} :
          heap' = [heap EXCEPT ![j] =
            [Own(r) EXCEPT !.status = st, !.converted = tree, !.summary = sm]]
    BY <1>9 DEF FinishThenMetric, j
  <2> DEFINE job ==
        [Own(r) EXCEPT !.status = st, !.converted = tree, !.summary = sm]
  <2>2. job \in Job
    <3>1. /\ st \in {"running", "done", "error"}
          /\ tree \in {"go", "other", "none"}
          /\ sm \in 0 .. MaxLogs
      BY <1>2, <1>3
    <3>2. Own(r) \in Job
      BY <1>2
    <3> HIDE DEF st, sm
    <3> QED
      BY <3>1, <3>2, JobUpdate
  <2>3. q \in Kin
    BY <1>2, RequestUpdate DEF j
  <2>4. Effect(job, q)
    BY <1>9, <2>1 DEF FinishThenMetric, j
  <2> QED
    BY <2>2, <2>3, <2>4
<1>10. CASE StoreAfterMetric(r)
  BY <1>2, <1>3, <1>10, JobUpdate DEF StoreAfterMetric, Answer, SetJob, j
<1>11. CASE StoreLog(r)
  BY <1>2, <1>3, <1>11, RequestUpdate DEF StoreLog, j
<1>12. CASE RecordLog(r)
  <2> DEFINE job == [Own(r) EXCEPT !.log = req[r].log, !.preflight = Absent,
                                   !.summary = Absent]
  <2>1. job \in Job
    BY <1>2, <1>3, JobUpdate DEF Absent
  <2>2. Effect(job, Idle)
    BY <1>12 DEF RecordLog, Answer, SetJob, j
  <2> QED
    BY <2>1, <2>2
<1> QED
  BY <1>4, <1>5, <1>6, <1>7, <1>8, <1>9, <1>10, <1>11, <1>12 DEF Handler

\* A handler's writes only add to what has crossed.
LEMMA HandlerHistory ==
  ASSUME StoreInv, NEW r \in Requests, Handler(r)
  PROVE  /\ behind' \subseteq Bundles /\ crossed' \in BOOLEAN
         /\ crossed => crossed'
<1>1. CASE Stores(req[r].job, FALSE)
  BY <1>1, StoresHistory, Zenon
<1>2. CASE UNCHANGED <<behind, crossed>>
  BY <1>2, Zenon DEF StoreInv, TypeOK
<1>3. CASE StoreLog(r)
  <2>1. behind' = behind
    BY <1>3 DEF StoreLog
  <2>2. crossed' \in BOOLEAN /\ (crossed => crossed')
    BY <1>3, Zenon DEF StoreLog
  <2> QED
    BY <2>1, <2>2, Zenon DEF StoreInv, TypeOK
<1>4. \/ Stores(req[r].job, FALSE) \/ UNCHANGED <<behind, crossed>> \/ StoreLog(r)
  BY DEF Handler, StartAfterBody, ReadLog, LogTick, Fail, Finish,
         FinishThenMetric, StoreAfterMetric, RecordLog, SetJob, history
<1> QED
  BY <1>1, <1>2, <1>3, <1>4

-----------------------------------------------------------------------------
(* The next state, by who takes the step.                                  *)

\* A new request marks the job at once, or is given it and waits.
LEMMA ArrivalType ==
  ASSUME StoreInv, NEW r \in Requests, NEW route \in Routes,
         StartAtOnce(r, route) \/ Admit(r, route)
  PROVE  TypeOK' /\ Created'
<1> DEFINE b == Home[route]
           h == Handle(b)
<1>1. /\ b \in Bundles /\ Cached(b)
      /\ Read(b) \in Job
      /\ [Read(b) EXCEPT !.status = "running"] \in Job
  <2>1. b \in Bundles /\ Cached(b)
    BY DEF StartAtOnce, Admit
  <2>2. Read(b) \in Job
    BY <2>1, ReadType DEF StoreInv
  <2> QED
    BY <2>1, <2>2 DEF Job
<1>2. /\ h \in Objects /\ h <= used' /\ used' \in Objects /\ used <= used'
      /\ cache' \in [Bundles -> Objects \cup {Absent}]
      /\ \A c \in Bundles : cache'[c] <= used'
  BY <1>1, CachedType
<1>3. PICK job \in Job :
        /\ heap' = [heap EXCEPT ![h] = job]
        /\ disk' \in {disk, job}
  BY <1>1 DEF StartAtOnce, Admit
<1>4. PICK q \in Request : q.job = h /\ req' = [req EXCEPT ![r] = q]
  <2>1. CASE StartAtOnce(r, route)
    <3> DEFINE q == [Idle EXCEPT !.pc = "run", !.route = route, !.job = h]
    <3>1. 0 \in 0 .. MaxLogs
      OBVIOUS
    <3>2. q \in Request /\ q.job = h
      BY <1>2, <3>1 DEF Idle, Request, Absent
    <3> QED
      BY <2>1, <3>2 DEF StartAtOnce
  <2>2. CASE Admit(r, route)
    <3> DEFINE version == IF route = "attach" THEN logs + 1 ELSE Absent
               pc == IF route \in OnLog THEN "upload" ELSE "body"
               q == [Idle EXCEPT !.pc = pc, !.route = route, !.job = h,
                                 !.log = version]
    <3>1. version \in 0 .. MaxLogs
      BY <2>2 DEF Admit, Absent, StoreInv, TypeOK
    <3>2. q \in Request /\ q.job = h
      BY <1>2, <3>1 DEF Idle, Request, Absent
    <3> QED
      BY <2>2, <3>2 DEF Admit
  <2> QED
    BY <2>1, <2>2
<1>5. logs' \in 0 .. MaxLogs /\ logfile' = logfile
  BY DEF StartAtOnce, Admit, StoreInv, TypeOK, Absent
<1>6. behind' \subseteq Bundles /\ crossed' \in BOOLEAN
  <2>1. CASE StartAtOnce(r, route)
    <3>1. Stores(h, Home[route] \in behind)
      BY <2>1 DEF StartAtOnce
    <3> QED
      BY <3>1, StoresHistory, Zenon
  <2>2. CASE Admit(r, route)
    <3>1. behind' = behind
      BY <2>2 DEF Admit
    <3>2. crossed' \in BOOLEAN
      BY <2>2, Zenon DEF Admit
    <3> QED
      BY <3>1, <3>2, Zenon DEF StoreInv, TypeOK
  <2> QED
    BY <2>1, <2>2
<1>7. TypeOK'
  BY <1>2, <1>3, <1>4, <1>5, <1>6 DEF StoreInv, TypeOK, Request
<1>8. Created'
  <2>1. \A s \in Requests : req'[s] = IF s = r THEN q ELSE req[s]
    BY <1>4 DEF StoreInv, TypeOK
  <2>2. \A s \in Requests : Busy(s)' =>
           req'[s].job \in Objects /\ req'[s].job <= used'
    BY <1>2, <1>4, <2>1 DEF StoreInv, TypeOK, Created, Busy, At, Objects
  <2> QED
    BY <1>2, <2>2 DEF Created
<1> QED
  BY <1>7, <1>8

\* Polls and reloads leave the handlers' objects alone.
LEMMA BundleStepType ==
  ASSUME StoreInv, NEW b \in Bundles, Poll(b) \/ Reload(b)
  PROVE  TypeOK' /\ Created'
<1>1. CASE Poll(b)
  <2>1. /\ Handle(b) \in Objects /\ used' \in Objects /\ used <= used'
        /\ cache' \in [Bundles -> Objects \cup {Absent}]
        /\ \A c \in Bundles : cache'[c] <= used'
    BY <1>1, CachedType DEF Poll
  <2>2. Created'
    BY <1>1, <2>1 DEF Poll, StoreInv, TypeOK, Created, Busy, At, Objects
  <2> QED
    BY <1>1, <2>1, <2>2 DEF Poll, StoreInv, TypeOK, history
<1>2. CASE Reload(b)
  BY <1>2 DEF Reload, StoreInv, TypeOK, Created, Busy, At, Absent, Objects
<1> QED
  BY <1>1, <1>2

\* The store's invariant is inductive.
LEMMA StoreStep == StoreInv /\ [Next]_vars => StoreInv'
<1> SUFFICES ASSUME StoreInv, [Next]_vars PROVE StoreInv'
  OBVIOUS
<1>1. ASSUME NEW r \in Requests, Handler(r) PROVE StoreInv'
  <2>1. TypeOK'
    BY <1>1, HandlerEffect, HandlerHistory DEF StoreInv, TypeOK, Request
  <2>2. Created'
    BY <1>1, HandlerEffect DEF StoreInv, Created, Busy, At, Idle
  <2> QED
    BY <2>1, <2>2 DEF StoreInv
<1>2. ASSUME NEW r \in Requests, NEW route \in Routes,
             StartAtOnce(r, route) \/ Admit(r, route)
      PROVE  StoreInv'
  BY <1>2, ArrivalType DEF StoreInv
<1>3. ASSUME NEW b \in Bundles, Poll(b) \/ Reload(b) PROVE StoreInv'
  BY <1>3, BundleStepType DEF StoreInv
<1>4. CASE UNCHANGED vars
  BY <1>4 DEF vars, history, StoreInv, TypeOK, Created, Busy, At
<1> QED
  BY <1>1, <1>2, <1>3, <1>4 DEF Next

LEMMA StoreInit == Init => StoreInv
<1> SUFFICES ASSUME Init PROVE StoreInv
  OBVIOUS
<1>1. Uploaded \in Job /\ 1 \in Objects
  BY DEF Uploaded, Job, Absent, Objects
<1>2. Created
  BY DEF Init, Created, Busy, At, Idle, Absent
<1>3. cache \in [Bundles -> Objects \cup {Absent}]
  BY <1>1 DEF Init
<1>4. Idle \in [pc : {"idle", "body", "run", "metric", "upload", "stored"},
                route : Routes \cup {"analyze"}, job : Objects \cup {Absent},
                log : 0 .. MaxLogs, withLog : BOOLEAN]
  BY DEF Idle, Absent
<1>5. behind \subseteq Bundles /\ crossed \in BOOLEAN
  BY Zenon DEF Init
<1>6. 0 \in 0 .. MaxLogs
  OBVIOUS
<1> QED
  BY <1>1, <1>2, <1>3, <1>4, <1>5, <1>6 DEF Init, StoreInv, TypeOK, Absent

\* Whatever the handlers do, jobs, Maps and requests keep their types, and
\* nobody holds an object that was not created.
THEOREM StoreCorrect == Spec => []StoreInv
BY StoreInit, StoreStep, PTL DEF Spec

\* Jobs, requests, Maps, snapshot and log keep their types.
THEOREM TypeCorrect == Spec => []TypeOK
<1>1. StoreInv => TypeOK
  BY DEF StoreInv
<1> QED
  BY <1>1, StoreCorrect, PTL

-----------------------------------------------------------------------------
(* The snapshot is never left running.                                     *)

\* A handler that will still give its object another status than "running".
Runner(r) == At(r, "run") \/ (At(r, "metric") /\ req[r].route = "generate")

\* Whoever holds a running object has a runner beside it (or is one), and a
\* running snapshot has a handler that will write it again.  Settled speaks of
\* quiet stores only; a handler's late setJob copies what the object says, so
\* the objects in the handlers' hands have to be told the truth about too.
SettledInv ==
  /\ \A r \in Requests :
       Busy(r) /\ Own(r).status = "running" =>
         \E s \in Requests : Runner(s) /\ req[s].job = req[r].job
  /\ disk.status = "running" =>
       \E s \in Requests : At(s, "run") \/ At(s, "metric")

\* A handler's step goes on running, ends the run, or passes the status on.
LEMMA HandlerStatus ==
  ASSUME StoreInv, NEW r \in Requests, Handler(r)
  PROVE  LET o == req[r].job IN
         \/ Runner(r)' /\ req'[r].job = o
         \/ /\ heap'[o].status # "running"
            /\ At(r, "metric")' \/ disk'.status # "running"
         \/ /\ ~ Runner(r)
            /\ heap'[o].status = heap[o].status
            /\ disk' = heap'[o] \/ (disk' = disk /\ ~ At(r, "metric"))
<1> DEFINE o == req[r].job
<1>1. /\ Busy(r) /\ o \in Objects /\ Own(r) \in Job
      /\ heap \in [Objects -> Job] /\ req \in [Requests -> Request]
  BY HandlerEffect, OwnType DEF StoreInv, TypeOK, Created, Request
<1> USE <1>1 DEF At, Runner
<1>2. CASE StartAfterBody(r)
  <2> DEFINE lost == req[r].route \in OnTree /\ Own(r).converted = "none"
  <2>1. CASE lost
    <3>1. heap'[o].status = "error" /\ disk'.status = "error"
      BY <1>2, <2>1 DEF StartAfterBody, SetJob, Job
    <3> QED
      BY <3>1
  <2>2. CASE ~ lost
    <3>1. PICK with \in BOOLEAN :
            req' = [req EXCEPT ![r] =
                      [req[r] EXCEPT !.pc = "run", !.withLog = with]]
      BY <1>2, <2>2 DEF StartAfterBody
    <3>2. req'[r].pc = "run" /\ req'[r].job = o
      BY <3>1 DEF Request
    <3> QED
      BY <3>2
  <2> QED
    BY <2>1, <2>2
<1>3. CASE ReadLog(r)
  BY <1>3 DEF ReadLog, Request
<1>4. CASE LogTick(r)
  <2>1. req' = req /\ req[r].pc = "run"
    BY <1>4 DEF LogTick
  <2> QED
    BY <2>1
<1>5. CASE Fail(r)
  BY <1>5 DEF Fail, SetJob, Job
<1>6. CASE Finish(r)
  BY <1>6 DEF Finish, SetJob, Job
<1>7. CASE FinishThenMetric(r)
  <2>1. req'[r].pc = "metric" /\ req'[r].route = req[r].route
        /\ req'[r].job = o
    BY <1>7 DEF FinishThenMetric, Request
  <2>2. req[r].route # "generate" => heap'[o].status = "done"
    BY <1>7 DEF FinishThenMetric, Job
  <2> QED
    BY <2>1, <2>2
<1>8. CASE StoreAfterMetric(r)
  <2>1. disk' = heap'[o]
    BY <1>8 DEF StoreAfterMetric, SetJob
  <2>2. heap'[o].status = IF req[r].route = "generate" THEN "done"
                                                     ELSE heap[o].status
    BY <1>8 DEF StoreAfterMetric, SetJob, Job, Own
  <2>3. ~ At(r, "run")
    BY <1>8 DEF StoreAfterMetric
  <2> QED
    BY <2>1, <2>2, <2>3
<1>9. CASE StoreLog(r)
  BY <1>9 DEF StoreLog
<1>10. CASE RecordLog(r)
  <2>1. disk' = heap'[o] /\ heap'[o].status = heap[o].status
    BY <1>10 DEF RecordLog, SetJob, Job, Own
  <2> QED
    BY <1>10, <2>1 DEF RecordLog
<1> QED
  BY <1>2, <1>3, <1>4, <1>5, <1>6, <1>7, <1>8, <1>9, <1>10 DEF Handler

LEMMA SettledHandler ==
  ASSUME StoreInv, SettledInv, NEW r \in Requests, Handler(r)
  PROVE  SettledInv'
<1> DEFINE o == req[r].job
<1>1. /\ Busy(r) /\ o \in Objects
      /\ \A s \in Requests \ {r} : req'[s] = req[s]
      /\ req'[r] = Idle \/ req'[r].job = o
      /\ \A q \in Objects \ {o} : heap'[q] = heap[q]
      /\ \A s \in Requests : Busy(s) => req[s].job \in Objects
  BY HandlerEffect DEF StoreInv, TypeOK, Created
<1>2. \A s \in Requests \ {r} : /\ Runner(s)' <=> Runner(s)
                                /\ Busy(s)' <=> Busy(s)
                                /\ req'[s].job = req[s].job
                                /\ At(s, "run")' <=> At(s, "run")
                                /\ At(s, "metric")' <=> At(s, "metric")
  BY <1>1 DEF Runner, At, Busy
\* Another object's status is unchanged, and so is whoever runs it.
<1>3. ASSUME NEW t \in Requests, Busy(t)', Own(t)'.status = "running",
             req'[t].job # o
      PROVE  \E s \in Requests : Runner(s)' /\ req'[s].job = req'[t].job
  <2>1. t # r /\ req'[t].job = req[t].job /\ Busy(t)
    BY <1>1, <1>2, <1>3 DEF Busy, At, Idle
  <2>2. Own(t).status = "running"
    BY <1>1, <1>3, <2>1 DEF Own
  <2>3. PICK s \in Requests : Runner(s) /\ req[s].job = req[t].job
    BY <2>1, <2>2 DEF SettledInv
  <2>4. s # r
    BY <1>3, <2>1, <2>3
  <2> QED
    BY <1>2, <2>1, <2>3, <2>4
<1>4. CASE Runner(r)' /\ req'[r].job = o
  BY <1>3, <1>4 DEF SettledInv, Runner
<1>5. CASE /\ heap'[o].status # "running"
           /\ At(r, "metric")' \/ disk'.status # "running"
  BY <1>3, <1>5 DEF SettledInv, Own
<1>6. CASE /\ ~ Runner(r)
           /\ heap'[o].status = heap[o].status
           /\ disk' = heap'[o] \/ (disk' = disk /\ ~ At(r, "metric"))
  <2>1. ASSUME heap[o].status = "running"
        PROVE  \E s \in Requests \ {r} : Runner(s) /\ req[s].job = o
    BY <1>1, <1>6, <2>1 DEF SettledInv, Own
  <2>2. ASSUME NEW t \in Requests, Busy(t)', Own(t)'.status = "running"
        PROVE  \E s \in Requests : Runner(s)' /\ req'[s].job = req'[t].job
    <3>1. CASE req'[t].job = o
      BY <1>2, <1>6, <2>1, <2>2, <3>1 DEF Own
    <3> QED
      BY <1>3, <2>2, <3>1
  <2>3. ASSUME disk'.status = "running"
        PROVE  \E s \in Requests : At(s, "run")' \/ At(s, "metric")'
    <3>1. CASE disk' = heap'[o]
      <4>1. heap[o].status = "running"
        BY <1>6, <2>3, <3>1
      <4>2. PICK s \in Requests \ {r} : Runner(s)
        BY <2>1, <4>1
      <4>3. At(s, "run") \/ At(s, "metric")
        BY <4>2 DEF Runner
      <4> QED
        BY <1>2, <4>3
    <3>2. CASE disk' = disk /\ ~ At(r, "metric")
      <4>1. PICK s \in Requests : At(s, "run") \/ At(s, "metric")
        BY <2>3, <3>2 DEF SettledInv
      <4>2. s # r
        BY <1>6, <3>2, <4>1 DEF Runner
      <4> QED
        BY <1>2, <4>1, <4>2
    <3> QED
      BY <1>6, <3>1, <3>2
  <2> QED
    BY <2>2, <2>3 DEF SettledInv
<1> QED
  BY <1>4, <1>5, <1>6, HandlerStatus

\* A request that arrives marks its object and becomes a runner, or is given
\* an object that is not running.
LEMMA SettledArrival ==
  ASSUME StoreInv, SettledInv, NEW r \in Requests, NEW route \in Routes,
         StartAtOnce(r, route) \/ Admit(r, route)
  PROVE  SettledInv'
<1> DEFINE b == Home[route]
           h == Handle(b)
<1>1. /\ ~ Busy(r) /\ b \in Bundles /\ Cached(b) /\ Free(b, route)
      /\ \A s \in Requests \ {r} : req'[s] = req[s]
      /\ req'[r].job = h
  <2>1. ~ Busy(r) /\ b \in Bundles /\ Cached(b) /\ Free(b, route)
    BY DEF StartAtOnce, Admit, Busy
  <2>2. CASE StartAtOnce(r, route)
    BY <2>1, <2>2 DEF StartAtOnce, StoreInv, TypeOK, Idle
  <2>3. CASE Admit(r, route)
    BY <2>1, <2>3 DEF Admit, StoreInv, TypeOK, Idle
  <2> QED
    BY <2>2, <2>3
<1>2. h \in Objects /\ Read(b) \in Job /\ heap \in [Objects -> Job]
  BY <1>1, CachedType, ReadType DEF StoreInv, TypeOK
<1>3. \A s \in Requests \ {r} : /\ Runner(s)' <=> Runner(s)
                                /\ Busy(s)' <=> Busy(s)
                                /\ req'[s].job = req[s].job
                                /\ At(s, "run")' <=> At(s, "run")
                                /\ At(s, "metric")' <=> At(s, "metric")
  BY <1>1 DEF Runner, At, Busy
<1>4. \A s \in Requests : Runner(s) \/ At(s, "run") \/ At(s, "metric") => s # r
  BY <1>1 DEF Runner, At, Busy
<1>5. \A q \in Objects \ {h} : heap'[q] = heap[q]
  BY <1>2 DEF StartAtOnce, Admit
\* The objects other than the new request's are as they were.
<1>6. ASSUME NEW t \in Requests, Busy(t)', Own(t)'.status = "running",
             req'[t].job # h
      PROVE  \E s \in Requests : Runner(s)' /\ req'[s].job = req'[t].job
  <2>1. t # r /\ req'[t].job = req[t].job /\ Busy(t) /\ req[t].job \in Objects
    BY <1>1, <1>3, <1>6 DEF StoreInv, Created
  <2>2. Own(t).status = "running"
    BY <1>5, <1>6, <2>1 DEF Own
  <2>3. PICK s \in Requests : Runner(s) /\ req[s].job = req[t].job
    BY <2>1, <2>2 DEF SettledInv
  <2> QED
    BY <1>3, <1>4, <2>1, <2>3
<1>7. CASE StartAtOnce(r, route)
  <2>1. At(r, "run")'
    BY <1>7 DEF StartAtOnce, StoreInv, TypeOK, Idle, At
  <2> QED
    BY <1>1, <1>6, <2>1 DEF SettledInv, Runner
<1>8. CASE Admit(r, route)
  <2>1. heap'[h].status # "running" /\ disk' = disk
    BY <1>1, <1>2, <1>8 DEF Admit, Free
  <2> QED
    BY <1>3, <1>4, <1>6, <2>1 DEF SettledInv, Own
<1> QED
  BY <1>7, <1>8

\* Polls create objects nobody holds, reloads drop what nobody needs.
LEMMA SettledBundle ==
  ASSUME StoreInv, SettledInv, NEW b \in Bundles, Poll(b) \/ Reload(b)
  PROVE  SettledInv'
<1>1. req' = req /\ disk' = disk
  BY DEF Poll, Reload
<1>2. \A r \in Requests : Busy(r) => heap'[req[r].job] = heap[req[r].job]
  BY DEF Poll, Reload, Handle, Cached, StoreInv, TypeOK, Created, Objects
<1> QED
  BY <1>1, <1>2 DEF SettledInv, Runner, Busy, At, Own

\* The snapshot is never left running once every handler has answered, for
\* any number of overlapping requests, of bundles and of reloads: no job is
\* "busy" for ever.
THEOREM SettledHolds == Spec => []Settled
<1>1. Init => SettledInv
  BY DEF Init, SettledInv, Busy, At, Idle, Uploaded
<1>2. StoreInv /\ SettledInv /\ [Next]_vars => SettledInv'
  <2> SUFFICES ASSUME StoreInv, SettledInv, [Next]_vars PROVE SettledInv'
    OBVIOUS
  <2>1. CASE UNCHANGED vars
    BY <2>1 DEF vars, SettledInv, Runner, Busy, At, Own
  <2> QED
    BY <2>1, SettledHandler, SettledArrival, SettledBundle DEF Next
<1>3. SettledInv => Settled
  BY DEF SettledInv, Settled, Quiet, At
<1> QED
  BY <1>1, <1>2, <1>3, StoreCorrect, PTL DEF Spec

-----------------------------------------------------------------------------
(* Nothing a request was told is lost with the Maps.                       *)

\* A bundle whose Map holds no overtaken object shows the snapshot, unless a
\* handler of that object is writing its metrics and has not stored it yet.
SnapshotInv ==
  \A b \in Bundles \ behind :
    Hit(b) /\ Read(b) # disk =>
      \E r \in Requests : At(r, "metric") /\ req[r].job = cache[b]

\* A handler stores its object, is about to, or has not changed it.
LEMMA HandlerStores ==
  ASSUME StoreInv, NEW r \in Requests, Handler(r)
  PROVE  LET o == req[r].job IN
         \/ disk' = heap'[o] /\ Stores(o, FALSE)
         \/ /\ ~ At(r, "metric") /\ At(r, "metric")' /\ req'[r].job = o
            /\ UNCHANGED <<disk, behind>>
         \/ UNCHANGED <<heap, disk, behind>> /\ ~ At(r, "metric")
<1>1. /\ req[r].job \in Objects /\ heap \in [Objects -> Job]
      /\ req \in [Requests -> Request]
  BY HandlerEffect DEF StoreInv, TypeOK, Created, Request
<1>2. CASE ReadLog(r) \/ StoreLog(r)
  BY <1>2 DEF ReadLog, StoreLog, At, history
<1>3. CASE FinishThenMetric(r)
  BY <1>1, <1>3 DEF FinishThenMetric, At, Request, history
<1>4. CASE StartAfterBody(r) \/ LogTick(r) \/ Fail(r) \/ Finish(r)
           \/ StoreAfterMetric(r) \/ RecordLog(r)
  BY <1>1, <1>4
  DEF StartAfterBody, LogTick, Fail, Finish, StoreAfterMetric, RecordLog, SetJob
<1> QED
  BY <1>2, <1>3, <1>4 DEF Handler

\* Whoever stores an object leaves the bundles that hold it with the snapshot.
LEMMA StoredIsShown ==
  ASSUME StoreInv, NEW o \in Objects, NEW late, Stores(o, late), disk' = heap'[o]
  PROVE  \A b \in Bundles \ behind' : Hit(b)' => Read(b)' = disk'
BY StoresHistory DEF Hit, Read

LEMMA SnapshotHandler ==
  ASSUME StoreInv, SnapshotInv, NEW r \in Requests, Handler(r)
  PROVE  SnapshotInv'
<1> DEFINE o == req[r].job
<1>1. /\ o \in Objects /\ cache' = cache
      /\ \A s \in Requests \ {r} : req'[s] = req[s]
      /\ \A q \in Objects \ {o} : heap'[q] = heap[q]
      /\ cache \in [Bundles -> Objects \cup {Absent}]
  BY HandlerEffect DEF StoreInv, TypeOK, Created
<1>2. CASE disk' = heap'[o] /\ Stores(o, FALSE)
  BY <1>1, <1>2, StoredIsShown DEF SnapshotInv
<1>3. CASE /\ ~ At(r, "metric") /\ At(r, "metric")' /\ req'[r].job = o
           /\ UNCHANGED <<disk, behind>>
  <2> SUFFICES ASSUME NEW b \in Bundles \ behind, Hit(b), Read(b)' # disk
               PROVE  \E s \in Requests : At(s, "metric")' /\ req'[s].job = cache[b]
    BY <1>1, <1>3 DEF SnapshotInv, Hit
  <2>1. CASE cache[b] = o
    BY <1>3, <2>1
  <2>2. CASE cache[b] # o
    <3>1. Read(b) # disk
      BY <1>1, <2>2 DEF Read, Hit, Absent
    <3>2. PICK s \in Requests : At(s, "metric") /\ req[s].job = cache[b]
      BY <3>1 DEF SnapshotInv
    <3> QED
      BY <1>1, <1>3, <3>2 DEF At
  <2> QED
    BY <2>1, <2>2
<1>4. CASE UNCHANGED <<heap, disk, behind>> /\ ~ At(r, "metric")
  <2> SUFFICES ASSUME NEW b \in Bundles \ behind, Hit(b), Read(b) # disk
               PROVE  \E s \in Requests : At(s, "metric")' /\ req'[s].job = cache[b]
    BY <1>1, <1>4 DEF SnapshotInv, Hit, Read
  <2>1. PICK s \in Requests : At(s, "metric") /\ req[s].job = cache[b]
    BY DEF SnapshotInv
  <2> QED
    BY <1>1, <1>4, <2>1 DEF At
<1> QED
  BY <1>2, <1>3, <1>4, HandlerStores

\* An object that getJob parses is the snapshot; the other Maps and objects
\* are as they were.
LEMMA CachedShows ==
  ASSUME StoreInv, NEW b \in Bundles, Cached(b),
         heap' = [heap EXCEPT ![Handle(b)] = Read(b)]
  PROVE  /\ Read(b)' = Read(b)
         /\ \A c \in Bundles \ {b} : Read(c)' = Read(c) \/ disk' # disk
         /\ \A c \in Bundles \ {b} : cache'[c] = cache[c]
         /\ ~ Hit(b) => Read(b) = disk
         /\ Hit(b) => UNCHANGED <<heap, cache>>
         /\ \A q \in Objects : q <= used => heap'[q] = heap[q]
BY CachedType
DEF StoreInv, TypeOK, Created, Cached, Handle, Read, Hit, Absent, Objects

LEMMA SnapshotCached ==
  ASSUME StoreInv, SnapshotInv, NEW b \in Bundles, Cached(b),
         heap' = [heap EXCEPT ![Handle(b)] = Read(b)],
         UNCHANGED <<disk, behind>>,
         \A s \in Requests : At(s, "metric") =>
           At(s, "metric")' /\ req'[s].job = req[s].job
  PROVE  SnapshotInv'
<1> SUFFICES ASSUME NEW c \in Bundles \ behind, Hit(c)', Read(c)' # disk
             PROVE  \E s \in Requests : At(s, "metric")' /\ req'[s].job = cache'[c]
  BY DEF SnapshotInv
<1>1. Read(c) # disk /\ Hit(c) /\ cache'[c] = cache[c]
  BY CachedShows DEF Hit
<1>2. PICK s \in Requests : At(s, "metric") /\ req[s].job = cache[c]
  BY <1>1 DEF SnapshotInv
<1> QED
  BY <1>1, <1>2

\* Once the handlers have answered, every bundle whose Map did not hold another
\* object when one was stored is shown what the handlers left in memory,
\* whatever the order of their writes, for any number of requests, of bundles
\* and of reloads.
THEOREM SnapshotComplete == Spec => []SnapshotIsComplete
<1>1. Init => SnapshotInv
  <2> SUFFICES ASSUME Init, NEW b \in Bundles, Hit(b) PROVE Read(b) = disk
    BY DEF SnapshotInv
  <2> QED
    BY DEF Init, Hit, Read, Objects, Absent
<1>2. StoreInv /\ SnapshotInv /\ [Next]_vars => SnapshotInv'
  <2> SUFFICES ASSUME StoreInv, SnapshotInv, [Next]_vars PROVE SnapshotInv'
    OBVIOUS
  <2>1. ASSUME NEW r \in Requests, Handler(r) PROVE SnapshotInv'
    BY <2>1, SnapshotHandler
  <2>2. ASSUME NEW r \in Requests, NEW route \in Routes, StartAtOnce(r, route)
        PROVE  SnapshotInv'
    <3> DEFINE b == Home[route]
               h == Handle(b)
    <3>1. b \in Bundles /\ Cached(b) /\ Stores(h, b \in behind) /\ disk' = heap'[h]
      BY <2>2, CachedType DEF StartAtOnce, StoreInv, TypeOK
    <3> QED
      BY <3>1, CachedType, StoredIsShown DEF SnapshotInv
  <2>3. ASSUME NEW r \in Requests, NEW route \in Routes, Admit(r, route)
        PROVE  SnapshotInv'
    <3>1. /\ Home[route] \in Bundles /\ Cached(Home[route])
          /\ heap' = [heap EXCEPT ![Handle(Home[route])] = Read(Home[route])]
          /\ UNCHANGED <<disk, behind>>
      BY <2>3 DEF Admit
    <3>2. \A s \in Requests : At(s, "metric") =>
             At(s, "metric")' /\ req'[s].job = req[s].job
      BY <2>3 DEF Admit, At, StoreInv, TypeOK
    <3> QED
      BY <3>1, <3>2, SnapshotCached
  <2>4. ASSUME NEW b \in Bundles, Poll(b) PROVE SnapshotInv'
    <3>1. /\ Cached(b) /\ Read(b) = disk
          /\ heap' = [heap EXCEPT ![Handle(b)] = Read(b)]
          /\ UNCHANGED <<disk, behind, req>>
      BY <2>4 DEF Poll, Read, history
    <3> QED
      BY <3>1, SnapshotCached DEF At
  <2>5. ASSUME NEW b \in Bundles, Reload(b) PROVE SnapshotInv'
    <3> SUFFICES ASSUME NEW c \in Bundles \ behind', Hit(c)', Read(c)' # disk
                 PROVE  \E s \in Requests : At(s, "metric") /\ req[s].job = cache'[c]
      BY <2>5 DEF SnapshotInv, Reload, At
    <3>1. c # b /\ c \notin behind /\ cache'[c] = cache[c]
      BY <2>5 DEF Reload, Hit, StoreInv, TypeOK
    <3>2. Hit(c) /\ Read(c) # disk
      BY <2>5, <3>1 DEF Reload, Hit, Read
    <3> QED
      BY <3>1, <3>2 DEF SnapshotInv
  <2>6. CASE UNCHANGED vars
    BY <2>6 DEF vars, history, SnapshotInv, Hit, Read, At
  <2> QED
    BY <2>1, <2>2, <2>3, <2>4, <2>5, <2>6 DEF Next
<1>3. SnapshotInv => SnapshotIsComplete
  BY DEF SnapshotInv, SnapshotIsComplete, Quiet, At
<1> QED
  BY <1>1, <1>2, <1>3, StoreCorrect, PTL DEF Spec

-----------------------------------------------------------------------------
(* What is shown beside a log was read from it.                            *)

\* The log the snapshot names, and results of that log or of the one on disk.
Good(j) == /\ j.log = disk.log
           /\ {j.preflight, j.summary} \subseteq {Absent, disk.log, logfile}

\* Until something crosses: one upload at most is between its write and its
\* record, and outside that stretch the file on disk is the log the snapshot
\* names.  A run has read no log but the one on disk.  The snapshot, the objects
\* in the Maps that were not overtaken and those in the handlers' hands agree on
\* the log, and what they show was read from it or from the one on disk: the
\* upload that is not yet recorded drops it.
PreflightInv ==
  ~ crossed =>
    /\ \A r, s \in Requests : At(r, "stored") /\ At(s, "stored") => r = s
    /\ \A r \in Requests : At(r, "stored") => logfile = req[r].log
    /\ (\A r \in Requests : ~ At(r, "stored")) => logfile = disk.log
    /\ \A r \in Requests : At(r, "run") => req[r].log \in {Absent, logfile}
    /\ \A r \in Requests : At(r, "body") => req[r].log = Absent
    /\ Good(disk)
    /\ \A b \in Bundles \ behind : Hit(b) => Good(Read(b))
    /\ \A r \in Requests : Busy(r) => Good(Own(r))

\* A handler that writes no log records only what was read from the one there
\* is, and stores its object or leaves the snapshot alone.
LEMMA HandlerLog ==
  ASSUME StoreInv, PreflightInv, ~ crossed, NEW r \in Requests, Handler(r),
         ~ StoreLog(r), ~ RecordLog(r)
  PROVE  LET o == req[r].job IN
         /\ logfile' = logfile
         /\ ~ At(r, "stored") /\ ~ At(r, "stored")' /\ ~ At(r, "body")'
         /\ At(r, "run")' => req'[r].log \in {Absent, logfile}
         /\ Good(heap'[o])
         /\ \/ disk' = heap'[o] /\ Stores(o, FALSE)
            \/ UNCHANGED <<disk, behind>>
<1> DEFINE o == req[r].job
<1>1. /\ Busy(r) /\ o \in Objects /\ Own(r) \in Job
      /\ heap \in [Objects -> Job] /\ req \in [Requests -> Request]
  BY HandlerEffect, OwnType DEF StoreInv, TypeOK, Created, Request
<1>2. /\ Good(Own(r))
      /\ At(r, "run") => req[r].log \in {Absent, logfile}
      /\ At(r, "body") => req[r].log = Absent
  BY <1>1 DEF PreflightInv
<1> USE <1>1, <1>2 DEF Good
<1>3. CASE StartAfterBody(r)
  <2>1. Good(heap'[o]) /\ disk' = heap'[o] /\ Stores(o, FALSE) /\ logfile' = logfile
    BY <1>3 DEF StartAfterBody, SetJob, Job
  <2>2. /\ ~ At(r, "stored")' /\ ~ At(r, "body")'
        /\ At(r, "run")' => req'[r].log = req[r].log
    BY <1>3 DEF StartAfterBody, At, Idle, Request
  <2>3. At(r, "body") /\ ~ At(r, "stored")
    BY <1>3 DEF StartAfterBody, At
  <2> QED
    BY <2>1, <2>2, <2>3
<1>4. CASE ReadLog(r)
  BY <1>4 DEF ReadLog, Own, At, Request, history
<1>5. CASE LogTick(r)
  BY <1>5 DEF LogTick, SetJob, Own, At
<1>6. CASE Fail(r)
  BY <1>6 DEF Fail, SetJob, Answer, Idle, At, Job
<1>7. CASE Finish(r)
  BY <1>7 DEF Finish, SetJob, Answer, Idle, At, Job
<1>8. CASE FinishThenMetric(r)
  BY <1>8 DEF FinishThenMetric, At, Job, Request, history
<1>9. CASE StoreAfterMetric(r)
  BY <1>9 DEF StoreAfterMetric, SetJob, Answer, Idle, At, Job
<1> QED
  BY <1>3, <1>4, <1>5, <1>6, <1>7, <1>8, <1>9 DEF Handler

LEMMA PreflightHandler ==
  ASSUME StoreInv, PreflightInv, ~ crossed, ~ crossed',
         NEW r \in Requests, Handler(r)
  PROVE  PreflightInv'
<1> DEFINE o == req[r].job
<1>1. /\ Busy(r) /\ o \in Objects /\ UNCHANGED cache
      /\ \A s \in Requests \ {r} : req'[s] = req[s]
      /\ req'[r] = Idle \/ req'[r].job = o
      /\ \A q \in Objects \ {o} : heap'[q] = heap[q]
      /\ cache \in [Bundles -> Objects \cup {Absent}]
      /\ \A s \in Requests : Busy(s) => req[s].job \in Objects
  BY HandlerEffect DEF StoreInv, TypeOK, Created
\* A write leaves its object in every handler's hands and every Map that counts.
<1>2. ASSUME Stores(o, FALSE)
      PROVE  /\ \A s \in Requests : Busy(s)' => req'[s].job = o
             /\ \A b \in Bundles \ behind' : Hit(b)' => cache'[b] = o
  <2>1. /\ ~ crossed' => \A s \in Requests : Busy(s) => req[s].job = o
        /\ \A b \in Bundles \ behind' : cache'[b] \in {Absent, o}
    BY <1>2, StoresHistory, Zenon
  <2>2. \A s \in Requests : Busy(s)' => req'[s].job = o
    BY <1>1, <2>1 DEF Busy, At, Idle
  <2> QED
    BY <2>1, <2>2 DEF Hit
<1>3. CASE StoreLog(r)
  <2>1. /\ UNCHANGED <<heap, cache, disk, behind>>
        /\ logfile' = req[r].log /\ req' = [req EXCEPT ![r].pc = "stored"]
        /\ At(r, "upload")
    BY <1>3 DEF StoreLog
  <2>2. \A s \in Requests : /\ ~ At(s, "stored")
                            /\ At(s, "run") => req[s].log = Absent
    BY <1>3, Zenon DEF StoreLog
  <2>3. logfile = disk.log
    BY <2>2 DEF PreflightInv
  <2>4. req \in [Requests -> Request]
    BY DEF StoreInv, TypeOK, Request
  <2>5. /\ At(r, "stored")' /\ req'[r].log = req[r].log /\ Busy(r)
        /\ req'[r].job = o
    BY <2>1, <2>4 DEF At, Request, Busy
  <2>6. \A j \in Job : Good(j) => Good(j)'
    BY <2>1, <2>3 DEF Good
  <2>7. disk \in Job /\ (\A b \in Bundles : Read(b) \in Job)
        /\ \A s \in Requests : Busy(s) => Own(s) \in Job
    BY ReadType, OwnType DEF StoreInv, TypeOK
  <2>8. /\ \A b \in Bundles : Hit(b)' = Hit(b) /\ Read(b)' = Read(b)
        /\ \A s \in Requests : Busy(s)' => Busy(s) /\ Own(s)' = Own(s)
    BY <1>1, <2>1, <2>5 DEF Hit, Read, Busy, Own, At
  <2>9. /\ Good(disk)' /\ (\A b \in Bundles \ behind : Hit(b) => Good(Read(b))')
        /\ \A s \in Requests : Busy(s)' => Good(Own(s))'
    <3>1. Good(disk) /\ (\A b \in Bundles \ behind : Hit(b) => Good(Read(b)))
          /\ \A s \in Requests : Busy(s) => Good(Own(s))
      BY DEF PreflightInv
    <3> QED
      BY <2>1, <2>3, <2>8, <3>1 DEF Good
  <2> QED
    BY <1>1, <2>1, <2>2, <2>5, <2>8, <2>9 DEF PreflightInv, At
<1>4. CASE RecordLog(r)
  <2> DEFINE job == [Own(r) EXCEPT
                       !.log = req[r].log, !.preflight = Absent, !.summary = Absent]
  <2>1. /\ At(r, "stored") /\ SetJob(r, job)
        /\ logfile' = logfile /\ req' = [req EXCEPT ![r] = Idle]
    BY <1>4 DEF RecordLog, Answer
  <2>2. heap \in [Objects -> Job] /\ req \in [Requests -> Request] /\ Own(r) \in Job
    BY <1>1 DEF StoreInv, TypeOK, Request, Own
  <2>3. /\ Stores(o, FALSE) /\ disk' = heap'[o] /\ heap'[o] = job
        /\ logfile' = logfile /\ req'[r] = Idle /\ logfile = req[r].log
    BY <1>1, <2>1, <2>2 DEF SetJob, PreflightInv
  <2>4. job.log = req[r].log /\ job.preflight = Absent /\ job.summary = Absent
    BY <2>2 DEF Job
  <2>5. /\ heap'[o].log = disk'.log /\ heap'[o].log = logfile'
        /\ heap'[o].preflight = Absent /\ heap'[o].summary = Absent
    BY <2>3, <2>4
  <2>6. \A s \in Requests : ~ At(s, "stored")'
    BY <1>1, <2>1, <2>3 DEF PreflightInv, At, Idle
  <2>7. /\ logfile' = disk'.log /\ Good(disk)'
        /\ \A b \in Bundles \ behind' : Hit(b)' => Good(Read(b))'
        /\ \A s \in Requests : Busy(s)' => Good(Own(s))'
    BY <1>2, <2>3, <2>5 DEF Hit, Read, Own, Good
  <2>8. \A s \in Requests : /\ At(s, "run")' => req'[s].log \in {Absent, logfile'}
                            /\ At(s, "body")' => req'[s].log = Absent
    BY <1>1, <2>3 DEF PreflightInv, At, Idle
  <2> QED
    BY <2>6, <2>7, <2>8 DEF PreflightInv
<1>5. CASE ~ StoreLog(r) /\ ~ RecordLog(r)
  <2>1. /\ logfile' = logfile
        /\ ~ At(r, "stored") /\ ~ At(r, "stored")' /\ ~ At(r, "body")'
        /\ At(r, "run")' => req'[r].log \in {Absent, logfile}
        /\ Good(heap'[o])
        /\ \/ disk' = heap'[o] /\ Stores(o, FALSE)
           \/ UNCHANGED <<disk, behind>>
    BY <1>5, HandlerLog
  <2>2. disk'.log = disk.log /\ Good(disk')
    BY <2>1 DEF PreflightInv, Good
  <2>3. \A j : Good(j) => Good(j)'
    BY <2>1, <2>2 DEF Good
  <2>4. \A b \in Bundles \ behind' : Hit(b)' => Good(Read(b)')
    <3>1. CASE Stores(o, FALSE)
      BY <1>2, <2>1, <3>1 DEF Hit, Read
    <3>2. CASE UNCHANGED <<disk, behind>>
      <4> SUFFICES ASSUME NEW b \in Bundles \ behind, Hit(b)
                   PROVE  Good(Read(b)')
        BY <1>1, <3>2 DEF Hit
      <4>1. CASE cache[b] = o
        BY <1>1, <2>1, <4>1 DEF Read, Hit
      <4>2. CASE cache[b] # o
        BY <1>1, <4>2 DEF Read, Hit, PreflightInv
      <4> QED
        BY <4>1, <4>2
    <3> QED
      BY <2>1, <3>1, <3>2
  <2>5. \A s \in Requests : Busy(s)' => Good(Own(s)')
    <3> SUFFICES ASSUME NEW s \in Requests, Busy(s)' PROVE Good(Own(s)')
      OBVIOUS
    <3>1. CASE s = r
      BY <1>1, <2>1, <3>1 DEF Own, Busy, At, Idle
    <3>2. CASE s # r
      <4>1. Busy(s) /\ req'[s].job = req[s].job /\ Good(Own(s))
        BY <1>1, <3>2 DEF Busy, At, PreflightInv
      <4> QED
        BY <1>1, <2>1, <4>1 DEF Own
    <3> QED
      BY <3>1, <3>2
  <2>6. Good(disk)'
    BY <2>2, <2>3
  <2>7. \A b \in Bundles \ behind' : Hit(b)' => Good(Read(b))'
    BY <2>1, <2>2, <2>4 DEF Good
  <2>8. \A s \in Requests : Busy(s)' => Good(Own(s))'
    BY <2>1, <2>2, <2>5 DEF Good
  <2>9. /\ \A s, t \in Requests : At(s, "stored")' /\ At(t, "stored")' => s = t
        /\ \A s \in Requests : At(s, "stored")' => logfile' = req'[s].log
        /\ (\A s \in Requests : ~ At(s, "stored")') => logfile' = disk'.log
    BY <1>1, <2>1, <2>2 DEF PreflightInv, At
  <2>10. \A s \in Requests : /\ At(s, "run")' => req'[s].log \in {Absent, logfile'}
                             /\ At(s, "body")' => req'[s].log = Absent
    BY <1>1, <2>1 DEF PreflightInv, At
  <2> QED
    BY <2>6, <2>7, <2>8, <2>9, <2>10 DEF PreflightInv
<1> QED
  BY <1>3, <1>4, <1>5

\* A new request is given an object that agrees with the snapshot.
LEMMA PreflightArrival ==
  ASSUME StoreInv, PreflightInv, ~ crossed, ~ crossed',
         NEW r \in Requests, NEW route \in Routes,
         StartAtOnce(r, route) \/ Admit(r, route), Home[route] \notin behind
  PROVE  PreflightInv'
<1> DEFINE b == Home[route]
           h == Handle(b)
<1>1. /\ b \in Bundles /\ Cached(b) /\ logfile' = logfile
      /\ heap \in [Objects -> Job] /\ Read(b) \in Job
      /\ cache \in [Bundles -> Objects \cup {Absent}]
      /\ h \in Objects /\ cache'[b] = h
      /\ ~ Busy(r) /\ \A s \in Requests \ {r} : req'[s] = req[s]
      /\ \A s \in Requests : Busy(s) => req[s].job \in Objects /\ req[s].job <= used
  <2>1. b \in Bundles /\ Cached(b) /\ logfile' = logfile /\ ~ Busy(r)
    BY DEF StartAtOnce, Admit, Busy
  <2>2. \A s \in Requests \ {r} : req'[s] = req[s]
    BY DEF StartAtOnce, Admit, StoreInv, TypeOK
  <2> QED
    BY <2>1, <2>2, ReadType DEF Cached, StoreInv, TypeOK, Created
<1>2. Good(Read(b)) /\ Good(disk)
  BY <1>1 DEF PreflightInv, Read, Hit
<1>3. /\ req'[r].job = h /\ ~ At(r, "stored")'
      /\ At(r, "body")' \/ At(r, "run")' => req'[r].log = Absent
  <2>1. CASE StartAtOnce(r, route)
    BY <2>1 DEF StartAtOnce, StoreInv, TypeOK, Idle, At
  <2>2. CASE Admit(r, route)
    BY <2>2 DEF Admit, StoreInv, TypeOK, Idle, At, OnLog
  <2> QED
    BY <2>1, <2>2
<1>4. /\ disk'.log = disk.log /\ Good(disk')
      /\ \A c \in Bundles \ behind' : Hit(c)' => Good(Read(c)')
      /\ \A s \in Requests : Busy(s)' => Good(Own(s)')
  <2>1. CASE StartAtOnce(r, route)
    <3>1. Stores(h, b \in behind) /\ disk' = heap'[h] /\ Good(heap'[h])
      BY <1>1, <1>2, <2>1 DEF StartAtOnce, Good, Job
    <3>2. /\ \A s \in Requests : Busy(s) => req[s].job = h
          /\ \A c \in Bundles \ behind' : cache'[c] \in {Absent, h}
      BY <3>1, StoresHistory
    <3>3. \A s \in Requests : Busy(s)' => Own(s)' = heap'[h]
      BY <1>1, <1>3, <3>2 DEF Busy, At, Own
    <3> QED
      BY <3>1, <3>2, <3>3 DEF Good, Hit, Read
  <2>2. CASE Admit(r, route)
    <3>1. /\ heap' = [heap EXCEPT ![h] = Read(b)] /\ UNCHANGED <<disk, behind>>
      BY <2>2 DEF Admit
    <3>2. /\ Read(b)' = Read(b)
          /\ \A c \in Bundles \ {b} : Read(c)' = Read(c) /\ cache'[c] = cache[c]
          /\ \A q \in Objects : q <= used => heap'[q] = heap[q]
      BY <1>1, <3>1, CachedShows
    <3>3. \A c \in Bundles \ behind : Hit(c)' => Good(Read(c)')
      BY <1>2, <3>2 DEF PreflightInv, Hit
    <3>4. \A s \in Requests \ {r} : Busy(s)' => Good(Own(s)')
      BY <1>1, <3>2 DEF PreflightInv, Busy, At, Own
    <3>5. Own(r)' = Read(b)
      BY <1>1, <1>3, <3>1 DEF Own
    <3> QED
      BY <1>2, <3>1, <3>3, <3>4, <3>5
  <2> QED
    BY <2>1, <2>2
<1>5. /\ Good(disk)'
      /\ \A c \in Bundles \ behind' : Hit(c)' => Good(Read(c))'
      /\ \A s \in Requests : Busy(s)' => Good(Own(s))'
  BY <1>1, <1>4 DEF Good
<1> QED
  BY <1>1, <1>3, <1>4, <1>5 DEF PreflightInv, Busy, At

\* A poll caches the snapshot in an empty Map, a reload empties one.
LEMMA PreflightBundle ==
  ASSUME StoreInv, PreflightInv, ~ crossed, NEW b \in Bundles,
         Poll(b) \/ Reload(b)
  PROVE  PreflightInv'
<1>1. UNCHANGED <<disk, logfile, req>>
  BY DEF Poll, Reload
<1>2. \A s \in Requests : Busy(s) => Own(s)' = Own(s)
  BY <1>1 DEF Poll, Reload, Handle, Cached, StoreInv, TypeOK, Created, Objects, Own
<1>3. \A c \in Bundles \ behind' : Hit(c)' => Good(Read(c)')
  <2>1. CASE Poll(b)
    <3>1. /\ Cached(b) /\ Read(b) = disk /\ behind' = behind
          /\ heap' = [heap EXCEPT ![Handle(b)] = Read(b)]
      BY <2>1 DEF Poll, Read, history
    <3>2. /\ Read(b)' = Read(b)
          /\ \A c \in Bundles \ {b} : Read(c)' = Read(c) /\ cache'[c] = cache[c]
      BY <1>1, <3>1, CachedShows
    <3> QED
      BY <3>1, <3>2 DEF PreflightInv, Hit
  <2>2. CASE Reload(b)
    <3> SUFFICES ASSUME NEW c \in Bundles \ behind', Hit(c)'
                 PROVE  Good(Read(c)')
      OBVIOUS
    <3>1. c # b /\ c \notin behind /\ cache'[c] = cache[c] /\ heap' = heap
      BY <2>2 DEF Reload, Hit, StoreInv, TypeOK
    <3> QED
      BY <3>1 DEF PreflightInv, Hit, Read
  <2> QED
    BY <2>1, <2>2
<1>4. /\ \A c \in Bundles \ behind' : Hit(c)' => Good(Read(c))'
      /\ \A s \in Requests : Busy(s)' => Good(Own(s))'
      /\ Good(disk)'
  <2>1. /\ \A s \in Requests : Busy(s)' => Good(Own(s)')
        /\ Good(disk)
    BY <1>1, <1>2 DEF PreflightInv, Busy, At
  <2> QED
    BY <1>1, <1>3, <2>1 DEF Good
<1> QED
  BY <1>1, <1>4 DEF PreflightInv, At

\* "A replaced log invalidates the old preflight and generate summary", for any
\* number of requests under way together, unless a log was written under a run
\* that had read the one before or under another upload, or a handler worked on
\* an object that another one's store had left behind.
THEOREM PreflightCurrent == Spec => []PreflightIsCurrent
<1>1. Init => PreflightInv
  <2> SUFFICES ASSUME Init PROVE PreflightInv
    OBVIOUS
  <2>1. \A b \in Bundles : Read(b) = Uploaded
    <3>1. heap[1] = Uploaded /\ disk = Uploaded
      BY DEF Init, Objects
    <3> QED
      BY <3>1 DEF Init, Read, Hit, Absent
  <2>2. \A r \in Requests : req[r].pc = "idle"
    BY DEF Init, Idle
  <2> QED
    BY <2>1, <2>2 DEF Init, PreflightInv, Good, Uploaded, Busy, At
<1>2. StoreInv /\ PreflightInv /\ [Next]_vars => PreflightInv'
  <2> SUFFICES ASSUME StoreInv, PreflightInv, [Next]_vars, ~ crossed'
               PROVE  PreflightInv'
    BY DEF PreflightInv
  <2>1. ASSUME NEW r \in Requests, Handler(r) PROVE PreflightInv'
    <3>1. ~ crossed
      BY <2>1, HandlerHistory, Zenon
    <3> QED
      BY <2>1, <3>1, PreflightHandler
  <2>2. ASSUME NEW r \in Requests, NEW route \in Routes,
               StartAtOnce(r, route) \/ Admit(r, route)
        PROVE  PreflightInv'
    <3>1. ~ crossed /\ Home[route] \notin behind
      BY <2>2, Zenon DEF StartAtOnce, Admit, Stores
    <3> QED
      BY <2>2, <3>1, PreflightArrival
  <2>3. ASSUME NEW b \in Bundles, Poll(b) \/ Reload(b) PROVE PreflightInv'
    <3>1. crossed' = crossed
      BY <2>3 DEF Poll, Reload, history
    <3>2. ~ crossed
      BY <3>1, Zenon
    <3> QED
      BY <2>3, <3>2, PreflightBundle
  <2>4. CASE UNCHANGED vars
    BY <2>4 DEF vars, history, PreflightInv, Good, Read, Own, Hit, Busy, At
  <2> QED
    BY <2>1, <2>2, <2>3, <2>4 DEF Next
<1>3. PreflightInv => PreflightIsCurrent
  <2> SUFFICES ASSUME PreflightInv, Quiet, ~ crossed PROVE Kept(disk)
    BY DEF PreflightIsCurrent
  <2>1. logfile = disk.log
    BY DEF PreflightInv, Quiet, At
  <2> QED
    BY <2>1 DEF PreflightInv, Good, Kept
<1> QED
  BY <1>1, <1>2, <1>3, StoreCorrect, PTL DEF Spec
=============================================================================
