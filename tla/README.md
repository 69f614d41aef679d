# tux-to-any in TLA+

tux-to-any converts Tuxedo services written in Pro*C into Go (C# and Python
are further targets). A scanner and an intermediate representation feed a
conversion plan; deterministic templates render what they can, a bounded LLM
seam fills the method bodies, gates judge every answer, and a ledger records
what reached the staged tree so that a later run can resume. A web front end
drives the command line.

This directory holds TLA+ modules of the parts where the order of steps
matters, the TLC runs that check them on small instances, and TLAPS proofs of
what holds for every instance. Module names below are files here; paths are
under `src/`.

Run a check with `tlc -config <Run>.cfg <Module>.tla`, a proof with
`tlapm <Module>Proofs.tla`. `PROJECT.json` lists the runs, the mutation each
property is tested with, and for every definition the lines it stands for.

## 1. Inventory

| component | state | operations | what makes it hard |
|---|---|---|---|
| convert orchestrator (`internal/convert/pipeline.go`, `deterministic.go`) | staged tree, ledger in memory | `Run`: guard, models, db, glue, one body per endpoint, tpcall placeholders, one body per helper, `Save` | killed anywhere, resumed in either mode, trees cleared, endpoints renamed; methods merged into shared files by text |
| ledger (`internal/ledger`) | unit entries, artifact entries, conversion map, on disk and in memory | `Load`, `Fresh`, `Get`, `Set`, `AddMap`, `Save` | positional unit ids, one save per run |
| LLM seam (`internal/llm/seam.go`, `client.go`, `internal/convert/retry.go`) | attempt, notes, payload to patch, request | attempts around transport retries, gates, feedback | budget, truncation, cancellation, what the caller keeps |
| controller seam (`internal/convert/txtemplate.go`, `fmlprobe.go`, `seamrewrite.go`, `conditions.go`, `bodygate.go`) | the view of a branch, a reply | passes over the view, repairs and gates of the reply | passes that see lines, not blocks; a gate that asks for what a repair removes |
| token budget (`internal/budget`) | none | `OutputCeiling`, `CheckInput`, `CheckOutputCap`, packing | two policies, boundaries, a growing prompt |
| audit (`internal/audit`) | run folder | `WriteExchange`, retention | names shared by workers |
| bounded fan-out (`internal/common/pool.go`) | WaitGroup, semaphore, goroutines | `RunIndexed` | interleavings, deadlock |
| directory convert (`cmd/tuxconv/convert_dir.go`) | mapping directory, result slice, everything the services share | match, fan out, summarise | concurrent services, partial failure |
| chunked bodies (`internal/convert/chunk.go`) | fragments, stitch, repair | split, glue, group, stitch, repair, compose | budget arithmetic, else chains, one fragment of several failing |
| web job server (`web/lib/jobs.ts`, `web/app/api/jobs/[id]`) | a Map per bundle, `job.json`, the log file | long-running handlers | handlers interleave at every `await`; bundles reload |
| flow graph (`internal/flow`, `internal/pred`) | none between calls | tree of an entry, dispatch axes, slices by value or filter, census, draft mapping | three-valued folding of conditions, arms that end early, spellings |
| intermediate representation (`internal/ir`) | none between calls | inventory of an entry, windows of a service call, join of callers with services | buffers reused, reset and filled in arms |
| conversion plan (`internal/plan`) | none between calls | `Build` | one text used by several endpoints, names that collide, transactions |
| Go generation without a model (`internal/gen`) | none between calls | a body per endpoint and per helper | order of statements, one error path, one transaction, nothing left out silently |
| test generation (`internal/testgen`, `testscan`) | staged test files | traces of a log, paths of a body, suites, runs in place or into a tree | interleaved log lines, a tree that grows, files of the user's |
| C# conversion (`internal/csgen`, `csplan`, `csdraft`, `cschk`) | ledger, seven files | plan, resume, seam, save, write | resume across editions of the source, partial writes |
| Python conversion and batches (`internal/batchflow`, `pyplan`, `pygen`, `pychk`, `cmd/tuxconv/batchpy.go`) | output directory | pairing of statements, naming, seam gate, run over a directory | names taken twice, two files of one module, writes that fail |
| scanner, inlining, SQL checks (`internal/tsscan`, `inline`, `sqltext`, `sqlchk`) | none between calls | pure algorithms | not modelled (section 7) |
| configuration, validation, naming, telemetry, reports | none or read-only | | not modelled |

Components interact as follows. `cmd/tuxconv` loads the configuration, scans
and plans, then calls `convert.Run` once per service, through `RunIndexed`
when a directory is converted. `Run` calls an LLM seam per body (or a chunked
body, which calls several), which calls the HTTP client and archives every
exchange in the audit recorder that all services of the run share; without a
model a body comes from `internal/gen`. The ledger belongs to one service and
is saved at the end of its run. C# and Python runs have planners and gates of
their own on top of the same flow graph. The web server starts the command line
as a child process, one job directory per upload; its handlers share one job
object per bundle and one snapshot file.

## 2. What each component owes

* The ledger never claims a body that the tree does not hold; an accepted body
  is never lost to a later run; two generations of a service never share a
  file; every accepted unit is in the conversion map; repeated runs converge.
* A seam returns only a payload its gates accepted, within the ceiling of its
  own request; it accounts for every call; its retry talks about the attempt
  just rejected; it ends.
* The view a prompt shows runs as its branch; a reply that copies it is
  accepted; an accepted reply runs as the branch.
* The pool calls every index once, at most `workers` at a time, and returns
  last. Services converted together do not disturb one another, and no failure
  is lost.
* A fragment plan loses no line, cuts no else chain, respects the budget;
  only a body that passes the combined gates counts as validated.
* A slice does, on its values, what the entry does; every line that can run is
  in a slice; a transaction is generated as it runs; the plan has what the
  inputs of an endpoint make the entry execute.
* A body generated without a model sends the values the C code sends, reports
  every failure, keeps its changes whole or not at all, and leaves nothing out
  without a note.
* A test suite holds on the code it was built from, and no run takes a test
  away from the user.
* The files of a C# or Python run do what the entry or the batch did; a good
  C# block is never lost; what a batch run says is what is on disk.
* The web server never runs two commands in one job directory; its snapshot
  holds what requests were told; results shown beside a log were read from it.

## 3. Modules

| module | models | state and code |
|---|---|---|
| `Ledger` | `internal/ledger` as a value | `unit` is `Entry` by positional id, `art` the whole-file artifacts, `map` the conversion map |
| `ConvertRun` | `convert.Run` and what happens between runs | `pc`/`next` are the stage and the unit loop, `mem`/`saved` the ledger in memory and on disk, `file`/`body`/`before`/`torn` the tree, `mapping` the mapping file |
| `SeamContract` | what callers of `RunSeam` rely on | bounded calls, an accepted payload or none, a kept rejected one |
| `LlmSeam` | `RunSeam`, `doWithRetries`, `seamMessages`, the budget checks | one variable per local of the loop, `seam` all of them; `trail` is the audit folder, `rejected` the callback's last value |
| `ParallelFor` | what callers of `RunIndexed` rely on | |
| `RunIndexed` | the pool, statement by statement | `wg`, `sem`, the loop counter and a state per goroutine |
| `Fanout` | `runConvertFanout` and `convertOneService` on top of `RunIndexed` | `dir` the mapping directory, `merged` controller files, `folder` the audit folder, `results` the slice, `fanout` all of them |
| `ChunkedBody` | `splitStatements`, `glueChainUnits`, `groupFragments`; `controllerBodyChunked`, `repairCombinedBody`, `composeFragments` | the plan is a set of cuts, a seam one step with the outcomes of `SeamContract`; `body` is what the gates saw, `kept` what is staged after `repairArmWrapper` |
| `PromptView` | branches of a service as programs, and the passes that prepare one for a prompt | a branch is a tree of statements; one action per pass, in the order of the code |
| `ControllerSeam` | the reply: what the model may answer, the repairs, the gates | `reply`, the notes of the gates |
| `WebJobs` | `jobs.ts` and the handlers cut at their awaits | `heap` the job objects, `cache` the Map per bundle, `disk` the snapshot, `logfile` the runtime log, `req` the requests |
| `Predicates` | `internal/pred` | conditions as trees: parse, print, substitute, compare |
| `FlowTree` | the tree of an entry and its dispatch axes | lines in, tree and axes out |
| `Scenarios` | slices by value, their census, transactions and responses; slices by filter | folding with three truth values |
| `Slicing` | the flow stage as the commands run it | `stage`, `tree`, `axes`, `slice` |
| `Inventory` | the inventory of an entry function (`internal/ir`) | |
| `ServiceJoin` | `ExtractDirOpts`: send and receive windows of each service call, of `tpacall` with its `tpgetrply` too, the join with the service | `corpus`, `irs`; `Exec` runs both sides on real buffers |
| `Planning` | draft discovery, then `plan.Build` | `mapping`, `resolved`, `plan` |
| `GoBody` | the deterministic bodies of `internal/gen`, and their execution | `goBody` the rendered events, `tx`/`durable`/`failed` what runs |
| `GenTests` | the outline of a Go method as `testscan` reads it, traces cut out of a log, paths of a body, the suite built from both; the case tables of the handler and store layers | `pending`/`log` are the requests under way and the lines they wrote; `Exec` runs a body against mocks, `Passes` a case against the method it is for |
| `GenTestRuns` | runs of gentest over a tree that grows, for any verdict `Green` of the staged gate | `tests` and `outTree` by layer and file |
| `PlanState` | what `Planning` and `CsRuns` hold of a service | `file`, `stage`, `ir`, `mapping`, `plan` |
| `CsRuns` | runs of `convertcs` one after another: resume, ask, save, write, break off anywhere | `ledger`, `tree` on disk, `bodies` and `resumed` in memory; plans, blocks and files are any values |
| `CsConvert` | what a run of `convertcs` handles: draft, plan, gates, the seven files | |
| `BatchRun` | a run over a directory of batch programs | `results`, `out` the output directory |
| `BatchPy` | what a conversion does and what its module holds | |
| `Orders` | facts about numbering a finite set by an order, for the proofs | |
| `*Proofs` | theorems about the module they are named for (section 5) | |

`MC*` modules give the constants their values for TLC. `MCProgress`,
`MCGeneration`, `MCAnalysis`, `MCTests` and `MCTargets` put several
specifications side by side in one run: a behaviour belongs to one `part`, the
variables of the others keep one value, and each property is about its own
part. Composition proper:
`Fanout` extends `RunIndexed`, `BatchPy` extends `BatchRun`, `Planning` extends
`Scenarios` and `Inventory`, `CsConvert` extends `Planning` and `CsRuns` (whose
constant `armGates` is its `GatesOfArm`), `MCTests` extends `GenTests` and
`GenTestRuns` (whose constant `Green` is the first one's `Passes`),
`ControllerSeam` extends `PromptView`, `ConvertRun` instantiates `Ledger`;
`WebJobs` holds what TLC needs
(`AllHomes`, `Trades`, `Seen`) itself. `ConvertRun` and `ChunkedBody` use a
seam as its contract, which `LlmSeam` is proved to implement. `BatchRun`, `CsRuns` and `GenTestRuns` hold
the control of a command apart from the data it handles: in them a conversion,
a plan, a reply or a verdict is any value, and `BatchPy`, `CsConvert` and
`MCTests` take their steps with the values the code computes.

Operators named in a `Mutant:` comment are not part of any specification: each
is a plausible mistake in the definition that follows it, and TLC finds the
listed property violated when the definition is replaced by it.

### Abstractions

* Texts are model values or short names, tokens and characters are small
  numbers. A method in a file is the kind of body it has; `before` keeps the
  textual order, which the block stripping depends on. A line of a view is the
  way it begins and ends, its weight and the store call it carries.
* A gate is a nondeterministic verdict, restricted to what earlier gates leave
  possible (a stitch of gated fragments has no legacy spelling left), except
  in `ControllerSeam` and `BatchPy`, which have the gates themselves.
* I/O errors are modelled as a run that stops, or a write that is torn. Audit
  writes that fail are only warned about in the code and always succeed here.
  A file that was merged and then fails to get its imports counts as torn at
  most by a kill; a rejected payload never contains a marker of its own.
* `ChunkedBody`: comments are gone before the splitter runs; the terminal
  return that is ensured after the gates does not change which calls a body
  has. The other repair after the gates does (`Unwrapped`).
* `WebJobs` starts when the upload has answered. Unknown jobs (404) and
  malformed bodies change nothing and are left out, errors of the metrics file
  are swallowed in the code.
* Flow, IR, plan: the scanner's facts are given per line; a name is a string,
  its characters do not matter (`Planning` keeps them where names collide).
  `Fadd32` to a field that is there replaces its value; buffers have the role
  the lookup gives them; two files match by base name without folding; cursors
  are left out. A helper's declaration is readable or not. Target paths,
  routes and templates are left out.
* `GoBody`: names are atomic, so the suffix matches of the code are not seen;
  host variables are normalised; the branches of an endpoint are flattened as
  the code does. A begin or commit that fails belongs to the database. The
  transaction a helper opens of its own is a separate one. The C text is run
  line after line, so a value that only one arm fills is filled.
* Controller seam: sessions are valid, begin and commit succeed; requests the
  unpack block rejects are the middleware's (`RunsAsTheBranch` exempts them);
  one call per line; `else` on the line of its brace; the helpers' seam and the
  gate of non-constant formats are left out. A reply makes at most one slip.
* Test generation: the log format is the logger's, error lines carry no
  payload, lines without a request id are left out, requests are preempted at
  most `MaxSwitches` times. Compiling staged support files is left out.
* C#: fewer than ten queries (their ids sort as text), row properties left
  out, spellings that differ in case only are not modelled; of a residual block
  there is its conditions and one flaw; namespaces, routes and templates are
  left out.
* Python: one statement per line, names equal up to case are one, of the
  entry's file only the body; binds of selects, chunking and the `dmlLoop` mode
  have no effect on what is modelled; the attempts of a seam end in an accepted
  body or the placeholder (`LlmSeam` has the loop). Workers share nothing but
  the client, so a run converts its files in order.

## 4. Runs

Runs marked * must find a violation; they record a disagreement between the
code and its own documentation, quoted in `PROJECT.json`.

| run | question | properties | bounds |
|---|---|---|---|
| `ConvertResume` | Kills at any step (also inside a write), a cleared tree, a forgotten ledger and renamed endpoints: does the ledger stay truthful, do accepted bodies survive, do generations stay apart? | `LedgerHonest`, `AcceptedKept`, `NoMixedGenerations` | two endpoints that may trade names, one helper without synthesis whose callers need it; kills inside a write of the models, the placeholders and the two merged files |
| `Progress` | What must come to an end, and what it leaves: runs over a tree that is cleared and renamed until every unit is accepted; all outcomes of all attempts of a seam; a directory convert. | `ArtifactsOnDisk`, `RunsConverge`; `TrailIsComplete`, `RequestFits`, `SeamReturns`, `ImplementsContract`; `ReportedAsDone`, `ConvertEnds`, `ImplementsParallelFor` | the plan of `ConvertResume` with one endpoint without synthesis, no kills; three attempts of two tries, four payloads (good, too long, bad, blank), dynamic budget, repair mode; every mapping directory of four drafts, services that share a controller file among them, three services on two workers, two of them failing or not |
| `WebServer` | Two requests of any kind, their routes compiled into two bundles, with reloads of either. | `SnapshotIsComplete`, `PreflightIsCurrent`, `Settled` | two bundles, two requests, three job objects, one log |
| `WebStale`* | A page polls through one bundle while another runs the job. | `MapIsACache` | two bundles, one discover, no reload |
| `WebRace`* | An upload passes the busy check before a check is marked. | `ReplacedLogInvalidates` | one bundle, two requests, two logs |
| `Generation` | What becomes a body: slices of an entry, bodies without a model and their execution, prompts and replies of a branch, fragments. | `SlicesFaithful`, `TxAsRun`, `ResponsesNameWrites`; `ValuesAreLegacy`, `ReportsFailure`, `OneTransaction`, `NothingLeftOut`; `ViewsRunAsBranches`, `EchoesAccepted`, `AcceptedRunAsBranches`; `FragmentsAreTheView`, `ValidatedPasses` | the menus of `MCSlices` (two axes, nested, crossed and apart), `MCGoBody` (three lines over twenty-five kinds, four over ten; helpers of eighteen shapes, void ones too), `MCControllerSeam` (two pieces of thirteen, three of the body and slice pieces), `MCLines` (views of up to three lines and six longer ones, three budgets, one below the minimum) |
| `Analysis` | What is read off the sources: joins of callers with services, drafts and plans. | `JoinsAreTrue`; `KeysNameTheirBlocks`, `PlannedIsWhatRuns`, `WritesKeepTheirTx` | callers with up to three fillings around one or two calls, in the call's block, outside it or in an arm before it, the answer at once or fetched later; every mapping of one or two endpoints |
| `Tests` | Test suites from logs and bodies; runs of gentest over a tree that grows. | `TracesAreRequests`, `SuitesHold`, `PathsAreTheBodys`; `SuitesKept` | two requests, two preemptions, eleven bodies; two methods, two runs |
| `Targets` | The other targets: two runs of `convertcs` stopped anywhere; a directory of batches with failing writes. | `BlocksKeepGuards`, `TreesRunTheEntry`, `AcceptedBodiesKept`; `BatchesRunAsBefore`, `OutIsTheRuns` | three services, two later editions, five mappings; two directories of three batches |
| `CsConsts`* | Two endpoints share a query: its constant is declared twice. | `ConstsAreDistinct` | one service |
| `PyRebuild`* | Two tables rebuilt within fifteen lines: the second loses its TRUNCATE. | `RebuildsTruncate` | one batch |
| `SeamHeader`* | A repair removes the header the gate then asks for. | `EchoIsAccepted` | one branch |

Why these bounds are enough: a unit of a run interacts with another one only
through the file they share, its place in the ledger and the mapping, so two
endpoints and a helper meet every case; a rename needs two. A third attempt of
a seam is the first whose feedback differs from "the other one", and the sizes
are chosen so that a retry turn makes the prompt overflow. Two workers and
three services are the least at which a service waits for a slot while two
run. A chain needs an `if`, an `else` and a statement on either side; the
theorems have views of every length. Routes fall into classes by where they
first await; `WebServer` has the one that marks the job at once, the ones that
wait for a body, with and without a log, and both log routes, and a race takes
two requests (`scenarios` is like `analyze`, `discover` and the preview like
`convert`, a preflight like `generate` without the metrics file). Folding looks
at one branch and the axes it tests, so two axes, one nested in or crossing the
other, meet its cases. A body without a model looks at a line, the lines around
it and the blocks it is in; three lines are a fill, a use and a block. A
resume of a C# block needs a run that accepts it and one that meets it under
another edition or mapping. A directory of three has two batches of one module
name and one that fails. Bounds: `MaxObjects` and `MaxLogs` in `WebJobs`,
`MaxSwitches`, `MaxMethods`, `MaxGenRuns` and `Trips` in the test modules,
`MaxRuns` in `CsRuns`, `MaxLines` for the views; the other modules are
finite.

`CHECK_DEADLOCK FALSE`: every system here may stop (a command ends, a job
waits for its user).

Fairness. `ConvertRun!FairSpec`: the process goes on (weak fairness of a
step); people go on re-running with the LLM, and a seam that is asked for the
same unit again and again has an answer accepted some day (strong fairness).
The last is an assumption about the model behind the endpoint, not about the
code: without it no run need ever succeed. `LlmSeam!FairSeam`: the HTTP client
has a timeout, so a request is answered or fails. `Fanout!FairFanout`:
goroutines are scheduled and a conversion returns. `MCProgress!AllSpec` has the
fairness of each for its own part. No fairness is assumed for the other
systems; their properties are safety.

`WebJobs` keeps two history variables because its promises have limits.
`behind` holds the bundles whose Map had an object of its own when another one
was stored: they go on showing it (`WebStale`). `crossed` says that a log was
written under a run that had read the one before or under another upload
(`WebRace`), or that a handler worked on an object another one's store had left
behind. Handlers that overlap otherwise are all included: the properties say
what holds outside these limits, for both bundles and across reloads.

## 5. Proofs

All for every value of the constants, from the named `ASSUME`s of the modules
and from the hypotheses a theorem names. An invariant a run checks is seldom
inductive; what each proof adds to it is said below. The strengthened
invariants were checked by TLC on the runs' instances before they were proved.

* `ConvertRunProofs`
  * `TypeCorrect`: the type invariant, one step per action; the ledger
    operations have typing lemmas of their own.
  * `MapCoversAppended`: `AppendedIsMapped`. It needs both ledgers at once,
    since a run starts from the saved one and saves its own; a resumed unit is
    the subtle case (its status is set again without a link and relies on the
    one of an earlier run under the same name).
  * `AcceptedStays`: `AcceptedKept` if no accepted body repeats the baseline's
    marker (`~ Echo`); `NoEcho` is the invariant. Torn writes and prefix names
    are allowed: a file that no longer parses is never written.
  * `LedgerIsHonest`: `LedgerHonest`, cleared trees and gated helpers
    included, if no name is a prefix of another and no marker is echoed
    (`Calm`; each of the two breaks it). The property is not inductive:
    `HonestInv` adds that, unless the tree was cleared, every appended entry of
    both ledgers points at a firm method, under an older name too; that a
    cleared tree holds nothing but what the run under way has dealt with, so
    that this run can mistake nothing; and that what a run broken off in a
    cleared tree leaves behind is all a later one can mistake.
  * `GenerationsApart`: `NoMixedGenerations` for plans with a models file.
    `RootInv` says that the file the guard probes stands whenever a method
    does.
  * `ArtifactsStay`: `ArtifactsOnDisk` under `Recoverable` (no whole-file
    write goes bad, or the tree is never cleared). `ArtifactInv` speaks of the run's own
    ledger as well: what a stage behind the run has claimed is on disk. Without
    `Recoverable` it is false of the code: a tree is cleared, the run that
    regenerates it is killed inside a write, and the next run takes the torn
    file for the one its ledger still records.
* `LlmSeamProofs`: `TypeCorrect`, `TrailComplete`, `RequestsFit` (arithmetic of
  the dynamic ceiling for all sizes; `LoopInv` ties the notes, the trail and
  the attempt counter together) and `SeamKeepsContract`: initial states and
  every step map to `SeamContract`. The static policy, which `Progress` does
  not explore, is covered here.
* `FanoutProofs`, first about the pool alone: `PoolAccounts` proves the
  inductive invariant (`wg` counts the goroutines that are not done, `sem` those
  between acquire and release, the loop is ahead of both); `PoolTypeCorrect`,
  `PoolBounded`, `PoolReturnsLast` and `PoolImplements` follow, for any number
  of jobs and any `workers`, zero and negative included. Then about the fan-out
  over it: every step of `Fanout` is one of the pool or leaves its variables
  alone (`FanoutRunsThePool`), hence `FanoutImplements`
  (`ImplementsParallelFor`), `FanoutTypeCorrect` and `SummaryHolds`
  (`ReportedAsDone`). `FInv` adds to the pool's invariant where each conversion
  is: a slot of the result slice is filled when its goroutine's call is over
  and not before (`Progress`), the summary is read after the pool returned
  (`Phases`), and a service's controller file and ledger hold what its own
  worker has done so far (`Subtrees`). The last is claimed for directories that
  are `Apart`, where no two entries were matched to one service: otherwise two
  conversions merge into one controller file. That the summary misses no
  failure holds in either case.
* `WebJobsProofs`, for any number of bundles, requests and logs. What a step of
  a handler does to the store is stated once per property (`HandlerStatus`,
  `HandlerStores`, `HandlerLog`), and the actions follow from these lemmas.
  * `SettledHolds`: `Settled`. Whoever holds a running object has a runner
    beside it, and a running snapshot has a handler that will write it again
    (`SettledInv`): the objects in the handlers' hands have to be told the
    truth about too, because a late `setJob` copies what the object says.
  * `SnapshotComplete`: `SnapshotIsComplete`. `SnapshotInv` says that a bundle
    which is not `behind` shows the snapshot, unless a handler of its object is
    writing its metrics and has not stored it yet.
  * `PreflightCurrent`: `PreflightIsCurrent`, whichever bundle a route is
    compiled into. `PreflightInv` says that until something crosses a run has
    read no log but the one on disk, and that the snapshot, the Maps that are
    not behind and the objects in the handlers' hands agree on the log, so what
    an upload drops nobody writes back.
* `ChunkedBodyProofs`, for every view and budget.
  * `FragmentsCorrect`: `FragmentsAreTheView`. A plan is a set of cuts numbered
    in order, and the proof is about consecutive cuts.
  * `CallsSurvive`: the stitch and what is made of it have every store call of
    the view, although a fragment is only gated for its own calls.
  * `ValidatedCorrect`: `ValidatedPasses`, whichever way the body came.
    `StagedPasses`, the same of what is staged for an arm, is not true (section
    6).
* `GoBodyProofs`, for every text that is `WellFormed`: it is a sequence of
  lines, a helper's blocks are nested, every function it calls is known. That
  the texts of the run are so is an `ASSUME` of `MCGeneration`
  (`TextsAreInScope`), which TLC evaluates.
  * `FailuresAreReported`: `ReportsFailure`, and `TransactionIsOne`:
    `OneTransaction`. `Running` says that between two calls the transaction
    holds exactly the lines the calls made so far changed in it, and the
    database none of them. That a helper's failure inside a transaction is
    never lost rests on `NoStatusInTx`: a helper body with a status and more
    than one open line does not parse (section 6, a).
  * `OmissionsAreReported`: `NothingLeftOut`. A block counts as rendered where
    the code takes it for the error check of a call or for one of four idioms,
    an error-operation loop among them (`TakenFor`); a call in any other block
    must have the note that names the innermost. What such blocks swallow is in
    section 6, c to f.
  * `ValuesAreKept`: `ValuesAreLegacy`. The condition is on the C text at one
    place, not on the whole text: at that call what the variable holds is
    `Settled` (one place has filled it so far, or several did and the last was a
    read of the request; no later line reads it from the request, and in a
    helper none fills it); guesses by spelling are expressions of their own and
    claim nothing. What a host variable holds at a line is a function over hosts
    and lines, the C program's assignments taken in order; that this function exists and looks back only
    is proved first (`ValuesExist`, `ValueLooksBack`, by the least line at
    which two candidates would differ). `FilledBefore` and `LastWriter` then
    say that the joining of the generated body finds the writer the C code had,
    statement by statement (`RequestMapIsRight`, `OwnValueIsRight`,
    `RowIsRight`, `ArgumentsAreRight`).
* `CommandProofs`, about the control of three commands, whatever the data:
  * `OutCorrect`: `OutIsTheRuns` of `BatchRun`, for every directory and
    whatever the conversions return. `Apart` (what the gate let through share no
    file), `InPlace` (the results whose turn has come are in their files, and no
    file holds one whose turn has not) and `Reported` (the error so far is that
    of a failure behind the turn or of a torn file) are inductive together: that
    a write overwrites nothing of this run needs `Apart` and `InPlace`.
  * `AcceptedBlocksStay`: `AcceptedBodiesKept` of `CsRuns`, for any gates, any
    plans whose endpoints are a sequence, any edits between runs and any number
    of them. The save compares the ledger with what the run has in memory, so
    `CsInv` has to say what that is: before the plan nothing is loaded and the
    first endpoint has its turn; while bodies are generated, `resumed` is what
    the ledger has for this source (`Planned`), and every block in use under a
    loaded name is the loaded one, and every loaded block the gates accept is
    in use as soon as its endpoint had its turn (`KeptSoFar`). Two endpoints of
    one name are the subtle case: the later turn must not replace what the
    earlier one resumed.
  * `SuitesStay`: `SuitesKept` of `GenTestRuns`, for any verdict of the gate
    and any number of methods and runs. A run composes one file of a layer: the
    twin where the layer has files, the first one where it has none; so every
    file but the twin is the one the users wrote, and a file that cannot be
    composed is left as it was. The twin is rewritten whole, which is why the
    property exempts it (section 6).
  The steps of `CsConvert` and `MCTests` are those of `CsRuns` and
  `GenTestRuns` with particular values, so the theorems cover them; that they
  are is plain from the definitions and is not a theorem, because those modules
  reach recursive operators.
* `Orders`: the members of a finite set under a strict order are numbered from
  one to its cardinality without gaps. `ChunkedBody` and `GoBody` put cuts and
  statements in order with it, instead of sorting recursively.

Only model-checked:

* Liveness (`RunsConverge`, `SeamReturns`, `ConvertEnds`, which are `Converges`,
  `Terminates` and `FanoutEnds` of the modules) and everything about
  ENABLED, which TLAPS does not do here.
* `SlicesFaithful`, `TxAsRun`, `ResponsesNameWrites`,
  `JoinsAreTrue`, `KeysNameTheirBlocks`, `PlannedIsWhatRuns`,
  `WritesKeepTheirTx`, `TracesAreRequests`, `SuitesHold`, `PathsAreTheBodys`,
  `ViewsRunAsBranches`, `EchoesAccepted`, `AcceptedRunAsBranches`,
  `BlocksKeepGuards`, `TreesRunTheEntry` and `BatchesRunAsBefore`: they compare
  a recursive definition with another (a fold of a tree with its execution),
  which is induction over data, out of the provers' reach.

## 6. Disagreements with the documentation

Five are checked by the runs marked * above. Those below were met while
modelling; where a recipe is given, TLC shows it with the named change.

Runs and ledger

* `Prefix <- NamePrefix` in `ConvertResume`, without its `SYMMETRY`:
  `stripRejectedBlock` matches a method by prefix and removes another one's
  block; a unit is recorded appended whose answer was never written
  (`LedgerHonest`).
* `hasLiveMethod` (`pipeline.go:2141`) does not look at what a method is
  worth. After a clear, a run that broke off leaves the placeholder of a
  rejected body under a ledger that still says appended, and the next run
  skips it (against `pipeline.go:2146-2149`); a helper gated out without LLM
  leaves a compiling placeholder without a marker, and an LLM run records it
  appended and writes nothing (`pipeline.go:1138-1142`). Without either
  disjunct of `Mistaken`, `ConvertResume` violates `LedgerHonest`.
* `Echo = TRUE`: an accepted body that repeats the baseline's marker
  (`internal/convert/deterministic.go:266-279`) is taken for a deterministic
  one and replaced, against `pipeline.go:389-390`.
* `HasModels = FALSE`: the staged-collision guard never sees the tree of a
  function library (`pipeline.go:183-190`).
* A run killed before its only `Save` (`pipeline.go:518`) leaves a tree every
  later run refuses, although `ledger.go:3` calls runs resumable.
* `AddMap` keeps the links of a renamed endpoint (`ledger.go:147-156`).
* An artifact that was torn or failed validation is skipped as present by the
  next run (`pipeline.go:2384`).
* Static budget with a low `MaxPrompt`: the retry turns overflow the prompt and
  the seam gives up with attempts left (`seam.go:147`).
* Two services with a method of the same name overwrite each other's exchange
  files (`internal/audit/exchange.go:69`); two mappings that name one service
  merge into one controller file (`SameService` is in the run `Progress`;
  `OwnSubtree` holds for the directories that are `Apart`).
* `BudgetIsHard` of `ChunkedBody`: the cap on the number of chunks makes the
  last one larger than the budget.
* `StagedPasses` of `ChunkedBody`: `repairArmWrapper` runs after the gates
  (`chunk.go:689-694`); a sole `if` whose condition mentions the dispatch
  variable loses the condition with what it called or asked besides
  (`bodygate.go:485`), and what is staged is not what was gated.

Web

* `Routes = {"discover"}` with `OneRunner` as the invariant: two requests pass
  the busy check before either has marked the job.
* `WebStale`: a bundle with a cached object never looks at the snapshot, which
  `web/lib/jobs.ts:5-6` calls the source of truth. `WebRace`: a log replaced
  under a running check leaves its preflight (`gentest/log/route.ts:54`).

Flow, IR and plan (menus of `MCSlices`, `MCServiceJoin`, `MCAnalysis`)

* "unbraced": an arm that is one unbraced `return` is not seen to end
  (`flow.go:316`); violates `SliceFaithful`. "entry begin": a transaction the
  entry begins before its dispatch is not the slice's (`scenario.go:1384`);
  violates `TxMatchesRun`. "mixed spellings": a value compared in two spellings
  loses its slice; violates `EveryLineHasASlice`.
* The census of a slice keeps the reads of dropped arms
  (`scenario.go:1293-1295`); `render.go` joins "and" and "or" without
  parentheses.
* Windows of a service call are cut to the innermost block around it
  (`tpcall.go:130-156`). "call in an arm": a field filled in the body before an
  arm that makes the call is missing, and the join reports a read the service
  does not miss (`callee_expects_unsent`). "fill in an arm": a field filled in
  an arm before the call is taken as always sent. "brace on the line" and "free
  on error": the window is cut, or not reset, where the program does otherwise.
  These four violate `EverySendIsTheBuffer` (as `srwindow.go:35` has it); the
  run checks `SendIsTheBuffer` of the calls that have their operations in their
  own block (`InItsBlock`). "NUL" (`srwindow.go:258-259`): a buffer reset by a
  NUL byte is taken as filled; violates `SendIsTheBuffer` too.
* A receive window is not cut at the next call on the same reply buffer; what a
  service produces is a union over its arms (`tpcalljoin.go:137-147`). The
  finding `split_target` cannot be reported: `tpcalljoin.go:202` keeps one
  variable per field before line 279 looks for two, so it has no operator.
* "loop": a block inside a loop gets a key no command resolves; violates
  `DraftNamesItsBlocks`. `NoSilentArm` as the invariant: an arm below the first
  level that no endpoint covers is not warned of. Pins are not used verbatim
  (`plan.go:532`); a helper's write that shares its text with one outside the
  transaction loses it.

Go bodies (texts over the lines of `MCGoBody`, `GoSpec`)

* (a) A helper with a status and a second open line renders two declarations
  on one (`gen/deterministic.go:1296`) and does not parse: `BodiesParse` is
  violated within the menu. (b) Were (a) repaired, a nested helper with an int
  status that fails inside a transaction would return a nil error, and the
  transaction would be committed: `NoStatusInTx` is what excludes it now. A void
  helper reports nothing, so a failure in it ends there
  (`gen/deterministic.go:1350-1358`).
* `EveryOmissionHasItsNote` as the invariant: (c) a function that is resolved
  outside the plan is neither rendered nor noted, (d) a second call of a helper
  and a call of itself are not made, (e) a call in a block taken for an error
  check or for a loop of the `[i] == -1` kind (`flow/patterns.go:113-133`)
  becomes unconditional without a note, (f) a statement that shares its text
  with an earlier one is planned at that one's line, in or out of its block
  (which violates `OrderIsLegacy` as well).
* `EveryValueIsLegacy` as the invariant: an argument is taken for a request
  field of its spelling (`gen/deterministic.go:587`), a response field for a
  column of a similar name (`1176-1181`), a helper's actual for its formal
  (`706-711`); a host variable that one read fills again after another, or a
  read of the request after a use, is bound to the wrong one.
* A MERGE gets no transaction handle.

Controller seam (menus of `MCControllerSeam`, `Spec`)

* "plumbing guard": the census holds guards of the transaction and session the
  view drops (`txtemplate.go:10-17`); violates `EchoIsAccepted`.
* "bare guard", "bare log", "unprobed read", "log before fallback", "log
  apart", "abort goes on", "write after abort" and "renamed argument": a pass
  that works on lines changes what the branch does; violate
  `ViewRunsAsTheBranch`.
* "called twice" (required calls are asked for once, by name) and "slice
  condition" (the conditions a slice leaves to run time are not gated) violate
  `AcceptedRunsAsTheBranch`.
* A placeholder helper writes `*p = 0` for a `*string` (`pipeline.go:1163-1188`).

Tests (menus of `MCTests`)

* `EverySuite` as the invariant of `Tests`: the Logged-Error case of a request
  whose store call failed mocks the call with a nil error and expects the
  store's message (`methods.go:751-763`, `644-646`), the one of a request the
  rotation cut lacks the calls the log lost, and the Success case is
  built from a failed request when none succeeded (`logparse.go:266-268`): each
  fails on the code it was built from. `SuitesHold` leaves out that one
  case, or the suite if no request succeeded.
* "not found", "after the transaction", "loop of two" violate
  `PathsFollowTheBody`. "controllers": a second run rewrites its twin file
  without the tests of the first, and "alike": a test of one controller counts
  for another (`ReportIsTrue`). `GateIsFair` (a first run
  fails its tests only on a method of a shape the tables do not foresee) is in
  no run; as the invariant of `Tests` it holds. A second run with `-out` stages the sources
  twice, and the package no longer compiles.

C# and Python

* `AdvisesOfEveryArm` with a `Menu` of its own in `Targets`: an arm no endpoint
  covers is not warned of (`csplan/plan.go:349-357`).
* A block is resumed by its conditions; the span it was made from is saved and
  never compared, so an edited arm with the same guards keeps its old block.
  The ledger is not written atomically (`docs/RULES.md:149`).
* `MCBatchPy` menus: "all" with `ViewNamesEveryCall` (placeholders are never
  emitted, `codeViewEntries`, against `docs/RULES.md:153`); "running total"
  (`batchflow.go:70-72`) and "unsorted" with `SimpleRunsTheBatch`; "class",
  "flush" and "remark" with `RepositoryRunsTheBatch`, replies the gate accepts
  although no statement is run.
* The summary counts files that failed as written (`batchpy.go:198`).

## 7. Not modelled, and the plan

Not modelled: text rendering and templates, tree-sitter and its grammar, the
masking pre-pass, inlining, SQL normal forms and the fidelity comparison, the
precedence of configuration, the database probe, logging, React pages, the
architecture tests; Tier B validation (a `go build` in another repository) is
external. Of what is modelled, the parts left out are in the notes of the
components in `PROJECT.json`.

Planned, most important first:

1. Web: upload pipeline, mapping PUT under a running convert, the death of the
   server during a run.
2. Pure algorithms with reference definitions: `inline`, `sqltext` and
   `sqlchk`, masking of `tsscan`, precedence of `config`; retention of
   `internal/audit`.
