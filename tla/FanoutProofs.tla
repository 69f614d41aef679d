---------------------------- MODULE FanoutProofs ----------------------------
(***************************************************************************)
(* Theorems about the worker pool, for every number of indices and every   *)
(* requested pool size, and about the directory convert that runs in it,   *)
(* for every mapping directory and every schedule.                         *)
(***************************************************************************)
EXTENDS Fanout, Orders, TLAPS

USE PoolAssumption

\* What the counters mean: the channel holds one token per goroutine that has
\* not given its back, the wait group one unit per goroutine not yet done and
\* one for the goroutine about to be started.
Accounting ==
  /\ sem = Cardinality(Active)
  /\ wg = Cardinality(Pending) + (IF loop = "acquire" THEN 1 ELSE 0)

\* Where the caller's loop is decides which goroutines were started.
LoopPosition ==
  /\ \A j \in Jobs : job[j] = "none" <=> j >= cursor
  /\ loop = "acquire" => cursor <= N
  /\ loop \in {"wait", "returned"} => cursor = N + 1
  /\ loop = "returned" => Pending = {}

IInv == PoolTypeOK /\ Accounting /\ LoopPosition
-----------------------------------------------------------------------------
\* The sets the counters count are finite.
LEMMA FiniteGroups ==
  /\ IsFiniteSet(Active) /\ IsFiniteSet(Pending)
  /\ Cardinality(Active) \in Nat /\ Cardinality(Pending) \in Nat
<1>1. IsFiniteSet(Jobs)
  BY FS_Interval DEF Jobs
<1>2. Active \in SUBSET Jobs /\ Pending \in SUBSET Jobs
  BY DEF Active, Pending
<1> QED
  BY <1>1, <1>2, FS_Subset, FS_CardinalityType

LEMMA CapacityType == Capacity \in Nat /\ Capacity >= 1
BY DEF Capacity

\* No more goroutines are pending than the loop has started.
LEMMA PendingBound ==
  ASSUME PoolTypeOK, LoopPosition
  PROVE  Cardinality(Pending) <= cursor - 1
<1>1. Pending \in SUBSET (1 .. (cursor - 1))
  BY DEF Pending, LoopPosition, PoolTypeOK, Jobs
<1>2. /\ IsFiniteSet(1 .. (cursor - 1))
      /\ Cardinality(1 .. (cursor - 1)) = cursor - 1
  BY FS_Interval DEF PoolTypeOK
<1> QED
  BY <1>1, <1>2, FS_Subset

\* Steps that move a goroutine between states both counters treat alike.
LEMMA SameGroups ==
  ASSUME PoolTypeOK, job' = job
  PROVE  Active' = Active /\ Pending' = Pending
BY DEF Active, Pending
-----------------------------------------------------------------------------
LEMMA InitInv == PoolInit => IInv
<1> SUFFICES ASSUME PoolInit PROVE IInv
  OBVIOUS
<1>1. Active = {} /\ Pending = {}
  BY DEF PoolInit, Active, Pending, Jobs
<1> QED
  BY <1>1, FS_EmptySet, CapacityType
  DEF PoolInit, IInv, PoolTypeOK, Accounting, LoopPosition, JobStates, Jobs

LEMMA AddInv == IInv /\ AddToGroup => IInv'
<1> SUFFICES ASSUME IInv, AddToGroup PROVE IInv'
  OBVIOUS
<1> USE DEF IInv
<1>1. Active' = Active /\ Pending' = Pending
  BY SameGroups DEF AddToGroup
<1>2. Accounting'
  BY <1>1, FiniteGroups DEF AddToGroup, Accounting
<1>3. LoopPosition'
  BY <1>1 DEF AddToGroup, LoopPosition, PoolTypeOK
<1>4. PoolTypeOK'
  BY PendingBound, FiniteGroups DEF AddToGroup, PoolTypeOK, Accounting
<1> QED
  BY <1>2, <1>3, <1>4

LEMMA AcquireInv == IInv /\ Acquire => IInv'
<1> SUFFICES ASSUME IInv, Acquire PROVE IInv'
  OBVIOUS
<1> USE DEF IInv
<1>0. cursor \in Jobs /\ cursor \notin Active /\ cursor \notin Pending
  BY DEF Acquire, Move, LoopPosition, PoolTypeOK, Jobs, Active, Pending
<1>1. Active' = Active \cup {cursor} /\ Pending' = Pending \cup {cursor}
  BY <1>0 DEF Acquire, Move, PoolTypeOK, Active, Pending
<1>2. /\ Cardinality(Active') = Cardinality(Active) + 1
      /\ Cardinality(Pending') = Cardinality(Pending) + 1
  BY <1>0, <1>1, FiniteGroups, FS_AddElement
<1>3. Accounting'
  BY <1>2, FiniteGroups DEF Acquire, Accounting
<1>4. LoopPosition'
  BY <1>0 DEF Acquire, Move, LoopPosition, PoolTypeOK, Jobs
<1>5. PoolTypeOK'
  BY <1>0, CapacityType DEF Acquire, Move, PoolTypeOK, JobStates, Jobs
<1> QED
  BY <1>3, <1>4, <1>5

LEMMA LoopInv == IInv /\ (LoopEnds \/ Return) => IInv'
<1> SUFFICES ASSUME IInv, LoopEnds \/ Return PROVE IInv'
  OBVIOUS
<1> USE DEF IInv
<1>1. Active' = Active /\ Pending' = Pending
  BY SameGroups DEF LoopEnds, Return
<1>2. Accounting' /\ PoolTypeOK'
  BY <1>1 DEF LoopEnds, Return, Accounting, PoolTypeOK
<1>3. CASE LoopEnds
  BY <1>1, <1>2, <1>3 DEF LoopEnds, LoopPosition
<1>4. CASE Return
  <2>1. Cardinality(Pending) = 0
    BY <1>4, FiniteGroups DEF Return, Accounting
  <2>2. Pending = {}
    BY <2>1, FiniteGroups, FS_EmptySet
  <2> QED
    BY <1>1, <1>2, <1>4, <2>2 DEF Return, LoopPosition
<1> QED
  BY <1>3, <1>4

LEMMA RunInv == ASSUME NEW j \in Jobs PROVE IInv /\ (Begin(j) \/ End(j)) => IInv'
<1> SUFFICES ASSUME IInv, Begin(j) \/ End(j) PROVE IInv'
  OBVIOUS
<1> USE DEF IInv
<1>1. Active' = Active /\ Pending' = Pending
  BY DEF Begin, End, Move, PoolTypeOK, Active, Pending
<1>2. PoolTypeOK'
  BY DEF Begin, End, Move, PoolTypeOK, JobStates
<1>3. Accounting'
  BY <1>1 DEF Begin, End, Accounting
<1>4. LoopPosition'
  BY <1>1 DEF Begin, End, Move, LoopPosition, PoolTypeOK
<1> QED
  BY <1>2, <1>3, <1>4

LEMMA ReleaseInv == ASSUME NEW j \in Jobs PROVE IInv /\ Release(j) => IInv'
<1> SUFFICES ASSUME IInv, Release(j) PROVE IInv'
  OBVIOUS
<1> USE DEF IInv
<1>1. j \in Active /\ Active' = Active \ {j} /\ Pending' = Pending
  BY DEF Release, Move, PoolTypeOK, Active, Pending
<1>2. Cardinality(Active') = Cardinality(Active) - 1
  BY <1>1, FiniteGroups, FS_RemoveElement
<1>3. Cardinality(Active') \in Nat
  BY <1>1, FiniteGroups, FS_RemoveElement, FS_CardinalityType
<1>4. Accounting'
  BY <1>1, <1>2 DEF Release, Accounting
<1>5. PoolTypeOK'
  BY <1>2, <1>3, CapacityType DEF Release, Move, PoolTypeOK, JobStates, Accounting
<1>6. LoopPosition'
  BY <1>1 DEF Release, Move, LoopPosition, PoolTypeOK
<1> QED
  BY <1>4, <1>5, <1>6

LEMMA DoneInv == ASSUME NEW j \in Jobs PROVE IInv /\ Done(j) => IInv'
<1> SUFFICES ASSUME IInv, Done(j) PROVE IInv'
  OBVIOUS
<1> USE DEF IInv
<1>1. j \in Pending /\ Pending' = Pending \ {j} /\ Active' = Active
  BY DEF Done, Move, PoolTypeOK, Active, Pending
<1>2. Cardinality(Pending') = Cardinality(Pending) - 1
  BY <1>1, FiniteGroups, FS_RemoveElement
<1>3. Cardinality(Pending') \in Nat
  BY <1>1, FiniteGroups, FS_RemoveElement, FS_CardinalityType
<1>4. Accounting'
  BY <1>1, <1>2, FiniteGroups DEF Done, Accounting
<1>5. PoolTypeOK'
  BY <1>2, <1>3, FiniteGroups DEF Done, Move, PoolTypeOK, JobStates, Accounting
<1>6. LoopPosition'
  BY <1>1 DEF Done, Move, LoopPosition, PoolTypeOK
<1> QED
  BY <1>4, <1>5, <1>6

\* The counters count what they are meant to count, in every reachable state.
THEOREM PoolAccounts == PoolSpec => []IInv
<1>1. IInv /\ [PoolNext]_pool => IInv'
  <2> SUFFICES ASSUME IInv, [PoolNext]_pool PROVE IInv'
    OBVIOUS
  <2>1. CASE AddToGroup
    BY <2>1, AddInv
  <2>2. CASE Acquire
    BY <2>2, AcquireInv
  <2>3. CASE LoopEnds \/ Return
    BY <2>3, LoopInv
  <2>4. CASE \E j \in Jobs : Begin(j) \/ End(j)
    BY <2>4, RunInv
  <2>5. CASE \E j \in Jobs : Release(j)
    BY <2>5, ReleaseInv
  <2>6. CASE \E j \in Jobs : Done(j)
    BY <2>6, DoneInv
  <2>7. CASE UNCHANGED pool
    <3>1. Active' = Active /\ Pending' = Pending
      BY <2>7, SameGroups DEF pool, IInv
    <3> QED
      BY <2>7, <3>1 DEF pool, IInv, PoolTypeOK, Accounting, LoopPosition
  <2> QED
    BY <2>1, <2>2, <2>3, <2>4, <2>5, <2>6, <2>7 DEF PoolNext, Caller, Around
<1> QED
  BY InitInv, <1>1, PTL DEF PoolSpec
-----------------------------------------------------------------------------
\* The pool's state is well typed; the wait group never goes negative (a
\* panic in Go) nor the channel over its capacity.
THEOREM PoolTypeCorrect == PoolSpec => []PoolTypeOK
BY PoolAccounts, PTL DEF IInv

\* concurrency.workers bounds the calls in flight, whatever is requested.
THEOREM PoolBounded == PoolSpec => []WithinWorkers
<1>1. IInv => WithinWorkers
  BY CapacityType DEF IInv, PoolTypeOK, Accounting, WithinWorkers
<1> QED
  BY <1>1, PoolAccounts, PTL

\* RunIndexed returns after every call of fn has ended.
THEOREM PoolReturnsLast == PoolSpec => []ReturnsLast
<1>1. IInv => ReturnsLast
  BY DEF IInv, PoolTypeOK, LoopPosition, ReturnsLast, Pending, Jobs
<1> QED
  BY <1>1, PoolAccounts, PTL

\* The pool implements the parallel for its callers rely on.
THEOREM PoolImplements == PoolSpec => ImplementsParallelFor
<1> USE DEF For!Begin, For!End, For!Return, For!Next, For!vars
<1>1. PoolInit => For!Init
  BY DEF PoolInit, For!Init
<1>2. IInv /\ [PoolNext]_pool => [For!Next]_(For!vars)
  <2> SUFFICES ASSUME IInv, [PoolNext]_pool PROVE [For!Next]_(For!vars)
    OBVIOUS
  <2> USE DEF IInv
  <2>1. CASE AddToGroup \/ LoopEnds \/ UNCHANGED pool
    BY <2>1 DEF AddToGroup, LoopEnds, pool
  <2>2. CASE Acquire
    BY <2>2 DEF Acquire, Move, PoolTypeOK
  <2>3. CASE Return
    <3>1. Cardinality(Pending) = 0
      BY <2>3, FiniteGroups DEF Return, Accounting
    <3>2. Pending = {}
      BY <3>1, FiniteGroups, FS_EmptySet
    <3>3. \A j \in Jobs : job[j] = "done"
      BY <2>3, <3>2 DEF Return, LoopPosition, PoolTypeOK, Pending, Jobs
    <3> QED
      BY <2>3, <3>3 DEF Return
  <2>4. ASSUME NEW j \in Jobs, Begin(j) PROVE For!Begin(j)
    BY <2>4 DEF Begin, Move, PoolTypeOK, LoopPosition, Pending
  <2>5. ASSUME NEW j \in Jobs, End(j) PROVE For!End(j)
    BY <2>5 DEF End, Move, PoolTypeOK
  <2>6. ASSUME NEW j \in Jobs, Release(j) \/ Done(j) PROVE UNCHANGED For!vars
    BY <2>6 DEF Release, Done, Move, PoolTypeOK
  <2> QED
    BY <2>1, <2>2, <2>3, <2>4, <2>5, <2>6 DEF PoolNext, Caller, Around
<1> QED
  BY <1>1, <1>2, PoolAccounts, PTL DEF PoolSpec, For!Spec, ImplementsParallelFor
-----------------------------------------------------------------------------
(* The directory convert.                                                  *)

\* The pool goes through its own steps only, so what was proved of it holds.
THEOREM FanoutRunsThePool == FanoutSpec => PoolSpec
<1>1. FanoutInit => PoolInit
  BY DEF FanoutInit
<1>2. [FanoutNext]_fanout => [PoolNext]_pool
  BY DEF FanoutNext, MatchMappings, PoolStep, Work, LoadLedger, ReadFile, WriteFile,
         SaveLedger, JobFails, PoolReturns, Summarise, PoolNext, fanout
<1> QED
  BY <1>1, <1>2, PTL DEF FanoutSpec, PoolSpec

\* The callers' view of the pool, in the directory convert.
THEOREM FanoutImplements == FanoutSpec => ImplementsParallelFor
BY FanoutRunsThePool, PoolImplements

\* How far the workers are, as the pool sees it and as convertOneService does.
Progress ==
  \A j \in Jobs :
    /\ job[j] \in {"none", "ready"} => at[j] = "load"
    /\ job[j] \in {"ended", "released", "done"} => at[j] = "over"
    /\ at[j] = "over" <=> results[j] # "none"

\* The pool runs between the match and the summary.
Phases ==
  /\ phase \in {"match", "pool", "summary"} => exit = Nobody
  /\ phase = "match" => \A j \in Jobs : job[j] = "none"
  /\ phase = "match" => loop = "add"
  /\ phase = "pool" => service \in [Jobs -> Services]
  /\ phase = "summary" => loop = "returned"
  /\ phase = "exit" => loop \in {"add", "returned"}
  /\ phase = "exit" /\ loop = "returned" =>
       exit = IF Failed = {} THEN Nobody
              ELSE CHOOSE j \in Failed : \A k \in Failed : j <= k

\* What a worker has done to its service, while nobody else has that service.
Written(j) == (Methods[j] \ todo[j]) \X {j}

OwnWork(j) ==
  /\ at[j] = "load" =>
       /\ todo[j] = Methods[j] /\ ledger[j] = {}
       /\ service[j] \in Services => recorded[service[j]] = {} /\ merged[service[j]] = {}
  /\ at[j] \in {"read", "write"} =>
       /\ ledger[j] = Methods[j] \ todo[j]
       /\ recorded[service[j]] = {} /\ merged[service[j]] = Written(j)
  /\ at[j] = "write" => todo[j] # {} /\ view[j] = Written(j)
  /\ results[j] = "ok" =>
       recorded[service[j]] = Methods[j] /\ merged[service[j]] = Methods[j] \X {j}

Untouched ==
  phase = "match" =>
    /\ \A j \in Jobs : at[j] = "load" /\ todo[j] = Methods[j] /\ ledger[j] = {}
    /\ recorded = [s \in Services |-> {}] /\ merged = [s \in Services |-> {}]

Subtrees == /\ \A j \in Jobs : todo[j] \subseteq Methods[j]
            /\ Untouched
            /\ Apart => \A j \in Jobs : OwnWork(j)

FInv == FanoutTypeOK /\ Progress /\ Phases /\ Subtrees
-----------------------------------------------------------------------------
USE FanoutAssumption

LEMMA FanoutStarts == FanoutInit => FInv
<1> SUFFICES ASSUME FanoutInit PROVE FInv
  OBVIOUS
<1> USE DEF FanoutInit
<1>1. PoolTypeOK
  BY InitInv DEF IInv
<1>2. FanoutTypeOK
  BY <1>1 DEF FanoutTypeOK, Nobody
<1>3. Progress /\ Phases
  BY DEF Progress, Phases, PoolInit, Jobs
<1>4. Subtrees
  BY DEF Subtrees, Untouched, OwnWork
<1> QED
  BY <1>2, <1>3, <1>4 DEF FInv

\* The match gives every entry a service, or ends the command.
LEMMA MatchKeeps == FInv /\ IInv /\ MatchMappings => FInv'
<1> SUFFICES ASSUME FInv, IInv, MatchMappings PROVE FInv'
  OBVIOUS
<1> USE DEF FInv, MatchMappings
<1>0. UNCHANGED <<PoolTypeOK, Failed>>
  BY DEF PoolTypeOK, pool, Failed
<1>1. service' \in [Jobs -> Services \cup {NoKey}] /\ (phase' = "pool" => service' \in [Jobs -> Services])
  <2>1. CASE DirectoryLoads /\ Matches
    <3>1. ASSUME NEW j \in Jobs
          PROVE  dir[CHOOSE f \in Declaring(Key[j]) : TRUE].service \in Services
      <4>1. Declaring(Key[j]) # {} /\ Declaring(Key[j]) \subseteq Drafts
        BY <2>1 DEF Matches, Declaring, Tagged
      <4>2. (CHOOSE f \in Declaring(Key[j]) : TRUE) \in Drafts
        BY <4>1
      <4> QED
        BY <4>2 DEF FanoutTypeOK
    <3> QED
      BY <2>1, <3>1
  <2>2. CASE ~ (DirectoryLoads /\ Matches)
    BY <2>2 DEF FanoutTypeOK
  <2> QED
    BY <2>1, <2>2
<1>2. FanoutTypeOK'
  BY <1>0, <1>1 DEF FanoutTypeOK, disk
<1>3. Progress' /\ Phases'
  BY <1>0, <1>1 DEF Progress, Phases, pool, disk
<1>4. Subtrees'
  <2>1. \A j \in Jobs : at'[j] = "load" /\ todo'[j] = Methods[j] /\ ledger'[j] = {} /\ results'[j] = "none"
    BY DEF Subtrees, Untouched, Progress
  <2>2. \A s \in Services : recorded'[s] = {} /\ merged'[s] = {}
    BY DEF Subtrees, Untouched, disk
  <2>3. phase' # "match"
    OBVIOUS
  <2>4. \A j \in Jobs : OwnWork(j)'
    BY <2>1, <2>2 DEF OwnWork
  <2> QED
    BY <2>1, <2>3, <2>4 DEF Subtrees, Untouched
<1> QED
  BY <1>2, <1>3, <1>4

\* The pool's own steps start no worker before the match and end none that has
\* not reported.
LEMMA PoolKeeps == FInv /\ IInv /\ IInv' /\ PoolStep => FInv'
<1> SUFFICES ASSUME FInv, IInv, IInv', PoolStep PROVE FInv'
  OBVIOUS
<1> USE DEF FInv, PoolStep
<1>0. Failed' = Failed /\ run' = run
  BY DEF Failed, run
<1>2. FanoutTypeOK'
  BY <1>0 DEF FanoutTypeOK, run, IInv
<1>3. Progress'
  <2>1. CASE Caller
    BY <1>0, <2>1 DEF Progress, run, Caller, AddToGroup, Acquire, LoopEnds, Return, Move, IInv, PoolTypeOK
  <2>2. ASSUME NEW j \in Jobs, Around(j) PROVE Progress'
    BY <1>0, <2>2 DEF Progress, run, Around, Begin, Release, Done, Move, IInv, PoolTypeOK
  <2>3. ASSUME NEW j \in Jobs, End(j), at[j] = "over" PROVE Progress'
    BY <1>0, <2>3 DEF Progress, run, End, Move, IInv, PoolTypeOK
  <2> QED
    BY <2>1, <2>2, <2>3
<1>4. Phases'
  BY <1>0 DEF Phases, run
<1>5. Subtrees'
  BY <1>0 DEF Subtrees, Untouched, OwnWork, Written, Apart, run
<1> QED
  BY <1>2, <1>3, <1>4, <1>5

\* A worker's step changes nothing of the pool, and of the others' progress.
LEMMA WorkIsInside ==
  ASSUME NEW j \in Jobs, FInv, Work(j) \/ JobFails(j)
  PROVE  /\ UNCHANGED <<pool, dir, phase, service, exit>>
         /\ phase = "pool" /\ job[j] = "running" /\ at[j] # "over"
         /\ \A i \in Jobs \ {j} : at'[i] = at[i] /\ todo'[i] = todo[i] /\ view'[i] = view[i]
                                /\ ledger'[i] = ledger[i] /\ results'[i] = results[i]
<1> USE DEF FInv, FanoutTypeOK
<1>1. CASE LoadLedger(j)
  BY <1>1 DEF LoadLedger, At, Goto
<1>2. CASE ReadFile(j)
  BY <1>2 DEF ReadFile, At, Goto
<1>3. CASE WriteFile(j)
  BY <1>3 DEF WriteFile, At, Goto
<1>4. CASE SaveLedger(j)
  BY <1>4 DEF SaveLedger, At, Goto
<1>5. CASE JobFails(j)
  BY <1>5 DEF JobFails, Goto
<1> QED
  BY <1>1, <1>2, <1>3, <1>4, <1>5 DEF Work

LEMMA WorkKeepsType ==
  ASSUME NEW j \in Jobs, FInv, Work(j) \/ JobFails(j) PROVE FanoutTypeOK'
<1> USE DEF FInv
<1>0. PoolTypeOK'
  BY WorkIsInside DEF FanoutTypeOK, PoolTypeOK, pool
<1>a. service[j] \in Services
  BY WorkIsInside DEF Phases
<1> USE DEF FanoutTypeOK
<1>1. CASE LoadLedger(j)
  BY <1>0, <1>1, <1>a DEF LoadLedger, At, Goto
<1>2. CASE ReadFile(j)
  <2>1. PICK n \in todo[j] : folder' = [folder EXCEPT ![n] = j]
    BY <1>2 DEF ReadFile
  <2>2. n \in AllMethods
    OBVIOUS
  <2>3. folder' \in [AllMethods -> Jobs \cup {Nobody}]
    BY <2>1, <2>2
  <2> QED
    BY <1>0, <1>2, <1>a, <2>3 DEF ReadFile, At, Goto
<1>3. CASE WriteFile(j)
  <2>1. PICK n \in todo[j] :
          /\ merged' = IF \E p \in view[j] : p[1] = n THEN merged
                      ELSE [merged EXCEPT ![service[j]] = view[j] \cup {<<n, j>>}]
          /\ ledger' = [ledger EXCEPT ![j] = @ \cup {n}]
          /\ todo' = [todo EXCEPT ![j] = @ \ {n}]
    BY <1>3 DEF WriteFile
  <2>2. n \in AllMethods
    OBVIOUS
  <2>3. view[j] \cup {<<n, j>>} \in SUBSET (AllMethods \X Jobs)
    BY <2>2
  <2>4. merged' \in [Services -> SUBSET (AllMethods \X Jobs)]
    BY <2>1, <2>3, <1>a
  <2>5. ledger' \in [Jobs -> SUBSET AllMethods] /\ todo' \in [Jobs -> SUBSET AllMethods]
    BY <2>1, <2>2
  <2> QED
    BY <1>0, <1>3, <2>4, <2>5 DEF WriteFile, At, Goto
<1>4. CASE SaveLedger(j)
  BY <1>0, <1>4, <1>a DEF SaveLedger, At, Goto
<1>5. CASE JobFails(j)
  BY <1>0, <1>5 DEF JobFails, Goto, disk
<1> QED
  BY <1>1, <1>2, <1>3, <1>4, <1>5 DEF Work

LEMMA WorkKeepsPhases ==
  ASSUME NEW j \in Jobs, FInv, Work(j) \/ JobFails(j) PROVE Progress' /\ Phases'
<1>0. /\ UNCHANGED <<pool, phase, service, exit>> /\ phase = "pool" /\ job[j] = "running"
      /\ \A i \in Jobs \ {j} : at'[i] = at[i] /\ results'[i] = results[i]
  BY WorkIsInside
<1>1. at'[j] = "over" <=> results'[j] # "none"
  <2> USE DEF FInv, FanoutTypeOK, Progress
  <2>1. CASE LoadLedger(j)
    BY <2>1 DEF LoadLedger, At, Goto
  <2>2. CASE ReadFile(j)
    BY <2>2 DEF ReadFile, At, Goto
  <2>3. CASE WriteFile(j)
    BY <2>3 DEF WriteFile, At, Goto
  <2>4. CASE SaveLedger(j)
    BY <2>4 DEF SaveLedger, At, Goto
  <2>5. CASE JobFails(j)
    BY <2>5 DEF JobFails, Goto
  <2> QED
    BY <2>1, <2>2, <2>3, <2>4, <2>5 DEF Work
<1>2. Progress'
  BY <1>0, <1>1 DEF FInv, Progress, pool
<1>3. Phases'
  BY <1>0 DEF FInv, Phases, pool
<1> QED
  BY <1>2, <1>3

\* What a worker does to its service while the service is its own.
LEMMA WorkOnOwn ==
  ASSUME NEW j \in Jobs, FInv, Apart, Work(j) \/ JobFails(j)
  PROVE  /\ OwnWork(j)' /\ todo'[j] \subseteq Methods[j]
         /\ \A s \in Services \ {service[j]} : recorded'[s] = recorded[s] /\ merged'[s] = merged[s]
<1> USE DEF FInv
<1>a. service[j] \in Services /\ OwnWork(j) /\ at[j] # "over" /\ results[j] = "none"
      /\ service' = service /\ todo[j] \subseteq Methods[j]
  BY WorkIsInside DEF Phases, Subtrees, Progress, FanoutTypeOK
<1> USE DEF FanoutTypeOK
<1>1. CASE LoadLedger(j)
  <2>1. UNCHANGED <<todo, recorded, merged>> /\ at[j] = "load"
    BY <1>1 DEF LoadLedger, At
  <2>2. todo[j] = Methods[j] /\ recorded[service[j]] = {} /\ merged[service[j]] = {} /\ ledger[j] = {}
    BY <1>a, <2>1 DEF OwnWork
  <2>3. Written(j)' = {}
    BY <2>1, <2>2 DEF Written
  <2>4. ledger'[j] = {} /\ at'[j] \in {"read", "over"} /\ results'[j] # "ok"
    BY <1>1, <1>a, <2>2 DEF LoadLedger, At, Goto
  <2> QED
    BY <1>a, <2>1, <2>2, <2>3, <2>4 DEF OwnWork
<1>2. CASE ReadFile(j)
  BY <1>a, <1>2 DEF ReadFile, At, Goto, OwnWork, Written
<1>3. CASE WriteFile(j)
  <2>1. PICK n \in todo[j] :
          /\ merged' = IF \E p \in view[j] : p[1] = n THEN merged
                      ELSE [merged EXCEPT ![service[j]] = view[j] \cup {<<n, j>>}]
          /\ ledger' = [ledger EXCEPT ![j] = @ \cup {n}]
          /\ todo' = [todo EXCEPT ![j] = @ \ {n}]
    BY <1>3 DEF WriteFile
  <2>2. UNCHANGED <<service, recorded, results>> /\ at[j] = "write" /\ at' = [at EXCEPT ![j] = "read"]
    BY <1>3 DEF WriteFile, At, Goto
  <2>3. view[j] = Written(j) /\ merged[service[j]] = Written(j) /\ recorded[service[j]] = {}
        /\ ledger[j] = Methods[j] \ todo[j]
    BY <1>a, <2>2 DEF OwnWork
  <2>4. ~ \E p \in view[j] : p[1] = n
    BY <2>3 DEF Written
  <2>5. merged'[service[j]] = Written(j) \cup {<<n, j>>}
    BY <1>a, <2>1, <2>3, <2>4
  <2>6. todo'[j] = todo[j] \ {n} /\ ledger'[j] = ledger[j] \cup {n} /\ n \in Methods[j]
    BY <1>a, <2>1
  <2>7. Written(j)' = Written(j) \cup {<<n, j>>}
    BY <1>a, <2>6 DEF Written
  <2>8. ledger'[j] = Methods[j] \ todo'[j]
    BY <1>a, <2>3, <2>6
  <2>9. \A s \in Services \ {service[j]} : merged'[s] = merged[s]
    BY <2>1
  <2> QED
    BY <1>a, <2>2, <2>3, <2>5, <2>6, <2>7, <2>8, <2>9 DEF OwnWork
<1>4. CASE SaveLedger(j)
  <2>1. at[j] = "read" /\ todo[j] = {} /\ UNCHANGED <<service, todo, merged>>
        /\ at'[j] = "over" /\ recorded' = [recorded EXCEPT ![service[j]] = ledger[j]]
    BY <1>4 DEF SaveLedger, At, Goto
  <2>2. ledger[j] = Methods[j] /\ merged[service[j]] = Methods[j] \X {j}
    BY <1>a, <2>1 DEF OwnWork, Written
  <2> QED
    BY <1>a, <2>1, <2>2 DEF OwnWork
<1>5. CASE JobFails(j)
  BY <1>a, <1>5 DEF JobFails, Goto, OwnWork, disk
<1> QED
  BY <1>1, <1>2, <1>3, <1>4, <1>5 DEF Work

LEMMA WorkKeeps == ASSUME NEW j \in Jobs PROVE FInv /\ (Work(j) \/ JobFails(j)) => FInv'
<1> SUFFICES ASSUME FInv, Work(j) \/ JobFails(j) PROVE FInv'
  OBVIOUS
<1>1. FanoutTypeOK' /\ Progress' /\ Phases'
  BY WorkKeepsType, WorkKeepsPhases
<1>2. /\ UNCHANGED <<phase, service>> /\ phase = "pool"
      /\ \A i \in Jobs \ {j} : at'[i] = at[i] /\ todo'[i] = todo[i] /\ view'[i] = view[i]
                             /\ ledger'[i] = ledger[i] /\ results'[i] = results[i]
  BY WorkIsInside
<1>3. \A i \in Jobs : todo'[i] \subseteq Methods[i]
  <2>1. todo'[j] \subseteq todo[j]
    BY DEF FInv, FanoutTypeOK, Work, LoadLedger, ReadFile, WriteFile, SaveLedger, JobFails
  <2> QED
    BY <1>2, <2>1 DEF FInv, Subtrees
<1>4. ASSUME Apart', NEW i \in Jobs PROVE OwnWork(i)'
  <2>1. Apart
    BY <1>2, <1>4 DEF Apart
  <2>2. CASE i = j
    BY <2>1, <2>2, WorkOnOwn
  <2>3. CASE i # j
    <3>1. service[i] # service[j] /\ service[i] \in Services /\ OwnWork(i)
      BY <1>2, <2>1, <2>3 DEF Apart, FInv, Phases, Subtrees
    <3>2. recorded'[service[i]] = recorded[service[i]] /\ merged'[service[i]] = merged[service[i]]
      BY <2>1, <3>1, WorkOnOwn
    <3> QED
      BY <1>2, <2>3, <3>1, <3>2 DEF OwnWork, Written
  <2> QED
    BY <2>2, <2>3
<1>5. Subtrees'
  BY <1>2, <1>3, <1>4 DEF Subtrees, Untouched
<1> QED
  BY <1>1, <1>5 DEF FInv

\* The first of a set of jobs in input order.
LEMMA FirstJob ==
  ASSUME NEW F \in SUBSET Jobs, F # {}
  PROVE  LET first == CHOOSE j \in F : \A k \in F : j <= k
         IN  first \in F /\ \A k \in F : first <= k
<1>1. F \in SUBSET Nat
  BY DEF Jobs
<1>2. PICK m \in F : TRUE
  OBVIOUS
<1>3. \E j \in F : \A k \in F : j <= k
  BY <1>1, <1>2, LeastNatural
<1> QED
  BY <1>3

LEMMA ReturnsKeep == FInv /\ PoolReturns => FInv'
<1> SUFFICES ASSUME FInv, PoolReturns PROVE FInv'
  OBVIOUS
<1> USE DEF FInv, PoolReturns
<1>1. FanoutTypeOK'
  BY DEF FanoutTypeOK, PoolTypeOK, pool, disk
<1>2. Progress' /\ Phases'
  BY DEF Progress, Phases, pool
<1>3. Subtrees'
  BY DEF Subtrees, Untouched, Apart, OwnWork, Written, disk
<1> QED
  BY <1>1, <1>2, <1>3

LEMMA SummaryKeeps == FInv /\ Summarise => FInv'
<1> SUFFICES ASSUME FInv, Summarise PROVE FInv'
  OBVIOUS
<1> USE DEF FInv, Summarise
<1>0. Failed' = Failed /\ Failed \in SUBSET Jobs
  BY DEF Failed
<1>1. exit' \in Jobs \cup {Nobody}
  BY <1>0, FirstJob
<1>2. FanoutTypeOK'
  BY <1>1 DEF FanoutTypeOK, PoolTypeOK, pool, disk
<1>3. Progress' /\ Phases'
  BY <1>0 DEF Progress, Phases, pool
<1>4. Subtrees'
  BY DEF Subtrees, Untouched, Apart, OwnWork, Written, disk
<1> QED
  BY <1>2, <1>3, <1>4

\* What the workers, the pool and the summary are to each other, always.
THEOREM FanoutInvariant == FanoutSpec => [](FInv /\ IInv)
<1>1. FInv /\ IInv /\ IInv' /\ [FanoutNext]_fanout => FInv'
  <2> SUFFICES ASSUME FInv, IInv, IInv', [FanoutNext]_fanout PROVE FInv'
    OBVIOUS
  <2>1. CASE MatchMappings
    BY <2>1, MatchKeeps
  <2>2. CASE PoolStep
    BY <2>2, PoolKeeps
  <2>3. CASE \E j \in Jobs : Work(j) \/ JobFails(j)
    BY <2>3, WorkKeeps
  <2>4. CASE PoolReturns
    BY <2>4, ReturnsKeep
  <2>5. CASE Summarise
    BY <2>5, SummaryKeeps
  <2>6. CASE UNCHANGED fanout
    BY <2>6 DEF fanout, run, pool, FInv, FanoutTypeOK, PoolTypeOK, Progress, Phases, Failed,
                Subtrees, Untouched, Apart, OwnWork, Written
  <2> QED
    BY <2>1, <2>2, <2>3, <2>4, <2>5, <2>6 DEF FanoutNext
<1> QED
  BY <1>1, FanoutStarts, FanoutRunsThePool, PoolAccounts, PTL DEF FanoutSpec

\* The directory convert's state is well typed.
THEOREM FanoutTypeCorrect == FanoutSpec => []FanoutTypeOK
BY FanoutInvariant, PTL DEF FInv

\* For every number of entries, pool size, mapping directory, set of failures
\* and schedule: the summary is complete and names the first failure, and what
\* it reports as converted is on disk, where no two entries share a service.
THEOREM SummaryHolds == FanoutSpec => []ReportedAsDone
<1>1. FInv /\ IInv => ReportedAsDone
  <2> SUFFICES ASSUME FInv, IInv PROVE ReportedAsDone
    OBVIOUS
  <2>1. OwnSubtree
    BY DEF FInv, Subtrees, OwnWork, OwnSubtree
  <2>2. ASSUME Converted PROVE \A j \in Jobs : results[j] # "none"
    <3>1. loop = "returned"
      BY <2>2 DEF Converted, FInv, Phases
    <3>2. \A j \in Jobs : job[j] = "done"
      BY <3>1 DEF IInv, PoolTypeOK, LoopPosition, Pending, Jobs
    <3> QED
      BY <3>2 DEF FInv, Progress
  <2>3. ASSUME Converted, phase = "exit"
        PROVE  /\ exit = Nobody <=> Failed = {}
               /\ Failed # {} => exit \in Failed /\ \A j \in Failed : exit <= j
    <3>1. exit = IF Failed = {} THEN Nobody ELSE CHOOSE j \in Failed : \A k \in Failed : j <= k
      BY <2>3 DEF Converted, FInv, Phases
    <3>2. Failed \in SUBSET Jobs /\ Nobody \notin Jobs
      BY DEF Failed, Nobody, Jobs
    <3> QED
      BY <3>1, <3>2, FirstJob
  <2> QED
    BY <2>1, <2>2, <2>3 DEF ReportedAsDone, SummaryIsComplete
<1> QED
  BY <1>1, FanoutInvariant, PTL
=============================================================================
