----------------------------- MODULE RunIndexed -----------------------------
(***************************************************************************)
(* common.RunIndexed: a bounded worker pool.  The caller's loop adds to    *)
(* the wait group, takes a token from the semaphore channel and starts a   *)
(* goroutine; the goroutine runs fn, gives a token back, then reports      *)
(* done; the caller waits for the group.                                   *)
(***************************************************************************)
EXTENDS Integers, FiniteSets

CONSTANTS
  N,         \* number of indices
  Workers    \* requested pool size, any integer

ASSUME PoolAssumption == N \in Nat /\ Workers \in Int

Jobs == 1 .. N
Capacity == IF Workers < 1 THEN 1 ELSE Workers

VARIABLES
  loop,    \* the caller: "add", "acquire", "wait", "returned"
  cursor,  \* the index the caller's loop is at
  sem,     \* tokens in the channel
  wg,      \* the wait group's counter
  job      \* the goroutines: "none", "ready", "running", "ended",
           \* "released", "done"

pool == <<loop, cursor, sem, wg, job>>

JobStates == {"none", "ready", "running", "ended", "released", "done"}

PoolTypeOK ==
  /\ loop \in {"add", "acquire", "wait", "returned"}
  /\ cursor \in 1 .. (N + 1)
  /\ sem \in 0 .. Capacity
  /\ wg \in 0 .. N
  /\ job \in [Jobs -> JobStates]

PoolInit ==
  /\ loop = "add"
  /\ cursor = 1
  /\ sem = 0
  /\ wg = 0
  /\ job = [j \in Jobs |-> "none"]

Move(j, from, to) ==
  /\ job[j] = from
  /\ job' = [job EXCEPT ![j] = to]

\* Mutant: the goroutine adds itself to the group.
AddNothing ==
  /\ loop = "add" /\ cursor <= N
  /\ loop' = "acquire"
  /\ UNCHANGED <<wg, cursor, sem, job>>

AddToGroup ==
  /\ loop = "add" /\ cursor <= N
  /\ wg' = wg + 1
  /\ loop' = "acquire"
  /\ UNCHANGED <<cursor, sem, job>>

\* The send blocks while the channel is full; then the goroutine is started.
Acquire ==
  /\ loop = "acquire"
  /\ sem < Capacity
  /\ sem' = sem + 1
  /\ Move(cursor, "none", "ready")
  /\ cursor' = cursor + 1
  /\ loop' = "add"
  /\ UNCHANGED wg

LoopEnds ==
  /\ loop = "add" /\ cursor = N + 1
  /\ loop' = "wait"
  /\ UNCHANGED <<cursor, sem, wg, job>>

Begin(j) ==
  /\ Move(j, "ready", "running")
  /\ UNCHANGED <<loop, cursor, sem, wg>>

End(j) ==
  /\ Move(j, "running", "ended")
  /\ UNCHANGED <<loop, cursor, sem, wg>>

\* Mutant: the token is never given back.
ReleaseNothing(j) ==
  /\ Move(j, "ended", "released")
  /\ UNCHANGED <<loop, cursor, sem, wg>>

\* The deferred calls run last-in first-out: the token first.
Release(j) ==
  /\ Move(j, "ended", "released")
  /\ sem' = sem - 1
  /\ UNCHANGED <<loop, cursor, wg>>

Done(j) ==
  /\ Move(j, "released", "done")
  /\ wg' = wg - 1
  /\ UNCHANGED <<loop, cursor, sem>>

Return ==
  /\ loop = "wait" /\ wg = 0
  /\ loop' = "returned"
  /\ UNCHANGED <<cursor, sem, wg, job>>

Caller == AddToGroup \/ Acquire \/ LoopEnds \/ Return
Around(j) == Begin(j) \/ Release(j) \/ Done(j)

PoolNext == Caller \/ (\E j \in Jobs : Around(j) \/ End(j))

PoolSpec == PoolInit /\ [][PoolNext]_pool
-----------------------------------------------------------------------------
(* Properties.                                                             *)

Active == {j \in Jobs : job[j] \in {"ready", "running", "ended"}}
Pending == {j \in Jobs : job[j] \notin {"none", "done"}}

\* Never more calls of fn at a time than the configured workers
\* (concurrency.workers bounds the LLM calls in flight).
WithinWorkers == Cardinality(Active) <= Capacity

\* When RunIndexed returns every fn has returned: nobody writes into the
\* results slices the caller now reads.
ReturnsLast == loop = "returned" => \A j \in Jobs : job[j] = "done"

For == INSTANCE ParallelFor WITH
  begun <- {j \in Jobs : job[j] \notin {"none", "ready"}},
  ended <- {j \in Jobs : job[j] \in {"ended", "released", "done"}},
  returned <- loop = "returned"
\* The pool is a parallel for: each index once, and a return that comes last.
ImplementsParallelFor == For!Spec
=============================================================================
