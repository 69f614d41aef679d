---------------------------- MODULE CommandProofs ---------------------------
(***************************************************************************)
(* Theorems about the commands that write over what earlier runs and the   *)
(* user left: batchpy over a directory (BatchRun), for every directory and *)
(* whatever the conversions return; convertcs with its ledger (CsRuns),    *)
(* for every plan, reply and edition of the source; gentest beside the     *)
(* user's suites (GenTestRuns), for every service.                         *)
(***************************************************************************)
EXTENDS BatchRun, CsRuns, GenTestRuns, SequenceTheorems, TLAPS

-----------------------------------------------------------------------------
(* batchpy.                                                                 *)

Files == {serviceName(paths[i]) : i \in DOMAIN paths}
Statuses == {"converted", "skipped", "failed"}

\* What a result holds of its program, and which files there are.
ResultsAreOfThePaths ==
  /\ paths \in Batches
  /\ Len(results) \in Nat /\ results = [i \in 1 .. Len(results) |-> results[i]]
  /\ Len(results) <= Len(paths)
  /\ \A i \in DOMAIN results :
       /\ results[i].status \in Statuses
       /\ results[i].status = "converted" => NameOf(i) = serviceName(paths[i])
TypeOK ==
  /\ ResultsAreOfThePaths
  /\ phase \in {"convert", "write", "refused", "ended"}
  /\ turn \in Nat \ {0} /\ firstErr \in BOOLEAN
  /\ out = [n \in Files |-> out[n]]

\* Before the gate, and when it refuses, no file is written.
Untouched ==
  /\ phase \in {"convert", "refused"} => \A n \in Files : out[n] = Older
  /\ phase = "convert" => turn = 1 /\ ~firstErr
  /\ phase = "refused" => firstErr
\* What the gate let through: no two results share a file, and those whose
\* turn has come are in theirs.
Apart == \A i, j \in Converted : NameOf(i) = NameOf(j) => i = j
InPlace ==
  /\ turn <= Len(results) + 1
  /\ \A i \in Converted : i < turn => out[NameOf(i)].from = i
  /\ \A n \in Files :
       \/ out[n] = Older
       \/ out[n].from \in Converted /\ out[n].from < turn /\ NameOf(out[n].from) = n
\* Of those it reports the first that failed or was torn.
Reported ==
  firstErr <=> \/ \E i \in DOMAIN results : i < turn /\ results[i].status = "failed"
               \/ \E n \in Files : out[n].state \in Broken
Inv ==
  /\ TypeOK /\ Untouched
  /\ phase \in {"write", "ended"} => Apart /\ InPlace /\ Reported
  /\ phase = "ended" => turn = Len(results) + 1

-----------------------------------------------------------------------------
\* A file is one of the run's, and a converted result's file is.
LEMMA FileOfResult ==
  ASSUME TypeOK, NEW i \in Converted
  PROVE  /\ i \in 1 .. Len(results)
         /\ i \in DOMAIN paths
         /\ NameOf(i) = serviceName(paths[i])
         /\ NameOf(i) \in Files
<1>1. i \in 1 .. Len(results)
  BY DEF TypeOK, ResultsAreOfThePaths, Converted
<1>2. Len(paths) \in Nat /\ DOMAIN paths = 1 .. Len(paths)
  BY BatchesAreSequences DEF TypeOK, ResultsAreOfThePaths
<1>3. i \in DOMAIN paths
  BY <1>1, <1>2 DEF TypeOK, ResultsAreOfThePaths
<1>4. NameOf(i) = serviceName(paths[i])
  BY <1>1 DEF TypeOK, ResultsAreOfThePaths, Converted
<1> QED
  BY <1>1, <1>3, <1>4 DEF Files

LEMMA DomainOfResults ==
  ASSUME TypeOK
  PROVE  DOMAIN results = 1 .. Len(results) /\ Len(results) \in Nat /\ DOMAIN out = Files
BY DEF TypeOK, ResultsAreOfThePaths

\* A run begins with no result and nothing written.
LEMMA InvInit ==
  ASSUME RunInit
  PROVE  Inv
<1>1. Len(paths) \in Nat /\ DOMAIN paths = 1 .. Len(paths)
  BY BatchesAreSequences DEF RunInit
<1>2. Len(results) = 0 /\ DOMAIN results = {} /\ results = [i \in 1 .. Len(results) |-> results[i]]
  BY DEF RunInit
<1>3. out = [n \in Files |-> Older]
  BY DEF RunInit, Files
<1>4. out = [n \in Files |-> out[n]] /\ \A n \in Files : out[n] = Older
  BY <1>3
<1>5. ResultsAreOfThePaths
  BY <1>1, <1>2 DEF RunInit, ResultsAreOfThePaths
<1>6. TypeOK
  <2>1. phase \in {"convert", "write", "refused", "ended"} /\ firstErr \in BOOLEAN
    BY Zenon DEF RunInit
  <2>2. turn \in Nat \ {0}
    BY DEF RunInit
  <2> QED
    BY <1>4, <1>5, <2>1, <2>2, Zenon DEF TypeOK
<1>7. Untouched
  BY <1>4 DEF RunInit, Untouched
<1> QED
  BY <1>6, <1>7 DEF RunInit, Inv

\* Another file converted: the results before it are as they were.
LEMMA InvConvert ==
  ASSUME Inv, NEW status \in Statuses, NEW module, Convert(status, module)
  PROVE  Inv'
<1> DEFINE o == Outcome(status, paths[Len(results) + 1], module)
           S == {results[i] : i \in 1 .. Len(results)} \cup {o}
<1>1. TypeOK /\ Untouched /\ phase = "convert" /\ Len(results) \in Nat
  BY DEF Inv, TypeOK, ResultsAreOfThePaths, Convert
<1>2. results \in Seq(S)
  <2>1. results = [i \in 1 .. Len(results) |-> results[i]]
    BY <1>1 DEF TypeOK, ResultsAreOfThePaths
  <2>2. [i \in 1 .. Len(results) |-> results[i]] \in [1 .. Len(results) -> S]
    OBVIOUS
  <2> QED
    BY <2>1, <2>2, <1>1
<1>3. /\ results' = Append(results, o) /\ Len(results) < Len(paths)
      /\ paths' = paths /\ phase' = phase /\ turn' = turn /\ out' = out /\ firstErr' = firstErr
  BY DEF Convert
<1> HIDE DEF S
<1>4. /\ Append(results, o) \in Seq(S)
      /\ Len(Append(results, o)) = Len(results) + 1
      /\ \A i \in 1 .. Len(results) : Append(results, o)[i] = results[i]
      /\ Append(results, o)[Len(results) + 1] = o
  <2>1. o \in S
    BY DEF S
  <2> HIDE DEF o
  <2> QED
    BY <1>2, <2>1, AppendProperties
<1>5. o.status = status /\ (status = "converted" => o.name = serviceName(paths[Len(results) + 1]))
  BY DEF Outcome
<1> HIDE DEF o
<1>6. /\ Len(results') = Len(results) + 1
      /\ \A i \in 1 .. Len(results) : results'[i] = results[i]
      /\ results'[Len(results) + 1] = o
      /\ DOMAIN results' = 1 .. Len(results')
      /\ results' = [i \in 1 .. Len(results') |-> results'[i]]
  <2>1. results' \in Seq(S)
    BY <1>3, <1>4
  <2>2. DOMAIN results' = 1 .. Len(results') /\ results' = [i \in 1 .. Len(results') |-> results'[i]]
    BY <2>1
  <2> QED
    BY <1>3, <1>4, <2>2
<1>7. ResultsAreOfThePaths'
  <2>1. paths' \in Batches
    BY <1>1, <1>3 DEF TypeOK, ResultsAreOfThePaths
  <2>2. Len(paths) \in Nat
    BY <1>1, BatchesAreSequences DEF TypeOK, ResultsAreOfThePaths
  <2>3. Len(results') \in Nat /\ Len(results') <= Len(paths)
    BY <1>1, <1>3, <1>6, <2>2
  <2>4. ASSUME NEW i \in DOMAIN results'
        PROVE  /\ results'[i].status \in Statuses
               /\ results'[i].status = "converted" => results'[i].name = serviceName(paths[i])
    <3>1. CASE i \in 1 .. Len(results)
      <4>1. i \in DOMAIN results /\ results'[i] = results[i]
        BY <3>1, <1>1, <1>6, DomainOfResults
      <4> QED
        BY <4>1, <1>1 DEF TypeOK, ResultsAreOfThePaths, NameOf
    <3>2. CASE i = Len(results) + 1
      BY <3>2, <1>5, <1>6
    <3> QED
      BY <3>1, <3>2, <1>1, <1>6
  <2> QED
    BY <2>1, <2>3, <2>4, <1>3, <1>6 DEF ResultsAreOfThePaths, NameOf
<1>8. TypeOK' /\ Untouched'
  <2>1. Files' = Files
    BY <1>3 DEF Files
  <2> QED
    BY <2>1, <1>1, <1>3, <1>7 DEF TypeOK, Untouched
<1> QED
  BY <1>1, <1>3, <1>8 DEF Inv

\* The gate: results apart, or a run that ends with an error.
LEMMA InvGate ==
  ASSUME Inv, CollisionGate
  PROVE  Inv'
<1>1. /\ TypeOK /\ Untouched /\ phase = "convert" /\ Len(results) \in Nat /\ turn = 1 /\ ~firstErr
      /\ paths' = paths /\ results' = results /\ turn' = turn /\ out' = out
      /\ firstErr' = \E i, j \in Converted : i # j /\ NameOf(i) = NameOf(j)
      /\ phase' = IF firstErr' THEN "refused" ELSE "write"
  BY DEF Inv, TypeOK, ResultsAreOfThePaths, Untouched, CollisionGate
<1>2. /\ Files' = Files /\ Converted' = Converted
      /\ \A i \in Converted : (NameOf(i))' = NameOf(i)
      /\ DOMAIN results = 1 .. Len(results)
  BY <1>1, DomainOfResults DEF Files, Converted, NameOf
<1>3. TypeOK'
  BY <1>1, <1>2 DEF TypeOK, ResultsAreOfThePaths, NameOf
<1>4. Untouched'
  BY <1>1, <1>2 DEF Untouched
<1>5. ASSUME phase' = "write"
      PROVE  (Apart /\ InPlace /\ Reported)'
  <2>1. Apart'
    BY <1>1, <1>2, <1>5 DEF Apart
  <2>2. \A i \in 1 .. Len(results) : ~ i < turn
    BY <1>1
  <2>3. InPlace'
    BY <1>1, <1>2, <2>2 DEF InPlace, Untouched, Converted
  <2>4. \A n \in Files : out[n].state \notin Broken
    BY <1>1 DEF Untouched, Older, Broken
  <2>5. ~firstErr'
    BY <1>1, <1>5
  <2> QED
    BY <1>1, <1>2, <2>1, <2>2, <2>3, <2>4, <2>5 DEF Reported
<1> QED
  BY <1>1, <1>3, <1>4, <1>5 DEF Inv

\* A write: the file is its own, so no earlier result is overwritten.
LEMMA InvPut ==
  ASSUME Inv, phase = "write", turn <= Len(results), turn \in Converted,
         NEW state \in {"written"} \cup Broken, Put(state),
         firstErr' = (firstErr \/ state \in Broken),
         turn' = turn + 1, UNCHANGED <<paths, results, phase>>
  PROVE  Inv'
<1> DEFINE k == turn
           w == [state |-> state, from |-> k]
<1>1. /\ TypeOK /\ Untouched /\ Apart /\ InPlace /\ Reported
      /\ DOMAIN results = 1 .. Len(results) /\ Len(results) \in Nat
      /\ k \in Nat \ {0} /\ firstErr \in BOOLEAN /\ DOMAIN out = Files
  BY DomainOfResults DEF Inv, TypeOK
<1>2. NameOf(k) \in Files
  BY <1>1, FileOfResult
<1>3. /\ out' = [n \in Files |-> IF n = NameOf(k) THEN w ELSE out[n]]
      /\ Files' = Files /\ Converted' = Converted
      /\ \A i \in Converted : (NameOf(i))' = NameOf(i)
  BY <1>1, <1>2 DEF Put, TypeOK, Files, Converted, NameOf
<1>4. w.from = k /\ w.state = state
  OBVIOUS
<1> HIDE DEF w
<1>5. out[NameOf(k)] = Older
  <2>1. SUFFICES ASSUME out[NameOf(k)] # Older
                 PROVE  FALSE
    OBVIOUS
  <2>2. /\ out[NameOf(k)].from \in Converted /\ out[NameOf(k)].from < k
        /\ NameOf(out[NameOf(k)].from) = NameOf(k)
    BY <1>1, <1>2, <2>1 DEF InPlace
  <2>3. out[NameOf(k)].from = k
    BY <1>1, <2>2 DEF Apart
  <2> QED
    BY <2>2, <2>3, <1>1
<1>6. TypeOK' /\ Untouched'
  <2>1. turn' \in Nat \ {0} /\ firstErr' \in BOOLEAN
    BY <1>1
  <2>2. out' = [n \in Files |-> out'[n]]
    BY <1>3
  <2> QED
    BY <1>1, <1>3, <2>1, <2>2 DEF TypeOK, ResultsAreOfThePaths, NameOf, Untouched
<1>7. Apart'
  BY <1>1, <1>3 DEF Apart
<1>8. InPlace'
  <2>1. turn' <= Len(results) + 1
    BY <1>1
  <2>2. ASSUME NEW i \in Converted, i < turn'
        PROVE  out'[NameOf(i)].from = i
    <3>1. NameOf(i) \in Files /\ i \in 1 .. Len(results)
      BY <1>1, FileOfResult
    <3>2. CASE i = k
      BY <3>1, <3>2, <1>3, <1>4
    <3>3. CASE i # k
      <4>1. i < turn
        BY <3>1, <3>3, <2>2, <1>1
      <4>2. NameOf(i) # NameOf(k)
        BY <3>3, <1>1 DEF Apart
      <4> QED
        BY <3>1, <4>1, <4>2, <1>1, <1>3 DEF InPlace
    <3> QED
      BY <3>2, <3>3
  <2>3. ASSUME NEW n \in Files
        PROVE  \/ out'[n] = Older
               \/ out'[n].from \in Converted /\ out'[n].from < turn' /\ NameOf(out'[n].from) = n
    <3>1. CASE n = NameOf(k)
      <4>1. out'[n].from = k
        BY <3>1, <1>3, <1>4
      <4>2. k < turn'
        BY <1>1
      <4> QED
        BY <4>1, <4>2, <3>1
    <3>2. CASE n # NameOf(k)
      <4>1. out'[n] = out[n]
        BY <3>2, <1>3
      <4>2. ASSUME out[n] # Older
            PROVE  out[n].from \in Converted /\ out[n].from < turn' /\ NameOf(out[n].from) = n
        <5>1. out[n].from \in Converted /\ out[n].from < turn /\ NameOf(out[n].from) = n
          BY <4>2, <1>1 DEF InPlace
        <5>2. out[n].from \in 1 .. Len(results)
          BY <5>1, <1>1, FileOfResult
        <5> QED
          BY <5>1, <5>2, <1>1
      <4> QED
        BY <4>1, <4>2
    <3> QED
      BY <3>1, <3>2
  <2> QED
    BY <2>1, <2>2, <2>3, <1>3 DEF InPlace
<1>9. Reported'
  <2>1. \A i \in DOMAIN results : (i < turn' /\ results[i].status = "failed")
                                  <=> (i < turn /\ results[i].status = "failed")
    <3>1. ASSUME NEW i \in DOMAIN results
          PROVE  i < turn' <=> (i < turn \/ i = turn)
      BY <1>1
    <3>2. results[turn].status # "failed"
      BY DEF Converted
    <3> QED
      BY <3>1, <3>2
  <2>2. Older.state \notin Broken
    BY DEF Older, Broken
  <2>3. (\E n \in Files : out'[n].state \in Broken)
          <=> ((\E n \in Files : out[n].state \in Broken) \/ state \in Broken)
    <3>1. ASSUME NEW n \in Files, out'[n].state \in Broken
          PROVE  out[n].state \in Broken \/ state \in Broken
      BY <3>1, <1>3, <1>4
    <3>2. ASSUME NEW n \in Files, out[n].state \in Broken
          PROVE  out'[n].state \in Broken
      BY <3>2, <1>3, <1>5, <2>2
    <3>3. state \in Broken => out'[NameOf(k)].state \in Broken
      BY <1>2, <1>3, <1>4
    <3> QED
      BY <3>1, <3>2, <3>3, <1>2
  <2>4. firstErr' <=> \/ \E i \in DOMAIN results : i < turn' /\ results[i].status = "failed"
                      \/ \E n \in Files : out'[n].state \in Broken
    BY <2>1, <2>3, <1>1 DEF Reported
  <2> QED
    BY <2>4, <1>3 DEF Reported
<1> QED
  BY <1>6, <1>7, <1>8, <1>9 DEF Inv

\* A result that is not written: its failure is reported.
LEMMA InvPass ==
  ASSUME Inv, phase = "write", turn <= Len(results), turn \notin Converted,
         firstErr' = (firstErr \/ results[turn].status = "failed"),
         turn' = turn + 1, UNCHANGED <<paths, results, phase, out>>
  PROVE  Inv'
<1>1. /\ TypeOK /\ Untouched /\ Apart /\ InPlace /\ Reported
      /\ DOMAIN results = 1 .. Len(results) /\ Len(results) \in Nat
      /\ turn \in 1 .. Len(results) /\ firstErr \in BOOLEAN
  BY DomainOfResults DEF Inv, TypeOK
<1>2. /\ Files' = Files /\ Converted' = Converted
      /\ \A i \in Converted : (NameOf(i))' = NameOf(i)
  BY DEF Files, Converted, NameOf
<1>3. ASSUME NEW i \in 1 .. Len(results)
      PROVE  i < turn' <=> (i < turn \/ i = turn)
  BY <1>1
<1>4. TypeOK' /\ Untouched'
  <2>1. turn' \in Nat \ {0} /\ firstErr' \in BOOLEAN
    BY <1>1
  <2> QED
    BY <1>1, <1>2, <2>1 DEF TypeOK, ResultsAreOfThePaths, NameOf, Untouched
<1>5. Apart'
  BY <1>1, <1>2 DEF Apart
<1>6. InPlace'
  <2>1. turn' <= Len(results) + 1
    BY <1>1
  <2>2. ASSUME NEW i \in Converted, i < turn'
        PROVE  out[NameOf(i)].from = i
    <3>1. i \in 1 .. Len(results) /\ i # turn
      BY <1>1, FileOfResult
    <3> QED
      BY <2>2, <3>1, <1>1, <1>3 DEF InPlace
  <2>3. ASSUME NEW n \in Files, out[n] # Older
        PROVE  out[n].from \in Converted /\ out[n].from < turn' /\ NameOf(out[n].from) = n
    <3>1. out[n].from \in Converted /\ out[n].from < turn /\ NameOf(out[n].from) = n
      BY <2>3, <1>1 DEF InPlace
    <3>2. out[n].from \in 1 .. Len(results)
      BY <3>1, <1>1, FileOfResult
    <3> QED
      BY <3>1, <3>2, <1>3
  <2> QED
    BY <2>1, <2>2, <2>3, <1>2 DEF InPlace
<1>7. Reported'
  <2>1. (\E i \in DOMAIN results : i < turn' /\ results[i].status = "failed")
          <=> \/ \E i \in DOMAIN results : i < turn /\ results[i].status = "failed"
              \/ results[turn].status = "failed"
    BY <1>1, <1>3
  <2>2. firstErr' <=> \/ \E i \in DOMAIN results : i < turn' /\ results[i].status = "failed"
                      \/ \E n \in Files : out[n].state \in Broken
    BY <2>1, <1>1 DEF Reported
  <2> QED
    BY <2>2, <1>2 DEF Reported
<1> QED
  BY <1>4, <1>5, <1>6, <1>7 DEF Inv

LEMMA InvWrite ==
  ASSUME Inv, WriteModule
  PROVE  Inv'
<1>1. /\ phase = "write" /\ turn <= Len(results) /\ turn' = turn + 1
      /\ UNCHANGED <<paths, results, phase>>
  BY DEF WriteModule
<1>2. turn \in DOMAIN results /\ results[turn].status \in Statuses /\ firstErr \in BOOLEAN
  <2>1. turn \in 1 .. Len(results)
    BY <1>1 DEF Inv, TypeOK, ResultsAreOfThePaths
  <2> QED
    BY <2>1 DEF Inv, TypeOK, ResultsAreOfThePaths
<1>3. CASE results[turn].status = "skipped"
  <2>1. UNCHANGED <<out, firstErr>>
    BY <1>3 DEF WriteModule
  <2>2. turn \notin Converted /\ firstErr' = (firstErr \/ results[turn].status = "failed")
    BY <2>1, <1>2, <1>3 DEF Converted
  <2> QED
    BY <2>1, <2>2, <1>1, InvPass
<1>4. CASE results[turn].status = "failed"
  <2>1. firstErr' = TRUE /\ UNCHANGED out
    BY <1>4 DEF WriteModule
  <2>2. turn \notin Converted /\ firstErr' = (firstErr \/ results[turn].status = "failed")
    BY <2>1, <1>2, <1>4 DEF Converted
  <2> QED
    BY <2>1, <2>2, <1>1, InvPass
<1>5. CASE results[turn].status = "converted"
  <2>1. turn \in Converted
    BY <1>2, <1>5 DEF Converted
  <2>2. \/ Put("written") /\ UNCHANGED firstErr
        \/ \E b \in Broken : Put(b) /\ firstErr' = TRUE
    BY <1>5 DEF WriteModule
  <2>3. CASE Put("written") /\ UNCHANGED firstErr
    <3>1. firstErr' = (firstErr \/ "written" \in Broken)
      BY <2>3, <1>2 DEF Broken
    <3> QED
      BY <2>1, <2>3, <3>1, <1>1, InvPut
  <2>4. ASSUME NEW b \in Broken, Put(b), firstErr' = TRUE
        PROVE  Inv'
    <3>1. firstErr' = (firstErr \/ b \in Broken)
      BY <2>4, <1>2
    <3> QED
      BY <2>1, <2>4, <3>1, <1>1, InvPut
  <2> QED
    BY <2>2, <2>3, <2>4
<1> QED
  BY <1>2, <1>3, <1>4, <1>5 DEF Statuses

LEMMA InvEnd ==
  ASSUME Inv, EndBatch
  PROVE  Inv'
<1>1. /\ phase = "write" /\ turn > Len(results) /\ phase' = "ended"
      /\ paths' = paths /\ results' = results /\ turn' = turn /\ out' = out /\ firstErr' = firstErr
  BY DEF EndBatch
<1>2. turn = Len(results) + 1
  BY <1>1 DEF Inv, InPlace, TypeOK, ResultsAreOfThePaths
<1>3. TypeOK'
  BY <1>1 DEF Inv, TypeOK, ResultsAreOfThePaths, Files, NameOf
<1>4. (Apart /\ InPlace /\ Reported)'
  BY <1>1 DEF Inv, Apart, InPlace, Reported, Files, Converted, NameOf
<1> QED
  BY <1>1, <1>2, <1>3, <1>4 DEF Inv, Untouched

LEMMA InvStutter ==
  ASSUME Inv, UNCHANGED runVars
  PROVE  Inv'
<1>1. /\ paths' = paths /\ results' = results /\ phase' = phase
      /\ turn' = turn /\ out' = out /\ firstErr' = firstErr
  BY DEF runVars
<1>2. TypeOK' /\ Untouched'
  BY <1>1 DEF Inv, TypeOK, ResultsAreOfThePaths, Untouched, Files, NameOf
<1>3. phase' \in {"write", "ended"} => (Apart /\ InPlace /\ Reported)'
  BY <1>1 DEF Inv, Apart, InPlace, Reported, Files, Converted, NameOf
<1> QED
  BY <1>1, <1>2, <1>3 DEF Inv

THEOREM InvHolds == RunSpec => []Inv
<1>1. RunInit => Inv
  BY InvInit
<1>2. Inv /\ [RunNext]_runVars => Inv'
  <2> SUFFICES ASSUME Inv, [RunNext]_runVars
               PROVE  Inv'
    OBVIOUS
  <2>1. ASSUME NEW status \in {"converted", "skipped", "failed"}, NEW module, Convert(status, module)
        PROVE  Inv'
    BY <2>1, InvConvert DEF Statuses
  <2> QED
    BY <2>1, InvGate, InvWrite, InvEnd, InvStutter DEF RunNext
<1> QED
  BY <1>1, <1>2, PTL DEF RunSpec

THEOREM TypeCorrect == RunSpec => []TypeOK
<1>1. Inv => TypeOK
  BY DEF Inv
<1> QED
  BY <1>1, InvHolds, PTL

\* Nothing is written by a run that two files give one module; in one that
\* ends every module it converted had its write, to a file of its own, and the
\* error says whether a file failed or a write did not end: runBatchpy's
\* collision gate and its ordered writes, for every directory and whatever the conversions return.
THEOREM OutCorrect == RunSpec => []OutIsTheRuns
<1>1. ASSUME Inv
      PROVE  OutIsTheRuns
  <2>1. TypeOK /\ Untouched /\ DOMAIN out = Files /\ DOMAIN results = 1 .. Len(results) /\ Len(results) \in Nat
    BY <1>1, DomainOfResults DEF Inv
  <2>2. phase = "refused" => firstErr /\ \A n \in DOMAIN out : out[n] = Older
    BY <2>1 DEF Untouched
  <2>3. ASSUME phase = "ended"
        PROVE  /\ \A i \in Converted : out[NameOf(i)].from = i
               /\ \A n \in DOMAIN out : out[n] = Older \/ out[n].from \in Converted
               /\ firstErr <=> \/ \E i \in DOMAIN results : results[i].status = "failed"
                               \/ \E n \in DOMAIN out : out[n].state \in Broken
    <3>1. InPlace /\ Reported /\ turn = Len(results) + 1
      BY <1>1, <2>3 DEF Inv
    <3>2. \A i \in DOMAIN results : i < turn
      BY <2>1, <3>1
    <3>3. \A i \in Converted : out[NameOf(i)].from = i
      BY <3>1, <3>2 DEF InPlace, Converted
    <3>4. \A n \in DOMAIN out : out[n] = Older \/ out[n].from \in Converted
      BY <2>1, <3>1 DEF InPlace
    <3> QED
      BY <2>1, <3>1, <3>2, <3>3, <3>4 DEF Reported
  <2> QED
    BY <2>2, <2>3 DEF OutIsTheRuns
<1> QED
  BY <1>1, InvHolds, PTL

-----------------------------------------------------------------------------
(* convertcs.  Between the load of the ledger and its save, every endpoint  *)
(* whose turn has come and whose loaded block the gates accept has it, and  *)
(* no loaded block is replaced by another: not by an answer of the model,   *)
(* which is only asked for names that were not loaded.                      *)

\* Before the plan no block is filled and no endpoint has had its turn.
NotBegun == bodies = NoBodies /\ at = 1
\* The plan's endpoints in order, and what was loaded is still the ledger's.
Planned ==
  /\ IsPlan(plan) /\ plan.ok = TRUE
  /\ at \in Nat \ {0}
  /\ resumed = Loadable(file.path)
\* Of the loaded blocks those in use are unchanged, and each one the gates
\* accept for an endpoint that had its turn is in use.
KeptSoFar ==
  /\ \A n \in DOMAIN bodies : n \in DOMAIN resumed => bodies[n] = resumed[n]
  /\ \A i \in DOMAIN plan.endpoints :
       i < at /\ plan.endpoints[i].name \in DOMAIN resumed /\ Reusable(plan.endpoints[i])
         => plan.endpoints[i].name \in DOMAIN bodies
CsInv ==
  /\ stage \in {"idle", "extracted", "mapped", "generating", "writing"}
  /\ stage \in {"extracted", "mapped"} => NotBegun
  /\ stage = "generating" => Planned /\ KeptSoFar

\* A turn is an endpoint's.
LEMMA TurnIsAnEndpoints ==
  ASSUME CsInv, Turn
  PROVE  /\ Planned /\ KeptSoFar
         /\ at \in DOMAIN plan.endpoints
<1>1. Planned /\ KeptSoFar
  BY DEF CsInv, Turn
<1>2. PICK n \in Nat : Len(plan.endpoints) = n /\ DOMAIN plan.endpoints = 1..n
  BY <1>1 DEF Planned, IsPlan
<1> QED
  BY <1>1, <1>2 DEF Turn, Planned

\* A turn that leaves the blocks alone because nothing acceptable was loaded
\* for the endpoint.
LEMMA TurnPasses ==
  ASSUME CsInv, Turn, Advance, UNCHANGED bodies,
         Resumable(Ep) => ~Reusable(Ep)
  PROVE  CsInv'
<1>1. /\ Planned /\ KeptSoFar
      /\ at \in DOMAIN plan.endpoints
  BY TurnIsAnEndpoints
<1>2. /\ at' = at + 1 /\ stage' = stage /\ plan' = plan /\ resumed' = resumed /\ ledger' = ledger
      /\ file' = file /\ bodies' = bodies /\ stage = "generating"
  BY DEF Advance, setup, Turn
<1>3. Planned'
  BY <1>1, <1>2 DEF Planned, Loadable, IsPlan
<1>4. ASSUME NEW i \in DOMAIN plan.endpoints, i < at + 1,
             plan.endpoints[i].name \in DOMAIN resumed, Reusable(plan.endpoints[i])
      PROVE  plan.endpoints[i].name \in DOMAIN bodies
  <2>1. i # at
    BY <1>4 DEF Resumable, Ep
  <2>2. i \in Nat /\ at \in Nat
    <3>1. PICK n \in Nat : DOMAIN plan.endpoints = 1..n
      BY <1>1 DEF Planned, IsPlan
    <3> QED
      BY <3>1, <1>1 DEF Planned
  <2>3. i < at
    BY <1>4, <2>1, <2>2
  <2> QED
    BY <1>1, <1>4, <2>3 DEF KeptSoFar
<1>5. KeptSoFar'
  BY <1>1, <1>2, <1>4 DEF KeptSoFar, Reusable
<1> QED
  BY <1>2, <1>3, <1>5 DEF CsInv

\* A turn that fills the endpoint's block: with the loaded one, or with
\* another when none was loaded.
LEMMA TurnFills ==
  ASSUME CsInv, Turn, Advance, NEW b, Fill(b),
         Resumable(Ep) => b = resumed[Ep.name]
  PROVE  CsInv'
<1>1. /\ Planned /\ KeptSoFar
      /\ at \in DOMAIN plan.endpoints
  BY TurnIsAnEndpoints
<1>2. /\ at' = at + 1 /\ stage' = stage /\ plan' = plan /\ resumed' = resumed /\ ledger' = ledger
      /\ file' = file /\ stage = "generating"
  BY DEF Advance, setup, Turn
<1>3. /\ DOMAIN bodies' = DOMAIN bodies \cup {Ep.name}
      /\ \A n \in DOMAIN bodies : bodies'[n] = bodies[n]
      /\ Ep.name \notin DOMAIN bodies => bodies'[Ep.name] = b
  BY DEF Fill
<1>4. Planned'
  BY <1>1, <1>2 DEF Planned, Loadable, IsPlan
<1>5. \A n \in DOMAIN bodies' : n \in DOMAIN resumed => bodies'[n] = resumed[n]
  BY <1>1, <1>3 DEF KeptSoFar, Resumable
<1>6. ASSUME NEW i \in DOMAIN plan.endpoints, i < at + 1,
             plan.endpoints[i].name \in DOMAIN resumed, Reusable(plan.endpoints[i])
      PROVE  plan.endpoints[i].name \in DOMAIN bodies'
  <2>1. CASE i = at
    BY <2>1, <1>3 DEF Ep
  <2>2. CASE i # at
    <3>1. i \in Nat /\ at \in Nat
      <4>1. PICK n \in Nat : DOMAIN plan.endpoints = 1..n
        BY <1>1 DEF Planned, IsPlan
      <4> QED
        BY <4>1, <1>1 DEF Planned
    <3>2. i < at
      BY <1>6, <2>2, <3>1
    <3> QED
      BY <1>1, <1>3, <1>6, <3>2 DEF KeptSoFar
  <2> QED
    BY <2>1, <2>2
<1>7. KeptSoFar'
  BY <1>2, <1>5, <1>6 DEF KeptSoFar, Reusable
<1> QED
  BY <1>2, <1>4, <1>7 DEF CsInv

\* The turn of an endpoint, whichever way it goes.
LEMMA TurnKeepsCsInv ==
  ASSUME CsInv, Resume \/ SkipSeam \/ Exhausted \/ \E b : FillArmBody(b)
  PROVE  CsInv'
<1>1. CASE Resume
  <2>1. CASE Reusable(Ep)
    <3>1. Fill(resumed[Ep.name]) /\ Turn /\ Advance
      BY <1>1, <2>1 DEF Resume
    <3> QED
      BY <3>1, TurnFills
  <2>2. CASE ~Reusable(Ep)
    <3>1. UNCHANGED bodies /\ Turn /\ Advance
      BY <1>1, <2>2 DEF Resume
    <3> QED
      BY <3>1, <2>2, TurnPasses
  <2> QED
    BY <2>1, <2>2
<1>2. CASE SkipSeam
  <2>1. UNCHANGED bodies /\ Turn /\ Advance /\ ~Resumable(Ep)
    BY <1>2 DEF SkipSeam
  <2> QED
    BY <2>1, TurnPasses
<1>3. CASE Exhausted
  <2>1. UNCHANGED bodies /\ Turn /\ Advance /\ ~Resumable(Ep)
    BY <1>3 DEF Exhausted, Asked
  <2> QED
    BY <2>1, TurnPasses
<1>4. ASSUME NEW b, FillArmBody(b)
      PROVE  CsInv'
  <2>1. Fill(b) /\ Turn /\ Advance /\ ~Resumable(Ep)
    BY <1>4 DEF FillArmBody, Asked
  <2> QED
    BY <2>1, TurnFills
<1> QED
  BY <1>1, <1>2, <1>3, <1>4

\* A plan begins with what the ledger has and no block in use.
LEMMA PlanKeepsCsInv ==
  ASSUME CsInv, NEW p, IsPlan(p), PlanBuilt(p)
  PROVE  CsInv'
<1>1. CASE p.ok = TRUE
  <2>1. /\ plan' = p /\ stage' = "generating" /\ resumed' = Loadable(file.path)
        /\ file' = file /\ ledger' = ledger /\ bodies' = bodies /\ at' = at /\ NotBegun
    BY <1>1 DEF PlanBuilt, setup, CsInv
  <2>2. Planned'
    BY <1>1, <2>1 DEF Planned, NotBegun, Loadable, IsPlan
  <2>3. PICK n \in Nat : DOMAIN p.endpoints = 1..n
    BY <1>1 DEF IsPlan
  <2>4. DOMAIN bodies = {} /\ at = 1
    BY <2>1 DEF NotBegun, NoBodies
  <2>5. KeptSoFar'
    BY <2>1, <2>3, <2>4 DEF KeptSoFar
  <2> QED
    BY <2>1, <2>2, <2>5 DEF CsInv
<1>2. CASE p.ok # TRUE
  <2>1. stage' \in {"idle", "generating"}
    BY DEF PlanBuilt
  <2> QED
    BY <1>2 DEF PlanBuilt, CsInv
<1> QED
  BY <1>1, <1>2

\* The invariant: it holds of every run, interrupted or not.
THEOREM CsInvHolds == CsRunsSpec => []CsInv
<1>1. (\E files : RunsFrom(files)) => CsInv
  BY DEF RunsFrom, CsInv
<1>2. CsInv /\ [CsRunsNext]_csRunVars => CsInv'
  <2> SUFFICES ASSUME CsInv, [CsRunsNext]_csRunVars
               PROVE  CsInv'
    OBVIOUS
  <2>1. ASSUME NEW facts, StartRun(facts)
        PROVE  CsInv'
    BY <2>1 DEF StartRun, CsInv, NotBegun
  <2>2. ASSUME NEW m, NEW valid \in BOOLEAN, MappingLoaded(m, valid)
        PROVE  CsInv'
    <3>1. stage' \in {"idle", "mapped"} /\ bodies' = bodies /\ at' = at /\ NotBegun
      BY <2>2 DEF MappingLoaded, CsInv
    <3> QED
      BY <3>1 DEF CsInv, NotBegun
  <2>3. ASSUME NEW rendered, NEW n \in 0..7, NEW issues \in BOOLEAN, WriteTree(rendered, n, issues)
        PROVE  CsInv'
    BY <2>3 DEF WriteTree, CsInv
  <2>4. CASE SaveLedger
    BY <2>4 DEF SaveLedger, CsInv
  <2>5. CASE Crash
    BY <2>5 DEF Crash, CsInv
  <2>6. ASSUME NEW edition, EditFile(edition)
        PROVE  CsInv'
    BY <2>6 DEF EditFile, CsInv
  <2>7. CASE UNCHANGED csRunVars
    <3>1. /\ stage' = stage /\ bodies' = bodies /\ at' = at /\ plan' = plan /\ resumed' = resumed
          /\ ledger' = ledger /\ file' = file
      BY <2>7 DEF csRunVars
    <3> QED
      BY <3>1 DEF CsInv, NotBegun, Planned, KeptSoFar, Loadable, Reusable
  <2> QED
    BY <2>1, <2>2, <2>3, <2>4, <2>5, <2>6, <2>7, PlanKeepsCsInv, TurnKeepsCsInv DEF CsRunsNext
<1> QED
  BY <1>1, <1>2, PTL DEF CsRunsSpec

\* What was accepted stays in the ledger: over any number of runs, with a
\* client or without, killed anywhere and with any write breaking off, and
\* whatever the plans, replies and editions are, a save drops a loaded block
\* only when the source is another, no endpoint has its name or the gates
\* refuse it (Generate's resume, saveConvertcsLedger).
THEOREM AcceptedBlocksStay == CsRunsSpec => AcceptedBodiesKept
<1> DEFINE Kept(n) ==
             \/ ledger'.state = "torn" \/ ledger.source # file.path
             \/ ~\E i \in DOMAIN plan.endpoints :
                   plan.endpoints[i].name = n /\ armGates(plan.endpoints[i], ledger.bodies[n])
             \/ n \in DOMAIN ledger'.bodies /\ ledger'.bodies[n] = ledger.bodies[n]
<1>1. ASSUME CsInv, [CsRunsNext]_csRunVars, ledger' # ledger, ledger.state = "good",
             NEW n \in DOMAIN ledger.bodies
      PROVE  Kept(n)
  <2>1. SaveLedger \/ Crash
    BY <1>1 DEF CsRunsNext, csRunVars, StartRun, MappingLoaded, PlanBuilt, Resume, SkipSeam, Exhausted,
                FillArmBody, Advance, WriteTree, EditFile
  <2>2. CASE ledger' = Torn
    BY <2>2 DEF Torn
  <2>3. CASE Crash
    <3>1. ledger' = Torn
      BY <2>3, <1>1 DEF Crash
    <3> QED
      BY <3>1, <2>2
  <2>4. CASE SaveLedger /\ ledger' = Good(file.path, bodies)
    <3> SUFFICES ASSUME ledger.source = file.path,
                        NEW i \in DOMAIN plan.endpoints, plan.endpoints[i].name = n,
                        armGates(plan.endpoints[i], ledger.bodies[n])
                 PROVE  n \in DOMAIN ledger'.bodies /\ ledger'.bodies[n] = ledger.bodies[n]
      OBVIOUS
    <3>1. Planned /\ KeptSoFar /\ at > Len(plan.endpoints)
      BY <2>4, <1>1 DEF SaveLedger, CsInv
    <3>2. resumed = ledger.bodies
      BY <3>1, <1>1 DEF Planned, Loadable
    <3>3. i < at
      <4>1. PICK k \in Nat : Len(plan.endpoints) = k /\ DOMAIN plan.endpoints = 1..k
        BY <3>1 DEF Planned, IsPlan
      <4> QED
        BY <3>1, <4>1 DEF Planned
    <3>4. Reusable(plan.endpoints[i])
      BY <3>2 DEF Reusable
    <3>5. n \in DOMAIN bodies /\ bodies[n] = resumed[n]
      BY <1>1, <3>1, <3>2, <3>3, <3>4 DEF KeptSoFar
    <3> QED
      BY <2>4, <3>2, <3>5 DEF Good
  <2>5. SaveLedger => ledger' \in {Good(file.path, bodies), ledger, Torn}
    BY DEF SaveLedger
  <2> QED
    BY <1>1, <2>1, <2>2, <2>3, <2>4, <2>5
<1>2. CsInv /\ [CsRunsNext]_csRunVars =>
        [ledger' # ledger /\ ledger.state = "good" => \A n \in DOMAIN ledger.bodies : Kept(n)]_csRunVars
  BY <1>1
<1> QED
  BY <1>2, CsInvHolds, PTL DEF CsRunsSpec, AcceptedBodiesKept

-----------------------------------------------------------------------------
(* gentest.                                                                 *)

\* Every layer has its files.
LayersHaveFiles == DOMAIN tests = Layers

\* Init and every step keep that.
LEMMA FilesOfLayers ==
  GenSpec => []LayersHaveFiles
<1>1. GenInit => LayersHaveFiles
  BY DEF GenInit, LayersHaveFiles
<1>2. LayersHaveFiles /\ [GenNext]_genVars => LayersHaveFiles'
  BY DEF LayersHaveFiles, GenNext, genVars, AddMethod, WriteTest,
         GenerateInPlace, GenerateOut, FreshOut
<1> QED
  BY <1>1, <1>2, PTL DEF GenSpec

\* A composed file is the twin, or the only one of its layer.
LEMMA OnlyTheTwin ==
  ASSUME NEW l, NEW filled, NEW broken, NEW f \in DOMAIN tests[l] \ {Twin}
  PROVE  /\ f \in DOMAIN Composed(tests[l], l, filled, broken)
         /\ Composed(tests[l], l, filled, broken)[f] = tests[l][f]
<1>1. tests[l] # NoFiles
  BY DEF NoFiles
<1>2. outNames(l) = Twin
  BY <1>1 DEF outNames
<1> QED
  BY <1>2 DEF Composed, Having

\* No run of gentest takes a test out of a suite of the user's or out of the
\* first file gentest wrote, for every service and every order of its growth,
\* of tests written by hand and of runs in place or into an output tree, some
\* of whose files cannot be composed (outNames, Generate).
THEOREM SuitesStay == GenSpec => SuitesKept
<1> DEFINE Kept == \A l \in Layers : \A f \in DOMAIN tests[l] \ {Twin} :
                     f \in DOMAIN tests'[l] /\ tests[l][f] \subseteq tests'[l][f]
<1>1. ASSUME LayersHaveFiles, GenNext
      PROVE  Kept
  <2>1. ASSUME NEW filled, NEW broken, GenerateInPlace(filled, broken)
        PROVE  Kept
    <3>1. \A l \in Layers : tests'[l] = Composed(tests[l], l, filled, broken)
      BY <2>1 DEF GenerateInPlace
    <3> QED
      BY <3>1, OnlyTheTwin
  <2>2. ASSUME NEW m, NEW g, WriteTest(m, g)
        PROVE  Kept
    <3> SUFFICES ASSUME NEW l \in Layers, NEW f \in DOMAIN tests[l] \ {Twin}
                 PROVE  f \in DOMAIN tests'[l] /\ tests[l][f] \subseteq tests'[l][f]
      OBVIOUS
    <3>1. CASE l # m.layer
      <4>1. tests'[l] = tests[l]
        BY <1>1, <2>2, <3>1 DEF WriteTest, LayersHaveFiles
      <4> QED
        BY <4>1
    <3>2. CASE l = m.layer
      <4>1. tests'[l] = Having(tests[l], g, {m} \cup IF g \in DOMAIN tests[l] THEN tests[l][g] ELSE {})
        BY <1>1, <2>2, <3>2 DEF WriteTest, LayersHaveFiles
      <4> QED
        BY <4>1 DEF Having
    <3> QED
      BY <3>1, <3>2
  <2>3. CASE UNCHANGED tests
    BY <2>3
  <2>4. UNCHANGED tests \/ (\E m, g : WriteTest(m, g))
                        \/ (\E filled, broken : GenerateInPlace(filled, broken))
    BY <1>1 DEF GenNext, AddMethod, GenerateOut, FreshOut
  <2> QED
    BY <2>1, <2>2, <2>3, <2>4
<1>2. LayersHaveFiles /\ [GenNext]_genVars => [Kept]_genVars
  BY <1>1
<1> QED
  BY <1>2, FilesOfLayers, PTL DEF GenSpec, SuitesKept
=============================================================================
