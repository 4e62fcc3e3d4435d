--------------------------- MODULE ExtractionProofs ---------------------------
(***************************************************************************)
(* Proofs about ExtractionJobs: one active job per author, one worker per  *)
(* job, finished jobs stay finished and no worker lets go of a job, for    *)
(* any authors, replicas, requests and bounds; while no statement fails    *)
(* and nobody administers, rows and archives agree; and the jobs implement *)
(* JobLedger.                                                              *)
(***************************************************************************)
EXTENDS ExtractionJobs, WellFoundedInduction, FiniteSetTheorems, TLAPS

\* The stages at which a worker has a job it claimed; those at which the job is
\* still to be settled.
Holding == {"starting", "check", "pruning", "collecting", "recheck", "saving", "uploaded",
            "completed", "tidy", "failing", "undoing"}
Building == {"starting", "check", "collecting", "recheck", "saving", "uploaded", "failing", "undoing"}
Works(w) == pc[w] \in Building \/ (pc[w] = "pruning" /\ then[w] # "polling")

\* A request that may create a job has a key.
Terms == [Jobs -> [born : 0 .. MaxDays, retention : Retentions]]
Requested ==
  \A r \in Requests : request[r] # NoCall =>
    /\ request[r].op # "poll" => request[r].key \in Keys
    /\ request[r].op = "poll" => request[r].at = "sweeping"
HasJob == \A w \in Workers : pc[w] \in Holding \cup {"claiming"} <=> cur[w] # NoJob
\* Ids are given out once.
Born == /\ \A j \in Jobs : j > created => job[j] = NoJob
        /\ \A w \in Workers : cur[w] # NoJob => cur[w] <= created
\* A claimed job is never queued again.
NotQueued == \A w \in Workers : pc[w] \in Holding => ~ Is(cur[w], {"queued"})
HeldOnce == \A v, w \in Workers :
              pc[v] \in Holding /\ pc[w] \in Holding /\ cur[v] = cur[w] => v = w
AtMostOne ==
  \A i, j \in Jobs : Exists(i) /\ Exists(j) /\ job[i].author = job[j].author =>
    /\ job[i].key = job[j].key => i = j
    /\ Is(i, Active) /\ Is(j, Active) => i = j
\* Ids follow the days.
Dated ==
  \A j \in Jobs : j <= created =>
    /\ terms[j].born <= day
    /\ \A i \in Jobs : j <= i /\ i <= created => terms[j].born <= terms[i].born
Worked ==
  outages = 0 => \A j \in Jobs : Is(j, {"processing"}) =>
    \E w \in Workers : job[j].owner = w /\ (pc[w] = "dead" \/ (Works(w) /\ cur[w] = j))

JobsInv == TypeOK /\ outages \in Nat /\ Requested /\ HasJob /\ Born /\ NotQueued /\ HeldOnce
             /\ AtMostOne /\ Dated /\ Worked

\* What every step but a claim and an insertion does to a row: deletes it,
\* leaves it, or settles an active one.
Settles(j) == /\ Is(j, Active) /\ job'[j] \in JobRow
              /\ job'[j].author = job[j].author /\ job'[j].key = job[j].key
              /\ job'[j].status \in Finished
JobsKept == /\ job' \in [Jobs -> JobRow \cup {NoJob}]
            /\ \A j \in Jobs : job'[j] \in {job[j], NoJob} \/ Settles(j)

-----------------------------------------------------------------------------
(* Rows. *)

LEMMA NoJobIsNoRow == NoJob \notin Jobs /\ NoJob \notin JobRow /\ \A j \in Jobs : j \in Nat
  BY ExtractionAssumption DEF Jobs

LEMMA SettledRow ==
  ASSUME NEW row \in JobRow, NEW status \in Finished
  PROVE  /\ Settled(row, status) \in JobRow
         /\ Settled(row, status).author = row.author /\ Settled(row, status).key = row.key
         /\ Settled(row, status).status = status
  BY DEF Settled, JobRow

LEMMA Unchanged == job \in [Jobs -> JobRow \cup {NoJob}] /\ UNCHANGED job => JobsKept
  BY DEF JobsKept

LEMMA StopsKeep ==
  ASSUME job \in [Jobs -> JobRow \cup {NoJob}], store \subseteq Jobs, stale \subseteq Jobs, NEW js, StopJobs(js)
  PROVE  JobsKept /\ store' \subseteq Jobs /\ stale' \subseteq Jobs
<1> DEFINE stopped == {j \in js : Is(j, Active)}
<1>1. job' = [j \in Jobs |-> IF j \in stopped THEN Settled(job[j], "stopped") ELSE job[j]]
  BY DEF StopJobs
<1>2. ASSUME NEW j \in Jobs, j \in stopped
      PROVE  Settled(job[j], "stopped") \in JobRow /\ Settles(j)
  <2>1. job[j] \in JobRow /\ Is(j, Active)
    BY <1>2 DEF Is, Exists
  <2> QED
    BY <1>1, <1>2, <2>1, SettledRow DEF Settles, Finished
<1> HIDE DEF stopped
<1>3. JobsKept
  BY <1>1, <1>2 DEF JobsKept
<1> QED
  BY <1>3 DEF StopJobs, Stir

LEMMA SettlesOne ==
  ASSUME job \in [Jobs -> JobRow \cup {NoJob}], NEW j \in Jobs, Is(j, Active), NEW status \in Finished,
         job' = [job EXCEPT ![j] = Settled(@, status)]
  PROVE  JobsKept /\ job'[j] = Settled(job[j], status) /\ job'[j].status = status
<1>1. job[j] \in JobRow
  BY DEF Is, Exists
<1>2. Settled(job[j], status) \in JobRow /\ job'[j] = Settled(job[j], status)
  BY <1>1, SettledRow
<1>3. Settles(j) /\ job'[j].status = status
  BY <1>1, <1>2, SettledRow DEF Settles
<1> QED
  BY <1>2, <1>3 DEF JobsKept

LEMMA RowsKept ==
  ASSUME JobsInv, JobsKept, created' = created
  PROVE  /\ AtMostOne' /\ \A j \in Jobs : j > created' => job'[j] = NoJob
         /\ \A j \in Jobs : job'[j] # NoJob /\ job'[j].status \in Active => job'[j] = job[j]
<1>1. ASSUME NEW j \in Jobs, job'[j] # NoJob
      PROVE  /\ Exists(j) /\ job'[j].author = job[j].author /\ job'[j].key = job[j].key
             /\ job'[j].status \in Active => job'[j] = job[j]
  BY <1>1 DEF JobsKept, Settles, Is, Exists, Active, Finished
<1>2. AtMostOne'
  BY <1>1 DEF JobsInv, AtMostOne, Is, Exists
<1>3. \A j \in Jobs : j > created' => job'[j] = NoJob
  BY <1>1 DEF JobsInv, Born, Exists
<1> QED
  BY <1>1, <1>2, <1>3

LEMMA JobsInit == Init => JobsInv
<1> SUFFICES ASSUME Init PROVE JobsInv
  OBVIOUS
<1> USE DEF Init
<1>1. TypeOK
  BY ExtractionAssumption DEF TypeOK, Stages, NoCall, Retentions
<1>2. Requested /\ HasJob /\ NotQueued /\ HeldOnce
  BY DEF Requested, HasJob, NotQueued, HeldOnce, Holding
<1>3. Born /\ AtMostOne /\ Worked
  BY DEF Born, AtMostOne, Worked, Is, Exists
<1>4. Dated
  BY ExtractionAssumption DEF Dated, Jobs
<1> QED
  BY <1>1, <1>2, <1>3, <1>4 DEF JobsInv

-----------------------------------------------------------------------------
(* A worker moves to a stage, with a job or without.                       *)

\* A finished job is deleted or left as it is.
Final == \A j \in Jobs : Is(j, Finished) => job'[j] \in {job[j], NoJob}
Kept == JobsInv' /\ Final

LEMMA KeptIsFinal == JobsKept => Final
  BY DEF JobsKept, Final, Settles, Is, Active, Finished

TypesKept ==
  /\ pc' \in [Workers -> Stages] /\ cur' \in [Workers -> Jobs \cup {NoJob}]
  /\ then' \in [Workers -> {"polling", "collecting", "saving"}]
  /\ doomed' \in [Workers -> SUBSET Jobs] /\ prunable' \in [Workers -> SUBSET Jobs]
  /\ store' \subseteq Jobs /\ stale' \subseteq Jobs
  /\ UNCHANGED <<created, request, day, terms>>
  /\ outages' \in Nat /\ (outages' = 0 => outages = 0)

\* w alone moves; it keeps a job it holds, and lets go of one only when that
\* is not its to settle any more.
Moves(w) ==
  /\ pc[w] # "dead"
  /\ \A v \in Workers : v # w => pc'[v] = pc[v] /\ cur'[v] = cur[v] /\ then'[v] = then[v]
  /\ pc'[w] \in Holding \cup {"claiming"} <=> cur'[w] # NoJob
  /\ pc'[w] \in Holding => pc[w] \in Holding /\ cur'[w] = cur[w]
  /\ pc'[w] = "claiming" => cur'[w] <= created
  /\ outages' = 0 /\ Works(w) =>
       \/ pc'[w] = "dead" \/ Works(w)'
       \/ job'[cur[w]] = NoJob \/ job'[cur[w]].status # "processing" \/ job'[cur[w]].owner # w

LEMMA WorkerMoves ==
  ASSUME JobsInv, NEW w \in Workers, JobsKept, TypesKept, Moves(w)
  PROVE  Kept
<1>1. \A v \in Workers : v # w => pc'[v] = pc[v] /\ cur'[v] = cur[v] /\ then'[v] = then[v]
  BY DEF Moves
<1>2. TypeOK' /\ Requested'
  BY DEF JobsInv, TypeOK, Requested, JobsKept, TypesKept
<1>3. HasJob'
  BY <1>1 DEF JobsInv, HasJob, Moves
<1>4. AtMostOne' /\ (\A i \in Jobs : i > created' => job'[i] = NoJob)
        /\ \A i \in Jobs : job'[i] # NoJob /\ job'[i].status \in Active => job'[i] = job[i]
  BY RowsKept DEF TypesKept
<1>5. Born'
  <2> SUFFICES ASSUME NEW v \in Workers, cur'[v] # NoJob PROVE cur'[v] <= created
    BY <1>4 DEF Born, TypesKept
  <2> QED
    BY <1>1 DEF JobsInv, Born, Moves
<1>6. \A v \in Workers : pc'[v] \in Holding => pc[v] \in Holding /\ cur'[v] = cur[v] /\ cur[v] \in Jobs
  BY <1>1 DEF JobsInv, HasJob, TypeOK, Moves
<1>7. NotQueued'
  <2> SUFFICES ASSUME NEW v \in Workers, pc'[v] \in Holding, Is(cur[v], {"queued"})' PROVE FALSE
    BY DEF NotQueued
  <2>1. cur[v] \in Jobs /\ cur'[v] = cur[v] /\ pc[v] \in Holding
    BY <1>6
  <2>2. Is(cur[v], {"queued"})
    BY <1>4, <2>1 DEF Active, Is, Exists
  <2> QED
    BY <2>1, <2>2 DEF JobsInv, NotQueued
<1>8. HeldOnce'
  BY <1>6 DEF JobsInv, HeldOnce
<1>9. Worked'
  <2> SUFFICES ASSUME outages' = 0, NEW i \in Jobs, Is(i, {"processing"})'
               PROVE  \E v \in Workers : job'[i].owner = v /\ (pc'[v] = "dead" \/ (Works(v)' /\ cur'[v] = i))
    BY DEF Worked
  <2>1. Is(i, {"processing"}) /\ job'[i] = job[i]
    BY <1>4 DEF Active, Is, Exists
  <2>2. PICK v \in Workers : job[i].owner = v /\ (pc[v] = "dead" \/ (Works(v) /\ cur[v] = i))
    BY <2>1 DEF JobsInv, Worked, TypesKept
  <2>4. CASE v # w
    BY <1>1, <2>1, <2>2, <2>4 DEF Works
  <2>5. CASE v = w
    <3>1. Works(w) /\ cur[w] = i
      BY <2>2, <2>5 DEF Moves
    <3>2. outages' = 0 => pc'[w] = "dead" \/ Works(w)'
      BY <2>1, <2>2, <2>5, <3>1 DEF Is, Exists, Moves
    <3>3. Works(w)' => cur'[w] = i
      BY <3>1 DEF Works, Building, Holding, Moves
    <3> QED
      BY <2>1, <2>2, <2>5, <3>2, <3>3
  <2> QED
    BY <2>4, <2>5
<1>10. Dated'
  BY DEF JobsInv, Dated, TypesKept
<1> QED
  BY <1>2, <1>3, <1>4, <1>5, <1>7, <1>8, <1>9, <1>10, KeptIsFinal DEF Kept, JobsInv, TypesKept

-----------------------------------------------------------------------------
(* The steps of a worker. *)

LEMMA Here ==
  ASSUME JobsInv, NEW w \in Workers
  PROVE  /\ pc \in [Workers -> Stages] /\ cur \in [Workers -> Jobs \cup {NoJob}]
         /\ then \in [Workers -> {"polling", "collecting", "saving"}]
         /\ doomed \in [Workers -> SUBSET Jobs] /\ prunable \in [Workers -> SUBSET Jobs]
         /\ store \subseteq Jobs /\ stale \subseteq Jobs
         /\ job \in [Jobs -> JobRow \cup {NoJob}] /\ outages \in Nat
         /\ pc[w] \in Holding \cup {"claiming"} <=> cur[w] # NoJob
         /\ cur[w] # NoJob => cur[w] \in Jobs /\ cur[w] <= created
  BY DEF JobsInv, TypeOK, HasJob, Born

LEMMA TickKeeps ==
  ASSUME JobsInv, NEW w \in Workers, StartTick(w) \/ Sweep(w)
  PROVE  Kept
<1>1. JobsKept /\ store' \subseteq Jobs /\ stale' \subseteq Jobs
  BY Here, StopsKeep DEF StartTick, Sweep
<1>2. StaleJobs \subseteq Jobs
  BY DEF StaleJobs
<1>3. TypesKept
  BY <1>1, <1>2, Here DEF TypesKept, StartTick, Sweep, Move, Stages
<1>4. Moves(w)
  BY Here DEF Moves, StartTick, Sweep, Move, Holding, Works, Building
<1> QED
  BY <1>1, <1>3, <1>4, WorkerMoves

LEMMA PollKeeps ==
  ASSUME JobsInv, NEW w \in Workers, Poll(w)
  PROVE  Kept
<1>1. JobsKept
  BY Here, Unchanged DEF Poll, tables
<1>2. TypesKept
  BY Here DEF TypesKept, Poll, tables, Move, Stages
<1>3. Moves(w)
  <2>1. CASE Move(w, "idle") /\ UNCHANGED cur
    BY <2>1, Here DEF Moves, Poll, Move, Holding, Works, Building
  <2>2. ASSUME NEW j \in Jobs, Is(j, {"queued"}), cur' = [cur EXCEPT ![w] = j], Move(w, "claiming")
        PROVE  Moves(w)
    <3>1. j <= created /\ j # NoJob
      BY <2>2, NoJobIsNoRow, Here DEF JobsInv, Born, Is, Exists, TypeOK
    <3> QED
      BY <2>2, <3>1, Here DEF Moves, Poll, Move, Holding, Works, Building
  <2> QED
    BY <2>1, <2>2 DEF Poll
<1> QED
  BY <1>1, <1>2, <1>3, WorkerMoves

LEMMA LoadKeeps ==
  ASSUME JobsInv, NEW w \in Workers, Load(w)
  PROVE  Kept
<1>1. JobsKept
  BY Here, Unchanged DEF Load, tables
<1>2. TypesKept
  BY Here DEF TypesKept, Load, tables, Move, Stages
<1>3. Moves(w)
  BY Here DEF Moves, Load, tables, Move, Holding, Works, Building, Exists
<1> QED
  BY <1>1, <1>2, <1>3, WorkerMoves

LEMMA ReadPrunableKeeps ==
  ASSUME JobsInv, NEW w \in Workers, ReadPrunable(w)
  PROVE  Kept
<1>1. JobsKept
  BY Here, Unchanged DEF ReadPrunable
<1>2. PrunableBy(w) \subseteq Jobs
  BY DEF PrunableBy, Prunable, Old
<1>3. TypesKept
  BY <1>2, Here DEF TypesKept, ReadPrunable, Move, Stages
<1>4. Moves(w)
  BY Here DEF Moves, ReadPrunable, Move, Holding, Works, Building
<1> QED
  BY <1>1, <1>3, <1>4, WorkerMoves

LEMMA PruneKeeps ==
  ASSUME JobsInv, NEW w \in Workers, Prune(w)
  PROVE  Kept
<1>1. JobsKept
  BY Here DEF Prune, JobsKept
<1>2. TypesKept
  BY Here DEF TypesKept, Prune, Move, Stages
<1>3. Moves(w)
  BY Here DEF Moves, Prune, Move, Holding, Works, Building
<1> QED
  BY <1>1, <1>2, <1>3, WorkerMoves

LEMMA ProgressKeeps ==
  ASSUME JobsInv, NEW w \in Workers, Progress(w) \/ Upload(w)
  PROVE  Kept
<1>1. JobsKept
  BY Here, Unchanged DEF Progress, Upload
<1>2. TypesKept
  BY Here DEF TypesKept, Progress, Upload, Move, Stages, Holding
<1>3. Moves(w)
  BY Here DEF Moves, Progress, Upload, Move, Holding, Works, Building
<1> QED
  BY <1>1, <1>2, <1>3, WorkerMoves

LEMMA CompleteKeeps ==
  ASSUME JobsInv, NEW w \in Workers, Complete(w)
  PROVE  Kept
<1>1. pc[w] = "uploaded" /\ cur[w] \in Jobs
  BY Here DEF Complete, Holding
<1>2. CASE Owns(w)
  <2>1. Is(cur[w], Active) /\ job' = [job EXCEPT ![cur[w]] = Settled(@, "completed")]
    BY <1>2 DEF Complete, Owns, Is, Active
  <2>2. JobsKept /\ job'[cur[w]].status = "completed"
    BY <1>1, <2>1, Here, SettlesOne DEF Finished
  <2>3. TypesKept
    BY <1>2, Here DEF TypesKept, Stir, Complete, Move, Stages
  <2>4. Moves(w)
    BY <1>1, <1>2, <2>2, Here DEF Moves, Complete, Move, Holding, Works, Building
  <2> QED
    BY <2>2, <2>3, <2>4, WorkerMoves
<1>3. CASE ~ Owns(w)
  <2>1. JobsKept
    BY <1>3, Here, Unchanged DEF Complete
  <2>2. TypesKept
    BY <1>3, Here DEF TypesKept, Stir, Complete, Drop, Discarded, Move, Stages
  <2>3. Moves(w)
    BY <1>1, <1>3, Here DEF Moves, Complete, Drop, Owns, Is, Exists, Move, Holding, Works, Building
  <2> QED
    BY <2>1, <2>2, <2>3, WorkerMoves
<1> QED
  BY <1>2, <1>3

LEMMA AuditKeeps ==
  ASSUME JobsInv, NEW w \in Workers, Audit(w)
  PROVE  Kept
<1>1. JobsKept
  BY Here, Unchanged DEF Audit, tables
<1>2. TypesKept
  BY Here DEF TypesKept, Audit, tables, Drop, Move, Stages
<1>3. Moves(w)
  BY Here DEF Moves, Audit, Drop, Move, Holding, Works, Building
<1> QED
  BY <1>1, <1>2, <1>3, WorkerMoves

LEMMA FailKeeps ==
  ASSUME JobsInv, NEW w \in Workers, Fail(w)
  PROVE  Kept
<1>1. pc[w] \in {"failing", "undoing"} /\ cur[w] \in Jobs
  BY Here DEF Fail, Holding
<1>2. TypesKept
  BY Here DEF TypesKept, Stir, Fail, Drop, Discarded, Move, Stages
<1>3. JobsKept /\ (job'[cur[w]] = NoJob \/ job'[cur[w]].status # "processing" \/ job'[cur[w]].owner # w)
  <2>1. CASE GivesUp(w)
    <3>1. Is(cur[w], Active) /\ job' = [job EXCEPT ![cur[w]] = Settled(@, "failed")]
      BY <2>1 DEF Fail, GivesUp, Owns, Is, Active
    <3> QED
      BY <1>1, <3>1, Here, SettlesOne DEF Finished
  <2>2. CASE ~ GivesUp(w)
    BY <2>2, Here, Unchanged DEF Fail, GivesUp, Owns, Is, Exists
  <2> QED
    BY <2>1, <2>2
<1>4. Moves(w)
  BY <1>1, <1>3, Here DEF Moves, Fail, Drop, Move, Holding, Works, Building
<1> QED
  BY <1>2, <1>3, <1>4, WorkerMoves

\* Only one worker can claim, and nobody holds what can be claimed.
LEMMA ClaimKeeps ==
  ASSUME JobsInv, NEW w \in Workers, Claim(w)
  PROVE  Kept
<1>0. pc[w] = "claiming" /\ cur[w] \in Jobs /\ cur[w] <= created
  BY Here DEF Claim, Holding
<1>1. CASE ~ Claimable(cur[w])
  <2>1. JobsKept
    BY <1>1, Here, Unchanged DEF Claim
  <2>2. TypesKept
    BY <1>1, Here DEF TypesKept, Claim, Move, Stages
  <2>3. Moves(w)
    BY <1>0, <1>1, Here DEF Moves, Claim, Move, Holding, Works, Building
  <2> QED
    BY <2>1, <2>2, <2>3, WorkerMoves
<1>2. CASE Claimable(cur[w])
  <2> DEFINE j == cur[w]
  <2>1. /\ job[j] \in JobRow /\ job[j].status = "queued" /\ job[j] # NoJob
        /\ job' = [job EXCEPT ![j] = [@ EXCEPT !.status = "processing", !.owner = w]]
    BY <1>0, <1>2, Here DEF Claim, Claimable, Is, Exists
  <2> DEFINE row == [job[j] EXCEPT !.status = "processing", !.owner = w]
  <2>2. row \in JobRow /\ row.author = job[j].author /\ row.key = job[j].key
          /\ row.status = "processing" /\ row.owner = w
    BY <2>1 DEF JobRow, Active, Finished
  <2> HIDE DEF row
  <2>3. /\ job' \in [Jobs -> JobRow \cup {NoJob}]
        /\ \A i \in Jobs : job'[i] = IF i = j THEN row ELSE job[i]
    BY <1>0, <2>1, <2>2, Here DEF row
  <2>4. /\ pc' = [pc EXCEPT ![w] = "starting"] /\ UNCHANGED <<cur, then, created, request, outages>>
        /\ UNCHANGED <<doomed, prunable, store, day, terms>> /\ stale' \subseteq stale
    BY <1>2 DEF Claim, Move
  <2> HIDE DEF j
  <2>5. \A v \in Workers : pc'[v] = IF v = w THEN "starting" ELSE pc[v]
    BY <2>4, Here
  <2>6. TypeOK' /\ Requested'
    BY <2>3, <2>4 DEF JobsInv, TypeOK, Requested, Stages
  <2>7. HasJob'
    BY <1>0, <2>4, <2>5 DEF JobsInv, HasJob, Holding
  <2>8. Born'
    BY <1>0, <2>1, <2>3, <2>4 DEF JobsInv, Born, j
  <2>9. NotQueued' /\ HeldOnce'
    <3>1. \A v \in Workers : pc[v] \in Holding => cur[v] # j /\ v # w
      BY <1>0, <2>1 DEF JobsInv, NotQueued, Is, Exists, Holding
    <3>2. \A v \in Workers : pc[v] \in Holding => cur[v] \in Jobs
      BY DEF JobsInv, HasJob, TypeOK
    <3>3. NotQueued'
      <4> SUFFICES ASSUME NEW v \in Workers, pc'[v] \in Holding PROVE job'[cur[v]] = NoJob \/ job'[cur[v]].status # "queued"
        BY <2>4 DEF NotQueued, Is, Exists
      <4>1. CASE v = w
        BY <1>0, <2>2, <2>3, <4>1 DEF j
      <4>2. CASE v # w
        <5>1. pc[v] \in Holding /\ cur[v] # j /\ cur[v] \in Jobs
          BY <2>5, <3>1, <3>2, <4>2
        <5> QED
          BY <2>3, <5>1 DEF JobsInv, NotQueued, Is, Exists
      <4> QED
        BY <4>1, <4>2
    <3>4. HeldOnce'
      BY <2>4, <2>5, <3>1 DEF JobsInv, HeldOnce, j
    <3> QED
      BY <3>3, <3>4
  <2>10. AtMostOne'
    <3>1. \A i \in Jobs : /\ Exists(i)' => Exists(i)
                          /\ Exists(i)' => job'[i].author = job[i].author /\ job'[i].key = job[i].key
                          /\ Is(i, Active)' => Is(i, Active)
      BY <2>1, <2>2, <2>3 DEF Is, Exists, Active
    <3> QED
      BY <3>1 DEF JobsInv, AtMostOne
  <2>11. Worked'
    <3> SUFFICES ASSUME outages' = 0, NEW i \in Jobs, Is(i, {"processing"})'
                 PROVE  \E v \in Workers : job'[i].owner = v /\ (pc'[v] = "dead" \/ (Works(v)' /\ cur'[v] = i))
      BY DEF Worked
    <3>1. CASE i = j
      BY <2>2, <2>3, <2>4, <2>5, <3>1 DEF Works, Building, j
    <3>2. CASE i # j
      <4>1. Is(i, {"processing"}) /\ job'[i] = job[i]
        BY <2>3, <3>2 DEF Is, Exists
      <4>2. PICK v \in Workers : job[i].owner = v /\ (pc[v] = "dead" \/ (Works(v) /\ cur[v] = i))
        BY <2>4, <4>1 DEF JobsInv, Worked
      <4>3. v # w
        BY <1>0, <4>2 DEF Works, Building
      <4> QED
        BY <2>4, <2>5, <4>1, <4>2, <4>3 DEF Works
    <3> QED
      BY <3>1, <3>2
  <2>12. Final
    BY <2>1, <2>3 DEF Final, Is, Exists, Finished
  <2>13. Dated'
    BY <2>4 DEF JobsInv, Dated
  <2> QED
    BY <2>4, <2>6, <2>7, <2>8, <2>9, <2>10, <2>11, <2>12, <2>13 DEF Kept, JobsInv
<1> QED
  BY <1>1, <1>2

LEMMA OutageKeeps ==
  ASSUME JobsInv, NEW w \in Workers, Outage(w)
  PROVE  Kept
<1>1. outages' \in Nat /\ outages' # 0
  BY Here DEF Outage
<1>2. JobsKept
  <2>1. CASE UNCHANGED job
    BY <2>1, Here, Unchanged
  <2>2. CASE job' # job
    <3>1. pc[w] = "uploaded" /\ Owns(w) /\ job' = [job EXCEPT ![cur[w]] = Settled(@, "completed")]
      BY <2>2 DEF Outage
    <3>2. cur[w] \in Jobs /\ Is(cur[w], Active)
      BY <3>1, Here DEF Owns, Is, Active, Holding
    <3> QED
      BY <3>1, <3>2, Here, SettlesOne DEF Finished
  <2> QED
    BY <2>1, <2>2
<1>3. /\ \/ pc' = [pc EXCEPT ![w] = "idle"] /\ cur' = [cur EXCEPT ![w] = NoJob]
         \/ pc[w] \in Holding /\ UNCHANGED cur /\ \E stage \in {"failing", "undoing"} : pc' = [pc EXCEPT ![w] = stage]
      /\ pc[w] # "dead"
  BY DEF Outage, Move, Holding, Pruning
<1>4. store' \subseteq Jobs
  <2>1. pc[w] = "saving" => cur[w] \in Jobs
    BY Here DEF Holding
  <2> QED
    BY <2>1, Here DEF Outage, Discarded
<1>5. TypesKept
  <2>1. pc' \in [Workers -> Stages] /\ cur' \in [Workers -> Jobs \cup {NoJob}]
    BY <1>3, Here DEF Stages
  <2> QED
    BY <1>1, <1>4, <2>1, Here DEF TypesKept, Outage, Stir
<1>6. Moves(w)
  BY <1>1, <1>3, Here DEF Moves, Outage, Holding
<1> QED
  BY <1>2, <1>5, <1>6, WorkerMoves

LEMMA CrashKeeps ==
  ASSUME JobsInv, NEW w \in Workers, Crash(w)
  PROVE  Kept
<1>1. JobsKept
  BY Here, Unchanged DEF Crash, tables
<1>2. TypesKept
  BY Here DEF TypesKept, Crash, tables, Move, Stages
<1>3. Moves(w)
  BY Here DEF Moves, Crash, Move, Holding
<1> QED
  BY <1>1, <1>2, <1>3, WorkerMoves

LEMMA StepKeeps ==
  ASSUME JobsInv, NEW w \in Workers, Step(w) \/ Outage(w) \/ Crash(w)
  PROVE  Kept
  BY TickKeeps, PollKeeps, ClaimKeeps, LoadKeeps, ReadPrunableKeeps, PruneKeeps, ProgressKeeps,
     CompleteKeeps, AuditKeeps, FailKeeps, OutageKeeps, CrashKeeps DEF Step

-----------------------------------------------------------------------------
(* The steps of requests, administrators and time.                         *)

LEMMA OthersMove ==
  ASSUME JobsInv, JobsKept, UNCHANGED <<workers, created, outages>>,
         store' \subseteq Jobs, stale' \subseteq Jobs, day' \in 0 .. MaxDays, day' \in {day, day + 1}, terms' = terms,
         request' \in [Requests -> Call \cup {NoCall}], Requested'
  PROVE  Kept
<1>1. AtMostOne' /\ (\A i \in Jobs : i > created' => job'[i] = NoJob)
        /\ \A i \in Jobs : job'[i] # NoJob /\ job'[i].status \in Active => job'[i] = job[i]
  BY RowsKept
<1>2. TypeOK' /\ HasJob' /\ Born' /\ HeldOnce'
  BY <1>1 DEF JobsInv, TypeOK, HasJob, Born, HeldOnce, JobsKept, workers
<1>a. Dated'
  BY DEF JobsInv, Dated, TypeOK
<1>3. NotQueued'
  <2> SUFFICES ASSUME NEW v \in Workers, pc[v] \in Holding, Is(cur[v], {"queued"})' PROVE FALSE
    BY DEF NotQueued, workers
  <2>1. cur[v] \in Jobs /\ cur'[v] = cur[v]
    BY DEF JobsInv, HasJob, TypeOK, workers
  <2>2. Is(cur[v], {"queued"})
    BY <1>1, <2>1 DEF Active, Is, Exists
  <2> QED
    BY <2>2 DEF JobsInv, NotQueued
<1>4. Worked'
  <2> SUFFICES ASSUME outages' = 0, NEW i \in Jobs, Is(i, {"processing"})'
               PROVE  \E v \in Workers : job'[i].owner = v /\ (pc'[v] = "dead" \/ (Works(v)' /\ cur'[v] = i))
    BY DEF Worked
  <2>1. Is(i, {"processing"}) /\ job'[i] = job[i]
    BY <1>1 DEF Active, Is, Exists
  <2> QED
    BY <2>1 DEF JobsInv, Worked, Works, workers
<1> QED
  BY <1>1, <1>2, <1>a, <1>3, <1>4, KeptIsFinal DEF Kept, JobsInv

LEMMA RowsAndFiles ==
  ASSUME JobsInv
  PROVE  /\ job \in [Jobs -> JobRow \cup {NoJob}] /\ store \subseteq Jobs /\ stale \subseteq Jobs
         /\ day \in 0 .. MaxDays /\ terms \in Terms /\ request \in [Requests -> Call \cup {NoCall}]
  BY DEF JobsInv, TypeOK, Terms

LEMMA TimeKeeps ==
  ASSUME JobsInv, NextDay \/ \E j \in Jobs : FallSilent(j)
  PROVE  Kept
<1>1. JobsKept
  BY RowsAndFiles, Unchanged DEF FallSilent, NextDay
<1>2. day' \in 0 .. MaxDays /\ day' \in {day, day + 1}
  BY RowsAndFiles, ExtractionAssumption DEF FallSilent, NextDay
<1> QED
  BY <1>1, <1>2, RowsAndFiles, OthersMove DEF FallSilent, NextDay, JobsInv, Requested

LEMMA AdministerKeeps ==
  ASSUME JobsInv, Administer
  PROVE  Kept
<1>1. JobsKept
  BY RowsAndFiles DEF Administer, StartDelete, DeleteRows, DeleteFiles, StartCleanup, FinishReading,
                      RemoveOrphans, tables, JobsKept
<1>2. /\ UNCHANGED <<workers, created, outages, stale, day, terms, request>> /\ store' \subseteq store
  BY DEF Administer, StartDelete, DeleteRows, DeleteFiles, StartCleanup, FinishReading, RemoveOrphans, tables
<1> QED
  BY <1>1, <1>2, RowsAndFiles, OthersMove DEF JobsInv, Requested

\* One request goes on.
LEMMA RequestGoesOn ==
  ASSUME JobsInv, NEW r \in Requests, NEW call \in Call \cup {NoCall}, request' = [request EXCEPT ![r] = call],
         call # NoCall => (call.op # "poll" => call.key \in Keys) /\ (call.op = "poll" => call.at = "sweeping")
  PROVE  request' \in [Requests -> Call \cup {NoCall}] /\ Requested'
  BY RowsAndFiles DEF JobsInv, Requested

LEMMA RequestAt ==
  ASSUME JobsInv, NEW r \in Requests, NEW from, At(r, from),
         NEW stage \in {"acting", "entering", "finding", "inserting", "resolving"}, GoTo(r, stage), request[r].op # "poll"
  PROVE  request' \in [Requests -> Call \cup {NoCall}] /\ Requested'
<1> DEFINE call == [request[r] EXCEPT !.at = stage, !.doomed = {}]
<1>1. request[r] \in Call /\ request[r].key \in Keys
  BY RowsAndFiles DEF At, JobsInv, Requested
<1>2. call \in Call /\ call.op = request[r].op /\ call.key = request[r].key
  BY <1>1 DEF Call
<1>3. request' = [request EXCEPT ![r] = call]
  BY RowsAndFiles DEF GoTo
<1> QED
  BY <1>1, <1>2, <1>3, RequestGoesOn

LEMMA RequestEnds ==
  ASSUME JobsInv, NEW r \in Requests, Hangup(r)
  PROVE  request' \in [Requests -> Call \cup {NoCall}] /\ Requested'
  BY RequestGoesOn DEF Hangup

LEMMA RequestArrives ==
  ASSUME JobsInv, NEW r \in Requests, NEW a \in Authors, NEW op \in {"poll", "create", "stop", "retry"},
         NEW key \in Keys \cup {NoJob}, op # "poll" => key \in Keys, op = "retry" => key \in Jobs,
         \/ Arrive(r, a, op, key)
         \/ op = "create" /\ \E p \in Schedules : ScheduledBackup(r, a, key, p)
  PROVE  Kept
<1>1. JobsKept
  BY RowsAndFiles, Unchanged DEF Arrive, ScheduledBackup, tables
<1>2. PICK call \in Call : /\ request' = [request EXCEPT ![r] = call] /\ call.op = op /\ call.key = key
                           /\ op = "poll" => call.at = "sweeping"
  <2>1. StaleJobs \cap ByAuthor(a) \in SUBSET Jobs
    BY DEF StaleJobs
  <2>2. CASE Arrive(r, a, op, key)
    <3> DEFINE p == IF op = "retry" THEN terms[key].retention ELSE Manual
               call == [op |-> op, author |-> a, key |-> key, at |-> "sweeping", retention |-> p,
                        doomed |-> StaleJobs \cap ByAuthor(a)]
    <3>0. p \in Retentions
      BY RowsAndFiles DEF Terms, Retentions
    <3>2. request' = [request EXCEPT ![r] = call]
      BY <2>2 DEF Arrive
    <3> HIDE DEF p
    <3>1. call \in Call /\ call.op = op /\ call.key = key /\ call.at = "sweeping"
      BY <2>1, <3>0 DEF Call, Operations
    <3> QED
      BY <3>1, <3>2
  <2>3. ASSUME op = "create", NEW p \in Schedules, ScheduledBackup(r, a, key, p)
        PROVE  \E call \in Call : /\ request' = [request EXCEPT ![r] = call] /\ call.op = op /\ call.key = key
                                  /\ op = "poll" => call.at = "sweeping"
    <3> DEFINE call == [op |-> "create", author |-> a, key |-> key, at |-> "entering",
                        retention |-> p, doomed |-> {}]
    <3>1. call \in Call /\ call.op = op /\ call.key = key
      BY <2>3 DEF Call, Operations, Retentions
    <3>2. request' = [request EXCEPT ![r] = call]
      BY <2>3 DEF ScheduledBackup
    <3> QED
      BY <2>3, <3>1, <3>2
  <2> QED
    BY <2>2, <2>3
<1>3. request' \in [Requests -> Call \cup {NoCall}] /\ Requested'
  BY <1>2, RequestGoesOn
<1>4. UNCHANGED <<workers, created, outages, store, stale, day, terms>>
  BY DEF Arrive, ScheduledBackup, tables
<1> QED
  BY <1>1, <1>3, <1>4, RowsAndFiles, OthersMove

LEMMA StopStaleKeeps ==
  ASSUME JobsInv, NEW r \in Requests, StopStale(r) \/ Act(r) \/ Enter(r)
  PROVE  Kept
<1>1. JobsKept /\ store' \subseteq Jobs /\ stale' \subseteq Jobs
  BY RowsAndFiles, StopsKeep DEF StopStale, Act, Enter
<1>2. UNCHANGED <<workers, created, outages, day, terms>>
  BY DEF StopStale, Act, Enter
<1>3. request[r].op = "poll" => request[r] = NoCall \/ request[r].at = "sweeping"
  BY DEF JobsInv, Requested
<1>4. request' \in [Requests -> Call \cup {NoCall}] /\ Requested'
  <2>1. CASE Hangup(r)
    BY <2>1, RequestEnds
  <2>2. CASE ~ Hangup(r)
    <3>1. \E from, stage \in {"sweeping", "acting", "entering", "finding"} :
            At(r, from) /\ GoTo(r, stage) /\ stage # "sweeping" /\ request[r].op # "poll"
      <4>1. CASE StopStale(r)
        BY <2>2, <4>1 DEF StopStale
      <4>2. CASE Act(r)
        BY <1>3, <2>2, <4>2 DEF Act, At
      <4>3. CASE Enter(r)
        BY <1>3, <4>3 DEF Enter, At
      <4> QED
        BY <4>1, <4>2, <4>3
    <3> QED
      BY <3>1, RequestAt
  <2> QED
    BY <2>1, <2>2
<1> QED
  BY <1>1, <1>2, <1>4, RowsAndFiles, OthersMove

LEMMA FindKeeps ==
  ASSUME JobsInv, NEW r \in Requests, Find(r) \/ Resolve(r)
  PROVE  Kept
<1>1. JobsKept
  BY RowsAndFiles, Unchanged DEF Find, Resolve, tables
<1>2. UNCHANGED <<workers, created, outages, store, stale, day, terms>>
  BY DEF Find, Resolve, tables
<1>3. request' \in [Requests -> Call \cup {NoCall}] /\ Requested'
  <2>1. CASE Hangup(r)
    BY <2>1, RequestEnds
  <2>2. CASE ~ Hangup(r)
    <3>1. At(r, "finding") /\ GoTo(r, "inserting")
      BY <2>2 DEF Find, Resolve
    <3>2. request[r].op # "poll"
      BY <3>1 DEF At, JobsInv, Requested
    <3> QED
      BY <3>1, <3>2, RequestAt
  <2> QED
    BY <2>1, <2>2
<1> QED
  BY <1>1, <1>2, <1>3, RowsAndFiles, OthersMove

\* A row is inserted only where the unique indexes let it be.
LEMMA InsertKeeps ==
  ASSUME JobsInv, NEW r \in Requests, Insert(r)
  PROVE  Kept
<1>0. request[r] \in Call /\ request[r].at = "inserting" /\ request[r].key \in Keys
  BY RowsAndFiles DEF Insert, At, JobsInv, Requested
<1>1. CASE Conflict(request[r].author, request[r].key) # {}
  <2>1. JobsKept
    BY <1>1, RowsAndFiles, Unchanged DEF Insert
  <2>2. GoTo(r, "resolving") /\ UNCHANGED <<workers, created, outages, store, stale, day, terms>>
    BY <1>1 DEF Insert
  <2>3. request[r].op # "poll"
    BY <1>0 DEF JobsInv, Requested, Insert, At
  <2>4. request' \in [Requests -> Call \cup {NoCall}] /\ Requested'
    BY <2>2, <2>3, RequestAt DEF Insert
  <2> QED
    BY <2>1, <2>2, <2>4, RowsAndFiles, OthersMove
<1>2. CASE Conflict(request[r].author, request[r].key) = {}
  <2> DEFINE a == request[r].author
             key == request[r].key
             new == created + 1
             row == [author |-> a, key |-> key, status |-> "queued", owner |-> NoWorker, artifact |-> FALSE]
  <2>1. /\ new \in Jobs /\ job' = [job EXCEPT ![new] = row] /\ created' = new /\ Hangup(r)
        /\ UNCHANGED <<workers, outages, store, stale, day>>
        /\ terms' = [terms EXCEPT ![new] = [born |-> day, retention |-> request[r].retention]]
    BY <1>2 DEF Insert
  <2>2. a \in Authors /\ key \in Keys
    BY <1>0 DEF Call
  <2>3. row \in JobRow /\ row.author = a /\ row.key = key /\ row.status = "queued"
    BY <2>2 DEF JobRow, Active
  <2>4. request' \in [Requests -> Call \cup {NoCall}] /\ Requested'
    BY <2>1, RequestEnds
  <2>5. \A i \in Jobs : Exists(i) /\ job[i].author = a => job[i].key # key /\ ~ Is(i, Active)
    BY <1>2 DEF Conflict, OfKey, Blocking, ByAuthor, Is
  <2>6. created \in Nat /\ created < new
    BY DEF JobsInv, TypeOK
  <2>7. job[new] = NoJob /\ \A w \in Workers : cur[w] # new
    BY <2>1, <2>6, NoJobIsNoRow DEF JobsInv, Born
  <2> HIDE DEF a, key, new, row
  <2>8. /\ job' \in [Jobs -> JobRow \cup {NoJob}]
        /\ \A i \in Jobs : job'[i] = IF i = new THEN row ELSE job[i]
    BY <2>1, <2>3, RowsAndFiles
  <2>t. terms' \in [Jobs -> [born : 0 .. MaxDays, retention : Retentions]]
    BY <1>0, <2>1, RowsAndFiles DEF Call, Terms
  <2>9. TypeOK'
    BY <2>1, <2>4, <2>8, <2>t DEF JobsInv, TypeOK, workers, Jobs
  <2>10. HasJob' /\ HeldOnce'
    BY <2>1 DEF JobsInv, HasJob, HeldOnce, workers
  <2>11. Born'
    <3>1. \A i \in Jobs : i > new => i # new /\ i > created
      BY <2>1, <2>6, NoJobIsNoRow
    <3>2. \A w \in Workers : cur[w] # NoJob => cur[w] <= new
      BY <2>1, <2>6, NoJobIsNoRow DEF JobsInv, Born, TypeOK
    <3> QED
      BY <2>1, <2>8, <3>1, <3>2 DEF JobsInv, Born, workers
  <2>12. NotQueued'
    <3> SUFFICES ASSUME NEW w \in Workers, pc[w] \in Holding
                 PROVE  job'[cur[w]] = NoJob \/ job'[cur[w]].status # "queued"
      BY <2>1 DEF NotQueued, Is, Exists, workers
    <3>1. cur[w] \in Jobs /\ cur[w] # new
      BY <2>7 DEF JobsInv, HasJob, TypeOK
    <3> QED
      BY <2>8, <3>1 DEF JobsInv, NotQueued, Is, Exists
  <2>13. AtMostOne'
    <3> SUFFICES ASSUME NEW i \in Jobs, NEW k \in Jobs, i # k, job'[i] # NoJob, job'[k] # NoJob,
                        job'[i].author = job'[k].author
                 PROVE  /\ job'[i].key # job'[k].key
                        /\ ~(job'[i].status \in Active /\ job'[k].status \in Active)
      BY DEF AtMostOne, Is, Exists
    <3>1. CASE i = new
      BY <2>3, <2>5, <2>8, <3>1 DEF Is, Exists
    <3>2. CASE k = new
      BY <2>3, <2>5, <2>8, <3>2 DEF Is, Exists
    <3>3. CASE i # new /\ k # new
      BY <2>8, <3>3 DEF JobsInv, AtMostOne, Is, Exists
    <3> QED
      BY <3>1, <3>2, <3>3
  <2>14. Worked'
    <3> SUFFICES ASSUME outages' = 0, NEW i \in Jobs, Is(i, {"processing"})'
                 PROVE  \E v \in Workers : job'[i].owner = v /\ (pc'[v] = "dead" \/ (Works(v)' /\ cur'[v] = i))
      BY DEF Worked
    <3>1. Is(i, {"processing"}) /\ job'[i] = job[i]
      BY <2>3, <2>8 DEF Is, Exists
    <3> QED
      BY <2>1, <3>1 DEF JobsInv, Worked, Works, workers
  <2>15. Final
    BY <2>7, <2>8 DEF Final, Is, Exists
  <2>16. Dated'
    <3> SUFFICES ASSUME NEW j \in Jobs, j <= new
                 PROVE  /\ terms'[j].born <= day
                        /\ \A i \in Jobs : j <= i /\ i <= new => terms'[j].born <= terms'[i].born
      BY <2>1 DEF Dated
    <3>1. /\ \A i \in Jobs : terms'[i].born = IF i = new THEN day ELSE terms[i].born
          /\ day \in Nat /\ \A i \in Jobs : terms'[i].born \in Nat /\ i \in Nat
      BY <2>1, <2>t, RowsAndFiles, NoJobIsNoRow DEF Terms
    <3>2. \A i \in Jobs : i <= new /\ i # new => i <= created
      BY <2>6, <3>1 DEF new
    <3>3. ASSUME NEW i \in Jobs, i <= new PROVE terms'[i].born <= day
      BY <3>1, <3>2, <3>3 DEF JobsInv, Dated
    <3>4. ASSUME NEW i \in Jobs, j <= i, i <= new PROVE terms'[j].born <= terms'[i].born
      <4>1. CASE i = new
        BY <3>1, <3>3, <4>1
      <4>2. CASE i # new
        <5>1. j # new /\ j <= created /\ i <= created
          BY <2>1, <2>6, <3>1, <3>2, <3>4, <4>2
        <5> QED
          BY <3>1, <3>4, <4>2, <5>1 DEF JobsInv, Dated
      <4> QED
        BY <4>1, <4>2
    <3> QED
      BY <3>3, <3>4
  <2> QED
    BY <2>1, <2>4, <2>9, <2>10, <2>11, <2>12, <2>13, <2>14, <2>15, <2>16 DEF Kept, JobsInv
<1> QED
  BY <1>1, <1>2

LEMMA ServeKeeps ==
  ASSUME JobsInv, NEW r \in Requests, Serve(r)
  PROVE  Kept
<1>1. ASSUME NEW a \in Authors, Arrive(r, a, "poll", NoJob) PROVE Kept
  BY <1>1, RequestArrives
<1>2. ASSUME NEW a \in Authors, NEW key \in ClientKeys,
             Arrive(r, a, "create", key) \/ \E p \in Schedules : ScheduledBackup(r, a, key, p)
      PROVE  Kept
  BY <1>2, RequestArrives DEF Keys
<1>3. ASSUME NEW a \in Authors, NEW j \in ByAuthor(a), Arrive(r, a, "stop", j) \/ Arrive(r, a, "retry", j)
      PROVE  Kept
  BY <1>3, RequestArrives DEF Keys, ByAuthor
<1> QED
  BY <1>1, <1>2, <1>3, StopStaleKeeps, FindKeeps, InsertKeeps DEF Serve

LEMMA JobsNext == JobsInv /\ [Next]_vars => Kept
<1> SUFFICES ASSUME JobsInv, [Next]_vars PROVE Kept
  OBVIOUS
<1>1. CASE UNCHANGED vars
  <2>1. JobsKept
    BY <1>1, RowsAndFiles, Unchanged DEF vars, tables
  <2> QED
    BY <1>1, <2>1, RowsAndFiles, OthersMove DEF vars, tables, JobsInv, Requested
<1> QED
  BY <1>1, StepKeeps, ServeKeeps, AdministerKeeps, TimeKeeps DEF Next

LEMMA JobsAlways == Spec => []JobsInv
  BY JobsInit, JobsNext, PTL DEF Spec, Kept

-----------------------------------------------------------------------------
LEMMA FewAreOne ==
  ASSUME NEW S, S \subseteq Jobs, \A i, j \in S : i = j
  PROVE  Cardinality(S) <= 1
<1>1. CASE S = {}
  BY <1>1, FS_EmptySet
<1>2. CASE S # {}
  <2>1. PICK j \in S : S = {j}
    BY <1>2
  <2>2. Cardinality({} \cup {j}) = 1
    BY FS_EmptySet, FS_AddElement
  <2> QED
    BY <2>1, <2>2
<1> QED
  BY <1>1, <1>2

\* Every reachable state has the declared types.
THEOREM ExtractionTypes == Spec => []TypeOK
  BY JobsAlways, PTL DEF JobsInv

\* One active job per author and one job per key, whatever requests, sweeps and
\* workers overlap.
THEOREM OneActive == Spec => []OneActivePerAuthor
<1>1. JobsInv => OneActivePerAuthor
  <2> SUFFICES ASSUME JobsInv, NEW a \in Authors
               PROVE  Cardinality(Blocking(a)) <= 1 /\ \A key \in Keys : Cardinality(OfKey(a, key)) <= 1
    BY DEF OneActivePerAuthor
  <2>1. Cardinality(Blocking(a)) <= 1
    <3>1. Blocking(a) \subseteq Jobs /\ \A i, j \in Blocking(a) : i = j
      BY DEF JobsInv, AtMostOne, Blocking, ByAuthor, Is
    <3> QED
      BY <3>1, FewAreOne
  <2>2. ASSUME NEW key \in Keys PROVE Cardinality(OfKey(a, key)) <= 1
    <3>1. OfKey(a, key) \subseteq Jobs /\ \A i, j \in OfKey(a, key) : i = j
      BY DEF JobsInv, AtMostOne, OfKey, ByAuthor
    <3> QED
      BY <3>1, FewAreOne
  <2> QED
    BY <2>1, <2>2
<1> QED
  BY <1>1, JobsAlways, PTL

\* Two replicas never work on one job.
THEOREM OneWorker == Spec => []OneWorkerPerJob
<1>1. JobsInv => OneWorkerPerJob
  BY DEF JobsInv, HasJob, HeldOnce, OneWorkerPerJob
<1> QED
  BY <1>1, JobsAlways, PTL

\* No path of the worker lets go of a job without settling it, as long as no
\* statement of it fails.
THEOREM NoneIsDropped == Spec => []ProcessingIsWorked
<1>1. JobsInv => ProcessingIsWorked
  BY ExtractionAssumption DEF JobsInv, Worked, ProcessingIsWorked
<1> QED
  BY <1>1, JobsAlways, PTL

\* A finished job is only ever deleted.
THEOREM FinishedStays == Spec => FinishedIsFinal
<1>1. JobsInv /\ [Next]_vars => [\A j \in Jobs : Is(j, Finished) => job'[j] \in {job[j], NoJob}]_vars
  BY JobsNext DEF Kept, Final
<1> QED
  BY <1>1, JobsAlways, PTL DEF Spec, FinishedIsFinal

-----------------------------------------------------------------------------
(* Rows and archives, as long as nothing fails and nobody administers.     *)

Undisturbed == admins = 0 /\ outages = 0
AllAlive == \A w \in Workers : pc[w] # "dead"
Done(j) == Is(j, {"completed"})

\* The completed backups younger than a retention's days; a backup is lost when
\* some retention in use gives it up.
Young(p) == {i \in Jobs : Done(i) /\ Age(i) < p.days}
Lost(j) == \E p \in Retentions :
             Age(j) >= p.days \/ Cardinality({i \in Young(p) : i > j}) >= p.count

Artifacts == \A j \in Jobs : Exists(j) => (job[j].artifact <=> job[j].status = "completed")
\* A worker that has still to settle its job has not completed it.
NotDone == \A w \in Workers : Works(w) => ~Done(cur[w]) /\ pc[w] # "undoing"
\* Who may complete its job has uploaded the archive.
Saved == \A w \in Workers : pc[w] = "uploaded" /\ Owns(w) => cur[w] \in store
Retained == \A j \in Jobs : Done(j) => j \in store \/ Lost(j)
\* The rows a worker is about to prune are finished, given up, and
\* their archives are removed already.
PrunableDone == \A w \in Workers : \A j \in prunable[w] : ~Is(j, Active) /\ j <= created
PrunableLost == \A w \in Workers : \A j \in prunable[w] : Exists(j) => Lost(j)
PrunedGone == \A w \in Workers : \A j \in prunable[w] : Done(j) => j \notin store
\* An archive is that of a completed job, or was uploaded a moment ago.
Placed == AllAlive => \A j \in store : Done(j) \/ \E w \in Workers : pc[w] = "uploaded" /\ cur[w] = j
Files == /\ Artifacts /\ NotDone /\ Saved /\ Retained
         /\ PrunableDone /\ PrunableLost /\ PrunedGone /\ Placed
FilesInv == admins \in Nat /\ (Undisturbed => Files /\ delete = NoCall /\ cleanup = NoCall)

\* A set of numbers has a last one.
LEMMA LastOne ==
  ASSUME NEW n \in Nat, NEW S, S \subseteq 1 .. n, S # {}
  PROVE  \E x \in S : \A y \in S : y <= x
<1> DEFINE Above(i) == (i + 1) .. n
           T == {Above(i) : i \in S}
<1>a. IsFiniteSet(1 .. n)
  BY FS_Interval
<1>b. FiniteSubsetsOf(1 .. n) = SUBSET (1 .. n)
  BY <1>a, FS_FiniteSubsetsOfFinite
<1>c. IsWellFoundedOn(StrictSubsetOrdering(1 .. n), FiniteSubsetsOf(1 .. n))
  BY FS_StrictSubsetOrderingWellFounded
<1>1. IsWellFoundedOn(StrictSubsetOrdering(1 .. n), SUBSET (1 .. n))
  BY <1>b, <1>c
<1>2. T \subseteq SUBSET (1 .. n) /\ T # {}
  <2>1. \A i \in S : Above(i) \in SUBSET (1 .. n)
    OBVIOUS
  <2> HIDE DEF Above
  <2> QED
    BY <2>1
<1>3. PICK t \in T : \A u \in T : <<u, t>> \notin StrictSubsetOrdering(1 .. n)
  BY <1>1, <1>2, WFMin
<1>4. PICK x \in S : t = Above(x)
  OBVIOUS
<1>5. ASSUME NEW y \in S, y > x PROVE FALSE
  <2>1. Above(y) \in T /\ Above(y) \subseteq Above(x) /\ y \in Above(x) /\ y \notin Above(y)
    BY <1>5
  <2> HIDE DEF Above
  <2>2. Above(y) \in SUBSET (1 .. n) /\ Above(x) \in SUBSET (1 .. n)
    BY <1>2, <2>1, <1>4
  <2>3. <<Above(y), Above(x)>> \in StrictSubsetOrdering(1 .. n)
    BY <2>1, <2>2 DEF StrictSubsetOrdering
  <2> QED
    BY <1>3, <1>4, <2>1, <2>3
<1> QED
  BY <1>5

LEMMA JobsAreFinite ==
  \A S : S \subseteq Jobs => IsFiniteSet(S) /\ Cardinality(S) \in Nat
<1>1. IsFiniteSet(Jobs)
  BY ExtractionAssumption, FS_Interval DEF Jobs
<1> QED
  BY <1>1, FS_Subset, FS_CardinalityType

LEMMA RetentionsCount ==
  /\ \A p \in Retentions : p.count \in Nat /\ p.days \in Nat
  /\ JobsInv => /\ \A j \in Jobs : Age(j) \in Int
                /\ \A i, j \in Jobs : j <= i /\ i <= created => Age(j) >= Age(i)
<1>1. \A p \in Retentions : p.count \in Nat /\ p.days \in Nat
  BY ExtractionAssumption
<1>2. ASSUME JobsInv PROVE /\ \A j \in Jobs : Age(j) \in Int
                           /\ \A i, j \in Jobs : j <= i /\ i <= created => Age(j) >= Age(i)
  <2>1. day \in Int /\ created \in Int /\ \A j \in Jobs : terms[j].born \in Int /\ j \in Int
    BY <1>2, RowsAndFiles, NoJobIsNoRow, ExtractionAssumption DEF Terms, JobsInv, TypeOK
  <2>2. \A i, j \in Jobs : j <= i /\ i <= created => terms[j].born <= terms[i].born
    BY <1>2, <2>1 DEF JobsInv, Dated
  <2> QED
    BY <2>1, <2>2 DEF Age
<1> QED
  BY <1>1, <1>2

LEMMA DoneIsCreated ==
  ASSUME JobsInv, NEW j \in Jobs, Exists(j)
  PROVE  j <= created
  BY NoJobIsNoRow, ExtractionAssumption DEF JobsInv, Born, Exists, TypeOK

\* Where only backups that are lost are taken away, all that were lost still are:
\* what gave up the last one taken away is newer than it, and stays.
LEMMA StillLost ==
  ASSUME JobsInv, day' = day, \A i \in Jobs : i <= created => terms'[i] = terms[i],
         \A i \in Jobs : Done(i) => Done(i)' \/ Lost(i),
         NEW j \in Jobs, j <= created, Lost(j)
  PROVE  Lost(j)'
<1> DEFINE taken == {i \in Jobs : Done(i) /\ ~Done(i)' /\ i > j}
<1>1. \A i \in Jobs : i <= created => Age(i)' = Age(i)
  BY DEF Age
<1>2. \A i \in Jobs : Done(i) => i <= created /\ i \in Nat
  BY DoneIsCreated, NoJobIsNoRow DEF Done, Is
<1>3. ASSUME NEW p \in Retentions, NEW k \in Jobs, k >= j,
             \A i \in Jobs : Done(i) /\ i > k => Done(i)', Cardinality({i \in Young(p) : i > k}) >= p.count
      PROVE  Lost(j)'
  <2>1. {i \in Young(p) : i > k} \subseteq {i \in Young(p)' : i > j}
    BY <1>1, <1>2, <1>3, NoJobIsNoRow DEF Young
  <2>2. {i \in Young(p)' : i > j} \subseteq Jobs /\ {i \in Young(p) : i > k} \subseteq Jobs
    BY DEF Young
  <2>3. /\ Cardinality({i \in Young(p) : i > k}) <= Cardinality({i \in Young(p)' : i > j})
        /\ Cardinality({i \in Young(p) : i > k}) \in Nat /\ Cardinality({i \in Young(p)' : i > j}) \in Nat
    BY <2>1, <2>2, JobsAreFinite, FS_Subset
  <2>4. Cardinality({i \in Young(p)' : i > j}) >= p.count
    BY <1>3, <2>3, RetentionsCount
  <2> QED
    BY <2>4 DEF Lost
<1>4. PICK l \in Jobs : /\ l >= j /\ l <= created /\ Lost(l)
                        /\ \A i \in Jobs : Done(i) /\ i > l => Done(i)'
  <2>1. CASE taken = {}
    BY <2>1, NoJobIsNoRow
  <2>2. CASE taken # {}
    <3>1. PICK l \in taken : \A i \in taken : i <= l
      BY <2>2, LastOne, ExtractionAssumption DEF Jobs
    <3>2. l \in Jobs /\ l >= j /\ l <= created /\ Lost(l)
      BY <1>2, <3>1, NoJobIsNoRow
    <3>3. ASSUME NEW i \in Jobs, Done(i), i > l PROVE Done(i)'
      BY <3>1, <3>2, <3>3, NoJobIsNoRow
    <3> QED
      BY <3>2, <3>3
  <2> QED
    BY <2>1, <2>2
<1>5. PICK p \in Retentions : Age(l) >= p.days \/ Cardinality({i \in Young(p) : i > l}) >= p.count
  BY <1>4 DEF Lost
<1>6. CASE Age(l) >= p.days
  <2>1. Age(j) >= Age(l) /\ Age(j) \in Int /\ Age(l) \in Int /\ p.days \in Nat
    BY <1>4, RetentionsCount
  <2>2. Age(j)' >= p.days
    BY <1>1, <1>6, <2>1
  <2> QED
    BY <2>2 DEF Lost
<1>7. CASE Cardinality({i \in Young(p) : i > l}) >= p.count
  BY <1>3, <1>4, <1>7
<1> QED
  BY <1>5, <1>6, <1>7

\* Backups that stop counting because of their age are younger than j, which is
\* then given up for its own.
LEMMA LostTomorrow ==
  ASSUME JobsInv, NEW j \in Jobs, j <= created, Lost(j), day' = day + 1, UNCHANGED <<job, terms>>
  PROVE  Lost(j)'
<1>1. \A i \in Jobs : Age(i)' = Age(i) + 1 /\ Age(i) \in Int /\ (Done(i)' <=> Done(i))
  <2>1. day \in Int /\ \A i \in Jobs : terms[i].born \in Int
    BY RowsAndFiles, ExtractionAssumption DEF Terms
  <2> QED
    BY <2>1 DEF Age, Done, Is, Exists
<1>2. PICK p \in Retentions : Age(j) >= p.days \/ Cardinality({i \in Young(p) : i > j}) >= p.count
  BY DEF Lost
<1>3. CASE \E i \in Young(p) : i > j /\ Age(i)' >= p.days
  <2>1. PICK i \in Young(p) : i > j /\ Age(i)' >= p.days
    BY <1>3
  <2>2. i \in Jobs /\ i <= created /\ j <= i
    BY <2>1, DoneIsCreated, NoJobIsNoRow DEF Young, Done, Is
  <2>3. Age(j) >= Age(i)
    BY <2>2, RetentionsCount
  <2>4. Age(j)' >= p.days
    BY <1>1, <2>1, <2>2, <2>3, RetentionsCount
  <2> QED
    BY <2>4 DEF Lost
<1>4. CASE Age(j) >= p.days
  <2>1. Age(j)' >= p.days
    BY <1>1, <1>4, RetentionsCount
  <2> QED
    BY <2>1 DEF Lost
<1>5. CASE ~(Age(j) >= p.days) /\ ~(\E i \in Young(p) : i > j /\ Age(i)' >= p.days)
  <2>1. {i \in Young(p) : i > j} = {i \in Young(p)' : i > j}
    <3>1. \A i \in Young(p) : i > j => i \in Young(p)'
      BY <1>1, <1>5, RetentionsCount DEF Young
    <3>2. \A i \in Young(p)' : i \in Young(p)
      BY <1>1, RetentionsCount DEF Young
    <3> QED
      BY <3>1, <3>2
  <2> QED
    BY <1>2, <1>5, <2>1 DEF Lost
<1> QED
  BY <1>3, <1>4, <1>5

LEMMA NewerIsAbove ==
  ASSUME Artifacts, NEW p, NEW j
  PROVE  NewerArchives(p, j) = {i \in Young(p) : i > j}
  BY DEF Artifacts, NewerArchives, Young, Done, Is

-----------------------------------------------------------------------------
(* Steps that neither complete nor delete a row and touch no archive.      *)

\* Rows are claimed, stopped, given up or inserted.
RowsCalm ==
  \A j \in Jobs :
    \/ job'[j] = job[j]
    \/ /\ Is(j, Active) \/ (j > created /\ job[j] = NoJob)
       /\ job'[j] \in JobRow /\ job'[j].status # "completed" /\ ~job'[j].artifact
\* Nobody begins or ends an upload, but by dying, or begins to work on a job done.
WorkersCalm ==
  \A v \in Workers :
    /\ pc'[v] = "uploaded" => pc[v] = "uploaded" /\ cur'[v] = cur[v] /\ (Owns(v)' => Owns(v))
    /\ pc[v] = "uploaded" => (pc'[v] = "uploaded" /\ cur'[v] = cur[v]) \/ pc'[v] = "dead"
    /\ pc[v] = "dead" => pc'[v] = "dead"
    /\ Works(v)' => pc'[v] # "undoing" /\ cur'[v] \in Jobs /\ ((Works(v) /\ cur'[v] = cur[v]) \/ ~Done(cur'[v]))
    /\ prunable'[v] \subseteq prunable[v]

LEMMA RowsCalmly ==
  ASSUME JobsInv, Artifacts, RowsCalm
  PROVE  /\ Artifacts' /\ \A j \in Jobs : Done(j)' <=> Done(j)
         /\ \A j \in Jobs : j <= created /\ Exists(j)' => Exists(j)
         /\ \A j \in Jobs : j <= created /\ ~Is(j, Active) => ~Is(j, Active)'
<1> SUFFICES ASSUME NEW j \in Jobs
             PROVE  /\ Exists(j)' => (job'[j].artifact <=> job'[j].status = "completed")
                    /\ Done(j)' <=> Done(j)
                    /\ j <= created /\ Exists(j)' => Exists(j)
                    /\ j <= created /\ ~Is(j, Active) => ~Is(j, Active)'
  BY DEF Artifacts
<1>1. CASE job'[j] = job[j]
  BY <1>1 DEF Artifacts, Done, Is, Exists
<1>2. CASE job'[j] # job[j]
  <2>1. /\ Is(j, Active) \/ (j > created /\ job[j] = NoJob)
        /\ job'[j] \in JobRow /\ job'[j].status # "completed" /\ ~job'[j].artifact
    BY <1>2 DEF RowsCalm
  <2>2. ~Done(j) /\ ~Done(j)' /\ (j <= created => Exists(j) /\ Is(j, Active))
    BY <2>1, NoJobIsNoRow DEF Done, Is, Exists, Active, JobsInv, TypeOK
  <2> QED
    BY <2>1, <2>2
<1> QED
  BY <1>1, <1>2

LEMMA CalmKeeps ==
  ASSUME JobsInv, Files, RowsCalm, WorkersCalm, UNCHANGED <<store, day>>, created' >= created, created' \in Nat,
         \A j \in Jobs : j <= created => terms'[j] = terms[j]
  PROVE  Files'
<1>0. created \in Nat /\ prunable \in [Workers -> SUBSET Jobs] /\ \A j \in Jobs : j \in Nat
  BY NoJobIsNoRow, ExtractionAssumption DEF JobsInv, TypeOK
<1>1. /\ Artifacts' /\ \A j \in Jobs : Done(j)' <=> Done(j)
      /\ \A j \in Jobs : j <= created /\ Exists(j)' => Exists(j)
      /\ \A j \in Jobs : j <= created /\ ~Is(j, Active) => ~Is(j, Active)'
  BY RowsCalmly DEF Files
<1>2. \A j \in Jobs : j <= created /\ Lost(j) => Lost(j)'
  BY <1>1, StillLost
<1>3. NotDone'
  BY <1>1 DEF Files, NotDone, WorkersCalm
<1>4. Saved'
  BY DEF Files, Saved, WorkersCalm
<1>5. Retained'
  BY <1>1, <1>2, DoneIsCreated DEF Files, Retained, Done, Is
<1>6. PrunableDone'
  <2> SUFFICES ASSUME NEW w \in Workers, NEW j \in prunable'[w] PROVE ~Is(j, Active)' /\ j <= created'
    BY DEF PrunableDone
  <2>1. j \in prunable[w] /\ j \in Jobs /\ j \in Nat
    BY <1>0 DEF WorkersCalm
  <2>2. ~Is(j, Active) /\ j <= created
    BY <2>1 DEF Files, PrunableDone
  <2> QED
    BY <1>0, <1>1, <2>1, <2>2
<1>7. PrunableLost'
  <2> SUFFICES ASSUME NEW w \in Workers, NEW j \in prunable'[w], Exists(j)' PROVE Lost(j)'
    BY DEF PrunableLost
  <2>1. j \in prunable[w] /\ j \in Jobs /\ j <= created
    BY <1>0 DEF WorkersCalm, Files, PrunableDone
  <2> QED
    BY <1>1, <1>2, <2>1 DEF Files, PrunableLost
<1>8. PrunedGone'
  <2> SUFFICES ASSUME NEW w \in Workers, NEW j \in prunable'[w], Done(j)' PROVE j \notin store'
    BY DEF PrunedGone
  <2>1. j \in prunable[w] /\ j \in Jobs
    BY <1>0 DEF WorkersCalm
  <2> QED
    BY <1>1, <2>1 DEF Files, PrunedGone
<1>9. Placed'
  <2> SUFFICES ASSUME AllAlive', NEW j \in store PROVE Done(j)' \/ \E w \in Workers : pc'[w] = "uploaded" /\ cur'[w] = j
    BY DEF Placed
  <2>1. AllAlive /\ j \in Jobs
    BY DEF AllAlive, WorkersCalm, JobsInv, TypeOK
  <2>2. Done(j) \/ \E w \in Workers : pc[w] = "uploaded" /\ cur[w] = j
    BY <2>1 DEF Files, Placed
  <2> QED
    BY <1>1, <2>1, <2>2 DEF WorkersCalm, AllAlive
<1> QED
  BY <1>1, <1>3, <1>4, <1>5, <1>6, <1>7, <1>8, <1>9 DEF Files

-----------------------------------------------------------------------------
(* The calm steps. *)

\* Stopping leaves the archives alone, as an active row names none.
LEMMA StopsCalmly ==
  ASSUME JobsInv, Artifacts, NEW js, StopJobs(js)
  PROVE  /\ RowsCalm /\ store' = store
         /\ \A j \in Jobs : job'[j] # job[j] => ~Is(j, {"processing"})'
<1> DEFINE stopped == {j \in js : Is(j, Active)}
<1>1. /\ job' = [j \in Jobs |-> IF j \in stopped THEN Settled(job[j], "stopped") ELSE job[j]]
      /\ store' = store \ {j \in stopped : job[j].artifact}
  BY DEF StopJobs
<1>2. ASSUME NEW j \in Jobs, Is(j, Active)
      PROVE  /\ job[j] \in JobRow /\ ~job[j].artifact
             /\ Settled(job[j], "stopped") \in JobRow /\ ~Settled(job[j], "stopped").artifact
             /\ Settled(job[j], "stopped").status = "stopped"
  <2>1. job[j] \in JobRow /\ ~job[j].artifact
    BY <1>2 DEF JobsInv, TypeOK, Is, Exists, Artifacts, Active
  <2> QED
    BY <2>1 DEF Settled, JobRow, Finished
<1>3. RowsCalm
  <2> SUFFICES ASSUME NEW j \in Jobs, job'[j] # job[j]
               PROVE  Is(j, Active) /\ job'[j] \in JobRow /\ job'[j].status # "completed" /\ ~job'[j].artifact
    BY DEF RowsCalm
  <2>1. Is(j, Active) /\ job'[j] = Settled(job[j], "stopped")
    BY <1>1
  <2> QED
    BY <1>2, <2>1
<1>a. \A j \in Jobs : job'[j] # job[j] => ~Is(j, {"processing"})'
  BY <1>1, <1>2 DEF Is
<1>4. \A j \in store : j \in Jobs
  BY DEF JobsInv, TypeOK
<1> QED
  BY <1>1, <1>2, <1>3, <1>a, <1>4

\* A worker's calm step: it does not upload, and keeps or drops its job, or dies.
LEMMA MovesCalmly ==
  ASSUME JobsInv, NotDone, NEW w \in Workers, RowsCalm,
         \A v \in Workers : v # w => pc'[v] = pc[v] /\ cur'[v] = cur[v] /\ then'[v] = then[v],
         \A v \in Workers : prunable'[v] \subseteq prunable[v],
         pc[w] # "dead", pc'[w] \notin {"uploaded", "undoing"}, pc[w] = "uploaded" => pc'[w] = "dead",
         Works(w)' => cur'[w] \in Jobs /\ ((Works(w) /\ cur'[w] = cur[w]) \/ ~Done(cur'[w])),
         \A j \in Jobs : job'[j] # job[j] /\ Is(j, {"processing"})' => job'[j].owner = w
  PROVE  WorkersCalm
<1>2. ASSUME NEW v \in Workers, v # w
      PROVE  /\ pc'[v] = "uploaded" => pc[v] = "uploaded" /\ cur'[v] = cur[v] /\ (Owns(v)' => Owns(v))
             /\ Works(v)' => Works(v) /\ pc'[v] # "undoing" /\ cur'[v] \in Jobs /\ cur'[v] = cur[v]
  <2>1. pc'[v] = pc[v] /\ cur'[v] = cur[v] /\ then'[v] = then[v]
    BY <1>2
  <2>2. Works(v)' => Works(v)
    BY <2>1 DEF Works
  <2>3. Works(v) => cur[v] \in Jobs /\ pc[v] # "undoing"
    BY DEF Works, Building, Holding, JobsInv, HasJob, TypeOK, NotDone
  <2>4. pc[v] = "uploaded" => Works(v)
    BY DEF Works, Building
  <2>5. cur[v] \in Jobs /\ Owns(v)' => Owns(v)
    BY <1>2, <2>1 DEF Owns, Is, Exists
  <2> QED
    BY <2>1, <2>2, <2>3, <2>4, <2>5
<1> QED
  BY <1>2 DEF WorkersCalm

LEMMA WorkerMovesTo ==
  ASSUME JobsInv, NEW w \in Workers, NEW stage, NEW next,
         Move(w, stage), cur' = [cur EXCEPT ![w] = next]
  PROVE  /\ pc'[w] = stage /\ cur'[w] = next
         /\ \A v \in Workers : v # w => pc'[v] = pc[v] /\ cur'[v] = cur[v]
  BY DEF JobsInv, TypeOK, Move

\* Nobody works.
LEMMA WorkersRest ==
  ASSUME JobsInv, NotDone, RowsCalm, UNCHANGED workers,
         \A j \in Jobs : job'[j] # job[j] => ~Is(j, {"processing"})'
  PROVE  WorkersCalm
<1>1. \A v \in Workers : pc'[v] = pc[v] /\ cur'[v] = cur[v] /\ then'[v] = then[v] /\ prunable'[v] = prunable[v]
  BY DEF workers
<1>2. ASSUME NEW v \in Workers
      PROVE  /\ Works(v)' => Works(v) /\ pc[v] # "undoing" /\ cur[v] \in Jobs
             /\ pc[v] = "uploaded" /\ Owns(v)' => Owns(v)
  <2>1. Works(v)' => Works(v)
    BY <1>1 DEF Works
  <2>2. Works(v) => cur[v] \in Jobs /\ pc[v] # "undoing"
    BY DEF Works, Building, Holding, JobsInv, HasJob, TypeOK, NotDone
  <2>3. pc[v] = "uploaded" => Works(v)
    BY DEF Works, Building
  <2>4. cur[v] \in Jobs /\ Owns(v)' => Owns(v)
    BY <1>1 DEF Owns, Is, Exists
  <2> QED
    BY <2>1, <2>2, <2>3, <2>4
<1> QED
  BY <1>1, <1>2 DEF WorkersCalm

LEMMA RowsAlone ==
  ASSUME UNCHANGED job
  PROVE  RowsCalm /\ \A j \in Jobs : job'[j] = job[j]
  BY DEF RowsCalm

\* What the steps of a worker have in common: it goes to another stage, and
\* keeps its job or lets go of it.
LEMMA WorkerCalmly ==
  ASSUME JobsInv, Files, NEW w \in Workers, RowsCalm, NEW stage, NEW next \in {cur[w], NoJob}, Move(w, stage),
         cur' = [cur EXCEPT ![w] = next], UNCHANGED <<store, day, terms, created>>,
         \A v \in Workers : prunable'[v] \subseteq prunable[v] /\ (v # w => then'[v] = then[v]),
         pc[w] # "dead", stage \notin {"uploaded", "undoing"}, pc[w] = "uploaded" => stage = "dead",
         Works(w)' => Works(w) /\ next = cur[w],
         \A j \in Jobs : job'[j] # job[j] => ~Is(j, {"processing"})'
  PROVE  Files'
<1>1. cur[w] \in Jobs \cup {NoJob} /\ (Works(w) => cur[w] \in Jobs) /\ created \in Nat
  BY ExtractionAssumption DEF JobsInv, TypeOK, HasJob, Works, Building, Holding
<1>2. /\ pc'[w] = stage /\ cur'[w] = next
      /\ \A v \in Workers : v # w => pc'[v] = pc[v] /\ cur'[v] = cur[v]
  BY WorkerMovesTo
<1>3. WorkersCalm
  BY <1>1, <1>2, MovesCalmly DEF Files
<1> QED
  BY <1>1, <1>3, CalmKeeps

LEMMA WorkerStage ==
  ASSUME JobsInv, NEW w \in Workers, NEW stage, Move(w, stage)
  PROVE  pc'[w] = stage
  BY DEF JobsInv, TypeOK, Move

LEMMA CalmStepKeeps ==
  ASSUME JobsInv, Files, NEW w \in Workers,
         StartTick(w) \/ Sweep(w) \/ Poll(w) \/ Load(w) \/ Progress(w) \/ Audit(w) \/ Crash(w)
  PROVE  Files'
<1>0. /\ cur \in [Workers -> Jobs \cup {NoJob}] /\ doomed \in [Workers -> SUBSET Jobs]
      /\ prunable \in [Workers -> SUBSET Jobs] /\ then \in [Workers -> {"polling", "collecting", "saving"}]
      /\ [cur EXCEPT ![w] = cur[w]] = cur
  BY DEF JobsInv, TypeOK
<1>1. CASE StartTick(w) \/ Sweep(w)
  <2>1. /\ RowsCalm /\ store' = store /\ \A j \in Jobs : job'[j] # job[j] => ~Is(j, {"processing"})'
    BY <1>1, StopsCalmly DEF StartTick, Sweep, Files
  <2>2. PICK stage \in {"sweeping", "polling"} : Move(w, stage) /\ pc'[w] = stage
    BY <1>1, WorkerStage DEF StartTick, Sweep
  <2>3. pc[w] \in {"idle", "sweeping"} /\ UNCHANGED <<day, terms, created, cur, prunable, then>>
    BY <1>1 DEF StartTick, Sweep
  <2>4. ~Works(w)'
    BY <2>2 DEF Works, Building
  <2> QED
    BY <1>0, <2>1, <2>2, <2>3, <2>4, WorkerCalmly
<1>2. CASE Load(w) \/ Progress(w) \/ Audit(w)
  <2>1. UNCHANGED <<job, store, day, terms, created, prunable, then>>
    BY <1>2 DEF Load, Progress, Audit, tables
  <2>2. /\ pc[w] \in {"starting", "collecting", "completed"}
        /\ \E stage \in {"check", "idle", "collecting", "recheck", "failing", "tidy", "polling"} :
             /\ Move(w, stage) /\ (stage \in {"check", "collecting", "recheck", "failing"} => pc[w] # "completed")
             /\ UNCHANGED cur \/ (stage \in {"idle", "polling"} /\ cur' = [cur EXCEPT ![w] = NoJob])
    BY <1>2 DEF Load, Progress, Audit, Drop
  <2>3. PICK stage \in {"check", "idle", "collecting", "recheck", "failing", "tidy", "polling"} :
          /\ Move(w, stage) /\ (stage \in {"check", "collecting", "recheck", "failing"} => pc[w] # "completed")
          /\ UNCHANGED cur \/ (stage \in {"idle", "polling"} /\ cur' = [cur EXCEPT ![w] = NoJob])
    BY <2>2
  <2>4. pc'[w] = stage
    BY <2>3, WorkerStage
  <2>5. Works(w)' => stage \in {"check", "collecting", "recheck", "failing"}
    BY <2>3, <2>4 DEF Works, Building
  <2>6. pc[w] \in {"starting", "collecting"} => Works(w)
    BY DEF Works, Building
  <2>7. PICK next \in {cur[w], NoJob} : cur' = [cur EXCEPT ![w] = next] /\ (Works(w)' => next = cur[w])
    BY <1>0, <2>3, <2>5
  <2> QED
    BY <2>1, <2>2, <2>3, <2>5, <2>6, <2>7, RowsAlone, WorkerCalmly
<1>3. CASE Crash(w)
  <2>1. UNCHANGED <<job, store, day, terms, created>> /\ pc[w] # "dead" /\ Move(w, "dead")
          /\ cur' = [cur EXCEPT ![w] = NoJob]
    BY <1>3 DEF Crash, tables
  <2>2. \A v \in Workers : prunable'[v] \subseteq prunable[v] /\ (v # w => then'[v] = then[v])
    BY <1>0, <1>3 DEF Crash
  <2>3. ~Works(w)'
    BY <2>1, WorkerStage DEF Works, Building
  <2> QED
    BY <2>1, <2>2, <2>3, RowsAlone, WorkerCalmly
<1>4. CASE Poll(w)
  <2>1. UNCHANGED <<job, store, day, terms, created, prunable, then>> /\ pc[w] = "polling"
    BY <1>4 DEF Poll, tables
  <2>2. PICK stage \in {"idle", "claiming"}, next \in Jobs \cup {NoJob} :
          Move(w, stage) /\ cur' = [cur EXCEPT ![w] = next]
    BY <1>0, <1>4 DEF Poll
  <2>3. ~Works(w)'
    BY <2>2, WorkerStage DEF Works, Building
  <2>a. /\ pc'[w] = stage
        /\ \A v \in Workers : v # w => pc'[v] = pc[v] /\ cur'[v] = cur[v]
    BY <2>2, WorkerMovesTo
  <2>4. WorkersCalm
    BY <2>1, <2>2, <2>3, <2>a, RowsAlone, MovesCalmly DEF Files
  <2>5. created \in Nat
    BY ExtractionAssumption DEF JobsInv, TypeOK
  <2> QED
    BY <2>1, <2>4, <2>5, RowsAlone, CalmKeeps
<1> QED
  BY <1>1, <1>2, <1>3, <1>4

LEMMA FailCalmly ==
  ASSUME JobsInv, Files, NEW w \in Workers, Fail(w)
  PROVE  Files'
<1>1. pc[w] = "failing" /\ Works(w)
  BY DEF Fail, Files, NotDone, Works, Building
<1>2. UNCHANGED <<store, day, terms, created, prunable, then>> /\ Move(w, "polling") /\ cur' = [cur EXCEPT ![w] = NoJob]
  BY <1>1 DEF Fail, Drop
<1>3. RowsCalm /\ \A j \in Jobs : job'[j] # job[j] => ~Is(j, {"processing"})'
  <2>1. CASE ~GivesUp(w)
    BY <2>1, RowsAlone DEF Fail
  <2>2. CASE GivesUp(w)
    <3> DEFINE row == Settled(job[cur[w]], "failed")
    <3>1. cur[w] \in Jobs /\ Is(cur[w], Active) /\ job[cur[w]] \in JobRow
      BY <1>1, <2>2 DEF GivesUp, Owns, Is, Exists, Active, JobsInv, TypeOK, HasJob, Holding
    <3>2. row \in JobRow /\ row.status = "failed" /\ ~row.artifact
      BY <3>1 DEF Settled, JobRow, Finished
    <3>3. \A j \in Jobs : job'[j] = IF j = cur[w] THEN row ELSE job[j]
      BY <2>2, <3>1 DEF Fail, JobsInv, TypeOK
    <3> HIDE DEF row
    <3> QED
      BY <3>1, <3>2, <3>3 DEF RowsCalm, Is
  <2> QED
    BY <2>1, <2>2
<1>4. ~Works(w)'
  BY <1>2, WorkerStage DEF Works, Building
<1> QED
  BY <1>1, <1>2, <1>3, <1>4, WorkerCalmly

LEMMA ClaimCalmly ==
  ASSUME JobsInv, Files, NEW w \in Workers, Claim(w)
  PROVE  Files'
<1>0. /\ pc[w] = "claiming" /\ cur[w] \in Jobs /\ created \in Nat
      /\ UNCHANGED <<store, day, terms, created, prunable, then>> /\ [cur EXCEPT ![w] = cur[w]] = cur
  BY ExtractionAssumption DEF Claim, JobsInv, TypeOK, HasJob
<1>1. CASE ~Claimable(cur[w])
  <2>1. UNCHANGED job /\ Move(w, "idle") /\ cur' = [cur EXCEPT ![w] = NoJob]
    BY <1>1 DEF Claim
  <2>2. ~Works(w)'
    BY <2>1, WorkerStage DEF Works, Building
  <2> QED
    BY <1>0, <2>1, <2>2, RowsAlone, WorkerCalmly
<1>2. CASE Claimable(cur[w])
  <2> DEFINE row == [job[cur[w]] EXCEPT !.status = "processing", !.owner = w]
  <2>1. Is(cur[w], Active) /\ job[cur[w]] \in JobRow /\ ~Done(cur[w]) /\ ~job[cur[w]].artifact
    BY <1>0, <1>2 DEF Claimable, Is, Exists, Active, Done, JobsInv, TypeOK, Files, Artifacts
  <2>2. row \in JobRow /\ row.status = "processing" /\ ~row.artifact /\ row.owner = w
    BY <2>1 DEF JobRow, Active
  <2>3. \A j \in Jobs : job'[j] = IF j = cur[w] THEN row ELSE job[j]
    BY <1>0, <1>2 DEF Claim, JobsInv, TypeOK, JobRow
  <2> HIDE DEF row
  <2>4. RowsCalm /\ \A j \in Jobs : job'[j] # job[j] => job'[j].owner = w
    BY <2>1, <2>2, <2>3 DEF RowsCalm
  <2>5. /\ pc'[w] = "starting" /\ cur'[w] = cur[w]
        /\ \A v \in Workers : v # w => pc'[v] = pc[v] /\ cur'[v] = cur[v]
    <3>1. Move(w, "starting") /\ cur' = [cur EXCEPT ![w] = cur[w]]
      BY <1>0, <1>2 DEF Claim
    <3> QED
      BY <3>1, WorkerMovesTo
  <2>6. WorkersCalm
    BY <1>0, <2>1, <2>4, <2>5, MovesCalmly DEF Files
  <2> QED
    BY <1>0, <2>4, <2>6, CalmKeeps
<1> QED
  BY <1>1, <1>2

\* Requests stop and insert rows; rows fall silent.
LEMMA RequestsCalmly ==
  ASSUME JobsInv, Files,
         \/ \E r \in Requests : Serve(r)
         \/ \E j \in Jobs : FallSilent(j)
         \/ UNCHANGED vars
  PROVE  Files'
<1>0. created \in Nat /\ job \in [Jobs -> JobRow \cup {NoJob}] /\ request \in [Requests -> Call \cup {NoCall}]
  BY ExtractionAssumption DEF JobsInv, TypeOK
<1>1. ASSUME RowsCalm, UNCHANGED <<workers, store, day>>, created' \in Nat, created' >= created,
             \A j \in Jobs : j <= created => terms'[j] = terms[j],
             \A j \in Jobs : job'[j] # job[j] => ~Is(j, {"processing"})'
      PROVE  Files'
  <2>1. WorkersCalm
    BY <1>1, WorkersRest DEF Files
  <2> QED
    BY <1>1, <2>1, CalmKeeps
<1>2. ASSUME UNCHANGED <<job, store, day, terms, created, workers>> PROVE Files'
  BY <1>0, <1>1, <1>2, RowsAlone
<1>3. ASSUME NEW js, StopJobs(js), UNCHANGED <<day, terms, created, workers>> PROVE Files'
  BY <1>0, <1>1, <1>3, StopsCalmly DEF Files
<1>4. ASSUME NEW r \in Requests, Insert(r) PROVE Files'
  <2>1. CASE UNCHANGED <<job, created, terms>>
    BY <1>2, <1>4, <2>1 DEF Insert
  <2>2. CASE ~UNCHANGED <<job, created, terms>>
    <3> DEFINE row == [author |-> request[r].author, key |-> request[r].key, status |-> "queued",
                       owner |-> NoWorker, artifact |-> FALSE]
               new == created + 1
    <3>1. /\ Conflict(request[r].author, request[r].key) = {} /\ new \in Jobs /\ created' = new
          /\ job' = [job EXCEPT ![new] = row] /\ UNCHANGED <<store, day, workers>>
          /\ terms' = [terms EXCEPT ![new] = [born |-> day, retention |-> request[r].retention]]
      BY <1>4, <2>2 DEF Insert
    <3>2. job[new] = NoJob /\ new > created /\ request[r] \in Call
      BY <1>0, <1>4, <3>1 DEF JobsInv, Born, Insert, At
    <3>3. row.author \in Authors /\ row.key \in Keys
      <4>1. request[r].author \in Authors /\ request[r] # NoCall /\ request[r].at = "inserting"
        BY <1>4, <3>2 DEF Call, Insert, At
      <4>2. request[r].op \in {"poll", "create", "stop", "retry"}
        BY <3>2 DEF Call, Operations
      <4> QED
        BY <4>1, <4>2 DEF JobsInv, Requested
    <3>4. row \in JobRow /\ row.status = "queued" /\ ~row.artifact
      BY <3>3 DEF JobRow, Active
    <3>5. \A j \in Jobs : job'[j] = IF j = new THEN row ELSE job[j]
      BY <1>0, <3>1
    <3> HIDE DEF row
    <3>6. RowsCalm /\ \A j \in Jobs : job'[j] # job[j] => ~Is(j, {"processing"})'
      BY <3>2, <3>4, <3>5 DEF RowsCalm, Is
    <3>7. \A j \in Jobs : j <= created => terms'[j] = terms[j]
      BY <1>0, <3>1, NoJobIsNoRow
    <3> QED
      BY <1>0, <1>1, <3>1, <3>6, <3>7
  <2> QED
    BY <2>1, <2>2
<1>5. ASSUME NEW r \in Requests, Serve(r) PROVE Files'
  <2>1. CASE StopStale(r)
    BY <1>3, <2>1 DEF StopStale
  <2>2. CASE Act(r)
    BY <1>3, <2>2 DEF Act
  <2>3. CASE Enter(r)
    BY <1>3, <2>3 DEF Enter
  <2>4. CASE Find(r) \/ Resolve(r)
    BY <1>2, <2>4 DEF Find, Resolve, tables
  <2>5. ASSUME NEW a, NEW op, NEW key, Arrive(r, a, op, key) \/ \E p \in Schedules : ScheduledBackup(r, a, key, p)
        PROVE  Files'
    BY <1>2, <2>5 DEF Arrive, ScheduledBackup, tables
  <2> QED
    BY <1>4, <1>5, <2>1, <2>2, <2>3, <2>4, <2>5 DEF Serve
<1>6. ASSUME NEW j \in Jobs, FallSilent(j) PROVE Files'
  BY <1>2, <1>6 DEF FallSilent
<1>7. CASE UNCHANGED vars
  BY <1>2, <1>7 DEF vars, tables
<1> QED
  BY <1>5, <1>6, <1>7

-----------------------------------------------------------------------------
(* The steps that upload, complete, prune and expire.                      *)

LEMMA UploadKeeps ==
  ASSUME JobsInv, Files, NEW w \in Workers, Upload(w)
  PROVE  Files'
<1>0. /\ pc[w] = "saving" /\ Works(w) /\ cur[w] \in Jobs /\ store' = store \cup {cur[w]}
      /\ UNCHANGED <<job, created, day, terms, cur, prunable, then>>
      /\ pc'[w] = "uploaded" /\ \A v \in Workers : v # w => pc'[v] = pc[v]
  BY DEF Upload, Move, JobsInv, TypeOK, HasJob, Holding, Works, Building
<1>1. ~Done(cur[w]) /\ \A j \in Jobs : Done(j)' <=> Done(j)
  BY <1>0 DEF Files, NotDone, Done, Is, Exists
<1>2. \A j \in Jobs : j <= created /\ Lost(j) => Lost(j)'
  BY <1>0, <1>1, StillLost
<1>3. Artifacts' /\ PrunableDone'
  BY <1>0 DEF Files, Artifacts, PrunableDone, Is, Exists
<1>4. NotDone'
  BY <1>0, <1>1 DEF Files, NotDone, Works, Building, Done, Is, Exists
<1>5. Saved'
  BY <1>0 DEF Files, Saved, Owns, Is, Exists
<1>6. Retained' /\ PrunableLost'
  BY <1>0, <1>1, <1>2, DoneIsCreated, Here DEF Files, Retained, PrunableLost, PrunableDone, Done, Is, Exists
<1>7. PrunedGone'
  BY <1>0, <1>1 DEF Files, PrunedGone, Done, Is, Exists
<1>8. Placed'
  <2> SUFFICES ASSUME AllAlive', NEW j \in store'
               PROVE  Done(j)' \/ \E v \in Workers : pc'[v] = "uploaded" /\ cur'[v] = j
    BY DEF Placed
  <2>1. CASE j = cur[w]
    BY <1>0, <2>1
  <2>2. CASE j # cur[w]
    <3>1. AllAlive /\ j \in store /\ j \in Jobs
      BY <1>0, <2>2 DEF AllAlive, JobsInv, TypeOK
    <3>2. Done(j) \/ \E v \in Workers : pc[v] = "uploaded" /\ cur[v] = j
      BY <3>1 DEF Files, Placed
    <3> QED
      BY <1>0, <1>1, <3>1, <3>2
  <2> QED
    BY <2>1, <2>2
<1> QED
  BY <1>3, <1>4, <1>5, <1>6, <1>7, <1>8 DEF Files

LEMMA CompleteIsStored ==
  ASSUME JobsInv, Files, NEW w \in Workers, Complete(w), Owns(w)
  PROVE  Files'
<1> DEFINE done == cur[w]
<1>0. /\ pc[w] = "uploaded" /\ done \in Jobs /\ done \in store /\ Is(done, Active)
      /\ job \in [Jobs -> JobRow \cup {NoJob}] /\ prunable \in [Workers -> SUBSET Jobs] /\ store \subseteq Jobs
  BY DEF Complete, JobsInv, TypeOK, HasJob, Holding, Files, Saved, Owns, Is, Active
<1>1. /\ UNCHANGED <<created, store, day, terms, cur, prunable, then>>
      /\ pc'[w] = "completed" /\ \A v \in Workers : v # w => pc'[v] = pc[v]
      /\ \A j \in Jobs : job'[j] = IF j = done THEN Settled(job[done], "completed") ELSE job[j]
  BY <1>0 DEF Complete, Move, JobsInv, TypeOK
<1>2. /\ Settled(job[done], "completed").status = "completed" /\ Settled(job[done], "completed").artifact
      /\ job[done] \in JobRow
  <2>1. job[done] \in JobRow
    BY <1>0 DEF Is, Exists
  <2> QED
    BY <2>1 DEF Settled, JobRow
<1>3. \A j \in Jobs : /\ Done(j)' => j = done \/ Done(j)
                      /\ j # done => (Done(j)' <=> Done(j))
                      /\ Exists(j)' => j = done \/ Exists(j)
                      /\ Is(j, Active)' => Is(j, Active)
  BY <1>0, <1>1, <1>2 DEF Done, Is, Exists, Active
<1>a. ~Done(done)
  BY <1>0 DEF Done, Is, Active
<1>4. \A j \in Jobs : j <= created /\ Lost(j) => Lost(j)'
  BY <1>1, <1>3, <1>a, StillLost
<1>5. \A v \in Workers : done \notin prunable[v]
  BY <1>0 DEF Files, PrunableDone
<1>6. \A v \in Workers : v # w /\ (pc[v] = "uploaded" \/ Works(v)) => cur[v] # done
  BY <1>0 DEF JobsInv, HeldOnce, Holding, Works, Building
<1>7. Artifacts'
  BY <1>1, <1>2 DEF Files, Artifacts, Exists
<1>8. NotDone'
  <2> SUFFICES ASSUME NEW v \in Workers, Works(v)' PROVE ~Done(cur[v])' /\ pc'[v] # "undoing"
    BY DEF NotDone
  <2>1. v # w
    BY <1>1 DEF Works, Building
  <2>2. Works(v) /\ pc'[v] = pc[v] /\ cur'[v] = cur[v] /\ cur[v] \in Jobs
    BY <1>1, <2>1 DEF Works, JobsInv, HasJob, TypeOK, Building, Holding
  <2> QED
    BY <1>3, <1>6, <2>1, <2>2 DEF Files, NotDone
<1>9. Saved'
  <2> SUFFICES ASSUME NEW v \in Workers, pc'[v] = "uploaded", Owns(v)' PROVE cur'[v] \in store'
    BY DEF Saved
  <2>1. v # w /\ pc[v] = "uploaded" /\ cur'[v] = cur[v] /\ cur[v] \in Jobs
    BY <1>1 DEF JobsInv, HasJob, TypeOK, Holding
  <2>2. job'[cur[v]] = job[cur[v]]
    BY <1>1, <1>6, <2>1
  <2> QED
    BY <1>1, <2>1, <2>2 DEF Files, Saved, Owns, Is, Exists
<1>10. Retained'
  BY <1>0, <1>1, <1>3, <1>4, DoneIsCreated DEF Files, Retained, Done, Is
<1>11. PrunableDone' /\ PrunableLost' /\ PrunedGone'
  <2> SUFFICES ASSUME NEW v \in Workers, NEW j \in prunable[v]
               PROVE  /\ ~Is(j, Active)' /\ j <= created
                      /\ Exists(j)' => Lost(j)'
                      /\ Done(j)' => j \notin store
    BY <1>1 DEF PrunableDone, PrunableLost, PrunedGone
  <2>1. j \in Jobs /\ j # done
    BY <1>0, <1>5
  <2> QED
    BY <1>3, <1>4, <2>1 DEF Files, PrunableDone, PrunableLost, PrunedGone
<1>12. Placed'
  <2> SUFFICES ASSUME AllAlive', NEW j \in store
               PROVE  Done(j)' \/ \E v \in Workers : pc'[v] = "uploaded" /\ cur'[v] = j
    BY <1>1 DEF Placed
  <2>1. AllAlive
    BY <1>0, <1>1 DEF AllAlive
  <2>2. Done(j) \/ \E v \in Workers : pc[v] = "uploaded" /\ cur[v] = j
    BY <2>1 DEF Files, Placed
  <2>3. Settled(job[done], "completed") \in JobRow
    BY <1>2, SettledRow DEF Finished
  <2>4. Done(done)'
    BY <1>0, <1>1, <1>2, <2>3, NoJobIsNoRow DEF Done, Is, Exists
  <2> QED
    BY <1>0, <1>1, <1>3, <2>2, <2>4
<1> QED
  BY <1>7, <1>8, <1>9, <1>10, <1>11, <1>12 DEF Files

\* The archive of a job that was stopped or deleted under way is removed again.
LEMMA CompleteIsUndone ==
  ASSUME JobsInv, Files, NEW w \in Workers, Complete(w), ~Owns(w)
  PROVE  Files'
<1>0. /\ pc[w] = "uploaded" /\ Works(w) /\ cur[w] \in Jobs /\ store' = store \ {cur[w]} /\ store \subseteq Jobs
      /\ UNCHANGED <<job, created, day, terms, prunable, then>>
      /\ pc'[w] = "polling" /\ \A v \in Workers : v # w => pc'[v] = pc[v] /\ cur'[v] = cur[v]
  BY DEF Complete, Drop, Move, Discarded, JobsInv, TypeOK, HasJob, Holding, Works, Building
<1>1. ~Done(cur[w]) /\ \A j : (Done(j)' <=> Done(j)) /\ (Exists(j)' <=> Exists(j)) /\ (Is(j, Active)' <=> Is(j, Active))
  BY <1>0 DEF Files, NotDone, Done, Is, Exists
<1>2. \A j \in Jobs : j <= created /\ Lost(j) => Lost(j)'
  BY <1>0, <1>1, StillLost
<1>3. Artifacts' /\ PrunableDone'
  BY <1>0, <1>1 DEF Files, Artifacts, PrunableDone
<1>4. \A v \in Workers : Works(v)' => v # w /\ Works(v) /\ cur'[v] = cur[v] /\ pc'[v] = pc[v]
  BY <1>0 DEF Works, Building
<1>5. NotDone'
  BY <1>0, <1>4 DEF Files, NotDone, Done, Is, Exists
<1>6. Saved'
  <2> SUFFICES ASSUME NEW v \in Workers, pc'[v] = "uploaded", Owns(v)' PROVE cur'[v] \in store'
    BY DEF Saved
  <2>1. v # w /\ pc[v] = "uploaded" /\ cur'[v] = cur[v] /\ cur[v] # cur[w] /\ Owns(v)
    BY <1>0 DEF Owns, Is, Exists, JobsInv, HeldOnce, Holding
  <2> QED
    BY <1>0, <2>1 DEF Files, Saved
<1>7. Retained' /\ PrunableLost' /\ PrunedGone'
  BY <1>0, <1>1, <1>2, DoneIsCreated, Here DEF Files, Retained, PrunableLost, PrunableDone, PrunedGone, Done, Is
<1>8. Placed'
  <2> SUFFICES ASSUME AllAlive', NEW j \in store'
               PROVE  Done(j)' \/ \E v \in Workers : pc'[v] = "uploaded" /\ cur'[v] = j
    BY DEF Placed
  <2>1. AllAlive /\ j \in store /\ j # cur[w]
    BY <1>0 DEF AllAlive
  <2>2. Done(j) \/ \E v \in Workers : pc[v] = "uploaded" /\ cur[v] = j
    BY <2>1 DEF Files, Placed
  <2> QED
    BY <1>0, <1>1, <2>1, <2>2
<1> QED
  BY <1>3, <1>5, <1>6, <1>7, <1>8 DEF Files

LEMMA ReadPrunableFiles ==
  ASSUME JobsInv, Files, NEW w \in Workers, ReadPrunable(w)
  PROVE  Files'
<1>0. /\ pc[w] \in {"check", "recheck", "tidy"} /\ pc'[w] = "pruning" /\ store \subseteq Jobs
      /\ store' = store \ {j \in PrunableBy(w) : job[j].artifact}
      /\ UNCHANGED <<job, created, day, terms, cur>> /\ prunable'[w] = PrunableBy(w)
      /\ then'[w] = CASE pc[w] = "check" -> "collecting" [] pc[w] = "recheck" -> "saving" [] pc[w] = "tidy" -> "polling"
      /\ \A v \in Workers : v # w => pc'[v] = pc[v] /\ then'[v] = then[v] /\ prunable'[v] = prunable[v]
  BY DEF ReadPrunable, Move, JobsInv, TypeOK
<1>1. \A j : (Done(j)' <=> Done(j)) /\ (Exists(j)' <=> Exists(j)) /\ (Is(j, Active)' <=> Is(j, Active))
  BY <1>0 DEF Done, Is, Exists
<1>2. \A j \in Jobs : j <= created /\ Lost(j) => Lost(j)'
  BY <1>0, <1>1, StillLost
<1>3. \A v \in Workers : Works(v)' => Works(v)
  <2>1. then'[w] # "polling" => pc[w] \in {"check", "recheck"}
    BY <1>0
  <2> QED
    BY <1>0, <2>1 DEF Works, Building
<1>4. \A j \in PrunableBy(w) : /\ j \in Jobs /\ Is(j, Finished) /\ Lost(j)
                               /\ Done(j) => job[j].artifact
  <2> DEFINE p == terms[cur[w]].retention
  <2>1. p \in Retentions
    BY <1>0, Here, RowsAndFiles DEF Holding, Terms
  <2> HIDE DEF p
  <2> SUFFICES ASSUME NEW j \in Prunable(p)
               PROVE  /\ j \in Jobs /\ Is(j, Finished) /\ Lost(j)
                      /\ Done(j) => job[j].artifact
    BY DEF PrunableBy, p
  <2>2. j \in Jobs /\ Is(j, Finished)
    BY DEF Prunable, Old, Is, Finished, JobsInv, TypeOK
  <2>3. NewerArchives(p, j) = {i \in Young(p) : i > j}
    BY NewerIsAbove DEF Files
  <2>4. Lost(j)
    BY <2>1, <2>3 DEF Prunable, Old, Lost
  <2>5. Done(j) => job[j].artifact
    BY <2>2 DEF Done, Is, Files, Artifacts
  <2> QED
    BY <2>2, <2>4, <2>5
<1>5. Artifacts'
  BY <1>0, <1>1 DEF Files, Artifacts
<1>6. NotDone'
  <2> SUFFICES ASSUME NEW v \in Workers, Works(v)' PROVE ~Done(cur[v])' /\ pc'[v] # "undoing"
    BY DEF NotDone
  <2>1. ~Done(cur[v]) /\ pc[v] # "undoing"
    BY <1>3 DEF Files, NotDone
  <2> QED
    BY <1>0, <2>1 DEF Done, Is, Exists
<1>7. Saved'
  <2> SUFFICES ASSUME NEW v \in Workers, pc'[v] = "uploaded", Owns(v)' PROVE cur[v] \in store'
    BY <1>0 DEF Saved
  <2>1. pc[v] = "uploaded" /\ Owns(v)
    BY <1>0 DEF Owns, Is, Exists
  <2>2. cur[v] \notin PrunableBy(w)
    BY <1>4, <2>1 DEF Owns, Is, Finished
  <2> QED
    BY <1>0, <2>1, <2>2 DEF Files, Saved
<1>8. Retained'
  BY <1>0, <1>1, <1>2, <1>4, DoneIsCreated DEF Files, Retained, Done, Is
<1>9. PrunableDone' /\ PrunableLost' /\ PrunedGone'
  <2> SUFFICES ASSUME NEW v \in Workers, NEW j \in prunable'[v]
               PROVE  /\ j \in Jobs /\ ~Is(j, Active) /\ j <= created /\ (Exists(j) => Lost(j))
                      /\ Done(j) => j \notin store'
    BY <1>0, <1>1, <1>2 DEF PrunableDone, PrunableLost, PrunedGone
  <2>1. CASE v = w
    <3>1. j \in PrunableBy(w) /\ j \in Jobs /\ Is(j, Finished)
      BY <1>0, <1>4, <2>1
    <3>2. j <= created
      BY <3>1, NoJobIsNoRow, ExtractionAssumption DEF Is, Exists, JobsInv, Born, TypeOK
    <3> QED
      BY <1>0, <1>4, <3>1, <3>2 DEF Is, Active, Finished
  <2>2. CASE v # w
    <3>1. j \in Jobs
      BY <1>0, <2>2, Here
    <3> QED
      BY <1>0, <2>2, <3>1 DEF Files, PrunableDone, PrunableLost, PrunedGone
  <2> QED
    BY <2>1, <2>2
<1>10. Placed'
  <2> SUFFICES ASSUME AllAlive', NEW j \in store'
               PROVE  Done(j)' \/ \E v \in Workers : pc'[v] = "uploaded" /\ cur'[v] = j
    BY DEF Placed
  <2>1. AllAlive /\ j \in store
    BY <1>0 DEF AllAlive
  <2> QED
    BY <1>0, <1>1, <2>1 DEF Files, Placed
<1> QED
  BY <1>5, <1>6, <1>7, <1>8, <1>9, <1>10 DEF Files

LEMMA PruneFiles ==
  ASSUME JobsInv, Files, NEW w \in Workers, Prune(w)
  PROVE  Files'
<1>0. /\ pc[w] = "pruning" /\ UNCHANGED <<store, created, day, terms>> /\ store \subseteq Jobs
      /\ \A j \in Jobs : job'[j] = IF j \in prunable[w] THEN NoJob ELSE job[j]
      /\ prunable'[w] = {} /\ then'[w] = "polling" /\ prunable \in [Workers -> SUBSET Jobs]
      /\ pc'[w] \in {then[w], "failing"} /\ (pc'[w] = "failing" => then[w] # "polling")
      /\ then[w] # "polling" => cur'[w] = cur[w]
      /\ \A v \in Workers : v # w => /\ pc'[v] = pc[v] /\ cur'[v] = cur[v]
                                     /\ then'[v] = then[v] /\ prunable'[v] = prunable[v]
  BY DEF Prune, Move, JobsInv, TypeOK
<1>1. \A j \in Jobs : /\ Done(j)' <=> Done(j) /\ j \notin prunable[w]
                      /\ Exists(j)' <=> Exists(j) /\ j \notin prunable[w]
                      /\ Is(j, Active)' => Is(j, Active)
                      /\ Exists(j)' => job'[j] = job[j]
  BY <1>0 DEF Done, Is, Exists
<1>2. \A j \in Jobs : Done(j) => Done(j)' \/ Lost(j)
  BY <1>1 DEF Files, PrunableLost, Done, Is
<1>3. \A j \in Jobs : j <= created /\ Lost(j) => Lost(j)'
  BY <1>0, <1>2, StillLost
<1>4. \A v \in Workers : Works(v)' => Works(v) /\ cur'[v] = cur[v] /\ pc'[v] # "undoing" /\ cur[v] \in Jobs
  <2> SUFFICES ASSUME NEW v \in Workers, Works(v)'
               PROVE  Works(v) /\ cur'[v] = cur[v] /\ pc'[v] # "undoing" /\ cur[v] \in Jobs
    OBVIOUS
  <2>1. CASE v = w
    <3>1. then[w] # "polling" /\ then[w] \in {"polling", "collecting", "saving"}
      BY <1>0, <2>1 DEF Works, Building, JobsInv, TypeOK
    <3> QED
      BY <1>0, <2>1, <3>1 DEF Works, JobsInv, HasJob, TypeOK, Holding
  <2>2. CASE v # w
    <3>1. Works(v) /\ pc'[v] = pc[v] /\ cur'[v] = cur[v]
      BY <1>0, <2>2 DEF Works
    <3> QED
      BY <3>1 DEF Files, NotDone, Works, JobsInv, HasJob, TypeOK, Holding, Building
  <2> QED
    BY <2>1, <2>2
<1>5. Artifacts'
  BY <1>1 DEF Files, Artifacts, Exists
<1>6. NotDone'
  BY <1>1, <1>4 DEF Files, NotDone
<1>7. Saved'
  <2> SUFFICES ASSUME NEW v \in Workers, pc'[v] = "uploaded", Owns(v)' PROVE cur[v] \in store /\ cur'[v] = cur[v]
    BY <1>0 DEF Saved
  <2>1. v # w /\ pc[v] = "uploaded" /\ cur'[v] = cur[v] /\ cur[v] \in Jobs
    BY <1>0 DEF JobsInv, HasJob, TypeOK, Holding
  <2>2. Exists(cur[v])' /\ job'[cur[v]] = job[cur[v]]
    BY <1>1, <2>1 DEF Owns, Is, Exists
  <2> QED
    BY <2>1, <2>2 DEF Files, Saved, Owns, Is, Exists
<1>8. Retained'
  BY <1>0, <1>1, <1>3, DoneIsCreated DEF Files, Retained, Done, Is
<1>9. PrunableDone' /\ PrunableLost' /\ PrunedGone'
  <2> SUFFICES ASSUME NEW v \in Workers, NEW j \in prunable'[v]
               PROVE  /\ ~Is(j, Active)' /\ j <= created /\ (Exists(j)' => Lost(j)')
                      /\ Done(j)' => j \notin store
    BY <1>0 DEF PrunableDone, PrunableLost, PrunedGone
  <2>1. v # w /\ j \in prunable[v] /\ j \in Jobs
    BY <1>0
  <2> QED
    BY <1>1, <1>3, <2>1 DEF Files, PrunableDone, PrunableLost, PrunedGone
<1>10. Placed'
  <2> SUFFICES ASSUME AllAlive', NEW j \in store
               PROVE  Done(j)' \/ \E v \in Workers : pc'[v] = "uploaded" /\ cur'[v] = j
    BY <1>0 DEF Placed
  <2>1. AllAlive /\ j \in Jobs
    BY <1>0 DEF AllAlive
  <2>2. CASE Done(j)
    BY <1>1, <2>1, <2>2 DEF Files, PrunedGone
  <2>3. CASE \E v \in Workers : pc[v] = "uploaded" /\ cur[v] = j
    BY <1>0, <2>3
  <2> QED
    BY <2>1, <2>2, <2>3 DEF Files, Placed
<1> QED
  BY <1>5, <1>6, <1>7, <1>8, <1>9, <1>10 DEF Files

LEMMA NextDayFiles ==
  ASSUME JobsInv, Files, NextDay
  PROVE  Files'
<1>0. /\ UNCHANGED <<job, created, store, terms, workers>> /\ day' = day + 1
      /\ UNCHANGED <<pc, cur, then, prunable>> /\ prunable \in [Workers -> SUBSET Jobs]
  BY DEF NextDay, workers, JobsInv, TypeOK
<1>1. \A i : (Done(i)' <=> Done(i)) /\ (Exists(i)' <=> Exists(i)) /\ (Is(i, Active)' <=> Is(i, Active))
  BY <1>0 DEF Done, Is, Exists
<1>2. \A j \in Jobs : j <= created /\ Lost(j) => Lost(j)'
  BY <1>0, LostTomorrow
<1>3. Artifacts' /\ NotDone' /\ Saved' /\ PrunableDone' /\ PrunedGone' /\ Placed'
  BY <1>0, <1>1 DEF Files, Artifacts, NotDone, Saved, PrunableDone, PrunedGone, Placed, AllAlive,
                    Works, Owns, Done, Is, Exists
<1>4. Retained'
  BY <1>0, <1>1, <1>2, DoneIsCreated DEF Files, Retained, Done, Is
<1>5. PrunableLost'
  <2> SUFFICES ASSUME NEW v \in Workers, NEW i \in prunable[v], Exists(i) PROVE Lost(i)'
    BY <1>0, <1>1 DEF PrunableLost
  <2> QED
    BY <1>0, <1>2 DEF Files, PrunableLost, PrunableDone
<1> QED
  BY <1>3, <1>4, <1>5 DEF Files

-----------------------------------------------------------------------------
(* All steps together.                                                     *)

LEMMA FilesInit == Init => FilesInv
<1> SUFFICES ASSUME Init PROVE FilesInv
  OBVIOUS
<1>1. /\ \A j \in Jobs : ~Exists(j) /\ ~Done(j)
      /\ \A w \in Workers : ~Works(w) /\ pc[w] # "uploaded" /\ prunable[w] = {}
      /\ store = {} /\ delete = NoCall /\ cleanup = NoCall /\ admins = 0
  BY DEF Init, Exists, Done, Is, Works, Building
<1>2. Artifacts /\ NotDone /\ Saved /\ Retained
  BY <1>1 DEF Artifacts, NotDone, Saved, Retained
<1>3. PrunableDone /\ PrunableLost /\ PrunedGone /\ Placed
  BY <1>1 DEF PrunableDone, PrunableLost, PrunedGone, Placed
<1> QED
  BY <1>1, <1>2, <1>3 DEF FilesInv, Files

LEMMA WorkersKeepFiles ==
  ASSUME JobsInv, Files, NEW w \in Workers, Step(w) \/ Crash(w)
  PROVE  Files'
<1>1. CASE Complete(w)
  BY <1>1, CompleteIsStored, CompleteIsUndone
<1>2. CASE ~Complete(w)
  BY <1>2, CalmStepKeeps, ClaimCalmly, FailCalmly, ReadPrunableFiles, PruneFiles, UploadKeeps DEF Step
<1> QED
  BY <1>1, <1>2

\* An administrator's call is counted when it begins, and goes on only then.
LEMMA AdministersCounted ==
  ASSUME admins \in Nat, Administer
  PROVE  /\ admins' \in Nat
         /\ admins' = 0 => admins = 0 /\ (delete # NoCall \/ cleanup # NoCall)
<1>1. CASE UNCHANGED admins
  BY <1>1 DEF Administer, StartDelete, DeleteRows, DeleteFiles, StartCleanup, FinishReading, RemoveOrphans, NoCall
<1>2. CASE admins' = admins + 1
  BY <1>2
<1> QED
  BY <1>1, <1>2 DEF Administer, StartDelete, DeleteRows, DeleteFiles, StartCleanup, FinishReading, RemoveOrphans

LEMMA OthersDoNotAdminister ==
  \/ \E w \in Workers : Step(w) \/ Outage(w) \/ Crash(w)
  \/ \E r \in Requests : Serve(r)
  \/ NextDay \/ \E j \in Jobs : FallSilent(j)
  \/ UNCHANGED vars
  => UNCHANGED admin
<1>1. ASSUME NEW w \in Workers, Step(w) \/ Outage(w) \/ Crash(w) PROVE UNCHANGED admin
  BY <1>1 DEF Step, StartTick, Sweep, Poll, Claim, Load, ReadPrunable, Prune, Progress, Upload, Complete,
              Audit, Fail, Outage, Crash
<1>2. ASSUME NEW r \in Requests, Serve(r) PROVE UNCHANGED admin
  BY <1>2 DEF Serve, Arrive, ScheduledBackup, StopStale, Act, Enter, Find, Insert, Resolve
<1> QED
  BY <1>1, <1>2 DEF FallSilent, NextDay, vars

\* Outages are counted, and nothing takes one back.
LEMMA OutagesCounted ==
  ASSUME JobsInv, [Next]_vars, outages' = 0
  PROVE  outages = 0 /\ ~\E w \in Workers : Outage(w)
<1>1. outages \in Nat
  BY DEF JobsInv
<1>2. ASSUME NEW w \in Workers, Outage(w) PROVE FALSE
  BY <1>1, <1>2 DEF Outage
<1>3. ASSUME NEW w \in Workers, Step(w) \/ Crash(w) PROVE UNCHANGED outages
  BY <1>3 DEF Step, StartTick, Sweep, Poll, Claim, Load, ReadPrunable, Prune, Progress, Upload, Complete,
              Audit, Fail, Crash
<1>4. ASSUME NEW r \in Requests, Serve(r) PROVE UNCHANGED outages
  BY <1>4 DEF Serve, Arrive, ScheduledBackup, StopStale, Act, Enter, Find, Insert, Resolve
<1>5. Administer => UNCHANGED outages
  BY DEF Administer, StartDelete, DeleteRows, DeleteFiles, StartCleanup, FinishReading, RemoveOrphans
<1> QED
  BY <1>2, <1>3, <1>4, <1>5 DEF Next, FallSilent, NextDay, vars

LEMMA FilesNext == JobsInv /\ FilesInv /\ [Next]_vars => FilesInv'
<1> SUFFICES ASSUME JobsInv, FilesInv, [Next]_vars PROVE FilesInv'
  OBVIOUS
<1>1. CASE Administer
  BY <1>1, AdministersCounted, OutagesCounted DEF FilesInv, Undisturbed
<1>2. CASE ~Administer
  <2>1. UNCHANGED admin
    BY <1>2, OthersDoNotAdminister DEF Next
  <2>2. ASSUME Undisturbed' PROVE Files'
    <3>1. Undisturbed /\ ~\E w \in Workers : Outage(w)
      BY <2>1, <2>2, OutagesCounted DEF Undisturbed, admin
    <3>2. Files
      BY <3>1 DEF FilesInv
    <3>3. ASSUME NEW w \in Workers, Step(w) \/ Crash(w) PROVE Files'
      BY <3>2, <3>3, WorkersKeepFiles
    <3>4. ASSUME \/ \E r \in Requests : Serve(r)
                 \/ \E j \in Jobs : FallSilent(j)
                 \/ UNCHANGED vars
          PROVE  Files'
      BY <3>2, <3>4, RequestsCalmly
    <3>5. CASE NextDay
      BY <3>2, <3>5, NextDayFiles
    <3>6. \/ \E w \in Workers : Step(w) \/ Crash(w)
          \/ \E r \in Requests : Serve(r)
          \/ \E j \in Jobs : FallSilent(j)
          \/ NextDay
          \/ UNCHANGED vars
      BY <1>2, <3>1 DEF Next
    <3> QED
      BY <3>3, <3>4, <3>5, <3>6
  <2>3. admins' \in Nat /\ (Undisturbed' => delete' = NoCall /\ cleanup' = NoCall)
    BY <2>1, <2>2, OutagesCounted DEF FilesInv, Undisturbed, admin
  <2> QED
    BY <2>2, <2>3 DEF FilesInv
<1> QED
  BY <1>1, <1>2

LEMMA FilesAlways == Spec => [](JobsInv /\ FilesInv)
  BY JobsInit, JobsNext, FilesInit, FilesNext, PTL DEF Spec, Kept

\* A completed backup that every retention in use keeps has its archive, whatever
\* was pruned by whichever job's retention, stopped, retried and expired at once
\* and whichever replicas died, as long as no database statement failed and no
\* administrator deleted or cleaned up.
THEOREM RetainedAreStored == Spec => [](Undisturbed => RetainedIsStored)
<1>1. JobsInv /\ FilesInv => (Undisturbed => RetainedIsStored)
  <2> SUFFICES ASSUME JobsInv, FilesInv, Undisturbed, NEW j \in Jobs,
                      Is(j, {"completed"}), \A p \in Retentions : KeptBy(p, j)
               PROVE  j \in store
    BY DEF RetainedIsStored
  <2>1. Artifacts /\ Retained
    BY DEF FilesInv, Files
  <2>2. ASSUME NEW p \in Retentions
        PROVE  ~(Age(j) >= p.days) /\ ~(Cardinality({i \in Young(p) : i > j}) >= p.count)
    <3>1. KeptBy(p, j) /\ NewerArchives(p, j) = {i \in Young(p) : i > j}
      BY <2>1, NewerIsAbove
    <3>2. Cardinality(NewerArchives(p, j)) \in Nat
      BY JobsAreFinite DEF NewerArchives
    <3> QED
      BY <3>1, <3>2, RetentionsCount DEF KeptBy
  <2> QED
    BY <2>1, <2>2 DEF Retained, Done, Lost
<1> QED
  BY <1>1, FilesAlways, PTL

\* An archive in the storage is that of a completed backup or of a worker still
\* at it: no stopped, swept, failed or pruned job leaves one behind, under the
\* same conditions and while no replica died.
THEOREM NoPartialLeft == Spec => [](Undisturbed /\ AllAlive => NoPartialArtifact)
<1>1. JobsInv /\ FilesInv => (Undisturbed /\ AllAlive => NoPartialArtifact)
  BY DEF FilesInv, Files, Placed, NoPartialArtifact, Done, Is
<1> QED
  BY <1>1, FilesAlways, PTL

-----------------------------------------------------------------------------
(* The ledger.  What an action does to the rows is one entry of JobLedger;  *)
(* pruning strikes out a list read a statement earlier, and what is on it   *)
(* had its outcome then and has it still.                                   *)

Entries == [j \in Jobs |-> Entry(j)]
Spent(status) == status \in Finished \cup {"gone"}
PrunableSpent == \A w \in Workers : \A j \in prunable[w] : j \in Jobs /\ Spent(Entry(j).status)
Deletes == delete = NoCall \/ delete \in [at : {"rows", "files"}, author : Authors,
                                            ids : SUBSET Jobs, paths : SUBSET Jobs]
LedgerInv == PrunableSpent /\ Deletes
Recorded == Ledger!Next \/ UNCHANGED <<Entries, Deleting>>

LEMMA EntryOfRow ==
  ASSUME JobsInv, NEW j \in Jobs, Exists(j)
  PROVE  /\ job[j] \in JobRow /\ Entry(j) = EntryOf(job[j]) /\ Entries[j] = EntryOf(job[j])
         /\ Entry(j).status = job[j].status /\ job[j].status \in Active \cup Finished
  BY DEF Entry, Entries, EntryOf, Exists, JobsInv, TypeOK, JobRow

LEMMA EntryOfNone ==
  ASSUME NEW j \in Jobs, ~Exists(j)
  PROVE  Entry(j) \in {[status |-> "unborn"], [status |-> "gone"]}
  BY DEF Entry

LEMMA EntryOfSettled ==
  ASSUME NEW row \in JobRow, NEW status
  PROVE  EntryOf(Settled(row, status))
           = [author |-> row.author, key |-> row.key, status |-> status, owner |-> NoWorker]
<1>1. /\ Settled(row, status).author = row.author /\ Settled(row, status).key = row.key
      /\ Settled(row, status).status = status /\ Settled(row, status).owner = NoWorker
  BY DEF Settled, JobRow
<1> QED
  BY <1>1 DEF EntryOf

LEMMA EntryStays ==
  ASSUME NEW j \in Jobs, created' = created, job'[j] = job[j]
  PROVE  Entry(j)' = Entry(j)
  BY DEF Entry, Exists

LEMMA OneEntry ==
  ASSUME NEW j \in Jobs, NEW row \in JobRow, job'[j] = row,
         \A i \in Jobs : i # j => Entry(i)' = Entry(i)
  PROVE  Entries' = [Entries EXCEPT ![j] = EntryOf(row)]
<1>1. Entry(j)' = EntryOf(row)
  BY NoJobIsNoRow DEF Entry, Exists
<1> QED
  BY <1>1 DEF Entries

LEMMA NothingRecorded == UNCHANGED <<job, created, delete>> => Recorded
  BY DEF Recorded, Entries, Entry, Exists, Deleting

LEMMA NoDeletion == UNCHANGED delete => Deleting' = Deleting
  BY DEF Deleting

LEMMA StopIsStop ==
  ASSUME JobsInv, NEW js, StopJobs(js), created' = created, UNCHANGED delete
  PROVE  Recorded
<1> DEFINE stopped == {j \in Jobs : j \in js /\ Is(j, Active)}
<1>1. ASSUME NEW j \in stopped PROVE Entries[j].status \in {"queued", "processing"}
  BY EntryOfRow DEF Entries, Is, Active
<1>2. ASSUME NEW j \in Jobs
      PROVE  Entry(j)' = IF j \in stopped
                         THEN Ledger!Now(j, "stopped", NoWorker)
                         ELSE Entries[j]
  <2>1. CASE j \in stopped
    <3>1. Exists(j) /\ job'[j] = Settled(job[j], "stopped")
      BY <2>1 DEF StopJobs, Is
    <3>2. job[j] \in JobRow /\ Entries[j] = EntryOf(job[j])
      BY <3>1, EntryOfRow
    <3>3. Settled(job[j], "stopped") \in JobRow
      BY <3>2, SettledRow DEF Finished
    <3>4. Entry(j)' = EntryOf(Settled(job[j], "stopped"))
      BY <3>1, <3>3, NoJobIsNoRow DEF Entry, Exists
    <3> QED
      BY <2>1, <3>2, <3>4, EntryOfSettled DEF Ledger!Now, EntryOf, Entries
  <2>2. CASE j \notin stopped
    <3>1. job'[j] = job[j]
      BY <2>2 DEF StopJobs
    <3> QED
      BY <2>2, <3>1, EntryStays DEF Entries
  <2> QED
    BY <2>1, <2>2
<1>3. Ledger!Stop(stopped)
  BY <1>1, <1>2, NoDeletion DEF Ledger!Stop, Ledger!Open, Entries
<1> QED
  BY <1>3 DEF Recorded, Ledger!Next

LEMMA SettlingIsFinish ==
  ASSUME JobsInv, NEW j \in Jobs, NEW w \in Workers, NEW outcome \in {"completed", "failed"},
         Is(j, {"processing"}), job[j].owner = w, created' = created,
         UNCHANGED delete, job' = [job EXCEPT ![j] = Settled(@, outcome)]
  PROVE  Recorded
<1>1. Exists(j) /\ job'[j] = Settled(job[j], outcome) /\ outcome \in Finished
  BY DEF Is, JobsInv, TypeOK, Finished
<1>2. job[j] \in JobRow /\ Entries[j] = EntryOf(job[j])
  BY <1>1, EntryOfRow
<1>3. Settled(job[j], outcome) \in JobRow
  BY <1>1, <1>2, SettledRow
<1>4. \A i \in Jobs : i # j => Entry(i)' = Entry(i)
  BY EntryStays DEF JobsInv, TypeOK
<1>5. Entries' = [Entries EXCEPT ![j] = EntryOf(Settled(job[j], outcome))]
  BY <1>1, <1>3, <1>4, OneEntry
<1>6. Entries[j].status = "processing" /\ Entries[j].owner = w
  BY <1>2 DEF EntryOf, Is
<1>7. EntryOf(Settled(job[j], outcome)) = Ledger!Now(j, outcome, NoWorker)
  <2>1. Ledger!Now(j, outcome, NoWorker)
          = [author |-> Entries[j].author, key |-> Entries[j].key, status |-> outcome, owner |-> NoWorker]
    BY DEF Ledger!Now, Entries
  <2> QED
    BY <1>2, <2>1, EntryOfSettled DEF EntryOf
<1>8. Ledger!Finish(j, w, outcome)
  BY <1>5, <1>6, <1>7, NoDeletion DEF Ledger!Finish, Entries
<1> QED
  BY <1>8 DEF Recorded, Ledger!Next

LEMMA ClaimIsTake ==
  ASSUME JobsInv, NEW w \in Workers, Claim(w)
  PROVE  Recorded
<1>0. cur[w] \in Jobs /\ UNCHANGED <<created, delete>>
  BY Here DEF Claim, Holding, admin
<1>1. CASE ~ Claimable(cur[w])
  BY <1>0, <1>1, NothingRecorded DEF Claim
<1>2. CASE Claimable(cur[w])
  <2> DEFINE j == cur[w]
  <2>1. /\ job[j] \in JobRow /\ Exists(j) /\ job[j].status = "queued"
        /\ job' = [job EXCEPT ![j] = [@ EXCEPT !.status = "processing", !.owner = w]]
    BY <1>0, <1>2, Here DEF Claim, Claimable, Is, Exists
  <2>2. /\ job'[j] = [job[j] EXCEPT !.status = "processing", !.owner = w]
        /\ \A i \in Jobs : i # j => job'[i] = job[i]
    BY <1>0, <2>1, Here
  <2> HIDE DEF j
  <2> DEFINE row == [job[j] EXCEPT !.status = "processing", !.owner = w]
  <2>3. row \in JobRow /\ EntryOf(row) = [author |-> job[j].author, key |-> job[j].key,
                                        status |-> "processing", owner |-> w]
    <3>1. row \in JobRow /\ row.author = job[j].author /\ row.key = job[j].key
            /\ row.status = "processing" /\ row.owner = w
      BY <2>1 DEF JobRow, Active, Finished
    <3> HIDE DEF row
    <3> QED
      BY <3>1 DEF EntryOf
  <2> HIDE DEF row
  <2>4. j \in Jobs /\ job'[j] = row
    BY <1>0, <2>2 DEF j, row
  <2>5. \A i \in Jobs : i # j => Entry(i)' = Entry(i)
    BY <1>0, <2>2, EntryStays
  <2>6. Entries' = [Entries EXCEPT ![j] = EntryOf(row)]
    BY <2>3, <2>4, <2>5, OneEntry
  <2>7. Entries[j] = EntryOf(job[j]) /\ Entries[j].status = "queued"
    BY <2>1, <2>4, EntryOfRow DEF EntryOf
  <2>8. EntryOf(row) = Ledger!Now(j, "processing", w)
    <3>1. Ledger!Now(j, "processing", w)
            = [author |-> Entries[j].author, key |-> Entries[j].key, status |-> "processing", owner |-> w]
      BY DEF Ledger!Now, Entries
    <3> QED
      BY <2>3, <2>7, <3>1 DEF EntryOf
  <2>9. Ledger!Take(j, w)
    BY <1>0, <2>6, <2>7, <2>8, NoDeletion DEF Ledger!Take, Entries
  <2> QED
    BY <2>4, <2>9 DEF Recorded, Ledger!Next
<1> QED
  BY <1>1, <1>2

LEMMA OwnedRows ==
  ASSUME JobsInv, NEW a
  PROVE  /\ \A j \in Ledger!OwnedBy(a) : j \in ByAuthor(a) /\ Entries[j].key = job[j].key
                                          /\ Entries[j].status = job[j].status
         /\ ByAuthor(a) \subseteq Ledger!OwnedBy(a)
<1>1. ASSUME NEW j \in Jobs, Exists(j)
      PROVE  /\ Entries[j].author = job[j].author /\ Entries[j].key = job[j].key
             /\ Entries[j].status = job[j].status
             /\ job[j].status \notin {"unborn", "gone"}
  <2>1. Entries[j] = EntryOf(job[j]) /\ job[j].status \in Active \cup Finished
    BY <1>1, EntryOfRow
  <2> QED
    BY <2>1 DEF EntryOf, Active, Finished
<1>2. ASSUME NEW j \in Jobs
      PROVE  Entries[j] \notin {Ledger!Unborn, Ledger!Gone} <=> Exists(j)
  <2>1. CASE Exists(j)
    BY <1>1, <2>1 DEF Ledger!Unborn, Ledger!Gone
  <2>2. CASE ~Exists(j)
    BY <2>2, EntryOfNone DEF Ledger!Unborn, Ledger!Gone, Entries
  <2> QED
    BY <2>1, <2>2
<1> QED
  BY <1>1, <1>2 DEF Ledger!OwnedBy, ByAuthor, Entries

LEMMA InsertIsSubmit ==
  ASSUME JobsInv, NEW r \in Requests, Insert(r)
  PROVE  Recorded
<1>0. request[r] \in Call /\ request[r].key \in Keys /\ request[r].author \in Authors
  BY RowsAndFiles DEF Insert, At, JobsInv, Requested, Call
<1>1. CASE Conflict(request[r].author, request[r].key) # {}
  BY <1>1, NothingRecorded DEF Insert, admin
<1>2. CASE Conflict(request[r].author, request[r].key) = {}
  <2> DEFINE a == request[r].author
             key == request[r].key
             new == created + 1
             row == [author |-> a, key |-> key, status |-> "queued", owner |-> NoWorker, artifact |-> FALSE]
  <2>1. new \in Jobs /\ job' = [job EXCEPT ![new] = row] /\ created' = new /\ UNCHANGED delete
    BY <1>2 DEF Insert, admin
  <2>2. created \in Nat /\ new \in Nat /\ job[new] = NoJob /\ \A i \in Jobs : i \in Nat
    BY <2>1, NoJobIsNoRow DEF JobsInv, TypeOK, Born
  <2>3. job'[new] = row /\ row \in JobRow /\ \A i \in Jobs : i # new => job'[i] = job[i]
    <3>1. row \in JobRow
      BY <1>0 DEF JobRow, Active
    <3> QED
      BY <2>1, <3>1 DEF JobsInv, TypeOK
  <2>4. Entries[new] = Ledger!Unborn
    BY <2>1, <2>2 DEF Entries, Entry, Exists, Ledger!Unborn
  <2>5. EntryOf(row) = [author |-> a, key |-> key, status |-> "queued", owner |-> NoWorker]
    BY DEF EntryOf
  <2>6. ASSUME NEW i \in Jobs, i # new PROVE Entry(i)' = Entry(i)
    <3>1. i > created' <=> i > created
      BY <2>1, <2>2, <2>6
    <3>2. job'[i] = job[i] /\ (i <= created' <=> i <= created)
      BY <2>1, <2>2, <2>3, <2>6
    <3> QED
      BY <3>1, <3>2 DEF Entry, Exists
  <2>7. \A i \in Ledger!OwnedBy(a) : Entries[i].key # key /\ ~Ledger!Open(i)
    <3>1. \A i \in ByAuthor(a) : job[i].key # key /\ job[i].status \notin Active
      BY <1>2 DEF Conflict, OfKey, Blocking
    <3> QED
      BY <3>1, OwnedRows DEF Ledger!Open, Active, Entries
  <2>8. a \in Authors /\ key \in Keys
    BY <1>0
  <2> HIDE DEF new, a, key, row
  <2>9. Entries' = [Entries EXCEPT ![new] = EntryOf(row)]
    BY <2>1, <2>3, <2>6, OneEntry
  <2>10. Ledger!Submit(new, a, key)
    BY <2>1, <2>4, <2>5, <2>7, <2>9, NoDeletion DEF Ledger!Submit, Entries
  <2> QED
    BY <2>1, <2>8, <2>10 DEF Recorded, Ledger!Next
<1> QED
  BY <1>1, <1>2

LEMMA StruckOut ==
  ASSUME JobsInv, NEW js, js \subseteq Jobs, created' = created,
         \A j \in js : Exists(j),
         job' = [j \in Jobs |-> IF j \in js THEN NoJob ELSE job[j]]
  PROVE  Ledger!StrikeOut(js)
<1>1. ASSUME NEW j \in Jobs
      PROVE  Entry(j)' = IF j \in js THEN Ledger!Gone ELSE Entries[j]
  <2>1. CASE j \in js
    BY <2>1, NoJobIsNoRow DEF Entry, Exists, Ledger!Gone, JobsInv, TypeOK, Born
  <2>2. CASE j \notin js
    BY <2>2, EntryStays DEF Entries
  <2> QED
    BY <2>1, <2>2
<1> QED
  BY <1>1 DEF Ledger!StrikeOut, Entries

LEMMA PruneIsPrune ==
  ASSUME JobsInv, PrunableSpent, NEW w \in Workers, Prune(w)
  PROVE  Recorded
<1>1. prunable[w] \subseteq Jobs /\ \A j \in prunable[w] : Spent(Entries[j].status)
  BY DEF PrunableSpent, Entries
<1> DEFINE js == {j \in prunable[w] : Exists(j)}
<1>2. job' = [j \in Jobs |-> IF j \in js THEN NoJob ELSE job[j]] /\ UNCHANGED <<created, delete>>
  BY DEF Prune, Exists, admin
<1>3. \A j \in js : Entries[j].status \in Finished
  <2>1. \A j \in js : /\ Entries[j].status = job[j].status
                      /\ job[j].status \in Active \cup Finished
    BY <1>1, EntryOfRow DEF EntryOf
  <2> QED
    BY <1>1, <2>1 DEF Spent, Active, Finished
<1>4. \A j \in js : Exists(j)
  OBVIOUS
<1> HIDE DEF js
<1>5. js \subseteq Jobs
  BY <1>1 DEF js
<1>6. Ledger!Prune(js)
  BY <1>2, <1>3, <1>4, <1>5, StruckOut, NoDeletion DEF Ledger!Prune, Ledger!Outcomes, Finished, Entries
<1> QED
  BY <1>5, <1>6 DEF Recorded, Ledger!Next

LEMMA DeleteIsDelete ==
  ASSUME JobsInv, Deletes, DeleteRows
  PROVE  Recorded
<1> DEFINE a == delete.author
           js == {j \in ByAuthor(a) : delete.ids = {} \/ j \in delete.ids}
<1>1. job' = [j \in Jobs |-> IF j \in js THEN NoJob ELSE job[j]] /\ created' = created
  BY DEF DeleteRows
<1>2. js \subseteq ByAuthor(a)
  OBVIOUS
<1>3. Deleting = {a} /\ Deleting' = {}
  <2>1. delete.at = "rows" /\ delete' = [delete EXCEPT !.at = "files"]
    BY DEF DeleteRows
  <2>2. delete'.at = "files"
    BY <2>1 DEF Deletes, NoCall
  <2> QED
    BY <2>1, <2>2 DEF Deleting
<1> HIDE DEF js, a
<1>4. js \subseteq Jobs /\ \A j \in js : Exists(j)
  BY <1>2 DEF ByAuthor
<1>5. Ledger!Delete(a, js)
  BY <1>1, <1>2, <1>3, <1>4, StruckOut, OwnedRows DEF Ledger!Delete, Entries
<1> QED
  BY <1>3, <1>4, <1>5 DEF Recorded, Ledger!Next

LEMMA AskIsAsk ==
  ASSUME JobsInv, NEW a \in Authors, NEW ids, StartDelete(a, ids)
  PROVE  Recorded
<1>1. UNCHANGED Entries
  BY DEF StartDelete, tables, Entries, Entry, Exists
<1>2. Deleting = {} /\ Deleting' = {a}
  BY DEF StartDelete, Deleting, NoCall
<1>3. Ledger!AskToDelete(a)
  BY <1>1, <1>2 DEF Ledger!AskToDelete, Entries
<1> QED
  BY <1>3 DEF Recorded, Ledger!Next

LEMMA FilesAreNotListed ==
  ASSUME Deletes, DeleteFiles
  PROVE  Recorded
<1>1. Deleting = {} /\ Deleting' = {}
  BY DEF DeleteFiles, Deleting, NoCall
<1> QED
  BY <1>1 DEF DeleteFiles, Recorded, Entries, Entry, Exists

LEMMA WorkerRecords ==
  ASSUME JobsInv, PrunableSpent, NEW w \in Workers, Step(w) \/ Outage(w) \/ Crash(w)
  PROVE  Recorded
<1>1. CASE StartTick(w) \/ Sweep(w)
  BY <1>1, StopIsStop DEF StartTick, Sweep, admin
<1>2. CASE \/ Poll(w) \/ Load(w) \/ ReadPrunable(w) \/ Progress(w) \/ Upload(w)
           \/ Audit(w) \/ Crash(w)
  BY <1>2, NothingRecorded
     DEF Poll, Load, ReadPrunable, Progress, Upload, Audit, Crash, tables, admin
<1>3. ASSUME Owns(w), pc[w] \in Holding, UNCHANGED <<created, delete>>, NEW outcome \in {"completed", "failed"},
             job' = [job EXCEPT ![cur[w]] = Settled(@, outcome)]
      PROVE  Recorded
  <2>1. cur[w] \in Jobs
    BY <1>3, Here
  <2> QED
    BY <1>3, <2>1, SettlingIsFinish DEF Owns
<1>4. CASE Complete(w)
  BY <1>3, <1>4, NothingRecorded DEF Complete, Holding, admin
<1>5. CASE Fail(w)
  BY <1>3, <1>5, NothingRecorded DEF Fail, GivesUp, Holding, admin
<1>6. CASE Outage(w)
  BY <1>3, <1>6, NothingRecorded DEF Outage, Holding, admin
<1> QED
  BY <1>1, <1>2, <1>4, <1>5, <1>6, ClaimIsTake, PruneIsPrune DEF Step

LEMMA RequestRecords ==
  ASSUME JobsInv, NEW r \in Requests, Serve(r)
  PROVE  Recorded
<1>1. CASE StopStale(r) \/ Act(r) \/ Enter(r)
  BY <1>1, StopIsStop DEF StopStale, Act, Enter, admin
<1>2. CASE \/ Find(r) \/ Resolve(r)
           \/ \E a, op, key : Arrive(r, a, op, key)
           \/ \E a, key, p : ScheduledBackup(r, a, key, p)
  BY <1>2, NothingRecorded DEF Find, Resolve, Arrive, ScheduledBackup, tables, admin
<1> QED
  BY <1>1, <1>2, InsertIsSubmit DEF Serve

LEMMA EveryStepRecords == JobsInv /\ LedgerInv /\ [Next]_vars => Recorded
<1> SUFFICES ASSUME JobsInv, LedgerInv, [Next]_vars PROVE Recorded
  OBVIOUS
<1>1. CASE Administer
  <2>1. CASE StartCleanup \/ FinishReading \/ RemoveOrphans
    BY <2>1, NothingRecorded DEF StartCleanup, FinishReading, RemoveOrphans, tables
  <2> QED
    BY <1>1, <2>1, AskIsAsk, DeleteIsDelete, FilesAreNotListed DEF LedgerInv, Administer
<1>2. CASE UNCHANGED vars \/ NextDay \/ \E j \in Jobs : FallSilent(j)
  BY <1>2, NothingRecorded DEF FallSilent, NextDay, vars, tables, admin
<1> QED
  BY <1>1, <1>2, WorkerRecords, RequestRecords DEF Next, LedgerInv

LEMMA DeletesStep == JobsInv /\ Deletes /\ [Next]_vars => Deletes'
<1> SUFFICES ASSUME JobsInv, Deletes, [Next]_vars PROVE Deletes'
  OBVIOUS
<1>1. CASE UNCHANGED delete
  BY <1>1 DEF Deletes
<1>2. ASSUME NEW a \in Authors, NEW ids \in {{}} \cup {{j} : j \in ByAuthor(a)}, StartDelete(a, ids)
      PROVE  Deletes'
  BY <1>2 DEF StartDelete, Deletes, ByAuthor
<1>3. CASE DeleteRows \/ DeleteFiles
  BY <1>3 DEF DeleteRows, DeleteFiles, Deletes, NoCall
<1>4. ASSUME NEW w \in Workers, Step(w) \/ Outage(w) \/ Crash(w) PROVE UNCHANGED delete
  BY <1>4 DEF Step, StartTick, Sweep, Poll, Claim, Load, ReadPrunable, Prune, Progress, Upload,
              Complete, Audit, Fail, Outage, Crash, admin
<1>5. ASSUME NEW r \in Requests, Serve(r) PROVE UNCHANGED delete
  BY <1>5 DEF Serve, Arrive, ScheduledBackup, StopStale, Act, Enter, Find, Insert, Resolve, admin
<1>6. CASE \/ StartCleanup \/ FinishReading \/ RemoveOrphans \/ UNCHANGED vars
           \/ NextDay \/ \E j \in Jobs : FallSilent(j)
  BY <1>1, <1>6 DEF StartCleanup, FinishReading, RemoveOrphans, FallSilent, NextDay, vars, admin
<1> QED
  BY <1>1, <1>2, <1>3, <1>4, <1>5, <1>6 DEF Next, Administer

\* What is spent stays spent: that is a fact about the ledger.
LEMMA SpentStays ==
  ASSUME JobsInv, Recorded, NEW j \in Jobs, Spent(Entry(j).status)
  PROVE  Spent(Entry(j)'.status)
<1>1. Spent(Entries[j].status)
  BY DEF Entries
<1>2. Spent(Entries'[j].status)
  <2>1. CASE UNCHANGED Entries \/ \E a \in Authors : Ledger!AskToDelete(a)
    BY <1>1, <2>1 DEF Ledger!AskToDelete, Entries
  <2>2. ASSUME NEW i \in Jobs, NEW a \in Authors, NEW key \in Keys, Ledger!Submit(i, a, key)
        PROVE  Spent(Entries'[j].status)
    <3>1. Entries[i] = [status |-> "unborn"] /\ \A k \in Jobs : k # i => Entries'[k] = Entries[k]
      BY <2>2 DEF Ledger!Submit, Ledger!Unborn, Entries
    <3>2. i # j
      BY <1>1, <3>1 DEF Spent, Finished
    <3> QED
      BY <1>1, <3>1, <3>2
  <2>3. ASSUME NEW i \in Jobs, NEW w \in Workers,
               Ledger!Take(i, w) \/ Ledger!Finish(i, w, "completed") \/ Ledger!Finish(i, w, "failed")
        PROVE  Spent(Entries'[j].status)
    BY <1>1, <2>3 DEF Ledger!Take, Ledger!Finish, Ledger!Now, Entries, Spent, Finished
  <2>4. ASSUME NEW js \in SUBSET Jobs, Ledger!Stop(js) PROVE Spent(Entries'[j].status)
    BY <1>1, <2>4 DEF Ledger!Stop, Ledger!Now, Ledger!Open, Entries, Spent, Finished
  <2>5. ASSUME NEW js, Ledger!StrikeOut(js) PROVE Spent(Entries'[j].status)
    BY <1>1, <2>5 DEF Ledger!StrikeOut, Ledger!Gone, Entries, Spent
  <2> QED
    BY <2>1, <2>2, <2>3, <2>4, <2>5 DEF Recorded, Ledger!Next, Ledger!Prune, Ledger!Delete
<1> QED
  BY <1>2 DEF Entries

LEMMA ListsAreRead ==
  ASSUME JobsInv, [Next]_vars, NEW w \in Workers
  PROVE  \/ prunable'[w] \subseteq prunable[w]
         \/ prunable'[w] = PrunableBy(w) /\ UNCHANGED <<job, created>>
<1>1. CASE UNCHANGED prunable
  BY <1>1
<1>2. ASSUME NEW v \in Workers, ReadPrunable(v)
      PROVE  \/ prunable'[w] \subseteq prunable[w]
             \/ prunable'[w] = PrunableBy(w) /\ UNCHANGED <<job, created>>
  BY <1>2, Here DEF ReadPrunable
<1>3. ASSUME NEW v \in Workers, prunable' = [prunable EXCEPT ![v] = {}]
      PROVE  prunable'[w] \subseteq prunable[w]
  BY <1>3, Here
<1>4. ASSUME NEW v \in Workers, Step(v) \/ Outage(v) \/ Crash(v)
      PROVE  \/ ReadPrunable(v) \/ UNCHANGED prunable \/ prunable' = [prunable EXCEPT ![v] = {}]
  BY <1>4 DEF Step, StartTick, Sweep, Poll, Claim, Load, Prune, Progress, Upload,
              Complete, Audit, Fail, Outage, Crash
<1>5. ASSUME NEW r \in Requests, Serve(r) PROVE UNCHANGED prunable
  BY <1>5 DEF Serve, Arrive, ScheduledBackup, StopStale, Act, Enter, Find, Insert, Resolve, workers
<1>6. CASE Administer \/ UNCHANGED vars \/ NextDay \/ \E j \in Jobs : FallSilent(j)
  BY <1>1, <1>6 DEF Administer, StartDelete, DeleteRows, DeleteFiles, StartCleanup, FinishReading,
                    RemoveOrphans, FallSilent, NextDay, vars, workers
<1> QED
  BY <1>1, <1>2, <1>3, <1>4, <1>5, <1>6 DEF Next

LEMMA PrunableIsSpent ==
  ASSUME JobsInv, NEW w \in Workers, NEW j \in PrunableBy(w)
  PROVE  j \in Jobs /\ Spent(Entry(j).status)
<1>1. j \in Jobs /\ Is(j, Finished)
  BY Here DEF PrunableBy, Prunable, Old, Is, Finished, JobsInv, TypeOK
<1> QED
  BY <1>1, EntryOfRow DEF Is, Spent

LEMMA LedgerStep ==
  JobsInv /\ LedgerInv /\ [Next]_vars => LedgerInv' /\ [Ledger!Next]_<<Entries, Deleting>>
<1> SUFFICES ASSUME JobsInv, LedgerInv, [Next]_vars
             PROVE  PrunableSpent' /\ Deletes' /\ Recorded
  BY DEF Recorded, LedgerInv
<1>1. Recorded
  BY EveryStepRecords
<1>2. ASSUME NEW w \in Workers, NEW j \in prunable'[w]
      PROVE  j \in Jobs /\ Spent(Entry(j)'.status)
  <2>1. j \in Jobs /\ Spent(Entry(j).status)
    BY <1>2, ListsAreRead, PrunableIsSpent DEF LedgerInv, PrunableSpent
  <2> QED
    BY <1>1, <2>1, SpentStays
<1> QED
  BY <1>1, <1>2, DeletesStep DEF LedgerInv, PrunableSpent

\* The jobs implement the ledger: an entry is queued for an author without an
\* open one, taken by one worker, gets its outcome from that worker or is
\* stopped, and is then only struck out, for good; an open one goes only with
\* its author's DELETE, and pruning, by whatever list a worker read before it
\* slept, strikes out none (createExtractionJob, claimQueuedExtractionJob,
\* runExtractionJob, pruneExtractionBackups, src/src/modules/settings/router.ts).
THEOREM JobsKeepTheLedger == Spec => JobsAreALedger
<1>1. Init => LedgerInv /\ Ledger!Init
  <2> SUFFICES ASSUME Init PROVE LedgerInv /\ Ledger!Init
    OBVIOUS
  <2>1. \A j \in Jobs : Entry(j) = [status |-> "unborn"]
    BY NoJobIsNoRow DEF Init, Entry, Exists, Jobs
  <2>2. Deletes /\ Deleting = {}
    BY DEF Init, Deletes, Deleting, NoCall
  <2> QED
    BY <2>1, <2>2 DEF Init, LedgerInv, PrunableSpent, Ledger!Init, Ledger!Unborn
<1>2. Spec => [][Ledger!Next]_<<Entries, Deleting>>
  BY <1>1, JobsAlways, LedgerStep, PTL DEF Spec
<1> QED
  BY <1>1, <1>2, PTL DEF JobsAreALedger, Spec, Ledger!Spec, Ledger!vars, Entries
=============================================================================
