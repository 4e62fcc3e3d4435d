---------------------------- MODULE ExtractionJobs ----------------------------
(***************************************************************************)
(* Backup extraction jobs of src/src/modules/settings/router.ts: requests  *)
(* create, stop, retry and delete jobs; a worker per replica claims queued *)
(* jobs, builds and uploads an archive, and completes the row; sweeps stop *)
(* silent and expired jobs; pruning and storage cleanup remove archives.   *)
(*                                                                         *)
(* A job's archive lives at backups/<id>/, so `store` is a set of job ids; *)
(* ids are handed out in creation order.  `stale` holds the jobs without   *)
(* progress for 30 minutes.  Days pass for all jobs at once: a job is past *)
(* its expiresAt after the days of its own retention, but a worker prunes  *)
(* every author's backups by the retention of the job it is running.       *)
(* Every await between two statements whose order matters is a step        *)
(* boundary.                                                               *)
(***************************************************************************)
EXTENDS Integers, FiniteSets

CONSTANTS
  Authors,     \* createdBy
  Workers,     \* extractionWorkerId: process lifetimes
  NoWorker,    \* null in leaseOwner
  NoJob,       \* no row with an id
  Requests,    \* requests under way at once
  Offered,     \* what they may ask for in an instance
  ClientKeys,  \* Idempotency-Key values and schedule keys
  MaxJobs,     \* bound on created jobs
  Manual,      \* retention of a job asked for by hand: [count, days]
  Schedules,   \* retentions in the payloads of scheduled backups
  MaxDays,     \* bound on the days that pass
  MaxAdmin,    \* bound on DELETE /extractions and storage cleanups together
  MaxOutages,  \* bound on database outages a worker meets
  MaxCrashes   \* bound on crashed processes

Jobs == 1 .. MaxJobs
Keys == ClientKeys \cup Jobs  \* a job id is the key `retry:<id>:<attempt + 1>`
Operations == {"poll", "create", "stop", "retry"}
Retentions == {Manual} \cup Schedules

VARIABLES
  job,      \* [Jobs -> row]: table ExtractionJob
  created,  \* ids handed out
  store,    \* ids whose archive is in object storage
  stale,
  day,      \* days that passed
  terms,    \* of each job the day it was created and its retention
  pc, cur,  \* where each worker stands, and on which job
  doomed,   \* jobs a worker has read as stale and is about to stop
  prunable, \* jobs a worker is about to prune
  then,     \* where it goes on after pruning
  request,  \* requests under way
  delete,   \* the DELETE under way
  cleanup,  \* the storage cleanup under way
  admins, outages \* spent bounds

tables == <<job, created, store, stale, day, terms>>
workers == <<pc, cur, doomed, prunable, then>>
admin == <<delete, cleanup, admins>>
vars == <<tables, workers, request, admin, outages>>

Active == {"queued", "processing"}
Finished == {"completed", "failed", "stopped"}
JobRow == [author : Authors, key : Keys, status : Active \cup Finished,
           owner : Workers \cup {NoWorker}, artifact : BOOLEAN]

ASSUME ExtractionAssumption ==
  /\ NoWorker \notin Workers /\ NoJob \notin Jobs \cup JobRow
  /\ Offered \subseteq Operations /\ Retentions \subseteq [count : Nat \ {0}, days : Nat \ {0}]
  /\ MaxJobs \in Nat /\ MaxDays \in Nat /\ MaxAdmin \in Nat
  /\ MaxOutages \in Nat /\ MaxCrashes \in Nat

Stages == {"idle", "sweeping", "polling", "claiming", "starting", "check",
           "pruning", "collecting", "recheck", "saving", "uploaded",
           "completed", "tidy", "failing", "undoing", "dead"}
Call == [op : Operations, author : Authors,
         key : Keys \cup {NoJob}, retention : Retentions, doomed : SUBSET Jobs,
         at : {"sweeping", "acting", "entering", "finding", "inserting",
               "resolving"}]
NoCall == [at |-> "none"]

TypeOK ==
  /\ job \in [Jobs -> JobRow \cup {NoJob}] /\ created \in 0 .. MaxJobs
  /\ store \subseteq Jobs /\ stale \subseteq Jobs
  /\ day \in 0 .. MaxDays /\ terms \in [Jobs -> [born : 0 .. MaxDays, retention : Retentions]]
  /\ pc \in [Workers -> Stages] /\ cur \in [Workers -> Jobs \cup {NoJob}]
  /\ doomed \in [Workers -> SUBSET Jobs]
  /\ prunable \in [Workers -> SUBSET Jobs]
  /\ then \in [Workers -> {"polling", "collecting", "saving"}]
  /\ request \in [Requests -> Call \cup {NoCall}]

-----------------------------------------------------------------------------
Exists(j) == job[j] # NoJob
Is(j, statuses) == Exists(j) /\ job[j].status \in statuses
ByAuthor(a) == {j \in Jobs : Exists(j) /\ job[j].author = a}
Age(j) == day - terms[j].born
Expired == {j \in Jobs : Exists(j) /\ Age(j) >= terms[j].retention.days}    \* past expiresAt

\* unique (createdBy, idempotencyKey)
OfKey(a, key) == {j \in ByAuthor(a) : job[j].key = key}
\* unique (createdBy) where status in ('queued', 'processing'): the index
\* knows nothing of expiresAt, the query of createExtractionJob does.
Blocking(a) == {j \in ByAuthor(a) : job[j].status \in Active}
ConflictOfAuthor(a, key) == Blocking(a)                       \* mutant
Conflict(a, key) == OfKey(a, key) \cup Blocking(a)
ActiveOf(a) == {j \in ByAuthor(a) \ Expired : job[j].status \in Active}

UnownedStaleJobs ==                                           \* mutant
  {j \in Jobs \ Expired : /\ j \in stale /\ Is(j, {"processing"})
                          /\ job[j].owner = NoWorker}
StaleJobs == {j \in Jobs \ Expired : j \in stale /\ Is(j, {"processing"})}

\* where: { id, status: 'processing', leaseOwner: extractionWorkerId }
Owns(w) == Is(cur[w], {"processing"}) /\ job[cur[w]].owner = w

\* where of the claim: the candidate may have been stopped or taken since.
ClaimableWhileActive(j) == Is(j, Active)                      \* mutant
Claimable(j) == Is(j, {"queued"})

\* pruneExtractionBackups(count, days): the finished jobs older than the days,
\* and of the younger completed ones those beyond the count newest, counted
\* over all authors.
NewerArchives(p, j) ==
  {i \in Jobs : i > j /\ Is(i, {"completed"}) /\ job[i].artifact /\ Age(i) < p.days}
OldOfAnyStatus(p) == {j \in Jobs : Exists(j) /\ Age(j) >= p.days}    \* mutant
Old(p) == {j \in Jobs : Is(j, Finished) /\ Age(j) >= p.days}
PrunableOffByOne(p) ==                                        \* mutant
  Old(p) \cup {j \in Jobs : /\ Is(j, {"completed"}) /\ job[j].artifact
                            /\ Cardinality(NewerArchives(p, j)) + 1 >= p.count}
Prunable(p) ==
  Old(p) \cup {j \in Jobs : /\ Is(j, {"completed"}) /\ job[j].artifact
                            /\ Cardinality(NewerArchives(p, j)) >= p.count}

Settled(row, status) == [row EXCEPT !.status = status, !.owner = NoWorker,
                                    !.artifact = status = "completed"]

\* Who writes a row writes its progress.
Stir == stale' = {j \in stale : job'[j] = job[j]}

\* stopExtractionJob: guarded updates, then the archive the rows name --
\* which active rows do not.
StopJobs(js) ==
  LET stopped == {j \in js : Is(j, Active)} IN
  /\ job' = [j \in Jobs |-> IF j \in stopped THEN Settled(job[j], "stopped")
                                             ELSE job[j]]
  /\ store' = store \ {j \in stopped : job[j].artifact}
  /\ Stir

Init ==
  /\ job = [j \in Jobs |-> NoJob] /\ created = 0
  /\ store = {} /\ stale = {}
  /\ day = 0 /\ terms = [j \in Jobs |-> [born |-> 0, retention |-> Manual]]
  /\ pc = [w \in Workers |-> "idle"] /\ cur = [w \in Workers |-> NoJob]
  /\ doomed = [w \in Workers |-> {}] /\ prunable = [w \in Workers |-> {}]
  /\ then = [w \in Workers |-> "polling"]
  /\ request = [r \in Requests |-> NoCall]
  /\ delete = NoCall /\ cleanup = NoCall
  /\ admins = 0 /\ outages = 0

\* 30 minutes pass without progress; a day passes.
FallSilent(j) ==
  /\ Is(j, {"processing"}) /\ j \notin stale
  /\ stale' = stale \cup {j}
  /\ UNCHANGED <<job, created, store, day, terms, workers, request, admin, outages>>

NextDay ==
  /\ day < MaxDays /\ day' = day + 1
  /\ UNCHANGED <<job, created, store, stale, terms, workers, request, admin, outages>>

-----------------------------------------------------------------------------
(* Requests.  Every endpoint first stops the author's stale jobs; the       *)
(* handler of extraction.backup enters createExtractionJob at once.         *)

Arrive(r, a, op, key) ==
  /\ op \in Offered /\ request[r] = NoCall
  /\ request' = [request EXCEPT ![r] =
       [op |-> op, author |-> a, key |-> key, at |-> "sweeping",
        retention |-> IF op = "retry" THEN terms[key].retention ELSE Manual,
        doomed |-> StaleJobs \cap ByAuthor(a)]]
  /\ UNCHANGED <<tables, workers, admin, outages>>

ScheduledBackup(r, a, key, p) ==
  /\ request[r] = NoCall
  /\ request' = [request EXCEPT ![r] =
       [op |-> "create", author |-> a, key |-> key, at |-> "entering",
        retention |-> p, doomed |-> {}]]
  /\ UNCHANGED <<tables, workers, admin, outages>>

At(r, stage) == request[r] # NoCall /\ request[r].at = stage
\* The jobs found stale are forgotten once they are stopped.
GoTo(r, stage) ==
  request' = [request EXCEPT ![r] = [@ EXCEPT !.at = stage, !.doomed = {}]]
Hangup(r) == request' = [request EXCEPT ![r] = NoCall]

StopStale(r) ==
  /\ At(r, "sweeping")
  /\ StopJobs(request[r].doomed)
  /\ CASE request[r].op = "poll" -> Hangup(r)
       [] request[r].op = "create" -> GoTo(r, "entering")
       [] OTHER -> GoTo(r, "acting")
  /\ UNCHANGED <<created, day, terms, workers, admin, outages>>

\* POST /extractions/:id/stop and the first half of .../retry.
Act(r) ==
  LET j == request[r].key
      found == j \in ByAuthor(request[r].author) \ Expired IN
  /\ At(r, "acting")
  /\ StopJobs(IF found THEN {j} ELSE {})
  /\ IF found /\ request[r].op = "retry" THEN GoTo(r, "entering") ELSE Hangup(r)
  /\ UNCHANGED <<created, day, terms, workers, admin, outages>>

\* createExtractionJob: stopExpiredExtractionJobs(actor).
Enter(r) ==
  /\ At(r, "entering")
  /\ StopJobs(ByAuthor(request[r].author) \cap Expired)
  /\ GoTo(r, "finding")
  /\ UNCHANGED <<created, day, terms, workers, admin, outages>>

\* The row of the key, else the active job, else insert.
Known(r) == OfKey(request[r].author, request[r].key) \cup ActiveOf(request[r].author)
Find(r) ==
  /\ At(r, "finding")
  /\ IF Known(r) # {} THEN Hangup(r) ELSE GoTo(r, "inserting")
  /\ UNCHANGED <<tables, workers, admin, outages>>

\* The unique indexes decide.
Insert(r) ==
  LET a == request[r].author
      new == created + 1 IN
  /\ At(r, "inserting")
  /\ IF Conflict(a, request[r].key) = {}
     THEN /\ new \in Jobs
          /\ job' = [job EXCEPT ![new] =
               [author |-> a, key |-> request[r].key, status |-> "queued",
                owner |-> NoWorker, artifact |-> FALSE]]
          /\ created' = new
          /\ terms' = [terms EXCEPT ![new] = [born |-> day, retention |-> request[r].retention]]
          /\ Hangup(r)
     ELSE GoTo(r, "resolving") /\ UNCHANGED <<job, created, terms>>
  /\ UNCHANGED <<store, stale, day, workers, admin, outages>>

\* P2002: the job in the way is looked up for the answer, if it is still
\* there.
Resolve(r) ==
  /\ At(r, "resolving")
  /\ Hangup(r)
  /\ UNCHANGED <<tables, workers, admin, outages>>

\* DELETE /extractions: by ids, or everything of the author -- also the rows
\* created since the paths were read.
StartDelete(a, ids) ==
  /\ delete = NoCall /\ admins < MaxAdmin
  /\ admins' = admins + 1
  /\ delete' = [at |-> "rows", author |-> a, ids |-> ids,
                paths |-> {j \in ByAuthor(a) :
                             job[j].artifact /\ (ids = {} \/ j \in ids)}]
  /\ UNCHANGED <<tables, workers, request, cleanup, outages>>

DeleteRows ==
  /\ delete.at = "rows"
  /\ job' = [j \in Jobs |->
       IF j \in ByAuthor(delete.author) /\ (delete.ids = {} \/ j \in delete.ids)
       THEN NoJob ELSE job[j]]
  /\ delete' = [delete EXCEPT !.at = "files"]
  /\ UNCHANGED <<created, store, stale, day, terms, workers, request, cleanup,
                 admins, outages>>

\* collectReferencedStoragePaths, as far as archives go.
Referenced == {j \in Jobs \ Expired : Exists(j) /\ job[j].artifact}

DeleteFiles ==
  /\ delete.at = "files"
  /\ store' = store \ (delete.paths \ Referenced)
  /\ delete' = NoCall
  /\ UNCHANGED <<job, created, stale, day, terms, workers, request, cleanup,
                 admins, outages>>
-----------------------------------------------------------------------------
(* runStorageCleanup, called by POST /storage-cleanup and by a worker short *)
(* of space: the bucket is listed while the references are collected.       *)

StartCleanup ==
  /\ cleanup = NoCall /\ admins < MaxAdmin
  /\ admins' = admins + 1
  /\ \/ cleanup' = [at |-> "listing", referenced |-> Referenced, listed |-> {}]
     \/ cleanup' = [at |-> "collecting", referenced |-> {}, listed |-> store]
  /\ UNCHANGED <<tables, workers, request, delete, outages>>

FinishReading ==
  /\ \/ /\ cleanup.at = "listing"
        /\ cleanup' = [cleanup EXCEPT !.at = "removing", !.listed = store]
     \/ /\ cleanup.at = "collecting"
        /\ cleanup' = [cleanup EXCEPT !.at = "removing",
                                      !.referenced = Referenced]
  /\ UNCHANGED <<tables, workers, request, delete, admins, outages>>

RemoveOrphans ==
  /\ cleanup.at = "removing"
  /\ store' = store \ (cleanup.listed \ cleanup.referenced)
  /\ cleanup' = NoCall
  /\ UNCHANGED <<job, created, stale, day, terms, workers, request, delete,
                 admins, outages>>
-----------------------------------------------------------------------------
(* Workers. *)

Move(w, stage) == pc' = [pc EXCEPT ![w] = stage]
LeftBehind(w) == store                                        \* mutant
Discarded(w) == store \ {cur[w]}   \* deleteFileFromStorage(objectPath)
Drop(w) == Move(w, "polling") /\ cur' = [cur EXCEPT ![w] = NoJob]

\* runExtractionWorkerTick: expired jobs are stopped, stale ones read ...
StartTick(w) ==
  /\ pc[w] = "idle"
  /\ StopJobs(Expired)
  /\ doomed' = [doomed EXCEPT ![w] = StaleJobs]
  /\ Move(w, "sweeping")
  /\ UNCHANGED <<created, day, terms, cur, prunable, then, request, admin, outages>>
\* ... and stopped.
Sweep(w) ==
  /\ pc[w] = "sweeping"
  /\ StopJobs(doomed[w])
  /\ doomed' = [doomed EXCEPT ![w] = {}]
  /\ Move(w, "polling")
  /\ UNCHANGED <<created, day, terms, cur, prunable, then, request, admin, outages>>

\* claimQueuedExtractionJob: find the oldest, or end the tick.
Poll(w) ==
  LET queued == {j \in Jobs \ Expired : Is(j, {"queued"})} IN
  /\ pc[w] = "polling"
  /\ \/ queued = {} /\ Move(w, "idle") /\ UNCHANGED cur
     \/ \E j \in queued : /\ \A i \in queued : j <= i
                          /\ cur' = [cur EXCEPT ![w] = j]
                          /\ Move(w, "claiming")
  /\ UNCHANGED <<tables, doomed, prunable, then, request, admin, outages>>

Claim(w) ==
  LET j == cur[w] IN
  /\ pc[w] = "claiming"
  /\ IF Claimable(j)
     THEN /\ job' = [job EXCEPT ![j].status = "processing", ![j].owner = w]
          /\ stale' = stale \ {j}
          /\ Move(w, "starting")
          /\ UNCHANGED cur
     ELSE /\ Move(w, "idle") /\ cur' = [cur EXCEPT ![w] = NoJob]
          /\ UNCHANGED <<job, stale>>
  /\ UNCHANGED <<created, store, day, terms, doomed, prunable, then, request, admin,
                 outages>>

\* The claimed row is read back; a deleted one ends the tick.
Load(w) ==
  /\ pc[w] = "starting"
  /\ IF Exists(cur[w]) THEN Move(w, "check") /\ UNCHANGED cur
     ELSE Move(w, "idle") /\ cur' = [cur EXCEPT ![w] = NoJob]
  /\ UNCHANGED <<tables, doomed, prunable, then, request, admin, outages>>

\* Pruning: before collecting and uploading (where storage may stay too full
\* all the same and the job is given up) and after completion.
PrunableBy(w) == Prunable(terms[cur[w]].retention)
ReadPrunable(w) ==
  /\ pc[w] \in {"check", "recheck", "tidy"}
  /\ prunable' = [prunable EXCEPT ![w] = PrunableBy(w)]
  /\ then' = [then EXCEPT ![w] = CASE pc[w] = "check" -> "collecting"
                                   [] pc[w] = "recheck" -> "saving"
                                   [] pc[w] = "tidy" -> "polling"]
  /\ store' = store \ {j \in PrunableBy(w) : job[j].artifact}
  /\ Move(w, "pruning")
  /\ UNCHANGED <<job, created, stale, day, terms, cur, doomed, request, admin,
                 outages>>

Prune(w) ==
  /\ pc[w] = "pruning"
  /\ job' = [j \in Jobs |-> IF j \in prunable[w] THEN NoJob ELSE job[j]]
  /\ prunable' = [prunable EXCEPT ![w] = {}]
  /\ then' = [then EXCEPT ![w] = "polling"]
  /\ \/ Move(w, then[w])
        /\ cur' = IF then[w] = "polling" THEN [cur EXCEPT ![w] = NoJob] ELSE cur
     \/ then[w] # "polling" /\ Move(w, "failing") /\ UNCHANGED cur
  /\ UNCHANGED <<created, store, stale, day, terms, doomed, request, admin, outages>>

\* updateProgress, many times while data and media are collected, then at
\* 'compressing' and 'uploading'; it throws when the job is no longer ours.
Progress(w) ==
  /\ pc[w] = "collecting"
  /\ IF Owns(w) THEN /\ stale' = stale \ {cur[w]}
                     /\ Move(w, "collecting") \/ Move(w, "recheck")
     ELSE Move(w, "failing") /\ UNCHANGED stale
  /\ UNCHANGED <<job, created, store, day, terms, cur, doomed, prunable, then,
                 request, admin, outages>>

\* saveFileToStorage: nothing looks at the row.
Upload(w) ==
  /\ pc[w] = "saving"
  /\ store' = store \cup {cur[w]}
  /\ Move(w, "uploaded")
  /\ UNCHANGED <<job, created, stale, day, terms, cur, doomed, prunable, then,
                 request, admin, outages>>

\* The guarded completion; a stopped job's archive is removed again.
Complete(w) ==
  /\ pc[w] = "uploaded"
  /\ IF Owns(w)
     THEN /\ job' = [job EXCEPT ![cur[w]] = Settled(@, "completed")]
          /\ Move(w, "completed")
          /\ UNCHANGED <<store, cur>>
     ELSE /\ store' = Discarded(w)
          /\ Drop(w)
          /\ UNCHANGED job
  /\ Stir /\ UNCHANGED <<created, day, terms, doomed, prunable, then, request, admin, outages>>

\* The completed row is read back and audited.
Audit(w) ==
  /\ pc[w] = "completed"
  /\ IF Exists(cur[w]) THEN Move(w, "tidy") /\ UNCHANGED cur ELSE Drop(w)
  /\ UNCHANGED <<tables, doomed, prunable, then, request, admin, outages>>

\* The catch block, with or without an objectPath.
GivesUpWhenStopped(w) == Is(cur[w], {"stopped"})              \* mutant
GivesUp(w) == Owns(w)
Fail(w) ==
  /\ pc[w] \in {"failing", "undoing"}
  /\ store' = IF pc[w] = "undoing" THEN Discarded(w) ELSE store
  /\ job' = IF GivesUp(w) THEN [job EXCEPT ![cur[w]] = Settled(@, "failed")]
                          ELSE job
  /\ Drop(w)
  /\ Stir /\ UNCHANGED <<created, day, terms, doomed, prunable, then, request, admin, outages>>

\* The database or the storage fails.  In the try block of runExtractionJob
\* the catch block follows, although the upload or the completion may have
\* taken effect; elsewhere, the catch blocks included, the tick is over.
Pruning(w, next) == pc[w] = "pruning" /\ then[w] \in next
Outage(w) ==
  /\ outages < MaxOutages /\ outages' = outages + 1
  /\ \/ /\ pc[w] \in {"sweeping", "polling", "claiming", "starting", "failing",
                      "undoing"}
        /\ store' = IF pc[w] = "undoing" THEN Discarded(w) ELSE store
        /\ Move(w, "idle")
        /\ cur' = [cur EXCEPT ![w] = NoJob]
        /\ UNCHANGED job
     \/ /\ \/ pc[w] \in {"check", "collecting", "recheck"}
           \/ Pruning(w, {"collecting", "saving"})
        /\ Move(w, "failing")
        /\ UNCHANGED <<job, store, cur>>
     \/ /\ \/ pc[w] \in {"saving", "uploaded", "completed", "tidy"}
           \/ Pruning(w, {"polling"})
        /\ store' \in {store, IF pc[w] = "saving" THEN store \cup {cur[w]} ELSE store}
        /\ job' \in {job, IF pc[w] = "uploaded" /\ Owns(w)
                         THEN [job EXCEPT ![cur[w]] = Settled(@, "completed")]
                         ELSE job}
        /\ Move(w, "undoing")
        /\ UNCHANGED cur
  /\ doomed' = [doomed EXCEPT ![w] = {}]
  /\ prunable' = [prunable EXCEPT ![w] = {}]
  /\ then' = [then EXCEPT ![w] = "polling"]
  /\ Stir /\ UNCHANGED <<created, day, terms, request, admin>>

Crash(w) ==
  /\ pc[w] # "dead"
  /\ Cardinality({v \in Workers : pc[v] = "dead"}) < MaxCrashes
  /\ Move(w, "dead")
  /\ cur' = [cur EXCEPT ![w] = NoJob]
  /\ doomed' = [doomed EXCEPT ![w] = {}]
  /\ prunable' = [prunable EXCEPT ![w] = {}]
  /\ then' = [then EXCEPT ![w] = "polling"]
  /\ UNCHANGED <<tables, request, admin, outages>>
-----------------------------------------------------------------------------
Step(w) ==
  \/ StartTick(w) \/ Sweep(w) \/ Poll(w) \/ Claim(w) \/ Load(w)
  \/ ReadPrunable(w) \/ Prune(w) \/ Progress(w) \/ Upload(w)
  \/ Complete(w) \/ Audit(w) \/ Fail(w)

Serve(r) ==
  \/ \E a \in Authors :
       \/ Arrive(r, a, "poll", NoJob)
       \/ \E key \in ClientKeys :
            \/ Arrive(r, a, "create", key)
            \/ \E p \in Schedules : ScheduledBackup(r, a, key, p)
       \/ \E j \in ByAuthor(a) : Arrive(r, a, "stop", j) \/ Arrive(r, a, "retry", j)
  \/ StopStale(r) \/ Act(r) \/ Enter(r) \/ Find(r) \/ Insert(r) \/ Resolve(r)

Administer ==
  \/ \E a \in Authors :
       \E ids \in {{}} \cup {{j} : j \in ByAuthor(a)} : StartDelete(a, ids)
  \/ DeleteRows \/ DeleteFiles
  \/ StartCleanup \/ FinishReading \/ RemoveOrphans

Next ==
  \/ \E w \in Workers : Step(w) \/ Outage(w) \/ Crash(w)
  \/ \E r \in Requests : Serve(r)
  \/ Administer
  \/ NextDay \/ \E j \in Jobs : FallSilent(j)

Spec == Init /\ [][Next]_vars

\* Timers and continuations of a live process run, the media to collect are
\* finitely many, and a job nobody works on makes no progress.
Fairness ==
  /\ \A w \in Workers : /\ WF_vars(Step(w))
                        /\ WF_vars(Progress(w) /\ pc'[w] # "collecting")
  /\ \A j \in Jobs :
       WF_vars(\E w \in Workers : /\ Is(j, {"processing"}) /\ job[j].owner = w
                                  /\ cur[w] # j /\ FallSilent(j))
FairSpec == Spec /\ Fairness
-----------------------------------------------------------------------------
(* What the extraction jobs promise. *)

\* "Only one queued or processing job is allowed per Author" (README.md:134),
\* and one per key, whatever requests, retries and sweeps run at once.
OneActivePerAuthor ==
  \A a \in Authors :
    /\ Cardinality(Blocking(a)) <= 1
    /\ \A key \in Keys : Cardinality(OfKey(a, key)) <= 1

\* Two replicas never work on the same job.
OneWorkerPerJob ==
  \A v, w \in Workers :
    cur[v] # NoJob /\ cur[v] = cur[w] /\ pc[v] # "claiming" /\ pc[w] # "claiming"
      => v = w

\* A finished job is final: no worker that was stopped, swept or deleted under
\* way brings it back or rewrites its outcome; only deletion ends it.  (What
\* JobsAreALedger says of this, in terms of the rows.)
FinishedIsFinal ==
  [][\A j \in Jobs : Is(j, Finished) => job'[j] \in {job[j], NoJob}]_vars

\* A processing job is in the hands of its lease owner, or that process died:
\* no path of the worker lets go of a job without settling it, unless a
\* statement of it fails.
ProcessingIsWorked ==
  outages = 0 => \A j \in Jobs : Is(j, {"processing"}) =>
    LET w == job[j].owner IN w # NoWorker /\ (pc[w] = "dead" \/ cur[w] = j)

\* A completed backup has its archive, unless some retention in use gives it
\* up: every running job prunes by its own, whatever the backup was promised,
\* and what one of them removes another may have counted on.
KeptBy(p, j) == Age(j) < p.days /\ Cardinality(NewerArchives(p, j)) < p.count
RetainedIsStored ==
  \A j \in Jobs : Is(j, {"completed"}) /\ (\A p \in Retentions : KeptBy(p, j)) => j \in store

\* "Partial artifacts are removed" (README.md:138): an archive belongs to an
\* active or completed backup, or somebody is still at work on it.
NoPartialArtifact ==
  \A j \in store :
    \/ Is(j, {"processing", "completed"})
    \/ \E w \in Workers : cur[w] = j \/ j \in prunable[w]

\* What a job is to those who wait for it: its row without the archive; and of
\* a missing one, whether it was ever there.
EntryOf(row) == [author |-> row.author, key |-> row.key, status |-> row.status,
                 owner |-> row.owner]
Entry(j) == CASE Exists(j) -> EntryOf(job[j])
              [] ~Exists(j) /\ j > created -> [status |-> "unborn"]
              [] OTHER -> [status |-> "gone"]
Deleting == IF delete.at = "rows" THEN {delete.author} ELSE {}
Ledger == INSTANCE JobLedger WITH
  Ids <- Jobs, ledger <- [j \in Jobs |-> Entry(j)], deleting <- Deleting

\* The jobs implement the ledger, however requests, sweeps, pruning by lists
\* grown old, deletions, late workers and failing statements overlap: an outcome
\* comes from the worker that took the job and stays, and a job without outcome
\* goes only with its author's DELETE (createExtractionJob,
\* claimQueuedExtractionJob, the guarded updates of runExtractionJob,
\* pruneExtractionBackups 825-843).
JobsAreALedger == Ledger!Spec

\* Every backup comes to an end, though its worker dies: the sweeps of another
\* replica stop it.
JobsEnd == \A j \in Jobs : Is(j, Active) ~> ~ Is(j, Active)
=============================================================================
