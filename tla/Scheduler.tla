------------------------------ MODULE Scheduler ------------------------------
(***************************************************************************)
(* The database-leased task scheduler of src/src/scheduler/index.ts.       *)
(*                                                                         *)
(* Several backend replicas poll one ScheduledTask table.  A replica       *)
(* claims a due row by a conditional update that writes a lease, opens the *)
(* ScheduledTaskRun row of (task, scheduledFor), runs the handler while a  *)
(* timer renews the lease, and closes the run and advances the task in one *)
(* transaction of two independently guarded updates.  Every await between  *)
(* two statements is a step boundary here.                                 *)
(*                                                                         *)
(* A worker is one process lifetime: workerId is drawn when the module is  *)
(* loaded, so a restarted process is another member of Workers and a dead  *)
(* worker never returns.  A schedule is the set of instants it fires at.   *)
(***************************************************************************)
EXTENDS Integers, FiniteSets

CONSTANTS
  Keys,       \* ScheduledTask.key values
  Priority,   \* [Keys -> Nat], taskPriority of the kind a key is used with
  Workers,    \* process lifetimes that may run the scheduler
  NoWorker,   \* null in leaseOwner
  NoTask,     \* no row for a key
  NoRun,      \* no row for a (task, instant)
  Horizon,    \* bound: instants are 1..Horizon, the clock stops there
  Schedules,  \* the schedules administrators save
  Lease,      \* leaseMs in clock ticks
  Batch,      \* `take` of the due query
  Grace,      \* the 1000 ms of upsertScheduledTask in ticks: 0 or 1
  Timely,     \* TRUE: no live worker pauses past its own lease
  MaxEdits,   \* bound on saves and deletions of schedules
  MaxFaults,  \* bound on database statements that throw
  MaxCrashes  \* bound on crashed processes

Instants == 1 .. Horizon
NoTime == 0                       \* null in nextRunAt and lastRunAt
Ids == 1 .. MaxEdits              \* ScheduledTask.id

ASSUME SchedulerAssumption ==
  /\ Priority \in [Keys -> Nat]
  /\ NoWorker \notin Workers
  /\ Horizon \in Nat \ {0} /\ Lease \in Nat \ {0} /\ Batch \in Nat \ {0}
  /\ Schedules \subseteq SUBSET Instants
  /\ Grace \in {0, 1} /\ Timely \in BOOLEAN
  /\ MaxEdits \in Nat /\ MaxFaults \in Nat /\ MaxCrashes \in Nat

VARIABLES
  now,      \* the clock the replicas share
  task,     \* [Keys -> row]: table ScheduledTask
  runs,     \* [Keys -> [Instants -> row]]: table ScheduledTaskRun
  pc,       \* where each worker stands between two awaits
  batch,    \* the due rows a tick has read and not processed yet
  cur,      \* the (stale) row executeTask works on
  verdict,  \* status the closing transaction will write
  edits, faults, \* spent bounds
  served    \* ghost: handler successes for the current row, 2 = several

vars == <<now, task, runs, pc, batch, cur, verdict, edits, faults, served>>

Statuses == {"running", "completed", "failed"}
Stages == {"idle", "ticking", "claimed", "skipping", "opening", "running",
           "closing", "dead"}

\* What later statements use of the row a tick has read.
Stale == [key : Keys, id : Ids, next : Instants, schedule : Schedules]
NoStale == [key |-> NoTask, id |-> 0, next |-> NoTime, schedule |-> {}]

TaskRow == [id : Ids, enabled : BOOLEAN, schedule : Schedules,
            next : Instants \cup {NoTime}, last : Instants \cup {NoTime},
            lastStatus : Statuses \cup {"none"},
            owner : Workers \cup {NoWorker},
            ttl : 0 .. Lease]     \* leaseUntil - now; 0: null or in the past
RunRow == [task : Ids, status : Statuses, worker : Workers]

\* A missing row is not a row.
ASSUME NullAssumption == NoTask \notin TaskRow /\ NoRun \notin RunRow

TypeOK ==
  /\ now \in 0 .. Horizon
  /\ task \in [Keys -> TaskRow \cup {NoTask}]
  /\ runs \in [Keys -> [Instants -> RunRow \cup {NoRun}]]
  /\ pc \in [Workers -> Stages]
  /\ batch \in [Workers -> SUBSET Stale]
  /\ cur \in [Workers -> Stale \cup {NoStale}]
  /\ verdict \in [Workers -> {"none", "completed", "failed"}]
  /\ edits \in 0 .. MaxEdits
  /\ faults \in 0 .. MaxFaults
  /\ served \in [Keys -> [Instants -> 0 .. 2]]

-----------------------------------------------------------------------------
(* Schedule arithmetic. *)

Later(schedule, after) == {t \in schedule : t > after}

\* computeNextRunAt: the first instant strictly after `after`, else null.
NextRun(schedule, after) ==
  IF Later(schedule, after) = {} THEN NoTime
  ELSE CHOOSE t \in Later(schedule, after) :
         \A u \in Later(schedule, after) : t <= u

Latest(s, t) == IF s > t THEN s ELSE t

\* computeNextRunAfterExecution: instants missed meanwhile are skipped.
NextAfterExecutionOffByOne(schedule, scheduledFor) ==   \* mutant
  NextRun(schedule, Latest(scheduledFor, now) + 1)
NextAfterExecution(schedule, scheduledFor) ==
  NextRun(schedule, Latest(scheduledFor, now))

-----------------------------------------------------------------------------
(* Row predicates the guarded updates use. *)

Exists(k) == task[k] # NoTask
Current(c) == task[c.key] # NoTask /\ task[c.key].id = c.id
ExpiredOnlyWhenNull(row) == row.owner = NoWorker          \* mutant
Expired(row) == row.ttl = 0
Due(k) ==
  /\ Exists(k) /\ task[k].enabled
  /\ task[k].next # NoTime /\ task[k].next <= now
  /\ Expired(task[k])

\* where: { id, leaseOwner: workerId, nextRunAt: scheduledFor }
Holds(w) ==
  /\ Current(cur[w])
  /\ task[cur[w].key].owner = w
  /\ task[cur[w].key].next = cur[w].next

Snapshot(k) == [key |-> k, id |-> task[k].id, next |-> task[k].next,
                schedule |-> task[k].schedule]

\* nextRunAt asc, then taskPriority; ties are in no particular order.
\* Mutant: left and right exchanged in the comparison of the instants.
BeforeNewestFirst(a, b) == \/ a.next > b.next
                           \/ a.next = b.next /\ Priority[a.key] <= Priority[b.key]
Before(a, b) == \/ a.next < b.next
                \/ a.next = b.next /\ Priority[a.key] <= Priority[b.key]

Executing(w) == pc[w] \in {"claimed", "skipping", "opening", "running", "closing"}

\* The data both exits of executeTask write to the task.
Advanced(row, c, status) ==
  [row EXCEPT !.next = NextAfterExecution(c.schedule, c.next),
              !.enabled = NextAfterExecution(c.schedule, c.next) # NoTime,
              !.last = c.next, !.lastStatus = status,
              !.owner = NoWorker, !.ttl = 0]

AdvanceTask(w, status) ==
  task' = IF Holds(w)
          THEN [task EXCEPT ![cur[w].key] = Advanced(@, cur[w], status)]
          ELSE task

\* where of the claim.
ClaimableWithoutLease(c) ==                              \* mutant
  Current(c) /\ task[c.key].enabled /\ task[c.key].next = c.next
Claimable(c) ==
  /\ Current(c) /\ task[c.key].enabled /\ task[c.key].next = c.next
  /\ Expired(task[c.key])

\* The row of (taskId, scheduledFor), if any.
RunOf(w) == IF Current(cur[w]) THEN runs[cur[w].key][cur[w].next] ELSE NoRun

AlreadyOpened(w) == RunOf(w) # NoRun                     \* mutant
AlreadyCompleted(w) == RunOf(w) # NoRun /\ RunOf(w).status = "completed"

\* where: { id: run.id, workerId, status: 'running' }
OwnsRun(w) ==
  /\ RunOf(w) # NoRun
  /\ RunOf(w).worker = w /\ RunOf(w).status = "running"

Return(w) ==      \* executeTask is over; the loop goes on with the batch
  /\ pc' = [pc EXCEPT ![w] = "ticking"]
  /\ cur' = [cur EXCEPT ![w] = NoStale]
  /\ verdict' = [verdict EXCEPT ![w] = "none"]

-----------------------------------------------------------------------------
Init ==
  /\ now = 0
  /\ task = [k \in Keys |-> NoTask]
  /\ runs = [k \in Keys |-> [s \in Instants |-> NoRun]]
  /\ pc = [w \in Workers |-> "idle"]
  /\ batch = [w \in Workers |-> {}]
  /\ cur = [w \in Workers |-> NoStale]
  /\ verdict = [w \in Workers |-> "none"]
  /\ edits = 0 /\ faults = 0
  /\ served = [k \in Keys |-> [s \in Instants |-> 0]]

-----------------------------------------------------------------------------
(* Administrators. *)

\* upsertScheduledTask.  The update branch keeps the id, the runs and the
\* last* columns, and clears the lease of a run that may be in progress.
Upsert(k, schedule) ==
  LET next == NextRun(schedule, now - Grace) IN
  /\ edits < MaxEdits
  /\ next # NoTime
  /\ task' = [task EXCEPT ![k] =
       IF Exists(k)
       THEN [@ EXCEPT !.enabled = TRUE, !.schedule = schedule, !.next = next,
                      !.owner = NoWorker, !.ttl = 0]
       ELSE [id |-> edits + 1, enabled |-> TRUE, schedule |-> schedule,
             next |-> next, last |-> NoTime, lastStatus |-> "none",
             owner |-> NoWorker, ttl |-> 0]]
  /\ edits' = edits + 1
  /\ UNCHANGED <<now, runs, pc, batch, cur, verdict, faults, served>>

\* deleteScheduledTask; the runs go with the row (onDelete: Cascade).
Delete(k) ==
  /\ edits < MaxEdits
  /\ Exists(k)
  /\ task' = [task EXCEPT ![k] = NoTask]
  /\ runs' = [runs EXCEPT ![k] = [s \in Instants |-> NoRun]]
  /\ served' = [served EXCEPT ![k] = [s \in Instants |-> 0]]
  /\ edits' = edits + 1
  /\ UNCHANGED <<now, pc, batch, cur, verdict, faults>>

-----------------------------------------------------------------------------
(* Workers. *)

\* runScheduledTaskTick up to the loop: at most Batch due rows, oldest first.
ReadDue(w) ==
  /\ pc[w] = "idle"
  /\ \E read \in SUBSET {k \in Keys : Due(k)} :
       /\ Cardinality(read) <= Batch
       /\ \A k \in {d \in Keys : Due(d)} \ read :
            /\ Cardinality(read) = Batch
            /\ \A r \in read : task[r].next <= task[k].next
       /\ read # {}               \* an empty tick changes nothing
       /\ batch' = [batch EXCEPT ![w] = {Snapshot(k) : k \in read}]
  /\ pc' = [pc EXCEPT ![w] = "ticking"]
  /\ UNCHANGED <<now, task, runs, cur, verdict, edits, faults, served>>

\* The conditional update that takes the lease.
Claim(w) ==
  /\ pc[w] = "ticking"
  /\ \E c \in batch[w] :
       /\ \A d \in batch[w] : Before(c, d)
       /\ batch' = [batch EXCEPT ![w] = @ \ {c}]
       /\ IF Claimable(c)
          THEN /\ task' = [task EXCEPT ![c.key].owner = w,
                                       ![c.key].ttl = Lease]
               /\ pc' = [pc EXCEPT ![w] = "claimed"]
               /\ cur' = [cur EXCEPT ![w] = c]
          ELSE UNCHANGED <<task, pc, cur>>
  /\ UNCHANGED <<now, runs, verdict, edits, faults, served>>

\* findUnique on (taskId, scheduledFor).
FindRun(w) ==
  /\ pc[w] = "claimed"
  /\ pc' = [pc EXCEPT ![w] =
               IF AlreadyCompleted(w) THEN "skipping" ELSE "opening"]
  /\ UNCHANGED <<now, task, runs, batch, cur, verdict, edits, faults, served>>

\* The run had completed: only the task is advanced.
SkipCompleted(w) ==
  /\ pc[w] = "skipping"
  /\ AdvanceTask(w, "completed")
  /\ Return(w)
  /\ UNCHANGED <<now, runs, batch, edits, faults, served>>

Opened(w) == [runs EXCEPT ![cur[w].key][cur[w].next] =
                [task |-> cur[w].id, status |-> "running", worker |-> w]]
OpenRunOnce(w) ==                                        \* mutant
  /\ pc[w] = "opening"
  /\ IF Current(cur[w])
     THEN /\ runs' = IF RunOf(w) # NoRun THEN runs ELSE Opened(w)
          /\ pc' = [pc EXCEPT ![w] = "running"]
          /\ UNCHANGED <<cur, verdict>>
     ELSE Return(w) /\ UNCHANGED runs
  /\ UNCHANGED <<now, task, batch, edits, faults, served>>

\* Upsert of the run row.  It has no guard: it re-opens whatever is there,
\* and throws (foreign key) when the task is gone.
OpenRun(w) ==
  /\ pc[w] = "opening"
  /\ IF Current(cur[w])
     THEN /\ runs' = Opened(w)
          /\ pc' = [pc EXCEPT ![w] = "running"]
          /\ UNCHANGED <<cur, verdict>>
     ELSE Return(w) /\ UNCHANGED runs
  /\ UNCHANGED <<now, task, batch, edits, faults, served>>

\* The interval timer that runs beside the handler and the closing.
Heartbeat(w) ==
  /\ pc[w] \in {"running", "closing"}
  /\ Holds(w)
  /\ task' = [task EXCEPT ![cur[w].key].ttl = Lease]
  /\ UNCHANGED <<now, runs, pc, batch, cur, verdict, edits, faults, served>>

\* The handler returns, or throws (also when none is registered).
Handler(w) ==
  /\ pc[w] = "running"
  /\ \/ /\ verdict' = [verdict EXCEPT ![w] = "completed"]
        /\ served' = IF Current(cur[w])
                     THEN [served EXCEPT ![cur[w].key][cur[w].next] =
                             IF @ = 2 THEN 2 ELSE @ + 1]
                     ELSE served
     \/ /\ verdict' = [verdict EXCEPT ![w] = "failed"]
        /\ UNCHANGED served
  /\ pc' = [pc EXCEPT ![w] = "closing"]
  /\ UNCHANGED <<now, task, runs, batch, cur, edits, faults>>

\* The transaction: two updates, each with a guard of its own.
CloseRun(w) ==
  /\ runs' = IF OwnsRun(w)
             THEN [runs EXCEPT ![cur[w].key][cur[w].next].status = verdict[w]]
             ELSE runs
  /\ AdvanceTask(w, verdict[w])

Close(w) ==
  /\ pc[w] = "closing"
  /\ CloseRun(w)
  /\ Return(w)
  /\ UNCHANGED <<now, batch, edits, faults, served>>

\* A statement throws.  In the try block the catch block closes the run as
\* failed; elsewhere the tick logs it and goes on, the lease still written.
\* What it wrote may have been committed all the same: the opened run, or the
\* transaction of the try block.
StatementThrows(w) ==
  /\ faults < MaxFaults
  /\ faults' = faults + 1
  /\ \/ /\ \/ pc[w] \in {"claimed", "skipping", "opening"}
           \/ pc[w] = "closing" /\ verdict[w] = "failed"
        /\ Return(w)
        /\ UNCHANGED <<task, runs>>
     \/ /\ pc[w] = "opening" /\ Current(cur[w])
        /\ runs' = Opened(w)
        /\ Return(w)
        /\ UNCHANGED task
     \/ /\ pc[w] = "closing" /\ verdict[w] = "completed"
        /\ CloseRun(w) \/ UNCHANGED <<task, runs>>
        /\ verdict' = [verdict EXCEPT ![w] = "failed"]
        /\ UNCHANGED <<pc, cur>>
  /\ UNCHANGED <<now, batch, edits, served>>

EndTick(w) ==
  /\ pc[w] = "ticking" /\ batch[w] = {}
  /\ pc' = [pc EXCEPT ![w] = "idle"]
  /\ UNCHANGED <<now, task, runs, batch, cur, verdict, edits, faults, served>>

Crash(w) ==
  /\ pc[w] # "dead"
  /\ Cardinality({v \in Workers : pc[v] = "dead"}) < MaxCrashes
  /\ pc' = [pc EXCEPT ![w] = "dead"]
  /\ batch' = [batch EXCEPT ![w] = {}]
  /\ cur' = [cur EXCEPT ![w] = NoStale]
  /\ verdict' = [verdict EXCEPT ![w] = "none"]
  /\ UNCHANGED <<now, task, runs, edits, faults, served>>

\* Time passes: the clock, and every lease with it.  Past Horizon only the
\* leases run down.
Tick ==
  /\ Timely => \A w \in Workers : Executing(w) /\ Holds(w)
                                    => task[cur[w].key].ttl > 1
  /\ now' = IF now < Horizon THEN now + 1 ELSE now
  /\ task' = [k \in Keys |->
       IF Exists(k) /\ task[k].ttl > 0
       THEN [task[k] EXCEPT !.ttl = @ - 1] ELSE task[k]]
  /\ UNCHANGED <<runs, pc, batch, cur, verdict, edits, faults, served>>

-----------------------------------------------------------------------------
Step(w) == \/ ReadDue(w) \/ Claim(w) \/ FindRun(w) \/ SkipCompleted(w)
           \/ OpenRun(w) \/ Handler(w) \/ Close(w) \/ EndTick(w)

Next ==
  \/ \E k \in Keys : Delete(k) \/ \E schedule \in Schedules : Upsert(k, schedule)
  \/ \E w \in Workers : Step(w) \/ Heartbeat(w) \/ StatementThrows(w) \/ Crash(w)
  \/ Tick

Spec == Init /\ [][Next]_vars

\* The event loop of a live process runs its next continuation, handlers
\* settle, and time passes.  Nothing forces edits, faults or crashes.
Fairness == /\ \A w \in Workers : WF_vars(Step(w)) /\ WF_vars(Heartbeat(w))
            /\ WF_vars(Tick)
FairSpec == Spec /\ Fairness
-----------------------------------------------------------------------------
(* What the scheduler promises. *)

\* A run or a task is recorded as completed only when a handler has returned
\* successfully for that very instant of that very row: however leases
\* expire, runs change hands, transactions fail half-known, or schedules are
\* replaced and deleted under a running handler, success is never made up.
CompletionIsEarned ==
  \A k \in Keys :
    /\ \A s \in Instants :
         runs[k][s] # NoRun /\ runs[k][s].status = "completed"
           => served[k][s] > 0
    /\ Exists(k) /\ task[k].lastStatus = "completed"
         => served[k][task[k].last] > 0

\* A worker that advances a task (a save or a delete does not count) skips
\* no instant of the schedule the row holds that is still in the future,
\* although it computes the next one from the row its tick read long ago.
NoInstantLost ==
  [][\A k \in Keys :
       edits' = edits /\ Exists(k) /\ task'[k].next # task[k].next =>
         \A t \in task[k].schedule :
           t > now /\ t > task[k].next =>
             task'[k].enabled /\ task'[k].next <= t]_vars

\* Once the run of (task, scheduledFor) is completed no worker re-opens it:
\* the find and the upsert of executeTask are two statements, so this rests
\* on the lease alone.  Only a deletion of the task removes it.
RunsStayCompleted ==
  [][\A k \in Keys, s \in Instants :
       runs[k][s] # NoRun /\ runs[k][s].status = "completed"
         => runs'[k][s] = runs[k][s] \/ task'[k] = NoTask]_vars

\* At most one worker is between the claim and the closing of a given run.
SameRun(c, d) == c.key = d.key /\ c.id = d.id /\ c.next = d.next
OneWorkerPerRun ==
  \A v, w \in Workers :
    Executing(v) /\ Executing(w) /\ SameRun(cur[v], cur[w]) => v = w

\* The run row and the task row, written by two updates with different
\* guards, tell the same story of the last instant.
LedgerAgrees ==
  \A k \in Keys :
    Exists(k) /\ task[k].last # NoTime =>
      LET run == runs[k][task[k].last] IN
      run # NoRun /\ run.task = task[k].id /\ run.status = task[k].lastStatus

\* "Multi-worker tidak mengeksekusi run yang sama dua kali" (guide.md:388): a
\* handler succeeds at most once for an instant.  The code keeps this as long as
\* no worker outlives its lease, dies or meets a failing statement; in each of
\* these cases the handler is run again.
Undisturbed == Timely /\ faults = 0 /\ \A w \in Workers : pc[w] # "dead"
ServedOnce ==
  Undisturbed => \A k \in Keys, s \in Instants : served[k][s] <= 1

\* Every enabled task whose instant has come is advanced, edited or deleted,
\* once workers renew their leases in time: leases that ran out, workers that
\* died holding one and failed statements delay it, and do not leave it behind.
Prompt == \A w \in Workers :
  Executing(w) /\ Current(cur[w]) /\ task[cur[w].key].owner = w
    => task[cur[w].key].ttl > 0
DueIsAdvanced ==
  <>[]Prompt =>
  \A k \in Keys, s \in Instants :
    (Exists(k) /\ task[k].enabled /\ task[k].next = s /\ s <= now)
      ~> ~(Exists(k) /\ task[k].enabled /\ task[k].next = s)
=============================================================================
