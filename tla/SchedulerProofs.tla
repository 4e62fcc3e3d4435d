--------------------------- MODULE SchedulerProofs ---------------------------
(***************************************************************************)
(* Proofs about Scheduler: success is never made up, no instant is lost,   *)
(* and what leases give: one worker per run, one success, two ledgers that *)
(* agree; and that a single worker executes instants in order.             *)
(***************************************************************************)
EXTENDS Scheduler, WellFoundedInduction, TLAPS

\* A non-empty set of naturals has a least element.
LEMMA LeastNat ==
  ASSUME NEW T, T \subseteq Nat, T # {}
  PROVE  \E x \in T : \A y \in T : x <= y
<1> DEFINE R == OpToRel(<, Nat)
<1>1. IsWellFoundedOn(R, Nat)
  BY NatLessThanWellFounded
<1>2. \A x, y \in Nat : y < x => <<y, x>> \in R
  BY DEF OpToRel
<1> HIDE DEF R
<1>3. PICK x \in T : \A y \in T : ~ (<<y, x>> \in R)
  BY <1>1, WFMin
<1>4. \A y \in T : x <= y
  <2> TAKE y \in T
  <2>1. x \in Nat /\ y \in Nat
    OBVIOUS
  <2>2. ~ (y < x)
    BY <1>2, <1>3, <2>1
  <2>. QED BY <2>1, <2>2
<1>. QED BY <1>4

-----------------------------------------------------------------------------
(* Type correctness. *)

\* A worker inside executeTask has a row in hand.
HasRow == \A w \in Workers : Executing(w) => cur[w] \in Stale
\* What the closing transaction writes has been decided.
HasVerdict == \A w \in Workers : pc[w] = "closing" => verdict[w] # "none"
TypeInv == TypeOK /\ HasRow /\ HasVerdict

LEMMA NextRunProperty ==
  ASSUME NEW schedule \in SUBSET Instants, NEW after \in Int
  PROVE  /\ NextRun(schedule, after) \in Instants \cup {NoTime}
         /\ NextRun(schedule, after) # NoTime =>
              NextRun(schedule, after) > after
         /\ \A t \in schedule : t > after =>
              NextRun(schedule, after) # NoTime /\ NextRun(schedule, after) <= t
<1> DEFINE L == Later(schedule, after)
<1>1. L \subseteq Instants /\ (\A t \in L : t > after)
  BY DEF Later
<1>2. Instants \subseteq Nat /\ NoTime \notin Instants
  BY SchedulerAssumption DEF Instants, NoTime
<1>3. CASE L = {}
  <2>1. NextRun(schedule, after) = NoTime
    BY <1>3 DEF NextRun
  <2>2. \A t \in schedule : ~ (t > after)
    BY <1>3 DEF Later
  <2>. QED BY <2>1, <2>2
<1>4. CASE L # {}
  <2>1. \E t \in L : \A u \in L : t <= u
    BY <1>1, <1>2, <1>4, LeastNat
  <2>2. NextRun(schedule, after) = CHOOSE t \in L : \A u \in L : t <= u
    BY <1>4 DEF NextRun
  <2>3. /\ NextRun(schedule, after) \in L
        /\ \A u \in L : NextRun(schedule, after) <= u
    BY <2>1, <2>2
  <2>4. \A t \in schedule : t > after => t \in L
    BY DEF Later
  <2>. QED BY <1>1, <1>2, <2>3, <2>4
<1>. QED BY <1>3, <1>4

LEMMA NextAfterExecutionType ==
  ASSUME TypeOK, NEW schedule \in Schedules, NEW s \in Instants
  PROVE  NextAfterExecution(schedule, s) \in Instants \cup {NoTime}
<1>1. schedule \in SUBSET Instants
  BY SchedulerAssumption
<1>2. Latest(s, now) \in Int
  BY SchedulerAssumption DEF Latest, TypeOK, Instants
<1>. QED BY <1>1, <1>2, NextRunProperty DEF NextAfterExecution

LEMMA RowUpdate ==
  ASSUME NEW row \in TaskRow, NEW n \in Instants \cup {NoTime},
         NEW e \in BOOLEAN, NEW l \in Instants, NEW st \in Statuses
  PROVE  [row EXCEPT !.next = n, !.enabled = e, !.last = l, !.lastStatus = st,
                     !.owner = NoWorker, !.ttl = 0] \in TaskRow
<1>1. 0 \in 0 .. Lease
  BY SchedulerAssumption
<1>2. l \in Instants \cup {NoTime} /\ st \in Statuses \cup {"none"}
      /\ NoWorker \in Workers \cup {NoWorker}
  OBVIOUS
<1>. QED BY <1>1, <1>2, Zenon DEF TaskRow

\* The row both exits of executeTask write is a row.
LEMMA AdvancedType ==
  ASSUME TypeInv, NEW w \in Workers, Executing(w), Holds(w),
         NEW status \in Statuses
  PROVE  /\ cur[w].key \in Keys
         /\ Advanced(task[cur[w].key], cur[w], status) \in TaskRow
<1> DEFINE k == cur[w].key
           n == NextAfterExecution(cur[w].schedule, cur[w].next)
           e == n # NoTime
<1>1. cur[w] \in Stale
  BY DEF TypeInv, HasRow
<1>2. k \in Keys /\ task[k] \in TaskRow
  BY <1>1 DEF TypeInv, TypeOK, Holds, Current, Stale
<1>3. n \in Instants \cup {NoTime}
  BY <1>1, NextAfterExecutionType DEF TypeInv, Stale
<1>4. cur[w].next \in Instants
  BY <1>1 DEF Stale
<1>5. e \in BOOLEAN
  OBVIOUS
<1> HIDE DEF n, e
<1>6. [task[k] EXCEPT !.next = n, !.enabled = e,
         !.last = cur[w].next, !.lastStatus = status,
         !.owner = NoWorker, !.ttl = 0] \in TaskRow
  BY <1>2, <1>3, <1>4, <1>5, RowUpdate, Zenon
<1>. QED BY <1>2, <1>6 DEF Advanced, n, e

LEMMA AdvanceTaskType ==
  ASSUME TypeInv, NEW w \in Workers, Executing(w),
         NEW status \in Statuses, AdvanceTask(w, status)
  PROVE  task' \in [Keys -> TaskRow \cup {NoTask}]
<1>1. CASE Holds(w)
  <2>1. cur[w].key \in Keys
        /\ Advanced(task[cur[w].key], cur[w], status) \in TaskRow
    BY <1>1, AdvancedType
  <2>2. task' = [task EXCEPT ![cur[w].key] =
                   Advanced(task[cur[w].key], cur[w], status)]
    BY <1>1 DEF AdvanceTask
  <2>. QED BY <2>1, <2>2 DEF TypeInv, TypeOK
<1>2. CASE ~ Holds(w)
  BY <1>2 DEF AdvanceTask, TypeInv, TypeOK
<1>. QED BY <1>1, <1>2

LEMMA CloseRunType ==
  ASSUME TypeInv, NEW w \in Workers, Executing(w),
         verdict[w] \in {"completed", "failed"}, CloseRun(w)
  PROVE  /\ task' \in [Keys -> TaskRow \cup {NoTask}]
         /\ runs' \in [Keys -> [Instants -> RunRow \cup {NoRun}]]
<1>1. cur[w] \in Stale
  BY DEF TypeInv, HasRow
<1>2. AdvanceTask(w, verdict[w]) /\ verdict[w] \in Statuses
  BY DEF CloseRun, Statuses
<1>3. task' \in [Keys -> TaskRow \cup {NoTask}]
  BY <1>2, AdvanceTaskType
<1>4. runs' \in [Keys -> [Instants -> RunRow \cup {NoRun}]]
  <2>1. CASE OwnsRun(w)
    <3> DEFINE k == cur[w].key
               s == cur[w].next
    <3>1. k \in Keys /\ s \in Instants
      BY <1>1 DEF Stale
    <3>2. runs[k][s] \in RunRow
      BY <2>1, <3>1 DEF OwnsRun, RunOf, TypeInv, TypeOK
    <3>3. [runs[k][s] EXCEPT !.status = verdict[w]] \in RunRow
      BY <1>2, <3>2 DEF RunRow
    <3>4. runs' = [runs EXCEPT ![k] = [runs[k] EXCEPT ![s] =
                     [runs[k][s] EXCEPT !.status = verdict[w]]]]
      BY <2>1 DEF CloseRun
    <3>. QED BY <3>1, <3>3, <3>4 DEF TypeInv, TypeOK
  <2>2. CASE ~ OwnsRun(w)
    BY <2>2 DEF CloseRun, TypeInv, TypeOK
  <2>. QED BY <2>1, <2>2
<1>. QED BY <1>3, <1>4

LEMMA TypeInit == Init => TypeInv
<1> SUFFICES ASSUME Init PROVE TypeInv
  OBVIOUS
<1>1. now \in 0 .. Horizon /\ edits \in 0 .. MaxEdits /\ faults \in 0 .. MaxFaults
  BY SchedulerAssumption DEF Init
<1>2. served \in [Keys -> [Instants -> 0 .. 2]]
  BY DEF Init
<1>3. /\ task \in [Keys -> TaskRow \cup {NoTask}]
      /\ runs \in [Keys -> [Instants -> RunRow \cup {NoRun}]]
  BY DEF Init
<1>4. /\ pc \in [Workers -> Stages] /\ batch \in [Workers -> SUBSET Stale]
      /\ cur \in [Workers -> Stale \cup {NoStale}]
      /\ verdict \in [Workers -> {"none", "completed", "failed"}]
  BY DEF Init, Stages
<1>5. \A w \in Workers : pc[w] = "idle"
  BY DEF Init
<1>. QED BY <1>1, <1>2, <1>3, <1>4, <1>5
         DEF TypeInv, TypeOK, HasRow, HasVerdict, Executing

LEMMA UpsertType ==
  ASSUME TypeInv, NEW k \in Keys, NEW schedule \in Schedules,
         Upsert(k, schedule)
  PROVE  TypeInv'
<1> DEFINE next == NextRun(schedule, now - Grace)
<1>1. next \in Instants
  <2>1. now - Grace \in Int /\ schedule \in SUBSET Instants
    BY SchedulerAssumption DEF TypeInv, TypeOK
  <2>2. next # NoTime
    BY DEF Upsert
  <2>. QED BY <2>1, <2>2, NextRunProperty
<1>2. edits + 1 \in Ids /\ edits' \in 0 .. MaxEdits
  BY SchedulerAssumption DEF TypeInv, TypeOK, Upsert, Ids
<1>3. 0 \in 0 .. Lease
  BY SchedulerAssumption
<1> DEFINE fresh == [id |-> edits + 1, enabled |-> TRUE, schedule |-> schedule,
                     next |-> next, last |-> NoTime, lastStatus |-> "none",
                     owner |-> NoWorker, ttl |-> 0]
           saved == [task[k] EXCEPT !.enabled = TRUE, !.schedule = schedule,
                       !.next = next, !.owner = NoWorker, !.ttl = 0]
<1>4. fresh \in TaskRow
  BY <1>1, <1>2, <1>3 DEF TaskRow
<1>5. Exists(k) => saved \in TaskRow
  <2> SUFFICES ASSUME Exists(k) PROVE saved \in TaskRow
    OBVIOUS
  <2>1. task[k] \in TaskRow
    BY DEF Exists, TypeInv, TypeOK
  <2> HIDE DEF next
  <2>. QED BY <1>1, <1>3, <2>1 DEF TaskRow
<1>6. task' = [task EXCEPT ![k] = IF Exists(k) THEN saved ELSE fresh]
  BY DEF Upsert
<1> HIDE DEF next, fresh, saved
<1>7. task' \in [Keys -> TaskRow \cup {NoTask}]
  BY <1>4, <1>5, <1>6 DEF TypeInv, TypeOK
<1>8. UNCHANGED <<now, runs, pc, batch, cur, verdict, faults, served>>
  BY DEF Upsert
<1>. QED BY <1>2, <1>7, <1>8
         DEF TypeInv, TypeOK, HasRow, HasVerdict, Executing

LEMMA ReturnType ==
  ASSUME TypeInv, NEW w \in Workers, Return(w)
  PROVE  /\ pc' \in [Workers -> Stages]
         /\ cur' \in [Workers -> Stale \cup {NoStale}]
         /\ verdict' \in [Workers -> {"none", "completed", "failed"}]
         /\ HasRow' /\ HasVerdict'
BY DEF TypeInv, TypeOK, HasRow, HasVerdict, Return, Executing, Stages

LEMMA SnapshotType ==
  ASSUME TypeInv, NEW k \in Keys, Due(k)
  PROVE  Snapshot(k) \in Stale
<1>1. task[k] \in TaskRow /\ task[k].next # NoTime
  BY DEF Due, Exists, TypeInv, TypeOK
<1>. QED BY <1>1 DEF Snapshot, Stale, TaskRow

LEMMA ClaimType ==
  ASSUME TypeInv, NEW w \in Workers, Claim(w)
  PROVE  TypeInv'
<1>1. PICK c \in batch[w] :
        /\ batch' = [batch EXCEPT ![w] = @ \ {c}]
        /\ IF Claimable(c)
           THEN /\ task' = [task EXCEPT ![c.key].owner = w,
                                        ![c.key].ttl = Lease]
                /\ pc' = [pc EXCEPT ![w] = "claimed"]
                /\ cur' = [cur EXCEPT ![w] = c]
           ELSE UNCHANGED <<task, pc, cur>>
  BY DEF Claim
<1>2. c \in Stale
  BY DEF TypeInv, TypeOK
<1>3. batch' \in [Workers -> SUBSET Stale]
  BY <1>1 DEF TypeInv, TypeOK
<1>4. UNCHANGED <<now, runs, verdict, edits, faults, served>>
  BY DEF Claim
<1>5. CASE Claimable(c)
  <2>1. c.key \in Keys /\ task[c.key] \in TaskRow
    BY <1>2, <1>5 DEF Claimable, Current, Stale, TypeInv, TypeOK
  <2>2. [task[c.key] EXCEPT !.owner = w, !.ttl = Lease] \in TaskRow
    <3>1. Lease \in 0 .. Lease
      BY SchedulerAssumption
    <3>. QED BY <2>1, <3>1, Zenon DEF TaskRow
  <2>3. task' = [task EXCEPT ![c.key] =
                   [task[c.key] EXCEPT !.owner = w, !.ttl = Lease]]
    BY <1>1, <1>5, <2>1 DEF TypeInv, TypeOK
  <2>4. task' \in [Keys -> TaskRow \cup {NoTask}]
    BY <2>1, <2>2, <2>3 DEF TypeInv, TypeOK
  <2>5. pc' \in [Workers -> Stages] /\ cur' \in [Workers -> Stale \cup {NoStale}]
    BY <1>1, <1>2, <1>5 DEF TypeInv, TypeOK, Stages
  <2>6. HasRow' /\ HasVerdict'
    BY <1>1, <1>2, <1>4, <1>5
       DEF TypeInv, TypeOK, HasRow, HasVerdict, Executing
  <2>. QED BY <1>3, <1>4, <2>4, <2>5, <2>6 DEF TypeInv, TypeOK
<1>6. CASE ~ Claimable(c)
  BY <1>1, <1>3, <1>4, <1>6 DEF TypeInv, TypeOK, HasRow, HasVerdict, Executing
<1>. QED BY <1>5, <1>6

LEMMA TickType ==
  ASSUME TypeInv, Tick
  PROVE  TypeInv'
<1>1. now' \in 0 .. Horizon
  BY SchedulerAssumption DEF TypeInv, TypeOK, Tick
<1>2. ASSUME NEW k \in Keys, Exists(k), task[k].ttl > 0
      PROVE  [task[k] EXCEPT !.ttl = @ - 1] \in TaskRow
  <2>1. task[k] \in TaskRow
    BY <1>2 DEF Exists, TypeInv, TypeOK
  <2>2. task[k].ttl - 1 \in 0 .. Lease
    BY <1>2, <2>1, SchedulerAssumption DEF TaskRow
  <2>. QED BY <2>1, <2>2, Zenon DEF TaskRow
<1>3. task' \in [Keys -> TaskRow \cup {NoTask}]
  BY <1>2 DEF Tick, TypeInv, TypeOK
<1>4. UNCHANGED <<runs, pc, batch, cur, verdict, edits, faults, served>>
  BY DEF Tick
<1>. QED BY <1>1, <1>3, <1>4
         DEF TypeInv, TypeOK, HasRow, HasVerdict, Executing

\* The ghost counter never falls, and a success is counted at once.
LEMMA ServedStep ==
  ASSUME TypeInv, NEW w \in Workers, Handler(w)
  PROVE  /\ served' \in [Keys -> [Instants -> 0 .. 2]]
         /\ \A k \in Keys, i \in Instants :
              served[k][i] > 0 => served'[k][i] > 0
         /\ verdict'[w] = "completed" /\ Current(cur[w])
              => served'[cur[w].key][cur[w].next] > 0
<1> DEFINE k == cur[w].key
           i == cur[w].next
           n == IF served[k][i] = 2 THEN 2 ELSE served[k][i] + 1
<1>1. k \in Keys /\ i \in Instants
  BY DEF Handler, TypeInv, HasRow, Executing, Stale
<1>2. \/ /\ Current(cur[w]) /\ served' = [served EXCEPT ![k][i] = n]
      \/ served' = served /\ (verdict'[w] = "completed" => ~ Current(cur[w]))
  BY DEF Handler, TypeInv, TypeOK
<1>3. served \in [Keys -> [Instants -> 0 .. 2]]
  BY DEF TypeInv, TypeOK
<1> HIDE DEF k, i
<1>4. served[k][i] \in 0 .. 2
  BY <1>1, <1>3
<1>5. n \in 0 .. 2 /\ n > 0
  BY <1>4
<1> HIDE DEF n
<1>6. served' \in [Keys -> [Instants -> 0 .. 2]]
  BY <1>1, <1>2, <1>3, <1>5
<1>7. \A j \in Keys, t \in Instants : served[j][t] > 0 => served'[j][t] > 0
  BY <1>1, <1>2, <1>3, <1>5
<1>8. verdict'[w] = "completed" /\ Current(cur[w]) => served'[k][i] > 0
  BY <1>1, <1>2, <1>3, <1>5
<1>. QED BY <1>6, <1>7, <1>8 DEF k, i

LEMMA HandlerType ==
  ASSUME TypeInv, NEW w \in Workers, Handler(w)
  PROVE  TypeInv'
<1>1. cur[w] \in Stale
  BY DEF Handler, TypeInv, HasRow, Executing
<1>2. served' \in [Keys -> [Instants -> 0 .. 2]]
  BY ServedStep
<1>3. /\ pc' \in [Workers -> Stages]
      /\ verdict' \in [Workers -> {"none", "completed", "failed"}]
      /\ HasVerdict' /\ HasRow'
  <2>1. /\ pc' = [pc EXCEPT ![w] = "closing"] /\ cur' = cur
        /\ \/ verdict' = [verdict EXCEPT ![w] = "completed"]
           \/ verdict' = [verdict EXCEPT ![w] = "failed"]
    BY DEF Handler
  <2>2. pc' \in [Workers -> Stages]
    BY <2>1 DEF TypeInv, TypeOK, Stages
  <2>3. verdict' \in [Workers -> {"none", "completed", "failed"}]
    BY <2>1 DEF TypeInv, TypeOK
  <2>4. HasRow'
    BY <1>1, <2>1 DEF TypeInv, TypeOK, HasRow, Executing
  <2>5. verdict'[w] # "none" /\ \A v \in Workers \ {w} : verdict'[v] = verdict[v]
    BY <2>1 DEF TypeInv, TypeOK
  <2>6. HasVerdict'
    BY <2>1, <2>5 DEF TypeInv, TypeOK, HasVerdict
  <2>. QED BY <2>2, <2>3, <2>4, <2>6
<1>4. UNCHANGED <<now, task, runs, batch, cur, edits, faults>>
  BY DEF Handler
<1>. QED BY <1>2, <1>3, <1>4 DEF TypeInv, TypeOK

\* The upsert of a run writes a row, and a running one.
LEMMA OpenedType ==
  ASSUME TypeInv, NEW w \in Workers, pc[w] = "opening"
  PROVE  /\ Opened(w) \in [Keys -> [Instants -> RunRow \cup {NoRun}]]
         /\ \A k \in Keys, i \in Instants :
              Opened(w)[k][i] = IF k = cur[w].key /\ i = cur[w].next
                                THEN [task |-> cur[w].id, status |-> "running", worker |-> w]
                                ELSE runs[k][i]
<1> DEFINE run == [task |-> cur[w].id, status |-> "running", worker |-> w]
<1>1. cur[w] \in Stale
  BY DEF TypeInv, HasRow, Executing
<1>2. run \in RunRow /\ cur[w].key \in Keys /\ cur[w].next \in Instants
  BY <1>1 DEF Stale, RunRow, Statuses
<1>3. Opened(w) = [runs EXCEPT ![cur[w].key][cur[w].next] = run]
  BY DEF Opened
<1> HIDE DEF run
<1>4. \A k \in Keys, i \in Instants :
        Opened(w)[k][i] = IF k = cur[w].key /\ i = cur[w].next THEN run ELSE runs[k][i]
  BY <1>2, <1>3 DEF TypeInv, TypeOK
<1>. QED BY <1>2, <1>3, <1>4 DEF TypeInv, TypeOK, run

LEMMA OpenedRuns ==
  ASSUME TypeInv, NEW w \in Workers, pc[w] = "opening", runs' = Opened(w)
  PROVE  \A k \in Keys, i \in Instants :
           runs'[k][i] # runs[k][i] => runs'[k][i].status = "running"
<1> TAKE k \in Keys, i \in Instants
<1>1. runs'[k][i] = Opened(w)[k][i]
  OBVIOUS
<1>2. CASE k = cur[w].key /\ i = cur[w].next
  <2>1. runs'[k][i] = [task |-> cur[w].id, status |-> "running", worker |-> w]
    BY <1>1, <1>2, OpenedType
  <2>. QED BY <2>1
<1>3. CASE ~ (k = cur[w].key /\ i = cur[w].next)
  <2>1. runs'[k][i] = runs[k][i]
    BY <1>1, <1>3, OpenedType
  <2>. QED BY <2>1
<1>. QED BY <1>2, <1>3

LEMMA StatementThrowsType ==
  ASSUME TypeInv, NEW w \in Workers, StatementThrows(w)
  PROVE  TypeInv'
<1>1. faults' \in 0 .. MaxFaults /\ UNCHANGED <<now, batch, edits, served>>
  BY SchedulerAssumption DEF StatementThrows, TypeInv, TypeOK
<1>2. CASE Return(w) /\ UNCHANGED <<task, runs>>
  BY <1>1, <1>2, ReturnType DEF TypeInv, TypeOK
<1>3. CASE /\ pc[w] = "closing" /\ verdict[w] = "completed"
           /\ CloseRun(w) \/ UNCHANGED <<task, runs>>
           /\ verdict' = [verdict EXCEPT ![w] = "failed"]
           /\ UNCHANGED <<pc, cur>>
  <2>1. /\ task' \in [Keys -> TaskRow \cup {NoTask}]
        /\ runs' \in [Keys -> [Instants -> RunRow \cup {NoRun}]]
    BY <1>3, CloseRunType DEF TypeInv, TypeOK, Executing
  <2>. QED BY <1>1, <1>3, <2>1
           DEF TypeInv, TypeOK, HasRow, HasVerdict, Executing
<1>4. CASE pc[w] = "opening" /\ runs' = Opened(w) /\ Return(w) /\ UNCHANGED task
  BY <1>1, <1>4, OpenedType, ReturnType DEF TypeInv, TypeOK
<1>. QED BY <1>2, <1>3, <1>4 DEF StatementThrows

LEMMA TypeStep == TypeInv /\ [Next]_vars => TypeInv'
<1> SUFFICES ASSUME TypeInv, [Next]_vars PROVE TypeInv'
  OBVIOUS
<1>1. ASSUME NEW k \in Keys, Delete(k) PROVE TypeInv'
  <2>1. /\ edits' \in 0 .. MaxEdits
        /\ UNCHANGED <<now, pc, batch, cur, verdict, faults>>
    BY <1>1, SchedulerAssumption DEF Delete, TypeInv, TypeOK
  <2>2. /\ task' \in [Keys -> TaskRow \cup {NoTask}]
        /\ runs' \in [Keys -> [Instants -> RunRow \cup {NoRun}]]
        /\ served' \in [Keys -> [Instants -> 0 .. 2]]
    BY <1>1 DEF Delete, TypeInv, TypeOK
  <2>. QED BY <2>1, <2>2 DEF TypeInv, TypeOK, HasRow, HasVerdict, Executing
<1>2. ASSUME NEW k \in Keys, NEW schedule \in Schedules, Upsert(k, schedule)
      PROVE  TypeInv'
  BY <1>2, UpsertType
<1>3. ASSUME NEW w \in Workers, ReadDue(w) PROVE TypeInv'
  <2>1. PICK read \in SUBSET {k \in Keys : Due(k)} :
          batch' = [batch EXCEPT ![w] = {Snapshot(k) : k \in read}]
    BY <1>3 DEF ReadDue
  <2>2. {Snapshot(k) : k \in read} \subseteq Stale
    BY SnapshotType
  <2>3. batch' \in [Workers -> SUBSET Stale]
    BY <2>1, <2>2 DEF TypeInv, TypeOK
  <2>4. /\ pc' = [pc EXCEPT ![w] = "ticking"]
        /\ UNCHANGED <<now, task, runs, cur, verdict, edits, faults, served>>
    BY <1>3 DEF ReadDue
  <2>. QED BY <2>3, <2>4
           DEF TypeInv, TypeOK, HasRow, HasVerdict, Executing, Stages
<1>4. ASSUME NEW w \in Workers, Claim(w) PROVE TypeInv'
  BY <1>4, ClaimType
<1>5. ASSUME NEW w \in Workers, FindRun(w) PROVE TypeInv'
  BY <1>5 DEF FindRun, TypeInv, TypeOK, HasRow, HasVerdict, Executing, Stages
<1>6. ASSUME NEW w \in Workers, SkipCompleted(w) PROVE TypeInv'
  <2>1. Executing(w) /\ AdvanceTask(w, "completed") /\ Return(w)
    BY <1>6 DEF SkipCompleted, Executing
  <2>2. task' \in [Keys -> TaskRow \cup {NoTask}]
    BY <2>1, AdvanceTaskType DEF Statuses
  <2>3. UNCHANGED <<now, runs, batch, edits, faults, served>>
    BY <1>6 DEF SkipCompleted
  <2>. QED BY <2>1, <2>2, <2>3, ReturnType DEF TypeInv, TypeOK
<1>7. ASSUME NEW w \in Workers, OpenRun(w) PROVE TypeInv'
  <2>1. cur[w] \in Stale /\ pc[w] = "opening"
    BY <1>7 DEF OpenRun, TypeInv, HasRow, Executing
  <2>2. UNCHANGED <<now, task, batch, edits, faults, served>>
    BY <1>7 DEF OpenRun
  <2>3. CASE Current(cur[w])
    <3>1. runs' = Opened(w) /\ pc' = [pc EXCEPT ![w] = "running"] /\ UNCHANGED <<cur, verdict>>
      BY <1>7, <2>3 DEF OpenRun
    <3>2. runs' \in [Keys -> [Instants -> RunRow \cup {NoRun}]]
      BY <2>1, <3>1, OpenedType
    <3>. QED BY <2>1, <2>2, <3>1, <3>2
             DEF TypeInv, TypeOK, HasRow, HasVerdict, Executing, Stages
  <2>4. CASE ~ Current(cur[w])
    <3>1. Return(w) /\ UNCHANGED runs
      BY <1>7, <2>4 DEF OpenRun
    <3>. QED BY <2>2, <3>1, ReturnType DEF TypeInv, TypeOK
  <2>. QED BY <2>3, <2>4
<1>8. ASSUME NEW w \in Workers, Handler(w) PROVE TypeInv'
  BY <1>8, HandlerType
<1>9. ASSUME NEW w \in Workers, Close(w) PROVE TypeInv'
  <2>1. /\ Executing(w) /\ verdict[w] \in {"completed", "failed"}
        /\ CloseRun(w) /\ Return(w)
        /\ UNCHANGED <<now, batch, edits, faults, served>>
    BY <1>9 DEF Close, Executing, TypeInv, TypeOK, HasVerdict
  <2>. QED BY <2>1, CloseRunType, ReturnType DEF TypeInv, TypeOK
<1>10. ASSUME NEW w \in Workers, EndTick(w) PROVE TypeInv'
  BY <1>10 DEF EndTick, TypeInv, TypeOK, HasRow, HasVerdict, Executing, Stages
<1>11. ASSUME NEW w \in Workers, Heartbeat(w) PROVE TypeInv'
  <2>1. cur[w] \in Stale
    BY <1>11 DEF Heartbeat, TypeInv, HasRow, Executing
  <2>2. cur[w].key \in Keys /\ task[cur[w].key] \in TaskRow
    BY <1>11, <2>1 DEF Heartbeat, Holds, Current, Stale, TypeInv, TypeOK
  <2>3. Lease \in 0 .. Lease
    BY SchedulerAssumption
  <2>4. [task[cur[w].key] EXCEPT !.ttl = Lease] \in TaskRow
    BY <2>2, <2>3, Zenon DEF TaskRow
  <2>5. task' = [task EXCEPT ![cur[w].key] =
                   [task[cur[w].key] EXCEPT !.ttl = Lease]]
    BY <1>11 DEF Heartbeat
  <2>6. UNCHANGED <<now, runs, pc, batch, cur, verdict, edits, faults, served>>
    BY <1>11 DEF Heartbeat
  <2>. QED BY <2>2, <2>4, <2>5, <2>6
           DEF TypeInv, TypeOK, HasRow, HasVerdict, Executing
<1>12. ASSUME NEW w \in Workers, StatementThrows(w) PROVE TypeInv'
  BY <1>12, StatementThrowsType
<1>13. ASSUME NEW w \in Workers, Crash(w) PROVE TypeInv'
  BY <1>13 DEF Crash, TypeInv, TypeOK, HasRow, HasVerdict, Executing, Stages
<1>14. CASE Tick
  BY <1>14, TickType
<1>15. CASE UNCHANGED vars
  BY <1>15 DEF vars, TypeInv, TypeOK, HasRow, HasVerdict, Executing
<1>. QED BY <1>1, <1>2, <1>3, <1>4, <1>5, <1>6, <1>7, <1>8, <1>9, <1>10,
            <1>11, <1>12, <1>13, <1>14, <1>15 DEF Next, Step

\* Every reachable state is well typed, and a worker inside executeTask has
\* the row it works on (src/src/scheduler/index.ts:280-409).
THEOREM TypeCorrect == Spec => []TypeOK
<1>1. Spec => []TypeInv
  BY TypeInit, TypeStep, PTL DEF Spec
<1>2. TypeInv => TypeOK
  BY DEF TypeInv
<1>. QED BY <1>1, <1>2, PTL

-----------------------------------------------------------------------------
(* Completion is earned.  The invariant follows the success from the       *)
(* handler to the two rows: through the verdict of a worker that is about  *)
(* to close, through the completed run of one that is about to skip, and   *)
(* past a row that is deleted and created again, whose id is fresh.        *)

ClosingEarned ==
  \A w \in Workers :
    pc[w] = "closing" /\ verdict[w] = "completed" /\ Current(cur[w])
      => served[cur[w].key][cur[w].next] > 0
SkippingEarned ==
  \A w \in Workers :
    pc[w] = "skipping" /\ Current(cur[w])
      => served[cur[w].key][cur[w].next] > 0
IdsSpent ==
  /\ \A k \in Keys : Exists(k) => task[k].id <= edits
  /\ \A w \in Workers : Executing(w) => cur[w].id <= edits
  /\ \A w \in Workers : \A c \in batch[w] : c.id <= edits
LastIsSet ==
  \A k \in Keys :
    Exists(k) /\ task[k].lastStatus = "completed" => task[k].last # NoTime
EarnedInv == /\ CompletionIsEarned /\ ClosingEarned /\ SkippingEarned
             /\ IdsSpent /\ LastIsSet

\* No row appears, disappears or changes its id.
SameIds ==
  \A k \in Keys : /\ task'[k] # NoTask <=> task[k] # NoTask
                  /\ task[k] # NoTask => task'[k].id = task[k].id

LEMMA AdvanceTaskEarned ==
  ASSUME TypeInv, EarnedInv, NEW w \in Workers, Executing(w),
         NEW status \in Statuses, AdvanceTask(w, status),
         status = "completed" /\ Holds(w)
           => served[cur[w].key][cur[w].next] > 0
  PROVE  /\ SameIds
         /\ \A k \in Keys :
              task'[k] # NoTask /\ task'[k].lastStatus = "completed"
                => task'[k].last # NoTime /\ served[k][task'[k].last] > 0
<1>1. \A k \in Keys :
        task[k] # NoTask /\ task[k].lastStatus = "completed"
          => task[k].last # NoTime /\ served[k][task[k].last] > 0
  BY DEF EarnedInv, CompletionIsEarned, LastIsSet, Exists
<1>2. CASE Holds(w)
  <2> DEFINE k == cur[w].key
             row == Advanced(task[k], cur[w], status)
  <2>1. cur[w] \in Stale
    BY DEF TypeInv, HasRow
  <2>2. /\ k \in Keys /\ cur[w].next \in Instants
        /\ task[k] # NoTask /\ task[k] \in TaskRow
    BY <1>2, <2>1 DEF Holds, Current, Stale, TypeInv, TypeOK
  <2>3. /\ row.id = task[k].id /\ row.last = cur[w].next
        /\ row.lastStatus = status
    BY <2>2 DEF Advanced, TaskRow
  <2>4. task'[k] = row /\ \A j \in Keys \ {k} : task'[j] = task[j]
    BY <1>2, <2>2 DEF AdvanceTask, TypeInv, TypeOK
  <2>5. row \in TaskRow
    BY <1>2, AdvancedType
  <2>6. row # NoTask /\ cur[w].next # NoTime
    BY <2>2, <2>5, NullAssumption DEF Instants, NoTime
  <2> HIDE DEF k, row
  <2>7. SameIds
    BY <2>2, <2>3, <2>4, <2>6 DEF SameIds
  <2>8. status = "completed" => served[k][cur[w].next] > 0
    BY <1>2 DEF k
  <2>. QED BY <1>1, <2>2, <2>3, <2>4, <2>6, <2>7, <2>8
<1>3. CASE ~ Holds(w)
  BY <1>1, <1>3 DEF AdvanceTask, SameIds
<1>. QED BY <1>2, <1>3

LEMMA CloseRunEarned ==
  ASSUME TypeInv, EarnedInv, NEW w \in Workers, pc[w] = "closing", CloseRun(w)
  PROVE  /\ SameIds
         /\ \A k \in Keys :
              task'[k] # NoTask /\ task'[k].lastStatus = "completed"
                => task'[k].last # NoTime /\ served[k][task'[k].last] > 0
         /\ \A k \in Keys, i \in Instants :
              runs'[k][i] # NoRun /\ runs'[k][i].status = "completed"
                => served[k][i] > 0
<1>1. Executing(w) /\ cur[w] \in Stale /\ verdict[w] \in Statuses
  BY DEF Executing, TypeInv, TypeOK, HasRow, HasVerdict, Statuses
<1>2. verdict[w] = "completed" /\ Current(cur[w])
        => served[cur[w].key][cur[w].next] > 0
  BY DEF EarnedInv, ClosingEarned
<1>3. Holds(w) => Current(cur[w])
  BY DEF Holds
<1>4. OwnsRun(w) => Current(cur[w])
  BY DEF OwnsRun, RunOf
<1>5. AdvanceTask(w, verdict[w])
  BY DEF CloseRun
<1>6. ASSUME NEW k \in Keys, NEW i \in Instants,
             runs'[k][i] # NoRun, runs'[k][i].status = "completed"
      PROVE  served[k][i] > 0
  <2>1. CASE runs'[k][i] = runs[k][i]
    BY <1>6, <2>1 DEF EarnedInv, CompletionIsEarned
  <2>2. CASE runs'[k][i] # runs[k][i]
    <3>1. OwnsRun(w) /\ k = cur[w].key /\ i = cur[w].next
      BY <1>1, <2>2 DEF CloseRun, Stale, TypeInv, TypeOK
    <3>2. runs[k][i] \in RunRow
      BY <3>1 DEF OwnsRun, RunOf, TypeInv, TypeOK
    <3>3. runs'[k][i] = [runs[k][i] EXCEPT !.status = verdict[w]]
      BY <1>1, <3>1 DEF CloseRun, Stale, TypeInv, TypeOK
    <3>4. runs'[k][i].status = verdict[w]
      BY <3>2, <3>3 DEF RunRow
    <3>. QED BY <1>2, <1>4, <1>6, <3>1, <3>4
  <2>. QED BY <2>1, <2>2
<1>. QED BY <1>1, <1>2, <1>3, <1>5, <1>6, AdvanceTaskEarned

LEMMA ReturnEarned ==
  ASSUME TypeInv, EarnedInv, NEW w \in Workers, Return(w), SameIds,
         UNCHANGED <<batch, edits, served>>
  PROVE  ClosingEarned' /\ SkippingEarned' /\ IdsSpent'
<1>1. \A v \in Workers \ {w} :
        pc'[v] = pc[v] /\ cur'[v] = cur[v] /\ verdict'[v] = verdict[v]
  BY DEF Return, TypeInv, TypeOK
<1>2. pc'[w] = "ticking"
  BY DEF Return, TypeInv, TypeOK
<1>3. \A v \in Workers : pc[v] \in {"closing", "skipping"} => cur[v].key \in Keys
  BY DEF TypeInv, HasRow, Executing, Stale
<1>4. ClosingEarned'
  BY <1>1, <1>2, <1>3 DEF EarnedInv, ClosingEarned, Current, SameIds
<1>5. SkippingEarned'
  BY <1>1, <1>2, <1>3 DEF EarnedInv, SkippingEarned, Current, SameIds
<1>6. IdsSpent'
  BY <1>1, <1>2 DEF EarnedInv, IdsSpent, Executing, Exists, SameIds
<1>. QED BY <1>4, <1>5, <1>6

LEMMA EarnedInit == Init => EarnedInv
BY DEF Init, EarnedInv, CompletionIsEarned, ClosingEarned, SkippingEarned,
       IdsSpent, LastIsSet, Exists, Executing

\* Saving a schedule keeps the runs of an existing row and gives a new row
\* an id no worker has seen.
LEMMA UpsertEarned ==
  ASSUME TypeInv, EarnedInv, NEW k \in Keys, NEW schedule \in Schedules,
         Upsert(k, schedule)
  PROVE  EarnedInv'
<1>1. /\ edits' = edits + 1 /\ edits \in Nat
      /\ UNCHANGED <<runs, pc, batch, cur, verdict, served>>
  BY DEF Upsert, TypeInv, TypeOK
<1>2. \A j \in Keys \ {k} : task'[j] = task[j]
  BY DEF Upsert, TypeInv, TypeOK
<1>3. CASE Exists(k)
  <2>1. task[k] \in TaskRow
    BY <1>3 DEF Exists, TypeInv, TypeOK
  <2>2. /\ task'[k].id = task[k].id /\ task'[k].last = task[k].last
        /\ task'[k].lastStatus = task[k].lastStatus
    BY <1>3, <2>1 DEF Upsert, TypeInv, TypeOK, TaskRow
  <2>3. \A j \in Keys : task'[j] # NoTask => task[j] # NoTask /\ task'[j].id = task[j].id
    BY <1>2, <1>3, <2>2 DEF Exists
  <2>4. CompletionIsEarned' /\ LastIsSet'
    BY <1>1, <1>2, <1>3, <2>2
       DEF EarnedInv, CompletionIsEarned, LastIsSet, Exists
  <2>5. \A v \in Workers : Executing(v) => cur[v].key \in Keys
    BY DEF TypeInv, HasRow, Stale
  <2>6. ClosingEarned' /\ SkippingEarned'
    BY <1>1, <2>3, <2>5
       DEF EarnedInv, ClosingEarned, SkippingEarned, Current, Executing
  <2>7. IdsSpent'
    <3>1. \A j \in Keys : task[j] # NoTask => task[j].id \in Nat
      BY DEF TypeInv, TypeOK, TaskRow, Ids
    <3>2. \A v \in Workers : Executing(v) => cur[v].id \in Nat
      BY DEF TypeInv, HasRow, Stale, Ids
    <3>3. \A v \in Workers : \A c \in batch[v] : c.id \in Nat
      BY DEF TypeInv, TypeOK, Stale, Ids
    <3>. QED BY <1>1, <2>3, <3>1, <3>2, <3>3
             DEF EarnedInv, IdsSpent, Exists, Executing
  <2>. QED BY <2>4, <2>6, <2>7 DEF EarnedInv
<1>4. CASE ~ Exists(k)
  <2>1. task'[k].id = edits + 1 /\ task'[k].lastStatus = "none"
    BY <1>4 DEF Upsert, TypeInv, TypeOK
  <2>2. CompletionIsEarned' /\ LastIsSet'
    BY <1>1, <1>2, <2>1 DEF EarnedInv, CompletionIsEarned, LastIsSet, Exists
  <2>3. \A v \in Workers :
          Executing(v) => cur[v].key \in Keys /\ cur[v].id \in Nat /\ cur[v].id <= edits
    BY DEF TypeInv, HasRow, Stale, EarnedInv, IdsSpent, Ids
  <2>4. \A v \in Workers : Executing(v) /\ Current(cur[v])' => Current(cur[v])
    BY <1>1, <1>2, <2>1, <2>3 DEF Current
  <2>5. ClosingEarned' /\ SkippingEarned'
    BY <1>1, <2>4 DEF EarnedInv, ClosingEarned, SkippingEarned, Executing
  <2>6. IdsSpent'
    <3>1. \A j \in Keys : task[j] # NoTask => task[j].id \in Nat
      BY DEF TypeInv, TypeOK, TaskRow, Ids
    <3>2. \A v \in Workers : \A c \in batch[v] : c.id \in Nat
      BY DEF TypeInv, TypeOK, Stale, Ids
    <3>. QED BY <1>1, <1>2, <2>1, <2>3, <3>1, <3>2
             DEF EarnedInv, IdsSpent, Exists, Executing
  <2>. QED BY <2>2, <2>5, <2>6 DEF EarnedInv
<1>. QED BY <1>3, <1>4

LEMMA HandlerEarned ==
  ASSUME TypeInv, EarnedInv, NEW w \in Workers, Handler(w)
  PROVE  EarnedInv'
<1>1. UNCHANGED <<task, runs, batch, cur, edits>>
  BY DEF Handler
<1>2. cur[w] \in Stale /\ cur[w].key \in Keys /\ cur[w].next \in Instants
  BY DEF Handler, TypeInv, HasRow, Executing, Stale
<1>3. \A k \in Keys, i \in Instants : served[k][i] > 0 => served'[k][i] > 0
  BY ServedStep
<1>4. /\ pc' = [pc EXCEPT ![w] = "closing"]
      /\ \A v \in Workers \ {w} : verdict'[v] = verdict[v]
      /\ verdict'[w] = "completed" /\ Current(cur[w])
           => served'[cur[w].key][cur[w].next] > 0
  BY ServedStep DEF Handler, TypeInv, TypeOK
<1>5. \A k \in Keys : task[k] # NoTask /\ task[k].last # NoTime
        => task[k].last \in Instants
  BY DEF TypeInv, TypeOK, TaskRow
<1>6. CompletionIsEarned' /\ LastIsSet'
  BY <1>1, <1>3, <1>5 DEF EarnedInv, CompletionIsEarned, LastIsSet, Exists
<1>7. \A v \in Workers : Executing(v)
        => cur[v].key \in Keys /\ cur[v].next \in Instants
  BY DEF TypeInv, HasRow, Stale
<1>8. ClosingEarned' /\ SkippingEarned'
  BY <1>1, <1>3, <1>4, <1>7
     DEF EarnedInv, ClosingEarned, SkippingEarned, Current, Executing, TypeInv, TypeOK
<1>9. IdsSpent'
  BY <1>1, <1>4 DEF EarnedInv, IdsSpent, Exists, Executing, Handler, TypeInv, TypeOK
<1>. QED BY <1>6, <1>8, <1>9 DEF EarnedInv

LEMMA EarnedStep == TypeInv /\ EarnedInv /\ [Next]_vars => EarnedInv'
<1> SUFFICES ASSUME TypeInv, EarnedInv, [Next]_vars PROVE EarnedInv'
  OBVIOUS
<1> USE DEF EarnedInv
<1>0. /\ \A k \in Keys : task[k] # NoTask => task[k].id \in Nat
      /\ \A v \in Workers : Executing(v) => cur[v] \in Stale /\ cur[v].id \in Nat
      /\ \A v \in Workers : \A c \in batch[v] : c \in Stale /\ c.id \in Nat
      /\ edits \in Nat
  BY DEF TypeInv, TypeOK, HasRow, TaskRow, Stale, Ids
<1>1. ASSUME NEW k \in Keys, Delete(k) PROVE EarnedInv'
  <2>1. /\ task' = [task EXCEPT ![k] = NoTask] /\ edits' = edits + 1
        /\ runs' = [runs EXCEPT ![k] = [i \in Instants |-> NoRun]]
        /\ served' = [served EXCEPT ![k] = [i \in Instants |-> 0]]
        /\ UNCHANGED <<pc, batch, cur, verdict>>
    BY <1>1 DEF Delete
  <2>2. \A j \in Keys \ {k} : /\ task'[j] = task[j] /\ runs'[j] = runs[j]
                              /\ served'[j] = served[j]
    BY <2>1 DEF TypeInv, TypeOK
  <2>3. task'[k] = NoTask /\ \A i \in Instants : runs'[k][i] = NoRun
    BY <2>1 DEF TypeInv, TypeOK
  <2>4. CompletionIsEarned' /\ LastIsSet'
    BY <2>2, <2>3 DEF CompletionIsEarned, LastIsSet, Exists
  <2>5. ClosingEarned' /\ SkippingEarned'
    BY <1>0, <2>1, <2>2, <2>3
       DEF ClosingEarned, SkippingEarned, Current, Executing, Stale
  <2>6. IdsSpent'
    BY <1>0, <2>1, <2>2, <2>3 DEF IdsSpent, Exists, Executing
  <2>. QED BY <2>4, <2>5, <2>6
<1>2. ASSUME NEW k \in Keys, NEW schedule \in Schedules, Upsert(k, schedule)
      PROVE  EarnedInv'
  BY <1>2, UpsertEarned
<1>3. ASSUME NEW w \in Workers, ReadDue(w) PROVE EarnedInv'
  <2>1. PICK read \in SUBSET {k \in Keys : Due(k)} :
          batch' = [batch EXCEPT ![w] = {Snapshot(k) : k \in read}]
    BY <1>3 DEF ReadDue
  <2>2. \A c \in {Snapshot(k) : k \in read} : c.id <= edits
    BY DEF Snapshot, Due, IdsSpent
  <2>3. /\ pc' = [pc EXCEPT ![w] = "ticking"]
        /\ UNCHANGED <<task, runs, cur, verdict, edits, served>>
    BY <1>3 DEF ReadDue
  <2>4. IdsSpent'
    BY <2>1, <2>2, <2>3 DEF IdsSpent, Exists, Executing, TypeInv, TypeOK
  <2>5. CompletionIsEarned' /\ LastIsSet'
    BY <2>3 DEF CompletionIsEarned, LastIsSet, Exists
  <2>6. ClosingEarned' /\ SkippingEarned'
    BY <2>3 DEF ClosingEarned, SkippingEarned, Current, TypeInv, TypeOK
  <2>. QED BY <2>4, <2>5, <2>6
<1>4. ASSUME NEW w \in Workers, Claim(w) PROVE EarnedInv'
  <2>1. PICK c \in batch[w] :
          /\ batch' = [batch EXCEPT ![w] = @ \ {c}]
          /\ IF Claimable(c)
             THEN /\ task' = [task EXCEPT ![c.key].owner = w,
                                          ![c.key].ttl = Lease]
                  /\ pc' = [pc EXCEPT ![w] = "claimed"]
                  /\ cur' = [cur EXCEPT ![w] = c]
             ELSE UNCHANGED <<task, pc, cur>>
    BY <1>4 DEF Claim
  <2>2. UNCHANGED <<runs, verdict, edits, served>> /\ c.id <= edits
    BY <1>4 DEF Claim, IdsSpent
  <2>3. \A v \in Workers : batch'[v] \subseteq batch[v]
    BY <2>1 DEF TypeInv, TypeOK
  <2>4. CASE Claimable(c)
    <3>1. c.key \in Keys /\ task[c.key] \in TaskRow
      BY <1>0, <2>4 DEF Claimable, Current, Stale, TypeInv, TypeOK
    <3>2. task' = [task EXCEPT ![c.key] =
                     [task[c.key] EXCEPT !.owner = w, !.ttl = Lease]]
      BY <2>1, <2>4, <3>1 DEF TypeInv, TypeOK
    <3>3. [task[c.key] EXCEPT !.owner = w, !.ttl = Lease] \in TaskRow
      <4>1. Lease \in 0 .. Lease
        BY SchedulerAssumption
      <4>. QED BY <3>1, <4>1, Zenon DEF TaskRow
    <3>4. /\ task'[c.key] # NoTask /\ task'[c.key].id = task[c.key].id
          /\ task'[c.key].last = task[c.key].last
          /\ task'[c.key].lastStatus = task[c.key].lastStatus
          /\ \A k \in Keys \ {c.key} : task'[k] = task[k]
      BY <3>1, <3>2, <3>3, NullAssumption DEF TypeInv, TypeOK, TaskRow
    <3>5. task[c.key] # NoTask
      BY <2>4 DEF Claimable, Current
    <3>6. SameIds
      BY <3>1, <3>4, <3>5 DEF SameIds
    <3>7. CompletionIsEarned' /\ LastIsSet'
      BY <2>2, <3>1, <3>4, <3>5 DEF CompletionIsEarned, LastIsSet, Exists
    <3>8. /\ pc' = [pc EXCEPT ![w] = "claimed"]
          /\ cur' = [cur EXCEPT ![w] = c]
      BY <2>1, <2>4
    <3>9. ClosingEarned' /\ SkippingEarned'
      BY <1>0, <2>2, <3>6, <3>8
         DEF ClosingEarned, SkippingEarned, Current, SameIds, Executing, Stale,
             TypeInv, TypeOK
    <3>10. IdsSpent'
      BY <2>2, <2>3, <3>6, <3>8
         DEF IdsSpent, SameIds, Exists, Executing, TypeInv, TypeOK
    <3>. QED BY <3>7, <3>9, <3>10
  <2>5. CASE ~ Claimable(c)
    <3>1. UNCHANGED <<task, pc, cur>>
      BY <2>1, <2>5
    <3>. QED BY <2>2, <2>3, <3>1
             DEF CompletionIsEarned, ClosingEarned, SkippingEarned, IdsSpent,
                 LastIsSet, Exists, Current, Executing
  <2>. QED BY <2>4, <2>5
<1>5. ASSUME NEW w \in Workers, FindRun(w) PROVE EarnedInv'
  <2>1. /\ pc' = [pc EXCEPT ![w] =
                    IF AlreadyCompleted(w) THEN "skipping" ELSE "opening"]
        /\ UNCHANGED <<task, runs, batch, cur, verdict, edits, served>>
        /\ pc[w] = "claimed"
    BY <1>5 DEF FindRun
  <2>2. AlreadyCompleted(w) => served[cur[w].key][cur[w].next] > 0
    <3>1. cur[w].key \in Keys /\ cur[w].next \in Instants
      BY <1>0, <2>1 DEF Executing, Stale
    <3>. QED BY <3>1 DEF AlreadyCompleted, RunOf, CompletionIsEarned
  <2>3. CompletionIsEarned' /\ LastIsSet' /\ IdsSpent'
    BY <2>1 DEF CompletionIsEarned, LastIsSet, IdsSpent, Exists, Executing,
                TypeInv, TypeOK
  <2>4. ClosingEarned' /\ SkippingEarned'
    BY <2>1, <2>2 DEF ClosingEarned, SkippingEarned, Current, TypeInv, TypeOK
  <2>. QED BY <2>3, <2>4
<1>6. ASSUME NEW w \in Workers, SkipCompleted(w) PROVE EarnedInv'
  <2>1. /\ Executing(w) /\ AdvanceTask(w, "completed") /\ Return(w)
        /\ UNCHANGED <<runs, batch, edits, served>>
    BY <1>6 DEF SkipCompleted, Executing
  <2>2. Holds(w) => served[cur[w].key][cur[w].next] > 0
    BY <1>6 DEF SkipCompleted, SkippingEarned, Holds
  <2>3. /\ SameIds
        /\ \A k \in Keys :
             task'[k] # NoTask /\ task'[k].lastStatus = "completed"
               => task'[k].last # NoTime /\ served[k][task'[k].last] > 0
    BY <2>1, <2>2, AdvanceTaskEarned DEF Statuses
  <2>4. CompletionIsEarned' /\ LastIsSet'
    BY <2>1, <2>3 DEF CompletionIsEarned, LastIsSet, Exists
  <2>. QED BY <2>1, <2>3, <2>4, ReturnEarned
<1>7. ASSUME NEW w \in Workers, OpenRun(w) PROVE EarnedInv'
  <2>1. pc[w] = "opening" /\ UNCHANGED <<task, batch, edits, served>>
    BY <1>7 DEF OpenRun
  <2>2. CASE Current(cur[w])
    <3>1. /\ runs' = Opened(w)
          /\ pc' = [pc EXCEPT ![w] = "running"]
          /\ UNCHANGED <<cur, verdict>>
      BY <1>7, <2>2 DEF OpenRun
    <3>2. \A k \in Keys, i \in Instants :
            runs'[k][i] # runs[k][i] => runs'[k][i].status = "running"
      BY <1>0, <2>1, <3>1, OpenedRuns
    <3>3. CompletionIsEarned' /\ LastIsSet'
      BY <2>1, <3>2 DEF CompletionIsEarned, LastIsSet, Exists
    <3>4. ClosingEarned' /\ SkippingEarned' /\ IdsSpent'
      BY <2>1, <3>1 DEF ClosingEarned, SkippingEarned, IdsSpent, Current,
                        Exists, Executing, TypeInv, TypeOK
    <3>. QED BY <3>3, <3>4
  <2>3. CASE ~ Current(cur[w])
    <3>1. Return(w) /\ UNCHANGED runs /\ SameIds
      BY <1>7, <2>1, <2>3 DEF OpenRun, SameIds
    <3>2. CompletionIsEarned' /\ LastIsSet'
      BY <2>1, <3>1 DEF CompletionIsEarned, LastIsSet, Exists
    <3>. QED BY <2>1, <3>1, <3>2, ReturnEarned
  <2>. QED BY <2>2, <2>3
<1>8. ASSUME NEW w \in Workers, Handler(w) PROVE EarnedInv'
  BY <1>8, HandlerEarned
<1>9. ASSUME NEW w \in Workers, Close(w) PROVE EarnedInv'
  <2>1. /\ pc[w] = "closing" /\ CloseRun(w) /\ Return(w)
        /\ UNCHANGED <<batch, edits, served>>
    BY <1>9 DEF Close
  <2>2. CompletionIsEarned' /\ LastIsSet'
    BY <2>1, CloseRunEarned DEF CompletionIsEarned, LastIsSet, Exists
  <2>. QED BY <2>1, <2>2, CloseRunEarned, ReturnEarned
<1>10. ASSUME NEW w \in Workers, EndTick(w) PROVE EarnedInv'
  BY <1>10 DEF EndTick, CompletionIsEarned, ClosingEarned, SkippingEarned,
               IdsSpent, LastIsSet, Exists, Current, Executing, TypeInv, TypeOK
<1>11. ASSUME NEW w \in Workers, StatementThrows(w) PROVE EarnedInv'
  <2>1. UNCHANGED <<batch, edits, served>>
    BY <1>11 DEF StatementThrows
  <2>2. CASE Return(w) /\ UNCHANGED <<task, runs>>
    <3>1. CompletionIsEarned' /\ LastIsSet' /\ SameIds
      BY <2>1, <2>2 DEF CompletionIsEarned, LastIsSet, Exists, SameIds
    <3>. QED BY <2>1, <2>2, <3>1, ReturnEarned
  <2>3. CASE /\ pc[w] = "closing" /\ verdict[w] = "completed"
             /\ CloseRun(w) \/ UNCHANGED <<task, runs>>
             /\ verdict' = [verdict EXCEPT ![w] = "failed"]
             /\ UNCHANGED <<pc, cur>>
    <3>1. /\ SameIds
          /\ \A k \in Keys :
               task'[k] # NoTask /\ task'[k].lastStatus = "completed"
                 => task'[k].last # NoTime /\ served[k][task'[k].last] > 0
          /\ \A k \in Keys, i \in Instants :
               runs'[k][i] # NoRun /\ runs'[k][i].status = "completed"
                 => served[k][i] > 0
      <4>1. CASE CloseRun(w)
        BY <2>3, <4>1, CloseRunEarned
      <4>2. CASE UNCHANGED <<task, runs>>
        BY <4>2 DEF SameIds, CompletionIsEarned, LastIsSet, Exists
      <4>. QED BY <2>3, <4>1, <4>2
    <3>2. CompletionIsEarned' /\ LastIsSet'
      BY <2>1, <3>1 DEF CompletionIsEarned, LastIsSet, Exists
    <3>3. \A v \in Workers : verdict'[v] = "completed" => verdict[v] = "completed"
      BY <2>3 DEF TypeInv, TypeOK
    <3>4. ClosingEarned' /\ SkippingEarned'
      BY <1>0, <2>1, <2>3, <3>1, <3>3
         DEF ClosingEarned, SkippingEarned, Current, SameIds, Executing, Stale
    <3>5. IdsSpent'
      BY <2>1, <2>3, <3>1 DEF IdsSpent, SameIds, Exists, Executing
    <3>. QED BY <3>2, <3>4, <3>5
  <2>4. CASE pc[w] = "opening" /\ runs' = Opened(w) /\ Return(w) /\ UNCHANGED task
    <3>1. \A k \in Keys, i \in Instants :
            runs'[k][i] # runs[k][i] => runs'[k][i].status = "running"
      BY <2>4, OpenedRuns
    <3>2. CompletionIsEarned' /\ LastIsSet' /\ SameIds
      BY <2>1, <2>4, <3>1 DEF CompletionIsEarned, LastIsSet, Exists, SameIds
    <3>. QED BY <2>1, <2>4, <3>2, ReturnEarned
  <2>. QED BY <1>11, <2>2, <2>3, <2>4 DEF StatementThrows
<1>12. ASSUME NEW w \in Workers, Crash(w) PROVE EarnedInv'
  <2>1. /\ pc' = [pc EXCEPT ![w] = "dead"] /\ batch' = [batch EXCEPT ![w] = {}]
        /\ cur' = [cur EXCEPT ![w] = NoStale]
        /\ verdict' = [verdict EXCEPT ![w] = "none"]
        /\ UNCHANGED <<task, runs, edits, served>>
    BY <1>12 DEF Crash
  <2>. QED BY <2>1 DEF CompletionIsEarned, ClosingEarned, SkippingEarned,
                       IdsSpent, LastIsSet, Exists, Current, Executing, TypeInv, TypeOK
<1>13. CASE UNCHANGED vars
  BY <1>13 DEF vars, CompletionIsEarned, ClosingEarned, SkippingEarned,
               IdsSpent, LastIsSet, Exists, Current, Executing
<1>14. ASSUME /\ \A k \in Keys :
                  task[k] # NoTask =>
                    /\ task'[k] # NoTask /\ task'[k].id = task[k].id
                    /\ task'[k].last = task[k].last
                    /\ task'[k].lastStatus = task[k].lastStatus
              /\ \A k \in Keys : task[k] = NoTask => task'[k] = NoTask
              /\ UNCHANGED <<runs, pc, batch, cur, verdict, edits, served>>
       PROVE  EarnedInv'
  <2>1. CompletionIsEarned' /\ LastIsSet'
    BY <1>14 DEF CompletionIsEarned, LastIsSet, Exists
  <2>2. ClosingEarned' /\ SkippingEarned'
    BY <1>0, <1>14 DEF ClosingEarned, SkippingEarned, Current, Executing, Stale
  <2>3. IdsSpent'
    BY <1>14 DEF IdsSpent, Exists, Executing
  <2>. QED BY <2>1, <2>2, <2>3
<1>15. ASSUME NEW w \in Workers, Heartbeat(w) PROVE EarnedInv'
  <2>1. /\ cur[w].key \in Keys /\ task[cur[w].key] \in TaskRow
        /\ task[cur[w].key] # NoTask
    BY <1>0, <1>15
       DEF Heartbeat, Holds, Current, Executing, Stale, TypeInv, TypeOK
  <2>2. [task[cur[w].key] EXCEPT !.ttl = Lease] \in TaskRow
    <3>1. Lease \in 0 .. Lease
      BY SchedulerAssumption
    <3>. QED BY <2>1, <3>1, Zenon DEF TaskRow
  <2>3. task' = [task EXCEPT ![cur[w].key] =
                   [task[cur[w].key] EXCEPT !.ttl = Lease]]
    BY <1>15 DEF Heartbeat
  <2>4. UNCHANGED <<runs, pc, batch, cur, verdict, edits, served>>
    BY <1>15 DEF Heartbeat
  <2>5. task'[cur[w].key] = [task[cur[w].key] EXCEPT !.ttl = Lease]
        /\ \A k \in Keys \ {cur[w].key} : task'[k] = task[k]
    BY <2>1, <2>3 DEF TypeInv, TypeOK
  <2>. QED BY <1>14, <2>1, <2>2, <2>4, <2>5, NullAssumption DEF TaskRow
<1>16. CASE Tick
  <2>1. UNCHANGED <<runs, pc, batch, cur, verdict, edits, served>>
    BY <1>16 DEF Tick
  <2>2. ASSUME NEW k \in Keys, task[k] # NoTask
        PROVE  /\ task'[k] # NoTask /\ task'[k].id = task[k].id
               /\ task'[k].last = task[k].last
               /\ task'[k].lastStatus = task[k].lastStatus
    <3>1. task[k] \in TaskRow
      BY <2>2 DEF TypeInv, TypeOK
    <3>2. \/ task'[k] = task[k]
          \/ task[k].ttl > 0 /\ task'[k] = [task[k] EXCEPT !.ttl = task[k].ttl - 1]
      BY <1>16 DEF Tick
    <3>3. task[k].ttl > 0 => [task[k] EXCEPT !.ttl = task[k].ttl - 1] \in TaskRow
      <4>1. task[k].ttl > 0 => task[k].ttl - 1 \in 0 .. Lease
        BY <3>1, SchedulerAssumption DEF TaskRow
      <4>. QED BY <3>1, <4>1, Zenon DEF TaskRow
    <3>4. task'[k] # NoTask
      BY <2>2, <3>2, <3>3, NullAssumption
    <3>. QED BY <3>1, <3>2, <3>4 DEF TaskRow
  <2>3. \A k \in Keys : task[k] = NoTask => task'[k] = NoTask
    BY <1>16 DEF Tick, Exists
  <2>. QED BY <1>14, <2>1, <2>2, <2>3
<1>. QED BY <1>1, <1>2, <1>3, <1>4, <1>5, <1>6, <1>7, <1>8, <1>9, <1>10,
            <1>11, <1>12, <1>13, <1>15, <1>16 DEF Next, Step

\* No run and no task is ever recorded as completed for an instant whose
\* handler has not succeeded, for any number of workers, tasks, crashes,
\* stalls, failing statements and schedule edits
\* (src/src/scheduler/index.ts:280-409).
THEOREM CompletionEarned == Spec => []CompletionIsEarned
<1>1. Init => TypeInv /\ EarnedInv
  BY TypeInit, EarnedInit
<1>2. TypeInv /\ EarnedInv /\ [Next]_vars => (TypeInv /\ EarnedInv)'
  BY TypeStep, EarnedStep
<1>3. EarnedInv => CompletionIsEarned
  BY DEF EarnedInv
<1>. QED BY <1>1, <1>2, <1>3, PTL DEF Spec

-----------------------------------------------------------------------------
(***************************************************************************)
(* What the lease of a task protects.  When no live worker pauses past its *)
(* own lease (Timely) and no schedule is saved back to an instant that is  *)
(* already due (Grace = 0), two workers never execute the same run, a      *)
(* completed run is never re-opened, the task row and the run row tell the *)
(* same story, and an undisturbed handler succeeds once.  That a worker    *)
(* skips no future instant needs no lease at all.                          *)
(***************************************************************************)

\* A worker only ever works on an instant that has come.
WorkIsDue ==
  /\ \A w \in Workers : Executing(w) => cur[w].next <= now
  /\ \A w \in Workers : \A c \in batch[w] : c.next <= now

\* While the row still names the instant a worker executes, that worker has
\* an unexpired lease on it.
LeaseProtects ==
  \A w \in Workers :
    Executing(w) /\ Current(cur[w]) /\ task[cur[w].key].next = cur[w].next
      => task[cur[w].key].owner = w /\ task[cur[w].key].ttl > 0

LeaseInv == WorkIsDue /\ LeaseProtects /\ OneWorkerPerRun
Inv == TypeInv /\ EarnedInv /\ LeaseInv

\* What the guarded advance does to the instants workers are executing.
LEMMA AdvanceMovesOn ==
  ASSUME Inv, NEW w \in Workers, Executing(w), NEW status \in Statuses,
         AdvanceTask(w, status)
  PROVE  /\ \A k \in Keys \ {cur[w].key} : task'[k] = task[k]
         /\ ~ Holds(w) => task' = task
         /\ Holds(w) => /\ task[cur[w].key] # NoTask
                        /\ task'[cur[w].key].id = task[cur[w].key].id
                        /\ \A i \in Instants :
                             i <= now => task'[cur[w].key].next # i
<1> DEFINE k == cur[w].key
           n == NextAfterExecution(cur[w].schedule, cur[w].next)
<1>1. cur[w] \in Stale /\ k \in Keys /\ cur[w].schedule \in SUBSET Instants
      /\ cur[w].next \in Instants
  BY SchedulerAssumption DEF Inv, TypeInv, HasRow, Stale
<1>2. now \in Nat /\ cur[w].next \in Nat
  BY <1>1, SchedulerAssumption DEF Inv, TypeInv, TypeOK, Instants
<1>3. \A i \in Instants : i <= now => n # i
  <2>1. Latest(cur[w].next, now) \in Int /\ Latest(cur[w].next, now) >= now
    BY <1>2 DEF Latest
  <2>2. n = NoTime \/ n > Latest(cur[w].next, now)
    BY <1>1, <2>1, NextRunProperty DEF NextAfterExecution
  <2>3. n \in Instants \cup {NoTime}
    BY <1>1, NextAfterExecutionType DEF Inv, TypeInv, Stale
  <2>. QED BY <1>2, <2>1, <2>2, <2>3 DEF Instants, NoTime
<1>4. CASE Holds(w)
  <2>1. task[k] # NoTask /\ task[k] \in TaskRow
    BY <1>1, <1>4 DEF Holds, Current, Inv, TypeInv, TypeOK
  <2>2. task'[k] = Advanced(task[k], cur[w], status)
        /\ \A j \in Keys \ {k} : task'[j] = task[j]
    BY <1>1, <1>4 DEF AdvanceTask, Inv, TypeInv, TypeOK
  <2>3. task'[k].id = task[k].id /\ task'[k].next = n
    BY <2>1, <2>2 DEF Advanced, TaskRow
  <2>. QED BY <1>3, <1>4, <2>1, <2>2, <2>3
<1>5. CASE ~ Holds(w)
  BY <1>5 DEF AdvanceTask
<1>. QED BY <1>4, <1>5

LEMMA ReturnLease ==
  ASSUME Inv, NEW w \in Workers, Executing(w), NEW status \in Statuses,
         AdvanceTask(w, status) \/ UNCHANGED task,
         Return(w) \/ UNCHANGED <<pc, cur>>, UNCHANGED <<now, batch>>
  PROVE  LeaseInv'
<1>1. \A v \in Workers :
        Executing(v)' => /\ Executing(v) /\ cur'[v] = cur[v]
                         /\ cur[v] \in Stale
  BY DEF Return, Executing, Inv, TypeInv, TypeOK, HasRow
<1>2. WorkIsDue' /\ OneWorkerPerRun'
  BY <1>1 DEF Inv, LeaseInv, WorkIsDue, OneWorkerPerRun, SameRun
<1>3. ASSUME NEW v \in Workers, Executing(v)', Current(cur[v])',
             task'[cur'[v].key].next = cur'[v].next
      PROVE  task'[cur'[v].key].owner = v /\ task'[cur'[v].key].ttl > 0
  <2>1. /\ cur'[v] = cur[v] /\ cur[v].key \in Keys
        /\ cur[v].next \in Instants /\ cur[v].next <= now /\ Executing(v)
    BY <1>1, <1>3 DEF Stale, Inv, LeaseInv, WorkIsDue
  <2>2. task'[cur[v].key] # NoTask /\ task'[cur[v].key].id = cur[v].id
        /\ task'[cur[v].key].next = cur[v].next
    BY <1>3, <2>1 DEF Current
  <2>3. task'[cur[v].key] = task[cur[v].key]
    <3>1. CASE UNCHANGED task
      BY <3>1
    <3>2. CASE AdvanceTask(w, status)
      BY <2>1, <2>2, <3>2, AdvanceMovesOn
    <3>. QED BY <3>1, <3>2
  <2>. QED BY <2>1, <2>2, <2>3 DEF Inv, LeaseInv, LeaseProtects, Current
<1>4. LeaseProtects'
  BY <1>3, <1>1 DEF LeaseProtects, Current
<1>. QED BY <1>2, <1>4 DEF LeaseInv

LEMMA ClaimLease ==
  ASSUME Inv, NEW w \in Workers, Claim(w)
  PROVE  LeaseInv'
<1>1. PICK c \in batch[w] :
        /\ batch' = [batch EXCEPT ![w] = @ \ {c}]
        /\ IF Claimable(c)
           THEN /\ task' = [task EXCEPT ![c.key].owner = w,
                                        ![c.key].ttl = Lease]
                /\ pc' = [pc EXCEPT ![w] = "claimed"]
                /\ cur' = [cur EXCEPT ![w] = c]
           ELSE UNCHANGED <<task, pc, cur>>
  BY DEF Claim
<1>2. UNCHANGED now /\ c \in Stale /\ c.next <= now
      /\ pc[w] = "ticking" /\ \A v \in Workers : batch'[v] \subseteq batch[v]
  BY <1>1 DEF Claim, Inv, TypeInv, TypeOK, LeaseInv, WorkIsDue
<1>3. CASE Claimable(c)
  <2>1. /\ c.key \in Keys /\ task[c.key] \in TaskRow /\ task[c.key] # NoTask
        /\ task[c.key].id = c.id /\ task[c.key].next = c.next
        /\ task[c.key].ttl = 0
    BY <1>2, <1>3
       DEF Claimable, Current, Expired, Stale, Inv, TypeInv, TypeOK
  <2>2. /\ pc' = [pc EXCEPT ![w] = "claimed"] /\ cur' = [cur EXCEPT ![w] = c]
    BY <1>1, <1>3
  <2>3. /\ Executing(w)' /\ cur'[w] = c /\ ~ Executing(w)
        /\ \A v \in Workers \ {w} :
             /\ Executing(v)' <=> Executing(v)
             /\ cur'[v] = cur[v]
             /\ Executing(v) => cur[v] \in Stale
    BY <1>2, <2>2 DEF Executing, Inv, TypeInv, TypeOK, HasRow
  <2>4. \A k \in Keys \ {c.key} : task'[k] = task[k]
    BY <1>1, <1>3 DEF Inv, TypeInv, TypeOK
  <2>5. task'[c.key].owner = w /\ task'[c.key].ttl = Lease
        /\ task'[c.key].id = c.id /\ task'[c.key].next = c.next
    <3>1. task' = [task EXCEPT ![c.key] =
                     [task[c.key] EXCEPT !.owner = w, !.ttl = Lease]]
      BY <1>1, <1>3, <2>1 DEF Inv, TypeInv, TypeOK
    <3>. QED BY <2>1, <3>1 DEF Inv, TypeInv, TypeOK, TaskRow
  <2>6. \A v \in Workers \ {w} : Executing(v) => ~ SameRun(cur[v], c)
    <3> SUFFICES ASSUME NEW v \in Workers \ {w}, Executing(v), SameRun(cur[v], c)
                 PROVE  FALSE
      OBVIOUS
    <3>1. Current(cur[v]) /\ task[cur[v].key].next = cur[v].next
      BY <2>1 DEF SameRun, Current
    <3>2. task[c.key].ttl > 0
      BY <3>1 DEF SameRun, Inv, LeaseInv, LeaseProtects
    <3>. QED BY <2>1, <3>2
  <2>7. WorkIsDue'
    BY <1>2, <2>3 DEF WorkIsDue, Inv, LeaseInv
  <2>8. OneWorkerPerRun'
    BY <2>3, <2>6 DEF OneWorkerPerRun, SameRun, Inv, LeaseInv
  <2>9. LeaseProtects'
    <3> SUFFICES ASSUME NEW v \in Workers, Executing(v)', Current(cur[v])',
                        task'[cur'[v].key].next = cur'[v].next
                 PROVE  task'[cur'[v].key].owner = v /\ task'[cur'[v].key].ttl > 0
      BY DEF LeaseProtects
    <3>1. CASE v = w
      BY <2>3, <2>5, <3>1, SchedulerAssumption
    <3>2. CASE v # w
      <4>1. cur'[v] = cur[v] /\ Executing(v) /\ cur[v].key \in Keys
        BY <2>3, <3>2 DEF Stale
      <4>2. cur[v].key # c.key
        BY <2>5, <2>6, <3>2, <4>1 DEF Current, SameRun
      <4>. QED BY <2>4, <4>1, <4>2 DEF Current, Inv, LeaseInv, LeaseProtects
    <3>. QED BY <3>1, <3>2
  <2>. QED BY <2>7, <2>8, <2>9 DEF LeaseInv
<1>4. CASE ~ Claimable(c)
  <2>1. UNCHANGED <<task, pc, cur>>
    BY <1>1, <1>4
  <2>. QED BY <1>2, <2>1
           DEF Inv, LeaseInv, WorkIsDue, LeaseProtects, OneWorkerPerRun,
               Executing, Current, SameRun
<1>. QED BY <1>3, <1>4

LEMMA TickLease ==
  ASSUME Inv, Timely, Tick
  PROVE  LeaseInv'
<1>1. now' >= now /\ now \in Nat /\ now' \in Nat
  BY SchedulerAssumption DEF Tick, Inv, TypeInv, TypeOK
<1>2. UNCHANGED <<pc, batch, cur>>
  BY DEF Tick
<1>3. /\ \A v \in Workers : Executing(v) => cur[v] \in Stale /\ cur[v].next \in Nat
      /\ \A v \in Workers : \A c \in batch[v] : c.next \in Nat
  BY SchedulerAssumption DEF Inv, TypeInv, TypeOK, HasRow, Stale, Instants
<1>4. WorkIsDue' /\ OneWorkerPerRun'
  BY <1>1, <1>2, <1>3
     DEF WorkIsDue, OneWorkerPerRun, SameRun, Executing, Inv, LeaseInv
<1>5. LeaseProtects'
  <2> SUFFICES ASSUME NEW v \in Workers, Executing(v), Current(cur[v])',
                      task'[cur[v].key].next = cur[v].next
               PROVE  task'[cur[v].key].owner = v /\ task'[cur[v].key].ttl > 0
    BY <1>2 DEF LeaseProtects, Executing
  <2> DEFINE k == cur[v].key
  <2>1. k \in Keys /\ task[k] \in TaskRow \cup {NoTask}
    BY <1>3 DEF Stale, Inv, TypeInv, TypeOK
  <2>2. task'[k] = IF Exists(k) /\ task[k].ttl > 0
                   THEN [task[k] EXCEPT !.ttl = task[k].ttl - 1] ELSE task[k]
    BY <2>1 DEF Tick
  <2>3. task[k] # NoTask
    BY <1>2, <2>2 DEF Current, Exists
  <2>4. task'[k].id = task[k].id /\ task'[k].next = task[k].next
        /\ task'[k].owner = task[k].owner
    BY <2>1, <2>2, <2>3 DEF TaskRow
  <2>5. Current(cur[v]) /\ task[k].next = cur[v].next
    BY <1>2, <2>3, <2>4 DEF Current
  <2>6. task[k].owner = v /\ Holds(v)
    BY <2>5 DEF Holds, Inv, LeaseInv, LeaseProtects
  <2>7. task[k].ttl > 1
    BY <2>6 DEF Tick
  <2>8. task[k] \in TaskRow /\ task[k].ttl \in Nat
    BY <2>1, <2>3, SchedulerAssumption DEF TaskRow
  <2>9. task'[k].ttl = task[k].ttl - 1
    BY <2>2, <2>3, <2>7, <2>8 DEF Exists, TaskRow
  <2>. QED BY <2>4, <2>6, <2>7, <2>8, <2>9
<1>. QED BY <1>4, <1>5 DEF LeaseInv

LEMMA UpsertLease ==
  ASSUME Inv, Grace = 0, NEW k \in Keys, NEW schedule \in Schedules,
         Upsert(k, schedule)
  PROVE  LeaseInv'
<1>1. UNCHANGED <<now, pc, batch, cur>> /\ now \in Int
  BY SchedulerAssumption DEF Upsert, Inv, TypeInv, TypeOK
<1>2. \A v \in Workers : Executing(v) => cur[v] \in Stale
  BY DEF Inv, TypeInv, HasRow
<1>3. WorkIsDue' /\ OneWorkerPerRun'
  BY <1>1 DEF WorkIsDue, OneWorkerPerRun, SameRun, Executing, Inv, LeaseInv
<1>4. /\ \A j \in Keys \ {k} : task'[j] = task[j]
      /\ task'[k].next = NextRun(schedule, now - Grace)
  <2>1. CASE Exists(k)
    <3>1. task[k] \in TaskRow
      BY <2>1 DEF Exists, Inv, TypeInv, TypeOK
    <3>. QED BY <2>1, <3>1 DEF Upsert, Inv, TypeInv, TypeOK, TaskRow
  <2>2. CASE ~ Exists(k)
    BY <2>2 DEF Upsert, Inv, TypeInv, TypeOK
  <2>. QED BY <2>1, <2>2
<1>5. task'[k].next > now
  <2>1. NextRun(schedule, now - Grace) # NoTime /\ now - Grace = now
    BY <1>1 DEF Upsert
  <2>2. schedule \in SUBSET Instants
    BY SchedulerAssumption
  <2>. QED BY <1>1, <1>4, <2>1, <2>2, NextRunProperty
<1>6. \A v \in Workers : Executing(v) /\ cur[v].key = k
        => task'[cur[v].key].next # cur[v].next
  <2> SUFFICES ASSUME NEW v \in Workers, Executing(v), cur[v].key = k,
                      task'[k].next = cur[v].next
               PROVE  FALSE
    OBVIOUS
  <2>1. cur[v].next <= now /\ cur[v].next \in Int
    BY <1>2, SchedulerAssumption DEF Inv, LeaseInv, WorkIsDue, Stale, Instants
  <2>. QED BY <1>1, <1>5, <2>1
<1>7. LeaseProtects'
  BY <1>1, <1>2, <1>4, <1>6
     DEF LeaseProtects, Executing, Current, Stale, Inv, LeaseInv
<1>. QED BY <1>3, <1>7 DEF LeaseInv

LEMMA LeaseStep ==
  ASSUME Timely, Grace = 0, Inv, [Next]_vars
  PROVE  LeaseInv'
<1>1. ASSUME NEW k \in Keys, Delete(k) PROVE LeaseInv'
  <2>1. /\ UNCHANGED <<now, pc, batch, cur>>
        /\ \A j \in Keys : task'[j] = task[j] \/ task'[j] = NoTask
    BY <1>1 DEF Delete, Inv, TypeInv, TypeOK
  <2>2. \A v \in Workers : Executing(v) => cur[v].key \in Keys
    BY DEF Inv, TypeInv, HasRow, Stale
  <2>. QED BY <2>1, <2>2
           DEF Inv, LeaseInv, WorkIsDue, LeaseProtects, OneWorkerPerRun,
               SameRun, Executing, Current
<1>2. ASSUME NEW k \in Keys, NEW schedule \in Schedules, Upsert(k, schedule)
      PROVE  LeaseInv'
  BY <1>2, UpsertLease
<1>3. ASSUME NEW w \in Workers, ReadDue(w) PROVE LeaseInv'
  <2>1. PICK read \in SUBSET {k \in Keys : Due(k)} :
          batch' = [batch EXCEPT ![w] = {Snapshot(k) : k \in read}]
    BY <1>3 DEF ReadDue
  <2>2. \A c \in {Snapshot(k) : k \in read} : c.next <= now
    BY DEF Snapshot, Due
  <2>3. /\ pc' = [pc EXCEPT ![w] = "ticking"] /\ UNCHANGED <<now, task, cur>>
    BY <1>3 DEF ReadDue
  <2>4. \A v \in Workers : \A c \in batch'[v] : c.next <= now
    BY <2>1, <2>2 DEF Inv, TypeInv, TypeOK, LeaseInv, WorkIsDue
  <2>. QED BY <2>3, <2>4
           DEF Inv, TypeInv, TypeOK, LeaseInv, WorkIsDue, LeaseProtects,
               OneWorkerPerRun, SameRun, Executing, Current
<1>4. ASSUME NEW w \in Workers, Claim(w) PROVE LeaseInv'
  BY <1>4, ClaimLease
<1>5. ASSUME NEW w \in Workers,
             FindRun(w) \/ Handler(w) \/ EndTick(w) \/ (OpenRun(w) /\ Current(cur[w]))
      PROVE  LeaseInv'
  <2>1. UNCHANGED <<now, task, batch, cur>>
    BY <1>5 DEF FindRun, Handler, EndTick, OpenRun
  <2>2. \A v \in Workers : Executing(v)' => Executing(v)
    BY <1>5 DEF FindRun, Handler, EndTick, OpenRun, Executing,
                Inv, TypeInv, TypeOK
  <2>. QED BY <2>1, <2>2
           DEF Inv, LeaseInv, WorkIsDue, LeaseProtects, OneWorkerPerRun,
               SameRun, Current
<1>6. ASSUME NEW w \in Workers, OpenRun(w), ~ Current(cur[w]) PROVE LeaseInv'
  <2>1. Executing(w) /\ Return(w) /\ UNCHANGED <<now, task, batch>>
    BY <1>6 DEF OpenRun, Executing
  <2>. QED BY <2>1, ReturnLease DEF Statuses
<1>7. ASSUME NEW w \in Workers, SkipCompleted(w) PROVE LeaseInv'
  <2>1. Executing(w) /\ Return(w) /\ AdvanceTask(w, "completed")
        /\ UNCHANGED <<now, batch>>
    BY <1>7 DEF SkipCompleted, Executing
  <2>. QED BY <2>1, ReturnLease DEF Statuses
<1>8. ASSUME NEW w \in Workers, Close(w) \/ StatementThrows(w) PROVE LeaseInv'
  <2>1. Executing(w) /\ (Return(w) \/ UNCHANGED <<pc, cur>>)
        /\ UNCHANGED <<now, batch>>
    BY <1>8 DEF Close, StatementThrows, Executing
  <2>2. (AdvanceTask(w, verdict[w]) /\ pc[w] = "closing") \/ UNCHANGED task
    BY <1>8 DEF Close, StatementThrows, CloseRun
  <2>3. pc[w] = "closing" => verdict[w] \in Statuses
    BY DEF Inv, TypeInv, TypeOK, HasVerdict, Statuses
  <2>. QED BY <2>1, <2>2, <2>3, ReturnLease DEF Statuses
<1>9. ASSUME NEW w \in Workers, Heartbeat(w) PROVE LeaseInv'
  <2>1. cur[w] \in Stale /\ cur[w].key \in Keys /\ task[cur[w].key] \in TaskRow
    BY <1>9 DEF Heartbeat, Holds, Current, Executing, Stale,
                Inv, TypeInv, TypeOK, HasRow
  <2>2. /\ UNCHANGED <<now, pc, batch, cur>>
        /\ task' = [task EXCEPT ![cur[w].key] =
                      [task[cur[w].key] EXCEPT !.ttl = Lease]]
    BY <1>9 DEF Heartbeat
  <2>3. /\ \A j \in Keys \ {cur[w].key} : task'[j] = task[j]
        /\ task'[cur[w].key].id = task[cur[w].key].id
        /\ task'[cur[w].key].next = task[cur[w].key].next
        /\ task'[cur[w].key].owner = task[cur[w].key].owner
        /\ task'[cur[w].key].ttl > 0
        /\ task[cur[w].key] # NoTask
    BY <1>9, <2>1, <2>2, SchedulerAssumption
       DEF Heartbeat, Holds, Current, TaskRow, Inv, TypeInv, TypeOK
  <2>4. \A v \in Workers : Executing(v) => cur[v].key \in Keys
    BY DEF Inv, TypeInv, HasRow, Stale
  <2>. QED BY <2>2, <2>3, <2>4
           DEF Inv, LeaseInv, WorkIsDue, LeaseProtects, OneWorkerPerRun,
               SameRun, Executing, Current
<1>10. ASSUME NEW w \in Workers, Crash(w) PROVE LeaseInv'
  <2>1. /\ \A v \in Workers : Executing(v)' => Executing(v) /\ cur'[v] = cur[v]
        /\ \A v \in Workers : batch'[v] \subseteq batch[v]
        /\ UNCHANGED <<now, task>>
    BY <1>10 DEF Crash, Executing, Inv, TypeInv, TypeOK
  <2>. QED BY <2>1
           DEF Inv, LeaseInv, WorkIsDue, LeaseProtects, OneWorkerPerRun,
               SameRun, Current
<1>11. CASE Tick
  BY <1>11, TickLease
<1>12. CASE UNCHANGED vars
  BY <1>12 DEF vars, Inv, LeaseInv, WorkIsDue, LeaseProtects,
               OneWorkerPerRun, SameRun, Executing, Current
<1>. QED BY <1>1, <1>2, <1>3, <1>4, <1>5, <1>6, <1>7, <1>8, <1>9, <1>10,
            <1>11, <1>12 DEF Next, Step

LEMMA LeaseInit == Init => LeaseInv
BY DEF Init, LeaseInv, WorkIsDue, LeaseProtects, OneWorkerPerRun, Executing

LEMMA InvStep ==
  ASSUME Timely, Grace = 0
  PROVE  Inv /\ [Next]_vars => Inv'
BY LeaseStep, EarnedStep, TypeStep DEF Inv

\* Without pauses past a lease and without saves back to a due instant, two
\* workers never execute the same run, whatever crashes, throws or is edited
\* (claim and heartbeat, src/src/scheduler/index.ts:283-295 and 346-354).
THEOREM MutualExclusion ==
  ASSUME Timely, Grace = 0
  PROVE  Spec => []OneWorkerPerRun
<1>1. Init => Inv
  BY TypeInit, EarnedInit, LeaseInit DEF Inv
<1>2. Inv => OneWorkerPerRun
  BY DEF Inv, LeaseInv
<1>. QED BY <1>1, <1>2, InvStep, PTL DEF Spec

-----------------------------------------------------------------------------
(* A completed run is never re-opened: the find and the upsert are two     *)
(* statements, but nobody else can complete the run between them.          *)

OpensUnfinished ==
  \A w \in Workers :
    pc[w] = "opening" /\ RunOf(w) # NoRun => RunOf(w).status # "completed"

\* A row keeps its id, or it is new and nobody has seen its id.
LEMMA RowIdentity ==
  ASSUME Inv, [Next]_vars, NEW k \in Keys, task'[k] # NoTask
  PROVE  \/ task[k] # NoTask /\ task'[k].id = task[k].id
         \/ task'[k].id = edits + 1
<1> DEFINE Kept == task[k] # NoTask /\ task'[k].id = task[k].id
<1>0. task[k] # NoTask => task[k] \in TaskRow
  BY DEF Inv, TypeInv, TypeOK
<1>1. ASSUME NEW j \in Keys, Delete(j) PROVE Kept
  BY <1>1 DEF Delete, Inv, TypeInv, TypeOK
<1>2. ASSUME NEW j \in Keys, NEW schedule \in Schedules, Upsert(j, schedule)
      PROVE  Kept \/ task'[k].id = edits + 1
  <2>1. CASE j # k
    BY <1>2, <2>1 DEF Upsert, Inv, TypeInv, TypeOK
  <2>2. CASE j = k /\ Exists(k)
    <3>1. task[k] \in TaskRow
      BY <1>0, <2>2 DEF Exists
    <3>2. task'[k] = [task[k] EXCEPT
                        !.enabled = TRUE, !.schedule = schedule,
                        !.next = NextRun(schedule, now - Grace),
                        !.owner = NoWorker, !.ttl = 0]
      BY <1>2, <2>2 DEF Upsert, Inv, TypeInv, TypeOK
    <3>. QED BY <2>2, <3>1, <3>2 DEF TaskRow, Exists
  <2>3. CASE j = k /\ ~ Exists(k)
    BY <1>2, <2>3 DEF Upsert, Inv, TypeInv, TypeOK
  <2>. QED BY <2>1, <2>2, <2>3
<1>3. ASSUME NEW w \in Workers, Claim(w) PROVE Kept
  <2>1. PICK c \in batch[w] :
          IF Claimable(c)
          THEN task' = [task EXCEPT ![c.key].owner = w, ![c.key].ttl = Lease]
          ELSE UNCHANGED task
    BY <1>3 DEF Claim
  <2>2. c \in Stale
    BY DEF Inv, TypeInv, TypeOK
  <2>3. CASE Claimable(c)
    <3>1. task' = [task EXCEPT ![c.key] =
                     [task[c.key] EXCEPT !.owner = w, !.ttl = Lease]]
      BY <2>1, <2>2, <2>3 DEF Stale, Inv, TypeInv, TypeOK
    <3>2. task[c.key] # NoTask
      BY <2>3 DEF Claimable, Current
    <3>. QED BY <1>0, <2>2, <3>1, <3>2 DEF Stale, TaskRow, Inv, TypeInv, TypeOK
  <2>. QED BY <2>1, <2>3
<1>4. ASSUME NEW w \in Workers, NEW status \in Statuses, Executing(w),
             AdvanceTask(w, status)
      PROVE  Kept
  BY <1>4, AdvanceMovesOn
<1>5. ASSUME NEW w \in Workers, SkipCompleted(w) \/ Close(w) \/ StatementThrows(w)
      PROVE  Kept
  <2>1. UNCHANGED task \/ (Executing(w) /\ AdvanceTask(w, "completed"))
        \/ (pc[w] = "closing" /\ Executing(w) /\ AdvanceTask(w, verdict[w]))
    BY <1>5 DEF SkipCompleted, Close, StatementThrows, CloseRun, Executing
  <2>2. pc[w] = "closing" => verdict[w] \in Statuses
    BY DEF Inv, TypeInv, TypeOK, HasVerdict, Statuses
  <2>. QED BY <1>4, <2>1, <2>2 DEF Statuses
<1>6. ASSUME NEW w \in Workers, Heartbeat(w) PROVE Kept
  <2>1. cur[w] \in Stale /\ task[cur[w].key] # NoTask
    BY <1>6 DEF Heartbeat, Holds, Current, Executing, Inv, TypeInv, HasRow
  <2>2. task' = [task EXCEPT ![cur[w].key] =
                   [task[cur[w].key] EXCEPT !.ttl = Lease]]
    BY <1>6 DEF Heartbeat
  <2>3. task[cur[w].key] \in TaskRow
    BY <2>1 DEF Stale, Inv, TypeInv, TypeOK
  <2>. QED BY <2>1, <2>2, <2>3 DEF Stale, TaskRow, Inv, TypeInv, TypeOK
<1>7. CASE Tick
  <2>1. task'[k] = IF Exists(k) /\ task[k].ttl > 0
                   THEN [task[k] EXCEPT !.ttl = task[k].ttl - 1] ELSE task[k]
    BY <1>7 DEF Tick
  <2>. QED BY <1>0, <2>1 DEF Exists, TaskRow
<1>8. CASE UNCHANGED task
  BY <1>8
<1>. QED BY <1>1, <1>2, <1>3, <1>5, <1>6, <1>7, <1>8
         DEF Next, Step, vars, ReadDue, FindRun, OpenRun, Handler, EndTick, Crash

\* The only statements that write a run, and what they know when they do.
Opens(w, k, s) ==
  /\ pc[w] = "opening" /\ (OpenRun(w) \/ StatementThrows(w))
  /\ runs'[k][s] = [task |-> cur[w].id, status |-> "running", worker |-> w]
Closes(w, k, s) ==
  /\ pc[w] = "closing" /\ (Close(w) \/ StatementThrows(w)) /\ CloseRun(w) /\ OwnsRun(w)
  /\ runs[k][s].status = "running"
  /\ runs'[k][s] = [runs[k][s] EXCEPT !.status = verdict[w]]

LEMMA RunWrites ==
  ASSUME TypeInv, [Next]_vars, NEW k \in Keys, NEW s \in Instants,
         ~ Delete(k), runs'[k][s] # runs[k][s]
  PROVE  \E w \in Workers :
           /\ cur[w].key = k /\ cur[w].next = s /\ Current(cur[w])
           /\ Opens(w, k, s) \/ Closes(w, k, s)
<1>1. ASSUME NEW j \in Keys, Delete(j) PROVE FALSE
  BY <1>1 DEF Delete, TypeInv, TypeOK
<1>2. ASSUME NEW w \in Workers, OpenRun(w) \/ (StatementThrows(w) /\ pc[w] = "opening")
      PROVE  /\ cur[w].key = k /\ cur[w].next = s /\ Current(cur[w])
             /\ Opens(w, k, s)
  <2>1. Current(cur[w]) /\ pc[w] = "opening" /\ runs' = Opened(w)
    BY <1>2 DEF OpenRun, StatementThrows
  <2>. QED BY <1>2, <2>1, OpenedType DEF Opens
<1>3. ASSUME NEW w \in Workers, Close(w) \/ (StatementThrows(w) /\ pc[w] # "opening")
      PROVE  /\ cur[w].key = k /\ cur[w].next = s /\ Current(cur[w])
             /\ Closes(w, k, s)
  <2>1. CloseRun(w) /\ pc[w] = "closing"
    BY <1>3 DEF Close, StatementThrows
  <2>2. OwnsRun(w)
    BY <2>1 DEF CloseRun
  <2>3. cur[w] \in Stale
    BY <2>1 DEF Executing, TypeInv, HasRow
  <2>4. Current(cur[w]) /\ runs[cur[w].key][cur[w].next].status = "running"
    BY <2>2 DEF OwnsRun, RunOf
  <2>5. runs' = [runs EXCEPT ![cur[w].key] =
                   [runs[cur[w].key] EXCEPT ![cur[w].next] =
                     [runs[cur[w].key][cur[w].next] EXCEPT !.status = verdict[w]]]]
    BY <2>1, <2>2 DEF CloseRun
  <2>6. cur[w].key = k /\ cur[w].next = s
    BY <2>3, <2>5 DEF Stale, TypeInv, TypeOK
  <2>. QED BY <1>3, <2>1, <2>2, <2>3, <2>4, <2>5, <2>6
           DEF Closes, TypeInv, TypeOK
<1>4. CASE UNCHANGED runs
  BY <1>4
<1>. QED BY <1>1, <1>2, <1>3, <1>4
         DEF Next, Step, vars, Upsert, ReadDue, Claim, FindRun, SkipCompleted,
             Handler, EndTick, Crash, Tick, Heartbeat

\* Between its find and its upsert a worker's run cannot become completed:
\* a run of an older row is gone, and nobody else executes this one.
LEMMA OpensStep == Inv /\ OpensUnfinished /\ [Next]_vars => OpensUnfinished'
<1> SUFFICES ASSUME Inv, OpensUnfinished, [Next]_vars,
                    NEW w \in Workers, (pc[w] = "opening")', (RunOf(w) # NoRun)'
             PROVE  (RunOf(w).status # "completed")'
  BY DEF OpensUnfinished
<1>1. \/ pc[w] = "opening" /\ cur'[w] = cur[w]
      \/ /\ pc[w] = "claimed" /\ ~ AlreadyCompleted(w)
         /\ UNCHANGED <<task, runs, cur>>
  <2>1. ASSUME NEW v \in Workers,
               ReadDue(v) \/ Claim(v) \/ SkipCompleted(v) \/ OpenRun(v)
               \/ Handler(v) \/ Close(v) \/ EndTick(v) \/ StatementThrows(v)
               \/ Crash(v)
        PROVE  pc[w] = "opening" /\ cur'[w] = cur[w]
    <3>1. pc'[w] = pc[w] \/ (v = w /\ pc'[w] # "opening")
      BY <2>1 DEF ReadDue, Claim, SkipCompleted, OpenRun, Handler, Close,
                  EndTick, StatementThrows, Crash, Return, Inv, TypeInv, TypeOK
    <3>2. cur'[w] = cur[w] \/ (v = w /\ pc'[w] # "opening")
      BY <2>1 DEF ReadDue, Claim, SkipCompleted, OpenRun, Handler, Close,
                  EndTick, StatementThrows, Crash, Return, Inv, TypeInv, TypeOK
    <3>. QED BY <3>1, <3>2
  <2>2. ASSUME NEW v \in Workers, FindRun(v)
        PROVE  \/ pc[w] = "opening" /\ cur'[w] = cur[w]
               \/ /\ pc[w] = "claimed" /\ ~ AlreadyCompleted(w)
                  /\ UNCHANGED <<task, runs, cur>>
    BY <2>2 DEF FindRun, Inv, TypeInv, TypeOK
  <2>3. CASE UNCHANGED <<pc, cur>>
    BY <2>3
  <2>. QED BY <2>1, <2>2, <2>3 DEF Next, Step, vars, Upsert, Delete, Heartbeat, Tick
<1>2. CASE pc[w] = "claimed" /\ ~ AlreadyCompleted(w) /\ UNCHANGED <<task, runs, cur>>
  BY <1>2 DEF AlreadyCompleted, RunOf, Current
<1>3. CASE pc[w] = "opening" /\ cur'[w] = cur[w]
  <2> DEFINE k == cur[w].key
             s == cur[w].next
  <2>1. Executing(w) /\ k \in Keys /\ s \in Instants /\ cur[w].id \in Nat
        /\ cur[w].id <= edits /\ edits \in Nat
    BY <1>3, SchedulerAssumption
       DEF Executing, Stale, Ids, Inv, TypeInv, TypeOK, HasRow, EarnedInv, IdsSpent
  <2>2. task'[k] # NoTask /\ task'[k].id = cur[w].id
        /\ RunOf(w)' = runs'[k][s]
    BY <1>3 DEF RunOf, Current
  <2>3. Current(cur[w])
    BY <2>1, <2>2, RowIdentity DEF Current
  <2>4. runs[k][s] # NoRun => runs[k][s].status # "completed"
    BY <1>3, <2>3 DEF OpensUnfinished, RunOf
  <2>5. CASE runs'[k][s] = runs[k][s]
    BY <2>2, <2>4, <2>5
  <2>6. ASSUME NEW v \in Workers, cur[v].key = k, cur[v].next = s,
               Current(cur[v]), Closes(v, k, s)
        PROVE  FALSE
    <3>0. pc[v] = "closing"
      BY <2>6 DEF Closes
    <3>1. SameRun(cur[v], cur[w]) /\ Executing(v)
      BY <2>3, <2>6, <3>0 DEF SameRun, Current, Executing
    <3>2. v = w
      BY <2>1, <3>1 DEF Inv, LeaseInv, OneWorkerPerRun
    <3>. QED BY <1>3, <3>0, <3>2
  <2>7. CASE runs'[k][s] # runs[k][s]
    <3>1. ~ Delete(k)
      BY <2>1, <2>2 DEF Delete, Inv, TypeInv, TypeOK
    <3>2. PICK v \in Workers :
            /\ cur[v].key = k /\ cur[v].next = s /\ Current(cur[v])
            /\ Opens(v, k, s) \/ Closes(v, k, s)
      BY <2>1, <2>7, <3>1, RunWrites DEF Inv
    <3>3. Opens(v, k, s)
      BY <2>6, <3>2
    <3>4. runs'[k][s].status = "running"
      BY <3>3 DEF Opens
    <3>. QED BY <2>2, <3>4
  <2>. QED BY <2>5, <2>7
<1>. QED BY <1>1, <1>2, <1>3

\* Under the same assumptions no step but the deletion of its task touches a
\* completed run, although the find and the upsert of executeTask are two
\* statements (src/src/scheduler/index.ts:297-344).
THEOREM CompletedRunsStay ==
  ASSUME Timely, Grace = 0
  PROVE  Spec => RunsStayCompleted
<1> DEFINE Stay == \A k \in Keys, s \in Instants :
                     runs[k][s] # NoRun /\ runs[k][s].status = "completed"
                       => runs'[k][s] = runs[k][s] \/ task'[k] = NoTask
<1>1. Init => Inv /\ OpensUnfinished
  BY TypeInit, EarnedInit, LeaseInit DEF Inv, Init, OpensUnfinished
<1>2. Inv /\ OpensUnfinished /\ [Next]_vars => Stay
  <2> SUFFICES ASSUME Inv, OpensUnfinished, [Next]_vars,
                      NEW k \in Keys, NEW s \in Instants,
                      runs[k][s] # NoRun, runs[k][s].status = "completed",
                      runs'[k][s] # runs[k][s], task'[k] # NoTask
               PROVE  FALSE
    OBVIOUS
  <2>0. ~ Delete(k)
    BY DEF Delete, Inv, TypeInv, TypeOK
  <2>1. PICK w \in Workers :
          /\ cur[w].key = k /\ cur[w].next = s /\ Current(cur[w])
          /\ Opens(w, k, s) \/ Closes(w, k, s)
    BY <2>0, RunWrites DEF Inv
  <2>2. pc[w] = "opening"
    BY <2>1 DEF Opens, Closes
  <2>. QED BY <2>1, <2>2 DEF OpensUnfinished, RunOf
<1>3. Inv /\ OpensUnfinished /\ [Next]_vars => [Stay]_vars
  BY <1>2
<1>. QED BY <1>1, <1>3, InvStep, OpensStep, PTL DEF Spec, RunsStayCompleted

-----------------------------------------------------------------------------
(* What a step does to a row and to a worker, for the two ledgers.         *)

RowStays(k) ==
  /\ task[k] # NoTask /\ task'[k].id = task[k].id
  /\ task'[k].next = task[k].next /\ task'[k].last = task[k].last
  /\ task'[k].lastStatus = task[k].lastStatus
  /\ task'[k].schedule = task[k].schedule
  /\ task'[k].owner = task[k].owner
     \/ \E v \in Workers : Claim(v) /\ task'[k].owner = v

RowSaved(k) ==
  /\ task'[k].next > now - Grace /\ task'[k].owner = NoWorker /\ edits' = edits + 1
  /\ task[k] # NoTask => /\ task'[k].id = task[k].id /\ task'[k].last = task[k].last
                         /\ task'[k].lastStatus = task[k].lastStatus
  /\ task[k] = NoTask => task'[k].id = edits + 1 /\ task'[k].last = NoTime

RowAdvanced(w, k, status) ==
  /\ cur[w].key = k /\ Holds(w) /\ task[k] # NoTask
  /\ task'[k].id = task[k].id /\ task'[k].owner = NoWorker
  /\ task'[k].next = NextAfterExecution(cur[w].schedule, cur[w].next)
  /\ task'[k].enabled = (task'[k].next # NoTime)
  /\ task'[k].last = cur[w].next /\ task'[k].lastStatus = status
  /\ task'[k].schedule = task[k].schedule

AdvancesBy(w, k) ==
  \/ pc[w] = "skipping" /\ SkipCompleted(w) /\ RowAdvanced(w, k, "completed")
  \/ /\ pc[w] = "closing" /\ (Close(w) \/ StatementThrows(w)) /\ CloseRun(w)
     /\ RowAdvanced(w, k, verdict[w])

LEMMA AdvanceWrites ==
  ASSUME TypeInv, NEW w \in Workers, Executing(w), NEW status \in Statuses,
         AdvanceTask(w, status), NEW k \in Keys, task'[k] # NoTask
  PROVE  task'[k] = task[k] \/ RowAdvanced(w, k, status)
<1>1. cur[w] \in Stale /\ cur[w].key \in Keys
  BY DEF TypeInv, HasRow, Stale
<1>2. CASE Holds(w) /\ cur[w].key = k
  <2>1. task[k] # NoTask /\ task[k] \in TaskRow
    BY <1>2 DEF Holds, Current, TypeInv, TypeOK
  <2>2. task'[k] = Advanced(task[k], cur[w], status)
    BY <1>1, <1>2 DEF AdvanceTask, TypeInv, TypeOK
  <2>. QED BY <1>2, <2>1, <2>2 DEF RowAdvanced, Advanced, TaskRow
<1>3. CASE ~ (Holds(w) /\ cur[w].key = k)
  BY <1>1, <1>3 DEF AdvanceTask, TypeInv, TypeOK
<1>. QED BY <1>2, <1>3

\* Taking a lease keeps everything of a row but its owner.
LEMMA ClaimRow ==
  ASSUME TypeInv, NEW w \in Workers, Claim(w), NEW k \in Keys, task'[k] # NoTask
  PROVE  RowStays(k)
<1>1. PICK c \in batch[w] :
        IF Claimable(c)
        THEN task' = [task EXCEPT ![c.key].owner = w, ![c.key].ttl = Lease]
        ELSE UNCHANGED task
  BY DEF Claim
<1>2. c \in Stale /\ c.key \in Keys /\ (task[k] # NoTask => task[k] \in TaskRow)
  BY DEF TypeInv, TypeOK, Stale
<1>3. CASE Claimable(c) /\ c.key = k
  <2>1. task' = [task EXCEPT ![c.key] =
                   [task[c.key] EXCEPT !.owner = w, !.ttl = Lease]]
    BY <1>1, <1>3
  <2>2. task[k] # NoTask /\ task[k] \in TaskRow
    BY <1>2, <1>3 DEF Claimable, Current
  <2>3. task'[k] = [task[k] EXCEPT !.owner = w, !.ttl = Lease]
    BY <1>2, <1>3, <2>1 DEF TypeInv, TypeOK
  <2>4. task'[k].owner = w /\ \E v \in Workers : Claim(v) /\ task'[k].owner = v
    BY <2>2, <2>3 DEF TaskRow
  <2>. QED BY <2>2, <2>3, <2>4 DEF RowStays, TaskRow
<1>4. CASE ~ (Claimable(c) /\ c.key = k)
  BY <1>1, <1>2, <1>4 DEF RowStays, TypeInv, TypeOK
<1>. QED BY <1>3, <1>4

LEMMA RowWrites ==
  ASSUME TypeInv, [Next]_vars, NEW k \in Keys, task'[k] # NoTask
  PROVE  RowStays(k) \/ RowSaved(k) \/ \E w \in Workers : AdvancesBy(w, k)
<1>0. task[k] # NoTask => task[k] \in TaskRow
  BY DEF TypeInv, TypeOK
<1>1. ASSUME task'[k] = task[k] PROVE RowStays(k)
  BY <1>1 DEF RowStays
<1>2. ASSUME NEW j \in Keys, Delete(j) PROVE RowStays(k)
  BY <1>1, <1>2 DEF Delete, TypeInv, TypeOK
<1>3. ASSUME NEW j \in Keys, NEW schedule \in Schedules, Upsert(j, schedule)
      PROVE  RowStays(k) \/ RowSaved(k)
  <2>1. CASE j # k
    BY <1>1, <1>3, <2>1 DEF Upsert, TypeInv, TypeOK
  <2>2. CASE j = k
    <3> DEFINE n == NextRun(schedule, now - Grace)
    <3>1. n > now - Grace /\ edits' = edits + 1
      <4>1. n # NoTime /\ now - Grace \in Int
        BY <1>3, SchedulerAssumption DEF Upsert, TypeInv, TypeOK
      <4>2. schedule \in SUBSET Instants
        BY SchedulerAssumption
      <4>. QED BY <1>3, <4>1, <4>2, NextRunProperty DEF Upsert
    <3>2. CASE Exists(k)
      <4>1. task[k] \in TaskRow /\ task[k] # NoTask
        BY <1>0, <3>2 DEF Exists
      <4>2. task'[k] = [task[k] EXCEPT !.enabled = TRUE, !.schedule = schedule,
                          !.next = n, !.owner = NoWorker, !.ttl = 0]
        BY <1>3, <2>2, <3>2 DEF Upsert, TypeInv, TypeOK
      <4>. QED BY <3>1, <4>1, <4>2 DEF RowSaved, TaskRow
    <3>3. CASE ~ Exists(k)
      <4>1. task'[k] = [id |-> edits + 1, enabled |-> TRUE, schedule |-> schedule,
             next |-> n, last |-> NoTime, lastStatus |-> "none",
             owner |-> NoWorker, ttl |-> 0]
        BY <1>3, <2>2, <3>3 DEF Upsert, TypeInv, TypeOK
      <4>. QED BY <3>1, <3>3, <4>1 DEF RowSaved, Exists
    <3>. QED BY <3>2, <3>3
  <2>. QED BY <2>1, <2>2
<1>4. ASSUME NEW w \in Workers, Claim(w) PROVE RowStays(k)
  BY <1>4, ClaimRow
<1>5. ASSUME NEW w \in Workers, SkipCompleted(w)
      PROVE  RowStays(k) \/ AdvancesBy(w, k)
  <2>1. Executing(w) /\ AdvanceTask(w, "completed") /\ pc[w] = "skipping"
    BY <1>5 DEF SkipCompleted, Executing
  <2>2. task'[k] = task[k] \/ RowAdvanced(w, k, "completed")
    BY <2>1, AdvanceWrites DEF Statuses
  <2>. QED BY <1>1, <1>5, <2>1, <2>2 DEF AdvancesBy
<1>6. ASSUME NEW w \in Workers, Close(w) \/ StatementThrows(w)
      PROVE  RowStays(k) \/ AdvancesBy(w, k)
  <2>1. CASE UNCHANGED task
    BY <1>1, <2>1
  <2>2. CASE pc[w] = "closing" /\ CloseRun(w)
    <3>1. Executing(w) /\ AdvanceTask(w, verdict[w]) /\ verdict[w] \in Statuses
      BY <2>2 DEF Executing, CloseRun, TypeInv, TypeOK, HasVerdict, Statuses
    <3>2. task'[k] = task[k] \/ RowAdvanced(w, k, verdict[w])
      BY <3>1, AdvanceWrites
    <3>. QED BY <1>1, <1>6, <2>2, <3>2 DEF AdvancesBy
  <2>. QED BY <1>6, <2>1, <2>2 DEF Close, StatementThrows
<1>7. ASSUME NEW w \in Workers, Heartbeat(w) PROVE RowStays(k)
  <2>1. cur[w] \in Stale /\ task[cur[w].key] # NoTask
    BY <1>7 DEF Heartbeat, Holds, Current, Executing, TypeInv, HasRow
  <2>2. task' = [task EXCEPT ![cur[w].key] =
                   [task[cur[w].key] EXCEPT !.ttl = Lease]]
    BY <1>7 DEF Heartbeat
  <2>3. task[cur[w].key] \in TaskRow
    BY <2>1 DEF Stale, TypeInv, TypeOK
  <2>. QED BY <1>1, <2>1, <2>2, <2>3 DEF RowStays, Stale, TaskRow, TypeInv, TypeOK
<1>8. CASE Tick
  <2>1. task'[k] = IF Exists(k) /\ task[k].ttl > 0
                   THEN [task[k] EXCEPT !.ttl = task[k].ttl - 1] ELSE task[k]
    BY <1>8 DEF Tick
  <2>. QED BY <1>0, <1>1, <2>1 DEF RowStays, Exists, TaskRow
<1>9. CASE UNCHANGED task
  BY <1>1, <1>9
<1>. QED BY <1>2, <1>3, <1>4, <1>5, <1>6, <1>7, <1>8, <1>9
         DEF Next, Step, vars, ReadDue, FindRun, OpenRun, Handler, EndTick, Crash

\* How a worker gets where it executes.
StandsStill(w) == pc'[w] = pc[w] /\ cur'[w] = cur[w]
Claims(w) ==
  /\ pc'[w] = "claimed" /\ cur'[w] \in batch[w] /\ Claimable(cur'[w])
  /\ Claim(w)
Finds(w) ==
  /\ pc[w] = "claimed" /\ cur'[w] = cur[w] /\ UNCHANGED <<task, runs, served>>
  /\ pc'[w] = IF AlreadyCompleted(w) THEN "skipping" ELSE "opening"
Runs(w) ==
  /\ pc[w] = "opening" /\ pc'[w] = "running" /\ cur'[w] = cur[w]
  /\ Current(cur[w]) /\ OpenRun(w)
HandlerReturns(w) ==
  /\ pc[w] = "running" /\ pc'[w] = "closing" /\ cur'[w] = cur[w]
  /\ UNCHANGED <<task, runs>> /\ Handler(w)

LEMMA WorkerMoves ==
  ASSUME TypeInv, [Next]_vars, NEW w \in Workers, Executing(w)'
  PROVE  StandsStill(w) \/ Claims(w) \/ Finds(w) \/ Runs(w) \/ HandlerReturns(w)
<1> DEFINE Goal == StandsStill(w) \/ Claims(w) \/ Finds(w) \/ Runs(w) \/ HandlerReturns(w)
<1>1. ASSUME NEW v \in Workers, v # w, Step(v) \/ StatementThrows(v) \/ Crash(v)
      PROVE  StandsStill(w)
  BY <1>1 DEF Step, ReadDue, Claim, FindRun, SkipCompleted, OpenRun, Handler, Close,
              EndTick, StatementThrows, Crash, Return, StandsStill, TypeInv, TypeOK
<1>2. CASE ReadDue(w) \/ EndTick(w) \/ SkipCompleted(w) \/ Close(w) \/ Crash(w)
  <2>1. pc'[w] \in {"idle", "ticking", "dead"}
    BY <1>2 DEF ReadDue, EndTick, SkipCompleted, Close, Crash, Return, TypeInv, TypeOK
  <2>. QED BY <2>1 DEF Executing
<1>3. CASE Claim(w)
  <2>1. PICK c \in batch[w] :
          IF Claimable(c)
          THEN /\ pc' = [pc EXCEPT ![w] = "claimed"] /\ cur' = [cur EXCEPT ![w] = c]
          ELSE UNCHANGED <<task, pc, cur>>
    BY <1>3 DEF Claim
  <2>2. CASE Claimable(c)
    <3>1. pc'[w] = "claimed" /\ cur'[w] = c
      BY <2>1, <2>2 DEF TypeInv, TypeOK
    <3>. QED BY <1>3, <2>2, <3>1 DEF Claims
  <2>. QED BY <2>1, <2>2 DEF StandsStill
<1>4. CASE FindRun(w)
  BY <1>4 DEF FindRun, Finds, TypeInv, TypeOK
<1>5. CASE OpenRun(w)
  BY <1>5 DEF OpenRun, Runs, Return, Executing, TypeInv, TypeOK
<1>6. CASE Handler(w)
  <2>1. pc[w] = "running" /\ pc'[w] = "closing" /\ cur'[w] = cur[w]
        /\ UNCHANGED <<task, runs>>
    BY <1>6 DEF Handler, TypeInv, TypeOK
  <2>. QED BY <1>6, <2>1 DEF HandlerReturns
<1>7. CASE StatementThrows(w)
  BY <1>7 DEF StatementThrows, Return, Executing, StandsStill, TypeInv, TypeOK
<1>8. CASE UNCHANGED <<pc, cur>>
  BY <1>8 DEF StandsStill
<1>. QED BY <1>1, <1>2, <1>3, <1>4, <1>5, <1>6, <1>7, <1>8
         DEF Next, Step, vars, Upsert, Delete, Heartbeat, Tick

\* Only a deletion removes a row.
LEMMA RowRemains ==
  ASSUME TypeInv, [Next]_vars, NEW k \in Keys, task[k] # NoTask, task'[k] = NoTask
  PROVE  Delete(k)
<1>1. ASSUME NEW w \in Workers, Claim(w) PROVE FALSE
  <2>1. PICK c \in batch[w] :
          IF Claimable(c)
          THEN task' = [task EXCEPT ![c.key].owner = w, ![c.key].ttl = Lease]
          ELSE UNCHANGED task
    BY <1>1 DEF Claim
  <2>2. c \in Stale /\ task \in [Keys -> TaskRow \cup {NoTask}]
    BY DEF TypeInv, TypeOK
  <2>3. CASE Claimable(c)
    <3>1. task[c.key] \in TaskRow
      BY <2>2, <2>3 DEF Claimable, Current, Stale
    <3>2. Lease \in 0 .. Lease
      BY SchedulerAssumption
    <3>3. [task[c.key] EXCEPT !.owner = w, !.ttl = Lease] \in TaskRow
      BY <3>1, <3>2 DEF TaskRow
    <3>4. task' = [task EXCEPT ![c.key] =
                     [task[c.key] EXCEPT !.owner = w, !.ttl = Lease]]
      BY <2>1, <2>3
    <3>. QED BY <2>2, <3>3, <3>4, NullAssumption DEF Stale
  <2>. QED BY <2>1, <2>3
<1>2. ASSUME NEW j \in Keys, NEW schedule \in Schedules, Upsert(j, schedule)
      PROVE  FALSE
  <2>1. TypeOK'
    BY TypeStep DEF TypeInv
  <2>2. edits' = edits + 1
    BY <1>2 DEF Upsert
  <2>3. CASE j # k
    BY <1>2, <2>3 DEF Upsert, TypeInv, TypeOK
  <2>4. CASE j = k
    <3> DEFINE n == NextRun(schedule, now - Grace)
    <3>1. task[k] \in TaskRow /\ Exists(k)
      BY DEF TypeInv, TypeOK, Exists
    <3>2. task'[k] = [task[k] EXCEPT !.enabled = TRUE, !.schedule = schedule,
                        !.next = n, !.owner = NoWorker, !.ttl = 0]
      BY <1>2, <2>4, <3>1 DEF Upsert, TypeInv, TypeOK
    <3>3. n \in Instants \cup {NoTime}
      <4>1. schedule \in SUBSET Instants /\ now - Grace \in Int
        BY SchedulerAssumption DEF TypeInv, TypeOK
      <4>. QED BY <4>1, NextRunProperty
    <3> HIDE DEF n
    <3>4. 0 \in 0 .. Lease
      BY SchedulerAssumption
    <3>5. task'[k] \in TaskRow
      BY <3>1, <3>2, <3>3, <3>4 DEF TaskRow
    <3>. QED BY <3>5, NullAssumption
  <2>. QED BY <2>3, <2>4
<1>3. ASSUME NEW w \in Workers, NEW status \in Statuses, Executing(w),
             AdvanceTask(w, status)
      PROVE  FALSE
  <2>1. CASE Holds(w)
    <3>1. cur[w].key \in Keys
          /\ Advanced(task[cur[w].key], cur[w], status) \in TaskRow
      BY <1>3, <2>1, AdvancedType
    <3>2. task' = [task EXCEPT ![cur[w].key] =
                     Advanced(task[cur[w].key], cur[w], status)]
      BY <1>3, <2>1 DEF AdvanceTask
    <3>. QED BY <3>1, <3>2, NullAssumption DEF TypeInv, TypeOK
  <2>2. CASE ~ Holds(w)
    BY <1>3, <2>2 DEF AdvanceTask
  <2>. QED BY <2>1, <2>2
<1>4. ASSUME NEW w \in Workers, SkipCompleted(w) \/ Close(w) \/ StatementThrows(w)
      PROVE  FALSE
  <2>1. UNCHANGED task \/ (Executing(w) /\ AdvanceTask(w, "completed"))
        \/ (pc[w] = "closing" /\ Executing(w) /\ AdvanceTask(w, verdict[w]))
    BY <1>4 DEF SkipCompleted, Close, StatementThrows, CloseRun, Executing
  <2>2. pc[w] = "closing" => verdict[w] \in Statuses
    BY DEF TypeInv, TypeOK, HasVerdict, Statuses
  <2>. QED BY <1>3, <2>1, <2>2 DEF Statuses
<1>5. ASSUME NEW w \in Workers, Heartbeat(w) PROVE FALSE
  <2>1. cur[w].key \in Keys /\ task[cur[w].key] \in TaskRow
    BY <1>5 DEF Heartbeat, Holds, Current, Executing, Stale, TypeInv, TypeOK, HasRow
  <2>2. [task[cur[w].key] EXCEPT !.ttl = Lease] \in TaskRow
    BY <2>1, SchedulerAssumption DEF TaskRow
  <2>3. task' = [task EXCEPT ![cur[w].key] =
                   [task[cur[w].key] EXCEPT !.ttl = Lease]]
    BY <1>5 DEF Heartbeat
  <2>. QED BY <2>1, <2>2, <2>3, NullAssumption DEF TypeInv, TypeOK
<1>6. CASE Tick
  <2>1. task[k] \in TaskRow
    BY DEF TypeInv, TypeOK
  <2>2. task'[k] = IF Exists(k) /\ task[k].ttl > 0
                   THEN [task[k] EXCEPT !.ttl = task[k].ttl - 1] ELSE task[k]
    BY <1>6 DEF Tick
  <2>3. task[k].ttl > 0 => [task[k] EXCEPT !.ttl = task[k].ttl - 1] \in TaskRow
    BY <2>1, SchedulerAssumption DEF TaskRow
  <2>. QED BY <2>1, <2>2, <2>3, NullAssumption
<1>7. ASSUME NEW j \in Keys, Delete(j), j # k PROVE FALSE
  BY <1>7 DEF Delete, TypeInv, TypeOK
<1>8. CASE UNCHANGED task
  BY <1>8
<1>. QED BY <1>1, <1>2, <1>4, <1>5, <1>6, <1>7, <1>8
         DEF Next, Step, vars, ReadDue, FindRun, OpenRun, Handler, EndTick, Crash

-----------------------------------------------------------------------------
(* The two ledgers: what the task row says of its last instant and what    *)
(* the run row of that instant says.                                       *)

\* The last instant of a row is over, and the next one is another.
LastIsPast ==
  \A k \in Keys : Exists(k) =>
    /\ task[k].last <= now
    /\ task[k].next = NoTime \/ task[k].last < task[k].next

\* A worker that may still write the run row of its instant works on an
\* instant that the task row does not name as its last.
MayWriteRun(w) == \/ pc[w] \in {"claimed", "skipping", "opening", "running"}
                  \/ pc[w] = "closing" /\ OwnsRun(w)
Unrecorded ==
  \A w \in Workers :
    MayWriteRun(w) /\ Current(cur[w]) => task[cur[w].key].last # cur[w].next

\* The guard of the second update implies the guard of the first.
HolderOwnsRun ==
  \A w \in Workers : pc[w] \in {"running", "closing"} /\ Holds(w) => OwnsRun(w)

\* What made a worker skip its run is still so.
SkipsFinished ==
  \A w \in Workers : pc[w] = "skipping" /\ Current(cur[w]) => AlreadyCompleted(w)

\* The run rows of a key belong to the row it has.
RunsOfRow ==
  \A k \in Keys, s \in Instants :
    runs[k][s] # NoRun => task[k] # NoTask /\ runs[k][s].task = task[k].id

LedgerInv == /\ LastIsPast /\ Unrecorded /\ HolderOwnsRun /\ SkipsFinished
             /\ RunsOfRow /\ LedgerAgrees

\* An executing worker that stays on its instant and finds the row it knows.
LEMMA CurrentKept ==
  ASSUME TypeInv, EarnedInv, [Next]_vars, NEW w \in Workers, Executing(w),
         cur'[w] = cur[w], Current(cur[w])'
  PROVE  /\ Current(cur[w]) /\ cur[w] \in Stale
         /\ cur[w].key \in Keys /\ cur[w].next \in Instants
         /\ task[cur[w].key] # NoTask /\ task'[cur[w].key] # NoTask
         /\ ~ Delete(cur[w].key)
<1>1. cur[w] \in Stale /\ cur[w].id <= edits /\ edits \in Nat /\ cur[w].id \in Nat
  BY SchedulerAssumption
     DEF TypeInv, TypeOK, HasRow, EarnedInv, IdsSpent, Stale, Ids
<1>2. cur[w].key \in Keys /\ cur[w].next \in Instants
  BY <1>1 DEF Stale
<1>3. task'[cur[w].key] # NoTask /\ task'[cur[w].key].id = cur[w].id
  BY DEF Current
<1>4. task[cur[w].key] # NoTask /\ task[cur[w].key].id = cur[w].id
  BY <1>1, <1>2, <1>3, RowWrites DEF RowStays, RowSaved, AdvancesBy, RowAdvanced
<1>5. ~ Delete(cur[w].key)
  BY <1>2, <1>3 DEF Delete, TypeInv, TypeOK
<1>. QED BY <1>1, <1>2, <1>3, <1>4, <1>5 DEF Current

\* Nobody hands a worker a row: what it holds after a step it held before.
LEMMA HoldsKept ==
  ASSUME Inv, Grace = 0, [Next]_vars, NEW w \in Workers, Executing(w),
         cur'[w] = cur[w], Holds(w)'
  PROVE  Holds(w) /\ RowStays(cur[w].key)
<1> DEFINE k == cur[w].key
<1>1. k \in Keys /\ task'[k] # NoTask /\ Current(cur[w])
  BY CurrentKept DEF Inv, Holds, Current
<1>2. task'[k].owner = w /\ task'[k].next = cur[w].next /\ w # NoWorker
  BY SchedulerAssumption DEF Holds
<1>3. RowStays(k) \/ RowSaved(k) \/ \E v \in Workers : AdvancesBy(v, k)
  BY <1>1, RowWrites DEF Inv
<1>4. RowStays(k)
  BY <1>2, <1>3 DEF RowSaved, AdvancesBy, RowAdvanced
<1>5. task'[k].owner = task[k].owner
  <2>1. ASSUME NEW v \in Workers, Claim(v), task'[k].owner = v PROVE FALSE
    BY <1>2, <2>1 DEF Claim, Executing
  <2>. QED BY <1>4, <2>1 DEF RowStays
<1>. QED BY <1>1, <1>2, <1>4, <1>5 DEF Holds, RowStays

\* The run of an executing worker changes only by its own hand.
LEMMA RunKept ==
  ASSUME Inv, Grace = 0, [Next]_vars, NEW w \in Workers, Executing(w),
         cur'[w] = cur[w], Current(cur[w])',
         runs'[cur[w].key][cur[w].next] # runs[cur[w].key][cur[w].next]
  PROVE  Opens(w, cur[w].key, cur[w].next) \/ Closes(w, cur[w].key, cur[w].next)
<1>1. /\ Current(cur[w]) /\ cur[w].key \in Keys /\ cur[w].next \in Instants
      /\ ~ Delete(cur[w].key)
  BY CurrentKept DEF Inv
<1>2. PICK v \in Workers :
        /\ cur[v].key = cur[w].key /\ cur[v].next = cur[w].next
        /\ Current(cur[v])
        /\ Opens(v, cur[w].key, cur[w].next) \/ Closes(v, cur[w].key, cur[w].next)
  BY <1>1, RunWrites DEF Inv
<1>3. SameRun(cur[v], cur[w]) /\ Executing(v)
  BY <1>1, <1>2 DEF SameRun, Current, Opens, Closes, Executing
<1>4. v = w
  BY <1>3 DEF Inv, LeaseInv, OneWorkerPerRun
<1>. QED BY <1>2, <1>4

LEMMA ClockRuns ==
  ASSUME TypeInv, [Next]_vars
  PROVE  now' >= now /\ now \in Nat /\ now' \in Nat
<1>1. now \in 0 .. Horizon /\ Horizon \in Nat
  BY SchedulerAssumption DEF TypeInv, TypeOK
<1>2. now' = now \/ now' = IF now < Horizon THEN now + 1 ELSE now
  BY DEF Next, Step, vars, Upsert, Delete, ReadDue, Claim, FindRun, SkipCompleted,
         OpenRun, Handler, Close, EndTick, StatementThrows, Crash, Heartbeat, Tick
<1>. QED BY <1>1, <1>2

LEMMA LastIsPastStep ==
  ASSUME Inv, LedgerInv, Grace = 0, [Next]_vars
  PROVE  LastIsPast'
<1> SUFFICES ASSUME NEW k \in Keys, task'[k] # NoTask
             PROVE  /\ task'[k].last <= now'
                    /\ task'[k].next = NoTime \/ task'[k].last < task'[k].next
  BY DEF LastIsPast, Exists
<1>1. now' >= now /\ now \in Nat /\ now' \in Nat
  BY ClockRuns DEF Inv
<1>2. /\ task'[k] \in TaskRow
      /\ task[k] # NoTask => task[k] \in TaskRow
  BY TypeStep DEF Inv, TypeInv, TypeOK
<1>3. task'[k].last \in Nat /\ task'[k].next \in Nat
      /\ (task[k] # NoTask => task[k].last \in Nat)
  BY <1>2, SchedulerAssumption DEF TaskRow, Instants, NoTime
<1>4. task[k] # NoTask => /\ task[k].last <= now
                          /\ task[k].next = NoTime \/ task[k].last < task[k].next
  BY DEF LedgerInv, LastIsPast, Exists
<1>5. CASE RowStays(k)
  BY <1>1, <1>3, <1>4, <1>5 DEF RowStays
<1>6. CASE RowSaved(k)
  <2>1. CASE task[k] # NoTask
    BY <1>1, <1>3, <1>4, <1>6, <2>1 DEF RowSaved
  <2>2. CASE task[k] = NoTask
    BY <1>1, <1>3, <1>6, <2>2 DEF RowSaved, NoTime
  <2>. QED BY <2>1, <2>2
<1>7. ASSUME NEW w \in Workers, AdvancesBy(w, k)
      PROVE  /\ task'[k].last <= now'
             /\ task'[k].next = NoTime \/ task'[k].last < task'[k].next
  <2>1. task'[k].last = cur[w].next
        /\ task'[k].next = NextAfterExecution(cur[w].schedule, cur[w].next)
    BY <1>7 DEF AdvancesBy, RowAdvanced
  <2>2. cur[w] \in Stale /\ cur[w].next <= now
    BY <1>7 DEF AdvancesBy, Executing, Inv, TypeInv, HasRow, LeaseInv, WorkIsDue
  <2>3. cur[w].schedule \in SUBSET Instants /\ cur[w].next \in Nat
    <3>1. cur[w].schedule \in Schedules /\ cur[w].next \in Instants
      BY <2>2 DEF Stale
    <3>2. cur[w].schedule \in SUBSET Instants
      BY <3>1, SchedulerAssumption
    <3>3. cur[w].next \in Nat
      BY <3>1, SchedulerAssumption DEF Instants
    <3>. QED BY <3>2, <3>3
  <2>4. Latest(cur[w].next, now) \in Int /\ Latest(cur[w].next, now) >= cur[w].next
    BY <1>1, <2>3 DEF Latest
  <2>5. task'[k].next = NoTime \/ task'[k].next > Latest(cur[w].next, now)
    BY <2>1, <2>3, <2>4, NextRunProperty DEF NextAfterExecution
  <2>. QED BY <1>1, <1>3, <2>1, <2>2, <2>3, <2>4, <2>5
<1>. QED BY <1>5, <1>6, <1>7, RowWrites DEF Inv

LEMMA UnrecordedStep ==
  ASSUME Inv, LedgerInv, Grace = 0, [Next]_vars
  PROVE  Unrecorded'
<1> SUFFICES ASSUME NEW w \in Workers, MayWriteRun(w)', Current(cur[w])'
             PROVE  task'[cur'[w].key].last # cur'[w].next
  BY DEF Unrecorded
<1>1. Executing(w)'
  BY DEF MayWriteRun, Executing
<1>2. ASSUME Claims(w)
      PROVE  task'[cur'[w].key].last # cur'[w].next
  <2> DEFINE c == cur'[w]
  <2>1. c \in Stale /\ Claimable(c) /\ Claim(w)
    BY <1>2 DEF Claims, Inv, TypeInv, TypeOK
  <2>2. c.key \in Keys /\ task[c.key] # NoTask /\ task[c.key].next = c.next
        /\ c.next # NoTime
    BY <2>1, SchedulerAssumption DEF Claimable, Current, Stale, Instants, NoTime
  <2>3. task[c.key].last < c.next /\ task[c.key].last \in Int /\ c.next \in Int
    <3>1. task[c.key] \in TaskRow
      BY <2>2 DEF Inv, TypeInv, TypeOK
    <3>. QED BY <2>1, <2>2, <3>1, SchedulerAssumption
             DEF LedgerInv, LastIsPast, Exists, TaskRow, Stale, Instants, NoTime
  <2>4. task'[c.key] # NoTask
    BY DEF Current
  <2>5. task'[c.key].last = task[c.key].last
    BY <2>1, <2>2, <2>4, ClaimRow DEF RowStays, Inv
  <2>. QED BY <2>3, <2>5
<1>3. ASSUME Finds(w) \/ Runs(w) \/ HandlerReturns(w)
      PROVE  task'[cur'[w].key].last # cur'[w].next
  <2>1. UNCHANGED task /\ cur'[w] = cur[w] /\ MayWriteRun(w)
    BY <1>3 DEF Finds, Runs, HandlerReturns, OpenRun, MayWriteRun
  <2>2. Current(cur[w])
    BY <2>1 DEF Current
  <2>. QED BY <2>1, <2>2 DEF LedgerInv, Unrecorded
<1>4. ASSUME StandsStill(w)
      PROVE  task'[cur'[w].key].last # cur'[w].next
  <2> DEFINE k == cur[w].key
             s == cur[w].next
  <2>0. cur'[w] = cur[w] /\ pc'[w] = pc[w] /\ Executing(w)
    BY <1>1, <1>4 DEF StandsStill, Executing
  <2>1. /\ Current(cur[w]) /\ k \in Keys /\ s \in Instants
        /\ task[k] # NoTask /\ task'[k] # NoTask /\ ~ Delete(k)
    BY <2>0, CurrentKept DEF Inv, Current
  <2>2. MayWriteRun(w)
    <3>1. CASE pc[w] # "closing"
      BY <2>0, <3>1 DEF MayWriteRun
    <3>2. CASE pc[w] = "closing"
      <4>1. OwnsRun(w)' /\ RunOf(w)' = runs'[k][s] /\ RunOf(w) = runs[k][s]
        BY <2>0, <2>1, <3>2 DEF MayWriteRun, RunOf, Current
      <4>2. runs'[k][s].status = "running" /\ runs'[k][s].worker = w
            /\ runs'[k][s] # NoRun
        BY <4>1 DEF OwnsRun
      <4>3. runs'[k][s] = runs[k][s]
        <5>1. ASSUME Closes(w, k, s) PROVE FALSE
          <6>1. runs'[k][s] = [runs[k][s] EXCEPT !.status = verdict[w]]
                /\ runs[k][s] # NoRun
            BY <4>1, <5>1 DEF Closes, OwnsRun
          <6>2. runs[k][s] \in RunRow
            BY <2>1, <6>1 DEF Inv, TypeInv, TypeOK
          <6>3. verdict[w] # "running"
            BY DEF Inv, TypeInv, TypeOK
          <6>. QED BY <4>2, <6>1, <6>2, <6>3 DEF RunRow
        <5>2. ~ Opens(w, k, s)
          BY <3>2 DEF Opens
        <5>. QED BY <2>0, <5>1, <5>2, RunKept
      <4>. QED BY <3>2, <4>1, <4>2, <4>3 DEF MayWriteRun, OwnsRun
    <3>. QED BY <3>1, <3>2
  <2>3. task[k].last # s
    BY <2>1, <2>2 DEF LedgerInv, Unrecorded
  <2>4. ASSUME NEW v \in Workers, AdvancesBy(v, k), cur[v].next = s
        PROVE  FALSE
    <3>1. SameRun(cur[v], cur[w]) /\ Executing(v)
      BY <2>1, <2>4 DEF AdvancesBy, RowAdvanced, Holds, Current, SameRun, Executing
    <3>2. v = w
      BY <2>0, <3>1 DEF Inv, LeaseInv, OneWorkerPerRun
    <3>3. ~ SkipCompleted(w) /\ ~ Close(w)
      BY <2>0, <3>1, <3>2
         DEF SkipCompleted, Close, Return, Executing, Inv, TypeInv, TypeOK
    <3>4. pc[w] = "closing" /\ CloseRun(w) /\ Holds(w)
      BY <2>4, <3>2, <3>3 DEF AdvancesBy, RowAdvanced
    <3>5. OwnsRun(w)
      BY <3>4 DEF LedgerInv, HolderOwnsRun
    <3>6. RunOf(w) = runs[k][s] /\ RunOf(w)' = runs'[k][s]
      BY <2>0, <2>1 DEF RunOf, Current
    <3>7. runs[k][s] \in RunRow
      BY <2>1, <3>5, <3>6 DEF OwnsRun, Inv, TypeInv, TypeOK
    <3>8. runs' = [runs EXCEPT ![k] = [runs[k] EXCEPT ![s] =
                     [runs[k][s] EXCEPT !.status = verdict[w]]]]
      BY <3>4, <3>5 DEF CloseRun
    <3>9. runs'[k][s].status = verdict[w] /\ verdict[w] # "running"
      BY <2>1, <3>7, <3>8 DEF RunRow, Inv, TypeInv, TypeOK
    <3>. QED BY <2>0, <3>4, <3>6, <3>9 DEF MayWriteRun, OwnsRun
  <2>5. RowStays(k) \/ RowSaved(k) \/ \E v \in Workers : AdvancesBy(v, k)
    BY <2>1, RowWrites DEF Inv
  <2>. QED BY <2>0, <2>1, <2>3, <2>4, <2>5
           DEF RowStays, RowSaved, AdvancesBy, RowAdvanced
<1>. QED BY <1>1, <1>2, <1>3, <1>4, WorkerMoves DEF Inv

\* The unguarded upsert makes its worker the owner of the run.
LEMMA RunsOwns ==
  ASSUME TypeInv, NEW w \in Workers, Runs(w)
  PROVE  OwnsRun(w)'
<1>1. cur'[w] = cur[w] /\ cur[w] \in Stale /\ Current(cur[w])
  BY DEF Runs, Executing, TypeInv, HasRow
<1>2. runs' = [runs EXCEPT ![cur[w].key] =
                 [runs[cur[w].key] EXCEPT ![cur[w].next] =
                   [task |-> cur[w].id, status |-> "running", worker |-> w]]]
      /\ UNCHANGED task
  BY <1>1 DEF Runs, OpenRun, Opened
<1>3. runs'[cur[w].key][cur[w].next] =
        [task |-> cur[w].id, status |-> "running", worker |-> w]
  BY <1>1, <1>2 DEF Stale, TypeInv, TypeOK
<1>4. runs'[cur[w].key][cur[w].next] # NoRun
  <2>1. [task |-> cur[w].id, status |-> "running", worker |-> w] \in RunRow
    BY <1>1 DEF Stale, RunRow, Statuses
  <2>. QED BY <1>3, <2>1, NullAssumption
<1>. QED BY <1>1, <1>2, <1>3, <1>4 DEF OwnsRun, RunOf, Current

LEMMA HolderOwnsRunStep ==
  ASSUME Inv, LedgerInv, Grace = 0, [Next]_vars
  PROVE  HolderOwnsRun'
<1> SUFFICES ASSUME NEW w \in Workers, pc'[w] \in {"running", "closing"}, Holds(w)'
             PROVE  OwnsRun(w)'
  BY DEF HolderOwnsRun
<1>1. Executing(w)'
  BY DEF Executing
<1>2. CASE Claims(w) \/ Finds(w)
  BY <1>2 DEF Claims, Finds
<1>3. CASE Runs(w)
  BY <1>3, RunsOwns DEF Inv
<1>4. CASE HandlerReturns(w)
  <2>1. UNCHANGED <<task, runs>> /\ cur'[w] = cur[w] /\ pc[w] = "running"
    BY <1>4 DEF HandlerReturns
  <2>2. Holds(w)
    BY <2>1 DEF Holds, Current
  <2>3. OwnsRun(w)
    BY <2>1, <2>2 DEF LedgerInv, HolderOwnsRun
  <2>. QED BY <2>1, <2>3 DEF OwnsRun, RunOf, Current
<1>5. CASE StandsStill(w)
  <2> DEFINE k == cur[w].key
             s == cur[w].next
  <2>1. cur'[w] = cur[w] /\ pc'[w] = pc[w] /\ Executing(w) /\ Current(cur[w])'
    BY <1>1, <1>5 DEF StandsStill, Executing, Holds
  <2>2. Holds(w) /\ Current(cur[w]) /\ k \in Keys /\ s \in Instants
    BY <2>1, HoldsKept, CurrentKept DEF Inv
  <2>3. OwnsRun(w)
    BY <2>1, <2>2 DEF LedgerInv, HolderOwnsRun
  <2>4. ASSUME Closes(w, k, s) PROVE FALSE
    <3>1. AdvanceTask(w, verdict[w]) /\ verdict[w] \in Statuses /\ task'[k] # NoTask
      BY <2>1, <2>4 DEF Closes, CloseRun, Inv, TypeInv, TypeOK, HasVerdict, Statuses, Current
    <3>2. task'[k] = Advanced(task[k], cur[w], verdict[w]) /\ task[k] \in TaskRow
      BY <2>2, <3>1 DEF AdvanceTask, Current, Inv, TypeInv, TypeOK
    <3>3. task'[k].owner = NoWorker
      BY <3>2 DEF Advanced, TaskRow
    <3>. QED BY <2>1, <3>3, SchedulerAssumption DEF Holds
  <2>5. ~ Opens(w, k, s)
    BY <2>1 DEF Opens
  <2>6. runs'[k][s] = runs[k][s]
    BY <2>1, <2>4, <2>5, RunKept
  <2>. QED BY <2>1, <2>2, <2>3, <2>6 DEF OwnsRun, RunOf, Current
<1>. QED BY <1>1, <1>2, <1>3, <1>4, <1>5, WorkerMoves DEF Inv

LEMMA SkipsFinishedStep ==
  ASSUME Inv, LedgerInv, Grace = 0, [Next]_vars
  PROVE  SkipsFinished'
<1> SUFFICES ASSUME NEW w \in Workers, pc'[w] = "skipping", Current(cur[w])'
             PROVE  AlreadyCompleted(w)'
  BY DEF SkipsFinished
<1>1. Executing(w)'
  BY DEF Executing
<1>2. CASE Claims(w) \/ Runs(w) \/ HandlerReturns(w)
  BY <1>2 DEF Claims, Runs, HandlerReturns
<1>3. CASE Finds(w)
  BY <1>3 DEF Finds, AlreadyCompleted, RunOf, Current
<1>4. CASE StandsStill(w)
  <2> DEFINE k == cur[w].key
             s == cur[w].next
  <2>1. cur'[w] = cur[w] /\ pc[w] = "skipping" /\ Executing(w)
    BY <1>1, <1>4 DEF StandsStill, Executing
  <2>2. Current(cur[w])
    BY <2>1, CurrentKept DEF Inv
  <2>3. runs'[k][s] = runs[k][s]
    BY <2>1, RunKept DEF Opens, Closes
  <2>4. AlreadyCompleted(w)
    BY <2>1, <2>2 DEF LedgerInv, SkipsFinished
  <2>. QED BY <2>1, <2>2, <2>3, <2>4 DEF AlreadyCompleted, RunOf, Current
<1>. QED BY <1>1, <1>2, <1>3, <1>4, WorkerMoves DEF Inv

LEMMA RowIdStays ==
  ASSUME TypeInv, [Next]_vars, NEW k \in Keys, task[k] # NoTask, ~ Delete(k)
  PROVE  task'[k] # NoTask /\ task'[k].id = task[k].id
<1>1. task'[k] # NoTask
  BY RowRemains
<1>. QED BY <1>1, RowWrites DEF RowStays, RowSaved, AdvancesBy, RowAdvanced

LEMMA RunsOfRowStep ==
  ASSUME TypeInv, RunsOfRow, [Next]_vars
  PROVE  RunsOfRow'
<1> SUFFICES ASSUME NEW k \in Keys, NEW s \in Instants, runs'[k][s] # NoRun
             PROVE  task'[k] # NoTask /\ runs'[k][s].task = task'[k].id
  BY DEF RunsOfRow
<1>1. ~ Delete(k)
  BY DEF Delete, TypeInv, TypeOK
<1>2. CASE runs'[k][s] = runs[k][s]
  BY <1>1, <1>2, RowIdStays DEF RunsOfRow
<1>3. CASE runs'[k][s] # runs[k][s]
  <2>1. PICK w \in Workers :
          /\ cur[w].key = k /\ cur[w].next = s /\ Current(cur[w])
          /\ Opens(w, k, s) \/ Closes(w, k, s)
    BY <1>1, <1>3, RunWrites
  <2>2. task[k] # NoTask /\ task[k].id = cur[w].id
    BY <2>1 DEF Current
  <2>3. task'[k] # NoTask /\ task'[k].id = cur[w].id
    BY <1>1, <2>2, RowIdStays
  <2>4. CASE Opens(w, k, s)
    BY <2>3, <2>4 DEF Opens
  <2>5. CASE Closes(w, k, s)
    <3>1. runs[k][s] # NoRun /\ runs'[k][s] = [runs[k][s] EXCEPT !.status = verdict[w]]
      BY <2>1, <2>5 DEF Closes, OwnsRun, RunOf
    <3>2. runs[k][s] \in RunRow
      BY <3>1 DEF TypeInv, TypeOK
    <3>3. runs'[k][s].task = runs[k][s].task
      BY <3>1, <3>2 DEF RunRow
    <3>. QED BY <2>2, <2>3, <3>1, <3>3 DEF RunsOfRow
  <2>. QED BY <2>1, <2>4, <2>5
<1>. QED BY <1>2, <1>3

LEMMA LedgerAgreesStep ==
  ASSUME Inv, LedgerInv, Grace = 0, [Next]_vars
  PROVE  LedgerAgrees'
<1> SUFFICES ASSUME NEW k \in Keys, task'[k] # NoTask, task'[k].last # NoTime
             PROVE  /\ runs'[k][task'[k].last] # NoRun
                    /\ runs'[k][task'[k].last].task = task'[k].id
                    /\ runs'[k][task'[k].last].status = task'[k].lastStatus
  BY DEF LedgerAgrees, Exists
<1> DEFINE s == task'[k].last
<1>1. s \in Instants
  <2>1. task'[k] \in TaskRow
    BY TypeStep DEF Inv, TypeInv, TypeOK
  <2>. QED BY <2>1 DEF TaskRow
<1>2. ~ Delete(k)
  BY DEF Delete, Inv, TypeInv, TypeOK
<1>3. ASSUME task[k] # NoTask, task[k].last = s, task'[k].id = task[k].id,
             task'[k].lastStatus = task[k].lastStatus
      PROVE  /\ runs'[k][s] # NoRun /\ runs'[k][s].task = task'[k].id
             /\ runs'[k][s].status = task'[k].lastStatus
  <2>1. ASSUME runs'[k][s] # runs[k][s] PROVE FALSE
    <3>1. PICK w \in Workers :
            /\ cur[w].key = k /\ cur[w].next = s /\ Current(cur[w])
            /\ Opens(w, k, s) \/ Closes(w, k, s)
      BY <1>1, <1>2, <2>1, RunWrites DEF Inv
    <3>2. MayWriteRun(w)
      BY <3>1 DEF Opens, Closes, MayWriteRun
    <3>. QED BY <1>3, <3>1, <3>2 DEF LedgerInv, Unrecorded
  <2>. QED BY <1>3, <2>1 DEF LedgerInv, LedgerAgrees, Exists
<1>4. ASSUME NEW w \in Workers, AdvancesBy(w, k)
      PROVE  /\ runs'[k][s] # NoRun /\ runs'[k][s].task = task'[k].id
             /\ runs'[k][s].status = task'[k].lastStatus
  <2>1. /\ cur[w].key = k /\ cur[w].next = s /\ Holds(w) /\ Current(cur[w])
        /\ task[k] # NoTask /\ task'[k].id = task[k].id
    BY <1>4 DEF AdvancesBy, RowAdvanced, Holds
  <2>2. CASE pc[w] = "skipping"
    <3>1. UNCHANGED runs /\ task'[k].lastStatus = "completed"
      BY <1>4, <2>2 DEF AdvancesBy, SkipCompleted, RowAdvanced
    <3>2. runs[k][s] # NoRun /\ runs[k][s].status = "completed"
      BY <2>1, <2>2 DEF LedgerInv, SkipsFinished, AlreadyCompleted, RunOf
    <3>. QED BY <1>1, <2>1, <3>1, <3>2 DEF LedgerInv, RunsOfRow
  <2>3. CASE pc[w] = "closing"
    <3>1. CloseRun(w) /\ task'[k].lastStatus = verdict[w]
      BY <1>4, <2>3 DEF AdvancesBy, RowAdvanced
    <3>2. OwnsRun(w) /\ RunOf(w) = runs[k][s]
      BY <2>1, <2>3 DEF LedgerInv, HolderOwnsRun, RunOf
    <3>3. runs[k][s] \in RunRow /\ runs[k][s] # NoRun
      BY <1>1, <3>2 DEF OwnsRun, Inv, TypeInv, TypeOK
    <3>4. runs' = [runs EXCEPT ![k] = [runs[k] EXCEPT ![s] =
                     [runs[k][s] EXCEPT !.status = verdict[w]]]]
      BY <2>1, <3>1, <3>2 DEF CloseRun
    <3>5. runs'[k][s] = [runs[k][s] EXCEPT !.status = verdict[w]]
      BY <1>1, <3>4 DEF Inv, TypeInv, TypeOK
    <3>6. runs'[k][s].status = verdict[w] /\ runs'[k][s].task = runs[k][s].task
          /\ runs'[k][s] # NoRun
      <4>1. runs'[k][s] \in RunRow
        BY <2>3, <3>3, <3>5 DEF RunRow, Statuses, Inv, TypeInv, TypeOK, HasVerdict
      <4>. QED BY <3>3, <3>5, <4>1, NullAssumption DEF RunRow
    <3>. QED BY <1>1, <2>1, <3>1, <3>3, <3>6 DEF LedgerInv, RunsOfRow
  <2>. QED BY <1>4, <2>2, <2>3 DEF AdvancesBy
<1>. QED BY <1>3, <1>4, RowWrites DEF Inv, RowStays, RowSaved

LEMMA LedgerStep ==
  ASSUME Inv, LedgerInv, Grace = 0, [Next]_vars
  PROVE  LedgerInv'
BY LastIsPastStep, UnrecordedStep, HolderOwnsRunStep, SkipsFinishedStep,
   RunsOfRowStep, LedgerAgreesStep DEF Inv, LedgerInv

\* The run row and the task row of the last instant tell the same story
\* although two updates with guards of their own write them
\* (src/src/scheduler/index.ts:356-383, 384-411).
THEOREM LedgersAgree ==
  ASSUME Timely, Grace = 0
  PROVE  Spec => []LedgerAgrees
<1>1. Init => Inv /\ LedgerInv
  BY TypeInit, EarnedInit, LeaseInit
     DEF Inv, Init, LedgerInv, LastIsPast, Unrecorded, MayWriteRun, HolderOwnsRun,
         SkipsFinished, RunsOfRow, LedgerAgrees, Exists
<1>2. Inv /\ LedgerInv /\ [Next]_vars => LedgerInv'
  BY LedgerStep
<1>3. LedgerInv => LedgerAgrees
  BY DEF LedgerInv
<1>. QED BY <1>1, <1>2, <1>3, InvStep, PTL DEF Spec

-----------------------------------------------------------------------------
(* As long as nothing disturbs the workers a handler succeeds once.        *)

\* Who is to close a run has opened it.
RunnerOwns ==
  Undisturbed =>
    \A w \in Workers :
      pc[w] \in {"running", "closing"} /\ Current(cur[w]) => OwnsRun(w)

\* A success is recorded in the run row, or its worker is about to do so.
Records(w, k, s) == /\ pc[w] = "closing" /\ verdict[w] = "completed"
                    /\ cur[w].key = k /\ cur[w].next = s /\ Current(cur[w])
Accounted ==
  Undisturbed =>
    \A k \in Keys, s \in Instants : served[k][s] # 0 =>
      /\ served[k][s] = 1
      /\ \/ runs[k][s] # NoRun /\ runs[k][s].status = "completed"
         \/ \E w \in Workers : Records(w, k, s)

ServedInv == RunnerOwns /\ Accounted

LEMMA StaysUndisturbed ==
  ASSUME TypeInv, [Next]_vars, Undisturbed'
  PROVE  /\ Undisturbed
         /\ \A w \in Workers : ~ StatementThrows(w) /\ ~ Crash(w)
<1>1. faults \in Nat /\ faults' = 0 /\ \A w \in Workers : pc'[w] # "dead"
  BY SchedulerAssumption DEF Undisturbed, TypeInv, TypeOK
<1>2. ASSUME NEW w \in Workers, StatementThrows(w) PROVE FALSE
  BY <1>1, <1>2 DEF StatementThrows
<1>3. ASSUME NEW w \in Workers, Crash(w) PROVE FALSE
  BY <1>1, <1>3 DEF Crash, TypeInv, TypeOK
<1>4. faults = 0
  BY <1>1, <1>2, <1>3
     DEF Next, Step, vars, Upsert, Delete, ReadDue, Claim, FindRun, SkipCompleted,
         OpenRun, Handler, Close, EndTick, Heartbeat, Tick
<1>5. ASSUME NEW w \in Workers, pc[w] = "dead" PROVE FALSE
  <2>1. ASSUME NEW v \in Workers, Step(v) PROVE pc'[w] = "dead"
    BY <1>5, <2>1
       DEF Step, ReadDue, Claim, FindRun, SkipCompleted, OpenRun, Handler, Close,
           EndTick, Return, TypeInv, TypeOK
  <2>2. CASE UNCHANGED pc
    BY <1>1, <1>5, <2>2
  <2>. QED BY <1>1, <1>2, <1>3, <2>1, <2>2
           DEF Next, vars, Upsert, Delete, Heartbeat, Tick
<1>. QED BY <1>2, <1>3, <1>4, <1>5 DEF Undisturbed

\* Who is to close a run closes it or stays where it is.
LEMMA CloserCloses ==
  ASSUME TypeInv, [Next]_vars, Undisturbed', NEW w \in Workers, pc[w] = "closing"
  PROVE  \/ Close(w)
         \/ pc'[w] = "closing" /\ cur'[w] = cur[w] /\ verdict'[w] = verdict[w]
<1>1. ASSUME NEW v \in Workers, Step(v), ~ Close(w)
      PROVE  pc'[w] = "closing" /\ cur'[w] = cur[w] /\ verdict'[w] = verdict[w]
  <2>1. CASE v # w
    BY <1>1, <2>1
       DEF Step, ReadDue, Claim, FindRun, SkipCompleted, OpenRun, Handler, Close,
           EndTick, Return, TypeInv, TypeOK
  <2>2. CASE v = w
    BY <1>1, <2>2
       DEF Step, ReadDue, Claim, FindRun, SkipCompleted, OpenRun, Handler, EndTick
  <2>. QED BY <2>1, <2>2
<1>2. CASE UNCHANGED <<pc, cur, verdict>>
  BY <1>2
<1>. QED BY <1>1, <1>2, StaysUndisturbed
         DEF Next, vars, Upsert, Delete, Heartbeat, Tick

LEMMA RunnerOwnsStep ==
  ASSUME Inv, LedgerInv, ServedInv, Grace = 0, [Next]_vars
  PROVE  RunnerOwns'
<1> SUFFICES ASSUME Undisturbed', NEW w \in Workers,
                    pc'[w] \in {"running", "closing"}, Current(cur[w])'
             PROVE  OwnsRun(w)'
  BY DEF RunnerOwns
<1>1. Executing(w)'
  BY DEF Executing
<1>2. Undisturbed /\ \A v \in Workers : ~ StatementThrows(v)
  BY StaysUndisturbed DEF Inv
<1>3. CASE Claims(w) \/ Finds(w)
  BY <1>3 DEF Claims, Finds
<1>4. CASE Runs(w)
  BY <1>4, RunsOwns DEF Inv
<1>5. CASE HandlerReturns(w)
  <2>1. UNCHANGED <<task, runs>> /\ cur'[w] = cur[w] /\ pc[w] = "running"
    BY <1>5 DEF HandlerReturns
  <2>2. OwnsRun(w)
    BY <1>2, <2>1 DEF ServedInv, RunnerOwns, Current
  <2>. QED BY <2>1, <2>2 DEF OwnsRun, RunOf, Current
<1>6. CASE StandsStill(w)
  <2> DEFINE k == cur[w].key
             s == cur[w].next
  <2>1. cur'[w] = cur[w] /\ pc'[w] = pc[w] /\ Executing(w)
    BY <1>1, <1>6 DEF StandsStill, Executing
  <2>2. Current(cur[w])
    BY <2>1, CurrentKept DEF Inv
  <2>3. OwnsRun(w)
    BY <1>2, <2>1, <2>2 DEF ServedInv, RunnerOwns
  <2>4. ~ Closes(w, k, s)
    BY <1>2, <2>1 DEF Closes, Close, Return, Inv, TypeInv, TypeOK
  <2>5. ~ Opens(w, k, s)
    BY <2>1 DEF Opens
  <2>6. runs'[k][s] = runs[k][s]
    BY <2>1, <2>4, <2>5, RunKept
  <2>. QED BY <2>1, <2>2, <2>3, <2>6 DEF OwnsRun, RunOf, Current
<1>. QED BY <1>1, <1>3, <1>4, <1>5, <1>6, WorkerMoves DEF Inv

\* A counter goes up only when the handler of its run returns.
LEMMA CounterMoves ==
  ASSUME Inv, [Next]_vars, NEW k \in Keys, NEW s \in Instants,
         served'[k][s] # served[k][s], served'[k][s] # 0
  PROVE  \E w \in Workers :
           /\ Handler(w) /\ Current(cur[w]) /\ cur[w].key = k /\ cur[w].next = s
           /\ served'[k][s] = IF served[k][s] = 2 THEN 2 ELSE served[k][s] + 1
           /\ verdict'[w] = "completed"
<1>1. ASSUME NEW j \in Keys, Delete(j) PROVE FALSE
  BY <1>1 DEF Delete, Inv, TypeInv, TypeOK
<1>2. ASSUME NEW w \in Workers, Handler(w)
      PROVE  /\ Handler(w) /\ Current(cur[w]) /\ cur[w].key = k /\ cur[w].next = s
             /\ served'[k][s] = IF served[k][s] = 2 THEN 2 ELSE served[k][s] + 1
             /\ verdict'[w] = "completed"
  <2>1. cur[w] \in Stale /\ cur[w].key \in Keys /\ cur[w].next \in Instants
    BY <1>2 DEF Handler, Executing, Stale, Inv, TypeInv, HasRow
  <2>2. /\ Current(cur[w])
        /\ served' = [served EXCEPT ![cur[w].key][cur[w].next] =
                        IF @ = 2 THEN 2 ELSE @ + 1]
        /\ verdict' = [verdict EXCEPT ![w] = "completed"]
    BY <1>2 DEF Handler
  <2>3. served \in [Keys -> [Instants -> 0 .. 2]] /\ verdict'[w] = "completed"
    BY <2>2 DEF Inv, TypeInv, TypeOK
  <2>4. cur[w].key = k /\ cur[w].next = s
    BY <2>1, <2>2, <2>3
  <2>. QED BY <1>2, <2>1, <2>2, <2>3, <2>4
<1>3. CASE UNCHANGED served
  BY <1>3
<1>. QED BY <1>1, <1>2, <1>3
         DEF Next, Step, vars, Upsert, ReadDue, Claim, FindRun, SkipCompleted,
             OpenRun, Close, EndTick, StatementThrows, Crash, Tick, Heartbeat

LEMMA AccountedStep ==
  ASSUME Inv, OpensUnfinished, LedgerInv, ServedInv, Grace = 0, [Next]_vars
  PROVE  Accounted'
<1> DEFINE Done(k, s) == \/ runs[k][s] # NoRun /\ runs[k][s].status = "completed"
                         \/ \E w \in Workers : Records(w, k, s)
<1> SUFFICES ASSUME Undisturbed', NEW k \in Keys, NEW s \in Instants,
                    served'[k][s] # 0
             PROVE  served'[k][s] = 1 /\ Done(k, s)'
  BY DEF Accounted
<1>1. Undisturbed /\ \A v \in Workers : ~ StatementThrows(v)
  BY StaysUndisturbed DEF Inv
<1>2. ~ Delete(k)
  BY DEF Delete, Inv, TypeInv, TypeOK
<1>3. served[k][s] # 0 => served[k][s] = 1 /\ Done(k, s)
  BY <1>1 DEF ServedInv, Accounted
<1>4. CASE served'[k][s] = served[k][s]
  <2>1. CASE runs[k][s] # NoRun /\ runs[k][s].status = "completed"
    <3>1. ASSUME runs'[k][s] # runs[k][s] PROVE FALSE
      <4>1. PICK w \in Workers :
              /\ cur[w].key = k /\ cur[w].next = s /\ Current(cur[w])
              /\ Opens(w, k, s) \/ Closes(w, k, s)
        BY <1>2, <3>1, RunWrites DEF Inv
      <4>. QED BY <2>1, <4>1 DEF Opens, Closes, OpensUnfinished, RunOf
    <3>. QED BY <1>3, <1>4, <2>1, <3>1
  <2>2. ASSUME NEW w \in Workers, Records(w, k, s)
        PROVE  Done(k, s)'
    <3>1. pc[w] = "closing" /\ verdict[w] = "completed" /\ cur[w].key = k
          /\ cur[w].next = s /\ Current(cur[w])
      BY <2>2 DEF Records
    <3>2. CASE Close(w)
      <4>1. OwnsRun(w) /\ RunOf(w) = runs[k][s]
        BY <1>1, <3>1 DEF ServedInv, RunnerOwns, RunOf
      <4>2. runs[k][s] \in RunRow
        BY <4>1 DEF OwnsRun, Inv, TypeInv, TypeOK
      <4>3. runs' = [runs EXCEPT ![k] = [runs[k] EXCEPT ![s] =
                       [runs[k][s] EXCEPT !.status = "completed"]]]
        BY <3>1, <3>2, <4>1 DEF Close, CloseRun
      <4>4. runs'[k][s] = [runs[k][s] EXCEPT !.status = "completed"]
        BY <4>3 DEF Inv, TypeInv, TypeOK
      <4>5. runs'[k][s] \in RunRow /\ runs'[k][s].status = "completed"
        BY <4>2, <4>4 DEF RunRow, Statuses
      <4>. QED BY <4>5, NullAssumption
    <3>3. CASE ~ Close(w)
      <4>1. pc'[w] = "closing" /\ cur'[w] = cur[w] /\ verdict'[w] = verdict[w]
        BY <3>1, <3>3, CloserCloses DEF Inv
      <4>2. task'[k] # NoTask /\ task'[k].id = task[k].id
        BY <1>2, <3>1, RowIdStays DEF Inv, Current
      <4>. QED BY <3>1, <4>1, <4>2 DEF Records, Current
    <3>. QED BY <3>2, <3>3
  <2>. QED BY <1>3, <1>4, <2>1, <2>2
<1>5. CASE served'[k][s] # served[k][s]
  <2>1. PICK w \in Workers :
          /\ Handler(w) /\ Current(cur[w]) /\ cur[w].key = k /\ cur[w].next = s
          /\ served'[k][s] = IF served[k][s] = 2 THEN 2 ELSE served[k][s] + 1
          /\ verdict'[w] = "completed"
    BY <1>5, CounterMoves
  <2>2. pc[w] = "running" /\ pc'[w] = "closing" /\ UNCHANGED <<task, cur>>
    BY <2>1 DEF Handler, Inv, TypeInv, TypeOK
  <2>3. runs[k][s] # NoRun /\ runs[k][s].status = "running"
    BY <1>1, <2>1, <2>2 DEF ServedInv, RunnerOwns, OwnsRun, RunOf
  <2>4. ASSUME NEW v \in Workers, Records(v, k, s) PROVE FALSE
    <3>1. SameRun(cur[v], cur[w]) /\ Executing(v) /\ Executing(w)
      BY <2>1, <2>2, <2>4 DEF Records, Current, SameRun, Executing
    <3>2. v = w
      BY <3>1 DEF Inv, LeaseInv, OneWorkerPerRun
    <3>. QED BY <2>2, <2>4, <3>2 DEF Records
  <2>5. served[k][s] = 0
    BY <1>3, <2>3, <2>4
  <2>6. Records(w, k, s)'
    BY <2>1, <2>2 DEF Records, Current
  <2>. QED BY <2>1, <2>5, <2>6
<1>. QED BY <1>4, <1>5

\* As long as no worker outlives its lease, dies or meets a failing statement
\* and no schedule is saved back to a due instant, a handler succeeds at most
\* once for an instant of a row ("Multi-worker tidak mengeksekusi run yang
\* sama dua kali", guide.md:388).
THEOREM HandledOnce ==
  ASSUME Grace = 0
  PROVE  Spec => []ServedOnce
<1>1. CASE Timely
  <2>1. Init => Inv /\ OpensUnfinished /\ LedgerInv /\ ServedInv
    BY TypeInit, EarnedInit, LeaseInit
       DEF Inv, Init, OpensUnfinished, LedgerInv, LastIsPast, Unrecorded,
           MayWriteRun, HolderOwnsRun, SkipsFinished, RunsOfRow, LedgerAgrees, Exists,
           ServedInv, RunnerOwns, Accounted
  <2>2. Inv /\ OpensUnfinished /\ LedgerInv /\ ServedInv /\ [Next]_vars
          => (Inv /\ OpensUnfinished /\ LedgerInv /\ ServedInv)'
    BY <1>1, InvStep, OpensStep, LedgerStep, RunnerOwnsStep, AccountedStep
       DEF ServedInv
  <2>3. ServedInv => ServedOnce
    <3> SUFFICES ASSUME ServedInv, Undisturbed, NEW k \in Keys, NEW s \in Instants
                 PROVE  served[k][s] <= 1
      BY DEF ServedOnce
    <3>1. served[k][s] = 0 \/ served[k][s] = 1
      BY DEF ServedInv, Accounted
    <3>. QED BY <3>1
  <2>. QED BY <2>1, <2>2, <2>3, PTL DEF Spec
<1>2. CASE ~ Timely
  <2>1. ServedOnce
    BY <1>2 DEF ServedOnce, Undisturbed
  <2>. QED BY <2>1, PTL
<1>. QED BY <1>1, <1>2

-----------------------------------------------------------------------------
(* A worker advances a task from the row its tick read long ago; as long   *)
(* as the row names the same instant its schedule is still the one read.   *)

SameSchedule ==
  /\ \A w \in Workers :
       Executing(w) /\ Current(cur[w]) /\ task[cur[w].key].next = cur[w].next
         => task[cur[w].key].schedule = cur[w].schedule
  /\ \A w \in Workers : \A c \in batch[w] :
       Current(c) /\ task[c.key].next = c.next
         => task[c.key].schedule = c.schedule

ReadInv == TypeInv /\ WorkIsDue /\ SameSchedule

\* What a worker is to do it has had before, or it has just read a due row.
LEMMA BatchMoves ==
  ASSUME TypeInv, [Next]_vars, NEW w \in Workers, NEW c \in batch'[w]
  PROVE  \/ c \in batch[w]
         \/ UNCHANGED task /\ \E k \in Keys : Due(k) /\ c = Snapshot(k)
<1>1. ASSUME NEW v \in Workers, ReadDue(v)
      PROVE  \/ c \in batch[w]
             \/ UNCHANGED task /\ \E k \in Keys : Due(k) /\ c = Snapshot(k)
  <2>1. PICK read \in SUBSET {k \in Keys : Due(k)} :
          batch' = [batch EXCEPT ![v] = {Snapshot(k) : k \in read}]
    BY <1>1 DEF ReadDue
  <2>2. UNCHANGED task
    BY <1>1 DEF ReadDue
  <2>. QED BY <2>1, <2>2 DEF TypeInv, TypeOK
<1>2. ASSUME NEW v \in Workers, Claim(v) \/ Crash(v)
      PROVE  c \in batch[w]
  BY <1>2 DEF Claim, Crash, TypeInv, TypeOK
<1>3. CASE UNCHANGED batch
  BY <1>3
<1>. QED BY <1>1, <1>2, <1>3
         DEF Next, Step, vars, Upsert, Delete, FindRun, SkipCompleted, OpenRun,
             Handler, Close, EndTick, StatementThrows, Heartbeat, Tick

\* The instant an execution advances its task to is still to come.
LEMMA AdvancedIsAhead ==
  ASSUME TypeInv, NEW w \in Workers, NEW k \in Keys, AdvancesBy(w, k)
  PROVE  task'[k].next = NoTime \/ task'[k].next > now
<1>1. cur[w] \in Stale
  BY DEF AdvancesBy, Executing, TypeInv, HasRow
<1>2. cur[w].schedule \in SUBSET Instants
  BY <1>1, SchedulerAssumption DEF Stale
<1>3. cur[w].next \in Nat /\ now \in Nat
  BY <1>1, SchedulerAssumption DEF TypeInv, TypeOK, Stale, Instants
<1>4. Latest(cur[w].next, now) \in Int /\ Latest(cur[w].next, now) >= now
  BY <1>3 DEF Latest
<1>5. task'[k].next = NoTime \/ task'[k].next > Latest(cur[w].next, now)
  BY <1>2, <1>4, NextRunProperty DEF AdvancesBy, RowAdvanced, NextAfterExecution
<1>6. task'[k].next = NextAfterExecution(cur[w].schedule, cur[w].next)
  BY DEF AdvancesBy, RowAdvanced
<1>7. task'[k].next \in Instants \cup {NoTime}
  BY <1>1, <1>6, NextAfterExecutionType DEF TypeInv, Stale
<1>. QED BY <1>3, <1>4, <1>5, <1>7 DEF Instants, NoTime

\* A row names an instant that has come only if it named it before.
LEMMA DueStays ==
  ASSUME ReadInv, Grace = 0, [Next]_vars, NEW c \in Stale, c.next <= now,
         task'[c.key] # NoTask, task'[c.key].id = c.id, task'[c.key].next = c.next
  PROVE  Current(c) /\ task[c.key].next = c.next
         /\ task'[c.key].schedule = task[c.key].schedule
<1> DEFINE k == c.key
<1>1. k \in Keys /\ task'[k] # NoTask /\ task'[k].id = c.id
  BY DEF Stale
<1>2. now \in Nat /\ c.next \in Nat \ {0}
  BY SchedulerAssumption DEF ReadInv, TypeInv, TypeOK, Stale, Instants
<1>3. ~ RowSaved(k)
  BY <1>2 DEF RowSaved
<1>4. ASSUME NEW w \in Workers, AdvancesBy(w, k) PROVE FALSE
  BY <1>1, <1>2, <1>4, AdvancedIsAhead DEF ReadInv, NoTime
<1>5. RowStays(k)
  BY <1>1, <1>3, <1>4, RowWrites DEF ReadInv
<1>. QED BY <1>1, <1>5 DEF RowStays, Current

\* Whoever executes did so before this step, or has just claimed its row.
LEMMA WorkerComes ==
  ASSUME TypeInv, [Next]_vars, NEW w \in Workers, Executing(w)'
  PROVE  (Executing(w) /\ cur'[w] = cur[w]) \/ Claims(w)
<1>1. StandsStill(w) \/ Claims(w) \/ Finds(w) \/ Runs(w) \/ HandlerReturns(w)
  BY WorkerMoves
<1>. QED BY <1>1 DEF StandsStill, Finds, Runs, HandlerReturns, Executing

LEMMA WorkIsDueStep ==
  ASSUME TypeInv, WorkIsDue, [Next]_vars
  PROVE  WorkIsDue'
<1>1. TypeInv'
  BY TypeStep
<1>2. now' >= now /\ now \in Nat /\ now' \in Nat
  BY ClockRuns
<1>3. \A w \in Workers : Executing(w) => cur[w] \in Stale /\ cur[w].next <= now
  BY DEF WorkIsDue, TypeInv, HasRow
<1>4. \A w \in Workers : \A c \in batch[w] : c \in Stale /\ c.next <= now
  BY DEF WorkIsDue, TypeInv, TypeOK
<1>5. \A c \in Stale : c.next \in Nat
  BY SchedulerAssumption DEF Stale, Instants
<1>6. ASSUME NEW w \in Workers, Executing(w)' PROVE cur'[w].next <= now'
  <2>1. cur'[w] \in Stale /\ cur'[w].next <= now
    BY <1>3, <1>4, <1>6, WorkerComes DEF Claims
  <2>. QED BY <1>2, <1>5, <2>1
<1>7. ASSUME NEW w \in Workers, NEW c \in batch'[w] PROVE c.next <= now'
  <2>1. c \in Stale
    BY <1>1 DEF TypeInv, TypeOK
  <2>2. c \in batch[w] \/ \E k \in Keys : Due(k) /\ c = Snapshot(k)
    BY BatchMoves
  <2>3. c.next <= now
    BY <1>4, <2>2 DEF Due, Snapshot
  <2>. QED BY <1>2, <1>5, <2>1, <2>3
<1>. QED BY <1>6, <1>7 DEF WorkIsDue

LEMMA ReadStep == Grace = 0 /\ ReadInv /\ [Next]_vars => ReadInv'
<1> SUFFICES ASSUME Grace = 0, ReadInv, [Next]_vars PROVE ReadInv'
  OBVIOUS
<1>1. TypeInv'
  BY TypeStep DEF ReadInv
<1>3. \A w \in Workers : Executing(w)' =>
        \/ Executing(w) /\ cur'[w] = cur[w]
        \/ cur'[w] \in batch[w] /\ Claimable(cur'[w]) /\ Claim(w)
  BY WorkerComes DEF ReadInv, Claims
<1>4. \A w \in Workers : Executing(w) => cur[w] \in Stale /\ cur[w].next <= now
  BY DEF ReadInv, WorkIsDue, TypeInv, HasRow
<1>5. \A w \in Workers : \A c \in batch[w] : c \in Stale /\ c.next <= now
  BY DEF ReadInv, WorkIsDue, TypeInv, TypeOK
<1>7. WorkIsDue'
  BY WorkIsDueStep DEF ReadInv
<1>8. SameSchedule'
  <2>1. ASSUME NEW w \in Workers, Executing(w)', Current(cur[w])',
               task'[cur'[w].key].next = cur'[w].next
        PROVE  task'[cur'[w].key].schedule = cur'[w].schedule
    <3> DEFINE c == cur'[w]
    <3>1. c \in Stale /\ c.next <= now
      BY <1>3, <1>4, <1>5, <2>1
    <3>2. Current(c) /\ task[c.key].next = c.next
          /\ task'[c.key].schedule = task[c.key].schedule
      <4>1. task'[c.key] # NoTask /\ task'[c.key].id = c.id
        BY <2>1 DEF Current
      <4> HIDE DEF c
      <4>. QED BY <2>1, <3>1, <4>1, DueStays DEF c
    <3>3. c.schedule = task[c.key].schedule
      BY <1>3, <2>1, <3>2 DEF ReadInv, SameSchedule
    <3>. QED BY <3>2, <3>3
  <2>2. ASSUME NEW w \in Workers, NEW c \in batch'[w], Current(c)',
               task'[c.key].next = c.next
        PROVE  task'[c.key].schedule = c.schedule
    <3>1. CASE c \in batch[w]
      BY <1>5, <2>2, <3>1, DueStays DEF ReadInv, SameSchedule, Current
    <3>2. CASE UNCHANGED task /\ \E k \in Keys : Due(k) /\ c = Snapshot(k)
      BY <3>2 DEF Snapshot
    <3>. QED BY <3>1, <3>2, BatchMoves DEF ReadInv
  <2>. QED BY <2>1, <2>2 DEF SameSchedule
<1>. QED BY <1>1, <1>7, <1>8 DEF ReadInv

LEMMA ReadInit == Init => ReadInv
BY TypeInit DEF Init, ReadInv, WorkIsDue, SameSchedule, Executing

\* A worker that advances a task skips no future instant of the schedule the
\* row holds, although it computes the next one from the row its tick read
\* (computeNextRunAfterExecution, src/src/scheduler/index.ts): no matter how
\* long it pauses, what crashes and what throws.
THEOREM NoInstantIsLost ==
  ASSUME Grace = 0
  PROVE  Spec => NoInstantLost
<1> DEFINE Kept == \A k \in Keys :
                     edits' = edits /\ Exists(k) /\ task'[k].next # task[k].next =>
                       \A t \in task[k].schedule :
                         t > now /\ t > task[k].next =>
                           task'[k].enabled /\ task'[k].next <= t
<1>1. Init => ReadInv
  BY ReadInit
<1>2. ReadInv /\ [Next]_vars => Kept
  <2> SUFFICES ASSUME ReadInv, [Next]_vars, NEW k \in Keys,
                      edits' = edits, Exists(k), task'[k].next # task[k].next,
                      NEW t \in task[k].schedule, t > now, t > task[k].next
               PROVE  task'[k].enabled /\ task'[k].next <= t
    OBVIOUS
  <2>1. edits \in Nat
    BY SchedulerAssumption DEF ReadInv, TypeInv, TypeOK
  <2>2. task[k] # NoTask /\ task'[k] # NoTask
    BY <2>1, RowRemains DEF ReadInv, Exists, Delete
  <2>3. PICK w \in Workers : AdvancesBy(w, k)
    BY <2>1, <2>2, RowWrites DEF ReadInv, RowStays, RowSaved
  <2>4. cur[w] \in Stale /\ Executing(w)
    BY <2>3 DEF AdvancesBy, Executing, ReadInv, TypeInv, HasRow
  <2>5. /\ Current(cur[w]) /\ cur[w].key = k /\ task[k].next = cur[w].next
        /\ task'[k].next = NextAfterExecution(cur[w].schedule, cur[w].next)
        /\ task'[k].enabled = (task'[k].next # NoTime)
    BY <2>3 DEF AdvancesBy, RowAdvanced, Holds
  <2>6. cur[w].schedule = task[k].schedule
    BY <2>4, <2>5 DEF ReadInv, SameSchedule
  <2>7. cur[w].schedule \in SUBSET Instants
    BY <2>4, SchedulerAssumption DEF Stale
  <2>8. now \in Nat /\ cur[w].next \in Nat /\ t \in Nat
    BY <2>4, <2>6, <2>7, SchedulerAssumption
       DEF ReadInv, TypeInv, TypeOK, Stale, Instants
  <2>9. Latest(cur[w].next, now) \in Int /\ t > Latest(cur[w].next, now)
    BY <2>5, <2>8 DEF Latest
  <2>10. task'[k].next = NextRun(cur[w].schedule, Latest(cur[w].next, now))
    BY <2>5 DEF NextAfterExecution
  <2>11. t \in cur[w].schedule
    BY <2>6
  <2>12. task'[k].next # NoTime /\ task'[k].next <= t
    BY <2>7, <2>9, <2>10, <2>11, NextRunProperty
  <2>. QED BY <2>5, <2>12
<1>3. ReadInv /\ [Next]_vars => [Kept]_vars
  BY <1>2
<1>4. ASSUME Grace = 0 PROVE ReadInv /\ [Next]_vars => ReadInv'
  BY <1>4, ReadStep
<1>. QED BY <1>1, <1>3, <1>4, PTL DEF Spec, NoInstantLost

-----------------------------------------------------------------------------
(* Runs are not forgotten: the last instant of a row has one, whoever      *)
(* pauses, dies or throws.                                                 *)

HasRun ==
  /\ \A k \in Keys :
       task[k] # NoTask /\ task[k].last # NoTime => runs[k][task[k].last] # NoRun
  /\ \A w \in Workers :
       pc[w] \in {"skipping", "running", "closing"} /\ Current(cur[w])
         => RunOf(w) # NoRun

BaseInv == TypeInv /\ EarnedInv /\ HasRun

\* Only a deletion of its task removes a run.
LEMMA RunRemains ==
  ASSUME TypeInv, [Next]_vars, NEW k \in Keys, NEW s \in Instants,
         runs[k][s] # NoRun, ~ Delete(k)
  PROVE  runs'[k][s] # NoRun
<1>1. CASE runs'[k][s] # runs[k][s]
  <2>1. PICK w \in Workers :
          /\ cur[w].key = k /\ cur[w].next = s /\ Current(cur[w])
          /\ Opens(w, k, s) \/ Closes(w, k, s)
    BY <1>1, RunWrites
  <2>2. CASE Opens(w, k, s)
    <3>1. cur[w] \in Stale
      BY <2>2 DEF Opens, Executing, TypeInv, HasRow
    <3>2. [task |-> cur[w].id, status |-> "running", worker |-> w] \in RunRow
      BY <3>1 DEF Stale, RunRow, Statuses
    <3>. QED BY <2>2, <3>2, NullAssumption DEF Opens
  <2>3. CASE Closes(w, k, s)
    <3>1. runs[k][s] \in RunRow /\ verdict[w] \in Statuses
      BY <2>3 DEF Closes, TypeInv, TypeOK, HasVerdict, Statuses
    <3>2. [runs[k][s] EXCEPT !.status = verdict[w]] \in RunRow
      BY <3>1 DEF RunRow
    <3>. QED BY <2>3, <3>2, NullAssumption DEF Closes
  <2>. QED BY <2>1, <2>2, <2>3
<1>. QED BY <1>1

LEMMA HasRunStep == BaseInv /\ [Next]_vars => BaseInv'
<1> SUFFICES ASSUME BaseInv, [Next]_vars PROVE HasRun'
  BY TypeStep, EarnedStep DEF BaseInv
<1>1. ASSUME NEW k \in Keys, task'[k] # NoTask, task'[k].last # NoTime
      PROVE  runs'[k][task'[k].last] # NoRun
  <2>1. task'[k].last \in Instants
    <3>1. task'[k] \in TaskRow
      BY <1>1, TypeStep DEF BaseInv, TypeInv, TypeOK
    <3>. QED BY <1>1, <3>1 DEF TaskRow
  <2>2. ~ Delete(k)
    BY <1>1 DEF Delete, BaseInv, TypeInv, TypeOK
  <2>3. CASE task[k] # NoTask /\ task[k].last = task'[k].last
    BY <1>1, <2>1, <2>2, <2>3, RunRemains DEF BaseInv, HasRun
  <2>4. ASSUME NEW w \in Workers, AdvancesBy(w, k)
        PROVE  runs'[k][task'[k].last] # NoRun
    <3>1. /\ pc[w] \in {"skipping", "closing"} /\ Current(cur[w])
          /\ cur[w].key = k /\ cur[w].next = task'[k].last
      BY <2>4 DEF AdvancesBy, RowAdvanced, Holds
    <3>2. runs[k][task'[k].last] # NoRun
      BY <3>1 DEF BaseInv, HasRun, RunOf
    <3>. QED BY <2>1, <2>2, <3>2, RunRemains DEF BaseInv
  <2>. QED BY <1>1, <2>3, <2>4, RowWrites DEF BaseInv, RowStays, RowSaved
<1>2. ASSUME NEW w \in Workers, pc'[w] \in {"skipping", "running", "closing"},
             Current(cur[w])'
      PROVE  (RunOf(w) # NoRun)'
  <2>1. StandsStill(w) \/ Claims(w) \/ Finds(w) \/ Runs(w) \/ HandlerReturns(w)
    BY <1>2, WorkerMoves DEF BaseInv, Executing
  <2>2. CASE Claims(w)
    BY <1>2, <2>2 DEF Claims
  <2>3. CASE Finds(w)
    BY <1>2, <2>3 DEF Finds, AlreadyCompleted, RunOf, Current
  <2>4. CASE Runs(w)
    BY <2>4, RunsOwns DEF BaseInv, OwnsRun
  <2>5. CASE HandlerReturns(w)
    BY <1>2, <2>5 DEF HandlerReturns, BaseInv, HasRun, RunOf, Current
  <2>6. CASE StandsStill(w)
    <3>1. cur'[w] = cur[w] /\ pc'[w] = pc[w] /\ Executing(w)
      BY <1>2, <2>6 DEF StandsStill, Executing
    <3>2. /\ Current(cur[w]) /\ ~ Delete(cur[w].key)
          /\ cur[w].key \in Keys /\ cur[w].next \in Instants
      BY <1>2, <3>1, CurrentKept DEF BaseInv
    <3>3. runs[cur[w].key][cur[w].next] # NoRun
      BY <1>2, <3>1, <3>2 DEF BaseInv, HasRun, RunOf
    <3>4. runs'[cur[w].key][cur[w].next] # NoRun
      BY <3>2, <3>3, RunRemains DEF BaseInv
    <3>. QED BY <1>2, <3>1, <3>4 DEF RunOf, Current
  <2>. QED BY <2>1, <2>2, <2>3, <2>4, <2>5, <2>6
<1>. QED BY <1>1, <1>2 DEF HasRun

LEMMA HasRunInit == Init => BaseInv
BY TypeInit, EarnedInit DEF Init, BaseInv, HasRun

-----------------------------------------------------------------------------
(* One worker.  With a single process and as long as no statement throws,  *)
(* instants are executed in order, whatever is saved, deleted or due at    *)
(* once and however long the worker pauses: what a tick has read and not   *)
(* yet executed is in its batch, oldest first, and everything else that is *)
(* due comes later.                                                        *)

\* The worker executes the instant the row of k names and holds its lease.
InHand(w, k) == Executing(w) /\ Holds(w) /\ cur[w].key = k
Leased(w) ==
  \A k \in Keys : Exists(k) /\ task[k].ttl > 0 => pc[w] = "dead" \/ InHand(w, k)

\* Whatever has a next instant is enabled.
EnabledRows == \A k \in Keys : Exists(k) /\ task[k].next # NoTime => task[k].enabled

\* No row names an instant before t.
Ahead(t) == \A k \in Keys : Exists(k) /\ task[k].next # NoTime => t <= task[k].next

\* A row that is due earlier than one in the batch is in the batch or in hand.
Waits(w, k) ==
  \E d \in batch[w] : d.key = k /\ d.id = task[k].id /\ d.next = task[k].next
Queued(w) ==
  \A c \in batch[w], k \in Keys :
    Exists(k) /\ task[k].next # NoTime /\ task[k].next < c.next
      => Waits(w, k) \/ InHand(w, k)

\* What is executed is the oldest, and no run is younger.
Oldest(w) == Executing(w) => Ahead(cur[w].next)
RunsInOrder(w) ==
  \A k \in Keys, s \in Instants : runs[k][s] # NoRun =>
    /\ s <= now /\ Ahead(s)
    /\ Executing(w) => s <= cur[w].next

\* A worker that knows its row knows its run.
KnowsRun(w) ==
  Executing(w) /\ Current(cur[w]) =>
    /\ pc[w] \in {"running", "closing"} => OwnsRun(w)
    /\ pc[w] = "skipping" => AlreadyCompleted(w)
    /\ pc[w] = "opening" => ~ AlreadyCompleted(w)

\* What a task row says is completed its run says too.
Recorded ==
  \A k \in Keys : Exists(k) /\ task[k].lastStatus = "completed" =>
    LET run == runs[k][task[k].last] IN run # NoRun /\ run.status = "completed"

\* A row that was created under a running worker has not been executed.
FreshRow(w) ==
  Executing(w) /\ Exists(cur[w].key) /\ ~ Current(cur[w])
    => task[cur[w].key].last = NoTime

Line(w) == /\ Leased(w) /\ EnabledRows /\ Queued(w) /\ Oldest(w)
           /\ RunsInOrder(w) /\ KnowsRun(w) /\ Recorded /\ FreshRow(w)
OneInv(w) == /\ TypeInv /\ EarnedInv /\ RunsOfRow /\ WorkIsDue
             /\ faults = 0 => Line(w)

LEMMA NoThrow ==
  ASSUME TypeInv, [Next]_vars, faults' = 0
  PROVE  faults = 0 /\ \A v \in Workers : ~ StatementThrows(v)
<1>1. faults \in Nat
  BY SchedulerAssumption DEF TypeInv, TypeOK
<1>2. ASSUME NEW v \in Workers, StatementThrows(v) PROVE FALSE
  BY <1>1, <1>2 DEF StatementThrows
<1>3. faults' = faults
  BY <1>2 DEF Next, Step, vars, Upsert, Delete, ReadDue, Claim, FindRun, SkipCompleted,
              OpenRun, Handler, Close, EndTick, Crash, Heartbeat, Tick
<1>. QED BY <1>2, <1>3

\* No step names an instant that has passed.
LEMMA AheadStep ==
  ASSUME TypeInv, [Next]_vars, NEW t \in Nat, t <= now, Ahead(t)
  PROVE  Ahead(t)'
<1> SUFFICES ASSUME NEW k \in Keys, task'[k] # NoTask, task'[k].next # NoTime
             PROVE  t <= task'[k].next
  BY DEF Ahead, Exists
<1>1. now \in Nat /\ Grace \in {0, 1} /\ task'[k].next \in Nat
  <2>1. task'[k] \in TaskRow
    BY TypeStep DEF TypeInv, TypeOK
  <2>2. task'[k].next \in Instants \cup {NoTime}
    BY <2>1 DEF TaskRow
  <2>. QED BY <2>2, SchedulerAssumption DEF TypeInv, TypeOK, Instants, NoTime
<1>2. CASE RowStays(k)
  BY <1>2 DEF RowStays, Ahead, Exists
<1>3. CASE RowSaved(k)
  BY <1>1, <1>3 DEF RowSaved
<1>4. ASSUME NEW v \in Workers, AdvancesBy(v, k) PROVE t <= task'[k].next
  BY <1>1, <1>4, AdvancedIsAhead
<1>. QED BY <1>2, <1>3, <1>4, RowWrites

\* A row is enabled as long as it has a next instant.
LEMMA EnabledRowsStep ==
  ASSUME TypeInv, EnabledRows, [Next]_vars
  PROVE  EnabledRows'
<1> SUFFICES ASSUME NEW k \in Keys, task'[k] # NoTask, task'[k].next # NoTime
             PROVE  task'[k].enabled
  BY DEF EnabledRows, Exists
<1>0. task[k] # NoTask => task[k] \in TaskRow
  BY DEF TypeInv, TypeOK
<1>1. CASE task'[k] = task[k]
  BY <1>1 DEF EnabledRows, Exists
<1>2. ASSUME NEW j \in Keys, NEW schedule \in Schedules, Upsert(j, schedule)
      PROVE  task'[k].enabled
  <2>1. CASE j # k
    BY <1>1, <1>2, <2>1 DEF Upsert, TypeInv, TypeOK
  <2>2. CASE j = k
    <3>1. task'[k].enabled = TRUE
      BY <1>0, <1>2, <2>2 DEF Upsert, TypeInv, TypeOK, Exists, TaskRow
    <3>. QED BY <3>1, Zenon
  <2>. QED BY <2>1, <2>2
<1>3. ASSUME task[k] # NoTask, task'[k].next = task[k].next,
             task'[k].enabled = task[k].enabled
      PROVE  task'[k].enabled
  <2>1. task[k].enabled
    BY <1>3 DEF EnabledRows, Exists
  <2>. QED BY <1>3, <2>1, Zenon
<1>4. ASSUME NEW w \in Workers, Claim(w) PROVE task'[k].enabled
  <2>1. PICK c \in batch[w] :
          IF Claimable(c)
          THEN task' = [task EXCEPT ![c.key].owner = w, ![c.key].ttl = Lease]
          ELSE UNCHANGED task
    BY <1>4 DEF Claim
  <2>2. c \in Stale
    BY DEF TypeInv, TypeOK
  <2>3. CASE Claimable(c) /\ c.key = k
    <3>1. task[k] # NoTask
      BY <2>3 DEF Claimable, Current
    <3>2. task'[k].next = task[k].next /\ task'[k].enabled = task[k].enabled
      BY <1>0, <2>1, <2>2, <2>3, <3>1 DEF Stale, TypeInv, TypeOK, TaskRow
    <3>. QED BY <1>3, <3>1, <3>2
  <2>4. CASE ~ (Claimable(c) /\ c.key = k)
    BY <1>1, <2>1, <2>2, <2>4 DEF Stale, TypeInv, TypeOK
  <2>. QED BY <2>3, <2>4
<1>5. ASSUME NEW w \in Workers, NEW status \in Statuses, RowAdvanced(w, k, status)
      PROVE  task'[k].enabled
  <2>1. task'[k].enabled = (task'[k].next # NoTime)
    BY <1>5 DEF RowAdvanced
  <2>. QED BY <2>1, Zenon
<1>6. ASSUME NEW w \in Workers, NEW status \in Statuses, Executing(w),
             AdvanceTask(w, status)
      PROVE  task'[k].enabled
  BY <1>1, <1>5, <1>6, AdvanceWrites
<1>7. ASSUME NEW w \in Workers, SkipCompleted(w) \/ Close(w) \/ StatementThrows(w)
      PROVE  task'[k].enabled
  <2>1. UNCHANGED task \/ (Executing(w) /\ AdvanceTask(w, "completed"))
        \/ (pc[w] = "closing" /\ Executing(w) /\ AdvanceTask(w, verdict[w]))
    BY <1>7 DEF SkipCompleted, Close, StatementThrows, CloseRun, Executing
  <2>2. pc[w] = "closing" => verdict[w] \in Statuses
    BY DEF TypeInv, TypeOK, HasVerdict, Statuses
  <2>. QED BY <1>1, <1>6, <2>1, <2>2 DEF Statuses
<1>8. ASSUME NEW w \in Workers, Heartbeat(w) PROVE task'[k].enabled
  <2>1. cur[w].key \in Keys /\ task[cur[w].key] \in TaskRow /\ task[cur[w].key] # NoTask
    BY <1>8 DEF Heartbeat, Holds, Current, Executing, Stale, TypeInv, TypeOK, HasRow
  <2>2. task' = [task EXCEPT ![cur[w].key] =
                   [task[cur[w].key] EXCEPT !.ttl = Lease]]
    BY <1>8 DEF Heartbeat
  <2>3. CASE cur[w].key = k
    BY <1>3, <2>1, <2>2, <2>3 DEF TypeInv, TypeOK, TaskRow
  <2>4. CASE cur[w].key # k
    BY <1>1, <2>2, <2>4 DEF TypeInv, TypeOK
  <2>. QED BY <2>3, <2>4
<1>9. CASE Tick
  <2>1. task'[k] = IF Exists(k) /\ task[k].ttl > 0
                   THEN [task[k] EXCEPT !.ttl = task[k].ttl - 1] ELSE task[k]
    BY <1>9 DEF Tick
  <2>2. CASE Exists(k) /\ task[k].ttl > 0
    BY <1>0, <1>3, <2>1, <2>2 DEF Exists, TaskRow
  <2>. QED BY <1>1, <2>1, <2>2
<1>10. ASSUME NEW j \in Keys, Delete(j) PROVE task'[k].enabled
  BY <1>1, <1>10 DEF Delete, TypeInv, TypeOK
<1>. QED BY <1>1, <1>2, <1>4, <1>7, <1>8, <1>9, <1>10
         DEF Next, Step, vars, ReadDue, FindRun, OpenRun, Handler, EndTick, Crash

\* Leases and hands, when no row changes but the one in hand.
LEMMA HandKept ==
  ASSUME NEW w \in Workers, NEW k \in Keys, InHand(w, k), cur'[w] = cur[w],
         Executing(w)', task'[k] # NoTask, task'[k].id = task[k].id,
         task'[k].next = task[k].next, task'[k].owner = task[k].owner
  PROVE  InHand(w, k)'
BY DEF InHand, Holds, Current

LEMMA LeasedStep ==
  ASSUME NEW w \in Workers, Workers = {w}, TypeInv, Leased(w), [Next]_vars,
         faults' = 0
  PROVE  Leased(w)'
<1> SUFFICES ASSUME NEW k \in Keys, task'[k] # NoTask, task'[k].ttl > 0
             PROVE  pc'[w] = "dead" \/ InHand(w, k)'
  BY DEF Leased, Exists
<1>0. /\ task[k] # NoTask => task[k] \in TaskRow
      /\ pc \in [Workers -> Stages] /\ cur \in [Workers -> Stale \cup {NoStale}]
      /\ Executing(w) => cur[w] \in Stale
      /\ task \in [Keys -> TaskRow \cup {NoTask}]
  BY DEF TypeInv, TypeOK, HasRow
<1>1. task'[k] = task[k] => pc[w] = "dead" \/ InHand(w, k)
  BY DEF Leased, Exists
<1>2. ASSUME task'[k] = task[k], cur'[w] = cur[w],
             pc'[w] = pc[w] \/ (pc[w] # "dead" /\ Executing(w)')
      PROVE  pc'[w] = "dead" \/ InHand(w, k)'
  <2>1. CASE pc[w] = "dead"
    BY <1>2, <2>1
  <2>2. CASE InHand(w, k)
    <3>1. Executing(w)'
      BY <1>2, <2>2 DEF InHand, Executing
    <3>. QED BY <1>2, <2>2, <3>1, HandKept
  <2>. QED BY <1>1, <1>2, <2>1, <2>2
<1>3. ASSUME NEW j \in Keys, Delete(j) PROVE pc'[w] = "dead" \/ InHand(w, k)'
  <2>1. j # k
    BY <1>0, <1>3 DEF Delete
  <2>. QED BY <1>0, <1>2, <1>3, <2>1 DEF Delete
<1>4. ASSUME NEW j \in Keys, NEW schedule \in Schedules, Upsert(j, schedule)
      PROVE  pc'[w] = "dead" \/ InHand(w, k)'
  <2>1. CASE j # k
    BY <1>0, <1>2, <1>4, <2>1 DEF Upsert
  <2>2. CASE j = k
    <3>1. task'[k].ttl = 0
      BY <1>0, <1>4, <2>2 DEF Upsert, Exists, TaskRow
    <3>. QED BY <3>1
  <2>. QED BY <2>1, <2>2
<1>5. CASE ReadDue(w) \/ EndTick(w)
  BY <1>1, <1>5 DEF ReadDue, EndTick, InHand, Executing
<1>6. CASE Claim(w)
  <2>1. PICK c \in batch[w] :
          IF Claimable(c)
          THEN /\ task' = [task EXCEPT ![c.key].owner = w, ![c.key].ttl = Lease]
               /\ pc' = [pc EXCEPT ![w] = "claimed"]
               /\ cur' = [cur EXCEPT ![w] = c]
          ELSE UNCHANGED <<task, pc, cur>>
    BY <1>6 DEF Claim
  <2>2. c \in Stale /\ pc[w] = "ticking"
    BY <1>6 DEF TypeInv, TypeOK, Claim
  <2>3. CASE task'[k] = task[k]
    BY <1>1, <2>2, <2>3 DEF InHand, Executing
  <2>4. CASE Claimable(c) /\ c.key = k
    <3>1. task[k] # NoTask /\ task[k].id = c.id /\ task[k].next = c.next
      BY <2>4 DEF Claimable, Current
    <3>2. /\ task'[k].id = c.id /\ task'[k].next = c.next /\ task'[k].owner = w
          /\ pc'[w] = "claimed" /\ cur'[w] = c
      BY <1>0, <2>1, <2>2, <2>4, <3>1 DEF TaskRow
    <3>. QED BY <2>4, <3>2 DEF InHand, Executing, Holds, Current
  <2>. QED BY <1>0, <2>1, <2>2, <2>3, <2>4 DEF Stale
<1>7. CASE FindRun(w) \/ Handler(w)
  <2>1. task' = task /\ cur' = cur /\ pc[w] \in {"claimed", "running"}
        /\ pc'[w] \in {"skipping", "opening", "closing"}
    BY <1>0, <1>7 DEF FindRun, Handler
  <2>. QED BY <1>2, <2>1 DEF Executing
<1>8. CASE OpenRun(w)
  <2>1. task' = task /\ pc[w] = "opening"
    BY <1>8 DEF OpenRun
  <2>2. CASE Current(cur[w])
    <3>1. cur' = cur /\ pc'[w] = "running"
      BY <1>0, <1>8, <2>2 DEF OpenRun
    <3>. QED BY <1>2, <2>1, <3>1 DEF Executing
  <2>3. CASE ~ Current(cur[w])
    BY <1>1, <2>1, <2>3 DEF InHand, Holds
  <2>. QED BY <2>2, <2>3
<1>9. CASE SkipCompleted(w) \/ Close(w)
  <2>1. PICK status \in Statuses : AdvanceTask(w, status)
    BY <1>9 DEF SkipCompleted, Close, CloseRun, TypeInv, TypeOK, HasVerdict, Statuses
  <2>2. pc[w] # "dead" /\ Executing(w)
    BY <1>9 DEF SkipCompleted, Close, Executing
  <2>3. CASE Holds(w) /\ cur[w].key = k
    <3>1. task'[k].ttl = 0
      BY <1>0, <2>1, <2>2, <2>3 DEF AdvanceTask, Advanced, TaskRow, Holds, Current
    <3>. QED BY <3>1
  <2>4. CASE ~ (Holds(w) /\ cur[w].key = k)
    <3>1. task'[k] = task[k]
      BY <1>0, <2>1, <2>2, <2>4 DEF AdvanceTask, Stale
    <3>. QED BY <1>1, <2>2, <2>4, <3>1 DEF InHand
  <2>. QED BY <2>3, <2>4
<1>10. CASE Heartbeat(w)
  <2>1. /\ Executing(w) /\ Holds(w) /\ UNCHANGED <<pc, cur>> /\ cur[w].key \in Keys
        /\ task' = [task EXCEPT ![cur[w].key] =
                      [task[cur[w].key] EXCEPT !.ttl = Lease]]
    BY <1>0, <1>10 DEF Heartbeat, Executing, Stale
  <2>2. CASE cur[w].key = k
    <3>1. task[k] # NoTask /\ InHand(w, k)
      BY <2>1, <2>2 DEF InHand, Holds, Current
    <3>2. /\ task'[k].id = task[k].id /\ task'[k].next = task[k].next
          /\ task'[k].owner = task[k].owner
      BY <1>0, <2>1, <2>2, <3>1 DEF TaskRow
    <3>3. Executing(w)'
      BY <2>1 DEF Executing
    <3>. QED BY <2>1, <3>1, <3>2, <3>3, HandKept
  <2>3. CASE cur[w].key # k
    BY <1>0, <1>2, <2>1, <2>3
  <2>. QED BY <2>2, <2>3
<1>11. CASE Crash(w)
  BY <1>0, <1>11 DEF Crash
<1>12. CASE Tick
  <2>1. UNCHANGED <<pc, cur>>
        /\ task'[k] = IF Exists(k) /\ task[k].ttl > 0
                      THEN [task[k] EXCEPT !.ttl = task[k].ttl - 1] ELSE task[k]
    BY <1>12 DEF Tick
  <2>2. CASE Exists(k) /\ task[k].ttl > 0
    <3>1. /\ task'[k].id = task[k].id /\ task'[k].next = task[k].next
          /\ task'[k].owner = task[k].owner /\ task[k] # NoTask
      BY <1>0, <2>1, <2>2 DEF Exists, TaskRow
    <3>2. pc[w] = "dead" \/ InHand(w, k)
      BY <2>2 DEF Leased
    <3>3. Executing(w) => Executing(w)'
      BY <2>1 DEF Executing
    <3>. QED BY <2>1, <3>1, <3>2, <3>3, HandKept DEF InHand
  <2>3. CASE ~ (Exists(k) /\ task[k].ttl > 0)
    BY <1>2, <2>1, <2>3
  <2>. QED BY <2>2, <2>3
<1>13. CASE UNCHANGED vars
  BY <1>2, <1>13 DEF vars
<1>. QED BY <1>3, <1>4, <1>5, <1>6, <1>7, <1>8, <1>9, <1>10, <1>11, <1>12, <1>13,
            NoThrow DEF Next, Step

\* How an execution goes on or ends.
LEMMA WorkerGoes ==
  ASSUME TypeInv, [Next]_vars, NEW w \in Workers, Executing(w), ~ StatementThrows(w)
  PROVE  \/ Executing(w)' /\ cur'[w] = cur[w]
         \/ SkipCompleted(w) \/ Close(w) \/ Crash(w)
         \/ OpenRun(w) /\ ~ Current(cur[w])
<1>1. ASSUME NEW v \in Workers, v # w, Step(v) \/ StatementThrows(v) \/ Crash(v)
      PROVE  UNCHANGED <<pc[w], cur[w]>>
  BY <1>1 DEF Step, ReadDue, Claim, FindRun, SkipCompleted, OpenRun, Handler, Close,
              EndTick, StatementThrows, Crash, Return, TypeInv, TypeOK
<1>2. CASE ReadDue(w) \/ EndTick(w) \/ Claim(w)
  BY <1>2 DEF ReadDue, EndTick, Claim, Executing
<1>3. CASE FindRun(w) \/ Handler(w)
  BY <1>3 DEF FindRun, Handler, Executing, TypeInv, TypeOK
<1>4. CASE OpenRun(w)
  BY <1>4 DEF OpenRun, Executing, TypeInv, TypeOK
<1>5. CASE UNCHANGED <<pc, cur>>
  BY <1>5 DEF Executing
<1>6. UNCHANGED <<pc[w], cur[w]>> => Executing(w)' /\ cur'[w] = cur[w]
  BY DEF Executing
<1>. QED BY <1>1, <1>2, <1>3, <1>4, <1>5, <1>6
         DEF Next, Step, vars, Upsert, Delete, Heartbeat, Tick

\* Whoever holds its row and returns advances it.
LEMMA HolderAdvances ==
  ASSUME TypeInv, NEW w \in Workers, Holds(w), SkipCompleted(w) \/ Close(w),
         task'[cur[w].key] # NoTask
  PROVE  AdvancesBy(w, cur[w].key)
<1> DEFINE k == cur[w].key
<1>1. Executing(w) /\ cur[w] \in Stale
  BY DEF SkipCompleted, Close, Executing, TypeInv, HasRow
<1>2. k \in Keys /\ task[k] \in TaskRow /\ task[k].owner = w
  BY <1>1 DEF Holds, Current, Stale, TypeInv, TypeOK
<1>3. ASSUME NEW status \in Statuses, AdvanceTask(w, status)
      PROVE  RowAdvanced(w, k, status)
  <2>1. task'[k] = task[k] \/ RowAdvanced(w, k, status)
    BY <1>1, <1>2, <1>3, AdvanceWrites
  <2>2. task'[k].owner = NoWorker
    BY <1>2, <1>3 DEF AdvanceTask, Advanced, TaskRow, TypeInv, TypeOK
  <2>. QED BY <1>2, <2>1, <2>2, SchedulerAssumption
<1>4. CASE SkipCompleted(w)
  BY <1>3, <1>4 DEF SkipCompleted, Statuses, AdvancesBy
<1>5. CASE Close(w)
  <2>1. verdict[w] \in Statuses /\ pc[w] = "closing" /\ CloseRun(w)
    BY <1>5 DEF Close, TypeInv, TypeOK, HasVerdict, Statuses
  <2>2. RowAdvanced(w, k, verdict[w])
    BY <1>3, <2>1 DEF CloseRun
  <2>. QED BY <1>5, <2>1, <2>2 DEF AdvancesBy
<1>. QED BY <1>4, <1>5

\* No lease is left between two executions.
LEMMA FreeWhenIdle ==
  ASSUME TypeInv, NEW w \in Workers, Leased(w), pc[w] \in {"idle", "ticking"},
         NEW k \in Keys, task[k] # NoTask
  PROVE  Expired(task[k])
<1>1. task[k].ttl \in 0 .. Lease
  BY DEF TypeInv, TypeOK, TaskRow
<1>2. ~ (task[k].ttl > 0)
  BY DEF Leased, InHand, Executing, Exists
<1>. QED BY <1>1, <1>2, SchedulerAssumption DEF Expired

LEMMA QueuedStep ==
  ASSUME NEW w \in Workers, Workers = {w}, OneInv(w), [Next]_vars, faults' = 0
  PROVE  Queued(w)'
<1>0. TypeInv /\ WorkIsDue /\ Line(w) /\ ~ StatementThrows(w)
  BY NoThrow DEF OneInv
<1> SUFFICES ASSUME NEW c \in batch'[w], NEW k \in Keys, task'[k] # NoTask,
                    task'[k].next # NoTime, task'[k].next < c.next
             PROVE  Waits(w, k)' \/ InHand(w, k)'
  BY DEF Queued, Exists
<1>1. c \in batch[w] \/ (UNCHANGED task /\ \E r \in Keys : Due(r) /\ c = Snapshot(r))
  BY <1>0, BatchMoves
<1>2. c \in Stale /\ c.next \in Nat /\ c.next <= now /\ now \in Nat
      /\ task'[k].next \in Nat /\ Grace \in {0, 1}
  <2>1. c \in Stale /\ task'[k] \in TaskRow
    BY <1>0, TypeStep DEF TypeInv, TypeOK
  <2>2. c.next <= now
    BY <1>0, <1>1 DEF WorkIsDue, Due, Snapshot
  <2>. QED BY <1>0, <2>1, <2>2, SchedulerAssumption
           DEF Stale, TaskRow, Instants, NoTime, TypeInv, TypeOK
<1>3. RowStays(k)
  <2>1. ~ RowSaved(k)
    BY <1>2 DEF RowSaved
  <2>2. \A v \in Workers : ~ AdvancesBy(v, k)
    BY <1>0, <1>2, AdvancedIsAhead
  <2>. QED BY <1>0, <2>1, <2>2, RowWrites
<1>4. /\ task[k] # NoTask /\ task[k].id = task'[k].id /\ task[k].next = task'[k].next
      /\ task[k].enabled
  BY <1>0, <1>3 DEF RowStays, Line, EnabledRows, Exists
<1>5. CASE ReadDue(w)
  <2>1. PICK read \in SUBSET {r \in Keys : Due(r)} :
          /\ \A j \in {d \in Keys : Due(d)} \ read :
               \A r \in read : task[r].next <= task[j].next
          /\ batch' = [batch EXCEPT ![w] = {Snapshot(r) : r \in read}]
    BY <1>5 DEF ReadDue
  <2>2. batch'[w] = {Snapshot(r) : r \in read}
    BY <1>0, <2>1 DEF TypeInv, TypeOK
  <2>3. Due(k)
    <3>1. Expired(task[k])
      BY <1>0, <1>4, <1>5, FreeWhenIdle DEF ReadDue, Line
    <3>. QED BY <1>2, <1>4, <3>1 DEF Due, Exists
  <2>4. PICK r \in read : c = Snapshot(r)
    BY <2>2
  <2>5. c.next = task[r].next
    BY <2>4 DEF Snapshot
  <2>6. k \in read
    BY <1>2, <1>4, <2>1, <2>3, <2>5
  <2>7. Snapshot(k) \in batch'[w]
    BY <2>2, <2>6
  <2>8. /\ Snapshot(k).key = k /\ Snapshot(k).id = task'[k].id
        /\ Snapshot(k).next = task'[k].next
    BY <1>4 DEF Snapshot
  <2>. QED BY <2>7, <2>8 DEF Waits
<1>6. CASE ~ ReadDue(w)
  <2>1. batch'[w] \subseteq batch[w]
        /\ \A d \in batch[w] : d \in batch'[w] \/ Claim(w)
    <3>1. CASE Claim(w)
      BY <1>0, <3>1 DEF Claim, TypeInv, TypeOK
    <3>2. CASE Crash(w)
      BY <1>0, <3>2 DEF Crash, TypeInv, TypeOK
    <3>3. CASE UNCHANGED batch
      BY <3>3
    <3>. QED BY <1>0, <1>6, <3>1, <3>2, <3>3
             DEF Next, Step, vars, Upsert, Delete, FindRun, SkipCompleted, OpenRun,
                 Handler, Close, EndTick, Heartbeat, Tick
  <2>2. Waits(w, k) \/ InHand(w, k)
    BY <1>0, <1>4, <2>1 DEF Line, Queued, Exists
  <2>3. ASSUME NEW d \in batch[w], d.key = k, d.id = task[k].id, d.next = task[k].next
        PROVE  Waits(w, k)' \/ InHand(w, k)'
    <3>1. CASE d \in batch'[w]
      BY <1>4, <2>3, <3>1 DEF Waits
    <3>2. CASE d \notin batch'[w]
      <4>1. Claim(w) /\ pc[w] = "ticking"
        BY <2>1, <3>2 DEF Claim
      <4>2. PICK e \in batch[w] :
              /\ batch' = [batch EXCEPT ![w] = @ \ {e}]
              /\ IF Claimable(e)
                 THEN /\ task' = [task EXCEPT ![e.key].owner = w,
                                              ![e.key].ttl = Lease]
                      /\ pc' = [pc EXCEPT ![w] = "claimed"]
                      /\ cur' = [cur EXCEPT ![w] = e]
                 ELSE UNCHANGED <<task, pc, cur>>
        BY <4>1 DEF Claim
      <4>3. d = e
        BY <1>0, <3>2, <4>2 DEF TypeInv, TypeOK
      <4>4. Claimable(d)
        <5>1. Expired(task[k])
          BY <1>0, <1>4, <4>1, FreeWhenIdle DEF Line
        <5>. QED BY <1>4, <2>3, <5>1 DEF Claimable, Current
      <4>5. pc'[w] = "claimed" /\ cur'[w] = d /\ task'[k].owner = w
        BY <1>0, <1>4, <2>3, <4>2, <4>3, <4>4 DEF TypeInv, TypeOK, TaskRow
      <4>. QED BY <1>4, <2>3, <4>5 DEF InHand, Executing, Holds, Current
    <3>. QED BY <3>1, <3>2
  <2>4. CASE InHand(w, k)
    <3>1. Executing(w) /\ Holds(w) /\ cur[w].key = k
      BY <2>4 DEF InHand
    <3>2. ~ SkipCompleted(w) /\ ~ Close(w)
      BY <1>0, <1>2, <3>1, HolderAdvances, AdvancedIsAhead
    <3>3. ~ Crash(w)
      <4>1. Crash(w) => batch'[w] = {}
        BY <1>0 DEF Crash, TypeInv, TypeOK
      <4>. QED BY <4>1
    <3>4. Executing(w)' /\ cur'[w] = cur[w]
      BY <1>0, <3>1, <3>2, <3>3, WorkerGoes DEF Holds
    <3>5. task'[k].owner = task[k].owner
      BY <1>3, <3>1 DEF RowStays, Claim, Executing
    <3>. QED BY <1>4, <2>4, <3>4, <3>5, HandKept
  <2>. QED BY <2>2, <2>3, <2>4 DEF Waits
<1>. QED BY <1>5, <1>6

\* What a worker claims is the oldest of its batch, and of everything.
LEMMA OldestStep ==
  ASSUME NEW w \in Workers, Workers = {w}, OneInv(w), [Next]_vars, faults' = 0
  PROVE  Oldest(w)'
<1>0. TypeInv /\ WorkIsDue /\ Line(w)
  BY NoThrow DEF OneInv
<1> SUFFICES ASSUME Executing(w)', NEW j \in Keys, task'[j] # NoTask,
                    task'[j].next # NoTime
             PROVE  cur'[w].next <= task'[j].next
  BY DEF Oldest, Ahead, Exists
<1>1. CASE Executing(w) /\ cur'[w] = cur[w]
  <2>1. cur[w].next \in Nat /\ cur[w].next <= now /\ Ahead(cur[w].next)
    BY <1>0, <1>1, SchedulerAssumption
       DEF Line, Oldest, WorkIsDue, TypeInv, HasRow, Stale, Instants
  <2>2. PICK t \in Nat : t = cur[w].next
    BY <2>1
  <2>3. Ahead(t)'
    BY <1>0, <2>1, <2>2, AheadStep
  <2>. QED BY <1>1, <2>2, <2>3 DEF Ahead, Exists
<1>2. CASE Claims(w)
  <2>1. PICK c \in batch[w] :
          /\ \A d \in batch[w] : Before(c, d)
          /\ IF Claimable(c)
             THEN cur' = [cur EXCEPT ![w] = c]
             ELSE UNCHANGED <<task, pc, cur>>
    BY <1>2 DEF Claims, Claim
  <2>2. pc[w] = "ticking" /\ pc'[w] = "claimed"
    BY <1>2 DEF Claims, Claim
  <2>3. cur'[w] = c
    BY <1>0, <2>1, <2>2 DEF TypeInv, TypeOK
  <2>4. c.next \in Nat /\ c.next <= now
    BY <1>0, SchedulerAssumption DEF WorkIsDue, TypeInv, TypeOK, Stale, Instants
  <2>5. Ahead(c.next)
    <3> SUFFICES ASSUME NEW k \in Keys, Exists(k), task[k].next # NoTime,
                        ~ (c.next <= task[k].next)
                 PROVE  FALSE
      BY DEF Ahead
    <3>1. task[k].next \in Nat
      BY <1>0, SchedulerAssumption
         DEF Exists, TypeInv, TypeOK, TaskRow, Instants, NoTime
    <3>2. Waits(w, k)
      BY <1>0, <2>2, <2>4, <3>1 DEF Line, Queued, InHand, Executing
    <3>3. PICK d \in batch[w] : d.next = task[k].next
      BY <3>2 DEF Waits
    <3>4. c.next <= d.next
      BY <2>1, <2>4, <3>1, <3>3 DEF Before
    <3>. QED BY <3>3, <3>4
  <2>6. Ahead(c.next)'
    BY <1>0, <2>4, <2>5, AheadStep
  <2>. QED BY <2>3, <2>6 DEF Ahead, Exists
<1>. QED BY <1>0, <1>1, <1>2, WorkerComes

LEMMA RunsInOrderStep ==
  ASSUME NEW w \in Workers, Workers = {w}, OneInv(w), [Next]_vars, faults' = 0
  PROVE  RunsInOrder(w)'
<1>0. TypeInv /\ WorkIsDue /\ Line(w)
  BY NoThrow DEF OneInv
<1> SUFFICES ASSUME NEW k \in Keys, NEW s \in Instants, runs'[k][s] # NoRun
             PROVE  /\ s <= now' /\ Ahead(s)'
                    /\ Executing(w)' => s <= cur'[w].next
  BY DEF RunsInOrder
<1>1. now \in Nat /\ now' \in Nat /\ now' >= now /\ s \in Nat
  BY <1>0, ClockRuns, SchedulerAssumption DEF Instants
<1>2. ~ Delete(k)
  BY <1>0 DEF Delete, TypeInv, TypeOK
<1>3. CASE runs[k][s] # NoRun
  <2>1. s <= now /\ Ahead(s) /\ (Executing(w) => s <= cur[w].next)
    BY <1>0, <1>3 DEF Line, RunsInOrder
  <2>2. ASSUME Claims(w) PROVE s <= cur'[w].next
    <3>1. cur'[w] \in Stale /\ Claimable(cur'[w])
      BY <1>0, <2>2 DEF Claims, TypeInv, TypeOK
    <3>2. /\ cur'[w].key \in Keys /\ Exists(cur'[w].key)
          /\ task[cur'[w].key].next = cur'[w].next /\ cur'[w].next \in Instants
      BY <3>1 DEF Claimable, Current, Exists, Stale
    <3>3. cur'[w].next # NoTime
      BY <3>2, SchedulerAssumption DEF Instants, NoTime
    <3>. QED BY <2>1, <3>2, <3>3 DEF Ahead
  <2>3. Executing(w)' => s <= cur'[w].next
    BY <1>0, <2>1, <2>2, WorkerComes
  <2>4. Ahead(s)'
    BY <1>0, <1>1, <2>1, AheadStep
  <2>. QED BY <1>1, <2>1, <2>3, <2>4
<1>4. CASE runs[k][s] = NoRun
  <2>1. /\ cur[w].key = k /\ cur[w].next = s /\ Current(cur[w])
        /\ Opens(w, k, s) \/ Closes(w, k, s)
    BY <1>0, <1>2, <1>4, RunWrites
  <2>2. OpenRun(w) /\ Executing(w)
    <3>1. ~ Closes(w, k, s)
      BY <1>4, <2>1 DEF Closes, OwnsRun, RunOf
    <3>2. ~ StatementThrows(w)
      BY NoThrow DEF OneInv
    <3>. QED BY <2>1, <3>1, <3>2 DEF Opens, Executing
  <2>3. cur'[w] = cur[w]
    BY <2>1, <2>2 DEF OpenRun
  <2>4. s <= now /\ Ahead(s)
    BY <1>0, <2>1, <2>2 DEF WorkIsDue, Line, Oldest
  <2>5. Ahead(s)'
    BY <1>0, <1>1, <2>4, AheadStep
  <2>. QED BY <1>1, <2>1, <2>3, <2>4, <2>5
<1>. QED BY <1>3, <1>4

LEMMA KnowsRunStep ==
  ASSUME NEW w \in Workers, Workers = {w}, OneInv(w), [Next]_vars, faults' = 0
  PROVE  KnowsRun(w)'
<1>0. TypeInv /\ EarnedInv /\ Line(w) /\ ~ StatementThrows(w)
  BY NoThrow DEF OneInv
<1> SUFFICES ASSUME Executing(w)', Current(cur[w])'
             PROVE  /\ pc'[w] \in {"running", "closing"} => OwnsRun(w)'
                    /\ pc'[w] = "skipping" => AlreadyCompleted(w)'
                    /\ pc'[w] = "opening" => ~ AlreadyCompleted(w)'
  BY DEF KnowsRun
<1>1. CASE Claims(w)
  BY <1>1 DEF Claims
<1>2. CASE Finds(w)
  <2>1. AlreadyCompleted(w)' <=> AlreadyCompleted(w)
    BY <1>2 DEF Finds, AlreadyCompleted, RunOf, Current
  <2>. QED BY <1>2, <2>1 DEF Finds
<1>3. CASE Runs(w)
  BY <1>0, <1>3, RunsOwns DEF Runs
<1>4. CASE HandlerReturns(w)
  <2>1. OwnsRun(w)
    BY <1>0, <1>4 DEF HandlerReturns, Line, KnowsRun, Executing, Current
  <2>. QED BY <1>4, <2>1 DEF HandlerReturns, OwnsRun, RunOf, Current
<1>5. CASE StandsStill(w)
  <2>1. pc'[w] = pc[w] /\ cur'[w] = cur[w] /\ Executing(w)
    BY <1>5 DEF StandsStill, Executing
  <2>2. /\ Current(cur[w]) /\ cur[w].key \in Keys /\ cur[w].next \in Instants
        /\ ~ Delete(cur[w].key)
    BY <1>0, <2>1, CurrentKept
  <2>3. ASSUME runs'[cur[w].key][cur[w].next] # runs[cur[w].key][cur[w].next]
        PROVE  FALSE
    <3>1. Opens(w, cur[w].key, cur[w].next) \/ Closes(w, cur[w].key, cur[w].next)
      BY <1>0, <2>2, <2>3, RunWrites
    <3>2. ~ Opens(w, cur[w].key, cur[w].next)
      BY <1>0, <2>1, <2>2 DEF Opens, OpenRun, TypeInv, TypeOK
    <3>3. ~ Closes(w, cur[w].key, cur[w].next)
      BY <1>0, <2>1 DEF Closes, Close, Return, TypeInv, TypeOK
    <3>. QED BY <3>1, <3>2, <3>3
  <2>4. RunOf(w)' = RunOf(w)
    BY <2>1, <2>2, <2>3 DEF RunOf, Current
  <2>5. /\ OwnsRun(w)' <=> OwnsRun(w)
        /\ AlreadyCompleted(w)' <=> AlreadyCompleted(w)
    BY <2>4 DEF OwnsRun, AlreadyCompleted
  <2>. QED BY <1>0, <2>1, <2>2, <2>5 DEF Line, KnowsRun
<1>. QED BY <1>0, <1>1, <1>2, <1>3, <1>4, <1>5, WorkerMoves

LEMMA RecordedStep ==
  ASSUME NEW w \in Workers, Workers = {w}, OneInv(w), [Next]_vars, faults' = 0
  PROVE  Recorded'
<1>0. TypeInv /\ EarnedInv /\ Line(w) /\ ~ StatementThrows(w)
  BY NoThrow DEF OneInv
<1> SUFFICES ASSUME NEW k \in Keys, task'[k] # NoTask,
                    task'[k].lastStatus = "completed"
             PROVE  /\ runs'[k][task'[k].last] # NoRun
                    /\ runs'[k][task'[k].last].status = "completed"
  BY DEF Recorded, Exists
<1>1. task'[k].last # NoTime /\ task'[k].last \in Instants
  <2>1. task'[k] \in TaskRow /\ EarnedInv'
    BY <1>0, TypeStep, EarnedStep DEF TypeInv, TypeOK
  <2>. QED BY <2>1 DEF TaskRow, EarnedInv, LastIsSet, Exists
<1>2. ~ Delete(k)
  BY <1>0 DEF Delete, TypeInv, TypeOK
<1>3. ASSUME task[k] # NoTask, task'[k].last = task[k].last,
             task[k].lastStatus = "completed"
      PROVE  /\ runs'[k][task'[k].last] # NoRun
             /\ runs'[k][task'[k].last].status = "completed"
  <2> DEFINE s == task[k].last
  <2>1. runs[k][s] # NoRun /\ runs[k][s].status = "completed" /\ s \in Instants
    BY <1>0, <1>1, <1>3 DEF Line, Recorded, Exists
  <2>2. ASSUME runs'[k][s] # runs[k][s] PROVE FALSE
    <3>1. /\ cur[w].key = k /\ cur[w].next = s /\ Current(cur[w])
          /\ Opens(w, k, s) \/ Closes(w, k, s)
      BY <1>0, <1>2, <2>1, <2>2, RunWrites
    <3>2. CASE Opens(w, k, s)
      <4>1. ~ AlreadyCompleted(w)
        BY <1>0, <3>1, <3>2 DEF Opens, Line, KnowsRun, Executing
      <4>. QED BY <2>1, <3>1, <4>1 DEF AlreadyCompleted, RunOf
    <3>3. CASE Closes(w, k, s)
      BY <2>1, <3>3 DEF Closes
    <3>. QED BY <3>1, <3>2, <3>3
  <2>. QED BY <1>3, <2>1, <2>2
<1>4. CASE RowStays(k)
  BY <1>3, <1>4 DEF RowStays
<1>5. CASE RowSaved(k)
  BY <1>1, <1>3, <1>5 DEF RowSaved
<1>6. CASE AdvancesBy(w, k)
  <2>1. /\ cur[w].key = k /\ task'[k].last = cur[w].next /\ Current(cur[w])
        /\ Executing(w)
    BY <1>6 DEF AdvancesBy, RowAdvanced, Holds, Executing
  <2>2. CASE pc[w] = "skipping" /\ SkipCompleted(w)
    <3>1. AlreadyCompleted(w) /\ runs' = runs
      BY <1>0, <2>1, <2>2 DEF Line, KnowsRun, SkipCompleted
    <3>. QED BY <2>1, <3>1 DEF AlreadyCompleted, RunOf
  <2>3. CASE pc[w] = "closing" /\ CloseRun(w) /\ RowAdvanced(w, k, verdict[w])
    <3>1. OwnsRun(w) /\ verdict[w] = "completed"
      BY <1>0, <2>1, <2>3 DEF Line, KnowsRun, RowAdvanced
    <3>2. runs[k][cur[w].next] \in RunRow
      BY <1>0, <1>1, <2>1, <3>1 DEF OwnsRun, RunOf, TypeInv, TypeOK
    <3>3. runs' = [runs EXCEPT ![k] =
                     [runs[k] EXCEPT ![cur[w].next] =
                       [runs[k][cur[w].next] EXCEPT !.status = "completed"]]]
      BY <2>1, <2>3, <3>1 DEF CloseRun
    <3>4. runs'[k][cur[w].next] = [runs[k][cur[w].next] EXCEPT !.status = "completed"]
      BY <1>0, <1>1, <2>1, <3>3 DEF TypeInv, TypeOK
    <3>5. [runs[k][cur[w].next] EXCEPT !.status = "completed"] \in RunRow
      BY <3>2 DEF RunRow, Statuses
    <3>6. runs'[k][cur[w].next].status = "completed"
      BY <3>2, <3>4 DEF RunRow
    <3>. QED BY <2>1, <3>4, <3>5, <3>6, NullAssumption
  <2>. QED BY <1>6, <2>2, <2>3 DEF AdvancesBy
<1>. QED BY <1>0, <1>4, <1>5, <1>6, RowWrites

LEMMA FreshRowStep ==
  ASSUME NEW w \in Workers, Workers = {w}, OneInv(w), [Next]_vars, faults' = 0
  PROVE  FreshRow(w)'
<1>0. TypeInv /\ Line(w)
  BY NoThrow DEF OneInv
<1> SUFFICES ASSUME Executing(w)', task'[cur'[w].key] # NoTask, ~ Current(cur[w])'
             PROVE  task'[cur'[w].key].last = NoTime
  BY DEF FreshRow, Exists
<1> DEFINE k == cur'[w].key
<1>1. k \in Keys /\ task'[k].id # cur'[w].id
  BY <1>0, TypeStep DEF Current, TypeInv, HasRow, Stale
<1>2. CASE Claims(w)
  BY <1>1, <1>2, <1>0, ClaimRow DEF Claims, RowStays, Claimable, Current
<1>3. CASE Executing(w) /\ cur'[w] = cur[w]
  <2>1. CASE RowStays(k)
    BY <1>0, <1>1, <1>3, <2>1 DEF RowStays, Line, FreshRow, Current, Exists
  <2>2. CASE RowSaved(k)
    BY <1>0, <1>1, <1>3, <2>2 DEF RowSaved, Line, FreshRow, Current, Exists
  <2>3. ~ AdvancesBy(w, k)
    BY <1>1, <1>3 DEF AdvancesBy, RowAdvanced, Holds, Current
  <2>. QED BY <1>0, <1>1, <2>1, <2>2, <2>3, RowWrites
<1>. QED BY <1>0, <1>2, <1>3, WorkerComes

\* What a worker is about to record it does not change its mind about, but for
\* a transaction that throws.
LEMMA VerdictStays ==
  ASSUME TypeInv, [Next]_vars, NEW w \in Workers, pc[w] = "closing", pc'[w] = "closing",
         verdict'[w] = "completed"
  PROVE  verdict[w] = "completed"
<1>1. CASE Handler(w) \/ Close(w) \/ SkipCompleted(w) \/ OpenRun(w) \/ Crash(w)
  BY <1>1 DEF Handler, Close, SkipCompleted, OpenRun, Crash, Return, TypeInv, TypeOK
<1>2. CASE StatementThrows(w)
  BY <1>2 DEF StatementThrows, Return, TypeInv, TypeOK
<1>3. ASSUME NEW v \in Workers, v # w, Step(v) \/ StatementThrows(v) \/ Crash(v)
      PROVE  verdict'[w] = verdict[w]
  BY <1>3 DEF Step, ReadDue, Claim, FindRun, SkipCompleted, OpenRun, Handler, Close,
              EndTick, StatementThrows, Crash, Return, TypeInv, TypeOK
<1>. QED BY <1>1, <1>2, <1>3
         DEF Next, Step, vars, Upsert, Delete, Heartbeat, Tick, ReadDue, Claim, FindRun,
             EndTick

LEMMA OneInvStep ==
  ASSUME NEW w \in Workers, Workers = {w}
  PROVE  OneInv(w) /\ [Next]_vars => OneInv(w)'
<1> SUFFICES ASSUME OneInv(w), [Next]_vars PROVE OneInv(w)'
  OBVIOUS
<1>1. TypeInv' /\ EarnedInv' /\ RunsOfRow' /\ WorkIsDue'
  BY TypeStep, EarnedStep, RunsOfRowStep, WorkIsDueStep DEF OneInv
<1>2. ASSUME faults' = 0 PROVE Line(w)'
  <2>1. TypeInv /\ Line(w)
    BY <1>2, NoThrow DEF OneInv
  <2>2. Leased(w)' /\ EnabledRows'
    BY <1>2, <2>1, LeasedStep, EnabledRowsStep DEF Line
  <2>3. Queued(w)' /\ Oldest(w)' /\ RunsInOrder(w)'
    BY <1>2, QueuedStep, OldestStep, RunsInOrderStep
  <2>4. KnowsRun(w)' /\ Recorded' /\ FreshRow(w)'
    BY <1>2, KnowsRunStep, RecordedStep, FreshRowStep
  <2>. QED BY <2>2, <2>3, <2>4 DEF Line
<1>. QED BY <1>1, <1>2 DEF OneInv

LEMMA OneInvInit ==
  ASSUME NEW w \in Workers
  PROVE  Init => OneInv(w)
<1> SUFFICES ASSUME Init PROVE OneInv(w)
  OBVIOUS
<1>1. TypeInv /\ EarnedInv
  BY TypeInit, EarnedInit
<1>2. /\ \A k \in Keys : task[k] = NoTask /\ ~ Exists(k)
      /\ \A k \in Keys, s \in Instants : runs[k][s] = NoRun
      /\ batch[w] = {} /\ ~ Executing(w)
  BY DEF Init, Exists, Executing
<1>3. RunsOfRow /\ WorkIsDue
  BY <1>2 DEF Init, RunsOfRow, WorkIsDue, Executing
<1>4. Line(w)
  BY <1>2 DEF Line, Leased, EnabledRows, Queued, Oldest, RunsInOrder, KnowsRun,
              Recorded, FreshRow
<1>. QED BY <1>1, <1>3, <1>4 DEF OneInv

\* While one process runs the tasks and no statement throws, instants come in
\* order: no run is opened for an instant after one that is still to be
\* executed, whatever was due at once, saved or deleted meanwhile
\* (orderBy nextRunAt and the in-memory loop, src/src/scheduler/index.ts).
THEOREM RunsComeInOrder ==
  ASSUME NEW w \in Workers, Workers = {w}
  PROVE  Spec => [](faults = 0 => RunsInOrder(w))
<1>1. OneInv(w) => (faults = 0 => RunsInOrder(w))
  BY DEF OneInv, Line
<1>. QED BY <1>1, OneInvInit, OneInvStep, PTL DEF Spec
=============================================================================
