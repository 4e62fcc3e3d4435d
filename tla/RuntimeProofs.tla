---------------------------- MODULE RuntimeProofs ----------------------------
(***************************************************************************)
(* RuntimeControl implements Scheduler, so what is proved of the scheduler *)
(* holds with the runtime handlers in place of its one-step Handler; a     *)
(* freeze leaves no bot running unless a call fails or a process dies; a   *)
(* stop wins over a start of its instant; and the later event decides.     *)
(***************************************************************************)
EXTENDS RuntimeControl, SchedulerProofs, FiniteSetTheorems

\* The last statement of an action is the Handler step of a worker, or
\* leaves the scheduler alone.
LEMMA LeaveStep ==
  ASSUME NEW x \in Actors, NEW result, Leave(x, result)
  PROVE  [Next]_vars /\ cur' = cur
<1>1. CASE x \in Workers
  <2>1. Handler(x)
    BY <1>1 DEF Leave
  <2>. QED BY <1>1, <2>1 DEF Next, Step, Handler
<1>2. CASE x \notin Workers
  BY <1>2 DEF Leave, vars
<1>. QED BY <1>1, <1>2

\* Every step of RuntimeControl is a step of the scheduler or leaves it alone.
LEMMA StepImplements == [RuntimeNext]_allvars => [Next]_vars
<1> SUFFICES ASSUME [RuntimeNext]_allvars PROVE [Next]_vars
  OBVIOUS
<1>1. CASE Schedule
  BY <1>1 DEF Schedule, Next, Step
<1>2. ASSUME NEW x \in Actors, Act(x) PROVE [Next]_vars
  BY <1>2, LeaveStep
     DEF Act, CheckFreeze, CallStart, Recheck, Revert, CallStop, GoOn
<1>3. ASSUME NEW x \in Actors, ActionThrows(x) PROVE [Next]_vars
  BY <1>3, LeaveStep DEF ActionThrows
<1>4. ASSUME NEW w \in Workers,
             FindStopTask(w) \/ FindStopRun(w) \/ EndFreeze(w)
      PROVE  [Next]_vars
  BY <1>4, LeaveStep DEF Actors, FindStopTask, FindStopRun, EndFreeze, GoOn
<1>5. ASSUME NEW w \in Workers, Freeze(w) \/ ListActive(w) \/ FreezeStop(w)
      PROVE  [Next]_vars
  BY <1>5 DEF Freeze, ListActive, FreezeStop, GoOn
<1>6. ASSUME NEW w \in Workers, WorkerDies(w) PROVE [Next]_vars
  BY <1>6 DEF WorkerDies, Next
<1>7. ASSUME NEW c \in Clients, NEW b \in Bots,
             ManualStart(c, b) \/ ManualStop(c, b)
      PROVE  [Next]_vars
  BY <1>7 DEF ManualStart, ManualStop, Manual
<1>8. ASSUME NEW c \in Clients, RequestDies(c) PROVE [Next]_vars
  BY <1>8 DEF RequestDies
<1>9. CASE CancelFreeze
  BY <1>9 DEF CancelFreeze, Next
<1>10. CASE Unfreeze
  BY <1>10 DEF Unfreeze
<1>11. CASE UNCHANGED allvars
  BY <1>11 DEF allvars
<1>. QED BY <1>1, <1>2, <1>3, <1>4, <1>5, <1>6, <1>7, <1>8, <1>9, <1>10,
            <1>11 DEF RuntimeNext

\* The scheduler with the runtime handlers (bot-manager/router.ts:4230-4400)
\* is a scheduler: the handlers use it only through their outcome.
THEOREM ImplementsScheduler == RuntimeSpec => Spec
<1>1. RuntimeInit => Init
  BY DEF RuntimeInit
<1>. QED BY <1>1, StepImplements, PTL DEF RuntimeSpec, Spec

\* So no start, stop or freeze is recorded as completed unless its handler
\* returned successfully for that instant.
THEOREM RuntimeCompletionEarned == RuntimeSpec => []CompletionIsEarned
BY ImplementsScheduler, CompletionEarned

\* Nor does any of the runtime handlers run for a deadline, a lease or a
\* schedule the scheduler would not have run it for.
THEOREM RuntimeMutualExclusion ==
  ASSUME Timely, Grace = 0
  PROVE  RuntimeSpec => []OneWorkerPerRun /\ RunsStayCompleted /\ []LedgerAgrees
BY ImplementsScheduler, MutualExclusion, CompletedRunsStay, LedgersAgree

\* A start, stop or freeze succeeds once for its instant while no worker
\* outlives its lease, dies or meets a failing statement.
THEOREM RuntimeHandledOnce ==
  ASSUME Grace = 0
  PROVE  RuntimeSpec => []ServedOnce
BY ImplementsScheduler, HandledOnce

-----------------------------------------------------------------------------
(* Type correctness: a worker whose handler is under way is "running", so   *)
(* no step of the scheduler moves it, and whoever acts on a bot has one.    *)

HasBot ==
  /\ \A c \in Clients : phase[c] # "none" => target[c] \in Bots
  /\ \A w \in Workers : phase[w] \in {"stopRun", "checking", "calling"} =>
       BotOf[cur[w].key] \in Bots
RInv == TypeInv /\ RuntimeTypeOK /\ HasBot

\* What a step must keep of RuntimeTypeOK and HasBot beside what it assigns.
PhasesKept ==
  /\ phase' \in [Actors -> Phases]
  /\ target' \in [Clients -> Bots \cup {NoBot}]
  /\ found' \in [Workers -> Ids \cup {0}]
  /\ \A w \in Workers : phase'[w] # "none" => pc'[w] = "running"
  /\ HasBot'

LEMMA LeaveType ==
  ASSUME RInv, NEW x \in Actors, NEW result, Leave(x, result)
  PROVE  PhasesKept
<1>1. phase' = [phase EXCEPT ![x] = "none"] /\ phase \in [Actors -> Phases] /\ found' = found
  BY DEF Leave, RInv, RuntimeTypeOK
<1>2. cur' = cur
  BY LeaveStep
<1>3. CASE x \in Workers
  <2>1. pc' = [pc EXCEPT ![x] = "closing"] /\ target' = target
    BY <1>3 DEF Leave, Handler
  <2>. QED BY <1>1, <1>2, <1>3, <2>1
           DEF RInv, RuntimeTypeOK, TypeInv, TypeOK, Phases, Actors, HasBot,
               PhasesKept
<1>4. CASE x \notin Workers
  <2>1. pc' = pc /\ target' = [target EXCEPT ![x] = NoBot]
    BY <1>4 DEF Leave, vars
  <2>. QED BY <1>1, <1>2, <1>4, <2>1
           DEF RInv, RuntimeTypeOK, Phases, Actors, HasBot, PhasesKept
<1>. QED BY <1>3, <1>4

LEMMA GoOnType ==
  ASSUME RInv, NEW x \in Actors, NEW next \in Phases, GoOn(x, next),
         x \in Clients => phase[x] # "none",
         x \in Workers =>
           /\ pc[x] = "running"
           /\ next \in {"stopRun", "checking", "calling"} =>
                BotOf[cur[x].key] \in Bots
  PROVE  PhasesKept
BY DEF GoOn, vars, RInv, RuntimeTypeOK, Actors, HasBot, PhasesKept

\* Scheduler steps leave the workers alone whose handler is under way.
LEMMA ScheduleFrame ==
  ASSUME RInv, Schedule
  PROVE  /\ UNCHANGED runtime
         /\ \A w \in Workers : pc[w] = "running" =>
              pc'[w] = "running" /\ cur'[w] = cur[w]
<1>1. UNCHANGED runtime
  BY DEF Schedule
<1>2. pc \in [Workers -> Stages]
      /\ cur \in [Workers -> Stale \cup {NoStale}]
  BY DEF RInv, TypeInv, TypeOK
<1>3. ASSUME NEW v \in Workers, NEW w \in Workers, pc[w] = "running",
             \/ ReadDue(v) \/ Claim(v) \/ FindRun(v) \/ SkipCompleted(v)
             \/ OpenRun(v) \/ Close(v) \/ EndTick(v) \/ Heartbeat(v)
             \/ StatementThrows(v)
      PROVE  pc'[w] = "running" /\ cur'[w] = cur[w]
  <2>1. CASE Heartbeat(v)
    BY <1>3, <2>1 DEF Heartbeat
  <2>2. CASE ReadDue(v) \/ FindRun(v) \/ EndTick(v)
    BY <1>2, <1>3, <2>2 DEF ReadDue, FindRun, EndTick
  <2>3. CASE Claim(v)
    BY <1>2, <1>3, <2>3 DEF Claim
  <2>4. CASE SkipCompleted(v) \/ Close(v)
    BY <1>2, <1>3, <2>4 DEF SkipCompleted, Close, Return
  <2>5. CASE OpenRun(v)
    BY <1>2, <1>3, <2>5 DEF OpenRun, Return
  <2>6. CASE StatementThrows(v)
    BY <1>2, <1>3, <2>6 DEF StatementThrows, Return
  <2>. QED BY <1>3, <2>1, <2>2, <2>3, <2>4, <2>5, <2>6
<1>4. ASSUME NEW k \in Keys,
             Delete(k) \/ \E schedule \in Schedules : Upsert(k, schedule)
      PROVE  UNCHANGED <<pc, cur>>
  BY <1>4 DEF Delete, Upsert
<1>5. Tick => UNCHANGED <<pc, cur>>
  BY DEF Tick
<1>. QED BY <1>1, <1>3, <1>4, <1>5 DEF Schedule

LEMMA RuntimeTypeInit == RuntimeInit => RInv
<1> SUFFICES ASSUME RuntimeInit PROVE RInv
  OBVIOUS
<1>1. TypeInv
  BY TypeInit DEF RuntimeInit
<1>2. MaxFailures \in Nat
  BY RuntimeAssumption
<1>3. \A x \in Actors : phase[x] = "none"
  BY DEF RuntimeInit
<1>4. RuntimeTypeOK
  <2>1. frozen \in BOOLEAN /\ running \subseteq Bots /\ unfreezing \in BOOLEAN
    BY Zenon DEF RuntimeInit
  <2>2. failures \in 0 .. MaxFailures
    BY <1>2 DEF RuntimeInit
  <2>3. /\ phase \in [Actors -> Phases]
        /\ target \in [Clients -> Bots \cup {NoBot}]
        /\ found \in [Workers -> Ids \cup {0}] /\ todo \in [Workers -> SUBSET Bots]
    BY DEF RuntimeInit, Phases
  <2>4. \A w \in Workers : phase[w] = "none"
    BY <1>3 DEF Actors
  <2>. QED BY <2>1, <2>2, <2>3, <2>4 DEF RuntimeTypeOK
<1>5. HasBot
  BY <1>3 DEF HasBot, Actors
<1>. QED BY <1>1, <1>4, <1>5 DEF RInv

\* A step that keeps the phases keeps RInv if it keeps the rest.
LEMMA RInvKept ==
  ASSUME TypeInv', PhasesKept, frozen' \in BOOLEAN, running' \subseteq Bots,
         todo' \in [Workers -> SUBSET Bots], unfreezing' \in BOOLEAN,
         failures' \in 0 .. MaxFailures
  PROVE  RInv'
BY DEF PhasesKept, RInv, RuntimeTypeOK

LEMMA ActType ==
  ASSUME RInv, TypeInv', NEW x \in Actors, Act(x)
  PROVE  RInv'
<1>1. /\ x \in Clients => x \notin Workers
      /\ x \in Workers /\ phase[x] # "none" => pc[x] = "running"
  BY RuntimeAssumption DEF RInv, RuntimeTypeOK
<1>2. phase[x] = "checking" \/ phase[x] = "calling" => BotAt(x) \in Bots
  BY <1>1 DEF RInv, HasBot, BotAt, Actors
<1>3. CASE CheckFreeze(x)
  <2>1. PhasesKept
    <3>1. CASE frozen
      BY <1>3, <3>1, LeaveType DEF CheckFreeze
    <3>2. CASE ~ frozen
      <4>1. GoOn(x, "calling") /\ phase[x] = "checking"
        BY <1>3, <3>2 DEF CheckFreeze
      <4>2. x \in Workers => BotOf[cur[x].key] \in Bots
        BY <4>1 DEF RInv, HasBot
      <4>. QED BY <1>1, <4>1, <4>2, GoOnType DEF Phases
    <3>. QED BY <3>1, <3>2
  <2>. QED BY <1>3, <2>1, RInvKept DEF CheckFreeze, RInv, RuntimeTypeOK
<1>4. CASE CallStart(x)
  <2>1. PhasesKept
    BY <1>1, <1>4, GoOnType DEF CallStart, Phases
  <2>. QED BY <1>2, <1>4, <2>1, RInvKept DEF CallStart, RInv, RuntimeTypeOK
<1>5. CASE Recheck(x)
  <2>1. PhasesKept
    BY <1>1, <1>5, GoOnType, LeaveType DEF Recheck, Phases
  <2>. QED BY <1>5, <2>1, RInvKept DEF Recheck, RInv, RuntimeTypeOK
<1>6. CASE Revert(x) \/ CallStop(x)
  <2>1. PhasesKept
    BY <1>6, LeaveType DEF Revert, CallStop
  <2>. QED BY <1>6, <2>1, RInvKept DEF Revert, CallStop, RInv, RuntimeTypeOK
<1>. QED BY <1>3, <1>4, <1>5, <1>6 DEF Act

LEMMA ActionThrowsType ==
  ASSUME RInv, TypeInv', NEW x \in Actors, ActionThrows(x)
  PROVE  RInv'
<1>1. PhasesKept
  BY LeaveType DEF ActionThrows
<1>2. failures' \in 0 .. MaxFailures /\ UNCHANGED <<todo, unfreezing>>
  BY RuntimeAssumption DEF ActionThrows, RInv, RuntimeTypeOK
<1>3. running' \subseteq Bots
  <2>1. phase[x] = "calling" => BotAt(x) \in Bots
    BY RuntimeAssumption DEF RInv, HasBot, BotAt, Actors
  <2>. QED BY <2>1 DEF ActionThrows, RInv, RuntimeTypeOK
<1>4. frozen' \in BOOLEAN
  <2>1. frozen' = frozen \/ frozen' = TRUE
    BY Zenon DEF ActionThrows
  <2>. QED BY <2>1, Zenon DEF RInv, RuntimeTypeOK
<1>. QED BY <1>1, <1>2, <1>3, <1>4, RInvKept DEF RInv, RuntimeTypeOK

LEMMA WorkerStepType ==
  ASSUME RInv, TypeInv', NEW w \in Workers,
         \/ FindStopTask(w) \/ FindStopRun(w) \/ Freeze(w) \/ ListActive(w)
         \/ FreezeStop(w) \/ EndFreeze(w) \/ WorkerDies(w)
  PROVE  RInv'
<1>1. /\ w \in Actors /\ w \notin Clients
      /\ phase[w] # "none" => pc[w] = "running"
  BY RuntimeAssumption DEF RInv, RuntimeTypeOK, Actors
<1>2. CASE FindStopTask(w)
  <2>1. Handles(w, "start")
    BY <1>2 DEF FindStopTask
  <2>2. BotOf[cur[w].key] \in Bots
    <3>1. cur[w] \in Stale
      BY <2>1 DEF Handles, RInv, TypeInv, HasRow, Executing
    <3>. QED BY <2>1, <3>1, RuntimeAssumption DEF Handles, Stale
  <2>3. PhasesKept
    <3>1. CASE Leave(w, "completed")
      BY <1>1, <3>1, LeaveType
    <3>2. CASE GoOn(w, "checking")
      BY <1>1, <2>1, <2>2, <3>2, GoOnType DEF Handles, Phases
    <3>3. ASSUME NEW k \in StopTasks(w), found' = [found EXCEPT ![w] = task[k].id],
                 phase' = [phase EXCEPT ![w] = "stopRun"], UNCHANGED <<vars, target>>
          PROVE  PhasesKept
      <4>1. task[k].id \in Ids
        BY DEF StopTasks, StopKeys, Exists, RInv, TypeInv, TypeOK, TaskRow
      <4>. QED BY <1>1, <2>1, <2>2, <3>3, <4>1
               DEF vars, Handles, PhasesKept, RInv, RuntimeTypeOK, HasBot, Phases
    <3>. QED BY <1>2, <3>1, <3>2, <3>3 DEF FindStopTask
  <2>. QED BY <1>2, <2>3, RInvKept DEF FindStopTask, RInv, RuntimeTypeOK
<1>3. CASE FindStopRun(w)
  <2>1. PhasesKept
    BY <1>1, <1>3, GoOnType, LeaveType DEF FindStopRun, Phases, RInv, HasBot
  <2>. QED BY <1>3, <2>1, RInvKept DEF FindStopRun, RInv, RuntimeTypeOK
<1>4. CASE Freeze(w)
  <2>1. PhasesKept
    BY <1>1, <1>4, GoOnType DEF Freeze, Handles, Phases
  <2>. QED BY <1>4, <2>1, RInvKept DEF Freeze, RInv, RuntimeTypeOK
<1>5. CASE ListActive(w)
  <2>1. PhasesKept
    BY <1>1, <1>5, GoOnType DEF ListActive, Phases
  <2>. QED BY <1>5, <2>1, RInvKept DEF ListActive, RInv, RuntimeTypeOK
<1>6. CASE FreezeStop(w)
  <2>1. PhasesKept
    BY <1>6 DEF FreezeStop, vars, PhasesKept, RInv, RuntimeTypeOK, HasBot
  <2>2. failures' \in 0 .. MaxFailures /\ running' \subseteq Bots
        /\ todo' \in [Workers -> SUBSET Bots]
    BY <1>6, RuntimeAssumption DEF FreezeStop, RInv, RuntimeTypeOK
  <2>. QED BY <1>6, <2>1, <2>2, RInvKept DEF FreezeStop, RInv, RuntimeTypeOK
<1>7. CASE EndFreeze(w)
  <2>1. PhasesKept
    BY <1>1, <1>7, LeaveType DEF EndFreeze
  <2>. QED BY <1>7, <2>1, RInvKept DEF EndFreeze, RInv, RuntimeTypeOK
<1>8. CASE WorkerDies(w)
  <2>1. /\ pc' = [pc EXCEPT ![w] = "dead"] /\ cur' = [cur EXCEPT ![w] = NoStale]
        /\ phase' = [phase EXCEPT ![w] = "none"] /\ target' = target
        /\ todo' = [todo EXCEPT ![w] = {}]
        /\ UNCHANGED <<frozen, running, unfreezing, failures, found>>
    BY <1>8 DEF WorkerDies, Crash
  <2>2. PhasesKept
    BY <1>1, <2>1
       DEF PhasesKept, RInv, RuntimeTypeOK, TypeInv, TypeOK, HasBot, Phases
  <2>. QED BY <2>1, <2>2, RInvKept DEF RInv, RuntimeTypeOK
<1>. QED BY <1>2, <1>3, <1>4, <1>5, <1>6, <1>7, <1>8

LEMMA RuntimeTypeStep == RInv /\ [RuntimeNext]_allvars => RInv'
<1> SUFFICES ASSUME RInv, [RuntimeNext]_allvars PROVE RInv'
  OBVIOUS
<1>1. TypeInv'
  BY StepImplements, TypeStep DEF RInv
<1>2. CASE Schedule
  <2>1. PhasesKept
    BY <1>2, ScheduleFrame
       DEF runtime, PhasesKept, RInv, RuntimeTypeOK, HasBot, Phases
  <2>. QED BY <1>1, <1>2, <2>1, ScheduleFrame, RInvKept
           DEF runtime, RInv, RuntimeTypeOK
<1>3. ASSUME NEW x \in Actors, Act(x) \/ ActionThrows(x) PROVE RInv'
  BY <1>1, <1>3, ActType, ActionThrowsType
<1>4. ASSUME NEW w \in Workers,
             \/ FindStopTask(w) \/ FindStopRun(w) \/ Freeze(w) \/ ListActive(w)
             \/ FreezeStop(w) \/ EndFreeze(w) \/ WorkerDies(w)
      PROVE  RInv'
  BY <1>1, <1>4, WorkerStepType
<1>5. ASSUME NEW c \in Clients, NEW b \in Bots,
             ManualStart(c, b) \/ ManualStop(c, b)
      PROVE  RInv'
  <2>1. PICK first \in {"checking", "stopping"} : Manual(c, b, first)
    BY <1>5 DEF ManualStart, ManualStop
  <2>2. c \in Actors /\ c \notin Workers
    BY RuntimeAssumption DEF Actors
  <2>3. PhasesKept
    BY <2>1, <2>2
       DEF Manual, vars, PhasesKept, RInv, RuntimeTypeOK, HasBot, Phases
  <2>. QED BY <1>1, <2>1, <2>3, RInvKept DEF Manual, RInv, RuntimeTypeOK
<1>6. ASSUME NEW c \in Clients, RequestDies(c) PROVE RInv'
  <2>1. c \in Actors /\ c \notin Workers
    BY RuntimeAssumption DEF Actors
  <2>2. PhasesKept
    BY <1>6, <2>1
       DEF RequestDies, vars, PhasesKept, RInv, RuntimeTypeOK, HasBot, Phases
  <2>3. failures' \in 0 .. MaxFailures
    BY <1>6, RuntimeAssumption DEF RequestDies, RInv, RuntimeTypeOK
  <2>. QED BY <1>1, <1>6, <2>2, <2>3, RInvKept
           DEF RequestDies, RInv, RuntimeTypeOK
<1>7. CASE CancelFreeze
  <2>1. UNCHANGED <<pc, cur, phase, target, found>>
    BY <1>7 DEF CancelFreeze, Delete, vars
  <2>2. PhasesKept
    BY <2>1 DEF PhasesKept, RInv, RuntimeTypeOK, HasBot
  <2>. QED BY <1>1, <1>7, <2>2, RInvKept DEF CancelFreeze, RInv, RuntimeTypeOK
<1>8. CASE Unfreeze \/ UNCHANGED allvars
  <2>1. PhasesKept
    BY <1>8 DEF Unfreeze, allvars, runtime, vars, PhasesKept, RInv,
                RuntimeTypeOK, HasBot
  <2>. QED BY <1>1, <1>8, <2>1, RInvKept
           DEF Unfreeze, allvars, runtime, RInv, RuntimeTypeOK
<1>. QED BY <1>2, <1>3, <1>4, <1>5, <1>6, <1>7, <1>8 DEF RuntimeNext

\* Every reachable state of the runtime control is well typed, and a handler
\* under way belongs to a worker that is running it.
THEOREM RuntimeTypeCorrect == RuntimeSpec => []RuntimeTypeOK
<1>1. RInv => RuntimeTypeOK
  BY DEF RInv
<1>. QED BY <1>1, RuntimeTypeInit, RuntimeTypeStep, PTL DEF RuntimeSpec

-----------------------------------------------------------------------------
(* A freeze stops everybody.  The invariant is FrozenBotsStop itself, given *)
(* the types: a bot keeps whoever is about to stop it until it is stopped.  *)

AllAttended == frozen => \A b \in running : Attended(b)

\* What has failed stays failed: a dead process never returns.
LEMMA DeadStays ==
  ASSUME TypeInv, [Next]_vars, NEW w \in Workers, pc[w] = "dead"
  PROVE  pc'[w] = "dead"
<1>1. pc \in [Workers -> Stages]
  BY DEF TypeInv, TypeOK
<1>2. ASSUME NEW v \in Workers, Step(v) PROVE pc'[w] = "dead"
  BY <1>1, <1>2
     DEF Step, ReadDue, Claim, FindRun, SkipCompleted, OpenRun, Handler, Close,
         EndTick, Return
<1>3. ASSUME NEW v \in Workers, Heartbeat(v) \/ StatementThrows(v) \/ Crash(v)
      PROVE  pc'[w] = "dead"
  BY <1>1, <1>3 DEF Heartbeat, StatementThrows, Crash, Return
<1>4. ASSUME NEW k \in Keys,
             Delete(k) \/ \E schedule \in Schedules : Upsert(k, schedule)
      PROVE  pc'[w] = "dead"
  BY <1>4 DEF Delete, Upsert
<1>5. CASE Tick \/ UNCHANGED vars
  BY <1>5 DEF Tick, vars
<1>. QED BY <1>2, <1>3, <1>4, <1>5 DEF Next

LEMMA SmoothBefore ==
  ASSUME RInv, [RuntimeNext]_allvars, Smooth'
  PROVE  Smooth /\ failures' = failures
<1>1. \A w \in Workers : pc[w] # "dead"
  BY StepImplements, DeadStays DEF RInv, Smooth
<1>2. failures \in Nat
  BY RuntimeAssumption DEF RInv, RuntimeTypeOK
<1>3. failures' = failures \/ failures' = failures + 1
  <2>1. CASE Schedule \/ UNCHANGED allvars
    BY <2>1 DEF Schedule, allvars, runtime
  <2>2. ASSUME NEW x \in Actors, Act(x) PROVE failures' = failures
    BY <2>2 DEF Act, CheckFreeze, CallStart, Recheck, Revert, CallStop
  <2>3. ASSUME NEW x, ActionThrows(x) \/ RequestDies(x) PROVE failures' = failures + 1
    BY <2>3 DEF ActionThrows, RequestDies
  <2>4. ASSUME NEW w \in Workers,
               \/ FindStopTask(w) \/ FindStopRun(w) \/ Freeze(w) \/ ListActive(w)
               \/ FreezeStop(w) \/ EndFreeze(w) \/ WorkerDies(w)
        PROVE  failures' = failures \/ failures' = failures + 1
    BY <2>4 DEF FindStopTask, FindStopRun, Freeze, ListActive, FreezeStop, EndFreeze,
                WorkerDies
  <2>5. ASSUME NEW c \in Clients, NEW b \in Bots, ManualStart(c, b) \/ ManualStop(c, b)
        PROVE  failures' = failures
    BY <2>5 DEF ManualStart, ManualStop, Manual
  <2>6. CASE CancelFreeze \/ Unfreeze
    BY <2>6 DEF CancelFreeze, Unfreeze
  <2>. QED BY <2>1, <2>2, <2>3, <2>4, <2>5, <2>6 DEF RuntimeNext
<1>. QED BY <1>1, <1>2, <1>3 DEF Smooth

\* An action changes the statement and the target of its own actor only.
LEMMA LeaveFrame ==
  ASSUME RInv, NEW x \in Actors, NEW result, Leave(x, result)
  PROVE  \A y \in Actors \ {x} : phase'[y] = phase[y] /\ BotAt(y)' = BotAt(y)
<1>1. cur' = cur
  BY LeaveStep
<1>2. \A c \in Clients \ {x} : target'[c] = target[c]
  BY DEF Leave, RInv, RuntimeTypeOK
<1>3. \A y \in Actors \ {x} : phase'[y] = phase[y]
  BY DEF Leave, RInv, RuntimeTypeOK
<1>. QED BY <1>1, <1>2, <1>3 DEF BotAt

LEMMA GoOnFrame ==
  ASSUME RInv, NEW x \in Actors, NEW next, GoOn(x, next)
  PROVE  /\ phase'[x] = next
         /\ \A y \in Actors \ {x} : phase'[y] = phase[y]
         /\ \A y \in Actors : BotAt(y)' = BotAt(y)
BY DEF GoOn, vars, BotAt, RInv, RuntimeTypeOK

LEMMA ScheduleFrozen ==
  ASSUME RInv, AllAttended, Schedule
  PROVE  AllAttended'
<1>1. UNCHANGED <<frozen, running, phase, target, todo>>
  BY ScheduleFrame DEF runtime
<1>2. \A x \in Actors : phase[x] # "none" => BotAt(x)' = BotAt(x)
  BY <1>1, ScheduleFrame DEF BotAt, Actors, RInv, RuntimeTypeOK
<1>. QED BY <1>1, <1>2 DEF AllAttended, Attended

LEMMA ActFrozen ==
  ASSUME RInv, AllAttended, NEW x \in Actors, Act(x)
  PROVE  AllAttended'
<1>1. UNCHANGED <<frozen, todo>>
  BY DEF Act, CheckFreeze, CallStart, Recheck, Revert, CallStop
<1>2. x \in Workers => phase[x] # "listing"
  BY DEF Act, CheckFreeze, CallStart, Recheck, Revert, CallStop, Handles
<1> SUFFICES ASSUME frozen, NEW b \in Bots, b \in running'
             PROVE  \/ \E w \in Workers : phase'[w] = "listing" \/ b \in todo'[w]
                    \/ \E y \in Actors :
                         phase'[y] \in {"rechecking", "reverting"} /\ BotAt(y)' = b
  <2>1. RuntimeTypeOK' => running' \subseteq Bots
    BY DEF RuntimeTypeOK
  <2>2. running' \subseteq running \cup {BotAt(x)}
    BY DEF Act, CheckFreeze, CallStart, Recheck, Revert, CallStop
  <2>3. phase[x] = "calling" => BotAt(x) \in Bots
    BY RuntimeAssumption DEF RInv, HasBot, BotAt, Actors
  <2>4. running' \subseteq Bots
    BY <2>2, <2>3 DEF Act, CheckFreeze, CallStart, Recheck, Revert, CallStop,
                      RInv, RuntimeTypeOK
  <2>. QED BY <1>1, <2>4 DEF AllAttended, Attended
<1>3. b \in running =>
        \/ \E w \in Workers : phase[w] = "listing" \/ b \in todo[w]
        \/ \E y \in Actors :
             phase[y] \in {"rechecking", "reverting"} /\ BotAt(y) = b
  BY DEF AllAttended, Attended
<1>4. CASE CheckFreeze(x) \/ CallStop(x)
  <2>1. /\ b \in running
        /\ phase[x] \notin {"rechecking", "reverting"}
        /\ \A y \in Actors \ {x} : phase'[y] = phase[y] /\ BotAt(y)' = BotAt(y)
    BY <1>4, LeaveFrame, GoOnFrame DEF CheckFreeze, CallStop, Handles
  <2>. QED BY <1>1, <1>2, <1>3, <2>1 DEF Actors
<1>5. CASE CallStart(x)
  <2>1. /\ phase[x] = "calling" /\ phase'[x] = "rechecking"
        /\ \A y \in Actors \ {x} : phase'[y] = phase[y]
        /\ \A y \in Actors : BotAt(y)' = BotAt(y)
        /\ running' = running \cup {BotAt(x)}
    BY <1>5, GoOnFrame DEF CallStart
  <2>. QED BY <1>1, <1>2, <1>3, <2>1 DEF Actors
<1>6. CASE Recheck(x)
  <2>1. GoOn(x, "reverting") /\ running' = running
    BY <1>6 DEF Recheck, FrozenAfterCall
  <2>. QED BY <1>1, <1>2, <1>3, <2>1, GoOnFrame DEF Actors
<1>7. CASE Revert(x)
  <2>1. /\ running' = running \ {BotAt(x)}
        /\ \A y \in Actors \ {x} : phase'[y] = phase[y] /\ BotAt(y)' = BotAt(y)
    BY <1>7, LeaveFrame DEF Revert
  <2>. QED BY <1>1, <1>2, <1>3, <2>1 DEF Actors
<1>. QED BY <1>4, <1>5, <1>6, <1>7 DEF Act

LEMMA WorkerStepFrozen ==
  ASSUME failures' = failures, RInv, AllAttended, NEW w \in Workers,
         \/ FindStopTask(w) \/ FindStopRun(w) \/ Freeze(w) \/ ListActive(w)
         \/ FreezeStop(w) \/ EndFreeze(w)
  PROVE  AllAttended'
<1>1. w \in Actors /\ Workers \subseteq Actors /\ running \subseteq Bots
  BY DEF Actors, RInv, RuntimeTypeOK
<1>2. CASE FindStopTask(w) \/ FindStopRun(w) \/ EndFreeze(w)
  <2>1. /\ UNCHANGED <<frozen, running, todo>>
        /\ phase[w] \notin {"listing", "rechecking", "reverting"}
        /\ \A y \in Actors \ {w} : phase'[y] = phase[y] /\ BotAt(y)' = BotAt(y)
    BY <1>1, <1>2, LeaveFrame, GoOnFrame
       DEF FindStopTask, FindStopRun, EndFreeze, Handles, vars, BotAt, RInv, RuntimeTypeOK
  <2>. QED BY <1>1, <2>1 DEF AllAttended, Attended
<1>3. CASE Freeze(w)
  <2>1. phase'[w] = "listing"
    BY <1>1, <1>3, GoOnFrame DEF Freeze
  <2>. QED BY <2>1 DEF AllAttended, Attended
<1>4. CASE ListActive(w)
  <2>1. todo' = [todo EXCEPT ![w] = Bots] /\ running' = running
    BY <1>4 DEF ListActive
  <2>2. todo'[w] = Bots
    BY <2>1 DEF RInv, RuntimeTypeOK
  <2>. QED BY <1>1, <2>1, <2>2 DEF AllAttended, Attended
<1>5. CASE FreezeStop(w)
  <2>. failures' # failures + 1
    BY RuntimeAssumption DEF RInv, RuntimeTypeOK
  <2>1. PICK b \in todo[w] :
          todo' = [todo EXCEPT ![w] = @ \ {b}] /\ running' = running \ {b}
    BY <1>5, Zenon DEF FreezeStop
  <2>2. UNCHANGED <<frozen, phase, target, cur>>
    BY <1>5 DEF FreezeStop, vars
  <2>3. \A v \in Workers : todo[v] \ {b} \subseteq todo'[v]
    BY <2>1 DEF RInv, RuntimeTypeOK
  <2>4. \A x \in Actors : BotAt(x)' = BotAt(x)
    BY <2>2 DEF BotAt
  <2>. QED BY <2>1, <2>2, <2>3, <2>4 DEF AllAttended, Attended
<1>. QED BY <1>2, <1>3, <1>4, <1>5

LEMMA FrozenStep ==
  ASSUME RInv, AllAttended, [RuntimeNext]_allvars, Smooth'
  PROVE  AllAttended'
<1>. failures' = failures
  BY SmoothBefore
<1>1. CASE Schedule
  BY <1>1, ScheduleFrozen
<1>2. ASSUME NEW x \in Actors, Act(x) PROVE AllAttended'
  BY <1>2, ActFrozen
<1>3. ASSUME NEW x, ActionThrows(x) \/ RequestDies(x) PROVE FALSE
  <2>1. failures' = failures + 1
    BY <1>3 DEF ActionThrows, RequestDies
  <2>2. failures \in Nat
    BY RuntimeAssumption DEF RInv, RuntimeTypeOK
  <2>. QED BY <2>1, <2>2
<1>4. ASSUME NEW w \in Workers,
             \/ FindStopTask(w) \/ FindStopRun(w) \/ Freeze(w) \/ ListActive(w)
             \/ FreezeStop(w) \/ EndFreeze(w)
      PROVE  AllAttended'
  BY <1>4, WorkerStepFrozen
<1>5. ASSUME NEW w \in Workers, WorkerDies(w) PROVE FALSE
  BY <1>5 DEF WorkerDies, Crash, Smooth, RInv, TypeInv, TypeOK
<1>6. ASSUME NEW c \in Clients, NEW b \in Bots,
             ManualStart(c, b) \/ ManualStop(c, b)
      PROVE  AllAttended'
  <2>1. PICK first \in {"checking", "stopping"} : Manual(c, b, first)
    BY <1>6 DEF ManualStart, ManualStop
  <2>2. \A y \in Actors \ {c} : phase'[y] = phase[y] /\ BotAt(y)' = BotAt(y)
    BY <2>1 DEF Manual, vars, BotAt, RInv, RuntimeTypeOK
  <2>3. c \notin Workers /\ phase[c] = "none"
        /\ UNCHANGED <<frozen, running, todo>>
    BY <2>1, RuntimeAssumption DEF Manual
  <2>. QED BY <2>2, <2>3 DEF AllAttended, Attended, Actors
<1>7. CASE CancelFreeze \/ UNCHANGED allvars
  <2>1. UNCHANGED <<frozen, running, phase, target, todo, cur>>
    BY <1>7 DEF CancelFreeze, Delete, vars, allvars, runtime
  <2>. QED BY <2>1 DEF AllAttended, Attended, BotAt
<1>8. CASE Unfreeze
  BY <1>8 DEF Unfreeze, AllAttended, Attended
<1>. QED BY <1>1, <1>2, <1>3, <1>4, <1>5, <1>6, <1>7, <1>8 DEF RuntimeNext

\* Until a call has failed or a process has died, a bot that runs under the
\* freeze has somebody who is about to stop it, however many starts, stops,
\* freezes and cancellations overlap, and whatever the scheduler's statements do
\* (executeRuntimeAction and the freeze handler, router.ts:4250-4400).
THEOREM FrozenBotsAreStopped == RuntimeSpec => []FrozenBotsStop
<1> DEFINE FInv == RInv /\ FrozenBotsStop
<1>1. RuntimeInit => FInv
  BY RuntimeTypeInit DEF RuntimeInit, FrozenBotsStop
<1>2. FInv /\ [RuntimeNext]_allvars => FInv'
  <2> SUFFICES ASSUME FInv, [RuntimeNext]_allvars PROVE FInv'
    OBVIOUS
  <2>1. RInv'
    BY RuntimeTypeStep
  <2>2. Smooth' => AllAttended'
    BY SmoothBefore, FrozenStep DEF FrozenBotsStop, AllAttended
  <2>. QED BY <2>1, <2>2 DEF FrozenBotsStop, AllAttended
<1>3. FInv => FrozenBotsStop
  OBVIOUS
<1>. QED BY <1>1, <1>2, <1>3, PTL DEF RuntimeSpec

-----------------------------------------------------------------------------
(* Stop wins.  The two statements look at the stop task one after the      *)
(* other, while other workers advance it: what the first has seen stays    *)
(* so, since an instant that has come is never written to nextRunAt again, *)
(* and a stop can then be recorded only for another instant.               *)

Starting == {"stopRun", "checking", "calling"}
StopSeen ==
  \A w \in Workers, k \in Keys :
    task[k] # NoTask /\ Kind[k] = "stop" /\ BotOf[k] = BotOf[cur[w].key] =>
      /\ phase[w] \in Starting => task[k].next # cur[w].next
      /\ phase[w] \in Starting \ {"stopRun"} \/ (phase[w] = "stopRun" /\ task[k].id # found[w])
           => task[k].last # cur[w].next
StopInv == RInv /\ ReadInv /\ BaseInv /\ StopSeen

\* How a start comes to its call.
LooksAtTask(w) == /\ phase'[w] = "stopRun" /\ ~ StopIsNext(w) /\ UNCHANGED vars
                  /\ \E k \in StopTasks(w) : found'[w] = task[k].id
FindsNoTask(w) == phase'[w] = "checking" /\ StopTasks(w) = {} /\ UNCHANGED vars
LooksAtRun(w) == /\ phase[w] = "stopRun" /\ ~ StopHasRun(w) /\ UNCHANGED vars
LooksNoMore(w) == /\ phase[w] \in Starting
                  /\ phase[w] = "stopRun" <=> phase'[w] = "stopRun"
                  /\ phase[w] = "stopRun" => found'[w] = found[w]

\* How a handler goes from statement to statement.
HandlerMoves(w) ==
  \/ phase'[w] = phase[w] /\ found'[w] = found[w]
  \/ Handles(w, "start") /\ (LooksAtTask(w) \/ FindsNoTask(w))
  \/ (LooksAtRun(w) /\ phase'[w] = "checking")
  \/ phase[w] = "checking" /\ phase'[w] = "calling"
  \/ phase[w] = "calling" /\ phase'[w] = "rechecking"
  \/ phase[w] = "rechecking" /\ phase'[w] = "reverting"
  \/ Handles(w, "freeze") /\ phase'[w] = "listing"
  \/ phase[w] = "listing" /\ phase'[w] = "freezing"

LEMMA HandlerSteps ==
  ASSUME RInv, [RuntimeNext]_allvars, NEW w \in Workers, phase'[w] # "none"
  PROVE  pc[w] = "running" /\ cur'[w] = cur[w] /\ HandlerMoves(w)
<1>1. /\ w \in Actors /\ w \notin Clients
      /\ phase[w] # "none" => pc[w] = "running"
  BY RuntimeAssumption DEF RInv, RuntimeTypeOK, Actors
<1>2. ASSUME phase'[w] = phase[w], cur'[w] = cur[w], found'[w] = found[w]
      PROVE  pc[w] = "running" /\ cur'[w] = cur[w] /\ HandlerMoves(w)
  BY <1>1, <1>2 DEF HandlerMoves
<1>3. CASE Schedule
  <2>1. UNCHANGED <<phase, found>>
    BY <1>3 DEF Schedule, runtime
  <2>. QED BY <1>1, <1>2, <1>3, <2>1, ScheduleFrame
<1>4. ASSUME NEW x \in Actors, NEW result, Leave(x, result)
      PROVE  pc[w] = "running" /\ cur'[w] = cur[w] /\ HandlerMoves(w)
  <2>1. x # w
    BY <1>4 DEF Leave, RInv, RuntimeTypeOK
  <2>2. phase'[w] = phase[w]
    BY <1>1, <1>4, <2>1, LeaveFrame
  <2>3. found' = found
    BY <1>4 DEF Leave
  <2>. QED BY <1>2, <1>4, <2>2, <2>3, LeaveStep
<1>5. ASSUME NEW x \in Actors \ {w}, NEW next, GoOn(x, next)
      PROVE  pc[w] = "running" /\ cur'[w] = cur[w] /\ HandlerMoves(w)
  BY <1>1, <1>2, <1>5, GoOnFrame DEF GoOn, vars
<1>6. ASSUME NEW next, GoOn(w, next)
      PROVE  phase'[w] = next /\ cur'[w] = cur[w] /\ UNCHANGED vars
  BY <1>1, <1>6, GoOnFrame DEF GoOn, vars
<1>7. ASSUME NEW x \in Actors, Act(x)
      PROVE  pc[w] = "running" /\ cur'[w] = cur[w] /\ HandlerMoves(w)
  <2>1. CASE x = w /\ phase[w] = "checking" /\ GoOn(w, "calling")
    BY <1>1, <1>6, <2>1 DEF HandlerMoves
  <2>2. CASE x = w /\ phase[w] = "calling" /\ GoOn(w, "rechecking")
    BY <1>1, <1>6, <2>2 DEF HandlerMoves
  <2>3. CASE x = w /\ phase[w] = "rechecking" /\ GoOn(w, "reverting")
    BY <1>1, <1>6, <2>3 DEF HandlerMoves
  <2>. QED BY <1>4, <1>5, <1>7, <2>1, <2>2, <2>3
           DEF Act, CheckFreeze, CallStart, Recheck, Revert, CallStop
<1>8. ASSUME NEW x \in Actors, ActionThrows(x)
      PROVE  pc[w] = "running" /\ cur'[w] = cur[w] /\ HandlerMoves(w)
  BY <1>4, <1>8 DEF ActionThrows
<1>9. ASSUME NEW v \in Workers, FindStopTask(v)
      PROVE  pc[w] = "running" /\ cur'[w] = cur[w] /\ HandlerMoves(w)
  <2>1. CASE v = w /\ StopTasks(w) = {} /\ GoOn(w, "checking")
    BY <1>1, <1>6, <1>9, <2>1 DEF HandlerMoves, FindsNoTask, FindStopTask, Handles
  <2>2. ASSUME ~ StopIsNext(v), NEW k \in StopTasks(v), found' = [found EXCEPT ![v] = task[k].id],
               phase' = [phase EXCEPT ![v] = "stopRun"], UNCHANGED <<vars, target>>
        PROVE  pc[w] = "running" /\ cur'[w] = cur[w] /\ HandlerMoves(w)
    <3>1. phase \in [Actors -> Phases] /\ found \in [Workers -> Ids \cup {0}] /\ UNCHANGED vars
      BY <2>2 DEF RInv, RuntimeTypeOK, vars
    <3>2. CASE v = w
      <4>1. LooksAtTask(w) /\ Handles(w, "start")
        BY <1>1, <1>9, <2>2, <3>1, <3>2 DEF LooksAtTask, FindStopTask
      <4>. QED BY <3>1, <4>1 DEF HandlerMoves, Handles, vars
    <3>3. CASE v # w
      BY <1>1, <1>2, <2>2, <3>1, <3>3 DEF vars
    <3>. QED BY <3>2, <3>3
  <2>. QED BY <1>4, <1>5, <1>9, <2>1, <2>2 DEF FindStopTask, Actors
<1>10. ASSUME NEW v \in Workers, FindStopRun(v)
       PROVE  pc[w] = "running" /\ cur'[w] = cur[w] /\ HandlerMoves(w)
  <2>1. CASE v = w /\ ~ StopHasRun(w) /\ GoOn(w, "checking")
    BY <1>1, <1>6, <1>10, <2>1 DEF HandlerMoves, LooksAtRun, FindStopRun
  <2>. QED BY <1>4, <1>5, <1>10, <2>1 DEF FindStopRun, Actors
<1>11. ASSUME NEW v \in Workers, Freeze(v) \/ ListActive(v)
       PROVE  pc[w] = "running" /\ cur'[w] = cur[w] /\ HandlerMoves(w)
  <2>1. CASE v = w
    BY <1>1, <1>6, <1>11, <2>1 DEF Freeze, ListActive, HandlerMoves, Handles
  <2>. QED BY <1>5, <1>11, <2>1 DEF Freeze, ListActive, Actors
<1>12. ASSUME NEW v \in Workers, FreezeStop(v)
       PROVE  pc[w] = "running" /\ cur'[w] = cur[w] /\ HandlerMoves(w)
  BY <1>2, <1>12 DEF FreezeStop, vars
<1>13. ASSUME NEW v \in Workers, EndFreeze(v)
       PROVE  pc[w] = "running" /\ cur'[w] = cur[w] /\ HandlerMoves(w)
  BY <1>4, <1>13 DEF EndFreeze, Actors
<1>14. ASSUME NEW v \in Workers, WorkerDies(v)
       PROVE  pc[w] = "running" /\ cur'[w] = cur[w] /\ HandlerMoves(w)
  <2>1. v # w
    BY <1>1, <1>14 DEF WorkerDies, RInv, RuntimeTypeOK
  <2>. QED BY <1>1, <1>2, <1>14, <2>1
           DEF WorkerDies, Crash, RInv, RuntimeTypeOK, TypeInv, TypeOK
<1>15. ASSUME NEW c \in Clients,
              (\E b \in Bots : ManualStart(c, b) \/ ManualStop(c, b)) \/ RequestDies(c)
       PROVE  pc[w] = "running" /\ cur'[w] = cur[w] /\ HandlerMoves(w)
  BY <1>1, <1>2, <1>15
     DEF ManualStart, ManualStop, Manual, RequestDies, vars, RInv, RuntimeTypeOK
<1>16. CASE CancelFreeze \/ Unfreeze \/ UNCHANGED allvars
  BY <1>2, <1>16 DEF CancelFreeze, Delete, Unfreeze, allvars, runtime, vars
<1>. QED BY <1>3, <1>7, <1>8, <1>9, <1>10, <1>11, <1>12, <1>13, <1>14, <1>15, <1>16
         DEF RuntimeNext

LEMMA StartMoves ==
  ASSUME RInv, [RuntimeNext]_allvars, NEW w \in Workers, phase'[w] \in Starting
  PROVE  /\ pc[w] = "running" /\ cur'[w] = cur[w]
         /\ LooksAtTask(w) \/ FindsNoTask(w) \/ LooksNoMore(w)
            \/ (LooksAtRun(w) /\ phase'[w] = "checking")
<1>1. pc[w] = "running" /\ cur'[w] = cur[w] /\ HandlerMoves(w)
  BY HandlerSteps DEF Starting
<1>. QED BY <1>1 DEF HandlerMoves, LooksNoMore, Starting

\* No step writes an instant that has come to a row that did not name it.
LEMMA StopRowMoves ==
  ASSUME ReadInv, Grace = 0, [Next]_vars, NEW k \in Keys, task'[k] # NoTask,
         NEW s \in Instants, s <= now
  PROVE  /\ (task[k] # NoTask => task[k].next # s) => task'[k].next # s
         /\ (task[k] # NoTask => task[k].next # s /\ task[k].last # s)
              => task'[k].last # s
<1>1. now \in Nat /\ s \in Nat \ {0}
  BY SchedulerAssumption DEF ReadInv, TypeInv, TypeOK, Instants
<1>2. CASE RowStays(k)
  BY <1>2 DEF RowStays
<1>3. CASE RowSaved(k)
  <2>1. task'[k].next # s
    BY <1>1, <1>3 DEF RowSaved
  <2>2. task[k] # NoTask => task'[k].last = task[k].last
    BY <1>3 DEF RowSaved
  <2>3. task[k] = NoTask => task'[k].last = 0
    BY <1>3 DEF RowSaved, NoTime
  <2>. QED BY <1>1, <2>1, <2>2, <2>3
<1>4. ASSUME NEW v \in Workers, AdvancesBy(v, k)
      PROVE  /\ task'[k].next # s
             /\ task[k] # NoTask /\ task'[k].last = task[k].next
  <2>1. task[k] # NoTask /\ task'[k].last = task[k].next
    BY <1>4 DEF AdvancesBy, RowAdvanced, Holds
  <2>2. task'[k].next = NoTime \/ task'[k].next > now
    BY <1>4, AdvancedIsAhead DEF ReadInv
  <2>. QED BY <1>1, <2>1, <2>2 DEF NoTime
<1>. QED BY <1>2, <1>3, <1>4, RowWrites DEF ReadInv

LEMMA StopSeenStep ==
  ASSUME StopInv, Grace = 0, [RuntimeNext]_allvars
  PROVE  StopSeen'
<1> SUFFICES ASSUME NEW w \in Workers, NEW k \in Keys, phase'[w] \in Starting,
                    task'[k] # NoTask, Kind[k] = "stop",
                    BotOf[k] = BotOf[cur'[w].key]
             PROVE  /\ task'[k].next # cur'[w].next
                    /\ phase'[w] # "stopRun" \/ task'[k].id # found'[w]
                         => task'[k].last # cur'[w].next
  BY DEF StopSeen, Starting
<1>1. /\ pc[w] = "running" /\ cur'[w] = cur[w]
      /\ LooksAtTask(w) \/ FindsNoTask(w) \/ LooksNoMore(w)
         \/ (LooksAtRun(w) /\ phase'[w] = "checking")
  BY StartMoves DEF StopInv
<1>2. cur[w] \in Stale /\ cur[w].next \in Instants /\ cur[w].next <= now
  BY <1>1 DEF StopInv, ReadInv, WorkIsDue, TypeInv, HasRow, Executing, Stale
<1>3. BotAt(w) = BotOf[cur[w].key] /\ [Next]_vars
  BY StepImplements, RuntimeAssumption DEF BotAt
<1>4. k \in StopKeys(BotAt(w))
  BY <1>1, <1>3 DEF StopKeys
<1>5. CASE LooksAtTask(w)
  <2>1. task[k] # NoTask /\ UNCHANGED vars /\ k \in StopTasks(w)
    BY <1>4, <1>5 DEF LooksAtTask, vars, StopTasks, Exists
  <2>2. task[k].next # cur[w].next
    BY <1>5, <2>1 DEF LooksAtTask, StopIsNext
  <2>3. \A j \in StopTasks(w) : j = k
    BY <2>1, RuntimeAssumption DEF StopTasks, StopKeys
  <2>4. found'[w] = task[k].id
    BY <1>5, <2>3 DEF LooksAtTask
  <2>. QED BY <1>1, <1>5, <2>1, <2>2, <2>4 DEF LooksAtTask, vars
<1>6. CASE LooksAtRun(w) /\ phase'[w] = "checking"
  <2>1. UNCHANGED vars /\ task[k] # NoTask /\ k \in StopTasks(w) /\ phase[w] = "stopRun"
    BY <1>4, <1>6 DEF LooksAtRun, vars, StopTasks, Exists
  <2>4. task[k].last # cur[w].next
    <3>1. task[k].id = found[w] => task[k].last # cur[w].next
      <4>1. task[k].id = found[w] => runs[k][cur[w].next] = NoRun
        BY <1>6, <2>1 DEF LooksAtRun, StopHasRun
      <4>. QED BY <1>2, <2>1, <4>1 DEF StopInv, BaseInv, HasRun, Instants, NoTime
    <3>2. task[k].id # found[w] => task[k].last # cur[w].next
      BY <1>1, <2>1 DEF StopInv, StopSeen
    <3>. QED BY <3>1, <3>2
  <2>5. task[k].next # cur[w].next
    BY <1>1, <2>1 DEF Starting, StopInv, StopSeen
  <2>. QED BY <1>1, <2>1, <2>4, <2>5 DEF vars
<1>7. CASE LooksNoMore(w)
  <2>1. task[k] # NoTask =>
          /\ task[k].next # cur[w].next
          /\ phase'[w] # "stopRun" \/ task[k].id # found'[w] => task[k].last # cur[w].next
    BY <1>1, <1>7 DEF LooksNoMore, Starting, StopInv, StopSeen
  <2>2. ReadInv /\ TypeInv
    BY DEF StopInv, ReadInv
  <2>3. task[k] # NoTask => task'[k].id = task[k].id
    <3>1. ~ Delete(k)
      BY <2>2 DEF Delete, TypeInv, TypeOK
    <3>. QED BY <1>3, <2>2, <3>1, RowIdStays
  <2>. QED BY <1>1, <1>2, <1>3, <2>1, <2>2, <2>3, StopRowMoves
<1>8. ~ FindsNoTask(w)
  BY <1>4 DEF FindsNoTask, StopTasks, Exists, vars
<1>. QED BY <1>1, <1>5, <1>6, <1>7, <1>8

\* When a start reaches its call no stop of its bot for the same instant is
\* waiting, held or recorded (hasStopAtScheduledTime, router.ts), however long
\* workers pause, whoever dies and whatever throws.
THEOREM StopAlwaysWins ==
  ASSUME Grace = 0
  PROVE  RuntimeSpec => []StopWins
<1>1. RuntimeInit => StopInv
  <2> SUFFICES ASSUME RuntimeInit PROVE StopInv
    OBVIOUS
  <2>1. Init /\ RInv
    BY RuntimeTypeInit DEF RuntimeInit
  <2>2. ReadInv /\ BaseInv
    BY <2>1, ReadInit, HasRunInit
  <2>3. StopSeen
    BY DEF RuntimeInit, Init, StopSeen
  <2>. QED BY <2>1, <2>2, <2>3 DEF StopInv
<1>2. StopInv /\ [RuntimeNext]_allvars => StopInv'
  <2> SUFFICES ASSUME StopInv, [RuntimeNext]_allvars PROVE StopInv'
    OBVIOUS
  <2>1. RInv' /\ StopSeen'
    BY RuntimeTypeStep, StopSeenStep DEF StopInv
  <2>2. ReadInv' /\ BaseInv'
    BY StepImplements, ReadStep, HasRunStep DEF StopInv
  <2>. QED BY <2>1, <2>2 DEF StopInv
<1>3. StopInv => StopWins
  <2> SUFFICES ASSUME StopInv, NEW w \in Workers, NEW k \in Keys,
                      phase[w] \in {"checking", "calling"}, Exists(k),
                      Kind[k] = "stop", BotOf[k] = BotAt(w)
               PROVE  cur[w].next \notin {task[k].next, task[k].last}
    BY DEF StopWins
  <2>1. BotAt(w) = BotOf[cur[w].key]
    BY RuntimeAssumption DEF BotAt
  <2>. QED BY <2>1 DEF StopInv, StopSeen, Starting, Exists
<1>. QED BY <1>1, <1>2, <1>3, PTL DEF RuntimeSpec

-----------------------------------------------------------------------------
(* The later event decides.  A scheduled start that follows a completed    *)
(* stop has a run of a later instant: one worker executes instants in      *)
(* order, and a start that stands at its call has seen that the stop of    *)
(* its own instant has none.  So a bot that runs although its stop is      *)
(* settled has a later start.                                              *)

\* Requests under way are stops.
StopsOnly == \A c \in Clients : phase[c] \in {"none", "stopping"}

\* Each kind of task has its own statements.
HandlerKind(w) ==
  /\ phase[w] # "stopping"
  /\ phase[w] \in {"listing", "freezing"} => Kind[cur[w].key] = "freeze"
  /\ phase[w] \notin {"none", "listing", "freezing"} => Kind[cur[w].key] = "start"

\* A start that has looked at the stop's run knows that there is none; nor has
\* a stop task created since its first look any.
NoStopRun(w) ==
  \A stop \in StopKeys(BotOf[cur[w].key]) :
    \/ phase[w] \in {"checking", "calling"}
    \/ phase[w] = "stopRun" /\ Exists(stop) /\ task[stop].id # found[w]
    => runs[stop][cur[w].next] = NoRun

\* What is about to be recorded as a completed stop has stopped its bot.
StoppedBot(w) ==
  pc[w] = "closing" /\ verdict[w] = "completed" /\ Kind[cur[w].key] = "stop"
    => BotOf[cur[w].key] \notin running

\* A bot that runs after a completed stop has been started later, or its start
\* task is in the middle of an execution, or has had none yet.
StartedLater ==
  \A start, stop \in Keys, t \in Instants :
    /\ Kind[start] = "start" /\ Kind[stop] = "stop" /\ BotOf[start] = BotOf[stop]
    /\ runs[stop][t] # NoRun /\ runs[stop][t].status = "completed"
    /\ BotOf[stop] \in running
    /\ Exists(start) /\ task[start].last # NoTime /\ task[start].last < t
    => \E s \in Instants : s > t /\ runs[start][s] # NoRun

LaterInv(w) ==
  /\ RInv /\ OneInv(w) /\ StopsOnly /\ HandlerKind(w) /\ StoppedBot(w)
  /\ faults = 0 => NoStopRun(w) /\ StartedLater

NoManualStart == \A c \in Clients, b \in Bots : ~ ManualStart(c, b)

LEMMA HandlerKindStep ==
  ASSUME RInv, [RuntimeNext]_allvars, NEW w \in Workers, HandlerKind(w)
  PROVE  HandlerKind(w)'
<1>1. CASE phase'[w] = "none"
  BY <1>1 DEF HandlerKind
<1>2. CASE phase'[w] # "none"
  BY <1>2, HandlerSteps
     DEF HandlerKind, HandlerMoves, Handles, LooksAtTask, LooksAtRun,
         FindsNoTask, LooksNoMore
<1>. QED BY <1>1, <1>2

LEMMA StopsOnlyStep ==
  ASSUME RInv, StopsOnly, [RuntimeNext]_allvars, NoManualStart
  PROVE  StopsOnly'
<1> SUFFICES ASSUME NEW c \in Clients PROVE phase'[c] \in {"none", "stopping"}
  BY DEF StopsOnly
<1>1. c \in Actors /\ c \notin Workers /\ phase[c] \in {"none", "stopping"}
  BY RuntimeAssumption DEF Actors, StopsOnly
<1>2. ASSUME NEW x \in Actors, NEW result, Leave(x, result)
      PROVE  phase'[c] \in {"none", "stopping"}
  BY <1>1, <1>2, LeaveFrame DEF Leave, RInv, RuntimeTypeOK
<1>3. ASSUME NEW x \in Actors \ {c}, NEW next, GoOn(x, next)
      PROVE  phase'[c] \in {"none", "stopping"}
  BY <1>1, <1>3, GoOnFrame
<1>4. ASSUME NEW x \in Actors, Act(x) PROVE phase'[c] \in {"none", "stopping"}
  BY <1>1, <1>2, <1>3, <1>4 DEF Act, CheckFreeze, CallStart, Recheck, Revert, CallStop
<1>5. ASSUME NEW x \in Actors, ActionThrows(x) PROVE phase'[c] \in {"none", "stopping"}
  BY <1>2, <1>5 DEF ActionThrows
<1>6. ASSUME NEW v \in Workers,
             \/ FindStopTask(v) \/ FindStopRun(v) \/ Freeze(v) \/ ListActive(v)
             \/ FreezeStop(v) \/ EndFreeze(v) \/ WorkerDies(v)
      PROVE  phase'[c] \in {"none", "stopping"}
  <2>1. v \in Actors \ {c}
    BY <1>1 DEF Actors
  <2>. QED BY <1>1, <1>2, <1>3, <1>6, <2>1
           DEF FindStopTask, FindStopRun, Freeze, ListActive, FreezeStop, EndFreeze,
               WorkerDies, RInv, RuntimeTypeOK
<1>7. ASSUME NEW d \in Clients, NEW b \in Bots, ManualStart(d, b) \/ ManualStop(d, b)
      PROVE  phase'[c] \in {"none", "stopping"}
  BY <1>1, <1>7 DEF NoManualStart, ManualStop, Manual, RInv, RuntimeTypeOK
<1>8. ASSUME NEW d \in Clients, RequestDies(d) PROVE phase'[c] \in {"none", "stopping"}
  BY <1>1, <1>8 DEF RequestDies, RInv, RuntimeTypeOK
<1>9. CASE UNCHANGED phase
  BY <1>1, <1>9
<1>. QED BY <1>4, <1>5, <1>6, <1>7, <1>8, <1>9
         DEF RuntimeNext, Schedule, runtime, allvars, CancelFreeze, Unfreeze

\* Only a call of the start handler makes a bot run.
LEMMA OnlyStartsRun ==
  ASSUME NEW w \in Workers, Workers = {w}, RInv, StopsOnly, [RuntimeNext]_allvars,
         NEW b \in running', b \notin running
  PROVE  /\ phase[w] = "calling" /\ b = BotOf[cur[w].key]
         /\ UNCHANGED <<task, runs, cur>>
<1>1. ASSUME NEW x \in Actors, Act(x) \/ ActionThrows(x)
      PROVE  phase[x] = "calling" /\ b = BotAt(x) /\ UNCHANGED <<task, runs, cur>>
  <2>1. \A result : Leave(x, result) => UNCHANGED <<task, runs, cur>>
    BY DEF Leave, Handler, vars
  <2>2. \A next : GoOn(x, next) => UNCHANGED <<task, runs, cur>>
    BY DEF GoOn, vars
  <2>3. CASE Act(x)
    BY <2>2, <2>3 DEF Act, CheckFreeze, CallStart, Recheck, Revert, CallStop
  <2>4. CASE ActionThrows(x)
    BY <2>1, <2>4 DEF ActionThrows
  <2>. QED BY <1>1, <2>3, <2>4
<1>2. ASSUME NEW x \in Actors, Act(x) \/ ActionThrows(x)
      PROVE  /\ phase[w] = "calling" /\ b = BotOf[cur[w].key]
             /\ UNCHANGED <<task, runs, cur>>
  <2>1. phase[x] = "calling" /\ b = BotAt(x) /\ UNCHANGED <<task, runs, cur>>
    BY <1>1, <1>2
  <2>2. x \notin Clients
    BY <2>1 DEF StopsOnly
  <2>. QED BY <2>1, <2>2 DEF Actors, BotAt
<1>3. ~ UNCHANGED running /\ ~ (running' \subseteq running)
  OBVIOUS
<1>4. \A v \in Workers : ~ FreezeStop(v)
  BY <1>3 DEF FreezeStop
<1>. QED BY <1>2, <1>3, <1>4
         DEF RuntimeNext, Schedule, runtime, allvars, FindStopTask, FindStopRun, Freeze,
             ListActive, EndFreeze, WorkerDies, ManualStart, ManualStop, Manual,
             RequestDies, CancelFreeze, Unfreeze

\* The handler of a stop that succeeds has stopped its bot.
LEMMA SuccessfulStop ==
  ASSUME RInv, [RuntimeNext]_allvars, NEW w \in Workers, HandlerKind(w),
         Kind[cur[w].key] = "stop", Handler(w), verdict'[w] = "completed"
  PROVE  BotOf[cur[w].key] \notin running'
<1>0. /\ w \in Actors /\ w \notin Clients /\ phase[w] = "none"
      /\ pc[w] = "running" /\ pc'[w] = "closing"
  BY RuntimeAssumption DEF Actors, HandlerKind, Handler, RInv, TypeInv, TypeOK
<1>1. ~ UNCHANGED pc
  BY <1>0
<1>2. \A x \in Actors : x # w =>
        \A result : Leave(x, result) => pc'[w] = pc[w]
  BY <1>0 DEF Leave, Handler, vars, Actors, RInv, TypeInv, TypeOK
<1>3. \A x, next : GoOn(x, next) => UNCHANGED pc
  BY DEF GoOn, vars
<1>4. ASSUME NEW x \in Actors, x # w, Act(x) \/ ActionThrows(x) PROVE FALSE
  BY <1>0, <1>1, <1>2, <1>3, <1>4
     DEF Act, CheckFreeze, CallStart, Recheck, Revert, CallStop, ActionThrows
<1>5. ASSUME Act(w) PROVE BotOf[cur[w].key] \notin running'
  <2>1. CallStop(w)
    BY <1>0, <1>5 DEF Act, CheckFreeze, CallStart, Recheck, Revert
  <2>. QED BY <1>0, <2>1 DEF CallStop, BotAt
<1>6. ~ ActionThrows(w)
  <2>1. ActionThrows(w) => verdict'[w] = "failed"
    BY DEF ActionThrows, Leave
  <2>. QED BY <2>1
<1>7. ASSUME NEW v \in Workers,
             FindStopTask(v) \/ FindStopRun(v) \/ EndFreeze(v)
      PROVE  FALSE
  <2>1. v # w
    BY <1>0, <1>7 DEF FindStopTask, Handles, FindStopRun, EndFreeze
  <2>. QED BY <1>0, <1>1, <1>2, <1>3, <1>7, <2>1
           DEF Actors, FindStopTask, FindStopRun, EndFreeze, vars
<1>8. ASSUME NEW v \in Workers, Freeze(v) \/ ListActive(v) \/ FreezeStop(v)
      PROVE  FALSE
  BY <1>1, <1>3, <1>8 DEF Freeze, ListActive, FreezeStop, vars
<1>9. ASSUME NEW v \in Workers, WorkerDies(v) PROVE FALSE
  BY <1>0, <1>9 DEF WorkerDies, Crash, RInv, TypeInv, TypeOK
<1>10. ASSUME NEW c \in Clients,
              (\E b \in Bots : ManualStart(c, b) \/ ManualStop(c, b)) \/ RequestDies(c)
       PROVE  FALSE
  BY <1>1, <1>10 DEF ManualStart, ManualStop, Manual, RequestDies, vars
<1>11. ~ Schedule
  BY <1>0, ScheduleFrame
<1>12. ~ CancelFreeze /\ ~ Unfreeze /\ ~ UNCHANGED allvars
  BY <1>1 DEF CancelFreeze, Delete, Unfreeze, allvars, vars
<1>. QED BY <1>4, <1>5, <1>6, <1>7, <1>8, <1>9, <1>10, <1>11, <1>12 DEF RuntimeNext

LEMMA StoppedBotStep ==
  ASSUME NEW w \in Workers, Workers = {w}, LaterInv(w), [RuntimeNext]_allvars
  PROVE  StoppedBot(w)'
<1> SUFFICES ASSUME pc'[w] = "closing", verdict'[w] = "completed",
                    Kind[cur'[w].key] = "stop"
             PROVE  BotOf[cur'[w].key] \notin running'
  BY DEF StoppedBot
<1>0. RInv /\ TypeInv /\ StopsOnly /\ HandlerKind(w) /\ [Next]_vars
  BY StepImplements DEF LaterInv, RInv
<1>1. StandsStill(w) \/ HandlerReturns(w)
  <2>1. Executing(w)'
    BY DEF Executing
  <2>. QED BY <1>0, <2>1, WorkerMoves DEF Claims, Finds, Runs
<1>2. CASE StandsStill(w)
  <2>1. pc[w] = "closing" /\ cur'[w] = cur[w]
    BY <1>2 DEF StandsStill
  <2>2. BotOf[cur[w].key] \notin running
    BY <1>0, <2>1, VerdictStays DEF LaterInv, StoppedBot
  <2>3. phase[w] # "calling"
    BY <1>0, <2>1 DEF RInv, RuntimeTypeOK
  <2>. QED BY <1>0, <2>1, <2>2, <2>3, OnlyStartsRun
<1>3. CASE HandlerReturns(w)
  BY <1>0, <1>3, SuccessfulStop DEF HandlerReturns
<1>. QED BY <1>1, <1>2, <1>3

LEMMA NoStopRunStep ==
  ASSUME NEW w \in Workers, Workers = {w}, LaterInv(w), [RuntimeNext]_allvars,
         faults' = 0
  PROVE  NoStopRun(w)'
<1>0. /\ RInv /\ TypeInv /\ HandlerKind(w) /\ [Next]_vars /\ RunsOfRow
      /\ NoStopRun(w)
  BY StepImplements, NoThrow DEF LaterInv, RInv, OneInv
<1> SUFFICES ASSUME NEW stop \in Keys, stop \in StopKeys(BotOf[cur'[w].key]),
                    \/ phase'[w] \in {"checking", "calling"}
                    \/ phase'[w] = "stopRun" /\ task'[stop] # NoTask /\ task'[stop].id # found'[w]
             PROVE  runs'[stop][cur'[w].next] = NoRun
  BY DEF NoStopRun, StopKeys, Exists
<1>1. /\ pc[w] = "running" /\ cur'[w] = cur[w]
      /\ LooksAtTask(w) \/ FindsNoTask(w) \/ LooksNoMore(w)
         \/ (LooksAtRun(w) /\ phase'[w] = "checking")
  BY <1>0, StartMoves DEF Starting
<1>2. /\ cur[w].next \in Instants /\ Kind[stop] = "stop" /\ BotAt(w) = BotOf[cur[w].key]
      /\ stop \in StopKeys(BotAt(w))
  BY <1>0, <1>1, RuntimeAssumption DEF TypeInv, HasRow, Executing, Stale, StopKeys, BotAt
<1>3. stop \notin StopTasks(w) => runs[stop][cur[w].next] = NoRun
  BY <1>0, <1>2 DEF RunsOfRow, Exists, StopTasks
<1>4. CASE LooksAtRun(w) /\ phase'[w] = "checking"
  <2>1. stop \in StopTasks(w) /\ task[stop].id = found[w] => runs[stop][cur[w].next] = NoRun
    BY <1>4 DEF LooksAtRun, StopHasRun
  <2>2. stop \in StopTasks(w) /\ task[stop].id # found[w] => runs[stop][cur[w].next] = NoRun
    BY <1>0, <1>1, <1>2, <1>4 DEF LooksAtRun, NoStopRun, StopTasks
  <2>. QED BY <1>1, <1>3, <1>4, <2>1, <2>2 DEF LooksAtRun, vars
<1>5. CASE FindsNoTask(w)
  BY <1>1, <1>3, <1>5 DEF FindsNoTask, vars
<1>6. CASE LooksAtTask(w)
  <2>1. stop \in StopTasks(w) => found'[w] = task[stop].id
    BY <1>2, <1>6, RuntimeAssumption DEF LooksAtTask, StopTasks, StopKeys
  <2>2. stop \notin StopTasks(w)
    BY <1>6, <2>1 DEF LooksAtTask, vars
  <2>. QED BY <1>1, <1>3, <1>6, <2>2 DEF LooksAtTask, vars
<1>7. CASE LooksNoMore(w)
  <2>1. Kind[cur[w].key] = "start"
    BY <1>0, <1>7 DEF LooksNoMore, Starting, HandlerKind
  <2>2. runs[stop][cur[w].next] = NoRun
    <3>1. stop \in StopTasks(w) => task'[stop] = NoTask \/ task'[stop].id = task[stop].id
      <4>1. ~ Delete(stop) /\ task[stop] # NoTask => task'[stop].id = task[stop].id
        BY <1>0, RowIdStays
      <4>2. Delete(stop) => task'[stop] = NoTask
        BY <1>0 DEF Delete, TypeInv, TypeOK
      <4>. QED BY <4>1, <4>2 DEF StopTasks, Exists
    <3>. QED BY <1>0, <1>1, <1>2, <1>3, <1>7, <3>1 DEF LooksNoMore, Starting, NoStopRun, StopTasks
  <2>3. ASSUME runs'[stop][cur[w].next] # NoRun PROVE FALSE
    <3>1. ~ Delete(stop)
      BY <1>0, <1>2, <2>3 DEF Delete, TypeInv, TypeOK
    <3>2. cur[w].key = stop
      BY <1>0, <1>2, <2>2, <2>3, <3>1, RunWrites
    <3>. QED BY <1>2, <2>1, <3>2
  <2>. QED BY <1>1, <2>3
<1>. QED BY <1>1, <1>4, <1>5, <1>6, <1>7

LEMMA StartedLaterStep ==
  ASSUME NEW w \in Workers, Workers = {w}, LaterInv(w), [RuntimeNext]_allvars,
         faults' = 0
  PROVE  StartedLater'
<1>0. /\ RInv /\ TypeInv /\ StopsOnly /\ HandlerKind(w) /\ StoppedBot(w) /\ [Next]_vars
      /\ Line(w) /\ NoStopRun(w) /\ StartedLater
  BY StepImplements, NoThrow DEF LaterInv, RInv, OneInv
<1> SUFFICES ASSUME NEW start \in Keys, NEW stop \in Keys, NEW t \in Instants,
                    Kind[start] = "start", Kind[stop] = "stop",
                    BotOf[start] = BotOf[stop],
                    runs'[stop][t] # NoRun, runs'[stop][t].status = "completed",
                    BotOf[stop] \in running', task'[start] # NoTask,
                    task'[start].last # NoTime, task'[start].last < t
             PROVE  \E s \in Instants : s > t /\ runs'[start][s] # NoRun
  BY DEF StartedLater, Exists
<1>1. t \in Nat /\ ~ Delete(start) /\ ~ Delete(stop)
  BY <1>0, SchedulerAssumption DEF Instants, Delete, TypeInv, TypeOK
<1>2. CASE BotOf[stop] \notin running
  <2>1. /\ phase[w] = "calling" /\ BotOf[stop] = BotOf[cur[w].key]
        /\ UNCHANGED <<task, runs, cur>>
    BY <1>0, <1>2, OnlyStartsRun
  <2>2. pc[w] = "running" /\ Executing(w) /\ Kind[cur[w].key] = "start"
    BY <1>0, <2>1 DEF RInv, RuntimeTypeOK, Executing, HandlerKind
  <2>3. cur[w].key \in Keys /\ cur[w].next \in Instants /\ cur[w].next \in Nat
    BY <1>0, <2>2, SchedulerAssumption DEF TypeInv, HasRow, Stale, Instants
  <2>4. cur[w].key = start
    BY <2>1, <2>2, <2>3, RuntimeAssumption
  <2>5. Current(cur[w])
    BY <1>0, <2>1, <2>2, <2>4 DEF Line, FreshRow, Exists
  <2>6. runs[start][cur[w].next] # NoRun
    BY <1>0, <2>2, <2>4, <2>5 DEF Line, KnowsRun, OwnsRun, RunOf
  <2>7. t <= cur[w].next
    BY <1>0, <2>1, <2>2 DEF Line, RunsInOrder
  <2>8. runs[stop][cur[w].next] = NoRun
    BY <1>0, <2>1 DEF NoStopRun, StopKeys
  <2>9. cur[w].next > t
    BY <1>1, <2>1, <2>3, <2>7, <2>8
  <2>. QED BY <2>1, <2>3, <2>6, <2>9
<1>3. CASE BotOf[stop] \in running
  <2>1. runs[stop][t] # NoRun /\ runs[stop][t].status = "completed"
    <3> SUFFICES ASSUME runs'[stop][t] # runs[stop][t] PROVE FALSE
      OBVIOUS
    <3>1. /\ cur[w].key = stop /\ cur[w].next = t /\ Current(cur[w])
          /\ Opens(w, stop, t) \/ Closes(w, stop, t)
      BY <1>0, <1>1, RunWrites
    <3>2. ~ Opens(w, stop, t)
      BY DEF Opens
    <3>3. verdict[w] = "completed" /\ pc[w] = "closing"
      <4>1. /\ runs[stop][t] \in RunRow /\ pc[w] = "closing"
            /\ runs'[stop][t] = [runs[stop][t] EXCEPT !.status = verdict[w]]
        BY <1>0, <3>1, <3>2 DEF Closes, OwnsRun, RunOf, TypeInv, TypeOK
      <4>. QED BY <4>1 DEF RunRow
    <3>. QED BY <1>0, <1>3, <3>1, <3>3 DEF StoppedBot
  <2>2. ~ AdvancesBy(w, start)
    <3>1. AdvancesBy(w, start) =>
            Executing(w) /\ task'[start].last = cur[w].next
      BY DEF AdvancesBy, RowAdvanced, Executing
    <3>2. Executing(w) => t <= cur[w].next /\ cur[w].next \in Nat
      BY <1>0, <2>1, SchedulerAssumption
         DEF Line, RunsInOrder, TypeInv, HasRow, Stale, Instants
    <3>. QED BY <1>1, <3>1, <3>2
  <2>3. task[start] # NoTask /\ task[start].last = task'[start].last
    BY <1>0, <2>2, RowWrites DEF RowStays, RowSaved
  <2>4. PICK s \in Instants : s > t /\ runs[start][s] # NoRun
    BY <1>0, <1>3, <2>1, <2>3 DEF StartedLater, Exists
  <2>5. runs'[start][s] # NoRun
    BY <1>0, <1>1, <2>4, RunRemains
  <2>. QED BY <2>4, <2>5
<1>. QED BY <1>2, <1>3

LEMMA LaterStep ==
  ASSUME NEW w \in Workers, Workers = {w}
  PROVE  LaterInv(w) /\ [RuntimeNext]_allvars /\ NoManualStart => LaterInv(w)'
<1> SUFFICES ASSUME LaterInv(w), [RuntimeNext]_allvars, NoManualStart
             PROVE  LaterInv(w)'
  OBVIOUS
<1>1. RInv' /\ OneInv(w)'
  BY RuntimeTypeStep, StepImplements, OneInvStep DEF LaterInv
<1>2. StopsOnly' /\ HandlerKind(w)' /\ StoppedBot(w)'
  BY StopsOnlyStep, HandlerKindStep, StoppedBotStep DEF LaterInv
<1>3. faults' = 0 => NoStopRun(w)' /\ StartedLater'
  BY NoStopRunStep, StartedLaterStep
<1>. QED BY <1>1, <1>2, <1>3 DEF LaterInv

LEMMA LaterInit ==
  ASSUME NEW w \in Workers
  PROVE  RuntimeInit => LaterInv(w)
<1> SUFFICES ASSUME RuntimeInit PROVE LaterInv(w)
  OBVIOUS
<1>1. RInv /\ OneInv(w)
  BY RuntimeTypeInit, OneInvInit DEF RuntimeInit
<1>2. phase = [x \in Actors |-> "none"] /\ pc[w] = "idle" /\ running = {}
  BY DEF RuntimeInit, Init
<1>3. StopsOnly /\ HandlerKind(w) /\ StoppedBot(w) /\ NoStopRun(w) /\ StartedLater
  BY <1>2 DEF StopsOnly, HandlerKind, StoppedBot, NoStopRun, StartedLater, Actors
<1>. QED BY <1>1, <1>3 DEF LaterInv

\* While one process runs the tasks, nobody starts a bot by hand and no
\* database statement throws, the later event decides: when the start and the
\* stop of a bot are settled, the stop for the later instant, the bot does not
\* run -- whatever is saved, deleted or due at once, whichever runtime calls
\* fail, however often the freeze intervenes and wherever the process dies
\* (hasStopAtScheduledTime and executeRuntimeAction, router.ts; the loop of
\* src/src/scheduler/index.ts).
THEOREM LaterEventDecides ==
  ASSUME NEW w \in Workers, Workers = {w}
  PROVE  RuntimeSpec /\ [][NoManualStart]_allvars => [](faults = 0 => LastEventWins)
<1>1. LaterInv(w) => (faults = 0 => LastEventWins)
  <2> SUFFICES ASSUME LaterInv(w), faults = 0, NEW start \in Keys, NEW stop \in Keys,
                      Kind[start] = "start", Kind[stop] = "stop",
                      BotOf[start] = BotOf[stop], Settles(start), Settles(stop),
                      task[start].last < task[stop].last,
                      \A s \in Instants : s > task[stop].last => runs[start][s] = NoRun,
                      BotOf[stop] \in running
               PROVE  FALSE
    BY DEF LastEventWins
  <2>1. EarnedInv /\ Recorded /\ StartedLater /\ TypeInv
    BY DEF LaterInv, OneInv, Line
  <2>2. /\ Exists(start) /\ task[start].last # NoTime
        /\ Exists(stop) /\ task[stop].last # NoTime
    BY <2>1 DEF Settles, EarnedInv, LastIsSet
  <2>3. /\ runs[stop][task[stop].last] # NoRun
        /\ runs[stop][task[stop].last].status = "completed"
    BY <2>1 DEF Settles, Recorded
  <2>4. task[stop].last \in Instants
    BY <2>1, <2>2 DEF Exists, TypeInv, TypeOK, TaskRow
  <2>. QED BY <2>1, <2>2, <2>3, <2>4 DEF StartedLater
<1>2. LaterInv(w) /\ UNCHANGED allvars => LaterInv(w)'
  <2>1. LaterInv(w) /\ UNCHANGED phase => NoManualStart
    BY DEF LaterInv, RInv, RuntimeTypeOK, Actors, NoManualStart, ManualStart, Manual
  <2>. QED BY <2>1, LaterStep DEF allvars, runtime
<1>3. LaterInv(w) /\ [RuntimeNext]_allvars /\ [NoManualStart]_allvars => LaterInv(w)'
  BY <1>2, LaterStep
<1>. QED BY <1>1, <1>3, LaterInit, PTL DEF RuntimeSpec
=============================================================================
