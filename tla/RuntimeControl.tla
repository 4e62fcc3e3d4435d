---------------------------- MODULE RuntimeControl ----------------------------
(***************************************************************************)
(* Runtime start, stop and global freeze: the three handlers that          *)
(* src/src/modules/bot-manager/router.ts registers with the scheduler, the *)
(* manual actions, and the ZeroClaw runtimes they call.                    *)
(*                                                                         *)
(* Composition: every action of Scheduler is an action here, except that   *)
(* its one-step Handler is replaced by the statements of the handler of    *)
(* the key a worker executes; the last of them is the Handler step.  The   *)
(* runtime service is external: a call to it sets whether a bot runs.      *)
(***************************************************************************)
EXTENDS Scheduler

CONSTANTS
  Bots,        \* active personalities
  NoBot,       \* the freeze task has none
  Kind,        \* [Keys -> {"freeze", "stop", "start"}], ScheduledTask.kind
  BotOf,       \* [Keys -> Bots or NoBot], ScheduledTask.targetId
  Clients,     \* manual requests under way at once
  MaxFailures  \* bound on runtime calls that throw and requests that die

PriorityOf == [freeze |-> 0, stop |-> 1, start |-> 2]

ASSUME RuntimeAssumption ==
  /\ Kind \in [Keys -> {"freeze", "stop", "start"}]
  /\ BotOf \in [Keys -> Bots \cup {NoBot}]
  /\ \A k \in Keys : /\ Priority[k] = PriorityOf[Kind[k]]
                     /\ Kind[k] # "freeze" => BotOf[k] \in Bots
  /\ \A j, k \in Keys : Kind[j] = Kind[k] /\ BotOf[j] = BotOf[k] => j = k
  /\ Clients \cap Workers = {} /\ MaxFailures \in Nat

VARIABLES
  frozen,     \* RuntimeControlState.frozen
  running,    \* bots whose runtime runs
  phase,      \* statement each worker's handler or client has come to
  target,     \* bot a client acts on
  found,      \* id of the stop task each start handler has read, or 0
  todo,       \* bots a freeze handler has listed and not stopped yet
  unfreezing, \* a DELETE /runtime-freeze between its two statements
  failures    \* spent bound

runtime == <<frozen, running, phase, target, found, todo, unfreezing, failures>>
allvars == <<vars, runtime>>

Actors == Workers \cup Clients
Phases == {"none", "stopRun", "checking", "calling", "rechecking", "reverting",
           "stopping", "listing", "freezing"}

RuntimeTypeOK ==
  /\ frozen \in BOOLEAN /\ running \subseteq Bots
  /\ phase \in [Actors -> Phases]
  /\ target \in [Clients -> Bots \cup {NoBot}]
  /\ found \in [Workers -> Ids \cup {0}] /\ todo \in [Workers -> SUBSET Bots]
  /\ unfreezing \in BOOLEAN /\ failures \in 0 .. MaxFailures
  /\ \A w \in Workers : phase[w] # "none" => pc[w] = "running"

BotAt(x) == IF x \in Clients THEN target[x] ELSE BotOf[cur[x].key]
Handles(w, kind) == /\ pc[w] = "running" /\ phase[w] = "none"
                    /\ Kind[cur[w].key] = kind
StopKeys(b) == {k \in Keys : Kind[k] = "stop" /\ BotOf[k] = b}

RuntimeInit ==
  /\ Init
  /\ frozen = FALSE /\ running = {}
  /\ phase = [x \in Actors |-> "none"]
  /\ target = [c \in Clients |-> NoBot]
  /\ found = [w \in Workers |-> 0] /\ todo = [w \in Workers |-> {}]
  /\ unfreezing = FALSE /\ failures = 0

-----------------------------------------------------------------------------
(* How a statement ends: the next one, or the result of the action. *)

GoOn(x, next) ==
  /\ phase' = [phase EXCEPT ![x] = next]
  /\ UNCHANGED <<vars, target, found>>

Leave(x, result) ==
  /\ phase' = [phase EXCEPT ![x] = "none"]
  /\ UNCHANGED found
  /\ IF x \in Workers
     THEN Handler(x) /\ verdict'[x] = result /\ UNCHANGED target
     ELSE target' = [target EXCEPT ![x] = NoBot] /\ UNCHANGED vars

-----------------------------------------------------------------------------
(* hasStopAtScheduledTime: the stop task and its next instant, then the run *)
(* of the id that was read.                                                 *)

StopTasks(w) == {k \in StopKeys(BotAt(w)) : Exists(k)}
StopIsNext(w) == \E k \in StopTasks(w) : task[k].next = cur[w].next
StopHasNoRun(w) == FALSE                                    \* mutant
StopHasRun(w) ==
  \E k \in StopTasks(w) : task[k].id = found[w] /\ runs[k][cur[w].next] # NoRun

FindStopTask(w) ==
  /\ Handles(w, "start")
  /\ \/ StopIsNext(w) /\ Leave(w, "completed")
     \/ StopTasks(w) = {} /\ GoOn(w, "checking")
     \/ /\ ~ StopIsNext(w)
        /\ \E k \in StopTasks(w) : found' = [found EXCEPT ![w] = task[k].id]
        /\ phase' = [phase EXCEPT ![w] = "stopRun"]
        /\ UNCHANGED <<vars, target>>
  /\ UNCHANGED <<frozen, running, todo, unfreezing, failures>>

FindStopRun(w) ==
  /\ phase[w] = "stopRun"
  /\ \/ StopHasRun(w) /\ Leave(w, "completed")
     \/ ~ StopHasRun(w) /\ GoOn(w, "checking")
  /\ UNCHANGED <<frozen, running, todo, unfreezing, failures>>

-----------------------------------------------------------------------------
(* executeRuntimeAction, by a worker's handler or a manual request. *)

Manual(c, b, first) ==
  /\ phase[c] = "none"
  /\ phase' = [phase EXCEPT ![c] = first]
  /\ target' = [target EXCEPT ![c] = b]
  /\ UNCHANGED <<vars, frozen, running, found, todo, unfreezing, failures>>
ManualStart(c, b) == Manual(c, b, "checking")      \* start and restart
ManualStop(c, b) == Manual(c, b, "stopping")

CheckFreeze(x) ==
  /\ phase[x] = "checking"
  /\ IF frozen THEN Leave(x, "failed") ELSE GoOn(x, "calling")
  /\ UNCHANGED <<frozen, running, todo, unfreezing, failures>>

CallStart(x) ==
  /\ phase[x] = "calling"
  /\ running' = running \cup {BotAt(x)}
  /\ GoOn(x, "rechecking")
  /\ UNCHANGED <<frozen, todo, unfreezing, failures>>

\* The freeze may have come while the call was under way.
FrozenNoRecheck == FALSE                                    \* mutant
FrozenAfterCall == frozen
Recheck(x) ==
  /\ phase[x] = "rechecking"
  /\ IF FrozenAfterCall THEN GoOn(x, "reverting") ELSE Leave(x, "completed")
  /\ UNCHANGED <<frozen, running, todo, unfreezing, failures>>

Revert(x) ==
  /\ phase[x] = "reverting"
  /\ running' = running \ {BotAt(x)}
  /\ Leave(x, "failed")
  /\ UNCHANGED <<frozen, todo, unfreezing, failures>>

CallStop(x) ==
  /\ phase[x] = "stopping" \/ (x \in Workers /\ Handles(x, "stop"))
  /\ running' = running \ {BotAt(x)}
  /\ Leave(x, "completed")
  /\ UNCHANGED <<frozen, todo, unfreezing, failures>>

\* A statement of the action throws: a query, or an update or runtime call that
\* may have been carried out.  The action ends there; nothing undoes what it did.
ActionThrows(x) ==
  /\ failures < MaxFailures /\ failures' = failures + 1
  /\ \/ /\ \/ phase[x] \in {"stopRun", "checking", "rechecking", "listing"}
           \/ x \in Workers /\ Handles(x, "start")
           \/ x \in Workers /\ phase[x] = "freezing" /\ todo[x] = {}
        /\ UNCHANGED <<frozen, running>>
     \/ /\ x \in Workers /\ Handles(x, "freeze")
        /\ frozen' \in {frozen, TRUE}
        /\ UNCHANGED running
     \/ /\ phase[x] = "calling"
        /\ running' \in {running, running \cup {BotAt(x)}}
        /\ UNCHANGED frozen
     \/ /\ phase[x] \in {"stopping", "reverting"}
           \/ (x \in Workers /\ Handles(x, "stop"))
        /\ running' \in {running, running \ {BotAt(x)}}
        /\ UNCHANGED frozen
  /\ Leave(x, "failed")
  /\ UNCHANGED <<todo, unfreezing>>

-----------------------------------------------------------------------------
(* runtime.freeze: the state first, then every active personality in turn; *)
(* a stop that fails is noted and the handler succeeds all the same.       *)

Freeze(w) ==
  /\ Handles(w, "freeze")
  /\ frozen' = TRUE
  /\ GoOn(w, "listing")
  /\ UNCHANGED <<running, todo, unfreezing, failures>>

ListActive(w) ==
  /\ phase[w] = "listing"
  /\ todo' = [todo EXCEPT ![w] = Bots]
  /\ GoOn(w, "freezing")
  /\ UNCHANGED <<frozen, running, unfreezing, failures>>

FreezeStop(w) ==
  /\ phase[w] = "freezing"
  /\ \E b \in todo[w] :
       /\ todo' = [todo EXCEPT ![w] = @ \ {b}]
       /\ \/ running' = running \ {b} /\ UNCHANGED failures
          \/ /\ failures < MaxFailures /\ failures' = failures + 1
             /\ UNCHANGED running
  /\ UNCHANGED <<vars, frozen, phase, target, found, unfreezing>>

EndFreeze(w) ==
  /\ phase[w] = "freezing" /\ todo[w] = {}
  /\ Leave(w, "completed")
  /\ UNCHANGED <<frozen, running, todo, unfreezing, failures>>

\* DELETE /runtime-freeze: the task, if there is one, then the state.
CancelFreeze ==
  /\ ~ unfreezing
  /\ unfreezing' = TRUE
  /\ \/ \E k \in Keys : Kind[k] = "freeze" /\ Delete(k)
     \/ (\A k \in Keys : Kind[k] = "freeze" => ~ Exists(k)) /\ UNCHANGED vars
  /\ UNCHANGED <<frozen, running, phase, target, found, todo, failures>>

Unfreeze ==
  /\ unfreezing
  /\ frozen' = FALSE /\ unfreezing' = FALSE
  /\ UNCHANGED <<vars, running, phase, target, found, todo, failures>>

-----------------------------------------------------------------------------
WorkerDies(w) ==
  /\ Crash(w)
  /\ phase' = [phase EXCEPT ![w] = "none"]
  /\ todo' = [todo EXCEPT ![w] = {}]
  /\ UNCHANGED <<frozen, running, target, found, unfreezing, failures>>

RequestDies(c) ==
  /\ phase[c] # "none"
  /\ failures < MaxFailures /\ failures' = failures + 1
  /\ phase' = [phase EXCEPT ![c] = "none"]
  /\ target' = [target EXCEPT ![c] = NoBot]
  /\ UNCHANGED <<vars, frozen, running, found, todo, unfreezing>>

\* The steps of Scheduler that no handler is part of.
Schedule ==
  /\ \/ \E k \in Keys, schedule \in Schedules : Upsert(k, schedule)
     \/ \E k \in Keys : Kind[k] # "freeze" /\ Delete(k)
     \/ \E w \in Workers :
          \/ ReadDue(w) \/ Claim(w) \/ FindRun(w) \/ SkipCompleted(w)
          \/ OpenRun(w) \/ Close(w) \/ EndTick(w) \/ Heartbeat(w)
          \/ StatementThrows(w)
     \/ Tick
  /\ UNCHANGED runtime

Act(x) == \/ CheckFreeze(x) \/ CallStart(x) \/ Recheck(x) \/ Revert(x)
          \/ CallStop(x)

RuntimeNext ==
  \/ Schedule
  \/ \E x \in Actors : Act(x) \/ ActionThrows(x)
  \/ \E w \in Workers :
       \/ FindStopTask(w) \/ FindStopRun(w)
       \/ Freeze(w) \/ ListActive(w) \/ FreezeStop(w) \/ EndFreeze(w)
       \/ WorkerDies(w)
  \/ \E c \in Clients :
       \/ \E b \in Bots : ManualStart(c, b) \/ ManualStop(c, b)
       \/ RequestDies(c)
  \/ CancelFreeze \/ Unfreeze

RuntimeSpec == RuntimeInit /\ [][RuntimeNext]_allvars
-----------------------------------------------------------------------------
(* What schedules and freeze promise. *)

\* "Freeze menghentikan seluruh personality aktif" and "Manual dan scheduled
\* start ditolak selama freeze aktif" (guide.md:220-221): until a call has failed
\* or a process has died, a bot that runs while the freeze is on has somebody who
\* is about to stop it -- the freeze handler, or the very start that overlapped it.
Smooth == failures = 0 /\ \A w \in Workers : pc[w] # "dead"
Attended(b) ==
  \/ \E w \in Workers : phase[w] = "listing" \/ b \in todo[w]
  \/ \E x \in Actors : phase[x] \in {"rechecking", "reverting"} /\ BotAt(x) = b
FrozenBotsStop == Smooth /\ frozen => \A b \in running : Attended(b)

\* "Jika start dan stop jatuh pada instant yang sama, stop menang"
\* (guide.md:218): when a scheduled start reaches its call no stop of the same
\* bot and instant is waiting, being executed by the holder of its row, or
\* recorded as executed, though the stop task was looked at in two statements,
\* earlier, while other replicas work on it.
StopWins ==
  \A w \in Workers, k \in Keys :
    /\ phase[w] \in {"checking", "calling"}
    /\ Exists(k) /\ Kind[k] = "stop" /\ BotOf[k] = BotAt(w)
    => cur[w].next \notin {task[k].next, task[k].last}

\* The later event decides: when both tasks of a bot have been executed, the
\* stop for a later instant than the start, and no start of a later instant has
\* begun, the bot does not run.  This is the order of a tick's batch (scheduler
\* index.ts 421-424): by instant, and by kind only within one instant.  "Freeze
\* dan stop dieksekusi sebelum start pada tick yang sama" (guide.md:219) says
\* otherwise of a tick that finds several instants due; the code does not do it.
\* (A start whose schedule is saved again while its handler runs leaves a run row
\* that the task row never names.)
Settles(k) == /\ Exists(k) /\ task[k].lastStatus = "completed"
              /\ \A w \in Workers : cur[w] # NoStale => cur[w].key # k
LastEventWins ==
  \A start, stop \in Keys :
    /\ Kind[start] = "start" /\ Kind[stop] = "stop" /\ BotOf[start] = BotOf[stop]
    /\ Settles(start) /\ Settles(stop) /\ task[start].last < task[stop].last
    /\ \A s \in Instants : s > task[stop].last => runs[start][s] = NoRun
    => BotOf[stop] \notin running
=============================================================================
