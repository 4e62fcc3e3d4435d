# Verification of the Morneven backend

TLA+ models of the concurrent core of the backend under `src/`, TLC
configurations that check them on small instances, and TLAPS proofs about them.

The backend is one Express process, started any number of times against one
PostgreSQL database and one object store. There is no lock server and there are
few transactions: replicas, timers and request handlers meet only in the tables,
and what keeps them apart is the `where` clause of an update, a unique index, or
the order of two statements. That is what these models are about. A step is what
happens between two `await`s; a transaction is one step, except in `Content`,
where the isolation level itself is the question.

## Inventory

| Component (source) | State | Operations | Interacts with | Module |
| --- | --- | --- | --- | --- |
| Task scheduler (`src/scheduler/index.ts`) | `ScheduledTask`, `ScheduledTaskRun`; per process `workerId` | poll, claim, run row, heartbeat, closing transactions, save, delete | handlers of settings and bot-manager | `Scheduler` |
| Backup extraction jobs (`modules/settings/router.ts` 690-1150, 2005-2390) | `ExtractionJob`, archives; per process a worker | create, retry, stop, delete, poll; claim, progress, upload, complete, fail; sweeps, pruning | scheduler, storage, clean-up | `ExtractionJobs`, `JobLedger` |
| Runtime control (`modules/bot-manager/router.ts` 4230-4700) | `RuntimeControlState.frozen`, schedules, the runtimes of ZeroClaw | manual start, stop, restart; scheduled start, stop, freeze; cancel | scheduler, ZeroClaw (HTTP) | `RuntimeControl` |
| Bot personalities, provider accounts (`bot-manager/router.ts`) | `BotIdentity`, files, accounts, general configuration, `runtimeDirty` | CRUD, activate, main, mode, files, accounts | workspace sync | `Personalities` |
| Workspace sync (`bot-manager/router.ts` 3400-3600, 5950-6030) | the runtime's bundle and workspaces | `POST /sync`, bundle, reload | ZeroClaw | `RuntimeSync` |
| Sessions, tokens, password resets (`modules/auth`, `security/sessions`, `middleware/auth.ts`) | `RefreshToken`, `SecuritySession`, `PasswordResetRequest` | register, login, refresh, logout, password, delete, ask, review, confirm, revoke | every request | `Accounts`, `Sessions` |
| Personnel and discipline (`modules/personnel`) | account rows, `PersonnelReport` | report, resolve, status, edit, add, lift expired | sessions, memberships | `Discipline` |
| Management requests, teams (`modules/management`) | `ManagementRequest`, `Team`, `QuotaRecord` | file, decide, clear, create team | memberships | `Memberships` |
| Chat that follows the directory (`modules/chat/service.ts`) | system conversations and their members | reconcile, sync per account and team, reset | personnel, management | `Memberships` |
| Chat people make (`modules/chat/router.ts`) | conversations, members, roles | dm, group, invite, accept, reject, leave, kick, role, delete, reset | discipline | `ChatGroups` |
| Chat messages (`modules/chat/router.ts`) | messages, server sequence, bot policy, read marks | post, bot post, edit, unsend, read, policy | groups | `ChatMessages`, `MessageLog` |
| Content and sync log (`modules/{projects,lore,gallery,news,map,sync}`) | rows, `SyncChange`, files | create, update, archive, delete, push | storage clean-up | `Content` |
| Content metrics (`utils/content-metrics.ts`) | reactions, view events, counters | view, star, react | content | `Engagement` |
| Realtime and presence (`realtime/`, `modules/presence`) | event history, sockets, sessions per user, in memory | emit, connect, resume, teardown, heartbeat | all | `Realtime` |
| Restore and migration (`settings/router.ts` 1634-1816) | jobs in `AuditLog.metadata` | create, progress, restore | content | - |
| Security gateway (`security/`, `modules/security`) | blocks, counters in memory | score, block, throttle | every request | - |
| Activity, notifications, command center, presets, files | rows | CRUD, statistics | - | - |
| Server, middleware, configuration, seeds | process lifetime | start, stop | all | in the models as crashes |

What is hard in it, and what each part must keep whatever happens:

* **Scheduler.** Two replicas read the same due row; a worker stalls past its
  lease, dies, or has a statement fail with its effect unknown; an administrator
  replaces or deletes a schedule under a running handler. It must not record
  success that did not happen, execute a run twice while leases are kept, drop
  an instant, or forget a due task.
* **Extraction jobs.** Requests race with each other, with sweeps and with the
  worker; storage and table are written one after the other. One active job per
  author; a finished job stays as it is; a retained backup has its archive and
  no other archive stays; every job ends.
* **Runtime control.** A freeze, a stop and a start overlap statement by
  statement. A freeze stops everybody, a stop wins over a start of the same
  instant, the later event decides.
* **Sessions.** Rotation is a delete and a create: one live token per session,
  and after a sign-out nothing of that login is admitted.
* **Discipline.** Read, decide, write: strikes are the confirmed reports, a
  demotion happens once.
* **Memberships.** Written one await after the other from stale rows; they must
  come to agree with accounts and teams.
* **Chat.** A group keeps somebody who manages it; a message is posted once and
  has a place of its own.
* **Content.** Row and log must agree on who wrote last; a repeated push is
  applied once; counters are their rows; a file in use is not removed.
* **Bot manager.** One main personality, distinct channels, accounts that fit;
  a lowered dirty flag tells the truth; a pull loses no text.
* **Realtime.** A tab that reconnects misses nothing the server still has.

Every place where one of these bites is a line in `PROJECT.json` under
`hazards`.

## Modules

```
Scheduler -- RuntimeControl   ExtractionJobs ==> JobLedger   Memberships   Realtime
Accounts -- Sessions -- Discipline   ChatGroups -- ChatMessages ==> MessageLog
Content -- Engagement                Personalities -- RuntimeSync
```

`--` is EXTENDS (the module on the right composes the one on the left with its
own actions), `==>` a refinement. `MC*` modules give the constants of the runs,
`*Proofs` hold the theorems. A definition marked "mutant" or "bug" is a variant
of the one after it that a plausible mistake would produce; each property is
shown to fail under one of them.

### Scheduler

`task` and `runs` are the two tables, keyed by `ScheduledTask.key` and by
`(task, scheduledFor)`; `id` distinguishes a re-created row from the one before.
`pc`, `batch`, `cur`, `verdict` are the locals of `runScheduledTaskTick` and
`executeTask` in each worker. A worker is a process lifetime, as `workerId` is
drawn when the module is loaded; a restart is another worker.

| Code | Action |
| --- | --- |
| `upsertScheduledTask`, `deleteScheduledTask` | `Upsert`, `Delete` |
| due query, loop, end of the tick | `ReadDue`, `EndTick` |
| claiming `updateMany` | `Claim` |
| `findUnique` of the run, advance of a task whose run is complete | `FindRun`, `SkipCompleted` |
| `upsert` of the run | `OpenRun` |
| interval timer | `Heartbeat` |
| registered handler | `Handler` |
| the two closing transactions | `Close` |
| a statement throws, its effect made or not (run opened, closing committed), and the catch blocks | `StatementThrows` |
| process lifetime, time | `Crash`, `Tick` |

A schedule is the set of instants it fires at, so `computeNextRunAt` is "the
least instant after"; time zones and weekdays are not in the model. A lease is
the number of ticks it has left. `Timely` says whether a worker renews its lease
before it runs out. `served` is a ghost: how often a handler has succeeded for
an instant.

### ExtractionJobs

`job` is the table; ids are given out in creation order. `store` is the set of
jobs whose archive `backups/<id>/` is in object storage. `stale` says which rows
were silent for 30 minutes. Ages are counted in days (`day`): `terms` has for
each job the day it was created and its retention, a count and a number of days,
which is `Manual` for a job asked for by hand and one of `Schedules` for a
scheduled backup. A job expires after the days of its own retention (`Expired`),
but a worker prunes every author's backups by the retention of the job it is
running (`PrunableBy`), as `runExtractionJob` does.

| Code | Action |
| --- | --- |
| `stopStaleExtractionJobs` before each endpoint | `Arrive`, `StopStale` |
| `POST .../stop`, `POST .../retry` | `Act` |
| `createExtractionJob` | `Enter`, `Find`, `Insert`, `Resolve` |
| handler of `extraction.backup` | `ScheduledBackup`, then the same |
| `DELETE /extractions` | `StartDelete`, `DeleteRows`, `DeleteFiles` |
| `runStorageCleanup` | `StartCleanup`, `FinishReading`, `RemoveOrphans` |
| `runExtractionWorkerTick`, `claimQueuedExtractionJob` | `StartTick`, `Sweep`, `Poll`, `Claim`, `Load` |
| `ensureExtractionStorage`, `pruneExtractionBackups` | `ReadPrunable`, `Prune` |
| `updateProgress`, upload, completion | `Progress`, `Upload`, `Complete`, `Audit` |
| catch block of `runExtractionJob` | `Fail`; `Outage` leads there |

`JobLedger` is what a job is to whoever waits for it: an entry that is queued,
taken, and given an outcome by its taker alone or stopped; struck out for good,
and without outcome only if its author asked for a deletion. It knows nothing of
leases, sweeps, statements or archives. `ExtractionJobs` implements it under the
mapping `Entry` (the row without its archive; a missing row is gone or unborn)
and `Deleting` (the DELETE whose rows are still there).

Not distinguished: the client's own key on a retry; what an archive contains.
Everybody's clock is the same.

### RuntimeControl

Each action of the scheduler is an action here, except that `Handler`, one step
there, is replaced by the statements of the handler registered for the key's
kind. The last statement (`Leave`) is `Handler`. `phase` is the statement
reached, for workers and manual requests (`Clients`); `found` is the id of the
stop task the first look-up of `hasStopAtScheduledTime` has read, by which the
second one asks for a run; `running` is what ZeroClaw does and external.

| Code | Action |
| --- | --- |
| `hasStopAtScheduledTime` | `FindStopTask`, `FindStopRun` |
| `executeRuntimeAction` for start and restart | `CheckFreeze`, `CallStart`, `Recheck`, `Revert` |
| the same for stop | `CallStop` |
| handler of `runtime.freeze` | `Freeze`, `ListActive`, `FreezeStop`, `EndFreeze` |
| `DELETE /runtime-freeze` | `CancelFreeze`, `Unfreeze` |
| a query or a call throws | `ActionThrows`, second branch of `FreezeStop` |

The set of active personalities is fixed here; `Personalities` varies it.

### Accounts, Sessions, Discipline

`Accounts` has the row and the pure rules: who may moderate whom, what a status
change and a confirmed report write. In `Sessions` a client has one request
under way, a record that walks through the awaits of its handler; `seen` is the
row its `auth` or first query read, stale when used. A refresh token is its
session and the second it was issued in: two tokens of one session and second
are the same JWT, which the unique index refuses. `Discipline` adds the requests
of personnel, which go through the same `auth` and write the same rows.

| Code | Action |
| --- | --- |
| `authenticate`: account, `restoreExpiredAccountStatus`, `ensureSessionAllowed`, `allow` | `StartAuthed`, `Restore`, `Admit` |
| `POST /register`, `/login`, `issueTokens` | `StartRegister`, `Create`; `StartLogin`, `Open`; `Issue` |
| `POST /refresh` | `StartRefresh`, `Take`, `ReadUser`, `Purge`, `Issue` |
| logout, change of password, reuse alarm | `SetPassword`, `Drop`, `List`, `Close` |
| `DELETE /delete-account` | `Reread`, `Archive` |
| `POST /sessions/:id/revoke`, `DELETE /sessions/history` | `List`, `Close`, `DropSession`; `ClearSessions` |
| password reset | `StartAsk`, `CheckOpen`, `Ask`; `CheckPending`, `Decide`; `StartConfirm`, `Confirm`; `ClearResets` |
| reports and their resolution | `ReadReported`, `File`; `ReadReport`, `Resolve` |
| `POST /:id/status`, `DELETE /:id` | `ReadTarget`, `Moderate` |
| `PUT /:id` (a level, a role or both), `PATCH /bulk`, `POST /` | `ReadEdited`, `Write`, `Add` |
| listings, which lift what ran out | `ListDue`, `Lift` |

History variables: `signedOut` (logins a finished sign-out was to end),
`applied` (reset requests that changed a password), `lifted`.

### Memberships

System conversations: the institute, one per track, one per team. A handler
writes a row and then, in `todo`, one membership call after the other; a
transaction writes them at once (`BulkEdit`, `Suspend`, `Reinstate`, `Decide`).

| Code | Action |
| --- | --- |
| `reconcileAutoMemberships` (on every listing) | `StartReconcile`, `Snapshot`, `ReadTeams`, `Write` |
| register, create, edit, bulk edit of accounts | `Enlist`, `Edit`, `BulkEdit` |
| `updateAccountStatus`, expired restrictions | `Suspend`, `Reinstate`, `RestoreExpired` |
| teams, requests, their history | `CreateTeam`, `File`, `ClearHistory` |
| `POST /requests/:id/decide` | `CheckRequest`, `ReadForDecision`, `Decide` |
| `POST /reset` with system scopes; a handler that throws | `ResetSystem`; `Fail` |

### ChatGroups, ChatMessages, MessageLog

A handler reads the conversation with its members (`seen`), decides on that and
writes one row after the other. `ChatMessages` adds posts and what they touch;
every deletion of a conversation takes its messages with it (`Cascade`, as
`onDelete` does in the schema), and a new group has its `Announcement`, the
message of the system `POST /groups` creates under sequence 0, which nothing
counts. Handlers of `ChatGroups` are actions named after their statements:
`FindDirect`/`Direct`, `FindInvitees`/`CreateGroup`, `FindInvited`/`Invite`,
`Resolve` (accept, reject), `Remove`/`Reread`/`Promote`/ `DeleteEmpty` (leave,
kick and `ensureManualConversationHasAdminOrDelete`), `SetRole`/`Crown`,
`DeleteGroup`, `FindScope`/`Reset`, `Bar` (`revokeConversationAccessForUser`).
Posting is `StartPost` or `StartBotPost`, `ReadIdentity`, `Lookup`
(`findIdempotentMessage`), `TakeSequence` (`nextServerSequence`), `Store`.

`MessageLog` is what a conversation promises: a log in which every message has a
place of its own, a named message is in it once, and nothing is taken out but
with the conversation; a group's log opens with a line of the system.
`ChatMessages` implements it under the mapping `LogOf` (place = server sequence,
name = client message id; edits do not show), which `ChatProofs` proves.

### Content, Engagement

A row is the one file it refers to; `log` is `SyncChange`. Here transactions are
taken apart: under READ COMMITTED a statement sees what is committed when it
starts, `locks` are the rows a transaction has written, and `Append` draws a
sequence that shows at `CommitAll`. Clean-up reads one table after the other
(`ReadTable`) and then removes (`Remove`). The documents of lore and the
attachments of news are in tables of their own (`Tables`), read by statements of
their own; a file in `Documents` is referred to there. Articles are read before
their attachments, the others in any order, and a document counts only if its
item was seen too (`InUse`).

| Code | Action |
| --- | --- |
| POST, PUT, archive, DELETE of the five routers | `Create`, `FindExisting`, `Archive`, `Purge`, `Write`, `Append`, `CommitAll` |
| `POST /push`, one mutation, sent again | `Push`, `Prior`, `Duplicate`, `CheckBase`, `Exists`, then the same |
| `recordContentView` | `Engage`, `Ensure`, `Event`, `EnsureAgain`, `Count` |
| `setLoreStar`, `setGalleryReaction` | `Engage`, `Ensure`, `Look`, `Want`, `Unmark`, `MarkIt`, `Count` |
| deletion of what hangs on a row | `Purge`, `PurgeMarks`, `PurgeMetric` |

### Personalities, RuntimeSync

`Personalities` is the store with one action per endpoint, one administrator at
a time; a value is abstracted to whether it changed. A personality has two
columns that may name an account (`Binding`), `runtimeProviderAccountId` and
`runtimeOpenRouterProfileId`: the first is validated, the second is stored as it
is sent when the first is sent empty (router.ts 5485-5508), and the bundle falls
back on it (4010-4012, `Credentials`). `RuntimeSync` puts beside it the runtime
(external: it starts, loads the bundle, its bots write files, calls to it and
their answers get lost) and `POST /sync` statement by statement: `BeginSync`,
`AskForChanges`, `PullFile`, `markRuntimePullResult`, `Reload`,
`markRuntimeSynced`, `PullFails`, `ReloadFails`.

### Realtime

`sequence`, `history`, `clientsByUsername` and `presence` are the module-level
variables of the code; `held` is the Set that each socket's `unregister` closes
over (events.ts 51-60), which is not the one in the map once an entry has been
deleted and made anew. A socket has the frames on their way to the tab. `Emit`
is `emitToUser`, `Attach`, `Reject`, `Resume` and `Teardown` the handlers of the
socket (the teardown runs for `error` and again for `close`, and the second
`unregister` finds its Set empty and deletes the user's entry, whoever is in it
by then), `Heartbeat` and `FallSilent` presence, `Restart` a new process. The
tab is external: it resumes once on each socket and moves its cursor when that
is answered; a tab without socket has asked nothing. `told` is a history
variable: what this server has told each user.

Each history is a set of events. The code pushes events in the order of their
numbers and replays them in that order, so the numbers say all that the array
does (`replayRealtimeEvents` writes a set out by them). When presence is told to
every client that may see it, each client has a number of its own; which of them
comes first is left open (`Numberings`).

## Runs

| Run | Question | Instance |
| --- | --- | --- |
| `scheduler_stalls` | Is success ever made up, a future instant skipped, a due task forgotten, though workers stall past their leases? | 1 task, 2 workers, 2 instants, lease 2, 2 edits, 1 fault, 1 crash |
| `runtime_stop_wins` | With leases kept: one worker per run, one success, both ledgers agree, completed runs stay; does a stop win, and does a freeze reach everybody? | start, stop and freeze of one bot at one instant, 2 workers, 1 client, 3 edits, 1 crash, 1 failing call |
| `runtime_order` | Does the later event decide? | start and stop at 3 instants, 4 edits, save grace 1, 1 worker, 1 failing call |
| `extraction_requests` | One active job per author and key; archives of retained backups and no others | 2 requests, 1 key, 2 workers, 2 jobs, 1 day; by hand 2 are kept for 2 days, scheduled 1 for 1 day |
| `extraction_live` | One worker per job, none lost by its worker, every job ends; do the jobs implement the ledger, in which what is finished is final? | 2 workers, 1 request, 1 job, 1 crash, 1 outage, 1 deletion or clean-up, 1 day |
| `accounts_one_desk` | One token per session; a sign-out holds; confirmed resets on record; strikes | 2 tabs of one account, 1 moderator, 3 accounts, 3 requests beside one another, all operations |
| `accounts_two_desks` | see Findings | 2 moderators, 3 requests |
| `memberships_follow` | Do memberships come to agree with their source? | 3 accounts, 2 tracks, 1 team, 2 workers (one lists), 2 changes, 1 failure |
| `chat_log` | Does posting implement the log, is an answer after what it answers; does a group keep a manager? | 2 clients, 3 requests, one group |
| `content_edits` | Row and log, repeated pushes, counters, files | 2 clients, 1 lore and 1 gallery row, 2 files, 1 of them a document, 3 requests, 1 operation id |
| `bots_sync` | Main personality, channels, accounts, dirty flag, pulls | 2 personalities, 2 accounts, 2 providers, 1 channel, 2 files, 4 requests, 1 bot edit, 1 start, 1 lost call |
| `realtime_resume` | Does a cursor pass over an event, does a resume fill the gap, what drops an open socket? | 2 users, 2 tabs, 2 sockets, 3 openings, 2 events, history of 2, 1 restart |

Why these bounds. Two workers or clients are enough for the conflicts the guards
are about: each is between the holder of a row and one other. Three requests let
two overlap and a third meet what they left. Two edits let a schedule be saved and then replaced or deleted. Two jobs and a
count of one are the least for which pruning by count removes something, one day
the least for which a job of one day expires while one of two does not; with two
retentions, what a short one prunes is a backup that a long one promised. A
history of two with two events beside presence events is the least in which
something is forgotten. `accounts_one_desk` starts with one strike and an
approved reset, so that thresholds are crossed and confirmations happen within
three requests. Symmetric values are interchangeable, as no model orders them;
runs with liveness use no symmetry. Deadlock is not checked where the bound on
requests ends a behaviour. Typing is no property of a run, as it says little of
the code; `TypeOK`, `RuntimeTypeOK` and `MessagesTypeOK` are proved, since the
other proofs build on them.

What the instances leave out, because the code does not keep the property there.
TLC found most of these while bounds were chosen; the proofs, or reading the code
at the line named, gave the rest (the dead process and the throwing statement of
`LastEventWins` among them):

* Scheduler. `OneWorkerPerRun`, `ServedOnce` and `RunsStayCompleted` need
  `Timely`: the claim asks for an expired lease only, so a stalled worker and
  its successor both execute a run. They and `NoInstantLost` need `Grace = 0`: a
  schedule saved within a second after an instant keeps that instant and loses
  its lease (index.ts:227). `DueIsAdvanced` holds once leases are renewed in
  time. The runs delete and save tasks again, but a task re-created under a
  running handler needs more edits or a later instant
  than they have, and `runtime_stop_wins` has
  no lost answer: for these `CompletionIsEarned` and `LedgerAgrees` rest on
  their theorems.
* Extraction. `NoPartialArtifact` needs no crash and no deletion.
  `RetainedIsStored` needs no outage after completion (`objectPath` stays set,
  so a later failure makes the catch block delete the archive of a completed
  backup, router.ts:941), no clean-up that read before the completion, and no
  concurrent DELETE. It says of a backup only what every retention in use says:
  each job prunes all backups by its own days and count (router.ts 824-836,
  1103-1104), so a schedule of one day removes a backup that was asked for with
  thirty. `ProcessingIsWorked` needs no failing statement.
* Runtime. `FrozenBotsStop` holds until a call has failed or a process died.
  `StopWins` needs `Grace = 0`: a stop saved again within the second after its
  instant, between its claim and the opening of its run, is missed by both
  look-ups. `LastEventWins` needs one worker (two replicas read the same rows;
  while one still executes an overdue start, the other skips it and executes the
  later stop, index.ts:428), no start or restart by hand, and no database
  statement that throws (a worker whose statement threw goes on with the next
  row of its batch, index.ts:432, so a stop may be executed before the earlier
  start). A process that follows a dead one is a second worker: it too passes
  over the start the dead one has leased, and takes that up after the stop.
  Failing runtime calls do no harm. The property is about instants, as the code
  sorts a batch by them (index.ts 421-424); guide.md:219 says that a tick
  executes freeze and stop before start whatever their instants, which is so
  only within one instant.
* Sessions. A login or change of password that read the row earlier opens a
  session after a sign-out; a refresh between its delete and create leaves a
  token behind (of no use, as `auth` asks for the session); clearing the session
  history forgets a sign-out; two asks at once leave two open resets; a
  confirmation sent twice applies its password twice. One reviewer and one
  moderator are assumed by `AppliedIsCompleted`, `StrikesCounted`,
  `DemotedOnce`. An automatic discipline writes back the status and level it
  read, and lifting an expired suspension lifts a newer ban.
* Chat. A role change, an invitation of a member, a late rejection or a ban can
  take the last manager: `GroupHasManager`, run and theorem, promises nothing of
  a conversation after one of these (`meddled`) nor while a request is about to
  repair it. Two users who open a direct conversation with each other at once
  get two; an edit restores the text of a message just deleted (no property
  speaks of texts); a lower sequence may be stored after a higher one was read;
  read marks may go back; quotas are read, incremented and written.
* Content. Two pushes on one base both apply; sequences committed out of order
  are skipped by a reader's cursor; a pushed deletion of a row that is not there
  is logged without a lock; likes and dislikes drift when one is withdrawn twice
  at once; a pushed deletion of lore leaves its reactions, because it names a
  type the tables do not have; a clean-up removes a file that was taken up after
  its table was read. `HeldFilesStay` is about rows no commit has touched since
  the clean-up began.
* Bot manager. One administrator is assumed: of two, activations can leave two
  main personalities, an account be deleted while it is bound, and the flag be
  lowered over an edit made during the reload. A change and the
  `markRuntimeDirty` after it are one step, so no process dies between them.
  Imports are excluded, and so are configuration secrets pulled from and pushed
  to the runtime (3204-3301), which write channels that `ChannelsDistinct` then
  does not cover. `BoundAccountFits` is about the column
  `runtimeProviderAccountId`: the profile beside it may name anything. `POST
  .../telegram/topics/manual` (5365) changes channels without raising the flag.
* Realtime. A restart begins the sequence anew, so tabs from before it (`stale`)
  are excepted; an event told to a viewer that has gone is forgotten. The
  teardown that runs twice for one socket counts presence down twice, and its
  second `unregister` deletes the entry a newer socket of the user has made
  meanwhile (events.ts 56-59): that socket is open, may have resumed, and gets
  no event until it opens another one. `ResumeFillsGap` is about sockets that
  are in the map; `DroppedByOldSockets` says that nothing else takes an open one
  out of it. The cursor of such a tab stands still, so `CursorSkipsNothing`
  needs no exception.

### Fairness

`scheduler_stalls`: weak fairness of a worker's next step, of its heartbeat and of
time. The event loop runs a continuation that is ready, timers fire, registered
handlers settle (their HTTP calls have time-outs). No step of a live worker is
disabled by another one: it finds its guard false and goes on. Faults, edits and
crashes are never forced.

`extraction_live`: weak fairness of a worker's next step; that collecting ends;
and that a processing job no live worker is at work on becomes silent for 30
minutes, which is the passing of time. No fairness for requests.

`memberships_follow`: weak fairness of each worker's next step (Express runs a
handler on; only a transaction waits, for one row). That listings recur is not
assumed but stated in the property, `[]<>StartReconcile`.

### Findings

* `accounts_two_desks`. `applyConfirmedReportDiscipline` writes a strike count
  computed from a row read before the transaction, so two moderators who confirm
  two reports on one account at once record one strike; the fourth confirmed
  report then bans nobody, which `service.ts:10` says it does.

Three more disagreements need no run to be seen and are described above: the
order of a tick (guide.md:219), the socket dropped by an older one's second
teardown, and backups pruned by another job's retention.

## Proofs

tlapm checks these for every value of the constants that satisfies the named
assumptions.

| Theorem | Says |
| --- | --- |
| `SchedulerProofs!TypeCorrect` | `Spec => []TypeOK` |
| `SchedulerProofs!CompletionEarned` | `Spec => []CompletionIsEarned`: success is never made up |
| `SchedulerProofs!MutualExclusion` | with `Timely` and `Grace = 0`: `Spec => []OneWorkerPerRun` |
| `SchedulerProofs!CompletedRunsStay` | under the same: `Spec => RunsStayCompleted` |
| `SchedulerProofs!LedgersAgree` | under the same: `Spec => []LedgerAgrees`: the task row and the run rows tell one story |
| `SchedulerProofs!HandledOnce` | with `Grace = 0`: `Spec => []ServedOnce` |
| `SchedulerProofs!NoInstantIsLost` | with `Grace = 0`: `Spec => NoInstantLost`, also when workers outlive their leases |
| `SchedulerProofs!RunsComeInOrder` | with one worker: `Spec => [](faults = 0 => RunsInOrder(w))`: the instants that have a run are the past of the queue; no row, and nothing in hand, names an earlier one |
| `RuntimeProofs!ImplementsScheduler` | `RuntimeSpec => Spec`: the runtime handlers keep the scheduler a scheduler, so its theorems hold of it too |
| `RuntimeProofs!RuntimeMutualExclusion` | with `Timely` and `Grace = 0`, what these give `RuntimeSpec`: one worker per run, completed runs stay, ledgers agree |
| `RuntimeProofs!RuntimeHandledOnce` | with `Grace = 0`: `RuntimeSpec => []ServedOnce` |
| `RuntimeProofs!RuntimeTypeCorrect` | `RuntimeSpec => []RuntimeTypeOK` |
| `RuntimeProofs!FrozenBotsAreStopped` | `RuntimeSpec => []FrozenBotsStop` |
| `RuntimeProofs!StopAlwaysWins` | with `Grace = 0`: `RuntimeSpec => []StopWins`, also with stalls, crashes and failing calls |
| `RuntimeProofs!LaterEventDecides` | with one worker: `RuntimeSpec /\ [][NoManualStart]_allvars => [](faults = 0 => LastEventWins)`, with any save grace, leases, crashes, freezes, manual stops and failing runtime calls |
| `ExtractionProofs!ExtractionTypes` | `Spec => []TypeOK` |
| `ExtractionProofs!OneActive` | `Spec => []OneActivePerAuthor`: one active job per author, one job per key |
| `ExtractionProofs!OneWorker` | `Spec => []OneWorkerPerJob` |
| `ExtractionProofs!NoneIsDropped` | `Spec => []ProcessingIsWorked`: without a failing statement no worker lets go of a job unsettled |
| `ExtractionProofs!FinishedStays` | `Spec => FinishedIsFinal`: the same of the rows, archive included, that `JobsAreALedger` says of the entries |
| `ExtractionProofs!JobsKeepTheLedger` | `Spec => JobsAreALedger`: the jobs implement `JobLedger`, also with crashes, failing statements and DELETEs |
| `ExtractionProofs!RetainedAreStored` | `Spec => [](Undisturbed => RetainedIsStored)`: with any retentions and days, and crashes |
| `ExtractionProofs!NoPartialLeft` | `Spec => [](Undisturbed /\ AllAlive => NoPartialArtifact)`: with any retentions and days |
| `AccountsProofs!OneTokenLeft` | `DisciplineSpec => []OneTokenPerSession` |
| `AccountsProofs!SignOutsHold` | with the session check on (`SecurityLevel >= 2`): `DisciplineSpec => SignedOutStaysOut` |
| `AccountsProofs!AppliedOnRecord` | `DisciplineSpec /\ []OneReview => []AppliedIsCompleted` |
| `AccountsProofs!StrikesTally` | `DisciplineSpec /\ []OneResolution => []StrikesCounted` |
| `AccountsProofs!DemotedAtMostOnce` | `DisciplineSpec /\ []OneResolution => []DemotedOnce` |
| `BotsProofs!MainIsUnique` | `Spec => []OneMainPersonality` |
| `BotsProofs!ChannelsStayDistinct` | `Spec => []ChannelsDistinct` |
| `BotsProofs!BoundAccountsFit` | `Spec => []BoundAccountFits`: of the account column |
| `BotsProofs!BehindMeansDirty` | `Spec => []BehindIsDirty` |
| `BotsProofs!PullsKeepTexts` | `Spec => PullKeepsBothTexts` |
| `ContentProofs!LatestIsTheRow` | `EngagementSpec => []LatestChangeIsTheRow` |
| `ContentProofs!CountersTally` | `EngagementSpec => []CountersAreRows` |
| `ContentProofs!AppliedAtMostOnce` | `EngagementSpec => AppliedOnce` |
| `ContentProofs!HeldFilesSurvive` | `EngagementSpec => HeldFilesStay` |
| `ChatProofs!MessagesStayTyped` | `MessagesSpec => []MessagesTypeOK`: a message's conversation exists as long as it does, and has counted its sequence, if that is not 0 |
| `ChatProofs!PostsComeInOrder` | `MessagesSpec => LaterPostsComeLater`: a post comes after all that was there when it drew its sequence |
| `ChatProofs!GroupsStayManaged` | `MessagesSpec => []GroupHasManager`: however many leave, are kicked and join at once, of conversations not `meddled` with |
| `ChatProofs!PostingIsALog` | `MessagesSpec => MessagesAreALog`: posting implements `MessageLog` |
| `RealtimeProofs!CursorsSkipNothing` | `Spec => []CursorSkipsNothing`: a cursor passes over nothing the user was told |
| `RealtimeProofs!ResumesFillGaps` | `Spec => []ResumeFillsGap`: a resume that was answered leaves no gap while its socket is in the map |
| `RealtimeProofs!OpenSocketsStay` | `Spec => DroppedByOldSockets`: an open socket leaves the map only by the teardown of an older one |

Assumptions: the `ASSUME`s of the modules, which type the constants and say that
a null is not a row (`RuntimeAssumption`: that a bot has one start task and one
stop task at most, as their keys are `runtime:<id>:start` and `runtime:<id>:stop`,
router.ts:4305; `ChatAssumption`: that requests beside one another are
finitely many, and that a conversation there at the start has an owner or admin,
as its maker is one; `FiledAssumption`: that the accounts at the start have the strikes
of the reports filed against them); TLC evaluates them in every run.

What else is assumed stands in the theorem. `Timely` (no live replica outlives
its lease) and `Grace = 0` (no schedule is saved within the second after one of
its instants) are not there for the proof's sake: "What the instances leave out"
says what TLC finds without them. `ServedOnce` says itself that nothing stalls,
dies or fails. `OneReview` and `OneResolution` say of a behaviour that no two
reviews of one request, no two resolutions on one account, are between their
read and their write at once; `accounts_two_desks` shows what happens otherwise.
They are weaker than "one reviewer" and "one moderator", which is what the runs
have. `Undisturbed` says that so far no statement of a worker has failed and no
administrator's DELETE or storage clean-up has begun, `AllAlive` that no replica
has died. They exclude what "What the instances leave out" says breaks the two
properties, and less than the run does, in which no replica dies. `faults = 0`
says that so far no statement of a tick has thrown; `NoManualStart` that nobody
starts or restarts a bot by hand (stops and cancelled freezes are free). "One
worker" is one process from its start to its death, with the tables empty at the
start; what the next process finds is excepted, for the reason given under
`LastEventWins` in "What the instances leave out".

`TypeInv` adds to the types that a worker inside `executeTask` has a row in hand
(`HasRow`) and has decided what it will write before it closes (`HasVerdict`).

`CompletionIsEarned` is not inductive: a worker about to write "completed" must
have earned it when it writes, possibly long after, with the row deleted and
re-created in between. `EarnedInv` adds `ClosingEarned` and `SkippingEarned` (a
worker that closes with success, or that found the run completed, has a success
on record if the row it works on is still current), `IdsSpent` (ids are never
given out twice, so a stale id never becomes current again) and `LastIsSet`.

`OneWorkerPerRun` follows from `LeaseProtects`: as long as a row names the
instant a worker executes, that worker has an unexpired lease on it, so `Claim`
is closed to others; `Tick` keeps this by `Timely`, and `Upsert` because with
`Grace = 0` it only writes instants still to come while a worker's instant has
come (`WorkIsDue`). When the row is advanced the instant never returns, as
`NextAfterExecution` is later than the clock. `RunsStayCompleted` adds
`OpensUnfinished`: between looking the run up and opening it, nobody else could
complete it.

The other properties of the scheduler build on these. `LedgerAgrees` compares two
tables at the last instant of a row. `LedgerInv` says where each may be written:
the last instant is past (`LastIsPast`) and is not that of a worker which may
still write its run (`Unrecorded`); of the two guarded updates that close a run,
the guard on the task implies the one on the run (`HolderOwnsRun`); who skips a
run does so because it is completed, and still is (`SkipsFinished`). For
`ServedOnce`, `ServedInv` accounts for every success while nothing has failed: it
is in the run row, or in the hands of the one worker about to write it there
(`Accounted`). `NoInstantLost` needs no lease: `ReadInv` says
that a row whose next instant is still the one a worker read has the schedule it
read (`SameSchedule`), since a save moves the instant, to a later one.

`ImplementsScheduler` needs no invariant: every statement of a handler but the
last leaves the scheduler's variables alone, and the last one is `Handler`.
`FrozenBotsStop` is inductive relative to the types and `HasBot` (whoever acts on
a bot has one): whoever is about to stop a bot stays about to until it has. What
makes this work is that no scheduler step moves a worker whose handler is under
way (`ScheduleFrozen`), so the bot it is about to stop cannot change. `DeadStays`
and `SmoothBefore` say that a state without faults has had none before.

`StopWins` is about two rows read in two statements by a worker that may sleep
in between. `StopInv` carries what the worker has seen (`StopSeen`): past the
first look-up no stop of its bot has the instant as its next one, past the
second none has it as its last one; between them neither has a stop task other
than the one read (`found`), as one saved anew has no last instant. Where the
first look-up finds no task there is no second one (`FindsNoTask`). It stays so
because an instant that has come is never written to `nextRunAt` again
(`ReadInv`), so that it cannot become the last one either; and the second
look-up would have found it, as the last instant of a row has a run (`HasRun` in
`BaseInv`).

`LastEventWins` is about two tasks and many ticks, and starts from what one
worker does to the queue (`OneInv`). While no statement throws, a row whose lease
is out and whose instant has come is in nobody's hands, so whatever a tick has
read and not yet executed is in its batch, the oldest first. `Queued` says so and
goes on saying so when schedules are saved or deleted under the loop, as a save
writes an instant that has come only to a task whose own instant that was.
Hence what is executed is the oldest instant any row names (`Oldest`), and no
run is younger than what is still to come (`RunsInOrder`, the theorem
`RunsComeInOrder`). This needs no assumption on leases or the grace: with one
worker a lease that runs out is taken by nobody else before the tick ends.
`Recorded` says that a stop the task row calls completed has a completed run.
`LaterInv` adds what the handlers contribute: a start that stands at its call has
found no run of a stop for its instant (`NoStopRun`), and there is none for a
later one, by the order; so a bot that runs although its stop is completed has a
start with a run of a later instant (`StartedLater`), which is what
`LastEventWins` excludes.

The theorems on extraction jobs share `JobsInv`. `OneWorkerPerJob` is not
inductive: a second worker could claim a job that somebody holds. `NotQueued`
says that a job in hand is never queued, which holds because no statement but an
insertion writes "queued", and `Born` that ids are given out once, so an
insertion never meets a job in hand. `HasJob` ties a worker's stage to its having
a job; `Worked` adds to `ProcessingIsWorked` the stages at which the holder has
still to settle the job (`Works`). All steps but claiming and inserting do the
same to a row, `JobsKept`: delete it, leave it, or settle it if it is active.
`WorkerMoves` and `OthersMove` draw the consequences of that once, and the lemma
of each action shows that it is such a step.

For `JobsAreALedger` each action is shown to make one entry or none (`Recorded`):
stopping a set of jobs, however it was read, is `Stop` of those still open;
completing and failing are `Finish` by the owner, as both are guarded by `Owns`.
Only pruning needs an invariant, as its list is a statement old: `PrunableSpent`,
what is on the list has an outcome or is gone. That stays true because the ledger
itself never takes an outcome back, so the step of the ledger already proved
gives it (`SpentStays`).

Rows and archives need `FilesInv`. `RetainedIsStored` is not inductive: a worker
completes its job long after the upload, and prunes in two statements, first the
files, then the rows, by a list that is old by then. `Saved` says that who may
still complete its job has uploaded it; `PrunedGone` and `PrunableLost` that
what is on such a list has lost its file and is `Lost`: given up by some
retention in use, for its age or because as many as its count are newer and
young (`Young`). The hard part is that deleting rows makes nobody less lost, as
other rows counted on the deleted ones; that is `StillLost`. Every row deleted
is lost itself, so what gave up the last of them stays, and is newer than all
the others; if that was its age, the older ones are too old as well, because ids
follow the days (`Dated`). `LostTomorrow` is the same of a day that passes:
archives that stop counting for their age are younger than the one they counted
against. `Placed` says where an archive may be, `NotDone` that a worker which
removes the archive of its job again has not completed it. Most steps touch no
archive and complete nothing; `CalmKeeps` does these at once, and the five that
do have a lemma each.

In `AccountsProofs` every action is first shown to keep `AccountsTypeInv`: the
types of the tables, and what each request carries at each statement (`Carries`).
`GoesOn`, `AnswerMoves` and `OthersCarry` do this once for what all handlers have
in common. Then each property has its own invariant over the same steps.
`RotationInv`: between taking a token and issuing the next one a refresh holds
its session alone, with no token of it in the table (`Held`); two refreshes of
one session cannot both take, as the row is there once. `SignOutInv`: logins that
were signed out are not open, every session is a login of its own, and a request
that ends sessions has on its list what is still open of those it was to end
(`Ending`); a session that is closed never opens again (`SessionsKeep`).
`ReviewInv`: a request about to be decided is still pending, one about to be
confirmed was approved. `StrikeInv`: strikes and tier tally with the reports, and
a resolution that is about to write has in hand what the row still says
(`InHand`), because nothing but a resolution writes strikes and tier (`RowKept`,
shown for all other steps in `AccountsOfSteps`).

`BotsInv` has four parts. `PeopleInv` is the three properties of the store, with
`MainInv` for the count. `FilesOK`, `RuntimeOK` and `SyncOK` type the workspaces
and what a synchronisation has still to do. `UpToDate` is what makes
`BehindIsDirty` inductive: between the load and its answer the runtime holds the
bundle, and while the flag is down and the pull under way has written nothing it
does so too. Every request of an administrator either raises the flag or leaves
the bundle as it is; that is one lemma for each request.

`ContentInv` is one invariant for the four properties of rows, log, files and
counters, as each needs the locks. `Exclusive`: a row is locked by one
transaction, because every statement that locks has waited. Per request, `Mine`
says what it has in hand. `Secured`: who appends or commits holds its row, or
deletes one that was not there, and its number is beyond those of all changes
that left the row something. `HeldOK`: rows held by a clean-up refer to the
file, and each table this shows in, the item's and that of its documents, is
still to be read or showed it (`Read`). `Covered`: marks to drop are there and
locked, a star or view to add is not there and is locked, so marks and counters
change by the same. `Rooted` and `Hanging`: what was never deleted is there, and
has its counters. `FreshId`: nobody else commits, or has committed, the mutation
one is about to commit. All actions but `Append` and `CommitAll` only replace
what one request has in hand; that they do so fittingly is a lemma for each
(`...Moves`), and `MovesKeep` says once what follows.

`PostingIsALog` needs what `MessagesTypeOK` does not say: that the sequence a
request has drawn and not yet used is nobody else's. `PostInv` adds `Fresh` (a
request about to store has a sequence its conversation has counted and no
message has), `Apart` (no two such requests of one conversation have the same),
`OneSeq` and `OneName` (what the two unique indexes keep), and `Counted` (each
sequence counted was drawn by a request of its own, so places stay within
`MaxRequests`; the message a group begins with has none). `PostsComeInOrder`
needs no more: what is there has a counted sequence (`Alive`), and a sequence
drawn is beyond the count (`DrawsTheNext`). `ClaimsKept` shows once that a step
which draws nothing and stores nothing keeps these; only `PostBegins`,
`TakeSequenceKeeps` and `StoreKeeps` argue anew. `ChatSteady` says what every
step of `ChatGroups` leaves alone: it never touches a request that posts, and a
conversation that has ended does not come back. For the refinement the log is
written as a function of the messages (`LogFrom`): storing is `Log!Post`
(`StoreIsPost`), the end of conversations and the beginning of groups `Log!Turn`
(`GroupsClear`), an edit does not show (`RewriteKeepsLog`), and all else leaves
the messages as they are.

`GroupHasManager` excuses a conversation a request is about to repair, and is
inductive only when that request really will: `GroupsKept` says that a
conversation without a manager has a request that `Helps` it, one that reads the
members again, that found nobody left, or whose list of active members is not
empty and names only people who are still in. The last is the point: whoever is
to be promoted was read in an earlier statement. If a leave or a kick has removed
one of them since, that request reads again in turn, and helps instead; where
anything else wrote an active member's row the property promises nothing
(`meddled`). A step
takes a manager away only as the start of such a request; all others are
`Harmless`, and `HarmlessKeeps` treats them at once.

`RealtimeInv` is one invariant for both invariants of `Realtime`. `Numbered`:
the numbers of two tellings do not overlap, so a cursor between them has all of
the first behind it. `Remembered`: the history holds what of the told is still
due, which `Kept` preserves however many events come at once. `SentOn` is the
heart of it: on a socket whose resume has been asked, whatever is written after
the answer is newer than all that was written before and all the tab has. So a
tab may move its cursor to the greatest number it has got once the answer has
come, and not before: an event told between the opening of the socket and its
resume overtakes the gap. A resume appends exactly the due events after the
cursor (`Gap`), and those up to the cursor were seen (`Skips`); a tab that
breaks keeps what it has got and forgets only what was on the wire, which is
newer than its cursor. `Gap` excepts what a tab misses whose socket is out of
the map (`Missed`), and says that this is newer than all it has. Without that
the invariant is of no use to the next event: a socket once out of the map never
comes back, so nothing is written to it that could carry the cursor over what
was missed. For `DroppedByOldSockets`, `RegistryInv` adds that whoever is in the
map holds the Set that is there (`HoldersOK`), so its own teardown takes away
only itself.

Only model-checked: the properties with fairness (`DueIsAdvanced`,
`JobsEnd`, `MembershipsConverge`), as liveness is out of tlapm's reach. Every
invariant and every other action property a run checks is also a theorem. No
model uses recursion.

## Not modelled

Listed with reasons in `PROJECT.json`. In short: restore and migration jobs (one
writer, no lease, no recovery: nothing promised that a model could check) and
Bot Manager's own backups; serialisation, ZIP layout, encryption, prompts and
the data contract (data conversion); comments, notifications, badges, command
center, visit statistics, presets (single rows, no protocol); security detectors
(functions of one request and of counters in memory); uploads, scanning and
storage drivers (I/O); seeds and migrations (data, schema).

## Plan

1. An at-least-once ledger of instants that `Scheduler` implements, as
   `ExtractionJobs` does `JobLedger`; what a restarted process owes the runs of
   the one before it.
2. The pulling client of the sync log, to say exactly what it may miss; Bot
   Manager's backup jobs beside deletion; a second administrator.
3. Comments and notifications beside the deletion of what they hang on.
