---------------------------- MODULE Memberships ----------------------------
(***************************************************************************)
(* Conversations that follow the directory: the institute, a division per  *)
(* track, a group per team (modules/chat/service), and the handlers of     *)
(* modules/personnel and modules/management that change what they follow.  *)
(*                                                                         *)
(* A handler writes a row and then one membership after the other, each    *)
(* an await; a transaction writes them all at once.  "todo" is what it     *)
(* still has to write, from the rows it read at the start.                 *)
(***************************************************************************)
EXTENDS Integers, FiniteSets, SequencesExt

CONSTANTS
  Workers,       \* requests the backend works on at one time
  Listers,       \* those of Workers on which conversations are listed
  People, Tracks, Teams,
  Levels,        \* the clearances of this instance
  InitPeople,    \* [People -> Row], the accounts at the start
  Kinds,         \* the management requests that are filed
  MaxChanges, MaxFailures   \* bounds: requests that change rows, failed ones

Row == [exists : BOOLEAN, active : BOOLEAN, level : 0 .. 7, track : Tracks]

ASSUME MembershipAssumption ==
  /\ Listers \subseteq Workers /\ InitPeople \in [People -> Row] /\ Levels \subseteq 0 .. 7
  /\ MaxChanges \in Nat /\ MaxFailures \in Nat

VARIABLES
  person,    \* User rows
  team,      \* Team rows: [made, leader, members]
  member,    \* active ChatConversationMember rows of each system conversation
  filed,     \* ManagementRequest rows
  quota,     \* QuotaRecord rows: [monthly, yearly, supervised]
  job,       \* what each worker is doing
  changes, failures   \* bounds

mvars == <<person, team, member, filed, quota, job, changes, failures>>
rows == <<person, team, filed, quota>>

Institute == "institute"
Conversations == {Institute} \cup Tracks \cup Teams
Payload(kind) == CASE kind = "transfer" -> Tracks [] kind = "clearance" -> Levels
                   [] kind \in {"add", "remove"} -> Teams \X People [] OTHER -> {0}

\* at: the next step; todo: the membership rows left to write; arg, seen: the
\* row worked on and what was read of it.
Idle == [op |-> "none", at |-> "idle", todo |-> <<>>, arg |-> 0, seen |-> 0]

MembershipInit ==
  /\ person = InitPeople
  /\ team = [t \in Teams |-> [made |-> FALSE, leader |-> CHOOSE p \in People : TRUE, members |-> {}]]
  /\ member = [c \in Conversations |-> {}]
  /\ filed = <<>> /\ quota = [p \in People |-> [monthly |-> 0, yearly |-> 0, supervised |-> 0]]
  /\ job = [w \in Workers |-> Idle] /\ changes = 0 /\ failures = 0

-----------------------------------------------------------------------------
(* upsertMember: one row of a conversation.  The rows of one call of the    *)
(* service belong to different conversations and are written together.     *)
Put(c, p, in) == [conv |-> c, in |-> IF in THEN {p} ELSE {}, out |-> IF in THEN {} ELSE {p}]
WriteCall(m, puts) ==
  [c \in Conversations |-> (m[c] \cup UNION {w.in : w \in {v \in puts : v.conv = c}})
                          \ UNION {w.out : w \in {v \in puts : v.conv = c}}]
WriteAll(m, todo) == FoldLeft(WriteCall, m, todo)

\* Mutant: the level without the account status.
LevelOnly(row) == row.level
effectiveLevel(row) == IF row.active THEN row.level ELSE 0

ensureInstituteMembership(p, level) == Put(Institute, p, level >= 1)
syncDivisionMembership(p, track, level) ==
  {Put(t, p, level >= 7 \/ (level >= 1 /\ t = track)) : t \in Tracks}
Synced(p, row, level) ==
  <<{ensureInstituteMembership(p, level)} \cup syncDivisionMembership(p, row.track, level)>>
syncTeamGroup(t, members) == <<{[conv |-> t, in |-> members, out |-> People \ members]}>>

\* reconcileAutoMemberships: from one read of the accounts, and then one of teams.
ActiveIn(rowsRead) == {p \in People : /\ rowsRead[p].exists /\ rowsRead[p].active
                                      /\ rowsRead[p].level >= 1}
ReconcilePeople(rowsRead) ==
  LET there == SetToSeq({p \in People : rowsRead[p].exists})
  IN FlattenSeq([i \in 1 .. Len(there) |->
                   Synced(there[i], rowsRead[there[i]], effectiveLevel(rowsRead[there[i]]))])
     \o <<{[conv |-> Institute, in |-> {}, out |-> People \ ActiveIn(rowsRead)]}>>
MembersOf(t) == {team[t].leader} \cup team[t].members
ReconcileTeams(active) ==
  LET made == SetToSeq({t \in Teams : team[t].made})
  IN FlattenSeq([i \in 1 .. Len(made) |-> syncTeamGroup(made[i], MembersOf(made[i]) \cap active)])

-----------------------------------------------------------------------------
At(w, at) == job[w].at = at
Do(w, j) == job' = [job EXCEPT ![w] = j]
Done(w) == Do(w, Idle)
Begin(w, j) == At(w, "idle") /\ changes < MaxChanges /\ changes' = changes + 1 /\ Do(w, j)

\* A handler with todo left writes the next row; what comes after is its "then".
Writing(todo, then) == [Idle EXCEPT !.op = then, !.at = "write", !.todo = todo]
Write(w) ==
  LET j == job[w] IN
  /\ At(w, "write")
  /\ IF j.todo = <<>>
     THEN /\ CASE j.op = "reconcile" -> Do(w, [j EXCEPT !.at = "snapshot"])
               [] j.op = "teams" -> Do(w, [j EXCEPT !.at = "teams"])
               [] OTHER -> Done(w)
          /\ UNCHANGED member
     ELSE /\ member' = WriteCall(member, Head(j.todo))
          /\ Do(w, [j EXCEPT !.todo = Tail(@)])
  /\ UNCHANGED <<rows, changes, failures>>

\* GET /conversations and POST /reconcile; they change no row they read.
StartReconcile(w) ==
  /\ w \in Listers
  /\ At(w, "idle") /\ Do(w, [Idle EXCEPT !.op = "reconcile", !.at = "snapshot"])
  /\ UNCHANGED <<rows, member, changes, failures>>
Snapshot(w) ==
  /\ At(w, "snapshot")
  /\ Do(w, [Writing(ReconcilePeople(person), "teams") EXCEPT !.seen = ActiveIn(person)])
  /\ UNCHANGED <<rows, member, changes, failures>>
ReadTeams(w) ==
  /\ At(w, "teams") /\ Do(w, Writing(ReconcileTeams(job[w].seen), "done"))
  /\ UNCHANGED <<rows, member, changes, failures>>

(* POST /register, POST / of personnel and PUT /:id: a row, then its       *)
(* memberships, outside a transaction.                                     *)
Enlist(w) ==
  /\ \E p \in People, l \in Levels, t \in Tracks :
       LET row == [exists |-> TRUE, active |-> TRUE, level |-> l, track |-> t] IN
       /\ ~person[p].exists
       /\ person' = [person EXCEPT ![p] = row]
       /\ Begin(w, Writing(Synced(p, row, l), "done"))
  /\ UNCHANGED <<team, filed, quota, member, failures>>

Edit(w) ==
  /\ \E p \in People, l \in Levels, t \in Tracks :
       LET row == [person[p] EXCEPT !.level = l, !.track = t] IN
       /\ person[p].exists
       /\ person' = [person EXCEPT ![p] = row]
       /\ Begin(w, Writing(Synced(p, row, effectiveLevel(row)), "done"))
  /\ UNCHANGED <<team, filed, quota, member, failures>>

\* PATCH /bulk: the same in one transaction.
BulkEdit(w) ==
  /\ At(w, "idle") /\ changes < MaxChanges /\ changes' = changes + 1
  /\ \E p \in People, l \in Levels, t \in Tracks :
       LET row == [person[p] EXCEPT !.level = l, !.track = t] IN
       /\ person[p].exists
       /\ person' = [person EXCEPT ![p] = row]
       /\ member' = WriteAll(member, Synced(p, row, effectiveLevel(row)))
  /\ UNCHANGED <<team, filed, quota, job, failures>>

\* updateAccountStatus in the transaction of a moderator: the account, its
\* memberships, and everybody's when the status is another one.
Status(w, p, row) ==
  /\ At(w, "idle") /\ changes < MaxChanges /\ changes' = changes + 1
  /\ person[p].exists
  /\ person' = [person EXCEPT ![p] = row]
  /\ LET own == WriteAll(member, Synced(p, row, effectiveLevel(row)))
         all == WriteAll(own, ReconcilePeople(person'))
     IN member' = IF row.active = person[p].active THEN own
                  ELSE WriteAll(all, ReconcileTeams(ActiveIn(person')))
  /\ UNCHANGED <<team, filed, quota, job, failures>>
Suspend(w, p) == \/ Status(w, p, [person[p] EXCEPT !.active = FALSE])
                 \/ Status(w, p, [person[p] EXCEPT !.active = FALSE, !.level = 0,
                                                   !.track = CHOOSE t \in Tracks : TRUE])
Reinstate(w) == \E p \in People : Status(w, p, [person[p] EXCEPT !.active = TRUE])

\* restoreExpiredAccountStatus: the same without a transaction.
RestoreExpired(w) ==
  /\ \E p \in People :
       LET row == [person[p] EXCEPT !.active = TRUE] IN
       /\ person[p].exists /\ ~person[p].active
       /\ person' = [person EXCEPT ![p] = row]
       /\ Begin(w, Writing(Synced(p, row, row.level), "reconcile"))
  /\ UNCHANGED <<team, filed, quota, member, failures>>

-----------------------------------------------------------------------------
(* modules/management: teams, requests and their decisions.                *)
CreateTeam(w) ==
  /\ \E t \in Teams, p \in ActiveIn(person), others \in SUBSET ActiveIn(person) :
       /\ ~team[t].made /\ person[p].level >= 3
       /\ p \notin others /\ \A o \in others : person[o].track = person[p].track
       /\ team' = [team EXCEPT ![t] = [made |-> TRUE, leader |-> p, members |-> others]]
       /\ Begin(w, Writing(syncTeamGroup(t, {p} \cup others), "done"))
  /\ UNCHANGED <<person, filed, quota, member, failures>>

File(w) ==
  /\ At(w, "idle") /\ changes < MaxChanges /\ changes' = changes + 1
  /\ \E kind \in Kinds, p \in ActiveIn(person) : \E to \in Payload(kind) :
       filed' = Append(filed, [kind |-> kind, by |-> p, track |-> person[p].track, to |-> to,
                               status |-> "pending", reviewer |-> p])
  /\ UNCHANGED <<person, team, quota, member, job, failures>>

\* DELETE /requests/mine/history and DELETE /requests/:id
ClearHistory(w) ==
  /\ At(w, "idle")
  /\ \E i \in 1 .. Len(filed), all \in BOOLEAN :
       /\ filed[i].status \in {"approved", "rejected"}
       /\ filed' = [k \in 1 .. Len(filed) |->
            IF (k = i \/ (all /\ filed[k].by = filed[i].by))
               /\ filed[k].status \in {"approved", "rejected"}
            THEN [filed[k] EXCEPT !.status = "cleared"] ELSE filed[k]]
  /\ UNCHANGED <<person, team, quota, member, job, changes, failures>>

canReview(f, p) ==
  /\ f.status = "pending" /\ f.by # p
  /\ \/ person[p].level >= 7
     \/ f.kind = "executive" /\ person[p].level >= 6
     \/ f.kind = "transfer" /\ person[p].level >= 5 /\ person[p].track = f.to
     \/ f.kind \notin {"executive", "transfer"} /\ person[p].level >= 4 /\ person[p].track = f.track

\* POST /requests/:id/decide: the check, then a transaction that reads what it
\* needs and writes it back; another transaction on the request waits.
CheckRequest(w) ==
  /\ \E i \in 1 .. Len(filed), p \in ActiveIn(person) :
       /\ canReview(filed[i], p)
       /\ Begin(w, [Idle EXCEPT !.op = "decide", !.at = "read", !.arg = i, !.seen = p])
  /\ UNCHANGED <<rows, member, failures>>

ReadForDecision(w) ==
  LET i == job[w].arg IN
  /\ At(w, "read")
  /\ \A v \in Workers : At(v, "commit") => job[v].arg # i
  /\ IF filed[i].status = "cleared" THEN Done(w)
     ELSE Do(w, [job[w] EXCEPT !.at = "commit",
                   !.seen = [reviewer |-> job[w].seen, by |-> person[filed[i].by],
                             team |-> team, quota |-> quota]])
  /\ UNCHANGED <<rows, member, changes, failures>>

Approve(w, i) ==
  LET f == filed[i]  seen == job[w].seen  by == seen.by  old == seen.team IN
  /\ CASE f.kind = "transfer" ->
            /\ person' = [person EXCEPT ![f.by].track = f.to]
            /\ member' = WriteCall(member, syncDivisionMembership(f.by, f.to, by.level))
            /\ UNCHANGED <<team, quota>>
       [] f.kind \in {"clearance", "executive"} ->
            LET level == IF f.kind = "executive" THEN 5 ELSE f.to IN
            /\ person' = [person EXCEPT ![f.by].level = level]
            /\ member' = WriteAll(member, Synced(f.by, by, level))
            /\ UNCHANGED <<team, quota>>
       [] f.kind \in {"add", "remove"} ->
            LET t == f.to[1]
                now == IF f.kind = "add" THEN old[t].members \cup {f.to[2]}
                       ELSE old[t].members \ {f.to[2]} IN
            /\ IF old[t].made
               THEN /\ team' = [team EXCEPT ![t].members = now]
                    /\ member' = WriteAll(member, syncTeamGroup(t, now \cup {old[t].leader}))
               ELSE UNCHANGED <<team, member>>
            /\ UNCHANGED <<person, quota>>
       [] f.kind = "personal" ->
            /\ quota' = [quota EXCEPT ![f.by].monthly = seen.quota[f.by].monthly + 1]
            /\ UNCHANGED <<person, team, member>>
       [] f.kind = "teamwork" ->
            /\ quota' = [quota EXCEPT ![f.by].yearly = seen.quota[f.by].yearly + 1,
                           ![seen.reviewer].supervised = seen.quota[seen.reviewer].supervised + 1]
            /\ UNCHANGED <<person, team, member>>
  /\ filed' = [filed EXCEPT ![i].status = "approved", ![i].reviewer = seen.reviewer]

Decide(w) ==
  LET i == job[w].arg IN
  /\ At(w, "commit") /\ Done(w)
  /\ \/ /\ filed' = [filed EXCEPT ![i].status = "rejected", ![i].reviewer = job[w].seen.reviewer]
        /\ UNCHANGED <<person, team, quota, member>>
     \/ Approve(w, i)
  /\ UNCHANGED <<changes, failures>>

-----------------------------------------------------------------------------
\* POST /reset of the chat with its system scopes: the rows go with the
\* conversations, which the next reconcile makes again.
ResetSystem(w) ==
  /\ At(w, "idle") /\ changes < MaxChanges /\ changes' = changes + 1
  /\ \E scope \in {{Institute} \cup Tracks, Teams} :
       member' = [c \in Conversations |-> IF c \in scope THEN {} ELSE member[c]]
  /\ UNCHANGED <<rows, job, failures>>

\* A statement fails and the handler answers 500; a transaction leaves nothing.
Fail(w) ==
  /\ ~At(w, "idle") /\ failures < MaxFailures /\ failures' = failures + 1
  /\ Done(w)
  /\ UNCHANGED <<rows, member, changes>>

Step(w) == Write(w) \/ Snapshot(w) \/ ReadTeams(w) \/ ReadForDecision(w) \/ Decide(w)
Change(w) == \/ Enlist(w) \/ Edit(w) \/ BulkEdit(w) \/ Reinstate(w) \/ RestoreExpired(w)
             \/ CreateTeam(w) \/ File(w) \/ ClearHistory(w) \/ CheckRequest(w) \/ ResetSystem(w)
             \/ \E p \in People : Suspend(w, p)

MembershipNext == \E w \in Workers : StartReconcile(w) \/ Change(w) \/ Step(w) \/ Fail(w)

\* Express runs every handler on: nothing waits for another request but a
\* transaction for the lock of its row.
MembershipSpec == /\ MembershipInit /\ [][MembershipNext]_mvars
                  /\ \A w \in Workers : WF_mvars(Step(w))

-----------------------------------------------------------------------------
Follows ==
  /\ member[Institute] = ActiveIn(person)
  /\ \A t \in Tracks : member[t] = {p \in ActiveIn(person) : person[p].level >= 7 \/ person[p].track = t}
  /\ \A t \in Teams : team[t].made => member[t] = MembersOf(t) \cap ActiveIn(person)

\* Memberships converge: if people go on listing their conversations, then once
\* accounts and teams have stopped changing, every system conversation has
\* exactly the active people of its source, although each handler writes them
\* one await after the other from rows that may be stale, two reconciles may
\* run at once, any of them may fail half-way and a reset may drop them all
\* (chat/service reconcileAutoMemberships 249-289).
MembershipsConverge ==
  []<><<\E w \in Workers : StartReconcile(w)>>_mvars => <>[]Follows
=============================================================================
