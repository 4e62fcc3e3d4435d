----------------------------- MODULE Discipline -----------------------------
(***************************************************************************)
(* Personnel: reports, their resolution, moderation, edits and creation of *)
(* accounts (modules/personnel), over the sessions they end.               *)
(*                                                                         *)
(* Composition: every request of Sessions can run beside the ones here;    *)
(* both walk through the same auth and write the same account rows.  The   *)
(* conversation memberships that follow an account are ChatGroups'.        *)
(***************************************************************************)
EXTENDS Sessions

CONSTANTS
  Grants,     \* <<level, role>> pairs that edits ask for
  Filed,      \* the reports there are at the start
  MaxReports  \* bound

ReportStatuses == {"open", "confirmed", "dismissed"}
Actions == {"none", "suspend", "demote", "ban", "auto-demote", "auto-ban"}
Report == [target : Users, status : ReportStatuses, action : Actions]

ASSUME DisciplineAssumption ==
  Grants \subseteq Levels \X Roles /\ Filed \in Seq(Report) /\ MaxReports \in Nat

\* The rows at the start are ones the handlers leave: a report has a target that
\* exists, and the target's row agrees with the reports confirmed before.
ASSUME FiledAssumption ==
  \A u \in Users :
    LET about == {i \in 1 .. Len(Filed) : Filed[i].target = u}
        struck == {i \in about : Filed[i].status = "confirmed"}
        demoted == {i \in struck : Filed[i].action = "auto-demote"} IN
    /\ InitAccount[u].status = "absent" => about = {}
    /\ InitAccount[u].strikes = Cardinality(struck)
    /\ Cardinality(demoted) <= 1 /\ (demoted # {} => InitAccount[u].tier >= 1)

VARIABLES
  reports,    \* PersonnelReport rows
  lifted      \* history: accounts a moderator set to active again

dvars == <<vars, reports, lifted>>
quiet == <<sessions, tokens, known, resets, made, signedOut, applied>>

PersonnelOperations == {"report", "resolve", "status", "remove", "edit", "bulk", "add", "directory"}

DisciplineInit == Init /\ reports = Filed /\ lifted = {}

Confirmed(u) == {i \in 1 .. Len(reports) : /\ reports[i].target = u
                                           /\ reports[i].status = "confirmed"}

(* The operations begin in auth.                                           *)
StartPersonnel(c) ==
  /\ \E s \in Sids : \/ StartAuthed(c, "report", "readReported", s)
                     \/ StartAuthed(c, "resolve", "readReport", s)
                     \/ StartAuthed(c, "status", "readTarget", s)
                     \/ StartAuthed(c, "remove", "readTarget", s)
                     \/ StartAuthed(c, "edit", "readEdited", s)
                     \/ StartAuthed(c, "bulk", "readEdited", s)
                     \/ StartAuthed(c, "add", "add", s)
                     \/ StartAuthed(c, "directory", "listDue", s)
  /\ UNCHANGED <<reports, lifted>>

\* Stops, or goes on with the row asked for.
Proceed(c, ok, at, arg) ==
  IF ok THEN req' = [req EXCEPT ![c].at = at, ![c].arg = arg] ELSE Answer(c)

-----------------------------------------------------------------------------
(* POST /reports *)
ReadReported(c) ==
  LET r == req[c] IN
  /\ At(c, "readReported")
  /\ \E u \in Users :
       Proceed(c, /\ r.seen.level >= 1 /\ u # r.as
                  /\ account[u].status \notin {"absent", "deleted"}
                  /\ account[u].role \notin {"author", "security"}, "file", u)
  /\ UNCHANGED <<account, quiet, reports, lifted>>

File(c) ==
  /\ At(c, "file") /\ Answer(c) /\ Len(reports) < MaxReports
  /\ reports' = Append(reports, [target |-> req[c].arg, status |-> "open", action |-> "none"])
  /\ UNCHANGED <<account, quiet, lifted>>

(* POST /reports/:id/resolve reads the report with its target, checks both *)
(* and applies everything in one transaction on the rows it read.          *)
\* Mutant: a confirmed report can be resolved again.
ResolvableTwice(p) == p.status # "dismissed"
Resolvable(p) == p.status = "open"

ReadReport(c) ==
  LET r == req[c] IN
  /\ At(c, "readReport")
  /\ \E i \in 1 .. Len(reports) :
       LET u == reports[i].target IN
       IF Resolvable(reports[i]) /\ u # r.as /\ canModerateAccount(r.seen, account[u])
       THEN req' = [req EXCEPT ![c].at = "resolve", ![c].arg = i, ![c].seen = account[u]]
       ELSE Answer(c)
  /\ UNCHANGED <<account, quiet, reports, lifted>>

\* The target's row after a confirmed report, by the moderator's choice; the
\* strikes are incremented by the database except in the automatic branch.
Punished(now, old, action, until) ==
  CASE action = "ban" -> [WithStatus(now, "banned", until) EXCEPT !.strikes = @ + 1, !.tier = 2]
    [] action = "suspend" -> [WithStatus(now, "suspended", until) EXCEPT !.strikes = @ + 1]
    [] action = "demote" -> [now EXCEPT !.level = Lower(old.level), !.strikes = @ + 1,
                                        !.role = roleForLevel(Lower(old.level)),
                                        !.tier = IF old.tier > 1 THEN old.tier ELSE 1]
    [] action = "none" -> Disciplined(now, old)

\* Mutant: a suspension, which passes, leaves the sessions alone.
EndedByBan(row, action) == row.status \in {"banned", "deleted"}
EndsSessions(row, action) == row.status # "active" /\ action # "demote"

Punish(c, action, until) ==
  LET r == req[c]  u == reports[r.arg].target
      row == Punished(account[u], r.seen, action, until) IN
  /\ account' = [account EXCEPT ![u] = row]
  /\ tokens' = IF EndsSessions(row, action) THEN tokens \ TokensOf(u) ELSE tokens
  /\ sessions' = IF EndsSessions(row, action) THEN Revoked(OpenOf(u)) ELSE sessions
  /\ signedOut' = IF row.status = "active" \/ action = "demote" THEN signedOut
                  ELSE signedOut \cup {Root(s) : s \in OpenOf(u)}
  /\ reports' = [reports EXCEPT ![r.arg].status = "confirmed",
                   ![r.arg].action = IF action = "none" THEN AutoAction(r.seen) ELSE action]

Resolve(c) ==
  /\ At(c, "resolve") /\ Answer(c)
  /\ \/ /\ reports' = [reports EXCEPT ![req[c].arg].status = "dismissed"]
        /\ UNCHANGED <<account, sessions, tokens, signedOut>>
     \/ \E action \in {"none", "suspend", "demote", "ban"}, until \in {"none", "ahead"} :
          /\ action \in {"none", "demote"} => until = "none"
          /\ Punish(c, action, until)
  /\ UNCHANGED <<known, resets, made, applied, lifted>>

-----------------------------------------------------------------------------
(* POST /:id/status and DELETE /:id read the target, then run              *)
(* updateAccountStatus in a transaction.                                   *)
ReadTarget(c) ==
  LET r == req[c] IN
  /\ At(c, "readTarget")
  /\ \E u \in Users :
       Proceed(c, /\ account[u].status # "absent" /\ u # r.as
                  /\ canModerateAccount(r.seen, account[u])
                  /\ r.op = "remove" => r.seen.level >= 7
                  /\ r.op = "status" => account[u].status # "deleted", "moderate", u)
  /\ UNCHANGED <<account, quiet, reports, lifted>>

Moderate(c) ==
  LET r == req[c] IN
  /\ At(c, "moderate") /\ Answer(c)
  /\ \E status \in IF r.op = "remove" THEN {"deleted"} ELSE {"active", "suspended", "banned"},
        until \in {"none", "ahead"} :
       /\ ChangeStatus(r.arg, status, until)
       /\ lifted' = IF status = "active" THEN lifted \cup {r.arg} ELSE lifted
  /\ UNCHANGED <<known, resets, made, applied, reports>>

(* PUT /:id by another account than one's own, with a level, a role or     *)
(* both, and PATCH /bulk with a level.  What is not sent is judged as it   *)
(* was read; a level that is not sent is not written, a role always is.    *)
(* Level 5 may write notes only, which are not in the row.                 *)
ReadEdited(c) ==
  LET r == req[c] IN
  /\ At(c, "readEdited")
  /\ \E u \in Users, g \in Grants,
        sent \in IF r.op = "edit" THEN {"level", "role", "both"} ELSE {"level"} :
       LET a == account[u]
           level == IF sent = "role" THEN a.level ELSE g[1]
           role == resolvePersonnelRole(level, IF sent = "level" THEN a.role ELSE g[2]) IN
       Proceed(c, /\ a.status # "absent" /\ u # r.as /\ r.seen.level >= 6
                  /\ IF r.op = "edit" THEN MayEdit(r.seen, a) /\ MayGrant(r.seen, level, role)
                     ELSE /\ ~Protected(a) /\ (r.seen.level = 6 => a.level < 7)
                          /\ level <= highestManageableLevel(r.seen.level),
               "write", <<u, level, role, sent # "role">>)
  /\ UNCHANGED <<account, quiet, reports, lifted>>

Write(c) ==
  LET a == req[c].arg IN
  /\ At(c, "write") /\ Answer(c)
  /\ account' = [account EXCEPT ![a[1]].level = IF a[4] THEN a[2] ELSE @,
                                  ![a[1]].role = a[3]]
  /\ UNCHANGED <<quiet, reports, lifted>>

\* POST /; the unique index refuses a name that is there.
Add(c) ==
  LET r == req[c] IN
  /\ At(c, "add") /\ Answer(c)
  /\ \E u \in Users, g \in Grants :
       LET role == resolvePersonnelRole(g[1], g[2]) IN
       account' = IF /\ r.seen.level >= 6 /\ MayGrant(r.seen, g[1], role)
                     /\ account[u].status = "absent"
                  THEN [account EXCEPT ![u] = NewAccount(g[1], role)] ELSE account
  /\ UNCHANGED <<quiet, reports, lifted>>

(* Every directory and report listing lifts the restrictions that ran out: *)
(* one read, then a row after the other. The directory asks for a level    *)
(* first, its lookup by name does not.                                     *)
ListDue(c) ==
  /\ At(c, "listDue")
  /\ LET due == {u \in Users : Due(account[u])} IN
     \/ (due = {} \/ req[c].seen.level < 4) /\ Answer(c)
     \/ due # {} /\ req' = [req EXCEPT ![c].at = "lift", ![c].arg = due]
  /\ UNCHANGED <<account, quiet, reports, lifted>>

Lift(c) ==
  /\ At(c, "lift")
  /\ \E u \in req[c].arg :
       /\ account' = [account EXCEPT ![u] = WithStatus(@, "active", "none")]
       /\ IF req[c].arg = {u} THEN Answer(c) ELSE req' = [req EXCEPT ![c].arg = @ \ {u}]
  /\ UNCHANGED <<quiet, reports, lifted>>

Personnel(c) ==
  \/ StartPersonnel(c) \/ ReadReported(c) \/ File(c) \/ ReadReport(c) \/ Resolve(c)
  \/ ReadTarget(c) \/ Moderate(c) \/ ReadEdited(c) \/ Write(c) \/ Add(c) \/ ListDue(c) \/ Lift(c)

DisciplineNext == \/ \E c \in Clients : Personnel(c)
                  \/ Next /\ UNCHANGED <<reports, lifted>>
DisciplineSpec == DisciplineInit /\ [][DisciplineNext]_dvars

-----------------------------------------------------------------------------
\* Strikes are the confirmed reports: with one moderator none is lost and none
\* counted twice, though the automatic branch writes back a count it read before
\* the transaction (personnel/service 148-208) while the account signs in,
\* changes its password, is edited or has a restriction lifted.
StrikesCounted == \A u \in Users : account[u].strikes = Cardinality(Confirmed(u))

\* "2 confirmed reports: one automatic demotion" (personnel/service 9): the tier
\* that remembers it survives everything that is written to the row meanwhile.
DemotedOnce ==
  \A u \in Users : Cardinality({i \in Confirmed(u) : reports[i].action = "auto-demote"}) <= 1

\* "4 confirmed reports: automatic ban and session revocation" (personnel/service
\* 10), where no moderator chose an action of his own and none lifted the ban.
ConfirmedReportsBan ==
  \A u \in Users :
    /\ Cardinality(Confirmed(u)) >= BanAt /\ u \notin lifted
    /\ \A i \in Confirmed(u) : reports[i].action \in {"none", "auto-demote", "auto-ban"}
    => account[u].status \in {"banned", "deleted"}
=============================================================================
