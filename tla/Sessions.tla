------------------------------ MODULE Sessions ------------------------------
(***************************************************************************)
(* Sign-in, refresh rotation, sign-out and password resets: the handlers   *)
(* of modules/auth, the session service and the session endpoints of       *)
(* modules/security.                                                       *)
(*                                                                         *)
(* A client has one request under way.  A request is a record that walks   *)
(* through the awaits of its handler; what it read earlier ("seen", "ids") *)
(* is carried along and may be stale when used; what the caller sent is    *)
(* chosen where the handler first looks at it.  A refresh token is its     *)
(* session with the second it was issued in: two tokens of a session from  *)
(* one second are the same JWT.                                            *)
(***************************************************************************)
EXTENDS Accounts, Sequences, FiniteSets

CONSTANTS
  Clients,        \* browsers, each with one request at a time
  Users,          \* accounts
  Owner,          \* [Clients -> Users], whose tokens a client presents
  InitAccount,    \* [Users -> Account], the rows at the start
  SignedIn,       \* the accounts of the sessions open at the start
  Asked,          \* the reset requests there are at the start
  SecurityLevel,  \* env.securityLevel
  Offered,        \* operations the clients of this instance call
  MaxRequests, MaxResets   \* bounds

Reset == [target : Users, password : Passwords,
          status : {"pending", "approved", "rejected", "completed", "cleared"}]

ASSUME SessionAssumption ==
  /\ Owner \in [Clients -> Users] /\ InitAccount \in [Users -> Account]
  /\ SignedIn \in Seq(Users) /\ Asked \in Seq(Reset)
  /\ SecurityLevel \in 1 .. 5 /\ MaxRequests \in Nat /\ MaxResets \in Nat

VARIABLES
  account,    \* User rows
  sessions,   \* SecuritySession rows, by order of creation
  tokens,     \* RefreshToken rows
  known,      \* refresh tokens some client was handed
  resets,     \* PasswordResetRequest rows
  req,        \* the request of each client
  made,       \* requests started, a bound
  signedOut,  \* history: logins a finished sign-out was to end
  applied     \* history: reset requests that changed a password

vars == <<account, sessions, tokens, known, resets, req, made, signedOut, applied>>

EnforceSessions == SecurityLevel >= 2   \* securityFeatures.routeRateLimit
ActiveDefense == SecurityLevel >= 4     \* securityFeatures.activeDefense

Operations == {"register", "login", "refresh", "logout", "password", "delete",
               "ask", "review", "confirm", "clearResets", "endSession", "clearSessions"}

Sids == 1 .. Len(sessions)
OpenOf(u) == {s \in Sids : sessions[s].user = u /\ sessions[s].state = "open"}
Root(s) == sessions[s].root
TokensOf(u) == {t \in tokens : sessions[t[1]].user = u}
Revoked(ids) == [s \in Sids |-> IF s \in ids /\ sessions[s].state = "open"
                                THEN [sessions[s] EXCEPT !.state = "revoked"] ELSE sessions[s]]
OpenResets(u) == {r \in 1 .. Len(resets) : /\ resets[r].target = u
                                           /\ resets[r].status \in {"pending", "approved"}}

\* op: the operation; at: its next step; then: where the handler begins after
\* auth; as: the account acted for; sid, gen: the token presented; arg: the row
\* asked for; had: sessions open when it was admitted; ids: sessions listed.
Idle == [op |-> "none", at |-> "idle", then |-> "idle", as |-> CHOOSE u \in Users : TRUE,
         sid |-> 0, gen |-> 0, arg |-> 0, had |-> {}, ids |-> {},
         seen |-> InitAccount[CHOOSE u \in Users : TRUE]]

Init ==
  /\ account = InitAccount
  /\ sessions = [s \in 1 .. Len(SignedIn) |-> [user |-> SignedIn[s], state |-> "open", root |-> s]]
  /\ tokens = Sids \X {0} /\ known = tokens /\ resets = Asked
  /\ req = [c \in Clients |-> Idle] /\ made = 0
  /\ signedOut = {} /\ applied = {}

Start(c, r) == /\ req[c].op = "none" /\ made < MaxRequests /\ r.op \in Offered
               /\ made' = made + 1
               /\ req' = [req EXCEPT ![c] = r]
GoTo(c, at) == req' = [req EXCEPT ![c].at = at]
Answer(c) == req' = [req EXCEPT ![c] = Idle]
At(c, at) == req[c].at = at

\* The read of the account that login, refresh and auth begin with, followed
\* by restoreExpiredAccountStatus if the restriction it shows has run out.
Read(r, u, next) ==
  [r EXCEPT !.as = u, !.seen = account[u],
            !.at = IF Due(account[u]) THEN "restore" ELSE next]

-----------------------------------------------------------------------------
(* The two statements of a lifted restriction outside a transaction: the   *)
(* update of the row and, elsewhere, the memberships that follow it.       *)
Restore(c) ==
  LET r == req[c] IN
  /\ At(c, "restore")
  /\ account' = [account EXCEPT ![r.as] = WithStatus(@, "active", "none")]
  /\ req' = [req EXCEPT ![c].seen = account'[r.as],
                        ![c].at = CASE r.op = "login" -> "open"
                                    [] r.op = "refresh" -> "issue"
                                    [] OTHER -> "session"]
  /\ UNCHANGED <<sessions, tokens, known, resets, made, signedOut, applied>>

NewAccount(level, role) ==
  [status |-> "active", until |-> "none", password |-> CHOOSE w \in Passwords : TRUE,
   level |-> level, role |-> role, strikes |-> 0, tier |-> 0]

(* POST /register: the check for an existing account, then its creation;   *)
(* the unique index refuses the second of two.                             *)
StartRegister(c, u) ==
  /\ account[u].status = "absent"
  /\ Start(c, [Idle EXCEPT !.op = "register", !.at = "create", !.as = u])
  /\ UNCHANGED <<account, sessions, tokens, known, resets, signedOut, applied>>

Create(c) ==
  LET u == req[c].as IN
  /\ At(c, "create")
  /\ IF account[u].status # "absent" THEN Answer(c) /\ UNCHANGED account
     ELSE /\ account' = [account EXCEPT ![u] =
               NewAccount(1, "personel")]
          /\ req' = [req EXCEPT ![c].at = "open", ![c].seen = account'[u]]
  /\ UNCHANGED <<sessions, tokens, known, resets, made, signedOut, applied>>

(* POST /login *)
StartLogin(c, u) ==
  /\ account[u].status # "absent"
  /\ Start(c, Read([Idle EXCEPT !.op = "login"], u, "open"))
  /\ UNCHANGED <<account, sessions, tokens, known, resets, signedOut, applied>>

Open(c) ==
  LET r == req[c] IN
  /\ At(c, "open")
  /\ \/ Answer(c) /\ UNCHANGED sessions   \* inactive account, wrong password
     \/ /\ r.seen.status = "active"
        /\ sessions' = Append(sessions, [user |-> r.as, state |-> "open",
                                           root |-> Len(sessions) + 1])
        /\ req' = [req EXCEPT ![c].at = "issue", ![c].sid = Len(sessions) + 1]
  /\ UNCHANGED <<account, tokens, known, resets, made, signedOut, applied>>

\* refreshToken.create of issueTokens and the answer; a client that never gets
\* it retries with an older token.  A refresh in the second of its predecessor
\* makes the same token again; the unique index refuses one that is there.
Issue(c) ==
  LET r == req[c] IN
  /\ At(c, "issue") /\ Answer(c)
  /\ \E gen \in IF r.op = "refresh" THEN {r.gen, r.gen + 1} ELSE {0} :
       LET t == <<r.sid, gen>> IN
       IF t \in tokens THEN UNCHANGED <<tokens, known>>
       ELSE /\ tokens' = tokens \cup {t}
            /\ known' = known \cup {t}
  /\ UNCHANGED <<account, sessions, resets, made, signedOut, applied>>

-----------------------------------------------------------------------------
(* POST /refresh: look up, delete, read the account, create.               *)
StartRefresh(c, t) ==
  /\ sessions[t[1]].user = Owner[c]
  /\ t \in tokens \/ ActiveDefense
  /\ Start(c, [Idle EXCEPT !.op = "refresh", !.as = Owner[c], !.sid = t[1], !.gen = t[2],
                           !.at = IF t \in tokens THEN "take" ELSE "drop",
                           !.had = OpenOf(Owner[c])])
  /\ UNCHANGED <<account, sessions, tokens, known, resets, signedOut, applied>>

\* Mutant: deleteMany, which does not throw.
TakeAny(c) ==
  /\ At(c, "take") /\ GoTo(c, "user")
  /\ tokens' = tokens \ {<<req[c].sid, req[c].gen>>}
  /\ UNCHANGED <<account, sessions, known, resets, made, signedOut, applied>>

\* refreshToken.delete throws for a row that is gone.
Take(c) ==
  LET t == <<req[c].sid, req[c].gen>> IN
  /\ At(c, "take")
  /\ IF t \in tokens THEN tokens' = tokens \ {t} /\ GoTo(c, "user")
                     ELSE Answer(c) /\ UNCHANGED tokens
  /\ UNCHANGED <<account, sessions, known, resets, made, signedOut, applied>>

\* Mutant: a refresh opens a session of its own.
OwnSession(c) ==
  /\ sessions' = Append(sessions, [user |-> req[c].as, state |-> "open", root |-> Root(req[c].sid)])
  /\ req' = [req EXCEPT ![c] = [Read(@, @.as, "issue") EXCEPT !.sid = Len(sessions) + 1]]

\* The session refreshed tokens belong to: the one of the token presented.
KeptSession(c) == /\ sessions' = sessions
                  /\ req' = [req EXCEPT ![c] = Read(@, @.as, "issue")]

ReadUser(c) ==
  LET u == req[c].as IN
  /\ At(c, "user")
  /\ IF account[u].status = "active" \/ Due(account[u])
     THEN KeptSession(c)
     ELSE GoTo(c, "purge") /\ UNCHANGED sessions
  /\ UNCHANGED <<account, tokens, known, resets, made, signedOut, applied>>

Purge(c) ==
  /\ At(c, "purge") /\ Answer(c)
  /\ tokens' = tokens \ TokensOf(req[c].as)
  /\ UNCHANGED <<account, sessions, known, resets, made, signedOut, applied>>

-----------------------------------------------------------------------------
(* auth: the account, then the session, then the handler of the operation. *)
StartAuthed(c, op, then, s) ==
  LET u == Owner[c] IN
  /\ s \in {t[1] : t \in known} /\ sessions[s].user = u
  /\ account[u].status = "active" \/ Due(account[u])
  /\ Start(c, Read([Idle EXCEPT !.op = op, !.then = then, !.sid = s],
                   u, "session"))
  /\ UNCHANGED <<account, sessions, tokens, known, resets, signedOut, applied>>

\* ensureSessionAllowed; a session whose row was cleared away is let through.
\* The rules of allow() are on the account that auth read.
NeedsMaintenance == {"review", "clearResets", "endSession", "clearSessions"}
Admit(c) ==
  LET r == req[c] IN
  /\ At(c, "session")
  /\ IF \/ EnforceSessions /\ sessions[r.sid].state = "revoked"
        \/ r.op \in NeedsMaintenance /\ ~hasPl7MaintenanceAccess(r.seen)
     THEN Answer(c)
     ELSE req' = [req EXCEPT ![c].at = r.then, ![c].had = OpenOf(r.as)]
  /\ UNCHANGED <<account, sessions, tokens, known, resets, made, signedOut, applied>>

(* deleteMany of the account's refresh tokens, then the two statements of  *)
(* revokeSecuritySessions.                                                 *)
Drop(c) ==
  /\ At(c, "drop") /\ GoTo(c, "list")
  /\ tokens' = tokens \ TokensOf(req[c].as)
  /\ UNCHANGED <<account, sessions, known, resets, made, signedOut, applied>>

ToRevoke(r, s) == IF r.op = "endSession" THEN {s} \cap OpenOf(sessions[s].user) ELSE OpenOf(r.as)

List(c) ==
  /\ At(c, "list")
  /\ \E s \in IF req[c].op = "endSession" THEN Sids ELSE {0} :
       req' = [req EXCEPT ![c].arg = s, ![c].ids = ToRevoke(req[c], s), ![c].at = "close"]
  /\ UNCHANGED <<account, sessions, tokens, known, resets, made, signedOut, applied>>

Close(c) ==
  LET r == req[c] IN
  /\ At(c, "close")
  /\ sessions' = Revoked(r.ids)
  /\ IF r.op = "endSession"
     THEN GoTo(c, "dropSession") /\ UNCHANGED signedOut
     ELSE Answer(c) /\ signedOut' = signedOut \cup {Root(s) : s \in r.had}
  /\ UNCHANGED <<account, tokens, known, resets, made, applied>>

\* POST /sessions/:id/revoke goes on with the tokens of that session.
DropSession(c) ==
  /\ At(c, "dropSession") /\ Answer(c)
  /\ tokens' = {t \in tokens : t[1] # req[c].arg}
  /\ signedOut' = signedOut \cup {Root(req[c].arg)}
  /\ UNCHANGED <<account, sessions, known, resets, made, applied>>

\* DELETE /sessions/history
ClearSessions(c) ==
  /\ At(c, "clearSessions") /\ Answer(c)
  /\ sessions' = [s \in Sids |-> IF sessions[s].state = "revoked"
                                 THEN [sessions[s] EXCEPT !.state = "cleared"] ELSE sessions[s]]
  /\ UNCHANGED <<account, tokens, known, resets, made, signedOut, applied>>

(* POST /change-password and DELETE /delete-account compare the password   *)
(* of a fresh read; the latter is one transaction.                         *)
Reread(c) ==
  LET r == req[c] IN
  /\ At(c, "reread")
  /\ \/ Answer(c)   \* wrong password
     \/ GoTo(c, IF r.op = "password" THEN "setPassword" ELSE "archive")
  /\ UNCHANGED <<account, sessions, tokens, known, resets, made, signedOut, applied>>

SetPassword(c) ==
  /\ At(c, "setPassword") /\ GoTo(c, "drop")
  /\ \E w \in Passwords : account' = [account EXCEPT ![req[c].as].password = w]
  /\ UNCHANGED <<sessions, tokens, known, resets, made, signedOut, applied>>

\* updateAccountStatus in a transaction.
ChangeStatus(u, status, until) ==
  /\ account' = [account EXCEPT ![u] = WithStatus(@, status, until)]
  /\ IF status = "active" THEN UNCHANGED <<tokens, sessions, signedOut>>
     ELSE /\ tokens' = tokens \ TokensOf(u)
          /\ sessions' = Revoked(OpenOf(u))
          /\ signedOut' = signedOut \cup {Root(s) : s \in OpenOf(u)}

Archive(c) ==
  /\ At(c, "archive") /\ Answer(c)
  /\ ChangeStatus(req[c].as, "deleted", "none")
  /\ UNCHANGED <<known, resets, made, applied>>

-----------------------------------------------------------------------------
(* Password reset requests: asked for by anybody who knows the names,      *)
(* reviewed by maintenance staff, confirmed with the password asked for.   *)
StartAsk(c, u) ==
  /\ account[u].status \notin {"absent", "deleted"}
  /\ Start(c, [Idle EXCEPT !.op = "ask", !.at = "checkOpen", !.as = u])
  /\ UNCHANGED <<account, sessions, tokens, known, resets, signedOut, applied>>

CheckOpen(c) ==
  /\ At(c, "checkOpen")
  /\ IF OpenResets(req[c].as) # {} THEN Answer(c) ELSE GoTo(c, "ask")
  /\ UNCHANGED <<account, sessions, tokens, known, resets, made, signedOut, applied>>

Ask(c) ==
  /\ At(c, "ask") /\ Answer(c) /\ Len(resets) < MaxResets
  /\ \E w \in Passwords :
       resets' = Append(resets, [target |-> req[c].as, status |-> "pending", password |-> w])
  /\ UNCHANGED <<account, sessions, tokens, known, made, signedOut, applied>>

\* Mutant: only a rejected request cannot be reviewed again.
ReviewableTwice(i) == resets[i].status \notin {"rejected", "cleared"}
Reviewable(i) == resets[i].status = "pending"

CheckPending(c) ==
  /\ At(c, "checkPending")
  /\ \E i \in 1 .. Len(resets) :
       IF ~Reviewable(i) THEN Answer(c)
       ELSE req' = [req EXCEPT ![c].arg = i, ![c].at = "decide"]
  /\ UNCHANGED <<account, sessions, tokens, known, resets, made, signedOut, applied>>

\* The update names the row and nothing else; a cleared row makes it throw.
Decide(c) ==
  LET i == req[c].arg IN
  /\ At(c, "decide") /\ Answer(c)
  /\ \E verdict \in {"approved", "rejected"} :
       resets' = IF resets[i].status = "cleared" THEN resets
                 ELSE [resets EXCEPT ![i].status = verdict]
  /\ UNCHANGED <<account, sessions, tokens, known, made, signedOut, applied>>

\* Any approved request of the account stands for the last reviewed one.
StartConfirm(c, i) ==
  /\ resets[i].status = "approved"
  /\ Start(c, [Idle EXCEPT !.op = "confirm", !.at = "confirm", !.arg = i,
                           !.as = resets[i].target])
  /\ UNCHANGED <<account, sessions, tokens, known, resets, signedOut, applied>>

\* One transaction, rolled back if the row was cleared away meanwhile.
Confirm(c) ==
  LET i == req[c].arg  u == resets[i].target IN
  /\ At(c, "confirm") /\ Answer(c)
  /\ IF resets[i].status = "cleared"
     THEN UNCHANGED <<account, sessions, tokens, resets, signedOut, applied>>
     ELSE /\ account' = [account EXCEPT ![u].password = resets[i].password]
          /\ resets' = [resets EXCEPT ![i].status = "completed"]
          /\ tokens' = tokens \ TokensOf(u)
          /\ sessions' = Revoked(OpenOf(u))
          /\ signedOut' = signedOut \cup {Root(s) : s \in OpenOf(u)}
          /\ applied' = applied \cup {i}
  /\ UNCHANGED <<known, made>>

\* DELETE /password-reset/requests/history
ClearResets(c) ==
  /\ At(c, "clearResets") /\ Answer(c)
  /\ resets' = [i \in 1 .. Len(resets) |->
       IF resets[i].status \in {"rejected", "completed"}
       THEN [resets[i] EXCEPT !.status = "cleared"] ELSE resets[i]]
  /\ UNCHANGED <<account, sessions, tokens, known, made, signedOut, applied>>

-----------------------------------------------------------------------------
TimePasses(u) ==
  /\ account[u].until = "ahead"
  /\ account' = [account EXCEPT ![u].until = "passed"]
  /\ UNCHANGED <<sessions, tokens, known, resets, req, made, signedOut, applied>>

Arrive(c) ==
  \/ \E u \in Users : StartRegister(c, u) \/ StartLogin(c, u) \/ StartAsk(c, u)
  \/ \E t \in known : StartRefresh(c, t)
  \/ \E s \in Sids : \/ StartAuthed(c, "logout", "drop", s)
                     \/ StartAuthed(c, "password", "reread", s)
                     \/ StartAuthed(c, "delete", "reread", s)
                     \/ StartAuthed(c, "endSession", "list", s)
                     \/ StartAuthed(c, "clearSessions", "clearSessions", s)
                     \/ StartAuthed(c, "review", "checkPending", s)
                     \/ StartAuthed(c, "clearResets", "clearResets", s)
  \/ \E i \in 1 .. Len(resets) : StartConfirm(c, i)

Continue(c) ==
  \/ Restore(c) \/ Create(c) \/ Open(c) \/ Issue(c) \/ Take(c) \/ ReadUser(c) \/ Purge(c)
  \/ Admit(c) \/ Drop(c) \/ List(c) \/ Close(c) \/ DropSession(c) \/ ClearSessions(c)
  \/ Reread(c) \/ SetPassword(c) \/ Archive(c)
  \/ CheckOpen(c) \/ Ask(c) \/ CheckPending(c) \/ Decide(c) \/ Confirm(c) \/ ClearResets(c)

Next == (\E c \in Clients : Arrive(c) \/ Continue(c)) \/ \E u \in Users : TimePasses(u)
Spec == Init /\ [][Next]_vars

-----------------------------------------------------------------------------
\* Rotation leaves one refresh token: however many refreshes of a session run
\* at once, and also when two fall into one second, it never has two live
\* tokens, for the delete of a row that is gone throws (refresh 242-281).
OneTokenPerSession == \A t, u \in tokens : t[1] = u[1] => t = u

\* Once a logout, a password change, a confirmed reset, a removal, a ban or a
\* reuse alarm is answered, no request on a login it was to end is admitted,
\* whatever refreshes of that login were under way: rotation keeps the session
\* id (issueTokens 157-179) and auth asks for the session (ensureSessionAllowed
\* 78-101).  Clearing the session history forgets the sign-out (88-96).
SignedOutStaysOut ==
  [][\A c \in Clients : At(c, "session") /\ req'[c].at \notin {"session", "idle"} =>
       \/ Root(req[c].sid) \notin signedOut
       \/ sessions[req[c].sid].state = "cleared"]_vars

\* A reset request that changed a password is on record as completed: with one
\* reviewer, nobody can find it rejected or open again (review 433-479 checks
\* and updates in two statements, confirm 481-526 in between).
AppliedIsCompleted == \A i \in applied : resets[i].status \in {"completed", "cleared"}
=============================================================================
