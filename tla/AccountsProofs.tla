--------------------------- MODULE AccountsProofs ---------------------------
(***************************************************************************)
(* Proofs about Sessions and Discipline composed, for any accounts,        *)
(* clients, reports and requests beside one another: one token per login,  *)
(* sign-outs that hold, resets on record, strikes and demotions.           *)
(***************************************************************************)
EXTENDS Discipline, FiniteSetTheorems, SequenceTheorems, TLAPS

Session == [user : Users, state : {"open", "revoked", "cleared"}, root : Nat]
\* Where the operations begin after auth.
Entries == {"idle", "drop", "reread", "list", "clearSessions", "checkPending", "clearResets",
            "readReported", "readReport", "readTarget", "readEdited", "add", "listDue"}
Stages == Entries \cup
  {"restore", "create", "open", "issue", "take", "user", "purge", "session", "close", "dropSession",
   "setPassword", "archive", "checkOpen", "ask", "decide", "confirm",
   "file", "resolve", "moderate", "write", "lift"}
Ops == Operations \cup PersonnelOperations \cup {"none"}
Args == Nat \cup Users \cup (SUBSET Users) \cup (Users \X Levels \X Roles \X BOOLEAN)
Requests == [op : Ops, at : Stages, then : Entries, as : Users, sid : Nat, gen : Nat,
             arg : Args, had : SUBSET Nat, ids : SUBSET Nat, seen : Account]

\* What a request carries at the stages that use it.
Carries(r) ==
  /\ r.had \subseteq Sids /\ r.ids \subseteq Sids
  /\ r.at \in {"issue", "take", "user", "session"} => r.sid \in Sids
  /\ r.at = "restore" /\ r.op # "login" => r.sid \in Sids
  /\ r.op = "endSession" /\ r.at = "close" => r.arg \in Sids
  /\ r.at = "dropSession" => r.arg \in Sids
  /\ r.at \in {"decide", "confirm"} => r.arg \in 1 .. Len(resets)
  /\ r.at = "resolve" => r.arg \in 1 .. Len(reports)
  /\ r.at \in {"file", "moderate"} => r.arg \in Users
  /\ r.at = "write" => r.arg \in Users \X Levels \X Roles \X BOOLEAN
  /\ r.at = "lift" => r.arg \in SUBSET Users

RowsOK ==
  /\ account \in [Users -> Account]
  /\ sessions \in Seq(Session)
  /\ tokens \subseteq Sids \X Nat /\ known \subseteq Sids \X Nat
  /\ resets \in Seq(Reset) /\ applied \subseteq 1 .. Len(resets)
  /\ reports \in Seq(Report)
RequestsOK == req \in [Clients -> Requests] /\ \A c \in Clients : Carries(req[c])
AccountsTypeInv == RowsOK /\ RequestsOK

-----------------------------------------------------------------------------
(* What is written to account rows. *)

LEMMA AccountWrites ==
  ASSUME NEW a \in Account
  PROVE  /\ \A status \in Statuses, until \in {"none", "ahead", "passed"} :
              /\ WithStatus(a, status, until) \in Account
              /\ WithStatus(a, status, until).strikes = a.strikes
              /\ WithStatus(a, status, until).tier = a.tier
              /\ WithStatus(a, status, until).status = status
         /\ \A l \in Levels : roleForLevel(l) \in Roles /\ Lower(l) \in Levels
         /\ \A level \in Levels, role \in Roles :
              [a EXCEPT !.level = level, !.role = role] \in Account
<1>1. ASSUME NEW status \in Statuses, NEW until \in {"none", "ahead", "passed"}
      PROVE  /\ WithStatus(a, status, until) \in Account
             /\ WithStatus(a, status, until).strikes = a.strikes
             /\ WithStatus(a, status, until).tier = a.tier
             /\ WithStatus(a, status, until).status = status
  <2> DEFINE u == IF status \in {"active", "deleted"} THEN "none" ELSE until
             l == IF status = "deleted" THEN 0 ELSE a.level
             r == IF status = "deleted" THEN "guest" ELSE a.role
  <2>1. u \in {"none", "ahead", "passed"} /\ l \in Levels /\ r \in Roles
    BY DEF Account, Levels, Roles
  <2>2. WithStatus(a, status, until) = [a EXCEPT !.status = status, !.until = u, !.level = l, !.role = r]
    BY DEF WithStatus
  <2> HIDE DEF u, l, r
  <2>. QED BY <2>1, <2>2 DEF Account
<1>2. \A l \in Levels : roleForLevel(l) \in Roles /\ Lower(l) \in Levels
  BY DEF roleForLevel, Lower, Roles, Levels
<1>3. \A level \in Levels, role \in Roles : [a EXCEPT !.level = level, !.role = role] \in Account
  BY DEF Account
<1>. QED BY <1>1, <1>2, <1>3

LEMMA NewAccountTyped ==
  ASSUME NEW a \in Account, NEW level \in Levels, NEW role \in Roles
  PROVE  /\ NewAccount(level, role) \in Account
         /\ NewAccount(level, role).strikes = 0 /\ NewAccount(level, role).tier = 0
         /\ NewAccount(level, role).status = "active"
<1>1. PICK w \in Passwords : w = (CHOOSE v \in Passwords : TRUE)
  BY DEF Account
<1>. QED BY <1>1 DEF NewAccount, Account, Statuses

LEMMA DisciplinedTyped ==
  ASSUME NEW a \in Account, NEW old \in Account
  PROVE  /\ Disciplined(a, old) \in Account
         /\ Disciplined(a, old).strikes = old.strikes + 1
         /\ Disciplined(a, old).tier = NewTier(old)
         /\ NewTier(old) >= old.tier
         /\ AutoAction(old) = "auto-demote" => NewTier(old) >= 1 /\ old.tier = 0
         /\ AutoAction(old) \in {"none", "auto-demote", "auto-ban"}
<1>1. /\ NewTier(old) \in 0 .. 2 /\ NewTier(old) >= old.tier
      /\ AutoAction(old) = "auto-demote" => NewTier(old) >= 1 /\ old.tier = 0
      /\ AutoAction(old) \in {"none", "auto-demote", "auto-ban"}
  BY ThresholdAssumption DEF NewTier, AutoAction, Account
<1>2. Lower(old.level) \in Levels /\ roleForLevel(Lower(old.level)) \in Roles /\ roleForLevel(old.level) \in Roles
  BY AccountWrites DEF Account
<1> DEFINE act == AutoAction(old)
           status == IF act = "auto-ban" THEN "banned" ELSE old.status
           level == IF act = "auto-demote" THEN Lower(old.level) ELSE old.level
           role == IF act = "auto-demote" THEN roleForLevel(level) ELSE old.role
           until == IF act # "none" /\ status # "active" THEN "none" ELSE a.until
           strikes == old.strikes + 1
           tier == NewTier(old)
<1>3. /\ status \in Statuses /\ level \in Levels /\ role \in Roles
      /\ until \in {"none", "ahead", "passed"} /\ strikes \in Nat /\ tier \in 0 .. 2
  BY <1>1, <1>2 DEF Account, Statuses
<1>4. Disciplined(a, old) = [a EXCEPT !.strikes = strikes, !.tier = tier, !.level = level,
                                      !.role = role, !.status = status, !.until = until]
  BY DEF Disciplined
<1> HIDE DEF status, level, role, until, strikes, tier
<1>5. Disciplined(a, old) \in Account
  BY <1>3, <1>4 DEF Account
<1>6. Disciplined(a, old).strikes = strikes /\ Disciplined(a, old).tier = tier
  BY <1>3, <1>4 DEF Account
<1>. QED BY <1>1, <1>5, <1>6 DEF strikes, tier

PunishedRow(row, a, old, action) ==
  /\ row \in Account
  /\ row.strikes = IF action = "none" THEN old.strikes + 1 ELSE a.strikes + 1
  /\ a.tier = old.tier => row.tier >= old.tier
  /\ action = "none" => row.tier = NewTier(old)

LEMMA PunishedTyped ==
  ASSUME NEW a \in Account, NEW old \in Account, NEW action \in {"none", "suspend", "demote", "ban"},
         NEW until \in {"none", "ahead"}
  PROVE  PunishedRow(Punished(a, old, action, until), a, old, action)
<1> USE DEF PunishedRow
<1>0. a.tier \in 0 .. 2 /\ old.tier \in 0 .. 2
  BY DEF Account
<1>1. CASE action = "none"
  BY <1>1, DisciplinedTyped DEF Punished
<1>5. ASSUME NEW b \in Account
      PROVE  /\ [b EXCEPT !.strikes = @ + 1] \in Account
             /\ [b EXCEPT !.strikes = @ + 1].strikes = b.strikes + 1
             /\ [b EXCEPT !.strikes = @ + 1].tier = b.tier
             /\ [b EXCEPT !.strikes = @ + 1, !.tier = 2].tier = 2
             /\ [b EXCEPT !.strikes = @ + 1, !.tier = 2] \in Account
             /\ [b EXCEPT !.strikes = @ + 1, !.tier = 2].strikes = b.strikes + 1
  <2>1. b.strikes + 1 \in Nat /\ 2 \in 0 .. 2
    BY DEF Account
  <2>. QED BY <2>1 DEF Account
<1>6. ASSUME NEW status \in {"banned", "suspended"}
      PROVE  WithStatus(a, status, until) \in Account /\ WithStatus(a, status, until).strikes = a.strikes
             /\ WithStatus(a, status, until).tier = a.tier
  <2>1. status \in Statuses /\ until \in {"none", "ahead", "passed"}
    BY DEF Statuses
  <2>. QED BY <2>1, AccountWrites
<1>2. CASE action = "ban"
  <2>1. Punished(a, old, action, until) = [WithStatus(a, "banned", until) EXCEPT !.strikes = @ + 1, !.tier = 2]
    BY <1>2 DEF Punished
  <2>2. /\ Punished(a, old, action, until) \in Account
        /\ Punished(a, old, action, until).strikes = a.strikes + 1
        /\ Punished(a, old, action, until).tier = 2
    BY <1>5, <1>6, <2>1
  <2>. QED BY <1>0, <1>2, <2>2
<1>3. CASE action = "suspend"
  <2>1. Punished(a, old, action, until) = [WithStatus(a, "suspended", until) EXCEPT !.strikes = @ + 1]
    BY <1>3 DEF Punished
  <2>2. /\ Punished(a, old, action, until) \in Account
        /\ Punished(a, old, action, until).strikes = a.strikes + 1
        /\ Punished(a, old, action, until).tier = a.tier
    BY <1>5, <1>6, <2>1
  <2>. QED BY <1>0, <1>3, <2>2
<1>4. CASE action = "demote"
  <2>1. Lower(old.level) \in Levels /\ roleForLevel(Lower(old.level)) \in Roles
    BY AccountWrites DEF Account
  <2> DEFINE l == Lower(old.level)
             r == roleForLevel(Lower(old.level))
             t == IF old.tier > 1 THEN old.tier ELSE 1
  <2>2. t \in 0 .. 2 /\ t >= old.tier
    BY <1>0
  <2>3. Punished(a, old, action, until) = [a EXCEPT !.level = l, !.strikes = @ + 1, !.role = r, !.tier = t]
    BY <1>4 DEF Punished
  <2>4. a.strikes + 1 \in Nat
    BY DEF Account
  <2> HIDE DEF l, r, t
  <2>5. l \in Levels /\ r \in Roles
    BY <2>1 DEF l, r
  <2>6. /\ [a EXCEPT !.level = l, !.strikes = @ + 1, !.role = r, !.tier = t] \in Account
        /\ [a EXCEPT !.level = l, !.strikes = @ + 1, !.role = r, !.tier = t].strikes = a.strikes + 1
        /\ [a EXCEPT !.level = l, !.strikes = @ + 1, !.role = r, !.tier = t].tier = t
    BY <2>2, <2>4, <2>5 DEF Account
  <2>. QED BY <1>4, <2>2, <2>3, <2>6
<1>. QED BY <1>1, <1>2, <1>3, <1>4

-----------------------------------------------------------------------------
(* How a request goes on. *)

LEMMA IdleOK ==
  ASSUME NEW c \in Clients
  PROVE  /\ Idle \in Requests /\ Carries(Idle)
         /\ Idle.at = "idle" /\ Idle.op = "none" /\ Idle.had = {} /\ Idle.ids = {}
         /\ Idle.sid = 0 /\ Idle.then = "idle" /\ Idle.arg = 0
<1>1. PICK u \in Users : u = (CHOOSE v \in Users : TRUE)
  BY SessionAssumption
<1>2. InitAccount[u] \in Account
  BY SessionAssumption
<1>3. Idle = [op |-> "none", at |-> "idle", then |-> "idle", as |-> u, sid |-> 0, gen |-> 0, arg |-> 0,
              had |-> {}, ids |-> {}, seen |-> InitAccount[u]]
  BY <1>1 DEF Idle
<1>4. 0 \in Args
  BY DEF Args
<1>5. Idle \in Requests
  BY <1>2, <1>3, <1>4 DEF Requests, Ops, Stages, Entries
<1>6. /\ Idle.at = "idle" /\ Idle.op = "none" /\ Idle.had = {} /\ Idle.ids = {}
      /\ Idle.sid = 0 /\ Idle.then = "idle" /\ Idle.arg = 0
  BY <1>3
<1>7. Carries(Idle)
  BY <1>6 DEF Carries
<1>. QED BY <1>5, <1>6, <1>7

\* One request goes on, and the others stay as they are.
Alone(c) == req' \in [Clients -> Requests] /\ \A d \in Clients \ {c} : req'[d] = req[d]
Moved(c, at) ==
  /\ Alone(c) /\ req'[c].at = at
  /\ req'[c].op = req[c].op /\ req'[c].then = req[c].then /\ req'[c].as = req[c].as
  /\ req'[c].sid = req[c].sid /\ req'[c].gen = req[c].gen /\ req'[c].arg = req[c].arg
  /\ req'[c].had = req[c].had /\ req'[c].ids = req[c].ids /\ req'[c].seen = req[c].seen
Answered(c) == Alone(c) /\ req'[c] = Idle

LEMMA GoToMoves ==
  ASSUME RequestsOK, NEW c \in Clients, NEW at \in Stages, GoTo(c, at)
  PROVE  Moved(c, at)
<1>1. req[c] \in Requests /\ req' = [req EXCEPT ![c] = [req[c] EXCEPT !.at = at]]
  BY DEF RequestsOK, GoTo
<1> DEFINE r == [req[c] EXCEPT !.at = at]
<1>2. /\ r \in Requests /\ r.at = at
      /\ r.op = req[c].op /\ r.then = req[c].then /\ r.as = req[c].as
      /\ r.sid = req[c].sid /\ r.gen = req[c].gen /\ r.arg = req[c].arg
      /\ r.had = req[c].had /\ r.ids = req[c].ids /\ r.seen = req[c].seen
  BY <1>1 DEF Requests
<1> HIDE DEF r
<1>3. req' = [req EXCEPT ![c] = r]
  BY <1>1 DEF r
<1>4. req'[c] = r /\ Alone(c)
  BY <1>2, <1>3 DEF RequestsOK, Alone
<1>. QED BY <1>2, <1>4 DEF Moved

LEMMA AnswerMoves ==
  ASSUME RequestsOK, NEW c \in Clients, Answer(c)
  PROVE  Answered(c)
BY IdleOK DEF RequestsOK, Answer, Answered, Alone

\* Stages whose requests hold something the invariants speak of.
Special == {"issue", "user", "restore", "close", "dropSession", "decide", "confirm", "file", "resolve"}
Strolls(c) ==
  /\ Alone(c) /\ req'[c].at \notin Special
  /\ \/ req'[c] = Idle
     \/ /\ req'[c].op = req[c].op /\ req'[c].as = req[c].as
        /\ req'[c].had \in {req[c].had, OpenOf(req[c].as)}

\* Goes on with what it had, at a stage the invariants do speak of.
Holds(c) == /\ Alone(c) /\ req'[c].op = req[c].op /\ req'[c].as = req[c].as
            /\ req'[c].had = req[c].had

LEMMA StrollsOn ==
  ASSUME NEW c \in Clients,
         \/ Answered(c)
         \/ /\ Alone(c) /\ req'[c].at \notin Special
            /\ req'[c].op = req[c].op /\ req'[c].as = req[c].as
            /\ req'[c].had \in {req[c].had, OpenOf(req[c].as)}
  PROVE  Strolls(c)
BY IdleOK DEF Strolls, Answered, Special

\* No table loses a row.
Grown ==
  /\ Len(sessions) \in Nat /\ Len(sessions') \in Nat /\ Len(sessions') >= Len(sessions)
  /\ Len(resets) \in Nat /\ Len(resets') \in Nat /\ Len(resets') >= Len(resets)
  /\ Len(reports) \in Nat /\ Len(reports') \in Nat /\ Len(reports') >= Len(reports)

LEMMA GrownSets ==
  ASSUME Grown
  PROVE  /\ Sids \subseteq Sids' /\ 1 .. Len(resets) \subseteq (1 .. Len(resets))'
         /\ 1 .. Len(reports) \subseteq (1 .. Len(reports))'
BY DEF Grown, Sids

LEMMA OthersCarry ==
  ASSUME RequestsOK, Grown, NEW c \in Clients, Alone(c), Carries(req[c])'
  PROVE  RequestsOK'
<1>1. ASSUME NEW d \in Clients, d # c PROVE Carries(req[d])'
  <2>1. req'[d] = req[d] /\ Carries(req[d])
    BY <1>1 DEF Alone, RequestsOK
  <2>. QED BY <2>1, GrownSets DEF Carries
<1>. QED BY <1>1 DEF Alone, RequestsOK

LEMMA AnsweredOK ==
  ASSUME RequestsOK, Grown, NEW c \in Clients, Answered(c)
  PROVE  RequestsOK'
<1>1. Carries(req[c])'
  BY IdleOK DEF Answered, Carries
<1>. QED BY <1>1, OthersCarry DEF Answered

\* Stages at which a request needs nothing but what it had.
Plain == Entries \cup {"restore", "create", "open", "take", "user", "purge", "issue", "session",
                      "setPassword", "archive", "checkOpen", "ask"}
LEMMA MovedOK ==
  ASSUME RequestsOK, Grown, NEW c \in Clients, NEW at \in Plain, Moved(c, at),
         at \in {"issue", "take", "user", "session", "restore"} => req[c].sid \in Sids
  PROVE  RequestsOK'
<1>1. Carries(req[c])'
  <2>1. req[c].had \subseteq Sids /\ req[c].ids \subseteq Sids
    BY DEF RequestsOK, Carries
  <2>. QED BY <2>1, GrownSets DEF Moved, Carries, Plain, Entries
<1>. QED BY <1>1, OthersCarry DEF Moved

-----------------------------------------------------------------------------
(* What happens to sessions. *)

\* Sessions stay, with their users, and at most end.
SessionsClose ==
  /\ sessions' \in Seq(Session) /\ Len(sessions') = Len(sessions)
  /\ \A s \in Sids : /\ sessions'[s].user = sessions[s].user /\ sessions'[s].root = sessions[s].root
                     /\ sessions[s].state # "open" => sessions'[s].state # "open"

LEMMA RevokedCloses ==
  ASSUME RowsOK, NEW ids, sessions' = Revoked(ids)
  PROVE  SessionsClose /\ \A s \in Sids : s \in ids => sessions'[s].state # "open"
<1>1. ASSUME NEW s \in Sids
      PROVE  /\ sessions'[s] \in Session
             /\ sessions'[s].user = sessions[s].user /\ sessions'[s].root = sessions[s].root
             /\ sessions[s].state # "open" => sessions'[s].state # "open"
             /\ s \in ids => sessions'[s].state # "open"
  <2>1. sessions[s] \in Session
    BY DEF RowsOK, Sids
  <2>. QED BY <2>1 DEF Revoked, Session
<1>2. sessions' = [s \in 1 .. Len(sessions) |-> sessions'[s]] /\ Len(sessions) \in Nat
  BY DEF Revoked, Sids, RowsOK
<1>3. sessions' \in Seq(Session) /\ Len(sessions') = Len(sessions)
  BY <1>1, <1>2 DEF Sids
<1>. QED BY <1>1, <1>3 DEF SessionsClose

LEMMA ClearedCloses ==
  ASSUME RowsOK, NEW c \in Clients, ClearSessions(c)
  PROVE  SessionsClose
<1>1. sessions' = [s \in Sids |-> IF sessions[s].state = "revoked"
                                 THEN [sessions[s] EXCEPT !.state = "cleared"] ELSE sessions[s]]
  BY DEF ClearSessions
<1>2. ASSUME NEW s \in Sids
      PROVE  /\ sessions'[s] \in Session
             /\ sessions'[s].user = sessions[s].user /\ sessions'[s].root = sessions[s].root
             /\ sessions[s].state # "open" => sessions'[s].state # "open"
  <2>1. sessions[s] \in Session
    BY DEF RowsOK, Sids
  <2>. QED BY <1>1, <2>1 DEF Session
<1>3. sessions' = [s \in 1 .. Len(sessions) |-> sessions'[s]] /\ Len(sessions) \in Nat
  BY <1>1 DEF Sids, RowsOK
<1>4. sessions' \in Seq(Session) /\ Len(sessions') = Len(sessions)
  BY <1>2, <1>3 DEF Sids
<1>. QED BY <1>2, <1>4 DEF SessionsClose

LEMMA SameSessionsClose ==
  ASSUME RowsOK, UNCHANGED sessions
  PROVE  SessionsClose
BY DEF SessionsClose, RowsOK

\* What ending an account's sessions does to the tables.
LEMMA OpenOfUser ==
  ASSUME NEW u PROVE OpenOf(u) \subseteq Sids /\ \A s \in Sids : sessions[s].user = u /\ sessions[s].state = "open" <=> s \in OpenOf(u)
BY DEF OpenOf

-----------------------------------------------------------------------------
(* Steps that change nothing but requests. *)

LEMMA RowsSame ==
  ASSUME RowsOK, UNCHANGED <<account, sessions, tokens, known, resets, applied, reports>>
  PROVE  RowsOK' /\ Grown
<1>1. Len(sessions) \in Nat /\ Len(resets) \in Nat /\ Len(reports) \in Nat
  BY DEF RowsOK
<1>. QED BY <1>1 DEF RowsOK, Grown, Sids

LEMMA StartedOK ==
  ASSUME RequestsOK, Grown, NEW c \in Clients, NEW r \in Requests, Carries(r), Start(c, r)
  PROVE  RequestsOK' /\ Alone(c) /\ req'[c] = r /\ req[c].op = "none" /\ r.op \in Offered
<1>1. Alone(c) /\ req'[c] = r /\ req[c].op = "none" /\ r.op \in Offered
  BY DEF Start, RequestsOK, Alone
<1>2. Carries(req[c])'
  BY <1>1, GrownSets DEF Carries
<1>. QED BY <1>1, <1>2, OthersCarry

LEMMA ReadTyped ==
  ASSUME RowsOK, NEW r \in Requests, NEW u \in Users, NEW next \in Stages
  PROVE  /\ Read(r, u, next) \in Requests
         /\ Read(r, u, next).at \in {"restore", next} /\ Read(r, u, next).as = u
         /\ Read(r, u, next).op = r.op /\ Read(r, u, next).then = r.then
         /\ Read(r, u, next).sid = r.sid /\ Read(r, u, next).gen = r.gen
         /\ Read(r, u, next).had = r.had /\ Read(r, u, next).ids = r.ids
         /\ Read(r, u, next).arg = r.arg
<1> DEFINE at == IF Due(account[u]) THEN "restore" ELSE next
           a == account[u]
<1>1. at \in Stages /\ at \in {"restore", next} /\ a \in Account
  BY DEF RowsOK, Stages
<1>2. Read(r, u, next) = [r EXCEPT !.as = u, !.seen = a, !.at = at]
  BY DEF Read
<1> HIDE DEF at, a
<1>. QED BY <1>1, <1>2 DEF Requests

LEMMA SidsAreNat == RowsOK => Sids \subseteq Nat /\ Len(sessions) \in Nat
BY DEF RowsOK, Sids

\* What a request is when it starts.
Begins(c) ==
  LET r == req'[c] IN
  /\ r.at \in Plain \cup {"confirm"} /\ r.at \notin {"issue", "user"} /\ r.op # "none"
  /\ r.at = "restore" => r.op # "refresh"
  /\ r.had \in {{}, OpenOf(r.as)}
  /\ r.at = "confirm" => r.arg \in 1 .. Len(resets) /\ resets[r.arg].status = "approved"

LEMMA StartsOK ==
  ASSUME AccountsTypeInv, NEW c \in Clients, UNCHANGED reports, Arrive(c) \/ StartPersonnel(c)
  PROVE  /\ RequestsOK' /\ Grown /\ RowsOK' /\ Alone(c) /\ req[c].op = "none"
         /\ UNCHANGED <<account, sessions, tokens, signedOut, applied, resets>>
         /\ Begins(c)
<1> USE DEF AccountsTypeInv
<1> DEFINE Goal == /\ RequestsOK' /\ Alone(c) /\ req[c].op = "none" /\ Begins(c)
<1>0. Idle \in Requests /\ Sids \subseteq Nat
  BY IdleOK, SidsAreNat
<1>1. ASSUME NEW u \in Users, StartRegister(c, u), Grown PROVE Goal
  <2> DEFINE r == [Idle EXCEPT !.op = "register", !.at = "create", !.as = u]
  <2>1. /\ r \in Requests /\ r.at = "create" /\ r.had = {} /\ r.ids = {} /\ r.op = "register"
    BY <1>0, IdleOK DEF Requests, Ops, Operations, Stages
  <2> HIDE DEF r
  <2>2. Carries(r) /\ Start(c, r)
    BY <1>1, <2>1 DEF Carries, StartRegister, r
  <2>. QED BY <1>1, <2>1, <2>2, StartedOK DEF Begins, Plain
<1>2. ASSUME NEW u \in Users, StartLogin(c, u), Grown PROVE Goal
  <2> DEFINE i == [Idle EXCEPT !.op = "login"]
             r == Read(i, u, "open")
  <2>1. /\ i \in Requests /\ i.had = {} /\ i.ids = {} /\ i.op = "login"
    BY <1>0, IdleOK DEF Requests, Ops, Operations
  <2> HIDE DEF i
  <2>2. /\ r \in Requests /\ r.at \in {"restore", "open"} /\ r.had = {} /\ r.ids = {} /\ r.op = "login"
    BY <2>1, ReadTyped DEF Stages
  <2> HIDE DEF r
  <2>3. Carries(r) /\ Start(c, r)
    BY <1>2, <2>2 DEF Carries, StartLogin, r, i
  <2>. QED BY <1>2, <2>2, <2>3, StartedOK DEF Begins, Plain
<1>3. ASSUME NEW u \in Users, StartAsk(c, u), Grown PROVE Goal
  <2> DEFINE r == [Idle EXCEPT !.op = "ask", !.at = "checkOpen", !.as = u]
  <2>1. /\ r \in Requests /\ r.at = "checkOpen" /\ r.had = {} /\ r.ids = {} /\ r.op = "ask"
    BY <1>0, IdleOK DEF Requests, Ops, Operations, Stages
  <2> HIDE DEF r
  <2>2. Carries(r) /\ Start(c, r)
    BY <1>3, <2>1 DEF Carries, StartAsk, r
  <2>. QED BY <1>3, <2>1, <2>2, StartedOK DEF Begins, Plain
<1>4. ASSUME NEW t \in known, StartRefresh(c, t), Grown PROVE Goal
  <2>1. t[1] \in Sids /\ t[2] \in Nat /\ Owner[c] \in Users
    BY SessionAssumption DEF RowsOK
  <2> DEFINE at == IF t \in tokens THEN "take" ELSE "drop"
             r == [Idle EXCEPT !.op = "refresh", !.as = Owner[c], !.sid = t[1], !.gen = t[2],
                               !.at = at, !.had = OpenOf(Owner[c])]
  <2>2. at \in {"take", "drop"} /\ at \in Stages /\ OpenOf(Owner[c]) \subseteq Sids
    BY DEF OpenOf, Stages, Entries
  <2> HIDE DEF at
  <2>3. /\ r \in Requests /\ r.at = at /\ r.had = OpenOf(Owner[c]) /\ r.ids = {} /\ r.op = "refresh" /\ r.sid = t[1]
        /\ r.as = Owner[c]
    BY <1>0, <2>1, <2>2, IdleOK DEF Requests, Ops, Operations
  <2> HIDE DEF r
  <2>4. Carries(r)
    BY <2>1, <2>2, <2>3 DEF Carries
  <2>5. Start(c, r)
    BY <1>4 DEF StartRefresh, r, at
  <2>6. RequestsOK' /\ Alone(c) /\ req'[c] = r /\ req[c].op = "none"
    BY <1>4, <2>3, <2>4, <2>5, StartedOK
  <2>. QED BY <2>2, <2>3, <2>6 DEF Begins, Plain, Entries
<1>5. ASSUME NEW op \in Ops \ {"login", "none", "refresh"}, NEW then \in Entries \ {"idle"}, NEW s \in Sids,
             StartAuthed(c, op, then, s), Grown
      PROVE  Goal
  <2> DEFINE i == [Idle EXCEPT !.op = op, !.then = then, !.sid = s]
             r == Read(i, Owner[c], "session")
  <2>1. /\ i \in Requests /\ i.had = {} /\ i.ids = {} /\ i.op = op /\ i.sid = s
    BY <1>0, IdleOK DEF Requests
  <2> HIDE DEF i
  <2>2. /\ r \in Requests /\ r.at \in {"restore", "session"} /\ r.had = {} /\ r.ids = {} /\ r.op = op /\ r.sid = s
    <3>1. Owner[c] \in Users /\ "session" \in Stages
      BY SessionAssumption DEF Stages
    <3>. QED BY <2>1, <3>1, ReadTyped
  <2> HIDE DEF r
  <2>3. Carries(r) /\ Start(c, r)
    BY <1>5, <2>2 DEF Carries, StartAuthed, r, i
  <2>. QED BY <1>5, <2>2, <2>3, StartedOK DEF Begins, Plain
<1>6. ASSUME NEW i \in 1 .. Len(resets), StartConfirm(c, i), Grown PROVE Goal
  <2>1. i \in Nat /\ resets[i].target \in Users
    <3>1. resets[i] \in Reset
      BY DEF RowsOK
    <3>. QED BY <3>1 DEF Reset
  <2> DEFINE r == [Idle EXCEPT !.op = "confirm", !.at = "confirm", !.arg = i, !.as = resets[i].target]
  <2>2. /\ r \in Requests /\ r.at = "confirm" /\ r.arg = i /\ r.had = {} /\ r.ids = {} /\ r.op = "confirm"
    BY <1>0, <2>1, IdleOK DEF Requests, Ops, Operations, Stages, Args
  <2> HIDE DEF r
  <2>3. Carries(r) /\ Start(c, r)
    BY <1>6, <2>2 DEF Carries, StartConfirm, r
  <2>4. RequestsOK' /\ Alone(c) /\ req'[c] = r /\ req[c].op = "none"
    BY <1>6, <2>2, <2>3, StartedOK
  <2>5. resets[i].status = "approved"
    BY <1>6 DEF StartConfirm
  <2>. QED BY <2>2, <2>4, <2>5 DEF Begins, Plain, Entries
<1>7. UNCHANGED <<account, sessions, tokens, known, resets, signedOut, applied>>
  BY DEF Arrive, StartPersonnel, StartRegister, StartLogin, StartAsk, StartRefresh, StartAuthed, StartConfirm
<1>8. RowsOK' /\ Grown
  BY <1>7, RowsSame
<1>9. CASE Arrive(c)
  <2>1. Goal
    BY <1>1, <1>2, <1>3, <1>4, <1>5, <1>6, <1>8, <1>9 DEF Arrive, Ops, Operations, Entries
  <2>. QED BY <1>7, <1>8, <2>1
<1>10. CASE StartPersonnel(c)
  <2>1. Goal
    BY <1>5, <1>8, <1>10 DEF StartPersonnel, Ops, PersonnelOperations, Entries
  <2>. QED BY <1>7, <1>8, <2>1
<1>. QED BY <1>9, <1>10

\* What a request writes to the tables, with the row it may add to each.
LEMMA RowsMove ==
  ASSUME RowsOK, account' \in [Users -> Account],
         \/ SessionsClose
         \/ \E row \in Session : sessions' = Append(sessions, row),
         tokens' \subseteq Sids \X Nat, known' \subseteq Sids \X Nat,
         resets' \in Seq(Reset), Len(resets') >= Len(resets), applied' \subseteq 1 .. Len(resets),
         reports' \in Seq(Report), Len(reports') >= Len(reports)
  PROVE  RowsOK' /\ Grown
<1>1. sessions' \in Seq(Session) /\ Len(sessions') >= Len(sessions)
  <2>1. sessions \in Seq(Session) /\ Len(sessions) \in Nat
    BY DEF RowsOK
  <2>2. CASE SessionsClose
    BY <2>1, <2>2 DEF SessionsClose
  <2>3. ASSUME NEW row \in Session, sessions' = Append(sessions, row)
        PROVE  sessions' \in Seq(Session) /\ Len(sessions') >= Len(sessions)
    BY <2>1, <2>3
  <2>. QED BY <2>2, <2>3
<1>2. Grown
  BY <1>1 DEF RowsOK, Grown
<1>3. Sids \subseteq Sids' /\ 1 .. Len(resets) \subseteq 1 .. Len(resets')
  BY <1>2, GrownSets
<1>. QED BY <1>1, <1>2, <1>3 DEF RowsOK

\* The tables a step leaves alone satisfy what RowsMove asks of them.
LEMMA TablesTyped ==
  ASSUME RowsOK
  PROVE  /\ UNCHANGED account => account' \in [Users -> Account]
         /\ UNCHANGED tokens => tokens' \subseteq Sids \X Nat
         /\ UNCHANGED known => known' \subseteq Sids \X Nat
         /\ UNCHANGED resets => resets' \in Seq(Reset) /\ Len(resets') >= Len(resets)
         /\ UNCHANGED applied => applied' \subseteq 1 .. Len(resets)
         /\ UNCHANGED reports => reports' \in Seq(Report) /\ Len(reports') >= Len(reports)
         /\ UNCHANGED sessions => SessionsClose
<1>1. Len(resets) \in Nat /\ Len(reports) \in Nat
  BY DEF RowsOK
<1>2. UNCHANGED sessions => SessionsClose
  BY SameSessionsClose
<1>3. ASSUME UNCHANGED resets PROVE resets' \in Seq(Reset) /\ Len(resets') >= Len(resets)
  BY <1>1, <1>3 DEF RowsOK
<1>4. ASSUME UNCHANGED reports PROVE reports' \in Seq(Report) /\ Len(reports') >= Len(reports)
  BY <1>1, <1>4 DEF RowsOK
<1>. QED BY <1>2, <1>3, <1>4 DEF RowsOK

LEMMA AccountsChange ==
  ASSUME RowsOK, account' \in [Users -> Account],
         UNCHANGED <<sessions, tokens, known, resets, applied, reports>>
  PROVE  RowsOK' /\ Grown
BY TablesTyped, RowsMove

LEMMA StatusChanges ==
  ASSUME RowsOK, NEW u \in Users, NEW status \in Statuses, NEW until \in {"none", "ahead", "passed"},
         ChangeStatus(u, status, until)
  PROVE  /\ account' \in [Users -> Account] /\ SessionsClose /\ tokens' \subseteq tokens
         /\ \A v \in Users : /\ account'[v].strikes = account[v].strikes
                             /\ account'[v].tier = account[v].tier
                             /\ account'[v].status = "absent" => v = u \/ account[v].status = "absent"
         /\ account'[u].status = status
<1>1. account[u] \in Account /\ account' = [account EXCEPT ![u] = WithStatus(account[u], status, until)]
  BY DEF RowsOK, ChangeStatus
<1>2. account' \in [Users -> Account]
  BY <1>1, AccountWrites DEF RowsOK
<1>3. /\ account'[u].strikes = account[u].strikes /\ account'[u].tier = account[u].tier
      /\ account'[u].status = status
  BY <1>1, AccountWrites DEF RowsOK
<1>4. \A v \in Users \ {u} : account'[v] = account[v]
  BY <1>1 DEF RowsOK
<1>5. SessionsClose /\ tokens' \subseteq tokens
  BY RevokedCloses, SameSessionsClose DEF ChangeStatus
<1>. QED BY <1>2, <1>3, <1>4, <1>5

-----------------------------------------------------------------------------
(* The statements of Sessions are well typed. *)

\* A step that goes to another stage, or ends, and adds to no table.
LEMMA GoesOn ==
  ASSUME AccountsTypeInv, NEW c \in Clients, Grown,
         \/ Answered(c)
         \/ \E at \in Plain \ {"issue", "take", "user", "session", "restore"} : Moved(c, at)
  PROVE  RequestsOK' /\ Strolls(c)
<1>1. CASE Answered(c)
  BY <1>1, AnsweredOK, StrollsOn DEF AccountsTypeInv
<1>2. ASSUME NEW at \in Plain \ {"issue", "take", "user", "session", "restore"}, Moved(c, at)
      PROVE  RequestsOK' /\ Strolls(c)
  <2>1. RequestsOK'
    BY <1>2, MovedOK DEF AccountsTypeInv
  <2>2. at \notin Special
    BY DEF Plain, Entries, Special
  <2>. QED BY <1>2, <2>1, <2>2, StrollsOn DEF Moved
<1>. QED BY <1>1, <1>2

LEMMA RestoreOK ==
  ASSUME AccountsTypeInv, NEW c \in Clients, UNCHANGED reports, Restore(c)
  PROVE  /\ AccountsTypeInv' /\ Grown /\ Holds(c)
         /\ req'[c].at \in {"open", "issue", "session"} /\ req'[c].sid = req[c].sid
         /\ req'[c].at = "issue" => req[c].op = "refresh"
<1> USE DEF AccountsTypeInv
<1> DEFINE u == req[c].as
           row == WithStatus(account[u], "active", "none")
           at == CASE req[c].op = "login" -> "open" [] req[c].op = "refresh" -> "issue" [] OTHER -> "session"
<1>1. req[c] \in Requests /\ u \in Users /\ account[u] \in Account /\ Carries(req[c])
  BY DEF RequestsOK, RowsOK, Requests
<1>2. row \in Account
  BY <1>1, AccountWrites DEF Statuses
<1>3. account' = [account EXCEPT ![u] = row] /\ account'[u] = row
  BY <1>1 DEF Restore, RowsOK
<1>4. RowsOK' /\ Grown
  <2>1. account' \in [Users -> Account]
    BY <1>2, <1>3 DEF RowsOK
  <2>2. UNCHANGED <<sessions, tokens, known, resets, applied>>
    BY DEF Restore
  <2>. QED BY <2>1, <2>2, AccountsChange
<1>5. at \in {"open", "issue", "session"} /\ at \in Stages /\ (at # "open" => req[c].op # "login")
      /\ (at = "issue" => req[c].op = "refresh")
  BY DEF Stages
<1>6. req' = [req EXCEPT ![c].seen = row, ![c].at = at]
  BY <1>3 DEF Restore
<1> HIDE DEF at, row
<1>7. /\ Alone(c) /\ req'[c].at = at /\ req'[c].sid = req[c].sid /\ req'[c].had = req[c].had
      /\ req'[c].ids = req[c].ids /\ req'[c].op = req[c].op /\ req'[c].as = req[c].as
  BY <1>1, <1>2, <1>5, <1>6 DEF RequestsOK, Requests, Alone
<1>8. req[c].at = "restore"
  BY DEF Restore, At
<1>9. Carries(req[c])'
  BY <1>1, <1>4, <1>5, <1>7, <1>8, GrownSets DEF Carries
<1>. QED BY <1>4, <1>5, <1>7, <1>9, OthersCarry DEF Holds

LEMMA CreateOK ==
  ASSUME AccountsTypeInv, NEW c \in Clients, UNCHANGED reports, Create(c)
  PROVE  AccountsTypeInv' /\ Grown /\ Strolls(c)
<1> USE DEF AccountsTypeInv
<1> DEFINE u == req[c].as
           row == NewAccount(1, "personel")
<1>1. req[c] \in Requests /\ u \in Users /\ account[u] \in Account /\ Carries(req[c])
  BY DEF RequestsOK, RowsOK, Requests
<1>2. row \in Account
  BY <1>1, NewAccountTyped DEF Levels, Roles
<1>3. CASE account[u].status # "absent"
  <2>1. RowsOK' /\ Grown
    BY <1>3, RowsSame DEF Create
  <2>. QED BY <1>3, <2>1, AnswerMoves, GoesOn DEF Create
<1>4. CASE account[u].status = "absent"
  <2>1. account' = [account EXCEPT ![u] = row]
    BY <1>4 DEF Create
  <2> HIDE DEF row
  <2>2. RowsOK' /\ Grown
    <3>1. account' \in [Users -> Account]
      BY <1>2, <2>1 DEF RowsOK
    <3>2. UNCHANGED <<sessions, tokens, known, resets, applied>>
      BY DEF Create
    <3>. QED BY <3>1, <3>2, AccountsChange
  <2>3. account'[u] = row
    BY <1>1, <2>1 DEF RowsOK
  <2>4. req' = [req EXCEPT ![c].at = "open", ![c].seen = row]
    BY <1>4, <2>3 DEF Create
  <2>5. /\ Alone(c) /\ req'[c].at = "open" /\ req'[c].had = req[c].had /\ req'[c].ids = req[c].ids
        /\ req'[c].op = req[c].op /\ req'[c].as = req[c].as
    BY <1>1, <1>2, <2>4 DEF RequestsOK, Requests, Alone, Stages
  <2>6. Carries(req[c])'
    BY <1>1, <2>2, <2>5, GrownSets DEF Carries
  <2>. QED BY <2>2, <2>5, <2>6, OthersCarry, StrollsOn DEF Special
<1>. QED BY <1>3, <1>4

LEMMA OpenOK ==
  ASSUME AccountsTypeInv, NEW c \in Clients, UNCHANGED reports, Open(c)
  PROVE  /\ AccountsTypeInv' /\ Grown
         /\ \/ Answered(c) /\ UNCHANGED sessions
            \/ /\ sessions' = Append(sessions, [user |-> req[c].as, state |-> "open",
                                               root |-> Len(sessions) + 1])
               /\ Holds(c) /\ req'[c].at = "issue" /\ req'[c].sid = Len(sessions) + 1
<1> USE DEF AccountsTypeInv
<1>1. CASE Answer(c) /\ UNCHANGED sessions
  <2>1. RowsOK' /\ Grown
    BY <1>1, RowsSame DEF Open
  <2>. QED BY <1>1, <2>1, AnswerMoves, GoesOn
<1>2. CASE ~(Answer(c) /\ UNCHANGED sessions)
  <2> DEFINE row == [user |-> req[c].as, state |-> "open", root |-> Len(sessions) + 1]
             s == Len(sessions) + 1
  <2>1. req[c] \in Requests /\ req[c].as \in Users /\ Carries(req[c]) /\ Len(sessions) \in Nat
    BY DEF RequestsOK, RowsOK, Requests
  <2>2. row \in Session /\ s \in Nat
    BY <2>1 DEF Session
  <2>3. sessions' = Append(sessions, row) /\ req' = [req EXCEPT ![c].at = "issue", ![c].sid = s]
    BY <1>2 DEF Open
  <2> HIDE DEF row
  <2>4. RowsOK' /\ Grown
    <3>1. UNCHANGED <<account, tokens, known, resets, applied, reports>>
      BY DEF Open
    <3>2. \E new \in Session : sessions' = Append(sessions, new)
      BY <2>2, <2>3
    <3>. QED BY <3>1, <3>2, TablesTyped, RowsMove
  <2>5. s \in Sids'
    BY <2>1, <2>3, <2>4 DEF Sids, RowsOK
  <2> HIDE DEF s
  <2>6. /\ Alone(c) /\ req'[c].at = "issue" /\ req'[c].sid = s /\ req'[c].had = req[c].had /\ req'[c].ids = req[c].ids
        /\ req'[c].op = req[c].op /\ req'[c].as = req[c].as
    BY <2>1, <2>2, <2>3 DEF RequestsOK, Requests, Alone, Stages
  <2>7. Carries(req[c])'
    BY <2>1, <2>4, <2>5, <2>6, GrownSets DEF Carries
  <2>8. RequestsOK' /\ Holds(c)
    BY <2>4, <2>6, <2>7, OthersCarry DEF Holds
  <2>. QED BY <2>3, <2>4, <2>6, <2>8 DEF row, s
<1>. QED BY <1>1, <1>2

LEMMA IssueOK ==
  ASSUME AccountsTypeInv, NEW c \in Clients, UNCHANGED reports, Issue(c)
  PROVE  AccountsTypeInv' /\ Grown /\ Strolls(c)
<1> USE DEF AccountsTypeInv
<1>1. req[c] \in Requests /\ req[c].sid \in Sids /\ req[c].gen \in Nat
  BY DEF RequestsOK, Carries, Requests, Issue, At
<1>2. PICK gen \in IF req[c].op = "refresh" THEN {req[c].gen, req[c].gen + 1} ELSE {0} :
         LET t == <<req[c].sid, gen>> IN
         IF t \in tokens THEN UNCHANGED <<tokens, known>>
         ELSE /\ tokens' = tokens \cup {t}
              /\ known' = known \cup {t}
  BY DEF Issue
<1>3. <<req[c].sid, gen>> \in Sids \X Nat
  BY <1>1
<1>4. tokens' \subseteq Sids \X Nat /\ known' \subseteq Sids \X Nat
  BY <1>2, <1>3 DEF RowsOK
<1>5. UNCHANGED <<account, sessions, resets, reports, applied>>
  BY DEF Issue
<1>6. /\ RowsOK /\ SessionsClose /\ account' \in [Users -> Account]
      /\ resets' \in Seq(Reset) /\ Len(resets') >= Len(resets) /\ applied' \subseteq 1 .. Len(resets)
      /\ reports' \in Seq(Report) /\ Len(reports') >= Len(reports)
  BY <1>5, SameSessionsClose DEF RowsOK
<1>7. RowsOK' /\ Grown
  BY <1>4, <1>6, RowsMove
<1>. QED BY <1>7, AnswerMoves, GoesOn DEF Issue

LEMMA TakeOK ==
  ASSUME AccountsTypeInv, NEW c \in Clients, UNCHANGED reports, Take(c)
  PROVE  /\ AccountsTypeInv' /\ Grown
         /\ \/ Answered(c) /\ UNCHANGED tokens
            \/ /\ <<req[c].sid, req[c].gen>> \in tokens
               /\ tokens' = tokens \ {<<req[c].sid, req[c].gen>>}
               /\ Moved(c, "user")
<1> USE DEF AccountsTypeInv
<1>1. tokens' \subseteq Sids \X Nat
  BY DEF Take, RowsOK
<1>2. RowsOK' /\ Grown
  BY <1>1, RowsMove, SameSessionsClose DEF Take, RowsOK
<1>3. req[c].sid \in Sids
  BY DEF Take, At, RequestsOK, Carries
<1>4. CASE <<req[c].sid, req[c].gen>> \in tokens
  <2>1. Moved(c, "user")
    BY <1>4, GoToMoves DEF Take, Stages
  <2>2. RequestsOK'
    BY <1>2, <1>3, <2>1, MovedOK DEF Plain
  <2>. QED BY <1>2, <1>4, <2>1, <2>2 DEF Take
<1>5. CASE <<req[c].sid, req[c].gen>> \notin tokens
  <2>1. Answered(c) /\ UNCHANGED tokens
    BY <1>5, AnswerMoves DEF Take
  <2>. QED BY <1>2, <2>1, GoesOn
<1>. QED BY <1>4, <1>5

LEMMA ReadUserOK ==
  ASSUME AccountsTypeInv, NEW c \in Clients, UNCHANGED reports, ReadUser(c)
  PROVE  /\ AccountsTypeInv' /\ Grown
         /\ \/ Strolls(c)
            \/ Holds(c) /\ req'[c].at \in {"restore", "issue"} /\ req'[c].sid = req[c].sid
<1> USE DEF AccountsTypeInv
<1>1. RowsOK' /\ Grown
  BY RowsSame DEF ReadUser, KeptSession
<1>2. CASE GoTo(c, "purge")
  BY <1>1, <1>2, GoToMoves, GoesOn DEF Plain, Stages
<1>3. CASE KeptSession(c)
  <2> DEFINE r == Read(req[c], req[c].as, "issue")
  <2>1. req[c] \in Requests /\ req[c].as \in Users /\ Carries(req[c]) /\ req[c].sid \in Sids
    BY DEF RequestsOK, Requests, Carries, ReadUser, At
  <2>2. /\ r \in Requests /\ r.at \in {"restore", "issue"} /\ r.sid = req[c].sid
        /\ r.had = req[c].had /\ r.ids = req[c].ids /\ r.op = req[c].op /\ r.as = req[c].as
    BY <2>1, ReadTyped DEF Stages
  <2>3. req' = [req EXCEPT ![c] = r]
    BY <1>3 DEF KeptSession
  <2> HIDE DEF r
  <2>4. Alone(c) /\ req'[c] = r
    BY <2>2, <2>3 DEF RequestsOK, Alone
  <2>5. Carries(req[c])'
    BY <1>1, <2>1, <2>2, <2>4, GrownSets DEF Carries
  <2>. QED BY <1>1, <2>4, <2>5, OthersCarry, <2>2 DEF Holds
<1>. QED BY <1>2, <1>3 DEF ReadUser

LEMMA AdmitOK ==
  ASSUME AccountsTypeInv, NEW c \in Clients, UNCHANGED reports, Admit(c)
  PROVE  AccountsTypeInv' /\ Grown /\ Strolls(c)
<1> USE DEF AccountsTypeInv
<1>1. RowsOK' /\ Grown
  BY RowsSame DEF Admit
<1>2. CASE Answer(c)
  BY <1>1, <1>2, AnswerMoves, GoesOn
<1>3. CASE req' = [req EXCEPT ![c].at = req[c].then, ![c].had = OpenOf(req[c].as)]
  <2> DEFINE had == OpenOf(req[c].as)
  <2>1. req[c] \in Requests /\ req[c].then \in Entries /\ Carries(req[c]) /\ had \subseteq Sids /\ had \subseteq Nat
    BY SidsAreNat DEF RequestsOK, Requests, OpenOf
  <2> HIDE DEF had
  <2>2. req' = [req EXCEPT ![c].at = req[c].then, ![c].had = had]
    BY <1>3 DEF had
  <2>3. /\ Alone(c) /\ req'[c].at = req[c].then /\ req'[c].had = had /\ req'[c].ids = req[c].ids
        /\ req'[c].op = req[c].op /\ req'[c].as = req[c].as
    BY <2>1, <2>2 DEF RequestsOK, Requests, Alone, Stages
  <2>4. Carries(req[c])'
    BY <1>1, <2>1, <2>3, GrownSets DEF Carries, Entries
  <2>5. Strolls(c)
    <3>1. req[c].then \notin Special
      BY <2>1 DEF Entries, Special
    <3>2. req'[c].had = OpenOf(req[c].as)
      BY <2>3 DEF had
    <3>. QED BY <2>3, <3>1, <3>2, StrollsOn
  <2>. QED BY <1>1, <2>3, <2>4, <2>5, OthersCarry
<1>. QED BY <1>2, <1>3 DEF Admit

\* Steps that end sessions and delete tokens, and at most rewrite accounts.
LEMMA SessionsEnd ==
  ASSUME RowsOK, account' \in [Users -> Account], SessionsClose, tokens' \subseteq tokens,
         UNCHANGED <<known, resets, applied, reports>>
  PROVE  RowsOK' /\ Grown
<1>1. tokens' \subseteq Sids \X Nat
  BY DEF RowsOK
<1>. QED BY <1>1, TablesTyped, RowsMove

LEMMA PurgeOK ==
  ASSUME AccountsTypeInv, NEW c \in Clients, UNCHANGED reports, Purge(c)
  PROVE  AccountsTypeInv' /\ Grown /\ Strolls(c)
<1> USE DEF AccountsTypeInv
<1>1. UNCHANGED <<account, sessions, known, resets, applied>> /\ tokens' \subseteq tokens
  BY DEF Purge
<1>2. RowsOK' /\ Grown
  BY <1>1, TablesTyped, SessionsEnd
<1>. QED BY <1>2, AnswerMoves, GoesOn DEF Purge

LEMMA DropOK ==
  ASSUME AccountsTypeInv, NEW c \in Clients, UNCHANGED reports, Drop(c)
  PROVE  AccountsTypeInv' /\ Grown /\ Strolls(c)
<1> USE DEF AccountsTypeInv
<1>1. UNCHANGED <<account, sessions, known, resets, applied>> /\ tokens' \subseteq tokens
  BY DEF Drop
<1>2. RowsOK' /\ Grown
  BY <1>1, TablesTyped, SessionsEnd
<1>3. Moved(c, "list")
  BY GoToMoves DEF Drop, Stages, Entries
<1>. QED BY <1>2, <1>3, GoesOn DEF Plain, Entries

\* The sessions a request lists, and the one it was asked for.
LEMMA Lists ==
  ASSUME AccountsTypeInv, NEW c \in Clients, List(c)
  PROVE  \E s \in Nat :
           /\ Holds(c) /\ req'[c].at = "close"
           /\ req'[c].arg = s /\ req'[c].ids = ToRevoke(req[c], s)
           /\ ToRevoke(req[c], s) \subseteq Sids
           /\ req[c].op = "endSession" => s \in Sids
<1> USE DEF AccountsTypeInv
<1>1. PICK s \in IF req[c].op = "endSession" THEN Sids ELSE {0} :
        req' = [req EXCEPT ![c].arg = s, ![c].ids = ToRevoke(req[c], s), ![c].at = "close"]
  BY DEF List
<1>2. s \in Nat /\ s \in Args /\ (req[c].op = "endSession" => s \in Sids)
  BY SidsAreNat DEF Args
<1> DEFINE ids == ToRevoke(req[c], s)
<1>3. ids \subseteq Sids /\ ids \subseteq Nat
  BY SidsAreNat DEF ToRevoke, OpenOf
<1>4. req' = [req EXCEPT ![c].arg = s, ![c].ids = ids, ![c].at = "close"] /\ req[c] \in Requests
  BY <1>1 DEF RequestsOK
<1> HIDE DEF ids
<1>5. /\ Alone(c) /\ req'[c].at = "close" /\ req'[c].op = req[c].op /\ req'[c].as = req[c].as
      /\ req'[c].had = req[c].had /\ req'[c].arg = s /\ req'[c].ids = ids
  BY <1>2, <1>3, <1>4 DEF RequestsOK, Requests, Alone, Stages
<1>. QED BY <1>2, <1>3, <1>5 DEF ids, Holds

LEMMA ListOK ==
  ASSUME AccountsTypeInv, NEW c \in Clients, UNCHANGED reports, List(c)
  PROVE  AccountsTypeInv' /\ Grown
<1> USE DEF AccountsTypeInv
<1>1. RowsOK' /\ Grown
  BY RowsSame DEF List
<1>2. PICK s \in Nat :
           /\ Holds(c) /\ req'[c].at = "close"
           /\ req'[c].arg = s /\ req'[c].ids = ToRevoke(req[c], s)
           /\ ToRevoke(req[c], s) \subseteq Sids
           /\ req[c].op = "endSession" => s \in Sids
  BY Lists
<1>3. Sids \subseteq Sids' /\ Carries(req[c])
  BY <1>1, GrownSets DEF RequestsOK
<1>4. Carries(req[c])'
  BY <1>2, <1>3 DEF Carries, Holds
<1>. QED BY <1>1, <1>2, <1>4, OthersCarry DEF Holds

LEMMA CloseOK ==
  ASSUME AccountsTypeInv, NEW c \in Clients, UNCHANGED reports, Close(c)
  PROVE  /\ AccountsTypeInv' /\ Grown
         /\ IF req[c].op = "endSession" THEN Moved(c, "dropSession") ELSE Answered(c)
<1> USE DEF AccountsTypeInv
<1>1. UNCHANGED <<account, tokens, known, resets, applied>> /\ sessions' = Revoked(req[c].ids)
  BY DEF Close
<1>2. RowsOK' /\ Grown
  BY <1>1, TablesTyped, SessionsEnd, RevokedCloses
<1>3. CASE req[c].op = "endSession"
  <2>1. Moved(c, "dropSession")
    BY <1>3, GoToMoves DEF Close, Stages
  <2>2. Carries(req[c])'
    BY <1>2, <1>3, <2>1, GrownSets DEF Moved, Carries, RequestsOK, Close, At
  <2>. QED BY <1>2, <1>3, <2>1, <2>2, OthersCarry DEF Moved
<1>4. CASE req[c].op # "endSession"
  BY <1>2, <1>4, AnswerMoves, GoesOn DEF Close
<1>. QED BY <1>3, <1>4

LEMMA DropSessionOK ==
  ASSUME AccountsTypeInv, NEW c \in Clients, UNCHANGED reports, DropSession(c)
  PROVE  AccountsTypeInv' /\ Grown /\ Strolls(c)
<1> USE DEF AccountsTypeInv
<1>1. UNCHANGED <<account, sessions, known, resets, applied>> /\ tokens' \subseteq tokens
  BY DEF DropSession
<1>2. RowsOK' /\ Grown
  BY <1>1, TablesTyped, SessionsEnd
<1>. QED BY <1>2, AnswerMoves, GoesOn DEF DropSession

LEMMA ClearSessionsOK ==
  ASSUME AccountsTypeInv, NEW c \in Clients, UNCHANGED reports, ClearSessions(c)
  PROVE  AccountsTypeInv' /\ Grown /\ Strolls(c)
<1> USE DEF AccountsTypeInv
<1>1. UNCHANGED <<account, tokens, known, resets, applied>> /\ SessionsClose
  BY ClearedCloses DEF ClearSessions
<1>2. RowsOK' /\ Grown
  BY <1>1, TablesTyped, SessionsEnd
<1>. QED BY <1>2, AnswerMoves, GoesOn DEF ClearSessions

LEMMA RereadOK ==
  ASSUME AccountsTypeInv, NEW c \in Clients, UNCHANGED reports, Reread(c)
  PROVE  AccountsTypeInv' /\ Grown /\ Strolls(c)
<1> USE DEF AccountsTypeInv
<1>1. RowsOK' /\ Grown
  BY RowsSame DEF Reread
<1>2. CASE Answer(c)
  BY <1>1, <1>2, AnswerMoves, GoesOn
<1>3. CASE \E at \in {"setPassword", "archive"} : GoTo(c, at)
  <2>1. \E at \in {"setPassword", "archive"} : Moved(c, at)
    BY <1>3, GoToMoves DEF Stages
  <2>. QED BY <1>1, <2>1, GoesOn DEF Plain
<1>. QED BY <1>2, <1>3 DEF Reread

LEMMA SetPasswordOK ==
  ASSUME AccountsTypeInv, NEW c \in Clients, UNCHANGED reports, SetPassword(c)
  PROVE  AccountsTypeInv' /\ Grown /\ Strolls(c)
<1> USE DEF AccountsTypeInv
<1>1. PICK w \in Passwords : account' = [account EXCEPT ![req[c].as].password = w]
  BY DEF SetPassword
<1>2. \A a \in Account : [a EXCEPT !.password = w] \in Account
  BY DEF Account
<1>3. account' \in [Users -> Account]
  BY <1>1, <1>2 DEF RowsOK
<1>4. RowsOK' /\ Grown
  BY <1>3, AccountsChange DEF SetPassword
<1>5. Moved(c, "drop")
  BY GoToMoves DEF SetPassword, Stages, Entries
<1>. QED BY <1>4, <1>5, GoesOn DEF Plain, Entries

LEMMA ArchiveOK ==
  ASSUME AccountsTypeInv, NEW c \in Clients, UNCHANGED reports, Archive(c)
  PROVE  AccountsTypeInv' /\ Grown /\ Strolls(c)
<1> USE DEF AccountsTypeInv
<1>1. req[c].as \in Users
  BY DEF RequestsOK, Requests
<1>2. ChangeStatus(req[c].as, "deleted", "none")
  BY DEF Archive
<1>3. account' \in [Users -> Account] /\ SessionsClose /\ tokens' \subseteq tokens
  BY <1>1, <1>2, StatusChanges DEF Statuses
<1>4. RowsOK' /\ Grown
  BY <1>3, SessionsEnd DEF Archive
<1>. QED BY <1>4, AnswerMoves, GoesOn DEF Archive

LEMMA CheckOpenOK ==
  ASSUME AccountsTypeInv, NEW c \in Clients, UNCHANGED reports, CheckOpen(c)
  PROVE  AccountsTypeInv' /\ Grown /\ Strolls(c)
<1> USE DEF AccountsTypeInv
<1>1. RowsOK' /\ Grown
  BY RowsSame DEF CheckOpen
<1>2. CASE Answer(c)
  BY <1>1, <1>2, AnswerMoves, GoesOn
<1>3. CASE GoTo(c, "ask")
  <2>1. Moved(c, "ask")
    BY <1>3, GoToMoves DEF Stages
  <2>. QED BY <1>1, <2>1, GoesOn DEF Plain
<1>. QED BY <1>2, <1>3 DEF CheckOpen

\* Requests of resets change in place, or one is added.
LEMMA ResetsMove ==
  ASSUME RowsOK, UNCHANGED <<account, sessions, tokens, known, applied, reports>>,
         resets' \in Seq(Reset), Len(resets') >= Len(resets)
  PROVE  RowsOK' /\ Grown
<1>1. applied \subseteq 1 .. Len(resets)
  BY DEF RowsOK
<1>. QED BY <1>1, TablesTyped, RowsMove

LEMMA AskOK ==
  ASSUME AccountsTypeInv, NEW c \in Clients, UNCHANGED reports, Ask(c)
  PROVE  AccountsTypeInv' /\ Grown /\ Strolls(c)
<1> USE DEF AccountsTypeInv
<1>1. PICK w \in Passwords :
       resets' = Append(resets, [target |-> req[c].as, status |-> "pending", password |-> w])
  BY DEF Ask
<1>2. [target |-> req[c].as, status |-> "pending", password |-> w] \in Reset
  BY DEF RequestsOK, Requests, Reset
<1>3. resets' \in Seq(Reset) /\ Len(resets') >= Len(resets)
  <2>1. resets \in Seq(Reset) /\ Len(resets) \in Nat
    BY DEF RowsOK
  <2>. QED BY <1>1, <1>2, <2>1
<1>4. RowsOK' /\ Grown
  BY <1>3, ResetsMove DEF Ask
<1>. QED BY <1>4, AnswerMoves, GoesOn DEF Ask

LEMMA CheckPendingOK ==
  ASSUME AccountsTypeInv, NEW c \in Clients, UNCHANGED reports, CheckPending(c)
  PROVE  /\ AccountsTypeInv' /\ Grown
         /\ \/ Answered(c)
            \/ /\ Holds(c) /\ req'[c].at = "decide" /\ req'[c].arg \in 1 .. Len(resets)
               /\ resets[req'[c].arg].status = "pending"
<1> USE DEF AccountsTypeInv
<1>1. RowsOK' /\ Grown
  BY RowsSame DEF CheckPending
<1>2. CASE Answer(c)
  BY <1>1, <1>2, AnswerMoves, GoesOn
<1>3. CASE \E i \in 1 .. Len(resets) :
             Reviewable(i) /\ req' = [req EXCEPT ![c].arg = i, ![c].at = "decide"]
  <2>1. PICK i \in 1 .. Len(resets) :
               Reviewable(i) /\ req' = [req EXCEPT ![c].arg = i, ![c].at = "decide"]
    BY <1>3
  <2>2. i \in Nat /\ i \in Args /\ req[c] \in Requests
    BY DEF Args, RequestsOK
  <2>3. /\ Alone(c) /\ req'[c].at = "decide" /\ req'[c].arg = i
        /\ req'[c].had = req[c].had /\ req'[c].ids = req[c].ids
        /\ req'[c].op = req[c].op /\ req'[c].as = req[c].as
    BY <2>1, <2>2 DEF RequestsOK, Requests, Alone, Stages
  <2>4. Carries(req[c])'
    BY <1>1, <2>3, GrownSets DEF Carries, RequestsOK
  <2>5. resets[req'[c].arg].status = "pending"
    BY <2>1, <2>3 DEF Reviewable
  <2>. QED BY <1>1, <2>3, <2>4, <2>5, OthersCarry DEF Holds
<1>. QED BY <1>2, <1>3 DEF CheckPending

\* A reset request takes another status.
LEMMA StatusOfReset ==
  ASSUME RowsOK, NEW i \in 1 .. Len(resets),
         NEW status \in {"pending", "approved", "rejected", "completed", "cleared"},
         resets' = [resets EXCEPT ![i].status = status]
  PROVE  /\ resets' \in Seq(Reset) /\ Len(resets') = Len(resets)
         /\ resets'[i].status = status /\ resets'[i].target = resets[i].target
         /\ \A j \in 1 .. Len(resets) : j # i => resets'[j] = resets[j]
<1>1. resets \in Seq(Reset) /\ resets[i] \in Reset
  BY DEF RowsOK
<1>2. [resets[i] EXCEPT !.status = status] \in Reset
  BY <1>1 DEF Reset
<1>3. resets' = [resets EXCEPT ![i] = [resets[i] EXCEPT !.status = status]]
  OBVIOUS
<1>4. resets' \in Seq(Reset) /\ Len(resets') = Len(resets)
  BY <1>1, <1>2, <1>3
<1>5. resets'[i].status = status /\ resets'[i].target = resets[i].target
  BY <1>1, <1>3 DEF Reset
<1>. QED BY <1>1, <1>3, <1>4, <1>5

LEMMA DecideOK ==
  ASSUME AccountsTypeInv, NEW c \in Clients, UNCHANGED reports, Decide(c)
  PROVE  AccountsTypeInv' /\ Grown /\ Strolls(c)
<1> USE DEF AccountsTypeInv
<1>1. req[c].arg \in 1 .. Len(resets) /\ Len(resets) \in Nat
  BY DEF RequestsOK, Carries, Decide, At, RowsOK
<1>2. \/ resets' = resets
      \/ \E verdict \in {"approved", "rejected"} : resets' = [resets EXCEPT ![req[c].arg].status = verdict]
  BY DEF Decide
<1>3. resets' \in Seq(Reset) /\ Len(resets') >= Len(resets)
  <2>1. CASE resets' = resets
    BY <2>1, <1>1 DEF RowsOK
  <2>2. ASSUME NEW verdict \in {"approved", "rejected"},
               resets' = [resets EXCEPT ![req[c].arg].status = verdict]
        PROVE  resets' \in Seq(Reset) /\ Len(resets') >= Len(resets)
    <3>1. verdict \in {"pending", "approved", "rejected", "completed", "cleared"}
      OBVIOUS
    <3>2. resets' \in Seq(Reset) /\ Len(resets') = Len(resets)
      BY <1>1, <2>2, <3>1, StatusOfReset, Zenon
    <3>. QED BY <1>1, <3>2
  <2>. QED BY <1>2, <2>1, <2>2
<1>4. RowsOK' /\ Grown
  BY <1>3, ResetsMove DEF Decide
<1>. QED BY <1>4, AnswerMoves, GoesOn DEF Decide

LEMMA ConfirmOK ==
  ASSUME AccountsTypeInv, NEW c \in Clients, UNCHANGED reports, Confirm(c)
  PROVE  AccountsTypeInv' /\ Grown /\ Strolls(c)
<1> USE DEF AccountsTypeInv
<1> DEFINE i == req[c].arg
           u == resets[i].target
<1>1. i \in 1 .. Len(resets) /\ Len(resets) \in Nat /\ resets[i] \in Reset
  BY DEF RequestsOK, Carries, Confirm, At, RowsOK
<1>2. u \in Users /\ resets[i].password \in Passwords
  BY <1>1 DEF Reset
<1>3. CASE resets[i].status = "cleared"
  BY <1>3, RowsSame, AnswerMoves, GoesOn DEF Confirm
<1>4. CASE resets[i].status # "cleared"
  <2>1. account' = [account EXCEPT ![u].password = resets[i].password]
    BY <1>4 DEF Confirm
  <2>2. \A a \in Account : [a EXCEPT !.password = resets[i].password] \in Account
    BY <1>2 DEF Account
  <2>3. account' \in [Users -> Account]
    BY <2>1, <2>2 DEF RowsOK
  <2>4. resets' = [resets EXCEPT ![i].status = "completed"]
    BY <1>4 DEF Confirm
  <2>5. resets' \in Seq(Reset) /\ Len(resets') >= Len(resets)
    <3>1. "completed" \in {"pending", "approved", "rejected", "completed", "cleared"}
      OBVIOUS
    <3>2. resets' \in Seq(Reset) /\ Len(resets') = Len(resets)
      BY <1>1, <2>4, <3>1, StatusOfReset, Zenon
    <3>. QED BY <1>1, <3>2
  <2>6. SessionsClose
    BY <1>4, RevokedCloses DEF Confirm
  <2>7. tokens' \subseteq Sids \X Nat /\ applied' \subseteq 1 .. Len(resets)
    BY <1>1, <1>4 DEF Confirm, RowsOK
  <2>8. RowsOK' /\ Grown
    <3>1. UNCHANGED <<known, reports>>
      BY DEF Confirm
    <3>. QED BY <2>3, <2>5, <2>6, <2>7, <3>1, TablesTyped, RowsMove
  <2>. QED BY <2>8, AnswerMoves, GoesOn DEF Confirm
<1>. QED BY <1>3, <1>4

\* What the history of reset requests loses.
LEMMA ClearedResets ==
  ASSUME RowsOK, NEW c \in Clients, ClearResets(c)
  PROVE  /\ resets' \in Seq(Reset) /\ Len(resets') = Len(resets)
         /\ \A i \in 1 .. Len(resets) :
              \/ resets'[i] = resets[i]
              \/ resets[i].status \in {"rejected", "completed"} /\ resets'[i].status = "cleared"
<1>1. resets' = [i \in 1 .. Len(resets) |->
       IF resets[i].status \in {"rejected", "completed"}
       THEN [resets[i] EXCEPT !.status = "cleared"] ELSE resets[i]]
  BY DEF ClearResets
<1>2. ASSUME NEW i \in 1 .. Len(resets)
      PROVE  /\ resets'[i] \in Reset
             /\ \/ resets'[i] = resets[i]
                \/ resets[i].status \in {"rejected", "completed"} /\ resets'[i].status = "cleared"
  <2>1. resets[i] \in Reset
    BY DEF RowsOK
  <2>. QED BY <1>1, <2>1 DEF Reset
<1>3. resets' = [i \in 1 .. Len(resets) |-> resets'[i]] /\ Len(resets) \in Nat
  BY <1>1 DEF RowsOK
<1>4. resets' \in Seq(Reset) /\ Len(resets') = Len(resets)
  BY <1>2, <1>3
<1>. QED BY <1>2, <1>4

LEMMA ClearResetsOK ==
  ASSUME AccountsTypeInv, NEW c \in Clients, UNCHANGED reports, ClearResets(c)
  PROVE  AccountsTypeInv' /\ Grown /\ Strolls(c)
<1> USE DEF AccountsTypeInv
<1>1. resets' \in Seq(Reset) /\ Len(resets') >= Len(resets)
  <2>1. Len(resets) \in Nat
    BY DEF RowsOK
  <2>. QED BY <2>1, ClearedResets
<1>2. RowsOK' /\ Grown
  BY <1>1, ResetsMove DEF ClearResets
<1>. QED BY <1>2, AnswerMoves, GoesOn DEF ClearResets

LEMMA TimePassesOK ==
  ASSUME AccountsTypeInv, NEW u \in Users, UNCHANGED reports, TimePasses(u)
  PROVE  AccountsTypeInv' /\ Grown
<1> USE DEF AccountsTypeInv
<1>1. \A a \in Account : [a EXCEPT !.until = "passed"] \in Account
  BY DEF Account
<1>2. account' \in [Users -> Account]
  BY <1>1 DEF TimePasses, RowsOK
<1>3. RowsOK' /\ Grown
  BY <1>2, AccountsChange DEF TimePasses
<1>4. \A d \in Clients : Carries(req[d])'
  <2>1. ASSUME NEW d \in Clients PROVE Carries(req[d])'
    <3>1. req'[d] = req[d] /\ Carries(req[d])
      BY DEF TimePasses, RequestsOK
    <3>. QED BY <1>3, <3>1, GrownSets DEF Carries
  <2>. QED BY <2>1
<1>. QED BY <1>3, <1>4 DEF RequestsOK, TimePasses

-----------------------------------------------------------------------------
(* The statements of Discipline are well typed. *)

\* A handler that goes on with the row asked for.
LEMMA Proceeds ==
  ASSUME AccountsTypeInv, NEW c \in Clients, NEW ok, NEW at \in Stages, NEW arg \in Args,
         Proceed(c, ok, at, arg)
  PROVE  \/ Answered(c)
         \/ /\ ok /\ Alone(c) /\ req'[c].at = at /\ req'[c].arg = arg /\ req'[c].op = req[c].op
            /\ req'[c].had = req[c].had /\ req'[c].ids = req[c].ids
            /\ req'[c].seen = req[c].seen /\ req'[c].as = req[c].as
<1>1. CASE ok
  <2>1. req[c] \in Requests /\ req' = [req EXCEPT ![c].arg = arg, ![c].at = at]
    BY <1>1 DEF Proceed, AccountsTypeInv, RequestsOK
  <2>2. /\ Alone(c) /\ req'[c].at = at /\ req'[c].arg = arg /\ req'[c].op = req[c].op
        /\ req'[c].had = req[c].had /\ req'[c].ids = req[c].ids
        /\ req'[c].seen = req[c].seen /\ req'[c].as = req[c].as
    BY <2>1 DEF AccountsTypeInv, RequestsOK, Requests, Alone
  <2>. QED BY <1>1, <2>2
<1>2. CASE ~ok
  BY <1>2, AnswerMoves DEF Proceed, AccountsTypeInv
<1>. QED BY <1>1, <1>2

\* resolvePersonnelRole gives a role.
LEMMA RolesResolve ==
  ASSUME NEW l \in Levels, NEW wanted
  PROVE  resolvePersonnelRole(l, wanted) \in Roles
BY DEF resolvePersonnelRole, Roles

LEMMA ReadReportedOK ==
  ASSUME AccountsTypeInv, NEW c \in Clients, ReadReported(c)
  PROVE  /\ AccountsTypeInv' /\ Grown /\ UNCHANGED <<account, reports>>
         /\ \/ Answered(c)
            \/ /\ Holds(c) /\ req'[c].at = "file" /\ req'[c].arg \in Users
               /\ account[req'[c].arg].status # "absent"
<1> USE DEF AccountsTypeInv
<1>0. UNCHANGED <<account, reports>>
  BY DEF ReadReported
<1>1. RowsOK' /\ Grown
  BY RowsSame DEF ReadReported, quiet
<1>2. PICK u \in Users :
       Proceed(c, /\ req[c].seen.level >= 1 /\ u # req[c].as
                  /\ account[u].status \notin {"absent", "deleted"}
                  /\ account[u].role \notin {"author", "security"}, "file", u)
  BY DEF ReadReported
<1>3. u \in Args /\ "file" \in Stages
  BY DEF Args, Stages
<1>4. \/ Answered(c)
      \/ /\ Alone(c) /\ req'[c].at = "file" /\ req'[c].arg = u /\ account[u].status # "absent"
         /\ req'[c].had = req[c].had /\ req'[c].ids = req[c].ids
        /\ req'[c].op = req[c].op /\ req'[c].as = req[c].as
  BY <1>2, <1>3, Proceeds
<1>5. CASE Answered(c)
  BY <1>1, <1>5, <1>0, AnsweredOK
<1>6. CASE ~Answered(c)
  <2>1. Carries(req[c])'
    BY <1>1, <1>4, <1>6, GrownSets DEF Carries, RequestsOK
  <2>. QED BY <1>0, <1>1, <1>4, <1>6, <2>1, OthersCarry DEF Holds
<1>. QED BY <1>5, <1>6

LEMMA FileOK ==
  ASSUME AccountsTypeInv, NEW c \in Clients, File(c)
  PROVE  AccountsTypeInv' /\ Grown /\ Strolls(c)
<1> USE DEF AccountsTypeInv
<1>1. [target |-> req[c].arg, status |-> "open", action |-> "none"] \in Report
  BY DEF File, At, RequestsOK, Carries, Report, ReportStatuses, Actions
<1>2. reports' \in Seq(Report) /\ Len(reports') >= Len(reports)
  <2>1. reports \in Seq(Report) /\ Len(reports) \in Nat
    BY DEF RowsOK
  <2>. QED BY <1>1, <2>1 DEF File
<1>3. RowsOK' /\ Grown
  <2>1. UNCHANGED <<account, sessions, tokens, known, resets, applied>>
    BY DEF File, quiet
  <2>. QED BY <1>2, <2>1, TablesTyped, RowsMove
<1>. QED BY <1>3, AnswerMoves, GoesOn DEF File

\* The report a moderator resolves, with the row of its target as it is read.
LEMMA ReportRead ==
  ASSUME AccountsTypeInv, NEW c \in Clients, ReadReport(c)
  PROVE  \/ Answered(c)
         \/ \E i \in 1 .. Len(reports) :
              /\ reports[i].status = "open" /\ Holds(c)
              /\ req'[c].at = "resolve" /\ req'[c].arg = i /\ req'[c].seen = account[reports[i].target]
              /\ req'[c].ids = req[c].ids
<1> USE DEF AccountsTypeInv
<1>1. PICK i \in 1 .. Len(reports) :
        IF /\ Resolvable(reports[i]) /\ reports[i].target # req[c].as
           /\ canModerateAccount(req[c].seen, account[reports[i].target])
        THEN req' = [req EXCEPT ![c].at = "resolve", ![c].arg = i, ![c].seen = account[reports[i].target]]
        ELSE Answer(c)
  BY DEF ReadReport
<1>2. CASE Answer(c)
  BY <1>2, AnswerMoves
<1>3. CASE ~Answer(c)
  <2> DEFINE row == account[reports[i].target]
  <2>1. reports[i] \in Report
    BY DEF RowsOK
  <2>2. row \in Account
    BY <2>1 DEF Report, RowsOK
  <2>3. i \in Args /\ req[c] \in Requests
    BY DEF Args, RequestsOK
  <2>4. req' = [req EXCEPT ![c].at = "resolve", ![c].arg = i, ![c].seen = row] /\ Resolvable(reports[i])
    BY <1>1, <1>3
  <2> HIDE DEF row
  <2>5. /\ Alone(c) /\ req'[c].at = "resolve" /\ req'[c].arg = i /\ req'[c].seen = row
        /\ req'[c].had = req[c].had /\ req'[c].ids = req[c].ids /\ req'[c].op = req[c].op
        /\ req'[c].as = req[c].as
    BY <2>2, <2>3, <2>4 DEF RequestsOK, Requests, Alone, Stages
  <2>. QED BY <2>4, <2>5 DEF Resolvable, row, Holds
<1>. QED BY <1>2, <1>3

LEMMA ReadReportOK ==
  ASSUME AccountsTypeInv, NEW c \in Clients, ReadReport(c)
  PROVE  AccountsTypeInv' /\ Grown
<1> USE DEF AccountsTypeInv
<1>1. RowsOK' /\ Grown
  BY RowsSame DEF ReadReport, quiet
<1>2. CASE Answered(c)
  BY <1>1, <1>2, AnsweredOK
<1>3. ASSUME NEW i \in 1 .. Len(reports), Alone(c), req'[c].at = "resolve", req'[c].arg = i,
             req'[c].had = req[c].had, req'[c].ids = req[c].ids
      PROVE  RequestsOK'
  <2>1. Carries(req[c])'
    BY <1>1, <1>3, GrownSets DEF Carries, RequestsOK
  <2>. QED BY <1>1, <1>3, <2>1, OthersCarry
<1>. QED BY <1>1, <1>2, <1>3, ReportRead DEF Holds

\* A report takes a status and an action.
LEMMA ReportChanges ==
  ASSUME RowsOK, NEW i \in 1 .. Len(reports), NEW status \in ReportStatuses, NEW action \in Actions,
         \/ reports' = [reports EXCEPT ![i].status = status] /\ action = reports[i].action
         \/ reports' = [reports EXCEPT ![i].status = status, ![i].action = action]
  PROVE  /\ reports' \in Seq(Report) /\ Len(reports') = Len(reports)
         /\ reports'[i].status = status /\ reports'[i].action = action
         /\ reports'[i].target = reports[i].target
         /\ \A j \in 1 .. Len(reports) : j # i => reports'[j] = reports[j]
<1> DEFINE p == [reports[i] EXCEPT !.status = status, !.action = action]
<1>1. reports \in Seq(Report) /\ reports[i] \in Report
  BY DEF RowsOK
<1>2. /\ p \in Report /\ p.status = status /\ p.action = action /\ p.target = reports[i].target
  BY <1>1 DEF Report
<1>3. reports' = [reports EXCEPT ![i] = p]
  <2>1. CASE reports' = [reports EXCEPT ![i].status = status] /\ action = reports[i].action
    <3>1. [reports[i] EXCEPT !.status = status] = p
      BY <1>1, <2>1 DEF Report
    <3>. QED BY <2>1, <3>1
  <2>2. CASE reports' = [reports EXCEPT ![i].status = status, ![i].action = action]
    BY <2>2
  <2>. QED BY <2>1, <2>2
<1> HIDE DEF p
<1>4. reports' \in Seq(Report) /\ Len(reports') = Len(reports)
  BY <1>1, <1>2, <1>3
<1>. QED BY <1>1, <1>2, <1>3, <1>4

\* A confirmed report and the row of its target, in one transaction.
LEMMA ReportConfirmed ==
  ASSUME AccountsTypeInv, NEW c \in Clients, req[c].at = "resolve",
         NEW action \in {"none", "suspend", "demote", "ban"}, NEW until \in {"none", "ahead"},
         Punish(c, action, until)
  PROVE  LET i == req[c].arg
             u == reports[i].target
             act == IF action = "none" THEN AutoAction(req[c].seen) ELSE action
         IN /\ i \in 1 .. Len(reports) /\ u \in Users /\ req[c].seen \in Account
            /\ account' \in [Users -> Account]
            /\ account'[u] = Punished(account[u], req[c].seen, action, until)
            /\ \A v \in Users : v # u => account'[v] = account[v]
            /\ SessionsClose /\ tokens' \subseteq tokens
            /\ reports' \in Seq(Report) /\ Len(reports') = Len(reports)
            /\ reports'[i].status = "confirmed" /\ reports'[i].action = act /\ reports'[i].target = u
            /\ \A j \in 1 .. Len(reports) : j # i => reports'[j] = reports[j]
<1> USE DEF AccountsTypeInv
<1> DEFINE i == req[c].arg
           u == reports[i].target
           row == Punished(account[u], req[c].seen, action, until)
           act == IF action = "none" THEN AutoAction(req[c].seen) ELSE action
<1>1. i \in 1 .. Len(reports) /\ req[c].seen \in Account
  BY DEF RequestsOK, Carries, Requests
<1>2. reports[i] \in Report
  BY <1>1 DEF RowsOK
<1>3. u \in Users /\ account[u] \in Account
  BY <1>2 DEF Report, RowsOK
<1>4. row \in Account
  BY <1>1, <1>3, PunishedTyped DEF PunishedRow
<1>5. account' = [account EXCEPT ![u] = row]
  BY DEF Punish
<1>6. reports' = [reports EXCEPT ![i].status = "confirmed", ![i].action = act]
  BY DEF Punish
<1>7. act \in Actions /\ "confirmed" \in ReportStatuses
  BY <1>1, DisciplinedTyped DEF Actions, ReportStatuses
<1>8. SessionsClose /\ tokens' \subseteq tokens
  BY RevokedCloses, SameSessionsClose DEF Punish
<1> HIDE DEF row, act
<1>9. /\ reports' \in Seq(Report) /\ Len(reports') = Len(reports)
      /\ reports'[i].status = "confirmed" /\ reports'[i].action = act /\ reports'[i].target = u
      /\ \A j \in 1 .. Len(reports) : j # i => reports'[j] = reports[j]
  <2>1. PICK k \in 1 .. Len(reports) : k = i
    BY <1>1
  <2>2. PICK b \in Actions : b = act
    BY <1>7
  <2>3. reports' = [reports EXCEPT ![k].status = "confirmed", ![k].action = b]
    BY <1>6, <2>1, <2>2
  <2>4. RowsOK /\ "confirmed" \in ReportStatuses
    BY <1>7
  <2>5. /\ reports' \in Seq(Report) /\ Len(reports') = Len(reports)
        /\ reports'[k].status = "confirmed" /\ reports'[k].action = b
        /\ reports'[k].target = reports[k].target
        /\ \A j \in 1 .. Len(reports) : j # k => reports'[j] = reports[j]
    BY <2>3, <2>4, ReportChanges
  <2>. QED BY <2>1, <2>2, <2>5
<1>10. account' \in [Users -> Account] /\ account'[u] = row /\ \A v \in Users : v # u => account'[v] = account[v]
  BY <1>3, <1>4, <1>5 DEF RowsOK
<1>. QED BY <1>1, <1>3, <1>8, <1>9, <1>10 DEF row, act

LEMMA ResolveOK ==
  ASSUME AccountsTypeInv, NEW c \in Clients, Resolve(c)
  PROVE  AccountsTypeInv' /\ Grown /\ Strolls(c)
<1> USE DEF AccountsTypeInv
<1> DEFINE i == req[c].arg
<1>1. req[c].at = "resolve" /\ i \in 1 .. Len(reports) /\ Len(reports) \in Nat
  BY DEF Resolve, At, RequestsOK, Carries, RowsOK
<1>2. UNCHANGED <<known, resets, applied>>
  BY DEF Resolve
<1>3. CASE /\ reports' = [reports EXCEPT ![i].status = "dismissed"]
           /\ UNCHANGED <<account, sessions, tokens, signedOut>>
  <2>1. reports[i] \in Report
    BY <1>1 DEF RowsOK
  <2>2. reports[i].action \in Actions /\ "dismissed" \in ReportStatuses
    BY <2>1 DEF Report, ReportStatuses
  <2>3. reports' \in Seq(Report) /\ Len(reports') = Len(reports)
    BY <1>1, <1>3, <2>2, ReportChanges
  <2>4. Len(reports') >= Len(reports)
    BY <1>1, <2>3
  <2>5. RowsOK' /\ Grown
    BY <1>2, <1>3, <2>3, <2>4, TablesTyped, RowsMove
  <2>. QED BY <2>5, AnswerMoves, GoesOn DEF Resolve
<1>4. ASSUME NEW action \in {"none", "suspend", "demote", "ban"}, NEW until \in {"none", "ahead"},
             Punish(c, action, until)
      PROVE  AccountsTypeInv' /\ Grown /\ Strolls(c)
  <2>1. /\ account' \in [Users -> Account] /\ SessionsClose /\ tokens' \subseteq tokens
        /\ reports' \in Seq(Report) /\ Len(reports') = Len(reports)
    BY <1>1, <1>4, ReportConfirmed
  <2>2. Len(reports') >= Len(reports) /\ tokens' \subseteq Sids \X Nat
    BY <1>1, <2>1 DEF RowsOK
  <2>3. RowsOK' /\ Grown
    BY <1>2, <2>1, <2>2, TablesTyped, RowsMove
  <2>. QED BY <2>3, AnswerMoves, GoesOn DEF Resolve
<1>. QED BY <1>3, <1>4 DEF Resolve

LEMMA ReadTargetOK ==
  ASSUME AccountsTypeInv, NEW c \in Clients, ReadTarget(c)
  PROVE  AccountsTypeInv' /\ Grown /\ Strolls(c)
<1> USE DEF AccountsTypeInv
<1>1. RowsOK' /\ Grown
  BY RowsSame DEF ReadTarget, quiet
<1>2. PICK u \in Users :
       Proceed(c, /\ account[u].status # "absent" /\ u # req[c].as
                  /\ canModerateAccount(req[c].seen, account[u])
                  /\ req[c].op = "remove" => req[c].seen.level >= 7
                  /\ req[c].op = "status" => account[u].status # "deleted", "moderate", u)
  BY Zenon DEF ReadTarget
<1>3. u \in Args /\ "moderate" \in Stages
  BY DEF Args, Stages
<1>4. \/ Answered(c)
      \/ /\ Alone(c) /\ req'[c].at = "moderate" /\ req'[c].arg = u
         /\ req'[c].had = req[c].had /\ req'[c].ids = req[c].ids
        /\ req'[c].op = req[c].op /\ req'[c].as = req[c].as
  BY <1>2, <1>3, Proceeds
<1>5. CASE Answered(c)
  BY <1>1, <1>5, AnsweredOK, StrollsOn
<1>6. CASE ~Answered(c)
  <2>1. Carries(req[c])'
    BY <1>1, <1>4, <1>6, GrownSets DEF Carries, RequestsOK
  <2>. QED BY <1>1, <1>4, <1>6, <2>1, OthersCarry, StrollsOn DEF Special
<1>. QED BY <1>5, <1>6

LEMMA ModerateOK ==
  ASSUME AccountsTypeInv, NEW c \in Clients, Moderate(c)
  PROVE  AccountsTypeInv' /\ Grown /\ Strolls(c)
<1> USE DEF AccountsTypeInv
<1>1. PICK status \in Statuses, until \in {"none", "ahead", "passed"} : ChangeStatus(req[c].arg, status, until)
  BY DEF Moderate, Statuses
<1>2. req[c].arg \in Users
  BY DEF Moderate, At, RequestsOK, Carries
<1>3. account' \in [Users -> Account] /\ SessionsClose /\ tokens' \subseteq tokens
  BY <1>1, <1>2, StatusChanges
<1>4. RowsOK' /\ Grown
  BY <1>3, SessionsEnd DEF Moderate
<1>. QED BY <1>4, AnswerMoves, GoesOn DEF Moderate

LEMMA ReadEditedOK ==
  ASSUME AccountsTypeInv, NEW c \in Clients, ReadEdited(c)
  PROVE  AccountsTypeInv' /\ Grown /\ Strolls(c)
<1> USE DEF AccountsTypeInv
<1>1. RowsOK' /\ Grown
  BY RowsSame DEF ReadEdited, quiet
<1>2. PICK u \in Users, g \in Grants,
           sent \in IF req[c].op = "edit" THEN {"level", "role", "both"} ELSE {"level"} :
       LET a == account[u]
           level == IF sent = "role" THEN a.level ELSE g[1]
           role == resolvePersonnelRole(level, IF sent = "level" THEN a.role ELSE g[2]) IN
       Proceed(c, /\ a.status # "absent" /\ u # req[c].as /\ req[c].seen.level >= 6
                  /\ IF req[c].op = "edit" THEN MayEdit(req[c].seen, a) /\ MayGrant(req[c].seen, level, role)
                     ELSE /\ ~Protected(a) /\ (req[c].seen.level = 6 => a.level < 7)
                          /\ level <= highestManageableLevel(req[c].seen.level),
               "write", <<u, level, role, sent # "role">>)
  BY Zenon DEF ReadEdited
<1> DEFINE level == IF sent = "role" THEN account[u].level ELSE g[1]
           role == resolvePersonnelRole(level, IF sent = "level" THEN account[u].role ELSE g[2])
<1>3. level \in Levels
  <2>1. account[u] \in Account
    BY DEF RowsOK
  <2>. QED BY <2>1, DisciplineAssumption DEF Account
<1>4. <<u, level, role, sent # "role">> \in Users \X Levels \X Roles \X BOOLEAN
  BY <1>3, RolesResolve
<1>5. <<u, level, role, sent # "role">> \in Args /\ "write" \in Stages
  BY <1>4 DEF Args, Stages
<1>6. \E ok \in BOOLEAN : Proceed(c, ok, "write", <<u, level, role, sent # "role">>)
  BY <1>2 DEF Proceed
<1> HIDE DEF role, level
<1>7. \/ Answered(c)
      \/ /\ Alone(c) /\ req'[c].at = "write" /\ req'[c].arg = <<u, level, role, sent # "role">>
         /\ req'[c].had = req[c].had /\ req'[c].ids = req[c].ids
        /\ req'[c].op = req[c].op /\ req'[c].as = req[c].as
  BY <1>5, <1>6, Proceeds
<1>8. CASE Answered(c)
  BY <1>1, <1>8, AnsweredOK, StrollsOn
<1>9. CASE ~Answered(c)
  <2>1. Carries(req[c])'
    BY <1>1, <1>4, <1>7, <1>9, GrownSets DEF Carries, RequestsOK
  <2>. QED BY <1>1, <1>7, <1>9, <2>1, OthersCarry, StrollsOn DEF Special
<1>. QED BY <1>8, <1>9

LEMMA WriteOK ==
  ASSUME AccountsTypeInv, NEW c \in Clients, Write(c)
  PROVE  AccountsTypeInv' /\ Grown /\ Strolls(c)
<1> USE DEF AccountsTypeInv
<1> DEFINE a == req[c].arg
<1>1. a \in Users \X Levels \X Roles \X BOOLEAN
  BY DEF Write, At, RequestsOK, Carries
<1>2. PICK u \in Users, sent \in Levels, role \in Roles : a[1] = u /\ a[2] = sent /\ a[3] = role
  BY <1>1
<1> DEFINE level == IF a[4] THEN sent ELSE account[u].level
<1>3. account' = [account EXCEPT ![u] = [account[u] EXCEPT !.level = level, !.role = role]]
  BY <1>2 DEF Write
<1>4. account[u] \in Account /\ level \in Levels
  BY DEF RowsOK, Account
<1>5. account' \in [Users -> Account]
  BY <1>3, <1>4, AccountWrites DEF RowsOK
<1>6. RowsOK' /\ Grown
  BY <1>5, AccountsChange DEF Write, quiet
<1>. QED BY <1>6, AnswerMoves, GoesOn DEF Write

\* An account of staff's making takes the row of a name that had none.
LEMMA Adds ==
  ASSUME RowsOK, NEW c \in Clients, Add(c)
  PROVE  /\ account' \in [Users -> Account]
         /\ \/ account' = account
            \/ \E u \in Users : /\ account[u].status = "absent"
                                /\ account'[u].strikes = 0 /\ account'[u].tier = 0
                                /\ account'[u].status = "active"
                                /\ \A v \in Users : v # u => account'[v] = account[v]
<1>1. PICK u \in Users, g \in Grants :
        account' = IF /\ req[c].seen.level >= 6
                      /\ MayGrant(req[c].seen, g[1], resolvePersonnelRole(g[1], g[2]))
                      /\ account[u].status = "absent"
                   THEN [account EXCEPT ![u] = NewAccount(g[1], resolvePersonnelRole(g[1], g[2]))]
                   ELSE account
  BY Zenon DEF Add
<1> DEFINE role == resolvePersonnelRole(g[1], g[2])
           row == NewAccount(g[1], role)
<1>2. g[1] \in Levels /\ role \in Roles
  <2>1. g[1] \in Levels
    BY DisciplineAssumption
  <2>. QED BY <2>1, RolesResolve
<1>3. row \in Account /\ row.strikes = 0 /\ row.tier = 0 /\ row.status = "active"
  <2>1. account[u] \in Account
    BY DEF RowsOK
  <2> HIDE DEF role
  <2>. QED BY <1>2, <2>1, NewAccountTyped
<1>4. \/ account' = account
      \/ account' = [account EXCEPT ![u] = row] /\ account[u].status = "absent"
  BY <1>1
<1> HIDE DEF row
<1>5. CASE account' = account
  BY <1>5 DEF RowsOK
<1>6. CASE account' = [account EXCEPT ![u] = row] /\ account[u].status = "absent"
  BY <1>3, <1>6 DEF RowsOK
<1>. QED BY <1>4, <1>5, <1>6

LEMMA AddOK ==
  ASSUME AccountsTypeInv, NEW c \in Clients, Add(c)
  PROVE  AccountsTypeInv' /\ Grown /\ Strolls(c)
<1> USE DEF AccountsTypeInv
<1>1. RowsOK' /\ Grown
  BY Adds, AccountsChange DEF Add, quiet
<1>. QED BY <1>1, AnswerMoves, GoesOn DEF Add

LEMMA ListDueOK ==
  ASSUME AccountsTypeInv, NEW c \in Clients, ListDue(c)
  PROVE  AccountsTypeInv' /\ Grown /\ Strolls(c)
<1> USE DEF AccountsTypeInv
<1> DEFINE due == {u \in Users : Due(account[u])}
<1>1. RowsOK' /\ Grown
  BY RowsSame DEF ListDue, quiet
<1>2. CASE Answer(c)
  BY <1>1, <1>2, AnswerMoves, GoesOn
<1>3. CASE req' = [req EXCEPT ![c].at = "lift", ![c].arg = due]
  <2>1. due \in SUBSET Users /\ due \in Args /\ req[c] \in Requests
    BY DEF Args, RequestsOK
  <2> HIDE DEF due
  <2>2. /\ Alone(c) /\ req'[c].at = "lift" /\ req'[c].arg = due
        /\ req'[c].had = req[c].had /\ req'[c].ids = req[c].ids
        /\ req'[c].op = req[c].op /\ req'[c].as = req[c].as
    BY <1>3, <2>1 DEF RequestsOK, Requests, Alone, Stages
  <2>3. Carries(req[c])'
    BY <1>1, <2>1, <2>2, GrownSets DEF Carries, RequestsOK
  <2>. QED BY <1>1, <2>2, <2>3, OthersCarry, StrollsOn DEF Special
<1>. QED BY <1>2, <1>3 DEF ListDue

LEMMA LiftOK ==
  ASSUME AccountsTypeInv, NEW c \in Clients, Lift(c)
  PROVE  AccountsTypeInv' /\ Grown /\ Strolls(c)
<1> USE DEF AccountsTypeInv
<1>1. req[c].arg \in SUBSET Users /\ req[c].at = "lift" /\ req[c] \in Requests
  BY DEF Lift, At, RequestsOK, Carries
<1>2. PICK u \in req[c].arg :
        /\ account' = [account EXCEPT ![u] = WithStatus(@, "active", "none")]
        /\ IF req[c].arg = {u} THEN Answer(c) ELSE req' = [req EXCEPT ![c].arg = @ \ {u}]
  BY DEF Lift
<1>3. account' \in [Users -> Account]
  <2>1. WithStatus(account[u], "active", "none") \in Account
    BY <1>1, AccountWrites DEF RowsOK, Statuses
  <2>. QED BY <1>2, <2>1 DEF RowsOK
<1>4. RowsOK' /\ Grown
  BY <1>3, AccountsChange DEF Lift, quiet
<1>5. CASE Answer(c)
  BY <1>4, <1>5, AnswerMoves, GoesOn
<1>6. CASE ~Answer(c)
  <2> DEFINE left == req[c].arg \ {u}
  <2>1. left \in SUBSET Users /\ left \in Args
    BY <1>1 DEF Args
  <2>2. req' = [req EXCEPT ![c].arg = left]
    BY <1>2, <1>6
  <2> HIDE DEF left
  <2>3. /\ Alone(c) /\ req'[c].at = "lift" /\ req'[c].arg = left
        /\ req'[c].had = req[c].had /\ req'[c].ids = req[c].ids
        /\ req'[c].op = req[c].op /\ req'[c].as = req[c].as
    BY <1>1, <2>1, <2>2 DEF RequestsOK, Requests, Alone
  <2>4. Carries(req[c])'
    BY <1>4, <2>1, <2>3, GrownSets DEF Carries, RequestsOK
  <2>. QED BY <1>4, <2>3, <2>4, OthersCarry, StrollsOn DEF Special
<1>. QED BY <1>5, <1>6

-----------------------------------------------------------------------------
LEMMA InitTyped ==
  ASSUME DisciplineInit
  PROVE  AccountsTypeInv
<1>1. SignedIn \in Seq(Users) /\ Len(SignedIn) \in Nat
  BY SessionAssumption
<1>2. sessions \in Seq(Session) /\ Len(sessions) = Len(SignedIn)
  <2>1. \A s \in 1 .. Len(SignedIn) : [user |-> SignedIn[s], state |-> "open", root |-> s] \in Session
    BY <1>1 DEF Session
  <2>. QED BY <1>1, <2>1 DEF DisciplineInit, Init
<1>3. RowsOK
  <2>1. /\ account \in [Users -> Account] /\ resets \in Seq(Reset) /\ reports \in Seq(Report)
        /\ applied \subseteq 1 .. Len(resets)
    BY SessionAssumption, DisciplineAssumption DEF DisciplineInit, Init
  <2>2. tokens \subseteq Sids \X Nat /\ known \subseteq Sids \X Nat
    BY DEF DisciplineInit, Init
  <2>. QED BY <1>2, <2>1, <2>2 DEF RowsOK
<1>4. ASSUME NEW c \in Clients PROVE Idle \in Requests /\ Carries(Idle)
  BY <1>4, IdleOK
<1>5. req = [c \in Clients |-> Idle]
  BY DEF DisciplineInit, Init
<1>6. RequestsOK
  BY <1>4, <1>5 DEF RequestsOK
<1>. QED BY <1>3, <1>6 DEF AccountsTypeInv

\* Tables only grow, and every row and request keeps its type.
LEMMA StepTyped ==
  ASSUME AccountsTypeInv, DisciplineNext
  PROVE  AccountsTypeInv' /\ Grown
<1>1. ASSUME NEW c \in Clients, Personnel(c)
      PROVE  AccountsTypeInv' /\ Grown
  <2>1. CASE StartPersonnel(c)
    <3>1. UNCHANGED reports
      BY <2>1 DEF StartPersonnel
    <3>. QED BY <2>1, <3>1, StartsOK DEF AccountsTypeInv
  <2>. QED BY <1>1, <2>1, ReadReportedOK, FileOK, ReadReportOK, ResolveOK, ReadTargetOK, ModerateOK,
              ReadEditedOK, WriteOK, AddOK, ListDueOK, LiftOK DEF Personnel
<1>2. ASSUME NEW c \in Clients, Continue(c), UNCHANGED reports
      PROVE  AccountsTypeInv' /\ Grown
  BY <1>2, RestoreOK, CreateOK, OpenOK, IssueOK, TakeOK, ReadUserOK, PurgeOK, AdmitOK, DropOK, ListOK,
     CloseOK, DropSessionOK, ClearSessionsOK, RereadOK, SetPasswordOK, ArchiveOK, CheckOpenOK, AskOK,
     CheckPendingOK, DecideOK, ConfirmOK, ClearResetsOK DEF Continue
<1>3. ASSUME NEW c \in Clients, Arrive(c), UNCHANGED reports
      PROVE  AccountsTypeInv' /\ Grown
  BY <1>3, StartsOK DEF AccountsTypeInv
<1>4. ASSUME NEW u \in Users, TimePasses(u), UNCHANGED reports
      PROVE  AccountsTypeInv' /\ Grown
  BY <1>4, TimePassesOK
<1>. QED BY <1>1, <1>2, <1>3, <1>4 DEF DisciplineNext, Next

LEMMA StutterTyped ==
  ASSUME AccountsTypeInv, UNCHANGED dvars
  PROVE  AccountsTypeInv'
<1>1. UNCHANGED <<account, sessions, tokens, known, resets, applied, reports, req>>
  BY DEF dvars, vars
<1>2. RowsOK' /\ Grown
  BY <1>1, RowsSame DEF AccountsTypeInv
<1>3. \A d \in Clients : Carries(req[d])'
  <2>1. ASSUME NEW d \in Clients PROVE Carries(req[d])'
    BY <1>1, <1>2, GrownSets DEF AccountsTypeInv, RequestsOK, Carries
  <2>. QED BY <2>1
<1>. QED BY <1>1, <1>2, <1>3 DEF AccountsTypeInv, RequestsOK

-----------------------------------------------------------------------------
(* Rotation.  A request that took a token, or opened a session, holds that *)
(* session until it issues the next token: no token is left meanwhile, and *)
(* nobody else holds it.                                                   *)
Holding(c) == req[c].at \in {"issue", "user"} \/ (req[c].at = "restore" /\ req[c].op = "refresh")
Held(c) == /\ req[c].sid \in Sids
           /\ \A t \in tokens : t[1] # req[c].sid
           /\ \A d \in Clients : Holding(d) /\ req[d].sid = req[c].sid => d = c
RotationInv == OneTokenPerSession /\ \A c \in Clients : Holding(c) => Held(c)

\* Steps that add no token and hold no session that was not held.
LEMMA NothingTaken ==
  ASSUME RotationInv, Sids \subseteq Sids', tokens' \subseteq tokens,
         \A c \in Clients : Holding(c)' => Holding(c) /\ req'[c].sid = req[c].sid
  PROVE  RotationInv'
<1>1. OneTokenPerSession'
  BY DEF RotationInv, OneTokenPerSession
<1>2. ASSUME NEW c \in Clients, Holding(c)'
      PROVE  Held(c)'
  <2>1. Holding(c) /\ req'[c].sid = req[c].sid
    BY <1>2
  <2>. QED BY <2>1 DEF RotationInv, Held
<1>. QED BY <1>1, <1>2 DEF RotationInv

\* A request that strolls holds nothing.
LEMMA StrollHolds ==
  ASSUME NEW c \in Clients, Strolls(c)
  PROVE  \A d \in Clients : Holding(d)' => Holding(d) /\ req'[d].sid = req[d].sid
<1>1. ~Holding(c)'
  BY DEF Strolls, Holding, Special
<1>. QED BY <1>1 DEF Strolls, Alone, Holding

LEMMA AnswerHolds ==
  ASSUME NEW c \in Clients, Answered(c)
  PROVE  \A d \in Clients : Holding(d)' => Holding(d) /\ req'[d].sid = req[d].sid
BY StrollsOn, StrollHolds

\* Only Issue writes a token.
LEMMA TokensShrink ==
  ASSUME AccountsTypeInv, NEW c \in Clients, Continue(c) \/ Personnel(c), ~Issue(c)
  PROVE  tokens' \subseteq tokens
<1> USE DEF AccountsTypeInv
<1>1. CASE Continue(c)
  <2>1. ASSUME Archive(c) PROVE tokens' \subseteq tokens
    BY <2>1 DEF Archive, ChangeStatus
  <2>2. ASSUME Confirm(c) PROVE tokens' \subseteq tokens
    BY <2>2 DEF Confirm
  <2>. QED BY <1>1, <2>1, <2>2 DEF Continue, Restore, Create, Open, Take, ReadUser, Purge, Admit, Drop, List,
              Close, DropSession, ClearSessions, Reread, SetPassword, CheckOpen, Ask, CheckPending,
              Decide, ClearResets
<1>2. CASE Personnel(c)
  <2>1. ASSUME Resolve(c) PROVE tokens' \subseteq tokens
    BY <2>1 DEF Resolve, Punish
  <2>2. ASSUME Moderate(c) PROVE tokens' \subseteq tokens
    BY <2>2 DEF Moderate, ChangeStatus
  <2>3. ASSUME StartPersonnel(c) PROVE tokens' \subseteq tokens
    BY <2>3 DEF StartPersonnel, StartAuthed
  <2>. QED BY <1>2, <2>1, <2>2, <2>3 DEF Personnel, ReadReported, File, ReadReport, ReadTarget, ReadEdited,
              Write, Add, ListDue, Lift, quiet
<1>. QED BY <1>1, <1>2

LEMMA OpenRotates ==
  ASSUME AccountsTypeInv, RotationInv, NEW c \in Clients, UNCHANGED reports, Open(c)
  PROVE  RotationInv'
<1>1. Sids \subseteq Sids' /\ UNCHANGED tokens /\ Sids \subseteq Nat /\ Len(sessions) \in Nat
      /\ tokens \subseteq Sids \X Nat
  BY OpenOK, GrownSets, SidsAreNat DEF Open, AccountsTypeInv, RowsOK
<1>2. CASE Answered(c)
  BY <1>1, <1>2, AnswerHolds, NothingTaken
<1>3. CASE /\ sessions' = Append(sessions, [user |-> req[c].as, state |-> "open",
                                               root |-> Len(sessions) + 1])
           /\ Holds(c) /\ req'[c].at = "issue" /\ req'[c].sid = Len(sessions) + 1
  <2> DEFINE s == Len(sessions) + 1
  <2>1. s \in Sids' /\ s \notin Sids
    BY <1>1, <1>3 DEF Sids, AccountsTypeInv, RowsOK
  <2> HIDE DEF s
  <2>2. req'[c].sid = s
    BY <1>3 DEF s
  <2>3. \A t \in tokens' : t[1] # s
    BY <1>1, <2>1
  <2>4. \A d \in Clients \ {c} : Holding(d)' => /\ Holding(d) /\ req'[d].sid = req[d].sid /\ req[d].sid \in Sids
                                                /\ \A t \in tokens : t[1] # req[d].sid
    BY <1>3 DEF Holds, Alone, Holding, RotationInv, Held
  <2>5. OneTokenPerSession'
    BY <1>1 DEF RotationInv, OneTokenPerSession
  <2>6. ASSUME NEW d \in Clients, Holding(d)'
        PROVE  Held(d)'
    <3>1. CASE d = c
      BY <2>1, <2>2, <2>3, <2>4, <3>1 DEF Held
    <3>2. CASE d # c
      BY <1>1, <2>1, <2>2, <2>4, <2>6, <3>2 DEF RotationInv, Held
    <3>. QED BY <3>1, <3>2
  <2>. QED BY <2>5, <2>6 DEF RotationInv
<1>. QED BY <1>2, <1>3, OpenOK

LEMMA IssueRotates ==
  ASSUME AccountsTypeInv, RotationInv, NEW c \in Clients, UNCHANGED reports, Issue(c)
  PROVE  RotationInv'
<1>1. UNCHANGED sessions /\ Holding(c) /\ Answered(c)
  BY AnswerMoves DEF Issue, At, Holding, AccountsTypeInv
<1>2. PICK gen \in IF req[c].op = "refresh" THEN {req[c].gen, req[c].gen + 1} ELSE {0} :
         LET t == <<req[c].sid, gen>> IN
         IF t \in tokens THEN UNCHANGED <<tokens, known>>
         ELSE /\ tokens' = tokens \cup {t}
              /\ known' = known \cup {t}
  BY DEF Issue
<1>3. \A t \in tokens' : t \in tokens \/ t = <<req[c].sid, gen>>
  BY <1>2
<1>4. \A t \in tokens : t[1] # req[c].sid
  BY <1>1 DEF RotationInv, Held
<1>5. OneTokenPerSession'
  BY <1>3, <1>4 DEF RotationInv, OneTokenPerSession
<1>6. ASSUME NEW d \in Clients, Holding(d)'
      PROVE  d # c /\ Holding(d) /\ req'[d].sid = req[d].sid
  <2>1. Holding(d) /\ req'[d].sid = req[d].sid
    BY <1>1, <1>6, AnswerHolds
  <2>2. d # c
    BY <1>1, <1>6, IdleOK DEF Answered, Holding
  <2>. QED BY <2>1, <2>2
<1>7. ASSUME NEW d \in Clients, Holding(d)'
      PROVE  Held(d)'
  <2>1. d # c /\ Holding(d) /\ req'[d].sid = req[d].sid /\ Sids' = Sids
    BY <1>1, <1>6, <1>7 DEF Sids
  <2>2. req[d].sid # req[c].sid
    BY <1>1, <2>1 DEF RotationInv, Held
  <2>3. \A t \in tokens' : t[1] # req'[d].sid
    BY <1>3, <2>1, <2>2 DEF RotationInv, Held
  <2>4. \A e \in Clients : Holding(e)' /\ req'[e].sid = req'[d].sid => e = d
    BY <1>6, <2>1 DEF RotationInv, Held
  <2>. QED BY <2>1, <2>3, <2>4 DEF RotationInv, Held
<1>. QED BY <1>5, <1>7 DEF RotationInv

LEMMA TakeRotates ==
  ASSUME AccountsTypeInv, RotationInv, NEW c \in Clients, UNCHANGED reports, Take(c)
  PROVE  RotationInv'
<1>1. UNCHANGED sessions /\ Sids' = Sids /\ tokens' \subseteq tokens /\ req[c].sid \in Sids
  BY DEF Take, Sids, At, AccountsTypeInv, RequestsOK, Carries
<1>2. CASE Answered(c)
  BY <1>1, <1>2, AnswerHolds, NothingTaken
<1>3. CASE /\ <<req[c].sid, req[c].gen>> \in tokens
           /\ tokens' = tokens \ {<<req[c].sid, req[c].gen>>}
           /\ Moved(c, "user")
  <2> DEFINE s == req[c].sid
  <2>1. req'[c].sid = s
    BY <1>3 DEF Moved
  <2>2. \A t \in tokens' : t[1] # s
    BY <1>3 DEF RotationInv, OneTokenPerSession
  <2>3. \A d \in Clients : Holding(d) => req[d].sid # s
    BY <1>3 DEF RotationInv, Held
  <2>4. \A d \in Clients \ {c} : Holding(d)' => Holding(d) /\ req'[d].sid = req[d].sid
    BY <1>3 DEF Moved, Alone, Holding
  <2>5. OneTokenPerSession'
    BY <1>1 DEF RotationInv, OneTokenPerSession
  <2>6. ASSUME NEW d \in Clients, Holding(d)'
        PROVE  Held(d)'
    <3>1. CASE d = c
      BY <1>1, <2>1, <2>2, <2>3, <2>4, <3>1 DEF Held
    <3>2. CASE d # c
      BY <1>1, <2>1, <2>3, <2>4, <2>6, <3>2 DEF RotationInv, Held
    <3>. QED BY <3>1, <3>2
  <2>. QED BY <2>5, <2>6 DEF RotationInv
<1>. QED BY <1>2, <1>3, TakeOK

\* The steps that only walk on.
LEMMA Strollers ==
  ASSUME AccountsTypeInv, NEW c \in Clients,
         \/ UNCHANGED reports /\ Continue(c)
         \/ Personnel(c)
  PROVE  \/ Strolls(c)
         \/ /\ UNCHANGED reports
            /\ \/ Restore(c) \/ Open(c) \/ Take(c) \/ ReadUser(c) \/ List(c) \/ Close(c) \/ CheckPending(c)
               \/ StartPersonnel(c)
         \/ ReadReport(c) \/ ReadReported(c)
<1>1. CASE UNCHANGED reports /\ Continue(c)
  BY <1>1, CreateOK, IssueOK, PurgeOK, AdmitOK, DropOK, DropSessionOK, ClearSessionsOK, RereadOK,
     SetPasswordOK, ArchiveOK, CheckOpenOK, AskOK, DecideOK, ConfirmOK, ClearResetsOK DEF Continue
<1>2. CASE Personnel(c)
  BY <1>2, ReadReportedOK, FileOK, ResolveOK, ReadTargetOK, ModerateOK, ReadEditedOK, WriteOK, AddOK,
     ListDueOK, LiftOK DEF Personnel, StartPersonnel
<1>. QED BY <1>1, <1>2

\* The others give up what they held, or go on holding it.
LEMMA OthersHold ==
  ASSUME AccountsTypeInv, NEW c \in Clients,
         \/ UNCHANGED reports /\ Continue(c)
         \/ UNCHANGED reports /\ Arrive(c)
         \/ Personnel(c),
         ~Open(c), ~Take(c)
  PROVE  \A d \in Clients : Holding(d)' => Holding(d) /\ req'[d].sid = req[d].sid
<1>1. CASE Strolls(c)
  BY <1>1, StrollHolds
<1>2. CASE UNCHANGED reports /\ Restore(c)
  <2>1. /\ Holds(c) /\ req'[c].at \in {"open", "issue", "session"} /\ req'[c].sid = req[c].sid
        /\ req'[c].at = "issue" => req[c].op = "refresh"
    BY <1>2, RestoreOK
  <2>. QED BY <1>2, <2>1 DEF Holds, Alone, Holding, Restore, At
<1>3. CASE UNCHANGED reports /\ ReadUser(c)
  <2>1. \/ Strolls(c)
        \/ Holds(c) /\ req'[c].at \in {"restore", "issue"} /\ req'[c].sid = req[c].sid
    BY <1>3, ReadUserOK
  <2>2. req[c].at = "user"
    BY <1>3 DEF ReadUser, At
  <2>. QED BY <1>1, <2>1, <2>2 DEF Holds, Alone, Holding
<1>4. ASSUME Alone(c), req'[c].at \notin {"issue", "user", "restore"}
      PROVE  \A d \in Clients : Holding(d)' => Holding(d) /\ req'[d].sid = req[d].sid
  BY <1>4 DEF Alone, Holding
<1>5. CASE (UNCHANGED reports /\ (List(c) \/ Close(c) \/ CheckPending(c))) \/ ReadReport(c) \/ ReadReported(c)
  <2>1. CASE List(c)
    BY <1>4, <2>1, Lists DEF Holds
  <2>2. CASE UNCHANGED reports /\ Close(c)
    <3>1. \/ Moved(c, "dropSession")
          \/ Answered(c)
      BY <2>2, CloseOK
    <3>. QED BY <1>4, <3>1, AnswerHolds DEF Moved
  <2>3. CASE UNCHANGED reports /\ CheckPending(c)
    <3>1. \/ Holds(c) /\ req'[c].at = "decide"
          \/ Answered(c)
      BY <2>3, CheckPendingOK
    <3>. QED BY <1>4, <3>1, AnswerHolds DEF Holds
  <2>4. CASE ReadReport(c)
    <3>1. \/ Holds(c) /\ req'[c].at = "resolve"
          \/ Answered(c)
      BY <2>4, ReportRead
    <3>. QED BY <1>4, <3>1, AnswerHolds DEF Holds
  <2>5. CASE ReadReported(c)
    <3>1. \/ Holds(c) /\ req'[c].at = "file"
          \/ Answered(c)
      BY <2>5, ReadReportedOK
    <3>. QED BY <1>4, <3>1, AnswerHolds DEF Holds
  <2>. QED BY <1>5, <2>1, <2>2, <2>3, <2>4, <2>5
<1>6. CASE UNCHANGED reports /\ (Arrive(c) \/ StartPersonnel(c))
  BY <1>6, StartsOK DEF Begins, Alone, Holding
<1>. QED BY <1>1, <1>2, <1>3, <1>5, <1>6, Strollers

LEMMA RotationStep ==
  ASSUME AccountsTypeInv, RotationInv, DisciplineNext
  PROVE  RotationInv'
<1>1. Sids \subseteq Sids'
  BY StepTyped, GrownSets
<1>2. ASSUME NEW c \in Clients,
             \/ UNCHANGED reports /\ Continue(c)
             \/ UNCHANGED reports /\ Arrive(c)
             \/ Personnel(c)
      PROVE  RotationInv'
  <2>1. CASE UNCHANGED reports /\ Open(c)
    BY <2>1, OpenRotates
  <2>2. CASE UNCHANGED reports /\ Take(c)
    BY <2>2, TakeRotates
  <2>3. CASE UNCHANGED reports /\ Issue(c)
    BY <2>3, IssueRotates
  <2>4. CASE ~Open(c) /\ ~Take(c) /\ ~Issue(c)
    <3>1. \A d \in Clients : Holding(d)' => Holding(d) /\ req'[d].sid = req[d].sid
      BY <1>2, <2>4, OthersHold
    <3>2. tokens' \subseteq tokens
      <4>1. CASE UNCHANGED reports /\ Arrive(c)
        BY <4>1, StartsOK
      <4>. QED BY <1>2, <2>4, <4>1, TokensShrink
    <3>. QED BY <1>1, <3>1, <3>2, NothingTaken
  <2>5. CASE Personnel(c) /\ (Open(c) \/ Take(c) \/ Issue(c))
    <3>1. UNCHANGED reports
      BY <2>5 DEF Personnel, StartPersonnel, ReadReported, File, ReadReport, Resolve, ReadTarget, Moderate,
                  ReadEdited, Write, Add, ListDue, Lift, Open, Take, Issue, At
    <3>. QED BY <2>1, <2>2, <2>3, <2>5, <3>1
  <2>. QED BY <1>2, <2>1, <2>2, <2>3, <2>4, <2>5
<1>3. ASSUME NEW u \in Users, TimePasses(u)
      PROVE  RotationInv'
  <2>1. UNCHANGED <<tokens, req>>
    BY <1>3 DEF TimePasses
  <2>. QED BY <1>1, <2>1, NothingTaken DEF Holding
<1>. QED BY <1>2, <1>3 DEF DisciplineNext, Next

\* Requests at the start.
LEMMA InitIdle ==
  ASSUME DisciplineInit
  PROVE  \A c \in Clients : req[c].at = "idle" /\ req[c].op = "none" /\ req[c].had = {}
<1>1. ASSUME NEW c \in Clients PROVE req[c].at = "idle" /\ req[c].op = "none" /\ req[c].had = {}
  BY IdleOK DEF DisciplineInit, Init
<1>. QED BY <1>1

\* Rotation leaves one refresh token of a session, whatever refreshes, sign-ins,
\* resets and moderation run beside one another (auth/router refresh 242-281).
THEOREM OneTokenLeft == DisciplineSpec => []OneTokenPerSession
<1>1. DisciplineInit => AccountsTypeInv /\ RotationInv
  <2> SUFFICES ASSUME DisciplineInit PROVE AccountsTypeInv /\ RotationInv
    OBVIOUS
  <2>1. tokens = Sids \X {0}
    BY DEF DisciplineInit, Init
  <2>2. OneTokenPerSession
    BY <2>1 DEF OneTokenPerSession
  <2>. QED BY <2>2, InitTyped, InitIdle DEF RotationInv, Holding
<1>2. AccountsTypeInv /\ RotationInv /\ [DisciplineNext]_dvars => (AccountsTypeInv /\ RotationInv)'
  <2> SUFFICES ASSUME AccountsTypeInv, RotationInv, [DisciplineNext]_dvars
               PROVE  AccountsTypeInv' /\ RotationInv'
    OBVIOUS
  <2>1. CASE DisciplineNext
    BY <2>1, StepTyped, RotationStep
  <2>2. CASE UNCHANGED dvars
    <3>1. UNCHANGED <<sessions, tokens, req>>
      BY <2>2 DEF dvars, vars
    <3>. QED BY <2>2, <3>1, StutterTyped, NothingTaken DEF Holding, Sids
  <2>. QED BY <2>1, <2>2
<1>3. AccountsTypeInv /\ RotationInv => OneTokenPerSession
  BY DEF RotationInv
<1>. QED BY <1>1, <1>2, <1>3, PTL DEF DisciplineSpec

-----------------------------------------------------------------------------
(* Sign-outs.  The login of a session is the session itself, for rotation  *)
(* keeps it; a sign-out that was answered has ended every session it       *)
(* speaks of, and one under way has listed those that are still open.      *)
Ending(r) ==
  /\ r.op = "none" => r.at = "idle"
  /\ \A s \in r.had : sessions[s].user = r.as
  /\ r.at = "close" =>
       IF r.op = "endSession" THEN r.arg \in r.ids \/ sessions[r.arg].state # "open"
       ELSE \A s \in r.had : s \in r.ids \/ sessions[s].state # "open"
  /\ r.at = "dropSession" => sessions[r.arg].state # "open"
SignOutInv ==
  /\ \A s \in Sids : sessions[s].root = s
  /\ signedOut \subseteq Sids /\ \A s \in signedOut : sessions[s].state # "open"
  /\ \A c \in Clients : Ending(req[c])

\* A session keeps its account and its login, and does not open again; a new
\* one is a login of its own.
SessionsKeep ==
  /\ Sids \subseteq Sids'
  /\ \A s \in Sids : /\ sessions'[s].user = sessions[s].user /\ sessions'[s].root = sessions[s].root
                     /\ sessions[s].state # "open" => sessions'[s].state # "open"
  /\ \A s \in Sids' \ Sids : sessions'[s].root = s

LEMMA ClosedKept ==
  ASSUME AccountsTypeInv, Grown, SessionsClose
  PROVE  SessionsKeep
BY GrownSets DEF SessionsClose, SessionsKeep, Sids

LEMMA OpenedKept ==
  ASSUME AccountsTypeInv, Grown, NEW u,
         sessions' = Append(sessions, [user |-> u, state |-> "open", root |-> Len(sessions) + 1])
  PROVE  SessionsKeep
<1>1. sessions \in Seq(Session) /\ Len(sessions) \in Nat
  BY DEF AccountsTypeInv, RowsOK
<1>2. Sids' = Sids \cup {Len(sessions) + 1} /\ Sids \subseteq 1 .. Len(sessions)
  BY <1>1 DEF Sids
<1>3. \A s \in Sids : sessions'[s] = sessions[s]
  BY <1>1, <1>2
<1>4. sessions'[Len(sessions) + 1].root = Len(sessions) + 1
  BY <1>1
<1>. QED BY <1>2, <1>3, <1>4 DEF SessionsKeep

\* What a request that waits, strolls or starts is to end stays ended.
LEMMA EndingKept ==
  ASSUME AccountsTypeInv, SignOutInv, SessionsKeep, NEW c \in Clients, req'[c] = req[c]
  PROVE  Ending(req[c])'
<1> DEFINE r == req[c]
<1>1. Carries(r) /\ Ending(r) /\ req'[c] = r
  BY DEF AccountsTypeInv, RequestsOK, SignOutInv
<1>2. \A s \in Sids : /\ sessions'[s].user = sessions[s].user
                      /\ sessions[s].state # "open" => sessions'[s].state # "open"
  BY DEF SessionsKeep
<1> HIDE DEF r
<1>3. /\ r.op = "none" => r.at = "idle"
      /\ \A s \in r.had : sessions'[s].user = r.as
  BY <1>1, <1>2 DEF Carries, Ending
<1>4. ASSUME r.at = "close"
      PROVE  IF r.op = "endSession" THEN r.arg \in r.ids \/ sessions'[r.arg].state # "open"
             ELSE \A s \in r.had : s \in r.ids \/ sessions'[s].state # "open"
  <2>1. CASE r.op = "endSession"
    BY <1>1, <1>2, <1>4, <2>1 DEF Carries, Ending
  <2>2. CASE r.op # "endSession"
    BY <1>1, <1>2, <1>4, <2>2 DEF Carries, Ending
  <2>. QED BY <2>1, <2>2
<1>5. r.at = "dropSession" => sessions'[r.arg].state # "open"
  BY <1>1, <1>2 DEF Carries, Ending
<1>. QED BY <1>1, <1>3, <1>4, <1>5 DEF Ending

LEMMA StrollsEnding ==
  ASSUME AccountsTypeInv, SignOutInv, SessionsKeep, NEW c \in Clients, req[c].at # "idle",
         \/ Strolls(c)
         \/ Holds(c) /\ req'[c].at \notin {"close", "dropSession"}
  PROVE  Ending(req[c])'
<1> DEFINE r == req[c]
           q == req'[c]
<1>1. Carries(r) /\ Ending(r)
  BY DEF AccountsTypeInv, RequestsOK, SignOutInv
<1>2. \A s \in Sids : sessions'[s].user = sessions[s].user
  BY DEF SessionsKeep
<1>3. \/ q = Idle
      \/ /\ q.op = r.op /\ q.as = r.as /\ q.had \in {r.had, OpenOf(r.as)}
         /\ q.at \notin {"close", "dropSession"}
  BY DEF Strolls, Holds, Special
<1>4. r.at # "idle"
  OBVIOUS
<1> HIDE DEF q
<1>5. q.at \notin {"close", "dropSession"} /\ (q.op = "none" => q.at = "idle")
  BY <1>1, <1>3, <1>4, IdleOK DEF Ending
<1>6. \A s \in q.had : sessions'[s].user = q.as
  <2>1. CASE q = Idle
    BY <2>1, IdleOK
  <2>2. CASE q # Idle
    <3>1. \A s \in r.had \cup OpenOf(r.as) : s \in Sids /\ sessions[s].user = r.as
      BY <1>1 DEF Carries, Ending, OpenOf
    <3>2. q.had \subseteq r.had \cup OpenOf(r.as) /\ q.as = r.as
      BY <1>3, <2>2
    <3>. QED BY <1>2, <3>1, <3>2
  <2>. QED BY <2>1, <2>2
<1>. QED BY <1>5, <1>6 DEF Ending, q

\* No handler is at work for a client that waits for nothing.
LEMMA AtWork ==
  ASSUME NEW c \in Clients, Continue(c) \/ (Personnel(c) /\ ~StartPersonnel(c))
  PROVE  req[c].at # "idle"
<1>1. CASE Continue(c)
  BY <1>1 DEF Continue, Restore, Create, Open, Issue, Take, ReadUser, Purge, Admit, Drop, List,
              Close, DropSession, ClearSessions, Reread, SetPassword, Archive, CheckOpen, Ask,
              CheckPending, Decide, Confirm, ClearResets, At
<1>2. CASE Personnel(c) /\ ~StartPersonnel(c)
  BY <1>2 DEF Personnel, ReadReported, File, ReadReport, Resolve, ReadTarget, Moderate, ReadEdited,
              Write, Add, ListDue, Lift, At
<1>. QED BY <1>1, <1>2

\* Every session a sign-out speaks of is over.
SignedOutOver == \A s \in signedOut' : s \in Sids /\ sessions'[s].state # "open"

LEMMA SameSignOuts ==
  ASSUME SignOutInv, SessionsKeep, UNCHANGED signedOut
  PROVE  SignedOutOver
BY DEF SignOutInv, SessionsKeep, SignedOutOver

LEMMA LoginsEnd ==
  ASSUME AccountsTypeInv, SignOutInv, NEW ids \in SUBSET Sids, sessions' = Revoked(ids),
         signedOut' = signedOut \cup {Root(s) : s \in ids}
  PROVE  SignedOutOver
<1>1. SessionsClose /\ \A s \in Sids : s \in ids => sessions'[s].state # "open"
  BY RevokedCloses DEF AccountsTypeInv
<1>2. \A s \in ids : s \in Sids /\ Root(s) = s
  BY DEF SignOutInv, Root
<1>3. \A s \in signedOut' : s \in signedOut \/ s \in ids
  BY <1>2
<1>. QED BY <1>1, <1>2, <1>3 DEF SignOutInv, SessionsClose, SignedOutOver

LEMMA StatusSignsOut ==
  ASSUME AccountsTypeInv, SignOutInv, NEW u \in Users, NEW status \in Statuses,
         NEW until \in {"none", "ahead", "passed"}, ChangeStatus(u, status, until)
  PROVE  SessionsClose /\ SignedOutOver
<1>1. SessionsClose
  BY StatusChanges DEF AccountsTypeInv
<1>2. CASE status = "active"
  <2>1. UNCHANGED signedOut
    BY <1>2 DEF ChangeStatus
  <2>. QED BY <1>1, <2>1 DEF SignOutInv, SessionsClose, SignedOutOver
<1>3. CASE status # "active"
  <2>1. sessions' = Revoked(OpenOf(u)) /\ signedOut' = signedOut \cup {Root(s) : s \in OpenOf(u)}
    BY <1>3 DEF ChangeStatus
  <2>2. OpenOf(u) \in SUBSET Sids
    BY DEF OpenOf
  <2>. QED BY <1>1, <2>1, <2>2, LoginsEnd
<1>. QED BY <1>2, <1>3

\* A step keeps sessions; but for the answers of sign-outs, whoever it signs out
\* has no session left.
LEMMA SessionsOfSteps ==
  ASSUME AccountsTypeInv, SignOutInv, DisciplineNext
  PROVE  /\ SessionsKeep
         /\ \/ SignedOutOver
            \/ \E c \in Clients : UNCHANGED reports /\ Close(c) /\ req[c].op # "endSession"
            \/ \E c \in Clients : DropSession(c)
<1>0. Grown
  BY StepTyped
<1>1. ASSUME UNCHANGED <<sessions, signedOut>>
      PROVE  SessionsKeep /\ SignedOutOver
  <2>1. SessionsClose
    BY <1>1, SameSessionsClose DEF AccountsTypeInv
  <2>. QED BY <1>0, <1>1, <2>1, ClosedKept, SameSignOuts
<1>2. ASSUME NEW u \in Users, TimePasses(u)
      PROVE  SessionsKeep /\ SignedOutOver
  BY <1>1, <1>2 DEF TimePasses
<1>3. ASSUME NEW c \in Clients, Arrive(c) \/ StartPersonnel(c), UNCHANGED reports
      PROVE  SessionsKeep /\ SignedOutOver
  BY <1>1, <1>3, StartsOK
<1>4. ASSUME NEW c \in Clients, Continue(c), UNCHANGED reports
      PROVE  /\ SessionsKeep
             /\ \/ SignedOutOver
                \/ Close(c) /\ req[c].op # "endSession"
                \/ DropSession(c)
  <2>1. CASE Open(c)
    <3>1. UNCHANGED signedOut
      BY <2>1 DEF Open
    <3>2. CASE UNCHANGED sessions
      BY <1>1, <3>1, <3>2
    <3>3. CASE sessions' = Append(sessions, [user |-> req[c].as, state |-> "open",
                                               root |-> Len(sessions) + 1])
      BY <1>0, <3>1, <3>3, OpenedKept, SameSignOuts
    <3>. QED BY <1>4, <2>1, <3>2, <3>3, OpenOK
  <2>2. CASE Close(c)
    <3>1. SessionsKeep
      BY <1>0, <2>2, RevokedCloses, ClosedKept DEF Close, AccountsTypeInv
    <3>2. req[c].op = "endSession" => UNCHANGED signedOut
      BY <2>2 DEF Close
    <3>. QED BY <2>2, <3>1, <3>2, SameSignOuts
  <2>3. CASE DropSession(c)
    <3>1. UNCHANGED sessions
      BY <2>3 DEF DropSession
    <3>. QED BY <1>0, <2>3, <3>1, SameSessionsClose, ClosedKept DEF AccountsTypeInv
  <2>4. CASE ClearSessions(c)
    <3>1. UNCHANGED signedOut
      BY <2>4 DEF ClearSessions
    <3>2. SessionsClose
      BY <2>4, ClearedCloses DEF AccountsTypeInv
    <3>. QED BY <1>0, <3>1, <3>2, ClosedKept, SameSignOuts
  <2>5. CASE Archive(c)
    <3>1. req[c].as \in Users
      BY DEF AccountsTypeInv, RequestsOK, Requests
    <3>2. ChangeStatus(req[c].as, "deleted", "none")
      BY <2>5 DEF Archive
    <3>3. SessionsClose /\ SignedOutOver
      BY <3>1, <3>2, StatusSignsOut DEF Statuses
    <3>. QED BY <1>0, <3>3, ClosedKept
  <2>6. CASE Confirm(c)
    <3>1. CASE resets[req[c].arg].status = "cleared"
      BY <1>1, <2>6, <3>1 DEF Confirm
    <3>2. CASE resets[req[c].arg].status # "cleared"
      <4> DEFINE u == resets[req[c].arg].target
      <4>1. sessions' = Revoked(OpenOf(u)) /\ signedOut' = signedOut \cup {Root(s) : s \in OpenOf(u)}
        BY <2>6, <3>2 DEF Confirm
      <4>2. OpenOf(u) \in SUBSET Sids
        BY DEF OpenOf
      <4>3. SessionsClose
        BY <4>1, RevokedCloses DEF AccountsTypeInv
      <4>. QED BY <1>0, <4>1, <4>2, <4>3, LoginsEnd, ClosedKept
    <3>. QED BY <3>1, <3>2
  <2>. QED BY <1>1, <1>4, <2>1, <2>2, <2>3, <2>4, <2>5, <2>6
       DEF Continue, Restore, Create, Issue, Take, ReadUser, KeptSession, Purge, Admit, Drop, List,
           Reread, SetPassword, CheckOpen, Ask, CheckPending, Decide, ClearResets
<1>5. ASSUME NEW c \in Clients, Personnel(c)
      PROVE  SessionsKeep /\ SignedOutOver
  <2>1. CASE StartPersonnel(c)
    BY <1>3, <2>1 DEF StartPersonnel
  <2>2. CASE Resolve(c)
    <3>1. CASE UNCHANGED <<account, sessions, tokens, signedOut>>
      BY <1>1, <3>1
    <3>2. ASSUME NEW action \in {"none", "suspend", "demote", "ban"}, NEW until \in {"none", "ahead"},
                 Punish(c, action, until)
          PROVE  SessionsKeep /\ SignedOutOver
      <4> DEFINE u == reports[req[c].arg].target
                 row == Punished(account[u], req[c].seen, action, until)
      <4>1. CASE EndsSessions(row, action)
        <5>1. sessions' = Revoked(OpenOf(u)) /\ signedOut' = signedOut \cup {Root(s) : s \in OpenOf(u)}
          BY <3>2, <4>1 DEF Punish, EndsSessions
        <5>2. OpenOf(u) \in SUBSET Sids
          BY DEF OpenOf
        <5>3. SessionsClose
          BY <5>1, RevokedCloses DEF AccountsTypeInv
        <5>. QED BY <1>0, <5>1, <5>2, <5>3, LoginsEnd, ClosedKept
      <4>2. CASE ~EndsSessions(row, action)
        <5>1. UNCHANGED <<sessions, signedOut>>
          BY <3>2, <4>2 DEF Punish, EndsSessions
        <5>. QED BY <1>1, <5>1
      <4>. QED BY <4>1, <4>2
    <3>. QED BY <2>2, <3>1, <3>2 DEF Resolve
  <2>3. CASE Moderate(c)
    <3>1. PICK status \in Statuses, until \in {"none", "ahead", "passed"} : ChangeStatus(req[c].arg, status, until)
      BY <2>3 DEF Moderate, Statuses
    <3>2. req[c].arg \in Users
      BY <2>3 DEF Moderate, At, AccountsTypeInv, RequestsOK, Carries
    <3>3. SessionsClose /\ SignedOutOver
      BY <3>1, <3>2, StatusSignsOut
    <3>. QED BY <1>0, <3>3, ClosedKept
  <2>. QED BY <1>1, <1>5, <2>1, <2>2, <2>3
       DEF Personnel, ReadReported, File, ReadReport, ReadTarget, ReadEdited, Write, Add, ListDue, Lift, quiet
<1>. QED BY <1>2, <1>3, <1>4, <1>5 DEF DisciplineNext, Next

\* What was open at the list is listed.
LEMMA ListEnding ==
  ASSUME AccountsTypeInv, SignOutInv, SessionsKeep, NEW c \in Clients, List(c), UNCHANGED sessions
  PROVE  Ending(req[c])'
<1>1. PICK s \in Nat :
           /\ Holds(c) /\ req'[c].at = "close"
           /\ req'[c].arg = s /\ req'[c].ids = ToRevoke(req[c], s)
           /\ ToRevoke(req[c], s) \subseteq Sids
           /\ req[c].op = "endSession" => s \in Sids
  BY Lists
<1>2. Carries(req[c]) /\ Ending(req[c]) /\ req[c].at = "list"
  BY DEF AccountsTypeInv, RequestsOK, SignOutInv, List, At
<1>3. req'[c].op # "none" /\ \A x \in req'[c].had : x \in Sids /\ sessions[x].user = req'[c].as
  BY <1>1, <1>2 DEF Holds, Carries, Ending
<1>4. CASE req[c].op = "endSession"
  <2>1. s \in ToRevoke(req[c], s) \/ sessions[s].state # "open"
    BY <1>1, <1>4 DEF ToRevoke, OpenOf
  <2>. QED BY <1>1, <1>3, <1>4, <2>1 DEF Holds, Ending
<1>5. CASE req[c].op # "endSession"
  <2>1. \A x \in req'[c].had : x \in ToRevoke(req[c], s) \/ sessions[x].state # "open"
    BY <1>1, <1>3, <1>5 DEF ToRevoke, OpenOf, Holds
  <2>. QED BY <1>1, <1>3, <1>5, <2>1 DEF Holds, Ending
<1>. QED BY <1>4, <1>5

\* What was listed is closed.
LEMMA CloseEnding ==
  ASSUME AccountsTypeInv, SignOutInv, SessionsKeep, NEW c \in Clients, Close(c), UNCHANGED reports
  PROVE  /\ Ending(req[c])'
         /\ req[c].op # "endSession" => SignedOutOver
<1>1. SessionsClose /\ \A s \in Sids : s \in req[c].ids => sessions'[s].state # "open"
  BY RevokedCloses DEF Close, AccountsTypeInv
<1>2. Carries(req[c]) /\ Ending(req[c]) /\ req[c].at = "close"
  BY DEF AccountsTypeInv, RequestsOK, SignOutInv, Close, At
<1>3. \A s \in Sids : /\ sessions'[s].user = sessions[s].user
                      /\ sessions[s].state # "open" => sessions'[s].state # "open"
  BY DEF SessionsKeep
<1>4. CASE req[c].op = "endSession"
  <2>1. Moved(c, "dropSession")
    BY <1>4, CloseOK
  <2>2. req[c].arg \in Sids /\ sessions'[req[c].arg].state # "open"
    BY <1>1, <1>2, <1>3, <1>4 DEF Carries, Ending
  <2>3. \A s \in req'[c].had : sessions'[s].user = req'[c].as
    BY <1>2, <1>3, <2>1 DEF Moved, Carries, Ending
  <2>. QED BY <1>2, <1>4, <2>1, <2>2, <2>3 DEF Moved, Ending
<1>5. CASE req[c].op # "endSession"
  <2>1. Ending(req[c])'
    BY <1>5, CloseOK, IdleOK DEF Answered, Ending
  <2>2. \A s \in req[c].had : s \in Sids /\ Root(s) = s /\ sessions'[s].state # "open"
    BY <1>1, <1>2, <1>3, <1>5 DEF Carries, Ending, SignOutInv, Root
  <2>3. signedOut' = signedOut \cup {Root(s) : s \in req[c].had}
    BY <1>5 DEF Close
  <2>4. \A s \in signedOut' : s \in signedOut \/ s \in req[c].had
    BY <2>2, <2>3
  <2>. QED BY <1>3, <2>1, <2>2, <2>4 DEF SignOutInv, SignedOutOver
<1>. QED BY <1>4, <1>5

LEMMA DropSessionEnding ==
  ASSUME AccountsTypeInv, SignOutInv, SessionsKeep, NEW c \in Clients, DropSession(c)
  PROVE  SignedOutOver
<1>1. req[c].arg \in Sids /\ sessions[req[c].arg].state # "open" /\ Root(req[c].arg) = req[c].arg
  BY DEF AccountsTypeInv, RequestsOK, Carries, SignOutInv, Ending, DropSession, At, Root
<1>2. signedOut' = signedOut \cup {req[c].arg} /\ UNCHANGED sessions
  BY <1>1 DEF DropSession
<1>. QED BY <1>1, <1>2 DEF SignOutInv, SignedOutOver

LEMMA BeginsEnding ==
  ASSUME AccountsTypeInv, SessionsKeep, NEW c \in Clients, Begins(c), UNCHANGED sessions
  PROVE  Ending(req[c])'
<1>1. \A s \in req'[c].had : sessions'[s].user = req'[c].as
  BY DEF Begins, OpenOf
<1>. QED BY <1>1 DEF Begins, Ending, Plain, Entries

\* Each client's own step.
LEMMA EndingStep ==
  ASSUME AccountsTypeInv, SignOutInv, SessionsKeep, NEW c \in Clients,
         \/ UNCHANGED reports /\ Continue(c)
         \/ UNCHANGED reports /\ Arrive(c)
         \/ Personnel(c)
  PROVE  Alone(c) /\ Ending(req[c])'
<1>1. CASE UNCHANGED reports /\ (Arrive(c) \/ StartPersonnel(c))
  BY <1>1, StartsOK, BeginsEnding
<1>2. CASE ~(UNCHANGED reports /\ (Arrive(c) \/ StartPersonnel(c)))
  <2>1. req[c].at # "idle"
    BY <1>2, AtWork DEF StartPersonnel
  <2>2. CASE Answered(c) \/ Strolls(c)
    BY <2>1, <2>2, StrollsOn, StrollsEnding DEF Strolls
  <2>3. CASE (UNCHANGED reports /\ (Restore(c) \/ Open(c) \/ ReadUser(c) \/ CheckPending(c)))
             \/ ReadReport(c) \/ ReadReported(c)
    <3>1. \/ Answered(c) \/ Strolls(c)
          \/ Holds(c) /\ req'[c].at \notin {"close", "dropSession"}
      <4>1. CASE UNCHANGED reports /\ Restore(c)
        BY <4>1, RestoreOK
      <4>2. CASE UNCHANGED reports /\ Open(c)
        BY <4>2, OpenOK
      <4>3. CASE UNCHANGED reports /\ ReadUser(c)
        BY <4>3, ReadUserOK
      <4>4. CASE UNCHANGED reports /\ CheckPending(c)
        BY <4>4, CheckPendingOK
      <4>5. CASE ReadReport(c)
        BY <4>5, ReportRead
      <4>6. CASE ReadReported(c)
        BY <4>6, ReadReportedOK
      <4>. QED BY <2>3, <4>1, <4>2, <4>3, <4>4, <4>5, <4>6
    <3>. QED BY <2>1, <2>2, <3>1, StrollsEnding DEF Holds
  <2>4. CASE UNCHANGED reports /\ Take(c)
    <3>1. Answered(c) \/ Moved(c, "user")
      BY <2>4, TakeOK
    <3>2. Moved(c, "user") => Holds(c) /\ req'[c].at \notin {"close", "dropSession"}
      BY DEF Moved, Holds
    <3>. QED BY <2>1, <2>2, <3>1, <3>2, StrollsEnding DEF Holds
  <2>5. CASE List(c)
    <3>1. UNCHANGED sessions
      BY <2>5 DEF List
    <3>. QED BY <2>5, <3>1, Lists, ListEnding DEF Holds
  <2>6. CASE UNCHANGED reports /\ Close(c)
    BY <2>6, CloseOK, CloseEnding DEF Moved, Answered
  <2>. QED BY <1>2, <2>2, <2>3, <2>4, <2>5, <2>6, Strollers
<1>. QED BY <1>1, <1>2

LEMMA SignOutStep ==
  ASSUME AccountsTypeInv, SignOutInv, DisciplineNext
  PROVE  SignOutInv'
<1>1. SessionsKeep
  BY SessionsOfSteps
<1>2. \A s \in Sids' : sessions'[s].root = s
  BY <1>1 DEF SessionsKeep, SignOutInv
<1>3. SignedOutOver
  <2>1. ASSUME NEW c \in Clients, UNCHANGED reports, Close(c), req[c].op # "endSession"
        PROVE  SignedOutOver
    BY <1>1, <2>1, CloseEnding
  <2>2. ASSUME NEW c \in Clients, DropSession(c) PROVE SignedOutOver
    BY <1>1, <2>2, DropSessionEnding
  <2>. QED BY <2>1, <2>2, SessionsOfSteps
<1>4. ASSUME NEW d \in Clients PROVE Ending(req[d])'
  <2>1. ASSUME NEW c \in Clients, \/ UNCHANGED reports /\ Continue(c)
                                  \/ UNCHANGED reports /\ Arrive(c)
                                  \/ Personnel(c)
        PROVE  Ending(req[d])'
    <3>1. Alone(c) /\ Ending(req[c])'
      BY <1>1, <2>1, EndingStep
    <3>. QED BY <1>1, <3>1, EndingKept DEF Alone
  <2>2. ASSUME NEW u \in Users, TimePasses(u)
        PROVE  Ending(req[d])'
    BY <1>1, <2>2, EndingKept DEF TimePasses
  <2>. QED BY <2>1, <2>2 DEF DisciplineNext, Next
<1>5. signedOut' \subseteq Sids' /\ \A s \in signedOut' : sessions'[s].state # "open"
  BY <1>1, <1>3 DEF SessionsKeep, SignedOutOver
<1>. QED BY <1>2, <1>4, <1>5 DEF SignOutInv

\* An answered sign-out holds: no request on a login it was to end is admitted,
\* whatever refreshes, sign-ins and moderation it ran beside (auth/router 242-281,
\* middleware/auth, security/session-service 78-101).  Admission asks for the
\* session only from security level 2 on.
THEOREM SignOutsHold == ASSUME SecurityLevel >= 2 PROVE DisciplineSpec => SignedOutStaysOut
<1> DEFINE SOInv == AccountsTypeInv /\ SignOutInv
           Stays == \A c \in Clients : At(c, "session") /\ req'[c].at \notin {"session", "idle"} =>
                      \/ Root(req[c].sid) \notin signedOut
                      \/ sessions[req[c].sid].state = "cleared"
<1>1. DisciplineInit => SOInv
  <2> SUFFICES ASSUME DisciplineInit PROVE SOInv
    OBVIOUS
  <2>1. \A s \in Sids : sessions[s].root = s
    BY DEF DisciplineInit, Init, Sids
  <2>2. signedOut = {}
    BY DEF DisciplineInit, Init
  <2>3. \A c \in Clients : Ending(req[c])
    BY InitIdle DEF Ending
  <2>. QED BY <2>1, <2>2, <2>3, InitTyped DEF SignOutInv
<1>2. SOInv /\ [DisciplineNext]_dvars => SOInv'
  <2> SUFFICES ASSUME SOInv, [DisciplineNext]_dvars PROVE SOInv'
    OBVIOUS
  <2>1. CASE DisciplineNext
    BY <2>1, StepTyped, SignOutStep
  <2>2. CASE UNCHANGED dvars
    <3>1. UNCHANGED <<sessions, signedOut, req>>
      BY <2>2 DEF dvars, vars
    <3>2. SignOutInv'
      BY <3>1 DEF SignOutInv, Ending, Sids
    <3>. QED BY <2>2, <3>2, StutterTyped
  <2>. QED BY <2>1, <2>2
<1>3. SOInv /\ [DisciplineNext]_dvars => Stays
  <2> SUFFICES ASSUME SOInv, [DisciplineNext]_dvars, NEW c \in Clients, At(c, "session"),
                      req'[c].at \notin {"session", "idle"}, Root(req[c].sid) \in signedOut
               PROVE  sessions[req[c].sid].state = "cleared"
    OBVIOUS
  <2>1. req[c].sid \in Sids /\ req[c].op # "none" /\ Root(req[c].sid) = req[c].sid
    BY DEF AccountsTypeInv, RequestsOK, Carries, SignOutInv, Ending, At, Root
  <2>2. sessions[req[c].sid].state # "open" /\ sessions[req[c].sid] \in Session
    BY <2>1 DEF AccountsTypeInv, RowsOK, SignOutInv, Sids
  <2>3. sessions[req[c].sid].state # "revoked"
    <3>1. req'[c] # req[c]
      BY DEF At
    <3>2. ASSUME DisciplineNext,
                 NEW d \in Clients, \/ UNCHANGED reports /\ Continue(d)
                                    \/ UNCHANGED reports /\ Arrive(d)
                                    \/ Personnel(d)
          PROVE  Admit(c)
      <4>1. SessionsKeep
        BY <3>2, SessionsOfSteps
      <4>2. d = c
        BY <3>1, <3>2, <4>1, EndingStep DEF Alone
      <4>3. ~Arrive(c) /\ ~StartPersonnel(c)
        BY <2>1 DEF Arrive, StartPersonnel, StartRegister, StartLogin, StartAsk, StartRefresh, StartAuthed,
                    StartConfirm, Start
      <4>4. CASE Continue(c)
        BY <4>4 DEF Continue, Restore, Create, Open, Issue, Take, ReadUser, Purge, Admit, Drop, List,
              Close, DropSession, ClearSessions, Reread, SetPassword, Archive, CheckOpen, Ask,
              CheckPending, Decide, Confirm, ClearResets, At
      <4>5. CASE Personnel(c)
        BY <4>3, <4>5 DEF Personnel, ReadReported, File, ReadReport, Resolve, ReadTarget, Moderate,
              ReadEdited, Write, Add, ListDue, Lift, At
      <4>. QED BY <3>2, <4>2, <4>3, <4>4, <4>5
    <3>3. Admit(c)
      BY <3>1, <3>2 DEF DisciplineNext, Next, TimePasses, dvars, vars
    <3>4. CASE Answer(c)
      BY <3>4, AnswerMoves, IdleOK DEF Answered, AccountsTypeInv
    <3>. QED BY <3>3, <3>4 DEF Admit, EnforceSessions
  <2>. QED BY <2>2, <2>3 DEF Session
<1> HIDE DEF SOInv
<1>. QED BY <1>1, <1>2, <1>3, PTL DEF DisciplineSpec, SignedOutStaysOut

-----------------------------------------------------------------------------
(* Resets.  A request under review is pending until its review is written, *)
(* and one being confirmed was approved, as long as one reviewer at a time *)
(* has it in hand.                                                         *)
OneReview ==
  \A c, d \in Clients : At(c, "decide") /\ At(d, "decide") /\ req[c].arg = req[d].arg => c = d
ReviewOK(c) ==
  /\ At(c, "decide") => resets[req[c].arg].status = "pending"
  /\ At(c, "confirm") => resets[req[c].arg].status \in {"approved", "completed", "cleared"}
ReviewInv == AppliedIsCompleted /\ \A c \in Clients : ReviewOK(c)

\* How the status of a request moves on.
StatusMoves ==
  /\ \A i \in 1 .. Len(resets) :
       \/ resets'[i].status = resets[i].status
       \/ \E c \in Clients : At(c, "decide") /\ req[c].arg = i /\ req'[c].at = "idle"
       \/ resets[i].status \in {"rejected", "completed"} /\ resets'[i].status = "cleared"
       \/ \E c \in Clients : At(c, "confirm") /\ req[c].arg = i /\ resets'[i].status = "completed"
  /\ \A i \in applied' : i \in applied \/ resets'[i].status = "completed"

LEMMA ResetsOfSteps ==
  ASSUME AccountsTypeInv, DisciplineNext
  PROVE  StatusMoves
<1>1. ASSUME UNCHANGED <<resets, applied>> PROVE StatusMoves
  BY <1>1 DEF StatusMoves
<1>2. ASSUME NEW c \in Clients, Ask(c) PROVE StatusMoves
  <2>1. PICK row : resets' = Append(resets, row)
    BY <1>2 DEF Ask
  <2>2. \A i \in 1 .. Len(resets) : resets'[i] = resets[i]
    BY <2>1 DEF AccountsTypeInv, RowsOK
  <2>3. UNCHANGED applied
    BY <1>2 DEF Ask
  <2>. QED BY <2>2, <2>3 DEF StatusMoves
<1>3. ASSUME NEW c \in Clients, Decide(c) PROVE StatusMoves
  <2> DEFINE i == req[c].arg
  <2>1. At(c, "decide") /\ i \in 1 .. Len(resets) /\ UNCHANGED applied
    BY <1>3 DEF Decide, At, AccountsTypeInv, RequestsOK, Carries
  <2>2. req'[c].at = "idle"
    BY <1>3, AnswerMoves, IdleOK DEF Decide, Answered, AccountsTypeInv
  <2>3. \A j \in 1 .. Len(resets) : j # i => resets'[j] = resets[j]
    BY <1>3, <2>1 DEF Decide, AccountsTypeInv, RowsOK
  <2>. QED BY <2>1, <2>2, <2>3 DEF StatusMoves
<1>4. ASSUME NEW c \in Clients, Confirm(c) PROVE StatusMoves
  <2> DEFINE i == req[c].arg
  <2>1. At(c, "confirm") /\ i \in 1 .. Len(resets)
    BY <1>4 DEF Confirm, At, AccountsTypeInv, RequestsOK, Carries
  <2>2. CASE resets[i].status = "cleared"
    BY <1>1, <1>4, <2>2 DEF Confirm
  <2>3. CASE resets[i].status # "cleared"
    <3>1. resets' = [resets EXCEPT ![i].status = "completed"] /\ applied' = applied \cup {i}
      BY <1>4, <2>3 DEF Confirm
    <3>2. /\ resets'[i].status = "completed"
          /\ \A j \in 1 .. Len(resets) : j # i => resets'[j] = resets[j]
      BY <2>1, <3>1, StatusOfReset DEF AccountsTypeInv
    <3>. QED BY <2>1, <3>1, <3>2 DEF StatusMoves
  <2>. QED BY <2>2, <2>3
<1>5. ASSUME NEW c \in Clients, ClearResets(c) PROVE StatusMoves
  <2>1. UNCHANGED applied
    BY <1>5 DEF ClearResets
  <2>. QED BY <1>5, <2>1, ClearedResets DEF StatusMoves, AccountsTypeInv
<1>6. ASSUME NEW c \in Clients, Arrive(c) \/ StartPersonnel(c), UNCHANGED reports PROVE StatusMoves
  BY <1>1, <1>6, StartsOK
<1>7. ASSUME NEW c \in Clients, Continue(c) PROVE StatusMoves
  BY <1>1, <1>2, <1>3, <1>4, <1>5, <1>7 DEF Continue, Restore, Create, Open, Issue, Take, ReadUser, Purge,
     Admit, Drop, List, Close, DropSession, ClearSessions, Reread, SetPassword, Archive, CheckOpen, CheckPending
<1>8. ASSUME NEW c \in Clients, Personnel(c) PROVE StatusMoves
  BY <1>1, <1>6, <1>8 DEF Personnel, StartPersonnel, ReadReported, File, ReadReport, Resolve, ReadTarget,
     Moderate, ReadEdited, Write, Add, ListDue, Lift, quiet
<1>9. ASSUME NEW u \in Users, TimePasses(u) PROVE StatusMoves
  BY <1>1, <1>9 DEF TimePasses
<1>. QED BY <1>6, <1>7, <1>8, <1>9 DEF DisciplineNext, Next

\* A review, a confirmation or a resolution begins on a row that is ready for it.
LEMMA StagesBegin ==
  ASSUME AccountsTypeInv, NEW c \in Clients,
         \/ UNCHANGED reports /\ Continue(c)
         \/ UNCHANGED reports /\ Arrive(c)
         \/ Personnel(c)
  PROVE  /\ Alone(c)
         /\ req'[c].at = "decide" => /\ UNCHANGED resets /\ req'[c].arg \in 1 .. Len(resets)
                                     /\ resets[req'[c].arg].status = "pending"
         /\ req'[c].at = "confirm" => /\ UNCHANGED resets /\ req'[c].arg \in 1 .. Len(resets)
                                      /\ resets[req'[c].arg].status = "approved"
         /\ req'[c].at = "resolve" =>
              /\ UNCHANGED <<account, reports>> /\ req'[c].arg \in 1 .. Len(reports)
              /\ reports[req'[c].arg].status = "open"
              /\ req'[c].seen = account[reports[req'[c].arg].target]
         /\ req'[c].at = "file" => /\ UNCHANGED <<account, reports>> /\ req'[c].arg \in Users
                                   /\ account[req'[c].arg].status # "absent"
<1>1. CASE UNCHANGED reports /\ (Arrive(c) \/ StartPersonnel(c))
  BY <1>1, StartsOK DEF Begins, Plain, Entries
<1>2. CASE Strolls(c) \/ Answered(c)
  BY <1>2, StrollsOn DEF Strolls, Special
<1>3. ASSUME Alone(c), req'[c].at \in {"open", "issue", "session", "restore", "user", "close", "dropSession"}
      PROVE  /\ Alone(c) /\ req'[c].at \notin {"decide", "confirm", "resolve", "file"}
  BY <1>3
<1>4. CASE UNCHANGED reports /\ Restore(c)
  BY <1>3, <1>4, RestoreOK DEF Holds
<1>5. CASE UNCHANGED reports /\ Open(c)
  BY <1>2, <1>3, <1>5, OpenOK DEF Holds
<1>6. CASE UNCHANGED reports /\ Take(c)
  BY <1>2, <1>3, <1>6, TakeOK DEF Moved
<1>7. CASE UNCHANGED reports /\ ReadUser(c)
  BY <1>2, <1>3, <1>7, ReadUserOK DEF Holds
<1>8. CASE List(c)
  BY <1>3, <1>8, Lists DEF Holds
<1>9. CASE UNCHANGED reports /\ Close(c)
  <2>1. Moved(c, "dropSession") \/ Answered(c)
    BY <1>9, CloseOK
  <2>. QED BY <1>2, <1>3, <2>1 DEF Moved
<1>10. CASE UNCHANGED reports /\ CheckPending(c)
  <2>1. UNCHANGED resets
    BY <1>10 DEF CheckPending
  <2>. QED BY <1>2, <1>10, <2>1, CheckPendingOK DEF Holds
<1>11. CASE ReadReport(c)
  <2>1. UNCHANGED <<account, reports>>
    BY <1>11 DEF ReadReport
  <2>. QED BY <1>2, <1>11, <2>1, ReportRead DEF Holds
<1>12. CASE ReadReported(c)
  BY <1>2, <1>12, ReadReportedOK DEF Holds
<1>. QED BY <1>1, <1>2, <1>4, <1>5, <1>6, <1>7, <1>8, <1>9, <1>10, <1>11, <1>12, Strollers

LEMMA ReviewStep ==
  ASSUME AccountsTypeInv, ReviewInv, OneReview, DisciplineNext
  PROVE  ReviewInv'
<1>1. StatusMoves
  BY ResetsOfSteps
<1>2. AppliedIsCompleted'
  <2>1. ASSUME NEW i \in applied PROVE resets'[i].status \in {"completed", "cleared"}
    <3>1. resets[i].status \in {"completed", "cleared"} /\ i \in 1 .. Len(resets)
      BY DEF ReviewInv, AppliedIsCompleted, AccountsTypeInv, RowsOK
    <3>2. ~ \E c \in Clients : At(c, "decide") /\ req[c].arg = i
      BY <3>1 DEF ReviewInv, ReviewOK
    <3>. QED BY <1>1, <3>1, <3>2 DEF StatusMoves
  <2>. QED BY <1>1, <2>1 DEF StatusMoves, AppliedIsCompleted
\* A client that waits keeps its row as it needs it.
<1>3. ASSUME NEW d \in Clients, req'[d] = req[d] PROVE ReviewOK(d)'
  <2> DEFINE i == req[d].arg
  <2>1. CASE At(d, "decide")
    <3>1. resets[i].status = "pending" /\ i \in 1 .. Len(resets)
      BY <2>1 DEF ReviewInv, ReviewOK, At, AccountsTypeInv, RequestsOK, Carries
    <3>2. ~ \E c \in Clients : At(c, "decide") /\ req[c].arg = i /\ req'[c].at = "idle"
      BY <1>3, <2>1 DEF OneReview, At
    <3>3. ~ \E c \in Clients : At(c, "confirm") /\ req[c].arg = i
      BY <3>1 DEF ReviewInv, ReviewOK
    <3>4. resets'[i].status = "pending"
      BY <1>1, <3>1, <3>2, <3>3 DEF StatusMoves
    <3>. QED BY <1>3, <2>1, <3>4 DEF ReviewOK, At
  <2>2. CASE At(d, "confirm")
    <3>1. resets[i].status \in {"approved", "completed", "cleared"} /\ i \in 1 .. Len(resets)
      BY <2>2 DEF ReviewInv, ReviewOK, At, AccountsTypeInv, RequestsOK, Carries
    <3>2. ~ \E c \in Clients : At(c, "decide") /\ req[c].arg = i
      BY <3>1 DEF ReviewInv, ReviewOK
    <3>3. resets'[i].status \in {"approved", "completed", "cleared"}
      BY <1>1, <3>1, <3>2 DEF StatusMoves
    <3>. QED BY <1>3, <2>2, <3>3 DEF ReviewOK, At
  <2>. QED BY <1>3, <2>1, <2>2 DEF ReviewOK, At
<1>4. ASSUME NEW d \in Clients PROVE ReviewOK(d)'
  <2>1. ASSUME NEW c \in Clients, \/ UNCHANGED reports /\ Continue(c)
                                  \/ UNCHANGED reports /\ Arrive(c)
                                  \/ Personnel(c)
        PROVE  ReviewOK(d)'
    <3>1. CASE c = d
      BY <2>1, <3>1, StagesBegin DEF ReviewOK, At
    <3>2. CASE c # d
      BY <1>3, <2>1, <3>2, StagesBegin DEF Alone
    <3>. QED BY <3>1, <3>2
  <2>2. ASSUME NEW u \in Users, TimePasses(u)
        PROVE  ReviewOK(d)'
    BY <1>3, <2>2 DEF TimePasses
  <2>. QED BY <2>1, <2>2 DEF DisciplineNext, Next
<1>. QED BY <1>2, <1>4 DEF ReviewInv

\* As long as no two reviews of one request overlap, a request that changed a
\* password is on record as completed: neither a late review nor the clearing of
\* the history makes it look rejected or open (auth/router 416-526).
THEOREM AppliedOnRecord == DisciplineSpec /\ []OneReview => []AppliedIsCompleted
<1> DEFINE RInv == AccountsTypeInv /\ ReviewInv
<1>1. DisciplineInit => RInv
  <2> SUFFICES ASSUME DisciplineInit PROVE RInv
    OBVIOUS
  <2>1. applied = {}
    BY DEF DisciplineInit, Init
  <2>. QED BY <2>1, InitTyped, InitIdle DEF ReviewInv, ReviewOK, AppliedIsCompleted, At
<1>2. RInv /\ OneReview /\ [DisciplineNext]_dvars => RInv'
  <2> SUFFICES ASSUME RInv, OneReview, [DisciplineNext]_dvars PROVE RInv'
    OBVIOUS
  <2>1. CASE DisciplineNext
    BY <2>1, StepTyped, ReviewStep
  <2>2. CASE UNCHANGED dvars
    <3>1. UNCHANGED <<resets, applied, req>>
      BY <2>2 DEF dvars, vars
    <3>2. ReviewInv'
      BY <3>1 DEF ReviewInv, ReviewOK, AppliedIsCompleted, At
    <3>. QED BY <2>2, <3>2, StutterTyped
  <2>. QED BY <2>1, <2>2
<1>3. RInv => AppliedIsCompleted
  BY DEF ReviewInv
<1> HIDE DEF RInv
<1>. QED BY <1>1, <1>2, <1>3, PTL DEF DisciplineSpec

-----------------------------------------------------------------------------
(* Strikes.  What a resolution read of its report and of the target's row  *)
(* is still so when it writes, as long as no other report on that account  *)
(* is being resolved: nothing else touches the strikes and the tier.       *)
OneResolution ==
  \A c, d \in Clients :
    /\ At(c, "resolve") /\ At(d, "resolve")
    /\ reports[req[c].arg].target = reports[req[d].arg].target
    => c = d

Demotions(u) == {i \in Confirmed(u) : reports[i].action = "auto-demote"}
About(u) == {i \in 1 .. Len(reports) : reports[i].target = u}
Tally(u) ==
  /\ account[u].strikes = Cardinality(Confirmed(u))
  /\ Cardinality(Demotions(u)) <= 1
  /\ Demotions(u) # {} => account[u].tier >= 1
  /\ account[u].status = "absent" => About(u) = {}
InHand(c) ==
  /\ At(c, "file") => account[req[c].arg].status # "absent"
  /\ At(c, "resolve") =>
       LET p == reports[req[c].arg] IN
       /\ p.status = "open"
       /\ req[c].seen.strikes = account[p.target].strikes
       /\ req[c].seen.tier = account[p.target].tier
       /\ req[c].seen.status # "absent"
StrikeInv == (\A u \in Users : Tally(u)) /\ \A c \in Clients : InHand(c)

\* What happens to a row that no resolution writes.
RowKept(u) == /\ account'[u].strikes = account[u].strikes /\ account'[u].tier = account[u].tier
              /\ account'[u].status = "absent" => account[u].status = "absent"
RowMade(u) == /\ account[u].status = "absent" /\ account'[u].status # "absent"
              /\ account'[u].strikes = 0 /\ account'[u].tier = 0

LEMMA RowsUpdate ==
  ASSUME AccountsTypeInv, NEW u \in Users, NEW row \in Account,
         row.strikes = account[u].strikes, row.tier = account[u].tier,
         row.status = "absent" => account[u].status = "absent",
         account' = [account EXCEPT ![u] = row]
  PROVE  \A v \in Users : RowKept(v)
BY DEF AccountsTypeInv, RowsOK, RowKept

LEMMA StatusKeepsRows ==
  ASSUME AccountsTypeInv, NEW u \in Users, NEW status \in Statuses \ {"absent"},
         NEW until \in {"none", "ahead", "passed"},
         account' = [account EXCEPT ![u] = WithStatus(@, status, until)]
  PROVE  \A v \in Users : RowKept(v)
<1> DEFINE row == WithStatus(account[u], status, until)
<1>1. account[u] \in Account
  BY DEF AccountsTypeInv, RowsOK
<1>2. row \in Account /\ row.strikes = account[u].strikes /\ row.tier = account[u].tier /\ row.status = status
  BY <1>1, AccountWrites
<1>3. account' = [account EXCEPT ![u] = row]
  OBVIOUS
<1> HIDE DEF row
<1>. QED BY <1>2, <1>3, RowsUpdate

LEMMA AccountsOfSteps ==
  ASSUME AccountsTypeInv, DisciplineNext
  PROVE  \/ \E c \in Clients : Resolve(c)
         \/ \A u \in Users : RowKept(u) \/ RowMade(u)
<1> DEFINE Kept == \A u \in Users : RowKept(u) \/ RowMade(u)
<1>1. ASSUME UNCHANGED account PROVE Kept
  BY <1>1 DEF RowKept
<1>2. ASSUME NEW c \in Clients, Restore(c) PROVE Kept
  <2>1. req[c].as \in Users
    BY DEF AccountsTypeInv, RequestsOK, Requests
  <2>2. account' = [account EXCEPT ![req[c].as] = WithStatus(@, "active", "none")]
    BY <1>2 DEF Restore
  <2>. QED BY <2>1, <2>2, StatusKeepsRows DEF Statuses
<1>3. ASSUME NEW c \in Clients, Create(c) PROVE Kept
  <2> DEFINE u == req[c].as
             row == NewAccount(1, "personel")
  <2>1. u \in Users /\ account[u] \in Account
    BY DEF AccountsTypeInv, RequestsOK, Requests, RowsOK
  <2>2. row.strikes = 0 /\ row.tier = 0 /\ row.status = "active"
    BY <2>1, NewAccountTyped DEF Levels, Roles
  <2>3. UNCHANGED account \/ (account[u].status = "absent" /\ account' = [account EXCEPT ![u] = row])
    BY <1>3 DEF Create
  <2> HIDE DEF row
  <2>4. CASE account[u].status = "absent" /\ account' = [account EXCEPT ![u] = row]
    <3>1. RowMade(u)
      BY <2>1, <2>2, <2>4 DEF RowMade, AccountsTypeInv, RowsOK
    <3>2. \A v \in Users : v # u => RowKept(v)
      BY <2>4 DEF RowKept, AccountsTypeInv, RowsOK
    <3>. QED BY <3>1, <3>2
  <2>. QED BY <1>1, <2>3, <2>4
<1>4. ASSUME NEW c \in Clients, SetPassword(c) PROVE Kept
  <2> DEFINE u == req[c].as
  <2>1. u \in Users /\ account[u] \in Account
    BY DEF AccountsTypeInv, RequestsOK, Requests, RowsOK
  <2>2. PICK w \in Passwords : account' = [account EXCEPT ![u].password = w]
    BY <1>4 DEF SetPassword
  <2>. QED BY <2>1, <2>2 DEF RowKept, AccountsTypeInv, RowsOK, Account
<1>5. ASSUME NEW c \in Clients, Archive(c) PROVE Kept
  <2>1. req[c].as \in Users
    BY DEF AccountsTypeInv, RequestsOK, Requests
  <2>2. account' = [account EXCEPT ![req[c].as] = WithStatus(@, "deleted", "none")]
    BY <1>5 DEF Archive, ChangeStatus
  <2>. QED BY <2>1, <2>2, StatusKeepsRows DEF Statuses
<1>6. ASSUME NEW c \in Clients, Confirm(c) PROVE Kept
  <2> DEFINE u == resets[req[c].arg].target
             w == resets[req[c].arg].password
  <2>1. UNCHANGED account \/ account' = [account EXCEPT ![u].password = w]
    BY <1>6 DEF Confirm
  <2>2. \A v \in Users : account[v] \in Account
    BY DEF AccountsTypeInv, RowsOK
  <2>3. CASE account' = [account EXCEPT ![u].password = w]
    BY <2>2, <2>3 DEF RowKept, AccountsTypeInv, RowsOK, Account
  <2>. QED BY <1>1, <2>1, <2>3
<1>7. ASSUME NEW u \in Users, TimePasses(u) PROVE Kept
  <2>1. \A v \in Users : account[v] \in Account
    BY DEF AccountsTypeInv, RowsOK
  <2>. QED BY <1>7, <2>1 DEF TimePasses, RowKept, AccountsTypeInv, RowsOK, Account
<1>8. ASSUME NEW c \in Clients, Moderate(c) PROVE Kept
  <2>1. PICK status \in Statuses \ {"absent"}, until \in {"none", "ahead", "passed"} :
          ChangeStatus(req[c].arg, status, until)
    BY <1>8 DEF Moderate, Statuses
  <2>2. req[c].arg \in Users
    BY <1>8 DEF Moderate, At, AccountsTypeInv, RequestsOK, Carries
  <2>3. account' = [account EXCEPT ![req[c].arg] = WithStatus(@, status, until)]
    BY <2>1 DEF ChangeStatus
  <2>. QED BY <2>2, <2>3, StatusKeepsRows
<1>9. ASSUME NEW c \in Clients, Write(c) PROVE Kept
  <2>1. \A v \in Users : account[v] \in Account
    BY DEF AccountsTypeInv, RowsOK
  <2>2. PICK u, level, role : account' = [account EXCEPT ![u].level = level, ![u].role = role]
    <3> DEFINE a == req[c].arg
    <3>1. account' = [account EXCEPT ![a[1]].level = IF a[4] THEN a[2] ELSE account[a[1]].level,
                                     ![a[1]].role = a[3]]
      BY <1>9 DEF Write
    <3>. QED BY <3>1
  <2>3. \A v \in Users : RowKept(v)
    <3>1. ASSUME NEW v \in Users PROVE RowKept(v)
      <4>1. CASE v = u
        <5>1. account'[v] = [account[v] EXCEPT !.level = level, !.role = role]
          BY <2>2, <4>1 DEF AccountsTypeInv, RowsOK
        <5>. QED BY <2>1, <5>1 DEF RowKept, Account
      <4>2. CASE v # u
        BY <2>2, <4>2 DEF RowKept, AccountsTypeInv, RowsOK
      <4>. QED BY <4>1, <4>2
    <3>. QED BY <3>1
  <2>. QED BY <2>3
<1>10. ASSUME NEW c \in Clients, Add(c) PROVE Kept
  <2>1. CASE account' = account
    BY <1>1, <2>1
  <2>2. ASSUME NEW u \in Users, account[u].status = "absent",
               account'[u].strikes = 0, account'[u].tier = 0, account'[u].status = "active",
               \A v \in Users : v # u => account'[v] = account[v]
        PROVE  Kept
    BY <2>2 DEF RowKept, RowMade
  <2>. QED BY <1>10, <2>1, <2>2, Adds DEF AccountsTypeInv
<1>11. ASSUME NEW c \in Clients, Lift(c) PROVE Kept
  <2>1. PICK u \in req[c].arg : account' = [account EXCEPT ![u] = WithStatus(@, "active", "none")]
    BY <1>11 DEF Lift
  <2>2. u \in Users
    BY <1>11, <2>1 DEF Lift, At, AccountsTypeInv, RequestsOK, Carries
  <2>. QED BY <2>1, <2>2, StatusKeepsRows DEF Statuses
<1>12. ASSUME NEW c \in Clients, Arrive(c) \/ StartPersonnel(c), UNCHANGED reports PROVE Kept
  BY <1>1, <1>12, StartsOK
<1>13. ASSUME NEW c \in Clients, Continue(c) PROVE Kept
  BY <1>1, <1>2, <1>3, <1>4, <1>5, <1>6, <1>13 DEF Continue, Open, Issue, Take, ReadUser, Purge,
     Admit, Drop, List, Close, DropSession, ClearSessions, Reread, CheckOpen, Ask, CheckPending, Decide,
     ClearResets
<1>14. ASSUME NEW c \in Clients, Personnel(c), ~Resolve(c) PROVE Kept
  BY <1>1, <1>8, <1>9, <1>10, <1>11, <1>12, <1>14 DEF Personnel, StartPersonnel, ReadReported, File,
     ReadReport, ReadTarget, ReadEdited, ListDue
<1>. QED BY <1>7, <1>12, <1>13, <1>14 DEF DisciplineNext, Next

\* A punished account is there if the rows it is computed from are.
LEMMA PunishedStatus ==
  ASSUME NEW a \in Account, NEW old \in Account, NEW action \in {"none", "suspend", "demote", "ban"},
         NEW until \in {"none", "ahead"}, a.status # "absent", old.status # "absent"
  PROVE  Punished(a, old, action, until).status # "absent"
<1>1. CASE action = "none"
  BY <1>1 DEF Punished, Disciplined, Account
<1>2. CASE action \in {"ban", "suspend"}
  <2> DEFINE status == IF action = "ban" THEN "banned" ELSE "suspended"
             b == WithStatus(a, status, until)
  <2>1. status \in Statuses \ {"absent"} /\ until \in {"none", "ahead", "passed"}
    BY DEF Statuses
  <2>2. b \in Account /\ b.status = status
    BY <2>1, AccountWrites
  <2>3. Punished(a, old, action, until) \in {[b EXCEPT !.strikes = @ + 1, !.tier = 2], [b EXCEPT !.strikes = @ + 1]}
    BY <1>2 DEF Punished
  <2> HIDE DEF b, status
  <2>. QED BY <2>1, <2>2, <2>3 DEF Account
<1>3. CASE action = "demote"
  BY <1>3 DEF Punished, Account
<1>. QED BY <1>1, <1>2, <1>3

\* Reports that are confirmed, or about an account, stay so unless one is resolved.
LEMMA SameReports ==
  ASSUME AccountsTypeInv, UNCHANGED reports
  PROVE  \A u \in Users : /\ Confirmed(u)' = Confirmed(u) /\ Demotions(u)' = Demotions(u)
                          /\ About(u)' = About(u)
BY DEF Confirmed, Demotions, About

LEMMA FiledReports ==
  ASSUME AccountsTypeInv, NEW c \in Clients, File(c)
  PROVE  /\ UNCHANGED account /\ req[c].arg \in Users /\ At(c, "file")
         /\ \A i \in 1 .. Len(reports) : reports'[i] = reports[i]
         /\ \A u \in Users : /\ Confirmed(u)' = Confirmed(u) /\ Demotions(u)' = Demotions(u)
                             /\ u # req[c].arg => About(u)' = About(u)
<1> DEFINE n == Len(reports) + 1
           p == [target |-> req[c].arg, status |-> "open", action |-> "none"]
<1>1. reports \in Seq(Report) /\ Len(reports) \in Nat /\ reports' = Append(reports, p)
  BY DEF File, AccountsTypeInv, RowsOK
<1>2. /\ 1 .. Len(reports') = (1 .. Len(reports)) \cup {n} /\ n \notin 1 .. Len(reports)
      /\ reports'[n] = p /\ \A i \in 1 .. Len(reports) : reports'[i] = reports[i]
  BY <1>1
<1>3. p.status = "open" /\ p.target = req[c].arg
  OBVIOUS
<1> HIDE DEF p, n
<1>4. ASSUME NEW u \in Users PROVE Confirmed(u)' = Confirmed(u)
  BY <1>2, <1>3 DEF Confirmed
<1>5. ASSUME NEW u \in Users PROVE Demotions(u)' = Demotions(u)
  <2>1. \A i \in Confirmed(u) : reports'[i] = reports[i]
    BY <1>2 DEF Confirmed
  <2>. QED BY <1>4, <2>1 DEF Demotions
<1>6. ASSUME NEW u \in Users, u # req[c].arg PROVE About(u)' = About(u)
  BY <1>2, <1>3, <1>6 DEF About
<1>7. UNCHANGED account /\ req[c].arg \in Users /\ At(c, "file")
  BY DEF File, At, AccountsTypeInv, RequestsOK, Carries
<1>. QED BY <1>2, <1>4, <1>5, <1>6, <1>7

\* Steps other than a resolution keep the tally and what is in hand.
LEMMA TallyKept ==
  ASSUME AccountsTypeInv, StrikeInv, NEW u \in Users, RowKept(u) \/ RowMade(u),
         Confirmed(u)' = Confirmed(u), Demotions(u)' = Demotions(u),
         account[u].status = "absent" => About(u)' = About(u)
  PROVE  Tally(u)'
<1>1. Tally(u)
  BY DEF StrikeInv
<1>2. CASE RowKept(u)
  BY <1>1, <1>2 DEF Tally, RowKept
<1>3. CASE RowMade(u)
  <2>1. Confirmed(u) = {} /\ Demotions(u) = {}
    BY <1>1, <1>3 DEF Tally, RowMade, About, Confirmed, Demotions
  <2>2. Cardinality({}) = 0
    BY FS_EmptySet
  <2>. QED BY <1>3, <2>1, <2>2 DEF Tally, RowMade
<1>. QED BY <1>2, <1>3

LEMMA InHandKept ==
  ASSUME AccountsTypeInv, StrikeInv, NEW d \in Clients, req'[d] = req[d],
         \A u \in Users : RowKept(u) \/ RowMade(u),
         \A i \in 1 .. Len(reports) : reports'[i] = reports[i]
  PROVE  InHand(d)'
<1>1. InHand(d) /\ Carries(req[d])
  BY DEF StrikeInv, AccountsTypeInv, RequestsOK
<1>2. CASE At(d, "file")
  <2>1. req[d].arg \in Users /\ account[req[d].arg].status # "absent"
    BY <1>1, <1>2 DEF InHand, At, Carries
  <2>2. account'[req[d].arg].status # "absent"
    BY <2>1 DEF RowKept, RowMade
  <2>. QED BY <1>2, <2>2 DEF InHand, At
<1>3. CASE At(d, "resolve")
  <2> DEFINE i == req[d].arg
             u == reports[i].target
  <2>1. i \in 1 .. Len(reports) /\ reports'[i] = reports[i]
    BY <1>1, <1>3 DEF At, Carries
  <2>2. reports[i] \in Report
    BY <2>1 DEF AccountsTypeInv, RowsOK
  <2>3. u \in Users
    BY <2>2 DEF Report
  <2>4. ~RowMade(u)
    BY <2>1, <2>3 DEF StrikeInv, Tally, RowMade, About
  <2>5. RowKept(u)
    BY <2>3, <2>4
  <2>. QED BY <1>1, <1>3, <2>1, <2>5 DEF InHand, At, RowKept
<1>4. CASE ~At(d, "file") /\ ~At(d, "resolve")
  BY <1>4 DEF InHand, At
<1>. QED BY <1>2, <1>3, <1>4

\* The tally of an account one more of whose reports is confirmed.
LEMMA OneMoreConfirmed ==
  ASSUME AccountsTypeInv, NEW u \in Users, Tally(u),
         NEW i \in 1 .. Len(reports), reports[i].status = "open", reports[i].target = u,
         Len(reports') = Len(reports), reports'[i].status = "confirmed", reports'[i].target = u,
         \A j \in 1 .. Len(reports) : j # i => reports'[j] = reports[j],
         account'[u].strikes = account[u].strikes + 1,
         account[u].tier \in 0 .. 2, account'[u].tier \in 0 .. 2,
         account'[u].tier >= account[u].tier, account'[u].status # "absent",
         reports'[i].action = "auto-demote" => account[u].tier = 0 /\ account'[u].tier >= 1
  PROVE  Tally(u)'
<1>1. Confirmed(u)' = Confirmed(u) \cup {i} /\ i \notin Confirmed(u)
  BY DEF Confirmed
<1>2. IsFiniteSet(Confirmed(u)) /\ IsFiniteSet(Demotions(u))
  <2>1. Len(reports) \in Nat
    BY DEF AccountsTypeInv, RowsOK
  <2>2. IsFiniteSet(1 .. Len(reports))
    BY <2>1, FS_Interval
  <2>3. Confirmed(u) \subseteq 1 .. Len(reports) /\ Demotions(u) \subseteq 1 .. Len(reports)
    BY DEF Confirmed, Demotions
  <2>. QED BY <2>2, <2>3, FS_Subset
<1>3. account'[u].strikes = Cardinality(Confirmed(u)')
  BY <1>1, <1>2, FS_AddElement DEF Tally
<1>4. \A j \in Confirmed(u) : reports'[j] = reports[j]
  BY <1>1 DEF Confirmed
<1>5. CASE reports'[i].action = "auto-demote"
  <2>1. Demotions(u) = {}
    BY <1>5 DEF Tally
  <2>2. Demotions(u)' = {i}
    BY <1>1, <1>4, <1>5, <2>1 DEF Demotions
  <2>3. Cardinality({i}) = 1
    BY FS_Singleton
  <2>. QED BY <1>3, <1>5, <2>2, <2>3 DEF Tally
<1>6. CASE reports'[i].action # "auto-demote"
  <2>1. Demotions(u)' = Demotions(u)
    BY <1>1, <1>4, <1>6 DEF Demotions
  <2>2. Demotions(u) # {} => account'[u].tier >= 1
    BY DEF Tally
  <2>. QED BY <1>3, <2>1, <2>2 DEF Tally
<1>. QED BY <1>5, <1>6

\* The tally of an account whose row and confirmed reports stay.
LEMMA SameTally ==
  ASSUME AccountsTypeInv, NEW u \in Users, Tally(u), account'[u] = account[u],
         NEW i \in 1 .. Len(reports), Len(reports') = Len(reports),
         \A j \in 1 .. Len(reports) : j # i => reports'[j] = reports[j],
         reports'[i].target = reports[i].target,
         u # reports[i].target \/ (reports[i].status = "open" /\ reports'[i].status = "dismissed")
  PROVE  Tally(u)'
<1>1. Confirmed(u)' = Confirmed(u) /\ i \notin Confirmed(u) /\ About(u)' = About(u)
  BY DEF Confirmed, About
<1>2. \A j \in Confirmed(u) : reports'[j] = reports[j]
  BY <1>1 DEF Confirmed
<1>3. Demotions(u)' = Demotions(u)
  BY <1>1, <1>2 DEF Demotions
<1>. QED BY <1>1, <1>3 DEF Tally

LEMMA ResolveTallies ==
  ASSUME AccountsTypeInv, StrikeInv, OneResolution, NEW c \in Clients, Resolve(c)
  PROVE  StrikeInv'
<1>0. PICK i \in 1 .. Len(reports) : i = req[c].arg
  BY DEF Resolve, At, AccountsTypeInv, RequestsOK, Carries
<1>1. At(c, "resolve") /\ Answered(c)
  BY AnswerMoves DEF Resolve, AccountsTypeInv
<1>2. reports[i] \in Report
  BY DEF AccountsTypeInv, RowsOK
<1>3. PICK u \in Users : u = reports[i].target
  BY <1>2 DEF Report
<1>4. /\ reports[i].status = "open" /\ req[c].seen.strikes = account[u].strikes
      /\ req[c].seen.tier = account[u].tier /\ req[c].seen.status # "absent"
  BY <1>0, <1>1, <1>3 DEF StrikeInv, InHand
<1>5. Tally(u) /\ account[u].status # "absent"
  BY <1>3 DEF StrikeInv, Tally, About
<1>6. /\ Len(reports') = Len(reports) /\ reports'[i].target = u
      /\ \A j \in 1 .. Len(reports) : j # i => reports'[j] = reports[j]
      /\ \A v \in Users : v # u => account'[v] = account[v]
      /\ account'[u].status # "absent"
      /\ Tally(u)'
  <2>1. CASE /\ reports' = [reports EXCEPT ![req[c].arg].status = "dismissed"]
             /\ UNCHANGED <<account, sessions, tokens, signedOut>>
    <3>1. reports[i].action \in Actions /\ "dismissed" \in ReportStatuses
      BY <1>2 DEF Report, ReportStatuses
    <3>2. /\ Len(reports') = Len(reports) /\ reports'[i].target = u /\ reports'[i].status = "dismissed"
          /\ \A j \in 1 .. Len(reports) : j # i => reports'[j] = reports[j]
      BY <1>0, <1>3, <2>1, <3>1, ReportChanges DEF AccountsTypeInv
    <3>3. Tally(u)'
      BY <1>3, <1>4, <1>5, <2>1, <3>2, SameTally, Zenon
    <3>. QED BY <1>5, <2>1, <3>2, <3>3
  <2>2. ASSUME NEW action \in {"none", "suspend", "demote", "ban"}, NEW until \in {"none", "ahead"},
               Punish(c, action, until)
        PROVE  /\ Len(reports') = Len(reports) /\ reports'[i].target = u
               /\ \A j \in 1 .. Len(reports) : j # i => reports'[j] = reports[j]
               /\ \A v \in Users : v # u => account'[v] = account[v]
               /\ account'[u].status # "absent"
               /\ Tally(u)'
    <3> DEFINE row == Punished(account[u], req[c].seen, action, until)
               act == IF action = "none" THEN AutoAction(req[c].seen) ELSE action
    <3>1. /\ req[c].seen \in Account /\ account'[u] = row
          /\ \A v \in Users : v # u => account'[v] = account[v]
          /\ Len(reports') = Len(reports)
          /\ reports'[i].status = "confirmed" /\ reports'[i].action = act /\ reports'[i].target = u
          /\ \A j \in 1 .. Len(reports) : j # i => reports'[j] = reports[j]
      BY <1>0, <1>1, <1>3, <2>2, ReportConfirmed DEF At
    <3>2. account[u] \in Account
      BY <1>3 DEF AccountsTypeInv, RowsOK
    <3>3. /\ row \in Account /\ row.strikes = account[u].strikes + 1 /\ row.tier >= account[u].tier
          /\ action = "none" => row.tier = NewTier(req[c].seen)
      <4>1. /\ row \in Account
            /\ row.strikes = IF action = "none" THEN req[c].seen.strikes + 1 ELSE account[u].strikes + 1
            /\ account[u].tier = req[c].seen.tier => row.tier >= req[c].seen.tier
            /\ action = "none" => row.tier = NewTier(req[c].seen)
        <5>1. PunishedRow(row, account[u], req[c].seen, action)
          BY <3>1, <3>2, PunishedTyped
        <5>. QED BY <5>1 DEF PunishedRow
      <4> HIDE DEF row
      <4>. QED BY <1>4, <4>1
    <3>4. row.status # "absent"
      BY <1>4, <1>5, <3>1, <3>2, PunishedStatus
    <3>5. act = "auto-demote" => account[u].tier = 0 /\ row.tier >= 1
      <4>1. act = "auto-demote" => action = "none" /\ AutoAction(req[c].seen) = "auto-demote"
        OBVIOUS
      <4>2. AutoAction(req[c].seen) = "auto-demote" => NewTier(req[c].seen) >= 1 /\ req[c].seen.tier = 0
        BY <3>1, DisciplinedTyped
      <4> HIDE DEF row, act
      <4>. QED BY <1>4, <3>3, <4>1, <4>2
    <3> HIDE DEF row, act
    <3>6. account[u].tier \in 0 .. 2 /\ account'[u].tier \in 0 .. 2
      BY <3>1, <3>2, <3>3 DEF Account
    <3>7. Tally(u)'
      BY <1>3, <1>4, <1>5, <3>1, <3>3, <3>4, <3>5, <3>6, OneMoreConfirmed, Zenon
    <3>. QED BY <3>1, <3>4, <3>7
  <2>. QED BY <2>1, <2>2 DEF Resolve
<1>7. ASSUME NEW v \in Users PROVE Tally(v)'
  <2>1. CASE v = u
    BY <1>6, <2>1
  <2>2. CASE v # u
    <3>1. Tally(v) /\ account'[v] = account[v]
      BY <1>6, <2>2 DEF StrikeInv
    <3>. QED BY <1>3, <1>6, <2>2, <3>1, SameTally, Zenon
  <2>. QED BY <2>1, <2>2
<1>8. ASSUME NEW d \in Clients PROVE InHand(d)'
  <2>1. CASE d = c
    BY <1>1, <2>1, IdleOK DEF Answered, InHand, At
  <2>2. CASE d # c
    <3>1. req'[d] = req[d] /\ InHand(d) /\ Carries(req[d])
      BY <1>1, <2>2 DEF Answered, Alone, StrikeInv, AccountsTypeInv, RequestsOK
    <3>2. CASE At(d, "file")
      <4>1. req[d].arg \in Users /\ account[req[d].arg].status # "absent"
        BY <3>1, <3>2 DEF InHand, At, Carries
      <4>2. account'[req[d].arg].status # "absent"
        BY <1>6, <4>1
      <4>. QED BY <3>1, <3>2, <4>2 DEF InHand, At
    <3>3. CASE At(d, "resolve")
      <4> DEFINE j == req[d].arg
      <4>1. j \in 1 .. Len(reports) /\ reports[j].target # u
        BY <1>0, <1>1, <1>3, <2>2, <3>1, <3>3 DEF OneResolution, At, Carries
      <4>2. reports[j] \in Report
        BY <4>1 DEF AccountsTypeInv, RowsOK
      <4>3. reports'[j] = reports[j] /\ account'[reports[j].target] = account[reports[j].target]
        BY <1>3, <1>6, <4>1, <4>2 DEF Report
      <4>. QED BY <3>1, <3>3, <4>3 DEF InHand, At
    <3>4. CASE ~At(d, "file") /\ ~At(d, "resolve")
      BY <3>1, <3>4 DEF InHand, At
    <3>. QED BY <3>2, <3>3, <3>4
  <2>. QED BY <2>1, <2>2
<1>. QED BY <1>7, <1>8 DEF StrikeInv

LEMMA StrikeStep ==
  ASSUME AccountsTypeInv, StrikeInv, OneResolution, DisciplineNext
  PROVE  StrikeInv'
<1>1. CASE \E c \in Clients : Resolve(c)
  BY <1>1, ResolveTallies
<1>2. CASE ~ \E c \in Clients : Resolve(c)
  <2>1. \A u \in Users : RowKept(u) \/ RowMade(u)
    BY <1>2, AccountsOfSteps
  <2>2. \/ UNCHANGED reports
        \/ \E c \in Clients : File(c)
    <3>1. ASSUME NEW c \in Clients, Personnel(c), ~File(c) PROVE UNCHANGED reports
      <4>1. StartPersonnel(c) => UNCHANGED reports
        BY DEF StartPersonnel
      <4>2. ReadReported(c) => UNCHANGED reports
        BY DEF ReadReported
      <4>3. ReadReport(c) => UNCHANGED reports
        BY DEF ReadReport
      <4>4. ReadTarget(c) => UNCHANGED reports
        BY DEF ReadTarget
      <4>5. ReadEdited(c) => UNCHANGED reports
        BY DEF ReadEdited
      <4>6. ListDue(c) => UNCHANGED reports
        BY DEF ListDue
      <4>7. Moderate(c) \/ Write(c) \/ Add(c) \/ Lift(c) => UNCHANGED reports
        BY DEF Moderate, Write, Add, Lift
      <4>. QED BY <1>2, <3>1, <4>1, <4>2, <4>3, <4>4, <4>5, <4>6, <4>7 DEF Personnel
    <3>. QED BY <3>1 DEF DisciplineNext
  <2>3. /\ \A i \in 1 .. Len(reports) : reports'[i] = reports[i]
        /\ \A u \in Users : /\ Confirmed(u)' = Confirmed(u) /\ Demotions(u)' = Demotions(u)
                            /\ account[u].status = "absent" => About(u)' = About(u)
    <3>1. CASE UNCHANGED reports
      BY <3>1, SameReports
    <3>2. ASSUME NEW c \in Clients, File(c)
          PROVE  /\ \A i \in 1 .. Len(reports) : reports'[i] = reports[i]
                 /\ \A u \in Users : /\ Confirmed(u)' = Confirmed(u) /\ Demotions(u)' = Demotions(u)
                                     /\ account[u].status = "absent" => About(u)' = About(u)
      <4>1. At(c, "file") /\ req[c].arg \in Users
        BY <3>2, FiledReports
      <4>2. account[req[c].arg].status # "absent"
        BY <4>1 DEF StrikeInv, InHand
      <4>. QED BY <3>2, <4>2, FiledReports
    <3>. QED BY <2>2, <3>1, <3>2
  <2>4. ASSUME NEW u \in Users PROVE Tally(u)'
    BY <2>1, <2>3, TallyKept
  <2>5. ASSUME NEW d \in Clients, req'[d] = req[d] PROVE InHand(d)'
    BY <2>1, <2>3, <2>5, InHandKept
  <2>6. ASSUME NEW d \in Clients PROVE InHand(d)'
    <3>1. ASSUME NEW c \in Clients, \/ UNCHANGED reports /\ Continue(c)
                                    \/ UNCHANGED reports /\ Arrive(c)
                                    \/ Personnel(c)
          PROVE  InHand(d)'
      <4>1. CASE c = d
        <5>1. CASE req'[d].at = "resolve"
          <6>1. /\ UNCHANGED <<account, reports>> /\ req'[d].arg \in 1 .. Len(reports)
                /\ reports[req'[d].arg].status = "open"
                /\ req'[d].seen = account[reports[req'[d].arg].target]
            BY <3>1, <4>1, <5>1, StagesBegin
          <6>2. reports[req'[d].arg] \in Report
            BY <6>1 DEF AccountsTypeInv, RowsOK
          <6>3. reports[req'[d].arg].target \in Users
            BY <6>2 DEF Report
          <6>4. account[reports[req'[d].arg].target].status # "absent"
            BY <6>1, <6>3 DEF StrikeInv, Tally, About
          <6>. QED BY <5>1, <6>1, <6>4 DEF InHand, At
        <5>2. CASE req'[d].at = "file"
          <6>1. UNCHANGED account /\ account[req'[d].arg].status # "absent"
            BY <3>1, <4>1, <5>2, StagesBegin
          <6>. QED BY <5>2, <6>1 DEF InHand, At
        <5>3. CASE req'[d].at \notin {"resolve", "file"}
          BY <5>3 DEF InHand, At
        <5>. QED BY <5>1, <5>2, <5>3
      <4>2. CASE c # d
        BY <2>5, <3>1, <4>2, StagesBegin DEF Alone
      <4>. QED BY <4>1, <4>2
    <3>2. ASSUME NEW u \in Users, TimePasses(u)
          PROVE  InHand(d)'
      BY <2>5, <3>2 DEF TimePasses
    <3>. QED BY <3>1, <3>2 DEF DisciplineNext, Next
  <2>. QED BY <2>4, <2>6 DEF StrikeInv
<1>. QED BY <1>1, <1>2

LEMMA StrikesHold == DisciplineSpec /\ []OneResolution => [](AccountsTypeInv /\ StrikeInv)
<1> DEFINE SInv == AccountsTypeInv /\ StrikeInv
<1>1. DisciplineInit => SInv
  <2> SUFFICES ASSUME DisciplineInit PROVE SInv
    OBVIOUS
  <2>1. account = InitAccount /\ reports = Filed
    BY DEF DisciplineInit, Init
  <2>2. ASSUME NEW u \in Users PROVE Tally(u)
    <3> DEFINE about == {i \in 1 .. Len(Filed) : Filed[i].target = u}
               struck == {i \in about : Filed[i].status = "confirmed"}
               demoted == {i \in struck : Filed[i].action = "auto-demote"}
    <3>1. About(u) = about /\ Confirmed(u) = struck
      BY <2>1 DEF About, Confirmed
    <3>2. Demotions(u) = demoted
      BY <2>1, <3>1 DEF Demotions
    <3>3. /\ InitAccount[u].status = "absent" => about = {}
          /\ InitAccount[u].strikes = Cardinality(struck)
          /\ Cardinality(demoted) <= 1 /\ (demoted # {} => InitAccount[u].tier >= 1)
      BY FiledAssumption
    <3> HIDE DEF about, struck, demoted
    <3>. QED BY <2>1, <3>1, <3>2, <3>3 DEF Tally
  <2>3. ASSUME NEW c \in Clients PROVE InHand(c)
    BY InitIdle DEF InHand, At
  <2>. QED BY <2>2, <2>3, InitTyped DEF StrikeInv
<1>2. SInv /\ OneResolution /\ [DisciplineNext]_dvars => SInv'
  <2> SUFFICES ASSUME SInv, OneResolution, [DisciplineNext]_dvars PROVE SInv'
    OBVIOUS
  <2>1. CASE DisciplineNext
    BY <2>1, StepTyped, StrikeStep
  <2>2. CASE UNCHANGED dvars
    <3>1. UNCHANGED <<account, reports, req>>
      BY <2>2 DEF dvars, vars
    <3>2. StrikeInv'
      BY <3>1 DEF StrikeInv, Tally, InHand, At, Confirmed, Demotions, About
    <3>. QED BY <2>2, <3>2, StutterTyped
  <2>. QED BY <2>1, <2>2
<1> HIDE DEF SInv
<1>3. DisciplineSpec /\ []OneResolution => []SInv
  BY <1>1, <1>2, PTL DEF DisciplineSpec
<1>. QED BY <1>3 DEF SInv

\* As long as no two reports on one account are being resolved at once, an
\* account has as many strikes as it has confirmed reports, whatever signs in,
\* edits, restores or moderates the account in between (personnel/service
\* 148-208, personnel/router 488-590).
THEOREM StrikesTally == DisciplineSpec /\ []OneResolution => []StrikesCounted
<1>1. StrikeInv => StrikesCounted
  BY DEF StrikeInv, Tally, StrikesCounted
<1>. QED BY <1>1, StrikesHold, PTL

\* Under the same condition a demotion happens once, however many reports are
\* confirmed after it and whatever else is written to the row meanwhile.
THEOREM DemotedAtMostOnce == DisciplineSpec /\ []OneResolution => []DemotedOnce
<1>1. StrikeInv => DemotedOnce
  BY DEF StrikeInv, Tally, DemotedOnce, Demotions
<1>. QED BY <1>1, StrikesHold, PTL
=============================================================================
