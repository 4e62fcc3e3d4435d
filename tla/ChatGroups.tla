----------------------------- MODULE ChatGroups -----------------------------
(***************************************************************************)
(* Conversations people make themselves: groups, direct conversations and  *)
(* who is in them (modules/chat/router).                                   *)
(*                                                                         *)
(* No handler here is a transaction: it reads the conversation with its    *)
(* members, decides on what it read and writes one row after the other.    *)
(* "seen" is that read.                                                    *)
(***************************************************************************)
EXTENDS Integers, FiniteSets

CONSTANTS
  Clients,      \* requests under way at one time
  People, Talks,   \* usernames, conversations
  InitTalks,    \* [Talks -> Talk], those there at the start
  Offered,      \* the operations of this instance
  MaxRequests   \* bound

Member == [role : {"owner", "admin", "member"}, status : {"none", "invited", "active", "removed"}]
Talk == [kind : {"none", "group", "dm", "gone"}, members : [People -> Member]]
\* A conversation there at the start has an owner or an admin in it, as the one
\* who makes a conversation is in it as its owner.
ASSUME ChatAssumption ==
  /\ InitTalks \in [Talks -> Talk] /\ People # {} /\ Talks # {}
  /\ IsFiniteSet(Clients) /\ MaxRequests \in Nat
  /\ \A t \in Talks : InitTalks[t].kind \in {"group", "dm"} =>
       \E p \in People : /\ InitTalks[t].members[p].status = "active"
                         /\ InitTalks[t].members[p].role \in {"owner", "admin"}

VARIABLES
  talk,      \* ChatConversation rows with their members
  barred,    \* people whose account is not active
  call,      \* the request of each client
  made,      \* requests started, a bound
  meddled    \* history: conversations where something other than a leave or a
             \* kick wrote the row of an active member

gvars == <<talk, barred, call, made, meddled>>

Nobody == [p \in People |-> [role |-> "member", status |-> "none"]]
Idle == [op |-> "none", at |-> "idle", who |-> CHOOSE p \in People : TRUE,
         in |-> CHOOSE t \in Talks : TRUE, seen |-> Nobody, arg |-> 0]

ChatInit ==
  /\ talk = InitTalks /\ barred = {} /\ call = [c \in Clients |-> Idle]
  /\ made = 0 /\ meddled = {}

Gone(t) == talk[t].kind \in {"none", "gone"}
Active(members) == {p \in People : members[p].status = "active"}
Manages(members, p) == p \in Active(members) /\ members[p].role \in {"owner", "admin"}
Members(c) == talk[call[c].in].members

Start(c, r) == /\ call[c].op = "none" /\ made < MaxRequests /\ r.op \in Offered
               /\ made' = made + 1
               /\ call' = [call EXCEPT ![c] = r]
At(c, at) == call[c].at = at
GoTo(c, at) == call' = [call EXCEPT ![c].at = at]
Answer(c) == call' = [call EXCEPT ![c] = Idle]
Meddle(t, p) == meddled' = IF talk[t].members[p].status = "active"
                           THEN meddled \cup {t} ELSE meddled
\* An update of one member row; the row of a conversation that is gone throws.
Set(t, p, m) == talk' = [talk EXCEPT ![t].members[p] = m]

-----------------------------------------------------------------------------
(* POST /dm and POST /groups; the members are created with it.             *)
FindDirect(c) ==
  /\ \E p, q \in People \ barred :
       /\ p # q
       /\ ~\E t \in Talks : talk[t].kind = "dm" /\ {p, q} \subseteq Active(talk[t].members)
       /\ Start(c, [Idle EXCEPT !.op = "dm", !.at = "direct", !.who = p, !.arg = q])
  /\ UNCHANGED <<talk, barred, meddled>>

Direct(c) ==
  LET pair == {call[c].who, call[c].arg} IN
  /\ At(c, "direct") /\ Answer(c)
  /\ \E t \in Talks :
       /\ talk[t].kind = "none"
       /\ talk' = [talk EXCEPT ![t] = [kind |-> "dm", members |-> [p \in People |->
            IF p \in pair THEN [role |-> "owner", status |-> "active"] ELSE Nobody[p]]]]
  /\ UNCHANGED <<barred, made, meddled>>

FindInvitees(c) ==
  /\ \E p \in People \ barred, invitees \in SUBSET (People \ barred) :
       /\ p \notin invitees
       /\ Start(c, [Idle EXCEPT !.op = "group", !.at = "group", !.who = p, !.arg = invitees])
  /\ UNCHANGED <<talk, barred, meddled>>

CreateGroup(c) ==
  LET r == call[c] IN
  /\ At(c, "group") /\ Answer(c)
  /\ \E t \in Talks :
       /\ talk[t].kind = "none"
       /\ talk' = [talk EXCEPT ![t] = [kind |-> "group", members |-> [p \in People |->
            IF p = r.who THEN [role |-> "owner", status |-> "active"]
            ELSE IF p \in r.arg THEN [role |-> "member", status |-> "invited"] ELSE Nobody[p]]]]
  /\ UNCHANGED <<barred, made, meddled>>

-----------------------------------------------------------------------------
(* The handlers on one conversation read it first.                         *)
Reads(c, op, at) ==
  /\ \E p \in People \ barred, t \in Talks :
       /\ ~Gone(t)
       /\ Start(c, [Idle EXCEPT !.op = op, !.at = at, !.who = p, !.in = t, !.seen = talk[t].members])
  /\ UNCHANGED <<talk, barred, meddled>>

\* POST /:id/invites: the accounts, then an upsert for each of them.
FindInvited(c) ==
  LET r == call[c] IN
  /\ At(c, "accounts")
  /\ \E invitees \in SUBSET (People \ (barred \cup {r.who})) :
       IF Manages(r.seen, r.who) /\ invitees # {}
       THEN call' = [call EXCEPT ![c].at = "invite", ![c].arg = invitees]
       ELSE Answer(c)
  /\ UNCHANGED <<talk, barred, made, meddled>>

Invite(c) ==
  LET r == call[c] IN
  /\ At(c, "invite")
  /\ IF Gone(r.in) THEN Answer(c) /\ UNCHANGED <<talk, meddled>>
     ELSE \E p \in r.arg :
       /\ Set(r.in, p, [Members(c)[p] EXCEPT !.status = "invited"])
       /\ Meddle(r.in, p)
       /\ IF r.arg = {p} THEN Answer(c) ELSE call' = [call EXCEPT ![c].arg = @ \ {p}]
  /\ UNCHANGED <<barred, made>>

\* POST /:id/invites/accept and /reject: the row, then its update by id.
Resolve(c) ==
  LET r == call[c] IN
  /\ At(c, "resolve") /\ Answer(c)
  /\ IF r.seen[r.who].status # "invited" \/ Gone(r.in) THEN UNCHANGED <<talk, meddled>>
     ELSE /\ Set(r.in, r.who, [Members(c)[r.who] EXCEPT
                                 !.status = IF r.op = "accept" THEN "active" ELSE "removed"])
          /\ Meddle(r.in, r.who)
  /\ UNCHANGED <<barred, made>>

-----------------------------------------------------------------------------
(* POST /:id/leave and /:id/kick: the member's row is set to removed, the  *)
(* conversation read again, and then either somebody is made admin or the  *)
(* empty conversation deleted (ensureManualConversationHasAdminOrDelete).  *)
MayKick(r, p) ==
  /\ Manages(r.seen, r.who) /\ p \in Active(r.seen)
  /\ r.seen[p].role # "owner"
  /\ ~(r.seen[r.who].role = "admin" /\ r.seen[p].role = "admin")

Remove(c) ==
  LET r == call[c] IN
  /\ At(c, "remove")
  /\ \E p \in People :
       IF ~Gone(r.in) /\ IF r.op = "leave" THEN p = r.who /\ p \in Active(r.seen) ELSE MayKick(r, p)
       THEN /\ Set(r.in, p, [Members(c)[p] EXCEPT !.status = "removed"])
            /\ call' = [call EXCEPT ![c].at = "reread", ![c].arg = p]
       ELSE Answer(c) /\ UNCHANGED talk
  /\ UNCHANGED <<barred, made, meddled>>

\* Mutant: the members as read before the removal.
StaleMembers(c) == [call[c].seen EXCEPT ![call[c].arg].status = "removed"]
MembersNow(c) == Members(c)

Reread(c) ==
  LET now == MembersNow(c) IN
  /\ At(c, "reread")
  /\ IF Gone(call[c].in) \/ \E p \in People : Manages(now, p) THEN Answer(c)
     ELSE call' = [call EXCEPT ![c].seen = now, ![c].at = IF Active(now) = {} THEN "empty" ELSE "promote"]
  /\ UNCHANGED <<talk, barred, made, meddled>>

\* The one who joined first; rows of one millisecond have no order.
Promote(c) ==
  LET r == call[c] IN
  /\ At(c, "promote") /\ Answer(c)
  /\ \E p \in Active(r.seen) :
       IF Gone(r.in) THEN UNCHANGED talk ELSE Set(r.in, p, [Members(c)[p] EXCEPT !.role = "admin"])
  /\ UNCHANGED <<barred, made, meddled>>

Delete(t) == talk' = [talk EXCEPT ![t] = [kind |-> "gone", members |-> Nobody]]
DeleteEmpty(c) ==
  /\ At(c, "empty") /\ Answer(c) /\ Delete(call[c].in)
  /\ UNCHANGED <<barred, made, meddled>>

\* DELETE /:id
DeleteGroup(c) ==
  LET r == call[c] IN
  /\ At(c, "delete") /\ Answer(c)
  /\ IF talk[r.in].kind = "group" /\ Manages(r.seen, r.who) THEN Delete(r.in) ELSE UNCHANGED talk
  /\ UNCHANGED <<barred, made, meddled>>

\* PUT /:id/member-role, handing over ownership in two statements.
SetRole(c) ==
  LET r == call[c] IN
  /\ At(c, "role")
  /\ \E p \in Active(r.seen), role \in {"owner", "admin", "member"} :
       IF r.seen[r.who].role # "owner" \/ r.who \notin Active(r.seen) \/ Gone(r.in)
       THEN Answer(c) /\ UNCHANGED <<talk, meddled>>
       ELSE /\ meddled' = meddled \cup {r.in}
            /\ IF role = "owner"
               THEN /\ Set(r.in, r.who, [Members(c)[r.who] EXCEPT !.role = "admin"])
                    /\ call' = [call EXCEPT ![c].at = "crown", ![c].arg = p]
               ELSE Set(r.in, p, [Members(c)[p] EXCEPT !.role = role]) /\ Answer(c)
  /\ UNCHANGED <<barred, made>>

Crown(c) ==
  LET r == call[c] IN
  /\ At(c, "crown") /\ Answer(c)
  /\ IF Gone(r.in) THEN UNCHANGED talk
     ELSE Set(r.in, r.arg, [Members(c)[r.arg] EXCEPT !.role = "owner"])
  /\ meddled' = meddled \cup {r.in}
  /\ UNCHANGED <<barred, made>>

-----------------------------------------------------------------------------
\* POST /reset with the scopes people's own conversations are in.
FindScope(c) ==
  /\ \E scope \in SUBSET {"dm", "group"} :
       Start(c, [Idle EXCEPT !.op = "reset", !.at = "reset",
                             !.arg = {t \in Talks : talk[t].kind \in scope}])
  /\ UNCHANGED <<talk, barred, meddled>>
Reset(c) ==
  /\ At(c, "reset") /\ Answer(c)
  /\ talk' = [t \in Talks |-> IF t \in call[c].arg THEN [kind |-> "gone", members |-> Nobody] ELSE talk[t]]
  /\ UNCHANGED <<barred, made, meddled>>

\* revokeConversationAccessForUser, in the transaction that bars the account.
Bar(p) ==
  LET Has(t) == talk[t].members[p].status \in {"active", "invited"} IN
  /\ "bar" \in Offered /\ p \notin barred /\ made < MaxRequests /\ made' = made + 1
  /\ barred' = barred \cup {p}
  /\ talk' = [t \in Talks |-> IF Has(t) THEN [talk[t] EXCEPT !.members[p].status = "removed"] ELSE talk[t]]
  /\ meddled' = meddled \cup {t \in Talks : talk[t].members[p].status = "active"}
  /\ UNCHANGED call

Begin(c) ==
  \/ FindDirect(c) \/ FindInvitees(c) \/ FindScope(c)
  \/ Reads(c, "invite", "accounts") \/ Reads(c, "accept", "resolve") \/ Reads(c, "reject", "resolve")
  \/ Reads(c, "leave", "remove") \/ Reads(c, "kick", "remove")
  \/ Reads(c, "delete", "delete") \/ Reads(c, "role", "role")
Continue(c) ==
  \/ Direct(c) \/ CreateGroup(c) \/ FindInvited(c) \/ Invite(c) \/ Resolve(c) \/ Remove(c) \/ Reread(c)
  \/ Promote(c) \/ DeleteEmpty(c) \/ DeleteGroup(c) \/ SetRole(c) \/ Crown(c) \/ Reset(c)
ChatNext == (\E c \in Clients : Begin(c) \/ Continue(c)) \/ \E p \in People : Bar(p)
ChatSpec == ChatInit /\ [][ChatNext]_gvars

-----------------------------------------------------------------------------
ChatTypeOK == talk \in [Talks -> Talk] /\ barred \subseteq People /\ meddled \subseteq Talks

\* The group keeps a manager: where active members' rows are written only by
\* leaving and kicking, a conversation without such a request between its
\* removal and its repair has an active owner or admin, so none is left
\* orphaned or empty however many leave, are kicked and join at one time
\* (leave 813-827, kick 791-811, ensureManualConversationHasAdminOrDelete).
Settling(t) == \E c \in Clients : call[c].in = t /\ call[c].at \in {"reread", "promote", "empty"}
GroupHasManager ==
  \A t \in Talks : ~Gone(t) /\ t \notin meddled /\ ~Settling(t)
                     => \E p \in People : Manages(talk[t].members, p)
=============================================================================
