----------------------------- MODULE ChatProofs -----------------------------
(***************************************************************************)
(* Proofs about ChatMessages: types, that posting implements the log of    *)
(* MessageLog, and that every group keeps somebody who manages it, for any *)
(* conversations, people, bots and requests.                               *)
(***************************************************************************)
EXTENDS ChatMessages, FiniteSetTheorems, SequenceTheorems, TLAPS

Writers == People \cup Bots
Keys == ClientIds \cup {NoId}
Args == {0} \cup People \cup (SUBSET People) \cup (SUBSET Talks) \cup Writers \cup Nat
          \cup (Writers \X Keys) \cup (Writers \X Keys \X Nat)
Ops == {"none", "dm", "group", "reset", "invite", "accept", "reject", "leave", "kick", "delete",
        "role", "post", "edit", "unsend", "policy"}
Stages == {"idle", "direct", "group", "accounts", "invite", "resolve", "remove", "reread", "promote",
           "empty", "delete", "role", "crown", "reset", "identity", "lookup", "sequence", "store",
           "rewrite", "policy"}
Calls == [op : Ops, at : Stages, who : People, in : Talks,
          seen : [People -> Member], arg : Args]
PostStages == {"identity", "lookup", "sequence", "store"}

\* What a request carries at the stages that use it.
Carries(r) ==
  /\ r.at = "invite" => r.arg \in SUBSET People
  /\ r.at \in {"identity", "lookup"} => r.arg \in Writers
  /\ r.at = "sequence" => r.arg \in Writers \X Keys
  /\ r.at = "store" => r.arg \in Writers \X Keys \X Nat

CallsOK == call \in [Clients -> Calls] /\ \A c \in Clients : Carries(call[c])
GroupsInv == ChatTypeOK /\ CallsOK /\ made \in 0 .. MaxRequests

\* A conversation begins once and ends once.
TalksGoOn ==
  /\ talk' \in [Talks -> Talk]
  /\ \A t \in Talks : talk[t].kind = "none" \/ talk'[t].kind \in {talk[t].kind, "gone"}
\* Nothing in ChatGroups is a post or touches one.
CallsGoOn ==
  CallsOK' /\ \A c \in Clients : call'[c].at \in PostStages => call'[c] = call[c]
\* What a step of ChatGroups keeps.
Steady ==
  /\ TalksGoOn /\ CallsGoOn
  /\ barred' \subseteq People /\ meddled' \subseteq Talks
  /\ made' \in 0 .. MaxRequests /\ made' >= made

LEMMA ArgsHold ==
  /\ 0 \in Args /\ People \subseteq Args /\ (SUBSET People) \subseteq Args
  /\ (SUBSET Talks) \subseteq Args /\ Writers \subseteq Args /\ Nat \subseteq Args
  /\ (Writers \X Keys) \subseteq Args /\ (Writers \X Keys \X Nat) \subseteq Args
  BY DEF Args

LEMMA IdleIsCall == Idle \in Calls /\ Idle.at = "idle" /\ Idle.op = "none"
<1>1. Nobody \in [People -> Member]
  BY DEF Nobody, Member
<1>2. PICK p \in People : p = (CHOOSE q \in People : TRUE)
  BY ChatAssumption
<1>3. PICK t \in Talks : t = (CHOOSE u \in Talks : TRUE)
  BY ChatAssumption
<1>4. Idle = [op |-> "none", at |-> "idle", who |-> p, in |-> t, seen |-> Nobody, arg |-> 0]
  BY <1>2, <1>3 DEF Idle
<1> QED
  BY <1>1, <1>4, ArgsHold DEF Calls, Ops, Stages

-----------------------------------------------------------------------------
(* How a request goes on. *)

LEMMA CallReplaced ==
  ASSUME CallsOK, NEW c \in Clients, NEW r \in Calls, Carries(r), r.at \notin PostStages,
         call' = [call EXCEPT ![c] = r]
  PROVE  CallsGoOn
<1>1. call' \in [Clients -> Calls]
  BY DEF CallsOK
<1>2. \A d \in Clients : call'[d] = IF d = c THEN r ELSE call[d]
  BY DEF CallsOK
<1> QED
  BY <1>1, <1>2 DEF CallsOK, CallsGoOn, Carries

LEMMA Answers ==
  ASSUME CallsOK, NEW c \in Clients, Answer(c)
  PROVE  CallsGoOn
  BY CallReplaced, IdleIsCall DEF Answer, Carries, PostStages

LEMMA GoesOn ==
  ASSUME CallsOK, NEW c \in Clients, NEW at \in Stages \ (PostStages \cup {"invite"}),
         call' = [call EXCEPT ![c].at = at]
  PROVE  CallsGoOn
<1> DEFINE r == [call[c] EXCEPT !.at = at]
<1>1. call[c] \in Calls
  BY DEF CallsOK
<1>2. r \in Calls /\ r.at = at /\ r.arg = call[c].arg
  BY <1>1 DEF Calls
<1>3. Carries(r)
  BY <1>2 DEF Carries, PostStages
<1>4. call' = [call EXCEPT ![c] = r]
  BY DEF CallsOK
<1> QED
  BY <1>2, <1>3, <1>4, CallReplaced DEF PostStages

LEMMA GoesOnWith ==
  ASSUME CallsOK, NEW c \in Clients, NEW at \in Stages \ PostStages, NEW arg \in Args,
         at = "invite" => arg \in SUBSET People,
         call' = [call EXCEPT ![c].at = at, ![c].arg = arg]
  PROVE  CallsGoOn
<1> DEFINE r == [call[c] EXCEPT !.at = at, !.arg = arg]
<1>1. call[c] \in Calls
  BY DEF CallsOK
<1>2. r \in Calls /\ r.at = at /\ r.arg = arg
  BY <1>1 DEF Calls
<1>3. Carries(r)
  BY <1>2 DEF Carries, PostStages
<1>4. call' = [call EXCEPT ![c] = r]
  BY DEF CallsOK
<1> QED
  BY <1>2, <1>3, <1>4, CallReplaced DEF PostStages

LEMMA GoesOnSeeing ==
  ASSUME CallsOK, NEW c \in Clients, NEW at \in Stages \ (PostStages \cup {"invite"}), NEW seen \in [People -> Member],
         call' = [call EXCEPT ![c].seen = seen, ![c].at = at]
  PROVE  CallsGoOn
<1> DEFINE r == [call[c] EXCEPT !.seen = seen, !.at = at]
<1>1. call[c] \in Calls
  BY DEF CallsOK
<1>2. r \in Calls /\ r.at = at /\ r.arg = call[c].arg
  BY <1>1 DEF Calls
<1>3. Carries(r)
  BY <1>2 DEF Carries, PostStages
<1>4. call' = [call EXCEPT ![c] = r]
  BY DEF CallsOK
<1> QED
  BY <1>2, <1>3, <1>4, CallReplaced DEF PostStages

LEMMA Narrows ==
  ASSUME CallsOK, NEW c \in Clients, NEW arg \in SUBSET People, call[c].at = "invite", arg \in Args,
         call' = [call EXCEPT ![c].arg = arg]
  PROVE  CallsGoOn
<1> DEFINE r == [call[c] EXCEPT !.arg = arg]
<1>1. call[c] \in Calls
  BY DEF CallsOK
<1>2. r \in Calls /\ r.at = "invite" /\ r.arg = arg
  BY <1>1 DEF Calls
<1>3. Carries(r)
  BY <1>2 DEF Carries, PostStages
<1>4. call' = [call EXCEPT ![c] = r]
  BY DEF CallsOK
<1> QED
  BY <1>2, <1>3, <1>4, CallReplaced DEF PostStages

LEMMA Starts ==
  ASSUME CallsOK, made \in 0 .. MaxRequests, NEW c \in Clients, NEW r \in Calls,
         r.at \notin PostStages \cup {"invite"}, Start(c, r)
  PROVE  CallsGoOn /\ made' \in 0 .. MaxRequests /\ made' >= made
<1>1. Carries(r)
  BY DEF Carries, PostStages
<1>2. CallsGoOn
  BY <1>1, CallReplaced DEF Start
<1> QED
  BY <1>2, ChatAssumption DEF Start

LEMMA SetGoesOn ==
  ASSUME talk \in [Talks -> Talk], NEW t, NEW p, NEW m,
         t \in Talks /\ p \in People => m \in Member, Set(t, p, m)
  PROVE  TalksGoOn
  BY DEF Set, Talk, TalksGoOn
-----------------------------------------------------------------------------
(* Every step of ChatGroups is steady.                                     *)

LEMMA ReadsSteady ==
  ASSUME GroupsInv, NEW c \in Clients, NEW op \in Ops,
         NEW at \in Stages \ (PostStages \cup {"invite"}), Reads(c, op, at)
  PROVE  Steady
<1>1. PICK p \in People, t \in Talks :
        Start(c, [Idle EXCEPT !.op = op, !.at = at, !.who = p, !.in = t, !.seen = talk[t].members])
  BY DEF Reads
<1> DEFINE r == [Idle EXCEPT !.op = op, !.at = at, !.who = p, !.in = t, !.seen = talk[t].members]
<1>2. r \in Calls /\ r.at = at
  BY IdleIsCall DEF Calls, GroupsInv, ChatTypeOK, Talk
<1>3. CallsGoOn /\ made' \in 0 .. MaxRequests /\ made' >= made
  BY <1>1, <1>2, Starts DEF GroupsInv
<1> QED
  BY <1>3 DEF Reads, Steady, TalksGoOn, GroupsInv, ChatTypeOK

LEMMA BeginSteady ==
  ASSUME GroupsInv, NEW c \in Clients, Begin(c)
  PROVE  Steady
<1> USE DEF GroupsInv, ChatTypeOK
<1>1. CASE FindDirect(c)
  <2>1. PICK p \in People, q \in People :
          Start(c, [Idle EXCEPT !.op = "dm", !.at = "direct", !.who = p, !.arg = q])
    BY <1>1 DEF FindDirect
  <2> DEFINE r == [Idle EXCEPT !.op = "dm", !.at = "direct", !.who = p, !.arg = q]
  <2>2. r \in Calls /\ r.at = "direct"
    BY IdleIsCall, ArgsHold DEF Calls, Ops, Stages
  <2> QED
    BY <1>1, <2>1, <2>2, Starts DEF FindDirect, Steady, TalksGoOn, PostStages
<1>2. CASE FindInvitees(c)
  <2>1. PICK p \in People, invitees \in SUBSET People :
          Start(c, [Idle EXCEPT !.op = "group", !.at = "group", !.who = p, !.arg = invitees])
    BY <1>2 DEF FindInvitees
  <2> DEFINE r == [Idle EXCEPT !.op = "group", !.at = "group", !.who = p, !.arg = invitees]
  <2>2. r \in Calls /\ r.at = "group"
    BY IdleIsCall, ArgsHold DEF Calls, Ops, Stages
  <2> QED
    BY <1>2, <2>1, <2>2, Starts DEF FindInvitees, Steady, TalksGoOn, PostStages
<1>3. CASE FindScope(c)
  <2>1. PICK ts \in SUBSET Talks : Start(c, [Idle EXCEPT !.op = "reset", !.at = "reset", !.arg = ts])
    BY <1>3 DEF FindScope
  <2> DEFINE r == [Idle EXCEPT !.op = "reset", !.at = "reset", !.arg = ts]
  <2>2. r \in Calls /\ r.at = "reset"
    BY IdleIsCall, ArgsHold DEF Calls, Ops, Stages
  <2> QED
    BY <1>3, <2>1, <2>2, Starts DEF FindScope, Steady, TalksGoOn, PostStages
<1> QED
  BY <1>1, <1>2, <1>3, ReadsSteady DEF Begin, Ops, Stages, PostStages

LEMMA ContinueSteady ==
  ASSUME GroupsInv, NEW c \in Clients, Continue(c)
  PROVE  Steady
<1> USE DEF GroupsInv, ChatTypeOK
<1>0. call[c] \in Calls /\ Carries(call[c]) /\ call[c].in \in Talks /\ call[c].who \in People
        /\ call[c].seen \in [People -> Member]
  BY DEF CallsOK, Calls
<1>a. SUFFICES TalksGoOn /\ CallsGoOn /\ barred' = barred /\ made' = made /\ meddled' \subseteq Talks
  BY DEF Steady
<1>b. ASSUME UNCHANGED talk PROVE TalksGoOn
  BY <1>b DEF TalksGoOn
<1>c. \A t \in Talks, p \in People : talk[t].members[p] \in Member
  BY DEF Talk
<1>d. \A p \in People : Members(c)[p] \in Member
  BY <1>0, <1>c DEF Members
<1>e. \A m \in Member :
        /\ \A role \in {"owner", "admin", "member"} : [m EXCEPT !.role = role] \in Member
        /\ \A status \in {"active", "removed"} : [m EXCEPT !.status = status] \in Member
  BY DEF Member
<1>1. CASE Direct(c)
  <2>1. TalksGoOn
    BY <1>1 DEF Direct, TalksGoOn, Talk, Member, Nobody
  <2> QED
    BY <1>1, <2>1, Answers DEF Direct
<1>2. CASE CreateGroup(c)
  <2>1. TalksGoOn
    BY <1>2 DEF CreateGroup, TalksGoOn, Talk, Member, Nobody
  <2> QED
    BY <1>2, <2>1, Answers DEF CreateGroup
<1>3. CASE FindInvited(c)
  <2>1. CallsGoOn
    BY <1>3, <1>0, Answers, GoesOnWith, ArgsHold DEF FindInvited, Stages, PostStages
  <2> QED
    BY <1>3, <2>1, <1>b DEF FindInvited
<1>4. CASE Invite(c)
  <2>1. CASE Gone(call[c].in)
    BY <1>4, <2>1, <1>b, Answers DEF Invite
  <2>2. CASE ~Gone(call[c].in)
    <3>1. PICK p \in call[c].arg :
            /\ Set(call[c].in, p, [Members(c)[p] EXCEPT !.status = "invited"])
            /\ Meddle(call[c].in, p)
            /\ IF call[c].arg = {p} THEN Answer(c) ELSE call' = [call EXCEPT ![c].arg = @ \ {p}]
      BY <1>4, <2>2 DEF Invite
    <3>2. p \in People /\ call[c].arg \ {p} \in SUBSET People
      BY <1>0, <1>4 DEF Carries, Invite, At
    <3>3. [Members(c)[p] EXCEPT !.status = "invited"] \in Member
      BY <1>0, <1>c, <3>2 DEF Members, Member
    <3>4. TalksGoOn
      BY <3>1, <3>3, SetGoesOn
    <3>5. CallsGoOn
      <4>1. CASE call[c].arg = {p}
        BY <3>1, <4>1, Answers
      <4>2. CASE call[c].arg # {p}
        <5> DEFINE rest == call[c].arg \ {p}
        <5>1. call' = [call EXCEPT ![c].arg = rest]
          BY <3>1, <4>2
        <5>2. rest \in SUBSET People /\ rest \in Args /\ call[c].at = "invite"
          BY <3>2, <1>4, ArgsHold DEF Invite, At
        <5> HIDE DEF rest
        <5> QED
          BY <5>1, <5>2, Narrows
      <4> QED
        BY <4>1, <4>2
    <3> QED
      BY <1>0, <1>4, <3>1, <3>4, <3>5 DEF Invite, Meddle
  <2> QED
    BY <2>1, <2>2
<1>5. CASE Resolve(c)
  <2>1. TalksGoOn
    <3> DEFINE m == [Members(c)[call[c].who] EXCEPT !.status = IF call[c].op = "accept" THEN "active" ELSE "removed"]
    <3>1. m \in Member
      BY <1>0, <1>d, <1>e
    <3>2. UNCHANGED talk \/ Set(call[c].in, call[c].who, m)
      BY <1>5 DEF Resolve
    <3> QED
      BY <1>b, <3>1, <3>2, SetGoesOn
  <2> QED
    BY <1>0, <1>5, <2>1, Answers DEF Resolve, Meddle
<1>6. CASE Remove(c)
  <2>1. PICK p \in People :
          \/ /\ Set(call[c].in, p, [Members(c)[p] EXCEPT !.status = "removed"])
             /\ call' = [call EXCEPT ![c].at = "reread", ![c].arg = p]
          \/ Answer(c) /\ UNCHANGED talk
    BY <1>6 DEF Remove
  <2>2. [Members(c)[p] EXCEPT !.status = "removed"] \in Member
    BY <1>0, <1>d, <1>e
  <2>3. TalksGoOn
    BY <1>b, <2>1, <2>2, SetGoesOn
  <2>4. CallsGoOn
    BY <2>1, Answers, GoesOnWith, ArgsHold DEF Stages, PostStages
  <2> QED
    BY <1>6, <2>3, <2>4 DEF Remove
<1>7. CASE Reread(c)
  <2>1. MembersNow(c) \in [People -> Member]
    BY <1>0 DEF MembersNow, Members, Talk
  <2>2. CallsGoOn
    BY <1>7, <2>1, Answers, GoesOnSeeing DEF Reread, Stages, PostStages
  <2> QED
    BY <1>7, <1>b, <2>2 DEF Reread
<1>8. CASE Promote(c)
  <2>1. PICK p \in People :
          UNCHANGED talk \/ Set(call[c].in, p, [Members(c)[p] EXCEPT !.role = "admin"])
    BY <1>8 DEF Promote, Active
  <2>2. [Members(c)[p] EXCEPT !.role = "admin"] \in Member
    BY <1>0, <1>d, <1>e
  <2>3. TalksGoOn
    BY <1>b, <2>1, <2>2, SetGoesOn
  <2> QED
    BY <1>8, <2>3, Answers DEF Promote
<1>9. ASSUME NEW t, Delete(t) PROVE TalksGoOn
  BY <1>9 DEF Delete, TalksGoOn, Talk, Member, Nobody
<1>10. CASE DeleteEmpty(c)
  BY <1>9, <1>10, Answers DEF DeleteEmpty
<1>11. CASE DeleteGroup(c)
  BY <1>9, <1>b, <1>11, Answers DEF DeleteGroup
<1>12. CASE SetRole(c)
  <2>1. CASE Answer(c) /\ UNCHANGED <<talk, meddled>>
    BY <1>12, <2>1, <1>b, Answers DEF SetRole
  <2>2. CASE ~(Answer(c) /\ UNCHANGED <<talk, meddled>>)
    <3>1. PICK p \in People, role \in {"owner", "admin", "member"} :
            /\ meddled' = meddled \cup {call[c].in}
            /\ \/ /\ Set(call[c].in, call[c].who, [Members(c)[call[c].who] EXCEPT !.role = "admin"])
                  /\ call' = [call EXCEPT ![c].at = "crown", ![c].arg = p]
               \/ /\ Set(call[c].in, p, [Members(c)[p] EXCEPT !.role = role])
                  /\ Answer(c)
      BY <1>12, <2>2 DEF SetRole, Active
    <3>2. /\ [Members(c)[call[c].who] EXCEPT !.role = "admin"] \in Member
          /\ [Members(c)[p] EXCEPT !.role = role] \in Member
      BY <1>0, <1>d, <1>e
    <3>3. TalksGoOn
      BY <3>1, <3>2, SetGoesOn
    <3>4. CallsGoOn
      BY <3>1, Answers, GoesOnWith, ArgsHold DEF Stages, PostStages
    <3> QED
      BY <1>0, <1>12, <3>1, <3>3, <3>4 DEF SetRole
  <2> QED
    BY <2>1, <2>2
<1>13. CASE Crown(c)
  <2> DEFINE m == [Members(c)[call[c].arg] EXCEPT !.role = "owner"]
  <2>1. call[c].arg \in People => m \in Member
    BY <1>0, <1>d, <1>e
  <2>2. UNCHANGED talk \/ Set(call[c].in, call[c].arg, m)
    BY <1>13 DEF Crown
  <2>3. TalksGoOn
    BY <1>b, <2>1, <2>2, SetGoesOn
  <2> QED
    BY <1>0, <1>13, <2>3, Answers DEF Crown
<1>14. CASE Reset(c)
  <2>1. TalksGoOn
    BY <1>14 DEF Reset, TalksGoOn, Talk, Member, Nobody
  <2> QED
    BY <1>14, <2>1, Answers DEF Reset
<1> QED
  BY <1>1, <1>2, <1>3, <1>4, <1>5, <1>6, <1>7, <1>8, <1>10, <1>11, <1>12, <1>13, <1>14 DEF Continue

LEMMA ChatSteady == GroupsInv /\ ChatNext => Steady
<1> SUFFICES ASSUME GroupsInv, ChatNext PROVE Steady
  OBVIOUS
<1>1. ASSUME NEW p \in People, Bar(p) PROVE Steady
  <2>1. TalksGoOn
    <3>1. \A t \in Talks : talk[t] \in Talk
      BY DEF GroupsInv, ChatTypeOK
    <3>2. ASSUME NEW t \in Talks, NEW m, m = [talk[t] EXCEPT !.members[p].status = "removed"]
          PROVE  m \in Talk /\ m.kind = talk[t].kind
      <4>1. talk[t].members \in [People -> Member] /\ talk[t].members[p] \in Member
        BY <3>1 DEF Talk
      <4>2. [talk[t].members[p] EXCEPT !.status = "removed"] \in Member
        BY <4>1 DEF Member
      <4>3. m = [talk[t] EXCEPT !.members = [talk[t].members EXCEPT ![p] = [talk[t].members[p] EXCEPT !.status = "removed"]]]
        BY <3>1, <3>2, <4>1 DEF Talk, Member
      <4> QED
        BY <3>1, <4>1, <4>2, <4>3 DEF Talk
    <3>3. \A t \in Talks : talk'[t] \in Talk /\ talk'[t].kind = talk[t].kind
      BY <1>1, <3>1, <3>2 DEF Bar
    <3> QED
      BY <1>1, <3>3 DEF Bar, TalksGoOn
  <2> QED
    BY <1>1, <2>1, ChatAssumption DEF Bar, Steady, GroupsInv, ChatTypeOK, CallsGoOn, CallsOK
<1> QED
  BY <1>1, BeginSteady, ContinueSteady DEF ChatNext
-----------------------------------------------------------------------------
(* The invariant of posting. *)

Row == [in : Talks, seq : Nat, clientId : Keys, author : Writers \cup {"system"}, text : {"sent", "edited", ""}]
\* The requests that will still take a sequence of t.
Due(t) == {c \in Clients : call[c].in = t /\ call[c].at \in {"identity", "lookup", "sequence"}}
Storing(c) == call[c].at = "store"
Taken(c) == call[c].arg[3]

OneSeq(ms) == \A m, n \in ms : m.in = n.in /\ m.seq = n.seq => m = n
OneName(ms) == \A m, n \in ms : m.in = n.in /\ m.clientId = n.clientId /\ m.clientId # NoId => m = n
Alive == \A m \in messages : ~Gone(m.in) /\ m.seq \in 0 .. counter[m.in]
Rows == /\ counter \in [Talks -> Nat] /\ policy \in [Talks -> SUBSET Bots]
        /\ messages \subseteq Row /\ OneSeq(messages) /\ OneName(messages)

\* A sequence a request has taken is one its conversation has counted, and
\* neither a message's nor another request's.
Fresh == \A c \in Clients : Storing(c) =>
           /\ Taken(c) \in 1 .. counter[call[c].in]
           /\ \A m \in messages : m.in = call[c].in => m.seq # Taken(c)
Apart == \A c, d \in Clients : Storing(c) /\ Storing(d) /\ call[c].in = call[d].in /\ c # d
                                 => Taken(c) # Taken(d)
\* Every sequence is that of a request of its own.
Counted == \A t \in Talks : counter[t] + Cardinality(Due(t)) <= made
Claims == Fresh /\ Apart /\ Counted

PostInv == GroupsInv /\ Rows /\ Alive /\ Claims

LEMMA DueIsFinite ==
  \A t : IsFiniteSet(Due(t)) /\ Cardinality(Due(t)) \in Nat
<1> TAKE t
<1>1. Due(t) \in SUBSET Clients
  BY DEF Due
<1> QED
  BY <1>1, FS_Subset, FS_CardinalityType, ChatAssumption

LEMMA AnnouncementIsRow ==
  \A t \in Talks : /\ Announcement(t) \in Row /\ Announcement(t).in = t /\ Announcement(t).seq = 0
                   /\ Announcement(t).clientId = NoId
  BY DEF Announcement, Row, Keys

LEMMA PostInit == MessagesInit => PostInv
<1> SUFFICES ASSUME MessagesInit PROVE PostInv
  OBVIOUS
<1>1. \A c \in Clients : call[c] = Idle
  BY DEF MessagesInit, ChatInit
<1>2. CallsOK
  BY <1>1, IdleIsCall DEF MessagesInit, ChatInit, CallsOK, Carries
<1>3. GroupsInv
  BY <1>2, ChatAssumption DEF MessagesInit, ChatInit, GroupsInv, ChatTypeOK
<1>4. Rows /\ Alive
  <2>1. \A m \in messages : \E t \in Talks : m = Announcement(t) /\ talk[t].kind = "group"
    BY DEF MessagesInit, ChatInit
  <2>2. OneSeq(messages) /\ OneName(messages) /\ messages \subseteq Row
    BY <2>1, AnnouncementIsRow DEF OneSeq, OneName
  <2>3. Alive
    BY <2>1, AnnouncementIsRow DEF Alive, Gone, MessagesInit
  <2> QED
    BY <2>2, <2>3 DEF MessagesInit, Rows
<1>5. \A t : Due(t) = {}
  BY <1>1, IdleIsCall DEF Due
<1>6. Counted
  <2>1. counter = [t \in Talks |-> 0] /\ made = 0
    BY DEF MessagesInit, ChatInit
  <2>2. \A t \in Talks : counter[t] = 0 /\ Cardinality(Due(t)) = 0
    BY <1>5, <2>1, FS_EmptySet
  <2> QED
    BY <2>1, <2>2 DEF Counted
<1>7. Fresh /\ Apart
  BY <1>1, IdleIsCall DEF Fresh, Apart, Storing
<1> QED
  BY <1>3, <1>4, <1>6, <1>7 DEF PostInv, Claims

-----------------------------------------------------------------------------
(* Steps that take no sequence and store nothing keep the claims.          *)

\* What a step leaves of the requests that post.
Waits ==
  \A c \in Clients :
    /\ call'[c].at = "store" => call'[c] = call[c]
    /\ call'[c].at \in {"identity", "lookup", "sequence"} =>
         call'[c].in = call[c].in /\ call[c].at \in {"identity", "lookup", "sequence"}

LEMMA ClaimsKept ==
  ASSUME PostInv, UNCHANGED counter, made' \in 0 .. MaxRequests, made' >= made, Waits,
         \A n \in messages' : n.seq = 0 \/ \E m \in messages : n.in = m.in /\ n.seq = m.seq
  PROVE  Claims'
<1> USE DEF PostInv, Claims
<1>1. Fresh'
  <2>1. ASSUME NEW c \in Clients, Storing(c)' PROVE Storing(c) /\ call'[c] = call[c] /\ Taken(c) \in 1 .. counter[call[c].in]
    BY <2>1 DEF Waits, Fresh, Storing, Taken
  <2> QED
    BY <2>1 DEF Fresh, Taken
<1>2. Apart'
  BY DEF Waits, Apart, Storing, Taken
<1>3. Counted'
  <2> SUFFICES ASSUME NEW t \in Talks PROVE counter'[t] + Cardinality(Due(t)') <= made'
    BY DEF Counted
  <2>1. Due(t)' \in SUBSET Due(t)
    BY DEF Due, Waits
  <2>2. Cardinality(Due(t)') <= Cardinality(Due(t)) /\ Cardinality(Due(t)') \in Nat
    BY <2>1, FS_Subset, FS_CardinalityType, DueIsFinite
  <2>3. counter[t] + Cardinality(Due(t)) <= made /\ counter[t] \in Nat /\ made \in Nat
    BY ChatAssumption DEF Counted, Rows, GroupsInv
  <2> QED
    BY <2>2, <2>3, DueIsFinite, ChatAssumption
<1> QED
  BY <1>1, <1>2, <1>3

\* One request becomes r.
LEMMA Replaced ==
  ASSUME CallsOK, NEW c \in Clients, NEW r \in Calls, Carries(r), call' = [call EXCEPT ![c] = r]
  PROVE  CallsOK' /\ \A d \in Clients : call'[d] = IF d = c THEN r ELSE call[d]
<1>1. call' \in [Clients -> Calls] /\ \A d \in Clients : call'[d] = IF d = c THEN r ELSE call[d]
  BY DEF CallsOK
<1> QED
  BY <1>1 DEF CallsOK, Carries

\* A step that changes neither messages nor the counters nor the conversations.
LEMMA Quiet ==
  ASSUME PostInv, UNCHANGED <<still, counter, messages>>, policy' \in [Talks -> SUBSET Bots],
         CallsOK', Waits, made' \in 0 .. MaxRequests, made' >= made
  PROVE  PostInv'
<1>1. Claims'
  BY ClaimsKept
<1> QED
  BY <1>1 DEF PostInv, GroupsInv, ChatTypeOK, still, Rows, Alive, Gone, OneSeq, OneName

LEMMA QuietGroups ==
  ASSUME CallsGoOn
  PROVE  CallsOK' /\ Waits
  BY DEF CallsGoOn, Waits, PostStages

LEMMA NoCallMoves ==
  ASSUME PostInv, UNCHANGED call
  PROVE  CallsOK' /\ Waits
  BY DEF PostInv, GroupsInv, CallsOK, Waits, Carries

LEMMA GroupsStep ==
  ASSUME PostInv, ChatNext, Cascade
  PROVE  PostInv'
<1>1. Steady
  BY ChatSteady DEF PostInv
<1>2. GroupsInv'
  BY <1>1 DEF Steady, TalksGoOn, CallsGoOn, GroupsInv, ChatTypeOK
<1>3. ASSUME NEW n \in messages'
      PROVE  \/ n \in messages /\ talk'[n.in].kind # "gone"
             \/ \E t \in Talks : n = Announcement(t) /\ talk[t].kind = "none" /\ talk'[t].kind = "group"
  BY DEF Cascade, Begun
<1>a. \A m \in messages : m.in \in Talks /\ ~Gone(m.in) /\ m.seq \in 0 .. counter[m.in] /\ counter[m.in] \in Nat
  BY DEF PostInv, Rows, Row, Alive
<1>4. Rows'
  <2>1. messages' \subseteq Row
    BY <1>3, AnnouncementIsRow DEF PostInv, Rows
  <2>2. OneSeq(messages')
    BY <1>3, <1>a, AnnouncementIsRow DEF PostInv, Rows, OneSeq, Gone
  <2>3. OneName(messages')
    BY <1>3, <1>a, AnnouncementIsRow DEF PostInv, Rows, OneName, Gone
  <2> QED
    BY <2>1, <2>2, <2>3 DEF PostInv, Rows, Cascade
<1>5. Alive'
  <2> SUFFICES ASSUME NEW m \in messages' PROVE talk'[m.in].kind \notin {"none", "gone"} /\ m.seq \in 0 .. counter'[m.in]
    BY DEF Alive, Gone
  <2>1. CASE m \in messages /\ talk'[m.in].kind # "gone"
    BY <1>1, <1>a, <2>1 DEF Cascade, Gone, Steady, TalksGoOn
  <2>2. CASE \E t \in Talks : m = Announcement(t) /\ talk'[t].kind = "group"
    <3>1. m.in \in Talks /\ m.seq = 0 /\ talk'[m.in].kind = "group"
      BY <2>2, AnnouncementIsRow
    <3> QED
      BY <3>1 DEF Cascade, PostInv, Rows
  <2> QED
    BY <1>3, <2>1, <2>2
<1>6. Claims'
  BY <1>1, <1>3, AnnouncementIsRow, ClaimsKept, QuietGroups DEF Steady, Cascade
<1> QED
  BY <1>2, <1>4, <1>5, <1>6 DEF PostInv
-----------------------------------------------------------------------------
(* The steps of posting, but the three that matter, are quiet.             *)

\* The request becomes r, which posts no more than the request did.
LEMMA QuietReplaced ==
  ASSUME PostInv, NEW c \in Clients, NEW r \in Calls, Carries(r), call' = [call EXCEPT ![c] = r],
         \/ r.at \notin PostStages
         \/ /\ r.at \in {"lookup", "sequence"} /\ r.in = call[c].in
            /\ call[c].at \in {"identity", "lookup", "sequence"}
  PROVE  CallsOK' /\ Waits
<1>1. CallsOK' /\ \A d \in Clients : call'[d] = IF d = c THEN r ELSE call[d]
  BY Replaced DEF PostInv, GroupsInv
<1> QED
  BY <1>1 DEF Waits, PostStages

LEMMA QuietAnswer ==
  ASSUME PostInv, NEW c \in Clients, Answer(c)
  PROVE  CallsOK' /\ Waits
  BY QuietReplaced, IdleIsCall DEF Answer, Carries, PostStages

LEMMA ReadIdentityKeeps ==
  ASSUME PostInv, NEW c \in Clients, ReadIdentity(c)
  PROVE  PostInv'
<1> DEFINE r == [call[c] EXCEPT !.at = "lookup"]
<1>1. call[c] \in Calls /\ Carries(call[c]) /\ call[c].at = "identity"
  BY DEF PostInv, GroupsInv, CallsOK, ReadIdentity, At
<1>2. r \in Calls /\ Carries(r) /\ r.at = "lookup" /\ r.in = call[c].in
  BY <1>1 DEF Calls, Stages, Carries
<1>3. CASE Answer(c)
  BY <1>3, QuietAnswer, Quiet DEF ReadIdentity, PostInv, GroupsInv, Rows
<1>4. CASE GoTo(c, "lookup")
  <2>1. call' = [call EXCEPT ![c] = r]
    BY <1>4 DEF GoTo, PostInv, GroupsInv, CallsOK
  <2>2. CallsOK' /\ Waits
    BY <1>1, <1>2, <2>1, QuietReplaced
  <2> QED
    BY <2>2, Quiet DEF ReadIdentity, PostInv, GroupsInv, Rows
<1> QED
  BY <1>3, <1>4 DEF ReadIdentity

LEMMA LookupKeeps ==
  ASSUME PostInv, NEW c \in Clients, Lookup(c)
  PROVE  PostInv'
<1>1. call[c] \in Calls /\ Carries(call[c]) /\ call[c].at = "lookup"
  BY DEF PostInv, GroupsInv, CallsOK, Lookup, At
<1>2. CASE Answer(c)
  BY <1>2, QuietAnswer, Quiet DEF Lookup, PostInv, GroupsInv, Rows
<1>3. ASSUME NEW k \in Keys, call' = [call EXCEPT ![c].at = "sequence", ![c].arg = <<@, k>>]
      PROVE  PostInv'
  <2> DEFINE w == call[c].arg
             r == [call[c] EXCEPT !.at = "sequence", !.arg = <<w, k>>]
  <2>1. <<w, k>> \in Writers \X Keys
    BY <1>1 DEF Carries
  <2>2. r \in Calls /\ Carries(r) /\ r.at = "sequence" /\ r.in = call[c].in
    BY <1>1, <2>1, ArgsHold DEF Calls, Stages, Carries
  <2>3. call' = [call EXCEPT ![c] = r]
    BY <1>3 DEF PostInv, GroupsInv, CallsOK
  <2>4. CallsOK' /\ Waits
    BY <1>1, <2>2, <2>3, QuietReplaced
  <2> QED
    BY <2>4, Quiet DEF Lookup, PostInv, GroupsInv, Rows
<1> QED
  BY <1>2, <1>3 DEF Lookup, Keys

LEMMA RewriteStarts ==
  ASSUME PostInv, NEW c \in Clients, StartRewrite(c)
  PROVE  PostInv'
<1>1. PICK m \in messages, p \in People, op \in {"edit", "unsend"} :
        Start(c, [Idle EXCEPT !.op = op, !.at = "rewrite", !.in = m.in, !.arg = m.seq])
  BY DEF StartRewrite
<1> DEFINE r == [Idle EXCEPT !.op = op, !.at = "rewrite", !.in = m.in, !.arg = m.seq]
<1>2. m.in \in Talks /\ m.seq \in Nat
  BY DEF PostInv, Rows, Row
<1>3. r \in Calls /\ r.at = "rewrite"
  BY <1>2, IdleIsCall, ArgsHold DEF Calls, Ops, Stages
<1>4. Carries(r) /\ r.at \notin PostStages
  BY <1>3 DEF Carries, PostStages
<1>5. call' = [call EXCEPT ![c] = r] /\ made' = made + 1 /\ made < MaxRequests
  BY <1>1 DEF Start
<1>6. CallsOK' /\ Waits
  BY <1>3, <1>4, <1>5, QuietReplaced
<1>7. made' \in 0 .. MaxRequests /\ made' >= made
  BY <1>5, ChatAssumption DEF PostInv, GroupsInv
<1> QED
  BY <1>6, <1>7, Quiet DEF StartRewrite, PostInv, Rows

LEMMA OthersKeep ==
  ASSUME PostInv, NEW c \in Clients,
         \/ Read(c) \/ SetPolicy(c)
         \/ Reads(c, "policy", "policy") /\ UNCHANGED <<counter, messages, silenced, policy, lastRead>>
  PROVE  PostInv'
<1>1. CASE Read(c)
  <2>1. made' \in 0 .. MaxRequests /\ made' >= made
    BY <1>1, ChatAssumption DEF Read, PostInv, GroupsInv
  <2> QED
    BY <1>1, <2>1, NoCallMoves, Quiet DEF Read, PostInv, Rows
<1>2. CASE SetPolicy(c)
  <2>1. policy' \in [Talks -> SUBSET Bots]
    BY <1>2 DEF SetPolicy, PostInv, Rows
  <2> QED
    BY <1>2, <2>1, QuietAnswer, Quiet DEF SetPolicy, PostInv, GroupsInv
<1>3. CASE Reads(c, "policy", "policy") /\ UNCHANGED <<counter, messages, silenced, policy, lastRead>>
  <2>1. Steady
    BY <1>3, ReadsSteady DEF Ops, Stages, PostStages, PostInv
  <2> QED
    BY <1>3, <2>1, QuietGroups, Quiet DEF Reads, Steady, still, PostInv, Rows
<1> QED
  BY <1>1, <1>2, <1>3

LEMMA SilenceKeeps ==
  ASSUME PostInv, NEW b, Silence(b)
  PROVE  PostInv'
  BY NoCallMoves, Quiet DEF Silence, gvars, still, PostInv, GroupsInv, Rows

LEMMA RewriteKeeps ==
  ASSUME PostInv, NEW c \in Clients, Rewrite(c)
  PROVE  PostInv'
<1> DEFINE Written(m) == IF m.in = call[c].in /\ m.seq = call[c].arg
                         THEN [m EXCEPT !.text = IF call[c].op = "edit" THEN "edited" ELSE ""] ELSE m
<1>1. messages' = {Written(m) : m \in messages}
  BY DEF Rewrite
<1>2. \A m \in messages : /\ Written(m) \in Row /\ Written(m).in = m.in
                          /\ Written(m).seq = m.seq /\ Written(m).clientId = m.clientId
  BY DEF PostInv, Rows, Row
<1> HIDE DEF Written
<1>3. \A n \in messages' : \E m \in messages :
        n = Written(m) /\ n \in Row /\ n.in = m.in /\ n.seq = m.seq /\ n.clientId = m.clientId
  BY <1>1, <1>2
<1>4. Rows'
  <2>1. OneSeq(messages')
    BY <1>3 DEF OneSeq, PostInv, Rows
  <2>2. OneName(messages')
    BY <1>3 DEF OneName, PostInv, Rows
  <2> QED
    BY <1>3, <2>1, <2>2 DEF PostInv, Rows, Rewrite
<1>5. Alive'
  BY <1>3 DEF PostInv, Alive, Gone, Rewrite, still
<1>6. CallsOK' /\ Waits
  BY QuietAnswer DEF Rewrite
<1>7. Claims'
  <2>1. \A n \in messages' : \E m \in messages : n.in = m.in /\ n.seq = m.seq
    BY <1>3
  <2>a. UNCHANGED <<made, counter>>
    BY DEF Rewrite
  <2>2. UNCHANGED counter /\ made' \in 0 .. MaxRequests /\ made' >= made
    BY <2>a, ChatAssumption DEF PostInv, GroupsInv
  <2> QED
    BY <1>6, <2>1, <2>2, ClaimsKept
<1> QED
  BY <1>4, <1>5, <1>6, <1>7 DEF PostInv, GroupsInv, ChatTypeOK, Rewrite, still
-----------------------------------------------------------------------------
(* A post begins, takes a sequence and is stored.                          *)

\* A request that posts in t has a sequence in store for it.
LEMMA PostBegins ==
  ASSUME PostInv, NEW c \in Clients, NEW t \in Talks, NEW at \in {"identity", "lookup"}, NEW w \in Writers,
         Start(c, [Idle EXCEPT !.op = "post", !.at = at, !.in = t, !.arg = w]),
         UNCHANGED <<still, counter, messages, policy>>
  PROVE  PostInv'
<1> DEFINE r == [Idle EXCEPT !.op = "post", !.at = at, !.in = t, !.arg = w]
<1>1. r \in Calls /\ Carries(r) /\ r.at = at /\ r.in = t
  BY IdleIsCall, ArgsHold DEF Calls, Ops, Stages, Carries
<1>2. call' = [call EXCEPT ![c] = r] /\ made' = made + 1 /\ made < MaxRequests /\ made \in Nat
  BY ChatAssumption DEF Start, PostInv, GroupsInv
<1> HIDE DEF r
<1>3. CallsOK' /\ \A d \in Clients : call'[d] = IF d = c THEN r ELSE call[d]
  BY <1>1, <1>2, Replaced DEF PostInv, GroupsInv
<1>4. Fresh' /\ Apart'
  BY <1>1, <1>3 DEF PostInv, Claims, Fresh, Apart, Storing, Taken
<1>5. Counted'
  <2> SUFFICES ASSUME NEW u \in Talks PROVE counter'[u] + Cardinality(Due(u)') <= made'
    BY DEF Counted
  <2>1. Due(u)' \in SUBSET (Due(u) \cup {c})
    BY <1>3 DEF Due
  <2>2. IsFiniteSet(Due(u) \cup {c}) /\ Cardinality(Due(u) \cup {c}) <= Cardinality(Due(u)) + 1
    BY FS_AddElement, DueIsFinite
  <2>3. Cardinality(Due(u)') \in Nat /\ Cardinality(Due(u)') <= Cardinality(Due(u) \cup {c})
          /\ Cardinality(Due(u) \cup {c}) \in Nat
    BY <2>1, <2>2, FS_Subset, FS_CardinalityType
  <2>4. counter[u] + Cardinality(Due(u)) <= made /\ counter[u] \in Nat
    BY DEF PostInv, Claims, Counted, Rows
  <2> QED
    BY <1>2, <2>2, <2>3, <2>4, DueIsFinite
<1>6. made' \in 0 .. MaxRequests
  BY <1>2, ChatAssumption
<1> QED
  BY <1>3, <1>4, <1>5, <1>6 DEF PostInv, GroupsInv, ChatTypeOK, still, Rows, Alive, Gone, Claims

LEMMA PostStarts ==
  ASSUME PostInv, NEW c \in Clients, StartPost(c) \/ StartBotPost(c)
  PROVE  PostInv'
<1>1. CASE StartPost(c)
  <2>1. PICK t \in Talks, p \in People :
          Start(c, [Idle EXCEPT !.op = "post", !.at = "lookup", !.in = t, !.arg = p])
    BY <1>1 DEF StartPost, Active
  <2> QED
    BY <1>1, <2>1, PostBegins DEF StartPost, Writers
<1>2. CASE StartBotPost(c)
  <2>1. PICK t \in Talks : \E b \in policy[t] :
          Start(c, [Idle EXCEPT !.op = "post", !.at = "identity", !.in = t, !.arg = b])
    BY <1>2 DEF StartBotPost
  <2>2. PICK b \in Bots : Start(c, [Idle EXCEPT !.op = "post", !.at = "identity", !.in = t, !.arg = b])
    BY <2>1 DEF PostInv, Rows
  <2> QED
    BY <1>2, <2>2, PostBegins DEF StartBotPost, Writers
<1> QED
  BY <1>1, <1>2

LEMMA AppendThird ==
  ASSUME NEW S, NEW w \in S, NEW k \in S, NEW s \in S
  PROVE  Append(<<w, k>>, s) = <<w, k, s>>
<1> DEFINE a == Append(<<w, k>>, s)
           b == <<w, k, s>>
<1>1. <<w, k>> \in Seq(S) /\ Len(<<w, k>>) = 2
  OBVIOUS
<1>2. b \in Seq(S) /\ Len(b) = 3 /\ b[1] = w /\ b[2] = k /\ b[3] = s
  OBVIOUS
<1>3. a \in Seq(S) /\ Len(a) = 3 /\ a[1] = w /\ a[2] = k /\ a[3] = s
  BY <1>1
<1> HIDE DEF a, b
<1>4. \A i \in 1 .. Len(a) : a[i] = b[i]
  BY <1>2, <1>3
<1>5. a = b
  BY <1>2, <1>3, <1>4, SeqEqual
<1> QED
  BY <1>5 DEF a, b

LEMMA TakeSequenceKeeps ==
  ASSUME PostInv, NEW c \in Clients, TakeSequence(c)
  PROVE  PostInv'
<1>1. call[c] \in Calls /\ Carries(call[c]) /\ call[c].at = "sequence" /\ call[c].in \in Talks
  BY DEF PostInv, GroupsInv, CallsOK, TakeSequence, At, Calls
<1>2. CASE Gone(call[c].in)
  <2>1. Answer(c) /\ UNCHANGED counter
    BY <1>2 DEF TakeSequence
  <2> QED
    BY <2>1, QuietAnswer, Quiet, ChatAssumption DEF TakeSequence, PostInv, GroupsInv, Rows
<1>3. CASE ~Gone(call[c].in)
  <2> DEFINE t == call[c].in
             s == counter[t] + 1
             w == call[c].arg[1]
             k == call[c].arg[2]
             r == [call[c] EXCEPT !.at = "store", !.arg = <<w, k, s>>]
  <2>1. call[c].arg = <<w, k>> /\ w \in Writers /\ k \in Keys
    BY <1>1 DEF Carries
  <2>2. counter[t] \in Nat /\ s \in Nat
    BY <1>1 DEF PostInv, Rows
  <2>3. Append(call[c].arg, s) = <<w, k, s>>
    <3> HIDE DEF w, k, s
    <3>1. w \in Writers \cup Keys \cup Nat /\ k \in Writers \cup Keys \cup Nat /\ s \in Writers \cup Keys \cup Nat
      BY <2>1, <2>2
    <3>2. Append(<<w, k>>, s) = <<w, k, s>>
      BY <3>1, AppendThird
    <3> QED
      BY <2>1, <3>2
  <2>4. <<w, k, s>> \in Writers \X Keys \X Nat
    BY <2>1, <2>2
  <2>5. r \in Calls /\ r.at = "store" /\ r.in = t /\ r.arg = <<w, k, s>>
    BY <1>1, <2>4, ArgsHold DEF Calls, Stages
  <2>6. Carries(r)
    BY <2>4, <2>5 DEF Carries
  <2>7. counter' = [counter EXCEPT ![t] = s] /\ call' = [call EXCEPT ![c].at = "store", ![c].arg = Append(@, s)]
    BY <1>3 DEF TakeSequence, nextServerSequence
  <2>8. call' = [call EXCEPT ![c] = r]
    BY <2>3, <2>7 DEF PostInv, GroupsInv, CallsOK
  <2> HIDE DEF w, k, r
  <2>9. CallsOK' /\ \A d \in Clients : call'[d] = IF d = c THEN r ELSE call[d]
    BY <2>5, <2>6, <2>8, Replaced DEF PostInv, GroupsInv
  <2>10. counter' \in [Talks -> Nat] /\ \A u \in Talks : counter'[u] = IF u = t THEN s ELSE counter[u]
    BY <2>2, <2>7 DEF PostInv, Rows
  <2>11. Fresh'
    <3> SUFFICES ASSUME NEW d \in Clients, call'[d].at = "store"
                 PROVE  /\ call'[d].arg[3] \in 1 .. counter'[call'[d].in]
                        /\ \A m \in messages' : m.in = call'[d].in => m.seq # call'[d].arg[3]
      BY DEF Fresh, Storing, Taken
    <3>1. UNCHANGED messages
      BY DEF TakeSequence
    <3>2. CASE d = c
      <4>1. \A m \in messages : m.in = t => m.seq # s
        BY <2>2 DEF PostInv, Alive
      <4> QED
        BY <1>1, <2>2, <2>5, <2>9, <2>10, <3>1, <3>2, <4>1
    <3>3. CASE d # c
      <4>1. call'[d] = call[d] /\ call[d].in \in Talks
        BY <2>9, <3>3 DEF PostInv, GroupsInv, CallsOK, Calls
      <4>2. counter'[call[d].in] >= counter[call[d].in] /\ counter'[call[d].in] \in Nat /\ counter[call[d].in] \in Nat
        BY <2>2, <2>10, <4>1 DEF PostInv, Rows
      <4> QED
        BY <3>1, <4>1, <4>2 DEF PostInv, Claims, Fresh, Storing, Taken
    <3> QED
      BY <3>2, <3>3
  <2>12. Apart'
    <3>1. \A d \in Clients : Storing(d) /\ call[d].in = t => Taken(d) \in 1 .. counter[t]
      BY DEF PostInv, Claims, Fresh
    <3> QED
      BY <2>2, <2>5, <2>9, <3>1 DEF PostInv, Claims, Apart, Storing, Taken
  <2>13. Counted'
    <3> SUFFICES ASSUME NEW u \in Talks PROVE counter'[u] + Cardinality(Due(u)') <= made'
      BY DEF Counted
    <3>1. made' = made /\ made \in Nat /\ counter[u] \in Nat /\ counter[u] + Cardinality(Due(u)) <= made
      BY ChatAssumption DEF TakeSequence, PostInv, GroupsInv, Rows, Claims, Counted
    <3>2. Due(u)' = Due(u) \ {c}
      BY <2>5, <2>9 DEF Due
    <3>3. /\ Cardinality(Due(u) \ {c}) \in Nat
          /\ Cardinality(Due(u) \ {c}) = IF c \in Due(u) THEN Cardinality(Due(u)) - 1 ELSE Cardinality(Due(u))
      BY FS_RemoveElement, FS_CardinalityType, DueIsFinite
    <3>4. c \in Due(t)
      BY <1>1 DEF Due
    <3> QED
      BY <2>10, <3>1, <3>2, <3>3, <3>4, DueIsFinite
  <2>14. Alive'
    <3> SUFFICES ASSUME NEW m \in messages' PROVE ~Gone(m.in)' /\ m.seq \in 0 .. counter'[m.in]
      BY DEF Alive
    <3>1. UNCHANGED <<messages, talk>>
      BY DEF TakeSequence, still
    <3>2. m.in \in Talks /\ ~Gone(m.in) /\ m.seq \in 0 .. counter[m.in] /\ counter[m.in] \in Nat
      BY <3>1 DEF PostInv, Alive, Rows, Row
    <3>3. ~Gone(m.in)'
      BY <3>1, <3>2 DEF Gone
    <3> QED
      BY <2>2, <2>10, <3>2, <3>3
  <2> QED
    BY <2>9, <2>10, <2>11, <2>12, <2>13, <2>14 DEF PostInv, GroupsInv, ChatTypeOK, Rows, Claims, TakeSequence, still
<1> QED
  BY <1>2, <1>3

\* The row a request stores.
Stored(c) == [in |-> call[c].in, seq |-> Taken(c), clientId |-> call[c].arg[2],
              author |-> call[c].arg[1], text |-> "sent"]
IsStored(c) == ~Gone(call[c].in) /\ ~Refused(call[c].in, call[c].arg[2])

LEMMA StoreIsFresh ==
  ASSUME PostInv, NEW c \in Clients, Store(c), IsStored(c)
  PROVE  /\ Stored(c) \in Row /\ messages' = messages \cup {Stored(c)}
         /\ Stored(c).author \in Writers
         /\ Stored(c).seq \in 1 .. counter[Stored(c).in]
         /\ \A m \in messages : m.in = Stored(c).in =>
              m.seq # Stored(c).seq /\ (Stored(c).clientId # NoId => m.clientId # Stored(c).clientId)
<1>1. call[c] \in Calls /\ Carries(call[c]) /\ call[c].at = "store" /\ call[c].in \in Talks
  BY DEF PostInv, GroupsInv, CallsOK, Store, At, Calls
<1>2. call[c].arg \in Writers \X Keys \X Nat
  BY <1>1 DEF Carries
<1>3. Stored(c) \in Row /\ Stored(c).author \in Writers
  BY <1>1, <1>2 DEF Stored, Row, Taken
<1>4. messages' = messages \cup {Stored(c)}
  BY DEF Store, IsStored, Stored, Taken, Unused
<1>5. /\ Taken(c) \in 1 .. counter[call[c].in]
      /\ \A m \in messages : m.in = call[c].in => m.seq # Taken(c)
  BY <1>1 DEF PostInv, Claims, Fresh, Storing
<1> QED
  BY <1>3, <1>4, <1>5 DEF Stored, IsStored, Refused, In

LEMMA StoreKeeps ==
  ASSUME PostInv, NEW c \in Clients, Store(c)
  PROVE  PostInv'
<1>1. CallsOK' /\ Waits
  BY QuietAnswer DEF Store
<1>2. made' = made /\ made' \in 0 .. MaxRequests /\ made' >= made /\ UNCHANGED <<still, counter, policy>>
  BY ChatAssumption DEF Store, Unused, PostInv, GroupsInv
<1>3. CASE ~IsStored(c)
  <2>1. UNCHANGED messages
    BY <1>3 DEF Store, IsStored
  <2> QED
    BY <1>1, <1>2, <2>1, Quiet DEF PostInv, Rows
<1>4. CASE IsStored(c)
  <2> DEFINE n == Stored(c)
  <2>1. /\ n \in Row /\ messages' = messages \cup {n} /\ n.seq \in 1 .. counter[n.in] /\ n.in = call[c].in
        /\ n.seq = Taken(c)
        /\ \A m \in messages : m.in = n.in => m.seq # n.seq /\ (n.clientId # NoId => m.clientId # n.clientId)
    BY <1>4, StoreIsFresh DEF Stored
  <2> HIDE DEF n
  <2>2. call[c].at = "store" /\ \A d \in Clients : call'[d] = IF d = c THEN Idle ELSE call[d]
    BY DEF Store, At, Answer, PostInv, GroupsInv, CallsOK
  <2>3. OneSeq(messages') /\ OneName(messages')
    BY <2>1 DEF OneSeq, OneName, PostInv, Rows
  <2>4. Alive'
    BY <1>2, <1>4, <2>1 DEF PostInv, Alive, Gone, still, IsStored
  <2>5. Fresh'
    <3> SUFFICES ASSUME NEW d \in Clients, call'[d].at = "store"
                 PROVE  /\ call'[d].arg[3] \in 1 .. counter'[call'[d].in]
                        /\ \A m \in messages' : m.in = call'[d].in => m.seq # call'[d].arg[3]
      BY DEF Fresh, Storing, Taken
    <3>1. d # c /\ call'[d] = call[d] /\ call[d].at = "store"
      BY <2>2, IdleIsCall
    <3>2. /\ Taken(d) \in 1 .. counter[call[d].in]
          /\ \A m \in messages : m.in = call[d].in => m.seq # Taken(d)
          /\ call[d].in = call[c].in => Taken(d) # Taken(c)
      BY <2>2, <3>1 DEF PostInv, Claims, Fresh, Apart, Storing
    <3> QED
      BY <1>2, <2>1, <3>1, <3>2 DEF Taken
  <2>6. Apart'
    BY <2>2, IdleIsCall DEF PostInv, Claims, Apart, Storing, Taken
  <2>7. Counted'
    <3> SUFFICES ASSUME NEW t \in Talks PROVE counter'[t] + Cardinality(Due(t)') <= made'
      BY DEF Counted
    <3>1. Due(t)' = Due(t)
      BY <2>2, IdleIsCall DEF Due
    <3> QED
      BY <1>2, <3>1 DEF PostInv, Claims, Counted
  <2> QED
    BY <1>1, <1>2, <2>1, <2>3, <2>4, <2>5, <2>6, <2>7
      DEF PostInv, GroupsInv, ChatTypeOK, still, Rows, Claims
<1> QED
  BY <1>3, <1>4
-----------------------------------------------------------------------------
LEMMA PostNext == PostInv /\ [MessagesNext]_xvars => PostInv'
<1> SUFFICES ASSUME PostInv, [MessagesNext]_xvars PROVE PostInv'
  OBVIOUS
<1>1. ASSUME NEW c \in Clients, Post(c) PROVE PostInv'
  BY <1>1, PostStarts, ReadIdentityKeeps, LookupKeeps, TakeSequenceKeeps, StoreKeeps,
     RewriteStarts, RewriteKeeps, OthersKeep DEF Post
<1>2. ASSUME NEW b \in Bots, Silence(b) PROVE PostInv'
  BY <1>2, SilenceKeeps
<1>3. CASE ChatNext /\ Cascade
  BY <1>3, GroupsStep
<1>4. CASE UNCHANGED xvars
  BY <1>4, NoCallMoves, Quiet, ChatAssumption DEF xvars, gvars, still, PostInv, GroupsInv, Rows
<1> QED
  BY <1>1, <1>2, <1>3, <1>4 DEF MessagesNext

LEMMA PostAlways == MessagesSpec => []PostInv
  BY PostInit, PostNext, PTL DEF MessagesSpec

\* A message's conversation exists for as long as the message does and has counted
\* its sequence, but for the 0 of the message a group begins with (nextServerSequence,
\* POST /groups, onDelete of ChatMessage.conversation).
THEOREM MessagesStayTyped == MessagesSpec => []MessagesTypeOK
<1>1. PostInv => MessagesTypeOK
  BY DEF PostInv, GroupsInv, Rows, Row, Alive, Writers, MessagesTypeOK
<1> QED
  BY <1>1, PostAlways, PTL

\* Only a request that draws a sequence is about to store, and it draws one
\* beyond all there are.
LEMMA DrawsTheNext ==
  ASSUME PostInv, [MessagesNext]_xvars, NEW c \in Clients, At(c, "sequence"), call'[c].at = "store"
  PROVE  TakeSequence(c)
<1>1. ASSUME NEW d \in Clients, d # c, NEW x, call' = [call EXCEPT ![d] = x] PROVE FALSE
  BY <1>1 DEF At, PostInv, GroupsInv, CallsOK
<1>2. ASSUME NEW x, call' = [call EXCEPT ![c] = x], x.at # "store" PROVE FALSE
  BY <1>2 DEF PostInv, GroupsInv, CallsOK
<1>3. call' # call
  BY DEF At
<1>4. ~ChatNext
  BY ChatSteady DEF At, PostInv, Steady, CallsGoOn, PostStages
<1>5. PICK d \in Clients : Post(d)
  BY <1>3, <1>4 DEF MessagesNext, Silence, xvars, gvars
<1>6. \E x : call' = [call EXCEPT ![d] = x]
  BY <1>3, <1>5 DEF Post, StartPost, StartBotPost, ReadIdentity, Lookup, TakeSequence, Store, StartRewrite,
                    Rewrite, Read, SetPolicy, Reads, Start, Answer, GoTo
<1>7. d = c
  BY <1>1, <1>6
<1>8. \A x : call' = [call EXCEPT ![c] = x] => call'[c] = x
  BY DEF PostInv, GroupsInv, CallsOK
<1>9. Answer(c) => FALSE
  BY <1>2, IdleIsCall DEF Answer
<1>10. ~StartPost(c) /\ ~StartBotPost(c) /\ ~StartRewrite(c) /\ ~Reads(c, "policy", "policy")
  <2>1. ASSUME StartPost(c) PROVE FALSE
    <3>1. PICK t, p : call' = [call EXCEPT ![c] = [Idle EXCEPT !.op = "post", !.at = "lookup", !.in = t, !.arg = p]]
      BY <2>1 DEF StartPost, Start
    <3>2. call'[c] = [Idle EXCEPT !.op = "post", !.at = "lookup", !.in = t, !.arg = p]
      BY <1>8, <3>1
    <3> QED
      BY <3>2, IdleIsCall DEF Calls
  <2>2. ASSUME StartBotPost(c) PROVE FALSE
    <3>1. PICK t, b : call' = [call EXCEPT ![c] = [Idle EXCEPT !.op = "post", !.at = "identity", !.in = t, !.arg = b]]
      BY <2>2 DEF StartBotPost, Start
    <3>2. call'[c] = [Idle EXCEPT !.op = "post", !.at = "identity", !.in = t, !.arg = b]
      BY <1>8, <3>1
    <3> QED
      BY <3>2, IdleIsCall DEF Calls
  <2>3. ASSUME StartRewrite(c) PROVE FALSE
    <3>1. PICK m, op : call' = [call EXCEPT ![c] = [Idle EXCEPT !.op = op, !.at = "rewrite", !.in = m.in, !.arg = m.seq]]
      BY <2>3 DEF StartRewrite, Start
    <3>2. call'[c] = [Idle EXCEPT !.op = op, !.at = "rewrite", !.in = m.in, !.arg = m.seq]
      BY <1>8, <3>1
    <3> QED
      BY <3>2, IdleIsCall DEF Calls
  <2>4. ASSUME Reads(c, "policy", "policy") PROVE FALSE
    <3>1. PICK p, t : call' = [call EXCEPT ![c] = [Idle EXCEPT !.op = "policy", !.at = "policy", !.who = p,
                                                                 !.in = t, !.seen = talk[t].members]]
      BY <2>4 DEF Reads, Start
    <3>2. call'[c] = [Idle EXCEPT !.op = "policy", !.at = "policy", !.who = p,
                                                                 !.in = t, !.seen = talk[t].members]
      BY <1>8, <3>1
    <3> QED
      BY <3>2, IdleIsCall DEF Calls
  <2> QED
    BY <2>1, <2>2, <2>3, <2>4
<1> QED
  BY <1>3, <1>5, <1>7, <1>9, <1>10 DEF Post, At, ReadIdentity, Lookup, Store, Rewrite, Read, SetPolicy

\* A post comes after all that was there when it drew its sequence, in every
\* conversation and with any number of posts under way (nextServerSequence,
\* src/src/modules/chat/router.ts).
THEOREM PostsComeInOrder == MessagesSpec => LaterPostsComeLater
<1>1. PostInv /\ [MessagesNext]_xvars =>
        \A c \in Clients : At(c, "sequence") /\ call'[c].at = "store" =>
          \A m \in In(call[c].in) : m.seq < call'[c].arg[3]
  <2> SUFFICES ASSUME PostInv, [MessagesNext]_xvars, NEW c \in Clients, At(c, "sequence"),
                      call'[c].at = "store", NEW m \in In(call[c].in)
               PROVE  m.seq < call'[c].arg[3]
    OBVIOUS
  <2>1. TakeSequence(c) /\ call[c] \in Calls /\ Carries(call[c]) /\ call[c].at = "sequence"
    BY DrawsTheNext DEF At, PostInv, GroupsInv, CallsOK
  <2>2. PICK w \in Writers, k \in Keys : call[c].arg = <<w, k>>
    BY <2>1 DEF Carries
  <2> DEFINE s == counter[call[c].in] + 1
  <2>3. ~Answer(c)
    BY IdleIsCall DEF Answer, PostInv, GroupsInv, CallsOK
  <2>4. call'[c].arg = Append(<<w, k>>, s)
    BY <2>1, <2>2, <2>3 DEF TakeSequence, nextServerSequence, PostInv, GroupsInv, CallsOK, Calls
  <2>5. call'[c].arg[3] = s
    BY <2>4, AppendThird
  <2>6. m.seq \in 0 .. counter[call[c].in] /\ counter[call[c].in] \in Nat
    BY <2>1 DEF In, PostInv, Alive, Rows, Calls
  <2> QED
    BY <2>5, <2>6
<1> QED
  BY <1>1, PostAlways, PTL DEF MessagesSpec, LaterPostsComeLater

-----------------------------------------------------------------------------
(* The log of a conversation, as a function of the messages.               *)

Of(ms, t) == {m \in ms : m.in = t}
Entry(m) == <<m.author, Named(m.clientId)>>
LogFrom(ms, t) == [s \in {m.seq : m \in Of(ms, t)} |-> LET m == CHOOSE x \in Of(ms, t) : x.seq = s IN Entry(m)]

LEMMA LogIsFrom == \A t \in Talks : LogOf(t) = LogFrom(messages, t)
  BY DEF LogOf, LogFrom, In, Of, Entry

LEMMA LogEntries ==
  ASSUME NEW ms, OneSeq(ms), NEW t
  PROVE  /\ \A s : s \in DOMAIN LogFrom(ms, t) <=> \E m \in Of(ms, t) : s = m.seq
         /\ \A m \in Of(ms, t) : LogFrom(ms, t)[m.seq] = Entry(m)
<1>1. \A s : s \in DOMAIN LogFrom(ms, t) <=> \E m \in Of(ms, t) : s = m.seq
  BY DEF LogFrom
<1>2. ASSUME NEW m \in Of(ms, t) PROVE LogFrom(ms, t)[m.seq] = Entry(m)
  <2>1. \A x \in Of(ms, t) : x.seq = m.seq => x = m
    BY DEF Of, OneSeq
  <2>2. (CHOOSE x \in Of(ms, t) : x.seq = m.seq) = m
    BY <2>1
  <2> QED
    BY <2>2 DEF LogFrom
<1> QED
  BY <1>1, <1>2

LEMMA LogsEqual ==
  ASSUME NEW ms, NEW ns, OneSeq(ms), OneSeq(ns), NEW t,
         \A m \in Of(ms, t) : \E n \in Of(ns, t) : n.seq = m.seq /\ Entry(n) = Entry(m),
         \A n \in Of(ns, t) : \E m \in Of(ms, t) : n.seq = m.seq
  PROVE  LogFrom(ns, t) = LogFrom(ms, t)
<1> DEFINE L == LogFrom(ms, t)
           N == LogFrom(ns, t)
<1>1. (\A s : s \in DOMAIN L <=> \E m \in Of(ms, t) : s = m.seq) /\ \A m \in Of(ms, t) : L[m.seq] = Entry(m)
  BY LogEntries
<1>a. (\A s : s \in DOMAIN N <=> \E n \in Of(ns, t) : s = n.seq) /\ \A n \in Of(ns, t) : N[n.seq] = Entry(n)
  BY LogEntries
<1>4. L = [s \in DOMAIN L |-> L[s]] /\ N = [s \in DOMAIN N |-> N[s]]
  BY DEF LogFrom
<1> HIDE DEF L, N
<1>2. DOMAIN L = DOMAIN N
  <2>1. \A s : s \in DOMAIN L <=> s \in DOMAIN N
    BY <1>1, <1>a
  <2> QED
    BY <2>1
<1>3. \A s \in DOMAIN L : N[s] = L[s]
  <2> SUFFICES ASSUME NEW m \in Of(ms, t) PROVE N[m.seq] = L[m.seq]
    BY <1>1
  <2>1. PICK n \in Of(ns, t) : n.seq = m.seq /\ Entry(n) = Entry(m)
    OBVIOUS
  <2>2. L[m.seq] = Entry(m) /\ N[n.seq] = Entry(n)
    BY <1>1, <1>a
  <2> QED
    BY <2>1, <2>2
<1>5. L = N
  BY <1>2, <1>3, <1>4
<1> QED
  BY <1>5 DEF L, N

LEMMA LogEmpty ==
  ASSUME NEW ms, NEW t, Of(ms, t) = {}
  PROVE  LogFrom(ms, t) = <<>>
<1>1. {m.seq : m \in Of(ms, t)} = {}
  OBVIOUS
<1> QED
  BY <1>1 DEF LogFrom
-----------------------------------------------------------------------------
(* Every step is one of the log, or leaves it alone.                       *)

Logs == [t \in Talks |-> LogOf(t)]

LEMMA LogsAre ==
  /\ Logs = [t \in Talks |-> LogFrom(messages, t)]
  /\ Logs' = [t \in Talks |-> LogFrom(messages', t)]
  BY DEF Logs, LogOf, LogFrom, In, Of, Entry

LEMMA LogOpened ==
  ASSUME NEW ms, NEW t, Of(ms, t) = {Announcement(t)}
  PROVE  LogFrom(ms, t) = Log!Opened
<1>1. {m.seq : m \in Of(ms, t)} = {0}
  BY DEF Announcement
<1>2. (CHOOSE x \in Of(ms, t) : x.seq = 0) = Announcement(t)
  BY DEF Announcement
<1>3. Entry(Announcement(t)) = <<"system", "unnamed">>
  BY DEF Entry, Announcement, Named
<1> QED
  BY <1>1, <1>2, <1>3 DEF LogFrom, Log!Opened, Log!Unnamed

LEMMA LogStarts == MessagesInit => Logs \in [Talks -> {<<>>, Log!Opened}]
<1> SUFFICES ASSUME MessagesInit, NEW t \in Talks PROVE LogFrom(messages, t) \in {<<>>, Log!Opened}
  BY LogsAre
<1>1. \/ Of(messages, t) = {} \/ Of(messages, t) = {Announcement(t)}
  <2>1. \A m \in Of(messages, t) : m = Announcement(t)
    BY AnnouncementIsRow DEF MessagesInit, Of
  <2> QED
    BY <2>1
<1> QED
  BY <1>1, LogEmpty, LogOpened

LEMMA StoreIsPost ==
  ASSUME PostInv, PostInv', NEW c \in Clients, Store(c), IsStored(c)
  PROVE  Log!Next
<1> DEFINE x == Stored(c)
           t == call[c].in
<1>1. /\ x \in Row /\ x.author \in Writers /\ messages' = messages \cup {x} /\ x.seq \in 1 .. counter[x.in] /\ x.in = t /\ t \in Talks
      /\ \A m \in messages : m.in = x.in => m.seq # x.seq /\ (x.clientId # NoId => m.clientId # x.clientId)
  BY StoreIsFresh DEF Stored, Row
<1> HIDE DEF x, t
<1>2. x.seq \in 1 .. MaxRequests
  <2>1. counter[t] + Cardinality(Due(t)) <= made /\ counter[t] \in Nat /\ made \in 0 .. MaxRequests
    BY <1>1 DEF PostInv, GroupsInv, Rows, Claims, Counted
  <2> QED
    BY <1>1, <2>1, DueIsFinite, ChatAssumption
<1>3. OneSeq(messages) /\ OneSeq(messages')
  BY DEF PostInv, Rows
<1>4. /\ \A s : s \in DOMAIN LogFrom(messages, t) <=> \E m \in Of(messages, t) : s = m.seq
      /\ \A m \in Of(messages, t) : LogFrom(messages, t)[m.seq] = Entry(m)
  BY <1>3, LogEntries
<1>5. x.seq \notin DOMAIN LogFrom(messages, t)
  BY <1>1, <1>4 DEF Of
<1>6. Named(x.clientId) # "unnamed" =>
        \A s \in DOMAIN LogFrom(messages, t) : LogFrom(messages, t)[s][2] # Named(x.clientId)
  <2> SUFFICES ASSUME Named(x.clientId) # "unnamed", NEW m \in Of(messages, t)
               PROVE  Entry(m)[2] # Named(x.clientId)
    BY <1>4
  <2>1. x.clientId # NoId /\ Named(x.clientId) = x.clientId
    BY DEF Named
  <2>2. m.clientId # x.clientId
    BY <1>1, <2>1 DEF Of
  <2> QED
    BY <2>1, <2>2 DEF Entry, Named
<1>7. LogFrom(messages', t) = [s \in DOMAIN LogFrom(messages, t) \cup {x.seq} |->
                                 IF s = x.seq THEN Entry(x) ELSE LogFrom(messages, t)[s]]
  <2> DEFINE L == LogFrom(messages, t)
             N == LogFrom(messages', t)
  <2>1. Of(messages', t) = Of(messages, t) \cup {x} /\ \A m \in Of(messages, t) : m.seq # x.seq
    BY <1>1 DEF Of
  <2>2. /\ \A s : s \in DOMAIN N <=> \E m \in Of(messages', t) : s = m.seq
        /\ \A m \in Of(messages', t) : N[m.seq] = Entry(m)
    BY <1>3, LogEntries
  <2>3. N = [s \in DOMAIN N |-> N[s]]
    BY DEF LogFrom
  <2>4. /\ \A s : s \in DOMAIN L <=> \E m \in Of(messages, t) : s = m.seq
        /\ \A m \in Of(messages, t) : L[m.seq] = Entry(m)
    BY <1>4
  <2> HIDE DEF L, N
  <2>5. \A s : s \in DOMAIN N <=> s \in DOMAIN L \cup {x.seq}
    BY <2>1, <2>2, <2>4
  <2>6. N[x.seq] = Entry(x) /\ \A s \in DOMAIN L : N[s] = L[s] /\ s # x.seq
    BY <2>1, <2>2, <2>4
  <2>7. DOMAIN N = DOMAIN L \cup {x.seq}
    BY <2>5
  <2>8. N = [s \in DOMAIN L \cup {x.seq} |-> IF s = x.seq THEN Entry(x) ELSE L[s]]
    BY <2>3, <2>6, <2>7
  <2> QED
    BY <2>8 DEF L, N
<1>8. \A u \in Talks : u # t => LogFrom(messages', u) = LogFrom(messages, u)
  <2> SUFFICES ASSUME NEW u \in Talks, u # t PROVE LogFrom(messages', u) = LogFrom(messages, u)
    OBVIOUS
  <2>1. Of(messages', u) = Of(messages, u)
    BY <1>1 DEF Of
  <2> QED
    BY <2>1 DEF LogFrom
<1>9. Logs' = [Logs EXCEPT ![t] = [s \in DOMAIN @ \cup {x.seq} |->
                                     IF s = x.seq THEN <<x.author, Named(x.clientId)>> ELSE @[s]]]
  BY <1>1, <1>7, <1>8, LogsAre DEF Entry
<1>10. x.author \in People \cup Bots /\ Named(x.clientId) \in ClientIds \cup {"unnamed"}
  BY <1>1 DEF Row, Writers, Keys, Named
<1>11. Log!Post(t, x.seq, x.author, Named(x.clientId))
  BY <1>1, <1>5, <1>6, <1>9, LogsAre DEF Log!Post, Log!Unnamed, Logs
<1> QED
  BY <1>1, <1>2, <1>10, <1>11 DEF Log!Next

LEMMA GroupsClear ==
  ASSUME PostInv, PostInv', ChatNext, Cascade
  PROVE  Log!Next
<1> DEFINE ts == {t \in Talks : talk'[t].kind = "gone"}
<1>0. /\ \A m : (m \in messages') <=> ((m \in messages /\ talk'[m.in].kind # "gone")
                                         \/ \E t \in Begun : m = Announcement(t))
      /\ Begun \subseteq Talks /\ \A t \in Begun : t \notin ts
  BY DEF Cascade, Begun
<1>a. \A t \in Begun : Of(messages, t) = {}
  BY DEF Begun, Of, PostInv, Alive, Gone
<1>1. \A t \in Talks : LogFrom(messages', t) = IF t \in ts THEN <<>>
                                               ELSE IF t \in Begun THEN Log!Opened ELSE LogFrom(messages, t)
  <2> SUFFICES ASSUME NEW t \in Talks
               PROVE  LogFrom(messages', t) = IF t \in ts THEN <<>>
                                              ELSE IF t \in Begun THEN Log!Opened ELSE LogFrom(messages, t)
    OBVIOUS
  <2>1. CASE t \in ts
    <3>1. Of(messages', t) = {}
      BY <1>0, <2>1, AnnouncementIsRow DEF Of
    <3> QED
      BY <2>1, <3>1, LogEmpty
  <2>2. CASE t \in Begun
    <3>1. Of(messages', t) = {Announcement(t)}
      BY <1>0, <1>a, <2>2, AnnouncementIsRow DEF Of
    <3> QED
      BY <1>0, <2>2, <3>1, LogOpened
  <2>3. CASE t \notin ts /\ t \notin Begun
    <3>1. Of(messages', t) = Of(messages, t)
      BY <1>0, <2>3, AnnouncementIsRow DEF Of
    <3> QED
      BY <2>3, <3>1 DEF LogFrom
  <2> QED
    BY <2>1, <2>2, <2>3
<1>b. \A t \in Begun : LogFrom(messages, t) = <<>>
  BY <1>a, LogEmpty
<1> HIDE DEF ts
<1>2. Logs' = [t \in Talks |-> IF t \in ts THEN <<>> ELSE IF t \in Begun THEN Log!Opened ELSE Logs[t]]
  BY <1>1, LogsAre
<1>3. ts \in SUBSET Talks /\ Begun \in SUBSET Talks /\ \A t \in Begun : Logs[t] = <<>>
  BY <1>0, <1>b, LogsAre DEF ts
<1> QED
  BY <1>2, <1>3 DEF Log!Next, Log!Turn, Logs

LEMMA RewriteKeepsLog ==
  ASSUME PostInv, PostInv', NEW c \in Clients, Rewrite(c)
  PROVE  UNCHANGED Logs
<1> DEFINE Written(m) == IF m.in = call[c].in /\ m.seq = call[c].arg
                         THEN [m EXCEPT !.text = IF call[c].op = "edit" THEN "edited" ELSE ""] ELSE m
<1>1. messages' = {Written(m) : m \in messages}
  BY DEF Rewrite
<1>2. \A m \in messages : /\ Written(m).in = m.in /\ Written(m).seq = m.seq
                          /\ Written(m).author = m.author /\ Written(m).clientId = m.clientId
  BY DEF PostInv, Rows, Row
<1> HIDE DEF Written
<1>3. OneSeq(messages) /\ OneSeq(messages')
  BY DEF PostInv, Rows
<1>4. ASSUME NEW t \in Talks PROVE LogFrom(messages', t) = LogFrom(messages, t)
  <2>1. \A m \in Of(messages, t) : \E n \in Of(messages', t) : n.seq = m.seq /\ Entry(n) = Entry(m)
    BY <1>1, <1>2 DEF Of, Entry
  <2>2. \A n \in Of(messages', t) : \E m \in Of(messages, t) : n.seq = m.seq
    BY <1>1, <1>2 DEF Of
  <2> QED
    BY <1>3, <2>1, <2>2, LogsEqual
<1> QED
  BY <1>4, LogsAre

LEMMA StepIsLogged ==
  PostInv /\ PostInv' /\ [MessagesNext]_xvars => [Log!Next]_Logs
<1> SUFFICES ASSUME PostInv, PostInv', [MessagesNext]_xvars PROVE Log!Next \/ UNCHANGED Logs
  OBVIOUS
<1>1. UNCHANGED messages => UNCHANGED Logs
  BY LogsAre
<1>2. ASSUME NEW c \in Clients, Post(c) PROVE Log!Next \/ UNCHANGED Logs
  <2>1. CASE Store(c)
    <3>1. ~IsStored(c) => UNCHANGED messages
      BY <2>1 DEF Store, IsStored
    <3> QED
      BY <1>1, <2>1, <3>1, StoreIsPost
  <2>2. CASE Rewrite(c)
    BY <2>2, RewriteKeepsLog
  <2>3. CASE ~Store(c) /\ ~Rewrite(c)
    <3>1. UNCHANGED messages
      BY <1>2, <2>3 DEF Post, StartPost, StartBotPost, ReadIdentity, Lookup, TakeSequence, StartRewrite, Read, SetPolicy
    <3> QED
      BY <1>1, <3>1
  <2> QED
    BY <2>1, <2>2, <2>3
<1>3. ASSUME NEW b \in Bots, Silence(b) PROVE UNCHANGED Logs
  BY <1>1, <1>3 DEF Silence
<1>4. CASE ChatNext /\ Cascade
  BY <1>4, GroupsClear
<1>5. CASE UNCHANGED xvars
  BY <1>1, <1>5 DEF xvars
<1> QED
  BY <1>2, <1>3, <1>4, <1>5 DEF MessagesNext

\* Posting implements the log of MessageLog: a place for each message, one
\* message for each id a client names, until the conversation ends.
THEOREM PostingIsALog == MessagesSpec => MessagesAreALog
<1>1. MessagesInit => Log!Init
  BY LogStarts DEF Log!Init, Logs
<1>2. MessagesSpec => [][Log!Next]_Logs
  BY PostAlways, StepIsLogged, PTL DEF MessagesSpec
<1> QED
  BY <1>1, <1>2, PTL DEF MessagesAreALog, MessagesSpec, Log!Spec, Logs

-----------------------------------------------------------------------------
(* A group keeps a manager: a conversation with none has a request that    *)
(* will make one, or delete it.                                            *)

Managed(t) == \E p \in People : Manages(talk[t].members, p)
\* The request c will look at t again, or knows that nobody is left in it, or
\* is about to make one of its active members an admin.
Helps(c, t) ==
  LET r == call[c] IN
  /\ r.in = t
  /\ \/ r.at \in {"reread", "empty"}
     \/ /\ r.at = "promote" /\ Active(r.seen) # {}
        /\ Active(r.seen) \subseteq Active(talk[t].members)
Kept(t) == Gone(t) \/ t \in meddled \/ Managed(t) \/ \E c \in Clients : Helps(c, t)
Busy == \A c \in Clients : call[c].op = "none" => call[c].at = "idle"
GroupsKept == Busy /\ \A t \in Talks : Kept(t)
KeeperInv == GroupsInv /\ GroupsKept

\* What a step may do to t: end it, write a row of an active member, leave it a
\* manager, or take nobody's membership or role away.
Milder(t) ==
  /\ talk'[t].kind = talk[t].kind
  /\ Active(talk[t].members) \subseteq Active(talk'[t].members)
  /\ \A p \in People : Manages(talk[t].members, p) => Manages(talk'[t].members, p)
Harmless(t) == Gone(t)' \/ t \in meddled' \/ Managed(t)' \/ Milder(t)
\* No other request moves.
Alone(c) == \A d \in Clients : d # c => call'[d] = call[d]
Helping == {"reread", "promote", "empty"}

\* A step that is harmless to t, of a request that was not about to help it,
\* leaves t kept.
LEMMA HarmlessKeeps ==
  ASSUME NEW c \in Clients, NEW t \in Talks, Kept(t), Alone(c), Harmless(t),
         meddled \subseteq meddled', call[c].in # t \/ call[c].at \notin Helping
  PROVE  Kept(t)'
<1>1. CASE Gone(t)' \/ t \in meddled' \/ Managed(t)'
  BY <1>1 DEF Kept
<1>2. CASE Milder(t)
  <2>1. Gone(t) => Gone(t)'
    BY <1>2 DEF Milder, Gone
  <2>2. Managed(t) => Managed(t)'
    BY <1>2 DEF Milder, Managed
  <2>3. ASSUME NEW d \in Clients, Helps(d, t) PROVE Helps(d, t)'
    <3>1. d # c /\ call'[d] = call[d]
      BY <2>3 DEF Helps, Helping, Alone
    <3> QED
      BY <1>2, <2>3, <3>1 DEF Helps, Milder
  <2> QED
    BY <2>1, <2>2, <2>3 DEF Kept
<1> QED
  BY <1>1, <1>2 DEF Harmless

LEMMA UntouchedIsMilder ==
  ASSUME NEW t, talk'[t] = talk[t]
  PROVE  Milder(t)
  BY DEF Milder

\* A request that answers, or goes on with its operation, is idle only with none.
LEMMA BusyStays ==
  ASSUME CallsOK, Busy, NEW c \in Clients, NEW r, call' = [call EXCEPT ![c] = r],
         r.op = "none" => r.at = "idle"
  PROVE  Busy' /\ Alone(c)
  BY DEF CallsOK, Busy, Alone

\* An update of a member's row that takes nothing from an active member.
LEMMA SetIsHarmless ==
  ASSUME talk \in [Talks -> Talk], NEW t \in Talks, NEW p \in People, NEW m \in Member, Set(t, p, m),
         p \in Active(talk[t].members) =>
           m.status = "active" /\ (talk[t].members[p].role \in {"owner", "admin"} => m.role \in {"owner", "admin"})
  PROVE  \A u \in Talks : Milder(u)
<1>1. talk[t].members \in [People -> Member]
  BY DEF Talk
<1>2. \A u \in Talks : talk'[u].kind = talk[u].kind
  BY DEF Set, Talk
<1>3. \A u \in Talks : u # t => talk'[u] = talk[u]
  BY DEF Set
<1>4. talk'[t].members = [talk[t].members EXCEPT ![p] = m]
  BY DEF Set, Talk
<1>5. Milder(t)
  BY <1>1, <1>2, <1>4 DEF Milder, Active, Manages
<1> QED
  BY <1>3, <1>5, UntouchedIsMilder

-----------------------------------------------------------------------------
(* A request is idle exactly when it has no operation, and moves alone.    *)

LEMMA StartsBusy ==
  ASSUME CallsOK, Busy, NEW c \in Clients, NEW r \in Calls, r.op # "none", Start(c, r)
  PROVE  Busy' /\ Alone(c) /\ call[c].at = "idle"
<1>1. call' = [call EXCEPT ![c] = r] /\ call[c].op = "none"
  BY DEF Start
<1> QED
  BY <1>1, BusyStays DEF Busy

LEMMA AnswersBusy ==
  ASSUME CallsOK, Busy, NEW c \in Clients, Answer(c)
  PROVE  Busy' /\ Alone(c)
  BY BusyStays, IdleIsCall DEF Answer

LEMMA GoesOnBusy ==
  ASSUME Busy, NEW c \in Clients, Alone(c), call[c].at # "idle", call'[c].op = call[c].op
  PROVE  Busy'
  BY DEF Busy, Alone

LEMMA ReadsBusy ==
  ASSUME GroupsInv, Busy, NEW c \in Clients, NEW op \in Ops \ {"none"}, NEW at \in Stages, Reads(c, op, at)
  PROVE  Busy' /\ Alone(c) /\ call[c].at = "idle"
<1>1. PICK p \in People, t \in Talks :
        Start(c, [Idle EXCEPT !.op = op, !.at = at, !.who = p, !.in = t, !.seen = talk[t].members])
  BY DEF Reads
<1> DEFINE r == [Idle EXCEPT !.op = op, !.at = at, !.who = p, !.in = t, !.seen = talk[t].members]
<1>2. r \in Calls /\ r.op # "none"
  BY IdleIsCall DEF Calls, GroupsInv, ChatTypeOK, Talk
<1> QED
  BY <1>1, <1>2, StartsBusy DEF GroupsInv

LEMMA BeginBusy ==
  ASSUME GroupsInv, Busy, NEW c \in Clients, Begin(c)
  PROVE  Busy' /\ Alone(c) /\ call[c].at = "idle" /\ UNCHANGED <<talk, meddled>>
<1> USE DEF GroupsInv
<1>1. CASE FindDirect(c)
  <2>1. PICK p \in People, q \in People :
          Start(c, [Idle EXCEPT !.op = "dm", !.at = "direct", !.who = p, !.arg = q])
    BY <1>1 DEF FindDirect
  <2>2. [Idle EXCEPT !.op = "dm", !.at = "direct", !.who = p, !.arg = q] \in Calls
    BY IdleIsCall, ArgsHold DEF Calls, Ops, Stages
  <2> QED
    BY <1>1, <2>1, <2>2, StartsBusy, IdleIsCall DEF FindDirect, Calls
<1>2. CASE FindInvitees(c)
  <2>1. PICK p \in People, invitees \in SUBSET People :
          Start(c, [Idle EXCEPT !.op = "group", !.at = "group", !.who = p, !.arg = invitees])
    BY <1>2 DEF FindInvitees
  <2>2. [Idle EXCEPT !.op = "group", !.at = "group", !.who = p, !.arg = invitees] \in Calls
    BY IdleIsCall, ArgsHold DEF Calls, Ops, Stages
  <2> QED
    BY <1>2, <2>1, <2>2, StartsBusy, IdleIsCall DEF FindInvitees, Calls
<1>3. CASE FindScope(c)
  <2>1. PICK ts \in SUBSET Talks : Start(c, [Idle EXCEPT !.op = "reset", !.at = "reset", !.arg = ts])
    BY <1>3 DEF FindScope
  <2>2. [Idle EXCEPT !.op = "reset", !.at = "reset", !.arg = ts] \in Calls
    BY IdleIsCall, ArgsHold DEF Calls, Ops, Stages
  <2> QED
    BY <1>3, <2>1, <2>2, StartsBusy, IdleIsCall DEF FindScope, Calls
<1>4. ASSUME NEW op \in Ops \ {"none"}, NEW at \in Stages, Reads(c, op, at)
      PROVE  Busy' /\ Alone(c) /\ call[c].at = "idle" /\ UNCHANGED <<talk, meddled>>
  BY <1>4, ReadsBusy DEF Reads
<1> QED
  BY <1>1, <1>2, <1>3, <1>4 DEF Begin, Ops, Stages

LEMMA ContinueBusy ==
  ASSUME GroupsInv, Busy, NEW c \in Clients, Continue(c)
  PROVE  Busy' /\ Alone(c)
<1>0. call \in [Clients -> Calls] /\ call[c] \in Calls
  BY DEF GroupsInv, CallsOK
<1>1. CASE Answer(c)
  BY <1>1, AnswersBusy DEF GroupsInv
<1>2. ASSUME Alone(c), call[c].at # "idle", call'[c].op = call[c].op PROVE Busy' /\ Alone(c)
  BY <1>2, GoesOnBusy
<1>3. CASE Direct(c) \/ CreateGroup(c) \/ Resolve(c) \/ Promote(c) \/ DeleteEmpty(c) \/ DeleteGroup(c)
             \/ Crown(c) \/ Reset(c)
  BY <1>1, <1>3 DEF Direct, CreateGroup, Resolve, Promote, DeleteEmpty, DeleteGroup, Crown, Reset
<1>4. CASE FindInvited(c)
  BY <1>0, <1>1, <1>2, <1>4 DEF FindInvited, At, Alone, Calls
<1>5. CASE Invite(c)
  <2>1. CASE ~Answer(c)
    <3>1. \E p : call' = [call EXCEPT ![c].arg = @ \ {p}]
      BY <1>5, <2>1 DEF Invite
    <3> QED
      BY <1>0, <1>2, <1>5, <3>1 DEF Invite, At, Alone, Calls
  <2> QED
    BY <1>1, <2>1
<1>6. CASE Remove(c)
  <2>1. CASE ~Answer(c)
    <3>1. \E p : call' = [call EXCEPT ![c].at = "reread", ![c].arg = p]
      BY <1>6, <2>1 DEF Remove
    <3> QED
      BY <1>0, <1>2, <1>6, <3>1 DEF Remove, At, Alone, Calls
  <2> QED
    BY <1>1, <2>1
<1>7. CASE Reread(c)
  <2>1. CASE ~Answer(c)
    <3>1. \E at : call' = [call EXCEPT ![c].seen = MembersNow(c), ![c].at = at]
      BY <1>7, <2>1 DEF Reread
    <3> QED
      BY <1>0, <1>2, <1>7, <3>1 DEF Reread, At, Alone, Calls
  <2> QED
    BY <1>1, <2>1
<1>8. CASE SetRole(c)
  <2>1. CASE ~Answer(c)
    <3>1. \E p : call' = [call EXCEPT ![c].at = "crown", ![c].arg = p]
      BY <1>8, <2>1 DEF SetRole
    <3> QED
      BY <1>0, <1>2, <1>8, <3>1 DEF SetRole, At, Alone, Calls
  <2> QED
    BY <1>1, <2>1
<1> QED
  BY <1>3, <1>4, <1>5, <1>6, <1>7, <1>8 DEF Continue

-----------------------------------------------------------------------------
(* What the steps of ChatGroups do to the conversations.                   *)

\* A step that writes only in t leaves the other conversations alone.
LEMMA OthersUntouched ==
  ASSUME talk \in [Talks -> Talk], NEW t, NEW p, NEW m, Set(t, p, m)
  PROVE  \A u \in Talks \ {t} : talk'[u] = talk[u]
  BY DEF Set

\* The members a conversation is created with have its owner among them.
LEMMA CreatedIsHarmless ==
  ASSUME NEW c \in Clients, GroupsInv, Direct(c) \/ CreateGroup(c)
  PROVE  \A u \in Talks : Harmless(u)
<1>0. talk \in [Talks -> Talk] /\ call[c].who \in People
  BY DEF GroupsInv, ChatTypeOK, CallsOK, Calls
<1>1. ASSUME NEW t \in Talks, NEW ms, ms \in [People -> Member], NEW kind,
             talk' = [talk EXCEPT ![t] = [kind |-> kind, members |-> ms]],
             ms[call[c].who] = [role |-> "owner", status |-> "active"]
      PROVE  \A u \in Talks : Harmless(u)
  <2>1. Managed(t)'
    BY <1>0, <1>1 DEF Managed, Manages, Active
  <2>2. \A u \in Talks \ {t} : talk'[u] = talk[u]
    BY <1>0, <1>1
  <2> QED
    BY <2>1, <2>2, UntouchedIsMilder DEF Harmless
<1>2. CASE Direct(c)
  <2> DEFINE ms == [p \in People |-> IF p \in {call[c].who, call[c].arg}
                      THEN [role |-> "owner", status |-> "active"] ELSE Nobody[p]]
  <2>1. PICK t \in Talks : talk' = [talk EXCEPT ![t] = [kind |-> "dm", members |-> ms]]
    BY <1>2 DEF Direct
  <2>2. ms \in [People -> Member] /\ ms[call[c].who] = [role |-> "owner", status |-> "active"]
    BY <1>0 DEF Member, Nobody
  <2> HIDE DEF ms
  <2> QED
    BY <1>1, <2>1, <2>2
<1>3. CASE CreateGroup(c)
  <2> DEFINE ms == [p \in People |-> IF p = call[c].who THEN [role |-> "owner", status |-> "active"]
                      ELSE IF p \in call[c].arg THEN [role |-> "member", status |-> "invited"] ELSE Nobody[p]]
  <2>1. PICK t \in Talks : talk' = [talk EXCEPT ![t] = [kind |-> "group", members |-> ms]]
    BY <1>3 DEF CreateGroup
  <2>2. ms \in [People -> Member] /\ ms[call[c].who] = [role |-> "owner", status |-> "active"]
    BY <1>0 DEF Member, Nobody
  <2> HIDE DEF ms
  <2> QED
    BY <1>1, <2>1, <2>2
<1> QED
  BY <1>2, <1>3

\* An invitation and its answer: where the row is an active member's, the
\* conversation has been meddled with.
LEMMA InvitedIsHarmless ==
  ASSUME NEW t \in Talks, NEW p \in People, NEW status \in {"invited", "active", "removed"},
         talk \in [Talks -> Talk], Meddle(t, p),
         Set(t, p, [talk[t].members[p] EXCEPT !.status = status])
  PROVE  \A u \in Talks : Harmless(u)
<1> DEFINE m == [talk[t].members[p] EXCEPT !.status = status]
<1>1. talk[t].members[p] \in Member
  BY DEF Talk
<1>2. m \in Member
  BY <1>1 DEF Member
<1>3. CASE p \in Active(talk[t].members)
  <2>1. t \in meddled'
    BY <1>3 DEF Meddle, Active
  <2> QED
    BY <2>1, OthersUntouched, UntouchedIsMilder DEF Harmless
<1>4. CASE p \notin Active(talk[t].members)
  <2> HIDE DEF m
  <2>1. \A u \in Talks : Milder(u)
    BY <1>2, <1>4, SetIsHarmless DEF m
  <2> QED
    BY <2>1 DEF Harmless
<1> QED
  BY <1>3, <1>4

LEMMA GoneIsHarmless ==
  ASSUME talk \in [Talks -> Talk], NEW ts,
         talk' = [t \in Talks |-> IF t \in ts THEN [kind |-> "gone", members |-> Nobody] ELSE talk[t]]
  PROVE  \A u \in Talks : Harmless(u)
<1>1. \A u \in Talks : IF u \in ts THEN Gone(u)' ELSE talk'[u] = talk[u]
  BY DEF Gone
<1> QED
  BY <1>1, UntouchedIsMilder DEF Harmless

LEMMA DeletedIsHarmless ==
  ASSUME talk \in [Talks -> Talk], NEW t, Delete(t)
  PROVE  \A u \in Talks : Harmless(u)
<1>1. talk' = [u \in Talks |-> IF u \in {t} THEN [kind |-> "gone", members |-> Nobody] ELSE talk[u]]
  BY DEF Delete
<1> QED
  BY <1>1, GoneIsHarmless

LEMMA ContinueHarmless ==
  ASSUME GroupsInv, NEW c \in Clients, Continue(c),
         ~(Remove(c) \/ Reread(c) \/ Promote(c) \/ DeleteEmpty(c))
  PROVE  /\ \A u \in Talks : Harmless(u)
         /\ meddled \subseteq meddled' /\ call[c].at \notin Helping
<1>0. talk \in [Talks -> Talk] /\ call[c] \in Calls /\ Carries(call[c])
  BY DEF GroupsInv, ChatTypeOK, CallsOK
<1>1. UNCHANGED talk => \A u \in Talks : Harmless(u)
  BY UntouchedIsMilder DEF Harmless
<1>2. CASE Direct(c) \/ CreateGroup(c)
  BY <1>2, CreatedIsHarmless DEF Direct, CreateGroup, At, Helping
<1>3. CASE FindInvited(c)
  BY <1>1, <1>3 DEF FindInvited, At, Helping
<1>4. CASE Invite(c)
  <2>1. CASE Gone(call[c].in)
    BY <1>1, <1>4, <2>1 DEF Invite, At, Helping
  <2>2. CASE ~Gone(call[c].in)
    <3>1. PICK p \in call[c].arg : /\ Set(call[c].in, p, [Members(c)[p] EXCEPT !.status = "invited"])
                                   /\ Meddle(call[c].in, p)
      BY <1>4, <2>2 DEF Invite
    <3>2. p \in People /\ call[c].in \in Talks
      BY <1>0, <1>4 DEF Carries, Invite, At, Calls
    <3> QED
      BY <1>0, <1>4, <3>1, <3>2, InvitedIsHarmless DEF Invite, At, Helping, Members, Meddle
  <2> QED
    BY <2>1, <2>2
<1>5. CASE Resolve(c)
  <2>1. CASE UNCHANGED <<talk, meddled>>
    BY <1>1, <1>5, <2>1 DEF Resolve, At, Helping
  <2>2. CASE ~UNCHANGED <<talk, meddled>>
    <3>1. \E status \in {"active", "removed"} :
            Set(call[c].in, call[c].who, [Members(c)[call[c].who] EXCEPT !.status = status])
      BY <1>5, <2>2 DEF Resolve
    <3>2. Meddle(call[c].in, call[c].who) /\ call[c].in \in Talks /\ call[c].who \in People
      BY <1>0, <1>5, <2>2 DEF Resolve, Calls
    <3> QED
      BY <1>0, <1>5, <3>1, <3>2, InvitedIsHarmless DEF Resolve, At, Helping, Members, Meddle
  <2> QED
    BY <2>1, <2>2
<1>6. CASE DeleteGroup(c)
  BY <1>0, <1>1, <1>6, DeletedIsHarmless DEF DeleteGroup, At, Helping
<1>7. CASE Reset(c)
  BY <1>0, <1>7, GoneIsHarmless DEF Reset, At, Helping
<1>8. ASSUME NEW p, NEW m, meddled' = meddled \cup {call[c].in}, UNCHANGED talk \/ Set(call[c].in, p, m)
      PROVE  \A u \in Talks : Harmless(u)
  <2>1. \A u \in Talks \ {call[c].in} : talk'[u] = talk[u]
    BY <1>0, <1>8, OthersUntouched
  <2> QED
    BY <1>8, <2>1, UntouchedIsMilder DEF Harmless
<1>9. CASE SetRole(c)
  <2>1. \/ UNCHANGED <<talk, meddled>>
        \/ /\ meddled' = meddled \cup {call[c].in}
           /\ \E p, m : Set(call[c].in, p, m)
    BY <1>9 DEF SetRole
  <2> QED
    BY <1>1, <1>8, <1>9, <2>1 DEF SetRole, At, Helping
<1>10. CASE Crown(c)
  <2>1. meddled' = meddled \cup {call[c].in} /\ (UNCHANGED talk \/ \E p, m : Set(call[c].in, p, m))
    BY <1>10 DEF Crown
  <2> QED
    BY <1>1, <1>8, <1>10, <2>1 DEF Crown, At, Helping
<1> QED
  BY <1>2, <1>3, <1>4, <1>5, <1>6, <1>7, <1>9, <1>10 DEF Continue

-----------------------------------------------------------------------------
(* Leaving and kicking, and the repair after them.                         *)

\* The request that took a member away looks at the conversation again.
LEMMA RemoveKeeps ==
  ASSUME KeeperInv, NEW c \in Clients, NEW t \in Talks, Remove(c), Alone(c)
  PROVE  Kept(t)'
<1>0. talk \in [Talks -> Talk] /\ call \in [Clients -> Calls] /\ call[c] \in Calls
  BY DEF KeeperInv, GroupsInv, ChatTypeOK, CallsOK
<1>1. meddled' = meddled /\ call[c].at \notin Helping /\ Kept(t)
  BY DEF Remove, At, Helping, KeeperInv, GroupsKept
<1>2. ASSUME talk'[t] = talk[t] PROVE Kept(t)'
  BY <1>1, <1>2, UntouchedIsMilder, HarmlessKeeps DEF Harmless
<1>3. CASE Answer(c) /\ UNCHANGED talk
  BY <1>2, <1>3
<1>4. ASSUME NEW p \in People, Set(call[c].in, p, [Members(c)[p] EXCEPT !.status = "removed"]),
             call' = [call EXCEPT ![c].at = "reread", ![c].arg = p]
      PROVE  Kept(t)'
  <2>1. CASE t # call[c].in
    BY <1>0, <1>2, <1>4, <2>1, OthersUntouched
  <2>2. CASE t = call[c].in
    <3>1. call'[c].in = t /\ call'[c].at = "reread"
      BY <1>0, <1>4, <2>2 DEF Calls
    <3>2. Helps(c, t)'
      BY <3>1 DEF Helps
    <3> QED
      BY <3>2 DEF Kept
  <2> QED
    BY <2>1, <2>2
<1> QED
  BY <1>3, <1>4 DEF Remove

\* It finds a manager, or nobody, or active members to choose from.
LEMMA RereadKeeps ==
  ASSUME KeeperInv, NEW c \in Clients, NEW t \in Talks, Reread(c), Alone(c)
  PROVE  Kept(t)'
<1>0. talk \in [Talks -> Talk] /\ call \in [Clients -> Calls] /\ call[c] \in Calls
  BY DEF KeeperInv, GroupsInv, ChatTypeOK, CallsOK
<1>1. UNCHANGED <<talk, meddled>> /\ Kept(t) /\ Milder(t)
  BY UntouchedIsMilder DEF Reread, KeeperInv, GroupsKept
<1>2. CASE t # call[c].in
  BY <1>1, <1>2, HarmlessKeeps DEF Harmless
<1>3. CASE t = call[c].in /\ (Gone(t) \/ Managed(t))
  BY <1>1, <1>3 DEF Kept, Managed, Gone
<1>4. CASE t = call[c].in /\ ~Gone(t) /\ ~Managed(t)
  <2>1. MembersNow(c) = talk[t].members
    BY <1>4 DEF MembersNow, Members
  <2>2. call' = [call EXCEPT ![c].seen = talk[t].members,
                             ![c].at = IF Active(talk[t].members) = {} THEN "empty" ELSE "promote"]
    BY <1>4, <2>1 DEF Reread, Managed
  <2>3. /\ call'[c].in = t /\ call'[c].seen = talk[t].members
        /\ call'[c].at = IF Active(talk[t].members) = {} THEN "empty" ELSE "promote"
    BY <1>0, <1>4, <2>2 DEF Calls
  <2>4. Helps(c, t)'
    BY <1>1, <2>3 DEF Helps
  <2> QED
    BY <2>4 DEF Kept
<1> QED
  BY <1>2, <1>3, <1>4

\* The one it chooses is an admin; where that one is active no longer, who
\* took it away looks again.
LEMMA PromoteKeeps ==
  ASSUME KeeperInv, NEW c \in Clients, NEW t \in Talks, Promote(c), Alone(c)
  PROVE  Kept(t)'
<1>0. talk \in [Talks -> Talk] /\ call[c] \in Calls
  BY DEF KeeperInv, GroupsInv, ChatTypeOK, CallsOK
<1>1. meddled' = meddled /\ Kept(t) /\ call[c].at = "promote"
  BY DEF Promote, At, KeeperInv, GroupsKept
<1>2. PICK p \in Active(call[c].seen) :
        IF Gone(call[c].in) THEN UNCHANGED talk
        ELSE Set(call[c].in, p, [Members(c)[p] EXCEPT !.role = "admin"])
  BY DEF Promote
<1>3. p \in People
  BY <1>2 DEF Active
<1>4. CASE t # call[c].in
  <2>1. talk'[t] = talk[t]
    BY <1>0, <1>2, <1>4, OthersUntouched
  <2> QED
    BY <1>1, <1>4, <2>1, UntouchedIsMilder, HarmlessKeeps DEF Harmless
<1>5. CASE t = call[c].in /\ Gone(t)
  BY <1>2, <1>5 DEF Kept, Gone
<1>6. CASE t = call[c].in /\ ~Gone(t)
  <2> DEFINE m == [talk[t].members[p] EXCEPT !.role = "admin"]
  <2>1. talk[t].members \in [People -> Member] /\ talk[t].members[p] \in Member
    BY <1>0, <1>3 DEF Talk
  <2>2. m \in Member /\ m.role = "admin" /\ m.status = talk[t].members[p].status
    BY <2>1 DEF Member
  <2>3. Set(t, p, m)
    BY <1>2, <1>6 DEF Members
  <2> HIDE DEF m
  <2>4. Milder(t)
    BY <1>0, <1>3, <2>2, <2>3, SetIsHarmless DEF Active
  <2>5. CASE p \in Active(talk[t].members)
    <3>1. talk'[t].members[p] = m
      BY <1>0, <1>3, <2>1, <2>3 DEF Set, Talk
    <3> QED
      BY <1>3, <2>2, <2>5, <3>1 DEF Kept, Managed, Manages, Active
  <2>6. CASE p \notin Active(talk[t].members)
    <3>1. ~Helps(c, t)
      BY <1>1, <1>2, <2>6 DEF Helps
    <3>2. ASSUME NEW d \in Clients, Helps(d, t) PROVE Helps(d, t)'
      BY <2>4, <3>1, <3>2 DEF Helps, Milder, Alone
    <3>3. Managed(t) => Managed(t)'
      BY <2>4 DEF Milder, Managed
    <3> QED
      BY <1>1, <1>6, <3>2, <3>3 DEF Kept
  <2> QED
    BY <2>5, <2>6
<1> QED
  BY <1>4, <1>5, <1>6

LEMMA DeleteEmptyKeeps ==
  ASSUME KeeperInv, NEW c \in Clients, NEW t \in Talks, DeleteEmpty(c), Alone(c)
  PROVE  Kept(t)'
<1>0. talk \in [Talks -> Talk] /\ meddled' = meddled /\ Kept(t) /\ Delete(call[c].in)
  BY DEF KeeperInv, GroupsInv, ChatTypeOK, DeleteEmpty, GroupsKept
<1>1. CASE t = call[c].in
  BY <1>0, <1>1 DEF Delete, Kept, Gone
<1>2. CASE t # call[c].in
  BY <1>0, <1>2, DeletedIsHarmless, HarmlessKeeps
<1> QED
  BY <1>1, <1>2

LEMMA BarKeeps ==
  ASSUME KeeperInv, NEW p \in People, Bar(p)
  PROVE  GroupsKept'
<1>0. UNCHANGED call /\ talk \in [Talks -> Talk] /\ meddled \subseteq meddled'
  BY DEF Bar, KeeperInv, GroupsInv, ChatTypeOK
<1>1. Busy'
  BY <1>0 DEF KeeperInv, GroupsKept, Busy
<1>2. ASSUME NEW t \in Talks PROVE Kept(t)'
  <2> DEFINE Barred == [talk[t] EXCEPT !.members[p].status = "removed"]
  <2>1. talk[t].members \in [People -> Member] /\ talk[t].members[p] \in Member /\ talk[t] \in Talk
    BY <1>0 DEF Talk
  <2>2. CASE talk[t].members[p].status = "active"
    BY <2>2 DEF Bar, Kept
  <2>3. CASE talk[t].members[p].status # "active"
    <3>1. talk'[t] = Barred \/ talk'[t] = talk[t]
      BY <1>0 DEF Bar
    <3>2. /\ Barred.kind = talk[t].kind
          /\ Barred.members = [talk[t].members EXCEPT ![p] = [talk[t].members[p] EXCEPT !.status = "removed"]]
      BY <2>1 DEF Talk
    <3>3. \A q \in People : Barred.members[q] = IF q = p THEN [talk[t].members[p] EXCEPT !.status = "removed"]
                                                ELSE talk[t].members[q]
      BY <2>1, <3>2
    <3> HIDE DEF Barred
    <3>4. Milder(t)
      BY <2>3, <3>1, <3>2, <3>3 DEF Milder, Active, Manages
    <3>5. ASSUME NEW d \in Clients, Helps(d, t) PROVE Helps(d, t)'
      BY <1>0, <3>4, <3>5 DEF Helps, Milder
    <3> QED
      BY <1>0, <3>4, <3>5 DEF KeeperInv, GroupsKept, Kept, Milder, Managed, Gone
  <2> QED
    BY <2>2, <2>3
<1> QED
  BY <1>1, <1>2 DEF GroupsKept

LEMMA ChatKeeps ==
  ASSUME KeeperInv, ChatNext
  PROVE  GroupsKept'
<1>1. ASSUME NEW c \in Clients, Begin(c) PROVE GroupsKept'
  <2>1. Busy' /\ Alone(c) /\ call[c].at \notin Helping /\ UNCHANGED <<talk, meddled>>
    BY <1>1, BeginBusy DEF KeeperInv, GroupsKept, Helping
  <2> QED
    BY <2>1, UntouchedIsMilder, HarmlessKeeps DEF KeeperInv, GroupsKept, Harmless
<1>2. ASSUME NEW c \in Clients, Continue(c) PROVE GroupsKept'
  <2>1. Busy' /\ Alone(c)
    BY <1>2, ContinueBusy DEF KeeperInv, GroupsKept
  <2>2. ASSUME NEW t \in Talks PROVE Kept(t)'
    <3>1. CASE Remove(c) \/ Reread(c) \/ Promote(c) \/ DeleteEmpty(c)
      BY <2>1, <3>1, RemoveKeeps, RereadKeeps, PromoteKeeps, DeleteEmptyKeeps
    <3>2. CASE ~(Remove(c) \/ Reread(c) \/ Promote(c) \/ DeleteEmpty(c))
      BY <1>2, <2>1, <3>2, ContinueHarmless, HarmlessKeeps DEF KeeperInv, GroupsKept
    <3> QED
      BY <3>1, <3>2
  <2> QED
    BY <2>1, <2>2 DEF GroupsKept
<1> QED
  BY <1>1, <1>2, BarKeeps DEF ChatNext

\* Posting keeps away from the conversations and from those who help.
LEMMA PostKeeps ==
  ASSUME KeeperInv, PostInv, NEW c \in Clients, Post(c)
  PROVE  GroupsKept'
<1>0. call \in [Clients -> Calls] /\ call[c] \in Calls /\ CallsOK /\ Busy
  BY DEF KeeperInv, GroupsInv, CallsOK, GroupsKept
<1>1. UNCHANGED <<talk, meddled>>
  BY DEF Post, StartPost, StartBotPost, ReadIdentity, Lookup, TakeSequence, Store, StartRewrite, Rewrite,
         Read, SetPolicy, Reads, still
<1>2. ASSUME Busy', Alone(c), call[c].at \notin Helping PROVE GroupsKept'
  BY <1>1, <1>2, UntouchedIsMilder, HarmlessKeeps DEF KeeperInv, GroupsKept, Harmless
<1>3. CASE Answer(c) /\ call[c].at \notin Helping
  BY <1>0, <1>2, <1>3, AnswersBusy
<1>4. CASE StartPost(c) \/ StartBotPost(c)
  <2>1. PICK t \in Talks, at \in {"identity", "lookup"}, w \in Writers :
          Start(c, [Idle EXCEPT !.op = "post", !.at = at, !.in = t, !.arg = w])
    BY <1>4 DEF StartPost, StartBotPost, Active, Writers, PostInv, Rows
  <2>2. [Idle EXCEPT !.op = "post", !.at = at, !.in = t, !.arg = w] \in Calls
    BY IdleIsCall, ArgsHold DEF Calls, Ops, Stages
  <2> QED
    BY <1>0, <1>2, <2>1, <2>2, StartsBusy, IdleIsCall DEF Calls, Helping
<1>5. CASE StartRewrite(c)
  <2>1. PICK m \in messages, p \in People, op \in {"edit", "unsend"} :
          Start(c, [Idle EXCEPT !.op = op, !.at = "rewrite", !.in = m.in, !.arg = m.seq])
    BY <1>5 DEF StartRewrite
  <2>2. m.in \in Talks /\ m.seq \in Nat
    BY DEF PostInv, Rows, Row
  <2>3. [Idle EXCEPT !.op = op, !.at = "rewrite", !.in = m.in, !.arg = m.seq] \in Calls
    BY <2>2, IdleIsCall, ArgsHold DEF Calls, Ops, Stages
  <2> QED
    BY <1>0, <1>2, <2>1, <2>3, StartsBusy, IdleIsCall DEF Calls, Helping
<1>6. ASSUME Alone(c), call[c].at \notin Helping \cup {"idle"}, call'[c].op = call[c].op
      PROVE  GroupsKept'
  BY <1>0, <1>2, <1>6, GoesOnBusy
<1>7. CASE ReadIdentity(c)
  BY <1>0, <1>3, <1>6, <1>7 DEF ReadIdentity, At, GoTo, Helping, Alone, Calls
<1>8. CASE Lookup(c)
  <2>1. CASE ~Answer(c)
    <3>1. \E arg : call' = [call EXCEPT ![c].at = "sequence", ![c].arg = arg]
      BY <1>8, <2>1 DEF Lookup
    <3> QED
      BY <1>0, <1>6, <1>8, <3>1 DEF Lookup, At, Helping, Alone, Calls
  <2> QED
    BY <1>3, <1>8, <2>1 DEF Lookup, At, Helping
<1>9. CASE TakeSequence(c)
  <2>1. CASE ~Answer(c)
    <3>1. \E arg : call' = [call EXCEPT ![c].at = "store", ![c].arg = arg]
      BY <1>9, <2>1 DEF TakeSequence
    <3> QED
      BY <1>0, <1>6, <1>9, <3>1 DEF TakeSequence, At, Helping, Alone, Calls
  <2> QED
    BY <1>3, <1>9, <2>1 DEF TakeSequence, At, Helping
<1>10. CASE Store(c) \/ Rewrite(c) \/ SetPolicy(c)
  BY <1>3, <1>10 DEF Store, Rewrite, SetPolicy, At, Helping
<1>11. CASE Read(c)
  BY <1>1, <1>11 DEF Read, KeeperInv, GroupsKept, Busy, Kept, Managed, Helps, Gone
<1>12. CASE Reads(c, "policy", "policy")
  BY <1>0, <1>2, <1>12, ReadsBusy DEF KeeperInv, Ops, Stages, Helping
<1> QED
  BY <1>4, <1>5, <1>7, <1>8, <1>9, <1>10, <1>11, <1>12 DEF Post

-----------------------------------------------------------------------------
LEMMA GroupsStartKept == MessagesInit => GroupsKept
<1> SUFFICES ASSUME MessagesInit PROVE GroupsKept
  OBVIOUS
<1>1. Busy
  BY IdleIsCall DEF MessagesInit, ChatInit, Busy
<1>2. ASSUME NEW t \in Talks PROVE Gone(t) \/ Managed(t)
  <2>1. talk[t] = InitTalks[t] /\ talk[t].kind \in {"none", "group", "dm", "gone"}
    BY ChatAssumption DEF MessagesInit, ChatInit, Talk
  <2> QED
    BY <2>1, ChatAssumption DEF Gone, Managed, Manages, Active
<1> QED
  BY <1>1, <1>2 DEF GroupsKept, Kept

LEMMA GroupsNextKept == PostInv /\ GroupsKept /\ [MessagesNext]_xvars => GroupsKept'
<1> SUFFICES ASSUME PostInv, GroupsKept, [MessagesNext]_xvars PROVE GroupsKept'
  OBVIOUS
<1>0. KeeperInv
  BY DEF KeeperInv, PostInv
<1>1. CASE \E c \in Clients : Post(c)
  BY <1>0, <1>1, PostKeeps
<1>2. CASE ChatNext
  BY <1>0, <1>2, ChatKeeps
<1>3. CASE UNCHANGED gvars
  BY <1>3 DEF gvars, GroupsKept, Busy, Kept, Managed, Helps, Gone
<1> QED
  BY <1>1, <1>2, <1>3 DEF MessagesNext, Silence, xvars

\* A group keeps a manager: a conversation nobody is about to repair, whose
\* active members' rows only leaving and kicking have written, has an active
\* owner or admin, for any number of people who leave, are kicked and join at
\* one time (leave 813-827, kick 791-811,
\* ensureManualConversationHasAdminOrDelete).
THEOREM GroupsStayManaged == MessagesSpec => []GroupHasManager
<1>1. GroupsKept => GroupHasManager
  BY DEF GroupsKept, Kept, Managed, Helps, GroupHasManager, Settling
<1> QED
  BY <1>1, PostAlways, GroupsStartKept, GroupsNextKept, PTL DEF MessagesSpec
=============================================================================
