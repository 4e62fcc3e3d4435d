---------------------------- MODULE ChatMessages ----------------------------
(***************************************************************************)
(* Messages of the conversations of ChatGroups: posting by people and by   *)
(* bots, idempotent by the client's message id, in the order of a sequence *)
(* the conversation counts; edits, deletions and read markers.  A group's  *)
(* first message is the system's, whose sequence is not counted.           *)
(***************************************************************************)
EXTENDS ChatGroups, Sequences

CONSTANTS
  Bots,        \* bot identities
  ClientIds,   \* the message ids clients make up
  NoId

VARIABLES
  counter,   \* lastServerSequence of each conversation
  messages,  \* ChatMessage rows: [in, seq, clientId, author, text]
  silenced,  \* bot identities that are not active
  policy,    \* allowedIdentityIds of each conversation
  lastRead   \* ChatReadState rows: when each of the people last read a conversation

xvars == <<gvars, counter, messages, silenced, policy, lastRead>>
still == <<talk, barred, meddled>>

\* The message POST /groups creates with the group.
Announcement(t) == [in |-> t, seq |-> 0, clientId |-> NoId, author |-> "system", text |-> "sent"]

MessagesInit ==
  /\ ChatInit
  /\ counter = [t \in Talks |-> 0]
  /\ messages = {Announcement(t) : t \in {u \in Talks : InitTalks[u].kind = "group"}}
  /\ silenced = {} /\ policy = [t \in Talks |-> {}]
  /\ lastRead = [t \in Talks |-> [p \in People |-> 0]]

In(t) == {m \in messages : m.in = t}

(* POST /messages and POST /bot/messages: the conversation, for a bot also *)
(* its identity, the message of that client id, a sequence, the row.       *)
StartPost(c) ==
  /\ \E t \in Talks : \E p \in Active(talk[t].members) \ barred :
       Start(c, [Idle EXCEPT !.op = "post", !.at = "lookup", !.in = t, !.arg = p])
  /\ UNCHANGED <<still, counter, messages, silenced, policy, lastRead>>

StartBotPost(c) ==
  /\ \E t \in Talks : ~Gone(t) /\ \E b \in policy[t] :
       Start(c, [Idle EXCEPT !.op = "post", !.at = "identity", !.in = t, !.arg = b])
  /\ UNCHANGED <<still, counter, messages, silenced, policy, lastRead>>

ReadIdentity(c) ==
  /\ At(c, "identity")
  /\ IF call[c].arg \in silenced THEN Answer(c) ELSE GoTo(c, "lookup")
  /\ UNCHANGED <<still, made, counter, messages, silenced, policy, lastRead>>

\* findIdempotentMessage; a message without a client id looks nothing up.
Lookup(c) ==
  LET r == call[c] IN
  /\ At(c, "lookup")
  /\ \E k \in ClientIds \cup {NoId} :
       IF k # NoId /\ \E m \in In(r.in) : m.clientId = k THEN Answer(c)
       ELSE call' = [call EXCEPT ![c].at = "sequence", ![c].arg = <<@, k>>]
  /\ UNCHANGED <<still, made, counter, messages, silenced, policy, lastRead>>

\* Mutant: the last sequence among the messages, and one.
LastOfRows(t) == Cardinality(In(t)) + 1
nextServerSequence(t) == counter[t] + 1

TakeSequence(c) ==
  LET r == call[c]  s == nextServerSequence(r.in) IN
  /\ At(c, "sequence")
  /\ IF Gone(r.in) THEN Answer(c) /\ UNCHANGED counter
     ELSE /\ counter' = [counter EXCEPT ![r.in] = s]
          /\ call' = [call EXCEPT ![c].at = "store", ![c].arg = Append(@, s)]
  /\ UNCHANGED <<still, made, messages, silenced, policy, lastRead>>

\* The unique index on the client id refuses a second row, and the foreign key
\* one whose conversation is gone; the sequence it took stays unused.
Refused(t, k) == k # NoId /\ \E m \in In(t) : m.clientId = k
GivenBack(t) == [counter EXCEPT ![t] = @ - 1]                  \* mutant
Unused(t) == counter
Store(c) ==
  LET r == call[c]  k == r.arg[2] IN
  /\ At(c, "store") /\ Answer(c)
  /\ IF Gone(r.in) \/ Refused(r.in, k) THEN counter' = Unused(r.in) /\ UNCHANGED messages
     ELSE /\ messages' = messages \cup {[in |-> r.in, seq |-> r.arg[3], clientId |-> k,
                                         author |-> r.arg[1], text |-> "sent"]}
          /\ UNCHANGED counter
  /\ UNCHANGED <<still, made, silenced, policy, lastRead>>

-----------------------------------------------------------------------------
(* PUT and DELETE /messages/:id: the message, its conversation, the row.   *)
StartRewrite(c) ==
  /\ \E m \in messages, p \in People \ barred, op \in {"edit", "unsend"} :
       /\ m.author = p \/ Manages(talk[m.in].members, p)
       /\ Start(c, [Idle EXCEPT !.op = op, !.at = "rewrite", !.in = m.in, !.arg = m.seq])
  /\ UNCHANGED <<still, counter, messages, silenced, policy, lastRead>>

Rewrite(c) ==
  LET r == call[c] IN
  /\ At(c, "rewrite") /\ Answer(c)
  /\ messages' = {IF m.in = r.in /\ m.seq = r.arg
                  THEN [m EXCEPT !.text = IF r.op = "edit" THEN "edited" ELSE ""] ELSE m : m \in messages}
  /\ UNCHANGED <<still, made, counter, silenced, policy, lastRead>>

\* POST /read; unread are the others' messages since (unread-counts).
Read(c) ==
  /\ call[c].op = "none" /\ "read" \in Offered /\ made < MaxRequests /\ made' = made + 1
  /\ \E t \in Talks, p \in People \ barred : \E s \in 0 .. counter[t] :
       ~Gone(t) /\ lastRead' = [lastRead EXCEPT ![t][p] = s]
  /\ UNCHANGED <<still, call, counter, messages, silenced, policy>>

\* PATCH /:id/bot-policy by a manager, and a bot identity switched off elsewhere.
SetPolicy(c) ==
  /\ At(c, "policy") /\ Answer(c)
  /\ \E allowed \in SUBSET Bots :
       policy' = IF Manages(call[c].seen, call[c].who) THEN [policy EXCEPT ![call[c].in] = allowed]
                 ELSE policy
  /\ UNCHANGED <<still, made, counter, messages, silenced, lastRead>>
Silence(b) ==
  /\ "silence" \in Offered /\ b \notin silenced /\ silenced' = silenced \cup {b}
  /\ UNCHANGED <<gvars, counter, messages, policy, lastRead>>

\* Every statement that deletes a conversation takes its messages with it, and
\* the one that creates a group creates its first.
Begun == {t \in Talks : talk[t].kind = "none" /\ talk'[t].kind = "group"}
Cascade == /\ messages' = {m \in messages : talk'[m.in].kind # "gone"} \cup {Announcement(t) : t \in Begun}
           /\ lastRead' = [t \in Talks |-> IF talk'[t].kind = "gone" THEN [p \in People |-> 0] ELSE lastRead[t]]
           /\ UNCHANGED <<counter, silenced, policy>>

Post(c) == \/ StartPost(c) \/ StartBotPost(c) \/ ReadIdentity(c) \/ Lookup(c) \/ TakeSequence(c) \/ Store(c)
           \/ StartRewrite(c) \/ Rewrite(c) \/ Read(c) \/ SetPolicy(c)
           \/ Reads(c, "policy", "policy") /\ UNCHANGED <<counter, messages, silenced, policy, lastRead>>
MessagesNext == \/ \E c \in Clients : Post(c)
                \/ \E b \in Bots : Silence(b)
                \/ ChatNext /\ Cascade
MessagesSpec == MessagesInit /\ [][MessagesNext]_xvars

-----------------------------------------------------------------------------
MessagesTypeOK ==
  /\ ChatTypeOK /\ counter \in [Talks -> Nat]
  /\ \A m \in messages : /\ ~Gone(m.in) /\ m.seq \in 0 .. counter[m.in]
                          /\ m.author \in People \cup Bots \cup {"system"}

\* Messages are shown by serverSequence: a post comes after everything that is
\* there when it draws its sequence, so an answer comes after what it answers,
\* though other posts are under way, refused and sent again meanwhile
\* (nextServerSequence 157-164, the listing 520-532, post 547-560).
LaterPostsComeLater ==
  [][\A c \in Clients : At(c, "sequence") /\ call'[c].at = "store" =>
       \A m \in In(call[c].in) : m.seq < call'[c].arg[3]]_xvars

Named(k) == IF k = NoId THEN "unnamed" ELSE k
LogOf(t) == [s \in {m.seq : m \in In(t)} |->
              LET m == CHOOSE x \in In(t) : x.seq = s IN <<m.author, Named(m.clientId)>>]
Log == INSTANCE MessageLog WITH
  log <- [t \in Talks |-> LogOf(t)], Places <- 1 .. MaxRequests,
  Names <- ClientIds \cup {"unnamed"}, Authors <- People \cup Bots, System <- "system"

\* Posting implements the log: each message has a place of its own, however
\* many are posted at once, and a client that retries a post, also while the
\* first is still under way, adds one message (post 534-572, bot post 574-605,
\* nextServerSequence 157-164, findIdempotentMessage 166-169).
MessagesAreALog == Log!Spec
=============================================================================
