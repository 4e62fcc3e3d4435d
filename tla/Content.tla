------------------------------ MODULE Content ------------------------------
(***************************************************************************)
(* Projects, lore, gallery, news and the map image; the log of changes     *)
(* that offline clients pull and push (modules/sync), and the removal of   *)
(* stored files nobody refers to any more (utils/storage-cleanup).         *)
(*                                                                         *)
(* A row is represented by the one stored file it refers to: rows that     *)
(* differ refer to different files.  Transactions run under READ           *)
(* COMMITTED: a statement sees what is committed when it starts, a row     *)
(* that was written stays locked to others until the writer has ended, and *)
(* a sequence number is drawn when a change is inserted.  What hangs on a  *)
(* row, and the steps that delete it, is in Engagement, which completes    *)
(* the specification.                                                      *)
(***************************************************************************)
EXTENDS Integers, FiniteSets

CONSTANTS
  Clients,     \* requests under way at one time
  Items, KindOf,  \* rows that may exist, and the table of each
  Files,       \* stored files, all uploaded before the model starts
  Documents,   \* those that EntityDoc and NewsAttachment rows refer to
  InitRows,    \* what is there at the start
  Offered,     \* the operations of this instance
  Mutations,   \* operation ids an offline client may use
  MaxRequests, \* bound
  None

ContentKinds == {"project", "lore", "gallery", "news", "map"}
ASSUME ContentAssumption ==
  /\ KindOf \in [Items -> ContentKinds] /\ InitRows \in [Items -> Files \cup {None}]
  /\ Documents \subseteq Files
  /\ None \notin Files \cup Mutations /\ MaxRequests \in Nat /\ Items # {}

VARIABLES
  row,      \* committed rows: the file a row refers to, None if there is none
  log,      \* committed SyncChange rows
  sequence, \* last sequence number drawn
  stored,   \* files in object storage
  sent,     \* the mutation an offline client has made under each operation id
  job,      \* the request of each client
  asked     \* requests started, a bound

cvars == <<row, log, sequence, stored, sent, job, asked>>

Synced(i) == KindOf[i] \in {"project", "lore", "gallery"}
Latest(i) == {e \in log : e.item = i /\ \A f \in log : f.item = i => f.seq <= e.seq}
SeqOf(i) == IF Latest(i) = {} THEN 0 ELSE (CHOOSE e \in Latest(i) : TRUE).seq
Quiet == [op |-> "none", at |-> "idle", item |-> CHOOSE i \in Items : TRUE, user |-> None,
          file |-> None,    \* what the row shall refer to; None deletes
          id |-> None, base |-> 0, seq |-> 0,
          before |-> None,  \* the row as it was read
          locks |-> {},     \* rows written and not committed
          tables |-> {}, used |-> {},        \* clean-up: tables to read, references found
          held |-> {},      \* history: rows that have referred to the file since then
          wanted |-> {}, had |-> {}, drop |-> {}, add |-> {}]   \* see Engagement

ContentInit ==
  /\ row = InitRows /\ log = {} /\ sequence = 0 /\ stored = Files
  /\ sent = [m \in Mutations |-> None] /\ job = [c \in Clients |-> Quiet] /\ asked = 0

Item(c) == job[c].item
Start(c, j) == /\ job[c].op = "none" /\ asked < MaxRequests /\ j.op \in Offered
               /\ asked' = asked + 1 /\ job' = [job EXCEPT ![c] = j]
At(c, at) == job[c].at = at
GoTo(c, at) == job' = [job EXCEPT ![c].at = at]
Answer(c) == job' = [job EXCEPT ![c] = Quiet]
Reading == UNCHANGED <<row, log, sequence, stored, sent, asked>>

\* A row a transaction has written and not yet committed is locked.
Holds(c) == job[c].locks
Row(c) == <<"row", Item(c)>>
Locked(c, r) == \E d \in Clients \ {c} : r \in Holds(d)

-----------------------------------------------------------------------------
(* The editors' requests: POST, PUT, POST /archive, DELETE.                *)
Create(c) ==
  /\ \E i \in Items, f \in Files :
       /\ row[i] = None /\ Latest(i) = {} /\ KindOf[i] # "map"   \* a fresh uuid
       /\ \A d \in Clients : job[d].op # "none" => Item(d) # i
       /\ Start(c, [Quiet EXCEPT !.op = "create", !.at = "write", !.item = i, !.file = f])
  /\ UNCHANGED <<row, log, sequence, stored, sent>>

\* The row before the edit is read outside the transaction; it says which
\* files may be removed afterwards.
FindExisting(c) ==
  /\ \E i \in Items, op \in {"update", "delete"}, f \in Files :
       /\ row[i] # None
       /\ op = "delete" => KindOf[i] # "map"
       /\ Start(c, [Quiet EXCEPT !.op = op, !.at = IF op = "delete" THEN "purge" ELSE "write",
                     !.item = i, !.file = IF op = "delete" THEN None ELSE f, !.before = row[i]])
  /\ UNCHANGED <<row, log, sequence, stored, sent>>

Archive(c) ==
  /\ \E i \in Items : KindOf[i] = "project"
                      /\ Start(c, [Quiet EXCEPT !.op = "archive", !.at = "write", !.item = i])
  /\ UNCHANGED <<row, log, sequence, stored, sent>>

(* POST /push, one mutation of it: a client that got no answer sends the   *)
(* same mutation again.                                                    *)
Push(c) ==
  /\ \E m \in Mutations :
       \/ /\ sent[m] = None
          /\ \E i \in Items, f \in Files \cup {None}, base \in {0} \cup {e.seq : e \in log} :
               /\ Synced(i)
               /\ Start(c, [Quiet EXCEPT !.op = "push", !.at = "prior", !.item = i, !.file = f,
                                         !.id = m, !.base = base])
               /\ sent' = [sent EXCEPT ![m] = [item |-> i, file |-> f, base |-> base]]
       \/ /\ sent[m] # None
          /\ Start(c, [Quiet EXCEPT !.op = "push", !.at = "prior", !.item = sent[m].item,
                        !.file = sent[m].file, !.id = m, !.base = sent[m].base])
          /\ UNCHANGED sent
  /\ UNCHANGED <<row, log, sequence, stored>>

NeverApplied(m) == FALSE          \* bug: neither a look-up nor a unique index
Applied(m) == \E e \in log : e.id = m

Prior(c) == /\ At(c, "prior") /\ Reading
            /\ IF Applied(job[c].id) THEN Answer(c) ELSE GoTo(c, "duplicate")
Duplicate(c) == /\ At(c, "duplicate") /\ Reading
                /\ IF Applied(job[c].id) THEN Answer(c) ELSE GoTo(c, "latest")
Conflicts(c) == job[c].base < SeqOf(Item(c))
CheckBase(c) ==
  /\ At(c, "latest") /\ Reading
  /\ IF Conflicts(c) THEN Answer(c)
     ELSE GoTo(c, IF job[c].file = None THEN "purge" ELSE "exists")
\* applyProject, applyLore, applyGallery look whether to update or to create.
Exists(c) == /\ At(c, "exists") /\ Reading
             /\ job' = [job EXCEPT ![c].at = "write", ![c].before = row[Item(c)]]

-----------------------------------------------------------------------------
(* The row is written; the change is appended; both become visible.        *)
WrittenAlone(c) ==                \* bug: the write is a transaction of its own
  /\ row' = [row EXCEPT ![Item(c)] = IF job[c].op = "archive" THEN @ ELSE job[c].file]
  /\ job' = [job EXCEPT ![c].file = IF job[c].op = "archive" THEN row[Item(c)] ELSE job[c].file,
               ![c].at = IF Synced(Item(c)) THEN "append" ELSE "commit"]
Written(c) ==
  /\ UNCHANGED row
  /\ job' = [job EXCEPT ![c].locks = @ \cup {Row(c)},
               ![c].file = IF job[c].op = "archive" THEN row[Item(c)] ELSE job[c].file,
               ![c].at = IF Synced(Item(c)) THEN "append" ELSE "commit"]
Missing(c) == IF job[c].op \in {"update", "archive", "delete"} \/ job[c].before # None
                 \/ job[c].file = None
              THEN row[Item(c)] = None          \* an update or a delete by id throws
              ELSE row[Item(c)] # None          \* the id is taken
Write(c) ==
  /\ At(c, "write") /\ ~Locked(c, Row(c)) /\ UNCHANGED <<log, sequence, stored, sent, asked>>
  /\ IF job[c].op = "push" /\ job[c].file = None /\ row[Item(c)] = None
     THEN GoTo(c, "append") /\ UNCHANGED row       \* swallowed: no lock
     ELSE IF Missing(c) THEN Answer(c) /\ UNCHANGED row ELSE Written(c)

NextSequence == sequence + 1      \* autoincrement: drawn outside the transaction
Append(c) ==
  /\ At(c, "append")
  /\ \A d \in Clients \ {c} : ~(At(d, "commit") /\ job[d].id = job[c].id /\ job[c].id # None)
  /\ IF job[c].id # None /\ Applied(job[c].id)
     THEN Answer(c) /\ UNCHANGED sequence        \* operationId is unique
     ELSE /\ sequence' = NextSequence
          /\ job' = [job EXCEPT ![c].at = "commit", ![c].seq = NextSequence]
  /\ UNCHANGED <<row, log, stored, sent, asked>>

\* The tables that refer to files: LoreItem and News have a second one.
HasParts(kind) == kind \in {"lore", "news"}
Apart(i, f) == HasParts(KindOf[i]) /\ f \in Documents
Tables == {<<KindOf[i], "rows">> : i \in Items}
  \cup {<<KindOf[i], "parts">> : i \in {i \in Items : HasParts(KindOf[i])}}

\* The files the row gave up are looked at afterwards; a push removes none.
GivenUp(c) == IF job[c].op \in {"update", "delete"} THEN {job[c].before} \ {job[c].file, None} ELSE {}
Commit(c) ==
  /\ At(c, "commit")
  /\ row' = [row EXCEPT ![Item(c)] = IF Row(c) \in Holds(c) THEN job[c].file ELSE @]
  /\ log' = IF Synced(Item(c))
            THEN log \cup {[seq |-> job[c].seq, item |-> Item(c), file |-> job[c].file, id |-> job[c].id]}
            ELSE log
  /\ job' = [d \in Clients |->
       IF d # c THEN [job[d] EXCEPT !.held = @ \ {Item(c)}]
       ELSE IF GivenUp(c) = {} THEN Quiet
       ELSE [Quiet EXCEPT !.op = "cleanup", !.at = "tables", !.before = job[c].before,
               !.tables = Tables, !.held = {i \in Items \ {Item(c)} : row[i] = job[c].before}]]
  /\ UNCHANGED <<sequence, stored, sent, asked>>

-----------------------------------------------------------------------------
(* cleanupUnreferencedStoragePaths reads one table after the other.  The   *)
(* documents of a lore item and the attachments of an article are in       *)
(* tables of their own, and count only if their item has been found too.   *)
Refers(t) == {<<t[2], i, row[i]>> : i \in
  {i \in Items : KindOf[i] = t[1] /\ row[i] # None /\ (t[2] = "parts" => Apart(i, row[i]))}}
ReadTable(c) ==
  /\ At(c, "tables") /\ Reading
  /\ \E t \in job[c].tables :
       /\ t = <<"news", "parts">> => <<"news", "rows">> \notin job[c].tables
       /\ job' = [job EXCEPT ![c].tables = @ \ {t}, ![c].used = @ \cup Refers(t),
                    ![c].at = IF job[c].tables = {t} THEN "remove" ELSE "tables"]
InUse(c) == {f \in Files : \E i \in Items :
  /\ <<IF Apart(i, f) THEN "parts" ELSE "rows", i, f>> \in job[c].used
  /\ \E g \in Files : <<"rows", i, g>> \in job[c].used}
Unfiltered(c) == {job[c].before}  \* bug: the old file is removed without a look
Removable(c) == {job[c].before} \ InUse(c)
Remove(c) ==
  /\ At(c, "remove") /\ Answer(c)
  /\ stored' = stored \ Removable(c)
  /\ UNCHANGED <<row, log, sequence, sent, asked>>

=============================================================================
