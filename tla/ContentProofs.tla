---------------------------- MODULE ContentProofs ----------------------------
(***************************************************************************)
(* Proofs about Content and Engagement: rows, the log of changes, stored   *)
(* files, marks and counters, for any requests beside one another, with    *)
(* the statements of their transactions interleaved.                       *)
(***************************************************************************)
EXTENDS Engagement, FiniteSetTheorems, TLAPS

EditOps == {"create", "update", "delete", "archive", "push"}
LookOps == {"view", "star", "unstar", "like", "dislike", "unlike"}
EditStages == {"prior", "duplicate", "latest", "exists", "purge", "marks", "metric",
               "write", "append", "commit"}
LookStages == {"ensure", "event", "again", "look", "want", "unmark", "mark", "count"}
CleanStages == {"tables", "remove"}
MarkKinds == {"star", "like", "dislike", "view"}
Marks == Users \X Items \X MarkKinds
Locks == ({"row", "metric"} \X Items) \cup Marks
Change == [seq : Nat, item : Items, file : Files \cup {None}, id : Mutations \cup {None}]
Sent == [item : {i \in Items : Synced(i)}, file : Files \cup {None}, base : Nat]
Statements == ContentKinds \X {"rows", "parts"}
References == {"rows", "parts"} \X Items \X Files
Job == [op : EditOps \cup LookOps \cup {"none", "cleanup"},
        at : EditStages \cup LookStages \cup CleanStages \cup {"idle"},
        item : Items, user : Users \cup {None}, file : Files \cup {None},
        id : Mutations \cup {None}, base : Nat, seq : Nat, before : Files \cup {None},
        locks : SUBSET Locks, tables : SUBSET Statements, used : SUBSET References,
        held : SUBSET Items, wanted : SUBSET Marks, had : SUBSET MarkKinds,
        drop : SUBSET Marks, add : SUBSET Marks]

\* What a request is at, and what it then has in hand.
Edits(j) ==
  /\ j.op \in EditOps <=> j.at \in EditStages
  /\ j.at \in {"prior", "duplicate", "latest", "exists"} => j.op = "push" /\ j.drop = {}
  /\ j.at = "exists" => j.file # None
  /\ j.at \in {"purge", "marks", "metric"} => j.op \in {"delete", "push"} /\ j.file = None
  /\ j.at \in {"purge", "marks"} => j.drop = {}
  /\ IF j.op = "push" THEN j.id \in Mutations /\ Synced(j.item) ELSE j.id = None
  /\ j.op = "delete" => j.file = None
  /\ j.op \in {"create", "update"} => j.file # None
  /\ j.op = "archive" => KindOf[j.item] = "project" /\ j.drop = {}
  /\ j.op \in EditOps => /\ j.add = {} /\ (j.drop # {} => j.file = None)
                         /\ \A m \in j.wanted \cup j.drop : m[2] = j.item /\ Counted(j.item)
Cleans(j) ==
  /\ j.op = "cleanup" <=> j.at \in CleanStages
  /\ j.op \notin LookOps \cup EditOps => j.drop = {} /\ j.add = {}
  /\ j.op # "cleanup" => j.held = {}
  /\ j.at = "remove" => j.tables = {}
Looks(j) ==
  /\ j.op \in LookOps <=> j.at \in LookStages
  /\ j.op \in LookOps => j.user \in Users /\ Counted(j.item)
  /\ j.op = "view" => j.at \in {"ensure", "event", "again", "count"} /\ j.drop = {} /\ j.add = {}
  /\ j.op = "star" => /\ j.at \in {"ensure", "look", "mark", "count"} /\ j.drop = {}
                      /\ j.at \in {"mark", "count"} => j.had = {}
                      /\ j.add = IF j.at = "count" THEN {<<j.user, j.item, "star">>} ELSE {}
  /\ j.op = "unstar" => /\ j.at \in {"ensure", "look", "unmark", "count"} /\ j.add = {}
                        /\ j.at \in {"unmark", "count"} => j.had = {"star"}
                        /\ j.drop = IF j.at = "count" THEN {<<j.user, j.item, "star">>} ELSE {}
  /\ j.op \in {"like", "dislike", "unlike"} =>
       /\ j.at \in {"ensure", "look", "want", "unmark", "mark", "count"}
       /\ j.op = "unlike" => j.at # "mark"
       /\ \A m \in j.wanted \cup j.drop \cup j.add : m[3] # "star"
       /\ j.at # "count" => j.add = {}
       /\ j.add \subseteq {<<j.user, j.item, j.op>>}
       /\ j.at \in {"ensure", "look", "want", "unmark"} => j.drop = {}
Placed(j) == j \in Job /\ Edits(j) /\ Cleans(j) /\ Looks(j)

TablesOK ==
  /\ row \in [Items -> Files \cup {None}]
  /\ log \subseteq Change /\ sequence \in Nat
  /\ stored \subseteq Files
  /\ sent \in [Mutations -> Sent \cup {None}]
  /\ marks \subseteq Marks /\ IsFiniteSet(marks)
  /\ views \subseteq Marks /\ IsFiniteSet(views)
  /\ metric \in [Items -> Counters \cup {None}]
JobsOK == DOMAIN job = Clients /\ job = [c \in Clients |-> job[c]] /\ \A c \in Clients : Placed(job[c])
ContentTypeInv == TablesOK /\ JobsOK

-----------------------------------------------------------------------------
(* The invariants *)

\* A row is locked by one transaction.
Exclusive == \A c, d \in Clients : c # d => Holds(c) \cap Holds(d) = {}

Alive(i) == ~\E e \in log : e.item = i /\ e.file = None

\* Who appends has locked its row, or deletes what is not there; its number is
\* beyond those of all changes of the row that left something.
LogOK == \A e \in log : e.seq <= sequence /\ Synced(e.item)
Owns(j) == <<"row", j.item>> \in j.locks
Secured(j) ==
  /\ j.at \in {"append", "commit"} =>
       /\ Owns(j) \/ (j.op = "push" /\ j.file = None)
       /\ j.op \in {"update", "archive"} => row[j.item] # None
       /\ j.op = "archive" => j.file # None
  /\ j.at = "commit" /\ Synced(j.item) => j.seq <= sequence
  /\ j.at = "commit" /\ Synced(j.item) /\ Owns(j) =>
       \A e \in log : e.item = j.item /\ e.file # None => e.seq < j.seq

\* Nobody else commits, or has committed, the mutation of who is to commit.
FreshId(c) ==
  job[c].at = "commit" /\ job[c].id # None =>
    /\ ~Applied(job[c].id)
    /\ \A d \in Clients \ {c} : job[d].at = "commit" => job[d].id # job[c].id

\* The rows held refer to the file, and both that they are there and that they
\* refer to it has been seen, or is still to be read.
Read(j, i, part) == <<KindOf[i], part>> \in j.tables \/ <<part, i, j.before>> \in j.used
HeldOK(j) ==
  j.held # {} =>
    /\ j.before # None
    /\ \A i \in j.held : /\ row[i] = j.before
                         /\ Read(j, i, "rows")
                         /\ (Apart(i, j.before) => Read(j, i, "parts"))

\* Marks to be dropped are there and locked, marks to be added are not and are.
Covered(j) ==
  /\ j.drop \subseteq j.locks \cap marks
  /\ j.add \subseteq j.locks
  /\ j.op = "star" => j.add \cap marks = {}
  /\ j.op = "view" /\ j.at = "count" =>
       <<j.user, j.item, "view">> \in j.locks /\ <<j.user, j.item, "view">> \notin views

\* What is looked at was there, and is unless it has been deleted since.
Rooted(j) == j.op \in LookOps /\ Alive(j.item) => row[j.item] # None

Hanging ==
  /\ \A i \in Items : Counted(i) /\ Alive(i) /\ row[i] # None => metric[i] # None
  /\ \A m \in marks \cup views : Counted(m[2]) /\ Alive(m[2]) => row[m[2]] # None

Mine(j) == Secured(j) /\ HeldOK(j) /\ Covered(j) /\ Rooted(j)
LogInv == LogOK /\ LatestChangeIsTheRow
ContentInv ==
  /\ ContentTypeInv /\ Exclusive /\ LogInv /\ Hanging /\ CountersAreRows
  /\ \A c \in Clients : Mine(job[c]) /\ FreshId(c)

-----------------------------------------------------------------------------
(* Steps that only change what a request has in hand. *)

USE DEF EditOps, LookOps, EditStages, LookStages, CleanStages

\* c goes on with k: what it has in hand then fits the tables as they are, and
\* what it has locked in addition nobody else held.
Fits(c, k) ==
  /\ Placed(k) /\ Mine(k)
  /\ \A r \in k.locks \ Holds(c) : ~Locked(c, r)
  /\ k.at = "commit" => k.id = None
Moves(c) == \E k : Fits(c, k) /\ job' = [job EXCEPT ![c] = k]

LEMMA QuietFits == \A c \in Clients : Fits(c, Quiet)
<1>1. Quiet \in Job
  BY ContentAssumption DEF Quiet, Job
<1>2. Edits(Quiet) /\ Cleans(Quiet) /\ Looks(Quiet)
  BY ContentAssumption DEF Quiet, Edits, Cleans, Looks
<1>3. Mine(Quiet)
  BY DEF Quiet, Mine, Secured, HeldOK, Covered, Rooted
<1>. QED BY <1>1, <1>2, <1>3 DEF Fits, Placed, Quiet

LEMMA AnswerMoves ==
  ASSUME NEW c \in Clients, Answer(c)
  PROVE  Moves(c)
BY QuietFits DEF Answer, Moves

\* A request that begins has nothing locked.
LEMMA StartMoves ==
  ASSUME NEW c \in Clients, NEW k, Start(c, k), Placed(k), Rooted(k),
         k.locks = {}, k.held = {}, k.drop = {}, k.add = {}, k.at \notin {"append", "commit", "count"}
  PROVE  Moves(c)
<1>1. Mine(k)
  BY DEF Mine, Secured, HeldOK, Covered
<1>. QED BY <1>1 DEF Moves, Fits, Start

LEMMA CreateMoves ==
  ASSUME ContentInv, NEW c \in Clients, Create(c)
  PROVE  Moves(c)
<1>1. PICK i \in Items, f \in Files :
        Start(c, [Quiet EXCEPT !.op = "create", !.at = "write", !.item = i, !.file = f])
  BY DEF Create
<1> DEFINE k == [Quiet EXCEPT !.op = "create", !.at = "write", !.item = i, !.file = f]
<1>2. k \in Job
  BY QuietFits DEF Quiet, Job
<1>3. Edits(k) /\ Cleans(k) /\ Looks(k)
  BY ContentAssumption DEF Quiet, Edits, Cleans, Looks
<1>. QED BY <1>1, <1>2, <1>3, StartMoves DEF Placed, Rooted, Quiet

LEMMA FindMoves ==
  ASSUME ContentInv, NEW c \in Clients, FindExisting(c)
  PROVE  Moves(c)
<1>1. PICK i \in Items, op \in {"update", "delete"}, f \in Files :
        Start(c, [Quiet EXCEPT !.op = op, !.at = IF op = "delete" THEN "purge" ELSE "write",
                   !.item = i, !.file = IF op = "delete" THEN None ELSE f, !.before = row[i]])
  BY DEF FindExisting
<1> DEFINE k == [Quiet EXCEPT !.op = op, !.at = IF op = "delete" THEN "purge" ELSE "write",
                   !.item = i, !.file = IF op = "delete" THEN None ELSE f, !.before = row[i]]
<1>2. row[i] \in Files \cup {None}
  BY DEF ContentInv, ContentTypeInv, TablesOK
<1>3. k \in Job
  BY <1>2, QuietFits DEF Quiet, Job
<1>4. Edits(k) /\ Cleans(k) /\ Looks(k)
  BY ContentAssumption DEF Quiet, Edits, Cleans, Looks
<1>5. /\ k.locks = {} /\ k.held = {} /\ k.drop = {} /\ k.add = {}
      /\ k.op \notin LookOps /\ k.at \notin {"append", "commit", "count"}
  BY DEF Quiet
<1> HIDE DEF k
<1>. QED BY <1>1, <1>3, <1>4, <1>5, StartMoves DEF k, Placed, Rooted

LEMMA ArchiveMoves ==
  ASSUME ContentInv, NEW c \in Clients, Archive(c)
  PROVE  Moves(c)
<1>1. PICK i \in Items : /\ KindOf[i] = "project"
                         /\ Start(c, [Quiet EXCEPT !.op = "archive", !.at = "write", !.item = i])
  BY DEF Archive
<1> DEFINE k == [Quiet EXCEPT !.op = "archive", !.at = "write", !.item = i]
<1>2. k \in Job
  BY QuietFits DEF Quiet, Job
<1>3. Edits(k) /\ Cleans(k) /\ Looks(k)
  BY <1>1, ContentAssumption DEF Quiet, Edits, Cleans, Looks
<1>. QED BY <1>1, <1>2, <1>3, StartMoves DEF Placed, Rooted, Quiet

LEMMA PushMoves ==
  ASSUME ContentInv, NEW c \in Clients, Push(c)
  PROVE  Moves(c) /\ sent' \in [Mutations -> Sent \cup {None}]
<1>1. sent \in [Mutations -> Sent \cup {None}]
  BY DEF ContentInv, ContentTypeInv, TablesOK
<1>2. ASSUME NEW m \in Mutations, NEW i \in Items, Synced(i), NEW f \in Files \cup {None}, NEW base \in Nat,
             Start(c, [Quiet EXCEPT !.op = "push", !.at = "prior", !.item = i, !.file = f,
                         !.id = m, !.base = base])
      PROVE  Moves(c)
  <2> DEFINE k == [Quiet EXCEPT !.op = "push", !.at = "prior", !.item = i, !.file = f,
                     !.id = m, !.base = base]
  <2>1. k \in Job
    BY QuietFits DEF Quiet, Job
  <2>2. Edits(k) /\ Cleans(k) /\ Looks(k)
    BY <1>2, ContentAssumption DEF Quiet, Edits, Cleans, Looks
  <2>. QED BY <1>2, <2>1, <2>2, StartMoves DEF Placed, Rooted, Quiet
<1>3. PICK m \in Mutations :
       \/ /\ sent[m] = None
          /\ \E i \in Items, f \in Files \cup {None}, base \in {0} \cup {e.seq : e \in log} :
               /\ Synced(i)
               /\ Start(c, [Quiet EXCEPT !.op = "push", !.at = "prior", !.item = i, !.file = f,
                                         !.id = m, !.base = base])
               /\ sent' = [sent EXCEPT ![m] = [item |-> i, file |-> f, base |-> base]]
       \/ /\ sent[m] # None
          /\ Start(c, [Quiet EXCEPT !.op = "push", !.at = "prior", !.item = sent[m].item,
                        !.file = sent[m].file, !.id = m, !.base = sent[m].base])
          /\ UNCHANGED sent
  BY DEF Push
<1>4. CASE sent[m] = None
  <2>1. PICK i \in Items, f \in Files \cup {None}, base \in {0} \cup {e.seq : e \in log} :
               /\ Synced(i)
               /\ Start(c, [Quiet EXCEPT !.op = "push", !.at = "prior", !.item = i, !.file = f,
                                         !.id = m, !.base = base])
               /\ sent' = [sent EXCEPT ![m] = [item |-> i, file |-> f, base |-> base]]
    BY <1>3, <1>4
  <2>2. \A e \in log : e.seq \in Nat
    BY DEF ContentInv, ContentTypeInv, TablesOK, Change
  <2>3. base \in Nat
    BY <2>2
  <2>4. [item |-> i, file |-> f, base |-> base] \in Sent
    BY <2>1, <2>3 DEF Sent
  <2>. QED BY <1>1, <1>2, <2>1, <2>3, <2>4
<1>5. CASE sent[m] # None
  <2>1. /\ sent[m] \in Sent /\ sent' = sent
        /\ Start(c, [Quiet EXCEPT !.op = "push", !.at = "prior", !.item = sent[m].item,
                        !.file = sent[m].file, !.id = m, !.base = sent[m].base])
    BY <1>1, <1>3, <1>5
  <2>2. /\ sent[m].item \in Items /\ Synced(sent[m].item)
        /\ sent[m].file \in Files \cup {None} /\ sent[m].base \in Nat
    BY <2>1 DEF Sent
  <2>. QED BY <1>1, <1>2, <2>1, <2>2
<1>. QED BY <1>4, <1>5

LEMMA EngageMoves ==
  ASSUME ContentInv, NEW c \in Clients, Engage(c)
  PROVE  Moves(c)
<1>1. PICK i \in Items, u \in Users, op \in LookOps :
        /\ Counted(i) /\ row[i] # None
        /\ Start(c, [Quiet EXCEPT !.op = op, !.at = "ensure", !.item = i, !.user = u])
  BY DEF Engage
<1> DEFINE k == [Quiet EXCEPT !.op = op, !.at = "ensure", !.item = i, !.user = u]
<1>2. k \in Job
  BY QuietFits DEF Quiet, Job
<1>3. Edits(k) /\ Cleans(k) /\ Looks(k)
  BY <1>1, ContentAssumption DEF Quiet, Edits, Cleans, Looks
<1>4. Rooted(k)
  BY <1>1 DEF Rooted, Quiet
<1>. QED BY <1>1, <1>2, <1>3, <1>4, StartMoves DEF Placed, Quiet

\* What is known of the request that moves.
LEMMA InHand ==
  ASSUME ContentInv, NEW c \in Clients
  PROVE  /\ Placed(job[c]) /\ Mine(job[c]) /\ Item(c) = job[c].item /\ Item(c) \in Items
         /\ row[Item(c)] \in Files \cup {None}
         /\ \A k : [job EXCEPT ![c] = k] = [d \in Clients |-> IF d = c THEN k ELSE job[d]]
         /\ DOMAIN job = Clients
BY DEF ContentInv, ContentTypeInv, JobsOK, TablesOK, Placed, Job, Item

\* Only the stage changes, to one that asks no more than the stage before.
LEMMA GoToMoves ==
  ASSUME ContentInv, NEW c \in Clients, NEW at, GoTo(c, at),
         Placed([job[c] EXCEPT !.at = at]), at \notin {"append", "commit", "count"}
  PROVE  Moves(c)
<1> DEFINE j == job[c]
           k == [j EXCEPT !.at = at]
<1>1. Placed(j) /\ Mine(j)
  BY InHand
<1>2. /\ k.op = j.op /\ k.item = j.item /\ k.locks = j.locks /\ k.held = j.held /\ k.before = j.before
      /\ k.tables = j.tables /\ k.used = j.used /\ k.drop = j.drop /\ k.add = j.add /\ k.at = at
  BY <1>1 DEF Placed, Job
<1>3. Mine(k)
  <2> HIDE DEF k, j
  <2>. QED BY <1>1, <1>2 DEF Mine, Secured, HeldOK, Read, Covered, Rooted
<1>4. job' = [job EXCEPT ![c] = k]
  BY DEF GoTo
<1>5. Fits(c, k)
  <2> HIDE DEF k
  <2>. QED BY <1>2, <1>3 DEF k, Fits, Holds
<1>. QED BY <1>4, <1>5 DEF Moves

LEMMA Staged ==
  ASSUME NEW j, Placed(j), NEW at,
         \/ j.at = "prior" /\ at = "duplicate"
         \/ j.at = "duplicate" /\ at = "latest"
         \/ j.at = "latest" /\ at = "purge" /\ j.file = None
         \/ j.at = "latest" /\ at = "exists" /\ j.file # None
         \/ j.at = "write" /\ at = "append"
  PROVE  Placed([j EXCEPT !.at = at])
<1> DEFINE k == [j EXCEPT !.at = at]
<1>1. k \in Job
  BY DEF Placed, Job
<1>2. Edits(k)
  BY DEF Placed, Job, Edits
<1>3. Cleans(k)
  BY DEF Placed, Job, Edits, Cleans
<1>4. Looks(k)
  BY DEF Placed, Job, Edits, Looks
<1>. QED BY <1>1, <1>2, <1>3, <1>4 DEF Placed

LEMMA LookUpMoves ==
  ASSUME ContentInv, NEW c \in Clients, Prior(c) \/ Duplicate(c) \/ CheckBase(c)
  PROVE  Moves(c)
<1>1. Placed(job[c])
  BY InHand
<1>2. CASE Prior(c)
  BY <1>1, <1>2, Staged, AnswerMoves, GoToMoves DEF Prior, At
<1>3. CASE Duplicate(c)
  BY <1>1, <1>3, Staged, AnswerMoves, GoToMoves DEF Duplicate, At
<1>4. CASE CheckBase(c)
  <2>1. CASE Conflicts(c)
    BY <1>4, <2>1, AnswerMoves DEF CheckBase
  <2>2. CASE ~Conflicts(c) /\ job[c].file = None
    BY <1>1, <1>4, <2>2, Staged, GoToMoves DEF CheckBase, At
  <2>3. CASE ~Conflicts(c) /\ job[c].file # None
    BY <1>1, <1>4, <2>3, Staged, GoToMoves DEF CheckBase, At
  <2>. QED BY <2>1, <2>2, <2>3
<1>. QED BY <1>2, <1>3, <1>4

LEMMA ExistsMoves ==
  ASSUME ContentInv, NEW c \in Clients, Exists(c)
  PROVE  Moves(c)
<1> DEFINE j == job[c]
           k == [j EXCEPT !.at = "write", !.before = row[Item(c)]]
<1>1. /\ Placed(j) /\ Mine(j) /\ j.at = "exists" /\ row[Item(c)] \in Files \cup {None}
      /\ job' = [job EXCEPT ![c] = k]
  BY InHand DEF Exists, At
<1> HIDE DEF j
<1>2. k \in Job
  BY <1>1 DEF Placed, Job
<1>3. /\ k.op = j.op /\ k.item = j.item /\ k.locks = j.locks /\ k.held = j.held
      /\ k.drop = j.drop /\ k.add = j.add /\ k.at = "write"
  BY <1>1 DEF Placed, Job
<1>4. j.op = "push" /\ j.held = {} /\ j.drop = {}
  BY <1>1 DEF Placed, Edits, Cleans
<1>5. Edits(k) /\ Cleans(k) /\ Looks(k)
  BY <1>1, <1>4 DEF Placed, Job, Edits, Cleans, Looks
<1>6. Mine(k)
  <2> HIDE DEF k
  <2>. QED BY <1>1, <1>3, <1>4 DEF Mine, Secured, HeldOK, Covered, Rooted
<1>7. Fits(c, k)
  <2> HIDE DEF k
  <2>. QED BY <1>2, <1>3, <1>5, <1>6 DEF j, Fits, Placed, Holds
<1>. QED BY <1>1, <1>7 DEF Moves

LEMMA LockedJob ==
  ASSUME NEW j \in Job, NEW locks \in SUBSET Locks, NEW f \in Files \cup {None}, NEW at \in EditStages
  PROVE  [j EXCEPT !.locks = locks, !.file = f, !.at = at] \in Job
<1>1. [j EXCEPT !.locks = locks] \in Job
  BY DEF Job
<1>2. \A k \in Job : [k EXCEPT !.file = f] \in Job
  BY DEF Job
<1>3. \A k \in Job : [k EXCEPT !.at = at] \in Job
  BY DEF Job
<1>. QED BY <1>1, <1>2, <1>3

\* Its row locked, an edit goes on to append its change, or to commit.
LEMMA WrittenMoves ==
  ASSUME ContentInv, NEW c \in Clients, Written(c), At(c, "write"), ~Locked(c, Row(c)),
         job[c].op \in {"update", "archive"} => row[Item(c)] # None
  PROVE  Moves(c)
<1> DEFINE j == job[c]
           f == IF j.op = "archive" THEN row[Item(c)] ELSE j.file
           at == IF Synced(Item(c)) THEN "append" ELSE "commit"
           locks == j.locks \cup {Row(c)}
           k == [j EXCEPT !.locks = locks, !.file = f, !.at = at]
<1>1. /\ Placed(j) /\ Mine(j) /\ j.at = "write" /\ row[Item(c)] \in Files \cup {None}
      /\ Item(c) = j.item /\ j.item \in Items
  BY InHand DEF At
<1>2. job' = [job EXCEPT ![c] = k]
  BY <1>1, InHand DEF Written
<1>3. f \in Files \cup {None} /\ (f # j.file => j.op = "archive") /\ (j.op = "archive" => f # None)
  BY <1>1 DEF Placed, Job
<1>4. at \in {"append", "commit"} /\ (at = "append" <=> Synced(j.item))
  BY <1>1
<1>5. Row(c) = <<"row", j.item>> /\ Row(c) \in Locks
  BY <1>1 DEF Row, Locks
<1> HIDE DEF j, f, at, locks
<1>6. k \in Job
  <2>1. locks \in SUBSET Locks
    BY <1>1, <1>5 DEF locks, Placed, Job
  <2>2. at \in EditStages /\ f \in Files \cup {None}
    BY <1>3, <1>4
  <2>3. j \in Job
    BY <1>1 DEF Placed
  <2>. QED BY <2>1, <2>2, <2>3, LockedJob
<1>7. /\ k.op = j.op /\ k.item = j.item /\ k.locks = j.locks \cup {Row(c)} /\ k.held = j.held
      /\ k.drop = j.drop /\ k.add = j.add /\ k.at = at /\ k.file = f /\ k.id = j.id
      /\ k.wanted = j.wanted /\ k.before = j.before
  BY <1>1 DEF locks, Placed, Job
<1> HIDE DEF k
<1>8. j.op \in EditOps /\ j.held = {} /\ (j.op = "push" => at = "append") /\ (j.op # "push" => j.id = None)
  BY <1>1, <1>4 DEF Placed, Edits, Cleans
<1>9. Edits(k)
  BY <1>1, <1>3, <1>4, <1>7, <1>8 DEF Placed, Edits
<1>10. Cleans(k) /\ Looks(k)
  BY <1>4, <1>7, <1>8 DEF Cleans, Looks
<1>11. Mine(k)
  BY <1>1, <1>3, <1>4, <1>5, <1>7, <1>8 DEF j, Mine, Secured, HeldOK, Covered, Rooted, Owns
<1>12. Fits(c, k)
  BY <1>4, <1>6, <1>7, <1>8, <1>9, <1>10, <1>11 DEF j, Fits, Placed, Holds
<1>. QED BY <1>2, <1>12 DEF Moves

LEMMA WriteMoves ==
  ASSUME ContentInv, NEW c \in Clients, Write(c)
  PROVE  Moves(c)
<1> DEFINE j == job[c]
           k == [j EXCEPT !.at = "append"]
<1>1. Placed(j) /\ Mine(j) /\ j.at = "write"
  BY InHand DEF Write, At
<1>2. CASE j.op = "push" /\ j.file = None /\ row[Item(c)] = None
  <2>1. Placed(k) /\ job' = [job EXCEPT ![c] = k]
    BY <1>1, <1>2, Staged DEF Write, GoTo
  <2> HIDE DEF j
  <2>2. /\ k.op = j.op /\ k.item = j.item /\ k.locks = j.locks /\ k.held = j.held /\ k.before = j.before
        /\ k.tables = j.tables /\ k.used = j.used /\ k.drop = j.drop /\ k.add = j.add /\ k.at = "append"
        /\ k.file = j.file
    BY <1>1 DEF Placed, Job
  <2> HIDE DEF k
  <2>3. Mine(k)
    BY <1>1, <1>2, <2>2 DEF Mine, Secured, HeldOK, Read, Covered, Rooted
  <2>. QED BY <2>1, <2>2, <2>3 DEF j, Moves, Fits, Holds
<1>3. CASE Answer(c)
  BY <1>3, AnswerMoves
<1>4. CASE Written(c) /\ (j.op \in {"update", "archive"} => row[Item(c)] # None)
  BY <1>4, WrittenMoves DEF Write
<1>5. \/ j.op = "push" /\ j.file = None /\ row[Item(c)] = None
      \/ Answer(c)
      \/ Written(c) /\ (j.op \in {"update", "archive"} => row[Item(c)] # None)
  BY DEF Write, Missing
<1>. QED BY <1>2, <1>3, <1>4, <1>5

LEMMA ReadTableMoves ==
  ASSUME ContentInv, NEW c \in Clients, ReadTable(c)
  PROVE  Moves(c)
<1> DEFINE j == job[c]
<1>1. PICK t \in j.tables :
        job' = [job EXCEPT ![c].tables = @ \ {t}, ![c].used = @ \cup Refers(t),
                  ![c].at = IF job[c].tables = {t} THEN "remove" ELSE "tables"]
  BY DEF ReadTable
<1> DEFINE at == IF j.tables = {t} THEN "remove" ELSE "tables"
           k == [j EXCEPT !.tables = @ \ {t}, !.used = @ \cup Refers(t), !.at = at]
<1>2. Placed(j) /\ Mine(j) /\ j.at = "tables"
  BY InHand DEF ReadTable, At
<1>3. job' = [job EXCEPT ![c] = k]
  BY <1>1, <1>2, InHand
<1>0. t \in Statements
  BY <1>1, <1>2 DEF Placed, Job
<1>4. /\ Refers(t) \subseteq References
      /\ \A i \in Items : t = <<KindOf[i], "rows">> /\ row[i] # None => <<"rows", i, row[i]>> \in Refers(t)
      /\ \A i \in Items : t = <<KindOf[i], "parts">> /\ row[i] # None /\ Apart(i, row[i])
                          => <<"parts", i, row[i]>> \in Refers(t)
  BY <1>0 DEF Refers, ContentInv, ContentTypeInv, TablesOK, Statements, References
<1>5. at \in CleanStages /\ (at = "remove" <=> j.tables = {t})
  OBVIOUS
<1> HIDE DEF j, at
<1>6. k \in Job
  BY <1>2, <1>4, <1>5 DEF Placed, Job
<1>7. /\ k.op = j.op /\ k.item = j.item /\ k.locks = j.locks /\ k.held = j.held
      /\ k.drop = j.drop /\ k.add = j.add /\ k.at = at /\ k.before = j.before /\ k.id = j.id
      /\ k.tables = j.tables \ {t} /\ k.used = j.used \cup Refers(t)
  BY <1>2, <1>4, <1>5 DEF Placed, Job
<1> HIDE DEF k
<1>8. j.op = "cleanup" /\ j.drop = {} /\ j.add = {} /\ j.id = None
  BY <1>2 DEF Placed, Edits, Cleans
<1>9. Edits(k) /\ Cleans(k) /\ Looks(k)
  BY <1>5, <1>7, <1>8 DEF Edits, Cleans, Looks
<1>10. HeldOK(k)
  <2>1. j.held \subseteq Items
    BY <1>2 DEF Placed, Job
  <2>2. ASSUME NEW i \in j.held, NEW part \in {"rows", "parts"}, Read(j, i, part), row[i] = j.before,
               j.before # None, part = "parts" => Apart(i, j.before)
        PROVE  Read(k, i, part)
    BY <1>4, <1>7, <2>1, <2>2 DEF Read
  <2>3. \A i \in j.held : /\ j.before # None /\ row[i] = j.before /\ Read(j, i, "rows")
                          /\ (Apart(i, j.before) => Read(j, i, "parts"))
    <3> SUFFICES ASSUME NEW i \in j.held
                 PROVE  /\ j.before # None /\ row[i] = j.before /\ Read(j, i, "rows")
                        /\ (Apart(i, j.before) => Read(j, i, "parts"))
      OBVIOUS
    <3>1. HeldOK(j) /\ j.held # {}
      BY <1>2 DEF Mine
    <3>. QED BY <3>1 DEF HeldOK, Read
  <2>4. \A i \in j.held : Read(k, i, "rows") /\ (Apart(i, j.before) => Read(k, i, "parts"))
    BY <2>2, <2>3
  <2>. QED BY <1>7, <2>3, <2>4 DEF HeldOK, Read
<1>11. Mine(k)
  BY <1>5, <1>7, <1>8, <1>10 DEF Mine, Secured, Covered, Rooted
<1>12. Fits(c, k)
  BY <1>5, <1>6, <1>7, <1>9, <1>11 DEF j, Fits, Placed, Holds
<1>. QED BY <1>3, <1>12 DEF Moves

\* The steps of who looks, reacts or counts.
LEMMA LookFits ==
  ASSUME ContentInv, NEW c \in Clients, job[c].op \in LookOps, NEW k \in Job,
         k.op = job[c].op, k.item = job[c].item, k.held = job[c].held, k.id = job[c].id, k.user = job[c].user,
         k.at \in LookStages, Looks(k), Covered(k), \A r \in k.locks \ Holds(c) : ~Locked(c, r)
  PROVE  Fits(c, k)
<1>1. Placed(job[c]) /\ Mine(job[c])
  BY InHand
<1>2. k.held = {} /\ k.id = None /\ k.op # "push"
  BY <1>1 DEF Placed, Edits, Cleans
<1>3. Edits(k) /\ Cleans(k)
  BY <1>2 DEF Edits, Cleans
<1>4. Mine(k)
  BY <1>1, <1>2 DEF Mine, Secured, HeldOK, Rooted
<1>. QED BY <1>3, <1>4 DEF Fits, Placed

LEMMA MarkTyped ==
  ASSUME ContentInv, NEW c \in Clients, job[c].user \in Users
  PROVE  \A kind \in MarkKinds : /\ Mark(c, kind) = <<job[c].user, job[c].item, kind>>
                                 /\ Mark(c, kind) \in Marks /\ Mark(c, kind) \in Locks /\ Mark(c, kind)[3] = kind
BY InHand DEF Mark, Marks, Locks

LEMMA EnsureMoves ==
  ASSUME ContentInv, NEW c \in Clients, Ensure(c)
  PROVE  Moves(c)
<1> DEFINE j == job[c]
           locks == IF HasCounter(c) THEN j.locks ELSE {Counter(c)}
           at == IF j.op = "view" THEN "event" ELSE "look"
           k == [j EXCEPT !.locks = locks, !.at = at]
<1>1. Placed(j) /\ Mine(j) /\ j.at = "ensure"
  BY InHand DEF Ensure, At
<1>2. job' = [job EXCEPT ![c] = k]
  BY <1>1, InHand DEF Ensure
<1>3. j.locks \in SUBSET Locks /\ Counter(c) \in Locks
  BY <1>1, InHand DEF Placed, Job, Counter, Locks
<1>4. at \in {"event", "look"} /\ (at = "event" <=> j.op = "view") /\ locks \in SUBSET Locks
  BY <1>3
<1>5. \A r \in locks \ Holds(c) : ~Locked(c, r)
  BY DEF Ensure, Wait, Holds
<1> HIDE DEF j, at, locks
<1>6. k \in Job
  BY <1>1, <1>4 DEF Placed, Job
<1>7. /\ k.op = j.op /\ k.item = j.item /\ k.locks = locks /\ k.held = j.held /\ k.user = j.user
      /\ k.drop = j.drop /\ k.add = j.add /\ k.at = at /\ k.id = j.id /\ k.wanted = j.wanted
  BY <1>1 DEF Placed, Job
<1> HIDE DEF k
<1>8. j.op \in LookOps /\ j.drop = {} /\ j.add = {}
  BY <1>1 DEF Placed, Looks
<1>9. Looks(k)
  BY <1>1, <1>4, <1>7, <1>8 DEF Placed, Looks
<1>10. Covered(k)
  BY <1>4, <1>7, <1>8 DEF Covered
<1>11. Fits(c, k)
  BY <1>4, <1>5, <1>6, <1>7, <1>8, <1>9, <1>10, LookFits DEF j
<1>. QED BY <1>2, <1>11 DEF Moves

LEMMA EventMoves ==
  ASSUME ContentInv, NEW c \in Clients, Event(c)
  PROVE  Moves(c)
<1> DEFINE j == job[c]
           locks == IF Seen(c) THEN {} ELSE j.locks \cup {Mark(c, "view")}
           at == IF Seen(c) THEN "again" ELSE "count"
           k == [j EXCEPT !.at = at, !.locks = locks]
<1>1. Placed(j) /\ Mine(j) /\ j.at = "event"
  BY InHand DEF Event, At
<1>2. job' = [job EXCEPT ![c] = k]
  BY <1>1, InHand DEF Event
<1>3. j.op = "view" /\ j.user \in Users /\ j.drop = {} /\ j.add = {} /\ Counted(j.item)
  BY <1>1 DEF Placed, Looks
<1>4. Mark(c, "view") = <<j.user, j.item, "view">> /\ Mark(c, "view") \in Locks
  BY <1>3, MarkTyped DEF MarkKinds
<1>5. locks \in SUBSET Locks /\ at \in {"again", "count"}
  BY <1>1, <1>4 DEF Placed, Job
<1>6. at = "count" => Mark(c, "view") \in locks /\ Mark(c, "view") \notin views
  BY DEF Seen
<1>7. \A r \in locks \ Holds(c) : ~Locked(c, r)
  BY DEF Event, Wait, Holds
<1> HIDE DEF j, at, locks
<1>8. k \in Job
  BY <1>1, <1>5 DEF Placed, Job
<1>9. /\ k.op = j.op /\ k.item = j.item /\ k.locks = locks /\ k.held = j.held /\ k.user = j.user
      /\ k.drop = j.drop /\ k.add = j.add /\ k.at = at /\ k.id = j.id
  BY <1>1 DEF Placed, Job
<1> HIDE DEF k
<1>10. Looks(k) /\ Covered(k)
  BY <1>3, <1>4, <1>5, <1>6, <1>9 DEF Looks, Covered
<1>11. Fits(c, k)
  BY <1>3, <1>5, <1>7, <1>8, <1>9, <1>10, LookFits DEF j
<1>. QED BY <1>2, <1>11 DEF Moves

LEMMA LookMoves ==
  ASSUME ContentInv, NEW c \in Clients, Look(c)
  PROVE  Moves(c)
<1> DEFINE j == job[c]
           at == IF j.op = "star" THEN "mark" ELSE IF j.op = "unstar" THEN "unmark" ELSE "want"
           k == [j EXCEPT !.had = Found(c), !.at = at]
<1>1. CASE Idempotent(c)
  BY <1>1, AnswerMoves DEF Look
<1>2. CASE ~Idempotent(c)
  <2>1. Placed(j) /\ Mine(j) /\ j.at = "look"
    BY InHand DEF Look, At
  <2>2. job' = [job EXCEPT ![c] = k]
    BY <1>2, <2>1, InHand DEF Look
  <2>3. /\ j.op \in LookOps \ {"view"} /\ j.user \in Users /\ j.drop = {} /\ j.add = {} /\ Counted(j.item)
        /\ j.op \in {"like", "dislike", "unlike"} => \A m \in j.wanted : m[3] # "star"
    BY <2>1 DEF Placed, Looks
  <2>4. Found(c) \in SUBSET MarkKinds
    BY DEF Found, Kinds, MarkKinds
  <2>5. (j.op = "star" => Found(c) = {}) /\ (j.op = "unstar" => Found(c) = {"star"})
    BY <1>2 DEF Idempotent, Found, Wants, Kinds
  <2>6. at \in {"mark", "unmark", "want"}
    OBVIOUS
  <2>7. (j.op = "star" <=> at = "mark") /\ (j.op = "unstar" <=> at = "unmark")
    OBVIOUS
  <2> HIDE DEF j, at
  <2>8. k \in Job
    BY <2>1, <2>4, <2>6 DEF Placed, Job
  <2>9. /\ k.op = j.op /\ k.item = j.item /\ k.locks = j.locks /\ k.held = j.held /\ k.user = j.user
        /\ k.drop = j.drop /\ k.add = j.add /\ k.at = at /\ k.id = j.id /\ k.wanted = j.wanted /\ k.had = Found(c)
    BY <2>1 DEF Placed, Job
  <2> HIDE DEF k
  <2>10. Looks(k) /\ Covered(k)
    BY <2>3, <2>5, <2>6, <2>7, <2>9 DEF Looks, Covered
  <2>11. Fits(c, k)
    BY <2>3, <2>6, <2>8, <2>9, <2>10, LookFits DEF j, Holds
  <2>. QED BY <2>2, <2>11 DEF Moves
<1>. QED BY <1>1, <1>2

LEMMA WantMoves ==
  ASSUME ContentInv, NEW c \in Clients, Want(c)
  PROVE  Moves(c)
<1> DEFINE j == job[c]
           rows == {Mark(c, kind) : kind \in Found(c)}
           k == [j EXCEPT !.wanted = rows, !.at = "unmark"]
<1>1. Placed(j) /\ Mine(j) /\ j.at = "want"
  BY InHand DEF Want, At
<1>2. job' = [job EXCEPT ![c] = k]
  BY <1>1, InHand DEF Want
<1>3. /\ j.op \in {"like", "dislike", "unlike"} /\ j.user \in Users /\ Counted(j.item)
      /\ j.drop = {} /\ j.add = {}
  BY <1>1 DEF Placed, Looks
<1>4. Found(c) \subseteq {"like", "dislike"}
  BY <1>3 DEF Found, Kinds
<1>5. rows \in SUBSET Marks /\ \A m \in rows : m[3] # "star"
  BY <1>3, <1>4, MarkTyped DEF MarkKinds
<1> HIDE DEF j, rows
<1>6. k \in Job
  BY <1>1, <1>5 DEF Placed, Job
<1>7. /\ k.op = j.op /\ k.item = j.item /\ k.locks = j.locks /\ k.held = j.held /\ k.user = j.user
      /\ k.drop = j.drop /\ k.add = j.add /\ k.at = "unmark" /\ k.id = j.id /\ k.wanted = rows
  BY <1>1 DEF Placed, Job
<1> HIDE DEF k
<1>8. Looks(k) /\ Covered(k)
  BY <1>3, <1>5, <1>7 DEF Looks, Covered
<1>9. Fits(c, k)
  BY <1>3, <1>6, <1>7, <1>8, LookFits DEF j, Holds
<1>. QED BY <1>2, <1>9 DEF Moves

LEMMA UnmarkMoves ==
  ASSUME ContentInv, NEW c \in Clients, Unmark(c)
  PROVE  Moves(c)
<1> DEFINE j == job[c]
           rows == IF j.op = "unstar" THEN {Mark(c, "star")} ELSE j.wanted
           drop == rows \cap marks
           at == IF Wants(c) = {} THEN "count" ELSE "mark"
           k == [j EXCEPT !.drop = drop, !.locks = @ \cup drop, !.at = at]
<1>1. CASE j.op = "unstar" /\ ~(rows \subseteq marks)
  BY <1>1, AnswerMoves DEF Unmark
<1>2. CASE ~(j.op = "unstar" /\ ~(rows \subseteq marks))
  <2>1. Placed(j) /\ Mine(j) /\ j.at = "unmark"
    BY InHand DEF Unmark, At
  <2>2. job' = [job EXCEPT ![c] = k]
    <3>1. job' = [job EXCEPT ![c].drop = rows \cap marks, ![c].locks = @ \cup (rows \cap marks),
                    ![c].at = IF Wants(c) = {} THEN "count" ELSE "mark"]
      BY <1>2 DEF Unmark
    <3>. QED BY <3>1, <2>1, InHand
  <2>3. /\ j.op \in {"unstar", "like", "dislike", "unlike"} /\ j.user \in Users /\ Counted(j.item)
        /\ j.drop = {} /\ j.add = {} /\ (j.op = "unstar" => j.had = {"star"})
        /\ j.op # "unstar" => \A m \in j.wanted : m[3] # "star"
    BY <2>1 DEF Placed, Looks
  <2>4. /\ Mark(c, "star") = <<j.user, j.item, "star">> /\ Mark(c, "star") \in Marks
        /\ j.wanted \in SUBSET Marks /\ j.locks \in SUBSET Locks /\ Marks \subseteq Locks
    BY <2>1, <2>3, MarkTyped DEF MarkKinds, Placed, Job, Locks
  <2>5. drop \in SUBSET Marks /\ drop \subseteq marks /\ j.locks \cup drop \in SUBSET Locks
    BY <2>4
  <2>6. IF j.op = "unstar" THEN drop = {<<j.user, j.item, "star">>} ELSE \A m \in drop : m[3] # "star"
    BY <1>2, <2>3, <2>4
  <2>7. /\ at \in {"count", "mark"} /\ (j.op \in {"unstar", "unlike"} => at = "count")
    BY <2>3 DEF Wants, Kinds
  <2>8. \A r \in (j.locks \cup drop) \ Holds(c) : ~Locked(c, r)
    BY DEF Unmark, Wait, Holds
  <2> HIDE DEF j, rows, drop, at
  <2>9. k \in Job
    BY <2>1, <2>5, <2>7 DEF Placed, Job
  <2>10. /\ k.op = j.op /\ k.item = j.item /\ k.locks = j.locks \cup drop /\ k.held = j.held /\ k.user = j.user
         /\ k.drop = drop /\ k.add = j.add /\ k.at = at /\ k.id = j.id /\ k.wanted = j.wanted /\ k.had = j.had
    BY <2>1 DEF Placed, Job
  <2> HIDE DEF k
  <2>11. Looks(k) /\ Covered(k)
    BY <2>3, <2>5, <2>6, <2>7, <2>10 DEF Looks, Covered
  <2>12. Fits(c, k)
    BY <2>3, <2>7, <2>8, <2>9, <2>10, <2>11, LookFits DEF j
  <2>. QED BY <2>2, <2>12 DEF Moves
<1>. QED BY <1>1, <1>2

LEMMA MarkItMoves ==
  ASSUME ContentInv, NEW c \in Clients, MarkIt(c)
  PROVE  Moves(c)
<1> DEFINE j == job[c]
           m == Mark(c, j.op)
           k == [j EXCEPT !.add = {m}, !.locks = @ \cup {m}, !.at = "count"]
<1>1. CASE m \in marks \ j.drop
  BY <1>1, AnswerMoves DEF MarkIt
<1>2. CASE m \notin marks \ j.drop
  <2>1. Placed(j) /\ Mine(j) /\ j.at = "mark"
    BY InHand DEF MarkIt, At
  <2>2. job' = [job EXCEPT ![c] = k]
    <3>1. job' = [job EXCEPT ![c].add = {m}, ![c].locks = @ \cup {m}, ![c].at = "count"]
      BY <1>2 DEF MarkIt
    <3>. QED BY <3>1, <2>1, InHand
  <2>3. /\ j.op \in {"star", "like", "dislike"} /\ j.user \in Users /\ Counted(j.item)
        /\ j.op = "star" => j.drop = {} /\ j.had = {}
        /\ j.op # "star" => \A n \in j.wanted \cup j.drop : n[3] # "star"
    BY <2>1 DEF Placed, Looks
  <2>4. m = <<j.user, j.item, j.op>> /\ m[3] = j.op /\ m \in Marks /\ m \in Locks
    BY <2>3, MarkTyped DEF MarkKinds
  <2>5. j.drop \subseteq j.locks \cap marks
    BY <2>1 DEF Mine, Covered
  <2>6. j.op = "star" => m \notin marks
    BY <1>2, <2>3
  <2>7. \A r \in (j.locks \cup {m}) \ Holds(c) : ~Locked(c, r)
    BY DEF MarkIt, Wait, Holds
  <2>8. {m} \in SUBSET Marks /\ j.locks \cup {m} \in SUBSET Locks
    BY <2>1, <2>4 DEF Placed, Job
  <2> HIDE DEF j, m
  <2>9. k \in Job
    BY <2>1, <2>8 DEF Placed, Job
  <2>10. /\ k.op = j.op /\ k.item = j.item /\ k.locks = j.locks \cup {m} /\ k.held = j.held /\ k.user = j.user
        /\ k.drop = j.drop /\ k.add = {m} /\ k.at = "count" /\ k.id = j.id /\ k.wanted = j.wanted /\ k.had = j.had
    BY <2>1 DEF Placed, Job
  <2> HIDE DEF k
  <2>11. Looks(k) /\ Covered(k)
    BY <2>3, <2>4, <2>5, <2>6, <2>10 DEF Looks, Covered
  <2>12. Fits(c, k)
    BY <2>3, <2>7, <2>9, <2>10, <2>11, LookFits DEF j
  <2>. QED BY <2>2, <2>12 DEF Moves
<1>. QED BY <1>1, <1>2

\* The steps of who deletes what hangs on a row.
LEMMA PurgeFits ==
  ASSUME ContentInv, NEW c \in Clients, job[c].at \in {"purge", "marks", "metric"}, NEW k \in Job,
         k.op = job[c].op, k.item = job[c].item, k.held = job[c].held, k.id = job[c].id,
         k.file = job[c].file, k.add = job[c].add, k.at \in {"marks", "metric", "write"},
         k.at = "marks" => k.drop = {},
         \A m \in k.wanted \cup k.drop : m[2] = k.item /\ Counted(k.item),
         k.drop \subseteq k.locks \cap marks,
         \A r \in k.locks \ Holds(c) : ~Locked(c, r)
  PROVE  Fits(c, k)
<1>1. Placed(job[c]) /\ Mine(job[c])
  BY InHand
<1>2. /\ k.op \in {"delete", "push"} /\ k.file = None /\ k.held = {} /\ k.add = {}
      /\ IF k.op = "push" THEN k.id \in Mutations /\ Synced(k.item) ELSE k.id = None
  BY <1>1 DEF Placed, Edits, Cleans
<1>3. Edits(k) /\ Cleans(k) /\ Looks(k)
  BY <1>2 DEF Edits, Cleans, Looks
<1>4. Mine(k)
  BY <1>2 DEF Mine, Secured, HeldOK, Covered, Rooted
<1>. QED BY <1>3, <1>4 DEF Fits, Placed

LEMMA PurgeMoves ==
  ASSUME ContentInv, NEW c \in Clients, Purge(c)
  PROVE  Moves(c)
<1> DEFINE j == job[c]
           rows == IF Purged(c) THEN {m \in marks : m[2] = Item(c)} ELSE {}
           at == IF Purged(c) THEN "marks" ELSE "write"
           k == [j EXCEPT !.wanted = rows, !.at = at]
<1>1. Placed(j) /\ Mine(j) /\ j.at = "purge" /\ Item(c) = j.item
  BY InHand DEF Purge, At
<1>2. job' = [job EXCEPT ![c] = k]
  BY <1>1, InHand DEF Purge
<1>3. j.drop = {}
  BY <1>1 DEF Placed, Edits
<1>4. rows \in SUBSET Marks /\ \A m \in rows : m[2] = j.item /\ Counted(j.item)
  BY <1>1 DEF Purged, ContentInv, ContentTypeInv, TablesOK
<1>5. at \in {"marks", "write"}
  OBVIOUS
<1> HIDE DEF j, rows, at
<1>6. k \in Job
  BY <1>1, <1>4, <1>5 DEF Placed, Job
<1>7. /\ k.op = j.op /\ k.item = j.item /\ k.locks = j.locks /\ k.held = j.held /\ k.file = j.file
      /\ k.drop = j.drop /\ k.add = j.add /\ k.at = at /\ k.id = j.id /\ k.wanted = rows
  BY <1>1 DEF Placed, Job
<1> HIDE DEF k
<1>8. Fits(c, k)
  BY <1>1, <1>3, <1>4, <1>5, <1>6, <1>7, PurgeFits DEF j, Holds
<1>. QED BY <1>2, <1>8 DEF Moves

LEMMA PurgeMarksMoves ==
  ASSUME ContentInv, NEW c \in Clients, PurgeMarks(c)
  PROVE  Moves(c)
<1> DEFINE j == job[c]
           drop == j.wanted \cap marks
           k == [j EXCEPT !.drop = drop, !.locks = @ \cup drop, !.at = "metric"]
<1>1. Placed(j) /\ Mine(j) /\ j.at = "marks" /\ Item(c) = j.item
  BY InHand DEF PurgeMarks, At
<1>2. job' = [job EXCEPT ![c] = k]
  BY <1>1, InHand DEF PurgeMarks
<1>3. /\ j.wanted \in SUBSET Marks /\ j.locks \in SUBSET Locks /\ Marks \subseteq Locks
      /\ \A m \in j.wanted : m[2] = j.item /\ Counted(j.item)
  BY <1>1 DEF Placed, Edits, Job, Locks
<1>4. drop \in SUBSET Marks /\ drop \subseteq marks /\ drop \subseteq j.wanted /\ j.locks \cup drop \in SUBSET Locks
  BY <1>3
<1>5. \A r \in (j.locks \cup drop) \ Holds(c) : ~Locked(c, r)
  BY DEF PurgeMarks, Wait, Holds
<1> HIDE DEF j, drop
<1>6. k \in Job
  BY <1>1, <1>4 DEF Placed, Job
<1>7. /\ k.op = j.op /\ k.item = j.item /\ k.locks = j.locks \cup drop /\ k.held = j.held /\ k.file = j.file
      /\ k.drop = drop /\ k.add = j.add /\ k.at = "metric" /\ k.id = j.id /\ k.wanted = j.wanted
  BY <1>1 DEF Placed, Job
<1> HIDE DEF k
<1>8. Fits(c, k)
  BY <1>1, <1>3, <1>4, <1>5, <1>6, <1>7, PurgeFits DEF j
<1>. QED BY <1>2, <1>8 DEF Moves

LEMMA PurgeMetricMoves ==
  ASSUME ContentInv, NEW c \in Clients, PurgeMetric(c)
  PROVE  Moves(c)
<1> DEFINE j == job[c]
           locks == IF metric[Item(c)] = None THEN j.locks ELSE j.locks \cup {Counter(c)}
           k == [j EXCEPT !.locks = locks, !.at = "write"]
<1>1. Placed(j) /\ Mine(j) /\ j.at = "metric" /\ Item(c) = j.item /\ j.item \in Items
  BY InHand DEF PurgeMetric, At
<1>2. job' = [job EXCEPT ![c] = k]
  BY <1>1, InHand DEF PurgeMetric
<1>3. locks \in SUBSET Locks
  BY <1>1 DEF Placed, Job, Counter, Locks
<1>4. \A r \in locks \ Holds(c) : ~Locked(c, r)
  BY DEF PurgeMetric, Wait, Holds
<1>5. j.locks \subseteq locks /\ j.drop \subseteq j.locks \cap marks
  BY <1>1 DEF Mine, Covered
<1>6. j.op \in EditOps /\ \A m \in j.wanted \cup j.drop : m[2] = j.item /\ Counted(j.item)
  BY <1>1 DEF Placed, Edits
<1> HIDE DEF j, locks
<1>7. k \in Job
  BY <1>1, <1>3 DEF Placed, Job
<1>8. /\ k.op = j.op /\ k.item = j.item /\ k.locks = locks /\ k.held = j.held /\ k.file = j.file
      /\ k.drop = j.drop /\ k.add = j.add /\ k.at = "write" /\ k.id = j.id /\ k.wanted = j.wanted
  BY <1>1 DEF Placed, Job
<1> HIDE DEF k
<1>9. Fits(c, k)
  BY <1>1, <1>4, <1>5, <1>6, <1>7, <1>8, PurgeFits DEF j
<1>. QED BY <1>2, <1>9 DEF Moves

\* All steps but those that draw a number or commit.
QuietSteps(c) ==
  \/ Create(c) \/ FindExisting(c) \/ Archive(c) \/ Push(c)
  \/ Prior(c) \/ Duplicate(c) \/ CheckBase(c) \/ Exists(c) \/ Write(c) \/ ReadTable(c) \/ Remove(c)
  \/ Engage(c) \/ Ensure(c) \/ Event(c) \/ EnsureAgain(c) \/ Look(c) \/ Want(c) \/ Unmark(c) \/ MarkIt(c)
  \/ Count(c) \/ Purge(c) \/ PurgeMarks(c) \/ PurgeMetric(c)

LEMMA QuietMoves ==
  ASSUME ContentInv, NEW c \in Clients, QuietSteps(c)
  PROVE  Moves(c)
<1>1. Remove(c) \/ EnsureAgain(c) \/ Count(c) => Answer(c)
  BY DEF Remove, EnsureAgain, Count
<1>. QED BY <1>1, AnswerMoves, CreateMoves, FindMoves, ArchiveMoves, PushMoves, LookUpMoves, ExistsMoves,
       WriteMoves, ReadTableMoves, EngageMoves, EnsureMoves, EventMoves, LookMoves, WantMoves,
       UnmarkMoves, MarkItMoves, PurgeMoves, PurgeMarksMoves, PurgeMetricMoves DEF QuietSteps

LEMMA SentTyped ==
  ASSUME ContentInv, EngagementNext
  PROVE  sent' \in [Mutations -> Sent \cup {None}]
<1>1. sent \in [Mutations -> Sent \cup {None}]
  BY DEF ContentInv, ContentTypeInv, TablesOK
<1>2. \A c \in Clients : Push(c) => sent' \in [Mutations -> Sent \cup {None}]
  BY PushMoves
<1>3. \A c \in Clients : Editing(c) /\ ~Push(c) => sent' = sent
  BY DEF Editing, Create, FindExisting, Archive, Prior, Duplicate, CheckBase, Exists, Write,
         Append, ReadTable, Remove, Reading
<1>4. \A c \in Clients : Engaging(c) => sent' = sent
  BY DEF Engaging, Engage, Ensure, Event, EnsureAgain, Look, Want, Unmark, MarkIt,
         Count, Purge, PurgeMarks, PurgeMetric, CommitAll, Commit, Reading
<1>. QED BY <1>1, <1>2, <1>3, <1>4 DEF EngagementNext

-----------------------------------------------------------------------------
(* The requests beside one another. *)

LEMMA PutKeeps ==
  ASSUME ContentInv, NEW c \in Clients, NEW k, Placed(k), \A r \in k.locks \ Holds(c) : ~Locked(c, r),
         job' = [job EXCEPT ![c] = k]
  PROVE  /\ JobsOK' /\ Exclusive'
         /\ job'[c] = k /\ \A d \in Clients \ {c} : job'[d] = job[d]
<1>1. job' = [d \in Clients |-> IF d = c THEN k ELSE job[d]]
  BY InHand
<1>2. job'[c] = k /\ \A d \in Clients \ {c} : job'[d] = job[d]
  BY <1>1
<1>3. JobsOK'
  <2>1. \A d \in Clients : Placed(job'[d])
    BY <1>2 DEF JobsOK, ContentInv, ContentTypeInv
  <2>2. DOMAIN job' = Clients /\ job' = [d \in Clients |-> job'[d]]
    BY <1>1
  <2>. QED BY <2>1, <2>2 DEF JobsOK
<1>4. \A d \in Clients \ {c} : k.locks \cap Holds(d) = {}
  <2> SUFFICES ASSUME NEW d \in Clients \ {c}, NEW r \in k.locks, r \in Holds(d)
               PROVE  FALSE
    OBVIOUS
  <2>1. r \in Holds(c)
    BY DEF Locked
  <2>. QED BY <2>1 DEF ContentInv, Exclusive
<1>5. Exclusive'
  BY <1>2, <1>4 DEF ContentInv, Exclusive, Holds
<1>. QED BY <1>2, <1>3, <1>5

\* Steps that leave rows, log and numbers alone disturb nobody.
LEMMA MovesKeep ==
  ASSUME ContentInv, NEW c \in Clients, Moves(c), row' = row, log' = log, sequence' = sequence
  PROVE  /\ JobsOK' /\ Exclusive' /\ LogInv'
         /\ \A d \in Clients : FreshId(d)' /\ Secured(job[d])' /\ HeldOK(job[d])' /\ Rooted(job[d])'
         /\ marks' = marks /\ views' = views => \A d \in Clients : Covered(job[d])'
<1>1. PICK k : Fits(c, k) /\ job' = [job EXCEPT ![c] = k]
  BY DEF Moves
<1>2. Placed(k) /\ Mine(k) /\ (\A r \in k.locks \ Holds(c) : ~Locked(c, r)) /\ (k.at = "commit" => k.id = None)
  BY <1>1 DEF Fits
<1>3. /\ JobsOK' /\ Exclusive'
      /\ job'[c] = k /\ \A d \in Clients \ {c} : job'[d] = job[d]
  BY <1>1, <1>2, PutKeeps
<1>4. LogInv'
  <2>1. LogOK'
    BY DEF ContentInv, LogInv, LogOK, Synced
  <2>2. LatestChangeIsTheRow'
    BY DEF ContentInv, LogInv, LatestChangeIsTheRow, Latest
  <2>. QED BY <2>1, <2>2 DEF LogInv
<1>5. \A d \in Clients : Mine(job'[d])
  BY <1>2, <1>3 DEF ContentInv
<1>6. ASSUME NEW d \in Clients
      PROVE  FreshId(d)' /\ Secured(job[d])' /\ HeldOK(job[d])' /\ Rooted(job[d])'
  <2>1. FreshId(d)'
    <3> SUFFICES ASSUME job'[d].at = "commit", job'[d].id # None
                 PROVE  /\ ~Applied(job'[d].id)
                        /\ \A e \in Clients \ {d} : job'[e].at = "commit" => job'[e].id # job'[d].id
      BY DEF FreshId, Applied
    <3>1. d # c /\ job'[d] = job[d] /\ FreshId(d)
      BY <1>2, <1>3 DEF ContentInv
    <3>. QED BY <1>2, <1>3, <3>1 DEF FreshId
  <2>2. Secured(job[d])'
    BY <1>5 DEF Mine, Secured, Owns, Synced
  <2>3. HeldOK(job[d])'
    BY <1>5 DEF Mine, HeldOK
  <2>4. Rooted(job[d])'
    BY <1>5 DEF Mine, Rooted, Alive
  <2>. QED BY <2>1, <2>2, <2>3, <2>4
<1>7. ASSUME marks' = marks, views' = views, NEW d \in Clients
      PROVE  Covered(job[d])'
  BY <1>5, <1>7 DEF Mine, Covered
<1>. QED BY <1>3, <1>4, <1>6, <1>7

\* A row that was never deleted has its counters already: a step that would
\* create them, for a row looked at, changes nothing that is counted.
LEMMA EnsuringKeeps ==
  ASSUME ContentInv, NEW i \in Items, Alive(i) => row[i] # None, Counted(i),
         row' = row, log' = log, marks' = marks, views' = views,
         metric' \in [Items -> Counters \cup {None}],
         \A x \in Items : metric'[x] = metric[x] \/ (x = i /\ metric[i] = None /\ metric'[i] # None)
  PROVE  Hanging' /\ CountersAreRows'
<1>1. \A x \in Items : Alive(x)' <=> Alive(x)
  BY DEF Alive
<1>2. Alive(i) => metric[i] # None
  BY DEF ContentInv, Hanging
<1>3. \A x \in Items : Counted(x) /\ Alive(x) => metric'[x] = metric[x]
  BY <1>2
<1>4. Hanging'
  <2>1. \A x \in Items : (Counted(x) /\ Alive(x) /\ row[x] # None)' => metric'[x] # None
    BY <1>1, <1>3 DEF ContentInv, Hanging, Counted
  <2>2. \A m \in marks \cup views : (Counted(m[2]) /\ Alive(m[2]))' => row'[m[2]] # None
    BY DEF ContentInv, Hanging, Counted, Alive
  <2>. QED BY <2>1, <2>2 DEF Hanging
<1>5. CountersAreRows'
  <2> SUFFICES ASSUME NEW x \in Items, Undeleted(x)'
               PROVE  /\ metric'[x].stars = Cardinality({m \in marks : m[2] = x /\ m[3] = "star"})
                      /\ metric'[x].views = Cardinality({v \in views : v[2] = x})
    BY DEF CountersAreRows
  <2>1. Counted(x) /\ Alive(x) /\ metric'[x] = metric[x]
    BY <1>1, <1>3 DEF Undeleted, Counted, Alive
  <2>2. Undeleted(x)
    BY <2>1 DEF Undeleted, Alive
  <2>. QED BY <2>1, <2>2 DEF ContentInv, CountersAreRows
<1>. QED BY <1>4, <1>5

LEMMA StillStep ==
  ASSUME ContentInv, NEW c \in Clients, Moves(c), row' = row, log' = log, sequence' = sequence,
         evars' = evars, stored' \subseteq stored, sent' \in [Mutations -> Sent \cup {None}]
  PROVE  ContentInv'
<1>1. marks' = marks /\ views' = views /\ metric' = metric
  BY DEF evars
<1>2. TablesOK'
  BY <1>1 DEF ContentInv, ContentTypeInv, TablesOK
<1>3. Hanging'
  BY <1>1 DEF ContentInv, Hanging, Alive, Counted
<1>4. CountersAreRows'
  BY <1>1 DEF ContentInv, CountersAreRows, Undeleted, Counted
<1>. QED BY <1>1, <1>2, <1>3, <1>4, MovesKeep DEF ContentInv, ContentTypeInv, Mine

LEMMA ZeroTyped == Zero \in Counters /\ Zero # None
BY CounterAssumption DEF Zero, Counters

LEMMA EnsureStep ==
  ASSUME ContentInv, NEW c \in Clients, EnsureAgain(c) \/ Look(c)
  PROVE  ContentInv'
<1>1. Moves(c)
  BY EnsureAgain(c) \/ Look(c), QuietMoves DEF QuietSteps
<1>2. Placed(job[c]) /\ Mine(job[c]) /\ Item(c) = job[c].item /\ Item(c) \in Items
  BY InHand
<1>3. job[c].op \in LookOps /\ Counted(Item(c))
  BY <1>2 DEF EnsureAgain, Look, At, Placed, Looks
<1>4. Alive(Item(c)) => row[Item(c)] # None
  BY <1>2, <1>3 DEF Mine, Rooted
<1>5. row' = row /\ log' = log /\ sequence' = sequence /\ stored' = stored /\ sent' = sent
      /\ marks' = marks /\ views' = views
  BY DEF EnsureAgain, Look, Reading, Kept, evars
<1>6. metric \in [Items -> Counters \cup {None}]
  BY DEF ContentInv, ContentTypeInv, TablesOK
<1>7. \/ metric' = metric
      \/ /\ metric' = [metric EXCEPT ![Item(c)] = Zero] /\ metric[Item(c)] = None
  BY <1>2, <1>6 DEF EnsureAgain, Look, Kept, evars, HasCounter
<1>8. /\ metric' \in [Items -> Counters \cup {None}]
      /\ \A x \in Items : \/ metric'[x] = metric[x]
                          \/ x = Item(c) /\ metric[Item(c)] = None /\ metric'[Item(c)] # None
  BY <1>2, <1>6, <1>7, ZeroTyped
<1>9. TablesOK'
  BY <1>5, <1>8 DEF ContentInv, ContentTypeInv, TablesOK
<1>10. Hanging' /\ CountersAreRows'
  BY <1>2, <1>3, <1>4, <1>5, <1>8, EnsuringKeeps
<1>. QED BY <1>1, <1>5, <1>9, <1>10, MovesKeep DEF ContentInv, ContentTypeInv, Mine

-----------------------------------------------------------------------------
(* Counting *)

\* One mark more, or one less, of those that are counted.
LEMMA OneMore ==
  ASSUME NEW S, IsFiniteSet(S), NEW m, m \notin S
  PROVE  Cardinality(S \cup {m}) = Cardinality(S) + 1
BY FS_AddElement
LEMMA OneLess ==
  ASSUME NEW S, IsFiniteSet(S), NEW m, m \in S
  PROVE  Cardinality(S \ {m}) = Cardinality(S) - 1
BY FS_RemoveElement

Stars(i) == {m \in marks : m[2] = i /\ m[3] = "star"}
Seers(i) == {v \in views : v[2] = i}

\* What a transaction that counts changes.
LEMMA CountEffect ==
  ASSUME ContentInv, NEW c \in Clients, Count(c), Alive(Item(c)),
         metric' # metric \/ marks' # marks \/ views' # views
  PROVE  /\ metric[Item(c)] # None
         /\ metric' = [metric EXCEPT ![Item(c)] = NewCount(c, metric[Item(c)])]
         /\ marks' = (marks \ job[c].drop) \cup job[c].add
         /\ views' = IF job[c].op = "view" THEN views \cup {Mark(c, "view")} ELSE views
<1>1. Placed(job[c]) /\ Mine(job[c]) /\ Item(c) = job[c].item /\ Item(c) \in Items
  BY InHand
<1>2. job[c].op \in LookOps /\ Counted(Item(c))
  BY <1>1 DEF Count, At, Placed, Looks
<1>3. metric[Item(c)] # None
  BY <1>1, <1>2 DEF Mine, Rooted, ContentInv, Hanging
<1>. QED BY <1>3 DEF Count, Kept, evars

LEMMA NewCounts ==
  ASSUME ContentInv, NEW c \in Clients, At(c, "count"), NEW m \in Counters
  PROVE  /\ NewCount(c, m) \in Counters
         /\ NewCount(c, m).views = m.views + (IF job[c].op = "view" THEN 1 ELSE 0)
         /\ NewCount(c, m).stars = m.stars + (IF job[c].op = "star" THEN 1
                                              ELSE IF job[c].op = "unstar" THEN -1 ELSE 0)
<1> DEFINE j == job[c]
<1>1. Placed(j)
  BY InHand
<1>2. /\ j.op \in LookOps /\ (j.op = "star" => j.had = {}) /\ (j.op = "unstar" => j.had = {"star"})
  BY <1>1 DEF At, Placed, Looks
<1>3. \A kind \in MarkKinds : Delta(c, kind) \in Int
  BY DEF Delta
<1>4. CASE j.op = "view"
  BY <1>4 DEF NewCount, Counters
<1>5. CASE j.op = "star"
  <2>1. Kinds(c) = {"star"} /\ Wants(c) = {"star"} /\ Delta(c, "star") = 1
    BY <1>2, <1>5 DEF Kinds, Wants, Delta
  <2>2. NewCount(c, m) = [m EXCEPT !.stars = @ + 1]
    BY <1>5, <2>1 DEF NewCount
  <2>. QED BY <1>5, <2>2 DEF Counters
<1>6. CASE j.op = "unstar"
  <2>1. Kinds(c) = {"star"} /\ Wants(c) = {} /\ Delta(c, "star") = -1
    BY <1>2, <1>6 DEF Kinds, Wants, Delta
  <2>2. NewCount(c, m) = [m EXCEPT !.stars = @ + -1]
    BY <1>6, <2>1 DEF NewCount
  <2>. QED BY <1>6, <2>2 DEF Counters
<1>7. CASE j.op \in {"like", "dislike", "unlike"}
  <2>1. "star" \notin Kinds(c)
    BY <1>7 DEF Kinds
  <2>2. NewCount(c, m) = [m EXCEPT !.likes = @ + Delta(c, "like"), !.dislikes = @ + Delta(c, "dislike")]
    BY <1>7, <2>1 DEF NewCount
  <2>3. Delta(c, "like") \in Int /\ Delta(c, "dislike") \in Int
    BY <1>3 DEF MarkKinds
  <2> DEFINE a == m.likes + Delta(c, "like")
             b == m.dislikes + Delta(c, "dislike")
  <2>4. a \in Int /\ b \in Int /\ NewCount(c, m) = [m EXCEPT !.likes = a, !.dislikes = b]
    BY <2>2, <2>3 DEF Counters
  <2> HIDE DEF a, b
  <2>5. /\ [m EXCEPT !.likes = a, !.dislikes = b] \in Counters
        /\ [m EXCEPT !.likes = a, !.dislikes = b].views = m.views
        /\ [m EXCEPT !.likes = a, !.dislikes = b].stars = m.stars
        /\ m.views \in Int /\ m.stars \in Int
    BY <2>4 DEF Counters
  <2>. QED BY <1>7, <2>4, <2>5
<1>. QED BY <1>2, <1>4, <1>5, <1>6, <1>7

LEMMA CountStep ==
  ASSUME ContentInv, NEW c \in Clients, Count(c)
  PROVE  ContentInv'
<1> DEFINE j == job[c]
           i == Item(c)
<1>1. Placed(j) /\ Mine(j) /\ i = j.item /\ i \in Items /\ j.at = "count"
  BY InHand DEF Count, At
<1>2. /\ j.op \in LookOps /\ j.user \in Users /\ Counted(i)
      /\ j.op = "view" => j.drop = {} /\ j.add = {}
      /\ j.op = "star" => j.drop = {} /\ j.add = {<<j.user, i, "star">>}
      /\ j.op = "unstar" => j.drop = {<<j.user, i, "star">>} /\ j.add = {}
      /\ j.add \subseteq {<<j.user, i, j.op>>}
      /\ j.op \in {"like", "dislike", "unlike"} => \A m \in j.drop \cup j.add : m[3] # "star"
  BY <1>1 DEF Placed, Looks
<1>3. Moves(c)
  BY QuietMoves DEF QuietSteps
<1>4. row' = row /\ log' = log /\ sequence' = sequence /\ stored' = stored /\ sent' = sent
  BY DEF Count, Reading
<1>5. job' = [job EXCEPT ![c] = Quiet]
  BY DEF Count, Answer
<1>6. job'[c] = Quiet /\ \A d \in Clients \ {c} : job'[d] = job[d]
  BY <1>5, InHand
<1>7. CASE metric' = metric /\ marks' = marks /\ views' = views
  BY <1>3, <1>4, <1>7, StillStep DEF evars, ContentInv, ContentTypeInv, TablesOK
<1>8. CASE ~(metric' = metric /\ marks' = marks /\ views' = views)
  <2>1. /\ marks' = (marks \ j.drop) \cup j.add
        /\ views' = IF j.op = "view" THEN views \cup {Mark(c, "view")} ELSE views
        /\ metric' = [metric EXCEPT ![i] = NewCount(c, IF metric[i] = None THEN Zero ELSE metric[i])]
    BY <1>8 DEF Count, Kept, evars
  <2>2. metric \in [Items -> Counters \cup {None}]
    BY DEF ContentInv, ContentTypeInv, TablesOK
  <2>3. NewCount(c, IF metric[i] = None THEN Zero ELSE metric[i]) \in Counters
    BY <1>1, <2>2, ZeroTyped, NewCounts DEF At
  <2>4. /\ Mark(c, "view") = <<j.user, i, "view">> /\ Mark(c, "view") \in Marks
        /\ j.drop \subseteq Marks /\ j.add \subseteq Marks /\ i = Item(c)
    BY <1>1, <1>2, MarkTyped DEF MarkKinds, Placed, Job
  <2> HIDE DEF j, i
  <2>5. TablesOK'
    <3>1. /\ marks \subseteq Marks /\ IsFiniteSet(marks) /\ views \subseteq Marks /\ IsFiniteSet(views)
      BY DEF ContentInv, ContentTypeInv, TablesOK
    <3>2. IsFiniteSet(j.add)
      <4>1. IsFiniteSet({<<j.user, i, j.op>>})
        BY FS_Singleton
      <4>. QED BY <1>2, <4>1, FS_Subset
    <3>3. IsFiniteSet(marks') /\ marks' \subseteq Marks
      BY <2>1, <2>4, <3>1, <3>2, FS_Difference, FS_Union
    <3>4. IsFiniteSet(views') /\ views' \subseteq Marks
      BY <2>1, <2>4, <3>1, FS_AddElement
    <3>5. metric' \in [Items -> Counters \cup {None}]
      BY <2>1, <2>2, <2>3
    <3>. QED BY <1>4, <3>3, <3>4, <3>5 DEF ContentInv, ContentTypeInv, TablesOK
  <2>6. \A x \in Items : Alive(x)' <=> Alive(x)
    BY <1>4 DEF Alive
  <2>7. Alive(i) => row[i] # None /\ metric[i] # None
    BY <1>1, <1>2 DEF Mine, Rooted, ContentInv, Hanging
  <2>8. \A x \in Items : x # i => metric'[x] = metric[x]
    BY <2>1, <2>2
  <2>9. metric'[i] = NewCount(c, IF metric[i] = None THEN Zero ELSE metric[i]) /\ metric'[i] # None
    BY <1>1, <2>1, <2>2, <2>3, CounterAssumption
  <2>10. Hanging'
    <3>1. \A x \in Items : (Counted(x) /\ Alive(x) /\ row[x] # None)' => metric'[x] # None
      BY <1>4, <2>6, <2>8, <2>9 DEF ContentInv, Hanging, Counted
    <3>2. \A m \in marks' \cup views' : m \in marks \cup views \/ m[2] = i
      BY <1>2, <2>1, <2>4
    <3>3. \A m \in marks' \cup views' : (Counted(m[2]) /\ Alive(m[2]))' => row'[m[2]] # None
      BY <1>4, <2>7, <3>2 DEF ContentInv, Hanging, Counted, Alive
    <3>. QED BY <3>1, <3>3 DEF Hanging
  <2>11. CountersAreRows'
    <3> SUFFICES ASSUME NEW x \in Items, Undeleted(x)'
                 PROVE  metric'[x].stars = Cardinality(Stars(x)') /\ metric'[x].views = Cardinality(Seers(x)')
      BY DEF CountersAreRows, Stars, Seers
    <3>1. Counted(x) /\ Alive(x)
      BY <2>6 DEF Undeleted, Alive, Counted
    <3>2. Undeleted(x)
      BY <1>4, <2>7, <2>8, <3>1 DEF Undeleted, Alive
    <3>3. metric[x].stars = Cardinality(Stars(x)) /\ metric[x].views = Cardinality(Seers(x))
      BY <3>2 DEF ContentInv, CountersAreRows, Stars, Seers
    <3>4. CASE x # i
      <4>1. Stars(x)' = Stars(x)
        BY <1>2, <2>1, <3>4 DEF Stars
      <4>2. Seers(x)' = Seers(x)
        BY <2>1, <2>4, <3>4 DEF Seers
      <4>. QED BY <2>8, <3>3, <3>4, <4>1, <4>2
    <3>5. CASE x = i
      <4>1. /\ metric[i] \in Counters /\ metric[i].stars \in Int /\ metric[i].views \in Int
            /\ metric'[i] = NewCount(c, metric[i])
        BY <1>1, <2>2, <2>7, <2>9, <3>1, <3>5 DEF Counters
      <4>2. /\ metric'[i].views = metric[i].views + (IF j.op = "view" THEN 1 ELSE 0)
            /\ metric'[i].stars = metric[i].stars + (IF j.op = "star" THEN 1
                                                  ELSE IF j.op = "unstar" THEN -1 ELSE 0)
        BY <1>1, <4>1, NewCounts DEF At, j
      <4>3. IsFiniteSet(Stars(x)) /\ IsFiniteSet(Seers(x))
        BY FS_Subset DEF Stars, Seers, ContentInv, ContentTypeInv, TablesOK
      <4>4. j.drop \subseteq marks /\ (j.op = "star" => j.add \cap marks = {})
            /\ (j.op = "view" => Mark(c, "view") \notin views)
        BY <1>1, <2>4 DEF Mine, Covered
      <4>5. CASE j.op = "view"
        <5>1. Stars(x)' = Stars(x)
          BY <1>2, <2>1, <3>5, <4>5 DEF Stars
        <5>2. Seers(x)' = Seers(x) \cup {Mark(c, "view")} /\ Mark(c, "view") \notin Seers(x)
          BY <2>1, <2>4, <3>5, <4>4, <4>5 DEF Seers
        <5>. QED BY <3>3, <3>5, <4>1, <4>2, <4>3, <4>5, <5>1, <5>2, OneMore
      <4>6. CASE j.op = "star"
        <5> DEFINE m == <<j.user, i, "star">>
        <5>1. Stars(x)' = Stars(x) \cup {m} /\ m \notin Stars(x)
          BY <1>2, <2>1, <3>5, <4>4, <4>6 DEF Stars
        <5>2. Seers(x)' = Seers(x)
          BY <2>1, <4>6 DEF Seers
        <5>. QED BY <3>3, <3>5, <4>1, <4>2, <4>3, <4>6, <5>1, <5>2, OneMore
      <4>7. CASE j.op = "unstar"
        <5> DEFINE m == <<j.user, i, "star">>
        <5>1. Stars(x)' = Stars(x) \ {m} /\ m \in Stars(x)
          BY <1>2, <2>1, <3>5, <4>4, <4>7 DEF Stars
        <5>2. Seers(x)' = Seers(x)
          BY <2>1, <4>7 DEF Seers
        <5>. QED BY <3>3, <3>5, <4>1, <4>2, <4>3, <4>7, <5>1, <5>2, OneLess, FS_CardinalityType
      <4>8. CASE j.op \in {"like", "dislike", "unlike"}
        <5>1. Stars(x)' = Stars(x)
          BY <1>2, <2>1, <4>8 DEF Stars
        <5>2. Seers(x)' = Seers(x)
          BY <2>1, <4>8 DEF Seers
        <5>. QED BY <3>3, <3>5, <4>1, <4>2, <4>8, <5>1, <5>2
      <4>. QED BY <1>2, <4>5, <4>6, <4>7, <4>8
    <3>. QED BY <3>4, <3>5
  <2>12. \A d \in Clients : Covered(job[d])'
    <3> SUFFICES ASSUME NEW d \in Clients PROVE Covered(job[d])'
      OBVIOUS
    <3>1. CASE d = c
      BY <1>6, <3>1 DEF Covered, Quiet
    <3>2. CASE d # c
      <4>1. job'[d] = job[d] /\ Covered(job[d]) /\ Covered(j) /\ job[d].locks \cap j.locks = {}
        BY <1>1, <1>6, <3>2 DEF ContentInv, Mine, Exclusive, Holds, j
      <4>2. job[d].drop \subseteq marks'
        BY <2>1, <4>1 DEF Covered
      <4>3. job[d].op = "star" => job[d].add \cap marks' = {}
        BY <2>1, <4>1 DEF Covered
      <4>4. job[d].op = "view" /\ job[d].at = "count" => <<job[d].user, job[d].item, "view">> \notin views'
        BY <1>1, <2>1, <2>4, <4>1 DEF Covered
      <4>. QED BY <4>1, <4>2, <4>3, <4>4 DEF Covered
    <3>. QED BY <3>1, <3>2
  <2>. QED BY <1>3, <1>4, <2>5, <2>10, <2>11, <2>12, MovesKeep DEF ContentInv, ContentTypeInv, Mine
<1>. QED BY <1>7, <1>8

-----------------------------------------------------------------------------
(* A number is drawn, and the change committed. *)

LEMMA AppendStep ==
  ASSUME ContentInv, NEW c \in Clients, Append(c), Kept
  PROVE  ContentInv'
<1> DEFINE j == job[c]
           k == [j EXCEPT !.at = "commit", !.seq = sequence + 1]
<1>1. Placed(j) /\ Mine(j) /\ j.at = "append" /\ j.item \in Items
  BY InHand DEF Append, At
<1>2. row' = row /\ log' = log /\ stored' = stored /\ sent' = sent /\ evars' = evars
      /\ marks' = marks /\ views' = views /\ metric' = metric
  BY DEF Append, Kept, evars
<1>3. CASE j.id # None /\ Applied(j.id)
  <2>1. Answer(c) /\ sequence' = sequence
    BY <1>3 DEF Append
  <2>. QED BY <1>2, <2>1, AnswerMoves, StillStep DEF ContentInv, ContentTypeInv, TablesOK
<1>4. CASE ~(j.id # None /\ Applied(j.id))
  <2>1. sequence' = sequence + 1 /\ sequence \in Nat /\ sequence' \in Nat
    BY <1>4 DEF Append, NextSequence, ContentInv, ContentTypeInv, TablesOK
  <2>2. job' = [job EXCEPT ![c] = k]
    <3>1. sequence' = sequence + 1 /\ job' = [job EXCEPT ![c].at = "commit", ![c].seq = sequence + 1]
      BY <1>4 DEF Append, NextSequence
    <3>. QED BY <1>1, <3>1, InHand
  <2>3. \A d \in Clients \ {c} : job[d].at = "commit" => job[d].id # j.id \/ j.id = None
    BY DEF Append, At
  <2>4. k \in Job
    BY <1>1, <2>1 DEF Placed, Job
  <2>5. /\ k.op = j.op /\ k.item = j.item /\ k.locks = j.locks /\ k.held = j.held /\ k.before = j.before
        /\ k.drop = j.drop /\ k.add = j.add /\ k.at = "commit" /\ k.id = j.id /\ k.wanted = j.wanted
        /\ k.file = j.file /\ k.seq = sequence + 1 /\ k.tables = j.tables /\ k.used = j.used
    BY <1>1, <2>1 DEF Placed, Job
  <2> HIDE DEF k
  <2>6. j.op \in EditOps /\ j.held = {}
    BY <1>1 DEF Placed, Edits, Cleans
  <2>7. Edits(k)
    BY <1>1, <2>5, <2>6 DEF Placed, Edits
  <2>8. Cleans(k) /\ Looks(k)
    BY <2>5, <2>6 DEF Cleans, Looks
  <2>9. /\ JobsOK' /\ Exclusive'
        /\ job'[c] = k /\ \A d \in Clients \ {c} : job'[d] = job[d]
    BY <2>2, <2>4, <2>5, <2>7, <2>8, PutKeeps DEF Placed, Holds
  <2>10. TablesOK' /\ Hanging' /\ CountersAreRows'
    BY <1>2, <2>1 DEF ContentInv, ContentTypeInv, TablesOK, Hanging, Alive, Counted, CountersAreRows, Undeleted
  <2>11. \A e \in log : e.seq \in Nat /\ e.seq <= sequence
    BY DEF ContentInv, ContentTypeInv, TablesOK, Change, LogInv, LogOK
  <2>12. LogInv'
    BY <1>2, <2>1, <2>11 DEF ContentInv, LogInv, LogOK, Synced, LatestChangeIsTheRow, Latest
  <2>13. ASSUME NEW d \in Clients
         PROVE  Mine(job[d])' /\ FreshId(d)'
    <3>1. CASE d = c
      <4>1. Secured(job[d])'
        BY <1>1, <1>2, <2>1, <2>5, <2>9, <2>11, <3>1 DEF Mine, Secured, Owns, Synced
      <4>2. HeldOK(job[d])' /\ Covered(job[d])' /\ Rooted(job[d])'
        BY <1>1, <1>2, <2>5, <2>6, <2>9, <3>1 DEF Mine, HeldOK, Covered, Rooted
      <4>3. FreshId(d)'
        BY <1>2, <1>4, <2>3, <2>5, <2>9, <3>1 DEF FreshId, Applied
      <4>. QED BY <4>1, <4>2, <4>3 DEF Mine
    <3>2. CASE d # c
      <4>1. job'[d] = job[d] /\ Mine(job[d]) /\ FreshId(d) /\ job[d].seq \in Nat
        BY <2>9, <3>2 DEF ContentInv, ContentTypeInv, JobsOK, Placed, Job
      <4>2. Secured(job[d])'
        BY <1>2, <2>1, <4>1 DEF Mine, Secured, Owns, Synced
      <4>3. HeldOK(job[d])' /\ Covered(job[d])' /\ Rooted(job[d])'
        BY <1>2, <4>1 DEF Mine, HeldOK, Covered, Rooted, Alive
      <4>4. FreshId(d)'
        BY <1>2, <2>3, <2>5, <2>9, <3>2, <4>1 DEF FreshId, Applied
      <4>. QED BY <4>2, <4>3, <4>4 DEF Mine
    <3>. QED BY <3>1, <3>2
  <2>. QED BY <2>9, <2>10, <2>12, <2>13 DEF ContentInv, ContentTypeInv
<1>. QED BY <1>3, <1>4

\* What a commit does to rows, log and requests.
LEMMA CommitEffect ==
  ASSUME ContentInv, NEW c \in Clients, CommitAll(c)
  PROVE  LET j == job[c] IN
         /\ Placed(j) /\ Mine(j) /\ j.at = "commit" /\ j.item \in Items /\ j.op \in EditOps /\ j.add = {}
         /\ \A i \in Items : row'[i] = IF i = j.item /\ Owns(j) THEN j.file ELSE row[i]
         /\ row' \in [Items -> Files \cup {None}]
         /\ log \subseteq log' /\ log' \subseteq Change
         /\ \A e \in log' \ log : /\ Synced(j.item) /\ e.item = j.item /\ e.file = j.file
                                  /\ e.seq = j.seq /\ e.id = j.id
         /\ Synced(j.item) => [seq |-> j.seq, item |-> j.item, file |-> j.file, id |-> j.id] \in log'
         /\ \A x : Alive(x)' => Alive(x)
         /\ sequence' = sequence /\ stored' = stored /\ sent' = sent /\ views' = views
         /\ marks' = marks \ j.drop
<1> DEFINE j == job[c]
           new == [seq |-> j.seq, item |-> j.item, file |-> j.file, id |-> j.id]
<1>1. Placed(j) /\ Mine(j) /\ j.at = "commit" /\ j.item \in Items /\ Item(c) = j.item
  BY InHand DEF CommitAll, Commit, At
<1>2. j.op \in EditOps /\ j.add = {} /\ j.file \in Files \cup {None}
  BY <1>1 DEF Placed, Edits, Job
<1>3. row \in [Items -> Files \cup {None}] /\ log \subseteq Change
  BY DEF ContentInv, ContentTypeInv, TablesOK
<1>4. row' = [row EXCEPT ![j.item] = IF Owns(j) THEN j.file ELSE @]
  BY <1>1 DEF CommitAll, Commit, Owns, Row, Holds
<1>5. log' = IF Synced(j.item) THEN log \cup {new} ELSE log
  BY <1>1 DEF CommitAll, Commit
<1>6. new \in Change
  BY <1>1 DEF Placed, Job, Change
<1>7. sequence' = sequence /\ stored' = stored /\ sent' = sent /\ views' = views /\ marks' = marks \ j.drop
  BY DEF CommitAll, Commit
<1> HIDE DEF j
<1>8. \A i \in Items : row'[i] = IF i = j.item /\ Owns(j) THEN j.file ELSE row[i]
  BY <1>1, <1>3, <1>4
<1>9. row' \in [Items -> Files \cup {None}]
  BY <1>1, <1>2, <1>3, <1>4
<1>10. \A x : Alive(x)' => Alive(x)
  BY <1>5 DEF Alive
<1>. QED BY <1>1, <1>2, <1>3, <1>5, <1>6, <1>7, <1>8, <1>9, <1>10 DEF j

\* The requests after a commit: c is done, or looks for what it may remove;
\* the others only learn that the row is held no longer.
LEMMA CommitJobs ==
  ASSUME ContentInv, NEW c \in Clients, CommitAll(c)
  PROVE  /\ JobsOK' /\ Exclusive'
         /\ LET k == job'[c] IN
              /\ k.op \in {"none", "cleanup"} /\ k.at \in {"idle", "tables"} /\ k.locks = {} /\ k.drop = {} /\ k.add = {}
         /\ HeldOK(job[c])'
         /\ \A d \in Clients \ {c} : job'[d] = [job[d] EXCEPT !.held = @ \ {job[c].item}]
<1> DEFINE j == job[c]
           cleanup == [Quiet EXCEPT !.op = "cleanup", !.at = "tables", !.before = j.before,
                         !.tables = Tables,
                         !.held = {i \in Items \ {j.item} : row[i] = j.before}]
           k == IF GivenUp(c) = {} THEN Quiet ELSE cleanup
           Rest(d) == [job[d] EXCEPT !.held = @ \ {j.item}]
<1>1. Placed(j) /\ Mine(j) /\ j.at = "commit" /\ j.item \in Items /\ Item(c) = j.item
  BY InHand DEF CommitAll, Commit, At
<1>2. job' = [d \in Clients |-> IF d = c THEN k ELSE Rest(d)]
  BY <1>1 DEF CommitAll, Commit
<1>3. Placed(Quiet) /\ Quiet.op = "none" /\ Quiet.at = "idle" /\ Quiet.locks = {} /\ Quiet.held = {}
      /\ Quiet.drop = {} /\ Quiet.add = {}
  BY QuietFits DEF Fits, Quiet
<1>4. /\ cleanup.op = "cleanup" /\ cleanup.at = "tables" /\ cleanup.locks = {} /\ cleanup.drop = {}
      /\ cleanup.add = {} /\ cleanup.before = j.before /\ cleanup.tables = Tables
      /\ cleanup.held = {i \in Items \ {j.item} : row[i] = j.before}
  BY DEF Quiet
<1>5. Placed(cleanup)
  <2>1. cleanup \in Job
    <3>1. /\ Tables \in SUBSET Statements /\ j.before \in Files \cup {None}
          /\ {i \in Items \ {j.item} : row[i] = j.before} \in SUBSET Items
      BY <1>1, ContentAssumption DEF Placed, Job, Tables, Statements, HasParts
    <3> HIDE DEF j
    <3>2. Quiet \in Job
      BY QuietFits DEF Fits, Placed
    <3>. QED BY <3>1, <3>2 DEF Quiet, Job
  <2>2. Edits(cleanup) /\ Cleans(cleanup) /\ Looks(cleanup)
    BY DEF Quiet, Edits, Cleans, Looks
  <2>. QED BY <2>1, <2>2 DEF Placed
<1>6. GivenUp(c) # {} => j.before # None
  BY DEF GivenUp
<1> HIDE DEF j, cleanup
<1>7. Placed(k) /\ k.op \in {"none", "cleanup"} /\ k.at \in {"idle", "tables"}
      /\ k.locks = {} /\ k.drop = {} /\ k.add = {}
  BY <1>3, <1>4, <1>5
<1>8. k.held # {} => /\ k.before # None
                     /\ \A i \in k.held : row'[i] = k.before /\ <<KindOf[i], "rows">> \in k.tables
                     /\ \A i \in k.held : Apart(i, k.before) => <<KindOf[i], "parts">> \in k.tables
  <2>1. \A i \in Items : i # j.item => row'[i] = row[i]
    BY <1>1, CommitEffect DEF j
  <2>. QED BY <1>3, <1>4, <1>6, <2>1 DEF Tables, Apart
<1> HIDE DEF k
<1>9. \A d \in Clients : Placed(Rest(d)) /\ Rest(d).locks = job[d].locks
  <2> SUFFICES ASSUME NEW d \in Clients PROVE Placed(Rest(d)) /\ Rest(d).locks = job[d].locks
    OBVIOUS
  <2>1. Placed(job[d])
    BY InHand
  <2>2. Rest(d) \in Job /\ Rest(d).locks = job[d].locks
    BY <2>1 DEF Placed, Job
  <2>3. Edits(Rest(d)) /\ Cleans(Rest(d)) /\ Looks(Rest(d))
    BY <2>1 DEF Placed, Job, Edits, Cleans, Looks
  <2>. QED BY <2>2, <2>3 DEF Placed
<1> HIDE DEF Rest
<1>10. job'[c] = k /\ \A d \in Clients \ {c} : job'[d] = Rest(d)
  BY <1>2
<1>11. JobsOK'
  <2>1. \A d \in Clients : Placed(job'[d])
    BY <1>7, <1>9, <1>10
  <2>2. DOMAIN job' = Clients /\ job' = [d \in Clients |-> job'[d]]
    BY <1>2
  <2>. QED BY <2>1, <2>2 DEF JobsOK
<1>12. Exclusive'
  BY <1>7, <1>9, <1>10 DEF ContentInv, Exclusive, Holds
<1>13. HeldOK(job[c])'
  BY <1>8, <1>10 DEF HeldOK, Read
<1>. QED BY <1>7, <1>10, <1>11, <1>12, <1>13 DEF Rest, j

\* The counters after a commit.  A row that was never deleted and has none yet
\* is new, and nothing hangs on it.
LEMMA CommitCounters ==
  ASSUME ContentInv, NEW c \in Clients, CommitAll(c)
  PROVE  TablesOK' /\ Hanging' /\ CountersAreRows'
<1> DEFINE j == job[c]
<1>1. /\ Placed(j) /\ Mine(j) /\ j.at = "commit" /\ j.item \in Items /\ j.op \in EditOps
      /\ \A x \in Items : row'[x] = IF x = j.item /\ Owns(j) THEN j.file ELSE row[x]
      /\ row' \in [Items -> Files \cup {None}]
      /\ log' \subseteq Change
      /\ Synced(j.item) => [seq |-> j.seq, item |-> j.item, file |-> j.file, id |-> j.id] \in log'
      /\ \A x : Alive(x)' => Alive(x)
      /\ sequence' = sequence /\ stored' = stored /\ sent' = sent /\ views' = views
      /\ marks' = marks \ j.drop
  BY CommitEffect
<1>2. Item(c) = j.item
  BY DEF Item
<1>3. metric \in [Items -> Counters \cup {None}]
  BY DEF ContentInv, ContentTypeInv, TablesOK
<1>4. metric' = [metric EXCEPT ![j.item] =
         IF j.file = None THEN (IF Counter(c) \in Holds(c) THEN None ELSE @)
         ELSE IF @ = None /\ Counted(j.item) /\ j.op \in {"create", "push"} THEN Zero ELSE @]
  BY <1>2 DEF CommitAll
<1>5. /\ \A m \in j.drop : m[2] = j.item /\ Counted(j.item)
      /\ j.drop # {} => j.file = None
      /\ Owns(j) \/ j.file = None
      /\ j.op \in {"update", "archive"} => row[j.item] # None
      /\ j.op = "archive" => KindOf[j.item] = "project"
      /\ j.op = "delete" => j.file = None
  BY <1>1 DEF Placed, Edits, Mine, Secured
<1> HIDE DEF j
<1>6. metric' \in [Items -> Counters \cup {None}]
  BY <1>1, <1>3, <1>4, ZeroTyped
<1>7. TablesOK'
  <2>1. IsFiniteSet(marks') /\ marks' \subseteq Marks
    BY <1>1, FS_Difference DEF ContentInv, ContentTypeInv, TablesOK
  <2>. QED BY <1>1, <1>6, <2>1 DEF ContentInv, ContentTypeInv, TablesOK
<1>8. ASSUME NEW x \in Items, x = j.item, Counted(x), Alive(x)'
      PROVE  j.file # None
  <2>1. [seq |-> j.seq, item |-> j.item, file |-> j.file, id |-> j.id] \in log'
    BY <1>1, <1>8 DEF Counted, Synced
  <2>. QED BY <1>8, <2>1 DEF Alive
<1>9. \A x \in Items : x # j.item => metric'[x] = metric[x]
  BY <1>3, <1>4
<1>10. j.file # None => metric'[j.item] = IF metric[j.item] = None /\ Counted(j.item) /\ j.op \in {"create", "push"}
                                          THEN Zero ELSE metric[j.item]
  BY <1>1, <1>3, <1>4
<1>11. Hanging'
  <2>1. ASSUME NEW x \in Items, Counted(x), Alive(x)', row'[x] # None
        PROVE  metric'[x] # None
    <3>1. Alive(x)
      BY <1>1, <2>1
    <3>2. row[x] # None => metric[x] # None
      BY <2>1, <3>1 DEF ContentInv, Hanging
    <3>3. CASE x # j.item
      BY <1>1, <1>9, <2>1, <3>2, <3>3
    <3>4. CASE x = j.item
      <4>1. j.file # None /\ j.op \in {"create", "update", "push"}
        BY <1>1, <1>5, <1>8, <2>1, <3>4 DEF Counted
      <4>. QED BY <1>5, <1>10, <2>1, <3>2, <3>4, <4>1, ZeroTyped
    <3>. QED BY <3>3, <3>4
  <2>2. ASSUME NEW m \in marks' \cup views', Counted(m[2]), Alive(m[2])'
        PROVE  row'[m[2]] # None
    <3>1. m \in marks \cup views /\ Alive(m[2])
      BY <1>1, <2>2
    <3>2. row[m[2]] # None /\ m[2] \in Items
      BY <2>2, <3>1 DEF ContentInv, Hanging, ContentTypeInv, TablesOK, Marks
    <3>. QED BY <1>1, <1>8, <2>2, <3>2
  <2>. QED BY <2>1, <2>2 DEF Hanging, Counted
<1>12. CountersAreRows'
  <2> SUFFICES ASSUME NEW x \in Items, Undeleted(x)'
               PROVE  metric'[x].stars = Cardinality(Stars(x)') /\ metric'[x].views = Cardinality(Seers(x)')
    BY DEF CountersAreRows, Stars, Seers
  <2>1. Counted(x) /\ Alive(x)' /\ Alive(x) /\ metric'[x] # None
    BY <1>1 DEF Undeleted, Alive, Counted
  <2>2. x = j.item => j.file # None /\ j.drop = {}
    BY <1>5, <1>8, <2>1
  <2>3. Stars(x)' = Stars(x) /\ Seers(x)' = Seers(x)
    BY <1>1, <1>5, <2>2 DEF Stars, Seers
  <2>4. CASE metric'[x] = metric[x]
    <3>1. Undeleted(x)
      BY <2>1, <2>4 DEF Undeleted, Alive
    <3>. QED BY <2>3, <2>4, <3>1 DEF ContentInv, CountersAreRows, Stars, Seers
  <2>5. CASE metric'[x] # metric[x]
    <3>1. x = j.item /\ metric[x] = None /\ metric'[x] = Zero
      BY <1>9, <1>10, <2>2, <2>5
    <3>2. row[x] = None
      BY <2>1, <3>1 DEF ContentInv, Hanging
    <3>3. Stars(x) = {} /\ Seers(x) = {}
      BY <2>1, <3>2 DEF Stars, Seers, ContentInv, Hanging
    <3>. QED BY <2>3, <3>1, <3>3, FS_EmptySet DEF Zero
  <2>. QED BY <2>4, <2>5
<1>. QED BY <1>7, <1>11, <1>12

LEMMA CommitStep ==
  ASSUME ContentInv, NEW c \in Clients, CommitAll(c)
  PROVE  ContentInv'
<1> DEFINE j == job[c]
<1>1. /\ Placed(j) /\ Mine(j) /\ j.at = "commit" /\ j.item \in Items /\ j.op \in EditOps
      /\ \A i \in Items : row'[i] = IF i = j.item /\ Owns(j) THEN j.file ELSE row[i]
      /\ log \subseteq log'
      /\ \A e \in log' \ log : /\ Synced(j.item) /\ e.item = j.item /\ e.file = j.file
                               /\ e.seq = j.seq /\ e.id = j.id
      /\ Synced(j.item) => [seq |-> j.seq, item |-> j.item, file |-> j.file, id |-> j.id] \in log'
      /\ \A x : Alive(x)' => Alive(x)
      /\ sequence' = sequence /\ views' = views /\ marks' = marks \ j.drop
  BY CommitEffect
<1>2. /\ JobsOK' /\ Exclusive'
      /\ \A d \in Clients \ {c} : job'[d] = [job[d] EXCEPT !.held = @ \ {j.item}]
  BY CommitJobs
<1>3. TablesOK' /\ Hanging' /\ CountersAreRows'
  BY CommitCounters
<1>4. /\ Owns(j) \/ (j.op = "push" /\ j.file = None)
      /\ Synced(j.item) => j.seq <= sequence
      /\ Synced(j.item) /\ Owns(j) => \A e \in log : e.item = j.item /\ e.file # None => e.seq < j.seq
      /\ j.seq \in Nat
  BY <1>1 DEF Placed, Job, Mine, Secured
<1>5. FreshId(c)
  BY DEF ContentInv
<1>6. \A e \in log : e.seq \in Nat /\ Synced(e.item) /\ e.item \in Items /\ e.seq <= sequence
  BY DEF ContentInv, ContentTypeInv, TablesOK, Change, LogInv, LogOK
<1> HIDE DEF j
<1>7. LogOK'
  BY <1>1, <1>4, <1>6 DEF LogOK, Synced
<1>8. LatestChangeIsTheRow'
  <2> SUFFICES ASSUME NEW i \in Items, NEW e \in log', e.item = i, e.file # None,
                      \A f \in log' : f.item = i => f.seq <= e.seq
               PROVE  row'[i] = e.file
    BY DEF LatestChangeIsTheRow, Latest
  <2>1. CASE e \in log
    <3>1. row[i] = e.file
      BY <1>1, <2>1 DEF ContentInv, LogInv, LatestChangeIsTheRow, Latest
    <3>2. ~(i = j.item /\ Owns(j))
      <4> SUFFICES ASSUME i = j.item, Owns(j) PROVE FALSE
        OBVIOUS
      <4>1. Synced(j.item) /\ e.seq < j.seq
        BY <1>4, <1>6, <2>1
      <4>2. \E f \in log' : f.item = i /\ f.seq = j.seq
        BY <1>1, <4>1
      <4>. QED BY <1>4, <1>6, <2>1, <4>1, <4>2
    <3>. QED BY <1>1, <3>1, <3>2
  <2>2. CASE e \notin log
    BY <1>1, <1>4, <2>2
  <2>. QED BY <2>1, <2>2
<1>9. ASSUME NEW d \in Clients, d = c
      PROVE  Mine(job[d])' /\ FreshId(d)'
  <2>1. LET k == job'[c] IN
          k.op \in {"none", "cleanup"} /\ k.at \in {"idle", "tables"} /\ k.locks = {} /\ k.drop = {} /\ k.add = {}
    BY CommitJobs
  <2>2. HeldOK(job[c])'
    BY CommitJobs
  <2>3. Secured(job[d])' /\ Covered(job[d])' /\ Rooted(job[d])' /\ FreshId(d)'
    BY <1>9, <2>1 DEF Secured, Covered, Rooted, FreshId
  <2>. QED BY <1>9, <2>2, <2>3 DEF Mine
<1>10. ASSUME NEW d \in Clients, d # c
       PROVE  Mine(job[d])' /\ FreshId(d)'
  <2>1. Placed(job[d]) /\ Mine(job[d]) /\ FreshId(d) /\ job[d].locks \cap j.locks = {}
    BY <1>10 DEF ContentInv, ContentTypeInv, JobsOK, Exclusive, Holds, j
  <2> DEFINE k == job'[d]
  <2>2. k = [job[d] EXCEPT !.held = @ \ {j.item}]
    BY <1>2, <1>10
  <2>3. /\ k.op = job[d].op /\ k.at = job[d].at /\ k.item = job[d].item /\ k.user = job[d].user /\ k.file = job[d].file
        /\ k.id = job[d].id /\ k.seq = job[d].seq /\ k.before = job[d].before /\ k.locks = job[d].locks
        /\ k.tables = job[d].tables /\ k.used = job[d].used /\ k.held = job[d].held \ {j.item}
        /\ k.drop = job[d].drop /\ k.add = job[d].add /\ k.item \in Items /\ k.held \subseteq Items
    BY <2>1, <2>2 DEF Placed, Job
  <2>4. k.at \in {"append", "commit"} /\ Owns(k) => ~(k.item = j.item /\ Owns(j))
    BY <2>1, <2>3 DEF Owns
  <2> HIDE DEF k
  <2>5. Secured(job[d])'
    <3>1. /\ k.at \in {"append", "commit"} =>
               /\ Owns(k) \/ (k.op = "push" /\ k.file = None)
               /\ k.op \in {"update", "archive"} => row[k.item] # None
               /\ k.op = "archive" => k.file # None
          /\ k.at = "commit" /\ Synced(k.item) => k.seq <= sequence
          /\ k.at = "commit" /\ Synced(k.item) /\ Owns(k) =>
               \A e \in log : e.item = k.item /\ e.file # None => e.seq < k.seq
      BY <2>1, <2>3 DEF Mine, Secured, Owns
    <3>2. k.at \in {"append", "commit"} /\ k.op \in {"update", "archive"} => row'[k.item] # None
      BY <1>1, <2>3, <2>4, <3>1
    <3>3. ASSUME k.at = "commit", Synced(k.item), Owns(k), NEW e \in log', e.item = k.item, e.file # None
          PROVE  e.seq < k.seq
      <4>1. e \in log
        BY <1>1, <1>4, <2>4, <3>3
      <4>. QED BY <3>1, <3>3, <4>1
    <3>. QED BY <1>1, <3>1, <3>2, <3>3 DEF k, Secured, Owns, Synced
  <2>6. HeldOK(job[d])'
    BY <1>1, <2>1, <2>3 DEF k, Mine, HeldOK, Read
  <2>7. Covered(job[d])'
    BY <1>1, <2>1, <2>3 DEF k, Mine, Covered
  <2>8. Rooted(job[d])'
    <3> SUFFICES ASSUME k.op \in LookOps, ~\E e \in log' : e.item = k.item /\ e.file = None
                 PROVE  row'[k.item] # None
      BY DEF Rooted, Alive, k
    <3>1. Counted(k.item) /\ row[k.item] # None
      BY <1>1, <2>1, <2>3 DEF Placed, Looks, Mine, Rooted, Alive
    <3>2. k.item = j.item => j.file # None
      BY <1>1, <3>1 DEF Counted, Synced
    <3>. QED BY <1>1, <2>3, <3>1, <3>2
  <2>9. FreshId(d)'
    <3> SUFFICES ASSUME k.at = "commit", k.id # None
                 PROVE  /\ \A e \in log' : e.id # k.id
                        /\ \A b \in Clients \ {d} : job'[b].at = "commit" => job'[b].id # k.id
      BY DEF FreshId, Applied, k
    <3>1. /\ \A e \in log : e.id # k.id
          /\ \A b \in Clients \ {d} : job[b].at = "commit" => job[b].id # k.id
      BY <2>1, <2>3 DEF FreshId, Applied
    <3>2. job'[c].at # "commit"
      BY CommitJobs
    <3>3. \A b \in Clients \ {c} : job'[b].at = job[b].at /\ job'[b].id = job[b].id
      BY <1>2 DEF ContentInv, ContentTypeInv, JobsOK, Placed, Job
    <3>. QED BY <1>1, <1>10, <3>1, <3>2, <3>3 DEF j
  <2>. QED BY <2>5, <2>6, <2>7, <2>8, <2>9 DEF Mine
<1>. QED BY <1>2, <1>3, <1>7, <1>8, <1>9, <1>10 DEF ContentInv, ContentTypeInv, LogInv

-----------------------------------------------------------------------------
(* The invariant *)

LEMMA ContentStarts == EngagementInit => ContentInv
<1> SUFFICES ASSUME EngagementInit PROVE ContentInv
  OBVIOUS
<1>1. /\ row = InitRows /\ log = {} /\ sequence = 0 /\ stored = Files
      /\ sent = [m \in Mutations |-> None] /\ job = [c \in Clients |-> Quiet]
      /\ marks = {} /\ views = {}
      /\ metric = [i \in Items |-> IF Counted(i) /\ row[i] # None THEN Zero ELSE None]
  BY DEF EngagementInit, ContentInit
<1>2. TablesOK
  <2>1. metric \in [Items -> Counters \cup {None}]
    BY <1>1, ZeroTyped
  <2>. QED BY <1>1, <2>1, ContentAssumption, FS_EmptySet DEF TablesOK
<1>3. JobsOK /\ \A c \in Clients : Mine(job[c])
  BY <1>1, QuietFits DEF JobsOK, Fits
<1>4. \A c \in Clients : job[c].locks = {} /\ job[c].at = "idle"
  BY <1>1 DEF Quiet
<1>5. Exclusive /\ \A c \in Clients : FreshId(c)
  BY <1>4 DEF Exclusive, Holds, FreshId
<1>6. LogInv
  BY <1>1 DEF LogInv, LogOK, LatestChangeIsTheRow, Latest
<1>7. Hanging
  BY <1>1, ZeroTyped DEF Hanging
<1>8. CountersAreRows
  <2>1. \A i \in Items : metric[i] # None => metric[i].stars = 0 /\ metric[i].views = 0
    BY <1>1 DEF Zero
  <2>2. \A i \in Items : Stars(i) = {} /\ Seers(i) = {}
    BY <1>1 DEF Stars, Seers
  <2>. QED BY <2>1, <2>2, FS_EmptySet DEF CountersAreRows, Undeleted, Stars, Seers
<1>. QED BY <1>2, <1>3, <1>5, <1>6, <1>7, <1>8 DEF ContentInv, ContentTypeInv

LEMMA ContentSteps == ContentInv /\ [EngagementNext]_vars => ContentInv'
<1> SUFFICES ASSUME ContentInv, [EngagementNext]_vars PROVE ContentInv'
  OBVIOUS
<1>1. CASE UNCHANGED vars
  <2>1. TablesOK' /\ JobsOK'
    BY <1>1 DEF vars, cvars, evars, ContentInv, ContentTypeInv, TablesOK, JobsOK
  <2>2. Exclusive' /\ LogInv' /\ Hanging' /\ CountersAreRows'
    BY <1>1 DEF vars, cvars, evars, ContentInv, Exclusive, Holds, LogInv, LogOK, Synced, LatestChangeIsTheRow, Latest,
                Hanging, Alive, Counted, CountersAreRows, Undeleted
  <2>3. \A c \in Clients : Mine(job[c])' /\ FreshId(c)'
    BY <1>1 DEF vars, cvars, evars, ContentInv, Mine, Secured, Owns, Synced, HeldOK, Covered, Rooted, Alive, FreshId, Applied
  <2>. QED BY <2>1, <2>2, <2>3 DEF ContentInv, ContentTypeInv
<1>2. ASSUME EngagementNext, NEW c \in Clients, (Editing(c) /\ Kept) \/ Engaging(c)
      PROVE  ContentInv'
  <2>1. sent' \in [Mutations -> Sent \cup {None}]
    BY <1>2, SentTyped
  <2>2. CASE Append(c) /\ Kept
    BY <2>2, AppendStep
  <2>3. CASE CommitAll(c)
    BY <2>3, CommitStep
  <2>4. CASE EnsureAgain(c) \/ Look(c)
    BY <2>4, EnsureStep
  <2>5. CASE Count(c)
    BY <2>5, CountStep
  <2>6. CASE Editing(c) /\ Kept /\ ~Append(c)
    <3>1. row' = row /\ log' = log /\ sequence' = sequence /\ stored' \subseteq stored
      BY <2>6 DEF Editing, Create, FindExisting, Archive, Push, Prior, Duplicate, CheckBase, Exists, Write, Written,
                  ReadTable, Remove, Reading
    <3>2. Moves(c)
      BY <2>6, QuietMoves DEF Editing, QuietSteps
    <3>. QED BY <2>1, <2>6, <3>1, <3>2, StillStep DEF Kept
  <2>7. CASE Engaging(c) /\ ~(EnsureAgain(c) \/ Look(c) \/ Count(c) \/ CommitAll(c))
    <3>1. row' = row /\ log' = log /\ sequence' = sequence /\ stored' = stored /\ evars' = evars
      BY <2>7 DEF Engaging, Engage, Ensure, Event, Want, Unmark, MarkIt, Purge, PurgeMarks, PurgeMetric,
                  Reading, Kept
    <3>2. Moves(c)
      BY <2>7, QuietMoves DEF Engaging, QuietSteps
    <3>. QED BY <2>1, <3>1, <3>2, StillStep
  <2>. QED BY <1>2, <2>2, <2>3, <2>4, <2>5, <2>6, <2>7
<1>. QED BY <1>1, <1>2 DEF EngagementNext

\* Rows, log, stored files, marks, counters and requests under way always fit
\* one another: what the theorems below rest on.
LEMMA ContentAlways == EngagementSpec => []ContentInv
BY ContentStarts, ContentSteps, PTL DEF EngagementSpec

-----------------------------------------------------------------------------
(* What offline clients and the clean-up rely on *)

\* The last change of a row in sequence order, unless it is a deletion, is the
\* row, however many requests write, push and delete beside one another:
\* tables are written by prisma under READ COMMITTED, the number is drawn with
\* the row locked.
THEOREM LatestIsTheRow == EngagementSpec => []LatestChangeIsTheRow
<1>1. ContentInv => LatestChangeIsTheRow
  BY DEF ContentInv, LogInv
<1>. QED BY <1>1, ContentAlways, PTL

\* Counters of stars and views are the numbers of their rows, as long as the
\* row was never deleted (utils/content-metrics).
THEOREM CountersTally == EngagementSpec => []CountersAreRows
<1>1. ContentInv => CountersAreRows
  BY DEF ContentInv
<1>. QED BY <1>1, ContentAlways, PTL

\* A mutation pushed again changes neither rows nor log once it is logged
\* (applyMutation in modules/sync).
THEOREM AppliedAtMostOnce == EngagementSpec => AppliedOnce
<1>1. ASSUME ContentInv, EngagementNext, NEW c \in Clients, job[c].op = "push", Applied(job[c].id)
      PROVE  UNCHANGED <<row, log>> \/ job'[c] = job[c]
  <2>1. PICK b \in Clients : (Editing(b) /\ Kept) \/ Engaging(b)
    BY <1>1 DEF EngagementNext
  <2>2. CASE ~CommitAll(b)
    BY <2>1, <2>2 DEF Editing, Engaging, Create, FindExisting, Archive, Push, Prior, Duplicate, CheckBase, Exists,
         Write, Written, Append, ReadTable, Remove, Engage, Ensure, Event, EnsureAgain, Look, Want, Unmark, MarkIt,
         Count, Purge, PurgeMarks, PurgeMetric, Reading
  <2>3. CASE CommitAll(b)
    <3>1. b # c
      <4> SUFFICES ASSUME b = c PROVE FALSE
        OBVIOUS
      <4>1. job[c].id \in Mutations /\ job[c].at = "commit"
        BY <1>1, <2>3, InHand DEF Placed, Edits, CommitAll, Commit, At
      <4>. QED BY <1>1, <4>1, ContentAssumption DEF ContentInv, FreshId
    <3>2. job'[c] = [job[c] EXCEPT !.held = @ \ {job[b].item}]
      BY <1>1, <2>3, <3>1, CommitJobs
    <3>3. Placed(job[c]) /\ job[c].held = {}
      BY <1>1, InHand DEF Placed, Cleans
    <3>4. {} \ {job[b].item} = {}
      OBVIOUS
    <3>5. [job[c] EXCEPT !.held = {}] = job[c]
      BY <3>3 DEF Placed, Job
    <3>. QED BY <3>2, <3>3, <3>4, <3>5
  <2>. QED BY <2>2, <2>3
<1>2. ContentInv /\ [EngagementNext]_vars =>
        [\A c \in Clients : job[c].op = "push" /\ (\E e \in log : e.id = job[c].id)
           => UNCHANGED <<row, log>> \/ job'[c] = job[c]]_vars
  BY <1>1 DEF Applied
<1>. QED BY <1>2, ContentAlways, PTL DEF EngagementSpec, AppliedOnce

\* No file is removed while a row refers to it that has done so since the
\* clean-up began (cleanupUnreferencedStoragePaths), in whatever order the
\* tables are read and whoever writes meanwhile.
THEOREM HeldFilesSurvive == EngagementSpec => HeldFilesStay
<1>1. ASSUME ContentInv, EngagementNext, NEW f \in stored \ stored', NEW c \in Clients,
             At(c, "remove"), job'[c] # job[c]
      PROVE  job[c].held = {}
  <2>1. Placed(job[c]) /\ HeldOK(job[c])
    BY <1>1, InHand DEF Mine
  <2>2. PICK b \in Clients : (Editing(b) /\ Kept) \/ Engaging(b)
    BY <1>1 DEF EngagementNext
  <2>3. Remove(b)
    BY <1>1, <2>2 DEF Editing, Engaging, Create, FindExisting, Archive, Push, Prior, Duplicate, CheckBase, Exists,
         Write, Append, ReadTable, Engage, Ensure, Event, EnsureAgain, Look, Want, Unmark, MarkIt,
         Count, Purge, PurgeMarks, PurgeMetric, CommitAll, Commit, Reading
  <2>4. job'[c] # job[c] => b = c
    BY <1>1, <2>3, InHand DEF Remove, Answer
  <2>5. f = job[c].before /\ f \notin InUse(c)
    BY <1>1, <2>3, <2>4 DEF Remove, Removable
  <2>6. job[c].tables = {} /\ job[c].held \subseteq Items /\ f \in Files
    BY <1>1, <2>1, <2>5 DEF At, Placed, Cleans, Job, ContentInv, ContentTypeInv, TablesOK
  <2>7. \A i \in job[c].held : f \in InUse(c)
    BY <2>1, <2>5, <2>6 DEF HeldOK, Read, InUse
  <2>. QED BY <2>5, <2>7
<1>2. ContentInv /\ [EngagementNext]_vars =>
        [\A f \in stored \ stored' : \A c \in Clients : At(c, "remove") /\ job'[c] # job[c] =>
           job[c].held = {}]_vars
  BY <1>1
<1>. QED BY <1>2, ContentAlways, PTL DEF EngagementSpec, HeldFilesStay
=============================================================================
