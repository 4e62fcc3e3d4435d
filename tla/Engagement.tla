----------------------------- MODULE Engagement -----------------------------
(***************************************************************************)
(* What hangs on the rows of Content: reactions, view events and the       *)
(* counters over them (utils/content-metrics), and their end with the row. *)
(*                                                                         *)
(* A viewer in one window of six hours is a user here.  Comments hang on a *)
(* row like reactions do, without a counter, and are left out.             *)
(***************************************************************************)
EXTENDS Content

CONSTANT Users

VARIABLES
  marks,   \* committed ContentReaction rows: <<user, item, kind>>
  views,   \* committed ContentViewEvent rows: <<user, item, "view">>
  metric   \* ContentMetric per item, None if there is no row

evars == <<marks, views, metric>>
vars == <<cvars, evars>>

Counters == [views : Int, likes : Int, dislikes : Int, stars : Int]
ASSUME CounterAssumption == None \notin Counters
Zero == [views |-> 0, likes |-> 0, dislikes |-> 0, stars |-> 0]
Counted(i) == KindOf[i] \in {"lore", "gallery"}
Kept == UNCHANGED evars

EngagementInit == /\ ContentInit /\ marks = {} /\ views = {}
                  /\ metric = [i \in Items |-> IF Counted(i) /\ row[i] # None THEN Zero ELSE None]

Mark(c, kind) == <<job[c].user, Item(c), kind>>
Wait(c, rows) == \A r \in rows : ~Locked(c, r)
Counter(c) == <<"metric", Item(c)>>          \* the metric row, as something to lock
HasCounter(c) == metric[Item(c)] # None \/ Counter(c) \in Holds(c)

-----------------------------------------------------------------------------
(* GET one item, POST /star, POST /reaction: the item is looked up first.  *)
Engage(c) ==
  /\ \E i \in Items, u \in Users, op \in {"view", "star", "unstar", "like", "dislike", "unlike"} :
       /\ Counted(i) /\ row[i] # None
       /\ op \in {"star", "unstar"} => KindOf[i] = "lore"
       /\ op \in {"like", "dislike", "unlike"} => KindOf[i] = "gallery"
       /\ Start(c, [Quiet EXCEPT !.op = op, !.at = "ensure", !.item = i, !.user = u])
  /\ UNCHANGED <<row, log, sequence, stored, sent, evars>>

Ensure(c) ==
  /\ At(c, "ensure") /\ Wait(c, {Counter(c)}) /\ Reading /\ Kept
  /\ job' = [job EXCEPT ![c].locks = IF HasCounter(c) THEN @ ELSE {Counter(c)},
               ![c].at = IF job[c].op = "view" THEN "event" ELSE "look"]

\* recordContentView: one event for a viewer and a window, and one count.
NeverSeen(c) == FALSE     \* bug: every look counts
Seen(c) == Mark(c, "view") \in views
Event(c) ==
  /\ At(c, "event") /\ Wait(c, {Mark(c, "view")}) /\ Reading /\ Kept
  /\ job' = [job EXCEPT ![c].at = IF Seen(c) THEN "again" ELSE "count",
               ![c].locks = IF Seen(c) THEN {} ELSE @ \cup {Mark(c, "view")}]
EnsureAgain(c) ==
  /\ At(c, "again") /\ Wait(c, {Counter(c)}) /\ Answer(c) /\ Reading
  /\ metric' = [metric EXCEPT ![Item(c)] = IF HasCounter(c) THEN @ ELSE Zero]
  /\ UNCHANGED <<marks, views>>

\* setLoreStar and setGalleryReaction read the marks, then write.
Kinds(c) == IF job[c].op \in {"star", "unstar"} THEN {"star"} ELSE {"like", "dislike"}
Found(c) == {k \in Kinds(c) : Mark(c, k) \in marks}
Wants(c) == Kinds(c) \cap {job[c].op}
AlwaysNew(c) == FALSE     \* bug: no early return
Idempotent(c) == "star" \in Kinds(c) /\ Found(c) = Wants(c)
Look(c) ==
  /\ At(c, "look") /\ Reading
  /\ IF Idempotent(c)
     THEN /\ Answer(c) /\ metric' = [metric EXCEPT ![Item(c)] = IF @ = None THEN Zero ELSE @]
          /\ UNCHANGED <<marks, views>>
     ELSE /\ job' = [job EXCEPT ![c].had = Found(c),
                       ![c].at = IF job[c].op = "star" THEN "mark"
                                 ELSE IF job[c].op = "unstar" THEN "unmark" ELSE "want"]
          /\ Kept
\* deleteMany: the rows are chosen when the statement starts.
Want(c) ==
  /\ At(c, "want") /\ Reading /\ Kept
  /\ job' = [job EXCEPT ![c].wanted = {Mark(c, k) : k \in Found(c)}, ![c].at = "unmark"]
\* The star is deleted by its id and must be there, reactions need not be.
Unmark(c) ==
  LET rows == IF job[c].op = "unstar" THEN {Mark(c, "star")} ELSE job[c].wanted IN
  /\ At(c, "unmark") /\ Wait(c, rows) /\ Reading /\ Kept
  /\ IF job[c].op = "unstar" /\ ~(rows \subseteq marks) THEN Answer(c)
     ELSE job' = [job EXCEPT ![c].drop = rows \cap marks, ![c].locks = @ \cup (rows \cap marks),
                    ![c].at = IF Wants(c) = {} THEN "count" ELSE "mark"]
MarkIt(c) ==
  LET m == Mark(c, job[c].op) IN
  /\ At(c, "mark") /\ Wait(c, {m}) /\ Reading /\ Kept
  /\ IF m \in marks \ job[c].drop THEN Answer(c)      \* the unique index
     ELSE job' = [job EXCEPT ![c].add = {m}, ![c].locks = @ \cup {m}, ![c].at = "count"]

\* The last statement of the transaction adds to the counters, and commits.
Delta(c, kind) == (IF kind \in Wants(c) THEN 1 ELSE 0) - (IF kind \in job[c].had THEN 1 ELSE 0)
NewCount(c, m) ==
  IF job[c].op = "view" THEN [m EXCEPT !.views = @ + 1]
  ELSE IF "star" \in Kinds(c) THEN [m EXCEPT !.stars = @ + Delta(c, "star")]
  ELSE [m EXCEPT !.likes = @ + Delta(c, "like"), !.dislikes = @ + Delta(c, "dislike")]
Count(c) ==
  /\ At(c, "count") /\ Wait(c, {Counter(c)}) /\ Answer(c) /\ Reading
  /\ IF ~HasCounter(c) THEN Kept                     \* nothing to update: rolled back
     ELSE /\ metric' = [metric EXCEPT ![Item(c)] = NewCount(c, IF @ = None THEN Zero ELSE @)]
          /\ marks' = (marks \ job[c].drop) \cup job[c].add
          /\ views' = IF job[c].op = "view" THEN views \cup {Mark(c, "view")} ELSE views

-----------------------------------------------------------------------------
(* Deleting a row.  A pushed deletion of lore names a type the tables do   *)
(* not have; the four statements fail and are ignored.                     *)
Purged(c) == Counted(Item(c)) /\ ~(job[c].op = "push" /\ KindOf[Item(c)] = "lore")
Purge(c) ==
  /\ At(c, "purge") /\ Reading /\ Kept
  /\ job' = [job EXCEPT ![c].wanted = IF Purged(c) THEN {m \in marks : m[2] = Item(c)} ELSE {},
               ![c].at = IF Purged(c) THEN "marks" ELSE "write"]
PurgeMarks(c) ==
  /\ At(c, "marks") /\ Wait(c, job[c].wanted) /\ Reading /\ Kept
  /\ job' = [job EXCEPT ![c].drop = job[c].wanted \cap marks, ![c].locks = @ \cup (job[c].wanted \cap marks),
               ![c].at = "metric"]
PurgeMetric(c) ==
  /\ At(c, "metric") /\ Wait(c, {Counter(c)}) /\ Reading /\ Kept
  /\ job' = [job EXCEPT ![c].locks = IF metric[Item(c)] = None THEN @ ELSE @ \cup {Counter(c)}, ![c].at = "write"]

\* A created row gets its counters in the same transaction.
CommitAll(c) ==
  /\ Commit(c)
  /\ marks' = marks \ job[c].drop
  /\ metric' = [metric EXCEPT ![Item(c)] =
       IF job[c].file = None THEN (IF Counter(c) \in Holds(c) THEN None ELSE @)
       ELSE IF @ = None /\ Counted(Item(c)) /\ job[c].op \in {"create", "push"} THEN Zero ELSE @]
  /\ UNCHANGED views

-----------------------------------------------------------------------------
Editing(c) == \/ Create(c) \/ FindExisting(c) \/ Archive(c) \/ Push(c)
              \/ Prior(c) \/ Duplicate(c) \/ CheckBase(c) \/ Exists(c) \/ Write(c) \/ Append(c)
              \/ ReadTable(c) \/ Remove(c)
Engaging(c) == \/ Engage(c) \/ Ensure(c) \/ Event(c) \/ EnsureAgain(c) \/ Look(c) \/ Want(c)
               \/ Unmark(c) \/ MarkIt(c) \/ Count(c) \/ Purge(c) \/ PurgeMarks(c) \/ PurgeMetric(c)
               \/ CommitAll(c)
EngagementNext == \E c \in Clients : (Editing(c) /\ Kept) \/ Engaging(c)
EngagementSpec == EngagementInit /\ [][EngagementNext]_vars

-----------------------------------------------------------------------------
(* The last change of a row in sequence order, unless it is a deletion, is *)
(* the row: a client that applies the changes in that order ends with what *)
(* the server holds.  Numbers are drawn while the row is locked, so two    *)
(* editors of one row draw theirs in the order they write it.  A pushed    *)
(* deletion of a row that is not there locks nothing and is excepted.      *)
LatestChangeIsTheRow ==
  \A i \in Items : \A e \in Latest(i) : e.file # None => row[i] = e.file

(* A mutation an offline client sends again, even while the first attempt  *)
(* is still under way, is logged once and writes its row once.             *)
AppliedOnce ==
  [][\A c \in Clients : job[c].op = "push" /\ (\E e \in log : e.id = job[c].id)
       => UNCHANGED <<row, log>> \/ job'[c] = job[c]]_vars

(* A file is not removed while a row refers to it that has done so since   *)
(* the clean-up began, whatever tables are read in whatever order.         *)
HeldFilesStay ==
  [][\A f \in stored \ stored' : \A c \in Clients : At(c, "remove") /\ job'[c] # job[c] =>
       job[c].held = {}]_vars

(* The counters of stars and views are the numbers of their rows, with two *)
(* requests of one user at a time, as long as the row was never deleted.   *)
Undeleted(i) == Counted(i) /\ metric[i] # None /\ ~\E e \in log : e.item = i /\ e.file = None
CountersAreRows == \A i \in Items : Undeleted(i) =>
  /\ metric[i].stars = Cardinality({m \in marks : m[2] = i /\ m[3] = "star"})
  /\ metric[i].views = Cardinality({v \in views : v[2] = i})
=============================================================================
