------------------------------ MODULE JobLedger ------------------------------
(***************************************************************************)
(* What the backup jobs promise: a ledger with one entry for each id.  An  *)
(* entry is queued for an author who has no other open one, is taken by    *)
(* one worker, gets its outcome from that worker alone or is stopped, and  *)
(* does not change again until it is struck out, for good.  The clean-up   *)
(* of old backups strikes out what has an outcome; an open entry goes only *)
(* when its author has asked for a deletion.                               *)
(***************************************************************************)
EXTENDS Integers

CONSTANTS Ids, Authors, Keys, Workers, NoWorker
VARIABLES ledger,    \* ledger[j]: an entry, or only a status when there is none
          deleting   \* authors whose deletion is still to be carried out
vars == <<ledger, deleting>>

Unborn == [status |-> "unborn"]
Gone == [status |-> "gone"]
Open(j) == ledger[j].status \in {"queued", "processing"}
Outcomes == {"completed", "failed", "stopped"}
OwnedBy(a) == {j \in Ids : ledger[j] \notin {Unborn, Gone} /\ ledger[j].author = a}
\* An entry whose status and owner have changed.
Now(j, status, owner) ==
  [author |-> ledger[j].author, key |-> ledger[j].key, status |-> status, owner |-> owner]

Init == ledger = [j \in Ids |-> Unborn] /\ deleting = {}

Submit(j, a, key) ==
  /\ ledger[j] = Unborn
  /\ \A i \in OwnedBy(a) : ledger[i].key # key /\ ~Open(i)
  /\ ledger' = [ledger EXCEPT ![j] =
       [author |-> a, key |-> key, status |-> "queued", owner |-> NoWorker]]
  /\ UNCHANGED deleting

Take(j, w) ==
  /\ ledger[j].status = "queued"
  /\ ledger' = [ledger EXCEPT ![j] = Now(j, "processing", w)] /\ UNCHANGED deleting

\* The worker that took it records how it ended.
Finish(j, w, outcome) ==
  /\ ledger[j].status = "processing" /\ ledger[j].owner = w
  /\ ledger' = [ledger EXCEPT ![j] = Now(j, outcome, NoWorker)] /\ UNCHANGED deleting

Stop(js) ==
  /\ \A j \in js : Open(j)
  /\ ledger' = [j \in Ids |-> IF j \in js THEN Now(j, "stopped", NoWorker) ELSE ledger[j]]
  /\ UNCHANGED deleting

StrikeOut(js) == ledger' = [j \in Ids |-> IF j \in js THEN Gone ELSE ledger[j]]
Prune(js) ==
  (\A j \in js : ledger[j].status \in Outcomes) /\ StrikeOut(js) /\ UNCHANGED deleting

AskToDelete(a) == deleting' = deleting \cup {a} /\ UNCHANGED ledger
Delete(a, js) == js \subseteq OwnedBy(a) /\ StrikeOut(js) /\ deleting' = deleting \ {a}

Next ==
  \/ \E j \in Ids, a \in Authors, key \in Keys : Submit(j, a, key)
  \/ \E j \in Ids, w \in Workers :
       Take(j, w) \/ Finish(j, w, "completed") \/ Finish(j, w, "failed")
  \/ \E js \in SUBSET Ids : Stop(js) \/ Prune(js) \/ \E a \in deleting : Delete(a, js)
  \/ \E a \in Authors : AskToDelete(a)

Spec == Init /\ [][Next]_vars
=============================================================================
