---------------------------- MODULE MCDiscipline ----------------------------
(* TLC instances of Discipline and of the Sessions it composes. *)
EXTENDS Discipline, TLC

CONSTANTS tab1, tab2, desk, desk2

Of(status, action) == [target |-> "ann", status |-> status, action |-> action]
OneStrike == <<Of("confirmed", "none"), Of("open", "none"),
               Of("open", "none"), Of("open", "none")>>
TwoStrikes == <<Of("confirmed", "none"), Of("confirmed", "auto-demote"),
                Of("open", "none"), Of("open", "none")>>

Row(status, level, role, strikes) ==
  [status |-> status, until |-> "none", password |-> "old", level |-> level,
   role |-> role, strikes |-> strikes, tier |-> IF strikes < 2 THEN 0 ELSE 1]
Staff(strikes) == [ann |-> Row("active", 3, "personel", strikes),
                   mod |-> Row("active", 7, "author", 0), bob |-> Row("absent", 0, "guest", 0)]
StruckOnce == Staff(1)
StruckTwice == Staff(2)

Staffed == {"ann", "mod", "bob"}
TabsAndDesk == {tab1, tab2, desk}
TwoDesks == {desk, desk2}
OwnerOfClients == [c \in Clients |-> IF c \in {tab1, tab2} THEN "ann" ELSE "mod"]
Words == {"old", "new"}
BothSignedIn == <<"ann", "mod">>
NoneAsked == <<>>
OneApproved == <<[target |-> "ann", status |-> "approved", password |-> "new"]>>
Promotion == {<<5, "personel">>, <<7, "admin">>}
Everything == Operations \cup PersonnelOperations
Resolving == {"report", "resolve"}

TabSymmetry == Permutations({tab1, tab2})
=============================================================================
