------------------------------ MODULE MCContent ------------------------------
(* TLC instances of Engagement. *)
EXTENDS Engagement, TLC

CONSTANTS c1, c2, c3

Pair == {c1, c2}
Trio == {c1, c2, c3}
TwoItems == {"tale", "photo"}
KindsOfTwo == [i \in TwoItems |-> IF i = "tale" THEN "lore" ELSE "gallery"]
TwoFiles == {"f1", "f2"}
OneFile == {"f1"}
TaleOnly == [i \in TwoItems |-> IF i = "tale" THEN "f1" ELSE None]
Both == [i \in TwoItems |-> "f1"]
OneUser == {"ann"}
OneMutation == {"m1"}
TwoMutations == {"m1", "m2"}
Editors == {"create", "update", "delete", "archive", "push"}
Viewers == {"view", "star", "unstar", "like", "dislike", "unlike"}
All == Editors \cup Viewers
PairSymmetry == Permutations(Pair)
TrioSymmetry == Permutations(Trio)
=============================================================================
