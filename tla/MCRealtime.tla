----------------------------- MODULE MCRealtime -----------------------------
(* TLC instances of Realtime. *)
EXTENDS Realtime, TLC

CONSTANTS s1, s2

TwoUsers == {"ann", "eve"}
EveViews == {"eve"}
TwoTabs == {"a", "e"}
OneEach == [t \in TwoTabs |-> IF t = "a" THEN "ann" ELSE "eve"]
TwoSockets == {s1, s2}
PairSymmetry == Permutations(TwoSockets)
=============================================================================
