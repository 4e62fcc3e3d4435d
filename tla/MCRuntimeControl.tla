-------------------------- MODULE MCRuntimeControl --------------------------
(* TLC instances of RuntimeControl. *)
EXTENDS RuntimeControl, TLC

CONSTANTS b1, c1, start1, stop1, freeze, w1, w2

OneBot == {b1}
OneClient == {c1}
NoClient == {}
StartAndStop == {start1, stop1}
AllKeys == {start1, stop1, freeze}
StartAndFreeze == {start1, freeze}
OneWorker == {w1}
TwoWorkers == {w1, w2}

AllKinds == (start1 :> "start") @@ (stop1 :> "stop") @@ (freeze :> "freeze")
KindOfKeys == [k \in Keys |-> AllKinds[k]]
BotOfKeys == [k \in Keys |-> IF k = freeze THEN NoBot ELSE b1]
PriorityOfKeys == [k \in Keys |-> PriorityOf[AllKinds[k]]]

Once == {{1}}
OnceEach == {{1}, {2}, {3}}

WorkerSymmetry == Permutations({w1, w2})
=============================================================================
