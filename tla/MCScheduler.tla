----------------------------- MODULE MCScheduler -----------------------------
(* TLC instances of Scheduler. *)
EXTENDS Scheduler, TLC

CONSTANTS k1, w1, w2

OneKey == {k1}
TwoWorkers == {w1, w2}

\* k1 is used with runtime.stop (1).
OnePriority == (k1 :> 1)

\* A one-time schedule, and the same instant repeated once.
OnceAndTwice == {{1}, {1, 2}}
=============================================================================
