-------------------------- MODULE MCExtractionJobs --------------------------
(* TLC instances of ExtractionJobs. *)
EXTENDS ExtractionJobs, TLC

CONSTANTS a1, a2, w1, w2, r1, r2, c1, c2

OneAuthor == {a1}
TwoWorkers == {w1, w2}
OneRequest == {r1}
TwoRequests == {r1, r2}
OneKey == {c1}
\* A retry stops its job first, as POST /stop does.
Creating == {"create", "retry"}
\* Retentions; the longer one covers both jobs of an instance.
Short == [count |-> 1, days |-> 1]
Long == [count |-> 2, days |-> 2]
ShortOnes == {Short}

Symmetry == Permutations({w1, w2}) \cup Permutations({r1, r2})
============================================================================
