----------------------------- MODULE MCJobQueue -----------------------------
(* Model values for JobQueue. *)
EXTENDS JobQueue, TLC

CONSTANTS j1, j2, w1, w2, d1, d2

TwoJobs == {j1, j2}
OneJob == {j1}
TwoWorkers == {w1, w2}
OneWorker == {w1}
TwoDispatchers == {d1, d2}
OneDispatcher == {d1}

\* Workers and dispatchers are interchangeable; used for safety only.
Symmetry == Permutations(TwoWorkers) \cup Permutations(TwoDispatchers)
=============================================================================
