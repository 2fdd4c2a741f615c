------------------------- MODULE MCConcurrentWorker -------------------------
(* Small instances of ConcurrentWorker for TLC. *)
EXTENDS ConcurrentWorker, TLC

CONSTANTS j1, j2, j3, p1, p2, c1, c2, k1, k2

TwoJobs == {j1, j2}
OnePoller == {p1}
TwoPollers == {p1, p2}
OnePermit == {k1}
TwoPermits == {k1, k2}
OneClient == {c1}

Symmetry == Permutations(Jobs) \cup Permutations(Pollers)
              \cup Permutations(Permits) \cup Permutations(Clients)
=============================================================================
