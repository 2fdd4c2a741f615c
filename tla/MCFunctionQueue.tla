--------------------------- MODULE MCFunctionQueue ---------------------------
(* Small instances of FunctionQueue for TLC. *)
EXTENDS FunctionQueue

CONSTANTS j1, j2, j3, g1, g2, c1, k1, k2, d1, d2, d3, d4, d5

OneJob == {j1}
TwoJobs == {j1, j2}
ThreeJobs == {j1, j2, j3}
OneGeneration == {g1}
TwoGenerations == {g1, g2}
OneClient == {c1}
OnePermit == {k1}
TwoPermits == {k1, k2}
FiveDeliveries == {d1, d2, d3, d4, d5}

\* A bound on the environment: no client redrives or discards a dead job.  The
\* run of ConcurrentWorker has those calls.
NoDeadLetterCalls == \A c \in Clients : call'[c].pc \notin {"redrive.set", "discard.delete"}

\* apply_lock lets one change of the configuration in at a time: generations
\* start in order, and are aborted in order.
InOrder ==
  /\ subs'[g2] # "new" => subs'[g1] # "new"
  /\ subs'[g2] = "off" => subs'[g1] = "off"

QuietSpec == Init /\ [][Next /\ NoDeadLetterCalls /\ InOrder]_vars /\ Fairness
=============================================================================
