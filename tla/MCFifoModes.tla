---------------------------- MODULE MCFifoModes ----------------------------
(* Small instances of FifoModes for TLC. *)
EXTENDS FifoModes

CONSTANTS a1, a2, a3, b1, p1, c1, c2, k1, k2, A, B

TwoAndOne == {a1, a2, b1}
OneGroup == {a1, a2, a3}
OnePoller == {p1}
OneClient == {c1}
TwoClients == {c1, c2}
TwoPermits == {k1, k2}

GroupOf == [j \in Jobs |-> IF j = b1 THEN B ELSE A]

\* Bounds on the clients.  With concurrency 1 there are two and all they can
\* call, and two jobs; with more there is one, which does not redrive or discard
\* a dead job (the run of ConcurrentWorker has those calls), and three jobs.
Bounded ==
  IF Grouped THEN /\ At(c2, "idle")'
                  /\ call'[c1].pc \notin {"redrive.set", "discard.delete"}
             ELSE fate'[b1] = "new"
MCSpec == ModesInit /\ [][ModesNext /\ Bounded]_modeVars /\ ModesFairness

GroupsSpec == ModesInit /\ Grouped /\ [][ModesNext]_modeVars
=============================================================================
