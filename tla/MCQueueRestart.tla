--------------------------- MODULE MCQueueRestart ---------------------------
(* A small instance of QueueRestart for TLC. *)
EXTENDS QueueRestart

CONSTANTS j1, j2, p1, c1, k1

TwoJobs == {j1, j2}
OnePoller == {p1}
OneClient == {c1}
OnePermit == {k1}

\* Bounds on the environment.  While j1 is alone all calls are made and the engine
\* crashes twice; after a restart that leaves j1 torn the client makes none.  With
\* j2, which is pushed first if at all, the engine crashes once, the client only
\* pushes, the loop is not aborted and the handler of j2 does not fail.
Bounded ==
  IF fate'[j2] = "new" THEN torn = {} \/ call'[c1] = Idle
  ELSE /\ crashes' < 2
       /\ fate[j2] = "new" => fate[j1] = "new"
       /\ call'[c1].pc \in {"idle", "push.list"}
       /\ subs'[p1] # "off"
       /\ failures'[j2] = 0

MCSpec == RestartInit /\ [][RestartNext /\ Bounded]_restartVars
=============================================================================
