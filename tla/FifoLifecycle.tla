---------------------------- MODULE FifoLifecycle ----------------------------
(***************************************************************************)
(* What a queue in FIFO mode with one subscription promises: the lives of  *)
(* JobLifecycle, but that a job which failed is tried again where it is,   *)
(* with no other job of its group beside it until it is done.  A strict    *)
(* queue, of concurrency 1, runs one job at a time in the order of pushes. *)
(***************************************************************************)
EXTENDS JobLifecycle

CONSTANT Group   \* Group[j]: the group of job j

VARIABLES
  strict,   \* has the queue concurrency 1?
  order     \* <<i, j>>: job i was listed before j, or is j

fifoVars == <<vars, strict, order>>

FifoInit == Init /\ strict \in BOOLEAN /\ order = {}

Before(i, j) == i # j /\ <<i, j>> \in order
Without(j) == {e \in order : j \notin {e[1], e[2]}}

\* A job has no place in the order until it is listed, as the newest.
Unlist(j) == order' = Without(j)

Enlist(j) ==
  /\ stage[j] = "queued"
  /\ order' = Without(j) \cup {<<i, j>> : i \in {i \in Jobs : <<i, i>> \in order \/ i = j}}
  /\ UNCHANGED vars

\* A dead job is taken for a redrive, perhaps before it was buried.
Revive(j) ==
  /\ stage[j] = "dead"
  /\ Expose(j) \/ UNCHANGED vars
  /\ Unlist(j)

Waits(i) == stage[i] \in {"queued", "running"}

TakeTurn(j) ==
  /\ Start(j)
  /\ \A i \in Jobs : stage[i] = "running" => ~ strict /\ Group[i] # Group[j]
  /\ strict => \A i \in Jobs : Before(i, j) => ~ Waits(i)

\* A failed attempt that is not the last leaves the job where it is.
FailAgain(j) ==
  /\ stage[j] = "running"
  /\ attempts[j] + 1 < MaxAttempts
  /\ attempts' = [attempts EXCEPT ![j] = @ + 1]
  /\ UNCHANGED <<stage, exposed>>

FailAtLast(j) == attempts[j] + 1 = MaxAttempts /\ Fail(j)

\* The loop is aborted with the jobs it has: a strict one with the one it works
\* on, even if that one is running, any other with jobs that wait.
Abort(S) ==
  /\ IF strict THEN \E j \in S : S = {j} /\ stage[j] \in {"queued", "running", "dead"}
               ELSE \A j \in S : stage[j] = "queued"
  /\ stage' = [j \in Jobs |-> IF j \in S THEN "stranded" ELSE stage[j]]
  /\ UNCHANGED <<attempts, exposed, order>>

JobNext(j) ==
  \/ (Submit(j) \/ Discard(j)) /\ Unlist(j)
  \/ Enlist(j)
  \/ Revive(j)
  \/ /\ \/ TakeTurn(j) \/ Succeed(j) \/ FailAgain(j) \/ FailAtLast(j)
        \/ Redrive(j) \/ Lose(j)
     /\ UNCHANGED order

FifoNext ==
  /\ (\E j \in Jobs : JobNext(j)) \/ (\E S \in SUBSET Jobs : Abort(S))
  /\ UNCHANGED strict

FifoSpec == FifoInit /\ [][FifoNext]_fifoVars
=============================================================================
