---------------------------- MODULE JobLifecycle ----------------------------
(***************************************************************************)
(* What a queue promises for each job, with no lists, records or callers:  *)
(* a job is queued, runs at most once at a time, comes back to the queue   *)
(* after a failure while it has attempts left, is dead after its last one, *)
(* and is done for good after a success.                                   *)
(***************************************************************************)
EXTENDS Naturals, FiniteSets

CONSTANTS Jobs, MaxAttempts, MaxRunning

VARIABLES
  stage,     \* stage[j]: where job j is in its life
  attempts,  \* failed runs since the job was queued or redriven
  exposed    \* jobs a redrive took from the dead before they were buried

vars == <<stage, attempts, exposed>>

Stages == {"new", "queued", "running", "dead", "acked", "discarded", "lost", "stranded"}

TypeOK ==
  /\ stage \in [Jobs -> Stages]
  /\ attempts \in [Jobs -> 0..MaxAttempts]
  /\ exposed \subseteq Jobs

Init ==
  /\ stage = [j \in Jobs |-> "new"]
  /\ attempts = [j \in Jobs |-> 0]
  /\ exposed = {}

To(j, from, to) == stage[j] = from /\ stage' = [stage EXCEPT ![j] = to]

Submit(j) == To(j, "new", "queued") /\ UNCHANGED <<attempts, exposed>>

Start(j) ==
  /\ To(j, "queued", "running")
  /\ Cardinality({k \in Jobs : stage[k] = "running"}) < MaxRunning
  /\ UNCHANGED <<attempts, exposed>>

Succeed(j) == To(j, "running", "acked") /\ UNCHANGED <<attempts, exposed>>

\* A failed run costs an attempt; the last one makes the job dead.
Fail(j) ==
  /\ attempts' = [attempts EXCEPT ![j] = @ + 1]
  /\ To(j, "running", IF attempts[j] + 1 = MaxAttempts THEN "dead" ELSE "queued")
  /\ UNCHANGED exposed

Redrive(j) ==
  /\ To(j, "dead", "queued")
  /\ attempts' = [attempts EXCEPT ![j] = 0]
  /\ UNCHANGED exposed

Discard(j) == To(j, "dead", "discarded") /\ UNCHANGED <<attempts, exposed>>

\* The weak points of the promise: a poll loop that is aborted strands the job
\* it was moving, and a job whose redrive began too early can be lost.
Strand(j) == To(j, "queued", "stranded") /\ UNCHANGED <<attempts, exposed>>

Expose(j) ==
  /\ stage[j] = "dead"
  /\ exposed' = exposed \cup {j}
  /\ UNCHANGED <<stage, attempts>>

Lose(j) ==
  /\ j \in exposed
  /\ To(j, "queued", "lost") \/ To(j, "dead", "lost")
  /\ UNCHANGED <<attempts, exposed>>

Next ==
  \E j \in Jobs :
    \/ Submit(j) \/ Start(j) \/ Succeed(j) \/ Fail(j)
    \/ Redrive(j) \/ Discard(j) \/ Strand(j) \/ Expose(j) \/ Lose(j)

Spec == Init /\ [][Next]_vars
=============================================================================
