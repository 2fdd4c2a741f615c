----------------------------- MODULE FifoWorker -----------------------------
(***************************************************************************)
(* A queue in FIFO mode with concurrency 1: struct FifoWorker.  On each    *)
(* tick the loop moves the due jobs to waiting, pops one job and runs it   *)
(* to its end in the loop itself, so unsubscribing aborts the handler too. *)
(***************************************************************************)
EXTENDS InlineRetry

VARIABLE subs   \* subs[p]: is the subscription of loop p "new", "on" or "off"

vars == <<queueVars, order, subs>>

Init == QueueInit /\ order = {} /\ subs = [p \in Pollers |-> "new"]

Subscribe(p) ==
  /\ subs[p] = "new"
  /\ subs' = [subs EXCEPT ![p] = "on"]
  /\ UNCHANGED <<queueVars, order>>

\* pop returns into the handler's first await, so "popped" is not a point at
\* which abort can take effect.
Unsubscribe(p) ==
  /\ subs[p] = "on"
  /\ ~ At(p, "popped")
  /\ subs' = [subs EXCEPT ![p] = "off"]
  /\ Return(p)
  /\ ready' = [ready EXCEPT ![p] = {}]
  /\ fate' = [j \in Jobs |-> IF Holds(p, j) THEN "stranded" ELSE fate[j]]
  /\ UNCHANGED <<store, failures, raced, order>>

Handle(p) ==
  /\ At(p, "popped")
  /\ Goto(p, "handling")
  /\ UNCHANGED <<store, ready, history>>

LoopStep(p) ==
  /\ subs[p] = "on"
  /\ \/ Move(p)
     \/ PopEmpty(p, "idle") \/ PopTake(p) \/ PopActivate(p)
     \/ PopRead(p) \/ PopGhost(p, "idle")
     \/ Handle(p) \/ Process(p)
  /\ UNCHANGED <<order, subs>>

Next ==
  \/ \E c \in Clients : Client(c) /\ UNCHANGED subs
  \/ \E j \in Jobs : BecomeDue(j) /\ UNCHANGED <<order, subs>>
  \/ \E p \in Pollers : Subscribe(p) \/ Unsubscribe(p) \/ LoopStep(p)

Spec == Init /\ [][Next]_vars

-----------------------------------------------------------------------------
(* Properties, which FifoModes states for queues of either mode.           *)

\* With one subscription a job runs only when every job pushed before it is
\* settled: retries are inline, so no later job overtakes a failing one.
FifoOrder ==
  \A p \in Pollers : At(p, "handling") =>
    \A i \in Jobs : Precedes(i, call[p].job) => Settled(i)

\* The worker's own attempt count and the stored one agree at every attempt,
\* so an attempt is never granted twice and the dead-letter list holds only
\* jobs whose handler failed MaxAttempts times.
AttemptsExact ==
  /\ \A p \in Pollers : At(p, "handling") => call[p].tries = failures[call[p].job]
  /\ \A j \in Jobs : dlq[j] > 0 => failures[j] = MaxAttempts
=============================================================================
