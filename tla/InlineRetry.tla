----------------------------- MODULE InlineRetry -----------------------------
(***************************************************************************)
(* process_job_with_inline_retry of builtins/queue.rs, which both FIFO     *)
(* workers run: the handler is called again after a backoff until it       *)
(* succeeds or the job is exhausted, and the job stays active meanwhile.   *)
(* Also the order in which jobs were pushed, which the FIFO properties     *)
(* compare with the order in which they run.                               *)
(***************************************************************************)
EXTENDS JobQueue

VARIABLE order   \* history: <<i, j>> when a push listed i and then j, or i is j

HandlerOk(c) ==
  /\ At(c, "handling")
  /\ Goto(c, "ack.lrem")
  /\ Settle(call[c].job, "acked")
  /\ UNCHANGED <<store, ready, failures, raced>>

HandlerErr(c) ==
  LET j == call[c].job
      attempts == IncrementAttempts(call[c].tries)
      next == IF IsExhausted(attempts) THEN "dlq.lrem" ELSE "backoff"
  IN /\ At(c, "handling")
     /\ call' = [call EXCEPT ![c] = Call(next, j, attempts)]
     /\ failures' = [failures EXCEPT ![j] = @ + 1]
     /\ UNCHANGED <<store, ready, fate, raced>>

\* The backoff is over: the count is stored and the handler called again.
RetryNow(c) ==
  /\ At(c, "backoff")
  /\ SetJob(call[c].job, call[c].tries)
  /\ Goto(c, "handling")
  /\ UNCHANGED <<waiting, active, delayed, dlq, ready, history>>

Process(c) == HandlerOk(c) \/ HandlerErr(c) \/ RetryNow(c) \/ Ack(c) \/ MoveToDlq(c)

\* A push lists its job as the newest; a redrive or discard unlists one first.
Listed(j) == <<j, j>> \in order
Without(j) == {e \in order : j \notin {e[1], e[2]}}
Newest(j) == Without(j) \cup {<<i, j>> : i \in {i \in Jobs : Listed(i) \/ i = j}}
Reorder(c) ==
  order' = IF At(c, "push.list") THEN Newest(call[c].job)
           ELSE IF At(c, "idle") THEN Without(call'[c].job)
           ELSE order

Client(c) == ClientStep(c) /\ Reorder(c)

Precedes(i, j) == i # j /\ <<i, j>> \in order

\* Job i needs no more runs: handled, dead, or out of the queue.
Settled(i) == fate[i] # "live" \/ dlq[i] > 0

\* A pushed job keeps its place in the order of pushes until it is settled.
OrderTypeOK == order \subseteq Jobs \X Jobs
=============================================================================
