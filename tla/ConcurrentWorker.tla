-------------------------- MODULE ConcurrentWorker --------------------------
(***************************************************************************)
(* A queue in concurrent mode: struct Worker of builtins/queue.rs, one     *)
(* poll loop per subscription.  On each tick the loop moves the due jobs   *)
(* to waiting, then pops jobs until none waits or it has no permit left;   *)
(* a job that gets a permit runs in a task of its own, which acks or nacks *)
(* it, and one that does not is put back at the head of waiting.           *)
(* Unsubscribing aborts the loop at whatever await it is in; the tasks it  *)
(* spawned run on.                                                         *)
(***************************************************************************)
EXTENDS JobQueue, FiniteSets

VARIABLE subs   \* subs[p]: is the subscription of loop p "new", "on" or "off"

vars == <<queueVars, subs>>

TasksOf(p) == {<<p, k>> : k \in Permits}
FreePermit(p) == \E t \in TasksOf(p) : At(t, "idle")

Init == QueueInit /\ subs = [p \in Pollers |-> "new"]

Subscribe(p) ==
  /\ subs[p] = "new"
  /\ subs' = [subs EXCEPT ![p] = "on"]
  /\ UNCHANGED queueVars

\* abort takes effect at an await: not between pop's return and the spawn.
Unsubscribe(p) ==
  /\ subs[p] = "on"
  /\ ~ (At(p, "popped") /\ FreePermit(p))
  /\ subs' = [subs EXCEPT ![p] = "off"]
  /\ Return(p)
  /\ ready' = [ready EXCEPT ![p] = {}]
  /\ fate' = [j \in Jobs |-> IF Holds(p, j) THEN "stranded" ELSE fate[j]]
  /\ UNCHANGED <<store, failures, raced>>

\* The job gets a permit: a task runs its handler, the loop pops the next.
Spawn(p, t) ==
  /\ At(p, "popped")
  /\ At(t, "idle")
  /\ call' = [call EXCEPT ![t] = Call("handling", call[p].job, call[p].tries),
                          ![p] = Call("poll", NoJob, 0)]
  /\ UNCHANGED <<store, ready, history>>

\* No permit: lpush to waiting, then lrem from active; the tick is over.
RequeuePush(p) ==
  /\ At(p, "popped")
  /\ ~ FreePermit(p)
  /\ LPush(call[p].job)
  /\ Goto(p, "requeue.lrem")
  /\ UNCHANGED <<active, delayed, dlq, record, ready, history>>

RequeueRemove(p) ==
  /\ At(p, "requeue.lrem")
  /\ LRemActive(call[p].job)
  /\ Return(p)
  /\ UNCHANGED <<waiting, delayed, dlq, record, ready, history>>

LoopStep(p) ==
  /\ subs[p] = "on"
  /\ \/ Move(p)
     \/ PopEmpty(p, "idle") \/ PopTake(p) \/ PopActivate(p)
     \/ PopRead(p) \/ PopGhost(p, "idle")
     \/ \E t \in TasksOf(p) : Spawn(p, t)
     \/ RequeuePush(p) \/ RequeueRemove(p)
  /\ UNCHANGED subs

HandlerOk(t) ==
  /\ At(t, "handling")
  /\ Goto(t, "ack.lrem")
  /\ Settle(call[t].job, "acked")
  /\ UNCHANGED <<store, ready, failures, raced>>

HandlerErr(t) ==
  /\ At(t, "handling")
  /\ Goto(t, "nack.get")
  /\ failures' = [failures EXCEPT ![call[t].job] = @ + 1]
  /\ UNCHANGED <<store, ready, fate, raced>>

TaskStep(t) ==
  /\ HandlerOk(t) \/ HandlerErr(t) \/ Ack(t) \/ Nack(t)
  /\ UNCHANGED subs

Next ==
  \/ \E c \in Clients : ClientStep(c) /\ UNCHANGED subs
  \/ \E j \in Jobs : BecomeDue(j) /\ UNCHANGED subs
  \/ \E p \in Pollers : Subscribe(p) \/ Unsubscribe(p) \/ LoopStep(p)
  \/ \E t \in Tasks : TaskStep(t)

Spec == Init /\ [][Next]_vars

\* The runtime keeps polling every task, a handler returns, and time passes;
\* a client that began a call finishes it, but no one has to call.
Fairness ==
  /\ \A p \in Pollers : WF_vars(Subscribe(p)) /\ WF_vars(LoopStep(p))
  /\ \A t \in Tasks : WF_vars(TaskStep(t))
  /\ \A j \in Jobs : WF_vars(BecomeDue(j) /\ UNCHANGED subs)
  /\ \A c \in Clients :
       WF_vars((PushList(c) \/ PushDelay(c) \/ RedriveSet(c) \/ DiscardDelete(c)) /\ UNCHANGED subs)

FairSpec == Spec /\ Fairness

-----------------------------------------------------------------------------
\* Every variable stays in its range, and a caller in the middle of a method
\* on a job knows which job.
TypeOK == QueueTypeOK /\ subs \in [Pollers -> {"new", "on", "off"}]

\* A job is in one place: it is never listed twice, listed while a task runs
\* it, or run by two tasks, however the methods of callers interleave; and it
\* is in no place exactly when it is settled.  The guarantee the queue's lists
\* owe their users: pop, requeue, nack and redrive each move a job in several
\* store operations.
OnePlace ==
  /\ \A i, k \in DOMAIN waiting : waiting[i] = waiting[k] => i = k
  /\ \A j \in Jobs : dlq[j] <= 1
  /\ \A j \in Jobs :
       IF fate[j] = "live" THEN \E x \in Places(j) : Places(j) = {x}
                           ELSE Places(j) = {}

\* No two tasks run the handler on one job, even with several subscriptions
\* polling the queue and a requeue that lists the job before it leaves active.
OneHandler ==
  \A s, t \in Tasks :
    At(s, "handling") /\ At(t, "handling") /\ call[s].job = call[t].job => s = t

\* The attempts_made of a job that waits or is delayed is the number of times
\* its handler failed since it was pushed or redriven: no retry is forgotten or
\* counted twice.  Only a redrive that overlaps move_to_dlq can break it.
AttemptsExact ==
  \A j \in Jobs \ raced :
    InWaiting(j) \/ delayed[j] # "none" => record[j] = failures[j]

\* A dead-letter entry is a job whose handler failed MaxAttempts times, and a
\* handler never starts on a job that has used up its attempts.
DeadMeansExhausted ==
  /\ \A j \in Jobs : dlq[j] > 0 => failures[j] = MaxAttempts
  /\ \A t \in Tasks : At(t, "handling") => failures[call[t].job] < MaxAttempts

\* A job is lost (its record gone while it still had to run) only when it was
\* redriven between move_to_dlq's lpush and its delete_job.
LossNeedsRace == \A j \in Jobs : fate[j] = "lost" => j \in raced

\* The active list, half of what queue_depth reports, holds one entry per
\* caller that works on the job; an entry that no one answers for is there only
\* for a job that was lost, or after a loop was aborted.
ActiveExact ==
  \A j \in Jobs :
    LET owners == {c \in Callers : call[c].job = j /\ call[c].pc \in ActivePCs}
    IN /\ active[j] >= Cardinality(owners)
       /\ active[j] > Cardinality(owners) =>
            fate[j] = "lost" \/ \E p \in Pollers : subs[p] = "off"

\* A handled job is never run again: ack's record deletion and the lists agree.
HandledOnce ==
  [][\A j \in Jobs, t \in Tasks :
       fate[j] = "acked" => ~ (~ At(t, "handling") /\ At(t, "handling")' /\ call'[t].job = j)]_vars

\* Once redrives stop, a job in the queue is eventually handled, discarded or
\* in the dead-letter list: no interleaving of retries and of requeues for want
\* of a permit starves it.  While jobs keep coming the loop may pop for ever and
\* never tick again, so that delayed jobs are not moved.  Excepted are the jobs
\* a racing redrive loses and those the abort of a loop strands, and a queue
\* whose subscriptions have all ended.
RedrivesStop == <>[](\A c \in Clients : ~ At(c, "redrive.set"))
JobsSettle ==
  RedrivesStop =>
    \A j \in Jobs :
      fate[j] = "live" ~> \/ fate[j] # "live"
                          \/ dlq[j] > 0
                          \/ \A p \in Pollers : subs[p] = "off"

-----------------------------------------------------------------------------
(***************************************************************************)
(* The queue implements JobLifecycle: a live job is running while a task   *)
(* is in its handler, dead once its last attempt failed, queued otherwise. *)
(***************************************************************************)
Running(j) == \E t \in Tasks : At(t, "handling") /\ call[t].job = j

StageOf(j) ==
  IF fate[j] # "live" THEN fate[j]
  ELSE IF Running(j) THEN "running"
  ELSE IF failures[j] = MaxAttempts THEN "dead" ELSE "queued"

Lifecycle == INSTANCE JobLifecycle WITH
  stage <- [j \in Jobs |-> StageOf(j)],
  attempts <- failures,
  exposed <- raced,
  MaxRunning <- Cardinality(Tasks)

\* Whatever the interleaving of pops, requeues, acks, nacks, redrives and
\* aborts, the queue's behaviour is one JobLifecycle allows.
ImplementsLifecycle == Lifecycle!Spec
=============================================================================
