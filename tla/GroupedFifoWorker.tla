-------------------------- MODULE GroupedFifoWorker --------------------------
(***************************************************************************)
(* A queue in FIFO mode with concurrency above 1: struct GroupedFifoWorker *)
(* of builtins/queue.rs.  Jobs of different groups run side by side, each  *)
(* in a task, jobs of one group one at a time: a job whose group is active *)
(* is skipped, and the loop lists the skipped ones again when it is done.  *)
(***************************************************************************)
EXTENDS InlineRetry, FiniteSets

CONSTANTS
  Group,         \* Group[j]: group_id of job j
  DefaultGroup   \* the group of jobs pushed without one

ASSUME GroupAssumption == DOMAIN Group = Jobs

VARIABLES
  subs,      \* subs[p]: is the subscription of loop p "new", "on" or "off"
  groups,    \* groups[p]: active_groups, shared by loop p and its tasks
  skipped    \* skipped[p]: skipped_job_ids of loop p, in the order popped

vars == <<queueVars, order, subs, groups, skipped>>
local == <<groups, skipped>>

TasksOf(p) == {<<p, k>> : k \in Permits}
MaxGroups == Cardinality(Permits)

\* The group a task of loop p has a job of; active until the task releases it.
NeverBusy(p, g) == FALSE
Busy(p, g) == \E t \in TasksOf(p) : ~ At(t, "idle") /\ Group[call[t].job] = g
Skipped(p, j) == \E i \in DOMAIN skipped[p] : skipped[p][i] = j
SkipsOf(p, j) == {p} \X {i \in DOMAIN skipped[p] : skipped[p][i] = j}

Init ==
  /\ QueueInit
  /\ order = {}
  /\ subs = [p \in Pollers |-> "new"]
  /\ groups = [p \in Pollers |-> {}]
  /\ skipped = [p \in Pollers |-> << >>]

Subscribe(p) ==
  /\ subs[p] = "new"
  /\ subs' = [subs EXCEPT ![p] = "on"]
  /\ UNCHANGED <<queueVars, order, local>>

\* The loop awaits a lock after pop, so abort can take effect there too, and
\* the ids it skipped go with it.
Unsubscribe(p) ==
  /\ subs[p] = "on"
  /\ subs' = [subs EXCEPT ![p] = "off"]
  /\ Return(p)
  /\ ready' = [ready EXCEPT ![p] = {}]
  /\ skipped' = [skipped EXCEPT ![p] = << >>]
  /\ fate' = [j \in Jobs |->
                IF Holds(p, j) \/ Skipped(p, j) THEN "stranded" ELSE fate[j]]
  /\ UNCHANGED <<store, failures, raced, order, groups>>

\* The bound on active groups ends the round of pops before the next pop.
Full(p) == Cardinality(groups[p]) >= MaxGroups

EndPops(p) ==
  /\ At(p, "poll")
  /\ Full(p)
  /\ Begin(p, "requeue", NoJob)
  /\ UNCHANGED <<store, ready, history, local>>

Pop(p) ==
  /\ At(p, "poll") => ~ Full(p)
  /\ PopEmpty(p, "requeue") \/ PopTake(p) \/ PopActivate(p)
       \/ PopRead(p) \/ PopGhost(p, "requeue")
  /\ UNCHANGED local

Skip(p) ==
  /\ At(p, "popped")
  /\ Group[call[p].job] \in groups[p]
  /\ skipped' = [skipped EXCEPT ![p] = Append(@, call[p].job)]
  /\ Begin(p, "poll", NoJob)
  /\ UNCHANGED <<store, ready, history, groups>>

\* The group check, the insertion and the spawn are one step under the lock.
Spawn(p, t) ==
  /\ At(p, "popped")
  /\ At(t, "idle")
  /\ Group[call[p].job] \notin groups[p]
  /\ groups' = [groups EXCEPT ![p] = @ \cup {Group[call[p].job]}]
  /\ call' = [call EXCEPT ![t] = Call("handling", call[p].job, call[p].tries),
                          ![p] = Call("poll", NoJob, 0)]
  /\ UNCHANGED <<store, ready, history, skipped>>

\* The skipped ids, first popped first: lpush to waiting, lrem from active.
RequeuePush(p) ==
  /\ At(p, "requeue")
  /\ skipped[p] # << >>
  /\ LPush(Head(skipped[p]))
  /\ skipped' = [skipped EXCEPT ![p] = Tail(@)]
  /\ Begin(p, "requeue.lrem", Head(skipped[p]))
  /\ UNCHANGED <<active, delayed, dlq, record, ready, history, groups>>

RequeueRemove(p) ==
  /\ At(p, "requeue.lrem")
  /\ LRemActive(call[p].job)
  /\ Begin(p, "requeue", NoJob)
  /\ UNCHANGED <<waiting, delayed, dlq, record, ready, history, local>>

RequeueEnd(p) ==
  /\ At(p, "requeue")
  /\ skipped[p] = << >>
  /\ Return(p)
  /\ UNCHANGED <<store, ready, history, local>>

LoopStep(p) ==
  /\ subs[p] = "on"
  /\ \/ Move(p) /\ UNCHANGED local
     \/ EndPops(p) \/ Pop(p) \/ Skip(p)
     \/ \E t \in TasksOf(p) : Spawn(p, t)
     \/ RequeuePush(p) \/ RequeueRemove(p) \/ RequeueEnd(p)
  /\ UNCHANGED <<order, subs>>

TaskStep(t) == Process(t) /\ UNCHANGED <<order, subs, local>>

\* The last step of a task, after process_job_with_inline_retry returned.
NoRelease(p, g) == FALSE

Release(p, g) ==
  /\ g \in groups[p]
  /\ ~ Busy(p, g)
  /\ groups' = [groups EXCEPT ![p] = @ \ {g}]
  /\ UNCHANGED <<queueVars, order, subs, skipped>>

\* Only push_fifo and push_job take a group; push_delayed has none.
GroupClient(c) ==
  /\ Client(c)
  /\ call'[c].pc = "push.delay" => Group[call'[c].job] = DefaultGroup
  /\ UNCHANGED <<subs, local>>

Next ==
  \/ \E c \in Clients : GroupClient(c)
  \/ \E j \in Jobs : BecomeDue(j) /\ UNCHANGED <<order, subs, local>>
  \/ \E p \in Pollers : Subscribe(p) \/ Unsubscribe(p) \/ LoopStep(p)
  \/ \E t \in Tasks : TaskStep(t)
  \/ \E p \in Pollers : \E g \in groups[p] : Release(p, g)

Spec == Init /\ [][Next]_vars

-----------------------------------------------------------------------------
\* Every variable stays in its range.
TypeOK ==
  /\ QueueTypeOK
  /\ OrderTypeOK
  /\ subs \in [Pollers -> {"new", "on", "off"}]
  /\ groups \in [Pollers -> SUBSET {Group[j] : j \in Jobs}]
  /\ skipped \in [Pollers -> Seq(Jobs)]

\* The tasks of one loop run jobs of different groups, each group marked
\* active: active_groups, which the loop reads and the tasks shrink, never
\* lets a second job of a group through nor more than MaxGroups tasks.
OneTaskPerGroup ==
  \A p \in Pollers :
    /\ \A t \in TasksOf(p) : ~ At(t, "idle") => Group[call[t].job] \in groups[p]
    /\ \A s, t \in TasksOf(p) :
         ~ At(s, "idle") /\ ~ At(t, "idle") /\ Group[call[s].job] = Group[call[t].job]
           => s = t
    /\ Cardinality(groups[p]) <= MaxGroups

\* Skipping loses and doubles no job: a live job is in one list, held by one
\* caller, or skipped by one loop, and a settled job is nowhere.
OnePlace ==
  \A j \in Jobs :
    Cardinality(Places(j)) + Cardinality(UNION {SkipsOf(p, j) : p \in Pollers})
      = IF fate[j] = "live" THEN 1 ELSE 0

\* The task's own attempt count and the stored one agree, so a job is given up
\* after MaxAttempts failures, no fewer, and never run after it.
AttemptsExact ==
  /\ \A t \in Tasks : At(t, "handling") =>
       call[t].tries = failures[call[t].job] /\ call[t].tries < MaxAttempts
  /\ \A j \in Jobs : dlq[j] > 0 => failures[j] = MaxAttempts

\* Once redrives stop, every job in the queue is settled while the loop runs,
\* however often it is skipped behind its group.
JobsSettle ==
  <>[](\A c \in Clients : ~ At(c, "redrive.set")) =>
    \A j \in Jobs :
      fate[j] = "live" ~> Settled(j) \/ \A p \in Pollers : subs[p] = "off"

\* "Requeue skipped jobs in FIFO order" (process_available_groups), "Strictly ordered
\* within a message group" (workers/queue/README.md): a job runs only when the jobs
\* of its group pushed before it are settled.
GroupOrder ==
  \A t \in Tasks : At(t, "handling") =>
    \A i \in Jobs :
      Precedes(i, call[t].job) /\ Group[i] = Group[call[t].job] => Settled(i)
=============================================================================
