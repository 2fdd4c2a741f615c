----------------------------- MODULE FifoModes -----------------------------
(***************************************************************************)
(* Queues in FIFO mode, as subscribe sets them up: with concurrency 1 each *)
(* subscription runs a FifoWorker, with a higher one a GroupedFifoWorker.  *)
(* Both work on one kind of queue and share its methods and its history.   *)
(***************************************************************************)
EXTENDS GroupedFifoWorker

VARIABLE concurrency   \* of the queue's configuration: 1, or more

modeVars == <<vars, concurrency>>

Plain == INSTANCE FifoWorker

ModesInit == Init /\ concurrency \in {1, 2}

\* subscribe starts a loop of the one or the other kind.
Grouped == concurrency > 1

SubscribeMode(p) ==
  IF Grouped THEN Subscribe(p) ELSE Plain!Subscribe(p) /\ UNCHANGED local
UnsubscribeMode(p) ==
  IF Grouped THEN Unsubscribe(p) ELSE Plain!Unsubscribe(p) /\ UNCHANGED local
Loop(p) == IF Grouped THEN LoopStep(p) ELSE Plain!LoopStep(p) /\ UNCHANGED local

ModesNext ==
  /\ \/ \E c \in Clients : GroupClient(c)
     \/ \E j \in Jobs : BecomeDue(j) /\ UNCHANGED <<order, subs, local>>
     \/ \E p \in Pollers : SubscribeMode(p) \/ UnsubscribeMode(p) \/ Loop(p)
     \/ \E t \in Tasks : TaskStep(t)
     \/ \E p \in Pollers : \E g \in groups[p] : Release(p, g)
  /\ UNCHANGED concurrency

ModesSpec == ModesInit /\ [][ModesNext]_modeVars

\* The loop and the tasks keep running, handlers return, time passes, and a
\* client finishes the call it began.
ModesFairness ==
  /\ \A p \in Pollers : WF_modeVars(SubscribeMode(p) /\ UNCHANGED concurrency)
  /\ \A p \in Pollers : WF_modeVars(Loop(p) /\ UNCHANGED concurrency)
  /\ \A t \in Tasks : WF_modeVars(TaskStep(t) /\ UNCHANGED concurrency)
  /\ \A p \in Pollers, j \in Jobs : WF_modeVars(Release(p, Group[j]) /\ UNCHANGED concurrency)
  /\ \A j \in Jobs : WF_modeVars(BecomeDue(j) /\ UNCHANGED <<order, subs, local, concurrency>>)
  /\ \A c \in Clients : WF_modeVars(GroupClient(c) /\ ~ At(c, "idle") /\ UNCHANGED concurrency)

-----------------------------------------------------------------------------
\* With concurrency 1 and one subscription a job runs only when every job pushed
\* before it is settled: retries are inline, so no later job overtakes a
\* failing one.  (TypeOK, OnePlace, OneTaskPerGroup and JobsSettle of
\* GroupedFifoWorker hold of both kinds of loop.)
FifoOrder == ~ Grouped => Plain!FifoOrder

\* Whoever runs it, loop or task, a handler is called with the attempts left
\* that the failures of its job leave, so that a job is given up after
\* MaxAttempts failures and not run again.
AttemptsAgree == AttemptsExact /\ Plain!AttemptsExact

-----------------------------------------------------------------------------
(***************************************************************************)
(* A queue with one subscription implements FifoLifecycle: a live job is   *)
(* running from its first attempt to its last one, the backoffs included,  *)
(* dead once that one failed, queued otherwise.                            *)
(***************************************************************************)
Running(j) ==
  \E c \in Pollers \cup Tasks : call[c].job = j /\ call[c].pc \in {"handling", "backoff"}

StageOf(j) ==
  IF fate[j] # "live" THEN fate[j]
  ELSE IF Running(j) THEN "running"
  ELSE IF failures[j] = MaxAttempts THEN "dead" ELSE "queued"

Lifecycle == INSTANCE FifoLifecycle WITH
  stage <- [j \in Jobs |-> StageOf(j)],
  attempts <- failures,
  exposed <- raced,
  strict <- ~ Grouped,
  MaxRunning <- MaxGroups

\* Whatever the interleaving of pops, skips, inline retries, redrives and
\* aborts, the queue's behaviour is one FifoLifecycle allows.
ImplementsFifo == Lifecycle!FifoSpec
=============================================================================
