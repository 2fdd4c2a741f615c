--------------------------- MODULE CronScheduler ----------------------------
(***************************************************************************)
(* The cron workers of a fleet of engines: CronAdapter (cron/structs.rs)   *)
(* with its job loops and lock, and CronWorker (cron/cron.rs), which       *)
(* registers jobs, replaces its scheduler when the lock backend of the     *)
(* configuration changes, and shuts it down.  A scheduler is one           *)
(* CronAdapter, with the instance id its locks are taken under; a backend  *)
(* is where locks are kept (a redis, or an index of the kv store).         *)
(***************************************************************************)
EXTENDS Naturals

CONSTANTS Engines, Schedulers, Backends, Jobs,
          First,        \* First[e]: the scheduler engine e starts with
          MaxTick,      \* bound: fire times of a job
          NoEngine, NoScheduler, NoJob

ASSUME FirstAssumption ==
  /\ First \in [Engines -> Schedulers]
  /\ \A d, e \in Engines : First[d] = First[e] => d = e
  /\ NoEngine \notin Engines /\ NoScheduler \notin Schedulers /\ NoJob \notin Jobs
  /\ MaxTick \in Nat

VARIABLES
  now,          \* the fire times that have passed
  lock,         \* lock[b][j]: the scheduler whose entry the backend has
  backend,      \* backend[s]: the backend of scheduler s
  owner,        \* owner[s]: the engine that made it
  jobs,         \* jobs[s]: the job map of scheduler s
  loop,         \* loop[s][j]: the job loop
  shut,         \* shut[s]: how far shutdown of the scheduler is
  live,         \* live[e]: the scheduler the engine's cron worker publishes
  op,           \* op[e]: what is done under the worker's apply_lock
  told,         \* engines whose worker was sent the shutdown signal
  heard,        \* engines whose background task has acted on it
  destroyed,    \* engines whose worker's destroyed flag is set
  \* history, read only by properties
  wanted,       \* wanted[e]: jobs registered and not unregistered since
  late,         \* locks that ran into their time to live
  fired,        \* fire times of jobs whose function was called
  twice         \* fire times of jobs whose function was called twice

scheduler == <<backend, owner, jobs, shut>>
worker == <<live, op, told, heard, destroyed, wanted>>
history == <<late, fired, twice>>
vars == <<now, lock, scheduler, loop, worker, history>>

\* The loop sleeps until the next fire time, tries the lock, calls the
\* function (after the condition, if any), and releases.
Loop(pc, tick) == [pc |-> pc, tick |-> tick]
NoLoop == Loop("none", 0)
Holding == {"held", "calling", "release"}
LoopPCs == {"none", "sleep", "try"} \cup Holding

Op(pc, job, new, specs, first) ==
  [pc |-> pc, job |-> job, new |-> new, specs |-> specs, first |-> first]
Free == Op("free", NoJob, NoScheduler, {}, FALSE)
OpPCs == {"free", "insert", "specs", "stop", "stopping", "rebuild", "destroying"}

In(s, j, pc) == loop[s][j].pc = pc
Doing(e, pc) == op[e].pc = pc
Release(s, j) == IF lock[backend[s]][j] = s THEN [lock EXCEPT ![backend[s]][j] = NoScheduler]
                                            ELSE lock
\* upcoming().next(): the next fire time from now on.
Sleep(s, j) == loop' = [loop EXCEPT ![s][j] = Loop("sleep", now + 1)]
End(s, j) == loop' = [loop EXCEPT ![s][j] = NoLoop]

Init ==
  /\ now = 0
  /\ lock = [b \in Backends |-> [j \in Jobs |-> NoScheduler]]
  /\ backend \in [Schedulers -> Backends]
  /\ \E e \in [Schedulers -> Engines \cup {NoEngine}] :
       /\ owner = e
       /\ \A s \in Schedulers, d \in Engines : e[s] = d <=> First[d] = s
  /\ jobs = [s \in Schedulers |-> {}]
  /\ loop = [s \in Schedulers |-> [j \in Jobs |-> NoLoop]]
  /\ shut = [s \in Schedulers |-> "no"]
  /\ live = First
  /\ op = [e \in Engines |-> Free]
  /\ told = {} /\ heard = {} /\ destroyed = {}
  /\ wanted = [e \in Engines |-> {}]
  /\ late = {} /\ fired = {} /\ twice = {}

-----------------------------------------------------------------------------
(* The job loop.                                                           *)

\* The sleep is over, then the shutdown flag is looked at.
Wake(s, j) ==
  /\ In(s, j, "sleep") /\ now >= loop[s][j].tick
  /\ IF shut[s] = "no" THEN loop' = [loop EXCEPT ![s][j].pc = "try"] ELSE End(s, j)
  /\ UNCHANGED <<lock, fired, twice>>

HearShutdown(s, j) ==
  /\ In(s, j, "sleep") /\ shut[s] # "no"
  /\ End(s, j)
  /\ UNCHANGED <<lock, fired, twice>>

\* A bug: an entry of another scheduler counts as expired.
AnyLock(s, j) == TRUE
FreeLock(s, j) == lock[backend[s]][j] = NoScheduler

Try(s, j) ==
  /\ In(s, j, "try")
  /\ IF FreeLock(s, j)
       THEN /\ lock' = [lock EXCEPT ![backend[s]][j] = s]
            /\ loop' = [loop EXCEPT ![s][j].pc = "held"]
       ELSE lock' = lock /\ Sleep(s, j)
  /\ UNCHANGED <<fired, twice>>

CallFunction(s, j) ==
  LET fire == <<j, loop[s][j].tick>>
  IN /\ In(s, j, "held")
     /\ loop' = [loop EXCEPT ![s][j].pc = "calling"]
     /\ fired' = fired \cup {fire}
     /\ twice' = twice \cup (fired \cap {fire})
     /\ UNCHANGED lock

\* The condition is false or fails; or the call returned, whatever the result.
Return(s, j) ==
  /\ In(s, j, "held") \/ In(s, j, "calling")
  /\ loop' = [loop EXCEPT ![s][j].pc = "release"]
  /\ UNCHANGED <<lock, fired, twice>>

ReleaseLock(s, j) ==
  /\ In(s, j, "release")
  /\ lock' = Release(s, j)
  /\ Sleep(s, j)
  /\ UNCHANGED <<fired, twice>>

LoopStep(s, j) ==
  /\ \/ Wake(s, j) \/ HearShutdown(s, j) \/ Try(s, j)
     \/ CallFunction(s, j) \/ Return(s, j) \/ ReleaseLock(s, j)
  /\ UNCHANGED <<now, scheduler, worker, late>>

-----------------------------------------------------------------------------
(* shutdown of a scheduler: the first caller sets the flag, signals the    *)
(* loops, gives them 50 ms, and drains the job map under its write lock;   *)
(* another caller returns at once.                                         *)
NotFirst(s) == shut[s] # "no"
Signal(s) == shut' = [shut EXCEPT ![s] = IF @ = "no" THEN "waiting" ELSE @]

StartDrain(s) ==
  /\ shut[s] = "waiting"
  /\ shut' = [shut EXCEPT ![s] = "draining"]
  /\ UNCHANGED <<now, lock, backend, owner, jobs, loop, worker, history>>

DrainJob(s, j) ==
  /\ shut[s] = "draining" /\ j \in jobs[s]
  /\ jobs' = [jobs EXCEPT ![s] = @ \ {j}]
  /\ End(s, j)
  /\ lock' = Release(s, j)
  /\ UNCHANGED <<now, backend, owner, shut, worker, history>>

EndDrain(s) ==
  /\ shut[s] = "draining" /\ jobs[s] = {}
  /\ shut' = [shut EXCEPT ![s] = "done"]
  /\ UNCHANGED <<now, lock, backend, owner, jobs, loop, worker, history>>

-----------------------------------------------------------------------------
(* register_trigger and unregister_trigger of the worker, under apply_lock *)
(* on the live scheduler.                                                  *)

Register(e, j) ==
  LET s == live[e]
  IN /\ Doing(e, "free")
     /\ shut[s] = "no" /\ j \notin jobs[s]
     /\ Sleep(s, j)
     /\ op' = [op EXCEPT ![e] = Op("insert", j, NoScheduler, {}, FALSE)]
     /\ UNCHANGED <<now, lock, scheduler, live, told, heard, destroyed, wanted, history>>

Insert(e) ==
  LET s == live[e]
  IN /\ Doing(e, "insert") /\ shut[s] # "draining"
     /\ jobs' = [jobs EXCEPT ![s] = @ \cup {op[e].job}]
     /\ wanted' = [wanted EXCEPT ![e] = @ \cup {op[e].job}]
     /\ op' = [op EXCEPT ![e] = Free]
     /\ UNCHANGED <<now, lock, backend, owner, shut, loop, live, told, heard, destroyed, history>>

Unregister(e, j) ==
  LET s == live[e]
  IN /\ Doing(e, "free") /\ shut[s] # "draining"
     /\ j \in jobs[s]
     /\ jobs' = [jobs EXCEPT ![s] = @ \ {j}]
     /\ End(s, j)
     /\ lock' = Release(s, j)
     /\ wanted' = [wanted EXCEPT ![e] = @ \ {j}]
     /\ UNCHANGED <<now, backend, owner, shut, live, op, told, heard, destroyed, history>>

-----------------------------------------------------------------------------
(* apply_config: a new scheduler on the configured backend, the job specs  *)
(* of the old, its shutdown, the jobs on the new, and the swap.  An apply  *)
(* that finds the worker destroyed, the fetch failing, the adapter         *)
(* unchanged or the backend out of reach changes nothing.                  *)

BuildScheduler(e, s, b) ==
  /\ Doing(e, "free") /\ e \notin destroyed
  /\ owner[s] = NoEngine
  /\ owner' = [owner EXCEPT ![s] = e]
  /\ backend' = [backend EXCEPT ![s] = b]
  /\ op' = [op EXCEPT ![e] = Op("specs", NoJob, s, {}, FALSE)]
  /\ UNCHANGED <<now, lock, jobs, shut, loop, live, told, heard, destroyed, wanted, history>>

\* A bug: the specs are taken after the shutdown.
NoSpecs(e) == {}
JobSpecs(e) == jobs[live[e]]

TakeSpecs(e) ==
  /\ Doing(e, "specs") /\ shut[live[e]] # "draining"
  /\ op' = [op EXCEPT ![e] = Op("stop", NoJob, @.new, JobSpecs(e), FALSE)]
  /\ UNCHANGED <<now, lock, scheduler, loop, live, told, heard, destroyed, wanted, history>>

StopOld(e) ==
  /\ Doing(e, "stop")
  /\ Signal(live[e])
  /\ op' = [op EXCEPT ![e] = Op("stopping", NoJob, @.new, @.specs, ~ NotFirst(live[e]))]
  /\ UNCHANGED <<now, lock, backend, owner, jobs, loop, live, told, heard, destroyed, wanted, history>>

\* shutdown has returned to its caller.
Returned(e) == op[e].first => shut[live[e]] = "done"

OldStopped(e) ==
  /\ Doing(e, "stopping") /\ Returned(e)
  /\ op' = [op EXCEPT ![e] = Op("rebuild", NoJob, @.new, @.specs, FALSE)]
  /\ UNCHANGED <<now, lock, scheduler, loop, live, told, heard, destroyed, wanted, history>>

Reregister(e, j) ==
  LET s == op[e].new
  IN /\ Doing(e, "rebuild") /\ j \in op[e].specs
     /\ Sleep(s, j)
     /\ jobs' = [jobs EXCEPT ![s] = @ \cup {j}]
     /\ op' = [op EXCEPT ![e].specs = @ \ {j}]
     /\ UNCHANGED <<now, lock, backend, owner, shut, live, told, heard, destroyed, wanted, history>>

SetLive(e) ==
  /\ Doing(e, "rebuild") /\ op[e].specs = {}
  /\ live' = [live EXCEPT ![e] = op[e].new]
  /\ op' = [op EXCEPT ![e] = Free]
  /\ UNCHANGED <<now, lock, scheduler, loop, told, heard, destroyed, wanted, history>>

-----------------------------------------------------------------------------
(* The end of a worker: the signal, on which a background task shuts the   *)
(* scheduler it then sees down, without apply_lock; and destroy, with it.  *)

SendSignal(e) ==
  /\ e \notin told
  /\ told' = told \cup {e}
  /\ UNCHANGED <<now, lock, scheduler, loop, live, op, heard, destroyed, wanted, history>>

BackgroundShutdown(e) ==
  /\ e \in told /\ e \notin heard
  /\ heard' = heard \cup {e}
  /\ Signal(live[e])
  /\ UNCHANGED <<now, lock, backend, owner, jobs, loop, live, op, told, destroyed, wanted, history>>

\* A bug: destroy leaves the scheduler to the background task.
LeaveToBackground(e) == shut' = shut
ShutdownLive(e) == Signal(live[e])

Destroy(e) ==
  /\ e \in told /\ e \notin destroyed
  /\ Doing(e, "free")
  /\ destroyed' = destroyed \cup {e}
  /\ ShutdownLive(e)
  /\ op' = [op EXCEPT ![e] = Op("destroying", NoJob, NoScheduler, {}, ~ NotFirst(live[e]))]
  /\ UNCHANGED <<now, lock, backend, owner, jobs, loop, live, told, heard, wanted, history>>

EndDestroy(e) ==
  /\ Doing(e, "destroying") /\ Returned(e)
  /\ op' = [op EXCEPT ![e] = Free]
  /\ UNCHANGED <<now, lock, scheduler, loop, live, told, heard, destroyed, wanted, history>>

-----------------------------------------------------------------------------
Tick ==
  /\ now < MaxTick
  /\ now' = now + 1
  /\ UNCHANGED <<lock, scheduler, loop, worker, history>>

\* The time to live of a lock runs out while its function is still running.
Expire(b, j) ==
  /\ lock[b][j] # NoScheduler
  /\ lock' = [lock EXCEPT ![b][j] = NoScheduler]
  /\ late' = late \cup {<<b, j>>}
  /\ UNCHANGED <<now, scheduler, loop, worker, fired, twice>>

SchedulerStep(s) ==
  \/ \E j \in Jobs : DrainJob(s, j)
  \/ StartDrain(s) \/ EndDrain(s)

ApplyStep(e) ==
  \/ Insert(e)
  \/ TakeSpecs(e) \/ StopOld(e) \/ OldStopped(e) \/ SetLive(e)
  \/ \E j \in Jobs : Reregister(e, j)
  \/ EndDestroy(e)

Next ==
  \/ \E s \in Schedulers, j \in Jobs : LoopStep(s, j)
  \/ \E s \in Schedulers : SchedulerStep(s)
  \/ \E e \in Engines, j \in Jobs : Register(e, j) \/ Unregister(e, j)
  \/ \E e \in Engines, s \in Schedulers, b \in Backends : BuildScheduler(e, s, b)
  \/ \E e \in Engines :
       ApplyStep(e) \/ SendSignal(e) \/ BackgroundShutdown(e) \/ Destroy(e)
  \/ Tick
  \/ \E b \in Backends, j \in Jobs : Expire(b, j)

Spec == Init /\ [][Next]_vars

\* Tasks are polled, functions return, and what began under apply_lock goes on;
\* a worker that was signalled has its background task run and is destroyed.
Fairness ==
  /\ \A s \in Schedulers : WF_vars(SchedulerStep(s))
  /\ \A s \in Schedulers, j \in Jobs : WF_vars(LoopStep(s, j))
  /\ \A e \in Engines : WF_vars(ApplyStep(e)) /\ SF_vars(Destroy(e)) /\ WF_vars(BackgroundShutdown(e))

FairSpec == Spec /\ Fairness

-----------------------------------------------------------------------------
\* Every variable stays in its range, and what is done under apply_lock knows
\* its job or its new scheduler.
TypeOK ==
  /\ now \in 0..MaxTick
  /\ lock \in [Backends -> [Jobs -> Schedulers \cup {NoScheduler}]]
  /\ backend \in [Schedulers -> Backends]
  /\ owner \in [Schedulers -> Engines \cup {NoEngine}]
  /\ jobs \in [Schedulers -> SUBSET Jobs]
  /\ loop \in [Schedulers -> [Jobs -> [pc : LoopPCs, tick : 0..(MaxTick + 1)]]]
  /\ shut \in [Schedulers -> {"no", "waiting", "draining", "done"}]
  /\ live \in [Engines -> Schedulers]
  /\ op \in [Engines -> [pc : OpPCs, job : Jobs \cup {NoJob}, new : Schedulers \cup {NoScheduler},
                         specs : SUBSET Jobs, first : BOOLEAN]]
  /\ \A e \in Engines :
       /\ Doing(e, "insert") => op[e].job \in Jobs
       /\ op[e].pc \in {"specs", "stop", "stopping", "rebuild"} => op[e].new \in Schedulers
  /\ told \subseteq Engines /\ heard \subseteq Engines /\ destroyed \subseteq Engines
  /\ wanted \in [Engines -> SUBSET Jobs]
  /\ late \subseteq Backends \X Jobs
  /\ fired \subseteq Jobs \X (0..(MaxTick + 1)) /\ twice \subseteq fired

\* Two schedulers of one backend, of two engines or the old and the new of one,
\* are never at work on the same job at once, unless the job's lock ran into its
\* time to live: no release, drain or unregistration gives away a lock that
\* another scheduler took meanwhile.
OneAtWork ==
  \A r, s \in Schedulers, j \in Jobs :
    /\ backend[r] = backend[s]
    /\ loop[r][j].pc \in Holding /\ loop[s][j].pc \in Holding
    => r = s \/ <<backend[s], j>> \in late

\* Between operations, the live scheduler of a worker that was not told to stop
\* runs exactly the jobs registered with it, each in a loop: a change of the
\* lock backend loses no job and revives none.
JobsScheduled ==
  \A e \in Engines :
    Doing(e, "free") /\ e \notin told =>
      /\ jobs[live[e]] = wanted[e]
      /\ \A j \in Jobs : j \in wanted[e] <=> loop[live[e]][j] # NoLoop

\* A worker told to stop stops: no loop of any scheduler it made goes on, even
\* if the signal came in the middle of a change of its lock backend.
ToldStops ==
  \A e \in Engines :
    e \in told ~> [] (\A s \in Schedulers, j \in Jobs : owner[s] = e => loop[s][j] = NoLoop)

\* The iii-cron skill: with a lock shared by the engines a job "fires once
\* across the fleet per scheduled run", at least while no function runs longer
\* than the time to live of a lock.
OncePerRun == twice # {} => late # {}
=============================================================================
