------------------------ MODULE CronScheduler_proofs ------------------------
(***************************************************************************)
(* Proofs about CronScheduler for every fleet of engines: two schedulers   *)
(* of one backend never work on a job at once unless its lock expired, and *)
(* a change of the lock backend neither loses a job nor revives one.       *)
(***************************************************************************)
EXTENDS CronScheduler, TLAPS

\* A loop between its lock and the release has the lock, if it did not expire.
LockHeld ==
  \A s \in Schedulers, j \in Jobs :
    loop[s][j].pc \in Holding => lock[backend[s]][j] = s \/ <<backend[s], j>> \in late

\* Scheduler s runs exactly the jobs of set J.
Runs(s, J) ==
  /\ shut[s] = "no"
  /\ jobs[s] = J
  /\ \A j \in Jobs : j \in J <=> loop[s][j] # NoLoop

\* A scheduler is of one engine: the engine's live one, or the one it changes to.
Owned ==
  /\ \A s \in Schedulers : owner[s] = NoEngine => Runs(s, {})
  /\ \A e \in Engines :
       /\ owner[live[e]] = e
       /\ op[e].new \in Schedulers => owner[op[e].new] = e /\ op[e].new # live[e]
       /\ Doing(e, "destroying") => e \in told
  /\ heard \subseteq told /\ destroyed \subseteq told

\* How far the worker's schedulers are, operation by operation.
Scheduled(e) ==
  LET old == live[e]
      new == op[e].new
      specs == op[e].specs
  IN /\ Doing(e, "free") => Runs(old, wanted[e])
     /\ Doing(e, "insert") =>
          /\ shut[old] = "no" /\ jobs[old] = wanted[e]
          /\ \A j \in Jobs : j \in wanted[e] \cup {op[e].job} <=> loop[old][j] # NoLoop
     /\ Doing(e, "specs") => Runs(old, wanted[e]) /\ Runs(new, {})
     /\ Doing(e, "stop") => Runs(old, wanted[e]) /\ Runs(new, {}) /\ specs = wanted[e]
     /\ Doing(e, "stopping") => Runs(new, {}) /\ specs = wanted[e]
     /\ Doing(e, "rebuild") => Runs(new, wanted[e] \ specs) /\ specs \subseteq wanted[e]
AllScheduled == \A e \in Engines \ told : Scheduled(e)

IInv == TypeOK /\ LockHeld /\ Owned /\ AllScheduled

-----------------------------------------------------------------------------
(***************************************************************************)
(* Type correctness.                                                       *)
(***************************************************************************)
LEMMA InitInv == Init => IInv
<1> SUFFICES ASSUME Init PROVE IInv
  OBVIOUS
<1> USE FirstAssumption DEF Init
<1>1. TypeOK
  BY DEF TypeOK, NoLoop, Loop, LoopPCs, Free, Op, OpPCs, Doing
<1>2. LockHeld
  BY DEF LockHeld, NoLoop, Loop, Holding
<1>3. \A s \in Schedulers : Runs(s, {})
  BY DEF Runs, NoLoop
<1>4. \A e \in Engines : owner[live[e]] = e
  BY DEF NoLoop
<1>5. Owned
  BY <1>3, <1>4 DEF Owned, Free, Op, Doing
<1>6. AllScheduled
  BY <1>3 DEF AllScheduled, Scheduled, Free, Op, Doing
<1>7. QED
  BY <1>1, <1>2, <1>5, <1>6 DEF IInv

Loops == [Schedulers -> [Jobs -> [pc : LoopPCs, tick : 0..(MaxTick + 1)]]]

\* What is at a loop, whatever one step does to another.
LEMMA SetLoop ==
  ASSUME loop \in Loops, NEW s \in Schedulers, NEW j \in Jobs,
         NEW l \in [pc : LoopPCs, tick : 0..(MaxTick + 1)],
         loop' = [loop EXCEPT ![s][j] = l]
  PROVE  /\ loop' \in Loops
         /\ loop'[s][j] = l
         /\ \A r \in Schedulers, i \in Jobs : <<r, i>> # <<s, j>> => loop'[r][i] = loop[r][i]
  BY DEF Loops

LEMMA SleepType ==
  ASSUME TypeOK, NEW s \in Schedulers, NEW j \in Jobs, Sleep(s, j) \/ End(s, j)
  PROVE  /\ loop' \in Loops
         /\ Sleep(s, j) => loop'[s][j] = Loop("sleep", now + 1)
         /\ End(s, j) => loop'[s][j] = NoLoop
         /\ \A r \in Schedulers, i \in Jobs : <<r, i>> # <<s, j>> => loop'[r][i] = loop[r][i]
<1>1. now + 1 \in 0..(MaxTick + 1) /\ 0 \in 0..(MaxTick + 1)
  BY FirstAssumption DEF TypeOK
<1>2. /\ Loop("sleep", now + 1) \in [pc : LoopPCs, tick : 0..(MaxTick + 1)]
      /\ NoLoop \in [pc : LoopPCs, tick : 0..(MaxTick + 1)]
  BY <1>1 DEF Loop, NoLoop, LoopPCs
<1>3. loop \in Loops
  BY DEF TypeOK, Loops
<1>4. QED
  BY <1>2, <1>3, SetLoop DEF Sleep, End

LEMMA GotoType ==
  ASSUME TypeOK, NEW s \in Schedulers, NEW j \in Jobs, NEW pc \in LoopPCs,
         loop' = [loop EXCEPT ![s][j].pc = pc]
  PROVE  /\ loop' \in Loops
         /\ loop'[s][j] = Loop(pc, loop[s][j].tick)
         /\ \A r \in Schedulers, i \in Jobs : <<r, i>> # <<s, j>> => loop'[r][i] = loop[r][i]
<1>1. loop \in Loops /\ loop[s][j] \in [pc : LoopPCs, tick : 0..(MaxTick + 1)]
  BY DEF TypeOK, Loops
<1>2. PICK l : l = Loop(pc, loop[s][j].tick)
  OBVIOUS
<1>3. l \in [pc : LoopPCs, tick : 0..(MaxTick + 1)]
  BY <1>1, <1>2 DEF Loop
<1>4. [loop[s][j] EXCEPT !.pc = pc] = l
  BY <1>1, <1>2 DEF Loop
<1>5. loop' = [loop EXCEPT ![s][j] = l]
  BY <1>1, <1>4 DEF Loops
<1>6. loop' \in Loops
  BY <1>1, <1>3, <1>5 DEF Loops
<1>7. loop'[s][j] = l
  BY <1>1, <1>5 DEF Loops
<1>8. \A r \in Schedulers, i \in Jobs : <<r, i>> # <<s, j>> => loop'[r][i] = loop[r][i]
  BY <1>1, <1>5 DEF Loops
<1>9. QED
  BY <1>2, <1>6, <1>7, <1>8

Locks == [Backends -> [Jobs -> Schedulers \cup {NoScheduler}]]

\* A scheduler releases its own lock only.
LEMMA ReleaseType ==
  ASSUME TypeOK, NEW s \in Schedulers, NEW j \in Jobs
  PROVE  /\ Release(s, j) \in Locks
         /\ \A b \in Backends, i \in Jobs :
              Release(s, j)[b][i] = lock[b][i] \/ (i = j /\ lock[b][i] = s)
<1>1. backend[s] \in Backends /\ lock \in Locks
  BY DEF TypeOK, Locks
<1>2. CASE lock[backend[s]][j] = s
  BY <1>1, <1>2 DEF Release, Locks
<1>3. CASE lock[backend[s]][j] # s
  BY <1>1, <1>3 DEF Release
<1>4. QED
  BY <1>2, <1>3

\* Try takes a free lock only.
LEMMA TryLock ==
  ASSUME TypeOK, NEW s \in Schedulers, NEW j \in Jobs, Try(s, j)
  PROVE  /\ lock' \in Locks
         /\ loop'[s][j].pc \in Holding => lock'[backend[s]][j] = s
         /\ \A b \in Backends, i \in Jobs :
              lock'[b][i] = lock[b][i] \/ lock[b][i] = NoScheduler
<1>1. backend[s] \in Backends /\ lock \in Locks
  BY DEF TypeOK, Locks
<1>2. CASE FreeLock(s, j)
  <2>1. lock' = [lock EXCEPT ![backend[s]][j] = s]
    BY <1>2 DEF Try
  <2>2. QED
    BY <1>1, <1>2, <2>1 DEF FreeLock, Locks
<1>3. CASE ~ FreeLock(s, j)
  <2>1. lock' = lock /\ loop'[s][j] = Loop("sleep", now + 1)
    BY <1>3, SleepType DEF Try
  <2>2. QED
    BY <1>1, <2>1 DEF Loop, Holding
<1>4. QED
  BY <1>2, <1>3

LEMMA LoopType ==
  ASSUME TypeOK, NEW s \in Schedulers, NEW j \in Jobs, LoopStep(s, j)
  PROVE  TypeOK'
<1>1. /\ lock' \in Locks
      /\ loop' \in Loops
      /\ fired' \subseteq Jobs \X (0..(MaxTick + 1)) /\ twice' \subseteq fired'
  <2>1. CASE Wake(s, j) \/ HearShutdown(s, j)
    BY <2>1, SleepType, GotoType DEF Wake, HearShutdown, TypeOK, LoopPCs, Holding, Locks
  <2>2. CASE Try(s, j)
    <3>1. loop' \in Loops
      BY <2>2, SleepType, GotoType DEF Try, LoopPCs, Holding
    <3>2. UNCHANGED <<fired, twice>>
      BY <2>2 DEF Try
    <3>3. QED
      BY <2>2, <3>1, <3>2, TryLock DEF TypeOK
  <2>3. CASE CallFunction(s, j)
    <3>1. /\ lock' = lock /\ loop' = [loop EXCEPT ![s][j].pc = "calling"]
          /\ fired' = fired \cup {<<j, loop[s][j].tick>>}
          /\ twice' = twice \cup (fired \cap {<<j, loop[s][j].tick>>})
      BY <2>3 DEF CallFunction
    <3>2. loop[s][j] \in [pc : LoopPCs, tick : 0..(MaxTick + 1)]
      BY DEF TypeOK
    <3>3. <<j, loop[s][j].tick>> \in Jobs \X (0..(MaxTick + 1))
      BY <3>2
    <3>4. loop' \in Loops
      BY <3>1, GotoType DEF LoopPCs, Holding
    <3>5. QED
      BY <3>1, <3>3, <3>4 DEF TypeOK, Locks
  <2>4. CASE Return(s, j)
    BY <2>4, GotoType DEF Return, TypeOK, LoopPCs, Holding, Locks
  <2>5. CASE ReleaseLock(s, j)
    BY <2>5, SleepType, ReleaseType DEF Loops, Locks, ReleaseLock, TypeOK
  <2>6. QED
    BY <2>1, <2>2, <2>3, <2>4, <2>5 DEF LoopStep
<1>2. UNCHANGED <<now, scheduler, worker, late>>
  BY DEF LoopStep
<1>3. QED
  BY <1>1, <1>2 DEF TypeOK, scheduler, worker, Doing, Loops, Locks

LEMMA SchedulerType ==
  ASSUME TypeOK, NEW s \in Schedulers, SchedulerStep(s)
  PROVE  TypeOK'
<1>1. ASSUME NEW j \in Jobs, DrainJob(s, j)
      PROVE  TypeOK'
  BY <1>1, SleepType, ReleaseType DEF Loops, Locks, DrainJob, TypeOK, worker, history, Doing
<1>2. CASE StartDrain(s) \/ EndDrain(s)
  BY <1>2 DEF StartDrain, EndDrain, TypeOK, worker, history, Doing
<1>3. QED
  BY <1>1, <1>2 DEF SchedulerStep

OpRecords == [pc : OpPCs, job : Jobs \cup {NoJob}, new : Schedulers \cup {NoScheduler},
              specs : SUBSET Jobs, first : BOOLEAN]

OpTyped ==
  /\ op \in [Engines -> OpRecords]
  /\ \A e \in Engines :
       /\ op[e].pc = "insert" => op[e].job \in Jobs
       /\ op[e].pc \in {"specs", "stop", "stopping", "rebuild"} => op[e].new \in Schedulers

LEMMA EngineType ==
  ASSUME TypeOK, NEW e \in Engines,
         \/ ApplyStep(e) \/ SendSignal(e) \/ BackgroundShutdown(e) \/ Destroy(e)
         \/ \E j \in Jobs : Register(e, j) \/ Unregister(e, j)
         \/ \E s \in Schedulers, b \in Backends : BuildScheduler(e, s, b)
  PROVE  TypeOK'
<1> USE FirstAssumption DEF Doing, OpPCs, Free, Op
<1>1. live[e] \in Schedulers /\ op[e] \in OpRecords
  BY DEF TypeOK, OpRecords
<1>2. ASSUME NEW j \in Jobs, Register(e, j)
      PROVE  TypeOK'
  BY <1>1, <1>2, SleepType DEF Loops, Locks, Register, TypeOK, scheduler, history
<1>3. ASSUME NEW j \in Jobs, Unregister(e, j)
      PROVE  TypeOK'
  BY <1>1, <1>3, SleepType, ReleaseType DEF Loops, Locks, Unregister, TypeOK, history
<1>4. CASE Insert(e)
  BY <1>1, <1>4 DEF Insert, TypeOK, history
<1>5. ASSUME NEW s \in Schedulers, NEW b \in Backends, BuildScheduler(e, s, b)
      PROVE  TypeOK'
  BY <1>5 DEF BuildScheduler, TypeOK, history
<1>6. CASE TakeSpecs(e)
  <2>1. PICK o : o = Op("stop", NoJob, op[e].new, jobs[live[e]], FALSE)
    OBVIOUS
  <2>2. op' = [op EXCEPT ![e] = o]
    BY <1>1, <1>6, <2>1 DEF TakeSpecs, JobSpecs, TypeOK, OpRecords
  <2>3. o \in OpRecords /\ o.new \in Schedulers /\ o.pc = "stop"
    BY <1>1, <1>6, <2>1 DEF TakeSpecs, NotFirst, TypeOK, OpRecords
  <2>4. OpTyped'
    <3>1. /\ op' \in [Engines -> OpRecords] /\ op'[e] = o
          /\ \A d \in Engines : d # e => op'[d] = op[d]
      BY <2>2, <2>3 DEF TypeOK, OpRecords
    <3>2. QED
      BY <2>3, <3>1 DEF TypeOK, OpTyped
  <2>5. shut' \in [Schedulers -> {"no", "waiting", "draining", "done"}]
    BY <1>1, <1>6 DEF TakeSpecs, Signal, scheduler, TypeOK
  <2>6. UNCHANGED <<now, lock, backend, owner, jobs, loop, live, told, heard, destroyed, wanted, history>>
    BY <1>6 DEF TakeSpecs, scheduler
  <2>7. QED
    BY <2>4, <2>5, <2>6 DEF TypeOK, OpTyped, OpRecords, history
<1>7. CASE StopOld(e)
  <2>1. PICK o : o = Op("stopping", NoJob, op[e].new, op[e].specs, ~ NotFirst(live[e]))
    OBVIOUS
  <2>2. op' = [op EXCEPT ![e] = o]
    BY <1>1, <1>7, <2>1 DEF StopOld, TypeOK, OpRecords
  <2>3. o \in OpRecords /\ o.new \in Schedulers /\ o.pc = "stopping"
    BY <1>1, <1>7, <2>1 DEF StopOld, NotFirst, TypeOK, OpRecords
  <2>4. OpTyped'
    <3>1. /\ op' \in [Engines -> OpRecords] /\ op'[e] = o
          /\ \A d \in Engines : d # e => op'[d] = op[d]
      BY <2>2, <2>3 DEF TypeOK, OpRecords
    <3>2. QED
      BY <2>3, <3>1 DEF TypeOK, OpTyped
  <2>5. shut' \in [Schedulers -> {"no", "waiting", "draining", "done"}]
    BY <1>1, <1>7 DEF StopOld, Signal, scheduler, TypeOK
  <2>6. UNCHANGED <<now, lock, backend, owner, jobs, loop, live, told, heard, destroyed, wanted, history>>
    BY <1>7 DEF StopOld, scheduler
  <2>7. QED
    BY <2>4, <2>5, <2>6 DEF TypeOK, OpTyped, OpRecords, history
<1>8. CASE OldStopped(e)
  <2>1. PICK o : o = Op("rebuild", NoJob, op[e].new, op[e].specs, FALSE)
    OBVIOUS
  <2>2. op' = [op EXCEPT ![e] = o]
    BY <1>1, <1>8, <2>1 DEF OldStopped, TypeOK, OpRecords
  <2>3. o \in OpRecords /\ o.new \in Schedulers /\ o.pc = "rebuild"
    BY <1>1, <1>8, <2>1 DEF OldStopped, NotFirst, TypeOK, OpRecords
  <2>4. OpTyped'
    <3>1. /\ op' \in [Engines -> OpRecords] /\ op'[e] = o
          /\ \A d \in Engines : d # e => op'[d] = op[d]
      BY <2>2, <2>3 DEF TypeOK, OpRecords
    <3>2. QED
      BY <2>3, <3>1 DEF TypeOK, OpTyped
  <2>5. shut' \in [Schedulers -> {"no", "waiting", "draining", "done"}]
    BY <1>1, <1>8 DEF OldStopped, Signal, scheduler, TypeOK
  <2>6. UNCHANGED <<now, lock, backend, owner, jobs, loop, live, told, heard, destroyed, wanted, history>>
    BY <1>8 DEF OldStopped, scheduler
  <2>7. QED
    BY <2>4, <2>5, <2>6 DEF TypeOK, OpTyped, OpRecords, history
<1>9. ASSUME NEW j \in Jobs, Reregister(e, j)
      PROVE  TypeOK'
  <2>1. op[e].new \in Schedulers
    BY <1>9 DEF Reregister, TypeOK
  <2>2. /\ jobs' \in [Schedulers -> SUBSET Jobs]
        /\ loop' \in Loops
    BY <1>9, <2>1, SleepType DEF Reregister, TypeOK
  <2>3. /\ op' \in [Engines -> [pc : OpPCs, job : Jobs \cup {NoJob}, new : Schedulers \cup {NoScheduler},
                               specs : SUBSET Jobs, first : BOOLEAN]]
        /\ \A d \in Engines : op'[d].pc = op[d].pc /\ op'[d].new = op[d].new /\ op'[d].job = op[d].job
    BY <1>9 DEF Reregister, TypeOK
  <2>4. QED
    BY <1>9, <2>1, <2>2, <2>3, SleepType DEF Loops, Reregister, TypeOK, history
<1>10. CASE SetLive(e)
  BY <1>10 DEF SetLive, TypeOK, scheduler, history
<1>11. CASE SendSignal(e) \/ BackgroundShutdown(e)
  BY <1>1, <1>11 DEF SendSignal, BackgroundShutdown, Signal, TypeOK, scheduler, history
<1>12. CASE Destroy(e)
  BY <1>1, <1>12 DEF Destroy, ShutdownLive, Signal, NotFirst, TypeOK, history
<1>13. CASE EndDestroy(e)
  BY <1>13 DEF EndDestroy, TypeOK, scheduler, history
<1>14. QED
  BY <1>2, <1>3, <1>4, <1>5, <1>6, <1>7, <1>8, <1>9, <1>10, <1>11, <1>12, <1>13 DEF ApplyStep

LEMMA TypeInv == TypeOK /\ [Next]_vars => TypeOK'
<1> SUFFICES ASSUME TypeOK, [Next]_vars PROVE TypeOK'
  OBVIOUS
<1>1. CASE Tick
  BY <1>1, FirstAssumption DEF Tick, TypeOK, scheduler, worker, history, Doing
<1>2. ASSUME NEW b \in Backends, NEW j \in Jobs, Expire(b, j)
      PROVE  TypeOK'
  BY <1>2 DEF Expire, TypeOK, scheduler, worker, Doing
<1>3. CASE UNCHANGED vars
  BY <1>3 DEF vars, TypeOK, scheduler, worker, history, Doing
<1>4. QED
  BY <1>1, <1>2, <1>3, LoopType, SchedulerType, EngineType DEF Next

-----------------------------------------------------------------------------
(***************************************************************************)
(* Locks.                                                                  *)
(***************************************************************************)

\* A step of one loop that takes at most a free lock and releases at most its
\* own scheduler's.
LEMMA HeldKept ==
  ASSUME TypeOK, LockHeld, NEW s \in Schedulers, NEW j \in Jobs,
         backend' = backend, late' = late,
         \A r \in Schedulers, i \in Jobs : <<r, i>> # <<s, j>> => loop'[r][i] = loop[r][i],
         loop'[s][j].pc \in Holding => lock'[backend[s]][j] = s \/ <<backend[s], j>> \in late,
         \A b \in Backends, i \in Jobs :
           lock'[b][i] = lock[b][i] \/ lock[b][i] = NoScheduler \/ (i = j /\ lock[b][i] = s)
  PROVE  LockHeld'
<1> SUFFICES ASSUME NEW r \in Schedulers, NEW i \in Jobs, loop'[r][i].pc \in Holding
             PROVE  lock'[backend[r]][i] = r \/ <<backend[r], i>> \in late
  BY DEF LockHeld
<1>1. CASE <<r, i>> = <<s, j>>
  BY <1>1
<1>2. CASE <<r, i>> # <<s, j>>
  <2>1. lock[backend[r]][i] = r \/ <<backend[r], i>> \in late
    BY <1>2 DEF LockHeld
  <2>2. backend[r] \in Backends /\ r # NoScheduler
    BY FirstAssumption DEF TypeOK
  <2>3. QED
    BY <1>2, <2>1, <2>2
<1>3. QED
  BY <1>1, <1>2

LEMMA NotHolding ==
  ASSUME TypeOK, NEW s \in Schedulers, NEW j \in Jobs, Sleep(s, j) \/ End(s, j)
  PROVE  loop'[s][j].pc \notin Holding
<1>1. loop'[s][j] = Loop("sleep", now + 1) \/ loop'[s][j] = Loop("none", 0)
  BY SleepType DEF NoLoop
<1>2. loop'[s][j].pc = "sleep" \/ loop'[s][j].pc = "none"
  BY <1>1 DEF Loop
<1>3. QED
  BY <1>2 DEF Holding

\* A loop that ends, or goes back to sleep, and may release its lock.
LEMMA HeldKeptByEnd ==
  ASSUME TypeOK, LockHeld, NEW s \in Schedulers, NEW j \in Jobs, Sleep(s, j) \/ End(s, j),
         backend' = backend, late' = late, lock' = lock \/ lock' = Release(s, j)
  PROVE  LockHeld'
<1>1. loop'[s][j].pc \notin Holding
  BY NotHolding
<1>2. \A r \in Schedulers, i \in Jobs : <<r, i>> # <<s, j>> => loop'[r][i] = loop[r][i]
  BY SleepType
<1>3. \A b \in Backends, i \in Jobs : lock'[b][i] = lock[b][i] \/ (i = j /\ lock[b][i] = s)
  BY ReleaseType
<1>4. QED
  BY <1>1, <1>2, <1>3, HeldKept

LEMMA LoopLock ==
  ASSUME TypeOK, LockHeld, NEW s \in Schedulers, NEW j \in Jobs, LoopStep(s, j)
  PROVE  LockHeld'
<1>1. backend' = backend /\ late' = late
  BY DEF LoopStep, scheduler
<1>2. \A r \in Schedulers, i \in Jobs : <<r, i>> # <<s, j>> => loop'[r][i] = loop[r][i]
  BY SleepType, GotoType
  DEF LoopStep, Wake, HearShutdown, Try, CallFunction, Return, ReleaseLock, LoopPCs, Holding
<1>3. CASE Wake(s, j) \/ HearShutdown(s, j)
  <2>1. lock' = lock
    BY <1>3 DEF Wake, HearShutdown
  <2>2. CASE End(s, j)
    BY <1>1, <2>1, <2>2, HeldKeptByEnd
  <2>3. ASSUME NEW pc \in LoopPCs, pc \notin Holding, loop' = [loop EXCEPT ![s][j].pc = pc]
        PROVE  LockHeld'
    <3>1. loop'[s][j] = Loop(pc, loop[s][j].tick)
      BY <2>3, GotoType
    <3>2. loop'[s][j].pc \notin Holding
      BY <2>3, <3>1 DEF Loop
    <3>3. QED
      BY <1>1, <1>2, <2>1, <3>2, HeldKept
  <2>4. QED
    BY <1>3, <2>2, <2>3 DEF Wake, HearShutdown, LoopPCs, Holding
<1>4. CASE Try(s, j)
  BY <1>1, <1>2, <1>4, TryLock, HeldKept
<1>5. CASE CallFunction(s, j) \/ Return(s, j)
  <2>1. lock' = lock /\ loop[s][j].pc \in Holding
    BY <1>5 DEF CallFunction, Return, In, Holding
  <2>2. QED
    BY <1>1, <1>2, <2>1, HeldKept DEF LockHeld
<1>6. CASE ReleaseLock(s, j)
  BY <1>1, <1>6, HeldKeptByEnd DEF ReleaseLock
<1>7. QED
  BY <1>3, <1>4, <1>5, <1>6 DEF LoopStep

LEMMA LockInv == TypeOK /\ Owned /\ LockHeld /\ [Next]_vars => LockHeld'
<1> SUFFICES ASSUME TypeOK, Owned, LockHeld, [Next]_vars
             PROVE  LockHeld'
  OBVIOUS
<1>1. CASE UNCHANGED <<lock, backend, loop, late>>
  BY <1>1 DEF LockHeld
<1>2. ASSUME NEW s \in Schedulers, NEW j \in Jobs, DrainJob(s, j)
      PROVE  LockHeld'
  BY <1>2, HeldKeptByEnd DEF DrainJob, history
<1>3. ASSUME NEW e \in Engines, NEW j \in Jobs, Unregister(e, j)
      PROVE  LockHeld'
  <2>1. live[e] \in Schedulers
    BY DEF TypeOK
  <2>2. QED
    BY <1>3, <2>1, HeldKeptByEnd DEF Unregister, history
<1>4. ASSUME NEW s \in Schedulers, NEW j \in Jobs, Sleep(s, j), UNCHANGED <<lock, backend, late>>
      PROVE  LockHeld'
  BY <1>4, HeldKeptByEnd
<1>5. ASSUME NEW e \in Engines, NEW s \in Schedulers, NEW b \in Backends, BuildScheduler(e, s, b)
      PROVE  LockHeld'
  <2>1. \A j \in Jobs : loop[s][j].pc \notin Holding
    BY <1>5 DEF BuildScheduler, Owned, Runs, NoLoop, Loop, Holding
  <2>2. UNCHANGED <<lock, loop, late>> /\ \A r \in Schedulers : r # s => backend'[r] = backend[r]
    BY <1>5 DEF BuildScheduler, history, TypeOK
  <2>3. QED
    BY <2>1, <2>2 DEF LockHeld
<1>6. ASSUME NEW b \in Backends, NEW j \in Jobs, Expire(b, j)
      PROVE  LockHeld'
  <2>1. late' = late \cup {<<b, j>>} /\ UNCHANGED <<backend, loop>>
    BY <1>6 DEF Expire, scheduler
  <2>2. \A c \in Backends, i \in Jobs : <<c, i>> # <<b, j>> => lock'[c][i] = lock[c][i]
    BY <1>6 DEF Expire, TypeOK
  <2>3. \A s \in Schedulers : backend[s] \in Backends
    BY DEF TypeOK
  <2>4. QED
    BY <2>1, <2>2, <2>3 DEF LockHeld
<1>7. ASSUME NEW e \in Engines, NEW j \in Jobs, Register(e, j)
      PROVE  LockHeld'
  <2>1. live[e] \in Schedulers
    BY DEF TypeOK
  <2>2. Sleep(live[e], j) /\ UNCHANGED <<lock, backend, late>>
    BY <1>7 DEF Register, scheduler, history
  <2>3. QED
    BY <1>4, <2>1, <2>2
<1>8. ASSUME NEW e \in Engines, NEW j \in Jobs, Reregister(e, j)
      PROVE  LockHeld'
  <2>1. op[e].new \in Schedulers
    BY <1>8 DEF Reregister, Doing, TypeOK
  <2>2. Sleep(op[e].new, j) /\ UNCHANGED <<lock, backend, late>>
    BY <1>8 DEF Reregister, history
  <2>3. QED
    BY <1>4, <2>1, <2>2
<1>9. CASE \E s \in Schedulers, j \in Jobs : LoopStep(s, j)
  BY <1>9, LoopLock
<1>10. QED
  BY <1>1, <1>2, <1>3, <1>5, <1>6, <1>7, <1>8, <1>9
  DEF Next, SchedulerStep, StartDrain, EndDrain, ApplyStep, Insert, TakeSpecs, StopOld, OldStopped, SetLive,
      EndDestroy, SendSignal, BackgroundShutdown, Destroy, Tick, scheduler, history, vars

-----------------------------------------------------------------------------
(***************************************************************************)
(* Schedulers and their jobs.                                              *)
(***************************************************************************)
EngineStep(e) ==
  \/ ApplyStep(e) \/ SendSignal(e) \/ BackgroundShutdown(e) \/ Destroy(e)
  \/ \E j \in Jobs : Register(e, j) \/ Unregister(e, j)
  \/ \E s \in Schedulers, b \in Backends : BuildScheduler(e, s, b)

\* A loop ends on its own only after the shutdown of its scheduler began.
LEMMA LoopKeeps ==
  ASSUME TypeOK, NEW s \in Schedulers, NEW j \in Jobs, LoopStep(s, j)
  PROVE  \A r \in Schedulers : shut[r] = "no" =>
           \A i \in Jobs : loop'[r][i] # NoLoop <=> loop[r][i] # NoLoop
<1>1. \A r \in Schedulers, i \in Jobs : <<r, i>> # <<s, j>> => loop'[r][i] = loop[r][i]
  BY SleepType, GotoType
  DEF LoopStep, Wake, HearShutdown, Try, CallFunction, Return, ReleaseLock, LoopPCs, Holding
<1>2. loop[s][j].pc # "none"
  BY DEF LoopStep, Wake, HearShutdown, Try, CallFunction, Return, ReleaseLock, In
<1>3. loop[s][j] # NoLoop
  BY <1>2 DEF NoLoop, Loop
<1>4. Sleep(s, j) => loop'[s][j] # NoLoop
  BY SleepType DEF NoLoop, Loop
<1>5. ASSUME NEW pc \in LoopPCs, pc # "none", loop' = [loop EXCEPT ![s][j].pc = pc]
      PROVE  loop'[s][j] # NoLoop
  <2>1. loop'[s][j] = Loop(pc, loop[s][j].tick)
    BY <1>5, GotoType
  <2>2. QED
    BY <1>5, <2>1 DEF NoLoop, Loop
<1>6. shut[s] = "no" => Sleep(s, j) \/ \E pc \in LoopPCs : pc # "none" /\ loop' = [loop EXCEPT ![s][j].pc = pc]
  BY DEF LoopStep, Wake, HearShutdown, Try, CallFunction, Return, ReleaseLock, LoopPCs, Holding
<1>7. shut[s] = "no" => loop'[s][j] # NoLoop
  BY <1>4, <1>5, <1>6
<1>8. QED
  BY <1>1, <1>3, <1>7

\* The step of an engine disturbs no scheduler but its own.
FramedBy(d) ==
  /\ \A r \in Schedulers : owner[r] # d =>
       /\ shut'[r] = shut[r] /\ jobs'[r] = jobs[r]
       /\ \A i \in Jobs : loop'[r][i] = loop[r][i]
  /\ \A e \in Engines : e # d => live'[e] = live[e] /\ op'[e] = op[e] /\ wanted'[e] = wanted[e]
  /\ \A r \in Schedulers : owner'[r] = owner[r] \/ (owner[r] = NoEngine /\ owner'[r] = d)
  /\ told \subseteq told' /\ heard' \subseteq told' /\ destroyed' \subseteq told'

LEMMA EngineFrame ==
  ASSUME TypeOK, Owned, NEW d \in Engines, EngineStep(d)
  PROVE  FramedBy(d)
<1>1. /\ live[d] \in Schedulers /\ owner[live[d]] = d
      /\ op[d].new \in Schedulers => owner[op[d].new] = d
      /\ heard \subseteq told /\ destroyed \subseteq told
  BY DEF TypeOK, Owned
<1> USE DEF FramedBy, scheduler
<1>2. ASSUME NEW j \in Jobs, Register(d, j)
      PROVE  FramedBy(d)
  BY <1>1, <1>2, SleepType DEF Register, TypeOK
<1>3. ASSUME NEW j \in Jobs, Unregister(d, j)
      PROVE  FramedBy(d)
  BY <1>1, <1>3, SleepType DEF Unregister, TypeOK
<1>4. ASSUME NEW j \in Jobs, Reregister(d, j)
      PROVE  FramedBy(d)
  <2>1. op[d].new \in Schedulers
    BY <1>4 DEF Reregister, Doing, TypeOK
  <2>2. QED
    BY <1>1, <1>4, <2>1, SleepType DEF Reregister, TypeOK
<1>5. CASE Insert(d)
  BY <1>1, <1>5 DEF Insert, TypeOK
<1>6. ASSUME NEW s \in Schedulers, NEW b \in Backends, BuildScheduler(d, s, b)
      PROVE  FramedBy(d)
  BY <1>1, <1>6 DEF BuildScheduler, TypeOK
<1>7. CASE TakeSpecs(d) \/ OldStopped(d) \/ SetLive(d) \/ EndDestroy(d) \/ SendSignal(d)
  BY <1>1, <1>7 DEF TakeSpecs, OldStopped, SetLive, EndDestroy, SendSignal, TypeOK
<1>8. CASE StopOld(d) \/ BackgroundShutdown(d)
  BY <1>1, <1>8 DEF StopOld, BackgroundShutdown, Signal, TypeOK
<1>9. CASE Destroy(d)
  BY <1>1, <1>9 DEF Destroy, ShutdownLive, Signal, TypeOK
<1>10. QED
  BY <1>2, <1>3, <1>4, <1>5, <1>6, <1>7, <1>8, <1>9 DEF EngineStep, ApplyStep

\* Runs depends on the scheduler alone.
LEMMA RunsKept ==
  ASSUME NEW r \in Schedulers, NEW J, Runs(r, J),
         shut'[r] = shut[r], jobs'[r] = jobs[r],
         \A i \in Jobs : loop'[r][i] # NoLoop <=> loop[r][i] # NoLoop
  PROVE  /\ shut'[r] = "no"
         /\ jobs'[r] = J
         /\ \A i \in Jobs : i \in J <=> loop'[r][i] # NoLoop
  BY DEF Runs

\* What an engine has of schedulers after its own step.
OwnAfter(d) ==
  /\ owner'[live'[d]] = d
  /\ op'[d].new \in Schedulers => owner'[op'[d].new] = d /\ op'[d].new # live'[d]
  /\ op'[d].pc = "destroying" => d \in told'

LEMMA OwnStep ==
  ASSUME TypeOK, Owned, NEW d \in Engines, EngineStep(d)
  PROVE  OwnAfter(d)
<1>1. /\ live[d] \in Schedulers /\ owner[live[d]] = d
      /\ op[d].new \in Schedulers => owner[op[d].new] = d /\ op[d].new # live[d]
      /\ op[d].pc = "destroying" => d \in told
      /\ d # NoEngine /\ NoScheduler \notin Schedulers
  BY FirstAssumption DEF TypeOK, Owned, Doing
<1> USE DEF OwnAfter, scheduler, Free, Op, Doing
<1>2. ASSUME NEW j \in Jobs, Register(d, j) \/ Unregister(d, j) \/ Reregister(d, j)
      PROVE  OwnAfter(d)
  <2>1. CASE Register(d, j)
    BY <1>1, <2>1 DEF Register, TypeOK
  <2>2. CASE Unregister(d, j)
    BY <1>1, <2>2 DEF Unregister, TypeOK
  <2>3. CASE Reregister(d, j)
    BY <1>1, <2>3 DEF Reregister, TypeOK
  <2>4. QED
    BY <1>2, <2>1, <2>2, <2>3
<1>3. CASE Insert(d) \/ SendSignal(d) \/ BackgroundShutdown(d) \/ Destroy(d) \/ EndDestroy(d)
  BY <1>1, <1>3 DEF Insert, SendSignal, BackgroundShutdown, Destroy, EndDestroy, TypeOK
<1>4. ASSUME NEW s \in Schedulers, NEW b \in Backends, BuildScheduler(d, s, b)
      PROVE  OwnAfter(d)
  BY <1>1, <1>4 DEF BuildScheduler, TypeOK
<1>5. CASE TakeSpecs(d) \/ StopOld(d) \/ OldStopped(d)
  BY <1>1, <1>5 DEF TakeSpecs, StopOld, OldStopped, TypeOK
<1>6. CASE SetLive(d)
  BY <1>1, <1>6 DEF SetLive, TypeOK
<1>7. QED
  BY <1>2, <1>3, <1>4, <1>5, <1>6 DEF EngineStep, ApplyStep

LEMMA OwnedInv == TypeOK /\ Owned /\ [Next]_vars => Owned'
<1> SUFFICES ASSUME TypeOK, Owned, [Next]_vars
             PROVE  Owned'
  OBVIOUS
<1>1. ASSUME NEW s \in Schedulers, NEW j \in Jobs, LoopStep(s, j)
      PROVE  Owned'
  <2>1. UNCHANGED <<backend, owner, jobs, shut, live, op, told, heard, destroyed>>
    BY <1>1 DEF LoopStep, scheduler, worker
  <2>2. \A r \in Schedulers : owner[r] = NoEngine => Runs(r, {})'
    BY <1>1, <2>1, LoopKeeps, RunsKept DEF Owned, Runs
  <2>3. QED
    BY <2>1, <2>2 DEF Owned, Doing
<1>2. ASSUME NEW s \in Schedulers, SchedulerStep(s)
      PROVE  Owned'
  <2>1. shut[s] # "no" /\ UNCHANGED <<owner, live, op, told, heard, destroyed>>
    BY <1>2 DEF SchedulerStep, DrainJob, StartDrain, EndDrain, worker
  <2>2. \A r \in Schedulers : r # s => /\ shut'[r] = shut[r] /\ jobs'[r] = jobs[r]
                                       /\ \A i \in Jobs : loop'[r][i] = loop[r][i]
    BY <1>2, SleepType DEF SchedulerStep, DrainJob, StartDrain, EndDrain, TypeOK
  <2>3. \A r \in Schedulers : owner[r] = NoEngine => Runs(r, {})'
    BY <2>1, <2>2 DEF Owned, Runs
  <2>4. QED
    BY <2>1, <2>3 DEF Owned, Doing
<1>3. ASSUME NEW d \in Engines, EngineStep(d)
      PROVE  Owned'
  <2>1. FramedBy(d) /\ OwnAfter(d)
    BY <1>3, EngineFrame, OwnStep
  <2>2. d # NoEngine /\ \A e \in Engines : live[e] \in Schedulers
    BY FirstAssumption DEF TypeOK
  <2>3. \A r \in Schedulers : owner'[r] = NoEngine => Runs(r, {})'
    BY <2>1, <2>2 DEF FramedBy, Owned, Runs
  <2>4. ASSUME NEW e \in Engines
        PROVE  /\ owner'[live'[e]] = e
               /\ op'[e].new \in Schedulers => owner'[op'[e].new] = e /\ op'[e].new # live'[e]
               /\ op'[e].pc = "destroying" => e \in told'
    <3>1. CASE e = d
      BY <2>1, <3>1 DEF OwnAfter
    <3>2. CASE e # d
      <4>1. live'[e] = live[e] /\ op'[e] = op[e] /\ e # NoEngine
        BY <2>1, <3>2, FirstAssumption DEF FramedBy
      <4>2. owner[live[e]] = e /\ (op[e].new \in Schedulers => owner[op[e].new] = e /\ op[e].new # live[e])
            /\ (op[e].pc = "destroying" => e \in told)
        BY DEF Owned, Doing
      <4>3. QED
        BY <2>1, <2>2, <4>1, <4>2 DEF FramedBy
    <3>3. QED
      BY <3>1, <3>2
  <2>5. QED
    BY <2>1, <2>3, <2>4 DEF Owned, Doing, FramedBy
<1>4. CASE Tick \/ UNCHANGED vars \/ \E b \in Backends, j \in Jobs : Expire(b, j)
  BY <1>4 DEF Tick, Expire, vars, scheduler, worker, Owned, Runs, Doing
<1>5. QED
  BY <1>1, <1>2, <1>3, <1>4 DEF Next, EngineStep

-----------------------------------------------------------------------------
(***************************************************************************)
(* The jobs of a worker that was not told to stop.                         *)
(***************************************************************************)

\* Another's step, or a loop's, leaves the engine's schedulers as they run.
LEMMA ScheduledKept ==
  ASSUME TypeOK, Owned, NEW e \in Engines, Scheduled(e),
         live'[e] = live[e], op'[e] = op[e], wanted'[e] = wanted[e],
         \A r \in Schedulers : owner[r] = e /\ shut[r] = "no" =>
           /\ shut'[r] = shut[r] /\ jobs'[r] = jobs[r]
           /\ \A i \in Jobs : loop'[r][i] # NoLoop <=> loop[r][i] # NoLoop
  PROVE  Scheduled(e)'
<1>1. live[e] \in Schedulers /\ owner[live[e]] = e
  BY DEF TypeOK, Owned
<1>2. op[e].pc \in {"specs", "stop", "stopping", "rebuild"} =>
        op[e].new \in Schedulers /\ owner[op[e].new] = e
  BY DEF TypeOK, Owned
<1>3. ASSUME NEW r \in Schedulers, owner[r] = e, NEW J, Runs(r, J)
      PROVE  /\ shut'[r] = "no" /\ jobs'[r] = J
             /\ \A i \in Jobs : i \in J <=> loop'[r][i] # NoLoop
  BY <1>3 DEF Runs
<1>4. QED
  BY <1>1, <1>2, <1>3 DEF Scheduled, Runs, Doing

\* The engine's own step.
LEMMA OwnScheduled ==
  ASSUME TypeOK, Owned, NEW e \in Engines, Scheduled(e), e \notin told, EngineStep(e)
  PROVE  Scheduled(e)'
<1>1. /\ live[e] \in Schedulers /\ owner[live[e]] = e /\ e # NoEngine
      /\ op[e].new \in Schedulers => owner[op[e].new] = e /\ op[e].new # live[e]
      /\ wanted[e] \subseteq Jobs
      /\ op[e].pc \in {"specs", "stop", "stopping", "rebuild"} => op[e].new \in Schedulers
      /\ op[e].pc = "insert" => op[e].job \in Jobs
  BY FirstAssumption DEF TypeOK, Owned, Doing
<1>2. op[e].pc # "destroying" /\ e \notin destroyed
  BY DEF Owned, Doing
<1> USE DEF Scheduled, Runs, Doing, Free, Op
<1>3. ASSUME NEW j \in Jobs, Register(e, j)
      PROVE  Scheduled(e)'
  <2>1. op'[e].pc = "insert" /\ op'[e].job = j /\ UNCHANGED <<live, shut, jobs, wanted>>
    BY <1>3 DEF Register, scheduler, TypeOK
  <2>2. loop'[live[e]][j] # NoLoop /\ \A i \in Jobs : i # j => loop'[live[e]][i] = loop[live[e]][i]
    BY <1>1, <1>3, SleepType DEF Register, NoLoop, Loop
  <2>3. op[e].pc = "free"
    BY <1>3 DEF Register
  <2>4. QED
    BY <1>1, <2>1, <2>2, <2>3
<1>4. ASSUME NEW j \in Jobs, Unregister(e, j)
      PROVE  Scheduled(e)'
  <2>1. op[e].pc = "free" /\ UNCHANGED <<live, shut, op>>
        /\ wanted'[e] = wanted[e] \ {j} /\ jobs'[live[e]] = jobs[live[e]] \ {j}
    BY <1>1, <1>4 DEF Unregister, TypeOK
  <2>2. loop'[live[e]][j] = NoLoop /\ \A i \in Jobs : i # j => loop'[live[e]][i] = loop[live[e]][i]
    BY <1>1, <1>4, SleepType DEF Unregister
  <2>3. QED
    BY <1>1, <2>1, <2>2
<1>5. CASE Insert(e)
  <2>1. op[e].pc = "insert" /\ op'[e].pc = "free" /\ UNCHANGED <<live, shut, loop>>
        /\ wanted'[e] = wanted[e] \cup {op[e].job} /\ jobs'[live[e]] = jobs[live[e]] \cup {op[e].job}
    BY <1>1, <1>5 DEF Insert, TypeOK
  <2>2. QED
    BY <1>1, <2>1
<1>6. ASSUME NEW s \in Schedulers, NEW b \in Backends, BuildScheduler(e, s, b)
      PROVE  Scheduled(e)'
  <2>1. op[e].pc = "free" /\ op'[e].pc = "specs" /\ op'[e].new = s /\ UNCHANGED <<live, shut, loop, jobs, wanted>>
    BY <1>6 DEF BuildScheduler, TypeOK
  <2>2. Runs(s, {})
    BY <1>6 DEF BuildScheduler, Owned
  <2>3. QED
    BY <1>1, <2>1, <2>2
<1>7. CASE TakeSpecs(e)
  <2>1. op[e].pc = "specs" /\ op'[e].pc = "stop" /\ op'[e].new = op[e].new /\ op'[e].specs = jobs[live[e]]
        /\ UNCHANGED <<live, shut, loop, jobs, wanted>>
    BY <1>1, <1>7 DEF TakeSpecs, JobSpecs, scheduler, TypeOK
  <2>2. QED
    BY <1>1, <2>1
<1>8. CASE StopOld(e)
  <2>1. op[e].pc = "stop" /\ op'[e].pc = "stopping" /\ op'[e].new = op[e].new /\ op'[e].specs = op[e].specs
        /\ UNCHANGED <<live, loop, jobs, wanted>>
    BY <1>1, <1>8 DEF StopOld, TypeOK
  <2>2. shut'[op[e].new] = shut[op[e].new]
    BY <1>1, <1>8, <2>1 DEF StopOld, Signal, TypeOK
  <2>3. QED
    BY <1>1, <2>1, <2>2
<1>9. CASE OldStopped(e)
  <2>1. op[e].pc = "stopping" /\ op'[e].pc = "rebuild" /\ op'[e].new = op[e].new /\ op'[e].specs = op[e].specs
        /\ UNCHANGED <<live, shut, loop, jobs, wanted>>
    BY <1>1, <1>9 DEF OldStopped, scheduler, TypeOK
  <2>2. QED
    BY <1>1, <2>1
<1>10. ASSUME NEW j \in Jobs, Reregister(e, j)
       PROVE  Scheduled(e)'
  <2>1. op[e].pc = "rebuild" /\ op'[e].pc = "rebuild" /\ op'[e].new = op[e].new /\ op'[e].specs = op[e].specs \ {j}
        /\ j \in op[e].specs /\ UNCHANGED <<live, shut, wanted>>
    BY <1>1, <1>10 DEF Reregister, TypeOK
  <2>2. jobs'[op[e].new] = jobs[op[e].new] \cup {j}
    BY <1>1, <1>10, <2>1 DEF Reregister, TypeOK
  <2>3. loop'[op[e].new][j] # NoLoop /\ \A i \in Jobs : i # j => loop'[op[e].new][i] = loop[op[e].new][i]
    BY <1>1, <1>10, <2>1, SleepType DEF Reregister, NoLoop, Loop
  <2>4. QED
    BY <1>1, <2>1, <2>2, <2>3
<1>11. CASE SetLive(e)
  <2>1. op[e].pc = "rebuild" /\ op[e].specs = {} /\ op'[e].pc = "free" /\ live'[e] = op[e].new
        /\ UNCHANGED <<shut, loop, jobs, wanted>>
    BY <1>1, <1>11 DEF SetLive, scheduler, TypeOK
  <2>2. QED
    BY <1>1, <2>1
<1>12. CASE SendSignal(e)
  BY <1>1, <1>12 DEF SendSignal, scheduler
<1>13. ~ BackgroundShutdown(e) /\ ~ Destroy(e) /\ ~ EndDestroy(e)
  BY <1>2 DEF BackgroundShutdown, Destroy, EndDestroy
<1>14. QED
  BY <1>3, <1>4, <1>5, <1>6, <1>7, <1>8, <1>9, <1>10, <1>11, <1>12, <1>13 DEF EngineStep, ApplyStep

LEMMA AllScheduledInv == TypeOK /\ Owned /\ AllScheduled /\ [Next]_vars => AllScheduled'
<1> SUFFICES ASSUME TypeOK, Owned, AllScheduled, [Next]_vars, NEW e \in Engines, e \notin told'
             PROVE  Scheduled(e)'
  BY DEF AllScheduled
<1>1. ASSUME NEW s \in Schedulers, NEW j \in Jobs, LoopStep(s, j)
      PROVE  Scheduled(e)'
  <2>1. UNCHANGED <<jobs, shut, live, op, told, wanted>>
    BY <1>1 DEF LoopStep, scheduler, worker
  <2>2. Scheduled(e)
    BY <2>1 DEF AllScheduled
  <2>3. QED
    BY <1>1, <2>1, <2>2, LoopKeeps, ScheduledKept
<1>2. ASSUME NEW s \in Schedulers, SchedulerStep(s)
      PROVE  Scheduled(e)'
  <2>1. shut[s] # "no" /\ UNCHANGED <<live, op, told, wanted>>
    BY <1>2 DEF SchedulerStep, DrainJob, StartDrain, EndDrain, worker
  <2>2. \A r \in Schedulers : r # s => /\ shut'[r] = shut[r] /\ jobs'[r] = jobs[r]
                                       /\ \A i \in Jobs : loop'[r][i] = loop[r][i]
    BY <1>2, SleepType DEF SchedulerStep, DrainJob, StartDrain, EndDrain, TypeOK
  <2>3. Scheduled(e)
    BY <2>1 DEF AllScheduled
  <2>4. QED
    BY <2>1, <2>2, <2>3, ScheduledKept
<1>3. ASSUME NEW d \in Engines, EngineStep(d)
      PROVE  Scheduled(e)'
  <2>1. FramedBy(d)
    BY <1>3, EngineFrame
  <2>2. e \notin told /\ Scheduled(e)
    BY <2>1 DEF FramedBy, AllScheduled
  <2>3. CASE e = d
    BY <1>3, <2>2, <2>3, OwnScheduled
  <2>4. CASE e # d
    BY <2>1, <2>2, <2>4, ScheduledKept DEF FramedBy
  <2>5. QED
    BY <2>3, <2>4
<1>4. CASE Tick \/ UNCHANGED vars \/ \E b \in Backends, j \in Jobs : Expire(b, j)
  <2>1. UNCHANGED <<jobs, shut, loop, live, op, told, wanted>>
    BY <1>4 DEF Tick, Expire, vars, scheduler, worker
  <2>2. Scheduled(e)
    BY <2>1 DEF AllScheduled
  <2>3. QED
    BY <2>1, <2>2, ScheduledKept
<1>5. QED
  BY <1>1, <1>2, <1>3, <1>4 DEF Next, EngineStep

-----------------------------------------------------------------------------
\* The invariant is inductive, for any jobs, engines and runs of the handlers.
THEOREM Invariance == Spec => []IInv
<1>1. IInv /\ [Next]_vars => IInv'
  BY TypeInv, LockInv, OwnedInv, AllScheduledInv DEF IInv
<1>2. QED
  BY <1>1, InitInv, PTL DEF Spec

\* Every variable stays in its range: the schedulers and workers of
\* cron/structs.rs and cron/cron.rs.
THEOREM TypeCorrect == Spec => []TypeOK
<1>1. IInv => TypeOK
  BY DEF IInv
<1>2. QED
  BY <1>1, Invariance, PTL

\* Two schedulers of one lock backend are never at work on a job at once,
\* unless its lock ran into its time to live: the SET NX and the checked delete
\* of the redis lock, try_acquire_lock and release_lock of the kv lock.
THEOREM WorkIsExclusive == Spec => []OneAtWork
<1>1. IInv => OneAtWork
  BY DEF IInv, LockHeld, OneAtWork
<1>2. QED
  BY <1>1, Invariance, PTL

\* The live scheduler of a worker runs exactly the jobs registered with it,
\* whatever changes of the lock backend apply_config made.
THEOREM JobsAreScheduled == Spec => []JobsScheduled
<1>1. IInv => JobsScheduled
  BY DEF IInv, AllScheduled, Scheduled, Runs, JobsScheduled
<1>2. QED
  BY <1>1, Invariance, PTL
=============================================================================
