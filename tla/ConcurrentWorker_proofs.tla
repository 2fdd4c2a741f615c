----------------------- MODULE ConcurrentWorker_proofs -----------------------
(***************************************************************************)
(* Proofs about ConcurrentWorker for every set of jobs, clients, loops and *)
(* permits and every attempt limit, and, as its steps go on between two    *)
(* crashes, about QueueRestart, for every finite set of jobs and any       *)
(* number of crashes.                                                      *)
(***************************************************************************)
EXTENDS QueueRestart, JobQueue_proofs, FiniteSetTheorems, TLAPS

-----------------------------------------------------------------------------
(***************************************************************************)
(* Type correctness: one step per method step.                             *)
(***************************************************************************)
LEMMA InitType == Init => TypeOK
  BY QueueInitType DEF Init, TypeOK

LEMMA LoopType ==
  ASSUME TypeOK, NEW p \in Pollers, LoopStep(p)
  PROVE  TypeOK'
<1>0. UNCHANGED subs
  BY DEF LoopStep
<1>1. CASE Move(p)
  BY <1>0, <1>1, MoveType DEF TypeOK
<1>2. CASE PopEmpty(p, "idle") \/ PopTake(p) \/ PopActivate(p) \/ PopRead(p) \/ PopGhost(p, "idle")
  BY <1>0, <1>2, PopType DEF TypeOK
<1> USE DEF TypeOK, QueueTypeOK, At, Goto, Return, Idle, Call, HoldPCs, ActivePCs, MethodPCs,
            Callers, history, store
<1>3. ASSUME NEW t \in TasksOf(p), Spawn(p, t)
      PROVE  TypeOK'
  BY <1>0, <1>3 DEF Spawn, TasksOf, Tasks
<1>4. CASE RequeuePush(p)
  BY <1>0, <1>4 DEF RequeuePush, LPush
<1>5. CASE RequeueRemove(p)
  BY <1>0, <1>5 DEF RequeueRemove, LRemActive
<1>6. QED
  BY <1>1, <1>2, <1>3, <1>4, <1>5 DEF LoopStep

LEMMA TaskType ==
  ASSUME TypeOK, NEW t \in Tasks, TaskStep(t)
  PROVE  TypeOK'
<1>0. UNCHANGED subs /\ t \in Callers
  BY DEF TaskStep, Callers
<1>1. CASE Ack(t) \/ Nack(t)
  BY <1>0, <1>1, AckNackType DEF TypeOK
<1> USE DEF TypeOK, QueueTypeOK, At, Goto, Call, Settle, HoldPCs, ActivePCs, MethodPCs, store
<1>2. CASE HandlerOk(t)
  BY <1>0, <1>2 DEF HandlerOk
<1>3. CASE HandlerErr(t)
  BY <1>0, <1>3 DEF HandlerErr
<1>4. QED
  BY <1>1, <1>2, <1>3 DEF TaskStep

LEMMA NextType == TypeOK /\ [Next]_vars => TypeOK'
<1> SUFFICES ASSUME TypeOK, [Next]_vars
             PROVE  TypeOK'
  OBVIOUS
<1>1. ASSUME NEW c \in Clients, ClientStep(c), UNCHANGED subs
      PROVE  TypeOK'
  BY <1>1, ClientType DEF TypeOK
<1>2. ASSUME NEW j \in Jobs, BecomeDue(j), UNCHANGED subs
      PROVE  TypeOK'
  BY <1>2, BecomeDueType DEF TypeOK
<1>3. ASSUME NEW p \in Pollers, Subscribe(p)
      PROVE  TypeOK'
  BY <1>3, QueueKeptType DEF Subscribe, TypeOK
<1>4. ASSUME NEW p \in Pollers, Unsubscribe(p)
      PROVE  TypeOK'
  BY <1>4 DEF Unsubscribe, TypeOK, QueueTypeOK, store, Return, Idle, Call, HoldPCs, ActivePCs, MethodPCs
<1>5. CASE UNCHANGED vars
  BY <1>5, QueueKeptType DEF vars, TypeOK
<1>6. QED
  BY <1>1, <1>2, <1>3, <1>4, <1>5, LoopType, TaskType DEF Next

(***************************************************************************)
(* Every reachable state is well typed.                                    *)
(***************************************************************************)
THEOREM TypeCorrect == Spec => []TypeOK
  BY InitType, NextType, PTL DEF Spec

-----------------------------------------------------------------------------
(***************************************************************************)
(* Each job by itself: what JobQueue_proofs says of a job is known of it,  *)
(* and it has a place exactly while it is live.  Nothing is asked of the   *)
(* other jobs, so that a step that works on a job whose bookkeeping is     *)
(* broken harms no other.                                                  *)
(***************************************************************************)
Live == {"live"}
Safe(j) == Sound(j, Live) /\ (fate[j] = "live" <=> Located(j))
AllSafe == \A j \in Jobs : Safe(j)

LEMMA LoopSound ==
  ASSUME TypeOK, NEW j \in Jobs, Sound(j, Live), NEW p \in Pollers, LoopStep(p)
  PROVE  Sound(j, Live)' /\ Moves(j, Live)
<1>0. QueueTypeOK /\ Live \in Fates /\ p \in Callers
  BY DEF TypeOK, Live, Fates, Callers
<1>1. CASE Move(p)
  BY <1>0, <1>1, MoveSound
<1>2. CASE PopEmpty(p, "idle") \/ PopTake(p) \/ PopActivate(p) \/ PopRead(p) \/ PopGhost(p, "idle")
  BY <1>0, <1>2, PopSound
<1>3. ASSUME NEW t \in TasksOf(p), Spawn(p, t)
      PROVE  Sound(j, Live)' /\ Moves(j, Live)
  <2>1. t \in Callers /\ p # t
    BY CallerAssumption DEF Callers, Tasks, TasksOf
  <2>2. UNCHANGED <<waiting, delayed, dlq, record, fate, failures, raced>>
    BY <1>3 DEF Spawn, store, history
  <2>3. QED
    BY <1>0, <1>3, <2>1, <2>2, SpawnSound DEF Spawn
<1>4. CASE RequeuePush(p)
  BY <1>0, <1>4, ListsSound DEF RequeuePush, At, Goto, FreshPCs, DonePCs
<1>5. CASE RequeueRemove(p)
  BY <1>0, <1>5, AimlessSound DEF RequeueRemove, At, Return, Idle, HoldPCs, DonePCs
<1>6. QED
  BY <1>1, <1>2, <1>3, <1>4, <1>5 DEF LoopStep

LEMMA TaskSound ==
  ASSUME TypeOK, NEW j \in Jobs, Sound(j, Live), NEW t \in Tasks, TaskStep(t)
  PROVE  Sound(j, Live)' /\ Moves(j, Live)
<1>0. QueueTypeOK /\ Live \in Fates /\ t \in Callers
  BY DEF TypeOK, Live, Fates, Callers
<1>1. CASE Ack(t) \/ Nack(t)
  BY <1>0, <1>1, AckNackSound
<1>2. CASE HandlerOk(t)
  BY <1>0, <1>2, SucceedsSound DEF HandlerOk, store
<1>3. CASE HandlerErr(t)
  BY <1>0, <1>3, FailsSound DEF HandlerErr, Goto, HoldPCs, store
<1>4. QED
  BY <1>1, <1>2, <1>3 DEF TaskStep

\* The abort of a loop strands the job it was moving.
LEMMA UnsubscribeSound ==
  ASSUME TypeOK, NEW j \in Jobs, Sound(j, Live), NEW p \in Pollers, Unsubscribe(p)
  PROVE  Sound(j, Live)' /\ Moves(j, Live)
<1>0. /\ QueueTypeOK /\ Live \in Fates /\ p \in Callers
      /\ call' = [call EXCEPT ![p] = Call("idle", NoJob, 0)]
      /\ "idle" \in DonePCs /\ "idle" \notin HoldPCs
      /\ WaitsAlike(j) /\ UNCHANGED <<delayed, dlq, record, failures, raced>>
  BY WaitingKept DEF TypeOK, Live, Fates, Callers, Unsubscribe, Return, Idle, DonePCs, HoldPCs, store
<1>1. CASE Holds(p, j)
  <2>1. call[p].job = j /\ call[p].pc \in HoldPCs /\ fate'[j] = "stranded"
    BY <1>1 DEF Holds, Unsubscribe
  <2>2. Deletes(p, j)'
    BY <1>0, NoJobAssumption DEF Deletes, Call, QueueTypeOK
  <2>3. QED
    BY <1>0, <2>1, <2>2, NoJobAssumption, HolderSettles DEF Live
<1>2. CASE ~ Holds(p, j)
  <2>1. fate'[j] = fate[j] /\ (call[p].job # j \/ call[p].pc \notin HoldPCs)
    BY <1>2 DEF Holds, Unsubscribe
  <2>2. QED
    BY <1>0, <2>1, StepsAside
<1>3. QED
  BY <1>1, <1>2

LEMMA NextSound ==
  ASSUME TypeOK, NEW j \in Jobs, Sound(j, Live), [Next]_vars
  PROVE  Sound(j, Live)' /\ Moves(j, Live)
<1>0. QueueTypeOK /\ Live \in Fates
  BY DEF TypeOK, Live, Fates
<1>1. ASSUME NEW c \in Clients, ClientStep(c)
      PROVE  Sound(j, Live)' /\ Moves(j, Live)
  BY <1>0, <1>1, ClientSound
<1>2. ASSUME NEW i \in Jobs, BecomeDue(i)
      PROVE  Sound(j, Live)' /\ Moves(j, Live)
  BY <1>0, <1>2, BecomeDueSound
<1>3. ASSUME UNCHANGED queueVars
      PROVE  Sound(j, Live)' /\ Moves(j, Live)
  BY <1>0, <1>3, QueueKeptSound
<1>4. QED
  BY <1>1, <1>2, <1>3, LoopSound, TaskSound, UnsubscribeSound DEF Next, Subscribe, vars

\* A job that is safe stays so, whatever the others are.
LEMMA NextSafe ==
  ASSUME TypeOK, NEW j \in Jobs, Safe(j), [Next]_vars
  PROVE  Safe(j)'
<1>1. Sound(j, Live)' /\ Moves(j, Live)
  BY NextSound DEF Safe
<1>2. QED
  BY <1>1 DEF Safe, Moves, Live

LEMMA InitSafe == Init => AllSafe
<1> SUFFICES ASSUME QueueInit, NEW j \in Jobs
             PROVE  Safe(j)
  BY DEF Init, AllSafe
<1>1. Live \in Fates
  BY DEF Live, Fates
<1>2. Sound(j, Live) /\ ~ Located(j) /\ fate[j] \notin Live
  BY <1>1, QueueInitSound
<1>3. QED
  BY <1>2 DEF Safe, Live

(***************************************************************************)
(* The inductive invariant of the queue.                                   *)
(***************************************************************************)
LEMMA Invariance == Spec => [](TypeOK /\ AllSafe)
<1>1. Init => TypeOK /\ AllSafe
  BY InitType, InitSafe
<1>2. TypeOK /\ AllSafe /\ [Next]_vars => (TypeOK /\ AllSafe)'
  BY NextType, NextSafe DEF AllSafe
<1>3. QED
  BY <1>1, <1>2, PTL DEF Spec

\* Who holds a safe job: it is live, in no list, and no one else holds it.
LEMMA SafeHolder ==
  ASSUME TypeOK, NEW j \in Jobs, Safe(j), NEW c \in Callers, Holds(c, j)
  PROVE  /\ fate[j] = "live" /\ Work(c, j)
         /\ ~ InWaiting(j) /\ delayed[j] = "none" /\ ~ dlq[j] > 0
         /\ \A d \in Callers : Holds(d, j) => d = c
<1>1. Located(j) /\ Held(j)
  BY DEF Located, Held
<1>2. QED
  BY <1>1 DEF Safe, Sound, Alone, Count

LEMMA HeldJob ==
  ASSUME TypeOK, AllSafe, NEW c \in Callers, call[c].pc \in HoldPCs
  PROVE  /\ call[c].job \in Jobs /\ Holds(c, call[c].job)
         /\ fate[call[c].job] = "live" /\ Work(c, call[c].job)
<1>1. call[c].job \in Jobs /\ Holds(c, call[c].job)
  BY DEF TypeOK, QueueTypeOK, Holds
<1>2. QED
  BY <1>1, SafeHolder DEF AllSafe

LEMMA SafePlace ==
  ASSUME TypeOK, NEW j \in Jobs, Safe(j)
  PROVE  /\ IF fate[j] = "live" THEN \E x \in Places(j) : Places(j) = {x}
                                ELSE Places(j) = {}
         /\ \A i, k \in DOMAIN waiting : waiting[i] = j /\ waiting[k] = j => i = k
         /\ dlq[j] <= 1
<1>1. Alone(j, Live)
  BY DEF Safe, Sound
<1>2. dlq[j] \in Nat /\ (dlq[j] > 0 => dlq[j] = 1)
  BY <1>1 DEF Alone, TypeOK, QueueTypeOK
<1>3. dlq[j] <= 1
  BY <1>2
<1>4. \A i, k \in DOMAIN waiting : waiting[i] = j /\ waiting[k] = j => i = k
  BY <1>1 DEF Alone, Once
<1>5. QED
  BY <1>1, <1>3, <1>4, PlacesOf DEF Safe

(***************************************************************************)
(* In every reachable state a live job is in exactly one place and any     *)
(* other job in none.                                                      *)
(***************************************************************************)
THEOREM OnePlaceHolds == Spec => []OnePlace
<1>1. TypeOK /\ AllSafe => OnePlace
  <2> SUFFICES ASSUME TypeOK, AllSafe
               PROVE  OnePlace
    OBVIOUS
  <2>1. \A i \in DOMAIN waiting : waiting[i] \in Jobs
    BY DEF TypeOK, QueueTypeOK
  <2>2. QED
    BY <2>1, SafePlace DEF AllSafe, OnePlace
<1>2. QED
  BY <1>1, Invariance, PTL

(***************************************************************************)
(* No two tasks ever run the handler on the same job.                      *)
(***************************************************************************)
THEOREM OneHandlerHolds == Spec => []OneHandler
<1>1. TypeOK /\ AllSafe => OneHandler
  <2> SUFFICES ASSUME TypeOK, AllSafe, NEW s \in Tasks, NEW t \in Tasks,
                      At(s, "handling"), At(t, "handling"), call[s].job = call[t].job
               PROVE  s = t
    BY DEF OneHandler
  <2>1. s \in Callers /\ t \in Callers
    BY DEF Callers
  <2>2. call[s].job \in Jobs /\ Holds(s, call[s].job) /\ Holds(t, call[s].job)
    BY <2>1 DEF TypeOK, QueueTypeOK, Holds, HoldPCs, At
  <2>3. QED
    BY <2>1, <2>2, SafeHolder DEF AllSafe
<1>2. QED
  BY <1>1, Invariance, PTL

(***************************************************************************)
(* The stored attempts of a listed job are its failures, but for the jobs  *)
(* redriven while they were being moved to the dead-letter list.           *)
(***************************************************************************)
THEOREM AttemptsExactHolds == Spec => []AttemptsExact
<1>1. TypeOK /\ AllSafe => AttemptsExact
  <2> SUFFICES ASSUME TypeOK, AllSafe, NEW j \in Jobs \ raced, InWaiting(j) \/ delayed[j] # "none"
               PROVE  record[j] = failures[j]
    BY DEF AttemptsExact
  <2>1. Fresh(j)
    BY ListedKnows DEF AllSafe, Safe, TypeOK, Fates, Live
  <2>2. QED
    BY <2>1 DEF Fresh, Stored
<1>2. QED
  BY <1>1, Invariance, PTL

(***************************************************************************)
(* A job is lost only if it was redriven while move_to_dlq had yet to      *)
(* delete its record.                                                      *)
(***************************************************************************)
THEOREM LossNeedsRaceHolds == Spec => []LossNeedsRace
<1>1. AllSafe => LossNeedsRace
  BY DEF AllSafe, Safe, Sound, Count, Tally, LossNeedsRace
<1>2. QED
  BY <1>1, Invariance, PTL

(***************************************************************************)
(* A dead letter has used all its attempts, and no handler starts on a job *)
(* that has.                                                               *)
(***************************************************************************)
THEOREM DeadMeansExhaustedHolds == Spec => []DeadMeansExhausted
<1>1. TypeOK /\ AllSafe => DeadMeansExhausted
  <2> SUFFICES ASSUME TypeOK, AllSafe
               PROVE  DeadMeansExhausted
    OBVIOUS
  <2>1. \A j \in Jobs : dlq[j] > 0 => failures[j] = MaxAttempts
    BY DEF AllSafe, Safe, Sound, Count, Tally
  <2>2. ASSUME NEW t \in Tasks, At(t, "handling")
        PROVE  failures[call[t].job] < MaxAttempts
    <3>1. t \in Callers /\ call[t].job \in Jobs
      BY <2>2 DEF Callers, TypeOK, QueueTypeOK, At, HoldPCs
    <3>2. Work(t, call[t].job)
      BY <3>1 DEF AllSafe, Safe, Sound, Count
    <3>3. QED
      BY <2>2, <3>2 DEF Work, At, FreshPCs, Fresh
  <2>3. QED
    BY <2>1, <2>2 DEF DeadMeansExhausted
<1>2. QED
  BY <1>1, Invariance, PTL

(***************************************************************************)
(* Once a job is handled no handler starts on it again: a task in its      *)
(* handler holds its job, and a settled job never comes back to a place.   *)
(***************************************************************************)
THEOREM HandledOnceHolds == Spec => HandledOnce
<1>1. ASSUME TypeOK, AllSafe, [Next]_vars, TypeOK', NEW j \in Jobs, NEW t \in Tasks,
             fate[j] = "acked", At(t, "handling")', call'[t].job = j
      PROVE  FALSE
  <2>1. Sound(j, Live)' /\ Moves(j, Live) /\ ~ Located(j) /\ fate[j] \notin Live
    BY <1>1, NextSound DEF AllSafe, Safe, Live
  <2>2. Located(j)'
    BY <1>1 DEF Located, Held, Holds, Callers, At, HoldPCs
  <2>3. QED
    BY <1>1, <2>1, <2>2 DEF Moves
<1>2. TypeOK /\ AllSafe /\ [Next]_vars =>
        [\A j \in Jobs, t \in Tasks :
           fate[j] = "acked" => ~ (~ At(t, "handling") /\ At(t, "handling")' /\ call'[t].job = j)]_vars
  BY <1>1, NextType
<1>3. QED
  BY <1>2, Invariance, PTL DEF Spec, HandledOnce

-----------------------------------------------------------------------------
(***************************************************************************)
(* ConcurrentWorker implements JobLifecycle: each step of a method is a    *)
(* step of one job's life or changes nothing in it.  First the invariant   *)
(* above and where a poll loop can be.                                     *)
(***************************************************************************)
LoopPCs == {"idle", "move", "move.list", "poll", "pop.activate", "pop.read", "popped",
            "requeue.lrem"}
LoopsLoop == \A p \in Pollers : call[p].pc \in LoopPCs

Strong == TypeOK /\ AllSafe /\ LoopsLoop

LEMMA InitLoops == Init => LoopsLoop
  BY DEF Init, QueueInit, LoopsLoop, LoopPCs, Idle, Call, Callers

LEMMA Apart ==
  /\ \A c \in Clients : c \in Callers /\ c \notin Pollers /\ c \notin Tasks
  /\ \A p \in Pollers : p \in Callers /\ p \notin Clients /\ p \notin Tasks
  /\ \A t \in Tasks : t \in Callers /\ t \notin Clients /\ t \notin Pollers
  BY CallerAssumption DEF Callers, Tasks

\* A step changes the call of the caller that takes it, and Spawn that of a task.
LEMMA ClientCall ==
  ASSUME TypeOK, NEW c \in Clients, ClientStep(c)
  PROVE  \A d \in Callers \ {c} : call'[d] = call[d]
<1> USE DEF TypeOK, QueueTypeOK, Begin, Goto, Return
<1>1. ASSUME NEW j \in Jobs, NEW pc \in {"push.list", "push.delay"}, PushRecord(c, j, pc)
      PROVE  \A d \in Callers \ {c} : call'[d] = call[d]
  BY <1>1 DEF PushRecord
<1>2. CASE PushList(c) \/ PushDelay(c)
  BY <1>2 DEF PushList, PushDelay
<1>3. ASSUME NEW j \in Jobs, RedriveTake(c, j) \/ DiscardTake(c, j)
      PROVE  \A d \in Callers \ {c} : call'[d] = call[d]
  BY <1>3 DEF RedriveTake, DiscardTake
<1>4. CASE RedriveSet(c) \/ DiscardDelete(c)
  BY <1>4 DEF RedriveSet, DiscardDelete
<1>5. QED
  BY <1>1, <1>2, <1>3, <1>4 DEF ClientStep

LEMMA TaskCall ==
  ASSUME TypeOK, NEW t \in Tasks, TaskStep(t)
  PROVE  \A d \in Callers \ {t} : call'[d] = call[d]
<1> USE DEF TypeOK, QueueTypeOK, Goto, Return
<1>1. CASE HandlerOk(t) \/ HandlerErr(t)
  BY <1>1 DEF HandlerOk, HandlerErr
<1>2. CASE AckRemove(t) \/ AckDelete(t)
  BY <1>2 DEF AckRemove, AckDelete
<1>3. CASE NackGet(t) \/ NackGone(t)
  BY <1>3 DEF NackGet, NackGone
<1>4. CASE RetryRemove(t) \/ RetrySet(t) \/ RetryDelay(t)
  BY <1>4 DEF RetryRemove, RetrySet, RetryDelay
<1>5. CASE DlqRemove(t) \/ DlqPush(t) \/ DlqDelete(t)
  BY <1>5 DEF DlqRemove, DlqPush, DlqDelete
<1>6. QED
  BY <1>1, <1>2, <1>3, <1>4, <1>5 DEF TaskStep, Ack, Nack, MoveToDlq

LEMMA LoopGoes ==
  ASSUME TypeOK, LoopsLoop, NEW p \in Pollers, NEW q \in Pollers, NEW pc \in LoopPCs,
         NEW i, NEW n, call' = [call EXCEPT ![q] = Call(pc, i, n)]
  PROVE  call'[p].pc \in LoopPCs
  BY Apart DEF LoopsLoop, Call, TypeOK, QueueTypeOK

LEMMA NextLoops == TypeOK /\ LoopsLoop /\ [Next]_vars => LoopsLoop'
<1> SUFFICES ASSUME TypeOK, LoopsLoop, [Next]_vars, NEW p \in Pollers
             PROVE  call'[p].pc \in LoopPCs
  BY DEF LoopsLoop
<1>0. p \in Callers /\ call[p].pc \in LoopPCs
  BY Apart DEF LoopsLoop
<1>1. CASE call'[p] = call[p]
  BY <1>0, <1>1
<1>2. ASSUME NEW c \in Clients, ClientStep(c)
      PROVE  call'[p] = call[p]
  BY <1>0, <1>2, ClientCall, Apart
<1>3. ASSUME NEW t \in Tasks, TaskStep(t)
      PROVE  call'[p] = call[p]
  BY <1>0, <1>3, TaskCall, Apart
<1>4. ASSUME NEW q \in Pollers, Unsubscribe(q)
      PROVE  call'[p].pc \in LoopPCs
  BY <1>0, <1>4 DEF Unsubscribe, Return, Idle, Call, LoopPCs, TypeOK, QueueTypeOK
<1>5. ASSUME NEW q \in Pollers, LoopStep(q)
      PROVE  call'[p].pc \in LoopPCs
  <2>1. CASE MoveBegin(q) \/ MoveEnd(q)
    BY <2>1, LoopGoes DEF MoveBegin, MoveEnd, Goto, LoopPCs
  <2>2. CASE MoveList(q) \/ PopEmpty(q, "idle") \/ PopTake(q) \/ PopGhost(q, "idle")
    BY <2>2, LoopGoes DEF MoveList, PopEmpty, PopTake, PopGhost, Begin, LoopPCs
  <2>3. ASSUME NEW j \in Jobs, MoveTake(q, j)
        PROVE  call'[p].pc \in LoopPCs
    BY <2>3, LoopGoes DEF MoveTake, Begin, LoopPCs
  <2>4. ASSUME NEW j \in Jobs, MoveSkip(q, j)
        PROVE  call'[p].pc \in LoopPCs
    BY <1>0, <2>4 DEF MoveSkip
  <2>5. CASE PopActivate(q) \/ PopRead(q)
    BY <2>5, LoopGoes DEF PopActivate, PopRead, Goto, LoopPCs
  <2>6. ASSUME NEW t \in TasksOf(q), Spawn(q, t)
        PROVE  call'[p].pc \in LoopPCs
    <3>1. p # t
      BY Apart DEF TasksOf, Tasks
    <3>2. call'[p] = IF p = q THEN Call("poll", NoJob, 0) ELSE call[p]
      BY <1>0, <2>6, <3>1 DEF Spawn, TypeOK, QueueTypeOK
    <3>3. QED
      BY <1>0, <3>2 DEF Call, LoopPCs
  <2>7. CASE RequeuePush(q) \/ RequeueRemove(q)
    BY <2>7, LoopGoes DEF RequeuePush, RequeueRemove, Goto, Return, Idle, LoopPCs
  <2>8. QED
    BY <1>5, <2>1, <2>2, <2>3, <2>4, <2>5, <2>6, <2>7 DEF LoopStep, Move
<1>6. ASSUME NEW j \in Jobs, BecomeDue(j)
      PROVE  call'[p] = call[p]
  BY <1>6 DEF BecomeDue
<1>7. CASE UNCHANGED vars \/ \E q \in Pollers : Subscribe(q)
  BY <1>0, <1>7 DEF vars, Subscribe, queueVars
<1>8. QED
  BY <1>1, <1>2, <1>3, <1>4, <1>5, <1>6, <1>7 DEF Next

LEMMA StrongInvariance == Spec => []Strong
<1>1. Init => LoopsLoop
  BY InitLoops
<1>2. TypeOK /\ LoopsLoop /\ [Next]_vars => LoopsLoop'
  BY NextLoops
<1>3. QED
  BY <1>1, <1>2, Invariance, PTL DEF Spec, Strong

-----------------------------------------------------------------------------
(***************************************************************************)
(* How steps move the stage of a job.                                      *)
(***************************************************************************)
RunningBy(t, j) == At(t, "handling") /\ call[t].job = j

LEMMA StageKept ==
  ASSUME NEW j \in Jobs, UNCHANGED <<fate[j], failures[j]>>,
         \A t \in Tasks : RunningBy(t, j)' <=> RunningBy(t, j)
  PROVE  StageOf(j)' = StageOf(j)
<1>1. Running(j)' <=> Running(j)
  BY DEF Running, RunningBy
<1>2. QED
  BY <1>1 DEF StageOf

LEMMA StageMoves ==
  ASSUME NEW j \in Jobs, NEW from, NEW to, StageOf(j) = from, StageOf(j)' = to,
         \A k \in Jobs \ {j} : StageOf(k)' = StageOf(k)
  PROVE  Lifecycle!To(j, from, to)
  BY DEF Lifecycle!To

LEMMA StagesKept ==
  ASSUME \A k \in Jobs : StageOf(k)' = StageOf(k), UNCHANGED <<failures, raced>>
  PROVE  UNCHANGED Lifecycle!vars
  BY DEF Lifecycle!vars

\* A step in which no handler starts or ends and no job changes its fate.
LEMMA QuietStep ==
  ASSUME UNCHANGED history,
         \A t \in Tasks, j \in Jobs : RunningBy(t, j)' <=> RunningBy(t, j)
  PROVE  [Lifecycle!Next]_(Lifecycle!vars)
  BY StageKept, StagesKept DEF history

\* A job that a caller other than a task at its handler holds is not running.
LEMMA NotRunning ==
  ASSUME Strong, NEW j \in Jobs,
         \/ InWaiting(j) \/ delayed[j] # "none" \/ dlq[j] > 0
         \/ \E c \in Callers : Holds(c, j) /\ call[c].pc # "handling"
  PROVE  ~ Running(j)
<1> SUFFICES ASSUME NEW t \in Tasks, At(t, "handling"), call[t].job = j
             PROVE  FALSE
  BY DEF Running
<1>1. t \in Callers /\ Holds(t, j) /\ TypeOK /\ Safe(j)
  BY Apart DEF Holds, HoldPCs, At, Strong, AllSafe
<1>2. QED
  BY <1>1, SafeHolder DEF At

\* No task is involved: who runs what stays the same.
LEMMA NoTask ==
  ASSUME TypeOK, NEW c \in Callers \ Tasks, \A d \in Callers \ {c} : call'[d] = call[d]
  PROVE  \A t \in Tasks, j \in Jobs : RunningBy(t, j)' <=> RunningBy(t, j)
  BY Apart DEF RunningBy, At

\* A task goes on between two steps that are not the handler.
LEMMA TaskGoes ==
  ASSUME TypeOK, NEW t \in Tasks, call[t].pc # "handling", call'[t].pc # "handling",
         \A d \in Callers \ {t} : call'[d] = call[d]
  PROVE  \A u \in Tasks, j \in Jobs : RunningBy(u, j)' <=> RunningBy(u, j)
  BY Apart DEF RunningBy, At

LEMMA ClientImplements ==
  ASSUME Strong, NEW c \in Clients, ClientStep(c)
  PROVE  [Lifecycle!Next]_(Lifecycle!vars)
<1>0. /\ TypeOK /\ c \in Callers
      /\ \A t \in Tasks, k \in Jobs : RunningBy(t, k)' <=> RunningBy(t, k)
  BY ClientCall, NoTask, Apart DEF Strong
<1>1. ASSUME NEW j \in Jobs, NEW pc \in {"push.list", "push.delay"}, PushRecord(c, j, pc)
      PROVE  [Lifecycle!Next]_(Lifecycle!vars)
  <2>1. fate[j] = "new" /\ failures[j] = 0
    BY <1>1 DEF PushRecord, Strong, AllSafe, Safe, Sound, Count, Tally
  <2>2. StageOf(j) = "new"
    BY <2>1 DEF StageOf
  <2>3. ~ Held(j)
    BY <2>1 DEF Strong, AllSafe, Safe, Located
  <2>4. ~ Running(j)
    BY <2>3, Apart DEF Running, Held, Holds, At, HoldPCs
  <2>5. ~ Running(j)'
    BY <1>0, <2>4 DEF Running, RunningBy
  <2>6. fate'[j] = "live" /\ failures'[j] = 0 /\ \A k \in Jobs \ {j} : fate'[k] = fate[k]
    BY <1>0, <1>1, <2>1 DEF PushRecord, Settle, TypeOK, QueueTypeOK
  <2>7. StageOf(j)' = "queued"
    BY <2>5, <2>6, MaxAttemptsAssumption DEF StageOf
  <2>8. \A k \in Jobs \ {j} : StageOf(k)' = StageOf(k)
    BY <1>0, <1>1, <2>6, StageKept DEF PushRecord
  <2>9. Lifecycle!Submit(j)
    BY <1>1, <2>2, <2>7, <2>8, StageMoves DEF Lifecycle!Submit, PushRecord
  <2>10. QED
    BY <2>9 DEF Lifecycle!Next
<1>2. CASE PushList(c) \/ PushDelay(c) \/ DiscardDelete(c)
  BY <1>0, <1>2, QuietStep DEF PushList, PushDelay, DiscardDelete
<1>3. ASSUME NEW j \in Jobs, RedriveTake(c, j)
      PROVE  [Lifecycle!Next]_(Lifecycle!vars)
  <2>1. dlq[j] > 0 /\ fate[j] = "live" /\ failures[j] = MaxAttempts
    BY <1>3 DEF RedriveTake, TakeDlq, Strong, AllSafe, Safe, Sound, Count, Tally, Located
  <2>2. StageOf(j) = "dead"
    BY <2>1, NotRunning DEF StageOf
  <2>3. \A k \in Jobs : StageOf(k)' = StageOf(k)
    BY <1>0, <1>3, StageKept DEF RedriveTake
  <2>4. CASE raced' = raced
    BY <1>3, <2>3, <2>4, StagesKept DEF RedriveTake
  <2>5. CASE raced' # raced
    <3>1. raced' = raced \cup {j}
      BY <1>3, <2>5 DEF RedriveTake
    <3>2. Lifecycle!Expose(j)
      BY <1>3, <2>2, <2>3, <3>1 DEF Lifecycle!Expose, RedriveTake
    <3>3. QED
      BY <3>2 DEF Lifecycle!Next
  <2>6. QED
    BY <2>4, <2>5
<1>4. ASSUME NEW j \in Jobs, DiscardTake(c, j)
      PROVE  [Lifecycle!Next]_(Lifecycle!vars)
  <2>1. dlq[j] > 0 /\ fate[j] = "live" /\ failures[j] = MaxAttempts
    BY <1>4 DEF DiscardTake, TakeDlq, Strong, AllSafe, Safe, Sound, Count, Tally, Located
  <2>2. StageOf(j) = "dead"
    BY <2>1, NotRunning DEF StageOf
  <2>3. fate'[j] = "discarded" /\ \A k \in Jobs \ {j} : fate'[k] = fate[k]
    BY <1>0, <1>4 DEF DiscardTake, Settle, TypeOK, QueueTypeOK
  <2>4. StageOf(j)' = "discarded"
    BY <2>3 DEF StageOf
  <2>5. \A k \in Jobs \ {j} : StageOf(k)' = StageOf(k)
    BY <1>0, <1>4, <2>3, StageKept DEF DiscardTake
  <2>6. Lifecycle!Discard(j)
    BY <1>4, <2>2, <2>4, <2>5, StageMoves DEF Lifecycle!Discard, DiscardTake
  <2>7. QED
    BY <2>6 DEF Lifecycle!Next
<1>5. CASE RedriveSet(c)
  <2>1. PICK j \in Jobs :
          j = call[c].job /\ Holds(c, j) /\ fate[j] = "live" /\ failures[j] = MaxAttempts
    <3>1. call[c].job \in Jobs /\ Holds(c, call[c].job) /\ fate[call[c].job] = "live"
          /\ Work(c, call[c].job)
      BY <1>0, <1>5, HeldJob DEF RedriveSet, At, HoldPCs, Strong
    <3>2. QED
      BY <1>5, <3>1 DEF RedriveSet, At, Work
  <2>2. ~ Running(j)
    BY <1>0, <1>5, <2>1, NotRunning DEF RedriveSet, At
  <2>3. StageOf(j) = "dead"
    BY <2>1, <2>2 DEF StageOf
  <2>4. failures' = [failures EXCEPT ![j] = 0] /\ failures'[j] = 0
    BY <1>0, <1>5, <2>1 DEF RedriveSet, TypeOK, QueueTypeOK
  <2>5. ~ Running(j)'
    BY <1>0, <2>2 DEF Running, RunningBy
  <2>6. StageOf(j)' = "queued"
    BY <1>5, <2>1, <2>4, <2>5, MaxAttemptsAssumption DEF StageOf, RedriveSet
  <2>7. \A k \in Jobs \ {j} : StageOf(k)' = StageOf(k)
    BY <1>0, <1>5, <2>4, StageKept DEF RedriveSet, TypeOK, QueueTypeOK
  <2>8. Lifecycle!Redrive(j)
    BY <1>5, <2>3, <2>4, <2>6, <2>7, StageMoves DEF Lifecycle!Redrive, RedriveSet
  <2>9. QED
    BY <2>8 DEF Lifecycle!Next
<1>6. QED
  BY <1>1, <1>2, <1>3, <1>4, <1>5 DEF ClientStep

\* A holder finds no record of a job that is not running: the job is lost.
LEMMA LoseImplements ==
  ASSUME Strong, NEW c \in Callers, NEW j \in Jobs, Holds(c, j), call[c].pc # "handling",
         j \in raced, fate[j] = "live", Settle(j, "lost"), UNCHANGED <<failures, raced>>,
         \A t \in Tasks, k \in Jobs : RunningBy(t, k)' <=> RunningBy(t, k)
  PROVE  Lifecycle!Next
<1>1. StageOf(j) \in {"queued", "dead"}
  BY NotRunning DEF StageOf
<1>2. fate'[j] = "lost" /\ \A k \in Jobs \ {j} : fate'[k] = fate[k]
  BY DEF Settle, Strong, TypeOK, QueueTypeOK
<1>3. StageOf(j)' = "lost"
  BY <1>2 DEF StageOf
<1>4. \A k \in Jobs \ {j} : StageOf(k)' = StageOf(k)
  BY <1>2, StageKept
<1>5. Lifecycle!Lose(j)
  BY <1>1, <1>3, <1>4, StageMoves DEF Lifecycle!Lose
<1>6. QED
  BY <1>5 DEF Lifecycle!Next

\* There are no more jobs in their handlers than tasks that are not idle.
LEMMA RoomToRun ==
  ASSUME IsFiniteSet(Tasks), Strong, NEW t \in Tasks, At(t, "idle")
  PROVE  Cardinality({k \in Jobs : StageOf(k) = "running"}) < Cardinality(Tasks)
<1> DEFINE R == {k \in Jobs : StageOf(k) = "running"}
           f == [k \in R |-> CHOOSE u \in Tasks : RunningBy(u, k)]
<1>1. \A k \in R : \E u \in Tasks : RunningBy(u, k)
  <2>1. ASSUME NEW k \in R
        PROVE  Running(k)
    <3>1. k \in Jobs /\ fate[k] \in {"new", "live", "acked", "discarded", "lost", "stranded"}
      BY DEF Strong, TypeOK, QueueTypeOK
    <3>2. QED
      BY <3>1 DEF StageOf
  <2>2. QED
    BY <2>1 DEF Running, RunningBy
<1>2. \A k \in R : f[k] \in Tasks /\ RunningBy(f[k], k)
  BY <1>1
<1>3. f \in Injection(R, Tasks \ {t})
  <2>1. f \in [R -> Tasks \ {t}]
    BY <1>2 DEF RunningBy, At
  <2>2. \A k, l \in R : f[k] = f[l] => k = l
    BY <1>2 DEF RunningBy
  <2>3. QED
    BY <2>1, <2>2 DEF Injection, IsInjective
<1> HIDE DEF f
<1>4. IsFiniteSet(Tasks \ {t}) /\ Cardinality(Tasks \ {t}) = Cardinality(Tasks) - 1
  BY FS_RemoveElement
<1>5. IsFiniteSet(R) /\ Cardinality(R) <= Cardinality(Tasks \ {t})
  BY <1>3, <1>4, FS_Injection
<1>6. Cardinality(R) \in Nat /\ Cardinality(Tasks) \in Nat
  BY <1>5, FS_CardinalityType
<1>7. QED
  BY <1>4, <1>5, <1>6

\* The instance has a Cardinality of its own, defined as the one of FiniteSets.
LEMMA SameCardinality == \A S : Lifecycle!Cardinality(S) = Cardinality(S)
  BY Zenon DEF Cardinality, Lifecycle!Cardinality

LEMMA SpawnImplements ==
  ASSUME IsFiniteSet(Tasks), Strong, NEW p \in Pollers, NEW t \in TasksOf(p), Spawn(p, t)
  PROVE  Lifecycle!Next
<1>1. /\ TypeOK /\ t \in Tasks /\ t \in Callers /\ p \in Callers /\ p # t
      /\ call[p].pc \in HoldPCs /\ At(t, "idle")
  BY Apart DEF Strong, Tasks, TasksOf, Spawn, At, HoldPCs
<1>2. PICK j \in Jobs : j = call[p].job /\ Holds(p, j) /\ fate[j] = "live" /\ Work(p, j)
  BY <1>1, HeldJob DEF Strong
<1>3. failures[j] < MaxAttempts
  BY <1>2 DEF Spawn, At, Work, FreshPCs, Fresh
<1>4. StageOf(j) = "queued"
  <2>1. ~ Running(j)
    BY <1>1, <1>2, NotRunning DEF Spawn, At
  <2>2. failures[j] # MaxAttempts
    BY <1>1, <1>3, MaxAttemptsAssumption DEF TypeOK, QueueTypeOK
  <2>3. QED
    BY <1>2, <2>1, <2>2 DEF StageOf
<1>5. \A d \in Callers :
        call'[d] = IF d = p THEN Call("poll", NoJob, 0)
                   ELSE IF d = t THEN Call("handling", j, call[p].tries) ELSE call[d]
  BY <1>1, <1>2 DEF Spawn, TypeOK, QueueTypeOK
<1>6. RunningBy(t, j)'
  BY <1>1, <1>5 DEF RunningBy, At, Call
<1>7. StageOf(j)' = "running"
  BY <1>1, <1>2, <1>6 DEF StageOf, Running, RunningBy, Spawn, history
<1>8. ASSUME NEW k \in Jobs \ {j}
      PROVE  StageOf(k)' = StageOf(k)
  <2>1. \A u \in Tasks : RunningBy(u, k)' <=> RunningBy(u, k)
    BY <1>1, <1>5, Apart DEF RunningBy, At, Call
  <2>2. QED
    BY <2>1, StageKept DEF Spawn, history
<1>9. Lifecycle!Start(j)
  <2>1. {k \in Jobs : [l \in Jobs |-> StageOf(l)][k] = "running"}
          = {k \in Jobs : StageOf(k) = "running"}
    OBVIOUS
  <2>2. Lifecycle!Cardinality({k \in Jobs : [l \in Jobs |-> StageOf(l)][k] = "running"})
          < Cardinality(Tasks)
    BY <1>1, <2>1, RoomToRun, SameCardinality
  <2>3. Lifecycle!To(j, "queued", "running")
    BY <1>4, <1>7, <1>8, StageMoves
  <2>4. QED
    BY <2>2, <2>3 DEF Lifecycle!Start, Spawn, history
<1>10. QED
  BY <1>9 DEF Lifecycle!Next

LEMMA LoopImplements ==
  ASSUME IsFiniteSet(Tasks), Strong, NEW p \in Pollers, LoopStep(p)
  PROVE  [Lifecycle!Next]_(Lifecycle!vars)
<1>0. TypeOK /\ p \in Callers /\ p \in Callers \ Tasks
  BY Apart DEF Strong
<1>1. ASSUME NEW t \in TasksOf(p), Spawn(p, t)
      PROVE  [Lifecycle!Next]_(Lifecycle!vars)
  BY <1>1, SpawnImplements
<1>2. ASSUME \A d \in Callers \ {p} : call'[d] = call[d]
      PROVE  \A t \in Tasks, k \in Jobs : RunningBy(t, k)' <=> RunningBy(t, k)
  BY <1>0, <1>2, NoTask
<1>3. CASE MoveBegin(p) \/ MoveEnd(p) \/ MoveList(p)
  <2>1. (\A d \in Callers \ {p} : call'[d] = call[d]) /\ UNCHANGED history
    BY <1>0, <1>3 DEF MoveBegin, MoveEnd, MoveList, Goto, Begin, TypeOK, QueueTypeOK
  <2>2. QED
    BY <1>2, <2>1, QuietStep
<1>4. ASSUME NEW j \in Jobs, MoveTake(p, j) \/ MoveSkip(p, j)
      PROVE  [Lifecycle!Next]_(Lifecycle!vars)
  <2>1. (\A d \in Callers \ {p} : call'[d] = call[d]) /\ UNCHANGED history
    BY <1>0, <1>4 DEF MoveTake, MoveSkip, Begin, TypeOK, QueueTypeOK
  <2>2. QED
    BY <1>2, <2>1, QuietStep
<1>5. CASE PopEmpty(p, "idle") \/ PopTake(p) \/ PopActivate(p) \/ PopRead(p)
  <2>1. (\A d \in Callers \ {p} : call'[d] = call[d]) /\ UNCHANGED history
    BY <1>0, <1>5 DEF PopEmpty, PopTake, PopActivate, PopRead, Goto, Begin, TypeOK, QueueTypeOK
  <2>2. QED
    BY <1>2, <2>1, QuietStep
<1>6. CASE RequeuePush(p) \/ RequeueRemove(p)
  <2>1. (\A d \in Callers \ {p} : call'[d] = call[d]) /\ UNCHANGED history
    BY <1>0, <1>6 DEF RequeuePush, RequeueRemove, Goto, Return, TypeOK, QueueTypeOK
  <2>2. QED
    BY <1>2, <2>1, QuietStep
<1>7. CASE PopGhost(p, "idle")
  <2>1. PICK j \in Jobs : j = call[p].job /\ Holds(p, j) /\ fate[j] = "live" /\ Work(p, j)
    BY <1>0, <1>7, HeldJob DEF Strong, PopGhost, At, HoldPCs
  <2>2. record[j] = Absent /\ Fresh(j)
    BY <1>7, <2>1 DEF PopGhost, At, Work, FreshPCs
  <2>3. j \in raced
    BY <1>0, <2>2 DEF Fresh, Stored, Absent, TypeOK, QueueTypeOK
  <2>4. \A d \in Callers \ {p} : call'[d] = call[d]
    BY <1>0, <1>7 DEF PopGhost, Begin, TypeOK, QueueTypeOK
  <2>5. Lifecycle!Next
    BY <1>0, <1>2, <1>7, <2>1, <2>3, <2>4, LoseImplements DEF PopGhost, At
  <2>6. QED
    BY <2>5
<1>8. QED
  BY <1>1, <1>3, <1>4, <1>5, <1>6, <1>7 DEF LoopStep, Move

\* The handler of job j ends: the job runs no more, and the others run on.
LEMMA HandlerEnds ==
  ASSUME Strong, NEW t \in Tasks, NEW j \in Jobs, j = call[t].job,
         At(t, "handling"), call'[t].pc # "handling",
         \A d \in Callers \ {t} : call'[d] = call[d]
  PROVE  /\ Running(j) /\ ~ Running(j)' /\ fate[j] = "live"
         /\ \A k \in Jobs \ {j}, u \in Tasks : RunningBy(u, k)' <=> RunningBy(u, k)
<1>1. t \in Callers /\ Holds(t, j)
  BY Apart DEF At, Holds, HoldPCs
<1>2. \A u \in Tasks \ {t} : call'[u] = call[u] /\ ~ RunningBy(u, j)
  BY <1>1, SafeHolder, Apart DEF Strong, AllSafe, RunningBy, At, Holds, HoldPCs
<1>3. ~ Running(j)'
  BY <1>2 DEF Running, RunningBy, At
<1>4. \A k \in Jobs \ {j}, u \in Tasks : RunningBy(u, k)' <=> RunningBy(u, k)
  BY <1>2 DEF RunningBy, At
<1>5. Running(j) /\ fate[j] = "live"
  BY <1>1, SafeHolder DEF Running, Strong, AllSafe
<1>6. QED
  BY <1>3, <1>4, <1>5

LEMMA TaskImplements ==
  ASSUME Strong, NEW t \in Tasks, TaskStep(t)
  PROVE  [Lifecycle!Next]_(Lifecycle!vars)
<1>0. /\ TypeOK /\ t \in Callers /\ \A d \in Callers \ {t} : call'[d] = call[d]
  BY TaskCall, Apart DEF Strong
<1>1. ASSUME call[t].pc # "handling", call'[t].pc # "handling"
      PROVE  \A u \in Tasks, k \in Jobs : RunningBy(u, k)' <=> RunningBy(u, k)
  BY <1>0, <1>1, TaskGoes
<1>2. CASE HandlerOk(t)
  <2>1. PICK j \in Jobs : j = call[t].job
    BY <1>0, <1>2 DEF HandlerOk, At, TypeOK, QueueTypeOK, HoldPCs
  <2>2. call'[t].pc # "handling"
    BY <1>0, <1>2 DEF HandlerOk, Goto, Call, TypeOK, QueueTypeOK
  <2>3. /\ Running(j) /\ ~ Running(j)' /\ fate[j] = "live"
        /\ \A k \in Jobs \ {j}, u \in Tasks : RunningBy(u, k)' <=> RunningBy(u, k)
    BY <1>0, <1>2, <2>1, <2>2, HandlerEnds DEF HandlerOk
  <2>4. fate'[j] = "acked" /\ \A k \in Jobs \ {j} : fate'[k] = fate[k]
    BY <1>0, <1>2, <2>1 DEF HandlerOk, Settle, TypeOK, QueueTypeOK
  <2>5. StageOf(j) = "running" /\ StageOf(j)' = "acked"
    BY <2>3, <2>4 DEF StageOf
  <2>6. \A k \in Jobs \ {j} : StageOf(k)' = StageOf(k)
    BY <1>2, <2>3, <2>4, StageKept DEF HandlerOk
  <2>7. Lifecycle!Succeed(j)
    BY <1>2, <2>5, <2>6, StageMoves DEF Lifecycle!Succeed, HandlerOk
  <2>8. QED
    BY <2>7 DEF Lifecycle!Next
<1>3. CASE HandlerErr(t)
  <2>1. PICK j \in Jobs : j = call[t].job
    BY <1>0, <1>3 DEF HandlerErr, At, TypeOK, QueueTypeOK, HoldPCs
  <2>2. call'[t].pc # "handling"
    BY <1>0, <1>3 DEF HandlerErr, Goto, Call, TypeOK, QueueTypeOK
  <2>3. /\ Running(j) /\ ~ Running(j)' /\ fate[j] = "live"
        /\ \A k \in Jobs \ {j}, u \in Tasks : RunningBy(u, k)' <=> RunningBy(u, k)
    BY <1>0, <1>3, <2>1, <2>2, HandlerEnds DEF HandlerErr
  <2>4. failures' = [failures EXCEPT ![j] = @ + 1]
    BY <1>3, <2>1 DEF HandlerErr
  <2>5. failures'[j] = failures[j] + 1 /\ \A k \in Jobs \ {j} : failures'[k] = failures[k]
    BY <1>0, <2>4 DEF TypeOK, QueueTypeOK
  <2>6. StageOf(j) = "running"
    BY <2>3 DEF StageOf
  <2>7. StageOf(j)' = IF failures[j] + 1 = MaxAttempts THEN "dead" ELSE "queued"
    BY <1>3, <2>3, <2>5 DEF StageOf, HandlerErr
  <2>8. \A k \in Jobs \ {j} : StageOf(k)' = StageOf(k)
    BY <1>3, <2>3, <2>5, StageKept DEF HandlerErr
  <2>9. Lifecycle!To(j, "running", IF failures[j] + 1 = MaxAttempts THEN "dead" ELSE "queued")
    BY <2>6, <2>7, <2>8 DEF Lifecycle!To
  <2>10. Lifecycle!Fail(j)
    BY <1>3, <2>4, <2>9 DEF Lifecycle!Fail, HandlerErr
  <2>11. QED
    BY <2>10 DEF Lifecycle!Next
<1>4. CASE NackGone(t)
  <2>1. PICK j \in Jobs : j = call[t].job /\ Holds(t, j) /\ fate[j] = "live" /\ Work(t, j)
    BY <1>0, <1>4, HeldJob DEF Strong, NackGone, At, HoldPCs
  <2>2. j \in raced /\ call[t].pc # "handling"
    BY <1>4, <2>1 DEF NackGone, At, Work
  <2>3. call'[t].pc # "handling"
    BY <1>0, <1>4 DEF NackGone, Return, Idle, Call, TypeOK, QueueTypeOK
  <2>4. Lifecycle!Next
    BY <1>0, <1>1, <1>4, <2>1, <2>2, <2>3, LoseImplements DEF NackGone
  <2>5. QED
    BY <2>4
<1>5. CASE Ack(t) \/ RetryRemove(t) \/ RetrySet(t) \/ RetryDelay(t) \/ MoveToDlq(t)
  <2>1. call[t].pc # "handling" /\ call'[t].pc # "handling" /\ UNCHANGED history
    <3> USE DEF At, Goto, Return, Idle, Call, TypeOK, QueueTypeOK
    <3>1. CASE AckRemove(t) \/ AckDelete(t)
      BY <1>0, <3>1 DEF AckRemove, AckDelete
    <3>2. CASE RetryRemove(t) \/ RetrySet(t) \/ RetryDelay(t)
      BY <1>0, <3>2 DEF RetryRemove, RetrySet, RetryDelay
    <3>3. CASE DlqRemove(t) \/ DlqPush(t) \/ DlqDelete(t)
      BY <1>0, <3>3 DEF DlqRemove, DlqPush, DlqDelete
    <3>4. QED
      BY <1>5, <3>1, <3>2, <3>3 DEF Ack, MoveToDlq
  <2>2. QED
    BY <1>1, <2>1, QuietStep
<1>6. CASE NackGet(t)
  <2>1. call[t].pc # "handling" /\ UNCHANGED history
    BY <1>6 DEF NackGet, At
  <2>2. call'[t].pc # "handling"
    BY <1>0, <1>6 DEF NackGet, Call, TypeOK, QueueTypeOK
  <2>3. QED
    BY <1>1, <2>1, <2>2, QuietStep
<1>7. QED
  BY <1>2, <1>3, <1>4, <1>5, <1>6 DEF TaskStep, Nack

LEMMA UnsubscribeImplements ==
  ASSUME Strong, NEW p \in Pollers, Unsubscribe(p)
  PROVE  [Lifecycle!Next]_(Lifecycle!vars)
<1>0. /\ TypeOK /\ p \in Callers /\ p \in Callers \ Tasks /\ call[p].pc \in LoopPCs
      /\ \A d \in Callers \ {p} : call'[d] = call[d]
  BY Apart DEF Strong, LoopsLoop, Unsubscribe, Return, TypeOK, QueueTypeOK
<1>1. \A t \in Tasks, k \in Jobs : RunningBy(t, k)' <=> RunningBy(t, k)
  BY <1>0, NoTask
<1>2. CASE \A j \in Jobs : ~ Holds(p, j)
  <2>1. \A j \in Jobs : fate'[j] = fate[j]
    BY <1>2 DEF Unsubscribe
  <2>2. \A j \in Jobs : StageOf(j)' = StageOf(j)
    BY <1>1, <2>1, StageKept DEF Unsubscribe
  <2>3. QED
    BY <2>2, StagesKept DEF Unsubscribe
<1>3. ASSUME NEW j \in Jobs, Holds(p, j)
      PROVE  [Lifecycle!Next]_(Lifecycle!vars)
  <2>1. call[p].pc \in FreshPCs /\ call[p].pc # "handling" /\ call[p].pc \in HoldPCs
    BY <1>0, <1>3 DEF Holds, LoopPCs, HoldPCs, FreshPCs
  <2>2. fate[j] = "live" /\ Work(p, j)
    BY <1>0, <1>3, <2>1, HeldJob DEF Strong, Holds
  <2>3. failures[j] < MaxAttempts
    BY <1>3, <2>1, <2>2 DEF Work, Holds, Fresh
  <2>4. StageOf(j) = "queued"
    <3>1. ~ Running(j)
      BY <1>0, <1>3, <2>1, NotRunning
    <3>2. failures[j] # MaxAttempts
      BY <1>0, <2>3, MaxAttemptsAssumption DEF TypeOK, QueueTypeOK
    <3>3. QED
      BY <2>2, <3>1, <3>2 DEF StageOf
  <2>5. fate'[j] = "stranded" /\ \A k \in Jobs \ {j} : fate'[k] = fate[k]
    BY <1>3 DEF Unsubscribe, Holds
  <2>6. StageOf(j)' = "stranded"
    BY <2>5 DEF StageOf
  <2>7. \A k \in Jobs \ {j} : StageOf(k)' = StageOf(k)
    BY <1>1, <2>5, StageKept DEF Unsubscribe
  <2>8. Lifecycle!Strand(j)
    BY <2>4, <2>6, <2>7, StageMoves DEF Lifecycle!Strand, Unsubscribe
  <2>9. QED
    BY <2>8 DEF Lifecycle!Next
<1>4. QED
  BY <1>2, <1>3

LEMMA NextImplements ==
  ASSUME IsFiniteSet(Tasks)
  PROVE  Strong /\ [Next]_vars => [Lifecycle!Next]_(Lifecycle!vars)
<1> SUFFICES ASSUME Strong, [Next]_vars
             PROVE  [Lifecycle!Next]_(Lifecycle!vars)
  OBVIOUS
<1>1. ASSUME UNCHANGED <<call, history>>
      PROVE  [Lifecycle!Next]_(Lifecycle!vars)
  BY <1>1, QuietStep DEF RunningBy, At
<1>2. ASSUME NEW j \in Jobs, BecomeDue(j)
      PROVE  UNCHANGED <<call, history>>
  BY <1>2 DEF BecomeDue
<1>3. ASSUME NEW p \in Pollers, Subscribe(p)
      PROVE  UNCHANGED <<call, history>>
  BY <1>3 DEF Subscribe, queueVars
<1>4. CASE UNCHANGED vars
  BY <1>1, <1>4 DEF vars, queueVars
<1>5. QED
  BY <1>1, <1>2, <1>3, <1>4, ClientImplements, LoopImplements, TaskImplements,
     UnsubscribeImplements DEF Next

LEMMA InitImplements == Init => Lifecycle!Init
  BY DEF Init, QueueInit, Lifecycle!Init, StageOf

(***************************************************************************)
(* Every behaviour of the queue is, seen through the stages of its jobs, a *)
(* behaviour of JobLifecycle.                                              *)
(***************************************************************************)
THEOREM Implements ==
  ASSUME IsFiniteSet(Tasks)
  PROVE  Spec => ImplementsLifecycle
<1>1. Init => Lifecycle!Init
  BY InitImplements
<1>2. Strong /\ [Next]_vars => [Lifecycle!Next]_(Lifecycle!vars)
  BY NextImplements
<1>3. QED
  BY <1>1, <1>2, StrongInvariance, PTL DEF Spec, ImplementsLifecycle, Lifecycle!Spec

-----------------------------------------------------------------------------
(***************************************************************************)
(* The active list of one job: it has an entry for each caller that works  *)
(* on the job, who will remove it, and any more of them are excused.       *)
(***************************************************************************)
Owns(c, j) == call[c].job = j /\ call[c].pc \in ActivePCs
Owners(j) == {c \in Callers : Owns(c, j)}
Excused(j) == fate[j] = "lost" \/ \E p \in Pollers : subs[p] = "off"

Accounted(j) ==
  /\ IsFiniteSet(Owners(j))
  /\ active[j] >= Cardinality(Owners(j))
  /\ active[j] > Cardinality(Owners(j)) => Excused(j)

\* What caller c may do: nothing that counts, add its entry, remove it, or leave
\* it behind with an excuse.
Answers(c, j) ==
  \/ (Owns(c, j)' <=> Owns(c, j)) /\ active'[j] = active[j]
  \/ ~ Owns(c, j) /\ Owns(c, j)' /\ active'[j] = active[j] + 1
  \/ Owns(c, j) /\ ~ Owns(c, j)' /\ active'[j] = IF active[j] > 0 THEN active[j] - 1 ELSE active[j]
  \/ Owns(c, j) /\ ~ Owns(c, j)' /\ active'[j] = active[j] /\ Excused(j)'

LEMMA AnswersCount ==
  ASSUME NEW j \in Jobs, active[j] \in Nat, Accounted(j), NEW c \in Callers, Answers(c, j),
         \A d \in Callers \ {c} : Owns(d, j)' <=> Owns(d, j),
         Excused(j) => Excused(j)'
  PROVE  Accounted(j)'
<1> DEFINE n == Cardinality(Owners(j))
<1>1. IsFiniteSet(Owners(j)) /\ n \in Nat /\ active[j] >= n /\ (active[j] > n => Excused(j))
  BY FS_CardinalityType DEF Accounted
<1>2. CASE (Owns(c, j)' <=> Owns(c, j)) /\ active'[j] = active[j]
  <2>1. Owners(j)' = Owners(j)
    BY <1>2 DEF Owners
  <2>2. QED
    BY <1>1, <1>2, <2>1 DEF Accounted
<1>3. CASE ~ Owns(c, j) /\ Owns(c, j)' /\ active'[j] = active[j] + 1
  <2>1. Owners(j)' = Owners(j) \cup {c} /\ c \notin Owners(j)
    BY <1>3 DEF Owners
  <2>2. IsFiniteSet(Owners(j)') /\ Cardinality(Owners(j)') = n + 1
    BY <1>1, <2>1, FS_AddElement
  <2>3. QED
    BY <1>1, <1>3, <2>2 DEF Accounted
<1>4. CASE Owns(c, j) /\ ~ Owns(c, j)'
  <2>1. Owners(j)' = Owners(j) \ {c} /\ c \in Owners(j)
    BY <1>4 DEF Owners
  <2>2. IsFiniteSet(Owners(j)') /\ Cardinality(Owners(j)') = n - 1
    BY <1>1, <2>1, FS_RemoveElement
  <2>3. n # 0
    BY <1>1, <2>1, FS_EmptySet
  <2>4. \/ active'[j] = active[j] - 1
        \/ active'[j] = active[j] /\ Excused(j)'
    BY <1>1, <1>4, <2>3 DEF Answers
  <2>5. QED
    BY <1>1, <2>2, <2>3, <2>4 DEF Accounted
<1>5. QED
  BY <1>2, <1>3, <1>4 DEF Answers

\* A caller goes on from one pc to another; the methods of the queue.
LEMMA GoesOn ==
  ASSUME QueueTypeOK, NEW j \in Jobs, NEW c \in Callers, NEW pc, NEW i, NEW n,
         call' = [call EXCEPT ![c] = Call(pc, i, n)]
  PROVE  /\ \A d \in Callers \ {c} : Owns(d, j)' <=> Owns(d, j)
         /\ Owns(c, j)' <=> i = j /\ pc \in ActivePCs
  BY DEF QueueTypeOK, Owns, Call

\* Neither the pc it leaves nor the one it comes to owns an entry.
LEMMA Bystands ==
  ASSUME QueueTypeOK, NEW j \in Jobs, NEW c \in Callers, NEW pc, NEW i, NEW n,
         call' = [call EXCEPT ![c] = Call(pc, i, n)],
         call[c].pc \notin ActivePCs, pc \notin ActivePCs, UNCHANGED active
  PROVE  Answers(c, j) /\ \A d \in Callers \ {c} : Owns(d, j)' <=> Owns(d, j)
<1>1. ~ Owns(c, j) /\ ~ Owns(c, j)'
  BY GoesOn DEF Owns
<1>2. QED
  BY <1>1, GoesOn DEF Answers

\* It works on with the same job.
LEMMA WorksOn ==
  ASSUME QueueTypeOK, NEW j \in Jobs, NEW c \in Callers, NEW pc, NEW n,
         call' = [call EXCEPT ![c] = Call(pc, call[c].job, n)],
         call[c].pc \in ActivePCs, pc \in ActivePCs, UNCHANGED active
  PROVE  Answers(c, j) /\ \A d \in Callers \ {c} : Owns(d, j)' <=> Owns(d, j)
<1>1. Owns(c, j)' <=> Owns(c, j)
  BY DEF QueueTypeOK, Owns, Call
<1>2. QED
  BY <1>1, GoesOn DEF Answers

\* It removes the entry of its job.
LEMMA Removes ==
  ASSUME QueueTypeOK, NEW j \in Jobs, NEW c \in Callers, NEW pc, NEW i, NEW n,
         call' = [call EXCEPT ![c] = Call(pc, i, n)],
         call[c].pc \in ActivePCs, pc \notin ActivePCs, LRemActive(call[c].job)
  PROVE  Answers(c, j) /\ \A d \in Callers \ {c} : Owns(d, j)' <=> Owns(d, j)
<1>1. ~ Owns(c, j)'
  BY GoesOn
<1>2. CASE call[c].job = j
  <2>1. Owns(c, j) /\ active'[j] = IF active[j] > 0 THEN active[j] - 1 ELSE active[j]
    BY <1>2 DEF Owns, LRemActive, QueueTypeOK
  <2>2. QED
    BY <1>1, <2>1, GoesOn DEF Answers
<1>3. CASE call[c].job # j
  <2>1. ~ Owns(c, j) /\ active'[j] = active[j]
    BY <1>3 DEF Owns, LRemActive, QueueTypeOK
  <2>2. QED
    BY <1>1, <2>1, GoesOn DEF Answers
<1>4. QED
  BY <1>2, <1>3

LEMMA ClientAnswers ==
  ASSUME QueueTypeOK, NEW j \in Jobs, NEW c \in Clients, ClientStep(c)
  PROVE  Answers(c, j) /\ \A d \in Callers \ {c} : Owns(d, j)' <=> Owns(d, j)
<1>0. c \in Callers
  BY DEF Callers
<1> USE <1>0 DEF At, Begin, Goto, Return, Idle, ActivePCs
<1>1. ASSUME NEW i \in Jobs, NEW pc \in {"push.list", "push.delay"}, PushRecord(c, i, pc)
      PROVE  Answers(c, j) /\ \A d \in Callers \ {c} : Owns(d, j)' <=> Owns(d, j)
  BY <1>1, Bystands DEF PushRecord
<1>2. CASE PushList(c) \/ PushDelay(c)
  BY <1>2, Bystands DEF PushList, PushDelay
<1>3. ASSUME NEW i \in Jobs, RedriveTake(c, i) \/ DiscardTake(c, i)
      PROVE  Answers(c, j) /\ \A d \in Callers \ {c} : Owns(d, j)' <=> Owns(d, j)
  BY <1>3, Bystands DEF RedriveTake, DiscardTake
<1>4. CASE RedriveSet(c) \/ DiscardDelete(c)
  BY <1>4, Bystands DEF RedriveSet, DiscardDelete
<1>5. QED
  BY <1>1, <1>2, <1>3, <1>4 DEF ClientStep

LEMMA AckNackAnswers ==
  ASSUME QueueTypeOK, NEW j \in Jobs, NEW c \in Callers, Ack(c) \/ Nack(c)
  PROVE  Answers(c, j) /\ \A d \in Callers \ {c} : Owns(d, j)' <=> Owns(d, j)
<1> USE DEF At, Goto, Return, Idle, ActivePCs, store
<1>1. CASE AckRemove(c) \/ RetryRemove(c) \/ DlqRemove(c)
  BY <1>1, Removes DEF AckRemove, RetryRemove, DlqRemove
<1>2. CASE NackGone(c)
  BY <1>2, Removes DEF NackGone
<1>3. CASE AckDelete(c) \/ DlqPush(c) \/ DlqDelete(c)
  BY <1>3, Bystands DEF AckDelete, DlqPush, DlqDelete
<1>4. CASE RetrySet(c) \/ RetryDelay(c)
  BY <1>4, Bystands DEF RetrySet, RetryDelay
<1>5. CASE NackGet(c)
  <2>1. PICK pc \in {"nack.gone", "dlq.lrem", "retry.lrem"} :
          \E n : call' = [call EXCEPT ![c] = Call(pc, call[c].job, n)]
    BY <1>5 DEF NackGet
  <2>2. PICK n : call' = [call EXCEPT ![c] = Call(pc, call[c].job, n)]
    BY <2>1
  <2>3. QED
    BY <1>5, <2>1, <2>2, WorksOn DEF NackGet
<1>6. QED
  BY <1>1, <1>2, <1>3, <1>4, <1>5 DEF Ack, Nack, MoveToDlq

LEMMA LoopAnswers ==
  ASSUME QueueTypeOK, NEW j \in Jobs, NEW p \in Pollers,
         Move(p) \/ PopEmpty(p, "idle") \/ PopTake(p) \/ PopActivate(p) \/ PopRead(p)
         \/ PopGhost(p, "idle") \/ RequeuePush(p) \/ RequeueRemove(p)
  PROVE  Answers(p, j) /\ \A d \in Callers \ {p} : Owns(d, j)' <=> Owns(d, j)
<1>0. p \in Callers
  BY DEF Callers
<1> USE <1>0 DEF At, Begin, Goto, Return, Idle, ActivePCs, store
<1>1. CASE MoveBegin(p) \/ MoveList(p) \/ MoveEnd(p)
  BY <1>1, Bystands DEF MoveBegin, MoveList, MoveEnd
<1>2. ASSUME NEW i \in Jobs, MoveTake(p, i)
      PROVE  Answers(p, j) /\ \A d \in Callers \ {p} : Owns(d, j)' <=> Owns(d, j)
  BY <1>2, Bystands DEF MoveTake
<1>3. ASSUME NEW i \in Jobs, MoveSkip(p, i)
      PROVE  Answers(p, j) /\ \A d \in Callers \ {p} : Owns(d, j)' <=> Owns(d, j)
  BY <1>3 DEF MoveSkip, Answers, Owns
<1>4. CASE PopEmpty(p, "idle") \/ PopTake(p)
  BY <1>4, Bystands DEF PopEmpty, PopTake
<1>5. CASE PopActivate(p)
  <2>1. /\ \A d \in Callers \ {p} : Owns(d, j)' <=> Owns(d, j)
        /\ Owns(p, j)' <=> call[p].job = j
        /\ ~ Owns(p, j)
    BY <1>5 DEF PopActivate, Owns, QueueTypeOK, Call
  <2>2. active'[j] = IF call[p].job = j THEN active[j] + 1 ELSE active[j]
    BY <1>5 DEF PopActivate, LPushActive, QueueTypeOK
  <2>3. QED
    BY <2>1, <2>2 DEF Answers
<1>6. CASE PopRead(p)
  BY <1>6, WorksOn DEF PopRead
<1>7. CASE PopGhost(p, "idle")
  <2>1. /\ \A d \in Callers \ {p} : Owns(d, j)' <=> Owns(d, j)
        /\ ~ Owns(p, j)' /\ active'[j] = active[j]
        /\ Owns(p, j) <=> call[p].job = j
    BY <1>7, NoJobAssumption DEF PopGhost, Owns, QueueTypeOK, Call
  <2>2. call[p].job = j => Excused(j)'
    BY <1>7 DEF PopGhost, Settle, Excused, QueueTypeOK
  <2>3. QED
    BY <2>1, <2>2 DEF Answers
<1>8. CASE RequeuePush(p)
  BY <1>8, WorksOn DEF RequeuePush
<1>9. CASE RequeueRemove(p)
  BY <1>9, Removes DEF RequeueRemove
<1>10. QED
  BY <1>1, <1>2, <1>3, <1>4, <1>5, <1>6, <1>7, <1>8, <1>9 DEF Move

\* The task takes over the entry of the loop that spawned it.
LEMMA SpawnCounts ==
  ASSUME TypeOK, NEW j \in Jobs, Accounted(j), NEW p \in Pollers, NEW t \in TasksOf(p), Spawn(p, t),
         Excused(j) => Excused(j)'
  PROVE  Accounted(j)'
<1>1. t \in Callers /\ p \in Callers /\ p # t
  BY CallerAssumption DEF Callers, Tasks, TasksOf
<1>2. /\ ~ Owns(t, j) /\ ~ Owns(p, j)'
      /\ (Owns(t, j)' <=> Owns(p, j)) /\ active'[j] = active[j]
      /\ \A d \in Callers \ {p, t} : Owns(d, j)' <=> Owns(d, j)
  BY <1>1 DEF Spawn, TypeOK, QueueTypeOK, Owns, At, Call, ActivePCs, store
<1>3. CASE ~ Owns(p, j)
  <2>1. Owners(j)' = Owners(j)
    BY <1>1, <1>2, <1>3 DEF Owners
  <2>2. QED
    BY <1>2, <2>1 DEF Accounted
<1>4. CASE Owns(p, j)
  <2>1. Owners(j)' = (Owners(j) \ {p}) \cup {t} /\ p \in Owners(j) /\ t \notin Owners(j) \ {p}
    BY <1>1, <1>2, <1>4 DEF Owners
  <2>2. IsFiniteSet(Owners(j)) /\ Cardinality(Owners(j)) \in Nat
    BY FS_CardinalityType DEF Accounted
  <2>3. /\ IsFiniteSet(Owners(j) \ {p})
        /\ Cardinality(Owners(j) \ {p}) = Cardinality(Owners(j)) - 1
    BY <2>1, <2>2, FS_RemoveElement
  <2>4. /\ IsFiniteSet(Owners(j)')
        /\ Cardinality(Owners(j)') = (Cardinality(Owners(j)) - 1) + 1
    BY <2>1, <2>3, FS_AddElement
  <2>5. Cardinality(Owners(j)') = Cardinality(Owners(j))
    BY <2>2, <2>4
  <2>6. QED
    BY <1>2, <2>4, <2>5 DEF Accounted
<1>5. QED
  BY <1>3, <1>4

\* An excuse stays one: a lost job is in no place, and a loop that ended is ended.
LEMMA ExcusedKept ==
  ASSUME TypeOK, NEW j \in Jobs, Safe(j), [Next]_vars, Excused(j)
  PROVE  Excused(j)'
<1>1. CASE fate[j] = "lost"
  <2>1. fate'[j] = fate[j]
    BY <1>1, NextSound DEF Safe, Moves
  <2>2. QED
    BY <1>1, <2>1 DEF Excused
<1>2. ASSUME NEW p \in Pollers, subs[p] = "off"
      PROVE  subs'[p] = "off"
  <2>1. ASSUME NEW q \in Pollers, Subscribe(q) \/ Unsubscribe(q)
        PROVE  subs'[p] = "off"
    BY <1>2, <2>1 DEF Subscribe, Unsubscribe, TypeOK
  <2>2. QED
    BY <1>2, <2>1 DEF Next, LoopStep, TaskStep, vars
<1>3. QED
  BY <1>1, <1>2 DEF Excused

LEMMA NextAccounted ==
  ASSUME TypeOK, NEW j \in Jobs, Safe(j), Accounted(j), [Next]_vars
  PROVE  Accounted(j)'
<1>0. QueueTypeOK /\ active[j] \in Nat /\ (Excused(j) => Excused(j)')
  BY ExcusedKept DEF TypeOK, QueueTypeOK
<1>1. ASSUME NEW c \in Clients, ClientStep(c)
      PROVE  Accounted(j)'
  <2>1. c \in Callers
    BY DEF Callers
  <2>2. QED
    BY <1>0, <1>1, <2>1, ClientAnswers, AnswersCount
<1>2. ASSUME UNCHANGED <<active, call>>
      PROVE  Accounted(j)'
  <2>1. Owners(j)' = Owners(j)
    BY <1>2 DEF Owners, Owns
  <2>2. QED
    BY <1>0, <1>2, <2>1 DEF Accounted
<1>3. ASSUME NEW p \in Pollers, Unsubscribe(p)
      PROVE  Accounted(j)'
  <2>1. p \in Callers /\ call' = [call EXCEPT ![p] = Call("idle", NoJob, 0)] /\ UNCHANGED active
    BY <1>3 DEF Callers, Unsubscribe, Return, Idle, store
  <2>2. /\ \A d \in Callers \ {p} : Owns(d, j)' <=> Owns(d, j)
        /\ ~ Owns(p, j)'
    BY <1>0, <2>1 DEF ActivePCs, Owns, QueueTypeOK, Call
  <2>3. Excused(j)'
    BY <1>3 DEF Unsubscribe, Excused, TypeOK
  <2>4. Answers(p, j)
    BY <2>1, <2>2, <2>3 DEF Answers
  <2>5. QED
    BY <1>0, <2>1, <2>2, <2>4, AnswersCount
<1>4. ASSUME NEW p \in Pollers, LoopStep(p)
      PROVE  Accounted(j)'
  <2>1. p \in Callers
    BY DEF Callers
  <2>2. ASSUME NEW t \in TasksOf(p), Spawn(p, t)
        PROVE  Accounted(j)'
    BY <1>0, <2>2, SpawnCounts
  <2>3. CASE ~ \E t \in TasksOf(p) : Spawn(p, t)
    BY <1>0, <1>4, <2>1, <2>3, LoopAnswers, AnswersCount DEF LoopStep
  <2>4. QED
    BY <2>2, <2>3
<1>5. ASSUME NEW t \in Tasks, TaskStep(t)
      PROVE  Accounted(j)'
  <2>1. t \in Callers
    BY DEF Callers
  <2>2. CASE Ack(t) \/ Nack(t)
    BY <1>0, <2>1, <2>2, AckNackAnswers, AnswersCount
  <2>3. CASE HandlerOk(t) \/ HandlerErr(t)
    <3>1. Answers(t, j) /\ \A d \in Callers \ {t} : Owns(d, j)' <=> Owns(d, j)
      BY <1>0, <2>1, <2>3, WorksOn DEF HandlerOk, HandlerErr, At, Goto, ActivePCs, store
    <3>2. QED
      BY <1>0, <2>1, <3>1, AnswersCount
  <2>4. QED
    BY <1>5, <2>2, <2>3 DEF TaskStep
<1>6. QED
  BY <1>1, <1>2, <1>3, <1>4, <1>5 DEF Next, Subscribe, BecomeDue, vars, queueVars, store

(***************************************************************************)
(* The active list has an entry for each caller that works on a job, and   *)
(* no entry is left behind except for a lost job or by an aborted loop:    *)
(* requeue, ack, retry, dead letter and a vanished record each remove the  *)
(* one that their pop added.                                               *)
(***************************************************************************)
THEOREM ActiveExactHolds == Spec => []ActiveExact
<1>1. Init => \A j \in Jobs : Accounted(j)
  <2> SUFFICES ASSUME Init, NEW j \in Jobs
               PROVE  Accounted(j)
    OBVIOUS
  <2>1. Owners(j) = {}
    BY DEF Init, QueueInit, Owners, Owns, Idle, Call, ActivePCs
  <2>2. active[j] = 0
    BY DEF Init, QueueInit
  <2>3. QED
    BY <2>1, <2>2, FS_EmptySet DEF Accounted
<1>2. /\ TypeOK /\ AllSafe /\ (\A j \in Jobs : Accounted(j)) /\ [Next]_vars
      => (\A j \in Jobs : Accounted(j))'
  BY NextAccounted DEF AllSafe
<1>3. (\A j \in Jobs : Accounted(j)) => ActiveExact
  BY DEF Accounted, Owners, Owns, Excused, ActiveExact
<1>4. QED
  BY <1>1, <1>2, <1>3, Invariance, PTL DEF Spec

-----------------------------------------------------------------------------
(***************************************************************************)
(* A queue that restarts.  First what a step of the queue does to the      *)
(* record of a job, torn or not.  Modest: the attempts that are stored, or *)
(* that a caller is about to store, are below the limit.  Gone: the job    *)
(* has no record, is no dead letter, and no caller is past the read that   *)
(* would show this.                                                        *)
(***************************************************************************)
SpentPCs == HoldPCs \ {"move.list", "pop.activate", "pop.read"}

Modest(j) ==
  /\ record[j] < MaxAttempts
  /\ \A c \in Callers :
       call[c].job = j /\ call[c].pc \in {"retry.lrem", "retry.set"} =>
         call[c].tries < MaxAttempts

Gone(j) ==
  /\ record[j] = Absent
  /\ dlq[j] = 0
  /\ \A c \in Callers : call[c].job = j => call[c].pc \notin SpentPCs

\* Only a push gives a job that is gone a record.
Lasts(j) ==
  /\ Modest(j) => Modest(j)'
  /\ Gone(j) => Gone(j)' \/ (fate[j] = "new" /\ fate'[j] # "new")
  /\ fate'[j] = "new" => fate[j] = "new"

LEMMA StepLasts ==
  ASSUME QueueTypeOK, NEW j \in Jobs, NEW c \in Callers, NEW pc, NEW i, NEW n,
         call' = [call EXCEPT ![c] = Call(pc, i, n)],
         Modest(j) => record'[j] < MaxAttempts,
         Modest(j) /\ i = j /\ pc \in {"retry.lrem", "retry.set"} => n < MaxAttempts,
         Gone(j) => \/ record'[j] = Absent /\ dlq'[j] = 0 /\ (i = j => pc \notin SpentPCs)
                    \/ fate[j] = "new" /\ fate'[j] # "new",
         fate'[j] = "new" => fate[j] = "new"
  PROVE  Lasts(j)
<1>1. \A d \in Callers : call'[d] = IF d = c THEN Call(pc, i, n) ELSE call[d]
  BY DEF QueueTypeOK
<1>2. Modest(j) => Modest(j)'
  BY <1>1 DEF Modest, Call
<1>3. Gone(j) => Gone(j)' \/ (fate[j] = "new" /\ fate'[j] # "new")
  BY <1>1 DEF Gone, Call
<1>4. QED
  BY <1>2, <1>3 DEF Lasts

\* A step that leaves records, dead letters and calls alone.
LEMMA KeptLasts ==
  ASSUME NEW j \in Jobs, UNCHANGED <<call, record[j], dlq[j], fate[j]>>
  PROVE  Lasts(j)
  BY DEF Lasts, Modest, Gone

\* A step by which a caller that works on its job goes on with it.
LEMMA WorkLasts ==
  ASSUME QueueTypeOK, NEW j \in Jobs, NEW c \in Callers, NEW pc, NEW n,
         call' = [call EXCEPT ![c] = Call(pc, call[c].job, n)], call[c].pc \in SpentPCs,
         call[c].job # j => record'[j] = record[j] /\ dlq'[j] = dlq[j],
         Modest(j) /\ call[c].job = j => record'[j] < MaxAttempts,
         Modest(j) /\ call[c].job = j /\ pc \in {"retry.lrem", "retry.set"} => n < MaxAttempts,
         fate'[j] = "new" => fate[j] = "new"
  PROVE  Lasts(j)
  BY StepLasts DEF Gone, Modest

\* A step that at most deletes a record.
LEMMA ForgetLasts ==
  ASSUME QueueTypeOK, NEW j \in Jobs, NEW c \in Callers, NEW pc, NEW i, NEW n,
         call' = [call EXCEPT ![c] = Call(pc, i, n)], pc \notin SpentPCs,
         record'[j] = record[j] \/ record'[j] = Absent,
         dlq'[j] = dlq[j], fate'[j] = "new" => fate[j] = "new"
  PROVE  Lasts(j)
<1>1. Modest(j) => record'[j] < MaxAttempts
  BY MaxAttemptsAssumption DEF Modest, Absent
<1>2. Gone(j) => record'[j] = Absent /\ dlq'[j] = 0
  BY DEF Gone
<1>3. pc \notin {"retry.lrem", "retry.set"}
  BY DEF SpentPCs, HoldPCs
<1>4. QED
  BY <1>1, <1>2, <1>3, StepLasts

LEMMA ClientLasts ==
  ASSUME QueueTypeOK, NEW j \in Jobs, NEW c \in Clients, ClientStep(c)
  PROVE  Lasts(j)
<1>0. c \in Callers
  BY DEF Callers
<1>1. ASSUME NEW i \in Jobs, NEW pc \in {"push.list", "push.delay"}, PushRecord(c, i, pc)
      PROVE  Lasts(j)
  <2>1. /\ call' = [call EXCEPT ![c] = Call(pc, i, 0)] /\ pc \notin {"retry.lrem", "retry.set"}
        /\ record'[j] = (IF i = j THEN 0 ELSE record[j]) /\ UNCHANGED dlq
        /\ fate[i] = "new" /\ fate'[j] = (IF i = j THEN "live" ELSE fate[j])
    BY <1>1 DEF PushRecord, Begin, SetJob, Settle, QueueTypeOK
  <2>2. Modest(j) => record'[j] < MaxAttempts
    BY <2>1, MaxAttemptsAssumption DEF Modest
  <2>3. Gone(j) => \/ record'[j] = Absent /\ dlq'[j] = 0 /\ i # j
                   \/ fate[j] = "new" /\ fate'[j] # "new"
    BY <2>1 DEF Gone
  <2>4. QED
    BY <1>0, <2>1, <2>2, <2>3, StepLasts
<1>2. CASE PushList(c) \/ PushDelay(c)
  BY <1>0, <1>2, StepLasts
  DEF PushList, PushDelay, Return, Idle, Gone, Modest, SpentPCs, HoldPCs, history
<1>3. ASSUME NEW i \in Jobs, RedriveTake(c, i) \/ DiscardTake(c, i)
      PROVE  Lasts(j)
  <2>1. PICK pc \in {"redrive.set", "discard.delete"} : call' = [call EXCEPT ![c] = Call(pc, i, 0)]
    BY <1>3 DEF RedriveTake, DiscardTake, Begin
  <2>2. dlq[i] > 0 /\ (i # j => dlq'[j] = dlq[j]) /\ record' = record
    BY <1>3 DEF RedriveTake, DiscardTake, TakeDlq, QueueTypeOK
  <2>3. fate'[j] = "new" => fate[j] = "new"
    BY <1>3 DEF RedriveTake, DiscardTake, Settle, QueueTypeOK
  <2>4. Gone(j) => record'[j] = Absent /\ dlq'[j] = 0 /\ i # j
    BY <2>2 DEF Gone
  <2>5. Modest(j) => record'[j] < MaxAttempts
    BY <2>2 DEF Modest
  <2>6. QED
    BY <1>0, <2>1, <2>3, <2>4, <2>5, StepLasts
<1>4. CASE RedriveSet(c)
  <2>1. /\ call[c].pc = "redrive.set" /\ UNCHANGED <<dlq, fate>>
        /\ record' = [record EXCEPT ![call[c].job] = 0]
        /\ call' = [call EXCEPT ![c] = Call("push.list", call[c].job, call[c].tries)]
    BY <1>4 DEF RedriveSet, At, Goto, SetJob
  <2>2. /\ call[c].job # j => record'[j] = record[j]
        /\ call[c].job = j => record'[j] < MaxAttempts
    BY <2>1, MaxAttemptsAssumption DEF QueueTypeOK
  <2>3. call[c].pc \in SpentPCs
    BY <2>1 DEF SpentPCs, HoldPCs
  <2>4. QED
    BY <1>0, <2>1, <2>2, <2>3, WorkLasts
<1>5. CASE DiscardDelete(c)
  <2>1. /\ UNCHANGED <<dlq, fate>> /\ call' = [call EXCEPT ![c] = Call("idle", NoJob, 0)]
        /\ record'[j] = record[j] \/ record'[j] = Absent
    BY <1>5 DEF DiscardDelete, Return, Idle, DeleteJob, history, QueueTypeOK
  <2>2. QED
    BY <1>0, <2>1, ForgetLasts DEF SpentPCs, HoldPCs
<1>6. QED
  BY <1>1, <1>2, <1>3, <1>4, <1>5 DEF ClientStep

LEMMA LoopLasts ==
  ASSUME QueueTypeOK, NEW j \in Jobs, NEW p \in Pollers, LoopStep(p)
  PROVE  Lasts(j)
<1>0. p \in Callers
  BY DEF Callers
<1>1. CASE MoveBegin(p) \/ MoveList(p) \/ MoveEnd(p) \/ PopEmpty(p, "idle") \/ RequeueRemove(p)
  <2>1. PICK pc \in {"move", "poll", "idle"} : \E i, n : call' = [call EXCEPT ![p] = Call(pc, i, n)]
    BY <1>1 DEF MoveBegin, MoveList, MoveEnd, PopEmpty, RequeueRemove, Begin, Goto, Return, Idle
  <2>2. UNCHANGED <<record, dlq, fate>>
    BY <1>1 DEF MoveBegin, MoveList, MoveEnd, PopEmpty, RequeueRemove, store, history
  <2>3. QED
    BY <1>0, <2>1, <2>2, StepLasts DEF Gone, Modest, SpentPCs, HoldPCs
<1>2. ASSUME NEW i \in Jobs, MoveTake(p, i)
      PROVE  Lasts(j)
  BY <1>0, <1>2, StepLasts DEF MoveTake, Begin, Gone, Modest, SpentPCs, history
<1>3. ASSUME NEW i \in Jobs, MoveSkip(p, i)
      PROVE  Lasts(j)
  BY <1>3, KeptLasts DEF MoveSkip, store, history
<1>4. CASE PopTake(p) \/ PopActivate(p)
  <2>1. PICK pc \in {"pop.activate", "pop.read"} : \E i, n : call' = [call EXCEPT ![p] = Call(pc, i, n)]
    BY <1>4 DEF PopTake, PopActivate, Begin, Goto
  <2>2. UNCHANGED <<record, dlq, fate>>
    BY <1>4 DEF PopTake, PopActivate, history
  <2>3. QED
    BY <1>0, <2>1, <2>2, StepLasts DEF Gone, Modest, SpentPCs
<1>5. CASE PopRead(p)
  <2>1. UNCHANGED <<record, dlq, fate>> /\ record[call[p].job] # Absent
        /\ call' = [call EXCEPT ![p] = Call("popped", call[p].job, record[call[p].job])]
    BY <1>5 DEF PopRead, store, history
  <2>2. QED
    BY <1>0, <2>1, StepLasts DEF Gone, Modest
<1>6. CASE PopGhost(p, "idle")
  <2>1. UNCHANGED <<record, dlq>> /\ call' = [call EXCEPT ![p] = Call("idle", NoJob, 0)]
        /\ (fate'[j] = "new" => fate[j] = "new")
    BY <1>6 DEF PopGhost, Begin, Settle, store, QueueTypeOK
  <2>2. QED
    BY <1>0, <2>1, StepLasts DEF Gone, Modest, SpentPCs, HoldPCs
<1>7. ASSUME NEW t \in TasksOf(p), Spawn(p, t)
      PROVE  Lasts(j)
  <2>1. t \in Callers /\ t # p
    BY CallerAssumption DEF Callers, Tasks, TasksOf
  <2>2. \A d \in Callers : call'[d] = IF d = t THEN Call("handling", call[p].job, call[p].tries)
                                     ELSE IF d = p THEN Call("poll", NoJob, 0) ELSE call[d]
    BY <1>0, <1>7, <2>1 DEF Spawn, QueueTypeOK
  <2>3. UNCHANGED <<record, dlq, fate>> /\ call[p].pc = "popped"
    BY <1>7 DEF Spawn, store, history, At
  <2>4. Modest(j) => Modest(j)'
    BY <2>2, <2>3 DEF Modest, Call
  <2>5. Gone(j) => Gone(j)'
    BY <1>0, <2>2, <2>3 DEF Gone, Call, SpentPCs, HoldPCs
  <2>6. QED
    BY <2>3, <2>4, <2>5 DEF Lasts
<1>8. CASE RequeuePush(p)
  <2>1. UNCHANGED <<record, dlq, fate>>
        /\ call' = [call EXCEPT ![p] = Call("requeue.lrem", call[p].job, call[p].tries)]
    BY <1>8 DEF RequeuePush, Goto, history
  <2>2. QED
    BY <1>0, <2>1, StepLasts DEF Gone, Modest, SpentPCs, HoldPCs
<1>9. QED
  BY <1>1, <1>2, <1>3, <1>4, <1>5, <1>6, <1>7, <1>8 DEF LoopStep, Move

LEMMA AckNackLasts ==
  ASSUME QueueTypeOK, NEW j \in Jobs, NEW c \in Callers, Ack(c) \/ Nack(c)
  PROVE  Lasts(j)
<1>1. CASE AckRemove(c) \/ AckDelete(c) \/ DlqDelete(c)
  <2>1. PICK pc \in {"ack.delete", "idle"} : \E i, n : call' = [call EXCEPT ![c] = Call(pc, i, n)]
    BY <1>1 DEF AckRemove, AckDelete, DlqDelete, Goto, Return, Idle
  <2>2. UNCHANGED <<dlq, fate>> /\ (record'[j] = record[j] \/ record'[j] = Absent)
    BY <1>1 DEF AckRemove, AckDelete, DlqDelete, DeleteJob, history, QueueTypeOK
  <2>3. QED
    BY <2>1, <2>2, ForgetLasts DEF SpentPCs, HoldPCs
<1>2. CASE NackGet(c)
  <2>1. UNCHANGED <<record, dlq, fate>> /\ call[c].pc = "nack.get"
    BY <1>2 DEF NackGet, store, history, At
  <2>2. PICK pc : /\ call' = [call EXCEPT ![c] = Call(pc, call[c].job, record[call[c].job] + 1)]
                  /\ pc \in {"nack.gone", "dlq.lrem"} \/ ~ record[call[c].job] + 1 >= MaxAttempts
    BY <1>2 DEF NackGet, IncrementAttempts, IsExhausted
  <2>3. record[call[c].job] + 1 \in Int
    <3>1. call[c].job \in Jobs
      BY <2>1 DEF QueueTypeOK, HoldPCs
    <3>2. \A i \in Jobs : record[i] \in Int
      BY DEF QueueTypeOK, Absent
    <3>3. QED
      BY <3>1, <3>2
  <2>4. pc \in {"retry.lrem", "retry.set"} => record[call[c].job] + 1 < MaxAttempts
    BY <2>2, <2>3, MaxAttemptsAssumption
  <2>5. QED
    BY <2>1, <2>2, <2>4, WorkLasts DEF Modest, SpentPCs, HoldPCs
<1>3. CASE NackGone(c)
  <2>1. UNCHANGED <<record, dlq>> /\ call' = [call EXCEPT ![c] = Call("idle", NoJob, 0)]
        /\ (fate'[j] = "new" => fate[j] = "new")
    BY <1>3 DEF NackGone, Return, Idle, Settle, QueueTypeOK
  <2>2. QED
    BY <2>1, StepLasts DEF Gone, Modest, SpentPCs, HoldPCs
<1>4. CASE RetryRemove(c) \/ DlqRemove(c)
  <2>1. /\ UNCHANGED <<record, dlq, fate>>
        /\ call[c].pc \in {"retry.lrem", "dlq.lrem"}
        /\ call' = [call EXCEPT ![c] = Call(IF call[c].pc = "retry.lrem" THEN "retry.set" ELSE "dlq.push",
                                            call[c].job, call[c].tries)]
    BY <1>4 DEF RetryRemove, DlqRemove, At, Goto, history
  <2>2. QED
    BY <2>1, WorkLasts DEF Modest, SpentPCs, HoldPCs
<1>5. CASE RetrySet(c)
  <2>1. /\ call[c].pc = "retry.set" /\ UNCHANGED <<dlq, fate>>
        /\ record' = [record EXCEPT ![call[c].job] = call[c].tries]
        /\ call' = [call EXCEPT ![c] = Call("retry.delay", call[c].job, call[c].tries)]
    BY <1>5 DEF RetrySet, At, Goto, SetJob, history
  <2>2. QED
    BY <2>1, WorkLasts DEF Modest, SpentPCs, HoldPCs, QueueTypeOK
<1>6. CASE RetryDelay(c)
  BY <1>6, StepLasts DEF RetryDelay, Return, Idle, Gone, Modest, SpentPCs, HoldPCs, history
<1>7. CASE DlqPush(c)
  <2>1. /\ call[c].pc = "dlq.push" /\ UNCHANGED <<record, fate>>
        /\ call' = [call EXCEPT ![c] = Call("dlq.delete", call[c].job, call[c].tries)]
        /\ call[c].job # j => dlq'[j] = dlq[j]
    BY <1>7 DEF DlqPush, LPushDlq, At, Goto, history, QueueTypeOK
  <2>2. QED
    BY <2>1, WorkLasts DEF Modest, SpentPCs, HoldPCs
<1>8. QED
  BY <1>1, <1>2, <1>3, <1>4, <1>5, <1>6, <1>7 DEF Ack, Nack, MoveToDlq

LEMMA NextLasts ==
  ASSUME TypeOK, NEW j \in Jobs, [Next]_vars
  PROVE  Lasts(j)
<1>0. QueueTypeOK
  BY DEF TypeOK
<1>1. ASSUME NEW p \in Pollers, Unsubscribe(p)
      PROVE  Lasts(j)
  <2>1. /\ UNCHANGED <<record, dlq>> /\ call' = [call EXCEPT ![p] = Call("idle", NoJob, 0)]
        /\ fate'[j] = "new" => fate[j] = "new"
    BY <1>1 DEF Unsubscribe, Return, Idle, store
  <2>2. QED
    BY <1>0, <2>1, StepLasts DEF Gone, Modest, SpentPCs, HoldPCs, Callers
<1>2. ASSUME NEW t \in Tasks, HandlerOk(t) \/ HandlerErr(t)
      PROVE  Lasts(j)
  <2>1. /\ UNCHANGED <<record, dlq>> /\ call[t].pc = "handling"
        /\ call' = [call EXCEPT ![t] = Call(IF HandlerOk(t) THEN "ack.lrem" ELSE "nack.get",
                                            call[t].job, call[t].tries)]
    BY <1>2 DEF HandlerOk, HandlerErr, At, Goto, store
  <2>2. fate'[j] = "new" => fate[j] = "new"
    BY <1>2 DEF HandlerOk, HandlerErr, Settle, TypeOK, QueueTypeOK
  <2>3. QED
    BY <1>0, <2>1, <2>2, WorkLasts DEF Modest, SpentPCs, HoldPCs, Callers
<1>3. ASSUME NEW i \in Jobs, BecomeDue(i)
      PROVE  Lasts(j)
  BY <1>3, KeptLasts DEF BecomeDue, history
<1>4. ASSUME UNCHANGED queueVars
      PROVE  Lasts(j)
  BY <1>4, KeptLasts DEF queueVars, store, history
<1>5. ASSUME NEW t \in Tasks, Ack(t) \/ Nack(t)
      PROVE  Lasts(j)
  BY <1>0, <1>5, AckNackLasts DEF Callers
<1>6. QED
  BY <1>0, <1>1, <1>2, <1>3, <1>4, <1>5, ClientLasts, LoopLasts DEF Next, TaskStep, Subscribe, vars

-----------------------------------------------------------------------------
(***************************************************************************)
(* How often a restart finds a job.                                        *)
(***************************************************************************)
ListedIn(w, j) == \E i \in DOMAIN w : w[i] = j
OnceIn(w, j) == \A i, k \in DOMAIN w : w[i] = j /\ w[k] = j => i = k

LEMMA Occurrences ==
  ASSUME NEW w \in Seq(Jobs), NEW j
  PROVE  /\ Cardinality({i \in DOMAIN w : w[i] = j}) \in Nat
         /\ Cardinality({i \in DOMAIN w : w[i] = j}) = 0 <=> ~ ListedIn(w, j)
         /\ Cardinality({i \in DOMAIN w : w[i] = j}) = 1 <=> ListedIn(w, j) /\ OnceIn(w, j)
<1> DEFINE N == {i \in DOMAIN w : w[i] = j}
<1>1. IsFiniteSet(N)
  <2>1. IsFiniteSet(1..Len(w)) /\ N \in SUBSET (1..Len(w))
    BY FS_Interval
  <2>2. QED
    BY <2>1, FS_Subset
<1>2. Cardinality(N) \in Nat
  BY <1>1, FS_CardinalityType
<1>3. Cardinality(N) = 0 <=> N = {}
  BY <1>1, FS_EmptySet
<1>4. N = {} <=> ~ ListedIn(w, j)
  BY DEF ListedIn
<1>5. Cardinality(N) = 1 <=> \E x : N = {x}
  BY <1>1, FS_Singleton
<1>6. (\E x : N = {x}) <=> ListedIn(w, j) /\ OnceIn(w, j)
  <2>1. ASSUME NEW x, N = {x}
        PROVE  ListedIn(w, j) /\ OnceIn(w, j)
    BY <2>1 DEF ListedIn, OnceIn
  <2>2. ASSUME ListedIn(w, j), OnceIn(w, j)
        PROVE  \E x : N = {x}
    <3>1. PICK x \in DOMAIN w : w[x] = j
      BY <2>2 DEF ListedIn
    <3>2. N = {x}
      BY <2>2, <3>1 DEF OnceIn
    <3>3. QED
      BY <3>2
  <2>3. QED
    BY <2>1, <2>2
<1>7. QED
  BY <1>2, <1>3, <1>4, <1>5, <1>6

LEMMA FoundOnce ==
  ASSUME NEW w \in Seq(Jobs), NEW d, NEW q \in [Jobs -> Nat], NEW j \in Jobs
  PROVE  /\ Listings(w, d, q, j) \in Nat
         /\ Listings(w, d, q, j) = 0 <=> ~ ListedIn(w, j) /\ q[j] = 0 /\ d[j] = "none"
         /\ Listings(w, d, q, j) = 1 <=>
              \/ ListedIn(w, j) /\ OnceIn(w, j) /\ q[j] = 0 /\ d[j] = "none"
              \/ ~ ListedIn(w, j) /\ q[j] = 1 /\ d[j] = "none"
              \/ ~ ListedIn(w, j) /\ q[j] = 0 /\ d[j] # "none"
<1> DEFINE n == Cardinality({i \in DOMAIN w : w[i] = j})
<1>1. /\ n \in Nat
      /\ n = 0 <=> ~ ListedIn(w, j)
      /\ n = 1 <=> ListedIn(w, j) /\ OnceIn(w, j)
  BY Occurrences
<1>2. q[j] \in Nat
  OBVIOUS
<1>3. Listings(w, d, q, j) = n + q[j] + (IF d[j] = "none" THEN 0 ELSE 1)
  BY DEF Listings
<1> HIDE DEF n
<1>4. CASE d[j] = "none"
  BY <1>1, <1>2, <1>3, <1>4
<1>5. CASE d[j] # "none"
  BY <1>1, <1>2, <1>3, <1>5
<1>6. QED
  BY <1>4, <1>5

\* The due jobs of the files, or the records, in whatever order.
LEMMA OrdersOnce ==
  ASSUME IsFiniteSet(Jobs), NEW S \in SUBSET Jobs, NEW s \in Orders(S)
  PROVE  /\ s \in Seq(Jobs)
         /\ \A j \in Jobs : (ListedIn(s, j) <=> j \in S) /\ OnceIn(s, j)
<1>1. IsFiniteSet(S)
  BY FS_Subset
<1>2. Cardinality(S) \in Nat
  BY <1>1, FS_CardinalityType
<1>3. s \in [1..Cardinality(S) -> S] /\ \A x \in S : \E i \in DOMAIN s : s[i] = x
  BY DEF Orders
<1>4. s \in Seq(Jobs) /\ Len(s) = Cardinality(S)
  BY <1>2, <1>3
<1>5. s \in Surjection(1..Cardinality(S), S)
  BY <1>3 DEF Surjection
<1>6. IsFiniteSet(1..Cardinality(S)) /\ Cardinality(1..Cardinality(S)) = Cardinality(S)
  BY <1>2, FS_Interval
<1>7. s \in Injection(1..Cardinality(S), S)
  BY <1>5, <1>6, FS_Surjection
<1>8. \A i, k \in 1..Cardinality(S) : s[i] = s[k] => i = k
  BY <1>7 DEF Injection, IsInjective
<1>9. QED
  BY <1>3, <1>4, <1>8 DEF ListedIn, OnceIn

LEMMA Joined ==
  ASSUME NEW a \in Seq(Jobs), NEW b \in Seq(Jobs), NEW j
  PROVE  /\ a \o b \in Seq(Jobs)
         /\ ListedIn(a \o b, j) <=> ListedIn(a, j) \/ ListedIn(b, j)
         /\ OnceIn(a \o b, j) => OnceIn(a, j) /\ OnceIn(b, j)
         /\ OnceIn(a, j) /\ OnceIn(b, j) /\ ~ (ListedIn(a, j) /\ ListedIn(b, j)) => OnceIn(a \o b, j)
<1> DEFINE w == a \o b
<1>1. /\ w \in Seq(Jobs) /\ Len(w) = Len(a) + Len(b)
      /\ \A i \in 1..Len(a) : w[i] = a[i]
      /\ \A i \in 1..Len(b) : w[Len(a) + i] = b[i]
  OBVIOUS
<1> HIDE DEF w
<1>2. /\ Len(a) \in Nat /\ Len(b) \in Nat
      /\ DOMAIN w = 1..Len(w) /\ DOMAIN a = 1..Len(a) /\ DOMAIN b = 1..Len(b)
  BY <1>1
<1>3. \A i \in 1..Len(w) :
        \/ i \in 1..Len(a) /\ w[i] = a[i]
        \/ i - Len(a) \in 1..Len(b) /\ w[i] = b[i - Len(a)]
  <2> SUFFICES ASSUME NEW i \in 1..Len(w), i \notin 1..Len(a)
               PROVE  i - Len(a) \in 1..Len(b) /\ w[i] = b[i - Len(a)]
    BY <1>1
  <2>1. i - Len(a) \in 1..Len(b) /\ Len(a) + (i - Len(a)) = i
    BY <1>1, <1>2
  <2>2. QED
    BY <1>1, <2>1
<1>4. ListedIn(w, j) => ListedIn(a, j) \/ ListedIn(b, j)
  BY <1>2, <1>3 DEF ListedIn
<1>5. ASSUME NEW i \in 1..Len(a)
      PROVE  i \in 1..Len(w)
  BY <1>1, <1>2
<1>6. ASSUME NEW i \in 1..Len(b)
      PROVE  Len(a) + i \in 1..Len(w)
  BY <1>1, <1>2
<1>7. ListedIn(a, j) \/ ListedIn(b, j) => ListedIn(w, j)
  <2>1. ListedIn(a, j) => ListedIn(w, j)
    BY <1>1, <1>2, <1>5 DEF ListedIn
  <2>2. ASSUME NEW i \in 1..Len(b), b[i] = j
        PROVE  ListedIn(w, j)
    <3>1. w[Len(a) + i] = j
      BY <1>1, <2>2
    <3>2. QED
      BY <1>1, <1>6, <3>1 DEF ListedIn
  <2>3. QED
    BY <2>1, <2>2 DEF ListedIn
<1>8. OnceIn(w, j) => OnceIn(a, j) /\ OnceIn(b, j)
  <2> SUFFICES ASSUME OnceIn(w, j)
               PROVE  OnceIn(a, j) /\ OnceIn(b, j)
    OBVIOUS
  <2>1. OnceIn(a, j)
    BY <1>1, <1>2, <1>5 DEF OnceIn
  <2>2. ASSUME NEW i \in 1..Len(b), NEW k \in 1..Len(b), b[i] = j, b[k] = j
        PROVE  i = k
    <3>1. w[Len(a) + i] = j /\ w[Len(a) + k] = j
      BY <1>1, <2>2
    <3>2. Len(a) + i = Len(a) + k
      BY <1>2, <1>6, <2>2, <3>1 DEF OnceIn
    <3>3. QED
      BY <1>2, <3>2
  <2>3. QED
    BY <2>1, <2>2 DEF OnceIn
<1>9. ASSUME OnceIn(a, j), OnceIn(b, j), ~ (ListedIn(a, j) /\ ListedIn(b, j)),
             NEW i \in 1..Len(w), NEW k \in 1..Len(w), w[i] = j, w[k] = j
      PROVE  i = k
  <2>1. CASE ListedIn(a, j)
    <3>1. i \in 1..Len(a) /\ k \in 1..Len(a) /\ a[i] = j /\ a[k] = j
      BY <1>3, <1>9, <2>1 DEF ListedIn
    <3>2. QED
      BY <1>9, <3>1 DEF OnceIn
  <2>2. CASE ~ ListedIn(a, j)
    <3>1. /\ i - Len(a) \in 1..Len(b) /\ k - Len(a) \in 1..Len(b)
          /\ b[i - Len(a)] = j /\ b[k - Len(a)] = j
      BY <1>3, <1>9, <2>2 DEF ListedIn
    <3>2. i - Len(a) = k - Len(a)
      BY <1>9, <3>1 DEF OnceIn
    <3>3. QED
      BY <1>2, <3>2
  <2>3. QED
    BY <2>1, <2>2
<1>10. OnceIn(a, j) /\ OnceIn(b, j) /\ ~ (ListedIn(a, j) /\ ListedIn(b, j)) => OnceIn(w, j)
  BY <1>1, <1>9 DEF OnceIn
<1>11. QED
  BY <1>1, <1>4, <1>7, <1>8, <1>10 DEF w

-----------------------------------------------------------------------------
(***************************************************************************)
(* The inductive invariant.  Of a job that no restart found torn all is    *)
(* known that the queue without restarts knows of it.  Of any job: what is *)
(* stored is below the limit, in memory and on disk; a job that was not    *)
(* pushed is unknown to the files; a buried one is gone from both.         *)
(***************************************************************************)
DiskTypeOK ==
  /\ disk \in [waiting : Seq(Jobs), active : [Jobs -> Nat], dlq : [Jobs -> Nat],
               delayed : [Jobs -> {"none", "later", "due"}],
               record : [Jobs -> Nat \cup {Absent}]]
  /\ torn \subseteq Jobs
  /\ buried \subseteq Jobs

Unknown(j) ==
  fate[j] = "new" => j \notin torn /\ record[j] = Absent /\ disk.record[j] = Absent

Buried(j) == Gone(j) /\ disk.record[j] = Absent /\ disk.dlq[j] = 0 /\ fate[j] # "new"

Restarted(j) ==
  /\ Modest(j) /\ disk.record[j] < MaxAttempts
  /\ Unknown(j)
  /\ j \in buried => Buried(j)
  /\ j \notin torn => Safe(j) /\ OnceIn(disk.waiting, j)

RestartInv == TypeOK /\ DiskTypeOK /\ \A j \in Jobs : Restarted(j)

LEMMA InitRestart == RestartInit => RestartInv
<1> SUFFICES ASSUME RestartInit
             PROVE  RestartInv
  OBVIOUS
<1>1. Init /\ TypeOK /\ AllSafe
  BY InitType, InitSafe DEF RestartInit
<1>2. DiskTypeOK
  BY <1>1 DEF DiskTypeOK, RestartInit, TypeOK, QueueTypeOK
<1>3. ASSUME NEW j \in Jobs
      PROVE  Restarted(j)
  <2>1. record[j] = Absent /\ disk.record[j] = Absent
    BY <1>1 DEF Init, QueueInit, RestartInit
  <2>2. \A c \in Callers : call[c].pc = "idle"
    BY <1>1 DEF Init, QueueInit, Idle, Call
  <2>3. Modest(j) /\ disk.record[j] < MaxAttempts
    BY <2>1, <2>2, MaxAttemptsAssumption DEF Modest, Absent
  <2>4. OnceIn(disk.waiting, j)
    BY DEF RestartInit, OnceIn
  <2>5. QED
    BY <1>1, <2>1, <2>3, <2>4 DEF Restarted, Unknown, RestartInit, AllSafe
<1>4. QED
  BY <1>1, <1>2, <1>3 DEF RestartInv

\* While the engine runs the queue's steps keep a job safe as they do without restarts.
LEMMA QueueStepRestart ==
  ASSUME RestartInv, QueueStep \/ UNCHANGED restartVars
  PROVE  RestartInv'
<1>1. TypeOK /\ DiskTypeOK /\ [Next]_vars /\ UNCHANGED <<disk, crashes, torn, buried>>
  BY DEF RestartInv, QueueStep, restartVars
<1>2. TypeOK' /\ DiskTypeOK'
  BY <1>1, NextType DEF DiskTypeOK
<1>3. ASSUME NEW j \in Jobs
      PROVE  Restarted(j)'
  <2>1. Restarted(j) /\ Lasts(j)
    BY <1>1, NextLasts DEF RestartInv
  <2>2. Modest(j)' /\ disk'.record[j] < MaxAttempts
    BY <1>1, <2>1 DEF Restarted, Lasts
  <2>3. j \in buried => Buried(j)'
    BY <1>1, <2>1 DEF Restarted, Buried, Lasts
  <2>4. j \notin torn => Safe(j)' /\ OnceIn(disk.waiting, j)'
    BY <1>1, <2>1, NextSafe DEF Restarted, OnceIn
  <2>5. Unknown(j)'
    <3> SUFFICES ASSUME fate'[j] = "new"
                 PROVE  j \notin torn' /\ record'[j] = Absent /\ disk'.record[j] = Absent
      BY DEF Unknown
    <3>1. fate[j] = "new" /\ j \notin torn /\ record[j] = Absent /\ disk.record[j] = Absent
      BY <2>1 DEF Lasts, Restarted, Unknown
    <3>2. Gone(j)
      <4>1. ~ Located(j)
        BY <2>1, <3>1 DEF Restarted, Safe
      <4>2. dlq[j] \in Nat
        BY <1>1 DEF TypeOK, QueueTypeOK
      <4>3. QED
        BY <3>1, <4>1, <4>2 DEF Gone, Located, Held, Holds, SpentPCs
    <3>3. Gone(j)'
      BY <2>1, <3>2 DEF Lasts
    <3>4. QED
      BY <1>1, <3>1, <3>3 DEF Gone
  <2>6. QED
    BY <1>1, <2>2, <2>3, <2>4, <2>5 DEF Restarted
<1>4. QED
  BY <1>2, <1>3 DEF RestartInv

\* What a save loop writes leaves what is said of the memory alone.
LEMMA SavedMemory ==
  ASSUME UNCHANGED vars, NEW j
  PROVE  /\ TypeOK => TypeOK'
         /\ Modest(j) => Modest(j)'
         /\ Gone(j) => Gone(j)'
         /\ Safe(j) => Safe(j)'
<1>1. TypeOK => TypeOK'
  BY DEF TypeOK, QueueTypeOK, vars, queueVars, store, history
<1>2. Modest(j) => Modest(j)'
  BY DEF Modest, vars, queueVars, store, history
<1>3. Gone(j) => Gone(j)'
  BY DEF Gone, vars, queueVars, store, history
<1>4. (Fresh(j)' <=> Fresh(j)) /\ (Held(j)' <=> Held(j)) /\ (Located(j)' <=> Located(j))
  BY DEF Fresh, Stored, Held, Holds, Located, InWaiting, vars, queueVars, store, history
<1>5. Alone(j, Live) => Alone(j, Live)'
  BY <1>4 DEF Alone, Once, InWaiting, Holds, vars, queueVars, store, history
<1>6. Count(j, Live) => Count(j, Live)'
  BY <1>4 DEF Count, Tally, Work, Deletes, Stored, vars, queueVars, store, history
<1>7. fate' = fate
  BY DEF vars, queueVars, history
<1>8. QED
  BY <1>1, <1>2, <1>3, <1>4, <1>5, <1>6, <1>7 DEF Safe, Sound

LEMMA SaveRestart ==
  ASSUME RestartInv, SaveLists \/ SaveDelayed \/ \E i \in Jobs : SaveRecord(i)
  PROVE  RestartInv'
<1>0. TypeOK /\ DiskTypeOK /\ QueueTypeOK /\ \A j \in Jobs : Restarted(j)
  BY DEF RestartInv, TypeOK
<1>1. UNCHANGED <<vars, crashes, torn>>
  BY DEF SaveLists, SaveDelayed, SaveRecord
<1>2. UNCHANGED <<fate, record, waiting, dlq>>
  BY <1>1 DEF vars, queueVars, store, history
<1>3. CASE SaveLists
  <2>1. disk' = [disk EXCEPT !.waiting = waiting, !.active = active, !.dlq = dlq] /\ buried' = buried
    BY <1>3 DEF SaveLists
  <2>2. DiskTypeOK'
    BY <1>0, <1>1, <2>1 DEF DiskTypeOK, QueueTypeOK
  <2>3. disk'.record = disk.record /\ disk'.waiting = waiting /\ disk'.dlq = dlq
    BY <1>0, <2>1 DEF DiskTypeOK
  <2>4. ASSUME NEW j \in Jobs
        PROVE  Restarted(j)'
    <3>1. j \notin torn => OnceIn(disk.waiting, j)'
      BY <1>0, <1>2, <2>3 DEF Restarted, Safe, Sound, Alone, Once, OnceIn
    <3>2. j \in buried => Buried(j)'
      BY <1>0, <1>1, <1>2, <2>3, SavedMemory DEF Restarted, Buried, Gone
    <3>3. Unknown(j)'
      BY <1>0, <1>1, <1>2, <2>3 DEF Restarted, Unknown
    <3>4. QED
      BY <1>0, <1>1, <2>1, <2>3, <3>1, <3>2, <3>3, SavedMemory DEF Restarted
  <2>5. QED
    BY <1>0, <1>1, <2>2, <2>4, SavedMemory DEF RestartInv
<1>4. CASE SaveDelayed
  <2>1. disk' = [disk EXCEPT !.delayed = delayed] /\ buried' = buried
    BY <1>4 DEF SaveDelayed
  <2>2. DiskTypeOK'
    BY <1>0, <1>1, <2>1 DEF DiskTypeOK, QueueTypeOK
  <2>3. disk'.record = disk.record /\ disk'.waiting = disk.waiting /\ disk'.dlq = disk.dlq
    BY <1>0, <2>1 DEF DiskTypeOK
  <2>4. ASSUME NEW j \in Jobs
        PROVE  Restarted(j)'
    BY <1>0, <1>1, <1>2, <2>1, <2>3, SavedMemory DEF Restarted, Buried, Unknown, OnceIn
  <2>5. QED
    BY <1>0, <1>1, <2>2, <2>4, SavedMemory DEF RestartInv
<1>5. ASSUME NEW i \in Jobs, SaveRecord(i)
      PROVE  RestartInv'
  <2>1. disk' = [disk EXCEPT !.record[i] = record[i]]
    BY <1>5 DEF SaveRecord
  <2>2. /\ disk'.waiting = disk.waiting /\ disk'.dlq = disk.dlq
        /\ \A j \in Jobs : disk'.record[j] = IF j = i THEN record[i] ELSE disk.record[j]
    BY <1>0, <2>1 DEF DiskTypeOK
  <2>3. buried' \subseteq Jobs
    BY <1>0, <1>5 DEF SaveRecord, DiskTypeOK
  <2>4. DiskTypeOK'
    BY <1>0, <1>1, <2>1, <2>3 DEF DiskTypeOK, QueueTypeOK
  <2>5. ASSUME NEW j \in Jobs
        PROVE  Restarted(j)'
    <3>1. Restarted(j) /\ Modest(j)' /\ disk'.record[j] < MaxAttempts
      BY <1>0, <1>1, <2>2, SavedMemory DEF Restarted, Modest
    <3>2. Unknown(j)'
      BY <1>1, <1>2, <2>2, <3>1 DEF Restarted, Unknown
    <3>3. j \notin torn => Safe(j)' /\ OnceIn(disk.waiting, j)'
      BY <1>1, <2>2, <3>1, SavedMemory DEF Restarted, OnceIn
    <3>4. ASSUME j \in buried
          PROVE  Buried(j)'
      BY <1>1, <1>2, <2>2, <3>1, <3>4, SavedMemory DEF Restarted, Buried, Gone
    <3>5. ASSUME j \in buried', j \notin buried
          PROVE  Buried(j)'
      <4>1. j = i /\ j \notin torn /\ record[j] = Absent /\ fate[j] \in {"acked", "discarded"}
            /\ disk.dlq[j] = 0
        BY <1>5, <3>5 DEF SaveRecord
      <4>2. ~ Located(j) /\ dlq[j] \in Nat
        BY <1>0, <3>1, <4>1 DEF Restarted, Safe, QueueTypeOK
      <4>3. Gone(j)
        BY <4>1, <4>2 DEF Gone, Located, Held, Holds, SpentPCs
      <4>4. QED
        BY <1>1, <1>2, <2>2, <4>1, <4>3, SavedMemory DEF Buried
    <3>6. QED
      BY <1>1, <3>1, <3>2, <3>3, <3>4, <3>5 DEF Restarted
  <2>6. QED
    BY <1>0, <1>1, <2>4, <2>5, SavedMemory DEF RestartInv
<1>6. QED
  BY <1>3, <1>4, <1>5

-----------------------------------------------------------------------------
(***************************************************************************)
(* The restart.                                                            *)
(***************************************************************************)
\* The lists and sorted sets of the files stay, and other jobs come before or after
\* them.
LEMMA RebuildKeeps ==
  ASSUME IsFiniteSet(Jobs), DiskTypeOK, NEW others, Rebuild(others)
  PROVE  /\ waiting' \in Seq(Jobs)
         /\ delayed' \in [Jobs -> {"none", "later", "due"}]
         /\ active' = disk.active /\ dlq' = disk.dlq
         /\ \A j \in Jobs : OnceIn(waiting', j) => OnceIn(disk.waiting, j)
<1>0. disk.waiting \in Seq(Jobs) /\ disk.delayed \in [Jobs -> {"none", "later", "due"}]
  BY DEF DiskTypeOK
<1>1. CASE LoadLists
  <2>1. PICK due \in SUBSET {j \in Jobs : disk.delayed[j] # "none"} :
          /\ \E s \in Orders(due) : waiting' = disk.waiting \o s
          /\ delayed' = [j \in Jobs |-> IF j \in due THEN "none" ELSE disk.delayed[j]]
    BY <1>1 DEF LoadLists
  <2>2. PICK s \in Orders(due) : waiting' = disk.waiting \o s
    BY <2>1
  <2>3. s \in Seq(Jobs)
    BY OrdersOnce
  <2>4. QED
    BY <1>0, <2>1, <2>2, <2>3, Joined DEF Rebuild
<1>2. CASE RebuildFromRecords
  <2>1. PICK later \in SUBSET Recorded :
          /\ \E s \in Orders(Recorded \ later) : waiting' = s \o disk.waiting
          /\ delayed' = [j \in Jobs |-> IF j \in later THEN "later" ELSE disk.delayed[j]]
    BY <1>2 DEF RebuildFromRecords
  <2>2. PICK s \in Orders(Recorded \ later) : waiting' = s \o disk.waiting
    BY <2>1
  <2>3. s \in Seq(Jobs)
    <3>1. Recorded \ later \in SUBSET Jobs
      BY DEF Recorded
    <3>2. QED
      BY <3>1, OrdersOnce
  <2>4. QED
    BY <1>0, <2>1, <2>2, <2>3, Joined DEF Rebuild
<1>3. QED
  BY <1>1, <1>2 DEF Rebuild

Found(j) == Listings(waiting', delayed', dlq', j)
FoundSound(j) == Found(j) = 1 /\ (dlq'[j] = 0 => record'[j] # Absent)

LEMMA CrashKeeps ==
  ASSUME IsFiniteSet(Jobs), RestartInv, Crash
  PROVE  /\ TypeOK' /\ DiskTypeOK'
         /\ dlq' = disk.dlq /\ record' = disk.record /\ UNCHANGED <<disk, buried>>
         /\ \A c \in Callers : call'[c].job = NoJob /\ call'[c].pc = "idle"
         /\ \A j \in Jobs :
              /\ Found(j) \in Nat
              /\ fate'[j] = IF Found(j) > 0 THEN "live"
                            ELSE IF fate[j] = "live" THEN "stranded" ELSE fate[j]
              /\ j \in torn' <=> IF Found(j) > 0 THEN ~ FoundSound(j) ELSE j \in torn
              /\ j \in raced /\ Found(j) = 0 => j \in raced'
              /\ failures'[j] = IF dlq'[j] > 0 THEN MaxAttempts
                                ELSE IF record'[j] = Absent THEN 0 ELSE record'[j]
              /\ OnceIn(waiting', j) => OnceIn(disk.waiting, j)
<1>1. TypeOK /\ DiskTypeOK /\ QueueTypeOK
  BY DEF RestartInv, TypeOK
<1>2. PICK others \in BOOLEAN : Rebuild(others)
  BY DEF Crash
<1>3. /\ waiting' \in Seq(Jobs)
      /\ delayed' \in [Jobs -> {"none", "later", "due"}]
      /\ active' = disk.active /\ dlq' = disk.dlq
      /\ \A j \in Jobs : OnceIn(waiting', j) => OnceIn(disk.waiting, j)
  BY <1>1, <1>2, RebuildKeeps
<1>4. /\ record' = disk.record
      /\ call' = [c \in Callers |-> Idle]
      /\ ready' = [p \in Pollers |-> {}]
      /\ subs' = [p \in Pollers |-> "new"]
      /\ fate' = [j \in Jobs |-> IF Found(j) > 0 THEN "live"
                                 ELSE IF fate[j] = "live" THEN "stranded" ELSE fate[j]]
      /\ torn' = {j \in Jobs : IF Found(j) > 0 THEN ~ FoundSound(j) ELSE j \in torn}
      /\ raced' = {j \in raced : Found(j) = 0}
      /\ failures' = [j \in Jobs |->
           IF dlq'[j] > 0 THEN MaxAttempts ELSE IF record'[j] = Absent THEN 0 ELSE record'[j]]
      /\ UNCHANGED <<disk, buried>>
  BY DEF Crash, Found, FoundSound
<1>5. /\ dlq' \in [Jobs -> Nat] /\ active' \in [Jobs -> Nat]
      /\ record' \in [Jobs -> Nat \cup {Absent}]
  BY <1>1, <1>3, <1>4 DEF DiskTypeOK
<1>6. \A j \in Jobs : Found(j) \in Nat
  BY <1>3, <1>5, FoundOnce DEF Found
<1>7. failures' \in [Jobs -> Nat]
  BY <1>4, <1>5, MaxAttemptsAssumption
<1>8. fate' \in [Jobs -> {"new", "live", "acked", "discarded", "lost", "stranded"}]
  BY <1>1, <1>4 DEF QueueTypeOK
<1>9. /\ call' \in [Callers -> [pc : MethodPCs, job : Jobs \cup {NoJob}, tries : Nat]]
      /\ \A c \in Callers : call'[c].job = NoJob /\ call'[c].pc = "idle"
  BY <1>4 DEF Idle, Call, MethodPCs
<1>10. \A c \in Callers : call'[c].pc \notin HoldPCs \cup ActivePCs
  BY <1>9 DEF HoldPCs, ActivePCs
<1>11. ready' \in [Pollers -> SUBSET Jobs] /\ subs' \in [Pollers -> {"new", "on", "off"}]
       /\ raced' \subseteq Jobs /\ torn' \subseteq Jobs
  BY <1>1, <1>4 DEF QueueTypeOK
<1>12. TypeOK'
  BY <1>3, <1>5, <1>7, <1>8, <1>9, <1>10, <1>11 DEF TypeOK, QueueTypeOK
<1>13. DiskTypeOK'
  BY <1>1, <1>4, <1>11 DEF DiskTypeOK
<1>14. QED
  BY <1>3, <1>4, <1>6, <1>9, <1>12, <1>13

\* What the restart makes of one job.
LEMMA CrashSafe ==
  ASSUME IsFiniteSet(Jobs), RestartInv, Crash, NEW j \in Jobs, j \notin torn'
  PROVE  Safe(j)' /\ OnceIn(disk.waiting, j)'
<1>0. /\ TypeOK' /\ Restarted(j)
      /\ waiting' \in Seq(Jobs) /\ dlq' \in [Jobs -> Nat] /\ DOMAIN waiting' = 1..Len(waiting')
      /\ dlq' = disk.dlq /\ record' = disk.record /\ disk' = disk
      /\ \A c \in Callers : call'[c].job = NoJob /\ call'[c].pc = "idle"
  BY CrashKeeps DEF RestartInv, TypeOK, QueueTypeOK
<1>1. /\ Found(j) \in Nat
      /\ fate'[j] = IF Found(j) > 0 THEN "live"
                    ELSE IF fate[j] = "live" THEN "stranded" ELSE fate[j]
      /\ IF Found(j) > 0 THEN FoundSound(j) ELSE j \notin torn
      /\ j \in raced /\ Found(j) = 0 => j \in raced'
      /\ failures'[j] = IF dlq'[j] > 0 THEN MaxAttempts
                        ELSE IF record'[j] = Absent THEN 0 ELSE record'[j]
      /\ OnceIn(waiting', j) => OnceIn(disk.waiting, j)
  BY CrashKeeps
<1>2. /\ Found(j) = 0 <=> ~ ListedIn(waiting', j) /\ dlq'[j] = 0 /\ delayed'[j] = "none"
      /\ Found(j) = 1 <=>
           \/ ListedIn(waiting', j) /\ OnceIn(waiting', j) /\ dlq'[j] = 0 /\ delayed'[j] = "none"
           \/ ~ ListedIn(waiting', j) /\ dlq'[j] = 1 /\ delayed'[j] = "none"
           \/ ~ ListedIn(waiting', j) /\ dlq'[j] = 0 /\ delayed'[j] # "none"
  <2>1. waiting' \in Seq(Jobs) /\ dlq' \in [Jobs -> Nat]
    BY <1>0
  <2>2. Found(j) = 0 <=> ~ ListedIn(waiting', j) /\ dlq'[j] = 0 /\ delayed'[j] = "none"
    BY <2>1, FoundOnce DEF Found
  <2>3. Found(j) = 1 <=>
          \/ ListedIn(waiting', j) /\ OnceIn(waiting', j) /\ dlq'[j] = 0 /\ delayed'[j] = "none"
          \/ ~ ListedIn(waiting', j) /\ dlq'[j] = 1 /\ delayed'[j] = "none"
          \/ ~ ListedIn(waiting', j) /\ dlq'[j] = 0 /\ delayed'[j] # "none"
    BY <2>1, FoundOnce DEF Found
  <2>4. QED
    BY <2>2, <2>3
<1>3. /\ InWaiting(j)' <=> ListedIn(waiting', j)
      /\ Once(j)' <=> OnceIn(waiting', j)
      /\ ~ ListedIn(waiting', j) => OnceIn(waiting', j)
  BY DEF InWaiting, ListedIn, Once, OnceIn
<1>4. \A c \in Callers : ~ Holds(c, j)' /\ Work(c, j)' /\ Deletes(c, j)'
  BY <1>0, NoJobAssumption DEF Holds, Work, Deletes
<1>5. ~ Held(j)'
  BY <1>4 DEF Held
<1>6. CASE Found(j) = 0
  <2>1. j \notin torn /\ Safe(j) /\ Unknown(j)
    BY <1>0, <1>1, <1>6 DEF Restarted
  <2>2. fate'[j] # "live" /\ fate'[j] = (IF fate[j] = "live" THEN "stranded" ELSE fate[j])
    BY <1>1, <1>6
  <2>3. ~ Located(j)'
    BY <1>2, <1>3, <1>5, <1>6 DEF Located
  <2>4. Alone(j, Live)'
    BY <1>2, <1>3, <1>4, <1>6, <2>3 DEF Alone
  <2>5. fate'[j] = "new" => failures'[j] = 0
    BY <1>0, <1>1, <1>2, <1>6, <2>1, <2>2 DEF Unknown
  <2>6. fate'[j] = "lost" => j \in raced'
    BY <1>1, <1>6, <2>1, <2>2 DEF Safe, Sound, Count, Tally
  <2>7. Tally(j, Live)'
    BY <1>2, <1>6, <2>2, <2>5, <2>6 DEF Tally, Live
  <2>8. QED
    BY <1>1, <1>2, <1>3, <1>4, <1>6, <2>2, <2>3, <2>4, <2>7, <1>0 DEF Safe, Sound, Count, Live, OnceIn
<1>7. CASE Found(j) > 0
  <2>1. Found(j) = 1 /\ (dlq'[j] = 0 => record'[j] # Absent) /\ fate'[j] = "live"
    BY <1>1, <1>7 DEF FoundSound
  <2>2. Located(j)'
    BY <1>2, <1>3, <2>1 DEF Located
  <2>3. OnceIn(waiting', j)
    BY <1>2, <1>3, <2>1
  <2>4. Alone(j, Live)'
    BY <1>2, <1>3, <1>4, <1>5, <2>1, <2>3 DEF Alone, Live
  <2>5. dlq'[j] > 0 => failures'[j] = MaxAttempts
    BY <1>1
  <2>6. dlq'[j] = 0 => failures'[j] = record'[j] /\ record'[j] < MaxAttempts
    BY <1>0, <1>1, <2>1 DEF Restarted
  <2>7. Tally(j, Live)'
    BY <1>0, <2>1, <2>5, <2>6 DEF Tally, Fresh, Stored
  <2>8. QED
    BY <1>0, <1>1, <1>4, <2>1, <2>2, <2>3, <2>4, <2>7 DEF Safe, Sound, Count
<1>8. QED
  BY <1>1, <1>6, <1>7

LEMMA CrashRestart ==
  ASSUME IsFiniteSet(Jobs), RestartInv, Crash
  PROVE  RestartInv'
<1>1. ASSUME NEW j \in Jobs
      PROVE  Restarted(j)'
  <2>0. /\ Restarted(j)
        /\ dlq' = disk.dlq /\ record' = disk.record /\ UNCHANGED <<disk, buried>>
        /\ \A c \in Callers : call'[c].job = NoJob /\ call'[c].pc = "idle"
        /\ Found(j) \in Nat
        /\ fate'[j] = IF Found(j) > 0 THEN "live"
                      ELSE IF fate[j] = "live" THEN "stranded" ELSE fate[j]
        /\ j \in torn' <=> IF Found(j) > 0 THEN ~ FoundSound(j) ELSE j \in torn
    BY CrashKeeps DEF RestartInv
  <2>1. Modest(j)' /\ disk'.record[j] < MaxAttempts
    BY <2>0 DEF Restarted, Modest
  <2>2. Unknown(j)'
    BY <2>0 DEF Restarted, Unknown
  <2>3. j \in buried => Buried(j)'
    BY <2>0, NoJobAssumption DEF Restarted, Buried, Gone
  <2>4. j \notin torn' => Safe(j)' /\ OnceIn(disk.waiting, j)'
    BY CrashSafe
  <2>5. QED
    BY <2>0, <2>1, <2>2, <2>3, <2>4 DEF Restarted
<1>2. QED
  BY <1>1, CrashKeeps DEF RestartInv

LEMMA RestartInvariance == ASSUME IsFiniteSet(Jobs) PROVE RestartSpec => []RestartInv
<1>1. RestartInv /\ [RestartNext]_restartVars => RestartInv'
  BY QueueStepRestart, SaveRestart, CrashRestart DEF RestartNext
<1>2. QED
  BY <1>1, InitRestart, PTL DEF RestartSpec

(***************************************************************************)
(* However often the engine crashes, between whatever two steps and with   *)
(* files however old: a job that a restart found once, with its record, or *)
(* that was pushed since, is in exactly one place until it is settled, and *)
(* only a redrive that overlaps move_to_dlq loses it.  Torn jobs beside it *)
(* do it no harm.                                                          *)
(***************************************************************************)
THEOREM SoundAfterRestartHolds ==
  ASSUME IsFiniteSet(Jobs) PROVE RestartSpec => []SoundAfterRestart
<1>1. RestartInv => SoundAfterRestart
  <2> SUFFICES ASSUME RestartInv, NEW j \in Jobs \ torn
               PROVE  /\ IF fate[j] = "live" THEN \E x \in Places(j) : Places(j) = {x}
                                             ELSE Places(j) = {}
                      /\ fate[j] = "lost" => j \in raced
    BY DEF SoundAfterRestart
  <2>1. TypeOK /\ Safe(j)
    BY DEF RestartInv, Restarted
  <2>2. fate[j] = "lost" => j \in raced
    BY <2>1 DEF Safe, Sound, Count, Tally
  <2>3. QED
    BY <2>1, <2>2, SafePlace
<1>2. QED
  BY <1>1, RestartInvariance, PTL

(***************************************************************************)
(* No handler starts on a job that was settled and whose record file is    *)
(* gone, whatever the older files of the lists bring back.                 *)
(***************************************************************************)
THEOREM BuriedStaysBuriedHolds ==
  ASSUME IsFiniteSet(Jobs) PROVE RestartSpec => []BuriedStaysBuried
<1>1. RestartInv => BuriedStaysBuried
  <2> SUFFICES ASSUME RestartInv, NEW t \in Tasks, At(t, "handling"), call[t].job \in buried
               PROVE  FALSE
    BY DEF BuriedStaysBuried
  <2>1. t \in Callers /\ call[t].job \in Jobs
    BY DEF Callers, RestartInv, DiskTypeOK
  <2>2. Gone(call[t].job)
    BY <2>1 DEF RestartInv, Restarted, Buried
  <2>3. QED
    BY <2>1, <2>2 DEF Gone, At, SpentPCs, HoldPCs
<1>2. QED
  BY <1>1, RestartInvariance, PTL

\* A job the files agree on is loaded from the lists, and found once.
LEMMA SavedIsFound ==
  ASSUME IsFiniteSet(Jobs), RestartInv, Crash, NEW j \in Jobs \ (torn \cup raced),
         Saved(j), fate[j] = "live", \A c \in Callers : ~ Holds(c, j)
  PROVE  FoundSound(j) /\ dlq'[j] = dlq[j] /\ (dlq[j] = 0 => record'[j] = record[j])
<1>1. /\ TypeOK /\ QueueTypeOK /\ DiskTypeOK /\ Safe(j) /\ OnceIn(disk.waiting, j)
      /\ dlq' = disk.dlq /\ record' = disk.record
  BY CrashKeeps DEF RestartInv, Restarted, TypeOK
<1>2. /\ Alone(j, Live) /\ ~ Held(j) /\ dlq[j] \in Nat
      /\ InWaiting(j) \/ delayed[j] # "none" \/ dlq[j] > 0
  BY <1>1 DEF Safe, Sound, Located, Held, QueueTypeOK
<1>3. /\ disk.record[j] = record[j] /\ disk.dlq[j] = dlq[j]
      /\ disk.delayed[j] = "none" <=> delayed[j] = "none"
      /\ ListedIn(disk.waiting, j) <=> InWaiting(j)
  BY DEF Saved, ListedIn
<1>4. PICK others \in BOOLEAN : Rebuild(others)
  BY DEF Crash
<1>5. HasQueueState(others)
  BY <1>2, <1>3 DEF HasQueueState, HasLists, ListedIn
<1>6. PICK due \in SUBSET {i \in Jobs : disk.delayed[i] # "none"} :
        /\ \E s \in Orders(due) : waiting' = disk.waiting \o s
        /\ delayed' = [i \in Jobs |-> IF i \in due THEN "none" ELSE disk.delayed[i]]
  BY <1>4, <1>5 DEF Rebuild, LoadLists
<1>7. PICK s \in Orders(due) : waiting' = disk.waiting \o s
  BY <1>6
<1>8. s \in Seq(Jobs) /\ (ListedIn(s, j) <=> j \in due) /\ OnceIn(s, j)
  BY OrdersOnce
<1>9. /\ waiting' \in Seq(Jobs)
      /\ ListedIn(waiting', j) <=> InWaiting(j) \/ j \in due
      /\ ~ (InWaiting(j) /\ j \in due) => OnceIn(waiting', j)
  BY <1>1, <1>3, <1>7, <1>8, Joined DEF DiskTypeOK
<1>10. /\ j \in due => delayed[j] # "none"
       /\ delayed'[j] = IF j \in due THEN "none" ELSE disk.delayed[j]
  BY <1>3, <1>6
<1>11. \/ ListedIn(waiting', j) /\ OnceIn(waiting', j) /\ dlq'[j] = 0 /\ delayed'[j] = "none"
       \/ ~ ListedIn(waiting', j) /\ dlq'[j] = 1 /\ delayed'[j] = "none"
       \/ ~ ListedIn(waiting', j) /\ dlq'[j] = 0 /\ delayed'[j] # "none"
  BY <1>1, <1>2, <1>3, <1>9, <1>10 DEF Alone
<1>12. dlq' \in [Jobs -> Nat]
  BY <1>1 DEF DiskTypeOK
<1>13. Found(j) = 1
  BY <1>9, <1>11, <1>12, FoundOnce DEF Found
<1>14. dlq[j] = 0 => record[j] # Absent
  <2>1. dlq[j] = 0 => Fresh(j)
    BY <1>1, <1>2 DEF Safe, Sound, Count, Tally, Live
  <2>2. failures[j] \in Nat
    BY <1>1 DEF QueueTypeOK
  <2>3. QED
    BY <2>1, <2>2 DEF Fresh, Stored, Absent
<1>15. QED
  BY <1>1, <1>3, <1>13, <1>14 DEF FoundSound

(***************************************************************************)
(* A crash keeps every job that is in a list and whose files agree with    *)
(* the memory, with its attempts, and as a dead letter or not.             *)
(***************************************************************************)
THEOREM RestartKeepsHolds ==
  ASSUME IsFiniteSet(Jobs) PROVE RestartSpec => RestartKeeps
<1> DEFINE Keeps ==
      Crash =>
        \A j \in Jobs \ (torn \cup raced) :
          Saved(j) /\ fate[j] = "live" /\ (\A c \in Callers : ~ Holds(c, j)) =>
            /\ j \notin torn'
            /\ fate'[j] = "live"
            /\ (dlq'[j] > 0) = (dlq[j] > 0)
            /\ dlq[j] = 0 => record'[j] = record[j]
<1>1. ASSUME RestartInv, Crash, NEW j \in Jobs \ (torn \cup raced),
             Saved(j), fate[j] = "live", \A c \in Callers : ~ Holds(c, j)
      PROVE  /\ j \notin torn'
             /\ fate'[j] = "live"
             /\ (dlq'[j] > 0) = (dlq[j] > 0)
             /\ dlq[j] = 0 => record'[j] = record[j]
  <2>1. FoundSound(j) /\ dlq'[j] = dlq[j] /\ (dlq[j] = 0 => record'[j] = record[j])
    BY <1>1, SavedIsFound
  <2>2. /\ fate'[j] = IF Found(j) > 0 THEN "live"
                      ELSE IF fate[j] = "live" THEN "stranded" ELSE fate[j]
        /\ j \in torn' <=> IF Found(j) > 0 THEN ~ FoundSound(j) ELSE j \in torn
    BY <1>1, CrashKeeps
  <2>3. Found(j) > 0
    BY <2>1 DEF FoundSound
  <2>4. QED
    BY <2>1, <2>2, <2>3
<1>2. RestartInv => [Keeps]_restartVars
  BY <1>1
<1>3. QED
  BY <1>2, RestartInvariance, PTL DEF RestartKeeps

=============================================================================
