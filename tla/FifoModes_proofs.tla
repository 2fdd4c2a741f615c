-------------------------- MODULE FifoModes_proofs --------------------------
(***************************************************************************)
(* Proofs about queues in FIFO mode, of either concurrency, for every set  *)
(* of jobs, groups, clients, loops and permits and every attempt limit.    *)
(***************************************************************************)
EXTENDS FifoModes, JobQueue_proofs, FiniteSetTheorems

-----------------------------------------------------------------------------
(***************************************************************************)
(* The steps of a FifoWorker, in terms of the methods as JobQueue and      *)
(* InlineRetry define them.                                                *)
(***************************************************************************)
Handle(p) ==
  /\ At(p, "popped")
  /\ Goto(p, "handling")
  /\ UNCHANGED <<store, ready, history>>

LEMMA PlainMove == ASSUME NEW p, Plain!Move(p) PROVE Move(p)
<1>1. Plain!MoveBegin(p) => MoveBegin(p)
  BY DEF Plain!MoveBegin, MoveBegin, Plain!At, At, Plain!Goto, Goto, Plain!Call, Call,
         Plain!store, store, Plain!history, history
<1>2. ASSUME NEW j PROVE (Plain!MoveTake(p, j) => MoveTake(p, j)) /\ (Plain!MoveSkip(p, j) => MoveSkip(p, j))
  BY DEF Plain!MoveTake, MoveTake, Plain!MoveSkip, MoveSkip, Plain!At, At, Plain!Begin, Begin,
         Plain!Call, Call, Plain!ZRem, ZRem, Plain!ZRemRemoves, ZRemRemoves,
         Plain!store, store, Plain!history, history
<1>3. Plain!MoveList(p) => MoveList(p)
  BY DEF Plain!MoveList, MoveList, Plain!At, At, Plain!Begin, Begin, Plain!Call, Call,
         Plain!RPush, RPush, Plain!history, history
<1>4. Plain!MoveEnd(p) => MoveEnd(p)
  BY DEF Plain!MoveEnd, MoveEnd, Plain!At, At, Plain!Goto, Goto, Plain!Call, Call,
         Plain!store, store, Plain!history, history
<1>5. QED
  BY <1>1, <1>2, <1>3, <1>4 DEF Plain!Move, Move

LEMMA PlainPop ==
  ASSUME NEW p,
         \/ Plain!PopEmpty(p, "idle") \/ Plain!PopTake(p) \/ Plain!PopActivate(p)
         \/ Plain!PopRead(p) \/ Plain!PopGhost(p, "idle")
  PROVE  PopEmpty(p, "idle") \/ PopTake(p) \/ PopActivate(p) \/ PopRead(p) \/ PopGhost(p, "idle")
  BY DEF Plain!PopEmpty, PopEmpty, Plain!PopTake, PopTake, Plain!PopActivate, PopActivate,
         Plain!PopRead, PopRead, Plain!PopGhost, PopGhost, Plain!At, At, Plain!Begin, Begin,
         Plain!Goto, Goto, Plain!Call, Call, Plain!Settle, Settle, Plain!RPop, RPop,
         Plain!LPushActive, LPushActive, Plain!Absent, Absent, Plain!store, store,
         Plain!history, history

LEMMA PlainProcess == ASSUME NEW p, Plain!Process(p) PROVE Process(p)
<1> USE DEF Plain!At, At, Plain!Goto, Goto, Plain!Return, Return, Plain!Idle, Idle, Plain!Call, Call,
            Plain!Settle, Settle, Plain!LRemActive, LRemActive, Plain!SetJob, SetJob,
            Plain!DeleteJob, DeleteJob, Plain!LPushDlq, LPushDlq, Plain!Absent, Absent,
            Plain!store, store, Plain!history, history
<1>1. Plain!HandlerOk(p) => HandlerOk(p)
  BY DEF Plain!HandlerOk, HandlerOk
<1>2. Plain!HandlerErr(p) => HandlerErr(p)
  BY DEF Plain!HandlerErr, HandlerErr, Plain!IncrementAttempts, IncrementAttempts,
         Plain!IsExhausted, IsExhausted
<1>3. Plain!RetryNow(p) => RetryNow(p)
  BY DEF Plain!RetryNow, RetryNow
<1>4. Plain!Ack(p) => Ack(p)
  BY DEF Plain!Ack, Ack, Plain!AckRemove, AckRemove, Plain!AckDelete, AckDelete
<1>5. Plain!MoveToDlq(p) => MoveToDlq(p)
  BY DEF Plain!MoveToDlq, MoveToDlq, Plain!DlqRemove, DlqRemove, Plain!DlqPush, DlqPush,
         Plain!DlqDelete, DlqDelete
<1>6. QED
  BY <1>1, <1>2, <1>3, <1>4, <1>5 DEF Plain!Process, Process

LEMMA PlainLoop ==
  ASSUME NEW p, Plain!LoopStep(p)
  PROVE  /\ \/ Move(p)
            \/ PopEmpty(p, "idle") \/ PopTake(p) \/ PopActivate(p) \/ PopRead(p) \/ PopGhost(p, "idle")
            \/ Handle(p)
            \/ Process(p)
         /\ subs[p] = "on" /\ UNCHANGED <<order, subs>>
<1>1. Plain!Handle(p) => Handle(p)
  BY DEF Plain!Handle, Handle, Plain!At, At, Plain!Goto, Goto, Plain!Call, Call,
         Plain!store, store, Plain!history, history
<1>2. QED
  BY <1>1, PlainMove, PlainPop, PlainProcess DEF Plain!LoopStep

LEMMA PlainUnsubscribe ==
  ASSUME NEW p, Plain!Unsubscribe(p)
  PROVE  /\ subs[p] = "on" /\ subs' = [subs EXCEPT ![p] = "off"]
         /\ Return(p) /\ ready' = [ready EXCEPT ![p] = {}]
         /\ fate' = [j \in Jobs |-> IF Holds(p, j) THEN "stranded" ELSE fate[j]]
         /\ UNCHANGED <<store, failures, raced, order>>
  BY DEF Plain!Unsubscribe, Plain!Return, Return, Plain!Idle, Idle, Plain!Call, Call,
         Plain!Holds, Holds, Plain!HoldPCs, HoldPCs, Plain!store, store

LEMMA PlainSubscribe ==
  ASSUME NEW p, Plain!Subscribe(p)
  PROVE  subs' = [subs EXCEPT ![p] = "on"] /\ UNCHANGED <<queueVars, order>>
  BY DEF Plain!Subscribe, Plain!queueVars, queueVars, Plain!store, store, Plain!history, history

-----------------------------------------------------------------------------
(***************************************************************************)
(* Type correctness.  With concurrency 1 there are no tasks, and nothing   *)
(* is skipped.                                                             *)
(***************************************************************************)
NoTasks ==
  /\ \A t \in Tasks : At(t, "idle")
  /\ \A p \in Pollers : groups[p] = {} /\ skipped[p] = << >>

ModesTypeOK == TypeOK /\ concurrency \in {1, 2} /\ (~ Grouped => NoTasks)

\* What a step of a handler, in a task or in the loop of a FifoWorker, does
\* to the queue.
LEMMA ProcessType ==
  ASSUME QueueTypeOK, NEW c \in Callers, Process(c)
  PROVE  QueueTypeOK'
<1>1. CASE Ack(c) \/ MoveToDlq(c)
  BY <1>1, AckNackType DEF Nack
<1> USE DEF QueueTypeOK, At, Goto, Call, Settle, HoldPCs, ActivePCs, MethodPCs, store, history
<1>2. CASE HandlerOk(c)
  BY <1>2 DEF HandlerOk
<1>3. CASE HandlerErr(c)
  BY <1>3, MaxAttemptsAssumption DEF HandlerErr, IncrementAttempts, IsExhausted
<1>4. CASE RetryNow(c)
  BY <1>4 DEF RetryNow, SetJob
<1>5. QED
  BY <1>1, <1>2, <1>3, <1>4 DEF Process

LEMMA HandleType ==
  ASSUME QueueTypeOK, NEW p \in Pollers, Handle(p)
  PROVE  QueueTypeOK'
  BY DEF Handle, QueueTypeOK, At, Goto, Call, HoldPCs, ActivePCs, MethodPCs, Callers, store, history

LEMMA OrderType ==
  ASSUME QueueTypeOK, OrderTypeOK, NEW c \in Callers, Reorder(c)
  PROVE  OrderTypeOK'
  BY DEF Reorder, OrderTypeOK, Newest, Without, QueueTypeOK, At, HoldPCs

LEMMA LoopType ==
  ASSUME TypeOK, NEW p \in Pollers, LoopStep(p)
  PROVE  TypeOK'
<1>0. UNCHANGED <<order, subs>>
  BY DEF LoopStep
<1>1. CASE Move(p) /\ UNCHANGED local
  BY <1>0, <1>1, MoveType DEF TypeOK, OrderTypeOK, local
<1>2. CASE Pop(p)
  BY <1>0, <1>2, PopType DEF TypeOK, OrderTypeOK, Pop, local
<1> USE DEF TypeOK, OrderTypeOK, QueueTypeOK, At, Goto, Begin, Return, Idle, Call, HoldPCs, ActivePCs,
            MethodPCs, Callers, history, store, local
<1>3. CASE EndPops(p)
  BY <1>0, <1>3 DEF EndPops
<1>4. CASE Skip(p)
  <2>1. skipped' \in [Pollers -> Seq(Jobs)]
    BY <1>4, AppendProperties DEF Skip
  <2>2. QED
    BY <1>0, <1>4, <2>1 DEF Skip
<1>5. ASSUME NEW t \in TasksOf(p), Spawn(p, t)
      PROVE  TypeOK'
  <2>1. groups' \in [Pollers -> SUBSET {Group[j] : j \in Jobs}]
    BY <1>5 DEF Spawn
  <2>2. QED
    BY <1>0, <1>5, <2>1 DEF Spawn, TasksOf, Tasks
<1>6. CASE RequeuePush(p)
  <2>1. skipped[p] \in Seq(Jobs) /\ skipped[p] # << >>
    BY <1>6 DEF RequeuePush
  <2>2. Head(skipped[p]) \in Jobs /\ Tail(skipped[p]) \in Seq(Jobs)
    BY <2>1
  <2>3. skipped' \in [Pollers -> Seq(Jobs)]
    BY <1>6, <2>2 DEF RequeuePush
  <2>4. waiting' \in Seq(Jobs)
    BY <1>6, <2>2 DEF RequeuePush, LPush
  <2>5. QED
    BY <1>0, <1>6, <2>2, <2>3, <2>4 DEF RequeuePush
<1>7. CASE RequeueRemove(p)
  BY <1>0, <1>7 DEF RequeueRemove, LRemActive
<1>8. CASE RequeueEnd(p)
  BY <1>0, <1>8 DEF RequeueEnd
<1>9. QED
  BY <1>1, <1>2, <1>3, <1>4, <1>5, <1>6, <1>7, <1>8 DEF LoopStep

LEMMA PlainLoopType ==
  ASSUME TypeOK, NEW p \in Pollers, Plain!LoopStep(p), UNCHANGED local
  PROVE  TypeOK'
<1>1. p \in Callers
  BY DEF Callers
<1>2. QED
  BY <1>1, PlainLoop, MoveType, PopType, HandleType, ProcessType DEF TypeOK, OrderTypeOK, local

LEMMA UnsubscribeType ==
  ASSUME TypeOK, NEW p \in Pollers, UnsubscribeMode(p)
  PROVE  TypeOK'
<1> USE DEF TypeOK, OrderTypeOK, QueueTypeOK, Return, Idle, Call, HoldPCs, ActivePCs, MethodPCs,
            Callers, store, local
<1>1. CASE Unsubscribe(p)
  BY <1>1 DEF Unsubscribe
<1>2. CASE Plain!Unsubscribe(p) /\ UNCHANGED local
  <2>1. /\ subs' = [subs EXCEPT ![p] = "off"]
        /\ Return(p) /\ ready' = [ready EXCEPT ![p] = {}]
        /\ fate' = [j \in Jobs |-> IF Holds(p, j) THEN "stranded" ELSE fate[j]]
        /\ UNCHANGED <<store, failures, raced, order>>
    BY <1>2, PlainUnsubscribe
  <2>2. fate' \in [Jobs -> {"new", "live", "acked", "discarded", "lost", "stranded"}]
    BY <2>1
  <2>3. QED
    BY <1>2, <2>1, <2>2
<1>3. QED
  BY <1>1, <1>2 DEF UnsubscribeMode

\* A step of a method changes the call of its caller alone.
OthersGoOn(c) == \A d \in Callers \ {c} : call'[d] = call[d]

LEMMA ClientCall ==
  ASSUME QueueTypeOK, NEW c \in Clients, ClientStep(c)
  PROVE  OthersGoOn(c)
<1> USE DEF OthersGoOn, Callers, QueueTypeOK, Begin, Goto, Return
<1>1. ASSUME NEW j \in Jobs, NEW pc \in {"push.list", "push.delay"}, PushRecord(c, j, pc)
      PROVE  OthersGoOn(c)
  BY <1>1 DEF PushRecord
<1>2. ASSUME NEW j \in Jobs, RedriveTake(c, j) \/ DiscardTake(c, j)
      PROVE  OthersGoOn(c)
  BY <1>2 DEF RedriveTake, DiscardTake
<1>3. CASE PushList(c) \/ PushDelay(c) \/ RedriveSet(c) \/ DiscardDelete(c)
  BY <1>3 DEF PushList, PushDelay, RedriveSet, DiscardDelete
<1>4. QED
  BY <1>1, <1>2, <1>3 DEF ClientStep

LEMMA MoveCall ==
  ASSUME QueueTypeOK, NEW p \in Pollers, Move(p)
  PROVE  OthersGoOn(p)
  BY DEF OthersGoOn, QueueTypeOK, Move, MoveBegin, MoveTake, MoveSkip, MoveList, MoveEnd, Begin, Goto

LEMMA PopCall ==
  ASSUME QueueTypeOK, NEW p \in Pollers, NEW after,
         PopEmpty(p, after) \/ PopTake(p) \/ PopActivate(p) \/ PopRead(p) \/ PopGhost(p, after)
  PROVE  OthersGoOn(p)
  BY DEF OthersGoOn, QueueTypeOK, PopEmpty, PopTake, PopActivate, PopRead, PopGhost, Begin, Goto

LEMMA ProcessCall ==
  ASSUME QueueTypeOK, NEW c \in Callers, Process(c)
  PROVE  OthersGoOn(c) /\ ~ At(c, "idle")
  BY DEF OthersGoOn, QueueTypeOK, Process, HandlerOk, HandlerErr, RetryNow, Ack, AckRemove, AckDelete,
         MoveToDlq, DlqRemove, DlqPush, DlqDelete, At, Goto, Return

LEMMA PlainLoopCall ==
  ASSUME QueueTypeOK, NEW p \in Pollers, Plain!LoopStep(p)
  PROVE  OthersGoOn(p)
<1>1. Handle(p) => OthersGoOn(p)
  BY DEF OthersGoOn, QueueTypeOK, Handle, Goto
<1>2. p \in Callers
  BY DEF Callers
<1>3. QED
  BY <1>1, <1>2, PlainLoop, MoveCall, PopCall, ProcessCall

LEMMA NextType ==
  ASSUME ModesTypeOK, [ModesNext]_modeVars
  PROVE  ModesTypeOK'
<1>0. QueueTypeOK /\ OrderTypeOK /\ TypeOK /\ (Grouped' <=> Grouped)
  BY DEF ModesTypeOK, TypeOK, ModesNext, modeVars, Grouped
<1>1. ASSUME NEW c \in Clients, GroupClient(c)
      PROVE  TypeOK' /\ (NoTasks => NoTasks')
  <2>1. QueueTypeOK' /\ OrderTypeOK' /\ OthersGoOn(c)
    BY <1>0, <1>1, ClientType, OrderType, ClientCall DEF GroupClient, Client, Callers
  <2>2. \A t \in Tasks : t \in Callers \ {c}
    BY CallerAssumption DEF Callers, Tasks
  <2>3. QED
    BY <1>0, <1>1, <2>1, <2>2 DEF GroupClient, TypeOK, NoTasks, OthersGoOn, At, local
<1>2. ASSUME NEW j \in Jobs, BecomeDue(j), UNCHANGED <<order, subs, local>>
      PROVE  TypeOK' /\ (NoTasks => NoTasks')
  BY <1>0, <1>2, BecomeDueType DEF TypeOK, OrderTypeOK, NoTasks, At, BecomeDue, local
<1>3. ASSUME NEW p \in Pollers, SubscribeMode(p)
      PROVE  TypeOK' /\ (NoTasks => NoTasks')
  <2>1. subs' = [subs EXCEPT ![p] = "on"] /\ UNCHANGED <<queueVars, order, local>>
    BY <1>3, PlainSubscribe DEF SubscribeMode, Subscribe
  <2>2. QED
    BY <1>0, <2>1, QueueKeptType DEF TypeOK, OrderTypeOK, NoTasks, At, local, queueVars
<1>4. ASSUME NEW p \in Pollers, UnsubscribeMode(p)
      PROVE  TypeOK' /\ (~ Grouped /\ NoTasks => NoTasks')
  <2>1. ~ Grouped => UNCHANGED local /\ Return(p)
    BY <1>4, PlainUnsubscribe DEF UnsubscribeMode
  <2>2. ~ Grouped => \A t \in Tasks : call'[t] = call[t]
    BY <1>0, <2>1, CallerAssumption DEF Return, QueueTypeOK, Callers, Tasks
  <2>3. QED
    BY <1>0, <1>4, <2>1, <2>2, UnsubscribeType DEF NoTasks, At, local
<1>5. ASSUME NEW p \in Pollers, Loop(p)
      PROVE  TypeOK' /\ (~ Grouped /\ NoTasks => NoTasks')
  <2>1. CASE Grouped
    BY <1>0, <1>5, <2>1, LoopType DEF Loop
  <2>2. CASE ~ Grouped
    <3>1. Plain!LoopStep(p) /\ UNCHANGED local
      BY <1>5, <2>2 DEF Loop
    <3>2. OthersGoOn(p) /\ \A t \in Tasks : t \in Callers \ {p}
      BY <1>0, <3>1, PlainLoopCall, CallerAssumption DEF Callers, Tasks
    <3>3. QED
      BY <1>0, <3>1, <3>2, PlainLoopType DEF NoTasks, OthersGoOn, At, local
  <2>3. QED
    BY <2>1, <2>2
<1>6. ASSUME NEW t \in Tasks, TaskStep(t)
      PROVE  TypeOK' /\ ~ NoTasks
  <2>1. t \in Callers
    BY DEF Callers
  <2>2. QueueTypeOK' /\ ~ At(t, "idle")
    BY <1>0, <1>6, <2>1, ProcessType, ProcessCall DEF TaskStep
  <2>3. QED
    BY <1>0, <1>6, <2>2 DEF TaskStep, TypeOK, OrderTypeOK, NoTasks, local
<1>7. ASSUME NEW p \in Pollers, NEW g \in groups[p], Release(p, g)
      PROVE  TypeOK' /\ ~ NoTasks
  BY <1>0, <1>7, QueueKeptType DEF Release, TypeOK, OrderTypeOK, NoTasks
<1>8. CASE UNCHANGED modeVars
  BY <1>0, <1>8, QueueKeptType
  DEF modeVars, vars, TypeOK, OrderTypeOK, NoTasks, At, queueVars, ModesTypeOK
<1>9. CASE ModesNext
  BY <1>0, <1>1, <1>2, <1>3, <1>4, <1>5, <1>6, <1>7, <1>9 DEF ModesNext, ModesTypeOK
<1>10. QED
  BY <1>8, <1>9

LEMMA InitType == ModesInit => ModesTypeOK
<1> SUFFICES ASSUME ModesInit
             PROVE  ModesTypeOK
  OBVIOUS
<1>1. QueueTypeOK
  BY QueueInitType DEF ModesInit, Init
<1>2. TypeOK
  BY <1>1 DEF ModesInit, Init, TypeOK, OrderTypeOK
<1>3. NoTasks
  BY DEF ModesInit, Init, QueueInit, NoTasks, At, Idle, Call, Callers
<1>4. QED
  BY <1>2, <1>3 DEF ModesTypeOK, ModesInit

LEMMA TypeInvariance == ModesSpec => []ModesTypeOK
<1>1. ModesTypeOK /\ [ModesNext]_modeVars => ModesTypeOK'
  BY NextType
<1>2. QED
  BY InitType, <1>1, PTL DEF ModesSpec

(***************************************************************************)
(* Every reachable state of a queue of either mode is well typed.          *)
(***************************************************************************)
THEOREM TypeCorrect == ModesSpec => []TypeOK
<1>1. ModesTypeOK => TypeOK
  BY DEF ModesTypeOK
<1>2. QED
  BY <1>1, TypeInvariance, PTL

-----------------------------------------------------------------------------
(***************************************************************************)
(* Each job by itself, as in ConcurrentWorker_proofs, but that a live job  *)
(* may also be among the ids a loop skipped, once, and is then in no other *)
(* place.                                                                  *)
(***************************************************************************)
Live == {"live"}

Skips(j) == \E p \in Pollers : Skipped(p, j)
SkippedOnce(j) ==
  \A p, q \in Pollers : \A i \in DOMAIN skipped[p], k \in DOMAIN skipped[q] :
    skipped[p][i] = j /\ skipped[q][k] = j => p = q /\ i = k

Safe(j) ==
  /\ Sound(j, Live)
  /\ SkippedOnce(j)
  /\ Skips(j) => ~ Located(j)
  /\ fate[j] = "live" <=> Located(j) \/ Skips(j)
AllSafe == \A j \in Jobs : Safe(j)

\* A job in no place of the queue: it is put back in waiting, or settled.
LEMMA Elsewhere ==
  ASSUME QueueTypeOK, NEW S \in Fates, NEW j \in Jobs, Sound(j, S),
         ~ Located(j), fate[j] \in S,
         NEW c \in Callers, NEW pc \in DonePCs, NEW i, NEW n,
         call' = [call EXCEPT ![c] = Call(pc, i, n)],
         UNCHANGED <<delayed, dlq, record, failures, raced>>,
         \/ LPush(j) /\ fate'[j] = fate[j]
         \/ UNCHANGED waiting /\ fate'[j] \notin S /\ fate'[j] \notin {"new", "lost"}
  PROVE  /\ Sound(j, S)'
         /\ Located(j)' <=> LPush(j)
<1>1. \A d \in Callers : call'[d] = IF d = c THEN Call(pc, i, n) ELSE call[d]
  BY DEF QueueTypeOK
<1>2. \A d \in Callers : ~ Holds(d, j) /\ ~ Holds(d, j)'
  BY <1>1 DEF Located, Held, Holds, Call, HoldPCs, DonePCs
<1>3. ~ Held(j)' /\ ~ Held(j) /\ ~ InWaiting(j) /\ delayed[j] = "none" /\ ~ dlq[j] > 0 /\ Once(j)
  BY <1>2 DEF Held, Located, Sound, Alone
<1>4. CASE LPush(j) /\ fate'[j] = fate[j]
  <2>1. InWaiting(j)' /\ Once(j)'
    BY <1>3, <1>4, PushedWaits DEF QueueTypeOK
  <2>2. Located(j)' /\ Alone(j, S)'
    BY <1>2, <1>3, <1>4, <2>1 DEF Alone, Located, QueueTypeOK
  <2>3. Fresh(j)' <=> Fresh(j)
    BY DEF Fresh, Stored
  <2>4. Tally(j, S)'
    BY <1>3, <1>4, <2>3 DEF Tally, Sound, Count
  <2>5. ASSUME NEW d \in Callers
        PROVE  Work(d, j)' /\ Deletes(d, j)'
    <3>1. Work(d, j)'
      BY <1>2 DEF Work, Holds, HoldPCs, FreshPCs
    <3>2. Deletes(d, j)'
      BY <1>1, <1>4 DEF Deletes, Call, DonePCs, Sound, Count
    <3>3. QED
      BY <3>1, <3>2
  <2>6. QED
    BY <1>4, <2>2, <2>4, <2>5 DEF Sound, Count
<1>5. CASE UNCHANGED waiting /\ fate'[j] \notin S /\ fate'[j] \notin {"new", "lost"}
  <2>1. (InWaiting(j)' <=> InWaiting(j)) /\ Once(j)'
    BY <1>3, <1>5, WaitingKept DEF WaitsAlike
  <2>2. ~ Located(j)' /\ Alone(j, S)'
    BY <1>2, <1>3, <1>5, <2>1 DEF Alone, Located
  <2>3. Tally(j, S)'
    BY <1>3, <1>5 DEF Tally
  <2>4. fate[j] \in {"live", "stranded"}
    BY DEF Fates
  <2>5. ASSUME NEW d \in Callers
        PROVE  Work(d, j)' /\ Deletes(d, j)'
    <3>1. Work(d, j)'
      BY <1>2 DEF Work, Holds, HoldPCs, FreshPCs
    <3>2. Deletes(d, j)'
      BY <1>1, <2>4 DEF Deletes, Call, DonePCs, Sound, Count
    <3>3. QED
      BY <3>1, <3>2
  <2>6. ~ LPush(j)
    <3>1. LPush(j) => InWaiting(j)'
      BY <1>3, PushedWaits DEF QueueTypeOK
    <3>2. QED
      BY <1>3, <2>1, <3>1
  <2>7. QED
    BY <2>2, <2>3, <2>5, <2>6 DEF Sound, Count
<1>6. QED
  BY <1>4, <1>5

\* The methods of the queue leave the skipped ids alone.
LEMMA MethodSafe ==
  ASSUME NEW j \in Jobs, Safe(j), Sound(j, Live)', Moves(j, Live), UNCHANGED skipped
  PROVE  Safe(j)'
<1>1. (Skips(j)' <=> Skips(j)) /\ (SkippedOnce(j)' <=> SkippedOnce(j))
  BY DEF Skips, Skipped, SkippedOnce
<1>2. QED
  BY <1>1 DEF Safe, Moves, Live

LEMMA ProcessSound ==
  ASSUME QueueTypeOK, NEW j \in Jobs, Sound(j, Live), NEW c \in Callers, Process(c)
  PROVE  Sound(j, Live)' /\ Moves(j, Live)
<1>0. Live \in Fates
  BY DEF Live, Fates
<1>1. CASE Ack(c) \/ MoveToDlq(c)
  BY <1>0, <1>1, AckNackSound DEF Nack
<1>2. CASE HandlerOk(c)
  BY <1>0, <1>2, SucceedsSound DEF HandlerOk, store
<1>3. CASE HandlerErr(c)
  <2> DEFINE n == call[c].tries + 1
             pc == IF n >= MaxAttempts THEN "dlq.lrem" ELSE "backoff"
  <2>1. pc \in HoldPCs /\ call' = [call EXCEPT ![c] = Call(pc, call[c].job, n)]
    BY <1>3 DEF HandlerErr, IncrementAttempts, IsExhausted, HoldPCs
  <2>2. QED
    BY <1>0, <1>3, <2>1, FailsSound DEF HandlerErr, store
<1>4. CASE RetryNow(c)
  <2>1. /\ call[c].pc \in HoldPCs /\ "handling" \in HoldPCs
        /\ call' = [call EXCEPT ![c] = Call("handling", call[c].job, call[c].tries)]
        /\ UNCHANGED <<waiting, delayed, dlq, fate, failures, raced>>
    BY <1>4 DEF RetryNow, At, HoldPCs, Goto, history
  <2>2. call[c].job # j => record'[j] = record[j]
    BY <1>4 DEF RetryNow, SetJob, QueueTypeOK
  <2>3. call[c].job = j =>
          record'[j] = failures[j] /\ call[c].tries = failures[j] /\ failures[j] < MaxAttempts
    BY <1>4 DEF RetryNow, At, SetJob, Sound, Count, Work, QueueTypeOK
  <2>4. call[c].job = j => Work(c, j)'
    BY <2>1, <2>3 DEF Work, Fresh, Stored, Call, FreshPCs, QueueTypeOK
  <2>5. QED
    BY <1>0, <2>1, <2>2, <2>4, GoesSound
<1>5. QED
  BY <1>1, <1>2, <1>3, <1>4 DEF Process

LEMMA HandleSound ==
  ASSUME QueueTypeOK, NEW j \in Jobs, Sound(j, Live), NEW p \in Pollers, Handle(p)
  PROVE  Sound(j, Live)' /\ Moves(j, Live)
<1>1. /\ Live \in Fates /\ p \in Callers
      /\ call[p].pc = "popped" /\ "popped" \in HoldPCs /\ "handling" \in HoldPCs
      /\ call' = [call EXCEPT ![p] = Call("handling", call[p].job, call[p].tries)]
      /\ UNCHANGED <<waiting, delayed, dlq, record, fate, failures, raced>>
  BY DEF Live, Fates, Callers, Handle, At, Goto, HoldPCs, store, history
<1>2. call[p].job = j => Work(p, j)'
  <2>1. Work(p, j)
    BY <1>1 DEF Sound, Count
  <2>2. QED
    BY <1>1, <2>1 DEF Work, Call, Fresh, Stored, FreshPCs, QueueTypeOK
<1>3. QED
  BY <1>1, <1>2, GoesSound

\* A loop skips one more job, puts the first one back, or forgets them all.
LEMMA SkipOneMore ==
  ASSUME skipped \in [Pollers -> Seq(Jobs)], NEW p \in Pollers, NEW i \in Jobs,
         skipped' = [skipped EXCEPT ![p] = Append(@, i)], NEW j \in Jobs
  PROVE  /\ i # j => (Skips(j)' <=> Skips(j)) /\ (SkippedOnce(j) => SkippedOnce(j)')
         /\ i = j => Skips(j)' /\ (~ Skips(j) => SkippedOnce(j)')
<1>1. /\ Len(skipped'[p]) = Len(skipped[p]) + 1 /\ Len(skipped[p]) \in Nat
      /\ DOMAIN skipped[p] = 1..Len(skipped[p])
      /\ DOMAIN skipped'[p] = 1..Len(skipped[p]) + 1
      /\ \A k \in 1..Len(skipped[p]) : skipped'[p][k] = skipped[p][k]
      /\ skipped'[p][Len(skipped[p]) + 1] = i
  BY AppendProperties
<1>2. \A q \in Pollers \ {p} : skipped'[q] = skipped[q]
  OBVIOUS
<1>3. \A q \in Pollers : \A k \in DOMAIN skipped'[q] :
        \/ k \in DOMAIN skipped[q] /\ skipped'[q][k] = skipped[q][k]
        \/ q = p /\ k = Len(skipped[p]) + 1 /\ skipped'[q][k] = i
  BY <1>1, <1>2
<1>4. \A q \in Pollers : \A k \in DOMAIN skipped[q] :
        k \in DOMAIN skipped'[q] /\ skipped'[q][k] = skipped[q][k]
  BY <1>1, <1>2
<1>5. Len(skipped[p]) + 1 \in DOMAIN skipped'[p]
  BY <1>1
<1>6. Skips(j)' <=> Skips(j) \/ i = j
  BY <1>1, <1>3, <1>4, <1>5 DEF Skips, Skipped
<1>7. i # j /\ SkippedOnce(j) => SkippedOnce(j)'
  BY <1>3 DEF SkippedOnce
<1>8. i = j /\ ~ Skips(j) => SkippedOnce(j)'
  BY <1>3 DEF SkippedOnce, Skips, Skipped
<1>9. QED
  BY <1>6, <1>7, <1>8

LEMMA SkipOneLess ==
  ASSUME skipped \in [Pollers -> Seq(Jobs)], NEW p \in Pollers, skipped[p] # << >>,
         skipped' = [skipped EXCEPT ![p] = Tail(@)], NEW j \in Jobs, SkippedOnce(j)
  PROVE  /\ Head(skipped[p]) \in Jobs
         /\ SkippedOnce(j)'
         /\ Head(skipped[p]) # j => (Skips(j)' <=> Skips(j))
         /\ Head(skipped[p]) = j => Skips(j) /\ ~ Skips(j)'
<1>1. /\ Len(skipped[p]) \in Nat \ {0} /\ DOMAIN skipped[p] = 1..Len(skipped[p])
      /\ Head(skipped[p]) = skipped[p][1] /\ Head(skipped[p]) \in Jobs
      /\ Len(skipped'[p]) = Len(skipped[p]) - 1
      /\ DOMAIN skipped'[p] = 1..Len(skipped[p]) - 1
      /\ \A k \in 1..Len(skipped[p]) - 1 : skipped'[p][k] = skipped[p][k + 1]
  <2>1. skipped[p] \in Seq(Jobs) /\ skipped'[p] = Tail(skipped[p])
    OBVIOUS
  <2>2. /\ Head(skipped[p]) \in Jobs /\ Tail(skipped[p]) \in Seq(Jobs)
        /\ Len(Tail(skipped[p])) = Len(skipped[p]) - 1
        /\ \A k \in 1..Len(Tail(skipped[p])) : Tail(skipped[p])[k] = skipped[p][k + 1]
    BY <2>1, HeadTailProperties
  <2>3. Len(skipped[p]) \in Nat \ {0} /\ Head(skipped[p]) = skipped[p][1]
    BY <2>1, EmptySeq
  <2>4. QED
    BY <2>1, <2>2, <2>3
<1>2. \A q \in Pollers \ {p} : skipped'[q] = skipped[q]
  OBVIOUS
<1>3. \A k \in DOMAIN skipped'[p] : k + 1 \in DOMAIN skipped[p] \ {1} /\ skipped'[p][k] = skipped[p][k + 1]
  BY <1>1
<1>4. \A k \in DOMAIN skipped[p] \ {1} : k - 1 \in DOMAIN skipped'[p] /\ skipped'[p][k - 1] = skipped[p][k]
  BY <1>1
<1>5. 1 \in DOMAIN skipped[p]
  BY <1>1
<1>6. \A k, l \in DOMAIN skipped'[p] : k \in Int /\ l \in Int /\ (k + 1 = l + 1 => k = l)
  BY <1>1
<1>7. SkippedOnce(j)'
  <2> SUFFICES ASSUME NEW q \in Pollers, NEW r \in Pollers,
                      NEW k \in DOMAIN skipped'[q], NEW l \in DOMAIN skipped'[r],
                      skipped'[q][k] = j, skipped'[r][l] = j
               PROVE  q = r /\ k = l
    BY DEF SkippedOnce
  <2>1. CASE q = p /\ r = p
    BY <1>3, <1>6, <2>1 DEF SkippedOnce
  <2>2. CASE q = p /\ r # p
    BY <1>2, <1>3, <2>2 DEF SkippedOnce
  <2>3. CASE q # p /\ r = p
    BY <1>2, <1>3, <2>3 DEF SkippedOnce
  <2>4. CASE q # p /\ r # p
    BY <1>2, <2>4 DEF SkippedOnce
  <2>5. QED
    BY <2>1, <2>2, <2>3, <2>4
<1>8. Skips(j)' => \E q \in Pollers : \E k \in DOMAIN skipped[q] :
                     skipped[q][k] = j /\ (q = p => k # 1)
  BY <1>2, <1>3 DEF Skips, Skipped
<1>9. Head(skipped[p]) # j => (Skips(j)' <=> Skips(j))
  <2>1. ASSUME Head(skipped[p]) # j, NEW q \in Pollers, Skipped(q, j)
        PROVE  Skipped(q, j)'
    <3>1. PICK k \in DOMAIN skipped[q] : skipped[q][k] = j
      BY <2>1 DEF Skipped
    <3>2. CASE q = p
      <4>1. k - 1 \in DOMAIN skipped'[p] /\ skipped'[p][k - 1] = j
        BY <1>1, <1>4, <2>1, <3>1, <3>2
      <4>2. QED
        BY <3>2, <4>1 DEF Skipped
    <3>3. CASE q # p
      BY <1>2, <3>1, <3>3 DEF Skipped
    <3>4. QED
      BY <3>2, <3>3
  <2>2. QED
    BY <1>8, <2>1 DEF Skips, Skipped
<1>10. Head(skipped[p]) = j => Skips(j) /\ ~ Skips(j)'
  BY <1>1, <1>5, <1>8 DEF Skips, Skipped, SkippedOnce
<1>11. QED
  BY <1>1, <1>7, <1>9, <1>10

LEMMA SkipNone ==
  ASSUME skipped \in [Pollers -> Seq(Jobs)], NEW p \in Pollers,
         skipped' = [skipped EXCEPT ![p] = << >>], NEW j \in Jobs, SkippedOnce(j)
  PROVE  /\ SkippedOnce(j)'
         /\ ~ Skipped(p, j) => (Skips(j)' <=> Skips(j))
         /\ Skipped(p, j) => Skips(j) /\ ~ Skips(j)'
<1>1. (\A q \in Pollers \ {p} : skipped'[q] = skipped[q]) /\ DOMAIN skipped'[p] = {}
  OBVIOUS
<1>2. SkippedOnce(j)'
  BY <1>1 DEF SkippedOnce
<1>3. ~ Skipped(p, j) => (Skips(j)' <=> Skips(j))
  BY <1>1 DEF Skips, Skipped
<1>4. Skipped(p, j) => Skips(j) /\ ~ Skips(j)'
  BY <1>1 DEF Skips, Skipped, SkippedOnce
<1>5. QED
  BY <1>2, <1>3, <1>4

LEMMA SkipSafe ==
  ASSUME TypeOK, NEW j \in Jobs, Safe(j), NEW p \in Pollers, Skip(p)
  PROVE  Safe(j)'
<1>1. PICK i \in Jobs : i = call[p].job
  BY DEF Skip, At, TypeOK, QueueTypeOK, HoldPCs, Callers
<1>2. /\ QueueTypeOK /\ Live \in Fates /\ p \in Callers
      /\ call[p].pc = "popped" /\ "popped" \in HoldPCs /\ "poll" \in DonePCs /\ "poll" \notin HoldPCs
      /\ call' = [call EXCEPT ![p] = Call("poll", NoJob, 0)]
      /\ WaitsAlike(j) /\ UNCHANGED <<delayed, dlq, record, fate, failures, raced>>
  BY WaitingKept DEF TypeOK, Live, Fates, Callers, Skip, At, Begin, HoldPCs, DonePCs, store, history
<1>3. /\ skipped \in [Pollers -> Seq(Jobs)]
      /\ skipped' = [skipped EXCEPT ![p] = Append(@, i)]
  BY <1>1 DEF TypeOK, Skip
<1>4. CASE i # j
  <2>1. Sound(j, Live)' /\ Moves(j, Live)
    BY <1>1, <1>2, <1>4, StepsAside DEF Safe
  <2>2. (Skips(j)' <=> Skips(j)) /\ SkippedOnce(j)'
    BY <1>3, <1>4, SkipOneMore DEF Safe
  <2>3. QED
    BY <1>2, <2>1, <2>2 DEF Safe, Moves, Live
<1>5. CASE i = j
  <2>1. /\ Located(j) /\ fate[j] \in Live /\ Fresh(j)
        /\ ~ InWaiting(j) /\ delayed[j] = "none" /\ dlq[j] = 0 /\ Once(j)
    <3>1. /\ Located(j) /\ fate[j] \in Live /\ Work(p, j)
          /\ ~ InWaiting(j) /\ delayed[j] = "none" /\ dlq[j] = 0
      <4>1. Sound(j, Live) /\ call[p].job = j /\ call[p].pc \in HoldPCs
        BY <1>1, <1>2, <1>5 DEF Safe
      <4>2. QED
        BY <1>2, <4>1, HolderKnows
    <3>2. QED
      BY <1>1, <1>2, <1>5, <3>1 DEF Work, FreshPCs, Safe, Sound, Alone
  <2>2. Deletes(p, j)'
    BY <1>2, NoJobAssumption DEF Deletes, Call, QueueTypeOK
  <2>3. Fresh(j)' /\ ~ InWaiting(j)' /\ Once(j)'
    BY <1>2, <2>1 DEF Fresh, Stored, WaitsAlike
  <2>4. Sound(j, Live)' /\ ~ Held(j)'
    BY <1>1, <1>2, <1>5, <2>1, <2>2, <2>3, HolderLetsGo DEF Safe
  <2>5. ~ Located(j)'
    BY <1>2, <2>1, <2>3, <2>4 DEF Located
  <2>6. Skips(j)' /\ SkippedOnce(j)'
    BY <1>3, <1>5, <2>1, SkipOneMore DEF Safe
  <2>7. QED
    BY <1>2, <2>1, <2>4, <2>5, <2>6 DEF Safe, Live
<1>6. QED
  BY <1>4, <1>5

LEMMA RequeuePushSafe ==
  ASSUME TypeOK, NEW j \in Jobs, Safe(j), NEW p \in Pollers, RequeuePush(p)
  PROVE  Safe(j)'
<1>1. /\ skipped \in [Pollers -> Seq(Jobs)] /\ skipped[p] # << >>
      /\ skipped' = [skipped EXCEPT ![p] = Tail(@)]
      /\ SkippedOnce(j)
  BY DEF TypeOK, RequeuePush, Safe
<1>2. PICK i \in Jobs : i = Head(skipped[p])
  BY <1>1, SkipOneLess
<1>3. /\ QueueTypeOK /\ Live \in Fates /\ p \in Callers
      /\ call[p].pc = "requeue" /\ "requeue" \notin HoldPCs
      /\ "requeue.lrem" \in DonePCs /\ "requeue.lrem" \notin HoldPCs
      /\ call' = [call EXCEPT ![p] = Call("requeue.lrem", i, 0)]
      /\ LPush(i) /\ UNCHANGED <<delayed, dlq, record, fate, failures, raced>>
  BY <1>2 DEF TypeOK, Live, Fates, Callers, RequeuePush, At, Begin, HoldPCs, DonePCs, history
<1>4. CASE i # j
  <2>1. WaitsAlike(j)
    BY <1>3, <1>4, PushedWaits DEF QueueTypeOK
  <2>2. Sound(j, Live)' /\ Moves(j, Live)
    BY <1>3, <1>4, <2>1, StepsAside DEF Safe
  <2>3. (Skips(j)' <=> Skips(j)) /\ SkippedOnce(j)'
    BY <1>1, <1>2, <1>4, SkipOneLess
  <2>4. QED
    BY <2>2, <2>3 DEF Safe, Moves, Live
<1>5. CASE i = j
  <2>1. Skips(j) /\ ~ Skips(j)' /\ SkippedOnce(j)'
    BY <1>1, <1>2, <1>5, SkipOneLess
  <2>2. ~ Located(j) /\ fate[j] = "live" /\ fate[j] \in Live
    BY <2>1 DEF Safe, Live
  <2>3. Sound(j, Live)' /\ Located(j)'
    BY <1>3, <1>5, <2>2, Elsewhere DEF Safe
  <2>4. QED
    BY <1>3, <2>1, <2>2, <2>3 DEF Safe
<1>6. QED
  BY <1>4, <1>5

LEMMA LoopSafe ==
  ASSUME TypeOK, NEW j \in Jobs, Safe(j), NEW p \in Pollers, LoopStep(p)
  PROVE  Safe(j)'
<1>0. QueueTypeOK /\ Live \in Fates /\ p \in Callers /\ Sound(j, Live)
  BY DEF TypeOK, Live, Fates, Callers, Safe
<1>1. CASE Move(p) /\ UNCHANGED local
  BY <1>0, <1>1, MoveSound, MethodSafe DEF local
<1>2. CASE Pop(p)
  BY <1>0, <1>2, PopSound, MethodSafe DEF Pop, local
<1>3. CASE EndPops(p) \/ RequeueRemove(p) \/ RequeueEnd(p)
  <2>1. Sound(j, Live)' /\ Moves(j, Live) /\ UNCHANGED skipped
    BY <1>0, <1>3, AimlessSound
    DEF EndPops, RequeueRemove, RequeueEnd, At, Begin, Return, Idle, HoldPCs, DonePCs, store, local
  <2>2. QED
    BY <2>1, MethodSafe
<1>4. ASSUME NEW t \in TasksOf(p), Spawn(p, t)
      PROVE  Safe(j)'
  <2>1. t \in Callers /\ p # t
    BY CallerAssumption DEF Callers, Tasks, TasksOf
  <2>2. UNCHANGED <<waiting, delayed, dlq, record, fate, failures, raced, skipped>>
    BY <1>4 DEF Spawn, store, history
  <2>3. QED
    BY <1>0, <1>4, <2>1, <2>2, SpawnSound, MethodSafe DEF Spawn
<1>5. QED
  BY <1>1, <1>2, <1>3, <1>4, SkipSafe, RequeuePushSafe DEF LoopStep

LEMMA PlainLoopSafe ==
  ASSUME TypeOK, NEW j \in Jobs, Safe(j), NEW p \in Pollers, Plain!LoopStep(p), UNCHANGED local
  PROVE  Safe(j)'
<1>0. QueueTypeOK /\ Live \in Fates /\ p \in Callers /\ Sound(j, Live) /\ UNCHANGED skipped
  BY DEF TypeOK, Live, Fates, Callers, Safe, local
<1>1. Sound(j, Live)' /\ Moves(j, Live)
  BY <1>0, PlainLoop, MoveSound, PopSound, HandleSound, ProcessSound
<1>2. QED
  BY <1>0, <1>1, MethodSafe

\* The abort of a loop strands the job it was moving and those it skipped.
LEMMA UnsubscribeSafe ==
  ASSUME TypeOK, NEW j \in Jobs, Safe(j), NEW p \in Pollers, UnsubscribeMode(p),
         ~ Grouped => NoTasks
  PROVE  Safe(j)'
<1>0. /\ QueueTypeOK /\ Live \in Fates /\ p \in Callers
      /\ skipped \in [Pollers -> Seq(Jobs)] /\ SkippedOnce(j)
      /\ "idle" \in DonePCs /\ "idle" \notin HoldPCs
  BY DEF TypeOK, Live, Fates, Callers, DonePCs, HoldPCs, Safe
<1>1. /\ call' = [call EXCEPT ![p] = Call("idle", NoJob, 0)]
      /\ UNCHANGED <<waiting, delayed, dlq, record, failures, raced>>
      /\ skipped' = [skipped EXCEPT ![p] = << >>]
      /\ fate'[j] = IF Holds(p, j) \/ Skipped(p, j) THEN "stranded" ELSE fate[j]
  <2>1. CASE Grouped
    BY <2>1 DEF UnsubscribeMode, Unsubscribe, Return, Idle, store
  <2>2. CASE ~ Grouped
    <3>1. skipped[p] = << >> /\ ~ Skipped(p, j)
      BY <2>2 DEF NoTasks, Skipped
    <3>2. UNCHANGED skipped /\ skipped' = [skipped EXCEPT ![p] = << >>]
      BY <1>0, <2>2, <3>1 DEF UnsubscribeMode, local
    <3>3. /\ Return(p) /\ UNCHANGED <<store, failures, raced>>
          /\ fate' = [i \in Jobs |-> IF Holds(p, i) THEN "stranded" ELSE fate[i]]
      BY <2>2, PlainUnsubscribe DEF UnsubscribeMode
    <3>4. fate'[j] = IF Holds(p, j) \/ Skipped(p, j) THEN "stranded" ELSE fate[j]
      BY <3>1, <3>3
    <3>5. QED
      BY <3>2, <3>3, <3>4 DEF Return, Idle, store
  <2>3. QED
    BY <2>1, <2>2
<1>2. WaitsAlike(j)
  BY <1>1, WaitingKept
<1>3. CASE Holds(p, j)
  <2>1. /\ call[p].job = j /\ call[p].pc \in HoldPCs /\ fate'[j] = "stranded"
        /\ ~ Skips(j)
    BY <1>0, <1>1, <1>3 DEF Holds, Safe, Located, Held
  <2>2. Deletes(p, j)'
    BY <1>0, <1>1, NoJobAssumption DEF Deletes, Call, QueueTypeOK
  <2>3. Sound(j, Live)' /\ Moves(j, Live)
    BY <1>0, <1>1, <1>2, <2>1, <2>2, NoJobAssumption, HolderSettles DEF Live, Safe
  <2>4. SkippedOnce(j)' /\ ~ Skips(j)'
    BY <1>0, <1>1, <2>1, SkipNone
  <2>5. QED
    BY <2>1, <2>3, <2>4 DEF Safe, Moves, Live
<1>4. CASE Skipped(p, j)
  <2>1. fate'[j] = "stranded" /\ SkippedOnce(j)' /\ ~ Skips(j)' /\ Skips(j)
    BY <1>0, <1>1, <1>4, SkipNone
  <2>2. ~ Located(j) /\ fate[j] \in Live /\ "stranded" \notin Live
    BY <2>1 DEF Safe, Live
  <2>3. Sound(j, Live)' /\ (Located(j)' <=> LPush(j))
    BY <1>0, <1>1, <2>1, <2>2, Elsewhere DEF Safe
  <2>4. ~ LPush(j)
    <3>1. LPush(j) => InWaiting(j)'
      BY <1>0, PushedWaits DEF QueueTypeOK
    <3>2. QED
      BY <1>2, <2>2, <3>1 DEF WaitsAlike, Located
  <2>5. QED
    BY <2>1, <2>3, <2>4 DEF Safe
<1>5. CASE ~ Holds(p, j) /\ ~ Skipped(p, j)
  <2>1. fate'[j] = fate[j] /\ (call[p].job # j \/ call[p].pc \notin HoldPCs)
    BY <1>1, <1>5 DEF Holds
  <2>2. Sound(j, Live)' /\ Moves(j, Live)
    BY <1>0, <1>1, <1>2, <2>1, StepsAside DEF Safe
  <2>3. SkippedOnce(j)' /\ (Skips(j)' <=> Skips(j))
    BY <1>0, <1>1, <1>5, SkipNone
  <2>4. QED
    BY <2>1, <2>2, <2>3 DEF Safe, Moves, Live
<1>6. QED
  BY <1>3, <1>4, <1>5

LEMMA NextSafe ==
  ASSUME ModesTypeOK, NEW j \in Jobs, Safe(j), [ModesNext]_modeVars
  PROVE  Safe(j)'
<1>0. TypeOK /\ QueueTypeOK /\ Live \in Fates /\ Sound(j, Live) /\ (~ Grouped => NoTasks)
  BY DEF ModesTypeOK, TypeOK, Live, Fates, Safe
<1>1. ASSUME NEW c \in Clients, GroupClient(c)
      PROVE  Safe(j)'
  BY <1>0, <1>1, ClientSound, MethodSafe DEF GroupClient, Client, local
<1>2. ASSUME NEW i \in Jobs, BecomeDue(i), UNCHANGED local
      PROVE  Safe(j)'
  BY <1>0, <1>2, BecomeDueSound, MethodSafe DEF local
<1>3. ASSUME UNCHANGED <<queueVars, skipped>>
      PROVE  Safe(j)'
  BY <1>0, <1>3, QueueKeptSound, MethodSafe
<1>4. ASSUME NEW p \in Pollers, SubscribeMode(p)
      PROVE  Safe(j)'
  BY <1>3, <1>4, PlainSubscribe DEF SubscribeMode, Subscribe, local
<1>5. ASSUME NEW p \in Pollers, Loop(p)
      PROVE  Safe(j)'
  BY <1>0, <1>5, LoopSafe, PlainLoopSafe DEF Loop
<1>6. ASSUME NEW t \in Tasks, TaskStep(t)
      PROVE  Safe(j)'
  BY <1>0, <1>6, ProcessSound, MethodSafe DEF TaskStep, Callers, local
<1>7. ASSUME NEW p \in Pollers, NEW g \in groups[p], Release(p, g)
      PROVE  Safe(j)'
  BY <1>3, <1>7 DEF Release
<1>8. CASE UNCHANGED modeVars
  BY <1>3, <1>8 DEF modeVars, vars
<1>9. CASE ModesNext
  BY <1>0, <1>1, <1>2, <1>4, <1>5, <1>6, <1>7, <1>9, UnsubscribeSafe DEF ModesNext
<1>10. QED
  BY <1>8, <1>9

LEMMA InitSafe == ModesInit => AllSafe
<1> SUFFICES ASSUME ModesInit, NEW j \in Jobs
             PROVE  Safe(j)
  BY DEF AllSafe
<1>1. Live \in Fates /\ QueueInit
  BY DEF Live, Fates, ModesInit, Init
<1>2. Sound(j, Live) /\ ~ Located(j) /\ fate[j] \notin Live
  BY <1>1, QueueInitSound
<1>3. SkippedOnce(j) /\ ~ Skips(j)
  BY DEF ModesInit, Init, SkippedOnce, Skips, Skipped
<1>4. QED
  BY <1>2, <1>3 DEF Safe, Live

LEMMA Invariance == ModesSpec => [](ModesTypeOK /\ AllSafe)
<1>1. ModesInit => ModesTypeOK /\ AllSafe
  BY InitType, InitSafe
<1>2. ModesTypeOK /\ AllSafe /\ [ModesNext]_modeVars => (ModesTypeOK /\ AllSafe)'
  BY NextType, NextSafe DEF AllSafe
<1>3. QED
  BY <1>1, <1>2, PTL DEF ModesSpec

(***************************************************************************)
(* Skipping loses and doubles no job: a live job is in exactly one list,   *)
(* one caller's hand or one loop's skipped ids, and any other in none.     *)
(***************************************************************************)
THEOREM OnePlaceHolds == ModesSpec => []OnePlace
<1>1. ModesTypeOK /\ AllSafe => OnePlace
  <2> SUFFICES ASSUME ModesTypeOK, AllSafe, NEW j \in Jobs
               PROVE  Cardinality(Places(j)) + Cardinality(UNION {SkipsOf(p, j) : p \in Pollers})
                        = IF fate[j] = "live" THEN 1 ELSE 0
    BY DEF OnePlace
  <2> DEFINE skips == UNION {SkipsOf(p, j) : p \in Pollers}
  <2>1. Safe(j) /\ Alone(j, Live)
    BY DEF AllSafe, Safe, Sound
  <2>2. \A x : x \in skips <=> \E p \in Pollers : \E i \in DOMAIN skipped[p] :
                                skipped[p][i] = j /\ x = <<p, i>>
    BY DEF SkipsOf
  <2>3. Skips(j) => \E x : skips = {x}
    <3>1. ASSUME Skips(j)
          PROVE  \E x : skips = {x}
      <4>1. PICK p \in Pollers : Skipped(p, j)
        BY <3>1 DEF Skips
      <4>2. PICK i \in DOMAIN skipped[p] : skipped[p][i] = j
        BY <4>1 DEF Skipped
      <4>3. skips = {<<p, i>>}
        BY <2>1, <2>2, <4>2 DEF Safe, SkippedOnce
      <4>4. QED
        BY <4>3
    <3>2. QED
      BY <3>1
  <2>4. ~ Skips(j) => skips = {}
    BY <2>2 DEF Skips, Skipped
  <2>5. /\ Located(j) => \E x \in Places(j) : Places(j) = {x}
        /\ ~ Located(j) => Places(j) = {}
    BY <2>1, PlacesOf
  <2>6. Cardinality({}) = 0 /\ \A x : Cardinality({x}) = 1
    BY FS_EmptySet, FS_Singleton
  <2>7. Cardinality(Places(j)) = IF Located(j) THEN 1 ELSE 0
    BY <2>5, <2>6
  <2>8. Cardinality(skips) = IF Skips(j) THEN 1 ELSE 0
    BY <2>3, <2>4, <2>6
  <2>9. QED
    BY <2>1, <2>7, <2>8 DEF Safe
<1>2. QED
  BY <1>1, Invariance, PTL

(***************************************************************************)
(* A handler, in a task or in the loop, is called with the count of the    *)
(* failures so far, and a dead letter has failed MaxAttempts times.        *)
(***************************************************************************)
THEOREM AttemptsAgreeHolds == ModesSpec => []AttemptsAgree
<1>1. ModesTypeOK /\ AllSafe => AttemptsAgree
  <2> SUFFICES ASSUME ModesTypeOK, AllSafe
               PROVE  AttemptsAgree
    OBVIOUS
  <2>1. \A j \in Jobs : dlq[j] > 0 => failures[j] = MaxAttempts
    BY DEF AllSafe, Safe, Sound, Count, Tally
  <2>2. ASSUME NEW c \in Callers, call[c].pc = "handling"
        PROVE  call[c].tries = failures[call[c].job] /\ call[c].tries < MaxAttempts
    <3>1. call[c].job \in Jobs
      BY <2>2 DEF ModesTypeOK, TypeOK, QueueTypeOK, HoldPCs
    <3>2. Work(c, call[c].job)
      BY <3>1 DEF AllSafe, Safe, Sound, Count
    <3>3. QED
      BY <2>2, <3>2 DEF Work, FreshPCs, Fresh
  <2>3. AttemptsExact
    BY <2>1, <2>2 DEF AttemptsExact, At, Callers
  <2>4. Plain!AttemptsExact
    BY <2>1, <2>2 DEF Plain!AttemptsExact, Plain!At, Callers
  <2>5. QED
    BY <2>3, <2>4 DEF AttemptsAgree
<1>2. QED
  BY <1>1, Invariance, PTL

-----------------------------------------------------------------------------
(***************************************************************************)
(* The groups of a loop: a task at work has its group marked, alone, and   *)
(* while the loop is popping there is room for one group more.             *)
(***************************************************************************)
RoundPCs == {"pop.activate", "pop.read", "popped"}

Room(p) ==
  /\ \A t \in TasksOf(p) : ~ At(t, "idle") => Group[call[t].job] \in groups[p]
  /\ \A s, t \in TasksOf(p) :
       ~ At(s, "idle") /\ ~ At(t, "idle") /\ Group[call[s].job] = Group[call[t].job] => s = t
  /\ IsFiniteSet(groups[p]) /\ Cardinality(groups[p]) <= MaxGroups
  /\ Grouped /\ call[p].pc \in RoundPCs => ~ Full(p)

LEMMA TaskNames ==
  ASSUME NEW p \in Pollers, NEW t \in TasksOf(p)
  PROVE  /\ t \in Tasks /\ t \in Callers /\ t \notin Pollers /\ t \notin Clients
         /\ \A q \in Pollers : t \in TasksOf(q) => q = p
  BY CallerAssumption DEF TasksOf, Tasks, Callers

\* Tasks go on with their jobs or end, and the loop does not begin to pop.
LEMMA RoomKept ==
  ASSUME NEW p \in Pollers, Room(p), groups'[p] = groups[p], Grouped' <=> Grouped,
         \A t \in TasksOf(p) :
           call'[t].pc = "idle" \/ (~ At(t, "idle") /\ call'[t].job = call[t].job),
         call'[p].pc \in RoundPCs => call[p].pc \in RoundPCs \/ ~ Full(p)
  PROVE  Room(p)'
  BY DEF Room, At, Full

LEMMA OthersRoom ==
  ASSUME NEW p \in Pollers, Room(p), groups'[p] = groups[p], Grouped' <=> Grouped,
         NEW c \in Callers, OthersGoOn(c), c \notin TasksOf(p), c # p
  PROVE  Room(p)'
<1>1. \A t \in TasksOf(p) : call'[t] = call[t]
  BY TaskNames DEF OthersGoOn
<1>2. call'[p] = call[p]
  BY DEF OthersGoOn, Callers
<1>3. QED
  BY <1>1, <1>2, RoomKept DEF At

LEMMA ProcessJob ==
  ASSUME QueueTypeOK, NEW c \in Callers, Process(c)
  PROVE  call'[c].pc = "idle" \/ call'[c].job = call[c].job
  BY DEF QueueTypeOK, Process, HandlerOk, HandlerErr, RetryNow, Ack, AckRemove, AckDelete,
         MoveToDlq, DlqRemove, DlqPush, DlqDelete, Goto, Return, Idle, Call

\* A loop keeps to its tick: it pops only while there is room.
LEMMA LoopCall ==
  ASSUME QueueTypeOK, NEW p \in Pollers, LoopStep(p), \A t \in TasksOf(p) : ~ Spawn(p, t)
  PROVE  /\ OthersGoOn(p) /\ UNCHANGED groups
         /\ call'[p].pc \in RoundPCs => call[p].pc \in RoundPCs \/ ~ Full(p)
<1> USE DEF OthersGoOn, QueueTypeOK, Begin, Goto, Return, Idle, Call, RoundPCs, At, Callers, local
<1>1. CASE Move(p) /\ UNCHANGED local
  BY <1>1 DEF Move, MoveBegin, MoveTake, MoveSkip, MoveList, MoveEnd
<1>2. CASE Pop(p)
  BY <1>2 DEF Pop, PopEmpty, PopTake, PopActivate, PopRead, PopGhost
<1>3. CASE EndPops(p) \/ Skip(p)
  BY <1>3 DEF EndPops, Skip
<1>4. CASE RequeuePush(p) \/ RequeueRemove(p) \/ RequeueEnd(p)
  BY <1>4 DEF RequeuePush, RequeueRemove, RequeueEnd
<1>5. QED
  BY <1>1, <1>2, <1>3, <1>4 DEF LoopStep

LEMMA SpawnRoom ==
  ASSUME IsFiniteSet(Permits), QueueTypeOK, groups \in [Pollers -> SUBSET {Group[j] : j \in Jobs}],
         NEW p \in Pollers, Room(p), NEW t \in TasksOf(p), Spawn(p, t), Grouped, Grouped'
  PROVE  Room(p)'
<1>1. /\ t \in Callers /\ p \in Callers /\ t # p
      /\ \A s \in TasksOf(p) : s \in Callers /\ s # p
  BY TaskNames DEF Callers
<1>2. /\ call'[t].pc = "handling" /\ call'[t].job = call[p].job
      /\ call'[p].pc = "poll"
      /\ \A s \in Callers \ {p, t} : call'[s] = call[s]
  BY <1>1 DEF Spawn, QueueTypeOK, Call
<1>3. /\ groups'[p] = groups[p] \cup {Group[call[p].job]}
      /\ Group[call[p].job] \notin groups[p]
      /\ call[p].pc = "popped" /\ At(t, "idle")
  BY DEF Spawn, At
<1>4. IsFiniteSet(groups'[p]) /\ Cardinality(groups'[p]) <= MaxGroups
  <2>1. IsFiniteSet(groups[p]) /\ ~ Cardinality(groups[p]) >= MaxGroups
    <3>1. IsFiniteSet(groups[p]) /\ ~ Full(p)
      BY <1>3 DEF Room, RoundPCs
    <3>2. QED
      BY <3>1 DEF Full
  <2>2. Cardinality(groups[p]) \in Nat /\ MaxGroups \in Nat
    BY <2>1, FS_CardinalityType DEF MaxGroups
  <2>3. IsFiniteSet(groups'[p]) /\ Cardinality(groups'[p]) = Cardinality(groups[p]) + 1
    <3> DEFINE g == Group[call[p].job]
    <3>1. /\ IsFiniteSet(groups[p] \cup {g})
          /\ Cardinality(groups[p] \cup {g}) =
               IF g \in groups[p] THEN Cardinality(groups[p]) ELSE Cardinality(groups[p]) + 1
      BY <2>1, FS_AddElement
    <3>2. QED
      BY <1>3, <3>1
  <2>4. QED
    BY <2>1, <2>2, <2>3
<1>5. \A s \in TasksOf(p) : ~ At(s, "idle")' => Group[call'[s].job] \in groups'[p]
  BY <1>1, <1>2, <1>3 DEF Room, At
<1>6. ASSUME NEW r \in TasksOf(p), NEW s \in TasksOf(p), ~ At(r, "idle")', ~ At(s, "idle")',
             Group[call'[r].job] = Group[call'[s].job]
      PROVE  r = s
  <2>1. CASE r = t /\ s # t
    BY <1>1, <1>2, <1>3, <1>6, <2>1 DEF Room, At
  <2>2. CASE r # t /\ s = t
    BY <1>1, <1>2, <1>3, <1>6, <2>2 DEF Room, At
  <2>3. CASE r # t /\ s # t
    BY <1>1, <1>2, <1>6, <2>3 DEF Room, At
  <2>4. QED
    BY <2>1, <2>2, <2>3
<1>7. QED
  BY <1>2, <1>4, <1>5, <1>6 DEF Room, RoundPCs, MaxGroups

LEMMA ReleaseRoom ==
  ASSUME IsFiniteSet(Permits), groups \in [Pollers -> SUBSET {Group[j] : j \in Jobs}],
         NEW p \in Pollers, Room(p), NEW g \in groups[p], Release(p, g), Grouped' <=> Grouped
  PROVE  Room(p)'
<1>1. groups'[p] = groups[p] \ {g} /\ call' = call /\ ~ Busy(p, g)
  BY DEF Release, queueVars
<1>2. IsFiniteSet(groups[p]) /\ Cardinality(groups[p]) \in Nat /\ MaxGroups \in Nat
  BY FS_CardinalityType DEF Room, MaxGroups
<1>3. IsFiniteSet(groups'[p]) /\ Cardinality(groups'[p]) = Cardinality(groups[p]) - 1
  BY <1>1, <1>2, FS_RemoveElement
<1>4. \A t \in TasksOf(p) : ~ At(t, "idle") => Group[call[t].job] \in groups'[p]
  BY <1>1 DEF Room, Busy
<1>5. Cardinality(groups'[p]) <= MaxGroups /\ (~ Full(p) => ~ Full(p)')
  BY <1>2, <1>3 DEF Room, Full, MaxGroups
<1>6. QED
  BY <1>1, <1>3, <1>4, <1>5 DEF Room, At, MaxGroups

LEMMA NextRoom ==
  ASSUME IsFiniteSet(Permits), ModesTypeOK, NEW p \in Pollers, Room(p), [ModesNext]_modeVars
  PROVE  Room(p)'
<1>0. /\ QueueTypeOK /\ (Grouped' <=> Grouped) /\ (~ Grouped => NoTasks) /\ p \in Callers
      /\ groups \in [Pollers -> SUBSET {Group[j] : j \in Jobs}]
  BY DEF ModesTypeOK, TypeOK, ModesNext, modeVars, Grouped, Callers
<1>1. ASSUME NEW c \in Clients, GroupClient(c)
      PROVE  Room(p)'
  <2>1. /\ OthersGoOn(c) /\ c \in Callers /\ c # p /\ c \notin TasksOf(p)
        /\ groups'[p] = groups[p]
    BY <1>0, <1>1, ClientCall, TaskNames, CallerAssumption DEF GroupClient, Client, Callers, local
  <2>2. QED
    BY <1>0, <2>1, OthersRoom
<1>2. ASSUME UNCHANGED <<call, groups>>
      PROVE  Room(p)'
  BY <1>0, <1>2, RoomKept DEF At
<1>3. ASSUME NEW q \in Pollers, UnsubscribeMode(q)
      PROVE  Room(p)'
  <2>1. Return(q) /\ UNCHANGED groups /\ q \in Callers
    BY <1>3, PlainUnsubscribe DEF UnsubscribeMode, Unsubscribe, local, Callers
  <2>2. call'[q].pc = "idle" /\ OthersGoOn(q)
    BY <1>0, <2>1 DEF Return, Idle, Call, QueueTypeOK, OthersGoOn
  <2>3. \A t \in TasksOf(p) : t # q /\ call'[t] = call[t]
    BY <2>1, <2>2, TaskNames DEF OthersGoOn
  <2>4. call'[p].pc \in RoundPCs => call[p].pc \in RoundPCs
    BY <1>0, <2>1, <2>2 DEF OthersGoOn, RoundPCs
  <2>5. QED
    BY <1>0, <2>1, <2>3, <2>4, RoomKept DEF At
<1>4. ASSUME Grouped, NEW q \in Pollers, LoopStep(q)
      PROVE  Room(p)'
  <2>0. q \in Callers /\ q \notin TasksOf(p) /\ (q # p => \A t \in TasksOf(q) : t \notin TasksOf(p))
    BY TaskNames DEF Callers
  <2>1. CASE \A t \in TasksOf(q) : ~ Spawn(q, t)
    <3>1. /\ OthersGoOn(q) /\ UNCHANGED groups
          /\ call'[q].pc \in RoundPCs => call[q].pc \in RoundPCs \/ ~ Full(q)
      BY <1>0, <1>4, <2>1, LoopCall
    <3>2. CASE q # p
      BY <1>0, <2>0, <3>1, <3>2, OthersRoom
    <3>3. CASE q = p
      <4>1. \A t \in TasksOf(p) : call'[t] = call[t]
        BY <2>0, <3>1, <3>3, TaskNames DEF OthersGoOn
      <4>2. QED
        BY <1>0, <3>1, <3>3, <4>1, RoomKept DEF At
    <3>4. QED
      BY <3>2, <3>3
  <2>2. ASSUME NEW t \in TasksOf(q), Spawn(q, t)
        PROVE  Room(p)'
    <3>1. CASE q # p
      <4>1. groups'[p] = groups[p] /\ \A d \in Callers \ {q, t} : call'[d] = call[d]
        BY <1>0, <2>2, <3>1 DEF Spawn, QueueTypeOK
      <4>2. p # t /\ \A s \in TasksOf(p) : s \in Callers \ {q, t}
        BY <2>0, <2>2, <3>1, TaskNames
      <4>3. QED
        BY <1>0, <3>1, <4>1, <4>2, RoomKept DEF At
    <3>2. CASE q = p
      BY <1>0, <1>4, <2>2, <3>2, SpawnRoom
    <3>3. QED
      BY <3>1, <3>2
  <2>3. QED
    BY <2>1, <2>2
<1>5. ASSUME NEW t \in Tasks, TaskStep(t)
      PROVE  Room(p)'
  <2>1. /\ t \in Callers /\ t # p /\ OthersGoOn(t) /\ UNCHANGED groups /\ ~ At(t, "idle")
        /\ call'[t].pc = "idle" \/ call'[t].job = call[t].job
    BY <1>0, <1>5, ProcessCall, ProcessJob, CallerAssumption DEF TaskStep, Tasks, Callers, local
  <2>2. call'[p] = call[p] /\ \A s \in TasksOf(p) \ {t} : call'[s] = call[s]
    BY <1>0, <2>1, TaskNames DEF OthersGoOn
  <2>3. QED
    BY <1>0, <2>1, <2>2, RoomKept DEF At
<1>6. ASSUME NEW q \in Pollers, NEW g \in groups[q], Release(q, g)
      PROVE  Room(p)'
  <2>1. CASE q = p
    BY <1>0, <1>6, <2>1, ReleaseRoom
  <2>2. CASE q # p
    <3>1. groups'[p] = groups[p] /\ UNCHANGED call
      BY <1>0, <1>6, <2>2 DEF Release, queueVars
    <3>2. QED
      BY <1>0, <3>1, RoomKept DEF At
  <2>3. QED
    BY <2>1, <2>2
<1>7. ASSUME ~ Grouped, NoTasks'
      PROVE  Room(p)'
  <2>1. groups'[p] = {} /\ \A t \in TasksOf(p) : At(t, "idle")'
    BY <1>7, TaskNames DEF NoTasks
  <2>2. IsFiniteSet({}) /\ Cardinality({}) <= MaxGroups
    BY FS_EmptySet, FS_CardinalityType DEF MaxGroups
  <2>3. QED
    BY <1>0, <1>7, <2>1, <2>2 DEF Room, MaxGroups
<1>8. ModesTypeOK'
  BY NextType
<1>9. CASE ~ Grouped
  BY <1>0, <1>7, <1>8, <1>9 DEF ModesTypeOK
<1>10. CASE Grouped /\ ModesNext
  <2>1. ASSUME NEW q \in Pollers, SubscribeMode(q)
        PROVE  UNCHANGED <<call, groups>>
    BY <1>10, <2>1 DEF SubscribeMode, Subscribe, queueVars, local
  <2>2. ASSUME NEW j \in Jobs, BecomeDue(j), UNCHANGED local
        PROVE  UNCHANGED <<call, groups>>
    BY <2>2 DEF BecomeDue, local
  <2>3. ASSUME NEW q \in Pollers, Loop(q)
        PROVE  LoopStep(q)
    BY <1>10, <2>3 DEF Loop
  <2>4. QED
    BY <1>1, <1>2, <1>3, <1>4, <1>5, <1>6, <1>10, <2>1, <2>2, <2>3 DEF ModesNext
<1>11. CASE UNCHANGED modeVars
  BY <1>2, <1>11 DEF modeVars, vars, queueVars
<1>12. QED
  BY <1>9, <1>10, <1>11

LEMMA InitRoom ==
  ASSUME IsFiniteSet(Permits), ModesInit, NEW p \in Pollers
  PROVE  Room(p)
<1>1. groups[p] = {} /\ p \in Callers /\ call[p].pc = "idle"
  BY DEF ModesInit, Init, QueueInit, Idle, Call, Callers
<1>2. \A t \in TasksOf(p) : At(t, "idle")
  BY TaskNames DEF ModesInit, Init, QueueInit, At, Idle, Call
<1>3. IsFiniteSet({}) /\ Cardinality({}) <= MaxGroups
  BY FS_EmptySet, FS_CardinalityType DEF MaxGroups
<1>4. QED
  BY <1>1, <1>2, <1>3 DEF Room, RoundPCs

(***************************************************************************)
(* The tasks of a loop run jobs of different groups, each marked active,   *)
(* and never more than MaxGroups, if the queue's concurrency is finite.    *)
(***************************************************************************)
THEOREM OneTaskPerGroupHolds ==
  ASSUME IsFiniteSet(Permits)
  PROVE  ModesSpec => []OneTaskPerGroup
<1>1. ModesInit => \A p \in Pollers : Room(p)
  BY InitRoom
<1>2. ModesTypeOK /\ (\A p \in Pollers : Room(p)) /\ [ModesNext]_modeVars
        => (\A p \in Pollers : Room(p))'
  BY NextRoom
<1>3. (\A p \in Pollers : Room(p)) => OneTaskPerGroup
  BY DEF Room, OneTaskPerGroup
<1>4. QED
  BY <1>1, <1>2, <1>3, TypeInvariance, PTL DEF ModesSpec

-----------------------------------------------------------------------------
(***************************************************************************)
(* The order of a queue with concurrency 1 and one loop.  A listed job     *)
(* that is not settled waits or is the one the loop works on, and waiting  *)
(* has the listed jobs in the order of their pushes, newest first, so that *)
(* what the loop takes from its end has no unsettled job before it.  The   *)
(* jobs that come from delayed, at that end, were never listed.            *)
(***************************************************************************)
WorkPCs == {"pop.activate", "pop.read", "popped", "handling", "backoff", "dlq.lrem", "dlq.push"}
Working(p, j) == call[p].job = j /\ call[p].pc \in WorkPCs
InWork(j) == \E p \in Pollers : Working(p, j)

Closed == \A i, j \in Jobs : <<i, j>> \in order => Listed(i) /\ Listed(j)
Kept == \A j \in Jobs : Listed(j) /\ ~ Settled(j) => InWaiting(j) \/ InWork(j)
Behind(i, j) ==
  /\ ~ InWork(j)
  /\ \A k, l \in DOMAIN waiting : waiting[k] = j /\ waiting[l] = i => k < l
InTurn == \A i, j \in Jobs : Precedes(i, j) /\ ~ Settled(i) => Behind(i, j)
Ordered == Closed /\ Kept /\ InTurn

\* A step that takes jobs out of the order, settles jobs, or neither.
LEMMA OrderedShrinks ==
  ASSUME Ordered, UNCHANGED waiting,
         UNCHANGED order \/ \E j \in Jobs : order' = Without(j),
         \A j \in Jobs : Listed(j)' /\ Settled(j) => Settled(j)',
         \A j \in Jobs : InWork(j)' => InWork(j),
         \A j \in Jobs : Listed(j)' /\ InWork(j) => InWork(j)' \/ Settled(j)'
  PROVE  Ordered'
<1>1. order' \subseteq order /\ Closed'
  BY DEF Ordered, Closed, Listed, Without
<1>2. \A j \in Jobs : Listed(j)' => Listed(j)
  BY <1>1 DEF Listed
<1>3. Kept'
  BY <1>2 DEF Ordered, Kept, InWaiting
<1>4. ASSUME NEW i \in Jobs, NEW j \in Jobs, Precedes(i, j)', ~ Settled(i)'
      PROVE  Behind(i, j)'
  <2>1. Precedes(i, j) /\ Listed(i)'
    BY <1>1, <1>4 DEF Precedes, Closed
  <2>2. Behind(i, j)
    BY <1>4, <2>1 DEF Ordered, InTurn
  <2>3. QED
    BY <2>2 DEF Behind
<1>5. QED
  BY <1>1, <1>3, <1>4 DEF Ordered, InTurn

\* What the loop works on is held, and so in no list.
LEMMA WorkingHolds ==
  ASSUME NEW j \in Jobs, Safe(j), NEW p \in Pollers, Working(p, j)
  PROVE  Holds(p, j) /\ ~ InWaiting(j) /\ ~ Settled(j)
<1>1. p \in Callers /\ Holds(p, j)
  BY DEF Working, WorkPCs, Holds, HoldPCs, Callers
<1>2. Held(j) /\ Located(j)
  BY <1>1 DEF Held, Located
<1>3. QED
  BY <1>1, <1>2 DEF Safe, Sound, Alone, Settled

LEMMA Indices ==
  ASSUME waiting \in Seq(Jobs), NEW i \in Jobs
  PROVE  /\ LPush(i) => /\ waiting' \in Seq(Jobs) /\ waiting'[1] = i
                        /\ \A k \in DOMAIN waiting' : k # 1 =>
                             k \in Int /\ k - 1 \in DOMAIN waiting /\ waiting'[k] = waiting[k - 1]
         /\ RPush(i) => \A k \in DOMAIN waiting' :
                          (k \in DOMAIN waiting /\ waiting'[k] = waiting[k]) \/ waiting'[k] = i
<1>1. ASSUME LPush(i)
      PROVE  /\ waiting' \in Seq(Jobs) /\ waiting'[1] = i
             /\ \A k \in DOMAIN waiting' : k # 1 =>
                  k \in Int /\ k - 1 \in DOMAIN waiting /\ waiting'[k] = waiting[k - 1]
  <2>1. /\ waiting' \in Seq(Jobs)
        /\ Len(waiting') = Len(waiting) + 1
        /\ waiting'[1] = i
        /\ \A k \in 1..Len(waiting) : waiting'[k + 1] = waiting[k]
    BY <1>1 DEF LPush
  <2>2. \A k \in 1..Len(waiting') : k # 1 =>
          k \in Int /\ k - 1 \in 1..Len(waiting) /\ waiting'[k] = waiting[k - 1]
    BY <2>1
  <2>3. QED
    BY <2>1, <2>2
<1>2. ASSUME RPush(i)
      PROVE  \A k \in DOMAIN waiting' :
               (k \in DOMAIN waiting /\ waiting'[k] = waiting[k]) \/ waiting'[k] = i
  BY <1>2 DEF RPush
<1>3. QED
  BY <1>1, <1>2

LEMMA PushListOrdered ==
  ASSUME TypeOK, AllSafe, Ordered, NEW c \in Clients, PushList(c), Reorder(c)
  PROVE  Ordered'
<1>1. PICK j \in Jobs : j = call[c].job
  BY DEF PushList, At, TypeOK, QueueTypeOK, HoldPCs, Callers
<1>2. /\ waiting \in Seq(Jobs) /\ LPush(j)
      /\ order' = Without(j) \cup {<<i, j>> : i \in {i \in Jobs : Listed(i) \/ i = j}}
      /\ UNCHANGED <<dlq, fate>>
  BY <1>1 DEF PushList, Reorder, Newest, TypeOK, QueueTypeOK, history
<1>3. \A i \in Jobs : (InWork(i)' <=> InWork(i)) /\ (Settled(i)' <=> Settled(i))
  <2>1. \A p \in Pollers : call'[p] = call[p]
    BY CallerAssumption DEF PushList, Return, TypeOK, QueueTypeOK, Callers
  <2>2. QED
    BY <1>2, <2>1 DEF InWork, Working, Settled
<1>4. ~ InWaiting(j) /\ ~ InWork(j)
  <2>1. c \in Callers /\ Holds(c, j) /\ Safe(j) /\ \A p \in Pollers : p \in Callers /\ p # c
    BY <1>1, CallerAssumption DEF PushList, At, Holds, HoldPCs, Callers, AllSafe
  <2>2. ~ InWaiting(j) /\ \A p \in Pollers : ~ Holds(p, j)
    BY <2>1 DEF Safe, Sound, Alone, Held
  <2>3. QED
    BY <2>1, <2>2, WorkingHolds DEF InWork
<1>5. \A i \in Jobs : InWaiting(i)' <=> InWaiting(i) \/ i = j
  BY <1>2, PushedWaits DEF WaitsAlike
<1>6. \A i, k \in Jobs : <<i, k>> \in order' <=>
        IF k = j THEN Listed(i) \/ i = j ELSE i # j /\ <<i, k>> \in order
  BY <1>2 DEF Without, Ordered, Closed
<1>7. \A i \in Jobs : Listed(i)' <=> Listed(i) \/ i = j
  BY <1>6 DEF Listed
<1>8. Closed'
  BY <1>6, <1>7 DEF Ordered, Closed
<1>9. Kept'
  BY <1>3, <1>5, <1>7 DEF Ordered, Kept
<1>10. /\ waiting'[1] = j
       /\ \A k \in DOMAIN waiting' : k # 1 =>
            k \in Int /\ k - 1 \in DOMAIN waiting /\ waiting'[k] = waiting[k - 1]
       /\ \A k \in DOMAIN waiting' : k \in Int /\ k >= 1
  <2>1. LPush(j) /\ waiting \in Seq(Jobs)
    BY <1>2
  <2>2. /\ waiting' \in Seq(Jobs) /\ waiting'[1] = j
        /\ \A k \in DOMAIN waiting' : k # 1 =>
             k \in Int /\ k - 1 \in DOMAIN waiting /\ waiting'[k] = waiting[k - 1]
    BY <2>1, Indices
  <2>3. QED
    BY <2>2
<1>11. ASSUME NEW i \in Jobs, NEW k \in Jobs, Precedes(i, k)', ~ Settled(i)'
       PROVE  Behind(i, k)'
  <2>1. ASSUME NEW a \in DOMAIN waiting', NEW b \in DOMAIN waiting', waiting'[a] = k, waiting'[b] = i
        PROVE  a < b
    <3>1. CASE k = j
      <4>1. a = 1
        BY <1>4, <1>10, <2>1, <3>1 DEF InWaiting
      <4>2. b # 1
        BY <1>10, <1>11, <2>1, <3>1 DEF Precedes
      <4>3. QED
        BY <1>10, <4>1, <4>2
    <3>2. CASE k # j
      <4>1. Precedes(i, k) /\ i # j /\ ~ Settled(i)
        BY <1>3, <1>6, <1>11, <3>2 DEF Precedes
      <4>2. a # 1 /\ b # 1
        BY <1>10, <2>1, <3>2, <4>1
      <4>3. a - 1 < b - 1
        BY <1>10, <2>1, <4>1, <4>2 DEF Ordered, InTurn, Behind
      <4>4. QED
        BY <1>10, <4>3
    <3>3. QED
      BY <3>1, <3>2
  <2>2. ~ InWork(k)'
    <3>1. CASE k = j
      BY <1>3, <1>4, <3>1
    <3>2. CASE k # j
      <4>1. Precedes(i, k) /\ ~ Settled(i)
        BY <1>3, <1>6, <1>11, <3>2 DEF Precedes
      <4>2. QED
        BY <1>3, <4>1 DEF Ordered, InTurn, Behind
    <3>3. QED
      BY <3>1, <3>2
  <2>3. QED
    BY <2>1, <2>2 DEF Behind
<1>12. QED
  BY <1>8, <1>9, <1>11 DEF Ordered, InTurn

LEMMA ClientOrdered ==
  ASSUME TypeOK, AllSafe, Ordered, NEW c \in Clients, Client(c)
  PROVE  Ordered'
<1>0. ClientStep(c) /\ Reorder(c) /\ QueueTypeOK /\ c \in Callers
  BY DEF Client, TypeOK, Callers
<1>1. \A i \in Jobs : InWork(i)' <=> InWork(i)
  <2>1. \A p \in Pollers : call'[p] = call[p]
    BY <1>0, ClientCall, CallerAssumption DEF OthersGoOn, Callers
  <2>2. QED
    BY <2>1 DEF InWork, Working
<1>2. ASSUME NEW j \in Jobs, NEW pc \in {"push.list", "push.delay"}, PushRecord(c, j, pc)
      PROVE  Ordered'
  <2>1. UNCHANGED waiting /\ order' = Without(j)
    BY <1>0, <1>2 DEF PushRecord, Reorder, At, Begin, Call, QueueTypeOK
  <2>2. \A i \in Jobs : Listed(i)' => i # j
    BY <2>1 DEF Listed, Without
  <2>3. \A i \in Jobs : i # j => (Settled(i)' <=> Settled(i))
    BY <1>0, <1>2 DEF PushRecord, Settle, Settled, QueueTypeOK
  <2>4. QED
    BY <1>1, <2>1, <2>2, <2>3, OrderedShrinks
<1>3. ASSUME NEW j \in Jobs, RedriveTake(c, j) \/ DiscardTake(c, j)
      PROVE  Ordered'
  <2>1. UNCHANGED waiting /\ order' = Without(j)
    BY <1>0, <1>3 DEF RedriveTake, DiscardTake, Reorder, At, Begin, Call, QueueTypeOK
  <2>2. \A i \in Jobs : Listed(i)' => i # j
    BY <2>1 DEF Listed, Without
  <2>3. \A i \in Jobs : i # j => (Settled(i)' <=> Settled(i))
    BY <1>0, <1>3 DEF RedriveTake, DiscardTake, TakeDlq, Settle, Settled, QueueTypeOK
  <2>4. QED
    BY <1>1, <2>1, <2>2, <2>3, OrderedShrinks
<1>4. CASE PushList(c)
  BY <1>0, <1>4, PushListOrdered
<1>5. CASE PushDelay(c) \/ RedriveSet(c) \/ DiscardDelete(c)
  <2>1. UNCHANGED <<waiting, order, dlq, fate>>
    BY <1>0, <1>5 DEF PushDelay, RedriveSet, DiscardDelete, Reorder, At, history
  <2>2. QED
    BY <1>1, <2>1, OrderedShrinks DEF Settled
<1>6. QED
  BY <1>0, <1>2, <1>3, <1>4, <1>5 DEF ClientStep

LEMMA MoveListOrdered ==
  ASSUME TypeOK, AllSafe, Ordered, \A q, r \in Pollers : q = r,
         NEW p \in Pollers, MoveList(p), UNCHANGED order
  PROVE  Ordered'
<1>1. PICK d \in Jobs : d = call[p].job
  BY DEF MoveList, At, TypeOK, QueueTypeOK, HoldPCs, Callers
<1>2. /\ waiting \in Seq(Jobs) /\ RPush(d) /\ UNCHANGED <<dlq, fate, order>>
  BY <1>1 DEF MoveList, TypeOK, QueueTypeOK, history
<1>3. \A i \in Jobs : ~ InWork(i) /\ ~ InWork(i)' /\ (Settled(i)' <=> Settled(i))
  BY <1>2 DEF MoveList, At, Begin, Call, TypeOK, QueueTypeOK, Callers, InWork, Working, WorkPCs, Settled
<1>4. ~ Listed(d)
  <2>1. p \in Callers /\ Holds(p, d) /\ Safe(d)
    BY <1>1 DEF MoveList, At, Holds, HoldPCs, Callers, AllSafe
  <2>2. ~ InWaiting(d) /\ ~ Settled(d)
    BY <2>1 DEF Safe, Sound, Alone, Held, Located, Settled
  <2>3. QED
    BY <1>3, <2>2 DEF Ordered, Kept
<1>5. \A i \in Jobs : InWaiting(i) => InWaiting(i)'
  BY <1>2, PushedWaits DEF WaitsAlike
<1>6. \A k \in DOMAIN waiting' : (k \in DOMAIN waiting /\ waiting'[k] = waiting[k]) \/ waiting'[k] = d
  BY <1>2, Indices
<1>7. Closed' /\ Kept'
  BY <1>2, <1>3, <1>5 DEF Ordered, Closed, Kept, Listed
<1>8. ASSUME NEW i \in Jobs, NEW k \in Jobs, Precedes(i, k)', ~ Settled(i)'
      PROVE  Behind(i, k)'
  <2>1. Precedes(i, k) /\ ~ Settled(i) /\ i # d /\ k # d
    BY <1>2, <1>3, <1>4, <1>8 DEF Precedes, Ordered, Closed
  <2>2. QED
    BY <1>3, <1>6, <2>1 DEF Ordered, InTurn, Behind
<1>9. QED
  BY <1>7, <1>8 DEF Ordered, InTurn

LEMMA PopTakeOrdered ==
  ASSUME TypeOK, AllSafe, Ordered, \A q, r \in Pollers : q = r,
         NEW p \in Pollers, PopTake(p), UNCHANGED order
  PROVE  Ordered'
<1>1. /\ waiting \in Seq(Jobs) /\ waiting # << >> /\ RPop
      /\ UNCHANGED <<dlq, fate, order>>
  BY DEF PopTake, TypeOK, QueueTypeOK, history
<1>2. PICK j \in Jobs : j = waiting[Len(waiting)]
  BY <1>1, PoppedLeaves
<1>3. \A i \in Jobs : ~ InWork(i) /\ (InWork(i)' <=> i = j) /\ (Settled(i)' <=> Settled(i))
  <2>1. call'[p] = Call("pop.activate", j, 0) /\ call[p].pc = "poll" /\ p \in Callers
    BY <1>2 DEF PopTake, At, Begin, TypeOK, QueueTypeOK, Callers
  <2>2. QED
    BY <1>1, <2>1 DEF InWork, Working, WorkPCs, Settled, Call
<1>4. \A i \in Jobs : i # j => (InWaiting(i)' <=> InWaiting(i))
  BY <1>1, <1>2, PoppedLeaves DEF WaitsAlike
<1>5. /\ \A k \in DOMAIN waiting' : k \in DOMAIN waiting /\ waiting'[k] = waiting[k]
      /\ Len(waiting) \in DOMAIN waiting
      /\ \A k \in DOMAIN waiting : k <= Len(waiting) /\ k \in Int
  <2>1. Len(waiting) \in Nat \ {0} /\ Len(waiting) - 1 \in 0..Len(waiting)
    BY <1>1, EmptySeq
  <2>2. waiting' = [i \in 1..Len(waiting) - 1 |-> waiting[i]]
    BY <1>1, <2>1, SubSeqRestrict DEF RPop, Restrict
  <2>3. QED
    BY <1>1, <2>1, <2>2
<1>6. Closed' /\ Kept'
  BY <1>1, <1>3, <1>4 DEF Ordered, Closed, Kept, Listed
<1>7. ASSUME NEW i \in Jobs, NEW k \in Jobs, Precedes(i, k)', ~ Settled(i)'
      PROVE  Behind(i, k)'
  <2>1. Precedes(i, k) /\ ~ Settled(i)
    BY <1>1, <1>3, <1>7 DEF Precedes
  <2>2. Behind(i, k)
    BY <2>1 DEF Ordered, InTurn
  <2>3. k # j
    <3>1. Listed(i) /\ InWaiting(i)
      BY <1>3, <2>1 DEF Ordered, Closed, Kept, Precedes
    <3>2. PICK l \in DOMAIN waiting : waiting[l] = i
      BY <3>1 DEF InWaiting
    <3>3. k = j => Len(waiting) < l
      BY <1>2, <1>5, <2>2, <3>2 DEF Behind
    <3>4. QED
      BY <1>1, <1>5, <3>2, <3>3
  <2>4. QED
    BY <1>3, <1>5, <2>2, <2>3 DEF Behind
<1>8. QED
  BY <1>6, <1>7 DEF Ordered, InTurn

\* The other steps of the loop list no job, take none, and leave the one it
\* works on only once it is settled.
Leaves(p) ==
  /\ UNCHANGED waiting
  /\ \A j \in Jobs : /\ Settled(j) => Settled(j)'
                     /\ Working(p, j)' => Working(p, j)
                     /\ Working(p, j) => Working(p, j)' \/ Settled(j)'

LEMMA ProcessLeaves ==
  ASSUME QueueTypeOK, NEW p \in Callers, Process(p)
  PROVE  Leaves(p)
<1> USE DEF Leaves, QueueTypeOK, Working, WorkPCs, Settled, At, Goto, Return, Idle, Call, store, history
<1>1. CASE HandlerOk(p)
  BY <1>1 DEF HandlerOk, Settle
<1>2. CASE HandlerErr(p)
  BY <1>2 DEF HandlerErr
<1>3. CASE RetryNow(p)
  BY <1>3 DEF RetryNow
<1>4. CASE AckRemove(p) \/ AckDelete(p)
  BY <1>4 DEF AckRemove, AckDelete
<1>5. CASE DlqRemove(p) \/ DlqDelete(p)
  BY <1>5 DEF DlqRemove, DlqDelete
<1>6. CASE DlqPush(p)
  BY <1>6 DEF DlqPush, LPushDlq
<1>7. QED
  BY <1>1, <1>2, <1>3, <1>4, <1>5, <1>6 DEF Process, Ack, MoveToDlq

LEMMA LoopLeaves ==
  ASSUME QueueTypeOK, NEW p \in Pollers, Plain!LoopStep(p)
  PROVE  Leaves(p) \/ MoveList(p) \/ PopTake(p)
<1>0. p \in Callers
  BY DEF Callers
<1>1. CASE Process(p)
  BY <1>0, <1>1, ProcessLeaves
<1> USE <1>0 DEF Leaves, QueueTypeOK, Working, WorkPCs, Settled, At, Begin, Goto, Call, store, history
<1>2. CASE Handle(p)
  BY <1>2 DEF Handle
<1>3. CASE MoveBegin(p) \/ MoveEnd(p)
  BY <1>3 DEF MoveBegin, MoveEnd
<1>4. ASSUME NEW j \in Jobs, MoveTake(p, j) \/ MoveSkip(p, j)
      PROVE  Leaves(p)
  BY <1>4 DEF MoveTake, MoveSkip
<1>5. CASE PopEmpty(p, "idle") \/ PopActivate(p) \/ PopRead(p)
  BY <1>5 DEF PopEmpty, PopActivate, PopRead
<1>6. CASE PopGhost(p, "idle")
  BY <1>6 DEF PopGhost, Settle
<1>7. QED
  BY <1>1, <1>2, <1>3, <1>4, <1>5, <1>6, PlainLoop DEF Move

\* With one loop, what it works on is all there is in work.
LEMMA OnlyLoop ==
  ASSUME \A q, r \in Pollers : q = r, NEW p \in Pollers, NEW j \in Jobs
  PROVE  (InWork(j) <=> Working(p, j)) /\ (InWork(j)' <=> Working(p, j)')
  BY DEF InWork

LEMMA LoopOrdered ==
  ASSUME TypeOK, AllSafe, Ordered, \A q, r \in Pollers : q = r,
         NEW p \in Pollers, Plain!LoopStep(p)
  PROVE  Ordered'
<1>1. UNCHANGED order /\ (Leaves(p) \/ MoveList(p) \/ PopTake(p))
  BY PlainLoop, LoopLeaves DEF TypeOK
<1>2. CASE Leaves(p)
  <2>1. \A j \in Jobs : /\ Settled(j) => Settled(j)'
                        /\ InWork(j)' => InWork(j)
                        /\ InWork(j) => InWork(j)' \/ Settled(j)'
    BY <1>2, OnlyLoop DEF Leaves
  <2>2. UNCHANGED waiting
    BY <1>2 DEF Leaves
  <2>3. QED
    BY <1>1, <2>1, <2>2, OrderedShrinks
<1>3. QED
  BY <1>1, <1>2, MoveListOrdered, PopTakeOrdered

\* The abort of the loop settles the job it works on.
LEMMA UnsubscribeOrdered ==
  ASSUME TypeOK, AllSafe, Ordered, \A q, r \in Pollers : q = r,
         NEW p \in Pollers, Plain!Unsubscribe(p)
  PROVE  Ordered'
<1>1. /\ call' = [call EXCEPT ![p] = Call("idle", NoJob, 0)]
      /\ fate' = [j \in Jobs |-> IF Holds(p, j) THEN "stranded" ELSE fate[j]]
      /\ UNCHANGED <<waiting, dlq, order>>
  BY PlainUnsubscribe DEF Return, Idle, store
<1>2. ASSUME NEW j \in Jobs
      PROVE  /\ Settled(j) => Settled(j)'
             /\ InWork(j)' => InWork(j)
             /\ InWork(j) => InWork(j)' \/ Settled(j)'
  <2>1. Settled(j) => Settled(j)'
    BY <1>1 DEF Settled
  <2>2. ~ Working(p, j)'
    BY <1>1 DEF Working, WorkPCs, Call, TypeOK, QueueTypeOK, Callers
  <2>3. Working(p, j) => Settled(j)'
    BY <1>1, WorkingHolds DEF AllSafe, Settled
  <2>4. QED
    BY <2>1, <2>2, <2>3, OnlyLoop
<1>3. QED
  BY <1>1, <1>2, OrderedShrinks

\* No step of a queue with concurrency 1 and one loop takes it out of order.
LEMMA NextOrdered ==
  ASSUME ModesTypeOK, AllSafe, \A q, r \in Pollers : q = r,
         ~ Grouped => Ordered, [ModesNext]_modeVars
  PROVE  (~ Grouped => Ordered)'
<1> SUFFICES ASSUME ~ Grouped, ~ Grouped'
             PROVE  Ordered'
  BY DEF ModesNext, modeVars, Grouped
<1>0. TypeOK /\ NoTasks /\ Ordered
  BY DEF ModesTypeOK
<1>1. ASSUME UNCHANGED <<call, waiting, order, dlq, fate>>
      PROVE  Ordered'
  BY <1>0, <1>1, OrderedShrinks DEF InWork, Working, Settled
<1>2. ASSUME NEW c \in Clients, GroupClient(c)
      PROVE  Ordered'
  BY <1>0, <1>2, ClientOrdered DEF GroupClient
<1>3. ASSUME NEW j \in Jobs, BecomeDue(j), UNCHANGED order
      PROVE  Ordered'
  BY <1>1, <1>3 DEF BecomeDue, history
<1>4. ASSUME NEW p \in Pollers, SubscribeMode(p)
      PROVE  Ordered'
  BY <1>1, <1>4, PlainSubscribe DEF SubscribeMode, queueVars, store, history
<1>5. ASSUME NEW p \in Pollers, UnsubscribeMode(p)
      PROVE  Ordered'
  BY <1>0, <1>5, UnsubscribeOrdered DEF UnsubscribeMode
<1>6. ASSUME NEW p \in Pollers, Loop(p)
      PROVE  Ordered'
  BY <1>0, <1>6, LoopOrdered DEF Loop
<1>7. ASSUME NEW t \in Tasks
      PROVE  ~ TaskStep(t)
  BY <1>0, ProcessCall DEF TaskStep, Callers, NoTasks, TypeOK
<1>8. ASSUME NEW p \in Pollers
      PROVE  groups[p] = {}
  BY <1>0 DEF NoTasks
<1>9. CASE UNCHANGED modeVars
  BY <1>1, <1>9 DEF modeVars, vars, queueVars, store, history
<1>10. CASE ModesNext
  BY <1>2, <1>3, <1>4, <1>5, <1>6, <1>7, <1>8, <1>10 DEF ModesNext
<1>11. QED
  BY <1>9, <1>10

LEMMA InitOrdered == ModesInit => Ordered
  BY DEF ModesInit, Init, Ordered, Closed, Kept, InTurn, Listed, Precedes

(***************************************************************************)
(* With concurrency 1 a job runs only when every job pushed before it is   *)
(* settled, for queues with one loop: two would run jobs side by side.     *)
(***************************************************************************)
THEOREM FifoOrderHolds ==
  ASSUME \A q, r \in Pollers : q = r
  PROVE  ModesSpec => []FifoOrder
<1>1. ModesInit => Ordered
  BY InitOrdered
<1>2. ModesTypeOK /\ AllSafe /\ (~ Grouped => Ordered) /\ [ModesNext]_modeVars
        => (~ Grouped => Ordered)'
  BY NextOrdered
<1>3. ModesTypeOK /\ (~ Grouped => Ordered) => FifoOrder
  <2> SUFFICES ASSUME ModesTypeOK, Ordered, NEW p \in Pollers, Plain!At(p, "handling"),
                      NEW i \in Jobs, Plain!Precedes(i, call[p].job)
               PROVE  Plain!Settled(i)
    BY DEF FifoOrder, Plain!FifoOrder
  <2>1. call[p].job \in Jobs /\ Precedes(i, call[p].job) /\ InWork(call[p].job)
    BY DEF Plain!At, Plain!Precedes, Precedes, InWork, Working, WorkPCs, ModesTypeOK, TypeOK,
           QueueTypeOK, HoldPCs, Callers
  <2>2. Settled(i)
    BY <2>1 DEF Ordered, InTurn, Behind
  <2>3. QED
    BY <2>2 DEF Settled, Plain!Settled
<1>4. QED
  BY <1>1, <1>2, <1>3, Invariance, PTL DEF ModesSpec

-----------------------------------------------------------------------------
(***************************************************************************)
(* A queue with one loop implements FifoLifecycle: each step is a step of  *)
(* one job's life, the abort of the loop, or changes nothing in any life.  *)
(* To the invariants above it takes that a loop with tasks runs no handler *)
(* itself.                                                                 *)
(***************************************************************************)
LoopPCs == {"idle", "move", "move.list", "poll", "pop.activate", "pop.read", "popped",
            "requeue", "requeue.lrem"}
LoopsLoop == \A p \in Pollers : call[p].pc \in LoopPCs

Strong ==
  /\ ModesTypeOK
  /\ AllSafe
  /\ \A p \in Pollers : Room(p)
  /\ ~ Grouped => Ordered
  /\ Grouped => LoopsLoop

LEMMA LoopGoes ==
  ASSUME QueueTypeOK, NEW p \in Pollers, call[p].pc \in LoopPCs, LoopStep(p)
  PROVE  call'[p].pc \in LoopPCs
<1>0. p \in Callers /\ \A t \in TasksOf(p) : t # p
  BY TaskNames DEF Callers
<1> USE <1>0 DEF QueueTypeOK, Begin, Goto, Return, Idle, Call, LoopPCs
<1>1. CASE Move(p)
  BY <1>1 DEF Move, MoveBegin, MoveTake, MoveSkip, MoveList, MoveEnd
<1>2. CASE Pop(p)
  BY <1>2 DEF Pop, PopEmpty, PopTake, PopActivate, PopRead, PopGhost
<1>3. CASE EndPops(p) \/ Skip(p)
  BY <1>3 DEF EndPops, Skip
<1>4. ASSUME NEW t \in TasksOf(p), Spawn(p, t)
      PROVE  call'[p].pc \in LoopPCs
  BY <1>4 DEF Spawn
<1>5. CASE RequeuePush(p) \/ RequeueRemove(p) \/ RequeueEnd(p)
  BY <1>5 DEF RequeuePush, RequeueRemove, RequeueEnd
<1>6. QED
  BY <1>1, <1>2, <1>3, <1>4, <1>5 DEF LoopStep

LEMMA NextLoops ==
  ASSUME ModesTypeOK, Grouped, LoopsLoop, [ModesNext]_modeVars
  PROVE  LoopsLoop'
<1> SUFFICES ASSUME NEW p \in Pollers
             PROVE  call'[p].pc \in LoopPCs
  BY DEF LoopsLoop
<1>0. QueueTypeOK /\ p \in Callers /\ call[p].pc \in LoopPCs
  BY DEF ModesTypeOK, TypeOK, Callers, LoopsLoop
<1>1. ASSUME NEW c \in Callers, OthersGoOn(c), c # p
      PROVE  call'[p].pc \in LoopPCs
  BY <1>0, <1>1 DEF OthersGoOn
<1>2. ASSUME UNCHANGED call
      PROVE  call'[p].pc \in LoopPCs
  BY <1>0, <1>2
<1>3. ASSUME NEW c \in Clients, GroupClient(c)
      PROVE  call'[p].pc \in LoopPCs
  BY <1>0, <1>1, <1>3, ClientCall, CallerAssumption DEF GroupClient, Client, Callers
<1>4. ASSUME NEW t \in Tasks, TaskStep(t)
      PROVE  call'[p].pc \in LoopPCs
  BY <1>0, <1>1, <1>4, ProcessCall, CallerAssumption DEF TaskStep, Callers, Tasks
<1>5. ASSUME NEW q \in Pollers, UnsubscribeMode(q)
      PROVE  call'[p].pc \in LoopPCs
  <2>1. Return(q)
    BY <1>5, PlainUnsubscribe DEF UnsubscribeMode, Unsubscribe
  <2>2. call'[p] = IF p = q THEN Call("idle", NoJob, 0) ELSE call[p]
    BY <1>0, <2>1 DEF Return, Idle, QueueTypeOK
  <2>3. QED
    BY <1>0, <2>2 DEF Call, LoopPCs
<1>6. ASSUME NEW q \in Pollers, Loop(q)
      PROVE  call'[p].pc \in LoopPCs
  <2>1. LoopStep(q) /\ q \in Callers
    BY <1>6 DEF Loop, Callers
  <2>2. CASE q = p
    BY <1>0, <2>1, <2>2, LoopGoes
  <2>3. CASE q # p
    <3>1. ASSUME NEW t \in TasksOf(q), Spawn(q, t)
          PROVE  call'[p] = call[p]
      BY <1>0, <2>3, <3>1, TaskNames DEF Spawn, QueueTypeOK
    <3>2. QED
      BY <1>0, <1>1, <2>1, <2>3, <3>1, LoopCall
  <2>4. QED
    BY <2>2, <2>3
<1>7. ASSUME NEW q \in Pollers, SubscribeMode(q)
      PROVE  UNCHANGED call
  BY <1>7 DEF SubscribeMode, Subscribe, queueVars
<1>8. ASSUME NEW j \in Jobs, BecomeDue(j)
      PROVE  UNCHANGED call
  BY <1>8 DEF BecomeDue
<1>9. ASSUME NEW q \in Pollers, NEW g \in groups[q], Release(q, g)
      PROVE  UNCHANGED call
  BY <1>9 DEF Release, queueVars
<1>10. CASE UNCHANGED modeVars
  BY <1>2, <1>10 DEF modeVars, vars, queueVars
<1>11. CASE ModesNext
  BY <1>2, <1>3, <1>4, <1>5, <1>6, <1>7, <1>8, <1>9, <1>11 DEF ModesNext
<1>12. QED
  BY <1>10, <1>11

LEMMA StrongInvariance ==
  ASSUME IsFiniteSet(Permits), \A q, r \in Pollers : q = r
  PROVE  ModesSpec => []Strong
<1>1. ModesInit => Strong
  <2> SUFFICES ASSUME ModesInit
               PROVE  Strong
    OBVIOUS
  <2>1. ModesTypeOK /\ AllSafe
    BY InitType, InitSafe
  <2>2. \A p \in Pollers : Room(p)
    BY InitRoom
  <2>3. Ordered
    BY InitOrdered
  <2>4. LoopsLoop
    BY DEF ModesInit, Init, QueueInit, LoopsLoop, LoopPCs, Idle, Call, Callers
  <2>5. QED
    BY <2>1, <2>2, <2>3, <2>4 DEF Strong
<1>2. Strong /\ [ModesNext]_modeVars => Strong'
  <2> SUFFICES ASSUME Strong, [ModesNext]_modeVars
               PROVE  Strong'
    OBVIOUS
  <2>1. ModesTypeOK' /\ AllSafe'
    BY NextType, NextSafe DEF Strong, AllSafe
  <2>2. \A p \in Pollers : Room(p)'
    BY NextRoom DEF Strong
  <2>3. (~ Grouped => Ordered)'
    BY NextOrdered DEF Strong
  <2>4. (Grouped => LoopsLoop)'
    BY NextLoops DEF Strong, ModesNext, modeVars, Grouped
  <2>5. QED
    BY <2>1, <2>2, <2>3, <2>4 DEF Strong
<1>3. QED
  BY <1>1, <1>2, PTL DEF ModesSpec

-----------------------------------------------------------------------------
(***************************************************************************)
(* How steps move the stage of a job.                                      *)
(***************************************************************************)
RunPCs == {"handling", "backoff"}
Workers == Pollers \cup Tasks
RunBy(c, j) == call[c].job = j /\ call[c].pc \in RunPCs

Allowed == [Lifecycle!FifoNext]_(Lifecycle!fifoVars)

LEMMA StageKept ==
  ASSUME NEW j \in Jobs, UNCHANGED <<fate[j], failures[j]>>,
         \A c \in Workers : RunBy(c, j)' <=> RunBy(c, j)
  PROVE  StageOf(j)' = StageOf(j)
<1>1. Running(j)' <=> Running(j)
  BY DEF Running, RunBy, RunPCs, Workers
<1>2. QED
  BY <1>1 DEF StageOf

LEMMA StageMoves ==
  ASSUME NEW j \in Jobs, NEW from, NEW to, StageOf(j) = from, StageOf(j)' = to,
         \A k \in Jobs \ {j} : StageOf(k)' = StageOf(k)
  PROVE  Lifecycle!To(j, from, to)
  BY DEF Lifecycle!To

LEMMA StagesKept ==
  ASSUME \A k \in Jobs : StageOf(k)' = StageOf(k), UNCHANGED <<failures, raced>>
  PROVE  UNCHANGED Lifecycle!vars
  BY DEF Lifecycle!vars

LEMMA StrictKept ==
  ASSUME UNCHANGED concurrency
  PROVE  (~ Grouped)' = (~ Grouped)
  BY DEF Grouped

LEMMA JobStep ==
  ASSUME NEW j \in Jobs, Lifecycle!JobNext(j), UNCHANGED concurrency
  PROVE  Allowed
  BY StrictKept DEF Allowed, Lifecycle!FifoNext

\* No job changes its fate, and what runs goes on.
LEMMA QuietStep ==
  ASSUME UNCHANGED <<history, order, concurrency>>,
         \A c \in Workers, j \in Jobs : RunBy(c, j)' <=> RunBy(c, j)
  PROVE  Allowed
<1>1. UNCHANGED Lifecycle!vars
  BY StageKept, StagesKept DEF history
<1>2. QED
  BY <1>1, StrictKept DEF Allowed, Lifecycle!fifoVars

\* The caller that takes the step is at no handler, before and after it.
LEMMA NoHandler ==
  ASSUME NEW c \in Callers, OthersGoOn(c),
         c \in Workers => call[c].pc \notin RunPCs /\ call'[c].pc \notin RunPCs
  PROVE  \A d \in Workers, j \in Jobs : RunBy(d, j)' <=> RunBy(d, j)
  BY DEF RunBy, OthersGoOn, Workers, Callers

\* A job that is listed, skipped or in the hand of a caller at no handler is
\* not running.
LEMMA NotRunning ==
  ASSUME AllSafe, NEW j \in Jobs,
         \/ InWaiting(j) \/ delayed[j] # "none" \/ dlq[j] > 0 \/ Skips(j) \/ fate[j] # "live"
         \/ \E c \in Callers : Holds(c, j) /\ call[c].pc \notin RunPCs
  PROVE  ~ Running(j)
<1> SUFFICES ASSUME NEW d \in Callers, RunBy(d, j)
             PROVE  FALSE
  BY DEF Running, RunBy, RunPCs, Callers
<1>1. Holds(d, j) /\ Safe(j)
  BY DEF RunBy, RunPCs, Holds, HoldPCs, AllSafe
<1>2. Held(j) /\ Located(j)
  BY <1>1 DEF Held, Located
<1>3. QED
  BY <1>1, <1>2 DEF Safe, Sound, Alone, RunBy, Live

\* A live job that is not running and has attempts left is queued.
LEMMA Queued ==
  ASSUME NEW j \in Jobs, QueueTypeOK, fate[j] = "live", ~ Running(j), failures[j] < MaxAttempts
  PROVE  StageOf(j) = "queued"
<1>1. failures[j] # MaxAttempts
  BY MaxAttemptsAssumption DEF QueueTypeOK
<1>2. QED
  BY <1>1 DEF StageOf

LEMMA SettledStage ==
  ASSUME QueueTypeOK, AllSafe, NEW j \in Jobs, Settled(j)
  PROVE  StageOf(j) \notin {"queued", "running"}
<1>1. CASE fate[j] # "live"
  BY <1>1 DEF StageOf, QueueTypeOK
<1>2. CASE dlq[j] > 0
  <2>1. failures[j] = MaxAttempts /\ ~ Running(j)
    BY <1>2, NotRunning DEF AllSafe, Safe, Sound, Count, Tally
  <2>2. QED
    BY <1>1, <2>1 DEF StageOf
<1>3. QED
  BY <1>1, <1>2 DEF Settled

LEMMA DeadStage ==
  ASSUME AllSafe, NEW j \in Jobs, dlq[j] > 0
  PROVE  StageOf(j) = "dead"
<1>1. failures[j] = MaxAttempts /\ ~ Running(j)
  BY NotRunning DEF AllSafe, Safe, Sound, Count, Tally
<1>2. Safe(j) /\ Located(j)
  BY DEF AllSafe, Located
<1>3. QED
  BY <1>1, <1>2 DEF StageOf, Safe

-----------------------------------------------------------------------------
\* The calls of a client.
LEMMA ClientImplements ==
  ASSUME Strong, NEW c \in Clients, ClientStep(c), Reorder(c), UNCHANGED concurrency
  PROVE  Allowed
<1>0. /\ QueueTypeOK /\ AllSafe /\ c \in Callers
      /\ \A d \in Workers, j \in Jobs : RunBy(d, j)' <=> RunBy(d, j)
  <2>1. QueueTypeOK /\ AllSafe /\ c \in Callers /\ OthersGoOn(c) /\ c \notin Workers
    BY ClientCall, CallerAssumption DEF Strong, ModesTypeOK, TypeOK, Callers, Workers, Tasks
  <2>2. QED
    BY <2>1, NoHandler
<1>1. ASSUME NEW j \in Jobs, NEW pc \in {"push.list", "push.delay"}, PushRecord(c, j, pc)
      PROVE  Allowed
  <2>1. fate[j] = "new" /\ failures[j] = 0 /\ ~ Running(j)
    BY <1>0, <1>1, NotRunning DEF PushRecord, AllSafe, Safe, Sound, Count, Tally
  <2>2. fate'[j] = "live" /\ failures'[j] = 0 /\ \A k \in Jobs \ {j} : fate'[k] = fate[k]
    BY <1>0, <1>1, <2>1 DEF PushRecord, Settle, QueueTypeOK
  <2>3. ~ Running(j)'
    BY <1>0, <2>1 DEF Running, RunBy, RunPCs, Workers
  <2>4. StageOf(j) = "new" /\ StageOf(j)' = "queued"
    BY <2>1, <2>2, <2>3, MaxAttemptsAssumption DEF StageOf
  <2>5. \A k \in Jobs \ {j} : StageOf(k)' = StageOf(k)
    BY <1>0, <1>1, <2>2, StageKept DEF PushRecord
  <2>6. Lifecycle!Submit(j)
    BY <1>1, <2>4, <2>5, StageMoves DEF Lifecycle!Submit, PushRecord
  <2>7. order' = Without(j)
    BY <1>0, <1>1 DEF PushRecord, Reorder, At, Begin, Call, QueueTypeOK
  <2>8. QED
    BY <2>6, <2>7, JobStep DEF Lifecycle!JobNext, Lifecycle!Unlist, Lifecycle!Without, Without
<1>2. CASE PushList(c)
  <2>1. PICK j \in Jobs : j = call[c].job
    BY <1>0, <1>2 DEF PushList, At, QueueTypeOK, HoldPCs
  <2>2. Holds(c, j) /\ call[c].pc = "push.list"
    BY <1>2, <2>1 DEF PushList, At, Holds, HoldPCs
  <2>3. fate[j] = "live" /\ failures[j] < MaxAttempts
    BY <1>0, <2>1, <2>2 DEF AllSafe, Safe, Located, Held, Sound, Count, Work, Fresh, FreshPCs
  <2>4. StageOf(j) = "queued"
    BY <1>0, <2>2, <2>3, NotRunning, Queued DEF RunPCs
  <2>5. order' = Newest(j)
    BY <1>2, <2>1 DEF PushList, Reorder
  <2>6. \A k \in Jobs : StageOf(k)' = StageOf(k)
    BY <1>0, <1>2, StageKept DEF PushList, history
  <2>7. UNCHANGED Lifecycle!vars
    BY <1>2, <2>6, StagesKept DEF PushList, history
  <2>8. Lifecycle!Enlist(j)
    BY <2>4, <2>5, <2>7
    DEF Lifecycle!Enlist, Lifecycle!Without, Newest, Without, Listed
  <2>9. QED
    BY <2>8, JobStep DEF Lifecycle!JobNext
<1>3. CASE PushDelay(c) \/ DiscardDelete(c)
  <2>1. UNCHANGED <<history, order>>
    BY <1>3 DEF PushDelay, DiscardDelete, Reorder, At
  <2>2. QED
    BY <1>0, <2>1, QuietStep
<1>4. ASSUME NEW j \in Jobs, RedriveTake(c, j)
      PROVE  Allowed
  <2>1. StageOf(j) = "dead"
    BY <1>0, <1>4, DeadStage DEF RedriveTake, TakeDlq
  <2>2. order' = Without(j)
    BY <1>0, <1>4 DEF RedriveTake, Reorder, At, Begin, Call, QueueTypeOK
  <2>3. \A k \in Jobs : StageOf(k)' = StageOf(k)
    BY <1>0, <1>4, StageKept DEF RedriveTake
  <2>4. raced' = raced \/ raced' = raced \cup {j}
    BY <1>4 DEF RedriveTake
  <2>5. UNCHANGED Lifecycle!vars \/ Lifecycle!Expose(j)
    <3>1. CASE raced' = raced
      BY <1>4, <2>3, <3>1, StagesKept DEF RedriveTake
    <3>2. CASE raced' = raced \cup {j}
      BY <1>4, <2>1, <2>3, <3>2 DEF RedriveTake, Lifecycle!Expose
    <3>3. QED
      BY <2>4, <3>1, <3>2
  <2>6. Lifecycle!Revive(j)
    BY <2>1, <2>2, <2>5 DEF Lifecycle!Revive, Lifecycle!Unlist, Lifecycle!Without, Without
  <2>7. QED
    BY <2>6, JobStep DEF Lifecycle!JobNext
<1>5. ASSUME NEW j \in Jobs, DiscardTake(c, j)
      PROVE  Allowed
  <2>1. StageOf(j) = "dead"
    BY <1>0, <1>5, DeadStage DEF DiscardTake, TakeDlq
  <2>2. order' = Without(j)
    BY <1>0, <1>5 DEF DiscardTake, Reorder, At, Begin, Call, QueueTypeOK
  <2>3. fate'[j] = "discarded" /\ \A k \in Jobs \ {j} : fate'[k] = fate[k]
    BY <1>0, <1>5 DEF DiscardTake, Settle, QueueTypeOK
  <2>4. StageOf(j)' = "discarded"
    BY <2>3 DEF StageOf
  <2>5. \A k \in Jobs \ {j} : StageOf(k)' = StageOf(k)
    BY <1>0, <1>5, <2>3, StageKept DEF DiscardTake
  <2>6. Lifecycle!Discard(j)
    BY <1>5, <2>1, <2>4, <2>5, StageMoves DEF Lifecycle!Discard, DiscardTake
  <2>7. QED
    BY <2>2, <2>6, JobStep DEF Lifecycle!JobNext, Lifecycle!Unlist, Lifecycle!Without, Without
<1>6. CASE RedriveSet(c)
  <2>1. PICK j \in Jobs : j = call[c].job
    BY <1>0, <1>6 DEF RedriveSet, At, QueueTypeOK, HoldPCs
  <2>2. Holds(c, j) /\ call[c].pc = "redrive.set"
    BY <1>6, <2>1 DEF RedriveSet, At, Holds, HoldPCs
  <2>3. fate[j] = "live" /\ failures[j] = MaxAttempts /\ ~ Running(j)
    BY <1>0, <2>1, <2>2, NotRunning
    DEF AllSafe, Safe, Located, Held, Sound, Count, Work, RunPCs
  <2>4. failures' = [failures EXCEPT ![j] = 0] /\ failures'[j] = 0
    BY <1>0, <1>6, <2>1 DEF RedriveSet, QueueTypeOK
  <2>5. ~ Running(j)'
    BY <1>0, <2>3 DEF Running, RunBy, RunPCs, Workers
  <2>6. StageOf(j) = "dead" /\ StageOf(j)' = "queued"
    BY <1>6, <2>3, <2>4, <2>5, MaxAttemptsAssumption DEF StageOf, RedriveSet
  <2>7. \A k \in Jobs \ {j} : StageOf(k)' = StageOf(k)
    BY <1>0, <1>6, <2>4, StageKept DEF RedriveSet, QueueTypeOK
  <2>8. Lifecycle!Redrive(j)
    BY <1>6, <2>4, <2>6, <2>7, StageMoves DEF Lifecycle!Redrive, RedriveSet
  <2>9. UNCHANGED order
    BY <1>6 DEF RedriveSet, Reorder, At
  <2>10. QED
    BY <2>8, <2>9, JobStep DEF Lifecycle!JobNext
<1>7. QED
  BY <1>1, <1>2, <1>3, <1>4, <1>5, <1>6 DEF ClientStep

\* The handler of job j returns: no other caller has it.
LEMMA HandlerEnds ==
  ASSUME AllSafe, NEW c \in Workers, NEW j \in Jobs, RunBy(c, j), OthersGoOn(c)
  PROVE  /\ fate[j] = "live" /\ StageOf(j) = "running"
         /\ \A d \in Workers \ {c} : ~ RunBy(d, j) /\ ~ RunBy(d, j)'
         /\ call'[c].job = j =>
              \A d \in Workers, k \in Jobs \ {j} : RunBy(d, k)' <=> RunBy(d, k)
<1>0. c \in Callers /\ \A d \in Workers \ {c} : d \in Callers /\ call'[d] = call[d]
  BY DEF Workers, Callers, OthersGoOn
<1>1. Safe(j) /\ Holds(c, j) /\ \A d \in Workers : RunBy(d, j) => Holds(d, j)
  BY DEF AllSafe, RunBy, RunPCs, Holds, HoldPCs
<1>2. \A d \in Workers \ {c} : ~ RunBy(d, j) /\ ~ RunBy(d, j)'
  BY <1>0, <1>1 DEF Safe, Sound, Alone, RunBy
<1>3. fate[j] = "live" /\ StageOf(j) = "running"
  BY <1>0, <1>1 DEF Safe, Located, Held, StageOf, Running, RunBy, RunPCs, Workers
<1>4. call'[c].job = j => \A d \in Workers, k \in Jobs \ {j} : RunBy(d, k)' <=> RunBy(d, k)
  BY <1>0 DEF RunBy
<1>5. QED
  BY <1>2, <1>3, <1>4

LEMMA ProcessImplements ==
  ASSUME Strong, NEW c \in Workers, Process(c), UNCHANGED <<order, concurrency>>
  PROVE  Allowed
<1>0. QueueTypeOK /\ AllSafe /\ c \in Callers /\ OthersGoOn(c)
  BY ProcessCall DEF Strong, ModesTypeOK, TypeOK, Callers, Workers
<1>1. CASE HandlerOk(c)
  <2>1. PICK j \in Jobs : j = call[c].job
    BY <1>0, <1>1 DEF HandlerOk, At, QueueTypeOK, HoldPCs
  <2>2. RunBy(c, j) /\ call'[c].job = j /\ call'[c].pc = "ack.lrem"
    BY <1>0, <1>1, <2>1 DEF HandlerOk, At, RunBy, RunPCs, Goto, Call, QueueTypeOK
  <2>3. fate'[j] = "acked" /\ \A k \in Jobs \ {j} : fate'[k] = fate[k]
    BY <1>0, <1>1, <2>1 DEF HandlerOk, Settle, QueueTypeOK
  <2>4. StageOf(j) = "running" /\ StageOf(j)' = "acked"
    BY <1>0, <2>2, <2>3, HandlerEnds DEF StageOf
  <2>5. \A k \in Jobs \ {j} : StageOf(k)' = StageOf(k)
    BY <1>0, <1>1, <2>2, <2>3, HandlerEnds, StageKept DEF HandlerOk
  <2>6. Lifecycle!Succeed(j)
    BY <1>1, <2>4, <2>5, StageMoves DEF Lifecycle!Succeed, HandlerOk
  <2>7. QED
    BY <2>6, JobStep DEF Lifecycle!JobNext
<1>2. CASE HandlerErr(c)
  <2>1. PICK j \in Jobs : j = call[c].job
    BY <1>0, <1>2 DEF HandlerErr, At, QueueTypeOK, HoldPCs
  <2>2. RunBy(c, j) /\ call[c].pc = "handling"
    BY <1>2, <2>1 DEF HandlerErr, At, RunBy, RunPCs
  <2>3. failures[j] \in Nat /\ failures[j] < MaxAttempts /\ call[c].tries = failures[j]
    BY <1>0, <2>1, <2>2 DEF AllSafe, Safe, Sound, Count, Work, Fresh, FreshPCs, QueueTypeOK
  <2>4. /\ call'[c].job = j
        /\ call'[c].pc = IF failures[j] + 1 = MaxAttempts THEN "dlq.lrem" ELSE "backoff"
    BY <1>0, <1>2, <2>1, <2>3, MaxAttemptsAssumption
    DEF HandlerErr, IncrementAttempts, IsExhausted, Call, QueueTypeOK
  <2>5. /\ failures' = [failures EXCEPT ![j] = @ + 1]
        /\ failures'[j] = failures[j] + 1 /\ \A k \in Jobs \ {j} : failures'[k] = failures[k]
        /\ UNCHANGED <<fate, raced>>
    BY <1>0, <1>2, <2>1 DEF HandlerErr, QueueTypeOK
  <2>6. \A k \in Jobs \ {j} : StageOf(k)' = StageOf(k)
    BY <1>0, <2>2, <2>4, <2>5, HandlerEnds, StageKept
  <2>7. CASE failures[j] + 1 = MaxAttempts
    <3>1. ~ Running(j)'
      BY <1>0, <2>2, <2>4, <2>7, HandlerEnds DEF Running, RunBy, RunPCs, Workers
    <3>2. StageOf(j) = "running" /\ StageOf(j)' = "dead"
      BY <1>0, <2>2, <2>5, <2>7, <3>1, HandlerEnds DEF StageOf
    <3>3. Lifecycle!FailAtLast(j)
      BY <2>5, <2>6, <2>7, <3>2, StageMoves DEF Lifecycle!FailAtLast, Lifecycle!Fail
    <3>4. QED
      BY <3>3, JobStep DEF Lifecycle!JobNext
  <2>8. CASE failures[j] + 1 # MaxAttempts
    <3>1. Running(j)'
      BY <2>4, <2>8 DEF Running, Workers
    <3>2. StageOf(j) = "running" /\ StageOf(j)' = "running"
      BY <1>0, <2>2, <2>5, <3>1, HandlerEnds DEF StageOf
    <3>3. failures[j] + 1 < MaxAttempts
      BY <2>3, <2>8, MaxAttemptsAssumption
    <3>4. Lifecycle!FailAgain(j)
      BY <2>5, <2>6, <3>2, <3>3 DEF Lifecycle!FailAgain
    <3>5. QED
      BY <3>4, JobStep DEF Lifecycle!JobNext
  <2>9. QED
    BY <2>7, <2>8
<1>3. CASE RetryNow(c)
  <2>1. /\ call[c].pc \in RunPCs /\ call'[c].pc \in RunPCs /\ call'[c].job = call[c].job
        /\ UNCHANGED history
    BY <1>0, <1>3 DEF RetryNow, At, Goto, Call, RunPCs, QueueTypeOK
  <2>2. \A d \in Workers, k \in Jobs : RunBy(d, k)' <=> RunBy(d, k)
    BY <1>0, <2>1 DEF RunBy, OthersGoOn, Workers, Callers
  <2>3. QED
    BY <2>1, <2>2, QuietStep
<1>4. CASE Ack(c) \/ MoveToDlq(c)
  <2>1. call[c].pc \notin RunPCs /\ call'[c].pc \notin RunPCs /\ UNCHANGED history
    BY <1>0, <1>4 DEF Ack, AckRemove, AckDelete, MoveToDlq, DlqRemove, DlqPush, DlqDelete,
                      At, Goto, Return, Idle, Call, RunPCs, QueueTypeOK
  <2>2. QED
    BY <1>0, <2>1, NoHandler, QuietStep
<1>5. QED
  BY <1>1, <1>2, <1>3, <1>4 DEF Process

-----------------------------------------------------------------------------
\* The instance has a Cardinality of its own, defined as the one of FiniteSets.
LEMMA SameCardinality == \A S : Lifecycle!Cardinality(S) = Cardinality(S)
  BY Zenon DEF Cardinality, Lifecycle!Cardinality

\* A job popped is run: by a task, or in the loop.
LEMMA TurnTaken ==
  ASSUME QueueTypeOK, AllSafe, NEW p \in Pollers, NEW j \in Jobs, Holds(p, j), At(p, "popped"),
         NEW c \in Workers, RunBy(c, j)',
         \A k \in Jobs \ {j}, d \in Workers : RunBy(d, k)' <=> RunBy(d, k),
         UNCHANGED <<history, order, concurrency>>,
         \A i \in Jobs : StageOf(i) = "running" => Grouped /\ Group[i] # Group[j],
         Cardinality({k \in Jobs : StageOf(k) = "running"}) < MaxGroups,
         ~ Grouped => \A i \in Jobs : Precedes(i, j) => Settled(i)
  PROVE  Allowed
<1>0. p \in Callers /\ call[p].job = j /\ call[p].pc = "popped"
  BY DEF Callers, Holds, At
<1>1. fate[j] = "live" /\ failures[j] < MaxAttempts
  BY <1>0 DEF AllSafe, Safe, Located, Held, Sound, Count, Work, Fresh, FreshPCs
<1>2. StageOf(j) = "queued"
  BY <1>0, <1>1, NotRunning, Queued DEF RunPCs
<1>3. StageOf(j)' = "running"
  BY <1>1 DEF StageOf, Running, RunBy, RunPCs, Workers, history
<1>4. \A k \in Jobs \ {j} : StageOf(k)' = StageOf(k)
  BY StageKept DEF history
<1>5. Lifecycle!Start(j)
  <2>1. {k \in Jobs : [l \in Jobs |-> StageOf(l)][k] = "running"}
          = {k \in Jobs : StageOf(k) = "running"}
    OBVIOUS
  <2>2. Lifecycle!Cardinality({k \in Jobs : [l \in Jobs |-> StageOf(l)][k] = "running"}) < MaxGroups
    BY <2>1, SameCardinality
  <2>3. Lifecycle!To(j, "queued", "running")
    BY <1>2, <1>3, <1>4, StageMoves
  <2>4. QED
    BY <2>2, <2>3 DEF Lifecycle!Start, history
<1>6. ASSUME ~ Grouped, NEW i \in Jobs, Lifecycle!Before(i, j)
      PROVE  StageOf(i) \notin {"queued", "running"}
  BY <1>6, SettledStage DEF Lifecycle!Before, Precedes
<1>7. Lifecycle!TakeTurn(j)
  BY <1>5, <1>6 DEF Lifecycle!TakeTurn, Lifecycle!Waits
<1>8. QED
  BY <1>7, JobStep DEF Lifecycle!JobNext

\* A loop with tasks: the jobs that run are of groups it has marked.
LEMMA SpawnImplements ==
  ASSUME IsFiniteSet(Permits), Strong, Grouped, \A q, r \in Pollers : q = r, UNCHANGED <<order, concurrency>>,
         NEW p \in Pollers, NEW t \in TasksOf(p), Spawn(p, t)
  PROVE  Allowed
<1>0. /\ QueueTypeOK /\ AllSafe /\ Room(p) /\ p \in Callers /\ t \in Callers /\ t # p
      /\ t \in Workers /\ LoopsLoop /\ call[p].pc = "popped" /\ At(t, "idle")
  BY TaskNames DEF Strong, ModesTypeOK, TypeOK, Callers, Workers, Spawn, At
<1>1. PICK j \in Jobs : j = call[p].job
  BY <1>0 DEF QueueTypeOK, HoldPCs
<1>2. Holds(p, j) /\ Group[j] \notin groups[p] /\ ~ Full(p)
  BY <1>0, <1>1 DEF Holds, HoldPCs, Spawn, Room, RoundPCs
<1>3. \A d \in Callers :
        call'[d] = IF d = p THEN Call("poll", NoJob, 0)
                   ELSE IF d = t THEN Call("handling", j, call[p].tries) ELSE call[d]
  BY <1>0, <1>1 DEF Spawn, QueueTypeOK
<1>4. RunBy(t, j)'
  BY <1>0, <1>3 DEF RunBy, RunPCs, Call
<1>5. \A k \in Jobs \ {j}, d \in Workers : RunBy(d, k)' <=> RunBy(d, k)
  BY <1>0, <1>3 DEF RunBy, RunPCs, Call, At, Workers, Callers
<1>6. ASSUME NEW i \in Jobs, StageOf(i) = "running"
      PROVE  \E u \in TasksOf(p) : RunBy(u, i) /\ ~ At(u, "idle") /\ Group[i] \in groups[p]
  <2>1. Running(i)
    BY <1>0, <1>6 DEF StageOf, QueueTypeOK
  <2>2. PICK u \in Workers : RunBy(u, i)
    BY <2>1 DEF Running, RunBy, RunPCs, Workers
  <2>3. u \in TasksOf(p)
    BY <1>0, <2>2 DEF Workers, LoopsLoop, LoopPCs, RunBy, RunPCs, Tasks, TasksOf
  <2>4. QED
    BY <1>0, <2>2, <2>3 DEF Room, RunBy, RunPCs, At
<1>7. Cardinality({k \in Jobs : StageOf(k) = "running"}) < MaxGroups
  <2> DEFINE R == {k \in Jobs : StageOf(k) = "running"}
             f == [k \in R |-> Group[k]]
  <2>1. f \in Injection(R, groups[p])
    <3>1. f \in [R -> groups[p]]
      BY <1>6
    <3>2. ASSUME NEW k \in R, NEW l \in R, Group[k] = Group[l]
          PROVE  k = l
      <4>1. PICK u \in TasksOf(p) : RunBy(u, k) /\ ~ At(u, "idle")
        BY <1>6
      <4>2. PICK v \in TasksOf(p) : RunBy(v, l) /\ ~ At(v, "idle")
        BY <1>6
      <4>3. u = v
        BY <1>0, <3>2, <4>1, <4>2 DEF Room, RunBy
      <4>4. QED
        BY <4>1, <4>2, <4>3 DEF RunBy
    <3>3. QED
      BY <3>1, <3>2 DEF Injection, IsInjective
  <2> HIDE DEF f
  <2>2. IsFiniteSet(groups[p]) /\ Cardinality(groups[p]) < MaxGroups /\ MaxGroups \in Nat
    <3>1. IsFiniteSet(groups[p]) /\ ~ Cardinality(groups[p]) >= MaxGroups
      BY <1>0, <1>2 DEF Room, Full
    <3>2. Cardinality(groups[p]) \in Nat /\ Cardinality(groups[p]) <= MaxGroups
      BY <1>0, <3>1, FS_CardinalityType DEF Room
    <3>3. MaxGroups \in Nat
      BY FS_CardinalityType DEF MaxGroups
    <3>4. QED
      BY <3>1, <3>2, <3>3
  <2>3. IsFiniteSet(R) /\ Cardinality(R) <= Cardinality(groups[p])
    BY <2>1, <2>2, FS_Injection
  <2>4. Cardinality(R) \in Nat /\ Cardinality(groups[p]) \in Nat
    BY <2>2, <2>3, FS_CardinalityType
  <2>5. QED
    BY <2>2, <2>3, <2>4
<1>8. UNCHANGED history /\ \A i \in Jobs : StageOf(i) = "running" => Group[i] # Group[j]
  BY <1>2, <1>6 DEF Spawn
<1>9. QED
  BY <1>0, <1>2, <1>4, <1>5, <1>7, <1>8, TurnTaken DEF At

\* A job whose record a racing redrive lost is dropped by the loop.
LEMMA GhostImplements ==
  ASSUME Strong, NEW p \in Pollers, NEW after \in {"idle", "requeue"}, PopGhost(p, after),
         UNCHANGED <<order, concurrency>>
  PROVE  Allowed
<1>0. /\ QueueTypeOK /\ AllSafe /\ p \in Callers /\ OthersGoOn(p)
      /\ call[p].pc = "pop.read" /\ call'[p].pc \notin RunPCs
  BY PopCall DEF Strong, ModesTypeOK, TypeOK, Callers, PopGhost, At, Begin, Call, RunPCs, QueueTypeOK
<1>1. PICK j \in Jobs : j = call[p].job
  BY <1>0 DEF QueueTypeOK, HoldPCs
<1>2. Holds(p, j)
  BY <1>0, <1>1 DEF Holds, HoldPCs
<1>3. fate[j] = "live" /\ Fresh(j) /\ ~ Running(j)
  BY <1>0, <1>1, <1>2, NotRunning
  DEF AllSafe, Safe, Located, Held, Sound, Count, Work, FreshPCs, RunPCs
<1>4. j \in raced
  BY <1>0, <1>1, <1>3 DEF PopGhost, Fresh, Stored, Absent, QueueTypeOK
<1>5. fate'[j] = "lost" /\ \A k \in Jobs \ {j} : fate'[k] = fate[k]
  BY <1>0, <1>1 DEF PopGhost, Settle, QueueTypeOK
<1>6. StageOf(j) = "queued" /\ StageOf(j)' = "lost"
  BY <1>0, <1>3, <1>5, Queued DEF Fresh, StageOf
<1>7. \A k \in Jobs \ {j} : StageOf(k)' = StageOf(k)
  BY <1>0, <1>5, NoHandler, StageKept DEF PopGhost, RunPCs
<1>8. Lifecycle!Lose(j)
  BY <1>4, <1>6, <1>7, StageMoves DEF Lifecycle!Lose, PopGhost
<1>9. QED
  BY <1>8, JobStep DEF Lifecycle!JobNext

LEMMA LoopImplements ==
  ASSUME IsFiniteSet(Permits), Strong, Grouped, \A q, r \in Pollers : q = r, UNCHANGED concurrency,
         NEW p \in Pollers, LoopStep(p)
  PROVE  Allowed
<1>0. /\ QueueTypeOK /\ p \in Callers /\ UNCHANGED order
      /\ call[p].pc \notin RunPCs /\ call'[p].pc \notin RunPCs
  BY LoopGoes DEF Strong, ModesTypeOK, TypeOK, Callers, LoopStep, LoopsLoop, LoopPCs, RunPCs
<1>1. ASSUME NEW t \in TasksOf(p), Spawn(p, t)
      PROVE  Allowed
  BY <1>0, <1>1, SpawnImplements
<1>2. CASE PopGhost(p, "requeue")
  BY <1>0, <1>2, GhostImplements
<1>3. CASE (\A t \in TasksOf(p) : ~ Spawn(p, t)) /\ UNCHANGED history
  BY <1>0, <1>3, LoopCall, NoHandler, QuietStep
<1>4. UNCHANGED history \/ PopGhost(p, "requeue") \/ \E t \in TasksOf(p) : Spawn(p, t)
  BY DEF LoopStep, Move, MoveBegin, MoveTake, MoveSkip, MoveList, MoveEnd, EndPops, Pop,
         PopEmpty, PopTake, PopActivate, PopRead, Skip, RequeuePush, RequeueRemove, RequeueEnd
<1>5. QED
  BY <1>1, <1>2, <1>3, <1>4

\* The loop of a strict queue runs the job it popped: it has no tasks, and the
\* jobs pushed before this one are settled.
LEMMA HandleImplements ==
  ASSUME IsFiniteSet(Permits), Permits # {}, Strong, ~ Grouped, \A q, r \in Pollers : q = r,
         NEW p \in Pollers, Handle(p), UNCHANGED <<order, concurrency>>
  PROVE  Allowed
<1>0. /\ QueueTypeOK /\ AllSafe /\ NoTasks /\ Ordered /\ p \in Callers /\ p \in Workers
      /\ call[p].pc = "popped"
  BY DEF Strong, ModesTypeOK, TypeOK, Callers, Workers, Handle, At
<1>1. PICK j \in Jobs : j = call[p].job
  BY <1>0 DEF QueueTypeOK, HoldPCs
<1>2. call' = [call EXCEPT ![p] = Call("handling", j, call[p].tries)]
  BY <1>1 DEF Handle, Goto
<1>3. Holds(p, j) /\ RunBy(p, j)'
  BY <1>0, <1>1, <1>2 DEF Holds, HoldPCs, RunBy, RunPCs, Call, QueueTypeOK
<1>4. \A k \in Jobs \ {j}, d \in Workers : RunBy(d, k)' <=> RunBy(d, k)
  BY <1>0, <1>1, <1>2 DEF RunBy, Call, QueueTypeOK, Workers, Callers
<1>5. ASSUME NEW i \in Jobs
      PROVE  StageOf(i) # "running"
  <2>1. ~ Running(i)
    BY <1>0 DEF Running, NoTasks, At
  <2>2. QED
    BY <1>0, <2>1 DEF StageOf, QueueTypeOK
<1>6. Cardinality({k \in Jobs : StageOf(k) = "running"}) < MaxGroups
  <2>1. {k \in Jobs : StageOf(k) = "running"} = {} /\ Cardinality({}) = 0
    BY <1>5, FS_EmptySet
  <2>2. MaxGroups \in Nat /\ MaxGroups # 0
    BY FS_CardinalityType, FS_EmptySet DEF MaxGroups
  <2>3. QED
    BY <2>1, <2>2
<1>7. \A i \in Jobs : Precedes(i, j) => Settled(i)
  <2>1. InWork(j)
    BY <1>0, <1>1 DEF InWork, Working, WorkPCs
  <2>2. QED
    BY <1>0, <2>1 DEF Ordered, InTurn, Behind
<1>8. QED
  BY <1>0, <1>3, <1>4, <1>5, <1>6, <1>7, TurnTaken DEF Handle, At

LEMMA PlainLoopImplements ==
  ASSUME IsFiniteSet(Permits), Permits # {}, Strong, ~ Grouped, \A q, r \in Pollers : q = r,
         NEW p \in Pollers, Plain!LoopStep(p), UNCHANGED concurrency
  PROVE  Allowed
<1>0. QueueTypeOK /\ p \in Callers /\ p \in Workers /\ UNCHANGED order
  BY PlainLoop DEF Strong, ModesTypeOK, TypeOK, Callers, Workers
<1>1. CASE Handle(p)
  BY <1>0, <1>1, HandleImplements
<1>2. CASE Process(p)
  BY <1>0, <1>2, ProcessImplements
<1>3. CASE PopGhost(p, "idle")
  BY <1>0, <1>3, GhostImplements
<1>4. CASE Move(p) \/ PopEmpty(p, "idle") \/ PopTake(p) \/ PopActivate(p) \/ PopRead(p)
  <2>1. OthersGoOn(p)
    BY <1>0, <1>4, MoveCall, PopCall
  <2>2. call[p].pc \notin RunPCs /\ call'[p].pc \notin RunPCs /\ UNCHANGED history
    <3> USE <1>0 DEF At, Begin, Goto, Call, RunPCs, QueueTypeOK
    <3>1. CASE Move(p)
      BY <3>1 DEF Move, MoveBegin, MoveTake, MoveSkip, MoveList, MoveEnd
    <3>2. CASE PopEmpty(p, "idle")
      BY <3>2 DEF PopEmpty
    <3>3. CASE PopTake(p)
      BY <3>3 DEF PopTake
    <3>4. CASE PopActivate(p) \/ PopRead(p)
      BY <3>4 DEF PopActivate, PopRead
    <3>5. QED
      BY <1>4, <3>1, <3>2, <3>3, <3>4
  <2>3. QED
    BY <1>0, <2>1, <2>2, NoHandler, QuietStep
<1>5. QED
  BY <1>1, <1>2, <1>3, <1>4, PlainLoop

-----------------------------------------------------------------------------
\* The abort of a loop strands what it has.
LEMMA AbortStep ==
  ASSUME NEW S \in SUBSET Jobs, UNCHANGED <<failures, raced, order, concurrency>>,
         \A j \in Jobs : StageOf(j)' = IF j \in S THEN "stranded" ELSE StageOf(j),
         IF ~ Grouped THEN \E j \in S : S = {j} /\ StageOf(j) \in {"queued", "running", "dead"}
                      ELSE \A j \in S : StageOf(j) = "queued"
  PROVE  Allowed
<1>1. [j \in Jobs |-> StageOf(j)]' = [j \in Jobs |-> IF j \in S THEN "stranded" ELSE StageOf(j)]
  OBVIOUS
<1>2. Lifecycle!Abort(S)
  BY <1>1 DEF Lifecycle!Abort
<1>3. QED
  BY <1>2, StrictKept DEF Allowed, Lifecycle!FifoNext

LEMMA UnsubscribeImplements ==
  ASSUME Strong, Grouped, NEW p \in Pollers, Unsubscribe(p), UNCHANGED concurrency
  PROVE  Allowed
<1>0. /\ QueueTypeOK /\ AllSafe /\ p \in Callers /\ call[p].pc \in LoopPCs
  BY DEF Strong, ModesTypeOK, TypeOK, Callers, LoopsLoop
<1> DEFINE S == {j \in Jobs : Holds(p, j) \/ Skipped(p, j)}
<1>1. /\ OthersGoOn(p) /\ call'[p].pc = "idle"
      /\ fate' = [j \in Jobs |-> IF j \in S THEN "stranded" ELSE fate[j]]
      /\ UNCHANGED <<failures, raced, order>>
  BY <1>0 DEF Unsubscribe, Return, Idle, Call, OthersGoOn, QueueTypeOK
<1>2. \A d \in Workers, j \in Jobs : RunBy(d, j)' <=> RunBy(d, j)
  BY <1>0, <1>1, NoHandler DEF LoopPCs, RunPCs
<1>3. ASSUME NEW j \in S
      PROVE  StageOf(j) = "queued"
  <2>1. CASE Holds(p, j)
    <3>1. call[p].job = j /\ call[p].pc \in FreshPCs /\ call[p].pc \notin RunPCs
      BY <1>0, <2>1 DEF Holds, LoopPCs, HoldPCs, FreshPCs, RunPCs
    <3>2. fate[j] = "live" /\ failures[j] < MaxAttempts /\ ~ Running(j)
      BY <1>0, <2>1, <3>1, NotRunning DEF AllSafe, Safe, Located, Held, Sound, Count, Work, Fresh
    <3>3. QED
      BY <1>0, <3>2, Queued
  <2>2. CASE Skipped(p, j)
    <3>1. Skips(j) /\ Safe(j)
      BY <1>0, <2>2 DEF Skips, AllSafe
    <3>2. fate[j] = "live" /\ ~ Held(j) /\ ~ dlq[j] > 0 /\ ~ Running(j)
      BY <1>0, <3>1, NotRunning DEF Safe, Located
    <3>3. failures[j] < MaxAttempts
      BY <3>1, <3>2 DEF Safe, Sound, Count, Tally, Fresh, Live
    <3>4. QED
      BY <1>0, <3>2, <3>3, Queued
  <2>3. QED
    BY <2>1, <2>2
<1>4. ASSUME NEW j \in Jobs
      PROVE  StageOf(j)' = IF j \in S THEN "stranded" ELSE StageOf(j)
  <2>1. CASE j \in S
    <3>1. fate'[j] = "stranded"
      BY <1>1, <2>1
    <3>2. QED
      BY <2>1, <3>1 DEF StageOf
  <2>2. CASE j \notin S
    <3>1. fate'[j] = fate[j]
      BY <1>1, <2>2
    <3>2. QED
      BY <1>1, <1>2, <2>2, <3>1, StageKept
  <2>3. QED
    BY <2>1, <2>2
<1> HIDE DEF S
<1>5. S \in SUBSET Jobs
  BY DEF S
<1>6. QED
  BY <1>1, <1>3, <1>4, <1>5, AbortStep

LEMMA PlainUnsubscribeImplements ==
  ASSUME Strong, ~ Grouped, NEW p \in Pollers, Plain!Unsubscribe(p), UNCHANGED concurrency
  PROVE  Allowed
<1>0. /\ QueueTypeOK /\ AllSafe /\ p \in Callers /\ OthersGoOn(p) /\ call'[p].pc = "idle"
      /\ fate' = [j \in Jobs |-> IF Holds(p, j) THEN "stranded" ELSE fate[j]]
      /\ UNCHANGED <<failures, raced, order>>
  BY PlainUnsubscribe
  DEF Strong, ModesTypeOK, TypeOK, Callers, Return, Idle, Call, OthersGoOn, QueueTypeOK
<1>1. \A k \in Jobs : ~ Holds(p, k) => \A d \in Workers : RunBy(d, k)' <=> RunBy(d, k)
  BY <1>0 DEF Holds, HoldPCs, RunBy, RunPCs, OthersGoOn, Workers, Callers
<1>2. CASE \A j \in Jobs : ~ Holds(p, j)
  <2>1. \A j \in Jobs : fate'[j] = fate[j]
    BY <1>0, <1>2
  <2>2. \A j \in Jobs : StageOf(j)' = StageOf(j)
    BY <1>0, <1>1, <1>2, <2>1, StageKept
  <2>3. UNCHANGED Lifecycle!vars
    BY <1>0, <2>2, StagesKept
  <2>4. QED
    BY <1>0, <2>3, StrictKept DEF Allowed, Lifecycle!fifoVars
<1>3. ASSUME NEW j \in Jobs, Holds(p, j)
      PROVE  Allowed
  <2>1. \A k \in Jobs : Holds(p, k) <=> k = j
    BY <1>3 DEF Holds
  <2>2. fate[j] = "live"
    BY <1>0, <1>3 DEF AllSafe, Safe, Located, Held
  <2>3. StageOf(j) \in {"queued", "running", "dead"}
    BY <2>2 DEF StageOf
  <2>4. ASSUME NEW k \in Jobs
        PROVE  StageOf(k)' = IF k \in {j} THEN "stranded" ELSE StageOf(k)
    <3>1. CASE k = j
      <4>1. fate'[j] = "stranded"
        BY <1>0, <1>3
      <4>2. QED
        BY <3>1, <4>1 DEF StageOf
    <3>2. CASE k # j
      BY <1>0, <1>1, <2>1, <3>2, StageKept
    <3>3. QED
      BY <3>1, <3>2
  <2>5. QED
    BY <1>0, <2>3, <2>4, AbortStep
<1>4. QED
  BY <1>2, <1>3

LEMMA NextImplements ==
  ASSUME IsFiniteSet(Permits), Permits # {}, \A q, r \in Pollers : q = r,
         Strong, [ModesNext]_modeVars
  PROVE  Allowed
<1>1. ASSUME UNCHANGED <<call, history, order, concurrency>>
      PROVE  Allowed
  BY <1>1, QuietStep DEF RunBy
<1>2. CASE UNCHANGED modeVars
  BY <1>1, <1>2 DEF modeVars, vars, queueVars
<1>3. ASSUME ModesNext
      PROVE  Allowed
  <2>0. UNCHANGED concurrency
    BY <1>3 DEF ModesNext
  <2>1. ASSUME NEW c \in Clients, GroupClient(c)
        PROVE  Allowed
    BY <2>0, <2>1, ClientImplements DEF GroupClient, Client
  <2>2. ASSUME NEW j \in Jobs, BecomeDue(j), UNCHANGED order
        PROVE  Allowed
    BY <1>1, <2>0, <2>2 DEF BecomeDue
  <2>3. ASSUME NEW p \in Pollers, SubscribeMode(p)
        PROVE  Allowed
    BY <1>1, <2>0, <2>3, PlainSubscribe DEF SubscribeMode, Subscribe, queueVars
  <2>4. ASSUME NEW p \in Pollers, UnsubscribeMode(p)
        PROVE  Allowed
    BY <2>0, <2>4, UnsubscribeImplements, PlainUnsubscribeImplements DEF UnsubscribeMode
  <2>5. ASSUME NEW p \in Pollers, Loop(p)
        PROVE  Allowed
    BY <2>0, <2>5, LoopImplements, PlainLoopImplements DEF Loop
  <2>6. ASSUME NEW t \in Tasks, TaskStep(t)
        PROVE  Allowed
    BY <2>0, <2>6, ProcessImplements DEF TaskStep, Workers
  <2>7. ASSUME NEW p \in Pollers, NEW g \in groups[p], Release(p, g)
        PROVE  Allowed
    BY <1>1, <2>0, <2>7 DEF Release, queueVars
  <2>8. QED
    BY <1>3, <2>1, <2>2, <2>3, <2>4, <2>5, <2>6, <2>7 DEF ModesNext
<1>4. QED
  BY <1>2, <1>3

LEMMA InitImplements == ModesInit => Lifecycle!FifoInit
  BY DEF ModesInit, Init, QueueInit, Lifecycle!FifoInit, Lifecycle!Init, StageOf

(***************************************************************************)
(* Every behaviour of a queue in FIFO mode with one subscription is, seen  *)
(* through the stages of its jobs, one FifoLifecycle allows.  There is at  *)
(* least one permit: the concurrency of a queue is at least 1.             *)
(***************************************************************************)
THEOREM FifoImplements ==
  ASSUME IsFiniteSet(Permits), Permits # {}, \A q, r \in Pollers : q = r
  PROVE  ModesSpec => ImplementsFifo
<1>1. ModesInit => Lifecycle!FifoInit
  BY InitImplements
<1>2. Strong /\ [ModesNext]_modeVars => [Lifecycle!FifoNext]_(Lifecycle!fifoVars)
  BY NextImplements DEF Allowed
<1>3. ModesSpec => []Strong
  BY StrongInvariance
<1>4. QED
  BY <1>1, <1>2, <1>3, PTL DEF ModesSpec, ImplementsFifo, Lifecycle!FifoSpec

=============================================================================
