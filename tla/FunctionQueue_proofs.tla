------------------------- MODULE FunctionQueue_proofs -------------------------
(***************************************************************************)
(* Proofs about FunctionQueue for every set of jobs, clients, generations  *)
(* and delivery ids, every attempt limit and any finite number of permits. *)
(***************************************************************************)
EXTENDS FunctionQueue, JobQueue_proofs, FiniteSetTheorems

-----------------------------------------------------------------------------
(***************************************************************************)
(* Types, with what keeps the window of a poll loop within its bound: it   *)
(* is one too long only until the send that trims it, or for ever once     *)
(* that send failed and the loop has ended; and a task that serves, or a   *)
(* loop that sends, has a delivery.                                        *)
(***************************************************************************)
Windows ==
  \A g \in Pollers :
    Len(outstanding[g]) = Prefetch + 1 => At(g, "send") \/ LoopEnded(g)

Hands ==
  /\ \A g \in Pollers : At(g, "send") => held[g] \in Deliveries
  /\ \A t \in Tasks : At(t, "serving") => held[t] \in Deliveries

Typed == TypeOK /\ Windows /\ Hands

LEMMA Apart ==
  /\ \A c \in Clients : c \in Callers /\ c \notin Pollers /\ c \notin Tasks
  /\ \A g \in Pollers : g \in Callers /\ g \notin Clients /\ g \notin Tasks
  /\ \A t \in Tasks : t \in Callers /\ t \notin Clients /\ t \notin Pollers
  /\ \A g \in Pollers : \A t \in TasksOf(g) : t \in Tasks
  BY CallerAssumption DEF Callers, Tasks, TasksOf

LEMMA InitTyped == ASSUME Prefetch \in Nat PROVE Init => Typed
<1> SUFFICES ASSUME Init
             PROVE  Typed
  OBVIOUS
<1>1. TypeOK
  BY QueueInitType DEF Init, TypeOK
<1>2. \A c \in Callers : At(c, "idle")
  BY DEF Init, QueueInit, At, Idle, Call
<1>3. Windows
  BY DEF Init, Windows
<1>4. Hands
  BY <1>2, Apart DEF Hands, At
<1>5. QED
  BY <1>1, <1>3, <1>4 DEF Typed

\* A step of a method that leaves what is the generation's own alone.
LEMMA MethodTyped ==
  ASSUME Typed, QueueTypeOK', UNCHANGED <<subs, local>>,
         NEW c \in Callers, \A d \in Callers \ {c} : call'[d] = call[d],
         call'[c].pc \notin {"send", "serving"},
         c \in Pollers => ~ At(c, "send") /\ (At(c, "idle") => ~ Closed(c))
  PROVE  Typed'
<1>1. TypeOK'
  BY DEF Typed, TypeOK, local
<1>2. ASSUME NEW g \in Pollers, Len(outstanding'[g]) = Prefetch + 1
      PROVE  At(g, "send")' \/ LoopEnded(g)'
  <2>1. At(g, "send") \/ LoopEnded(g)
    BY <1>2 DEF Typed, Windows, local
  <2>2. g \in Callers /\ g # c
    BY <2>1, Apart DEF LoopEnded
  <2>3. QED
    BY <2>1, <2>2 DEF At, LoopEnded, Closed
<1>3. Hands'
  BY Apart DEF Typed, Hands, At, local
<1>4. QED
  BY <1>1, <1>2, <1>3 DEF Typed, Windows

\* The steps of a method change the call of the one that runs it.
LEMMA ClientCall ==
  ASSUME QueueTypeOK, NEW c \in Clients, ClientStep(c)
  PROVE  /\ \A d \in Callers \ {c} : call'[d] = call[d]
         /\ call'[c].pc \notin {"send", "serving"}
<1> USE Apart DEF QueueTypeOK, Begin, Goto, Return, Idle, Call
<1>1. ASSUME NEW j \in Jobs, NEW pc \in {"push.list", "push.delay"}, PushRecord(c, j, pc)
      PROVE  (\A d \in Callers \ {c} : call'[d] = call[d]) /\ call'[c].pc \notin {"send", "serving"}
  BY <1>1 DEF PushRecord
<1>2. CASE PushList(c) \/ PushDelay(c)
  BY <1>2 DEF PushList, PushDelay
<1>3. ASSUME NEW j \in Jobs, RedriveTake(c, j) \/ DiscardTake(c, j)
      PROVE  (\A d \in Callers \ {c} : call'[d] = call[d]) /\ call'[c].pc \notin {"send", "serving"}
  BY <1>3 DEF RedriveTake, DiscardTake
<1>4. CASE RedriveSet(c) \/ DiscardDelete(c)
  BY <1>4 DEF RedriveSet, DiscardDelete
<1>5. QED
  BY <1>1, <1>2, <1>3, <1>4 DEF ClientStep

LEMMA AckNackCall ==
  ASSUME QueueTypeOK, NEW c \in Callers, Ack(c) \/ Nack(c)
  PROVE  /\ \A d \in Callers \ {c} : call'[d] = call[d]
         /\ call[c].pc \notin {"idle", "send", "serving"}
         /\ call'[c].pc \notin {"send", "serving"}
<1> USE DEF QueueTypeOK, At, Goto, Return, Idle, Call
<1>1. CASE AckRemove(c) \/ AckDelete(c)
  BY <1>1 DEF AckRemove, AckDelete
<1>2. CASE NackGet(c) \/ NackGone(c)
  BY <1>2 DEF NackGet, NackGone
<1>3. CASE RetryRemove(c) \/ RetrySet(c) \/ RetryDelay(c)
  BY <1>3 DEF RetryRemove, RetrySet, RetryDelay
<1>4. CASE DlqRemove(c) \/ DlqPush(c) \/ DlqDelete(c)
  BY <1>4 DEF DlqRemove, DlqPush, DlqDelete
<1>5. QED
  BY <1>1, <1>2, <1>3, <1>4 DEF Ack, Nack, MoveToDlq

LEMMA MoveCall ==
  ASSUME QueueTypeOK, NEW g \in Pollers, Move(g)
  PROVE  /\ \A d \in Callers \ {g} : call'[d] = call[d]
         /\ call[g].pc # "send"
         /\ call'[g].pc \notin {"send", "serving"}
<1> USE Apart DEF QueueTypeOK, At, Goto, Begin, Call
<1>1. CASE MoveBegin(g) \/ MoveList(g) \/ MoveEnd(g)
  BY <1>1 DEF MoveBegin, MoveList, MoveEnd
<1>2. ASSUME NEW j \in Jobs, MoveTake(g, j) \/ MoveSkip(g, j)
      PROVE  /\ \A d \in Callers \ {g} : call'[d] = call[d]
             /\ call[g].pc # "send"
             /\ call'[g].pc \notin {"send", "serving"}
  BY <1>2 DEF MoveTake, MoveSkip
<1>3. QED
  BY <1>1, <1>2 DEF Move

LEMMA PopCall ==
  ASSUME QueueTypeOK, NEW g \in Pollers, Pop(g)
  PROVE  /\ \A d \in Callers \ {g} : call'[d] = call[d]
         /\ call[g].pc \notin {"idle", "send"}
         /\ call'[g].pc \notin {"send", "serving"}
<1> USE Apart DEF QueueTypeOK, At, Goto, Begin, Call
<1>1. CASE PopEmpty(g, "idle") \/ PopTake(g) \/ PopGhost(g, "idle")
  BY <1>1 DEF PopEmpty, PopTake, PopGhost
<1>2. CASE PopActivate(g) \/ PopRead(g)
  BY <1>2 DEF PopActivate, PopRead
<1>3. QED
  BY <1>1, <1>2 DEF Pop

\* The steps of a generation on its channel, its window and its deliveries.
LEMMA AppendType ==
  ASSUME NEW s \in Seq(Deliveries), NEW d \in Deliveries
  PROVE  Append(s, d) \in Seq(Deliveries) /\ Len(Append(s, d)) = Len(s) + 1
  OBVIOUS

LEMMA TailType ==
  ASSUME NEW s \in Seq(Deliveries), s # << >>
  PROVE  Tail(s) \in Seq(Deliveries) /\ Len(Tail(s)) = Len(s) - 1 /\ Head(s) \in Deliveries
  BY HeadTailProperties

LEMMA TrimType ==
  ASSUME Prefetch \in Nat, NEW s \in Seq(Deliveries), Len(s) <= Prefetch + 1
  PROVE  Trim(s) \in Seq(Deliveries) /\ Len(Trim(s)) <= Prefetch
<1>1. CASE Len(s) > Prefetch
  <2>1. s # << >>
    BY <1>1, EmptySeq
  <2>2. QED
    BY <1>1, <2>1, TailType DEF Trim
<1>2. CASE ~ Len(s) > Prefetch
  BY <1>2 DEF Trim
<1>3. QED
  BY <1>1, <1>2

LEMMA DeliverTyped ==
  ASSUME Prefetch \in Nat, Typed, NEW g \in Pollers, Deliver(g), UNCHANGED subs
  PROVE  Typed'
<1>1. PICK d \in Deliveries :
        /\ deliveries' = [deliveries EXCEPT ![d] = call[g].job]
        /\ outstanding' = [outstanding EXCEPT ![g] = Append(@, d)]
        /\ held' = [held EXCEPT ![g] = d]
  BY DEF Deliver
<1>2. g \in Callers /\ call[g].job \in Jobs
  BY Apart DEF Deliver, At, Typed, TypeOK, QueueTypeOK, HoldPCs
<1>3. QueueTypeOK'
  BY <1>2 DEF Deliver, Begin, Call, Typed, TypeOK, QueueTypeOK, store, history,
              HoldPCs, ActivePCs, MethodPCs
<1>4. Len(outstanding[g]) <= Prefetch
  <2>1. Len(outstanding[g]) \in Nat /\ Len(outstanding[g]) <= Prefetch + 1
    BY DEF Typed, TypeOK
  <2>2. Len(outstanding[g]) # Prefetch + 1
    BY DEF Deliver, At, Typed, Windows, LoopEnded
  <2>3. QED
    BY <2>1, <2>2
<1>5. /\ outstanding'[g] \in Seq(Deliveries) /\ Len(outstanding'[g]) <= Prefetch + 1
      /\ outstanding' \in [Pollers -> Seq(Deliveries)]
      /\ \A h \in Pollers \ {g} : outstanding'[h] = outstanding[h]
  BY <1>1, <1>4, AppendType DEF Typed, TypeOK
<1>6. TypeOK'
  BY <1>1, <1>2, <1>3, <1>5 DEF Deliver, Typed, TypeOK
<1>7. \A c \in Callers : call'[c] = IF c = g THEN Call("send", NoJob, 0) ELSE call[c]
  BY DEF Deliver, Begin, Typed, TypeOK, QueueTypeOK
<1>8. Windows'
  BY <1>5, <1>7, Apart DEF Typed, Windows, At, LoopEnded, Closed, Call
<1>9. Hands'
  BY <1>1, <1>7, Apart DEF Typed, TypeOK, Hands, At, Call
<1>10. QED
  BY <1>6, <1>8, <1>9 DEF Typed

LEMMA SendTyped ==
  ASSUME Prefetch \in Nat, Typed, NEW g \in Pollers, Send(g) \/ SendFails(g), UNCHANGED subs
  PROVE  Typed'
<1>1. g \in Callers /\ held[g] \in Deliveries
  BY Apart DEF Send, SendFails, Typed, Hands
<1>2. QueueTypeOK'
  <2>1. QueueTypeOK /\ "idle" \in MethodPCs /\ "idle" \notin HoldPCs \cup ActivePCs
    BY DEF Typed, TypeOK, MethodPCs, HoldPCs, ActivePCs
  <2>2. /\ call' = [call EXCEPT ![g] = Call("idle", NoJob, 0)]
        /\ UNCHANGED <<store, ready, history>>
    BY DEF Send, SendFails, Return, Idle
  <2>3. QED
    BY <1>1, <2>1, <2>2, CallType DEF history, QueueTypeOK
<1>3. \A c \in Pollers \cup Tasks : held'[c] = IF c = g THEN NoDelivery ELSE held[c]
  BY DEF Send, SendFails, Typed, TypeOK
<1>4. \A c \in Callers : call'[c] = IF c = g THEN Idle ELSE call[c]
  BY DEF Send, SendFails, Return, Typed, TypeOK, QueueTypeOK
<1>5. Hands'
  <2>1. ASSUME NEW h \in Pollers, At(h, "send")'
        PROVE  held'[h] \in Deliveries
    <3>1. h # g /\ At(h, "send")
      BY <1>4, <2>1, Apart DEF At, Idle, Call
    <3>2. QED
      BY <1>3, <3>1 DEF Typed, Hands
  <2>2. ASSUME NEW t \in Tasks, At(t, "serving")'
        PROVE  held'[t] \in Deliveries
    <3>1. t # g /\ At(t, "serving")
      BY <1>4, <2>2, Apart DEF At
    <3>2. QED
      BY <1>3, <3>1 DEF Typed, Hands
  <2>3. QED
    BY <2>1, <2>2 DEF Hands
<1>6. CASE Send(g)
  <2>1. /\ chan' \in [Pollers -> Seq(Deliveries)]
        /\ \A h \in Pollers : Len(chan'[h]) <= Prefetch
    BY <1>1, <1>6, AppendType DEF Send, Typed, TypeOK
  <2>2. Trim(outstanding[g]) \in Seq(Deliveries) /\ Len(Trim(outstanding[g])) <= Prefetch
    BY TrimType DEF Typed, TypeOK
  <2>3. /\ outstanding' \in [Pollers -> Seq(Deliveries)]
        /\ Len(outstanding'[g]) <= Prefetch
        /\ \A h \in Pollers \ {g} : outstanding'[h] = outstanding[h]
    BY <1>6, <2>2 DEF Send, Typed, TypeOK
  <2>4. \A h \in Pollers : Len(outstanding'[h]) <= Prefetch + 1
    <3>1. Len(outstanding'[g]) \in Nat
      BY <2>3
    <3>2. Len(outstanding'[g]) <= Prefetch + 1
      BY <2>3, <3>1
    <3>3. QED
      BY <2>3, <3>2 DEF Typed, TypeOK
  <2>5. TypeOK'
    BY <1>2, <1>6, <2>1, <2>3, <2>4 DEF Send, Typed, TypeOK
  <2>6. Windows'
    BY <1>4, <2>3, Apart DEF Typed, Windows, At, LoopEnded, Closed
  <2>7. QED
    BY <1>5, <2>5, <2>6 DEF Typed
<1>7. CASE SendFails(g)
  <2>1. TypeOK'
    BY <1>2, <1>7 DEF SendFails, Typed, TypeOK
  <2>2. Windows'
    BY <1>4, <1>7, Apart DEF SendFails, Typed, Windows, At, LoopEnded, Closed, Idle, Call
  <2>3. QED
    BY <1>5, <2>1, <2>2 DEF Typed
<1>8. QED
  BY <1>6, <1>7

LEMMA DrainTyped ==
  ASSUME Prefetch \in Nat, Typed, NEW g \in Pollers, Drain(g), UNCHANGED subs
  PROVE  Typed'
<1>1. PICK d \in Deliveries :
        /\ d = Head(outstanding[g])
        /\ outstanding'[g] \in Seq(Deliveries)
        /\ Len(outstanding'[g]) = Len(outstanding[g]) - 1
  BY TailType DEF Drain, Typed, TypeOK
<1>2. /\ deliveries' = [deliveries EXCEPT ![d] = NoJob]
      /\ outstanding' \in [Pollers -> Seq(Deliveries)]
      /\ \A h \in Pollers \ {g} : outstanding'[h] = outstanding[h]
      /\ deliveries[d] \in Jobs \cup {NoJob}
  BY <1>1 DEF Drain, TakeDelivery, Typed, TypeOK
<1>3. CASE deliveries[d] = NoJob
  <2>1. UNCHANGED queueVars
    BY <1>1, <1>3 DEF Drain, queueVars, history
  <2>2. QueueTypeOK'
    BY <2>1, QueueKeptType DEF Typed, TypeOK
  <2>3. TypeOK'
    BY <1>1, <1>2, <2>2 DEF Drain, Typed, TypeOK
  <2>4. Windows' /\ Hands'
    BY <1>1, <1>2, <2>1 DEF Drain, Typed, TypeOK, Windows, Hands, At, LoopEnded, Closed, queueVars
  <2>5. QED
    BY <2>3, <2>4 DEF Typed
<1>4. CASE deliveries[d] # NoJob
  <2>1. /\ call' = [call EXCEPT ![g] = Call("nack.get", deliveries[d], 0)]
        /\ failures' = [failures EXCEPT ![deliveries[d]] = @ + 1]
    BY <1>1, <1>4 DEF Drain, Begin
  <2>2. deliveries[d] \in Jobs
    BY <1>2, <1>4
  <2>3. QueueTypeOK'
    <3>1. QueueTypeOK /\ g \in Callers /\ "nack.get" \in MethodPCs
      BY Apart DEF Typed, TypeOK, MethodPCs, HoldPCs
    <3>2. failures' \in [Jobs -> Nat]
      BY <2>1, <2>2, <3>1 DEF QueueTypeOK
    <3>3. QED
      BY <2>1, <2>2, <3>1, <3>2, CallType DEF Drain
  <2>4. TypeOK'
    BY <1>1, <1>2, <2>3 DEF Drain, Typed, TypeOK
  <2>5. \A c \in Callers :
          call'[c] = IF c = g THEN Call("nack.get", deliveries[d], 0) ELSE call[c]
    BY <2>1 DEF Typed, TypeOK, QueueTypeOK
  <2>6. Windows'
    BY <1>1, <1>2, <2>5, Apart DEF Drain, Typed, TypeOK, Windows, At, LoopEnded, Closed
  <2>7. Hands'
    BY <2>5, Apart DEF Drain, Typed, Hands, At, Call
  <2>8. QED
    BY <2>4, <2>6, <2>7 DEF Typed
<1>5. QED
  BY <1>3, <1>4

LEMMA ConsumerTyped ==
  ASSUME Prefetch \in Nat, Typed, NEW g \in Pollers, ConsumerStep(g)
  PROVE  Typed'
<1>1. CASE Receive(g)
  <2>1. QueueTypeOK'
    BY <1>1, QueueKeptType DEF Receive, Typed, TypeOK
  <2>2. /\ chan' \in [Pollers -> Seq(Deliveries)]
        /\ \A h \in Pollers : Len(chan'[h]) <= Prefetch
        /\ Head(chan[g]) \in Deliveries
    BY <1>1, TailType DEF Receive, Typed, TypeOK
  <2>3. TypeOK'
    BY <1>1, <2>1, <2>2 DEF Receive, ConsumerStep, Typed, TypeOK
  <2>4. Windows' /\ Hands'
    BY <1>1 DEF Receive, ConsumerStep, Typed, Windows, Hands, At, LoopEnded, Closed, queueVars
  <2>5. QED
    BY <2>3, <2>4 DEF Typed
<1>2. ASSUME NEW t \in TasksOf(g), Spawn(g, t)
      PROVE  Typed'
  <2>1. t \in Tasks /\ t \in Callers /\ hand[g] \in Deliveries
    BY <1>2, Apart DEF Spawn, Typed, TypeOK
  <2>2. deliveries[hand[g]] \in Jobs \cup {NoJob}
    BY <2>1 DEF Typed, TypeOK
  <2>3. \A c \in Callers :
          call'[c] = IF c = t THEN Call("serving", deliveries[hand[g]], 0) ELSE call[c]
    BY <1>2 DEF Spawn, Begin, Typed, TypeOK, QueueTypeOK
  <2>4. QueueTypeOK'
    BY <1>2, <2>2 DEF Spawn, Begin, Call, Typed, TypeOK, QueueTypeOK, store, history,
                      HoldPCs, ActivePCs, MethodPCs
  <2>5. TypeOK'
    BY <1>2, <2>1, <2>4 DEF Spawn, ConsumerStep, Typed, TypeOK
  <2>6. Windows'
    BY <1>2, <2>1, <2>3, Apart DEF Spawn, ConsumerStep, Typed, Windows, At, LoopEnded, Closed
  <2>7. Hands'
    BY <1>2, <2>1, <2>3, Apart DEF Spawn, Typed, TypeOK, Hands, At, Call
  <2>8. QED
    BY <2>5, <2>6, <2>7 DEF Typed
<1>3. QED
  BY <1>1, <1>2 DEF ConsumerStep

LEMMA AnswerTyped ==
  ASSUME Typed, NEW t \in Tasks, CallOk(t) \/ CallErr(t), UNCHANGED subs
  PROVE  Typed'
<1>1. t \in Callers /\ held[t] \in Deliveries /\ deliveries[held[t]] \in Jobs \cup {NoJob}
  BY Apart DEF CallOk, CallErr, Answer, Typed, Hands, TypeOK
<1>2. PICK pc \in {"ack.lrem", "nack.get"} : Answer(t, pc)
  BY DEF CallOk, CallErr
<1>3. /\ call' = [call EXCEPT ![t] = IF deliveries[held[t]] = NoJob
                                     THEN Idle ELSE Call(pc, deliveries[held[t]], 0)]
      /\ deliveries' = [deliveries EXCEPT ![held[t]] = NoJob]
      /\ held' = [held EXCEPT ![t] = NoDelivery]
      /\ UNCHANGED <<store, ready, raced, chan, outstanding, hand>>
  BY <1>2 DEF Answer, Begin, Return, TakeDelivery
<1>4. fate' \in [Jobs -> {"new", "live", "acked", "discarded", "lost", "stranded"}]
  BY DEF CallOk, CallErr, Settle, Typed, TypeOK, QueueTypeOK
<1>5. failures' \in [Jobs -> Nat]
  BY <1>1 DEF CallOk, CallErr, Typed, TypeOK, QueueTypeOK
<1>6. \A c \in Callers :
        call'[c] = IF c = t
                   THEN IF deliveries[held[t]] = NoJob
                        THEN Idle ELSE Call(pc, deliveries[held[t]], 0)
                   ELSE call[c]
  BY <1>3 DEF Typed, TypeOK, QueueTypeOK
<1>7. /\ call' \in [Callers -> [pc : MethodPCs, job : Jobs \cup {NoJob}, tries : Nat]]
      /\ \A c \in Callers : call'[c].pc \in HoldPCs \cup ActivePCs => call'[c].job \in Jobs
  BY <1>1, <1>3, <1>6
  DEF Typed, TypeOK, QueueTypeOK, Idle, Call, HoldPCs, ActivePCs, MethodPCs
<1>8. QueueTypeOK'
  BY <1>3, <1>4, <1>5, <1>7 DEF Typed, TypeOK, QueueTypeOK, store
<1>9. TypeOK'
  BY <1>3, <1>8 DEF Typed, TypeOK
<1>10. Windows'
  BY <1>3, <1>6, Apart DEF Typed, Windows, At, LoopEnded, Closed
<1>11. Hands'
  BY <1>3, <1>6, Apart DEF Typed, TypeOK, Hands, At, Idle, Call
<1>12. QED
  BY <1>9, <1>10, <1>11 DEF Typed

LEMMA AbortTyped ==
  ASSUME Prefetch \in Nat, Typed, NEW g \in Pollers, Abort(g)
  PROVE  Typed'
<1>1. QueueTypeOK'
  BY DEF Abort, Typed, TypeOK, QueueTypeOK, store
<1>2. /\ chan' \in [Pollers -> Seq(Deliveries)]
      /\ \A h \in Pollers : Len(chan'[h]) <= Prefetch
  BY DEF Abort, Typed, TypeOK
<1>3. TypeOK'
  BY <1>1, <1>2 DEF Abort, Typed, TypeOK
<1>4. Windows' /\ Hands'
  BY DEF Abort, Typed, TypeOK, Windows, Hands, At, LoopEnded, Closed
<1>5. QED
  BY <1>3, <1>4 DEF Typed

LEMMA StartTyped ==
  ASSUME Typed, NEW g \in Pollers, Start(g)
  PROVE  Typed'
<1>1. QueueTypeOK'
  BY QueueKeptType DEF Start, Typed, TypeOK
<1>2. TypeOK'
  BY <1>1 DEF Start, Typed, TypeOK, local
<1>3. Windows' /\ Hands'
  BY DEF Start, Typed, TypeOK, Windows, Hands, At, LoopEnded, Closed, local, queueVars
<1>4. QED
  BY <1>2, <1>3 DEF Typed

LEMMA NextTyped == ASSUME Prefetch \in Nat PROVE Typed /\ [Next]_vars => Typed'
<1> SUFFICES ASSUME Typed, [Next]_vars
             PROVE  Typed'
  OBVIOUS
<1>0. QueueTypeOK
  BY DEF Typed, TypeOK
<1>1. ASSUME NEW c \in Clients, Client(c)
      PROVE  Typed'
  BY <1>0, <1>1, ClientType, ClientCall, MethodTyped, Apart DEF Client
<1>2. ASSUME NEW j \in Jobs, BecomeDue(j), UNCHANGED <<subs, local>>
      PROVE  Typed'
  <2>1. QueueTypeOK' /\ UNCHANGED call
    BY <1>0, <1>2, BecomeDueType DEF BecomeDue
  <2>2. QED
    BY <1>2, <2>1 DEF Typed, TypeOK, Windows, Hands, At, LoopEnded, Closed, local
<1>3. ASSUME NEW g \in Pollers, PollStep(g)
      PROVE  Typed'
  <2>1. CASE (At(g, "idle") => ~ Closed(g)) /\ Move(g) /\ UNCHANGED local
    BY <1>0, <1>3, <2>1, MoveType, MoveCall, MethodTyped, Apart DEF PollStep, At
  <2>2. CASE Pop(g) /\ UNCHANGED local
    <3>1. QueueTypeOK'
      BY <1>0, <2>2, PopType DEF Pop
    <3>2. QED
      BY <1>0, <1>3, <2>2, <3>1, PopCall, MethodTyped, Apart DEF PollStep, At
  <2>3. CASE Deliver(g)
    BY <1>3, <2>3, DeliverTyped DEF PollStep
  <2>4. CASE Send(g) \/ SendFails(g)
    BY <1>3, <2>4, SendTyped DEF PollStep
  <2>5. CASE Drain(g)
    BY <1>3, <2>5, DrainTyped DEF PollStep
  <2>6. CASE Nack(g) /\ UNCHANGED local
    BY <1>0, <1>3, <2>6, AckNackType, AckNackCall, MethodTyped, Apart DEF PollStep, At
  <2>7. QED
    BY <1>3, <2>1, <2>2, <2>3, <2>4, <2>5, <2>6 DEF PollStep
<1>4. ASSUME NEW t \in Tasks, TaskStep(t)
      PROVE  Typed'
  <2>1. CASE CallOk(t) \/ CallErr(t)
    BY <1>4, <2>1, AnswerTyped DEF TaskStep
  <2>2. CASE (Ack(t) \/ Nack(t)) /\ UNCHANGED local
    BY <1>0, <1>4, <2>2, AckNackType, AckNackCall, MethodTyped, Apart DEF TaskStep, At
  <2>3. QED
    BY <1>4, <2>1, <2>2 DEF TaskStep
<1>5. CASE UNCHANGED vars
  <2>1. QueueTypeOK'
    BY <1>0, <1>5, QueueKeptType DEF vars
  <2>2. QED
    BY <1>5, <2>1 DEF vars, local, queueVars, Typed, TypeOK, Windows, Hands, At, LoopEnded, Closed
<1>6. QED
  BY <1>1, <1>2, <1>3, <1>4, <1>5, StartTyped, AbortTyped, ConsumerTyped DEF Next

LEMMA PrefetchType == ASSUME IsFiniteSet(Permits) PROVE Prefetch \in Nat
  BY FS_CardinalityType DEF Prefetch

(***************************************************************************)
(* Every reachable state is well typed; the channel holds at most Prefetch *)
(* deliveries and the window at most one more.                             *)
(***************************************************************************)
THEOREM TypeCorrect == ASSUME IsFiniteSet(Permits) PROVE Spec => []TypeOK
<1>1. Init => Typed
  BY PrefetchType, InitTyped
<1>2. Typed /\ [Next]_vars => Typed'
  BY PrefetchType, NextTyped
<1>3. Typed => TypeOK
  BY DEF Typed
<1>4. QED
  BY <1>1, <1>2, <1>3, PTL DEF Spec

-----------------------------------------------------------------------------
(***************************************************************************)
(* Where a job is: what JobQueue_proofs says of it holds, and it is in the *)
(* system while it is in a place or one entry of the delivery map has it.  *)
(***************************************************************************)
InSystem == {"live", "stranded"}
Delivered(j) == \E d \in Deliveries : deliveries[d] = j

Owned(j) ==
  /\ Sound(j, InSystem)
  /\ \A d, e \in Deliveries : deliveries[d] = j /\ deliveries[e] = j => d = e
  /\ Located(j) => ~ Delivered(j)
  /\ fate[j] \in InSystem <=> Located(j) \/ Delivered(j)

AllOwned == \A j \in Jobs : Owned(j)

\* A step of a method leaves the delivery map alone.
LEMMA MethodOwned ==
  ASSUME NEW j \in Jobs, Owned(j), Sound(j, InSystem)', Moves(j, InSystem), UNCHANGED deliveries
  PROVE  Owned(j)'
<1>1. Delivered(j)' <=> Delivered(j)
  BY DEF Delivered
<1>2. QED
  BY <1>1 DEF Owned, Moves, InSystem

\* A step of a caller that works on no job, or on another.
LEMMA AsideOwned ==
  ASSUME Typed, NEW j \in Jobs, Owned(j),
         NEW c \in Callers, NEW pc, NEW i, NEW n, call' = [call EXCEPT ![c] = Call(pc, i, n)],
         call[c].job # j \/ call[c].pc \notin HoldPCs,
         i # j \/ pc \in DonePCs,
         UNCHANGED <<waiting, delayed, dlq, record, raced>>,
         fate'[j] = fate[j], failures'[j] = failures[j],
         \A d \in Deliveries : deliveries'[d] = j <=> deliveries[d] = j
  PROVE  Owned(j)'
<1>1. QueueTypeOK /\ InSystem \in Fates /\ WaitsAlike(j)
  BY WaitingKept DEF Typed, TypeOK, InSystem, Fates
<1>2. Sound(j, InSystem)' /\ Moves(j, InSystem)
  BY <1>1, StepsAside DEF Owned
<1>3. Delivered(j)' <=> Delivered(j)
  BY DEF Delivered
<1>4. QED
  BY <1>2, <1>3 DEF Owned, Moves, InSystem

\* What is known of a job while the delivery map has it.
LEMMA DeliveredKnows ==
  ASSUME Typed, NEW j \in Jobs, Owned(j), Delivered(j)
  PROVE  /\ ~ Located(j) /\ ~ Held(j) /\ ~ InWaiting(j) /\ delayed[j] = "none" /\ dlq[j] = 0
         /\ Once(j) /\ Fresh(j) /\ fate[j] \in InSystem
<1>1. ~ Located(j) /\ fate[j] \in InSystem /\ dlq[j] \in Nat
  BY DEF Owned, Typed, TypeOK, QueueTypeOK
<1>2. ~ Held(j) /\ ~ InWaiting(j) /\ delayed[j] = "none" /\ dlq[j] = 0
  BY <1>1 DEF Located
<1>3. Once(j) /\ Fresh(j)
  BY <1>1, <1>2 DEF Owned, Sound, Alone, Count, Tally
<1>4. QED
  BY <1>1, <1>2, <1>3

LEMMA DeliverOwned ==
  ASSUME Typed, NEW j \in Jobs, Owned(j), NEW g \in Pollers, Deliver(g)
  PROVE  Owned(j)'
<1>1. PICK d \in Deliveries : ~ InUse(d) /\ deliveries' = [deliveries EXCEPT ![d] = call[g].job]
  BY DEF Deliver
<1>2. /\ g \in Callers /\ call[g].pc \in HoldPCs /\ "send" \notin HoldPCs
      /\ call' = [call EXCEPT ![g] = Call("send", NoJob, 0)]
      /\ UNCHANGED <<waiting, delayed, dlq, record, fate, failures, raced>>
      /\ QueueTypeOK /\ InSystem \in Fates
      /\ WaitsAlike(j)
  BY Apart, WaitingKept
  DEF Deliver, At, Begin, HoldPCs, store, history, Typed, TypeOK, InSystem, Fates
<1>3. PICK k \in Jobs : k = call[g].job
  BY <1>2 DEF QueueTypeOK
<1>4. /\ \A e \in Deliveries : deliveries'[e] = IF e = d THEN k ELSE deliveries[e]
      /\ deliveries[d] = NoJob
  BY <1>1, <1>3 DEF Typed, TypeOK, InUse
<1>5. CASE k # j
  <2>1. \A e \in Deliveries : deliveries'[e] = j <=> deliveries[e] = j
    BY <1>4, <1>5, NoJobAssumption
  <2>2. QED
    BY <1>2, <1>3, <1>5, <2>1, NoJobAssumption, AsideOwned
<1>6. CASE k = j
  <2>1. /\ ~ InWaiting(j) /\ delayed[j] = "none" /\ dlq[j] = 0
        /\ fate[j] \in InSystem /\ Located(j) /\ Work(g, j)
    BY <1>2, <1>3, <1>6, HolderKnows DEF Owned
  <2>2. Fresh(j) /\ Once(j) /\ ~ Delivered(j)
    BY <1>3, <1>6, <2>1 DEF Deliver, At, Work, FreshPCs, Owned, Sound, Alone
  <2>3. Deletes(g, j)'
    BY <1>2, NoJobAssumption DEF Deletes, Call, QueueTypeOK
  <2>4. Once(j)' /\ ~ InWaiting(j)' /\ delayed'[j] = "none" /\ dlq'[j] = 0 /\ Fresh(j)'
    BY <1>2, <2>1, <2>2 DEF WaitsAlike, Fresh, Stored
  <2>5. Sound(j, InSystem)' /\ ~ Held(j)'
    BY <1>2, <1>3, <1>6, <2>3, <2>4, HolderLetsGo DEF Owned
  <2>6. ~ Located(j)'
    BY <2>4, <2>5 DEF Located
  <2>7. Delivered(j)' /\ \A e \in Deliveries : deliveries'[e] = j => e = d
    BY <1>4, <1>6, <2>2 DEF Delivered
  <2>8. QED
    BY <1>2, <2>1, <2>5, <2>6, <2>7 DEF Owned
<1>7. QED
  BY <1>5, <1>6

LEMMA SendOwned ==
  ASSUME Typed, NEW j \in Jobs, Owned(j), NEW g \in Pollers, Send(g) \/ SendFails(g)
  PROVE  Owned(j)'
<1>1. /\ g \in Callers /\ call[g].pc \notin HoldPCs /\ "idle" \in DonePCs
      /\ call' = [call EXCEPT ![g] = Call("idle", NoJob, 0)]
      /\ UNCHANGED <<waiting, delayed, dlq, record, fate, failures, raced, deliveries>>
  BY Apart DEF Send, SendFails, At, Return, Idle, HoldPCs, DonePCs, store, history
<1>2. QED
  BY <1>1, AsideOwned

\* An entry that is not there is taken by nobody.
LEMMA NothingTaken ==
  ASSUME Typed, NEW d \in Deliveries, deliveries[d] = NoJob, TakeDelivery(d)
  PROVE  UNCHANGED deliveries
  BY DEF TakeDelivery, Typed, TypeOK

\* A caller takes an entry of the delivery map and nacks its job.
LEMMA NacksOwned ==
  ASSUME Typed, NEW j \in Jobs, Owned(j), NEW c \in Callers, call[c].pc \notin HoldPCs,
         NEW d \in Deliveries, deliveries[d] # NoJob, TakeDelivery(d),
         call' = [call EXCEPT ![c] = Call("nack.get", deliveries[d], 0)],
         failures' = [failures EXCEPT ![deliveries[d]] = @ + 1],
         UNCHANGED <<waiting, delayed, dlq, record, fate, raced>>
  PROVE  Owned(j)'
<1>1. PICK k \in Jobs : k = deliveries[d]
  BY DEF Typed, TypeOK
<1>2. \A e \in Deliveries : deliveries'[e] = IF e = d THEN NoJob ELSE deliveries[e]
  BY DEF TakeDelivery, Typed, TypeOK
<1>3. CASE k # j
  <2>1. \A e \in Deliveries : deliveries'[e] = j <=> deliveries[e] = j
    BY <1>1, <1>2, <1>3, NoJobAssumption
  <2>2. failures'[j] = failures[j]
    BY <1>1, <1>3 DEF Typed, TypeOK, QueueTypeOK
  <2>3. QED
    BY <1>1, <1>3, <2>1, <2>2, AsideOwned
<1>4. CASE k = j
  <2>1. Delivered(j) /\ QueueTypeOK /\ InSystem \in Fates /\ WaitsAlike(j) /\ "nack.get" \in HoldPCs
    BY <1>1, <1>4, WaitingKept DEF Delivered, Typed, TypeOK, InSystem, Fates, HoldPCs
  <2>2. /\ ~ Held(j) /\ ~ InWaiting(j) /\ delayed[j] = "none" /\ dlq[j] = 0
        /\ Once(j) /\ Fresh(j) /\ fate[j] \in InSystem
    BY <2>1, DeliveredKnows
  <2>3. failures'[j] = failures[j] + 1 /\ failures[j] \in Nat
    BY <1>1, <1>4, <2>1 DEF QueueTypeOK
  <2>4. failures'[j] \in 1..MaxAttempts /\ failures'[j] - 1 = failures[j]
    BY <2>2, <2>3, MaxAttemptsAssumption DEF Fresh
  <2>5. call'[c] = Call("nack.get", j, 0)
    BY <1>1, <1>4, <2>1 DEF QueueTypeOK
  <2>6. Work(c, j)'
    BY <2>2, <2>4, <2>5 DEF Work, Call, FreshPCs, Fresh, Stored
  <2>7. Once(j)' /\ ~ InWaiting(j)'
    BY <2>1, <2>2 DEF WaitsAlike
  <2>8. Sound(j, InSystem)' /\ Located(j)'
    BY <1>1, <1>4, <2>1, <2>2, <2>6, <2>7, TakenUp DEF Owned
  <2>9. ~ Delivered(j)'
    BY <1>1, <1>2, <1>4, NoJobAssumption DEF Owned, Delivered
  <2>10. QED
    BY <2>2, <2>8, <2>9 DEF Owned, Delivered
<1>5. QED
  BY <1>3, <1>4

\* A caller takes an entry and settles its job.
LEMMA AcksOwned ==
  ASSUME Typed, NEW j \in Jobs, Owned(j), NEW c \in Callers, call[c].pc \notin HoldPCs,
         NEW d \in Deliveries, deliveries[d] # NoJob, TakeDelivery(d),
         call' = [call EXCEPT ![c] = Call("ack.lrem", deliveries[d], 0)],
         Settle(deliveries[d], "acked"),
         UNCHANGED <<waiting, delayed, dlq, record, failures, raced>>
  PROVE  Owned(j)'
<1>1. PICK k \in Jobs : k = deliveries[d]
  BY DEF Typed, TypeOK
<1>2. \A e \in Deliveries : deliveries'[e] = IF e = d THEN NoJob ELSE deliveries[e]
  BY DEF TakeDelivery, Typed, TypeOK
<1>3. CASE k # j
  <2>1. \A e \in Deliveries : deliveries'[e] = j <=> deliveries[e] = j
    BY <1>1, <1>2, <1>3, NoJobAssumption
  <2>2. fate'[j] = fate[j]
    BY <1>1, <1>3 DEF Settle, Typed, TypeOK, QueueTypeOK
  <2>3. QED
    BY <1>1, <1>3, <2>1, <2>2, AsideOwned
<1>4. CASE k = j
  <2>1. Delivered(j) /\ QueueTypeOK /\ InSystem \in Fates /\ WaitsAlike(j)
    BY <1>1, <1>4, WaitingKept DEF Delivered, Typed, TypeOK, InSystem, Fates
  <2>2. /\ ~ Held(j) /\ ~ InWaiting(j) /\ delayed[j] = "none" /\ dlq[j] = 0
        /\ Once(j) /\ Fresh(j) /\ fate[j] \in InSystem
    BY <2>1, DeliveredKnows
  <2>3. fate'[j] = "acked" /\ "acked" \notin InSystem
    BY <1>1, <1>4, <2>1 DEF Settle, QueueTypeOK, InSystem
  <2>4. \A e \in Callers : call'[e] = IF e = c THEN Call("ack.lrem", j, 0) ELSE call[e]
    BY <1>1, <1>4, <2>1 DEF QueueTypeOK
  <2>5. (\A e \in Callers : ~ Holds(e, j) /\ ~ Holds(e, j)') /\ ~ Held(j)'
    BY <2>2, <2>4 DEF Held, Holds, Call, HoldPCs
  <2>6. ~ Located(j)'
    BY <2>1, <2>2, <2>5 DEF Located, WaitsAlike
  <2>7. Alone(j, InSystem)'
    BY <2>1, <2>2, <2>5, <2>6 DEF Alone, WaitsAlike
  <2>8. Tally(j, InSystem)'
    BY <2>2, <2>3 DEF Tally
  <2>9. Work(c, j)' /\ Deletes(c, j)'
    BY <2>3, <2>4 DEF Work, Deletes, Call, FreshPCs
  <2>10. \A e \in Callers \ {c} : Work(e, j)' /\ Deletes(e, j)'
    BY <2>1, <2>2, <2>4, <2>5, Bystanders DEF Owned
  <2>11. ~ Delivered(j)'
    BY <1>1, <1>2, <1>4, NoJobAssumption DEF Owned, Delivered
  <2>12. QED
    BY <2>3, <2>6, <2>7, <2>8, <2>9, <2>10, <2>11 DEF Owned, Delivered, Sound, Count
<1>5. QED
  BY <1>3, <1>4

LEMMA DrainOwned ==
  ASSUME Typed, NEW j \in Jobs, Owned(j), NEW g \in Pollers, Drain(g)
  PROVE  Owned(j)'
<1>1. PICK d \in Deliveries : d = Head(outstanding[g]) /\ TakeDelivery(d)
  BY TailType DEF Drain, Typed, TypeOK
<1>2. /\ UNCHANGED <<waiting, delayed, dlq, record, fate, raced>>
      /\ g \in Callers /\ call[g].pc \notin HoldPCs /\ QueueTypeOK /\ InSystem \in Fates
  BY Apart DEF Drain, LoopEnded, At, HoldPCs, store, Typed, TypeOK, InSystem, Fates
<1>3. CASE deliveries[d] = NoJob
  <2>1. UNCHANGED <<deliveries, call, failures>>
    BY <1>1, <1>3, NothingTaken DEF Drain
  <2>2. Sound(j, InSystem)' /\ Moves(j, InSystem)
    BY <1>2, <2>1, WaitingKept, Untouched DEF Owned
  <2>3. QED
    BY <2>1, <2>2, MethodOwned
<1>4. CASE deliveries[d] # NoJob
  <2>1. /\ call' = [call EXCEPT ![g] = Call("nack.get", deliveries[d], 0)]
        /\ failures' = [failures EXCEPT ![deliveries[d]] = @ + 1]
    BY <1>1, <1>4 DEF Drain, Begin
  <2>2. QED
    BY <1>1, <1>2, <1>4, <2>1, NacksOwned
<1>5. QED
  BY <1>3, <1>4

LEMMA AnswerOwned ==
  ASSUME Typed, NEW j \in Jobs, Owned(j), NEW t \in Tasks, CallOk(t) \/ CallErr(t)
  PROVE  Owned(j)'
<1>1. PICK d \in Deliveries : d = held[t] /\ TakeDelivery(d)
  BY DEF CallOk, CallErr, Answer, Typed, Hands
<1>2. /\ t \in Callers /\ call[t].pc \notin HoldPCs
      /\ UNCHANGED <<waiting, delayed, dlq, record, raced>>
  BY Apart DEF CallOk, CallErr, Answer, At, HoldPCs, store
<1>3. CASE deliveries[d] = NoJob
  <2>1. UNCHANGED deliveries
    BY <1>1, <1>3, NothingTaken
  <2>2. /\ UNCHANGED <<fate, failures>> /\ call' = [call EXCEPT ![t] = Call("idle", NoJob, 0)]
        /\ "idle" \in DonePCs
    BY <1>1, <1>3 DEF CallOk, CallErr, Answer, Return, Idle, DonePCs
  <2>3. QED
    BY <1>2, <2>1, <2>2, AsideOwned
<1>4. CASE deliveries[d] # NoJob /\ CallErr(t)
  <2>1. /\ call' = [call EXCEPT ![t] = Call("nack.get", deliveries[d], 0)] /\ UNCHANGED fate
        /\ failures' = [failures EXCEPT ![deliveries[d]] = @ + 1]
    BY <1>1, <1>4 DEF CallErr, Answer, Begin
  <2>2. QED
    BY <1>1, <1>2, <1>4, <2>1, NacksOwned
<1>5. CASE deliveries[d] # NoJob /\ CallOk(t)
  <2>1. /\ call' = [call EXCEPT ![t] = Call("ack.lrem", deliveries[d], 0)] /\ UNCHANGED failures
        /\ Settle(deliveries[d], "acked")
    BY <1>1, <1>5 DEF CallOk, Answer, Begin
  <2>2. QED
    BY <1>1, <1>2, <1>5, <2>1, AcksOwned
<1>6. QED
  BY <1>3, <1>4, <1>5

LEMMA ConsumerOwned ==
  ASSUME Typed, NEW j \in Jobs, Owned(j), NEW g \in Pollers, ConsumerStep(g)
  PROVE  Owned(j)'
<1>1. CASE Receive(g)
  <2>1. Sound(j, InSystem)' /\ Moves(j, InSystem)
    BY <1>1, QueueKeptSound DEF Receive, Owned, Typed, TypeOK, InSystem, Fates
  <2>2. QED
    BY <1>1, <2>1, MethodOwned DEF Receive
<1>2. ASSUME NEW t \in TasksOf(g), Spawn(g, t)
      PROVE  Owned(j)'
  <2>1. /\ t \in Callers /\ call[t].pc \notin HoldPCs /\ "serving" \in DonePCs
        /\ call' = [call EXCEPT ![t] = Call("serving", deliveries[hand[g]], 0)]
        /\ UNCHANGED <<waiting, delayed, dlq, record, raced, deliveries, fate, failures>>
    BY <1>2, Apart DEF Spawn, At, Begin, HoldPCs, DonePCs, store, history
  <2>2. QED
    BY <2>1, AsideOwned
<1>3. QED
  BY <1>1, <1>2 DEF ConsumerStep

\* A stranded job is still in the system: the delivery map has its entry.
LEMMA AbortOwned ==
  ASSUME Typed, NEW j \in Jobs, Owned(j), NEW g \in Pollers, Abort(g)
  PROVE  Owned(j)'
<1>0. UNCHANGED <<waiting, delayed, dlq, record, call, failures, raced, deliveries>>
  BY DEF Abort, store
<1>1. CASE fate'[j] = fate[j]
  <2>1. Sound(j, InSystem)' /\ Moves(j, InSystem)
    BY <1>0, <1>1, WaitingKept, Untouched DEF Owned, Typed, TypeOK, InSystem, Fates
  <2>2. QED
    BY <1>0, <2>1, MethodOwned
<1>2. CASE fate'[j] # fate[j]
  <2>1. fate'[j] = "stranded" /\ hand[g] \in Deliveries /\ deliveries[hand[g]] = j
    BY <1>2 DEF Abort, Typed, TypeOK
  <2>2. Delivered(j)
    BY <2>1 DEF Delivered
  <2>3. /\ ~ Located(j) /\ ~ Held(j) /\ ~ InWaiting(j) /\ delayed[j] = "none" /\ dlq[j] = 0
        /\ Fresh(j) /\ fate[j] \in InSystem
    BY <2>2, DeliveredKnows
  <2>4. /\ (Held(j)' <=> Held(j)) /\ WaitsAlike(j) /\ (Located(j)' <=> Located(j))
        /\ (Fresh(j)' <=> Fresh(j)) /\ \A c \in Callers : Holds(c, j)' <=> Holds(c, j)
    BY <1>0, WaitingKept DEF Held, Holds, Located, WaitsAlike, Fresh, Stored
  <2>5. Alone(j, InSystem)'
    BY <1>0, <2>3, <2>4 DEF Owned, Sound, Alone, WaitsAlike
  <2>6. Tally(j, InSystem)'
    BY <1>0, <2>1, <2>3, <2>4 DEF Tally
  <2>7. \A c \in Callers : Work(c, j)' /\ Deletes(c, j)'
    <3> SUFFICES ASSUME NEW c \in Callers, call[c].job = j
                 PROVE  Work(c, j)' /\ Deletes(c, j)'
      BY <1>0 DEF Work, Deletes
    <3>1. call[c].pc \notin HoldPCs
      BY <2>3 DEF Held, Holds
    <3>2. Deletes(c, j) /\ fate[j] \in {"live", "stranded"}
      BY <2>3 DEF Owned, Sound, Count, InSystem
    <3>3. QED
      BY <1>0, <3>1, <3>2 DEF Work, Deletes, HoldPCs, FreshPCs
  <2>8. Delivered(j)'
    BY <1>0, <2>2 DEF Delivered
  <2>9. QED
    BY <1>0, <2>1, <2>3, <2>4, <2>5, <2>6, <2>7, <2>8 DEF Owned, Sound, Count, InSystem
<1>3. QED
  BY <1>1, <1>2

LEMMA InitOwned == ASSUME Init PROVE AllOwned
<1> SUFFICES ASSUME NEW j \in Jobs
             PROVE  Owned(j)
  BY DEF AllOwned
<1>1. Sound(j, InSystem) /\ ~ Located(j) /\ fate[j] \notin InSystem
  BY QueueInitSound DEF Init, InSystem, Fates
<1>2. \A d \in Deliveries : deliveries[d] # j
  BY NoJobAssumption DEF Init
<1>3. QED
  BY <1>1, <1>2 DEF Owned, Delivered

LEMMA NextOwned ==
  ASSUME Typed, NEW j \in Jobs, Owned(j), [Next]_vars
  PROVE  Owned(j)'
<1>0. QueueTypeOK /\ InSystem \in Fates /\ Sound(j, InSystem)
  BY DEF Typed, TypeOK, InSystem, Fates, Owned
<1>1. ASSUME NEW c \in Clients, Client(c)
      PROVE  Owned(j)'
  BY <1>0, <1>1, ClientSound, MethodOwned DEF Client, local
<1>2. ASSUME NEW i \in Jobs, BecomeDue(i), UNCHANGED <<subs, local>>
      PROVE  Owned(j)'
  BY <1>0, <1>2, BecomeDueSound, MethodOwned DEF local
<1>3. ASSUME NEW g \in Pollers, PollStep(g)
      PROVE  Owned(j)'
  <2>1. g \in Callers
    BY Apart
  <2>2. CASE Move(g) /\ UNCHANGED local
    BY <1>0, <2>2, MoveSound, MethodOwned DEF local
  <2>3. CASE Pop(g) /\ UNCHANGED local
    <3>1. Sound(j, InSystem)' /\ Moves(j, InSystem)
      BY <1>0, <2>3, PopSound DEF Pop
    <3>2. QED
      BY <2>3, <3>1, MethodOwned DEF local
  <2>4. CASE Deliver(g) \/ Send(g) \/ SendFails(g) \/ Drain(g)
    BY <2>4, DeliverOwned, SendOwned, DrainOwned
  <2>5. CASE Nack(g) /\ UNCHANGED local
    BY <1>0, <2>1, <2>5, AckNackSound, MethodOwned DEF local
  <2>6. QED
    BY <1>3, <2>2, <2>3, <2>4, <2>5 DEF PollStep
<1>4. ASSUME NEW t \in Tasks, TaskStep(t)
      PROVE  Owned(j)'
  <2>1. t \in Callers
    BY Apart
  <2>2. CASE CallOk(t) \/ CallErr(t)
    BY <2>2, AnswerOwned
  <2>3. CASE (Ack(t) \/ Nack(t)) /\ UNCHANGED local
    BY <1>0, <2>1, <2>3, AckNackSound, MethodOwned DEF local
  <2>4. QED
    BY <1>4, <2>2, <2>3 DEF TaskStep
<1>5. ASSUME UNCHANGED <<queueVars, deliveries>>
      PROVE  Owned(j)'
  BY <1>0, <1>5, QueueKeptSound, MethodOwned
<1>6. QED
  BY <1>1, <1>2, <1>3, <1>4, <1>5, AbortOwned, ConsumerOwned DEF Next, Start, vars, local

\* The inductive invariant of the delivery map.
LEMMA OwnedInvariance == ASSUME IsFiniteSet(Permits) PROVE Spec => [](Typed /\ AllOwned)
<1>1. Init => Typed /\ AllOwned
  BY PrefetchType, InitTyped, InitOwned
<1>2. Typed /\ AllOwned /\ [Next]_vars => (Typed /\ AllOwned)'
  BY PrefetchType, NextTyped, NextOwned DEF AllOwned
<1>3. QED
  BY <1>1, <1>2, PTL DEF Spec

(***************************************************************************)
(* Whatever restarts, aborts, drains and late answers do, a job that is    *)
(* live or stranded has one owner: a list, a caller in the middle of a     *)
(* method, or one entry of the delivery map; any other job has none.       *)
(***************************************************************************)
THEOREM OneOwnerHolds == ASSUME IsFiniteSet(Permits) PROVE Spec => []OneOwner
<1>1. ASSUME Typed, AllOwned, NEW j \in Jobs
      PROVE  Cardinality(Places(j)) + Cardinality({d \in Deliveries : deliveries[d] = j})
               = IF fate[j] \in {"live", "stranded"} THEN 1 ELSE 0
  <2> DEFINE Entries == {d \in Deliveries : deliveries[d] = j}
  <2>0. Owned(j) /\ Alone(j, InSystem)
    BY <1>1 DEF AllOwned, Owned, Sound
  <2>1. CASE Located(j)
    <3>1. PICK x : Places(j) = {x}
      BY <2>0, <2>1, PlacesOf
    <3>2. Entries = {} /\ fate[j] \in {"live", "stranded"}
      BY <2>0, <2>1 DEF Owned, Delivered, InSystem
    <3>3. Cardinality(Places(j)) = 1 /\ Cardinality(Entries) = 0
      BY <3>1, <3>2, FS_Singleton, FS_EmptySet
    <3>4. QED
      BY <3>2, <3>3
  <2>2. CASE ~ Located(j) /\ Delivered(j)
    <3>1. PICK d \in Deliveries : deliveries[d] = j
      BY <2>2 DEF Delivered
    <3>2. Entries = {d} /\ Places(j) = {} /\ fate[j] \in {"live", "stranded"}
      BY <2>0, <2>2, <3>1, PlacesOf DEF Owned, InSystem
    <3>3. Cardinality(Places(j)) = 0 /\ Cardinality(Entries) = 1
      BY <3>2, FS_Singleton, FS_EmptySet
    <3>4. QED
      BY <3>2, <3>3
  <2>3. CASE ~ Located(j) /\ ~ Delivered(j)
    <3>1. Entries = {} /\ Places(j) = {} /\ fate[j] \notin {"live", "stranded"}
      BY <2>0, <2>3, PlacesOf DEF Owned, Delivered, InSystem
    <3>2. Cardinality(Places(j)) = 0 /\ Cardinality(Entries) = 0
      BY <3>1, FS_EmptySet
    <3>3. QED
      BY <3>1, <3>2
  <2>4. QED
    BY <2>1, <2>2, <2>3
<1>2. ASSUME Typed, AllOwned, NEW j \in Jobs
      PROVE  dlq[j] <= 1
  <2>1. Alone(j, InSystem) /\ dlq[j] \in Nat
    BY <1>2 DEF AllOwned, Owned, Sound, Typed, TypeOK, QueueTypeOK
  <2>2. QED
    BY <2>1 DEF Alone
<1>3. ASSUME Typed, AllOwned
      PROVE  \A i, k \in DOMAIN waiting : waiting[i] = waiting[k] => i = k
  <2>1. \A i \in DOMAIN waiting : waiting[i] \in Jobs
    BY <1>3 DEF Typed, TypeOK, QueueTypeOK
  <2>2. \A j \in Jobs : Once(j)
    BY <1>3 DEF AllOwned, Owned, Sound, Alone
  <2>3. QED
    BY <2>1, <2>2 DEF Once
<1>4. Typed /\ AllOwned => OneOwner
  BY <1>1, <1>2, <1>3 DEF OneOwner
<1>5. QED
  BY <1>4, OwnedInvariance, PTL

(***************************************************************************)
(* The stored attempts of a listed job are the deliveries nacked since it  *)
(* was pushed or redriven, and a dead job used them all: what the task,    *)
(* the drain and the redrive each do to the count agree.                   *)
(***************************************************************************)
THEOREM AttemptsExactHolds == ASSUME IsFiniteSet(Permits) PROVE Spec => []AttemptsExact
<1>1. Typed /\ AllOwned => AttemptsExact
  <2> SUFFICES ASSUME Typed, AllOwned, NEW j \in Jobs \ raced
               PROVE  /\ InWaiting(j) \/ delayed[j] # "none" => record[j] = failures[j]
                      /\ dlq[j] > 0 => failures[j] = MaxAttempts
    BY DEF AttemptsExact
  <2>1. QueueTypeOK /\ InSystem \in Fates /\ Sound(j, InSystem)
    BY DEF Typed, TypeOK, InSystem, Fates, AllOwned, Owned
  <2>2. InWaiting(j) \/ delayed[j] # "none" => Fresh(j)
    BY <2>1, ListedKnows
  <2>3. dlq[j] > 0 => failures[j] = MaxAttempts
    BY <2>1, ListedKnows
  <2>4. QED
    BY <2>2, <2>3 DEF Fresh, Stored
<1>2. QED
  BY <1>1, OwnedInvariance, PTL

-----------------------------------------------------------------------------
(***************************************************************************)
(* Where a delivery id can be found.  A generation refers to an id from    *)
(* Deliver until the last of its poll loop, channel, consumer and tasks    *)
(* lets it go, and no id is given to two generations at once.  While the   *)
(* consumer lives, what its channel holds is the end of its poll loop's    *)
(* window, so that nothing is lost when the channel is dropped; each id is *)
(* in one stage of its way; and its entry is still in the delivery map.    *)
(***************************************************************************)
\* s ends the first n elements of w.
Ends(s, w, n) == Len(s) <= n /\ \A i \in 1..Len(s) : s[i] = w[n - Len(s) + i]

Distinct(s) == \A i, k \in DOMAIN s : s[i] = s[k] => i = k

\* How many ids of the window were sent: a send that is waiting has the last.
Sent(g) == Len(outstanding[g]) - (IF At(g, "send") THEN 1 ELSE 0)

Windowed(g) ==
  /\ held[g] # NoDelivery => At(g, "send")
  /\ At(g, "send") => Len(outstanding[g]) > 0 /\ outstanding[g][Len(outstanding[g])] = held[g]
  /\ Ends(chan[g], outstanding[g], Sent(g))
  /\ subs[g] # "on" => chan[g] = << >> /\ hand[g] = NoDelivery

Serves(g, d) == \E t \in TasksOf(g) : held[t] = d
InFlight(g, d) == InSeq(d, chan[g]) \/ hand[g] = d \/ held[g] = d \/ Serves(g, d)
Refers(g, d) == InFlight(g, d) \/ InSeq(d, outstanding[g])

Single(g) ==
  /\ Distinct(chan[g])
  /\ \A d \in Deliveries :
       /\ hand[g] = d => ~ InSeq(d, chan[g]) /\ held[g] # d /\ ~ Serves(g, d)
       /\ held[g] = d => ~ InSeq(d, chan[g]) /\ ~ Serves(g, d)
       /\ InSeq(d, chan[g]) => ~ Serves(g, d)
  /\ \A s, t \in TasksOf(g) : held[s] = held[t] /\ held[s] # NoDelivery => s = t

Real(g) ==
  /\ \A t \in TasksOf(g) : held[t] # NoDelivery <=> At(t, "serving")
  /\ subs[g] = "new" => held[g] = NoDelivery /\ \A t \in TasksOf(g) : held[t] = NoDelivery
  /\ subs[g] = "on" =>
       /\ \A d \in Deliveries : InFlight(g, d) => deliveries[d] # NoJob
       /\ \A t \in TasksOf(g) : held[t] # NoDelivery => call[t].job = deliveries[held[t]]

OwnIds == \A g, h \in Pollers, d \in Deliveries : Refers(g, d) /\ Refers(h, d) => g = h

\* Generation g will answer delivery d.
Answers(g, d) ==
  \/ held[g] = d
  \/ subs[g] = "on" /\ (InSeq(d, chan[g]) \/ hand[g] = d)
  \/ Serves(g, d)
  \/ subs[g] = "off" /\ InSeq(d, outstanding[g])

Reached(d) ==
  deliveries[d] # NoJob =>
    (\E g \in Pollers : Answers(g, d)) \/ fate[deliveries[d]] = "stranded"

GenFlow(g) == Windowed(g) /\ Single(g) /\ Real(g)
Flow == OwnIds /\ (\A g \in Pollers : GenFlow(g)) /\ (\A d \in Deliveries : Reached(d))

LEMMA AppendAt ==
  ASSUME NEW s \in Seq(Deliveries), NEW d \in Deliveries
  PROVE  /\ Append(s, d) \in Seq(Deliveries) /\ Len(Append(s, d)) = Len(s) + 1
         /\ \A i \in 1..Len(s) : Append(s, d)[i] = s[i]
         /\ Append(s, d)[Len(s) + 1] = d
         /\ \A e : InSeq(e, Append(s, d)) <=> InSeq(e, s) \/ e = d
<1>1. /\ Append(s, d) \in Seq(Deliveries) /\ Len(Append(s, d)) = Len(s) + 1 /\ Len(s) \in Nat
      /\ \A i \in 1..Len(s) : Append(s, d)[i] = s[i]
      /\ Append(s, d)[Len(s) + 1] = d
  OBVIOUS
<1>2. DOMAIN s = 1..Len(s) /\ DOMAIN Append(s, d) = 1..(Len(s) + 1)
  BY <1>1
<1>3. \A e : InSeq(e, Append(s, d)) <=> InSeq(e, s) \/ e = d
  BY <1>1, <1>2 DEF InSeq
<1>4. QED
  BY <1>1, <1>3

LEMMA TailAt ==
  ASSUME NEW s \in Seq(Deliveries), s # << >>
  PROVE  /\ Tail(s) \in Seq(Deliveries) /\ Len(Tail(s)) = Len(s) - 1 /\ Len(s) \in Nat \ {0}
         /\ Head(s) \in Deliveries /\ Head(s) = s[1]
         /\ \A i \in 1..(Len(s) - 1) : Tail(s)[i] = s[i + 1]
         /\ \A e : InSeq(e, s) <=> InSeq(e, Tail(s)) \/ e = Head(s)
<1>1. /\ Tail(s) \in Seq(Deliveries) /\ Len(Tail(s)) = Len(s) - 1 /\ Len(s) \in Nat \ {0}
      /\ Head(s) \in Deliveries /\ Head(s) = s[1]
      /\ \A i \in 1..(Len(s) - 1) : Tail(s)[i] = s[i + 1]
  BY HeadTailProperties, EmptySeq
<1>2. DOMAIN s = 1..Len(s) /\ DOMAIN Tail(s) = 1..(Len(s) - 1)
  BY <1>1
<1>3. ASSUME NEW i \in 1..Len(s), i # 1
      PROVE  i - 1 \in 1..(Len(s) - 1) /\ s[i] = Tail(s)[i - 1]
  BY <1>1, <1>3
<1>4. ASSUME NEW e, InSeq(e, s), e # Head(s)
      PROVE  InSeq(e, Tail(s))
  <2>1. PICK i \in 1..Len(s) : s[i] = e
    BY <1>2, <1>4 DEF InSeq
  <2>2. QED
    BY <1>1, <1>2, <1>3, <1>4, <2>1 DEF InSeq
<1>5. ASSUME NEW e, InSeq(e, Tail(s)) \/ e = Head(s)
      PROVE  InSeq(e, s)
  BY <1>1, <1>2, <1>5 DEF InSeq
<1>6. QED
  BY <1>1, <1>4, <1>5

LEMMA EndsAt ==
  ASSUME NEW s \in Seq(Deliveries), NEW w, NEW n \in Nat, Ends(s, w, n), NEW i \in 1..Len(s)
  PROVE  n - Len(s) + i \in 1..n /\ s[i] = w[n - Len(s) + i]
<1>1. Len(s) \in Nat /\ Len(s) <= n /\ s[i] = w[n - Len(s) + i]
  BY DEF Ends
<1>2. QED
  BY <1>1

LEMMA EndsMore ==
  ASSUME NEW s \in Seq(Deliveries), NEW w, NEW n \in Nat, Ends(s, w, n),
         NEW d \in Deliveries, w[n + 1] = d
  PROVE  Ends(Append(s, d), w, n + 1)
<1>1. /\ Len(Append(s, d)) = Len(s) + 1 /\ Len(s) \in Nat
      /\ Append(s, d)[Len(s) + 1] = d
      /\ \A i \in 1..Len(s) : Append(s, d)[i] = s[i]
  BY AppendAt
<1>2. Len(s) <= n
  BY DEF Ends
<1>3. ASSUME NEW i \in 1..(Len(s) + 1)
      PROVE  Append(s, d)[i] = w[n + 1 - (Len(s) + 1) + i]
  <2>1. n + 1 - (Len(s) + 1) + i = n - Len(s) + i
    BY <1>1
  <2>2. CASE i = Len(s) + 1
    BY <1>1, <2>2
  <2>3. CASE i \in 1..Len(s)
    BY <1>1, <2>1, <2>3, EndsAt
  <2>4. QED
    BY <1>1, <2>2, <2>3
<1>4. QED
  BY <1>1, <1>2, <1>3 DEF Ends

LEMMA EndsLess ==
  ASSUME NEW s \in Seq(Deliveries), s # << >>, NEW w, NEW n \in Nat, Ends(s, w, n)
  PROVE  Ends(Tail(s), w, n)
<1>1. /\ Len(Tail(s)) = Len(s) - 1 /\ Len(s) \in Nat \ {0}
      /\ \A i \in 1..(Len(s) - 1) : Tail(s)[i] = s[i + 1]
  BY TailAt
<1>2. Len(s) <= n
  BY DEF Ends
<1>3. ASSUME NEW i \in 1..(Len(s) - 1)
      PROVE  Tail(s)[i] = w[n - (Len(s) - 1) + i]
  <2>1. i + 1 \in 1..Len(s) /\ n - (Len(s) - 1) + i = n - Len(s) + (i + 1)
    BY <1>1
  <2>2. s[i + 1] = w[n - Len(s) + (i + 1)]
    BY <2>1, EndsAt
  <2>3. QED
    BY <1>1, <2>1, <2>2
<1>4. QED
  BY <1>1, <1>2, <1>3 DEF Ends

LEMMA EndsTrim ==
  ASSUME NEW s \in Seq(Deliveries), NEW w \in Seq(Deliveries), Ends(s, w, Len(w)), Len(s) < Len(w)
  PROVE  Ends(s, Tail(w), Len(w) - 1)
<1>0. Len(s) \in Nat /\ Len(w) \in Nat
  OBVIOUS
<1>1. w # << >>
  BY <1>0
<1>2. \A i \in 1..(Len(w) - 1) : Tail(w)[i] = w[i + 1]
  BY <1>1, TailAt
<1>3. ASSUME NEW i \in 1..Len(s)
      PROVE  s[i] = Tail(w)[Len(w) - 1 - Len(s) + i]
  <2>1. Len(w) - Len(s) + i \in 1..Len(w) /\ s[i] = w[Len(w) - Len(s) + i]
    BY <1>0, EndsAt
  <2>2. /\ Len(w) - 1 - Len(s) + i \in 1..(Len(w) - 1)
        /\ (Len(w) - 1 - Len(s) + i) + 1 = Len(w) - Len(s) + i
    BY <1>0
  <2>3. QED
    BY <1>2, <2>1, <2>2
<1>4. QED
  BY <1>0, <1>3 DEF Ends

LEMMA EndsSame ==
  ASSUME NEW s \in Seq(Deliveries), NEW w, NEW v, NEW n \in Nat, Ends(s, w, n),
         \A i \in 1..n : v[i] = w[i]
  PROVE  Ends(s, v, n)
<1>1. ASSUME NEW i \in 1..Len(s)
      PROVE  s[i] = v[n - Len(s) + i]
  BY EndsAt
<1>2. QED
  BY <1>1 DEF Ends

LEMMA TrimEnds ==
  ASSUME Prefetch \in Nat, NEW s \in Seq(Deliveries), NEW w \in Seq(Deliveries), NEW d \in Deliveries,
         Len(w) > 0, w[Len(w)] = d, Ends(s, w, Len(w) - 1),
         Len(s) < Prefetch, Len(w) <= Prefetch + 1
  PROVE  /\ Ends(Append(s, d), Trim(w), Len(Trim(w)))
         /\ \A e : InSeq(e, Trim(w)) => InSeq(e, w)
<1>1. /\ Len(w) \in Nat /\ Len(s) \in Nat /\ Len(w) - 1 \in Nat /\ (Len(w) - 1) + 1 = Len(w)
      /\ w # << >>
  BY EmptySeq
<1>2. Append(s, d) \in Seq(Deliveries) /\ Len(Append(s, d)) = Len(s) + 1
  BY AppendAt
<1>3. Ends(Append(s, d), w, Len(w))
  <2>1. Ends(Append(s, d), w, (Len(w) - 1) + 1)
    BY <1>1, EndsMore
  <2>2. QED
    BY <1>1, <2>1
<1>4. CASE Len(w) > Prefetch
  <2>1. Len(Append(s, d)) < Len(w)
    BY <1>1, <1>2, <1>4
  <2>2. Ends(Append(s, d), Tail(w), Len(w) - 1)
    BY <1>2, <1>3, <2>1, EndsTrim
  <2>3. Len(Tail(w)) = Len(w) - 1 /\ \A e : InSeq(e, Tail(w)) => InSeq(e, w)
    BY <1>1, TailAt
  <2>4. QED
    BY <1>4, <2>2, <2>3 DEF Trim
<1>5. CASE ~ Len(w) > Prefetch
  BY <1>3, <1>5 DEF Trim
<1>6. QED
  BY <1>4, <1>5

LEMMA AppendDistinct ==
  ASSUME NEW s \in Seq(Deliveries), NEW d \in Deliveries, Distinct(s), ~ InSeq(d, s)
  PROVE  Distinct(Append(s, d))
<1>1. /\ DOMAIN Append(s, d) = 1..(Len(s) + 1) /\ DOMAIN s = 1..Len(s) /\ Len(s) \in Nat
      /\ \A i \in 1..Len(s) : Append(s, d)[i] = s[i]
      /\ Append(s, d)[Len(s) + 1] = d
  OBVIOUS
<1>2. \A i \in 1..Len(s) : s[i] # d
  BY <1>1 DEF InSeq
<1>3. \A i \in 1..(Len(s) + 1) : i \in 1..Len(s) \/ i = Len(s) + 1
  BY <1>1
<1>4. QED
  BY <1>1, <1>2, <1>3 DEF Distinct

LEMMA TailDistinct ==
  ASSUME NEW s \in Seq(Deliveries), s # << >>, Distinct(s)
  PROVE  Distinct(Tail(s)) /\ ~ InSeq(Head(s), Tail(s))
<1>1. /\ Tail(s) \in Seq(Deliveries) /\ Len(Tail(s)) = Len(s) - 1 /\ Len(s) \in Nat \ {0}
      /\ Head(s) = s[1]
      /\ \A i \in 1..(Len(s) - 1) : Tail(s)[i] = s[i + 1]
  BY TailAt
<1>2. DOMAIN Tail(s) = 1..(Len(s) - 1) /\ DOMAIN s = 1..Len(s)
  BY <1>1
<1>3. \A i \in 1..(Len(s) - 1) : i + 1 \in DOMAIN s /\ i + 1 # 1
  BY <1>1, <1>2
<1>4. 1 \in DOMAIN s
  BY <1>1, <1>2
<1>5. ~ InSeq(Head(s), Tail(s))
  BY <1>1, <1>2, <1>3, <1>4 DEF Distinct, InSeq
<1>6. ASSUME NEW i \in 1..(Len(s) - 1), NEW k \in 1..(Len(s) - 1), Tail(s)[i] = Tail(s)[k]
      PROVE  i = k
  <2>1. i + 1 = k + 1
    BY <1>1, <1>3, <1>6 DEF Distinct
  <2>2. QED
    BY <1>1, <2>1
<1>7. QED
  BY <1>2, <1>5, <1>6 DEF Distinct

\* A generation that a step leaves alone.
GenKept(g) ==
  /\ UNCHANGED <<subs[g], chan[g], outstanding[g], hand[g], held[g]>>
  /\ At(g, "send")' <=> At(g, "send")
  /\ \A t \in TasksOf(g) :
       /\ UNCHANGED held[t]
       /\ UNCHANGED call[t] \/ ~ (At(t, "serving") \/ At(t, "serving")')

LEMMA KeptFlow ==
  ASSUME Typed, NEW g \in Pollers, GenFlow(g), GenKept(g),
         \A d \in Deliveries : Refers(g, d) => UNCHANGED deliveries[d]
  PROVE  /\ GenFlow(g)'
         /\ \A d \in Deliveries : (Refers(g, d)' <=> Refers(g, d)) /\ (Answers(g, d)' <=> Answers(g, d))
<1>1. \A d \in Deliveries : Serves(g, d)' <=> Serves(g, d)
  BY DEF Serves, GenKept
<1>2. \A d \in Deliveries :
        /\ InFlight(g, d)' <=> InFlight(g, d)
        /\ Refers(g, d)' <=> Refers(g, d)
        /\ Answers(g, d)' <=> Answers(g, d)
  BY <1>1 DEF GenKept, InFlight, Refers, Answers
<1>3. Windowed(g)'
  BY DEF GenKept, GenFlow, Windowed, Sent, Ends
<1>4. Single(g)'
  BY <1>1 DEF GenKept, GenFlow, Single
<1>5. Real(g)'
  <2>1. \A t \in TasksOf(g) : At(t, "serving")' <=> At(t, "serving")
    BY DEF GenKept, At
  <2>2. /\ \A t \in TasksOf(g) : held'[t] # NoDelivery <=> At(t, "serving")'
        /\ subs'[g] = "new" =>
             held'[g] = NoDelivery /\ \A t \in TasksOf(g) : held'[t] = NoDelivery
    BY <2>1 DEF GenKept, GenFlow, Real
  <2>3. ASSUME subs'[g] = "on", NEW d \in Deliveries, InFlight(g, d)'
        PROVE  deliveries'[d] # NoJob
    BY <1>2, <2>3 DEF GenKept, GenFlow, Real, Refers
  <2>4. ASSUME subs'[g] = "on", NEW t \in TasksOf(g), held'[t] # NoDelivery
        PROVE  call'[t].job = deliveries'[held'[t]]
    <3>1. held'[t] = held[t] /\ held[t] \in Deliveries /\ At(t, "serving") /\ subs[g] = "on"
      BY <2>4, Apart DEF GenKept, GenFlow, Real, Typed, TypeOK
    <3>2. call'[t] = call[t] /\ call[t].job = deliveries[held[t]] /\ Refers(g, held[t])
      BY <2>4, <3>1 DEF GenKept, GenFlow, Real, Refers, InFlight, Serves
    <3>3. QED
      BY <3>1, <3>2
  <2>5. QED
    BY <2>2, <2>3, <2>4 DEF Real
<1>6. QED
  BY <1>2, <1>3, <1>4, <1>5 DEF GenFlow

\* What a step of generation g may do to delivery d: take its entry, which it
\* referred to; leave the entry, and answer it still or strand it; or make one.
Stranded(d) == fate[deliveries[d]] = "stranded"

Answered(g, d) ==
  \/ deliveries'[d] = NoJob /\ Refers(g, d)
  \/ /\ UNCHANGED deliveries[d]
     /\ deliveries[d] # NoJob =>
          /\ Answers(g, d) => Answers(g, d)' \/ Stranded(d)'
          /\ Stranded(d) => Stranded(d)'
  \/ ~ InUse(d) /\ Answers(g, d)'

\* A step of one generation: the ids of the others are none of its own.
LEMMA FlowOf ==
  ASSUME Typed, Flow, NEW g \in Pollers, GenFlow(g)',
         \A h \in Pollers \ {g} : GenKept(h),
         \A d \in Deliveries : (Refers(g, d)' => Refers(g, d) \/ ~ InUse(d)) /\ Answered(g, d)
  PROVE  Flow'
<1>1. \A h \in Pollers, d \in Deliveries : Refers(h, d) => InUse(d)
  BY Apart DEF Refers, InFlight, Serves, InUse
<1>2. ASSUME NEW h \in Pollers \ {g}
      PROVE  /\ GenFlow(h)'
             /\ \A d \in Deliveries : /\ Refers(h, d)' <=> Refers(h, d)
                                      /\ Answers(h, d)' <=> Answers(h, d)
                                      /\ Refers(h, d) => ~ Refers(g, d)'
  <2>1. \A d \in Deliveries : Refers(h, d) => ~ Refers(g, d) /\ InUse(d)
    BY <1>1, <1>2 DEF Flow, OwnIds
  <2>2. \A d \in Deliveries : Refers(h, d) => UNCHANGED deliveries[d]
    BY <2>1 DEF Answered
  <2>3. /\ GenFlow(h)'
        /\ \A d \in Deliveries : (Refers(h, d)' <=> Refers(h, d)) /\ (Answers(h, d)' <=> Answers(h, d))
    BY <1>2, <2>2, KeptFlow DEF Flow
  <2>4. QED
    BY <2>1, <2>3
<1>3. \A h \in Pollers : GenFlow(h)'
  BY <1>2
<1>4. ASSUME NEW h \in Pollers, NEW i \in Pollers, NEW d \in Deliveries,
             Refers(h, d)', Refers(i, d)'
      PROVE  h = i
  <2>1. CASE h # g /\ i # g
    BY <1>2, <1>4, <2>1 DEF Flow, OwnIds
  <2>2. CASE h = g \/ i = g
    BY <1>2, <1>4, <2>2
  <2>3. QED
    BY <2>1, <2>2
<1>5. ASSUME NEW d \in Deliveries, deliveries'[d] # NoJob
      PROVE  (\E h \in Pollers : Answers(h, d)') \/ Stranded(d)'
  <2>1. CASE ~ InUse(d) /\ Answers(g, d)'
    BY <2>1
  <2>2. CASE UNCHANGED deliveries[d] /\ ~ (~ InUse(d) /\ Answers(g, d)')
    <3>1. deliveries[d] # NoJob
      BY <1>5, <2>2
    <3>2. (Answers(g, d) => Answers(g, d)' \/ Stranded(d)') /\ (Stranded(d) => Stranded(d)')
      BY <1>5, <2>2, <3>1 DEF Answered
    <3>3. (\E h \in Pollers : Answers(h, d)) \/ Stranded(d)
      BY <3>1 DEF Flow, Reached, Stranded
    <3>4. CASE Stranded(d)
      BY <3>2, <3>4
    <3>5. ASSUME NEW h \in Pollers, Answers(h, d)
          PROVE  (\E i \in Pollers : Answers(i, d)') \/ Stranded(d)'
      BY <1>2, <3>2, <3>5
    <3>6. QED
      BY <3>3, <3>4, <3>5
  <2>3. QED
    BY <1>5, <2>1, <2>2 DEF Answered
<1>6. QED
  BY <1>3, <1>4, <1>5 DEF Flow, OwnIds, Reached, Stranded

\* A step of none of them.
LEMMA AllKeptFlow ==
  ASSUME Typed, Flow, \A g \in Pollers : GenKept(g), UNCHANGED deliveries,
         \A d \in Deliveries : deliveries[d] # NoJob => (Stranded(d) => Stranded(d)')
  PROVE  Flow'
<1>1. ASSUME NEW g \in Pollers
      PROVE  /\ GenFlow(g)'
             /\ \A d \in Deliveries : (Refers(g, d)' <=> Refers(g, d)) /\ (Answers(g, d)' <=> Answers(g, d))
  BY KeptFlow DEF Flow
<1>2. OwnIds'
  BY <1>1 DEF Flow, OwnIds
<1>3. \A d \in Deliveries : Reached(d)'
  BY <1>1 DEF Flow, Reached, Stranded
<1>4. QED
  BY <1>1, <1>2, <1>3 DEF Flow

\* What stays as it is when only caller c, of generation g, moves.
LEMMA OthersKept ==
  ASSUME Typed, NEW g \in Pollers, NEW c \in {g} \cup TasksOf(g),
         \A d \in Callers \ {c} : call'[d] = call[d],
         \A d \in (Pollers \cup Tasks) \ {c} : held'[d] = held[d],
         \A h \in Pollers \ {g} : UNCHANGED <<subs[h], chan[h], outstanding[h], hand[h]>>
  PROVE  \A h \in Pollers \ {g} : GenKept(h)
<1> SUFFICES ASSUME NEW h \in Pollers \ {g}
             PROVE  GenKept(h)
  OBVIOUS
<1>1. h \in Callers /\ h # c /\ (At(h, "send")' <=> At(h, "send")) /\ held'[h] = held[h]
  BY Apart DEF At
<1>2. ASSUME NEW t \in TasksOf(h)
      PROVE  call'[t] = call[t] /\ held'[t] = held[t]
  <2>1. t \in Tasks /\ t \in Callers /\ t[1] = h
    BY Apart DEF TasksOf
  <2>2. t # c
    BY <2>1, Apart DEF TasksOf
  <2>3. QED
    BY <2>1, <2>2
<1>3. QED
  BY <1>1, <1>2 DEF GenKept

\* The steps of a poll loop on its window.
LEMMA DeliverFlow ==
  ASSUME Typed, Flow, NEW g \in Pollers, Deliver(g), subs[g] # "new", UNCHANGED subs
  PROVE  Flow'
<1>1. PICK d \in Deliveries :
        /\ ~ InUse(d)
        /\ deliveries' = [deliveries EXCEPT ![d] = call[g].job]
        /\ outstanding' = [outstanding EXCEPT ![g] = Append(@, d)]
        /\ held' = [held EXCEPT ![g] = d]
  BY DEF Deliver
<1>2. GenFlow(g) /\ g \in Callers /\ call[g].job # NoJob /\ call[g].pc = "popped"
  BY Apart, NoJobAssumption DEF Flow, Deliver, At, Typed, TypeOK, QueueTypeOK, HoldPCs
<1>3. /\ \A c \in Callers : call'[c] = IF c = g THEN Call("send", NoJob, 0) ELSE call[c]
      /\ \A c \in Pollers \cup Tasks : held'[c] = IF c = g THEN d ELSE held[c]
      /\ \A e \in Deliveries : deliveries'[e] = IF e = d THEN call[g].job ELSE deliveries[e]
      /\ \A h \in Pollers : outstanding'[h] = IF h = g THEN Append(outstanding[g], d) ELSE outstanding[h]
      /\ UNCHANGED <<subs, chan, hand, fate>>
  BY <1>1 DEF Deliver, Begin, Typed, TypeOK, QueueTypeOK, history
<1>4. /\ Len(outstanding'[g]) = Len(outstanding[g]) + 1 /\ Len(outstanding[g]) \in Nat
      /\ \A i \in 1..Len(outstanding[g]) : outstanding'[g][i] = outstanding[g][i]
      /\ outstanding'[g][Len(outstanding[g]) + 1] = d
      /\ \A e : InSeq(e, outstanding'[g]) <=> InSeq(e, outstanding[g]) \/ e = d
  <2>1. outstanding[g] \in Seq(Deliveries) /\ outstanding'[g] = Append(outstanding[g], d)
    BY <1>3 DEF Typed, TypeOK
  <2>2. Len(outstanding[g]) \in Nat
    BY <2>1
  <2>3. QED
    BY <2>1, <2>2, AppendAt
<1>5. /\ held[g] = NoDelivery /\ held'[g] = d /\ d # NoDelivery
      /\ Sent(g) = Len(outstanding[g]) /\ Sent(g)' = Len(outstanding[g])
      /\ At(g, "send")'
  <2>1. ~ At(g, "send") /\ At(g, "send")'
    BY <1>2, <1>3 DEF At, Call
  <2>2. held[g] = NoDelivery /\ held'[g] = d /\ d # NoDelivery
    BY <1>2, <1>3, <2>1, NoDeliveryAssumption DEF GenFlow, Windowed
  <2>3. QED
    BY <1>4, <2>1, <2>2 DEF Sent
<1>6. \A t \in TasksOf(g) : held'[t] = held[t] /\ call'[t] = call[t] /\ held[t] # d
  BY <1>1, <1>3, Apart DEF InUse
<1>7. ~ InSeq(d, chan[g]) /\ ~ InSeq(d, outstanding[g]) /\ hand[g] # d /\ ~ Serves(g, d)
      /\ \A e \in Deliveries : Serves(g, e)' <=> Serves(g, e)
  BY <1>1, <1>6 DEF InUse, Serves
<1>8. Windowed(g)'
  <2>1. Ends(chan[g], outstanding[g], Len(outstanding[g])) /\ Len(chan[g]) \in Nat
    BY <1>2, <1>5 DEF GenFlow, Windowed, Typed, TypeOK
  <2>2. Ends(chan[g], outstanding'[g], Len(outstanding[g]))
    <3>1. chan[g] \in Seq(Deliveries)
      BY DEF Typed, TypeOK
    <3>2. QED
      BY <1>4, <2>1, <3>1, EndsSame
  <2>3. Ends(chan'[g], outstanding'[g], Sent(g)')
    BY <1>3, <1>5, <2>2
  <2>4. QED
    BY <1>2, <1>3, <1>4, <1>5, <2>3 DEF GenFlow, Windowed
<1>9. Single(g)'
  BY <1>2, <1>3, <1>5, <1>6, <1>7 DEF GenFlow, Single
<1>10. \A e \in Deliveries : InFlight(g, e)' => InFlight(g, e) \/ e = d
  BY <1>3, <1>5, <1>7 DEF InFlight
<1>11. Real(g)'
  <2>1. \A t \in TasksOf(g) : (held'[t] # NoDelivery <=> At(t, "serving")') /\ t \in Tasks
    BY <1>2, <1>6, Apart DEF GenFlow, Real, At
  <2>2. ASSUME subs[g] = "on", NEW e \in Deliveries, InFlight(g, e)'
        PROVE  deliveries'[e] # NoJob
    BY <1>2, <1>3, <1>10, <2>2 DEF GenFlow, Real
  <2>3. ASSUME subs[g] = "on", NEW t \in TasksOf(g), held'[t] # NoDelivery
        PROVE  call'[t].job = deliveries'[held'[t]]
    <3>1. held[t] \in Deliveries /\ call[t].job = deliveries[held[t]]
      BY <1>2, <1>6, <2>1, <2>3 DEF GenFlow, Real, Typed, TypeOK
    <3>2. QED
      BY <1>3, <1>6, <3>1
  <2>4. QED
    BY <1>3, <2>1, <2>2, <2>3 DEF Real
<1>12. \A h \in Pollers \ {g} : GenKept(h)
  BY <1>3, OthersKept
<1>13. \A e \in Deliveries : Refers(g, e)' => Refers(g, e) \/ ~ InUse(e)
  BY <1>1, <1>3, <1>4, <1>10 DEF Refers
<1>14. ASSUME NEW e \in Deliveries
       PROVE  Answered(g, e)
  <2>1. Answered(g, d)
    BY <1>1, <1>5 DEF Answered, Answers
  <2>2. CASE e # d
    BY <1>3, <1>4, <1>5, <1>7, <2>2, NoDeliveryAssumption DEF Answered, Answers, Stranded
  <2>3. QED
    BY <2>1, <2>2
<1>15. QED
  BY <1>8, <1>9, <1>11, <1>12, <1>13, <1>14, FlowOf DEF GenFlow

LEMMA SendFlow ==
  ASSUME Prefetch \in Nat, Typed, Flow, NEW g \in Pollers, Send(g),
         subs[g] # "new", UNCHANGED subs
  PROVE  Flow'
<1> DEFINE d == held[g]
           w == outstanding[g]
<1>1. /\ g \in Callers /\ d \in Deliveries /\ GenFlow(g) /\ subs[g] = "on" /\ At(g, "send")
      /\ w \in Seq(Deliveries) /\ chan[g] \in Seq(Deliveries)
      /\ Len(w) \in Nat /\ Len(w) <= Prefetch + 1 /\ Len(chan[g]) \in Nat /\ Len(chan[g]) < Prefetch
  BY Apart DEF Send, Closed, Typed, TypeOK, Hands, Flow
<1>2. /\ \A c \in Callers : call'[c] = IF c = g THEN Idle ELSE call[c]
      /\ \A c \in Pollers \cup Tasks : held'[c] = IF c = g THEN NoDelivery ELSE held[c]
      /\ \A h \in Pollers : outstanding'[h] = IF h = g THEN Trim(w) ELSE outstanding[h]
      /\ \A h \in Pollers : chan'[h] = IF h = g THEN Append(chan[g], d) ELSE chan[h]
      /\ UNCHANGED <<subs, deliveries, hand, fate>>
  BY DEF Send, Return, Typed, TypeOK, QueueTypeOK, history
<1>3. ~ At(g, "send")' /\ Len(w) > 0 /\ w[Len(w)] = d /\ Sent(g) = Len(w) - 1
  BY <1>1, <1>2 DEF GenFlow, Windowed, Sent, At, Idle, Call
<1>4. Sent(g)' = Len(outstanding'[g])
  <2>1. Len(outstanding'[g]) \in Nat
    BY <1>1, <1>2, TrimType
  <2>2. QED
    BY <1>3, <2>1 DEF Sent
<1>5. Ends(chan'[g], outstanding'[g], Sent(g)') /\ \A e : InSeq(e, outstanding'[g]) => InSeq(e, w)
  <2>1. Ends(chan[g], w, Len(w) - 1)
    BY <1>1, <1>3 DEF GenFlow, Windowed
  <2>2. QED
    BY <1>1, <1>2, <1>3, <1>4, <2>1, TrimEnds
<1>6. \A t \in TasksOf(g) : held'[t] = held[t] /\ call'[t] = call[t] /\ t \in Tasks
  BY <1>2, Apart
<1>7. \A e \in Deliveries : (Serves(g, e)' <=> Serves(g, e)) /\ (InSeq(e, chan'[g]) <=> InSeq(e, chan[g]) \/ e = d)
  BY <1>1, <1>2, <1>6, AppendAt DEF Serves
<1>8. held'[g] = NoDelivery /\ d # NoDelivery /\ ~ InSeq(d, chan[g]) /\ ~ Serves(g, d) /\ hand[g] # d
  BY <1>1, <1>2, NoDeliveryAssumption DEF GenFlow, Single
<1>9. Windowed(g)'
  BY <1>1, <1>2, <1>3, <1>5, <1>8 DEF Windowed
<1>10. Single(g)'
  <2>1. Distinct(chan'[g])
    BY <1>1, <1>2, <1>8, AppendDistinct DEF GenFlow, Single
  <2>2. QED
    BY <1>1, <1>2, <1>6, <1>7, <1>8, <2>1, NoDeliveryAssumption DEF GenFlow, Single
<1>11. \A e \in Deliveries : InFlight(g, e)' <=> InFlight(g, e)
  BY <1>2, <1>7, <1>8, NoDeliveryAssumption DEF InFlight
<1>12. Real(g)'
  BY <1>1, <1>2, <1>6, <1>11 DEF GenFlow, Real, At
<1>13. \A h \in Pollers \ {g} : GenKept(h)
  BY <1>2, OthersKept
<1>14. \A e \in Deliveries : Refers(g, e)' => Refers(g, e)
  BY <1>5, <1>11 DEF Refers
<1>15. \A e \in Deliveries : Answered(g, e)
  BY <1>1, <1>2, <1>7, <1>8 DEF Answered, Answers, Stranded
<1>16. QED
  BY <1>9, <1>10, <1>12, <1>13, <1>14, <1>15, FlowOf DEF GenFlow

LEMMA SendFailsFlow ==
  ASSUME Typed, Flow, NEW g \in Pollers, SendFails(g), UNCHANGED subs
  PROVE  Flow'
<1>1. /\ g \in Callers /\ held[g] \in Deliveries /\ GenFlow(g) /\ subs[g] = "off" /\ At(g, "send")
      /\ Len(outstanding[g]) \in Nat /\ DOMAIN outstanding[g] = 1..Len(outstanding[g])
  BY Apart DEF SendFails, Closed, Typed, TypeOK, Hands, Flow
<1>2. /\ \A c \in Callers : call'[c] = IF c = g THEN Idle ELSE call[c]
      /\ \A c \in Pollers \cup Tasks : held'[c] = IF c = g THEN NoDelivery ELSE held[c]
      /\ UNCHANGED <<subs, deliveries, chan, outstanding, hand, fate>>
  BY DEF SendFails, Return, Typed, TypeOK, QueueTypeOK, history
<1>3. chan[g] = << >> /\ hand[g] = NoDelivery /\ InSeq(held[g], outstanding[g]) /\ ~ At(g, "send")'
  BY <1>1, <1>2 DEF GenFlow, Windowed, InSeq, At, Idle, Call
<1>4. \A t \in TasksOf(g) : held'[t] = held[t] /\ call'[t] = call[t]
  BY <1>2, Apart
<1>5. \A e \in Deliveries : Serves(g, e)' <=> Serves(g, e)
  BY <1>4 DEF Serves
<1>6. held'[g] = NoDelivery
  BY <1>2
<1>7. Windowed(g)'
  BY <1>1, <1>2, <1>3, <1>6 DEF Windowed, Ends, Sent
<1>8. Single(g)'
  BY <1>1, <1>2, <1>4, <1>5, <1>6, NoDeliveryAssumption DEF GenFlow, Single
<1>9. Real(g)'
  BY <1>1, <1>2, <1>4, <1>6 DEF GenFlow, Real, At
<1>10. \A h \in Pollers \ {g} : GenKept(h)
  BY <1>2, OthersKept
<1>11. \A e \in Deliveries : Refers(g, e)' => Refers(g, e)
  BY <1>2, <1>5, <1>6, NoDeliveryAssumption DEF Refers, InFlight
<1>12. \A e \in Deliveries : Answered(g, e)
  BY <1>1, <1>2, <1>3, <1>5 DEF Answered, Answers, Stranded
<1>13. QED
  BY <1>7, <1>8, <1>9, <1>10, <1>11, <1>12, FlowOf DEF GenFlow

LEMMA DrainFlow ==
  ASSUME Typed, Flow, NEW g \in Pollers, Drain(g), UNCHANGED subs
  PROVE  Flow'
<1>1. PICK d \in Deliveries :
        /\ d = Head(outstanding[g])
        /\ outstanding'[g] = Tail(outstanding[g])
        /\ \A e : InSeq(e, outstanding[g]) <=> InSeq(e, outstanding'[g]) \/ e = d
        /\ Len(outstanding'[g]) \in Nat
  BY TailAt DEF Drain, Typed, TypeOK
<1>2. /\ g \in Callers /\ GenFlow(g) /\ subs[g] = "off" /\ At(g, "idle")
      /\ held[g] = NoDelivery /\ chan[g] = << >> /\ hand[g] = NoDelivery
  BY Apart DEF Drain, LoopEnded, Closed, Flow, GenFlow, Windowed, At
<1>3. /\ \A e \in Deliveries : deliveries'[e] = IF e = d THEN NoJob ELSE deliveries[e]
      /\ \A h \in Pollers \ {g} : outstanding'[h] = outstanding[h]
      /\ \A c \in Callers \ {g} : call'[c] = call[c]
      /\ UNCHANGED <<subs, chan, hand, held, fate>>
  BY <1>1 DEF Drain, TakeDelivery, Begin, Typed, TypeOK, QueueTypeOK
<1>4. ~ At(g, "send")'
  <2>1. call'[g] = call[g] \/ call'[g].pc = "nack.get"
    BY <1>2 DEF Drain, Begin, Call, Typed, TypeOK, QueueTypeOK
  <2>2. QED
    BY <1>2, <2>1 DEF At
<1>5. \A t \in TasksOf(g) : held'[t] = held[t] /\ call'[t] = call[t]
  BY <1>3, Apart
<1>6. \A e \in Deliveries : Serves(g, e)' <=> Serves(g, e)
  BY <1>5 DEF Serves
<1>7. Windowed(g)'
  <2>1. Sent(g)' = Len(outstanding'[g])
    BY <1>1, <1>4 DEF Sent
  <2>2. Ends(<< >>, outstanding'[g], Len(outstanding'[g]))
    BY <1>1 DEF Ends
  <2>3. chan'[g] = << >> /\ hand'[g] = NoDelivery /\ held'[g] = NoDelivery
    BY <1>2, <1>3
  <2>4. QED
    BY <1>4, <2>1, <2>2, <2>3 DEF Windowed
<1>8. Single(g)' /\ Real(g)'
  BY <1>2, <1>3, <1>5, <1>6 DEF GenFlow, Single, Real, At
<1>9. \A h \in Pollers \ {g} : GenKept(h)
  BY <1>3, OthersKept
<1>10. \A e \in Deliveries : Refers(g, e)' => Refers(g, e)
  BY <1>1, <1>3, <1>6 DEF Refers, InFlight
<1>11. Answered(g, d)
  BY <1>1, <1>3 DEF Answered, Refers
<1>12. \A e \in Deliveries \ {d} : Answered(g, e)
  BY <1>1, <1>2, <1>3, <1>6 DEF Answered, Answers, Stranded
<1>13. QED
  BY <1>7, <1>8, <1>9, <1>10, <1>11, <1>12, FlowOf DEF GenFlow

\* The steps of a consumer and its tasks.
LEMMA ReceiveFlow ==
  ASSUME Typed, Flow, NEW g \in Pollers, Receive(g), UNCHANGED subs
  PROVE  Flow'
<1>1. PICK d \in Deliveries :
        /\ d = Head(chan[g])
        /\ chan'[g] = Tail(chan[g])
        /\ \A e : InSeq(e, chan[g]) <=> InSeq(e, chan'[g]) \/ e = d
  BY TailAt DEF Receive, Typed, TypeOK
<1>2. /\ g \in Callers /\ GenFlow(g) /\ subs[g] = "on" /\ hand[g] = NoDelivery
      /\ chan[g] # << >> /\ chan[g] \in Seq(Deliveries)
      /\ Len(outstanding[g]) \in Nat
  BY Apart DEF Receive, Flow, Typed, TypeOK
<1>3. /\ hand' = [hand EXCEPT ![g] = d]
      /\ \A h \in Pollers \ {g} : chan'[h] = chan[h] /\ hand'[h] = hand[h]
      /\ hand'[g] = d
      /\ UNCHANGED <<subs, call, deliveries, outstanding, held, fate>>
  BY <1>1 DEF Receive, Typed, TypeOK, queueVars, history
<1>4. Windowed(g)'
  <2>1. Sent(g) \in Nat
    <3>1. At(g, "send") => Len(outstanding[g]) > 0
      BY <1>2 DEF GenFlow, Windowed
    <3>2. QED
      BY <1>2, <3>1 DEF Sent
  <2>2. Ends(chan[g], outstanding[g], Sent(g)) /\ Sent(g)' = Sent(g)
    BY <1>2, <1>3 DEF GenFlow, Windowed, Sent, At
  <2>3. Ends(chan'[g], outstanding[g], Sent(g))
    BY <1>1, <1>2, <2>1, <2>2, EndsLess
  <2>4. QED
    BY <1>2, <1>3, <2>2, <2>3 DEF GenFlow, Windowed, At
<1>5. \A e \in Deliveries : Serves(g, e)' <=> Serves(g, e)
  BY <1>3 DEF Serves
<1>6. Single(g)'
  <2>1. Distinct(chan'[g]) /\ ~ InSeq(d, chan'[g])
    BY <1>1, <1>2, TailDistinct DEF GenFlow, Single
  <2>2. InSeq(d, chan[g])
    BY <1>1
  <2>3. QED
    BY <1>1, <1>2, <1>3, <1>5, <2>1, <2>2 DEF GenFlow, Single
<1>7. \A e \in Deliveries : InFlight(g, e)' <=> InFlight(g, e)
  BY <1>1, <1>2, <1>3, <1>5, NoDeliveryAssumption DEF InFlight
<1>8. Real(g)'
  BY <1>2, <1>3, <1>7 DEF GenFlow, Real, At
<1>9. \A h \in Pollers \ {g} : GenKept(h)
  BY <1>3 DEF GenKept, At
<1>10. \A e \in Deliveries : Refers(g, e)' => Refers(g, e)
  BY <1>3, <1>7 DEF Refers
<1>11. \A e \in Deliveries : Answered(g, e)
  BY <1>1, <1>2, <1>3, <1>5, NoDeliveryAssumption DEF Answered, Answers, Stranded
<1>12. QED
  BY <1>4, <1>6, <1>8, <1>9, <1>10, <1>11, FlowOf DEF GenFlow

LEMMA SpawnFlow ==
  ASSUME Typed, Flow, NEW g \in Pollers, NEW t \in TasksOf(g), Spawn(g, t), UNCHANGED subs
  PROVE  Flow'
<1>1. PICK d \in Deliveries : d = hand[g]
  BY DEF Spawn, Typed, TypeOK
<1>2. /\ g \in Callers /\ GenFlow(g) /\ subs[g] = "on" /\ d # NoDelivery
      /\ t \in Tasks /\ t \in Callers /\ t # g /\ g \notin TasksOf(g)
      /\ held[t] = NoDelivery
  BY <1>1, Apart, NoDeliveryAssumption DEF Spawn, Flow, GenFlow, Real, At
<1>3. /\ \A c \in Callers : call'[c] = IF c = t THEN Call("serving", deliveries[d], 0) ELSE call[c]
      /\ \A c \in Pollers \cup Tasks : held'[c] = IF c = t THEN d ELSE held[c]
      /\ \A h \in Pollers : hand'[h] = IF h = g THEN NoDelivery ELSE hand[h]
      /\ UNCHANGED <<subs, deliveries, chan, outstanding, fate>>
  BY <1>1, <1>2 DEF Spawn, Begin, Typed, TypeOK, QueueTypeOK, history
<1>4. /\ At(g, "send")' <=> At(g, "send")
      /\ held'[g] = held[g] /\ hand'[g] = NoDelivery
      /\ \A s \in TasksOf(g) : s \in Tasks /\ s \in Callers
  BY <1>2, <1>3, Apart DEF At
<1>5. ~ InSeq(d, chan[g]) /\ held[g] # d /\ ~ Serves(g, d)
  BY <1>1, <1>2 DEF GenFlow, Single
<1>6. \A e \in Deliveries : Serves(g, e)' <=> Serves(g, e) \/ e = d
  BY <1>2, <1>3, <1>4, NoDeliveryAssumption DEF Serves
<1>7. Windowed(g)'
  BY <1>2, <1>3, <1>4 DEF GenFlow, Windowed, Sent
<1>8. Single(g)'
  <2>1. ASSUME NEW r \in TasksOf(g), NEW s \in TasksOf(g), held'[r] = held'[s], held'[r] # NoDelivery
        PROVE  r = s
    BY <1>2, <1>3, <1>4, <1>5, <2>1 DEF GenFlow, Single, Serves
  <2>2. QED
    BY <1>2, <1>3, <1>4, <1>5, <1>6, <2>1, NoDeliveryAssumption DEF GenFlow, Single
<1>9. \A e \in Deliveries : InFlight(g, e)' <=> InFlight(g, e)
  BY <1>1, <1>3, <1>4, <1>6, NoDeliveryAssumption DEF InFlight
<1>10. Real(g)'
  <2>1. \A s \in TasksOf(g) : held'[s] # NoDelivery <=> At(s, "serving")'
    BY <1>2, <1>3, <1>4 DEF GenFlow, Real, At, Call
  <2>2. \A e \in Deliveries : InFlight(g, e)' => deliveries'[e] # NoJob
    BY <1>2, <1>3, <1>9 DEF GenFlow, Real
  <2>3. \A s \in TasksOf(g) : held'[s] # NoDelivery => call'[s].job = deliveries'[held'[s]]
    BY <1>2, <1>3, <1>4 DEF GenFlow, Real, Call
  <2>4. QED
    BY <1>2, <1>3, <2>1, <2>2, <2>3 DEF Real
<1>11. \A h \in Pollers \ {g} : GenKept(h)
  BY <1>3, OthersKept
<1>12. \A e \in Deliveries : Refers(g, e)' => Refers(g, e)
  BY <1>3, <1>9 DEF Refers
<1>13. \A e \in Deliveries : Answered(g, e)
  BY <1>1, <1>2, <1>3, <1>4, <1>6 DEF Answered, Answers, Stranded
<1>14. QED
  BY <1>7, <1>8, <1>10, <1>11, <1>12, <1>13, FlowOf DEF GenFlow

LEMMA AnswerFlow ==
  ASSUME Typed, AllOwned, Flow, NEW t \in Tasks, CallOk(t) \/ CallErr(t), UNCHANGED subs
  PROVE  Flow'
<1>1. PICK g \in Pollers : t \in TasksOf(g)
  BY DEF Tasks, TasksOf
<1>2. PICK d \in Deliveries : d = held[t]
  BY DEF CallOk, CallErr, Answer, Typed, Hands
<1>3. PICK pc \in {"ack.lrem", "nack.get"} : Answer(t, pc)
  BY DEF CallOk, CallErr
<1>4. /\ g \in Callers /\ GenFlow(g) /\ d # NoDelivery
      /\ t \in Callers /\ t # g /\ Serves(g, d) /\ At(t, "serving")
  BY <1>1, <1>2, <1>3, Apart, NoDeliveryAssumption DEF Answer, Flow, Serves
<1>5. /\ \A c \in Callers \ {t} : call'[c] = call[c]
      /\ \A c \in Pollers \cup Tasks : held'[c] = IF c = t THEN NoDelivery ELSE held[c]
      /\ \A e \in Deliveries : deliveries'[e] = IF e = d THEN NoJob ELSE deliveries[e]
      /\ UNCHANGED <<subs, chan, outstanding, hand>>
  BY <1>2, <1>3, <1>4 DEF Answer, TakeDelivery, Begin, Return, Typed, TypeOK, QueueTypeOK
<1>6. ~ At(t, "serving")'
  <2>1. CASE deliveries[d] = NoJob
    BY <1>2, <1>3, <1>4, <2>1 DEF Answer, Return, Idle, Call, At, Typed, TypeOK, QueueTypeOK
  <2>2. CASE deliveries[d] # NoJob
    BY <1>2, <1>3, <1>4, <2>2 DEF Answer, Begin, Call, At, Typed, TypeOK, QueueTypeOK
  <2>3. QED
    BY <2>1, <2>2
<1>7. /\ At(g, "send")' <=> At(g, "send")
      /\ held'[g] = held[g]
      /\ \A s \in TasksOf(g) : s \in Tasks /\ s \in Callers
  BY <1>4, <1>5, Apart DEF At
<1>8. /\ ~ InSeq(d, chan[g]) /\ held[g] # d /\ hand[g] # d
      /\ \A s \in TasksOf(g) \ {t} : held[s] # d
  BY <1>1, <1>2, <1>4 DEF GenFlow, Single
<1>9. \A e \in Deliveries : Serves(g, e)' <=> Serves(g, e) /\ e # d
  BY <1>1, <1>2, <1>5, <1>7, <1>8, NoDeliveryAssumption DEF Serves
<1>10. Windowed(g)'
  BY <1>4, <1>5, <1>7 DEF GenFlow, Windowed, Sent
<1>11. Single(g)'
  BY <1>4, <1>5, <1>7, <1>9, NoDeliveryAssumption DEF GenFlow, Single
<1>12. \A e \in Deliveries : InFlight(g, e)' <=> InFlight(g, e) /\ e # d
  BY <1>5, <1>7, <1>8, <1>9 DEF InFlight
<1>13. Real(g)'
  <2>1. \A s \in TasksOf(g) : held'[s] # NoDelivery <=> At(s, "serving")'
    BY <1>4, <1>5, <1>6, <1>7 DEF GenFlow, Real, At
  <2>2. subs[g] # "new"
    BY <1>1, <1>2, <1>4 DEF GenFlow, Real
  <2>3. subs[g] = "on" => \A e \in Deliveries : InFlight(g, e)' => deliveries'[e] # NoJob
    BY <1>4, <1>5, <1>12 DEF GenFlow, Real
  <2>4. ASSUME subs[g] = "on", NEW s \in TasksOf(g), held'[s] # NoDelivery
        PROVE  call'[s].job = deliveries'[held'[s]]
    <3>1. s # t /\ held'[s] = held[s] /\ held[s] # d /\ call'[s] = call[s] /\ held[s] \in Deliveries
      BY <1>5, <1>7, <1>8, <2>4 DEF Typed, TypeOK
    <3>2. QED
      BY <1>4, <1>5, <2>4, <3>1 DEF GenFlow, Real
  <2>5. QED
    BY <1>5, <2>1, <2>2, <2>3, <2>4 DEF Real
<1>14. \A h \in Pollers \ {g} : GenKept(h)
  BY <1>1, <1>5, OthersKept
<1>15. \A e \in Deliveries : Refers(g, e)' => Refers(g, e)
  BY <1>5, <1>12 DEF Refers
<1>16. Answered(g, d)
  BY <1>4, <1>5 DEF Answered, Refers, InFlight
<1>17. ASSUME NEW e \in Deliveries \ {d}
       PROVE  Answered(g, e)
  <2>1. deliveries'[e] = deliveries[e] /\ (Answers(g, e) => Answers(g, e)')
    BY <1>5, <1>7, <1>9 DEF Answers
  <2>2. ASSUME deliveries[e] # NoJob
        PROVE  fate'[deliveries[e]] = fate[deliveries[e]]
    <3>1. PICK j \in Jobs : j = deliveries[e]
      BY <2>2 DEF Typed, TypeOK
    <3>2. deliveries[d] # j
      BY <3>1 DEF AllOwned, Owned
    <3>3. fate'[j] = fate[j]
      BY <1>2, <3>2 DEF CallOk, CallErr, Settle, Typed, TypeOK, QueueTypeOK
    <3>4. QED
      BY <3>1, <3>3
  <2>3. QED
    BY <2>1, <2>2 DEF Answered, Stranded
<1>18. QED
  BY <1>10, <1>11, <1>13, <1>14, <1>15, <1>16, <1>17, FlowOf DEF GenFlow

LEMMA AbortFlow ==
  ASSUME Typed, Flow, NEW g \in Pollers, Abort(g)
  PROVE  Flow'
<1>1. /\ g \in Callers /\ GenFlow(g) /\ subs[g] = "on"
      /\ chan[g] \in Seq(Deliveries) /\ Len(outstanding[g]) \in Nat
      /\ DOMAIN outstanding[g] = 1..Len(outstanding[g])
  BY Apart DEF Abort, Flow, Typed, TypeOK
<1>2. /\ subs'[g] = "off" /\ chan'[g] = << >> /\ hand'[g] = NoDelivery
      /\ \A h \in Pollers \ {g} : UNCHANGED <<subs[h], chan[h], hand[h]>>
      /\ UNCHANGED <<call, deliveries, outstanding, held>>
  BY DEF Abort, Typed, TypeOK
<1>3. Sent(g) \in 0..Len(outstanding[g]) /\ Sent(g)' = Sent(g)
  <2>1. At(g, "send") => Len(outstanding[g]) > 0
    BY <1>1 DEF GenFlow, Windowed
  <2>2. Sent(g)' = Sent(g)
    BY <1>2 DEF Sent, At
  <2>3. Sent(g) = IF At(g, "send") THEN Len(outstanding[g]) - 1 ELSE Len(outstanding[g])
    BY <1>1 DEF Sent
  <2>4. QED
    BY <1>1, <2>1, <2>2, <2>3
<1>4. Windowed(g)'
  <2>1. Ends(<< >>, outstanding[g], Sent(g))
    BY <1>3 DEF Ends
  <2>2. QED
    BY <1>1, <1>2, <1>3, <2>1 DEF GenFlow, Windowed, At
<1>5. \A e \in Deliveries : (Serves(g, e)' <=> Serves(g, e)) /\ ~ InSeq(e, chan'[g])
  BY <1>2 DEF Serves, InSeq
<1>6. Single(g)' /\ Real(g)'
  BY <1>1, <1>2, <1>5, NoDeliveryAssumption DEF GenFlow, Single, Distinct, Real, At
<1>7. \A h \in Pollers \ {g} : GenKept(h)
  BY <1>2 DEF GenKept, At
<1>8. \A e \in Deliveries : Refers(g, e)' => Refers(g, e)
  BY <1>2, <1>5, NoDeliveryAssumption DEF Refers, InFlight
\* What the channel held is in the window, which the poll loop will drain.
<1>9. ASSUME NEW e \in Deliveries, InSeq(e, chan[g])
      PROVE  InSeq(e, outstanding[g])
  <2>1. PICK i \in 1..Len(chan[g]) : chan[g][i] = e
    BY <1>1, <1>9 DEF InSeq
  <2>2. Ends(chan[g], outstanding[g], Sent(g)) /\ Sent(g) \in Nat
    BY <1>1, <1>3 DEF GenFlow, Windowed
  <2>3. PICK k \in 1..Sent(g) : outstanding[g][k] = e
    BY <1>1, <2>1, <2>2, EndsAt
  <2>4. QED
    BY <1>1, <1>3, <2>3 DEF InSeq
<1>10. ASSUME NEW e \in Deliveries, deliveries[e] # NoJob
       PROVE  /\ Answers(g, e) => Answers(g, e)' \/ Stranded(e)'
              /\ Stranded(e) => Stranded(e)'
  <2>1. PICK j \in Jobs : j = deliveries[e] /\ j = deliveries'[e]
    BY <1>2, <1>10 DEF Typed, TypeOK
  <2>2. fate'[j] = fate[j] \/ fate'[j] = "stranded"
    BY DEF Abort
  <2>3. ASSUME hand[g] = e, ~ InSeq(e, outstanding[g])
        PROVE  fate'[j] = "stranded"
    BY <2>1, <2>3, NoDeliveryAssumption DEF Abort
  <2>4. QED
    BY <1>1, <1>2, <1>5, <1>9, <2>1, <2>2, <2>3 DEF Answers, Stranded
<1>11. \A e \in Deliveries : Answered(g, e)
  BY <1>2, <1>10 DEF Answered
<1>12. QED
  BY <1>4, <1>6, <1>7, <1>8, <1>11, FlowOf DEF GenFlow

LEMMA StartFlow ==
  ASSUME Typed, Flow, NEW g \in Pollers, Start(g)
  PROVE  Flow'
<1>1. GenFlow(g) /\ subs[g] = "new"
  BY DEF Start, Flow
<1>2. /\ subs'[g] = "on" /\ \A h \in Pollers \ {g} : UNCHANGED subs[h]
      /\ UNCHANGED <<call, fate, deliveries, chan, outstanding, hand, held>>
  BY DEF Start, Typed, TypeOK, local, queueVars, history
<1>3. /\ chan[g] = << >> /\ hand[g] = NoDelivery /\ held[g] = NoDelivery
      /\ \A t \in TasksOf(g) : held[t] = NoDelivery
  BY <1>1 DEF GenFlow, Windowed, Real
<1>4. \A e \in Deliveries : ~ InFlight(g, e) /\ ~ InFlight(g, e)'
  BY <1>2, <1>3, NoDeliveryAssumption DEF InFlight, InSeq, Serves
<1>5. Windowed(g)' /\ Single(g)'
  BY <1>1, <1>2, <1>3 DEF GenFlow, Windowed, Single, Sent, At, Ends, Serves
<1>6. Real(g)'
  BY <1>1, <1>2, <1>3, <1>4 DEF GenFlow, Real, At
<1>7. \A h \in Pollers \ {g} : GenKept(h)
  BY <1>2 DEF GenKept, At
<1>8. \A e \in Deliveries : Refers(g, e)' => Refers(g, e)
  BY <1>2, <1>4 DEF Refers
<1>9. \A e \in Deliveries : Answered(g, e)
  BY <1>1, <1>2, <1>4 DEF Answered, Answers, InFlight, Stranded
<1>10. QED
  BY <1>5, <1>6, <1>7, <1>8, <1>9, FlowOf DEF GenFlow

\* A step of a method, or of the clock, is a step of no generation.
LEMMA MethodFlow ==
  ASSUME Typed, AllOwned, Flow, UNCHANGED <<subs, local>>, \A j \in Jobs : Moves(j, InSystem),
         \A g \in Pollers : At(g, "send")' <=> At(g, "send"),
         \A t \in Tasks : UNCHANGED call[t] \/ ~ (At(t, "serving") \/ At(t, "serving")')
  PROVE  Flow'
<1>1. \A g \in Pollers : GenKept(g)
  <2> SUFFICES ASSUME NEW g \in Pollers
               PROVE  GenKept(g)
    OBVIOUS
  <2>1. \A t \in TasksOf(g) : UNCHANGED call[t] \/ ~ (At(t, "serving") \/ At(t, "serving")')
    BY Apart
  <2>2. QED
    BY <2>1 DEF GenKept, local
<1>2. ASSUME NEW d \in Deliveries, deliveries[d] # NoJob
      PROVE  UNCHANGED fate[deliveries[d]]
  <2>1. PICK j \in Jobs : j = deliveries[d] /\ j = deliveries'[d]
    BY <1>2 DEF Typed, TypeOK, local
  <2>2. Delivered(j) /\ Owned(j)
    BY <2>1 DEF Delivered, AllOwned
  <2>3. ~ Located(j) /\ fate[j] \in {"live", "stranded"}
    BY <2>2 DEF Owned, InSystem
  <2>4. fate'[j] = fate[j]
    BY <2>3 DEF Moves
  <2>5. QED
    BY <2>1, <2>4
<1>3. QED
  BY <1>1, <1>2, AllKeptFlow DEF local, Stranded

LEMMA InitFlow == ASSUME Init PROVE Flow
<1>1. \A c \in Callers : ~ At(c, "send") /\ ~ At(c, "serving")
  BY DEF Init, QueueInit, At, Idle, Call
<1>2. ASSUME NEW g \in Pollers
      PROVE  /\ chan[g] = << >> /\ outstanding[g] = << >> /\ hand[g] = NoDelivery
             /\ held[g] = NoDelivery /\ subs[g] = "new" /\ ~ At(g, "send")
             /\ \A t \in TasksOf(g) : held[t] = NoDelivery /\ ~ At(t, "serving")
  BY <1>1, Apart DEF Init
<1>3. \A g \in Pollers, d \in Deliveries : ~ Refers(g, d)
  <2>1. \A d : ~ InSeq(d, << >>)
    BY DEF InSeq
  <2>2. \A g \in Pollers, d \in Deliveries : ~ Serves(g, d)
    BY <1>2, NoDeliveryAssumption DEF Serves
  <2>3. QED
    BY <1>2, <2>1, <2>2, NoDeliveryAssumption DEF Refers, InFlight
<1>4. ASSUME NEW g \in Pollers
      PROVE  GenFlow(g)
  <2>1. Windowed(g)
    <3>1. Sent(g) = 0
      BY <1>2 DEF Sent
    <3>2. Ends(<< >>, outstanding[g], Sent(g))
      BY <3>1 DEF Ends
    <3>3. QED
      BY <1>2, <3>2 DEF Windowed
  <2>2. Single(g)
    BY <1>2, NoDeliveryAssumption DEF Single, Distinct, InSeq, Serves
  <2>3. Real(g)
    BY <1>2 DEF Real
  <2>4. QED
    BY <2>1, <2>2, <2>3 DEF GenFlow
<1>5. \A d \in Deliveries : Reached(d)
  BY DEF Init, Reached
<1>6. QED
  BY <1>3, <1>4, <1>5 DEF Flow, OwnIds

LEMMA NextFlow ==
  ASSUME Prefetch \in Nat, Typed, AllOwned, Flow, [Next]_vars
  PROVE  Flow'
<1>0. /\ QueueTypeOK /\ InSystem \in Fates
      /\ \A j \in Jobs : Sound(j, InSystem)
  BY DEF Typed, TypeOK, InSystem, Fates, AllOwned, Owned
<1>1. ASSUME NEW c \in Clients, Client(c)
      PROVE  Flow'
  <2>1. \A j \in Jobs : Moves(j, InSystem)
    BY <1>0, <1>1, ClientSound DEF Client
  <2>2. \A d \in Callers \ {c} : call'[d] = call[d]
    BY <1>0, <1>1, ClientCall DEF Client
  <2>3. QED
    BY <1>1, <2>1, <2>2, Apart, MethodFlow DEF Client, At
<1>2. ASSUME NEW i \in Jobs, BecomeDue(i), UNCHANGED <<subs, local>>
      PROVE  Flow'
  <2>1. \A j \in Jobs : Moves(j, InSystem)
    BY <1>0, <1>2, BecomeDueSound
  <2>2. UNCHANGED call
    BY <1>2 DEF BecomeDue
  <2>3. QED
    BY <1>2, <2>1, <2>2, MethodFlow DEF At
<1>3. ASSUME NEW g \in Pollers, PollStep(g)
      PROVE  Flow'
  <2>1. g \in Callers
    BY Apart
  <2>2. CASE (Move(g) \/ Pop(g) \/ Nack(g)) /\ UNCHANGED local
    <3>1. \A j \in Jobs : Moves(j, InSystem)
      <4>1. CASE Move(g)
        BY <1>0, <4>1, MoveSound
      <4>2. CASE Pop(g)
        BY <1>0, <4>2, PopSound DEF Pop
      <4>3. CASE Nack(g)
        BY <1>0, <2>1, <4>3, AckNackSound
      <4>4. QED
        BY <2>2, <4>1, <4>2, <4>3
    <3>2. /\ \A d \in Callers \ {g} : call'[d] = call[d]
          /\ ~ At(g, "send") /\ ~ At(g, "send")'
      BY <1>0, <2>1, <2>2, MoveCall, PopCall, AckNackCall DEF At
    <3>3. QED
      BY <1>3, <2>2, <3>1, <3>2, Apart, MethodFlow DEF PollStep, At
  <2>3. CASE Deliver(g) \/ Send(g) \/ SendFails(g) \/ Drain(g)
    BY <1>3, <2>3, DeliverFlow, SendFlow, SendFailsFlow, DrainFlow DEF PollStep
  <2>4. QED
    BY <1>3, <2>2, <2>3 DEF PollStep
<1>4. ASSUME NEW g \in Pollers, ConsumerStep(g)
      PROVE  Flow'
  BY <1>4, ReceiveFlow, SpawnFlow DEF ConsumerStep
<1>5. ASSUME NEW t \in Tasks, TaskStep(t)
      PROVE  Flow'
  <2>1. t \in Callers
    BY Apart
  <2>2. CASE CallOk(t) \/ CallErr(t)
    BY <1>5, <2>2, AnswerFlow DEF TaskStep
  <2>3. CASE (Ack(t) \/ Nack(t)) /\ UNCHANGED local
    <3>1. \A j \in Jobs : Moves(j, InSystem)
      BY <1>0, <2>1, <2>3, AckNackSound
    <3>2. /\ \A d \in Callers \ {t} : call'[d] = call[d]
          /\ ~ At(t, "serving") /\ ~ At(t, "serving")'
      BY <1>0, <2>1, <2>3, AckNackCall DEF At
    <3>3. QED
      BY <1>5, <2>3, <3>1, <3>2, Apart, MethodFlow DEF TaskStep, At
  <2>4. QED
    BY <1>5, <2>2, <2>3 DEF TaskStep
<1>6. CASE UNCHANGED vars
  <2>1. \A j \in Jobs : Moves(j, InSystem)
    BY <1>0, <1>6, QueueKeptSound DEF vars
  <2>2. QED
    BY <1>6, <2>1, MethodFlow DEF vars, local, queueVars, At
<1>7. QED
  BY <1>1, <1>2, <1>3, <1>4, <1>5, <1>6, StartFlow, AbortFlow DEF Next

LEMMA FlowInvariance == ASSUME IsFiniteSet(Permits) PROVE Spec => [](Typed /\ AllOwned /\ Flow)
<1>1. Init => Flow
  BY InitFlow
<1>2. Typed /\ AllOwned /\ Flow /\ [Next]_vars => Flow'
  BY PrefetchType, NextFlow
<1>3. QED
  BY <1>1, <1>2, OwnedInvariance, PTL DEF Spec

(***************************************************************************)
(* No entry of the delivery map is forgotten: while it is there, a task    *)
(* that serves it, a live consumer that will, or a poll loop that will     *)
(* drain it still refers to it, whatever was aborted; only a consumer      *)
(* stopped with the message in its hand strands one.                       *)
(***************************************************************************)
THEOREM EntriesAnsweredHolds == ASSUME IsFiniteSet(Permits) PROVE Spec => []EntriesAnswered
<1>1. Flow => EntriesAnswered
  <2> SUFFICES ASSUME Flow, NEW d \in Deliveries, deliveries[d] # NoJob,
                      fate[deliveries[d]] # "stranded"
               PROVE  Answerable(d) \/ \E g \in Pollers : held[g] = d
    BY DEF EntriesAnswered
  <2>1. PICK g \in Pollers : Answers(g, d)
    BY DEF Flow, Reached
  <2>2. ASSUME Serves(g, d)
        PROVE  Answerable(d)
    <3>1. PICK t \in TasksOf(g) : held[t] = d
      BY <2>2 DEF Serves
    <3>2. t \in Tasks /\ At(t, "serving")
      BY <3>1, Apart, NoDeliveryAssumption DEF Flow, GenFlow, Real
    <3>3. QED
      BY <3>1, <3>2 DEF Answerable
  <2>3. QED
    BY <2>1, <2>2 DEF Answers, Answerable
<1>2. QED
  BY <1>1, FlowInvariance, PTL

(***************************************************************************)
(* At-least-once, and no more than restarts explain: two tasks serve one   *)
(* job at once only when the consumer of one of them was stopped.          *)
(***************************************************************************)
THEOREM DoubleRunNeedsRestartHolds ==
  ASSUME IsFiniteSet(Permits) PROVE Spec => []DoubleRunNeedsRestart
<1>1. Typed /\ AllOwned /\ Flow => DoubleRunNeedsRestart
  <2> SUFFICES ASSUME Typed, AllOwned, Flow, NEW s \in Tasks, NEW t \in Tasks,
                      At(s, "serving"), At(t, "serving"), call[s].job = call[t].job,
                      subs[s[1]] # "off", subs[t[1]] # "off"
               PROVE  s = t
    BY DEF DoubleRunNeedsRestart
  <2>1. ASSUME NEW r \in Tasks, At(r, "serving"), subs[r[1]] # "off"
        PROVE  /\ r[1] \in Pollers /\ r \in TasksOf(r[1])
               /\ held[r] \in Deliveries /\ held[r] # NoDelivery
               /\ Refers(r[1], held[r])
               /\ deliveries[held[r]] \in Jobs /\ call[r].job = deliveries[held[r]]
    <3>1. r[1] \in Pollers /\ r \in TasksOf(r[1])
      BY DEF Tasks, TasksOf
    <3>2. held[r] \in Deliveries /\ held[r] # NoDelivery
      BY <2>1, NoDeliveryAssumption DEF Typed, Hands
    <3>3. GenFlow(r[1]) /\ subs[r[1]] = "on"
      <4>1. subs[r[1]] \in {"new", "on", "off"}
        BY <3>1 DEF Typed, TypeOK
      <4>2. QED
        BY <2>1, <3>1, <3>2, <4>1 DEF Flow, GenFlow, Real
    <3>4. InFlight(r[1], held[r])
      BY <3>1 DEF InFlight, Serves
    <3>5. deliveries[held[r]] # NoJob /\ call[r].job = deliveries[held[r]]
      BY <3>1, <3>2, <3>3, <3>4 DEF GenFlow, Real
    <3>6. QED
      BY <3>1, <3>2, <3>4, <3>5 DEF Refers, Typed, TypeOK
  <2>2. held[s] = held[t]
    BY <2>1 DEF AllOwned, Owned
  <2>3. s[1] = t[1]
    BY <2>1, <2>2 DEF Flow, OwnIds
  <2>4. QED
    BY <2>1, <2>2, <2>3 DEF Flow, GenFlow, Single
<1>2. QED
  BY <1>1, FlowInvariance, PTL

=============================================================================
