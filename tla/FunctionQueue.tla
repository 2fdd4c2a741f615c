---------------------------- MODULE FunctionQueue ----------------------------
(***************************************************************************)
(* A named function queue: consume_function_queue, ack_function_queue and  *)
(* nack_function_queue of the builtin adapter, and spawn_consumer of the   *)
(* queue worker.  A generation is one call of spawn_consumer.  Its poll    *)
(* loop moves due jobs and pops one at a time into a channel, and writes   *)
(* each job in the delivery map under a fresh delivery id.  Its consumer   *)
(* receives from the channel, waits for a permit and spawns a task, which  *)
(* calls the function and acks or nacks the job through the delivery map.  *)
(* A restart starts the next generation and aborts the consumer of the     *)
(* last one; the poll loop left behind finds its channel closed and nacks  *)
(* the deliveries it still has in its window.                              *)
(***************************************************************************)
EXTENDS JobQueue, FiniteSets

CONSTANTS
  Deliveries,   \* delivery ids; one that nothing refers to stands for a fresh one
  NoDelivery

ASSUME NoDeliveryAssumption == NoDelivery \notin Deliveries

VARIABLES
  subs,          \* subs[g]: the consumer of generation g is "new", "on" or "off"
  deliveries,    \* delivery_map: the job of each delivery id, or NoJob
  chan,          \* chan[g]: the mpsc channel, of capacity prefetch
  outstanding,   \* outstanding[g]: the window of ids the poll loop nacks at its end
  hand,          \* hand[g]: the delivery received by the consumer, or NoDelivery
  held           \* held[c]: the delivery poll loop or task c works on

local == <<deliveries, chan, outstanding, hand, held>>
vars == <<queueVars, subs, local>>

\* Prefetch is the capacity of the channel and the number of permits.
Prefetch == Cardinality(Permits)
TasksOf(g) == {<<g, k>> : k \in Permits}
FreePermit(g) == \E t \in TasksOf(g) : At(t, "idle")

InSeq(d, s) == \E i \in DOMAIN s : s[i] = d
InUse(d) ==
  \/ deliveries[d] # NoJob
  \/ \E g \in Pollers : InSeq(d, chan[g]) \/ InSeq(d, outstanding[g]) \/ hand[g] = d
  \/ \E c \in Pollers \cup Tasks : held[c] = d

\* delivery_map.remove; and tx.is_closed.
GetDelivery(d) == UNCHANGED deliveries
TakeDelivery(d) == deliveries' = [deliveries EXCEPT ![d] = NoJob]
Closed(g) == subs[g] = "off"

LoopPaused(g) == At(g, "idle")
LoopEnded(g) == At(g, "idle") /\ Closed(g)

\* The job of delivery d will be acked or nacked by someone.
Answerable(d) ==
  \/ \E g \in Pollers : InSeq(d, outstanding[g])
  \/ \E g \in Pollers : subs[g] = "on" /\ (InSeq(d, chan[g]) \/ hand[g] = d)
  \/ \E t \in Tasks : At(t, "serving") /\ held[t] = d

Init ==
  /\ QueueInit
  /\ subs = [g \in Pollers |-> "new"]
  /\ deliveries = [d \in Deliveries |-> NoJob]
  /\ chan = [g \in Pollers |-> << >>]
  /\ outstanding = [g \in Pollers |-> << >>]
  /\ hand = [g \in Pollers |-> NoDelivery]
  /\ held = [c \in Pollers \cup Tasks |-> NoDelivery]

\* spawn_consumer: the generation goes live before the last one is aborted.
Start(g) ==
  /\ subs[g] = "new"
  /\ subs' = [subs EXCEPT ![g] = "on"]
  /\ UNCHANGED <<queueVars, local>>

\* The consumer of a queue that was replaced or removed is aborted, at an await:
\* not between a message's receipt and its spawn when a permit is free.  The
\* receiver, and what the channel holds, goes with it; its tasks run on.
Abort(g) ==
  LET left == IF hand[g] # NoDelivery /\ ~ InSeq(hand[g], outstanding[g])
              THEN {deliveries[hand[g]]} ELSE {}
  IN /\ subs[g] = "on"
     /\ hand[g] # NoDelivery => ~ FreePermit(g)
     /\ subs' = [subs EXCEPT ![g] = "off"]
     /\ chan' = [chan EXCEPT ![g] = << >>]
     /\ hand' = [hand EXCEPT ![g] = NoDelivery]
     /\ fate' = [j \in Jobs |-> IF j \in left THEN "stranded" ELSE fate[j]]
     /\ UNCHANGED <<store, call, ready, failures, raced, deliveries, outstanding, held>>

-----------------------------------------------------------------------------
\* The poll loop.  At "idle" it is at the head of its loop, where it looks
\* whether the channel is closed; a ghost or an empty pop brings it back there.
Pop(g) ==
  PopEmpty(g, "idle") \/ PopTake(g) \/ PopActivate(g) \/ PopRead(g) \/ PopGhost(g, "idle")

Deliver(g) ==
  LET d == CHOOSE e \in Deliveries : ~ InUse(e)
  IN /\ At(g, "popped")
     /\ \E e \in Deliveries : ~ InUse(e)
     /\ deliveries' = [deliveries EXCEPT ![d] = call[g].job]
     /\ outstanding' = [outstanding EXCEPT ![g] = Append(@, d)]
     /\ held' = [held EXCEPT ![g] = d]
     /\ Begin(g, "send", NoJob)
     /\ UNCHANGED <<store, ready, history, chan, hand>>

\* A send waits for room, and the window is trimmed after it.
TrimEarly(s) == IF Len(s) >= Prefetch THEN Tail(s) ELSE s
Trim(s) == IF Len(s) > Prefetch THEN Tail(s) ELSE s

Send(g) ==
  /\ At(g, "send")
  /\ ~ Closed(g)
  /\ Len(chan[g]) < Prefetch
  /\ chan' = [chan EXCEPT ![g] = Append(@, held[g])]
  /\ outstanding' = [outstanding EXCEPT ![g] = Trim(@)]
  /\ held' = [held EXCEPT ![g] = NoDelivery]
  /\ Return(g)
  /\ UNCHANGED <<store, ready, history, deliveries, hand>>

SendFails(g) ==
  /\ At(g, "send")
  /\ Closed(g)
  /\ held' = [held EXCEPT ![g] = NoDelivery]
  /\ Return(g)
  /\ UNCHANGED <<store, ready, history, deliveries, chan, outstanding, hand>>

\* The loop has ended: nack the deliveries of the window that are still in the map.
NoDrain(g) == FALSE

Drain(g) ==
  LET d == Head(outstanding[g])
      j == deliveries[d]
  IN /\ LoopEnded(g)
     /\ outstanding[g] # << >>
     /\ outstanding' = [outstanding EXCEPT ![g] = Tail(@)]
     /\ TakeDelivery(d)
     /\ IF j = NoJob
        THEN UNCHANGED <<call, failures>>
        ELSE /\ Begin(g, "nack.get", j)
             /\ failures' = [failures EXCEPT ![j] = @ + 1]
     /\ UNCHANGED <<store, ready, fate, raced, chan, hand, held>>

PollStep(g) ==
  /\ subs[g] # "new"
  /\ \/ (At(g, "idle") => ~ Closed(g)) /\ Move(g) /\ UNCHANGED local
     \/ Pop(g) /\ UNCHANGED local
     \/ Deliver(g) \/ Send(g) \/ SendFails(g)
     \/ Drain(g)
     \/ Nack(g) /\ UNCHANGED local
  /\ UNCHANGED subs

-----------------------------------------------------------------------------
\* The consumer: receive, then wait for a permit and spawn.
Receive(g) ==
  /\ subs[g] = "on"
  /\ hand[g] = NoDelivery
  /\ chan[g] # << >>
  /\ hand' = [hand EXCEPT ![g] = Head(chan[g])]
  /\ chan' = [chan EXCEPT ![g] = Tail(@)]
  /\ UNCHANGED <<queueVars, deliveries, outstanding, held>>

Spawn(g, t) ==
  /\ subs[g] = "on"
  /\ hand[g] # NoDelivery
  /\ At(t, "idle")
  /\ Begin(t, "serving", deliveries[hand[g]])
  /\ held' = [held EXCEPT ![t] = hand[g]]
  /\ hand' = [hand EXCEPT ![g] = NoDelivery]
  /\ UNCHANGED <<store, ready, history, deliveries, chan, outstanding>>

ConsumerStep(g) ==
  /\ Receive(g) \/ \E t \in TasksOf(g) : Spawn(g, t)
  /\ UNCHANGED subs

\* The call returns and the task takes its delivery from the map; when it is
\* no longer there the poll loop has nacked the job, and the result is dropped.
Answer(t, pc) ==
  LET d == held[t]
      j == deliveries[d]
  IN /\ At(t, "serving")
     /\ TakeDelivery(d)
     /\ held' = [held EXCEPT ![t] = NoDelivery]
     /\ IF j = NoJob THEN Return(t) ELSE Begin(t, pc, j)
     /\ UNCHANGED <<store, ready, raced, chan, outstanding, hand>>

CallOk(t) ==
  /\ Answer(t, "ack.lrem")
  /\ IF deliveries[held[t]] = NoJob THEN UNCHANGED fate
                                    ELSE Settle(deliveries[held[t]], "acked")
  /\ UNCHANGED failures

CallErr(t) ==
  /\ Answer(t, "nack.get")
  /\ IF deliveries[held[t]] = NoJob
     THEN UNCHANGED failures
     ELSE failures' = [failures EXCEPT ![deliveries[held[t]]] = @ + 1]
  /\ UNCHANGED fate

TaskStep(t) ==
  /\ CallOk(t) \/ CallErr(t) \/ ((Ack(t) \/ Nack(t)) /\ UNCHANGED local)
  /\ UNCHANGED subs

\* publish_to_function_queue calls push_job: no job is pushed with a delay.
Client(c) ==
  /\ ClientStep(c)
  /\ call'[c].pc # "push.delay"
  /\ UNCHANGED <<subs, local>>

Next ==
  \/ \E c \in Clients : Client(c)
  \/ \E j \in Jobs : BecomeDue(j) /\ UNCHANGED <<subs, local>>
  \/ \E g \in Pollers : Start(g) \/ Abort(g) \/ PollStep(g) \/ ConsumerStep(g)
  \/ \E t \in Tasks : TaskStep(t)

Spec == Init /\ [][Next]_vars

\* Poll loops, consumers and tasks keep running, calls return, time passes.
Fairness ==
  /\ \A g \in Pollers : WF_vars(Start(g)) /\ WF_vars(PollStep(g)) /\ WF_vars(ConsumerStep(g))
  /\ \A t \in Tasks : WF_vars(TaskStep(t))
  /\ \A j \in Jobs : WF_vars(BecomeDue(j) /\ UNCHANGED <<subs, local>>)
  /\ \A c \in Clients : WF_vars(Client(c) /\ ~ At(c, "idle"))

FairSpec == Spec /\ Fairness

-----------------------------------------------------------------------------
\* Every variable stays in its range; the channel and the window stay within
\* their capacities.
TypeOK ==
  /\ QueueTypeOK
  /\ subs \in [Pollers -> {"new", "on", "off"}]
  /\ deliveries \in [Deliveries -> Jobs \cup {NoJob}]
  /\ chan \in [Pollers -> Seq(Deliveries)]
  /\ outstanding \in [Pollers -> Seq(Deliveries)]
  /\ \A g \in Pollers :
       Len(chan[g]) <= Prefetch /\ Len(outstanding[g]) <= Prefetch + 1
  /\ hand \in [Pollers -> Deliveries \cup {NoDelivery}]
  /\ held \in [Pollers \cup Tasks -> Deliveries \cup {NoDelivery}]

\* A live job has one owner: a list, a caller in the middle of a method, or one
\* entry of the delivery map.  So a delivery is answered once, by its task or by
\* the drain of its poll loop, whichever takes the entry first, across restarts.
OneOwner ==
  /\ \A j \in Jobs :
       Cardinality(Places(j)) + Cardinality({d \in Deliveries : deliveries[d] = j})
         = IF fate[j] \in {"live", "stranded"} THEN 1 ELSE 0
  /\ \A i, k \in DOMAIN waiting : waiting[i] = waiting[k] => i = k
  /\ \A j \in Jobs : dlq[j] <= 1

\* Every entry of the delivery map is answered by someone, unless the consumer
\* was aborted with the message in its hand.
EntriesAnswered ==
  \A d \in Deliveries :
    deliveries[d] # NoJob =>
      \/ Answerable(d)
      \/ \E g \in Pollers : held[g] = d
      \/ fate[deliveries[d]] = "stranded"

\* Two tasks run one job only when the consumer of one of them was stopped
\* while it ran: at-least-once delivery, and no more than restarts explain.
DoubleRunNeedsRestart ==
  \A s, t \in Tasks :
    At(s, "serving") /\ At(t, "serving") /\ call[s].job = call[t].job /\ s # t =>
      subs[s[1]] = "off" \/ subs[t[1]] = "off"

\* The attempts of a waiting or delayed job are the deliveries nacked since it
\* was pushed or redriven, each counted once; a dead one used them all.
AttemptsExact ==
  \A j \in Jobs \ raced :
    /\ InWaiting(j) \/ delayed[j] # "none" => record[j] = failures[j]
    /\ dlq[j] > 0 => failures[j] = MaxAttempts

\* Once redrives stop, a job of the queue is settled or dead while a consumer
\* lives, whatever restarts: the drain gives back what a stopped consumer had.
JobsSettle ==
  <>[](\A c \in Clients : ~ At(c, "redrive.set")) =>
    \A j \in Jobs :
      fate[j] = "live" ~> \/ fate[j] # "live" \/ dlq[j] > 0
                          \/ \A g \in Pollers : subs[g] = "off"
=============================================================================
