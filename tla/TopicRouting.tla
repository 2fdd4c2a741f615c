---------------------------- MODULE TopicRouting ----------------------------
(***************************************************************************)
(* Queue triggers: the trigger registry (trigger.rs) on top of the topic   *)
(* routing of BuiltinQueueAdapter (adapter.rs) and the subscriptions of    *)
(* BuiltinQueue.  A connection registers a trigger that binds a function   *)
(* to a topic: a poll loop starts, the function is added to the topic's    *)
(* functions, the trigger and the loop's handle are recorded, and last the *)
(* registry learns of the trigger.  Unregistering, or the cleanup of the   *)
(* connection, goes through the same maps in another order; each map has a *)
(* lock of its own, and connections run side by side.                      *)
(*                                                                         *)
(* A trigger id names one registration: the SDKs draw it at random and     *)
(* send it again, unchanged, on the next connection.                       *)
(***************************************************************************)
EXTENDS FiniteSets

CONSTANTS Workers,    \* connections
          Ids,        \* ids of triggers
          Routes,     \* internal queues "topic::function"
          RouteOf,    \* the route of a trigger
          Topics,
          TopicOf,    \* the topic of a route
          Handles,    \* handle ids of poll loops
          NoWorker, NoId, NoRoute, NoHandle

ASSUME RouteAssumption ==
  /\ RouteOf \in [Ids -> Routes]
  /\ TopicOf \in [Routes -> Topics]
  /\ NoWorker \notin Workers /\ NoId \notin Ids
  /\ NoRoute \notin Routes /\ NoHandle \notin Handles

VARIABLES
  triggers,          \* triggers[id]: the connection the registry says it is of
  topicFunctions,    \* the routes enqueue fans out to
  bound,             \* the triggers in trigger_function_map
  subscriptions,     \* subscriptions[id]: the handle kept for the trigger
  loops,             \* loops[h]: the route the poll loop of handle h serves
  task,              \* task[w]: the step connection w is at
  todo,              \* todo[w]: the triggers its cleanup has still to remove
  leaving,           \* the connections in or past their cleanup
  \* history, read only by properties
  overwritten,       \* handles replaced by a second registration of their id
  overlapped,        \* routes subscribed and unsubscribed at the same time
  raced,             \* triggers two connections were at work on at once
  missed             \* subscribed triggers whose function missed a message

maps == <<triggers, topicFunctions, bound, subscriptions, loops>>
vars == <<maps, task, todo, leaving, overwritten, overlapped, raced, missed>>

Subscribing == {"route", "bind"}
Unsubscribing == {"unbind", "stop", "stop.only", "look", "unroute"}
PCs == {"idle", "enter", "forget", "sweep", "gone"} \cup Subscribing \cup Unsubscribing

At(w, pc) == task[w].pc = pc
Task(pc, id, h) == [pc |-> pc, id |-> id, hand |-> h]
Goto(w, pc) == task' = [task EXCEPT ![w].pc = pc]
Done(w) == task' = [task EXCEPT ![w] = Task("idle", NoId, NoHandle)]

OnRoute(w, pcs, r) == task[w].pc \in pcs /\ RouteOf[task[w].id] = r

\* What the step leaves for the properties to see: who met whom.
NoteRaces ==
  /\ raced' = raced \cup {id \in Ids : \E v, w \in Workers :
                            v # w /\ task'[v].id = id /\ task'[w].id = id}
  /\ overlapped' = overlapped \cup {r \in Routes : \E v, w \in Workers :
                            OnRoute(v, Subscribing, r)' /\ OnRoute(w, Unsubscribing, r)'}

Init ==
  /\ triggers = [id \in Ids |-> NoWorker]
  /\ topicFunctions = {}
  /\ bound = {}
  /\ subscriptions = [id \in Ids |-> NoHandle]
  /\ loops = [h \in Handles |-> NoRoute]
  /\ task = [w \in Workers |-> Task("idle", NoId, NoHandle)]
  /\ todo = [w \in Workers |-> {}]
  /\ leaving = {}
  /\ overwritten = {} /\ overlapped = {} /\ raced = {} /\ missed = {}

-----------------------------------------------------------------------------
(* RegisterTrigger: subscribe of the queue, then of the adapter, then the  *)
(* registry.                                                               *)

\* Handle ids are UUIDs: one that nothing refers to.
Fresh(h) ==
  /\ loops[h] = NoRoute
  /\ h \notin overwritten
  /\ \A id \in Ids : subscriptions[id] # h
  /\ \A w \in Workers : task[w].hand # h

StartLoop(w, id, h) ==
  /\ At(w, "idle") /\ w \notin leaving
  /\ Fresh(h)
  /\ loops' = [loops EXCEPT ![h] = RouteOf[id]]
  /\ task' = [task EXCEPT ![w] = Task("route", id, h)]
  /\ UNCHANGED <<triggers, topicFunctions, bound, subscriptions, todo, leaving, overwritten>>

AddRoute(w) ==
  /\ At(w, "route")
  /\ topicFunctions' = topicFunctions \cup {RouteOf[task[w].id]}
  /\ Goto(w, "bind")
  /\ UNCHANGED <<triggers, bound, subscriptions, loops, todo, leaving, overwritten>>

\* Under both locks.  The handle of an earlier registration is dropped, and
\* dropping it does not stop its loop.
Bind(w) ==
  LET id == task[w].id
  IN /\ At(w, "bind")
     /\ bound' = bound \cup {id}
     /\ subscriptions' = [subscriptions EXCEPT ![id] = task[w].hand]
     /\ overwritten' = overwritten \cup ({subscriptions[id]} \ {NoHandle})
     /\ task' = [task EXCEPT ![w] = Task("enter", id, NoHandle)]
     /\ UNCHANGED <<triggers, topicFunctions, loops, todo, leaving>>

Enter(w) ==
  /\ At(w, "enter")
  /\ triggers' = [triggers EXCEPT ![task[w].id] = w]
  /\ Done(w)
  /\ UNCHANGED <<topicFunctions, bound, subscriptions, loops, todo, leaving, overwritten>>

-----------------------------------------------------------------------------
(* UnregisterTrigger, and the cleanup of a connection.                     *)

\* Any connection may name any trigger.
Unregister(w, id) ==
  /\ At(w, "idle") /\ w \notin leaving
  /\ triggers[id] # NoWorker
  /\ task' = [task EXCEPT ![w] = Task("unbind", id, NoHandle)]
  /\ UNCHANGED <<maps, todo, leaving, overwritten>>

Unbind(w) ==
  LET id == task[w].id
  IN /\ At(w, "unbind")
     /\ bound' = bound \ {id}
     /\ Goto(w, IF id \in bound THEN "stop" ELSE "stop.only")
     /\ UNCHANGED <<triggers, topicFunctions, subscriptions, loops, todo, leaving, overwritten>>

\* A bug: the handle is removed, its loop is not aborted.
Detached(h) == loops
\* BuiltinQueue::unsubscribe: the loop of the handle is aborted.
Aborted(h) == [loops EXCEPT ![h] = NoRoute]

\* The registry drops the trigger after it is unsubscribed; the cleanup of a
\* connection did so before, and goes on with the next.
AfterUnsubscribe(w) == IF w \in leaving THEN task' = [task EXCEPT ![w] = Task("sweep", NoId, NoHandle)]
                                        ELSE Goto(w, "forget")

StopLoop(w) ==
  LET id == task[w].id
  IN /\ task[w].pc \in {"stop", "stop.only"}
     /\ subscriptions' = [subscriptions EXCEPT ![id] = NoHandle]
     /\ loops' = IF subscriptions[id] = NoHandle THEN loops ELSE Aborted(subscriptions[id])
     /\ IF At(w, "stop") THEN Goto(w, "look") ELSE AfterUnsubscribe(w)
     /\ UNCHANGED <<triggers, topicFunctions, bound, todo, leaving, overwritten>>

\* A bug: the function goes from the topic although other triggers bind it.
NoneBound(r) == FALSE
\* still_has_triggers
StillBound(r) == \E id \in bound : RouteOf[id] = r

Look(w) ==
  /\ At(w, "look")
  /\ IF StillBound(RouteOf[task[w].id]) THEN AfterUnsubscribe(w) ELSE Goto(w, "unroute")
  /\ UNCHANGED <<maps, todo, leaving, overwritten>>

RemoveRoute(w) ==
  /\ At(w, "unroute")
  /\ topicFunctions' = topicFunctions \ {RouteOf[task[w].id]}
  /\ AfterUnsubscribe(w)
  /\ UNCHANGED <<triggers, bound, subscriptions, loops, todo, leaving, overwritten>>

\* A bug: the registry keeps the trigger.
KeptIn(id) == triggers
\* triggers.remove
Without(id) == [triggers EXCEPT ![id] = NoWorker]

Forget(w) ==
  /\ At(w, "forget")
  /\ triggers' = Without(task[w].id)
  /\ Done(w)
  /\ UNCHANGED <<topicFunctions, bound, subscriptions, loops, todo, leaving, overwritten>>

\* unregister_worker works on the triggers the connection has when it begins.
TriggersOf(w) == {id \in Ids : triggers[id] = w}

Disconnect(w) ==
  /\ At(w, "idle") /\ w \notin leaving
  /\ leaving' = leaving \cup {w}
  /\ todo' = [todo EXCEPT ![w] = TriggersOf(w)]
  /\ Goto(w, "sweep")
  /\ UNCHANGED <<maps, overwritten>>

\* The entry goes whoever it is of by now.
Sweep(w, id) ==
  /\ At(w, "sweep") /\ id \in todo[w]
  /\ todo' = [todo EXCEPT ![w] = @ \ {id}]
  /\ triggers' = Without(id)
  /\ task' = [task EXCEPT ![w] = Task("unbind", id, NoHandle)]
  /\ UNCHANGED <<topicFunctions, bound, subscriptions, loops, leaving, overwritten>>

Swept(w) ==
  /\ At(w, "sweep") /\ todo[w] = {}
  /\ Goto(w, "gone")
  /\ UNCHANGED <<maps, todo, leaving, overwritten>>

-----------------------------------------------------------------------------
(* enqueue holds the read lock of topic_functions while it pushes a copy   *)
(* to each route of the topic, or one to the topic's own queue, which no   *)
(* loop polls.  The queues themselves are JobQueue.                        *)

Idle(id) == \A w \in Workers : task[w].id # id
Subscribed(id) == triggers[id] # NoWorker /\ Idle(id)

Enqueue(t) ==
  /\ missed' = missed \cup {id \in Ids : /\ Subscribed(id) /\ TopicOf[RouteOf[id]] = t
                                         /\ RouteOf[id] \notin topicFunctions}
  /\ UNCHANGED <<maps, task, todo, leaving, overwritten, overlapped, raced>>

Step(w) ==
  /\ \/ \E id \in Ids, h \in Handles : StartLoop(w, id, h)
     \/ AddRoute(w) \/ Bind(w) \/ Enter(w)
     \/ \E id \in Ids : Unregister(w, id)
     \/ Unbind(w) \/ StopLoop(w) \/ Look(w) \/ RemoveRoute(w) \/ Forget(w)
     \/ Disconnect(w)
     \/ \E id \in Ids : Sweep(w, id)
     \/ Swept(w)
  /\ NoteRaces
  /\ UNCHANGED missed

Next ==
  \/ \E w \in Workers : Step(w)
  \/ \E t \in Topics : Enqueue(t)

Spec == Init /\ [][Next]_vars

-----------------------------------------------------------------------------
\* Every variable stays in its range, and a connection in the middle of a
\* method knows its trigger, and its loop until the handle is stored.
TypeOK ==
  /\ triggers \in [Ids -> Workers \cup {NoWorker}]
  /\ topicFunctions \subseteq Routes
  /\ bound \subseteq Ids
  /\ subscriptions \in [Ids -> Handles \cup {NoHandle}]
  /\ loops \in [Handles -> Routes \cup {NoRoute}]
  /\ task \in [Workers -> [pc : PCs, id : Ids \cup {NoId}, hand : Handles \cup {NoHandle}]]
  /\ \A w \in Workers :
       /\ task[w].id = NoId <=> task[w].pc \in {"idle", "sweep", "gone"}
       /\ task[w].pc \in Subscribing => task[w].hand \in Handles
  /\ todo \in [Workers -> SUBSET Ids]
  /\ leaving \subseteq Workers
  /\ overwritten \subseteq Handles
  /\ overlapped \subseteq Routes
  /\ raced \subseteq Ids /\ missed \subseteq Ids

\* A message published to a topic reaches the queue of every subscribed
\* function, unless a trigger of the same function was subscribed while another
\* was unsubscribed: then still_has_triggers may miss the new trigger and its
\* route is removed for good.
MissedNeedsOverlap == \A id \in missed : RouteOf[id] \in overlapped \/ id \in raced

\* A poll loop can be stopped: a trigger, or the subscribe that started it,
\* holds its handle; but for the loops whose trigger was registered again, the
\* handle of which insert drops.
LoopsHeld ==
  \A h \in Handles :
    loops[h] # NoRoute =>
      \/ \E id \in Ids : subscriptions[id] = h
      \/ \E w \in Workers : task[w].pc \in Subscribing /\ task[w].hand = h
      \/ h \in overwritten

\* The registry and the three maps of the adapter and the queue agree on a
\* trigger no one is at work on: it is registered, bound, and has a live loop
\* on its function's queue, or none of these, however many registrations,
\* unregistrations and cleanups came before; but for triggers two connections
\* were at work on at once, as after a reconnection faster than the cleanup.
SettledAgree ==
  \A id \in Ids \ raced :
    Idle(id) =>
      /\ triggers[id] # NoWorker <=> id \in bound
      /\ subscriptions[id] # NoHandle <=> id \in bound
      /\ subscriptions[id] # NoHandle => loops[subscriptions[id]] = RouteOf[id]
=============================================================================
