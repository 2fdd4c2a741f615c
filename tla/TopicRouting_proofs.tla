------------------------ MODULE TopicRouting_proofs -------------------------
(***************************************************************************)
(* Proofs about TopicRouting for every set of connections, triggers,       *)
(* routes and topics: poll loops are held by a handle, the maps agree on a *)
(* trigger at rest, and a message misses a subscribed function only where  *)
(* a subscription overlapped an unsubscription.                            *)
(***************************************************************************)
EXTENDS TopicRouting, TLAPS

\* A stored handle is of one trigger and its loop serves the trigger's route;
\* the handle in a connection's hand is stored nowhere, and no one else's.
Stored ==
  /\ \A id \in Ids : subscriptions[id] # NoHandle => loops[subscriptions[id]] = RouteOf[id]
  /\ \A i, k \in Ids : subscriptions[i] # NoHandle /\ subscriptions[i] = subscriptions[k] => i = k
InHand ==
  \A w \in Workers :
    task[w].pc \in Subscribing =>
      /\ loops[task[w].hand] = RouteOf[task[w].id]
      /\ \A id \in Ids : subscriptions[id] # task[w].hand
      /\ \A v \in Workers : v # w /\ task[v].pc \in Subscribing => task[v].hand # task[w].hand

\* What the history variables record.
Meetings ==
  /\ \A v, w \in Workers, id \in Ids :
       v # w /\ task[v].id = id /\ task[w].id = id => id \in raced
  /\ \A v, w \in Workers, r \in Routes :
       OnRoute(v, Subscribing, r) /\ OnRoute(w, Unsubscribing, r) => r \in overlapped

\* A trigger at rest is in all the maps or in none; one that a single
\* connection is at work on is as far as that connection has come.
Steady(id) ==
  /\ triggers[id] # NoWorker <=> id \in bound
  /\ subscriptions[id] # NoHandle <=> id \in bound
Left(w, id) == w \in leaving => triggers[id] = NoWorker
AsFarAs(w, id) ==
  /\ task[w].pc \in Subscribing => Steady(id)
  /\ At(w, "enter") => id \in bound /\ subscriptions[id] # NoHandle
  /\ At(w, "unbind") => Left(w, id) /\ (subscriptions[id] # NoHandle <=> id \in bound)
  /\ task[w].pc \in {"stop", "stop.only"} => Left(w, id) /\ id \notin bound
  /\ task[w].pc \in {"look", "unroute", "forget"} =>
       Left(w, id) /\ id \notin bound /\ subscriptions[id] = NoHandle
InPhase(id) ==
  /\ Idle(id) => Steady(id)
  /\ \A w \in Workers : task[w].id = id => AsFarAs(w, id)
Phases == \A id \in Ids \ raced : InPhase(id)

\* A route with a bound trigger, or one about to be bound, is a topic's, and
\* the connection that is about to remove it saw that no trigger is bound to it.
RouteKept(r) ==
  /\ StillBound(r) => r \in topicFunctions
  /\ \A w \in Workers : OnRoute(w, {"bind"}, r) => r \in topicFunctions
  /\ \A w \in Workers : OnRoute(w, {"unroute"}, r) => ~ StillBound(r)
RoutesKept == \A r \in Routes \ overlapped : RouteKept(r)

IInv ==
  /\ TypeOK
  /\ Stored /\ InHand
  /\ LoopsHeld
  /\ Meetings
  /\ Phases
  /\ RoutesKept
  /\ MissedNeedsOverlap

-----------------------------------------------------------------------------
(***************************************************************************)
(* Type correctness.                                                       *)
(***************************************************************************)
LEMMA InitInv == Init => IInv
  BY RouteAssumption
  DEF Init, IInv, TypeOK, Stored, InHand, LoopsHeld, Meetings, Phases, InPhase, Steady, AsFarAs,
      RoutesKept, RouteKept, StillBound, MissedNeedsOverlap, OnRoute, Task, PCs, Subscribing,
      Unsubscribing, At

\* A step of a connection moves no other connection.
LEMMA OthersStay ==
  ASSUME TypeOK, NEW w \in Workers, Step(w)
  PROVE  /\ \A v \in Workers : v # w => task'[v] = task[v]
         /\ missed' = missed
  BY DEF TypeOK, Step, StartLoop, AddRoute, Bind, Enter, Unregister, Unbind, StopLoop, Look, RemoveRoute,
         Forget, Disconnect, Sweep, Swept, Goto, Done, AfterUnsubscribe, Task

\* The connection at a trigger: which one its step leaves it at.
LEMMA TaskType ==
  ASSUME TypeOK, NEW w \in Workers, Step(w)
  PROVE  /\ task' \in [Workers -> [pc : PCs, id : Ids \cup {NoId}, hand : Handles \cup {NoHandle}]]
         /\ task'[w].id = NoId <=> task'[w].pc \in {"idle", "sweep", "gone"}
         /\ task'[w].pc \in Subscribing => task'[w].hand \in Handles
<1> USE RouteAssumption DEF TypeOK, At, PCs, Subscribing, Unsubscribing, Task, Goto, Done, AfterUnsubscribe
<1>1. CASE \E id \in Ids, h \in Handles : StartLoop(w, id, h)
  BY <1>1 DEF StartLoop
<1>2. CASE AddRoute(w)
  BY <1>2 DEF AddRoute
<1>3. CASE Bind(w)
  BY <1>3 DEF Bind
<1>4. CASE Enter(w)
  BY <1>4 DEF Enter
<1>5. CASE \E id \in Ids : Unregister(w, id)
  BY <1>5 DEF Unregister
<1>6. CASE Unbind(w)
  BY <1>6 DEF Unbind
<1>7. CASE StopLoop(w)
  BY <1>7 DEF StopLoop
<1>8. CASE Look(w)
  BY <1>8 DEF Look
<1>9. CASE RemoveRoute(w)
  BY <1>9 DEF RemoveRoute
<1>10. CASE Forget(w)
  BY <1>10 DEF Forget
<1>11. CASE Disconnect(w)
  BY <1>11 DEF Disconnect
<1>12. CASE \E id \in Ids : Sweep(w, id)
  BY <1>12 DEF Sweep
<1>13. CASE Swept(w)
  BY <1>13 DEF Swept
<1>14. QED
  BY <1>1, <1>2, <1>3, <1>4, <1>5, <1>6, <1>7, <1>8, <1>9, <1>10, <1>11, <1>12, <1>13 DEF Step

LEMMA StepType ==
  ASSUME TypeOK, NEW w \in Workers, Step(w)
  PROVE  TypeOK'
<1>1. /\ task' \in [Workers -> [pc : PCs, id : Ids \cup {NoId}, hand : Handles \cup {NoHandle}]]
      /\ \A v \in Workers :
           /\ task'[v].id = NoId <=> task'[v].pc \in {"idle", "sweep", "gone"}
           /\ task'[v].pc \in Subscribing => task'[v].hand \in Handles
  BY TaskType, OthersStay DEF TypeOK
<1>2. raced' \subseteq Ids /\ overlapped' \subseteq Routes /\ missed' \subseteq Ids
  BY DEF Step, NoteRaces, TypeOK
<1>3. /\ ~ (task[w].pc \in {"idle", "sweep", "gone"}) => task[w].id \in Ids /\ RouteOf[task[w].id] \in Routes
      /\ task[w].pc \in Subscribing => task[w].hand \in Handles
      /\ task[w].hand \in Handles \cup {NoHandle}
  BY RouteAssumption DEF TypeOK
<1>4. /\ triggers' \in [Ids -> Workers \cup {NoWorker}]
      /\ topicFunctions' \subseteq Routes
      /\ bound' \subseteq Ids
      /\ subscriptions' \in [Ids -> Handles \cup {NoHandle}]
  BY <1>3, RouteAssumption
  DEF TypeOK, maps, Step, StartLoop, AddRoute, Bind, Enter, Unregister, Unbind, StopLoop, Look, RemoveRoute,
      Forget, Disconnect, Sweep, Swept, At, Without, Subscribing
<1>5. /\ loops' \in [Handles -> Routes \cup {NoRoute}]
      /\ todo' \in [Workers -> SUBSET Ids]
      /\ leaving' \subseteq Workers
      /\ overwritten' \subseteq Handles
  BY <1>3, RouteAssumption
  DEF TypeOK, maps, Step, StartLoop, AddRoute, Bind, Enter, Unregister, Unbind, StopLoop, Look, RemoveRoute,
      Forget, Disconnect, Sweep, Swept, At, Aborted, TriggersOf, Subscribing
<1>6. QED
  BY <1>1, <1>2, <1>4, <1>5 DEF TypeOK

-----------------------------------------------------------------------------
(***************************************************************************)
(* Handles and poll loops.                                                 *)
(***************************************************************************)

\* What every step leaves of the queue's loops and handles alone, but for the
\* three that touch them.
LEMMA LoopsSame ==
  ASSUME NEW w \in Workers, Step(w)
  PROVE  \/ \E id \in Ids, h \in Handles : StartLoop(w, id, h)
         \/ Bind(w)
         \/ StopLoop(w)
         \/ UNCHANGED <<subscriptions, loops, overwritten>>
  BY DEF Step, AddRoute, Enter, Unregister, Unbind, Look, RemoveRoute, Forget, Disconnect, Sweep, Swept, maps

\* A connection begins to subscribe with StartLoop only, and stays with its
\* trigger and its loop until Bind.
LEMMA SubscribingFrom ==
  ASSUME TypeOK, NEW w \in Workers, Step(w), task'[w].pc \in Subscribing
  PROVE  \/ \E id \in Ids, h \in Handles : StartLoop(w, id, h)
         \/ /\ task[w].pc \in Subscribing
            /\ task'[w].id = task[w].id /\ task'[w].hand = task[w].hand
            /\ AddRoute(w)
<1> USE DEF TypeOK, Subscribing, At
<1>1. CASE AddRoute(w)
  BY <1>1 DEF AddRoute, Goto
<1>2. CASE Bind(w) \/ Enter(w) \/ Forget(w)
  BY <1>2 DEF Bind, Enter, Forget, Done, Task
<1>3. CASE \E id \in Ids : Unregister(w, id) \/ Sweep(w, id)
  BY <1>3 DEF Unregister, Sweep, Task
<1>4. CASE Unbind(w) \/ Disconnect(w) \/ Swept(w)
  BY <1>4 DEF Unbind, Disconnect, Swept, Goto
<1>5. CASE StopLoop(w)
  BY <1>5 DEF StopLoop, Goto, AfterUnsubscribe, Task
<1>6. CASE Look(w) \/ RemoveRoute(w)
  BY <1>6 DEF Look, RemoveRoute, Goto, AfterUnsubscribe, Task
<1>7. QED
  BY <1>1, <1>2, <1>3, <1>4, <1>5, <1>6 DEF Step

LEMMA StepStored ==
  ASSUME TypeOK, Stored, InHand, NEW w \in Workers, Step(w)
  PROVE  Stored'
<1> USE RouteAssumption DEF TypeOK, Stored, At, Subscribing
<1>1. ASSUME NEW id \in Ids, NEW h \in Handles, StartLoop(w, id, h)
      PROVE  Stored'
  BY <1>1 DEF StartLoop, Fresh
<1>2. CASE Bind(w)
  <2>1. task[w].id \in Ids /\ task[w].hand \in Handles /\ loops[task[w].hand] = RouteOf[task[w].id]
        /\ \A id \in Ids : subscriptions[id] # task[w].hand
    BY <1>2 DEF Bind, InHand
  <2>2. QED
    BY <1>2, <2>1 DEF Bind
<1>3. CASE StopLoop(w)
  <2>1. task[w].id \in Ids
    BY <1>3 DEF StopLoop
  <2>2. QED
    BY <1>3, <2>1 DEF StopLoop, Aborted
<1>4. CASE UNCHANGED <<subscriptions, loops, overwritten>>
  BY <1>4
<1>5. QED
  BY <1>1, <1>2, <1>3, <1>4, LoopsSame

LEMMA StepInHand ==
  ASSUME TypeOK, Stored, InHand, NEW w \in Workers, Step(w)
  PROVE  InHand'
<1>1. \A v \in Workers : v # w => task'[v] = task[v]
  BY OthersStay
<1>2. task'[w].pc \in Subscribing =>
        \/ \E id \in Ids, h \in Handles : StartLoop(w, id, h)
        \/ /\ task[w].pc \in Subscribing
           /\ task'[w].id = task[w].id /\ task'[w].hand = task[w].hand
  BY SubscribingFrom
<1>3. \A v \in Workers : task[v].pc \in Subscribing => task[v].id \in Ids /\ task[v].hand \in Handles
  BY DEF TypeOK, Subscribing
<1>4. ASSUME NEW id \in Ids, NEW h \in Handles, StartLoop(w, id, h)
      PROVE  InHand'
  <2>1. task'[w].id = id /\ task'[w].hand = h /\ loops'[h] = RouteOf[id] /\ subscriptions' = subscriptions
        /\ \A g \in Handles : g # h => loops'[g] = loops[g]
    BY <1>4 DEF StartLoop, Task, TypeOK
  <2>2. \A v \in Workers : task[v].hand # h
    BY <1>4 DEF StartLoop, Fresh
  <2>3. \A i \in Ids : subscriptions[i] # h
    BY <1>4 DEF StartLoop, Fresh
  <2>4. QED
    BY <1>1, <1>3, <2>1, <2>2, <2>3 DEF InHand
<1>5. CASE Bind(w)
  <2>1. task'[w].pc = "enter" /\ loops' = loops /\ task[w].pc \in Subscribing
    BY <1>5 DEF Bind, Task, TypeOK, At, Subscribing
  <2>2. \A i \in Ids : subscriptions'[i] = subscriptions[i] \/ subscriptions'[i] = task[w].hand
    BY <1>5 DEF Bind, TypeOK
  <2>3. task'[w].pc \notin Subscribing
    BY <2>1 DEF Subscribing
  <2>4. QED
    BY <1>1, <2>1, <2>2, <2>3 DEF InHand
<1>6. CASE StopLoop(w)
  <2>1. task'[w].pc \notin Subscribing
    BY <1>6 DEF StopLoop, Goto, AfterUnsubscribe, Task, TypeOK, At, Subscribing
  <2>2. task[w].id \in Ids /\ \A i \in Ids : subscriptions'[i] = subscriptions[i] \/ subscriptions'[i] = NoHandle
    BY <1>6 DEF StopLoop, TypeOK
  <2>3. \A g \in Handles : g # subscriptions[task[w].id] => loops'[g] = loops[g]
    BY <1>6 DEF StopLoop, Aborted, TypeOK
  <2>4. QED
    BY <1>1, <1>3, <2>1, <2>2, <2>3, RouteAssumption DEF InHand
<1>7. CASE UNCHANGED <<subscriptions, loops, overwritten>> /\ ~ \E id \in Ids, h \in Handles : StartLoop(w, id, h)
  BY <1>1, <1>2, <1>7 DEF InHand
<1>8. QED
  BY <1>4, <1>5, <1>6, <1>7, LoopsSame

LEMMA StepLoopsHeld ==
  ASSUME TypeOK, LoopsHeld, NEW w \in Workers, Step(w)
  PROVE  LoopsHeld'
<1>1. \A v \in Workers : v # w => task'[v] = task[v]
  BY OthersStay
<1>2. ASSUME NEW id \in Ids, NEW h \in Handles, StartLoop(w, id, h)
      PROVE  LoopsHeld'
  <2>1. task'[w].pc \in Subscribing /\ task'[w].hand = h /\ task[w].pc \notin Subscribing
    BY <1>2 DEF StartLoop, Task, TypeOK, At, Subscribing
  <2>2. UNCHANGED <<subscriptions, overwritten>> /\ \A g \in Handles : g # h => loops'[g] = loops[g]
    BY <1>2 DEF StartLoop, TypeOK
  <2>3. QED
    BY <1>1, <2>1, <2>2 DEF LoopsHeld
<1>3. CASE Bind(w)
  <2>1. task[w].id \in Ids /\ loops' = loops /\ subscriptions'[task[w].id] = task[w].hand
        /\ \A i \in Ids : i # task[w].id => subscriptions'[i] = subscriptions[i]
    BY <1>3 DEF Bind, TypeOK, At
  <2>2. overwritten \subseteq overwritten' /\ subscriptions[task[w].id] \in overwritten' \cup {NoHandle}
    BY <1>3 DEF Bind
  <2>3. NoHandle \notin Handles
    BY RouteAssumption
  <2>4. QED
    BY <1>1, <2>1, <2>2, <2>3 DEF LoopsHeld
<1>4. CASE StopLoop(w)
  <2>1. task[w].id \in Ids /\ task[w].pc \notin Subscribing /\ overwritten' = overwritten
        /\ \A i \in Ids : i # task[w].id => subscriptions'[i] = subscriptions[i]
    BY <1>4 DEF StopLoop, TypeOK, At, Subscribing
  <2>2. \A h \in Handles : loops'[h] = loops[h] \/ loops'[h] = NoRoute
    BY <1>4 DEF StopLoop, Aborted, TypeOK
  <2>3. subscriptions[task[w].id] \in Handles => loops'[subscriptions[task[w].id]] = NoRoute
    BY <1>4, RouteAssumption DEF StopLoop, Aborted, TypeOK
  <2>4. QED
    BY <1>1, <2>1, <2>2, <2>3 DEF LoopsHeld
<1>5. CASE UNCHANGED <<subscriptions, loops, overwritten>> /\ ~ Bind(w)
  <2>1. task[w].pc \in Subscribing => task'[w].pc \in Subscribing /\ task'[w].hand = task[w].hand
    BY <1>5 DEF Step, StartLoop, AddRoute, Enter, Unregister, Unbind, StopLoop, Look, RemoveRoute,
                Forget, Disconnect, Sweep, Swept, Goto, TypeOK, At, Subscribing
  <2>2. QED
    BY <1>1, <1>5, <2>1 DEF LoopsHeld
<1>6. QED
  BY <1>2, <1>3, <1>4, <1>5, LoopsSame
-----------------------------------------------------------------------------
(***************************************************************************)
(* The maps agree on a trigger one connection at a time is at work on.     *)
(***************************************************************************)

LEMMA StepMeetings ==
  ASSUME NEW w \in Workers, Step(w)
  PROVE  Meetings' /\ raced \subseteq raced' /\ overlapped \subseteq overlapped'
  BY DEF Meetings, Step, NoteRaces, OnRoute

\* A step leaves alone what the maps hold of a trigger its connection is not at.
LEMMA Untouched ==
  ASSUME TypeOK, NEW w \in Workers, Step(w), NEW id \in Ids, task[w].id # id, task'[w].id # id
  PROVE  /\ triggers'[id] = triggers[id]
         /\ id \in bound' <=> id \in bound
         /\ subscriptions'[id] = subscriptions[id]
<1> USE DEF TypeOK
<1>1. CASE \E i \in Ids : Sweep(w, i)
  BY <1>1 DEF Sweep, Task, Without
<1>2. CASE Bind(w) \/ Enter(w) \/ Forget(w)
  BY <1>2 DEF Bind, Enter, Forget, Without
<1>3. CASE Unbind(w) \/ StopLoop(w)
  BY <1>3 DEF Unbind, StopLoop
<1>4. CASE UNCHANGED <<triggers, bound, subscriptions>>
  BY <1>4
<1>5. QED
  BY <1>1, <1>2, <1>3, <1>4 DEF Step, StartLoop, AddRoute, Unregister, Look, RemoveRoute, Disconnect, Swept, maps

\* Nobody leaves but the connection whose step it is, between two tasks.
LEMMA LeavingSame ==
  ASSUME TypeOK, NEW w \in Workers, Step(w)
  PROVE  /\ \A v \in Workers : v # w => (v \in leaving' <=> v \in leaving)
         /\ task[w].id # NoId => leaving' = leaving
  BY DEF TypeOK, Step, StartLoop, AddRoute, Bind, Enter, Unregister, Unbind, StopLoop, Look, RemoveRoute,
         Forget, Disconnect, Sweep, Swept, At, maps

\* The step of a connection alone at a trigger.
LEMMA PhaseStep ==
  ASSUME TypeOK, NEW w \in Workers, Step(w), NEW id \in Ids, InPhase(id),
         \A v \in Workers : v # w => task[v].id # id,
         task[w].id = id \/ task'[w].id = id
  PROVE  InPhase(id)'
<1> USE RouteAssumption DEF TypeOK, At
<1>1. \A v \in Workers : v # w => task'[v].id # id
  BY OthersStay
<1>2. SUFFICES /\ task'[w].id # id => Steady(id)'
               /\ task'[w].id = id => AsFarAs(w, id)'
  BY <1>1 DEF InPhase, Idle
<1>3. task[w].id = id => AsFarAs(w, id)
  BY DEF InPhase
<1>4. task[w].id # id => Steady(id)
  BY DEF InPhase, Idle
<1>5. ASSUME NEW i \in Ids, NEW h \in Handles, StartLoop(w, i, h)
      PROVE  /\ task'[w].id # id => Steady(id)'
             /\ task'[w].id = id => AsFarAs(w, id)'
  <2>1. task[w].id # id /\ task'[w].pc = "route" /\ UNCHANGED <<triggers, bound, subscriptions>> /\ i = id
    BY <1>5 DEF StartLoop, Task
  <2>2. QED
    BY <2>1, <1>4, <1>5 DEF StartLoop, Task, Steady, AsFarAs, Subscribing
<1>6. CASE AddRoute(w)
  BY <1>6, <1>3 DEF AddRoute, Goto, Steady, AsFarAs, Subscribing
<1>7. CASE Bind(w)
  <2>1. task[w].id = id /\ task'[w] = [pc |-> "enter", id |-> id, hand |-> NoHandle]
    BY <1>7 DEF Bind, Task
  <2>2. id \in bound' /\ subscriptions'[id] = task[w].hand /\ task[w].hand \in Handles
    BY <1>7, <2>1 DEF Bind, Subscribing
  <2>3. QED
    BY <2>1, <2>2 DEF AsFarAs, Subscribing
<1>8. CASE Enter(w)
  <2>1. task[w].id = id /\ task'[w].id = NoId
    BY <1>8 DEF Enter, Done, Task
  <2>2. triggers'[id] = w /\ UNCHANGED <<bound, subscriptions>> /\ id \in bound /\ subscriptions[id] # NoHandle
    BY <1>8, <2>1, <1>3 DEF Enter, AsFarAs
  <2>3. QED
    BY <2>1, <2>2 DEF Steady
<1>9. ASSUME NEW i \in Ids, Unregister(w, i)
      PROVE  /\ task'[w].id # id => Steady(id)'
             /\ task'[w].id = id => AsFarAs(w, id)'
  <2>1. task[w].id # id /\ task'[w] = [pc |-> "unbind", id |-> id, hand |-> NoHandle] /\ i = id
    BY <1>9 DEF Unregister, Task
  <2>2. UNCHANGED <<triggers, bound, subscriptions>> /\ w \notin leaving'
    BY <1>9 DEF Unregister, maps
  <2>3. QED
    BY <2>1, <2>2, <1>4 DEF Steady, AsFarAs, Subscribing, Left
<1>10. CASE Unbind(w)
  <2>1. task[w].id = id /\ task'[w].id = id /\ task'[w].pc = IF id \in bound THEN "stop" ELSE "stop.only"
    BY <1>10 DEF Unbind, Goto
  <2>2. id \notin bound' /\ UNCHANGED <<triggers, subscriptions, leaving>>
    BY <1>10, <2>1 DEF Unbind
  <2>3. QED
    BY <2>1, <2>2, <1>3, <1>10 DEF Unbind, AsFarAs, Left, Subscribing
<1>11. CASE StopLoop(w)
  <2>1. task[w].id = id /\ UNCHANGED <<triggers, bound, leaving>> /\ subscriptions'[id] = NoHandle
    BY <1>11 DEF StopLoop, Goto, AfterUnsubscribe, Task
  <2>2. Left(w, id) /\ id \notin bound
    BY <1>11, <1>3, <2>1 DEF StopLoop, AsFarAs
  <2>3. \/ task'[w].id = id /\ task'[w].pc \in {"look", "forget"}
        \/ w \in leaving /\ task'[w].id = NoId
    BY <1>11, <2>1 DEF StopLoop, Goto, AfterUnsubscribe, Task
  <2>4. QED
    BY <2>1, <2>2, <2>3 DEF Steady, AsFarAs, Left, Subscribing
<1>12. CASE Look(w) \/ RemoveRoute(w)
  <2>1. task[w].id = id /\ UNCHANGED <<triggers, bound, subscriptions, leaving>>
    BY <1>12 DEF Look, RemoveRoute, Goto, AfterUnsubscribe, Task, maps
  <2>2. Left(w, id) /\ id \notin bound /\ subscriptions[id] = NoHandle
    BY <1>12, <1>3, <2>1 DEF Look, RemoveRoute, AsFarAs
  <2>3. \/ task'[w].id = id /\ task'[w].pc \in {"unroute", "forget"}
        \/ w \in leaving /\ task'[w].id = NoId
    BY <1>12, <2>1 DEF Look, RemoveRoute, Goto, AfterUnsubscribe, Task
  <2>4. QED
    BY <2>1, <2>2, <2>3 DEF Steady, AsFarAs, Left, Subscribing
<1>13. CASE Forget(w)
  <2>1. task[w].id = id /\ task'[w].id = NoId
    BY <1>13 DEF Forget, Done, Task
  <2>2. triggers'[id] = NoWorker /\ UNCHANGED <<bound, subscriptions>> /\ id \notin bound /\ subscriptions[id] = NoHandle
    BY <1>13, <2>1, <1>3 DEF Forget, Without, AsFarAs
  <2>3. QED
    BY <2>1, <2>2 DEF Steady
<1>14. CASE Disconnect(w) \/ Swept(w)
  BY <1>14 DEF Disconnect, Swept, Goto
<1>15. ASSUME NEW i \in Ids, Sweep(w, i)
       PROVE  /\ task'[w].id # id => Steady(id)'
              /\ task'[w].id = id => AsFarAs(w, id)'
  <2>1. task[w].id # id /\ task'[w] = [pc |-> "unbind", id |-> id, hand |-> NoHandle] /\ i = id
    BY <1>15 DEF Sweep, Task
  <2>2. UNCHANGED <<bound, subscriptions>> /\ triggers'[id] = NoWorker
    BY <1>15, <2>1 DEF Sweep, Without
  <2>3. QED
    BY <2>1, <2>2, <1>4 DEF Steady, AsFarAs, Subscribing, Left
<1>16. QED
  BY <1>5, <1>6, <1>7, <1>8, <1>9, <1>10, <1>11, <1>12, <1>13, <1>14, <1>15 DEF Step

LEMMA StepPhases ==
  ASSUME TypeOK, Meetings, Phases, NEW w \in Workers, Step(w)
  PROVE  Phases'
<1> SUFFICES ASSUME NEW id \in Ids, id \notin raced'
             PROVE  InPhase(id)'
  BY DEF Phases
<1>1. Meetings' /\ raced \subseteq raced'
  BY StepMeetings
<1>2. InPhase(id)
  BY <1>1 DEF Phases
<1>3. \A v \in Workers : v # w => task'[v] = task[v]
  BY OthersStay
<1>4. CASE task[w].id = id \/ task'[w].id = id
  <2>1. \A v \in Workers : v # w => task[v].id # id
    BY <1>1, <1>3, <1>4 DEF Meetings
  <2>2. QED
    BY <1>2, <1>4, <2>1, PhaseStep
<1>5. CASE task[w].id # id /\ task'[w].id # id
  <2>1. Steady(id) <=> Steady(id)'
    BY <1>5, Untouched DEF Steady
  <2>2. ASSUME NEW v \in Workers, task'[v].id = id
        PROVE  AsFarAs(v, id)'
    <3>1. v # w /\ task'[v] = task[v] /\ (v \in leaving' <=> v \in leaving)
      BY <1>3, <1>5, <2>2, LeavingSame
    <3>2. AsFarAs(v, id)
      BY <1>2, <2>2, <3>1 DEF InPhase
    <3>3. QED
      BY <3>1, <3>2, <2>1, <1>5, Untouched DEF AsFarAs, Left, At
  <2>3. Idle(id)' => Steady(id)'
    BY <1>2, <1>3, <1>5, <2>1 DEF InPhase, Idle
  <2>4. QED
    BY <2>2, <2>3 DEF InPhase
<1>6. QED
  BY <1>4, <1>5

-----------------------------------------------------------------------------
(***************************************************************************)
(* The functions of a topic.                                               *)
(***************************************************************************)

\* What a step does to the triggers bound to a route and to the topics'
\* functions, and who comes to bind or to remove a route.
LEMMA RouteStep ==
  ASSUME TypeOK, NEW w \in Workers, Step(w)
  PROVE  \/ AddRoute(w)
         \/ Bind(w)
         \/ RemoveRoute(w)
         \/ /\ topicFunctions' = topicFunctions /\ bound' \subseteq bound
            /\ task'[w].pc # "bind"
            /\ task'[w].pc = "unroute" => Look(w)
<1> USE DEF TypeOK, At
<1>1. CASE Enter(w) \/ Forget(w)
  BY <1>1 DEF Enter, Forget, Done, Task
<1>2. CASE \E id \in Ids : Unregister(w, id) \/ Sweep(w, id) \/ \E h \in Handles : StartLoop(w, id, h)
  BY <1>2 DEF Unregister, Sweep, StartLoop, Task, maps
<1>3. CASE Unbind(w) \/ Disconnect(w) \/ Swept(w)
  BY <1>3 DEF Unbind, Disconnect, Swept, Goto, maps
<1>4. CASE StopLoop(w)
  BY <1>4 DEF StopLoop, Goto, AfterUnsubscribe, Task
<1>5. CASE Look(w)
  BY <1>5 DEF Look, Goto, AfterUnsubscribe, Task, maps
<1>6. QED
  BY <1>1, <1>2, <1>3, <1>4, <1>5 DEF Step

LEMMA StepRoutesKept ==
  ASSUME TypeOK, Meetings, RoutesKept, NEW w \in Workers, Step(w)
  PROVE  RoutesKept'
<1> SUFFICES ASSUME NEW r \in Routes, r \notin overlapped'
             PROVE  RouteKept(r)'
  BY DEF RoutesKept
<1>1. r \notin overlapped
  BY StepMeetings
<1>2. RouteKept(r)
  BY <1>1 DEF RoutesKept
<1>3. \A v \in Workers : v # w => task'[v] = task[v]
  BY OthersStay
<1>4. CASE AddRoute(w)
  <2>1. topicFunctions' = topicFunctions \cup {RouteOf[task[w].id]} /\ bound' = bound
        /\ task'[w].id = task[w].id /\ task'[w].pc = "bind"
    BY <1>4 DEF AddRoute, Goto, TypeOK
  <2>2. QED
    BY <1>2, <1>3, <2>1 DEF RouteKept, StillBound, OnRoute
<1>5. CASE Bind(w)
  <2>1. topicFunctions' = topicFunctions /\ bound' = bound \cup {task[w].id} /\ task'[w].pc = "enter"
        /\ task[w].pc = "bind"
    BY <1>5 DEF Bind, Task, TypeOK, At
  <2>2. RouteOf[task[w].id] = r => \A v \in Workers : ~ OnRoute(v, {"unroute"}, r)
    BY <1>1, <2>1 DEF Meetings, OnRoute, Subscribing, Unsubscribing
  <2>3. QED
    BY <1>2, <1>3, <2>1, <2>2 DEF RouteKept, StillBound, OnRoute
<1>6. CASE RemoveRoute(w)
  <2>1. topicFunctions' = topicFunctions \ {RouteOf[task[w].id]} /\ bound' = bound /\ task[w].pc = "unroute"
        /\ task'[w].pc \notin {"bind", "unroute"}
    BY <1>6 DEF RemoveRoute, AfterUnsubscribe, Goto, Task, TypeOK, At
  <2>2. RouteOf[task[w].id] = r => ~ StillBound(r) /\ \A v \in Workers : ~ OnRoute(v, {"bind"}, r)
    BY <1>1, <1>2, <2>1 DEF Meetings, RouteKept, OnRoute, Subscribing, Unsubscribing
  <2>3. QED
    BY <1>2, <1>3, <2>1, <2>2 DEF RouteKept, StillBound, OnRoute
<1>7. CASE /\ topicFunctions' = topicFunctions /\ bound' \subseteq bound
           /\ task'[w].pc # "bind"
           /\ task'[w].pc = "unroute" => Look(w)
  <2>1. task'[w].pc = "unroute" => task'[w].id = task[w].id /\ ~ StillBound(RouteOf[task[w].id]) /\ bound' = bound
    BY <1>7 DEF Look, AfterUnsubscribe, Goto, Task, TypeOK, At, maps
  <2>2. QED
    BY <1>2, <1>3, <1>7, <2>1 DEF RouteKept, StillBound, OnRoute
<1>8. QED
  BY <1>4, <1>5, <1>6, <1>7, RouteStep

-----------------------------------------------------------------------------
(***************************************************************************)
(* The invariant, and what follows from it.                                *)
(***************************************************************************)

LEMMA EnqueueInv ==
  ASSUME IInv, NEW t \in Topics, Enqueue(t)
  PROVE  IInv'
<1>1. ASSUME NEW id \in Ids, Subscribed(id), id \notin raced, RouteOf[id] \notin overlapped
      PROVE  RouteOf[id] \in topicFunctions
  <2>1. id \in bound
    BY <1>1 DEF IInv, Phases, InPhase, Subscribed, Steady
  <2>2. StillBound(RouteOf[id])
    BY <2>1, <1>1 DEF StillBound
  <2>3. RouteOf[id] \in Routes \ overlapped
    BY <1>1, RouteAssumption
  <2>4. QED
    BY <2>2, <2>3 DEF IInv, RoutesKept, RouteKept
<1>2. MissedNeedsOverlap' /\ missed' \subseteq Ids
  BY <1>1 DEF IInv, TypeOK, MissedNeedsOverlap, Enqueue
<1>3. UNCHANGED <<maps, task, todo, leaving, overwritten, overlapped, raced>>
  BY DEF Enqueue
<1>4. TypeOK'
  BY <1>2, <1>3 DEF IInv, TypeOK, maps
<1>5. Stored' /\ InHand' /\ LoopsHeld' /\ Meetings'
  BY <1>3 DEF IInv, Stored, InHand, LoopsHeld, Meetings, OnRoute, maps
<1>6. Phases' /\ RoutesKept'
  BY <1>3 DEF IInv, Phases, InPhase, Idle, Steady, AsFarAs, Left, At, RoutesKept, RouteKept, StillBound, OnRoute, maps
<1>7. QED
  BY <1>2, <1>4, <1>5, <1>6 DEF IInv

LEMMA NextInv ==
  ASSUME IInv, [Next]_vars
  PROVE  IInv'
<1>1. ASSUME NEW w \in Workers, Step(w)
      PROVE  IInv'
  <2>1. TypeOK' /\ Stored' /\ InHand' /\ LoopsHeld'
    BY <1>1, StepType, StepStored, StepInHand, StepLoopsHeld DEF IInv
  <2>2. Meetings' /\ Phases' /\ RoutesKept'
    BY <1>1, StepMeetings, StepPhases, StepRoutesKept DEF IInv
  <2>3. MissedNeedsOverlap'
    BY <1>1, OthersStay, StepMeetings DEF IInv, MissedNeedsOverlap
  <2>4. QED
    BY <2>1, <2>2, <2>3 DEF IInv
<1>2. CASE UNCHANGED vars
  <2>1. TypeOK' /\ Stored' /\ InHand' /\ LoopsHeld' /\ Meetings' /\ MissedNeedsOverlap'
    BY <1>2 DEF IInv, TypeOK, Stored, InHand, LoopsHeld, Meetings, MissedNeedsOverlap, OnRoute, vars, maps
  <2>2. Phases' /\ RoutesKept'
    BY <1>2 DEF IInv, Phases, InPhase, Idle, Steady, AsFarAs, Left, At, RoutesKept, RouteKept, StillBound,
                OnRoute, vars, maps
  <2>3. QED
    BY <2>1, <2>2 DEF IInv
<1>3. QED
  BY <1>1, <1>2, EnqueueInv DEF Next

\* The invariant is inductive, for any connections, topics, functions and triggers.
THEOREM Invariance == Spec => []IInv
  BY InitInv, NextInv, PTL DEF Spec

\* Every variable stays in its range: the connections of trigger.rs and the
\* maps of adapter.rs and queue.rs.
THEOREM TypeCorrect == Spec => []TypeOK
<1>1. IInv => TypeOK
  BY DEF IInv
<1>2. QED
  BY <1>1, Invariance, PTL

\* A poll loop can be stopped, but for the loops whose trigger was registered
\* again: adapter.rs and queue.rs, whatever connections do side by side.
THEOREM LoopsAreHeld == Spec => []LoopsHeld
<1>1. IInv => LoopsHeld
  BY DEF IInv
<1>2. QED
  BY <1>1, Invariance, PTL

\* A published message reaches every subscribed function, unless a trigger of
\* that function was subscribed while another was unsubscribed.
THEOREM MissesNeedOverlap == Spec => []MissedNeedsOverlap
<1>1. IInv => MissedNeedsOverlap
  BY DEF IInv
<1>2. QED
  BY <1>1, Invariance, PTL

\* The registry, the adapter's maps and the queue's loops agree on a trigger
\* at rest that two connections never were at work on at once.
THEOREM MapsAgree == Spec => []SettledAgree
<1>1. IInv => SettledAgree
  BY DEF IInv, Stored, Phases, InPhase, Steady, SettledAgree
<1>2. QED
  BY <1>1, Invariance, PTL
=============================================================================
