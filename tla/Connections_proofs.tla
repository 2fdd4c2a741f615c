------------------------- MODULE Connections_proofs -------------------------
(***************************************************************************)
(* Proofs about what the engine keeps for worker connections, for every    *)
(* set of workers.                                                         *)
(*                                                                         *)
(* First FunctionOwnership, for all functions and services: a function     *)
(* whose last claim went undisturbed is served by its owner and listed in  *)
(* its service, and a connection that is gone owns and serves nothing.     *)
(* Then Invocation, for all invocations: what the table, the set of a      *)
(* connection and the steps of its cleanup mean to one another.            *)
(***************************************************************************)
EXTENDS FunctionOwnership, Invocation, TLAPS

Registering(w) == task[w].pc \in {"service", "create", "list", "install", "configure"}
Removing(w) == task[w].pc \in {"unconfigure", "remove", "recheck", "unlist", "drop", "release"}

\* Connection w is in the cleanup of an external function.
TearsDown(w) == state[w] = "closing" /\ task[w].kind = "external"

\* What the step of a connection says of its state.
Phases ==
  \A w \in Workers :
    /\ Registering(w) => state[w] = "up"
    /\ At(w, "configure") => task[w].kind = "external"
    /\ task[w].pc \in {"recheck", "release"} => TearsDown(w)
    /\ state[w] = "gone" => At(w, "idle") /\ \A k \in Kinds : ids[w][k] = {}

\* An owner has the id in its set, so that its cleanup will come to it, or is
\* about to put it there or to release it.
OwnerKnows ==
  \A w \in Workers, k \in Kinds, f \in Functions :
    IsOwner(w, k, f) =>
      \/ f \in ids[w][k]
      \/ Busy(w, f) /\ task[w].kind = k /\ (Registering(w) \/ TearsDown(w))

\* One connection at a time is at work on the function, and the function has
\* an owner of one kind only.
Alone(f) == \A v, w \in Workers : Busy(v, f) /\ Busy(w, f) => v = w
OneKind(f) == \A k \in Kinds : owner[k][f] # NoWorker => owner[OtherKind(k)][f] = NoWorker

\* Who is at work on it owns it (registering), or nobody does but the
\* connection that tears it down (removing).
AtWork(w, f) ==
  /\ Registering(w) => owner[task[w].kind][f] = w /\ owner[OtherKind(task[w].kind)][f] = NoWorker
  /\ Removing(w) => \A k \in Kinds :
                      owner[k][f] = NoWorker \/ (owner[k][f] = w /\ k = "external" /\ TearsDown(w))
  /\ At(w, "configure") => functions[f] = Handler(w, "external")
  /\ task[w].pc \in {"recheck", "unlist", "drop", "release"} => functions[f] = NoHandler
Working(f) == \A w \in Workers : Busy(w, f) => AtWork(w, f)

\* An owner that is not at work serves, and who serves owns unless one is at work.
Serves(f) ==
  \A k \in Kinds, w \in Workers :
    IsOwner(w, k, f) /\ ~ Busy(w, f) => functions[f] = Handler(w, k) /\ (k = "external" => f \in http)
Served(f) ==
  functions[f].by # NoWorker =>
    \/ IsOwner(functions[f].by, functions[f].kind, f)
    \/ \E v \in Workers : Busy(v, f)

Good(f) == Alone(f) /\ OneKind(f) /\ Working(f) /\ Serves(f) /\ Served(f)

IInv ==
  /\ TypeOK
  /\ Phases
  /\ OwnerKnows
  /\ \A f \in Functions \ disturbed : Good(f)

-----------------------------------------------------------------------------
(***************************************************************************)
(* Type correctness.                                                       *)
(***************************************************************************)
LEMMA InitType == Init => TypeOK
  BY DEF Init, TypeOK, NoHandler, Handler, Idle, Task, Kinds, PCs, At

\* However a step moves a connection, its task is one of a known function.
TaskOK ==
  /\ task \in [Workers -> [pc : PCs, f : Functions \cup {NoFunction}, kind : Kinds]]
  /\ \A w \in Workers : ~ At(w, "idle") => task[w].f \in Functions

LEMMA TaskMoves ==
  ASSUME TaskOK, NEW w \in Workers,
         \/ Done(w)
         \/ \E to \in PCs : Goto(w, to) /\ ~ At(w, "idle")
         \/ \E to \in PCs, f \in Functions, k \in Kinds : Begin(w, to, f, k)
         \/ UNCHANGED task
  PROVE  TaskOK'
<1> USE DEF TaskOK, At
<1>1. CASE Done(w)
  BY <1>1 DEF Done, Idle, Task, PCs, Kinds
<1>2. ASSUME NEW to \in PCs, Goto(w, to), ~ At(w, "idle")
      PROVE  TaskOK'
  BY <1>2 DEF Goto
<1>3. ASSUME NEW to \in PCs, NEW f \in Functions, NEW k \in Kinds, Begin(w, to, f, k)
      PROVE  TaskOK'
  BY <1>3 DEF Begin, Task
<1>4. QED
  BY <1>1, <1>2, <1>3

LEMMA ListingType ==
  ASSUME TypeOK, NEW w \in Workers, ListingStep(w)
  PROVE  TypeOK'
<1> USE ServiceAssumption DEF TypeOK, At, PCs, Listing, Kinds
<1>1. task[w].pc \in Listing => task[w].f \in Functions /\ ServiceOf[task[w].f] \in Services
  BY DEF TypeOK
<1>2. task[w].pc \in Listing
  BY DEF ListingStep, FindService, CreateService, ListFunction, UnlistFunction, DropService
<1>3. contended' \in SUBSET Services
  BY <1>1, <1>2 DEF ListingStep, NoteContention
<1>4. UNCHANGED <<registry, ids, state, disturbed>>
  BY DEF ListingStep
<1>5. CASE FindService(w)
  BY <1>3, <1>4, <1>5 DEF FindService, Goto, registry, listing
<1>6. CASE CreateService(w)
  BY <1>1, <1>2, <1>3, <1>4, <1>6 DEF CreateService, Goto, registry
<1>7. CASE ListFunction(w)
  BY <1>1, <1>2, <1>3, <1>4, <1>7 DEF ListFunction, ListIn, Goto, registry
<1>8. CASE UnlistFunction(w)
  <2>1. TaskOK'
    BY <1>8, TaskMoves DEF UnlistFunction, AfterUnlist, TaskOK
  <2>2. QED
    BY <1>3, <1>4, <1>8, <2>1 DEF UnlistFunction, registry, TaskOK
<1>9. CASE DropService(w)
  <2>1. TaskOK'
    BY <1>9, TaskMoves DEF DropService, AfterUnlist, TaskOK
  <2>2. services' \in SUBSET Services /\ listed' \in SUBSET {f \in Functions : ServiceOf[f] \in services'}
    BY <1>9 DEF DropService, InService
  <2>3. QED
    BY <1>3, <1>4, <2>1, <2>2 DEF registry, TaskOK
<1>10. QED
  BY <1>5, <1>6, <1>7, <1>8, <1>9 DEF ListingStep

LEMMA NextType ==
  ASSUME TypeOK, [Next]_vars
  PROVE  TypeOK'
<1> USE DEF TypeOK, At, Kinds, registry, listing, history
<1>1. ASSUME NEW w \in Workers, ListingStep(w)
      PROVE  TypeOK'
  BY <1>1, ListingType
<1>2. ASSUME NEW w \in Workers, NEW k \in Kinds, NEW f \in Functions, Claim(w, k, f)
      PROVE  TypeOK'
  BY <1>2 DEF Claim, Begin, Task, PCs, Listing
<1>3. ASSUME NEW w \in Workers, Install(w)
      PROVE  TypeOK'
  <2>1. functions' \in [Functions -> [by : Workers \cup {NoWorker}, kind : Kinds]]
    BY <1>3 DEF Install, Handler
  <2>2. ids' \in [Workers -> [Kinds -> SUBSET Functions]]
    <3>1. CASE task[w].kind = "regular"
      BY <1>3, <3>1 DEF Install, Include
    <3>2. CASE task[w].kind # "regular"
      BY <1>3, <3>2 DEF Install
    <3>3. QED
      BY <3>1, <3>2
  <2>3. TaskOK'
    BY <1>3, TaskMoves DEF Install, PCs, TaskOK
  <2>4. QED
    BY <1>3, <2>1, <2>2, <2>3 DEF Install, TaskOK
<1>4. ASSUME NEW w \in Workers, Configure(w)
      PROVE  TypeOK'
  <2>1. ids' \in [Workers -> [Kinds -> SUBSET Functions]]
    BY <1>4 DEF Configure, Include
  <2>2. QED
    BY <1>4, <2>1 DEF Configure, Done, Idle, Task, PCs, Listing
<1>5. ASSUME NEW w \in Workers, RegisterFails(w)
      PROVE  TypeOK'
  <2>1. owner' \in [Kinds -> [Functions -> Workers \cup {NoWorker}]]
    BY <1>5 DEF RegisterFails, Disown
  <2>2. QED
    BY <1>5, <2>1 DEF RegisterFails, Done, Idle, Task, PCs, Listing
<1>6. ASSUME NEW w \in Workers, NEW k \in Kinds, NEW f \in Functions, NEW to \in PCs,
             UnregisterKind(w, k, f, to), UNCHANGED <<functions, http, listing, state, history>>
      PROVE  TypeOK'
  <2>1. owner' \in [Kinds -> [Functions -> Workers \cup {NoWorker}]]
    BY <1>6 DEF UnregisterKind, Disown
  <2>2. ids' \in [Workers -> [Kinds -> SUBSET Functions]]
    BY <1>6 DEF UnregisterKind, Exclude
  <2>3. QED
    BY <1>6, <2>1, <2>2, TaskMoves DEF UnregisterKind, TaskOK
<1>7. ASSUME NEW w \in Workers, NEW f \in Functions, Unregister(w, f)
      PROVE  TypeOK'
  BY <1>6, <1>7 DEF Unregister, PCs
<1>8. ASSUME NEW w \in Workers, NEW f \in Functions, CleanRegular(w, f)
      PROVE  TypeOK'
  BY <1>6, <1>8 DEF CleanRegular, PCs
<1>9. ASSUME NEW w \in Workers, NEW f \in Functions, CleanExternal(w, f)
      PROVE  TypeOK'
  <2>1. ids' \in [Workers -> [Kinds -> SUBSET Functions]]
    BY <1>9 DEF CleanExternal, Exclude
  <2>2. QED
    BY <1>9, <2>1, TaskMoves DEF CleanExternal, PCs, TaskOK
<1>10. ASSUME NEW w \in Workers, Unconfigure(w)
       PROVE  TypeOK'
  BY <1>10 DEF Unconfigure, Goto, PCs
<1>11. ASSUME NEW w \in Workers, Remove(w)
       PROVE  TypeOK'
  <2>1. functions' \in [Functions -> [by : Workers \cup {NoWorker}, kind : Kinds]]
    BY <1>11 DEF Remove, NoHandler, Handler
  <2>2. QED
    BY <1>11, <2>1 DEF Remove, Goto, PCs, Listing
<1>12. ASSUME NEW w \in Workers, Recheck(w)
       PROVE  TypeOK'
  BY <1>12 DEF Recheck, Goto, PCs, Listing
<1>13. ASSUME NEW w \in Workers, ReleaseExternal(w)
       PROVE  TypeOK'
  <2>1. owner' \in [Kinds -> [Functions -> Workers \cup {NoWorker}]]
    BY <1>13 DEF ReleaseExternal, Disown
  <2>2. QED
    BY <1>13, <2>1 DEF ReleaseExternal, Done, Idle, Task, PCs, Listing
<1>14. ASSUME NEW w \in Workers, Disconnect(w) \/ Gone(w)
       PROVE  TypeOK'
  BY <1>14 DEF Disconnect, Gone
<1>15. CASE UNCHANGED vars
  BY <1>15 DEF vars
<1>16. QED
  BY <1>1, <1>2, <1>3, <1>4, <1>5, <1>7, <1>8, <1>9, <1>10, <1>11, <1>12, <1>13, <1>14, <1>15 DEF Next

\* Every reachable state is type correct.
THEOREM TypeCorrect == Spec => []TypeOK
<1>1. TypeOK /\ [Next]_vars => TypeOK'
  BY NextType
<1>2. QED
  BY InitType, <1>1, PTL DEF Spec

-----------------------------------------------------------------------------
(***************************************************************************)
(* What a listing step does to the rest: it moves its connection on.       *)
(***************************************************************************)
LEMMA ListingMoves ==
  ASSUME TypeOK, Phases, NEW w \in Workers, ListingStep(w)
  PROVE  /\ UNCHANGED <<functions, http, owner, ids, state, disturbed>>
         /\ \/ Registering(w) /\ ~ At(w, "configure") /\ \E to \in {"create", "list", "install"} : Goto(w, to)
            \/ At(w, "unlist") /\ Goto(w, "drop")
            \/ (At(w, "unlist") \/ At(w, "drop")) /\ TearsDown(w) /\ Goto(w, "release")
            \/ (At(w, "unlist") \/ At(w, "drop")) /\ ~ TearsDown(w) /\ Done(w)
<1>1. UNCHANGED <<functions, http, owner, ids, state, disturbed>>
  BY DEF ListingStep, registry
<1>2. CASE FindService(w) \/ CreateService(w) \/ ListFunction(w)
  BY <1>1, <1>2 DEF FindService, CreateService, ListFunction, Registering, At
<1>3. CASE UnlistFunction(w)
  BY <1>1, <1>3 DEF UnlistFunction, AfterUnlist, TearsDown
<1>4. CASE DropService(w)
  BY <1>1, <1>4 DEF DropService, AfterUnlist, TearsDown
<1>5. QED
  BY <1>2, <1>3, <1>4 DEF ListingStep

-----------------------------------------------------------------------------
(***************************************************************************)
(* The phases of a connection.                                             *)
(***************************************************************************)
LEMMA NextPhases ==
  ASSUME TypeOK, Phases, [Next]_vars
  PROVE  Phases'
<1> USE DEF Phases, TypeOK, At, Registering, TearsDown, Goto, Done, Begin, Idle, Task
<1>1. ASSUME NEW w \in Workers, ListingStep(w)
      PROVE  Phases'
  <2>1. UNCHANGED <<ids, state>> /\ \A v \in Workers \ {w} : task'[v] = task[v]
    BY <1>1, ListingMoves
  <2>2. CASE Registering(w) /\ ~ At(w, "configure") /\ \E to \in {"create", "list", "install"} : Goto(w, to)
    BY <2>1, <2>2
  <2>3. CASE At(w, "unlist") /\ Goto(w, "drop")
    BY <2>1, <2>3
  <2>4. CASE (At(w, "unlist") \/ At(w, "drop")) /\ TearsDown(w) /\ Goto(w, "release")
    BY <2>1, <2>4
  <2>5. CASE (At(w, "unlist") \/ At(w, "drop")) /\ Done(w)
    BY <2>1, <2>5
  <2>6. QED
    BY <1>1, <2>2, <2>3, <2>4, <2>5, ListingMoves
<1>2. ASSUME NEW w \in Workers, NEW k \in Kinds, NEW f \in Functions, Claim(w, k, f)
      PROVE  Phases'
  BY <1>2 DEF Claim
<1>3. ASSUME NEW w \in Workers, Install(w) \/ Configure(w) \/ RegisterFails(w)
      PROVE  Phases'
  <2>1. state[w] = "up" /\ UNCHANGED state
    BY <1>3 DEF Install, Configure, RegisterFails
  <2>2. \A v \in Workers \ {w} : ids'[v] = ids[v] /\ task'[v] = task[v]
    BY <1>3 DEF Install, Configure, RegisterFails, Include
  <2>3. At(w, "configure")' => task'[w].kind = "external"
    BY <1>3 DEF Install, Configure, RegisterFails, Kinds
  <2>4. task'[w].pc \in {"configure", "idle"}
    BY <1>3 DEF Install, Configure, RegisterFails
  <2>5. QED
    BY <2>1, <2>2, <2>3, <2>4
<1>4. ASSUME NEW w \in Workers, NEW k \in Kinds, NEW f \in Functions, NEW to \in {"unconfigure", "remove"},
             Exclude(w, k, f), Begin(w, to, f, k) \/ UNCHANGED task,
             At(w, "idle"), state[w] # "gone", UNCHANGED state
      PROVE  Phases'
  <2>1. \A v \in Workers \ {w} : ids'[v] = ids[v] /\ task'[v] = task[v]
    BY <1>4 DEF Exclude
  <2>2. CASE Begin(w, to, f, k)
    <3>1. task'[w].pc \in {"unconfigure", "remove"}
      BY <2>2
    <3>2. QED
      BY <1>4, <2>1, <3>1
  <2>3. CASE UNCHANGED task
    BY <1>4, <2>1, <2>3
  <2>4. QED
    BY <1>4, <2>2, <2>3
<1>5. ASSUME NEW w \in Workers, NEW f \in Functions,
             Unregister(w, f) \/ CleanRegular(w, f) \/ CleanExternal(w, f)
      PROVE  Phases'
  BY <1>4, <1>5 DEF Unregister, CleanRegular, CleanExternal, UnregisterKind, Kinds
<1>6. ASSUME NEW w \in Workers, Unconfigure(w) \/ Remove(w) \/ Recheck(w) \/ ReleaseExternal(w)
      PROVE  Phases'
  <2>1. CASE Unconfigure(w)
    BY <2>1 DEF Unconfigure
  <2>2. CASE Remove(w)
    BY <2>2 DEF Remove
  <2>3. CASE Recheck(w)
    BY <2>3 DEF Recheck
  <2>4. CASE ReleaseExternal(w)
    BY <2>4 DEF ReleaseExternal
  <2>5. QED
    BY <1>6, <2>1, <2>2, <2>3, <2>4
<1>7. ASSUME NEW w \in Workers, Disconnect(w) \/ Gone(w)
      PROVE  Phases'
  BY <1>7 DEF Disconnect, Gone
<1>8. CASE UNCHANGED vars
  BY <1>8 DEF vars
<1>9. QED
  BY <1>1, <1>2, <1>3, <1>5, <1>6, <1>7, <1>8 DEF Next

-----------------------------------------------------------------------------
(***************************************************************************)
(* An owner's cleanup will come to what it owns.                           *)
(***************************************************************************)
Known(w, k, f) ==
  \/ f \in ids[w][k]
  \/ Busy(w, f) /\ task[w].kind = k /\ (Registering(w) \/ TearsDown(w))

LEMMA KeepsKnown ==
  ASSUME OwnerKnows, NEW w \in Workers,
         \A v \in Workers \ {w} : task'[v] = task[v] /\ state'[v] = state[v] /\ ids'[v] = ids[v],
         \A v \in Workers \ {w}, k \in Kinds, f \in Functions : IsOwner(v, k, f)' => IsOwner(v, k, f),
         \A k \in Kinds, f \in Functions : IsOwner(w, k, f)' => Known(w, k, f)'
  PROVE  OwnerKnows'
<1> SUFFICES ASSUME NEW v \in Workers \ {w}, NEW k \in Kinds, NEW f \in Functions, IsOwner(v, k, f)'
             PROVE  Known(v, k, f)'
  BY DEF OwnerKnows, Known
<1>1. Known(v, k, f)
  BY DEF OwnerKnows, Known
<1>2. QED
  BY <1>1 DEF Known, Busy, At, Registering, TearsDown

LEMMA NextKnows ==
  ASSUME TypeOK, Phases, OwnerKnows, [Next]_vars
  PROVE  OwnerKnows'
<1> USE DEF TypeOK, At
<1>1. ASSUME NEW w \in Workers, ListingStep(w)
      PROVE  OwnerKnows'
  <2>1. UNCHANGED <<owner, ids, state>>
    BY <1>1, ListingMoves
  <2>2. \A v \in Workers \ {w} : task'[v] = task[v] /\ state'[v] = state[v]
    BY <1>1, <2>1, ListingMoves DEF Goto, Done
  <2>3. ASSUME NEW k \in Kinds, NEW f \in Functions, IsOwner(w, k, f), f \notin ids[w][k]
        PROVE  (Busy(w, f) /\ task[w].kind = k /\ (Registering(w) \/ TearsDown(w)))'
    <3>1. Busy(w, f) /\ task[w].kind = k /\ (Registering(w) \/ TearsDown(w))
      BY <2>3 DEF OwnerKnows
    <3>2. ~ Done(w)
      BY <1>1, <3>1, ListingMoves DEF Registering, TearsDown, ListingStep, FindService, CreateService, ListFunction,
           UnlistFunction, DropService, AfterUnlist, Goto, Done, Idle, Task
    <3>3. QED
      BY <1>1, <2>1, <3>1, <3>2, ListingMoves DEF Registering, TearsDown, Goto, Busy
  <2>4. QED
    BY <2>1, <2>2, <2>3, KeepsKnown DEF OwnerKnows, Known, IsOwner
<1>2. ASSUME NEW w \in Workers, NEW k \in Kinds, NEW f \in Functions, Claim(w, k, f)
      PROVE  OwnerKnows'
  <2>1. \A v \in Workers, h \in Kinds, g \in Functions :
          IsOwner(v, h, g)' => (v = w /\ h = k /\ g = f) \/ IsOwner(v, h, g)
    BY <1>2 DEF Claim, IsOwner
  <2>2. Busy(w, f)' /\ task'[w].kind = k /\ Registering(w)'
    BY <1>2 DEF Claim, Begin, Task, Busy, Registering
  <2>3. \A v \in Workers \ {w} : task'[v] = task[v] /\ UNCHANGED <<state, ids>>
    BY <1>2 DEF Claim, Begin
  <2>4. \A g \in Functions : ~ Busy(w, g)
    BY <1>2 DEF Claim, Busy
  <2>5. ASSUME NEW h \in Kinds, NEW g \in Functions, IsOwner(w, h, g)'
        PROVE  Known(w, h, g)'
    BY <2>1, <2>2, <2>3, <2>4, <2>5, <1>2 DEF Claim, OwnerKnows, Known
  <2>6. QED
    BY <2>1, <2>3, <2>5, KeepsKnown
<1>3. ASSUME NEW w \in Workers, NEW k \in Kinds, NEW f \in Functions,
             task[w].f = f, task[w].kind = k, ~ At(w, "idle"),
             UNCHANGED <<owner, state>>, Include(w, k, f), Done(w)
      PROVE  OwnerKnows'
  <2>1. \A v \in Workers, h \in Kinds : ids'[v][h] = IF v = w /\ h = k THEN ids[v][h] \cup {f} ELSE ids[v][h]
    BY <1>3 DEF Include
  <2>2. \A v \in Workers \ {w} : task'[v] = task[v]
    BY <1>3 DEF Done
  <2>3. \A v \in Workers \ {w} : ids'[v] = ids[v]
    BY <1>3 DEF Include
  <2>4. ASSUME NEW h \in Kinds, NEW g \in Functions, IsOwner(w, h, g)'
        PROVE  Known(w, h, g)'
    <3>1. CASE h = k /\ g = f
      BY <2>1, <3>1 DEF Known
    <3>2. CASE ~ (h = k /\ g = f)
      <4>1. g \in ids[w][h]
        BY <1>3, <2>4, <3>2 DEF OwnerKnows, IsOwner, Busy
      <4>2. QED
        BY <2>1, <4>1 DEF Known
    <3>3. QED
      BY <3>1, <3>2
  <2>5. QED
    BY <1>3, <2>2, <2>3, <2>4, KeepsKnown DEF IsOwner
<1>4. ASSUME NEW w \in Workers, Install(w)
      PROVE  OwnerKnows'
  <2>1. CASE task[w].kind = "regular"
    BY <1>3, <1>4, <2>1 DEF Install, Kinds
  <2>2. CASE task[w].kind # "regular"
    <3>1. UNCHANGED <<owner, state, ids>> /\ Goto(w, "configure")
      BY <1>4, <2>2 DEF Install
    <3>2. ASSUME NEW h \in Kinds, NEW g \in Functions, IsOwner(w, h, g)
          PROVE  Known(w, h, g)'
      BY <3>1, <3>2, <1>4 DEF OwnerKnows, Known, Install, Goto, Busy, Registering
    <3>3. QED
      BY <3>1, <3>2, KeepsKnown DEF IsOwner, Goto
  <2>3. QED
    BY <2>1, <2>2
<1>5. ASSUME NEW w \in Workers, Configure(w)
      PROVE  OwnerKnows'
  BY <1>3, <1>5 DEF Configure, Phases, Kinds
<1>6. ASSUME NEW w \in Workers, NEW k \in Kinds, NEW f \in Functions,
             task[w].f = f, task[w].kind = k, ~ At(w, "idle"),
             UNCHANGED <<ids, state>>, Disown(w, k, f), Done(w)
      PROVE  OwnerKnows'
  <2>1. ~ IsOwner(w, k, f)'
    BY <1>6, NoWorkerAssumption DEF Disown, IsOwner
  <2>2. \A v \in Workers, h \in Kinds, g \in Functions : IsOwner(v, h, g)' => IsOwner(v, h, g)
    BY <1>6, NoWorkerAssumption DEF Disown, IsOwner
  <2>3. \A v \in Workers \ {w} : task'[v] = task[v]
    BY <1>6 DEF Done
  <2>4. QED
    <3>1. ASSUME NEW h \in Kinds, NEW g \in Functions, IsOwner(w, h, g)'
          PROVE  Known(w, h, g)'
      BY <1>6, <2>1, <2>2, <3>1 DEF OwnerKnows, Known, Busy
    <3>2. QED
      BY <1>6, <2>2, <2>3, <3>1, KeepsKnown
<1>7. ASSUME NEW w \in Workers, RegisterFails(w) \/ ReleaseExternal(w)
      PROVE  OwnerKnows'
  BY <1>6, <1>7 DEF RegisterFails, ReleaseExternal, Phases, TearsDown, Kinds
<1>8. ASSUME NEW w \in Workers, NEW k \in Kinds, NEW f \in Functions, NEW to \in {"unconfigure", "remove"},
             At(w, "idle"), UNCHANGED state, UnregisterKind(w, k, f, to)
      PROVE  OwnerKnows'
  <2>1. ~ IsOwner(w, k, f)'
    BY <1>8, NoWorkerAssumption DEF UnregisterKind, Disown, IsOwner
  <2>2. \A v \in Workers, h \in Kinds, g \in Functions : IsOwner(v, h, g)' => IsOwner(v, h, g)
    BY <1>8, NoWorkerAssumption DEF UnregisterKind, Disown, IsOwner
  <2>3. \A v \in Workers \ {w} : task'[v] = task[v]
    BY <1>8 DEF UnregisterKind, Begin
  <2>4. \A v \in Workers, h \in Kinds, g \in Functions :
          g \in ids[v][h] => g \in ids'[v][h] \/ (v = w /\ h = k /\ g = f)
    BY <1>8 DEF UnregisterKind, Exclude
  <2>5. \A g \in Functions : ~ Busy(w, g)
    BY <1>8 DEF Busy
  <2>6. \A v \in Workers \ {w} : ids'[v] = ids[v]
    BY <1>8 DEF UnregisterKind, Exclude
  <2>7. ASSUME NEW h \in Kinds, NEW g \in Functions, IsOwner(w, h, g)'
        PROVE  Known(w, h, g)'
    BY <2>1, <2>2, <2>4, <2>5, <2>7 DEF OwnerKnows, Known
  <2>8. QED
    BY <1>8, <2>2, <2>3, <2>6, <2>7, KeepsKnown
<1>9. ASSUME NEW w \in Workers, NEW f \in Functions, Unregister(w, f) \/ CleanRegular(w, f)
      PROVE  OwnerKnows'
  BY <1>8, <1>9 DEF Unregister, CleanRegular, Kinds
<1>10. ASSUME NEW w \in Workers, NEW f \in Functions, CleanExternal(w, f)
       PROVE  OwnerKnows'
  <2>1. UNCHANGED <<owner, state>> /\ \A v \in Workers \ {w} : task'[v] = task[v]
    BY <1>10 DEF CleanExternal, Begin, registry
  <2>2. \A v \in Workers, h \in Kinds, g \in Functions :
          g \in ids[v][h] => g \in ids'[v][h] \/ (v = w /\ h = "external" /\ g = f)
    BY <1>10 DEF CleanExternal, Exclude
  <2>3. IsOwner(w, "external", f) => Busy(w, f)' /\ task'[w].kind = "external" /\ TearsDown(w)'
    BY <1>10 DEF CleanExternal, Begin, Task, Busy, TearsDown
  <2>4. \A g \in Functions : ~ Busy(w, g)
    BY <1>10 DEF CleanExternal, Busy
  <2>5. \A v \in Workers \ {w} : ids'[v] = ids[v]
    BY <1>10 DEF CleanExternal, Exclude
  <2>6. ASSUME NEW h \in Kinds, NEW g \in Functions, IsOwner(w, h, g)
        PROVE  Known(w, h, g)'
    BY <2>2, <2>3, <2>4, <2>6 DEF OwnerKnows, Known
  <2>7. QED
    BY <2>1, <2>5, <2>6, KeepsKnown DEF IsOwner
<1>11. ASSUME NEW w \in Workers, Unconfigure(w) \/ Remove(w) \/ Recheck(w)
       PROVE  OwnerKnows'
  <2>1. UNCHANGED <<owner, ids, state>> /\ \A v \in Workers \ {w} : task'[v] = task[v]
    BY <1>11 DEF Unconfigure, Remove, Recheck, Goto, registry
  <2>2. ~ Registering(w) /\ \E to \in PCs \ {"idle"} : Goto(w, to)
    BY <1>11 DEF Unconfigure, Remove, Recheck, Registering, PCs, Listing
  <2>3. ASSUME NEW h \in Kinds, NEW g \in Functions, IsOwner(w, h, g)
        PROVE  Known(w, h, g)'
    BY <2>1, <2>2, <2>3 DEF OwnerKnows, Known, Busy, TearsDown, Goto
  <2>4. QED
    BY <2>1, <2>3, KeepsKnown DEF IsOwner
<1>12. ASSUME NEW w \in Workers, Disconnect(w) \/ Gone(w)
       PROVE  OwnerKnows'
  BY <1>12 DEF Disconnect, Gone, registry, OwnerKnows, Busy, Registering, TearsDown, IsOwner
<1>13. CASE UNCHANGED vars
  BY <1>13 DEF vars, registry, OwnerKnows, Busy, Registering, TearsDown, IsOwner
<1>14. QED
  BY <1>1, <1>2, <1>4, <1>5, <1>7, <1>9, <1>10, <1>11, <1>12, <1>13 DEF Next

-----------------------------------------------------------------------------
(***************************************************************************)
(* Undisturbed functions.  A function that the acting connection is not at *)
(* work on is untouched; one that it is at work on has no other owner.     *)
(***************************************************************************)
LEMMA Untouched ==
  ASSUME TypeOK, NEW f \in Functions, NEW w \in Workers, Good(f),
         \A v \in Workers \ {w} : task'[v] = task[v] /\ state'[v] = state[v],
         ~ Busy(w, f), ~ Busy(w, f)',
         functions'[f] = functions[f],
         \A k \in Kinds : owner'[k][f] = owner[k][f],
         f \in http => f \in http'
  PROVE  Good(f)'
<1> USE DEF Kinds, OtherKind
<1>1. \A v \in Workers : Busy(v, f)' <=> Busy(v, f)
  BY DEF Busy, At
<1>2. Alone(f)'
  BY <1>1 DEF Good, Alone
<1>3. OneKind(f)'
  BY DEF Good, OneKind
<1>4. Working(f)'
  <2>1. SUFFICES ASSUME NEW v \in Workers \ {w}, Busy(v, f)
                 PROVE  AtWork(v, f)'
    BY <1>1 DEF Working
  <2>2. AtWork(v, f)
    BY <2>1 DEF Good, Working
  <2>3. task[v].kind \in Kinds
    BY DEF TypeOK
  <2>4. QED
    BY <2>2, <2>3 DEF AtWork, Registering, Removing, TearsDown, At
<1>5. Serves(f)'
  BY <1>1 DEF Good, Serves, IsOwner
<1>6. Served(f)'
  <2>1. functions[f].kind \in Kinds
    BY DEF TypeOK
  <2>2. QED
    BY <1>1, <2>1 DEF Good, Served, IsOwner
<1>7. QED
  BY <1>2, <1>3, <1>4, <1>5, <1>6 DEF Good

\* The others are not at work on a function that w is at work on or owns.
LEMMA Others ==
  ASSUME TypeOK, NEW f \in Functions, NEW w \in Workers, Good(f),
         Busy(w, f) \/ \E k \in Kinds : IsOwner(w, k, f)
  PROVE  \A v \in Workers \ {w} : ~ Busy(v, f)
<1>1. ASSUME NEW v \in Workers \ {w}, Busy(v, f)
      PROVE  FALSE
  <2>1. CASE Busy(w, f)
    BY <1>1, <2>1 DEF Good, Alone
  <2>2. ASSUME NEW k \in Kinds, IsOwner(w, k, f)
        PROVE  FALSE
    <3>1. AtWork(v, f) /\ task[v].kind \in Kinds
      BY <1>1 DEF Good, Working, TypeOK
    <3>2. Registering(v) \/ Removing(v)
      BY <1>1 DEF TypeOK, PCs, Listing, Busy, At, Registering, Removing
    <3>3. w # NoWorker
      BY NoWorkerAssumption
    <3>4. QED
      BY <2>2, <3>1, <3>2, <3>3 DEF AtWork, IsOwner, Kinds, OtherKind
  <2>3. QED
    BY <2>1, <2>2
<1>2. QED
  BY <1>1

\* A function that w alone is at work on afterwards.
LEMMA GoesOn ==
  ASSUME TypeOK', NEW f \in Functions, NEW w \in Workers,
         Busy(w, f)', AtWork(w, f)', \A v \in Workers \ {w} : ~ Busy(v, f)'
  PROVE  Good(f)'
<1>1. Alone(f)' /\ Working(f)' /\ Served(f)'
  BY DEF Alone, Working, Served
<1>2. (Registering(w) \/ Removing(w))' /\ task'[w].kind \in Kinds /\ w # NoWorker
  BY NoWorkerAssumption DEF TypeOK, PCs, Listing, Busy, At, Registering, Removing
<1>3. OneKind(f)'
  BY <1>2 DEF AtWork, OneKind, Kinds, OtherKind
<1>4. \A k \in Kinds : owner'[k][f] \in {w, NoWorker}
  BY <1>2 DEF AtWork, Kinds, OtherKind
<1>5. Serves(f)'
  BY <1>4, NoWorkerAssumption DEF Serves, IsOwner
<1>6. QED
  BY <1>1, <1>3, <1>5 DEF Good

\* A function that nobody is at work on afterwards: it has neither owner nor
\* handler, or both.
LEMMA Ends ==
  ASSUME TypeOK', NEW f \in Functions, NEW w \in Workers,
         \A v \in Workers : ~ Busy(v, f)',
         \/ (\A k \in Kinds : owner'[k][f] = NoWorker) /\ functions'[f] = NoHandler
         \/ \E k \in Kinds : /\ owner'[k][f] = w
                             /\ owner'[OtherKind(k)][f] = NoWorker
                             /\ functions'[f] = Handler(w, k)
                             /\ k = "external" => f \in http'
  PROVE  Good(f)'
<1>1. Alone(f)' /\ Working(f)'
  BY DEF Alone, Working
<1>2. CASE (\A k \in Kinds : owner'[k][f] = NoWorker) /\ functions'[f] = NoHandler
  BY <1>1, <1>2, NoWorkerAssumption DEF Good, OneKind, Serves, Served, IsOwner, NoHandler, Handler, Kinds, OtherKind
<1>3. ASSUME NEW k \in Kinds, owner'[k][f] = w, owner'[OtherKind(k)][f] = NoWorker,
             functions'[f] = Handler(w, k), k = "external" => f \in http'
      PROVE  Good(f)'
  <2>1. OneKind(f)'
    BY <1>3 DEF OneKind, Kinds, OtherKind
  <2>2. Serves(f)'
    BY <1>3, NoWorkerAssumption DEF Serves, IsOwner, Kinds, OtherKind
  <2>3. Served(f)'
    BY <1>3 DEF Served, IsOwner, Handler
  <2>4. QED
    BY <1>1, <2>1, <2>2, <2>3 DEF Good
<1>4. QED
  BY <1>2, <1>3

LEMMA Proceeds ==
  ASSUME TypeOK, NEW w \in Workers, NEW f \in Functions, Busy(w, f),
         NEW to \in PCs \ {"idle"}, Goto(w, to)
  PROVE  /\ task'[w].pc = to /\ task'[w].f = f /\ task'[w].kind = task[w].kind
         /\ Busy(w, f)'
         /\ \A v \in Workers \ {w} : task'[v] = task[v]
  BY DEF TypeOK, Goto, Busy, At

LEMMA NextGood ==
  ASSUME TypeOK, Phases, [Next]_vars, \A f \in Functions \ disturbed : Good(f)
  PROVE  \A f \in Functions \ disturbed' : Good(f)'
<1> SUFFICES ASSUME NEW f \in Functions \ disturbed'
             PROVE  Good(f)'
  OBVIOUS
<1> USE NoFunctionAssumption DEF At, Kinds, OtherKind
<1>0. TypeOK'
  BY NextType
<1>1. ASSUME NEW w \in Workers, ListingStep(w)
      PROVE  Good(f)'
  <2>1. UNCHANGED <<functions, http, owner, state, disturbed>> /\ Good(f)
    BY <1>1, ListingMoves
  <2>2. \A v \in Workers \ {w} : task'[v] = task[v] /\ state'[v] = state[v]
    BY <1>1, <2>1, ListingMoves DEF Goto, Done, TypeOK
  <2>3. CASE ~ Busy(w, f)
    <3>1. ~ Busy(w, f)'
      BY <1>1, <2>3, ListingMoves DEF Busy, Goto, Done, Idle, Task, TypeOK, Registering
    <3>2. QED
      BY <2>1, <2>2, <2>3, <3>1, Untouched
  <2>4. CASE Busy(w, f)
    <3>1. AtWork(w, f) /\ \A v \in Workers \ {w} : ~ Busy(v, f)'
      BY <2>1, <2>2, <2>4, Others DEF Good, Working, Busy
    <3>2. ASSUME NEW to \in {"create", "list", "install"}, Goto(w, to), Registering(w)
          PROVE  Good(f)'
      <4>1. to \in PCs \ {"idle"}
        BY DEF PCs, Listing
      <4>2. AtWork(w, f)'
        BY <2>1, <2>4, <3>1, <3>2, <4>1, Proceeds DEF AtWork, Registering, Removing
      <4>3. QED
        BY <1>0, <2>4, <3>1, <3>2, <4>1, <4>2, Proceeds, GoesOn
    <3>3. ASSUME NEW to \in {"drop", "release"}, Goto(w, to), At(w, "unlist") \/ At(w, "drop"),
                 to = "release" => TearsDown(w)
          PROVE  Good(f)'
      <4>1. to \in PCs \ {"idle"}
        BY DEF PCs, Listing
      <4>2. AtWork(w, f)'
        BY <2>1, <2>4, <3>1, <3>3, <4>1, Proceeds DEF AtWork, Registering, Removing, TearsDown
      <4>3. QED
        BY <1>0, <2>4, <3>1, <3>3, <4>1, <4>2, Proceeds, GoesOn
    <3>4. CASE (At(w, "unlist") \/ At(w, "drop")) /\ ~ TearsDown(w) /\ Done(w)
      <4>1. ~ Busy(w, f)'
        BY <3>4 DEF Busy, Done, Idle, Task, TypeOK
      <4>2. (\A k \in Kinds : owner[k][f] = NoWorker) /\ functions[f] = NoHandler
        BY <3>1, <3>4 DEF AtWork, Removing
      <4>3. QED
        BY <1>0, <2>1, <3>1, <4>1, <4>2, Ends
    <3>5. QED
      BY <1>1, <3>2, <3>3, <3>4, ListingMoves
  <2>5. QED
    BY <2>3, <2>4
<1>2. ASSUME NEW w \in Workers, NEW k \in Kinds, NEW g \in Functions, Claim(w, k, g)
      PROVE  Good(f)'
  <2>1. \A v \in Workers \ {w} : task'[v] = task[v] /\ state'[v] = state[v]
    BY <1>2 DEF Claim, Begin
  <2>2. CASE g = f
    <3>1. ~ Disturbs(w, k, f)
      BY <1>2, <2>2 DEF Claim
    <3>2. owner'[k][f] = w /\ owner'[OtherKind(k)][f] = NoWorker
      BY <1>2, <2>2, <3>1 DEF Claim, Disturbs, TypeOK
    <3>3. task'[w] = Task("service", f, k)
      BY <1>2, <2>2 DEF Claim, Begin, TypeOK
    <3>4. \A v \in Workers \ {w} : ~ Busy(v, f)'
      BY <2>1, <3>1 DEF Disturbs, Busy
    <3>5. Busy(w, f)' /\ AtWork(w, f)'
      BY <3>2, <3>3 DEF Task, Busy, AtWork, Registering, Removing
    <3>6. QED
      BY <1>0, <3>4, <3>5, GoesOn
  <2>3. CASE g # f
    <3>1. Good(f) /\ UNCHANGED <<functions, http>>
      BY <1>2, <2>3 DEF Claim
    <3>2. ~ Busy(w, f) /\ ~ Busy(w, f)'
      BY <1>2, <2>3 DEF Claim, Busy, Begin, Task, TypeOK
    <3>3. \A h \in Kinds : owner'[h][f] = owner[h][f]
      BY <1>2, <2>3 DEF Claim, TypeOK
    <3>4. QED
      BY <2>1, <3>1, <3>2, <3>3, Untouched
  <2>4. QED
    BY <2>2, <2>3
<1>3. ASSUME NEW w \in Workers, Install(w) \/ Configure(w) \/ RegisterFails(w) \/ Unconfigure(w)
                                \/ Remove(w) \/ Recheck(w) \/ ReleaseExternal(w),
             task[w].f # f
      PROVE  Good(f)'
  <2>1. /\ UNCHANGED state /\ functions'[f] = functions[f] /\ (f \in http => f \in http')
        /\ (Done(w) \/ \E to \in PCs : Goto(w, to))
        /\ (f \in disturbed => f \in disturbed')
    BY <1>3 DEF Install, Configure, RegisterFails, Unconfigure, Remove, Recheck, ReleaseExternal, registry, history,
         PCs, Listing, TypeOK
  <2>2. \A k \in Kinds : owner'[k][f] = owner[k][f]
    BY <1>3 DEF Install, Configure, RegisterFails, Unconfigure, Remove, Recheck, ReleaseExternal, registry, Disown, TypeOK
  <2>3. ~ Busy(w, f) /\ ~ Busy(w, f)' /\ \A v \in Workers \ {w} : task'[v] = task[v]
    BY <1>3, <2>1 DEF Busy, Goto, Done, Idle, Task, TypeOK
  <2>4. QED
    BY <2>1, <2>2, <2>3, Untouched
<1>4. ASSUME NEW w \in Workers, Busy(w, f), f \notin disturbed
      PROVE  /\ Good(f) /\ AtWork(w, f)
             /\ \A v \in Workers \ {w} : ~ Busy(v, f)
             /\ \A to \in PCs \ {"idle"} : Goto(w, to) /\ AtWork(w, f)' => Good(f)'
             /\ Done(w) => \A v \in Workers : ~ Busy(v, f)'
  <2>1. Good(f) /\ AtWork(w, f) /\ \A v \in Workers \ {w} : ~ Busy(v, f)
    BY <1>4, Others DEF Good, Working
  <2>2. ASSUME NEW to \in PCs \ {"idle"}, Goto(w, to), AtWork(w, f)'
        PROVE  Good(f)'
    <3>1. \A v \in Workers \ {w} : ~ Busy(v, f)'
      BY <1>4, <2>1, <2>2, Proceeds DEF Busy
    <3>2. QED
      BY <1>0, <1>4, <2>2, <3>1, Proceeds, GoesOn
  <2>3. ASSUME Done(w), NEW v \in Workers
        PROVE  ~ Busy(v, f)'
    BY <2>1, <2>3 DEF Busy, Done, Idle, Task, TypeOK
  <2>4. QED
    BY <2>1, <2>2, <2>3
<1>5. ASSUME NEW w \in Workers, Install(w)
      PROVE  Good(f)'
  <2>1. CASE task[w].f = f
    <3>1. Busy(w, f) /\ f \notin disturbed
      BY <1>5, <2>1 DEF Install, Busy, history
    <3>2. owner'[task[w].kind][f] = w /\ owner'[OtherKind(task[w].kind)][f] = NoWorker
      BY <1>4, <1>5, <3>1 DEF Install, AtWork, Registering
    <3>3. functions'[f] = Handler(w, task[w].kind) /\ task[w].kind \in Kinds
      BY <1>5, <2>1 DEF Install, TypeOK
    <3>4. CASE task[w].kind = "regular"
      <4>1. \A v \in Workers : ~ Busy(v, f)'
        BY <1>4, <1>5, <3>1, <3>4 DEF Install
      <4>2. QED
        BY <1>0, <3>2, <3>3, <3>4, <4>1, Ends
    <3>5. CASE task[w].kind # "regular"
      <4>1. Goto(w, "configure") /\ "configure" \in PCs \ {"idle"}
        BY <1>5, <3>5 DEF Install, PCs, Listing
      <4>2. AtWork(w, f)'
        BY <3>1, <3>2, <3>3, <3>5, <4>1, Proceeds DEF AtWork, Registering, Removing
      <4>3. QED
        BY <1>4, <3>1, <4>1, <4>2
    <3>6. QED
      BY <3>4, <3>5
  <2>2. QED
    BY <1>3, <1>5, <2>1
<1>6. ASSUME NEW w \in Workers, Configure(w)
      PROVE  Good(f)'
  <2>1. CASE task[w].f = f
    <3>1. Busy(w, f) /\ f \notin disturbed
      BY <1>6, <2>1 DEF Configure, Busy, history
    <3>2. owner'["external"][f] = w /\ owner'["regular"][f] = NoWorker /\ functions'[f] = Handler(w, "external")
      BY <1>4, <1>6, <3>1 DEF Configure, AtWork, Registering, Phases
    <3>3. f \in http' /\ \A v \in Workers : ~ Busy(v, f)'
      BY <1>4, <1>6, <2>1, <3>1 DEF Configure
    <3>4. QED
      BY <1>0, <3>2, <3>3, Ends
  <2>2. QED
    BY <1>3, <1>6, <2>1
<1>7. ASSUME NEW w \in Workers, RegisterFails(w)
      PROVE  Good(f)'
  <2>1. CASE task[w].f = f
    <3>1. Busy(w, f) /\ f \notin disturbed /\ functions'[f] = NoHandler /\ Done(w)
      BY <1>7, <2>1 DEF RegisterFails, Busy
    <3>2. owner["external"][f] = w /\ owner["regular"][f] = NoWorker
      BY <1>4, <1>7, <3>1 DEF RegisterFails, AtWork, Registering
    <3>3. \A k \in Kinds : owner'[k][f] = NoWorker
      BY <1>7, <2>1, <3>2 DEF RegisterFails, Disown, IsOwner, TypeOK
    <3>4. QED
      BY <1>0, <1>4, <3>1, <3>3, Ends
  <2>2. QED
    BY <1>3, <1>7, <2>1
<1>8. ASSUME NEW w \in Workers, Unconfigure(w) \/ Remove(w) \/ Recheck(w)
      PROVE  Good(f)'
  <2>1. CASE task[w].f = f
    <3>1. Busy(w, f) /\ f \notin disturbed /\ UNCHANGED <<owner, state>>
      BY <1>8, <2>1 DEF Unconfigure, Remove, Recheck, Busy, registry, history
    <3>2. AtWork(w, f)
      BY <1>4, <3>1
    <3>3. CASE Unconfigure(w)
      <4>1. Goto(w, "remove") /\ "remove" \in PCs \ {"idle"}
        BY <3>3 DEF Unconfigure, PCs
      <4>2. AtWork(w, f)'
        BY <3>1, <3>2, <3>3, <4>1, Proceeds DEF Unconfigure, AtWork, Registering, Removing, TearsDown
      <4>3. QED
        BY <1>4, <3>1, <4>1, <4>2
    <3>4. CASE Remove(w)
      <4>1. PICK to \in {"recheck", "unlist"} : Goto(w, to)
        BY <3>4 DEF Remove
      <4>2. to \in PCs \ {"idle"} /\ functions'[f] = NoHandler
        BY <2>1, <3>4 DEF PCs, Listing, Remove, TypeOK
      <4>3. AtWork(w, f)'
        BY <3>1, <3>2, <3>4, <4>1, <4>2, Proceeds DEF Remove, AtWork, Registering, Removing, TearsDown
      <4>4. QED
        BY <1>4, <3>1, <4>1, <4>2, <4>3
    <3>5. CASE Recheck(w)
      <4>1. PICK to \in {"unlist", "release"} : Goto(w, to)
        BY <3>5 DEF Recheck
      <4>2. to \in PCs \ {"idle"} /\ functions'[f] = functions[f]
        BY <3>5 DEF PCs, Listing, Recheck, registry
      <4>3. AtWork(w, f)'
        BY <3>1, <3>2, <3>5, <4>1, <4>2, Proceeds DEF Recheck, AtWork, Registering, Removing, TearsDown
      <4>4. QED
        BY <1>4, <3>1, <4>1, <4>2, <4>3
    <3>6. QED
      BY <1>8, <3>3, <3>4, <3>5
  <2>2. QED
    BY <1>3, <1>8, <2>1
<1>9. ASSUME NEW w \in Workers, ReleaseExternal(w)
      PROVE  Good(f)'
  <2>1. CASE task[w].f = f
    <3>1. Busy(w, f) /\ f \notin disturbed /\ Done(w)
      BY <1>9, <2>1 DEF ReleaseExternal, Busy, history
    <3>2. AtWork(w, f)
      BY <1>4, <3>1
    <3>3. functions'[f] = NoHandler /\ \A k \in Kinds : owner'[k][f] = NoWorker
      BY <1>9, <2>1, <3>2 DEF ReleaseExternal, AtWork, Removing, Disown, IsOwner, TypeOK
    <3>4. QED
      BY <1>0, <1>4, <3>1, <3>3, Ends
  <2>2. QED
    BY <1>3, <1>9, <2>1
<1>10. ASSUME NEW w \in Workers, NEW k \in Kinds, NEW g \in Functions, NEW to \in {"unconfigure", "remove"},
              At(w, "idle"), f \notin disturbed, UNCHANGED <<functions, http, state>>,
              IF IsOwner(w, k, g) THEN Begin(w, to, g, k) ELSE UNCHANGED task,
              \/ Disown(w, k, g)
              \/ UNCHANGED owner /\ k = "external" /\ state[w] = "closing"
       PROVE  Good(f)'
  <2>1. Good(f) /\ ~ Busy(w, f) /\ \A v \in Workers \ {w} : task'[v] = task[v]
    <3>1. CASE IsOwner(w, k, g)
      BY <1>10, <3>1 DEF Busy, Begin, TypeOK
    <3>2. CASE ~ IsOwner(w, k, g)
      BY <1>10, <3>2 DEF Busy
    <3>3. QED
      BY <3>1, <3>2
  <2>2. CASE IsOwner(w, k, f) /\ g = f
    <3>1. \A v \in Workers \ {w} : ~ Busy(v, f)'
      BY <2>1, <2>2, Others DEF Busy
    <3>2. task'[w] = Task(to, f, k)
      BY <1>10, <2>2 DEF Begin, TypeOK
    <3>3. owner[OtherKind(k)][f] = NoWorker
      BY <2>1, <2>2, NoWorkerAssumption DEF Good, OneKind, IsOwner
    <3>4. \A h \in Kinds : owner'[h][f] = NoWorker \/ (owner'[h][f] = w /\ h = "external" /\ k = "external" /\ state'[w] = "closing")
      BY <1>10, <2>2, <3>3 DEF Disown, IsOwner, TypeOK
    <3>5. Busy(w, f)' /\ AtWork(w, f)'
      BY <3>2, <3>4 DEF Task, Busy, AtWork, Registering, Removing, TearsDown
    <3>6. QED
      BY <1>0, <3>1, <3>5, GoesOn
  <2>3. CASE ~ (IsOwner(w, k, f) /\ g = f)
    <3>1. \A h \in Kinds : owner'[h][f] = owner[h][f]
      BY <1>10, <2>3 DEF Disown, IsOwner, TypeOK
    <3>2. ~ Busy(w, f)'
      BY <1>10, <2>3 DEF Busy, Begin, Task, TypeOK
    <3>3. QED
      BY <1>10, <2>1, <3>1, <3>2, Untouched
  <2>4. QED
    BY <2>2, <2>3
<1>11. ASSUME NEW w \in Workers, NEW g \in Functions, Unregister(w, g) \/ CleanRegular(w, g)
       PROVE  Good(f)'
  BY <1>10, <1>11 DEF Unregister, CleanRegular, UnregisterKind, history
<1>12. ASSUME NEW w \in Workers, NEW g \in Functions, CleanExternal(w, g)
       PROVE  Good(f)'
  BY <1>10, <1>12 DEF CleanExternal, registry, history
<1>13. ASSUME NEW w \in Workers, Disconnect(w) \/ Gone(w)
       PROVE  Good(f)'
  <2>1. UNCHANGED <<functions, http, owner, task, disturbed>> /\ ~ Busy(w, f)
    BY <1>13 DEF Disconnect, Gone, registry, history, Busy
  <2>2. ~ Busy(w, f)' /\ \A v \in Workers \ {w} : state'[v] = state[v]
    BY <1>13, <2>1 DEF Disconnect, Gone, Busy, TypeOK
  <2>3. QED
    BY <2>1, <2>2, Untouched
<1>14. CASE UNCHANGED vars
  BY <1>14 DEF vars, registry, history, Good, Alone, OneKind, Working, AtWork, Serves, Served, Busy, IsOwner,
       Registering, Removing, TearsDown
<1>15. QED
  BY <1>1, <1>2, <1>5, <1>6, <1>7, <1>8, <1>9, <1>11, <1>12, <1>13, <1>14 DEF Next

-----------------------------------------------------------------------------
(***************************************************************************)
(* The theorems.                                                           *)
(***************************************************************************)
LEMMA InitInv == Init => IInv
<1> SUFFICES ASSUME Init
             PROVE  IInv
  OBVIOUS
<1>1. TypeOK
  BY InitType
<1>2. \A w \in Workers, f \in Functions : ~ Busy(w, f) /\ At(w, "idle")
  BY DEF Init, Busy, At, Idle, Task
<1>3. \A w \in Workers, k \in Kinds, f \in Functions : ~ IsOwner(w, k, f)
  BY NoWorkerAssumption DEF Init, IsOwner
<1>4. Phases
  <2>1. \A w \in Workers : task[w].pc = "idle" /\ state[w] = "up"
    BY DEF Init, Idle, Task
  <2>2. QED
    BY <2>1 DEF Phases, Registering, At
<1>5. OwnerKnows
  BY <1>3 DEF OwnerKnows
<1>6. ASSUME NEW f \in Functions
      PROVE  Good(f)
  BY <1>2, <1>3 DEF Init, Good, Alone, OneKind, Working, Serves, Served, NoHandler, Handler, Kinds, OtherKind
<1>7. QED
  BY <1>1, <1>4, <1>5, <1>6 DEF IInv

LEMMA NextInv == IInv /\ [Next]_vars => IInv'
  BY NextType, NextPhases, NextKnows, NextGood DEF IInv

LEMMA Invariance == Spec => []IInv
  BY InitInv, NextInv, PTL DEF Spec

\* However many connections register, unregister and leave, a function whose last
\* claim was undisturbed is served by its owner, in the way it registered it.
THEOREM OwnerServesHolds == Spec => []OwnerServes
<1>1. IInv => OwnerServes
  BY DEF IInv, Good, Serves, OwnerServes
<1>2. QED
  BY Invariance, <1>1, PTL

\* A connection that is gone is in no owner map.
LEMMA GoneFact == IInv => GoneOwnsNothing
  BY DEF IInv, Phases, OwnerKnows, GoneOwnsNothing, Busy, At

THEOREM GoneOwnsNothingHolds == Spec => []GoneOwnsNothing
  BY Invariance, GoneFact, PTL

\* No undisturbed function is left to a connection that is gone.
THEOREM GoneServesNothingHolds == Spec => []GoneServesNothing
<1>1. IInv => GoneServesNothing
  <2> SUFFICES ASSUME IInv, NEW w \in Workers, NEW f \in Functions \ disturbed, state[w] = "gone",
                      functions[f].by = w
               PROVE  \E v \in Workers : Busy(v, f)
    BY DEF GoneServesNothing
  <2>1. Served(f) /\ functions[f].kind \in Kinds /\ w # NoWorker
    BY NoWorkerAssumption DEF IInv, Good, TypeOK
  <2>2. ~ IsOwner(w, functions[f].kind, f)
    BY <2>1, GoneFact DEF GoneOwnsNothing
  <2>3. QED
    BY <2>1, <2>2 DEF Served
<1>2. QED
  BY Invariance, <1>1, PTL

-----------------------------------------------------------------------------
(***************************************************************************)
(* The listings.  While two connections are not in the listing of a        *)
(* service at once, what the one that is there has found of it still holds *)
(* when it acts on it.                                                     *)
(***************************************************************************)
Consistent(w) ==
  LET s == ServiceOf[task[w].f]
  IN task[w].pc \in Listing /\ s \notin contended =>
       /\ At(w, "list") => s \in services
       /\ At(w, "create") => s \notin services
       /\ At(w, "drop") => listed \cap InService(s) = {}

\* An owner's function is listed once the owner has listed it.
Shown(f) ==
  \A w \in Workers, k \in Kinds :
    IsOwner(w, k, f) /\ (Busy(w, f) => task[w].pc \in {"install", "configure"}) =>
      f \in listed \/ ServiceOf[f] \in contended

Shelved ==
  /\ \A w \in Workers : Consistent(w)
  /\ \A f \in Functions \ disturbed : Shown(f)

\* The steps of a listing, but for where the connection goes on.
LEMMA ListingEffect ==
  ASSUME TypeOK, NEW w \in Workers, ListingStep(w)
  PROVE  /\ task[w].pc \in Listing /\ task[w].f \in Functions
         /\ \A v \in Workers \ {w} : task'[v] = task[v]
         /\ task'[w].pc \in Listing => task'[w].f = task[w].f
         /\ contended \subseteq contended'
         /\ \A v \in Workers \ {w} :
              task[v].pc \in Listing /\ ServiceOf[task[v].f] = ServiceOf[task[w].f] =>
                ServiceOf[task[v].f] \in contended'
         /\ \A s : s # ServiceOf[task[w].f] => (s \in services' <=> s \in services)
         /\ \A g \in Functions : ServiceOf[g] # ServiceOf[task[w].f] => (g \in listed' <=> g \in listed)
<1> USE DEF TypeOK, At, Listing
<1>1. task[w].pc \in Listing
  BY DEF ListingStep, FindService, CreateService, ListFunction, UnlistFunction, DropService
<1>2. task[w].f \in Functions
  BY <1>1
<1>3. /\ \A v \in Workers \ {w} : task'[v] = task[v]
      /\ task'[w].pc \in Listing => task'[w].f = task[w].f
  <2>1. Done(w) \/ \E to \in PCs : Goto(w, to)
    BY DEF ListingStep, FindService, CreateService, ListFunction, UnlistFunction, DropService,
           AfterUnlist, PCs
  <2>2. CASE Done(w)
    BY <2>2 DEF Done, Idle, Task
  <2>3. ASSUME NEW to \in PCs, Goto(w, to)
        PROVE  task'[w].f = task[w].f /\ \A v \in Workers \ {w} : task'[v] = task[v]
    BY <2>3 DEF Goto
  <2>4. QED
    BY <2>1, <2>2, <2>3
<1>4. /\ contended \subseteq contended'
      /\ \A v \in Workers \ {w} :
           task[v].pc \in Listing /\ ServiceOf[task[v].f] = ServiceOf[task[w].f] =>
             ServiceOf[task[v].f] \in contended'
  BY DEF ListingStep, NoteContention
<1>5. /\ \A s : s # ServiceOf[task[w].f] => (s \in services' <=> s \in services)
      /\ \A g \in Functions : ServiceOf[g] # ServiceOf[task[w].f] => (g \in listed' <=> g \in listed)
  BY DEF ListingStep, FindService, CreateService, ListFunction, ListIn, UnlistFunction, DropService,
         InService, listing
<1>6. QED
  BY <1>1, <1>2, <1>3, <1>4, <1>5

LEMMA ListingConsistent ==
  ASSUME TypeOK, \A v \in Workers : Consistent(v), NEW w \in Workers, ListingStep(w), NEW v \in Workers
  PROVE  Consistent(v)'
<1>1. CASE v # w
  <2> SUFFICES ASSUME task[v].pc \in Listing, ServiceOf[task[v].f] \notin contended',
                      task'[v] = task[v]
               PROVE  Consistent(v)'
    BY <1>1, ListingEffect DEF Consistent
  <2>1. ServiceOf[task[v].f] # ServiceOf[task[w].f] /\ ServiceOf[task[v].f] \notin contended
    BY <1>1, ListingEffect
  <2>2. ServiceOf[task[v].f] \in services' <=> ServiceOf[task[v].f] \in services
    BY <2>1, ListingEffect
  <2>3. listed' \cap InService(ServiceOf[task[v].f]) = listed \cap InService(ServiceOf[task[v].f])
    BY <2>1, ListingEffect DEF InService
  <2>4. QED
    BY <2>1, <2>2, <2>3 DEF Consistent, At
<1>2. CASE v = w
  <2> USE DEF At, Listing, TypeOK
  <2>1. CASE FindService(w)
    BY <1>2, <2>1 DEF FindService, Goto, Consistent, listing
  <2>2. CASE CreateService(w)
    BY <1>2, <2>2 DEF CreateService, Goto, Consistent
  <2>3. CASE ListFunction(w)
    BY <1>2, <2>3 DEF ListFunction, Goto, Consistent
  <2>4. CASE UnlistFunction(w)
    <3>1. CASE Goto(w, "drop") /\ LeavesEmpty(task[w].f)
      <4>1. listed' \cap InService(ServiceOf[task[w].f]) = {}
        BY <2>4, <3>1 DEF UnlistFunction, LeavesEmpty
      <4>2. task'[w].pc = "drop" /\ task'[w].f = task[w].f
        BY <3>1 DEF Goto
      <4>3. QED
        BY <1>2, <4>1, <4>2 DEF Consistent, InService
    <3>2. CASE AfterUnlist(w)
      BY <1>2, <3>2 DEF AfterUnlist, Goto, Done, Idle, Task, Consistent
    <3>3. QED
      BY <2>4, <3>1, <3>2 DEF UnlistFunction
  <2>5. CASE DropService(w)
    BY <1>2, <2>5 DEF DropService, AfterUnlist, Goto, Done, Idle, Task, Consistent
  <2>6. QED
    BY <2>1, <2>2, <2>3, <2>4, <2>5 DEF ListingStep
<1>3. QED
  BY <1>1, <1>2

\* A listed function of an owner stays listed, and one that its owner lists is.
LEMMA ListingShown ==
  ASSUME IInv, \A v \in Workers : Consistent(v), NEW w \in Workers, ListingStep(w),
         NEW f \in Functions \ disturbed, Shown(f)
  PROVE  Shown(f)'
<1> SUFFICES ASSUME NEW v \in Workers, NEW k \in Kinds, IsOwner(v, k, f)',
                    (Busy(v, f) => task[v].pc \in {"install", "configure"})',
                    ServiceOf[f] \notin contended'
             PROVE  f \in listed'
  BY DEF Shown
<1>0. /\ TypeOK /\ Phases /\ Good(f) /\ IsOwner(v, k, f)
      /\ ServiceOf[f] \notin contended /\ v # NoWorker
      /\ task[w].pc \in Listing /\ task[w].f \in Functions
  <2>1. UNCHANGED owner
    BY ListingMoves DEF IInv
  <2>2. QED
    BY <2>1, ListingEffect, NoWorkerAssumption DEF IInv, IsOwner
<1>1. \/ ListFunction(w) /\ task[w].f = f
      \/ f \in listed /\ ~ (UnlistFunction(w) /\ task[w].f = f)
  <2>1. CASE task[w].f = f
    <3>1. Busy(w, f) /\ AtWork(w, f)
      BY <1>0, <2>1 DEF Busy, At, Listing, Good, Working
    <3>2. CASE ListFunction(w)
      BY <2>1, <3>2
    <3>3. CASE FindService(w) \/ CreateService(w)
      <4>1. v = w
        BY <1>0, <3>1, <3>3 DEF FindService, CreateService, At, AtWork, Registering, IsOwner, Kinds, OtherKind, TypeOK
      <4>2. Busy(w, f)' /\ task'[w].pc \in {"list", "create"}
        BY <1>0, <2>1, <3>3 DEF FindService, CreateService, Goto, Busy, At, TypeOK
      <4>3. QED
        BY <4>1, <4>2
    <3>4. CASE UnlistFunction(w) \/ DropService(w)
      <4>1. v = w /\ TearsDown(w)
        BY <1>0, <3>1, <3>4 DEF UnlistFunction, DropService, At, AtWork, Removing, IsOwner
      <4>2. \E to \in {"drop", "release"} : Goto(w, to)
        BY <3>4, <4>1 DEF UnlistFunction, DropService, AfterUnlist, TearsDown
      <4>3. Busy(w, f)' /\ task'[w].pc \in {"drop", "release"}
        BY <1>0, <2>1, <4>2 DEF Goto, Busy, At, TypeOK
      <4>4. QED
        BY <4>1, <4>3
    <3>5. QED
      BY <3>2, <3>3, <3>4 DEF ListingStep
  <2>2. CASE task[w].f # f
    <3>1. Busy(v, f) => task[v].pc \in {"install", "configure"}
      BY <2>2, ListingEffect, <1>0 DEF Busy, At
    <3>2. QED
      BY <1>0, <2>2, <3>1 DEF Shown
  <2>3. QED
    BY <2>1, <2>2
<1>2. CASE ServiceOf[task[w].f] # ServiceOf[f]
  BY <1>0, <1>1, <1>2, ListingEffect
<1>3. CASE ServiceOf[task[w].f] = ServiceOf[f]
  <2>0. Consistent(w) /\ ServiceOf[task[w].f] \notin contended
    BY <1>0, <1>3
  <2>1. CASE FindService(w)
    BY <1>1, <2>1 DEF FindService, ListFunction, At, listing
  <2>2. CASE CreateService(w)
    BY <1>0, <1>1, <1>3, <2>0, <2>2 DEF CreateService, ListFunction, At, Consistent, Listing, TypeOK
  <2>3. CASE ListFunction(w)
    BY <1>0, <1>1, <1>3, <2>0, <2>3 DEF ListFunction, ListIn, At, Consistent, Listing
  <2>4. CASE UnlistFunction(w)
    BY <1>1, <2>4 DEF UnlistFunction, ListFunction, At
  <2>5. CASE DropService(w)
    BY <1>0, <1>1, <1>3, <2>0, <2>5 DEF DropService, ListFunction, At, Consistent, Listing, InService
  <2>6. QED
    BY <2>1, <2>2, <2>3, <2>4, <2>5 DEF ListingStep
<1>4. QED
  BY <1>2, <1>3

\* Any other step of connection w, which claims nothing.
LEMMA QuietShelves ==
  ASSUME IInv, Shelved, NEW w \in Workers, UNCHANGED <<listing, contended>>,
         \A v \in Workers \ {w} : task'[v] = task[v],
         task'[w].pc \notin {"list", "create", "drop"},
         disturbed \subseteq disturbed',
         \A f \in Functions, v \in Workers, k \in Kinds : IsOwner(v, k, f)' => IsOwner(v, k, f),
         \A f \in Functions \ disturbed', k \in Kinds :
           IsOwner(w, k, f)' /\ (Busy(w, f) => task[w].pc \in {"install", "configure"})' =>
             (Busy(w, f) => task[w].pc \in {"install", "configure"})
  PROVE  Shelved'
<1>1. ASSUME NEW v \in Workers
      PROVE  Consistent(v)'
  <2>1. CASE v = w
    BY <2>1 DEF Consistent, At
  <2>2. CASE v # w
    <3>1. task'[v] = task[v] /\ Consistent(v)
      BY <2>2 DEF Shelved
    <3>2. QED
      BY <3>1 DEF Consistent, At, InService, listing
  <2>3. QED
    BY <2>1, <2>2
<1>2. ASSUME NEW f \in Functions \ disturbed', NEW v \in Workers, NEW k \in Kinds, IsOwner(v, k, f)',
             (Busy(v, f) => task[v].pc \in {"install", "configure"})'
      PROVE  f \in listed' \/ ServiceOf[f] \in contended'
  <2>1. Shown(f) /\ IsOwner(v, k, f)
    BY <1>2 DEF Shelved
  <2>2. Busy(v, f) => task[v].pc \in {"install", "configure"}
    BY <1>2 DEF Busy, At
  <2>3. QED
    BY <2>1, <2>2 DEF Shown, listing
<1>3. QED
  BY <1>1, <1>2 DEF Shelved, Shown

LEMMA ClaimShelves ==
  ASSUME IInv, Shelved, NEW w \in Workers, NEW i \in Kinds, NEW g \in Functions, Claim(w, i, g)
  PROVE  Shelved'
<1>0. /\ TypeOK /\ UNCHANGED <<listing, contended>>
      /\ \A v \in Workers : task'[v] = IF v = w THEN Task("service", g, i) ELSE task[v]
      /\ disturbed' = IF Disturbs(w, i, g) THEN disturbed \cup {g} ELSE disturbed \ {g}
  BY DEF IInv, Claim, Begin, TypeOK
<1>1. ASSUME NEW v \in Workers
      PROVE  Consistent(v)'
  <2>1. CASE v = w
    BY <1>0, <2>1 DEF Consistent, At, Task
  <2>2. CASE v # w
    <3>1. task'[v] = task[v] /\ Consistent(v)
      BY <1>0, <2>2 DEF Shelved
    <3>2. QED
      BY <1>0, <3>1 DEF Consistent, At, InService, listing
  <2>3. QED
    BY <2>1, <2>2
<1>2. ASSUME NEW f \in Functions \ disturbed', NEW v \in Workers, NEW k \in Kinds, IsOwner(v, k, f)',
             (Busy(v, f) => task[v].pc \in {"install", "configure"})'
      PROVE  f \in listed' \/ ServiceOf[f] \in contended'
  <2>1. CASE f = g
    <3>1. owner[OtherKind(i)][g] = NoWorker
      BY <1>0, <1>2, <2>1 DEF Disturbs
    <3>2. v = w
      BY <1>0, <1>2, <2>1, <3>1, NoWorkerAssumption DEF Claim, IsOwner, Kinds, OtherKind, TypeOK
    <3>3. QED
      BY <1>0, <1>2, <2>1, <3>2 DEF Busy, At, Task
  <2>2. CASE f # g
    <3>1. f \notin disturbed /\ Shown(f)
      BY <1>0, <1>2, <2>2 DEF Shelved
    <3>2. IsOwner(v, k, f)
      BY <1>0, <1>2, <2>2 DEF Claim, IsOwner, TypeOK
    <3>3. Busy(v, f) => task[v].pc \in {"install", "configure"}
      <4>1. CASE v = w
        BY <4>1 DEF Claim, Busy
      <4>2. CASE v # w
        BY <1>0, <1>2, <4>2 DEF Busy, At
      <4>3. QED
        BY <4>1, <4>2
    <3>4. QED
      BY <1>0, <3>1, <3>2, <3>3 DEF Shown, listing
  <2>3. QED
    BY <2>1, <2>2
<1>3. QED
  BY <1>1, <1>2 DEF Shelved, Shown

LEMMA NextShelved ==
  ASSUME IInv, Shelved, [Next]_vars
  PROVE  Shelved'
<1>0. TypeOK /\ Phases /\ \A f \in Functions \ disturbed : Good(f)
  BY DEF IInv
<1>1. ASSUME NEW w \in Workers, ListingStep(w)
      PROVE  Shelved'
  <2>1. UNCHANGED disturbed
    BY <1>1 DEF ListingStep
  <2>2. QED
    BY <1>0, <1>1, <2>1, ListingConsistent, ListingShown DEF Shelved
<1>2. ASSUME NEW w \in Workers, NEW k \in Kinds, NEW f \in Functions, Claim(w, k, f)
      PROVE  Shelved'
  BY <1>2, ClaimShelves
<1> USE DEF At
<1>3. ASSUME NEW w \in Workers, Install(w) \/ Configure(w) \/ RegisterFails(w)
      PROVE  Shelved'
  <2>1. /\ UNCHANGED <<listing, contended>> /\ task[w].pc \in {"install", "configure"}
        /\ Done(w) \/ Goto(w, "configure")
        /\ disturbed \subseteq disturbed'
    BY <1>3 DEF Install, Configure, RegisterFails, history
  <2>2. /\ \A v \in Workers \ {w} : task'[v] = task[v]
        /\ task'[w].pc \in {"idle", "configure"}
    BY <1>0, <2>1 DEF Done, Goto, Idle, Task, TypeOK
  <2>3. \A f \in Functions, v \in Workers, k \in Kinds : IsOwner(v, k, f)' => IsOwner(v, k, f)
    BY <1>0, <1>3, NoWorkerAssumption DEF Install, Configure, RegisterFails, Disown, IsOwner, Kinds, TypeOK
  <2>4. QED
    BY <2>1, <2>2, <2>3, QuietShelves
<1>4. ASSUME NEW w \in Workers, NEW g \in Functions,
             Unregister(w, g) \/ CleanRegular(w, g) \/ CleanExternal(w, g)
      PROVE  Shelved'
  <2>1. /\ UNCHANGED <<listing, contended, disturbed>> /\ At(w, "idle")
        /\ \/ UNCHANGED task
           \/ \E to \in {"unconfigure", "remove"}, k \in Kinds : Begin(w, to, g, k)
    BY <1>4 DEF Unregister, CleanRegular, CleanExternal, UnregisterKind, history, Kinds
  <2>2. /\ \A v \in Workers \ {w} : task'[v] = task[v]
        /\ task'[w].pc \notin {"list", "create", "drop"}
        /\ \A f : ~ Busy(w, f)
    BY <1>0, <2>1 DEF Begin, Task, Busy, TypeOK
  <2>3. \A f \in Functions, v \in Workers, k \in Kinds : IsOwner(v, k, f)' => IsOwner(v, k, f)
    BY <1>0, <1>4, NoWorkerAssumption
    DEF Unregister, CleanRegular, CleanExternal, UnregisterKind, Disown, IsOwner, Kinds, TypeOK, registry
  <2>4. QED
    BY <2>1, <2>2, <2>3, QuietShelves
<1>5. ASSUME NEW w \in Workers, Unconfigure(w) \/ Remove(w) \/ Recheck(w) \/ ReleaseExternal(w)
      PROVE  Shelved'
  <2>1. /\ UNCHANGED <<listing, contended, disturbed>>
        /\ task[w].pc \in {"unconfigure", "remove", "recheck", "release"} /\ Removing(w)
        /\ \/ task[w].pc = "release" /\ Done(w) /\ Disown(w, "external", task[w].f)
           \/ UNCHANGED owner /\ \E to \in {"remove", "recheck", "unlist", "release"} : Goto(w, to)
    BY <1>5 DEF Unconfigure, Remove, Recheck, ReleaseExternal, history, Removing, registry
  <2>2. /\ \A v \in Workers \ {w} : task'[v] = task[v]
        /\ task'[w].pc \in {"idle", "remove", "recheck", "unlist", "release"}
    BY <1>0, <2>1 DEF Done, Goto, Idle, Task, TypeOK
  <2>3. \A f \in Functions, v \in Workers, k \in Kinds : IsOwner(v, k, f)' => IsOwner(v, k, f)
    BY <1>0, <2>1, NoWorkerAssumption DEF Disown, IsOwner, Kinds, TypeOK
  <2>4. ASSUME NEW f \in Functions \ disturbed, NEW k \in Kinds, IsOwner(w, k, f)',
               (Busy(w, f) => task[w].pc \in {"install", "configure"})', Busy(w, f)
        PROVE  FALSE
    <3>1. task[w].f = f /\ AtWork(w, f) /\ IsOwner(w, k, f) /\ w # NoWorker
      BY <1>0, <2>3, <2>4, NoWorkerAssumption DEF Busy, Good, Working
    <3>2. k = "external"
      BY <2>1, <3>1 DEF AtWork, IsOwner
    <3>3. CASE Done(w) /\ Disown(w, "external", f)
      BY <1>0, <2>4, <3>1, <3>2, <3>3 DEF Disown, IsOwner, Kinds, TypeOK
    <3>4. CASE \E to \in {"remove", "recheck", "unlist", "release"} : Goto(w, to)
      <4>1. Busy(w, f)' /\ task'[w].pc \in {"remove", "recheck", "unlist", "release"}
        BY <1>0, <3>1, <3>4 DEF Goto, Busy, TypeOK
      <4>2. QED
        BY <2>4, <4>1
    <3>5. QED
      BY <2>1, <3>1, <3>3, <3>4
  <2>5. QED
    BY <2>1, <2>2, <2>3, <2>4, QuietShelves
<1>6. ASSUME UNCHANGED <<owner, listing, task, disturbed, contended>>
      PROVE  Shelved'
  <2>1. \A w \in Workers : Consistent(w)'
    BY <1>6 DEF Shelved, Consistent, InService, listing
  <2>2. \A f \in Functions \ disturbed : Shown(f)'
    BY <1>6 DEF Shelved, Shown, IsOwner, Busy, listing
  <2>3. QED
    BY <1>6, <2>1, <2>2 DEF Shelved
<1>7. ASSUME NEW w \in Workers, Disconnect(w) \/ Gone(w)
      PROVE  UNCHANGED <<owner, listing, task, disturbed, contended>>
  BY <1>7 DEF Disconnect, Gone, registry, history
<1>8. CASE UNCHANGED vars
  BY <1>6, <1>8 DEF vars, registry, history
<1>9. QED
  BY <1>1, <1>2, <1>3, <1>4, <1>5, <1>6, <1>7, <1>8 DEF Next

\* A function that its owner serves and whose last claim was undisturbed is listed
\* in its service, whatever the others list and unlist there one at a time.
THEOREM OwnedIsListedHolds == Spec => []OwnedIsListed
<1>1. Init => Shelved
  <2> SUFFICES ASSUME Init
               PROVE  Shelved
    OBVIOUS
  <2>1. \A w \in Workers : task[w].pc = "idle"
    BY DEF Init, Idle, Task
  <2>2. \A w \in Workers, k \in Kinds, f \in Functions : ~ IsOwner(w, k, f)
    BY NoWorkerAssumption DEF Init, IsOwner
  <2>3. QED
    BY <2>1, <2>2 DEF Shelved, Consistent, Shown, Listing
<1>2. IInv /\ Shelved /\ [Next]_vars => Shelved'
  BY NextShelved
<1>3. Shelved => OwnedIsListed
  BY DEF Shelved, Shown, OwnedIsListed
<1>4. QED
  BY <1>1, <1>2, <1>3, Invariance, PTL DEF Spec

-----------------------------------------------------------------------------
(***************************************************************************)
(* Invocation.                                                             *)
(***************************************************************************)
\* The table has exactly the invocations that wait, and only an answer gives an outcome.
Waiting ==
  \A i \in Invocations :
    /\ i \in recorded <=> pc[i] = "wait"
    /\ outcome[i] = "none" <=> pc[i] \notin {"answered", "done"}

\* Before the lookup an invocation is known to nobody.
NewQuiet ==
  \A i \in Invocations : pc[i] = "new" => reply[i] = "none" /\ \A w \in Workers : i \notin noted[w]

\* The read loop finishes its message before its connection closes.
HandlingUp == \A i \in Invocations : reply[i] = "handling" => conn[runner[i]] = "up"

\* The runner's set has what the runner has to answer.
RunnerNoted ==
  \A i \in Invocations :
    pc[i] \in {"record", "wait"} /\ reply[i] = "none" => i \in noted[runner[i]]

\* Every answer or cleanup ahead of the insertion is in raced ...
RacedKnown ==
  \A i \in Invocations :
    Unrecorded(i) /\ (reply[i] # "none" \/ conn[runner[i]] \in {"halting", "cleaned"}) => i \in raced

\* ... so that an entry its result has missed was raced, and one whose runner is in
\* cleanup was raced or is about to be halted.
EntryCovered ==
  \A i \in Invocations :
    i \in recorded =>
      /\ reply[i] = "done" => i \in raced
      /\ conn[runner[i]] \in {"halting", "cleaned"} => i \in raced \/ i \in toHalt[runner[i]]

\* A cleanup has only invocations to halt that its worker calls or runs.
HaltsOwn ==
  \A w \in Workers : \A i \in toHalt[w] : pc[i] # "new" /\ w \in {caller[i], runner[i]}

CallsInv ==
  /\ CallsTypeOK
  /\ Waiting
  /\ NewQuiet
  /\ HandlingUp
  /\ RunnerNoted
  /\ RacedKnown
  /\ EntryCovered
  /\ NotedInFlight
  /\ HaltsOwn
  /\ StoppedMeansGone

-----------------------------------------------------------------------------
(***************************************************************************)
(* Type correctness.                                                       *)
(***************************************************************************)
LEMMA CallsInitType == CallsInit => CallsTypeOK
  BY DEF CallsInit, CallsTypeOK

LEMMA CallsNextType ==
  ASSUME CallsTypeOK, [CallsNext]_callsVars
  PROVE  CallsTypeOK'
<1> USE DEF CallsTypeOK, links, ends, Advance
<1>1. ASSUME NEW i \in Invocations, NEW c \in Workers \cup {Engine}, Lookup(i, c)
      PROVE  CallsTypeOK'
  BY <1>1 DEF Lookup
<1>2. ASSUME NEW i \in Invocations, HandlerStep(i)
      PROVE  CallsTypeOK'
  <2>1. CASE AddToCaller(i)
    BY <2>1 DEF AddToCaller
  <2>2. CASE Send(i)
    BY <2>2 DEF Send
  <2>3. CASE SendFails(i)
    BY <2>3 DEF SendFails
  <2>4. CASE Note(i)
    BY <2>4 DEF Note
  <2>5. CASE Record(i)
    BY <2>5 DEF Record
  <2>6. CASE Forget(i)
    BY <2>6 DEF Forget
  <2>7. QED
    BY <1>2, <2>1, <2>2, <2>3, <2>4, <2>5, <2>6 DEF HandlerStep
<1>3. ASSUME NEW i \in Invocations, ResultBegin(i)
      PROVE  CallsTypeOK'
  BY <1>3 DEF ResultBegin
<1>4. ASSUME NEW i \in Invocations, ResultEnd(i)
      PROVE  CallsTypeOK'
  BY <1>4 DEF ResultEnd, Resolve
<1>5. ASSUME NEW w \in Workers, Close(w)
      PROVE  CallsTypeOK'
  BY <1>5 DEF Close
<1>6. ASSUME NEW w \in Workers, Cleanup(w)
      PROVE  CallsTypeOK'
  <2>1. CASE WriterStops(w)
    BY <2>1 DEF WriterStops
  <2>2. CASE HaltBegin(w)
    BY <2>2 DEF HaltBegin
  <2>3. ASSUME NEW i \in Invocations, Halt(w, i)
        PROVE  CallsTypeOK'
    BY <2>3 DEF Halt, Resolve
  <2>4. CASE HaltEnd(w)
    BY <2>4 DEF HaltEnd
  <2>5. QED
    BY <1>6, <2>1, <2>2, <2>3, <2>4 DEF Cleanup
<1>7. CASE UNCHANGED callsVars
  BY <1>7 DEF callsVars
<1>8. QED
  BY <1>1, <1>2, <1>3, <1>4, <1>5, <1>6, <1>7 DEF CallsNext

\* Every reachable state of the invocation handler is well typed.
THEOREM CallsTypeCorrect == CallsSpec => []CallsTypeOK
<1>1. CallsTypeOK /\ [CallsNext]_callsVars => CallsTypeOK'
  BY CallsNextType
<1>2. QED
  BY CallsInitType, <1>1, PTL DEF CallsSpec

-----------------------------------------------------------------------------
(***************************************************************************)
(* The inductive invariant: one step per action.                           *)
(***************************************************************************)
LEMMA CallsInitInv == CallsInit => CallsInv
<1> SUFFICES ASSUME CallsInit PROVE CallsInv
  OBVIOUS
<1>1. CallsTypeOK
  BY CallsInitType
<1>2. QED
  BY <1>1 DEF CallsInv, CallsInit, Waiting, NewQuiet, HandlingUp, RunnerNoted, RacedKnown, EntryCovered,
              NotedInFlight, HaltsOwn, StoppedMeansGone, Unrecorded

LEMMA CallsNextInv ==
  ASSUME CallsInv, [CallsNext]_callsVars
  PROVE  CallsInv'
<1> USE DEF CallsInv, Waiting, NewQuiet, HandlingUp, RunnerNoted, RacedKnown, EntryCovered,
            NotedInFlight, HaltsOwn, StoppedMeansGone, Unrecorded, Advance, links, ends
<1>t. CallsTypeOK'
  BY CallsNextType
<1>1. ASSUME NEW i \in Invocations, NEW c \in Workers \cup {Engine}, Lookup(i, c)
      PROVE  CallsInv'
  BY <1>1, <1>t DEF Lookup, CallsTypeOK
<1>2. ASSUME NEW i \in Invocations, HandlerStep(i)
      PROVE  CallsInv'
  <2>1. CASE AddToCaller(i)
    BY <2>1, <1>t DEF AddToCaller, CallsTypeOK
  <2>2. CASE Send(i)
    BY <2>2, <1>t DEF Send, CallsTypeOK
  <2>3. CASE SendFails(i)
    BY <2>3, <1>t DEF SendFails, CallsTypeOK
  <2>4. CASE Note(i)
    BY <2>4, <1>t DEF Note, CallsTypeOK
  <2>5. CASE Record(i)
    BY <2>5, <1>t DEF Record, CallsTypeOK
  <2>6. CASE Forget(i)
    BY <2>6, <1>t DEF Forget, CallsTypeOK
  <2>7. QED
    BY <1>2, <2>1, <2>2, <2>3, <2>4, <2>5, <2>6 DEF HandlerStep
<1>3. ASSUME NEW i \in Invocations, ResultBegin(i)
      PROVE  CallsInv'
  BY <1>3, <1>t DEF ResultBegin, CallsTypeOK
<1>4. ASSUME NEW i \in Invocations, ResultEnd(i)
      PROVE  CallsInv'
  BY <1>4, <1>t DEF ResultEnd, Resolve, CallsTypeOK
<1>5. ASSUME NEW w \in Workers, Close(w)
      PROVE  CallsInv'
  BY <1>5, <1>t DEF Close, CallsTypeOK
<1>6. ASSUME NEW w \in Workers, Cleanup(w)
      PROVE  CallsInv'
  <2>1. CASE WriterStops(w)
    BY <2>1, <1>t DEF WriterStops, CallsTypeOK
  <2>2. CASE HaltBegin(w)
    BY <2>2, <1>t DEF HaltBegin, CallsTypeOK
  <2>3. ASSUME NEW i \in Invocations, Halt(w, i)
        PROVE  CallsInv'
    BY <2>3, <1>t DEF Halt, Resolve, CallsTypeOK
  <2>4. CASE HaltEnd(w)
    BY <2>4, <1>t DEF HaltEnd, CallsTypeOK
  <2>5. QED
    BY <1>6, <2>1, <2>2, <2>3, <2>4 DEF Cleanup
<1>7. CASE UNCHANGED callsVars
  BY <1>7, <1>t DEF callsVars
<1>8. QED
  BY <1>1, <1>2, <1>3, <1>4, <1>5, <1>6, <1>7 DEF CallsNext

LEMMA CallsInvariance == CallsSpec => []CallsInv
<1>1. CallsInv /\ [CallsNext]_callsVars => CallsInv'
  BY CallsNextInv
<1>2. QED
  BY CallsInitInv, <1>1, PTL DEF CallsSpec

-----------------------------------------------------------------------------
\* handle_invocation, the results and the cleanups keep the table exact: a caller waits
\* as long as the table has its entry, and no longer.
THEOREM RecordedWaitsHolds == CallsSpec => []RecordedWaits
<1>1. CallsInv => RecordedWaits
  BY DEF CallsInv, Waiting, RecordedWaits
<1>2. QED
  BY <1>1, CallsInvariance, PTL

\* A caller outlasts the answer or the cleanup of its runner only if that began before
\* handle_invocation inserted it.
THEOREM HangNeedsRaceHolds == CallsSpec => []HangNeedsRace
<1>1. CallsInv => HangNeedsRace
  BY DEF CallsInv, EntryCovered, HangNeedsRace, CallsTypeOK
<1>2. QED
  BY <1>1, CallsInvariance, PTL

\* cleanup_worker stops no invocation of two connected workers.
THEOREM StoppedMeansGoneHolds == CallsSpec => []StoppedMeansGone
<1>1. CallsInv => StoppedMeansGone
  BY DEF CallsInv
<1>2. QED
  BY <1>1, CallsInvariance, PTL

\* The ids remove_invocation has to forget are forgotten, but for the raced.
THEOREM NotedInFlightHolds == CallsSpec => []NotedInFlight
<1>1. CallsInv => NotedInFlight
  BY DEF CallsInv
<1>2. QED
  BY <1>1, CallsInvariance, PTL
=============================================================================
