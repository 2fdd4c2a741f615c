------------------------- MODULE FunctionOwnership -------------------------
(***************************************************************************)
(* Registration of functions by connected workers (engine/mod.rs): several *)
(* connections may register the same function id, above all when a worker  *)
(* restarts and its new connection is up before the old one is cleaned up. *)
(* The owner maps say whose registration counts.                           *)
(*                                                                         *)
(* Each connection handles its messages one at a time in its read loop and *)
(* is cleaned up by the same task, so task[w] is where it is in the middle *)
(* of a RegisterFunction, an UnregisterFunction or its cleanup.  A step is *)
(* one operation on a concurrent map; steps of different connections       *)
(* interleave.  A connection's id is fresh, so none comes back.            *)
(***************************************************************************)
EXTENDS Connections

CONSTANTS
  NoWorker,     \* the absence of one
  Functions,    \* function ids
  NoFunction,   \* the function of a connection that is between two messages
  Services,     \* service names
  ServiceOf     \* ServiceOf[f]: the part of id f before its first "::"

ASSUME NoWorkerAssumption == NoWorker \notin Workers
ASSUME NoFunctionAssumption == NoFunction \notin Functions
ASSUME ServiceAssumption == ServiceOf \in [Functions -> Services]

\* A function is served by the worker itself, or by HTTP ("external").
Kinds == {"regular", "external"}
OtherKind(k) == IF k = "regular" THEN "external" ELSE "regular"

VARIABLES
  functions,   \* functions[f]: whose handler of which kind is registered
  http,        \* the ids http_functions has a configuration of
  owner,       \* owner[k][f]: function_owners and external_function_owners
  ids,         \* ids[w][k]: the ids connection w has registered
  services,    \* names in the service registry
  listed,      \* functions listed in their service
  state,       \* state[w]: "up", "closing" (in cleanup_worker) or "gone"
  task,        \* task[w]: the step w is at, of which function and kind
  \* History, for the properties only.
  disturbed,   \* functions whose last claim did not go undisturbed
  contended    \* services whose listing two connections changed at once

registry == <<functions, http, owner>>
listing == <<services, listed>>
history == <<disturbed, contended>>
vars == <<registry, ids, listing, state, task, history>>

Handler(w, k) == [by |-> w, kind |-> k]
NoHandler == Handler(NoWorker, "regular")
Task(pc, f, k) == [pc |-> pc, f |-> f, kind |-> k]
Idle == Task("idle", NoFunction, "regular")

At(w, pc) == task[w].pc = pc
Begin(w, pc, f, k) == task' = [task EXCEPT ![w] = Task(pc, f, k)]
Goto(w, pc) == task' = [task EXCEPT ![w].pc = pc]
Done(w) == task' = [task EXCEPT ![w] = Idle]

Busy(w, f) == ~ At(w, "idle") /\ task[w].f = f

Init ==
  /\ functions = [f \in Functions |-> NoHandler]
  /\ http = {}
  /\ owner = [k \in Kinds |-> [f \in Functions |-> NoWorker]]
  /\ ids = [w \in Workers |-> [k \in Kinds |-> {}]]
  /\ services = {}
  /\ listed = {}
  /\ state = [w \in Workers |-> "up"]
  /\ task = [w \in Workers |-> Idle]
  /\ disturbed = {}
  /\ contended = {}

-----------------------------------------------------------------------------
(* The owner maps.  remove_if compares and removes in one step.            *)

AnyOwner(w, k, f) == TRUE
IsOwner(w, k, f) == owner[k][f] = w
NotDisowned(w, k, f) == UNCHANGED owner
Disown(w, k, f) == owner' = IF IsOwner(w, k, f) THEN [owner EXCEPT ![k][f] = NoWorker] ELSE owner

IncludeNothing(w, k, f) == UNCHANGED ids
Include(w, k, f) == ids' = [ids EXCEPT ![w][k] = @ \cup {f}]
Exclude(w, k, f) == ids' = [ids EXCEPT ![w][k] = @ \ {f}]

-----------------------------------------------------------------------------
(* The service registry: the steps that change it are short pieces of code *)
(* with no await, which several threads may still run at once.             *)

Listing == {"service", "create", "list", "unlist", "drop"}
InService(s) == {f \in Functions : ServiceOf[f] = s}

NoteContention(w) ==
  contended' = IF \E v \in Workers \ {w} :
                    /\ task[v].pc \in Listing
                    /\ ServiceOf[task[v].f] = ServiceOf[task[w].f]
               THEN contended \cup {ServiceOf[task[w].f]} ELSE contended

\* register_service_from_function_id: a service is made unless there is one.
FindService(w) ==
  /\ At(w, "service")
  /\ Goto(w, IF ServiceOf[task[w].f] \in services THEN "list" ELSE "create")
  /\ UNCHANGED listing

\* insert_service replaces whatever service has the name by an empty one.
CreateService(w) ==
  /\ At(w, "create")
  /\ services' = services \cup {ServiceOf[task[w].f]}
  /\ listed' = listed \ InService(ServiceOf[task[w].f])
  /\ Goto(w, "list")

ListIn(f) == IF ServiceOf[f] \in services THEN listed \cup {f} ELSE listed

ListFunction(w) ==
  /\ At(w, "list")
  /\ listed' = ListIn(task[w].f)
  /\ Goto(w, "install")
  /\ UNCHANGED services

\* The cleanup of an external function goes on to release it; whoever is done
\* with a function goes back to the read loop or the loop over the ids.
AfterUnlist(w) ==
  IF state[w] = "closing" /\ task[w].kind = "external" THEN Goto(w, "release") ELSE Done(w)

\* remove_function_from_services: the function goes under the service's lock, the
\* emptied service in a second operation.
LeavesAny(f) == TRUE
LeavesEmpty(f) == listed \cap InService(ServiceOf[f]) \subseteq {f}

UnlistFunction(w) ==
  LET f == task[w].f
  IN /\ At(w, "unlist")
     /\ listed' = listed \ {f}
     /\ IF ServiceOf[f] \in services /\ LeavesEmpty(f) THEN Goto(w, "drop") ELSE AfterUnlist(w)
     /\ UNCHANGED services

DropService(w) ==
  /\ At(w, "drop")
  /\ services' = services \ {ServiceOf[task[w].f]}
  /\ listed' = listed \ InService(ServiceOf[task[w].f])
  /\ AfterUnlist(w)

ListingStep(w) ==
  /\ FindService(w) \/ CreateService(w) \/ ListFunction(w) \/ UnlistFunction(w) \/ DropService(w)
  /\ NoteContention(w)
  /\ UNCHANGED <<registry, ids, state, disturbed>>

-----------------------------------------------------------------------------
(* RegisterFunction: claim, list, install the handler, remember the id.    *)

\* A claim is disturbed by another connection in the middle of registering or
\* removing the function, and by an owner of the other kind.
Disturbs(w, k, f) ==
  \/ owner[OtherKind(k)][f] # NoWorker
  \/ \E v \in Workers \ {w} : Busy(v, f)

\* The claim comes first and takes ownership from whoever has it.
Claim(w, k, f) ==
  /\ state[w] = "up"
  /\ At(w, "idle")
  /\ owner' = [owner EXCEPT ![k][f] = w]
  /\ Begin(w, "service", f, k)
  /\ disturbed' = IF Disturbs(w, k, f) THEN disturbed \cup {f} ELSE disturbed \ {f}
  /\ UNCHANGED <<functions, http, ids, listing, state, contended>>

\* register_function inserts the handler.  The worker's own set of ids is read
\* by its own task only, so that inserting the id needs no step of its own.
Install(w) ==
  LET f == task[w].f
      k == task[w].kind
  IN /\ At(w, "install")
     /\ functions' = [functions EXCEPT ![f] = Handler(w, k)]
     /\ IF k = "regular" THEN Include(w, k, f) /\ Done(w)
                         ELSE Goto(w, "configure") /\ UNCHANGED ids
     /\ UNCHANGED <<http, owner, listing, state, history>>

Configure(w) ==
  /\ At(w, "configure")
  /\ http' = http \cup {task[w].f}
  /\ Include(w, "external", task[w].f)
  /\ Done(w)
  /\ UNCHANGED <<functions, owner, listing, state, history>>

\* register_http_function refuses the URL or its authentication, or the HTTP
\* module is not loaded: ownership is released, and what an earlier
\* registration installed stays, now with no owner.
RegisterFails(w) ==
  LET f == task[w].f
  IN /\ At(w, "install")
     /\ task[w].kind = "external"
     /\ Disown(w, "external", f)
     /\ disturbed' = IF functions[f] # NoHandler THEN disturbed \cup {f} ELSE disturbed
     /\ Done(w)
     /\ UNCHANGED <<functions, http, ids, listing, state, contended>>

-----------------------------------------------------------------------------
(* UnregisterFunction.                                                     *)

\* The id leaves the connection's set; the rest only happens for its owner.
UnregisterKind(w, k, f, pc) ==
  /\ Exclude(w, k, f)
  /\ Disown(w, k, f)
  /\ IF IsOwner(w, k, f) THEN Begin(w, pc, f, k) ELSE UNCHANGED task

\* An id registered in both ways is unregistered as external only.
Unregister(w, f) ==
  /\ state[w] = "up"
  /\ At(w, "idle")
  /\ IF f \in ids[w]["external"] THEN UnregisterKind(w, "external", f, "unconfigure")
                                 ELSE UnregisterKind(w, "regular", f, "remove")
  /\ UNCHANGED <<functions, http, listing, state, history>>

\* unregister_http_function, and the removal of the handler.
Unconfigure(w) ==
  /\ At(w, "unconfigure")
  /\ http' = http \ {task[w].f}
  /\ Goto(w, "remove")
  /\ UNCHANGED <<functions, owner, ids, listing, state, history>>

\* Cleanup looks at the owner of an external function again before the listing.
Remove(w) ==
  LET f == task[w].f
      k == task[w].kind
  IN /\ At(w, "remove")
     /\ functions' = [functions EXCEPT ![f] = NoHandler]
     /\ Goto(w, IF state[w] = "closing" /\ k = "external" THEN "recheck" ELSE "unlist")
     /\ UNCHANGED <<http, owner, ids, listing, state, history>>

-----------------------------------------------------------------------------
(* cleanup_worker, with ids[w] as the ids its loops have still to visit.   *)

Disconnect(w) ==
  /\ state[w] = "up"
  /\ At(w, "idle")
  /\ state' = [state EXCEPT ![w] = "closing"]
  /\ UNCHANGED <<registry, ids, listing, task, history>>

CleanRegular(w, f) ==
  /\ state[w] = "closing"
  /\ At(w, "idle")
  /\ f \in ids[w]["regular"]
  /\ UnregisterKind(w, "regular", f, "remove")
  /\ UNCHANGED <<functions, http, listing, state, history>>

\* An external function keeps its owner until all of it is torn down.
CleanExternal(w, f) ==
  /\ state[w] = "closing"
  /\ At(w, "idle")
  /\ ids[w]["regular"] = {}
  /\ f \in ids[w]["external"]
  /\ Exclude(w, "external", f)
  /\ IF IsOwner(w, "external", f) THEN Begin(w, "unconfigure", f, "external") ELSE UNCHANGED task
  /\ UNCHANGED <<registry, listing, state, history>>

Recheck(w) ==
  /\ At(w, "recheck")
  /\ Goto(w, IF IsOwner(w, "external", task[w].f) THEN "unlist" ELSE "release")
  /\ UNCHANGED <<registry, ids, listing, state, history>>

ReleaseExternal(w) ==
  /\ At(w, "release")
  /\ Disown(w, "external", task[w].f)
  /\ Done(w)
  /\ UNCHANGED <<functions, http, ids, listing, state, history>>

Gone(w) ==
  /\ state[w] = "closing"
  /\ At(w, "idle")
  /\ \A k \in Kinds : ids[w][k] = {}
  /\ state' = [state EXCEPT ![w] = "gone"]
  /\ UNCHANGED <<registry, ids, listing, task, history>>

Next ==
  \E w \in Workers :
    \/ ListingStep(w)
    \/ \E k \in Kinds, f \in Functions : Claim(w, k, f)
    \/ Install(w) \/ Configure(w) \/ RegisterFails(w)
    \/ \E f \in Functions : Unregister(w, f) \/ CleanRegular(w, f) \/ CleanExternal(w, f)
    \/ Unconfigure(w) \/ Remove(w)
    \/ Recheck(w) \/ ReleaseExternal(w)
    \/ Disconnect(w) \/ Gone(w)

Spec == Init /\ [][Next]_vars

-----------------------------------------------------------------------------
\* Every variable stays in its range; only a service that is there has names;
\* and a connection that is at a step of a message knows the function.
PCs == Listing \cup {"idle", "install", "configure", "unconfigure", "remove", "recheck", "release"}
TypeOK ==
  /\ functions \in [Functions -> [by : Workers \cup {NoWorker}, kind : Kinds]]
  /\ http \in SUBSET Functions
  /\ owner \in [Kinds -> [Functions -> Workers \cup {NoWorker}]]
  /\ ids \in [Workers -> [Kinds -> SUBSET Functions]]
  /\ services \in SUBSET Services
  /\ listed \in SUBSET {f \in Functions : ServiceOf[f] \in services}
  /\ state \in [Workers -> {"up", "closing", "gone"}]
  /\ task \in [Workers -> [pc : PCs, f : Functions \cup {NoFunction}, kind : Kinds]]
  /\ \A w \in Workers : ~ At(w, "idle") => task[w].f \in Functions
  /\ disturbed \in SUBSET Functions
  /\ contended \in SUBSET Services

\* What cleanup and unregister owe each other's owners: a function whose owner
\* is not at work on it is served by that owner and in the way it registered it,
\* whatever other connections that registered it before do, in their cleanup
\* too.  Excepted is a function whose last claim was disturbed: the window between remove_if
\* and remove_function_from_engine is one such, a change of kind another.  The
\* next undisturbed claim repairs it.
OwnerServes ==
  \A f \in Functions \ disturbed, k \in Kinds, w \in Workers :
    IsOwner(w, k, f) /\ ~ Busy(w, f) =>
      /\ functions[f] = Handler(w, k)
      /\ k = "external" => f \in http

\* A connection that is gone owns nothing, however its claims were disturbed or
\* failed: the owner maps cannot fill up with connections that are no more, nor
\* keep an in-process worker from removing its own registration.
GoneOwnsNothing ==
  \A w \in Workers : state[w] = "gone" =>
    \A k \in Kinds, f \in Functions : ~ IsOwner(w, k, f)

\* "its Functions ... are removed" (docs/next/understanding-iii/engine.mdx, on a
\* worker that disconnects): no call is routed to a connection that is gone,
\* except for functions that another is about to replace, or whose last claim
\* was disturbed or failed.
GoneServesNothing ==
  \A w \in Workers, f \in Functions \ disturbed :
    state[w] = "gone" => functions[f].by # w \/ \E v \in Workers : Busy(v, f)

\* A function served by its owner is listed in its service, though another
\* connection may unlist the service's last function meanwhile, unless two
\* connections were in the service's listing at once.
OwnedIsListed ==
  \A f \in Functions \ disturbed, k \in Kinds, w \in Workers :
    IsOwner(w, k, f) /\ ~ Busy(w, f) => f \in listed \/ ServiceOf[f] \in contended
=============================================================================
