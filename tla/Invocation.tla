----------------------------- MODULE Invocation -----------------------------
(***************************************************************************)
(* How the engine invokes a function of a worker and answers the caller:   *)
(* remember_invocation and handle_invocation, the InvocationResult message *)
(* of router_msg and the end of cleanup_worker (engine/mod.rs, invocation/ *)
(* mod.rs), and the handler of a worker connection (worker_connections/    *)
(* traits.rs).                                                             *)
(*                                                                         *)
(* An invocation is noted in the set of its calling worker, sent through   *)
(* the channel of the worker that runs it, noted in the set of that one,   *)
(* and only then recorded in the table from which the result, or the       *)
(* cleanup of either worker, answers it.  Once answered, it leaves the     *)
(* caller's set.  Each set has a lock, which the cleanup of its worker     *)
(* holds to the end; the table's entries have their own.                   *)
(***************************************************************************)
EXTENDS Connections

CONSTANTS
  Invocations,   \* invocation ids
  Engine         \* the caller of an invocation that no worker waits for: the
                 \* engine's own calls, and the void calls of workers

ASSUME EngineAssumption == Engine \notin Workers

VARIABLES
  conn,       \* conn[w]: "up", "closed", "halting" (in cleanup) or "cleaned"
  writer,     \* writer[w]: its writer task lives, so that its channel takes messages
  noted,      \* noted[w]: the worker's own set of invocation ids
  toHalt,     \* toHalt[w]: ids cleanup_worker has yet to halt
  recorded,   \* the table: invocations the handler can still answer
  pc,         \* pc[i]: where handle_invocation of i is
  caller,     \* caller[i] and runner[i]: who calls i and who runs it
  runner,
  reply,      \* reply[i]: "none", "handling" (the id is out of noted) or "done"
  outcome,    \* outcome[i]: what the caller got, or "none"
  raced       \* history: invocations whose runner answered, or was cleaned up,
              \* before they were recorded

callsVars == <<conn, writer, noted, toHalt, recorded, pc, caller, runner, reply, outcome, raced>>
links == <<conn, writer, toHalt>>
ends == <<caller, runner>>

\* Between the lookup of the function and the insertion in the table.
Unrecorded(i) == pc[i] \in {"add", "send", "note", "record"}
Locked(w) == conn[w] = "halting"

CallsInit ==
  /\ conn = [w \in Workers |-> "up"]
  /\ writer = [w \in Workers |-> TRUE]
  /\ noted = [w \in Workers |-> {}]
  /\ toHalt = [w \in Workers |-> {}]
  /\ recorded = {}
  /\ pc = [i \in Invocations |-> "new"]
  /\ caller = [i \in Invocations |-> Engine]
  /\ runner \in [Invocations -> Workers]
  /\ reply = [i \in Invocations |-> "none"]
  /\ outcome = [i \in Invocations |-> "none"]
  /\ raced = {}

Advance(i, from, to) == pc[i] = from /\ pc' = [pc EXCEPT ![i] = to]

-----------------------------------------------------------------------------
\* The task of the call finds the function, whatever has become of the caller's
\* connection since it sent the call: the handler is the connection that registered it,
\* whose functions cleanup removes before it halts invocations.
Lookup(i, c) ==
  /\ conn[runner[i]] \in {"up", "closed"}
  /\ Advance(i, "new", IF c = Engine THEN "send" ELSE "add")
  /\ caller' = [caller EXCEPT ![i] = c]
  /\ UNCHANGED <<links, noted, recorded, runner, reply, outcome, raced>>

\* add_invocation on the caller's connection, before the engine handles the call.
AddToCaller(i) ==
  /\ Advance(i, "add", "send")
  /\ ~ Locked(caller[i])
  /\ noted' = [noted EXCEPT ![caller[i]] = @ \cup {i}]
  /\ UNCHANGED <<links, recorded, ends, reply, outcome, raced>>

Send(i) ==
  /\ writer[runner[i]]
  /\ Advance(i, "send", "note")
  /\ UNCHANGED <<links, noted, recorded, ends, reply, outcome, raced>>

\* channel_send_failed: the writer of the connection is gone.
SendFails(i) ==
  /\ ~ writer[runner[i]]
  /\ Advance(i, "send", "answered")
  /\ outcome' = [outcome EXCEPT ![i] = "failed"]
  /\ UNCHANGED <<links, noted, recorded, ends, reply, raced>>

NoteNothing(i) ==
  /\ Advance(i, "note", "record")
  /\ UNCHANGED <<links, noted, recorded, ends, reply, outcome, raced>>

Note(i) ==
  /\ Advance(i, "note", "record")
  /\ ~ Locked(runner[i])
  /\ noted' = [noted EXCEPT ![runner[i]] = @ \cup {i}]
  /\ UNCHANGED <<links, recorded, ends, reply, outcome, raced>>

\* FunctionResult::Deferred: the caller's sender goes into the table.
Record(i) ==
  /\ Advance(i, "record", "wait")
  /\ recorded' = recorded \cup {i}
  /\ UNCHANGED <<links, noted, ends, reply, outcome, raced>>

\* The answer goes out to the calling worker, which then forgets the id.
ForgetNothing(i) ==
  /\ Advance(i, "answered", "done")
  /\ UNCHANGED <<links, noted, recorded, ends, reply, outcome, raced>>

Forget(i) ==
  /\ Advance(i, "answered", "done")
  /\ caller[i] \in Workers => ~ Locked(caller[i])
  /\ noted' = [w \in Workers |-> IF w = caller[i] THEN noted[w] \ {i} ELSE noted[w]]
  /\ UNCHANGED <<links, recorded, ends, reply, outcome, raced>>

HandlerStep(i) ==
  AddToCaller(i) \/ Send(i) \/ SendFails(i) \/ Note(i) \/ Record(i) \/ Forget(i)

-----------------------------------------------------------------------------
\* remove: whoever takes the table's entry answers the caller, who then stops
\* waiting; without an entry the answer is dropped.
ResolveAnyway(i, how) ==
  /\ outcome' = [outcome EXCEPT ![i] = how]
  /\ pc' = [pc EXCEPT ![i] = "answered"]
  /\ UNCHANGED recorded

Resolve(i, how) ==
  /\ recorded' = recorded \ {i}
  /\ IF i \in recorded
     THEN outcome' = [outcome EXCEPT ![i] = how] /\ pc' = [pc EXCEPT ![i] = "answered"]
     ELSE UNCHANGED <<outcome, pc>>

\* InvocationResult arrives once the worker has the call; the connection's read
\* loop handles one message at a time.
ResultBegin(i) ==
  LET w == runner[i]
  IN /\ conn[w] = "up"
     /\ pc[i] \in {"note", "record", "wait", "answered", "done"}
     /\ outcome[i] # "failed"
     /\ reply[i] = "none"
     /\ \A k \in Invocations : runner[k] = w => reply[k] # "handling"
     /\ reply' = [reply EXCEPT ![i] = "handling"]
     /\ noted' = [noted EXCEPT ![w] = @ \ {i}]
     /\ raced' = IF Unrecorded(i) THEN raced \cup {i} ELSE raced
     /\ UNCHANGED <<links, recorded, pc, ends, outcome>>

ResultEnd(i) ==
  /\ reply[i] = "handling"
  /\ reply' = [reply EXCEPT ![i] = "done"]
  /\ Resolve(i, "result")
  /\ UNCHANGED <<links, noted, ends, raced>>

-----------------------------------------------------------------------------
\* The socket closes; the read loop is between messages, and aborts its writer.
Close(w) ==
  /\ conn[w] = "up"
  /\ \A i \in Invocations : runner[i] = w => reply[i] # "handling"
  /\ conn' = [conn EXCEPT ![w] = "closed"]
  /\ UNCHANGED <<writer, noted, toHalt, recorded, pc, ends, reply, outcome, raced>>

WriterStops(w) ==
  /\ writer[w]
  /\ conn[w] # "up"
  /\ writer' = [writer EXCEPT ![w] = FALSE]
  /\ UNCHANGED <<conn, noted, toHalt, recorded, pc, ends, reply, outcome, raced>>

\* cleanup_worker: with the functions gone, halt the invocations of the set.
HaltAll(w) ==
  /\ conn[w] = "closed"
  /\ conn' = [conn EXCEPT ![w] = "halting"]
  /\ toHalt' = [toHalt EXCEPT ![w] = recorded]
  /\ raced' = raced \cup {i \in Invocations : runner[i] = w /\ Unrecorded(i)}
  /\ UNCHANGED <<writer, noted, recorded, pc, ends, reply, outcome>>

HaltBegin(w) ==
  /\ conn[w] = "closed"
  /\ conn' = [conn EXCEPT ![w] = "halting"]
  /\ toHalt' = [toHalt EXCEPT ![w] = noted[w]]
  /\ raced' = raced \cup {i \in Invocations : runner[i] = w /\ Unrecorded(i)}
  /\ UNCHANGED <<writer, noted, recorded, pc, ends, reply, outcome>>

Halt(w, i) ==
  /\ i \in toHalt[w]
  /\ toHalt' = [toHalt EXCEPT ![w] = @ \ {i}]
  /\ Resolve(i, "stopped")
  /\ UNCHANGED <<conn, writer, noted, ends, reply, raced>>

HaltEnd(w) ==
  /\ conn[w] = "halting"
  /\ toHalt[w] = {}
  /\ conn' = [conn EXCEPT ![w] = "cleaned"]
  /\ UNCHANGED <<writer, noted, toHalt, recorded, pc, ends, reply, outcome, raced>>

Cleanup(w) ==
  WriterStops(w) \/ HaltBegin(w) \/ (\E i \in Invocations : Halt(w, i)) \/ HaltEnd(w)

CallsNext ==
  \/ \E i \in Invocations, c \in Workers \cup {Engine} : Lookup(i, c)
  \/ \E i \in Invocations : HandlerStep(i) \/ ResultBegin(i) \/ ResultEnd(i)
  \/ \E w \in Workers : Close(w) \/ Cleanup(w)

CallsSpec == CallsInit /\ [][CallsNext]_callsVars

\* Tasks keep running, and a worker either answers a call or disconnects.
Fairness ==
  /\ \A i \in Invocations :
       WF_callsVars(HandlerStep(i)) /\ WF_callsVars(ResultEnd(i)) /\ SF_callsVars(ResultBegin(i))
  /\ \A w \in Workers : WF_callsVars(Cleanup(w))

FairSpec == CallsSpec /\ Fairness

-----------------------------------------------------------------------------
\* Every variable stays in its range, and only a cleanup in progress has
\* invocations left to halt.
CallsTypeOK ==
  /\ conn \in [Workers -> {"up", "closed", "halting", "cleaned"}]
  /\ writer \in [Workers -> BOOLEAN]
  /\ noted \in [Workers -> SUBSET Invocations]
  /\ toHalt \in [Workers -> SUBSET Invocations]
  /\ \A w \in Workers : toHalt[w] # {} => conn[w] = "halting"
  /\ recorded \subseteq Invocations
  /\ pc \in [Invocations ->
       {"new", "add", "send", "note", "record", "wait", "answered", "done"}]
  /\ caller \in [Invocations -> Workers \cup {Engine}]
  /\ runner \in [Invocations -> Workers]
  /\ reply \in [Invocations -> {"none", "handling", "done"}]
  /\ outcome \in [Invocations -> {"none", "result", "stopped", "failed"}]
  /\ raced \subseteq Invocations

\* A caller waits exactly while the table has its entry: nothing answers twice,
\* leaves an entry behind, or drops the entry of a caller that waits.
RecordedWaits == \A i \in Invocations : i \in recorded <=> pc[i] = "wait" /\ outcome[i] = "none"

\* An invocation is stopped only when its caller or its runner disconnected,
\* though ids of others and of the answered are still in the sets then.
StoppedMeansGone ==
  \A i \in Invocations : outcome[i] = "stopped" =>
    conn[runner[i]] # "up" \/ (caller[i] \in Workers /\ conn[caller[i]] # "up")

\* A caller whose runner has answered or is gone still waits only when that
\* began between the lookup and the insertion in the table.
HangNeedsRace ==
  \A i \in Invocations :
    i \in recorded /\ (reply[i] = "done" \/ conn[runner[i]] = "cleaned") => i \in raced

\* The set of a worker holds no id of the past, unless its invocation was raced:
\* a caller's set only ids it still waits for, a runner's only ids it has to answer.
NotedInFlight ==
  \A w \in Workers : \A i \in noted[w] :
    \/ w = caller[i] /\ pc[i] # "done"
    \/ w = runner[i] /\ (reply[i] = "none" \/ i \in raced)

\* Every other invocation is answered in the end: with the result, or stopped
\* once a worker is gone.
Answered ==
  \A i \in Invocations : pc[i] = "send" ~> pc[i] = "done" \/ i \in raced
=============================================================================
