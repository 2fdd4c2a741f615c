------------------------------ MODULE JobQueue ------------------------------
(***************************************************************************)
(* One queue of BuiltinQueue (engine/src/builtins/queue.rs) and the        *)
(* methods its callers run on it.  The queue lives in a key-value store    *)
(* (queue_kv.rs, kv.rs): a job record per job and, per queue, the lists    *)
(* "waiting", "active" and "dlq" and the sorted set "delayed", each of     *)
(* which holds job ids.  Every store operation takes a lock of its own, so *)
(* it is one step here; a method is the sequence of its store operations,  *)
(* and the steps of different callers interleave.                          *)
(*                                                                         *)
(* A caller is a client of the queue API, a poll loop started by           *)
(* subscribe, or a task such a loop spawned to run a handler.  call[c] is  *)
(* the method caller c is in the middle of and its local variables.        *)
(***************************************************************************)
EXTENDS Integers, Sequences

CONSTANTS
  Jobs,         \* job ids (a fresh UUID per push)
  NoJob,        \* the job of a caller that holds none
  Clients,      \* callers of push, push_delayed and the DLQ methods
  Pollers,      \* poll loops, one per subscription
  Permits,      \* permits of the semaphore each poll loop owns
  MaxAttempts   \* max_attempts of every job (0 behaves as 1)

ASSUME NoJobAssumption == NoJob \notin Jobs
ASSUME MaxAttemptsAssumption == MaxAttempts \in Nat \ {0}
ASSUME CallerAssumption ==
  /\ Clients \cap Pollers = {}
  /\ (Clients \cup Pollers) \cap (Pollers \X Permits) = {}

\* The handler task that runs under permit k of poll loop p is <<p, k>>.
Tasks == Pollers \X Permits
Callers == Clients \cup Pollers \cup Tasks

VARIABLES
  waiting,   \* list of ids, newest first: lpush at the head, rpop at the end
  active,    \* active[j]: copies of j in the active list (its order is unused)
  delayed,   \* delayed[j]: "none", or in the sorted set and "later" or "due"
  dlq,       \* dlq[j]: entries of j in the dead-letter list
  record,    \* record[j]: attempts_made in the stored job, or Absent
  call,      \* the method each caller is executing
  ready,     \* ready[p]: ids move_delayed_to_waiting read and has yet to move
  \* History: what became of each job, for the properties only.
  fate,      \* "new", "live", "acked", "discarded", "lost" or "stranded"
  failures,  \* handler failures since the job was pushed or redriven
  raced      \* jobs redriven while move_to_dlq had yet to delete their record

store == <<waiting, active, delayed, dlq, record>>
history == <<fate, failures, raced>>
queueVars == <<store, call, ready, history>>

Absent == -1
Call(pc, j, tries) == [pc |-> pc, job |-> j, tries |-> tries]
Idle == Call("idle", NoJob, 0)

At(c, pc) == call[c].pc = pc
Begin(c, pc, j) == call' = [call EXCEPT ![c] = Call(pc, j, 0)]
Goto(c, pc) == call' = [call EXCEPT ![c] = Call(pc, call[c].job, call[c].tries)]
Return(c) == call' = [call EXCEPT ![c] = Idle]

InWaiting(j) == \E i \in DOMAIN waiting : waiting[i] = j

\* Job: increment_attempts and is_exhausted.
Uncounted(n) == n
CountedDown(n) == n - 1
IncrementAttempts(n) == n + 1
OneMore(n) == n > MaxAttempts
IsExhausted(n) == n >= MaxAttempts

(***************************************************************************)
(* Store operations (QueueKvStore and BuiltinKvStore), one step each.  A   *)
(* variant just above a definition is a mistake the properties must catch. *)
(***************************************************************************)
LPushAtEnd(j) == waiting' = Append(waiting, j)
LPush(j) == waiting' = <<j>> \o waiting
RPushNothing(j) == UNCHANGED waiting
RPush(j) == waiting' = Append(waiting, j)
RPopPeek == UNCHANGED waiting
RPop == waiting' = SubSeq(waiting, 1, Len(waiting) - 1)
LPushActive(j) == active' = [active EXCEPT ![j] = @ + 1]
LRemActiveAll(j) == active' = [active EXCEPT ![j] = 0]
LRemActive(j) == active' = [active EXCEPT ![j] = IF @ > 0 THEN @ - 1 ELSE @]
ZAddNothing(j) == UNCHANGED delayed
ZAdd(j) == delayed' = [delayed EXCEPT ![j] = "later"]
ZRem(j) == delayed' = [delayed EXCEPT ![j] = "none"]
AlwaysRemoved(j) == TRUE
ZRemRemoves(j) == delayed[j] # "none"   \* what zrem returns
LPushDlq(j) == dlq' = [dlq EXCEPT ![j] = @ + 1]
PeekDlq(j) == dlq[j] > 0 /\ UNCHANGED dlq
TakeDlq(j) == dlq[j] > 0 /\ dlq' = [dlq EXCEPT ![j] = @ - 1]
SetJob(j, attempts) == record' = [record EXCEPT ![j] = attempts]
DeleteJob(j) == record' = [record EXCEPT ![j] = Absent]

QueueInit ==
  /\ waiting = << >>
  /\ active = [j \in Jobs |-> 0]
  /\ delayed = [j \in Jobs |-> "none"]
  /\ dlq = [j \in Jobs |-> 0]
  /\ record = [j \in Jobs |-> Absent]
  /\ call = [c \in Callers |-> Idle]
  /\ ready = [p \in Pollers |-> {}]
  /\ fate = [j \in Jobs |-> "new"]
  /\ failures = [j \in Jobs |-> 0]
  /\ raced = {}

\* The token of job j leaves the system: it is settled, or gone for good.
Settle(j, how) == fate' = [fate EXCEPT ![j] = how]

-----------------------------------------------------------------------------
(***************************************************************************)
(* push, push_fifo, push_job and push_delayed: store the record, then list *)
(* the id.                                                                 *)
(***************************************************************************)
PushRecord(c, j, pc) ==
  /\ At(c, "idle")
  /\ fate[j] = "new"
  /\ pc \in {"push.list", "push.delay"}
  /\ SetJob(j, 0)
  /\ Begin(c, pc, j)
  /\ Settle(j, "live")
  /\ UNCHANGED <<waiting, active, delayed, dlq, ready, failures, raced>>

PushList(c) ==
  /\ At(c, "push.list")
  /\ LPush(call[c].job)
  /\ Return(c)
  /\ UNCHANGED <<active, delayed, dlq, record, ready, history>>

PushDelay(c) ==
  /\ At(c, "push.delay")
  /\ ZAdd(call[c].job)
  /\ Return(c)
  /\ UNCHANGED <<waiting, active, dlq, record, ready, history>>

(***************************************************************************)
(* dlq_redrive takes the entries one after the other, dlq_redrive_message  *)
(* one of them; both then store the record with attempts_made = 0 and list *)
(* the id as a push does.  Which entry comes first is abstracted.          *)
(***************************************************************************)
RedriveTake(c, j) ==
  /\ At(c, "idle")
  /\ TakeDlq(j)
  /\ Begin(c, "redrive.set", j)
  /\ raced' = raced \cup {k \in {j} : \E d \in Callers : At(d, "dlq.delete") /\ call[d].job = k}
  /\ UNCHANGED <<waiting, active, delayed, record, ready, fate, failures>>

RedriveNoRecord(c) ==
  /\ At(c, "redrive.set")
  /\ Goto(c, "push.list")
  /\ UNCHANGED <<store, ready, history>>

RedriveSet(c) ==
  /\ At(c, "redrive.set")
  /\ SetJob(call[c].job, 0)
  /\ failures' = [failures EXCEPT ![call[c].job] = 0]
  /\ Goto(c, "push.list")
  /\ UNCHANGED <<waiting, active, delayed, dlq, ready, fate, raced>>

\* dlq_discard_message: take the entry, then delete the record.
DiscardTake(c, j) ==
  /\ At(c, "idle")
  /\ TakeDlq(j)
  /\ Begin(c, "discard.delete", j)
  /\ Settle(j, "discarded")
  /\ UNCHANGED <<waiting, active, delayed, record, ready, failures, raced>>

DiscardDelete(c) ==
  /\ At(c, "discard.delete")
  /\ DeleteJob(call[c].job)
  /\ Return(c)
  /\ UNCHANGED <<waiting, active, delayed, dlq, ready, history>>

-----------------------------------------------------------------------------
(***************************************************************************)
(* pop, at pc "poll".  It returns the job, at pc "popped", or None, when   *)
(* nothing waits but also when the id it already moved to active has no    *)
(* record; "after" is where the caller goes on with None.                  *)
(***************************************************************************)
PopEmpty(p, after) ==
  /\ At(p, "poll")
  /\ waiting = << >>
  /\ Begin(p, after, NoJob)
  /\ UNCHANGED <<store, ready, history>>

PopTake(p) ==
  /\ At(p, "poll")
  /\ waiting # << >>
  /\ Begin(p, "pop.activate", waiting[Len(waiting)])
  /\ RPop
  /\ UNCHANGED <<active, delayed, dlq, record, ready, history>>

PopActivate(p) ==
  /\ At(p, "pop.activate")
  /\ LPushActive(call[p].job)
  /\ Goto(p, "pop.read")
  /\ UNCHANGED <<waiting, delayed, dlq, record, ready, history>>

PopUnchecked(p) ==
  /\ At(p, "pop.read")
  /\ call' = [call EXCEPT ![p] = Call("popped", call[p].job, record[call[p].job])]
  /\ UNCHANGED <<store, ready, history>>

PopRead(p) ==
  /\ At(p, "pop.read")
  /\ record[call[p].job] # Absent
  /\ call' = [call EXCEPT ![p] = Call("popped", call[p].job, record[call[p].job])]
  /\ UNCHANGED <<store, ready, history>>

PopGhost(p, after) ==
  /\ At(p, "pop.read")
  /\ record[call[p].job] = Absent
  /\ Settle(call[p].job, "lost")
  /\ Begin(p, after, NoJob)
  /\ UNCHANGED <<store, ready, failures, raced>>

(***************************************************************************)
(* move_delayed_to_waiting: read the due ids, then for each remove it from *)
(* delayed and, if it was there, append it at the end pop takes from.      *)
(***************************************************************************)
MoveBegin(p) ==
  /\ At(p, "idle")
  /\ ready' = [ready EXCEPT ![p] = {j \in Jobs : delayed[j] = "due"}]
  /\ Goto(p, "move")
  /\ UNCHANGED <<store, history>>

MoveTake(p, j) ==
  /\ At(p, "move")
  /\ j \in ready[p]
  /\ ready' = [ready EXCEPT ![p] = @ \ {j}]
  /\ ZRemRemoves(j)
  /\ ZRem(j)
  /\ Begin(p, "move.list", j)
  /\ UNCHANGED <<waiting, active, dlq, record, history>>

MoveSkip(p, j) ==
  /\ At(p, "move")
  /\ j \in ready[p]
  /\ ready' = [ready EXCEPT ![p] = @ \ {j}]
  /\ ~ ZRemRemoves(j)
  /\ UNCHANGED <<store, call, history>>

MoveList(p) ==
  /\ At(p, "move.list")
  /\ RPush(call[p].job)
  /\ Begin(p, "move", NoJob)
  /\ UNCHANGED <<active, delayed, dlq, record, ready, history>>

MoveEnd(p) ==
  /\ At(p, "move")
  /\ ready[p] = {}
  /\ Goto(p, "poll")
  /\ UNCHANGED <<store, ready, history>>

Move(p) ==
  \/ MoveBegin(p)
  \/ \E j \in Jobs : MoveTake(p, j) \/ MoveSkip(p, j)
  \/ MoveList(p)
  \/ MoveEnd(p)

\* The clock passes the process_at of a delayed job.
BecomeDue(j) ==
  /\ delayed[j] = "later"
  /\ delayed' = [delayed EXCEPT ![j] = "due"]
  /\ UNCHANGED <<waiting, active, dlq, record, call, ready, history>>

-----------------------------------------------------------------------------
\* ack: remove the id from active, then delete the record.
AckRemove(c) ==
  /\ At(c, "ack.lrem")
  /\ LRemActive(call[c].job)
  /\ Goto(c, "ack.delete")
  /\ UNCHANGED <<waiting, delayed, dlq, record, ready, history>>

AckDelete(c) ==
  /\ At(c, "ack.delete")
  /\ DeleteJob(call[c].job)
  /\ Return(c)
  /\ UNCHANGED <<waiting, active, delayed, dlq, ready, history>>

(***************************************************************************)
(* nack: read the record and count the attempt; without a record only the  *)
(* active entry goes.  An exhausted job goes to the dead-letter list       *)
(* (move_to_dlq), any other is stored with its count and delayed.          *)
(***************************************************************************)
NackGet(c) ==
  LET j == call[c].job
      attempts == IncrementAttempts(record[j])
      next == IF record[j] = Absent THEN "nack.gone"
              ELSE IF IsExhausted(attempts) THEN "dlq.lrem" ELSE "retry.lrem"
  IN /\ At(c, "nack.get")
     /\ call' = [call EXCEPT ![c] = Call(next, j, attempts)]
     /\ UNCHANGED <<store, ready, history>>

NackGone(c) ==
  /\ At(c, "nack.gone")
  /\ LRemActive(call[c].job)
  /\ Settle(call[c].job, "lost")
  /\ Return(c)
  /\ UNCHANGED <<waiting, delayed, dlq, record, ready, failures, raced>>

RetryRemove(c) ==
  /\ At(c, "retry.lrem")
  /\ LRemActive(call[c].job)
  /\ Goto(c, "retry.set")
  /\ UNCHANGED <<waiting, delayed, dlq, record, ready, history>>

RetrySet(c) ==
  /\ At(c, "retry.set")
  /\ SetJob(call[c].job, call[c].tries)
  /\ Goto(c, "retry.delay")
  /\ UNCHANGED <<waiting, active, delayed, dlq, ready, history>>

RetryDelay(c) ==
  /\ At(c, "retry.delay")
  /\ ZAdd(call[c].job)
  /\ Return(c)
  /\ UNCHANGED <<waiting, active, dlq, record, ready, history>>

DlqRemove(c) ==
  /\ At(c, "dlq.lrem")
  /\ LRemActive(call[c].job)
  /\ Goto(c, "dlq.push")
  /\ UNCHANGED <<waiting, delayed, dlq, record, ready, history>>

DlqPush(c) ==
  /\ At(c, "dlq.push")
  /\ LPushDlq(call[c].job)
  /\ Goto(c, "dlq.delete")
  /\ UNCHANGED <<waiting, active, delayed, record, ready, history>>

DlqDelete(c) ==
  /\ At(c, "dlq.delete")
  /\ DeleteJob(call[c].job)
  /\ Return(c)
  /\ UNCHANGED <<waiting, active, delayed, dlq, ready, history>>

MoveToDlq(c) == DlqRemove(c) \/ DlqPush(c) \/ DlqDelete(c)
Ack(c) == AckRemove(c) \/ AckDelete(c)
Nack(c) ==
  \/ NackGet(c) \/ NackGone(c)
  \/ RetryRemove(c) \/ RetrySet(c) \/ RetryDelay(c)
  \/ MoveToDlq(c)

ClientStep(c) ==
  \/ \E j \in Jobs, pc \in {"push.list", "push.delay"} : PushRecord(c, j, pc)
  \/ PushList(c) \/ PushDelay(c)
  \/ \E j \in Jobs : RedriveTake(c, j) \/ DiscardTake(c, j)
  \/ RedriveSet(c) \/ DiscardDelete(c)

-----------------------------------------------------------------------------
\* The steps at which a caller is the one place that still knows the job.
HoldPCs ==
  {"push.list", "push.delay", "redrive.set", "move.list", "pop.activate",
   "pop.read", "popped", "handling", "backoff", "nack.get", "nack.gone",
   "retry.lrem", "retry.set", "retry.delay", "dlq.lrem", "dlq.push"}

\* The steps at which a caller answers for one entry of the active list.
ActivePCs ==
  {"pop.read", "popped", "requeue.lrem", "handling", "backoff", "ack.lrem",
   "nack.get", "nack.gone", "retry.lrem", "dlq.lrem"}

MethodPCs ==
  HoldPCs \cup ActivePCs \cup
  {"idle", "move", "poll", "requeue", "send", "serving", "ack.delete", "dlq.delete",
   "discard.delete"}

Holds(c, j) == call[c].job = j /\ call[c].pc \in HoldPCs

\* Everywhere job j can be found by whoever has to process it next.
Places(j) ==
  {<<"waiting">> : i \in {i \in DOMAIN waiting : waiting[i] = j}}
  \cup {<<"delayed">> : i \in {k \in {j} : delayed[k] # "none"}}
  \cup {<<"dlq">> : i \in {k \in {j} : dlq[k] > 0}}
  \cup {<<"call", c>> : c \in {d \in Callers : Holds(d, j)}}

QueueTypeOK ==
  /\ waiting \in Seq(Jobs)
  /\ active \in [Jobs -> Nat]
  /\ delayed \in [Jobs -> {"none", "later", "due"}]
  /\ dlq \in [Jobs -> Nat]
  /\ record \in [Jobs -> Nat \cup {Absent}]
  /\ call \in [Callers -> [pc : MethodPCs, job : Jobs \cup {NoJob}, tries : Nat]]
  /\ \A c \in Callers : call[c].pc \in HoldPCs \cup ActivePCs => call[c].job \in Jobs
  /\ ready \in [Pollers -> SUBSET Jobs]
  /\ fate \in [Jobs -> {"new", "live", "acked", "discarded", "lost", "stranded"}]
  /\ failures \in [Jobs -> Nat]
  /\ raced \subseteq Jobs
=============================================================================
