--------------------------- MODULE JobQueue_proofs ---------------------------
(***************************************************************************)
(* Lemmas about the store operations and the methods of JobQueue that the  *)
(* proofs about the queues built on it share: the types, and what a list   *)
(* of waiting jobs or a caller's hold on a job becomes.                    *)
(***************************************************************************)
EXTENDS JobQueue, SequenceTheorems, TLAPS

-----------------------------------------------------------------------------
(***************************************************************************)
(* Types: one lemma per method, one step per store operation.              *)
(***************************************************************************)
LEMMA QueueInitType == QueueInit => QueueTypeOK
  BY DEF QueueInit, QueueTypeOK, Idle, Call, Absent, HoldPCs, ActivePCs, MethodPCs

LEMMA ClientType ==
  ASSUME QueueTypeOK, NEW c \in Clients, ClientStep(c)
  PROVE  QueueTypeOK'
<1> USE DEF QueueTypeOK, At, Goto, Begin, Return, Idle, Call, Settle, Absent,
            HoldPCs, ActivePCs, MethodPCs, Callers, history, store
<1>1. ASSUME NEW j \in Jobs, NEW pc \in {"push.list", "push.delay"}, PushRecord(c, j, pc)
      PROVE  QueueTypeOK'
  BY <1>1 DEF PushRecord, SetJob
<1>2. CASE PushList(c)
  BY <1>2 DEF PushList, LPush
<1>3. CASE PushDelay(c)
  BY <1>3 DEF PushDelay, ZAdd
<1>4. ASSUME NEW j \in Jobs, RedriveTake(c, j)
      PROVE  QueueTypeOK'
  <2>1. dlq' \in [Jobs -> Nat]
    BY <1>4 DEF RedriveTake, TakeDlq
  <2>2. /\ call' \in [Callers -> [pc : MethodPCs, job : Jobs \cup {NoJob}, tries : Nat]]
        /\ \A d \in Callers : call'[d].pc \in HoldPCs \cup ActivePCs => call'[d].job \in Jobs
    BY <1>4 DEF RedriveTake
  <2>3. raced' \subseteq Jobs
    BY <1>4 DEF RedriveTake
  <2>4. QED
    BY <1>4, <2>1, <2>2, <2>3 DEF RedriveTake
<1>5. ASSUME NEW j \in Jobs, DiscardTake(c, j)
      PROVE  QueueTypeOK'
  BY <1>5 DEF DiscardTake, TakeDlq
<1>6. CASE RedriveSet(c)
  BY <1>6 DEF RedriveSet, SetJob
<1>7. CASE DiscardDelete(c)
  BY <1>7 DEF DiscardDelete, DeleteJob
<1>8. QED
  BY <1>1, <1>2, <1>3, <1>4, <1>5, <1>6, <1>7 DEF ClientStep

LEMMA MoveType ==
  ASSUME QueueTypeOK, NEW p \in Pollers, Move(p)
  PROVE  QueueTypeOK'
<1> USE DEF QueueTypeOK, At, Goto, Begin, Call, HoldPCs, ActivePCs, MethodPCs, Callers,
            history, store
<1>1. CASE MoveBegin(p)
  BY <1>1 DEF MoveBegin
<1>2. ASSUME NEW j \in Jobs, MoveTake(p, j)
      PROVE  QueueTypeOK'
  BY <1>2 DEF MoveTake, ZRem
<1>3. ASSUME NEW j \in Jobs, MoveSkip(p, j)
      PROVE  QueueTypeOK'
  BY <1>3 DEF MoveSkip
<1>4. CASE MoveList(p)
  BY <1>4 DEF MoveList, RPush
<1>5. CASE MoveEnd(p)
  BY <1>5 DEF MoveEnd
<1>6. QED
  BY <1>1, <1>2, <1>3, <1>4, <1>5 DEF Move

LEMMA PopType ==
  ASSUME QueueTypeOK, NEW p \in Pollers, NEW after \in {"idle", "requeue"},
         PopEmpty(p, after) \/ PopTake(p) \/ PopActivate(p) \/ PopRead(p) \/ PopGhost(p, after)
  PROVE  QueueTypeOK'
<1> USE DEF QueueTypeOK, At, Goto, Begin, Call, Settle, Absent, HoldPCs, ActivePCs, MethodPCs,
            Callers, history, store
<1>1. CASE PopEmpty(p, after)
  BY <1>1 DEF PopEmpty
<1>2. CASE PopTake(p)
  BY <1>2 DEF PopTake, RPop
<1>3. CASE PopActivate(p)
  BY <1>3 DEF PopActivate, LPushActive
<1>4. CASE PopRead(p)
  BY <1>4 DEF PopRead
<1>5. CASE PopGhost(p, after)
  BY <1>5 DEF PopGhost
<1>6. QED
  BY <1>1, <1>2, <1>3, <1>4, <1>5

LEMMA AckNackType ==
  ASSUME QueueTypeOK, NEW c \in Callers, Ack(c) \/ Nack(c)
  PROVE  QueueTypeOK'
<1> USE DEF QueueTypeOK, At, Goto, Return, Idle, Call, Settle, Absent, HoldPCs, ActivePCs,
            MethodPCs, history, store, LRemActive, SetJob, DeleteJob
<1>1. CASE AckRemove(c)
  BY <1>1 DEF AckRemove
<1>2. CASE AckDelete(c)
  BY <1>2 DEF AckDelete
<1>3. CASE NackGet(c)
  BY <1>3, MaxAttemptsAssumption DEF NackGet, IncrementAttempts, IsExhausted
<1>4. CASE NackGone(c)
  BY <1>4 DEF NackGone
<1>5. CASE RetryRemove(c)
  BY <1>5 DEF RetryRemove
<1>6. CASE RetrySet(c)
  BY <1>6 DEF RetrySet
<1>7. CASE RetryDelay(c)
  BY <1>7 DEF RetryDelay, ZAdd
<1>8. CASE DlqRemove(c)
  BY <1>8 DEF DlqRemove
<1>9. CASE DlqPush(c)
  BY <1>9 DEF DlqPush, LPushDlq
<1>10. CASE DlqDelete(c)
  BY <1>10 DEF DlqDelete
<1>11. QED
  BY <1>1, <1>2, <1>3, <1>4, <1>5, <1>6, <1>7, <1>8, <1>9, <1>10 DEF Ack, Nack, MoveToDlq

LEMMA BecomeDueType ==
  ASSUME QueueTypeOK, NEW j \in Jobs, BecomeDue(j)
  PROVE  QueueTypeOK'
  BY DEF BecomeDue, QueueTypeOK, history

\* A caller goes on, and nothing but the count of failures changes.
LEMMA CallType ==
  ASSUME QueueTypeOK, NEW c \in Callers, NEW pc \in MethodPCs, NEW j \in Jobs \cup {NoJob},
         NEW n \in Nat, pc \in HoldPCs \cup ActivePCs => j \in Jobs,
         call' = [call EXCEPT ![c] = Call(pc, j, n)],
         UNCHANGED <<store, ready, fate, raced>>, failures' \in [Jobs -> Nat]
  PROVE  QueueTypeOK'
<1>1. call' \in [Callers -> [pc : MethodPCs, job : Jobs \cup {NoJob}, tries : Nat]]
  BY DEF QueueTypeOK, Call
<1>2. \A d \in Callers : call'[d].pc \in HoldPCs \cup ActivePCs => call'[d].job \in Jobs
  BY DEF QueueTypeOK, Call
<1>3. QED
  BY <1>1, <1>2 DEF QueueTypeOK, store

LEMMA QueueKeptType ==
  ASSUME QueueTypeOK, UNCHANGED queueVars
  PROVE  QueueTypeOK'
  BY DEF QueueTypeOK, queueVars, history, store

-----------------------------------------------------------------------------
(***************************************************************************)
(* The waiting list, seen from one job: what a push at either end, and a   *)
(* pop, do to it.                                                          *)
(***************************************************************************)
Once(j) == \A i, k \in DOMAIN waiting : waiting[i] = j /\ waiting[k] = j => i = k

\* The step does not list, unlist or double job j.
WaitsAlike(j) == (InWaiting(j)' <=> InWaiting(j)) /\ (Once(j) => Once(j)')

LEMMA WaitingKept ==
  ASSUME UNCHANGED waiting
  PROVE  \A j \in Jobs : WaitsAlike(j)
  BY DEF WaitsAlike, InWaiting, Once

LEMMA PushedWaits ==
  ASSUME waiting \in Seq(Jobs), NEW i \in Jobs, LPush(i) \/ RPush(i), NEW j \in Jobs
  PROVE  /\ i # j => WaitsAlike(j)
         /\ i = j => InWaiting(j)' /\ (~ InWaiting(j) => Once(j)')
<1>1. CASE LPush(i)
  <2>1. /\ waiting' \in Seq(Jobs)
        /\ Len(waiting') = Len(waiting) + 1
        /\ waiting'[1] = i
        /\ \A k \in 1..Len(waiting) : waiting'[k + 1] = waiting[k]
    BY <1>1 DEF LPush
  <2>2. \A k \in 2..Len(waiting') : k - 1 \in 1..Len(waiting) /\ waiting'[k] = waiting[k - 1]
    BY <2>1
  <2>3. ASSUME i # j
        PROVE  InWaiting(j)' <=> InWaiting(j)
    <3>1. ASSUME NEW k \in 1..Len(waiting), waiting[k] = j
          PROVE  InWaiting(j)'
      <4>1. k + 1 \in 1..Len(waiting') /\ waiting'[k + 1] = j
        BY <2>1, <3>1
      <4>2. QED
        BY <2>1, <4>1 DEF InWaiting
    <3>2. ASSUME NEW k \in 1..Len(waiting'), waiting'[k] = j
          PROVE  InWaiting(j)
      <4>1. k \in 2..Len(waiting')
        BY <2>1, <2>3, <3>2
      <4>2. QED
        BY <2>2, <3>2, <4>1 DEF InWaiting
    <3>3. QED
      BY <2>1, <3>1, <3>2 DEF InWaiting
  <2>4. ASSUME i # j, Once(j), NEW k \in 1..Len(waiting'), NEW l \in 1..Len(waiting'),
               waiting'[k] = j, waiting'[l] = j
        PROVE  k = l
    <3>1. k \in 2..Len(waiting') /\ l \in 2..Len(waiting')
      BY <2>1, <2>4
    <3>2. k - 1 \in 1..Len(waiting) /\ l - 1 \in 1..Len(waiting)
          /\ waiting[k - 1] = j /\ waiting[l - 1] = j
      BY <2>2, <2>4, <3>1
    <3>3. k - 1 = l - 1
      BY <2>4, <3>2 DEF Once
    <3>4. QED
      BY <3>3
  <2>5. InWaiting(i)'
    BY <2>1 DEF InWaiting
  <2>6. ASSUME i = j, ~ InWaiting(j), NEW k \in 1..Len(waiting'), waiting'[k] = j
        PROVE  k = 1
    <3>1. ASSUME k # 1
          PROVE  FALSE
      <4>1. k - 1 \in 1..Len(waiting) /\ waiting[k - 1] = j
        BY <2>1, <2>2, <2>6, <3>1
      <4>2. QED
        BY <2>6, <4>1 DEF InWaiting
    <3>2. QED
      BY <3>1
  <2>7. i # j /\ Once(j) => Once(j)'
    BY <2>1, <2>4 DEF Once
  <2>8. i = j /\ ~ InWaiting(j) => Once(j)'
    BY <2>1, <2>6 DEF Once
  <2>9. QED
    BY <2>3, <2>5, <2>7, <2>8 DEF WaitsAlike
<1>2. CASE RPush(i)
  <2>1. /\ waiting' \in Seq(Jobs)
        /\ Len(waiting') = Len(waiting) + 1
        /\ waiting'[Len(waiting')] = i
        /\ \A k \in 1..Len(waiting) : waiting'[k] = waiting[k]
    BY <1>2 DEF RPush
  <2>2. \A k \in 1..Len(waiting') : k \in 1..Len(waiting) \/ k = Len(waiting')
    BY <2>1
  <2>3. InWaiting(j)' <=> InWaiting(j) \/ j = i
    BY <2>1, <2>2 DEF InWaiting
  <2>4. (i # j /\ Once(j)) \/ (i = j /\ ~ InWaiting(j)) => Once(j)'
    BY <2>1, <2>2 DEF Once, InWaiting
  <2>5. QED
    BY <2>3, <2>4 DEF WaitsAlike
<1>3. QED
  BY <1>1, <1>2

LEMMA PoppedLeaves ==
  ASSUME waiting \in Seq(Jobs), waiting # << >>, RPop, NEW j \in Jobs
  PROVE  /\ waiting[Len(waiting)] \in Jobs
         /\ waiting[Len(waiting)] # j => WaitsAlike(j)
         /\ waiting[Len(waiting)] = j /\ Once(j) => InWaiting(j) /\ ~ InWaiting(j)' /\ Once(j)'
<1>1. /\ Len(waiting) \in Nat \ {0}
      /\ waiting' \in Seq(Jobs)
      /\ Len(waiting') = Len(waiting) - 1
      /\ \A i \in 1..Len(waiting') : waiting'[i] = waiting[i]
  <2>1. Len(waiting) \in Nat \ {0} /\ Len(waiting) - 1 \in 0..Len(waiting)
    BY EmptySeq
  <2>2. waiting' = [i \in 1..Len(waiting) - 1 |-> waiting[i]]
    BY <2>1, SubSeqRestrict DEF RPop, Restrict
  <2>3. QED
    BY <2>1, <2>2
<1>2. /\ \A i \in 1..Len(waiting) : i \in 1..Len(waiting') \/ i = Len(waiting)
      /\ \A i \in 1..Len(waiting') : i \in 1..Len(waiting) /\ i # Len(waiting)
      /\ Len(waiting) \in 1..Len(waiting)
      /\ DOMAIN waiting = 1..Len(waiting) /\ DOMAIN waiting' = 1..Len(waiting')
  BY <1>1
<1>3. waiting[Len(waiting)] \in Jobs
  BY <1>1
<1>4. waiting[Len(waiting)] # j => WaitsAlike(j)
  <2>1. waiting[Len(waiting)] # j => (InWaiting(j)' <=> InWaiting(j))
    BY <1>1, <1>2 DEF InWaiting
  <2>2. Once(j) => Once(j)'
    BY <1>1, <1>2 DEF Once
  <2>3. QED
    BY <2>1, <2>2 DEF WaitsAlike
<1>5. waiting[Len(waiting)] = j /\ Once(j) => InWaiting(j) /\ ~ InWaiting(j)' /\ Once(j)'
  BY <1>1, <1>2 DEF InWaiting, Once
<1>6. QED
  BY <1>3, <1>4, <1>5

-----------------------------------------------------------------------------
(***************************************************************************)
(* Where a job is.  A job in no list that no caller holds may still be     *)
(* somewhere else: in the delivery map of a function queue, or among the   *)
(* ids a FIFO loop skipped.  S is the set of fates of a job that has a     *)
(* place to be in.                                                         *)
(***************************************************************************)
Held(j) == \E c \in Callers : Holds(c, j)
Located(j) == InWaiting(j) \/ delayed[j] # "none" \/ dlq[j] > 0 \/ Held(j)

Alone(j, S) ==
  /\ Once(j)
  /\ InWaiting(j) => delayed[j] = "none" /\ dlq[j] = 0 /\ ~ Held(j)
  /\ delayed[j] # "none" => dlq[j] = 0 /\ ~ Held(j)
  /\ dlq[j] > 0 => dlq[j] = 1 /\ ~ Held(j)
  /\ \A c, d \in Callers : Holds(c, j) /\ Holds(d, j) => c = d
  /\ Located(j) => fate[j] \in S

\* What a method does to the whereabouts of a job: it moves it from place to
\* place, brings it into the queue, or settles it.
Moves(j, S) ==
  \/ (Located(j)' <=> Located(j)) /\ fate'[j] = fate[j]
  \/ ~ Located(j) /\ Located(j)' /\ fate[j] = "new" /\ fate'[j] \in S
  \/ Located(j) /\ ~ Located(j)' /\ fate'[j] \notin S

(***************************************************************************)
(* What is known of its attempts.  The record of a job that is not being   *)
(* retried has the number of its failures, which is below the limit; while *)
(* a caller works on it, the pc says how far the record is behind.  Only a *)
(* redrive that overlaps move_to_dlq can take the record of a job of the   *)
(* queue away.                                                             *)
(***************************************************************************)
FreshPCs == {"push.list", "push.delay", "move.list", "pop.activate", "pop.read",
             "popped", "handling", "retry.delay"}
DonePCs == {"idle", "move", "poll", "requeue", "requeue.lrem", "send", "serving"}

Stored(j, n) == record[j] = n \/ (record[j] = Absent /\ j \in raced)
Fresh(j) == failures[j] < MaxAttempts /\ Stored(j, failures[j])

Work(c, j) ==
  call[c].job = j =>
    /\ call[c].pc \in FreshPCs => Fresh(j)
    /\ call[c].pc \in {"popped", "handling"} => call[c].tries = failures[j]
    /\ call[c].pc = "nack.get" =>
         failures[j] \in 1..MaxAttempts /\ Stored(j, failures[j] - 1)
    /\ call[c].pc = "nack.gone" => j \in raced
    /\ call[c].pc \in {"backoff", "retry.lrem", "retry.set"} =>
         call[c].tries = failures[j] /\ failures[j] < MaxAttempts
    /\ call[c].pc \in {"dlq.lrem", "dlq.push", "redrive.set"} => failures[j] = MaxAttempts

\* Callers that have yet to delete the record of a job they no longer hold.
Deletes(c, j) ==
  call[c].job = j =>
    /\ call[c].pc = "dlq.delete" => j \in raced \/ dlq[j] > 0 \/ fate[j] = "discarded"
    /\ call[c].pc \in {"ack.lrem", "ack.delete"} => fate[j] = "acked"
    /\ call[c].pc = "discard.delete" => fate[j] = "discarded"

Tally(j, S) ==
  /\ fate[j] = "new" => failures[j] = 0
  /\ fate[j] = "lost" => j \in raced
  /\ dlq[j] > 0 => failures[j] = MaxAttempts
  /\ fate[j] \in S /\ ~ Held(j) /\ ~ dlq[j] > 0 => Fresh(j)

Count(j, S) == Tally(j, S) /\ \A c \in Callers : Work(c, j) /\ Deletes(c, j)

Sound(j, S) == Alone(j, S) /\ Count(j, S)

Fates == {{"live"}, {"live", "stranded"}}

\* A job that is somewhere is in one place.
LEMMA PlacesOf ==
  ASSUME NEW S, NEW j \in Jobs, Alone(j, S)
  PROVE  /\ Located(j) => \E x \in Places(j) : Places(j) = {x}
         /\ ~ Located(j) => Places(j) = {}
<1>1. CASE InWaiting(j)
  <2>1. Places(j) = {<<"waiting">>}
    BY <1>1 DEF Places, Alone, InWaiting, Held
  <2>2. QED
    BY <1>1, <2>1 DEF Located
<1>2. CASE delayed[j] # "none"
  <2>1. Places(j) = {<<"delayed">>}
    BY <1>2 DEF Places, Alone, InWaiting, Held
  <2>2. QED
    BY <1>2, <2>1 DEF Located
<1>3. CASE dlq[j] > 0
  <2>1. Places(j) = {<<"dlq">>}
    BY <1>3 DEF Places, Alone, InWaiting, Held
  <2>2. QED
    BY <1>3, <2>1 DEF Located
<1>4. CASE Held(j)
  <2>1. PICK c \in Callers : Holds(c, j)
    BY <1>4 DEF Held
  <2>2. Places(j) = {<<"call", c>>}
    BY <1>4, <2>1 DEF Places, Alone, InWaiting
  <2>3. QED
    BY <1>4, <2>2 DEF Located
<1>5. CASE ~ Located(j)
  <2>1. Places(j) = {}
    BY <1>5 DEF Places, Located, InWaiting, Held
  <2>2. QED
    BY <1>5, <2>1
<1>6. QED
  BY <1>1, <1>2, <1>3, <1>4, <1>5 DEF Located

-----------------------------------------------------------------------------
(***************************************************************************)
(* Steps of one caller, seen from one job.                                 *)
(***************************************************************************)
\* The pcs about which Work says something are those of a holder.
LEMMA IdleWork ==
  ASSUME NEW c, NEW j, call[c].job # j \/ call[c].pc \notin HoldPCs
  PROVE  Work(c, j)
  BY DEF Work, HoldPCs, FreshPCs

\* A step that does not concern job j.
LEMMA Untouched ==
  ASSUME QueueTypeOK, NEW S \in Fates, NEW j \in Jobs, Sound(j, S),
         \A c \in Callers :
           \/ call'[c] = call[c]
           \/ /\ call[c].job # j \/ call[c].pc \notin HoldPCs
              /\ call'[c].job # j \/ call'[c].pc \in DonePCs,
         WaitsAlike(j), delayed'[j] = "none" <=> delayed[j] = "none",
         UNCHANGED <<dlq[j], record[j], fate[j], failures[j]>>,
         (j \in raced)' <=> j \in raced
  PROVE  Sound(j, S)' /\ Moves(j, S)
<1>1. \A c \in Callers : Holds(c, j)' <=> Holds(c, j)
  BY DEF Holds, HoldPCs, DonePCs
<1>2. (Held(j)' <=> Held(j)) /\ (Located(j)' <=> Located(j)) /\ Moves(j, S)
  BY <1>1 DEF Held, Located, WaitsAlike, Moves
<1>3. Alone(j, S)'
  BY <1>1, <1>2 DEF Sound, Alone, WaitsAlike
<1>4. Fresh(j)' <=> Fresh(j)
  BY DEF Fresh, Stored
<1>5. Tally(j, S)'
  BY <1>2, <1>4 DEF Sound, Count, Tally
<1>6. ASSUME NEW c \in Callers
      PROVE  Work(c, j)' /\ Deletes(c, j)'
  <2>1. CASE call'[c] = call[c]
    <3>1. Work(c, j) /\ Deletes(c, j)
      BY DEF Sound, Count
    <3>2. Work(c, j)'
      BY <1>4, <2>1, <3>1 DEF Work, Stored
    <3>3. Deletes(c, j)'
      BY <2>1, <3>1 DEF Deletes
    <3>4. QED
      BY <3>2, <3>3
  <2>2. CASE call'[c].job # j \/ call'[c].pc \in DonePCs
    BY <2>2 DEF Work, Deletes, HoldPCs, FreshPCs, DonePCs
  <2>3. QED
    BY <2>1, <2>2
<1>7. QED
  BY <1>2, <1>3, <1>5, <1>6 DEF Sound, Count

LEMMA StepsAside ==
  ASSUME QueueTypeOK, NEW S \in Fates, NEW j \in Jobs, Sound(j, S),
         NEW c \in Callers, NEW pc, NEW i, NEW n, call' = [call EXCEPT ![c] = Call(pc, i, n)],
         call[c].job # j \/ call[c].pc \notin HoldPCs,
         i # j \/ pc \in DonePCs,
         WaitsAlike(j), UNCHANGED <<delayed[j], dlq[j], record[j], fate[j], failures[j]>>,
         (j \in raced)' <=> j \in raced
  PROVE  Sound(j, S)' /\ Moves(j, S)
<1>1. \A d \in Callers : call'[d] = IF d = c THEN Call(pc, i, n) ELSE call[d]
  BY DEF QueueTypeOK
<1>2. QED
  BY <1>1, Untouched DEF Call

\* Others than the caller that takes a step on a job are at most about to
\* delete its record.
LEMMA Bystanders ==
  ASSUME NEW S \in Fates, NEW j \in Jobs, Sound(j, S), NEW c \in Callers,
         \A d \in Callers \ {c} : call'[d] = call[d] /\ ~ Holds(d, j),
         fate[j] \in S \/ fate[j] = "new", dlq[j] = 0, j \in raced => j \in raced'
  PROVE  \A d \in Callers \ {c} : Work(d, j)' /\ Deletes(d, j)'
<1> SUFFICES ASSUME NEW d \in Callers \ {c}, call[d].job = j
             PROVE  Work(d, j)' /\ Deletes(d, j)'
  BY DEF Work, Deletes
<1>1. call[d].pc \notin HoldPCs
  BY DEF Holds
<1>2. Work(d, j)'
  BY <1>1 DEF Work, FreshPCs, HoldPCs
<1>3. fate[j] \in {"new", "live", "stranded"} /\ Deletes(d, j)
  BY DEF Fates, Sound, Count
<1>4. Deletes(d, j)'
  BY <1>3 DEF Deletes
<1>5. QED
  BY <1>2, <1>4

\* What a caller knows of the job it holds.
LEMMA HolderKnows ==
  ASSUME QueueTypeOK, NEW S \in Fates, NEW j \in Jobs, Sound(j, S),
         NEW c \in Callers, call[c].job = j, call[c].pc \in HoldPCs
  PROVE  /\ \A d \in Callers : Holds(d, j) <=> d = c
         /\ Held(j) /\ Located(j)
         /\ ~ InWaiting(j) /\ delayed[j] = "none" /\ dlq[j] = 0
         /\ fate[j] \in S /\ fate[j] \in {"live", "stranded"}
         /\ Work(c, j)
<1>1. Holds(c, j) /\ Held(j) /\ Located(j)
  BY DEF Holds, Held, Located
<1>2. Alone(j, S) /\ Work(c, j) /\ dlq[j] \in Nat
  BY DEF Sound, Count, QueueTypeOK
<1>3. fate[j] \in S /\ fate[j] \in {"live", "stranded"}
  BY <1>1, <1>2 DEF Alone, Fates
<1>4. \A d \in Callers : Holds(d, j) <=> d = c
  BY <1>1, <1>2 DEF Alone
<1>5. ~ InWaiting(j) /\ delayed[j] = "none" /\ dlq[j] = 0
  BY <1>1, <1>2 DEF Alone
<1>6. QED
  BY <1>1, <1>2, <1>3, <1>4, <1>5

\* A holder goes on with its method; the job is in no list before or after.
LEMMA HolderGoes ==
  ASSUME QueueTypeOK, NEW S \in Fates, NEW j \in Jobs, Sound(j, S),
         NEW c \in Callers, call[c].job = j, call[c].pc \in HoldPCs,
         NEW pc \in HoldPCs, NEW n, call' = [call EXCEPT ![c] = Call(pc, j, n)],
         WaitsAlike(j), UNCHANGED <<delayed[j], dlq[j], fate[j]>>,
         j \in raced => j \in raced',
         Work(c, j)'
  PROVE  Sound(j, S)' /\ Moves(j, S)
<1>0. \A d \in Callers : call'[d] = IF d = c THEN Call(pc, j, n) ELSE call[d]
  BY DEF QueueTypeOK
<1>1. \A d \in Callers : Holds(d, j)' <=> IF d = c THEN TRUE ELSE Holds(d, j)
  BY <1>0 DEF Holds, Call
<1>2. /\ \A d \in Callers : Holds(d, j) <=> d = c
      /\ Located(j) /\ ~ InWaiting(j) /\ delayed[j] = "none" /\ dlq[j] = 0
      /\ fate[j] \in S /\ fate[j] \in {"live", "stranded"}
  BY HolderKnows
<1>3. \A d \in Callers : Holds(d, j)' <=> d = c
  BY <1>1, <1>2
<1>4. Held(j)' /\ Located(j)'
  BY <1>3 DEF Held, Located
<1>5. Alone(j, S)' /\ Moves(j, S)
  BY <1>2, <1>3, <1>4 DEF Sound, Alone, Moves, WaitsAlike
<1>6. Tally(j, S)'
  BY <1>2, <1>4 DEF Tally
<1>7. Deletes(c, j)'
  BY <1>0 DEF Deletes, Call, HoldPCs
<1>8. \A d \in Callers \ {c} : Work(d, j)' /\ Deletes(d, j)'
  BY <1>0, <1>2, Bystanders
<1>9. QED
  BY <1>5, <1>6, <1>7, <1>8 DEF Sound, Count

\* A holder lets its job go, without settling it.
LEMMA HolderLetsGo ==
  ASSUME QueueTypeOK, NEW S \in Fates, NEW j \in Jobs, Sound(j, S),
         NEW c \in Callers, call[c].job = j, call[c].pc \in HoldPCs,
         NEW pc, NEW i, NEW n, call' = [call EXCEPT ![c] = Call(pc, i, n)],
         i # j \/ pc \notin HoldPCs, Deletes(c, j)', fate'[j] = fate[j],
         j \in raced => j \in raced', Once(j)',
         \/ InWaiting(j)' /\ delayed'[j] = "none" /\ dlq'[j] = 0 /\ Fresh(j)'
         \/ ~ InWaiting(j)' /\ delayed'[j] # "none" /\ dlq'[j] = 0 /\ Fresh(j)'
         \/ ~ InWaiting(j)' /\ delayed'[j] = "none" /\ dlq'[j] = 1 /\ failures'[j] = MaxAttempts
         \/ ~ InWaiting(j)' /\ delayed'[j] = "none" /\ dlq'[j] = 0 /\ Fresh(j)'
  PROVE  /\ Sound(j, S)'
         /\ InWaiting(j)' \/ delayed'[j] # "none" \/ dlq'[j] > 0 => Moves(j, S)
         /\ ~ Held(j)'
<1>0. \A d \in Callers : call'[d] = IF d = c THEN Call(pc, i, n) ELSE call[d]
  BY DEF QueueTypeOK
<1>1. \A d \in Callers : Holds(d, j)' <=> IF d = c THEN i = j /\ pc \in HoldPCs ELSE Holds(d, j)
  BY <1>0 DEF Holds, Call
<1>2. /\ \A d \in Callers : Holds(d, j) <=> d = c
      /\ Located(j) /\ ~ InWaiting(j) /\ delayed[j] = "none" /\ dlq[j] = 0
      /\ fate[j] \in S /\ fate[j] \in {"live", "stranded"}
  BY HolderKnows
<1>3. (\A d \in Callers : ~ Holds(d, j)') /\ ~ Held(j)'
  BY <1>1, <1>2 DEF Held
<1>4. Alone(j, S)'
  BY <1>2, <1>3 DEF Alone
<1>5. Tally(j, S)'
  BY <1>2, <1>3 DEF Tally
<1>6. Work(c, j)'
  BY <1>0 DEF Work, Call, HoldPCs, FreshPCs
<1>7. \A d \in Callers \ {c} : Work(d, j)' /\ Deletes(d, j)'
  BY <1>0, <1>2, Bystanders
<1>8. InWaiting(j)' \/ delayed'[j] # "none" \/ dlq'[j] > 0 => Moves(j, S)
  BY <1>2 DEF Moves, Located
<1>9. QED
  BY <1>3, <1>4, <1>5, <1>6, <1>7, <1>8 DEF Sound, Count

\* A holder settles its job, or its job is lost.
LEMMA HolderSettles ==
  ASSUME QueueTypeOK, NEW S \in Fates, NEW j \in Jobs, Sound(j, S),
         NEW c \in Callers, call[c].job = j, call[c].pc \in HoldPCs,
         NEW pc, NEW i, NEW n, call' = [call EXCEPT ![c] = Call(pc, i, n)],
         i # j \/ pc \notin HoldPCs, Deletes(c, j)',
         fate'[j] \notin S, fate'[j] # "new", fate'[j] = "lost" => j \in raced',
         WaitsAlike(j), UNCHANGED <<delayed[j], dlq[j]>>, j \in raced => j \in raced'
  PROVE  Sound(j, S)' /\ Moves(j, S)
<1>0. \A d \in Callers : call'[d] = IF d = c THEN Call(pc, i, n) ELSE call[d]
  BY DEF QueueTypeOK
<1>1. \A d \in Callers : Holds(d, j)' <=> IF d = c THEN i = j /\ pc \in HoldPCs ELSE Holds(d, j)
  BY <1>0 DEF Holds, Call
<1>2. /\ \A d \in Callers : Holds(d, j) <=> d = c
      /\ Located(j) /\ ~ InWaiting(j) /\ delayed[j] = "none" /\ dlq[j] = 0
      /\ fate[j] \in S
  BY HolderKnows
<1>3. (\A d \in Callers : ~ Holds(d, j)') /\ ~ Held(j)'
  BY <1>1, <1>2 DEF Held
<1>4. ~ Located(j)' /\ Moves(j, S)
  BY <1>2, <1>3 DEF Located, WaitsAlike, Moves
<1>5. Alone(j, S)'
  BY <1>2, <1>3, <1>4 DEF Sound, Alone, WaitsAlike, Located
<1>6. Tally(j, S)'
  BY <1>2 DEF Tally
<1>7. Work(c, j)'
  BY <1>0 DEF Work, Call, HoldPCs, FreshPCs
<1>8. \A d \in Callers \ {c} : Work(d, j)' /\ Deletes(d, j)'
  BY <1>0, <1>2, Bystanders
<1>9. QED
  BY <1>4, <1>5, <1>6, <1>7, <1>8 DEF Sound, Count

\* A caller that holds no job takes up one that no list has any more.
LEMMA TakenUp ==
  ASSUME QueueTypeOK, NEW S \in Fates, NEW j \in Jobs, Sound(j, S), ~ Held(j),
         NEW c \in Callers, call[c].pc \notin HoldPCs,
         NEW pc \in HoldPCs, NEW n, call' = [call EXCEPT ![c] = Call(pc, j, n)],
         Once(j)', ~ InWaiting(j)', delayed'[j] = "none", dlq'[j] = 0, fate'[j] \in S,
         fate[j] \in S \/ fate[j] = "new", dlq[j] = 0, j \in raced => j \in raced',
         Work(c, j)'
  PROVE  Sound(j, S)' /\ Located(j)'
<1>0. \A d \in Callers : call'[d] = IF d = c THEN Call(pc, j, n) ELSE call[d]
  BY DEF QueueTypeOK
<1>1. \A d \in Callers : Holds(d, j)' <=> IF d = c THEN TRUE ELSE Holds(d, j)
  BY <1>0 DEF Holds, Call
<1>2. \A d \in Callers : ~ Holds(d, j) /\ (Holds(d, j)' <=> d = c)
  BY <1>1 DEF Held
<1>3. Held(j)' /\ Located(j)'
  BY <1>2 DEF Held, Located
<1>4. Alone(j, S)'
  BY <1>2, <1>3 DEF Alone
<1>5. Tally(j, S)'
  BY <1>3 DEF Tally, Fates
<1>6. Deletes(c, j)'
  BY <1>0 DEF Deletes, Call, HoldPCs
<1>7. \A d \in Callers \ {c} : Work(d, j)' /\ Deletes(d, j)'
  BY <1>0, <1>2, Bystanders
<1>8. QED
  BY <1>3, <1>4, <1>5, <1>6, <1>7 DEF Sound, Count

-----------------------------------------------------------------------------
(***************************************************************************)
(* The methods of JobQueue: each keeps what is known of a job, whether it  *)
(* works on that job or on another.                                        *)
(***************************************************************************)
LEMMA PushRecordSound ==
  ASSUME QueueTypeOK, NEW S \in Fates, NEW j \in Jobs, Sound(j, S),
         NEW c \in Clients, NEW i \in Jobs, NEW pc \in {"push.list", "push.delay"},
         PushRecord(c, i, pc)
  PROVE  Sound(j, S)' /\ Moves(j, S)
<1>1. /\ c \in Callers /\ pc \in HoldPCs /\ call[c].pc \notin HoldPCs
      /\ call' = [call EXCEPT ![c] = Call(pc, i, 0)]
  BY DEF Callers, HoldPCs, PushRecord, At, Begin
<1>2. WaitsAlike(j) /\ UNCHANGED <<delayed, dlq, failures, raced>>
  BY WaitingKept DEF PushRecord
<1>3. CASE i # j
  <2>1. UNCHANGED <<record[j], fate[j]>>
    BY <1>3 DEF PushRecord, SetJob, Settle, QueueTypeOK
  <2>2. QED
    BY <1>1, <1>2, <1>3, <2>1, StepsAside
<1>4. CASE i = j
  <2>1. /\ fate[j] = "new" /\ fate'[j] = "live" /\ record'[j] = 0
    BY <1>4 DEF PushRecord, SetJob, Settle, QueueTypeOK
  <2>2. fate[j] \notin S /\ fate'[j] \in S /\ dlq[j] \in Nat
    BY <2>1 DEF Fates, QueueTypeOK
  <2>3. ~ Located(j)
    BY <2>2 DEF Sound, Alone
  <2>4. ~ InWaiting(j) /\ delayed[j] = "none" /\ dlq[j] = 0 /\ ~ Held(j) /\ Once(j)
    BY <2>2, <2>3 DEF Located, Sound, Alone
  <2>5. failures'[j] = 0
    BY <1>2, <2>1 DEF Sound, Count, Tally
  <2>6. Work(c, j)'
    BY <1>1, <2>1, <2>5, MaxAttemptsAssumption DEF Work, Call, Fresh, Stored, QueueTypeOK
  <2>7. Sound(j, S)' /\ Located(j)'
    BY <1>1, <1>2, <1>4, <2>1, <2>2, <2>4, <2>6, TakenUp DEF WaitsAlike
  <2>8. QED
    BY <2>1, <2>2, <2>3, <2>7 DEF Moves
<1>5. QED
  BY <1>3, <1>4

\* A job a caller takes from a list: no one holds it, and it is in no other.
LEMMA ListedKnows ==
  ASSUME QueueTypeOK, NEW S \in Fates, NEW j \in Jobs, Sound(j, S),
         InWaiting(j) \/ delayed[j] # "none" \/ dlq[j] > 0
  PROVE  /\ Located(j) /\ ~ Held(j) /\ Once(j)
         /\ fate[j] \in S /\ fate[j] \in {"live", "stranded"}
         /\ InWaiting(j) => delayed[j] = "none" /\ dlq[j] = 0 /\ Fresh(j)
         /\ delayed[j] # "none" => ~ InWaiting(j) /\ dlq[j] = 0 /\ Fresh(j)
         /\ dlq[j] > 0 => /\ ~ InWaiting(j) /\ delayed[j] = "none" /\ dlq[j] = 1
                          /\ failures[j] = MaxAttempts
<1>1. Alone(j, S) /\ Tally(j, S) /\ Located(j) /\ dlq[j] \in Nat
  BY DEF Sound, Count, Located, QueueTypeOK
<1>2. ~ Held(j) /\ fate[j] \in S /\ fate[j] \in {"live", "stranded"}
  BY <1>1 DEF Alone, Fates
<1>3. dlq[j] = 0 => Fresh(j)
  BY <1>1, <1>2 DEF Tally
<1>4. QED
  BY <1>1, <1>2, <1>3 DEF Alone, Tally

LEMMA RedriveTakeSound ==
  ASSUME QueueTypeOK, NEW S \in Fates, NEW j \in Jobs, Sound(j, S),
         NEW c \in Clients, NEW i \in Jobs, RedriveTake(c, i)
  PROVE  Sound(j, S)' /\ Moves(j, S)
<1>1. /\ c \in Callers /\ "redrive.set" \in HoldPCs /\ call[c].pc \notin HoldPCs
      /\ call' = [call EXCEPT ![c] = Call("redrive.set", i, 0)]
  BY DEF Callers, HoldPCs, RedriveTake, At, Begin
<1>2. WaitsAlike(j) /\ UNCHANGED <<delayed, fate, failures, record>>
  BY WaitingKept DEF RedriveTake
<1>3. CASE i # j
  <2>1. dlq'[j] = dlq[j] /\ ((j \in raced)' <=> j \in raced)
    BY <1>3 DEF RedriveTake, TakeDlq, QueueTypeOK
  <2>2. QED
    BY <1>1, <1>2, <1>3, <2>1, StepsAside
<1>4. CASE i = j
  <2>1. dlq[j] > 0
    BY <1>4 DEF RedriveTake, TakeDlq
  <2>2. /\ Located(j) /\ ~ Held(j) /\ Once(j) /\ fate[j] \in S
        /\ ~ InWaiting(j) /\ delayed[j] = "none" /\ dlq[j] = 1 /\ failures[j] = MaxAttempts
    BY <2>1, ListedKnows
  <2>3. dlq'[j] = 0 /\ (j \in raced => j \in raced')
    BY <1>4, <2>2 DEF RedriveTake, TakeDlq, QueueTypeOK
  <2>4. \A d \in Callers : call'[d] = IF d = c THEN Call("redrive.set", j, 0) ELSE call[d]
    BY <1>1, <1>4 DEF QueueTypeOK
  <2>5. \A d \in Callers : ~ Holds(d, j) /\ (Holds(d, j)' <=> d = c)
    BY <1>1, <2>2, <2>4 DEF Held, Holds, Call
  <2>6. Held(j)' /\ Located(j)'
    BY <1>1, <2>5 DEF Held, Located
  <2>7. Alone(j, S)'
    BY <1>2, <2>2, <2>3, <2>5, <2>6 DEF Alone, WaitsAlike
  <2>8. Tally(j, S)'
    BY <1>2, <2>2, <2>3, <2>6 DEF Tally, Fates
  <2>9. Work(c, j)' /\ Deletes(c, j)'
    BY <1>1, <1>2, <2>2, <2>4 DEF Work, Deletes, Call, FreshPCs
  <2>10. ASSUME NEW d \in Callers \ {c}
         PROVE  Work(d, j)' /\ Deletes(d, j)'
    <3>1. call'[d] = call[d] /\ (call[d].job = j => call[d].pc \notin HoldPCs)
      BY <2>4, <2>5 DEF Holds
    <3>2. Work(d, j)'
      BY <3>1 DEF Work, HoldPCs, FreshPCs
    <3>3. call[d].job = j /\ call[d].pc = "dlq.delete" => j \in raced'
      BY <1>4 DEF RedriveTake, At
    <3>4. Deletes(d, j)
      BY DEF Sound, Count
    <3>5. Deletes(d, j)'
      BY <1>2, <3>1, <3>3, <3>4 DEF Deletes
    <3>6. QED
      BY <3>2, <3>5
  <2>11. QED
    BY <1>2, <2>2, <2>6, <2>7, <2>8, <2>9, <2>10 DEF Sound, Count, Moves
<1>5. QED
  BY <1>3, <1>4

LEMMA DiscardTakeSound ==
  ASSUME QueueTypeOK, NEW S \in Fates, NEW j \in Jobs, Sound(j, S),
         NEW c \in Clients, NEW i \in Jobs, DiscardTake(c, i)
  PROVE  Sound(j, S)' /\ Moves(j, S)
<1>1. /\ c \in Callers /\ "discard.delete" \notin HoldPCs /\ call[c].pc \notin HoldPCs
      /\ call' = [call EXCEPT ![c] = Call("discard.delete", i, 0)]
  BY DEF Callers, HoldPCs, DiscardTake, At, Begin
<1>2. WaitsAlike(j) /\ UNCHANGED <<delayed, failures, record, raced>>
  BY WaitingKept DEF DiscardTake
<1>3. CASE i # j
  <2>1. dlq'[j] = dlq[j] /\ fate'[j] = fate[j]
    BY <1>3 DEF DiscardTake, TakeDlq, Settle, QueueTypeOK
  <2>2. QED
    BY <1>1, <1>2, <1>3, <2>1, StepsAside
<1>4. CASE i = j
  <2>1. dlq[j] > 0
    BY <1>4 DEF DiscardTake, TakeDlq
  <2>2. /\ Located(j) /\ ~ Held(j) /\ Once(j) /\ fate[j] \in {"live", "stranded"}
        /\ ~ InWaiting(j) /\ delayed[j] = "none" /\ dlq[j] = 1
    BY <2>1, ListedKnows
  <2>3. dlq'[j] = 0 /\ fate'[j] = "discarded" /\ fate'[j] \notin S
    BY <1>4, <2>2 DEF DiscardTake, TakeDlq, Settle, QueueTypeOK, Fates
  <2>4. \A d \in Callers : call'[d] = IF d = c THEN Call("discard.delete", j, 0) ELSE call[d]
    BY <1>1, <1>4 DEF QueueTypeOK
  <2>5. \A d \in Callers : ~ Holds(d, j) /\ ~ Holds(d, j)'
    BY <1>1, <2>2, <2>4 DEF Held, Holds, Call
  <2>6. ~ Held(j)' /\ ~ Located(j)'
    BY <1>2, <2>2, <2>3, <2>5 DEF Held, Located, WaitsAlike
  <2>7. Alone(j, S)' /\ Moves(j, S)
    BY <1>2, <2>2, <2>3, <2>5, <2>6 DEF Alone, WaitsAlike, Moves, Located
  <2>8. Tally(j, S)'
    BY <2>3 DEF Tally
  <2>9. ASSUME NEW d \in Callers
        PROVE  Work(d, j)' /\ Deletes(d, j)'
    <3>1. Deletes(d, j)
      BY DEF Sound, Count
    <3>2. call[d].pc \notin HoldPCs \/ call[d].job # j
      BY <2>5 DEF Holds
    <3>3. Work(d, j)'
      BY <2>4, <3>2 DEF Work, Call, HoldPCs, FreshPCs
    <3>4. Deletes(d, j)'
      BY <2>2, <2>3, <2>4, <3>1 DEF Deletes, Call
    <3>5. QED
      BY <3>3, <3>4
  <2>10. QED
    BY <2>7, <2>8, <2>9 DEF Sound, Count
<1>5. QED
  BY <1>3, <1>4

\* A caller puts the job it holds in waiting or delayed.
LEMMA ListsSound ==
  ASSUME QueueTypeOK, NEW S \in Fates, NEW j \in Jobs, Sound(j, S),
         NEW c \in Callers, call[c].pc \in FreshPCs,
         NEW pc \in DonePCs, NEW i, NEW n, call' = [call EXCEPT ![c] = Call(pc, i, n)],
         UNCHANGED <<dlq, record, history>>,
         \/ (LPush(call[c].job) \/ RPush(call[c].job)) /\ UNCHANGED delayed
         \/ ZAdd(call[c].job) /\ UNCHANGED waiting
  PROVE  Sound(j, S)' /\ Moves(j, S)
<1>1. PICK k \in Jobs : k = call[c].job
  BY DEF QueueTypeOK, FreshPCs, HoldPCs
<1>2. call[c].pc \in HoldPCs /\ pc \notin HoldPCs
  BY DEF FreshPCs, HoldPCs, DonePCs
<1>3. CASE k # j
  <2>1. WaitsAlike(j) /\ UNCHANGED delayed[j]
    BY <1>1, <1>3, WaitingKept, PushedWaits DEF QueueTypeOK, ZAdd
  <2>2. QED
    BY <1>1, <1>3, <2>1, StepsAside DEF history
<1>4. CASE k = j
  <2>1. ~ InWaiting(j) /\ delayed[j] = "none" /\ dlq[j] = 0 /\ Fresh(j) /\ Once(j)
    BY <1>1, <1>2, <1>4, HolderKnows DEF Work, Sound, Alone
  <2>2. Fresh(j)' /\ dlq'[j] = 0
    BY <2>1 DEF Fresh, Stored, history
  <2>3. Deletes(c, j)'
    BY <1>1 DEF Deletes, Call, DonePCs, QueueTypeOK
  <2>4. Once(j)' /\ ((InWaiting(j)' /\ delayed'[j] = "none") \/ (~ InWaiting(j)' /\ delayed'[j] # "none"))
    <3>1. CASE LPush(j) \/ RPush(j)
      <4>1. InWaiting(j)' /\ Once(j)'
        BY <2>1, <3>1, PushedWaits DEF QueueTypeOK
      <4>2. CASE UNCHANGED delayed
        BY <2>1, <4>1, <4>2
      <4>3. CASE UNCHANGED waiting
        BY <2>1, <4>1, <4>3 DEF InWaiting
      <4>4. QED
        BY <4>2, <4>3
    <3>2. CASE ZAdd(j) /\ UNCHANGED waiting
      BY <2>1, <3>2, WaitingKept DEF ZAdd, WaitsAlike, QueueTypeOK
    <3>3. QED
      BY <1>1, <1>4, <3>1, <3>2
  <2>5. InWaiting(j)' \/ delayed'[j] # "none"
    BY <2>4
  <2>6. QED
    BY <1>1, <1>2, <1>4, <2>2, <2>3, <2>4, <2>5, HolderLetsGo DEF history
<1>5. QED
  BY <1>3, <1>4

\* A caller goes on with the job it holds, and moves no job.
LEMMA GoesSound ==
  ASSUME QueueTypeOK, NEW S \in Fates, NEW j \in Jobs, Sound(j, S),
         NEW c \in Callers, call[c].pc \in HoldPCs,
         NEW pc \in HoldPCs, NEW n, call' = [call EXCEPT ![c] = Call(pc, call[c].job, n)],
         UNCHANGED <<waiting, delayed, dlq, fate, raced>>,
         call[c].job # j => UNCHANGED <<record[j], failures[j]>>,
         Sound(j, S) /\ call[c].job = j => Work(c, j)'
  PROVE  Sound(j, S)' /\ Moves(j, S)
<1>1. PICK k \in Jobs : k = call[c].job
  BY DEF QueueTypeOK
<1>2. WaitsAlike(j)
  BY WaitingKept
<1>3. CASE k # j
  BY <1>1, <1>2, <1>3, StepsAside
<1>4. CASE k = j
  BY <1>1, <1>2, <1>4, HolderGoes
<1>5. QED
  BY <1>3, <1>4

\* A caller that holds no job goes on to a step that works on none.
LEMMA AimlessSound ==
  ASSUME QueueTypeOK, NEW S \in Fates, NEW j \in Jobs, Sound(j, S),
         NEW c \in Callers, call[c].pc \notin HoldPCs, NEW pc \in DonePCs, NEW i, NEW n,
         call' = [call EXCEPT ![c] = Call(pc, i, n)],
         UNCHANGED <<waiting, delayed, dlq, record, history>>
  PROVE  Sound(j, S)' /\ Moves(j, S)
  BY WaitingKept, StepsAside DEF history

\* The holder finds no record: the job is lost.
LEMMA LosesSound ==
  ASSUME QueueTypeOK, NEW S \in Fates, NEW j \in Jobs, Sound(j, S),
         NEW c \in Callers, call[c].pc \in HoldPCs,
         call[c].job = j => j \in raced,
         NEW pc \in DonePCs, NEW i, NEW n, call' = [call EXCEPT ![c] = Call(pc, i, n)],
         Settle(call[c].job, "lost"),
         UNCHANGED <<waiting, delayed, dlq, record, failures, raced>>
  PROVE  Sound(j, S)' /\ Moves(j, S)
<1>1. PICK k \in Jobs : k = call[c].job
  BY DEF QueueTypeOK
<1>2. WaitsAlike(j) /\ pc \notin HoldPCs
  BY WaitingKept DEF HoldPCs, DonePCs
<1>3. CASE k # j
  <2>1. fate'[j] = fate[j]
    BY <1>1, <1>3 DEF Settle, QueueTypeOK
  <2>2. QED
    BY <1>1, <1>2, <1>3, <2>1, StepsAside
<1>4. CASE k = j
  <2>1. fate'[j] = "lost" /\ "lost" \notin S
    BY <1>1, <1>4 DEF Settle, QueueTypeOK, Fates
  <2>2. Deletes(c, j)'
    BY DEF Deletes, Call, DonePCs, QueueTypeOK
  <2>3. QED
    BY <1>1, <1>2, <1>4, <2>1, <2>2, HolderSettles
<1>5. QED
  BY <1>3, <1>4

\* The record is deleted by one of those that no longer hold the job.
LEMMA DeletesSound ==
  ASSUME QueueTypeOK, NEW S \in Fates, NEW j \in Jobs, Sound(j, S), NEW c \in Callers,
         call[c].pc \in {"ack.delete", "dlq.delete", "discard.delete"},
         DeleteJob(call[c].job), Return(c),
         UNCHANGED <<waiting, delayed, dlq, history>>
  PROVE  Sound(j, S)' /\ Moves(j, S)
<1>1. /\ call[c].pc \notin HoldPCs /\ "idle" \in DonePCs
      /\ call' = [call EXCEPT ![c] = Call("idle", NoJob, 0)]
  BY DEF HoldPCs, DonePCs, Return, Idle
<1>2. CASE call[c].job # j
  <2>1. record'[j] = record[j]
    BY <1>2 DEF DeleteJob, QueueTypeOK
  <2>2. QED
    BY <1>1, <1>2, <2>1, WaitingKept, StepsAside DEF history
<1>3. CASE call[c].job = j
  <2>1. \A d \in Callers : call'[d] = IF d = c THEN Call("idle", NoJob, 0) ELSE call[d]
    BY <1>1 DEF QueueTypeOK
  <2>2. \A d \in Callers : Holds(d, j)' <=> Holds(d, j)
    BY <1>1, <2>1, NoJobAssumption DEF Holds, Call
  <2>3. (Held(j)' <=> Held(j)) /\ WaitsAlike(j)
    BY <2>2, WaitingKept DEF Held
  <2>4. Alone(j, S)' /\ Moves(j, S)
    BY <2>2, <2>3 DEF Sound, Alone, WaitsAlike, Located, Moves, history
  <2>5. \A d \in Callers : Deletes(d, j)'
    BY <2>1, NoJobAssumption DEF Sound, Count, Deletes, Call, history
  <2>6. fate[j] \in {"acked", "discarded"} \/ j \in raced \/ dlq[j] > 0
    BY <1>3 DEF Sound, Count, Deletes
  <2>7. CASE j \notin raced
    <3>1. ~ Held(j) /\ (fate[j] \notin S \/ dlq[j] > 0)
      <4>1. CASE dlq[j] > 0
        BY <4>1 DEF Sound, Alone
      <4>2. CASE fate[j] \in {"acked", "discarded"}
        BY <4>2 DEF Sound, Alone, Located, Fates
      <4>3. QED
        BY <2>6, <2>7, <4>1, <4>2
    <3>2. Tally(j, S)'
      BY <3>1 DEF Sound, Count, Tally, history
    <3>3. \A d \in Callers : Work(d, j)'
      BY <2>2, <3>1, IdleWork DEF Held, Holds, Work, HoldPCs, FreshPCs
    <3>4. QED
      BY <2>4, <2>5, <3>2, <3>3 DEF Sound, Count
  <2>8. CASE j \in raced
    <3>1. record'[j] = Absent /\ j \in raced'
      BY <1>3, <2>8 DEF DeleteJob, QueueTypeOK, history
    <3>2. Fresh(j) => Fresh(j)'
      BY <3>1 DEF Fresh, Stored, history
    <3>3. Tally(j, S)'
      BY <2>3, <3>1, <3>2 DEF Sound, Count, Tally, history
    <3>4. ASSUME NEW d \in Callers
          PROVE  Work(d, j)'
      <4>1. CASE d = c
        BY <2>1, <4>1, NoJobAssumption DEF Work, Call
      <4>2. CASE d # c
        <5>1. call'[d] = call[d] /\ Work(d, j)
          BY <2>1, <4>2 DEF Sound, Count
        <5>2. QED
          BY <3>1, <3>2, <5>1 DEF Work, Stored, history
      <4>3. QED
        BY <4>1, <4>2
    <3>5. QED
      BY <2>4, <2>5, <3>3, <3>4 DEF Sound, Count
  <2>9. QED
    BY <2>7, <2>8
<1>4. QED
  BY <1>2, <1>3

LEMMA ClientSound ==
  ASSUME QueueTypeOK, NEW S \in Fates, NEW j \in Jobs, Sound(j, S),
         NEW c \in Clients, ClientStep(c)
  PROVE  Sound(j, S)' /\ Moves(j, S)
<1>0. c \in Callers
  BY DEF Callers
<1>1. ASSUME NEW i \in Jobs, NEW pc \in {"push.list", "push.delay"}, PushRecord(c, i, pc)
      PROVE  Sound(j, S)' /\ Moves(j, S)
  BY <1>1, PushRecordSound
<1>2. CASE PushList(c) \/ PushDelay(c)
  BY <1>0, <1>2, ListsSound DEF PushList, PushDelay, At, Return, Idle, FreshPCs, DonePCs
<1>3. ASSUME NEW i \in Jobs, RedriveTake(c, i) \/ DiscardTake(c, i)
      PROVE  Sound(j, S)' /\ Moves(j, S)
  BY <1>3, RedriveTakeSound, DiscardTakeSound
<1>4. CASE RedriveSet(c)
  <2>1. /\ call[c].pc \in HoldPCs /\ "push.list" \in HoldPCs
        /\ call' = [call EXCEPT ![c] = Call("push.list", call[c].job, call[c].tries)]
    BY <1>4 DEF RedriveSet, At, HoldPCs, Goto
  <2>2. call[c].job # j => UNCHANGED <<record[j], failures[j]>>
    BY <1>4 DEF RedriveSet, SetJob, QueueTypeOK
  <2>3. call[c].job = j => Work(c, j)'
    BY <1>0, <1>4, <2>1, MaxAttemptsAssumption
    DEF RedriveSet, SetJob, Work, Fresh, Stored, Call, QueueTypeOK
  <2>4. QED
    BY <1>0, <1>4, <2>1, <2>2, <2>3, GoesSound DEF RedriveSet
<1>5. CASE DiscardDelete(c)
  BY <1>0, <1>5, DeletesSound DEF DiscardDelete, At
<1>6. QED
  BY <1>1, <1>2, <1>3, <1>4, <1>5 DEF ClientStep

LEMMA MoveTakeSound ==
  ASSUME QueueTypeOK, NEW S \in Fates, NEW j \in Jobs, Sound(j, S),
         NEW p \in Pollers, NEW i \in Jobs, MoveTake(p, i)
  PROVE  Sound(j, S)' /\ Moves(j, S)
<1>1. /\ p \in Callers /\ "move.list" \in HoldPCs /\ call[p].pc \notin HoldPCs
      /\ call' = [call EXCEPT ![p] = Call("move.list", i, 0)]
  BY DEF Callers, HoldPCs, MoveTake, At, Begin
<1>2. WaitsAlike(j) /\ UNCHANGED <<dlq, record, fate, failures, raced>>
  BY WaitingKept DEF MoveTake, history
<1>3. CASE i # j
  <2>1. delayed'[j] = delayed[j]
    BY <1>3 DEF MoveTake, ZRem, QueueTypeOK
  <2>2. QED
    BY <1>1, <1>2, <1>3, <2>1, StepsAside
<1>4. CASE i = j
  <2>1. delayed[j] # "none" /\ delayed'[j] = "none"
    BY <1>4 DEF MoveTake, ZRem, ZRemRemoves, QueueTypeOK
  <2>2. /\ Located(j) /\ ~ Held(j) /\ Once(j) /\ fate[j] \in S
        /\ ~ InWaiting(j) /\ dlq[j] = 0 /\ Fresh(j)
    BY <2>1, ListedKnows
  <2>3. Fresh(j)'
    BY <1>2, <2>2 DEF Fresh, Stored
  <2>4. Work(p, j)'
    BY <1>1, <2>3 DEF Work, Call, QueueTypeOK
  <2>5. Sound(j, S)' /\ Located(j)'
    BY <1>1, <1>2, <1>4, <2>1, <2>2, <2>4, TakenUp DEF WaitsAlike
  <2>6. QED
    BY <1>2, <2>2, <2>5 DEF Moves
<1>5. QED
  BY <1>3, <1>4

LEMMA MoveSound ==
  ASSUME QueueTypeOK, NEW S \in Fates, NEW j \in Jobs, Sound(j, S),
         NEW p \in Pollers, Move(p)
  PROVE  Sound(j, S)' /\ Moves(j, S)
<1>0. p \in Callers
  BY DEF Callers
<1>1. CASE MoveBegin(p)
  BY <1>0, <1>1, AimlessSound DEF MoveBegin, At, Goto, HoldPCs, DonePCs, store
<1>2. ASSUME NEW i \in Jobs, MoveTake(p, i)
      PROVE  Sound(j, S)' /\ Moves(j, S)
  BY <1>2, MoveTakeSound
<1>3. ASSUME NEW i \in Jobs, MoveSkip(p, i)
      PROVE  Sound(j, S)' /\ Moves(j, S)
  BY <1>3, WaitingKept, Untouched DEF MoveSkip, store, history
<1>4. CASE MoveList(p)
  BY <1>0, <1>4, ListsSound DEF MoveList, At, Begin, FreshPCs, DonePCs
<1>5. CASE MoveEnd(p)
  BY <1>0, <1>5, AimlessSound DEF MoveEnd, At, Goto, HoldPCs, DonePCs, store
<1>6. QED
  BY <1>1, <1>2, <1>3, <1>4, <1>5 DEF Move

LEMMA PopTakeSound ==
  ASSUME QueueTypeOK, NEW S \in Fates, NEW j \in Jobs, Sound(j, S),
         NEW p \in Pollers, PopTake(p)
  PROVE  Sound(j, S)' /\ Moves(j, S)
<1>1. PICK i \in Jobs : i = waiting[Len(waiting)]
  BY PoppedLeaves DEF PopTake, QueueTypeOK
<1>2. /\ p \in Callers /\ "pop.activate" \in HoldPCs /\ call[p].pc \notin HoldPCs
      /\ call' = [call EXCEPT ![p] = Call("pop.activate", i, 0)]
      /\ UNCHANGED <<delayed, dlq, record, fate, failures, raced>>
  BY <1>1 DEF Callers, HoldPCs, PopTake, At, Begin, history
<1>3. CASE i # j
  <2>1. WaitsAlike(j)
    BY <1>1, <1>3, PoppedLeaves DEF PopTake, QueueTypeOK
  <2>2. QED
    BY <1>2, <1>3, <2>1, StepsAside
<1>4. CASE i = j
  <2>1. InWaiting(j) /\ ~ InWaiting(j)' /\ Once(j)'
    BY <1>1, <1>4, PoppedLeaves DEF PopTake, QueueTypeOK, Sound, Alone
  <2>2. /\ Located(j) /\ ~ Held(j) /\ fate[j] \in S
        /\ delayed[j] = "none" /\ dlq[j] = 0 /\ Fresh(j)
    BY <2>1, ListedKnows
  <2>3. Fresh(j)'
    BY <1>2, <2>2 DEF Fresh, Stored
  <2>4. Work(p, j)'
    BY <1>2, <2>3 DEF Work, Call, QueueTypeOK
  <2>5. Sound(j, S)' /\ Located(j)'
    BY <1>2, <1>4, <2>1, <2>2, <2>4, TakenUp
  <2>6. QED
    BY <1>2, <2>2, <2>5 DEF Moves
<1>5. QED
  BY <1>3, <1>4

LEMMA PopSound ==
  ASSUME QueueTypeOK, NEW S \in Fates, NEW j \in Jobs, Sound(j, S),
         NEW p \in Pollers, NEW after \in {"idle", "requeue"},
         PopEmpty(p, after) \/ PopTake(p) \/ PopActivate(p) \/ PopRead(p) \/ PopGhost(p, after)
  PROVE  Sound(j, S)' /\ Moves(j, S)
<1>0. p \in Callers /\ after \in DonePCs
  BY DEF Callers, DonePCs
<1>1. CASE PopEmpty(p, after)
  BY <1>0, <1>1, AimlessSound DEF PopEmpty, At, Begin, HoldPCs, store
<1>2. CASE PopTake(p)
  BY <1>2, PopTakeSound
<1>3. CASE PopActivate(p)
  <2>1. /\ call[p].pc \in HoldPCs /\ "pop.read" \in HoldPCs
        /\ call' = [call EXCEPT ![p] = Call("pop.read", call[p].job, call[p].tries)]
        /\ UNCHANGED <<waiting, delayed, dlq, record, fate, failures, raced>>
    BY <1>3 DEF PopActivate, At, HoldPCs, Goto, history
  <2>2. call[p].job = j => Work(p, j)'
    <3>1. Work(p, j) /\ (call[p].job = j => Fresh(j))
      BY <1>0, <1>3 DEF Sound, Count, Work, PopActivate, At, FreshPCs
    <3>2. QED
      BY <1>0, <2>1, <3>1 DEF Work, Call, Fresh, Stored, QueueTypeOK
  <2>3. QED
    BY <1>0, <2>1, <2>2, GoesSound
<1>4. CASE PopRead(p)
  <2>1. /\ call[p].pc \in HoldPCs /\ "popped" \in HoldPCs
        /\ call' = [call EXCEPT ![p] = Call("popped", call[p].job, record[call[p].job])]
        /\ UNCHANGED <<waiting, delayed, dlq, record, fate, failures, raced>>
    BY <1>4 DEF PopRead, At, HoldPCs, store, history
  <2>2. call[p].job = j => Work(p, j)'
    <3>1. call[p].job = j => Fresh(j) /\ record[j] = failures[j]
      BY <1>0, <1>4 DEF Sound, Count, Work, PopRead, At, FreshPCs, Fresh, Stored
    <3>2. QED
      BY <1>0, <2>1, <3>1 DEF Work, Call, Fresh, Stored, QueueTypeOK
  <2>3. QED
    BY <1>0, <2>1, <2>2, GoesSound
<1>5. CASE PopGhost(p, after)
  <2>1. call[p].pc \in HoldPCs
    BY <1>5 DEF PopGhost, At, HoldPCs
  <2>2. call[p].job = j => j \in raced
    <3>1. call[p].job = j => Stored(j, failures[j]) /\ record[j] = Absent /\ failures[j] \in Nat
      BY <1>0, <1>5 DEF Sound, Count, Work, PopGhost, At, FreshPCs, Fresh, QueueTypeOK
    <3>2. QED
      BY <3>1 DEF Stored, Absent
  <2>3. QED
    BY <1>0, <1>5, <2>1, <2>2, LosesSound DEF PopGhost, Begin, store
<1>6. QED
  BY <1>1, <1>2, <1>3, <1>4, <1>5

LEMMA NackGetSound ==
  ASSUME QueueTypeOK, NEW S \in Fates, NEW j \in Jobs, Sound(j, S),
         NEW c \in Callers, NackGet(c)
  PROVE  Sound(j, S)' /\ Moves(j, S)
<1>1. PICK k \in Jobs : k = call[c].job
  BY DEF NackGet, At, QueueTypeOK, HoldPCs
<1>2. PICK pc \in {"nack.gone", "dlq.lrem", "retry.lrem"} :
        /\ pc = IF record[k] = Absent THEN "nack.gone"
                ELSE IF record[k] + 1 >= MaxAttempts THEN "dlq.lrem" ELSE "retry.lrem"
        /\ call' = [call EXCEPT ![c] = Call(pc, k, record[k] + 1)]
  BY <1>1 DEF NackGet, IncrementAttempts, IsExhausted
<1>3. /\ call[c].pc \in HoldPCs /\ pc \in HoldPCs
      /\ UNCHANGED <<waiting, delayed, dlq, record, fate, failures, raced>>
  BY DEF NackGet, At, HoldPCs, store, history
<1>4. ASSUME k = j
      PROVE  Work(c, j)'
  <2>1. failures[j] \in 1..MaxAttempts /\ Stored(j, failures[j] - 1)
    BY <1>1, <1>4 DEF Sound, Count, Work, NackGet, At
  <2>2. call'[c] = Call(pc, j, record[j] + 1)
    BY <1>2, <1>4 DEF QueueTypeOK
  <2>3. CASE record[j] = Absent
    <3>1. pc = "nack.gone" /\ j \in raced
      BY <1>2, <1>4, <2>1, <2>3 DEF Stored, Absent
    <3>2. QED
      BY <1>3, <2>2, <3>1 DEF Work, Call, FreshPCs
  <2>4. CASE record[j] # Absent
    <3>1. record[j] + 1 = failures[j] /\ failures[j] <= MaxAttempts
      BY <2>1, <2>4, MaxAttemptsAssumption DEF Stored
    <3>2. pc = "dlq.lrem" => failures[j] = MaxAttempts
      BY <1>2, <1>4, <2>1, <2>4, <3>1, MaxAttemptsAssumption
    <3>3. pc = "retry.lrem" => failures[j] < MaxAttempts
      BY <1>2, <1>4, <2>1, <2>4, <3>1, MaxAttemptsAssumption
    <3>4. pc # "nack.gone"
      BY <1>2, <1>4, <2>4
    <3>5. QED
      BY <1>3, <2>2, <3>1, <3>2, <3>3, <3>4 DEF Work, Call, FreshPCs
  <2>5. QED
    BY <2>3, <2>4
<1>5. QED
  BY <1>1, <1>2, <1>3, <1>4, GoesSound

\* The record is written with the count of the attempts, then the job delayed.
LEMMA AckNackSound ==
  ASSUME QueueTypeOK, NEW S \in Fates, NEW j \in Jobs, Sound(j, S),
         NEW c \in Callers, Ack(c) \/ Nack(c)
  PROVE  Sound(j, S)' /\ Moves(j, S)
<1>1. CASE AckRemove(c)
  <2>1. \A d \in Callers :
          call'[d] = IF d = c THEN Call("ack.delete", call[c].job, call[c].tries) ELSE call[d]
    BY <1>1 DEF AckRemove, Goto, QueueTypeOK
  <2>2. \A d \in Callers : Holds(d, j)' <=> Holds(d, j)
    BY <1>1, <2>1 DEF AckRemove, At, Holds, Call, HoldPCs
  <2>3. (Held(j)' <=> Held(j)) /\ WaitsAlike(j) /\ (Fresh(j)' <=> Fresh(j))
    BY <1>1, <2>2, WaitingKept DEF AckRemove, Held, Fresh, Stored, history
  <2>4. UNCHANGED <<delayed, dlq, record, fate, failures, raced>>
    BY <1>1 DEF AckRemove, history
  <2>5. Alone(j, S)' /\ Tally(j, S)' /\ Moves(j, S)
    BY <2>2, <2>3, <2>4 DEF Sound, Count, Alone, Tally, Moves, WaitsAlike, Located
  <2>6. ASSUME NEW d \in Callers
        PROVE  Work(d, j)' /\ Deletes(d, j)'
    <3>1. Work(d, j) /\ Deletes(d, j)
      BY DEF Sound, Count
    <3>2. CASE d = c
      BY <1>1, <2>1, <2>4, <3>1, <3>2 DEF AckRemove, At, Work, Deletes, Call, FreshPCs
    <3>3. CASE d # c
      BY <2>1, <2>3, <2>4, <3>1, <3>3 DEF Work, Deletes, Stored
    <3>4. QED
      BY <3>2, <3>3
  <2>7. QED
    BY <2>5, <2>6 DEF Sound, Count
<1>2. CASE AckDelete(c)
  BY <1>2, DeletesSound DEF AckDelete, At
<1>3. CASE NackGet(c)
  BY <1>3, NackGetSound
<1>4. CASE NackGone(c)
  <2>1. call[c].pc \in HoldPCs /\ "idle" \in DonePCs /\ (call[c].job = j => j \in raced)
    BY <1>4 DEF NackGone, At, HoldPCs, DonePCs, Sound, Count, Work
  <2>2. QED
    BY <1>4, <2>1, LosesSound DEF NackGone, Return, Idle
<1>5. CASE RetryRemove(c)
  <2>1. /\ call[c].pc \in HoldPCs /\ "retry.set" \in HoldPCs
        /\ call' = [call EXCEPT ![c] = Call("retry.set", call[c].job, call[c].tries)]
        /\ UNCHANGED <<waiting, delayed, dlq, record, fate, failures, raced>>
    BY <1>5 DEF RetryRemove, At, HoldPCs, Goto, history
  <2>2. call[c].job = j => Work(c, j)'
    BY <1>5, <2>1 DEF RetryRemove, At, Sound, Count, Work, Call, FreshPCs, QueueTypeOK
  <2>3. QED
    BY <2>1, <2>2, GoesSound
<1>6. CASE RetrySet(c)
  <2>1. /\ call[c].pc \in HoldPCs /\ "retry.delay" \in HoldPCs
        /\ call' = [call EXCEPT ![c] = Call("retry.delay", call[c].job, call[c].tries)]
        /\ UNCHANGED <<waiting, delayed, dlq, fate, failures, raced>>
    BY <1>6 DEF RetrySet, At, HoldPCs, Goto, history
  <2>2. call[c].job # j => record'[j] = record[j]
    BY <1>6 DEF RetrySet, SetJob, QueueTypeOK
  <2>3. call[c].job = j => record'[j] = failures[j] /\ failures[j] < MaxAttempts
    BY <1>6 DEF RetrySet, At, SetJob, Sound, Count, Work, QueueTypeOK
  <2>4. call[c].job = j => Work(c, j)'
    BY <2>1, <2>3 DEF Work, Fresh, Stored, Call, FreshPCs, QueueTypeOK
  <2>5. QED
    BY <2>1, <2>2, <2>4, GoesSound
<1>7. CASE RetryDelay(c)
  BY <1>7, ListsSound DEF RetryDelay, At, Return, Idle, FreshPCs, DonePCs
<1>8. CASE DlqRemove(c)
  <2>1. /\ call[c].pc \in HoldPCs /\ "dlq.push" \in HoldPCs
        /\ call' = [call EXCEPT ![c] = Call("dlq.push", call[c].job, call[c].tries)]
        /\ UNCHANGED <<waiting, delayed, dlq, record, fate, failures, raced>>
    BY <1>8 DEF DlqRemove, At, HoldPCs, Goto, history
  <2>2. call[c].job = j => Work(c, j)'
    BY <1>8, <2>1 DEF DlqRemove, At, Sound, Count, Work, Call, FreshPCs, QueueTypeOK
  <2>3. QED
    BY <2>1, <2>2, GoesSound
<1>9. CASE DlqPush(c)
  <2>1. /\ call[c].pc \in HoldPCs /\ "dlq.delete" \notin HoldPCs /\ call[c].job \in Jobs
        /\ call' = [call EXCEPT ![c] = Call("dlq.delete", call[c].job, call[c].tries)]
        /\ UNCHANGED <<waiting, delayed, record, fate, failures, raced>>
        /\ WaitsAlike(j)
    BY <1>9, WaitingKept DEF DlqPush, At, HoldPCs, Goto, QueueTypeOK, history
  <2>2. CASE call[c].job # j
    <3>1. dlq'[j] = dlq[j]
      BY <1>9, <2>2 DEF DlqPush, LPushDlq, QueueTypeOK
    <3>2. QED
      BY <2>1, <2>2, <3>1, StepsAside
  <2>3. CASE call[c].job = j
    <3>1. ~ InWaiting(j) /\ delayed[j] = "none" /\ dlq[j] = 0 /\ Once(j) /\ failures[j] = MaxAttempts
      BY <1>9, <2>1, <2>3, HolderKnows DEF DlqPush, At, Work, Sound, Alone
    <3>2. dlq'[j] = 1
      BY <1>9, <2>3, <3>1 DEF DlqPush, LPushDlq, QueueTypeOK
    <3>3. Deletes(c, j)'
      BY <2>1, <3>2 DEF Deletes, Call, QueueTypeOK
    <3>4. Once(j)' /\ ~ InWaiting(j)' /\ delayed'[j] = "none" /\ failures'[j] = MaxAttempts
      BY <2>1, <3>1 DEF WaitsAlike
    <3>5. Sound(j, S)' /\ (dlq'[j] > 0 => Moves(j, S))
      BY <2>1, <2>3, <3>2, <3>3, <3>4, HolderLetsGo
    <3>6. QED
      BY <3>2, <3>5
  <2>4. QED
    BY <2>2, <2>3
<1>10. CASE DlqDelete(c)
  BY <1>10, DeletesSound DEF DlqDelete, At
<1>11. QED
  BY <1>1, <1>2, <1>3, <1>4, <1>5, <1>6, <1>7, <1>8, <1>9, <1>10 DEF Ack, Nack, MoveToDlq

LEMMA BecomeDueSound ==
  ASSUME QueueTypeOK, NEW S \in Fates, NEW j \in Jobs, Sound(j, S), NEW i \in Jobs, BecomeDue(i)
  PROVE  Sound(j, S)' /\ Moves(j, S)
<1>1. delayed'[j] = "none" <=> delayed[j] = "none"
  BY DEF BecomeDue, QueueTypeOK
<1>2. QED
  BY <1>1, WaitingKept, Untouched DEF BecomeDue, history

LEMMA QueueKeptSound ==
  ASSUME QueueTypeOK, NEW S \in Fates, NEW j \in Jobs, Sound(j, S), UNCHANGED queueVars
  PROVE  Sound(j, S)' /\ Moves(j, S)
  BY WaitingKept, Untouched DEF queueVars, store, history

LEMMA QueueInitSound ==
  ASSUME QueueInit, NEW S \in Fates, NEW j \in Jobs
  PROVE  Sound(j, S) /\ ~ Located(j) /\ fate[j] \notin S
<1>1. \A c \in Callers : call[c].pc = "idle"
  BY DEF QueueInit, Idle, Call
<1>2. ~ Held(j)
  BY <1>1 DEF Held, Holds, HoldPCs
<1>3. ~ InWaiting(j) /\ delayed[j] = "none" /\ dlq[j] = 0 /\ fate[j] = "new" /\ failures[j] = 0
  BY DEF QueueInit, InWaiting
<1>4. ~ Located(j) /\ fate[j] \notin S
  BY <1>2, <1>3 DEF Located, Fates
<1>5. Once(j)
  BY DEF QueueInit, Once
<1>6. Alone(j, S)
  BY <1>1, <1>3, <1>4, <1>5 DEF Alone, Holds, HoldPCs
<1>7. Tally(j, S)
  BY <1>3, <1>4 DEF Tally
<1>8. \A c \in Callers : Work(c, j) /\ Deletes(c, j)
  BY <1>1 DEF Work, Deletes, FreshPCs
<1>9. QED
  BY <1>4, <1>6, <1>7, <1>8 DEF Sound, Count

\* A loop gives the job it popped to an idle task, which runs its handler.
LEMMA SpawnSound ==
  ASSUME QueueTypeOK, NEW S \in Fates, NEW j \in Jobs, Sound(j, S),
         NEW p \in Callers, NEW t \in Callers, p # t, At(p, "popped"), At(t, "idle"),
         call' = [call EXCEPT ![t] = Call("handling", call[p].job, call[p].tries),
                              ![p] = Call("poll", NoJob, 0)],
         UNCHANGED <<waiting, delayed, dlq, record, fate, failures, raced>>
  PROVE  Sound(j, S)' /\ Moves(j, S)
<1>1. /\ call'[p].pc = "poll" /\ call'[p].job = NoJob
      /\ call'[t].pc = "handling" /\ call'[t].job = call[p].job /\ call'[t].tries = call[p].tries
      /\ \A d \in Callers \ {p, t} : call'[d] = call[d]
  BY DEF QueueTypeOK, Call
<1>2. call[p].pc = "popped" /\ call[t].pc = "idle" /\ WaitsAlike(j)
  BY WaitingKept DEF At
<1>3. CASE call[p].job # j
  <2>1. \A d \in Callers :
          \/ call'[d] = call[d]
          \/ /\ call[d].job # j \/ call[d].pc \notin HoldPCs
             /\ call'[d].job # j \/ call'[d].pc \in DonePCs
    <3> TAKE d \in Callers
    <3>1. CASE d = p
      BY <1>1, <1>3, <3>1, NoJobAssumption
    <3>2. CASE d = t
      BY <1>1, <1>2, <1>3, <3>2 DEF HoldPCs
    <3>3. CASE d # p /\ d # t
      BY <1>1, <3>3
    <3>4. QED
      BY <3>1, <3>2, <3>3
  <2>2. QED
    BY <1>2, <2>1, Untouched
<1>4. CASE call[p].job = j
  <2>1. call[p].pc \in HoldPCs
    BY <1>2 DEF HoldPCs
  <2>2. /\ \A d \in Callers : Holds(d, j) <=> d = p
        /\ Located(j) /\ ~ InWaiting(j) /\ delayed[j] = "none" /\ dlq[j] = 0
        /\ fate[j] \in S /\ Work(p, j)
    BY <1>4, <2>1, HolderKnows
  <2>3. \A d \in Callers : Holds(d, j)' <=> d = t
    <3> TAKE d \in Callers
    <3>1. CASE d = p
      BY <1>1, <3>1, NoJobAssumption DEF Holds
    <3>2. CASE d = t
      BY <1>1, <1>4, <3>2 DEF Holds, HoldPCs
    <3>3. CASE d # p /\ d # t
      BY <1>1, <2>2, <3>3 DEF Holds
    <3>4. QED
      BY <3>1, <3>2, <3>3
  <2>4. Held(j)' /\ Located(j)'
    BY <2>3 DEF Held, Located
  <2>5. Alone(j, S)' /\ Tally(j, S)' /\ Moves(j, S)
    BY <1>2, <2>2, <2>3, <2>4 DEF Sound, Count, Alone, Tally, Moves, WaitsAlike
  <2>6. Fresh(j) /\ call[p].tries = failures[j] /\ Fresh(j)'
    BY <1>2, <1>4, <2>2 DEF Work, FreshPCs, Fresh, Stored
  <2>7. ASSUME NEW d \in Callers, call'[d].job = j
        PROVE  Work(d, j)' /\ Deletes(d, j)'
    <3>1. CASE d = t
      <4>1. call'[d].pc = "handling" /\ call'[d].tries = failures'[j]
        BY <1>1, <2>6, <3>1
      <4>2. QED
        BY <2>6, <4>1 DEF Work, Deletes
    <3>2. CASE d # t
      <4>1. call'[d] = call[d] /\ d # p
        BY <1>1, <2>7, <3>2, NoJobAssumption
      <4>2. call[d].pc \notin HoldPCs
        BY <2>2, <2>7, <4>1 DEF Holds
      <4>3. Work(d, j)'
        BY <4>1, <4>2 DEF Work, HoldPCs, FreshPCs
      <4>4. Deletes(d, j)
        BY DEF Sound, Count
      <4>5. Deletes(d, j)'
        BY <4>1, <4>4 DEF Deletes
      <4>6. QED
        BY <4>3, <4>5
    <3>3. QED
      BY <3>1, <3>2
  <2>8. QED
    BY <2>5, <2>7 DEF Sound, Count, Work, Deletes
<1>5. QED
  BY <1>3, <1>4

\* A handler fails: the failure is counted, and the caller goes on to nack or
\* to try again.
LEMMA FailsSound ==
  ASSUME QueueTypeOK, NEW S \in Fates, NEW j \in Jobs, Sound(j, S),
         NEW c \in Callers, At(c, "handling"),
         NEW pc \in HoldPCs, NEW n, call' = [call EXCEPT ![c] = Call(pc, call[c].job, n)],
         failures' = [failures EXCEPT ![call[c].job] = @ + 1],
         UNCHANGED <<waiting, delayed, dlq, record, fate, raced>>,
         \/ pc = "nack.get"
         \/ n = call[c].tries + 1 /\ pc = (IF n >= MaxAttempts THEN "dlq.lrem" ELSE "backoff")
  PROVE  Sound(j, S)' /\ Moves(j, S)
<1>1. call[c].pc \in HoldPCs /\ (call[c].job # j => failures'[j] = failures[j])
  BY DEF At, HoldPCs, QueueTypeOK
<1>2. ASSUME call[c].job = j
      PROVE  Work(c, j)'
  <2>1. Fresh(j) /\ call[c].tries = failures[j] /\ failures[j] \in Nat
    BY <1>2 DEF Sound, Count, Work, At, FreshPCs, QueueTypeOK
  <2>2. call'[c] = Call(pc, j, n) /\ failures'[j] = failures[j] + 1
    BY <1>2 DEF QueueTypeOK
  <2>3. failures'[j] \in 1..MaxAttempts /\ failures'[j] - 1 = failures[j]
    BY <2>1, <2>2, MaxAttemptsAssumption DEF Fresh
  <2>4. CASE pc = "nack.get"
    BY <2>1, <2>2, <2>3, <2>4 DEF Work, Call, FreshPCs, Fresh, Stored
  <2>5. CASE n = call[c].tries + 1 /\ pc = IF n >= MaxAttempts THEN "dlq.lrem" ELSE "backoff"
    <3>1. n = failures'[j]
      BY <2>1, <2>2, <2>5
    <3>2. \/ pc = "dlq.lrem" /\ failures'[j] = MaxAttempts
          \/ pc = "backoff" /\ failures'[j] < MaxAttempts
      <4>1. CASE n >= MaxAttempts
        BY <2>3, <2>5, <3>1, <4>1, MaxAttemptsAssumption
      <4>2. CASE ~ n >= MaxAttempts
        BY <2>3, <2>5, <3>1, <4>2, MaxAttemptsAssumption
      <4>3. QED
        BY <4>1, <4>2
    <3>3. QED
      BY <2>2, <3>1, <3>2 DEF Work, Call, FreshPCs
  <2>6. QED
    BY <2>4, <2>5
<1>3. QED
  BY <1>1, <1>2, GoesSound

\* A handler succeeds: the job is settled.
LEMMA SucceedsSound ==
  ASSUME QueueTypeOK, NEW S \in Fates, NEW j \in Jobs, Sound(j, S),
         NEW c \in Callers, At(c, "handling"),
         Goto(c, "ack.lrem"), Settle(call[c].job, "acked"),
         UNCHANGED <<waiting, delayed, dlq, record, failures, raced>>
  PROVE  Sound(j, S)' /\ Moves(j, S)
<1>1. /\ call[c].pc \in HoldPCs /\ "ack.lrem" \notin HoldPCs /\ call[c].job \in Jobs
      /\ call' = [call EXCEPT ![c] = Call("ack.lrem", call[c].job, call[c].tries)]
      /\ WaitsAlike(j)
  BY WaitingKept DEF At, HoldPCs, Goto, QueueTypeOK
<1>2. CASE call[c].job # j
  <2>1. fate'[j] = fate[j]
    BY <1>2 DEF Settle, QueueTypeOK
  <2>2. QED
    BY <1>1, <1>2, <2>1, StepsAside
<1>3. CASE call[c].job = j
  <2>1. fate'[j] = "acked" /\ "acked" \notin S
    BY <1>3 DEF Settle, QueueTypeOK, Fates
  <2>2. Deletes(c, j)'
    BY <1>1, <2>1 DEF Deletes, Call, QueueTypeOK
  <2>3. QED
    BY <1>1, <1>3, <2>1, <2>2, HolderSettles
<1>4. QED
  BY <1>2, <1>3
=============================================================================
