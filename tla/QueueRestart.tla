---------------------------- MODULE QueueRestart ----------------------------
(***************************************************************************)
(* A file-based queue whose engine crashes and starts again.  What is left *)
(* is what the save loops wrote: every job record is an index of the       *)
(* key-value store with a file of its own (kv.rs), all lists share one     *)
(* file and all sorted sets another (queue_kv.rs).  A file is replaced as  *)
(* a whole by a copy of what is in memory, each at a time of its own.      *)
(* The next engine loads the files and rebuild_from_storage (queue.rs)     *)
(* makes a queue of them before anyone may use it.                         *)
(***************************************************************************)
EXTENDS ConcurrentWorker

CONSTANT MaxCrashes   \* a bound for TLC

ASSUME MaxCrashesAssumption == MaxCrashes \in Nat

VARIABLES
  disk,      \* the files: fields waiting, active, dlq; delayed; record
  crashes,   \* number of crashes so far
  \* History, for the properties only.
  torn,      \* jobs that the last restart to find them found not once, or with no record
  buried     \* jobs that were settled, and whose record file has gone since

restartVars == <<vars, disk, crashes, torn, buried>>

RestartInit ==
  /\ Init
  /\ disk = [waiting |-> << >>, active |-> active, dlq |-> dlq,
             delayed |-> delayed, record |-> record]
  /\ crashes = 0
  /\ torn = {}
  /\ buried = {}

QueueStep == Next /\ UNCHANGED <<disk, crashes, torn, buried>>

\* QueueKvStore::save_loop: all lists, or all sorted sets.
SaveLists ==
  /\ disk' = [disk EXCEPT !.waiting = waiting, !.active = active, !.dlq = dlq]
  /\ disk' # disk
  /\ UNCHANGED <<vars, crashes, torn, buried>>

SaveDelayed ==
  /\ disk' = [disk EXCEPT !.delayed = delayed]
  /\ disk' # disk
  /\ UNCHANGED <<vars, crashes, torn, buried>>

\* BuiltinKvStore::save_loop: write the record of job j, or remove its file.
SaveRecord(j) ==
  /\ disk' = [disk EXCEPT !.record[j] = record[j]]
  /\ disk' # disk
  /\ buried' = buried \cup {k \in {j} \ torn : /\ record[k] = Absent
                                             /\ fate[k] \in {"acked", "discarded"}
                                             /\ disk.dlq[k] = 0}
  /\ UNCHANGED <<vars, crashes, torn>>

-----------------------------------------------------------------------------
(***************************************************************************)
(* What the next engine makes of the files.                                *)
(***************************************************************************)
Recorded == {j \in Jobs : disk.record[j] # Absent}

\* has_queue_state: a list or sorted set that is empty is not in the files, but
\* those of other queues are ("others").
HasLists(others) ==
  \/ others
  \/ disk.waiting # << >>
  \/ \E j \in Jobs : disk.active[j] > 0 \/ disk.dlq[j] > 0
HasQueueState(others) == HasLists(others) \/ \E j \in Jobs : disk.delayed[j] # "none"

Orders(S) == {s \in [1..Cardinality(S) -> S] : \A x \in S : \E i \in DOMAIN s : s[i] = x}

\* The lists and sorted sets are loaded as they are, and the due jobs moved, if a
\* record gives the queue's name, which is cut at a colon.  (Time has passed: any
\* job may be due.)
LoadLists ==
  \E due \in SUBSET {j \in Jobs : disk.delayed[j] # "none"} :
    /\ due # {} => Recorded # {} /\ {j \in Jobs : disk.delayed[j] = "due"} \subseteq due
    /\ \E s \in Orders(due) : waiting' = disk.waiting \o s
    /\ delayed' = [j \in Jobs |-> IF j \in due THEN "none" ELSE disk.delayed[j]]

\* Without any, every job of the records waits, or is delayed if its process_at is
\* still to come.
RebuildFromRecords ==
  \E later \in SUBSET Recorded :
    /\ \E s \in Orders(Recorded \ later) : waiting' = s \o disk.waiting
    /\ delayed' = [j \in Jobs |-> IF j \in later THEN "later" ELSE disk.delayed[j]]

Rebuild(others) ==
  /\ active' = disk.active
  /\ dlq' = disk.dlq
  /\ IF HasQueueState(others) THEN LoadLists ELSE RebuildFromRecords

\* Entries of job j in the lists and the sorted set.
Listings(w, d, q, j) ==
  Cardinality({i \in DOMAIN w : w[i] = j}) + q[j] + (IF d[j] = "none" THEN 0 ELSE 1)

Crash ==
  /\ crashes < MaxCrashes
  /\ crashes' = crashes + 1
  /\ \E others \in BOOLEAN : Rebuild(others)
  /\ record' = disk.record
  /\ call' = [c \in Callers |-> Idle]
  /\ ready' = [p \in Pollers |-> {}]
  /\ subs' = [p \in Pollers |-> "new"]
  /\ LET found(j) == Listings(waiting', delayed', dlq', j)
         sound(j) == found(j) = 1 /\ (dlq'[j] = 0 => record'[j] # Absent)
     IN /\ fate' = [j \in Jobs |->
             IF found(j) > 0 THEN "live"
             ELSE IF fate[j] = "live" THEN "stranded" ELSE fate[j]]
        /\ torn' = {j \in Jobs : IF found(j) > 0 THEN ~ sound(j) ELSE j \in torn}
        /\ raced' = {j \in raced : found(j) = 0}
  /\ failures' = [j \in Jobs |->
       IF dlq'[j] > 0 THEN MaxAttempts ELSE IF record'[j] = Absent THEN 0 ELSE record'[j]]
  /\ UNCHANGED <<disk, buried>>

RestartNext ==
  \/ QueueStep
  \/ SaveLists \/ SaveDelayed \/ \E j \in Jobs : SaveRecord(j)
  \/ Crash

RestartSpec == RestartInit /\ [][RestartNext]_restartVars

-----------------------------------------------------------------------------
\* A job the restart found once, with its record, is as safe as one that was
\* pushed since: it stays in one place until it is settled, and only a racing
\* redrive loses it.  What is left of other jobs in the files, in active or in
\* two lists, does not disturb it.
SoundAfterRestart ==
  \A j \in Jobs \ torn :
    /\ IF fate[j] = "live" THEN \E x \in Places(j) : Places(j) = {x}
                           ELSE Places(j) = {}
    /\ fate[j] = "lost" => j \in raced

\* A handler never starts on a job that was settled and whose record file has
\* gone, although the file of the lists may be from before: the id found there
\* has no record.  A job whose record was not yet removed runs again.
BuriedStaysBuried == \A t \in Tasks : At(t, "handling") => call[t].job \notin buried

Saved(j) ==
  /\ disk.record[j] = record[j]
  /\ disk.active[j] = active[j]
  /\ disk.dlq[j] = dlq[j]
  /\ (disk.delayed[j] = "none") = (delayed[j] = "none")
  /\ (\E i \in DOMAIN disk.waiting : disk.waiting[i] = j) = InWaiting(j)

\* A restart keeps every job that is in a list and on which the files agree with
\* the memory, with its attempts and as a dead letter or not, whatever was being
\* done to other jobs.  A job a task is running is not among them: it is in
\* active, and nothing takes it from there.
RestartKeeps ==
  [][Crash =>
      \A j \in Jobs \ (torn \cup raced) :
        Saved(j) /\ fate[j] = "live" /\ (\A c \in Callers : ~ Holds(c, j)) =>
          /\ j \notin torn'
          /\ fate'[j] = "live"
          /\ (dlq'[j] > 0) = (dlq[j] > 0)
          /\ dlq[j] = 0 => record'[j] = record[j]]_restartVars
=============================================================================
