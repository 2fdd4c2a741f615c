------------------------------ MODULE KvStore ------------------------------
(***************************************************************************)
(* BuiltinKvStore with store_method "file_based" (engine/src/builtins/     *)
(* kv.rs): maps in memory, one per index, and a save loop that writes each *)
(* index that changed to a file of its own.  A write changes the map under *)
(* the store's lock, lets go of it, and then marks the index dirty under   *)
(* another; the loop drains the marks and saves the indexes one by one,    *)
(* and what fails is marked again.  reconfigure starts a new loop and      *)
(* tells the old one to stop, which it notices between two batches.  A     *)
(* crash leaves the files, from which the next engine loads its maps.      *)
(***************************************************************************)
EXTENDS FiniteSets, Naturals

CONSTANTS
  Indexes, Keys, Values,
  NoValue,    \* an index map has no entry for the key
  NoMap,      \* no index map, or no file
  Torn,       \* a file that is open and not written out
  Writers,    \* callers of set, update, delete and the lock operations
  Loops,      \* save loops that may exist at the same time
  NoIndex     \* the index of who works on none

ASSUME NoValueAssumption == NoValue \notin Values
ASSUME NoIndexAssumption == NoIndex \notin Indexes

Maps == [Keys -> Values \cup {NoValue}]
ASSUME NoMapAssumption == NoMap \notin Maps /\ Torn \notin Maps /\ NoMap # Torn

VARIABLES
  store,    \* store[i]: the map of index i
  dirty,    \* dirty[i]: what to do with its file: "clean", "upsert", "delete"
  mark,     \* mark[c]: the index writer c has changed and has yet to mark, and how
  file,     \* file[i]: the file of index i
  tmp,      \* tmp[i]: the file it is written to before it is renamed
  loop,     \* loop[l]: the step of save loop l, its index and the map it read
  batch,    \* batch[l]: what loop l drained and has yet to save
  newest,   \* the loop that was started last
  raced     \* history: indexes whose file may have been left behind

vars == <<store, dirty, mark, file, tmp, loop, batch, newest, raced>>
memory == <<store, dirty, mark>>
disk == <<file, tmp>>

EmptyMap == [k \in Keys |-> NoValue]
Nothing == [i \in Indexes |-> "clean"]
Unmarked == [index |-> NoIndex, op |-> "clean"]

\* "fd" is where the file that loop l has open is found now: under its
\* temporary name, its final name, or under none.
Step(pc, i, value, fd) == [pc |-> pc, index |-> i, value |-> value, fd |-> fd]
Unborn == Step("new", NoIndex, NoMap, "none")
Ticking == Step("idle", NoIndex, NoMap, "none")
At(l, pc) == loop[l].pc = pc

IsEmpty(map) == map \in {NoMap, Torn, EmptyMap}
Same(i) == file[i] = store[i] \/ (IsEmpty(file[i]) /\ IsEmpty(store[i]))

Init ==
  /\ store = [i \in Indexes |-> NoMap]
  /\ dirty = Nothing
  /\ mark = [c \in Writers |-> Unmarked]
  /\ file = [i \in Indexes |-> NoMap]
  /\ tmp = [i \in Indexes |-> NoMap]
  /\ newest \in Loops
  /\ loop = [l \in Loops |-> IF l = newest THEN Ticking ELSE Unborn]
  /\ batch = [l \in Loops |-> Nothing]
  /\ raced = {}

-----------------------------------------------------------------------------
(***************************************************************************)
(* The writes.  try_acquire_lock and update change the map as set does,    *)
(* and release_lock as delete does.                                        *)
(***************************************************************************)
With(map, k, v) == [(IF map = NoMap THEN EmptyMap ELSE map) EXCEPT ![k] = v]

Set(c, i, k, v) ==
  /\ mark[c] = Unmarked
  /\ store' = [store EXCEPT ![i] = With(@, k, v)]
  /\ mark' = [mark EXCEPT ![c] = [index |-> i, op |-> "upsert"]]
  /\ UNCHANGED <<dirty, disk, loop, batch, newest, raced>>

\* What delete marks: an index whose last entry went loses its file.  A variant
\* just above a definition is a mistake the properties must catch.
DeleteUnmarked(map) == "clean"
DeleteOp(map) == IF IsEmpty(map) THEN "delete" ELSE "upsert"

Delete(c, i, k) ==
  /\ mark[c] = Unmarked
  /\ store[i] # NoMap
  /\ store[i][k] # NoValue
  /\ store' = [store EXCEPT ![i] = With(@, k, NoValue)]
  /\ mark' = [mark EXCEPT ![c] = [index |-> i, op |-> DeleteOp(store'[i])]]
  /\ UNCHANGED <<dirty, disk, loop, batch, newest, raced>>

\* History: "delete" replaces the mark of a map that has entries again, and no
\* other writer is about to mark it.
Overrides(i, op, others) ==
  /\ op = "delete"
  /\ ~ IsEmpty(store[i])
  /\ \A c \in others : mark[c] # [index |-> i, op |-> "upsert"]

MarkDirty(c) ==
  LET i == mark[c].index
      op == mark[c].op
  IN /\ mark[c] # Unmarked
     /\ dirty' = [dirty EXCEPT ![i] = op]
     /\ mark' = [mark EXCEPT ![c] = Unmarked]
     /\ raced' = raced \cup {x \in {i} : Overrides(i, op, Writers \ {c})}
     /\ UNCHANGED <<store, disk, loop, batch, newest>>

-----------------------------------------------------------------------------
(***************************************************************************)
(* The save loop.                                                          *)
(***************************************************************************)
\* reconfigure: spawn_save_loop sends "stop" to the previous loop.
Reconfigure(l) ==
  /\ At(l, "new")
  /\ newest' = l
  /\ loop' = [loop EXCEPT ![l] = Ticking]
  /\ UNCHANGED <<memory, disk, batch, raced>>

StopAny(l) ==
  /\ At(l, "idle")
  /\ loop' = [loop EXCEPT ![l] = Unborn]
  /\ UNCHANGED <<memory, disk, batch, newest, raced>>

\* select takes any of its branches that are ready: a loop told to stop may
\* still take a tick.
Stop(l) ==
  /\ At(l, "idle")
  /\ l # newest
  /\ loop' = [loop EXCEPT ![l] = Unborn]
  /\ UNCHANGED <<memory, disk, batch, newest, raced>>

\* Loops that have index i drained and not yet saved.
Has(l, i) == batch[l][i] # "clean" \/ loop[l].index = i

Drain(l) ==
  /\ At(l, "idle")
  /\ dirty # Nothing
  /\ batch' = [batch EXCEPT ![l] = dirty]
  /\ dirty' = Nothing
  /\ loop' = [loop EXCEPT ![l] = Step("next", NoIndex, NoMap, "none")]
  /\ raced' = raced \cup {i \in Indexes : dirty[i] # "clean" /\ \E m \in Loops \ {l} : Has(m, i)}
  /\ UNCHANGED <<store, mark, disk, newest>>

Drained(l) ==
  /\ At(l, "next")
  /\ batch[l] = Nothing
  /\ loop' = [loop EXCEPT ![l] = Ticking]
  /\ UNCHANGED <<memory, disk, batch, newest, raced>>

\* Upsert: read the map; persist_index_to_disk opens the temporary file,
\* writes it, and renames it.
Read(l, i) ==
  /\ At(l, "next")
  /\ batch[l][i] = "upsert"
  /\ batch' = [batch EXCEPT ![l][i] = "clean"]
  /\ loop' = [loop EXCEPT ![l] =
       IF store[i] = NoMap THEN Step("next", NoIndex, NoMap, "none")
                           ELSE Step("open", i, store[i], "none")]
  /\ UNCHANGED <<memory, disk, newest, raced>>

OpenFile(l) ==
  /\ At(l, "open")
  /\ file' = [file EXCEPT ![loop[l].index] = Torn]
  /\ loop' = [loop EXCEPT ![l] = Step("write", @.index, @.value, "file")]
  /\ UNCHANGED <<memory, tmp, batch, newest, raced>>

Open(l) ==
  /\ At(l, "open")
  /\ tmp' = [tmp EXCEPT ![loop[l].index] = Torn]
  /\ loop' = [loop EXCEPT ![l] = Step("write", @.index, @.value, "tmp")]
  /\ UNCHANGED <<memory, file, batch, newest, raced>>

\* Two loops that write one file may leave a mixture.
Written(old, value) == {value} \cup {x \in {Torn} : old # Torn}

Write(l) ==
  LET i == loop[l].index
  IN /\ At(l, "write")
     /\ \/ /\ loop[l].fd = "tmp"
           /\ \E w \in Written(tmp[i], loop[l].value) : tmp' = [tmp EXCEPT ![i] = w]
           /\ UNCHANGED file
        \/ /\ loop[l].fd = "file"
           /\ \E w \in Written(file[i], loop[l].value) : file' = [file EXCEPT ![i] = w]
           /\ UNCHANGED tmp
        \/ loop[l].fd = "none" /\ UNCHANGED disk
     /\ loop' = [loop EXCEPT ![l] = Step("rename", i, @.value, "none")]
     /\ UNCHANGED <<memory, batch, newest, raced>>

\* The names of the open files of index i after its file was replaced or
\* removed, "moved" being where the temporary file is now.
Renamed(m, i, moved) ==
  IF loop[m].index # i THEN loop[m].fd
  ELSE CASE loop[m].fd = "tmp" -> moved
         [] loop[m].fd = "file" -> "none"
         [] OTHER -> "none"

\* Loop l is done with index i.
Closed(l, i, moved) ==
  loop' = [m \in Loops |->
    IF m = l THEN Step("next", NoIndex, NoMap, "none")
             ELSE [loop[m] EXCEPT !.fd = Renamed(m, i, moved)]]

Rename(l) ==
  LET i == loop[l].index
  IN /\ At(l, "rename")
     /\ tmp[i] # NoMap
     /\ file' = [file EXCEPT ![i] = tmp[i]]
     /\ tmp' = [tmp EXCEPT ![i] = NoMap]
     /\ Closed(l, i, "file")
     /\ UNCHANGED <<memory, batch, newest, raced>>

Unlink(l, i) ==
  /\ At(l, "next")
  /\ batch[l][i] = "delete"
  /\ file' = [file EXCEPT ![i] = NoMap]
  /\ batch' = [batch EXCEPT ![l][i] = "clean"]
  /\ Closed(l, i, "tmp")
  /\ UNCHANGED <<memory, tmp, newest, raced>>

\* An input or output error, or a temporary file that another loop renamed:
\* the index is marked again.
ForgetFailure(i, op) == UNCHANGED dirty
MarkAgain(i, op) == dirty' = [dirty EXCEPT ![i] = op]

SaveFails(l) ==
  LET i == loop[l].index
  IN /\ loop[l].pc \in {"open", "write", "rename"}
     /\ MarkAgain(i, "upsert")
     /\ loop' = [loop EXCEPT ![l] = Step("next", NoIndex, NoMap, "none")]
     /\ UNCHANGED <<store, mark, disk, batch, newest, raced>>

UnlinkFails(l, i) ==
  /\ At(l, "next")
  /\ batch[l][i] = "delete"
  /\ MarkAgain(i, "delete")
  /\ batch' = [batch EXCEPT ![l][i] = "clean"]
  /\ raced' = raced \cup {x \in {i} : Overrides(i, "delete", Writers)}
  /\ UNCHANGED <<store, mark, disk, loop, newest>>

LoopStep(l) ==
  \/ Drain(l) \/ Drained(l)
  \/ \E i \in Indexes : Read(l, i) \/ Unlink(l, i) \/ UnlinkFails(l, i)
  \/ Open(l) \/ Write(l) \/ Rename(l) \/ SaveFails(l)

\* The engine dies and another starts: load_store_from_dir takes the files it
\* can parse and ignores the temporary ones.
LoadStore == [i \in Indexes |-> IF file[i] = Torn THEN NoMap ELSE file[i]]

Crash ==
  /\ store' = LoadStore
  /\ dirty' = Nothing
  /\ mark' = [c \in Writers |-> Unmarked]
  /\ batch' = [l \in Loops |-> Nothing]
  /\ loop' = [l \in Loops |-> IF l = newest THEN Ticking ELSE Unborn]
  /\ UNCHANGED <<disk, newest, raced>>

Next ==
  \/ \E c \in Writers, i \in Indexes, k \in Keys :
       Delete(c, i, k) \/ \E v \in Values : Set(c, i, k, v)
  \/ \E c \in Writers : MarkDirty(c)
  \/ \E l \in Loops : Reconfigure(l) \/ Stop(l) \/ LoopStep(l)
  \/ Crash

Spec == Init /\ [][Next]_vars

\* tokio keeps polling the loops and the writers.
Fairness ==
  /\ \A c \in Writers : WF_vars(MarkDirty(c))
  /\ \A l \in Loops : WF_vars(Stop(l)) /\ WF_vars(LoopStep(l))

FairSpec == Spec /\ Fairness

-----------------------------------------------------------------------------
Files == Maps \cup {NoMap, Torn}
Pcs == {"new", "idle", "next", "open", "write", "rename"}

\* Every variable stays in its range, a loop that saves knows what it saves, and
\* the newest loop is there.
TypeOK ==
  /\ store \in [Indexes -> Maps \cup {NoMap}]
  /\ dirty \in [Indexes -> {"clean", "upsert", "delete"}]
  /\ mark \in [Writers -> {Unmarked} \cup [index : Indexes, op : {"upsert", "delete"}]]
  /\ file \in [Indexes -> Files]
  /\ tmp \in [Indexes -> Files]
  /\ loop \in [Loops -> [pc : Pcs, index : Indexes \cup {NoIndex},
                         value : Maps \cup {NoMap}, fd : {"none", "tmp", "file"}]]
  /\ batch \in [Loops -> [Indexes -> {"clean", "upsert", "delete"}]]
  /\ newest \in Loops
  /\ raced \subseteq Indexes

\* The file a restart loads is never a half-written one: the temporary file and
\* the rename see to it, as long as one loop saves the index at a time.  A loop
\* that reconfigure replaced may still be saving when the new one begins.
FileIsWhole == \A i \in Indexes : file[i] = Torn => i \in raced

Idle ==
  /\ dirty = Nothing
  /\ \A c \in Writers : mark[c] = Unmarked
  /\ \A l \in Loops : loop[l].pc \in {"new", "idle"}

\* A store with nothing left to save has all its maps in the files: no write is
\* forgotten by the drain, by a save that failed or by a crash.  The exceptions are an
\* index whose deletion was marked after a later write was, and one that two
\* loops saved at once.
IdleIsSaved == Idle => \A i \in Indexes \ raced : Same(i)

\* Once writes, changes of configuration and errors stop, every map reaches its
\* file.
Fails == \E l \in Loops : SaveFails(l) \/ \E i \in Indexes : UnlinkFails(l, i)
AllStop ==
  /\ <>[](\A c \in Writers : mark[c] = Unmarked)
  /\ \E l \in Loops : <>[](newest = l)
  /\ <>[][~ Fails]_vars
SavedAtLast == AllStop => <>[](\A i \in Indexes \ raced : Same(i))
=============================================================================
