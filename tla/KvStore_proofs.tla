--------------------------- MODULE KvStore_proofs ---------------------------
(***************************************************************************)
(* Proofs about KvStore for any indexes, keys, writers and save loops: a   *)
(* restart never loads a half-written file, and a store with nothing left  *)
(* to save has saved everything, but for the indexes that raced.           *)
(***************************************************************************)
EXTENDS KvStore, TLAPS

Saving == {"open", "write", "rename"}

\* A loop has an index in hand exactly while it saves it, and it went from its
\* batch; between two batches it has none.
Phases ==
  \A l \in Loops :
    /\ loop[l].index \in Indexes <=> loop[l].pc \in Saving
    /\ loop[l].pc \in Saving => batch[l][loop[l].index] = "clean"
    /\ loop[l].pc \in {"new", "idle"} => \A i \in Indexes : batch[l][i] = "clean"

\* Only an index that has a map is marked or saved.
Known ==
  \A i \in Indexes :
    store[i] = NoMap =>
      /\ \A c \in Writers : mark[c].index # i
      /\ dirty[i] = "clean"
      /\ \A l \in Loops : ~ Has(l, i)

\* One loop at a time saves index i, into a temporary file of its own.
Whole(i) ==
  /\ \A l, m \in Loops : Has(l, i) /\ Has(m, i) => l = m
  /\ file[i] # Torn
  /\ \A l \in Loops :
       loop[l].index = i =>
         /\ loop[l].pc = "write" => loop[l].fd = "tmp" /\ tmp[i] = Torn
         /\ loop[l].pc = "rename" => tmp[i] = loop[l].value

ToMark(i, op) == \E c \in Writers : mark[c].index = i /\ mark[c].op = op
NoneSaves(i) == \A l \in Loops : loop[l].index # i

\* A deletion that is under way is right, or an upsert will follow it; and the
\* file is right, or someone will see to it.
Covered(i) ==
  /\ dirty[i] = "delete" => IsEmpty(store[i]) \/ ToMark(i, "upsert")
  /\ \A l \in Loops : batch[l][i] = "delete" =>
       IsEmpty(store[i]) \/ ToMark(i, "upsert") \/ dirty[i] = "upsert"
  /\ \/ ToMark(i, "upsert")
     \/ ToMark(i, "delete") /\ IsEmpty(store[i])
     \/ dirty[i] # "clean"
     \/ \E l \in Loops : batch[l][i] # "clean"
     \/ \E l \in Loops : loop[l].index = i /\ loop[l].value = store[i]
     \/ NoneSaves(i) /\ Same(i)

IInv == TypeOK /\ Phases /\ Known /\ \A i \in Indexes \ raced : Whole(i) /\ Covered(i)

-----------------------------------------------------------------------------
LEMMA MapFacts ==
  /\ EmptyMap \in Maps
  /\ NoMap \notin Maps /\ Torn \notin Maps /\ NoMap # Torn
  /\ NoIndex \notin Indexes
BY NoMapAssumption, NoIndexAssumption DEF EmptyMap, Maps

LEMMA WithType ==
  ASSUME NEW map \in Maps \cup {NoMap}, NEW k \in Keys, NEW v \in Values \cup {NoValue}
  PROVE  With(map, k, v) \in Maps
BY MapFacts DEF With, Maps

\* The type of a loop's record, for each kind of step.
LoopType == [pc : Pcs, index : Indexes \cup {NoIndex},
             value : Maps \cup {NoMap}, fd : {"none", "tmp", "file"}]

LEMMA StepType ==
  ASSUME NEW pc \in Pcs, NEW i \in Indexes \cup {NoIndex},
         NEW v \in Maps \cup {NoMap}, NEW fd \in {"none", "tmp", "file"}
  PROVE  Step(pc, i, v, fd) \in LoopType
BY DEF Step, LoopType

LEMMA ClosedType ==
  ASSUME loop \in [Loops -> LoopType], NEW l \in Loops, NEW i \in Indexes,
         NEW moved \in {"tmp", "file"}, Closed(l, i, moved)
  PROVE  /\ loop' \in [Loops -> LoopType]
         /\ loop'[l].pc = "next" /\ loop'[l].index = NoIndex
         /\ \A m \in Loops \ {l} : /\ loop'[m].pc = loop[m].pc
                                   /\ loop'[m].index = loop[m].index
                                   /\ loop'[m].value = loop[m].value
                                   /\ loop[m].index # i => loop'[m].fd = loop[m].fd
<1>1. \A m \in Loops : Renamed(m, i, moved) \in {"none", "tmp", "file"}
  BY DEF Renamed, LoopType
<1>2. Step("next", NoIndex, NoMap, "none") \in LoopType
  BY StepType DEF Pcs
<1>3. ASSUME NEW m \in Loops \ {l}
      PROVE  /\ loop'[m] = [loop[m] EXCEPT !.fd = Renamed(m, i, moved)]
             /\ loop'[m] \in LoopType
             /\ loop'[m].pc = loop[m].pc /\ loop'[m].index = loop[m].index
             /\ loop'[m].value = loop[m].value /\ loop'[m].fd = Renamed(m, i, moved)
  BY <1>1 DEF Closed, LoopType
<1>4. loop'[l] = Step("next", NoIndex, NoMap, "none")
  BY DEF Closed
<1>5. loop' \in [Loops -> LoopType]
  BY <1>2, <1>3, <1>4 DEF Closed
<1>6. \A m \in Loops \ {l} : loop[m].index # i => loop'[m].fd = loop[m].fd
  BY <1>3 DEF Renamed
<1>7. QED
  BY <1>3, <1>4, <1>5, <1>6 DEF Step

LEMMA InitInv == Init => IInv
<1> SUFFICES ASSUME Init PROVE IInv
  OBVIOUS
<1> USE MapFacts DEF Init
<1>1. TypeOK
  BY DEF TypeOK, Nothing, Unmarked, Unborn, Ticking, Step, Pcs, Files
<1>2. \A l \in Loops : loop[l].index = NoIndex /\ loop[l].pc \in {"new", "idle"}
  BY DEF Unborn, Ticking, Step
<1>3. Phases
  BY <1>2 DEF Phases, Saving, Nothing
<1>4. Known
  BY <1>2 DEF Known, Unmarked, Nothing, Has
<1>5. \A i \in Indexes : Whole(i) /\ Covered(i)
  BY <1>2 DEF Whole, Covered, Has, Nothing, NoneSaves, Same
<1>6. QED
  BY <1>1, <1>3, <1>4, <1>5 DEF IInv

-----------------------------------------------------------------------------
(***************************************************************************)
(* Type correctness.                                                       *)
(***************************************************************************)
LEMMA TypeInv == TypeOK /\ Phases /\ [Next]_vars => TypeOK'
<1> SUFFICES ASSUME TypeOK, Phases, [Next]_vars PROVE TypeOK'
  OBVIOUS
<1> USE MapFacts DEF TypeOK, memory, disk
<1>1. loop \in [Loops -> LoopType]
  BY DEF LoopType
<1>2. SUFFICES ASSUME Next PROVE TypeOK'
  BY DEF vars
<1>3. ASSUME NEW c \in Writers, NEW i \in Indexes, NEW k \in Keys, NEW v \in Values, Set(c, i, k, v)
      PROVE  TypeOK'
  BY <1>3, WithType DEF Set
<1>4. ASSUME NEW c \in Writers, NEW i \in Indexes, NEW k \in Keys, Delete(c, i, k)
      PROVE  TypeOK'
  BY <1>4, WithType DEF Delete, DeleteOp, Unmarked
<1>5. ASSUME NEW c \in Writers, MarkDirty(c)
      PROVE  TypeOK'
  <2>1. mark[c].index \in Indexes /\ mark[c].op \in {"upsert", "delete"}
    BY <1>5 DEF MarkDirty, Unmarked
  <2>2. QED
    BY <1>5, <2>1 DEF MarkDirty
<1>6. ASSUME NEW l \in Loops, Reconfigure(l) \/ Stop(l) \/ Drained(l)
      PROVE  TypeOK'
  <2>1. Ticking \in LoopType /\ Unborn \in LoopType
    BY StepType DEF Ticking, Unborn, Pcs
  <2>2. loop' \in [Loops -> LoopType]
    BY <1>1, <1>6, <2>1 DEF Reconfigure, Stop, Drained
  <2>3. QED
    BY <1>6, <2>2 DEF Reconfigure, Stop, Drained, LoopType
<1>7. ASSUME NEW l \in Loops, Drain(l)
      PROVE  TypeOK'
  <2>1. loop' \in [Loops -> LoopType]
    BY <1>1, <1>7, StepType DEF Drain, Pcs
  <2>2. Nothing \in [Indexes -> {"clean", "upsert", "delete"}]
    BY DEF Nothing
  <2>3. QED
    BY <1>7, <2>1, <2>2 DEF Drain, LoopType
<1>8. ASSUME NEW l \in Loops, NEW i \in Indexes, Read(l, i)
      PROVE  TypeOK'
  <2>1. store[i] = NoMap \/ store[i] \in Maps
    BY <1>8
  <2>2. loop' \in [Loops -> LoopType]
    BY <1>1, <1>8, <2>1, StepType DEF Read, Pcs
  <2>3. QED
    BY <1>8, <2>2 DEF Read, LoopType
<1>9. ASSUME NEW l \in Loops, Open(l) \/ Write(l) \/ SaveFails(l)
      PROVE  TypeOK'
  <2>1. loop[l].index \in Indexes
    BY <1>9 DEF Open, Write, SaveFails, At, Phases, Saving
  <2>2. loop[l].value \in Maps \cup {NoMap} /\ Pcs = {"new", "idle", "next", "open", "write", "rename"}
    BY <1>1 DEF LoopType, Pcs
  <2>3. loop' \in [Loops -> LoopType]
    BY <1>1, <1>9, <2>1, <2>2, StepType DEF Open, Write, SaveFails, Pcs
  <2>4. \A old \in Files, value \in Files : Written(old, value) \subseteq Files
    BY DEF Written, Files
  <2>5. file' \in [Indexes -> Files] /\ tmp' \in [Indexes -> Files]
    BY <1>9, <2>1, <2>2, <2>4 DEF Open, Write, SaveFails, Files
  <2>6. QED
    BY <1>9, <2>1, <2>3, <2>5 DEF Open, Write, SaveFails, MarkAgain, LoopType
<1>10. ASSUME NEW l \in Loops, Rename(l)
       PROVE  TypeOK'
  <2>1. loop[l].index \in Indexes
    BY <1>10 DEF Rename, At, Phases, Saving
  <2>2. loop' \in [Loops -> LoopType]
    BY <1>1, <1>10, <2>1, ClosedType DEF Rename
  <2>3. QED
    BY <1>10, <2>1, <2>2 DEF Rename, LoopType, Files
<1>11. ASSUME NEW l \in Loops, NEW i \in Indexes, Unlink(l, i)
       PROVE  TypeOK'
  <2>1. loop' \in [Loops -> LoopType]
    BY <1>1, <1>11, ClosedType DEF Unlink
  <2>2. QED
    BY <1>11, <2>1 DEF Unlink, LoopType, Files
<1>12. ASSUME NEW l \in Loops, NEW i \in Indexes, UnlinkFails(l, i)
       PROVE  TypeOK'
  BY <1>12 DEF UnlinkFails, MarkAgain
<1>13. CASE Crash
  <2>1. Ticking \in LoopType /\ Unborn \in LoopType
    BY StepType DEF Ticking, Unborn, Pcs
  <2>2. loop' \in [Loops -> LoopType]
    BY <1>13, <2>1 DEF Crash
  <2>3. store' \in [Indexes -> Maps \cup {NoMap}]
    BY <1>13 DEF Crash, LoadStore, Files
  <2>4. Nothing \in [Indexes -> {"clean", "upsert", "delete"}]
    BY DEF Nothing
  <2>5. QED
    BY <1>13, <2>2, <2>3, <2>4 DEF Crash, LoopType
<1>14. QED
  BY <1>2, <1>3, <1>4, <1>5, <1>6, <1>7, <1>8, <1>9, <1>10, <1>11, <1>12, <1>13 DEF Next, LoopStep

-----------------------------------------------------------------------------
(***************************************************************************)
(* What a step of one loop leaves of the others, and of its own batch.     *)
(***************************************************************************)
Fixed(m) ==
  /\ loop'[m].pc = loop[m].pc /\ loop'[m].index = loop[m].index
  /\ loop'[m].value = loop[m].value
  /\ batch'[m] = batch[m]

\* Loop l goes to its next index, or back to sleep.
Rests(l, pc) == loop'[l].pc = pc /\ loop'[l].index = NoIndex

LEMMA LoopEffect ==
  ASSUME TypeOK, Phases, NEW l \in Loops, Reconfigure(l) \/ Stop(l) \/ LoopStep(l)
  PROVE  /\ \A m \in Loops \ {l} : Fixed(m)
         /\ \/ Reconfigure(l) /\ Rests(l, "idle") /\ batch' = batch
            \/ Stop(l) /\ Rests(l, "new") /\ batch' = batch
            \/ Drain(l) /\ Rests(l, "next") /\ batch'[l] = dirty
            \/ Drained(l) /\ Rests(l, "idle") /\ batch' = batch /\ \A i \in Indexes : batch[l][i] = "clean"
            \/ \E i \in Indexes :
                 /\ batch'[l][i] = "clean" /\ \A k \in Indexes \ {i} : batch'[l][k] = batch[l][k]
                 /\ loop[l].index = NoIndex
                 /\ \/ /\ Read(l, i) /\ store[i] # NoMap
                       /\ loop'[l].pc = "open" /\ loop'[l].index = i /\ loop'[l].value = store[i]
                    \/ Read(l, i) /\ store[i] = NoMap /\ Rests(l, "next")
                    \/ Unlink(l, i) /\ Rests(l, "next")
                    \/ UnlinkFails(l, i) /\ Rests(l, "next")
            \/ /\ Open(l) \/ Write(l)
               /\ loop'[l].pc \in Saving /\ loop'[l].index = loop[l].index
               /\ loop'[l].value = loop[l].value /\ batch' = batch
            \/ (Rename(l) \/ SaveFails(l)) /\ Rests(l, "next") /\ batch' = batch
<1> USE MapFacts DEF TypeOK, Rests, Fixed
<1>1. loop \in [Loops -> LoopType]
  BY DEF LoopType
<1>2. CASE Reconfigure(l)
  BY <1>1, <1>2 DEF Reconfigure, Ticking, Step
<1>3. CASE Stop(l)
  BY <1>1, <1>3 DEF Stop, Unborn, Step
<1>4. CASE Drain(l)
  BY <1>1, <1>4 DEF Drain, Step
<1>5. CASE Drained(l)
  <2>1. \A i \in Indexes : batch[l][i] = "clean"
    BY <1>5 DEF Drained, Nothing
  <2>2. QED
    BY <1>1, <1>5, <2>1 DEF Drained, Ticking, Step
<1>6. ASSUME NEW i \in Indexes, Read(l, i) \/ Unlink(l, i) \/ UnlinkFails(l, i)
      PROVE  /\ loop[l].index = NoIndex /\ loop[l].pc = "next"
             /\ batch'[l][i] = "clean" /\ \A k \in Indexes \ {i} : batch'[l][k] = batch[l][k]
             /\ \A m \in Loops \ {l} : batch'[m] = batch[m]
  <2>1. loop[l].pc = "next"
    BY <1>6 DEF Read, Unlink, UnlinkFails, At
  <2>2. loop[l].index = NoIndex
    BY <2>1 DEF Phases, Saving
  <2>3. QED
    BY <1>6, <2>1, <2>2 DEF Read, Unlink, UnlinkFails
<1>7. ASSUME NEW i \in Indexes, Read(l, i)
      PROVE  /\ \A m \in Loops \ {l} : Fixed(m)
             /\ \/ /\ store[i] # NoMap
                   /\ loop'[l].pc = "open" /\ loop'[l].index = i /\ loop'[l].value = store[i]
                \/ store[i] = NoMap /\ Rests(l, "next")
  BY <1>1, <1>6, <1>7 DEF Read, Step
<1>8. ASSUME NEW i \in Indexes, Unlink(l, i)
      PROVE  (\A m \in Loops \ {l} : Fixed(m)) /\ Rests(l, "next")
  BY <1>1, <1>6, <1>8, ClosedType DEF Unlink
<1>9. ASSUME NEW i \in Indexes, UnlinkFails(l, i)
      PROVE  (\A m \in Loops \ {l} : Fixed(m)) /\ Rests(l, "next")
  BY <1>1, <1>6, <1>9 DEF UnlinkFails
<1>10. CASE Open(l) \/ Write(l)
  BY <1>1, <1>10 DEF Open, Write, Step, Saving
<1>11. CASE SaveFails(l)
  BY <1>1, <1>11 DEF SaveFails, Step
<1>12. CASE Rename(l)
  <2>1. loop[l].index \in Indexes
    BY <1>12 DEF Rename, At, Phases, Saving
  <2>2. QED
    BY <1>1, <1>12, <2>1, ClosedType DEF Rename
<1>13. QED
  BY <1>2, <1>3, <1>4, <1>5, <1>6, <1>7, <1>8, <1>9, <1>10, <1>11, <1>12 DEF LoopStep

LEMMA PhasesInv == TypeOK /\ Phases /\ [Next]_vars => Phases'
<1> SUFFICES ASSUME TypeOK, Phases, [Next]_vars PROVE Phases'
  OBVIOUS
<1>1. CASE UNCHANGED <<loop, batch>>
  BY <1>1 DEF Phases
<1>2. ASSUME NEW l \in Loops, Reconfigure(l) \/ Stop(l) \/ LoopStep(l)
      PROVE  Phases'
  <2> DEFINE Fine(m) == /\ loop[m].index \in Indexes <=> loop[m].pc \in Saving
                        /\ loop[m].pc \in Saving => batch[m][loop[m].index] = "clean"
                        /\ loop[m].pc \in {"new", "idle"} => \A i \in Indexes : batch[m][i] = "clean"
  <2>1. \A m \in Loops : Fine(m)
    BY DEF Phases
  <2>2. \A m \in Loops \ {l} : Fine(m)'
    BY <1>2, <2>1, LoopEffect DEF Fixed
  <2>3. Fine(l)'
    <3>1. loop[l].pc \in {"new", "idle"} \/ ~ (Reconfigure(l) \/ Stop(l))
      BY DEF Reconfigure, Stop, At
    <3>2. CASE Reconfigure(l) /\ Rests(l, "idle") /\ batch' = batch
      BY <3>1, <3>2, <2>1, MapFacts DEF Rests, Saving
    <3>3. CASE Stop(l) /\ Rests(l, "new") /\ batch' = batch
      BY <3>1, <3>3, <2>1, MapFacts DEF Rests, Saving
    <3>4. CASE Rests(l, "next")
      BY <3>4, MapFacts DEF Rests, Saving
    <3>5. CASE Rests(l, "idle") /\ batch' = batch /\ \A i \in Indexes : batch[l][i] = "clean"
      BY <3>5, MapFacts DEF Rests, Saving
    <3>6. ASSUME NEW i \in Indexes, batch'[l][i] = "clean", loop'[l].pc = "open", loop'[l].index = i
          PROVE  Fine(l)'
      BY <3>6 DEF Saving
    <3>7. CASE /\ loop'[l].pc \in Saving /\ loop'[l].index = loop[l].index /\ batch' = batch
               /\ Open(l) \/ Write(l)
      BY <3>7, <2>1 DEF Open, Write, At, Saving
    <3>8. QED
      BY <1>2, <3>2, <3>3, <3>4, <3>5, <3>6, <3>7, LoopEffect
  <2>4. QED
    BY <2>2, <2>3 DEF Phases
<1>3. CASE Crash
  <2>1. \A l \in Loops : loop'[l].index = NoIndex /\ loop'[l].pc \in {"new", "idle"}
    BY <1>3 DEF Crash, Ticking, Unborn, Step
  <2>2. \A l \in Loops, i \in Indexes : batch'[l][i] = "clean"
    BY <1>3 DEF Crash, Nothing
  <2>3. QED
    BY <2>1, <2>2, MapFacts DEF Phases, Saving
<1>4. QED
  BY <1>1, <1>2, <1>3 DEF Next, vars, Set, Delete, MarkDirty

\* No step but a crash takes the map of an index away, and a crash forgets all
\* that was to be done.
LEMMA KnownInv == TypeOK /\ Phases /\ Known /\ [Next]_vars => Known'
<1> SUFFICES ASSUME TypeOK, Phases, Known, [Next]_vars PROVE Known'
  OBVIOUS
<1> USE MapFacts DEF TypeOK
<1>1. CASE UNCHANGED vars
  BY <1>1 DEF Known, vars, Has
<1>2. ASSUME NEW c \in Writers, NEW i \in Indexes, NEW k \in Keys,
             Delete(c, i, k) \/ \E v \in Values : Set(c, i, k, v)
      PROVE  Known'
  <2>1. \A j \in Indexes : store'[j] = NoMap => store[j] = NoMap /\ j # i
    BY <1>2, WithType DEF Set, Delete
  <2>2. \A d \in Writers, j \in Indexes : j # i /\ mark'[d].index = j => mark[d].index = j
    BY <1>2 DEF Set, Delete
  <2>3. dirty' = dirty /\ loop' = loop /\ batch' = batch
    BY <1>2 DEF Set, Delete
  <2>4. SUFFICES ASSUME NEW j \in Indexes, store'[j] = NoMap
                 PROVE  /\ \A d \in Writers : mark'[d].index # j
                        /\ dirty'[j] = "clean" /\ \A l \in Loops : ~ Has(l, j)'
    BY DEF Known
  <2>5. store[j] = NoMap /\ j # i
    BY <2>1, <2>4
  <2>6. (\A d \in Writers : mark[d].index # j) /\ dirty[j] = "clean" /\ \A l \in Loops : ~ Has(l, j)
    BY <2>5 DEF Known
  <2>7. \A d \in Writers : mark'[d].index # j
    BY <2>2, <2>5, <2>6
  <2>8. QED
    BY <2>3, <2>6, <2>7 DEF Has
<1>3. ASSUME NEW c \in Writers, MarkDirty(c)
      PROVE  Known'
  <2>1. mark[c].index \in Indexes /\ store[mark[c].index] # NoMap
    BY <1>3 DEF MarkDirty, Unmarked, Known
  <2>2. \A d \in Writers, j \in Indexes : mark'[d].index = j => mark[d].index = j
    BY <1>3 DEF MarkDirty, Unmarked
  <2>3. \A j \in Indexes : j # mark[c].index => dirty'[j] = dirty[j]
    BY <1>3 DEF MarkDirty
  <2>4. QED
    BY <1>3, <2>1, <2>2, <2>3 DEF Known, MarkDirty, Has
<1>4. ASSUME NEW l \in Loops, Reconfigure(l) \/ Stop(l) \/ LoopStep(l)
      PROVE  Known'
  <2>1. store' = store /\ mark' = mark
    BY <1>4 DEF Reconfigure, Stop, LoopStep, Drain, Drained, Read, Unlink, UnlinkFails, Open, Write,
                Rename, SaveFails, memory
  <2>2. SUFFICES ASSUME NEW j \in Indexes, store[j] = NoMap
                 PROVE  dirty'[j] = "clean" /\ \A m \in Loops : ~ Has(m, j)'
    BY <2>1 DEF Known
  <2>3. dirty[j] = "clean" /\ \A m \in Loops : batch[m][j] = "clean" /\ loop[m].index # j
    BY <2>2 DEF Known, Has
  <2>4. dirty'[j] = "clean"
    <3>1. CASE dirty' = dirty
      BY <2>3, <3>1
    <3>2. CASE Drain(l)
      BY <3>2 DEF Drain, Nothing
    <3>3. CASE SaveFails(l)
      <4>1. loop[l].index # j
        BY <2>3
      <4>2. QED
        BY <2>3, <3>3, <4>1 DEF SaveFails, MarkAgain
    <3>4. ASSUME NEW i \in Indexes, UnlinkFails(l, i)
          PROVE  dirty'[j] = "clean"
      <4>1. i # j
        BY <2>3, <3>4 DEF UnlinkFails
      <4>2. QED
        BY <2>3, <3>4, <4>1 DEF UnlinkFails, MarkAgain
    <3>5. QED
      BY <1>4, <3>1, <3>2, <3>3, <3>4 DEF Reconfigure, Stop, LoopStep, Drained, Read, Unlink, Open, Write,
                                          Rename, memory
  <2>5. \A m \in Loops : batch'[m][j] = "clean" /\ loop'[m].index # j
    <3>1. \A m \in Loops \ {l} : batch'[m][j] = "clean" /\ loop'[m].index # j
      BY <1>4, <2>3, LoopEffect DEF Fixed
    <3>2. NoIndex # j
      OBVIOUS
    <3>3. batch'[l][j] = "clean" /\ loop'[l].index # j
      BY <1>4, <2>2, <2>3, <3>2, LoopEffect DEF Rests
    <3>4. QED
      BY <3>1, <3>3
  <2>6. QED
    BY <2>4, <2>5 DEF Has
<1>5. CASE Crash
  <2>1. \A l \in Loops : loop'[l].index = NoIndex
    BY <1>5 DEF Crash, Ticking, Unborn, Step
  <2>2. QED
    BY <1>5, <2>1 DEF Crash, Known, Has, Nothing, Unmarked
<1>6. QED
  BY <1>1, <1>2, <1>3, <1>4, <1>5 DEF Next

-----------------------------------------------------------------------------
(***************************************************************************)
(* The file of an index that did not race is never half written.           *)
(***************************************************************************)

\* An open file changes its name only under the hands of another loop that has
\* the same index.
LEMMA FdKept ==
  ASSUME TypeOK, Phases, NEW l \in Loops, Reconfigure(l) \/ Stop(l) \/ LoopStep(l),
         NEW m \in Loops, m # l
  PROVE  loop'[m].fd = loop[m].fd \/ Has(l, loop[m].index)
<1> USE DEF TypeOK
<1>1. loop \in [Loops -> LoopType]
  BY DEF LoopType
<1>2. CASE Rename(l)
  <2>1. loop[l].index \in Indexes
    BY <1>2 DEF Rename, At, Phases, Saving
  <2>2. loop[m].index # loop[l].index => loop'[m].fd = loop[m].fd
    BY <1>1, <1>2, <2>1, ClosedType DEF Rename
  <2>3. QED
    BY <2>2 DEF Has
<1>3. ASSUME NEW i \in Indexes, Unlink(l, i)
      PROVE  loop'[m].fd = loop[m].fd \/ Has(l, loop[m].index)
  <2>1. loop[m].index # i => loop'[m].fd = loop[m].fd
    BY <1>1, <1>3, ClosedType DEF Unlink
  <2>2. Has(l, i)
    BY <1>3 DEF Unlink, Has
  <2>3. QED
    BY <2>1, <2>2
<1>4. CASE ~ Rename(l) /\ ~ \E i \in Indexes : Unlink(l, i)
  BY <1>1, <1>4 DEF Reconfigure, Stop, LoopStep, Drain, Drained, Read, UnlinkFails, Open, Write, SaveFails
<1>5. QED
  BY <1>2, <1>3, <1>4

\* No loop takes up an index that another has, unless that is recorded.
LEMMA AloneKept ==
  ASSUME TypeOK, Phases, NEW l \in Loops, Reconfigure(l) \/ Stop(l) \/ LoopStep(l),
         NEW i \in Indexes \ raced', \A k, m \in Loops : Has(k, i) /\ Has(m, i) => k = m
  PROVE  \A k, m \in Loops : Has(k, i)' /\ Has(m, i)' => k = m
<1> USE DEF TypeOK
<1>1. \A m \in Loops \ {l} : Has(m, i)' => Has(m, i)
  BY LoopEffect DEF Fixed, Has
<1>2. NoIndex # i
  BY MapFacts
<1>3. CASE Drain(l)
  <2>1. dirty[i] = "clean" \/ \A m \in Loops \ {l} : ~ Has(m, i)
    BY <1>3 DEF Drain
  <2>2. Has(l, i)' => dirty[i] # "clean"
    <3>1. batch'[l] = dirty
      BY <1>3 DEF Drain
    <3>2. loop'[l].index = NoIndex
      BY <1>3 DEF Drain, Step
    <3>3. QED
      BY <1>2, <3>1, <3>2 DEF Has
  <2>3. QED
    BY <1>1, <2>1, <2>2
<1>4. CASE ~ Drain(l)
  <2>1. Has(l, i)' => Has(l, i)
    <3>1. CASE batch' = batch
      <4>1. \A j \in Indexes : Read(l, j) => batch[l][j] # "clean"
        BY DEF Read
      <4>2. loop'[l].index = NoIndex \/ loop'[l].index = loop[l].index
        BY <1>4, <3>1, <4>1, LoopEffect DEF Rests
      <4>3. QED
        BY <1>2, <3>1, <4>2 DEF Has
    <3>2. ASSUME NEW j \in Indexes, batch'[l][j] = "clean",
                 \A k \in Indexes \ {j} : batch'[l][k] = batch[l][k],
                 Read(l, j) \/ Unlink(l, j) \/ UnlinkFails(l, j),
                 loop'[l].index \in {j, NoIndex}
          PROVE  Has(l, i)' => Has(l, i)
      <4>1. batch[l][j] # "clean"
        BY <3>2 DEF Read, Unlink, UnlinkFails
      <4>2. QED
        BY <1>2, <3>2, <4>1 DEF Has
    <3>3. QED
      BY <1>4, <3>1, <3>2, LoopEffect DEF Rests
  <2>2. QED
    BY <1>1, <2>1
<1>5. QED
  BY <1>3, <1>4

LEMMA WholeStep ==
  ASSUME TypeOK, Phases, NEW l \in Loops, Reconfigure(l) \/ Stop(l) \/ LoopStep(l),
         NEW i \in Indexes \ raced', Whole(i)
  PROVE  Whole(i)'
<1> USE MapFacts DEF TypeOK
<1> DEFINE Right(m) == /\ loop[m].pc = "write" => loop[m].fd = "tmp" /\ tmp[i] = Torn
                       /\ loop[m].pc = "rename" => tmp[i] = loop[m].value
<1>1. \A k, m \in Loops : Has(k, i)' /\ Has(m, i)' => k = m
  BY AloneKept DEF Whole
<1>2. \A m \in Loops : loop[m].index = i => Right(m) /\ Has(m, i)
  BY DEF Whole, Has
<1>3. \A m \in Loops \ {l} : loop'[m].index = i =>
         /\ ~ Has(l, i) /\ loop[m].index = i
         /\ loop'[m].pc = loop[m].pc /\ loop'[m].value = loop[m].value /\ loop'[m].fd = loop[m].fd
  <2>1. TAKE m \in Loops \ {l}
  <2>2. HAVE loop'[m].index = i
  <2>3. Fixed(m) /\ (loop'[m].fd = loop[m].fd \/ Has(l, loop[m].index))
    BY LoopEffect, FdKept
  <2>4. loop[m].index = i
    BY <2>2, <2>3 DEF Fixed
  <2>5. ~ Has(l, i)
    BY <2>1, <2>4, <1>2 DEF Whole
  <2>6. QED
    BY <2>3, <2>4, <2>5 DEF Fixed
\* Steps that touch no file of i.
<1>4. ASSUME file'[i] = file[i], tmp'[i] = tmp[i],
             loop'[l].index = i => loop'[l].pc \notin {"write", "rename"}
      PROVE  Whole(i)'
  <2>1. \A m \in Loops : loop'[m].index = i => Right(m)'
    BY <1>2, <1>3, <1>4
  <2>2. QED
    BY <1>1, <1>4, <2>1 DEF Whole
<1>5. CASE Reconfigure(l) \/ Stop(l) \/ Drain(l) \/ Drained(l) \/ SaveFails(l)
  <2>1. loop'[l].index = NoIndex /\ UNCHANGED <<file, tmp>>
    BY <1>5 DEF Reconfigure, Stop, Drain, Drained, SaveFails, disk, Ticking, Unborn, Step
  <2>2. QED
    BY <1>4, <2>1
<1>6. ASSUME NEW j \in Indexes, Read(l, j) \/ UnlinkFails(l, j)
      PROVE  Whole(i)'
  <2>1. UNCHANGED <<file, tmp>>
    BY <1>6 DEF Read, UnlinkFails, disk
  <2>2. loop'[l].pc \notin {"write", "rename"}
    BY <1>6 DEF Read, UnlinkFails, At, Step
  <2>3. QED
    BY <1>4, <2>1, <2>2
<1>7. ASSUME NEW j \in Indexes, Unlink(l, j)
      PROVE  Whole(i)'
  <2>1. loop'[l].index = NoIndex
    BY <1>7, ClosedType DEF Unlink, LoopType
  <2>2. tmp' = tmp /\ file'[i] # Torn
    BY <1>7 DEF Unlink, Whole
  <2>3. \A m \in Loops : loop'[m].index = i => Right(m)'
    BY <1>2, <1>3, <2>1, <2>2
  <2>4. QED
    BY <1>1, <2>2, <2>3 DEF Whole
<1>8. ASSUME Open(l) \/ Write(l) \/ Rename(l), loop[l].index # i
      PROVE  Whole(i)'
  <2>1. file'[i] = file[i] /\ tmp'[i] = tmp[i]
    BY <1>8 DEF Open, Write, Rename, disk
  <2>2. CASE Open(l) \/ Write(l)
    <3>1. loop'[l].index # i
      BY <1>8, <2>2 DEF Open, Write, Step
    <3>2. QED
      BY <1>4, <2>1, <3>1
  <2>3. CASE Rename(l)
    <3>1. loop \in [Loops -> LoopType] /\ loop[l].index \in Indexes
      BY <2>3 DEF Rename, At, Phases, Saving, LoopType
    <3>2. loop'[l].index # i
      BY <2>3, <3>1, ClosedType DEF Rename
    <3>3. QED
      BY <1>4, <2>1, <3>2
  <2>4. QED
    BY <1>8, <2>2, <2>3
<1>9. ASSUME Open(l) \/ Write(l) \/ Rename(l), loop[l].index = i
      PROVE  Whole(i)'
  <2>1. \A m \in Loops \ {l} : loop'[m].index # i
    BY <1>2, <1>3, <1>9
  <2>2. loop \in [Loops -> LoopType]
    BY DEF LoopType
  <2>3. loop[l].value \in Maps \cup {NoMap}
    BY <2>2 DEF LoopType
  <2>4. CASE Open(l)
    <3>1. tmp'[i] = Torn /\ file' = file
      BY <1>9, <2>4 DEF Open
    <3>2. loop'[l].pc = "write" /\ loop'[l].fd = "tmp"
      BY <2>4 DEF Open, Step
    <3>3. QED
      BY <1>1, <2>1, <3>1, <3>2 DEF Whole
  <2>5. CASE Write(l)
    <3>1. loop[l].fd = "tmp" /\ tmp[i] = Torn
      BY <1>2, <1>9, <2>5 DEF Write, At
    <3>2. file' = file /\ tmp'[i] = loop[l].value
      BY <1>9, <2>5, <3>1 DEF Write, Written, disk
    <3>3. loop'[l].pc = "rename" /\ loop'[l].value = loop[l].value
      BY <2>5 DEF Write, Step
    <3>4. QED
      BY <1>1, <2>1, <3>2, <3>3 DEF Whole
  <2>6. CASE Rename(l)
    <3>1. file'[i] = loop[l].value
      BY <1>2, <1>9, <2>6 DEF Rename, At
    <3>2. loop'[l].index = NoIndex
      BY <1>9, <2>2, <2>6, ClosedType DEF Rename
    <3>3. QED
      BY <1>1, <2>1, <2>3, <3>1, <3>2 DEF Whole
  <2>7. QED
    BY <1>9, <2>4, <2>5, <2>6
<1>10. QED
  BY <1>5, <1>6, <1>7, <1>8, <1>9 DEF LoopStep

\* A crash leaves no loop with an index in hand.
LEMMA CrashClears ==
  ASSUME Crash
  PROVE  /\ \A l \in Loops : loop'[l].index = NoIndex
         /\ \A l \in Loops, i \in Indexes : batch'[l][i] = "clean"
BY DEF Crash, Ticking, Unborn, Step, Nothing

LEMMA WholeInv ==
  TypeOK /\ Phases /\ (\A i \in Indexes \ raced : Whole(i)) /\ [Next]_vars
    => \A i \in Indexes \ raced' : Whole(i)'
<1> SUFFICES ASSUME TypeOK, Phases, \A i \in Indexes \ raced : Whole(i), [Next]_vars,
                    NEW i \in Indexes \ raced'
             PROVE  Whole(i)'
  OBVIOUS
<1>1. raced \subseteq raced'
  BY DEF Next, vars, Set, Delete, MarkDirty, Reconfigure, Stop, LoopStep, Drain, Drained, Read, Unlink,
         UnlinkFails, Open, Write, Rename, SaveFails, Crash
<1>2. Whole(i)
  BY <1>1
<1>3. CASE UNCHANGED <<loop, batch, file, tmp>>
  BY <1>2, <1>3 DEF Whole, Has
<1>4. ASSUME NEW l \in Loops, Reconfigure(l) \/ Stop(l) \/ LoopStep(l)
      PROVE  Whole(i)'
  BY <1>2, <1>4, WholeStep
<1>5. CASE Crash
  <2>1. file' = file /\ NoIndex # i
    BY <1>5, MapFacts DEF Crash, disk
  <2>2. QED
    BY <1>2, <1>5, <2>1, CrashClears DEF Whole, Has
<1>6. QED
  BY <1>3, <1>4, <1>5 DEF Next, vars, Set, Delete, MarkDirty, disk

-----------------------------------------------------------------------------
(***************************************************************************)
(* What memory has and the file has not is always someone's to save.       *)
(***************************************************************************)

\* A step that changes nothing of index i.
LEMMA CoveredKept ==
  ASSUME NEW i \in Indexes, Covered(i),
         store'[i] = store[i], dirty'[i] = dirty[i], file'[i] = file[i],
         \A c \in Writers : mark[c].index = i => mark'[c] = mark[c],
         \A m \in Loops : /\ batch'[m][i] = batch[m][i]
                          /\ loop'[m].index = i <=> loop[m].index = i
                          /\ loop[m].index = i => loop'[m].value = loop[m].value
  PROVE  Covered(i)'
<1>1. \A op \in {"upsert", "delete"} : ToMark(i, op) => ToMark(i, op)'
  BY DEF ToMark
<1>2. NoneSaves(i) => NoneSaves(i)'
  BY DEF NoneSaves
<1>3. IsEmpty(store'[i]) = IsEmpty(store[i]) /\ Same(i)' = Same(i)
  BY DEF IsEmpty, Same
<1>4. (\E l \in Loops : batch[l][i] # "clean") => \E l \in Loops : batch'[l][i] # "clean"
  OBVIOUS
<1>5. (\E l \in Loops : loop[l].index = i /\ loop[l].value = store[i])
        => \E l \in Loops : loop'[l].index = i /\ loop'[l].value = store'[i]
  OBVIOUS
<1>6. QED
  BY <1>1, <1>2, <1>3, <1>4, <1>5 DEF Covered

LEMMA CoveredByWriters ==
  ASSUME TypeOK, NEW c \in Writers, NEW i \in Indexes \ raced', Covered(i),
         \/ MarkDirty(c)
         \/ \E j \in Indexes, k \in Keys : Delete(c, j, k) \/ \E v \in Values : Set(c, j, k, v)
  PROVE  Covered(i)'
<1> USE MapFacts DEF TypeOK
<1>1. ASSUME NEW j \in Indexes, NEW k \in Keys, Delete(c, j, k) \/ \E v \in Values : Set(c, j, k, v)
      PROVE  Covered(i)'
  <2>1. UNCHANGED <<dirty, file, loop, batch>> /\ mark[c].index = NoIndex
    BY <1>1 DEF Delete, Set, disk, Unmarked
  <2>2. CASE j # i
    <3>1. store'[i] = store[i] /\ \A d \in Writers : mark[d].index = i => mark'[d] = mark[d]
      BY <1>1, <2>1, <2>2 DEF Delete, Set
    <3>2. QED
      BY <2>1, <3>1, CoveredKept
  <2>3. CASE j = i
    <3>1. mark'[c].index = i /\ (mark'[c].op = "upsert" \/ (mark'[c].op = "delete" /\ IsEmpty(store'[i])))
      BY <1>1, <2>3 DEF Delete, Set, DeleteOp
    <3>2. ToMark(i, "upsert")' \/ (ToMark(i, "delete")' /\ IsEmpty(store'[i]))
      BY <3>1 DEF ToMark
    <3>3. QED
      BY <3>2 DEF Covered
  <2>4. QED
    BY <2>2, <2>3
<1>2. CASE MarkDirty(c)
  <2>1. /\ UNCHANGED <<store, file, loop, batch>>
        /\ mark[c].index \in Indexes /\ mark[c].op \in {"upsert", "delete"}
        /\ mark'[c].index = NoIndex /\ \A d \in Writers \ {c} : mark'[d] = mark[d]
    BY <1>2 DEF MarkDirty, disk, Unmarked
  <2>2. CASE mark[c].index # i
    <3>1. dirty'[i] = dirty[i] /\ \A d \in Writers : mark[d].index = i => mark'[d] = mark[d]
      BY <1>2, <2>1, <2>2 DEF MarkDirty
    <3>2. QED
      BY <2>1, <3>1, CoveredKept
  <2>3. CASE mark[c].index = i
    <3>1. dirty'[i] = mark[c].op
      BY <1>2, <2>3 DEF MarkDirty
    <3>2. CASE mark[c].op = "upsert"
      BY <3>1, <3>2 DEF Covered
    <3>3. CASE mark[c].op = "delete"
      <4>1. ~ Overrides(i, "delete", Writers \ {c})
        BY <1>2, <2>3, <3>3 DEF MarkDirty
      <4>2. IsEmpty(store[i]) \/ \E d \in Writers \ {c} : mark[d] = [index |-> i, op |-> "upsert"]
        BY <4>1 DEF Overrides
      <4>3. IsEmpty(store'[i]) \/ ToMark(i, "upsert")'
        BY <2>1, <4>2 DEF ToMark
      <4>4. QED
        BY <3>1, <3>3, <4>3 DEF Covered
    <3>4. QED
      BY <2>1, <3>2, <3>3
  <2>4. QED
    BY <2>2, <2>3
<1>3. QED
  BY <1>1, <1>2

LEMMA CoveredByLoop ==
  ASSUME TypeOK, Phases, Known, NEW l \in Loops, Reconfigure(l) \/ Stop(l) \/ LoopStep(l),
         NEW i \in Indexes \ raced', Whole(i), Covered(i)
  PROVE  Covered(i)'
<1> USE MapFacts DEF TypeOK
<1>1. store' = store /\ mark' = mark
  BY DEF Reconfigure, Stop, LoopStep, Drain, Drained, Read, Unlink, UnlinkFails, Open, Write,
         Rename, SaveFails, memory
<1>2. \A op \in {"upsert", "delete"} : ToMark(i, op)' = ToMark(i, op)
  BY <1>1 DEF ToMark
<1>3. \A m \in Loops \ {l} : Fixed(m)
  BY LoopEffect
\* Steps at another index, or between two.
<1>4. ASSUME dirty'[i] = dirty[i], file'[i] = file[i], batch'[l][i] = batch[l][i],
             loop[l].index # i, loop'[l].index # i
      PROVE  Covered(i)'
  <2>1. \A m \in Loops : /\ batch'[m][i] = batch[m][i]
                         /\ loop'[m].index = i <=> loop[m].index = i
                         /\ loop[m].index = i => loop'[m].value = loop[m].value
    BY <1>3, <1>4 DEF Fixed
  <2>2. QED
    BY <1>1, <1>4, <2>1, CoveredKept
<1>5. CASE Reconfigure(l) \/ Stop(l) \/ Drained(l)
  <2>1. loop[l].index # i
    BY <1>5 DEF Reconfigure, Stop, Drained, At, Phases, Saving
  <2>2. loop'[l].index # i /\ UNCHANGED <<dirty, file, batch>>
    BY <1>5 DEF Reconfigure, Stop, Drained, Ticking, Unborn, Step, memory, disk
  <2>3. QED
    BY <1>4, <2>1, <2>2
<1>6. CASE Drain(l)
  <2>1. batch'[l] = dirty /\ dirty'[i] = "clean" /\ file' = file
    BY <1>6 DEF Drain, Nothing, disk
  <2>2. loop[l].index # i /\ loop'[l].index # i /\ batch[l][i] = "clean"
    BY <1>6 DEF Drain, At, Phases, Saving, Step
  <2>3. dirty[i] = "clean" \/ \A m \in Loops \ {l} : ~ Has(m, i)
    BY <1>6 DEF Drain
  <2>4. \A m \in Loops : batch'[m][i] = "delete" => IsEmpty(store'[i]) \/ ToMark(i, "upsert")'
    <3>1. TAKE m \in Loops
    <3>2. HAVE batch'[m][i] = "delete"
    <3>3. CASE m = l
      BY <1>1, <1>2, <2>1, <3>2, <3>3 DEF Covered
    <3>4. CASE m # l
      <4>1. batch[m][i] = "delete" /\ Has(m, i)
        BY <1>3, <3>2, <3>4 DEF Fixed, Has
      <4>2. dirty[i] # "upsert"
        BY <2>3, <3>4, <4>1
      <4>3. QED
        BY <1>1, <1>2, <4>1, <4>2 DEF Covered
    <3>5. QED
      BY <3>3, <3>4
  <2>5. CASE dirty[i] # "clean"
    BY <2>1, <2>4, <2>5 DEF Covered
  <2>6. CASE dirty[i] = "clean"
    <3>1. \A m \in Loops : /\ batch'[m][i] = batch[m][i]
                           /\ loop'[m].index = i <=> loop[m].index = i
                           /\ loop[m].index = i => loop'[m].value = loop[m].value
      BY <1>3, <2>1, <2>2, <2>6 DEF Fixed
    <3>2. QED
      BY <1>1, <2>1, <2>6, <3>1, CoveredKept
  <2>7. QED
    BY <2>5, <2>6
<1>7. ASSUME NEW j \in Indexes, Read(l, j) \/ Unlink(l, j) \/ UnlinkFails(l, j)
      PROVE  Covered(i)'
  <2>1. /\ loop[l].index # i /\ batch[l][j] # "clean"
        /\ batch'[l][j] = "clean" /\ \A k \in Indexes \ {j} : batch'[l][k] = batch[l][k]
    BY <1>7 DEF Read, Unlink, UnlinkFails, At, Phases, Saving
  <2>2. loop'[l].index \in {j, NoIndex}
    BY <1>7, LoopEffect, ClosedType DEF Read, Unlink, UnlinkFails, Rests, Step, LoopType
  <2>3. CASE j # i
    <3>1. dirty'[i] = dirty[i] /\ file'[i] = file[i]
      BY <1>7, <2>3 DEF Read, Unlink, UnlinkFails, MarkAgain, memory, disk
    <3>2. QED
      BY <1>4, <2>1, <2>2, <2>3, <3>1
  <2>4. CASE j = i
    <3>1. Has(l, i)
      BY <2>1, <2>4 DEF Has
    <3>2. \A m \in Loops \ {l} : ~ Has(m, i) /\ batch'[m][i] = "clean" /\ loop'[m].index # i
      BY <1>3, <3>1 DEF Whole, Has, Fixed
    <3>3. \A m \in Loops : batch'[m][i] = "clean"
      BY <2>1, <2>4, <3>2
    <3>4. CASE Read(l, i)
      <4>1. store[i] # NoMap
        BY <3>1 DEF Known
      <4>2. loop'[l].index = i /\ loop'[l].value = store[i] /\ dirty' = dirty
        BY <3>4, <4>1 DEF Read, Step, memory
      <4>3. QED
        BY <1>1, <1>2, <3>3, <4>2 DEF Covered
    <3>5. CASE Unlink(l, i)
      <4>1. loop'[l].index = NoIndex
        BY <3>5, ClosedType DEF Unlink, LoopType
      <4>2. NoneSaves(i)'
        BY <3>2, <4>1 DEF NoneSaves
      <4>3. file'[i] = NoMap /\ dirty' = dirty /\ batch[l][i] = "delete"
        BY <3>5 DEF Unlink, memory
      <4>4. IsEmpty(store'[i]) => Same(i)'
        BY <4>3 DEF Same, IsEmpty
      <4>5. IsEmpty(store[i]) \/ ToMark(i, "upsert") \/ dirty[i] = "upsert"
        BY <4>3 DEF Covered
      <4>6. QED
        BY <1>1, <1>2, <3>3, <4>2, <4>3, <4>4, <4>5 DEF Covered
    <3>6. CASE UnlinkFails(l, i)
      <4>1. dirty'[i] = "delete"
        BY <3>6 DEF UnlinkFails, MarkAgain
      <4>2. ~ Overrides(i, "delete", Writers)
        BY <3>6 DEF UnlinkFails
      <4>3. IsEmpty(store[i]) \/ \E d \in Writers : mark[d] = [index |-> i, op |-> "upsert"]
        BY <4>2 DEF Overrides
      <4>4. IsEmpty(store'[i]) \/ ToMark(i, "upsert")'
        BY <1>1, <4>3 DEF ToMark
      <4>5. QED
        BY <3>3, <4>1, <4>4 DEF Covered
    <3>7. QED
      BY <1>7, <2>4, <3>4, <3>5, <3>6
  <2>5. QED
    BY <2>3, <2>4
<1>8. CASE Open(l) \/ Write(l)
  <2>1. /\ loop'[l].index = loop[l].index /\ loop'[l].value = loop[l].value
        /\ dirty' = dirty /\ batch' = batch
    BY <1>8 DEF Open, Write, Step, memory
  <2>2. file'[i] = file[i]
    BY <1>8 DEF Open, Write, At, Whole, disk
  <2>3. \A m \in Loops : /\ batch'[m][i] = batch[m][i]
                         /\ loop'[m].index = i <=> loop[m].index = i
                         /\ loop[m].index = i => loop'[m].value = loop[m].value
    BY <1>3, <2>1 DEF Fixed
  <2>4. QED
    BY <1>1, <2>1, <2>2, <2>3, CoveredKept
<1>9. CASE SaveFails(l)
  <2>1. loop'[l].index = NoIndex /\ batch' = batch /\ file' = file
        /\ dirty' = [dirty EXCEPT ![loop[l].index] = "upsert"]
    BY <1>9 DEF SaveFails, Step, MarkAgain, disk
  <2>2. CASE loop[l].index = i
    <3>1. dirty'[i] = "upsert"
      BY <2>1, <2>2
    <3>2. QED
      BY <3>1 DEF Covered
  <2>3. CASE loop[l].index # i
    <3>1. dirty'[i] = dirty[i]
      BY <2>1, <2>3
    <3>2. QED
      BY <1>4, <2>1, <2>3, <3>1
  <2>4. QED
    BY <2>2, <2>3
<1>10. CASE Rename(l)
  <2>1. loop \in [Loops -> LoopType] /\ loop[l].index \in Indexes
    BY <1>10 DEF Rename, At, Phases, Saving, LoopType
  <2>2. loop'[l].index = NoIndex /\ batch' = batch /\ dirty' = dirty
    BY <1>10, <2>1, ClosedType DEF Rename, memory
  <2>3. CASE loop[l].index # i
    <3>1. file'[i] = file[i]
      BY <1>10, <2>3 DEF Rename
    <3>2. QED
      BY <1>4, <2>2, <2>3, <3>1
  <2>4. CASE loop[l].index = i
    <3>1. file'[i] = loop[l].value
      BY <1>10, <2>4 DEF Rename, At, Whole
    <3>2. \A m \in Loops \ {l} : ~ Has(m, i) /\ loop'[m].index # i
      BY <1>3, <2>4 DEF Whole, Has, Fixed
    <3>3. NoneSaves(i)' /\ ~ NoneSaves(i)
      BY <2>2, <2>4, <3>2 DEF NoneSaves
    <3>4. loop[l].value = store[i] => Same(i)'
      BY <1>1, <3>1 DEF Same
    <3>5. (\E m \in Loops : loop[m].index = i /\ loop[m].value = store[i]) => Same(i)'
      BY <3>2, <3>4 DEF Has
    <3>6. QED
      BY <1>1, <1>2, <2>2, <3>3, <3>5 DEF Covered
  <2>5. QED
    BY <2>3, <2>4
<1>11. QED
  BY <1>5, <1>6, <1>7, <1>8, <1>9, <1>10 DEF LoopStep

LEMMA CoveredInv ==
  /\ TypeOK /\ Phases /\ Known /\ (\A i \in Indexes \ raced : Whole(i) /\ Covered(i)) /\ [Next]_vars
  => \A i \in Indexes \ raced' : Covered(i)'
<1> SUFFICES ASSUME TypeOK, Phases, Known, \A i \in Indexes \ raced : Whole(i) /\ Covered(i),
                    [Next]_vars, NEW i \in Indexes \ raced'
             PROVE  Covered(i)'
  OBVIOUS
<1>1. raced \subseteq raced'
  BY DEF Next, vars, Set, Delete, MarkDirty, Reconfigure, Stop, LoopStep, Drain, Drained, Read, Unlink,
         UnlinkFails, Open, Write, Rename, SaveFails, Crash
<1>2. Whole(i) /\ Covered(i)
  BY <1>1
<1>3. CASE UNCHANGED vars
  BY <1>2, <1>3, CoveredKept DEF vars
<1>4. ASSUME NEW c \in Writers,
             \/ MarkDirty(c)
             \/ \E j \in Indexes, k \in Keys : Delete(c, j, k) \/ \E v \in Values : Set(c, j, k, v)
      PROVE  Covered(i)'
  BY <1>2, <1>4, CoveredByWriters
<1>5. ASSUME NEW l \in Loops, Reconfigure(l) \/ Stop(l) \/ LoopStep(l)
      PROVE  Covered(i)'
  BY <1>2, <1>5, CoveredByLoop
<1>6. CASE Crash
  <2>1. store'[i] = file[i] /\ file' = file /\ dirty'[i] = "clean"
    BY <1>2, <1>6 DEF Crash, LoadStore, Whole, TypeOK, disk, Nothing
  <2>2. NoIndex # i
    BY MapFacts
  <2>3. NoneSaves(i)' /\ Same(i)'
    BY <1>6, <2>1, <2>2, CrashClears DEF NoneSaves, Same
  <2>4. QED
    BY <1>6, <2>1, <2>3, CrashClears DEF Covered
<1>7. QED
  BY <1>3, <1>4, <1>5, <1>6 DEF Next

-----------------------------------------------------------------------------
\* The invariant is inductive, for any indexes, keys, writers and loops.
THEOREM Invariance == Spec => []IInv
<1>1. IInv /\ [Next]_vars => IInv'
  BY TypeInv, PhasesInv, KnownInv, WholeInv, CoveredInv DEF IInv
<1>2. QED
  BY <1>1, InitInv, PTL DEF Spec

\* Every variable stays in its range, whatever fails or crashes.
THEOREM TypeCorrect == Spec => []TypeOK
<1>1. IInv => TypeOK
  BY DEF IInv
<1>2. QED
  BY <1>1, Invariance, PTL

\* The file a restart loads was written out and renamed, unless two save loops
\* had its index at once.
THEOREM FilesAreWhole == Spec => []FileIsWhole
<1>1. IInv => FileIsWhole
  BY DEF IInv, Whole, FileIsWhole
<1>2. QED
  BY <1>1, Invariance, PTL

\* When no one has anything left to mark or to save, every map is in its file,
\* but those of indexes whose marks or loops raced.
THEOREM NothingForgotten == Spec => []IdleIsSaved
<1>1. ASSUME IInv, Idle, NEW i \in Indexes \ raced
      PROVE  Same(i)
  <2>1. Covered(i) /\ TypeOK /\ Phases /\ NoIndex # i
    BY <1>1, MapFacts DEF IInv
  <2>2. ~ ToMark(i, "upsert") /\ ~ ToMark(i, "delete")
    BY <1>1, <2>1 DEF Idle, ToMark, Unmarked
  <2>3. dirty[i] = "clean"
    BY <1>1 DEF Idle, Nothing
  <2>4. \A l \in Loops : batch[l][i] = "clean" /\ loop[l].index # i
    BY <1>1, <2>1 DEF Idle, Phases, Saving
  <2>5. QED
    BY <2>1, <2>2, <2>3, <2>4 DEF Covered
<1>2. IInv => IdleIsSaved
  BY <1>1 DEF IdleIsSaved
<1>3. QED
  BY <1>2, Invariance, PTL
=============================================================================
