----------------------------- MODULE Host_proofs ----------------------------
(***************************************************************************)
(* Proofs about the projection outbox, for every number of entries, of     *)
(* attempts and of deaths of the process: what is enqueued is on disk, and *)
(* what says indexed has a vector, whatever dies in the middle of what.    *)
(*                                                                         *)
(* The file is the index whenever nobody flushes (DiskFollows), an actor   *)
(* holds on to records only (BatchesRecorded), and marks what it projected *)
(* (BatchesProjected).                                                     *)
(*                                                                         *)
(* And about the approvals, for every set of requests and every number of  *)
(* commands: what is revoked never comes back and what is granted stays,   *)
(* whatever is asked, stored, promoted and killed at the same time.  An id *)
(* is given once (GivenOnce), and a command's copy of a file holds nothing *)
(* revoked and lacks only what came after it was read (CommandFollows).    *)
(*                                                                         *)
(* And about the memory in files, for every number of callers, entries and *)
(* deaths, every threshold and every head and tail that are kept: nothing  *)
(* append returned for is forgotten, no entry comes twice or out of order, *)
(* and what a summary replaces was archived.  What compressEntries leaves  *)
(* is proved first: the places that stay, in their order, and one summary  *)
(* of the others (SomeStay, CompressedLog); then that the file covers what *)
(* the window does, but for the line on its way (FileFollows), and that    *)
(* whoever waits brings later entries (GivenInOrder).                      *)
(***************************************************************************)
EXTENDS ProjectionOutbox, Approvals, FsMemory, QueueLemmas

(* The records a change leaves the index with.                               *)
LEMMA RecordFields ==
  ASSUME OutboxAssumption
  PROVE  /\ NoRecord \in Records /\ EmptyIndex \in [Refs -> Records]
         /\ Recorded(EmptyIndex) = {}
         /\ \A m \in Records : \A s \in {"pending", "retrying", "indexed"} :
               /\ [m EXCEPT !.st = s] \in Records
               /\ [m EXCEPT !.st = s].st = s
               /\ [m EXCEPT !.st = s] # NoRecord
         /\ \A s \in {"failed", "dead"}, n \in 0 .. MaxAttempts :
               [st |-> s, tries |-> n] \in Records /\ [st |-> s, tries |-> n] # NoRecord
<1>1. 0 \in 0 .. MaxAttempts
  BY DEF OutboxAssumption, AttemptsAssumption
<1>2. NoRecord \in Records
  BY <1>1 DEF NoRecord, Records
<1>3. EmptyIndex \in [Refs -> Records] /\ Recorded(EmptyIndex) = {}
  BY <1>2 DEF EmptyIndex, Recorded
<1>4. ASSUME NEW m \in Records, NEW s \in {"pending", "retrying", "indexed"}
      PROVE  /\ [m EXCEPT !.st = s] \in Records
             /\ [m EXCEPT !.st = s].st = s
             /\ [m EXCEPT !.st = s] # NoRecord
  BY DEF Records, NoRecord
<1>5. ASSUME NEW s \in {"failed", "dead"}, NEW n \in 0 .. MaxAttempts
      PROVE  [st |-> s, tries |-> n] \in Records /\ [st |-> s, tries |-> n] # NoRecord
  BY DEF Records, NoRecord
<1> QED
  BY <1>2, <1>3, <1>4, <1>5

(* A change of one record: it has one then, and the others keep theirs.      *)
LEMMA OneRecord ==
  ASSUME NEW m \in [Refs -> Records], NEW r \in Refs, NEW e \in Records, e # NoRecord
  PROVE  /\ [m EXCEPT ![r] = e] \in [Refs -> Records]
         /\ Recorded([m EXCEPT ![r] = e]) = Recorded(m) \cup {r}
         /\ [m EXCEPT ![r] = e][r] = e
         /\ \A q \in Refs : q # r => [m EXCEPT ![r] = e][q] = m[q]
BY DEF Recorded

(* Parts of the type invariant.                                              *)
LEMMA Typed ==
  ASSUME OutboxTypeOK
  PROVE  /\ index \in [Refs -> Records] /\ indexFile \in [Refs -> Records]
         /\ \A r \in Refs : index[r] \in Records /\ indexFile[r] \in Records
         /\ flushing \in Actors \cup {"none"}
         /\ \A a \in Actors : /\ actor[a].left \subseteq actor[a].batch
                              /\ actor[a].batch \subseteq Refs
         /\ "archive" \in Actors /\ "timer" \in Actors
         /\ "none" \notin Actors
<1>1. index \in [Refs -> Records] /\ indexFile \in [Refs -> Records]
  BY DEF OutboxTypeOK
<1>2. \A a \in Actors : /\ actor[a].left \subseteq actor[a].batch
                        /\ actor[a].batch \subseteq Refs
  BY DEF OutboxTypeOK
<1>3. "archive" \in Actors /\ "timer" \in Actors /\ "none" \notin Actors
  BY DEF Actors
<1> QED
  BY <1>1, <1>2, <1>3 DEF OutboxTypeOK

-----------------------------------------------------------------------------
(* A flush begins, by a: the index keeps the records it had and gets those   *)
(* of `new', and says indexed of no more than has a vector.                  *)
Indexed(m) == {r \in Refs : m[r].st = "indexed"}

Begins(a, new) ==
    /\ up /\ up' /\ flushing = "none" /\ flushing' = a
    /\ indexFile' = indexFile
    /\ index' \in [Refs -> Records]
    /\ Recorded(index') = Recorded(index) \cup new
    /\ Indexed(index') \subseteq Indexed(index) \cup vectors

(* What a step does to the index, the file and the flush.                    *)
FilesMove ==
    \/ UNCHANGED <<index, indexFile, flushing, up>>
    \/ Begins("timer", {})
    \/ \E new \in SUBSET Refs : Begins("archive", new)
    \/ up /\ up' /\ flushing' = "none" /\ indexFile' = index /\ index' = index
    \/ ~ up' /\ UNCHANGED indexFile /\ index' = EmptyIndex /\ flushing' = "none"
    \/ ~ up /\ up' /\ index' = indexFile /\ UNCHANGED <<indexFile, flushing>>
    \/ /\ ~ up /\ ~ up' /\ UNCHANGED <<index, flushing>>
       /\ indexFile' \in [Refs -> Records]
       /\ Recorded(indexFile) \subseteq Recorded(indexFile')
       /\ Indexed(indexFile') \subseteq Indexed(indexFile)

(* A change of one record that has one already, or that archive() gives one. *)
LEMMA ChangesOne ==
  ASSUME OutboxAssumption, OutboxTypeOK, UNCHANGED up, up, NEW a \in Actors, NEW r \in Refs,
         NEW e \in Records, e # NoRecord, e.st = "indexed" => r \in vectors,
         Change(a, [index EXCEPT ![r] = e]),
         a = "archive" \/ r \in Recorded(index)
  PROVE  FilesMove
<1>1. /\ index \in [Refs -> Records] /\ flushing = "none" /\ flushing' = a
      /\ index' = [index EXCEPT ![r] = e] /\ indexFile' = indexFile
  BY Typed DEF Change
<1>2. /\ index' \in [Refs -> Records]
      /\ Recorded(index') = Recorded(index) \cup {r}
      /\ index'[r] = e
      /\ \A q \in Refs : q # r => index'[q] = index[q]
  BY <1>1, OneRecord
<1>3. Indexed(index') \subseteq Indexed(index) \cup vectors
  BY <1>2 DEF Indexed
<1>4. CASE a = "archive"
  <2>1. Begins("archive", {r})
    BY <1>1, <1>2, <1>3, <1>4 DEF Begins
  <2> QED
    BY <2>1 DEF FilesMove
<1>5. CASE a = "timer"
  <2>1. r \in Recorded(index)
    BY <1>5
  <2>2. Begins("timer", {})
    BY <1>1, <1>2, <1>3, <1>5, <2>1 DEF Begins
  <2> QED
    BY <2>2 DEF FilesMove
<1> QED
  BY <1>4, <1>5 DEF Actors

(* Every step moves the files so.                                            *)
LEMMA FilesStep ==
  ASSUME OutboxAssumption, OutboxIInv, [OutboxNext]_outboxVars
  PROVE  FilesMove
<1>0. OutboxTypeOK /\ BatchesRecorded /\ BatchesProjected
  BY DEF OutboxIInv
<1>1. ASSUME NEW a \in Actors, FlushEnds(a) PROVE FilesMove
  <2>1. up
    BY <1>0, <1>1, Typed DEF FlushEnds, OutboxTypeOK
  <2>2. /\ flushing' = "none" /\ indexFile' = index /\ index' = index /\ up' = up
    BY <1>1 DEF FlushEnds, hostVars
  <2> QED
    BY <2>1, <2>2 DEF FilesMove
<1>2. ASSUME NEW a \in Actors, Recover(a) PROVE FilesMove
  <2>1. up /\ up' = up
    BY <1>2 DEF Recover, At, hostVars
  <2>2. CASE Stale = {}
    BY <1>2, <2>1, <2>2 DEF Recover, NoChange, FilesMove
  <2>3. CASE Stale # {}
    <3>1. Change(a, Reset(Stale))
      BY <1>2, <2>3 DEF Recover
    <3>2. \A r \in Refs : index[r] \in Records /\ index'[r] = Reset(Stale)[r]
      BY <1>0, <3>1, Typed DEF Change
    <3>3. \A r \in Refs : index'[r] = IF r \in Stale THEN [index[r] EXCEPT !.st = "pending"]
                                      ELSE index[r]
      BY <3>2 DEF Reset
    <3>4. \A r \in Stale : r \in Refs /\ index[r].st = "retrying"
      BY <1>0 DEF Stale, OutboxTypeOK
    <3>5. NoRecord.st = "none"
      BY DEF NoRecord
    <3>6. ASSUME NEW r \in Refs
          PROVE  /\ index'[r] \in Records
                 /\ index'[r] # NoRecord <=> index[r] # NoRecord
                 /\ index'[r].st = "indexed" => index[r].st = "indexed"
      <4>1. CASE r \in Stale
        <5> DEFINE e == [index[r] EXCEPT !.st = "pending"]
        <5>1. e \in Records /\ e # NoRecord /\ e.st = "pending"
          BY <3>2, RecordFields
        <5>2. index'[r] = e
          BY <3>3, <4>1
        <5>3. index[r] # NoRecord
          BY <3>4, <3>5, <4>1
        <5> HIDE DEF e
        <5> QED
          BY <5>1, <5>2, <5>3
      <4>2. CASE r \notin Stale
        BY <3>2, <3>3, <4>2
      <4> QED
        BY <4>1, <4>2
    <3>7. index' = [r \in Refs |-> index'[r]]
      BY <3>1 DEF Change, Reset
    <3>8. /\ index' \in [Refs -> Records]
          /\ Recorded(index') = Recorded(index)
          /\ Indexed(index') \subseteq Indexed(index) \cup vectors
      BY <3>6, <3>7 DEF Recorded, Indexed
    <3>9. Begins(a, {})
      BY <2>1, <3>1, <3>8 DEF Begins, Change
    <3> QED
      BY <3>9 DEF FilesMove, Actors
  <2> QED
    BY <2>2, <2>3
<1>3. ASSUME NEW a \in Actors, NEW r \in Refs, MarkRetrying(a, r) PROVE FilesMove
  <2>1. up /\ up' = up
    BY <1>3 DEF MarkRetrying, At, hostVars
  <2>2. CASE index[r] = NoRecord
    BY <1>3, <2>1, <2>2 DEF MarkRetrying, NoChange, FilesMove
  <2>3. CASE index[r] # NoRecord
    <3> DEFINE e == [index[r] EXCEPT !.st = "retrying"]
    <3>1. Change(a, [index EXCEPT ![r] = e])
      BY <1>3, <2>3 DEF MarkRetrying
    <3>2. e \in Records /\ e # NoRecord /\ e.st = "retrying"
      BY <1>0, Typed, RecordFields
    <3>3. r \in Recorded(index)
      BY <2>3 DEF Recorded
    <3> HIDE DEF e
    <3> QED
      BY <1>0, <2>1, <3>1, <3>2, <3>3, ChangesOne
  <2> QED
    BY <2>2, <2>3
<1>4. ASSUME NEW a \in Actors, NEW r \in Refs, MarkIndexed(a, r) PROVE FilesMove
  <2> DEFINE e == [index[r] EXCEPT !.st = "indexed"]
  <2>1. up /\ up' = up /\ actor[a].pc = "settle" /\ r \in actor[a].left
    BY <1>4 DEF MarkIndexed, At, hostVars, First
  <2>2. Change(a, [index EXCEPT ![r] = e])
    BY <1>4 DEF MarkIndexed
  <2>3. e \in Records /\ e # NoRecord
    BY <1>0, Typed, RecordFields
  <2>4. r \in actor[a].batch
    BY <1>0, <2>1, Typed
  <2>5. r \in Recorded(index) /\ r \in vectors
    BY <1>0, <2>1, <2>4 DEF BatchesRecorded, BatchesProjected
  <2> HIDE DEF e
  <2> QED
    BY <1>0, <2>1, <2>2, <2>3, <2>5, ChangesOne
<1>5. ASSUME NEW a \in Actors, NEW r \in Refs, MarkFailed(a, r) PROVE FilesMove
  <2> DEFINE n == NextTries(index[r].tries)
             e == [st |-> IF n = MaxAttempts THEN "dead" ELSE "failed", tries |-> n]
  <2>1. up /\ up' = up /\ actor[a].pc = "failing" /\ r \in actor[a].left
    BY <1>5 DEF MarkFailed, At, hostVars, First
  <2>2. Change(a, [index EXCEPT ![r] = e])
    BY <1>5 DEF MarkFailed
  <2>3. n \in 0 .. MaxAttempts
    <3>1. index[r].tries \in 0 .. MaxAttempts
      BY <1>0, Typed DEF Records
    <3> QED
      BY <3>1 DEF NextTries, OutboxAssumption, AttemptsAssumption
  <2>4. e \in Records /\ e # NoRecord
    <3> HIDE DEF n
    <3> QED
      BY <2>3, RecordFields
  <2>5. e.st # "indexed"
    OBVIOUS
  <2>6. r \in Recorded(index)
    BY <1>0, <2>1, Typed DEF BatchesRecorded
  <2> HIDE DEF e
  <2> QED
    BY <1>0, <2>1, <2>2, <2>4, <2>5, <2>6, ChangesOne
<1>6. ASSUME NEW r \in Refs, Enqueue(r) PROVE FilesMove
  <2> DEFINE e == [index[r] EXCEPT !.st = "pending"]
  <2>1. up /\ up' = up
    BY <1>6 DEF Enqueue, At, hostVars
  <2>2. CASE index[r].st = "indexed"
    BY <1>6, <2>1, <2>2 DEF Enqueue, NoChange, FilesMove
  <2>3. CASE index[r].st # "indexed"
    <3>1. Change("archive", [index EXCEPT ![r] = e])
      BY <1>6, <2>3 DEF Enqueue
    <3>2. e \in Records /\ e # NoRecord /\ e.st = "pending"
      BY <1>0, Typed, RecordFields
    <3>3. "archive" \in Actors
      BY DEF Actors
    <3> HIDE DEF e
    <3> QED
      BY <1>0, <2>1, <3>1, <3>2, <3>3, ChangesOne
  <2> QED
    BY <2>2, <2>3
<1>7. ASSUME Dies PROVE FilesMove
  BY <1>7 DEF Dies, FilesMove
<1>8. ASSUME Rebuild PROVE FilesMove
  <2>1. \A r \in Refs : indexFile[r] # NoRecord => indexFile'[r] = indexFile[r]
    BY <1>8 DEF Rebuild
  <2>2. \A r \in Refs : indexFile'[r] = indexFile[r] \/ indexFile'[r] = [st |-> "pending", tries |-> 0]
    BY <1>8 DEF Rebuild
  <2>3. /\ [st |-> "pending", tries |-> 0] \in Records
        /\ [st |-> "pending", tries |-> 0].st = "pending"
    BY DEF Records, OutboxAssumption, AttemptsAssumption
  <2>4. /\ indexFile' = [r \in Refs |-> indexFile'[r]]
        /\ ~ up /\ ~ up' /\ UNCHANGED <<index, flushing>>
    BY <1>8 DEF Rebuild, hostVars
  <2>5. \A r \in Refs : indexFile'[r] \in Records
    BY <1>0, <2>2, <2>3, Typed
  <2>6. /\ indexFile' \in [Refs -> Records]
        /\ Recorded(indexFile) \subseteq Recorded(indexFile')
        /\ Indexed(indexFile') \subseteq Indexed(indexFile)
    BY <2>1, <2>2, <2>3, <2>4, <2>5 DEF Recorded, Indexed
  <2> QED
    BY <2>4, <2>6 DEF FilesMove
<1>9. ASSUME Restart PROVE FilesMove
  BY <1>9 DEF Restart, FilesMove
<1>10. ASSUME UNCHANGED <<index, indexFile, flushing, up>> PROVE FilesMove
  BY <1>10 DEF FilesMove
<1>11. ASSUME NEW a \in Actors, ListPending(a) PROVE FilesMove
  BY <1>10, <1>11 DEF ListPending, recVars, hostVars
<1>12. ASSUME NEW a \in Actors, NEW r \in Refs, ProjectRef(a, r) \/ ProjectThrows(a, r)
       PROVE  FilesMove
  BY <1>10, <1>12 DEF ProjectRef, ProjectThrows, recVars, hostVars
<1>13. ASSUME Enqueued \/ StartArchive \/ TimerTick PROVE FilesMove
  BY <1>10, <1>13 DEF Enqueued, StartArchive, TimerTick, recVars, hostVars
<1>14. ASSUME GrowOld \/ Hydrate \/ StopWorker \/ CompressAway PROVE FilesMove
  BY <1>10, <1>14 DEF GrowOld, Hydrate, StopWorker, CompressAway, recVars, hostVars
<1>15. CASE UNCHANGED outboxVars
  BY <1>10, <1>15 DEF outboxVars, recVars, hostVars
<1>16. ASSUME NEW a \in Actors, ActorStep(a) PROVE FilesMove
  BY <1>1, <1>2, <1>3, <1>4, <1>5, <1>6, <1>11, <1>12, <1>13, <1>16 DEF ActorStep, WorkerStep
<1> QED
  BY <1>7, <1>8, <1>9, <1>13, <1>14, <1>15, <1>16 DEF OutboxNext

-----------------------------------------------------------------------------
(* The file goes on following the index, and keeps its records.              *)
LEMMA DiskStep ==
  ASSUME OutboxIInv, FilesMove PROVE DiskFollows' /\ RecordsStay
<1>1. DiskFollows /\ OutboxTypeOK
  BY DEF OutboxIInv
<1>2. flushing \in Actors \cup {"none"} /\ (up \/ flushing = "none")
  BY <1>1 DEF OutboxTypeOK
<1>3. ASSUME indexFile' = indexFile PROVE RecordsStay
  BY <1>3 DEF RecordsStay
<1>4. CASE UNCHANGED <<index, indexFile, flushing, up>>
  BY <1>1, <1>3, <1>4 DEF DiskFollows, Recorded
<1>5. CASE Begins("timer", {})
  <2>1. Recorded(indexFile') = Recorded(index')
    BY <1>1, <1>5 DEF DiskFollows, Begins
  <2> QED
    BY <1>3, <1>5, <2>1 DEF DiskFollows, Begins, Recorded
<1>6. CASE \E new \in SUBSET Refs : Begins("archive", new)
  <2>1. Recorded(indexFile') \subseteq Recorded(index') /\ flushing' = "archive"
    BY <1>1, <1>6 DEF DiskFollows, Begins
  <2> QED
    BY <1>3, <1>6, <2>1 DEF DiskFollows, Begins, Recorded
<1>7. CASE up /\ up' /\ flushing' = "none" /\ indexFile' = index /\ index' = index
  <2>1. Recorded(indexFile) \subseteq Recorded(index)
    BY <1>1, <1>7 DEF DiskFollows
  <2> QED
    BY <1>7, <2>1 DEF DiskFollows, RecordsStay, Recorded
<1>8. CASE ~ up' /\ UNCHANGED indexFile /\ index' = EmptyIndex /\ flushing' = "none"
  BY <1>3, <1>8 DEF DiskFollows
<1>9. CASE ~ up /\ up' /\ index' = indexFile /\ UNCHANGED <<indexFile, flushing>>
  BY <1>3, <1>9 DEF DiskFollows, Recorded
<1>10. CASE /\ ~ up /\ ~ up' /\ UNCHANGED <<index, flushing>>
            /\ indexFile' \in [Refs -> Records]
            /\ Recorded(indexFile) \subseteq Recorded(indexFile')
            /\ Indexed(indexFile') \subseteq Indexed(indexFile)
  BY <1>10 DEF DiskFollows, RecordsStay, Recorded
<1> QED
  BY <1>4, <1>5, <1>6, <1>7, <1>8, <1>9, <1>10 DEF FilesMove

(* What archive() has enqueued is in the file when its flush is over.        *)
Held == Recorded(IF flushing = "archive" THEN index ELSE indexFile)

(* What holds of an actor at s, over the records of the index, those held    *)
(* and the vectors.                                                          *)
Working(a, s, recorded, held, vecs) ==
    /\ s.pc \in {"mark", "project", "settle", "failing"} => s.batch \subseteq recorded
    /\ a = "archive" /\ s.pc = "first" => s.left = s.batch
    /\ a = "archive" /\ s.pc = "enqueue" => s.batch \ s.left \subseteq held
    /\ a = "timer" => s.pc \notin {"first", "enqueue"}
    /\ s.pc = "project" => s.batch \ s.left \subseteq vecs
    /\ s.pc = "settle" => s.batch \subseteq vecs

(* Of all actors: what they hold on to and what they have projected.         *)
LEMMA WorkingAll ==
  /\ BatchesRecorded /\ BatchesProjected
       <=> \A a \in Actors : Working(a, actor[a], Recorded(index), Held, vectors)
  /\ BatchesRecorded' /\ BatchesProjected'
       <=> \A a \in Actors : Working(a, actor'[a], Recorded(index'), Held', vectors')
BY DEF BatchesRecorded, BatchesProjected, Working, Held, Recorded, Actors

(* While the process is up, records, what is held, and vectors only grow.    *)
LEMMA FilesGrow ==
  ASSUME OutboxIInv, FilesMove, up, up'
  PROVE  Recorded(index) \subseteq Recorded(index') /\ Held \subseteq Held'
<1>1. DiskFollows /\ OutboxTypeOK
  BY DEF OutboxIInv
<1>2. CASE UNCHANGED <<index, indexFile, flushing, up>>
  BY <1>2 DEF Held, Recorded
<1>3. ASSUME NEW a \in Actors, NEW new, Begins(a, new)
      PROVE  Recorded(index) \subseteq Recorded(index') /\ Held \subseteq Held'
  <2>1. /\ Recorded(indexFile') = Recorded(index)
        /\ Recorded(index) \subseteq Recorded(index')
        /\ Held = Recorded(index)
    BY <1>1, <1>3 DEF Begins, DiskFollows, Held, Recorded
  <2>2. Held' = Recorded(index') \/ Held' = Recorded(indexFile')
    BY DEF Held, Recorded
  <2> QED
    BY <2>1, <2>2
<1>4. CASE up /\ up' /\ flushing' = "none" /\ indexFile' = index /\ index' = index
  <2>1. Held' = Recorded(index) /\ Recorded(index') = Recorded(index)
    BY <1>4 DEF Held, Recorded
  <2>2. Held \subseteq Recorded(index)
    BY <1>1 DEF Held, DiskFollows
  <2> QED
    BY <2>1, <2>2
<1> QED
  BY <1>2, <1>3, <1>4 DEF FilesMove, Actors

(* An indexed record has a vector.                                           *)
LEMMA SearchStep ==
  ASSUME OutboxIInv, FilesMove, vectors \subseteq vectors'
  PROVE  IndexedIsSearchable'
<1>1. Indexed(indexFile) \subseteq vectors /\ Indexed(index) \subseteq vectors
  BY DEF OutboxIInv, IndexedIsSearchable, Indexed
<1>2. Indexed(EmptyIndex) = {}
  BY DEF Indexed, EmptyIndex, NoRecord
<1>3. Indexed(indexFile') \subseteq vectors /\ Indexed(index') \subseteq vectors
  BY <1>1, <1>2 DEF FilesMove, Begins
<1>4. \A r \in Refs : r \in Indexed(indexFile') <=> indexFile'[r].st = "indexed"
  BY DEF Indexed
<1>5. \A r \in Refs : r \in Indexed(index') <=> index'[r].st = "indexed"
  BY DEF Indexed
<1> QED
  BY <1>3, <1>4, <1>5 DEF IndexedIsSearchable

-----------------------------------------------------------------------------
(* What is to hold of the actors after a step.                               *)
Pcs == {"idle", "first", "enqueue", "recover", "list", "mark", "project", "settle", "failing"}
Steps == [pc : Pcs, left : SUBSET Refs, batch : SUBSET Refs]
Step(pc, left, batch) == [pc |-> pc, left |-> left, batch |-> batch]

ActorsOK ==
    /\ actor \in [Actors -> Steps]
    /\ \A a \in Actors : actor[a].left \subseteq actor[a].batch
    /\ up \/ \A a \in Actors : actor[a] = Idle
    /\ BatchesRecorded /\ BatchesProjected

(* The fields of a step.                                                     *)
LEMMA StepFields ==
  ASSUME NEW pc \in Pcs, NEW left \in SUBSET Refs, NEW batch \in SUBSET Refs
  PROVE  /\ Step(pc, left, batch) \in Steps
         /\ Step(pc, left, batch).pc = pc
         /\ Step(pc, left, batch).left = left
         /\ Step(pc, left, batch).batch = batch
BY DEF Step, Steps

(* Where an actor is, from the type invariant.                               *)
LEMMA ActorFields ==
  ASSUME OutboxTypeOK, NEW a \in Actors
  PROVE  /\ actor \in [Actors -> Steps] /\ actor[a] \in Steps
         /\ actor[a].pc \in Pcs /\ actor[a].left \in SUBSET Refs /\ actor[a].batch \in SUBSET Refs
         /\ actor[a].left \subseteq actor[a].batch
         /\ actor[a] = Step(actor[a].pc, actor[a].left, actor[a].batch)
BY DEF OutboxTypeOK, Steps, Pcs, Step

(* Whoever does not move works on as before.                                 *)
LEMMA OthersWork ==
  ASSUME OutboxIInv, FilesMove, up, up', vectors \subseteq vectors', NEW a \in Actors,
         actor'[a] = actor[a]
  PROVE  Working(a, actor'[a], Recorded(index'), Held', vectors')
<1>1. Working(a, actor[a], Recorded(index), Held, vectors)
  BY WorkingAll DEF OutboxIInv
<1>2. Recorded(index) \subseteq Recorded(index') /\ Held \subseteq Held'
  BY FilesGrow
<1> QED
  BY <1>1, <1>2 DEF Working

(* One actor moves.                                                          *)
LEMMA OneMoves ==
  ASSUME OutboxIInv, FilesMove, up, up', vectors \subseteq vectors', NEW a \in Actors,
         NEW pc \in Pcs, NEW left \in SUBSET Refs, NEW batch \in SUBSET Refs,
         left \subseteq batch,
         actor' = [actor EXCEPT ![a] = Step(pc, left, batch)],
         Working(a, Step(pc, left, batch), Recorded(index'), Held', vectors')
  PROVE  ActorsOK'
<1>1. OutboxTypeOK
  BY DEF OutboxIInv
<1> DEFINE s == Step(pc, left, batch)
<1>2. s \in Steps /\ s.left = left /\ s.batch = batch
  BY StepFields
<1>3. actor' = [actor EXCEPT ![a] = s] /\ Working(a, s, Recorded(index'), Held', vectors')
  OBVIOUS
<1> HIDE DEF s
<1>4. actor \in [Actors -> Steps]
  BY <1>1, ActorFields DEF Actors
<1>5. /\ actor' \in [Actors -> Steps] /\ actor'[a] = s
      /\ \A b \in Actors : b # a => actor'[b] = actor[b]
  BY <1>2, <1>3, <1>4
<1>6. \A b \in Actors : actor'[b].left \subseteq actor'[b].batch
  BY <1>1, <1>2, <1>5, ActorFields
<1>7. \A b \in Actors : Working(b, actor'[b], Recorded(index'), Held', vectors')
  BY <1>3, <1>5, OthersWork
<1>8. BatchesRecorded' /\ BatchesProjected'
  BY <1>7, WorkingAll
<1> QED
  BY <1>5, <1>6, <1>8 DEF ActorsOK

(* None moves.                                                               *)
LEMMA NoneMoves ==
  ASSUME OutboxIInv, FilesMove, up, up', vectors \subseteq vectors', UNCHANGED actor
  PROVE  ActorsOK'
<1>1. OutboxTypeOK
  BY DEF OutboxIInv
<1>2. actor' \in [Actors -> Steps] /\ \A a \in Actors : actor'[a].left \subseteq actor'[a].batch
  BY <1>1, ActorFields DEF Actors
<1>3. BatchesRecorded' /\ BatchesProjected'
  BY OthersWork, WorkingAll
<1> QED
  BY <1>2, <1>3 DEF ActorsOK

(* All stop, or none has begun.                                              *)
LEMMA AllIdle ==
  ASSUME \A a \in Actors : actor'[a] = Idle, actor' \in [Actors -> Steps] PROVE ActorsOK'
BY DEF ActorsOK, Idle, BatchesRecorded, BatchesProjected, Actors

(* Where one round of a loop takes the actor.                                *)
LEMMA Advances ==
  ASSUME OutboxTypeOK, NEW a \in Actors, NEW r \in actor[a].left, NEW next, NEW batch,
         Advance(a, r, next, batch)
  PROVE  \/ /\ actor[a].left = {r}
            /\ actor' = [actor EXCEPT ![a] = Step(next, batch, batch)]
         \/ actor' = [actor EXCEPT ![a] = Step(actor[a].pc, actor[a].left \ {r}, actor[a].batch)]
<1>1. CASE actor[a].left = {r}
  BY <1>1 DEF Advance, Goto, Step
<1>2. CASE actor[a].left # {r}
  <2>1. actor' = [actor EXCEPT ![a].left = actor[a].left \ {r}]
    BY <1>2 DEF Advance
  <2>2. [actor[a] EXCEPT !.left = actor[a].left \ {r}]
           = Step(actor[a].pc, actor[a].left \ {r}, actor[a].batch)
    <3> DEFINE rest == actor[a].left \ {r}
    <3>1. actor[a] = Step(actor[a].pc, actor[a].left, actor[a].batch)
      BY ActorFields
    <3>2. \A x : [Step(actor[a].pc, actor[a].left, actor[a].batch) EXCEPT !.left = x]
                    = Step(actor[a].pc, x, actor[a].batch)
      BY DEF Step
    <3> QED
      BY <3>1, <3>2
  <2>3. actor' = [actor EXCEPT ![a] = [actor[a] EXCEPT !.left = actor[a].left \ {r}]]
    BY <2>1
  <2> QED
    BY <2>2, <2>3
<1> QED
  BY <1>1, <1>2

(* Vectors are not taken back.                                               *)
LEMMA VectorsGrow ==
  ASSUME [OutboxNext]_outboxVars PROVE vectors \subseteq vectors'
<1> USE DEF tallyVars
<1>1. ASSUME NEW a \in Actors, ActorStep(a) PROVE vectors \subseteq vectors'
  <2>1. ASSUME NEW r \in Refs, ProjectRef(a, r) PROVE vectors \subseteq vectors'
    BY <2>1 DEF ProjectRef
  <2>2. ASSUME NEW r \in Refs,
               \/ MarkRetrying(a, r) \/ ProjectThrows(a, r) \/ MarkIndexed(a, r)
               \/ MarkFailed(a, r) \/ Enqueue(r)
        PROVE  vectors' = vectors
    BY <2>2 DEF MarkRetrying, ProjectThrows, MarkIndexed, MarkFailed, Enqueue
  <2>3. ASSUME FlushEnds(a) \/ Recover(a) \/ ListPending(a) \/ Enqueued PROVE vectors' = vectors
    BY <2>3 DEF FlushEnds, Recover, ListPending, Enqueued
  <2> QED
    BY <1>1, <2>1, <2>2, <2>3 DEF ActorStep, WorkerStep
<1>2. ASSUME StartArchive \/ TimerTick \/ GrowOld \/ Hydrate \/ StopWorker PROVE vectors' = vectors
  BY <1>2 DEF StartArchive, TimerTick, GrowOld, Hydrate, StopWorker
<1>3. ASSUME CompressAway \/ Dies \/ Rebuild \/ Restart PROVE vectors' = vectors
  BY <1>3 DEF CompressAway, Dies, Rebuild, Restart
<1>4. UNCHANGED outboxVars => vectors' = vectors
  BY DEF outboxVars
<1> QED
  BY <1>1, <1>2, <1>3, <1>4 DEF OutboxNext

(* One round of a loop leaves the actor in it or takes it on.                *)
LEMMA LoopGoes ==
  ASSUME OutboxIInv, FilesMove, up, up', vectors \subseteq vectors', NEW a \in Actors,
         NEW r \in actor[a].left, NEW next \in Pcs, NEW batch \in SUBSET Refs,
         Advance(a, r, next, batch),
         actor[a].left = {r} => Working(a, Step(next, batch, batch), Recorded(index'), Held', vectors'),
         Working(a, Step(actor[a].pc, actor[a].left \ {r}, actor[a].batch),
                 Recorded(index'), Held', vectors')
  PROVE  ActorsOK'
<1>1. OutboxTypeOK
  BY DEF OutboxIInv
<1>2. /\ actor[a].pc \in Pcs /\ actor[a].left \ {r} \in SUBSET Refs
      /\ actor[a].batch \in SUBSET Refs /\ actor[a].left \ {r} \subseteq actor[a].batch
  BY <1>1, ActorFields
<1>3. CASE /\ actor[a].left = {r}
           /\ actor' = [actor EXCEPT ![a] = Step(next, batch, batch)]
  BY <1>3, OneMoves
<1>4. CASE actor' = [actor EXCEPT ![a] = Step(actor[a].pc, actor[a].left \ {r}, actor[a].batch)]
  <2> DEFINE pc == actor[a].pc
             left == actor[a].left \ {r}
             b == actor[a].batch
  <2>1. pc \in Pcs /\ left \in SUBSET Refs /\ b \in SUBSET Refs /\ left \subseteq b
    BY <1>2
  <2>2. /\ actor' = [actor EXCEPT ![a] = Step(pc, left, b)]
        /\ Working(a, Step(pc, left, b), Recorded(index'), Held', vectors')
    BY <1>4
  <2> HIDE DEF pc, left, b
  <2> QED
    BY <2>1, <2>2, OneMoves
<1> QED
  BY <1>1, <1>3, <1>4, Advances

(* The actors go on working on what is recorded and projected.               *)
LEMMA ActorsStep ==
  ASSUME OutboxAssumption, OutboxIInv, [OutboxNext]_outboxVars
  PROVE  ActorsOK'
<1>0. /\ OutboxTypeOK /\ DiskFollows /\ FilesMove /\ vectors \subseteq vectors'
      /\ {} \in SUBSET Refs /\ "archive" \in Actors /\ "timer" \in Actors
  BY FilesStep, VectorsGrow, Typed DEF OutboxIInv
<1>1. \A a \in Actors : Working(a, actor[a], Recorded(index), Held, vectors)
  BY WorkingAll DEF OutboxIInv
<1>2. ASSUME up, up' PROVE Recorded(index) \subseteq Recorded(index') /\ Held \subseteq Held'
  BY <1>0, <1>2, FilesGrow
<1>3. ASSUME NEW a \in Actors, up, up', NEW pc \in Pcs, NEW refs \in SUBSET Refs,
             Goto(a, pc, refs), pc \in {"idle", "recover", "list"}
      PROVE  ActorsOK'
  <2>1. actor' = [actor EXCEPT ![a] = Step(pc, refs, refs)]
    BY <1>3 DEF Goto, Step
  <2>2. Step(pc, refs, refs).pc = pc
    BY StepFields
  <2>3. Working(a, Step(pc, refs, refs), Recorded(index'), Held', vectors')
    BY <1>3, <2>2 DEF Working
  <2> QED
    BY <1>0, <1>3, <2>1, <2>3, OneMoves
<1>4. ASSUME UNCHANGED actor, UNCHANGED up PROVE ActorsOK'
  <2>1. CASE up
    BY <1>0, <1>4, <2>1, NoneMoves
  <2>2. CASE ~ up
    <3>1. \A a \in Actors : actor[a] = Idle
      BY <1>0, <2>2 DEF OutboxTypeOK
    <3> QED
      BY <1>0, <1>4, <3>1, AllIdle, ActorFields
  <2> QED
    BY <2>1, <2>2
<1>5. ASSUME NEW a \in Actors, Recover(a) PROVE ActorsOK'
  <2>1. up /\ up'
    BY <1>5 DEF Recover, At, hostVars
  <2>2. CASE Goto(a, "list", {})
    BY <1>0, <1>3, <2>1, <2>2 DEF Pcs
  <2>3. CASE At(a, "first") /\ actor' = [actor EXCEPT ![a].pc = "enqueue"]
    <3> DEFINE left == actor[a].left
               batch == actor[a].batch
               s == Step("enqueue", left, batch)
    <3>1. /\ actor[a].pc = "first" /\ left \in SUBSET Refs /\ batch \in SUBSET Refs
          /\ left \subseteq batch /\ actor[a] = Step("first", left, batch)
      BY <1>0, <2>3, ActorFields DEF At
    <3>2. a # "timer" /\ left = batch
      BY <1>1, <3>1 DEF Working, Actors
    <3>3. [actor[a] EXCEPT !.pc = "enqueue"] = s
      <4>1. \A x, y : [Step("first", x, y) EXCEPT !.pc = "enqueue"] = Step("enqueue", x, y)
        BY DEF Step
      <4> QED
        BY <3>1, <4>1
    <3>4. actor' = [actor EXCEPT ![a] = s]
      BY <2>3, <3>3
    <3>5. s.pc = "enqueue" /\ s.left = left /\ s.batch = batch
      BY <3>1, StepFields DEF Pcs
    <3> HIDE DEF left, batch
    <3>6. Working(a, s, Recorded(index'), Held', vectors')
      BY <3>2, <3>5 DEF Working
    <3> QED
      BY <1>0, <2>1, <3>1, <3>4, <3>6, OneMoves DEF Pcs
  <2> QED
    BY <1>5, <2>2, <2>3 DEF Recover
<1>6. ASSUME NEW a \in Actors, ListPending(a) PROVE ActorsOK'
  <2> DEFINE batch == {r \in Refs : index[r].st \in {"pending", "failed"}}
  <2>1. up /\ up' /\ index' = index /\ Goto(a, IF batch = {} THEN "idle" ELSE "mark", batch)
    BY <1>6 DEF ListPending, At, hostVars, recVars
  <2>2. batch \in SUBSET Refs /\ batch \subseteq Recorded(index')
    <3>1. NoRecord.st = "none"
      BY DEF NoRecord
    <3> QED
      BY <2>1, <3>1 DEF Recorded
  <2> HIDE DEF batch
  <2>3. CASE batch = {}
    BY <1>3, <2>1, <2>2, <2>3 DEF Pcs
  <2>4. CASE batch # {}
    <3>1. actor' = [actor EXCEPT ![a] = Step("mark", batch, batch)]
      BY <2>1, <2>4 DEF Goto, Step
    <3>2. Working(a, Step("mark", batch, batch), Recorded(index'), Held', vectors')
      <4>1. Step("mark", batch, batch).pc = "mark" /\ Step("mark", batch, batch).batch = batch
        BY <2>2, StepFields DEF Pcs
      <4> QED
        BY <2>2, <4>1 DEF Working
    <3> QED
      BY <1>0, <2>1, <2>2, <3>1, <3>2, OneMoves DEF Pcs
  <2> QED
    BY <2>3, <2>4
<1>7. ASSUME NEW a \in Actors, NEW r \in Refs, MarkRetrying(a, r) PROVE ActorsOK'
  <2> DEFINE left == actor[a].left \ {r}
             batch == actor[a].batch
  <2>1. /\ up /\ up' /\ actor[a].pc = "mark" /\ r \in actor[a].left
        /\ Advance(a, r, "project", batch)
    BY <1>7 DEF MarkRetrying, At, First, hostVars
  <2>2. batch \in SUBSET Refs /\ left \in SUBSET Refs
    BY <1>0, ActorFields
  <2>3. batch \subseteq Recorded(index')
    BY <1>1, <1>2, <2>1 DEF Working
  <2> HIDE DEF left, batch
  <2>4. Working(a, Step("project", batch, batch), Recorded(index'), Held', vectors')
    BY <2>2, <2>3, StepFields DEF Working, Pcs
  <2>5. Working(a, Step("mark", left, batch), Recorded(index'), Held', vectors')
    BY <2>2, <2>3, StepFields DEF Working, Pcs
  <2> QED
    BY <1>0, <2>1, <2>2, <2>4, <2>5, LoopGoes DEF left, batch, Pcs
<1>8. ASSUME NEW a \in Actors, up, up', actor[a].pc = "project", Throws(a) PROVE ActorsOK'
  <2> DEFINE batch == actor[a].batch
  <2>1. batch \in SUBSET Refs
    BY <1>0, ActorFields
  <2>2. batch \subseteq Recorded(index')
    BY <1>1, <1>2, <1>8 DEF Working
  <2>3. actor' = [actor EXCEPT ![a] = Step("failing", batch, batch)]
    BY <1>8 DEF Throws, Goto, Step
  <2> HIDE DEF batch
  <2>4. Working(a, Step("failing", batch, batch), Recorded(index'), Held', vectors')
    BY <2>1, <2>2, StepFields DEF Working, Pcs
  <2> QED
    BY <1>0, <1>8, <2>1, <2>3, <2>4, OneMoves DEF Pcs
<1>9. ASSUME NEW a \in Actors, NEW r \in Refs, ProjectRef(a, r) PROVE ActorsOK'
  <2> DEFINE left == actor[a].left \ {r}
             batch == actor[a].batch
  <2>1. up /\ up' /\ actor[a].pc = "project" /\ r \in actor[a].left
    BY <1>9 DEF ProjectRef, At, First, hostVars
  <2>2. CASE Throws(a)
    BY <1>8, <2>1, <2>2
  <2>3. CASE vectors' = vectors \cup {r} /\ Advance(a, r, "settle", batch)
    <3>1. batch \in SUBSET Refs /\ left \in SUBSET Refs
      BY <1>0, ActorFields
    <3>2. batch \subseteq Recorded(index')
      BY <1>1, <1>2, <2>1 DEF Working
    <3>3. batch \ left \subseteq vectors'
      BY <1>1, <2>1, <2>3 DEF Working
    <3>4. actor[a].left = {r} => batch \subseteq vectors'
      BY <3>3
    <3> HIDE DEF left, batch
    <3>5. actor[a].left = {r} =>
            Working(a, Step("settle", batch, batch), Recorded(index'), Held', vectors')
      BY <3>1, <3>2, <3>4, StepFields DEF Working, Pcs
    <3>6. Working(a, Step("project", left, batch), Recorded(index'), Held', vectors')
      BY <3>1, <3>2, <3>3, StepFields DEF Working, Pcs
    <3> QED
      BY <1>0, <2>1, <2>3, <3>1, <3>5, <3>6, LoopGoes DEF left, batch, Pcs
  <2> QED
    BY <1>9, <2>2, <2>3 DEF ProjectRef
<1>10. ASSUME NEW a \in Actors, NEW r \in Refs, ProjectThrows(a, r) PROVE ActorsOK'
  BY <1>8, <1>10 DEF ProjectThrows, At, hostVars
<1>11. ASSUME NEW a \in Actors, NEW r \in actor[a].left, up, up',
              actor[a].pc \in {"settle", "failing"}, Advance(a, r, "idle", {})
       PROVE  ActorsOK'
  <2> DEFINE left == actor[a].left \ {r}
             batch == actor[a].batch
             pc == actor[a].pc
  <2>1. batch \in SUBSET Refs /\ left \in SUBSET Refs
    BY <1>0, ActorFields
  <2>2. batch \subseteq Recorded(index') /\ (pc = "settle" => batch \subseteq vectors')
    BY <1>0, <1>1, <1>2, <1>11 DEF Working
  <2>3. pc \in {"settle", "failing"}
    BY <1>11
  <2> HIDE DEF left, batch, pc
  <2>4. Working(a, Step("idle", {}, {}), Recorded(index'), Held', vectors')
    BY <1>0, StepFields DEF Working, Pcs
  <2>5. Working(a, Step(pc, left, batch), Recorded(index'), Held', vectors')
    BY <2>1, <2>2, <2>3, StepFields DEF Working, Pcs
  <2> QED
    BY <1>0, <1>11, <2>4, <2>5, LoopGoes DEF left, batch, pc, Pcs
<1>12. ASSUME NEW a \in Actors, NEW r \in Refs, MarkIndexed(a, r) PROVE ActorsOK'
  <2>1. /\ up /\ up' /\ actor[a].pc = "settle" /\ r \in actor[a].left
        /\ Advance(a, r, "idle", {})
    BY <1>12 DEF MarkIndexed, At, First, hostVars
  <2> QED
    BY <1>11, <2>1
<1>13. ASSUME NEW a \in Actors, NEW r \in Refs, MarkFailed(a, r) PROVE ActorsOK'
  <2>1. /\ up /\ up' /\ actor[a].pc = "failing" /\ r \in actor[a].left
        /\ Advance(a, r, "idle", {})
    BY <1>13 DEF MarkFailed, At, First, hostVars
  <2> QED
    BY <1>11, <2>1
<1>14. ASSUME NEW r \in Refs, Enqueue(r) PROVE ActorsOK'
  <2> DEFINE left == actor["archive"].left \ {r}
             batch == actor["archive"].batch
             s == Step("enqueue", left, batch)
  <2>1. /\ up /\ up' /\ actor["archive"].pc = "enqueue" /\ r \in actor["archive"].left
        /\ flushing # "archive"
        /\ actor' = [actor EXCEPT !["archive"].left = actor["archive"].left \ {r}]
    BY <1>14 DEF Enqueue, At, First, hostVars
  <2>2. /\ batch \in SUBSET Refs /\ left \in SUBSET Refs /\ left \subseteq batch
        /\ actor["archive"] = Step("enqueue", actor["archive"].left, batch)
    BY <1>0, <2>1, ActorFields
  <2>3. [actor["archive"] EXCEPT !.left = left] = s
    <3>1. \A x, y, z : [Step("enqueue", x, y) EXCEPT !.left = z] = Step("enqueue", z, y)
      BY DEF Step
    <3> QED
      BY <2>2, <3>1
  <2>4. actor' = [actor EXCEPT !["archive"] = s]
    BY <2>1, <2>3
  <2>5. batch \ actor["archive"].left \subseteq Held'
    BY <1>0, <1>1, <1>2, <2>1 DEF Working
  <2>6. r \in Held'
    <3>1. CASE index[r].st = "indexed"
      <4>1. UNCHANGED <<index, indexFile, flushing>>
        BY <1>14, <3>1 DEF Enqueue, NoChange
      <4>2. index[r] # NoRecord
        BY <3>1 DEF NoRecord
      <4>3. Recorded(indexFile) = Recorded(index)
        BY <1>0, <2>1 DEF DiskFollows
      <4>4. Held' = Recorded(indexFile)
        BY <2>1, <4>1 DEF Held, Recorded
      <4> QED
        BY <4>2, <4>3, <4>4 DEF Recorded
    <3>2. CASE index[r].st # "indexed"
      <4> DEFINE e == [index[r] EXCEPT !.st = "pending"]
      <4>1. flushing' = "archive" /\ index' = [index EXCEPT ![r] = e]
        BY <1>14, <3>2 DEF Enqueue, Change
      <4>2. e \in Records /\ e # NoRecord
        BY <1>0, Typed, RecordFields
      <4> HIDE DEF e
      <4>3. index'[r] = e
        BY <1>0, <4>1, Typed
      <4>4. Held' = Recorded(index')
        BY <4>1 DEF Held, Recorded
      <4> QED
        BY <4>2, <4>3, <4>4 DEF Recorded
    <3> QED
      BY <3>1, <3>2
  <2>7. batch \ left \subseteq Held'
    BY <2>5, <2>6
  <2>8. s.pc = "enqueue" /\ s.left = left /\ s.batch = batch
    BY <2>2, StepFields DEF Pcs
  <2> HIDE DEF left, batch
  <2>9. Working("archive", s, Recorded(index'), Held', vectors')
    BY <2>7, <2>8 DEF Working
  <2>10. up /\ up' /\ left \in SUBSET Refs /\ batch \in SUBSET Refs /\ left \subseteq batch
    BY <2>1, <2>2
  <2>11. "enqueue" \in Pcs
    BY DEF Pcs
  <2> QED
    BY <1>0, <2>4, <2>9, <2>10, <2>11, OneMoves
<1>15. ASSUME Enqueued PROVE ActorsOK'
  <2>1. up /\ up' /\ \E next \in {"recover", "idle"} : Goto("archive", next, {})
    BY <1>15 DEF Enqueued, At, hostVars
  <2>2. PICK next \in {"recover", "idle"} : Goto("archive", next, {})
    BY <2>1
  <2> QED
    BY <1>0, <1>3, <2>1, <2>2 DEF Pcs
<1>16. ASSUME StartArchive PROVE ActorsOK'
  <2> DEFINE pc == IF recovered THEN "enqueue" ELSE "first"
             s == Step(pc, Window, Window)
  <2>1. up /\ up' /\ Goto("archive", pc, Window)
    BY <1>16 DEF StartArchive, At, hostVars
  <2>2. Window \in SUBSET Refs
    BY <1>0 DEF Window, OutboxTypeOK
  <2>3. actor' = [actor EXCEPT !["archive"] = s]
    BY <2>1 DEF Goto, Step
  <2>4. pc \in {"enqueue", "first"}
    OBVIOUS
  <2> HIDE DEF pc
  <2>5. s.pc = pc /\ s.left = Window /\ s.batch = Window
    BY <2>2, <2>4, StepFields DEF Pcs
  <2>6. Working("archive", s, Recorded(index'), Held', vectors')
    BY <2>4, <2>5 DEF Working
  <2> QED
    BY <1>0, <2>1, <2>2, <2>3, <2>4, <2>6, OneMoves DEF Pcs
<1>17. ASSUME TimerTick PROVE ActorsOK'
  <2>1. up /\ up' /\ Goto("timer", "recover", {})
    BY <1>17 DEF TimerTick, At, hostVars
  <2> QED
    BY <1>0, <1>3, <2>1 DEF Pcs
<1>18. ASSUME Dies PROVE ActorsOK'
  <2>1. actor' = [a \in Actors |-> Idle]
    BY <1>18 DEF Dies
  <2>2. Idle \in Steps
    BY DEF Idle, Steps, Pcs
  <2> QED
    BY <2>1, <2>2, AllIdle
<1>19. ASSUME Restart PROVE ActorsOK'
  <2>1. ~ up /\ actor' = actor
    BY <1>19 DEF Restart
  <2>2. \A a \in Actors : actor[a] = Idle
    BY <1>0, <2>1 DEF OutboxTypeOK
  <2> QED
    BY <1>0, <2>1, <2>2, AllIdle, ActorFields
<1>20. ASSUME NEW a \in Actors, FlushEnds(a) PROVE ActorsOK'
  BY <1>4, <1>20 DEF FlushEnds, hostVars
<1>21. ASSUME GrowOld \/ Hydrate \/ StopWorker \/ CompressAway \/ Rebuild PROVE ActorsOK'
  BY <1>4, <1>21 DEF GrowOld, Hydrate, StopWorker, CompressAway, Rebuild, hostVars
<1>22. CASE UNCHANGED outboxVars
  BY <1>4, <1>22 DEF outboxVars, hostVars
<1>23. ASSUME NEW a \in Actors, ActorStep(a) PROVE ActorsOK'
  BY <1>5, <1>6, <1>7, <1>9, <1>10, <1>12, <1>13, <1>14, <1>15, <1>20, <1>23
     DEF ActorStep, WorkerStep
<1> QED
  BY <1>16, <1>17, <1>18, <1>19, <1>21, <1>22, <1>23 DEF OutboxNext

-----------------------------------------------------------------------------
(* What has been acknowledged is on disk: acknowledged is what archive()     *)
(* held when its last flush was over.                                        *)
LEMMA AckedStep ==
  ASSUME OutboxAssumption, OutboxIInv, [OutboxNext]_outboxVars
  PROVE  AckedIsDurable' /\ acked' \subseteq Refs
<1>0. /\ OutboxTypeOK /\ DiskFollows /\ AckedIsDurable /\ FilesMove /\ acked \subseteq Refs
  BY FilesStep DEF OutboxIInv, OutboxTypeOK
<1>1. RecordsStay
  BY <1>0, DiskStep
<1>2. ASSUME acked' = acked PROVE AckedIsDurable' /\ acked' \subseteq Refs
  BY <1>0, <1>1, <1>2 DEF AckedIsDurable, RecordsStay
<1>3. ASSUME Enqueued PROVE AckedIsDurable' /\ acked' \subseteq Refs
  <2>1. /\ actor["archive"].pc = "enqueue" /\ actor["archive"].left = {}
        /\ flushing # "archive" /\ indexFile' = indexFile
        /\ acked' = acked \cup actor["archive"].batch
    BY <1>3 DEF Enqueued, At, recVars
  <2>2. actor["archive"].batch \subseteq Recorded(indexFile)
    BY <2>1 DEF OutboxIInv, BatchesRecorded
  <2> QED
    BY <1>0, <2>1, <2>2 DEF AckedIsDurable, Recorded
<1> USE DEF tallyVars
<1>4. ASSUME NEW a \in Actors, ActorStep(a) PROVE AckedIsDurable' /\ acked' \subseteq Refs
  <2>1. ASSUME NEW r \in Refs,
               \/ MarkRetrying(a, r) \/ ProjectThrows(a, r) \/ MarkIndexed(a, r)
               \/ MarkFailed(a, r) \/ Enqueue(r) \/ ProjectRef(a, r)
        PROVE  acked' = acked
    BY <2>1 DEF MarkRetrying, ProjectThrows, MarkIndexed, MarkFailed, Enqueue, ProjectRef
  <2>2. ASSUME FlushEnds(a) \/ Recover(a) \/ ListPending(a) PROVE acked' = acked
    BY <2>2 DEF FlushEnds, Recover, ListPending
  <2> QED
    BY <1>2, <1>3, <1>4, <2>1, <2>2 DEF ActorStep, WorkerStep
<1>5. ASSUME StartArchive \/ TimerTick \/ GrowOld \/ Hydrate \/ StopWorker PROVE acked' = acked
  BY <1>5 DEF StartArchive, TimerTick, GrowOld, Hydrate, StopWorker
<1>6. ASSUME CompressAway \/ Dies \/ Rebuild \/ Restart PROVE acked' = acked
  BY <1>6 DEF CompressAway, Dies, Rebuild, Restart
<1>7. UNCHANGED outboxVars => acked' = acked
  BY DEF outboxVars
<1> QED
  BY <1>2, <1>4, <1>5, <1>6, <1>7 DEF OutboxNext

(* The counters and the sets of entries.                                     *)
Counted ==
    /\ aged \subseteq Refs /\ onDisk \subseteq Refs
    /\ archives \in 0 .. MaxArchives /\ stops \in 0 .. MaxStops

(* Counters keep to their bounds, and sets to the entries.                   *)
LEMMA CountedStep ==
  ASSUME OutboxAssumption, OutboxTypeOK, [OutboxNext]_outboxVars PROVE Counted'
<1>1. Counted /\ MaxArchives \in Nat /\ MaxStops \in Nat
  BY DEF OutboxTypeOK, Counted, OutboxAssumption, OutboxBoundsAssumption
<1>2. ASSUME aged' \subseteq aged \/ aged' \subseteq Refs, UNCHANGED <<onDisk, archives, stops>>
      PROVE  Counted'
  BY <1>1, <1>2 DEF Counted
<1> USE DEF tallyVars, hostVars, recVars
<1>3. ASSUME NEW a \in Actors, ActorStep(a) PROVE Counted'
  <2>1. ASSUME NEW r \in Refs,
               \/ MarkRetrying(a, r) \/ ProjectThrows(a, r) \/ MarkIndexed(a, r)
               \/ MarkFailed(a, r) \/ Enqueue(r) \/ ProjectRef(a, r)
        PROVE  aged' \subseteq aged /\ UNCHANGED <<onDisk, archives, stops>>
    BY <2>1 DEF MarkRetrying, ProjectThrows, MarkIndexed, MarkFailed, Enqueue, ProjectRef
  <2>2. ASSUME FlushEnds(a) \/ Recover(a) \/ ListPending(a) \/ Enqueued
        PROVE  aged' \subseteq aged /\ UNCHANGED <<onDisk, archives, stops>>
    BY <2>2 DEF FlushEnds, Recover, ListPending, Enqueued
  <2> QED
    BY <1>2, <1>3, <2>1, <2>2 DEF ActorStep, WorkerStep
<1>4. ASSUME TimerTick \/ GrowOld \/ Hydrate \/ Rebuild \/ Restart PROVE Counted'
  <2>1. (aged' = aged \/ aged' \subseteq Refs) /\ UNCHANGED <<onDisk, archives, stops>>
    BY <1>4 DEF TimerTick, GrowOld, Hydrate, Rebuild, Restart
  <2> QED
    BY <1>2, <2>1
<1>5. ASSUME StartArchive PROVE Counted'
  <2>1. UNCHANGED <<aged, onDisk, stops>> /\ archives < MaxArchives /\ archives' = archives + 1
    BY <1>5 DEF StartArchive
  <2> QED
    BY <1>1, <2>1 DEF Counted
<1>6. ASSUME StopWorker \/ Dies PROVE Counted'
  <2>1. /\ UNCHANGED <<aged, onDisk, archives>>
        /\ stops' = stops \/ (stops < MaxStops /\ stops' = stops + 1)
    BY <1>6 DEF StopWorker, Dies
  <2> QED
    BY <1>1, <2>1 DEF Counted
<1>7. ASSUME CompressAway PROVE Counted'
  <2>1. UNCHANGED <<aged, archives, stops>> /\ onDisk' \subseteq onDisk
    BY <1>7 DEF CompressAway
  <2> QED
    BY <1>1, <2>1 DEF Counted
<1>8. CASE UNCHANGED outboxVars
  BY <1>2, <1>8 DEF outboxVars
<1> QED
  BY <1>3, <1>4, <1>5, <1>6, <1>7, <1>8 DEF OutboxNext

(* The files stay files of records.                                          *)
LEMMA FilesTyped ==
  ASSUME OutboxAssumption, OutboxTypeOK, FilesMove
  PROVE  /\ index' \in [Refs -> Records] /\ indexFile' \in [Refs -> Records]
         /\ flushing' \in Actors \cup {"none"}
         /\ up' \/ flushing' = "none"
<1>1. /\ index \in [Refs -> Records] /\ indexFile \in [Refs -> Records]
      /\ flushing \in Actors \cup {"none"} /\ (up \/ flushing = "none")
  BY Typed DEF OutboxTypeOK
<1>2. EmptyIndex \in [Refs -> Records]
  BY RecordFields
<1>3. CASE \E a \in Actors, new \in SUBSET Refs : Begins(a, new)
  BY <1>1, <1>3 DEF Begins
<1> QED
  BY <1>1, <1>2, <1>3 DEF FilesMove, Actors

-----------------------------------------------------------------------------
(* The invariant holds at the start.                                         *)
LEMMA OutboxStarts ==
  ASSUME OutboxAssumption, OutboxInit PROVE OutboxIInv
<1>1. EmptyIndex \in [Refs -> Records] /\ \A r \in Refs : EmptyIndex[r].st = "none"
  BY RecordFields DEF EmptyIndex, NoRecord
<1>2. Idle \in [pc : Pcs, left : SUBSET Refs, batch : SUBSET Refs]
  BY DEF Idle, Pcs
<1>3. \A a \in Actors : actor[a] = Idle
  BY DEF OutboxInit
<1>4. OutboxTypeOK
  BY <1>1, <1>2, <1>3 DEF OutboxInit, OutboxTypeOK, Idle, Pcs, OutboxAssumption,
     OutboxBoundsAssumption
<1>5. DiskFollows /\ AckedIsDurable
  BY DEF OutboxInit, DiskFollows, AckedIsDurable, Recorded
<1>6. IndexedIsSearchable
  BY <1>1 DEF OutboxInit, IndexedIsSearchable
<1>7. BatchesRecorded /\ BatchesProjected
  BY <1>3 DEF BatchesRecorded, BatchesProjected, Idle, Actors
<1> QED
  BY <1>4, <1>5, <1>6, <1>7 DEF OutboxIInv

(* Every step keeps it, and keeps the records on disk.                       *)
LEMMA OutboxStep ==
  ASSUME OutboxAssumption, OutboxIInv, [OutboxNext]_outboxVars
  PROVE  OutboxIInv' /\ RecordsStay
<1>1. FilesMove /\ OutboxTypeOK /\ vectors \subseteq vectors'
  BY FilesStep, VectorsGrow DEF OutboxIInv
<1>2. ActorsOK' /\ Counted' /\ AckedIsDurable' /\ acked' \subseteq Refs
  BY <1>1, ActorsStep, CountedStep, AckedStep
<1>3. DiskFollows' /\ RecordsStay
  BY <1>1, DiskStep
<1>4. IndexedIsSearchable'
  BY <1>1, SearchStep
<1>5. /\ index' \in [Refs -> Records] /\ indexFile' \in [Refs -> Records]
      /\ flushing' \in Actors \cup {"none"}
      /\ up' \/ flushing' = "none"
  BY <1>1, FilesTyped
<1>6. OutboxTypeOK'
  BY <1>2, <1>5 DEF OutboxTypeOK, ActorsOK, Counted, Steps, Pcs
<1> QED
  BY <1>2, <1>3, <1>4, <1>6 DEF OutboxIInv, ActorsOK

-----------------------------------------------------------------------------
(* The inductive invariant.                                                  *)
THEOREM OutboxInvariant ==
  ASSUME OutboxAssumption PROVE OutboxSpec => []OutboxIInv
<1>1. OutboxInit => OutboxIInv
  BY OutboxStarts
<1>2. OutboxIInv /\ [OutboxNext]_outboxVars => OutboxIInv'
  BY OutboxStep
<1> QED
  BY <1>1, <1>2, PTL DEF OutboxSpec

(* Type correctness of the outbox, its file and its two actors.              *)
THEOREM OutboxTypes ==
  ASSUME OutboxAssumption PROVE OutboxSpec => []OutboxTypeOK
<1>1. OutboxIInv => OutboxTypeOK
  BY DEF OutboxIInv
<1> QED
  BY <1>1, OutboxInvariant, PTL

(* An entry whose enqueue() has returned is on disk from then on, whatever   *)
(* actor flushes meanwhile and whenever the process dies.                    *)
THEOREM AckedStaysOnDisk ==
  ASSUME OutboxAssumption PROVE OutboxSpec => []AckedIsDurable
<1>1. OutboxIInv => AckedIsDurable
  BY DEF OutboxIInv
<1> QED
  BY <1>1, OutboxInvariant, PTL

(* No record says indexed, on disk or in memory, of an entry without vector. *)
THEOREM IndexedHasVector ==
  ASSUME OutboxAssumption PROVE OutboxSpec => []IndexedIsSearchable
<1>1. OutboxIInv => IndexedIsSearchable
  BY DEF OutboxIInv
<1> QED
  BY <1>1, OutboxInvariant, PTL

(* No step, a death in the middle of a flush included, takes a record off    *)
(* the disk.                                                                 *)
THEOREM RecordsStayOnDisk ==
  ASSUME OutboxAssumption PROVE OutboxSpec => [][RecordsStay]_outboxVars
<1>1. OutboxIInv /\ [OutboxNext]_outboxVars => [RecordsStay]_outboxVars
  BY OutboxStep
<1> QED
  BY <1>1, OutboxInvariant, PTL DEF OutboxSpec
(* The ids of files and of a change of them.                                 *)
LEMMA IdsOf ==
  /\ \A S, T : IdsIn(S \cup T) = IdsIn(S) \cup IdsIn(T)
  /\ \A r : IdsIn({r}) = {r.id}
  /\ IdsIn({}) = {}
  /\ \A S, T : S \subseteq T => IdsIn(S) \subseteq IdsIn(T)
BY DEF IdsIn

(* What is not being stored any more stays as it is: a change of where       *)
(* requests are and of what was decided keeps the invariant.                 *)
LEMMA AsksMove ==
  ASSUME ApprovalIInv,
         ask' \in [Requests -> Asks], decision' \in [Requests -> {"open", "approve", "deny"}],
         writeErrors' \in 0 .. MaxWriteErrors,
         \A q \in Requests : ask'[q].pc = "done" => decision'[q] # "open",
         \A q \in Requests : ask'[q].pc = "storing" =>
               ask[q].pc = "storing" /\ ask'[q].record = ask[q].record,
         UNCHANGED <<fileVars, commandVars, ghostVars, issued>>
  PROVE  ApprovalIInv'
<1>1. /\ project' = project /\ user' = user /\ command' = command /\ commands' = commands
      /\ granted' = granted /\ raced' = raced /\ revoked' = revoked /\ issued' = issued
  BY DEF fileVars, commandVars, ghostVars
<1>2. ApprovalTypeOK'
  BY <1>1 DEF ApprovalIInv, ApprovalTypeOK
<1>3. RevokedStaysRevoked'
  BY <1>1 DEF ApprovalIInv, RevokedStaysRevoked, IdsIn
<1>4. GivenOnce'
  BY <1>1 DEF ApprovalIInv, GivenOnce, IdsIn
<1>5. CommandFollows'
  BY <1>1 DEF ApprovalIInv, CommandFollows, HoldsProject, Due, IdsIn
<1> QED
  BY <1>2, <1>3, <1>4, <1>5 DEF ApprovalIInv

(* A change of one request.                                                  *)
LEMMA AskMoves ==
  ASSUME NEW q \in Requests, ask \in [Requests -> Asks], NEW e \in Asks
  PROVE  /\ [ask EXCEPT ![q] = e] \in [Requests -> Asks]
         /\ [ask EXCEPT ![q] = e][q] = e
         /\ \A r \in Requests : r # q => [ask EXCEPT ![q] = e][r] = ask[r]
OBVIOUS

(* A request that is over.                                                   *)
LEMMA OverIs ==
  /\ [NoAsk EXCEPT !.pc = "done"] \in Asks
  /\ [NoAsk EXCEPT !.pc = "done"].pc = "done"
BY DEF NoAsk, Asks

(* Each of the steps in which a request is decided, or is asked.             *)
LEMMA DecidedKeeps ==
  ASSUME ApprovalIInv, NEW q \in Requests, NEW d \in {"approve", "deny"}, Done(q), Decide(q, d),
         writeErrors' \in 0 .. MaxWriteErrors,
         UNCHANGED <<fileVars, commandVars, ghostVars, issued>>
  PROVE  ApprovalIInv'
<1>1. /\ ask \in [Requests -> Asks] /\ decision \in [Requests -> {"open", "approve", "deny"}]
      /\ \A r \in Requests : ask[r].pc = "done" => decision[r] # "open"
  BY DEF ApprovalIInv, ApprovalTypeOK
<1> DEFINE over == [NoAsk EXCEPT !.pc = "done"]
<1>2. over \in Asks /\ over.pc = "done"
  BY OverIs
<1>3. ask' = [ask EXCEPT ![q] = over] /\ decision' = [decision EXCEPT ![q] = d]
  BY DEF Done, Decide
<1> HIDE DEF over
<1>4. /\ ask' \in [Requests -> Asks] /\ ask'[q] = over
      /\ \A r \in Requests : r # q => ask'[r] = ask[r]
  BY <1>1, <1>2, <1>3, AskMoves
<1>5. /\ decision' \in [Requests -> {"open", "approve", "deny"}] /\ decision'[q] = d
      /\ \A r \in Requests : r # q => decision'[r] = decision[r]
  BY <1>1, <1>3
<1>6. \A r \in Requests : ask'[r].pc = "done" => decision'[r] # "open"
  BY <1>1, <1>4, <1>5
<1>7. \A r \in Requests : ask'[r].pc = "storing" =>
         ask[r].pc = "storing" /\ ask'[r].record = ask[r].record
  BY <1>2, <1>4
<1> QED
  BY <1>4, <1>5, <1>6, <1>7, AsksMove

(* A decision of a request that goes on.                                     *)
LEMMA DecidingKeeps ==
  ASSUME ApprovalIInv, NEW q \in Requests, NEW d \in {"approve", "deny"}, Decide(q, d),
         UNCHANGED ask, UNCHANGED <<fileVars, commandVars, ghostVars, issued, writeErrors>>
  PROVE  ApprovalIInv'
<1>1. /\ ask \in [Requests -> Asks] /\ decision \in [Requests -> {"open", "approve", "deny"}]
      /\ writeErrors \in 0 .. MaxWriteErrors
      /\ \A r \in Requests : ask[r].pc = "done" => decision[r] # "open"
  BY DEF ApprovalIInv, ApprovalTypeOK
<1>2. /\ decision' \in [Requests -> {"open", "approve", "deny"}] /\ decision'[q] = d
      /\ \A r \in Requests : r # q => decision'[r] = decision[r]
  BY <1>1 DEF Decide
<1>3. ask' = ask /\ writeErrors' = writeErrors
  OBVIOUS
<1>4. \A r \in Requests : ask'[r].pc = "done" => decision'[r] # "open"
  BY <1>1, <1>2, <1>3
<1> QED
  BY <1>1, <1>2, <1>3, <1>4, AsksMove

(* A request that finds what was stored, asks, or is answered for once.      *)
LEMMA FindsKeep ==
  ASSUME ApprovalIInv, NEW q \in Requests,
         FindStored(q) \/ FindNothing(q) \/ AnswerOnce(q)
  PROVE  ApprovalIInv'
<1>1. /\ ask \in [Requests -> Asks] /\ decision \in [Requests -> {"open", "approve", "deny"}]
      /\ writeErrors \in 0 .. MaxWriteErrors
      /\ \A r \in Requests : ask[r].pc = "done" => decision[r] # "open"
  BY DEF ApprovalIInv, ApprovalTypeOK
<1>2. CASE FindStored(q)
  BY <1>1, <1>2, DecidedKeeps DEF FindStored
<1>3. CASE FindNothing(q)
  <2>1. PICK mode \in {"shared", "stdin", "nobody"} :
           IF mode = "nobody" THEN Done(q) /\ Decide(q, "deny")
           ELSE /\ ask' = [ask EXCEPT ![q].pc = "asking", ![q].mode = mode]
                /\ UNCHANGED decision
    BY <1>3 DEF FindNothing
  <2>2. CASE mode = "nobody"
    BY <1>1, <1>3, <2>1, <2>2, DecidedKeeps DEF FindNothing
  <2>3. CASE mode # "nobody"
    <3> DEFINE e == [ask[q] EXCEPT !.pc = "asking", !.mode = mode]
    <3>1. ask' = [ask EXCEPT ![q] = e] /\ decision' = decision
      BY <2>1, <2>3
    <3>2. e \in Asks /\ e.pc = "asking"
      BY <1>1, <2>3 DEF Asks
    <3> HIDE DEF e
    <3>3. /\ ask' \in [Requests -> Asks] /\ ask'[q] = e
          /\ \A r \in Requests : r # q => ask'[r] = ask[r]
      BY <1>1, <3>1, <3>2, AskMoves
    <3>4. \A r \in Requests : ask'[r].pc = "done" => decision'[r] # "open"
      BY <1>1, <3>1, <3>2, <3>3
    <3>5. \A r \in Requests : ask'[r].pc = "storing" =>
             ask[r].pc = "storing" /\ ask'[r].record = ask[r].record
      BY <3>2, <3>3
    <3>6. writeErrors' = writeErrors /\ UNCHANGED <<fileVars, commandVars, ghostVars, issued>>
      BY <1>3 DEF FindNothing
    <3> QED
      BY <1>1, <3>1, <3>3, <3>4, <3>5, <3>6, AsksMove
  <2> QED
    BY <2>2, <2>3
<1>4. CASE AnswerOnce(q)
  BY <1>1, <1>4, DecidedKeeps DEF AnswerOnce
<1> QED
  BY <1>2, <1>3, <1>4

(* A store that rejects, an input that closes, a prompt that times out.      *)
LEMMA EndsKeep ==
  ASSUME ApprovalBoundsAssumption, ApprovalIInv, NEW q \in Requests,
         StoreRejects(q) \/ InputCloses(q) \/ PromptTimesOut(q)
  PROVE  ApprovalIInv'
<1>1. /\ ask \in [Requests -> Asks] /\ decision \in [Requests -> {"open", "approve", "deny"}]
      /\ writeErrors \in 0 .. MaxWriteErrors
      /\ \A r \in Requests : ask[r].pc = "done" => decision[r] # "open"
  BY DEF ApprovalIInv, ApprovalTypeOK
<1>2. CASE StoreRejects(q)
  <2>1. writeErrors' \in 0 .. MaxWriteErrors /\ UNCHANGED <<fileVars, commandVars, ghostVars, issued>>
    BY <1>1, <1>2 DEF StoreRejects, ApprovalBoundsAssumption
  <2>2. CASE ask[q].mode = "shared"
    BY <1>2, <2>1, <2>2, DecidedKeeps DEF StoreRejects
  <2>3. CASE ask[q].mode # "shared"
    <3> DEFINE e == IF decision[q] = "open" THEN [ask[q] EXCEPT !.pc = "unheard"]
                    ELSE [NoAsk EXCEPT !.pc = "done"]
    <3>1. ask' = [ask EXCEPT ![q] = e] /\ decision' = decision
      BY <1>2, <2>3 DEF StoreRejects, Done
    <3>2. e \in Asks /\ e.pc # "storing" /\ (e.pc = "done" => decision[q] # "open")
      BY <1>1, OverIs DEF Asks
    <3> HIDE DEF e
    <3>3. /\ ask' \in [Requests -> Asks] /\ ask'[q] = e
          /\ \A r \in Requests : r # q => ask'[r] = ask[r]
      BY <1>1, <3>1, <3>2, AskMoves
    <3>4. \A r \in Requests : ask'[r].pc = "done" => decision'[r] # "open"
      BY <1>1, <3>1, <3>2, <3>3
    <3>5. \A r \in Requests : ask'[r].pc = "storing" =>
             ask[r].pc = "storing" /\ ask'[r].record = ask[r].record
      BY <3>2, <3>3
    <3> QED
      BY <1>1, <2>1, <3>1, <3>3, <3>4, <3>5, AsksMove
  <2> QED
    BY <2>2, <2>3
<1>3. CASE InputCloses(q)
  <2>1. /\ Decide(q, "deny") /\ writeErrors' = writeErrors
        /\ UNCHANGED <<fileVars, commandVars, ghostVars, issued>>
        /\ UNCHANGED ask \/ Done(q)
    BY <1>3 DEF InputCloses
  <2> QED
    BY <1>1, <2>1, DecidedKeeps, DecidingKeeps
<1>4. CASE PromptTimesOut(q)
  <2>1. /\ Decide(q, "deny") /\ writeErrors' = writeErrors
        /\ UNCHANGED <<fileVars, commandVars, ghostVars, issued>>
        /\ UNCHANGED ask \/ Done(q)
    BY <1>4 DEF PromptTimesOut
  <2> QED
    BY <1>1, <2>1, DecidedKeeps, DecidingKeeps
<1> QED
  BY <1>2, <1>3, <1>4

(* A record is made: its id is new, and so in no file and not being stored.   *)
LEMMA AnswerWithRecordKeeps ==
  ASSUME ApprovalBoundsAssumption, ApprovalIInv, NEW q \in Requests, AnswerWithRecord(q)
  PROVE  ApprovalIInv'
<1>1. /\ ask \in [Requests -> Asks] /\ issued \in Nat /\ MaxRecords \in Nat
      /\ issued < MaxRecords /\ issued' = issued + 1
      /\ ask[q].pc = "asking"
  BY DEF ApprovalIInv, ApprovalTypeOK, AnswerWithRecord, ApprovalBoundsAssumption
<1>2. PICK path \in {AnyPath, q} :
         ask' = [ask EXCEPT ![q].pc = "storing", ![q].record = [id |-> issued + 1, path |-> path]]
  BY DEF AnswerWithRecord
<1> DEFINE record == [id |-> issued + 1, path |-> path]
           e == [ask[q] EXCEPT !.pc = "storing", !.record = record]
<1>3. record \in ApprovalRecords /\ record.id = issued + 1
  BY <1>1 DEF ApprovalRecords, Ids
<1>4. ask' = [ask EXCEPT ![q] = e]
  BY <1>2
<1> HIDE DEF record
<1>5. e \in Asks /\ e.pc = "storing" /\ e.record = record
  BY <1>1, <1>3 DEF Asks
<1> HIDE DEF e
<1>6. /\ ask' \in [Requests -> Asks] /\ ask'[q] = e
      /\ \A r \in Requests : r # q => ask'[r] = ask[r]
  BY <1>1, <1>4, <1>5, AskMoves
<1>7. /\ project' = project /\ user' = user /\ command' = command /\ commands' = commands
      /\ granted' = granted /\ raced' = raced /\ revoked' = revoked
      /\ decision' = decision /\ writeErrors' = writeErrors
  BY DEF AnswerWithRecord, fileVars, commandVars, ghostVars
<1>8. 1 .. issued \subseteq 1 .. issued' /\ issued' \in 0 .. MaxRecords /\ issued + 1 \in 1 .. issued'
      /\ issued + 1 \notin 1 .. issued
  BY <1>1
<1>9. ApprovalTypeOK'
  <2>1. granted' \cup raced' \cup revoked' \subseteq 1 .. issued'
    BY <1>7, <1>8 DEF ApprovalIInv, ApprovalTypeOK
  <2>2. \A r \in Requests : ask'[r].pc = "done" => decision'[r] # "open"
    BY <1>5, <1>6, <1>7 DEF ApprovalIInv, ApprovalTypeOK
  <2> QED
    BY <1>6, <1>7, <1>8, <2>1, <2>2 DEF ApprovalIInv, ApprovalTypeOK
<1>10. RevokedStaysRevoked'
  BY <1>7 DEF ApprovalIInv, RevokedStaysRevoked, IdsIn
<1>11. GivenOnce'
  <2>1. /\ granted \subseteq 1 .. issued
        /\ \A r \in Requests : ask[r].pc = "storing" => ask[r].record.id \in (1 .. issued) \ granted
        /\ \A r, t \in Requests :
              ask[r].pc = "storing" /\ ask[t].pc = "storing" /\ ask[r].record.id = ask[t].record.id
              => r = t
    BY DEF ApprovalIInv, ApprovalTypeOK, GivenOnce
  <2>2. \A r \in Requests : ask'[r].pc = "storing" => ask'[r].record.id \in (1 .. issued') \ granted'
    BY <1>3, <1>5, <1>6, <1>7, <1>8, <2>1
  <2>3. \A r, t \in Requests :
              ask'[r].pc = "storing" /\ ask'[t].pc = "storing"
                 /\ ask'[r].record.id = ask'[t].record.id
              => r = t
    BY <1>3, <1>5, <1>6, <1>8, <2>1
  <2> QED
    BY <1>7, <2>2, <2>3 DEF ApprovalIInv, GivenOnce, IdsIn
<1>12. CommandFollows'
  BY <1>7 DEF ApprovalIInv, CommandFollows, HoldsProject, Due, IdsIn
<1> QED
  BY <1>9, <1>10, <1>11, <1>12 DEF ApprovalIInv

(* The record is in the project's file, and granted: nobody has revoked it,   *)
(* and no command knows of it.                                                *)
LEMMA StoredKeeps ==
  ASSUME ApprovalIInv, NEW q \in Requests, Stored(q) PROVE ApprovalIInv'
<1> DEFINE r == ask[q].record
           n == ask[q].record.id
<1>1. /\ ask \in [Requests -> Asks] /\ decision \in [Requests -> {"open", "approve", "deny"}]
      /\ ask[q].pc = "storing" /\ n \in (1 .. issued) \ granted
      /\ project' = project \cup {r} /\ granted' = granted \cup {n}
      /\ raced' = IF HoldsProject THEN raced \cup {n} ELSE raced
      /\ user' = user /\ revoked' = revoked /\ command' = command /\ commands' = commands
      /\ issued' = issued /\ writeErrors' = writeErrors /\ Done(q)
      /\ IF decision[q] = "open" THEN Decide(q, "approve") ELSE UNCHANGED decision
  BY DEF ApprovalIInv, ApprovalTypeOK, GivenOnce, Stored, commandVars
<1> DEFINE over == [NoAsk EXCEPT !.pc = "done"]
<1>2. over \in Asks /\ over.pc = "done"
  BY OverIs
<1>3. ask' = [ask EXCEPT ![q] = over]
  BY <1>1 DEF Done
<1> HIDE DEF over
<1>4. /\ ask' \in [Requests -> Asks] /\ ask'[q] = over
      /\ \A t \in Requests : t # q => ask'[t] = ask[t]
  BY <1>1, <1>2, <1>3, AskMoves
<1>5. /\ decision' \in [Requests -> {"open", "approve", "deny"}] /\ decision'[q] # "open"
      /\ \A t \in Requests : t # q => decision'[t] = decision[t]
  BY <1>1 DEF Decide
<1>6. r \in ApprovalRecords
  <2>1. r \in ApprovalRecords \cup {NoApproval}
    BY <1>1 DEF Asks
  <2>2. n # 0
    BY <1>1
  <2> QED
    BY <2>1, <2>2 DEF NoApproval
<1>7. IdsIn(project') = IdsIn(project) \cup {n} /\ IdsIn(user') = IdsIn(user)
      /\ IdsIn(project' \cup user') = IdsIn(project \cup user) \cup {n}
  BY <1>1 DEF IdsIn
<1> HIDE DEF r, n
<1>8. ApprovalTypeOK'
  <2>1. \A t \in Requests : ask'[t].pc = "done" => decision'[t] # "open"
    BY <1>4, <1>5 DEF ApprovalIInv, ApprovalTypeOK
  <2>2. granted' \cup raced' \cup revoked' \subseteq 1 .. issued'
    BY <1>1 DEF ApprovalIInv, ApprovalTypeOK
  <2>3. project' \in SUBSET ApprovalRecords
    BY <1>1, <1>6 DEF ApprovalIInv, ApprovalTypeOK
  <2> QED
    BY <1>1, <1>4, <1>5, <2>1, <2>2, <2>3 DEF ApprovalIInv, ApprovalTypeOK
<1>9. RevokedStaysRevoked'
  <2>1. revoked \subseteq granted /\ revoked \cap IdsIn(project \cup user) = {}
    BY DEF ApprovalIInv, GivenOnce, RevokedStaysRevoked
  <2>2. revoked' \cap IdsIn(project' \cup user') = {}
    BY <1>1, <1>7, <2>1
  <2> QED
    BY <2>2 DEF RevokedStaysRevoked
<1>10. GivenOnce'
  <2>1. /\ IdsIn(project \cup user) \subseteq granted /\ revoked \subseteq granted
        /\ \A t \in Requests : ask[t].pc = "storing" => ask[t].record.id \in (1 .. issued) \ granted
        /\ \A s, t \in Requests :
              ask[s].pc = "storing" /\ ask[t].pc = "storing" /\ ask[s].record.id = ask[t].record.id
              => s = t
    BY DEF ApprovalIInv, GivenOnce
  <2>2. IdsIn(project' \cup user') \subseteq granted' /\ revoked' \subseteq granted'
    BY <1>1, <1>7, <2>1
  <2>3. \A t \in Requests : ask'[t].pc = "storing" => t # q /\ ask'[t] = ask[t]
    BY <1>2, <1>4
  <2>4. \A t \in Requests : ask'[t].pc = "storing" => ask'[t].record.id \in (1 .. issued') \ granted'
    BY <1>1, <2>1, <2>3 DEF n
  <2>5. \A s, t \in Requests :
              ask'[s].pc = "storing" /\ ask'[t].pc = "storing"
                 /\ ask'[s].record.id = ask'[t].record.id
              => s = t
    BY <2>1, <2>3
  <2> QED
    BY <2>2, <2>4, <2>5 DEF GivenOnce
<1>11. CommandFollows'
  <2>1. CommandFollows
    BY DEF ApprovalIInv
  <2>2. n \notin command.known
    BY <1>1, <2>1 DEF CommandFollows
  <2>3. /\ HoldsProject' = HoldsProject /\ Due' = Due /\ Due \subseteq command.known
    BY <1>1 DEF HoldsProject, Due
  <2>4. HoldsProject => (IdsIn(project') \ IdsIn(command'.copy)) \subseteq raced' \ command'.known
    BY <1>1, <1>7, <2>1, <2>2 DEF CommandFollows, IdsIn
  <2>5. command'.pc \in {"readUser", "writeUser", "return"} => IdsIn(project') \cap Due = {}
    BY <1>1, <1>7, <2>1, <2>2, <2>3 DEF CommandFollows
  <2>6. IdsIn(command'.copy) \subseteq granted' \ revoked'
    BY <1>1, <2>1 DEF CommandFollows, IdsIn
  <2>7. command'.pc = "promoteUser" => command'.id \in IdsIn(command'.copy)
    BY <1>1, <2>1 DEF CommandFollows, IdsIn
  <2>8. (command'.pc = "return" => IdsIn(user') \cap Due = {})
        /\ (command'.pc = "promoteWrite" => command'.id \in IdsIn(user'))
    BY <1>1, <1>7, <2>1 DEF CommandFollows
  <2>9. command'.known \subseteq granted'
    BY <1>1, <2>1 DEF CommandFollows
  <2> QED
    BY <1>1, <2>1, <2>3, <2>4, <2>5, <2>6, <2>7, <2>8, <2>9 DEF CommandFollows
<1> QED
  BY <1>8, <1>9, <1>10, <1>11 DEF ApprovalIInv

(* What a command does: no request is touched, and no file gets what was not  *)
(* granted, or what was revoked.                                              *)
LEMMA CommandMoves ==
  ASSUME ApprovalIInv, UNCHANGED <<promptVars, granted, raced, issued, writeErrors>>,
         commands' \in 0 .. MaxCommands, command' \in Commands,
         project' \in SUBSET ApprovalRecords, user' \in SUBSET ApprovalRecords,
         revoked' \subseteq granted,
         IdsIn(project') \subseteq granted \ revoked', IdsIn(user') \subseteq granted \ revoked',
         CommandFollows'
  PROVE  ApprovalIInv'
<1>1. /\ ask' = ask /\ decision' = decision /\ granted' = granted /\ raced' = raced
      /\ issued' = issued /\ writeErrors' = writeErrors
  BY DEF promptVars
<1>2. IdsIn(project' \cup user') = IdsIn(project') \cup IdsIn(user')
  BY IdsOf
<1>3. ApprovalTypeOK'
  <2>1. granted' \cup raced' \cup revoked' \subseteq 1 .. issued'
    BY <1>1 DEF ApprovalIInv, ApprovalTypeOK
  <2> QED
    BY <1>1, <2>1 DEF ApprovalIInv, ApprovalTypeOK
<1>4. GivenOnce'
  <2>1. IdsIn(project' \cup user') \subseteq granted' /\ revoked' \subseteq granted'
    BY <1>1, <1>2
  <2> QED
    BY <1>1, <2>1 DEF ApprovalIInv, GivenOnce
<1>5. RevokedStaysRevoked'
  <2>1. revoked' \cap IdsIn(project' \cup user') = {}
    BY <1>2
  <2> QED
    BY <2>1 DEF RevokedStaysRevoked
<1> QED
  BY <1>3, <1>4, <1>5 DEF ApprovalIInv

(* What the files hold.                                                       *)
LEMMA FilesHold ==
  ASSUME ApprovalBoundsAssumption, ApprovalIInv
  PROVE  /\ project \in SUBSET ApprovalRecords /\ user \in SUBSET ApprovalRecords
         /\ IdsIn(project) \subseteq granted \ revoked /\ IdsIn(user) \subseteq granted \ revoked
         /\ revoked \subseteq granted /\ commands \in 0 .. MaxCommands /\ command \in Commands
         /\ granted \subseteq Ids /\ CommandFollows
<1>1. IdsIn(project \cup user) = IdsIn(project) \cup IdsIn(user)
  BY IdsOf
<1>2. /\ IdsIn(project \cup user) \subseteq granted /\ revoked \subseteq granted
      /\ revoked \cap IdsIn(project \cup user) = {}
  BY DEF ApprovalIInv, GivenOnce, RevokedStaysRevoked
<1>3. /\ project \in SUBSET ApprovalRecords /\ user \in SUBSET ApprovalRecords
      /\ commands \in 0 .. MaxCommands /\ command \in Commands
      /\ granted \subseteq 1 .. issued /\ issued \in 0 .. MaxRecords
  BY DEF ApprovalIInv, ApprovalTypeOK
<1>4. granted \subseteq Ids
  BY <1>3 DEF Ids, ApprovalBoundsAssumption
<1> QED
  BY <1>1, <1>2, <1>3, <1>4 DEF ApprovalIInv

(* No command.                                                                *)
LEMMA NoCommandIs ==
  ASSUME ApprovalBoundsAssumption
  PROVE  /\ NoCommand \in Commands /\ NoCommand.pc = "idle"
         /\ NoCommand.copy = {} /\ NoCommand.known = {}
<1>1. 0 \in 0 .. MaxRecords
  BY DEF ApprovalBoundsAssumption
<1> QED
  BY <1>1 DEF NoCommand, Commands

(* Where no command runs there is nothing to follow.                        *)
LEMMA QuietFollows ==
  ASSUME ApprovalBoundsAssumption, command' = NoCommand PROVE CommandFollows'
BY NoCommandIs, IdsOf DEF CommandFollows, HoldsProject

(* What is kept of a copy.                                                    *)
LEMMA KeptIs ==
  ASSUME NEW S
  PROVE  /\ Remaining(S) \subseteq S /\ IdsIn(Remaining(S)) \subseteq IdsIn(S)
         /\ command.op = "clear" => Remaining(S) = {} /\ IdsIn(Remaining(S)) = {}
         /\ command.op # "clear" => IdsIn(Remaining(S)) = IdsIn(S) \ {command.id}
BY DEF Remaining, IdsIn

(* A command that reads the project's file.                                 *)
LEMMA CommandReadsKeeps ==
  ASSUME ApprovalBoundsAssumption, ApprovalIInv, CommandReads PROVE ApprovalIInv'
<1>1. /\ project' = project /\ user' = user /\ granted' = granted /\ raced' = raced
      /\ revoked' = revoked /\ UNCHANGED <<promptVars, granted, raced, issued, writeErrors>>
      /\ commands' = commands + 1 /\ commands < MaxCommands
  BY DEF CommandReads, fileVars, ghostVars
<1>2. commands' \in 0 .. MaxCommands
  BY <1>1, FilesHold DEF ApprovalBoundsAssumption
<1>3. PICK op \in {"revoke", "clear", "promote"}, id \in 1 .. issued :
         command' = IF op # "promote"
                      THEN [op |-> op, id |-> id, pc |-> "writeProject",
                            copy |-> project, known |-> granted]
                    ELSE IF \E r \in project : r.id = id
                      THEN [op |-> op, id |-> id, pc |-> "promoteUser",
                            copy |-> project, known |-> granted]
                    ELSE NoCommand
  BY DEF CommandReads
<1>4. id \in 0 .. MaxRecords
  <2>1. issued \in 0 .. MaxRecords
    BY DEF ApprovalIInv, ApprovalTypeOK
  <2> QED
    BY <2>1 DEF ApprovalBoundsAssumption
<1>5. command' \in Commands
  BY <1>3, <1>4, FilesHold, NoCommandIs DEF Commands
<1>6. CommandFollows'
  <2>1. CASE command' = NoCommand
    BY <2>1, QuietFollows
  <2>2. CASE op # "promote"
    <3>1. /\ command'.op = op /\ command'.pc = "writeProject" /\ command'.copy = project
          /\ command'.known = granted
      BY <1>3, <2>2
    <3>2. IdsIn(command'.copy) = IdsIn(project')
      BY <1>1, <3>1
    <3> QED
      BY <1>1, <2>2, <3>1, <3>2, FilesHold DEF CommandFollows
  <2>3. CASE op = "promote" /\ \E r \in project : r.id = id
    <3>1. /\ command'.op = "promote" /\ command'.pc = "promoteUser" /\ command'.copy = project
          /\ command'.known = granted /\ command'.id = id
      BY <1>3, <2>3
    <3>2. IdsIn(command'.copy) = IdsIn(project') /\ id \in IdsIn(project')
      BY <1>1, <2>3, <3>1 DEF IdsIn
    <3> QED
      BY <1>1, <3>1, <3>2, FilesHold DEF CommandFollows
  <2> QED
    BY <1>3, <2>1, <2>2, <2>3
<1> QED
  BY <1>1, <1>2, <1>5, <1>6, CommandMoves, FilesHold

(* A step to a place of the command with a copy.                              *)
LEMMA GotoIs ==
  ASSUME command \in Commands, NEW copy \in SUBSET ApprovalRecords,
         NEW pc \in {"readUser", "writeUser", "return", "promoteWrite"}, CommandGoto(pc, copy)
  PROVE  /\ command' \in Commands
         /\ command'.pc = pc /\ command'.copy = copy /\ command'.op = command.op
         /\ command'.id = command.id /\ command'.known = command.known
         /\ Due' = Due
<1>1. /\ command' \in Commands
      /\ command'.pc = pc /\ command'.copy = copy /\ command'.op = command.op
      /\ command'.id = command.id /\ command'.known = command.known
  BY DEF CommandGoto, Commands
<1> QED
  BY <1>1 DEF Due

(* A command that writes the project's file without what it removes.        *)
LEMMA CommandWritesProjectKeeps ==
  ASSUME ApprovalBoundsAssumption, ApprovalIInv, CommandWritesProject PROVE ApprovalIInv'
<1>1. /\ command.pc = "writeProject"
      /\ project' = IF Remaining(command.copy) = command.copy THEN project ELSE Remaining(command.copy)
      /\ CommandGoto("readUser", {})
      /\ user' = user /\ commands' = commands /\ granted' = granted /\ raced' = raced
      /\ revoked' = revoked /\ UNCHANGED <<promptVars, granted, raced, issued, writeErrors>>
  BY DEF CommandWritesProject, CommandAt, ghostVars
<1>2. /\ command \in Commands /\ {} \in SUBSET ApprovalRecords /\ command.copy \in SUBSET ApprovalRecords
      /\ HoldsProject
  BY <1>1, FilesHold DEF Commands, HoldsProject
<1>3. /\ command' \in Commands
      /\ command'.pc = "readUser" /\ command'.copy = {} /\ command'.op = command.op
      /\ command'.id = command.id /\ command'.known = command.known /\ Due' = Due
  BY <1>1, <1>2, GotoIs
<1>4. /\ command.known \subseteq granted
      /\ IdsIn(command.copy) \subseteq granted \ revoked
      /\ (IdsIn(project) \ IdsIn(command.copy)) \subseteq raced \ command.known
      /\ command.op \in {"revoke", "clear"}
  BY <1>1, <1>2, FilesHold DEF CommandFollows
<1>5. project' \in SUBSET ApprovalRecords /\ IdsIn(project') \subseteq granted \ revoked
  BY <1>1, <1>2, <1>4, KeptIs, FilesHold
<1>6. IdsIn(Remaining(command.copy)) \cap Due = {}
  BY <1>4, KeptIs DEF Due
<1>7. IdsIn(project') \cap Due = {}
  <2>1. CASE Remaining(command.copy) = command.copy
    BY <1>1, <1>4, <1>6, <2>1 DEF Due
  <2>2. CASE Remaining(command.copy) # command.copy
    BY <1>1, <1>6, <2>2
  <2> QED
    BY <2>1, <2>2
<1>8. CommandFollows'
  BY <1>1, <1>3, <1>4, <1>7, IdsOf DEF CommandFollows, HoldsProject
<1> QED
  BY <1>1, <1>3, <1>5, <1>8, CommandMoves, FilesHold

(* A command that reads the user's file.                                    *)
LEMMA CommandReadsUserKeeps ==
  ASSUME ApprovalBoundsAssumption, ApprovalIInv, CommandReadsUser PROVE ApprovalIInv'
<1>1. /\ command.pc = "readUser" /\ CommandGoto("writeUser", user)
      /\ user' = user /\ project' = project /\ commands' = commands /\ granted' = granted
      /\ raced' = raced /\ revoked' = revoked
      /\ UNCHANGED <<promptVars, granted, raced, issued, writeErrors>>
  BY DEF CommandReadsUser, CommandAt, ghostVars, fileVars
<1>2. command \in Commands /\ user \in SUBSET ApprovalRecords
  BY FilesHold
<1>3. /\ command' \in Commands
      /\ command'.pc = "writeUser" /\ command'.copy = user /\ command'.op = command.op
      /\ command'.id = command.id /\ command'.known = command.known /\ Due' = Due
  BY <1>1, <1>2, GotoIs
<1>4. /\ command.known \subseteq granted /\ IdsIn(project) \cap Due = {}
      /\ command.op \in {"revoke", "clear"}
  BY <1>1, FilesHold DEF CommandFollows
<1>5. CommandFollows'
  BY <1>1, <1>3, <1>4, FilesHold DEF CommandFollows, HoldsProject
<1> QED
  BY <1>1, <1>3, <1>5, CommandMoves, FilesHold

(* A command that writes the user's file without what it removes.           *)
LEMMA CommandWritesUserKeeps ==
  ASSUME ApprovalBoundsAssumption, ApprovalIInv, CommandWritesUser PROVE ApprovalIInv'
<1>1. /\ command.pc = "writeUser" /\ CommandGoto("return", {})
      /\ user' = Remaining(command.copy) /\ project' = project /\ commands' = commands
      /\ granted' = granted /\ raced' = raced /\ revoked' = revoked
      /\ UNCHANGED <<promptVars, granted, raced, issued, writeErrors>>
  BY DEF CommandWritesUser, CommandAt, ghostVars
<1>2. command \in Commands /\ {} \in SUBSET ApprovalRecords /\ command.copy \in SUBSET ApprovalRecords
  BY FilesHold DEF Commands
<1>3. /\ command' \in Commands
      /\ command'.pc = "return" /\ command'.copy = {} /\ command'.op = command.op
      /\ command'.id = command.id /\ command'.known = command.known /\ Due' = Due
  BY <1>1, <1>2, GotoIs
<1>4. /\ command.known \subseteq granted /\ IdsIn(project) \cap Due = {}
      /\ command.op \in {"revoke", "clear"} /\ IdsIn(command.copy) \subseteq granted \ revoked
  BY <1>1, FilesHold DEF CommandFollows
<1>5. /\ user' \in SUBSET ApprovalRecords /\ IdsIn(user') \subseteq granted \ revoked
      /\ IdsIn(user') \cap Due = {}
  BY <1>1, <1>2, <1>4, KeptIs DEF Due
<1>6. CommandFollows'
  BY <1>1, <1>3, <1>4, <1>5, IdsOf DEF CommandFollows, HoldsProject
<1> QED
  BY <1>1, <1>3, <1>5, <1>6, CommandMoves, FilesHold

(* A promotion that appends to the user's file.                             *)
LEMMA PromoteAppendsUserKeeps ==
  ASSUME ApprovalBoundsAssumption, ApprovalIInv, PromoteAppendsUser PROVE ApprovalIInv'
<1>1. /\ command.pc = "promoteUser" /\ CommandGoto("promoteWrite", command.copy)
      /\ user' = user \cup {r \in command.copy : r.id = command.id}
      /\ project' = project /\ commands' = commands
      /\ granted' = granted /\ raced' = raced /\ revoked' = revoked
      /\ UNCHANGED <<promptVars, granted, raced, issued, writeErrors>>
  BY DEF PromoteAppendsUser, CommandAt, ghostVars
<1>2. command \in Commands /\ command.copy \in SUBSET ApprovalRecords /\ HoldsProject
  BY <1>1, FilesHold DEF Commands, HoldsProject
<1>3. /\ command' \in Commands
      /\ command'.pc = "promoteWrite" /\ command'.copy = command.copy /\ command'.op = command.op
      /\ command'.id = command.id /\ command'.known = command.known
  BY <1>1, <1>2, GotoIs
<1>4. /\ command.known \subseteq granted /\ IdsIn(command.copy) \subseteq granted \ revoked
      /\ (IdsIn(project) \ IdsIn(command.copy)) \subseteq raced \ command.known
      /\ command.op = "promote" /\ command.id \in IdsIn(command.copy)
  BY <1>1, <1>2, FilesHold DEF CommandFollows
<1>5. /\ user' \in SUBSET ApprovalRecords /\ IdsIn(user') \subseteq granted \ revoked
      /\ command.id \in IdsIn(user')
  <2>1. IdsIn({r \in command.copy : r.id = command.id}) = {command.id}
    BY <1>4 DEF IdsIn
  <2>2. IdsIn(user') = IdsIn(user) \cup {command.id}
    <3> DEFINE extra == {r \in command.copy : r.id = command.id}
    <3>1. user' = user \cup extra /\ IdsIn(extra) = {command.id}
      BY <1>1, <2>1
    <3> HIDE DEF extra
    <3>2. IdsIn(user \cup extra) = IdsIn(user) \cup IdsIn(extra)
      BY IdsOf
    <3> QED
      BY <3>1, <3>2
  <2> QED
    BY <1>1, <1>2, <1>4, <2>2, FilesHold
<1>6. IdsIn(command'.copy) = IdsIn(command.copy) /\ IdsIn(project') = IdsIn(project)
  BY <1>1, <1>3
<1>7. CommandFollows'
  BY <1>1, <1>3, <1>4, <1>5, <1>6 DEF CommandFollows
<1> QED
  BY <1>1, <1>3, <1>5, <1>7, CommandMoves, FilesHold

(* A command that promotes to the end, that returns or that is killed.      *)
LEMMA CommandEndsKeep ==
  ASSUME ApprovalBoundsAssumption, ApprovalIInv, PromoteWritesProject \/ CommandReturns \/ CommandKilled
  PROVE  ApprovalIInv'
<1>1. CASE PromoteWritesProject
  <2>1. /\ command.pc = "promoteWrite" /\ project' = Remaining(command.copy) /\ command' = NoCommand
        /\ user' = user /\ commands' = commands /\ granted' = granted /\ raced' = raced
        /\ revoked' = revoked /\ UNCHANGED <<promptVars, granted, raced, issued, writeErrors>>
    BY <1>1 DEF PromoteWritesProject, CommandAt, ghostVars
  <2>2. /\ command.copy \in SUBSET ApprovalRecords /\ IdsIn(command.copy) \subseteq granted \ revoked
    BY FilesHold DEF Commands, CommandFollows
  <2>3. project' \in SUBSET ApprovalRecords /\ IdsIn(project') \subseteq granted \ revoked
    BY <2>1, <2>2, KeptIs
  <2> QED
    BY <2>1, <2>3, QuietFollows, NoCommandIs, CommandMoves, FilesHold
<1>2. CASE CommandReturns
  <2>1. /\ command.pc = "return" /\ command' = NoCommand
        /\ revoked' = revoked \cup (IF command.op = "revoke" THEN {command.id} \cap command.known
                                    ELSE command.known)
        /\ user' = user /\ project' = project /\ commands' = commands /\ granted' = granted
        /\ raced' = raced /\ UNCHANGED <<promptVars, granted, raced, issued, writeErrors>>
    BY <1>2 DEF CommandReturns, CommandAt, fileVars
  <2>2. revoked' = revoked \cup Due
    BY <2>1 DEF Due
  <2>3. /\ IdsIn(project) \cap Due = {} /\ IdsIn(user) \cap Due = {}
        /\ command.known \subseteq granted /\ Due \subseteq command.known
    BY <2>1, FilesHold DEF CommandFollows, Due
  <2>4. /\ revoked' \subseteq granted
        /\ IdsIn(project') \subseteq granted \ revoked' /\ IdsIn(user') \subseteq granted \ revoked'
    BY <2>1, <2>2, <2>3, FilesHold
  <2> QED
    BY <2>1, <2>4, QuietFollows, NoCommandIs, CommandMoves, FilesHold
<1>3. CASE CommandKilled
  <2>1. /\ command' = NoCommand /\ user' = user /\ project' = project /\ commands' = commands
        /\ granted' = granted /\ raced' = raced /\ revoked' = revoked
        /\ UNCHANGED <<promptVars, granted, raced, issued, writeErrors>>
    BY <1>3 DEF CommandKilled, ghostVars, fileVars
  <2> QED
    BY <2>1, QuietFollows, NoCommandIs, CommandMoves, FilesHold
<1> QED
  BY <1>1, <1>2, <1>3

(* The invariant holds of the files that are empty.                         *)
LEMMA ApprovalInitially ==
  ASSUME ApprovalBoundsAssumption, ApprovalInit PROVE ApprovalIInv
<1>1. /\ project = {} /\ user = {} /\ ask = [q \in Requests |-> NoAsk]
      /\ decision = [q \in Requests |-> "open"]
      /\ issued = 0 /\ granted = {} /\ raced = {} /\ revoked = {}
      /\ command = NoCommand /\ commands = 0 /\ writeErrors = 0
  BY DEF ApprovalInit
<1>2. NoAsk \in Asks /\ NoAsk.pc = "idle"
  BY DEF NoAsk, Asks
<1>3. IdsIn(project \cup user) = {} /\ IdsIn({}) = {}
  BY <1>1, IdsOf
<1>4. ApprovalTypeOK
  BY <1>1, <1>2, NoCommandIs DEF ApprovalTypeOK, ApprovalBoundsAssumption
<1>5. RevokedStaysRevoked
  BY <1>1, <1>3 DEF RevokedStaysRevoked
<1>6. GivenOnce
  BY <1>1, <1>2, <1>3 DEF GivenOnce
<1>7. CommandFollows
  BY <1>1, <1>3, NoCommandIs DEF CommandFollows, HoldsProject
<1> QED
  BY <1>4, <1>5, <1>6, <1>7 DEF ApprovalIInv

(* Every step keeps the invariant.                                          *)
LEMMA ApprovalKeeps ==
  ASSUME ApprovalBoundsAssumption, ApprovalIInv, [ApprovalNext]_approvalVars
  PROVE  ApprovalIInv'
<1>1. CASE UNCHANGED approvalVars
  <2>1. /\ project' = project /\ user' = user /\ command' = command /\ commands' = commands
        /\ granted' = granted /\ raced' = raced /\ revoked' = revoked /\ issued' = issued
        /\ ask' = ask /\ decision' = decision /\ writeErrors' = writeErrors
    BY <1>1 DEF approvalVars, fileVars, promptVars, commandVars, ghostVars
  <2>2. /\ ask \in [Requests -> Asks] /\ decision \in [Requests -> {"open", "approve", "deny"}]
        /\ writeErrors \in 0 .. MaxWriteErrors
        /\ \A q \in Requests : ask[q].pc = "done" => decision[q] # "open"
    BY DEF ApprovalIInv, ApprovalTypeOK
  <2> QED
    BY <2>1, <2>2, AsksMove DEF fileVars, commandVars, ghostVars
<1>2. CASE \E q \in Requests : PromptStep(q)
  BY <1>2, FindsKeep, EndsKeep, AnswerWithRecordKeeps, StoredKeeps DEF PromptStep
<1>3. CASE CommandStep
  BY <1>3, CommandReadsKeeps, CommandWritesProjectKeeps, CommandReadsUserKeeps,
     CommandWritesUserKeeps, PromoteAppendsUserKeeps, CommandEndsKeep DEF CommandStep
<1> QED
  BY <1>1, <1>2, <1>3 DEF ApprovalNext

(* Approvals given and taken back, with their files and commands, follow one  *)
(* another as ApprovalIInv says.                                              *)
THEOREM ApprovalsInvariant ==
  ASSUME ApprovalBoundsAssumption PROVE ApprovalSpec => []ApprovalIInv
<1>1. ApprovalInit => ApprovalIInv
  BY ApprovalInitially
<1>2. ApprovalIInv /\ [ApprovalNext]_approvalVars => ApprovalIInv'
  BY ApprovalKeeps
<1> QED
  BY <1>1, <1>2, PTL DEF ApprovalSpec

(* Every reachable state has its types (approval-store.ts, approval-prompt.ts). *)
THEOREM ApprovalsTypes ==
  ASSUME ApprovalBoundsAssumption PROVE ApprovalSpec => []ApprovalTypeOK
<1>1. ApprovalIInv => ApprovalTypeOK
  BY DEF ApprovalIInv
<1> QED
  BY <1>1, ApprovalsInvariant, PTL

(* An approval that was revoked is in neither file again.                     *)
THEOREM RevokedStays ==
  ASSUME ApprovalBoundsAssumption PROVE ApprovalSpec => []RevokedStaysRevoked
<1>1. ApprovalIInv => RevokedStaysRevoked
  BY DEF ApprovalIInv
<1> QED
  BY <1>1, ApprovalsInvariant, PTL

(* A file is only written by its commands, but for what is appended; what a   *)
(* command leaves out it was told to, or has moved.                           *)
LEMMA OnlyRemoved ==
  ASSUME ApprovalBoundsAssumption, ApprovalIInv, [ApprovalNext]_approvalVars PROVE RemovedStep
<1> SUFFICES ASSUME NEW id \in granted \ raced, id \in IdsIn(project \cup user),
                    id \notin IdsIn(project' \cup user')
             PROVE  id \in Removing
  BY DEF RemovedStep
<1>1. /\ id \in IdsIn(project) \/ id \in IdsIn(user)
      /\ id \notin IdsIn(project') /\ id \notin IdsIn(user')
  BY IdsOf
<1>2. ~ UNCHANGED fileVars
  BY <1>1 DEF fileVars
<1>3. CommandFollows
  BY DEF ApprovalIInv
<1>4. ASSUME NEW q \in Requests, PromptStep(q) PROVE Stored(q)
  BY <1>2, <1>4 DEF PromptStep, FindStored, FindNothing, AnswerOnce, AnswerWithRecord,
     StoreRejects, InputCloses, PromptTimesOut
<1>5. ASSUME NEW q \in Requests, Stored(q) PROVE FALSE
  <2>1. project \subseteq project' /\ user' = user
    BY <1>5 DEF Stored
  <2> QED
    BY <1>1, <2>1, IdsOf
<1>6. CASE CommandWritesProject
  <2>1. /\ command.pc = "writeProject" /\ user' = user
        /\ project' = IF Remaining(command.copy) = command.copy THEN project ELSE Remaining(command.copy)
    BY <1>6 DEF CommandWritesProject, CommandAt
  <2>2. project' = Remaining(command.copy) /\ id \in IdsIn(project)
    BY <1>1, <2>1
  <2>3. /\ (IdsIn(project) \ IdsIn(command.copy)) \subseteq raced
        /\ command.op \in {"revoke", "clear"}
    BY <1>3, <2>1 DEF CommandFollows, HoldsProject
  <2>4. id \in IdsIn(command.copy)
    BY <2>2, <2>3
  <2>5. command.op # "clear" => id = command.id
    BY <1>1, <2>2, <2>4, KeptIs
  <2> QED
    BY <2>3, <2>5 DEF Removing
<1>7. CASE CommandWritesUser
  <2>1. command.pc = "writeUser" /\ user' = Remaining(command.copy) /\ project' = project
    BY <1>7 DEF CommandWritesUser, CommandAt
  <2>2. command.copy = user /\ command.op \in {"revoke", "clear"} /\ id \in IdsIn(user)
    BY <1>1, <1>3, <2>1 DEF CommandFollows
  <2>3. command.op # "clear" => id = command.id
    BY <1>1, <2>1, <2>2, KeptIs
  <2> QED
    BY <2>2, <2>3 DEF Removing
<1>8. CASE PromoteAppendsUser
  <2>1. project' = project /\ user \subseteq user'
    BY <1>8 DEF PromoteAppendsUser
  <2> QED
    BY <1>1, <2>1, IdsOf
<1>9. CASE PromoteWritesProject
  <2>1. command.pc = "promoteWrite" /\ project' = Remaining(command.copy) /\ user' = user
    BY <1>9 DEF PromoteWritesProject, CommandAt
  <2>2. /\ (IdsIn(project) \ IdsIn(command.copy)) \subseteq raced
        /\ command.op = "promote" /\ command.id \in IdsIn(user)
    BY <1>3, <2>1 DEF CommandFollows, HoldsProject
  <2>3. id \in IdsIn(command.copy) /\ id # command.id
    BY <1>1, <2>1, <2>2
  <2> QED
    BY <1>1, <2>1, <2>2, <2>3, KeptIs
<1>10. ASSUME CommandReads \/ CommandReadsUser \/ CommandReturns \/ CommandKilled PROVE FALSE
  BY <1>2, <1>10 DEF CommandReads, CommandReadsUser, CommandReturns, CommandKilled
<1>11. ~ UNCHANGED approvalVars
  BY <1>2 DEF approvalVars
<1> QED
  BY <1>4, <1>5, <1>6, <1>7, <1>8, <1>9, <1>10, <1>11 DEF ApprovalNext, CommandStep

(* An approval stays until a command that was told to removes it, whenever a  *)
(* promotion is killed (GrantsAreKept).                                       *)
THEOREM ApprovalsAreKept ==
  ASSUME ApprovalBoundsAssumption PROVE ApprovalSpec => GrantsAreKept
<1>1. ApprovalIInv /\ [ApprovalNext]_approvalVars => RemovedStep
  BY OnlyRemoved
<1> QED
  BY <1>1, ApprovalsInvariant, PTL DEF ApprovalSpec, GrantsAreKept

-----------------------------------------------------------------------------
(* The ranks of the entries that are not anchored: 1, 2, ... in their order. *)
LEMMA RanksCountUp ==
  ASSUME NEW S, NEW log \in Seq(S)
  PROVE  /\ Plain(log) \subseteq 1 .. Len(log) /\ Len(log) \in Nat
         /\ IsFiniteSet(Plain(log)) /\ Cardinality(Plain(log)) \in Nat
         /\ \A i \in Plain(log) : Rank(log, i) \in 1 .. Cardinality(Plain(log))
         /\ \A k \in 1 .. Cardinality(Plain(log)) : \E i \in Plain(log) : Rank(log, i) = k
<1> DEFINE T == {e \in S : ~ e.anchored}
           P == Plain(log)
           N == Cardinality(P)
           r == [i \in P |-> Rank(log, i)]
<1>1. DOMAIN log = 1 .. Len(log) /\ \A i \in DOMAIN log : log[i] \in S
  BY LenProperties, ElementOfSeq
<1>2. P = Hits(log, T) /\ \A i \in P : Rank(log, i) = Cardinality(HitsUpTo(log, T, i))
  <2>1. P = Hits(log, T)
    BY <1>1 DEF Plain, Hits
  <2> QED
    BY <2>1 DEF Rank, HitsUpTo
<1>3. P \subseteq 1 .. Len(log) /\ Len(log) \in Nat /\ IsFiniteSet(P) /\ N \in Nat
  BY <1>2, HitsAreIndices
<1>4. /\ \A i \in P : Rank(log, i) \in 1 .. N
      /\ \A i, j \in P : i < j => Rank(log, i) < Rank(log, j)
  <2> DEFINE H == Hits(log, T)
             C(i) == Cardinality(HitsUpTo(log, T, i))
  <2>1. /\ \A i \in H : C(i) \in 1 .. Cardinality(H)
        /\ \A i, j \in H : i < j => C(i) < C(j)
    BY HitsCountUp
  <2>2. P = H /\ \A i \in P : Rank(log, i) = C(i)
    BY <1>2
  <2> HIDE DEF P, H, C
  <2> QED
    BY <2>1, <2>2
<1>5. r \in Injection(P, 1 .. N)
  <2>1. r \in [P -> 1 .. N]
    BY <1>4
  <2>2. ASSUME NEW i \in P, NEW j \in P, r[i] = r[j] PROVE i = j
    <3>1. i \in Nat /\ j \in Nat /\ Rank(log, i) \in Nat /\ Rank(log, j) \in Nat
      BY <1>3, <1>4
    <3>2. ~ (i < j) /\ ~ (j < i)
      BY <1>4, <2>2, <3>1
    <3> QED
      BY <3>1, <3>2
  <2> QED
    BY <2>1, <2>2 DEF Injection, IsInjective
<1>6. IsFiniteSet(1 .. N) /\ Cardinality(1 .. N) = N
  BY <1>3, FS_Interval
<1>7. r \in Surjection(P, 1 .. N)
  BY <1>5, <1>6, FS_Injection
<1>8. \A k \in 1 .. N : \E i \in P : Rank(log, i) = k
  BY <1>7 DEF Surjection
<1> QED
  BY <1>3, <1>4, <1>8

(* The places 2 * y - 1 and 2 * y of the list are those of y.                *)
LEMMA Halves ==
  /\ \A x, y \in Nat : x < y => \/ (x + 1) \div 2 < (y + 1) \div 2
                                \/ (x + 1) \div 2 = (y + 1) \div 2 /\ x % 2 # 0 /\ y % 2 = 0
  /\ \A x \in Nat : \A k \in 1 .. 2 * x : (k + 1) \div 2 \in 1 .. x
  /\ \A x \in Nat : \A y \in 1 .. x : /\ 2 * y \in 1 .. 2 * x /\ 2 * y - 1 \in 1 .. 2 * x
                                      /\ (2 * y + 1) \div 2 = y /\ (2 * y) % 2 = 0
                                      /\ (2 * y - 1 + 1) \div 2 = y /\ (2 * y - 1) % 2 # 0
<1>1. \A x, y \in Nat : x < y => (x + 1) \div 2 <= (y + 1) \div 2
  OBVIOUS
<1>2. \A x, y \in Nat : x < y /\ (x + 1) \div 2 = (y + 1) \div 2 => x % 2 # 0 /\ y % 2 = 0
  OBVIOUS
<1>3. \A x \in Nat : (x + 1) \div 2 \in Int
  OBVIOUS
<1>4. \A x \in Nat : \A k \in 1 .. 2 * x : (k + 1) \div 2 \in 1 .. x
  OBVIOUS
<1>5. \A y \in Nat : (2 * y + 1) \div 2 = y /\ (2 * y) % 2 = 0
  OBVIOUS
<1>6. \A y \in Nat : (2 * y - 1 + 1) \div 2 = y /\ (2 * y - 1) % 2 # 0
  OBVIOUS
<1>7. \A x \in Nat : \A y \in 1 .. x : y \in Nat /\ 2 * y \in 1 .. 2 * x /\ 2 * y - 1 \in 1 .. 2 * x
  OBVIOUS
<1>8. \A a, b \in Int : a <= b => a < b \/ a = b
  OBVIOUS
<1>9. \A x, y \in Nat : x < y => \/ (x + 1) \div 2 < (y + 1) \div 2
                                 \/ (x + 1) \div 2 = (y + 1) \div 2 /\ x % 2 # 0 /\ y % 2 = 0
  BY <1>1, <1>2, <1>3, <1>8
<1> QED
  BY <1>4, <1>5, <1>6, <1>7, <1>9

(* Each place stays at most once, the later after the earlier.               *)
LEMMA NoneTwice ==
  ASSUME NEW S, NEW log \in Seq(S), NEW head \in Nat, NEW tail \in Nat,
         Cardinality(Plain(log)) >= head + tail
  PROVE  /\ Twice(log) \in Seq([at : DOMAIN log, again : BOOLEAN])
         /\ DOMAIN Twice(log) = 1 .. 2 * Len(log)
         /\ \A m, n \in 1 .. 2 * Len(log) :
              m < n /\ Twice(log)[m] \in Staying(log, head, tail)
                    /\ Twice(log)[n] \in Staying(log, head, tail)
                => Twice(log)[m].at < Twice(log)[n].at
         /\ \A i \in DOMAIN log : i \notin Middle(log, head, tail) <=>
              \E n \in 1 .. 2 * Len(log) :
                 Twice(log)[n] \in Staying(log, head, tail) /\ Twice(log)[n].at = i
<1> DEFINE P == Plain(log)
           N == Cardinality(P)
           R(i) == Rank(log, i)
           w == Twice(log)
           T == Staying(log, head, tail)
           L == Len(log)
<1>1. P \subseteq 1 .. L /\ L \in Nat /\ N \in Nat /\ DOMAIN log = 1 .. L
      /\ \A i \in P : R(i) \in 1 .. N
  BY RanksCountUp, LenProperties
<1>2. /\ w = [k \in 1 .. 2 * L |-> [at |-> (k + 1) \div 2, again |-> k % 2 = 0]]
      /\ DOMAIN w = 1 .. 2 * L
  BY DEF Twice
<1>3. \A x \in Nat : \A k \in 1 .. 2 * x : (k + 1) \div 2 \in 1 .. x
  BY Halves
<1>4. w \in Seq([at : DOMAIN log, again : BOOLEAN])
  <2>1. \A k \in 1 .. 2 * L : [at |-> (k + 1) \div 2, again |-> k % 2 = 0]
                                 \in [at : DOMAIN log, again : BOOLEAN]
    BY <1>1, <1>3
  <2>2. 2 * L \in Nat
    BY <1>1
  <2> QED
    BY <1>2, <2>1, <2>2, IsASeq
<1>5. MiddleEnd(N, tail) = N - tail
  BY <1>1 DEF MiddleEnd
<1>6. Middle(log, head, tail) = {i \in P : R(i) > head /\ R(i) <= N - tail}
  <2>1. \A i \in P : R(i) \in head + 1 .. N - tail <=> R(i) > head /\ R(i) <= N - tail
    BY <1>1
  <2> QED
    BY <1>5, <2>1 DEF Middle
<1>7. ASSUME NEW k \in 1 .. 2 * L
      PROVE  /\ w[k].at \in DOMAIN log /\ w[k].at = (k + 1) \div 2
             /\ (k % 2 = 0) = w[k].again
             /\ w[k] \in T /\ k % 2 # 0 => (w[k].at \in P => R(w[k].at) <= head)
             /\ w[k] \in T /\ k % 2 = 0 => (w[k].at \in P /\ R(w[k].at) > N - tail)
             /\ k % 2 # 0 /\ (w[k].at \in P => R(w[k].at) <= head) => w[k] \in T
             /\ k % 2 = 0 /\ (w[k].at \in P /\ R(w[k].at) > N - tail) => w[k] \in T
  <2> DEFINE A == [at : {i \in DOMAIN log : i \in P => R(i) <= head}, again : {FALSE}]
             B == [at : {i \in P : R(i) > N - tail}, again : {TRUE}]
  <2>1. T = A \cup B
    BY DEF Staying
  <2>2. w[k] = [at |-> (k + 1) \div 2, again |-> k % 2 = 0]
    BY <1>2
  <2>3. w[k].at \in DOMAIN log /\ w[k].at = (k + 1) \div 2 /\ w[k].again = (k % 2 = 0)
    BY <1>1, <1>3, <2>2
  <2>4. k % 2 = 0 => w[k] \notin A
    BY <2>3
  <2>5. k % 2 # 0 => w[k] \notin B
    BY <2>3
  <2>6. w[k] \in A => (w[k].at \in P => R(w[k].at) <= head)
    OBVIOUS
  <2>7. w[k] \in B => w[k].at \in P /\ R(w[k].at) > N - tail
    OBVIOUS
  <2>8. k % 2 # 0 /\ (w[k].at \in P => R(w[k].at) <= head) => w[k] \in A
    <3> DEFINE e == w[k].at
    <3>1. k % 2 # 0 => w[k] = [at |-> e, again |-> FALSE]
      <4>1. w[k] = [at |-> e, again |-> k % 2 = 0]
        BY <2>2
      <4>2. k % 2 # 0 => (k % 2 = 0) = FALSE
        OBVIOUS
      <4> HIDE DEF e, w
      <4> QED
        BY <4>1, <4>2
    <3>2. e \in DOMAIN log
      BY <2>3
    <3>3. \A Q : \A x \in Q : [at |-> x, again |-> FALSE] \in [at : Q, again : {FALSE}]
      OBVIOUS
    <3>4. e \in {i \in DOMAIN log : i \in P => R(i) <= head}
              => [at |-> e, again |-> FALSE] \in A
      BY <3>3 DEF A
    <3> HIDE DEF A, P, w
    <3> QED
      BY <3>1, <3>2, <3>4 DEF e
  <2>9. k % 2 = 0 /\ (w[k].at \in P /\ R(w[k].at) > N - tail) => w[k] \in B
    <3> DEFINE e == w[k].at
    <3>1. k % 2 = 0 => w[k] = [at |-> e, again |-> TRUE]
      <4>1. w[k] = [at |-> e, again |-> k % 2 = 0]
        BY <2>2
      <4>2. k % 2 = 0 => (k % 2 = 0) = TRUE
        OBVIOUS
      <4> HIDE DEF e, w
      <4> QED
        BY <4>1, <4>2
    <3>2. \A Q : \A x \in Q : [at |-> x, again |-> TRUE] \in [at : Q, again : {TRUE}]
      OBVIOUS
    <3>3. e \in {i \in P : R(i) > N - tail} => [at |-> e, again |-> TRUE] \in B
      BY <3>2 DEF B
    <3> HIDE DEF B, P, w
    <3> QED
      BY <3>1, <3>3 DEF e
  <2> HIDE DEF A, B, w, T, P, R
  <2> QED
    BY <2>1, <2>3, <2>4, <2>5, <2>6, <2>7, <2>8, <2>9
<1> HIDE DEF w, T, P, R
<1>8. ASSUME NEW m \in 1 .. 2 * L, NEW n \in 1 .. 2 * L, m < n, w[m] \in T, w[n] \in T
      PROVE  w[m].at < w[n].at
  <2>1. \A x, y \in Nat : x < y => \/ (x + 1) \div 2 < (y + 1) \div 2
                                   \/ (x + 1) \div 2 = (y + 1) \div 2 /\ x % 2 # 0 /\ y % 2 = 0
    BY Halves
  <2>2. m \in Nat /\ n \in Nat
    BY <1>1
  <2>3. w[m].at < w[n].at \/ (w[m].at = w[n].at /\ m % 2 # 0 /\ n % 2 = 0)
    <3>1. w[m].at = (m + 1) \div 2 /\ w[n].at = (n + 1) \div 2
      BY <1>7
    <3>2. \/ (m + 1) \div 2 < (n + 1) \div 2
          \/ (m + 1) \div 2 = (n + 1) \div 2 /\ m % 2 # 0 /\ n % 2 = 0
      BY <1>8, <2>1, <2>2
    <3> QED
      BY <3>1, <3>2
  <2>4. ASSUME w[m].at = w[n].at, m % 2 # 0, n % 2 = 0 PROVE FALSE
    <3>1. w[n].at \in P /\ R(w[n].at) > N - tail /\ R(w[n].at) <= head
      BY <1>7, <1>8, <2>4
    <3>2. R(w[n].at) \in Nat
      BY <1>1, <3>1 DEF P
    <3>3. \A x, y \in Nat : ~ (x > y - tail /\ x <= head /\ y >= head + tail)
      OBVIOUS
    <3> QED
      BY <1>1, <3>1, <3>2, <3>3 DEF P
  <2> QED
    BY <2>3, <2>4
<1>9. ASSUME NEW i \in DOMAIN log
      PROVE  i \notin Middle(log, head, tail) <=>
               \E n \in 1 .. 2 * L : w[n] \in T /\ w[n].at = i
  <2>1. ASSUME NEW n \in 1 .. 2 * L, w[n] \in T, w[n].at = i, i \in Middle(log, head, tail)
        PROVE  FALSE
    <3>1. i \in P /\ R(i) > head /\ R(i) <= N - tail
      BY <1>6, <2>1
    <3>2. R(i) \in Nat
      BY <1>1, <3>1
    <3>3. R(i) <= head \/ R(i) > N - tail
      BY <1>7, <2>1, <3>1
    <3> QED
      BY <1>1, <3>1, <3>2, <3>3
  <2>2. ASSUME i \notin Middle(log, head, tail)
        PROVE  \E n \in 1 .. 2 * L : w[n] \in T /\ w[n].at = i
    <3>1. \A x \in Nat : \A y \in 1 .. x : /\ 2 * y \in 1 .. 2 * x /\ 2 * y - 1 \in 1 .. 2 * x
                                           /\ (2 * y + 1) \div 2 = y /\ (2 * y) % 2 = 0
                                           /\ (2 * y - 1 + 1) \div 2 = y /\ (2 * y - 1) % 2 # 0
      BY Halves
    <3>2. /\ 2 * i \in 1 .. 2 * L /\ 2 * i - 1 \in 1 .. 2 * L
          /\ w[2 * i].at = i /\ (2 * i) % 2 = 0
          /\ w[2 * i - 1].at = i /\ (2 * i - 1) % 2 # 0
      BY <1>1, <1>7, <3>1
    <3>3. CASE i \in P => R(i) <= head
      BY <1>7, <3>2, <3>3
    <3>4. CASE i \in P /\ ~ (R(i) <= head)
      <4>1. R(i) \in Nat
        BY <1>1, <3>4
      <4>2. R(i) > N - tail
        BY <1>1, <1>6, <2>2, <3>4, <4>1
      <4> QED
        BY <1>7, <3>2, <3>4, <4>2
    <3> QED
      BY <3>3, <3>4
  <2> QED
    BY <2>1, <2>2
<1> QED
  BY <1>2, <1>4, <1>8, <1>9 DEF w, T

(* What stays of a log with plain entries enough for a head and a tail: all  *)
(* that is not of the middle M, once, in its order (p gives the places); and *)
(* then the summary of the middle.                                           *)
Stays(log, short, M, q, p) ==
    /\ M \subseteq DOMAIN log /\ 1 .. q \subseteq DOMAIN short
    /\ \A n \in 1 .. q : p[n] \in DOMAIN log /\ p[n] \notin M /\ short[n] = log[p[n]]
    /\ \A m, n \in 1 .. q : m < n => p[m] < p[n]
    /\ \A i \in DOMAIN log : i \notin M => \E n \in 1 .. q : p[n] = i
    /\ M # {} => q + 1 \in DOMAIN short /\ short[q + 1] = Summary(UNION {log[i].covers : i \in M})
    /\ \A k \in DOMAIN short : k \in 1 .. q \/ (k = q + 1 /\ M # {})

(* What filter gives, by the places.                                         *)
Picked(S, w, T, v) ==
    \E q \in Nat : \E g \in [1 .. q -> DOMAIN w] :
      /\ v \in Seq(S) /\ DOMAIN v = 1 .. q
      /\ \A k \in 1 .. q : v[k] = w[g[k]] /\ w[g[k]] \in T
      /\ \A k, l \in 1 .. q : k < l => g[k] < g[l]
      /\ \A i \in DOMAIN w : w[i] \in T => \E k \in 1 .. q : g[k] = i

(* That is what filter gives.                                                *)
LEMMA KeptPlaces ==
  ASSUME NEW S, NEW w \in Seq(S), NEW T, NEW v, v = Kept(w, T)
  PROVE  Picked(S, w, T, v)
<1> DEFINE D == DOMAIN v
<1>1. /\ v \in Seq(S) /\ D = 1 .. Len(v)
      /\ \E g \in [D -> DOMAIN w] :
           /\ \A k \in D : v[k] = w[g[k]] /\ w[g[k]] \in T
           /\ \A k, l \in D : k < l => g[k] < g[l]
           /\ \A i \in DOMAIN w : w[i] \in T => \E k \in D : g[k] = i
  BY KeptProperties
<1>2. Len(v) \in Nat
  BY <1>1, LenProperties
<1> HIDE DEF D
<1>3. \E g \in [D -> DOMAIN w] :
           /\ v \in Seq(S) /\ D = D
           /\ \A k \in D : v[k] = w[g[k]] /\ w[g[k]] \in T
           /\ \A k, l \in D : k < l => g[k] < g[l]
           /\ \A i \in DOMAIN w : w[i] \in T => \E k \in D : g[k] = i
  BY <1>1
<1>4. PICK len \in Nat : D = 1 .. len
  BY <1>1, <1>2
<1>5. \E g \in [1 .. len -> DOMAIN w] :
           /\ v \in Seq(S) /\ D = 1 .. len
           /\ \A k \in 1 .. len : v[k] = w[g[k]] /\ w[g[k]] \in T
           /\ \A k, l \in 1 .. len : k < l => g[k] < g[l]
           /\ \A i \in DOMAIN w : w[i] \in T => \E k \in 1 .. len : g[k] = i
  BY <1>3, <1>4, Zenon
<1>6. \E q \in Nat : \E g \in [1 .. q -> DOMAIN w] :
           /\ v \in Seq(S) /\ D = 1 .. q
           /\ \A k \in 1 .. q : v[k] = w[g[k]] /\ w[g[k]] \in T
           /\ \A k, l \in 1 .. q : k < l => g[k] < g[l]
           /\ \A i \in DOMAIN w : w[i] \in T => \E k \in 1 .. q : g[k] = i
  BY <1>5, Zenon
<1> QED
  BY <1>6 DEF D, Picked

(* S has a summary of whatever is in the log.                                *)
SumsUp(S, log) == \A J \in SUBSET DOMAIN log : Summary(UNION {log[i].covers : i \in J}) \in S

(* There are such places.                                                    *)
LEMMA SomeStay ==
  ASSUME NEW S, NEW log \in Seq(S), NEW head \in Nat, NEW tail \in Nat,
         Cardinality(Plain(log)) >= head + tail, SumsUp(S, log),
         NEW short, short = HeadMiddleTail(log, head, tail),
         NEW M, M = Middle(log, head, tail)
  PROVE  short \in Seq(S) /\ \E q \in Nat : \E p \in [1 .. q -> DOMAIN log] : Stays(log, short, M, q, p)
<1> DEFINE w == Twice(log)
           T == Staying(log, head, tail)
           E == [at : DOMAIN log, again : BOOLEAN]
           v == Kept(w, T)
           K == 2 * Len(log)
           kept == [k \in DOMAIN v |-> log[v[k].at]]
           sum == Summary(UNION {log[i].covers : i \in M})
           rest == IF M = {} THEN <<>> ELSE <<sum>>
<1>1. /\ w \in Seq(E) /\ DOMAIN w = 1 .. K
      /\ \A m, n \in 1 .. K : m < n /\ w[m] \in T /\ w[n] \in T => w[m].at < w[n].at
      /\ \A i \in DOMAIN log : i \notin M <=> \E n \in 1 .. K : w[n] \in T /\ w[n].at = i
  BY NoneTwice
<1> HIDE DEF w, T, E, K
<1>2. /\ w \in Seq(E)
      /\ \A m, n \in DOMAIN w : m < n /\ w[m] \in T /\ w[n] \in T => w[m].at < w[n].at
      /\ \A i \in DOMAIN log : i \notin M <=> \E n \in DOMAIN w : w[n] \in T /\ w[n].at = i
  BY <1>1
<1>3. M \subseteq DOMAIN log /\ \A i \in DOMAIN log : log[i] \in S
  BY LenProperties, ElementOfSeq DEF Middle, Plain
<1>4. \E q \in Nat : \E g \in [1 .. q -> DOMAIN w] :
        /\ v \in Seq(E) /\ DOMAIN v = 1 .. q
        /\ \A n \in 1 .. q : v[n] = w[g[n]] /\ w[g[n]] \in T
        /\ \A m, n \in 1 .. q : m < n => g[m] < g[n]
        /\ \A i \in DOMAIN w : w[i] \in T => \E n \in 1 .. q : g[n] = i
  <2>1. w \in Seq(E) /\ v = Kept(w, T)
    BY <1>2
  <2> HIDE DEF v
  <2>2. Picked(E, w, T, v)
    BY <2>1, KeptPlaces
  <2> QED
    BY <2>2 DEF Picked
<1>5. PICK q \in Nat : \E g \in [1 .. q -> DOMAIN w] :
        /\ v \in Seq(E) /\ DOMAIN v = 1 .. q
        /\ \A n \in 1 .. q : v[n] = w[g[n]] /\ w[g[n]] \in T
        /\ \A m, n \in 1 .. q : m < n => g[m] < g[n]
        /\ \A i \in DOMAIN w : w[i] \in T => \E n \in 1 .. q : g[n] = i
  BY <1>4
<1>6. PICK g \in [1 .. q -> DOMAIN w] :
        /\ v \in Seq(E) /\ DOMAIN v = 1 .. q
        /\ \A n \in 1 .. q : v[n] = w[g[n]] /\ w[g[n]] \in T
        /\ \A m, n \in 1 .. q : m < n => g[m] < g[n]
        /\ \A i \in DOMAIN w : w[i] \in T => \E n \in 1 .. q : g[n] = i
  BY <1>5
<1>7. short = kept \o rest
  BY DEF HeadMiddleTail, w, T
<1>8. \A n \in 1 .. q : v[n] \in E
  BY <1>6, LenProperties, ElementOfSeq
<1> HIDE DEF v
<1> DEFINE p == [n \in 1 .. q |-> v[n].at]
<1>9. p \in [1 .. q -> DOMAIN log]
  BY <1>8 DEF E
<1>10. kept \in Seq(S) /\ Len(kept) = q /\ kept = [k \in 1 .. q |-> log[p[k]]]
  <2>1. kept = [k \in 1 .. q |-> log[p[k]]]
    BY <1>6
  <2>2. \A k \in 1 .. q : log[p[k]] \in S
    BY <1>3, <1>9
  <2> HIDE DEF kept, p
  <2>3. kept \in Seq(S)
    BY <1>6, <2>1, <2>2, IsASeq
  <2>4. Len(kept) = q
    BY <2>1, <2>3, <1>6, LenProperties
  <2> QED
    BY <2>1, <2>3, <2>4
<1>11. rest \in Seq(S) /\ (M = {} => Len(rest) = 0) /\ (M # {} => Len(rest) = 1 /\ rest[1] = sum)
  <2>1. sum \in S
    BY <1>3 DEF SumsUp
  <2> HIDE DEF sum
  <2> QED
    BY <2>1
<1>12. /\ short \in Seq(S) /\ Len(short) = q + Len(rest)
       /\ \A i \in 1 .. q + Len(rest) : short[i] = IF i <= q THEN kept[i] ELSE rest[i - q]
       /\ DOMAIN short = 1 .. q + Len(rest)
  <2>1. kept \in Seq(S) /\ rest \in Seq(S) /\ Len(kept) = q
    BY <1>10, <1>11
  <2> HIDE DEF kept, rest
  <2>2. /\ kept \o rest \in Seq(S) /\ Len(kept \o rest) = q + Len(rest)
        /\ \A i \in 1 .. q + Len(rest) :
              (kept \o rest)[i] = IF i <= q THEN kept[i] ELSE rest[i - q]
    BY <2>1, ConcatProperties
  <2>3. DOMAIN (kept \o rest) = 1 .. q + Len(rest)
    BY <2>2, LenProperties
  <2> QED
    BY <1>7, <2>2, <2>3
<1>13. \A n \in 1 .. q : short[n] = log[p[n]]
  <2> HIDE DEF kept, rest, p
  <2>1. \A n \in 1 .. q : kept[n] = log[p[n]]
    BY <1>10
  <2>2. Len(rest) \in Nat
    BY <1>11
  <2>3. \A n \in 1 .. q : n \in 1 .. q + Len(rest) /\ n <= q
    BY <1>3, <2>2
  <2> QED
    BY <1>12, <2>1, <2>3
<1>14. M = {} => DOMAIN short = 1 .. q
  <2> HIDE DEF kept, rest, p
  <2> QED
    BY <1>3, <1>11, <1>12
<1>15. M # {} => DOMAIN short = 1 .. q + 1 /\ short[q + 1] = sum
  <2> HIDE DEF kept, rest, p, sum
  <2> SUFFICES ASSUME M # {} PROVE DOMAIN short = 1 .. q + 1 /\ short[q + 1] = sum
    OBVIOUS
  <2>1. Len(rest) = 1 /\ rest[1] = sum
    BY <1>11
  <2>2. q + 1 \in 1 .. q + 1 /\ ~ (q + 1 <= q) /\ (q + 1) - q = 1
    BY <1>3
  <2> QED
    BY <1>12, <2>1, <2>2
<1>16. \A m, n \in 1 .. q : m < n => p[m] < p[n]
  BY <1>2, <1>6
<1>17. \A i \in DOMAIN log : i \notin M <=> \E n \in 1 .. q : p[n] = i
  <2>1. \A n \in 1 .. q : p[n] = w[g[n]].at /\ w[g[n]] \in T /\ g[n] \in DOMAIN w
    BY <1>6
  <2>2. \A k \in DOMAIN w : w[k] \in T => \E n \in 1 .. q : p[n] = w[k].at
    <3>1. \A n \in 1 .. q : p[n] = v[n].at
      OBVIOUS
    <3> HIDE DEF p
    <3> SUFFICES ASSUME NEW k \in DOMAIN w, w[k] \in T PROVE \E n \in 1 .. q : p[n] = w[k].at
      OBVIOUS
    <3>2. PICK n \in 1 .. q : g[n] = k
      BY <1>6
    <3>3. v[n] = w[g[n]]
      BY <1>6
    <3> QED
      BY <3>1, <3>2, <3>3
  <2>3. \A i \in DOMAIN log : i \notin M <=> \E k \in DOMAIN w : w[k] \in T /\ w[k].at = i
    BY <1>2
  <2> HIDE DEF p
  <2>4. ASSUME NEW n \in 1 .. q PROVE p[n] \notin M
    <3>1. p[n] \in DOMAIN log
      BY <1>9
    <3> QED
      BY <2>1, <2>3, <3>1
  <2>5. ASSUME NEW i \in DOMAIN log, i \notin M PROVE \E n \in 1 .. q : p[n] = i
    BY <2>2, <2>3, <2>5
  <2> QED
    BY <2>4, <2>5
<1>18. /\ 1 .. q \subseteq 1 .. q + 1 /\ q + 1 \in 1 .. q + 1
       /\ \A k \in 1 .. q + 1 : k \in 1 .. q \/ k = q + 1
  OBVIOUS
<1>19. Stays(log, short, M, q, p)
  <2>1. M \subseteq DOMAIN log
    BY <1>3
  <2>2. \A n \in 1 .. q : p[n] \in DOMAIN log
    BY <1>9
  <2> HIDE DEF p
  <2>3. \A n \in 1 .. q : p[n] \notin M
    BY <1>17, <2>2
  <2>4. 1 .. q \subseteq DOMAIN short /\ (M # {} => q + 1 \in DOMAIN short)
    BY <1>14, <1>15, <1>18
  <2>5. \A k \in DOMAIN short : k \in 1 .. q \/ (k = q + 1 /\ M # {})
    BY <1>14, <1>15, <1>18
  <2> QED
    BY <1>13, <1>15, <1>16, <1>17, <2>1, <2>2, <2>3, <2>4, <2>5 DEF Stays
<1> QED
  BY <1>6, <1>9, <1>12, <1>19

(* What the summary stands for.                                              *)
Told(log, head, tail) == UNION {log[i].covers : i \in Middle(log, head, tail)}

(* Nothing is lost and nothing comes in.                                     *)
LEMMA ShortCovers ==
  ASSUME NEW S, NEW log \in Seq(S), NEW head \in Nat, NEW tail \in Nat,
         Cardinality(Plain(log)) >= head + tail, SumsUp(S, log)
  PROVE  Covered(HeadMiddleTail(log, head, tail)) = Covered(log)
<1> DEFINE short == HeadMiddleTail(log, head, tail)
           M == Middle(log, head, tail)
<1>1. PICK q \in Nat : \E p \in [1 .. q -> DOMAIN log] : Stays(log, short, M, q, p)
  BY SomeStay
<1>2. PICK p \in [1 .. q -> DOMAIN log] : Stays(log, short, M, q, p)
  BY <1>1
<1>3. /\ 1 .. q \subseteq DOMAIN short
      /\ \A n \in 1 .. q : p[n] \in DOMAIN log /\ short[n] = log[p[n]]
      /\ \A i \in DOMAIN log : i \notin M => \E n \in 1 .. q : p[n] = i
      /\ M # {} => q + 1 \in DOMAIN short /\ short[q + 1] = Summary(Told(log, head, tail))
      /\ \A k \in DOMAIN short : k \in 1 .. q \/ (k = q + 1 /\ M # {})
      /\ M \subseteq DOMAIN log
  BY <1>2 DEF Stays, Told, M
<1> HIDE DEF short, M
<1>4. M # {} => short[q + 1].covers = UNION {log[i].covers : i \in M}
  BY <1>3 DEF Summary, Told, M
<1>5. ASSUME NEW e \in Covered(log) PROVE e \in Covered(short)
  <2>1. PICK i \in DOMAIN log : e \in log[i].covers
    BY DEF Covered
  <2>2. CASE i \in M
    BY <1>3, <1>4, <2>1, <2>2 DEF Covered
  <2>3. CASE i \notin M
    <3>1. PICK n \in 1 .. q : p[n] = i
      BY <1>3, <2>3
    <3>2. n \in DOMAIN short /\ e \in short[n].covers
      BY <1>3, <2>1, <3>1
    <3> QED
      BY <3>2 DEF Covered
  <2> QED
    BY <2>2, <2>3
<1>6. ASSUME NEW e \in Covered(short) PROVE e \in Covered(log)
  <2>1. PICK k \in DOMAIN short : e \in short[k].covers
    BY DEF Covered
  <2>2. \E i \in DOMAIN log : e \in log[i].covers
    <3>1. CASE k \in 1 .. q
      BY <1>3, <2>1, <3>1
    <3>2. CASE k = q + 1 /\ M # {}
      BY <1>3, <1>4, <2>1, <3>2
    <3> QED
      BY <1>3, <3>1, <3>2
  <2> QED
    BY <2>2 DEF Covered
<1> QED
  BY <1>5, <1>6 DEF short

(* No entry is there twice, and the order is kept.                           *)
LEMMA ShortInOrder ==
  ASSUME NEW S, NEW log \in Seq(S), NEW head \in Nat, NEW tail \in Nat,
         Cardinality(Plain(log)) >= head + tail, SumsUp(S, log), InOrder(log)
  PROVE  InOrder(HeadMiddleTail(log, head, tail))
<1> DEFINE short == HeadMiddleTail(log, head, tail)
           M == Middle(log, head, tail)
<1>1. PICK q \in Nat : \E p \in [1 .. q -> DOMAIN log] : Stays(log, short, M, q, p)
  BY SomeStay
<1>2. PICK p \in [1 .. q -> DOMAIN log] : Stays(log, short, M, q, p)
  BY <1>1
<1>3. /\ 1 .. q \subseteq DOMAIN short
      /\ \A n \in 1 .. q : p[n] \in DOMAIN log /\ p[n] \notin M /\ short[n] = log[p[n]]
      /\ \A m, n \in 1 .. q : m < n => p[m] < p[n]
      /\ M # {} => q + 1 \in DOMAIN short /\ short[q + 1] = Summary(Told(log, head, tail))
      /\ \A k \in DOMAIN short : k \in 1 .. q \/ (k = q + 1 /\ M # {})
      /\ M \subseteq DOMAIN log
  BY <1>2 DEF Stays, Told, M
<1> HIDE DEF short, M
<1>4. M # {} => /\ short[q + 1].covers = UNION {log[i].covers : i \in M}
                /\ short[q + 1].anchored
  BY <1>3 DEF Summary, Told, M
<1>5. \A i, j \in DOMAIN log : i # j => log[i].covers \cap log[j].covers = {}
  <2>1. \A i, j \in DOMAIN log : i < j => log[i].covers \cap log[j].covers = {}
    BY DEF InOrder
  <2>2. DOMAIN log \subseteq Int
    BY LenProperties
  <2>3. \A i, j \in Int : i # j => i < j \/ j < i
    OBVIOUS
  <2> QED
    BY <2>1, <2>2, <2>3
<1>6. ASSUME NEW i \in DOMAIN short, NEW j \in DOMAIN short, i < j
      PROVE  /\ short[i].covers \cap short[j].covers = {}
             /\ ~ short[i].anchored /\ ~ short[j].anchored =>
                   \A e \in short[i].covers, f \in short[j].covers : e < f
  <2>1. i \in 1 .. q
    <3>1. j \in 1 .. q + 1 /\ (i \in 1 .. q \/ i = q + 1)
      BY <1>3
    <3>2. \A x \in Int : x \in 1 .. q + 1 => ~ (q + 1 < x)
      OBVIOUS
    <3> QED
      BY <1>6, <3>1, <3>2
  <2>2. CASE j \in 1 .. q
    <3>1. p[i] \in DOMAIN log /\ p[j] \in DOMAIN log /\ p[i] < p[j]
      BY <1>3, <1>6, <2>1, <2>2
    <3>2. short[i] = log[p[i]] /\ short[j] = log[p[j]]
      BY <1>3, <2>1, <2>2
    <3> QED
      BY <3>1, <3>2 DEF InOrder
  <2>3. CASE j = q + 1 /\ M # {}
    <3>1. p[i] \in DOMAIN log /\ p[i] \notin M /\ short[i] = log[p[i]]
      BY <1>3, <2>1
    <3>2. \A k \in M : log[p[i]].covers \cap log[k].covers = {}
      BY <1>3, <1>5, <3>1
    <3> QED
      BY <1>4, <2>3, <3>1, <3>2
  <2> QED
    BY <1>3, <2>2, <2>3
<1> QED
  BY <1>6 DEF InOrder, short

(* A summary of the shortened log is one of the log, or stands for what was  *)
(* not one; and what was neither summary nor is there, stands in none.       *)
LEMMA ShortSummaries ==
  ASSUME NEW S, NEW log \in Seq(S), NEW head \in Nat, NEW tail \in Nat,
         Cardinality(Plain(log)) >= head + tail, SumsUp(S, log)
  PROVE  LET short == HeadMiddleTail(log, head, tail)
         IN /\ \A k \in DOMAIN short : short[k].anchored =>
                  \/ \E i \in DOMAIN log : log[i].anchored /\ short[k] = log[i]
                  \/ short[k].covers = Told(log, head, tail) /\ Middle(log, head, tail) # {}
            /\ Told(log, head, tail) \subseteq Verbatim(log)
<1> DEFINE short == HeadMiddleTail(log, head, tail)
           M == Middle(log, head, tail)
<1>1. PICK q \in Nat : \E p \in [1 .. q -> DOMAIN log] : Stays(log, short, M, q, p)
  BY SomeStay
<1>2. PICK p \in [1 .. q -> DOMAIN log] : Stays(log, short, M, q, p)
  BY <1>1
<1>3. /\ \A n \in 1 .. q : p[n] \in DOMAIN log /\ short[n] = log[p[n]]
      /\ M # {} => q + 1 \in DOMAIN short /\ short[q + 1] = Summary(Told(log, head, tail))
      /\ \A k \in DOMAIN short : k \in 1 .. q \/ (k = q + 1 /\ M # {})
  BY <1>2 DEF Stays, Told, M
<1>4. Told(log, head, tail) \subseteq Verbatim(log)
  BY DEF Told, Verbatim, Middle
<1> HIDE DEF short, M
<1>5. M # {} => short[q + 1].covers = Told(log, head, tail)
  BY <1>3 DEF Summary
<1>6. \A k \in DOMAIN short : short[k].anchored =>
                  \/ \E i \in DOMAIN log : log[i].anchored /\ short[k] = log[i]
                  \/ short[k].covers = Told(log, head, tail) /\ M # {}
  BY <1>3, <1>5
<1> QED
  BY <1>4, <1>6 DEF short, M

(* What the summary stands for is no longer there as it was.                 *)
LEMMA MiddleIsGone ==
  ASSUME NEW S, NEW log \in Seq(S), NEW head \in Nat, NEW tail \in Nat,
         Cardinality(Plain(log)) >= head + tail, SumsUp(S, log), InOrder(log),
         NEW i \in Middle(log, head, tail), log[i].covers # {}
  PROVE  \A k \in DOMAIN HeadMiddleTail(log, head, tail) :
            HeadMiddleTail(log, head, tail)[k] # log[i]
<1> DEFINE short == HeadMiddleTail(log, head, tail)
           M == Middle(log, head, tail)
<1>1. PICK q \in Nat : \E p \in [1 .. q -> DOMAIN log] : Stays(log, short, M, q, p)
  BY SomeStay
<1>2. PICK p \in [1 .. q -> DOMAIN log] : Stays(log, short, M, q, p)
  BY <1>1
<1>3. /\ \A n \in 1 .. q : p[n] \in DOMAIN log /\ p[n] \notin M /\ short[n] = log[p[n]]
      /\ M # {} => short[q + 1] = Summary(Told(log, head, tail))
      /\ \A k \in DOMAIN short : k \in 1 .. q \/ (k = q + 1 /\ M # {})
      /\ M \subseteq DOMAIN log
  BY <1>2 DEF Stays, Told, M
<1>4. ~ log[i].anchored /\ i \in M
  BY DEF Middle, Plain
<1> HIDE DEF short, M
<1>5. M # {} => short[q + 1].anchored
  BY <1>3 DEF Summary
<1>6. \A j \in DOMAIN log : i # j => log[i].covers \cap log[j].covers = {}
  <2>1. \A j, k \in DOMAIN log : j < k => log[j].covers \cap log[k].covers = {}
    BY DEF InOrder
  <2>2. DOMAIN log \subseteq Int /\ i \in DOMAIN log
    BY <1>3, <1>4, LenProperties
  <2>3. \A j, k \in Int : j # k => j < k \/ k < j
    OBVIOUS
  <2> QED
    BY <2>1, <2>2, <2>3
<1>7. ASSUME NEW n \in 1 .. q PROVE short[n] # log[i]
  <2>1. p[n] # i /\ p[n] \in DOMAIN log /\ short[n] = log[p[n]]
    BY <1>3, <1>4
  <2>2. log[i].covers \cap log[p[n]].covers = {}
    BY <1>6, <2>1
  <2> QED
    BY <2>1, <2>2
<1>8. \A k \in DOMAIN short : short[k] # log[i]
  BY <1>3, <1>4, <1>5, <1>7
<1> QED
  BY <1>8 DEF short
(* A head and a tail are still there.                                        *)
LEMMA ShortIsRoomy ==
  ASSUME NEW S, NEW log \in Seq(S), NEW head \in Nat, NEW tail \in Nat,
         Cardinality(Plain(log)) >= head + tail, SumsUp(S, log)
  PROVE  Cardinality(Plain(HeadMiddleTail(log, head, tail))) >= head + tail
<1> DEFINE short == HeadMiddleTail(log, head, tail)
           M == Middle(log, head, tail)
           P == Plain(log)
           N == Cardinality(P)
           K == (1 .. head) \cup (N - tail + 1 .. N)
           R(i) == Rank(log, i)
<1>1. short \in Seq(S)
      /\ \E q \in Nat : \E p \in [1 .. q -> DOMAIN log] : Stays(log, short, M, q, p)
  BY SomeStay
<1>2. /\ N \in Nat /\ \A i \in P : R(i) \in 1 .. N
      /\ \A k \in 1 .. N : \E i \in P : R(i) = k
  BY RanksCountUp
<1>3. N >= head + tail
  OBVIOUS
<1>4. \A i \in M : R(i) > head /\ R(i) <= N - tail
  <2>1. MiddleEnd(N, tail) = N - tail
    BY <1>2, <1>3 DEF MiddleEnd
  <2>2. \A i \in M : i \in P /\ R(i) \in head + 1 .. N - tail
    BY <2>1 DEF Middle
  <2> HIDE DEF M, P, R
  <2> QED
    BY <1>2, <2>2
<1>5. IsFiniteSet(K) /\ Cardinality(K) = head + tail /\ K \subseteq 1 .. N
  <2>1. IsFiniteSet(1 .. head) /\ Cardinality(1 .. head) = head
    BY FS_Interval
  <2>2. IsFiniteSet(N - tail + 1 .. N) /\ Cardinality(N - tail + 1 .. N) = tail
    <3>1. N - tail + 1 \in Int /\ N \in Int
      BY <1>2
    <3>2. IF N - tail + 1 > N THEN tail = 0 ELSE N - (N - tail + 1) + 1 = tail
      BY <1>2
    <3> HIDE DEF N
    <3> QED
      BY <3>1, <3>2, FS_Interval
  <2>3. (1 .. head) \cap (N - tail + 1 .. N) = {}
    <3> HIDE DEF N
    <3> QED
      BY <1>2, <1>3
  <2>4. Cardinality({}) = 0
    BY FS_EmptySet
  <2>5. IsFiniteSet(K) /\ Cardinality(K) = head + tail
    <3> DEFINE A == 1 .. head
               B == N - tail + 1 .. N
    <3>1. A \cap B = {} /\ IsFiniteSet(A) /\ IsFiniteSet(B)
      BY <2>1, <2>2, <2>3
    <3>2. Cardinality(A) = head /\ Cardinality(B) = tail
      BY <2>1, <2>2
    <3> HIDE DEF A, B
    <3>3. /\ IsFiniteSet(A \cup B)
          /\ Cardinality(A \cup B) = Cardinality(A) + Cardinality(B) - Cardinality(A \cap B)
      BY <3>1, FS_Union
    <3>4. Cardinality(A \cap B) = 0
      BY <2>4, <3>1
    <3>5. Cardinality(A \cup B) = head + tail - 0
      BY <3>2, <3>3, <3>4
    <3>6. head + tail - 0 = head + tail
      OBVIOUS
    <3>7. Cardinality(A \cup B) = head + tail
      BY <3>5, <3>6
    <3> QED
      BY <3>3, <3>7 DEF A, B
  <2>6. K \subseteq 1 .. N
    <3> HIDE DEF N
    <3> QED
      BY <1>2, <1>3
  <2> QED
    BY <2>5, <2>6
<1>6. \A k \in K : k <= head \/ k > N - tail
  <2> HIDE DEF N
  <2> QED
    BY <1>2
<1> HIDE DEF short, M, P, N, K, R
<1>7. PICK q \in Nat : \E p \in [1 .. q -> DOMAIN log] : Stays(log, short, M, q, p)
  BY <1>1
<1>8. PICK p \in [1 .. q -> DOMAIN log] : Stays(log, short, M, q, p)
  BY <1>7
<1>9. /\ 1 .. q \subseteq DOMAIN short
      /\ \A n \in 1 .. q : short[n] = log[p[n]]
      /\ \A i \in DOMAIN log : i \notin M => \E n \in 1 .. q : p[n] = i
  BY <1>8 DEF Stays
<1> DEFINE f == [k \in K |-> CHOOSE n \in 1 .. q : p[n] \in P /\ R(p[n]) = k]
<1>10. ASSUME NEW k \in K PROVE f[k] \in 1 .. q /\ p[f[k]] \in P /\ R(p[f[k]]) = k
  <2>1. PICK i \in P : R(i) = k
    BY <1>2, <1>5
  <2>2. i \notin M
    <3>1. k \in Nat
      BY <1>5
    <3>2. k <= head \/ k > N - tail
      BY <1>6
    <3> QED
      BY <1>2, <1>4, <2>1, <3>1, <3>2
  <2>3. i \in DOMAIN log
    BY DEF P, Plain
  <2>4. \E n \in 1 .. q : p[n] \in P /\ R(p[n]) = k
    BY <1>9, <2>1, <2>2, <2>3
  <2> QED
    BY <2>4
<1> HIDE DEF f
<1>11. \A k \in K : f[k] \in Plain(short)
  BY <1>9, <1>10 DEF Plain, P
<1>12. f \in Injection(K, Plain(short))
  <2>1. f \in [K -> Plain(short)]
    BY <1>11 DEF f
  <2> QED
    BY <1>10, <2>1 DEF Injection, IsInjective
<1>13. IsFiniteSet(Plain(short)) /\ Cardinality(Plain(short)) \in Nat
  BY <1>1, RanksCountUp
<1>14. Cardinality(K) <= Cardinality(Plain(short))
  BY <1>12, <1>13, FS_Injection
<1> QED
  BY <1>5, <1>13, <1>14 DEF short

-----------------------------------------------------------------------------
(* A log of the memory may be summed up.                                     *)
LEMMA LogsSumUp ==
  ASSUME NEW log \in Seq(LogEntries)
  PROVE  SumsUp(LogEntries, log)
<1>1. \A i \in DOMAIN log : log[i].covers \subseteq 1 .. MaxEntries
  <2>1. \A i \in DOMAIN log : log[i] \in LogEntries
    BY LenProperties, ElementOfSeq
  <2> QED
    BY <2>1 DEF LogEntries
<1>2. ASSUME NEW J \in SUBSET DOMAIN log
      PROVE  Summary(UNION {log[i].covers : i \in J}) \in LogEntries
  <2>1. UNION {log[i].covers : i \in J} \in SUBSET (1 .. MaxEntries)
    BY <1>1
  <2> QED
    BY <2>1 DEF Summary, LogEntries
<1> QED
  BY <1>2 DEF SumsUp

(* What compressEntries does to a log that has a head and a tail if anything *)
(* was summed up before.                                                     *)
LEMMA CompressedLog ==
  ASSUME MemoryBoundsAssumption, NEW log \in Seq(LogEntries), Roomy(log), InOrder(log)
  PROVE  /\ Compressed(log) \in Seq(LogEntries)
         /\ Covered(Compressed(log)) = Covered(log)
         /\ Roomy(Compressed(log)) /\ InOrder(Compressed(log))
         /\ \A X : Verbatim(log) \subseteq X
                   /\ (\A i \in DOMAIN log : log[i].anchored => log[i].covers \subseteq X)
                => \A k \in DOMAIN Compressed(log) :
                      Compressed(log)[k].anchored => Compressed(log)[k].covers \subseteq X
         /\ \A k \in DOMAIN Compressed(log) : Compressed(log)[k].anchored =>
               \/ \E i \in DOMAIN log : log[i].anchored /\ Compressed(log)[k] = log[i]
               \/ Compressed(log)[k].covers \subseteq
                    UNION {log[i].covers : i \in {j \in DOMAIN log : ~ Contains(Compressed(log), log[j])}}
<1>1. HeadKeep \in Nat /\ TailKeep \in Nat
  BY DEF MemoryBoundsAssumption
<1>2. CASE Short(log, HeadKeep, TailKeep)
  BY <1>2 DEF Compressed
<1>3. CASE ~ Short(log, HeadKeep, TailKeep)
  <2> DEFINE short == HeadMiddleTail(log, HeadKeep, TailKeep)
             M == Middle(log, HeadKeep, TailKeep)
             told == Told(log, HeadKeep, TailKeep)
             gone == {j \in DOMAIN log : ~ Contains(short, log[j])}
  <2>1. Compressed(log) = short
    BY <1>3 DEF Compressed
  <2>2. DOMAIN log = 1 .. Len(log) /\ Len(log) \in Nat
    BY LenProperties
  <2>3. Cardinality(Plain(log)) >= HeadKeep + TailKeep
    <3>1. CASE \E i \in DOMAIN log : log[i].anchored
      BY <3>1 DEF Roomy
    <3>2. CASE ~ \E i \in DOMAIN log : log[i].anchored
      <4>1. Plain(log) = 1 .. Len(log)
        BY <2>2, <3>2 DEF Plain
      <4>2. Cardinality(1 .. Len(log)) = Len(log)
        BY <2>2, FS_Interval
      <4>3. Len(log) > HeadKeep + TailKeep
        BY <1>1, <1>3, <2>2 DEF Short
      <4> QED
        BY <1>1, <2>2, <4>1, <4>2, <4>3
    <3> QED
      BY <3>1, <3>2
  <2>4. SumsUp(LogEntries, log)
    BY LogsSumUp
  <2>5. short \in Seq(LogEntries)
    BY <1>1, <2>3, <2>4, SomeStay
  <2>6. Covered(short) = Covered(log)
    BY <1>1, <2>3, <2>4, ShortCovers
  <2>7. InOrder(short)
    BY <1>1, <2>3, <2>4, ShortInOrder
  <2>8. Roomy(short)
    BY <1>1, <2>3, <2>4, ShortIsRoomy DEF Roomy
  <2>9. /\ \A k \in DOMAIN short : short[k].anchored =>
             \/ \E i \in DOMAIN log : log[i].anchored /\ short[k] = log[i]
             \/ short[k].covers = told /\ M # {}
        /\ told \subseteq Verbatim(log)
    BY <1>1, <2>3, <2>4, ShortSummaries
  <2>10. \A i \in M : log[i].covers # {} => \A k \in DOMAIN short : short[k] # log[i]
    BY <1>1, <2>3, <2>4, MiddleIsGone
  <2>11. told \subseteq UNION {log[i].covers : i \in gone}
    <3>1. told = UNION {log[i].covers : i \in M} /\ M \subseteq DOMAIN log
      BY DEF Told, Middle, Plain
    <3>2. DOMAIN short = 1 .. Len(short)
      BY <2>5, LenProperties
    <3> HIDE DEF M, told, short
    <3>3. \A i \in M : log[i].covers # {} => i \in gone
      BY <2>10, <3>1, <3>2 DEF Contains
    <3> HIDE DEF gone
    <3> QED
      BY <3>1, <3>3
  <2> HIDE DEF short, M, told, gone
  <2>12. \A X : Verbatim(log) \subseteq X
                /\ (\A i \in DOMAIN log : log[i].anchored => log[i].covers \subseteq X)
             => \A k \in DOMAIN short : short[k].anchored => short[k].covers \subseteq X
    BY <2>9
  <2>13. \A k \in DOMAIN short : short[k].anchored =>
            \/ \E i \in DOMAIN log : log[i].anchored /\ short[k] = log[i]
            \/ short[k].covers \subseteq UNION {log[i].covers : i \in gone}
    BY <2>9, <2>11
  <2> QED
    BY <2>1, <2>5, <2>6, <2>7, <2>8, <2>12, <2>13 DEF gone
<1> QED
  BY <1>2, <1>3
-----------------------------------------------------------------------------
(* A log that is empty, and one with a line more.                            *)
LEMMA NoLog ==
  ASSUME MemoryBoundsAssumption
  PROVE  /\ <<>> \in Seq(LogEntries) /\ Covered(<<>>) = {} /\ Verbatim(<<>>) = {}
         /\ Roomy(<<>>) /\ InOrder(<<>>) /\ Archived(<<>>)
BY DEF Covered, Verbatim, Plain, Roomy, InOrder, Archived

(* The entries themselves are part of what a log covers.                     *)
LEMMA VerbatimIsCovered ==
  ASSUME NEW log
  PROVE  Verbatim(log) \subseteq Covered(log)
BY DEF Verbatim, Covered, Plain

(* A line at the end, later than all that is there, keeps a log in order.    *)
LEMMA LineMore ==
  ASSUME MemoryBoundsAssumption, NEW log \in Seq(LogEntries), NEW e \in 1 .. MaxEntries,
         NEW more, more = Append(log, Raw(e))
  PROVE  /\ more \in Seq(LogEntries)
         /\ Covered(more) = Covered(log) \cup {e}
         /\ Roomy(log) => Roomy(more)
         /\ InOrder(log) /\ (\A f \in Covered(log) : f < e) => InOrder(more)
         /\ \A X : (\A i \in DOMAIN log : log[i].anchored => log[i].covers \subseteq X)
                => \A i \in DOMAIN more : more[i].anchored => more[i].covers \subseteq X
<1> DEFINE n == Len(log)
<1>1. Raw(e) \in LogEntries /\ Raw(e).covers = {e} /\ Raw(e).anchored = FALSE
  BY DEF Raw, LogEntries
<1> HIDE DEF n
<1>2. /\ more \in Seq(LogEntries) /\ n \in Nat
      /\ DOMAIN log = 1 .. n /\ DOMAIN more = 1 .. n + 1
      /\ \A i \in 1 .. n : more[i] = log[i]
      /\ more[n + 1] = Raw(e)
  BY <1>1, AppendProperties, LenProperties DEF n
<1>3. /\ \A i \in 1 .. n + 1 : i \in 1 .. n \/ i = n + 1
      /\ 1 .. n \subseteq 1 .. n + 1 /\ n + 1 \in 1 .. n + 1
  BY <1>2
<1>4. Covered(more) = Covered(log) \cup {e}
  <2>1. ASSUME NEW f \in Covered(more) PROVE f \in Covered(log) \cup {e}
    <3>1. PICK i \in DOMAIN more : f \in more[i].covers
      BY DEF Covered
    <3>2. (\E k \in DOMAIN log : f \in log[k].covers) \/ f = e
      BY <1>1, <1>2, <1>3, <3>1
    <3> QED
      BY <3>2 DEF Covered
  <2>2. ASSUME NEW f \in Covered(log) PROVE f \in Covered(more)
    <3>1. PICK i \in DOMAIN log : f \in log[i].covers
      BY DEF Covered
    <3>2. \E k \in DOMAIN more : f \in more[k].covers
      BY <1>2, <1>3, <3>1
    <3> QED
      BY <3>2 DEF Covered
  <2>3. \E k \in DOMAIN more : e \in more[k].covers
    BY <1>1, <1>2, <1>3
  <2>4. e \in Covered(more)
    BY <2>3 DEF Covered
  <2> QED
    BY <2>1, <2>2, <2>4
<1>5. ASSUME Roomy(log) PROVE Roomy(more)
  <2>1. ASSUME \E i \in DOMAIN more : more[i].anchored
        PROVE  Cardinality(Plain(more)) >= HeadKeep + TailKeep
    <3>1. \E i \in DOMAIN log : log[i].anchored
      BY <1>1, <1>2, <1>3, <2>1
    <3>2. Cardinality(Plain(log)) >= HeadKeep + TailKeep
      BY <1>5, <3>1 DEF Roomy
    <3>3. Plain(log) \in SUBSET Plain(more)
      BY <1>2, <1>3 DEF Plain
    <3>4. /\ IsFiniteSet(Plain(more)) /\ Cardinality(Plain(more)) \in Nat
          /\ Cardinality(Plain(log)) \in Nat
      BY <1>2, RanksCountUp
    <3>5. Cardinality(Plain(log)) <= Cardinality(Plain(more))
      BY <3>3, <3>4, FS_Subset
    <3>6. HeadKeep \in Nat /\ TailKeep \in Nat
      BY DEF MemoryBoundsAssumption
    <3> QED
      BY <3>2, <3>4, <3>5, <3>6
  <2> QED
    BY <2>1 DEF Roomy
<1>6. ASSUME InOrder(log), \A f \in Covered(log) : f < e PROVE InOrder(more)
  <2>1. ASSUME NEW i \in DOMAIN more, NEW j \in DOMAIN more, i < j
        PROVE  /\ more[i].covers \cap more[j].covers = {}
               /\ ~ more[i].anchored /\ ~ more[j].anchored =>
                    \A f \in more[i].covers, g \in more[j].covers : f < g
    <3>1. i \in 1 .. n
      BY <1>2, <2>1
    <3>2. CASE j \in 1 .. n
      BY <1>2, <1>6, <2>1, <3>1, <3>2 DEF InOrder
    <3>3. CASE j = n + 1
      <4>1. \A f \in more[i].covers : f < e /\ f \in Covered(log)
        BY <1>2, <1>6, <3>1 DEF Covered
      <4>2. more[j].covers = {e}
        BY <1>1, <1>2, <3>3
      <4>3. e \notin Covered(log)
        BY <1>6
      <4> QED
        BY <4>1, <4>2, <4>3
    <3> QED
      BY <1>2, <1>3, <3>2, <3>3
  <2> QED
    BY <2>1 DEF InOrder
<1>7. \A X : (\A i \in DOMAIN log : log[i].anchored => log[i].covers \subseteq X)
                => \A i \in DOMAIN more : more[i].anchored => more[i].covers \subseteq X
  BY <1>1, <1>2, <1>3
<1> QED
  BY <1>2, <1>4, <1>5, <1>6, <1>7

-----------------------------------------------------------------------------
(* The caller whose turn it is: the others wait or have no call.             *)
LEMMA FirstInChain ==
  ASSUME FsMemIInv, NEW c \in Callers, Turn(c)
  PROVE  /\ DOMAIN chain = 1 .. Len(chain) /\ Len(chain) \in Nat /\ 1 \in DOMAIN chain
         /\ chain # <<>> /\ chain[1] = c /\ Head(chain) = c
         /\ Served = call[c] /\ call[c] \in Calls /\ call[c].pc # "idle"
         /\ \A i \in DOMAIN chain : /\ chain[i] \in Callers
                                    /\ i # 1 => chain[i] # c /\ call[chain[i]].pc = "queued"
         /\ \A d \in Callers : d # c => call[d].pc \in {"idle", "queued"}
<1>1. chain \in Seq(Callers) /\ chain # <<>> /\ Head(chain) = c
  BY DEF FsMemIInv, FsMemTypeOK, Turn
<1>2. DOMAIN chain = 1 .. Len(chain) /\ Len(chain) \in Nat /\ 1 \in DOMAIN chain
      /\ \A i \in DOMAIN chain : chain[i] \in Callers
  BY <1>1, LenProperties, EmptySeq, ElementOfSeq
<1>3. chain[1] = c
  BY <1>1
<1>4. Served = call[c] /\ call[c] \in Calls
  BY <1>1 DEF Served, FsMemIInv, FsMemTypeOK
<1>5. /\ \A d \in Callers : call[d].pc = "idle" <=> \A i \in DOMAIN chain : chain[i] # d
      /\ \A i, j \in DOMAIN chain : chain[i] = chain[j] => i = j
      /\ \A i \in DOMAIN chain : i > 1 => call[chain[i]].pc = "queued"
  BY DEF FsMemIInv, ChainFollows
<1>6. \A i \in DOMAIN chain : i # 1 => i > 1
  BY <1>2
<1>7. \A i \in DOMAIN chain : i # 1 => chain[i] # c /\ call[chain[i]].pc = "queued"
  BY <1>2, <1>3, <1>5, <1>6
<1>8. call[c].pc # "idle"
  BY <1>2, <1>3, <1>5
<1>9. \A d \in Callers : d # c => call[d].pc \in {"idle", "queued"}
  BY <1>3, <1>5, <1>7
<1> QED
  BY <1>1, <1>2, <1>3, <1>4, <1>7, <1>8, <1>9

(* It goes on: nobody loses a place, and what comes to be covered is its     *)
(* own entry at most.                                                        *)
LEMMA FirstMoves ==
  ASSUME FsMemIInv, NEW c \in Callers, Turn(c), chain' = chain, given' = given,
         NEW r \in Calls, call' = [call EXCEPT ![c] = r],
         r.pc # "idle", r.op = call[c].op, r.entry = call[c].entry,
         r.pc \in Holding => call[c].pc \in Holding,
         \A e \in Covered(window') \cup Covered(jsonl') :
            \/ e \in Covered(window) \cup Covered(jsonl)
            \/ e = call[c].entry /\ call[c].op = "append" /\ r.pc \notin Holding
  PROVE  /\ ChainFollows' /\ GivenInOrder' /\ Served' = r /\ chain' # <<>>
         /\ \A d \in Callers : d # c => call'[d].pc \in {"idle", "queued"}
         /\ call' \in [Callers -> Calls] /\ call'[c] = r
<1>1. /\ DOMAIN chain = 1 .. Len(chain) /\ Len(chain) \in Nat /\ 1 \in DOMAIN chain
      /\ chain # <<>> /\ chain[1] = c /\ Head(chain) = c
      /\ call[c] \in Calls /\ call[c].pc # "idle"
      /\ \A i \in DOMAIN chain : /\ chain[i] \in Callers
                                 /\ i # 1 => chain[i] # c /\ call[chain[i]].pc = "queued"
      /\ \A d \in Callers : d # c => call[d].pc \in {"idle", "queued"}
  BY FirstInChain
<1>2. call \in [Callers -> Calls]
  BY DEF FsMemIInv, FsMemTypeOK
<1>3. call'[c] = r /\ \A d \in Callers : d # c => call'[d] = call[d]
  BY <1>2
<1>4. call' \in [Callers -> Calls]
  BY <1>2
<1>5. Served' = r
  BY <1>1, <1>3 DEF Served
<1>6. \A d \in Callers : call'[d].op = call[d].op /\ call'[d].entry = call[d].entry
  BY <1>3
<1>7. ChainFollows'
  <2>1. /\ \A d \in Callers : call[d].pc = "idle" <=> \A i \in DOMAIN chain : chain[i] # d
        /\ \A i, j \in DOMAIN chain : chain[i] = chain[j] => i = j
    BY DEF FsMemIInv, ChainFollows
  <2>2. \A d \in Callers : call'[d].pc = "idle" <=> \A i \in DOMAIN chain : chain[i] # d
    BY <1>1, <1>3, <2>1
  <2>3. \A i \in DOMAIN chain : i > 1 => call'[chain[i]].pc = "queued"
    BY <1>1, <1>3
  <2> QED
    BY <2>1, <2>2, <2>3 DEF ChainFollows
<1>8. GivenInOrder'
  <2>1. \A i \in DOMAIN chain :
          LET d == chain[i]
          IN /\ call[d].op = "append" => call[d].entry \in 1 .. given
             /\ call[d].op = "append" /\ call[d].pc \in Holding =>
                  \A e \in Covered(window) \cup Covered(jsonl) : e < call[d].entry
    BY DEF FsMemIInv, GivenInOrder
  <2>2. \A i, j \in DOMAIN chain :
          i < j /\ call[chain[i]].op = "append" /\ call[chain[j]].op = "append"
              => call[chain[i]].entry < call[chain[j]].entry
    BY DEF FsMemIInv, GivenInOrder
  <2>3. ASSUME NEW i \in DOMAIN chain
        PROVE  /\ call'[chain[i]].op = "append" => call'[chain[i]].entry \in 1 .. given
               /\ call'[chain[i]].op = "append" /\ call'[chain[i]].pc \in Holding =>
                    \A e \in Covered(window') \cup Covered(jsonl') : e < call'[chain[i]].entry
    <3>1. chain[i] \in Callers
      BY <1>1
    <3>2. call'[chain[i]].op = "append" => call'[chain[i]].entry \in 1 .. given
      BY <1>6, <2>1, <3>1
    <3>3. ASSUME call'[chain[i]].op = "append", call'[chain[i]].pc \in Holding,
                 NEW e \in Covered(window') \cup Covered(jsonl')
          PROVE  e < call'[chain[i]].entry
      <4>1. call[chain[i]].op = "append" /\ call[chain[i]].pc \in Holding
        BY <1>1, <1>3, <1>6, <3>1, <3>3
      <4>2. CASE e \in Covered(window) \cup Covered(jsonl)
        BY <1>6, <2>1, <3>1, <4>1, <4>2
      <4>3. CASE e = call[c].entry /\ call[c].op = "append" /\ r.pc \notin Holding
        <5>1. i # 1
          BY <1>1, <1>3, <3>3, <4>3
        <5>2. 1 < i
          BY <1>1, <5>1
        <5> QED
          BY <1>1, <1>6, <2>2, <3>1, <4>1, <4>3, <5>2
      <4> QED
        BY <4>2, <4>3
    <3> QED
      BY <3>2, <3>3
  <2>4. \A i, j \in DOMAIN chain :
          i < j /\ call'[chain[i]].op = "append" /\ call'[chain[j]].op = "append"
              => call'[chain[i]].entry < call'[chain[j]].entry
    BY <1>1, <1>6, <2>2
  <2> QED
    BY <2>3, <2>4 DEF GivenInOrder, Covered, Holding
<1> QED
  BY <1>1, <1>3, <1>4, <1>5, <1>7, <1>8
(* A log as the invariant has it, when known is archived or trimmed.         *)
Whole(log, known) ==
    /\ log \in Seq(LogEntries) /\ Roomy(log) /\ InOrder(log)
    /\ \A i \in DOMAIN log : log[i].anchored => log[i].covers \subseteq known

(* So it keeps the invariant if it does right by the logs.                   *)
LEMMA FirstMovesOn ==
  ASSUME FsMemIInv, NEW c \in Callers, Turn(c), chain' = chain, given' = given,
         NEW r \in Calls, call' = [call EXCEPT ![c] = r],
         r.pc # "idle", r.op = call[c].op, r.entry = call[c].entry,
         r.pc \in Holding => call[c].pc \in Holding,
         \A e \in Covered(window') \cup Covered(jsonl') :
            \/ e \in Covered(window) \cup Covered(jsonl)
            \/ e = call[c].entry /\ call[c].op = "append" /\ r.pc \notin Holding,
         hydrated' \in BOOLEAN, deaths' = deaths,
         coldLog' \cup trimmed' \cup stored' \subseteq 1 .. given,
         stored' \subseteq Covered(jsonl'),
         Whole(window', coldLog' \cup trimmed'), Whole(jsonl', coldLog' \cup trimmed'),
         r.pc \in CompressPcs => r.from = window' /\ Verbatim(window') \subseteq coldLog',
         Served' = r => FileFollows'
  PROVE  FsMemIInv'
<1>1. /\ ChainFollows' /\ GivenInOrder' /\ Served' = r /\ chain' # <<>>
      /\ \A d \in Callers : d # c => call'[d].pc \in {"idle", "queued"}
      /\ call' \in [Callers -> Calls] /\ call'[c] = r
  BY FirstMoves
<1>2. FsMemTypeOK'
  <2>1. chain \in Seq(Callers) /\ given \in 0 .. MaxEntries /\ deaths \in 0 .. MaxDeaths
        /\ Covered(window) \cup Covered(jsonl) \subseteq 1 .. given
    BY DEF FsMemIInv, FsMemTypeOK
  <2>2. call[c].op = "append" => call[c].entry \in 1 .. given
    <3>1. 1 \in DOMAIN chain /\ chain[1] = c
      BY FirstInChain
    <3> QED
      BY <3>1 DEF FsMemIInv, GivenInOrder
  <2>3. \A e \in Covered(window') \cup Covered(jsonl') : e \in 1 .. given
    BY <2>1, <2>2
  <2>4. window' \in Seq(LogEntries) /\ jsonl' \in Seq(LogEntries)
    BY DEF Whole
  <2> QED
    BY <1>1, <2>1, <2>3, <2>4 DEF FsMemTypeOK, Covered
<1>3. SnapshotFollows'
  <2>1. \A d \in Callers : call'[d].pc \in CompressPcs => d = c
    BY <1>1 DEF CompressPcs
  <2> QED
    BY <1>1, <2>1 DEF SnapshotFollows, CompressPcs, Verbatim, Plain
<1>4. LogsFollow'
  <2>1. Roomy(window') /\ Roomy(jsonl')
    BY DEF Whole
  <2>2. Archived(window)' /\ Archived(jsonl)'
    BY DEF Whole, Archived
  <2>3. LogsFollow' <=> \A log \in {window', jsonl'} :
            (\A i \in DOMAIN log : log[i].anchored => log[i].covers \subseteq coldLog' \cup trimmed')
            /\ Roomy(log)
    BY DEF LogsFollow, Archived, Roomy, Plain
  <2> QED
    BY <2>1, <2>2, <2>3 DEF Archived
<1>5. NothingForgotten'
  BY <1>1 DEF NothingForgotten, Covered
<1>6. OnceInOrder'
  BY DEF OnceInOrder, Whole, InOrder
<1> QED
  BY <1>1, <1>2, <1>3, <1>4, <1>5, <1>6 DEF FsMemIInv

(* The logs as they are.                                                     *)
LEMMA AsItWas ==
  ASSUME FsMemIInv
  PROVE  /\ Whole(window, coldLog \cup trimmed) /\ Whole(jsonl, coldLog \cup trimmed)
         /\ window \in Seq(LogEntries) /\ jsonl \in Seq(LogEntries)
         /\ hydrated \in BOOLEAN /\ given \in 0 .. MaxEntries
         /\ coldLog \cup trimmed \cup stored \subseteq 1 .. given
         /\ Covered(window) \cup Covered(jsonl) \subseteq 1 .. given
         /\ stored \subseteq Covered(jsonl)
         /\ FileFollows
         /\ \A d \in Callers : call[d].pc \in CompressPcs =>
               call[d].from = window /\ Verbatim(window) \subseteq coldLog
<1>1. FsMemTypeOK /\ LogsFollow /\ OnceInOrder /\ NothingForgotten /\ FileFollows /\ SnapshotFollows
  BY DEF FsMemIInv
<1>2. Whole(window, coldLog \cup trimmed) /\ Whole(jsonl, coldLog \cup trimmed)
  BY <1>1 DEF Whole, FsMemTypeOK, LogsFollow, Archived, OnceInOrder
<1> QED
  BY <1>1, <1>2 DEF FsMemTypeOK, NothingForgotten, SnapshotFollows
-----------------------------------------------------------------------------
(* The caller moves on to pc.                                                *)
LEMMA MovesTo ==
  ASSUME FsMemIInv, NEW c \in Callers, Turn(c), NEW pc, GoesTo(c, pc),
         pc \in {"queued", "read", "hydrateArchive", "write", "inject", "injectArchive",
                 "archive", "trim", "rewrite", "remove", "end"}
  PROVE  LET r == [call[c] EXCEPT !.pc = pc]
         IN /\ r \in Calls /\ call' = [call EXCEPT ![c] = r]
            /\ r.pc = pc /\ r.op = call[c].op /\ r.entry = call[c].entry
            /\ r.pc # "idle" /\ r.pc \notin CompressPcs
<1>1. call[c] \in Calls
  BY FirstInChain
<1> QED
  BY <1>1 DEF Calls, GoesTo, CompressPcs

(* Where it goes on to.                                                      *)
LEMMA MainIs ==
  ASSUME NEW c
  PROVE  /\ Main(c) \in {"write", "archive", "trim", "end"}
         /\ Main(c) = "write" <=> call[c].op = "append"
BY DEF Main

(* An operation starts: the session is read first, unless it was.            *)
LEMMA StartsKeeps ==
  ASSUME MemoryBoundsAssumption, FsMemIInv, NEW c \in Callers, Starts(c)
  PROVE  FsMemIInv'
<1> DEFINE pc == IF hydrated THEN Main(c) ELSE "read"
           r == [call[c] EXCEPT !.pc = pc]
<1>1. /\ Turn(c) /\ call[c].pc = "queued" /\ call[c].op # "clear"
      /\ hydrated' = TRUE /\ GoesTo(c, pc)
      /\ window' = window /\ coldLog' = coldLog /\ trimmed' = trimmed /\ jsonl' = jsonl
      /\ chain' = chain /\ given' = given /\ stored' = stored /\ deaths' = deaths
  BY DEF Starts, Doing
<1>2. Served = call[c]
  BY <1>1, FirstInChain
<1>3. /\ Main(c) \in {"write", "archive", "trim", "end"}
      /\ Main(c) = "write" <=> call[c].op = "append"
  BY MainIs
<1>4. /\ r \in Calls /\ call' = [call EXCEPT ![c] = r]
      /\ r.pc = pc /\ r.op = call[c].op /\ r.entry = call[c].entry
      /\ r.pc # "idle" /\ r.pc \notin CompressPcs
  BY <1>1, <1>3, MovesTo
<1>5. /\ Whole(window, coldLog \cup trimmed) /\ Whole(jsonl, coldLog \cup trimmed)
      /\ coldLog \cup trimmed \cup stored \subseteq 1 .. given
      /\ stored \subseteq Covered(jsonl) /\ FileFollows /\ hydrated \in BOOLEAN
  BY AsItWas
<1> HIDE DEF r
<1>6. ASSUME Served' = r PROVE FileFollows'
  <2>1. hydrated => Covered(jsonl) = Covered(window)
    BY <1>1, <1>2, <1>5 DEF FileFollows
  <2>2. ~ hydrated => window = <<>>
    BY <1>5 DEF FileFollows
  <2>3. Served'.pc = (IF hydrated THEN Main(c) ELSE "read") /\ Served'.op = call[c].op
    BY <1>4, <1>6
  <2>4. /\ Covered(jsonl') = Covered(jsonl) /\ Covered(window') = Covered(window)
        /\ Served'.pc # "read" => hydrated
        /\ Served'.pc = "read" => ~ hydrated
        /\ Served'.pc \notin {"idle", "queued", "inject", "remove"}
        /\ Served'.pc = "write" => Served'.op = "append"
        /\ Served'.op = "append" => Served'.pc \in {"read", "write"}
    BY <1>1, <1>3, <2>3
  <2> HIDE DEF pc
  <2> QED
    BY <1>1, <2>1, <2>2, <2>4 DEF FileFollows, Holding, Covered
<1>7. r.pc \in Holding => call[c].pc \in Holding
  BY <1>1 DEF Holding
<1>8. \A e \in Covered(window') \cup Covered(jsonl') : e \in Covered(window) \cup Covered(jsonl)
  BY <1>1
<1> HIDE DEF pc
<1> QED
  BY <1>1, <1>4, <1>5, <1>6, <1>7, <1>8, FirstMovesOn

(* The window is what the file holds, for there was none.                    *)
LEMMA ReadFileKeeps ==
  ASSUME MemoryBoundsAssumption, FsMemIInv, NEW c \in Callers, ReadFile(c)
  PROVE  FsMemIInv'
<1> DEFINE pc == IF OverThreshold(window') THEN "hydrateArchive" ELSE Main(c)
           r == [call[c] EXCEPT !.pc = pc]
<1>1. /\ Turn(c) /\ call[c].pc = "read"
      /\ hydrated' = hydrated /\ GoesTo(c, pc)
      /\ window' = window \o jsonl /\ coldLog' = coldLog /\ trimmed' = trimmed /\ jsonl' = jsonl
      /\ chain' = chain /\ given' = given /\ stored' = stored /\ deaths' = deaths
  BY DEF ReadFile, Doing
<1>2. Served = call[c]
  BY <1>1, FirstInChain
<1>3. /\ Main(c) \in {"write", "archive", "trim", "end"}
      /\ Main(c) = "write" <=> call[c].op = "append"
  BY MainIs
<1>4. /\ r \in Calls /\ call' = [call EXCEPT ![c] = r]
      /\ r.pc = pc /\ r.op = call[c].op /\ r.entry = call[c].entry
      /\ r.pc # "idle" /\ r.pc \notin CompressPcs
  BY <1>1, <1>3, MovesTo
<1>5. /\ Whole(jsonl, coldLog \cup trimmed) /\ jsonl \in Seq(LogEntries)
      /\ coldLog \cup trimmed \cup stored \subseteq 1 .. given
      /\ stored \subseteq Covered(jsonl) /\ FileFollows /\ hydrated \in BOOLEAN
  BY AsItWas
<1> HIDE DEF r
<1>6. window = <<>> /\ hydrated
  BY <1>1, <1>2, <1>5 DEF FileFollows
<1>7. window' = jsonl
  BY <1>1, <1>5, <1>6, ConcatEmptySeq
<1>8. ASSUME Served' = r PROVE FileFollows'
  <2>1. Served'.pc = pc /\ Served'.op = call[c].op
    BY <1>4, <1>8
  <2>2. Served'.pc \in {"hydrateArchive", "write", "archive", "trim", "end"}
    BY <1>3, <2>1
  <2>3. /\ Served'.pc = "write" => Served'.op = "append"
        /\ Served'.op = "append" => Served'.pc \in {"hydrateArchive", "write"}
    BY <1>3, <2>1
  <2>4. Covered(jsonl') = Covered(window')
    BY <1>1, <1>7
  <2> HIDE DEF pc
  <2> QED
    BY <1>1, <1>6, <2>2, <2>3, <2>4 DEF FileFollows, Holding, Covered
<1>9. r.pc \in Holding => call[c].pc \in Holding
  BY <1>1 DEF Holding
<1>10. \A e \in Covered(window') \cup Covered(jsonl') : e \in Covered(window) \cup Covered(jsonl)
  BY <1>1, <1>7
<1> HIDE DEF pc
<1> QED
  BY <1>1, <1>4, <1>5, <1>7, <1>8, <1>9, <1>10, FirstMovesOn

(* The line is on disk; the window does not have it yet.                     *)
LEMMA WriteLineKeeps ==
  ASSUME MemoryBoundsAssumption, FsMemIInv, NEW c \in Callers, WriteLine(c)
  PROVE  FsMemIInv'
<1> DEFINE e == call[c].entry
           r == [call[c] EXCEPT !.pc = "inject"]
<1>1. /\ Turn(c) /\ call[c].pc = "write" /\ GoesTo(c, "inject")
      /\ jsonl' = Append(jsonl, Raw(e)) /\ hydrated' = hydrated
      /\ window' = window /\ coldLog' = coldLog /\ trimmed' = trimmed
      /\ chain' = chain /\ given' = given /\ stored' = stored /\ deaths' = deaths
  BY DEF WriteLine, Doing, memVars
<1>2. Served = call[c] /\ 1 \in DOMAIN chain /\ chain[1] = c
  BY <1>1, FirstInChain
<1>3. /\ r \in Calls /\ call' = [call EXCEPT ![c] = r]
      /\ r.pc = "inject" /\ r.op = call[c].op /\ r.entry = e
  BY <1>1, MovesTo
<1>4. /\ Whole(window, coldLog \cup trimmed) /\ Whole(jsonl, coldLog \cup trimmed)
      /\ window \in Seq(LogEntries) /\ jsonl \in Seq(LogEntries) /\ given \in 0 .. MaxEntries
      /\ coldLog \cup trimmed \cup stored \subseteq 1 .. given
      /\ stored \subseteq Covered(jsonl) /\ FileFollows /\ hydrated \in BOOLEAN
  BY AsItWas
<1> HIDE DEF r
<1>5. hydrated /\ call[c].op = "append" /\ Covered(jsonl) = Covered(window)
  BY <1>1, <1>2, <1>4 DEF FileFollows
<1>6. e \in 1 .. given /\ \A f \in Covered(window) \cup Covered(jsonl) : f < e
  BY <1>1, <1>2, <1>5 DEF FsMemIInv, GivenInOrder, Holding
<1>7. e \in 1 .. MaxEntries
  <2>1. \A m, g \in Int : g \in 0 .. m => 1 .. g \subseteq 1 .. m
    OBVIOUS
  <2>2. MaxEntries \in Int /\ given \in Int
    BY <1>4 DEF MemoryBoundsAssumption
  <2> QED
    BY <1>4, <1>6, <2>1, <2>2
<1> HIDE DEF e
<1>8. /\ jsonl' \in Seq(LogEntries)
      /\ Covered(jsonl') = Covered(jsonl) \cup {e}
      /\ Roomy(jsonl) => Roomy(jsonl')
      /\ InOrder(jsonl) /\ (\A f \in Covered(jsonl) : f < e) => InOrder(jsonl')
      /\ \A X : (\A i \in DOMAIN jsonl : jsonl[i].anchored => jsonl[i].covers \subseteq X)
                => \A i \in DOMAIN jsonl' : jsonl'[i].anchored => jsonl'[i].covers \subseteq X
  BY <1>1, <1>4, <1>7, LineMore
<1>9. Whole(jsonl', coldLog \cup trimmed)
  BY <1>4, <1>6, <1>8 DEF Whole
<1>10. ASSUME Served' = r PROVE FileFollows'
  <2>1. Served'.pc = "inject" /\ Served'.op = "append" /\ Served'.entry = e
    BY <1>3, <1>5, <1>10
  <2>2. Covered(jsonl') = Covered(window') \cup {e} /\ \A f \in Covered(window') : f < e
    BY <1>1, <1>5, <1>6, <1>8
  <2> QED
    BY <1>1, <1>5, <2>1, <2>2 DEF FileFollows, Holding, Covered
<1>11. r.pc # "idle" /\ r.pc \notin Holding /\ r.pc \notin CompressPcs
  BY <1>3 DEF Holding, CompressPcs
<1>12. \A f \in Covered(window') \cup Covered(jsonl') :
          \/ f \in Covered(window) \cup Covered(jsonl)
          \/ f = call[c].entry /\ call[c].op = "append" /\ r.pc \notin Holding
  BY <1>1, <1>5, <1>8, <1>11 DEF e
<1> QED
  BY <1>1, <1>3, <1>4, <1>8, <1>9, <1>10, <1>11, <1>12, FirstMovesOn DEF e

(* Now it has.                                                               *)
LEMMA InjectKeeps ==
  ASSUME MemoryBoundsAssumption, FsMemIInv, NEW c \in Callers, Inject(c)
  PROVE  FsMemIInv'
<1> DEFINE e == call[c].entry
           pc == IF OverThreshold(window') THEN "injectArchive" ELSE "end"
           r == [call[c] EXCEPT !.pc = pc]
<1>1. /\ Turn(c) /\ call[c].pc = "inject" /\ GoesTo(c, pc)
      /\ window' = Append(window, Raw(e)) /\ hydrated' = hydrated
      /\ jsonl' = jsonl /\ coldLog' = coldLog /\ trimmed' = trimmed
      /\ chain' = chain /\ given' = given /\ stored' = stored /\ deaths' = deaths
  BY DEF Inject, Doing
<1>2. Served = call[c] /\ 1 \in DOMAIN chain /\ chain[1] = c
  BY <1>1, FirstInChain
<1>3. /\ r \in Calls /\ call' = [call EXCEPT ![c] = r]
      /\ r.pc = pc /\ r.op = call[c].op /\ r.entry = e
  BY <1>1, MovesTo
<1>4. /\ Whole(window, coldLog \cup trimmed) /\ Whole(jsonl, coldLog \cup trimmed)
      /\ window \in Seq(LogEntries) /\ jsonl \in Seq(LogEntries) /\ given \in 0 .. MaxEntries
      /\ coldLog \cup trimmed \cup stored \subseteq 1 .. given
      /\ stored \subseteq Covered(jsonl) /\ FileFollows /\ hydrated \in BOOLEAN
  BY AsItWas
<1> HIDE DEF r
<1>5. /\ hydrated /\ call[c].op = "append" /\ Covered(jsonl) = Covered(window) \cup {e}
      /\ \A f \in Covered(window) : f < e
  BY <1>1, <1>2, <1>4 DEF FileFollows
<1>6. e \in 1 .. given
  BY <1>2, <1>5 DEF FsMemIInv, GivenInOrder
<1>7. e \in 1 .. MaxEntries
  <2>1. \A m, g \in Int : g \in 0 .. m => 1 .. g \subseteq 1 .. m
    OBVIOUS
  <2>2. MaxEntries \in Int /\ given \in Int
    BY <1>4 DEF MemoryBoundsAssumption
  <2> QED
    BY <1>4, <1>6, <2>1, <2>2
<1> HIDE DEF e
<1>8. /\ window' \in Seq(LogEntries)
      /\ Covered(window') = Covered(window) \cup {e}
      /\ Roomy(window) => Roomy(window')
      /\ InOrder(window) /\ (\A f \in Covered(window) : f < e) => InOrder(window')
      /\ \A X : (\A i \in DOMAIN window : window[i].anchored => window[i].covers \subseteq X)
                => \A i \in DOMAIN window' : window'[i].anchored => window'[i].covers \subseteq X
  BY <1>1, <1>4, <1>7, LineMore
<1>9. Whole(window', coldLog \cup trimmed)
  BY <1>4, <1>5, <1>8 DEF Whole
<1>10. pc \in {"injectArchive", "end"}
  OBVIOUS
<1> HIDE DEF pc
<1>11. ASSUME Served' = r PROVE FileFollows'
  <2>1. Served'.pc \in {"injectArchive", "end"} /\ Served'.op = "append" /\ Served'.entry = e
    BY <1>3, <1>5, <1>10, <1>11
  <2>2. Covered(jsonl') = Covered(window') /\ e \in Covered(jsonl')
    BY <1>1, <1>5, <1>8
  <2> QED
    BY <1>1, <1>5, <2>1, <2>2 DEF FileFollows, Holding, Covered
<1>12. r.pc # "idle" /\ r.pc \notin Holding /\ r.pc \notin CompressPcs
  BY <1>3, <1>10 DEF Holding, CompressPcs
<1>13. \A f \in Covered(window') \cup Covered(jsonl') : f \in Covered(window) \cup Covered(jsonl)
  BY <1>1, <1>5, <1>8
<1> QED
  BY <1>1, <1>3, <1>4, <1>9, <1>11, <1>12, <1>13, FirstMovesOn DEF e

(* What is about to be summed up is in the cold archive.                     *)
LEMMA ArchiveSourceKeeps ==
  ASSUME MemoryBoundsAssumption, FsMemIInv, NEW c \in Callers, ArchiveSource(c)
  PROVE  FsMemIInv'
<1> DEFINE pc == CompressPc(call[c].pc)
           r == [call[c] EXCEPT !.pc = pc, !.from = window]
<1>1. /\ Turn(c) /\ call[c].pc \in ArchivePcs
      /\ coldLog' = coldLog \cup Verbatim(window)
      /\ call' = [call EXCEPT ![c].pc = CompressPc(call[c].pc), ![c].from = window]
      /\ hydrated' = hydrated /\ window' = window /\ jsonl' = jsonl /\ trimmed' = trimmed
      /\ chain' = chain /\ given' = given /\ stored' = stored /\ deaths' = deaths
  BY DEF ArchiveSource, Archives
<1>2. Served = call[c] /\ call[c] \in Calls
  BY <1>1, FirstInChain
<1>3. /\ Whole(window, coldLog \cup trimmed) /\ Whole(jsonl, coldLog \cup trimmed)
      /\ window \in Seq(LogEntries)
      /\ coldLog \cup trimmed \cup stored \subseteq 1 .. given
      /\ Covered(window) \subseteq 1 .. given
      /\ stored \subseteq Covered(jsonl) /\ FileFollows /\ hydrated \in BOOLEAN
  BY AsItWas
<1>4. pc \in CompressPcs /\ (pc = "hydrateCompress" <=> call[c].pc = "hydrateArchive")
  BY <1>1 DEF CompressPc, CompressPcs, ArchivePcs
<1>5. /\ r \in Calls /\ call' = [call EXCEPT ![c] = r]
      /\ r.pc = pc /\ r.op = call[c].op /\ r.entry = call[c].entry /\ r.from = window
  <2> HIDE DEF pc
  <2>1. r \in Calls
    BY <1>2, <1>3, <1>4 DEF Calls
  <2>2. call \in [Callers -> Calls]
    BY DEF FsMemIInv, FsMemTypeOK
  <2>3. call' = [call EXCEPT ![c] = r]
    BY <1>1, <2>2 DEF Calls, pc
  <2> QED
    BY <1>2, <2>1, <2>3 DEF Calls
<1> HIDE DEF r, pc
<1>6. Verbatim(window) \subseteq Covered(window)
  BY VerbatimIsCovered
<1>7. /\ Whole(window', coldLog' \cup trimmed') /\ Whole(jsonl', coldLog' \cup trimmed')
      /\ coldLog' \cup trimmed' \cup stored' \subseteq 1 .. given
      /\ Verbatim(window') \subseteq coldLog'
  <2>1. coldLog \cup trimmed \subseteq coldLog' \cup trimmed'
    BY <1>1
  <2> QED
    BY <1>1, <1>3, <1>6, <2>1 DEF Whole
<1>8. ASSUME Served' = r PROVE FileFollows'
  <2>1. Served'.pc = pc /\ Served'.op = call[c].op /\ Served'.entry = call[c].entry
    BY <1>5, <1>8
  <2>2. hydrated /\ Covered(jsonl) = Covered(window)
    BY <1>1, <1>2, <1>3 DEF FileFollows, ArchivePcs
  <2>3. Served'.pc \notin Holding /\ Served'.op = "append" => Served'.entry \in Covered(jsonl)
    BY <1>1, <1>2, <1>3, <1>4, <2>1 DEF FileFollows, Holding, ArchivePcs
  <2>4. Served'.pc \in {"hydrateCompress", "injectCompress", "compress"}
    BY <1>4, <2>1 DEF CompressPcs
  <2> QED
    BY <1>1, <2>2, <2>3, <2>4 DEF FileFollows, Holding, Covered
<1>9. r.pc # "idle" /\ (r.pc \in Holding => call[c].pc \in Holding)
  BY <1>4, <1>5 DEF Holding, CompressPcs
<1>10. \A f \in Covered(window') \cup Covered(jsonl') : f \in Covered(window) \cup Covered(jsonl)
  BY <1>1
<1>11. r.from = window' /\ stored' \subseteq Covered(jsonl') /\ hydrated' \in BOOLEAN
  BY <1>1, <1>3, <1>5
<1> QED
  BY <1>1, <1>5, <1>7, <1>8, <1>9, <1>10, <1>11, FirstMovesOn

(* The window is what was computed from it: nobody changed it meanwhile.     *)
LEMMA SummaryArrivesKeeps ==
  ASSUME MemoryBoundsAssumption, FsMemIInv, NEW c \in Callers, SummaryArrives(c)
  PROVE  FsMemIInv'
<1> DEFINE pc == CASE call[c].pc = "hydrateCompress" -> Main(c)
                   [] call[c].pc = "injectCompress" ->
                        (IF OverThreshold(Compressed(call[c].from)) THEN "archive" ELSE "end")
                   [] OTHER -> "rewrite"
           r == [call[c] EXCEPT !.from = <<>>, !.pc = pc]
<1>1. /\ Turn(c) /\ call[c].pc \in CompressPcs
      /\ window' = Compressed(call[c].from)
      /\ hydrated' = hydrated /\ jsonl' = jsonl /\ coldLog' = coldLog /\ trimmed' = trimmed
      /\ chain' = chain /\ given' = given /\ stored' = stored /\ deaths' = deaths
  BY DEF SummaryArrives
<1>2. call' = [call EXCEPT ![c].from = <<>>, ![c].pc = pc]
  BY DEF SummaryArrives
<1>3. Served = call[c] /\ call[c] \in Calls
  BY <1>1, FirstInChain
<1>4. /\ Whole(window, coldLog \cup trimmed) /\ Whole(jsonl, coldLog \cup trimmed)
      /\ window \in Seq(LogEntries) /\ hydrated \in BOOLEAN
      /\ coldLog \cup trimmed \cup stored \subseteq 1 .. given
      /\ stored \subseteq Covered(jsonl) /\ FileFollows
      /\ call[c].from = window /\ Verbatim(window) \subseteq coldLog
  BY <1>1, AsItWas
<1>5. /\ Main(c) \in {"write", "archive", "trim", "end"}
      /\ Main(c) = "write" <=> call[c].op = "append"
  BY MainIs
<1>6. /\ call[c].pc = "hydrateCompress" => pc = Main(c)
      /\ call[c].pc = "injectCompress" => pc \in {"archive", "end"}
      /\ call[c].pc = "compress" => pc = "rewrite"
      /\ pc \in {"write", "archive", "trim", "end", "rewrite"}
  BY <1>1, <1>5 DEF CompressPcs
<1> HIDE DEF pc
<1>7. /\ r \in Calls /\ call' = [call EXCEPT ![c] = r]
      /\ r.pc = pc /\ r.op = call[c].op /\ r.entry = call[c].entry
  <2>1. r \in Calls
    <3>1. <<>> \in Seq(LogEntries)
      BY NoLog
    <3> QED
      BY <1>3, <1>6, <3>1 DEF Calls
  <2>2. call \in [Callers -> Calls]
    BY DEF FsMemIInv, FsMemTypeOK
  <2>3. call' = [call EXCEPT ![c] = r]
    BY <1>2, <2>2 DEF Calls
  <2> QED
    BY <1>3, <2>1, <2>3 DEF Calls
<1> HIDE DEF r
<1>8. /\ window' \in Seq(LogEntries) /\ Covered(window') = Covered(window)
      /\ Roomy(window') /\ InOrder(window')
      /\ \A X : Verbatim(window) \subseteq X
                /\ (\A i \in DOMAIN window : window[i].anchored => window[i].covers \subseteq X)
             => \A k \in DOMAIN window' : window'[k].anchored => window'[k].covers \subseteq X
  <2>1. Roomy(window) /\ InOrder(window) /\ window' = Compressed(window)
    BY <1>1, <1>4 DEF Whole
  <2> QED
    BY <1>4, <2>1, CompressedLog
<1>9. Whole(window', coldLog \cup trimmed)
  <2>1. Verbatim(window) \subseteq coldLog \cup trimmed
    BY <1>4
  <2>2. \A i \in DOMAIN window : window[i].anchored => window[i].covers \subseteq coldLog \cup trimmed
    BY <1>4 DEF Whole
  <2> QED
    BY <1>8, <2>1, <2>2 DEF Whole
<1>10. ASSUME Served' = r PROVE FileFollows'
  <2>1. Served'.pc = pc /\ Served'.op = call[c].op /\ Served'.entry = call[c].entry
    BY <1>7, <1>10
  <2>2. hydrated /\ Covered(jsonl) = Covered(window)
    BY <1>1, <1>3, <1>4 DEF FileFollows, CompressPcs
  <2>3. Served'.pc = "write" => Served'.op = "append"
    BY <1>1, <1>5, <1>6, <2>1 DEF CompressPcs
  <2>4. Served'.pc \notin Holding /\ Served'.op = "append" => Served'.entry \in Covered(jsonl)
    <3>1. CASE call[c].pc = "hydrateCompress"
      BY <1>5, <1>6, <2>1, <3>1 DEF Holding
    <3>2. CASE call[c].pc \in {"injectCompress", "compress"}
      BY <1>3, <1>4, <2>1, <3>2 DEF FileFollows, Holding
    <3> QED
      BY <1>1, <3>1, <3>2 DEF CompressPcs
  <2>5. Covered(jsonl') = Covered(window')
    BY <1>1, <1>8, <2>2
  <2> QED
    BY <1>1, <1>6, <2>1, <2>2, <2>3, <2>4, <2>5 DEF FileFollows, Holding, Covered
<1>11. r.pc # "idle" /\ r.pc \notin CompressPcs /\ (r.pc \in Holding => call[c].pc \in Holding)
  BY <1>1, <1>5, <1>6, <1>7 DEF Holding, CompressPcs
<1>12. \A f \in Covered(window') \cup Covered(jsonl') : f \in Covered(window) \cup Covered(jsonl)
  BY <1>1, <1>8
<1> QED
  BY <1>1, <1>4, <1>7, <1>9, <1>10, <1>11, <1>12, FirstMovesOn

(* What trim() takes away is counted as trimmed, and the rest stays.         *)
LEMMA TrimKeeps ==
  ASSUME MemoryBoundsAssumption, FsMemIInv, NEW c \in Callers, Trim(c)
  PROVE  FsMemIInv'
<1> DEFINE r == [call[c] EXCEPT !.pc = "rewrite"]
           gone == UNION {window[i].covers : i \in {j \in DOMAIN window : ~ Contains(window', window[j])}}
<1>1. /\ Turn(c) /\ call[c].pc = "trim" /\ GoesTo(c, "rewrite")
      /\ window' = Compressed(window) /\ trimmed' = trimmed \cup gone
      /\ hydrated' = hydrated /\ jsonl' = jsonl /\ coldLog' = coldLog
      /\ chain' = chain /\ given' = given /\ stored' = stored /\ deaths' = deaths
  BY DEF Trim, Doing
<1>2. Served = call[c]
  BY <1>1, FirstInChain
<1>3. /\ r \in Calls /\ call' = [call EXCEPT ![c] = r]
      /\ r.pc = "rewrite" /\ r.op = call[c].op /\ r.entry = call[c].entry
  BY <1>1, MovesTo
<1>4. /\ Whole(window, coldLog \cup trimmed) /\ Whole(jsonl, coldLog \cup trimmed)
      /\ window \in Seq(LogEntries) /\ hydrated \in BOOLEAN
      /\ coldLog \cup trimmed \cup stored \subseteq 1 .. given
      /\ Covered(window) \subseteq 1 .. given
      /\ stored \subseteq Covered(jsonl) /\ FileFollows
  BY AsItWas
<1> HIDE DEF r
<1>5. /\ window' \in Seq(LogEntries) /\ Covered(window') = Covered(window)
      /\ Roomy(window') /\ InOrder(window')
      /\ \A k \in DOMAIN window' : window'[k].anchored =>
               \/ \E i \in DOMAIN window : window[i].anchored /\ window'[k] = window[i]
               \/ window'[k].covers \subseteq gone
  <2>1. Roomy(window) /\ InOrder(window)
    BY <1>4 DEF Whole
  <2> DEFINE short == Compressed(window)
  <2>2. /\ short \in Seq(LogEntries) /\ Covered(short) = Covered(window)
        /\ Roomy(short) /\ InOrder(short)
        /\ \A k \in DOMAIN short : short[k].anchored =>
               \/ \E i \in DOMAIN window : window[i].anchored /\ short[k] = window[i]
               \/ short[k].covers \subseteq
                    UNION {window[i].covers : i \in {j \in DOMAIN window : ~ Contains(short, window[j])}}
    BY <1>4, <2>1, CompressedLog
  <2>3. window' = short
    BY <1>1
  <2> HIDE DEF short
  <2> QED
    BY <2>2, <2>3
<1>6. gone \subseteq Covered(window)
  BY DEF Covered
<1> HIDE DEF gone
<1>7. Whole(window', coldLog' \cup trimmed') /\ Whole(jsonl', coldLog' \cup trimmed')
  <2>1. \A i \in DOMAIN window : window[i].anchored => window[i].covers \subseteq coldLog \cup trimmed
    BY <1>4 DEF Whole
  <2>2. coldLog \cup trimmed \subseteq coldLog' \cup trimmed' /\ gone \subseteq coldLog' \cup trimmed'
    BY <1>1
  <2>3. \A k \in DOMAIN window' :
           window'[k].anchored => window'[k].covers \subseteq coldLog' \cup trimmed'
    BY <1>5, <2>1, <2>2
  <2>4. Whole(window', coldLog' \cup trimmed')
    BY <1>5, <2>3 DEF Whole
  <2> QED
    BY <1>1, <1>4, <2>2, <2>4 DEF Whole
<1>8. ASSUME Served' = r PROVE FileFollows'
  <2>1. Served'.pc = "rewrite" /\ Served'.op = call[c].op /\ Served'.entry = call[c].entry
    BY <1>3, <1>8
  <2>2. hydrated /\ Covered(jsonl) = Covered(window)
    BY <1>1, <1>2, <1>4 DEF FileFollows
  <2>3. Served'.op = "append" => Served'.entry \in Covered(jsonl)
    BY <1>1, <1>2, <1>4, <2>1 DEF FileFollows, Holding
  <2>4. Covered(jsonl') = Covered(window')
    BY <1>1, <1>5, <2>2
  <2> QED
    BY <1>1, <2>1, <2>2, <2>3, <2>4 DEF FileFollows, Holding, Covered
<1>9. r.pc # "idle" /\ r.pc \notin CompressPcs /\ r.pc \notin Holding
  BY <1>3 DEF Holding, CompressPcs
<1>10. \A f \in Covered(window') \cup Covered(jsonl') : f \in Covered(window) \cup Covered(jsonl)
  BY <1>1, <1>5
<1>11. coldLog' \cup trimmed' \cup stored' \subseteq 1 .. given
  BY <1>1, <1>4, <1>6
<1> QED
  BY <1>1, <1>3, <1>4, <1>7, <1>8, <1>9, <1>10, <1>11, FirstMovesOn

(* The file is the window.                                                   *)
LEMMA RewriteKeeps ==
  ASSUME MemoryBoundsAssumption, FsMemIInv, NEW c \in Callers, Rewrite(c)
  PROVE  FsMemIInv'
<1> DEFINE r == [call[c] EXCEPT !.pc = "end"]
<1>1. /\ Turn(c) /\ call[c].pc = "rewrite" /\ GoesTo(c, "end")
      /\ jsonl' = window /\ window' = window
      /\ hydrated' = hydrated /\ coldLog' = coldLog /\ trimmed' = trimmed
      /\ chain' = chain /\ given' = given /\ stored' = stored /\ deaths' = deaths
  BY DEF Rewrite, Doing, memVars
<1>2. Served = call[c]
  BY <1>1, FirstInChain
<1>3. /\ r \in Calls /\ call' = [call EXCEPT ![c] = r]
      /\ r.pc = "end" /\ r.op = call[c].op /\ r.entry = call[c].entry
  BY <1>1, MovesTo
<1>4. /\ Whole(window, coldLog \cup trimmed) /\ hydrated \in BOOLEAN
      /\ coldLog \cup trimmed \cup stored \subseteq 1 .. given
      /\ stored \subseteq Covered(jsonl) /\ FileFollows
  BY AsItWas
<1> HIDE DEF r
<1>5. hydrated /\ Covered(jsonl) = Covered(window)
  BY <1>1, <1>2, <1>4 DEF FileFollows
<1>6. ASSUME Served' = r PROVE FileFollows'
  <2>1. Served'.pc = "end" /\ Served'.op = call[c].op /\ Served'.entry = call[c].entry
    BY <1>3, <1>6
  <2>2. Served'.op = "append" => Served'.entry \in Covered(window)
    BY <1>1, <1>2, <1>4, <1>5, <2>1 DEF FileFollows, Holding
  <2>3. Covered(jsonl') = Covered(window') /\ Covered(jsonl') = Covered(window)
    BY <1>1
  <2> QED
    BY <1>1, <1>5, <2>1, <2>2, <2>3 DEF FileFollows, Holding, Covered
<1>7. r.pc # "idle" /\ r.pc \notin CompressPcs /\ r.pc \notin Holding
  BY <1>3 DEF Holding, CompressPcs
<1>8. \A f \in Covered(window') \cup Covered(jsonl') : f \in Covered(window) \cup Covered(jsonl)
  BY <1>1
<1>9. stored' \subseteq Covered(jsonl')
  BY <1>1, <1>4, <1>5
<1> QED
  BY <1>1, <1>3, <1>4, <1>6, <1>7, <1>8, <1>9, FirstMovesOn

(* A clear: nothing is stored any more, ...                                  *)
LEMMA ClearWindowKeeps ==
  ASSUME MemoryBoundsAssumption, FsMemIInv, NEW c \in Callers, ClearWindow(c)
  PROVE  FsMemIInv'
<1> DEFINE r == [call[c] EXCEPT !.pc = "remove"]
<1>1. /\ Turn(c) /\ call[c].pc = "queued" /\ call[c].op = "clear" /\ GoesTo(c, "remove")
      /\ hydrated' = FALSE /\ window' = <<>> /\ stored' = {}
      /\ jsonl' = jsonl /\ coldLog' = coldLog /\ trimmed' = trimmed
      /\ chain' = chain /\ given' = given /\ deaths' = deaths
  BY DEF ClearWindow, Doing
<1>2. /\ r \in Calls /\ call' = [call EXCEPT ![c] = r]
      /\ r.pc = "remove" /\ r.op = call[c].op /\ r.entry = call[c].entry
  BY <1>1, MovesTo
<1>3. /\ Whole(jsonl, coldLog \cup trimmed)
      /\ coldLog \cup trimmed \cup stored \subseteq 1 .. given
  BY AsItWas
<1> HIDE DEF r
<1>4. /\ <<>> \in Seq(LogEntries) /\ Covered(<<>>) = {}
      /\ Roomy(<<>>) /\ InOrder(<<>>)
  BY NoLog
<1>5. Whole(window', coldLog \cup trimmed) /\ Covered(window') = {}
  BY <1>1, <1>4 DEF Whole
<1>6. ASSUME Served' = r PROVE FileFollows'
  <2>1. Served'.pc = "remove" /\ Served'.op = "clear"
    BY <1>1, <1>2, <1>6
  <2> QED
    BY <1>1, <2>1 DEF FileFollows, Holding
<1>7. r.pc # "idle" /\ r.pc \notin CompressPcs /\ r.pc \notin Holding
  BY <1>2 DEF Holding, CompressPcs
<1>8. \A f \in Covered(window') \cup Covered(jsonl') : f \in Covered(window) \cup Covered(jsonl)
  BY <1>1, <1>5
<1>9. coldLog' \cup trimmed' \cup stored' \subseteq 1 .. given /\ stored' \subseteq Covered(jsonl')
  BY <1>1, <1>3
<1> QED
  BY <1>1, <1>2, <1>3, <1>5, <1>6, <1>7, <1>8, <1>9, FirstMovesOn

(* ... neither in the window nor in the file.                                *)
LEMMA RemoveFileKeeps ==
  ASSUME MemoryBoundsAssumption, FsMemIInv, NEW c \in Callers, RemoveFile(c)
  PROVE  FsMemIInv'
<1> DEFINE r == [call[c] EXCEPT !.pc = "end"]
<1>1. /\ Turn(c) /\ call[c].pc = "remove" /\ GoesTo(c, "end")
      /\ jsonl' = <<>> /\ window' = window /\ stored' = stored
      /\ hydrated' = hydrated /\ coldLog' = coldLog /\ trimmed' = trimmed
      /\ chain' = chain /\ given' = given /\ deaths' = deaths
  BY DEF RemoveFile, Doing, memVars
<1>2. Served = call[c]
  BY <1>1, FirstInChain
<1>3. /\ r \in Calls /\ call' = [call EXCEPT ![c] = r]
      /\ r.pc = "end" /\ r.op = call[c].op /\ r.entry = call[c].entry
  BY <1>1, MovesTo
<1>4. /\ Whole(window, coldLog \cup trimmed) /\ hydrated \in BOOLEAN
      /\ coldLog \cup trimmed \cup stored \subseteq 1 .. given /\ FileFollows
  BY AsItWas
<1> HIDE DEF r
<1>5. stored = {} /\ ~ hydrated /\ call[c].op = "clear" /\ window = <<>>
  BY <1>1, <1>2, <1>4 DEF FileFollows
<1>6. /\ <<>> \in Seq(LogEntries) /\ Covered(<<>>) = {}
      /\ Roomy(<<>>) /\ InOrder(<<>>)
  BY NoLog
<1>7. Whole(jsonl', coldLog \cup trimmed) /\ Covered(jsonl') = {}
  BY <1>1, <1>6 DEF Whole
<1>8. ASSUME Served' = r PROVE FileFollows'
  <2>1. Served'.pc = "end" /\ Served'.op = "clear"
    BY <1>3, <1>5, <1>8
  <2> QED
    BY <1>1, <1>5, <2>1 DEF FileFollows, Holding
<1>9. r.pc # "idle" /\ r.pc \notin CompressPcs /\ r.pc \notin Holding
  BY <1>3 DEF Holding, CompressPcs
<1>10. \A f \in Covered(window') \cup Covered(jsonl') : f \in Covered(window) \cup Covered(jsonl)
  BY <1>1, <1>7
<1>11. stored' \subseteq Covered(jsonl')
  BY <1>1, <1>5
<1> QED
  BY <1>1, <1>3, <1>4, <1>7, <1>8, <1>9, <1>10, <1>11, FirstMovesOn

-----------------------------------------------------------------------------
(* A call that is over leaves the chain, and the next one is the first.      *)
LEMMA SettlesWell ==
  ASSUME MemoryBoundsAssumption, FsMemIInv, NEW c \in Callers, Turn(c), Settle(c),
         jsonl' = jsonl, memVars' = memVars, given' = given, deaths' = deaths,
         hydrated => Covered(jsonl) = Covered(window),
         stored' \subseteq Covered(jsonl), stored' \subseteq 1 .. given
  PROVE  FsMemIInv'
<1> DEFINE n == Len(chain)
<1>1. /\ DOMAIN chain = 1 .. n /\ n \in Nat /\ 1 \in DOMAIN chain
      /\ chain # <<>> /\ chain[1] = c
      /\ \A i \in DOMAIN chain : /\ chain[i] \in Callers
                                 /\ i # 1 => chain[i] # c /\ call[chain[i]].pc = "queued"
      /\ \A d \in Callers : d # c => call[d].pc \in {"idle", "queued"}
  BY FirstInChain
<1>2. /\ FsMemTypeOK /\ ChainFollows /\ GivenInOrder /\ FileFollows
      /\ LogsFollow /\ OnceInOrder
  BY DEF FsMemIInv
<1>3. /\ window' = window /\ hydrated' = hydrated /\ coldLog' = coldLog /\ trimmed' = trimmed
      /\ chain' = Tail(chain) /\ call' = [call EXCEPT ![c] = NoCall]
  BY DEF memVars, Settle
<1>4. /\ chain' \in Seq(Callers) /\ DOMAIN chain' = 1 .. n - 1
      /\ \A i \in 1 .. n - 1 : chain'[i] = chain[i + 1] /\ i + 1 \in 1 .. n /\ i + 1 # 1
      /\ n > 0
  <2>1. chain \in Seq(Callers)
    BY <1>2 DEF FsMemTypeOK
  <2>2. /\ Tail(chain) \in Seq(Callers) /\ Len(Tail(chain)) = n - 1
        /\ \A i \in 1 .. Len(Tail(chain)) : Tail(chain)[i] = chain[i + 1]
    BY <1>1, <2>1, HeadTailProperties
  <2>3. DOMAIN Tail(chain) = 1 .. n - 1
    BY <2>2, LenProperties
  <2>4. n > 0 /\ \A i \in 1 .. n - 1 : i + 1 \in 1 .. n /\ i + 1 # 1
    BY <1>1
  <2> HIDE DEF n
  <2> QED
    BY <1>3, <2>2, <2>3, <2>4
<1>5. NoCall \in Calls
  <2>1. <<>> \in Seq(LogEntries)
    OBVIOUS
  <2>2. 0 \in 0 .. MaxEntries
    BY DEF MemoryBoundsAssumption
  <2> QED
    BY <2>1, <2>2 DEF NoCall, Calls
<1>6. /\ call' \in [Callers -> Calls] /\ call'[c] = NoCall
      /\ \A d \in Callers : d # c => call'[d] = call[d]
  BY <1>2, <1>3, <1>5 DEF FsMemTypeOK
<1> HIDE DEF n
<1>7. \A i \in 1 .. n - 1 : /\ chain'[i] \in Callers /\ chain'[i] # c
                            /\ call'[chain'[i]] = call[chain[i + 1]]
                            /\ call'[chain'[i]].pc = "queued"
  <2> SUFFICES ASSUME NEW i \in 1 .. n - 1
               PROVE  /\ chain'[i] \in Callers /\ chain'[i] # c
                      /\ call'[chain'[i]] = call[chain[i + 1]]
                      /\ call'[chain'[i]].pc = "queued"
    OBVIOUS
  <2>1. chain'[i] = chain[i + 1] /\ i + 1 \in DOMAIN chain /\ i + 1 # 1
    BY <1>1, <1>4
  <2>2. chain[i + 1] \in Callers /\ chain[i + 1] # c /\ call[chain[i + 1]].pc = "queued"
    BY <1>1, <2>1
  <2> QED
    BY <1>6, <2>1, <2>2
<1>8. FsMemTypeOK'
  BY <1>2, <1>3, <1>4, <1>6 DEF FsMemTypeOK
<1>9. ChainFollows'
  <2>1. ASSUME NEW d \in Callers
        PROVE  call'[d].pc = "idle" <=> \A i \in DOMAIN chain' : chain'[i] # d
    <3>1. CASE d = c
      BY <1>4, <1>6, <1>7, <3>1 DEF NoCall
    <3>2. CASE d # c
      <4>1. call[d].pc = "idle" <=> \A i \in DOMAIN chain : chain[i] # d
        BY <1>2 DEF ChainFollows
      <4>2. \A i \in 1 .. n : i # 1 => i - 1 \in 1 .. n - 1 /\ (i - 1) + 1 = i
        BY <1>1
      <4>3. (\A i \in DOMAIN chain : chain[i] # d) <=> \A i \in DOMAIN chain' : chain'[i] # d
        <5>1. ASSUME \A i \in DOMAIN chain : chain[i] # d, NEW i \in DOMAIN chain'
              PROVE  chain'[i] # d
          BY <1>1, <1>4, <5>1
        <5>2. ASSUME \A i \in DOMAIN chain' : chain'[i] # d, NEW i \in DOMAIN chain
              PROVE  chain[i] # d
          <6>1. CASE i = 1
            BY <1>1, <3>2, <6>1
          <6>2. CASE i # 1
            <7>1. i - 1 \in DOMAIN chain' /\ chain'[i - 1] = chain[i]
              BY <1>1, <1>4, <4>2, <6>2
            <7> QED
              BY <5>2, <7>1
          <6> QED
            BY <6>1, <6>2
        <5> QED
          BY <5>1, <5>2
      <4> QED
        BY <1>6, <3>2, <4>1, <4>3
    <3> QED
      BY <3>1, <3>2
  <2>2. ASSUME NEW i \in DOMAIN chain', NEW j \in DOMAIN chain', chain'[i] = chain'[j]
        PROVE  i = j
    <3>1. i + 1 \in DOMAIN chain /\ j + 1 \in DOMAIN chain /\ chain[i + 1] = chain[j + 1]
      BY <1>1, <1>4, <2>2
    <3>2. i + 1 = j + 1
      BY <1>2, <3>1 DEF ChainFollows
    <3>3. i \in Int /\ j \in Int
      BY <1>4
    <3> QED
      BY <3>2, <3>3
  <2>3. \A i \in DOMAIN chain' : call'[chain'[i]].pc = "queued"
    BY <1>4, <1>7
  <2> QED
    BY <2>1, <2>2, <2>3 DEF ChainFollows
<1>10. GivenInOrder'
  <2>1. \A i \in DOMAIN chain :
          /\ call[chain[i]].op = "append" => call[chain[i]].entry \in 1 .. given
          /\ call[chain[i]].op = "append" /\ call[chain[i]].pc \in Holding =>
               \A e \in Covered(window) \cup Covered(jsonl) : e < call[chain[i]].entry
    BY <1>2 DEF GivenInOrder
  <2>2. \A i, j \in DOMAIN chain :
          i < j /\ call[chain[i]].op = "append" /\ call[chain[j]].op = "append"
              => call[chain[i]].entry < call[chain[j]].entry
    BY <1>2 DEF GivenInOrder
  <2>3. \A i \in DOMAIN chain' :
          /\ call'[chain'[i]].op = "append" => call'[chain'[i]].entry \in 1 .. given
          /\ call'[chain'[i]].op = "append" /\ call'[chain'[i]].pc \in Holding =>
               \A e \in Covered(window') \cup Covered(jsonl') : e < call'[chain'[i]].entry
    <3> SUFFICES ASSUME NEW i \in DOMAIN chain'
        PROVE  /\ call'[chain'[i]].op = "append" => call'[chain'[i]].entry \in 1 .. given
               /\ call'[chain'[i]].op = "append" /\ call'[chain'[i]].pc \in Holding =>
                    \A e \in Covered(window') \cup Covered(jsonl') : e < call'[chain'[i]].entry
      OBVIOUS
    <3>1. i + 1 \in DOMAIN chain /\ call'[chain'[i]] = call[chain[i + 1]]
      BY <1>1, <1>4, <1>7
    <3> QED
      BY <1>3, <2>1, <3>1
  <2>4. ASSUME NEW i \in DOMAIN chain', NEW j \in DOMAIN chain', i < j,
               call'[chain'[i]].op = "append", call'[chain'[j]].op = "append"
        PROVE  call'[chain'[i]].entry < call'[chain'[j]].entry
    <3>1. i + 1 \in DOMAIN chain /\ j + 1 \in DOMAIN chain /\ i + 1 < j + 1
      BY <1>1, <1>4, <2>4
    <3>2. call'[chain'[i]] = call[chain[i + 1]] /\ call'[chain'[j]] = call[chain[j + 1]]
      BY <1>4, <1>7
    <3> QED
      BY <2>2, <2>4, <3>1, <3>2
  <2> QED
    BY <1>3, <2>3, <2>4 DEF GivenInOrder, Covered, Holding
<1>11. Served'.pc \in {"idle", "queued"}
  <2>1. CASE chain' = <<>>
    BY <2>1 DEF Served, NoCall
  <2>2. CASE chain' # <<>>
    <3>1. 1 \in DOMAIN chain' /\ Head(chain') = chain'[1]
      <4> DEFINE v == chain'
      <4>1. v \in Seq(Callers) /\ v # <<>>
        BY <1>4, <2>2
      <4> HIDE DEF v
      <4>2. Head(v) = v[1] /\ Len(v) \in Nat \ {0} /\ DOMAIN v = 1 .. Len(v)
        BY <4>1, EmptySeq, LenProperties
      <4>3. 1 \in DOMAIN v
        BY <4>2
      <4> QED
        BY <4>2, <4>3 DEF v
    <3>2. Served' = call'[chain'[1]]
      BY <2>2, <3>1 DEF Served
    <3> QED
      BY <1>4, <1>7, <3>1, <3>2
  <2> QED
    BY <2>1, <2>2
<1>12. ~ hydrated => window = <<>>
  BY <1>2 DEF FileFollows
<1>13. FileFollows'
  <2>1. hydrated' => Covered(jsonl') = Covered(window')
    BY <1>3
  <2>2. ~ hydrated' => window' = <<>>
    BY <1>3, <1>12
  <2> QED
    BY <1>11, <2>1, <2>2 DEF FileFollows, Holding, Covered
<1>14. SnapshotFollows'
  <2>1. \A d \in Callers : call'[d].pc \in {"idle", "queued"}
    BY <1>1, <1>6 DEF NoCall
  <2> QED
    BY <2>1 DEF SnapshotFollows, CompressPcs
<1>15. LogsFollow'
  BY <1>2, <1>3 DEF LogsFollow, Archived, Roomy, Plain
<1>16. NothingForgotten'
  BY <1>3 DEF NothingForgotten, Covered
<1>17. OnceInOrder'
  BY <1>2, <1>3 DEF OnceInOrder, InOrder
<1> QED
  BY <1>8, <1>9, <1>10, <1>13, <1>14, <1>15, <1>16, <1>17 DEF FsMemIInv

(* An append that returns has its entry on disk.                             *)
LEMMA ReturnsKeeps ==
  ASSUME MemoryBoundsAssumption, FsMemIInv, NEW c \in Callers, Returns(c)
  PROVE  FsMemIInv'
<1>1. /\ Turn(c) /\ call[c].pc = "end" /\ Settle(c)
      /\ stored' = IF call[c].op = "append" THEN stored \cup {call[c].entry} ELSE stored
      /\ memVars' = memVars /\ jsonl' = jsonl /\ given' = given /\ deaths' = deaths
  BY DEF Returns, Doing
<1>2. Served = call[c] /\ 1 \in DOMAIN chain /\ chain[1] = c
  BY <1>1, FirstInChain
<1>3. /\ coldLog \cup trimmed \cup stored \subseteq 1 .. given
      /\ stored \subseteq Covered(jsonl) /\ FileFollows
  BY AsItWas
<1>4. /\ hydrated => Covered(jsonl) = Covered(window)
      /\ call[c].op = "append" => call[c].entry \in Covered(jsonl)
  BY <1>1, <1>2, <1>3 DEF FileFollows, Holding
<1>5. call[c].op = "append" => call[c].entry \in 1 .. given
  BY <1>2 DEF FsMemIInv, GivenInOrder
<1>6. stored' \subseteq Covered(jsonl) /\ stored' \subseteq 1 .. given
  BY <1>1, <1>3, <1>4, <1>5
<1> QED
  BY <1>1, <1>4, <1>6, SettlesWell

(* One that rejects leaves everything as it is.                              *)
LEMMA WriteRejectsKeeps ==
  ASSUME MemoryBoundsAssumption, FsMemIInv, NEW c \in Callers, WriteRejects(c)
  PROVE  FsMemIInv'
<1>1. /\ Turn(c) /\ call[c].pc \in {"write", "archive", "rewrite"} /\ Settle(c)
      /\ memVars' = memVars /\ jsonl' = jsonl /\ given' = given /\ stored' = stored /\ deaths' = deaths
  BY DEF WriteRejects
<1>2. Served = call[c]
  BY <1>1, FirstInChain
<1>3. /\ coldLog \cup trimmed \cup stored \subseteq 1 .. given
      /\ stored \subseteq Covered(jsonl) /\ FileFollows
  BY AsItWas
<1>4. hydrated => Covered(jsonl) = Covered(window)
  BY <1>1, <1>2, <1>3 DEF FileFollows
<1> QED
  BY <1>1, <1>3, <1>4, SettlesWell

-----------------------------------------------------------------------------
(* A new call is the last of the chain, and its entry the latest given.      *)
LEMMA InvokeKeeps ==
  ASSUME MemoryBoundsAssumption, FsMemIInv, NEW c \in Callers,
         NEW op \in {"load", "append", "compress", "trim", "clear"}, Invoke(c, op)
  PROVE  FsMemIInv'
<1> DEFINE n == Len(chain)
           e == IF op = "append" THEN given + 1 ELSE 0
           r == [op |-> op, pc |-> "queued", from |-> <<>>, entry |-> e]
<1>1. /\ call[c].pc = "idle" /\ (op = "append" => given < MaxEntries)
      /\ given' = IF op = "append" THEN given + 1 ELSE given
      /\ call' = [call EXCEPT ![c] = r] /\ chain' = Append(chain, c)
      /\ window' = window /\ hydrated' = hydrated /\ coldLog' = coldLog /\ trimmed' = trimmed
      /\ jsonl' = jsonl /\ stored' = stored /\ deaths' = deaths
  BY DEF Invoke, memVars
<1>2. /\ FsMemTypeOK /\ ChainFollows /\ GivenInOrder /\ FileFollows
      /\ SnapshotFollows /\ LogsFollow /\ NothingForgotten /\ OnceInOrder
  BY DEF FsMemIInv
<1>3. /\ given \in Nat /\ given' \in 0 .. MaxEntries /\ given <= given'
      /\ e \in 0 .. MaxEntries /\ (op = "append" => e = given + 1 /\ given' = given + 1)
  BY <1>1, <1>2 DEF FsMemTypeOK, MemoryBoundsAssumption
<1>4. /\ r \in Calls /\ r.pc = "queued" /\ r.op = op /\ r.entry = e
  <2>1. <<>> \in Seq(LogEntries)
    OBVIOUS
  <2> HIDE DEF e
  <2> QED
    BY <1>3, <2>1 DEF Calls
<1> HIDE DEF r, e
<1>5. /\ call' \in [Callers -> Calls] /\ call'[c] = r
      /\ \A d \in Callers : d # c => call'[d] = call[d]
  BY <1>1, <1>2, <1>4 DEF FsMemTypeOK
<1>6. chain \in Seq(Callers) /\ DOMAIN chain = 1 .. n /\ n \in Nat
  BY <1>2, LenProperties DEF FsMemTypeOK
<1>7. /\ chain' \in Seq(Callers) /\ DOMAIN chain' = 1 .. n + 1 /\ chain'[n + 1] = c
      /\ \A i \in 1 .. n : chain'[i] = chain[i]
  <2>1. /\ Append(chain, c) \in Seq(Callers) /\ Len(Append(chain, c)) = n + 1
        /\ Append(chain, c)[n + 1] = c
        /\ \A i \in 1 .. n : Append(chain, c)[i] = chain[i]
    BY <1>6, AppendProperties
  <2>2. DOMAIN Append(chain, c) = 1 .. n + 1
    BY <2>1, LenProperties
  <2> HIDE DEF n
  <2> QED
    BY <1>1, <2>1, <2>2
<1> HIDE DEF n
<1>8. \A i \in 1 .. n : /\ chain[i] \in Callers /\ chain[i] # c /\ chain'[i] = chain[i]
                        /\ call'[chain'[i]] = call[chain[i]]
  <2>1. \A i \in 1 .. n : chain[i] \in Callers
    BY <1>6, ElementOfSeq
  <2>2. \A i \in 1 .. n : chain[i] # c
    BY <1>1, <1>2, <1>6 DEF ChainFollows
  <2> QED
    BY <1>5, <1>7, <2>1, <2>2
<1>9. \A i \in DOMAIN chain' : i \in 1 .. n \/ i = n + 1
  BY <1>6, <1>7
<1>10. FsMemTypeOK'
  <2>1. Covered(window) \cup Covered(jsonl) \cup coldLog \cup stored \cup trimmed \subseteq 1 .. given'
    <3>1. 1 .. given \subseteq 1 .. given'
      BY <1>3
    <3> QED
      BY <1>2, <3>1 DEF FsMemTypeOK
  <2> QED
    BY <1>1, <1>2, <1>3, <1>5, <1>7, <2>1 DEF FsMemTypeOK, Covered
<1>11. ChainFollows'
  <2>1. ASSUME NEW d \in Callers
        PROVE  call'[d].pc = "idle" <=> \A i \in DOMAIN chain' : chain'[i] # d
    <3>1. CASE d = c
      <4>1. n + 1 \in DOMAIN chain'
        BY <1>6, <1>7
      <4> QED
        BY <1>4, <1>5, <1>7, <3>1, <4>1
    <3>2. CASE d # c
      <4>1. call[d].pc = "idle" <=> \A i \in 1 .. n : chain[i] # d
        BY <1>2, <1>6 DEF ChainFollows
      <4>2. (\A i \in 1 .. n : chain[i] # d) <=> \A i \in DOMAIN chain' : chain'[i] # d
        <5>1. 1 .. n \subseteq DOMAIN chain'
          BY <1>6, <1>7
        <5> QED
          BY <1>7, <1>9, <3>2, <5>1
      <4> QED
        BY <1>5, <3>2, <4>1, <4>2
    <3> QED
      BY <3>1, <3>2
  <2>2. ASSUME NEW i \in DOMAIN chain', NEW j \in DOMAIN chain', chain'[i] = chain'[j]
        PROVE  i = j
    <3>1. CASE i \in 1 .. n /\ j \in 1 .. n
      BY <1>2, <1>6, <1>7, <2>2, <3>1 DEF ChainFollows
    <3>2. CASE i = n + 1 \/ j = n + 1
      BY <1>7, <1>8, <1>9, <2>2, <3>2
    <3> QED
      BY <1>9, <3>1, <3>2
  <2>3. ASSUME NEW i \in DOMAIN chain', i > 1 PROVE call'[chain'[i]].pc = "queued"
    <3>1. CASE i \in 1 .. n
      BY <1>2, <1>6, <1>8, <2>3, <3>1 DEF ChainFollows
    <3>2. CASE i = n + 1
      BY <1>4, <1>5, <1>7, <3>2
    <3> QED
      BY <1>9, <3>1, <3>2
  <2> QED
    BY <2>1, <2>2, <2>3 DEF ChainFollows
<1>12. GivenInOrder'
  <2>1. \A i \in 1 .. n :
          /\ call[chain[i]].op = "append" => call[chain[i]].entry \in 1 .. given
          /\ call[chain[i]].op = "append" /\ call[chain[i]].pc \in Holding =>
               \A f \in Covered(window) \cup Covered(jsonl) : f < call[chain[i]].entry
    BY <1>2, <1>6 DEF GivenInOrder
  <2>2. \A i, j \in 1 .. n :
          i < j /\ call[chain[i]].op = "append" /\ call[chain[j]].op = "append"
              => call[chain[i]].entry < call[chain[j]].entry
    BY <1>2, <1>6 DEF GivenInOrder
  <2>3. op = "append" => \A f \in 1 .. given : f < e /\ f \in 1 .. given'
    BY <1>3
  <2>4. Covered(window) \cup Covered(jsonl) \subseteq 1 .. given
    BY <1>2 DEF FsMemTypeOK
  <2>5. ASSUME NEW i \in DOMAIN chain', call'[chain'[i]].op = "append"
        PROVE  /\ call'[chain'[i]].entry \in 1 .. given'
               /\ call'[chain'[i]].pc \in Holding =>
                    \A f \in Covered(window) \cup Covered(jsonl) : f < call'[chain'[i]].entry
    <3>1. CASE i \in 1 .. n
      <4>1. 1 .. given \subseteq 1 .. given'
        BY <1>3
      <4> QED
        BY <1>8, <2>1, <2>5, <3>1, <4>1
    <3>2. CASE i = n + 1
      <4>1. call'[chain'[i]] = r /\ op = "append"
        BY <1>4, <1>5, <1>7, <2>5, <3>2
      <4>2. e \in 1 .. given'
        BY <1>3, <4>1
      <4> QED
        BY <1>4, <2>3, <2>4, <4>1, <4>2
    <3> QED
      BY <1>9, <3>1, <3>2
  <2>6. ASSUME NEW i \in DOMAIN chain', NEW j \in DOMAIN chain', i < j,
               call'[chain'[i]].op = "append", call'[chain'[j]].op = "append"
        PROVE  call'[chain'[i]].entry < call'[chain'[j]].entry
    <3>1. i \in 1 .. n
      BY <1>6, <1>7, <2>6
    <3>2. CASE j \in 1 .. n
      BY <1>8, <2>2, <2>6, <3>1, <3>2
    <3>3. CASE j = n + 1
      <4>1. call'[chain'[j]] = r /\ op = "append"
        BY <1>4, <1>5, <1>7, <2>6, <3>3
      <4>2. call'[chain'[i]].entry \in 1 .. given
        BY <1>8, <2>1, <2>6, <3>1
      <4> QED
        BY <1>4, <2>3, <4>1, <4>2
    <3> QED
      BY <1>9, <3>2, <3>3
  <2>7. /\ Covered(window') = Covered(window) /\ Covered(jsonl') = Covered(jsonl)
    BY <1>1
  <2> QED
    BY <2>5, <2>6, <2>7 DEF GivenInOrder
<1>13. FileFollows'
  <2>1. CASE chain = <<>>
    <3>1. Served.pc = "idle"
      BY <2>1 DEF Served, NoCall
    <3>2. n = 0
      BY <2>1 DEF n
    <3>3. Served' = r
      <4> DEFINE v == chain'
      <4>1. v \in Seq(Callers) /\ v # <<>> /\ v[1] = c
        BY <1>7, <3>2
      <4> HIDE DEF v
      <4>2. Head(v) = c
        BY <4>1
      <4> QED
        BY <1>5, <4>1, <4>2 DEF v, Served
    <3> QED
      <4>1. /\ Covered(window') = Covered(window) /\ Covered(jsonl') = Covered(jsonl)
            /\ Served'.pc = "queued" /\ window' = window /\ hydrated' = hydrated
        BY <1>1, <1>4, <3>3
      <4>2. /\ ~ hydrated => window = <<>>
            /\ hydrated => Covered(jsonl) = Covered(window)
        BY <1>2, <3>1 DEF FileFollows
      <4> QED
        BY <4>1, <4>2 DEF FileFollows, Holding
  <2>2. CASE chain # <<>>
    <3>1. n \in Nat \ {0}
      BY <1>6, <2>2, EmptySeq DEF n
    <3>2. Served' = Served
      <4> DEFINE v == chain'
      <4>1. v \in Seq(Callers) /\ v # <<>> /\ v[1] = chain[1] /\ Head(chain) = chain[1]
        BY <1>6, <1>7, <2>2, <3>1
      <4> HIDE DEF v
      <4>2. Head(v) = chain[1]
        BY <4>1
      <4>3. call'[chain[1]] = call[chain[1]]
        BY <1>8, <3>1
      <4> QED
        BY <2>2, <4>1, <4>2, <4>3 DEF v, Served
    <3> QED
      <4>1. /\ Covered(window') = Covered(window) /\ Covered(jsonl') = Covered(jsonl)
            /\ window' = window /\ hydrated' = hydrated /\ stored' = stored
        BY <1>1
      <4> QED
        BY <1>2, <3>2, <4>1 DEF FileFollows, Holding
  <2> QED
    BY <2>1, <2>2
<1>14. SnapshotFollows'
  <2>1. "queued" \notin CompressPcs
    BY DEF CompressPcs
  <2>2. ASSUME NEW d \in Callers, call'[d].pc \in CompressPcs PROVE d # c /\ call'[d] = call[d]
    BY <1>4, <1>5, <2>1, <2>2
  <2> QED
    BY <1>1, <1>2, <2>2 DEF SnapshotFollows, Verbatim, Plain, CompressPcs
<1>15. LogsFollow'
  BY <1>1, <1>2 DEF LogsFollow, Archived, Roomy, Plain
<1>16. NothingForgotten'
  <2>1. chain' # <<>>
    <3>1. n + 1 \in DOMAIN chain'
      BY <1>6, <1>7
    <3> QED
      BY <3>1
  <2> QED
    BY <1>1, <1>2, <2>1 DEF NothingForgotten, Covered
<1>17. OnceInOrder'
  BY <1>1, <1>2 DEF OnceInOrder, InOrder
<1> QED
  BY <1>10, <1>11, <1>12, <1>13, <1>14, <1>15, <1>16, <1>17 DEF FsMemIInv

(* After a death nobody calls, the session is not read, and the file is what *)
(* it was.                                                                   *)
LEMMA ProcessDiesKeeps ==
  ASSUME MemoryBoundsAssumption, FsMemIInv, ProcessDies
  PROVE  FsMemIInv'
<1>1. /\ deaths < MaxDeaths /\ deaths' = deaths + 1
      /\ window' = <<>> /\ hydrated' = FALSE
      /\ chain' = <<>> /\ call' = [c \in Callers |-> NoCall]
      /\ jsonl' = jsonl /\ coldLog' = coldLog /\ trimmed' = trimmed
      /\ given' = given /\ stored' = stored
  BY DEF ProcessDies
<1>2. /\ FsMemTypeOK /\ LogsFollow /\ NothingForgotten /\ OnceInOrder
  BY DEF FsMemIInv
<1>3. /\ <<>> \in Seq(LogEntries) /\ Covered(<<>>) = {}
      /\ Roomy(<<>>) /\ InOrder(<<>>) /\ Archived(<<>>)
  BY NoLog
<1>4. Covered(window') = {} /\ Covered(jsonl') = Covered(jsonl)
  BY <1>1, <1>3
<1>5. NoCall \in Calls /\ NoCall.pc = "idle"
  <2>1. 0 \in 0 .. MaxEntries
    BY DEF MemoryBoundsAssumption
  <2> QED
    BY <1>3, <2>1 DEF NoCall, Calls
<1>6. FsMemTypeOK'
  <2>1. deaths' \in 0 .. MaxDeaths
    BY <1>1, <1>2 DEF FsMemTypeOK, MemoryBoundsAssumption
  <2>2. call' \in [Callers -> Calls] /\ chain' \in Seq(Callers)
    BY <1>1, <1>5
  <2>3. Covered(window') \cup Covered(jsonl') \cup coldLog \cup stored \cup trimmed \subseteq 1 .. given
    BY <1>2, <1>4 DEF FsMemTypeOK
  <2> QED
    BY <1>1, <1>2, <1>3, <2>1, <2>2, <2>3 DEF FsMemTypeOK
<1>7. Served' = NoCall
  BY <1>1 DEF Served
<1>8. ChainFollows' /\ GivenInOrder'
  BY <1>1, <1>5 DEF ChainFollows, GivenInOrder
<1>9. FileFollows'
  BY <1>1, <1>5, <1>7 DEF FileFollows, Holding
<1>10. SnapshotFollows'
  BY <1>1, <1>5 DEF SnapshotFollows, CompressPcs
<1>11. LogsFollow'
  <2>1. Archived(jsonl)' /\ Roomy(jsonl)'
    BY <1>1, <1>2 DEF LogsFollow, Archived, Roomy, Plain
  <2>2. Archived(window)' /\ Roomy(window)'
    BY <1>1, <1>3 DEF Archived, Roomy, Plain
  <2> QED
    BY <2>1, <2>2 DEF LogsFollow, Archived, Roomy
<1>12. NothingForgotten'
  BY <1>1, <1>2 DEF NothingForgotten, Covered
<1>13. OnceInOrder'
  BY <1>1, <1>2, <1>3 DEF OnceInOrder
<1> QED
  BY <1>6, <1>8, <1>9, <1>10, <1>11, <1>12, <1>13 DEF FsMemIInv

(* A session nobody has called for.                                          *)
LEMMA MemoryStartsWell ==
  ASSUME MemoryBoundsAssumption, FsMemInit
  PROVE  FsMemIInv
<1>1. /\ <<>> \in Seq(LogEntries) /\ Covered(<<>>) = {}
      /\ Roomy(<<>>) /\ InOrder(<<>>) /\ Archived(<<>>)
  BY NoLog
<1>2. NoCall \in Calls /\ NoCall.pc = "idle"
  <2>1. 0 \in 0 .. MaxEntries
    BY DEF MemoryBoundsAssumption
  <2> QED
    BY <1>1, <2>1 DEF NoCall, Calls
<1>3. FsMemTypeOK
  <2>1. 0 \in 0 .. MaxEntries /\ 0 \in 0 .. MaxDeaths
    BY DEF MemoryBoundsAssumption
  <2>2. chain \in Seq(Callers) /\ call \in [Callers -> Calls]
    BY <1>2 DEF FsMemInit
  <2>3. Covered(window) = {} /\ Covered(jsonl) = {}
    BY <1>1 DEF FsMemInit
  <2> QED
    BY <1>1, <2>1, <2>2, <2>3 DEF FsMemInit, FsMemTypeOK
<1>4. Served = NoCall
  BY DEF FsMemInit, Served
<1>5. ChainFollows /\ GivenInOrder
  BY <1>2 DEF FsMemInit, ChainFollows, GivenInOrder
<1>6. FileFollows
  BY <1>2, <1>4 DEF FsMemInit, FileFollows, Holding
<1>7. SnapshotFollows
  BY <1>2 DEF FsMemInit, SnapshotFollows, CompressPcs
<1>8. LogsFollow
  BY <1>1 DEF FsMemInit, LogsFollow
<1>9. NothingForgotten /\ OnceInOrder
  BY <1>1 DEF FsMemInit, NothingForgotten, OnceInOrder
<1> QED
  BY <1>3, <1>5, <1>6, <1>7, <1>8, <1>9 DEF FsMemIInv

(* A step of something else.                                                 *)
LEMMA MemoryRests ==
  ASSUME FsMemIInv, UNCHANGED fsMemVars
  PROVE  FsMemIInv'
<1>1. /\ window' = window /\ hydrated' = hydrated /\ coldLog' = coldLog /\ trimmed' = trimmed
      /\ jsonl' = jsonl /\ chain' = chain /\ call' = call /\ given' = given
      /\ stored' = stored /\ deaths' = deaths
  BY DEF fsMemVars, memVars, callVars
<1>2. Served' = Served
  BY <1>1 DEF Served
<1>3. FsMemTypeOK' /\ ChainFollows' /\ GivenInOrder'
  BY <1>1 DEF FsMemIInv, FsMemTypeOK, ChainFollows, GivenInOrder, Covered
<1>4. FileFollows'
  <2>1. Covered(window') = Covered(window) /\ Covered(jsonl') = Covered(jsonl)
    BY <1>1
  <2> QED
    BY <1>1, <1>2, <2>1 DEF FsMemIInv, FileFollows, Holding
<1>5. SnapshotFollows' /\ LogsFollow'
  BY <1>1 DEF FsMemIInv, SnapshotFollows, Verbatim, Plain, LogsFollow, Archived, Roomy
<1>6. NothingForgotten' /\ OnceInOrder'
  BY <1>1 DEF FsMemIInv, NothingForgotten, Covered, OnceInOrder, InOrder
<1> QED
  BY <1>3, <1>4, <1>5, <1>6 DEF FsMemIInv

-----------------------------------------------------------------------------
(* Every step of the operations of a session, and every death of the         *)
(* process, keeps the invariant of the memory.                               *)
THEOREM MemoryInvariant ==
  ASSUME MemoryBoundsAssumption
  PROVE  FsMemSpec => []FsMemIInv
<1>1. FsMemInit => FsMemIInv
  BY MemoryStartsWell
<1>2. FsMemIInv /\ [FsMemNext]_fsMemVars => FsMemIInv'
  <2> SUFFICES ASSUME FsMemIInv, [FsMemNext]_fsMemVars PROVE FsMemIInv'
    OBVIOUS
  <2>1. ASSUME NEW c \in Callers, CallStep(c) PROVE FsMemIInv'
    <3>1. CASE Starts(c)
      BY <3>1, StartsKeeps
    <3>2. CASE ReadFile(c)
      BY <3>2, ReadFileKeeps
    <3>3. CASE WriteLine(c)
      BY <3>3, WriteLineKeeps
    <3>4. CASE Inject(c)
      BY <3>4, InjectKeeps
    <3>5. CASE ArchiveSource(c)
      BY <3>5, ArchiveSourceKeeps
    <3>6. CASE SummaryArrives(c)
      BY <3>6, SummaryArrivesKeeps
    <3>7. CASE Trim(c)
      BY <3>7, TrimKeeps
    <3>8. CASE Rewrite(c)
      BY <3>8, RewriteKeeps
    <3>9. CASE ClearWindow(c)
      BY <3>9, ClearWindowKeeps
    <3>10. CASE RemoveFile(c)
      BY <3>10, RemoveFileKeeps
    <3>11. CASE Returns(c)
      BY <3>11, ReturnsKeeps
    <3>12. CASE WriteRejects(c)
      BY <3>12, WriteRejectsKeeps
    <3> QED
      BY <2>1, <3>1, <3>2, <3>3, <3>4, <3>5, <3>6, <3>7, <3>8, <3>9, <3>10, <3>11, <3>12
         DEF CallStep
  <2>2. ASSUME NEW c \in Callers, NEW op \in {"load", "append", "compress", "trim", "clear"},
               Invoke(c, op)
        PROVE  FsMemIInv'
    BY <2>2, InvokeKeeps
  <2>3. CASE ProcessDies
    BY <2>3, ProcessDiesKeeps
  <2>4. CASE UNCHANGED fsMemVars
    BY <2>4, MemoryRests
  <2> QED
    BY <2>1, <2>2, <2>3, <2>4 DEF FsMemNext
<1> QED
  BY <1>1, <1>2, PTL DEF FsMemSpec

(* The variables of the memory keep their types.                             *)
THEOREM MemoryTypes ==
  ASSUME MemoryBoundsAssumption
  PROVE  FsMemSpec => []FsMemTypeOK
<1>1. FsMemIInv => FsMemTypeOK
  BY DEF FsMemIInv
<1> QED
  BY <1>1, MemoryInvariant, PTL

(* Whatever append has returned for is on disk at every moment the process   *)
(* may die, and in the window when nobody is at work.                        *)
THEOREM NothingIsForgotten ==
  ASSUME MemoryBoundsAssumption
  PROVE  FsMemSpec => []NothingForgotten
<1>1. FsMemIInv => NothingForgotten
  BY DEF FsMemIInv
<1> QED
  BY <1>1, MemoryInvariant, PTL

(* No entry comes twice, and entries stay in the order they were given in,   *)
(* in the window and in the file, through compressions, rewrites, deaths and *)
(* rejected writes.                                                          *)
THEOREM EntriesOnceInOrder ==
  ASSUME MemoryBoundsAssumption
  PROVE  FsMemSpec => []OnceInOrder
<1>1. FsMemIInv => OnceInOrder
  BY DEF FsMemIInv
<1> QED
  BY <1>1, MemoryInvariant, PTL

(* What a summary of the file stands for is in the cold archive, unless      *)
(* trim() took it away.                                                      *)
THEOREM SummariesAreArchived ==
  ASSUME MemoryBoundsAssumption
  PROVE  FsMemSpec => []SummarisedIsArchived
<1>1. FsMemIInv => SummarisedIsArchived
  BY DEF FsMemIInv, LogsFollow, Archived, SummarisedIsArchived
<1> QED
  BY <1>1, MemoryInvariant, PTL
=============================================================================
