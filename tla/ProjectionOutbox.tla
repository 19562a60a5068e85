-------------------------- MODULE ProjectionOutbox --------------------------
(***************************************************************************)
(* The projection outbox of the file-system memory (packages/extensions/   *)
(* src/memory/projection-outbox.ts), the worker that drains it             *)
(* (projection-worker.ts, projection-projector.ts) and the archive() of    *)
(* fs-memory-system.ts that fills it, for one session.                     *)
(*                                                                         *)
(* Two actors share one outbox: archive() enqueues the session's entries   *)
(* and then drains the outbox with a worker of its own, and the host's     *)
(* background worker drains it at every tick of its timer.  The index in   *)
(* memory is changed at once and the file is rewritten after it; the       *)
(* process may die between the two, and a host may be started again.       *)
(*                                                                         *)
(* Abstractions: a ref is an entry of the session; the time stamps are     *)
(* reduced to whether a retrying record is stale; the dead letter file is  *)
(* left out.  Assumed: the flushes of a session do not overlap.  Nothing   *)
(* in the code sees to that, and both write the same temporary file.       *)
(***************************************************************************)
EXTENDS Naturals, FiniteSets

CONSTANTS
    NRefs,              \* entries of the session, in the order they were appended
    MaxAttempts,        \* maxAttempts of the outbox
    MaxArchives,        \* bound: calls of archive()
    MaxBadRefs,         \* bound: refs whose embedding may fail
    MaxStops            \* bound: times the process stops or dies

NRefsAssumption == NRefs \in Nat
AttemptsAssumption == MaxAttempts \in Nat \ {0}
OutboxBoundsAssumption == {MaxArchives, MaxBadRefs, MaxStops} \subseteq Nat
OutboxAssumption == NRefsAssumption /\ AttemptsAssumption /\ OutboxBoundsAssumption

Refs == 1 .. NRefs
Actors == {"archive", "timer"}
NoRecord == [st |-> "none", tries |-> 0]
EmptyIndex == [r \in Refs |-> NoRecord]
Records == [st : {"none", "pending", "retrying", "indexed", "failed", "dead"},
            tries : 0 .. MaxAttempts]

VARIABLES
    up,                 \* the host process runs
    index,              \* cache.get(sessionId)
    indexFile,          \* <dir>/<sessionId>.jsonl
    flushing,           \* the actor that awaits flush(), or "none"
    actor,              \* where each actor is, what its loop has left, its batch
    aged,               \* refs retrying for longer than staleAfterMs
    recovered,          \* archive() has run recover() in this process
    timerOn,            \* the background worker is started
    opened,           \* the in-memory memory system has the session's entries
    onDisk,             \* entries in the session's memory file
    vectors,            \* refs the vector index holds
    embedFailed,        \* refs whose embedding or upsert failed
    acked,              \* refs whose enqueue has returned
    archives, stops     \* calls and deaths so far

recVars == <<index, indexFile, flushing, aged>>
hostVars == <<up, timerOn, stops, opened, onDisk>>
tallyVars == <<vectors, embedFailed, acked, recovered, archives>>
outboxVars == <<recVars, hostVars, tallyVars, actor>>

Idle == [pc |-> "idle", left |-> {}, batch |-> {}]

OutboxTypeOK ==
    /\ {index, indexFile} \subseteq [Refs -> Records]
    /\ flushing \in Actors \cup {"none"}
    /\ actor \in [Actors -> [pc : {"idle", "first", "enqueue", "recover", "list", "mark",
                                   "project", "settle", "failing"},
                             left : SUBSET Refs, batch : SUBSET Refs]]
    /\ {aged, onDisk, acked} \subseteq SUBSET Refs
    /\ up \/ (flushing = "none" /\ \A a \in Actors : actor[a] = Idle)
    /\ \A a \in Actors : actor[a].left \subseteq actor[a].batch
    /\ archives \in 0 .. MaxArchives /\ stops \in 0 .. MaxStops

OutboxInit ==
    /\ up = TRUE /\ timerOn = TRUE
    /\ index = EmptyIndex /\ indexFile = EmptyIndex /\ flushing = "none"
    /\ actor = [a \in Actors |-> Idle]
    /\ opened = TRUE /\ onDisk = Refs
    /\ aged = {} /\ vectors = {} /\ embedFailed = {} /\ acked = {}
    /\ recovered = FALSE /\ archives = 0 /\ stops = 0

-----------------------------------------------------------------------------
(* The actor is at pc and does not wait for its own flush.                   *)
At(a, pc) == up /\ actor[a].pc = pc /\ flushing # a

Goto(a, pc, refs) == actor' = [actor EXCEPT ![a] = [pc |-> pc, left |-> refs, batch |-> refs]]

(* One round of a loop; after the last one the actor goes on at next.        *)
Advance(a, r, next, batch) ==
    IF actor[a].left = {r} THEN Goto(a, next, batch)
    ELSE actor' = [actor EXCEPT ![a].left = @ \ {r}]

(* The loops walk the map of the index, in the order of its entries.         *)
First(a, r) == r \in actor[a].left /\ \A q \in actor[a].left : r <= q

(* The window of the in-memory memory system, where loadEntry looks.         *)
Window == IF opened THEN onDisk ELSE {}

(* Mutant: the file is rewritten in place.                                   *)
ChangeInPlace(a, m) ==
    /\ flushing = "none" /\ flushing' = a
    /\ index' = m
    /\ indexFile' = EmptyIndex

(* The index changes at once; flush() writes it to a temporary file ...      *)
Change(a, m) ==
    /\ flushing = "none" /\ flushing' = a
    /\ index' = m
    /\ UNCHANGED indexFile
NoChange == UNCHANGED <<index, indexFile, flushing>>

(* ... and renames that.                                                     *)
FlushEnds(a) ==
    /\ flushing = a
    /\ flushing' = "none"
    /\ indexFile' = index
    /\ UNCHANGED <<index, aged, hostVars, tallyVars, actor>>

-----------------------------------------------------------------------------
(* archive(): recover once per process, then enqueue every entry of the      *)
(* window, then drain, unless the caller does not wait for the projection.   *)
StartArchive ==
    /\ At("archive", "idle") /\ Window # {}
    /\ archives < MaxArchives /\ archives' = archives + 1
    /\ Goto("archive", IF recovered THEN "enqueue" ELSE "first", Window)
    /\ recovered' = TRUE
    /\ UNCHANGED <<recVars, hostVars, vectors, embedFailed, acked>>

Enqueue(r) ==
    /\ At("archive", "enqueue") /\ First("archive", r)
    /\ actor' = [actor EXCEPT !["archive"].left = @ \ {r}]
    /\ IF index[r].st = "indexed" THEN NoChange
       ELSE Change("archive", [index EXCEPT ![r].st = "pending"])
    /\ UNCHANGED <<aged, hostVars, tallyVars>>

(* Mutant: the loop does not wait for the flush of the last entry.           *)
EnqueuedUnflushed ==
    /\ up /\ actor["archive"].pc = "enqueue" /\ actor["archive"].left = {}
    /\ acked' = acked \cup actor["archive"].batch
    /\ Goto("archive", "recover", {})
    /\ UNCHANGED <<recVars, hostVars, vectors, embedFailed, recovered, archives>>

Enqueued ==
    /\ At("archive", "enqueue") /\ actor["archive"].left = {}
    /\ acked' = acked \cup actor["archive"].batch
    /\ \E next \in {"recover", "idle"} : Goto("archive", next, {})
    /\ UNCHANGED <<recVars, hostVars, vectors, embedFailed, recovered, archives>>

(* The background worker's timer; flush() returns at once while one runs.    *)
TimerTick ==
    /\ At("timer", "idle") /\ timerOn
    /\ \E r \in Refs : index[r].st \in {"pending", "failed"} \/ r \in aged
    /\ Goto("timer", "recover", {})
    /\ UNCHANGED <<recVars, hostVars, tallyVars>>

(* recover() resets what has been retrying for too long, ...                 *)
Reset(stale) == [r \in Refs |-> IF r \in stale THEN [index[r] EXCEPT !.st = "pending"]
                                ELSE index[r]]

(* Mutant: a record that was left retrying is not looked at again.           *)
StaleNone == {}

Stale == {r \in aged : index[r].st = "retrying"}

Recover(a) ==
    /\ \/ At(a, "recover") /\ Goto(a, "list", {})
       \/ At(a, "first") /\ actor' = [actor EXCEPT ![a].pc = "enqueue"]
    /\ IF Stale = {} THEN NoChange ELSE Change(a, Reset(Stale))
    /\ aged' = {}
    /\ UNCHANGED <<hostVars, tallyVars>>

(* ... and listPending takes what is pending or failed.                      *)
ListPending(a) ==
    /\ At(a, "list")
    /\ LET batch == {r \in Refs : index[r].st \in {"pending", "failed"}} IN
         Goto(a, IF batch = {} THEN "idle" ELSE "mark", batch)
    /\ UNCHANGED <<recVars, hostVars, tallyVars>>

(* Mutant: the records are marked indexed before the vectors are written.    *)
MarkRetryingSettles(a, r) ==
    /\ At(a, "mark") /\ First(a, r)
    /\ Advance(a, r, "settle", actor[a].batch)
    /\ Change(a, [index EXCEPT ![r].st = "retrying"])
    /\ aged' = aged \ {r}
    /\ UNCHANGED <<hostVars, tallyVars>>

MarkRetrying(a, r) ==
    /\ At(a, "mark") /\ First(a, r)
    /\ Advance(a, r, "project", actor[a].batch)
    /\ IF index[r] = NoRecord THEN NoChange
       ELSE Change(a, [index EXCEPT ![r].st = "retrying"])
    /\ aged' = aged \ {r}
    /\ UNCHANGED <<hostVars, tallyVars>>

(* projectMemoryRefs: look the entry up in the window, embed it, upsert the  *)
(* vector.  One that throws makes the whole batch fail.                      *)
Throws(a) == Goto(a, "failing", actor[a].batch)

ProjectRef(a, r) ==
    /\ At(a, "project") /\ First(a, r) /\ r \in Window
    /\ a = "timer" => timerOn
    /\ \/ /\ vectors' = vectors \cup {r}
          /\ Advance(a, r, "settle", actor[a].batch) /\ UNCHANGED embedFailed
       \/ /\ embedFailed' = embedFailed \cup {r}
          /\ Cardinality(embedFailed') <= MaxBadRefs
          /\ Throws(a) /\ UNCHANGED vectors
    /\ UNCHANGED <<recVars, hostVars, acked, recovered, archives>>

ProjectThrows(a, r) ==
    /\ At(a, "project") /\ First(a, r)
    /\ r \notin Window \/ (a = "timer" /\ ~ timerOn)
    /\ Throws(a)
    /\ UNCHANGED <<recVars, hostVars, tallyVars>>

MarkIndexed(a, r) ==
    /\ At(a, "settle") /\ First(a, r)
    /\ Advance(a, r, "idle", {})
    /\ Change(a, [index EXCEPT ![r].st = "indexed"])
    /\ UNCHANGED <<aged, hostVars, tallyVars>>

(* Mutant: attempts are not counted.                                         *)
NextTriesNone(n) == n

NextTries(n) == IF n < MaxAttempts THEN n + 1 ELSE n

MarkFailed(a, r) ==
    /\ At(a, "failing") /\ First(a, r)
    /\ Advance(a, r, "idle", {})
    /\ LET n == NextTries(index[r].tries) IN
         Change(a, [index EXCEPT ![r] =
                      [st |-> IF n = MaxAttempts THEN "dead" ELSE "failed", tries |-> n]])
    /\ UNCHANGED <<aged, hostVars, tallyVars>>

-----------------------------------------------------------------------------
(* Five minutes pass over records that no batch at work holds.               *)
GrowOld ==
    /\ \A a \in Actors : At(a, "idle")
    /\ aged # {r \in Refs : index[r].st = "retrying"}
    /\ aged' = {r \in Refs : index[r].st = "retrying"}
    /\ UNCHANGED <<index, indexFile, flushing, hostVars, tallyVars, actor>>

(* The window is compressed: its oldest entry goes and the memory file is    *)
(* rewritten.                                                                *)
CompressAway ==
    /\ up /\ 1 \in Window
    /\ onDisk' = onDisk \ {1}
    /\ UNCHANGED <<recVars, tallyVars, actor, up, timerOn, stops, opened>>

(* The session is opened again: its memory file is read.                     *)
Hydrate ==
    /\ up /\ ~ opened
    /\ opened' = TRUE
    /\ UNCHANGED <<recVars, tallyVars, actor, up, timerOn, stops, onDisk>>

StopWorker ==
    /\ up /\ timerOn
    /\ timerOn' = FALSE
    /\ stops < MaxStops /\ stops' = stops + 1
    /\ UNCHANGED <<recVars, tallyVars, actor, up, opened, onDisk>>

Dies ==
    /\ up
    /\ IF timerOn THEN stops < MaxStops /\ stops' = stops + 1 ELSE UNCHANGED stops
    /\ up' = FALSE
    /\ index' = EmptyIndex /\ flushing' = "none"
    /\ actor' = [a \in Actors |-> Idle]
    /\ opened' = FALSE /\ recovered' = FALSE
    /\ UNCHANGED <<indexFile, aged, timerOn, onDisk, vectors, embedFailed, acked, archives>>

(* `tachu memory rebuild`, run while no host does: what is on disk and not   *)
(* in the outbox is enqueued.                                                *)
Rebuild ==
    /\ ~ up
    /\ \E r \in onDisk : indexFile[r] = NoRecord
    /\ indexFile' = [r \in Refs |-> IF r \in onDisk /\ indexFile[r] = NoRecord
                                    THEN [st |-> "pending", tries |-> 0] ELSE indexFile[r]]
    /\ UNCHANGED <<index, flushing, aged, hostVars, tallyVars, actor>>

Restart ==
    /\ ~ up
    /\ up' = TRUE /\ timerOn' = TRUE
    /\ index' = indexFile
    /\ UNCHANGED <<indexFile, flushing, aged, tallyVars, actor, stops, opened, onDisk>>

WorkerStep(a) ==
    \/ Recover(a) \/ ListPending(a)
    \/ \E r \in Refs : \/ MarkRetrying(a, r) \/ ProjectRef(a, r) \/ ProjectThrows(a, r)
                       \/ MarkIndexed(a, r) \/ MarkFailed(a, r)

ActorStep(a) ==
    \/ FlushEnds(a) \/ WorkerStep(a)
    \/ a = "archive" /\ (Enqueued \/ \E r \in Refs : Enqueue(r))

OutboxNext ==
    \/ \E a \in Actors : ActorStep(a)
    \/ StartArchive \/ TimerTick \/ GrowOld \/ Hydrate \/ StopWorker
    \/ CompressAway
    \/ Dies \/ Rebuild \/ Restart

(* File operations, embeddings and the timer's ticks come to an end, time    *)
(* passes, and a host is started again.                                      *)
OutboxFairness ==
    /\ \A a \in Actors : WF_outboxVars(ActorStep(a))
    /\ WF_outboxVars(TimerTick) /\ WF_outboxVars(GrowOld) /\ WF_outboxVars(Restart)

OutboxSpec == OutboxInit /\ [][OutboxNext]_outboxVars /\ OutboxFairness

-----------------------------------------------------------------------------
(* An entry whose enqueue has returned is on disk from then on, whatever     *)
(* dies when.                                                                *)
AckedIsDurable == \A r \in acked : indexFile[r] # NoRecord

(* A record says indexed only when the vector index has the entry, on disk   *)
(* and in memory, also after a restart in the middle of a batch.             *)
IndexedIsSearchable ==
    \A r \in Refs : "indexed" \in {indexFile[r].st, index[r].st} => r \in vectors

(* No flush, and no death in the middle of one, takes a record off the disk. *)
RecordsStay == \A r \in Refs : indexFile[r] # NoRecord => indexFile'[r] # NoRecord

-----------------------------------------------------------------------------
(* What the proofs are by induction on.  While nobody flushes the file is    *)
(* the index, and only archive() brings records that the file has not.       *)
Recorded(m) == {r \in Refs : m[r] # NoRecord}

DiskFollows ==
    up => /\ flushing = "none" => indexFile = index
          /\ Recorded(indexFile) \subseteq Recorded(index)
          /\ flushing # "archive" => Recorded(indexFile) = Recorded(index)

(* What an actor works on has records; what archive() has enqueued will have *)
(* them on disk when its flush is over.                                      *)
BatchesRecorded ==
    /\ \A a \in Actors : actor[a].pc \in {"mark", "project", "settle", "failing"} =>
          actor[a].batch \subseteq Recorded(index)
    /\ actor["archive"].pc = "first" => actor["archive"].left = actor["archive"].batch
    /\ actor["archive"].pc = "enqueue" =>
          actor["archive"].batch \ actor["archive"].left
             \subseteq Recorded(IF flushing = "archive" THEN index ELSE indexFile)
    /\ actor["timer"].pc \notin {"first", "enqueue"}

(* What an actor is about to mark as indexed has its vector.                 *)
BatchesProjected == \A a \in Actors :
    /\ actor[a].pc = "project" => actor[a].batch \ actor[a].left \subseteq vectors
    /\ actor[a].pc = "settle" => actor[a].batch \subseteq vectors

OutboxIInv ==
    /\ OutboxTypeOK /\ DiskFollows /\ BatchesRecorded /\ BatchesProjected
    /\ AckedIsDurable /\ IndexedIsSearchable

-----------------------------------------------------------------------------
(* While the background worker runs, an enqueued entry is indexed or given   *)
(* up in the end: a record left retrying by a death, a rejected flush or an  *)
(* aborted batch is found again.                                             *)
Drained(r) == ~ timerOn \/ (up /\ index[r].st \in {"indexed", "dead"})
OutboxDrains == \A r \in Refs : r \in acked ~> Drained(r)

(* An entry that is still in the session's memory file is given up only      *)
(* after its own projection failed.  projection-outbox.ts:22 promises real   *)
(* crash recovery; memory-rebuild.ts:15 leaves the projection of what it     *)
(* enqueues to the worker.                                                   *)
GivenUpForAReason ==
    \A r \in onDisk : indexFile[r].st = "dead" => r \in embedFailed
=============================================================================
