------------------------------ MODULE VectorFile ------------------------------
(***************************************************************************)
(* LocalFsVectorIndexAdapter (extensions/src/vector/local-fs-index.ts):    *)
(* the vector index as one JSON file, rewritten some time after a change   *)
(* under a lock file, by the host processes of one directory.              *)
(*                                                                         *)
(* Each host reads the file once and then writes all it has.  Its writes   *)
(* form a chain of promises, and a write that rejects rejects every write  *)
(* behind it.  A lock file outlives the process that made it.              *)
(*                                                                         *)
(* Abstractions: a point is its id and which upsert gave it; the debounce  *)
(* and flush(), which no host calls, are one action; a rejected write has  *)
(* freed its lock; the thirty attempts at the lock outlast any other write *)
(* and only fail on the lock of a dead process.                            *)
(***************************************************************************)
LOCAL INSTANCE Naturals
LOCAL INSTANCE FiniteSets
LOCAL INSTANCE Sequences
LOCAL INSTANCE SequencesExt

CONSTANTS
    Processes,          \* host processes, one after or beside the other
    PointIds,
    IndexLimit,         \* options.indexLimit
    MaxUpserts,         \* bound: upserts and deletes
    MaxFaults           \* bound: deaths and failing writes

VARIABLES
    vproc,              \* each process: its entries, its timer, its chain of writes
    disk, temp,         \* the index file, and the temporary one
    lockFile,           \* who made it: "free", a process, "dead"
    upserts, faults,    \* so far
    aside               \* processes behind whose back the file was written

vectorVars == <<vproc, disk, temp, lockFile, upserts, faults, aside>>

Torn == <<[id |-> "torn", v |-> 0]>>
Down == [up |-> FALSE, loaded |-> FALSE, entries |-> <<>>, timer |-> FALSE, queue |-> 0,
         pc |-> "idle", snapshot |-> <<>>, rejected |-> FALSE, loose |-> FALSE]

VectorTypeOK ==
    /\ lockFile \in Processes \cup {"free", "dead"} /\ aside \subseteq Processes
    /\ upserts \in 0 .. MaxUpserts /\ faults \in 0 .. MaxFaults
    /\ \A p \in Processes : /\ vproc[p].pc \in {"idle", "lock", "write", "rename", "unlock"}
                            /\ vproc[p].queue \in 0 .. MaxUpserts

VectorInit ==
    /\ vproc = [p \in Processes |-> Down]
    /\ disk = <<>> /\ temp = <<>> /\ lockFile = "free"
    /\ upserts = 0 /\ faults = 0 /\ aside = {}

-----------------------------------------------------------------------------
Pc(p, pc) == vproc[p].up /\ vproc[p].pc = pc
Places(entries, id) == {i \in DOMAIN entries : entries[i].id = id}

(* entries.set(): a new id takes the place of the oldest when there is no    *)
(* room.                                                                     *)
Put(entries, point) ==
    IF Places(entries, point.id) # {}
      THEN [i \in DOMAIN entries |-> IF entries[i].id = point.id THEN point ELSE entries[i]]
    ELSE Append(IF Len(entries) >= IndexLimit THEN Tail(entries) ELSE entries, point)

Starts(p) ==
    /\ ~ vproc[p].up
    /\ vproc' = [vproc EXCEPT ![p] = [Down EXCEPT !.up = TRUE]]
    /\ UNCHANGED <<disk, temp, lockFile, upserts, faults, aside>>

(* loadFromDisk; what cannot be parsed is nothing.                           *)
LoadsFile(p) ==
    /\ vproc[p].up /\ ~ vproc[p].loaded
    /\ vproc' = [vproc EXCEPT ![p].loaded = TRUE,
                              ![p].entries = IF disk = Torn THEN <<>> ELSE disk]
    /\ aside' = aside \ {p}
    /\ UNCHANGED <<disk, temp, lockFile, upserts, faults>>

(* upsert(): if a later point of the call is invalid it throws, with this    *)
(* one in the map and no write due.                                          *)
Upsert(p, id) ==
    /\ vproc[p].loaded /\ upserts < MaxUpserts
    /\ upserts' = upserts + 1
    /\ \E valid \in BOOLEAN :
          vproc' = [vproc EXCEPT ![p].entries = Put(@, [id |-> id, v |-> upserts + 1]),
                                 ![p].timer = @ \/ valid,
                                 ![p].loose = ~ valid /\ (@ \/ ~ vproc[p].timer)]
    /\ UNCHANGED <<disk, temp, lockFile, faults, aside>>

Delete(p, id) ==
    /\ vproc[p].loaded /\ upserts < MaxUpserts
    /\ Places(vproc[p].entries, id) # {}
    /\ upserts' = upserts + 1
    /\ vproc' = [vproc EXCEPT ![p].entries = SelectSeq(@, LAMBDA point : point.id # id),
                              ![p].timer = TRUE, ![p].loose = FALSE]
    /\ UNCHANGED <<disk, temp, lockFile, faults, aside>>

(* The timer, or flush(): one more write at the end of the chain.            *)
TimerFires(p) ==
    /\ vproc[p].up /\ vproc[p].timer
    /\ vproc' = [vproc EXCEPT ![p].timer = FALSE,
                              ![p].queue = IF vproc[p].rejected THEN @ ELSE @ + 1]
    /\ UNCHANGED <<disk, temp, lockFile, upserts, faults, aside>>

PersistBegins(p) ==
    /\ Pc(p, "idle") /\ vproc[p].queue > 0 /\ ~ vproc[p].rejected
    /\ vproc' = [vproc EXCEPT ![p].pc = "lock"]
    /\ UNCHANGED <<disk, temp, lockFile, upserts, faults, aside>>

(* open(lockPath, "wx"), then the entries as they are now.                   *)
Locks(p) ==
    /\ Pc(p, "lock") /\ lockFile = "free"
    /\ lockFile' = p
    /\ temp' = Torn
    /\ vproc' = [vproc EXCEPT ![p].pc = "write", ![p].snapshot = vproc[p].entries]
    /\ UNCHANGED <<disk, upserts, faults, aside>>

Rejected(p) == [vproc EXCEPT ![p].pc = "idle", ![p].queue = 0, ![p].rejected = TRUE]

LockTimesOut(p) ==
    /\ Pc(p, "lock") /\ lockFile = "dead"
    /\ vproc' = Rejected(p)
    /\ UNCHANGED <<disk, temp, lockFile, upserts, faults, aside>>

Writes(p) ==
    /\ Pc(p, "write")
    /\ temp' = vproc[p].snapshot
    /\ vproc' = [vproc EXCEPT ![p].pc = "rename"]
    /\ UNCHANGED <<disk, lockFile, upserts, faults, aside>>

WriteFails(p) ==
    /\ Pc(p, "write") /\ faults < MaxFaults
    /\ faults' = faults + 1
    /\ lockFile' = "free"
    /\ vproc' = Rejected(p)
    /\ UNCHANGED <<disk, temp, upserts, aside>>

Renames(p) ==
    /\ Pc(p, "rename")
    /\ disk' = temp
    /\ vproc' = [vproc EXCEPT ![p].pc = "unlock"]
    /\ aside' = (aside \ {p}) \cup {q \in Processes : q # p /\ vproc[q].loaded}
    /\ UNCHANGED <<temp, lockFile, upserts, faults>>

Unlocks(p) ==
    /\ Pc(p, "unlock")
    /\ lockFile' = "free"
    /\ vproc' = [vproc EXCEPT ![p].pc = "idle", ![p].queue = @ - 1]
    /\ UNCHANGED <<disk, temp, upserts, faults, aside>>

(* The process ends, whatever it was at: no host awaits the writes due.      *)
Dies(p) ==
    /\ vproc[p].up /\ faults < MaxFaults
    /\ faults' = faults + 1
    /\ vproc' = [vproc EXCEPT ![p] = Down]
    /\ lockFile' = IF lockFile = p THEN "dead" ELSE lockFile
    /\ aside' = aside \ {p}
    /\ UNCHANGED <<disk, temp, upserts>>

PersistStep(p) ==
    \/ PersistBegins(p) \/ Locks(p) \/ LockTimesOut(p) \/ Writes(p) \/ Renames(p) \/ Unlocks(p)

VectorNext ==
    \E p \in Processes :
      \/ Starts(p) \/ LoadsFile(p) \/ TimerFires(p) \/ PersistStep(p)
      \/ WriteFails(p) \/ Dies(p)
      \/ \E id \in PointIds : Upsert(p, id) \/ Delete(p, id)

VectorSpec ==
    /\ VectorInit /\ [][VectorNext]_vectorVars
    /\ \A p \in Processes : WF_vectorVars(PersistStep(p)) /\ WF_vectorVars(TimerFires(p))

-----------------------------------------------------------------------------
Due(p) == vproc[p].timer \/ vproc[p].queue > 0

(* The file is always what one process had at one time, within its bound.    *)
FileIsASnapshot ==
    /\ disk # Torn /\ Len(disk) <= IndexLimit
    /\ \A p \in Processes : Len(vproc[p].entries) <= IndexLimit
    /\ \A i, j \in DOMAIN disk : disk[i].id = disk[j].id => i = j

(* What a process has is in the file or on its way there, unless another has *)
(* written since, a write of it was rejected, or a call that threw has left  *)
(* points behind.                                                            *)
ChangesAreDue ==
    \A p \in Processes :
      /\ vproc[p].loaded /\ ~ vproc[p].rejected /\ ~ vproc[p].loose /\ p \notin aside
           => vproc[p].entries = disk \/ Due(p)
      /\ vproc[p].rejected => faults > 0

VectorSound == FileIsASnapshot /\ ChangesAreDue

(* A write that is due is made, or the chain is rejected, or the process     *)
(* ends.                                                                     *)
WritesAreMade == \A p \in Processes : Due(p) ~> ~ Due(p)
=============================================================================
