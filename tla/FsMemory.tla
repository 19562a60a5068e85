------------------------------- MODULE FsMemory ------------------------------
(***************************************************************************)
(* The memory of one session: the window of InMemoryMemorySystem           *)
(* (packages/core/src/modules/memory.ts) behind FsMemorySystem             *)
(* (packages/extensions/src/memory/fs-memory-system.ts), which keeps it in *)
(* a jsonl file and runs the operations of a session one after the other   *)
(* through a chain of promises.                                            *)
(*                                                                         *)
(* Every await inside an operation is a step; the process may die at any   *)
(* of them and the session is then read back from the file.                *)
(*                                                                         *)
(* Abstractions: those of Compaction; every entry is one token; what a     *)
(* provider sums up and what the fallback does are the same; a line is     *)
(* written whole or not at all.                                            *)
(* Assumed: the unserialised readers (getSize, loadFull) run when nothing  *)
(* else does, as the CLI and the engine call them.                         *)
(***************************************************************************)
EXTENDS Compaction, SequencesExt

CONSTANTS
    Callers,            \* who may have an operation of the session under way
    MaxEntries,         \* bound: entries appended
    MaxTokens,          \* limit * compressionThreshold
    HeadKeep, TailKeep, \* config.memory
    MaxDeaths           \* bound: times the process dies

MemoryBoundsAssumption ==
    {MaxEntries, MaxTokens, HeadKeep, TailKeep, MaxDeaths} \subseteq Nat

VARIABLES
    window,             \* inner.windows.get(sessionId).entries
    hydrated,           \* this.hydrated.has(sessionId)
    jsonl,              \* the session's file
    coldLog,            \* entries written to config.memory.archivePath
    chain,              \* this.pending: the callers in the order they called
    call,               \* the operation of each caller and where it is
    given,              \* entries handed to append
    stored,             \* entries whose append has returned, since the last clear
    trimmed,            \* entries trim() took out of the window
    deaths              \* deaths so far

memVars == <<window, hydrated, coldLog, trimmed>>
callVars == <<chain, call, given, stored, deaths>>
fsMemVars == <<memVars, jsonl, callVars>>

NoCall == [op |-> "none", pc |-> "idle", entry |-> 0, from |-> <<>>]

LogEntries == [covers : SUBSET (1 .. MaxEntries), anchored : BOOLEAN]
CompressPcs == {"hydrateCompress", "injectCompress", "compress"}
Calls == [op : {"none", "load", "append", "compress", "trim", "clear"},
          pc : {"idle", "queued", "read", "hydrateArchive", "write", "inject", "injectArchive",
                "archive", "trim", "rewrite", "remove", "end"} \cup CompressPcs,
          entry : 0 .. MaxEntries, from : Seq(LogEntries)]

FsMemTypeOK ==
    /\ window \in Seq(LogEntries) /\ jsonl \in Seq(LogEntries)
    /\ hydrated \in BOOLEAN /\ given \in 0 .. MaxEntries /\ deaths \in 0 .. MaxDeaths
    /\ Covered(window) \cup Covered(jsonl) \cup coldLog \cup stored \cup trimmed \subseteq 1 .. given
    /\ chain \in Seq(Callers) /\ call \in [Callers -> Calls]

FsMemInit ==
    /\ window = <<>> /\ hydrated = FALSE /\ jsonl = <<>> /\ coldLog = {} /\ trimmed = {}
    /\ chain = <<>> /\ call = [c \in Callers |-> NoCall]
    /\ given = 0 /\ stored = {} /\ deaths = 0

-----------------------------------------------------------------------------
(* compressEntries.                                                          *)
Compressed(log) == IF Short(log, HeadKeep, TailKeep) THEN log
                   ELSE HeadMiddleTail(log, HeadKeep, TailKeep)

OverThreshold(log) == Len(log) > MaxTokens

(* Mutant: operations do not wait for each other.                            *)
AnyTurn(c) == call[c].pc # "idle"

(* serialize(): an operation runs when those before it have settled.         *)
Turn(c) == chain # <<>> /\ Head(chain) = c

Doing(c, pc) == Turn(c) /\ call[c].pc = pc
GoesTo(c, pc) == call' = [call EXCEPT ![c].pc = pc]
Settle(c) == call' = [call EXCEPT ![c] = NoCall] /\ chain' = Tail(chain)

(* A caller calls; calls that would change nothing now are left out.         *)
Invoke(c, op) ==
    /\ call[c].pc = "idle"
    /\ op = "append" => given < MaxEntries
    /\ op = "load" => ~ hydrated
    /\ op \in {"compress", "trim"} => ~ Short(window, HeadKeep, TailKeep)
    /\ op = "clear" => jsonl # <<>>
    /\ given' = IF op = "append" THEN given + 1 ELSE given
    /\ call' = [call EXCEPT ![c] = [op |-> op, pc |-> "queued", from |-> <<>>,
                                    entry |-> IF op = "append" THEN given + 1 ELSE 0]]
    /\ chain' = Append(chain, c)
    /\ UNCHANGED <<memVars, jsonl, stored, deaths>>

(* Where an operation goes on once the window is there.                      *)
Main(c) ==
    CASE call[c].op = "append" -> "write"
      [] call[c].op = "compress" -> "archive"
      [] call[c].op = "trim" -> "trim"
      [] OTHER -> "end"

(* The operation starts: hydrateIfNeeded, or clear.                          *)
Starts(c) ==
    /\ Doing(c, "queued") /\ call[c].op # "clear"
    /\ hydrated' = TRUE
    /\ GoesTo(c, IF hydrated THEN Main(c) ELSE "read")
    /\ UNCHANGED <<window, coldLog, trimmed, jsonl, chain, given, stored, deaths>>

(* inner.hydrate with what the file holds; one compression if it is much.    *)
ReadFile(c) ==
    /\ Doing(c, "read")
    /\ window' = window \o jsonl
    /\ GoesTo(c, IF OverThreshold(window') THEN "hydrateArchive" ELSE Main(c))
    /\ UNCHANGED <<hydrated, coldLog, trimmed, jsonl, chain, given, stored, deaths>>

(* Mutant: the entry is kept in memory before it is on disk.                 *)
WriteLineLast(c) ==
    /\ Doing(c, "write")
    /\ GoesTo(c, "inject")
    /\ UNCHANGED <<memVars, jsonl, chain, given, stored, deaths>>

(* append: the line first, ...                                               *)
WriteLine(c) ==
    /\ Doing(c, "write")
    /\ jsonl' = Append(jsonl, Raw(call[c].entry))
    /\ GoesTo(c, "inject")
    /\ UNCHANGED <<memVars, chain, given, stored, deaths>>

(* ... then inner.hydrate([entry]), which compresses over the threshold.     *)
Inject(c) ==
    /\ Doing(c, "inject")
    /\ window' = Append(window, Raw(call[c].entry))
    /\ GoesTo(c, IF OverThreshold(window') THEN "injectArchive" ELSE "end")
    /\ UNCHANGED <<hydrated, coldLog, trimmed, jsonl, chain, given, stored, deaths>>

(* compress(): archiveSource writes the window to the cold archive; then the *)
(* provider is asked for a summary of what the window holds now.             *)
ArchivePcs == {"hydrateArchive", "injectArchive", "archive"}
CompressPc(pc) == CASE pc = "hydrateArchive" -> "hydrateCompress"
                    [] pc = "injectArchive" -> "injectCompress"
                    [] OTHER -> "compress"

(* Mutant: compress() does not archive.                                      *)
ArchivesNone(log) == {}

Archives(log) == Verbatim(log)

ArchiveSource(c) ==
    /\ Turn(c) /\ call[c].pc \in ArchivePcs
    /\ coldLog' = coldLog \cup Archives(window)
    /\ call' = [call EXCEPT ![c].pc = CompressPc(call[c].pc), ![c].from = window]
    /\ UNCHANGED <<window, hydrated, trimmed, jsonl, chain, given, stored, deaths>>

(* The summary is there: the window is replaced by what was computed from    *)
(* the entries taken before.  append then looks at the threshold once more.  *)
SummaryArrives(c) ==
    /\ Turn(c) /\ call[c].pc \in CompressPcs
    /\ window' = Compressed(call[c].from)
    /\ call' = [call EXCEPT ![c].from = <<>>, ![c].pc =
                  CASE @ = "hydrateCompress" -> Main(c)
                    [] @ = "injectCompress" ->
                         (IF OverThreshold(Compressed(call[c].from)) THEN "archive" ELSE "end")
                    [] OTHER -> "rewrite"]
    /\ UNCHANGED <<hydrated, coldLog, trimmed, jsonl, chain, given, stored, deaths>>

(* trim(): the same without the archive.                                     *)
Trim(c) ==
    /\ Doing(c, "trim")
    /\ window' = Compressed(window)
    /\ trimmed' = trimmed \cup UNION {window[i].covers :
                                 i \in {j \in DOMAIN window : ~ Contains(window', window[j])}}
    /\ GoesTo(c, "rewrite")
    /\ UNCHANGED <<hydrated, coldLog, jsonl, chain, given, stored, deaths>>

(* rewriteJsonl: a temporary file and a rename.                              *)
Rewrite(c) ==
    /\ Doing(c, "rewrite")
    /\ jsonl' = window
    /\ GoesTo(c, "end")
    /\ UNCHANGED <<memVars, chain, given, stored, deaths>>

(* clear(): first the window, then the file.                                 *)
ClearWindow(c) ==
    /\ Doing(c, "queued") /\ call[c].op = "clear"
    /\ hydrated' = FALSE /\ window' = <<>> /\ stored' = {}
    /\ GoesTo(c, "remove")
    /\ UNCHANGED <<coldLog, trimmed, jsonl, chain, given, deaths>>

RemoveFile(c) ==
    /\ Doing(c, "remove")
    /\ jsonl' = <<>>
    /\ GoesTo(c, "end")
    /\ UNCHANGED <<memVars, chain, given, stored, deaths>>

Returns(c) ==
    /\ Doing(c, "end")
    /\ stored' = IF call[c].op = "append" THEN stored \cup {call[c].entry} ELSE stored
    /\ Settle(c)
    /\ UNCHANGED <<memVars, jsonl, given, deaths>>

(* Mutant: a rejected operation keeps its place in the chain.                *)
WriteRejectsKeepsTurn(c) ==
    /\ Turn(c) /\ call[c].pc \in {"write", "archive", "rewrite"}
    /\ call' = [call EXCEPT ![c] = NoCall]
    /\ UNCHANGED <<memVars, jsonl, chain, given, stored, deaths>>

(* The disk is full: the operation rejects, the next one starts all the same.*)
WriteRejects(c) ==
    /\ Turn(c) /\ call[c].pc \in {"write", "archive", "rewrite"}
    /\ Settle(c)
    /\ UNCHANGED <<memVars, jsonl, given, stored, deaths>>

ProcessDies ==
    /\ deaths < MaxDeaths
    /\ deaths' = deaths + 1
    /\ window' = <<>> /\ hydrated' = FALSE
    /\ chain' = <<>> /\ call' = [c \in Callers |-> NoCall]
    /\ UNCHANGED <<jsonl, coldLog, trimmed, given, stored>>

CallStep(c) ==
    \/ Starts(c) \/ ReadFile(c) \/ WriteLine(c) \/ Inject(c)
    \/ ArchiveSource(c) \/ SummaryArrives(c) \/ Trim(c) \/ Rewrite(c)
    \/ ClearWindow(c) \/ RemoveFile(c) \/ Returns(c) \/ WriteRejects(c)

FsMemNext ==
    \/ \E c \in Callers : \/ CallStep(c)
                          \/ \E op \in {"load", "append", "compress", "trim", "clear"} : Invoke(c, op)
    \/ ProcessDies

(* File operations end, and a summary comes or the provider's timeout does.  *)
FsMemFairness == \A c \in Callers : WF_fsMemVars(CallStep(c))
FsMemSpec == FsMemInit /\ [][FsMemNext]_fsMemVars /\ FsMemFairness

-----------------------------------------------------------------------------
Clearing == \E c \in Callers : call[c].pc = "remove"

(* What append has returned for is on disk, as itself or in a summary, at    *)
(* every moment the process may die; and the window has it too whenever      *)
(* nobody is at work on a session that was read.                             *)
NothingForgotten ==
    /\ stored \subseteq Covered(jsonl)
    /\ chain = <<>> /\ hydrated => stored \subseteq Covered(window)

(* An entry that a summary of the file replaces can still be found in the    *)
(* cold archive, unless trim() took it away.                                 *)
SummarisedIsArchived ==
    \A i \in DOMAIN jsonl : jsonl[i].anchored => jsonl[i].covers \subseteq coldLog \cup trimmed

(* No entry appears twice in the conversation, neither in the window nor in  *)
(* what a restart would read, and entries stay in the order of their calls.  *)
InOrder(log) ==
    \A i, j \in DOMAIN log :
        i < j => /\ log[i].covers \cap log[j].covers = {}
                 /\ ~ log[i].anchored /\ ~ log[j].anchored =>
                      \A e \in log[i].covers, f \in log[j].covers : e < f
OnceInOrder == InOrder(window) /\ InOrder(jsonl)

(* What the proofs are by induction on.  The callers wait for each other in  *)
(* the order they called in, and so are the entries they bring.              *)
Holding == {"queued", "read", "hydrateArchive", "hydrateCompress", "write"}
ChainFollows ==
    /\ \A c \in Callers : call[c].pc = "idle" <=> \A i \in DOMAIN chain : chain[i] # c
    /\ \A i, j \in DOMAIN chain : chain[i] = chain[j] => i = j
    /\ \A i \in DOMAIN chain : i > 1 => call[chain[i]].pc = "queued"
GivenInOrder ==
    /\ \A i \in DOMAIN chain :
          LET c == chain[i]
          IN /\ call[c].op = "append" => call[c].entry \in 1 .. given
             /\ call[c].op = "append" /\ call[c].pc \in Holding =>
                  \A e \in Covered(window) \cup Covered(jsonl) : e < call[c].entry
    /\ \A i, j \in DOMAIN chain :
          i < j /\ call[chain[i]].op = "append" /\ call[chain[j]].op = "append"
              => call[chain[i]].entry < call[chain[j]].entry

(* The file covers what the window does, but for the line that was written   *)
(* before; and a session that was not read has no window.                    *)
Served == IF chain = <<>> THEN NoCall ELSE call[Head(chain)]
FileFollows ==
    /\ ~ hydrated => window = <<>> /\ Served.pc \in {"idle", "queued", "remove", "end"}
    /\ Served.pc = "read" => window = <<>>
    /\ Served.pc = "inject" =>
          /\ Covered(jsonl) = Covered(window) \cup {Served.entry}
          /\ \A e \in Covered(window) : e < Served.entry
    /\ Served.pc = "remove" => stored = {} /\ ~ hydrated /\ Served.op = "clear"
    /\ Served.pc \in {"write", "inject"} => Served.op = "append"
    /\ hydrated /\ Served.pc \notin {"read", "inject"} => Covered(jsonl) = Covered(window)
    /\ Served.pc \notin Holding \cup {"idle"} /\ Served.op = "append" => Served.entry \in Covered(jsonl)

(* Between the archive and the summary; what the summaries of the file and   *)
(* of the window stand for; and a log that has been shortened has a head and *)
(* a tail.                                                                   *)
SnapshotFollows ==
    \A c \in Callers : call[c].pc \in CompressPcs =>
        call[c].from = window /\ Verbatim(window) \subseteq coldLog
Archived(log) == \A i \in DOMAIN log : log[i].anchored => log[i].covers \subseteq coldLog \cup trimmed
Roomy(log) ==
    (\E i \in DOMAIN log : log[i].anchored) => Cardinality(Plain(log)) >= HeadKeep + TailKeep
LogsFollow == \A log \in {window, jsonl} : Archived(log) /\ Roomy(log)

FsMemIInv ==
    /\ FsMemTypeOK /\ ChainFollows /\ GivenInOrder /\ FileFollows
    /\ SnapshotFollows /\ LogsFollow /\ NothingForgotten /\ OnceInOrder

(* Every call returns or rejects, whoever failed before it.                  *)
UnderWay(c) == call[c].pc # "idle"
CallsSettle == \A c \in Callers : UnderWay(c) ~> ~ UnderWay(c)

(* After an operation the file holds what the window holds                   *)
(* (fs-memory-system.ts:118).                                                *)
DiskIsMemory == chain = <<>> /\ hydrated => jsonl = window
=============================================================================
