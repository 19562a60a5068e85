------------------------------ MODULE SessionFiles ----------------------------
(***************************************************************************)
(* One session's file and its history, over several invocations of `tachu   *)
(* run` and `tachu chat` (packages/cli/src/commands/run.ts, chat.ts,        *)
(* session-store/fs-session-store.ts).  The file is an old one that still   *)
(* holds messages; chat moves them to the memory when it starts.  The       *)
(* process may be killed between any two steps.                             *)
(*                                                                          *)
(* Abstractions: one process at a time; the file's budget is the set of     *)
(* invocations credited to it; a chat has one turn (Chat.tla has the loop); *)
(* appending to the memory is atomic (FsMemory.tla has the steps).          *)
(***************************************************************************)
EXTENDS Naturals, FiniteSets, Sequences

CONSTANTS
    Invocations,        \* processes started for the session
    NLegacy             \* messages of the old file

NLegacyAssumption == NLegacy \in Nat \ {0}

VARIABLES
    file,               \* the session file: its old messages are there, credited turns
    history,            \* the memory's entries: old messages, then turns
    proc,               \* each invocation: where it is, what it read
    exit,               \* its exit code, or "none"
    noImage             \* its image could not be loaded

sessionFileVars == <<file, history, proc, exit, noImage>>

Absent == [pc |-> "off", legacy |-> FALSE, spent |-> {}, moved |-> 0, sigint |-> FALSE]
Over == {"off", "end", "killed"}

SessionFilesTypeOK ==
    /\ file.legacy \in BOOLEAN /\ file.spent \subseteq Invocations
    /\ \A p \in Invocations :
         /\ proc[p].pc \in Over \cup {"size", "append", "strip", "chat", "stream",
                                      "done", "loaded", "dispose"}
         /\ proc[p].moved \in 0 .. NLegacy /\ proc[p].spent \subseteq Invocations
    /\ Cardinality({p \in Invocations : proc[p].pc \notin Over}) <= 1
    /\ exit \in [Invocations -> {"none", "0", "1", "130"}]

SessionFilesInit ==
    /\ file = [legacy |-> TRUE, spent |-> {}]
    /\ history = <<>>
    /\ proc = [p \in Invocations |-> Absent]
    /\ exit = [p \in Invocations |-> "none"]
    /\ noImage = [p \in Invocations |-> FALSE]

At(p, pc) == proc[p].pc = pc
Move(p, pc) == proc' = [proc EXCEPT ![p].pc = pc]
Alone == \A p \in Invocations : proc[p].pc \in Over

-----------------------------------------------------------------------------
(* chat --resume, chat --session: loadAndMigrate reads the file, ...         *)
ChatStarts(p) ==
    /\ At(p, "off") /\ Alone
    /\ proc' = [proc EXCEPT ![p] = [Absent EXCEPT
                  !.pc = IF file.legacy THEN "size" ELSE "chat",
                  !.legacy = file.legacy, !.spent = file.spent]]
    /\ UNCHANGED <<file, history, exit, noImage>>

(* Mutant: the size of the memory is not looked at.                          *)
AppendsAnyway(p) ==
    /\ At(p, "size")
    /\ Move(p, "append")
    /\ UNCHANGED <<file, history, exit, noImage>>

(* ... skips the messages when the memory has entries of the session, ...    *)
ChecksSize(p) ==
    /\ At(p, "size")
    /\ Move(p, IF history = <<>> THEN "append" ELSE "strip")
    /\ UNCHANGED <<file, history, exit, noImage>>

(* ... appends them one by one, ...                                          *)
AppendsLegacy(p) ==
    /\ At(p, "append")
    /\ history' = Append(history, proc[p].moved + 1)
    /\ proc' = [proc EXCEPT ![p].moved = @ + 1,
                            ![p].pc = IF proc[p].moved + 1 = NLegacy THEN "strip" ELSE "append"]
    /\ UNCHANGED <<file, exit, noImage>>

(* ... and saves the session without them.                                   *)
Strips(p) ==
    /\ At(p, "strip")
    /\ file' = [legacy |-> FALSE, spent |-> proc[p].spent]
    /\ Move(p, "chat")
    /\ UNCHANGED <<history, exit, noImage>>

(* The turn and its credit to the session object, saved when it ends.        *)
ChatTurn(p) ==
    /\ At(p, "chat")
    /\ history' = Append(history, p)
    /\ file' = [legacy |-> FALSE, spent |-> proc[p].spent \cup {p}]
    /\ Move(p, "dispose")
    /\ UNCHANGED <<exit, noImage>>

ChatLeaves(p) ==
    /\ At(p, "chat")
    /\ Move(p, "dispose")
    /\ UNCHANGED <<file, history, exit, noImage>>

-----------------------------------------------------------------------------
(* run --session: the id is taken as it is; --resume reads the file's id.    *)
RunStarts(p) ==
    /\ At(p, "off") /\ Alone
    /\ proc' = [proc EXCEPT ![p] = [Absent EXCEPT !.pc = "stream"]]
    /\ UNCHANGED <<file, history, exit, noImage>>

(* The image cannot be read: exitCode is set, and the command returns from   *)
(* inside its try block, over the call that would use it.                    *)
RunHasNoImage(p) ==
    /\ At(p, "stream")
    /\ noImage' = [noImage EXCEPT ![p] = TRUE]
    /\ exit' = [exit EXCEPT ![p] = "0"]
    /\ Move(p, "dispose")
    /\ UNCHANGED <<file, history>>

(* The stream ends with a done chunk.                                        *)
RunDone(p) ==
    /\ At(p, "stream")
    /\ history' = Append(history, p)
    /\ Move(p, "done")
    /\ UNCHANGED <<file, exit, noImage>>

(* It ends without: an error chunk, a throw, a rejected plan, or Ctrl-C.     *)
RunFails(p) ==
    /\ At(p, "stream")
    /\ exit' \in {[exit EXCEPT ![p] = "1"], [exit EXCEPT ![p] = "130"]}
    /\ history' \in {history, Append(history, p)}
    /\ Move(p, "dispose")
    /\ UNCHANGED <<file, noImage>>

(* Ctrl-C after the done chunk, while the command goes on.                   *)
RunInterrupted(p) ==
    /\ proc[p].pc \in {"done", "loaded"} /\ ~ proc[p].sigint
    /\ proc' = [proc EXCEPT ![p].sigint = TRUE]
    /\ UNCHANGED <<file, history, exit, noImage>>

(* store.load(sessionId): the messages of an old file are dropped.           *)
RunLoads(p) ==
    /\ At(p, "done")
    /\ proc' = [proc EXCEPT ![p].pc = "loaded", ![p].spent = file.spent]
    /\ UNCHANGED <<file, history, exit, noImage>>

RunSaves(p) ==
    /\ At(p, "loaded")
    /\ file' = [legacy |-> FALSE, spent |-> proc[p].spent \cup {p}]
    /\ exit' = [exit EXCEPT ![p] = "0"]
    /\ Move(p, "dispose")
    /\ UNCHANGED <<history, noImage>>

(* Mutant: an error of the store is swallowed.                               *)
StoreFailsSilently(p) ==
    /\ proc[p].pc \in {"done", "loaded"}
    /\ exit' = [exit EXCEPT ![p] = "0"]
    /\ Move(p, "dispose")
    /\ UNCHANGED <<file, history, noImage>>

(* The store throws: reported, unless Ctrl-C came before: finalOutput is set, *)
(* so that 130 does not apply either.                                        *)
StoreFails(p) ==
    /\ proc[p].pc \in {"done", "loaded"}
    /\ exit' = [exit EXCEPT ![p] = IF proc[p].sigint THEN "0" ELSE "1"]
    /\ Move(p, "dispose")
    /\ UNCHANGED <<file, history, noImage>>

(* renderer.dispose, engine.dispose, disconnectAll                           *)
Disposes(p) ==
    /\ At(p, "dispose")
    /\ Move(p, "end")
    /\ UNCHANGED <<file, history, exit, noImage>>

Killed(p) ==
    /\ proc[p].pc \notin Over
    /\ Move(p, "killed") /\ exit' = [exit EXCEPT ![p] = "none"]
    /\ UNCHANGED <<file, history, noImage>>

SessionFilesNext ==
    \E p \in Invocations :
        \/ ChatStarts(p) \/ ChecksSize(p) \/ AppendsLegacy(p) \/ Strips(p)
        \/ ChatTurn(p) \/ ChatLeaves(p)
        \/ RunStarts(p) \/ RunHasNoImage(p) \/ RunDone(p) \/ RunFails(p)
        \/ RunInterrupted(p) \/ RunLoads(p) \/ RunSaves(p) \/ StoreFails(p)
        \/ Disposes(p) \/ Killed(p)

SessionFilesSpec == SessionFilesInit /\ [][SessionFilesNext]_sessionFileVars

-----------------------------------------------------------------------------
Moved == SelectSeq(history, LAMBDA e : e \in 1 .. NLegacy)

(* However often a start is cut short and repeated, an old message is in the *)
(* history at most once and in its order, before the turns that followed it. *)
MigratedOnce ==
    /\ Moved = [i \in 1 .. Len(Moved) |-> i]
    /\ \A i \in 1 .. Len(Moved) : history[i] = i

(* A turn credited to the file stays credited, and a run exits with 0 only   *)
(* when its turn is credited, unless its image could not be loaded or it was *)
(* interrupted while it saved.                                               *)
CreditKept ==
    \A p \in Invocations :
        exit[p] = "0" /\ ~ noImage[p] /\ ~ proc[p].sigint => p \in file.spent

(* The old messages are in the file or in the history: loadAndMigrate is     *)
(* "典型在 CLI `chat --resume` / `run --session <id>` 启动时调用一次，确保老   *)
(* 用户升级到新版本无感知恢复历史" (fs-session-store.ts:417).                  *)
LegacyKept == file.legacy \/ Len(Moved) = NLegacy
===============================================================================
