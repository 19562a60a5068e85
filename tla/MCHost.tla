-------------------------------- MODULE MCHost --------------------------------
(* The parts of the CLI host, for TLC.  They do not wait for each other: every *)
(* behaviour is of one of them, `part`, and the others stay as they start.     *)
EXTENDS Naturals, FiniteSets, Sequences, SequencesExt

CONSTANTS NRefs, MaxAttempts, MaxArchives, MaxBadRefs, MaxStops
CONSTANTS Callers, MaxEntries, MaxTokens, HeadKeep, TailKeep, MaxDeaths
CONSTANTS Requests, AnyPath, MaxRecords, MaxCommands, MaxWriteErrors
CONSTANTS MaxTurns, MaxSessions, MaxQuestions
CONSTANTS McpCalls, MaxReconnects, MaxBreaks, MaxPrompts
CONSTANTS Invocations, NLegacy
CONSTANTS Loaders, MaxPromptLines
CONSTANT MaxRequests

VARIABLES
    part,
    up, index, indexFile, flushing, actor, aged, recovered, timerOn, opened, onDisk,
    vectors, embedFailed, acked, archives, stops,
    window, hydrated, jsonl, coldLog, chain, call, given, stored, trimmed, deaths,
    project, user, ask, decision, issued, granted, raced, revoked, command, commands,
    writeErrors,
    ui, turn, running, controller, current, budget, saved, open, slot, reader, sigints,
    recent, overlapped,
    mounting, gated, link, client, manual, retry, mcpCall, registry, active, released,
    breaks, prompts,
    file, history, proc, exit, noImage,
    stage, held, loads, checked, items, next, seen, config, executors, groups, activeGroups,
    matched, lines,
    arrays, wins, live, ops, said, requests, cold, pushed, exposed, unlogged

Outbox == INSTANCE ProjectionOutbox
Memory == INSTANCE FsMemory
Approval == INSTANCE Approvals
ChatLoop == INSTANCE Chat
Mcp == INSTANCE McpServer
Sessions == INSTANCE SessionFiles
Windows == INSTANCE WindowMemory WITH
    Trims <- {<<0, 0>>, <<0, 1>>}, MaxEntries <- MaxEntries + 1
Shortening == INSTANCE Compaction

(* Files: versions that are stable and not, a chain and a cycle of requirements,    *)
(* one that is refused, one whose kind is contradicted.                            *)
File(kind, name, version, requires) ==
    [kind |-> kind, type |-> "none", execute |-> IF kind = "tool" THEN "string" ELSE "none",
     schema |-> FALSE, persona |-> FALSE, name |-> <<name>>, described |-> TRUE,
     wellNamed |-> TRUE, activation |-> "none", effect |-> "none", version |-> version,
     requires |-> requires, untold |-> FALSE]
FileA == File("tool", "a", 1, {})
FileA2 == File("tool", "a", 2, {})
FileAOld == [File("tool", "a", 3, {}) EXCEPT !.untold = TRUE]
FileB == File("skill", "b", 0, {<<"tool", <<"a">>>>})
FileC == File("agent", "c", 1, {<<"skill", <<"b">>>>, <<"rule", <<"d">>>>})
FileD == File("rule", "d", 0, {<<"agent", <<"c">>>>})
FileX == [File("skill", "a", 0, {}) EXCEPT !.execute = "string"]
FileR == File("tool", "kept", 0, {})
FileBad == [FileB EXCEPT !.activation = "other"]
MCDirectories ==
    {<<FileA, FileB>>, <<FileB, FileA2>>, <<FileA, FileBad>>, <<FileC, FileD>>, <<FileX>>, <<FileB>>,
     <<FileA2, FileAOld>>, <<FileR>>}

(* The start of the CLI: what the user has, then what is built in.                  *)
Mine(f) == [file |-> f, builtin |-> FALSE]
Builtin(f) == [file |-> f, builtin |-> TRUE]
MCStarts ==
    {mine \o theirs :
        mine \in {<<>>, <<Mine(FileBad)>>, <<Mine(FileA)>>, <<Mine(FileBad), Mine(FileB)>>,
                  <<Mine(FileB), Mine(FileA), Mine(FileA2)>>, <<Mine(FileX), Mine(FileA)>>},
        theirs \in {<<Builtin(FileD), Builtin(FileA)>>,
                    <<Builtin(FileA), Builtin(FileA2), Builtin(FileB)>>}}

(* MCP servers: two whose ids and tools make up one name, gated and not.            *)
Server(id, tools, allow, deny, gate) ==
    [id |-> id, tools |-> tools, allow |-> allow, deny |-> deny, gated |-> gate]
MCServerLists ==
    {<<Server(<<"s">>, {<<"t", "u">>, <<"v">>}, {}, deny, one),
       Server(<<"s", "t">>, {<<"u">>, <<"w">>, <<"x">>}, allow, {}, two)>> :
        deny \in {{}, {<<"v">>}}, allow \in {{}, {<<"u">>, <<"w">>}},
        one \in BOOLEAN, two \in BOOLEAN}
      \cup {<<>>}

Registry == INSTANCE Registration WITH
    Directories <- MCDirectories, Starts <- MCStarts, ServerLists <- MCServerLists,
    Prereleases <- {2}, ReservedNames <- {<<"kept">>}

(* Every frontmatter of one name.                                                  *)
Frontmatters ==
    [kind : {"none", "rule", "skill", "tool", "agent", "other"},
     type : {"none", "rule", "preference"}, execute : {"none", "string", "other"},
     schema : BOOLEAN, persona : BOOLEAN, name : {<<"a">>}, described : BOOLEAN,
     wellNamed : {TRUE}, activation : {"none", "always", "path", "pathless", "other"},
     effect : {"none", "readonly", "irreversible", "other"}, version : {0}, requires : {{}},
     untold : {FALSE}]

ASSUME HostAssumption ==
    /\ Outbox!OutboxAssumption
    /\ Memory!MemoryBoundsAssumption
    /\ Approval!AnyPathAssumption /\ Approval!ApprovalBoundsAssumption
    /\ ChatLoop!ChatBoundsAssumption /\ Mcp!McpBoundsAssumption
    /\ Sessions!NLegacyAssumption

theOutbox == <<up, index, indexFile, flushing, actor, aged, recovered, timerOn, opened,
               onDisk, vectors, embedFailed, acked, archives, stops>>
theMemory == <<window, hydrated, jsonl, coldLog, chain, call, given, stored, trimmed, deaths>>
theApprovals == <<project, user, ask, decision, issued, granted, raced, revoked, command,
                  commands, writeErrors>>
theChat == <<ui, turn, running, controller, current, budget, saved, open, slot, reader,
             sigints, recent, overlapped>>
theMcp == <<mounting, gated, link, client, manual, retry, mcpCall, registry, active,
            released, breaks, prompts>>
theSessions == <<file, history, proc, exit, noImage>>
theRegistry == <<stage, held, loads, checked, items, next, seen, config, executors, groups,
                 activeGroups, matched, lines>>
theWindows == <<arrays, wins, live, ops, said, requests, cold, pushed, exposed, unlogged>>
hostVars == <<part, theOutbox, theMemory, theApprovals, theChat, theMcp, theSessions,
              theRegistry, theWindows>>

HostInit ==
    /\ part \in {"outbox", "memory", "approvals", "chat", "mcp", "sessions", "registry",
                "windows"}
    /\ Outbox!OutboxInit /\ Memory!FsMemInit /\ Approval!ApprovalInit
    /\ ChatLoop!ChatInit /\ Mcp!McpInit /\ Sessions!SessionFilesInit /\ Windows!WindowInit
    /\ Registry!RegInit /\ (part # "registry" => stage = "core")

OutboxStep ==
    /\ part = "outbox" /\ Outbox!OutboxNext
    /\ UNCHANGED <<part, theMemory, theApprovals, theChat, theMcp, theSessions,
                   theRegistry, theWindows>>
MemoryStep ==
    /\ part = "memory" /\ Memory!FsMemNext
    /\ UNCHANGED <<part, theOutbox, theApprovals, theChat, theMcp, theSessions,
                   theRegistry, theWindows>>
ApprovalStep ==
    /\ part = "approvals" /\ Approval!ApprovalNext
    /\ UNCHANGED <<part, theOutbox, theMemory, theChat, theMcp, theSessions,
                   theRegistry, theWindows>>
ChatStep ==
    /\ part = "chat" /\ ChatLoop!ChatNext
    /\ UNCHANGED <<part, theOutbox, theMemory, theApprovals, theMcp, theSessions,
                   theRegistry, theWindows>>
McpStep ==
    /\ part = "mcp" /\ Mcp!McpNext
    /\ UNCHANGED <<part, theOutbox, theMemory, theApprovals, theChat, theSessions,
                   theRegistry, theWindows>>
SessionsStep ==
    /\ part = "sessions" /\ Sessions!SessionFilesNext
    /\ UNCHANGED <<part, theOutbox, theMemory, theApprovals, theChat, theMcp,
                   theRegistry, theWindows>>
RegistryStep ==
    /\ part = "registry" /\ Registry!RegNext
    /\ UNCHANGED <<part, theOutbox, theMemory, theApprovals, theChat, theMcp,
                   theSessions, theWindows>>
WindowsStep ==
    /\ part = "windows" /\ Windows!WindowNext
    /\ UNCHANGED <<part, theOutbox, theMemory, theApprovals, theChat, theMcp,
                   theSessions, theRegistry>>

HostNext ==
    \/ OutboxStep \/ MemoryStep \/ ApprovalStep \/ ChatStep \/ McpStep \/ SessionsStep
    \/ RegistryStep \/ WindowsStep

(* The fairness of each part.                                                  *)
HostFairness ==
    /\ \A a \in Outbox!Actors : WF_theOutbox(part = "outbox" /\ Outbox!ActorStep(a))
    /\ WF_theOutbox(part = "outbox" /\ Outbox!TimerTick)
    /\ WF_theOutbox(part = "outbox" /\ Outbox!GrowOld)
    /\ WF_theOutbox(part = "outbox" /\ Outbox!Restart)
    /\ \A c \in Callers : WF_theMemory(part = "memory" /\ Memory!CallStep(c))
    /\ \A q \in Requests : WF_theApprovals(part = "approvals" /\ Approval!PromptTimesOut(q))
    /\ WF_theChat(part = "chat" /\ ChatLoop!AskForLine)
    /\ \A t \in ChatLoop!Turns : WF_theChat(part = "chat" /\ ChatLoop!TurnOver(t))
    /\ WF_theMcp(part = "mcp" /\ Mcp!MountStep)
    /\ WF_theMcp(part = "mcp" /\ Mcp!RetryStep)
    /\ \A c \in McpCalls : WF_theMcp(part = "mcp" /\ Mcp!CallTimesOut(c))

HostSpec == HostInit /\ [][HostNext]_hostVars /\ HostFairness

(* The types of the parts, and the invariants the proofs are by induction on.  *)
HostTypeOK ==
    /\ Outbox!OutboxIInv /\ Memory!FsMemIInv /\ Approval!ApprovalIInv
    /\ ChatLoop!ChatTypeOK /\ Mcp!McpTypeOK /\ Sessions!SessionFilesTypeOK
    /\ Registry!RegTypeOK /\ Windows!WindowTypeOK

(* What the host keeps on disk.                                                *)
HostStorage ==
    /\ Outbox!AckedIsDurable /\ Outbox!IndexedIsSearchable
    /\ Memory!NothingForgotten /\ Memory!SummarisedIsArchived /\ Memory!OnceInOrder
    /\ Approval!RevokedStaysRevoked
    /\ Sessions!MigratedOnce /\ Sessions!CreditKept
    /\ Windows!WindowSound
    /\ part = "windows" /\ requests = 0 /\ said = 0 => Shortening!CompactionSound(6, 0 .. 3)

(* The descriptors it has; what a file says is of no state and looked at in one.  *)
DescriptorsSound ==
    /\ Registry!RegistrationSound
    /\ part = "registry" /\ stage = "core" /\ (\A l \in Loaders : loads[l].pc = "idle")
          => Registry!ReadsAgree(Frontmatters)

(* What it does in a session at the terminal.                                  *)
HostAtWork ==
    /\ DescriptorsSound
    /\ ChatLoop!CreditedOnce /\ Mcp!WaitsOnTheLink /\ Mcp!VisibleAsMatched

(* No step loses an approval that nobody removes, or takes a record of the     *)
(* outbox off the disk.                                                        *)
HostStepOK == [][Approval!RemovedStep /\ Outbox!RecordsStay]_hostVars

(* What waits in the part, and when it no longer does: OutboxDrains,           *)
(* CallsSettle, StdinPromptReturns, InputReturns, McpSettles in one formula.   *)
Nth(S, n) == SetToSeq(S)[n]

Waiting(n) ==
    \/ part = "outbox" /\ n \in acked
    \/ part = "memory" /\ Memory!UnderWay(Nth(Callers, n))
    \/ part = "approvals" /\ Approval!AskedOnStdin(Nth(Requests, n))
    \/ part = "chat" /\ n = 1 /\ ChatLoop!Busy
    \/ part = "mcp" /\ IF n = 1 THEN Mcp!CallsPending ELSE Mcp!Reconnecting

Served(n) ==
    \/ part = "outbox" /\ Outbox!Drained(n)
    \/ part = "memory" /\ ~ Memory!UnderWay(Nth(Callers, n))
    \/ part = "approvals" /\ ~ Approval!AskedOnStdin(Nth(Requests, n))
    \/ part = "chat" /\ ~ ChatLoop!Busy
    \/ part = "mcp" /\ ~ IF n = 1 THEN Mcp!CallsPending ELSE Mcp!Reconnecting

HostProgress == \A n \in 1 .. 2 : Waiting(n) ~> Served(n)

(* Checked on its own.                                                         *)
LegacyKept == Sessions!LegacyKept
===============================================================================
