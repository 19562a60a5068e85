------------------------------ MODULE Approvals ------------------------------
(***************************************************************************)
(* Tool approvals of the CLI (packages/cli/src/approval): the callback     *)
(* that answers a tool's request from the stored approvals or by asking    *)
(* the user, the two jsonl files the approvals are stored in, and the      *)
(* `tachu approval` commands (commands/approval.ts) that edit these files  *)
(* from another process while a chat is running.                           *)
(*                                                                         *)
(* Every read and write of a file is a step of its own.                    *)
(*                                                                         *)
(* Abstractions: all requests are for one tool; each has a directory of    *)
(* its own, so a path approval matches the request it was given for; a     *)
(* file is the set of its records; records do not expire.  Assumed: one    *)
(* command runs at a time.                                                 *)
(***************************************************************************)
EXTENDS Naturals, FiniteSets

CONSTANTS
    Requests,           \* approval requests of the tool loop
    AnyPath,            \* a record that matches every call of the tool
    MaxRecords,         \* bound: approvals given
    MaxCommands,        \* bound: approval commands run
    MaxWriteErrors      \* bound: appends that fail

AnyPathAssumption == AnyPath \notin Requests
ApprovalBoundsAssumption == {MaxRecords, MaxCommands, MaxWriteErrors} \subseteq Nat

Ids == 1 .. MaxRecords
NoApproval == [id |-> 0, path |-> AnyPath]

VARIABLES
    project, user,      \* the records of the two approvals.jsonl files
    ask,                \* each request: where it is, how it asks, what it stores
    decision,           \* what the callback's promise resolved to
    issued,             \* ids given out
    granted,            \* ids whose append has returned
    raced,              \* ids appended while a command held an older copy
    revoked,            \* ids there before a command that has returned removed them
    command,            \* the running command, its position and its copy
    commands,           \* commands run so far
    writeErrors         \* appends that failed so far

fileVars == <<project, user>>
promptVars == <<ask, decision>>
commandVars == <<command, commands>>
ghostVars == <<granted, raced, revoked>>
approvalVars == <<fileVars, promptVars, commandVars, ghostVars, issued, writeErrors>>

NoCommand == [op |-> "none", pc |-> "idle", id |-> 0, copy |-> {}, known |-> {}]
NoAsk == [pc |-> "idle", mode |-> "none", record |-> NoApproval]

ApprovalRecords == [id : Ids, path : Requests \cup {AnyPath}]
Asks ==
    [pc : {"idle", "asking", "storing", "unheard", "done"}, mode : {"none", "shared", "stdin"},
     record : ApprovalRecords \cup {NoApproval}]
Commands ==
    [op : {"none", "revoke", "clear", "promote"},
     pc : {"idle", "writeProject", "readUser", "writeUser", "return", "promoteUser",
           "promoteWrite"},
     id : 0 .. MaxRecords, copy : SUBSET ApprovalRecords, known : SUBSET Ids]

ApprovalTypeOK ==
    /\ project \in SUBSET ApprovalRecords /\ user \in SUBSET ApprovalRecords
    /\ ask \in [Requests -> Asks]
    /\ decision \in [Requests -> {"open", "approve", "deny"}]
    /\ issued \in 0 .. MaxRecords /\ commands \in 0 .. MaxCommands
    /\ writeErrors \in 0 .. MaxWriteErrors
    /\ granted \cup raced \cup revoked \subseteq 1 .. issued
    /\ command \in Commands
    /\ \A q \in Requests : ask[q].pc = "done" => decision[q] # "open"

ApprovalInit ==
    /\ project = {} /\ user = {}
    /\ ask = [q \in Requests |-> NoAsk]
    /\ decision = [q \in Requests |-> "open"]
    /\ issued = 0 /\ granted = {} /\ raced = {} /\ revoked = {}
    /\ command = NoCommand /\ commands = 0 /\ writeErrors = 0

-----------------------------------------------------------------------------
(* matchesRecord                                                             *)
Matches(r, q) == r.path \in {AnyPath, q}

Decide(q, d) == decision' = [decision EXCEPT ![q] = d]
Done(q) == ask' = [ask EXCEPT ![q] = [NoAsk EXCEPT !.pc = "done"]]

(* The callback starts: store.find reads both files, ...                     *)
FindStored(q) ==
    /\ ask[q].pc = "idle"
    /\ \E r \in project \cup user : Matches(r, q)
    /\ Done(q)
    /\ Decide(q, "approve")
    /\ UNCHANGED <<fileVars, commandVars, ghostVars, issued, writeErrors>>

(* ... and nothing matches: ask through the prompter of the chat, ask on     *)
(* stdin, or deny when nobody can be asked.                                  *)
FindNothing(q) ==
    /\ ask[q].pc = "idle"
    /\ ~ \E r \in project \cup user : Matches(r, q)
    /\ \E mode \in {"shared", "stdin", "nobody"} :
         IF mode = "nobody"
           THEN /\ Done(q)
                /\ Decide(q, "deny")
           ELSE /\ ask' = [ask EXCEPT ![q].pc = "asking", ![q].mode = mode]
                /\ UNCHANGED decision
    /\ UNCHANGED <<fileVars, commandVars, ghostVars, issued, writeErrors>>

(* parseAndPersist: yes and no are decided at once.                          *)
AnswerOnce(q) ==
    /\ ask[q].pc = "asking"
    /\ \E d \in {"approve", "deny"} : Decide(q, d)
    /\ Done(q)
    /\ UNCHANGED <<fileVars, commandVars, ghostVars, issued, writeErrors>>

(* Always, this path, this session: a record is appended first.  The CLI     *)
(* builds the callback without a session id (engine-factory.ts:236), so a    *)
(* session approval is stored as one without an end.                         *)
AnswerWithRecord(q) ==
    /\ ask[q].pc = "asking" /\ issued < MaxRecords
    /\ issued' = issued + 1
    /\ \E path \in {AnyPath, q} :
         ask' = [ask EXCEPT ![q].pc = "storing",
                            ![q].record = [id |-> issued + 1, path |-> path]]
    /\ UNCHANGED <<fileVars, decision, commandVars, ghostVars, writeErrors>>

(* The command in progress will rewrite the project file from an older copy. *)
HoldsProject == command.pc \in {"writeProject", "promoteUser", "promoteWrite"}

Stored(q) ==
    /\ ask[q].pc = "storing"
    /\ project' = project \cup {ask[q].record}
    /\ granted' = granted \cup {ask[q].record.id}
    /\ raced' = IF HoldsProject THEN raced \cup {ask[q].record.id} ELSE raced
    /\ Done(q)
    /\ IF decision[q] = "open" THEN Decide(q, "approve")
       ELSE UNCHANGED decision
    /\ UNCHANGED <<user, revoked, commandVars, issued, writeErrors>>

(* The append rejects.  The chat's prompter passes the error on, and the     *)
(* tool loop takes it for a refusal; on stdin nobody hears of it and the     *)
(* timer decides.                                                            *)
StoreRejects(q) ==
    /\ ask[q].pc = "storing"
    /\ writeErrors < MaxWriteErrors /\ writeErrors' = writeErrors + 1
    /\ IF ask[q].mode = "shared"
         THEN Done(q) /\ Decide(q, "deny")
         ELSE /\ IF decision[q] = "open" THEN ask' = [ask EXCEPT ![q].pc = "unheard"] ELSE Done(q)
              /\ UNCHANGED decision
    /\ UNCHANGED <<fileVars, commandVars, ghostVars, issued>>

(* The prompter rejects, the input closes.                                   *)
InputCloses(q) ==
    /\ \/ ask[q].pc = "asking"
       \/ ask[q].mode = "stdin" /\ ask[q].pc \in {"storing", "unheard"} /\ decision[q] = "open"
    /\ Decide(q, "deny")
    /\ IF ask[q].pc = "storing" THEN UNCHANGED ask ELSE Done(q)
    /\ UNCHANGED <<fileVars, commandVars, ghostVars, issued, writeErrors>>

(* Mutant: the timer is cleared when the line comes.                         *)
PromptTimesOutAsking(q) ==
    /\ ask[q].mode = "stdin" /\ decision[q] = "open"
    /\ ask[q].pc = "asking"
    /\ Decide(q, "deny")
    /\ Done(q)
    /\ UNCHANGED <<fileVars, commandVars, ghostVars, issued, writeErrors>>

(* The timer of askYesNo; an append under way goes on.                       *)
PromptTimesOut(q) ==
    /\ ask[q].mode = "stdin" /\ decision[q] = "open"
    /\ ask[q].pc \in {"asking", "storing", "unheard"}
    /\ Decide(q, "deny")
    /\ IF ask[q].pc = "storing" THEN UNCHANGED ask ELSE Done(q)
    /\ UNCHANGED <<fileVars, commandVars, ghostVars, issued, writeErrors>>

-----------------------------------------------------------------------------
CommandAt(pc) == command.pc = pc
CommandGoto(pc, copy) == command' = [command EXCEPT !.pc = pc, !.copy = copy]

(* revoke(id), clear(), promote(id): read the project file, ...              *)
CommandReads ==
    /\ CommandAt("idle") /\ commands < MaxCommands
    /\ commands' = commands + 1
    /\ \E op \in {"revoke", "clear", "promote"}, id \in 1 .. issued :
         /\ op = "clear" => id = 1
         /\ command' = IF op # "promote"
                         THEN [op |-> op, id |-> id, pc |-> "writeProject",
                               copy |-> project, known |-> granted]
                       ELSE IF \E r \in project : r.id = id
                         THEN [op |-> op, id |-> id, pc |-> "promoteUser",
                               copy |-> project, known |-> granted]
                       ELSE NoCommand
    /\ UNCHANGED <<fileVars, promptVars, ghostVars, issued, writeErrors>>

Remaining(records) == IF command.op = "clear" THEN {} ELSE {r \in records : r.id # command.id}

(* Mutant: revoke looks into the user file only when the project had none.   *)
CommandWritesProjectDone ==
    /\ CommandAt("writeProject")
    /\ project' = IF Remaining(command.copy) = command.copy THEN project ELSE Remaining(command.copy)
    /\ IF Remaining(command.copy) = command.copy THEN CommandGoto("readUser", {})
       ELSE CommandGoto("return", {})
    /\ UNCHANGED <<user, promptVars, commands, ghostVars, issued, writeErrors>>

(* ... write it without the records, ...                                     *)
CommandWritesProject ==
    /\ CommandAt("writeProject")
    /\ project' = IF Remaining(command.copy) = command.copy THEN project ELSE Remaining(command.copy)
    /\ CommandGoto("readUser", {})
    /\ UNCHANGED <<user, promptVars, commands, ghostVars, issued, writeErrors>>

(* ... then the same with the user file.                                     *)
CommandReadsUser ==
    /\ CommandAt("readUser")
    /\ CommandGoto("writeUser", user)
    /\ UNCHANGED <<fileVars, promptVars, commands, ghostVars, issued, writeErrors>>

CommandWritesUser ==
    /\ CommandAt("writeUser")
    /\ user' = Remaining(command.copy)
    /\ CommandGoto("return", {})
    /\ UNCHANGED <<project, promptVars, commands, ghostVars, issued, writeErrors>>

(* Mutant: promote removes the record before it appends it.                  *)
PromoteRemovesFirst ==
    /\ CommandAt("promoteUser")
    /\ project' = Remaining(command.copy)
    /\ CommandGoto("promoteWrite", command.copy)
    /\ UNCHANGED <<user, promptVars, commands, ghostVars, issued, writeErrors>>

(* promote: append to the user file, then rewrite the project file.          *)
PromoteAppendsUser ==
    /\ CommandAt("promoteUser")
    /\ user' = user \cup {r \in command.copy : r.id = command.id}
    /\ CommandGoto("promoteWrite", command.copy)
    /\ UNCHANGED <<project, promptVars, commands, ghostVars, issued, writeErrors>>

PromoteWritesProject ==
    /\ CommandAt("promoteWrite")
    /\ project' = Remaining(command.copy)
    /\ command' = NoCommand
    /\ UNCHANGED <<user, promptVars, commands, ghostVars, issued, writeErrors>>

CommandReturns ==
    /\ CommandAt("return")
    /\ revoked' = revoked \cup (IF command.op = "revoke" THEN {command.id} \cap command.known
                                ELSE command.known)
    /\ command' = NoCommand
    /\ UNCHANGED <<fileVars, promptVars, commands, granted, raced, issued, writeErrors>>

CommandKilled ==
    /\ command.pc # "idle"
    /\ command' = NoCommand
    /\ UNCHANGED <<fileVars, promptVars, commands, ghostVars, issued, writeErrors>>

PromptStep(q) ==
    \/ FindStored(q) \/ FindNothing(q) \/ AnswerOnce(q) \/ AnswerWithRecord(q)
    \/ Stored(q) \/ StoreRejects(q) \/ InputCloses(q) \/ PromptTimesOut(q)

CommandStep ==
    \/ CommandReads \/ CommandWritesProject \/ CommandReadsUser \/ CommandWritesUser
    \/ PromoteAppendsUser \/ PromoteWritesProject \/ CommandReturns \/ CommandKilled

ApprovalNext == (\E q \in Requests : PromptStep(q)) \/ CommandStep

(* Timers fire.                                                              *)
ApprovalFairness == \A q \in Requests : WF_approvalVars(PromptTimesOut(q))
ApprovalSpec == ApprovalInit /\ [][ApprovalNext]_approvalVars /\ ApprovalFairness

-----------------------------------------------------------------------------
IdsIn(records) == {r.id : r \in records}

(* A revoked approval is in neither file again: not from a promote that was  *)
(* killed between its two writes, not from an earlier copy of a file.        *)
RevokedStaysRevoked == revoked \cap IdsIn(project \cup user) = {}

(* An approval whose append has returned is in one of the files until a      *)
(* command that was told to removes it, whenever a promote is killed.  The   *)
(* exception is an approval given while a command held an older copy.        *)
Removing == IF command.op = "revoke" THEN {command.id}
            ELSE IF command.op = "clear" THEN granted ELSE {}

RemovedStep ==
    \A id \in granted \ raced :
        /\ id \in IdsIn(project \cup user) /\ id \notin IdsIn(project' \cup user')
        => id \in Removing
GrantsAreKept == [][RemovedStep]_approvalVars

(* Asked on stdin, a request is decided in the end, also when its answer     *)
(* could not be stored.                                                      *)
AskedOnStdin(q) == ask[q].mode = "stdin" /\ decision[q] = "open"
StdinPromptReturns == \A q \in Requests : AskedOnStdin(q) ~> ~ AskedOnStdin(q)

(* What the proofs are by induction on.  An id is given once: what is being  *)
(* stored is in no file, and what is in a file was granted.                  *)
GivenOnce ==
    /\ IdsIn(project \cup user) \subseteq granted
    /\ revoked \subseteq granted
    /\ \A q \in Requests : ask[q].pc = "storing" => ask[q].record.id \in (1 .. issued) \ granted
    /\ \A q, r \in Requests :
          ask[q].pc = "storing" /\ ask[r].pc = "storing" /\ ask[q].record.id = ask[r].record.id
          => q = r

(* What a command that knows of it has to take out of both files.            *)
Due == IF command.op = "revoke" THEN {command.id} \cap command.known ELSE command.known

(* A command's copy holds nothing that was revoked, and what the file has    *)
(* beyond it came while the command held it; what it has to take out is gone *)
(* from a file it has passed; what it promotes is in the user's file before  *)
(* it leaves the project's.                                                  *)
CommandFollows ==
    /\ command.known \subseteq granted
    /\ IdsIn(command.copy) \subseteq granted \ revoked
    /\ HoldsProject =>
          (IdsIn(project) \ IdsIn(command.copy)) \subseteq raced \ command.known
    /\ command.pc \in {"promoteUser", "promoteWrite"} => command.op = "promote"
    /\ command.pc \in {"writeProject", "readUser", "writeUser", "return"} =>
          command.op \in {"revoke", "clear"}
    /\ command.pc \in {"readUser", "writeUser", "return"} => IdsIn(project) \cap Due = {}
    /\ command.pc = "writeUser" => command.copy = user
    /\ command.pc = "return" => IdsIn(user) \cap Due = {}
    /\ command.pc = "promoteUser" => command.id \in IdsIn(command.copy)
    /\ command.pc = "promoteWrite" => command.id \in IdsIn(user)

ApprovalIInv == ApprovalTypeOK /\ RevokedStaysRevoked /\ GivenOnce /\ CommandFollows
=============================================================================
