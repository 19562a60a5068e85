----------------------------- MODULE EngineRuns -----------------------------
(***************************************************************************)
(* Concurrent runs of one Engine (packages/core/src/engine/engine.ts): the *)
(* entry, the end and the cancellation of runStream, cancel and dispose,   *)
(* composed with the session manager they share.                           *)
(*                                                                         *)
(* A run is an async generator driven by its consumer.  Its steps between  *)
(* two awaits are atomic; between them any other run, a cancel or a        *)
(* dispose may interleave.  The execution phase is a promise of its own    *)
(* (work): in streaming mode the generator yields deltas while it is in    *)
(* flight, and the consumer may stop iterating at any yield, which runs    *)
(* only the generator's finally block.                                     *)
(*                                                                         *)
(* What happens inside the phases is abstracted to where they may fail and *)
(* to the two entries a turn writes to the session's memory.               *)
(***************************************************************************)
EXTENDS SessionManager, Sequences

VARIABLES
    pc,             \* where the generator of a run is
    target,         \* correlation.sessionId of the run's context
    work,           \* the execution phase's promise
    delivered,      \* the consumer has been handed the successful done chunk
    memory,         \* MemorySystem entries per session, oldest first
    disposed,       \* this.disposed
    disposeLeft,    \* sessions dispose still has to cancel
    liveAtDispose   \* history: the live runs dispose() found

runVars == <<pc, target, work, delivered, memory>>
disposeVars == <<disposed, disposeLeft, liveAtDispose>>
engineVars == <<runVars, disposeVars>>
allVars == <<vars, runVars, disposeVars>>

Entries == [role : {"user", "assistant"}, run : Runs]

(* Types of the engine's own variables, over the manager's TypeOK.           *)
EngineTypeOK ==
    /\ TypeOK
    /\ pc \in [Runs -> {"idle", "resolved", "begun", "prepared", "executing",
                        "replied", "closing", "ended", "rejected"}]
    /\ target \in [Runs -> Sessions]
    /\ work \in [Runs -> {"none", "running", "settled"}]
    /\ delivered \in [Runs -> BOOLEAN]
    /\ memory \in [Sessions -> Seq(Entries)]
    /\ disposed \in BOOLEAN
    /\ disposeLeft \in SUBSET Sessions
    /\ liveAtDispose \in SUBSET Runs

EngineInit ==
    /\ Init
    /\ pc = [r \in Runs |-> "idle"]
    /\ target \in [Runs -> Sessions]
    /\ work = [r \in Runs |-> "none"]
    /\ delivered = [r \in Runs |-> FALSE]
    /\ memory = [s \in Sessions |-> <<>>]
    /\ disposed = FALSE /\ disposeLeft = {} /\ liveAtDispose = {}

Goto(r, from, to) == pc[r] = from /\ pc' = [pc EXCEPT ![r] = to]

(* Mutant: append is handed the bare run instead of an entry.                *)
RememberBare(r, role) ==
    memory' = [memory EXCEPT ![target[r]] = Append(@, r)]

(* memorySystem.append for the session of the run.                           *)
Remember(r, role) ==
    memory' = [memory EXCEPT ![target[r]] = Append(@, [role |-> role, run |-> r])]

-----------------------------------------------------------------------------
(* runStream's first step: ensureAvailable, then the await of resolve, whose *)
(* body runs before the await suspends the generator.                        *)
Start(r) ==
    /\ Goto(r, "idle", "resolved")
    /\ ~ disposed
    /\ Resolve(target[r])
    /\ UNCHANGED <<target, work, delivered, memory, disposeVars>>

StartRefused(r) ==
    /\ Goto(r, "idle", "rejected")
    /\ disposed
    /\ UNCHANGED <<vars, target, work, delivered, memory, disposeVars>>

(* After the await: beginRun.  ensureAvailable is not asked again.           *)
Begin(r) ==
    /\ Goto(r, "resolved", "begun")
    /\ BeginRun(target[r], r)
    /\ UNCHANGED <<target, work, delivered, memory, disposeVars>>

(* The session was closed during the await: beginRun throws outside runStream's *)
(* try, so neither an error nor a done chunk is yielded.                        *)
BeginThrows(r) ==
    /\ Goto(r, "resolved", "rejected")
    /\ target[r] \notin exists
    /\ UNCHANGED <<vars, target, work, delivered, memory, disposeVars>>

(* runSessionPhase: resolve once more, append the user message.              *)
SessionPhase(r) ==
    /\ Goto(r, "begun", "prepared")
    /\ Resolve(target[r])
    /\ Remember(r, "user")
    /\ UNCHANGED <<target, work, delivered, disposeVars>>

StartWork(r) ==
    /\ Goto(r, "prepared", "executing")
    /\ work' = [work EXCEPT ![r] = "running"]
    /\ UNCHANGED <<vars, target, delivered, memory, disposeVars>>

(* The execution promise settles, whoever still waits for it.  An aborted     *)
(* signal only makes it settle early; a tool loop that already has            *)
(* observations resolves with a partial result rather than rejecting.         *)
WorkSettles(r) ==
    /\ work[r] = "running"
    /\ work' = [work EXCEPT ![r] = "settled"]
    /\ UNCHANGED <<vars, pc, target, delivered, memory, disposeVars>>

(* Validation and output went through: the reply is appended before done.     *)
StoreReply(r) ==
    /\ Goto(r, "executing", "replied")
    /\ work[r] = "settled"
    /\ Remember(r, "assistant")
    /\ UNCHANGED <<vars, target, work, delivered, disposeVars>>

(* Mutant: done is yielded before the append is awaited.                      *)
DoneBeforeAppend(r) ==
    /\ Goto(r, "executing", "closing")
    /\ work[r] = "settled"
    /\ delivered' = [delivered EXCEPT ![r] = TRUE]
    /\ UNCHANGED <<vars, target, work, memory, disposeVars>>

YieldDone(r) ==
    /\ Goto(r, "replied", "closing")
    /\ delivered' = [delivered EXCEPT ![r] = TRUE]
    /\ UNCHANGED <<vars, target, work, memory, disposeVars>>

(* Mutant: the release sits after the try statement, not in its finally.      *)
ThrowSkipsRelease(r) ==
    /\ pc[r] \in {"begun", "prepared", "executing"}
    /\ work[r] # "running"
    /\ pc' = [pc EXCEPT ![r] = "ended"]
    /\ UNCHANGED <<vars, target, work, delivered, memory, disposeVars>>

(* Any phase throws: error and failed done chunks, no reply is stored.        *)
PhaseThrows(r) ==
    /\ pc[r] \in {"begun", "prepared", "executing"}
    /\ work[r] # "running"
    /\ pc' = [pc EXCEPT ![r] = "closing"]
    /\ UNCHANGED <<vars, target, work, delivered, memory, disposeVars>>

(* finally: runHandle.release()                                               *)
EndRun(r) ==
    /\ Goto(r, "closing", "ended")
    /\ Release(r)
    /\ UNCHANGED <<target, work, delivered, memory, disposeVars>>

(* The consumer breaks at a yield: only the finally block runs.  Nothing      *)
(* aborts the signal the execution in flight listens to.                      *)
ConsumerBreaks(r) ==
    /\ pc[r] \in {"prepared", "executing"}
    /\ pc' = [pc EXCEPT ![r] = "ended"]
    /\ Release(r)
    /\ UNCHANGED <<target, work, delivered, memory, disposeVars>>

(* Engine.cancel(sessionId)                                                   *)
EngineCancel(s) ==
    /\ Cancel(s)
    /\ UNCHANGED engineVars

(* The host closes a session through the manager it injected (bounded by      *)
(* MaxGen, so that the id can be resolved again).                             *)
HostCloses(s) ==
    /\ gen[s] < MaxGen
    /\ Close(s)
    /\ UNCHANGED engineVars

(* dispose(): set the flag and list the sessions ...                          *)
DisposeStarts ==
    /\ ~ disposed
    /\ disposed' = TRUE
    /\ disposeLeft' = exists
    /\ liveAtDispose' = {r \in Runs : Live(r)}
    /\ UNCHANGED <<vars, runVars>>

(* Mutant: a session one of whose runs is executing is left alone.           *)
DisposeCancelsIdle(s) ==
    /\ s \in disposeLeft
    /\ disposeLeft' = disposeLeft \ {s}
    /\ IF s \in exists /\ ~ \E r \in liveAtDispose : pc[r] = "executing" /\ target[r] = s
         THEN Cancel(s) ELSE UNCHANGED vars
    /\ UNCHANGED <<runVars, disposed, liveAtDispose>>

(* ... cancel them one by one, awaiting each.                                *)
DisposeCancels(s) ==
    /\ s \in disposeLeft
    /\ disposeLeft' = disposeLeft \ {s}
    /\ IF s \in exists THEN Cancel(s) ELSE UNCHANGED vars
    /\ UNCHANGED <<runVars, disposed, liveAtDispose>>

(* All of them cancelled; the hooks are cleared and the providers disposed.   *)
DisposeDone == disposed /\ disposeLeft = {}

RunStep(r) ==
    \/ Start(r) \/ StartRefused(r) \/ Begin(r) \/ BeginThrows(r)
    \/ SessionPhase(r) \/ StartWork(r) \/ StoreReply(r) \/ YieldDone(r)
    \/ PhaseThrows(r) \/ EndRun(r)

EngineNext ==
    \/ \E r \in Runs : RunStep(r) \/ WorkSettles(r) \/ ConsumerBreaks(r)
    \/ \E s \in Sessions : EngineCancel(s) \/ HostCloses(s) \/ DisposeCancels(s)
    \/ DisposeStarts

(* A consumer that iterates drives its run; the scheduler's task timeout      *)
(* settles every execution.                                                   *)
EngineFairness ==
    \A r \in Runs : WF_allVars(RunStep(r)) /\ WF_allVars(WorkSettles(r))

EngineSpec == EngineInit /\ [][EngineNext]_allVars /\ EngineFairness

-----------------------------------------------------------------------------
(* The execution of r is in flight and nothing has told it to stop.          *)
Unchecked(r) == work[r] = "running" /\ abortedBy[r] = "none"

(* Last-message-wins as the execution sees it: of the executions in flight   *)
(* for one session whose consumer still iterates, all but one have had their *)
(* signal aborted, whatever was cancelled, closed or created again meanwhile. *)
OneAttendedExecution ==
    \A r, q \in Runs :
        /\ Unchecked(r) /\ Unchecked(q)
        /\ pc[r] = "executing" /\ pc[q] = "executing"
        /\ target[r] = target[q]
        => r = q

(* The documented promise, consumers aside: a new message of a session makes *)
(* the engine signal the execution in flight (docs/detailed-design.md:631).  *)
OneExecutionPerSession ==
    \A r, q \in Runs :
        Unchecked(r) /\ Unchecked(q) /\ target[r] = target[q] => r = q

(* The reply is in the session's memory by the time the consumer sees done,  *)
(* so that a consumer that breaks on done does not cut the conversation.     *)
DoneImpliesReplyStored ==
    \A r \in Runs : delivered[r] =>
        \E i \in DOMAIN memory[target[r]] :
            memory[target[r]][i] = [role |-> "assistant", run |-> r]

(* However runs, cancels and closes interleave, a run that was begun ends:   *)
(* its generator finishes and its handle is released.                        *)
BegunRunEnds ==
    \A r \in Runs : pc[r] = "begun" ~> pc[r] = "ended" /\ runState[r] = "released"

(* dispose() leaves none of the runs it found with a live signal, however    *)
(* they are superseded or their sessions closed between its awaits.  (A run  *)
(* that passed ensureAvailable before and begins later is not among them.)   *)
DisposeCancelsRuns ==
    DisposeDone => \A r \in liveAtDispose : ~ Live(r)

(* Strengthening for the proofs.  A generator that was begun and has not     *)
(* reached its finally block holds a handle of its own session.              *)
HandleFollowsRun ==
    \A r \in Runs :
        /\ pc[r] \in {"idle", "resolved", "rejected"} => runState[r] = "unused"
        /\ pc[r] \in {"begun", "prepared", "executing", "replied", "closing"}
              => runState[r] = "held" /\ runSession[r] = target[r]
        /\ pc[r] = "ended" => runState[r] = "released"

(* The reply stays stored from the append on.                                *)
ReplyStored(r) ==
    \E i \in DOMAIN memory[target[r]] :
        memory[target[r]][i] = [role |-> "assistant", run |-> r]
ReplyStays == \A r \in Runs : pc[r] = "replied" \/ delivered[r] => ReplyStored(r)

(* A run that dispose() found and that is still live is in a session it      *)
(* still has to cancel.                                                      *)
DisposeWillReach ==
    /\ ~ disposed => liveAtDispose = {} /\ disposeLeft = {}
    /\ \A r \in liveAtDispose :
          runState[r] # "unused" /\ (Live(r) => runSession[r] \in disposeLeft)

EngineIInv == EngineTypeOK /\ IInv /\ HandleFollowsRun /\ ReplyStays /\ DisposeWillReach
=============================================================================
