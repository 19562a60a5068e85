---------------------------- MODULE TaskScheduler ---------------------------
(***************************************************************************)
(* TaskScheduler (packages/core/src/engine/scheduler.ts) and the execution *)
(* phase that consumes it (engine/phases/execution.ts).                    *)
(*                                                                         *)
(* execute() is an async generator: Kahn's algorithm over the route's      *)
(* graph, at most MaxConcurrency task promises raced at a time.  runTask   *)
(* races the executor with a timeout and, once timed out, with a grace     *)
(* period in which a late answer is still picked up.  An executor that     *)
(* ignores its signal runs on after its task was reported.                 *)
(*                                                                         *)
(* Abstractions: outputs are present or absent; when several promises have *)
(* settled, the race may return any of them.                               *)
(***************************************************************************)
EXTENDS Naturals, FiniteSets, Sequences, SequencesExt

CONSTANTS
    Tasks,              \* task ids of the route
    MaxConcurrency      \* options.maxConcurrency

ASSUME TasksAssumption == IsFiniteSet(Tasks)
ASSUME ConcurrencyAssumption == MaxConcurrency \in Nat \ {0}

VARIABLES
    edges,          \* route.edges, as a relation
    failFast,       \* options.failFast
    pc,             \* where the generator is
    inDegree,       \* dependencies of a task not yet reported
    readyQueue,     \* tasks whose dependencies are all reported
    running,        \* keys of the map of raced promises
    reported,       \* task ids in the order their results were yielded
    task,           \* where runTask of a task is
    executor,       \* the executor's promise
    timedOut,       \* the task's own timer aborted its signal
    result,         \* TaskResult.status
    output,         \* TaskResult.output is present
    aborted         \* options.abortSignal.aborted

call == <<edges, failFast>>
loopVars == <<pc, inDegree, readyQueue, running, reported>>
taskVars == <<task, executor, timedOut, result, output>>
vars == <<call, loopVars, taskVars, aborted>>

Upstream(t) == {u \in Tasks : <<u, t>> \in edges}
Downstream(t) == {u \in Tasks : <<t, u>> \in edges}

(* Types of the generator's locals and of the task promises.                 *)
TypeOK ==
    /\ edges \subseteq Tasks \X Tasks /\ failFast \in BOOLEAN
    /\ pc \in {"top", "racing", "yielded", "done", "threw"}
    /\ inDegree \in [Tasks -> 0 .. Cardinality(Tasks)]
    /\ readyQueue \in Seq(Tasks) /\ reported \in Seq(Tasks)
    /\ running \subseteq Tasks
    /\ task \in [Tasks -> {"waiting", "executing", "grace", "settled"}]
    /\ executor \in [Tasks -> {"idle", "running", "ended"}]
    /\ timedOut \in [Tasks -> BOOLEAN]
    /\ result \in [Tasks -> {"none", "completed", "failed", "cancelled"}]
    /\ output \in [Tasks -> BOOLEAN]
    /\ aborted \in BOOLEAN

(* Mutant: the queue starts with every task.                                 *)
InitQueueAll == {SetToSeq(Tasks)}

(* The initial ready queue: tasks without dependencies, in the route's order. *)
InitQueue == SetToSeqs({t \in Tasks : Upstream(t) = {}})

Init ==
    /\ edges \in SUBSET (Tasks \X Tasks)
    /\ failFast \in BOOLEAN
    /\ pc = "top"
    /\ inDegree = [t \in Tasks |-> Cardinality(Upstream(t))]
    /\ readyQueue \in InitQueue
    /\ running = {}
    /\ reported = <<>>
    /\ task = [t \in Tasks |-> "waiting"]
    /\ executor = [t \in Tasks |-> "idle"]
    /\ timedOut = [t \in Tasks |-> FALSE]
    /\ result = [t \in Tasks |-> "none"]
    /\ output = [t \in Tasks |-> FALSE]
    /\ aborted = FALSE

-----------------------------------------------------------------------------
AllReported ==
    /\ pc = "top"
    /\ Len(reported) = Cardinality(Tasks)
    /\ pc' = "done"
    /\ UNCHANGED <<call, inDegree, readyQueue, running, reported, taskVars, aborted>>

(* throwIfAborted at the head of the loop.                                    *)
ThrowAborted ==
    /\ pc = "top"
    /\ Len(reported) < Cardinality(Tasks)
    /\ aborted
    /\ pc' = "threw"
    /\ UNCHANGED <<call, inDegree, readyQueue, running, reported, taskVars, aborted>>

(* Mutant: the loop starts tasks while running.size <= maxConcurrency.        *)
FreeSlotsOffByOne == MaxConcurrency + 1 - Cardinality(running)

FreeSlots == MaxConcurrency - Cardinality(running)

(* Start tasks while there is a slot, then race the promises; a route whose   *)
(* remaining tasks all wait for each other is reported as a cycle.            *)
StartTasks ==
    LET n == IF Len(readyQueue) < FreeSlots THEN Len(readyQueue) ELSE FreeSlots
        started == {readyQueue[i] : i \in 1 .. n} IN
    /\ pc = "top"
    /\ Len(reported) < Cardinality(Tasks)
    /\ ~ aborted
    /\ readyQueue' = SubSeq(readyQueue, n + 1, Len(readyQueue))
    /\ running' = running \cup started
    /\ task' = [t \in Tasks |-> IF t \in started THEN "executing" ELSE task[t]]
    /\ executor' = [t \in Tasks |-> IF t \in started THEN "running" ELSE executor[t]]
    /\ pc' = IF running' = {} THEN "threw" ELSE "racing"
    /\ UNCHANGED <<call, inDegree, reported, timedOut, result, output, aborted>>

(* Mutant: the promise that won the race stays in the map.                    *)
YieldKeepsPromise(t) ==
    /\ pc = "racing"
    /\ t \in running
    /\ task[t] = "settled"
    /\ reported' = Append(reported, t)
    /\ pc' = "yielded"
    /\ UNCHANGED <<call, inDegree, readyQueue, running, taskVars, aborted>>

(* The race returns a settled task, whose result is yielded.                  *)
YieldResult(t) ==
    /\ pc = "racing"
    /\ t \in running
    /\ task[t] = "settled"
    /\ running' = running \ {t}
    /\ reported' = Append(reported, t)
    /\ pc' = "yielded"
    /\ UNCHANGED <<call, inDegree, readyQueue, taskVars, aborted>>

(* Mutant: only a completed task unlocks its dependents.                      *)
UnlockedIfCompleted(t) ==
    IF result[t] = "completed" THEN {u \in Downstream(t) : inDegree[u] = 1} ELSE {}

(* Tasks whose last missing dependency is t.  The status of t is not asked.   *)
Unlocked(t) == {u \in Downstream(t) : inDegree[u] = 1}

(* The consumer asks for the next result.                                     *)
Resume ==
    LET t == Last(reported) IN
    /\ pc = "yielded"
    /\ ~ (failFast /\ result[t] = "failed")
    /\ inDegree' = [u \in Tasks |-> IF u \in Downstream(t) THEN inDegree[u] - 1
                                                           ELSE inDegree[u]]
    /\ \E s \in SetToSeqs(Unlocked(t)) : readyQueue' = readyQueue \o s
    /\ pc' = "top"
    /\ UNCHANGED <<call, running, reported, taskVars, aborted>>

(* failFast: the generator throws, the other promises are left alone.         *)
ThrowFailFast ==
    /\ pc = "yielded"
    /\ failFast /\ result[Last(reported)] = "failed"
    /\ pc' = "threw"
    /\ UNCHANGED <<call, inDegree, readyQueue, running, reported, taskVars, aborted>>

-----------------------------------------------------------------------------
(* Mutant: a cancelled task is settled with the status of its step.          *)
SettleAsStep(t, status, hasOutput) ==
    /\ task' = [task EXCEPT ![t] = "settled"]
    /\ result' = [result EXCEPT ![t] = IF status = "cancelled" THEN "skipped" ELSE status]
    /\ output' = [output EXCEPT ![t] = hasOutput]
    /\ UNCHANGED <<call, loopVars, aborted>>

(* runTask's promise resolves with a TaskResult.                             *)
Settle(t, status, hasOutput) ==
    /\ task' = [task EXCEPT ![t] = "settled"]
    /\ result' = [result EXCEPT ![t] = status]
    /\ output' = [output EXCEPT ![t] = hasOutput]
    /\ UNCHANGED <<call, loopVars, aborted>>

(* The executor answers before the timeout: ok, an error, or a rejection,     *)
(* which counts as cancelled when the task's signal was aborted.              *)
Answer(t) ==
    /\ task[t] = "executing"
    /\ executor' = [executor EXCEPT ![t] = "ended"]
    /\ \/ \E o \in BOOLEAN : Settle(t, "completed", o)
       \/ Settle(t, "failed", FALSE)
       \/ aborted /\ Settle(t, "cancelled", FALSE)
    /\ UNCHANGED timedOut

(* The timer aborts the task's signal and opens the grace period.             *)
TimeOut(t) ==
    /\ task[t] = "executing"
    /\ task' = [task EXCEPT ![t] = "grace"]
    /\ timedOut' = [timedOut EXCEPT ![t] = TRUE]
    /\ UNCHANGED <<call, loopVars, executor, result, output, aborted>>

(* A late answer within the grace period adds its output to the failure.      *)
LateAnswer(t) ==
    /\ task[t] = "grace"
    /\ executor[t] = "running"
    /\ executor' = [executor EXCEPT ![t] = "ended"]
    /\ \E o \in BOOLEAN : Settle(t, "failed", o)
    /\ UNCHANGED timedOut

(* Mutant: instead of a grace timer the code waits for the executor.          *)
GraceWaitsForExecutor(t) ==
    /\ task[t] = "grace"
    /\ executor[t] = "ended"
    /\ Settle(t, "failed", FALSE)
    /\ UNCHANGED <<executor, timedOut>>

GraceExpires(t) ==
    /\ task[t] = "grace"
    /\ Settle(t, "failed", FALSE)
    /\ UNCHANGED <<executor, timedOut>>

(* An executor whose task is settled already comes to its end unheard.        *)
ExecutorEnds(t) ==
    /\ task[t] = "settled"
    /\ executor[t] = "running"
    /\ executor' = [executor EXCEPT ![t] = "ended"]
    /\ UNCHANGED <<call, loopVars, task, timedOut, result, output, aborted>>

(* The run's signal fires; the linked controllers of all tasks follow.        *)
Abort ==
    /\ ~ aborted
    /\ aborted' = TRUE
    /\ UNCHANGED <<call, loopVars, taskVars>>

Loop ==
    \/ AllReported \/ ThrowAborted \/ StartTasks
    \/ (\E t \in Tasks : YieldResult(t))
    \/ Resume \/ ThrowFailFast

Timers(t) == TimeOut(t) \/ GraceExpires(t)

Next ==
    \/ Loop
    \/ \E t \in Tasks : Answer(t) \/ LateAnswer(t) \/ Timers(t) \/ ExecutorEnds(t)
    \/ Abort

(* The execution phase iterates, timers fire.  An executor may never answer.  *)
Spec == Init /\ [][Next]_vars /\ WF_vars(Loop) /\ \A t \in Tasks : WF_vars(Timers(t))

-----------------------------------------------------------------------------
Terminated == pc \in {"done", "threw"}
Started(t) == executor[t] # "idle"

(* A reference definition of a route with a cycle: some tasks all wait for   *)
(* one another.                                                              *)
Cyclic == \E S \in (SUBSET Tasks) \ {{}} : \A t \in S : Upstream(t) \cap S # {}

(* No task starts before the results of all its dependencies were consumed,  *)
(* however their promises settle, and the executors nobody has told to stop  *)
(* stay within maxConcurrency, though the map they are counted by is left by *)
(* timed-out tasks.  (An executor that ignores its timeout may run on beyond *)
(* that.)                                                                    *)
StartsWhenDue ==
    /\ \A t \in Tasks : Started(t) => Upstream(t) \subseteq ToSet(reported)
    /\ Cardinality({t \in Tasks : executor[t] = "running" /\ ~ timedOut[t]
                                  /\ task[t] = "executing"}) <= MaxConcurrency

(* The consumer gets one result per task and, unless the generator throws,   *)
(* one for every task; a task whose timer fired is reported failed, although *)
(* its answer may arrive within the grace period.                            *)
EveryTaskReportedOnce ==
    /\ IsInjective(reported)
    /\ pc = "done" => ToSet(reported) = Tasks
    /\ \A t \in Tasks : timedOut[t] => result[t] # "completed"

(* The generator throws only for an abort, a failure under failFast, or a    *)
(* route that has a cycle; and a cyclic route never ends normally.           *)
ThrowsForAReason ==
    /\ pc = "threw" => \/ aborted
                       \/ failFast /\ \E t \in Tasks : result[t] = "failed"
                       \/ Cyclic
    /\ pc = "done" => ~ Cyclic

(* Whatever the executors do, the generator comes to an end.                 *)
SchedulerEnds == <>Terminated

-----------------------------------------------------------------------------
(* Strengthening for the proofs.  Until the generator is over, the results   *)
(* the consumer has come back from are all reported ones but the one it is   *)
(* looking at.                                                               *)
Going == pc \in {"top", "racing", "yielded"}
Consumed == ToSet(reported) \ (IF pc = "yielded" THEN {Last(reported)} ELSE {})
Due == ToSet(readyQueue) \cup running \cup ToSet(reported)

(* A task is in one place, and there once.                                   *)
OnePlace ==
    /\ IsInjective(readyQueue) /\ IsInjective(reported)
    /\ ToSet(readyQueue) \cap (running \cup ToSet(reported)) = {}
    /\ running \cap ToSet(reported) = {}
    /\ pc = "yielded" => reported # <<>>
    /\ pc = "done" => ToSet(reported) = Tasks
    /\ Cardinality(running) <= MaxConcurrency

(* The in-degrees count the dependencies not yet consumed, and a task is due *)
(* when there are none.                                                      *)
DegreesCount ==
    /\ Going => \A t \in Tasks :
          /\ inDegree[t] = Cardinality(Upstream(t) \ Consumed)
          /\ t \in Due <=> Upstream(t) \subseteq Consumed
    /\ \A t \in running \cup ToSet(reported) : Upstream(t) \subseteq ToSet(reported)

(* The promise of a task follows its place.                                  *)
PromisesFollow ==
    \A t \in Tasks :
        /\ task[t] = "waiting" <=> t \notin running \cup ToSet(reported)
        /\ executor[t] = "idle" <=> task[t] = "waiting"
        /\ t \in ToSet(reported) => task[t] = "settled"
        /\ task[t] # "settled" => result[t] = "none"
        /\ timedOut[t] => task[t] \in {"grace", "settled"} /\ result[t] # "completed"

(* Tasks that wait for one another are never due.                            *)
CyclesWait ==
    \A S \in SUBSET Tasks :
        (\A t \in S : Upstream(t) \cap S # {}) => S \cap Due = {}

ScheduleIInv ==
    /\ TypeOK /\ OnePlace /\ DegreesCount /\ PromisesFollow /\ CyclesWait
    /\ ThrowsForAReason
=============================================================================
