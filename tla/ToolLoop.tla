------------------------------ MODULE ToolLoop ------------------------------
(***************************************************************************)
(* The agentic loop of a turn (packages/core/src/engine/subflows/          *)
(* tool-use.ts: executeToolUse and the calls it makes) with the timing     *)
(* control of orchestrator.ts.                                             *)
(*                                                                         *)
(* One step asks the model, then runs the tool calls it answered with on   *)
(* `Parallelism' workers that share a cursor.  A call passes the preToolUse*)
(* hook, perhaps the user's approval, the executor and the postToolUse     *)
(* hook; each of these is an await, at which the turn may be aborted.      *)
(*                                                                         *)
(* Abstractions: a message is its role, its step and, for a tool message,  *)
(* the position of its call (for the assistant, the number of its calls);  *)
(* the prompt seeded before the loop is left out and hooks mutate nothing; *)
(* time passes only as timeouts.                                           *)
(***************************************************************************)
EXTENDS Naturals, FiniteSets, Sequences, SequencesExt

CONSTANTS
    MaxSteps,               \* runtime.toolLoop.maxSteps
    Parallelism,            \* runtime.toolLoop.parallelism
    RecoveryRetries,        \* runtime.toolLoop.failureRecoveryRetries
    Batches                 \* bound: what the model may answer with, as the
                            \* kinds of the calls
CallKinds == {"tool", "dispatch", "unknown"}

ASSUME LimitsAssumption ==
    /\ MaxSteps \in Nat \ {0} /\ Parallelism \in Nat \ {0}
    /\ RecoveryRetries \in Nat
ASSUME BatchesAssumption == Batches \subseteq Seq(CallKinds) \ {<<>>}

VARIABLES
    loop,               \* where executeToolUse is
    step,
    conversation,       \* what the loop appended to it
    observed,           \* the outcomes among its observations
    recoveryInjections,
    calls,              \* kinds of this step's calls
    stage,              \* where each of them is
    outcome,            \* its ExecutedToolRecord
    result,             \* how the loop ended
    cause,              \* why it threw, if it did
    sent,               \* last tool-call event of a call in the outbox
    endSays,            \* success of its tool-call-end
    aborted,            \* ctx.signal.aborted
    timer               \* the timing control

convVars == <<step, conversation, observed, recoveryInjections>>
callVars == <<calls, stage, outcome, sent, endSays>>
vars == <<loop, convVars, callVars, result, cause, aborted, timer>>

Message(role, s, n) == [role |-> role, step |-> s, call |-> n]
Messages == [role : {"assistant", "tool", "system"}, step : 1 .. MaxSteps, call : Nat]
Stages == {"queued", "pre", "approval", "running", "post", "settled", "threw"}
Outcomes == {"none", "ok", "failed", "denied"}

(* Types of the loop, of the step's calls and of the timing control.         *)
TypeOK ==
    /\ loop \in {"top", "llm", "batch", "done"}
    /\ step \in 0 .. MaxSteps
    /\ conversation \in Seq(Messages)
    /\ observed \subseteq Outcomes \ {"none"}
    /\ recoveryInjections \in 0 .. RecoveryRetries
    /\ calls \in Batches \cup {<<>>}
    /\ stage \in [DOMAIN calls -> Stages]
    /\ outcome \in [DOMAIN calls -> Outcomes]
    /\ sent \in [DOMAIN calls -> {"none", "start", "end"}]
    /\ endSays \in [DOMAIN calls -> {"none", "ok", "failed"}]
    /\ result \in {"none", "ready", "partial", "exhausted", "threw"}
    /\ cause \in {"none", "hook", "budget", "other"}
    /\ aborted \in BOOLEAN
    /\ timer \in [active : BOOLEAN, depth : Nat, blocked : BOOLEAN]

(* executeToolUse up to its for statement: onToolLoopActiveStart.            *)
Init ==
    /\ loop = "top" /\ step = 0
    /\ conversation = <<>> /\ observed = {} /\ recoveryInjections = 0
    /\ calls = <<>> /\ stage = <<>> /\ outcome = <<>>
    /\ sent = <<>> /\ endSays = <<>>
    /\ result = "none" /\ cause = "none"
    /\ aborted = FALSE
    /\ timer = [active |-> TRUE, depth |-> 0, blocked |-> FALSE]

-----------------------------------------------------------------------------
(* The timing control: waiting for the user is not tool-loop time.           *)

(* Mutant: one timestamp, no depth.                                          *)
EndBlockingAtOnce(t) == [t EXCEPT !.depth = 0, !.blocked = FALSE]

BeginBlocking(t) ==
    IF t.active THEN [t EXCEPT !.depth = @ + 1, !.blocked = TRUE] ELSE t

EndBlocking(t) ==
    IF t.depth = 0 THEN t
                   ELSE [t EXCEPT !.depth = @ - 1, !.blocked = t.depth > 1]

TimerEnded == [active |-> FALSE, depth |-> 0, blocked |-> FALSE]

-----------------------------------------------------------------------------
(* The loop's exits.  The finally block ends the timer, whose budget check   *)
(* may throw in place of what the loop was about to return.                  *)
Throw(why) == result' = "threw" /\ cause' = why

Ends(kind) ==
    /\ loop' = "done"
    /\ timer' = TimerEnded
    /\ \/ result' = kind /\ cause' = (IF kind = "threw" THEN "other" ELSE "none")
       \/ Throw("budget")

(* Mutant: a failure throws whatever was observed before.                    *)
FailsAlways == Ends("threw")

(* A failure returns a partial result once something was observed.           *)
Fails == Ends(IF observed # {} THEN "partial" ELSE "threw")

(* A hook throws, which it does only under failureBehavior "abort".          *)
HookThrows ==
    /\ loop' = "done"
    /\ timer' = TimerEnded
    /\ \/ Throw("hook") \/ Throw("budget")

-----------------------------------------------------------------------------
(* Mutant: compaction drops one message, not a round.                        *)
CompactedHead(conv) == SubSeq(conv, 2, Len(conv))

(* compactConversationDefault: the oldest assistant message with calls goes  *)
(* with the tool messages behind it; a summary takes their place.            *)
Compacted(conv) ==
    LET rounds == {i \in DOMAIN conv : conv[i].role = "assistant" /\ conv[i].call > 0}
        first == CHOOSE i \in rounds : \A j \in rounds : i <= j
        next == CHOOSE j \in first + 1 .. Len(conv) + 1 :
                   /\ j <= Len(conv) => conv[j].role # "tool"
                   /\ \A m \in first + 1 .. j - 1 : conv[m].role = "tool"
    IN IF rounds = {} THEN conv
       ELSE SubSeq(conv, 1, first - 1)
              \o <<Message("system", conv[first].step, 0)>>
              \o SubSeq(conv, next, Len(conv))

(* The head of the for statement, up to the call of the model.               *)
NextStep ==
    /\ loop = "top"
    /\ ~ aborted
    /\ step < MaxSteps
    /\ step' = step + 1
    /\ loop' = "llm"
    /\ conversation' \in {conversation, Compacted(conversation)}
    /\ UNCHANGED <<observed, recoveryInjections, callVars, result, cause,
                   aborted, timer>>

Interrupted ==
    /\ loop = "top"
    /\ aborted
    /\ step < MaxSteps
    /\ Fails
    /\ UNCHANGED <<convVars, callVars, aborted>>

Exhausted ==
    /\ loop = "top"
    /\ step = MaxSteps
    /\ Ends(IF observed # {} THEN "exhausted" ELSE "threw")
    /\ UNCHANGED <<convVars, callVars, aborted>>

(* preLLM denies, or the provider fails, times out or is aborted.            *)
LlmFails ==
    /\ loop = "llm"
    /\ Fails
    /\ UNCHANGED <<convVars, callVars, aborted>>

LlmHookThrows ==
    /\ loop = "llm"
    /\ HookThrows
    /\ UNCHANGED <<convVars, callVars, aborted>>

(* onProviderUsage records the tokens, and the budget is spent.              *)
LlmSpendsBudget ==
    /\ loop = "llm"
    /\ loop' = "done" /\ timer' = TimerEnded /\ Throw("budget")
    /\ UNCHANGED <<convVars, callVars, aborted>>

HadToolFailure == "failed" \in observed
HadToolSuccess == "ok" \in observed

(* Mutant: the injections are not counted.                                   *)
RecoveryDueAgain == HadToolFailure /\ ~ HadToolSuccess

RecoveryDue ==
    /\ HadToolFailure /\ ~ HadToolSuccess
    /\ recoveryInjections < RecoveryRetries

(* The model answers, but not with calls to run: there are none (n = 0), or  *)
(* the finish reason is another one than tool_calls.                         *)
LlmAnswersText ==
    /\ loop = "llm"
    /\ \E n \in {0, 1}, blank \in BOOLEAN :
       LET answer == Message("assistant", step, n) IN
       IF RecoveryDue
         THEN /\ recoveryInjections' = recoveryInjections + 1
              /\ conversation' = conversation \o <<answer, Message("system", step, 0)>>
              /\ loop' = "top"
              /\ UNCHANGED <<result, cause, timer>>
         ELSE /\ conversation' = Append(conversation, answer)
              /\ IF blank THEN Fails ELSE Ends("ready")
              /\ UNCHANGED recoveryInjections
    /\ UNCHANGED <<step, observed, callVars, aborted>>

FirstCalls(batch) ==
    [i \in DOMAIN batch |-> IF i <= Parallelism THEN "pre" ELSE "queued"]

(* executeToolCallsBatch: the workers take the first calls.                  *)
LlmAnswersCalls ==
    /\ loop = "llm"
    /\ \E batch \in Batches :
       LET fresh(x) == [i \in DOMAIN batch |-> x] IN
          /\ calls' = batch
          /\ stage' = FirstCalls(batch)
          /\ outcome' = fresh("none")
          /\ sent' = fresh("none") /\ endSays' = fresh("none")
          /\ conversation' = Append(conversation, Message("assistant", step, Len(batch)))
    /\ loop' = "batch"
    /\ UNCHANGED <<step, observed, recoveryInjections, result, cause, aborted,
                   timer>>

-----------------------------------------------------------------------------
(* One call.  A worker that is through with a call takes the next one in the *)
(* same turn of the event loop.                                              *)

(* Mutant: a worker runs one call.                                           *)
TakeNone(i) == [stage EXCEPT ![i] = "settled"]

TakeNext(i) ==
    LET queued == {j \in DOMAIN calls : stage[j] = "queued"} IN
    [j \in DOMAIN calls |->
        IF j = i THEN "settled"
        ELSE IF j \in queued /\ \A m \in queued : j <= m THEN "pre" ELSE stage[j]]

(* emitToolCallEnd delivers the first of the ends it is asked for.           *)
EndSent(i, says) ==
    IF sent[i] = "end" THEN UNCHANGED <<sent, endSays>>
    ELSE /\ sent' = [sent EXCEPT ![i] = "end"]
         /\ endSays' = [endSays EXCEPT ![i] = says]

(* preToolUse denies: a record, and no event.                                *)
PreToolUseDenies(i) ==
    /\ stage[i] = "pre"
    /\ outcome' = [outcome EXCEPT ![i] = "denied"]
    /\ stage' = TakeNext(i)
    /\ UNCHANGED <<loop, convVars, calls, sent, endSays, result, cause,
                   aborted, timer>>

(* preToolUse lets a call of a known tool pass: tool-call-start is sent, and  *)
(* the user is asked unless the tool or a rule or the hook makes it needless.*)
(* dispatch_agent returns its promise out of the try block, so the finally   *)
(* block closes the call at once.                                            *)
PreToolUsePasses(i) ==
    /\ stage[i] = "pre"
    /\ calls[i] # "unknown"
    /\ \E waits \in {FALSE, calls[i] = "tool"} :
          /\ stage' = [stage EXCEPT ![i] = IF waits THEN "approval" ELSE "running"]
          /\ timer' = IF waits THEN BeginBlocking(timer) ELSE timer
    /\ IF calls[i] = "dispatch" THEN EndSent(i, "failed")
       ELSE sent' = [sent EXCEPT ![i] = "start"] /\ UNCHANGED endSays
    /\ UNCHANGED <<loop, convVars, calls, outcome, result, cause, aborted>>

(* A name the registry does not know: start, end and record.                 *)
UnknownTool(i) ==
    /\ stage[i] = "pre"
    /\ calls[i] = "unknown"
    /\ outcome' = [outcome EXCEPT ![i] = "failed"]
    /\ stage' = [stage EXCEPT ![i] = "post"]
    /\ EndSent(i, "failed")
    /\ UNCHANGED <<loop, convVars, calls, result, cause, aborted, timer>>

UserApproves(i) ==
    /\ stage[i] = "approval"
    /\ stage' = [stage EXCEPT ![i] = "running"]
    /\ timer' = EndBlocking(timer)
    /\ UNCHANGED <<loop, convVars, calls, outcome, sent, endSays, result, cause,
                   aborted>>

(* The user denies, or the approval callback throws.                         *)
UserDenies(i) ==
    /\ stage[i] = "approval"
    /\ stage' = [stage EXCEPT ![i] = "post"]
    /\ outcome' = [outcome EXCEPT ![i] = "denied"]
    /\ EndSent(i, "failed")
    /\ timer' = EndBlocking(timer)
    /\ UNCHANGED <<loop, convVars, calls, result, cause, aborted>>

(* Mutant: the end of a call is sent before its result is looked at.         *)
ToolSettlesEndFirst(i) ==
    /\ stage[i] = "running"
    /\ stage' = [stage EXCEPT ![i] = "post"]
    /\ \E says \in {"ok", "failed"} : outcome' = [outcome EXCEPT ![i] = says]
    /\ EndSent(i, "ok")
    /\ UNCHANGED <<loop, convVars, calls, result, cause, aborted, timer>>

(* The executor, or the sub-agent, answers: success, failure or exception.   *)
ToolSettles(i) ==
    /\ stage[i] = "running"
    /\ stage' = [stage EXCEPT ![i] = "post"]
    /\ \E says \in {"ok", "failed"} :
          /\ outcome' = [outcome EXCEPT ![i] = says]
          /\ EndSent(i, says)
    /\ UNCHANGED <<loop, convVars, calls, result, cause, aborted, timer>>

PostToolUse(i) ==
    /\ stage[i] = "post"
    /\ stage' = TakeNext(i)
    /\ UNCHANGED <<loop, convVars, calls, outcome, sent, endSays, result,
                   cause, aborted, timer>>

(* preToolUse or postToolUse throws: the worker is gone, Promise.all rejects *)
(* and so does the loop, if it still waits; the other workers go on.         *)
CallHookThrows(i) ==
    /\ stage[i] \in {"pre", "post"}
    /\ stage' = [stage EXCEPT ![i] = "threw"]
    /\ IF loop = "batch" THEN HookThrows ELSE UNCHANGED <<loop, timer, result, cause>>
    /\ UNCHANGED <<convVars, calls, outcome, sent, endSays, aborted>>

(* The batch's variables are gone with the step.                             *)
NoCalls ==
    /\ calls' = <<>> /\ stage' = <<>> /\ outcome' = <<>>
    /\ sent' = <<>> /\ endSays' = <<>>

(* All workers returned: observations and tool messages in the calls' order. *)
BatchDone ==
    /\ loop = "batch"
    /\ \A i \in DOMAIN calls : stage[i] = "settled"
    /\ observed' = observed \cup {outcome[i] : i \in DOMAIN calls}
    /\ conversation' = conversation \o [i \in DOMAIN calls |-> Message("tool", step, i)]
    /\ loop' = "top"
    /\ NoCalls
    /\ UNCHANGED <<step, recoveryInjections, result, cause, aborted, timer>>

-----------------------------------------------------------------------------
(* The run is superseded or cancelled, or the task's timeout fires.  The loop*)
(* looks at the signal between its steps only.                               *)
Abort ==
    /\ ~ aborted
    /\ loop # "done"
    /\ aborted' = TRUE
    /\ UNCHANGED <<loop, convVars, callVars, result, cause, timer>>

LlmAnswers == LlmAnswersText \/ LlmAnswersCalls

LoopStep ==
    \/ NextStep \/ Interrupted \/ Exhausted \/ BatchDone
    \/ LlmAnswers \/ LlmFails \/ LlmHookThrows \/ LlmSpendsBudget

PreToolUse(i) == PreToolUsePasses(i) \/ PreToolUseDenies(i) \/ UnknownTool(i)

CallStep(i) == PreToolUse(i) \/ ToolSettles(i) \/ PostToolUse(i)

Next ==
    \/ LoopStep
    \/ \E i \in DOMAIN calls :
          \/ CallStep(i) \/ CallHookThrows(i)
          \/ UserApproves(i) \/ UserDenies(i)
    \/ Abort

(* Hooks, provider and executor answer, having a timeout or a signal that    *)
(* has one; nothing makes the user answer.                                   *)
Spec ==
    /\ Init /\ [][Next]_vars
    /\ WF_vars(LoopStep)
    /\ \A i \in UNION {DOMAIN batch : batch \in Batches} : WF_vars(i \in DOMAIN calls /\ CallStep(i))

-----------------------------------------------------------------------------
(* Every tool message answers a call of the assistant message before it, in  *)
(* the order of the calls, and every call of a batch is answered: whatever   *)
(* the workers' order, and after compaction.  Calls that came with another   *)
(* finish reason are not run; a recovery prompt follows them.                *)
ToolMessagesAnswerCalls ==
    \A k \in DOMAIN conversation :
        LET m == conversation[k] IN
        /\ m.role = "tool" =>
              /\ k > m.call
              /\ conversation[k - m.call].role = "assistant"
              /\ conversation[k - m.call].step = m.step
              /\ conversation[k - m.call].call >= m.call
        /\ (m.role = "assistant" /\ m.call > 0 /\ k < Len(conversation)) =>
              \/ conversation[k + 1].role = "system"
              \/ \A i \in 1 .. m.call :
                    k + i <= Len(conversation) /\ conversation[k + i] = Message("tool", m.step, i)

(* What the stream said of a call is what the model is told of it, but for   *)
(* the calls of dispatch_agent; a call that preToolUse denied left no event. *)
EventsAgreeWithRecords ==
    \A i \in DOMAIN calls : (stage[i] = "settled" /\ calls[i] # "dispatch") =>
        \/ sent[i] = "end" /\ endSays[i] = (IF outcome[i] = "ok" THEN "ok" ELSE "failed")
        \/ sent[i] = "none" /\ outcome[i] = "denied"

(* The time the user takes is not charged to the loop, and only that time:   *)
(* the clock stands while at least one approval is open, and no longer.      *)
UserWaitIsNotCharged ==
    timer.active => (timer.blocked <=> \E i \in DOMAIN calls : stage[i] = "approval")

(* What was observed is not lost: a loop that observed something throws only *)
(* because of a hook or of the budget.                                       *)
ObservationsSurvive ==
    (result = "threw" /\ observed # {}) => cause \in {"hook", "budget"}

(* A loop whose tools all failed is not taken for an answer before the model *)
(* was told to go on as often as configured.                                 *)
RecoveryBeforeGivingUp ==
    (result = "ready" /\ HadToolFailure /\ ~ HadToolSuccess)
        => recoveryInjections = RecoveryRetries

(* How a loop fails: neither of them is given up.                            *)
FailsHonestly == ObservationsSurvive /\ RecoveryBeforeGivingUp

(* The loop comes to an end or waits for the user.                           *)
LoopEndsOrWaits ==
    <>(\/ loop = "done"
       \/ [](\E i \in DOMAIN calls : stage[i] = "approval"))

(* docs/technical-design.md says of executeAgentDispatchCall that it emits   *)
(* exactly one tool-call-end whether the dispatch succeeds or fails: the end *)
(* of a dispatch that succeeded says so.                                     *)
DispatchEndTellsOutcome ==
    \A i \in DOMAIN calls : (calls[i] = "dispatch" /\ stage[i] = "settled")
        => endSays[i] = outcome[i] \/ outcome[i] = "denied"

-----------------------------------------------------------------------------
(* Strengthening for the proofs.  A tool message stands behind the ones of   *)
(* the calls before its own, which stand behind the assistant message: so a  *)
(* compaction takes a round away as a whole.                                 *)
Whole(conv) ==
    \A k \in DOMAIN conv :
        LET m == conv[k] IN
        /\ m.role = "tool" =>
              /\ m.call \in 1 .. k - 1
              /\ conv[k - m.call].role = "assistant"
              /\ conv[k - m.call].step = m.step
              /\ conv[k - m.call].call >= m.call
              /\ \A j \in 1 .. m.call : conv[k - m.call + j] = Message("tool", m.step, j)
        /\ (m.role = "assistant" /\ m.call > 0 /\ k < Len(conv)) =>
              \/ conv[k + 1].role = "system"
              \/ \A i \in 1 .. m.call :
                    k + i <= Len(conv) /\ conv[k + i] = Message("tool", m.step, i)

(* The last message awaits the results of its calls.                         *)
Awaits(conv) ==
    conv # <<>> /\ conv[Len(conv)].role = "assistant" /\ conv[Len(conv)].call > 0

RoundsWhole ==
    /\ Whole(conversation)
    /\ loop \in {"top", "llm"} => ~ Awaits(conversation)
    /\ loop = "batch" =>
          /\ conversation # <<>>
          /\ conversation[Len(conversation)] = Message("assistant", step, Len(calls))

(* What was sent of a call, and what is recorded, follow its stage.          *)
CallFollows(i) ==
    /\ stage[i] \in {"queued", "pre"} => sent[i] = "none" /\ outcome[i] = "none"
    /\ stage[i] = "approval" => calls[i] = "tool" /\ sent[i] = "start"
    /\ (stage[i] = "running" /\ calls[i] # "dispatch") => sent[i] = "start"
    /\ stage[i] = "post" =>
          /\ sent[i] = "end"
          /\ calls[i] # "dispatch" =>
                endSays[i] = (IF outcome[i] = "ok" THEN "ok" ELSE "failed")
    /\ stage[i] \in {"post", "settled"} => outcome[i] # "none"

CallsFollow ==
    /\ loop \in {"top", "llm"} => calls = <<>>
    /\ loop \in {"llm", "batch"} => step >= 1
    /\ \A i \in DOMAIN calls : CallFollows(i)

(* The clock's depth counts the open approvals, until it is ended.           *)
ClockCounts ==
    /\ timer.active <=> loop # "done"
    /\ timer.blocked <=> timer.depth > 0
    /\ timer.depth = IF timer.active THEN Cardinality({i \in DOMAIN calls : stage[i] = "approval"})
                                     ELSE 0

(* Where the loop ended, and with what before it.                            *)
EndsFollow ==
    /\ result # "none" <=> loop = "done"
    /\ cause # "none" <=> result = "threw"
    /\ cause = "other" => observed = {}
    /\ RecoveryBeforeGivingUp

LoopIInv ==
    /\ TypeOK /\ RoundsWhole /\ CallsFollow /\ EventsAgreeWithRecords /\ ClockCounts
    /\ EndsFollow
=============================================================================
