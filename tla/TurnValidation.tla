--------------------------- MODULE TurnValidation ----------------------------
(***************************************************************************)
(* What becomes of a turn once its tasks have run: the candidate answer    *)
(* with its evidence and claims (packages/core/src/engine/phases/          *)
(* candidate-answer.ts, engine/evidence), the rules, the semantic judge    *)
(* with its budget, cache and timeout (engine/phases/validation), the      *)
(* outcome, the retry, the guards of turnStop and the text of the answer   *)
(* (engine/phases/output.ts, engine/engine.ts).                            *)
(*                                                                         *)
(* Abstractions: texts are left out; a finding is its code, severity and   *)
(* whether it is retryable; the judge's key is what it is derived from;    *)
(* routes are the two the routing phase makes, the loop's and one of two   *)
(* agents; rules of a host's own are not modelled.                         *)
(***************************************************************************)
EXTENDS Naturals, FiniteSets, Sequences, SequencesExt, Filtering

CONSTANTS
    MaxRetries,     \* executionPolicy.maxRetries
    MaxJudgeCalls,  \* validation.semanticJudge.maxCallsPerTurn
    CacheCapacity   \* validation.semanticJudge.cacheCapacity

ASSUME JudgeAssumption ==
    MaxRetries \in Nat /\ MaxJudgeCalls \in Nat /\ CacheCapacity \in Nat \ {0}

VARIABLES
    mode,       \* validation.policyMode
    kept,       \* the host passes a budgeted adapter, kept over the validations
    judgeStage, \* where the turn is
    tried,      \* attempts that were validated
    remains,    \* what execution left (see LoopsLeft, BatchesLeft)
    findings,   \* of this validation, in order
    cache,      \* the judge's answers, <<key, findings>>, oldest first
    spent,      \* calls the budget counted
    asked,      \* calls of the inner judge: in this validation, in the turn
    judged,     \* the outcome of the last validation
    prefix,     \* "none" | "degrade" | "annotate", of the turnStop guard
    text        \* what the answer says

verdictVars == <<mode, kept, judgeStage, tried, remains, findings, cache, spent, asked, judged,
                 prefix, text>>

Stages == {"executing", "ruling", "judging", "hooked", "stopping", "outputting",
           "delivered", "failed"}
Modes == {"off", "deterministic-only", "auto", "always"}

Finding(code, severity, retryable) ==
    [code |-> code, severity |-> severity, retryable |-> retryable]

(* What the loop's task leaves: its result, if it settled with one, whether the *)
(* error is retryable, whether there is a draft, and its observations.           *)
StepEnds == {"completed", "failed", "skipped"}
LoopsLeft == [route : {"loop"}, steps : {<<s>> : s \in StepEnds},
          result : {"none", "ready_for_output", "partial"}, retryable : BOOLEAN,
          draft : BOOLEAN, observed : {{}, {<<"call", 1>>}}]
PlausibleLoop(l) ==
    /\ l.result = "none" <=> l.steps[1] # "completed"
    /\ l.draft => l.result = "ready_for_output"
    /\ l.result = "none" => l.observed = {}
    /\ l.retryable => l.steps[1] = "failed" \/ l.result = "partial"

(* Two agents, the first of which writes and the second reads an external       *)
(* source, by their descriptors.                                                 *)
BatchesLeft == [route : {"agents"}, steps : StepEnds \X StepEnds, result : {"none"},
            retryable : BOOLEAN, draft : {FALSE}, observed : {{}}]
PlausibleBatch(b) == b.retryable => "failed" \in ToSet(b.steps)

Remains == {l \in LoopsLeft : PlausibleLoop(l)} \cup {b \in BatchesLeft : PlausibleBatch(b)}
AtFirst == CHOOSE l \in Remains : l.steps = <<"skipped">>

Codes == {"execution_failed", "tool_use_partial", "evidence_required_missing",
          "budget_exhausted", "judged", "error", "timeout", "hook"}
Findings == [code : Codes, severity : {"info", "warning", "error", "fatal"},
             retryable : BOOLEAN]
Keys == {l.steps : l \in Remains} \X BOOLEAN \X BOOLEAN \X BOOLEAN \X BOOLEAN

VerdictTypeOK ==
    /\ mode \in Modes /\ kept \in BOOLEAN /\ judgeStage \in Stages
    /\ tried \in 0 .. MaxRetries + 1 /\ remains \in Remains
    /\ findings \in Seq(Findings)
    /\ cache \in Seq(Keys \X Seq(Findings)) /\ Len(cache) <= CacheCapacity
    /\ spent \in Nat /\ asked \in [validation : Nat, turn : Nat]
    /\ judged \in {"none", "pass", "degrade", "handoff", "retry-turn", "tool-loop-finalize"}
    /\ text \in {"none", "draft", "synthesis", "prefix", "json", "fallback"}

VerdictInit ==
    /\ mode \in Modes /\ kept \in BOOLEAN
    /\ judgeStage = "executing" /\ tried = 0 /\ remains = AtFirst
    /\ findings = <<>> /\ cache = <<>> /\ spent = 0
    /\ asked = [validation |-> 0, turn |-> 0]
    /\ judged = "none" /\ prefix = "none" /\ text = "none"

-----------------------------------------------------------------------------
(* collectEvidence: the loop's observations, what each agent ran, and, by the   *)
(* descriptors, what an agent that was not skipped wrote or read outside.        *)
Entry(source, by, purpose, type) ==
    [source |-> source, by |-> by, purpose |-> purpose, type |-> type]

Evidence(l) ==
    {Entry(o, "tool-use", "execution-observation", "tool-observation") : o \in l.observed}
      \cup (IF l.route # "agents" THEN {} ELSE
            {Entry(<<"run", n>>, "agent-runtime", "execution-observation", "agent-run") :
                n \in {i \in {1, 2} : l.steps[i] = "completed"}}
            \cup {Entry(<<"agent", 1>>, "tool-use", "execution-observation", "file-write") :
                n \in {i \in {1} : l.steps[i] # "skipped"}}
            \cup {Entry(<<"agent", 2>>, "tool-use", "claim-support", "external-source") :
                n \in {i \in {2} : l.steps[i] # "skipped"}})

(* mapDeterministicClaims.                                                       *)
Claims(l) ==
    {[source |-> e.source,
      needs |-> IF e.type \in {"file-write", "external-source"} THEN "same-source" ELSE "any"] :
        e \in {f \in Evidence(l) : f.purpose # "context"
                   /\ (f.type \in {"tool-observation", "agent-run"}
                          => f.purpose = "execution-observation")}}

Supported(claim, l) ==
    \E e \in Evidence(l) : claim.needs = "same-source" => e.source = claim.source

(* buildSignals.                                                                 *)
HasClaims == Claims(remains) # {}
External == \E e \in Evidence(remains) : e.purpose = "claim-support" \/ e.by # "tool-use"
Faulty == \E i \in DOMAIN findings : findings[i].code \in {"execution_failed", "tool_use_partial"}

(* The deterministic rules, in the order they are registered.                    *)
When(condition, finding) == IF condition THEN <<finding>> ELSE <<>>

Rules(l) ==
    When("failed" \in ToSet(l.steps), Finding("execution_failed", "error", l.retryable))
      \o When(l.result = "partial", Finding("tool_use_partial", "error", l.retryable))
      \o When(\E c \in Claims(l) : ~ Supported(c, l),
              Finding("evidence_required_missing", "error", FALSE))

-----------------------------------------------------------------------------
(* The tasks have run, and the candidate is made and given to the rules.         *)
Executed ==
    /\ judgeStage = "executing"
    /\ remains' \in Remains
    /\ findings' = Rules(remains')
    /\ judgeStage' = "ruling"
    /\ asked' = [asked EXCEPT !.validation = 0]
    /\ spent' = IF kept THEN spent ELSE 0
    /\ cache' = IF kept THEN cache ELSE <<>>
    /\ UNCHANGED <<mode, kept, tried, judged, prefix, text>>

(* shouldInvokeSemanticJudge.                                                     *)
JudgeDue == mode = "always" \/ (mode = "auto" /\ HasClaims /\ External)

Key == <<remains.steps, HasClaims, remains.observed # {}, External, Faulty>>
Cached == {i \in DOMAIN cache : cache[i][1] = Key}

(* The oldest answer gives way.                                                   *)
Written(answer) ==
    (IF Len(cache) >= CacheCapacity THEN Tail(cache) ELSE cache) \o <<<<Key, answer>>>>

GoesOn(answer) ==
    /\ findings' = findings \o answer
    /\ judgeStage' = "hooked"
    /\ UNCHANGED <<mode, kept, tried, remains, judged, prefix, text>>

JudgeNotDue ==
    /\ judgeStage = "ruling" /\ ~ JudgeDue
    /\ GoesOn(<<>>) /\ UNCHANGED <<cache, spent, asked>>

JudgeRemembers ==
    /\ judgeStage = "ruling" /\ JudgeDue
    /\ \E i \in Cached :
          /\ GoesOn(cache[i][2])
          /\ cache' = Append(RemoveAt(cache, i), cache[i])
    /\ UNCHANGED <<spent, asked>>

JudgeExhausted ==
    /\ judgeStage = "ruling" /\ JudgeDue /\ Cached = {} /\ spent >= MaxJudgeCalls
    /\ LET answer == <<Finding("budget_exhausted", "info", FALSE)>>
       IN GoesOn(answer) /\ cache' = Written(answer)
    /\ UNCHANGED <<spent, asked>>

(* Mutant: a call is counted when it is answered.                                 *)
CountedOnAnswer(n) == n

(* JudgeBudget.consume, before the inner judge is called.                         *)
Counted(n) == n + 1

AskJudge ==
    /\ judgeStage = "ruling" /\ JudgeDue /\ Cached = {} /\ spent < MaxJudgeCalls
    /\ spent' = Counted(spent)
    /\ asked' = [validation |-> asked.validation + 1, turn |-> asked.turn + 1]
    /\ judgeStage' = "judging"
    /\ UNCHANGED <<mode, kept, tried, remains, findings, cache, judged, prefix, text>>

(* The judge answers, fails, or is not waited for any longer.                     *)
Judged(answer) ==
    /\ judgeStage = "judging"
    /\ GoesOn(answer) /\ cache' = Written(answer)
    /\ UNCHANGED <<spent, asked>>

JudgeAnswers == \E answer \in {<<>>, <<Finding("judged", "warning", FALSE)>>,
                               <<Finding("judged", "error", FALSE)>>} : Judged(answer)
JudgeThrows == Judged(<<Finding("error", "warning", FALSE)>>)
JudgeTimesOut == Judged(<<Finding("timeout", "info", FALSE)>>)

(* reduceOutcome.                                                                 *)
Fatal(f) == f.severity = "fatal"
Retryable(f) == f.severity = "error" /\ f.retryable
Error(f) == f.severity = "error"

ReduceOutcome(list) ==
    LET fatal == {f \in ToSet(list) : Fatal(f)}
        retryable == {f \in ToSet(list) : Retryable(f)}
        errors == {f \in ToSet(list) : Error(f)}
    IN CASE fatal # {} -> "handoff"
         [] fatal = {} /\ retryable # {} ->
               IF FirstOf(list, retryable).code = "tool_use_partial"
                 THEN "tool-loop-finalize" ELSE "retry-turn"
         [] fatal = {} /\ retryable = {} /\ errors # {} -> "degrade"
         [] OTHER -> "pass"

(* decideTurnRetry: not beyond the limit, and not after an attempt that ended so. *)
RetriesOnce(outcome) ==
    outcome = "retry-turn" /\ tried < MaxRetries
      /\ judged \notin {"retry-turn", "tool-loop-finalize"}

(* The handlers of turnStop, asked for findings only, and the outcome.            *)
Validated ==
    /\ judgeStage = "hooked"
    /\ \E hook \in {<<>>, <<Finding("hook", "error", TRUE)>>, <<Finding("hook", "fatal", FALSE)>>} :
          LET outcome == ReduceOutcome(findings \o hook) IN
          /\ findings' = findings \o hook
          /\ judged' = outcome
          /\ tried' = tried + 1
          /\ judgeStage' = IF RetriesOnce(outcome) THEN "executing" ELSE "stopping"
    /\ UNCHANGED <<mode, kept, remains, cache, spent, asked, prefix, text>>

Passed == judged = "pass"
Candidate == IF remains.route = "agents" /\ "completed" \in ToSet(remains.steps) THEN "synthesis"
             ELSE IF remains.draft THEN "draft" ELSE "none"

(* The guards of turnStop, asked again: they refuse the turn, or put something     *)
(* before the candidate, or pass it.                                               *)
GuardRefuses ==
    /\ judgeStage = "stopping" /\ judgeStage' = "failed"
    /\ UNCHANGED <<mode, kept, tried, remains, findings, cache, spent, asked, judged, prefix, text>>

GuardPasses ==
    /\ judgeStage = "stopping" /\ judgeStage' = "outputting"
    /\ prefix' \in {"none", "degrade", "annotate"}
    /\ UNCHANGED <<mode, kept, tried, remains, findings, cache, spent, asked, judged, text>>

(* runOutputPhase: the candidate with its prefix, if validation passed.             *)
AnswerText ==
    IF ~ Passed THEN "fallback"
    ELSE IF Candidate # "none" THEN Candidate
    ELSE IF prefix # "none" THEN "prefix" ELSE "json"

Delivered ==
    /\ judgeStage = "outputting" /\ judgeStage' = "delivered"
    /\ text' = AnswerText
    /\ UNCHANGED <<mode, kept, tried, remains, findings, cache, spent, asked, judged, prefix>>

VerdictStep ==
    \/ Executed \/ JudgeNotDue \/ JudgeRemembers \/ JudgeExhausted \/ AskJudge
    \/ JudgeThrows \/ JudgeTimesOut \/ JudgeAnswers
    \/ Validated \/ GuardRefuses \/ GuardPasses \/ Delivered
VerdictNext == VerdictStep

VerdictSpec == VerdictInit /\ [][VerdictNext]_verdictVars

-----------------------------------------------------------------------------
(* What validation is worth.  An answer of the model's is delivered only if in *)
(* the last attempt nothing failed or ended early and neither the judge nor a  *)
(* handler found an error, whatever an earlier attempt left.  A judge that was *)
(* out of budget, late or failing decides nothing.  It is called no more often *)
(* than its budget says, late and failing calls counted, for the turn if the   *)
(* host keeps it and for the validation otherwise.  An attempt is repeated     *)
(* once at most, and only for an error that can be retried.  No claim the      *)
(* engine derives lacks the evidence it was derived from.                      *)
Answered(list) == Kept(list, {f \in ToSet(list) : f.severity \notin {"info", "warning"}})

VerdictSound ==
    /\ text \in {"draft", "synthesis"} =>
          /\ "failed" \notin ToSet(remains.steps) /\ remains.result # "partial"
          /\ Answered(findings) = <<>>
    /\ judgeStage \in {"stopping", "outputting", "delivered"} =>
          /\ judged = "pass" <=> Answered(findings) = <<>>
          /\ judged = ReduceOutcome(Answered(findings))
    /\ asked.validation <= MaxJudgeCalls
    /\ kept => asked.turn <= MaxJudgeCalls
    /\ tried > 0 /\ judgeStage \notin {"stopping", "outputting", "delivered", "failed"} =>
          judged = "retry-turn" /\ tried = 1
    /\ \A c \in Claims(remains) : Supported(c, remains)

(* packages/core/src/engine/phases/validation/semantic-judge.ts:14: no more    *)
(* than N real calls of the judge within a turn.                               *)
JudgeBoundedPerTurn == asked.turn <= MaxJudgeCalls

-----------------------------------------------------------------------------
(* What the proofs are by induction on.  The budget counts what is asked:    *)
(* of the turn, if the host keeps the judge, of the validation otherwise.    *)
BudgetCounts ==
    /\ spent <= MaxJudgeCalls
    /\ spent = IF kept THEN asked.turn ELSE asked.validation
    /\ asked.validation <= asked.turn

(* Before the last validation is over, there was none or one that retries.   *)
OneRetry ==
    judgeStage \notin {"stopping", "outputting", "delivered", "failed"} =>
        \/ tried = 0 /\ judged = "none"
        \/ tried = 1 /\ judged = "retry-turn" /\ MaxRetries >= 1

(* A failed or partial attempt has a finding, which nothing takes back.      *)
FaultsAreFound ==
    judgeStage # "executing" /\ ("failed" \in ToSet(remains.steps) \/ remains.result = "partial")
      => \E i \in DOMAIN findings : Error(findings[i])

(* What was decided is what the findings say, and the answer follows it.     *)
DecidedByFindings ==
    /\ judgeStage \in {"stopping", "outputting", "delivered", "failed"} =>
          judged = ReduceOutcome(findings)
    /\ text # "none" => judgeStage = "delivered"
    /\ text \in {"draft", "synthesis"} => judged = "pass"

VerdictIInv ==
    VerdictTypeOK /\ BudgetCounts /\ OneRetry /\ FaultsAreFound /\ DecidedByFindings
=============================================================================
