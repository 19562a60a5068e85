---------------------------- MODULE TurnPipeline ----------------------------
(***************************************************************************)
(* One turn of Engine.runStream (packages/core/src/engine/engine.ts) from  *)
(* the turnStart guard to the done chunk: the attempts, the tool loop that *)
(* runs beside the generator, the outbox and the delta queue between them, *)
(* the sealing of open calls, validation and retry, the turnStop guard,    *)
(* the output and the catch block.                                         *)
(*                                                                         *)
(* The task of an attempt may be reported (its timer fired, one of its     *)
(* workers rejected) while its tool loop goes on; the outbox and the list  *)
(* of records are those of the turn, the delta queue is that of the        *)
(* attempt.  Every yield waits for the consumer, who may be slow.          *)
(*                                                                         *)
(* Abstractions: all calls are of one tool; what a guard, a rule or a      *)
(* phase says is one of the answers the code tells apart; text chunks,     *)
(* progress, usage, the prefixes a guard or the budget puts on the answer, *)
(* and what a loop left behind does once the turn fails or is over are     *)
(* left out; a consumer that stops is in EngineRuns.                       *)
(***************************************************************************)
EXTENDS Naturals, FiniteSets, Sequences, SequencesExt

CONSTANTS
    MaxCalls,           \* bound: the tool calls of a turn; those of an attempt are numbered
    MaxTurnRetries      \* config.runtime.maxTurnRetries

ASSUME TurnAssumption == MaxTurnRetries \in Nat /\ MaxCalls \in Nat

VARIABLES
    streaming,  \* config.runtime.streamingOutput
    at,         \* where the generator is
    attempt,    \* turnAttemptCount
    loop,       \* the tool loop of each attempt
    stage,      \* where each call of each attempt is
    queue,      \* the attempt's DeltaStreamQueue
    outbox,     \* toolLoopEventOutbox
    records,    \* toolLoopToolCalls
    cursor,     \* the flush in progress: next chunk, and the end of a copied slice
    limit,
    step,       \* how the task of the attempt was reported
    toolCalls,  \* the metadata's tool calls
    verdict,    \* the outcome of the last validation
    answer,     \* output.content: the draft, the (empty) task results, or the fallback
    told        \* the chunks the consumer was handed

turnVars == <<streaming, at, attempt, loop, stage, queue, outbox, records, cursor, limit,
              step, toolCalls, verdict, answer, told>>
workVars == <<loop, stage, queue, outbox, records, step>>
flushVars == <<cursor, limit>>
answerVars == <<toolCalls, verdict, answer>>


Calls == 1 .. MaxCalls

Attempts == 0 .. MaxTurnRetries
CallIds == Attempts \X Calls
NoCall == <<0, 0>>
Chunk(type, call, ok) == [type |-> type, call |-> call, ok |-> ok]
End == Chunk("end-of-stream", NoCall, TRUE)
CallTypes == {"start", "end", "sealed"}
Chunks == [type : CallTypes, call : CallIds, ok : BOOLEAN]
Marks == {"turnStop", "error", "completed", "degraded", "failed"}
ToldChunks == Chunks \cup [type : Marks, call : {NoCall}, ok : BOOLEAN]

(* Types of the turn's locals.                                               *)
TurnTypeOK ==
    /\ at \in {"setup", "attempt", "executing", "executed", "flushing", "validating",
               "stopping", "ended"}
    /\ attempt \in Attempts
    /\ loop \in [Attempts -> {"idle", "running", "returned", "left"}]
    /\ stage \in [CallIds -> {"none", "open", "closed"}]
    /\ queue \in [Attempts -> Seq(Chunks \cup {End})]
    /\ outbox \in Seq(Chunks) /\ told \in Seq(ToldChunks)
    /\ records \in Seq(CallIds \X BOOLEAN) /\ toolCalls \in Seq(CallIds \X BOOLEAN)
    /\ cursor \in Nat \ {0} /\ limit \in Nat /\ streaming \in BOOLEAN
    /\ answer \in {"none", "draft", "results", "fallback"}
    /\ step \in {"none", "ready", "partial", "failed", "skipped"}
    /\ verdict \in {"none", "pass", "retry", "reject"}

TurnInit ==
    /\ streaming = FALSE
    /\ at = "setup" /\ attempt = 0
    /\ loop = [a \in Attempts |-> "idle"]
    /\ stage = [c \in CallIds |-> "none"]
    /\ queue = [a \in Attempts |-> <<>>]
    /\ outbox = <<>> /\ records = <<>> /\ cursor = 1 /\ limit = 0
    /\ step = "none" /\ toolCalls = <<>> /\ verdict = "none"
    /\ answer = "none"
    /\ told = <<>>

-----------------------------------------------------------------------------
(* Session, safety and the turnStart guard, which lets the turn pass.         *)
TurnStart ==
    /\ at = "setup"
    /\ streaming' \in BOOLEAN
    /\ at' = "attempt"
    /\ UNCHANGED <<attempt, workVars, flushVars, answerVars, told>>

(* Mutant: a retry keeps the events of the attempt before.                   *)
BeginAttemptKeepsEvents ==
    /\ at = "attempt"
    /\ records' = <<>> /\ toolCalls' = <<>>
    /\ loop' = [loop EXCEPT ![attempt] = "running"]
    /\ step' = "none"
    /\ at' = "executing"
    /\ UNCHANGED <<streaming, attempt, stage, queue, outbox, flushVars, verdict, answer, told>>

(* An attempt begins: a retry empties the turn's buckets; routing, planning,  *)
(* recall, budget and assembly come before the task is started.               *)
BeginAttempt ==
    /\ at = "attempt"
    /\ outbox' = <<>> /\ records' = <<>> /\ toolCalls' = <<>>
    /\ loop' = [loop EXCEPT ![attempt] = "running"]
    /\ step' = "none"
    /\ at' = "executing"
    /\ UNCHANGED <<streaming, attempt, stage, queue, flushVars, verdict, answer, told>>

-----------------------------------------------------------------------------
(* onToolLoopEvent: the outbox of the turn, the queue of the attempt.         *)
Emit(a, chunk) ==
    /\ outbox' = Append(outbox, chunk)
    /\ queue' = IF streaming THEN [queue EXCEPT ![a] = Append(@, chunk)] ELSE queue

Loops(a) == loop[a] \in {"running", "left"} /\ at # "ended"

CallStarts(a, c) ==
    /\ Loops(a)
    /\ stage[<<a, c>>] = "none"
    /\ \A d \in 1 .. c - 1 : stage[<<a, d>>] # "none"
    /\ Cardinality({d \in CallIds : stage[d] # "none"}) < MaxCalls
    /\ stage' = [stage EXCEPT ![<<a, c>>] = "open"]
    /\ Emit(a, Chunk("start", <<a, c>>, TRUE))
    /\ UNCHANGED <<streaming, at, attempt, loop, records, step, flushVars, answerVars, told>>

CallEnds(a, c) ==
    /\ Loops(a)
    /\ stage[<<a, c>>] = "open"
    /\ stage' = [stage EXCEPT ![<<a, c>>] = "closed"]
    /\ \E ok \in BOOLEAN :
          /\ Emit(a, Chunk("end", <<a, c>>, ok))
          /\ records' = Append(records, <<<<a, c>>, ok>>)
    /\ UNCHANGED <<streaming, at, attempt, loop, step, flushVars, answerVars, told>>

(* The scheduler reports the task; the end mark goes to the queue.            *)
Report(a, how, status) ==
    /\ a = attempt /\ at = "executing" /\ loop[a] = "running"
    /\ loop' = [loop EXCEPT ![a] = how]
    /\ step' = status
    /\ queue' = IF streaming THEN [queue EXCEPT ![a] = Append(@, End)] ELSE queue
    /\ UNCHANGED <<streaming, at, attempt, stage, outbox, records, flushVars, answerVars, told>>

LoopReturns(a) ==
    /\ \A c \in Calls : stage[<<a, c>>] # "open"
    /\ \E status \in {"ready", "partial", "failed"} : Report(a, "returned", status)

(* A worker rejects, or the timer fires and its grace period passes: the calls *)
(* that are open stay open.                                                    *)
LoopLeft(a) == Report(a, "left", "failed")

(* The run is cancelled before a tool has answered: the task is skipped.       *)
LoopCancelled(a) ==
    /\ \A c \in Calls : stage[<<a, c>>] = "none"
    /\ Report(a, "returned", "skipped")

-----------------------------------------------------------------------------
(* The streaming loop hands over what is queued, up to the end mark.           *)
Deliver ==
    /\ at = "executing" /\ streaming
    /\ queue[attempt] # <<>>
    /\ queue' = [queue EXCEPT ![attempt] = Tail(@)]
    /\ LET chunk == Head(queue[attempt]) IN
          IF chunk = End THEN at' = "executed" /\ UNCHANGED told
                         ELSE told' = Append(told, chunk) /\ UNCHANGED at
    /\ UNCHANGED <<streaming, attempt, loop, stage, outbox, records, step, flushVars, answerVars>>

Await ==
    /\ at = "executing" /\ ~ streaming
    /\ step # "none"
    /\ at' = "executed"
    /\ UNCHANGED <<streaming, attempt, workVars, flushVars, answerVars, told>>

Has(box, type, c) == \E i \in DOMAIN box : box[i].type = type /\ box[i].call = c

(* sealOpenToolCallStreamChunks: an end for every call without one.            *)
Unclosed(box) ==
    {c \in CallIds : Has(box, "start", c) /\ ~ Has(box, "end", c) /\ ~ Has(box, "sealed", c)}
Seals(box) == SetToSeq({Chunk("sealed", c, FALSE) : c \in Unclosed(box)})

(* collectToolLoopChunksForTerminalFlush: in streaming mode the seals alone,   *)
(* as a copy; otherwise the outbox itself, which may still grow.               *)
FlushStarts ==
    /\ at = "executed"
    /\ outbox' = outbox \o Seals(outbox)
    /\ cursor' = IF streaming THEN Len(outbox) + 1 ELSE 1
    /\ limit' = Len(outbox')
    /\ at' = "flushing"
    /\ UNCHANGED <<streaming, attempt, loop, stage, queue, records, step, answerVars, told>>

FlushLeft == cursor <= IF streaming THEN limit ELSE Len(outbox)

FlushYields ==
    /\ at = "flushing" /\ FlushLeft
    /\ told' = Append(told, outbox[cursor])
    /\ cursor' = cursor + 1
    /\ UNCHANGED <<streaming, at, attempt, workVars, limit, answerVars>>

(* The records collected so far become metadata.                               *)
FlushEnds ==
    /\ at = "flushing" /\ ~ FlushLeft
    /\ toolCalls' = toolCalls \o records
    /\ at' = "validating"
    /\ UNCHANGED <<streaming, attempt, workVars, flushVars, verdict, answer, told>>

-----------------------------------------------------------------------------
(* runValidationPhase and reduceOutcome: the rules on the step, which find no  *)
(* fault with a skipped one, and what the judge or a handler of turnStop adds; *)
(* finalize, degrade and handoff all reject the draft.                         *)
Verdicts == {"retry", "reject"} \cup IF step \in {"ready", "skipped"} THEN {"pass"} ELSE {}

(* decideTurnRetry: one retry only, since a second retry in a row would repeat *)
(* the outcome of the attempt before.                                          *)
Retries(v) == v = "retry" /\ attempt < MaxTurnRetries /\ verdict # "retry"

Validate ==
    /\ at = "validating"
    /\ \E v \in Verdicts :
          /\ verdict' = v
          /\ IF Retries(v) THEN at' = "attempt" /\ attempt' = attempt + 1 /\ UNCHANGED told
                ELSE /\ at' = "stopping" /\ UNCHANGED attempt
                     /\ told' = Append(told, Chunk("turnStop", NoCall, TRUE))
    /\ UNCHANGED <<streaming, workVars, flushVars, toolCalls, answer>>

Passing == verdict = "pass"

(* runOutputPhase: the draft if validation passed, the results as they are if  *)
(* there is none, and a text of its own if it did not pass.                    *)
OutputText == IF ~ Passing THEN "fallback" ELSE IF step = "ready" THEN "draft" ELSE "results"

(* Mutant: any success makes a failure good, whichever came first.             *)
UnresolvedInAnyOrder(calls) ==
    (\E i \in DOMAIN calls : ~ calls[i][2]) /\ \A j \in DOMAIN calls : ~ calls[j][2]

(* unresolvedToolFailures: a failure no later success of the tool makes good.  *)
Unresolved(calls) == \E i \in DOMAIN calls :
    ~ calls[i][2] /\ \A j \in DOMAIN calls : j > i => ~ calls[j][2]

(* deriveTurnOutcome.                                                          *)
TurnOutcome == IF ~ Passing \/ Unresolved(toolCalls) THEN "degraded" ELSE "completed"

(* The turnStop guard passes the candidate, the output is made, the reply goes *)
(* to the memory and the done chunk goes out.                                  *)
YieldDone ==
    /\ at = "stopping"
    /\ answer' = OutputText
    /\ told' = Append(told, Chunk(TurnOutcome, NoCall, TRUE))
    /\ at' = "ended"
    /\ UNCHANGED <<streaming, attempt, workVars, flushVars, toolCalls, verdict>>

(* A guard, a hook, a phase or the memory may refuse or fail; execution throws *)
(* under failFast when its task has failed.  The catch block flushes as well,  *)
(* whatever was flushed before, and reports the failure.                       *)
PhaseThrows ==
    /\ \/ at \in {"setup", "attempt", "validating", "stopping"}
       \/ at = "executed" /\ step = "failed"
    /\ outbox' = outbox \o Seals(outbox)
    /\ limit' = Len(outbox')
    /\ told' = told \o (IF streaming THEN Seals(outbox) ELSE outbox')
                   \o <<Chunk("error", NoCall, FALSE), Chunk("failed", NoCall, FALSE)>>
    /\ at' = "ended"
    /\ UNCHANGED <<streaming, attempt, loop, stage, queue, records, step, cursor, answerVars>>

TurnStep ==
    \/ TurnStart \/ BeginAttempt \/ Deliver \/ Await \/ FlushStarts \/ FlushYields
    \/ FlushEnds \/ Validate \/ YieldDone \/ PhaseThrows

(* The scheduler reports every task it has started.                            *)
Reported(a) == LoopReturns(a) \/ LoopLeft(a) \/ LoopCancelled(a)

TurnNext ==
    \/ TurnStep
    \/ \E a \in Attempts : Reported(a) \/ \E c \in Calls : CallStarts(a, c) \/ CallEnds(a, c)

TurnSpec == TurnInit /\ [][TurnNext]_turnVars

-----------------------------------------------------------------------------
Is(i, types) == told[i].type \in types
Places(c, types) == {i \in DOMAIN told : Is(i, types) /\ told[i].call = c}
Ends == {"end", "sealed"}
Final == {"completed", "degraded", "failed"}
Told(types) == told # <<>> /\ Last(told).type \in types

(* What a stream promises its consumer.  The done chunk is the last, a failed *)
(* one behind its error.  When an attempt has been flushed, its calls that    *)
(* were told to have started were told to have ended, unless the end came     *)
(* behind the end mark of a queue that is no longer read, or the start while  *)
(* the flush was going on.  A call is told to start once, retries included,   *)
(* unless the catch block of a turn that does not stream tells all again, and *)
(* to end at most once while the turn streams.                                *)
StreamTold ==
    /\ \A i \in DOMAIN told : Is(i, Final) => i = Len(told)
    /\ Told({"failed"}) => Is(Len(told) - 1, {"error"})
    /\ at \in {"validating", "ended"} =>
          \A c \in {attempt} \X Calls : Places(c, {"start"}) # {} =>
              \/ Places(c, Ends) # {}
              \/ streaming /\ \E chunk \in ToSet(queue[attempt]) :
                                      chunk.type = "end" /\ chunk.call = c
              \/ ~ streaming /\ \E i \in DOMAIN outbox :
                                      i > limit /\ outbox[i] = Chunk("start", c, TRUE)
    /\ \A c \in CallIds :
          /\ streaming \/ ~ Told({"failed"}) => Cardinality(Places(c, {"start"})) <= 1
          /\ streaming => Cardinality(Places(c, Ends)) <= 1

(* A turn reported completed was passed by validation, delivers the draft (or, *)
(* cancelled before any call of its last attempt, results without a failure), *)
(* left no call of its last attempt unfinished, and every failure the consumer *)
(* saw in that attempt was made good by a later success, or by the success of *)
(* a call that an earlier attempt had left behind.  No draft is delivered that *)
(* validation did not pass.                                                   *)
HonestOutcome ==
    /\ answer = "draft" => verdict = "pass" /\ step = "ready"
    /\ Told({"completed"}) =>
        /\ verdict = "pass"
        /\ answer = IF step = "skipped" THEN "results" ELSE "draft"
        /\ \A i \in DOMAIN told : Is(i, Ends) /\ told[i].call[1] = attempt /\ ~ told[i].ok =>
              /\ ~ Is(i, {"sealed"})
              /\ \/ \E j \in DOMAIN told : j > i /\ Is(j, {"end"}) /\ told[j].ok
                 \/ \E r \in ToSet(toolCalls) : r[1][1] < attempt /\ r[2]

(* The assertion of the integration test of tool use (packages/core/          *)
(* __tests__/integration/tool-use.integration.test.ts:230-258) on a stream:   *)
(* an end closes a start that is open, and none is open at turnStop or done.  *)
StreamWellFormed ==
    LET Open(c, n) == Cardinality({i \in Places(c, {"start"}) : i <= n})
                      - Cardinality({i \in Places(c, Ends) : i <= n})
    IN \A c \in CallIds :
          /\ \A i \in Places(c, Ends) : Cardinality({j \in Places(c, {"start"}) : j < i}) >= 1
          /\ \A i \in DOMAIN told : Is(i, Final \cup {"turnStop"}) => Open(c, i) = 0
-----------------------------------------------------------------------------
(* What the proofs are by induction on, until the turn has ended.  The turn  *)
(* starts from nothing; the loops follow the attempts, and a task that is    *)
(* not failed has left no call open.                                         *)
AfterExecution == {"executed", "flushing", "validating", "stopping"}
Flushed == {"flushing", "validating", "stopping"}

SetupFollows ==
    at = "setup" =>
        /\ attempt = 0 /\ outbox = <<>> /\ records = <<>> /\ toolCalls = <<>> /\ told = <<>>
        /\ \A b \in Attempts : queue[b] = <<>>

LoopsFollow ==
    /\ \A b \in Attempts :
          /\ loop[b] = "idle" => \A k \in Calls : stage[<<b, k>>] = "none"
          /\ loop[b] = "returned" => \A k \in Calls : stage[<<b, k>>] # "open"
          /\ b > attempt \/ (b = attempt /\ at \in {"setup", "attempt"}) => loop[b] = "idle"
          /\ b < attempt => loop[b] \in {"returned", "left"}
    /\ at = "executing" => loop[attempt] # "idle" /\ (step = "none" <=> loop[attempt] = "running")
    /\ at \in AfterExecution => loop[attempt] \in {"returned", "left"}
    /\ at \in {"executing"} \cup AfterExecution /\ step \in {"ready", "partial", "skipped"} =>
          loop[attempt] = "returned"

(* What was said of a call follows its stage.                                *)
ChunksFollow ==
    \A c \in CallIds :
        /\ stage[c] = "none" => \A t \in CallTypes :
              ~ Has(outbox, t, c) /\ ~ Has(told, t, c) /\ ~ Has(queue[c[1]], t, c)
        /\ stage[c] # "closed" =>
              /\ ~ Has(outbox, "end", c) /\ ~ Has(told, "end", c) /\ ~ Has(queue[c[1]], "end", c)
              /\ \A p \in DOMAIN records : records[p][1] # c
        /\ stage[c] # "none" /\ c[1] = attempt => Has(outbox, "start", c)
        /\ stage[c] = "closed" /\ Has(outbox, "start", c) => Has(outbox, "end", c)
        /\ stage[c] = "closed" /\ streaming => Has(told, "end", c) \/ Has(queue[c[1]], "end", c)

(* A queue holds its own attempt's chunks, and none behind the end mark if   *)
(* the loop has returned.                                                    *)
QueuesFollow ==
    /\ \A b \in Attempts :
          /\ streaming \/ queue[b] = <<>>
          /\ \A i \in DOMAIN queue[b] :
                \/ /\ queue[b][i] = End /\ loop[b] \in {"returned", "left"}
                   /\ loop[b] = "returned" => i = Len(queue[b])
                \/ queue[b][i].type \in {"start", "end"} /\ queue[b][i].call[1] = b
    /\ at \in AfterExecution /\ loop[attempt] = "returned" => queue[attempt] = <<>>

(* Nothing is said of a call twice.                                          *)
Once(box) ==
    \A i, j \in DOMAIN box :
        box[i].type \in CallTypes /\ box[i].type = box[j].type /\ box[i].call = box[j].call
          => i = j

ToldOnce ==
    /\ Once(outbox) /\ Once(told) /\ \A b \in Attempts : Once(queue[b])
    /\ streaming => \A c \in CallIds :
          /\ \A t \in {"start", "end"} : Has(told, t, c) => ~ Has(queue[c[1]], t, c)
          /\ ~ (Has(told, "end", c) /\ Has(told, "sealed", c))

(* Only what a loop has left open is sealed, and once.                       *)
SealsFollow ==
    \A c \in CallIds :
        /\ Has(outbox, "sealed", c) => Has(outbox, "start", c)
        /\ Has(told, "sealed", c) /\ Has(outbox, "start", c) => Has(outbox, "sealed", c)
        /\ Has(told, "sealed", c) \/ Has(outbox, "sealed", c) =>
              loop[c[1]] = "left" /\ (c[1] = attempt => at \in Flushed)

(* The flush of a stream tells the seals from the cursor to the limit.       *)
SealsFlushed ==
    /\ at \in Flushed => limit <= Len(outbox)
    /\ at \in {"validating", "stopping"} => cursor > limit
    /\ at \in Flushed /\ streaming =>
          /\ \A i \in cursor .. limit :
                /\ outbox[i].type = "sealed"
                /\ ~ Has(told, "sealed", outbox[i].call) /\ ~ Has(told, "end", outbox[i].call)
          /\ \A c \in CallIds : c[1] = attempt /\ Has(told, "start", c) =>
                \/ Has(told, "end", c) \/ Has(told, "sealed", c) \/ Has(queue[attempt], "end", c)
                \/ \E i \in cursor .. limit : outbox[i].type = "sealed" /\ outbox[i].call = c

(* Any other flush tells the outbox up to the cursor.                        *)
OutboxFlushed ==
    /\ at \in Flushed /\ ~ streaming =>
          /\ cursor <= Len(outbox) + 1
          /\ \A i \in 1 .. cursor - 1 : Has(told, outbox[i].type, outbox[i].call)
          /\ \A i \in 1 .. limit : outbox[i].type = "start" =>
                \E j \in 1 .. limit : outbox[j].call = outbox[i].call /\ outbox[j].type \in Ends
    /\ ~ streaming => \A i \in DOMAIN outbox :
          Has(told, outbox[i].type, outbox[i].call) =>
              i < cursor /\ at \notin {"executing", "executed"}
    /\ \A i \in DOMAIN outbox : outbox[i].type = "start" => outbox[i].ok

(* The ends of the attempt's calls are recorded as they are told, and told   *)
(* in the order they are recorded in.                                        *)
Recorded(box, list, a) ==
    \A i \in DOMAIN box : box[i].type = "end" /\ box[i].call[1] = a =>
        \E p \in DOMAIN list : list[p] = <<box[i].call, box[i].ok>>

Before(box, c, d) ==
    \A j \in DOMAIN box : box[j].type = "end" /\ box[j].call = d =>
        \E i \in DOMAIN box : i < j /\ box[i].type = "end" /\ box[i].call = c

EndsRecorded ==
    /\ \A p, q \in DOMAIN records : records[p][1] = records[q][1] => p = q
    /\ \A c \in CallIds : c[1] = attempt /\ stage[c] = "closed" =>
          \E p \in DOMAIN records : records[p][1] = c
    /\ Recorded(told, records, attempt) /\ Recorded(outbox, records, attempt)
    /\ Recorded(queue[attempt], records, attempt)

EndsInOrder ==
    \A p, q \in DOMAIN records :
        p < q /\ records[p][1][1] = attempt /\ records[q][1][1] = attempt =>
            /\ Before(told, records[p][1], records[q][1])
            /\ streaming => \/ Has(told, "end", records[p][1])
                            \/ Before(queue[attempt], records[p][1], records[q][1])
            /\ ~ streaming => Before(outbox, records[p][1], records[q][1])

MetadataFollows ==
    /\ at \in {"executing", "executed", "flushing"} => toolCalls = <<>>
    /\ at \in {"validating", "stopping"} =>
          /\ Len(toolCalls) <= Len(records)
          /\ \A p \in DOMAIN toolCalls : toolCalls[p] = records[p]
          /\ loop[attempt] = "returned" => \A p \in DOMAIN records : records[p][1][1] = attempt =>
                p <= Len(toolCalls) /\ Has(told, "end", records[p][1])

(* Nothing final is said before the end.                                     *)
EndFollows ==
    /\ answer = "none" /\ \A i \in DOMAIN told : ~ Is(i, Final)
    /\ at = "stopping" /\ verdict = "pass" => step \in {"ready", "skipped"}

TurnFollows ==
    /\ SetupFollows /\ LoopsFollow /\ ChunksFollow /\ QueuesFollow /\ ToldOnce /\ SealsFollow
    /\ SealsFlushed /\ OutboxFlushed /\ EndsRecorded /\ EndsInOrder /\ MetadataFollows
    /\ EndFollows

TurnIInv == TurnTypeOK /\ StreamTold /\ HonestOutcome /\ (at # "ended" => TurnFollows)
=============================================================================
