------------------------------ MODULE ModelCall ------------------------------
(***************************************************************************)
(* One call of a model by the agentic loop: the request an adapter makes   *)
(* of the conversation, the reply as it comes at once (chat) or in pieces  *)
(* (chatStream), the timers around it (engine/llm-timeouts.ts, common/     *)
(* net.ts), and what the loop makes of the pieces                          *)
(* (collectStreamedToolUseStep, engine/subflows/tool-use.ts).  The         *)
(* adapters are those of packages/extensions/src/providers.                *)
(*                                                                         *)
(* Abstractions: a reply is a sequence of parts; the arguments of a call   *)
(* are empty, an object, or not an object, and come in two pieces; ids are *)
(* numbers, those the adapters make up smaller than Made.  The services    *)
(* and their SDKs are external: they may answer, fail, cut a stream        *)
(* without a word, or hang, and heed an abort by failing.                  *)
(***************************************************************************)
LOCAL INSTANCE Naturals
LOCAL INSTANCE FiniteSets
LOCAL INSTANCE FiniteSetsExt
LOCAL INSTANCE Sequences
LOCAL INSTANCE SequencesExt
LOCAL INSTANCE Functions

CONSTANTS
    Requests,       \* the calls tried: [adapter, streamed, reply, finish]
    Conversations   \* the conversations tried, sequences of messages

VARIABLES
    request,    \* the call: adapter, streamingOutput, the reply the model has for it
    at,         \* "asked" | "polling" | "reading" | "over"
    sent,       \* pieces of each part that have arrived
    llmSignal,  \* why the loop's signal of the call is aborted, or "none"
    aborted,    \* why the adapter's own signal is, or "none"
    heard,      \* firstOutputSeen
    told,       \* text deltas passed on
    calls,      \* toolCalls of the step, [id, name, args]
    media,      \* images and media handed on
    usage,      \* the usage tracker: "estimated" | "final" | "failed" | "cancelled"
    outcome     \* "none", "calls" (they are run), "terminal", or why it failed

callVars == <<request, at, sent, llmSignal, aborted, heard, told, calls, media, usage, outcome>>

Made == 100
NoId == 0
Adapters == {"openai", "anthropic", "gemini", "wanx", "wan-image"}
Painters == {"wanx", "wan-image"}   \* qwen's image models; its others are openai's
Causes == {"outer", "wait", "streaming", "request"}

Part(kind, id, name, args) == [kind |-> kind, id |-> id, name |-> name, args |-> args]
Text == Part("text", NoId, "", "empty")
Image == Part("image", NoId, "", "empty")
Call(id, name, args) == Part("call", id, name, args)

Adapter == request.adapter
Reply == request.reply
IsCall(i) == Reply[i].kind = "call"
Named(i) == IsCall(i) /\ Reply[i].name # ""
Parts == DOMAIN Reply
TextsAmong(set) == {i \in set : Reply[i].kind = "text"}
PicturesAmong(set) == {i \in set : Reply[i].kind = "image"}

CallTypeOK ==
    /\ Adapter \in Adapters
    /\ at \in {"asked", "polling", "reading", "over"}
    /\ sent \in [Parts -> 0 .. 4]
    /\ llmSignal \in {"none", "outer", "wait", "streaming"}
    /\ aborted \in {"none"} \cup Causes
    /\ \A i \in DOMAIN calls : calls[i].id \in Nat /\ calls[i].name # ""
    /\ usage \in {"estimated", "final", "failed", "cancelled"}
    /\ outcome \in {"none", "calls", "terminal", "http", "arguments", "task"} \cup Causes

CallInit ==
    /\ request \in Requests
    /\ at = "asked"
    /\ sent = [i \in Parts |-> 0]
    /\ llmSignal = "none" /\ aborted = "none"
    /\ heard = FALSE /\ told = 0 /\ calls = <<>> /\ media = 0
    /\ usage = "estimated"
    /\ outcome = "none"

-----------------------------------------------------------------------------
(* What an adapter sends of a conversation.  A message has a role, a text (or   *)
(* ""), the ids of the calls it makes and of the call it answers.               *)
Message(role, text, asks, answers) ==
    [role |-> role, text |-> text, asks |-> asks, answers |-> answers]
IsSystem(m) == m.role = "system"
Others(c) == SelectSeq(c, LAMBDA m : ~ IsSystem(m))
Texts(c) == [n \in DOMAIN c |-> c[n].text]
SystemTexts(c) == Texts(SelectSeq(c, IsSystem))
Rows(c, role) == [n \in DOMAIN Others(c) |->
    [role |-> role[Others(c)[n].role], texts |-> <<Others(c)[n].text>>,
     asks |-> Others(c)[n].asks, answers |-> Others(c)[n].answers]]
Same == [r \in {"system", "user", "assistant", "tool"} |-> r]

ToOpenAi(c) ==
    [system |-> <<>>,
     rows |-> [n \in DOMAIN c |-> [role |-> c[n].role, texts |-> <<c[n].text>>,
                                   asks |-> c[n].asks, answers |-> c[n].answers]]]

(* The results of tools are messages of the user, the system's are set apart.   *)
ToAnthropic(c) ==
    [system |-> SystemTexts(c), rows |-> Rows(c, [Same EXCEPT !["tool"] = "user"])]
ToGemini(c) ==
    [system |-> SystemTexts(c),
     rows |-> Rows(c, [Same EXCEPT !["tool"] = "user", !["assistant"] = "model"])]

(* mergeSystemIntoLastUserForDashScope: before the last message of the user, or *)
(* one of its own if there is none.                                             *)
ToQwen(c) ==
    LET rows == Rows(c, Same)
        users == {n \in DOMAIN rows : rows[n].role = "user"}
        before == SystemTexts(c)
    IN [system |-> <<>>,
        rows |-> IF before = <<>> THEN rows
                 ELSE IF users = {} THEN
                    <<[role |-> "user", texts |-> before, asks |-> <<>>, answers |-> NoId]>> \o rows
                 ELSE [rows EXCEPT ![Max(users)].texts = before \o @]]

Sent(c) == {ToOpenAi(c), ToAnthropic(c), ToGemini(c), ToQwen(c)}

-----------------------------------------------------------------------------
(* How a part comes: a call is opened with its id and name, then its arguments *)
(* in two pieces if it has any, and the block closed (anthropic).              *)
Opened == 1
Halfway == 2
Full == 3
Pieces(i) ==
    IF ~ IsCall(i) \/ Adapter = "gemini" THEN 1
    ELSE IF Adapter = "anthropic" THEN IF Reply[i].args = "empty" THEN 2 ELSE 4
    ELSE IF Reply[i].args = "empty" THEN 1 ELSE Full
Arrived(i) == sent[i] = Pieces(i)
AllArrived == \A i \in Parts : Arrived(i)

(* The arguments as far as they have come; half an object is not an object.    *)
ArgsOf(i) ==
    IF Reply[i].args = "empty" \/ (sent[i] = Opened /\ Adapter # "gemini") THEN "empty"
    ELSE IF sent[i] = Halfway THEN "cut" ELSE Reply[i].args
Unparsable(i) == ArgsOf(i) \in {"cut", "bad"}

(* The place the adapter makes an id from: openai counts the calls of a stream, *)
(* anthropic the blocks; without a stream the calls that were kept are counted. *)
Before(i, Test(_)) == Cardinality({j \in Parts : j < i /\ Test(j)})
Place(i) == IF ~ request.streamed THEN Before(i, Named)
            ELSE IF Adapter = "openai" THEN Before(i, IsCall) ELSE i - 1
IdOf(i, place) == IF Reply[i].id = NoId THEN 1 + place ELSE Reply[i].id
Complete(i, place) == [id |-> IdOf(i, place), name |-> Reply[i].name, args |-> ArgsOf(i)]
InOrder(set) == SetToSortSeq(set, LAMBDA i, j : i < j)
Completes(set) == [n \in DOMAIN InOrder(set) |-> Complete(InOrder(set)[n], Place(InOrder(set)[n]))]

-----------------------------------------------------------------------------
(* The step ends: its calls are run only if the reply says that it ends with    *)
(* calls; a reply that does not say how it ends is taken by whether it has any. *)
Unsaid == "unsaid"

(* The tracker of the call's usage: what is final is told even after an end was, *)
(* an end only once.                                                             *)
Charged(state) == usage' = IF state = "final" \/ usage = "estimated" THEN state ELSE usage

Ends(finish, all, final) ==
    LET reason == IF finish # Unsaid THEN finish
                  ELSE IF all # <<>> THEN "tool_calls" ELSE "stop"
    IN /\ at' = "over"
       /\ calls' = all
       /\ outcome' = IF reason = "tool_calls" /\ all # <<>> THEN "calls" ELSE "terminal"
       /\ Charged(IF final THEN "final" ELSE usage)
       /\ UNCHANGED <<request, llmSignal, aborted>>

(* The call throws: a timer of the loop's own is told before whatever the       *)
(* adapter threw, and nothing of the reply is kept.                             *)
Fails(cause) ==
    /\ at' = "over"
    /\ outcome' = IF llmSignal \in {"wait", "streaming"} THEN llmSignal ELSE cause
    /\ Charged(IF llmSignal = "outer" THEN "cancelled" ELSE "failed")
    /\ calls' = <<>>
    /\ UNCHANGED <<request, sent, llmSignal, aborted, heard, told, media>>

(* Mutant: what was completed is made of its pieces once more.                  *)
MaterializedAgain(done) ==
    InOrder({i \in Parts : sent[i] >= Opened /\ Named(i)
                /\ (Reply[i].id # NoId \/ Adapter = "anthropic")})

(* materializeDeltaToolCalls: the blocks that were opened and never completed.  *)
Materialized(done) ==
    InOrder({i \in Parts : /\ sent[i] >= Opened /\ Named(i)
                           /\ Reply[i].id # NoId \/ Adapter = "anthropic"
                           /\ ~ \E n \in DOMAIN done : done[n].id = IdOf(i, i - 1)})

Collected(finish, done, final) ==
    LET rest == Materialized(done)
    IN IF \E n \in DOMAIN rest : Unparsable(rest[n]) THEN Fails("arguments")
       ELSE /\ Ends(finish, done \o [n \in DOMAIN rest |-> Complete(rest[n], Place(rest[n]))], final)
            /\ UNCHANGED <<sent, heard, told, media>>

-----------------------------------------------------------------------------
(* The reply of chat, with what was parsed of it.                               *)
Whole(adapter) == at = "asked" /\ ~ request.streamed /\ Adapter = adapter
Answered(finish, pictures) ==
    LET named == InOrder({i \in Parts : Named(i)})
    IN /\ Ends(finish, [n \in DOMAIN named |->
                 [id |-> IdOf(named[n], n - 1), name |-> Reply[named[n]].name,
                  args |-> Reply[named[n]].args]], TRUE)
       /\ sent' = [i \in Parts |-> Pieces(i)]
       /\ told' = Cardinality(TextsAmong(Parts))
       /\ media' = pictures
       /\ UNCHANGED heard

OpenAiAnswers ==
    /\ Whole("openai")
    /\ IF \E i \in Parts : Named(i) /\ Reply[i].args = "bad" THEN Fails("arguments")
       ELSE Answered(request.finish, 0)
AnthropicAnswers == Whole("anthropic") /\ Answered(request.finish, 0)

(* Gemini has no word for a reply that ends with calls.                         *)
GeminiFinish == IF \E i \in Parts : Named(i) THEN "tool_calls" ELSE request.finish
GeminiAnswers ==
    Whole("gemini") /\ Answered(GeminiFinish, Cardinality(PicturesAmong(Parts)))
ChatAnswers == OpenAiAnswers \/ AnthropicAnswers \/ GeminiAnswers

StreamOpens ==
    /\ at = "asked" /\ request.streamed /\ Adapter \notin Painters
    /\ at' = "reading"
    /\ UNCHANGED <<request, sent, llmSignal, aborted, heard, told, calls, media, usage, outcome>>

(* Which part may bring its next piece: in order, but the calls of an openai     *)
(* stream may be mixed once they are opened.                                     *)
MayCome(i) ==
    /\ sent[i] < Pieces(i)
    /\ \A j \in 1 .. i - 1 :
          IF Adapter = "openai" /\ IsCall(i) /\ IsCall(j) THEN sent[j] >= Opened ELSE Arrived(j)

Reads == at = "reading" /\ aborted = "none"

(* A piece of text or of a call, told or kept; the first of them stops the wait  *)
(* for the first token.                                                          *)
Piece(i) ==
    /\ Reads /\ MayCome(i)
    /\ sent' = [sent EXCEPT ![i] = @ + 1]
    /\ heard' = TRUE
    /\ told' = IF Reply[i].kind = "text" THEN told + 1 ELSE told
    /\ UNCHANGED <<request, at, llmSignal, aborted, calls, media, usage, outcome>>
OpenAiPiece(i) == Adapter = "openai" /\ Piece(i)
AnthropicPiece(i) ==
    Adapter = "anthropic" /\ ~ (IsCall(i) /\ sent[i] = Pieces(i) - 1) /\ Piece(i)

(* content_block_stop: the block of a call is complete.                          *)
BlockStops(i) ==
    /\ Reads /\ Adapter = "anthropic" /\ MayCome(i) /\ IsCall(i) /\ sent[i] = Pieces(i) - 1
    /\ IF Named(i) /\ Reply[i].args = "bad" THEN Fails("arguments")
       ELSE /\ sent' = [sent EXCEPT ![i] = @ + 1]
            /\ calls' = IF Named(i)
                        THEN Append(calls, [id |-> IdOf(i, i - 1), name |-> Reply[i].name,
                                            args |-> Reply[i].args])
                        ELSE calls
            /\ heard' = TRUE
            /\ UNCHANGED <<request, at, llmSignal, aborted, told, media, usage, outcome>>

(* A chunk of gemini: the next parts, as many as it brings; ids are made up from *)
(* their place in the chunk.                                                     *)
GeminiChunk(last) ==
    LET chunk == {i \in Parts : sent[i] = 0 /\ i <= last}
        named == InOrder({i \in chunk : Named(i)})
    IN /\ Reads /\ Adapter = "gemini" /\ chunk # {} /\ last \in Parts
       /\ sent' = [i \in Parts |-> IF i \in chunk THEN 1 ELSE sent[i]]
       /\ calls' = calls \o [n \in DOMAIN named |->
                      [id |-> IdOf(named[n], n - 1), name |-> Reply[named[n]].name,
                       args |-> Reply[named[n]].args]]
       /\ told' = told + Cardinality(TextsAmong(chunk))
       /\ media' = media + Cardinality(PicturesAmong(chunk))
       /\ heard' = (heard \/ \E i \in chunk : Reply[i].kind # "image")
       /\ UNCHANGED <<request, at, llmSignal, aborted, usage, outcome>>

(* openai: the calls are put together once the reply says how it ends, or the    *)
(* stream is over, and then parsed in order.                                     *)
Aggregate(finish) ==
    LET named == {i \in Parts : Named(i) /\ sent[i] >= Opened}
    IN IF \E i \in named : Unparsable(i) THEN Fails("arguments")
       ELSE Collected(finish, Completes(named), FALSE)

OpenAiFinishes == Adapter = "openai" /\ Aggregate(request.finish)
AnthropicFinishes == Adapter = "anthropic" /\ Collected(request.finish, calls, FALSE)
GeminiFinishes == Adapter = "gemini" /\ Collected(GeminiFinish, calls, TRUE)
StreamFinishes ==
    Reads /\ AllArrived /\ (OpenAiFinishes \/ AnthropicFinishes \/ GeminiFinishes)

(* The stream ends without a word before the reply is whole: at a connection     *)
(* that closes, or at an abort that the SDK ends it for.                         *)
OpenAiCut == Adapter = "openai" /\ Aggregate("unknown")
AnthropicCut == Adapter = "anthropic" /\ Collected(Unsaid, calls, FALSE)
GeminiCut ==
    /\ Adapter = "gemini"
    /\ Collected(IF calls # <<>> THEN "tool_calls" ELSE "unknown", calls,
                 \E i \in Parts : sent[i] > 0)
StreamCut == at = "reading" /\ ~ AllArrived /\ (OpenAiCut \/ AnthropicCut \/ GeminiCut)

-----------------------------------------------------------------------------
(* qwen's image models: wan-image answers at once; wanx makes a task and polls   *)
(* it.  The images are in the response; a stream of it has only the text.        *)
PictureComes ==
    /\ Ends("stop", <<>>, TRUE)
    /\ sent' = [i \in Parts |-> 1]
    /\ told' = 1
    /\ media' = IF request.streamed THEN 0
                ELSE Cardinality(PicturesAmong(Parts))
    /\ heard' = (heard \/ request.streamed)

ImageAnswers == at = "asked" /\ Adapter = "wan-image" /\ PictureComes
TaskMade ==
    /\ at = "asked" /\ Adapter = "wanx"
    /\ at' = "polling"
    /\ UNCHANGED <<request, sent, llmSignal, aborted, heard, told, calls, media, usage, outcome>>
TaskSucceeds == at = "polling" /\ aborted = "none" /\ PictureComes
TaskFails == at = "polling" /\ Fails("task")

(* The service refuses or breaks the connection, before or within the reply.     *)
HttpFails == at # "over" /\ aborted = "none" /\ Fails("http")

-----------------------------------------------------------------------------
(* The signals: the run's, the loop's timers for the first output and for the    *)
(* reply, and the adapter's own timer; the first to fire is the reason.           *)
Signals(cause) ==
    /\ at # "over"
    /\ aborted' = IF aborted = "none" THEN cause ELSE aborted
    /\ UNCHANGED <<request, at, sent, heard, told, calls, media, usage, outcome>>
LoopSignals(cause) == llmSignal = "none" /\ llmSignal' = cause /\ Signals(cause)
RunAborts == LoopSignals("outer")
WaitTimesOut == request.streamed /\ ~ heard /\ LoopSignals("wait")
StreamingTimesOut == (heard \/ ~ request.streamed) /\ LoopSignals("streaming")
RequestTimesOut == aborted = "none" /\ Signals("request") /\ UNCHANGED llmSignal

(* The abort is noticed: by the SDK, at the next chunk, or before the next poll. *)
AbortNoticed == at # "over" /\ aborted # "none" /\ Fails(aborted)

Timers == WaitTimesOut \/ StreamingTimesOut \/ RequestTimesOut

CallNext ==
    \/ ChatAnswers \/ StreamOpens \/ StreamFinishes \/ StreamCut
    \/ \E i \in Parts : OpenAiPiece(i) \/ AnthropicPiece(i) \/ BlockStops(i) \/ GeminiChunk(i)
    \/ ImageAnswers \/ TaskMade \/ TaskSucceeds \/ TaskFails \/ HttpFails
    \/ RunAborts \/ Timers \/ AbortNoticed

-----------------------------------------------------------------------------
(* No adapter loses, doubles or reorders what the conversation says, in the     *)
(* messages of the system and in the others; and every result of a tool still    *)
(* follows the message that made the call, with nothing but results in between.   *)
Flat(rows) == FoldLeft(LAMBDA all, row : all \o row.texts, <<>>, rows)
Paired(rows) == \A n \in DOMAIN rows : rows[n].answers # NoId =>
    \E k \in 1 .. n - 1 :
        /\ rows[n].answers \in Range(rows[k].asks)
        /\ \A l \in k + 1 .. n : rows[l].answers \in Range(rows[k].asks)
RequestKept == \A c \in Conversations : \A to \in Sent(c) :
    LET all == to.system \o Flat(to.rows)
        Said(system) == SelectSeq(all, LAMBDA t : (t \in Range(SystemTexts(c))) = system)
    IN /\ Said(TRUE) = SystemTexts(c)
       /\ Said(FALSE) = Texts(Others(c))
       /\ Paired(c) => Paired(to.rows)

(* What the reply asks for, read off the whole of it.                            *)
Asked == LET named == InOrder({i \in Parts : Named(i)})
         IN [n \in DOMAIN named |-> <<Reply[named[n]].name, Reply[named[n]].args>>]
Got == [n \in DOMAIN calls |-> <<calls[n].name, calls[n].args>>]
Succeeded == outcome \in {"calls", "terminal"}

(* What a step may make of a reply, however it comes.  If it all came, in one    *)
(* answer or in pieces that are mixed as the protocol allows, the step has the   *)
(* calls of the reply, in order and each once, and they are run if and only if   *)
(* the reply ends with calls; it fails over arguments only if they cannot be     *)
(* parsed.  If the stream was cut the step has only calls of the reply, in order *)
(* and with their arguments, but for one whose arguments had not begun to come;  *)
(* and those of openai are not run.  A call of an adapter that makes up ids has  *)
(* no other's, unless gemini brought them in chunks.  Why it failed is told: the *)
(* wait for the first output only if there was none.                             *)
StepSound ==
    /\ Succeeded /\ AllArrived =>
          /\ Got = Asked
          /\ (outcome = "calls") =
               (Asked # <<>> /\ (request.finish = "tool_calls" \/ Adapter = "gemini"))
          /\ told >= Cardinality(TextsAmong(Parts))
    /\ Succeeded /\ ~ AllArrived =>
          /\ Len(calls) <= Len(Asked)
          /\ \A n \in DOMAIN calls :
                /\ Got[n][1] = Asked[n][1]
                /\ Got[n][2] \in {Asked[n][2], "empty"}
                /\ Got[n][2] = "bad" => FALSE
          /\ Adapter = "openai" => outcome = "terminal"
    /\ outcome = "arguments" =>
          \/ \E i \in Parts : Named(i) /\ Reply[i].args = "bad"
          \/ ~ AllArrived
    /\ Adapter # "gemini" \/ ~ request.streamed =>
          \A m, n \in DOMAIN calls : calls[m].id = calls[n].id => m = n
    /\ outcome = "wait" => ~ heard /\ told = 0
    /\ usage = "final" => Succeeded
    /\ outcome \in Causes => usage = (IF llmSignal = "outer" THEN "cancelled" ELSE "failed")
    /\ at # "over" => usage = "estimated"
=============================================================================
