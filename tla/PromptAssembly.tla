---------------------------- MODULE PromptAssembly ----------------------------
(***************************************************************************)
(* From the message of a turn to what the model is asked: the session      *)
(* phase appends it (core/src/engine/phases/session.ts), the engine        *)
(* recalls, loads the window and decides on the budget (engine.ts,         *)
(* context-budget/broker.ts), DefaultPromptAssembler puts the prompt       *)
(* together and cuts it (prompt/assembler.ts, turn-tail.ts), and the loop  *)
(* is seeded with it (subflows/tool-use.ts).                               *)
(*                                                                         *)
(* The window of entries is the live one of the session: while a turn      *)
(* awaits, one it superseded may append its reply.                         *)
(*                                                                         *)
(* Abstractions: a message is one token, a compression is atomic           *)
(* (WindowMemory), recall and tools are counted; the turn's run begins     *)
(* with its append.  decide() is asked with trimAllowed and so answers     *)
(* "fit" or "trim", with the same envelope.  The engine passes no          *)
(* onCompressContext.                                                      *)
(***************************************************************************)
LOCAL INSTANCE Integers
LOCAL INSTANCE FiniteSets
LOCAL INSTANCE FiniteSetsExt
LOCAL INSTANCE Sequences
LOCAL INSTANCE SequencesExt
LOCAL INSTANCE Compaction

CONSTANTS
    MaxTurns,           \* turns of the session, for TLC
    Texts, Pictures,    \* what users say; what of it carries a resource
    Echo,               \* what the model replies
    Threshold, HeadKeep, TailKeep,      \* of the compression
    Windows, Configured,    \* maxContextTokens: of the models, of the configuration
    Reserve, MinInput,  \* reserveOutputTokens, MIN_CONTEXT_TOKENS
    TopK, MaxTools,     \* recall hits, tools of registry and scope
    SkillLists          \* what the preparation of the skills may give

VARIABLES
    said,               \* every message, in the order of the appends
    log,                \* contextWindow.entries, of Compaction
    window,             \* maxContextTokens of the routed model
    turns               \* the turns' runs

promptVars == <<said, log, window, turns>>
Turns == 1 .. MaxTurns

NoParts == [history |-> <<>>, recall |-> 0, skills |-> <<>>, tools |-> 0]
NoTurn == [at |-> "idle", own |-> 0, joined |-> FALSE, recall |-> 0, seen |-> 0,
           given |-> NoParts, prompt |-> NoParts, named |-> FALSE, seed |-> <<>>]

PromptInit ==
    /\ said = <<>> /\ log = <<>>
    /\ window \in Windows
    /\ turns = [r \in Turns |-> NoTurn]

PromptTypeOK ==
    /\ Len(said) <= 2 * MaxTurns /\ Covered(log) = DOMAIN said
    /\ \A r \in Turns :
          turns[r].at \in {"idle", "said", "recalled", "assembled", "tooLarge", "asked",
                           "answered", "over"}

-----------------------------------------------------------------------------
(* The budget.                                                               *)
MaxInput(size) ==
    LET whole == Max({MinInput, Min({size, Configured})})
    IN Max({MinInput, whole - Reserve})

(* stripTrailingCurrentTurn: the last entry, if it is the user's and says the *)
(* same.                                                                     *)
IsUsers(e, text) == said[e].role = "user" /\ said[e].text = text
StrippedEverywhere(history, text) ==
    SelectSeq(history, LAMBDA entry : \E e \in entry.covers : ~ IsUsers(e, text))
Stripped(history, text) ==
    IF history # <<>> /\ ~ Last(history).anchored
         /\ \A e \in Last(history).covers : IsUsers(e, text)
      THEN Front(history) ELSE history

(* An active skill is there with its text, an available one with a line.     *)
SkillTokens(skills) ==
    FoldLeft(LAMBDA n, s : n + IF s.source = "available" THEN 1 ELSE 2, 0, skills)
SkillTokenLimit(limit) == (limit * 8) \div 10

SourceRank == [available |-> 0, recallActive |-> 1, sticky |-> 2, always |-> 3]
Sooner(s, t) ==
    \/ SourceRank[s.source] < SourceRank[t.source]
    \/ s.source = t.source /\ s.source # "always" /\ s.order < t.order
LowestSkill(skills) ==
    Min({i \in DOMAIN skills : \A j \in DOMAIN skills : ~ Sooner(skills[j], skills[i])})

RECURSIVE WithinBudget(_, _)
WithinBudget(skills, limit) ==
    IF skills = <<>> \/ SkillTokens(skills) <= SkillTokenLimit(limit) THEN skills
    ELSE WithinBudget(RemoveAt(skills, LowestSkill(skills)), limit)

(* build(): an entry of the history stands in the messages and again in the  *)
(* "Session Summary" of the system prompt.                                   *)
Size(p) == 1 + 2 * Len(p.history) + p.recall + SkillTokens(p.skills) + p.tools

PlainOnes(history) == {i \in DOMAIN history : ~ history[i].anchored}
CanCut(p, part) ==
    CASE part = "recalled-memory" -> p.recall > 0
      [] part = "available-skills" -> p.skills # <<>>
      [] part = "history" -> PlainOnes(p.history) # {}
      [] part = "tool-definitions" -> p.tools > 0
Cut(p, part) ==
    CASE part = "recalled-memory" -> [p EXCEPT !.recall = @ - 1]
      [] part = "available-skills" -> [p EXCEPT !.skills = RemoveAt(@, LowestSkill(@))]
      [] part = "history" -> [p EXCEPT !.history = RemoveAt(@, Min(PlainOnes(@)))]
      [] part = "tool-definitions" -> [p EXCEPT !.tools = @ - 1]

TrimOrder == <<"recalled-memory", "available-skills", "history", "tool-definitions">>
RECURSIVE Trimmed(_, _, _)
Trimmed(p, order, limit) ==
    IF Size(p) <= limit \/ order = <<>> THEN p
    ELSE IF CanCut(p, Head(order)) THEN Trimmed(Cut(p, Head(order)), order, limit)
    ELSE Trimmed(p, Tail(order), limit)

-----------------------------------------------------------------------------
At(r, at) == turns[r].at = at
Newest(r) == \A q \in Turns : q > r => At(q, "idle")
Over == [NoTurn EXCEPT !.at = "over"]

(* append(): over the threshold it compresses.                               *)
Grown(entry) ==
    LET longer == Append(log, Raw(entry))
    IN IF Len(longer) > Threshold /\ ~ Short(longer, HeadKeep, TailKeep)
         THEN HeadMiddleTail(longer, HeadKeep, TailKeep) ELSE longer

(* Something comes behind the messages of the turns that have not yet read   *)
(* the window.                                                               *)
Joined(q) == [turns[q] EXCEPT !.joined = @ \/ At(q, "said") \/ At(q, "recalled")]

(* The session phase of a turn; the turns before it are aborted.             *)
SubmitTurn(r) ==
    /\ At(r, "idle") /\ \A q \in Turns : q < r => ~ At(q, "idle")
    /\ \E text \in Texts : said' = Append(said, [role |-> "user", text |-> text])
    /\ log' = Grown(Len(said'))
    /\ turns' = [q \in Turns |->
                   IF q # r THEN Joined(q)
                   ELSE [NoTurn EXCEPT !.at = "said", !.own = Len(said'),
                                       !.joined = Last(log').anchored]]
    /\ UNCHANGED window

(* recallForRun; a failure recalls nothing.                                  *)
Recall(r) ==
    /\ At(r, "said")
    /\ \E hits \in 0 .. Min({TopK, Len(log)}) :
          turns' = [turns EXCEPT ![r].at = "recalled", ![r].recall = hits]
    /\ UNCHANGED <<said, log, window>>

(* The prompt of the turn, from the window as it is when all the awaits are  *)
(* done.  That of a superseded run goes nowhere: its scheduler throws.       *)
Assemble(r) ==
    /\ At(r, "recalled") /\ Newest(r)
    /\ \E skills \in SkillLists, tools \in 0 .. MaxTools :
          LET limit == MaxInput(window)
              given == [history |-> Stripped(log, said[turns[r].own].text),
                        recall |-> turns[r].recall, skills |-> skills, tools |-> tools]
              built == Trimmed([given EXCEPT !.skills = WithinBudget(skills, limit)],
                               TrimOrder, limit)
          IN turns' = [turns EXCEPT
                         ![r].at = IF Size(built) <= limit THEN "assembled" ELSE "tooLarge",
                         ![r].seen = Len(said), ![r].given = given, ![r].prompt = built]
    /\ UNCHANGED <<said, log, window>>

(* A resource stays with its own entry; the system prompt has none.          *)
Carries(entry) ==
    ~ entry.anchored /\ \A e \in entry.covers : said[e].text \in Pictures

(* buildInitialMessages, with or without tools named by the route.           *)
Seeded(messages, own, named) ==
    LET carrying == SelectSeq(messages, Carries)
    IN IF ~ named THEN messages
       ELSE IF carrying # <<>> THEN carrying ELSE <<Raw(own)>>

Ask(r) ==
    /\ At(r, "assembled")
    /\ \E named \in BOOLEAN :
          LET own == turns[r].own
              messages == Append(turns[r].prompt.history, Raw(own))
          IN turns' = [turns EXCEPT ![r] =
                         [NoTurn EXCEPT !.at = "asked", !.own = own, !.joined = turns[r].joined,
                                        !.named = named, !.seed = Seeded(messages, own, named)]]
    /\ UNCHANGED <<said, log, window>>

(* The last check of the signal before the reply is stored ...               *)
Answer(r) ==
    /\ At(r, "asked") /\ Newest(r)
    /\ turns' = [turns EXCEPT ![r] = [NoTurn EXCEPT !.at = "answered"]]
    /\ UNCHANGED <<said, log, window>>

(* ... which may then come behind the message of a newer turn.               *)
Reply(r) ==
    /\ At(r, "answered")
    /\ said' = Append(said, [role |-> "assistant", text |-> Echo])
    /\ log' = Grown(Len(said'))
    /\ turns' = [q \in Turns |-> IF q = r THEN Over ELSE Joined(q)]
    /\ UNCHANGED window

(* Superseded, or a prompt too large even when cut: the run ends.            *)
GiveUp(r) ==
    /\ turns[r].at \notin {"idle", "answered", "over"}
    /\ At(r, "tooLarge") \/ ~ Newest(r)
    /\ turns' = [turns EXCEPT ![r] = Over]
    /\ UNCHANGED <<said, log, window>>

PromptNext ==
    \E r \in Turns : \/ SubmitTurn(r) \/ Recall(r) \/ Assemble(r) \/ Ask(r)
                     \/ Answer(r) \/ Reply(r) \/ GiveUp(r)

PromptSpec == PromptInit /\ [][PromptNext]_promptVars

-----------------------------------------------------------------------------
Built(r) == turns[r].at \in {"assembled", "tooLarge"}
Without(p, part) == ~ CanCut(p, part)

(* The reply has its room in the model's window, unless the model is smaller *)
(* than the least input and the reserve together; and a prompt is refused    *)
(* only if nothing is left to cut.                                           *)
FitsTheModel(r) ==
    LET p == turns[r].prompt
    IN /\ At(r, "assembled") => \/ Size(p) + Reserve <= window
                                \/ window < MinInput + Reserve
       /\ SkillTokens(p.skills) <= SkillTokenLimit(MaxInput(window))
       /\ At(r, "tooLarge") => \A i \in DOMAIN TrimOrder : Without(p, TrimOrder[i])

(* Cut is no more than needed, the oldest of the history first; summaries,   *)
(* and what the next in the order would have spared, stay.                   *)
CutInOrder(r) ==
    LET p == turns[r].prompt
        given == turns[r].given
        kept == {i \in DOMAIN given.history : Contains(p.history, given.history[i])}
        plain == PlainOnes(given.history)
        gone == plain \ kept
    IN /\ DOMAIN given.history \ plain \subseteq kept
       /\ \A i \in gone, j \in plain \cap kept : i < j
       /\ gone # {} => p.recall = 0 /\ p.skills = <<>>
       /\ p.tools < given.tools => plain \cap kept = {}
       /\ At(r, "assembled") /\ gone # {} /\ p.tools = given.tools =>
            Size(p) + 2 > MaxInput(window)

(* A skill is cut before every one that ranks above it.                      *)
SkillsByRank(r) ==
    LET kept == turns[r].prompt.skills
        given == turns[r].given.skills
    IN \A i \in DOMAIN given : ~ Contains(kept, given[i]) =>
         \A j \in DOMAIN kept : ~ Sooner(kept[j], given[i])

(* What was said before is in the history, and the turn's own message only   *)
(* as the turn's own, unless a summary or another turn's entry has joined it *)
(* in the window (assembler.ts:327 then finds it not at the end).            *)
HistoryIsThePast(r) ==
    LET own == turns[r].own
        past == Covered(turns[r].given.history)
    IN /\ past \cup {own} = 1 .. turns[r].seen
       /\ own \in past => turns[r].joined

(* The model is asked what the user said: in the messages, and once, but for *)
(* the entries of above.  When the route names tools and the history carries *)
(* a resource, tool-use.ts:425 leaves the message of a turn without one out. *)
IsAsked(r) ==
    LET seed == turns[r].seed
        times == Cardinality({i \in DOMAIN seed : turns[r].own \in seed[i].covers})
    IN At(r, "asked") =>
         /\ times > 1 => turns[r].joined
         /\ times = 0 => turns[r].named /\ \E i \in DOMAIN seed : Carries(seed[i])

PromptSound ==
    \A r \in Turns :
      /\ Built(r) => /\ FitsTheModel(r) /\ CutInOrder(r) /\ SkillsByRank(r)
                     /\ HistoryIsThePast(r)
      /\ IsAsked(r)
=============================================================================
