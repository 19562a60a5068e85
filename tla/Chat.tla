--------------------------------- MODULE Chat ---------------------------------
(***************************************************************************)
(* `tachu chat` (packages/cli/src): the readline loop (interactive.ts), the *)
(* full-screen Ink loop (ui/ink-interactive-chat.tsx), the slash commands   *)
(* both share (interactive-slash.ts), Ctrl-C, and the questions the tool    *)
(* approvals ask through the prompter of the loop.                          *)
(*                                                                          *)
(* The readline loop waits for its turn before it reads on.  The Ink loop   *)
(* starts a turn from the key handler and takes input whenever no turn is   *)
(* marked running and no question is shown.                                 *)
(*                                                                          *)
(* Abstractions: a budget is the set of turns credited to it; chat, image   *)
(* and text-to-image turns take the same path; what is displayed is left    *)
(* out, a save is one step.  The engine is what the loops see of it: a turn *)
(* ends with its done chunk or throws, and a newer run of the session       *)
(* cancels the older one.                                                   *)
(***************************************************************************)
EXTENDS Naturals, FiniteSets

CONSTANTS
    MaxTurns,           \* bound: turns started
    MaxSessions,        \* bound: sessions of the store and new ones
    MaxQuestions        \* bound: questions asked

ChatBoundsAssumption == {MaxTurns, MaxSessions, MaxQuestions} \subseteq Nat

Turns == 1 .. MaxTurns
ChatSessions == 1 .. MaxSessions
Questions == Turns \X (1 .. MaxQuestions)
NoTurn == [pc |-> "none", session |-> 0, cancelled |-> FALSE, asked |-> 0]

VARIABLES
    ui,                 \* the loop that runs: "none", "readline", "ink", "ended"
    turn,               \* each turn: where it is, the session of its context
    running,            \* running, runningRef.current
    controller,         \* the turn controllerRef.current belongs to, or 0
    current,            \* sessionHolder.session.id
    budget,             \* turns credited to the session object in the holder
    saved,              \* turns credited in each session file; {0} while there is none
    open,               \* questions whose promise is not resolved
    slot,               \* what the next line answers: a question, "loop" or "none"
    reader,             \* the readline loop: "ask", "reading", "deaf", "busy"
    sigints,            \* sigintCount
    recent,             \* the last Ctrl-C is less than a second old
    overlapped          \* a line was taken while a turn was not over

ctrlVars == <<sigints, recent>>
storeVars == <<current, budget, saved>>
askVars == <<open, slot, reader>>
chatVars == <<ui, turn, running, controller, storeVars, askVars, ctrlVars, overlapped>>

Unsaved == {0}
Streaming(t) == turn[t].pc = "stream"

ChatTypeOK ==
    /\ ui \in {"none", "readline", "ink", "ended"} /\ current \in ChatSessions
    /\ \A t \in Turns : turn[t].pc \in {"none", "stream", "over"}
    /\ controller \in 0 .. MaxTurns /\ running \in BOOLEAN
    /\ budget \subseteq Turns /\ \A s \in ChatSessions : saved[s] \subseteq 0 .. MaxTurns
    /\ open \subseteq Questions /\ slot \in Questions \cup {<<"loop">>, <<>>}
    /\ reader \in {"ask", "reading", "deaf", "busy"} /\ sigints \in 0 .. 2
    /\ ui = "readline" => Cardinality({t \in Turns : Streaming(t)}) <= 1

ChatInit ==
    /\ ui = "none"
    /\ turn = [t \in Turns |-> NoTurn]
    /\ running = FALSE /\ controller = 0
    /\ current = 1 /\ budget = {}
    /\ saved = [s \in ChatSessions |-> IF s = 1 THEN {} ELSE Unsaved]
    /\ open = {} /\ slot = <<>> /\ reader = "ask"
    /\ sigints = 0 /\ recent = FALSE /\ overlapped = FALSE

-----------------------------------------------------------------------------
OpenChat(which) ==
    /\ ui = "none"
    /\ ui' = which
    /\ UNCHANGED <<turn, running, controller, storeVars, askVars, ctrlVars, overlapped>>

(* rl.question("you> "): Node keeps one callback; while another question     *)
(* waits, the new one is shown and never answered.                           *)
AskForLine ==
    /\ ui = "readline" /\ reader = "ask"
    /\ IF slot = <<>> THEN slot' = <<"loop">> /\ reader' = "reading"
       ELSE reader' = "deaf" /\ UNCHANGED slot
    /\ UNCHANGED <<ui, turn, running, controller, storeVars, open, ctrlVars, overlapped>>

(* The loop takes a line.                                                    *)
TakesInput ==
    \/ ui = "readline" /\ slot = <<"loop">>
    \/ ui = "ink" /\ ~ running /\ slot = <<>>

LineTaken ==
    /\ TakesInput
    /\ sigints' = 0 /\ recent' = FALSE
    /\ overlapped' = (overlapped \/ \E t \in Turns : Streaming(t))
    /\ slot' = <<>> /\ UNCHANGED open

ReaderGoes(where) == reader' = IF ui = "readline" THEN where ELSE reader

(* A line for the engine: the gated MCP tools are activated, controller and  *)
(* running are set, and runStream begins the run; a run of the same session  *)
(* that is still at work is cancelled.                                       *)
SubmitTurn(t) ==
    /\ LineTaken /\ ReaderGoes("busy")
    /\ turn[t].pc = "none" /\ \A u \in 1 .. t - 1 : turn[u].pc # "none"
    /\ running' = TRUE /\ controller' = t
    /\ turn' = [u \in Turns |->
                  IF u = t THEN [turn[t] EXCEPT !.pc = "stream", !.session = current]
                  ELSE IF Streaming(u) /\ turn[u].session = current
                         THEN [turn[u] EXCEPT !.cancelled = TRUE] ELSE turn[u]]
    /\ UNCHANGED <<ui, storeVars>>

(* A tool call of the turn asks for approval through the prompter: readline  *)
(* drops a second question, the Ink bridge drops the first.                  *)
AskApproval(q) ==
    /\ Streaming(q[1]) /\ ui # "ended" /\ ~ turn[q[1]].cancelled
    /\ q[2] = turn[q[1]].asked + 1
    /\ Cardinality({p \in Questions : p[2] <= turn[p[1]].asked}) < MaxQuestions
    /\ turn' = [turn EXCEPT ![q[1]].asked = q[2]]
    /\ open' = open \cup {q}
    /\ slot' = IF ui = "ink" \/ slot = <<>> THEN q ELSE slot
    /\ UNCHANGED <<ui, running, controller, storeVars, reader, ctrlVars, overlapped>>

Resolve(q) == open' = open \ {q} /\ slot' = <<>>

(* A key or a line for the question shown; in Ink, Ctrl-C answers it too.    *)
AnswerQuestion ==
    /\ ui \in {"readline", "ink"} /\ slot \in Questions
    /\ Resolve(slot)
    /\ UNCHANGED <<ui, turn, running, controller, storeVars, reader, ctrlVars, overlapped>>

Save(s, b) == saved' = [saved EXCEPT ![s] = b]

(* Mutant: the session is saved before the turn is credited.                 *)
TurnEndsUnsaved(t) ==
    /\ Streaming(t) /\ ui # "ended"
    /\ budget' \in {budget, budget \cup {t}}
    /\ Save(current, budget)
    /\ turn' = [turn EXCEPT ![t].pc = "over"]
    /\ running' = FALSE /\ controller' = IF ui = "ink" THEN 0 ELSE controller
    /\ ReaderGoes("ask")
    /\ UNCHANGED <<ui, current, open, slot, ctrlVars, overlapped>>

(* Mutant: running is reset only where the output is handled.                *)
TurnEndsRunning(t) ==
    /\ Streaming(t) /\ ui # "ended"
    /\ budget' \in {budget, budget \cup {t}}
    /\ Save(current, budget')
    /\ turn' = [turn EXCEPT ![t].pc = "over"]
    /\ running' = (running /\ budget' = budget) /\ controller' = IF ui = "ink" THEN 0 ELSE controller
    /\ ReaderGoes("ask")
    /\ UNCHANGED <<ui, current, open, slot, ctrlVars, overlapped>>

(* The turn ends: a done chunk is credited to the session in the holder, and *)
(* that is saved; runStream may also throw.                                  *)
TurnEnds(t) ==
    /\ Streaming(t) /\ ui # "ended"
    /\ budget' \in {budget, budget \cup {t}}
    /\ Save(current, budget')
    /\ turn' = [turn EXCEPT ![t].pc = "over"]
    /\ running' = FALSE /\ controller' = IF ui = "ink" THEN 0 ELSE controller
    /\ ReaderGoes("ask")
    /\ UNCHANGED <<ui, current, open, slot, ctrlVars, overlapped>>

Settled(t) == ~ \E q \in open : q[1] = t

-----------------------------------------------------------------------------
(* The slash commands that change something.                                 *)
Slash ==
    /\ LineTaken /\ ReaderGoes("ask")
    /\ UNCHANGED <<ui, turn, running, controller>>

SlashSave == Slash /\ Save(current, budget) /\ UNCHANGED <<current, budget>>

(* /reset, /clear                                                            *)
SlashReset == Slash /\ budget' = {} /\ Save(current, {}) /\ UNCHANGED current

SlashNew ==
    /\ Slash
    /\ \E s \in ChatSessions : saved[s] = Unsaved /\ s # current /\ current' = s
    /\ budget' = {} /\ Save(current, budget)

(* /load: the file is read before the current session is saved.              *)
SlashLoad(s) ==
    /\ Slash /\ saved[s] # Unsaved
    /\ current' = s /\ budget' = saved[s]
    /\ Save(current, budget)

(* The process ends, and with it whatever waits.                             *)
Ends ==
    /\ ui' = "ended" /\ running' = FALSE /\ controller' = 0
    /\ open' = {} /\ slot' = <<>> /\ reader' = "ask"
    /\ sigints' = 0 /\ recent' = FALSE
    /\ UNCHANGED <<turn, current, budget, overlapped>>

SlashExit == TakesInput /\ Save(current, budget) /\ Ends

-----------------------------------------------------------------------------
(* handleSigint                                                              *)
CancelRun ==
    turn' = [t \in Turns |-> IF Streaming(t) /\ turn[t].session = current
                               THEN [turn[t] EXCEPT !.cancelled = TRUE] ELSE turn[t]]

KeyReaches == ui = "readline" \/ (ui = "ink" /\ slot \notin Questions)

CtrlCCancels ==
    /\ KeyReaches /\ running /\ (ui = "ink" => controller # 0)
    /\ CancelRun
    /\ running' = FALSE
    /\ sigints' = 1 /\ recent' = TRUE
    /\ UNCHANGED <<ui, controller, storeVars, askVars, overlapped>>

(* Twice within a second: save and exit.  The third time: exit.              *)
CtrlCExits ==
    /\ KeyReaches /\ ~ (running /\ (ui = "ink" => controller # 0))
    /\ \/ sigints >= 1 /\ recent /\ Save(current, budget)
       \/ sigints >= 2 /\ ~ recent /\ UNCHANGED saved
    /\ Ends

CtrlCWarns ==
    /\ KeyReaches /\ ~ (running /\ (ui = "ink" => controller # 0))
    /\ sigints = 0 \/ (sigints = 1 /\ ~ recent)
    /\ sigints' = sigints + 1 /\ recent' = TRUE
    /\ UNCHANGED <<ui, turn, running, controller, storeVars, askVars, overlapped>>

SecondPasses ==
    /\ recent /\ recent' = FALSE
    /\ UNCHANGED <<ui, turn, running, controller, storeVars, askVars, sigints, overlapped>>

TurnSettles(t) == Settled(t) /\ TurnEnds(t)

(* The engine's task timer ends the turn over an open question.              *)
TaskTimesOut(t) == ~ Settled(t) /\ TurnEnds(t)

UserStep ==
    \/ AnswerQuestion \/ SlashSave \/ SlashReset \/ SlashNew \/ SlashExit
    \/ (\E s \in ChatSessions : SlashLoad(s)) \/ (\E t \in Turns : SubmitTurn(t))
    \/ CtrlCCancels \/ CtrlCExits \/ CtrlCWarns

ChatNext ==
    \/ \E which \in {"readline", "ink"} : OpenChat(which)
    \/ AskForLine \/ SecondPasses \/ UserStep
    \/ \E t \in Turns : TurnSettles(t) \/ TaskTimesOut(t)
    \/ \E q \in Questions : AskApproval(q)

TurnOver(t) == TurnSettles(t) \/ TaskTimesOut(t)

(* The loop goes on and the engine comes to an end: its tools and its model  *)
(* have timeouts, and so has the task that waits for an answer.              *)
ChatFairness ==
    /\ WF_chatVars(AskForLine)
    /\ \A t \in Turns : WF_chatVars(TurnOver(t))
ChatSpec == ChatInit /\ [][ChatNext]_chatVars /\ ChatFairness

-----------------------------------------------------------------------------
(* A turn at work is the one that is marked running, unless it was cancelled.*)
(* Ctrl-C reaches it: the hint line says "Ctrl+C 取消/连按退出"               *)
(* (ui/ink-interactive-chat.tsx:849).                                        *)
CtrlCReaches ==
    \A t \in Turns : Streaming(t) /\ ~ turn[t].cancelled /\ ui = "ink" =>
        running /\ controller = t

(* While no line was taken before the last turn was over, every turn's usage *)
(* is in the budget of the session it ran in, in the file or in the holder,  *)
(* and nowhere else; once the chat has ended the files have it all.  A third *)
(* Ctrl-C loses nothing, since every turn is saved when it ends.             *)
InSessions(t) == {s \in ChatSessions : t \in saved[s] \/ (s = current /\ t \in budget)}

CreditedOnce ==
    ~ overlapped =>
        /\ \A t \in Turns : InSessions(t) \subseteq {turn[t].session}
        /\ \A t \in Turns : running /\ Streaming(t) => controller = t
        /\ budget = saved[current] \/ (budget = {} /\ saved[current] = Unsaved)

(* The readline loop hears its line (interactive.ts:139: asking through the  *)
(* shared interface keeps the main loop's readline from being dragged to     *)
(* death).                                                                   *)
MainLoopHears == reader # "deaf"

(* The Ink loop takes input again, or shows a question, whatever became of   *)
(* the turn.                                                                 *)
Busy == ui = "ink" /\ running
InputReturns == Busy ~> ~ Busy
===============================================================================
