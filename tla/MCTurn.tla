-------------------------------- MODULE MCTurn ---------------------------------
(* A turn of the engine, for TLC: its prompt, the guards' registry, the          *)
(* scheduler of the route's tasks, the turn around them, and its validation.     *)
(* Every behaviour is of one of them, `part`; the others stay as they start.     *)
EXTENDS TaskScheduler, HookRegistry, TurnPipeline, TurnValidation

CONSTANT SessionTurns

VARIABLES part, said, log, window, turns

(* What the preparation of the skills may give: in the order of the registry,    *)
(* as active skills of each source and available ones.                           *)
Skill(source, order) == [source |-> source, order |-> order]
SkillLists ==
    {<<>>, <<Skill("sticky", 1), Skill("sticky", 0), Skill("available", 0)>>,
     <<Skill("available", 7), Skill("always", 0), Skill("recallActive", 3),
       Skill("recallActive", 2)>>}
Prompt == INSTANCE PromptAssembly WITH
    MaxTurns <- SessionTurns, Texts <- {"hi", "look"}, Pictures <- {"look"}, Echo <- "hi",
    Threshold <- 3, HeadKeep <- 1, TailKeep <- 1,
    Windows <- {2, 9, 20}, Configured <- 16, Reserve <- 2, MinInput <- 1,
    TopK <- 1, MaxTools <- 1

promptState == <<said, log, window, turns>>
turnAll == <<part, vars, hookVars, turnVars, verdictVars, promptState>>

AllInit ==
    /\ part \in {"schedule", "guards", "turn", "judge", "prompt"}
    /\ Init /\ HookInit /\ TurnInit /\ VerdictInit
    /\ Prompt!PromptInit
    /\ \A t \in Tasks : <<t, t>> \notin edges
    /\ part # "schedule" => edges = {} /\ ~ failFast /\ readyQueue = SetToSeq(Tasks)
    /\ part # "guards" => failureBehavior = "continue"
    /\ part # "judge" => mode = "off" /\ ~ kept
    /\ part # "prompt" => window = 20

ScheduleStep ==
    part = "schedule" /\ Next /\ UNCHANGED <<part, hookVars, turnVars, verdictVars, promptState>>
GuardStep ==
    part = "guards" /\ HookNext /\ UNCHANGED <<part, vars, turnVars, verdictVars, promptState>>
PipelineStep ==
    part = "turn" /\ TurnNext /\ UNCHANGED <<part, vars, hookVars, verdictVars, promptState>>
JudgeStep ==
    part = "judge" /\ VerdictNext /\ UNCHANGED <<part, vars, hookVars, turnVars, promptState>>
(* Skills and tools are tried in the last turn of the session.                   *)
PromptStep ==
    /\ part = "prompt" /\ Prompt!PromptNext
    /\ \A r \in 1 .. SessionTurns - 1 : turns'[r].given.skills = <<>> /\ turns'[r].given.tools = 0
    /\ UNCHANGED <<part, vars, hookVars, turnVars, verdictVars>>

AllSpec ==
    /\ AllInit /\ [][ScheduleStep \/ GuardStep \/ PipelineStep \/ JudgeStep \/ PromptStep]_turnAll
    /\ WF_vars(part = "schedule" /\ Loop)
    /\ \A t \in Tasks : WF_vars(part = "schedule" /\ Timers(t))
    /\ WF_hookVars(part = "guards" /\ Fire)
    /\ WF_turnVars(part = "turn" /\ TurnStep)
    /\ \A a \in Attempts : WF_turnVars(part = "turn" /\ Reported(a))
    /\ WF_verdictVars(part = "judge" /\ VerdictStep)

(* The types of the parts, and the invariants the proofs of the scheduler, the   *)
(* guards, the turn and its validation are by induction on; a part is looked at  *)
(* in its own behaviours.                                                        *)
TurnOK ==
    /\ part = "schedule" => ScheduleIInv
    /\ part = "guards" => HookIInv
    /\ part = "turn" => TurnTypeOK /\ (at # "ended" => TurnFollows)
    /\ part = "judge" => VerdictIInv
    /\ part = "prompt" => Prompt!PromptTypeOK

PromptSound == part = "prompt" => Prompt!PromptSound

(* What has begun ends: the scheduler's generator, a fire with a handler that    *)
(* hangs, a turn whose consumer goes on reading, and the validation of an        *)
(* attempt.                                                                      *)
EverythingEnds ==
    (\/ part = "schedule"
     \/ part = "guards" /\ phase # "idle"
     \/ part = "turn" /\ at # "setup"
     \/ part = "judge")
      ~> (\/ part = "schedule" /\ Terminated
          \/ part = "guards" /\ outcome # "pending"
          \/ part = "turn" /\ at = "ended"
          \/ part = "judge" /\ judgeStage \in {"delivered", "failed"})
================================================================================
