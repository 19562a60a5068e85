---------------------------- MODULE MCEngineRuns ----------------------------
(* Sessions and their runs for TLC.  Every behaviour is of one `part': the    *)
(* operations of the session manager in any order, the runs of an engine,     *)
(* which use it, or the skills of a session turn after turn.                  *)
(* The manager is given one session and all the runs, which are interchangeable *)
(* and are begun in a fixed order; the engine two runs whose sessions are      *)
(* chosen freely, so that they share one in some initial states and not in     *)
(* others; sessions being interchangeable, the first run's may be fixed.       *)
EXTENDS EngineRuns, SkillActivation, SequencesExt

CONSTANTS
    Spare,          \* the runs the engine's behaviours do not start
    always, asked, known, hosted, retired       \* the skills, by what they are

VARIABLE part

(* Skills of every mode; the texts are of one or two tokens, so that two of the *)
(* larger do not fit beside the one that is always given.                       *)
MCNames == {always, asked, known, hosted, retired}
MCRegistered == MCNames \ {hosted}
MCDeprecated == {retired}
MCMode == [s \in MCNames |-> CASE s = always -> "always"
                                 [] s \in {asked, retired} -> "manual"
                                 [] OTHER -> "semantic"]
MCTokens == [s \in MCNames |-> IF s = always THEN 1 ELSE 2]

(* Turns: with a recall and a strategy that promotes; with names, a pin and an   *)
(* exclusion of what is named; with an exclusion of what is recalled.            *)
Turn(named, pinned, excluded, scores) ==
    [explicit |-> named, pin |-> pinned, exclude |-> excluded, scores |-> scores]
Scored(s, n, host, promote) == [name |-> s, score |-> n, host |-> host, promote |-> promote]
MCInputs ==
    {Turn({}, {}, {}, <<Scored(known, 2, FALSE, FALSE), Scored(hosted, 1, TRUE, TRUE)>>),
     Turn({asked, retired}, {known}, {asked}, <<>>),
     Turn({asked}, {}, {known, hosted}, <<Scored(known, 2, TRUE, FALSE)>>)}

theRuns == <<vars, runVars, disposeVars>>
allParts == <<part, theRuns, skillVars>>
FirstInput == Turn({asked, retired}, {known}, {asked}, <<>>)
Order == SetToSeq(Runs)
OneSession == CHOOSE s \in Sessions : TRUE

AllInit ==
    /\ part \in {"manager", "engine", "skills"}
    /\ EngineInit
    /\ SkillsInit
    /\ part # "skills" => input = FirstInput
    /\ \A r \in Runs :
          \/ part = "engine" /\ r \in Runs \ (Spare \cup {Order[1]})
          \/ target[r] = OneSession

ManagerStep ==
    /\ part = "manager" /\ Next /\ exists' \subseteq {OneSession}
    /\ \A i, j \in DOMAIN Order :
          i < j /\ runState'[Order[i]] = "unused" => runState'[Order[j]] = "unused"
    /\ UNCHANGED <<part, runVars, disposeVars, skillVars>>

EngineStep ==
    /\ part = "engine" /\ EngineNext /\ \A r \in Spare : pc'[r] = "idle"
    /\ UNCHANGED <<part, skillVars>>

SkillStep ==
    /\ part = "skills" /\ SkillsNext
    /\ \A load \in loads' : load.name \in {asked, known, hosted}
    /\ clearedAt' # clearedAt => clearedAt = 0
    /\ UNCHANGED <<part, theRuns>>

MCSpec ==
    /\ AllInit /\ [][ManagerStep \/ EngineStep \/ SkillStep]_allParts
    /\ \A r \in Runs \ Spare :
          /\ WF_allVars(part = "engine" /\ RunStep(r))
          /\ WF_allVars(part = "engine" /\ WorkSettles(r))

(* The types of all parts, and the invariants the proofs of the manager, of the *)
(* engine and of the skills are by induction on.                                *)
RunsOK ==
    /\ EngineTypeOK /\ IInv
    /\ part = "engine" => EngineIInv
    /\ part = "skills" => SkillIInv
=============================================================================
