----------------------------- MODULE MCToolLoop -----------------------------
(* The agentic loop and what surrounds it, for TLC: the loop with its calls,  *)
(* the sub-agents it dispatches, the selection of the tools it is given, and  *)
(* the checks that may refuse a turn or a call.  Every behaviour is of one of *)
(* them, `part'; the others stay as they start.                               *)
(* The batches mix the kinds of calls; one is longer than the workers are     *)
(* many.                                                                      *)
EXTENDS ToolLoop, SubAgents, ToolAdmission

CONSTANTS a1, a2, t1, t2, t3

VARIABLE part

ASSUME PartsAssumption == AgentsAssumption

loopAll == <<part, vars, agentVars, admissionVars>>

MCBatches ==
    {<<"unknown">>, <<"tool", "tool", "dispatch">>}

(* The registry has one of the two agents, with every limit; the configuration  *)
(* is the stricter one in the first case.                                       *)
MCAgentLimits == {<<[a \in {a1} |-> 2], 1>>} \cup {<<[a \in {a1} |-> n], 2>> : n \in 0 .. 2}

MCSiblings == [t \in Tools |-> IF t = t1 THEN {t2} ELSE {}]

(* The turns tried: t1 and t2 are in the registry, t3 is of the scope; the host *)
(* includes, excludes, allows or denies t1 and t2, and the prompt names them or *)
(* not; with expansion, without, and with routing disabled; and turns with      *)
(* explicit names, an agent, or a question for the time.                        *)
TurnWith(of1, of2, how1, how2) ==
    LET These(kinds) == {t \in {t1, t2} : (IF t = t1 THEN of1 ELSE of2) \in kinds}
    IN [registry |-> {t1, t2}, additional |-> {t3}, off |-> FALSE,
        deny |-> These({"deny"}), allow |-> These({"allow", "deny"}),
        exclude |-> These({"exclude", "both"}), include |-> These({"include", "both"}),
        mention |-> [t \in Tools |-> IF t = t1 THEN how1 ELSE IF t = t2 THEN how2 ELSE "none"],
        explicit |-> {}, agent |-> FALSE, time |-> FALSE, expand |-> FALSE]

Standings == {"none", "include", "exclude", "allow", "deny", "both"}
MCTurns ==
    LET plain == {TurnWith(of1, of2, how1, how2) :
                     of1 \in Standings, of2 \in {"none", "exclude", "deny"},
                     how1 \in {"none", "loose", "exact"}, how2 \in {"none", "loose"}}
        quiet == {TurnWith("none", of2, "none", "none") : of2 \in Standings}
    IN plain
         \cup {[TurnWith(of1, of2, how1, "none") EXCEPT !.expand = TRUE] :
                  of1 \in Standings, of2 \in {"none", "exclude"}, how1 \in {"none", "exact"}}
         \cup {[t EXCEPT !.off = TRUE] : t \in quiet}
         \cup {[t EXCEPT !.explicit = {t2, t3}, !.agent = x, !.time = ~ x] :
                  t \in quiet, x \in BOOLEAN}
         \cup {[t EXCEPT !.time = TRUE] : t \in quiet}

LoopInit ==
    /\ part \in {"loop", "agents", "route", "safety"}
    /\ Init
    /\ AgentsInit
    /\ <<limits, maxDepth>> \in MCAgentLimits
    /\ available = [a \in Agents |-> Readers \cup Writers]
    /\ tools = Readers \cup Writers
    /\ part # "agents" => maxDepth = 1
    /\ AdmissionInit
    /\ part # "route" => turnOf = TurnWith("none", "none", "none", "none")

LoopPart == part = "loop" /\ Next /\ UNCHANGED <<part, agentVars, admissionVars>>

(* Of the calls an agent's loop makes itself those of writers are enough.       *)
AgentsPart ==
    /\ part = "agents" /\ AgentsNext
    /\ \A i \in DOMAIN runs' : runs'[i].used \subseteq Writers
    /\ UNCHANGED <<part, vars, admissionVars>>

RoutePart == part = "route" /\ RoutingNext /\ UNCHANGED <<part, vars, agentVars, safetyVars>>

(* The gate is tried while no turn is in its checks.                            *)
SafetyPart ==
    /\ part = "safety" /\ SafetyNext
    /\ call' # call => handles = <<>> /\ \A c \in Checks : check[c] = Idle
    /\ handles' # handles \/ check' # check => \A n \in Calls : call[n] = NoCall
    /\ UNCHANGED <<part, vars, agentVars, routingVars>>

LoopSpec ==
    /\ LoopInit /\ [][LoopPart \/ AgentsPart \/ RoutePart \/ SafetyPart]_loopAll
    /\ WF_vars(part = "loop" /\ LoopStep)
    /\ \A i \in UNION {DOMAIN batch : batch \in Batches} :
          WF_vars(part = "loop" /\ i \in DOMAIN calls /\ CallStep(i))
    /\ \A i \in 1 .. MaxDispatches :
          WF_agentVars(part = "agents" /\ i \in DOMAIN runs /\ AgentGoesOn(i))

(* The types of the four parts, and the invariants the proofs are by induction   *)
(* on.                                                                           *)
LoopOK == LoopIInv /\ AgentsIInv /\ AdmissionIInv

(* The loop comes to an end or waits for the user, and so does the tree of its   *)
(* sub-agents come to an end, from the leaves up.                                *)
LoopEnds ==
    /\ <>(\/ part # "loop" \/ loop = "done"
          \/ [](\E i \in DOMAIN calls : stage[i] = "approval"))
    /\ \A n \in 1 .. MaxDispatches :
          n \in DOMAIN runs ~> (n \in DOMAIN runs /\ runs[n].at = "over")
=============================================================================
