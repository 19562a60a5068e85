----------------------------- MODULE SubAgents ------------------------------
(***************************************************************************)
(* Sub-agents: Engine.runSubAgent and the context it builds for the loop of *)
(* an agent (packages/core/src/engine/engine.ts), the agent runtime         *)
(* (engine/agents/runtime.ts) and the dispatch_agent call of a loop         *)
(* (engine/subflows/tool-use.ts).                                           *)
(*                                                                          *)
(* Dispatches form a tree: those of the turn (its loop, or an agent task of *)
(* the route) are at depth 1, those of an agent's loop one deeper.  Each    *)
(* has a signal of its own, derived from the one above, with a 60 s timer.  *)
(* The dispatches of one loop run side by side.                             *)
(*                                                                          *)
(* Abstractions: what an agent answers, its budget and its evidence are     *)
(* left out; the loop of an agent is the calls of the registry it runs, and *)
(* its end; dispatching is not switched off; a host's own agent runtime is  *)
(* not modelled.                                                            *)
(***************************************************************************)
EXTENDS Naturals, FiniteSets, Sequences

CONSTANTS
    Agents,         \* names a dispatch may give; some have no descriptor
    Readers,        \* tools whose sideEffect is readonly
    Writers,        \* the others
    MaxDispatches,  \* bound: dispatches of a turn
    DeepestLimit    \* bound: the largest maxDepth tried

VARIABLES
    tools,          \* the tools in the registry
    limits,         \* descriptor.maxDepth of the agents in the registry
    available,      \* descriptor.availableTools of those agents
    maxDepth,       \* runtime.toolLoop.subagentDispatch.maxDepth
    turnAborted,    \* the signal of the turn's loop
    runs            \* the dispatches, in the order they were made

agentVars == <<tools, limits, available, maxDepth, turnAborted, runs>>

Known == DOMAIN limits
AllTools == Readers \cup Writers
Dispatches ==
    [above : Nat, agent : Agents, depth : Nat, aborted : BOOLEAN, used : SUBSET AllTools,
     spawned : BOOLEAN, audited : BOOLEAN, at : {"asked", "looping", "ran", "over"},
     status : {"none", "completed", "failed", "cancelled"}]
Least(a, b) == IF a < b THEN a ELSE b

Offer == INSTANCE ToolOffer

(* A tool writes or not, and has no name of the engine's own tools.          *)
AgentsAssumption ==
    /\ DeepestLimit \in Nat
    /\ Readers \cap Writers = {}
    /\ AllTools \cap (Offer!Internal \cup {Offer!Dispatch}) = {}

(* Types of the dispatches.                                                  *)
AgentsTypeOK ==
    /\ tools \subseteq AllTools
    /\ limits \in [Known -> 0 .. DeepestLimit] /\ Known \subseteq Agents
    /\ available \in [Agents -> SUBSET AllTools]
    /\ maxDepth \in 0 .. DeepestLimit
    /\ turnAborted \in BOOLEAN
    /\ runs \in Seq(Dispatches)

AgentsInit ==
    /\ tools \in SUBSET AllTools
    /\ \E known \in SUBSET Agents : limits \in [known -> 0 .. DeepestLimit]
    /\ available \in [Agents -> SUBSET AllTools]
    /\ maxDepth \in 0 .. DeepestLimit
    /\ turnAborted = FALSE
    /\ runs = <<>>

-----------------------------------------------------------------------------
(* filterReadonlyToolNames: a name the registry does not know is left out.   *)
Allowed(agent) == {t \in available[agent] : t \in tools /\ t \in Readers}

(* What the loop of an agent is offered: the prompt built for it has the      *)
(* allowed tools, and they are its toolNames as well, if there are any.       *)
OfferedTo(i) ==
    LET allowed == Allowed(runs[i].agent)
    IN Offer!Offered(Offer!Defined(allowed, "registry"), tools, allowed,
                     Known, runs[i].depth, maxDepth)

Depth(above) == IF above = 0 THEN 1 ELSE runs[above].depth + 1
Aborted(above) == IF above = 0 THEN turnAborted ELSE runs[above].aborted
Below(i) == {j \in DOMAIN runs : runs[j].above = i}

(* The loop above calls dispatch_agent (or the route has an agent task).  An   *)
(* agent without a descriptor fails at once.                                   *)
DispatchAgent(above, agent) ==
    /\ above # 0 => runs[above].at = "looping"
    /\ Len(runs) < MaxDispatches
    /\ runs' = Append(runs,
          [above |-> above, agent |-> agent, depth |-> Depth(above),
           aborted |-> Aborted(above), used |-> {}, spawned |-> FALSE, audited |-> FALSE,
           at |-> IF agent \in Known THEN "asked" ELSE "over",
           status |-> IF agent \in Known THEN "none" ELSE "failed"])
    /\ UNCHANGED <<tools, limits, available, maxDepth, turnAborted>>

Becomes(i, at, status) ==
    /\ LET r == runs[i] IN
       runs' = [runs EXCEPT ![i] =
          [r EXCEPT !.at = at, !.status = status, !.spawned = r.spawned \/ at # "over",
                    !.audited = r.audited \/ (at = "over" /\ r.at = "ran")]]
    /\ UNCHANGED <<tools, limits, available, maxDepth, turnAborted>>

(* preSubagent denies, or no model can be routed to: nothing was spawned.      *)
NotSpawned(i) ==
    /\ runs[i].at = "asked"
    /\ Becomes(i, "over", "failed")

(* Mutant: the depth of the dispatch is not compared.                          *)
TooDeepIgnoresDepth(i) ==
    Least(limits[runs[i].agent], maxDepth) <= 0

(* The gate of DefaultAgentRuntimeAdapter.run.                                 *)
TooDeep(i) ==
    LET limit == Least(limits[runs[i].agent], maxDepth)
    IN limit <= 0 \/ runs[i].depth > limit \/ runs[i].depth > limits[runs[i].agent]

(* preSubagent lets it pass, and the runtime starts its loop.                  *)
Spawn(i) ==
    /\ runs[i].at = "asked"
    /\ IF TooDeep(i) THEN Becomes(i, "ran", "failed")
       ELSE IF runs[i].aborted THEN Becomes(i, "ran", "cancelled")
       ELSE Becomes(i, "looping", "none")

(* The loop of an agent runs a tool its model has named: one of the registry,  *)
(* offered or not, and without asking the user, whom its context cannot reach. *)
AgentCalls(i, tool) ==
    /\ runs[i].at = "looping"
    /\ Offer!RunBy(tool, tools, FALSE) = "registry"
    /\ runs' = [runs EXCEPT ![i].used = @ \cup {tool}]
    /\ UNCHANGED <<tools, limits, available, maxDepth, turnAborted>>

(* The loop of an agent ends once its dispatches are over: whatever it returned *)
(* is completed unless it failed or threw, or its signal was aborted meanwhile. *)
AgentLoopEnds(i) ==
    /\ runs[i].at = "looping"
    /\ \A j \in Below(i) : runs[j].at = "over"
    /\ \E status \in {"completed", "failed"} :
          Becomes(i, "ran", IF runs[i].aborted THEN "cancelled" ELSE status)

(* postSubagent, and the caller is told.                                        *)
Settle(i) ==
    /\ runs[i].at = "ran"
    /\ Becomes(i, "over", runs[i].status)

-----------------------------------------------------------------------------
(* Mutant: a signal is not derived from the one above it.                       *)
UnderItself(i) == {i}

(* A dispatch and those above it, up to the loop of the turn.                   *)
Chain[i \in DOMAIN runs] ==
    {i} \cup (IF runs[i].above = 0 THEN {} ELSE Chain[runs[i].above])

(* The dispatches whose signal is derived from that of i.                       *)
Under(i) == {j \in DOMAIN runs : i \in Chain[j]}

(* An abort tells on the dispatches whose loop has not ended.                   *)
Heeds(i) == runs[i].at \in {"asked", "looping"}
AbortAll(set) == [j \in DOMAIN runs |->
    IF j \in set /\ Heeds(j) THEN [runs[j] EXCEPT !.aborted = TRUE] ELSE runs[j]]

(* The 60 s of a dispatch pass.                                                 *)
DispatchTimesOut(i) ==
    /\ Heeds(i) /\ ~ runs[i].aborted
    /\ runs' = AbortAll(Under(i))
    /\ UNCHANGED <<tools, limits, available, maxDepth, turnAborted>>

TurnAborts ==
    /\ ~ turnAborted
    /\ turnAborted' = TRUE
    /\ runs' = AbortAll(DOMAIN runs)
    /\ UNCHANGED <<tools, limits, available, maxDepth>>

AgentGoesOn(i) == NotSpawned(i) \/ Spawn(i) \/ AgentLoopEnds(i) \/ Settle(i)

AgentsNext ==
    \/ \E above \in 0 .. Len(runs), agent \in Agents : DispatchAgent(above, agent)
    \/ \E i \in DOMAIN runs :
          \/ AgentGoesOn(i) \/ DispatchTimesOut(i)
          \/ \E tool \in tools : AgentCalls(i, tool)
    \/ TurnAborts

AgentsSpec == AgentsInit /\ [][AgentsNext]_agentVars

-----------------------------------------------------------------------------
(* What the loop of an agent is offered: nothing that writes, and to dispatch only *)
(* above the last depth.                                                           *)
AgentOffered(i) == runs[i].agent \in Known =>
    LET names == Offer!Names(OfferedTo(i)) IN
    /\ names \cap Writers = {}
    /\ Offer!Dispatch \in names => runs[i].depth < maxDepth

(* What dispatching promises, whatever the loops do.  An agent works only      *)
(* within the depth its descriptor and the configuration allow, counted along  *)
(* the tree, and only while the loop that dispatched it waits for it.  None    *)
(* goes on unaware that a loop above it was aborted, and none that was aborted *)
(* is reported completed.  A dispatch the guard refused has run nothing, one   *)
(* that was spawned is audited before the caller is told.  No agent is offered *)
(* a tool that writes, though the whole registry is what it can call.          *)
AgentsContained == \A i \in DOMAIN runs : LET r == runs[i] IN
    /\ AgentOffered(i)
    /\ r.at = "looping" \/ r.used # {} \/ r.status = "completed" =>
          Cardinality(Chain[i]) <= Least(limits[r.agent], maxDepth)
    /\ r.above # 0 =>
          /\ r.at # "over" => runs[r.above].at = "looping"
          /\ Heeds(i) /\ runs[r.above].aborted => r.aborted
    /\ r.aborted => r.status # "completed"
    /\ r.at = "over" => r.audited = r.spawned
    /\ ~ r.spawned => r.used = {}

-----------------------------------------------------------------------------
(* What the proof of AgentsContained is by induction on.  The depth a dispatch *)
(* was given is the length of its chain.                                       *)
ChainsCounted ==
    /\ Chain \in [DOMAIN runs -> SUBSET DOMAIN runs]
    /\ \A i \in DOMAIN runs :
          /\ runs[i].above < i
          /\ Chain[i] = {i} \cup (IF runs[i].above = 0 THEN {} ELSE Chain[runs[i].above])
          /\ IsFiniteSet(Chain[i]) /\ Cardinality(Chain[i]) = runs[i].depth

(* The loop above waits, and its abort has reached the signal below.           *)
AboveWaits == \A i \in DOMAIN runs : runs[i].above # 0 =>
    /\ runs[i].at # "over" => runs[runs[i].above].at = "looping"
    /\ Heeds(i) /\ runs[runs[i].above].aborted => runs[i].aborted

(* What is known of a dispatch follows from how far it has come.               *)
StatusFollows == \A i \in DOMAIN runs : LET r == runs[i] IN
    /\ r.at # "over" => r.agent \in Known /\ ~ r.audited
    /\ r.at = "over" => r.audited = r.spawned
    /\ r.at = "asked" => ~ r.spawned
    /\ r.at \in {"looping", "ran"} => r.spawned
    /\ Heeds(i) => r.status = "none"
    /\ r.aborted => r.status # "completed"
    /\ ~ r.spawned => r.used = {}
    /\ r.at = "looping" \/ r.used # {} \/ r.status = "completed" =>
          r.agent \in Known /\ r.depth <= Least(limits[r.agent], maxDepth)

AgentsIInv == AgentsTypeOK /\ ChainsCounted /\ AboveWaits /\ StatusFollows

(* docs/architecture/pipeline-phases.md:146 on the Single-Writer Rule: "All    *)
(* write access stays with the main loop."                                     *)
AgentsOnlyRead == \A i \in DOMAIN runs : runs[i].used \subseteq Readers

=============================================================================
