----------------------------- MODULE ToolRouting -----------------------------
(***************************************************************************)
(* Which tools a turn is for: the strategies of                            *)
(* packages/core/src/engine/tool-activation, which propose tools at the    *)
(* same time; the selection from what they propose; the routing phase      *)
(* (engine/phases/tool-routing.ts) that makes the task of the turn from    *)
(* it; and what the loop of that task offers to the model.                 *)
(*                                                                         *)
(* Abstractions: how the text of the prompt mentions a tool is an input,   *)
(* as are the scores of the semantic index; the stack of strategies is the *)
(* default one with a policy source; a list of tools is a set, except for  *)
(* the contributions, whose order is that of their arrival.                *)
(***************************************************************************)
EXTENDS Naturals, FiniteSets, Sequences, SequencesExt

CONSTANTS
    Tools,      \* names of tools
    Levels,     \* scores of the semantic index, Nat
    Siblings,   \* discoveryExpansion.siblings, [Tools -> SUBSET Tools]
    RunShell,   \* the name run-shell
    TopK,       \* how many of the scored tools are shown
    Turns       \* the turns tried

VARIABLES
    turnOf,     \* what the host and the prompt ask for (see Settings)
    routeStage, \* "scoring" | "selected" | "routed" | "offered"
    due,        \* the strategies that have not settled
    denySource, \* "pending" | "read" | "failed": the policy source
    raw,        \* contributions in the order they arrived
    visible,    \* the selection
    task,       \* the task of the route: its kind and its toolNames
    offered     \* definitions the loop of the task offers

routingVars == <<turnOf, routeStage, due, denySource, raw, visible, task, offered>>

Offering == INSTANCE ToolOffer

(* The turn: what the registry and the scope know; toolRoutingDisabled; the   *)
(* rules of the policy source; gatingPolicy; how the prompt names each tool;  *)
(* scope.explicitToolNames; whether it names an agent, asks for the time, and *)
(* whether expansion is on.                                                    *)
Settings ==
    [registry : SUBSET Tools, additional : SUBSET Tools, off : BOOLEAN,
     deny : SUBSET Tools, allow : SUBSET Tools,
     exclude : SUBSET Tools, include : SUBSET Tools,
     mention : [Tools -> {"none", "loose", "exact"}],
     explicit : SUBSET Tools, agent : BOOLEAN, time : BOOLEAN, expand : BOOLEAN]
ASSUME ToolsAssumption == IsFiniteSet(Tools) /\ Siblings \in [Tools -> SUBSET Tools]
ASSUME RankAssumption == Levels \subseteq Nat /\ TopK \in Nat
ASSUME TurnsAssumption == Turns \subseteq Settings

Agent == turnOf.registry \cup turnOf.additional   \* agentVisibleTools
NoTask == [kind |-> "none", names |-> {}]

(* What a strategy proposes: to show a tool, not to, or how well it fits.      *)
Contributions ==
    [tool : Tools, score : Levels \cup {0, 2, 3}, effect : {"exclude", "promote", "score"}]

RoutingTypeOK ==
    /\ turnOf \in Settings
    /\ denySource \in {"pending", "read", "failed"} /\ raw \in Seq(Contributions)
    /\ routeStage \in {"scoring", "selected", "routed", "offered"}
    /\ due \subseteq {"host-rule", "descriptor-embedding"}
    /\ visible \subseteq Agent
    /\ task.kind \in {"none", "agents", "loop"} /\ task.names \subseteq Tools
    /\ Offering!Names(offered) \subseteq Tools \cup Offering!Internal

-----------------------------------------------------------------------------
Contribution(t, score, effect) == [tool |-> t, score |-> score, effect |-> effect]
Contribute(set, score, effect) ==
    SetToSeq({Contribution(t, score, effect) : t \in set})

(* normalizeGatingPolicy: names nobody knows are dropped.                      *)
Excluded == turnOf.exclude \cap Agent
Included == turnOf.include \cap Agent

(* HostPolicyToolStrategy and NameMatchToolCandidateStrategy do not wait for    *)
(* anything: theirs come first.                                                 *)
HostPolicy ==
    Contribute(Excluded, 0, "exclude") \o Contribute(Included, 3, "promote")
Mentioned(names, how) == {t \in names : turnOf.mention[t] = how}
NameMatch ==
    Contribute(Mentioned(Agent, "exact"), 3, "promote")
      \o Contribute(Mentioned(Agent, "loose"), 2, "score")

(* HostRuleToolCandidateStrategy: deny wins over allow.                         *)
HostRule ==
    Contribute(turnOf.deny \cap Agent, 0, "exclude")
      \o Contribute((turnOf.allow \ turnOf.deny) \cap Agent, 3, "promote")

RoutingInit ==
    /\ turnOf \in Turns
    /\ routeStage = "scoring"
    /\ due = IF turnOf.off THEN {} ELSE {"host-rule", "descriptor-embedding"}
    /\ denySource = "pending"
    /\ raw = IF turnOf.off THEN <<>> ELSE HostPolicy \o NameMatch
    /\ visible = {}
    /\ task = NoTask
    /\ offered = {}

-----------------------------------------------------------------------------
Settles(strategy, contributions) ==
    /\ strategy \in due
    /\ due' = due \ {strategy}
    /\ raw' = raw \o contributions
    /\ UNCHANGED <<turnOf, routeStage, visible, task, offered>>

HostRuleSettles == Settles("host-rule", HostRule) /\ denySource' = "read"

(* The policy source throws: its rules are not applied in this turn.           *)
HostRuleFails == Settles("host-rule", <<>>) /\ denySource' = "failed"

(* The index answers with hits, or fails, or there is none.                     *)
EmbeddingSettles ==
    /\ \E hits \in SUBSET Agent : \E score \in [hits -> Levels] :
          Settles("descriptor-embedding",
                  SetToSeq({Contribution(t, score[t], "score") : t \in hits}))
    /\ UNCHANGED denySource

(* mergeContributions: what one strategy promotes or excludes stays so.         *)
ToolsIn(contributions) == {contributions[i].tool : i \in DOMAIN contributions}
Marked(effect) == {raw[i].tool : i \in {j \in DOMAIN raw : raw[j].effect = effect}}
Score(t) == Max({raw[i].score : i \in {j \in DOMAIN raw : raw[j].tool = t}})
FirstAt(t) == Min({i \in DOMAIN raw : raw[i].tool = t})

(* expandDiscoverySiblings: never an excluded or unknown one.                   *)
Expanded(names) ==
    IF ~ turnOf.expand THEN names
    ELSE ((names \cup UNION {Siblings[t] : t \in names}) \cap Agent) \ Excluded

(* Mutant: the excluded are only taken from those that are ranked.              *)
CandidatesAfterPromotion ==
    [promoted |-> Marked("promote") \cap Agent,
     ranked |-> (ToolsIn(raw) \cap Agent) \ (Marked("promote") \cup Marked("exclude"))]

(* Who is shown in any case, and who is by rank.                                *)
Candidates ==
    LET open == (ToolsIn(raw) \cap Agent) \ Marked("exclude")
    IN [promoted |-> open \cap Marked("promote"), ranked |-> open \ Marked("promote")]

(* The k best, ties in the order they came in.                                  *)
Before(t, u) ==
    Score(t) > Score(u) \/ (Score(t) = Score(u) /\ FirstAt(t) < FirstAt(u))
Best(set, k) == {t \in set : Cardinality({u \in set : Before(u, t)}) < k}

(* selectVisibleTools.                                                          *)
Selection ==
    IF raw = <<>> THEN Agent
    ELSE LET c == Candidates IN
         c.promoted \cup Best(c.ranked, TopK)
           \cup (IF turnOf.expand THEN Expanded(c.promoted) ELSE {})

(* It is made once all have settled.                                            *)
Select ==
    /\ routeStage = "scoring" /\ due = {}
    /\ routeStage' = "selected"
    /\ visible' = Selection
    /\ UNCHANGED <<turnOf, due, denySource, raw, task, offered>>

(* runToolRoutingPhase: an agent the prompt mentions; else the tools it or the  *)
(* host names; else those of the policy; else none.                             *)
NamesOfTask ==
    LET explicit == (turnOf.explicit \cap visible)
                      \cup Mentioned(visible, "exact") \cup Mentioned(visible, "loose")
    IN IF explicit # {} THEN Expanded(explicit)
       ELSE IF Included \cap visible # {} THEN Expanded(Included \cap visible)
       ELSE IF turnOf.time /\ RunShell \in visible THEN {RunShell} ELSE {}

Route ==
    /\ routeStage = "selected"
    /\ routeStage' = "routed"
    /\ task' = IF turnOf.agent THEN [kind |-> "agents", names |-> {}]
               ELSE [kind |-> "loop", names |-> NamesOfTask]
    /\ UNCHANGED <<turnOf, due, denySource, raw, visible, offered>>

(* The prompt is assembled from all the tools there are, the last ones cut if   *)
(* it is too long, and the loop offers what its task's names leave of it.       *)
LoopOffers ==
    /\ routeStage = "routed" /\ task.kind = "loop"
    /\ routeStage' = "offered"
    /\ \E kept \in SUBSET Agent :
          offered' = Offering!Offered(Offering!Defined(kept, "prompt"), turnOf.registry,
                                   task.names, {}, 0, 1)
    /\ UNCHANGED <<turnOf, due, denySource, raw, visible, task>>

RoutingNext ==
    HostRuleSettles \/ HostRuleFails \/ EmbeddingSettles \/ Select \/ Route \/ LoopOffers

-----------------------------------------------------------------------------
(* Whatever the order the strategies answer in, and whichever of them fails:   *)
(* what the host's policy excludes, or a rule that could be read denies, is    *)
(* neither selected nor named in the task, however the prompt or the index     *)
(* asks for it; what is not excluded but included, allowed or named exactly is *)
(* selected however many score better; the ranked ones are TopK, and none is   *)
(* passed over for a worse one; with nothing proposed nothing is hidden.  The  *)
(* task names only known tools, and the loop offers no tool a task with names  *)
(* does not name.                                                              *)
Out == Excluded \cup (IF denySource = "read" THEN turnOf.deny ELSE {})
MustShow == (Included \cup Mentioned(Agent, "exact")
               \cup (IF denySource = "read" THEN turnOf.allow \cap Agent ELSE {})) \ Out

SelectionSound ==
    LET shown == visible \ (MustShow \cup (IF turnOf.expand THEN Expanded(MustShow) ELSE {}))
        ranked == (ToolsIn(raw) \cap Agent) \ (Out \cup MustShow)
    IN IF raw = <<>> THEN visible = Agent
       ELSE /\ visible \cap Excluded = {}
            /\ (denySource = "read" /\ ~ turnOf.expand) => visible \cap Out = {}
            /\ MustShow \subseteq visible
            /\ Cardinality(shown) <= TopK
            /\ \A t \in ranked \ visible, u \in shown : Score(t) <= Score(u)

RouteSound ==
    /\ routeStage \in {"routed", "offered"} =>
          /\ SelectionSound
          /\ task.names \subseteq Agent
          /\ ~ turnOf.off => task.names \cap Excluded = {}
    /\ task.names # {} => Offering!Names(offered) \subseteq task.names

(* What the proofs are by induction on: what is marked is what had to be, and  *)
(* what follows from it at each stage.                                         *)
MarksFollow ==
    /\ turnOf.off => raw = <<>> /\ due = {}
    /\ ~ turnOf.off =>
          /\ denySource = "pending" <=> "host-rule" \in due
          /\ Marked("exclude") = Out \cap Agent
          /\ Marked("promote") \ Out = MustShow

StagesFollow ==
    /\ routeStage = "scoring" => visible = {}
    /\ routeStage # "scoring" => due = {} /\ visible = Selection
    /\ routeStage \in {"scoring", "selected"} => task = NoTask
    /\ task.names \subseteq Agent
    /\ ~ turnOf.off => task.names \cap Excluded = {}
    /\ routeStage # "offered" => offered = {}
    /\ task.names # {} => Offering!Names(offered) \subseteq task.names

RouteIInv == RoutingTypeOK /\ MarksFollow /\ StagesFollow

(* CONTEXT.md:67: "Tachu hard-enforces tool exclude/include via ToolActivator" *)
(* and docs/detailed-design.md:694, that the loop's default set of tools is    *)
(* the selection: what the turn excludes is not offered to the model.          *)
ExcludedNotOffered ==
    ~ turnOf.off => Offering!Names(offered) \cap Excluded = {}

=============================================================================
