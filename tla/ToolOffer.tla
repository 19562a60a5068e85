----------------------------- MODULE ToolOffer ------------------------------
(***************************************************************************)
(* The tools a loop offers to the model, and what runs when the model calls *)
(* one by its name (packages/core/src/engine/subflows/tool-use.ts and       *)
(* internal-tools.ts).  The loop of the turn and the loop of a sub-agent    *)
(* share it.                                                                *)
(*                                                                          *)
(* A definition is a name and where it comes from: the registry, the scope  *)
(* of the session, or the engine.  Names are all there is to a tool here.   *)
(***************************************************************************)
LOCAL INSTANCE Naturals

Defined(names, by) == [name : names, by : {by}]
Names(defs) == {d.name : d \in defs}

Internal == {"load_skill", "read_skill_resource"}
Dispatch == "dispatch_agent"

(* Built-in definitions give way to one of the same name.                    *)
Adding(defs, more) == defs \cup {d \in more : d.name \notin Names(defs)}

(* mergeInternalToolDefinitions.                                             *)
WithInternal(defs) == Adding(defs, Defined(Internal, "engine"))

(* appendAgentDispatchTool: not at the last depth, and only if there is an   *)
(* agent to dispatch.                                                        *)
WithDispatch(defs, agents, depth, maxDepth) ==
    IF depth < maxDepth /\ agents # {}
    THEN Adding(defs, Defined({Dispatch}, "engine")) ELSE defs

(* filterToolDefinitions: no names, no filter.                               *)
Filtered(defs, toolNames) ==
    IF toolNames = {} THEN defs ELSE {d \in defs : d.name \in toolNames}

(* resolveToolDefinitions: the tools of the prompt, or else those of the     *)
(* registry, with the built-in ones, as the input's toolNames filter them.   *)
Offered(prompt, registry, toolNames, agents, depth, maxDepth) ==
    LET From(defs) == Filtered(WithDispatch(WithInternal(defs), agents, depth, maxDepth),
                               toolNames)
    IN IF From(prompt) # {} THEN From(prompt) ELSE From(Defined(registry, "registry"))

(* executeSingleToolCallInner: the built-in names come before the registry,  *)
(* which is asked whatever was offered; the built-in tools on skills need    *)
(* the session.                                                              *)
RunBy(name, registry, hasSession) ==
    CASE name = Dispatch -> "engine"
      [] name \in Internal -> IF hasSession THEN "engine" ELSE "misconfig"
      [] name \in registry -> "registry"
      [] OTHER -> "unknown"

=============================================================================
