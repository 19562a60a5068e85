------------------------------- MODULE McpServer ------------------------------
(***************************************************************************)
(* One MCP server of the CLI: the adapter that holds the connection         *)
(* (packages/extensions/src/mcp/stdio-adapter.ts, sse-adapter.ts), the      *)
(* mount that connects it and wraps its tools (packages/cli/src/mcp/        *)
(* mount.ts), and the registration of these tools, at once or per prompt    *)
(* when the server is gated by keywords (mcp/setup.ts).                     *)
(*                                                                          *)
(* The server may go away at any time; the adapter then connects again with *)
(* a backoff while calls, their timeouts and disconnect() come in between.  *)
(*                                                                          *)
(* Abstractions: its tools come and go together; names, filters and several  *)
(* servers are Registration's.  External, as the adapter uses the MCP SDK: a      *)
(* connection attempt succeeds or fails, a closed transport fires onclose   *)
(* and rejects what waits for it.                                           *)
(***************************************************************************)
EXTENDS Naturals, FiniteSets

CONSTANTS
    McpCalls,               \* calls of the server's tools
    MaxReconnects,          \* maxReconnectAttempts
    MaxBreaks,              \* bound: times the server goes away
    MaxPrompts              \* bound: prompts a gated server is evaluated for

McpBoundsAssumption == {MaxReconnects, MaxBreaks, MaxPrompts} \subseteq Nat

VARIABLES
    mounting,           \* "no", "connect", "list", "ok", "failed"
    gated,              \* expandOnKeywordMatch with keywords
    link,               \* the transport: "down", "opening", "up"
    client,             \* this.client is not null
    manual,             \* closedManually
    retry,              \* reconnectWithBackoff: where it is, the attempt
    mcpCall,            \* each call: "idle", "pending", "ok", "error"
    registry,           \* the tools of the server are registered
    active,             \* activeGroups has the server
    released,           \* disconnect() has returned and connect() was not called again
    breaks, prompts     \* so far

linkVars == <<link, client, manual, retry>>
toolVars == <<registry, active, prompts>>
mcpVars == <<mounting, gated, linkVars, mcpCall, toolVars, released, breaks>>

NoRetry == [pc |-> "off", attempt |-> 0]

McpTypeOK ==
    /\ mounting \in {"no", "connect", "list", "ok", "failed"}
    /\ link \in {"down", "opening", "up"} /\ {gated, client, manual, active, released} \subseteq BOOLEAN
    /\ retry.pc \in {"off", "sleep", "connect"} /\ retry.attempt \in 0 .. MaxReconnects
    /\ mcpCall \in [McpCalls -> {"idle", "pending", "ok", "error"}]
    /\ registry \in BOOLEAN
    /\ link = "opening" => mounting = "connect" \/ retry.pc = "connect"
    /\ link # "down" => client
    /\ active => gated /\ mounting = "ok"

McpInit ==
    /\ mounting = "no" /\ gated = FALSE
    /\ link = "down" /\ client = FALSE /\ manual = FALSE /\ retry = NoRetry
    /\ mcpCall = [c \in McpCalls |-> "idle"]
    /\ registry = FALSE
    /\ active = FALSE /\ released = FALSE /\ breaks = 0 /\ prompts = 0

-----------------------------------------------------------------------------
(* The SDK rejects what waits for a transport that closes.                   *)
CallsReject == mcpCall' = [c \in McpCalls |-> IF mcpCall[c] = "pending" THEN "error"
                                              ELSE mcpCall[c]]

(* transport.onclose: reconnect, unless closed by hand or already at it.     *)
OnClose ==
    /\ link' = "down"
    /\ retry' = IF manual \/ retry.pc # "off" THEN retry
                ELSE IF MaxReconnects = 0 THEN NoRetry ELSE [pc |-> "sleep", attempt |-> 0]

(* connectInternal                                                           *)
OpenTransport == client' = TRUE /\ link' = "opening"

(* mountMcpServers connects the server.                                      *)
Mount ==
    /\ mounting = "no"
    /\ mounting' = "connect" /\ gated' \in BOOLEAN
    /\ manual' = FALSE /\ OpenTransport
    /\ UNCHANGED <<retry, mcpCall, toolVars, released, breaks>>

MountConnects ==
    /\ mounting = "connect" /\ link = "opening" /\ retry.pc = "off"
    /\ link' = "up"
    /\ mounting' = "list"
    /\ UNCHANGED <<gated, client, manual, retry, mcpCall, toolVars, released, breaks>>

(* adapter.disconnect(): the transport it has now is closed, waiting calls   *)
(* are aborted.  A reconnect that sleeps or connects is not told.            *)
Disconnects ==
    /\ manual' = TRUE /\ client' = FALSE /\ link' = "down" /\ released' = TRUE
    /\ CallsReject
    /\ UNCHANGED retry

(* Connecting or listing the tools fails or takes too long, and the adapter  *)
(* is disconnected.                                                          *)
MountFails ==
    /\ mounting \in {"connect", "list"}
    /\ mounting' = "failed"
    /\ Disconnects
    /\ UNCHANGED <<gated, toolVars, breaks>>

MountLists ==
    /\ mounting = "list" /\ link = "up"
    /\ mounting' = "ok"
    /\ registry' = ~ gated
    /\ UNCHANGED <<gated, linkVars, mcpCall, active, prompts, released, breaks>>

DisconnectAll ==
    /\ mounting = "ok" /\ ~ released
    /\ Disconnects
    /\ UNCHANGED <<mounting, gated, toolVars, breaks>>

(* The server exits, the stream ends, also while the connection opens.       *)
ServerGoesAway ==
    /\ link # "down"
    /\ breaks < MaxBreaks /\ breaks' = breaks + 1
    /\ OnClose
    /\ CallsReject
    /\ UNCHANGED <<mounting, gated, client, manual, toolVars, released>>

-----------------------------------------------------------------------------
(* reconnectWithBackoff: sleep, ...                                          *)
RetryWakes ==
    /\ retry.pc = "sleep"
    /\ retry' = [retry EXCEPT !.pc = "connect"]
    /\ OpenTransport
    /\ UNCHANGED <<mounting, gated, manual, mcpCall, toolVars, released, breaks>>

(* ... connect, ...                                                          *)
RetryConnects ==
    /\ retry.pc = "connect" /\ link = "opening"
    /\ link' = "up" /\ retry' = NoRetry
    /\ UNCHANGED <<mounting, gated, client, manual, mcpCall, toolVars, released, breaks>>

(* Mutant: the last attempt is not the last.                                 *)
RetryFailsForever ==
    /\ retry.pc = "connect"
    /\ retry' = [pc |-> "sleep", attempt |-> 0]
    /\ link' = "down"
    /\ UNCHANGED <<mounting, gated, client, manual, mcpCall, toolVars, released, breaks>>

(* ... or sleep longer, for so many attempts.                                *)
RetryFails ==
    /\ retry.pc = "connect"
    /\ retry' = IF retry.attempt + 1 < MaxReconnects
                  THEN [pc |-> "sleep", attempt |-> retry.attempt + 1] ELSE NoRetry
    /\ link' = "down"
    /\ UNCHANGED <<mounting, gated, client, manual, mcpCall, toolVars, released, breaks>>

-----------------------------------------------------------------------------
(* callTool                                                                  *)
CallTool(c) ==
    /\ mounting = "ok" /\ mcpCall[c] = "idle"
    /\ mcpCall' = [mcpCall EXCEPT ![c] = IF client /\ link = "up" THEN "pending" ELSE "error"]
    /\ UNCHANGED <<mounting, gated, linkVars, toolVars, released, breaks>>

CallReturns(c) ==
    /\ mcpCall[c] = "pending" /\ link = "up"
    /\ mcpCall' = [mcpCall EXCEPT ![c] = "ok"]
    /\ UNCHANGED <<mounting, gated, linkVars, toolVars, released, breaks>>

(* Mutant: the timer is armed for a connection that is up.                   *)
CallTimesOutNever(c) ==
    /\ mcpCall[c] = "pending" /\ link # "up"
    /\ mcpCall' = [mcpCall EXCEPT ![c] = "error"]
    /\ UNCHANGED <<mounting, gated, linkVars, toolVars, released, breaks>>

(* The adapter's timeout, the caller's signal or cancel().                   *)
CallTimesOut(c) ==
    /\ mcpCall[c] = "pending"
    /\ mcpCall' = [mcpCall EXCEPT ![c] = "error"]
    /\ UNCHANGED <<mounting, gated, linkVars, toolVars, released, breaks>>

-----------------------------------------------------------------------------
(* activateForPrompt                                                         *)
PromptMatches ==
    /\ mounting = "ok" /\ gated /\ ~ active
    /\ prompts < MaxPrompts /\ prompts' = prompts + 1
    /\ registry' = TRUE /\ active' = TRUE
    /\ UNCHANGED <<mounting, gated, linkVars, mcpCall, released, breaks>>

(* Mutant: the tools of a group stay when the next prompt does not match.    *)
PromptKeeps ==
    /\ mounting = "ok" /\ gated /\ active
    /\ prompts < MaxPrompts /\ prompts' = prompts + 1
    /\ active' = FALSE /\ UNCHANGED registry
    /\ UNCHANGED <<mounting, gated, linkVars, mcpCall, released, breaks>>

(* Every tool of the group is unregistered by name.                          *)
PromptDoesNotMatch ==
    /\ mounting = "ok" /\ gated /\ active
    /\ prompts < MaxPrompts /\ prompts' = prompts + 1
    /\ registry' = FALSE /\ active' = FALSE
    /\ UNCHANGED <<mounting, gated, linkVars, mcpCall, released, breaks>>

RetryStep == RetryWakes \/ RetryConnects \/ RetryFails
MountStep == MountConnects \/ MountFails \/ MountLists

McpNext ==
    \/ Mount \/ MountStep \/ DisconnectAll \/ ServerGoesAway \/ RetryStep
    \/ \E c \in McpCalls : CallTool(c) \/ CallReturns(c) \/ CallTimesOut(c)
    \/ PromptMatches \/ PromptDoesNotMatch

(* Timers fire and connection attempts end.                                  *)
McpFairness ==
    /\ WF_mcpVars(MountStep) /\ WF_mcpVars(RetryStep)
    /\ \A c \in McpCalls : WF_mcpVars(CallTimesOut(c))
McpSpec == McpInit /\ [][McpNext]_mcpVars /\ McpFairness

-----------------------------------------------------------------------------
(* A call waits only on a connection that is up and was not released: one    *)
(* whose server went away, or whose adapter was disconnected, is rejected,   *)
(* and the connection that replaces it starts with no call of the old one.   *)
WaitsOnTheLink ==
    \A c \in McpCalls : mcpCall[c] = "pending" => link = "up" /\ client

(* The model sees the tools of a gated server only while the last prompt     *)
(* matched, and those of other servers from the mount on.                    *)
VisibleAsMatched ==
    registry = (mounting = "ok" /\ (gated => active))

(* Every call settles; a reconnect comes to an end.                          *)
CallsPending == \E c \in McpCalls : mcpCall[c] = "pending"
Reconnecting == retry.pc # "off"
McpSettles == (CallsPending ~> ~ CallsPending) /\ (Reconnecting ~> ~ Reconnecting)
===============================================================================
