----------------------------- MODULE ResourcePool -----------------------------
(***************************************************************************)
(* Pictures and files of a conversation (core/src/utils/resource-pool.ts,  *)
(* engine/resolve-provider-messages.ts): the session phase takes them out  *)
(* of a message and leaves tokens in its body; a call of a model puts      *)
(* those it demands and the model can take back, some through the host's   *)
(* resolver, which may fail for some.  The files' memory gives a message   *)
(* back without its pool (extensions/src/memory/fs-memory-system.ts).      *)
(*                                                                         *)
(* Abstractions: the body of a message is the tokens in it, whoever wrote  *)
(* them; keys are numbers in the order they are made; a prompt is the      *)
(* conversation as it stands.                                              *)
(***************************************************************************)
LOCAL INSTANCE Naturals
LOCAL INSTANCE FiniteSets
LOCAL INSTANCE FiniteSetsExt
LOCAL INSTANCE Sequences
LOCAL INSTANCE SequencesExt

CONSTANTS
    Contents,       \* parts of the users' messages
    Selectors,      \* what a router may demand (see AllOfIt)
    MaxMessages,    \* bound: messages of the conversation
    Resolvers       \* whether the host has one: {TRUE, FALSE} for either

VARIABLES
    history,        \* the messages: role, tokens of the body, pool
    home,           \* the message each key was made for
    bare,           \* messages that were read back from the file
    seam            \* the call of a model: its prompt, its demand, what came of it

resourceVars == <<history, home, bare, seam>>

Kinds == {"text", "image", "file"}
Quiet == [at |-> "idle", prompt |-> <<>>, demand |-> {}, required |-> {}, kinds |-> Kinds,
          out |-> <<>>, degraded |-> {}]
AllOfIt == [mode |-> "all", scope |-> "prompt", kinds |-> Kinds, keys |-> {}, required |-> {}]

ResourcesTypeOK ==
    /\ Len(history) <= MaxMessages /\ \A k \in DOMAIN home : home[k] \in DOMAIN history
    /\ seam.at \in {"idle", "resolving", "failed", "built"}

ResourcesInit == history = <<>> /\ home = <<>> /\ bare = {} /\ seam = Quiet

-----------------------------------------------------------------------------
(* The kind a part gives; one with no address gives none.                    *)
KindOf(part) == IF part \in {"inline", "remote"} THEN "image" ELSE "file"

(* assembleResources: a reference for each part, numbered within its kind,   *)
(* keyed anew.                                                               *)
Assembled(parts) ==
    LET given == SelectSeq(parts, LAMBDA p : p # "empty")
    IN [i \in DOMAIN given |->
          [key |-> Len(home) + i, kind |-> KindOf(given[i]), inline |-> given[i] = "inline",
           label |-> Cardinality({j \in 1 .. i : KindOf(given[j]) = KindOf(given[i])})]]

(* A message of the user, whose text may hold tokens seen before.            *)
UserSays(parts, pasted) ==
    LET pool == Assembled(parts)
    IN /\ Len(history) < MaxMessages
       /\ history' = Append(history, [role |-> "user", pool |-> pool,
                        tokens |-> pasted \o [i \in DOMAIN pool |-> pool[i].key]])
       /\ home' = home \o [i \in DOMAIN pool |-> Len(history) + 1]
       /\ UNCHANGED <<bare, seam>>

ModelSays(quoted) ==
    /\ Len(history) < MaxMessages /\ history # <<>>
    /\ history' = Append(history, [role |-> "assistant", pool |-> <<>>, tokens |-> quoted])
    /\ UNCHANGED <<home, bare, seam>>

(* A new process reads the file: parseMemoryEntry keeps no resources.        *)
ReadsBack ==
    /\ history' = [i \in DOMAIN history |-> [history[i] EXCEPT !.pool = <<>>]]
    /\ bare' = DOMAIN history /\ seam' = Quiet
    /\ UNCHANGED home

-----------------------------------------------------------------------------
(* The references of a message whose token its body has and its own pool     *)
(* knows, in the order of the tokens (of which only the unknown recur).      *)
Referenced(message) ==
    LET of(k) == {r \in ToSet(message.pool) : r.key = k}
        known == SelectSeq(message.tokens, LAMBDA k : of(k) # {})
    IN [n \in DOMAIN known |-> CHOOSE r \in of(known[n]) : TRUE]

(* messagesInScope: the current turn begins at the last message of the user. *)
InScopeOf(scope, messages) ==
    LET users == {i \in DOMAIN messages : messages[i].role = "user"}
    IN IF scope # "current-turn" THEN DOMAIN messages
       ELSE IF users = {} THEN {} ELSE Max(users) .. Len(messages)

(* expandDemandSelector.                                                     *)
Expanded(selector, messages) ==
    IF selector.mode = "all" THEN DOMAIN home
    ELSE IF selector.mode = "none" THEN {}
    ELSE {r.key : r \in {r \in UNION {ToSet(Referenced(messages[i])) :
                                        i \in InScopeOf(selector.scope, messages)} :
                           r.kind \in selector.kinds \/ r.key \in selector.keys}}

(* selectRefs.                                                               *)
Selected(message, demand) == SelectSeq(Referenced(message), LAMBDA r : r.key \in demand)
Needed(s) ==
    {r \in UNION {ToSet(Selected(s.prompt[i], s.demand)) : i \in DOMAIN s.prompt} :
        r.kind \in s.kinds /\ ~ r.inline}

(* The block behind a message: each reference with its carrier, or a note    *)
(* that there is none, which is a degradation.                               *)
Built(s, resolved) ==
    LET carried(r) == r.kind \in s.kinds /\ (r.inline \/ r.key \in resolved)
        picked == [i \in DOMAIN s.prompt |-> Selected(s.prompt[i], s.demand)]
    IN [s EXCEPT !.at = "built",
          !.out = [i \in DOMAIN s.prompt |->
                     [n \in DOMAIN picked[i] |->
                        [key |-> picked[i][n].key, carried |-> carried(picked[i][n])]]],
          !.degraded = UNION {{r.key : r \in {r \in ToSet(picked[i]) : ~ carried(r)}} :
                                i \in DOMAIN s.prompt}]

(* A step of the loop calls the model: the router is asked, the references   *)
(* are selected; without a resolver one that needs it fails the call.        *)
CallsModel(selector, kinds, resolver) ==
    LET demand == Expanded(selector, history)
        s == [Quiet EXCEPT !.prompt = history, !.kinds = kinds, !.demand = demand,
                !.required = IF selector.mode = "select" THEN selector.required \cap demand
                             ELSE {}]
    IN /\ seam.at = "idle" /\ history # <<>>
       /\ seam' = IF Needed(s) = {} THEN Built(s, {})
                  ELSE [s EXCEPT !.at = IF resolver THEN "resolving" ELSE "failed"]
       /\ UNCHANGED <<history, home, bare>>

(* The resolver returns what it has, or throws.                              *)
Resolves(found) ==
    /\ seam.at = "resolving" /\ found \subseteq {r.key : r \in Needed(seam)}
    /\ seam' = Built(seam, found)
    /\ UNCHANGED <<history, home, bare>>

ResolverThrows ==
    /\ seam.at = "resolving"
    /\ seam' = [seam EXCEPT !.at = "failed"]
    /\ UNCHANGED <<history, home, bare>>

(* The call is made with what was built; the next step calls anew.           *)
Returns ==
    /\ seam.at \in {"built", "failed"}
    /\ seam' = Quiet
    /\ UNCHANGED <<history, home, bare>>

-----------------------------------------------------------------------------
Earlier == {<<>>} \cup {<<k>> : k \in DOMAIN home}

ResourcesNext ==
    \/ \E parts \in Contents, pasted \in Earlier : UserSays(parts, pasted)
    \/ \E quoted \in Earlier : ModelSays(quoted)
    \/ ReadsBack
    \/ \E selector \in Selectors, kinds \in {Kinds, {"text", "image"}, {"text"}},
          resolver \in Resolvers : CallsModel(selector, kinds, resolver)
    \/ \E found \in SUBSET DOMAIN home : Resolves(found)
    \/ ResolverThrows
    \/ Returns

-----------------------------------------------------------------------------
(* What a message brought is bound to that message only, once, with a        *)
(* carrier or with a note, however often its token was pasted elsewhere;     *)
(* with everything demanded it is bound, unless the file gave the message    *)
(* back since; nothing the demand leaves out is, and what had to be carried  *)
(* and was not is told.  A key the demand selects in the current turn is of  *)
(* a message of that turn.                                                   *)
Bound(i) == {b.key : b \in ToSet(seam.out[i])}

ResourcesBound ==
    /\ seam.at = "built" =>
          \A i \in DOMAIN seam.out :
             /\ Cardinality(Bound(i)) = Len(seam.out[i])
             /\ \A k \in Bound(i) : home[k] = i /\ k \in seam.demand
             /\ \A b \in ToSet(seam.out[i]) : b.carried = (b.key \notin seam.degraded)
             /\ \A k \in seam.demand :
                   (home[k] = i /\ seam.prompt[i].pool # <<>>) => k \in Bound(i)
    /\ seam.required \subseteq seam.demand
    /\ \A i \in DOMAIN history :
          /\ (history[i].role = "user" /\ i \notin bare) =>
                {k \in DOMAIN home : home[k] = i} = {r.key : r \in ToSet(history[i].pool)}
          /\ \A r, q \in ToSet(history[i].pool) :
                r.kind = q.kind /\ r.label = q.label => r = q
=============================================================================
