---------------------------- MODULE SafetyChecks ----------------------------
(***************************************************************************)
(* What may refuse a turn or a call before it happens: the checks of the   *)
(* safety phase (core/src/modules/safety.ts, engine/phases/safety.ts) and  *)
(* the gate around the executor of tools                                   *)
(* (extensions/src/safety/default-gate.ts).                                *)
(*                                                                         *)
(* A check walks the live array of policies and awaits each, so that       *)
(* policies come and go behind its back: a policy taken out at or before   *)
(* the place the walk has come to moves the next one over that place.      *)
(*                                                                         *)
(* Abstractions: an input is the set of the baseline's objections to it; a *)
(* policy answers with the severities of its violations, or throws.        *)
(***************************************************************************)
EXTENDS Naturals, FiniteSets, Sequences, SequencesExt, Filtering

CONSTANTS
    Policies,           \* policy objects
    InScope,            \* those whose scope has the phase "safety" or "*"
    Checks,             \* turns in their safety phase, of several sessions
    MaxRegistered,      \* bound: calls of registerPolicy
    Calls               \* calls that come to the gate

ASSUME RegistrationsAssumption == MaxRegistered \in Nat

VARIABLES
    policies,           \* this.policies
    handles,            \* the closures registerPolicy returned
    check,              \* each turn: how far its checks have come
    call                \* each call at the gate

safetyVars == <<policies, handles, check, call>>

(* In the order the baseline looks for them.                                 *)
Objections == <<"size", "depth", "tokens", "time", "calls", "path">>
Idle == [at |-> "idle", cursor |-> 0, heard |-> <<>>, told |-> 0, error |-> "none",
         asked |-> {}, since |-> {}, shifts |-> 0]
NoCall == [at |-> "idle", tool |-> FALSE, refuses |-> {}, told |-> <<>>, approved |-> FALSE]

Severities == {"warning", "error"}
Reasons == {"allowlist", "denylist", "scope", "no provider", "approval", "command"}
CheckStates ==
    [at : {"idle", "admitted", "asking", "passed", "refused"}, cursor : Nat,
     heard : Seq(Severities), told : Nat,
     error : ToSet(Objections) \cup {"none", "policy", "thrown"},
     asked : SUBSET Policies, since : SUBSET Policies, shifts : Nat]
CallStates ==
    [at : {"idle", "approval", "ran", "refused"}, tool : BOOLEAN, refuses : SUBSET Reasons,
     told : Seq(Reasons \cup {"rejected"}), approved : BOOLEAN]

SafetyTypeOK ==
    /\ policies \in Seq(Policies) /\ handles \in Seq([policy : Policies, removed : BOOLEAN])
    /\ Len(policies) <= Len(handles) /\ Len(handles) <= MaxRegistered
    /\ check \in [Checks -> CheckStates]
    /\ call \in [Calls -> CallStates]

SafetyInit ==
    /\ policies = <<>> /\ handles = <<>>
    /\ check = [c \in Checks |-> Idle]
    /\ call = [n \in Calls |-> NoCall]

-----------------------------------------------------------------------------
(* registerPolicy: the same object may be there several times.               *)
Registers(p) ==
    /\ Len(handles) < MaxRegistered
    /\ policies' = Append(policies, p)
    /\ handles' = Append(handles, [policy |-> p, removed |-> FALSE])
    /\ UNCHANGED <<check, call>>

(* The place of the policy a closure takes out: the first that has its       *)
(* object, none when the closure was called before.                          *)
Places(p) == {i \in DOMAIN policies : policies[i] = p}
Place(h) == IF handles[h].removed \/ Places(handles[h].policy) = {} THEN 0
            ELSE Min(Places(handles[h].policy))

(* The ghosts: a check under way knows which policies were there all along,  *)
(* and how often the list moved under it.                                    *)
Removes(h) ==
    /\ h \in DOMAIN handles
    /\ handles' = [handles EXCEPT ![h].removed = TRUE]
    /\ policies' = IF Place(h) = 0 THEN policies ELSE RemoveAt(policies, Place(h))
    /\ check' = [c \in Checks |->
          IF check[c].at # "asking" \/ Place(h) = 0 THEN check[c]
          ELSE [check[c] EXCEPT !.since = @ \cap ToSet(policies'),
                                !.shifts = IF Place(h) <= check[c].cursor THEN @ + 1 ELSE @]]
    /\ UNCHANGED call

(* checkBaseline: the first objection is thrown; a marker in the text is a   *)
(* warning.                                                                  *)
Baseline(c, objections, marked) ==
    /\ check[c].at = "idle"
    /\ check' = [check EXCEPT ![c] =
          IF objections # {}
            THEN [Idle EXCEPT !.at = "refused",
                     !.error = FirstOf(Objections, objections)]
          ELSE [Idle EXCEPT !.at = "admitted", !.told = IF marked THEN 1 ELSE 0,
                            !.heard = IF marked THEN <<"warning">> ELSE <<>>]]
    /\ UNCHANGED <<policies, handles, call>>

(* The walk goes on to the next policy in scope, or is over.                 *)
Walked(k, from) ==
    LET ahead == {i \in from .. Len(policies) : policies[i] \in InScope}
    IN IF ahead = {} THEN [k EXCEPT !.at = "passed"]
       ELSE [k EXCEPT !.at = "asking", !.cursor = Min(ahead),
                      !.asked = @ \cup {policies[Min(ahead)]}]

(* checkBusiness begins.                                                     *)
Business(c) ==
    /\ check[c].at = "admitted"
    /\ check' = [check EXCEPT ![c] = Walked([@ EXCEPT !.since = ToSet(policies)], 1)]
    /\ UNCHANGED <<policies, handles, call>>

Warnings(list) == Cardinality({i \in DOMAIN list : list[i] = "warning"})

(* A policy answers: its violations are heard, its warnings are told, and an *)
(* error of it ends the check.                                               *)
Answers(c, verdict) ==
    /\ check[c].at = "asking"
    /\ LET heard == [check[c] EXCEPT !.heard = @ \o verdict, !.told = @ + Warnings(verdict)]
       IN check' = [check EXCEPT ![c] =
             IF "error" \in ToSet(verdict) THEN [heard EXCEPT !.at = "refused", !.error = "policy"]
             ELSE Walked(heard, heard.cursor + 1)]
    /\ UNCHANGED <<policies, handles, call>>

(* A policy that throws rejects the check with what it threw.                *)
Throws(c) ==
    /\ check[c].at = "asking"
    /\ check' = [check EXCEPT ![c].at = "refused", ![c].error = "thrown"]
    /\ UNCHANGED <<policies, handles, call>>

-----------------------------------------------------------------------------
(* The gate.  `refuses' has what speaks against a call: the two lists, a     *)
(* missing scope, an approval it needs (with a provider, or without one), a  *)
(* command of run-shell that is on the denylist.                             *)
Fatal == <<"allowlist", "denylist", "scope", "no provider">>
Refused(k, why) == [k EXCEPT !.at = "refused", !.told = Append(@, why)]

(* What follows the approval: the denylist of commands, and the executor.    *)
Approved(k) ==
    IF "command" \in k.refuses THEN Refused(k, "command") ELSE [k EXCEPT !.at = "ran"]

(* A call comes to the gate.  What is not a tool passes it.                  *)
Gate(n, isTool, refuses) ==
    /\ call[n].at = "idle"
    /\ call' = [call EXCEPT ![n] =
          LET k == [NoCall EXCEPT !.tool = isTool, !.refuses = refuses]
          IN IF ~ isTool THEN [k EXCEPT !.at = "ran"]
             ELSE IF ToSet(Fatal) \cap refuses # {} THEN Refused(k, FirstOf(Fatal, refuses))
             ELSE IF "approval" \in refuses THEN [k EXCEPT !.at = "approval"]
             ELSE Approved(k)]
    /\ UNCHANGED <<policies, handles, check>>

(* The approval provider answers; one that throws is told nobody.            *)
Decides(n, answer) ==
    /\ call[n].at = "approval"
    /\ call' = [call EXCEPT ![n] =
          CASE answer = "yes" -> Approved([@ EXCEPT !.approved = TRUE])
            [] answer = "no" -> Refused(@, "rejected")
            [] answer = "throws" -> [@ EXCEPT !.at = "refused"]]
    /\ UNCHANGED <<policies, handles, check>>

-----------------------------------------------------------------------------
Refusals == {{}, {"allowlist", "denylist"}, {"scope", "approval"}, {"no provider", "command"},
             {"approval"}, {"command"}, {"approval", "command"}}

SafetyNext ==
    \/ \E p \in Policies : Registers(p)
    \/ \E h \in 1 .. MaxRegistered : Removes(h)
    \/ \E c \in Checks :
          \/ \E objections \in {{}, {"depth", "path"}}, marked \in BOOLEAN :
                Baseline(c, objections, marked)
          \/ Business(c)
          \/ \E verdict \in {<<>>, <<"warning">>, <<"warning", "error">>} : Answers(c, verdict)
          \/ Throws(c)
    \/ \E n \in Calls :
          \/ \E isTool \in BOOLEAN, refuses \in Refusals : Gate(n, isTool, refuses)
          \/ \E answer \in {"yes", "no", "throws"} : Decides(n, answer)

-----------------------------------------------------------------------------
(* As many registrations are in force as closures have not been called,      *)
(* whoever registered the same object and in whatever order they take it     *)
(* back.                                                                     *)
RegistrationsCounted ==
    \A p \in Policies :
       Cardinality(Places(p))
          = Cardinality({h \in DOMAIN handles : handles[h].policy = p /\ ~ handles[h].removed})

(* A turn passes only when no policy objected, and misses no more of the     *)
(* policies that were there all the time than the list moved under it: it    *)
(* does miss one then.  It asks only those of its phase, and none when the   *)
(* baseline refused.  Every warning is told.                                 *)
PoliciesApplied ==
    \A c \in Checks :
       LET k == check[c]
       IN /\ k.asked \subseteq InScope
          /\ k.at = "passed" =>
                /\ "error" \notin ToSet(k.heard)
                /\ Cardinality((k.since \cap InScope) \ k.asked) <= k.shifts
          /\ k.error \in ToSet(Objections) => k.asked = {}
          /\ k.told = Warnings(k.heard)

(* A tool runs only when nothing speaks against it but an approval that was  *)
(* given, the user is asked of no call the policies rule out, and a refusal  *)
(* is told once.                                                             *)
GateHolds ==
    \A n \in Calls :
       LET k == call[n]
       IN /\ (k.at = "ran" /\ k.tool) =>
                k.refuses = {} \/ (k.refuses = {"approval"} /\ k.approved)
          /\ k.at = "approval" => k.refuses \cap ToSet(Fatal) = {}
          /\ k.at = "refused" => Len(k.told) = 1 \/ ("approval" \in k.refuses /\ k.told = <<>>)

SafetySound == RegistrationsCounted /\ PoliciesApplied /\ GateHolds

(* What the proofs are by induction on.  Of the policies a check under way   *)
(* has not asked, those behind its place, and at the end all, are no more    *)
(* than the moves of the list, for each move brings one there at most.       *)
Ahead(k) == {policies[i] : i \in {j \in DOMAIN policies : j > k.cursor}}
Missed(k) == (k.since \cap InScope) \ k.asked
WalkFollows ==
    \A c \in Checks :
       LET k == check[c]
       IN /\ k.at = "asking" => /\ k.since \subseteq ToSet(policies)
                                /\ Cardinality(Missed(k) \ Ahead(k)) <= k.shifts
          /\ k.at \in {"idle", "admitted"} => k.asked = {}
          /\ k.at \in {"idle", "admitted", "asking"} => k.error = "none"
          /\ k.at # "refused" => "error" \notin ToSet(k.heard)

(* A call that waits for its approval needs one and was told nothing.        *)
GateFollows ==
    \A n \in Calls :
       LET k == call[n]
       IN /\ k.at \in {"idle", "approval"} => k.told = <<>>
          /\ k.at = "approval" => "approval" \in k.refuses

SafetyIInv == SafetyTypeOK /\ SafetySound /\ WalkFollows /\ GateFollows
=============================================================================
