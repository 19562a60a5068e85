---------------------------- MODULE HookRegistry ----------------------------
(***************************************************************************)
(* DefaultHookRegistry (packages/core/src/modules/hooks.ts) at one hook    *)
(* point, with the turnStop firing of the engine as its caller.            *)
(*                                                                         *)
(* A handler is subscribed (read only) or registered (its action counts),  *)
(* under an id of its own or one made from the bucket's length.  fire()    *)
(* works on a snapshot: it awaits the subscribers one by one, without a    *)
(* timeout, then races each registered handler with its timeout and folds  *)
(* the actions.  dispose() may clear the registry meanwhile.               *)
(*                                                                         *)
(* Abstractions: an action carries the handlers whose text it holds, a     *)
(* blank text being empty; the priority is high or low; a fire has its     *)
(* copies, so that registrations are followed until it starts.             *)
(***************************************************************************)
EXTENDS Naturals, FiniteSets, Sequences, SequencesExt, Filtering

CONSTANTS
    Subscribers,    \* handlers passed to subscribe
    Registrars,     \* handlers passed to register
    Ids,            \* explicit options.id values
    NoId            \* a handler not registered yet

ASSUME HandlersAssumption == Subscribers \cap Registrars = {}
ASSUME IdsAssumption == NoId \notin Ids \cup Nat

Handlers == Subscribers \cup Registrars
Kinds == {"subscribe", "register"}
KindOf(h) == IF h \in Subscribers THEN "subscribe" ELSE "register"

VARIABLES
    bucket,         \* this.subscribers / this.registrars at the point
    idOf,           \* the id the handler's unregister closure captured
    phase,          \* where fire() is
    left,           \* snapshot entries not called yet
    called,         \* registered handlers called by this fire, in order
    answers,        \* the actions they resolved with
    resultAction,   \* fire()'s resultAction
    failureBehavior,
    outcome         \* what runStream makes of the turnStop action

registryVars == <<bucket, idOf>>
fireVars == <<phase, left, called, answers, resultAction>>
hookVars == <<registryVars, fireVars, failureBehavior, outcome>>

AutoIds == Nat \ {0}
Entries == [id : Ids \cup AutoIds, priority : 0 .. 1, handler : Handlers]

Action(type, kind, by) == [type |-> type, kind |-> kind, by |-> by]
NoAction == Action("none", "none", <<>>)

(* What a registered handler may resolve with.                               *)
ActionsOf(h) ==
    {Action("continue", "none", <<>>), Action("mutate", "none", <<h>>),
     Action("deny", "none", <<h>>), Action("finding", "none", <<h>>),
     Action("guard", "pass", <<>>), Action("guard", "annotate", <<>>)}
    \cup [type : {"guard"}, kind : {"block", "degrade", "annotate"}, by : {<<h>>}]

Actions ==
    [type : {"none", "continue", "guard", "finding", "mutate", "deny"},
     kind : {"none", "pass", "annotate", "degrade", "block"}, by : Seq(Handlers)]

Answers == UNION {ActionsOf(h) : h \in Handlers}

(* Types of the registry and of the fire in progress.                        *)
HookTypeOK ==
    /\ bucket \in [Kinds -> Seq(Entries)]
    /\ idOf \in [Handlers -> Ids \cup AutoIds \cup {NoId}]
    /\ phase \in {"idle", "subscribers", "registrars", "ended", "threw"}
    /\ left \in Seq(Entries) /\ called \in Seq(Entries)
    /\ answers \in Seq(Answers) /\ resultAction \in Actions
    /\ failureBehavior \in {"continue", "abort"}
    /\ outcome \in {"pending", "delivered", "refused"}

HookInit ==
    /\ bucket = [k \in Kinds |-> <<>>]
    /\ idOf = [h \in Handlers |-> NoId]
    /\ phase = "idle" /\ left = <<>> /\ called = <<>> /\ answers = <<>>
    /\ resultAction = NoAction
    /\ failureBehavior \in {"continue", "abort"}
    /\ outcome = "pending"

-----------------------------------------------------------------------------
AutoId(kind) == Len(bucket[kind]) + 1

(* Mutant: no sort, the handlers are called in the order of registration.    *)
UnsortedEntries(entries) == entries

(* Array.prototype.sort by priority, which is stable.                        *)
SortedEntries(entries) ==
    Kept(entries, {e \in ToSet(entries) : e.priority = 0})
      \o Kept(entries, {e \in ToSet(entries) : e.priority = 1})

(* Bound: once a fire has taken its copies, only clear() is followed.        *)
Followed == phase = "idle"

(* The entry replaces the one that has its id, or is appended.               *)
Put(entries, e) ==
    IF \E i \in DOMAIN entries : entries[i].id = e.id
      THEN [i \in DOMAIN entries |-> IF entries[i].id = e.id THEN e ELSE entries[i]]
      ELSE Append(entries, e)

(* subscribe and register; without an explicit id one is made up.            *)
Register(h) ==
    LET kind == KindOf(h) IN
    /\ idOf[h] = NoId /\ Followed
    /\ \E id \in Ids \cup {AutoId(kind)} :
       \E p \in IF kind = "register" THEN 0 .. 1 ELSE {0} :
          /\ idOf' = [idOf EXCEPT ![h] = id]
          /\ bucket' = [bucket EXCEPT ![kind] =
                SortedEntries(Put(@, [id |-> id, priority |-> p, handler |-> h]))]
    /\ UNCHANGED <<fireVars, failureBehavior, outcome>>

(* The returned closure: every entry with the captured id goes, whoever put   *)
(* it there.                                                                  *)
Unregister(h) ==
    /\ idOf[h] # NoId /\ Followed
    /\ bucket' = [bucket EXCEPT ![KindOf(h)] = Kept(@, {e \in ToSet(@) : e.id # idOf[h]})]
    /\ bucket' # bucket
    /\ UNCHANGED <<idOf, fireVars, failureBehavior, outcome>>

(* clear(), which dispose() calls.                                            *)
Clear ==
    /\ phase \in {"idle", "subscribers"} /\ bucket # [k \in Kinds |-> <<>>]
    /\ bucket' = [k \in Kinds |-> <<>>]
    /\ UNCHANGED <<idOf, fireVars, failureBehavior, outcome>>

-----------------------------------------------------------------------------
(* fire(): both buckets are copied before the first await.  The copy of the   *)
(* registered handlers waits behind the subscribers.                          *)
FireStarts ==
    /\ phase = "idle"
    /\ phase' = "subscribers"
    /\ left' = bucket["subscribe"] \o bucket["register"]
    /\ UNCHANGED <<registryVars, called, answers, resultAction, failureBehavior, outcome>>

SubscribersLeft == left # <<>> /\ Head(left).handler \in Subscribers

(* A subscriber returns or throws; only throwing under abort ends the fire.   *)
SubscriberSettles ==
    /\ phase = "subscribers"
    /\ SubscribersLeft
    /\ left' = Tail(left)
    /\ phase' \in IF failureBehavior = "abort" THEN {"subscribers", "threw"} ELSE {"subscribers"}
    /\ UNCHANGED <<registryVars, called, answers, resultAction, failureBehavior, outcome>>

SubscribersDone ==
    /\ phase = "subscribers"
    /\ ~ SubscribersLeft
    /\ phase' = "registrars"
    /\ UNCHANGED <<registryVars, left, called, answers, resultAction, failureBehavior, outcome>>

(* Mutant: an annotation after a degrade replaces it.                        *)
MergeGuardLastWins(current, next) ==
    IF current.type = "guard" /\ current.kind = "block" THEN current ELSE next

(* mergeGuardAction.                                                          *)
MergeGuard(current, next) ==
    LET prefixes == current.by \o next.by IN
    IF current.type # "guard" \/ current.kind = "pass" THEN next
    ELSE IF next.kind = "pass" \/ current.kind = "block" THEN current
    ELSE IF next.kind = "block" THEN next
    ELSE IF current.kind = "degrade" THEN current
    ELSE IF next.kind = "degrade" THEN next
    ELSE Action("guard", IF prefixes = <<>> THEN "pass" ELSE "annotate", prefixes)

(* mergeFindingAction.                                                        *)
MergeFinding(current, next) ==
    IF current.type = "finding"
      THEN Action("finding", "none", current.by \o next.by) ELSE next

(* Mutant: continue counts as an answer of its own.                          *)
FoldContinue(current, a) ==
    CASE a.type = "guard" -> MergeGuard(current, a)
      [] a.type = "finding" -> MergeFinding(current, a)
      [] OTHER -> a

(* One turn of the fold: the accumulator is kept only by an action of its own *)
(* type.                                                                      *)
Fold(current, a) ==
    CASE a.type = "guard" -> MergeGuard(current, a)
      [] a.type = "finding" -> MergeFinding(current, a)
      [] a.type = "continue" -> current
      [] OTHER -> a

Decisive(a) == a.type \in {"mutate", "deny"}

(* The handler at the head answers within its timeout.                        *)
HandlerAnswers ==
    /\ phase = "registrars"
    /\ left # <<>>
    /\ \E a \in ActionsOf(Head(left).handler) :
          /\ answers' = Append(answers, a)
          /\ resultAction' = Fold(resultAction, a)
          /\ left' = IF Decisive(a) THEN <<>> ELSE Tail(left)
    /\ called' = Append(called, Head(left))
    /\ UNCHANGED <<registryVars, phase, failureBehavior, outcome>>

(* Mutant: one timer for the whole fire, which ends with the first handler.  *)
FirstHandlerFails ==
    /\ phase = "registrars"
    /\ left # <<>>
    /\ called = <<>>
    /\ left' = Tail(left)
    /\ called' = Append(called, Head(left))
    /\ phase' = IF failureBehavior = "abort" THEN "threw" ELSE phase
    /\ UNCHANGED <<registryVars, answers, resultAction, failureBehavior, outcome>>

(* It throws, or its timeout wins the race.                                   *)
HandlerFails ==
    /\ phase = "registrars"
    /\ left # <<>>
    /\ left' = Tail(left)
    /\ called' = Append(called, Head(left))
    /\ phase' = IF failureBehavior = "abort" THEN "threw" ELSE phase
    /\ UNCHANGED <<registryVars, answers, resultAction, failureBehavior, outcome>>

FireEnds ==
    /\ phase = "registrars"
    /\ left = <<>>
    /\ phase' = "ended"
    /\ UNCHANGED <<registryVars, left, called, answers, resultAction, failureBehavior, outcome>>

(* runStream after fire("turnStop"): deny and block refuse the delivery.      *)
TurnStops ==
    /\ outcome = "pending"
    /\ phase \in {"ended", "threw"}
    /\ outcome' = IF \/ phase = "threw"
                     \/ resultAction.type = "deny"
                     \/ resultAction.type = "guard" /\ resultAction.kind = "block"
                    THEN "refused" ELSE "delivered"
    /\ UNCHANGED <<registryVars, fireVars, failureBehavior>>

Fire ==
    \/ FireStarts \/ SubscribersDone \/ FireEnds \/ TurnStops
    \/ SubscriberSettles \/ HandlerFails

HookNext ==
    \/ Fire
    \/ HandlerAnswers
    \/ \E h \in Handlers : Register(h) \/ Unregister(h)
    \/ Clear

(* Subscribers return; a registered handler may hang, its timeout fires.      *)
HookSpec == HookInit /\ [][HookNext]_hookVars /\ WF_hookVars(Fire)

-----------------------------------------------------------------------------
IsBlock(a) == a.type = "guard" /\ a.kind = "block"
IsDegrade(a) == a.type = "guard" /\ a.kind = "degrade"

NoteOf(a) == IF a.kind = "annotate" THEN a.by ELSE <<>>
NotesOf(decisions) == FlattenSeq([i \in DOMAIN decisions |-> NoteOf(decisions[i])])

(* reduceGuardDecisions (guardrail.ts) as the reference for the fold.        *)
Reduce(decisions) ==
    LET blocks == {d \in ToSet(decisions) : IsBlock(d)}
        degrades == {d \in ToSet(decisions) : IsDegrade(d)}
        notes == NotesOf(decisions)
    IN IF blocks # {} THEN FirstOf(decisions, blocks)
       ELSE IF degrades # {} THEN FirstOf(decisions, degrades)
       ELSE Action("guard", IF notes = <<>> THEN "pass" ELSE "annotate", notes)

(* The same decision, up to an annotation without text and no decision.      *)
Blank(a) == a \in {NoAction, Action("guard", "pass", <<>>), Action("guard", "annotate", <<>>)}
SameDecision(a, b) == a = b \/ (Blank(a) /\ Blank(b))

GuardAnswers == {a \in Answers : a.type \in {"guard", "continue"}}

(* As long as handlers answer with guards only, the pairwise merge of fire() *)
(* comes to what reduceGuardDecisions says of the whole list, up to an       *)
(* annotation that has no text, whatever two more handlers would go on to    *)
(* answer.                                                                   *)
MergeAgreesWithReduce ==
    (/\ phase = "ended" /\ outcome = "pending"
     /\ \A i \in DOMAIN answers : answers[i].type \in {"guard", "continue"})
      => \A a, b \in GuardAnswers :
            SameDecision(Fold(Fold(resultAction, a), b),
                         Reduce(Append(Append(answers, a), b)))

(* Registered handlers are called in ascending priority, none after a        *)
(* decisive action, however the registry changed while they ran.             *)
CalledInOrder ==
    /\ \A i, j \in DOMAIN called : i < j => called[i].priority <= called[j].priority
    /\ \A i \in DOMAIN answers : Decisive(answers[i]) => i = Len(answers)

(* A turn is refused only if a handler said so or the fire threw, and a      *)
(* block is overridden only by an answer of another kind that came later.    *)
RefusalIsAccounted ==
    /\ outcome = "refused" =>
          \/ phase = "threw"
          \/ \E i \in DOMAIN answers : IsBlock(answers[i]) \/ answers[i].type = "deny"
    /\ outcome = "delivered" =>
          \A i \in DOMAIN answers : IsBlock(answers[i]) =>
              \E j \in DOMAIN answers :
                  j > i /\ answers[j].type \in {"finding", "mutate"}

(* The handlers of a fire: called in order, merged as the reference merges   *)
(* them, a refusal accounted for.                                            *)
GuardsSound == CalledInOrder /\ MergeAgreesWithReduce /\ RefusalIsAccounted

(* A registered handler that hangs does not hang the turn.                   *)
FireTerminates == phase # "idle" ~> outcome # "pending"

(* Guards fail closed (docs/detailed-design.md, section 7.5): a turn one of  *)
(* whose guards answered block is not delivered.                             *)
BlockRefusesTurn ==
    outcome = "delivered" => \A i \in DOMAIN answers : ~ IsBlock(answers[i])

-----------------------------------------------------------------------------
(* What the proofs are by induction on: the buckets are sorted and hold      *)
(* handlers of their own kind, so that what is left of a fire is sorted too. *)
Sorted(entries) ==
    \A i, j \in DOMAIN entries : i < j => entries[i].priority <= entries[j].priority

BucketsInOrder ==
    \A k \in Kinds :
        /\ Sorted(bucket[k])
        /\ \A i \in DOMAIN bucket[k] : KindOf(bucket[k][i].handler) = k

LeftInOrder ==
    \A i, j \in DOMAIN left : i < j /\ left[i].handler \in Registrars =>
        left[j].handler \in Registrars /\ left[i].priority <= left[j].priority

CalledBeforeLeft ==
    /\ phase \in {"idle", "subscribers"} =>
          called = <<>> /\ answers = <<>> /\ resultAction = NoAction
    /\ phase = "registrars" =>
          /\ \A i \in DOMAIN left : left[i].handler \in Registrars
          /\ \A i \in DOMAIN called, j \in DOMAIN left :
                called[i].priority <= left[j].priority
    /\ Sorted(called)

(* A decisive answer, and nothing else, ends the calls before the last.      *)
DecisiveIsLast ==
    \A i \in DOMAIN answers : Decisive(answers[i]) => i = Len(answers) /\ left = <<>>

(* What the result says some handler said, and a block stands until an       *)
(* answer of another kind.                                                   *)
ResultIsAnswered ==
    /\ resultAction.type = "deny" =>
          left = <<>> /\ \E i \in DOMAIN answers : answers[i].type = "deny"
    /\ IsBlock(resultAction) => \E i \in DOMAIN answers : IsBlock(answers[i])
    /\ \A i \in DOMAIN answers : IsBlock(answers[i]) =>
          \/ IsBlock(resultAction) \/ resultAction.type = "deny"
          \/ \E j \in DOMAIN answers : j > i /\ answers[j].type \in {"finding", "mutate"}

(* So far, the merge is what the reference makes of the answers.             *)
MergedSoFar ==
    (\A i \in DOMAIN answers : answers[i].type \in {"guard", "continue"})
      => SameDecision(resultAction, Reduce(answers))

OutcomeFollows ==
    /\ outcome # "pending" => phase \in {"ended", "threw"}
    /\ outcome = "refused" =>
          phase = "threw" \/ resultAction.type = "deny" \/ IsBlock(resultAction)
    /\ outcome = "delivered" => resultAction.type # "deny" /\ ~ IsBlock(resultAction)

HookIInv ==
    /\ HookTypeOK /\ BucketsInOrder /\ LeftInOrder /\ CalledBeforeLeft
    /\ DecisiveIsLast /\ ResultIsAnswered /\ MergedSoFar /\ OutcomeFollows
=============================================================================
