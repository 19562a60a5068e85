-------------------------- MODULE SkillActivation --------------------------
(***************************************************************************)
(* The skills of a session, turn after turn: which are given to the model  *)
(* in full (active) and which by name only (available), and the memory of  *)
(* those it loaded.  core/src/engine: run-skill-activation.ts (the         *)
(* preparation of a turn), skill-activation/ (the profile, the activator,  *)
(* the sticky manager) over the decisions of activation/core.ts, and       *)
(* load_skill of subflows/internal-tools.ts.                               *)
(*                                                                         *)
(* A preparation is a sequence of awaits.  A load of this turn or of one   *)
(* it superseded, and the clearing of the session, may come between any    *)
(* two of them.  Abstractions: a skill has a mode and the tokens of its    *)
(* text; its line in the list of the available ones costs one; the lists   *)
(* given to the model are sets.  The host's discovery and the embedding    *)
(* are external.                                                           *)
(***************************************************************************)
EXTENDS Integers, Filtering

CONSTANTS
    SkillNames,
    Registered,     \* those of the registry; the others are of the host's discovery
    Deprecated,
    Mode,           \* activation.mode of each: "always" | "manual" | "semantic" | "path"
    Tokens,         \* of its text
    Inputs,         \* what turns bring: [explicit, pin, exclude, scores]
    TtlTurns, MaxSlots, TopK, T0Limit, T1Limit,     \* of the configuration
    LastTurn,       \* turns begun at most, for TLC
    LoadsAtOnce     \* loads in flight at most, for TLC

VARIABLES
    currentTurn,    \* of the session, as the preparation reads it
    entries,        \* the sticky entries [name, added], in order
    loads,          \* loads that have read the turn and not yet marked
    step,           \* of the preparation: "idle" | "listed" | "recalled" | "pinned" | "ready"
    input,
    external,       \* skills of the host fetched for this turn
    scored,         \* contributions of the recall
    pins,           \* what is pinned, before budgets
    result,         \* [failed, active, available, found]
    begun,          \* turns begun, never set back
    loadedAt,       \* which of them loaded a skill that was marked, the last such
    clearedAt,      \* which of them was the last when the session was cleared
    late            \* a superseded turn has marked a skill

skillVars == <<currentTurn, entries, loads, step, input, external, scored, pins, result,
               begun, loadedAt, clearedAt, late>>

StickyEntries == [name : SkillNames, added : 0 .. LastTurn]
Scores == [name : SkillNames, score : Nat, host : BOOLEAN, promote : BOOLEAN]
Pins ==
    [name : SkillNames, kind : {"asked", "sticky", "promoted"}, place : Nat, added : 0 .. LastTurn]

ASSUME SkillsAssumption ==
    /\ IsFiniteSet(SkillNames) /\ Registered \subseteq SkillNames
    /\ Mode \in [SkillNames -> {"always", "manual", "semantic", "path"}]
    /\ Tokens \in [SkillNames -> Nat]
    /\ \A i \in Inputs :
          i \in [explicit : SUBSET SkillNames, pin : SUBSET SkillNames,
                 exclude : SUBSET SkillNames, scores : Seq(Scores)]
    /\ {TtlTurns, MaxSlots} \subseteq Nat \ {0} /\ {TopK, LastTurn} \subseteq Nat
    /\ {T0Limit, T1Limit} \subseteq Int

Nothing == [failed |-> FALSE, active |-> {}, available |-> {}, found |-> {}]
ElementsOf(list) == {list[i] : i \in DOMAIN list}
NamesOf(list) == {list[i].name : i \in DOMAIN list}

(* What a set of pins costs: a text that is pinned twice is counted twice.      *)
Text(p) == {p} \X (1 .. Tokens[p.name])
Cost(set) == Cardinality(UNION {Text(p) : p \in set})

SkillsTypeOK ==
    /\ {currentTurn, begun, clearedAt} \subseteq 0 .. LastTurn
    /\ entries \in Seq(StickyEntries)
    /\ loads \in SUBSET [name : SkillNames, turn : 0 .. LastTurn, of : 1 .. LastTurn]
    /\ step \in {"idle", "listed", "recalled", "pinned", "ready"}
    /\ input \in Inputs /\ external \in SUBSET (SkillNames \ Registered)
    /\ scored \in Seq(Scores) /\ pins \in SUBSET Pins
    /\ result \in [failed : BOOLEAN, active : SUBSET Pins, available : SUBSET SkillNames,
                   found : SUBSET SkillNames]
    /\ loadedAt \in [SkillNames -> 0 .. LastTurn] /\ late \in BOOLEAN

SkillsInit ==
    /\ currentTurn = 0 /\ entries = <<>> /\ loads = {}
    /\ step = "idle" /\ input \in Inputs
    /\ external = {} /\ scored = <<>> /\ pins = {} /\ result = Nothing
    /\ begun = 0 /\ loadedAt = [s \in SkillNames |-> 0] /\ clearedAt = 0 /\ late = FALSE

-----------------------------------------------------------------------------
(* The sticky manager.  Reading the list at a turn forgets what has expired.    *)
Fresh(turn) == Kept(entries, {e \in ElementsOf(entries) : turn - e.added < TtlTurns})

(* The one added longest ago, the first of them in the list.                    *)
AddedFirst == {e \in ElementsOf(entries) : \A f \in ElementsOf(entries) : e.added <= f.added}
Oldest == FirstOf(entries, AddedFirst)

(* Mutant: a skill loaded again keeps the turn of its first load.               *)
MarkedOnce(s, turn) ==
    LET new == [name |-> s, added |-> turn]
    IN IF s \in NamesOf(entries) THEN entries
       ELSE IF Len(entries) < MaxSlots THEN Append(entries, new)
       ELSE Append(Kept(entries, ElementsOf(entries) \ {Oldest}), new)

(* A mark renews an entry in its place; a new one takes the place of the one    *)
(* added longest ago if all are taken.                                          *)
Marked(s, turn) ==
    LET new == [name |-> s, added |-> turn]
    IN IF s \in NamesOf(entries)
       THEN [i \in DOMAIN entries |-> IF entries[i].name = s THEN new ELSE entries[i]]
       ELSE IF Len(entries) < MaxSlots THEN Append(entries, new)
       ELSE Append(Kept(entries, ElementsOf(entries) \ {Oldest}), new)

-----------------------------------------------------------------------------
(* A message: the run before it, if any, is aborted, but not its loads.         *)
TurnBegins ==
    /\ step \in {"idle", "ready"} /\ begun < LastTurn
    /\ currentTurn' = currentTurn + 1 /\ begun' = begun + 1
    /\ input' \in Inputs
    /\ entries' = Fresh(currentTurn')
    /\ external' \in SUBSET (NamesOf(entries') \ Registered)
    /\ step' = "listed"
    /\ scored' = <<>> /\ pins' = {} /\ result' = Nothing
    /\ UNCHANGED <<loads, loadedAt, clearedAt, late>>

(* The registry, and what the host gave of the sticky skills that are not in it. *)
View == Registered \cup external
Usable(s) == s \in View /\ s \notin Deprecated

(* The recall: the embedding scores what is neither sticky nor deprecated, the  *)
(* host's strategies what they like; a failure of one leaves no recall at all.   *)
Embedded ==
    {s \in View \ (Deprecated \cup NamesOf(Fresh(currentTurn))) : Mode[s] \in {"semantic", "path"}}
Recall ==
    /\ step = "listed" /\ step' = "recalled"
    /\ entries' = Fresh(currentTurn)
    /\ \/ scored' = Kept(input.scores,
                         {c \in ElementsOf(input.scores) : c.host \/ c.name \in Embedded})
       \/ scored' = <<>>
    /\ UNCHANGED <<currentTurn, loads, input, external, pins, result, begun, loadedAt,
                   clearedAt, late>>

(* The decision of the core on a skill: exclusion, pin, mode, recall.            *)
Decision(s) ==
    IF s \in input.exclude THEN "exclude"
    ELSE IF s \in input.pin THEN "pin"
    ELSE IF Mode[s] = "always" THEN "always"
    ELSE IF Mode[s] = "manual" /\ s \in input.explicit THEN "manual"
    ELSE IF Mode[s] = "semantic" /\ s \in NamesOf(scored) THEN "semantic"
    ELSE "inactive"

(* Pinned: what was asked for by name, whatever the decision; the always active  *)
(* and the pinned; and the sticky, which the decision does not touch.            *)
Explicit == {s \in input.explicit : Usable(s)}
Pinned == {s \in View \ Deprecated : Decision(s) \in {"always", "pin"}}
Asked == Explicit \cup Pinned
Pin(s, kind, place, added) == [name |-> s, kind |-> kind, place |-> place, added |-> added]
AskedPins == {Pin(s, "asked", 0, 0) : s \in Asked}
StickyPins(list) ==
    {Pin(list[i].name, "sticky", i, 0) : i \in {j \in DOMAIN list : list[j].name \in View \ Asked}}
PinAll ==
    /\ step = "recalled" /\ step' = "pinned"
    /\ entries' = Fresh(currentTurn)
    /\ pins' = AskedPins \cup StickyPins(entries')
    /\ UNCHANGED <<currentTurn, loads, input, external, scored, result, begun, loadedAt,
                   clearedAt, late>>

(* Candidates: the recalled, each by its best score, and in the order of their   *)
(* first contributions; one that a host's strategy promotes is pinned, again if  *)
(* it was already.                                                               *)
Candidates == {s \in View \ Deprecated : Decision(s) = "semantic"}
ScoresOf(s) == {i \in DOMAIN scored : scored[i].name = s}
PlaceOf(s) == CHOOSE i \in ScoresOf(s) : \A j \in ScoresOf(s) : i <= j
Score(s) ==
    scored[CHOOSE i \in ScoresOf(s) : \A j \in ScoresOf(s) : scored[j].score <= scored[i].score].score
Promoted == {s \in Candidates : \E i \in ScoresOf(s) : scored[i].promote}

(* The sort by score is stable, and cut from the end; the budget's is too, and   *)
(* is cut from its start.                                                        *)
Before(s, t) ==
    \/ Score(s) > Score(t)
    \/ Score(s) = Score(t) /\ PlaceOf(s) < PlaceOf(t)
Outlasts(s, t) ==
    \/ Score(s) > Score(t)
    \/ Score(s) = Score(t) /\ PlaceOf(s) > PlaceOf(t)
Ranked(set) == {s \in set : Cardinality({t \in set : Before(t, s)}) < TopK}
Listed(set) == {s \in set : Cardinality({t \in set : Outlasts(t, s)}) < T1Limit}

(* The turn the skill of a pin was added in, if it still is an entry.            *)
Added(s, list) ==
    IF s \in NamesOf(list) THEN list[CHOOSE i \in DOMAIN list : list[i].name = s].added ELSE 0
AskedOf(set) == {p \in set : p.kind = "asked"}
Dated(p, list) == [p EXCEPT !.added = Added(p.name, list)]
AllPins(list) ==
    AskedOf(pins) \cup {Dated(p, list) : p \in pins \ AskedOf(pins)}
                  \cup {Pin(s, "promoted", PlaceOf(s), Added(s, list)) : s \in Promoted}

(* The sticky and the promoted are sorted by age.                                *)
Sooner(p, q) ==
    \/ p.added < q.added
    \/ p.added = q.added /\ p.kind = "sticky" /\ q.kind = "promoted"
    \/ p.added = q.added /\ p.kind = q.kind /\ p.place < q.place
Fits(p, set) ==
    Cost(AskedOf(set) \cup {q \in set \ AskedOf(set) : ~ Sooner(q, p)}) <= T0Limit

(* The budgets: of the pinned, the sticky and the promoted are dropped, those    *)
(* added first, until the rest fits; those asked for must fit.  Of the others    *)
(* the worst are dropped.                                                        *)
Place ==
    /\ step = "pinned" /\ step' = "ready"
    /\ entries' = Fresh(currentTurn)
    /\ pins' = AllPins(entries')
    /\ result' =
         IF Cost(AskedOf(pins')) > T0Limit THEN [Nothing EXCEPT !.failed = TRUE]
         ELSE [Nothing EXCEPT
                 !.active = AskedOf(pins') \cup {p \in pins' \ AskedOf(pins') : Fits(p, pins')},
                 !.available = Listed(Ranked(Candidates \ {p.name : p \in pins'}))]
    /\ UNCHANGED <<currentTurn, loads, input, external, scored, begun, loadedAt, clearedAt, late>>

(* What the host discovers is added to the available by name, if it is new.      *)
Given == {p.name : p \in result.active}
Discover ==
    /\ step = "ready" /\ ~ result.failed /\ result.found = {}
    /\ \E set \in SUBSET (SkillNames \ Registered) :
          result' = [result EXCEPT !.available = @ \cup (set \ Given), !.found = set]
    /\ UNCHANGED <<currentTurn, entries, loads, step, input, external, scored, pins, begun,
                   loadedAt, clearedAt, late>>

-----------------------------------------------------------------------------
(* load_skill by the loop of a prepared turn: the skill is found, the turn read,  *)
(* and, an await later, the skill marked.                                         *)
LoadFound(s) ==
    /\ step = "ready" /\ ~ result.failed /\ Cardinality(loads) < LoadsAtOnce
    /\ loads' = loads \cup {[name |-> s, turn |-> currentTurn, of |-> begun]}
    /\ UNCHANGED <<currentTurn, entries, step, input, external, scored, pins, result, begun,
                   loadedAt, clearedAt, late>>

LoadMarks(load) ==
    /\ load \in loads /\ loads' = loads \ {load}
    /\ entries' = Marked(load.name, load.turn)
    /\ loadedAt' = [loadedAt EXCEPT ![load.name] = load.of]
    /\ late' = (late \/ load.of < begun)
    /\ UNCHANGED <<currentTurn, step, input, external, scored, pins, result, begun, clearedAt>>

(* clear(sessionId) sets the turns back; the sticky manager is not told.          *)
SessionCleared ==
    /\ currentTurn > 0
    /\ currentTurn' = 0 /\ step' = "idle"
    /\ external' = {} /\ scored' = <<>> /\ pins' = {} /\ result' = Nothing
    /\ clearedAt' = begun
    /\ UNCHANGED <<entries, loads, input, begun, loadedAt, late>>

SkillsNext ==
    \/ TurnBegins \/ Recall \/ PinAll \/ Place \/ Discover \/ SessionCleared
    \/ \E s \in SkillNames : LoadFound(s)
    \/ \E load \in loads : LoadMarks(load)

SkillsSpec == SkillsInit /\ [][SkillsNext]_skillVars

-----------------------------------------------------------------------------
(* The memory of the loaded holds no skill twice, no more than its slots, and    *)
(* takes none for older than the turns begun since its last load make it; nor is *)
(* one given for longer than its window, unless the session was cleared          *)
(* meanwhile, which sets the turns back but not the memory (CONTEXT.md:48 has no *)
(* such case).  A loaded skill stays for its window, unless as many as there are *)
(* slots were loaded in that turn or since, or a turn that had been superseded   *)
(* marked late.                                                                  *)
Age(s) == begun - loadedAt[s]
StickyThen == {p.name : p \in {q \in pins : q.kind = "sticky"}}
NewerThan(s) == {t \in SkillNames \ {s} : loadedAt[t] >= loadedAt[s]}
KeptForItsWindow(s) ==
    loadedAt[s] > 0 /\ Age(s) < TtlTurns /\ s \notin NamesOf(entries)
        => Cardinality(NewerThan(s)) >= MaxSlots
MemorySound ==
    /\ Len(entries) <= MaxSlots
    /\ \A i, j \in DOMAIN entries : entries[i].name = entries[j].name => i = j
    /\ \A i \in DOMAIN entries : currentTurn - entries[i].added <= Age(entries[i].name)
    /\ clearedAt = 0 /\ ~ late => \A s \in SkillNames : KeptForItsWindow(s)
    /\ \A s \in StickyThen : Age(s) < TtlTurns \/ clearedAt >= loadedAt[s] \/ late

(* What a prepared turn may count on.  A skill asked for by name, pinned or      *)
(* always active is given in full, or the turn fails because those alone do not  *)
(* fit; a sticky one that can be had is, unless those of its age or younger fill *)
(* the budget, one that is promoted too counting twice; nothing excluded is      *)
(* given unless it was asked for by name or is sticky, nor is it offered unless  *)
(* the host's discovery brings it; the budgets are kept; a skill is in one       *)
(* place, once, unless a strategy promotes what is pinned.                       *)
NeedsRoom(p) == Cost({q \in pins : q.kind = "asked" \/ q.added >= p.added}) > T0Limit
OffersSound ==
    LET ranked == result.available \ result.found
    IN /\ Cardinality(ranked) <= TopK /\ (ranked = {} \/ Cardinality(ranked) <= T1Limit)
       /\ Given \cap result.available = {}
       /\ \A s \in input.exclude \ input.explicit :
             /\ s \in Given => s \in StickyThen
             /\ s \in result.available => s \in result.found \ Registered
TurnPrepared ==
    /\ Asked \subseteq Given /\ Cost(result.active) <= T0Limit
    /\ \A p \in pins : p.kind = "sticky" /\ p.name \notin Given => NeedsRoom(p)
    /\ ~ late => \A s \in View \cap NamesOf(entries) :
                   loadedAt[s] < begun => s \in Asked \cup StickyThen
    /\ Promoted = {} => \A p, q \in result.active : p.name = q.name => p = q
    /\ OffersSound

SkillsSound ==
    /\ MemorySound
    /\ step = "ready" /\ result.failed => Cost(AskedPins) > T0Limit
    /\ step = "ready" /\ ~ result.failed => TurnPrepared

(* What the proofs are by induction on.  The turns are counted from the last     *)
(* clearing, and so are those that loads and entries are of, if they are younger *)
(* than it.                                                                      *)
TurnsCount ==
    /\ currentTurn = begun - clearedAt /\ (step # "idle" => currentTurn > 0)
    /\ \A s \in SkillNames : loadedAt[s] <= begun
Follows(turn, of) ==
    /\ of \in 1 .. begun /\ turn >= of - clearedAt
    /\ of > clearedAt => turn = of - clearedAt
LoadsFollow == \A load \in loads : Follows(load.turn, load.of)
EntriesFollow == \A i \in DOMAIN entries : Follows(entries[i].added, loadedAt[entries[i].name])

(* What is pinned: what is asked for, what was remembered, what is promoted.     *)
PinsFollow ==
    /\ step \notin {"pinned", "ready"} => pins = {}
    /\ step \in {"pinned", "ready"} => AskedOf(pins) = AskedPins
    /\ \A p, q \in pins : p.kind = q.kind /\ p.name = q.name => p = q
    /\ \A p \in pins : /\ p.kind = "sticky" => p.name \in View \ Asked
                       /\ p.kind = "promoted" => step = "ready" /\ p.name \in Promoted
    /\ step \in {"pinned", "ready"} /\ ~ late =>
          \A s \in View \cap NamesOf(entries) : loadedAt[s] < begun => s \in Asked \cup StickyThen

ResultFollows ==
    /\ step # "ready" => result = Nothing
    /\ result.active \subseteq pins

SkillIInv ==
    /\ SkillsTypeOK /\ TurnsCount /\ LoadsFollow /\ EntriesFollow
    /\ PinsFollow /\ ResultFollows /\ SkillsSound
=============================================================================
