--------------------------- MODULE SessionManager ---------------------------
(***************************************************************************)
(* InMemorySessionManager (packages/core/src/modules/session.ts).          *)
(*                                                                         *)
(* The manager maps a session id to a runtime object.  beginRun hands out  *)
(* a run handle: an AbortController that cancel, suspend, close, clear,    *)
(* removeSession, cleanupInactive and the next beginRun abort, and a       *)
(* release closure that captures the runtime OBJECT, not the session id.   *)
(* A handle may therefore be released after its session was deleted, and   *)
(* even after the same id was created again.  Runtime objects are told     *)
(* apart by a generation number, so that a stale release is visible.       *)
(*                                                                         *)
(* Abstractions: timestamps are reduced to the only question asked of      *)
(* them, whether the session is older than cleanupInactive's threshold     *)
(* (stale); the order of the legacy sticky list is dropped; history and    *)
(* runtimeState are never filled by this class and are left out.           *)
(***************************************************************************)
EXTENDS Naturals

CONSTANTS
    Sessions,       \* session ids
    Runs,           \* run handles, each begun at most once
    Skills,         \* names a sticky list may hold
    NoRun,          \* currentRun = undefined
    MaxGen,         \* bound: runtime objects created per session id
    MaxTurn         \* bound: turnNumber

ASSUME SessionsAssumption == Sessions # {}
ASSUME NoRunAssumption == NoRun \notin Runs
ASSUME BoundsAssumption == MaxGen \in Nat /\ MaxTurn \in Nat

Reasons == {"last-message-wins", "session-suspended", "session-closed",
            "session-removed", "session-cleanup", "session-clear", "cancelled"}

VARIABLES
    exists,         \* keys of this.sessions
    gen,            \* which runtime object the key maps to (or mapped to last)
    status,         \* runtime.session.status
    currentRun,     \* runtime.currentRun
    turnNumber,     \* runtime.turnNumber
    stickySkills,   \* runtime.stickySkills, as a set
    stale,          \* now - lastActiveAt > olderThanMs
    runState,       \* has the handle been begun / released
    runSession,     \* session id the handle was begun for
    runGen,         \* runtime object captured by the release closure
    abortedBy       \* reason of the handle's signal, "none" while live

sessionVars == <<exists, gen, status, turnNumber, stickySkills, stale>>
handleVars  == <<runState, runSession, runGen, abortedBy>>
vars == <<exists, gen, status, currentRun, turnNumber, stickySkills, stale,
          runState, runSession, runGen, abortedBy>>

(* Types of the runtime objects and of the handles.                          *)
TypeOK ==
    /\ exists \in SUBSET Sessions
    /\ gen \in [Sessions -> 0 .. MaxGen]
    /\ status \in [Sessions -> {"active", "suspended"}]
    /\ currentRun \in [Sessions -> Runs \cup {NoRun}]
    /\ turnNumber \in [Sessions -> 0 .. MaxTurn]
    /\ stickySkills \in [Sessions -> SUBSET Skills]
    /\ stale \in [Sessions -> BOOLEAN]
    /\ runState \in [Runs -> {"unused", "held", "released"}]
    /\ runSession \in [Runs -> Sessions]
    /\ runGen \in [Runs -> 0 .. MaxGen]
    /\ abortedBy \in [Runs -> Reasons \cup {"none"}]

Init ==
    /\ exists = {}
    /\ gen = [s \in Sessions |-> 0]
    /\ status = [s \in Sessions |-> "active"]
    /\ currentRun = [s \in Sessions |-> NoRun]
    /\ turnNumber = [s \in Sessions |-> 0]
    /\ stickySkills = [s \in Sessions |-> {}]
    /\ stale = [s \in Sessions |-> FALSE]
    /\ runState = [r \in Runs |-> "unused"]
    /\ runSession = [r \in Runs |-> CHOOSE s \in Sessions : TRUE]
    /\ runGen = [r \in Runs |-> 0]
    /\ abortedBy = [r \in Runs |-> "none"]

-----------------------------------------------------------------------------
(* runtime.currentRun?.abort(reason) for every session of the set S.  An    *)
(* AbortController keeps its first reason.                                  *)
AbortCurrent(S, reason) ==
    abortedBy' = [r \in Runs |->
        IF abortedBy[r] = "none" /\ \E s \in S : currentRun[s] = r
          THEN reason ELSE abortedBy[r]]

(* resolve(id) of a known session: it becomes active again.                 *)
ResolveExisting(s) ==
    /\ s \in exists
    /\ status' = [status EXCEPT ![s] = "active"]
    /\ stale' = [stale EXCEPT ![s] = FALSE]
    /\ UNCHANGED <<exists, gen, currentRun, turnNumber, stickySkills>>
    /\ UNCHANGED handleVars

(* resolve(id) of an unknown session: a new runtime object.                 *)
ResolveNew(s) ==
    /\ s \notin exists
    /\ gen[s] < MaxGen
    /\ exists' = exists \cup {s}
    /\ gen' = [gen EXCEPT ![s] = @ + 1]
    /\ status' = [status EXCEPT ![s] = "active"]
    /\ currentRun' = [currentRun EXCEPT ![s] = NoRun]
    /\ turnNumber' = [turnNumber EXCEPT ![s] = 0]
    /\ stickySkills' = [stickySkills EXCEPT ![s] = {}]
    /\ stale' = [stale EXCEPT ![s] = FALSE]
    /\ UNCHANGED handleVars

Resolve(s) == ResolveExisting(s) \/ ResolveNew(s)

(* Mutant: beginRun registers the new run without aborting the previous one. *)
BeginRunKeepsPrevious(s, r) ==
    /\ s \in exists
    /\ runState[r] = "unused"
    /\ turnNumber[s] < MaxTurn
    /\ currentRun' = [currentRun EXCEPT ![s] = r]
    /\ turnNumber' = [turnNumber EXCEPT ![s] = @ + 1]
    /\ stale' = [stale EXCEPT ![s] = FALSE]
    /\ runState' = [runState EXCEPT ![r] = "held"]
    /\ runSession' = [runSession EXCEPT ![r] = s]
    /\ runGen' = [runGen EXCEPT ![r] = gen[s]]
    /\ UNCHANGED <<exists, gen, status, stickySkills, abortedBy>>

(* Mutant: the previous run's controller is reused, so that aborting the     *)
(* previous run aborts the new one as well.                                  *)
BeginRunSharesController(s, r) ==
    /\ s \in exists
    /\ runState[r] = "unused"
    /\ turnNumber[s] < MaxTurn
    /\ abortedBy' = [q \in Runs |->
          IF abortedBy[q] = "none" /\ currentRun[s] # NoRun /\ q \in {r, currentRun[s]}
            THEN "last-message-wins" ELSE abortedBy[q]]
    /\ currentRun' = [currentRun EXCEPT ![s] = r]
    /\ turnNumber' = [turnNumber EXCEPT ![s] = @ + 1]
    /\ stale' = [stale EXCEPT ![s] = FALSE]
    /\ runState' = [runState EXCEPT ![r] = "held"]
    /\ runSession' = [runSession EXCEPT ![r] = s]
    /\ runGen' = [runGen EXCEPT ![r] = gen[s]]
    /\ UNCHANGED <<exists, gen, status, stickySkills>>

(* beginRun(id, requestId); without a session it throws and changes nothing. *)
BeginRun(s, r) ==
    /\ s \in exists
    /\ runState[r] = "unused"
    /\ turnNumber[s] < MaxTurn
    /\ AbortCurrent({s}, "last-message-wins")
    /\ currentRun' = [currentRun EXCEPT ![s] = r]
    /\ turnNumber' = [turnNumber EXCEPT ![s] = @ + 1]
    /\ stale' = [stale EXCEPT ![s] = FALSE]
    /\ runState' = [runState EXCEPT ![r] = "held"]
    /\ runSession' = [runSession EXCEPT ![r] = s]
    /\ runGen' = [runGen EXCEPT ![r] = gen[s]]
    /\ UNCHANGED <<exists, gen, status, stickySkills>>

(* The map still holds the runtime object this handle captured.             *)
OwnsRuntime(r) ==
    /\ runSession[r] \in exists
    /\ gen[runSession[r]] = runGen[r]

(* Mutant: release clears currentRun without comparing controllers.          *)
ReleaseAnyCurrent(r) ==
    /\ runState[r] = "held"
    /\ runState' = [runState EXCEPT ![r] = "released"]
    /\ currentRun' = IF OwnsRuntime(r)
                       THEN [currentRun EXCEPT ![runSession[r]] = NoRun]
                       ELSE currentRun
    /\ UNCHANGED sessionVars
    /\ UNCHANGED <<runSession, runGen, abortedBy>>

(* release(): idempotent; clears currentRun of the captured object only if   *)
(* this handle is still its current one.  On an object no longer in the map  *)
(* the assignment is invisible.                                              *)
Release(r) ==
    /\ runState[r] = "held"
    /\ runState' = [runState EXCEPT ![r] = "released"]
    /\ currentRun' = [s \in Sessions |->
          IF OwnsRuntime(r) /\ runSession[r] = s /\ currentRun[s] = r
            THEN NoRun ELSE currentRun[s]]
    /\ UNCHANGED sessionVars
    /\ UNCHANGED <<runSession, runGen, abortedBy>>

(* currentRun?.abort(reason); currentRun = undefined *)
DropCurrent(s, reason) ==
    /\ s \in exists
    /\ AbortCurrent({s}, reason)
    /\ currentRun' = [currentRun EXCEPT ![s] = NoRun]
    /\ UNCHANGED <<runState, runSession, runGen>>

Cancel(s) ==
    /\ DropCurrent(s, "cancelled")
    /\ UNCHANGED sessionVars

Suspend(s) ==
    /\ DropCurrent(s, "session-suspended")
    /\ status' = [status EXCEPT ![s] = "suspended"]
    /\ stale' = [stale EXCEPT ![s] = FALSE]
    /\ UNCHANGED <<exists, gen, turnNumber, stickySkills>>

Clear(s) ==
    /\ DropCurrent(s, "session-clear")
    /\ turnNumber' = [turnNumber EXCEPT ![s] = 0]
    /\ stickySkills' = [stickySkills EXCEPT ![s] = {}]
    /\ stale' = [stale EXCEPT ![s] = FALSE]
    /\ UNCHANGED <<exists, gen, status>>

(* Mutant: close marks the session closed and forgets to delete it.          *)
CloseKeepsEntry(s) ==
    /\ DropCurrent(s, "session-closed")
    /\ status' = [status EXCEPT ![s] = "closed"]
    /\ UNCHANGED <<exists, gen, turnNumber, stickySkills, stale>>

(* Mutant: close deletes the session without aborting its run.               *)
CloseWithoutAbort(s) ==
    /\ s \in exists
    /\ currentRun' = [currentRun EXCEPT ![s] = NoRun]
    /\ exists' = exists \ {s}
    /\ UNCHANGED <<gen, status, turnNumber, stickySkills, stale>>
    /\ UNCHANGED handleVars

Close(s) ==
    /\ DropCurrent(s, "session-closed")
    /\ exists' = exists \ {s}
    /\ UNCHANGED <<gen, status, turnNumber, stickySkills, stale>>

(* removeSession leaves currentRun set on the object it drops from the map.  *)
RemoveSession(s) ==
    /\ s \in exists
    /\ AbortCurrent({s}, "session-removed")
    /\ exists' = exists \ {s}
    /\ UNCHANGED <<gen, status, currentRun, turnNumber, stickySkills, stale>>
    /\ UNCHANGED <<runState, runSession, runGen>>

(* cleanupInactive(olderThanMs): every stale session goes, in one step.      *)
CleanupInactive ==
    LET old == {s \in exists : stale[s]} IN
    /\ old # {}
    /\ AbortCurrent(old, "session-cleanup")
    /\ exists' = exists \ old
    /\ UNCHANGED <<gen, status, currentRun, turnNumber, stickySkills, stale>>
    /\ UNCHANGED <<runState, runSession, runGen>>

AppendSticky(s, k) ==
    /\ s \in exists
    /\ stickySkills' = [stickySkills EXCEPT ![s] = @ \cup {k}]
    /\ stale' = [stale EXCEPT ![s] = FALSE]
    /\ UNCHANGED <<exists, gen, status, currentRun, turnNumber>>
    /\ UNCHANGED handleVars

RemoveSticky(s, k) ==
    /\ s \in exists
    /\ stickySkills' = [stickySkills EXCEPT ![s] = @ \ {k}]
    /\ stale' = [stale EXCEPT ![s] = FALSE]
    /\ UNCHANGED <<exists, gen, status, currentRun, turnNumber>>
    /\ UNCHANGED handleVars

(* Date.now() passes lastActiveAt + olderThanMs.                             *)
GrowStale(s) ==
    /\ s \in exists
    /\ ~ stale[s]
    /\ stale' = [stale EXCEPT ![s] = TRUE]
    /\ UNCHANGED <<exists, gen, status, currentRun, turnNumber, stickySkills>>
    /\ UNCHANGED handleVars

Next ==
    \/ \E s \in Sessions :
          \/ Resolve(s) \/ Cancel(s) \/ Suspend(s) \/ Clear(s) \/ Close(s)
          \/ RemoveSession(s) \/ GrowStale(s)
          \/ \E r \in Runs : BeginRun(s, r)
          \/ \E k \in Skills : AppendSticky(s, k) \/ RemoveSticky(s, k)
    \/ \E r \in Runs : Release(r)
    \/ CleanupInactive

Spec == Init /\ [][Next]_vars

-----------------------------------------------------------------------------
(* A handle's signal has not fired and the handle was not released.          *)
Live(r) == runState[r] = "held" /\ abortedBy[r] = "none"

(* Last-message-wins: of all the handles ever given out for a session id,    *)
(* across suspend, close and re-creation of that id, at most one is begun,   *)
(* not released and not aborted.                                             *)
AtMostOneLiveRun ==
    \A r, q \in Runs :
        Live(r) /\ Live(q) /\ runSession[r] = runSession[q] => r = q

(* A live run can always be reached by cancel(sessionId): it is the current  *)
(* run of the runtime object the map holds.  A late release of an older      *)
(* handle, or deletion of the session, must not make a run uncancellable.    *)
LiveRunIsReachable ==
    \A r \in Runs : Live(r) => OwnsRuntime(r) /\ currentRun[runSession[r]] = r

(* A run is superseded only in favour of a run of the same session that is   *)
(* live afterwards: beginRun never aborts without replacing.                 *)
SupersedeStep ==
    \A r \in Runs :
        abortedBy[r] = "none" /\ abortedBy'[r] = "last-message-wins"
          => \E q \in Runs \ {r} :
                Live(q)' /\ runSession'[q] = runSession[r]
SupersededByLiveRun == [][SupersedeStep]_vars

(* Strengthening for the proofs: what the runtime object knows of its        *)
(* current run, and that a signal cannot fire before its handle exists.      *)
CurrentIsOwn ==
    \A s \in exists : currentRun[s] # NoRun =>
        /\ runState[currentRun[s]] = "held"
        /\ runSession[currentRun[s]] = s
        /\ runGen[currentRun[s]] = gen[s]
UnusedIsFresh ==
    \A r \in Runs : runState[r] = "unused" => abortedBy[r] = "none"
IInv == TypeOK /\ LiveRunIsReachable /\ CurrentIsOwn /\ UnusedIsFresh
=============================================================================
