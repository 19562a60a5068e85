-------------------------- MODULE EngineRuns_proofs --------------------------
(***************************************************************************)
(* Proofs about the session manager, the runs of an engine and the skills  *)
(* of a session, for every set of sessions, runs and skills.               *)
(*                                                                         *)
(* Of the manager, the key fact is that the live handles are exactly       *)
(* reachable through the map (LiveRunIsReachable): at most one live run    *)
(* per session follows, because currentRun is a function of the session    *)
(* id.  The engine uses the manager through resolve, beginRun, release,    *)
(* cancel and close only, so that each of its steps is one of the          *)
(* manager's or leaves the manager alone: what is proved of the manager    *)
(* carries over.  The rest follows from where a generator stands, which    *)
(* says what has become of its handle (HandleFollowsRun).                  *)
(*                                                                         *)
(* Of the skills: the turn an entry carries is the one its last load was   *)
(* of, counted from the last clearing (EntriesFollow), so that expiry and  *)
(* eviction go by the ages the property speaks of; and the budget, cut     *)
(* along a partial order of the pins, leaves what fits.                    *)
(***************************************************************************)
EXTENDS EngineRuns, SkillActivation, QueueLemmas

(* The empty manager satisfies the inductive invariant.                      *)
LEMMA InitIInv == Init => IInv
<1> SUFFICES ASSUME Init PROVE IInv
  OBVIOUS
<1> DEFINE s0 == CHOOSE s \in Sessions : TRUE
<1>1. s0 \in Sessions
  BY SessionsAssumption
<1>2. runSession = [r \in Runs |-> s0]
  BY DEF Init
<1> HIDE DEF s0
<1>a. runSession \in [Runs -> Sessions]
  BY <1>1, <1>2
<1>b. TypeOK
  <2>1. 0 \in 0 .. MaxGen /\ 0 \in 0 .. MaxTurn
    BY BoundsAssumption
  <2>2. exists \in SUBSET Sessions /\ abortedBy \in [Runs -> Reasons \cup {"none"}]
    BY DEF Init
  <2>3. gen \in [Sessions -> 0 .. MaxGen] /\ turnNumber \in [Sessions -> 0 .. MaxTurn]
        /\ runGen \in [Runs -> 0 .. MaxGen]
    BY <2>1 DEF Init
  <2>4. stickySkills \in [Sessions -> SUBSET Skills] /\ stale \in [Sessions -> BOOLEAN]
    BY DEF Init
  <2>5. /\ status \in [Sessions -> {"active", "suspended"}]
        /\ currentRun \in [Sessions -> Runs \cup {NoRun}]
        /\ runState \in [Runs -> {"unused", "held", "released"}]
    BY DEF Init
  <2> QED
    BY <1>a, <2>2, <2>3, <2>4, <2>5 DEF TypeOK
<1>3. LiveRunIsReachable /\ CurrentIsOwn /\ UnusedIsFresh
  BY DEF Init, LiveRunIsReachable, Live, CurrentIsOwn, UnusedIsFresh
<1> QED
  BY <1>b, <1>3 DEF IInv

(* What aborting the current runs of a set of sessions does to every signal. *)
LEMMA AbortFacts ==
  ASSUME NEW S \in SUBSET exists, NEW reason \in Reasons, IInv,
         AbortCurrent(S, reason)
  PROVE  /\ abortedBy' \in [Runs -> Reasons \cup {"none"}]
         /\ \A r \in Runs : abortedBy'[r] = "none" =>
               abortedBy[r] = "none" /\ \A s \in S : currentRun[s] # r
         /\ \A r \in Runs : runState[r] = "unused" =>
               abortedBy'[r] = abortedBy[r]
<1>1. "none" \notin Reasons
  BY DEF Reasons
<1>2. \A r \in Runs, s \in S : currentRun[s] = r => runState[r] = "held"
  BY NoRunAssumption DEF IInv, CurrentIsOwn
<1> QED
  BY <1>1, <1>2 DEF AbortCurrent, IInv, TypeOK

(* beginRun aborts the run it replaces, so the new run is the only reachable *)
(* live one of its session.                                                  *)
LEMMA BeginRunIInv ==
  ASSUME IInv, NEW s \in Sessions, NEW r \in Runs, BeginRun(s, r)
  PROVE  IInv'
<1> USE DEF BeginRun
<1>1. "last-message-wins" \in Reasons /\ {s} \in SUBSET exists
  BY DEF Reasons
<1>2. /\ abortedBy' \in [Runs -> Reasons \cup {"none"}]
      /\ \A q \in Runs : abortedBy'[q] = "none" =>
            abortedBy[q] = "none" /\ currentRun[s] # q
      /\ \A q \in Runs : runState[q] = "unused" => abortedBy'[q] = abortedBy[q]
  BY <1>1, AbortFacts
<1>3. TypeOK'
  <2>1. turnNumber[s] \in Nat /\ turnNumber[s] + 1 \in 0 .. MaxTurn
    BY BoundsAssumption DEF IInv, TypeOK
  <2>2. turnNumber' \in [Sessions -> 0 .. MaxTurn]
    BY <2>1 DEF IInv, TypeOK
  <2>3. stale' \in [Sessions -> BOOLEAN]
    BY DEF IInv, TypeOK
  <2> QED
    BY <1>2, <2>2, <2>3 DEF IInv, TypeOK
<1>4. LiveRunIsReachable'
  BY <1>2 DEF IInv, TypeOK, LiveRunIsReachable, Live, OwnsRuntime
<1>5. CurrentIsOwn'
  BY DEF IInv, TypeOK, CurrentIsOwn
<1>6. UnusedIsFresh'
  BY <1>2 DEF IInv, TypeOK, UnusedIsFresh
<1> QED
  BY <1>3, <1>4, <1>5, <1>6 DEF IInv

(* release touches currentRun only where this handle is current, so no other *)
(* live run becomes unreachable.                                             *)
LEMMA ReleaseIInv ==
  ASSUME IInv, NEW r \in Runs, Release(r)
  PROVE  IInv'
<1> USE DEF Release, sessionVars
<1>1. TypeOK'
  BY DEF IInv, TypeOK
<1>2. LiveRunIsReachable'
  BY DEF IInv, TypeOK, LiveRunIsReachable, Live, OwnsRuntime
<1>3. CurrentIsOwn'
  <2> SUFFICES ASSUME NEW s \in exists, currentRun'[s] # NoRun
               PROVE  /\ runState'[currentRun'[s]] = "held"
                      /\ runSession'[currentRun'[s]] = s
                      /\ runGen'[currentRun'[s]] = gen'[s]
    BY DEF CurrentIsOwn
  <2>1. s \in Sessions /\ currentRun'[s] = currentRun[s]
    BY DEF IInv, TypeOK
  <2>2. runState[currentRun[s]] = "held" /\ runSession[currentRun[s]] = s
        /\ runGen[currentRun[s]] = gen[s]
    BY <2>1 DEF IInv, CurrentIsOwn
  <2>3. currentRun[s] # r
    BY <2>1, <2>2 DEF OwnsRuntime
  <2> QED
    BY <2>1, <2>2, <2>3, NoRunAssumption DEF IInv, TypeOK
<1>4. UnusedIsFresh'
  BY DEF IInv, TypeOK, UnusedIsFresh
<1> QED
  BY <1>1, <1>2, <1>3, <1>4 DEF IInv

(* Aborting and forgetting the current run of s; the action may change the   *)
(* session's own fields and may delete it from the map.                      *)
LEMMA DropCurrentIInv ==
  ASSUME IInv, NEW s \in Sessions, NEW reason \in Reasons,
         DropCurrent(s, reason), exists' \in SUBSET exists, gen' = gen
  PROVE  /\ currentRun' \in [Sessions -> Runs \cup {NoRun}]
         /\ abortedBy' \in [Runs -> Reasons \cup {"none"}]
         /\ exists \ {s} \in SUBSET exists' => LiveRunIsReachable'
         /\ CurrentIsOwn'
         /\ UnusedIsFresh'
<1> USE DEF DropCurrent
<1>1. /\ abortedBy' \in [Runs -> Reasons \cup {"none"}]
      /\ \A q \in Runs : abortedBy'[q] = "none" =>
            abortedBy[q] = "none" /\ currentRun[s] # q
      /\ \A q \in Runs : runState[q] = "unused" => abortedBy'[q] = abortedBy[q]
  <2>1. {s} \in SUBSET exists
    OBVIOUS
  <2> QED
    BY <2>1, AbortFacts
<1>2. currentRun' \in [Sessions -> Runs \cup {NoRun}]
  BY DEF IInv, TypeOK
<1>3. ASSUME exists \ {s} \in SUBSET exists' PROVE LiveRunIsReachable'
  BY <1>1, <1>3 DEF IInv, TypeOK, LiveRunIsReachable, Live, OwnsRuntime
<1>4. CurrentIsOwn'
  BY DEF IInv, TypeOK, CurrentIsOwn
<1>5. UnusedIsFresh'
  BY <1>1 DEF IInv, TypeOK, UnusedIsFresh
<1> QED
  BY <1>1, <1>2, <1>3, <1>4, <1>5

(* Aborting the current runs of a set of sessions and deleting the sessions, *)
(* as removeSession and cleanupInactive do.                                  *)
LEMMA DeleteIInv ==
  ASSUME IInv, NEW S \in SUBSET exists, NEW reason \in Reasons,
         AbortCurrent(S, reason), exists' = exists \ S,
         UNCHANGED <<gen, status, currentRun, turnNumber, stickySkills, stale>>,
         UNCHANGED <<runState, runSession, runGen>>
  PROVE  IInv'
<1>1. /\ abortedBy' \in [Runs -> Reasons \cup {"none"}]
      /\ \A q \in Runs : abortedBy'[q] = "none" =>
            abortedBy[q] = "none" /\ \A s \in S : currentRun[s] # q
      /\ \A q \in Runs : runState[q] = "unused" => abortedBy'[q] = abortedBy[q]
  BY AbortFacts
<1>2. TypeOK'
  BY <1>1 DEF IInv, TypeOK
<1>3. LiveRunIsReachable'
  BY <1>1 DEF IInv, TypeOK, LiveRunIsReachable, Live, OwnsRuntime
<1>4. CurrentIsOwn' /\ UnusedIsFresh'
  BY <1>1 DEF IInv, TypeOK, CurrentIsOwn, UnusedIsFresh
<1> QED
  BY <1>2, <1>3, <1>4 DEF IInv

(* resolve changes no handle and gives a new runtime object no current run.  *)
LEMMA ResolveIInv ==
  ASSUME IInv, NEW s \in Sessions, Resolve(s)
  PROVE  IInv'
<1> USE DEF handleVars
<1>1. CASE ResolveExisting(s)
  BY <1>1 DEF ResolveExisting, IInv, TypeOK, LiveRunIsReachable, Live,
              OwnsRuntime, CurrentIsOwn, UnusedIsFresh
<1>2. CASE ResolveNew(s)
  <2> USE <1>2 DEF ResolveNew
  <2>1. gen[s] \in Nat /\ gen[s] + 1 \in 0 .. MaxGen /\ 0 \in 0 .. MaxTurn
    BY BoundsAssumption DEF IInv, TypeOK
  <2>2. /\ gen' \in [Sessions -> 0 .. MaxGen]
        /\ turnNumber' \in [Sessions -> 0 .. MaxTurn]
        /\ stickySkills' \in [Sessions -> SUBSET Skills]
    BY <2>1 DEF IInv, TypeOK
  <2>3. /\ currentRun' \in [Sessions -> Runs \cup {NoRun}]
        /\ status' \in [Sessions -> {"active", "suspended"}]
        /\ stale' \in [Sessions -> BOOLEAN]
    BY DEF IInv, TypeOK
  <2>4. TypeOK'
    BY <2>2, <2>3 DEF IInv, TypeOK
  <2>5. LiveRunIsReachable'
    BY DEF IInv, TypeOK, LiveRunIsReachable, Live, OwnsRuntime
  <2>6. CurrentIsOwn' /\ UnusedIsFresh'
    BY DEF IInv, TypeOK, CurrentIsOwn, UnusedIsFresh
  <2> QED
    BY <2>4, <2>5, <2>6 DEF IInv
<1> QED
  BY <1>1, <1>2 DEF Resolve

(* Every operation of the manager preserves the inductive invariant.         *)
LEMMA StepIInv == IInv /\ [Next]_vars => IInv'
<1> SUFFICES ASSUME IInv, [Next]_vars PROVE IInv'
  OBVIOUS
<1>1. ASSUME NEW s \in Sessions, Resolve(s) PROVE IInv'
  BY <1>1, ResolveIInv
<1>2. ASSUME NEW s \in Sessions, Cancel(s) PROVE IInv'
  <2>1. "cancelled" \in Reasons
    BY DEF Reasons
  <2> QED
    BY <1>2, <2>1, DropCurrentIInv DEF Cancel, DropCurrent, sessionVars, IInv, TypeOK
<1>3. ASSUME NEW s \in Sessions, Suspend(s) PROVE IInv'
  <2>1. "session-suspended" \in Reasons
    BY DEF Reasons
  <2> QED
    BY <1>3, <2>1, DropCurrentIInv DEF Suspend, DropCurrent, IInv, TypeOK
<1>4. ASSUME NEW s \in Sessions, Clear(s) PROVE IInv'
  <2>1. "session-clear" \in Reasons /\ 0 \in 0 .. MaxTurn
    BY BoundsAssumption DEF Reasons
  <2>2. stickySkills' \in [Sessions -> SUBSET Skills]
    BY <1>4 DEF Clear, IInv, TypeOK
  <2> QED
    BY <1>4, <2>1, <2>2, DropCurrentIInv DEF Clear, DropCurrent, IInv, TypeOK
<1>5. ASSUME NEW s \in Sessions, Close(s) PROVE IInv'
  <2>1. "session-closed" \in Reasons
    BY DEF Reasons
  <2> QED
    BY <1>5, <2>1, DropCurrentIInv DEF Close, DropCurrent, IInv, TypeOK
<1>6. ASSUME NEW s \in Sessions, RemoveSession(s) PROVE IInv'
  <2>1. "session-removed" \in Reasons /\ {s} \in SUBSET exists
    BY <1>6 DEF Reasons, RemoveSession
  <2> QED
    BY <1>6, <2>1, DeleteIInv DEF RemoveSession
<1>7. ASSUME NEW s \in Sessions, GrowStale(s) PROVE IInv'
  BY <1>7 DEF GrowStale, handleVars, IInv, TypeOK, LiveRunIsReachable, Live,
              OwnsRuntime, CurrentIsOwn, UnusedIsFresh
<1>8. ASSUME NEW s \in Sessions, NEW r \in Runs, BeginRun(s, r) PROVE IInv'
  BY <1>8, BeginRunIInv
<1>9. ASSUME NEW s \in Sessions, NEW k \in Skills,
             AppendSticky(s, k) \/ RemoveSticky(s, k) PROVE IInv'
  <2>a. stickySkills[s] \cup {k} \in SUBSET Skills
        /\ stickySkills[s] \ {k} \in SUBSET Skills
    BY DEF IInv, TypeOK
  <2>b. stickySkills' \in [Sessions -> SUBSET Skills]
    BY <1>9, <2>a DEF AppendSticky, RemoveSticky, IInv, TypeOK
  <2>c. stale' \in [Sessions -> BOOLEAN]
    BY <1>9 DEF AppendSticky, RemoveSticky, IInv, TypeOK
  <2>1. /\ stickySkills' \in [Sessions -> SUBSET Skills]
        /\ stale' \in [Sessions -> BOOLEAN]
    BY <2>b, <2>c
  <2>2. UNCHANGED <<exists, gen, status, currentRun, turnNumber>>
        /\ UNCHANGED handleVars
    BY <1>9 DEF AppendSticky, RemoveSticky
  <2> QED
    BY <2>1, <2>2 DEF handleVars, IInv, TypeOK, LiveRunIsReachable, Live,
              OwnsRuntime, CurrentIsOwn, UnusedIsFresh
<1>10. ASSUME NEW r \in Runs, Release(r) PROVE IInv'
  BY <1>10, ReleaseIInv
<1>11. CASE CleanupInactive
  <2> DEFINE old == {s \in exists : stale[s]}
  <2>1. "session-cleanup" \in Reasons /\ old \in SUBSET exists
    BY DEF Reasons
  <2>2. AbortCurrent(old, "session-cleanup") /\ exists' = exists \ old
    BY <1>11 DEF CleanupInactive
  <2>3. /\ UNCHANGED <<gen, status, currentRun, turnNumber, stickySkills, stale>>
        /\ UNCHANGED <<runState, runSession, runGen>>
    BY <1>11 DEF CleanupInactive
  <2> HIDE DEF old
  <2> QED
    BY <2>1, <2>2, <2>3, DeleteIInv
<1>12. CASE UNCHANGED vars
  BY <1>12 DEF vars, IInv, TypeOK, LiveRunIsReachable, Live, OwnsRuntime,
               CurrentIsOwn, UnusedIsFresh
<1> QED
  BY <1>1, <1>2, <1>3, <1>4, <1>5, <1>6, <1>7, <1>8, <1>9, <1>10, <1>11, <1>12
  DEF Next

(* The inductive invariant holds of every behaviour of the manager.          *)
THEOREM IInvHolds == Spec => []IInv
BY InitIInv, StepIInv, PTL DEF Spec

(* Every variable of the manager keeps its type.                             *)
THEOREM TypeCorrect == Spec => []TypeOK
<1>1. IInv => TypeOK
  BY DEF IInv
<1> QED
  BY <1>1, IInvHolds, PTL

(* cancel(sessionId) reaches every live run, however releases, deletions and *)
(* re-creations of the session interleave.                                   *)
THEOREM LiveRunReachable == Spec => []LiveRunIsReachable
<1>1. IInv => LiveRunIsReachable
  BY DEF IInv
<1> QED
  BY <1>1, IInvHolds, PTL

(* Last-message-wins: at most one live run per session id.                   *)
THEOREM OneLiveRun == Spec => []AtMostOneLiveRun
<1>1. IInv => AtMostOneLiveRun
  BY DEF IInv, LiveRunIsReachable, AtMostOneLiveRun
<1> QED
  BY <1>1, IInvHolds, PTL

(* beginRun aborts a run only by putting a live one of the same session in   *)
(* its place.                                                                *)
THEOREM Supersession == Spec => SupersededByLiveRun
<1>1. IInv /\ [Next]_vars => [SupersedeStep]_vars
  <2> SUFFICES ASSUME IInv, Next, NEW r \in Runs, abortedBy[r] = "none",
                      abortedBy'[r] = "last-message-wins"
               PROVE  \E q \in Runs \ {r} :
                          Live(q)' /\ runSession'[q] = runSession[r]
    BY DEF SupersedeStep
  <2>1. PICK s \in Sessions, q \in Runs : BeginRun(s, q)
    BY DEF Next, Resolve, ResolveExisting, ResolveNew, Cancel, Suspend, Clear,
           Close, DropCurrent, RemoveSession, GrowStale, AppendSticky,
           RemoveSticky, Release, CleanupInactive, AbortCurrent, handleVars
  <2>2. currentRun[s] = r /\ s \in exists /\ runState[q] = "unused"
    BY <2>1 DEF BeginRun, AbortCurrent
  <2>3. runSession[r] = s /\ runState[r] = "held" /\ r # NoRun
    BY <2>2, NoRunAssumption DEF IInv, CurrentIsOwn
  <2>4. q # r /\ abortedBy[q] = "none"
    BY <2>2, <2>3 DEF IInv, UnusedIsFresh
  <2>5. abortedBy'[q] = "none"
    BY <2>1, <2>2, <2>4 DEF BeginRun, AbortCurrent
  <2>6. runState'[q] = "held" /\ runSession'[q] = s
    BY <2>1 DEF BeginRun, IInv, TypeOK
  <2> QED
    BY <2>3, <2>4, <2>5, <2>6 DEF Live
<1> QED
  BY <1>1, IInvHolds, PTL DEF Spec, SupersededByLiveRun

-----------------------------------------------------------------------------
(* Every step of the engine is an operation of the manager, or leaves it.    *)
LEMMA EngineStepIsManagerStep ==
  ASSUME EngineTypeOK, [EngineNext]_allVars
  PROVE  [Next]_vars
<1>1. CASE UNCHANGED allVars
  BY <1>1 DEF allVars
<1>2. ASSUME NEW r \in Runs, RunStep(r) \/ WorkSettles(r) \/ ConsumerBreaks(r)
      PROVE  [Next]_vars
  <2>1. target[r] \in Sessions
    BY DEF EngineTypeOK
  <2>2. \/ UNCHANGED vars \/ Release(r)
        \/ Resolve(target[r]) \/ BeginRun(target[r], r)
    BY <1>2 DEF RunStep, Start, StartRefused, Begin, BeginThrows, SessionPhase,
                StartWork, StoreReply, YieldDone, PhaseThrows, EndRun,
                WorkSettles, ConsumerBreaks
  <2> QED
    BY <2>1, <2>2 DEF Next
<1>3. ASSUME NEW s \in Sessions,
             EngineCancel(s) \/ HostCloses(s) \/ DisposeCancels(s)
      PROVE  [Next]_vars
  BY <1>3 DEF EngineCancel, HostCloses, DisposeCancels, Next
<1>4. CASE DisposeStarts
  BY <1>4 DEF DisposeStarts
<1> QED
  BY <1>1, <1>2, <1>3, <1>4 DEF EngineNext

(* A handle that was given out stays its session's, and once its signal      *)
(* fired or it was released it never becomes live again.                     *)
LEMMA HandlesFade ==
  ASSUME IInv, [Next]_vars, NEW r \in Runs, runState[r] # "unused"
  PROVE  /\ runState'[r] # "unused"
         /\ runSession'[r] = runSession[r]
         /\ Live(r)' => Live(r)
<1>1. CASE UNCHANGED <<runState, runSession, runGen>> /\
           \A q \in Runs : abortedBy'[q] = "none" => abortedBy[q] = "none"
  BY <1>1 DEF Live
<1>2. ASSUME NEW S, NEW reason \in Reasons, AbortCurrent(S, reason)
      PROVE  \A q \in Runs : abortedBy'[q] = "none" => abortedBy[q] = "none"
  BY <1>2 DEF AbortCurrent, Reasons
<1>3. ASSUME NEW s \in Sessions, Cancel(s) \/ Suspend(s) \/ Clear(s) \/ Close(s)
      PROVE  /\ UNCHANGED <<runState, runSession, runGen>>
             /\ \A q \in Runs : abortedBy'[q] = "none" => abortedBy[q] = "none"
  BY <1>2, <1>3 DEF Cancel, Suspend, Clear, Close, DropCurrent, Reasons
<1>4. ASSUME NEW s \in Sessions, RemoveSession(s) \/ CleanupInactive
      PROVE  /\ UNCHANGED <<runState, runSession, runGen>>
             /\ \A q \in Runs : abortedBy'[q] = "none" => abortedBy[q] = "none"
  BY <1>2, <1>4 DEF RemoveSession, CleanupInactive, Reasons
<1>5. CASE \/ \E s \in Sessions : Resolve(s) \/ GrowStale(s)
           \/ \E s \in Sessions, k \in Skills : AppendSticky(s, k) \/ RemoveSticky(s, k)
           \/ UNCHANGED vars
  <2>1. UNCHANGED handleVars
    BY <1>5 DEF Resolve, ResolveExisting, ResolveNew, GrowStale, AppendSticky,
                RemoveSticky, vars, handleVars
  <2> QED
    BY <2>1 DEF handleVars, Live
<1>6. ASSUME NEW s \in Sessions, NEW q \in Runs, BeginRun(s, q)
      PROVE  /\ runState'[r] # "unused"
             /\ runSession'[r] = runSession[r]
             /\ Live(r)' => Live(r)
  <2>1. q # r /\ runState'[r] = runState[r] /\ runSession'[r] = runSession[r]
    BY <1>6 DEF BeginRun, IInv, TypeOK
  <2>2. \A p \in Runs : abortedBy'[p] = "none" => abortedBy[p] = "none"
    BY <1>6, <1>2 DEF BeginRun, Reasons
  <2> QED
    BY <2>1, <2>2 DEF Live
<1>7. ASSUME NEW q \in Runs, Release(q)
      PROVE  /\ runState'[r] # "unused"
             /\ runSession'[r] = runSession[r]
             /\ Live(r)' => Live(r)
  BY <1>7 DEF Release, Live, IInv, TypeOK
<1> QED
  BY <1>1, <1>3, <1>4, <1>5, <1>6, <1>7, SessionsAssumption DEF Next

-----------------------------------------------------------------------------
(* Every engine step keeps the types, once the manager's are kept.           *)
LEMMA EngineTypeStep ==
  ASSUME EngineTypeOK, TypeOK', [EngineNext]_allVars
  PROVE  EngineTypeOK'
<1> USE DEF EngineTypeOK, Goto
<1>1. ASSUME NEW r \in Runs, NEW role \in {"user", "assistant"}, Remember(r, role)
      PROVE  memory' \in [Sessions -> Seq(Entries)]
  <2>1. [role |-> role, run |-> r] \in Entries /\ target[r] \in Sessions
    BY DEF Entries
  <2>2. Append(memory[target[r]], [role |-> role, run |-> r]) \in Seq(Entries)
    BY <2>1
  <2> QED
    BY <1>1, <2>1, <2>2 DEF Remember
<1>2. ASSUME NEW r \in Runs, SessionPhase(r) \/ StoreReply(r)
      PROVE  EngineTypeOK'
  BY <1>1, <1>2 DEF SessionPhase, StoreReply, disposeVars
<1>3. ASSUME NEW r \in Runs,
             \/ Start(r) \/ StartRefused(r) \/ Begin(r) \/ BeginThrows(r)
             \/ StartWork(r) \/ YieldDone(r) \/ PhaseThrows(r) \/ EndRun(r)
             \/ WorkSettles(r) \/ ConsumerBreaks(r)
      PROVE  EngineTypeOK'
  BY <1>3 DEF Start, StartRefused, Begin, BeginThrows, StartWork, YieldDone,
              PhaseThrows, EndRun, WorkSettles, ConsumerBreaks, disposeVars
<1>4. ASSUME NEW s \in Sessions,
             EngineCancel(s) \/ HostCloses(s) \/ DisposeCancels(s)
      PROVE  EngineTypeOK'
  BY <1>4 DEF EngineCancel, HostCloses, DisposeCancels, engineVars, runVars,
              disposeVars
<1>5. CASE DisposeStarts
  BY <1>5 DEF DisposeStarts, runVars, TypeOK
<1>6. CASE UNCHANGED allVars
  BY <1>6 DEF allVars, runVars, disposeVars
<1> QED
  BY <1>2, <1>3, <1>4, <1>5, <1>6 DEF EngineNext, RunStep

(* A generator's position tells what has become of its handle.               *)
LEMMA HandleStep ==
  ASSUME EngineTypeOK, HandleFollowsRun, [EngineNext]_allVars
  PROVE  HandleFollowsRun'
<1> USE DEF EngineTypeOK, Goto, HandleFollowsRun
<1>1. ASSUME NEW s \in Sessions, Resolve(s) \/ Cancel(s) \/ Close(s)
      PROVE  UNCHANGED <<runState, runSession>>
  BY <1>1 DEF Resolve, ResolveExisting, ResolveNew, Cancel, Close, DropCurrent,
              handleVars
<1>2. ASSUME NEW r \in Runs,
             \/ Start(r) \/ StartRefused(r) \/ BeginThrows(r) \/ SessionPhase(r)
             \/ StartWork(r) \/ StoreReply(r) \/ YieldDone(r) \/ PhaseThrows(r)
             \/ WorkSettles(r)
      PROVE  HandleFollowsRun'
  <2>1. target[r] \in Sessions
    OBVIOUS
  <2>2. UNCHANGED <<runState, runSession, target>>
    BY <1>1, <1>2, <2>1 DEF Start, StartRefused, BeginThrows, SessionPhase,
          StartWork, StoreReply, YieldDone, PhaseThrows, WorkSettles, vars
  <2> QED
    BY <1>2, <2>2 DEF Start, StartRefused, BeginThrows, SessionPhase,
          StartWork, StoreReply, YieldDone, PhaseThrows, WorkSettles
<1>3. ASSUME NEW r \in Runs, Begin(r) PROVE HandleFollowsRun'
  BY <1>3 DEF Begin, BeginRun, TypeOK
<1>4. ASSUME NEW r \in Runs, EndRun(r) \/ ConsumerBreaks(r) PROVE HandleFollowsRun'
  <2>1. /\ pc' = [pc EXCEPT ![r] = "ended"]
        /\ runState' = [runState EXCEPT ![r] = "released"]
        /\ UNCHANGED <<runSession, target>>
    BY <1>4 DEF EndRun, ConsumerBreaks, Release
  <2>2. pc \in [Runs -> {"idle", "resolved", "begun", "prepared", "executing",
                         "replied", "closing", "ended", "rejected"}]
        /\ runState \in [Runs -> {"unused", "held", "released"}]
    BY DEF TypeOK
  <2> QED
    BY <2>1, <2>2
<1>5. ASSUME NEW s \in Sessions,
             EngineCancel(s) \/ HostCloses(s) \/ DisposeCancels(s)
      PROVE  HandleFollowsRun'
  <2>1. UNCHANGED <<runState, runSession, target, pc>>
    BY <1>1, <1>5 DEF EngineCancel, HostCloses, DisposeCancels, engineVars,
          runVars, vars
  <2> QED
    BY <2>1
<1>6. CASE DisposeStarts \/ UNCHANGED allVars
  BY <1>6 DEF DisposeStarts, allVars, runVars, vars
<1> QED
  BY <1>2, <1>3, <1>4, <1>5, <1>6 DEF EngineNext, RunStep

(* Memory only grows, and done is delivered after the append alone.          *)
LEMMA ReplyStep ==
  ASSUME EngineTypeOK, ReplyStays, [EngineNext]_allVars
  PROVE  ReplyStays'
<1> USE DEF EngineTypeOK, Goto, ReplyStays
<1>1. ASSUME NEW r \in Runs, NEW role \in {"user", "assistant"},
             Remember(r, role), UNCHANGED target
      PROVE  /\ \A q \in Runs : ReplyStored(q) => ReplyStored(q)'
             /\ role = "assistant" => ReplyStored(r)'
  <2> DEFINE entry == [role |-> role, run |-> r]
  <2>1. entry \in Entries /\ target[r] \in Sessions
    BY DEF Entries
  <2>2. ASSUME NEW m \in Seq(Entries)
        PROVE  /\ \A i \in DOMAIN m : i \in DOMAIN Append(m, entry)
                                      /\ Append(m, entry)[i] = m[i]
               /\ Len(m) + 1 \in DOMAIN Append(m, entry)
               /\ Append(m, entry)[Len(m) + 1] = entry
    <3> HIDE DEF entry
    <3> QED
      BY <2>1
  <2>3. \A s \in Sessions : /\ memory[s] \in Seq(Entries)
                            /\ memory'[s] = IF s = target[r] THEN Append(memory[s], entry)
                                                             ELSE memory[s]
    BY <1>1 DEF Remember
  <2>4. \A q \in Runs : ReplyStored(q) => ReplyStored(q)'
    <3> SUFFICES ASSUME NEW q \in Runs, NEW i \in DOMAIN memory[target[q]],
                        memory[target[q]][i] = [role |-> "assistant", run |-> q]
                 PROVE  i \in DOMAIN memory'[target[q]]
                        /\ memory'[target[q]][i] = memory[target[q]][i]
      BY <1>1 DEF ReplyStored
    <3>1. target[q] \in Sessions
      OBVIOUS
    <3> HIDE DEF entry
    <3>2. memory[target[q]] \in Seq(Entries)
      BY <2>3, <3>1
    <3>3. i \in DOMAIN Append(memory[target[q]], entry)
          /\ Append(memory[target[q]], entry)[i] = memory[target[q]][i]
      BY <2>2, <3>2
    <3>4. \/ memory'[target[q]] = Append(memory[target[q]], entry)
          \/ memory'[target[q]] = memory[target[q]]
      BY <2>3, <3>1
    <3> QED
      BY <3>3, <3>4
  <2>5. role = "assistant" => ReplyStored(r)'
    <3>1. /\ Len(memory[target[r]]) + 1 \in DOMAIN memory'[target[r]]
          /\ memory'[target[r]][Len(memory[target[r]]) + 1] = entry
      <4> HIDE DEF entry
      <4> QED
        BY <2>1, <2>2, <2>3
    <3> QED
      BY <1>1, <3>1 DEF ReplyStored
  <2> QED
    BY <2>4, <2>5
<1>2. ASSUME NEW r \in Runs, SessionPhase(r) \/ StoreReply(r)
      PROVE  ReplyStays'
  BY <1>1, <1>2 DEF SessionPhase, StoreReply
<1>3. ASSUME NEW r \in Runs,
             \/ Start(r) \/ StartRefused(r) \/ Begin(r) \/ BeginThrows(r)
             \/ StartWork(r) \/ YieldDone(r) \/ PhaseThrows(r) \/ EndRun(r)
             \/ WorkSettles(r) \/ ConsumerBreaks(r)
      PROVE  ReplyStays'
  BY <1>3 DEF Start, StartRefused, Begin, BeginThrows, StartWork, YieldDone,
              PhaseThrows, EndRun, WorkSettles, ConsumerBreaks, ReplyStored
<1>4. CASE UNCHANGED runVars
  BY <1>4 DEF runVars, ReplyStored
<1>5. ASSUME NEW s \in Sessions,
             EngineCancel(s) \/ HostCloses(s) \/ DisposeCancels(s)
      PROVE  UNCHANGED runVars
  BY <1>5 DEF EngineCancel, HostCloses, DisposeCancels, engineVars
<1> QED
  BY <1>2, <1>3, <1>4, <1>5 DEF EngineNext, RunStep, DisposeStarts, allVars

(* A run dispose() found is live only while its session waits to be cancelled. *)
LEMMA DisposeStep ==
  ASSUME EngineTypeOK, IInv, DisposeWillReach, [EngineNext]_allVars
  PROVE  DisposeWillReach'
<1> USE DEF EngineTypeOK
<1>1. [Next]_vars
  BY EngineStepIsManagerStep
<1>2. \A r \in liveAtDispose :
         /\ runState'[r] # "unused"
         /\ runSession'[r] = runSession[r]
         /\ Live(r)' => Live(r)
  BY <1>1, HandlesFade DEF DisposeWillReach
<1>3. CASE UNCHANGED disposeVars
  BY <1>2, <1>3 DEF disposeVars, DisposeWillReach
<1>4. CASE DisposeStarts
  <2>1. \A r \in Runs : Live(r) => runState[r] # "unused" /\ runSession[r] \in exists
    BY DEF Live, IInv, LiveRunIsReachable, OwnsRuntime
  <2> QED
    BY <1>4, <2>1 DEF DisposeStarts, DisposeWillReach, vars, Live
<1>5. ASSUME NEW s \in Sessions, DisposeCancels(s)
      PROVE  DisposeWillReach'
  <2>1. ASSUME NEW r \in liveAtDispose, Live(r)' PROVE runSession[r] # s
    <3>1. Live(r)
      BY <1>2, <2>1
    <3>2. runSession[r] \in exists /\ currentRun[runSession[r]] = r
      BY <3>1 DEF IInv, LiveRunIsReachable, OwnsRuntime
    <3>3. ASSUME runSession[r] = s PROVE FALSE
      <4>1. AbortCurrent({s}, "cancelled")
        BY <1>5, <3>2, <3>3 DEF DisposeCancels, Cancel, DropCurrent
      <4>2. abortedBy'[r] # "none"
        BY <4>1, <3>1, <3>2, <3>3 DEF AbortCurrent
      <4> QED
        BY <4>2, <2>1 DEF Live
    <3> QED
      BY <3>3
  <2> QED
    BY <1>2, <1>5, <2>1 DEF DisposeCancels, DisposeWillReach
<1>6. ASSUME NEW r \in Runs, RunStep(r) \/ WorkSettles(r) \/ ConsumerBreaks(r)
      PROVE  UNCHANGED disposeVars
  BY <1>6 DEF RunStep, Start, StartRefused, Begin, BeginThrows, SessionPhase,
              StartWork, StoreReply, YieldDone, PhaseThrows, EndRun,
              WorkSettles, ConsumerBreaks
<1>7. ASSUME NEW s \in Sessions, EngineCancel(s) \/ HostCloses(s)
      PROVE  UNCHANGED disposeVars
  BY <1>7 DEF EngineCancel, HostCloses, engineVars
<1> QED
  BY <1>3, <1>4, <1>5, <1>6, <1>7 DEF EngineNext, allVars

-----------------------------------------------------------------------------
(* An engine that has not been asked anything satisfies its invariant.       *)
LEMMA EngineInitIInv == EngineInit => EngineIInv
<1> SUFFICES ASSUME EngineInit PROVE EngineIInv
  OBVIOUS
<1>1. IInv /\ TypeOK
  BY InitIInv DEF EngineInit, IInv
<1>2. memory \in [Sessions -> Seq(Entries)]
  BY DEF EngineInit
<1>3. EngineTypeOK
  BY <1>1, <1>2 DEF EngineInit, EngineTypeOK
<1>4. HandleFollowsRun /\ ReplyStays /\ DisposeWillReach
  BY DEF EngineInit, Init, HandleFollowsRun, ReplyStays, DisposeWillReach
<1> QED
  BY <1>1, <1>3, <1>4 DEF EngineIInv

(* Every step of the engine keeps it.                                        *)
LEMMA EngineStepIInv == EngineIInv /\ [EngineNext]_allVars => EngineIInv'
<1> SUFFICES ASSUME EngineIInv, [EngineNext]_allVars PROVE EngineIInv'
  OBVIOUS
<1> USE DEF EngineIInv
<1>1. IInv'
  BY EngineStepIsManagerStep, StepIInv
<1>2. EngineTypeOK'
  BY <1>1, EngineTypeStep DEF IInv
<1> QED
  BY <1>1, <1>2, HandleStep, ReplyStep, DisposeStep

(* The engine's inductive invariant holds of every behaviour.                *)
THEOREM EngineInvariant == EngineSpec => []EngineIInv
BY EngineInitIInv, EngineStepIInv, PTL DEF EngineSpec

(* Every variable of the engine keeps its type.                              *)
THEOREM EngineTypes == EngineSpec => []EngineTypeOK
<1>1. EngineIInv => EngineTypeOK
  BY DEF EngineIInv
<1> QED
  BY <1>1, EngineInvariant, PTL

(* The engine uses the session manager as its specification allows, however  *)
(* its runs, its cancellation and its disposal interleave.                   *)
THEOREM EngineUsesManager == EngineSpec => Spec
<1>1. EngineInit => Init
  BY DEF EngineInit
<1>2. EngineIInv /\ [EngineNext]_allVars => [Next]_vars
  BY EngineStepIsManagerStep DEF EngineIInv
<1> QED
  BY <1>1, <1>2, EngineInvariant, PTL DEF EngineSpec, Spec

(* Hence the manager's promises hold of an engine: one live run per session, *)
(* each reachable by cancel, and none superseded but by a live one.          *)
THEOREM EngineKeepsPromises ==
  EngineSpec => []AtMostOneLiveRun /\ []LiveRunIsReachable /\ SupersededByLiveRun
BY EngineUsesManager, OneLiveRun, LiveRunReachable, Supersession

(* Of the executions in flight for one session whose consumer still          *)
(* iterates, all but one have had their signal aborted.                      *)
THEOREM OneAttended == EngineSpec => []OneAttendedExecution
<1>1. EngineIInv => OneAttendedExecution
  BY DEF EngineIInv, IInv, HandleFollowsRun, LiveRunIsReachable, Live,
         OneAttendedExecution, Unchecked
<1> QED
  BY <1>1, EngineInvariant, PTL

(* The reply is in the session's memory by the time the consumer sees done.  *)
THEOREM ReplyBeforeDone == EngineSpec => []DoneImpliesReplyStored
<1>1. EngineIInv => DoneImpliesReplyStored
  BY DEF EngineIInv, ReplyStays, ReplyStored, DoneImpliesReplyStored
<1> QED
  BY <1>1, EngineInvariant, PTL

(* dispose() leaves none of the runs it found with a live signal.            *)
THEOREM DisposeReachesAll == EngineSpec => []DisposeCancelsRuns
<1>1. EngineIInv => DisposeCancelsRuns
  BY DEF EngineIInv, DisposeWillReach, DisposeCancelsRuns, DisposeDone
<1> QED
  BY <1>1, EngineInvariant, PTL

-----------------------------------------------------------------------------
(* The skills.                                                               *)

(* A list of entries has no skill twice.                                     *)
Distinct(list) == \A i, j \in DOMAIN list : list[i].name = list[j].name => i = j

(* A list of entries is a sequence of them.                                  *)
LEMMA EntriesList ==
  ASSUME NEW list \in Seq(StickyEntries)
  PROVE  /\ DOMAIN list = 1 .. Len(list) /\ Len(list) \in Nat
         /\ \A i \in DOMAIN list : /\ list[i] \in StickyEntries /\ list[i].name \in SkillNames
                                   /\ list[i].added \in 0 .. LastTurn
                                   /\ list[i].added \in Int
<1>1. DOMAIN list = 1 .. Len(list) /\ Len(list) \in Nat
  BY LenProperties
<1>2. ASSUME NEW i \in DOMAIN list
      PROVE  list[i] \in StickyEntries
  BY <1>1, ElementOfSeq
<1>3. \A e \in StickyEntries : e.name \in SkillNames /\ e.added \in 0 .. LastTurn
  BY DEF StickyEntries
<1>4. \A x \in 0 .. LastTurn : x \in Int
  OBVIOUS
<1> QED
  BY <1>1, <1>2, <1>3, <1>4

(* What is left of it.                                                       *)
LEMMA KeptEntries ==
  ASSUME NEW list \in Seq(StickyEntries), NEW T
  PROVE  /\ Kept(list, T) \in Seq(StickyEntries)
         /\ \A n \in DOMAIN Kept(list, T) :
               \E i \in DOMAIN list : Kept(list, T)[n] = list[i] /\ list[i] \in T
         /\ \A i \in DOMAIN list : list[i] \in T => list[i].name \in NamesOf(Kept(list, T))
         /\ NamesOf(Kept(list, T)) \subseteq NamesOf(list)
         /\ Distinct(list) => Distinct(Kept(list, T))
<1> DEFINE v == Kept(list, T)
<1>1. /\ v \in Seq(StickyEntries) /\ DOMAIN v = 1 .. Len(v)
      /\ \E g \in [DOMAIN v -> DOMAIN list] :
            /\ \A n \in DOMAIN v : v[n] = list[g[n]] /\ list[g[n]] \in T
            /\ \A m, n \in DOMAIN v : m < n => g[m] < g[n]
            /\ \A i \in DOMAIN list : list[i] \in T => \E n \in DOMAIN v : g[n] = i
  BY KeptProperties
<1> HIDE DEF v
<1>2. PICK g \in [DOMAIN v -> DOMAIN list] :
            /\ \A n \in DOMAIN v : v[n] = list[g[n]] /\ list[g[n]] \in T
            /\ \A m, n \in DOMAIN v : m < n => g[m] < g[n]
            /\ \A i \in DOMAIN list : list[i] \in T => \E n \in DOMAIN v : g[n] = i
  BY <1>1
<1>3. \A n \in DOMAIN v : \E i \in DOMAIN list : v[n] = list[i] /\ list[i] \in T
  BY <1>2
<1>4. ASSUME NEW i \in DOMAIN list, list[i] \in T PROVE list[i].name \in NamesOf(v)
  <2>1. PICK n \in DOMAIN v : g[n] = i
    BY <1>2, <1>4
  <2>2. v[n] = list[i]
    BY <1>2, <2>1
  <2> QED
    BY <2>2 DEF NamesOf
<1>5. NamesOf(v) \subseteq NamesOf(list)
  BY <1>3 DEF NamesOf
<1>6. ASSUME Distinct(list), NEW m \in DOMAIN v, NEW n \in DOMAIN v, v[m].name = v[n].name
      PROVE  m = n
  <2>1. g[m] = g[n] /\ g[m] \in DOMAIN list
    BY <1>2, <1>6 DEF Distinct
  <2>2. ~ (m < n) /\ ~ (n < m)
    <3>1. DOMAIN list = 1 .. Len(list)
      BY LenProperties
    <3>2. ~ (g[m] < g[n]) /\ ~ (g[n] < g[m])
      BY <2>1, <3>1
    <3> QED
      BY <1>2, <3>2
  <2>3. m \in Int /\ n \in Int
    BY <1>1, <1>6
  <2> QED
    BY <2>2, <2>3
<1>7. Distinct(list) => Distinct(v)
  BY <1>6 DEF Distinct
<1> QED
  BY <1>1, <1>3, <1>4, <1>5, <1>7 DEF v

(* What is left of the memory at a turn.                                     *)
LEMMA FreshEntries ==
  ASSUME SkillsTypeOK, NEW turn
  PROVE  /\ Fresh(turn) \in Seq(StickyEntries) /\ Len(Fresh(turn)) <= Len(entries)
         /\ Len(Fresh(turn)) \in Nat /\ Len(entries) \in Nat
         /\ \A n \in DOMAIN Fresh(turn) :
               \E i \in DOMAIN entries :
                  Fresh(turn)[n] = entries[i] /\ turn - entries[i].added < TtlTurns
         /\ \A i \in DOMAIN entries :
               turn - entries[i].added < TtlTurns => entries[i].name \in NamesOf(Fresh(turn))
         /\ NamesOf(Fresh(turn)) \subseteq NamesOf(entries)
         /\ Distinct(entries) => Distinct(Fresh(turn))
<1> DEFINE T == {e \in ElementsOf(entries) : turn - e.added < TtlTurns}
<1>1. entries \in Seq(StickyEntries)
  BY DEF SkillsTypeOK
<1>2. \A i \in DOMAIN entries : entries[i] \in T <=> turn - entries[i].added < TtlTurns
  BY DEF ElementsOf
<1>3. Fresh(turn) = Kept(entries, T)
  BY DEF Fresh
<1> HIDE DEF T
<1>4. /\ Kept(entries, T) \in Seq(StickyEntries)
      /\ \A n \in DOMAIN Kept(entries, T) :
            \E i \in DOMAIN entries : Kept(entries, T)[n] = entries[i] /\ entries[i] \in T
      /\ \A i \in DOMAIN entries :
            entries[i] \in T => entries[i].name \in NamesOf(Kept(entries, T))
      /\ NamesOf(Kept(entries, T)) \subseteq NamesOf(entries)
      /\ Distinct(entries) => Distinct(Kept(entries, T))
  BY <1>1, KeptEntries
<1>5. /\ Len(Kept(entries, T)) \in Nat /\ Len(entries) \in Nat
      /\ Len(Kept(entries, T)) <= Len(entries)
  BY <1>1, KeptIsShorter
<1> QED
  BY <1>2, <1>3, <1>4, <1>5

(* The entry added longest ago.                                              *)
LEMMA OldestEntry ==
  ASSUME SkillsTypeOK, NEW k \in DOMAIN entries
  PROVE  \E m \in DOMAIN entries :
            /\ Oldest = entries[m]
            /\ \A i \in DOMAIN entries : entries[m].added <= entries[i].added
<1>1. entries \in Seq(StickyEntries)
  BY DEF SkillsTypeOK
<1>2. \A i \in DOMAIN entries : entries[i].added \in 0 .. LastTurn
  BY <1>1, EntriesList
<1> DEFINE turns == {entries[i].added : i \in DOMAIN entries}
<1>3. turns \in SUBSET Nat /\ turns # {}
  BY <1>2
<1>4. \E x \in turns : \A y \in turns : x <= y
  BY <1>3, LeastOf
<1>5. PICK m \in DOMAIN entries : \A i \in DOMAIN entries : entries[m].added <= entries[i].added
  BY <1>4
<1>6. entries[m] \in AddedFirst
  BY <1>5 DEF AddedFirst, ElementsOf
<1>7. \E i \in DOMAIN entries : entries[i] \in AddedFirst /\ FirstOf(entries, AddedFirst) = entries[i]
  <2>1. \E i \in DOMAIN entries : entries[i] \in AddedFirst
    BY <1>6
  <2> QED
    BY <1>1, <2>1, FirstOfProperties
<1>8. PICK i \in DOMAIN entries : entries[i] \in AddedFirst /\ Oldest = entries[i]
  BY <1>7 DEF Oldest
<1>9. \A j \in DOMAIN entries : entries[i].added <= entries[j].added
  BY <1>8 DEF AddedFirst, ElementsOf
<1> QED
  BY <1>8, <1>9

(* What a mark makes of the memory: at most the entry added longest ago is   *)
(* gone, and only if all places are taken.                                   *)
MarkedSoundly(list, s, turn) ==
    /\ list \in Seq(StickyEntries) /\ Len(list) <= MaxSlots /\ Distinct(list)
    /\ \A n \in DOMAIN list :
          \/ list[n].name = s /\ list[n].added = turn
          \/ list[n].name # s /\ \E i \in DOMAIN entries : list[n] = entries[i]
    /\ s \in NamesOf(list)
    /\ \A k \in DOMAIN entries : entries[k].name \notin NamesOf(list) =>
          /\ Len(entries) = MaxSlots /\ s \notin NamesOf(entries)
          /\ \A i \in DOMAIN entries : entries[k].added <= entries[i].added

(* A newcomer at the end of a list.                                          *)
LEMMA AppendedEntry ==
  ASSUME NEW list \in Seq(StickyEntries), Distinct(list), NEW e \in StickyEntries,
         e.name \notin NamesOf(list)
  PROVE  /\ Append(list, e) \in Seq(StickyEntries) /\ Len(Append(list, e)) = Len(list) + 1
         /\ Distinct(Append(list, e))
         /\ \A n \in DOMAIN Append(list, e) :
               \/ Append(list, e)[n] = e
               \/ Append(list, e)[n].name # e.name
                  /\ \E i \in DOMAIN list : Append(list, e)[n] = list[i]
         /\ NamesOf(Append(list, e)) = NamesOf(list) \cup {e.name}
<1> DEFINE v == Append(list, e)
<1>1. /\ v \in Seq(StickyEntries) /\ Len(v) = Len(list) + 1
      /\ DOMAIN v = 1 .. Len(list) + 1 /\ DOMAIN list = 1 .. Len(list) /\ Len(list) \in Nat
      /\ \A i \in 1 .. Len(list) : v[i] = list[i]
      /\ v[Len(list) + 1] = e
  BY AppendProperties, LenProperties
<1> HIDE DEF v
<1>2. \A i \in DOMAIN list : list[i].name # e.name
  BY DEF NamesOf
<1>3. \A n \in DOMAIN v : n \in DOMAIN list \/ n = Len(list) + 1
  BY <1>1
<1>4. \A n \in DOMAIN list : n \in DOMAIN v
  BY <1>1
<1>5. Distinct(v)
  BY <1>1, <1>2, <1>3 DEF Distinct
<1>6. \A n \in DOMAIN v :
         \/ v[n] = e
         \/ v[n].name # e.name /\ \E i \in DOMAIN list : v[n] = list[i]
  BY <1>1, <1>2, <1>3
<1>7. Len(list) + 1 \in DOMAIN v
  BY <1>1
<1>8. NamesOf(v) = NamesOf(list) \cup {e.name}
  <2>1. NamesOf(v) \subseteq NamesOf(list) \cup {e.name}
    BY <1>6 DEF NamesOf
  <2>2. e.name \in NamesOf(v)
    BY <1>1, <1>7 DEF NamesOf
  <2>3. NamesOf(list) \subseteq NamesOf(v)
    BY <1>1, <1>4 DEF NamesOf
  <2> QED
    BY <2>1, <2>2, <2>3
<1> QED
  BY <1>1, <1>5, <1>6, <1>8 DEF v

(* A mark.                                                                   *)
LEMMA MarkIsSound ==
  ASSUME SkillsTypeOK, Distinct(entries), Len(entries) <= MaxSlots,
         NEW s \in SkillNames, NEW turn \in 0 .. LastTurn
  PROVE  MarkedSoundly(Marked(s, turn), s, turn)
<1> DEFINE new == [name |-> s, added |-> turn]
<1>1. new \in StickyEntries /\ new.name = s /\ new.added = turn
  BY DEF StickyEntries
<1>2. entries \in Seq(StickyEntries)
  BY DEF SkillsTypeOK
<1>3. /\ DOMAIN entries = 1 .. Len(entries) /\ Len(entries) \in Nat
      /\ \A i \in DOMAIN entries : entries[i] \in StickyEntries
  BY <1>2, EntriesList
<1>4. MaxSlots \in Nat \ {0}
  BY SkillsAssumption
<1>5. CASE s \in NamesOf(entries)
  <2> DEFINE v == [i \in DOMAIN entries |-> IF entries[i].name = s THEN new ELSE entries[i]]
  <2>1. Marked(s, turn) = v
    BY <1>5 DEF Marked
  <2> HIDE DEF new
  <2>2. \A i \in DOMAIN entries : v[i] = IF entries[i].name = s THEN new ELSE entries[i]
    OBVIOUS
  <2>3. DOMAIN v = DOMAIN entries /\ v \in [1 .. Len(entries) -> StickyEntries]
    BY <1>1, <1>3
  <2> HIDE DEF v
  <2>4. v \in Seq(StickyEntries)
    BY <1>3, <2>3, SeqDef
  <2>5. Len(v) = Len(entries)
    <3>1. DOMAIN v = 1 .. Len(v) /\ Len(v) \in Nat
      BY <2>4, LenProperties
    <3> QED
      BY <1>3, <2>3, <3>1
  <2>6. \A i \in DOMAIN entries : v[i].name = entries[i].name
    BY <1>1, <2>2
  <2>7. Distinct(v)
    BY <2>3, <2>6 DEF Distinct
  <2>8. NamesOf(v) = NamesOf(entries)
    BY <2>3, <2>6 DEF NamesOf
  <2>9. \A n \in DOMAIN v :
          \/ v[n].name = s /\ v[n].added = turn
          \/ v[n].name # s /\ \E i \in DOMAIN entries : v[n] = entries[i]
    BY <1>1, <2>2, <2>3
  <2>10. \A k \in DOMAIN entries : entries[k].name \in NamesOf(v)
    BY <2>8 DEF NamesOf
  <2> QED
    BY <1>5, <2>1, <2>4, <2>5, <2>7, <2>8, <2>9, <2>10 DEF MarkedSoundly
<1>6. CASE s \notin NamesOf(entries) /\ Len(entries) < MaxSlots
  <2>1. Marked(s, turn) = Append(entries, new)
    BY <1>6 DEF Marked
  <2> HIDE DEF new
  <2> DEFINE v == Append(entries, new)
  <2>2. /\ v \in Seq(StickyEntries) /\ Len(v) = Len(entries) + 1
        /\ Distinct(v)
        /\ \A n \in DOMAIN v :
              \/ v[n] = new
              \/ v[n].name # new.name /\ \E i \in DOMAIN entries : v[n] = entries[i]
        /\ NamesOf(v) = NamesOf(entries) \cup {new.name}
    BY <1>1, <1>2, <1>6, AppendedEntry
  <2> HIDE DEF v
  <2>3. Len(v) <= MaxSlots
    BY <1>3, <1>4, <1>6, <2>2
  <2>4. \A k \in DOMAIN entries : entries[k].name \in NamesOf(v)
    BY <2>2 DEF NamesOf
  <2> QED
    BY <1>1, <2>1, <2>2, <2>3, <2>4 DEF MarkedSoundly, v
<1>7. CASE s \notin NamesOf(entries) /\ ~ (Len(entries) < MaxSlots)
  <2>1. Len(entries) = MaxSlots /\ 1 \in DOMAIN entries
    <3>1. Len(entries) \in Nat /\ Len(entries) <= MaxSlots /\ ~ (Len(entries) < MaxSlots)
      BY <1>3, <1>7
    <3>2. Len(entries) = MaxSlots
      BY <1>4, <3>1
    <3>3. 1 \in 1 .. MaxSlots
      BY <1>4
    <3> QED
      BY <1>3, <3>2, <3>3
  <2>2. PICK m \in DOMAIN entries :
            /\ Oldest = entries[m]
            /\ \A i \in DOMAIN entries : entries[m].added <= entries[i].added
    BY <2>1, OldestEntry
  <2> DEFINE T == ElementsOf(entries) \ {Oldest}
             left == Kept(entries, T)
             v == Append(left, new)
  <2>3. Marked(s, turn) = v
    BY <1>7 DEF Marked
  <2>4. /\ entries[m] \notin T
        /\ \A i \in DOMAIN entries : i # m => entries[i] \in T
    BY <2>2 DEF Distinct, ElementsOf
  <2> HIDE DEF T, new
  <2>5. /\ left \in Seq(StickyEntries)
        /\ \A n \in DOMAIN left :
              \E i \in DOMAIN entries : left[n] = entries[i] /\ entries[i] \in T
        /\ \A i \in DOMAIN entries : entries[i] \in T => entries[i].name \in NamesOf(left)
        /\ NamesOf(left) \subseteq NamesOf(entries)
        /\ Distinct(left)
    BY <1>2, KeptEntries
  <2>6. Len(left) \in Nat /\ Len(left) < Len(entries)
    BY <1>2, <2>4, KeptIsShorter
  <2> HIDE DEF left
  <2>7. new.name \notin NamesOf(left)
    BY <1>1, <1>7, <2>5
  <2>8. /\ v \in Seq(StickyEntries) /\ Len(v) = Len(left) + 1
        /\ Distinct(v)
        /\ \A n \in DOMAIN v :
              \/ v[n] = new
              \/ v[n].name # new.name /\ \E i \in DOMAIN left : v[n] = left[i]
        /\ NamesOf(v) = NamesOf(left) \cup {new.name}
    BY <1>1, <2>5, <2>7, AppendedEntry
  <2> HIDE DEF v
  <2>9. Len(v) <= MaxSlots
    <3>1. MaxSlots \in Nat /\ Len(left) \in Nat /\ Len(left) < MaxSlots /\ Len(v) = Len(left) + 1
      BY <1>4, <2>1, <2>6, <2>8
    <3> QED
      BY <3>1
  <2>10. \A n \in DOMAIN v :
          \/ v[n].name = s /\ v[n].added = turn
          \/ v[n].name # s /\ \E i \in DOMAIN entries : v[n] = entries[i]
    BY <1>1, <2>5, <2>8
  <2>11. ASSUME NEW k \in DOMAIN entries, entries[k].name \notin NamesOf(v)
         PROVE  \A i \in DOMAIN entries : entries[k].added <= entries[i].added
    <3>1. entries[k] \notin T
      BY <2>5, <2>8, <2>11
    <3>2. k = m
      BY <2>4, <3>1
    <3> QED
      BY <2>2, <3>2
  <2>12. s \in NamesOf(v)
    BY <1>1, <2>8
  <2> QED
    BY <1>7, <2>1, <2>3, <2>8, <2>9, <2>10, <2>11, <2>12 DEF MarkedSoundly
<1> QED
  BY <1>5, <1>6, <1>7

(* What is known of the memory, whatever is pinned.                          *)
MemoryKept ==
    /\ Len(entries) <= MaxSlots /\ Distinct(entries)
    /\ \A i \in DOMAIN entries : currentTurn - entries[i].added <= Age(entries[i].name)
    /\ clearedAt = 0 /\ ~ late => \A s \in SkillNames : KeptForItsWindow(s)

(* The turn an entry was added in is no earlier than its last load makes it. *)
LEMMA NoneIsOlder ==
  ASSUME NEW b \in Int, NEW c \in Int, NEW turn \in Int, NEW of \in Int, turn >= of - c
  PROVE  (b - c) - turn <= b - of
OBVIOUS

(* What has expired at the turn that is prepared, or at the next, is         *)
(* forgotten.                                                                *)
Expiry ==
    /\ entries' = Fresh(currentTurn') /\ currentTurn' = begun' - clearedAt
    /\ begun' \in 0 .. LastTurn /\ begun' >= begun
    /\ loadedAt' = loadedAt /\ clearedAt' = clearedAt /\ late' = late

(* The memory stays sound.                                                   *)
LEMMA ExpiryKeepsMemory ==
  ASSUME SkillsTypeOK, TurnsCount, EntriesFollow, MemoryKept, Expiry
  PROVE  EntriesFollow' /\ MemoryKept' /\ entries' \in Seq(StickyEntries)
<1>1. /\ entries' \in Seq(StickyEntries) /\ Len(entries') <= Len(entries)
      /\ Len(entries') \in Nat /\ Len(entries) \in Nat
      /\ \A n \in DOMAIN entries' :
            \E i \in DOMAIN entries :
               entries'[n] = entries[i] /\ currentTurn' - entries[i].added < TtlTurns
      /\ \A i \in DOMAIN entries :
            currentTurn' - entries[i].added < TtlTurns => entries[i].name \in NamesOf(entries')
      /\ Distinct(entries) => Distinct(entries')
  BY FreshEntries DEF Expiry
<1>2. /\ {begun, begun', clearedAt, currentTurn'} \subseteq Int
      /\ loadedAt \in [SkillNames -> 0 .. LastTurn]
      /\ entries \in Seq(StickyEntries)
      /\ \A i \in DOMAIN entries : /\ entries[i].name \in SkillNames
                                   /\ entries[i].added \in Int
      /\ {TtlTurns, MaxSlots} \subseteq Nat
  <2>1. {begun, clearedAt} \subseteq 0 .. LastTurn /\ loadedAt \in [SkillNames -> 0 .. LastTurn]
        /\ entries \in Seq(StickyEntries)
    BY DEF SkillsTypeOK
  <2>2. {begun, begun', clearedAt, currentTurn'} \subseteq Int
    BY <2>1 DEF Expiry
  <2> QED
    BY <2>1, <2>2, EntriesList, SkillsAssumption
<1>3. \A s \in SkillNames : loadedAt[s] \in Int
  BY <1>2
<1>4. \A i \in DOMAIN entries :
        /\ loadedAt[entries[i].name] \in 1 .. begun'
        /\ entries[i].added >= loadedAt[entries[i].name] - clearedAt
        /\ loadedAt[entries[i].name] > clearedAt =>
              entries[i].added = loadedAt[entries[i].name] - clearedAt
  <2> TAKE i \in DOMAIN entries
  <2> DEFINE of == loadedAt[entries[i].name]
  <2>1. /\ of \in 1 .. begun /\ entries[i].added >= of - clearedAt
        /\ of > clearedAt => entries[i].added = of - clearedAt
    BY DEF EntriesFollow, Follows
  <2> HIDE DEF of
  <2>2. ASSUME NEW b \in Int, NEW c \in Int, NEW x \in 1 .. b, c >= b PROVE x \in 1 .. c
    BY <2>2
  <2>3. of \in 1 .. begun'
    <3>1. begun \in Int /\ begun' \in Int /\ begun' >= begun
      BY <1>2 DEF Expiry
    <3> QED
      BY <2>1, <2>2, <3>1
  <2> QED
    BY <2>1, <2>3 DEF of
<1>5. EntriesFollow'
  <2> SUFFICES ASSUME NEW n \in DOMAIN entries'
               PROVE  Follows(entries[n].added, loadedAt[entries[n].name])'
    BY DEF EntriesFollow
  <2>1. PICK i \in DOMAIN entries : entries'[n] = entries[i]
    BY <1>1
  <2> QED
    BY <1>4, <2>1 DEF Follows, Expiry
<1>6. ASSUME NEW n \in DOMAIN entries'
      PROVE  currentTurn' - entries'[n].added <= begun' - loadedAt[entries'[n].name]
  <2>1. PICK i \in DOMAIN entries : entries'[n] = entries[i]
    BY <1>1
  <2>2. /\ entries[i].added \in Int /\ loadedAt[entries[i].name] \in Int
        /\ entries[i].added >= loadedAt[entries[i].name] - clearedAt
    BY <1>2, <1>3, <1>4
  <2>3. (begun' - clearedAt) - entries[i].added <= begun' - loadedAt[entries[i].name]
    BY <1>2, <2>2, NoneIsOlder
  <2> QED
    BY <2>1, <2>3 DEF Expiry
<1>7. ASSUME clearedAt = 0, ~ late, NEW s \in SkillNames, loadedAt[s] > 0,
             begun' - loadedAt[s] < TtlTurns, s \notin NamesOf(entries')
      PROVE  Cardinality(NewerThan(s)) >= MaxSlots
  <2>1. begun - loadedAt[s] < TtlTurns
    <3>1. begun \in Int /\ begun' \in Int /\ loadedAt[s] \in Int /\ TtlTurns \in Int
      BY <1>2, <1>3
    <3> QED
      BY <1>7, <3>1 DEF Expiry
  <2>2. CASE s \notin NamesOf(entries)
    <3>1. KeptForItsWindow(s)
      BY <1>7 DEF MemoryKept
    <3> QED
      BY <1>7, <2>1, <2>2, <3>1 DEF KeptForItsWindow, Age
  <2>3. CASE s \in NamesOf(entries)
    <3>1. PICK i \in DOMAIN entries : entries[i].name = s
      BY <2>3 DEF NamesOf
    <3>2. ~ (currentTurn' - entries[i].added < TtlTurns)
      BY <1>1, <1>7, <3>1
    <3>3. entries[i].added = loadedAt[s] - clearedAt
      BY <1>4, <1>7, <3>1
    <3>4. begun' \in Int /\ loadedAt[s] \in Int /\ clearedAt = 0
      BY <1>2, <1>3, <1>7
    <3>5. begun' - 0 = begun' /\ loadedAt[s] - 0 = loadedAt[s]
      <4>1. \A x \in Int : x - 0 = x
        OBVIOUS
      <4> QED
        BY <3>4, <4>1, Zenon
    <3>6. currentTurn' = begun' /\ entries[i].added = loadedAt[s]
      BY <3>3, <3>4, <3>5, Zenon DEF Expiry
    <3> QED
      BY <1>7, <3>2, <3>6
  <2> QED
    BY <2>2, <2>3
<1>8. Len(entries') <= MaxSlots
  <2>1. /\ Len(entries') \in Int /\ Len(entries) \in Int /\ MaxSlots \in Int
        /\ Len(entries') <= Len(entries)
    BY <1>1, <1>2
  <2>2. Len(entries) <= MaxSlots
    BY DEF MemoryKept
  <2> QED
    BY <2>1, <2>2
<1>9. Distinct(entries')
  BY <1>1 DEF MemoryKept
<1>10. \A s \in SkillNames : NewerThan(s)' = NewerThan(s)
  BY DEF NewerThan, Expiry
<1>11. MemoryKept'
  <2>1. (\A i \in DOMAIN entries : currentTurn - entries[i].added <= Age(entries[i].name))'
    BY <1>6 DEF Age, Expiry
  <2>2. ASSUME clearedAt = 0, ~ late, NEW s \in SkillNames PROVE KeptForItsWindow(s)'
    <3>1. loadedAt' = loadedAt /\ NewerThan(s)' = NewerThan(s)
      BY <1>10 DEF Expiry
    <3>2. Cardinality(NewerThan(s)') = Cardinality(NewerThan(s))
      BY <3>1
    <3> QED
      BY <1>7, <2>2, <3>1, <3>2 DEF KeptForItsWindow, Age
  <2> QED
    BY <1>8, <1>9, <2>1, <2>2 DEF MemoryKept, Distinct, Expiry
<1> QED
  BY <1>1, <1>5, <1>11

(* As many skills are in a list as it is long.                               *)
LEMMA NamesCount ==
  ASSUME NEW list \in Seq(StickyEntries), Distinct(list)
  PROVE  IsFiniteSet(NamesOf(list)) /\ Cardinality(NamesOf(list)) = Len(list)
<1> DEFINE f == [i \in DOMAIN list |-> list[i].name]
<1>1. DOMAIN list = 1 .. Len(list) /\ Len(list) \in Nat
  BY EntriesList
<1>2. f \in Surjection(DOMAIN list, NamesOf(list))
  BY DEF Surjection, NamesOf
<1>3. f \in Injection(DOMAIN list, NamesOf(list))
  BY DEF Injection, IsInjective, NamesOf, Distinct
<1>4. IsFiniteSet(1 .. Len(list)) /\ Cardinality(1 .. Len(list)) = Len(list)
  BY <1>1, FS_Interval
<1> HIDE DEF f
<1>5. /\ IsFiniteSet(NamesOf(list))
      /\ Cardinality(NamesOf(list)) = Cardinality(DOMAIN list) <=>
            f \in Injection(DOMAIN list, NamesOf(list))
  BY <1>1, <1>2, <1>4, FS_Surjection
<1> QED
  BY <1>1, <1>3, <1>4, <1>5

(* One taken out, another put in.                                            *)
LEMMA Exchanged ==
  ASSUME NEW S, IsFiniteSet(S), NEW t \in S, NEW u, u \notin S
  PROVE  Cardinality((S \ {t}) \cup {u}) = Cardinality(S)
<1>1. /\ Cardinality(S) \in Nat /\ IsFiniteSet(S \ {t})
      /\ Cardinality(S \ {t}) = Cardinality(S) - 1
  BY FS_CardinalityType, FS_RemoveElement
<1>2. Cardinality((S \ {t}) \cup {u}) = Cardinality(S \ {t}) + 1
  <2>1. u \notin S \ {t}
    OBVIOUS
  <2> QED
    BY <1>1, <2>1, FS_AddElement
<1> QED
  BY <1>1, <1>2

(* A load that marks its skill: what changes, and what is known of it.       *)
Loads(load) ==
    /\ entries' = Marked(load.name, load.turn)
    /\ loadedAt' = [loadedAt EXCEPT ![load.name] = load.of]
    /\ late' = (late \/ load.of < begun)
    /\ currentTurn' = currentTurn /\ begun' = begun /\ clearedAt' = clearedAt

(* The memory stays sound.                                                   *)
LEMMA LoadKeepsMemory ==
  ASSUME SkillsTypeOK, TurnsCount, LoadsFollow, EntriesFollow, MemoryKept,
         NEW load \in loads, Loads(load)
  PROVE  /\ EntriesFollow' /\ MemoryKept' /\ entries' \in Seq(StickyEntries)
         /\ loadedAt' \in [SkillNames -> 0 .. LastTurn] /\ load.of \in 1 .. begun
         /\ load.name \in SkillNames
         /\ \A s \in SkillNames : loadedAt'[s] = IF s = load.name THEN load.of ELSE loadedAt[s]
         /\ \A s \in NamesOf(entries') : s = load.name \/ s \in NamesOf(entries)
<1>1. /\ load.name \in SkillNames /\ load.turn \in 0 .. LastTurn /\ load.of \in 1 .. LastTurn
      /\ loadedAt \in [SkillNames -> 0 .. LastTurn] /\ entries \in Seq(StickyEntries)
      /\ begun \in 0 .. LastTurn /\ clearedAt \in 0 .. LastTurn
  BY DEF SkillsTypeOK
<1>2. /\ load.turn \in Int /\ load.of \in Int /\ begun \in Int /\ clearedAt \in Int
      /\ \A s \in SkillNames : loadedAt[s] \in Int
  BY <1>1
<1>3. /\ \A s \in SkillNames : loadedAt'[s] = IF s = load.name THEN load.of ELSE loadedAt[s]
      /\ loadedAt' \in [SkillNames -> 0 .. LastTurn]
  <2>1. load.of \in 0 .. LastTurn
    BY <1>1
  <2> QED
    BY <1>1, <2>1 DEF Loads
<1>4. /\ load.of \in 1 .. begun /\ load.turn >= load.of - clearedAt
      /\ load.of > clearedAt => load.turn = load.of - clearedAt
  BY DEF LoadsFollow, Follows
<1>5. MarkedSoundly(entries', load.name, load.turn)
  <2>1. Distinct(entries) /\ Len(entries) <= MaxSlots
    BY DEF MemoryKept
  <2> QED
    BY <1>1, <2>1, MarkIsSound DEF Loads
<1>6. entries' \in Seq(StickyEntries) /\ Len(entries') <= MaxSlots /\ Distinct(entries')
  BY <1>5 DEF MarkedSoundly
<1>7. \A i \in DOMAIN entries' : entries'[i].name \in SkillNames /\ entries'[i].added \in Int
  BY <1>6, EntriesList
<1>8. \A i \in DOMAIN entries : entries[i].name \in SkillNames /\ entries[i].added \in Int
  BY <1>1, EntriesList
<1>9. \A i \in DOMAIN entries :
        /\ loadedAt[entries[i].name] \in 1 .. begun
        /\ entries[i].added >= loadedAt[entries[i].name] - clearedAt
        /\ loadedAt[entries[i].name] > clearedAt =>
              entries[i].added = loadedAt[entries[i].name] - clearedAt
  BY DEF EntriesFollow, Follows
<1>10. ASSUME NEW n \in DOMAIN entries'
       PROVE  /\ loadedAt'[entries'[n].name] \in 1 .. begun
              /\ entries'[n].added >= loadedAt'[entries'[n].name] - clearedAt
              /\ loadedAt'[entries'[n].name] > clearedAt =>
                    entries'[n].added = loadedAt'[entries'[n].name] - clearedAt
  <2>1. CASE entries'[n].name = load.name /\ entries'[n].added = load.turn
    BY <1>1, <1>3, <1>4, <2>1
  <2>2. CASE entries'[n].name # load.name /\ \E i \in DOMAIN entries : entries'[n] = entries[i]
    <3>1. PICK i \in DOMAIN entries : entries'[n] = entries[i]
      BY <2>2
    <3>2. loadedAt'[entries'[n].name] = loadedAt[entries[i].name]
      BY <1>3, <1>7, <2>2, <3>1
    <3> QED
      BY <1>9, <3>1, <3>2
  <2> QED
    BY <1>5, <2>1, <2>2 DEF MarkedSoundly
<1>11. EntriesFollow'
  BY <1>10 DEF EntriesFollow, Follows, Loads
<1>12. ASSUME NEW n \in DOMAIN entries'
       PROVE  currentTurn' - entries'[n].added <= begun' - loadedAt'[entries'[n].name]
  <2>1. loadedAt'[entries'[n].name] \in Int
    BY <1>1, <1>2, <1>3, <1>7
  <2>2. (begun - clearedAt) - entries'[n].added <= begun - loadedAt'[entries'[n].name]
    BY <1>2, <1>7, <1>10, <2>1, NoneIsOlder
  <2> QED
    BY <2>2 DEF TurnsCount, Loads
<1>13. ASSUME clearedAt = 0, ~ late', NEW t \in SkillNames, loadedAt'[t] > 0,
              begun - loadedAt'[t] < TtlTurns, t \notin NamesOf(entries')
       PROVE  Cardinality(NewerThan(t)') >= MaxSlots
  <2>1. t # load.name /\ loadedAt'[t] = loadedAt[t]
    BY <1>3, <1>5, <1>13 DEF MarkedSoundly
  <2>2. load.of = begun
    <3>1. ~ (load.of < begun) /\ ~ late
      BY <1>13 DEF Loads
    <3> QED
      BY <1>2, <1>4, <3>1
  <2> DEFINE newer == NewerThan(t)'
  <2>3. \A u : u \in newer <=> u \in SkillNames \ {t} /\ loadedAt'[u] >= loadedAt[t]
    BY <2>1 DEF NewerThan
  <2> HIDE DEF newer
  <2>4. load.name \in newer
    <3>1. loadedAt[t] <= begun
      BY DEF TurnsCount
    <3>2. loadedAt'[load.name] >= loadedAt[t]
      BY <1>1, <1>2, <1>3, <2>2, <3>1
    <3> QED
      BY <1>1, <2>1, <2>3, <3>2
  <2>5. \A u \in SkillNames \ {t} : loadedAt[u] >= loadedAt[t] => u \in newer
    BY <1>3, <2>3, <2>4
  <2>6. IsFiniteSet(newer) /\ Cardinality(newer) \in Nat
    <3>1. newer \in SUBSET SkillNames
      BY <2>3
    <3> QED
      BY <3>1, SkillsAssumption, FS_Subset, FS_CardinalityType
  <2>7. MaxSlots \in Nat
    BY SkillsAssumption
  <2>8. CASE t \notin NamesOf(entries)
    <3>1. Cardinality(NewerThan(t)) >= MaxSlots
      <4>1. KeptForItsWindow(t)
        BY <1>13 DEF MemoryKept, Loads
      <4> QED
        BY <1>13, <2>1, <2>8, <4>1 DEF KeptForItsWindow, Age
    <3>2. NewerThan(t) \in SUBSET newer
      BY <2>5 DEF NewerThan
    <3>3. Cardinality(NewerThan(t)) <= Cardinality(newer) /\ Cardinality(NewerThan(t)) \in Nat
      BY <2>6, <3>2, FS_Subset, FS_CardinalityType
    <3>4. Cardinality(newer) >= MaxSlots
      BY <2>6, <2>7, <3>1, <3>3
    <3> QED
      BY <3>4 DEF newer
  <2>9. CASE t \in NamesOf(entries)
    <3>1. PICK k \in DOMAIN entries : entries[k].name = t
      BY <2>9 DEF NamesOf
    <3>2. /\ Len(entries) = MaxSlots /\ load.name \notin NamesOf(entries)
          /\ \A i \in DOMAIN entries : entries[k].added <= entries[i].added
      BY <1>5, <1>13, <3>1 DEF MarkedSoundly
    <3>3. ASSUME NEW i \in DOMAIN entries
          PROVE  loadedAt[entries[i].name] = entries[i].added
      <4>1. loadedAt[entries[i].name] \in 1 .. begun /\ loadedAt[entries[i].name] \in Int
        BY <1>2, <1>8, <1>9
      <4>2. loadedAt[entries[i].name] > clearedAt
        BY <1>13, <4>1
      <4>3. entries[i].added = loadedAt[entries[i].name] - clearedAt
        BY <1>9, <4>2
      <4>4. \A x \in Int : x - 0 = x
        OBVIOUS
      <4> QED
        BY <1>13, <4>1, <4>3, <4>4, Zenon
    <3>4. ASSUME NEW u \in NamesOf(entries) \ {t} PROVE u \in newer
      <4>1. PICK i \in DOMAIN entries : entries[i].name = u
        BY <3>4 DEF NamesOf
      <4>2. loadedAt[u] = entries[i].added /\ loadedAt[t] = entries[k].added
        BY <3>1, <3>3, <4>1
      <4>3. loadedAt[u] >= loadedAt[t]
        BY <1>8, <3>2, <4>2
      <4> QED
        BY <1>8, <2>5, <3>4, <4>1, <4>3
    <3> DEFINE names == NamesOf(entries)
    <3>5. IsFiniteSet(names) /\ Cardinality(names) = MaxSlots
      <4>1. Distinct(entries)
        BY DEF MemoryKept
      <4> QED
        BY <1>1, <3>2, <4>1, NamesCount
    <3>6. Cardinality((names \ {t}) \cup {load.name}) = MaxSlots
      BY <2>9, <3>2, <3>5, Exchanged
    <3>7. (names \ {t}) \cup {load.name} \in SUBSET newer
      BY <2>4, <3>4
    <3>8. Cardinality((names \ {t}) \cup {load.name}) <= Cardinality(newer)
      BY <2>6, <3>7, FS_Subset
    <3>9. Cardinality(newer) >= MaxSlots
      BY <2>6, <2>7, <3>6, <3>8
    <3> QED
      BY <3>9 DEF newer
  <2> QED
    BY <2>8, <2>9
<1>14. MemoryKept'
  <2>1. (\A i \in DOMAIN entries : currentTurn - entries[i].added <= Age(entries[i].name))'
    BY <1>12 DEF Age
  <2>2. ASSUME clearedAt' = 0, ~ late', NEW t \in SkillNames PROVE KeptForItsWindow(t)'
    <3>1. clearedAt = 0 /\ begun' = begun
      BY <2>2 DEF Loads
    <3> QED
      BY <1>13, <2>2, <3>1 DEF KeptForItsWindow, Age
  <2> QED
    BY <1>6, <2>1, <2>2 DEF MemoryKept, Distinct
<1>15. \A s \in NamesOf(entries') : s = load.name \/ s \in NamesOf(entries)
  BY <1>5 DEF MarkedSoundly, NamesOf
<1> QED
  BY <1>1, <1>3, <1>4, <1>6, <1>11, <1>14, <1>15

(* What a set of pins costs is a number, and no less for a larger set.       *)
LEMMA CostGrows ==
  ASSUME NEW B \in SUBSET Pins, IsFiniteSet(B), NEW A \in SUBSET B
  PROVE  Cost(A) \in Nat /\ Cost(B) \in Nat /\ Cost(A) <= Cost(B)
<1> DEFINE texts(set) == {Text(p) : p \in set}
<1>1. ASSUME NEW p \in B PROVE IsFiniteSet(Text(p))
  <2>1. Tokens[p.name] \in Nat
    BY SkillsAssumption DEF Pins
  <2>2. IsFiniteSet(1 .. Tokens[p.name]) /\ IsFiniteSet({p})
    <3>1. \A n \in Nat : IsFiniteSet(1 .. n)
      BY FS_Interval
    <3> QED
      BY <2>1, <3>1, FS_Singleton, Zenon
  <2> QED
    BY <2>2, FS_Product DEF Text
<1>2. IsFiniteSet(texts(B)) /\ \A T \in texts(B) : IsFiniteSet(T)
  <2> DEFINE f == [p \in B |-> Text(p)]
  <2>1. f \in Surjection(B, texts(B))
    BY DEF Surjection
  <2> HIDE DEF f
  <2>2. IsFiniteSet(texts(B))
    BY <2>1, FS_Surjection
  <2> QED
    BY <1>1, <2>2
<1>3. IsFiniteSet(UNION texts(B))
  BY <1>2, FS_UNION
<1>4. UNION texts(A) \in SUBSET (UNION texts(B))
  OBVIOUS
<1>5. /\ Cardinality(UNION texts(A)) <= Cardinality(UNION texts(B))
      /\ Cardinality(UNION texts(A)) \in Nat /\ Cardinality(UNION texts(B)) \in Nat
  <2> HIDE DEF texts
  <2> QED
    BY <1>3, <1>4, FS_Subset, FS_CardinalityType
<1> QED
  BY <1>5 DEF Cost

(* Of a kind and a skill, one pin.                                           *)
Single(set) == \A p, q \in set : p.kind = q.kind /\ p.name = q.name => p = q

(* Such pins are finitely many.                                              *)
LEMMA PinsAreFinite ==
  ASSUME NEW set \in SUBSET Pins, Single(set)
  PROVE  IsFiniteSet(set)
<1> DEFINE kinds == {"asked"} \cup {"sticky"} \cup {"promoted"}
           f == [p \in set |-> <<p.name, p.kind>>]
<1>1. IsFiniteSet(kinds)
  BY FS_Singleton, FS_Union
<1>2. \A p \in set : p.name \in SkillNames /\ p.kind \in kinds
  BY DEF Pins
<1>3. f \in Injection(set, SkillNames \X kinds)
  BY <1>2 DEF Injection, IsInjective, Single
<1>4. IsFiniteSet(SkillNames \X kinds)
  BY <1>1, SkillsAssumption, FS_Product
<1> HIDE DEF f, kinds
<1> QED
  BY <1>3, <1>4, FS_Injection

(* The sort by age orders the pins that may be dropped.                      *)
LEMMA SoonerOrders ==
  ASSUME NEW set \in SUBSET Pins
  PROVE  PartialOrder({pq \in (set \ AskedOf(set)) \X (set \ AskedOf(set)) : Sooner(pq[1], pq[2])},
                      set \ AskedOf(set))
<1> DEFINE S == set \ AskedOf(set)
           B == {pq \in S \X S : Sooner(pq[1], pq[2])}
<1>1. \A p, q \in S : <<p, q>> \in B <=> Sooner(p, q)
  OBVIOUS
<1>2. \A p \in S : p.kind \in {"sticky", "promoted"} /\ p.added \in Int /\ p.place \in Int
  <2>1. \A p \in Pins : p.kind \in {"asked", "sticky", "promoted"} /\ p.added \in Int
                        /\ p.place \in Int
    BY DEF Pins
  <2> QED
    BY <2>1 DEF AskedOf
<1> HIDE DEF S, B
<1>3. \A p \in S : ~ Sooner(p, p)
  BY <1>2 DEF Sooner
<1>4. ASSUME NEW p \in S, NEW q \in S, NEW r \in S, Sooner(p, q), Sooner(q, r)
      PROVE  Sooner(p, r)
  <2>1. /\ p.added \in Int /\ q.added \in Int /\ r.added \in Int
        /\ p.place \in Int /\ q.place \in Int /\ r.place \in Int
    BY <1>2
  <2>2. p.added <= q.added /\ q.added <= r.added
    BY <1>4, <2>1 DEF Sooner
  <2>3. CASE p.added < q.added \/ q.added < r.added
    <3>1. p.added < r.added
      BY <2>1, <2>2, <2>3
    <3> QED
      BY <3>1 DEF Sooner
  <2>4. CASE p.added = q.added /\ q.added = r.added
    <3>1. ~ (p.added < q.added) /\ ~ (q.added < r.added)
      BY <2>1, <2>4
    <3>2. /\ \/ p.kind = "sticky" /\ q.kind = "promoted"
             \/ p.kind = q.kind /\ p.place < q.place
          /\ \/ q.kind = "sticky" /\ r.kind = "promoted"
             \/ q.kind = r.kind /\ q.place < r.place
      BY <1>4, <3>1 DEF Sooner
    <3>3. CASE p.kind = q.kind /\ q.kind = r.kind
      <4>1. p.place < q.place /\ q.place < r.place
        BY <3>2, <3>3
      <4>2. p.place < r.place
        BY <2>1, <4>1
      <4> QED
        BY <2>4, <3>3, <4>2 DEF Sooner
    <3>4. CASE ~ (p.kind = q.kind /\ q.kind = r.kind)
      <4>1. p.kind = "sticky" /\ r.kind = "promoted"
        BY <3>2, <3>4
      <4> QED
        BY <2>4, <4>1 DEF Sooner
    <3> QED
      BY <3>3, <3>4
  <2> QED
    BY <2>1, <2>2, <2>3, <2>4
<1>5. PartialOrder(B, S)
  BY <1>1, <1>3, <1>4 DEF PartialOrder
<1> QED
  BY <1>5 DEF S, B

(* What is given of the pins.                                                *)
GivenOf(set) == AskedOf(set) \cup {p \in set \ AskedOf(set) : Fits(p, set)}

(* It is within the budget, if those asked for are.                          *)
LEMMA BudgetIsKept ==
  ASSUME NEW set \in SUBSET Pins, IsFiniteSet(set), Cost(AskedOf(set)) <= T0Limit
  PROVE  Cost(GivenOf(set)) <= T0Limit
<1> DEFINE S == set \ AskedOf(set)
           B == {pq \in S \X S : Sooner(pq[1], pq[2])}
           L == {p \in S : Fits(p, set)}
<1>1. CASE L = {}
  <2>1. GivenOf(set) = AskedOf(set)
    BY <1>1 DEF GivenOf
  <2> QED
    BY <2>1
<1>2. CASE L # {}
  <2>1. PartialOrder(B, S)
    BY SoonerOrders
  <2>2. L \in SUBSET S /\ S \in SUBSET set
    OBVIOUS
  <2>3. \A p, q \in S : <<p, q>> \in B <=> Sooner(p, q)
    OBVIOUS
  <2> HIDE DEF B, L, S
  <2>4. PartialOrder(B, L)
    BY <2>1, <2>2 DEF PartialOrder
  <2>5. IsFiniteSet(L)
    <3>1. L \in SUBSET set
      BY <2>2
    <3> QED
      BY <3>1, FS_Subset
  <2>6. \E m \in L : \A p \in L : <<p, m>> \notin B
    BY <1>2, <2>4, <2>5, SomeIsFirst
  <2>7. PICK m \in L : \A p \in L : ~ Sooner(p, m)
    BY <2>2, <2>3, <2>6
  <2> DEFINE rest == AskedOf(set) \cup {q \in S : ~ Sooner(q, m)}
  <2>8. Cost(rest) <= T0Limit
    BY <2>7 DEF L, Fits, S
  <2>9. GivenOf(set) \in SUBSET rest
    BY <2>7 DEF GivenOf, L, S
  <2>10. rest \in SUBSET set
    BY DEF AskedOf, S
  <2>11. rest \in SUBSET Pins /\ IsFiniteSet(rest)
    BY <2>10, FS_Subset
  <2> HIDE DEF rest
  <2>12. /\ Cost(GivenOf(set)) \in Int /\ Cost(rest) \in Int
         /\ Cost(GivenOf(set)) <= Cost(rest)
    BY <2>9, <2>11, CostGrows
  <2>13. T0Limit \in Int
    BY SkillsAssumption
  <2> QED
    BY <2>8, <2>12, <2>13
<1> QED
  BY <1>1, <1>2

(* What is dropped had no room beside those of its age or younger.           *)
LEMMA DroppedForRoom ==
  ASSUME NEW set \in SUBSET Pins, IsFiniteSet(set), NEW p \in set \ AskedOf(set),
         ~ Fits(p, set)
  PROVE  Cost({q \in set : q.kind = "asked" \/ q.added >= p.added}) > T0Limit
<1> DEFINE A == AskedOf(set) \cup {q \in set \ AskedOf(set) : ~ Sooner(q, p)}
           B == {q \in set : q.kind = "asked" \/ q.added >= p.added}
<1>1. \A q \in set : q.added \in Int
  BY DEF Pins
<1>2. \A q \in set : ~ Sooner(q, p) => q.added >= p.added
  BY <1>1 DEF Sooner
<1>3. A \in SUBSET B
  BY <1>2 DEF AskedOf
<1>4. B \in SUBSET Pins /\ IsFiniteSet(B)
  <2>1. B \in SUBSET set
    OBVIOUS
  <2> HIDE DEF B
  <2> QED
    BY <2>1, FS_Subset
<1>5. ~ (Cost(A) <= T0Limit)
  BY DEF Fits
<1> HIDE DEF A, B
<1>6. Cost(A) \in Int /\ Cost(B) \in Int /\ Cost(A) <= Cost(B)
  BY <1>3, <1>4, CostGrows
<1>7. T0Limit \in Int
  BY SkillsAssumption
<1>8. Cost(B) > T0Limit
  BY <1>5, <1>6, <1>7
<1> QED
  BY <1>8 DEF B

(* The sets of skills.                                                       *)
LEMMA SkillSets ==
  ASSUME SkillsTypeOK
  PROVE  /\ View \subseteq SkillNames /\ Asked \subseteq SkillNames
         /\ Candidates \subseteq View /\ Promoted \subseteq Candidates
         /\ AskedPins \in SUBSET Pins
         /\ \A p \in AskedPins : p.kind = "asked" /\ p.name \in Asked
         /\ \A s \in Asked : \E p \in AskedPins : p.name = s
<1>1. /\ external \subseteq SkillNames /\ Registered \subseteq SkillNames
      /\ input.explicit \subseteq SkillNames
  <2>1. input \in Inputs /\ external \in SUBSET (SkillNames \ Registered)
    BY DEF SkillsTypeOK
  <2> QED
    BY <2>1, SkillsAssumption
<1>2. View \subseteq SkillNames
  BY <1>1 DEF View
<1>3. Asked \subseteq SkillNames
  BY <1>1, <1>2 DEF Asked, Explicit, Pinned
<1>4. Candidates \subseteq View /\ Promoted \subseteq Candidates
  BY DEF Candidates, Promoted
<1>5. \A s \in Asked : Pin(s, "asked", 0, 0) \in Pins
  <2>1. 0 \in 0 .. LastTurn
    BY SkillsAssumption
  <2> QED
    BY <1>3, <2>1 DEF Pin, Pins
<1>6. \A s \in Asked : Pin(s, "asked", 0, 0).kind = "asked" /\ Pin(s, "asked", 0, 0).name = s
  BY DEF Pin
<1> QED
  BY <1>2, <1>3, <1>4, <1>5, <1>6 DEF AskedPins

(* What is excluded is neither pinned by the decision nor a candidate.       *)
LEMMA ExcludedIsOut ==
  ASSUME NEW s \in input.exclude
  PROVE  s \notin Candidates /\ (s \in Asked => s \in input.explicit)
<1>1. Decision(s) = "exclude"
  BY DEF Decision
<1> QED
  BY <1>1 DEF Candidates, Asked, Explicit, Pinned

(* The contributions to a candidate: its first, and its best score.          *)
LEMMA ScoresOfCandidate ==
  ASSUME SkillsTypeOK, NEW s \in Candidates
  PROVE  /\ PlaceOf(s) \in Nat /\ PlaceOf(s) \in ScoresOf(s) /\ Score(s) \in Nat
<1>1. scored \in Seq(Scores)
  BY DEF SkillsTypeOK
<1>2. DOMAIN scored = 1 .. Len(scored) /\ Len(scored) \in Nat
  BY <1>1, LenProperties
<1>3. \A i \in DOMAIN scored : scored[i] \in Scores
  BY <1>1, <1>2, ElementOfSeq
<1>4. ScoresOf(s) # {}
  <2>1. Decision(s) = "semantic"
    BY DEF Candidates
  <2>2. s \in NamesOf(scored)
    BY <2>1 DEF Decision
  <2> QED
    BY <2>2 DEF NamesOf, ScoresOf
<1>5. ScoresOf(s) \in SUBSET (DOMAIN scored) /\ IsFiniteSet(ScoresOf(s))
  <2>1. ScoresOf(s) \in SUBSET (1 .. Len(scored))
    BY <1>2 DEF ScoresOf
  <2>2. IsFiniteSet(1 .. Len(scored))
    BY <1>2, FS_Interval
  <2> QED
    BY <1>2, <2>1, <2>2, FS_Subset
<1>6. PlaceOf(s) \in ScoresOf(s)
  <2>1. ScoresOf(s) \in SUBSET Nat
    BY <1>2, <1>5
  <2>2. \E i \in ScoresOf(s) : \A j \in ScoresOf(s) : i <= j
    BY <1>4, <2>1, LeastOf
  <2> QED
    BY <2>2 DEF PlaceOf
<1>7. PlaceOf(s) \in Nat
  BY <1>2, <1>5, <1>6
<1>8. \A i \in ScoresOf(s) : scored[i].score \in Nat
  BY <1>3, <1>5 DEF Scores
<1>9. Score(s) \in Nat
  <2> DEFINE D == ScoresOf(s)
             B == {ij \in D \X D : scored[ij[1]].score > scored[ij[2]].score}
  <2>1. \A i, j \in D : <<i, j>> \in B <=> scored[i].score > scored[j].score
    OBVIOUS
  <2> HIDE DEF B
  <2>2. PartialOrder(B, D)
    <3>1. \A i \in D : ~ (scored[i].score > scored[i].score)
      BY <1>8
    <3>2. \A i, j, k \in D : scored[i].score > scored[j].score /\ scored[j].score > scored[k].score
                                => scored[i].score > scored[k].score
      BY <1>8
    <3> QED
      BY <2>1, <3>1, <3>2 DEF PartialOrder
  <2> HIDE DEF D
  <2>3. \E m \in D : \A i \in D : <<i, m>> \notin B
    BY <1>4, <1>5, <2>2, SomeIsFirst DEF D
  <2>4. \E m \in ScoresOf(s) : \A j \in ScoresOf(s) : scored[j].score <= scored[m].score
    <3>1. PICK m \in D : \A i \in D : <<i, m>> \notin B
      BY <2>3
    <3>2. ASSUME NEW j \in D PROVE scored[j].score <= scored[m].score
      <4>1. ~ (scored[j].score > scored[m].score)
        BY <2>1, <3>1
      <4>2. scored[j].score \in Nat /\ scored[m].score \in Nat
        BY <1>8 DEF D
      <4> QED
        BY <4>1, <4>2
    <3> QED
      BY <3>2 DEF D
  <2> DEFINE best == CHOOSE i \in ScoresOf(s) :
                       \A j \in ScoresOf(s) : scored[j].score <= scored[i].score
  <2>5. best \in ScoresOf(s)
    BY <2>4
  <2>6. Score(s) = scored[best].score
    BY DEF Score
  <2> HIDE DEF best
  <2> QED
    BY <1>8, <2>5, <2>6
<1> QED
  BY <1>6, <1>7, <1>9

(* Candidates with better scores come first, and those with the same score   *)
(* by their places, one way or the other.                                    *)
LEMMA CandidatesAreOrdered ==
  ASSUME SkillsTypeOK, NEW C \in SUBSET Candidates
  PROVE  /\ StrictOrder({st \in C \X C : Before(st[1], st[2])}, C)
         /\ StrictOrder({st \in C \X C : Outlasts(st[1], st[2])}, C)
<1>1. \A s \in C : Score(s) \in Int /\ PlaceOf(s) \in Int
  BY ScoresOfCandidate
<1>2. \A s, t \in C : PlaceOf(s) = PlaceOf(t) => s = t
  <2> SUFFICES ASSUME NEW s \in C, NEW t \in C, PlaceOf(s) = PlaceOf(t) PROVE s = t
    OBVIOUS
  <2>1. PlaceOf(s) \in ScoresOf(s) /\ PlaceOf(t) \in ScoresOf(t)
    BY ScoresOfCandidate
  <2> QED
    BY <2>1 DEF ScoresOf
<1> DEFINE B == {st \in C \X C : Before(st[1], st[2])}
           O == {st \in C \X C : Outlasts(st[1], st[2])}
<1>3. \A s, t \in C : <<s, t>> \in B <=> Before(s, t)
  OBVIOUS
<1>4. \A s, t \in C : <<s, t>> \in O <=> Outlasts(s, t)
  OBVIOUS
<1>5. B \in SUBSET (C \X C) /\ O \in SUBSET (C \X C)
  OBVIOUS
<1> HIDE DEF B, O
<1>6. \A s \in C : ~ Before(s, s) /\ ~ Outlasts(s, s)
  BY <1>1 DEF Before, Outlasts
<1>7. ASSUME NEW s \in C, NEW t \in C, s # t
      PROVE  (Before(s, t) \/ Before(t, s)) /\ (Outlasts(s, t) \/ Outlasts(t, s))
  <2>1. /\ Score(s) \in Int /\ PlaceOf(s) \in Int /\ Score(t) \in Int /\ PlaceOf(t) \in Int
        /\ PlaceOf(s) # PlaceOf(t)
    BY <1>1, <1>2, <1>7
  <2> QED
    BY <2>1 DEF Before, Outlasts
<1>8. ASSUME NEW s \in C, NEW t \in C, NEW u \in C
      PROVE  /\ Before(s, t) /\ Before(t, u) => Before(s, u)
             /\ Outlasts(s, t) /\ Outlasts(t, u) => Outlasts(s, u)
  <2>1. /\ Score(s) \in Int /\ PlaceOf(s) \in Int /\ Score(t) \in Int /\ PlaceOf(t) \in Int
        /\ Score(u) \in Int /\ PlaceOf(u) \in Int
    BY <1>1
  <2> QED
    BY <2>1 DEF Before, Outlasts
<1>9. StrictOrder(B, C)
  BY <1>3, <1>5, <1>6, <1>7, <1>8 DEF StrictOrder
<1>10. StrictOrder(O, C)
  BY <1>4, <1>5, <1>6, <1>7, <1>8 DEF StrictOrder
<1> QED
  BY <1>9, <1>10 DEF B, O

(* What is listed of candidates is within both limits.                       *)
LEMMA ListedIsShort ==
  ASSUME SkillsTypeOK, NEW C \in SUBSET Candidates
  PROVE  /\ Listed(Ranked(C)) \in SUBSET C /\ IsFiniteSet(Listed(Ranked(C)))
         /\ Cardinality(Listed(Ranked(C))) <= TopK
         /\ Listed(Ranked(C)) = {} \/ Cardinality(Listed(Ranked(C))) <= T1Limit
<1> DEFINE R == Ranked(C)
           L == Listed(R)
<1>1. R \in SUBSET C
  BY DEF Ranked
<1>2. L \in SUBSET R
  BY DEF Listed
<1>3. IsFiniteSet(C)
  <2>1. C \in SUBSET SkillNames
    BY SkillSets
  <2> QED
    BY <2>1, SkillsAssumption, FS_Subset
<1>4. TopK \in Nat /\ T1Limit \in Int
  BY SkillsAssumption
<1>5. Cardinality(R) <= TopK
  <2> DEFINE B == {st \in C \X C : Before(st[1], st[2])}
  <2>1. StrictOrder(B, C)
    BY CandidatesAreOrdered
  <2>2. \A s \in C : {t \in C : <<t, s>> \in B} = {t \in C : Before(t, s)}
    OBVIOUS
  <2> HIDE DEF B
  <2>3. Cardinality({s \in C : Cardinality({t \in C : <<t, s>> \in B}) < TopK}) <= TopK
    BY <1>3, <1>4, <2>1, FewAreBest
  <2>4. R = {s \in C : Cardinality({t \in C : <<t, s>> \in B}) < TopK}
    BY <2>2 DEF Ranked
  <2> QED
    BY <2>3, <2>4
<1> HIDE DEF R
<1>6. ASSUME T1Limit \in Nat PROVE Cardinality(L) <= T1Limit
  <2> DEFINE O == {st \in R \X R : Outlasts(st[1], st[2])}
  <2>1. R \in SUBSET Candidates /\ IsFiniteSet(R)
    BY <1>1, <1>3, FS_Subset
  <2>2. StrictOrder(O, R)
    BY <2>1, CandidatesAreOrdered
  <2>3. \A s \in R : {t \in R : <<t, s>> \in O} = {t \in R : Outlasts(t, s)}
    OBVIOUS
  <2> HIDE DEF O
  <2>4. Cardinality({s \in R : Cardinality({t \in R : <<t, s>> \in O}) < T1Limit}) <= T1Limit
    BY <1>6, <2>1, <2>2, FewAreBest
  <2>5. L = {s \in R : Cardinality({t \in R : <<t, s>> \in O}) < T1Limit}
    BY <2>3 DEF Listed
  <2> QED
    BY <2>4, <2>5
<1>7. ASSUME T1Limit \notin Nat PROVE L = {}
  <2> SUFFICES ASSUME NEW s \in L PROVE FALSE
    OBVIOUS
  <2>1. Cardinality({t \in R : Outlasts(t, s)}) < T1Limit
    BY DEF Listed
  <2>2. IsFiniteSet({t \in R : Outlasts(t, s)})
    <3>1. {t \in R : Outlasts(t, s)} \in SUBSET C
      BY <1>1
    <3> QED
      BY <1>3, <3>1, FS_Subset
  <2>3. Cardinality({t \in R : Outlasts(t, s)}) \in Nat
    BY <2>2, FS_CardinalityType
  <2> QED
    BY <1>4, <1>7, <2>1, <2>3
<1> HIDE DEF L
<1>8. L \in SUBSET C /\ IsFiniteSet(L) /\ IsFiniteSet(R)
  BY <1>1, <1>2, <1>3, FS_Subset
<1>9. Cardinality(L) <= Cardinality(R) /\ Cardinality(L) \in Int /\ Cardinality(R) \in Int
  BY <1>2, <1>8, FS_Subset, FS_CardinalityType
<1>10. Cardinality(L) <= TopK
  BY <1>4, <1>5, <1>9
<1> QED
  BY <1>6, <1>7, <1>8, <1>10 DEF L, R

-----------------------------------------------------------------------------
(* Until something is pinned there is nothing to say but of the memory.      *)
Unpinned ==
    /\ step \in {"idle", "listed", "recalled"} /\ pins = {} /\ result = Nothing
    /\ SkillsTypeOK /\ TurnsCount /\ LoadsFollow /\ EntriesFollow /\ MemoryKept

(* It is an invariant state then.                                            *)
LEMMA UnpinnedIInv == Unpinned => SkillIInv
<1> SUFFICES ASSUME Unpinned PROVE SkillIInv
  OBVIOUS
<1>1. PinsFollow
  BY DEF Unpinned, PinsFollow
<1>2. ResultFollows
  BY DEF Unpinned, ResultFollows, Nothing
<1>3. MemorySound
  BY DEF Unpinned, MemorySound, MemoryKept, Distinct, StickyThen
<1>4. SkillsSound
  BY <1>3 DEF SkillsSound, Unpinned
<1> QED
  BY <1>1, <1>2, <1>4 DEF SkillIInv, Unpinned

(* The parts of the invariant that steps start from.                         *)
LEMMA SkillParts ==
  ASSUME SkillIInv
  PROVE  /\ SkillsTypeOK /\ TurnsCount /\ LoadsFollow /\ EntriesFollow /\ MemoryKept
         /\ PinsFollow /\ ResultFollows
         /\ \A s \in StickyThen : Age(s) < TtlTurns \/ clearedAt >= loadedAt[s] \/ late
         /\ step = "ready" /\ result.failed => Cost(AskedPins) > T0Limit
         /\ step = "ready" /\ ~ result.failed => TurnPrepared
  BY DEF SkillIInv, SkillsSound, MemorySound, MemoryKept, Distinct

(* The numbers of the turns.                                                 *)
LEMMA TurnNumbers ==
  ASSUME SkillsTypeOK, TurnsCount
  PROVE  /\ {currentTurn, begun, clearedAt, LastTurn} \subseteq Nat
         /\ begun <= LastTurn /\ clearedAt <= begun /\ currentTurn = begun - clearedAt
         /\ currentTurn <= begun
         /\ step # "idle" => currentTurn > 0 /\ begun > 0
         /\ \A s \in SkillNames : loadedAt[s] \in 0 .. begun
<1>1. /\ currentTurn \in 0 .. LastTurn /\ begun \in 0 .. LastTurn /\ clearedAt \in 0 .. LastTurn
      /\ loadedAt \in [SkillNames -> 0 .. LastTurn] /\ LastTurn \in Nat
  BY SkillsAssumption DEF SkillsTypeOK
<1>2. currentTurn = begun - clearedAt /\ (step # "idle" => currentTurn > 0)
  BY DEF TurnsCount
<1>3. currentTurn \in Nat /\ begun \in Nat /\ clearedAt \in Nat /\ begun <= LastTurn
  BY <1>1
<1>4. clearedAt <= begun /\ currentTurn <= begun /\ (currentTurn > 0 => begun > 0)
  BY <1>2, <1>3
<1>5. ASSUME NEW s \in SkillNames PROVE loadedAt[s] \in 0 .. begun
  <2>1. loadedAt[s] \in 0 .. LastTurn /\ loadedAt[s] <= begun
    BY <1>1 DEF TurnsCount
  <2> QED
    BY <1>3, <2>1
<1> QED
  BY <1>1, <1>2, <1>3, <1>4, <1>5

(* The loads under way are of turns that have begun.                         *)
LEMMA LoadsStillFollow ==
  ASSUME SkillsTypeOK, LoadsFollow, begun' \in Nat, begun' >= begun, clearedAt' = clearedAt,
         loads' \subseteq loads
  PROVE  LoadsFollow'
<1>1. begun \in Int /\ begun' \in Int
  BY DEF SkillsTypeOK
<1>2. ASSUME NEW load \in loads'
      PROVE  /\ load.of \in 1 .. begun' /\ load.turn >= load.of - clearedAt'
             /\ load.of > clearedAt' => load.turn = load.of - clearedAt'
  <2>1. /\ load.of \in 1 .. begun /\ load.turn >= load.of - clearedAt
        /\ load.of > clearedAt => load.turn = load.of - clearedAt
    BY <1>2 DEF LoadsFollow, Follows
  <2>2. load.of \in 1 .. begun'
    BY <1>1, <2>1
  <2> QED
    BY <2>1, <2>2
<1> QED
  BY <1>2 DEF LoadsFollow, Follows

(* A turn begins.                                                            *)
LEMMA TurnBeginsStep ==
  ASSUME SkillIInv, TurnBegins
  PROVE  Unpinned'
<1>1. /\ SkillsTypeOK /\ TurnsCount /\ LoadsFollow /\ EntriesFollow /\ MemoryKept
  BY SkillParts
<1>2. /\ {currentTurn, begun, clearedAt, LastTurn} \subseteq Nat
      /\ begun <= LastTurn /\ clearedAt <= begun /\ currentTurn = begun - clearedAt
      /\ currentTurn <= begun
      /\ \A s \in SkillNames : loadedAt[s] \in 0 .. begun
  BY <1>1, TurnNumbers
<1>3. /\ begun < LastTurn /\ currentTurn' = currentTurn + 1 /\ begun' = begun + 1
      /\ input' \in Inputs /\ entries' = Fresh(currentTurn')
      /\ external' \in SUBSET (NamesOf(entries') \ Registered)
      /\ step' = "listed" /\ scored' = <<>> /\ pins' = {} /\ result' = Nothing
      /\ loads' = loads /\ loadedAt' = loadedAt /\ clearedAt' = clearedAt /\ late' = late
  BY DEF TurnBegins
<1>4. /\ currentTurn' = begun' - clearedAt /\ currentTurn' > 0
      /\ currentTurn' \in 0 .. LastTurn /\ begun' \in 0 .. LastTurn /\ begun' >= begun
      /\ begun' \in Nat
  <2>1. /\ currentTurn \in Nat /\ begun \in Nat /\ clearedAt \in Nat /\ LastTurn \in Nat
        /\ begun < LastTurn /\ currentTurn <= begun
        /\ currentTurn' = currentTurn + 1 /\ begun' = begun + 1 /\ currentTurn = begun - clearedAt
    BY <1>2, <1>3
  <2> QED
    BY <2>1
<1>5. Expiry
  BY <1>3, <1>4 DEF Expiry
<1>6. EntriesFollow' /\ MemoryKept' /\ entries' \in Seq(StickyEntries)
  BY <1>1, <1>5, ExpiryKeepsMemory
<1>7. NamesOf(entries') \subseteq SkillNames
  BY <1>6, EntriesList DEF NamesOf
<1>8. SkillsTypeOK'
  <2>1. scored' \in Seq(Scores)
    BY <1>3
  <2>2. /\ loads' \in SUBSET [name : SkillNames, turn : 0 .. LastTurn, of : 1 .. LastTurn]
        /\ loadedAt' \in [SkillNames -> 0 .. LastTurn] /\ late' \in BOOLEAN
        /\ clearedAt' \in 0 .. LastTurn
    BY <1>1, <1>3 DEF SkillsTypeOK
  <2>3. /\ result' \in [failed : BOOLEAN, active : SUBSET Pins, available : SUBSET SkillNames,
                        found : SUBSET SkillNames]
        /\ pins' \in SUBSET Pins
    BY <1>3 DEF Nothing
  <2>4. external' \in SUBSET (SkillNames \ Registered)
    BY <1>3, <1>7
  <2> QED
    BY <1>3, <1>4, <1>6, <2>1, <2>2, <2>3, <2>4 DEF SkillsTypeOK
<1>9. TurnsCount'
  <2>1. ASSUME NEW s \in SkillNames PROVE loadedAt'[s] <= begun'
    <3>1. loadedAt[s] \in 0 .. begun /\ begun \in Nat /\ begun' = begun + 1
      BY <1>2, <1>3
    <3>2. loadedAt[s] <= begun'
      BY <3>1
    <3> QED
      BY <1>3, <3>2
  <2> QED
    BY <1>3, <1>4, <2>1 DEF TurnsCount
<1>10. LoadsFollow'
  BY <1>1, <1>3, <1>4, LoadsStillFollow
<1> QED
  BY <1>3, <1>6, <1>8, <1>9, <1>10 DEF Unpinned

(* The memory is read again at the turn of the preparation.                  *)
LEMMA ReadAgain ==
  ASSUME SkillIInv, entries' = Fresh(currentTurn), step # "idle", step' # "idle",
         UNCHANGED <<currentTurn, loads, begun, loadedAt, clearedAt, late>>
  PROVE  /\ EntriesFollow' /\ MemoryKept' /\ entries' \in Seq(StickyEntries)
         /\ TurnsCount' /\ LoadsFollow'
         /\ NamesOf(entries') \subseteq NamesOf(entries)
<1>1. /\ SkillsTypeOK /\ TurnsCount /\ LoadsFollow /\ EntriesFollow /\ MemoryKept
  BY SkillParts
<1>2. /\ begun \in Nat /\ LastTurn \in Nat /\ begun <= LastTurn /\ currentTurn = begun - clearedAt
  BY <1>1, TurnNumbers
<1>3. Expiry
  <2>1. begun \in 0 .. LastTurn /\ begun >= begun
    BY <1>2
  <2> QED
    BY <1>2, <2>1 DEF Expiry
<1>4. EntriesFollow' /\ MemoryKept' /\ entries' \in Seq(StickyEntries)
  BY <1>1, <1>3, ExpiryKeepsMemory
<1>5. TurnsCount'
  BY <1>1 DEF TurnsCount
<1>6. LoadsFollow'
  BY <1>1 DEF LoadsFollow, Follows
<1>7. NamesOf(entries') \subseteq NamesOf(entries)
  BY <1>1, FreshEntries
<1> QED
  BY <1>4, <1>5, <1>6, <1>7

(* The recall.                                                               *)
LEMMA RecallStep ==
  ASSUME SkillIInv, Recall
  PROVE  Unpinned'
<1>1. SkillsTypeOK /\ PinsFollow /\ ResultFollows
  BY SkillParts
<1>2. /\ step = "listed" /\ step' = "recalled" /\ entries' = Fresh(currentTurn)
      /\ UNCHANGED <<currentTurn, loads, input, external, pins, result, begun, loadedAt,
                     clearedAt, late>>
  BY DEF Recall
<1>3. /\ EntriesFollow' /\ MemoryKept' /\ entries' \in Seq(StickyEntries)
      /\ TurnsCount' /\ LoadsFollow'
  BY <1>2, ReadAgain
<1>4. pins' = {} /\ result' = Nothing
  BY <1>1, <1>2 DEF PinsFollow, ResultFollows
<1>5. scored' \in Seq(Scores)
  <2>1. input.scores \in Seq(Scores)
    <3>1. input \in Inputs
      BY <1>1 DEF SkillsTypeOK
    <3> QED
      BY <3>1, SkillsAssumption
  <2>2. <<>> \in Seq(Scores)
    OBVIOUS
  <2>3. \A T : Kept(input.scores, T) \in Seq(Scores)
    BY <2>1, KeptProperties
  <2> QED
    BY <2>2, <2>3 DEF Recall
<1>6. SkillsTypeOK'
  BY <1>1, <1>2, <1>3, <1>5 DEF SkillsTypeOK
<1> QED
  BY <1>2, <1>3, <1>4, <1>6 DEF Unpinned

(* The session is cleared.                                                   *)
LEMMA SessionClearedStep ==
  ASSUME SkillIInv, SessionCleared
  PROVE  Unpinned'
<1>1. /\ SkillsTypeOK /\ TurnsCount /\ LoadsFollow /\ EntriesFollow /\ MemoryKept
  BY SkillParts
<1>2. /\ {begun, LastTurn} \subseteq Nat /\ begun <= LastTurn
      /\ \A s \in SkillNames : loadedAt[s] \in 0 .. begun
      /\ currentTurn = begun - clearedAt /\ currentTurn > 0 /\ clearedAt \in Nat
  BY <1>1, TurnNumbers DEF SessionCleared
<1>3. /\ currentTurn' = 0 /\ step' = "idle"
      /\ external' = {} /\ scored' = <<>> /\ pins' = {} /\ result' = Nothing
      /\ clearedAt' = begun
      /\ UNCHANGED <<entries, loads, input, begun, loadedAt, late>>
  BY DEF SessionCleared
<1>4. SkillsTypeOK'
  <2>1. 0 \in 0 .. LastTurn /\ begun \in 0 .. LastTurn
    BY <1>2
  <2>2. /\ result' \in [failed : BOOLEAN, active : SUBSET Pins, available : SUBSET SkillNames,
                        found : SUBSET SkillNames]
        /\ pins' \in SUBSET Pins /\ scored' \in Seq(Scores)
    BY <1>3 DEF Nothing
  <2> QED
    BY <1>1, <1>3, <2>1, <2>2 DEF SkillsTypeOK
<1>5. TurnsCount'
  <2>1. begun - begun = 0
    BY <1>2
  <2> QED
    BY <1>1, <1>3, <2>1 DEF TurnsCount
<1>6. ASSUME NEW turn \in 0 .. LastTurn, NEW of \in 1 .. begun
      PROVE  turn >= of - begun /\ ~ (of > begun)
  BY <1>2
<1>7. LoadsFollow'
  <2> SUFFICES ASSUME NEW load \in loads
               PROVE  /\ load.of \in 1 .. begun /\ load.turn >= load.of - begun
                      /\ ~ (load.of > begun)
    BY <1>3 DEF LoadsFollow, Follows
  <2>1. load.turn \in 0 .. LastTurn /\ load.of \in 1 .. begun
    BY <1>1 DEF SkillsTypeOK, LoadsFollow, Follows
  <2> QED
    BY <1>6, <2>1
<1>8. \A i \in DOMAIN entries :
        entries[i].added \in 0 .. LastTurn /\ entries[i].name \in SkillNames
  BY <1>1, EntriesList DEF SkillsTypeOK
<1>9. EntriesFollow'
  <2> SUFFICES ASSUME NEW i \in DOMAIN entries
               PROVE  /\ loadedAt[entries[i].name] \in 1 .. begun
                      /\ entries[i].added >= loadedAt[entries[i].name] - begun
                      /\ ~ (loadedAt[entries[i].name] > begun)
    BY <1>3 DEF EntriesFollow, Follows
  <2>1. loadedAt[entries[i].name] \in 1 .. begun
    BY <1>1 DEF EntriesFollow, Follows
  <2> QED
    BY <1>6, <1>8, <2>1
<1>10. MemoryKept'
  <2>1. ASSUME NEW i \in DOMAIN entries
        PROVE  0 - entries[i].added <= begun - loadedAt[entries[i].name]
    <3>1. loadedAt[entries[i].name] \in 0 .. begun
      BY <1>2, <1>8
    <3>2. \A x \in 0 .. LastTurn, y \in 0 .. begun : 0 - x <= begun - y
      BY <1>2
    <3> QED
      BY <1>8, <3>1, <3>2, Zenon
  <2>2. ~ (clearedAt' = 0)
    BY <1>2, <1>3
  <2> QED
    BY <1>1, <1>3, <2>1, <2>2 DEF MemoryKept, Age, Distinct
<1> QED
  BY <1>3, <1>4, <1>5, <1>7, <1>9, <1>10 DEF Unpinned

-----------------------------------------------------------------------------
(* What the turn was given does not change the sets of skills.               *)
LEMMA SetsStay ==
  ASSUME UNCHANGED <<input, external, scored>>
  PROVE  /\ View' = View /\ Asked' = Asked /\ AskedPins' = AskedPins
         /\ Candidates' = Candidates /\ Promoted' = Promoted
<1>1. View' = View
  BY DEF View
<1>2. \A s : Decision(s)' = Decision(s)
  BY DEF Decision
<1>3. Asked' = Asked
  BY <1>1, <1>2 DEF Asked, Explicit, Pinned, Usable
<1>4. AskedPins' = AskedPins
  BY <1>3 DEF AskedPins
<1>5. Candidates' = Candidates
  BY <1>1, <1>2 DEF Candidates
<1>6. Promoted' = Promoted
  BY <1>5 DEF Promoted, ScoresOf
<1> QED
  BY <1>1, <1>3, <1>4, <1>5, <1>6

(* The pins of the remembered.                                               *)
LEMMA StickyPinsOf ==
  ASSUME SkillsTypeOK, NEW list \in Seq(StickyEntries), Distinct(list)
  PROVE  /\ StickyPins(list) \in SUBSET Pins /\ Single(StickyPins(list))
         /\ \A p \in StickyPins(list) :
               /\ p.kind = "sticky" /\ p.name \in View \ Asked /\ p.name \in NamesOf(list)
         /\ \A s \in View \cap NamesOf(list) :
               s \in Asked \/ \E p \in StickyPins(list) : p.name = s
<1>1. /\ DOMAIN list = 1 .. Len(list) /\ Len(list) \in Nat
      /\ \A i \in DOMAIN list : list[i].name \in SkillNames
  BY EntriesList
<1>2. 0 \in 0 .. LastTurn
  BY SkillsAssumption
<1>3. ASSUME NEW p \in StickyPins(list)
      PROVE  \E i \in DOMAIN list :
                list[i].name \in View \ Asked /\ p = Pin(list[i].name, "sticky", i, 0)
  BY DEF StickyPins
<1>4. ASSUME NEW i \in DOMAIN list, list[i].name \in View \ Asked
      PROVE  Pin(list[i].name, "sticky", i, 0) \in StickyPins(list)
  BY <1>4 DEF StickyPins
<1>5. \A i \in DOMAIN list : Pin(list[i].name, "sticky", i, 0) \in Pins
  <2> TAKE i \in DOMAIN list
  <2>1. i \in Nat /\ list[i].name \in SkillNames
    BY <1>1
  <2> QED
    BY <1>2, <2>1 DEF Pin, Pins
<1>6. \A i \in DOMAIN list : /\ Pin(list[i].name, "sticky", i, 0).name = list[i].name
                             /\ Pin(list[i].name, "sticky", i, 0).kind = "sticky"
  BY DEF Pin
<1>7. Single(StickyPins(list))
  <2> SUFFICES ASSUME NEW p \in StickyPins(list), NEW q \in StickyPins(list), p.name = q.name
               PROVE  p = q
    BY DEF Single
  <2>1. PICK i \in DOMAIN list : p = Pin(list[i].name, "sticky", i, 0)
    BY <1>3
  <2>2. PICK j \in DOMAIN list : q = Pin(list[j].name, "sticky", j, 0)
    BY <1>3
  <2>3. list[i].name = list[j].name
    BY <1>6, <2>1, <2>2
  <2>4. i = j
    BY <2>3 DEF Distinct
  <2> QED
    BY <2>1, <2>2, <2>4
<1>8. \A p \in StickyPins(list) :
         p.kind = "sticky" /\ p.name \in View \ Asked /\ p.name \in NamesOf(list)
  BY <1>3, <1>6 DEF NamesOf
<1>9. ASSUME NEW s \in View \cap NamesOf(list), s \notin Asked
      PROVE  \E p \in StickyPins(list) : p.name = s
  <2>1. PICK i \in DOMAIN list : list[i].name = s
    BY DEF NamesOf
  <2> QED
    BY <1>4, <1>6, <1>9, <2>1
<1> QED
  BY <1>3, <1>5, <1>7, <1>8, <1>9

(* What is asked for, the remembered: the pins before the budget.            *)
LEMMA PinAllStep ==
  ASSUME SkillIInv, PinAll
  PROVE  SkillIInv'
<1>1. /\ SkillsTypeOK /\ TurnsCount /\ EntriesFollow /\ PinsFollow /\ ResultFollows
  BY SkillParts
<1>2. /\ step = "recalled" /\ step' = "pinned" /\ entries' = Fresh(currentTurn)
      /\ pins' = AskedPins \cup StickyPins(entries')
      /\ UNCHANGED <<currentTurn, loads, input, external, scored, result, begun, loadedAt,
                     clearedAt, late>>
  BY DEF PinAll
<1>3. /\ EntriesFollow' /\ MemoryKept' /\ entries' \in Seq(StickyEntries)
      /\ TurnsCount' /\ LoadsFollow'
  BY <1>2, ReadAgain
<1>4. Distinct(entries')
  BY <1>3 DEF MemoryKept, Distinct
<1>5. result = Nothing
  BY <1>1, <1>2 DEF ResultFollows
<1> DEFINE sticky == StickyPins(entries')
<1>6. /\ sticky \in SUBSET Pins /\ Single(sticky)
      /\ \A p \in sticky :
            /\ p.kind = "sticky" /\ p.name \in View \ Asked /\ p.name \in NamesOf(entries')
      /\ \A s \in View \cap NamesOf(entries') : s \in Asked \/ \E p \in sticky : p.name = s
  BY <1>1, <1>3, <1>4, StickyPinsOf
<1>7. /\ AskedPins \in SUBSET Pins
      /\ \A p \in AskedPins : p.kind = "asked" /\ p.name \in Asked
  BY <1>1, SkillSets
<1>8. Single(AskedPins)
  BY DEF Single, AskedPins, Pin
<1>9. pins' = AskedPins \cup sticky
  BY <1>2
<1> HIDE DEF sticky
<1>10. View' = View /\ Asked' = Asked /\ AskedPins' = AskedPins /\ Promoted' = Promoted
  BY <1>2, SetsStay
<1>11. SkillsTypeOK'
  BY <1>1, <1>2, <1>3, <1>6, <1>7, <1>9 DEF SkillsTypeOK
<1>12. StickyThen' = {p.name : p \in sticky}
  <2>1. {q \in pins' : q.kind = "sticky"} = sticky
    BY <1>6, <1>7, <1>9
  <2> QED
    BY <2>1 DEF StickyThen
<1>13. PinsFollow'
  <2>1. AskedOf(pins') = AskedPins
    BY <1>6, <1>7, <1>9 DEF AskedOf
  <2>2. \A p, q \in pins' : p.kind = q.kind /\ p.name = q.name => p = q
    BY <1>6, <1>7, <1>8, <1>9 DEF Single
  <2>3. \A p \in pins' : /\ p.kind = "sticky" => p.name \in View \ Asked
                         /\ p.kind # "promoted"
    BY <1>6, <1>7, <1>9
  <2>4. \A s \in View \cap NamesOf(entries') : s \in Asked \/ s \in StickyThen'
    BY <1>6, <1>12
  <2> QED
    BY <1>2, <1>10, <2>1, <2>2, <2>3, <2>4 DEF PinsFollow
<1>14. ResultFollows'
  BY <1>2, <1>5 DEF ResultFollows, Nothing
<1>15. ASSUME NEW s \in StickyThen', ~ (clearedAt >= loadedAt[s])
       PROVE  begun - loadedAt[s] < TtlTurns
  <2>1. s \in NamesOf(entries')
    BY <1>6, <1>12
  <2>2. PICK n \in DOMAIN entries' : entries'[n].name = s
    BY <2>1 DEF NamesOf
  <2>3. PICK i \in DOMAIN entries :
           entries'[n] = entries[i] /\ currentTurn - entries[i].added < TtlTurns
    BY <1>1, <1>2, FreshEntries
  <2>4. entries[i].name = s /\ s \in SkillNames
    BY <1>1, <2>2, <2>3, EntriesList DEF SkillsTypeOK
  <2>5. /\ begun \in Nat /\ clearedAt \in Nat /\ currentTurn = begun - clearedAt
        /\ loadedAt[s] \in 0 .. begun
    BY <1>1, <2>4, TurnNumbers
  <2>6. loadedAt[s] \in Int /\ loadedAt[s] > clearedAt
    BY <1>15, <2>5
  <2>7. entries[i].added = loadedAt[s] - clearedAt
    BY <1>1, <2>4, <2>6 DEF EntriesFollow, Follows
  <2>8. \A b, c, l \in Int : (b - c) - (l - c) = b - l
    OBVIOUS
  <2>9. begun \in Int /\ clearedAt \in Int
    BY <2>5
  <2>10. (begun - clearedAt) - (loadedAt[s] - clearedAt) = begun - loadedAt[s]
    BY <2>6, <2>8, <2>9, Zenon
  <2>11. currentTurn - entries[i].added = begun - loadedAt[s]
    BY <2>5, <2>7, <2>10, Zenon
  <2> QED
    BY <2>3, <2>11, Zenon
<1>16. MemorySound'
  <2>1. (\A s \in StickyThen : Age(s) < TtlTurns \/ clearedAt >= loadedAt[s] \/ late)'
    BY <1>2, <1>15 DEF Age
  <2> QED
    BY <1>3, <2>1 DEF MemorySound, MemoryKept, Distinct
<1>17. SkillsSound'
  BY <1>2, <1>16 DEF SkillsSound
<1> QED
  BY <1>3, <1>11, <1>13, <1>14, <1>17 DEF SkillIInv

(* The turn an entry of a skill is of.                                       *)
LEMMA AddedTurn ==
  ASSUME NEW list \in Seq(StickyEntries), NEW s
  PROVE  Added(s, list) \in 0 .. LastTurn
<1>1. CASE s \in NamesOf(list)
  <2>1. \E i \in DOMAIN list : list[i].name = s
    BY <1>1 DEF NamesOf
  <2> DEFINE k == CHOOSE i \in DOMAIN list : list[i].name = s
  <2>2. k \in DOMAIN list
    BY <2>1
  <2>3. Added(s, list) = list[k].added
    BY <1>1 DEF Added
  <2> HIDE DEF k
  <2> QED
    BY <2>2, <2>3, EntriesList
<1>2. CASE s \notin NamesOf(list)
  <2>1. 0 \in 0 .. LastTurn
    BY SkillsAssumption
  <2> QED
    BY <1>2, <2>1 DEF Added
<1> QED
  BY <1>1, <1>2

(* What is pinned when the promoted are, and the age of the others is known. *)
LEMMA AllPinsOf ==
  ASSUME SkillIInv, step = "pinned", NEW list \in Seq(StickyEntries)
  PROVE  /\ AllPins(list) \in SUBSET Pins /\ Single(AllPins(list))
         /\ AskedOf(AllPins(list)) = AskedPins
         /\ \A p \in AllPins(list) :
               /\ p.kind \in {"asked", "sticky", "promoted"}
               /\ p.kind = "asked" => p.name \in Asked
               /\ p.kind = "sticky" => p.name \in (View \ Asked) \cap StickyThen
               /\ p.kind = "promoted" => p.name \in Promoted
         /\ \A s \in StickyThen : \E p \in AllPins(list) : p.kind = "sticky" /\ p.name = s
<1> DEFINE old == pins \ AskedOf(pins)
           dated == {Dated(p, list) : p \in old}
           promoted == {Pin(s, "promoted", PlaceOf(s), Added(s, list)) : s \in Promoted}
<1>1. SkillsTypeOK /\ PinsFollow /\ pins \in SUBSET Pins
  BY SkillParts DEF SkillsTypeOK
<1>2. /\ AskedOf(pins) = AskedPins
      /\ \A p, q \in pins : p.kind = q.kind /\ p.name = q.name => p = q
      /\ \A p \in pins : /\ p.kind = "sticky" => p.name \in View \ Asked
                         /\ p.kind # "promoted"
  BY <1>1 DEF PinsFollow
<1>3. \A p \in Pins : p.kind \in {"asked", "sticky", "promoted"}
  BY DEF Pins
<1>4. \A p \in old : p \in pins /\ p \in Pins /\ p.kind = "sticky"
  BY <1>1, <1>2, <1>3 DEF AskedOf
<1>5. \A p \in pins : p.kind = "sticky" => p \in old
  BY DEF AskedOf
<1>6. /\ AskedPins \in SUBSET Pins
      /\ \A p \in AskedPins : p.kind = "asked" /\ p.name \in Asked
      /\ Candidates \subseteq View /\ Promoted \subseteq Candidates /\ View \subseteq SkillNames
  BY <1>1, SkillSets
<1>7. AllPins(list) = AskedPins \cup dated \cup promoted
  BY <1>2 DEF AllPins
<1> HIDE DEF old
<1>8. ASSUME NEW p \in old
      PROVE  /\ Dated(p, list) \in Pins /\ Dated(p, list).name = p.name
             /\ Dated(p, list).kind = "sticky"
  <2>1. Added(p.name, list) \in 0 .. LastTurn
    BY AddedTurn
  <2>2. p \in Pins /\ p.kind = "sticky"
    BY <1>4
  <2> QED
    BY <2>1, <2>2 DEF Dated, Pins
<1>9. /\ dated \in SUBSET Pins
      /\ \A d \in dated : /\ d.kind = "sticky"
                          /\ \E p \in old : d = Dated(p, list) /\ d.name = p.name
  BY <1>8
<1>10. Single(dated)
  <2> SUFFICES ASSUME NEW d \in dated, NEW e \in dated, d.name = e.name PROVE d = e
    BY DEF Single
  <2>1. PICK p \in old : d = Dated(p, list) /\ d.name = p.name
    BY <1>9
  <2>2. PICK q \in old : e = Dated(q, list) /\ e.name = q.name
    BY <1>9
  <2>3. p = q
    BY <1>2, <1>4, <2>1, <2>2
  <2> QED
    BY <2>1, <2>2, <2>3
<1>11. /\ promoted \in SUBSET Pins
       /\ \A p \in promoted : /\ p.kind = "promoted" /\ p.name \in Promoted
                              /\ p = Pin(p.name, "promoted", PlaceOf(p.name), Added(p.name, list))
  <2> SUFFICES ASSUME NEW s \in Promoted
               PROVE  LET p == Pin(s, "promoted", PlaceOf(s), Added(s, list))
                      IN p \in Pins /\ p.kind = "promoted" /\ p.name = s
    OBVIOUS
  <2>1. PlaceOf(s) \in Nat /\ s \in SkillNames
    BY <1>1, <1>6, ScoresOfCandidate
  <2>2. Added(s, list) \in 0 .. LastTurn
    BY AddedTurn
  <2> QED
    BY <2>1, <2>2 DEF Pin, Pins
<1>12. Single(promoted)
  BY <1>11 DEF Single
<1>13. Single(AskedPins)
  BY DEF Single, AskedPins, Pin
<1> HIDE DEF dated, promoted
<1>14. AllPins(list) \in SUBSET Pins
  BY <1>6, <1>7, <1>9, <1>11
<1>15. AskedOf(AllPins(list)) = AskedPins
  BY <1>6, <1>7, <1>9, <1>11 DEF AskedOf
<1>16. \A p \in AllPins(list) : /\ p.kind = "asked" => p \in AskedPins
                                /\ p.kind = "sticky" => p \in dated
                                /\ p.kind = "promoted" => p \in promoted
  BY <1>6, <1>7, <1>9, <1>11
<1>17. Single(AllPins(list))
  <2> SUFFICES ASSUME NEW p \in AllPins(list), NEW q \in AllPins(list),
                      p.kind = q.kind, p.name = q.name
               PROVE  p = q
    BY DEF Single
  <2>1. p.kind \in {"asked", "sticky", "promoted"}
    BY <1>3, <1>14
  <2>2. CASE p.kind = "asked"
    BY <1>13, <1>16, <2>2 DEF Single
  <2>3. CASE p.kind = "sticky"
    BY <1>10, <1>16, <2>3 DEF Single
  <2>4. CASE p.kind = "promoted"
    BY <1>12, <1>16, <2>4 DEF Single
  <2> QED
    BY <2>1, <2>2, <2>3, <2>4
<1>18. \A p \in old : p.name \in (View \ Asked) \cap StickyThen
  BY <1>2, <1>4 DEF StickyThen
<1>19. \A p \in dated : p.name \in (View \ Asked) \cap StickyThen
  BY <1>9, <1>18
<1>20. ASSUME NEW s \in StickyThen
       PROVE  \E p \in AllPins(list) : p.kind = "sticky" /\ p.name = s
  <2>1. PICK p \in pins : p.kind = "sticky" /\ p.name = s
    BY DEF StickyThen
  <2>2. p \in old
    BY <1>5, <2>1
  <2>3. Dated(p, list) \in AllPins(list)
    BY <1>7, <2>2 DEF dated
  <2> QED
    BY <1>8, <2>1, <2>2, <2>3
<1> QED
  BY <1>3, <1>6, <1>11, <1>14, <1>15, <1>16, <1>17, <1>19, <1>20

(* What may be offered by name: of the candidates, those that are not pinned. *)
Left(set) == Candidates \ {p.name : p \in set}

(* The pins and the offers of a turn, as they are placed.                    *)
PlacedSoundly ==
    /\ SkillsTypeOK /\ Single(pins) /\ AskedOf(pins) = AskedPins
    /\ Cost(AskedOf(pins)) <= T0Limit
    /\ \A p \in pins : /\ p.kind = "asked" => p.name \in Asked
                       /\ p.kind = "sticky" => p.name \in View \ Asked
                       /\ p.kind = "promoted" => p.name \in Promoted
    /\ result = [failed |-> FALSE, active |-> GivenOf(pins),
                 available |-> Listed(Ranked(Left(pins))), found |-> {}]
    /\ ~ late => \A s \in View \cap NamesOf(entries) :
                    loadedAt[s] < begun => s \in Asked \cup StickyThen

(* A turn so placed is prepared.                                             *)
LEMMA PlacedIsPrepared == PlacedSoundly => TurnPrepared
<1> SUFFICES ASSUME PlacedSoundly PROVE TurnPrepared
  OBVIOUS
<1>a. /\ SkillsTypeOK /\ Single(pins) /\ AskedOf(pins) = AskedPins
      /\ Cost(AskedOf(pins)) <= T0Limit
      /\ \A p \in pins : /\ p.kind = "asked" => p.name \in Asked
                         /\ p.kind = "sticky" => p.name \in View \ Asked
                         /\ p.kind = "promoted" => p.name \in Promoted
      /\ result = [failed |-> FALSE, active |-> GivenOf(pins),
                   available |-> Listed(Ranked(Left(pins))), found |-> {}]
      /\ ~ late => \A s \in View \cap NamesOf(entries) :
                      loadedAt[s] < begun => s \in Asked \cup StickyThen
      /\ pins \in SUBSET Pins
  BY DEF PlacedSoundly, SkillsTypeOK
<1>b. IsFiniteSet(pins)
  BY <1>a, PinsAreFinite
<1>c. \A p \in pins :
        \/ p.kind = "asked" /\ p.name \in Asked
        \/ p.kind = "sticky" /\ p.name \notin Asked /\ p.name \in StickyThen
        \/ p.kind = "promoted" /\ p.name \in Promoted
  <2>1. \A p \in pins : /\ p.kind \in {"asked", "sticky", "promoted"}
                        /\ p.kind = "sticky" => p.name \in StickyThen
    BY <1>a DEF Pins, StickyThen
  <2> QED
    BY <1>a, <2>1
<1> DEFINE offered == Listed(Ranked(Left(pins)))
<1>1. result.active = GivenOf(pins) /\ result.available = offered /\ result.found = {}
  BY <1>a
<1>2. GivenOf(pins) \in SUBSET pins /\ AskedPins \subseteq GivenOf(pins)
  BY <1>a DEF GivenOf, AskedOf
<1>3. Given = {p.name : p \in GivenOf(pins)}
  BY <1>1 DEF Given
<1>4. /\ offered \in SUBSET Left(pins) /\ IsFiniteSet(offered)
      /\ Cardinality(offered) <= TopK /\ (offered = {} \/ Cardinality(offered) <= T1Limit)
  <2>1. Left(pins) \in SUBSET Candidates
    BY DEF Left
  <2> QED
    BY <1>a, <2>1, ListedIsShort
<1> HIDE DEF offered
<1>5. Asked \subseteq Given
  <2>1. \A s \in Asked : \E p \in AskedPins : p.name = s
    BY <1>a, SkillSets
  <2> QED
    BY <1>2, <1>3, <2>1
<1>6. Cost(result.active) <= T0Limit
  BY <1>a, <1>b, <1>1, BudgetIsKept
<1>7. ASSUME NEW p \in pins, p.kind = "sticky", p.name \notin Given
      PROVE  NeedsRoom(p)
  <2>1. p \in pins \ AskedOf(pins)
    BY <1>7 DEF AskedOf
  <2>2. ~ Fits(p, pins)
    BY <1>3, <1>7, <2>1 DEF GivenOf
  <2> QED
    BY <1>a, <1>b, <2>1, <2>2, DroppedForRoom DEF NeedsRoom
<1>8. ASSUME Promoted = {}, NEW p \in result.active, NEW q \in result.active, p.name = q.name
      PROVE  p = q
  <2>1. p \in pins /\ q \in pins
    BY <1>1, <1>2
  <2>2. p.kind = q.kind
    BY <1>c, <1>8, <2>1
  <2> QED
    BY <1>a, <1>8, <2>1, <2>2 DEF Single
<1>9. OffersSound
  <2>1. result.available \ result.found = offered
    BY <1>1
  <2>2. Given \cap result.available = {}
    BY <1>1, <1>2, <1>3, <1>4 DEF Left
  <2>3. ASSUME NEW s \in input.exclude \ input.explicit
        PROVE  /\ s \in Given => s \in StickyThen
               /\ s \in result.available => s \in result.found \ Registered
    <3>1. s \notin Candidates /\ s \notin Asked /\ s \notin Promoted
      BY <1>a, ExcludedIsOut, SkillSets
    <3>2. s \notin result.available
      BY <1>1, <1>4, <3>1 DEF Left
    <3>3. ASSUME NEW p \in pins, p.name = s PROVE s \in StickyThen
      BY <1>c, <3>1, <3>3
    <3> QED
      BY <1>2, <1>3, <3>2, <3>3
  <2> QED
    BY <1>4, <2>1, <2>2, <2>3 DEF OffersSound
<1> QED
  BY <1>a, <1>5, <1>6, <1>7, <1>8, <1>9 DEF TurnPrepared

(* The budgets.                                                              *)
LEMMA PlaceStep ==
  ASSUME SkillIInv, Place
  PROVE  SkillIInv'
<1>1. /\ SkillsTypeOK /\ TurnsCount /\ EntriesFollow /\ PinsFollow /\ ResultFollows
      /\ \A s \in StickyThen : Age(s) < TtlTurns \/ clearedAt >= loadedAt[s] \/ late
  BY SkillParts
<1>2. /\ step = "pinned" /\ step' = "ready" /\ entries' = Fresh(currentTurn)
      /\ pins' = AllPins(entries')
      /\ UNCHANGED <<currentTurn, loads, input, external, scored, begun, loadedAt, clearedAt,
                     late>>
  BY DEF Place
<1>3. /\ EntriesFollow' /\ MemoryKept' /\ entries' \in Seq(StickyEntries)
      /\ TurnsCount' /\ LoadsFollow' /\ NamesOf(entries') \subseteq NamesOf(entries)
  BY <1>2, ReadAgain
<1>4. /\ pins' \in SUBSET Pins /\ Single(pins') /\ AskedOf(pins') = AskedPins
      /\ \A p \in pins' :
            /\ p.kind = "asked" => p.name \in Asked
            /\ p.kind = "sticky" => p.name \in (View \ Asked) \cap StickyThen
            /\ p.kind = "promoted" => p.name \in Promoted
      /\ \A s \in StickyThen : \E p \in pins' : p.kind = "sticky" /\ p.name = s
  BY <1>2, <1>3, AllPinsOf
<1>5. /\ View' = View /\ Asked' = Asked /\ AskedPins' = AskedPins
      /\ Candidates' = Candidates /\ Promoted' = Promoted
  BY <1>2, SetsStay
<1>6. StickyThen' = StickyThen
  <2>1. StickyThen' = {p.name : p \in {q \in pins' : q.kind = "sticky"}}
    BY DEF StickyThen
  <2> QED
    BY <1>4, <2>1
<1>7. ~ late' => \A s \in View' \cap NamesOf(entries') :
                    loadedAt'[s] < begun' => s \in Asked' \cup StickyThen'
  <2>1. ~ late => \A s \in View \cap NamesOf(entries) :
                     loadedAt[s] < begun => s \in Asked \cup StickyThen
    BY <1>1, <1>2 DEF PinsFollow
  <2> QED
    BY <1>2, <1>3, <1>5, <1>6, <2>1
<1>8. PinsFollow'
  <2>1. \A p, q \in pins' : p.kind = q.kind /\ p.name = q.name => p = q
    BY <1>4 DEF Single
  <2>2. \A p \in pins' : /\ p.kind = "sticky" => p.name \in View' \ Asked'
                         /\ p.kind = "promoted" => step' = "ready" /\ p.name \in Promoted'
    BY <1>2, <1>4, <1>5
  <2> QED
    BY <1>2, <1>4, <1>5, <1>7, <2>1, <2>2 DEF PinsFollow
<1>9. MemorySound'
  <2>1. (\A s \in StickyThen : Age(s) < TtlTurns \/ clearedAt >= loadedAt[s] \/ late)'
    BY <1>1, <1>2, <1>6 DEF Age
  <2> QED
    BY <1>3, <2>1 DEF MemorySound, MemoryKept, Distinct
<1>10. CASE Cost(AskedOf(pins')) > T0Limit
  <2>1. result' = [Nothing EXCEPT !.failed = TRUE]
    BY <1>10 DEF Place
  <2>2. /\ result'.failed = TRUE /\ result'.active = {}
        /\ result' \in [failed : BOOLEAN, active : SUBSET Pins, available : SUBSET SkillNames,
                        found : SUBSET SkillNames]
    BY <2>1 DEF Nothing
  <2>3. SkillsTypeOK'
    BY <1>1, <1>2, <1>3, <1>4, <2>2 DEF SkillsTypeOK
  <2>4. ResultFollows'
    BY <1>2, <2>2 DEF ResultFollows
  <2>5. SkillsSound'
    BY <1>4, <1>5, <1>9, <1>10, <2>2 DEF SkillsSound
  <2> QED
    BY <1>3, <1>8, <2>3, <2>4, <2>5 DEF SkillIInv
<1>11. CASE ~ (Cost(AskedOf(pins')) > T0Limit)
  <2>1. result' = [Nothing EXCEPT
                     !.active = AskedOf(pins') \cup {p \in pins' \ AskedOf(pins') : Fits(p, pins')},
                     !.available = Listed(Ranked(Candidates \ {p.name : p \in pins'}))]
    BY <1>11 DEF Place
  <2>2. result' = [failed |-> FALSE, active |-> GivenOf(pins'),
                   available |-> Listed(Ranked(Candidates \ {p.name : p \in pins'})),
                   found |-> {}]
    BY <2>1 DEF GivenOf, Nothing
  <2>3. GivenOf(pins') \subseteq pins'
    BY DEF GivenOf, AskedOf
  <2>4. Listed(Ranked(Candidates \ {p.name : p \in pins'})) \subseteq SkillNames
    BY <1>1, SkillSets DEF Listed, Ranked
  <2>5. /\ result'.failed = FALSE /\ result'.active = GivenOf(pins')
        /\ result' \in [failed : BOOLEAN, active : SUBSET Pins, available : SUBSET SkillNames,
                        found : SUBSET SkillNames]
    BY <1>4, <2>2, <2>3, <2>4
  <2>6. SkillsTypeOK'
    BY <1>1, <1>2, <1>3, <1>4, <2>5 DEF SkillsTypeOK
  <2>7. ResultFollows'
    BY <1>2, <2>3, <2>5 DEF ResultFollows
  <2>8. PlacedSoundly'
    <3>1. Cost(AskedOf(pins')) <= T0Limit
      <4>1. AskedOf(pins') \in SUBSET pins' /\ IsFiniteSet(pins')
        BY <1>4, PinsAreFinite DEF AskedOf
      <4>2. Cost(AskedOf(pins')) \in Int /\ T0Limit \in Int
        BY <1>4, <4>1, CostGrows, SkillsAssumption
      <4> QED
        BY <1>11, <4>2
    <3>2. Listed(Ranked(Left(pins)))' = Listed(Ranked(Candidates \ {p.name : p \in pins'}))
      BY <1>2, <1>5 DEF Left, Listed, Ranked, Before, Outlasts, Score, PlaceOf, ScoresOf
    <3>3. GivenOf(pins)' = GivenOf(pins')
      BY DEF GivenOf, AskedOf, Fits, Sooner
    <3> QED
      BY <1>4, <1>5, <1>7, <2>2, <2>6, <3>1, <3>2, <3>3 DEF PlacedSoundly
  <2>9. TurnPrepared'
    <3>1. PlacedSoundly' => TurnPrepared'
      BY PlacedIsPrepared, PTL
    <3> QED
      BY <2>8, <3>1
  <2>10. SkillsSound'
    BY <1>9, <2>5, <2>9 DEF SkillsSound
  <2> QED
    BY <1>3, <1>8, <2>6, <2>7, <2>10 DEF SkillIInv
<1> QED
  BY <1>10, <1>11

(* What the host discovers is offered too.                                   *)
LEMMA DiscoverStep ==
  ASSUME SkillIInv, Discover
  PROVE  SkillIInv'
<1>1. /\ SkillsTypeOK /\ TurnsCount /\ LoadsFollow /\ EntriesFollow /\ MemoryKept
      /\ PinsFollow /\ ResultFollows /\ SkillsSound /\ TurnPrepared
  BY SkillParts DEF SkillIInv, Discover
<1>2. /\ step = "ready" /\ ~ result.failed /\ result.found = {}
      /\ UNCHANGED <<currentTurn, entries, loads, step, input, external, scored, pins, begun,
                     loadedAt, clearedAt, late>>
  BY DEF Discover
<1>3. PICK set \in SUBSET (SkillNames \ Registered) :
         result' = [result EXCEPT !.available = @ \cup (set \ Given), !.found = set]
  BY DEF Discover
<1>4. result \in [failed : BOOLEAN, active : SUBSET Pins, available : SUBSET SkillNames,
                  found : SUBSET SkillNames]
  BY <1>1 DEF SkillsTypeOK
<1>5. /\ result' \in [failed : BOOLEAN, active : SUBSET Pins, available : SUBSET SkillNames,
                      found : SUBSET SkillNames]
      /\ result'.failed = result.failed /\ result'.active = result.active
      /\ result'.available = result.available \cup (set \ Given) /\ result'.found = set
  BY <1>3, <1>4
<1>6. SkillsTypeOK'
  BY <1>1, <1>2, <1>5 DEF SkillsTypeOK
<1>7. /\ View' = View /\ Asked' = Asked /\ AskedPins' = AskedPins
      /\ Candidates' = Candidates /\ Promoted' = Promoted
  BY <1>2, SetsStay
<1>8. StickyThen' = StickyThen /\ Given' = Given
  BY <1>2, <1>5 DEF StickyThen, Given
<1>9. PinsFollow'
  BY <1>1, <1>2, <1>7, <1>8 DEF PinsFollow
<1>10. TurnsCount' /\ LoadsFollow' /\ EntriesFollow'
  BY <1>1, <1>2 DEF TurnsCount, LoadsFollow, EntriesFollow, Follows
<1>11. ResultFollows'
  BY <1>1, <1>2, <1>5 DEF ResultFollows
<1>12. MemorySound'
  <2>1. \A s \in SkillNames : KeptForItsWindow(s)' <=> KeptForItsWindow(s)
    BY <1>2 DEF KeptForItsWindow, Age, NewerThan, NamesOf
  <2> QED
    BY <1>1, <1>2, <1>8, <2>1 DEF SkillsSound, MemorySound, Age
<1>13. OffersSound'
  <2>1. OffersSound
    BY <1>1 DEF TurnPrepared
  <2> DEFINE ranked == result.available \ result.found
             later == result'.available \ result'.found
  <2>2. later \in SUBSET ranked /\ ranked \in SUBSET SkillNames
    BY <1>2, <1>4, <1>5
  <2>3. IsFiniteSet(ranked)
    BY <2>2, SkillsAssumption, FS_Subset
  <2>4. Cardinality(ranked) <= TopK /\ (ranked = {} \/ Cardinality(ranked) <= T1Limit)
    BY <2>1 DEF OffersSound
  <2> HIDE DEF ranked, later
  <2>5. Cardinality(later) <= Cardinality(ranked) /\ IsFiniteSet(later)
    BY <2>2, <2>3, FS_Subset
  <2>6. Cardinality(later) \in Int /\ Cardinality(ranked) \in Int
    BY <2>3, <2>5, FS_CardinalityType
  <2>7. TopK \in Int /\ T1Limit \in Int
    BY SkillsAssumption
  <2>8. Cardinality(later) <= TopK
    BY <2>4, <2>5, <2>6, <2>7
  <2>9. later = {} \/ Cardinality(later) <= T1Limit
    <3>1. CASE ranked = {}
      BY <2>2, <3>1
    <3>2. CASE Cardinality(ranked) <= T1Limit
      BY <2>5, <2>6, <2>7, <3>2
    <3> QED
      BY <2>4, <3>1, <3>2
  <2>10. /\ Given' \cap result'.available = {}
         /\ \A s \in input'.exclude \ input'.explicit :
               /\ s \in Given' => s \in StickyThen'
               /\ s \in result'.available => s \in result'.found \ Registered
    BY <1>2, <1>5, <1>8, <2>1 DEF OffersSound
  <2> QED
    BY <2>8, <2>9, <2>10 DEF OffersSound, later
<1>14. TurnPrepared'
  <2>1. \A p : NeedsRoom(p)' <=> NeedsRoom(p)
    BY <1>2 DEF NeedsRoom
  <2> QED
    BY <1>1, <1>2, <1>5, <1>7, <1>8, <1>13, <2>1 DEF TurnPrepared
<1>15. SkillsSound'
  BY <1>2, <1>5, <1>12, <1>14 DEF SkillsSound
<1> QED
  BY <1>6, <1>9, <1>10, <1>11, <1>15 DEF SkillIInv

(* A load reads the turn.                                                    *)
LEMMA LoadFoundStep ==
  ASSUME SkillIInv, NEW s \in SkillNames, LoadFound(s)
  PROVE  SkillIInv'
<1>1. /\ SkillsTypeOK /\ TurnsCount /\ LoadsFollow /\ EntriesFollow /\ MemoryKept
      /\ PinsFollow /\ ResultFollows /\ SkillsSound
  BY SkillParts DEF SkillIInv
<1>2. /\ step = "ready" /\ loads' = loads \cup {[name |-> s, turn |-> currentTurn, of |-> begun]}
      /\ UNCHANGED <<currentTurn, entries, step, input, external, scored, pins, result, begun,
                     loadedAt, clearedAt, late>>
  BY DEF LoadFound
<1>3. /\ currentTurn \in Nat /\ begun \in Nat /\ begun > 0 /\ begun <= LastTurn
      /\ LastTurn \in Nat /\ currentTurn = begun - clearedAt /\ clearedAt \in Nat
      /\ currentTurn <= begun
  BY <1>1, <1>2, TurnNumbers
<1>4. begun \in 1 .. begun /\ begun \in 1 .. LastTurn /\ currentTurn \in 0 .. LastTurn
      /\ currentTurn >= begun - clearedAt
  BY <1>3
<1>5. SkillsTypeOK'
  BY <1>1, <1>2, <1>4 DEF SkillsTypeOK
<1>6. LoadsFollow'
  BY <1>1, <1>2, <1>3, <1>4 DEF LoadsFollow, Follows
<1>7. TurnsCount' /\ EntriesFollow'
  BY <1>1, <1>2 DEF TurnsCount, EntriesFollow, Follows
<1>8. /\ View' = View /\ Asked' = Asked /\ AskedPins' = AskedPins
      /\ Candidates' = Candidates /\ Promoted' = Promoted
  BY <1>2, SetsStay
<1>9. StickyThen' = StickyThen /\ Given' = Given
  BY <1>2 DEF StickyThen, Given
<1>10. PinsFollow'
  BY <1>1, <1>2, <1>8, <1>9 DEF PinsFollow
<1>11. ResultFollows'
  BY <1>1, <1>2 DEF ResultFollows
<1>12. MemorySound'
  <2>1. \A t \in SkillNames : KeptForItsWindow(t)' <=> KeptForItsWindow(t)
    BY <1>2 DEF KeptForItsWindow, Age, NewerThan, NamesOf
  <2> QED
    BY <1>1, <1>2, <1>9, <2>1 DEF SkillsSound, MemorySound, Age
<1>13. TurnPrepared' <=> TurnPrepared
  BY <1>2, <1>8, <1>9 DEF TurnPrepared, OffersSound, NeedsRoom, NamesOf
<1>14. SkillsSound'
  BY <1>1, <1>2, <1>8, <1>12, <1>13 DEF SkillsSound
<1> QED
  BY <1>5, <1>6, <1>7, <1>10, <1>11, <1>14 DEF SkillIInv

(* A load marks.                                                             *)
LEMMA LoadMarksStep ==
  ASSUME SkillIInv, NEW load \in loads, LoadMarks(load)
  PROVE  SkillIInv'
<1>1. /\ SkillsTypeOK /\ TurnsCount /\ LoadsFollow /\ EntriesFollow /\ MemoryKept
      /\ PinsFollow /\ ResultFollows /\ SkillsSound
      /\ \A s \in StickyThen : Age(s) < TtlTurns \/ clearedAt >= loadedAt[s] \/ late
  BY SkillParts DEF SkillIInv
<1>2. /\ loads' = loads \ {load} /\ late' = (late \/ load.of < begun)
      /\ UNCHANGED <<currentTurn, step, input, external, scored, pins, result, begun, clearedAt>>
  BY DEF LoadMarks
<1>3. Loads(load)
  BY DEF LoadMarks, Loads
<1>4. /\ EntriesFollow' /\ MemoryKept' /\ entries' \in Seq(StickyEntries)
      /\ loadedAt' \in [SkillNames -> 0 .. LastTurn] /\ load.of \in 1 .. begun
      /\ load.name \in SkillNames
      /\ \A s \in SkillNames : loadedAt'[s] = IF s = load.name THEN load.of ELSE loadedAt[s]
      /\ \A s \in NamesOf(entries') : s = load.name \/ s \in NamesOf(entries)
  BY <1>1, <1>3, LoadKeepsMemory
<1>5. begun \in Nat /\ clearedAt \in Nat /\ clearedAt <= begun
  BY <1>1, TurnNumbers
<1>6. SkillsTypeOK'
  <2>1. late' \in BOOLEAN
    BY <1>2
  <2> QED
    BY <1>1, <1>2, <1>4, <2>1 DEF SkillsTypeOK
<1>7. TurnsCount'
  <2>1. ASSUME NEW s \in SkillNames PROVE loadedAt'[s] <= begun
    <3>1. load.of <= begun /\ loadedAt[s] <= begun
      BY <1>1, <1>4, <1>5 DEF TurnsCount
    <3> QED
      BY <1>4, <3>1
  <2> QED
    BY <1>1, <1>2, <2>1 DEF TurnsCount
<1>8. LoadsFollow'
  BY <1>1, <1>2 DEF LoadsFollow, Follows
<1>9. /\ View' = View /\ Asked' = Asked /\ AskedPins' = AskedPins
      /\ Candidates' = Candidates /\ Promoted' = Promoted
  BY <1>2, SetsStay
<1>10. StickyThen' = StickyThen /\ Given' = Given
  BY <1>2 DEF StickyThen, Given
<1>11. ASSUME ~ late', NEW s \in SkillNames, loadedAt'[s] < begun
       PROVE  s # load.name /\ loadedAt'[s] = loadedAt[s] /\ ~ late
  <2>1. ~ (load.of < begun) /\ ~ late
    BY <1>2, <1>11
  <2> QED
    BY <1>4, <1>11, <2>1
<1>12. ASSUME ~ late', step \in {"pinned", "ready"},
              NEW s \in View \cap NamesOf(entries'), loadedAt'[s] < begun
       PROVE  s \in Asked \cup StickyThen
  <2>1. s \in SkillNames
    BY <1>1, SkillSets
  <2>2. s # load.name /\ loadedAt[s] < begun /\ ~ late
    BY <1>11, <1>12, <2>1
  <2>3. s \in NamesOf(entries)
    BY <1>4, <2>2
  <2> QED
    BY <1>1, <1>12, <2>2, <2>3 DEF PinsFollow
<1>13. PinsFollow'
  BY <1>1, <1>2, <1>9, <1>10, <1>12 DEF PinsFollow
<1>14. ResultFollows'
  BY <1>1, <1>2 DEF ResultFollows
<1>15. ASSUME NEW s \in StickyThen', ~ late'
       PROVE  begun - loadedAt'[s] < TtlTurns \/ clearedAt >= loadedAt'[s]
  <2>1. s \in SkillNames /\ s \in StickyThen
    <3>1. pins \in SUBSET Pins
      BY <1>1 DEF SkillsTypeOK
    <3>2. StickyThen \subseteq SkillNames
      BY <3>1 DEF StickyThen, Pins
    <3> QED
      BY <1>10, <3>2
  <2>2. CASE s = load.name
    <3>1. loadedAt'[s] = begun
      <4>1. ~ (load.of < begun)
        BY <1>2, <1>15
      <4>2. load.of = begun
        BY <1>4, <1>5, <4>1
      <4> QED
        BY <1>4, <2>2, <4>2
    <3>2. TtlTurns \in Nat \ {0}
      BY SkillsAssumption
    <3>3. begun - begun < TtlTurns
      BY <1>5, <3>2
    <3> QED
      BY <3>1, <3>3
  <2>3. CASE s # load.name
    <3>1. loadedAt'[s] = loadedAt[s] /\ ~ late
      BY <1>2, <1>4, <1>15, <2>1, <2>3
    <3> QED
      BY <1>1, <2>1, <3>1 DEF Age
  <2> QED
    BY <2>2, <2>3
<1>16. MemorySound'
  <2>1. (\A s \in StickyThen : Age(s) < TtlTurns \/ clearedAt >= loadedAt[s] \/ late)'
    BY <1>2, <1>15 DEF Age
  <2> QED
    BY <1>4, <2>1 DEF MemorySound, MemoryKept, Distinct
<1>17. ASSUME step = "ready", ~ result.failed PROVE TurnPrepared'
  <2>1. TurnPrepared
    BY <1>1, <1>17 DEF SkillsSound
  <2>2. \A p : NeedsRoom(p)' <=> NeedsRoom(p)
    BY <1>2 DEF NeedsRoom
  <2>3. OffersSound'
    BY <1>2, <1>10, <2>1 DEF TurnPrepared, OffersSound
  <2> QED
    BY <1>2, <1>9, <1>10, <1>12, <1>17, <2>1, <2>2, <2>3 DEF TurnPrepared
<1>18. SkillsSound'
  BY <1>1, <1>2, <1>9, <1>16, <1>17 DEF SkillsSound
<1> QED
  BY <1>4, <1>6, <1>7, <1>8, <1>13, <1>14, <1>18 DEF SkillIInv

-----------------------------------------------------------------------------
(* The initial state.                                                        *)
LEMMA SkillsInitIInv == SkillsInit => SkillIInv
<1> SUFFICES ASSUME SkillsInit PROVE Unpinned
  BY UnpinnedIInv
<1>1. /\ currentTurn = 0 /\ entries = <<>> /\ loads = {}
      /\ step = "idle" /\ input \in Inputs
      /\ external = {} /\ scored = <<>> /\ pins = {} /\ result = Nothing
      /\ begun = 0 /\ loadedAt = [s \in SkillNames |-> 0] /\ clearedAt = 0 /\ late = FALSE
  BY DEF SkillsInit
<1>2. 0 \in 0 .. LastTurn /\ MaxSlots \in Nat
  BY SkillsAssumption
<1>3. SkillsTypeOK
  <2>1. entries \in Seq(StickyEntries) /\ scored \in Seq(Scores)
    BY <1>1
  <2>2. result \in [failed : BOOLEAN, active : SUBSET Pins, available : SUBSET SkillNames,
                    found : SUBSET SkillNames]
    BY <1>1 DEF Nothing
  <2> QED
    BY <1>1, <1>2, <2>1, <2>2 DEF SkillsTypeOK
<1>4. TurnsCount
  BY <1>1 DEF TurnsCount
<1>5. LoadsFollow /\ EntriesFollow
  BY <1>1 DEF LoadsFollow, EntriesFollow
<1>6. MemoryKept
  <2>1. Len(entries) = 0 /\ DOMAIN entries = {}
    BY <1>1
  <2>2. \A s \in SkillNames : ~ (loadedAt[s] > 0)
    BY <1>1
  <2> QED
    BY <1>2, <2>1, <2>2 DEF MemoryKept, Distinct, KeptForItsWindow
<1> QED
  BY <1>1, <1>3, <1>4, <1>5, <1>6 DEF Unpinned

(* No step leaves the invariant.                                             *)
LEMMA SkillStepIInv == SkillIInv /\ [SkillsNext]_skillVars => SkillIInv'
<1> SUFFICES ASSUME SkillIInv, [SkillsNext]_skillVars PROVE SkillIInv'
  OBVIOUS
<1>1. Unpinned' => SkillIInv'
  BY UnpinnedIInv, PTL
<1>2. CASE TurnBegins
  BY <1>1, <1>2, TurnBeginsStep
<1>3. CASE Recall
  BY <1>1, <1>3, RecallStep
<1>4. CASE PinAll
  BY <1>4, PinAllStep
<1>5. CASE Place
  BY <1>5, PlaceStep
<1>6. CASE Discover
  BY <1>6, DiscoverStep
<1>7. CASE SessionCleared
  BY <1>1, <1>7, SessionClearedStep
<1>8. ASSUME NEW s \in SkillNames, LoadFound(s) PROVE SkillIInv'
  BY <1>8, LoadFoundStep
<1>9. ASSUME NEW load \in loads, LoadMarks(load) PROVE SkillIInv'
  BY <1>9, LoadMarksStep
<1>10. CASE UNCHANGED skillVars
  <2>1. /\ UNCHANGED <<input, external, scored>> /\ UNCHANGED <<pins, result, step>>
        /\ UNCHANGED <<currentTurn, entries, loads, begun, loadedAt, clearedAt, late>>
    BY <1>10 DEF skillVars
  <2>2. SkillsTypeOK' /\ TurnsCount' /\ LoadsFollow' /\ EntriesFollow' /\ ResultFollows'
    BY <2>1 DEF SkillIInv, SkillsTypeOK, TurnsCount, LoadsFollow, EntriesFollow, Follows,
                ResultFollows
  <2>3. /\ View' = View /\ Asked' = Asked /\ AskedPins' = AskedPins
        /\ Candidates' = Candidates /\ Promoted' = Promoted
    BY <2>1, SetsStay
  <2>4. StickyThen' = StickyThen /\ Given' = Given /\ NamesOf(entries') = NamesOf(entries)
    BY <2>1 DEF StickyThen, Given
  <2>5. PinsFollow'
    BY <2>1, <2>3, <2>4 DEF SkillIInv, PinsFollow
  <2>6. MemorySound'
    <3>1. \A t \in SkillNames : KeptForItsWindow(t)' <=> KeptForItsWindow(t)
      BY <2>1 DEF KeptForItsWindow, Age, NewerThan, NamesOf
    <3> QED
      BY <2>1, <2>4, <3>1 DEF SkillIInv, SkillsSound, MemorySound, Age
  <2>7. TurnPrepared' <=> TurnPrepared
    BY <2>1, <2>3, <2>4 DEF TurnPrepared, OffersSound, NeedsRoom, NamesOf
  <2>8. SkillsSound'
    BY <2>1, <2>3, <2>6, <2>7 DEF SkillIInv, SkillsSound
  <2> QED
    BY <2>2, <2>5, <2>8 DEF SkillIInv
<1> QED
  BY <1>2, <1>3, <1>4, <1>5, <1>6, <1>7, <1>8, <1>9, <1>10 DEF SkillsNext

(* The invariant of the skills is inductive.                                 *)
THEOREM SkillsInvariant == SkillsSpec => []SkillIInv
  BY SkillsInitIInv, SkillStepIInv, PTL DEF SkillsSpec

(* Every reachable state of the skills has its types.                        *)
THEOREM SkillsTypes == SkillsSpec => []SkillsTypeOK
<1>1. SkillIInv => SkillsTypeOK
  BY DEF SkillIInv
<1> QED
  BY <1>1, SkillsInvariant, PTL

(* The memory of the loaded, for its window and within its slots; what a     *)
(* prepared turn is given and offered, within the budgets.                   *)
THEOREM SkillsAreSound == SkillsSpec => []SkillsSound
<1>1. SkillIInv => SkillsSound
  BY DEF SkillIInv
<1> QED
  BY <1>1, SkillsInvariant, PTL
==============================================================================
