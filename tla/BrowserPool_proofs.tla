-------------------------- MODULE BrowserPool_proofs --------------------------
(***************************************************************************)
(* Proofs about the web-fetch server: the browser pool and its semaphore,  *)
(* for every set of requests and every number of permits, and the requests *)
(* with their limits, for every rate and all times.                        *)
(*                                                                         *)
(* The semaphore part of the invariant says that inFlight counts the       *)
(* permits out (PermitsCounted) and that the queue holds the waiting       *)
(* requests once each (QueueIsWaiting): order of service and the           *)
(* refinement of the permit pool follow from these two.  The bound on the  *)
(* contexts follows from the permits: every lease and every announced      *)
(* context has one of its own (ContextsAccounted).  The limits of a        *)
(* request follow from what a promised wait brings the bucket              *)
(* (PromiseFollows) and from what the timers have left (TimersFollow).     *)
(***************************************************************************)
EXTENDS BrowserPool, ExtractService, QueueLemmas, FiniteSetTheorems

(* The three things a call of the release closure can do: nothing more than  *)
(* move the request (it was called before), free a permit, or hand it to the *)
(* waiter that came first.                                                   *)
AlreadyReturned(r, next) ==
    /\ permit[r] # "held"
    /\ UNCHANGED <<waiters, inFlight>>
    /\ permit' = [permit EXCEPT ![r] = "returned"]
    /\ pc' = [pc EXCEPT ![r] = next]
Freed(r, next) ==
    /\ permit[r] = "held"
    /\ waiters = <<>>
    /\ UNCHANGED waiters
    /\ inFlight' = inFlight - 1
    /\ permit' = [permit EXCEPT ![r] = "returned"]
    /\ pc' = [pc EXCEPT ![r] = next]
Handed(r, w, next) ==
    /\ permit[r] = "held"
    /\ waiters # <<>> /\ w = Head(waiters)
    /\ waiters' = Tail(waiters)
    /\ UNCHANGED inFlight
    /\ permit' = [permit EXCEPT ![r] = "returned", ![w] = "held"]
    /\ pc' = [pc EXCEPT ![r] = next, ![w] = "granted"]

(* pump() never wakes more than one waiter, since it runs after each release.*)
LEMMA ReturnPermitCases ==
  ASSUME PoolIInv, NEW r \in Requests, NEW next \in {"leased", "done"},
         pc[r] = "leased", ReturnPermit(r, next)
  PROVE  \/ AlreadyReturned(r, next)
         \/ Freed(r, next)
         \/ /\ Handed(r, Head(waiters), next)
            /\ Head(waiters) \in Requests \ {r}
            /\ pc[Head(waiters)] = "queued"
<1> USE DEF PoolIInv, PoolOK
<1>1. /\ waiters \in Seq(Requests) /\ Len(waiters) \in Nat
      /\ inFlight \in Nat /\ MaxConcurrency \in Nat
  BY LenProperties, ConcurrencyAssumption
<1>2. inFlight <= MaxConcurrency
      /\ (waiters # <<>> => inFlight = MaxConcurrency)
  BY DEF PermitsCounted
<1>3. CASE permit[r] # "held"
  <2>1. /\ inFlight' = inFlight + 0
        /\ waiters' = SubSeq(waiters, 0 + 1, Len(waiters))
        /\ permit' = [q \in Requests |-> IF q \in {waiters[i] : i \in 1 .. 0} THEN "held"
                                         ELSE IF q = r THEN "returned" ELSE permit[q]]
        /\ pc' = [q \in Requests |-> IF q \in {waiters[i] : i \in 1 .. 0} THEN "granted"
                                     ELSE IF q = r THEN next ELSE pc[q]]
    BY <1>3 DEF ReturnPermit
  <2>2. waiters' = waiters
    BY <1>1, <2>1, SubSeqFull
  <2>3. {waiters[i] : i \in 1 .. 0} = {}
    OBVIOUS
  <2>4. /\ permit' = [q \in Requests |-> IF q = r THEN "returned" ELSE permit[q]]
        /\ pc' = [q \in Requests |-> IF q = r THEN next ELSE pc[q]]
    BY <2>1, <2>3
  <2>5. /\ permit' = [permit EXCEPT ![r] = "returned"]
        /\ pc' = [pc EXCEPT ![r] = next]
    BY <2>4
  <2>6. inFlight' = inFlight
    BY <1>1, <2>1
  <2> QED
    BY <1>3, <2>2, <2>5, <2>6 DEF AlreadyReturned
<1>4. CASE permit[r] = "held" /\ waiters = <<>>
  <2>1. Pumped(MaxConcurrency - (inFlight - 1)) = 0
    BY <1>1, <1>2, <1>4 DEF Pumped
  <2>2. /\ inFlight' = inFlight - 1 + 0
        /\ waiters' = SubSeq(waiters, 0 + 1, Len(waiters))
        /\ permit' = [q \in Requests |-> IF q \in {waiters[i] : i \in 1 .. 0} THEN "held"
                                         ELSE IF q = r THEN "returned" ELSE permit[q]]
        /\ pc' = [q \in Requests |-> IF q \in {waiters[i] : i \in 1 .. 0} THEN "granted"
                                     ELSE IF q = r THEN next ELSE pc[q]]
    BY <1>4, <2>1 DEF ReturnPermit
  <2>3. waiters' = waiters
    BY <1>1, <2>2, SubSeqFull
  <2>4. {waiters[i] : i \in 1 .. 0} = {}
    OBVIOUS
  <2>5. /\ permit' = [q \in Requests |-> IF q = r THEN "returned" ELSE permit[q]]
        /\ pc' = [q \in Requests |-> IF q = r THEN next ELSE pc[q]]
    BY <2>2, <2>4
  <2>6. /\ permit' = [permit EXCEPT ![r] = "returned"]
        /\ pc' = [pc EXCEPT ![r] = next]
    BY <2>5
  <2>7. inFlight' = inFlight - 1
    BY <1>1, <2>2
  <2> QED
    BY <1>4, <2>3, <2>6, <2>7 DEF Freed
<1>5. CASE permit[r] = "held" /\ waiters # <<>>
  <2>1. Len(waiters) \in Nat \ {0} /\ inFlight = MaxConcurrency
    BY <1>1, <1>2, <1>5, EmptySeq
  <2>2. Pumped(MaxConcurrency - (inFlight - 1)) = 1
    BY <1>1, <2>1 DEF Pumped
  <2>3. /\ inFlight' = inFlight - 1 + 1
        /\ waiters' = SubSeq(waiters, 1 + 1, Len(waiters))
        /\ permit' = [q \in Requests |-> IF q \in {waiters[i] : i \in 1 .. 1} THEN "held"
                                         ELSE IF q = r THEN "returned" ELSE permit[q]]
        /\ pc' = [q \in Requests |-> IF q \in {waiters[i] : i \in 1 .. 1} THEN "granted"
                                     ELSE IF q = r THEN next ELSE pc[q]]
    BY <1>5, <2>2 DEF ReturnPermit
  <2>4. waiters' = Tail(waiters)
    BY <1>1, <1>5, <2>3, TailIsSubSeq
  <2>5. Head(waiters) = waiters[1] /\ 1 \in DOMAIN waiters
    BY <1>1, <2>1
  <2>6. {waiters[i] : i \in 1 .. 1} = {Head(waiters)}
    BY <2>5
  <2>7. pc[Head(waiters)] = "queued" /\ Head(waiters) \in Requests
    BY <1>1, <1>5, TailKeepsQueue DEF QueueIsWaiting
  <2>8. Head(waiters) # r
    BY <2>7
  <2>9. /\ permit' = [q \in Requests |-> IF q = Head(waiters) THEN "held"
                                         ELSE IF q = r THEN "returned" ELSE permit[q]]
        /\ pc' = [q \in Requests |-> IF q = Head(waiters) THEN "granted"
                                     ELSE IF q = r THEN next ELSE pc[q]]
    BY <2>3, <2>6
  <2>10. /\ permit' = [permit EXCEPT ![r] = "returned", ![Head(waiters)] = "held"]
         /\ pc' = [pc EXCEPT ![r] = next, ![Head(waiters)] = "granted"]
    BY <2>7, <2>8, <2>9
  <2>11. inFlight' = inFlight
    BY <1>1, <2>3
  <2> QED
    BY <1>5, <2>4, <2>7, <2>8, <2>10, <2>11 DEF Handed
<1> QED
  BY <1>3, <1>4, <1>5
-----------------------------------------------------------------------------
(* A step that leaves the semaphore alone moves requests only before it or   *)
(* behind it.                                                                *)
Quiet ==
    /\ UNCHANGED semVars
    /\ \A q \in Requests : pc'[q] # pc[q] =>
          \/ pc[q] = "idle" /\ pc'[q] = "failed"
          \/ pc[q] \in {"granted", "creating"} /\ pc'[q] \in {"creating", "leased", "failed"}

(* A release closure is called with a lease, and leaves it leased only when  *)
(* it is close() that calls it.                                              *)
Returns(r, next) ==
    /\ pc[r] = "leased"
    /\ ReturnPermit(r, next)
    /\ next = "leased" => closed

(* What a step of the pool may do to its semaphore.                          *)
LEMMA SemaphoreSteps ==
  ASSUME PoolIInv, [Next]_vars
  PROVE  /\ closed => closed'
         /\ \/ Quiet
            \/ \E r \in Requests : AcquireFree(r) \/ AcquireQueued(r) \/ AbortWaiting(r)
            \/ \E r \in Requests, next \in {"leased", "done"} : Returns(r, next)
<1> USE DEF PoolIInv, PoolOK
<1>1. ASSUME NEW r \in Requests,
             \/ AcquireClosed(r) \/ TakeIdle(r) \/ AskContext(r)
             \/ ContextCreated(r) \/ ContextFails(r)
      PROVE  Quiet /\ UNCHANGED closed
  BY <1>1 DEF AcquireClosed, TakeIdle, AskContext, ContextCreated, ContextFails,
              Quiet, closeVars
<1>2. ASSUME NEW c \in Requests, EvictIdle(c) PROVE Quiet /\ UNCHANGED closed
  BY <1>2 DEF EvictIdle, Quiet, closeVars
<1>3. ASSUME CloseStarts \/ CloseIdleContexts \/ CloseBrowser \/ CloseEnds
      PROVE  Quiet /\ (closed => closed')
  BY <1>3 DEF CloseStarts, CloseIdleContexts, CloseBrowser, CloseEnds, Quiet
<1>4. ASSUME NEW c \in Requests, CloseInflightContext(c)
      PROVE  /\ UNCHANGED closed
             /\ Quiet \/ \E r \in Requests : Returns(r, "leased")
  <2>1. UNCHANGED closed /\ closed
    BY <1>4 DEF CloseInflightContext
  <2>2. CASE UNCHANGED <<pc, semVars>>
    BY <2>1, <2>2 DEF Quiet
  <2>3. CASE \E r \in Requests : pc[r] = "leased" /\ ReturnPermit(r, "leased")
    BY <2>1, <2>3 DEF Returns
  <2> QED
    BY <1>4, <2>1, <2>2, <2>3 DEF CloseInflightContext
<1>5. ASSUME NEW r \in Requests, ReleaseLease(r)
      PROVE  Returns(r, "done") /\ UNCHANGED closed
  BY <1>5 DEF ReleaseLease, Returns, closeVars
<1>6. ASSUME NEW r \in Requests, AcquireFree(r) \/ AcquireQueued(r) \/ AbortWaiting(r)
      PROVE  UNCHANGED closed
  BY <1>6 DEF AcquireFree, AcquireQueued, AbortWaiting, closeVars
<1>7. CASE UNCHANGED vars
  BY <1>7 DEF vars, closeVars, Quiet
<1> QED
  BY <1>1, <1>2, <1>3, <1>4, <1>5, <1>6, <1>7 DEF Next, HolderStep, CloseStep

(* The queue after somebody joined it, was served, or left it.               *)
LEMMA QueueAfterAbort ==
  ASSUME PoolIInv, NEW r \in Requests, AbortWaiting(r)
  PROVE  /\ waiters' \in Seq(Requests)
         /\ ToSet(waiters') = ToSet(waiters) \ {r}
         /\ IsInjective(waiters')
         /\ r \in ToSet(waiters) /\ waiters # <<>>
<1>1. PICK k \in DOMAIN waiters : waiters[k] = r /\ waiters' = RemoveAt(waiters, k)
  BY DEF AbortWaiting
<1>2. waiters \in Seq(Requests) /\ IsInjective(waiters)
  BY DEF PoolIInv, PoolOK, QueueIsWaiting
<1>3. /\ RemoveAt(waiters, k) \in Seq(Requests)
      /\ ToSet(RemoveAt(waiters, k)) = ToSet(waiters) \ {waiters[k]}
      /\ IsInjective(RemoveAt(waiters, k))
  BY <1>1, <1>2, RemovalKeepsQueue
<1>4. r \in ToSet(waiters) /\ waiters # <<>>
  BY <1>1 DEF ToSet
<1> QED
  BY <1>1, <1>3, <1>4

-----------------------------------------------------------------------------
(* What a release does to the types, the queue and the permits.              *)
LEMMA ReturnStep ==
  ASSUME PoolIInv, NEW r \in Requests, NEW next \in {"leased", "done"},
         Returns(r, next), closed => closed'
  PROVE  /\ waiters' \in Seq(Requests)
         /\ inFlight' \in Nat
         /\ permit' \in [Requests -> {"none", "held", "returned"}]
         /\ pc' \in [Requests -> {"idle", "queued", "granted", "creating", "leased",
                                  "done", "failed"}]
         /\ QueueIsWaiting'
         /\ PermitsCounted'
         /\ ServeStep
         /\ \A q \in Requests \ {r} : pc'[q] # pc[q] =>
                                       pc[q] = "queued" /\ pc'[q] = "granted"
         /\ pc'[r] = next
<1> USE DEF PoolIInv, PoolOK
<1>1. waiters \in Seq(Requests) /\ IsInjective(waiters)
      /\ ToSet(waiters) = {q \in Requests : pc[q] = "queued"}
  BY DEF QueueIsWaiting
<1>2. pc[r] = "leased" /\ ReturnPermit(r, next) /\ (next = "leased" => closed')
  BY DEF Returns
<1>3. IsFiniteSet(Held) /\ inFlight = Cardinality(Held) /\ inFlight <= MaxConcurrency
      /\ MaxConcurrency \in Nat
  BY ConcurrencyAssumption DEF PermitsCounted
<1>4. CASE AlreadyReturned(r, next)
  <2> USE <1>4 DEF AlreadyReturned
  <2>1. Held' = Held
    BY DEF Held
  <2>2. PermitsCounted'
    BY <1>2, <2>1 DEF PermitsCounted
  <2>3. QueueIsWaiting'
    BY <1>2, <1>1 DEF QueueIsWaiting
  <2>4. ServeStep
    BY <1>1, <1>2 DEF ServeStep, ToSet
  <2> QED
    BY <1>2, <2>2, <2>3, <2>4
<1>5. CASE Freed(r, next)
  <2> USE <1>5 DEF Freed
  <2>1. Held' = Held \ {r} /\ r \in Held
    BY <1>2 DEF Held
  <2>2. /\ IsFiniteSet(Held') /\ Cardinality(Held') = Cardinality(Held) - 1
        /\ Cardinality(Held') \in Nat
    BY <1>3, <2>1, FS_RemoveElement, FS_CardinalityType
  <2>3. inFlight' = Cardinality(Held') /\ inFlight' <= MaxConcurrency
    BY <1>3, <2>2
  <2>4. PermitsCounted'
    BY <1>2, <2>2, <2>3 DEF PermitsCounted
  <2>5. QueueIsWaiting'
    BY <1>2, <1>1 DEF QueueIsWaiting
  <2>6. ServeStep
    BY <1>1, <1>2 DEF ServeStep, ToSet
  <2> QED
    BY <1>2, <2>2, <2>3, <2>4, <2>5, <2>6
<1>6. CASE /\ Handed(r, Head(waiters), next)
           /\ Head(waiters) \in Requests \ {r}
           /\ pc[Head(waiters)] = "queued"
  <2> DEFINE w == Head(waiters)
  <2>1. /\ permit[r] = "held" /\ waiters # <<>> /\ waiters' = Tail(waiters)
        /\ inFlight' = inFlight
        /\ permit' = [permit EXCEPT ![r] = "returned", ![w] = "held"]
        /\ pc' = [pc EXCEPT ![r] = next, ![w] = "granted"]
        /\ w \in Requests /\ w # r /\ pc[w] = "queued"
    BY <1>6 DEF Handed
  <2>2. /\ waiters' \in Seq(Requests)
        /\ ToSet(waiters') = ToSet(waiters) \ {w}
        /\ IsInjective(waiters')
        /\ w = waiters[1]
    BY <1>1, <2>1, TailKeepsQueue
  <2> HIDE DEF w
  <2>3. permit[w] = "none"
    BY <2>1 DEF PermitsCounted
  <2>4. Held' = (Held \ {r}) \cup {w} /\ r \in Held /\ w \notin Held \ {r}
    BY <2>1, <2>3 DEF Held
  <2>5. /\ IsFiniteSet(Held \ {r}) /\ Cardinality(Held \ {r}) = Cardinality(Held) - 1
        /\ Cardinality(Held) \in Nat
    BY <1>3, <2>4, FS_RemoveElement, FS_CardinalityType
  <2>6. IsFiniteSet(Held') /\ Cardinality(Held') = Cardinality(Held \ {r}) + 1
    BY <2>4, <2>5, FS_AddElement
  <2>7. inFlight' = Cardinality(Held')
    BY <1>3, <2>1, <2>5, <2>6
  <2>8. PermitsCounted'
    BY <1>2, <2>1, <2>6, <2>7 DEF PermitsCounted
  <2>9. QueueIsWaiting'
    <3>1. {q \in Requests : pc'[q] = "queued"} = {q \in Requests : pc[q] = "queued"} \ {w}
      BY <1>2, <2>1
    <3> QED
      BY <1>1, <2>2, <3>1 DEF QueueIsWaiting
  <2>10. ServeStep
    <3>1. ASSUME NEW i \in DOMAIN waiters, NEW j \in DOMAIN waiters, i < j,
                 pc'[waiters[j]] = "granted"
          PROVE  FALSE
      <4>1. waiters[j] \in Requests /\ pc[waiters[j]] = "queued"
        BY <1>1 DEF ToSet
      <4>2. waiters[j] = w
        BY <2>1, <3>1, <4>1, <1>2
      <4>3. /\ Len(waiters) \in Nat /\ DOMAIN waiters = 1 .. Len(waiters)
        BY <1>1, LenProperties
      <4>4. 1 \in DOMAIN waiters
        BY <4>3
      <4>5. j = 1
        BY <1>1, <2>2, <4>2, <4>4 DEF IsInjective
      <4> QED
        BY <3>1, <4>3, <4>5
    <3>2. ASSUME NEW q \in Requests, pc[q] = "idle", pc'[q] = "granted" PROVE FALSE
      BY <1>2, <2>1, <3>2
    <3> QED
      BY <3>1, <3>2 DEF ServeStep
  <2> QED
    BY <1>2, <2>1, <2>2, <2>8, <2>9, <2>10
<1> QED
  BY <1>2, <1>4, <1>5, <1>6, ReturnPermitCases

(* The queue and the permits after every step, and the order of service.     *)
LEMMA SemaphoreStep ==
  ASSUME PoolIInv, [Next]_vars
  PROVE  QueueIsWaiting' /\ PermitsCounted' /\ ServeStep
<1> USE DEF PoolIInv, PoolOK
<1>1. waiters \in Seq(Requests) /\ IsInjective(waiters)
      /\ ToSet(waiters) = {q \in Requests : pc[q] = "queued"}
  BY DEF QueueIsWaiting
<1>2. IsFiniteSet(Held) /\ inFlight = Cardinality(Held) /\ inFlight <= MaxConcurrency
      /\ MaxConcurrency \in Nat /\ inFlight \in Nat
  BY ConcurrencyAssumption DEF PermitsCounted
<1>3. closed => closed'
  BY SemaphoreSteps
<1>4. \A i \in DOMAIN waiters : waiters[i] \in Requests /\ pc[waiters[i]] = "queued"
  BY <1>1 DEF ToSet
<1>5. CASE Quiet
  <2>1. {q \in Requests : pc'[q] = "queued"} = {q \in Requests : pc[q] = "queued"}
    BY <1>5 DEF Quiet
  <2>2. QueueIsWaiting'
    BY <1>1, <1>5, <2>1 DEF Quiet, semVars, QueueIsWaiting
  <2>3. Held' = Held
    BY <1>5 DEF Quiet, semVars, Held
  <2>4. PermitsCounted'
    BY <1>3, <1>5, <2>3 DEF Quiet, semVars, PermitsCounted
  <2>5. ServeStep
    BY <1>4, <1>5 DEF Quiet, ServeStep
  <2> QED
    BY <2>2, <2>4, <2>5
<1>6. ASSUME NEW r \in Requests, AcquireFree(r)
      PROVE  QueueIsWaiting' /\ PermitsCounted' /\ ServeStep
  <2> USE <1>6 DEF AcquireFree
  <2>1. waiters = <<>> /\ permit[r] = "none"
    BY <1>2 DEF PermitsCounted
  <2>2. QueueIsWaiting'
    BY <1>1 DEF QueueIsWaiting
  <2>3. Held' = Held \cup {r} /\ r \notin Held
    BY <2>1 DEF Held
  <2>4. /\ IsFiniteSet(Held') /\ Cardinality(Held') = Cardinality(Held) + 1
    BY <1>2, <2>3, FS_AddElement
  <2>5. inFlight' = Cardinality(Held') /\ inFlight' <= MaxConcurrency
    BY <1>2, <2>4
  <2>6. PermitsCounted'
    BY <1>3, <2>1, <2>4, <2>5 DEF PermitsCounted
  <2>7. ServeStep
    BY <2>1 DEF ServeStep
  <2> QED
    BY <2>2, <2>6, <2>7
<1>7. ASSUME NEW r \in Requests, AcquireQueued(r)
      PROVE  QueueIsWaiting' /\ PermitsCounted' /\ ServeStep
  <2> USE <1>7 DEF AcquireQueued
  <2>1. r \notin ToSet(waiters)
    BY <1>1
  <2>2. /\ ToSet(waiters') = ToSet(waiters) \cup {r}
        /\ IsInjective(waiters')
    BY <1>1, <2>1, AppendKeepsQueue
  <2>3. {q \in Requests : pc'[q] = "queued"} = {q \in Requests : pc[q] = "queued"} \cup {r}
    OBVIOUS
  <2>4. QueueIsWaiting'
    BY <1>1, <2>2, <2>3 DEF QueueIsWaiting
  <2>5. Held' = Held /\ inFlight = MaxConcurrency
    BY <1>2 DEF Held
  <2>6. PermitsCounted'
    BY <1>3, <2>5 DEF PermitsCounted, closeVars
  <2>7. ServeStep
    BY <1>4 DEF ServeStep
  <2> QED
    BY <2>4, <2>6, <2>7
<1>8. ASSUME NEW r \in Requests, AbortWaiting(r)
      PROVE  QueueIsWaiting' /\ PermitsCounted' /\ ServeStep
  <2>1. /\ pc[r] = "queued" /\ pc' = [pc EXCEPT ![r] = "failed"]
        /\ UNCHANGED <<permit, inFlight, closed>>
    BY <1>8 DEF AbortWaiting, closeVars
  <2>2. /\ ToSet(waiters') = ToSet(waiters) \ {r}
        /\ IsInjective(waiters') /\ waiters # <<>>
    BY <1>8, QueueAfterAbort
  <2>3. {q \in Requests : pc'[q] = "queued"} = {q \in Requests : pc[q] = "queued"} \ {r}
    BY <2>1
  <2>4. QueueIsWaiting'
    BY <1>1, <2>2, <2>3 DEF QueueIsWaiting
  <2>5. Held' = Held
    BY <2>1 DEF Held
  <2>6. PermitsCounted'
    BY <2>1, <2>2, <2>5 DEF PermitsCounted
  <2>7. ServeStep
    BY <1>4, <2>1 DEF ServeStep
  <2> QED
    BY <2>4, <2>6, <2>7
<1>9. ASSUME NEW r \in Requests, NEW next \in {"leased", "done"}, Returns(r, next)
      PROVE  QueueIsWaiting' /\ PermitsCounted' /\ ServeStep
  BY <1>3, <1>9, ReturnStep
<1> QED
  BY <1>5, <1>6, <1>7, <1>8, <1>9, SemaphoreSteps

(* Every variable of the pool keeps its type.                                *)
LEMMA PoolTypeStep ==
  ASSUME PoolIInv, [Next]_vars
  PROVE  PoolOK' /\ (closing' # "no" => closed')
<1> USE DEF PoolIInv, PoolOK
<1>1. ASSUME NEW r \in Requests, AcquireFree(r)
      PROVE  PoolOK' /\ (closing' # "no" => closed')
  BY <1>1 DEF AcquireFree, ctxVars, closeVars
<1>2. ASSUME NEW r \in Requests, AcquireQueued(r)
      PROVE  PoolOK' /\ (closing' # "no" => closed')
  <2>1. waiters' \in Seq(Requests)
    BY <1>2, AppendProperties DEF AcquireQueued
  <2> QED
    BY <1>2, <2>1 DEF AcquireQueued, ctxVars, closeVars
<1>3. ASSUME NEW r \in Requests, AbortWaiting(r)
      PROVE  PoolOK' /\ (closing' # "no" => closed')
  <2>1. waiters' \in Seq(Requests)
    BY <1>3, QueueAfterAbort
  <2> QED
    BY <1>3, <2>1 DEF AbortWaiting, ctxVars, closeVars
<1>4. ASSUME NEW r \in Requests, AcquireClosed(r) \/ TakeIdle(r) \/ AskContext(r)
      PROVE  PoolOK' /\ (closing' # "no" => closed')
  BY <1>4 DEF AcquireClosed, TakeIdle, AskContext, semVars, ctxVars, closeVars
<1>5. ASSUME NEW r \in Requests, ContextCreated(r) \/ EvictIdle(r)
      PROVE  PoolOK' /\ (closing' # "no" => closed')
  BY <1>5 DEF ContextCreated, EvictIdle, semVars, ctxVars, closeVars
<1>6. ASSUME NEW r \in Requests, ContextFails(r)
      PROVE  PoolOK' /\ (closing' # "no" => closed')
  <2>1. crashes' \in 0 .. MaxCrashes
    BY <1>6, CrashesAssumption DEF ContextFails
  <2> QED
    BY <1>6, <2>1 DEF ContextFails, semVars, closeVars
<1>7. ASSUME NEW r \in Requests, ReleaseLease(r)
      PROVE  PoolOK' /\ (closing' # "no" => closed')
  <2>1. Returns(r, "done") /\ (closed => closed')
    BY <1>7 DEF ReleaseLease, Returns, closeVars
  <2>2. /\ waiters' \in Seq(Requests)
        /\ inFlight' \in Nat
        /\ permit' \in [Requests -> {"none", "held", "returned"}]
        /\ pc' \in [Requests -> {"idle", "queued", "granted", "creating", "leased",
                                 "done", "failed"}]
    BY <2>1, ReturnStep
  <2>3. ~ closed => ctxOf[r] \in Requests
    BY <1>7 DEF ReleaseLease, ContextsAccounted, Leased
  <2> QED
    BY <1>7, <2>2, <2>3 DEF ReleaseLease, closeVars
<1>8. ASSUME NEW c \in Requests, CloseInflightContext(c)
      PROVE  PoolOK' /\ (closing' # "no" => closed')
  <2>1. UNCHANGED <<ctxVars, closed, closing>> /\ closed
        /\ closeLeft' \subseteq Requests
    BY <1>8 DEF CloseInflightContext
  <2>2. CASE UNCHANGED <<pc, semVars>>
    BY <2>1, <2>2 DEF semVars, ctxVars
  <2>3. ASSUME NEW r \in Requests, pc[r] = "leased", ReturnPermit(r, "leased")
        PROVE  PoolOK'
    <3>1. Returns(r, "leased")
      BY <2>1, <2>3 DEF Returns
    <3>2. /\ waiters' \in Seq(Requests)
          /\ inFlight' \in Nat
          /\ permit' \in [Requests -> {"none", "held", "returned"}]
          /\ pc' \in [Requests -> {"idle", "queued", "granted", "creating", "leased",
                                   "done", "failed"}]
      BY <2>1, <3>1, ReturnStep
    <3> QED
      BY <2>1, <3>2 DEF ctxVars
  <2> QED
    BY <1>8, <2>1, <2>2, <2>3 DEF CloseInflightContext
<1>9. ASSUME CloseStarts \/ CloseIdleContexts \/ CloseBrowser \/ CloseEnds
      PROVE  PoolOK' /\ (closing' # "no" => closed')
  BY <1>9 DEF CloseStarts, CloseIdleContexts, CloseBrowser, CloseEnds, semVars, ctxVars
<1>10. CASE UNCHANGED vars
  BY <1>10 DEF vars, semVars, ctxVars, closeVars
<1> QED
  BY <1>1, <1>2, <1>3, <1>4, <1>5, <1>6, <1>7, <1>8, <1>9, <1>10
  DEF Next, HolderStep, CloseStep

-----------------------------------------------------------------------------
(* A step that moves no request into or out of creating, leased and done,    *)
(* and leaves the contexts alone.                                            *)
LEMMA ContextsFrame ==
  ASSUME PoolOK, ContextsAccounted, UNCHANGED <<ctxOf, idle, inflight>>,
         \A q \in Requests : pc'[q] # pc[q] =>
            /\ pc[q] \notin {"creating", "leased", "done"}
            /\ pc'[q] \notin {"creating", "leased", "done"}
  PROVE  ContextsAccounted'
<1>1. Creating' = Creating /\ Leased' = Leased
  BY DEF Creating, Leased
<1>2. \A c \in idle \cup inflight : pc'[c] \in {"leased", "done"}
  BY DEF PoolOK, ContextsAccounted
<1> QED
  BY <1>1, <1>2 DEF ContextsAccounted

(* Every lease has a permit and a context of its own, so with a request that *)
(* is about to announce a context there is room for it.                      *)
LEMMA RoomForContext ==
  ASSUME PoolIInv, ~ closed, idle = {}, NEW r \in Requests, pc[r] = "granted"
  PROVE  Cardinality(inflight) + Cardinality(Creating) + 1 <= MaxConcurrency
<1> USE DEF PoolIInv, PoolOK
<1>1. IsFiniteSet(Held) /\ Cardinality(Held) <= MaxConcurrency /\ Cardinality(Held) \in Nat
  BY FS_CardinalityType DEF PermitsCounted
<1>2. Leased \cup Creating \cup {r} \in SUBSET Held
  BY DEF PermitsCounted, Held, Leased, Creating
<1>3. IsFiniteSet(Leased) /\ IsFiniteSet(Creating)
      /\ IsFiniteSet(Leased \cup Creating)
  BY <1>1, <1>2, FS_Subset
<1>4. Cardinality(Leased \cup Creating \cup {r}) <= Cardinality(Held)
  BY <1>1, <1>2, FS_Subset
<1>5. /\ r \notin Leased \cup Creating
      /\ Leased \cap Creating = {}
  BY DEF Leased, Creating
<1>6. Cardinality(Leased \cup Creating \cup {r}) = Cardinality(Leased \cup Creating) + 1
  BY <1>3, <1>5, FS_AddElement
<1>7. Cardinality(Leased \cup Creating) = Cardinality(Leased) + Cardinality(Creating)
  <2>1. Cardinality(Leased \cup Creating) =
           Cardinality(Leased) + Cardinality(Creating) - Cardinality(Leased \cap Creating)
    BY <1>3, FS_Union
  <2>2. Cardinality(Leased) \in Nat /\ Cardinality(Creating) \in Nat
    BY <1>3, FS_CardinalityType
  <2>3. Cardinality(Leased \cap Creating) = 0
    BY <1>5, FS_EmptySet
  <2> QED
    BY <2>1, <2>2, <2>3
<1>8. Cardinality(inflight) <= Cardinality(Leased)
  <2> DEFINE leaseOf == [q \in Leased |-> ctxOf[q]]
  <2>1. leaseOf \in Surjection(Leased, inflight)
    BY DEF ContextsAccounted, Surjection, Leased
  <2> HIDE DEF leaseOf
  <2> QED
    BY <1>3, <2>1, FS_Surjection
<1>9. IsFiniteSet(inflight) /\ Cardinality(inflight) \in Nat
      /\ Cardinality(Creating) \in Nat /\ Cardinality(Leased) \in Nat
  BY <1>3, FS_CardinalityType DEF ContextsAccounted
<1> QED
  BY <1>1, <1>4, <1>6, <1>7, <1>8, <1>9, ConcurrencyAssumption

(* The contexts after every step of an open pool.                            *)
LEMMA ContextsStep ==
  ASSUME PoolIInv, [Next]_vars, ~ closed'
  PROVE  ContextsAccounted'
<1> USE DEF PoolIInv, PoolOK
<1>1. ~ closed /\ ContextsAccounted /\ closing = "no"
  BY SemaphoreSteps
<1>2. /\ IsFiniteSet(idle) /\ IsFiniteSet(inflight) /\ IsFiniteSet(Creating)
      /\ Cardinality(idle) \in Nat /\ Cardinality(inflight) \in Nat
      /\ Cardinality(Creating) \in Nat /\ MaxConcurrency \in Nat
      /\ Cardinality(idle) + Cardinality(inflight) + Cardinality(Creating) <= MaxConcurrency
      /\ idle \cap inflight = {}
      /\ inflight = {ctxOf[q] : q \in Leased}
      /\ \A q, p \in Leased : ctxOf[q] = ctxOf[p] => q = p
      /\ \A c \in idle \cup inflight : pc[c] \in {"leased", "done"}
  BY <1>1, FS_CardinalityType, ConcurrencyAssumption DEF ContextsAccounted
<1>3. ASSUME NEW r \in Requests,
             AcquireFree(r) \/ AcquireQueued(r) \/ AcquireClosed(r) \/ AbortWaiting(r)
      PROVE  ContextsAccounted'
  <2>1. /\ UNCHANGED <<ctxOf, idle, inflight>>
        /\ \A q \in Requests : pc'[q] # pc[q] =>
              /\ pc[q] \notin {"creating", "leased", "done"}
              /\ pc'[q] \notin {"creating", "leased", "done"}
    BY <1>3 DEF AcquireFree, AcquireQueued, AcquireClosed, AbortWaiting, ctxVars
  <2> QED
    BY <1>1, <2>1, ContextsFrame
<1>4. ASSUME NEW r \in Requests, TakeIdle(r) PROVE ContextsAccounted'
  <2>1. PICK c \in idle : /\ idle' = idle \ {c}
                         /\ inflight' = inflight \cup {c}
                         /\ ctxOf' = [ctxOf EXCEPT ![r] = c]
    BY <1>4 DEF TakeIdle
  <2>2. pc[r] = "granted" /\ pc' = [pc EXCEPT ![r] = "leased"]
    BY <1>4 DEF TakeIdle
  <2>3. Creating' = Creating /\ Leased' = Leased \cup {r} /\ r \notin Leased
    BY <2>2 DEF Creating, Leased
  <2>4. c \notin inflight
    BY <1>2
  <2>5. /\ IsFiniteSet(idle') /\ Cardinality(idle') = Cardinality(idle) - 1
        /\ IsFiniteSet(inflight') /\ Cardinality(inflight') = Cardinality(inflight) + 1
    BY <1>2, <2>1, <2>4, FS_RemoveElement, FS_AddElement
  <2>6. inflight' = {ctxOf'[q] : q \in Leased'}
    BY <1>2, <2>1, <2>3 DEF Leased
  <2>7. \A q, p \in Leased' : ctxOf'[q] = ctxOf'[p] => q = p
    BY <1>2, <2>1, <2>3, <2>4 DEF Leased
  <2>8. \A x \in idle' \cup inflight' : pc'[x] \in {"leased", "done"}
    BY <1>2, <2>1, <2>2
  <2>9. Cardinality(idle') + Cardinality(inflight') + Cardinality(Creating') <= MaxConcurrency
    BY <1>2, <2>3, <2>5
  <2> QED
    BY <1>2, <2>1, <2>3, <2>5, <2>6, <2>7, <2>8, <2>9 DEF ContextsAccounted
<1>5. ASSUME NEW r \in Requests, AskContext(r) PROVE ContextsAccounted'
  <2>1. /\ pc[r] = "granted" /\ idle = {} /\ pc' = [pc EXCEPT ![r] = "creating"]
        /\ UNCHANGED <<ctxOf, idle, inflight>>
    BY <1>1, <1>5 DEF AskContext, ctxVars
  <2>2. Creating' = Creating \cup {r} /\ r \notin Creating /\ Leased' = Leased
    BY <2>1 DEF Creating, Leased
  <2>3. IsFiniteSet(Creating') /\ Cardinality(Creating') = Cardinality(Creating) + 1
    BY <1>2, <2>2, FS_AddElement
  <2>4. Cardinality(inflight) + Cardinality(Creating) + 1 <= MaxConcurrency
    BY <1>1, <2>1, RoomForContext
  <2>5. Cardinality(idle') + Cardinality(inflight') + Cardinality(Creating') <= MaxConcurrency
    BY <1>2, <2>1, <2>3, <2>4, FS_EmptySet
  <2>6. \A c \in idle' \cup inflight' : pc'[c] \in {"leased", "done"}
    BY <1>2, <2>1
  <2> QED
    BY <1>2, <2>1, <2>2, <2>3, <2>5, <2>6 DEF ContextsAccounted
<1>6. ASSUME NEW r \in Requests, ContextCreated(r) PROVE ContextsAccounted'
  <2>1. /\ pc[r] = "creating" /\ pc' = [pc EXCEPT ![r] = "leased"]
        /\ inflight' = inflight \cup {r} /\ idle' = idle
        /\ ctxOf' = [ctxOf EXCEPT ![r] = r]
    BY <1>6 DEF ContextCreated
  <2>2. /\ Creating' = Creating \ {r} /\ r \in Creating
        /\ Leased' = Leased \cup {r} /\ r \notin Leased
    BY <2>1 DEF Creating, Leased
  <2>3. r \notin idle \cup inflight
    BY <1>2, <2>1
  <2>4. /\ IsFiniteSet(Creating') /\ Cardinality(Creating') = Cardinality(Creating) - 1
        /\ IsFiniteSet(inflight') /\ Cardinality(inflight') = Cardinality(inflight) + 1
    BY <1>2, <2>1, <2>2, <2>3, FS_RemoveElement, FS_AddElement
  <2>5. inflight' = {ctxOf'[q] : q \in Leased'}
    BY <1>2, <2>1, <2>2 DEF Leased
  <2>6. \A q, p \in Leased' : ctxOf'[q] = ctxOf'[p] => q = p
    BY <1>2, <2>1, <2>2, <2>3 DEF Leased
  <2>7. \A c \in idle' \cup inflight' : pc'[c] \in {"leased", "done"}
    BY <1>2, <2>1
  <2>8. Cardinality(idle') + Cardinality(inflight') + Cardinality(Creating') <= MaxConcurrency
    BY <1>2, <2>1, <2>4
  <2> QED
    BY <1>2, <2>1, <2>3, <2>4, <2>5, <2>6, <2>7, <2>8 DEF ContextsAccounted
<1>7. ASSUME NEW r \in Requests, ContextFails(r) PROVE ContextsAccounted'
  <2>1. /\ pc[r] = "creating" /\ pc' = [pc EXCEPT ![r] = "failed"]
        /\ UNCHANGED <<ctxOf, idle, inflight>>
    BY <1>7 DEF ContextFails
  <2>2. Creating' = Creating \ {r} /\ r \in Creating /\ Leased' = Leased
    BY <2>1 DEF Creating, Leased
  <2>3. IsFiniteSet(Creating') /\ Cardinality(Creating') = Cardinality(Creating) - 1
    BY <1>2, <2>2, FS_RemoveElement
  <2>4. \A c \in idle' \cup inflight' : pc'[c] \in {"leased", "done"}
    BY <1>2, <2>1
  <2>5. Cardinality(idle') + Cardinality(inflight') + Cardinality(Creating') <= MaxConcurrency
    BY <1>2, <2>1, <2>3
  <2> QED
    BY <1>2, <2>1, <2>2, <2>3, <2>4, <2>5 DEF ContextsAccounted
<1>8. ASSUME NEW r \in Requests, ReleaseLease(r) PROVE ContextsAccounted'
  <2>1. /\ pc[r] = "leased" /\ inflight' = inflight \ {ctxOf[r]}
        /\ idle' = idle \cup {ctxOf[r]} /\ ctxOf' = ctxOf
        /\ Returns(r, "done")
    BY <1>1, <1>8 DEF ReleaseLease, Returns
  <2>2. /\ \A q \in Requests \ {r} : pc'[q] # pc[q] => pc[q] = "queued" /\ pc'[q] = "granted"
        /\ pc'[r] = "done"
    BY <1>1, <2>1, ReturnStep
  <2>3. Creating' = Creating /\ Leased' = Leased \ {r} /\ r \in Leased
    BY <2>1, <2>2 DEF Creating, Leased
  <2>4. ctxOf[r] \in inflight /\ ctxOf[r] \notin idle
    BY <1>2, <2>3
  <2>5. /\ IsFiniteSet(idle') /\ Cardinality(idle') = Cardinality(idle) + 1
        /\ IsFiniteSet(inflight') /\ Cardinality(inflight') = Cardinality(inflight) - 1
    BY <1>2, <2>1, <2>4, FS_RemoveElement, FS_AddElement
  <2>6. inflight' = {ctxOf'[q] : q \in Leased'}
    BY <1>2, <2>1, <2>3
  <2>7. \A c \in idle' \cup inflight' : pc'[c] \in {"leased", "done"}
    BY <1>2, <2>1, <2>2, <2>4
  <2>8. Cardinality(idle') + Cardinality(inflight') + Cardinality(Creating') <= MaxConcurrency
    BY <1>2, <2>3, <2>5
  <2> QED
    BY <1>2, <2>1, <2>3, <2>5, <2>6, <2>7, <2>8 DEF ContextsAccounted
<1>9. ASSUME NEW c \in Requests, EvictIdle(c) PROVE ContextsAccounted'
  <2>1. /\ c \in idle /\ idle' = idle \ {c} /\ UNCHANGED <<pc, ctxOf, inflight>>
    BY <1>9 DEF EvictIdle
  <2>2. IsFiniteSet(idle') /\ Cardinality(idle') = Cardinality(idle) - 1
    BY <1>2, <2>1, FS_RemoveElement
  <2>3. Creating' = Creating /\ Leased' = Leased
    BY <2>1 DEF Creating, Leased
  <2>4. Cardinality(idle') + Cardinality(inflight') + Cardinality(Creating') <= MaxConcurrency
    BY <1>2, <2>1, <2>2, <2>3
  <2> QED
    BY <1>2, <2>1, <2>2, <2>3, <2>4 DEF ContextsAccounted
<1>10. ~ CloseStep
  BY <1>1 DEF CloseStep, CloseStarts, CloseIdleContexts, CloseInflightContext,
              CloseBrowser, CloseEnds
<1>11. CASE UNCHANGED vars
  BY <1>1, <1>11, ContextsFrame DEF vars, ctxVars
<1> QED
  BY <1>3, <1>4, <1>5, <1>6, <1>7, <1>8, <1>9, <1>10, <1>11 DEF Next, HolderStep

-----------------------------------------------------------------------------
(* A pool nobody has asked satisfies its invariant.                          *)
LEMMA PoolInitIInv == Init => PoolIInv
<1> SUFFICES ASSUME Init PROVE PoolIInv
  OBVIOUS
<1> USE DEF Init
<1>1. PoolOK
  <2>1. waiters \in Seq(Requests) /\ crashes \in 0 .. MaxCrashes /\ inFlight \in Nat
    BY CrashesAssumption
  <2>2. /\ pc \in [Requests -> {"idle", "queued", "granted", "creating", "leased",
                               "done", "failed"}]
        /\ permit \in [Requests -> {"none", "held", "returned"}]
        /\ ctxOf \in [Requests -> Requests \cup {NoContext}]
    OBVIOUS
  <2>3. /\ idle \subseteq Requests /\ inflight \subseteq Requests
        /\ closed \in BOOLEAN /\ closeLeft \subseteq Requests /\ closing = "no"
    OBVIOUS
  <2> QED
    BY <2>1, <2>2, <2>3 DEF PoolOK
<1>2. QueueIsWaiting
  BY DEF QueueIsWaiting, ToSet, IsInjective
<1>3. Held = {} /\ Creating = {} /\ Leased = {}
  BY DEF Held, Creating, Leased
<1>4. PermitsCounted
  BY <1>3, FS_EmptySet, ConcurrencyAssumption DEF PermitsCounted
<1>5. ContextsAccounted
  BY <1>3, FS_EmptySet, ConcurrencyAssumption DEF ContextsAccounted
<1> QED
  BY <1>1, <1>2, <1>4, <1>5 DEF PoolIInv

(* Every step keeps it.                                                      *)
LEMMA PoolStepIInv == PoolIInv /\ [Next]_vars => PoolIInv'
BY PoolTypeStep, SemaphoreStep, ContextsStep DEF PoolIInv

(* The pool's inductive invariant holds of every behaviour.                  *)
THEOREM PoolInvariant == Spec => []PoolIInv
BY PoolInitIInv, PoolStepIInv, PTL DEF Spec

(* Every variable of the pool keeps its type.                                *)
THEOREM PoolTypes == Spec => []PoolOK
<1>1. PoolIInv => PoolOK
  BY DEF PoolIInv
<1> QED
  BY <1>1, PoolInvariant, PTL

(* While the pool is open, contexts stay within maxConcurrency and none is   *)
(* in two hands.                                                             *)
THEOREM ContextsStayBounded == Spec => []ContextsBounded
<1>1. PoolIInv => ContextsBounded
  BY DEF PoolIInv, ContextsAccounted, Creating, Leased, ContextsBounded
<1> QED
  BY <1>1, PoolInvariant, PTL

(* Waiters are served in the order they came, and nobody passes the queue.   *)
THEOREM FirstComeFirstServed == Spec => ServedInOrder
<1>1. PoolIInv /\ [Next]_vars => [ServeStep]_vars
  BY SemaphoreStep
<1> QED
  BY <1>1, PoolInvariant, PTL DEF Spec, ServedInOrder

(* The permit pool counts as the pool does.                                  *)
LEMMA SameCardinality == ASSUME NEW S PROVE Promise!Cardinality(S) = Cardinality(S)
BY Zenon DEF Promise!Cardinality, Cardinality

(* What a step does to the holders and the waiting ones of a permit pool.    *)
LEMMA StepIsPoolStep ==
  ASSUME PoolIInv, [Next]_vars
  PROVE  [Promise!Next]_<<Held, ToSet(waiters)>>
<1> USE DEF PoolIInv, PoolOK
<1>1. waiters \in Seq(Requests) /\ IsInjective(waiters)
      /\ ToSet(waiters) = {q \in Requests : pc[q] = "queued"}
  BY DEF QueueIsWaiting
<1>2. ToSet(waiters') = {q \in Requests : pc'[q] = "queued"}
  BY SemaphoreStep DEF QueueIsWaiting
<1>3. IsFiniteSet(Held) /\ inFlight = Cardinality(Held) /\ inFlight <= MaxConcurrency
      /\ MaxConcurrency \in Nat /\ inFlight \in Nat
      /\ (waiters # <<>> => inFlight = MaxConcurrency)
  BY ConcurrencyAssumption DEF PermitsCounted
<1>4. CASE Quiet
  <2>1. Held' = Held /\ waiters' = waiters
    BY <1>4 DEF Quiet, semVars, Held
  <2> QED
    BY <2>1
<1>5. ASSUME NEW r \in Requests, AcquireFree(r) PROVE Promise!Take(r)
  <2>1. waiters = <<>> /\ waiters' = waiters /\ permit[r] = "none" /\ pc[r] = "idle"
    BY <1>3, <1>5 DEF AcquireFree, PermitsCounted
  <2>2. Held' = Held \cup {r} /\ r \notin Held
    BY <1>5, <2>1 DEF AcquireFree, Held
  <2>3. r \notin ToSet(waiters) /\ ToSet(waiters) = {}
    BY <1>1, <2>1 DEF ToSet
  <2>4. Cardinality(Held) < MaxConcurrency
    BY <1>3, <1>5 DEF AcquireFree
  <2> QED
    BY <2>1, <2>2, <2>3, <2>4, SameCardinality DEF Promise!Take, Promise!Outside
<1>6. ASSUME NEW r \in Requests, AcquireQueued(r) PROVE Promise!Join(r)
  <2>1. pc[r] = "idle" /\ permit[r] = "none" /\ Held' = Held
        /\ Cardinality(Held) = MaxConcurrency
    BY <1>3, <1>6 DEF AcquireQueued, PermitsCounted, Held
  <2>2. r \notin Held /\ r \notin ToSet(waiters)
    BY <1>1, <2>1 DEF Held
  <2>3. ToSet(waiters') = ToSet(waiters) \cup {r}
    BY <1>1, <1>2, <1>6 DEF AcquireQueued
  <2> QED
    BY <2>1, <2>2, <2>3, SameCardinality DEF Promise!Join, Promise!Outside
<1>7. ASSUME NEW r \in Requests, AbortWaiting(r) PROVE Promise!GiveUp(r)
  <2>1. Held' = Held
    BY <1>7 DEF AbortWaiting, Held
  <2>2. r \in ToSet(waiters) /\ ToSet(waiters') = ToSet(waiters) \ {r}
    BY <1>7, QueueAfterAbort
  <2> QED
    BY <2>1, <2>2 DEF Promise!GiveUp
<1>8. ASSUME NEW r \in Requests, NEW next \in {"leased", "done"}, Returns(r, next)
      PROVE  \/ UNCHANGED <<Held, ToSet(waiters)>>
             \/ Promise!Return(r)
             \/ \E w \in Requests : Promise!HandOver(r, w)
  <2>1. pc[r] = "leased" /\ ReturnPermit(r, next)
    BY <1>8 DEF Returns
  <2>2. CASE AlreadyReturned(r, next)
    <3>1. Held' = Held /\ waiters' = waiters
      BY <2>2 DEF AlreadyReturned, Held
    <3> QED
      BY <3>1
  <2>3. CASE Freed(r, next)
    <3>1. r \in Held /\ Held' = Held \ {r} /\ waiters = <<>> /\ waiters' = waiters
      BY <2>3 DEF Freed, Held
    <3>2. ToSet(waiters) = {}
      BY <3>1 DEF ToSet
    <3> QED
      BY <3>1, <3>2 DEF Promise!Return
  <2>4. CASE /\ Handed(r, Head(waiters), next)
             /\ Head(waiters) \in Requests \ {r}
             /\ pc[Head(waiters)] = "queued"
    <3> DEFINE w == Head(waiters)
    <3>1. /\ w \in Requests /\ w # r /\ pc[w] = "queued" /\ permit[r] = "held"
          /\ permit' = [permit EXCEPT ![r] = "returned", ![w] = "held"]
          /\ waiters' = Tail(waiters) /\ waiters # <<>>
      BY <2>4 DEF Handed
    <3>2. ToSet(waiters') = ToSet(waiters) \ {w} /\ w \in ToSet(waiters)
      BY <1>1, <3>1, TailKeepsQueue
    <3> HIDE DEF w
    <3>3. Held' = (Held \ {r}) \cup {w} /\ r \in Held
      BY <3>1 DEF Held
    <3> QED
      BY <3>1, <3>2, <3>3 DEF Promise!HandOver
  <2> QED
    BY <2>1, <2>2, <2>3, <2>4, ReturnPermitCases
<1> QED
  BY <1>4, <1>5, <1>6, <1>7, <1>8, SemaphoreSteps DEF Promise!Next

(* The pool's semaphore is a permit pool: a free permit is never kept from a *)
(* waiting request, and a returned one goes straight to a waiting one.       *)
THEOREM PoolIsPermitPool == Spec => ImplementsPermitPool
<1>1. Init => Promise!Init
  BY DEF Init, Promise!Init, Held, ToSet
<1>2. PoolIInv /\ [Next]_vars => [Promise!Next]_<<Held, ToSet(waiters)>>
  BY StepIsPoolStep
<1>3. [Promise!Next]_<<Held, ToSet(waiters)>> => [Promise!Next]_(Promise!poolVars)
  BY DEF Promise!poolVars
<1> QED
  BY <1>1, <1>2, <1>3, PoolInvariant, PTL DEF Spec, ImplementsPermitPool, Promise!Spec

(* Hence no more permits are out than there are, and none lies idle while a  *)
(* request waits.                                                            *)
THEOREM PermitsWellUsed == Spec => [](Promise!PermitsBounded /\ Promise!NoIdlePermit)
<1>1. PoolIInv => Promise!PermitsBounded /\ Promise!NoIdlePermit
  <2> SUFFICES ASSUME PoolIInv PROVE Promise!PermitsBounded /\ Promise!NoIdlePermit
    OBVIOUS
  <2>1. ToSet(waiters) # {} => waiters # <<>>
    BY DEF ToSet
  <2> QED
    BY <2>1, SameCardinality
    DEF PoolIInv, PermitsCounted, Promise!PermitsBounded, Promise!NoIdlePermit
<1> QED
  BY <1>1, PoolInvariant, PTL

-----------------------------------------------------------------------------
-----------------------------------------------------------------------------
(* ExtractService: the limits of a request.                                  *)

(* What rounding up gives is enough, and no more than one too much.          *)
LEMMA RoundedUp ==
  ASSUME NEW a \in Nat, NEW b \in Nat \ {0}
  PROVE  /\ CeilDiv(a, b) \in Nat /\ CeilDiv(a, b) * b >= a
         /\ CeilDiv(a, b) * b <= a + b - 1
BY DEF CeilDiv

(* A product of naturals is one.                                             *)
LEMMA ProductType ==
  ASSUME NEW a \in Nat, NEW b \in Nat
  PROVE  a * b \in Nat
OBVIOUS

(* The bucket's size, and a token fits into it.                              *)
LEMMA BucketIs ==
  /\ Full \in Nat \ {0} /\ TokenCost \in Nat \ {0} /\ Refill \in Nat \ {0} /\ TokenCost <= Full
BY BucketAssumption DEF Full

(* What is said of the bucket, in its types and what they hold.              *)
BucketKept ==
    /\ tokens \in 0 .. Full /\ since \in 0 .. CeilDiv(Full, Refill)
    /\ level \in 0 .. Full /\ promise \in Nat \cup {Never}
    /\ LazyBucketIsExact /\ PromiseFollows

(* What the bucket holds is in its range.                                    *)
LEMMA RefilledType ==
  ASSUME BucketKept
  PROVE  Refilled \in 0 .. Full /\ tokens + since * Refill \in Nat
<1>1. since \in Nat /\ tokens \in Nat
  <2>1. CeilDiv(Full, Refill) \in Nat
    BY BucketIs, RoundedUp
  <2>2. since \in 0 .. CeilDiv(Full, Refill) /\ tokens \in 0 .. Full
    BY DEF BucketKept
  <2> QED
    BY <2>1, <2>2, BucketIs
<1>2. since * Refill \in Nat
  BY <1>1, BucketIs, ProductType
<1> QED
  BY <1>1, <1>2, BucketIs DEF Refilled, Least

(* A tick later the bucket that is asked holds what a tick brings, also when *)
(* the time since is no longer counted.                                      *)
LEMMA RefilledLater ==
  ASSUME NEW t \in 0 .. Full, NEW s \in 0 .. CeilDiv(Full, Refill)
  PROVE  Least(Full, t + Least(CeilDiv(Full, Refill), s + 1) * Refill)
            = Least(Full, Least(Full, t + s * Refill) + Refill)
<1> DEFINE C == CeilDiv(Full, Refill)
<1>1. /\ C \in Nat /\ C * Refill >= Full
      /\ Full \in Nat /\ Refill \in Nat \ {0} /\ t \in Nat /\ s \in Nat /\ s <= C
  BY BucketIs, RoundedUp
<1>2. s * Refill \in Nat /\ (s + 1) * Refill = s * Refill + Refill
  BY <1>1, ProductType
<1> HIDE DEF C
<1>3. PICK p \in Nat : p = s * Refill
  BY <1>2
<1>4. Least(Full, t + Least(C, s + 1) * Refill) = Least(Full, Least(Full, t + p) + Refill)
  <2>1. CASE s = C
    <3>1. Least(C, s + 1) = C
      BY <1>1, <2>1 DEF Least
    <3>2. Least(C, s + 1) * Refill = p /\ p >= Full
      BY <1>1, <1>3, <2>1, <3>1
    <3>3. Least(Full, t + p) = Least(Full, Least(Full, t + p) + Refill)
      BY <1>1, <3>2 DEF Least
    <3> QED
      BY <3>2, <3>3
  <2>2. CASE s # C
    <3>1. Least(C, s + 1) = s + 1
      BY <1>1, <2>2 DEF Least
    <3>2. Least(C, s + 1) * Refill = p + Refill
      BY <1>2, <1>3, <3>1
    <3>3. Least(Full, t + (p + Refill)) = Least(Full, Least(Full, t + p) + Refill)
      BY <1>1 DEF Least
    <3> QED
      BY <3>2, <3>3
  <2> QED
    BY <2>1, <2>2
<1> QED
  BY <1>3, <1>4 DEF C

(* Steps in which the bucket is not asked and no time passes.                *)
LEMMA BucketStays ==
  ASSUME BucketKept, UNCHANGED bucketVars
  PROVE  BucketKept'
BY DEF BucketKept, bucketVars, LazyBucketIsExact, Refilled, PromiseFollows

(* A token is taken.                                                         *)
LEMMA TakeTokenKeeps ==
  ASSUME BucketKept, TakeToken
  PROVE  BucketKept'
<1>1. /\ Refilled \in 0 .. Full /\ Refilled >= TokenCost /\ level = Refilled
      /\ tokens' = Refilled - TokenCost /\ since' = 0 /\ level' = level - TokenCost
      /\ promise' = Never
  BY RefilledType DEF BucketKept, TakeToken, LazyBucketIsExact
<1>2. CeilDiv(Full, Refill) \in Nat
  BY BucketIs, RoundedUp
<1>3. tokens' + since' * Refill = tokens'
  BY <1>1, BucketIs
<1>4. LazyBucketIsExact'
  BY <1>1, <1>3, BucketIs DEF LazyBucketIsExact, Refilled, Least, Full
<1> QED
  BY <1>1, <1>2, <1>4, BucketIs DEF BucketKept, PromiseFollows

(* A client is told when to come back.                                       *)
LEMMA TellRetryKeeps ==
  ASSUME BucketKept, TellRetry
  PROVE  BucketKept'
<1>1. /\ Refilled \in 0 .. Full /\ Refilled < TokenCost /\ level = Refilled
      /\ tokens' = Refilled /\ since' = 0 /\ level' = level
      /\ promise' = CeilDiv(TokenCost - Refilled, Refill)
  BY RefilledType DEF BucketKept, TellRetry, LazyBucketIsExact, RetryAfter
<1>2. CeilDiv(Full, Refill) \in Nat
  BY BucketIs, RoundedUp
<1>3. tokens' + since' * Refill = tokens'
  BY <1>1, BucketIs
<1>4. LazyBucketIsExact'
  BY <1>1, <1>3, BucketIs DEF LazyBucketIsExact, Refilled, Least, Full
<1>5. /\ TokenCost - Refilled \in Nat
      /\ promise' \in Nat /\ promise' * Refill >= TokenCost - Refilled
  <2>1. TokenCost - Refilled \in Nat
    BY <1>1, BucketIs
  <2> QED
    BY <1>1, <2>1, BucketIs, RoundedUp
<1>6. promise' * Refill \in Nat
  BY <1>5, BucketIs, ProductType
<1> QED
  BY <1>1, <1>2, <1>4, <1>5, <1>6, BucketIs DEF BucketKept, PromiseFollows

(* Time passes over the bucket.                                              *)
LEMMA BucketFills ==
  ASSUME BucketKept, Tick
  PROVE  BucketKept'
<1>1. /\ tokens' = tokens /\ since' = Least(CeilDiv(Full, Refill), since + 1)
      /\ level' = Least(Full, level + Refill)
      /\ promise' = IF promise > 0 THEN promise - 1 ELSE promise
  BY DEF Tick
<1>2. /\ tokens \in 0 .. Full /\ since \in 0 .. CeilDiv(Full, Refill)
      /\ level \in 0 .. Full /\ promise \in Nat \cup {Never}
      /\ level = Least(Full, tokens + since * Refill)
      /\ promise # Never => level + promise * Refill >= TokenCost
  BY DEF BucketKept, LazyBucketIsExact, Refilled, PromiseFollows
<1>3. CeilDiv(Full, Refill) \in Nat
  BY BucketIs, RoundedUp
<1>4. LazyBucketIsExact'
  <2>1. Least(Full, tokens + since' * Refill) = Least(Full, level + Refill)
    BY <1>1, <1>2, RefilledLater
  <2> QED
    BY <1>1, <2>1 DEF LazyBucketIsExact, Refilled, Full
<1>5. since' \in 0 .. CeilDiv(Full, Refill) /\ level' \in 0 .. Full
  BY <1>1, <1>2, <1>3, BucketIs DEF Least
<1>6. promise' \in Nat \cup {Never} /\ PromiseFollows'
  <2>1. CASE promise = Never
    BY <1>1, <2>1 DEF Never, PromiseFollows
  <2>2. CASE promise = 0
    <3>1. promise' = 0 /\ promise' * Refill = 0 /\ level >= TokenCost
      BY <1>1, <1>2, <2>2, BucketIs DEF Never
    <3> QED
      BY <1>1, <1>2, <3>1, BucketIs DEF Least, Never, PromiseFollows
  <2>3. CASE promise \in Nat \ {0}
    <3>1. promise' = promise - 1 /\ promise' \in Nat
      BY <1>1, <2>3
    <3>2. promise' * Refill \in Nat /\ promise * Refill = promise' * Refill + Refill
      BY <2>3, <3>1, BucketIs
    <3>3. level + promise * Refill >= TokenCost
      BY <1>2, <2>3 DEF Never
    <3> QED
      BY <1>1, <1>2, <3>1, <3>2, <3>3, BucketIs DEF Least, Never, PromiseFollows
  <2> QED
    BY <1>2, <2>1, <2>2, <2>3
<1> QED
  BY <1>1, <1>2, <1>4, <1>5, <1>6 DEF BucketKept

(* The codes a response may have.                                            *)
ResponseCodes ==
    {"ok", "denied", "limited", "invalid", "blocked", "no-browser", "no-provider",
     "upstream", "too-large", "timeout", "internal"}

(* What is said of the handlers, in their types and timers.                  *)
HandlersKept ==
    /\ phase \in [Fetches -> Pending \cup {"new", "answered", "cut"}]
    /\ render \in [Fetches -> {"none", "static", "browser", "auto", "search"}]
    /\ left \in [Fetches -> 0 .. RequestMs + WaitMs + PauseMs]
    /\ age \in [Fetches -> Nat]
    /\ answer \in [Fetches -> {"none"} \cup ResponseCodes]
    /\ TimersFollow

(* What is said of the browser and the shutdown: their types.                *)
ServerKept ==
    /\ pool \in {"up", "lost", "closed"} /\ leaked \in 0 .. Permits
    /\ server \in {"up", "stopping", "exit 0", "exit 1"} /\ stopLeft \in 0 .. StopMs

(* The invariant in its parts.                                               *)
LEMMA KeptInParts ==
  ExtractIInv <=> HandlersKept /\ BucketKept /\ ServerKept
BY DEF ExtractIInv, ExtractTypeOK, HandlersKept, ResponseCodes, BucketKept, ServerKept

(* The times are naturals, and the longest wait is the longer of two.        *)
LEMMA TimesAre ==
  /\ RequestMs \in Nat \ {0} /\ WaitMs \in Nat \ {0} /\ PauseMs \in Nat
  /\ LongestWait \in Nat /\ LongestWait >= WaitMs /\ LongestWait >= PauseMs
BY TimesAssumption DEF LongestWait

(* A handler is left with its response.                                      *)
LEMMA AnswersKeeps ==
  ASSUME HandlersKept, NEW f \in Fetches, NEW code \in ResponseCodes, Answers(f, code)
  PROVE  HandlersKept'
<1>1. /\ phase' = [phase EXCEPT ![f] = "answered"] /\ answer' = [answer EXCEPT ![f] = code]
      /\ left' = [left EXCEPT ![f] = 0] /\ age' = [age EXCEPT ![f] = 0]
      /\ render' = [render EXCEPT ![f] = "none"]
  BY DEF Answers
<1>2. /\ 0 \in 0 .. RequestMs + WaitMs + PauseMs /\ 0 <= 2 * RequestMs + LongestWait + PauseMs
  BY TimesAre
<1>3. /\ phase' \in [Fetches -> Pending \cup {"new", "answered", "cut"}]
      /\ render' \in [Fetches -> {"none", "static", "browser", "auto", "search"}]
      /\ left' \in [Fetches -> 0 .. RequestMs + WaitMs + PauseMs]
      /\ age' \in [Fetches -> Nat]
      /\ answer' \in [Fetches -> {"none"} \cup ResponseCodes]
  BY <1>1, <1>2 DEF HandlersKept
<1>4. TimersFollow'
  <2> SUFFICES ASSUME NEW g \in Fetches
               PROVE  /\ phase'[g] \in {"new", "answered"} => age'[g] = 0
                      /\ phase'[g] \in {"static", "search"} => age'[g] + left'[g] <= RequestMs
                      /\ phase'[g] \in {"lease", "page"} => age'[g] + left'[g] <= 2 * RequestMs
                      /\ phase'[g] = "pause" =>
                            age'[g] + left'[g] <= 2 * RequestMs + LongestWait
                      /\ age'[g] + left'[g] <= 2 * RequestMs + LongestWait + PauseMs
    BY DEF TimersFollow, LongestWait
  <2>1. CASE g = f
    BY <1>1, <1>2, <2>1 DEF HandlersKept
  <2>2. CASE g # f
    BY <1>1, <2>2 DEF HandlersKept, TimersFollow
  <2> QED
    BY <2>1, <2>2
<1> QED
  BY <1>3, <1>4 DEF HandlersKept

(* A handler starts a phase under a timer that is not longer than the phases *)
(* are given together.                                                       *)
LEMMA EntersKeeps ==
  ASSUME HandlersKept, NEW f \in Fetches, NEW p \in Pending,
         NEW n \in 0 .. RequestMs + WaitMs + PauseMs,
         phase' = [phase EXCEPT ![f] = p], left' = [left EXCEPT ![f] = n],
         UNCHANGED <<age, answer>>,
         render' \in [Fetches -> {"none", "static", "browser", "auto", "search"}],
         p \in {"static", "search"} => age[f] + n <= RequestMs,
         p \in {"lease", "page"} => age[f] + n <= 2 * RequestMs,
         p = "pause" => age[f] + n <= 2 * RequestMs + LongestWait,
         age[f] + n <= 2 * RequestMs + LongestWait + PauseMs
  PROVE  HandlersKept'
<1>1. p \notin {"new", "answered", "cut"}
  BY DEF Pending
<1>2. /\ phase' \in [Fetches -> Pending \cup {"new", "answered", "cut"}]
      /\ left' \in [Fetches -> 0 .. RequestMs + WaitMs + PauseMs]
      /\ age' \in [Fetches -> Nat]
      /\ answer' \in [Fetches -> {"none"} \cup ResponseCodes]
  BY DEF HandlersKept
<1>3. TimersFollow'
  <2> SUFFICES ASSUME NEW g \in Fetches
               PROVE  /\ phase'[g] \in {"new", "answered"} => age'[g] = 0
                      /\ phase'[g] \in {"static", "search"} => age'[g] + left'[g] <= RequestMs
                      /\ phase'[g] \in {"lease", "page"} => age'[g] + left'[g] <= 2 * RequestMs
                      /\ phase'[g] = "pause" =>
                            age'[g] + left'[g] <= 2 * RequestMs + LongestWait
                      /\ age'[g] + left'[g] <= 2 * RequestMs + LongestWait + PauseMs
    BY DEF TimersFollow, LongestWait
  <2>1. CASE g = f
    BY <1>1, <2>1 DEF HandlersKept
  <2>2. CASE g # f
    BY <2>2 DEF HandlersKept, TimersFollow
  <2> QED
    BY <2>1, <2>2
<1> QED
  BY <1>2, <1>3 DEF HandlersKept

(* A step that answers a request and asks nothing of the bucket.             *)
LEMMA AnswerKeeps ==
  ASSUME ExtractIInv, NEW f \in Fetches, NEW code \in ResponseCodes, Answers(f, code),
         UNCHANGED <<bucketVars, serverVars>>
  PROVE  ExtractIInv'
<1>1. HandlersKept'
  BY KeptInParts, AnswersKeeps
<1>2. BucketKept'
  BY KeptInParts, BucketStays
<1>3. ServerKept'
  BY KeptInParts DEF ServerKept, serverVars
<1> QED
  BY <1>1, <1>2, <1>3, KeptInParts, PTL

(* A step that starts a phase and asks nothing of the bucket.                *)
LEMMA EnterKeeps ==
  ASSUME ExtractIInv, NEW f \in Fetches, NEW p \in Pending,
         NEW n \in 0 .. RequestMs + WaitMs + PauseMs, Enters(f, p, n),
         UNCHANGED <<bucketVars, serverVars>>,
         p \in {"static", "search"} => age[f] + n <= RequestMs,
         p \in {"lease", "page"} => age[f] + n <= 2 * RequestMs,
         p = "pause" => age[f] + n <= 2 * RequestMs + LongestWait,
         age[f] + n <= 2 * RequestMs + LongestWait + PauseMs
  PROVE  ExtractIInv'
<1>1. /\ phase' = [phase EXCEPT ![f] = p] /\ left' = [left EXCEPT ![f] = n]
      /\ UNCHANGED <<age, answer>> /\ HandlersKept
      /\ render' \in [Fetches -> {"none", "static", "browser", "auto", "search"}]
  BY KeptInParts DEF Enters, HandlersKept
<1>2. HandlersKept'
  BY <1>1, EntersKeeps
<1>3. BucketKept'
  BY KeptInParts, BucketStays
<1>4. ServerKept'
  BY KeptInParts DEF ServerKept, serverVars
<1> QED
  BY <1>2, <1>3, <1>4, KeptInParts, PTL

(* What is known of one request.                                             *)
LEMMA RequestIs ==
  ASSUME ExtractIInv, NEW f \in Fetches
  PROVE  /\ left[f] \in Nat /\ left[f] <= RequestMs + WaitMs + PauseMs /\ age[f] \in Nat
         /\ phase[f] \in {"new", "answered"} => age[f] = 0
         /\ phase[f] \in {"static", "search"} => age[f] + left[f] <= RequestMs
         /\ phase[f] \in {"lease", "page"} => age[f] + left[f] <= 2 * RequestMs
         /\ phase[f] = "pause" => age[f] + left[f] <= 2 * RequestMs + LongestWait
         /\ age[f] + left[f] <= 2 * RequestMs + LongestWait + PauseMs
<1>1. left[f] \in 0 .. RequestMs + WaitMs + PauseMs /\ age[f] \in Nat
  BY DEF ExtractIInv, ExtractTypeOK
<1> QED
  BY <1>1, TimesAre DEF ExtractIInv, TimersFollow

(* A request arrives.                                                        *)
LEMMA ArrivesKeeps ==
  ASSUME ExtractIInv, NEW f \in Fetches, Arrives(f)
  PROVE  ExtractIInv'
<1>1. HandlersKept /\ BucketKept /\ ServerKept
  BY KeptInParts
<1>2. CASE Denied(f)
  <2>1. "denied" \in ResponseCodes
    BY DEF ResponseCodes
  <2> QED
    BY <1>2, <2>1, AnswerKeeps DEF Denied
<1>3. CASE Limited(f)
  <2>1. "limited" \in ResponseCodes
    BY DEF ResponseCodes
  <2>2. HandlersKept' /\ BucketKept'
    BY <1>1, <1>3, <2>1, AnswersKeeps, TellRetryKeeps DEF Limited
  <2>3. ServerKept'
    BY <1>1, <1>3 DEF Limited, ServerKept, serverVars
  <2> QED
    BY <2>2, <2>3, KeptInParts, PTL
<1>4. ASSUME NEW code \in ResponseCodes, Refused(f, code) PROVE ExtractIInv'
  <2>1. HandlersKept' /\ BucketKept'
    BY <1>1, <1>4, AnswersKeeps, TakeTokenKeeps DEF Refused
  <2>2. ServerKept'
    BY <1>1, <1>4 DEF Refused, ServerKept, serverVars
  <2> QED
    BY <2>1, <2>2, KeptInParts, PTL
<1>5. ASSUME NEW mode \in {"static", "browser", "auto", "search"},
             NEW p \in {"static", "lease", "search"}, Admitted(f, mode, p)
      PROVE  ExtractIInv'
  <2>1. /\ phase[f] = "new" /\ TakeToken /\ render' = [render EXCEPT ![f] = mode]
        /\ phase' = [phase EXCEPT ![f] = p] /\ left' = [left EXCEPT ![f] = RequestMs]
        /\ UNCHANGED <<age, answer, serverVars>>
    BY <1>5 DEF Admitted
  <2>2. age[f] = 0 /\ age[f] \in Nat /\ p \in Pending
    BY <2>1, RequestIs DEF Pending
  <2>3. /\ RequestMs \in 0 .. RequestMs + WaitMs + PauseMs
        /\ age[f] + RequestMs <= RequestMs /\ age[f] + RequestMs <= 2 * RequestMs
        /\ age[f] + RequestMs <= 2 * RequestMs + LongestWait
        /\ age[f] + RequestMs <= 2 * RequestMs + LongestWait + PauseMs
    BY <2>2, TimesAre
  <2>4. render' \in [Fetches -> {"none", "static", "browser", "auto", "search"}]
    BY <1>1, <2>1 DEF HandlersKept
  <2>5. HandlersKept'
    BY <1>1, <2>1, <2>2, <2>3, <2>4, EntersKeeps
  <2>6. BucketKept'
    BY <1>1, <2>1, TakeTokenKeeps
  <2>7. ServerKept'
    BY <1>1, <2>1 DEF ServerKept, serverVars
  <2> QED
    BY <2>5, <2>6, <2>7, KeptInParts, PTL
<1>6. {"invalid", "blocked", "no-browser", "no-provider"} \subseteq ResponseCodes
  BY DEF ResponseCodes
<1>7. CASE NoBrowser(f) \/ BadExtract(f) \/ BadSearch(f) \/ Blocked(f) \/ NoProvider(f)
  BY <1>4, <1>6, <1>7 DEF NoBrowser, BadExtract, BadSearch, Blocked, NoProvider
<1>8. CASE ExtractStatic(f) \/ ExtractAuto(f) \/ ExtractBrowser(f) \/ Search(f)
  BY <1>5, <1>8 DEF ExtractStatic, ExtractAuto, ExtractBrowser, Search
<1> QED
  BY <1>2, <1>3, <1>7, <1>8 DEF Arrives

(* A pipeline goes on.                                                       *)
LEMMA WorksKeeps ==
  ASSUME ExtractIInv, NEW f \in Fetches, Works(f)
  PROVE  ExtractIInv'
<1>1. /\ "ok" \in ResponseCodes /\ "upstream" \in ResponseCodes /\ "too-large" \in ResponseCodes
      /\ {"lease", "page", "pause", "scroll"} \subseteq Pending
  BY DEF ResponseCodes, Pending
<1>2. ASSUME NEW readable \in BOOLEAN, StaticGives(f, readable) PROVE ExtractIInv'
  <2>1. /\ phase[f] = "static" /\ UNCHANGED <<bucketVars, serverVars>>
        /\ Enters(f, "lease", RequestMs) \/ Answers(f, "ok")
    BY <1>2 DEF StaticGives
  <2>2. CASE Enters(f, "lease", RequestMs)
    <3>1. /\ RequestMs \in 0 .. RequestMs + WaitMs + PauseMs
          /\ age[f] + RequestMs <= 2 * RequestMs
          /\ age[f] + RequestMs <= 2 * RequestMs + LongestWait + PauseMs
      BY <2>1, RequestIs, TimesAre
    <3> QED
      BY <1>1, <2>1, <2>2, <3>1, EnterKeeps
  <2>3. CASE Answers(f, "ok")
    BY <1>1, <2>1, <2>3, AnswerKeeps
  <2> QED
    BY <2>1, <2>2, <2>3
<1>3. ASSUME NEW code \in {"upstream", "too-large"}, StaticFails(f, code) PROVE ExtractIInv'
  BY <1>1, <1>3, AnswerKeeps DEF StaticFails
<1>4. CASE LeaseGranted(f)
  <2>1. /\ phase[f] = "lease" /\ Enters(f, "page", Least(left[f], WaitMs))
        /\ UNCHANGED <<bucketVars, serverVars>>
    BY <1>4 DEF LeaseGranted
  <2>2. /\ Least(left[f], WaitMs) \in 0 .. RequestMs + WaitMs + PauseMs
        /\ Least(left[f], WaitMs) <= left[f]
    BY RequestIs, TimesAre DEF Least
  <2>3. /\ age[f] + Least(left[f], WaitMs) <= 2 * RequestMs
        /\ age[f] + Least(left[f], WaitMs) <= 2 * RequestMs + LongestWait + PauseMs
    BY <2>1, <2>2, RequestIs, TimesAre
  <2> QED
    BY <1>1, <2>1, <2>2, <2>3, EnterKeeps
<1>5. ASSUME NEW n \in {0, WaitMs, PauseMs}, Navigated(f, n) PROVE ExtractIInv'
  <2>1. /\ phase[f] = "page" /\ Enters(f, "pause", n) /\ UNCHANGED <<bucketVars, serverVars>>
    BY <1>5 DEF Navigated
  <2>2. /\ n \in 0 .. RequestMs + WaitMs + PauseMs /\ n <= LongestWait
    BY TimesAre
  <2>3. /\ age[f] + n <= 2 * RequestMs + LongestWait
        /\ age[f] + n <= 2 * RequestMs + LongestWait + PauseMs
    BY <2>1, <2>2, RequestIs, TimesAre
  <2> QED
    BY <1>1, <2>1, <2>2, <2>3, EnterKeeps
<1>6. CASE Scrolls(f)
  <2>1. /\ phase[f] = "pause" /\ left[f] = 0 /\ Enters(f, "scroll", PauseMs)
        /\ UNCHANGED <<bucketVars, serverVars>>
    BY <1>6 DEF Scrolls
  <2>2. PauseMs \in 0 .. RequestMs + WaitMs + PauseMs
    BY TimesAre
  <2>3. age[f] + PauseMs <= 2 * RequestMs + LongestWait + PauseMs
    BY <2>1, RequestIs, TimesAre
  <2> QED
    BY <1>1, <2>1, <2>2, <2>3, EnterKeeps
<1>7. ASSUME NEW code \in {"ok", "upstream"}, SearchGives(f, code) PROVE ExtractIInv'
  BY <1>1, <1>7, AnswerKeeps DEF SearchGives
<1> QED
  BY <1>2, <1>3, <1>4, <1>5, <1>6, <1>7 DEF Works

(* A timer is out, or the pool fails first.                                  *)
LEMMA TimerOutKeeps ==
  ASSUME ExtractIInv, NEW f \in Fetches, TimerOut(f)
  PROVE  ExtractIInv'
<1>1. {"ok", "upstream", "too-large", "timeout", "internal"} \subseteq ResponseCodes
  BY DEF ResponseCodes
<1>2. CASE StaticTimesOut(f) \/ LeaseTimesOut(f)
  BY <1>1, <1>2, AnswerKeeps DEF StaticTimesOut, LeaseTimesOut
<1>3. CASE LeaseFails(f)
  <2>1. HandlersKept'
    BY <1>1, <1>3, KeptInParts, AnswersKeeps DEF LeaseFails
  <2>2. BucketKept'
    BY <1>3, KeptInParts, BucketStays DEF LeaseFails
  <2>3. Cardinality(Holders) \in Nat
    <3>1. IsFiniteSet(Holders)
      BY FetchesAssumption, FS_Subset DEF Holders
    <3> QED
      BY <3>1, FS_CardinalityType
  <2>4. leaked' \in 0 .. Permits
    <3>1. leaked \in 0 .. Permits /\ Permits \in Nat
      BY KeptInParts, TimesAssumption DEF ServerKept
    <3>2. leaked' = leaked \/ (Cardinality(Holders) + leaked < Permits /\ leaked' = leaked + 1)
      BY <1>3 DEF LeaseFails
    <3>3. ASSUME NEW n \in Nat, n + leaked < Permits PROVE leaked + 1 \in 0 .. Permits
      BY <3>1, <3>3
    <3> QED
      BY <2>3, <3>1, <3>2, <3>3
  <2>5. ServerKept'
    BY <1>3, <2>4, KeptInParts DEF LeaseFails, ServerKept
  <2> QED
    BY <2>1, <2>2, <2>5, KeptInParts, PTL
<1>4. CASE NavigationFails(f) \/ SelectorMissing(f)
  BY <1>1, <1>4, AnswerKeeps DEF NavigationFails, SelectorMissing
<1>5. ASSUME NEW code \in {"ok", "too-large"}, PageRead(f, code) PROVE ExtractIInv'
  <2>1. (IF pool = "up" THEN code ELSE "internal") \in ResponseCodes
    BY <1>1
  <2> QED
    BY <1>5, <2>1, AnswerKeeps DEF PageRead
<1>6. ASSUME NEW code \in {"internal", "upstream"}, SearchTimesOut(f, code) PROVE ExtractIInv'
  BY <1>1, <1>6, AnswerKeeps DEF SearchTimesOut
<1> QED
  BY <1>2, <1>3, <1>4, <1>5, <1>6 DEF TimerOut

(* The browser is lost, or the server stops.                                 *)
LEMMA StopsKeeps ==
  ASSUME ExtractIInv,
         BrowserLost \/ ShutdownStarts \/ HandlersFinish \/ HandlersThrow \/ ShutdownTimesOut
  PROVE  ExtractIInv'
<1>1. HandlersKept /\ BucketKept /\ ServerKept
  BY KeptInParts
<1>2. BucketKept'
  <2>1. UNCHANGED bucketVars
    BY DEF BrowserLost, ShutdownStarts, HandlersFinish, HandlersThrow, ShutdownTimesOut, Exits
  <2> QED
    BY <1>1, <2>1, BucketStays
<1>3. ServerKept'
  <2>1. 0 \in 0 .. StopMs /\ StopMs \in 0 .. StopMs
    BY TimesAssumption
  <2>2. CASE BrowserLost
    BY <1>1, <2>2 DEF ServerKept, BrowserLost
  <2>3. CASE ShutdownStarts
    BY <1>1, <2>1, <2>3 DEF ServerKept, ShutdownStarts
  <2>4. CASE HandlersFinish \/ HandlersThrow \/ ShutdownTimesOut
    BY <1>1, <2>1, <2>4 DEF ServerKept, HandlersFinish, HandlersThrow, ShutdownTimesOut, Exits
  <2> QED
    BY <2>2, <2>3, <2>4
<1>4. CASE BrowserLost \/ ShutdownStarts
  <2>1. HandlersKept'
    BY <1>1, <1>4 DEF HandlersKept, TimersFollow, LongestWait, BrowserLost, ShutdownStarts
  <2> QED
    BY <1>2, <1>3, <2>1, KeptInParts, PTL
<1>5. CASE HandlersFinish \/ HandlersThrow \/ ShutdownTimesOut
  <2>1. /\ phase' = [f \in Fetches |-> IF f \in Timed THEN "cut" ELSE phase[f]]
        /\ left' = [f \in Fetches |-> 0] /\ UNCHANGED <<render, age, answer>>
    BY <1>5 DEF HandlersFinish, HandlersThrow, ShutdownTimesOut, Exits
  <2>2. 0 \in 0 .. RequestMs + WaitMs + PauseMs
    BY TimesAre
  <2>3. TimersFollow'
    <3> SUFFICES ASSUME NEW g \in Fetches
                 PROVE  /\ phase'[g] \in {"new", "answered"} => age'[g] = 0
                        /\ phase'[g] \in {"static", "search"} => age'[g] + left'[g] <= RequestMs
                        /\ phase'[g] \in {"lease", "page"} =>
                              age'[g] + left'[g] <= 2 * RequestMs
                        /\ phase'[g] = "pause" =>
                              age'[g] + left'[g] <= 2 * RequestMs + LongestWait
                        /\ age'[g] + left'[g] <= 2 * RequestMs + LongestWait + PauseMs
      BY DEF TimersFollow, LongestWait
    <3>1. left'[g] = 0 /\ age'[g] = age[g] /\ phase'[g] \notin Pending
      BY <2>1 DEF Timed, Pending
    <3>2. phase'[g] \in {"new", "answered"} => phase'[g] = phase[g]
      BY <2>1
    <3> QED
      BY <3>1, <3>2, RequestIs, TimesAre DEF Pending
  <2>4. HandlersKept'
    BY <1>1, <2>1, <2>2, <2>3 DEF HandlersKept
  <2> QED
    BY <1>2, <1>3, <2>4, KeptInParts, PTL
<1> QED
  BY <1>4, <1>5

(* Time passes, from every timer and over the bucket.                        *)
LEMMA TickKeeps ==
  ASSUME ExtractIInv, Tick
  PROVE  ExtractIInv'
<1>1. HandlersKept /\ BucketKept /\ ServerKept
  BY KeptInParts
<1>2. BucketKept'
  BY <1>1, BucketFills
<1>3. ServerKept'
  <2>1. /\ UNCHANGED <<pool, leaked, server>> /\ (server = "stopping" => stopLeft > 0)
        /\ stopLeft' = IF server = "stopping" THEN stopLeft - 1 ELSE stopLeft
    BY DEF Tick
  <2>2. StopMs \in Nat /\ stopLeft \in 0 .. StopMs
    BY <1>1, TimesAssumption DEF ServerKept
  <2>3. stopLeft' \in 0 .. StopMs
    BY <2>1, <2>2
  <2> QED
    BY <1>1, <2>1, <2>3 DEF ServerKept
<1>4. HandlersKept'
  <2>1. /\ left' = [f \in Fetches |-> IF f \in Timed THEN left[f] - 1 ELSE left[f]]
        /\ age' = [f \in Fetches |-> IF f \in Timed THEN age[f] + 1 ELSE age[f]]
        /\ UNCHANGED <<phase, render, answer>> /\ \A f \in Timed : left[f] > 0
    BY DEF Tick
  <2>2. \A g \in Fetches :
           /\ left'[g] \in 0 .. RequestMs + WaitMs + PauseMs /\ age'[g] \in Nat
           /\ age'[g] + left'[g] = age[g] + left[g]
           /\ phase[g] \notin Pending => age'[g] = age[g]
    BY <2>1, RequestIs, TimesAre DEF Timed
  <2>3. {"new", "answered"} \cap Pending = {}
    BY DEF Pending
  <2>4. TimersFollow'
    BY <1>1, <2>1, <2>2, <2>3 DEF HandlersKept, TimersFollow, LongestWait
  <2>5. /\ left' \in [Fetches -> 0 .. RequestMs + WaitMs + PauseMs]
        /\ age' \in [Fetches -> Nat]
    BY <2>1, <2>2
  <2> QED
    BY <1>1, <2>1, <2>4, <2>5 DEF HandlersKept
<1> QED
  BY <1>2, <1>3, <1>4, KeptInParts, PTL

(* The server starts with a full bucket and no request.                      *)
LEMMA ExtractInitially ==
  ASSUME ExtractInit
  PROVE  ExtractIInv
<1>1. /\ CeilDiv(Full, Refill) \in Nat /\ Full \in Nat /\ 0 * Refill = 0
  BY BucketIs, RoundedUp
<1>2. BucketKept
  BY <1>1 DEF ExtractInit, BucketKept, LazyBucketIsExact, Refilled, Least, PromiseFollows, Never
<1>3. 0 \in 0 .. RequestMs + WaitMs + PauseMs /\ 0 <= 2 * RequestMs + LongestWait + PauseMs
  BY TimesAre
<1>4. HandlersKept
  BY <1>3 DEF ExtractInit, HandlersKept, TimersFollow, Pending, ResponseCodes
<1>5. ServerKept
  BY TimesAssumption DEF ExtractInit, ServerKept
<1> QED
  BY <1>2, <1>4, <1>5, KeptInParts

(* The inductive invariant of the requests and their limits.                 *)
THEOREM ServiceInvariant == ExtractSpec => []ExtractIInv
<1>1. ExtractInit => ExtractIInv
  BY ExtractInitially
<1>2. ExtractIInv /\ [ExtractNext]_extractVars => ExtractIInv'
  <2> SUFFICES ASSUME ExtractIInv, [ExtractNext]_extractVars PROVE ExtractIInv'
    OBVIOUS
  <2>1. ASSUME NEW f \in Fetches, Arrives(f) \/ Works(f) \/ TimerOut(f) PROVE ExtractIInv'
    BY <2>1, ArrivesKeeps, WorksKeeps, TimerOutKeeps
  <2>2. CASE \/ BrowserLost \/ ShutdownStarts
             \/ HandlersFinish \/ HandlersThrow \/ ShutdownTimesOut
    BY <2>2, StopsKeeps
  <2>3. CASE Tick
    BY <2>3, TickKeeps
  <2>4. CASE UNCHANGED extractVars
    <3>1. HandlersKept /\ BucketKept /\ ServerKept
      BY KeptInParts
    <3>2. HandlersKept' /\ BucketKept' /\ ServerKept'
      BY <2>4, <3>1, BucketStays
         DEF extractVars, bucketVars, serverVars, HandlersKept, TimersFollow, LongestWait,
             ServerKept
    <3> QED
      BY <3>2, KeptInParts, PTL
  <2> QED
    BY <2>1, <2>2, <2>3, <2>4 DEF ExtractNext
<1> QED
  BY <1>1, <1>2, PTL DEF ExtractSpec

(* The bucket that is refilled when it is asked is exact, whoever waits as   *)
(* long as he is told is let in, and every request is answered within two    *)
(* timeouts and the waits it asks for, for every rate and all times.         *)
THEOREM LimitsAreKept == ExtractSpec => []RequestLimits
<1>1. ExtractIInv => RequestLimits
  <2> SUFFICES ASSUME ExtractIInv PROVE RequestLimits
    OBVIOUS
  <2>1. RetryAfterKept
    <3> SUFFICES ASSUME promise = 0 PROVE level >= TokenCost
      BY DEF RetryAfterKept
    <3>1. promise # Never
      BY DEF Never
    <3>2. 0 * Refill = 0 /\ Full \in Nat /\ TokenCost \in Nat
      BY BucketIs, BucketAssumption
    <3>3. level \in 0 .. Full
      BY DEF ExtractIInv, ExtractTypeOK
    <3>4. level + promise * Refill >= TokenCost
      BY <3>1 DEF ExtractIInv, PromiseFollows
    <3>5. level + 0 >= TokenCost
      BY <3>2, <3>4
    <3> QED
      BY <3>2, <3>3, <3>5
  <2>2. AnswerBounded
    BY RequestIs, TimesAre DEF AnswerBounded
  <2> QED
    BY <2>1, <2>2 DEF ExtractIInv, RequestLimits
<1> QED
  BY <1>1, ServiceInvariant, PTL
=============================================================================
