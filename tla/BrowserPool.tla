----------------------------- MODULE BrowserPool ----------------------------
(***************************************************************************)
(* The browser pool of the web-fetch server (packages/web-fetch-server/    *)
(* src/browser/pool.ts), driven by the extract requests of                 *)
(* pipeline/browser-pipeline.ts and by the shutdown handler.               *)
(*                                                                         *)
(* A request takes a permit of the FIFO semaphore, then an idle browser    *)
(* context or a new one, works, and releases the lease in a finally block. *)
(* Every await is a point where other requests, timers and close()         *)
(* interleave.  A release closure of the semaphore takes effect once.      *)
(*                                                                         *)
(* Abstractions: a context is named by the request it was created for; the *)
(* order in which idle contexts are reused is left open; what happens on   *)
(* the page is one step.                                                   *)
(***************************************************************************)
EXTENDS Naturals, FiniteSets, Sequences, SequencesExt

CONSTANTS
    Requests,           \* extract requests, each acquires once
    NoContext,          \* a request without a context
    MaxConcurrency,     \* permits of the semaphore
    MaxCrashes          \* bound: newContext calls the browser may fail

ASSUME ConcurrencyAssumption == MaxConcurrency \in Nat \ {0}
ASSUME CrashesAssumption == MaxCrashes \in Nat
ASSUME NoContextAssumption == NoContext \notin Requests

VARIABLES
    pc,                 \* where acquire, and then the request, is
    permit,             \* the request's release closure: none, held, returned
    waiters,            \* semaphore.waiters
    inFlight,           \* semaphore.inFlight
    ctxOf,              \* the context of the request's lease
    idle,               \* idleContexts
    inflight,           \* inflightContexts
    crashes,            \* newContext calls that failed so far
    closed,             \* this.closed
    closing,            \* where close() is
    closeLeft           \* snapshot of inflightContexts close() walks

semVars == <<permit, waiters, inFlight>>
ctxVars == <<ctxOf, idle, inflight, crashes>>
closeVars == <<closed, closing, closeLeft>>
vars == <<pc, semVars, ctxVars, closeVars>>

(* Types of the pool's fields and of the requests.                           *)
PoolOK ==
    /\ pc \in [Requests -> {"idle", "queued", "granted", "creating", "leased",
                            "done", "failed"}]
    /\ permit \in [Requests -> {"none", "held", "returned"}]
    /\ waiters \in Seq(Requests)
    /\ inFlight \in Nat
    /\ ctxOf \in [Requests -> Requests \cup {NoContext}]
    /\ idle \subseteq Requests /\ inflight \subseteq Requests
    /\ crashes \in 0 .. MaxCrashes
    /\ closed \in BOOLEAN /\ closeLeft \subseteq Requests
    /\ closing \in {"no", "idle", "inflight", "browser", "done"}

(* The server listens once launch() has brought the browser up.              *)
Init ==
    /\ pc = [r \in Requests |-> "idle"]
    /\ permit = [r \in Requests |-> "none"]
    /\ waiters = <<>>
    /\ inFlight = 0
    /\ ctxOf = [r \in Requests |-> NoContext]
    /\ idle = {} /\ inflight = {}
    /\ crashes = 0
    /\ closed = FALSE /\ closing = "no" /\ closeLeft = {}

-----------------------------------------------------------------------------
(* FifoSemaphore.acquire finds a free permit.                                *)
AcquireFree(r) ==
    /\ pc[r] = "idle"
    /\ ~ closed
    /\ inFlight < MaxConcurrency
    /\ inFlight' = inFlight + 1
    /\ permit' = [permit EXCEPT ![r] = "held"]
    /\ pc' = [pc EXCEPT ![r] = "granted"]
    /\ UNCHANGED <<waiters, ctxVars, closeVars>>

AcquireQueued(r) ==
    /\ pc[r] = "idle"
    /\ ~ closed
    /\ inFlight >= MaxConcurrency
    /\ waiters' = Append(waiters, r)
    /\ pc' = [pc EXCEPT ![r] = "queued"]
    /\ UNCHANGED <<permit, inFlight, ctxVars, closeVars>>

AcquireClosed(r) ==
    /\ pc[r] = "idle"
    /\ closed
    /\ pc' = [pc EXCEPT ![r] = "failed"]
    /\ UNCHANGED <<semVars, ctxVars, closeVars>>

(* The request's signal (AbortSignal.timeout) fires while it queues.         *)
AbortWaiting(r) ==
    /\ pc[r] = "queued"
    /\ \E i \in DOMAIN waiters : waiters[i] = r /\ waiters' = RemoveAt(waiters, i)
    /\ pc' = [pc EXCEPT ![r] = "failed"]
    /\ UNCHANGED <<permit, inFlight, ctxVars, closeVars>>

(* Mutant: pump admits one waiter too many.                                  *)
PumpOffByOne(free) == IF Len(waiters) < free + 1 THEN Len(waiters) ELSE free + 1

(* pump(): how many waiters leave the queue when free permits are left.      *)
Pumped(free) == IF Len(waiters) < free THEN Len(waiters) ELSE free

(* Mutant: the release closure forgets its done flag.                        *)
ReturnPermitAgain(r, next) ==
    LET n == Pumped(MaxConcurrency - (inFlight - 1))
        woken == {waiters[i] : i \in 1 .. n} IN
    /\ inFlight' = (inFlight - 1) + n
    /\ waiters' = SubSeq(waiters, n + 1, Len(waiters))
    /\ permit' = [q \in Requests |-> IF q \in woken THEN "held"
                                     ELSE IF q = r THEN "returned" ELSE permit[q]]
    /\ pc' = [q \in Requests |-> IF q \in woken THEN "granted"
                                 ELSE IF q = r THEN next ELSE pc[q]]

(* Mutant: the waiter that came last is served first.                        *)
ReturnPermitLifo(r, next) ==
    LET n == IF permit[r] = "held" THEN Pumped(MaxConcurrency - (inFlight - 1)) ELSE 0
        woken == {waiters[i] : i \in Len(waiters) - n + 1 .. Len(waiters)} IN
    /\ inFlight' = (IF permit[r] = "held" THEN inFlight - 1 ELSE inFlight) + n
    /\ waiters' = SubSeq(waiters, 1, Len(waiters) - n)
    /\ permit' = [q \in Requests |-> IF q \in woken THEN "held"
                                     ELSE IF q = r THEN "returned" ELSE permit[q]]
    /\ pc' = [q \in Requests |-> IF q \in woken THEN "granted"
                                 ELSE IF q = r THEN next ELSE pc[q]]

(* The semaphore's release closure of r, called while r moves to next.       *)
ReturnPermit(r, next) ==
    LET n == IF permit[r] = "held" THEN Pumped(MaxConcurrency - (inFlight - 1)) ELSE 0
        woken == {waiters[i] : i \in 1 .. n} IN
    /\ inFlight' = (IF permit[r] = "held" THEN inFlight - 1 ELSE inFlight) + n
    /\ waiters' = SubSeq(waiters, n + 1, Len(waiters))
    /\ permit' = [q \in Requests |-> IF q \in woken THEN "held"
                                     ELSE IF q = r THEN "returned" ELSE permit[q]]
    /\ pc' = [q \in Requests |-> IF q \in woken THEN "granted"
                                 ELSE IF q = r THEN next ELSE pc[q]]

(* acquire resumes with its permit and takes an idle context ...              *)
TakeIdle(r) ==
    /\ pc[r] = "granted"
    /\ \E c \in idle :
          /\ idle' = idle \ {c}
          /\ inflight' = inflight \cup {c}
          /\ ctxOf' = [ctxOf EXCEPT ![r] = c]
    /\ pc' = [pc EXCEPT ![r] = "leased"]
    /\ UNCHANGED <<semVars, crashes, closeVars>>

(* ... or asks the browser for a new one; this.browser is null after close.   *)
AskContext(r) ==
    /\ pc[r] = "granted"
    /\ idle = {}
    /\ pc' = [pc EXCEPT ![r] = IF closing = "done" THEN "failed" ELSE "creating"]
    /\ UNCHANGED <<semVars, ctxVars, closeVars>>

ContextCreated(r) ==
    /\ pc[r] = "creating"
    /\ closing # "done"
    /\ inflight' = inflight \cup {r}
    /\ ctxOf' = [ctxOf EXCEPT ![r] = r]
    /\ pc' = [pc EXCEPT ![r] = "leased"]
    /\ UNCHANGED <<semVars, idle, crashes, closeVars>>

(* newContext rejects: acquire throws and nobody calls semRelease.            *)
ContextFails(r) ==
    /\ pc[r] = "creating"
    /\ IF closing \in {"browser", "done"} THEN UNCHANGED crashes
       ELSE crashes < MaxCrashes /\ crashes' = crashes + 1
    /\ pc' = [pc EXCEPT ![r] = "failed"]
    /\ UNCHANGED <<semVars, ctxOf, idle, inflight, closeVars>>

(* Mutant: the returned context also stays in the in-flight set.              *)
ReleaseKeepsInflight(r) ==
    /\ pc[r] = "leased"
    /\ ReturnPermit(r, "done")
    /\ idle' = IF closed THEN idle ELSE idle \cup {ctxOf[r]}
    /\ UNCHANGED <<ctxOf, inflight, crashes, closeVars>>

(* lease.release() in the pipeline's finally: returnToIdle.                   *)
ReleaseLease(r) ==
    /\ pc[r] = "leased"
    /\ inflight' = inflight \ {ctxOf[r]}
    /\ ReturnPermit(r, "done")
    /\ idle' = IF closed THEN idle ELSE idle \cup {ctxOf[r]}
    /\ UNCHANGED <<ctxOf, crashes, closeVars>>

(* The idle timer of a context; close() clears the timers.                    *)
EvictIdle(c) ==
    /\ ~ closed
    /\ c \in idle
    /\ idle' = idle \ {c}
    /\ UNCHANGED <<pc, semVars, ctxOf, inflight, crashes, closeVars>>

(* close(): the idle contexts are closed one after the other, ...             *)
CloseStarts ==
    /\ ~ closed
    /\ closed' = TRUE
    /\ closing' = "idle"
    /\ UNCHANGED <<pc, semVars, ctxVars, closeLeft>>

CloseIdleContexts ==
    /\ closing = "idle"
    /\ idle' = {}
    /\ closeLeft' = inflight
    /\ closing' = "inflight"
    /\ UNCHANGED <<pc, semVars, ctxOf, inflight, crashes, closed>>

(* ... then those in flight: give back the permit of the lease, if it is      *)
(* still out, and await the context's close; ...                              *)
CloseInflightContext(c) ==
    /\ closing = "inflight"
    /\ c \in closeLeft
    /\ closeLeft' = closeLeft \ {c}
    /\ IF \E r \in Requests : pc[r] = "leased" /\ ctxOf[r] = c
         THEN \E r \in Requests : /\ pc[r] = "leased" /\ ctxOf[r] = c
                                  /\ ReturnPermit(r, "leased")
         ELSE UNCHANGED <<pc, semVars>>
    /\ UNCHANGED <<ctxVars, closed, closing>>

(* ... then the browser.                                                      *)
CloseBrowser ==
    /\ closing = "inflight"
    /\ closeLeft = {}
    /\ inflight' = {}
    /\ closing' = "browser"
    /\ UNCHANGED <<pc, semVars, ctxOf, idle, crashes, closed, closeLeft>>

CloseEnds ==
    /\ closing = "browser"
    /\ closing' = "done"
    /\ UNCHANGED <<pc, semVars, ctxVars, closed, closeLeft>>

CloseStep ==
    \/ CloseStarts
    \/ CloseIdleContexts
    \/ \E c \in Requests : CloseInflightContext(c)
    \/ CloseBrowser
    \/ CloseEnds

(* What a request does once it has its permit.                                *)
HolderStep(r) ==
    \/ TakeIdle(r) \/ AskContext(r)
    \/ ContextCreated(r) \/ ContextFails(r)
    \/ ReleaseLease(r)

Next ==
    \/ \E r \in Requests : \/ AcquireFree(r) \/ AcquireQueued(r) \/ AcquireClosed(r)
                           \/ AbortWaiting(r) \/ HolderStep(r) \/ EvictIdle(r)
    \/ CloseStep

(* Page operations carry timeouts and the pipeline releases in a finally, so  *)
(* a request with a permit goes on.  Nobody promises that a signal fires.     *)
Spec == Init /\ [][Next]_vars /\ \A r \in Requests : WF_vars(HolderStep(r))

-----------------------------------------------------------------------------
Held == {r \in Requests : permit[r] = "held"}

(* Idle, leased and announced contexts together stay within maxConcurrency    *)
(* and no context is in two hands, leased twice or leased and idle: one is     *)
(* created only when none is idle, and a lease is returned before its permit   *)
(* is handed on.                                                               *)
ContextsBounded ==
    ~ closed =>
      /\ Cardinality(idle) + Cardinality(inflight)
           + Cardinality({r \in Requests : pc[r] = "creating"}) <= MaxConcurrency
      /\ \A r, q \in Requests :
            pc[r] = "leased" => /\ ctxOf[r] \in inflight \ idle
                                /\ pc[q] = "leased" /\ ctxOf[q] = ctxOf[r] => q = r

(* Strengthening for the proofs.  The queue holds the waiting requests, once  *)
(* each.                                                                      *)
QueueIsWaiting ==
    ToSet(waiters) = {r \in Requests : pc[r] = "queued"} /\ IsInjective(waiters)

(* The counter counts the permits out, none is kept back from a waiter, and a *)
(* request has its permit as soon as it is past the queue.                    *)
PermitsCounted ==
    /\ IsFiniteSet(Held) /\ inFlight = Cardinality(Held) /\ inFlight <= MaxConcurrency
    /\ waiters # <<>> => inFlight = MaxConcurrency
    /\ \A r \in Requests :
          /\ pc[r] \in {"idle", "queued"} => permit[r] = "none"
          /\ pc[r] \in {"granted", "creating"} => permit[r] = "held"
          /\ pc[r] = "leased" /\ ~ closed => permit[r] = "held"

(* Contexts in flight are those of the leases, one each, and those there are  *)
(* have been created; together with those announced they have a permit each.  *)
Creating == {r \in Requests : pc[r] = "creating"}
Leased == {r \in Requests : pc[r] = "leased"}
ContextsAccounted ==
    /\ idle \cap inflight = {}
    /\ inflight = {ctxOf[r] : r \in Leased}
    /\ \A r, q \in Leased : ctxOf[r] = ctxOf[q] => r = q
    /\ \A c \in idle \cup inflight : pc[c] \in {"leased", "done"}
    /\ IsFiniteSet(idle) /\ IsFiniteSet(inflight) /\ IsFiniteSet(Creating)
    /\ Cardinality(idle) + Cardinality(inflight) + Cardinality(Creating) <= MaxConcurrency

PoolIInv ==
    /\ PoolOK /\ QueueIsWaiting /\ PermitsCounted
    /\ closing # "no" => closed
    /\ ~ closed => ContextsAccounted

(* First come, first served: a waiter gets its permit only when everybody    *)
(* who queued before it has left the queue, and a request that did not queue *)
(* gets one only while nobody does.                                          *)
ServeStep ==
    /\ \A i, j \in DOMAIN waiters :
          i < j /\ pc'[waiters[j]] = "granted" => pc'[waiters[i]] # "queued"
    /\ \A r \in Requests :
          pc[r] = "idle" /\ pc'[r] = "granted" => waiters = <<>>
ServedInOrder == [][ServeStep]_vars

(* A request that queues is served or gives up, as long as crashes leave a   *)
(* permit in circulation and the pool is open.                               *)
QueuedIsServed == \A r \in Requests : pc[r] = "queued" ~> pc[r] # "queued" \/ closed

(* Every permit out is in the hands of a request that will return it         *)
(* (semaphore.ts:41: "call it exactly once when done").                      *)
PermitsAreReturned ==
    \A r \in Held : pc[r] \in {"granted", "creating", "leased"}

(* The pool's semaphore is a permit pool.                                    *)
Promise == INSTANCE PermitPool WITH
    Clients <- Requests, Permits <- MaxConcurrency,
    holders <- Held, waiting <- ToSet(waiters)
ImplementsPermitPool == Promise!Spec
=============================================================================
