---------------------------- MODULE ExtractService ---------------------------
(***************************************************************************)
(* The requests of the web-fetch server (packages/web-fetch-server/src):   *)
(* dispatch (server.ts), the token bucket (security/rate-limit.ts), the    *)
(* extract and search routes (routes/), the static and browser pipelines   *)
(* (pipeline/) and the shutdown (runtime/shutdown.ts).                     *)
(*                                                                         *)
(* Time is relative: a tick of the clock takes one unit from every timer   *)
(* under way and waits for the timers that are out to be served.  The      *)
(* bucket is kept as the code keeps it, the tokens at the last request and *)
(* the time since; `level` is the bucket that fills as time goes by.       *)
(*                                                                         *)
(* Abstractions: one client key; the pool is its permits and whether the   *)
(* browser is connected (module BrowserPool has the rest); name resolution *)
(* and reading a request take no time; a page is readable or it is not.    *)
(***************************************************************************)
EXTENDS Integers, FiniteSets

CONSTANTS
    Fetches,            \* the requests, each sent once
    Burst,              \* capacity of the bucket, in tokens
    TokenCost, Refill,  \* a token, and what a tick brings, in units of the bucket
    RequestMs,          \* cfg.timeouts.requestMs, in ticks
    WaitMs,             \* the request's waitTimeoutMs, in ticks
    PauseMs,            \* longest fixed delay (timeMs, scroll) a request asks for
    StopMs,             \* the shutdown's timeout, in ticks
    Permits             \* contexts in use at a time

ASSUME FetchesAssumption == IsFiniteSet(Fetches)
ASSUME BucketAssumption == Burst \in Nat \ {0} /\ TokenCost \in Nat \ {0} /\ Refill \in Nat \ {0}
ASSUME TimesAssumption ==
    /\ RequestMs \in Nat \ {0} /\ WaitMs \in Nat \ {0}
    /\ PauseMs \in Nat /\ StopMs \in Nat \ {0} /\ Permits \in Nat \ {0}

VARIABLES
    phase,              \* where the handler of a request is
    render,             \* what it asks for
    left,               \* ticks until the timer of its phase is out
    age,                \* ticks since it was let in, while it is worked on
    answer,             \* the code of its response
    tokens, since,      \* BucketState: tokens, and the time from lastRefillMs (capped)
    level,              \* the bucket, filled tick by tick
    promise,            \* ticks until the last Retry-After told to the client is over
    pool,               \* the browser: connected, lost or closed
    leaked,             \* permits of acquires whose newContext failed
    server,             \* up, stopping or how it ended
    stopLeft            \* ticks the shutdown waits for its handlers

bucketVars == <<tokens, since, level, promise>>
serverVars == <<pool, leaked, server, stopLeft>>
extractVars == <<phase, render, left, age, answer, bucketVars, serverVars>>

Full == Burst * TokenCost
Never == -1
Least(a, b) == IF a < b THEN a ELSE b
CeilDiv(a, b) == (a + b - 1) \div b

Pending == {"static", "lease", "page", "pause", "scroll", "search"}
Timed == {f \in Fetches : phase[f] \in Pending}
Holders == {f \in Fetches : phase[f] \in {"page", "pause", "scroll"}}

ExtractTypeOK ==
    /\ phase \in [Fetches -> Pending \cup {"new", "answered", "cut"}]
    /\ render \in [Fetches -> {"none", "static", "browser", "auto", "search"}]
    /\ left \in [Fetches -> 0 .. RequestMs + WaitMs + PauseMs]
    /\ age \in [Fetches -> Nat]
    /\ answer \in [Fetches -> {"none", "ok", "denied", "limited", "invalid", "blocked",
                               "no-browser", "no-provider", "upstream", "too-large",
                               "timeout", "internal"}]
    /\ tokens \in 0 .. Full /\ since \in 0 .. CeilDiv(Full, Refill)
    /\ level \in 0 .. Full /\ promise \in Nat \cup {Never}
    /\ pool \in {"up", "lost", "closed"} /\ leaked \in 0 .. Permits
    /\ server \in {"up", "stopping", "exit 0", "exit 1"} /\ stopLeft \in 0 .. StopMs

ExtractInit ==
    /\ phase = [f \in Fetches |-> "new"]
    /\ render = [f \in Fetches |-> "none"]
    /\ left = [f \in Fetches |-> 0]
    /\ age = [f \in Fetches |-> 0]
    /\ answer = [f \in Fetches |-> "none"]
    /\ tokens = Full /\ since = 0 /\ level = Full /\ promise = Never
    /\ pool = "up" /\ leaked = 0 /\ server = "up" /\ stopLeft = 0

-----------------------------------------------------------------------------
(* toHttpResponse: the handler is left with the response of `code`.          *)
Answers(f, code) ==
    /\ phase' = [phase EXCEPT ![f] = "answered"]
    /\ answer' = [answer EXCEPT ![f] = code]
    /\ left' = [left EXCEPT ![f] = 0]
    /\ age' = [age EXCEPT ![f] = 0]
    /\ render' = [render EXCEPT ![f] = "none"]

(* A phase starts under a timer of n ticks.                                  *)
Enters(f, p, n) ==
    /\ phase' = [phase EXCEPT ![f] = p]
    /\ left' = [left EXCEPT ![f] = n]
    /\ UNCHANGED <<render, age, answer>>

(* RateLimiter.acquire: what the bucket holds now, refilled lazily.          *)
(* Mutant: the refill is not capped.*)
RefilledUncapped == tokens + since * Refill
Refilled == Least(Full, tokens + since * Refill)

TakeToken ==
    /\ Refilled >= TokenCost
    /\ tokens' = Refilled - TokenCost
    /\ since' = 0
    /\ level' = level - TokenCost
    /\ promise' = Never

(* Mutant: the wait is rounded down.*)
RetryAfterFloor == (TokenCost - Refilled) \div Refill
RetryAfter == CeilDiv(TokenCost - Refilled, Refill)

(* Mutant: the refill a refused request computed is not stored.*)
TellRetryForgets ==
    /\ Refilled < TokenCost
    /\ since' = 0
    /\ promise' = RetryAfter
    /\ UNCHANGED <<tokens, level>>
TellRetry ==
    /\ Refilled < TokenCost
    /\ tokens' = Refilled
    /\ since' = 0
    /\ promise' = RetryAfter
    /\ UNCHANGED level

(* dispatch: the bearer is checked first and costs no token.                 *)
Denied(f) ==
    /\ server = "up" /\ phase[f] = "new"
    /\ Answers(f, "denied")
    /\ UNCHANGED <<bucketVars, serverVars>>

Limited(f) ==
    /\ server = "up" /\ phase[f] = "new"
    /\ TellRetry
    /\ Answers(f, "limited")
    /\ UNCHANGED serverVars

(* handleExtract, handleSearch: refused after the token is taken.            *)
Refused(f, code) ==
    /\ server = "up" /\ phase[f] = "new"
    /\ TakeToken
    /\ Answers(f, code)
    /\ UNCHANGED serverVars

Available == pool = "up"

(* The route is entered: its timer runs from here.                           *)
Admitted(f, mode, p) ==
    /\ server = "up" /\ phase[f] = "new"
    /\ TakeToken
    /\ render' = [render EXCEPT ![f] = mode]
    /\ phase' = [phase EXCEPT ![f] = p]
    /\ left' = [left EXCEPT ![f] = RequestMs]
    /\ UNCHANGED <<age, answer, serverVars>>

ExtractStatic(f) == Admitted(f, "static", "static")
(* browserAvailable is read here, once for both phases of auto.              *)
ExtractAuto(f) == Admitted(f, IF Available THEN "auto" ELSE "static", "static")
ExtractBrowser(f) == Available /\ Admitted(f, "browser", "lease")
Search(f) == Admitted(f, "search", "search")

NoBrowser(f) == ~ Available /\ Refused(f, "no-browser")

(* A field of the wrong type or out of range; a URL the guard refuses; no    *)
(* provider is configured.                                                   *)
BadExtract(f) == Refused(f, "invalid")
BadSearch(f) == Refused(f, "invalid")
Blocked(f) == Refused(f, "blocked")
NoProvider(f) == Refused(f, "no-provider")

(* runStaticPipeline gives a result: auto throws a poor one away and starts  *)
(* again in the browser under a timer of its own.                            *)
StaticGives(f, readable) ==
    /\ phase[f] = "static"
    /\ IF render[f] = "auto" /\ ~ readable
         THEN Enters(f, "lease", RequestMs)
         ELSE Answers(f, "ok")
    /\ UNCHANGED <<bucketVars, serverVars>>

(* The target cannot be fetched, or its body is over the limit.              *)
StaticFails(f, code) ==
    /\ phase[f] = "static"
    /\ Answers(f, code)
    /\ UNCHANGED <<bucketVars, serverVars>>

(* A TimeoutError of AbortSignal.timeout is no AbortError to throwPipeline-  *)
(* Error and rethrowSearchProviderError.                                     *)
StaticTimesOut(f) ==
    /\ phase[f] = "static" /\ left[f] = 0
    /\ Answers(f, "internal")
    /\ UNCHANGED <<bucketVars, serverVars>>

-----------------------------------------------------------------------------
(* runBrowserPipeline.  The pool gives a context, or has been closed, or its *)
(* browser fails to make one and the permit is lost.                         *)
(* Mutant: the page is given its own time, whatever the signal has left.*)
LeaseGrantedAfresh(f) ==
    /\ phase[f] = "lease"
    /\ pool = "up" /\ Cardinality(Holders) + leaked < Permits
    /\ Enters(f, "page", WaitMs)
    /\ UNCHANGED <<bucketVars, serverVars>>
LeaseGranted(f) ==
    /\ phase[f] = "lease"
    /\ pool = "up" /\ Cardinality(Holders) + leaked < Permits
    /\ Enters(f, "page", Least(left[f], WaitMs))
    /\ UNCHANGED <<bucketVars, serverVars>>

LeaseFails(f) ==
    /\ phase[f] = "lease"
    /\ \/ pool = "closed" /\ UNCHANGED leaked
       \/ /\ pool = "lost" /\ Cardinality(Holders) + leaked < Permits
          /\ leaked' = leaked + 1
    /\ Answers(f, "internal")
    /\ UNCHANGED <<bucketVars, pool, server, stopLeft>>

(* Mutant: the queue is not told of the signal.*)
LeaseTimesOutNever(f) == FALSE
LeaseTimesOut(f) ==
    /\ phase[f] = "lease" /\ left[f] = 0
    /\ Answers(f, "internal")
    /\ UNCHANGED <<bucketVars, serverVars>>

(* navigateWithWaitStrategy: goto heeds the signal and waitTimeoutMs; the    *)
(* selector or the delay after it has n ticks of its own, the scrolling too. *)
Navigated(f, n) ==
    /\ phase[f] = "page"
    /\ pool = "up"
    /\ Enters(f, "pause", n)
    /\ UNCHANGED <<bucketVars, serverVars>>

(* Every failure of the navigation is told as a timeout.                     *)
NavigationFails(f) ==
    /\ phase[f] = "page" /\ (left[f] = 0 \/ pool # "up")
    /\ Answers(f, "timeout")
    /\ UNCHANGED <<bucketVars, serverVars>>

SelectorMissing(f) ==
    /\ phase[f] = "pause" /\ left[f] = 0
    /\ Answers(f, "timeout")
    /\ UNCHANGED <<bucketVars, serverVars>>

Scrolls(f) ==
    /\ phase[f] = "pause" /\ left[f] = 0 /\ pool = "up"
    /\ Enters(f, "scroll", PauseMs)
    /\ UNCHANGED <<bucketVars, serverVars>>

PageRead(f, code) ==
    /\ phase[f] \in {"pause", "scroll"} /\ left[f] = 0
    /\ Answers(f, IF pool = "up" THEN code ELSE "internal")
    /\ UNCHANGED <<bucketVars, serverVars>>

(* handleSearch: the provider answers, or its timer is out while its answer  *)
(* is awaited (a TimeoutError) or read (taken for malformed JSON).           *)
SearchGives(f, code) ==
    /\ phase[f] = "search"
    /\ Answers(f, code)
    /\ UNCHANGED <<bucketVars, serverVars>>

SearchTimesOut(f, code) ==
    /\ phase[f] = "search" /\ left[f] = 0
    /\ Answers(f, code)
    /\ UNCHANGED <<bucketVars, serverVars>>

-----------------------------------------------------------------------------
(* The browser process goes away; nothing starts another.                    *)
BrowserLost ==
    /\ server \in {"up", "stopping"} /\ pool = "up"
    /\ pool' = "lost"
    /\ UNCHANGED <<phase, render, left, age, answer, bucketVars, leaked, server, stopLeft>>

(* registerShutdown: the listener is stopped and the pool closed, together,  *)
(* within the timeout; the process then exits under the requests in flight.  *)
ShutdownStarts ==
    /\ server = "up"
    /\ server' = "stopping" /\ stopLeft' = StopMs
    /\ pool' = "closed"
    /\ UNCHANGED <<phase, render, left, age, answer, bucketVars, leaked>>

Exits(code) ==
    /\ server' = code /\ stopLeft' = 0
    /\ phase' = [f \in Fetches |-> IF f \in Timed THEN "cut" ELSE phase[f]]
    /\ left' = [f \in Fetches |-> 0]
    /\ UNCHANGED <<render, age, answer, bucketVars, pool, leaked>>

HandlersFinish == server = "stopping" /\ Exits("exit 0")
HandlersThrow == server = "stopping" /\ Exits("exit 1")
ShutdownTimesOut == server = "stopping" /\ stopLeft = 0 /\ Exits("exit 1")

Tick ==
    /\ server \in {"up", "stopping"}
    /\ \A f \in Timed : left[f] > 0
    /\ server = "stopping" => stopLeft > 0
    /\ left' = [f \in Fetches |-> IF f \in Timed THEN left[f] - 1 ELSE left[f]]
    /\ age' = [f \in Fetches |-> IF f \in Timed THEN age[f] + 1 ELSE age[f]]
    /\ since' = Least(CeilDiv(Full, Refill), since + 1)
    /\ level' = Least(Full, level + Refill)
    /\ promise' = IF promise > 0 THEN promise - 1 ELSE promise
    /\ stopLeft' = IF server = "stopping" THEN stopLeft - 1 ELSE stopLeft
    /\ UNCHANGED <<phase, render, answer, tokens, pool, leaked, server>>

Arrives(f) ==
    \/ Denied(f) \/ Limited(f) \/ NoBrowser(f)
    \/ BadExtract(f) \/ BadSearch(f) \/ Blocked(f) \/ NoProvider(f)
    \/ ExtractStatic(f) \/ ExtractAuto(f) \/ ExtractBrowser(f) \/ Search(f)

Works(f) ==
    \/ \E readable \in BOOLEAN : StaticGives(f, readable)
    \/ \E code \in {"upstream", "too-large"} : StaticFails(f, code)
    \/ LeaseGranted(f)
    \/ \E n \in {0, WaitMs, PauseMs} : Navigated(f, n)
    \/ Scrolls(f)
    \/ \E code \in {"ok", "upstream"} : SearchGives(f, code)

(* What happens to a request at the latest when its timer is out.            *)
TimerOut(f) ==
    \/ StaticTimesOut(f) \/ LeaseTimesOut(f) \/ LeaseFails(f)
    \/ NavigationFails(f) \/ SelectorMissing(f)
    \/ \E code \in {"ok", "too-large"} : PageRead(f, code)
    \/ \E code \in {"internal", "upstream"} : SearchTimesOut(f, code)

ExtractNext ==
    \/ \E f \in Fetches : server \in {"up", "stopping"} /\ (Arrives(f) \/ Works(f) \/ TimerOut(f))
    \/ BrowserLost \/ ShutdownStarts
    \/ HandlersFinish \/ HandlersThrow \/ ShutdownTimesOut
    \/ Tick

(* The event loop serves a timer that is out, and time passes.               *)
ExtractSpec ==
    /\ ExtractInit /\ [][ExtractNext]_extractVars
    /\ WF_extractVars(Tick) /\ WF_extractVars(ShutdownTimesOut)
    /\ \A f \in Fetches : WF_extractVars(TimerOut(f))

-----------------------------------------------------------------------------
(* The bucket that refills only when it is asked holds what one that fills   *)
(* tick by tick would: a refusal loses none of the time the client waited.   *)
LazyBucketIsExact == Refilled = level

(* A client told to retry after some time, and that sends nothing else, is   *)
(* let in once that time is over.                                            *)
RetryAfterKept == promise = 0 => level >= TokenCost

(* However a request goes, it is answered within two of the configured       *)
(* timeouts, the wait after the navigation and the scrolling, as auto may be. *)
LongestWait == IF WaitMs > PauseMs THEN WaitMs ELSE PauseMs
AnswerBounded == \A f \in Fetches : age[f] <= 2 * RequestMs + LongestWait + PauseMs

(* The limits the server keeps for a request: tokens and time.               *)
RequestLimits == LazyBucketIsExact /\ RetryAfterKept /\ AnswerBounded

InFlight(f) == phase[f] \in Pending

-----------------------------------------------------------------------------
(* What the proofs are by induction on.  By when the promise is over the     *)
(* bucket has a token, and what is left of a timer is left of the request.   *)
PromiseFollows == promise # Never => level + promise * Refill >= TokenCost

TimersFollow ==
    \A f \in Fetches :
        /\ phase[f] \in {"new", "answered"} => age[f] = 0
        /\ phase[f] \in {"static", "search"} => age[f] + left[f] <= RequestMs
        /\ phase[f] \in {"lease", "page"} => age[f] + left[f] <= 2 * RequestMs
        /\ phase[f] = "pause" => age[f] + left[f] <= 2 * RequestMs + LongestWait
        /\ age[f] + left[f] <= 2 * RequestMs + LongestWait + PauseMs

ExtractIInv == ExtractTypeOK /\ LazyBucketIsExact /\ PromiseFollows /\ TimersFollow
=============================================================================
