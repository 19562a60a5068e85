----------------------------- MODULE WindowMemory -----------------------------
(***************************************************************************)
(* InMemoryMemorySystem of packages/core/src/modules/memory.ts as the      *)
(* engine uses it when the host gives it no other: the operations of one   *)
(* session are not serialised.  A compression archives line by line and    *)
(* asks a provider for a summary, and the appends of another run go on in  *)
(* the meantime.                                                           *)
(*                                                                         *)
(* Objects have an identity here: compress() keeps the window it loaded,   *)
(* and the array of entries it began with, over its awaits; clear() takes  *)
(* the window out of the map and leaves it to those who hold it.           *)
(*                                                                         *)
(* Abstractions: those of Compaction; every entry is one token; the tokens *)
(* are counted as the entries are replaced; archive() looks for the window *)
(* once, not twice; what would change nothing is not called.               *)
(***************************************************************************)
LOCAL INSTANCE Naturals
LOCAL INSTANCE FiniteSets
LOCAL INSTANCE Sequences
LOCAL INSTANCE SequencesExt
LOCAL INSTANCE Compaction

CONSTANTS
    Callers,            \* who may have an operation of the session under way
    MaxEntries,         \* bound: entries appended
    MaxTokens,          \* limit * compressionThreshold
    HeadKeep, TailKeep, \* config.memory
    Trims,              \* the {keepHead, keepTail} given to trim()
    MaxRequests         \* bound: calls of compress, trim and clear

VARIABLES
    arrays,             \* every array of entries there was, by its identity
    wins,               \* every ContextWindow: its array and its tokens
    live,               \* windows.get(sessionId): a window, 0 for none
    ops,                \* the operation of each caller and what it holds
    said,               \* entries handed to append
    requests,           \* calls of compress, trim and clear so far
    cold,               \* entries written to config.memory.archivePath
    pushed,             \* entries that went into the live window
    exposed,            \* those pushed while a new array for it was on its way
    unlogged            \* those no archive() of the compression had in view

heapVars == <<arrays, wins, live>>
askVars == <<said, requests>>
windowVars == <<heapVars, ops, askVars, cold, pushed, exposed, unlogged>>

NoOp == [op |-> "none", pc |-> "idle", entry |-> 0, keep |-> <<HeadKeep, TailKeep>>,
         win |-> 0, arr |-> 0, line |-> 0, plan |-> <<>>]
Entries(w) == arrays[wins[w].arr]

WindowTypeOK ==
    /\ live \in 0 .. Len(wins)
    /\ \A w \in DOMAIN wins : wins[w].arr \in DOMAIN arrays /\ wins[w].tokens \in 0 .. MaxEntries
    /\ \A c \in Callers : ops[c].win \in 0 .. Len(wins) /\ ops[c].arr \in 0 .. Len(arrays)
    /\ cold \cup pushed \cup exposed \cup unlogged \subseteq 1 .. said
    /\ said \in 0 .. MaxEntries /\ requests \in 0 .. MaxRequests

WindowInit ==
    /\ arrays = <<>> /\ wins = <<>> /\ live = 0
    /\ ops = [c \in Callers |-> NoOp]
    /\ said = 0 /\ requests = 0
    /\ cold = {} /\ pushed = {} /\ exposed = {} /\ unlogged = {}

-----------------------------------------------------------------------------
Pc(c, pc) == ops[c].pc = pc
Settles(c) == ops' = [ops EXCEPT ![c] = NoOp]

(* load(): the session's window, a new one if it has none.                   *)
Loads(w) ==
    \/ live # 0 /\ w = live /\ UNCHANGED heapVars
    \/ /\ live = 0 /\ w = Len(wins) + 1
       /\ arrays' = Append(arrays, <<>>)
       /\ wins' = Append(wins, [arr |-> Len(arrays) + 1, tokens |-> 0])
       /\ live' = w

(* append() is called ...                                                    *)
AppendCalled(c) ==
    /\ Pc(c, "idle") /\ said < MaxEntries
    /\ said' = said + 1
    /\ \E w \in 1 .. Len(wins) + 1 :
          /\ Loads(w)
          /\ ops' = [ops EXCEPT ![c] = [NoOp EXCEPT !.op = "append", !.pc = "push",
                                                     !.entry = said + 1, !.win = w]]
    /\ UNCHANGED <<requests, cold, pushed, exposed, unlogged>>

(* A call that will put another array into the window.                       *)
Replacing(w) == \E d \in Callers : ops[d].win = w /\ Pc(d, "await")

(* A compression that has read its last line, or reads another array than the *)
(* one the window has now.                                                   *)
PastTheLines(w) ==
    \E d \in Callers : /\ ops[d].win = w
                       /\ \/ Pc(d, "archived") \/ Pc(d, "await")
                          \/ Pc(d, "line") /\ ops[d].arr # wins[w].arr

(* ... and pushes when load() has resolved, in the order of the calls.  Over *)
(* the threshold it goes on with compress().                                 *)
Pushes(c) ==
    LET w == ops[c].win
        e == ops[c].entry
    IN /\ Pc(c, "push")
       /\ \A d \in Callers : Pc(d, "push") => ops[d].entry >= e
       /\ arrays' = [arrays EXCEPT ![wins[w].arr] = Append(@, Raw(e))]
       /\ wins' = [wins EXCEPT ![w].tokens = @ + 1]
       /\ IF wins[w].tokens + 1 > MaxTokens
            THEN ops' = [ops EXCEPT ![c].pc = "compress"]
            ELSE Settles(c)
       /\ pushed' = IF w = live THEN pushed \cup {e} ELSE pushed
       /\ exposed' = IF Replacing(w) THEN exposed \cup {e} ELSE exposed
       /\ unlogged' = IF PastTheLines(w) THEN unlogged \cup {e} ELSE unlogged
       /\ UNCHANGED <<live, askVars, cold>>

(* compress() or trim() is called.                                           *)
Requested(c, op, keep) ==
    /\ Pc(c, "idle") /\ requests < MaxRequests
    /\ live # 0 /\ ~ Short(Entries(live), keep[1], keep[2])
    /\ requests' = requests + 1
    /\ ops' = [ops EXCEPT ![c] = [NoOp EXCEPT !.op = op, !.pc = "compress", !.keep = keep]]
    /\ UNCHANGED <<heapVars, said, cold, pushed, exposed, unlogged>>

(* It takes the window.                                                      *)
CompressCalled(c) ==
    /\ Pc(c, "compress")
    /\ \E w \in 1 .. Len(wins) + 1 :
          Loads(w) /\ ops' = [ops EXCEPT ![c].win = w, ![c].pc = "check"]
    /\ UNCHANGED <<askVars, cold, pushed, exposed, unlogged>>

(* compress() of a window with something in it: archive() loads once more.   *)
ArchiveCalled(c) ==
    /\ Pc(c, "check") /\ ops[c].op # "trim"
    /\ IF Entries(ops[c].win) = <<>> THEN Settles(c) /\ UNCHANGED heapVars
       ELSE \E w \in 1 .. Len(wins) + 1 :
              /\ Loads(w)
              /\ ops' = [ops EXCEPT ![c].pc = IF arrays'[wins'[w].arr] = <<>> THEN "archived"
                                              ELSE "line",
                                    ![c].arr = wins'[w].arr, ![c].line = 1]
    /\ UNCHANGED <<askVars, cold, pushed, exposed, unlogged>>

(* archiveSource: one appendFile after the other over the array, which may   *)
(* grow while it waits.                                                      *)
ArchiveLine(c) ==
    LET log == arrays[ops[c].arr]
        n == ops[c].line
    IN /\ Pc(c, "line")
       /\ IF n > Len(log) THEN cold' = cold /\ ops' = [ops EXCEPT ![c].pc = "archived"]
          ELSE /\ cold' = cold \cup Verbatim(<<log[n]>>)
               /\ ops' = [ops EXCEPT ![c].line = n + 1]
       /\ UNCHANGED <<heapVars, askVars, pushed, exposed, unlogged>>

(* The disk is full: compress() rejects, and append() with it.               *)
LineFails(c) ==
    /\ Pc(c, "line")
    /\ Settles(c)
    /\ UNCHANGED <<heapVars, askVars, cold, pushed, exposed, unlogged>>

(* compressEntries and trimEntries: what will be kept is read off the array  *)
(* the window has now.  With a middle to sum up the provider is asked; with  *)
(* none there is nothing to wait for.                                        *)
Replace(w, log) ==
    /\ arrays' = Append(arrays, log)
    /\ wins' = [wins EXCEPT ![w] = [arr |-> Len(arrays) + 1, tokens |-> Len(log)]]

Shortens(c) ==
    LET w == ops[c].win
        log == Entries(w)
        head == ops[c].keep[1]
        tail == ops[c].keep[2]
        short == HeadMiddleTail(log, head, tail)
    IN IF Short(log, head, tail) THEN /\ wins' = [wins EXCEPT ![w].tokens = Len(log)]
                                      /\ Settles(c) /\ UNCHANGED arrays
       ELSE IF Middle(log, head, tail) = {} THEN Replace(w, short) /\ Settles(c)
       ELSE /\ ops' = [ops EXCEPT ![c].pc = "await", ![c].arr = wins[w].arr, ![c].plan = short]
            /\ UNCHANGED <<arrays, wins>>

SummaryAsked(c) ==
    /\ Pc(c, "archived")
    /\ Shortens(c)
    /\ UNCHANGED <<live, askVars, cold, pushed, exposed, unlogged>>

(* trim() has no archive, and looks at the length first.                     *)
TrimAsked(c) ==
    LET log == Entries(ops[c].win)
        keep == ops[c].keep
    IN /\ Pc(c, "check") /\ ops[c].op = "trim"
       /\ IF Short(log, keep[1], keep[2]) THEN Settles(c) /\ UNCHANGED <<arrays, wins>>
          ELSE Shortens(c)
       /\ unlogged' = IF Short(log, keep[1], keep[2]) THEN unlogged
                      ELSE unlogged \cup UNION {log[i].covers : i \in Middle(log, keep[1], keep[2])}
       /\ UNCHANGED <<live, askVars, cold, pushed, exposed>>

(* The answer of the provider: window.entries = ..., from what was read then.*)
SummaryArrives(c) ==
    /\ Pc(c, "await")
    /\ Replace(ops[c].win, ops[c].plan)
    /\ Settles(c)
    /\ UNCHANGED <<live, askVars, cold, pushed, exposed, unlogged>>

(* No route, an error or a timeout: compress() leaves it to the fallback,    *)
(* which looks at the array it began with as it is now.                      *)
FallsBack(c) ==
    /\ Pc(c, "await") /\ ops[c].op # "trim"
    /\ Replace(ops[c].win, HeadMiddleTail(arrays[ops[c].arr], HeadKeep, TailKeep))
    /\ Settles(c)
    /\ UNCHANGED <<live, askVars, cold, pushed, exposed, unlogged>>

(* clear(), at any moment but between a call of compress() and its load().   *)
Clears ==
    /\ requests < MaxRequests /\ live # 0
    /\ \A c \in Callers : ~ Pc(c, "compress")
    /\ requests' = requests + 1
    /\ live' = 0 /\ pushed' = {}
    /\ UNCHANGED <<arrays, wins, ops, said, cold, exposed, unlogged>>

WindowNext ==
    \/ Clears
    \/ \E c \in Callers :
          \/ AppendCalled(c) \/ Pushes(c)
          \/ Requested(c, "compress", <<HeadKeep, TailKeep>>)
          \/ \E keep \in Trims : Requested(c, "trim", keep)
          \/ CompressCalled(c) \/ ArchiveCalled(c) \/ ArchiveLine(c) \/ LineFails(c)
          \/ SummaryAsked(c) \/ TrimAsked(c) \/ SummaryArrives(c) \/ FallsBack(c)

WindowSpec == WindowInit /\ [][WindowNext]_windowVars

-----------------------------------------------------------------------------
(* A conversation forgets nothing, however compressions overlap: only what   *)
(* is said while the summary of a compression or a trim is awaited is lost   *)
(* (memory.ts:435 overwrites the array it was pushed to).                    *)
SaidIsKept == live # 0 => pushed \subseteq Covered(Entries(live)) \cup exposed

(* What a clear() took away does not come back, whoever still held it.       *)
ClearedStaysCleared == live # 0 => Covered(Entries(live)) \subseteq pushed

(* What a summary replaces can be read in the cold archive, but for entries  *)
(* trimmed, and for those said after a compression has passed its last line: *)
(* the fallback sums up what it finds then.                                  *)
SummarisedIsLogged ==
    live # 0 => \A i \in DOMAIN Entries(live) :
                  Entries(live)[i].anchored => Entries(live)[i].covers \subseteq cold \cup unlogged

WindowSound == SaidIsKept /\ ClearedStaysCleared /\ SummarisedIsLogged
=============================================================================
