----------------------------- MODULE MCBrowserPool -----------------------------
(* What an engine reaches out to, for TLC: of the web-fetch server the pool with *)
(* the semaphore in detail, and its requests with their timers; one call of a    *)
(* model through the adapter of its provider, and what a call is given of the    *)
(* pictures and files of the conversation; the tools that run commands and apply *)
(* patches; and the vectors' file.  Every behaviour is of one of them, `part`;   *)
(* the others stay as they start.                                                *)
EXTENDS BrowserPool, ExtractService, Sequences, SequencesExt

CONSTANTS MaxMessages
CONSTANTS ShellCalls, PatchCalls, MaxFileFaults
CONSTANTS Processes, PointIds, IndexLimit, MaxUpserts, MaxFaults

VARIABLES
    part,
    request, at, sent, llmSignal, aborted, heard, told, stepCalls, media, usage, callEnd,
    history, home, bare, seam,
    sessionCwd, shells, trail, abreast,
    files, edits, fileFaults,
    vproc, disk, temp, lockFile, upserts, faults, aside

(* Replies: calls with ids and without, named and not, with arguments that are  *)
(* empty, an object or not one, next to text and to each other; and images.      *)
Said == [kind |-> "text", id |-> 0, name |-> "", args |-> "empty"]
Drawn == [kind |-> "image", id |-> 0, name |-> "", args |-> "empty"]
Asks(id, name, args) == [kind |-> "call", id |-> id, name |-> name, args |-> args]
MCReplies ==
    {<<Said>>, <<Drawn, Drawn, Said>>, <<Said, Drawn>>}
      \cup {<<Asks(x, n, a)>> : x \in {0, 101}, n \in {"f", ""}, a \in {"empty", "good", "bad"}}
      \cup {<<Said, Asks(x, "f", a), Asks(y, n, b)>> :
               x \in {0, 101}, y \in {0, 102}, n \in {"g", ""},
               a \in {"empty", "good"}, b \in {"empty", "good", "bad"}}
      \cup {<<Asks(x, n, a), Said, Asks(y, "g", b)>> :
               x \in {0, 101}, y \in {0, 102}, n \in {"f", ""},
               a \in {"empty", "good"}, b \in {"empty", "good"}}

(* Those a service can give: image models only text and images, openai its text  *)
(* before its calls, gemini objects and no word that there are calls, anthropic  *)
(* ids; a reply ends with calls only if it has some, but for the name.           *)
MCRequests ==
    {r \in [adapter : {"openai", "anthropic", "gemini", "wanx", "wan-image"},
            streamed : BOOLEAN, reply : MCReplies, finish : {"stop", "tool_calls", "length"}] :
        LET kinds == {r.reply[i].kind : i \in DOMAIN r.reply}
            ofCalls == {r.reply[i] : i \in {j \in DOMAIN r.reply : r.reply[j].kind = "call"}}
        IN CASE r.adapter \in {"wanx", "wan-image"} -> ofCalls = {} /\ r.finish = "stop"
             [] r.adapter = "openai" ->
                  /\ "image" \notin kinds
                  /\ (r.finish = "tool_calls") => ofCalls # {}
                  /\ (r.finish = "stop") => ofCalls = {}
                  /\ \A i, j \in DOMAIN r.reply :
                        i < j /\ r.reply[i].kind = "call" => r.reply[j].kind = "call"
             [] r.adapter = "anthropic" ->
                  /\ "image" \notin kinds
                  /\ (r.finish = "tool_calls") => ofCalls # {}
                  /\ (r.finish = "stop") => ofCalls = {}
                  /\ \A c \in ofCalls : c.id # 0 /\ (c.args = "bad" => r.streamed)
             [] r.adapter = "gemini" ->
                  r.finish # "tool_calls" /\ \A c \in ofCalls : c.args # "bad"}
FirstRequest == [adapter |-> "wanx", streamed |-> FALSE, reply |-> <<Said>>, finish |-> "stop"]

(* Conversations: instructions before, among and after turns with and without    *)
(* one and two calls of tools and their results.                                 *)
Line(role, text, asks, answers) ==
    [role |-> role, text |-> text, asks |-> asks, answers |-> answers]
Plain(role, text) == Line(role, text, <<>>, 0)
MCConversations ==
    {before \o earlier \o now \o asked \o after :
        before \in {<<>>, <<Plain("system", "s1")>>},
        earlier \in {<<>>, <<Plain("user", "u1"), Plain("assistant", "a1")>>,
                     <<Plain("assistant", "a1")>>},
        now \in {<<>>, <<Plain("user", "u2")>>},
        asked \in {<<>>, <<Line("assistant", "", <<101>>, 0), Line("tool", "r1", <<>>, 101)>>,
                   <<Line("assistant", "", <<101, 102>>, 0), Line("tool", "r1", <<>>, 101),
                     Line("tool", "r2", <<>>, 102)>>,
                   <<Plain("system", "s2"), Line("assistant", "", <<101>>, 0),
                     Line("tool", "r1", <<>>, 101)>>},
        after \in {<<>>, <<Plain("system", "s3")>>,
                   <<Plain("assistant", "a2"), Plain("system", "s3")>>}}

Model == INSTANCE ModelCall WITH
    Requests <- MCRequests, Conversations <- MCConversations,
    calls <- stepCalls, outcome <- callEnd

(* Pictures with an address of the web and without, a file, a part with nothing;  *)
(* and what a router may ask for of them.                                        *)
MCParts == {<<>>, <<"inline", "remote">>, <<"file">>, <<"empty", "remote">>}
MCSelectors ==
    LET all == [mode |-> "all", scope |-> "prompt", kinds |-> {"image", "file"}, keys |-> {},
                required |-> {}]
    IN {all, [all EXCEPT !.mode = "none"],
        [all EXCEPT !.mode = "select", !.scope = "current-turn", !.required = {1, 2, 3}],
        [all EXCEPT !.mode = "select", !.kinds = {"file"}, !.keys = {1}]}
Resources == INSTANCE ResourcePool WITH
    Contents <- MCParts, Selectors <- MCSelectors, Resolvers <- BOOLEAN

(* Commands: two that change the directory, one that is given it; of the others     *)
(* each is of one more unruly kind.                                                *)
RunBy(by, cd, cwd) ==
    [by |-> by, cd |-> cd, cwd |-> cwd, deaf |-> FALSE, heir |-> FALSE, floods |-> FALSE,
     ends |-> TRUE]
ChangesDirectory == {RunBy("tool", <<"a">>, <<>>), RunBy("tool", <<"b">>, <<"w">>)}
Unruly ==
    {[RunBy("tool", <<>>, <<>>) EXCEPT !.deaf = TRUE, !.ends = FALSE],
     [RunBy("tool", <<>>, <<>>) EXCEPT !.heir = TRUE],
     [RunBy("tool", <<>>, <<>>) EXCEPT !.floods = TRUE],
     [RunBy("backend", <<>>, <<>>) EXCEPT !.deaf = TRUE, !.heir = TRUE]}
MCCommands == [c \in ShellCalls |-> ChangesDirectory \cup IF c = 1 THEN Unruly ELSE {}]
Shell == INSTANCE ShellCall WITH Commands <- MCCommands

(* Patches: whose second entry fails, of two files, a removal, a file made twice.   *)
LineA == <<"a", 0>>
LineB == <<"b", 0>>
LineD == <<"d", 0>>
Way(type, line) == [type |-> type, line |-> line]
AHunk(start, ways) == [start |-> start, lines |-> ways]
Change(path, hunks) == [path |-> path, hunks |-> hunks, delete |-> FALSE, outside |-> FALSE]
EditHunk == AHunk(1, <<Way(" ", LineA), Way("-", LineB), Way("+", LineD)>>)
LateHunk == AHunk(3, <<Way("-", LineB)>>)
NewHunk == AHunk(0, <<Way("+", LineD)>>)
PatchesOfAll ==
    {<<Change("f", <<EditHunk>>), Change("g", <<EditHunk>>)>>,
     <<Change("g", <<NewHunk>>), Change("f", <<EditHunk, LateHunk>>)>>}
PatchesOfOne ==
    {<<[Change("f", <<AHunk(1, <<Way("-", LineA)>>)>>) EXCEPT !.delete = TRUE],
       Change("h", <<NewHunk>>)>>,
     <<Change("h", <<NewHunk>>), Change("h", <<NewHunk>>)>>}
MCPatches == [c \in PatchCalls |-> PatchesOfAll \cup IF c = 1 THEN PatchesOfOne ELSE {}]
MCContents ==
    {[f |-> [there |-> TRUE, lines |-> <<<<"a", 1>>, LineB, LineB>>, ended |-> TRUE, crlf |-> TRUE],
      g |-> [there |-> TRUE, lines |-> <<LineB>>, ended |-> TRUE, crlf |-> FALSE],
      h |-> [there |-> FALSE, lines |-> <<>>, ended |-> FALSE, crlf |-> FALSE]]}
Patching == INSTANCE FilePatch WITH Patches <- MCPatches, Contents <- MCContents

(* Every source of up to three lines, every hunk of up to three.                    *)
MCSources == UNION {[1 .. n -> {LineA, <<"a", 1>>, LineB}] : n \in 0 .. 3}
MCHunks ==
    {AHunk(start, ways) : start \in 1 .. 3,
        ways \in UNION {[1 .. n -> {Way(t, l) : t \in {" ", "+", "-"}, l \in {LineA, LineB}}] :
                          n \in 0 .. 3}}

Vectors == INSTANCE VectorFile

theCall == <<request, at, sent, llmSignal, aborted, heard, told, stepCalls, media, usage, callEnd>>
theResources == <<history, home, bare, seam>>
theShell == <<sessionCwd, shells, trail, abreast>>
theFiles == <<files, edits, fileFaults>>
theVectors == <<vproc, disk, temp, lockFile, upserts, faults, aside>>
theTools == <<theShell, theFiles, theVectors>>
theSeam == <<theCall, theResources>>
serverAll == <<part, vars, extractVars, theSeam, theTools>>

ServerInit ==
    /\ part \in 
          {"pool", "requests", "call", "resources", "shell", "files", "vectors"}
    /\ Init /\ ExtractInit /\ Model!CallInit
    /\ (part # "call" => request = FirstRequest)
    /\ Resources!ResourcesInit
    /\ Shell!ShellInit /\ Patching!PatchInit /\ Vectors!VectorInit

PoolStep == part = "pool" /\ Next /\ UNCHANGED <<part, extractVars, theSeam, theTools>>
RequestStep ==
    part = "requests" /\ ExtractNext /\ UNCHANGED <<part, vars, theSeam, theTools>>
CallStep ==
    /\ part = "call" /\ Model!CallNext
    /\ UNCHANGED <<part, vars, extractVars, theResources, theTools>>
(* Nothing else happens between what is built for a call and the call.            *)
ResourcesStep ==
    /\ part = "resources" /\ Resources!ResourcesNext
    /\ seam.at \in {"built", "failed"} => UNCHANGED <<history, home, bare>>
    /\ UNCHANGED <<part, vars, extractVars, theCall, theTools>>
ShellStep ==
    /\ part = "shell" /\ Shell!ShellNext
    /\ UNCHANGED <<part, vars, extractVars, theSeam, theFiles, theVectors>>
FilesStep ==
    /\ part = "files" /\ Patching!PatchNext
    /\ UNCHANGED <<part, vars, extractVars, theSeam, theShell, theVectors>>
VectorsStep ==
    /\ part = "vectors" /\ Vectors!VectorNext
    /\ UNCHANGED <<part, vars, extractVars, theSeam, theShell, theFiles>>

ServerNext ==
    PoolStep \/ RequestStep \/ CallStep \/ ResourcesStep \/ ShellStep \/ FilesStep \/ VectorsStep

ServerSpec ==
    /\ ServerInit /\ [][ServerNext]_serverAll
    /\ \A r \in Requests : WF_vars(part = "pool" /\ HolderStep(r))
    /\ WF_extractVars(part = "requests" /\ Tick)
    /\ WF_extractVars(part = "requests" /\ ShutdownTimesOut)
    /\ \A f \in Fetches : WF_extractVars(part = "requests" /\ TimerOut(f))
    /\ WF_theCall(part = "call" /\ Model!Timers)
    /\ WF_theCall(part = "call" /\ Model!AbortNoticed)
    /\ \A c \in ShellCalls : WF_theShell(part = "shell" /\ Shell!ShellStep(c))
    /\ \A p \in Processes : WF_theVectors(part = "vectors" /\ Vectors!PersistStep(p))
    /\ \A p \in Processes : WF_theVectors(part = "vectors" /\ Vectors!TimerFires(p))

(* The types of the parts, and the invariants the proofs of the pool and of its  *)
(* server are by induction on.                                                   *)
ServerOK ==
    /\ PoolIInv /\ ExtractIInv /\ Model!CallTypeOK /\ Resources!ResourcesTypeOK
    /\ Shell!ShellTypeOK /\ Patching!PatchTypeOK /\ Vectors!VectorTypeOK

(* A waiting request gets its context, as in QueuedIsServed, a request of the    *)
(* server is answered, a call of a model comes to an end, though the service may *)
(* hang, a command too, and what is due is written to the vectors' file.  Two of *)
(* them are looked at: the others have no part of their own.                     *)
Nth(S, n) == SetToSeq(S)[n]

Awaited(n) ==
    \/ part = "pool" /\ pc[Nth(Requests, n)] = "queued" /\ ~ closed
    \/ part = "requests" /\ n <= Cardinality(Fetches) /\ InFlight(Nth(Fetches, n))
    \/ part = "call" /\ n = 1 /\ at # "over"
    \/ part = "shell" /\ Shell!Hangs(n)
    \/ part = "vectors" /\ Vectors!Due(Nth(Processes, n))
RequestsEnd == \A n \in 1 .. 2 : Awaited(n) ~> ~ Awaited(n)

(* What a call is given, and what is made of its answer.  What a request says is *)
(* of no state: it is looked at in one.                                          *)
StepSound ==
    /\ Model!StepSound /\ Resources!ResourcesBound
    /\ part = "call" /\ request = FirstRequest /\ at = "asked" /\ aborted = "none"
          => Model!RequestKept

(* Commands, patches and the vectors' file; a hunk is of no state.               *)
ToolsSound ==
    /\ Shell!ShellSound /\ Patching!PatchSound /\ Vectors!VectorSound
    /\ part = "files" /\ (\A c \in PatchCalls : edits[c].at = "idle")
          => Patching!HunkSound(MCSources, MCHunks)
================================================================================
