----------------------------- MODULE Registration -----------------------------
(***************************************************************************)
(* Descriptors on their way into the registry: what the core's loader       *)
(* (core/src/registry/loader.ts) and the CLI's scanner (cli/src/config-     *)
(* loader/descriptor-scanner.ts) make of a file, the registry with its      *)
(* versions (core/src/registry/registry.ts), loads and reloads that run at  *)
(* the same time, the start of the CLI, where files of the user meet        *)
(* built-in ones, and the tools of several MCP servers, which come and go   *)
(* with the prompts (cli/src/mcp/mount.ts, setup.ts).                       *)
(*                                                                         *)
(* Abstractions: a file is its frontmatter, a field of it one of a few      *)
(* classes; a name is a sequence of words, those of MCP tools have the id   *)
(* of the server before them, those of files one word, as the format        *)
(* demands; versions are numbers in their order.  How one connection is     *)
(* made, lost and made again is McpServer's.                                *)
(***************************************************************************)
LOCAL INSTANCE Integers
LOCAL INSTANCE FiniteSets
LOCAL INSTANCE FiniteSetsExt
LOCAL INSTANCE Sequences
LOCAL INSTANCE SequencesExt
LOCAL INSTANCE Functions

CONSTANTS
    Loaders,        \* calls of loadFromDirectory and reload
    Directories,    \* the directories tried: sequences of files
    Starts,         \* the starts of the CLI tried: sequences of [file, builtin]
    ServerLists,    \* the mcpServers tried: sequences of [id, tools, allow, deny, gated]
    Prereleases,    \* the versions that are prereleases
    ReservedNames,  \* the names the core's registry is made with
    MaxPromptLines  \* bound: prompts of a chat

VARIABLES
    stage,      \* "core", or of the CLI: "scan", "mount", "ready", "failed"
    held,       \* the registry: [kind, name, version, by]
    loads,      \* each load: [pc, dir, n, own, disturbed]
    checked,    \* what validateDependencies last accepted
    items,      \* the CLI's files and built-ins
    next,       \* the one it is at
    seen,       \* seen: the items that were the last of their kind and name
    config,     \* mcpServers
    executors,  \* names of tools, with the server (its place in config) that runs them
    groups,     \* gatedGroups: [server, names]
    activeGroups,   \* the servers whose groups are registered
    matched,    \* the servers the last prompt matched
    lines       \* prompts so far

regVars == <<stage, held, loads, checked, items, next, seen, config, executors, groups, activeGroups,
             matched, lines>>

-----------------------------------------------------------------------------
(* Frontmatter.  The signs of a kind are fields only descriptors of it have.    *)
Kinds == {"rule", "skill", "tool", "agent"}
Refused == "refused"
Signs(f) ==
    {k \in Kinds : \/ k = "rule" /\ f.type \in {"rule", "preference"}
                   \/ k = "tool" /\ (f.execute # "none" \/ f.schema)
                   \/ k = "agent" /\ f.persona}
Unclear(f) == f.kind = "other" \/ (f.kind = "none" /\ Cardinality(Signs(f)) > 1)
Only(set) == CHOOSE k \in set : TRUE

(* toDescriptor asks for each kind in turn whether it is declared or signed;     *)
(* resolveDescriptorKind takes what is declared.                                 *)
LoaderKind(f) ==
    LET is(k) == f.kind = k \/ k \in Signs(f)
    IN IF Unclear(f) THEN Refused
       ELSE IF is("rule") THEN "rule" ELSE IF is("tool") THEN "tool"
       ELSE IF is("agent") THEN "agent" ELSE "skill"
ScannerKind(f) ==
    IF Unclear(f) THEN Refused
    ELSE IF f.kind # "none" THEN f.kind
    ELSE IF Signs(f) = {} THEN "skill" ELSE Only(Signs(f))

(* normalizeActivation, parseActivation: "path" comes with globs, "pathless" not. *)
Activation(f, default) ==
    IF f.activation = "none" THEN default
    ELSE IF f.activation \in {"always", "manual", "semantic", "path"} THEN f.activation
    ELSE Refused

SideEffect(f) ==
    IF f.effect = "none" THEN "readonly"
    ELSE IF f.effect \in {"readonly", "write", "irreversible"} THEN f.effect ELSE Refused

(* What a descriptor of the kind is worth: its activation, or its side effect.   *)
Worth(f, kind) ==
    IF kind = "rule" THEN Activation(f, "always")
    ELSE IF kind = "skill" THEN Activation(f, "semantic") ELSE SideEffect(f)

(* What cannot be taken is a descriptor of no kind.                             *)
Rejected == [kind |-> Refused, name |-> <<>>, version |-> 0, requires |-> {},
             untold |-> FALSE, worth |-> Refused]
Taken(d) == d # Rejected
Readable(f) == f.name # <<>> /\ f.described /\ f.wellNamed
Descriptor(f, kind, version, untold) ==
    [kind |-> kind, name |-> f.name, version |-> version, requires |-> f.requires,
     untold |-> untold, worth |-> Worth(f, kind)]

LoaderReads(f) ==
    LET kind == LoaderKind(f)
    IN IF \/ ~ Readable(f) \/ kind = Refused \/ Worth(f, kind) = Refused
          \/ kind = "tool" /\ f.execute # "string"
       THEN Rejected
       ELSE Descriptor(f, kind, f.version, f.untold)
ScannerReads(f) ==
    LET kind == ScannerKind(f)
    IN IF ~ Readable(f) \/ kind = Refused \/ Worth(f, kind) = Refused THEN Rejected
       ELSE Descriptor(f, kind, 0, FALSE)

-----------------------------------------------------------------------------
(* The registry.                                                                *)
NoVersion == 0      \* DEFAULT_VERSION
BadVersion == -1
Entry(d, by) == [kind |-> d.kind, name |-> d.name, version |-> d.version,
                 requires |-> d.requires, by |-> by]
Bucket(set, kind, name) == {e \in set : e.kind = kind /\ e.name = name}

RegisterFails(d, reserved) ==
    \/ d.name \in reserved
    \/ d.untold
    \/ d.version = BadVersion
    \/ \E e \in Bucket(held, d.kind, d.name) : e.version = d.version

(* pickLatestVersion: the highest stable one; the highest, if none is.           *)
PickLatest(bucket) ==
    LET stable == {e \in bucket : e.version \notin Prereleases}
        candidates == IF stable # {} THEN stable ELSE bucket
    IN CHOOSE e \in candidates : \A o \in candidates : o.version <= e.version

Listed == {PickLatest(Bucket(held, e.kind, e.name)) : e \in held}

(* validateDependencies: what is required exists in some version, and the graph  *)
(* of kinds and names, over all versions, can be sorted (topologicalSort takes   *)
(* away what nothing that is left requires).                                     *)
Node(d) == <<d.kind, d.name>>
Nodes(set) == {Node(e) : e \in set}
Required(set, node) == UNION {e.requires : e \in {o \in set : Node(o) = node}}
Sorted(set) ==
    LET left[n \in 0 .. Cardinality(Nodes(set))] ==
            IF n = 0 THEN Nodes(set)
            ELSE {node \in left[n - 1] :
                    \E other \in left[n - 1] : node \in Required(set, other)}
    IN left[Cardinality(Nodes(set))] = {}
ValidDependencies(set) ==
    /\ \A e \in set : e.requires \subseteq Nodes(set)
    /\ Sorted(set)

-----------------------------------------------------------------------------
Idle == [pc |-> "idle", dir |-> <<>>, n |-> 1, own |-> {}, disturbed |-> FALSE]

RegTypeOK ==
    /\ stage \in {"core", "scan", "mount", "ready", "failed"}
    /\ \A e \in held : e.kind \in Kinds /\ e.version \in Nat /\ e.name # <<>>
    /\ \A l \in Loaders : loads[l].pc \in {"idle", "reading", "loaded", "thrown"}
    /\ next \in 1 .. Len(items) + 1
    /\ activeGroups \subseteq {g.server : g \in groups}
    /\ lines \in 0 .. MaxPromptLines

RegInit ==
    /\ held = {} /\ checked = {} /\ loads = [l \in Loaders |-> Idle]
    /\ seen = {} /\ next = 1 /\ executors = {} /\ groups = {} /\ activeGroups = {} /\ matched = {}
    /\ lines = 0
    /\ \/ stage = "core" /\ items = <<>> /\ config = <<>>
       \/ stage = "scan" /\ items \in Starts /\ config \in ServerLists

cliVars == <<items, next, seen, config, executors, groups, activeGroups, matched, lines>>

(* What others do to the registry while a load is under way, or later.           *)
Disturb(all, except) ==
    [l \in Loaders |-> IF l = except \/ all[l].pc = "idle" THEN all[l]
                       ELSE [all[l] EXCEPT !.disturbed = TRUE]]

(* loadFromDirectory, from the list of its files on; reload clears the registry  *)
(* before it reads the first.                                                    *)
LoadStarts(l, dir) ==
    /\ stage = "core" /\ loads[l].pc = "idle"
    /\ loads' = [loads EXCEPT ![l] = [Idle EXCEPT !.pc = "reading", !.dir = dir]]
    /\ UNCHANGED <<stage, held, checked, cliVars>>
ReloadStarts(l, dir) ==
    /\ stage = "core" /\ loads[l].pc = "idle"
    /\ held' = {}
    /\ loads' = Disturb([loads EXCEPT ![l] = [Idle EXCEPT !.pc = "reading", !.dir = dir]], l)
    /\ UNCHANGED <<stage, checked, cliVars>>

LoadAt(l) == loads[l].pc = "reading" /\ loads[l].n <= Len(loads[l].dir)
ReadOf(l) == LoaderReads(loads[l].dir[loads[l].n])
LoadThrows(l) == ~ Taken(ReadOf(l)) \/ RegisterFails(ReadOf(l), ReservedNames)

(* The first file that cannot be taken ends the load; those before it stay.      *)
LoadReads(l) ==
    /\ LoadAt(l)
    /\ IF LoadThrows(l)
       THEN /\ loads' = [loads EXCEPT ![l].pc = "thrown"]
            /\ UNCHANGED held
       ELSE /\ held' = held \cup {Entry(ReadOf(l), l)}
            /\ loads' = [loads EXCEPT ![l].n = @ + 1, ![l].own = @ \cup {Entry(ReadOf(l), l)}]
    /\ UNCHANGED <<stage, checked, cliVars>>

LoadEnds(l) ==
    /\ loads[l].pc = "reading" /\ loads[l].n > Len(loads[l].dir)
    /\ LET valid == ValidDependencies(held)
       IN /\ loads' = [loads EXCEPT ![l].pc = IF valid THEN "loaded" ELSE "thrown"]
          /\ checked' = IF valid THEN held ELSE checked
    /\ UNCHANGED <<stage, held, cliVars>>

(* unregister, by an embedder: one version, or all.                              *)
Unregister(e, version) ==
    /\ stage = "core"
    /\ e.name \notin ReservedNames
    /\ held' = held \ {o \in Bucket(held, e.kind, e.name) :
                          version = NoVersion \/ o.version = version}
    /\ loads' = Disturb(loads, "nobody")
    /\ UNCHANGED <<stage, checked, cliVars>>

CoreNext ==
    \/ \E l \in Loaders : LoadReads(l) \/ LoadEnds(l)
          \/ \E dir \in Directories : LoadStarts(l, dir) \/ ReloadStarts(l, dir)
    \/ \E e \in held : Unregister(e, e.version) \/ Unregister(e, NoVersion)

-----------------------------------------------------------------------------
(* The CLI: scanDescriptors, and registerOne for what it reads.                 *)
ItemKey(n) == Node(ScannerReads(items[n].file))
LastSeen(n) == {m \in seen : ItemKey(m) = ItemKey(n)}

(* Mutant: what comes later wins, whoever brings it.                            *)
YieldsNever(n) == FALSE

(* A built-in descriptor yields to one of the user.                             *)
Yields(n) == items[n].builtin /\ \E m \in LastSeen(n) : ~ items[m].builtin

RegisterOne(n) ==
    LET d == ScannerReads(items[n].file)
        kept == IF LastSeen(n) = {} THEN held ELSE held \ Bucket(held, d.kind, d.name)
    IN IF ~ Taken(d) \/ Yields(n) THEN UNCHANGED <<held, seen>>
       ELSE held' = kept \cup {Entry(d, n)} /\ seen' = (seen \ LastSeen(n)) \cup {n}

ScanNext ==
    /\ stage = "scan" /\ next <= Len(items)
    /\ RegisterOne(next)
    /\ next' = next + 1
    /\ UNCHANGED <<stage, loads, checked, items, config, executors, groups, activeGroups, matched, lines>>

(* A directory that cannot be read ends the start.                              *)
ScanFails ==
    /\ stage = "scan" /\ next <= Len(items) /\ ~ items[next].builtin
    /\ stage' = "failed"
    /\ UNCHANGED <<held, loads, checked, cliVars>>
ScanEnds ==
    /\ stage = "scan" /\ next > Len(items)
    /\ stage' = "mount" /\ next' = 1
    /\ UNCHANGED <<held, loads, checked, items, seen, config, executors, groups, activeGroups, matched, lines>>

(* shouldAcceptTool, and mountMcpServers: a name that has an executor is left to it. *)
Accepted(server) ==
    LET tools == (IF server.allow = {} THEN server.tools ELSE server.tools \cap server.allow)
                   \ server.deny
    IN {server.id \o t : t \in tools} \ {x.name : x \in executors}
ToolOf(name, server) ==
    [kind |-> "tool", name |-> name, version |-> NoVersion, requires |-> {}, by |-> server]
Registered(names, server) ==
    {ToolOf(name, server) : name \in {x \in names : Bucket(held, "tool", x) = {}}}

MountNext ==
    /\ stage = "mount" /\ next <= Len(config)
    /\ next' = next + 1
    /\ LET server == config[next]
           names == Accepted(server)
       IN \/ /\ executors' = executors \cup {[name |-> x, server |-> next] : x \in names}
             /\ IF server.gated
                THEN /\ groups' = groups \cup {[server |-> next, names |-> names]}
                     /\ UNCHANGED held
                ELSE held' = held \cup Registered(names, next) /\ UNCHANGED groups
          \/ UNCHANGED <<executors, groups, held>>   \* connecting or listing fails
    /\ UNCHANGED <<stage, loads, checked, items, seen, config, activeGroups, matched, lines>>
MountEnds ==
    /\ stage = "mount" /\ next > Len(config)
    /\ stage' = "ready" /\ next' = 1
    /\ UNCHANGED <<held, loads, checked, items, seen, config, executors, groups, activeGroups, matched, lines>>

(* activateForPrompt: groups that are matched and not active are registered,     *)
(* those that are active and not matched unregistered by the names of their tools. *)
ActivateForPrompt(hits) ==
    /\ stage = "ready" /\ lines < MaxPromptLines
    /\ LET ids == {g.server : g \in groups}
           comes == {g \in groups : g.server \in hits \ activeGroups}
           goes == {g \in groups : g.server \in activeGroups \ hits}
           gone == UNION {g.names : g \in goes}
       IN /\ hits \subseteq ids
          /\ activeGroups' = hits
          /\ held' = {e \in held : ~ (e.kind = "tool" /\ e.name \in gone)}
                       \cup UNION {Registered(g.names, g.server) : g \in comes}
    /\ matched' = hits /\ lines' = lines + 1
    /\ UNCHANGED <<stage, loads, checked, items, next, seen, config, executors, groups>>

CliNext ==
    \/ ScanNext \/ ScanFails \/ ScanEnds \/ MountNext \/ MountEnds
    \/ \E hits \in SUBSET {g.server : g \in groups} : ActivateForPrompt(hits)

RegNext == CoreNext \/ CliNext

-----------------------------------------------------------------------------
(* What a file is taken for does not depend on who reads it, unless the kind it  *)
(* declares is contradicted by its fields: then the loader takes the fields'.    *)
(* A file whose kind is unclear, or whose activation or side effect is not       *)
(* known, is taken by neither; and none is worth less care than it asks for.     *)
Contradicted(f) == f.kind \in Kinds /\ \E k \in Signs(f) : k # f.kind
ReadsAgree(Files) == \A f \in Files :
    LET core == LoaderReads(f)
        cli == ScannerReads(f)
    IN /\ Taken(core) /\ Taken(cli) /\ ~ Contradicted(f) =>
             core.kind = cli.kind /\ core.worth = cli.worth
       /\ f.kind = "none" /\ (\E j, k \in Signs(f) : j # k) => ~ Taken(core) /\ ~ Taken(cli)
       /\ \A d \in {core, cli} \ {Rejected} :
             /\ d.kind \in {"tool", "agent"} /\ f.effect # "none" => d.worth = f.effect
             /\ d.kind \in {"rule", "skill"} /\ f.activation # "none" => d.worth = f.activation
             /\ f.kind \in Kinds /\ ~ Contradicted(f) => d.kind = f.kind

(* What the core's registry holds.  A name has no version twice, and what is      *)
(* listed of it is a prerelease only if all are, and then the highest.  A load    *)
(* that nobody disturbed by a reload or an unregister has put in what it read,    *)
(* all of its directory if it returned, what comes before the first bad file if   *)
(* it threw; if it returned, what its descriptors require is there.  And what     *)
(* was accepted has no cycle.                                                     *)
Path(set, a, b) ==
    LET reach[n \in 0 .. Cardinality(Nodes(set))] ==
            IF n = 0 THEN Required(set, a)
            ELSE reach[n - 1] \cup UNION {Required(set, x) : x \in reach[n - 1]}
    IN b \in reach[Cardinality(Nodes(set))]
LoadedSound ==
    /\ \A e, o \in held : Node(e) = Node(o) /\ e.version = o.version => e = o
    /\ \A e \in Listed :
          /\ \A o \in Bucket(held, e.kind, e.name) :
                o.version > e.version => o.version \in Prereleases
          /\ e.version \in Prereleases =>
                \A o \in Bucket(held, e.kind, e.name) : o.version \in Prereleases
    /\ \A l \in Loaders : ~ loads[l].disturbed =>
          /\ loads[l].own \subseteq held
          /\ loads[l].pc = "loaded" =>
                /\ Len(loads[l].dir) = Cardinality(loads[l].own)
                /\ \A e \in loads[l].own : e.requires \subseteq Nodes(held)
    /\ \A node \in Nodes(checked) : ~ Path(checked, node, node)

(* What the CLI starts with: of every kind and name, the last descriptor of the   *)
(* user that can be read, or the last built-in one if there is none.              *)
Claims(entry) == {n \in 1 .. Len(items) : /\ Taken(ScannerReads(items[n].file))
                                          /\ ItemKey(n) = entry}
UserFirst == stage \in {"mount", "ready"} =>
    \A n \in 1 .. Len(items) : Taken(ScannerReads(items[n].file)) =>
        LET claims == Claims(ItemKey(n))
            users == {m \in claims : ~ items[m].builtin}
        IN {e.by : e \in Bucket(held, ItemKey(n)[1], ItemKey(n)[2])}
             = {Max(IF users # {} THEN users ELSE claims)}

(* Of the MCP servers' tools the model sees those of servers that are not gated   *)
(* and of groups the last prompt matched, each run by the server it is listed of. *)
GroupsExact == stage = "ready" =>
    LET tools == {e \in held : Len(e.name) > 1}
        gated == UNION {g.names : g \in groups}
    IN /\ {e.name : e \in tools} =
             {x.name : x \in executors} \ UNION {g.names : g \in {o \in groups : o.server \notin matched}}
       /\ \A e \in tools : [name |-> e.name, server |-> e.by] \in executors

RegistrationSound == LoadedSound /\ UserFirst /\ GroupsExact
=============================================================================
