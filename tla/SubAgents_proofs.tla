-------------------------- MODULE SubAgents_proofs --------------------------
(***************************************************************************)
(* Proofs about SubAgents: for any number of agents, tools and dispatches, *)
(* and any depth, the tree of dispatches keeps what AgentsContained says.  *)
(***************************************************************************)
EXTENDS SubAgents, QueueLemmas

(* f is the chains of the dispatches in D, up giving what is above each.     *)
Chains(f, up, D) ==
    f = [i \in D |-> {i} \cup (IF up[i] = 0 THEN {} ELSE f[up[i]])]

(* There is no more than one way to follow what is above each dispatch.      *)
LEMMA ChainsUnique ==
  ASSUME NEW n \in Nat, NEW up, \A i \in 1 .. n : up[i] \in 0 .. i - 1,
         NEW f, Chains(f, up, 1 .. n), NEW g, Chains(g, up, 1 .. n)
  PROVE  f = g
<1> DEFINE T == {i \in 1 .. n : f[i] # g[i]}
<1>1. SUFFICES ASSUME T # {} PROVE FALSE
  <2>1. /\ f = [i \in 1 .. n |-> f[i]]
        /\ g = [i \in 1 .. n |-> g[i]]
    BY DEF Chains
  <2>2. T = {} => \A i \in 1 .. n : f[i] = g[i]
    OBVIOUS
  <2>3. T = {} => f = g
    <3> HIDE DEF T
    <3> QED
      BY <2>1, <2>2, Zenon
  <2> QED
    BY <2>3
<1>2. PICK i \in T : \A j \in T : i <= j
  <2>1. T \in SUBSET Nat
    OBVIOUS
  <2> HIDE DEF T
  <2> QED
    BY <1>1, <2>1, LeastOf
<1>3. i \in 1 .. n /\ up[i] \in 0 .. i - 1
  BY <1>2
<1>4. f[i] = {i} \cup (IF up[i] = 0 THEN {} ELSE f[up[i]])
  BY <1>3 DEF Chains
<1>5. g[i] = {i} \cup (IF up[i] = 0 THEN {} ELSE g[up[i]])
  BY <1>3 DEF Chains
<1>6. up[i] # 0 => f[up[i]] = g[up[i]]
  BY <1>2, <1>3
<1> QED
  BY <1>2, <1>4, <1>5, <1>6

(* The chains of the module are those.                                       *)
LEMMA ChainIsChosen ==
  ASSUME NEW f, Chains(f, [i \in DOMAIN runs |-> runs[i].above], DOMAIN runs)
  PROVE  Chains(Chain, [i \in DOMAIN runs |-> runs[i].above], DOMAIN runs)
<1> DEFINE P(g) == g = [i \in DOMAIN runs |->
                          {i} \cup (IF runs[i].above = 0 THEN {} ELSE g[runs[i].above])]
<1>1. \A g : P(g) <=> Chains(g, [i \in DOMAIN runs |-> runs[i].above], DOMAIN runs)
  BY DEF Chains
<1>2. Chain = CHOOSE g : P(g)
  BY DEF Chain
<1>3. P(f)
  BY <1>1
<1> HIDE DEF P
<1> QED
  BY <1>1, <1>2, <1>3

(* And so are they after a step.                                             *)
LEMMA NextChainIsChosen ==
  ASSUME NEW f, Chains(f, [i \in DOMAIN runs' |-> runs'[i].above], DOMAIN runs')
  PROVE  Chains(Chain', [i \in DOMAIN runs' |-> runs'[i].above], DOMAIN runs')
<1> DEFINE P(g) == g = [i \in DOMAIN runs' |->
                          {i} \cup (IF runs'[i].above = 0 THEN {} ELSE g[runs'[i].above])]
<1>1. \A g : P(g) <=> Chains(g, [i \in DOMAIN runs' |-> runs'[i].above], DOMAIN runs')
  BY DEF Chains
<1>2. Chain' = CHOOSE g : P(g)
  BY DEF Chain
<1>3. P(f)
  BY <1>1
<1> HIDE DEF P
<1> QED
  BY <1>1, <1>2, <1>3

-----------------------------------------------------------------------------
(* What each action does to the dispatches.                                  *)
Unmoved == UNCHANGED <<tools, limits, available, maxDepth>>

(* Fields of a dispatch.                                                     *)
LEMMA DispatchFields ==
  ASSUME AgentsTypeOK
  PROVE  /\ Len(runs) \in Nat /\ DOMAIN runs = 1 .. Len(runs)
         /\ \A i \in DOMAIN runs :
               /\ runs[i] \in Dispatches
               /\ runs[i].above \in Nat /\ runs[i].agent \in Agents /\ runs[i].depth \in Nat
               /\ runs[i].aborted \in BOOLEAN /\ runs[i].spawned \in BOOLEAN
               /\ runs[i].audited \in BOOLEAN /\ runs[i].used \in SUBSET AllTools
               /\ runs[i].at \in {"asked", "looping", "ran", "over"}
               /\ runs[i].status \in {"none", "completed", "failed", "cancelled"}
<1>1. runs \in Seq(Dispatches)
  BY DEF AgentsTypeOK
<1>2. Len(runs) \in Nat /\ DOMAIN runs = 1 .. Len(runs)
  BY <1>1, LenProperties
<1>3. \A i \in DOMAIN runs : runs[i] \in Dispatches
  BY <1>1, <1>2, ElementOfSeq
<1> QED
  BY <1>2, <1>3 DEF Dispatches

(* A dispatch is made.                                                       *)
LEMMA Dispatched ==
  ASSUME AgentsTypeOK, NEW above \in 0 .. Len(runs), NEW agent \in Agents,
         DispatchAgent(above, agent)
  PROVE  /\ Unmoved /\ UNCHANGED turnAborted
         /\ above # 0 => runs[above].at = "looping"
         /\ runs' \in Seq(Dispatches)
         /\ Len(runs') = Len(runs) + 1
         /\ DOMAIN runs' = DOMAIN runs \cup {Len(runs) + 1}
         /\ \A i \in DOMAIN runs : runs'[i] = runs[i]
         /\ LET r == runs'[Len(runs) + 1] IN
            /\ r.above = above /\ r.agent = agent
            /\ r.depth = (IF above = 0 THEN 1 ELSE runs[above].depth + 1)
            /\ r.aborted = (IF above = 0 THEN turnAborted ELSE runs[above].aborted)
            /\ r.used = {} /\ r.spawned = FALSE /\ r.audited = FALSE
            /\ r.at = (IF agent \in Known THEN "asked" ELSE "over")
            /\ r.status = (IF agent \in Known THEN "none" ELSE "failed")
<1> DEFINE new == [above |-> above, agent |-> agent, depth |-> Depth(above),
           aborted |-> Aborted(above), used |-> {}, spawned |-> FALSE, audited |-> FALSE,
           at |-> IF agent \in Known THEN "asked" ELSE "over",
           status |-> IF agent \in Known THEN "none" ELSE "failed"]
<1>1. Len(runs) \in Nat /\ DOMAIN runs = 1 .. Len(runs) /\ runs \in Seq(Dispatches)
  BY DispatchFields DEF AgentsTypeOK
<1>2. above # 0 => above \in DOMAIN runs
  BY <1>1
<1>3. Depth(above) \in Nat
  BY <1>2, DispatchFields DEF Depth
<1>4. Aborted(above) \in BOOLEAN
  BY <1>2, DispatchFields DEF Aborted, AgentsTypeOK
<1>5. new \in Dispatches
  BY <1>1, <1>3, <1>4 DEF Dispatches
<1>6. /\ new.above = above /\ new.agent = agent /\ new.depth = Depth(above)
      /\ new.aborted = Aborted(above)
      /\ new.used = {} /\ new.spawned = FALSE /\ new.audited = FALSE
      /\ new.at = (IF agent \in Known THEN "asked" ELSE "over")
      /\ new.status = (IF agent \in Known THEN "none" ELSE "failed")
  OBVIOUS
<1>7. /\ runs' = Append(runs, new)
      /\ above # 0 => runs[above].at = "looping"
      /\ Unmoved /\ UNCHANGED turnAborted
  BY Zenon DEF DispatchAgent, Unmoved
<1> HIDE DEF new
<1>8. /\ runs' \in Seq(Dispatches) /\ Len(runs') = Len(runs) + 1
      /\ \A i \in DOMAIN runs : runs'[i] = runs[i]
      /\ runs'[Len(runs) + 1] = new
  <2>1. /\ Append(runs, new) \in Seq(Dispatches)
        /\ Len(Append(runs, new)) = Len(runs) + 1
        /\ \A i \in 1 .. Len(runs) : Append(runs, new)[i] = runs[i]
        /\ Append(runs, new)[Len(runs) + 1] = new
    BY <1>1, <1>5, AppendProperties
  <2> QED
    BY <1>1, <1>7, <2>1
<1>9. DOMAIN runs' = DOMAIN runs \cup {Len(runs) + 1}
  <2>1. DOMAIN runs' = 1 .. Len(runs) + 1
    BY <1>8, LenProperties
  <2> QED
    BY <1>1, <2>1
<1> QED
  BY <1>6, <1>7, <1>8, <1>9 DEF Depth, Aborted

(* A dispatch comes further.                                                 *)
LEMMA Moved ==
  ASSUME AgentsTypeOK, NEW i \in DOMAIN runs,
         NEW at \in {"looping", "ran", "over"},
         NEW status \in {"none", "completed", "failed", "cancelled"},
         Becomes(i, at, status)
  PROVE  /\ Unmoved /\ UNCHANGED turnAborted
         /\ runs' \in Seq(Dispatches)
         /\ DOMAIN runs' = DOMAIN runs
         /\ \A j \in DOMAIN runs : j # i => runs'[j] = runs[j]
         /\ LET r == runs'[i] IN
            /\ r.above = runs[i].above /\ r.agent = runs[i].agent
            /\ r.depth = runs[i].depth /\ r.aborted = runs[i].aborted
            /\ r.used = runs[i].used /\ r.at = at /\ r.status = status
            /\ r.spawned = (runs[i].spawned \/ at # "over")
            /\ r.audited = (runs[i].audited \/ (at = "over" /\ runs[i].at = "ran"))
<1> DEFINE new == [runs[i] EXCEPT !.at = at, !.status = status,
                      !.spawned = runs[i].spawned \/ at # "over",
                      !.audited = runs[i].audited \/ (at = "over" /\ runs[i].at = "ran")]
<1>1. /\ Len(runs) \in Nat /\ DOMAIN runs = 1 .. Len(runs) /\ runs \in Seq(Dispatches)
      /\ runs[i] \in Dispatches
  BY DispatchFields DEF AgentsTypeOK
<1>2. /\ (runs[i].spawned \/ at # "over") \in BOOLEAN
      /\ (runs[i].audited \/ (at = "over" /\ runs[i].at = "ran")) \in BOOLEAN
  OBVIOUS
<1>3. new \in Dispatches
  BY <1>1, <1>2 DEF Dispatches
<1>4. /\ new.above = runs[i].above /\ new.agent = runs[i].agent
      /\ new.depth = runs[i].depth /\ new.aborted = runs[i].aborted
      /\ new.used = runs[i].used /\ new.at = at /\ new.status = status
      /\ new.spawned = (runs[i].spawned \/ at # "over")
      /\ new.audited = (runs[i].audited \/ (at = "over" /\ runs[i].at = "ran"))
  BY <1>1, <1>2 DEF Dispatches
<1>5. runs' = [runs EXCEPT ![i] = new] /\ Unmoved /\ UNCHANGED turnAborted
  BY <1>1, Zenon DEF Becomes, Unmoved
<1> HIDE DEF new
<1>6. /\ runs' \in Seq(Dispatches) /\ Len(runs') = Len(runs)
      /\ \A j \in 1 .. Len(runs) : runs'[j] = IF j = i THEN new ELSE runs[j]
  BY <1>1, <1>3, <1>5, ExceptSeq
<1>7. DOMAIN runs' = DOMAIN runs
  BY <1>1, <1>6, LenProperties
<1> QED
  BY <1>1, <1>4, <1>5, <1>6, <1>7

(* The loop of an agent uses a tool.                                         *)
LEMMA Called ==
  ASSUME AgentsTypeOK, NEW i \in DOMAIN runs, NEW tool \in tools, AgentCalls(i, tool)
  PROVE  /\ Unmoved /\ UNCHANGED turnAborted
         /\ runs[i].at = "looping"
         /\ runs' \in Seq(Dispatches)
         /\ DOMAIN runs' = DOMAIN runs
         /\ \A j \in DOMAIN runs : j # i => runs'[j] = runs[j]
         /\ \E names \in SUBSET AllTools : runs'[i] = [runs[i] EXCEPT !.used = names]
<1> DEFINE names == runs[i].used \cup {tool}
           new == [runs[i] EXCEPT !.used = names]
<1>1. /\ Len(runs) \in Nat /\ DOMAIN runs = 1 .. Len(runs) /\ runs \in Seq(Dispatches)
      /\ runs[i] \in Dispatches
  BY DispatchFields DEF AgentsTypeOK
<1>2. names \in SUBSET AllTools
  BY DispatchFields DEF AgentsTypeOK
<1>3. runs' = [runs EXCEPT ![i] = new]
  BY <1>1, Zenon DEF AgentCalls
<1>4. runs[i].at = "looping" /\ Unmoved /\ UNCHANGED turnAborted
  BY DEF AgentCalls, Unmoved
<1> HIDE DEF names
<1>5. new \in Dispatches
  BY <1>1, <1>2 DEF Dispatches
<1> HIDE DEF new
<1>6. /\ runs' \in Seq(Dispatches) /\ Len(runs') = Len(runs)
      /\ \A j \in 1 .. Len(runs) : runs'[j] = IF j = i THEN new ELSE runs[j]
  BY <1>1, <1>3, <1>5, ExceptSeq
<1>7. DOMAIN runs' = DOMAIN runs
  BY <1>1, <1>6, LenProperties
<1>8. runs'[i] = new
  BY <1>1, <1>6
<1> QED
  BY <1>1, <1>2, <1>4, <1>6, <1>7, <1>8 DEF new

(* Signals are aborted.                                                      *)
LEMMA Signalled ==
  ASSUME AgentsTypeOK, NEW set, runs' = AbortAll(set)
  PROVE  /\ runs' \in Seq(Dispatches)
         /\ DOMAIN runs' = DOMAIN runs
         /\ \A j \in DOMAIN runs :
               IF j \in set /\ Heeds(j) THEN runs'[j] = [runs[j] EXCEPT !.aborted = TRUE]
                                       ELSE runs'[j] = runs[j]
<1>1. /\ Len(runs) \in Nat /\ DOMAIN runs = 1 .. Len(runs)
      /\ \A j \in DOMAIN runs : runs[j] \in Dispatches
  BY DispatchFields
<1>2. DOMAIN runs' = DOMAIN runs
  BY DEF AbortAll
<1>3. \A j \in DOMAIN runs :
         IF j \in set /\ Heeds(j) THEN runs'[j] = [runs[j] EXCEPT !.aborted = TRUE]
                                 ELSE runs'[j] = runs[j]
  BY Zenon DEF AbortAll
<1>4. \A j \in DOMAIN runs : runs'[j] \in Dispatches
  <2>1. \A r \in Dispatches : [r EXCEPT !.aborted = TRUE] \in Dispatches
    BY DEF Dispatches
  <2> QED
    BY <1>1, <1>3, <2>1, Zenon
<1>5. runs' = [j \in 1 .. Len(runs) |-> runs'[j]]
  BY <1>1 DEF AbortAll
<1>6. runs' \in Seq(Dispatches)
  BY <1>1, <1>4, <1>5
<1> QED
  BY <1>2, <1>3, <1>6

-----------------------------------------------------------------------------
(* The actions, by what they do: nothing, a dispatch, a step of one, the     *)
(* call of a tool, an abort.                                                 *)
LEMMA AgentSteps ==
  ASSUME [AgentsNext]_agentVars
  PROVE  \/ \E above \in 0 .. Len(runs), agent \in Agents : DispatchAgent(above, agent)
         \/ \E i \in DOMAIN runs :
               \/ NotSpawned(i) \/ Spawn(i) \/ AgentLoopEnds(i) \/ Settle(i)
               \/ DispatchTimesOut(i)
               \/ \E tool \in tools : AgentCalls(i, tool)
         \/ TurnAborts
         \/ UNCHANGED agentVars
BY DEF AgentsNext, AgentGoesOn

(* All but a dispatch leave the tree as it is.                               *)
SameTree ==
    /\ DOMAIN runs' = DOMAIN runs
    /\ \A i \in DOMAIN runs : runs'[i].above = runs[i].above /\ runs'[i].depth = runs[i].depth

(* The chains are the same then.                                             *)
LEMMA ChainKept ==
  ASSUME SameTree PROVE Chain' = Chain
<1> DEFINE P(g) == g = [i \in DOMAIN runs |->
                          {i} \cup (IF runs[i].above = 0 THEN {} ELSE g[runs[i].above])]
           Q(g) == g = [i \in DOMAIN runs' |->
                          {i} \cup (IF runs'[i].above = 0 THEN {} ELSE g[runs'[i].above])]
<1>1. Chain = CHOOSE g : P(g)
  BY DEF Chain
<1>2. Chain' = CHOOSE g : Q(g)
  BY DEF Chain
<1>3. \A g : P(g) <=> Q(g)
  BY DEF SameTree
<1> HIDE DEF P, Q
<1> QED
  BY <1>1, <1>2, <1>3

(* What is known of a chain.                                                 *)
LEMMA ChainFields ==
  ASSUME ChainsCounted, NEW i \in DOMAIN runs
  PROVE  /\ runs[i].above < i
         /\ Chain[i] \in SUBSET DOMAIN runs
         /\ IsFiniteSet(Chain[i])
         /\ Cardinality(Chain[i]) = runs[i].depth
<1>1. Chain \in [DOMAIN runs -> SUBSET DOMAIN runs]
  BY DEF ChainsCounted
<1>2. Chain[i] \in SUBSET DOMAIN runs
  BY <1>1, Zenon
<1>3. runs[i].above < i /\ IsFiniteSet(Chain[i]) /\ Cardinality(Chain[i]) = runs[i].depth
  BY Zenon DEF ChainsCounted
<1> QED
  BY <1>2, <1>3

(* The chain of a new dispatch is that of the loop it was made by, and one   *)
(* longer.                                                                   *)
LEMMA ChainGrows ==
  ASSUME AgentsTypeOK, ChainsCounted, NEW above \in 0 .. Len(runs), NEW agent \in Agents,
         DispatchAgent(above, agent)
  PROVE  ChainsCounted'
<1> DEFINE n == Len(runs) + 1
           D == 1 .. n
           up == [i \in D |-> runs'[i].above]
           old == [i \in DOMAIN runs |-> runs[i].above]
           g == [i \in D |-> IF i = n THEN {n} \cup (IF above = 0 THEN {} ELSE Chain[above])
                                      ELSE Chain[i]]
<1>1. /\ Len(runs) \in Nat /\ DOMAIN runs = 1 .. Len(runs)
      /\ DOMAIN runs' = D
      /\ \A i \in DOMAIN runs : runs'[i] = runs[i]
      /\ runs'[n].above = above
      /\ runs'[n].depth = (IF above = 0 THEN 1 ELSE runs[above].depth + 1)
  <2>1. Len(runs) \in Nat /\ DOMAIN runs = 1 .. Len(runs)
    BY DispatchFields
  <2>2. DOMAIN runs' = DOMAIN runs \cup {n}
    BY Dispatched
  <2>3. DOMAIN runs' = D
    BY <2>1, <2>2
  <2> QED
    BY <2>1, <2>3, Dispatched
<1>2. \A i \in DOMAIN runs : /\ runs[i].above \in 0 .. i - 1
                             /\ runs[i].depth \in Nat
  BY DispatchFields DEF ChainsCounted
<1>3. \A i \in D : up[i] \in 0 .. i - 1
  BY <1>1, <1>2
<1>4. Chains(g, up, D)
  <2>1. ASSUME NEW i \in D
        PROVE  g[i] = {i} \cup (IF up[i] = 0 THEN {} ELSE g[up[i]])
    <3>1. CASE i = n
      BY <1>1, <1>3, <3>1
    <3>2. CASE i # n
      <4>1. /\ i \in DOMAIN runs /\ up[i] = runs[i].above
            /\ runs[i].above # 0 => runs[i].above \in DOMAIN runs /\ runs[i].above # n
        BY <1>1, <1>2, <3>2
      <4>2. Chain[i] = {i} \cup (IF runs[i].above = 0 THEN {} ELSE Chain[runs[i].above])
        BY <4>1 DEF ChainsCounted
      <4>3. runs[i].above # 0 => g[runs[i].above] = Chain[runs[i].above]
        BY <1>1, <4>1
      <4> QED
        BY <3>2, <4>1, <4>2, <4>3
    <3> QED
      BY <3>1, <3>2
  <2>2. g = [i \in D |-> g[i]]
    OBVIOUS
  <2> HIDE DEF g, up
  <2> QED
    BY <2>1, <2>2, Zenon DEF Chains
<1>5. Chain' = g
  <2>1. Chains(Chain', [i \in DOMAIN runs' |-> runs'[i].above], DOMAIN runs')
    <3>1. Chains(g, [i \in DOMAIN runs' |-> runs'[i].above], DOMAIN runs')
      BY <1>1, <1>4
    <3> QED
      BY <3>1, NextChainIsChosen
  <2>2. Chains(Chain', up, D)
    BY <1>1, <2>1
  <2> HIDE DEF g, up
  <2> QED
    BY <1>1, <1>3, <1>4, <2>2, ChainsUnique
<1>6. ASSUME NEW i \in DOMAIN runs
      PROVE  /\ runs'[i].above < i
             /\ g[i] \in SUBSET D
             /\ g[i] = {i} \cup (IF runs'[i].above = 0 THEN {} ELSE g[runs'[i].above])
             /\ IsFiniteSet(g[i])
             /\ Cardinality(g[i]) = runs'[i].depth
  <2>1. g[i] = Chain[i] /\ i \in D
    BY <1>1
  <2>2. /\ Chain[i] \in SUBSET DOMAIN runs
        /\ IsFiniteSet(Chain[i])
        /\ Cardinality(Chain[i]) = runs[i].depth
    BY ChainFields
  <2>3. g[i] = {i} \cup (IF up[i] = 0 THEN {} ELSE g[up[i]]) /\ up[i] = runs'[i].above
    <3>1. i \in D
      BY <2>1
    <3> HIDE DEF g
    <3> QED
      BY <1>4, <3>1 DEF Chains
  <2> HIDE DEF g, up
  <2> QED
    BY <1>1, <1>2, <2>1, <2>2, <2>3
<1>7. /\ runs'[n].above < n
      /\ g[n] \in SUBSET D
      /\ g[n] = {n} \cup (IF runs'[n].above = 0 THEN {} ELSE g[runs'[n].above])
      /\ IsFiniteSet(g[n]) /\ Cardinality(g[n]) = runs'[n].depth
  <2>1. CASE above = 0
    <3>1. g[n] = {n} /\ n \in D
      BY <1>1, <2>1
    <3>2. IsFiniteSet({n}) /\ Cardinality({n}) = 1
      BY FS_Singleton
    <3> HIDE DEF g
    <3> QED
      BY <1>1, <2>1, <3>1, <3>2
  <2>2. CASE above # 0
    <3>1. above \in DOMAIN runs /\ above # n /\ above \in D /\ n \in D
      BY <1>1, <2>2
    <3>2. g[n] = {n} \cup g[above] /\ g[above] = Chain[above]
      BY <2>2, <3>1
    <3>3. /\ Chain[above] \in SUBSET DOMAIN runs
          /\ IsFiniteSet(Chain[above])
          /\ Cardinality(Chain[above]) = runs[above].depth
      BY <3>1, ChainFields
    <3>4. n \notin Chain[above] /\ Chain[above] \in SUBSET D
      BY <1>1, <3>3
    <3>5. /\ IsFiniteSet(Chain[above] \cup {n})
          /\ Cardinality(Chain[above] \cup {n}) = runs[above].depth + 1
      BY <3>3, <3>4, FS_AddElement
    <3>6. g[n] = Chain[above] \cup {n}
      BY <3>2
    <3> HIDE DEF g
    <3>7. above < n
      BY <1>1, <3>1
    <3> QED
      BY <1>1, <2>2, <3>1, <3>2, <3>4, <3>5, <3>6, <3>7
  <2> QED
    BY <2>1, <2>2
<1>8. D = DOMAIN runs \cup {n} /\ g = [i \in D |-> g[i]]
  BY <1>1
<1>9. \A i \in D : g[i] \in SUBSET D
  <2> HIDE DEF g, D, n
  <2> QED
    BY <1>6, <1>7, <1>8
<1> HIDE DEF g, D, n
<1>10. g \in [D -> SUBSET D]
  BY <1>8, <1>9
<1> QED
  BY <1>1, <1>5, <1>6, <1>7, <1>8, <1>10 DEF ChainsCounted

(* The actions on one dispatch, as a step of it.                             *)
LEMMA Goings ==
  ASSUME AgentsTypeOK, StatusFollows, NEW i \in DOMAIN runs,
         NotSpawned(i) \/ Spawn(i) \/ AgentLoopEnds(i) \/ Settle(i)
  PROVE  \E at \in {"looping", "ran", "over"},
            status \in {"none", "completed", "failed", "cancelled"} :
            /\ Becomes(i, at, status)
            /\ \/ runs[i].at = "asked" /\ at = "over" /\ status = "failed"
               \/ runs[i].at = "asked" /\ at = "ran" /\ status \in {"failed", "cancelled"}
               \/ runs[i].at = "asked" /\ at = "looping" /\ status = "none" /\ ~ TooDeep(i)
               \/ /\ runs[i].at = "looping" /\ at = "ran"
                  /\ \A j \in DOMAIN runs : runs[j].above = i => runs[j].at = "over"
                  /\ \/ runs[i].aborted /\ status = "cancelled"
                     \/ ~ runs[i].aborted /\ status \in {"completed", "failed"}
               \/ runs[i].at = "ran" /\ at = "over" /\ status = runs[i].status
<1> DEFINE Goal == \E at \in {"looping", "ran", "over"},
            status \in {"none", "completed", "failed", "cancelled"} :
            /\ Becomes(i, at, status)
            /\ \/ runs[i].at = "asked" /\ at = "over" /\ status = "failed"
               \/ runs[i].at = "asked" /\ at = "ran" /\ status \in {"failed", "cancelled"}
               \/ runs[i].at = "asked" /\ at = "looping" /\ status = "none" /\ ~ TooDeep(i)
               \/ /\ runs[i].at = "looping" /\ at = "ran"
                  /\ \A j \in DOMAIN runs : runs[j].above = i => runs[j].at = "over"
                  /\ \/ runs[i].aborted /\ status = "cancelled"
                     \/ ~ runs[i].aborted /\ status \in {"completed", "failed"}
               \/ runs[i].at = "ran" /\ at = "over" /\ status = runs[i].status
<1>1. CASE NotSpawned(i)
  <2>1. Becomes(i, "over", "failed") /\ runs[i].at = "asked"
    BY <1>1 DEF NotSpawned
  <2> QED
    BY <2>1
<1>2. CASE Spawn(i)
  <2>1. runs[i].at = "asked"
    BY <1>2 DEF Spawn
  <2>2. \/ Becomes(i, "ran", "failed") \/ Becomes(i, "ran", "cancelled")
        \/ ~ TooDeep(i) /\ Becomes(i, "looping", "none")
    BY <1>2 DEF Spawn
  <2> QED
    BY <2>1, <2>2
<1>3. CASE AgentLoopEnds(i)
  <2>1. /\ runs[i].at = "looping"
        /\ \A j \in DOMAIN runs : runs[j].above = i => runs[j].at = "over"
    BY <1>3 DEF AgentLoopEnds, Below
  <2>2. PICK status \in {"completed", "failed"} :
           Becomes(i, "ran", IF runs[i].aborted THEN "cancelled" ELSE status)
    BY <1>3 DEF AgentLoopEnds
  <2>3. CASE runs[i].aborted
    <3>1. Becomes(i, "ran", "cancelled")
      BY <2>2, <2>3
    <3> QED
      BY <2>1, <2>3, <3>1
  <2>4. CASE ~ runs[i].aborted
    <3>1. Becomes(i, "ran", status)
      BY <2>2, <2>4
    <3> QED
      BY <2>1, <2>2, <2>4, <3>1
  <2> QED
    BY <2>3, <2>4
<1>4. CASE Settle(i)
  <2>1. Becomes(i, "over", runs[i].status) /\ runs[i].at = "ran"
    BY <1>4 DEF Settle
  <2>2. runs[i].status \in {"none", "completed", "failed", "cancelled"}
    BY DispatchFields
  <2> QED
    BY <2>1, <2>2
<1> QED
  BY <1>1, <1>2, <1>3, <1>4

(* An abort: of the turn, or of a dispatch and those below it.               *)
LEMMA Aborting ==
  ASSUME NEW i \in DOMAIN runs, TurnAborts \/ DispatchTimesOut(i)
  PROVE  /\ Unmoved
         /\ \E set \in {DOMAIN runs, Under(i)} : runs' = AbortAll(set)
         /\ turnAborted' = turnAborted \/ turnAborted' = TRUE
BY DEF TurnAborts, DispatchTimesOut, Unmoved

(* The dispatches keep their types.                                          *)
LEMMA AgentsTypeStep ==
  ASSUME AgentsTypeOK, StatusFollows, [AgentsNext]_agentVars
  PROVE  AgentsTypeOK'
<1>1. ASSUME Unmoved, turnAborted' \in BOOLEAN, runs' \in Seq(Dispatches) PROVE AgentsTypeOK'
  BY <1>1 DEF AgentsTypeOK, Unmoved, Known
<1>2. turnAborted \in BOOLEAN /\ runs \in Seq(Dispatches)
  BY DEF AgentsTypeOK
<1>3. ASSUME NEW above \in 0 .. Len(runs), NEW agent \in Agents, DispatchAgent(above, agent)
      PROVE  AgentsTypeOK'
  BY <1>1, <1>2, <1>3, Dispatched
<1>4. ASSUME NEW i \in DOMAIN runs,
             NotSpawned(i) \/ Spawn(i) \/ AgentLoopEnds(i) \/ Settle(i)
      PROVE  AgentsTypeOK'
  BY <1>1, <1>2, <1>4, Goings, Moved
<1>5. ASSUME NEW i \in DOMAIN runs, DispatchTimesOut(i) PROVE AgentsTypeOK'
  <2>1. runs' = AbortAll(Under(i)) /\ UNCHANGED turnAborted /\ Unmoved
    BY <1>5 DEF DispatchTimesOut, Unmoved
  <2> QED
    BY <1>1, <1>2, <2>1, Signalled
<1>6. ASSUME NEW i \in DOMAIN runs, NEW tool \in tools, AgentCalls(i, tool)
      PROVE  AgentsTypeOK'
  BY <1>1, <1>2, <1>6, Called
<1>7. CASE TurnAborts
  <2>1. runs' = AbortAll(DOMAIN runs) /\ turnAborted' = TRUE /\ Unmoved
    BY <1>7 DEF TurnAborts, Unmoved
  <2> QED
    BY <1>1, <2>1, Signalled
<1>8. CASE UNCHANGED agentVars
  BY <1>1, <1>2, <1>8 DEF agentVars, Unmoved
<1> QED
  BY <1>3, <1>4, <1>5, <1>6, <1>7, <1>8, AgentSteps

(* The chains go on being counted.                                           *)
LEMMA ChainsStep ==
  ASSUME AgentsTypeOK, StatusFollows, ChainsCounted, [AgentsNext]_agentVars
  PROVE  ChainsCounted'
<1>1. ASSUME SameTree PROVE ChainsCounted'
  <2>1. Chain' = Chain
    BY <1>1, ChainKept
  <2> QED
    BY <1>1, <2>1 DEF ChainsCounted, SameTree
<1>2. ASSUME NEW above \in 0 .. Len(runs), NEW agent \in Agents, DispatchAgent(above, agent)
      PROVE  ChainsCounted'
  BY <1>2, ChainGrows
<1>3. ASSUME NEW i \in DOMAIN runs,
             NotSpawned(i) \/ Spawn(i) \/ AgentLoopEnds(i) \/ Settle(i)
      PROVE  SameTree
  <2>1. PICK at \in {"looping", "ran", "over"},
             status \in {"none", "completed", "failed", "cancelled"} : Becomes(i, at, status)
    BY <1>3, Goings
  <2> QED
    BY <2>1, Moved DEF SameTree
<1>4. ASSUME NEW set, runs' = AbortAll(set) PROVE SameTree
  <2>1. \A r \in Dispatches :
           /\ [r EXCEPT !.aborted = TRUE].above = r.above
           /\ [r EXCEPT !.aborted = TRUE].depth = r.depth
    BY DEF Dispatches
  <2> QED
    BY <1>4, <2>1, Signalled, DispatchFields DEF SameTree
<1>5. ASSUME NEW i \in DOMAIN runs, NEW tool \in tools, AgentCalls(i, tool)
      PROVE  SameTree
  <2>1. \A r \in Dispatches, names \in SUBSET AllTools :
           /\ [r EXCEPT !.used = names].above = r.above
           /\ [r EXCEPT !.used = names].depth = r.depth
    BY DEF Dispatches
  <2>2. /\ DOMAIN runs' = DOMAIN runs
        /\ \A j \in DOMAIN runs : j # i => runs'[j] = runs[j]
    BY <1>5, Called
  <2>3. PICK names \in SUBSET AllTools : runs'[i] = [runs[i] EXCEPT !.used = names]
    BY <1>5, Called
  <2>4. runs'[i].above = runs[i].above /\ runs'[i].depth = runs[i].depth
    BY <2>1, <2>3, DispatchFields
  <2> QED
    BY <2>2, <2>4, Zenon DEF SameTree
<1>6. ASSUME UNCHANGED agentVars PROVE SameTree
  BY <1>6 DEF agentVars, SameTree
<1>7. ASSUME NEW i \in DOMAIN runs, DispatchTimesOut(i) PROVE SameTree
  BY <1>4, <1>7 DEF DispatchTimesOut
<1>8. CASE TurnAborts
  <2>1. SameTree
    BY <1>4, <1>8 DEF TurnAborts
  <2> QED
    BY <1>1, <2>1
<1> QED
  BY <1>1, <1>2, <1>3, <1>5, <1>6, <1>7, <1>8, AgentSteps

(* The loop above goes on waiting, and its abort goes on being heard.        *)
LEMMA AboveStep ==
  ASSUME AgentsTypeOK, ChainsCounted, StatusFollows, AboveWaits, [AgentsNext]_agentVars
  PROVE  AboveWaits'
<1> DEFINE Waits(j) == runs[j].above # 0 =>
              /\ runs[j].at # "over" => runs[runs[j].above].at = "looping"
              /\ runs[j].at \in {"asked", "looping"} /\ runs[runs[j].above].aborted
                    => runs[j].aborted
           NextWaits(j) == runs'[j].above # 0 =>
              /\ runs'[j].at # "over" => runs'[runs'[j].above].at = "looping"
              /\ runs'[j].at \in {"asked", "looping"} /\ runs'[runs'[j].above].aborted
                    => runs'[j].aborted
<1>0. /\ Len(runs) \in Nat /\ DOMAIN runs = 1 .. Len(runs)
      /\ \A j \in DOMAIN runs : Waits(j)
      /\ \A j \in DOMAIN runs : runs[j].above # 0 => runs[j].above \in DOMAIN runs
      /\ \A j \in DOMAIN runs : runs[j].above # j /\ runs[j].above \in Nat
  <2>1. Len(runs) \in Nat /\ DOMAIN runs = 1 .. Len(runs)
    BY DispatchFields
  <2>2. \A j \in DOMAIN runs : Waits(j)
    BY Zenon DEF AboveWaits, Heeds
  <2>3. \A j \in DOMAIN runs : runs[j].above \in Nat /\ runs[j].above < j
    BY DispatchFields, ChainFields
  <2> HIDE DEF Waits
  <2> QED
    BY <2>1, <2>2, <2>3
<1>1. (\A j \in DOMAIN runs' : NextWaits(j)) => AboveWaits'
  BY Zenon DEF AboveWaits, Heeds
<1>2. ASSUME NEW above \in 0 .. Len(runs), NEW agent \in Agents, DispatchAgent(above, agent)
      PROVE  AboveWaits'
  <2> DEFINE n == Len(runs) + 1
  <2>1. /\ DOMAIN runs' = DOMAIN runs \cup {n}
        /\ \A j \in DOMAIN runs : runs'[j] = runs[j]
        /\ runs'[n].above = above
        /\ runs'[n].aborted = (IF above = 0 THEN turnAborted ELSE runs[above].aborted)
        /\ above # 0 => runs[above].at = "looping"
    BY <1>2, Dispatched
  <2>2. above # 0 => above \in DOMAIN runs
    BY <1>0
  <2>3. \A j \in DOMAIN runs : NextWaits(j)
    BY <1>0, <2>1
  <2>4. NextWaits(n)
    BY <2>1, <2>2
  <2> HIDE DEF n, NextWaits
  <2> QED
    BY <1>1, <2>1, <2>3, <2>4
<1>3. ASSUME NEW i \in DOMAIN runs,
             NotSpawned(i) \/ Spawn(i) \/ AgentLoopEnds(i) \/ Settle(i)
      PROVE  AboveWaits'
  <2>1. PICK at \in {"looping", "ran", "over"},
             status \in {"none", "completed", "failed", "cancelled"} :
                /\ Becomes(i, at, status)
                /\ \/ runs[i].at = "asked"
                   \/ /\ runs[i].at = "looping" /\ at = "ran"
                      /\ \A j \in DOMAIN runs : runs[j].above = i => runs[j].at = "over"
                   \/ runs[i].at = "ran" /\ at = "over"
    BY <1>3, Goings
  <2>2. /\ DOMAIN runs' = DOMAIN runs
        /\ \A j \in DOMAIN runs : j # i => runs'[j] = runs[j]
        /\ runs'[i].above = runs[i].above /\ runs'[i].aborted = runs[i].aborted
        /\ runs'[i].at = at
    BY <2>1, Moved
  <2>3. NextWaits(i)
    <3>1. runs[i].above # 0 => runs'[runs[i].above] = runs[runs[i].above]
      BY <1>0, <2>2
    <3>2. runs[i].at # "over" /\ (at \in {"asked", "looping"} => runs[i].at \in {"asked", "looping"})
      BY <2>1
    <3> QED
      BY <1>0, <2>2, <3>1, <3>2
  <2>4. ASSUME NEW j \in DOMAIN runs, j # i PROVE NextWaits(j)
    <3>1. CASE runs[j].above = i
      <4>1. runs[j].at = "over"
        BY <1>0, <2>1, <3>1
      <4> QED
        BY <2>2, <2>4, <4>1
    <3>2. CASE runs[j].above # i
      BY <1>0, <2>2, <2>4, <3>2
    <3> QED
      BY <3>1, <3>2
  <2> HIDE DEF NextWaits
  <2> QED
    BY <1>1, <2>2, <2>3, <2>4
<1>4. ASSUME NEW set, runs' = AbortAll(set),
             \A j \in DOMAIN runs : runs[j].above # 0 /\ runs[j].above \in set => j \in set
      PROVE  AboveWaits'
  <2>1. /\ DOMAIN runs' = DOMAIN runs
        /\ \A j \in DOMAIN runs :
              IF j \in set /\ Heeds(j) THEN runs'[j] = [runs[j] EXCEPT !.aborted = TRUE]
                                      ELSE runs'[j] = runs[j]
    BY <1>4, Signalled
  <2>2. \A j \in DOMAIN runs : runs'[j].above = runs[j].above /\ runs'[j].at = runs[j].at
    BY <2>1, DispatchFields DEF Dispatches
  <2>3. \A j \in DOMAIN runs : runs'[j].aborted => runs[j].aborted \/ j \in set
    BY <2>1
  <2>4. \A j \in DOMAIN runs : runs[j].aborted => runs'[j].aborted
    BY <2>1, DispatchFields DEF Dispatches
  <2>5. \A j \in DOMAIN runs : j \in set /\ runs[j].at \in {"asked", "looping"} => runs'[j].aborted
    BY <2>1, DispatchFields DEF Dispatches, Heeds
  <2>6. ASSUME NEW j \in DOMAIN runs PROVE NextWaits(j)
    BY <1>0, <1>4, <2>2, <2>3, <2>4, <2>5
  <2> HIDE DEF NextWaits
  <2> QED
    BY <1>1, <2>1, <2>6
<1>5. ASSUME NEW i \in DOMAIN runs, DispatchTimesOut(i) PROVE AboveWaits'
  <2>1. ASSUME NEW j \in DOMAIN runs, runs[j].above # 0, runs[j].above \in Under(i)
        PROVE  j \in Under(i)
    <3>1. Chain[j] = {j} \cup Chain[runs[j].above]
      BY <2>1 DEF ChainsCounted
    <3> QED
      BY <2>1, <3>1 DEF Under
  <2> QED
    BY <1>4, <1>5, <2>1 DEF DispatchTimesOut
<1>6. ASSUME NEW i \in DOMAIN runs, NEW tool \in tools, AgentCalls(i, tool)
      PROVE  AboveWaits'
  <2>1. /\ DOMAIN runs' = DOMAIN runs
        /\ \A j \in DOMAIN runs : j # i => runs'[j] = runs[j]
    BY <1>6, Called
  <2>2. PICK names \in SUBSET AllTools : runs'[i] = [runs[i] EXCEPT !.used = names]
    BY <1>6, Called
  <2>3. \A j \in DOMAIN runs : /\ runs'[j].above = runs[j].above /\ runs'[j].at = runs[j].at
                               /\ runs'[j].aborted = runs[j].aborted
    BY <2>1, <2>2, DispatchFields DEF Dispatches
  <2>4. \A j \in DOMAIN runs : NextWaits(j)
    BY <1>0, <2>3
  <2> HIDE DEF NextWaits
  <2> QED
    BY <1>1, <2>1, <2>4
<1>7. CASE TurnAborts
  BY <1>0, <1>4, <1>7 DEF TurnAborts
<1>8. CASE UNCHANGED agentVars
  BY <1>8 DEF agentVars, AboveWaits, Heeds
<1> QED
  BY <1>2, <1>3, <1>5, <1>6, <1>7, <1>8, AgentSteps

(* What StatusFollows says of one dispatch.                                  *)
Follows(r) ==
    /\ r.at # "over" => r.agent \in Known /\ ~ r.audited
    /\ r.at = "over" => r.audited = r.spawned
    /\ r.at = "asked" => ~ r.spawned
    /\ r.at \in {"looping", "ran"} => r.spawned
    /\ r.at \in {"asked", "looping"} => r.status = "none"
    /\ r.aborted => r.status # "completed"
    /\ ~ r.spawned => r.used = {}
    /\ r.at = "looping" \/ r.used # {} \/ r.status = "completed" =>
          r.agent \in Known /\ r.depth <= Least(limits[r.agent], maxDepth)

(* Of all dispatches, before and after a step.                               *)
LEMMA FollowsAll ==
  /\ StatusFollows <=> \A i \in DOMAIN runs : Follows(runs[i])
  /\ UNCHANGED <<limits, maxDepth>> =>
        (StatusFollows' <=> \A i \in DOMAIN runs' : Follows(runs'[i]))
BY Zenon DEF StatusFollows, Follows, Heeds, Known, Least

(* What the status of a dispatch says goes on to follow.                     *)
LEMMA StatusStep ==
  ASSUME DeepestLimit \in Nat, AgentsTypeOK, StatusFollows, [AgentsNext]_agentVars
  PROVE  StatusFollows'
<1>0. \A j \in DOMAIN runs : Follows(runs[j])
  BY FollowsAll
<1>1. ASSUME Unmoved, \A j \in DOMAIN runs' : Follows(runs'[j]) PROVE StatusFollows'
  BY <1>1, FollowsAll DEF Unmoved
<1>2. ASSUME NEW above \in 0 .. Len(runs), NEW agent \in Agents, DispatchAgent(above, agent)
      PROVE  StatusFollows'
  <2> DEFINE n == Len(runs) + 1
  <2>1. /\ DOMAIN runs' = DOMAIN runs \cup {n}
        /\ \A j \in DOMAIN runs : runs'[j] = runs[j]
        /\ runs'[n].agent = agent
        /\ runs'[n].used = {} /\ runs'[n].spawned = FALSE /\ runs'[n].audited = FALSE
        /\ runs'[n].at = (IF agent \in Known THEN "asked" ELSE "over")
        /\ runs'[n].status = (IF agent \in Known THEN "none" ELSE "failed")
        /\ Unmoved
    BY <1>2, Dispatched
  <2>2. Follows(runs'[n])
    BY <2>1 DEF Follows
  <2> HIDE DEF n
  <2> QED
    BY <1>0, <1>1, <2>1, <2>2
<1>3. ASSUME NEW i \in DOMAIN runs,
             NotSpawned(i) \/ Spawn(i) \/ AgentLoopEnds(i) \/ Settle(i)
      PROVE  StatusFollows'
  <2>1. PICK at \in {"looping", "ran", "over"},
             status \in {"none", "completed", "failed", "cancelled"} :
            /\ Becomes(i, at, status)
            /\ \/ runs[i].at = "asked" /\ at = "over" /\ status = "failed"
               \/ runs[i].at = "asked" /\ at = "ran" /\ status \in {"failed", "cancelled"}
               \/ runs[i].at = "asked" /\ at = "looping" /\ status = "none" /\ ~ TooDeep(i)
               \/ /\ runs[i].at = "looping" /\ at = "ran"
                  /\ \A j \in DOMAIN runs : runs[j].above = i => runs[j].at = "over"
                  /\ \/ runs[i].aborted /\ status = "cancelled"
                     \/ ~ runs[i].aborted /\ status \in {"completed", "failed"}
               \/ runs[i].at = "ran" /\ at = "over" /\ status = runs[i].status
    BY <1>3, Goings
  <2>2. /\ DOMAIN runs' = DOMAIN runs
        /\ \A j \in DOMAIN runs : j # i => runs'[j] = runs[j]
        /\ runs'[i].agent = runs[i].agent
        /\ runs'[i].depth = runs[i].depth /\ runs'[i].aborted = runs[i].aborted
        /\ runs'[i].used = runs[i].used /\ runs'[i].at = at /\ runs'[i].status = status
        /\ runs'[i].spawned = (runs[i].spawned \/ at # "over")
        /\ runs'[i].audited = (runs[i].audited \/ (at = "over" /\ runs[i].at = "ran"))
        /\ Unmoved
    BY <2>1, Moved
  <2>3. Follows(runs[i])
    BY <1>0
  <2>4. /\ runs[i].aborted \in BOOLEAN /\ runs[i].spawned \in BOOLEAN
        /\ runs[i].audited \in BOOLEAN
        /\ runs[i].at \in {"asked", "looping", "ran", "over"}
        /\ runs[i].depth \in Nat
    BY DispatchFields
  <2>6. CASE runs[i].at = "asked" /\ at = "looping" /\ status = "none" /\ ~ TooDeep(i)
    <3>1. runs[i].agent \in Known
      BY <2>3, <2>6 DEF Follows
    <3>2. limits[runs[i].agent] \in Nat /\ maxDepth \in Nat
      BY <3>1 DEF AgentsTypeOK
    <3>3. runs[i].depth <= Least(limits[runs[i].agent], maxDepth)
      BY <2>4, <2>6, <3>2 DEF TooDeep, Least
    <3>4. Follows(runs'[i])
      BY <2>2, <2>3, <2>4, <2>6, <3>1, <3>3 DEF Follows
    <3> QED
      BY <1>0, <1>1, <2>2, <3>4
  <2>7. CASE \/ runs[i].at = "asked" /\ at = "over" /\ status = "failed"
             \/ runs[i].at = "asked" /\ at = "ran" /\ status \in {"failed", "cancelled"}
    <3>1. Follows(runs'[i])
      BY <2>2, <2>3, <2>4, <2>7 DEF Follows
    <3> QED
      BY <1>0, <1>1, <2>2, <3>1
  <2>8. CASE /\ runs[i].at = "looping" /\ at = "ran"
             /\ \/ runs[i].aborted /\ status = "cancelled"
                \/ ~ runs[i].aborted /\ status \in {"completed", "failed"}
    <3>1. Follows(runs'[i])
      BY <2>2, <2>3, <2>4, <2>8 DEF Follows
    <3> QED
      BY <1>0, <1>1, <2>2, <3>1
  <2>9. CASE runs[i].at = "ran" /\ at = "over" /\ status = runs[i].status
    <3>1. Follows(runs'[i])
      BY <2>2, <2>3, <2>4, <2>9 DEF Follows
    <3> QED
      BY <1>0, <1>1, <2>2, <3>1
  <2> QED
    BY <2>1, <2>6, <2>7, <2>8, <2>9
<1>4. ASSUME NEW set, runs' = AbortAll(set), Unmoved PROVE StatusFollows'
  <2>1. /\ DOMAIN runs' = DOMAIN runs
        /\ \A j \in DOMAIN runs :
              IF j \in set /\ Heeds(j) THEN runs'[j] = [runs[j] EXCEPT !.aborted = TRUE]
                                      ELSE runs'[j] = runs[j]
    BY <1>4, Signalled
  <2>2. ASSUME NEW j \in DOMAIN runs, Heeds(j), runs'[j] = [runs[j] EXCEPT !.aborted = TRUE]
        PROVE  Follows(runs'[j])
    <3>1. /\ runs'[j].at = runs[j].at /\ runs'[j].agent = runs[j].agent
          /\ runs'[j].depth = runs[j].depth /\ runs'[j].used = runs[j].used
          /\ runs'[j].spawned = runs[j].spawned /\ runs'[j].audited = runs[j].audited
          /\ runs'[j].status = runs[j].status
      BY <2>2, DispatchFields DEF Dispatches
    <3>2. runs[j].at \in {"asked", "looping"}
      BY <2>2 DEF Heeds
    <3>3. Follows(runs[j])
      BY <1>0
    <3>4. runs[j].status = "none"
      BY <3>2, <3>3 DEF Follows
    <3> QED
      BY <3>1, <3>3, <3>4 DEF Follows
  <2>3. ASSUME NEW j \in DOMAIN runs PROVE Follows(runs'[j])
    BY <1>0, <2>1, <2>2
  <2> QED
    BY <1>1, <1>4, <2>1, <2>3
<1>5. ASSUME NEW i \in DOMAIN runs, NEW tool \in tools, AgentCalls(i, tool)
      PROVE  StatusFollows'
  <2>1. /\ DOMAIN runs' = DOMAIN runs /\ Unmoved /\ runs[i].at = "looping"
        /\ \A j \in DOMAIN runs : j # i => runs'[j] = runs[j]
    BY <1>5, Called
  <2>2. PICK names \in SUBSET AllTools : runs'[i] = [runs[i] EXCEPT !.used = names]
    BY <1>5, Called
  <2>3. /\ runs'[i].at = runs[i].at /\ runs'[i].agent = runs[i].agent
        /\ runs'[i].depth = runs[i].depth /\ runs'[i].aborted = runs[i].aborted
        /\ runs'[i].spawned = runs[i].spawned /\ runs'[i].audited = runs[i].audited
        /\ runs'[i].status = runs[i].status
    BY <2>2, DispatchFields DEF Dispatches
  <2>4. Follows(runs[i])
    BY <1>0
  <2>5. Follows(runs'[i])
    BY <2>1, <2>3, <2>4 DEF Follows
  <2> QED
    BY <1>0, <1>1, <2>1, <2>5
<1>6. CASE UNCHANGED agentVars
  BY <1>0, <1>1, <1>6 DEF agentVars, Unmoved
<1>7. ASSUME NEW i \in DOMAIN runs, DispatchTimesOut(i) PROVE StatusFollows'
  BY <1>4, <1>7 DEF DispatchTimesOut, Unmoved
<1>8. CASE TurnAborts
  BY <1>4, <1>8 DEF TurnAborts, Unmoved
<1> QED
  BY <1>2, <1>3, <1>5, <1>6, <1>7, <1>8, AgentSteps

-----------------------------------------------------------------------------
(* A turn has dispatched nothing at first.                                   *)
LEMMA AgentsStart ==
  ASSUME DeepestLimit \in Nat, AgentsInit PROVE AgentsIInv
<1>1. runs = <<>> /\ DOMAIN runs = {}
  BY DEF AgentsInit
<1>2. AgentsTypeOK
  <2>1. PICK known \in SUBSET Agents : limits \in [known -> 0 .. DeepestLimit]
    BY DEF AgentsInit
  <2>2. limits \in [Known -> 0 .. DeepestLimit] /\ Known \subseteq Agents
    BY <2>1 DEF Known
  <2>3. runs \in Seq(Dispatches)
    BY <1>1
  <2> QED
    BY <2>2, <2>3 DEF AgentsTypeOK, AgentsInit
<1>3. ChainsCounted
  <2> DEFINE none == [i \in DOMAIN runs |-> {}]
  <2>1. Chains(none, [i \in DOMAIN runs |-> runs[i].above], DOMAIN runs)
    BY <1>1 DEF Chains
  <2>2. Chains(Chain, [i \in DOMAIN runs |-> runs[i].above], DOMAIN runs)
    BY <2>1, ChainIsChosen
  <2>3. DOMAIN Chain = {} /\ Chain = [i \in DOMAIN runs |-> Chain[i]]
    BY <1>1, <2>2 DEF Chains
  <2> QED
    BY <1>1, <2>3 DEF ChainsCounted
<1>4. AboveWaits /\ StatusFollows
  BY <1>1 DEF AboveWaits, StatusFollows
<1> QED
  BY <1>2, <1>3, <1>4 DEF AgentsIInv

(* The strengthening is inductive.                                           *)
LEMMA AgentsStep ==
  ASSUME DeepestLimit \in Nat, AgentsIInv, [AgentsNext]_agentVars PROVE AgentsIInv'
BY AgentsTypeStep, ChainsStep, AboveStep, StatusStep DEF AgentsIInv

(* Adding definitions takes none away and brings no other names.             *)
LEMMA AddingNames ==
  ASSUME NEW defs, NEW names, NEW by
  PROVE  Offer!Names(Offer!Adding(defs, Offer!Defined(names, by)))
            = Offer!Names(defs) \cup names
<1> DEFINE more == Offer!Defined(names, by)
<1>1. \A x : x \in Offer!Names(defs) <=> \E d \in defs : d.name = x
  BY DEF Offer!Names
<1>2. \A d \in more : d.name \in names
  BY DEF Offer!Defined
<1>3. \A x \in names : \E d \in more : d.name = x
  <2>1. \A x \in names : [name |-> x, by |-> by] \in more
    BY DEF Offer!Defined
  <2> QED
    BY <2>1
<1>4. \A d : d \in Offer!Adding(defs, more) <=>
               d \in defs \/ (d \in more /\ d.name \notin Offer!Names(defs))
  BY DEF Offer!Adding
<1>5. \A x : x \in Offer!Names(Offer!Adding(defs, more))
               <=> \E d \in Offer!Adding(defs, more) : d.name = x
  BY DEF Offer!Names
<1>6. ASSUME NEW x
      PROVE  x \in Offer!Names(Offer!Adding(defs, more)) <=> x \in Offer!Names(defs) \cup names
  <2> HIDE DEF more
  <2> QED
    BY <1>1, <1>2, <1>3, <1>4, <1>5
<1> QED
  BY <1>6, Zenon

(* An agent is offered its readers, the engine's own tools, and to dispatch  *)
(* above the last depth.                                                     *)
LEMMA OfferedNames ==
  ASSUME AgentsAssumption, AgentsTypeOK, NEW i \in DOMAIN runs, runs[i].agent \in Known
  PROVE  AgentOffered(i)
<1> DEFINE allowed == Allowed(runs[i].agent)
           deep == runs[i].depth < maxDepth /\ Known # {}
           own == Offer!Internal \cup (IF deep THEN {Offer!Dispatch} ELSE {})
           prompt == Offer!Defined(allowed, "registry")
           all == Offer!WithDispatch(Offer!WithInternal(prompt), Known, runs[i].depth, maxDepth)
           rest == Offer!WithDispatch(Offer!WithInternal(Offer!Defined(tools, "registry")),
                                      Known, runs[i].depth, maxDepth)
<1>1. Offer!Names(prompt) = allowed
  <2>1. \A x \in allowed : [name |-> x, by |-> "registry"] \in prompt
    BY DEF Offer!Defined
  <2>2. \A d \in prompt : d.name \in allowed
    BY DEF Offer!Defined
  <2>3. \A x : x \in Offer!Names(prompt) <=> \E d \in prompt : d.name = x
    BY DEF Offer!Names
  <2>4. \A x \in allowed : \E d \in prompt : d.name = x
    BY <2>1
  <2> HIDE DEF allowed, prompt
  <2> QED
    BY <2>2, <2>3, <2>4
<1>2. Offer!Names(all) = allowed \cup own
  <2>1. Offer!Names(Offer!WithInternal(prompt)) = allowed \cup Offer!Internal
    BY <1>1, AddingNames DEF Offer!WithInternal
  <2>2. CASE deep
    <3>1. all = Offer!Adding(Offer!WithInternal(prompt), Offer!Defined({Offer!Dispatch}, "engine"))
      BY <2>2 DEF Offer!WithDispatch
    <3>2. Offer!Names(all) = Offer!Names(Offer!WithInternal(prompt)) \cup {Offer!Dispatch}
      BY <3>1, AddingNames
    <3> QED
      BY <2>1, <2>2, <3>2
  <2>3. CASE ~ deep
    <3>1. all = Offer!WithInternal(prompt)
      BY <2>3 DEF Offer!WithDispatch
    <3> QED
      BY <2>1, <2>3, <3>1
  <2> QED
    BY <2>2, <2>3
<1>3. Offer!Names(Offer!Filtered(all, allowed)) \subseteq allowed \cup own
  <2>1. Offer!Filtered(all, allowed) \subseteq all
    BY DEF Offer!Filtered
  <2> HIDE DEF all, allowed, own
  <2>2. Offer!Names(Offer!Filtered(all, allowed)) \subseteq Offer!Names(all)
    BY <2>1 DEF Offer!Names
  <2> QED
    BY <1>2, <2>2
<1>4. Offer!Filtered(all, allowed) # {}
  <2>1. \A x : x \in Offer!Names(all) <=> \E d \in all : d.name = x
    BY DEF Offer!Names
  <2>2. "load_skill" \in own
    BY DEF Offer!Internal
  <2>3. CASE allowed = {}
    <3>1. Offer!Filtered(all, allowed) = all
      BY <2>3 DEF Offer!Filtered
    <3> HIDE DEF all, allowed, own
    <3>2. all # {}
      BY <1>2, <2>1, <2>2
    <3> QED
      BY <3>1, <3>2
  <2>4. CASE allowed # {}
    <3>1. \A d : d \in all /\ d.name \in allowed => d \in Offer!Filtered(all, allowed)
      BY <2>4 DEF Offer!Filtered
    <3> HIDE DEF all, allowed, own
    <3>2. PICK x \in allowed : TRUE
      BY <2>4
    <3>3. PICK d \in all : d.name = x
      BY <1>2, <2>1, <3>2
    <3> QED
      BY <3>1, <3>2, <3>3
  <2> QED
    BY <2>3, <2>4
<1>5. OfferedTo(i) = Offer!Filtered(all, allowed)
  <2>1. OfferedTo(i) = (IF Offer!Filtered(all, allowed) # {} THEN Offer!Filtered(all, allowed)
                        ELSE Offer!Filtered(rest, allowed))
    BY Zenon DEF OfferedTo, Offer!Offered
  <2> QED
    BY <1>4, <2>1
<1>6. allowed \subseteq Readers /\ allowed \cap (Offer!Internal \cup {Offer!Dispatch}) = {}
  BY DEF Allowed, AgentsAssumption, AllTools
<1>7. Offer!Dispatch \notin Offer!Internal
  BY DEF Offer!Dispatch, Offer!Internal
<1> DEFINE names == Offer!Names(OfferedTo(i))
<1>8. names \subseteq allowed \cup own
  BY <1>3, <1>5
<1>9. names \cap Writers = {}
  <2>1. own \subseteq Offer!Internal \cup {Offer!Dispatch}
    OBVIOUS
  <2>2. Readers \cap Writers = {} /\ Writers \cap (Offer!Internal \cup {Offer!Dispatch}) = {}
    BY DEF AgentsAssumption, AllTools
  <2> HIDE DEF own, names, allowed
  <2> QED
    BY <1>6, <1>8, <2>1, <2>2
<1>10. Offer!Dispatch \in names => deep
  <2>1. ~ deep => own = Offer!Internal
    OBVIOUS
  <2> HIDE DEF own, names, allowed, deep
  <2> QED
    BY <1>6, <1>7, <1>8, <2>1
<1> QED
  BY <1>9, <1>10 DEF AgentOffered

-----------------------------------------------------------------------------
(* The strengthening holds in every reachable state, for any number of       *)
(* dispatches.                                                               *)
THEOREM AgentsInvariant ==
  ASSUME AgentsAssumption PROVE AgentsSpec => []AgentsIInv
<1>1. AgentsInit => AgentsIInv
  BY AgentsStart DEF AgentsAssumption
<1>2. AgentsIInv /\ [AgentsNext]_agentVars => AgentsIInv'
  BY AgentsStep DEF AgentsAssumption
<1> QED
  BY <1>1, <1>2, PTL DEF AgentsSpec

(* The dispatches keep their types.                                          *)
THEOREM AgentsTypes ==
  ASSUME AgentsAssumption PROVE AgentsSpec => []AgentsTypeOK
<1>1. AgentsIInv => AgentsTypeOK
  BY DEF AgentsIInv
<1> QED
  BY <1>1, AgentsInvariant, PTL

(* However the loops dispatch, use tools, end, time out and are aborted, no  *)
(* agent works below the depth it is allowed, outlives the loop above it or  *)
(* misses its abort, reports an aborted run as completed, or is offered a    *)
(* tool that writes.                                                         *)
THEOREM AgentsStayContained ==
  ASSUME AgentsAssumption PROVE AgentsSpec => []AgentsContained
<1>1. AgentsIInv => AgentsContained
  <2> SUFFICES ASSUME AgentsIInv, NEW i \in DOMAIN runs
               PROVE  LET r == runs[i] IN
                      /\ AgentOffered(i)
                      /\ r.at = "looping" \/ r.used # {} \/ r.status = "completed" =>
                            Cardinality(Chain[i]) <= Least(limits[r.agent], maxDepth)
                      /\ r.above # 0 =>
                            /\ r.at # "over" => runs[r.above].at = "looping"
                            /\ Heeds(i) /\ runs[r.above].aborted => r.aborted
                      /\ r.aborted => r.status # "completed"
                      /\ r.at = "over" => r.audited = r.spawned
                      /\ ~ r.spawned => r.used = {}
    BY Zenon DEF AgentsContained
  <2>1. AgentOffered(i)
    <3>1. runs[i].agent \in Known => AgentOffered(i)
      BY OfferedNames DEF AgentsIInv
    <3> QED
      BY <3>1 DEF AgentOffered
  <2>2. Cardinality(Chain[i]) = runs[i].depth
    BY ChainFields DEF AgentsIInv
  <2>3. Follows(runs[i])
    BY FollowsAll DEF AgentsIInv
  <2>4. runs[i].above # 0 =>
           /\ runs[i].at # "over" => runs[runs[i].above].at = "looping"
           /\ Heeds(i) /\ runs[runs[i].above].aborted => runs[i].aborted
    BY DEF AgentsIInv, AboveWaits
  <2> QED
    BY <2>1, <2>2, <2>3, <2>4 DEF Follows
<1> QED
  BY <1>1, AgentsInvariant, PTL
=============================================================================
