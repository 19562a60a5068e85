------------------------ MODULE TaskScheduler_proofs ------------------------
(***************************************************************************)
(* Proofs about the task scheduler, for every finite set of tasks, every   *)
(* relation between them and every number of slots.                        *)
(*                                                                         *)
(* The invariant relates three counts the code keeps apart: the place of a *)
(* task (queue, map of promises, reported results: OnePlace), the number   *)
(* of its dependencies still missing (DegreesCount) and the state of its   *)
(* promise (PromisesFollow).  From the first two follows that nothing the  *)
(* queue ever holds depends on itself (CyclesWait), so that the generator  *)
(* finds no promise to race exactly when the route is cyclic.              *)
(***************************************************************************)
EXTENDS TaskScheduler, QueueLemmas

(* What is left of a task's dependencies is a finite set of tasks.           *)
LEMMA UpstreamCounts ==
  ASSUME NEW t, NEW X
  PROVE  /\ IsFiniteSet(Upstream(t) \ X)
         /\ Cardinality(Upstream(t) \ X) \in 0 .. Cardinality(Tasks)
         /\ Cardinality(Upstream(t) \ X) = 0 <=> Upstream(t) \subseteq X
<1>1. Upstream(t) \ X \in SUBSET Tasks
  BY DEF Upstream
<1>2. /\ IsFiniteSet(Upstream(t) \ X)
      /\ Cardinality(Upstream(t) \ X) <= Cardinality(Tasks)
  BY <1>1, TasksAssumption, FS_Subset
<1>3. Cardinality(Upstream(t) \ X) \in Nat /\ Cardinality(Tasks) \in Nat
  BY <1>2, TasksAssumption, FS_CardinalityType
<1>4. Cardinality(Upstream(t) \ X) = 0 <=> Upstream(t) \ X = {}
  BY <1>2, FS_EmptySet
<1> QED
  BY <1>2, <1>3, <1>4

(* One dependency less.                                                      *)
LEMMA OneLess ==
  ASSUME NEW P, IsFiniteSet(P), NEW t \in P
  PROVE  /\ Cardinality(P \ {t}) = Cardinality(P) - 1
         /\ Cardinality(P) = 1 <=> P = {t}
<1>1. Cardinality(P \ {t}) = Cardinality(P) - 1
  BY FS_RemoveElement
<1>2. Cardinality(P) = 1 <=> \E x : P = {x}
  BY FS_Singleton
<1> QED
  BY <1>1, <1>2

(* The last of the reported results is one of them.                          *)
LEMMA LastReported ==
  ASSUME TypeOK, reported # <<>>
  PROVE  Last(reported) \in ToSet(reported) /\ Last(reported) \in Tasks
<1>1. /\ reported \in Seq(Tasks) /\ Len(reported) \in Nat /\ Len(reported) # 0
      /\ DOMAIN reported = 1 .. Len(reported)
  BY LenProperties, EmptySeq DEF TypeOK
<1>2. Len(reported) \in DOMAIN reported
  BY <1>1
<1> QED
  BY <1>1, <1>2, ElementOfSeq DEF Last, ToSet

(* The elements of the queue and of the results are tasks.                   *)
LEMMA QueuesHoldTasks ==
  ASSUME TypeOK
  PROVE  ToSet(readyQueue) \subseteq Tasks /\ ToSet(reported) \subseteq Tasks
<1>1. \A w \in Seq(Tasks) : ToSet(w) \subseteq Tasks
  BY LenProperties, ElementOfSeq DEF ToSet
<1> QED
  BY <1>1 DEF TypeOK

-----------------------------------------------------------------------------
(* Filling the free slots takes tasks from the queue without exceeding the   *)
(* limit, and leaves nothing in it unless there is a promise to race.        *)
LEMMA StartSteps ==
  ASSUME ScheduleIInv, StartTasks
  PROVE  \E started \in SUBSET ToSet(readyQueue) :
            /\ readyQueue' \in Seq(Tasks) /\ IsInjective(readyQueue')
            /\ ToSet(readyQueue') = ToSet(readyQueue) \ started
            /\ running' = running \cup started
            /\ Cardinality(running') <= MaxConcurrency
            /\ task' = [t \in Tasks |-> IF t \in started THEN "executing" ELSE task[t]]
            /\ executor' = [t \in Tasks |-> IF t \in started THEN "running"
                                            ELSE executor[t]]
            /\ pc' = IF running' = {} THEN "threw" ELSE "racing"
            /\ running' = {} => ToSet(readyQueue) = {}
<1> DEFINE n == IF Len(readyQueue) < FreeSlots THEN Len(readyQueue) ELSE FreeSlots
           started == {readyQueue[i] : i \in 1 .. n}
<1>1. /\ readyQueue \in Seq(Tasks) /\ IsInjective(readyQueue)
      /\ running \subseteq Tasks
      /\ Cardinality(running) <= MaxConcurrency
      /\ running \cap ToSet(readyQueue) = {}
  BY DEF ScheduleIInv, TypeOK, OnePlace
<1>2. Len(readyQueue) \in Nat /\ DOMAIN readyQueue = 1 .. Len(readyQueue)
  BY <1>1, LenProperties
<1>3. IsFiniteSet(running) /\ Cardinality(running) \in Nat
  BY <1>1, TasksAssumption, FS_Subset, FS_CardinalityType
<1>4. FreeSlots \in Nat /\ FreeSlots + Cardinality(running) = MaxConcurrency
  BY <1>1, <1>3, ConcurrencyAssumption DEF FreeSlots
<1>5. n \in 0 .. Len(readyQueue) /\ n <= FreeSlots /\ n \in Nat
  BY <1>2, <1>4
<1>6. /\ readyQueue' = SubSeq(readyQueue, n + 1, Len(readyQueue))
      /\ running' = running \cup started
      /\ task' = [t \in Tasks |-> IF t \in started THEN "executing" ELSE task[t]]
      /\ executor' = [t \in Tasks |-> IF t \in started THEN "running" ELSE executor[t]]
      /\ pc' = IF running' = {} THEN "threw" ELSE "racing"
  BY DEF StartTasks
<1>7. n = 0 => Len(readyQueue) = 0 \/ FreeSlots = 0
  BY <1>2, <1>4
<1> HIDE DEF n
<1>8. /\ readyQueue' \in Seq(Tasks) /\ IsInjective(readyQueue')
      /\ ToSet(readyQueue') = ToSet(readyQueue) \ started
  BY <1>1, <1>5, <1>6, DropKeepsQueue
<1>9. started \subseteq ToSet(readyQueue)
  <2>1. \A i \in 1 .. n : i \in 1 .. Len(readyQueue)
    BY <1>2, <1>5
  <2> QED
    BY <1>2, <2>1 DEF ToSet
<1>10. IsFiniteSet(started) /\ Cardinality(started) <= n /\ Cardinality(started) \in Nat
  <2> DEFINE f == [i \in 1 .. n |-> readyQueue[i]]
  <2>1. f \in Surjection(1 .. n, started)
    BY DEF Surjection
  <2>2. IsFiniteSet(1 .. n) /\ Cardinality(1 .. n) = n
    BY <1>5, FS_Interval
  <2> HIDE DEF f, started
  <2>3. IsFiniteSet(started) /\ Cardinality(started) <= n
    BY <2>1, <2>2, FS_Surjection
  <2> QED
    BY <2>3, FS_CardinalityType
<1>11. running' = {} => ToSet(readyQueue) = {}
  <2> SUFFICES ASSUME running \cup started = {} PROVE ToSet(readyQueue) = {}
    BY <1>6
  <2>1. n = 0
    <3>1. CASE n # 0
      <4>1. 1 \in 1 .. n
        BY <1>5, <3>1
      <4> QED
        BY <4>1
    <3> QED
      BY <3>1
  <2>2. FreeSlots # 0
    BY <1>4, FS_EmptySet, ConcurrencyAssumption
  <2>3. DOMAIN readyQueue = {}
    BY <1>2, <1>7, <2>1, <2>2
  <2> QED
    BY <2>3 DEF ToSet
<1> HIDE DEF started
<1>12. Cardinality(running') <= MaxConcurrency
  <2>1. running \cap started = {}
    BY <1>1, <1>9
  <2>2. Cardinality(running \cup started)
           = Cardinality(running) + Cardinality(started) - Cardinality({})
    BY <1>3, <1>10, <2>1, FS_Union
  <2>3. Cardinality(running \cup started) = Cardinality(running) + Cardinality(started)
    BY <1>3, <1>10, <2>2, FS_EmptySet
  <2> QED
    BY <1>3, <1>4, <1>5, <1>6, <1>10, <2>3, ConcurrencyAssumption
<1> QED
  BY <1>6, <1>8, <1>9, <1>11, <1>12

(* A yielded result is appended to those of other tasks.                     *)
LEMMA YieldSteps ==
  ASSUME ScheduleIInv, NEW t \in Tasks, YieldResult(t)
  PROVE  /\ reported' \in Seq(Tasks) /\ IsInjective(reported')
         /\ ToSet(reported') = ToSet(reported) \cup {t}
         /\ t \notin ToSet(reported)
         /\ Last(reported') = t /\ reported' # <<>>
<1>1. reported \in Seq(Tasks) /\ IsInjective(reported) /\ t \notin ToSet(reported)
  BY DEF ScheduleIInv, TypeOK, OnePlace, YieldResult
<1>2. reported' = Append(reported, t)
  BY DEF YieldResult
<1>3. /\ Append(reported, t) \in Seq(Tasks) /\ IsInjective(Append(reported, t))
      /\ ToSet(Append(reported, t)) = ToSet(reported) \cup {t}
  BY <1>1, AppendKeepsQueue
<1>4. /\ Len(Append(reported, t)) = Len(reported) + 1
      /\ Append(reported, t)[Len(reported) + 1] = t
  BY <1>1, AppendProperties
<1>5. Append(reported, t) # <<>>
  BY <1>1, AppendProperties
<1> QED
  BY <1>1, <1>2, <1>3, <1>4, <1>5 DEF Last

(* Consuming a result counts it at the tasks that depend on it, and appends  *)
(* to the queue those for which it was the last one missing.                 *)
LEMMA ResumeSteps ==
  ASSUME ScheduleIInv, Resume, NEW t, t = Last(reported)
  PROVE  /\ t \in ToSet(reported) /\ t \in Tasks
         /\ Consumed = ToSet(reported) \ {t}
         /\ Consumed' = ToSet(reported)
         /\ readyQueue' \in Seq(Tasks) /\ IsInjective(readyQueue')
         /\ ToSet(readyQueue') = ToSet(readyQueue) \cup Unlocked(t)
         /\ Unlocked(t) \subseteq Tasks
         /\ \A u \in Unlocked(t) : u \notin Due /\ Upstream(u) \ Consumed = {t}
         /\ \A u \in Tasks : inDegree'[u] = Cardinality(Upstream(u) \ Consumed')
         /\ \A u \in Tasks : u \in Due' <=> Upstream(u) \subseteq Consumed'
<1> USE DEF ScheduleIInv
<1>1. /\ t \in ToSet(reported) /\ t \in Tasks /\ pc = "yielded" /\ pc' = "top"
      /\ UNCHANGED <<edges, running, reported>>
  BY LastReported DEF OnePlace, Resume, call
<1>2. Consumed = ToSet(reported) \ {t} /\ Consumed' = ToSet(reported)
  BY <1>1 DEF Consumed
<1>3. \A u \in Tasks : /\ inDegree[u] = Cardinality(Upstream(u) \ Consumed)
                       /\ u \in Due <=> Upstream(u) \subseteq Consumed
  BY <1>1 DEF DegreesCount, Going
<1>4. /\ Downstream(t) = {u \in Tasks : t \in Upstream(u)}
      /\ Unlocked(t) = {u \in Tasks : t \in Upstream(u) /\ inDegree[u] = 1}
  BY <1>1 DEF Downstream, Upstream, Unlocked
<1>5. ASSUME NEW u \in Tasks, t \in Upstream(u)
      PROVE  /\ Upstream(u) \ Consumed' = (Upstream(u) \ Consumed) \ {t}
             /\ Cardinality(Upstream(u) \ Consumed') = Cardinality(Upstream(u) \ Consumed) - 1
             /\ Cardinality(Upstream(u) \ Consumed) = 1 <=> Upstream(u) \ Consumed = {t}
  <2>1. Upstream(u) \ Consumed' = (Upstream(u) \ Consumed) \ {t}
    BY <1>1, <1>2
  <2>2. t \in Upstream(u) \ Consumed
    BY <1>2, <1>5
  <2>3. IsFiniteSet(Upstream(u) \ Consumed)
    BY UpstreamCounts
  <2> DEFINE P == Upstream(u) \ Consumed
  <2>4. Cardinality(P \ {t}) = Cardinality(P) - 1 /\ (Cardinality(P) = 1 <=> P = {t})
    <3> HIDE DEF P
    <3> QED
      BY <2>2, <2>3, OneLess DEF P
  <2> QED
    BY <2>1, <2>4
<1>6. ASSUME NEW u \in Tasks, t \notin Upstream(u)
      PROVE  Upstream(u) \ Consumed' = Upstream(u) \ Consumed
  BY <1>1, <1>2, <1>6
<1>7. \A u \in Unlocked(t) : u \in Tasks /\ u \notin Due /\ Upstream(u) \ Consumed = {t}
  BY <1>3, <1>4, <1>5
<1>8. /\ readyQueue' \in Seq(Tasks) /\ IsInjective(readyQueue')
      /\ ToSet(readyQueue') = ToSet(readyQueue) \cup Unlocked(t)
  <2>1. Unlocked(t) \in SUBSET Tasks
    BY <1>4
  <2>2. IsFiniteSet(Unlocked(t))
    BY <2>1, TasksAssumption, FS_Subset
  <2>3. PICK s \in SetToSeqs(Unlocked(t)) : readyQueue' = readyQueue \o s
    BY DEF Resume
  <2>4. s \in Seq(Unlocked(t)) /\ ToSet(s) = Unlocked(t) /\ IsInjective(s)
    BY <2>2, ListingIsQueue
  <2>5. s \in Seq(Tasks)
    BY <2>1, <2>4, SeqMonotonic
  <2>6. readyQueue \in Seq(Tasks) /\ IsInjective(readyQueue)
    BY DEF TypeOK, OnePlace
  <2>7. ToSet(readyQueue) \cap ToSet(s) = {}
    BY <1>7, <2>4 DEF Due
  <2> QED
    BY <2>3, <2>4, <2>5, <2>6, <2>7, ConcatKeepsQueue
<1>9. ASSUME NEW u \in Tasks PROVE inDegree'[u] = Cardinality(Upstream(u) \ Consumed')
  <2>1. inDegree'[u] = IF u \in Downstream(t) THEN inDegree[u] - 1 ELSE inDegree[u]
    BY DEF Resume
  <2> QED
    BY <1>3, <1>4, <1>5, <1>6, <2>1
<1>10. Due' = Due \cup Unlocked(t)
  BY <1>1, <1>8 DEF Due
<1>11. ASSUME NEW u \in Tasks PROVE u \in Due' <=> Upstream(u) \subseteq Consumed'
  <2>1. Consumed \subseteq Consumed' /\ t \in Consumed'
    BY <1>1, <1>2
  <2>2. CASE t \in Upstream(u)
    <3>1. u \notin Due
      BY <1>2, <1>3, <2>2
    <3>2. u \in Unlocked(t) <=> inDegree[u] = 1
      BY <1>4, <2>2
    <3>3. Cardinality(Upstream(u) \ Consumed) = 1 <=> Upstream(u) \ Consumed = {t}
      BY <1>5, <2>2
    <3>4. u \in Unlocked(t) <=> Upstream(u) \ Consumed = {t}
      BY <1>3, <3>2, <3>3
    <3> QED
      BY <1>2, <1>10, <2>1, <2>2, <3>1, <3>4
  <2>3. CASE t \notin Upstream(u)
    <3>1. u \notin Unlocked(t)
      BY <1>4, <2>3
    <3> QED
      BY <1>2, <1>3, <1>10, <2>3, <3>1
  <2> QED
    BY <2>2, <2>3
<1> QED
  BY <1>1, <1>2, <1>4, <1>7, <1>8, <1>9, <1>11

-----------------------------------------------------------------------------
(* The initial queue lists the tasks that depend on nothing.                 *)
LEMMA ScheduleInit == Init => ScheduleIInv
<1> SUFFICES ASSUME Init PROVE ScheduleIInv
  OBVIOUS
<1> USE DEF Init
<1> DEFINE roots == {t \in Tasks : Upstream(t) = {}}
<1>1. IsFiniteSet(roots) /\ roots \in SUBSET Tasks
  BY TasksAssumption, FS_Subset
<1>2. readyQueue \in SetToSeqs(roots)
  BY DEF InitQueue
<1>3. readyQueue \in Seq(Tasks) /\ ToSet(readyQueue) = roots /\ IsInjective(readyQueue)
  <2> HIDE DEF roots
  <2>1. readyQueue \in Seq(roots) /\ ToSet(readyQueue) = roots /\ IsInjective(readyQueue)
    BY <1>1, <1>2, ListingIsQueue
  <2> QED
    BY <1>1, <2>1, SeqMonotonic
<1>4. reported = <<>> /\ reported \in Seq(Tasks) /\ ToSet(reported) = {}
      /\ IsInjective(reported)
  BY DEF ToSet, IsInjective
<1>5. Consumed = {} /\ Due = roots
  BY <1>3, <1>4 DEF Consumed, Due
<1>6. \A t \in Tasks : inDegree[t] = Cardinality(Upstream(t) \ {})
  <2>1. \A t \in Tasks : Upstream(t) \ {} = Upstream(t)
    OBVIOUS
  <2> QED
    BY <2>1
<1>7. TypeOK
  <2>1. inDegree \in [Tasks -> 0 .. Cardinality(Tasks)]
    <3>1. \A t \in Tasks : inDegree[t] \in 0 .. Cardinality(Tasks)
      BY <1>6, UpstreamCounts
    <3> QED
      BY <3>1
  <2> QED
    BY <1>3, <1>4, <2>1 DEF TypeOK
<1>8. OnePlace
  <2>1. Cardinality({}) <= MaxConcurrency
    BY FS_EmptySet, ConcurrencyAssumption
  <2> QED
    BY <1>3, <1>4, <2>1 DEF OnePlace
<1>9. DegreesCount
  BY <1>4, <1>5, <1>6 DEF DegreesCount, Going
<1>10. PromisesFollow
  BY <1>4 DEF PromisesFollow
<1>11. CyclesWait
  BY <1>5 DEF CyclesWait
<1>12. ThrowsForAReason
  BY DEF ThrowsForAReason
<1> QED
  BY <1>7, <1>8, <1>9, <1>10, <1>11, <1>12 DEF ScheduleIInv

(* A step of a task's promise, and the abort, leave the generator alone.     *)
TaskStep(t) == Answer(t) \/ LateAnswer(t) \/ Timers(t) \/ ExecutorEnds(t)

(* The generator's locals are not touched by the promises.                   *)
LEMMA LoopFrame ==
  ASSUME \/ \E t \in Tasks : TaskStep(t)
         \/ Abort
         \/ UNCHANGED vars
  PROVE  UNCHANGED <<call, loopVars>>
BY DEF TaskStep, Answer, LateAnswer, Timers, TimeOut, GraceExpires, Settle, ExecutorEnds,
       Abort, vars

(* The steps, named.                                                         *)
LEMMA StepCases ==
  ASSUME [Next]_vars
  PROVE  \/ AllReported
         \/ ThrowAborted
         \/ StartTasks
         \/ \E t \in Tasks : YieldResult(t)
         \/ Resume
         \/ ThrowFailFast
         \/ \E t \in Tasks : TaskStep(t)
         \/ Abort
         \/ UNCHANGED vars
BY DEF Next, Loop, TaskStep

(* The types are kept.                                                       *)
LEMMA ScheduleTypeStep == ScheduleIInv /\ [Next]_vars => TypeOK'
<1> SUFFICES ASSUME ScheduleIInv, [Next]_vars PROVE TypeOK'
  OBVIOUS
<1> USE DEF TypeOK, call, loopVars, taskVars
<1>0. TypeOK
  BY DEF ScheduleIInv
<1>1. CASE AllReported
  BY <1>0, <1>1 DEF AllReported
<1>2. CASE ThrowAborted
  BY <1>0, <1>2 DEF ThrowAborted
<1>3. CASE StartTasks
  <2>1. PICK started \in SUBSET ToSet(readyQueue) :
            /\ readyQueue' \in Seq(Tasks)
            /\ running' = running \cup started
            /\ task' = [t \in Tasks |-> IF t \in started THEN "executing" ELSE task[t]]
            /\ executor' = [t \in Tasks |-> IF t \in started THEN "running"
                                            ELSE executor[t]]
            /\ pc' = IF running' = {} THEN "threw" ELSE "racing"
    BY <1>3, StartSteps
  <2>2. running' \subseteq Tasks
    BY <1>0, <2>1, QueuesHoldTasks
  <2>3. task' \in [Tasks -> {"waiting", "executing", "grace", "settled"}]
    BY <1>0, <2>1
  <2>4. executor' \in [Tasks -> {"idle", "running", "ended"}]
    BY <1>0, <2>1
  <2>5. UNCHANGED <<edges, failFast, inDegree, reported, timedOut, result, output, aborted>>
    BY <1>3 DEF StartTasks
  <2> QED
    BY <1>0, <2>1, <2>2, <2>3, <2>4, <2>5
<1>4. ASSUME NEW t \in Tasks, YieldResult(t) PROVE TypeOK'
  BY <1>0, <1>4, YieldSteps DEF YieldResult
<1>5. CASE Resume
  <2> DEFINE t == Last(reported)
  <2>1. readyQueue' \in Seq(Tasks)
        /\ \A u \in Tasks : inDegree'[u] = Cardinality(Upstream(u) \ Consumed')
    <3> HIDE DEF t
    <3>1. \A x : x = Last(reported) =>
             readyQueue' \in Seq(Tasks)
             /\ \A u \in Tasks : inDegree'[u] = Cardinality(Upstream(u) \ Consumed')
      BY <1>5, ResumeSteps
    <3> QED
      BY <3>1
  <2>2. edges' = edges
    BY <1>5 DEF Resume
  <2>3. \A u \in Tasks : inDegree'[u] \in 0 .. Cardinality(Tasks)
    BY <2>1, UpstreamCounts
  <2>4. inDegree' = [u \in Tasks |-> IF u \in Downstream(t) THEN inDegree[u] - 1
                                                            ELSE inDegree[u]]
    BY <1>5 DEF Resume
  <2>5. inDegree' \in [Tasks -> 0 .. Cardinality(Tasks)]
    BY <2>3, <2>4
  <2> QED
    BY <1>0, <1>5, <2>1, <2>5 DEF Resume
<1>6. CASE ThrowFailFast
  BY <1>0, <1>6 DEF ThrowFailFast
<1>7. CASE \E t \in Tasks : TaskStep(t)
  <2>1. PICK t \in Tasks : TaskStep(t)
    BY <1>7
  <2>2. UNCHANGED <<call, loopVars>>
    BY <1>7, LoopFrame
  <2>3. CASE Answer(t)
    BY <1>0, <2>2, <2>3 DEF Answer, Settle
  <2>4. CASE LateAnswer(t)
    BY <1>0, <2>2, <2>4 DEF LateAnswer, Settle
  <2>5. CASE TimeOut(t)
    BY <1>0, <2>2, <2>5 DEF TimeOut
  <2>6. CASE GraceExpires(t)
    BY <1>0, <2>2, <2>6 DEF GraceExpires, Settle
  <2>7. CASE ExecutorEnds(t)
    BY <1>0, <2>2, <2>7 DEF ExecutorEnds
  <2> QED
    BY <2>1, <2>3, <2>4, <2>5, <2>6, <2>7 DEF TaskStep, Timers
<1>8. CASE Abort
  BY <1>0, <1>8 DEF Abort
<1>9. CASE UNCHANGED vars
  BY <1>0, <1>9 DEF vars
<1> QED
  BY <1>1, <1>2, <1>3, <1>4, <1>5, <1>6, <1>7, <1>8, <1>9, StepCases

(* A task stays in one place.                                                *)
LEMMA PlaceStep == ScheduleIInv /\ [Next]_vars => OnePlace'
<1> SUFFICES ASSUME ScheduleIInv, [Next]_vars PROVE OnePlace'
  OBVIOUS
<1> USE DEF OnePlace, call, loopVars, taskVars
<1>0. TypeOK /\ OnePlace
  BY DEF ScheduleIInv
<1>1. CASE AllReported
  <2>1. ToSet(reported) = Tasks
    <3>1. /\ IsFiniteSet(ToSet(reported))
          /\ Cardinality(ToSet(reported)) = Len(reported)
      BY <1>0, QueueLength DEF TypeOK
    <3>2. ToSet(reported) \in SUBSET Tasks
      BY <1>0, QueuesHoldTasks
    <3>3. Cardinality(Tasks) = Cardinality(ToSet(reported))
      BY <1>1, <3>1 DEF AllReported
    <3> QED
      BY <3>2, <3>3, TasksAssumption, FS_Subset
  <2> QED
    BY <1>0, <1>1, <2>1 DEF AllReported
<1>2. CASE ThrowAborted
  BY <1>0, <1>2 DEF ThrowAborted
<1>3. CASE StartTasks
  <2>1. PICK started \in SUBSET ToSet(readyQueue) :
            /\ IsInjective(readyQueue')
            /\ ToSet(readyQueue') = ToSet(readyQueue) \ started
            /\ running' = running \cup started
            /\ Cardinality(running') <= MaxConcurrency
            /\ pc' = IF running' = {} THEN "threw" ELSE "racing"
    BY <1>3, StartSteps
  <2>2. UNCHANGED reported
    BY <1>3 DEF StartTasks
  <2> QED
    BY <1>0, <2>1, <2>2
<1>4. ASSUME NEW t \in Tasks, YieldResult(t) PROVE OnePlace'
  <2>1. /\ IsInjective(reported') /\ ToSet(reported') = ToSet(reported) \cup {t}
        /\ reported' # <<>>
    BY <1>4, YieldSteps
  <2>2. t \in running /\ running' = running \ {t} /\ readyQueue' = readyQueue
        /\ pc' = "yielded"
    BY <1>4 DEF YieldResult
  <2>3. Cardinality(running') <= MaxConcurrency
    <3>1. IsFiniteSet(running) /\ running' \in SUBSET running
      BY <1>0, <2>2, TasksAssumption, FS_Subset DEF TypeOK
    <3>2. /\ Cardinality(running') <= Cardinality(running)
          /\ Cardinality(running) \in Nat /\ Cardinality(running') \in Nat
      BY <3>1, FS_Subset, FS_CardinalityType
    <3> QED
      BY <1>0, <3>2, ConcurrencyAssumption
  <2> QED
    BY <1>0, <2>1, <2>2, <2>3
<1>5. CASE Resume
  <2>1. \A t : t = Last(reported) =>
           /\ IsInjective(readyQueue')
           /\ ToSet(readyQueue') = ToSet(readyQueue) \cup Unlocked(t)
           /\ \A u \in Unlocked(t) : u \notin Due
    BY <1>5, ResumeSteps
  <2>2. UNCHANGED <<running, reported>> /\ pc' = "top"
    BY <1>5 DEF Resume
  <2> QED
    BY <1>0, <2>1, <2>2 DEF Due
<1>6. CASE ThrowFailFast
  BY <1>0, <1>6 DEF ThrowFailFast
<1>7. CASE (\E t \in Tasks : TaskStep(t)) \/ Abort \/ UNCHANGED vars
  BY <1>0, <1>7, LoopFrame
<1> QED
  BY <1>1, <1>2, <1>3, <1>4, <1>5, <1>6, <1>7, StepCases

(* The in-degrees go on counting.                                            *)
LEMMA DegreeStep == ScheduleIInv /\ [Next]_vars => DegreesCount'
<1> SUFFICES ASSUME ScheduleIInv, [Next]_vars PROVE DegreesCount'
  OBVIOUS
<1> USE DEF DegreesCount, call, loopVars, taskVars
<1>0. TypeOK /\ OnePlace /\ DegreesCount
  BY DEF ScheduleIInv
<1>1. ASSUME pc' \in {"done", "threw"},
             UNCHANGED <<edges, running, reported>>
      PROVE  DegreesCount'
  BY <1>0, <1>1 DEF Going, Upstream
<1>2. CASE AllReported \/ ThrowAborted \/ ThrowFailFast
  BY <1>1, <1>2 DEF AllReported, ThrowAborted, ThrowFailFast
<1>3. CASE StartTasks
  <2>1. PICK started \in SUBSET ToSet(readyQueue) :
            /\ ToSet(readyQueue') = ToSet(readyQueue) \ started
            /\ running' = running \cup started
            /\ pc' = IF running' = {} THEN "threw" ELSE "racing"
    BY <1>3, StartSteps
  <2>2. UNCHANGED <<edges, inDegree, reported>> /\ pc = "top"
    BY <1>3 DEF StartTasks
  <2>3. Consumed' = Consumed /\ Consumed = ToSet(reported)
    BY <2>1, <2>2 DEF Consumed
  <2>4. Due' = Due
    BY <2>1, <2>2 DEF Due
  <2>5. \A t \in Tasks : /\ inDegree[t] = Cardinality(Upstream(t) \ Consumed)
                         /\ t \in Due <=> Upstream(t) \subseteq Consumed
    BY <1>0, <2>2 DEF Going
  <2>6. \A t \in started : Upstream(t) \subseteq ToSet(reported)
    <3>1. started \subseteq Due /\ started \subseteq Tasks
      BY <1>0, QueuesHoldTasks DEF Due
    <3> QED
      BY <2>3, <2>5, <3>1
  <2>7. \A t : Upstream(t)' = Upstream(t)
    BY <2>2 DEF Upstream
  <2> QED
    BY <1>0, <2>1, <2>2, <2>3, <2>4, <2>5, <2>6, <2>7
<1>4. ASSUME NEW t \in Tasks, YieldResult(t) PROVE DegreesCount'
  <2>1. /\ ToSet(reported') = ToSet(reported) \cup {t} /\ t \notin ToSet(reported)
        /\ Last(reported') = t
    BY <1>4, YieldSteps
  <2>2. /\ t \in running /\ running' = running \ {t}
        /\ UNCHANGED <<edges, inDegree, readyQueue>>
        /\ pc = "racing" /\ pc' = "yielded"
    BY <1>4 DEF YieldResult
  <2>3. Consumed' = Consumed
    BY <2>1, <2>2 DEF Consumed
  <2>4. Due' = Due
    BY <2>1, <2>2 DEF Due
  <2>5. \A u : Upstream(u)' = Upstream(u)
    BY <2>2 DEF Upstream
  <2>6. Going
    BY <2>2 DEF Going
  <2> QED
    BY <1>0, <2>1, <2>2, <2>3, <2>4, <2>5, <2>6
<1>5. CASE Resume
  <2>1. \A t : t = Last(reported) =>
           /\ \A u \in Tasks : inDegree'[u] = Cardinality(Upstream(u) \ Consumed')
           /\ \A u \in Tasks : u \in Due' <=> Upstream(u) \subseteq Consumed'
    BY <1>5, ResumeSteps
  <2>2. UNCHANGED <<edges, running, reported>>
    BY <1>5 DEF Resume
  <2>3. \A u : Upstream(u)' = Upstream(u)
    BY <2>2 DEF Upstream
  <2> QED
    BY <1>0, <2>1, <2>2, <2>3
<1>6. CASE (\E t \in Tasks : TaskStep(t)) \/ Abort \/ UNCHANGED vars
  BY <1>0, <1>6, LoopFrame DEF Going, Consumed, Due, Upstream
<1> QED
  BY <1>2, <1>3, <1>4, <1>5, <1>6, StepCases

(* The promises go on following the places of their tasks.                   *)
LEMMA PromiseStep == ScheduleIInv /\ [Next]_vars => PromisesFollow'
<1> SUFFICES ASSUME ScheduleIInv, [Next]_vars PROVE PromisesFollow'
  OBVIOUS
<1> USE DEF PromisesFollow, call, loopVars, taskVars
<1>0. TypeOK /\ OnePlace /\ PromisesFollow
  BY DEF ScheduleIInv
<1>1. ASSUME UNCHANGED <<running, reported, taskVars>> PROVE PromisesFollow'
  BY <1>0, <1>1
<1>2. CASE AllReported \/ ThrowAborted \/ ThrowFailFast \/ Resume \/ Abort \/ UNCHANGED vars
  BY <1>1, <1>2 DEF AllReported, ThrowAborted, ThrowFailFast, Resume, Abort, vars
<1>3. CASE StartTasks
  <2>1. PICK started \in SUBSET ToSet(readyQueue) :
            /\ running' = running \cup started
            /\ task' = [t \in Tasks |-> IF t \in started THEN "executing" ELSE task[t]]
            /\ executor' = [t \in Tasks |-> IF t \in started THEN "running"
                                            ELSE executor[t]]
    BY <1>3, StartSteps
  <2>2. UNCHANGED <<reported, timedOut, result>>
    BY <1>3 DEF StartTasks
  <2>3. \A t \in started : /\ t \notin ToSet(reported)
                           /\ task[t] = "waiting" \/ t \notin Tasks
    BY <1>0 DEF OnePlace
  <2> QED
    BY <1>0, <2>1, <2>2, <2>3
<1>4. ASSUME NEW t \in Tasks, YieldResult(t) PROVE PromisesFollow'
  <2>1. ToSet(reported') = ToSet(reported) \cup {t}
    BY <1>4, YieldSteps
  <2> QED
    BY <1>0, <1>4, <2>1 DEF YieldResult
<1>5. ASSUME NEW t \in Tasks, TaskStep(t) PROVE PromisesFollow'
  <2>1. running' = running /\ reported' = reported
    BY <1>5, LoopFrame
  <2> USE DEF TypeOK
  <2>2. CASE Answer(t)
    BY <1>0, <2>1, <2>2 DEF Answer, Settle
  <2>3. CASE LateAnswer(t)
    BY <1>0, <2>1, <2>3 DEF LateAnswer, Settle
  <2>4. CASE TimeOut(t)
    BY <1>0, <2>1, <2>4 DEF TimeOut
  <2>5. CASE GraceExpires(t)
    BY <1>0, <2>1, <2>5 DEF GraceExpires, Settle
  <2>6. CASE ExecutorEnds(t)
    BY <1>0, <2>1, <2>6 DEF ExecutorEnds
  <2> QED
    BY <1>5, <2>2, <2>3, <2>4, <2>5, <2>6 DEF TaskStep, Timers
<1> QED
  BY <1>2, <1>3, <1>4, <1>5, StepCases

(* A task never becomes due by a dependency that waits for it.               *)
LEMMA CycleStep == ScheduleIInv /\ [Next]_vars => CyclesWait'
<1> SUFFICES ASSUME ScheduleIInv, [Next]_vars,
                    NEW S \in SUBSET Tasks, \A t \in S : Upstream(t)' \cap S # {}
             PROVE  S \cap Due' = {}
  BY DEF CyclesWait
<1> USE DEF call, loopVars, taskVars
<1>0. edges' = edges
  <2>1. CASE AllReported \/ ThrowAborted \/ StartTasks \/ ThrowFailFast \/ Resume
    BY <2>1 DEF AllReported, ThrowAborted, StartTasks, ThrowFailFast, Resume
  <2>2. ASSUME NEW t \in Tasks, YieldResult(t) PROVE edges' = edges
    BY <2>2 DEF YieldResult
  <2>3. CASE (\E t \in Tasks : TaskStep(t)) \/ Abort \/ UNCHANGED vars
    BY <2>3, LoopFrame
  <2> QED
    BY <2>1, <2>2, <2>3, StepCases
<1>1. (\A t \in S : Upstream(t) \cap S # {}) /\ S \cap Due = {}
  BY <1>0 DEF Upstream, ScheduleIInv, CyclesWait
<1>2. CASE AllReported \/ ThrowAborted \/ ThrowFailFast
  BY <1>1, <1>2 DEF AllReported, ThrowAborted, ThrowFailFast, Due
<1>3. CASE StartTasks
  <2>1. PICK started \in SUBSET ToSet(readyQueue) :
            /\ ToSet(readyQueue') = ToSet(readyQueue) \ started
            /\ running' = running \cup started
    BY <1>3, StartSteps
  <2> QED
    BY <1>1, <1>3, <2>1 DEF StartTasks, Due
<1>4. ASSUME NEW t \in Tasks, YieldResult(t) PROVE S \cap Due' = {}
  BY <1>1, <1>4, YieldSteps DEF YieldResult, Due
<1>5. CASE Resume
  <2>1. \A t : t = Last(reported) =>
           /\ t \in ToSet(reported)
           /\ Consumed = ToSet(reported) \ {t}
           /\ ToSet(readyQueue') = ToSet(readyQueue) \cup Unlocked(t)
           /\ \A u \in Unlocked(t) : Upstream(u) \ Consumed = {t}
    BY <1>5, ResumeSteps
  <2>2. UNCHANGED <<running, reported>>
    BY <1>5 DEF Resume
  <2>3. \A u \in S : u \notin Unlocked(Last(reported))
    <3> SUFFICES ASSUME NEW u \in S, u \in Unlocked(Last(reported)) PROVE FALSE
      OBVIOUS
    <3>1. Upstream(u) \subseteq ToSet(reported)
      BY <2>1
    <3> QED
      BY <1>1, <3>1 DEF Due
  <2> QED
    BY <1>1, <2>1, <2>2, <2>3 DEF Due
<1>6. CASE (\E t \in Tasks : TaskStep(t)) \/ Abort \/ UNCHANGED vars
  BY <1>1, <1>6, LoopFrame DEF Due
<1> QED
  BY <1>2, <1>3, <1>4, <1>5, <1>6, StepCases

(* When no promise is left to race, the missing tasks wait for one another;  *)
(* and when all were reported, none do.                                      *)
LEMMA ThrowStep == ScheduleIInv /\ [Next]_vars => ThrowsForAReason'
<1> SUFFICES ASSUME ScheduleIInv, [Next]_vars PROVE ThrowsForAReason'
  OBVIOUS
<1> USE DEF ThrowsForAReason, call, loopVars, taskVars
<1>0. TypeOK /\ OnePlace /\ DegreesCount /\ PromisesFollow /\ CyclesWait
      /\ ThrowsForAReason
  BY DEF ScheduleIInv
<1>1. CASE AllReported
  <2>1. ToSet(reported) = Tasks
    <3>1. OnePlace'
      BY PlaceStep
    <3> QED
      BY <1>1, <3>1 DEF OnePlace, AllReported
  <2>2. ~ Cyclic
    <3> SUFFICES ASSUME NEW S \in SUBSET Tasks, S # {},
                        \A t \in S : Upstream(t) \cap S # {}
                 PROVE  FALSE
      BY DEF Cyclic
    <3>1. CyclesWait
      BY <1>0
    <3>2. S \cap Due = {}
      BY <3>1 DEF CyclesWait
    <3> QED
      BY <2>1, <3>2 DEF Due
  <2>3. Cyclic' = Cyclic
    BY <1>1 DEF AllReported, Cyclic, Upstream
  <2> QED
    BY <1>1, <2>2, <2>3 DEF AllReported
<1>2. CASE ThrowAborted
  BY <1>2 DEF ThrowAborted
<1>3. CASE StartTasks
  <2>1. PICK started \in SUBSET ToSet(readyQueue) :
            /\ running' = running \cup started
            /\ pc' = IF running' = {} THEN "threw" ELSE "racing"
            /\ running' = {} => ToSet(readyQueue) = {}
    BY <1>3, StartSteps
  <2>2. /\ pc = "top" /\ Len(reported) < Cardinality(Tasks)
        /\ UNCHANGED edges
    BY <1>3 DEF StartTasks
  <2>3. CASE running' = {}
    <3> DEFINE S == Tasks \ ToSet(reported)
    <3>1. Due = ToSet(reported) /\ Consumed = ToSet(reported)
      BY <2>1, <2>2, <2>3 DEF Due, Consumed
    <3>2. S # {}
      <4>1. /\ Cardinality(ToSet(reported)) = Len(reported)
            /\ Len(reported) \in Nat
        BY <1>0, QueueLength DEF TypeOK, OnePlace
      <4>2. ToSet(reported) \subseteq Tasks
        BY <1>0, QueuesHoldTasks
      <4>3. ToSet(reported) # Tasks
        BY <2>2, <4>1
      <4> QED
        BY <4>2, <4>3
    <3>3. ASSUME NEW t \in S PROVE Upstream(t) \cap S # {}
      <4>1. ~ (Upstream(t) \subseteq ToSet(reported))
        BY <1>0, <2>2, <3>1 DEF DegreesCount, Going
      <4> QED
        BY <4>1 DEF Upstream
    <3>4. Cyclic
      BY <3>2, <3>3 DEF Cyclic
    <3>5. Cyclic' = Cyclic
      BY <2>2 DEF Cyclic, Upstream
    <3> QED
      BY <2>1, <3>4, <3>5
  <2> QED
    BY <2>1, <2>3
<1>4. ASSUME NEW t \in Tasks, YieldResult(t) PROVE ThrowsForAReason'
  BY <1>4 DEF YieldResult
<1>5. CASE Resume
  BY <1>5 DEF Resume
<1>6. CASE ThrowFailFast
  BY <1>0, <1>6, LastReported DEF ThrowFailFast, OnePlace
<1>7. CASE (\E t \in Tasks : TaskStep(t)) \/ Abort \/ UNCHANGED vars
  <2>1. UNCHANGED <<edges, failFast, pc>>
    BY <1>7, LoopFrame
  <2>2. Cyclic' = Cyclic
    BY <2>1 DEF Cyclic, Upstream
  <2>3. aborted => aborted'
    BY <1>7, LoopFrame DEF TaskStep, Timers, Answer, LateAnswer, TimeOut, GraceExpires,
                           Settle, ExecutorEnds, Abort, vars
  <2>4. ASSUME NEW u \in Tasks, result[u] = "failed" PROVE result'[u] = "failed"
    <3>1. task[u] = "settled"
      BY <1>0, <2>4 DEF PromisesFollow
    <3> QED
      BY <1>0, <1>7, <2>4, <3>1
         DEF TypeOK, TaskStep, Timers, Answer, LateAnswer, TimeOut, GraceExpires, Settle,
             ExecutorEnds, Abort, vars
  <2> QED
    BY <1>0, <2>1, <2>2, <2>3, <2>4
<1> QED
  BY <1>1, <1>2, <1>3, <1>4, <1>5, <1>6, <1>7, StepCases

(* The strengthening is inductive.                                           *)
LEMMA ScheduleStep == ScheduleIInv /\ [Next]_vars => ScheduleIInv'
BY ScheduleTypeStep, PlaceStep, DegreeStep, PromiseStep, CycleStep, ThrowStep
   DEF ScheduleIInv

-----------------------------------------------------------------------------
(* The strengthening holds in every reachable state.                         *)
THEOREM ScheduleInvariant == Spec => []ScheduleIInv
BY ScheduleInit, ScheduleStep, PTL DEF Spec

(* The generator's locals keep their types.                                  *)
THEOREM ScheduleTypes == Spec => []TypeOK
<1>1. ScheduleIInv => TypeOK
  BY DEF ScheduleIInv
<1> QED
  BY <1>1, ScheduleInvariant, PTL

(* No task starts before its dependencies were consumed, and no more         *)
(* executors are waited for than there are slots, for every route.           *)
THEOREM TasksStartWhenDue == Spec => []StartsWhenDue
<1>1. ScheduleIInv => StartsWhenDue
  <2> SUFFICES ASSUME ScheduleIInv PROVE StartsWhenDue
    OBVIOUS
  <2>0. TypeOK /\ OnePlace /\ DegreesCount /\ PromisesFollow
    BY DEF ScheduleIInv
  <2>1. \A t \in Tasks : Started(t) => Upstream(t) \subseteq ToSet(reported)
    BY <2>0 DEF Started, PromisesFollow, DegreesCount
  <2> DEFINE waitedFor == {t \in Tasks : executor[t] = "running" /\ ~ timedOut[t]
                                         /\ task[t] = "executing"}
  <2>2. waitedFor \in SUBSET running
    BY <2>0 DEF PromisesFollow
  <2>3. IsFiniteSet(running)
    BY <2>0, TasksAssumption, FS_Subset DEF TypeOK
  <2>4. /\ Cardinality(waitedFor) <= Cardinality(running)
        /\ Cardinality(waitedFor) \in Nat /\ Cardinality(running) \in Nat
    <3> HIDE DEF waitedFor
    <3> QED
      BY <2>2, <2>3, FS_Subset, FS_CardinalityType
  <2>5. Cardinality(waitedFor) <= MaxConcurrency
    <3> HIDE DEF waitedFor
    <3> QED
      BY <2>0, <2>4, ConcurrencyAssumption DEF OnePlace
  <2> QED
    BY <2>1, <2>5 DEF StartsWhenDue
<1> QED
  BY <1>1, ScheduleInvariant, PTL

(* One result per task; one for every task when the generator ends normally; *)
(* and a timed-out task is never reported completed.                         *)
THEOREM TasksReportedOnce == Spec => []EveryTaskReportedOnce
<1>1. ScheduleIInv => EveryTaskReportedOnce
  BY DEF ScheduleIInv, OnePlace, PromisesFollow, EveryTaskReportedOnce
<1> QED
  BY <1>1, ScheduleInvariant, PTL

(* The generator throws for an abort, a failure under failFast or a cycle,   *)
(* and ends normally on acyclic routes only.                                 *)
THEOREM ThrowsExplained == Spec => []ThrowsForAReason
<1>1. ScheduleIInv => ThrowsForAReason
  BY DEF ScheduleIInv
<1> QED
  BY <1>1, ScheduleInvariant, PTL
=============================================================================
