----------------------------- MODULE Turn_proofs -----------------------------
(***************************************************************************)
(* Proofs about a turn of the engine: the guards it asks, the stream it    *)
(* tells its consumer, and the verdict on its answer, for any number of    *)
(* handlers, calls and retries.                                            *)
(*                                                                         *)
(* The guards.  What a fire has merged so far is what reduceGuardDecisions *)
(* makes of the answers there were, in the order they came: a block stands *)
(* once it was said, the first proposal of a kind wins over later ones     *)
(* (MergeGoesOn, for one answer more), and the handlers still due are    *)
(* those of the snapshot, by priority (HookIInv).                          *)
(*                                                                         *)
(* The verdict.  The retry is decided once, from a list of candidates that *)
(* only loses elements: what is left of the findings, of the retries, and  *)
(* of the answer of the judge follows from where the validation stands     *)
(* (VerdictIInv).                                                          *)
(*                                                                         *)
(* The stream.  A chunk goes from the loop of a call into the outbox, the  *)
(* queue of its attempt and, when the consumer comes for it, to the        *)
(* consumer.  That nothing is told twice, in another order or left open is *)
(* inductive only together with where every call stands in the three       *)
(* boxes: the parts of TurnFollows say it, for a turn that has not ended,  *)
(* and the last step, whichever it is, gives StreamTold and HonestOutcome. *)
(***************************************************************************)
EXTENDS HookRegistry, TurnPipeline, TurnValidation, QueueLemmas

-----------------------------------------------------------------------------
(* Sequences by their indices.                                               *)

(* One element more: the indices there were, and one behind them.            *)
LEMMA AppendAt ==
  ASSUME NEW S, NEW w \in Seq(S), NEW e \in S
  PROVE  /\ Append(w, e) \in Seq(S) /\ Len(w) \in Nat /\ Len(Append(w, e)) = Len(w) + 1
         /\ DOMAIN w \subseteq Nat \ {0}
         /\ \A i : i \in DOMAIN Append(w, e) <=> i \in DOMAIN w \/ i = Len(w) + 1
         /\ \A i \in DOMAIN w : Append(w, e)[i] = w[i] /\ i < Len(w) + 1
         /\ Append(w, e)[Len(w) + 1] = e
<1>1. Len(w) \in Nat /\ DOMAIN w = 1 .. Len(w)
  BY LenProperties
<1>2. /\ Append(w, e) \in Seq(S) /\ Len(Append(w, e)) = Len(w) + 1
      /\ \A i \in 1 .. Len(w) : Append(w, e)[i] = w[i]
      /\ Append(w, e)[Len(w) + 1] = e
  BY AppendProperties
<1>3. DOMAIN Append(w, e) = 1 .. Len(w) + 1
  BY <1>2, LenProperties
<1> QED
  BY <1>1, <1>2, <1>3

(* The first element gone: every index is one less.                          *)
LEMMA TailAt ==
  ASSUME NEW S, NEW w \in Seq(S), w # <<>>
  PROVE  /\ Tail(w) \in Seq(S) /\ Head(w) \in S
         /\ 1 \in DOMAIN w /\ Head(w) = w[1] /\ DOMAIN w \subseteq Nat \ {0}
         /\ DOMAIN Tail(w) \subseteq Nat \ {0}
         /\ \A i \in DOMAIN Tail(w) : i + 1 \in DOMAIN w /\ Tail(w)[i] = w[i + 1]
         /\ \A i \in DOMAIN w : i # 1 => i - 1 \in DOMAIN Tail(w) /\ Tail(w)[i - 1] = w[i]
<1>1. Len(w) \in Nat \ {0} /\ DOMAIN w = 1 .. Len(w)
  BY LenProperties, EmptySeq
<1>2. /\ Head(w) \in S /\ Tail(w) \in Seq(S) /\ Len(Tail(w)) = Len(w) - 1
      /\ \A i \in 1 .. Len(Tail(w)) : Tail(w)[i] = w[i + 1]
  BY HeadTailProperties
<1>3. DOMAIN Tail(w) = 1 .. Len(w) - 1
  BY <1>2, LenProperties
<1>4. Head(w) = w[1]
  OBVIOUS
<1>5. ASSUME NEW i \in DOMAIN w, i # 1
      PROVE  i - 1 \in DOMAIN Tail(w) /\ Tail(w)[i - 1] = w[i]
  <2>1. i - 1 \in 1 .. Len(w) - 1 /\ (i - 1) + 1 = i
    BY <1>1, <1>5
  <2> QED
    BY <1>2, <1>3, <2>1
<1>6. \A i \in DOMAIN Tail(w) : i + 1 \in DOMAIN w /\ Tail(w)[i] = w[i + 1]
  BY <1>1, <1>2, <1>3
<1>7. 1 \in DOMAIN w /\ DOMAIN w \subseteq Nat \ {0} /\ DOMAIN Tail(w) \subseteq Nat \ {0}
  BY <1>1, <1>3
<1> QED
  BY <1>2, <1>4, <1>5, <1>6, <1>7

(* Two in a row: an index is one of the first, or one of the second moved    *)
(* behind it.                                                                *)
LEMMA ConcatAt ==
  ASSUME NEW S, NEW v \in Seq(S), NEW w \in Seq(S)
  PROVE  /\ v \o w \in Seq(S) /\ Len(v) \in Nat
         /\ DOMAIN v \subseteq Nat \ {0} /\ DOMAIN w \subseteq Nat \ {0}
         /\ \A i \in DOMAIN v : i <= Len(v)
         /\ \A i \in DOMAIN (v \o w) :
               \/ i \in DOMAIN v /\ (v \o w)[i] = v[i]
               \/ i - Len(v) \in DOMAIN w /\ (v \o w)[i] = w[i - Len(v)] /\ i > Len(v)
                  /\ i \notin DOMAIN v /\ i \in Nat
         /\ \A i \in DOMAIN v : i \in DOMAIN (v \o w) /\ (v \o w)[i] = v[i]
         /\ \A i \in DOMAIN w : /\ Len(v) + i \in DOMAIN (v \o w)
                                /\ (v \o w)[Len(v) + i] = w[i]
<1>1. /\ Len(v) \in Nat /\ DOMAIN v = 1 .. Len(v) /\ Len(w) \in Nat /\ DOMAIN w = 1 .. Len(w)
  BY LenProperties
<1>2. /\ v \o w \in Seq(S) /\ Len(v \o w) = Len(v) + Len(w)
      /\ \A i \in 1 .. Len(v) + Len(w) : (v \o w)[i] =
            IF i <= Len(v) THEN v[i] ELSE w[i - Len(v)]
  BY ConcatProperties
<1>3. DOMAIN (v \o w) = 1 .. Len(v) + Len(w)
  BY <1>2, LenProperties
<1>4. ASSUME NEW i \in DOMAIN w
      PROVE  Len(v) + i \in DOMAIN (v \o w) /\ (v \o w)[Len(v) + i] = w[i]
  <2>1. /\ Len(v) + i \in 1 .. Len(v) + Len(w) /\ ~ (Len(v) + i <= Len(v))
        /\ (Len(v) + i) - Len(v) = i
    BY <1>1
  <2> QED
    BY <1>2, <1>3, <2>1
<1>5. ASSUME NEW i \in DOMAIN v
      PROVE  i \in DOMAIN (v \o w) /\ (v \o w)[i] = v[i]
  <2>1. i \in 1 .. Len(v) + Len(w) /\ i <= Len(v)
    BY <1>1
  <2> QED
    BY <1>2, <1>3, <2>1
<1>6. ASSUME NEW i \in DOMAIN (v \o w)
      PROVE  \/ i \in DOMAIN v /\ (v \o w)[i] = v[i]
             \/ i - Len(v) \in DOMAIN w /\ (v \o w)[i] = w[i - Len(v)] /\ i > Len(v)
                /\ i \notin DOMAIN v /\ i \in Nat
  <2>1. i \in 1 .. Len(v) + Len(w)
    BY <1>3
  <2>2. CASE i <= Len(v)
    BY <1>1, <1>2, <2>1, <2>2
  <2>3. CASE ~ (i <= Len(v))
    <3>1. i - Len(v) \in 1 .. Len(w) /\ i > Len(v) /\ i \notin 1 .. Len(v) /\ i \in Nat
      BY <1>1, <2>1, <2>3
    <3> QED
      BY <1>1, <1>2, <2>1, <2>3, <3>1
  <2> QED
    BY <2>2, <2>3
<1>7. /\ DOMAIN v \subseteq Nat \ {0} /\ DOMAIN w \subseteq Nat \ {0}
      /\ \A i \in DOMAIN v : i <= Len(v)
  BY <1>1
<1> QED
  BY <1>1, <1>2, <1>4, <1>5, <1>6, <1>7

(* The first element is known by what comes before it.                       *)
LEMMA FirstOfIs ==
  ASSUME NEW S, NEW w \in Seq(S), NEW T, NEW i \in DOMAIN w, w[i] \in T,
         \A j \in DOMAIN w : j < i => w[j] \notin T
  PROVE  FirstOf(w, T) = w[i]
<1>1. PICK k \in DOMAIN w : /\ w[k] \in T /\ FirstOf(w, T) = w[k]
                            /\ \A j \in DOMAIN w : w[j] \in T => k <= j
  BY FirstOfProperties
<1>2. k <= i /\ ~ (k < i)
  BY <1>1
<1>3. DOMAIN w = 1 .. Len(w) /\ Len(w) \in Nat
  BY LenProperties
<1> QED
  BY <1>1, <1>2, <1>3

-----------------------------------------------------------------------------
(* FlattenSeq, whose recursion is over the length: its function exists and   *)
(* is the only one.                                                          *)
Flattening(f, seqs, n) ==
    f = [i \in 1 .. n |-> IF i = 1 THEN seqs[i] ELSE f[i - 1] \o seqs[i]]

(* The recursion at one of its indices.                                      *)
LEMMA FlatteningAt ==
  ASSUME NEW f, NEW w, NEW n \in Nat, Flattening(f, w, n), NEW i \in 1 .. n
  PROVE  f[i] = IF i = 1 THEN w[i] ELSE f[i - 1] \o w[i]
<1>1. f = [k \in 1 .. n |-> IF k = 1 THEN w[k] ELSE f[k - 1] \o w[k]]
  BY DEF Flattening
<1> DEFINE F(k) == IF k = 1 THEN w[k] ELSE f[k - 1] \o w[k]
<1>2. [k \in 1 .. n |-> F(k)][i] = F(i)
  OBVIOUS
<1> QED
  BY <1>1, <1>2

(* There is one for every length.                                            *)
LEMMA FlatteningExists ==
  ASSUME NEW seqs, NEW n \in Nat
  PROVE  \E f : Flattening(f, seqs, n)
<1> DEFINE Bad == {m \in Nat : ~ \E f : Flattening(f, seqs, m)}
<1> SUFFICES ASSUME Bad # {} PROVE FALSE
  OBVIOUS
<1>1. Bad \in SUBSET Nat
  OBVIOUS
<1>2. PICK m \in Bad : \A k \in Bad : m <= k
  BY <1>1, LeastOf
<1>3. m \in Nat /\ ~ \E f : Flattening(f, seqs, m)
  OBVIOUS
<1>4. CASE m = 0
  <2>1. Flattening([i \in 1 .. 0 |-> <<>>], seqs, 0)
    <3>1. \A i : ~ (i \in 1 .. 0)
      OBVIOUS
    <3> QED
      BY <3>1 DEF Flattening
  <2> QED
    BY <1>3, <1>4, <2>1
<1>5. CASE m # 0
  <2>1. m - 1 \in Nat /\ ~ (m <= m - 1)
    BY <1>3, <1>5
  <2>2. PICK f : Flattening(f, seqs, m - 1)
    BY <1>2, <2>1
  <2> DEFINE v == IF m = 1 THEN seqs[m] ELSE f[m - 1] \o seqs[m]
             g == [i \in 1 .. m |-> IF i = m THEN v ELSE f[i]]
  <2>3. ASSUME NEW i \in 1 .. m
        PROVE  g[i] = IF i = 1 THEN seqs[i] ELSE g[i - 1] \o seqs[i]
    <3>1. CASE i = m
      <4>1. m # 1 => m - 1 \in 1 .. m /\ m - 1 # m
        BY <1>3, <1>5
      <4> QED
        BY <3>1, <4>1
    <3>2. CASE i # m
      <4>1. i \in 1 .. m - 1 /\ (i # 1 => i - 1 \in 1 .. m /\ i - 1 # m)
        BY <1>3, <3>2
      <4>2. f[i] = IF i = 1 THEN seqs[i] ELSE f[i - 1] \o seqs[i]
        BY <2>2, <4>1 DEF Flattening
      <4> QED
        BY <3>2, <4>1, <4>2
    <3> QED
      BY <3>1, <3>2
  <2>4. DOMAIN g = 1 .. m /\ g = [i \in DOMAIN g |-> g[i]]
    OBVIOUS
  <2> HIDE DEF g
  <2>5. g = [i \in 1 .. m |-> IF i = 1 THEN seqs[i] ELSE g[i - 1] \o seqs[i]]
    BY <2>3, <2>4
  <2> QED
    BY <1>3, <2>5 DEF Flattening
<1> QED
  BY <1>4, <1>5

(* Two of them agree as far as their sequences do.                           *)
LEMMA FlatteningsAgree ==
  ASSUME NEW v, NEW w, NEW n \in Nat, NEW m \in Nat, n <= m,
         NEW f, Flattening(f, v, n), NEW g, Flattening(g, w, m),
         \A i \in 1 .. n : v[i] = w[i]
  PROVE  \A i \in 1 .. n : f[i] = g[i]
<1> DEFINE Bad == {i \in 1 .. n : f[i] # g[i]}
<1> SUFFICES ASSUME Bad # {} PROVE FALSE
  OBVIOUS
<1>1. Bad \in SUBSET Nat
  OBVIOUS
<1>2. PICK i \in Bad : \A k \in Bad : i <= k
  BY <1>1, LeastOf
<1>3. i \in 1 .. n /\ i \in 1 .. m /\ f[i] # g[i]
  OBVIOUS
<1>4. /\ f[i] = IF i = 1 THEN v[i] ELSE f[i - 1] \o v[i]
      /\ g[i] = IF i = 1 THEN w[i] ELSE g[i - 1] \o w[i]
  BY <1>3 DEF Flattening
<1>5. i # 1
  BY <1>3, <1>4
<1>6. i - 1 \in 1 .. n /\ ~ (i <= i - 1)
  BY <1>3, <1>5
<1>7. f[i - 1] = g[i - 1]
  BY <1>2, <1>6
<1> QED
  BY <1>3, <1>4, <1>7

(* Its values are sequences.                                                 *)
LEMMA FlatteningType ==
  ASSUME NEW S, NEW v \in Seq(Seq(S)), NEW f, Flattening(f, v, Len(v))
  PROVE  \A i \in 1 .. Len(v) : f[i] \in Seq(S)
<1>1. Len(v) \in Nat
  BY LenProperties
<1> DEFINE Bad == {i \in 1 .. Len(v) : f[i] \notin Seq(S)}
<1> SUFFICES ASSUME Bad # {} PROVE FALSE
  OBVIOUS
<1>2. Bad \in SUBSET Nat
  OBVIOUS
<1>3. PICK i \in Bad : \A k \in Bad : i <= k
  BY <1>2, LeastOf
<1>4. i \in 1 .. Len(v) /\ f[i] \notin Seq(S)
  OBVIOUS
<1>5. v[i] \in Seq(S)
  BY <1>4, ElementOfSeq
<1>6. f[i] = IF i = 1 THEN v[i] ELSE f[i - 1] \o v[i]
  BY <1>4 DEF Flattening
<1>7. i # 1
  BY <1>4, <1>5, <1>6
<1>8. i - 1 \in 1 .. Len(v) /\ ~ (i <= i - 1)
  BY <1>1, <1>4, <1>7
<1>9. f[i - 1] \in Seq(S)
  BY <1>3, <1>8
<1>10. f[i - 1] \o v[i] \in Seq(S)
  BY <1>5, <1>9, ConcatProperties
<1> QED
  BY <1>4, <1>6, <1>7, <1>10

(* FlattenSeq is the last value of one.                                      *)
LEMMA FlattenIs ==
  ASSUME NEW w, Len(w) \in Nat
  PROVE  \E f : /\ Flattening(f, w, Len(w))
                /\ FlattenSeq(w) = IF Len(w) = 0 THEN w ELSE f[Len(w)]
<1> DEFINE f == CHOOSE f : Flattening(f, w, Len(w))
<1>1. \E g : Flattening(g, w, Len(w))
  BY FlatteningExists
<1>2. Flattening(f, w, Len(w))
  BY <1>1
<1>3. FlattenSeq(w) = IF Len(w) = 0 THEN w ELSE f[Len(w)]
  BY DEF FlattenSeq, Flattening
<1> HIDE DEF f
<1> QED
  BY <1>2, <1>3

(* One more sequence is put behind what there was.                           *)
LEMMA FlattenAppend ==
  ASSUME NEW S, NEW v \in Seq(Seq(S)), NEW s \in Seq(S)
  PROVE  FlattenSeq(v) \in Seq(S) /\ FlattenSeq(Append(v, s)) = FlattenSeq(v) \o s
<1>0. PICK w : w = Append(v, s)
  OBVIOUS
<1>n. PICK n \in Nat : n = Len(v)
  BY LenProperties
<1>1. /\ w \in Seq(Seq(S)) /\ Len(w) = n + 1
      /\ \A i \in 1 .. n : w[i] = v[i]
      /\ w[n + 1] = s
  BY <1>0, <1>n, LenProperties, AppendProperties
<1>2. PICK f : Flattening(f, v, n) /\ FlattenSeq(v) = IF n = 0 THEN v ELSE f[n]
  BY <1>n, FlattenIs
<1>6. n <= n + 1 /\ n + 1 \in Nat /\ n + 1 \in 1 .. n + 1 /\ n + 1 - 1 = n /\ n + 1 # 0
  OBVIOUS
<1>3. PICK g : Flattening(g, w, n + 1) /\ FlattenSeq(w) = g[n + 1]
  <2>1. Len(w) \in Nat /\ Len(w) # 0
    BY <1>1, <1>6
  <2> QED
    BY <1>1, <2>1, FlattenIs
<1>5. \A i \in 1 .. n : f[i] \in Seq(S)
  BY <1>2, <1>n, FlatteningType
<1>7. \A i \in 1 .. n : f[i] = g[i]
  <2>1. \A i \in 1 .. n : v[i] = w[i]
    BY <1>1
  <2> QED
    BY <1>2, <1>3, <1>6, <2>1, FlatteningsAgree
<1>8. g[n + 1] = IF n + 1 = 1 THEN w[n + 1] ELSE g[n] \o w[n + 1]
  <2>1. ASSUME NEW m \in Nat, m = n + 1
        PROVE  g[m] = IF m = 1 THEN w[m] ELSE g[m - 1] \o w[m]
    <3>1. Flattening(g, w, m) /\ m \in 1 .. m
      BY <1>3, <1>6, <2>1
    <3> QED
      BY <3>1, FlatteningAt
  <2> QED
    BY <1>6, <2>1
<1>9. CASE n = 0
  <2>1. v = <<>>
    BY <1>9, <1>n, EmptySeq
  <2>2. FlattenSeq(v) = <<>> /\ FlattenSeq(w) = s
    BY <1>1, <1>2, <1>3, <1>8, <1>9, <2>1
  <2>3. <<>> \o s = s /\ <<>> \in Seq(S)
    BY ConcatEmptySeq, EmptySeq
  <2> QED
    BY <1>0, <2>2, <2>3
<1>10. CASE n # 0
  <2>1. n \in 1 .. n /\ n + 1 # 1
    BY <1>10
  <2>2. FlattenSeq(w) = f[n] \o s
    BY <1>1, <1>3, <1>7, <1>8, <2>1
  <2> QED
    BY <1>0, <1>2, <1>5, <1>10, <2>1, <2>2
<1> QED
  BY <1>9, <1>10

-----------------------------------------------------------------------------
(* fire() against reduceGuardDecisions.                                      *)

(* What a guard or a handler that goes on may answer.                        *)
LEMMA GuardAnswerForm ==
  ASSUME NEW a \in GuardAnswers
  PROVE  /\ a \in Actions /\ a.by \in Seq(Handlers)
         /\ a = [type |-> a.type, kind |-> a.kind, by |-> a.by]
         /\ \/ a.type = "continue" /\ a.kind = "none"
            \/ a.type = "guard" /\ a.kind = "pass" /\ a.by = <<>>
            \/ a.type = "guard" /\ a.kind \in {"annotate", "degrade", "block"}
<1>1. PICK h \in Handlers : a \in ActionsOf(h)
  BY DEF GuardAnswers, Answers
<1>2. a.type \in {"guard", "continue"}
  BY DEF GuardAnswers
<1>3. <<>> \in Seq(Handlers) /\ <<h>> \in Seq(Handlers)
  OBVIOUS
<1>4. CASE a \in [type : {"guard"}, kind : {"block", "degrade", "annotate"}, by : {<<h>>}]
  <2>1. a = [type |-> a.type, kind |-> a.kind, by |-> a.by] /\ a.type = "guard"
        /\ a.kind \in {"annotate", "degrade", "block"} /\ a.by = <<h>>
    BY <1>4
  <2> QED
    BY <1>3, <2>1 DEF Actions
<1>5. CASE a \in {Action("continue", "none", <<>>), Action("guard", "pass", <<>>),
                  Action("guard", "annotate", <<>>)}
  <2>1. /\ a = [type |-> a.type, kind |-> a.kind, by |-> a.by] /\ a.by = <<>>
        /\ \/ a.type = "continue" /\ a.kind = "none"
           \/ a.type = "guard" /\ a.kind \in {"pass", "annotate"}
    BY <1>5 DEF Action
  <2>2. a \in Actions
    BY <1>3, <2>1 DEF Actions
  <2> QED
    BY <1>3, <2>1, <2>2
<1>6. CASE a \in {Action("mutate", "none", <<h>>), Action("deny", "none", <<h>>),
                  Action("finding", "none", <<h>>)}
  BY <1>2, <1>6 DEF Action
<1> QED
  BY <1>1, <1>4, <1>5, <1>6 DEF ActionsOf

(* Deciding alike is transitive.                                             *)
LEMMA SameAsSame ==
  ASSUME NEW x, NEW y, NEW z, SameDecision(x, y), SameDecision(y, z)
  PROVE  SameDecision(x, z)
BY DEF SameDecision

(* A merge of decisions that are alike gives decisions that are alike.       *)
LEMMA FoldSame ==
  ASSUME NEW x, NEW y, NEW a \in GuardAnswers, SameDecision(x, y)
  PROVE  SameDecision(Fold(x, a), Fold(y, a))
<1>1. /\ a.by \in Seq(Handlers) /\ a = [type |-> a.type, kind |-> a.kind, by |-> a.by]
      /\ \/ a.type = "continue" /\ a.kind = "none"
         \/ a.type = "guard" /\ a.kind = "pass" /\ a.by = <<>>
         \/ a.type = "guard" /\ a.kind \in {"annotate", "degrade", "block"}
  BY GuardAnswerForm
<1>2. CASE x = y
  BY <1>2 DEF SameDecision
<1>3. CASE x # y
  <2> DEFINE Heavy == a.type = "guard" /\ ~ Blank(a)
  <2>1. Blank(x) /\ Blank(y)
    BY <1>3 DEF SameDecision
  <2>2. <<>> \o a.by = a.by
    BY <1>1, ConcatEmptySeq
  <2>3. ASSUME NEW z, Blank(z)
        PROVE  (Heavy => Fold(z, a) = a) /\ (~ Heavy => Blank(Fold(z, a)))
    <3>1. CASE a.type = "continue"
      <4>1. Fold(z, a) = z
        BY <3>1 DEF Fold
      <4> QED
        BY <2>3, <3>1, <4>1
    <3>2. CASE a.type = "guard" /\ (z.type # "guard" \/ z.kind = "pass")
      <4>1. Fold(z, a) = a
        BY <3>2 DEF Fold, MergeGuard
      <4> QED
        BY <3>2, <4>1
    <3>3. CASE a.type = "guard" /\ z.type = "guard" /\ z.kind # "pass"
      <4>1. z = [type |-> "guard", kind |-> "annotate", by |-> <<>>]
        BY <2>3, <3>3 DEF Blank, NoAction, Action
      <4>2. CASE a.kind = "pass"
        <5>1. Fold(z, a) = z
          BY <3>3, <4>2, <4>1 DEF Fold, MergeGuard
        <5>2. Blank(a)
          BY <1>1, <3>3, <4>2 DEF Blank, Action
        <5> QED
          BY <2>3, <5>1, <5>2
      <4>3. CASE a.kind \in {"block", "degrade"}
        <5>1. Fold(z, a) = a
          BY <3>3, <4>1, <4>3 DEF Fold, MergeGuard
        <5>2. ~ Blank(a)
          BY <3>3, <4>3 DEF Blank, Action, NoAction
        <5> QED
          BY <3>3, <5>1, <5>2
      <4>4. CASE a.kind = "annotate"
        <5>1. Fold(z, a) = Action("guard", IF a.by = <<>> THEN "pass" ELSE "annotate", a.by)
          BY <2>2, <3>3, <4>1, <4>4 DEF Fold, MergeGuard
        <5>2. Blank(a) <=> a.by = <<>>
          BY <1>1, <3>3, <4>4 DEF Blank, Action, NoAction
        <5>3. CASE a.by = <<>>
          BY <5>1, <5>2, <5>3 DEF Blank
        <5>4. CASE a.by # <<>>
          BY <1>1, <3>3, <4>4, <5>1, <5>2, <5>4 DEF Action
        <5> QED
          BY <5>3, <5>4
      <4> QED
        BY <1>1, <3>3, <4>2, <4>3, <4>4
    <3> QED
      BY <1>1, <3>1, <3>2, <3>3
  <2> QED
    BY <2>1, <2>3 DEF SameDecision
<1> QED
  BY <1>2, <1>3

(* The notes of one decision more.                                           *)
LEMMA NotesAppend ==
  ASSUME NEW ds \in Seq(GuardAnswers), NEW a \in GuardAnswers
  PROVE  /\ NotesOf(ds) \in Seq(Handlers)
         /\ NotesOf(Append(ds, a)) = NotesOf(ds) \o NoteOf(a)
<1> DEFINE n == Len(ds)
           v == [i \in DOMAIN ds |-> NoteOf(ds[i])]
           u == [i \in DOMAIN Append(ds, a) |-> NoteOf(Append(ds, a)[i])]
<1>1. ASSUME NEW b \in GuardAnswers PROVE NoteOf(b) \in Seq(Handlers)
  <2>1. b.by \in Seq(Handlers) /\ <<>> \in Seq(Handlers)
    BY GuardAnswerForm, EmptySeq
  <2> QED
    BY <2>1 DEF NoteOf
<1>2. n \in Nat /\ DOMAIN ds = 1 .. n /\ \A i \in 1 .. n : ds[i] \in GuardAnswers
  BY LenProperties, ElementOfSeq
<1>3. /\ Append(ds, a) \in Seq(GuardAnswers) /\ DOMAIN Append(ds, a) = 1 .. n + 1
      /\ \A i \in 1 .. n : Append(ds, a)[i] = ds[i]
      /\ Append(ds, a)[n + 1] = a
  BY AppendProperties, LenProperties
<1>4. v \in Seq(Seq(Handlers)) /\ Len(v) = n /\ \A i \in 1 .. n : v[i] = NoteOf(ds[i])
  <2>1. v \in [1 .. n -> Seq(Handlers)]
    BY <1>1, <1>2
  <2>2. v \in Seq(Seq(Handlers))
    BY <1>2, <2>1, SeqDef
  <2> QED
    BY <1>2, <2>2, LenProperties
<1>5. /\ Append(v, NoteOf(a)) \in Seq(Seq(Handlers)) /\ Len(Append(v, NoteOf(a))) = n + 1
      /\ \A i \in 1 .. n : Append(v, NoteOf(a))[i] = v[i]
      /\ Append(v, NoteOf(a))[n + 1] = NoteOf(a)
  BY <1>1, <1>4, AppendProperties
<1>6. /\ u \in Seq(Seq(Handlers)) /\ Len(u) = n + 1
      /\ \A i \in 1 .. n : u[i] = NoteOf(ds[i])
      /\ u[n + 1] = NoteOf(a)
  <2>1. \A i \in 1 .. n + 1 : Append(ds, a)[i] \in GuardAnswers
    BY <1>3, ElementOfSeq, LenProperties
  <2>2. u \in [1 .. n + 1 -> Seq(Handlers)]
    BY <1>1, <1>3, <2>1
  <2>3. u \in Seq(Seq(Handlers)) /\ n + 1 \in Nat
    BY <1>2, <2>2, SeqDef
  <2>4. Len(u) = n + 1
    BY <2>2, <2>3, LenProperties
  <2>5. \A i \in 1 .. n : i \in DOMAIN Append(ds, a)
    BY <1>2, <1>3
  <2>6. n + 1 \in DOMAIN Append(ds, a)
    BY <1>2, <1>3
  <2> QED
    BY <1>3, <2>3, <2>4, <2>5, <2>6
<1>7. u = Append(v, NoteOf(a))
  <2>1. \A i \in 1 .. n + 1 : i \in 1 .. n \/ i = n + 1
    BY <1>2
  <2>2. \A i \in 1 .. n + 1 : u[i] = Append(v, NoteOf(a))[i]
    BY <1>4, <1>5, <1>6, <2>1
  <2>3. Len(u) = Len(Append(v, NoteOf(a)))
    BY <1>5, <1>6
  <2> QED
    BY <1>5, <1>6, <2>2, <2>3, SeqEqual
<1>8. NotesOf(ds) = FlattenSeq(v) /\ NotesOf(Append(ds, a)) = FlattenSeq(u)
  BY DEF NotesOf
<1> HIDE DEF u, v
<1> QED
  BY <1>1, <1>4, <1>7, <1>8, FlattenAppend

(* Of a list with one more, the first in a class is the first there was.     *)
LEMMA FirstStays ==
  ASSUME NEW S, NEW ds \in Seq(S), NEW a \in S, NEW U, NEW T,
         T = U \cap ToSet(ds), T # {}
  PROVE  FirstOf(ds, T) \in T /\ FirstOf(Append(ds, a), U) = FirstOf(ds, T)
<1> DEFINE w == Append(ds, a)
           n == Len(ds)
<1>1. /\ w \in Seq(S) /\ n \in Nat /\ DOMAIN ds \subseteq Nat \ {0}
      /\ \A i : i \in DOMAIN w <=> i \in DOMAIN ds \/ i = n + 1
      /\ \A i \in DOMAIN ds : w[i] = ds[i] /\ i < n + 1
  BY AppendAt
<1> HIDE DEF w, n
<1>2. \E i \in DOMAIN ds : ds[i] \in T
  BY DEF ToSet
<1>3. PICK i \in DOMAIN ds : /\ ds[i] \in T /\ FirstOf(ds, T) = ds[i]
                             /\ \A j \in DOMAIN ds : ds[j] \in T => i <= j
  BY <1>2, FirstOfProperties
<1>4. i \in DOMAIN w /\ w[i] \in U /\ i < n + 1 /\ w[i] = ds[i]
  BY <1>1, <1>3
<1>5. ASSUME NEW j \in DOMAIN w, j < i PROVE w[j] \notin U
  <2>1. j \in DOMAIN ds /\ w[j] = ds[j]
    BY <1>1, <1>4, <1>5
  <2>2. ds[j] \notin T
    BY <1>1, <1>3, <1>5, <2>1
  <2>3. ds[j] \in ToSet(ds)
    BY <2>1 DEF ToSet
  <2> QED
    BY <2>1, <2>2, <2>3
<1>6. FirstOf(w, U) = w[i]
  BY <1>1, <1>4, <1>5, FirstOfIs
<1> QED
  BY <1>3, <1>4, <1>6 DEF w

(* Where there was none, it is the new one.                                  *)
LEMMA FirstIsNew ==
  ASSUME NEW S, NEW ds \in Seq(S), NEW a \in S, NEW U, U \cap ToSet(ds) = {}, a \in U
  PROVE  FirstOf(Append(ds, a), U) = a
<1> DEFINE w == Append(ds, a)
           n == Len(ds)
<1>1. /\ w \in Seq(S) /\ n \in Nat /\ DOMAIN ds \subseteq Nat \ {0}
      /\ \A i : i \in DOMAIN w <=> i \in DOMAIN ds \/ i = n + 1
      /\ \A i \in DOMAIN ds : w[i] = ds[i] /\ i < n + 1
      /\ w[n + 1] = a
  BY AppendAt
<1> HIDE DEF w, n
<1>2. n + 1 \in DOMAIN w /\ w[n + 1] \in U
  BY <1>1
<1>3. ASSUME NEW j \in DOMAIN w, j < n + 1 PROVE w[j] \notin U
  <2>1. j \in DOMAIN ds /\ w[j] = ds[j]
    BY <1>1, <1>3
  <2>2. ds[j] \in ToSet(ds)
    BY <2>1 DEF ToSet
  <2> QED
    BY <2>1, <2>2
<1>4. FirstOf(w, U) = w[n + 1]
  BY <1>1, <1>2, <1>3, FirstOfIs
<1> QED
  BY <1>1, <1>4 DEF w

(* What is in a list with one more.                                          *)
LEMMA ToSetAppend ==
  ASSUME NEW S, NEW ds \in Seq(S), NEW a \in S
  PROVE  ToSet(Append(ds, a)) = ToSet(ds) \cup {a}
<1>1. /\ \A i : i \in DOMAIN Append(ds, a) <=> i \in DOMAIN ds \/ i = Len(ds) + 1
      /\ \A i \in DOMAIN ds : Append(ds, a)[i] = ds[i]
      /\ Append(ds, a)[Len(ds) + 1] = a
  BY AppendAt
<1> QED
  BY <1>1 DEF ToSet

(* The reference of one answer more is the merge of the reference so far and *)
(* that answer.                                                              *)
LEMMA ReduceAppend ==
  ASSUME NEW ds \in Seq(GuardAnswers), NEW a \in GuardAnswers
  PROVE  SameDecision(Fold(Reduce(ds), a), Reduce(Append(ds, a)))
<1> DEFINE w == Append(ds, a)
           B == {d \in ToSet(ds) : IsBlock(d)}
           C == {d \in ToSet(w) : IsBlock(d)}
           D == {d \in ToSet(ds) : IsDegrade(d)}
           E == {d \in ToSet(w) : IsDegrade(d)}
           N == NotesOf(ds)
           M == NotesOf(w)
           Plain(v) == Action("guard", IF v = <<>> THEN "pass" ELSE "annotate", v)
<1>1. ToSet(w) = ToSet(ds) \cup {a}
  BY ToSetAppend
<1>2. N \in Seq(Handlers) /\ M = N \o NoteOf(a)
  BY NotesAppend
<1>3. /\ a.by \in Seq(Handlers) /\ a = [type |-> a.type, kind |-> a.kind, by |-> a.by]
      /\ \/ a.type = "continue" /\ a.kind = "none"
         \/ a.type = "guard" /\ a.kind = "pass" /\ a.by = <<>>
         \/ a.type = "guard" /\ a.kind \in {"annotate", "degrade", "block"}
  BY GuardAnswerForm
<1>4. /\ Reduce(ds) = IF B # {} THEN FirstOf(ds, B)
                      ELSE IF D # {} THEN FirstOf(ds, D) ELSE Plain(N)
      /\ Reduce(w) = IF C # {} THEN FirstOf(w, C)
                     ELSE IF E # {} THEN FirstOf(w, E) ELSE Plain(M)
  BY DEF Reduce
<1>5. /\ \A d \in B : d \in ToSet(ds) /\ IsBlock(d)
      /\ \A d \in D : d \in ToSet(ds) /\ IsDegrade(d)
      /\ \A d \in ToSet(ds) : d \in C => d \in B
      /\ \A d \in ToSet(ds) : d \in E => d \in D
      /\ B \subseteq C /\ C \subseteq B \cup {a} /\ D \subseteq E /\ E \subseteq D \cup {a}
  BY <1>1
<1>6. /\ a \in C <=> a.type = "guard" /\ a.kind = "block"
      /\ a \in E <=> a.type = "guard" /\ a.kind = "degrade"
  BY <1>1 DEF IsBlock, IsDegrade
<1> HIDE DEF B, C, D, E, N, M
<1>7. /\ B # {} => FirstOf(ds, B) \in B /\ FirstOf(w, C) = FirstOf(ds, B)
      /\ B = {} /\ a \in C => FirstOf(w, C) = a
  <2>1. B = C \cap ToSet(ds)
    BY <1>5
  <2> QED
    BY <2>1, FirstStays, FirstIsNew
<1>8. /\ D # {} => FirstOf(ds, D) \in D /\ FirstOf(w, E) = FirstOf(ds, D)
      /\ D = {} /\ a \in E => FirstOf(w, E) = a
  <2>1. D = E \cap ToSet(ds)
    BY <1>5
  <2> QED
    BY <2>1, FirstStays, FirstIsNew
<1> HIDE DEF w
<1> SUFFICES SameDecision(Fold(Reduce(ds), a), Reduce(w))
  BY DEF w
<1>9. CASE B # {}
  <2>1. Reduce(ds) = FirstOf(ds, B) /\ Reduce(w) = FirstOf(ds, B)
    BY <1>4, <1>5, <1>7, <1>9
  <2>2. Reduce(ds).type = "guard" /\ Reduce(ds).kind = "block"
    BY <1>5, <1>7, <1>9, <2>1 DEF IsBlock
  <2>3. Fold(Reduce(ds), a) = Reduce(ds)
    BY <1>3, <2>2 DEF Fold, MergeGuard
  <2> QED
    BY <2>1, <2>3 DEF SameDecision
<1>10. CASE B = {} /\ D # {}
  <2>1. Reduce(ds) = FirstOf(ds, D)
    BY <1>4, <1>10
  <2>2. Reduce(ds).type = "guard" /\ Reduce(ds).kind = "degrade"
    BY <1>5, <1>8, <1>10, <2>1 DEF IsDegrade
  <2>3. CASE a \in C
    <3>1. Reduce(w) = a
      BY <1>4, <1>7, <1>10, <2>3
    <3>2. Fold(Reduce(ds), a) = a
      BY <1>6, <2>2, <2>3 DEF Fold, MergeGuard
    <3> QED
      BY <3>1, <3>2 DEF SameDecision
  <2>4. CASE a \notin C
    <3>1. C = {}
      BY <1>5, <1>10, <2>4
    <3>2. Reduce(w) = Reduce(ds)
      BY <1>4, <1>5, <1>8, <1>10, <2>1, <3>1
    <3>3. Fold(Reduce(ds), a) = Reduce(ds)
      BY <1>3, <1>6, <2>2, <2>4 DEF Fold, MergeGuard
    <3> QED
      BY <3>2, <3>3 DEF SameDecision
  <2> QED
    BY <2>3, <2>4
<1>11. CASE B = {} /\ D = {}
  <2>1. Reduce(ds) = Plain(N) /\ Reduce(ds).type = "guard" /\ Reduce(ds).by = N
        /\ Reduce(ds).kind = IF N = <<>> THEN "pass" ELSE "annotate"
    BY <1>4, <1>11 DEF Action
  <2>2. CASE a.type = "guard" /\ a.kind \in {"block", "degrade"}
    <3>1. Reduce(w) = a
      <4>1. CASE a.kind = "block"
        BY <1>4, <1>6, <1>7, <1>11, <2>2, <4>1
      <4>2. CASE a.kind = "degrade"
        <5>1. a \notin C /\ C = {} /\ a \in E
          BY <1>5, <1>6, <1>11, <2>2, <4>2
        <5> QED
          BY <1>4, <1>8, <1>11, <5>1
      <4> QED
        BY <2>2, <4>1, <4>2
    <3>2. Fold(Reduce(ds), a) = a
      BY <2>1, <2>2 DEF Fold, MergeGuard
    <3> QED
      BY <3>1, <3>2 DEF SameDecision
  <2>3. CASE ~ (a.type = "guard" /\ a.kind \in {"block", "degrade"})
    <3>1. C = {} /\ E = {}
      BY <1>5, <1>6, <1>11, <2>3
    <3>2. Reduce(w) = Plain(M)
      BY <1>4, <3>1
    <3>3. CASE a.kind # "annotate"
      <4>1. M = N
        BY <1>2, <3>3, ConcatEmptySeq DEF NoteOf
      <4>2. CASE a.type = "continue"
        <5>1. Fold(Reduce(ds), a) = Reduce(ds)
          BY <4>2 DEF Fold
        <5> QED
          BY <2>1, <3>2, <4>1, <5>1 DEF SameDecision
      <4>3. CASE a.type = "guard" /\ a.kind = "pass"
        <5>1. CASE N = <<>>
          <6>1. Fold(Reduce(ds), a) = a
            BY <2>1, <4>3, <5>1 DEF Fold, MergeGuard
          <6>2. a = Plain(M)
            BY <1>3, <4>1, <4>3, <5>1 DEF Action
          <6> QED
            BY <3>2, <6>1, <6>2 DEF SameDecision
        <5>2. CASE N # <<>>
          <6>1. Fold(Reduce(ds), a) = Reduce(ds)
            BY <2>1, <4>3, <5>2 DEF Fold, MergeGuard
          <6> QED
            BY <2>1, <3>2, <4>1, <6>1 DEF SameDecision
        <5> QED
          BY <5>1, <5>2
      <4> QED
        BY <1>3, <2>3, <3>3, <4>2, <4>3
    <3>4. CASE a.kind = "annotate"
      <4>1. M = N \o a.by /\ a.type = "guard"
        BY <1>2, <1>3, <3>4 DEF NoteOf
      <4>2. CASE N = <<>>
        <5>1. Fold(Reduce(ds), a) = a
          BY <2>1, <4>1, <4>2 DEF Fold, MergeGuard
        <5>2. M = a.by
          BY <1>3, <4>1, <4>2, ConcatEmptySeq
        <5>3. CASE a.by = <<>>
          <6>1. Reduce(w) = Action("guard", "pass", <<>>) /\ a = Action("guard", "annotate", <<>>)
            BY <1>3, <3>2, <3>4, <4>1, <5>2, <5>3 DEF Action
          <6> QED
            BY <5>1, <6>1 DEF SameDecision, Blank
        <5>4. CASE a.by # <<>>
          <6>1. Reduce(w) = a
            BY <1>3, <3>2, <3>4, <4>1, <5>2, <5>4 DEF Action
          <6> QED
            BY <5>1, <6>1 DEF SameDecision
        <5> QED
          BY <5>3, <5>4
      <4>3. CASE N # <<>>
        <5>1. M # <<>>
          BY <1>2, <1>3, <4>1, <4>3, ConcatEqualIffEmpty
        <5>2. Fold(Reduce(ds), a) = Plain(M)
          BY <2>1, <3>4, <4>1, <4>3, <5>1 DEF Fold, MergeGuard
        <5> QED
          BY <3>2, <5>2 DEF SameDecision
      <4> QED
        BY <4>2, <4>3
    <3> QED
      BY <3>3, <3>4
  <2> QED
    BY <2>2, <2>3
<1> QED
  BY <1>9, <1>10, <1>11

(* What the fold of fire() holds, where its answers so far are merged as the *)
(* reference merges them, is right for one answer more.                      *)
LEMMA MergeGoesOn ==
  ASSUME NEW ds \in Seq(GuardAnswers), NEW a \in GuardAnswers, NEW r,
         SameDecision(r, Reduce(ds))
  PROVE  SameDecision(Fold(r, a), Reduce(Append(ds, a)))
<1>1. SameDecision(Fold(r, a), Fold(Reduce(ds), a))
  BY FoldSame
<1>2. SameDecision(Fold(Reduce(ds), a), Reduce(Append(ds, a)))
  BY ReduceAppend
<1> QED
  BY <1>1, <1>2, SameAsSame

(* The empty list is decided as the start of the fold.                       *)
LEMMA ReduceEmpty == SameDecision(NoAction, Reduce(<<>>))
<1>1. ToSet(<<>>) = {}
  BY DEF ToSet
<1>2. NotesOf(<<>>) = <<>>
  BY DEF NotesOf, FlattenSeq
<1>3. Reduce(<<>>) = Action("guard", "pass", <<>>)
  BY <1>1, <1>2 DEF Reduce
<1> QED
  BY <1>3 DEF SameDecision, Blank

-----------------------------------------------------------------------------
(* HookRegistry: the buckets.                                                *)

(* What filter keeps of a sorted list is sorted, and was in it.              *)
LEMMA KeptOfEntries ==
  ASSUME NEW w \in Seq(Entries), NEW T
  PROVE  /\ Kept(w, T) \in Seq(Entries)
         /\ \A n \in DOMAIN Kept(w, T) : Kept(w, T)[n] \in T /\ \E i \in DOMAIN w : Kept(w, T)[n] = w[i]
         /\ Sorted(w) => Sorted(Kept(w, T))
<1> DEFINE v == Kept(w, T)
<1>1. /\ v \in Seq(Entries) /\ DOMAIN v = 1 .. Len(v)
      /\ \E g \in [DOMAIN v -> DOMAIN w] :
            /\ \A n \in DOMAIN v : v[n] = w[g[n]] /\ w[g[n]] \in T
            /\ \A m, n \in DOMAIN v : m < n => g[m] < g[n]
  BY KeptProperties
<1> HIDE DEF v
<1>2. PICK g \in [DOMAIN v -> DOMAIN w] :
            /\ \A n \in DOMAIN v : v[n] = w[g[n]] /\ w[g[n]] \in T
            /\ \A m, n \in DOMAIN v : m < n => g[m] < g[n]
  BY <1>1
<1>3. Sorted(w) => Sorted(v)
  BY <1>2 DEF Sorted
<1>4. \A n \in DOMAIN v : v[n] \in T /\ \E i \in DOMAIN w : v[n] = w[i]
  BY <1>2
<1> QED
  BY <1>1, <1>3, <1>4 DEF v

(* sort: in order, and nothing that was not there.                           *)
LEMMA SortedEntriesAre ==
  ASSUME NEW w \in Seq(Entries)
  PROVE  /\ SortedEntries(w) \in Seq(Entries) /\ Sorted(SortedEntries(w))
         /\ \A n \in DOMAIN SortedEntries(w) : \E i \in DOMAIN w : SortedEntries(w)[n] = w[i]
<1> DEFINE P == {e \in ToSet(w) : e.priority = 0}
           Q == {e \in ToSet(w) : e.priority = 1}
           u == Kept(w, P)
           v == Kept(w, Q)
<1>1. /\ u \in Seq(Entries) /\ v \in Seq(Entries)
      /\ \A n \in DOMAIN u : u[n] \in P /\ \E i \in DOMAIN w : u[n] = w[i]
      /\ \A n \in DOMAIN v : v[n] \in Q /\ \E i \in DOMAIN w : v[n] = w[i]
  <2> HIDE DEF P, Q
  <2> QED
    BY KeptOfEntries
<1>2. SortedEntries(w) = u \o v
  BY DEF SortedEntries
<1>3. (\A e \in P : e.priority = 0) /\ \A e \in Q : e.priority = 1
  OBVIOUS
<1> HIDE DEF u, v, P, Q
<1> DEFINE z == u \o v
<1>4. /\ z \in Seq(Entries)
      /\ \A i \in DOMAIN u : i <= Len(u)
      /\ \A i \in DOMAIN z :
            \/ i \in DOMAIN u /\ z[i] = u[i]
            \/ i - Len(u) \in DOMAIN v /\ z[i] = v[i - Len(u)] /\ i > Len(u) /\ i \in Nat
      /\ DOMAIN u \subseteq Nat \ {0} /\ Len(u) \in Nat
  BY <1>1, ConcatAt
<1> HIDE DEF z
<1>5. ASSUME NEW i \in DOMAIN z
      PROVE  /\ \E k \in DOMAIN w : z[i] = w[k]
             /\ z[i].priority = IF i <= Len(u) THEN 0 ELSE 1
             /\ i \in Nat
  <2>1. CASE i \in DOMAIN u /\ z[i] = u[i]
    <3>1. i <= Len(u) /\ u[i] \in P /\ i \in Nat
      BY <1>1, <1>4, <2>1
    <3> QED
      BY <1>1, <1>3, <2>1, <3>1
  <2>2. CASE i - Len(u) \in DOMAIN v /\ z[i] = v[i - Len(u)] /\ i > Len(u) /\ i \in Nat
    <3>1. ~ (i <= Len(u)) /\ v[i - Len(u)] \in Q
      BY <1>1, <1>4, <2>2
    <3> QED
      BY <1>1, <1>3, <2>2, <3>1
  <2> QED
    BY <1>4, <2>1, <2>2
<1>7. ASSUME NEW i \in DOMAIN z, NEW j \in DOMAIN z, i < j
      PROVE  z[i].priority <= z[j].priority
  BY <1>4, <1>5, <1>7
<1>8. \A i \in DOMAIN z : \E k \in DOMAIN w : z[i] = w[k]
  BY <1>5
<1> QED
  BY <1>2, <1>4, <1>7, <1>8 DEF z, Sorted

(* Put adds no entry but the one it is given.                                *)
LEMMA PutGives ==
  ASSUME NEW w \in Seq(Entries), NEW e \in Entries
  PROVE  /\ Put(w, e) \in Seq(Entries)
         /\ \A n \in DOMAIN Put(w, e) : \/ Put(w, e)[n] = e
                                        \/ \E i \in DOMAIN w : Put(w, e)[n] = w[i]
<1>1. Len(w) \in Nat /\ DOMAIN w = 1 .. Len(w) /\ \A i \in DOMAIN w : w[i] \in Entries
  BY LenProperties, ElementOfSeq
<1>2. CASE \E i \in DOMAIN w : w[i].id = e.id
  <2> DEFINE v == [i \in DOMAIN w |-> IF w[i].id = e.id THEN e ELSE w[i]]
  <2>1. Put(w, e) = v
    BY <1>2 DEF Put
  <2>2. v \in [1 .. Len(w) -> Entries]
    BY <1>1
  <2>3. v \in Seq(Entries)
    BY <1>1, <2>2, SeqDef
  <2>4. \A n \in DOMAIN v : n \in DOMAIN w /\ v[n] \in {e, w[n]}
    OBVIOUS
  <2> HIDE DEF v
  <2> QED
    BY <2>1, <2>3, <2>4
<1>3. CASE ~ \E i \in DOMAIN w : w[i].id = e.id
  <2>1. Put(w, e) = Append(w, e)
    BY <1>3 DEF Put
  <2>2. /\ Append(w, e) \in Seq(Entries)
        /\ \A i : i \in DOMAIN Append(w, e) <=> i \in DOMAIN w \/ i = Len(w) + 1
        /\ \A i \in DOMAIN w : Append(w, e)[i] = w[i]
        /\ Append(w, e)[Len(w) + 1] = e
    BY AppendAt
  <2> QED
    BY <2>1, <2>2
<1> QED
  BY <1>2, <1>3

(* An entry of a list of them.                                               *)
LEMMA EntryOf ==
  ASSUME NEW w \in Seq(Entries), NEW i \in DOMAIN w
  PROVE  w[i] \in Entries /\ w[i].handler \in Handlers /\ w[i].priority \in Nat
<1>1. w[i] \in Entries
  BY LenProperties, ElementOfSeq
<1> QED
  BY <1>1 DEF Entries

(* A handler is of one kind.                                                 *)
LEMMA KindsApart ==
  ASSUME NEW h \in Handlers
  PROVE  /\ KindOf(h) \in Kinds
         /\ KindOf(h) = "register" <=> h \in Registrars
         /\ KindOf(h) = "subscribe" <=> h \in Subscribers
BY HandlersAssumption DEF Handlers, KindOf, Kinds

-----------------------------------------------------------------------------
(* HookRegistry: the invariant, action by action.                            *)

(* It holds of an empty registry.                                            *)
LEMMA HookInitially == HookInit => HookIInv
<1> SUFFICES ASSUME HookInit PROVE HookIInv
  OBVIOUS
<1>1. \A S : <<>> \in Seq(S)
  BY EmptySeq
<1>2. DOMAIN <<>> = {} /\ Len(<<>>) = 0
  OBVIOUS
<1>3. NoAction \in Actions
  BY <1>1 DEF NoAction, Action, Actions
<1>4. HookTypeOK
  BY <1>1, <1>3 DEF HookInit, HookTypeOK
<1>5. BucketsInOrder
  BY <1>2 DEF HookInit, BucketsInOrder, Sorted
<1>6. LeftInOrder /\ CalledBeforeLeft /\ DecisiveIsLast
  BY <1>2 DEF HookInit, LeftInOrder, CalledBeforeLeft, DecisiveIsLast, Sorted
<1>7. ResultIsAnswered /\ OutcomeFollows
  BY <1>2 DEF HookInit, ResultIsAnswered, OutcomeFollows, NoAction, Action, IsBlock
<1>8. MergedSoFar
  BY ReduceEmpty DEF HookInit, MergedSoFar
<1> QED
  BY <1>4, <1>5, <1>6, <1>7, <1>8 DEF HookIInv

(* The parts that a step on the registry leaves alone.                       *)
LEMMA RegistryStep ==
  ASSUME HookIInv, UNCHANGED <<fireVars, failureBehavior, outcome>>,
         bucket' \in [Kinds -> Seq(Entries)],
         idOf' \in [Handlers -> Ids \cup AutoIds \cup {NoId}], BucketsInOrder'
  PROVE  HookIInv'
<1>1. HookTypeOK'
  BY DEF HookIInv, HookTypeOK, fireVars
<1>2. LeftInOrder' /\ CalledBeforeLeft' /\ DecisiveIsLast' /\ ResultIsAnswered' /\ OutcomeFollows'
  BY DEF HookIInv, fireVars, LeftInOrder, CalledBeforeLeft, DecisiveIsLast, ResultIsAnswered,
         OutcomeFollows, Sorted, IsBlock, Decisive
<1>3. MergedSoFar'
  BY DEF HookIInv, fireVars, MergedSoFar
<1> QED
  BY <1>1, <1>2, <1>3 DEF HookIInv

(* register and subscribe.                                                   *)
LEMMA RegisterKeeps ==
  ASSUME HookIInv, NEW h \in Handlers, Register(h)
  PROVE  HookIInv'
<1> DEFINE kind == KindOf(h)
<1>1. PICK id \in Ids \cup {AutoId(kind)}, p \in 0 .. 1 :
        /\ idOf' = [idOf EXCEPT ![h] = id]
        /\ bucket' = [bucket EXCEPT ![kind] =
              SortedEntries(Put(@, [id |-> id, priority |-> p, handler |-> h]))]
        /\ UNCHANGED <<fireVars, failureBehavior, outcome>>
  <2>1. \A q \in IF kind = "register" THEN 0 .. 1 ELSE {0} : q \in 0 .. 1
    OBVIOUS
  <2> QED
    BY <2>1 DEF Register
<1>2. kind \in Kinds
  BY KindsApart
<1>3. \A k \in Kinds : bucket[k] \in Seq(Entries)
  BY DEF HookIInv, HookTypeOK
<1>4. AutoId(kind) \in AutoIds
  BY <1>2, <1>3, LenProperties DEF AutoId, AutoIds
<1> DEFINE e == [id |-> id, priority |-> p, handler |-> h]
           v == Put(bucket[kind], e)
           w == SortedEntries(v)
<1>5. e \in Entries
  BY <1>1, <1>4 DEF Entries
<1>6. /\ v \in Seq(Entries)
      /\ \A n \in DOMAIN v : v[n] = e \/ \E i \in DOMAIN bucket[kind] : v[n] = bucket[kind][i]
  BY <1>2, <1>3, <1>5, PutGives
<1>7. e.handler = h
  OBVIOUS
<1>8. \A k \in Kinds : k # kind => bucket'[k] = bucket[k]
  <2>1. \A k : k # kind => bucket'[k] = bucket[k]
    BY <1>1
  <2> QED
    BY <2>1
<1> HIDE DEF e, v
<1>9. /\ w \in Seq(Entries) /\ Sorted(w)
      /\ \A n \in DOMAIN w : \E i \in DOMAIN v : w[n] = v[i]
  BY <1>6, SortedEntriesAre
<1>10. \A n \in DOMAIN w : KindOf(w[n].handler) = kind
  BY <1>2, <1>6, <1>7, <1>9 DEF HookIInv, BucketsInOrder
<1>11. bucket' = [bucket EXCEPT ![kind] = w] /\ bucket'[kind] = w
  <2>1. bucket \in [Kinds -> Seq(Entries)]
    BY DEF HookIInv, HookTypeOK
  <2> QED
    BY <1>1, <1>2, <2>1 DEF e, v
<1> HIDE DEF w
<1>12. BucketsInOrder'
  BY <1>8, <1>9, <1>10, <1>11 DEF HookIInv, BucketsInOrder
<1>13. bucket' \in [Kinds -> Seq(Entries)]
  <2>1. bucket \in [Kinds -> Seq(Entries)]
    BY DEF HookIInv, HookTypeOK
  <2> QED
    BY <1>9, <1>11, <2>1
<1>14. idOf' \in [Handlers -> Ids \cup AutoIds \cup {NoId}]
  BY <1>1, <1>4 DEF HookIInv, HookTypeOK
<1> QED
  BY <1>1, <1>12, <1>13, <1>14, RegistryStep

(* The closure that register and subscribe return.                           *)
LEMMA UnregisterKeeps ==
  ASSUME HookIInv, NEW h \in Handlers, Unregister(h)
  PROVE  HookIInv'
<1> DEFINE kind == KindOf(h)
           T == {e \in ToSet(bucket[kind]) : e.id # idOf[h]}
           w == Kept(bucket[kind], T)
<1>1. kind \in Kinds
  BY KindsApart
<1>2. bucket \in [Kinds -> Seq(Entries)]
  BY DEF HookIInv, HookTypeOK
<1>3. /\ bucket' = [bucket EXCEPT ![kind] = w]
      /\ UNCHANGED <<idOf, fireVars, failureBehavior, outcome>>
  BY DEF Unregister
<1> HIDE DEF T
<1>4. /\ w \in Seq(Entries)
      /\ \A n \in DOMAIN w : \E i \in DOMAIN bucket[kind] : w[n] = bucket[kind][i]
      /\ Sorted(bucket[kind]) => Sorted(w)
  BY <1>1, <1>2, KeptOfEntries
<1> HIDE DEF w
<1>5. bucket'[kind] = w /\ \A k \in Kinds : k # kind => bucket'[k] = bucket[k]
  BY <1>1, <1>2, <1>3
<1>6. BucketsInOrder'
  <2>1. Sorted(w)
    BY <1>1, <1>4 DEF HookIInv, BucketsInOrder
  <2>2. \A n \in DOMAIN w : KindOf(w[n].handler) = kind
    BY <1>1, <1>4 DEF HookIInv, BucketsInOrder
  <2> QED
    BY <1>5, <2>1, <2>2 DEF HookIInv, BucketsInOrder
<1>7. bucket' \in [Kinds -> Seq(Entries)]
  BY <1>2, <1>3, <1>4
<1>8. idOf' \in [Handlers -> Ids \cup AutoIds \cup {NoId}]
  BY <1>3 DEF HookIInv, HookTypeOK
<1> QED
  BY <1>3, <1>6, <1>7, <1>8, RegistryStep

(* dispose() empties the registry.                                           *)
LEMMA ClearKeeps ==
  ASSUME HookIInv, Clear
  PROVE  HookIInv'
<1>1. /\ bucket' = [k \in Kinds |-> <<>>]
      /\ UNCHANGED <<idOf, fireVars, failureBehavior, outcome>>
  BY DEF Clear
<1>2. bucket' \in [Kinds -> Seq(Entries)]
  BY <1>1, EmptySeq
<1>3. BucketsInOrder'
  BY <1>1 DEF BucketsInOrder, Sorted
<1>4. idOf' \in [Handlers -> Ids \cup AutoIds \cup {NoId}]
  BY <1>1 DEF HookIInv, HookTypeOK
<1> QED
  BY <1>1, <1>2, <1>3, <1>4, RegistryStep

(* The copies of a fire: the subscribers first, the registered in order.     *)
LEMMA FireStartsKeeps ==
  ASSUME HookIInv, FireStarts
  PROVE  HookIInv'
<1>1. /\ phase = "idle" /\ phase' = "subscribers"
      /\ left' = bucket["subscribe"] \o bucket["register"]
      /\ UNCHANGED <<bucket, idOf, called, answers, resultAction, failureBehavior, outcome>>
  BY DEF FireStarts, registryVars
<1> DEFINE u == bucket["subscribe"]
           v == bucket["register"]
<1>2. u \in Seq(Entries) /\ v \in Seq(Entries)
  BY DEF HookIInv, HookTypeOK, Kinds
<1>3. /\ \A i \in DOMAIN u : u[i].handler \in Subscribers
      /\ \A i \in DOMAIN v : v[i].handler \in Registrars
      /\ Sorted(v)
  <2>1. /\ \A i \in DOMAIN u : KindOf(u[i].handler) = "subscribe"
        /\ \A i \in DOMAIN v : KindOf(v[i].handler) = "register"
        /\ Sorted(v)
    BY DEF HookIInv, BucketsInOrder, Kinds
  <2>2. /\ \A i \in DOMAIN u : u[i].handler \in Handlers
        /\ \A i \in DOMAIN v : v[i].handler \in Handlers
    BY <1>2, EntryOf
  <2> QED
    BY <2>1, <2>2, KindsApart
<1> HIDE DEF u, v
<1>4. /\ left' \in Seq(Entries) /\ Len(u) \in Nat /\ DOMAIN u \subseteq Nat \ {0}
      /\ DOMAIN v \subseteq Nat \ {0}
      /\ \A i \in DOMAIN u : i <= Len(u)
      /\ \A i \in DOMAIN left' :
            \/ i \in DOMAIN u /\ left'[i] = u[i]
            \/ i - Len(u) \in DOMAIN v /\ left'[i] = v[i - Len(u)] /\ i > Len(u)
               /\ i \notin DOMAIN u /\ i \in Nat
  <2>1. left' = u \o v
    BY <1>1 DEF u, v
  <2> QED
    BY <1>2, <2>1, ConcatAt
<1>5. LeftInOrder'
  <2> SUFFICES ASSUME NEW i \in DOMAIN left', NEW j \in DOMAIN left', i < j,
                      left'[i].handler \in Registrars
               PROVE  left'[j].handler \in Registrars /\ left'[i].priority <= left'[j].priority
    BY DEF LeftInOrder
  <2>1. i - Len(u) \in DOMAIN v /\ left'[i] = v[i - Len(u)] /\ i > Len(u) /\ i \in Nat
    <3>1. Subscribers \cap Registrars = {}
      BY HandlersAssumption
    <3> QED
      BY <1>3, <1>4, <3>1
  <2>2. j \notin DOMAIN u
    <3>1. j \in Nat
      BY <1>4
    <3> QED
      BY <1>4, <2>1, <3>1
  <2>3. j - Len(u) \in DOMAIN v /\ left'[j] = v[j - Len(u)] /\ j \in Nat
    BY <1>4, <2>2
  <2>4. i - Len(u) < j - Len(u)
    BY <1>4, <2>1, <2>3
  <2> QED
    BY <1>3, <2>1, <2>3, <2>4 DEF Sorted
<1>6. HookTypeOK' /\ BucketsInOrder'
  BY <1>1, <1>4 DEF HookIInv, HookTypeOK, BucketsInOrder
<1>7. called = <<>> /\ answers = <<>> /\ resultAction = NoAction
  BY <1>1 DEF HookIInv, CalledBeforeLeft
<1>8. CalledBeforeLeft' /\ DecisiveIsLast' /\ ResultIsAnswered' /\ OutcomeFollows'
  BY <1>1, <1>7 DEF HookIInv, CalledBeforeLeft, DecisiveIsLast, ResultIsAnswered, OutcomeFollows,
     Sorted, NoAction, Action, IsBlock
<1>9. MergedSoFar'
  BY <1>1 DEF HookIInv, MergedSoFar
<1> QED
  BY <1>5, <1>6, <1>8, <1>9 DEF HookIInv

(* What is left without its first entry.                                     *)
LEMMA RestOfLeft ==
  ASSUME HookIInv, left # <<>>, left' = Tail(left)
  PROVE  /\ left' \in Seq(Entries) /\ LeftInOrder'
         /\ \A i \in DOMAIN left' : \E j \in DOMAIN left : j > 1 /\ left'[i] = left[j]
         /\ Head(left) \in Entries /\ 1 \in DOMAIN left /\ Head(left) = left[1]
<1>1. left \in Seq(Entries)
  BY DEF HookIInv, HookTypeOK
<1>2. /\ left' \in Seq(Entries) /\ Head(left) \in Entries
      /\ 1 \in DOMAIN left /\ Head(left) = left[1] /\ DOMAIN left \subseteq Nat \ {0}
      /\ DOMAIN left' \subseteq Nat \ {0}
      /\ \A i \in DOMAIN left' : i + 1 \in DOMAIN left /\ left'[i] = left[i + 1]
  BY <1>1, TailAt
<1>3. LeftInOrder'
  <2> SUFFICES ASSUME NEW i \in DOMAIN left', NEW j \in DOMAIN left', i < j,
                      left'[i].handler \in Registrars
               PROVE  left'[j].handler \in Registrars /\ left'[i].priority <= left'[j].priority
    BY DEF LeftInOrder
  <2>1. i + 1 < j + 1
    BY <1>2
  <2> QED
    BY <1>2, <2>1 DEF HookIInv, LeftInOrder
<1>4. \A i \in DOMAIN left' : i + 1 > 1
  BY <1>2
<1> QED
  BY <1>2, <1>3, <1>4

(* A subscriber returns or throws.                                           *)
LEMMA SubscriberSettlesKeeps ==
  ASSUME HookIInv, SubscriberSettles
  PROVE  HookIInv'
<1>1. /\ phase = "subscribers" /\ phase' \in {"subscribers", "threw"} /\ left # <<>>
      /\ left' = Tail(left)
      /\ UNCHANGED <<bucket, idOf, called, answers, resultAction, failureBehavior, outcome>>
  BY DEF SubscriberSettles, SubscribersLeft, registryVars
<1>2. left' \in Seq(Entries) /\ LeftInOrder'
  BY <1>1, RestOfLeft
<1>3. called = <<>> /\ answers = <<>> /\ resultAction = NoAction
  BY <1>1 DEF HookIInv, CalledBeforeLeft
<1>4. HookTypeOK' /\ BucketsInOrder'
  BY <1>1, <1>2 DEF HookIInv, HookTypeOK, BucketsInOrder
<1>5. CalledBeforeLeft' /\ DecisiveIsLast' /\ ResultIsAnswered' /\ OutcomeFollows'
  BY <1>1, <1>3 DEF HookIInv, CalledBeforeLeft, DecisiveIsLast, ResultIsAnswered, OutcomeFollows,
     Sorted, NoAction, Action, IsBlock
<1>6. MergedSoFar'
  BY <1>1 DEF HookIInv, MergedSoFar
<1> QED
  BY <1>2, <1>4, <1>5, <1>6 DEF HookIInv

(* The subscribers are done, the registered handlers are left.               *)
LEMMA SubscribersDoneKeeps ==
  ASSUME HookIInv, SubscribersDone
  PROVE  HookIInv'
<1>1. /\ phase = "subscribers" /\ phase' = "registrars" /\ ~ SubscribersLeft
      /\ UNCHANGED <<bucket, idOf, left, called, answers, resultAction, failureBehavior, outcome>>
  BY DEF SubscribersDone, registryVars
<1>2. left \in Seq(Entries)
  BY DEF HookIInv, HookTypeOK
<1>3. \A i \in DOMAIN left : left[i].handler \in Registrars
  <2> SUFFICES ASSUME NEW i \in DOMAIN left PROVE left[i].handler \in Registrars
    OBVIOUS
  <2>1. left # <<>>
    OBVIOUS
  <2>2. 1 \in DOMAIN left /\ Head(left) = left[1] /\ left[1] \in Entries /\ i \in Nat \ {0}
    BY <1>2, <2>1, TailAt
  <2>3. left[1].handler \in Registrars
    BY <1>1, <2>1, <2>2 DEF SubscribersLeft, Entries, Handlers
  <2> QED
    BY <2>2, <2>3 DEF HookIInv, LeftInOrder
<1>4. called = <<>>
  BY <1>1 DEF HookIInv, CalledBeforeLeft
<1>5. HookTypeOK' /\ BucketsInOrder' /\ LeftInOrder'
  BY <1>1 DEF HookIInv, HookTypeOK, BucketsInOrder, LeftInOrder
<1>6. CalledBeforeLeft'
  BY <1>1, <1>3, <1>4 DEF CalledBeforeLeft, Sorted
<1>7. DecisiveIsLast' /\ ResultIsAnswered' /\ OutcomeFollows'
  BY <1>1 DEF HookIInv, DecisiveIsLast, ResultIsAnswered, OutcomeFollows, IsBlock
<1>8. MergedSoFar'
  BY <1>1 DEF HookIInv, MergedSoFar
<1> QED
  BY <1>5, <1>6, <1>7, <1>8 DEF HookIInv

(* The handler at the head of what is left is called: the calls so far stay  *)
(* in order, and before what is left.                                        *)
LEMMA CalledOneMore ==
  ASSUME HookIInv, phase = "registrars", left # <<>>, called' = Append(called, Head(left)),
         left' = Tail(left) \/ left' = <<>>, phase' \in {"registrars", "threw"}
  PROVE  /\ called' \in Seq(Entries) /\ left' \in Seq(Entries)
         /\ LeftInOrder' /\ CalledBeforeLeft'
<1> DEFINE e == Head(left)
           n == Len(called)
<1>1. called \in Seq(Entries) /\ left \in Seq(Entries)
  BY DEF HookIInv, HookTypeOK
<1>2. 1 \in DOMAIN left /\ e = left[1] /\ e \in Entries /\ DOMAIN left \subseteq Nat \ {0}
  BY <1>1, TailAt
<1>3. /\ left' \in Seq(Entries) /\ LeftInOrder'
      /\ \A i \in DOMAIN left' : \E j \in DOMAIN left : j > 1 /\ left'[i] = left[j]
  <2>1. CASE left' = Tail(left)
    BY <2>1, RestOfLeft
  <2>2. CASE left' = <<>>
    BY <2>2, EmptySeq DEF LeftInOrder
  <2> QED
    BY <2>1, <2>2
<1>4. /\ called' \in Seq(Entries) /\ n \in Nat /\ DOMAIN called \subseteq Nat \ {0}
      /\ \A i : i \in DOMAIN called' <=> i \in DOMAIN called \/ i = n + 1
      /\ \A i \in DOMAIN called : called'[i] = called[i] /\ i < n + 1
      /\ called'[n + 1] = e
  BY <1>1, <1>2, AppendAt
<1> HIDE DEF n, e
<1>5. /\ \A i \in DOMAIN left : left[i].handler \in Registrars
      /\ \A i \in DOMAIN called, j \in DOMAIN left : called[i].priority <= left[j].priority
      /\ \A i, j \in DOMAIN called : i < j => called[i].priority <= called[j].priority
  BY DEF HookIInv, CalledBeforeLeft, Sorted
<1>6. \A j \in DOMAIN left : j > 1 => e.priority <= left[j].priority
  BY <1>2, <1>5 DEF HookIInv, LeftInOrder
<1>7. Sorted(called')
  <2> SUFFICES ASSUME NEW i \in DOMAIN called', NEW j \in DOMAIN called', i < j
               PROVE  called'[i].priority <= called'[j].priority
    BY DEF Sorted
  <2>1. i \in DOMAIN called
    BY <1>4
  <2>2. CASE j \in DOMAIN called
    BY <1>4, <1>5, <2>1, <2>2
  <2>3. CASE j = n + 1
    BY <1>2, <1>4, <1>5, <2>1, <2>3
  <2> QED
    BY <1>4, <2>2, <2>3
<1>8. \A i \in DOMAIN left' : left'[i].handler \in Registrars
  BY <1>3, <1>5
<1>9. ASSUME NEW i \in DOMAIN called', NEW j \in DOMAIN left'
      PROVE  called'[i].priority <= left'[j].priority
  <2>1. PICK k \in DOMAIN left : k > 1 /\ left'[j] = left[k]
    BY <1>3
  <2>2. CASE i \in DOMAIN called
    BY <1>4, <1>5, <2>1, <2>2
  <2>3. CASE i = n + 1
    BY <1>4, <1>6, <2>1, <2>3
  <2> QED
    BY <1>4, <2>2, <2>3
<1> QED
  BY <1>3, <1>4, <1>7, <1>8, <1>9 DEF CalledBeforeLeft

(* A handler throws, or its time is out.                                     *)
LEMMA HandlerFailsKeeps ==
  ASSUME HookIInv, HandlerFails
  PROVE  HookIInv'
<1>1. /\ phase = "registrars" /\ left # <<>> /\ left' = Tail(left)
      /\ called' = Append(called, Head(left)) /\ phase' \in {"registrars", "threw"}
      /\ UNCHANGED <<bucket, idOf, answers, resultAction, failureBehavior, outcome>>
  BY DEF HandlerFails, registryVars
<1>2. called' \in Seq(Entries) /\ left' \in Seq(Entries) /\ LeftInOrder' /\ CalledBeforeLeft'
  BY <1>1, CalledOneMore
<1>3. HookTypeOK' /\ BucketsInOrder'
  BY <1>1, <1>2 DEF HookIInv, HookTypeOK, BucketsInOrder
<1>4. \A i \in DOMAIN answers : ~ Decisive(answers[i])
  BY <1>1 DEF HookIInv, DecisiveIsLast
<1>5. resultAction.type # "deny" /\ outcome = "pending"
  BY <1>1 DEF HookIInv, ResultIsAnswered, OutcomeFollows
<1>6. DecisiveIsLast'
  BY <1>1, <1>4 DEF DecisiveIsLast, Decisive
<1>7. ResultIsAnswered' /\ OutcomeFollows'
  BY <1>1, <1>5 DEF HookIInv, ResultIsAnswered, OutcomeFollows, IsBlock
<1>8. MergedSoFar'
  BY <1>1 DEF HookIInv, MergedSoFar
<1> QED
  BY <1>2, <1>3, <1>6, <1>7, <1>8 DEF HookIInv

(* An answer, in any of its forms.                                           *)
LEMMA AnswerForm ==
  ASSUME NEW a \in Answers
  PROVE  /\ a \in Actions
         /\ a.type \in {"continue", "guard", "finding", "mutate", "deny"}
         /\ a.type \in {"continue", "guard"} => a \in GuardAnswers
<1>1. PICK h \in Handlers : a \in ActionsOf(h)
  BY DEF Answers
<1>2. <<>> \in Seq(Handlers) /\ <<h>> \in Seq(Handlers)
  OBVIOUS
<1>3. CASE a \in [type : {"guard"}, kind : {"block", "degrade", "annotate"}, by : {<<h>>}]
  <2>1. /\ a = [type |-> a.type, kind |-> a.kind, by |-> a.by] /\ a.type = "guard"
        /\ a.kind \in {"annotate", "degrade", "block"} /\ a.by = <<h>>
    BY <1>3
  <2> QED
    BY <1>2, <2>1 DEF Actions, GuardAnswers
<1>4. CASE a \notin [type : {"guard"}, kind : {"block", "degrade", "annotate"}, by : {<<h>>}]
  <2>1. /\ a = [type |-> a.type, kind |-> a.kind, by |-> a.by] /\ a.by \in {<<>>, <<h>>}
        /\ a.type \in {"continue", "guard", "finding", "mutate", "deny"}
        /\ a.kind \in {"none", "pass", "annotate"}
    BY <1>1, <1>4 DEF ActionsOf, Action
  <2> QED
    BY <1>2, <2>1 DEF Actions, GuardAnswers
<1> QED
  BY <1>3, <1>4

(* The merge: what comes out is one of the two, or a pass, an annotation or  *)
(* a finding; it blocks if either blocks and the answer is a guard's.        *)
LEMMA FoldForm ==
  ASSUME NEW r \in Actions, NEW a \in Answers
  PROVE  /\ Fold(r, a) \in Actions
         /\ a.type = "deny" => Fold(r, a).type = "deny"
         /\ Fold(r, a).type = "deny" => a.type = "deny" \/ r.type = "deny"
         /\ IsBlock(Fold(r, a)) => IsBlock(r) \/ IsBlock(a)
         /\ IsBlock(r) => IsBlock(Fold(r, a)) \/ a.type \in {"finding", "mutate", "deny"}
         /\ IsBlock(a) => IsBlock(Fold(r, a))
<1>1. a \in Actions /\ a.type \in {"continue", "guard", "finding", "mutate", "deny"}
  BY AnswerForm
<1>2. r.by \in Seq(Handlers) /\ a.by \in Seq(Handlers) /\ r.by \o a.by \in Seq(Handlers)
  BY <1>1, ConcatProperties DEF Actions
<1>3. CASE a.type = "guard"
  <2>1. Fold(r, a) = MergeGuard(r, a)
    BY <1>3 DEF Fold
  <2>2. \/ MergeGuard(r, a) = r /\ (~ IsBlock(a) \/ IsBlock(r))
        \/ MergeGuard(r, a) = a /\ ~ IsBlock(r)
        \/ /\ MergeGuard(r, a) = Action("guard", IF r.by \o a.by = <<>> THEN "pass" ELSE "annotate", r.by \o a.by)
           /\ ~ IsBlock(r) /\ ~ IsBlock(a)
    BY <1>3 DEF MergeGuard, IsBlock
  <2>3. CASE MergeGuard(r, a) = r /\ (~ IsBlock(a) \/ IsBlock(r))
    BY <1>1, <1>3, <2>1, <2>3 DEF IsBlock
  <2>4. CASE MergeGuard(r, a) = a /\ ~ IsBlock(r)
    BY <1>1, <1>3, <2>1, <2>4
  <2>5. CASE /\ MergeGuard(r, a) = Action("guard", IF r.by \o a.by = <<>> THEN "pass" ELSE "annotate", r.by \o a.by)
             /\ ~ IsBlock(r) /\ ~ IsBlock(a)
    <3> DEFINE k == IF r.by \o a.by = <<>> THEN "pass" ELSE "annotate"
               d == [type |-> "guard", kind |-> k, by |-> r.by \o a.by]
    <3>1. Fold(r, a) = d
      BY <2>1, <2>5 DEF Action
    <3>2. k \in {"pass", "annotate"}
      OBVIOUS
    <3> HIDE DEF k
    <3>3. d \in Actions /\ d.type = "guard" /\ d.kind # "block"
      BY <1>2, <3>2 DEF Actions
    <3> QED
      BY <1>3, <2>5, <3>1, <3>3 DEF IsBlock
  <2> QED
    BY <2>2, <2>3, <2>4, <2>5
<1>4. CASE a.type = "finding"
  <2>1. Fold(r, a) = a \/ Fold(r, a) = Action("finding", "none", r.by \o a.by)
    BY <1>4 DEF Fold, MergeFinding
  <2>2. /\ Action("finding", "none", r.by \o a.by) \in Actions
        /\ Action("finding", "none", r.by \o a.by).type = "finding"
    BY <1>2 DEF Actions, Action
  <2>3. Fold(r, a) \in Actions /\ Fold(r, a).type = "finding"
    BY <1>1, <1>4, <2>1, <2>2
  <2> QED
    BY <1>4, <2>3 DEF IsBlock
<1>5. CASE a.type = "continue"
  <2>1. Fold(r, a) = r
    BY <1>5 DEF Fold
  <2> QED
    BY <1>5, <2>1 DEF IsBlock
<1>6. CASE a.type \in {"mutate", "deny"}
  <2>1. Fold(r, a) = a
    BY <1>6 DEF Fold
  <2> QED
    BY <1>1, <1>6, <2>1 DEF IsBlock
<1> QED
  BY <1>1, <1>3, <1>4, <1>5, <1>6

(* A list of answers that are all guards' or none.                           *)
LEMMA GuardsOnly ==
  ASSUME NEW w \in Seq(Answers), \A i \in DOMAIN w : w[i].type \in {"guard", "continue"}
  PROVE  w \in Seq(GuardAnswers)
<1>1. Len(w) \in Nat /\ DOMAIN w = 1 .. Len(w) /\ w \in [1 .. Len(w) -> Answers]
  BY LenProperties
<1>2. \A i \in 1 .. Len(w) : w[i] \in GuardAnswers
  BY <1>1 DEF GuardAnswers
<1>3. w \in [1 .. Len(w) -> GuardAnswers]
  BY <1>1, <1>2
<1> QED
  BY <1>1, <1>3, SeqDef

(* A handler answers, and its answer is merged.                              *)
LEMMA HandlerAnswersKeeps ==
  ASSUME HookIInv, HandlerAnswers
  PROVE  HookIInv'
<1>1. answers \in Seq(Answers) /\ left \in Seq(Entries) /\ resultAction \in Actions
  BY DEF HookIInv, HookTypeOK
<1>2. /\ phase = "registrars" /\ phase' = phase /\ left # <<>>
      /\ called' = Append(called, Head(left))
      /\ UNCHANGED <<bucket, idOf, failureBehavior, outcome>>
  BY DEF HandlerAnswers, registryVars
<1>3. PICK a \in Answers : /\ answers' = Append(answers, a)
                           /\ resultAction' = Fold(resultAction, a)
                           /\ left' = IF Decisive(a) THEN <<>> ELSE Tail(left)
  <2>1. Head(left) \in Entries
    BY <1>1, <1>2, TailAt
  <2>2. Head(left).handler \in Handlers
    BY <2>1 DEF Entries
  <2> QED
    BY <2>2 DEF HandlerAnswers, Answers
<1>4. called' \in Seq(Entries) /\ left' \in Seq(Entries) /\ LeftInOrder' /\ CalledBeforeLeft'
  BY <1>2, <1>3, CalledOneMore
<1> DEFINE n == Len(answers)
<1>5. /\ answers' \in Seq(Answers) /\ n \in Nat /\ Len(answers') = n + 1
      /\ \A i : i \in DOMAIN answers' <=> i \in DOMAIN answers \/ i = n + 1
      /\ \A i \in DOMAIN answers : answers'[i] = answers[i] /\ i < n + 1
      /\ answers'[n + 1] = a
  BY <1>1, <1>3, AppendAt
<1> HIDE DEF n
<1>6. /\ resultAction' \in Actions
      /\ a.type = "deny" => resultAction'.type = "deny"
      /\ resultAction'.type = "deny" => a.type = "deny" \/ resultAction.type = "deny"
      /\ IsBlock(resultAction') => IsBlock(resultAction) \/ IsBlock(a)
      /\ IsBlock(resultAction) =>
            IsBlock(resultAction') \/ a.type \in {"finding", "mutate", "deny"}
      /\ IsBlock(a) => IsBlock(resultAction')
  BY <1>1, <1>3, FoldForm
<1>7. HookTypeOK' /\ BucketsInOrder'
  BY <1>2, <1>4, <1>5, <1>6 DEF HookIInv, HookTypeOK, BucketsInOrder
<1>8. resultAction.type # "deny" /\ outcome = "pending"
  BY <1>2 DEF HookIInv, ResultIsAnswered, OutcomeFollows
<1>9. \A i \in DOMAIN answers : ~ Decisive(answers[i])
  BY <1>2 DEF HookIInv, DecisiveIsLast
<1>10. DecisiveIsLast'
  <2> SUFFICES ASSUME NEW i \in DOMAIN answers', Decisive(answers'[i])
               PROVE  i = Len(answers') /\ left' = <<>>
    BY DEF DecisiveIsLast, Decisive
  <2>1. i = n + 1
    BY <1>5, <1>9
  <2> QED
    BY <1>3, <1>5, <2>1
<1>11. ResultIsAnswered'
  <2>1. resultAction'.type = "deny" =>
          left' = <<>> /\ \E i \in DOMAIN answers' : answers'[i].type = "deny"
    <3> SUFFICES ASSUME resultAction'.type = "deny"
                 PROVE  left' = <<>> /\ \E i \in DOMAIN answers' : answers'[i].type = "deny"
      OBVIOUS
    <3>1. a.type = "deny"
      BY <1>6, <1>8
    <3>2. left' = <<>>
      BY <1>3, <3>1 DEF Decisive
    <3> QED
      BY <1>5, <3>1, <3>2
  <2>2. IsBlock(resultAction') => \E i \in DOMAIN answers' : IsBlock(answers'[i])
    <3> SUFFICES ASSUME IsBlock(resultAction')
                 PROVE  \E i \in DOMAIN answers' : IsBlock(answers'[i])
      OBVIOUS
    <3>1. CASE IsBlock(a)
      BY <1>5, <3>1
    <3>2. CASE IsBlock(resultAction)
      <4>1. PICK i \in DOMAIN answers : IsBlock(answers[i])
        BY <3>2 DEF HookIInv, ResultIsAnswered
      <4>2. i \in DOMAIN answers' /\ answers'[i] = answers[i]
        BY <1>5
      <4> QED
        BY <4>1, <4>2
    <3> QED
      BY <1>6, <3>1, <3>2
  <2>3. ASSUME NEW i \in DOMAIN answers', IsBlock(answers'[i])
        PROVE  \/ IsBlock(resultAction') \/ resultAction'.type = "deny"
               \/ \E j \in DOMAIN answers' : j > i /\ answers'[j].type \in {"finding", "mutate"}
    <3>1. CASE i = n + 1
      BY <1>5, <1>6, <2>3, <3>1
    <3>2. CASE i \in DOMAIN answers
      <4>1. answers'[i] = answers[i] /\ n + 1 > i /\ IsBlock(answers[i])
        <5>1. i < n + 1
          BY <1>5, <3>2
        <5>2. i \in Nat
          BY <1>1, <3>2, LenProperties
        <5> QED
          BY <1>5, <2>3, <3>2, <5>1, <5>2
      <4>2. \/ IsBlock(resultAction)
            \/ \E j \in DOMAIN answers : j > i /\ answers[j].type \in {"finding", "mutate"}
        BY <1>8, <3>2, <4>1 DEF HookIInv, ResultIsAnswered
      <4>3. CASE IsBlock(resultAction)
        <5>1. CASE a.type \in {"finding", "mutate"}
          <6>1. n + 1 \in DOMAIN answers' /\ answers'[n + 1].type \in {"finding", "mutate"}
            BY <1>5, <5>1
          <6> QED
            BY <4>1, <6>1
        <5>2. CASE a.type \notin {"finding", "mutate"}
          BY <1>6, <4>3, <5>2
        <5> QED
          BY <5>1, <5>2
      <4>4. CASE \E j \in DOMAIN answers : j > i /\ answers[j].type \in {"finding", "mutate"}
        <5>1. PICK j \in DOMAIN answers : j > i /\ answers[j].type \in {"finding", "mutate"}
          BY <4>4
        <5>2. j \in DOMAIN answers' /\ answers'[j] = answers[j]
          BY <1>5
        <5> QED
          BY <5>1, <5>2
      <4> QED
        BY <4>2, <4>3, <4>4
    <3> QED
      BY <1>5, <3>1, <3>2
  <2> QED
    BY <2>1, <2>2, <2>3 DEF ResultIsAnswered, IsBlock
<1>12. MergedSoFar'
  <2> SUFFICES ASSUME \A i \in DOMAIN answers' : answers'[i].type \in {"guard", "continue"}
               PROVE  SameDecision(Fold(resultAction, a), Reduce(Append(answers, a)))
    BY <1>3 DEF MergedSoFar
  <2>1. \A i \in DOMAIN answers : answers[i].type \in {"guard", "continue"}
    BY <1>5
  <2>2. a \in GuardAnswers
    <3>1. a.type \in {"guard", "continue"}
      BY <1>5
    <3> QED
      BY <3>1, AnswerForm
  <2>3. answers \in Seq(GuardAnswers)
    BY <1>1, <2>1, GuardsOnly
  <2>4. SameDecision(resultAction, Reduce(answers))
    BY <2>1 DEF HookIInv, MergedSoFar
  <2> QED
    BY <2>2, <2>3, <2>4, MergeGoesOn
<1>13. OutcomeFollows'
  BY <1>2, <1>8 DEF OutcomeFollows
<1> QED
  BY <1>4, <1>7, <1>10, <1>11, <1>12, <1>13 DEF HookIInv

(* All are called, and the fire returns what it has merged.                  *)
LEMMA FireEndsKeeps ==
  ASSUME HookIInv, FireEnds
  PROVE  HookIInv'
<1>1. /\ phase = "registrars" /\ phase' = "ended"
      /\ UNCHANGED <<bucket, idOf, left, called, answers, resultAction, failureBehavior, outcome>>
  BY DEF FireEnds, registryVars
<1>2. HookTypeOK' /\ BucketsInOrder' /\ LeftInOrder'
  BY <1>1 DEF HookIInv, HookTypeOK, BucketsInOrder, LeftInOrder
<1>3. CalledBeforeLeft' /\ DecisiveIsLast' /\ ResultIsAnswered' /\ OutcomeFollows'
  BY <1>1 DEF HookIInv, CalledBeforeLeft, DecisiveIsLast, ResultIsAnswered, OutcomeFollows,
     Sorted, IsBlock, Decisive
<1>4. MergedSoFar'
  BY <1>1 DEF HookIInv, MergedSoFar
<1> QED
  BY <1>2, <1>3, <1>4 DEF HookIInv

(* The engine makes a refusal or a delivery of what the fire gave.           *)
LEMMA TurnStopsKeeps ==
  ASSUME HookIInv, TurnStops
  PROVE  HookIInv'
<1>1. /\ phase \in {"ended", "threw"} /\ outcome' \in {"refused", "delivered"}
      /\ outcome' = "refused" => phase = "threw" \/ resultAction.type = "deny" \/ IsBlock(resultAction)
      /\ outcome' = "delivered" => resultAction.type # "deny" /\ ~ IsBlock(resultAction)
      /\ UNCHANGED <<bucket, idOf, phase, left, called, answers, resultAction, failureBehavior>>
  BY DEF TurnStops, registryVars, fireVars, IsBlock
<1>2. HookTypeOK' /\ BucketsInOrder' /\ LeftInOrder'
  BY <1>1 DEF HookIInv, HookTypeOK, BucketsInOrder, LeftInOrder
<1>3. CalledBeforeLeft' /\ DecisiveIsLast' /\ ResultIsAnswered'
  BY <1>1 DEF HookIInv, CalledBeforeLeft, DecisiveIsLast, ResultIsAnswered, Sorted, IsBlock, Decisive
<1>4. OutcomeFollows'
  BY <1>1 DEF OutcomeFollows, IsBlock
<1>5. MergedSoFar'
  BY <1>1 DEF HookIInv, MergedSoFar
<1> QED
  BY <1>2, <1>3, <1>4, <1>5 DEF HookIInv

(* The inductive invariant of the registry and its fire.                     *)
THEOREM HooksInvariant == HookSpec => []HookIInv
<1>1. HookInit => HookIInv
  BY HookInitially
<1>2. HookIInv /\ [HookNext]_hookVars => HookIInv'
  <2> SUFFICES ASSUME HookIInv, [HookNext]_hookVars PROVE HookIInv'
    OBVIOUS
  <2>1. CASE Fire
    <3>1. CASE FireStarts
      BY <3>1, FireStartsKeeps
    <3>2. CASE SubscribersDone
      BY <3>2, SubscribersDoneKeeps
    <3>3. CASE FireEnds
      BY <3>3, FireEndsKeeps
    <3>4. CASE TurnStops
      BY <3>4, TurnStopsKeeps
    <3>5. CASE SubscriberSettles
      BY <3>5, SubscriberSettlesKeeps
    <3>6. CASE HandlerFails
      BY <3>6, HandlerFailsKeeps
    <3> QED
      BY <2>1, <3>1, <3>2, <3>3, <3>4, <3>5, <3>6 DEF Fire
  <2>2. CASE HandlerAnswers
    BY <2>2, HandlerAnswersKeeps
  <2>3. ASSUME NEW h \in Handlers, Register(h) \/ Unregister(h) PROVE HookIInv'
    BY <2>3, RegisterKeeps, UnregisterKeeps
  <2>4. CASE Clear
    BY <2>4, ClearKeeps
  <2>5. CASE UNCHANGED hookVars
    <3>1. UNCHANGED <<fireVars, failureBehavior, outcome, bucket, idOf>>
      BY <2>5 DEF hookVars, registryVars
    <3>2. bucket' \in [Kinds -> Seq(Entries)] /\ idOf' \in [Handlers -> Ids \cup AutoIds \cup {NoId}]
      BY <3>1 DEF HookIInv, HookTypeOK
    <3>3. BucketsInOrder'
      BY <3>1 DEF HookIInv, BucketsInOrder
    <3> QED
      BY <3>1, <3>2, <3>3, RegistryStep
  <2> QED
    BY <2>1, <2>2, <2>3, <2>4, <2>5 DEF HookNext
<1> QED
  BY <1>1, <1>2, PTL DEF HookSpec

(* The handlers of every fire are called in order, none after a decisive     *)
(* answer; where they only guard, the merge is reduceGuardDecisions'; and a  *)
(* refusal is accounted for.                                                 *)
THEOREM GuardsAreSound == HookSpec => []GuardsSound
<1>1. HookIInv => GuardsSound
  <2> SUFFICES ASSUME HookIInv PROVE GuardsSound
    OBVIOUS
  <2>1. CalledInOrder
    BY DEF HookIInv, CalledBeforeLeft, DecisiveIsLast, Sorted, CalledInOrder
  <2>2. MergeAgreesWithReduce
    <3> SUFFICES ASSUME \A i \in DOMAIN answers : answers[i].type \in {"guard", "continue"},
                        NEW a \in GuardAnswers, NEW b \in GuardAnswers
                 PROVE  SameDecision(Fold(Fold(resultAction, a), b),
                                     Reduce(Append(Append(answers, a), b)))
      BY DEF MergeAgreesWithReduce
    <3>1. SameDecision(resultAction, Reduce(answers))
      BY DEF HookIInv, MergedSoFar
    <3>2. answers \in Seq(GuardAnswers)
      BY GuardsOnly DEF HookIInv, HookTypeOK
    <3>3. SameDecision(Fold(resultAction, a), Reduce(Append(answers, a)))
      BY <3>1, <3>2, MergeGoesOn
    <3>4. Append(answers, a) \in Seq(GuardAnswers)
      BY <3>2, AppendProperties
    <3> QED
      BY <3>3, <3>4, MergeGoesOn
  <2>3. RefusalIsAccounted
    BY DEF HookIInv, ResultIsAnswered, OutcomeFollows, RefusalIsAccounted
  <2> QED
    BY <2>1, <2>2, <2>3 DEF GuardsSound
<1> QED
  BY <1>1, HooksInvariant, PTL

(* Every reachable state of the registry and its fire has its types.       *)
THEOREM HooksTypes == HookSpec => []HookTypeOK
<1>1. HookIInv => HookTypeOK
  BY DEF HookIInv
<1> QED
  BY <1>1, HooksInvariant, PTL

-----------------------------------------------------------------------------
(* The first of what is left that is in a part of the set.                   *)
LEMMA KeptFirst ==
  ASSUME NEW S, NEW w \in Seq(S), NEW T, NEW R, R \subseteq T, R \cap ToSet(w) # {}
  PROVE  FirstOf(Kept(w, T), R) = FirstOf(w, R)
<1> DEFINE v == Kept(w, T)
<1>1. v \in Seq(S) /\ DOMAIN v = 1 .. Len(v)
  BY KeptProperties
<1>2. PICK g \in [DOMAIN v -> DOMAIN w] :
        /\ \A n \in DOMAIN v : v[n] = w[g[n]] /\ w[g[n]] \in T
        /\ \A m, n \in DOMAIN v : m < n => g[m] < g[n]
        /\ \A i \in DOMAIN w : w[i] \in T => \E n \in DOMAIN v : g[n] = i
  BY KeptProperties
<1> HIDE DEF v
<1>3. \E i \in DOMAIN w : w[i] \in R
  BY DEF ToSet
<1>4. PICK i \in DOMAIN w : /\ w[i] \in R /\ FirstOf(w, R) = w[i]
                            /\ \A j \in DOMAIN w : w[j] \in R => i <= j
  BY <1>3, FirstOfProperties
<1>5. PICK n \in DOMAIN v : g[n] = i
  BY <1>2, <1>4
<1>6. v[n] = w[i] /\ v[n] \in R
  BY <1>2, <1>4, <1>5
<1>7. ASSUME NEW m \in DOMAIN v, m < n PROVE v[m] \notin R
  <2>1. g[m] < i /\ g[m] \in DOMAIN w /\ v[m] = w[g[m]]
    BY <1>2, <1>5, <1>7
  <2>2. DOMAIN w = 1 .. Len(w) /\ Len(w) \in Nat
    BY LenProperties
  <2>3. ~ (i <= g[m])
    <3>1. g[m] \in 1 .. Len(w) /\ i \in 1 .. Len(w)
      BY <1>4, <2>1, <2>2
    <3> QED
      BY <2>1, <3>1
  <2> QED
    BY <1>4, <2>1, <2>3
<1>8. FirstOf(v, R) = v[n]
  BY <1>1, <1>6, <1>7, FirstOfIs
<1> QED
  BY <1>4, <1>6, <1>8 DEF v

-----------------------------------------------------------------------------
(* TurnValidation: the outcome and the findings.                             *)

(* A finding of a list of them.                                              *)
LEMMA FindingOf ==
  ASSUME NEW l \in Seq(Findings), NEW i \in DOMAIN l
  PROVE  l[i] \in Findings /\ l[i].severity \in {"info", "warning", "error", "fatal"}
<1>1. l[i] \in Findings
  BY LenProperties, ElementOfSeq
<1> QED
  BY <1>1 DEF Findings

(* What reduceOutcome says.                                                  *)
LEMMA OutcomeOf ==
  ASSUME NEW l \in Seq(Findings)
  PROVE  /\ ReduceOutcome(l) \in {"pass", "degrade", "handoff", "retry-turn", "tool-loop-finalize"}
         /\ ReduceOutcome(l) = "pass" <=> \A i \in DOMAIN l : l[i].severity \in {"info", "warning"}
<1> DEFINE F == {f \in ToSet(l) : Fatal(f)}
           R == {f \in ToSet(l) : Retryable(f)}
           E == {f \in ToSet(l) : Error(f)}
           first == FirstOf(l, R)
<1>1. ReduceOutcome(l) =
        CASE F # {} -> "handoff"
          [] F = {} /\ R # {} -> IF first.code = "tool_use_partial" THEN "tool-loop-finalize" ELSE "retry-turn"
          [] F = {} /\ R = {} /\ E # {} -> "degrade"
          [] OTHER -> "pass"
  BY DEF ReduceOutcome
<1>2. R \subseteq E
  BY DEF Retryable, Error
<1>3. F = {} /\ E = {} <=> \A i \in DOMAIN l : l[i].severity \in {"info", "warning"}
  <2>1. \A i \in DOMAIN l : l[i].severity \in {"info", "warning", "error", "fatal"}
    BY FindingOf
  <2> QED
    BY <2>1 DEF ToSet, Fatal, Error
<1> HIDE DEF F, R, E, first
<1> QED
  BY <1>1, <1>2, <1>3

(* It is what it would be of the findings that count.                        *)
LEMMA OutcomeOfAnswered ==
  ASSUME NEW l \in Seq(Findings)
  PROVE  /\ Answered(l) \in Seq(Findings)
         /\ ReduceOutcome(Answered(l)) = ReduceOutcome(l)
         /\ Answered(l) = <<>> <=> \A i \in DOMAIN l : l[i].severity \in {"info", "warning"}
<1> DEFINE T == {f \in ToSet(l) : f.severity \notin {"info", "warning"}}
           v == Kept(l, T)
           F(w) == {f \in ToSet(w) : Fatal(f)}
           R(w) == {f \in ToSet(w) : Retryable(f)}
           E(w) == {f \in ToSet(w) : Error(f)}
<1>1. Answered(l) = v
  BY DEF Answered
<1>2. T \subseteq ToSet(l) /\ \A f \in ToSet(l) : f \in T <=> f.severity \notin {"info", "warning"}
  OBVIOUS
<1>3. ToSet(v) = T /\ v \in Seq(Findings)
  <2> HIDE DEF T
  <2>1. ToSet(v) = ToSet(l) \cap T
    BY KeptElements
  <2>2. v \in Seq(Findings)
    BY KeptProperties
  <2> QED
    BY <1>2, <2>1, <2>2
<1>4. F(v) = F(l) /\ R(v) = R(l) /\ E(v) = E(l) /\ R(l) \subseteq T /\ R(l) \cap ToSet(l) = R(l)
  <2> HIDE DEF T, v
  <2> QED
    BY <1>2, <1>3 DEF Fatal, Retryable, Error
<1> HIDE DEF T
<1>5. R(l) # {} => FirstOf(v, R(v)) = FirstOf(l, R(l))
  <2> HIDE DEF R
  <2>1. R(l) # {} => FirstOf(v, R(l)) = FirstOf(l, R(l))
    BY <1>4, KeptFirst
  <2> QED
    BY <1>4, <2>1
<1> HIDE DEF v
<1>6. ReduceOutcome(v) = ReduceOutcome(l)
  <2>1. ReduceOutcome(v) =
          CASE F(v) # {} -> "handoff"
            [] F(v) = {} /\ R(v) # {} -> IF FirstOf(v, R(v)).code = "tool_use_partial"
                                          THEN "tool-loop-finalize" ELSE "retry-turn"
            [] F(v) = {} /\ R(v) = {} /\ E(v) # {} -> "degrade"
            [] OTHER -> "pass"
    BY DEF ReduceOutcome
  <2>2. ReduceOutcome(l) =
          CASE F(l) # {} -> "handoff"
            [] F(l) = {} /\ R(l) # {} -> IF FirstOf(l, R(l)).code = "tool_use_partial"
                                          THEN "tool-loop-finalize" ELSE "retry-turn"
            [] F(l) = {} /\ R(l) = {} /\ E(l) # {} -> "degrade"
            [] OTHER -> "pass"
    BY DEF ReduceOutcome
  <2> HIDE DEF F, R, E
  <2>3. CASE R(l) # {}
    BY <1>4, <1>5, <2>1, <2>2, <2>3
  <2>4. CASE R(l) = {}
    BY <1>4, <2>1, <2>2, <2>4
  <2> QED
    BY <2>3, <2>4
<1>7. v = <<>> <=> T = {}
  <2>1. Len(v) \in Nat /\ DOMAIN v = 1 .. Len(v) /\ (v # <<>> => Len(v) \in Nat \ {0})
    BY <1>3, LenProperties, EmptySeq
  <2>2. v # <<>> => v[1] \in ToSet(v)
    BY <2>1 DEF ToSet
  <2>3. v = <<>> => ToSet(v) = {}
    BY DEF ToSet
  <2> QED
    BY <1>3, <2>2, <2>3
<1>8. T = {} <=> \A i \in DOMAIN l : l[i].severity \in {"info", "warning"}
  BY <1>2 DEF ToSet
<1> QED
  BY <1>1, <1>3, <1>6, <1>7, <1>8

(* What the engine claims it has the evidence of.                            *)
LEMMA ClaimsAreSupported ==
  ASSUME NEW l, NEW c \in Claims(l)
  PROVE  Supported(c, l)
<1>1. PICK e \in Evidence(l) : c.source = e.source
  BY DEF Claims
<1> QED
  BY <1>1 DEF Supported

(* An error that a rule or a handler finds.                                  *)
LEMMA ErrorIsFinding ==
  ASSUME NEW code \in Codes, NEW r \in BOOLEAN
  PROVE  Finding(code, "error", r) \in Findings /\ Error(Finding(code, "error", r))
<1>1. Finding(code, "error", r) \in Findings
  BY DEF Finding, Findings
<1>2. Finding(code, "error", r).severity = "error"
  BY DEF Finding
<1> QED
  BY <1>1, <1>2 DEF Error

(* The three rules: what failed, or ended early, is an error.                *)
LEMMA RulesSay ==
  ASSUME NEW l \in Remains
  PROVE  /\ Rules(l) \in Seq(Findings)
         /\ "failed" \in ToSet(l.steps) \/ l.result = "partial" =>
               \E i \in DOMAIN Rules(l) : Error(Rules(l)[i])
<1> DEFINE x == Finding("execution_failed", "error", l.retryable)
           y == Finding("tool_use_partial", "error", l.retryable)
           z == Finding("evidence_required_missing", "error", FALSE)
           u == When("failed" \in ToSet(l.steps), x)
           v == When(l.result = "partial", y)
           w == When(\E c \in Claims(l) : ~ Supported(c, l), z)
<1>1. l.retryable \in BOOLEAN
  BY DEF Remains, LoopsLeft, BatchesLeft
<1>2. x \in Findings /\ y \in Findings /\ z \in Findings /\ Error(x) /\ Error(y)
  <2>1. x \in Findings /\ Error(x)
    BY <1>1, ErrorIsFinding DEF Codes
  <2>2. y \in Findings /\ Error(y)
    BY <1>1, ErrorIsFinding DEF Codes
  <2>3. z \in Findings
    BY ErrorIsFinding DEF Codes
  <2> QED
    BY <2>1, <2>2, <2>3
<1> HIDE DEF x, y, z
<1>3. u \in Seq(Findings) /\ v \in Seq(Findings) /\ w \in Seq(Findings)
  BY <1>2 DEF When
<1>4. "failed" \in ToSet(l.steps) => 1 \in DOMAIN u /\ u[1] = x
  BY DEF When
<1>5. l.result = "partial" => 1 \in DOMAIN v /\ v[1] = y
  BY DEF When
<1>6. Rules(l) = (u \o v) \o w
  BY DEF Rules, x, y, z
<1> HIDE DEF u, v, w
<1>7. /\ u \o v \in Seq(Findings)
      /\ \A i \in DOMAIN u : i \in DOMAIN (u \o v) /\ (u \o v)[i] = u[i]
      /\ \A i \in DOMAIN v : Len(u) + i \in DOMAIN (u \o v) /\ (u \o v)[Len(u) + i] = v[i]
  BY <1>3, ConcatAt
<1>8. /\ (u \o v) \o w \in Seq(Findings)
      /\ \A i \in DOMAIN (u \o v) : i \in DOMAIN ((u \o v) \o w) /\ ((u \o v) \o w)[i] = (u \o v)[i]
  BY <1>3, <1>7, ConcatAt
<1>9. "failed" \in ToSet(l.steps) => \E i \in DOMAIN Rules(l) : Rules(l)[i] = x
  BY <1>4, <1>6, <1>7, <1>8
<1>10. l.result = "partial" => \E i \in DOMAIN Rules(l) : Rules(l)[i] = y
  <2>1. l.result = "partial" => Len(u) + 1 \in DOMAIN (u \o v) /\ (u \o v)[Len(u) + 1] = y
    BY <1>5, <1>7
  <2> QED
    BY <1>6, <1>8, <2>1
<1> QED
  BY <1>2, <1>6, <1>8, <1>9, <1>10

(* A finding more takes none back.                                           *)
LEMMA ErrorsStay ==
  ASSUME NEW v \in Seq(Findings), NEW w \in Seq(Findings), \E i \in DOMAIN v : Error(v[i])
  PROVE  \E i \in DOMAIN (v \o w) : Error((v \o w)[i])
<1>1. \A i \in DOMAIN v : i \in DOMAIN (v \o w) /\ (v \o w)[i] = v[i]
  BY ConcatAt
<1>2. PICK i \in DOMAIN v : Error(v[i])
  OBVIOUS
<1> QED
  BY <1>1, <1>2

(* The judge's key for what was left.                                        *)
LEMMA KeyType ==
  ASSUME remains \in Remains
  PROVE  Key \in Keys
<1>1. remains.steps \in {l.steps : l \in Remains}
  OBVIOUS
<1>2. HasClaims \in BOOLEAN /\ External \in BOOLEAN /\ Faulty \in BOOLEAN
  BY DEF HasClaims, External, Faulty
<1>3. (remains.observed # {}) \in BOOLEAN
  OBVIOUS
<1> QED
  BY <1>1, <1>2, <1>3, Zenon DEF Key, Keys

(* The cache is as long as it may be, with one answer more.                  *)
LEMMA CacheWritten ==
  ASSUME VerdictTypeOK, NEW judgement \in Seq(Findings)
  PROVE  Written(judgement) \in Seq(Keys \X Seq(Findings)) /\ Len(Written(judgement)) <= CacheCapacity
<1> DEFINE C == Keys \X Seq(Findings)
           rest == IF Len(cache) >= CacheCapacity THEN Tail(cache) ELSE cache
           one == <<<<Key, judgement>>>>
<1>1. cache \in Seq(C) /\ Len(cache) <= CacheCapacity /\ CacheCapacity \in Nat \ {0} /\ Len(cache) \in Nat
  BY JudgeAssumption, LenProperties DEF VerdictTypeOK
<1>2. one \in Seq(C) /\ Len(one) = 1
  <2>1. <<Key, judgement>> \in C
    BY KeyType DEF VerdictTypeOK
  <2> QED
    BY <2>1
<1>3. Written(judgement) = rest \o one
  BY DEF Written
<1> HIDE DEF C, one
<1>4. rest \in Seq(C) /\ Len(rest) \in Nat /\ Len(rest) < CacheCapacity
  <2>1. CASE Len(cache) >= CacheCapacity
    <3>1. cache # <<>> /\ Len(cache) = CacheCapacity
      BY <1>1, <2>1, EmptySeq
    <3>2. Tail(cache) \in Seq(C) /\ Len(Tail(cache)) = Len(cache) - 1
      BY <1>1, <3>1, HeadTailProperties
    <3> QED
      BY <1>1, <2>1, <3>1, <3>2
  <2>2. CASE ~ (Len(cache) >= CacheCapacity)
    BY <1>1, <2>2
  <2> QED
    BY <2>1, <2>2
<1> HIDE DEF rest
<1>5. rest \o one \in Seq(C) /\ Len(rest \o one) = Len(rest) + Len(one)
  BY <1>2, <1>4, ConcatProperties
<1> QED
  BY <1>1, <1>2, <1>3, <1>4, <1>5 DEF C

-----------------------------------------------------------------------------
(* TurnValidation: the invariant, action by action.                          *)

(* It holds before the first attempt.                                        *)
LEMMA VerdictInitially == VerdictInit => VerdictIInv
<1> SUFFICES ASSUME VerdictInit PROVE VerdictIInv
  OBVIOUS
<1>1. AtFirst \in Remains
  <2> DEFINE l == [route |-> "loop", steps |-> <<"skipped">>, result |-> "none",
                   retryable |-> FALSE, draft |-> FALSE, observed |-> {}]
  <2>1. l \in LoopsLeft
    BY DEF LoopsLeft, StepEnds
  <2>2. PlausibleLoop(l)
    BY DEF PlausibleLoop
  <2>3. l \in Remains /\ l.steps = <<"skipped">>
    BY <2>1, <2>2 DEF Remains
  <2> HIDE DEF l
  <2> QED
    BY <2>3 DEF AtFirst
<1>2. <<>> \in Seq(Findings) /\ <<>> \in Seq(Keys \X Seq(Findings)) /\ Len(<<>>) = 0
  OBVIOUS
<1>3. MaxRetries \in Nat /\ MaxJudgeCalls \in Nat /\ CacheCapacity \in Nat
  BY JudgeAssumption
<1>4. VerdictTypeOK
  BY <1>1, <1>2, <1>3 DEF VerdictInit, VerdictTypeOK, Stages
<1>5. BudgetCounts /\ OneRetry /\ FaultsAreFound /\ DecidedByFindings
  BY <1>3 DEF VerdictInit, BudgetCounts, OneRetry, FaultsAreFound, DecidedByFindings
<1> QED
  BY <1>4, <1>5 DEF VerdictIInv

(* The tasks have run, and the rules have found what they find.              *)
LEMMA ExecutedKeeps ==
  ASSUME VerdictIInv, Executed
  PROVE  VerdictIInv'
<1>1. /\ judgeStage = "executing" /\ judgeStage' = "ruling" /\ remains' \in Remains
      /\ findings' = Rules(remains')
      /\ asked' = [asked EXCEPT !.validation = 0]
      /\ spent' = IF kept THEN spent ELSE 0
      /\ cache' = IF kept THEN cache ELSE <<>>
      /\ UNCHANGED <<mode, kept, tried, judged, prefix, text>>
  BY DEF Executed
<1>2. /\ findings' \in Seq(Findings)
      /\ "failed" \in ToSet(remains'.steps) \/ remains'.result = "partial" =>
            \E i \in DOMAIN findings' : Error(findings'[i])
  BY <1>1, RulesSay
<1>3. /\ asked'.validation = 0 /\ asked'.turn = asked.turn
      /\ asked' \in [validation : Nat, turn : Nat]
  BY <1>1 DEF VerdictIInv, VerdictTypeOK
<1>4. /\ spent' \in Nat /\ cache' \in Seq(Keys \X Seq(Findings)) /\ Len(cache') <= CacheCapacity
  <2>1. Len(<<>>) = 0 /\ <<>> \in Seq(Keys \X Seq(Findings)) /\ CacheCapacity \in Nat
    BY JudgeAssumption
  <2>2. /\ spent \in Nat /\ cache \in Seq(Keys \X Seq(Findings)) /\ Len(cache) <= CacheCapacity
    BY DEF VerdictIInv, VerdictTypeOK
  <2>3. CASE kept
    BY <1>1, <2>2, <2>3
  <2>4. CASE ~ kept
    BY <1>1, <2>1, <2>4
  <2> QED
    BY <2>3, <2>4
<1>5. VerdictTypeOK'
  BY <1>1, <1>2, <1>3, <1>4 DEF VerdictIInv, VerdictTypeOK, Stages
<1>6. BudgetCounts'
  <2>1. MaxJudgeCalls \in Nat /\ asked.turn \in Nat /\ asked.validation \in Nat
    BY JudgeAssumption DEF VerdictIInv, VerdictTypeOK
  <2>2. CASE kept
    BY <1>1, <1>3, <2>1, <2>2 DEF VerdictIInv, BudgetCounts
  <2>3. CASE ~ kept
    BY <1>1, <1>3, <2>1, <2>3 DEF VerdictIInv, BudgetCounts
  <2> QED
    BY <2>2, <2>3
<1>7. OneRetry' /\ DecidedByFindings'
  BY <1>1 DEF VerdictIInv, OneRetry, DecidedByFindings
<1>8. FaultsAreFound'
  BY <1>2 DEF FaultsAreFound, Error
<1> QED
  BY <1>5, <1>6, <1>7, <1>8 DEF VerdictIInv

(* A judgement, or none, goes behind the findings of the rules.              *)
LEMMA GoesOnKeeps ==
  ASSUME VerdictIInv, judgeStage \in {"ruling", "judging"},
         NEW judgement \in Seq(Findings), GoesOn(judgement), UNCHANGED <<spent, asked>>,
         cache' \in Seq(Keys \X Seq(Findings)), Len(cache') <= CacheCapacity
  PROVE  VerdictIInv'
<1>1. /\ findings' = findings \o judgement /\ judgeStage' = "hooked"
      /\ UNCHANGED <<mode, kept, tried, remains, judged, prefix, text, spent, asked>>
  BY DEF GoesOn
<1>2. findings \in Seq(Findings) /\ findings' \in Seq(Findings)
  BY <1>1, ConcatProperties DEF VerdictIInv, VerdictTypeOK
<1>3. VerdictTypeOK'
  BY <1>1, <1>2 DEF VerdictIInv, VerdictTypeOK, Stages
<1>4. BudgetCounts' /\ OneRetry' /\ DecidedByFindings'
  BY <1>1 DEF VerdictIInv, BudgetCounts, OneRetry, DecidedByFindings
<1>5. FaultsAreFound'
  <2> SUFFICES ASSUME "failed" \in ToSet(remains.steps) \/ remains.result = "partial"
               PROVE  \E i \in DOMAIN findings' : Error(findings'[i])
    BY <1>1 DEF FaultsAreFound, Error
  <2>1. \E i \in DOMAIN findings : Error(findings[i])
    BY DEF VerdictIInv, FaultsAreFound
  <2> QED
    BY <1>1, <1>2, <2>1, ErrorsStay
<1> QED
  BY <1>3, <1>4, <1>5 DEF VerdictIInv

(* What the judge may be found to say.                                       *)
LEMMA JudgementsAreFindings ==
  /\ <<>> \in Seq(Findings)
  /\ <<Finding("budget_exhausted", "info", FALSE)>> \in Seq(Findings)
  /\ <<Finding("judged", "warning", FALSE)>> \in Seq(Findings)
  /\ <<Finding("judged", "error", FALSE)>> \in Seq(Findings)
  /\ <<Finding("error", "warning", FALSE)>> \in Seq(Findings)
  /\ <<Finding("timeout", "info", FALSE)>> \in Seq(Findings)
  /\ <<Finding("hook", "error", TRUE)>> \in Seq(Findings)
  /\ <<Finding("hook", "fatal", FALSE)>> \in Seq(Findings)
<1>1. \A f : f \in Findings => <<f>> \in Seq(Findings)
  OBVIOUS
<1>2. /\ Finding("budget_exhausted", "info", FALSE) \in Findings
      /\ Finding("judged", "warning", FALSE) \in Findings
      /\ Finding("judged", "error", FALSE) \in Findings
      /\ Finding("error", "warning", FALSE) \in Findings
      /\ Finding("timeout", "info", FALSE) \in Findings
      /\ Finding("hook", "error", TRUE) \in Findings
      /\ Finding("hook", "fatal", FALSE) \in Findings
  BY DEF Finding, Findings, Codes
<1>3. <<>> \in Seq(Findings)
  BY EmptySeq
<1> QED
  BY <1>1, <1>2, <1>3

(* The judge is not due, remembers, or has no call left.                     *)
LEMMA UnaskedKeeps ==
  ASSUME VerdictIInv, JudgeNotDue \/ JudgeRemembers \/ JudgeExhausted
  PROVE  VerdictIInv'
<1> DEFINE C == Keys \X Seq(Findings)
<1>1. cache \in Seq(C) /\ Len(cache) <= CacheCapacity /\ Len(cache) \in Nat /\ CacheCapacity \in Nat
  BY JudgeAssumption, LenProperties DEF VerdictIInv, VerdictTypeOK
<1>2. CASE JudgeNotDue
  <2>1. judgeStage = "ruling" /\ GoesOn(<<>>) /\ cache' = cache /\ UNCHANGED <<spent, asked>>
    BY <1>2 DEF JudgeNotDue
  <2>2. cache' \in Seq(C) /\ Len(cache') <= CacheCapacity
    BY <1>1, <2>1
  <2> QED
    BY <2>1, <2>2, JudgementsAreFindings, GoesOnKeeps
<1>3. CASE JudgeRemembers
  <2>1. PICK i \in Cached : GoesOn(cache[i][2]) /\ cache' = Append(RemoveAt(cache, i), cache[i])
    BY <1>3 DEF JudgeRemembers
  <2>2. judgeStage = "ruling" /\ UNCHANGED <<spent, asked>>
    BY <1>3 DEF JudgeRemembers
  <2>3. i \in DOMAIN cache
    BY DEF Cached
  <2> HIDE DEF C
  <2>4. cache[i] \in C
    BY <1>1, <2>3, LenProperties, ElementOfSeq
  <2>5. cache[i][2] \in Seq(Findings)
    BY <2>4 DEF C
  <2>6. RemoveAt(cache, i) \in Seq(C) /\ Len(RemoveAt(cache, i)) = Len(cache) - 1
    BY <1>1, <2>3, RemoveAtProperties
  <2>7. cache' \in Seq(C) /\ Len(cache') = Len(RemoveAt(cache, i)) + 1
    BY <2>1, <2>4, <2>6, AppendProperties
  <2>8. Len(cache') <= CacheCapacity
    BY <1>1, <2>6, <2>7
  <2> QED
    BY <2>1, <2>2, <2>5, <2>7, <2>8, GoesOnKeeps DEF C
<1>4. CASE JudgeExhausted
  <2> DEFINE a == <<Finding("budget_exhausted", "info", FALSE)>>
  <2>1. judgeStage = "ruling" /\ GoesOn(a) /\ cache' = Written(a) /\ UNCHANGED <<spent, asked>>
    BY <1>4 DEF JudgeExhausted
  <2>2. a \in Seq(Findings)
    BY JudgementsAreFindings
  <2> HIDE DEF a
  <2>3. cache' \in Seq(C) /\ Len(cache') <= CacheCapacity
    BY <2>1, <2>2, CacheWritten DEF VerdictIInv
  <2> QED
    BY <2>1, <2>2, <2>3, GoesOnKeeps
<1> QED
  BY <1>2, <1>3, <1>4

(* The judge is asked: the budget counts the call before it is made.         *)
LEMMA AskJudgeKeeps ==
  ASSUME VerdictIInv, AskJudge
  PROVE  VerdictIInv'
<1>1. /\ judgeStage = "ruling" /\ judgeStage' = "judging" /\ spent < MaxJudgeCalls
      /\ spent' = spent + 1
      /\ asked' = [validation |-> asked.validation + 1, turn |-> asked.turn + 1]
      /\ UNCHANGED <<mode, kept, tried, remains, findings, cache, judged, prefix, text>>
  BY DEF AskJudge, Counted
<1>2. /\ spent \in Nat /\ asked.validation \in Nat /\ asked.turn \in Nat /\ MaxJudgeCalls \in Nat
      /\ asked'.validation = asked.validation + 1 /\ asked'.turn = asked.turn + 1
      /\ asked' \in [validation : Nat, turn : Nat] /\ spent' \in Nat
  BY <1>1, JudgeAssumption DEF VerdictIInv, VerdictTypeOK
<1>3. VerdictTypeOK'
  BY <1>1, <1>2 DEF VerdictIInv, VerdictTypeOK, Stages
<1>4. BudgetCounts'
  <2>1. spent = (IF kept THEN asked.turn ELSE asked.validation) /\ asked.validation <= asked.turn
    BY DEF VerdictIInv, BudgetCounts
  <2>2. spent' <= MaxJudgeCalls /\ asked'.validation <= asked'.turn
    BY <1>1, <1>2, <2>1
  <2>3. spent' = IF kept THEN asked'.turn ELSE asked'.validation
    BY <1>1, <1>2, <2>1
  <2> QED
    BY <1>1, <2>2, <2>3 DEF BudgetCounts
<1>5. OneRetry' /\ FaultsAreFound' /\ DecidedByFindings'
  BY <1>1 DEF VerdictIInv, OneRetry, FaultsAreFound, DecidedByFindings, Error
<1> QED
  BY <1>3, <1>4, <1>5 DEF VerdictIInv

(* The judge is heard, fails or is late.                                     *)
LEMMA JudgedKeeps ==
  ASSUME VerdictIInv, JudgeAnswers \/ JudgeThrows \/ JudgeTimesOut
  PROVE  VerdictIInv'
<1>1. PICK judgement \in Seq(Findings) : Judged(judgement)
  BY JudgementsAreFindings DEF JudgeAnswers, JudgeThrows, JudgeTimesOut
<1>2. judgeStage = "judging" /\ GoesOn(judgement) /\ cache' = Written(judgement)
      /\ UNCHANGED <<spent, asked>>
  BY <1>1 DEF Judged
<1>3. cache' \in Seq(Keys \X Seq(Findings)) /\ Len(cache') <= CacheCapacity
  BY <1>2, CacheWritten DEF VerdictIInv
<1> QED
  BY <1>2, <1>3, GoesOnKeeps

(* The outcome is reduced, and the attempt repeated or not.                  *)
LEMMA ValidatedKeeps ==
  ASSUME VerdictIInv, Validated
  PROVE  VerdictIInv'
<1>1. PICK hook \in Seq(Findings) :
        /\ judgeStage = "hooked" /\ findings' = findings \o hook
        /\ judged' = ReduceOutcome(findings') /\ tried' = tried + 1
        /\ judgeStage' = IF RetriesOnce(judged') THEN "executing" ELSE "stopping"
        /\ UNCHANGED <<mode, kept, remains, cache, spent, asked, prefix, text>>
  BY JudgementsAreFindings DEF Validated
<1>2. findings \in Seq(Findings) /\ findings' \in Seq(Findings)
  BY <1>1, ConcatProperties DEF VerdictIInv, VerdictTypeOK
<1>3. judged' \in {"pass", "degrade", "handoff", "retry-turn", "tool-loop-finalize"}
  BY <1>1, <1>2, OutcomeOf
<1>4. \/ tried = 0 /\ judged = "none"
      \/ tried = 1 /\ judged = "retry-turn" /\ MaxRetries >= 1
  BY <1>1 DEF VerdictIInv, OneRetry
<1>5. MaxRetries \in Nat
  BY JudgeAssumption
<1>6. tried' \in 0 .. MaxRetries + 1
  BY <1>1, <1>4, <1>5
<1>7. VerdictTypeOK'
  BY <1>1, <1>2, <1>3, <1>6 DEF VerdictIInv, VerdictTypeOK, Stages
<1>8. BudgetCounts'
  BY <1>1 DEF VerdictIInv, BudgetCounts
<1>9. OneRetry'
  <2> SUFFICES ASSUME RetriesOnce(judged')
               PROVE  tried' = 1 /\ judged' = "retry-turn" /\ MaxRetries >= 1
    BY <1>1 DEF OneRetry
  <2>1. judged' = "retry-turn" /\ tried < MaxRetries /\ judged # "retry-turn"
    BY DEF RetriesOnce
  <2> QED
    BY <1>1, <1>4, <1>5, <2>1
<1>10. FaultsAreFound'
  <2> SUFFICES ASSUME "failed" \in ToSet(remains.steps) \/ remains.result = "partial"
               PROVE  \E i \in DOMAIN findings' : Error(findings'[i])
    BY <1>1 DEF FaultsAreFound, Error
  <2>1. \E i \in DOMAIN findings : Error(findings[i])
    BY <1>1 DEF VerdictIInv, FaultsAreFound
  <2> QED
    BY <1>1, <1>2, <2>1, ErrorsStay
<1>11. DecidedByFindings'
  <2>1. text = "none"
    BY <1>1 DEF VerdictIInv, DecidedByFindings
  <2>2. judged' = ReduceOutcome(findings)'
    BY <1>1
  <2> QED
    BY <1>1, <2>1, <2>2 DEF DecidedByFindings
<1> QED
  BY <1>7, <1>8, <1>9, <1>10, <1>11 DEF VerdictIInv

(* A guard refuses or passes, and the text is made.                          *)
LEMMA StoppingKeeps ==
  ASSUME VerdictIInv, GuardRefuses \/ GuardPasses \/ Delivered
  PROVE  VerdictIInv'
<1>1. /\ judgeStage \in {"stopping", "outputting"}
      /\ judgeStage' \in {"failed", "outputting", "delivered"}
      /\ UNCHANGED <<mode, kept, tried, remains, findings, cache, spent, asked, judged>>
      /\ \/ text' = text
         \/ judgeStage' = "delivered" /\ text' = AnswerText
  BY DEF GuardRefuses, GuardPasses, Delivered
<1>2. AnswerText \in {"draft", "synthesis", "prefix", "json", "fallback"}
  BY DEF AnswerText, Candidate
<1>3. AnswerText \in {"draft", "synthesis"} => judged = "pass"
  BY DEF AnswerText, Passed
<1>4. text = "none"
  BY <1>1 DEF VerdictIInv, DecidedByFindings
<1>5. VerdictTypeOK'
  BY <1>1, <1>2 DEF VerdictIInv, VerdictTypeOK, Stages
<1>6. BudgetCounts' /\ OneRetry' /\ FaultsAreFound'
  BY <1>1 DEF VerdictIInv, BudgetCounts, OneRetry, FaultsAreFound, Error
<1>7. DecidedByFindings'
  <2>1. judged = ReduceOutcome(findings)
    BY <1>1 DEF VerdictIInv, DecidedByFindings
  <2> QED
    BY <1>1, <1>3, <1>4, <2>1 DEF DecidedByFindings
<1> QED
  BY <1>5, <1>6, <1>7 DEF VerdictIInv

(* The inductive invariant of validation.                                    *)
THEOREM VerdictInvariant == VerdictSpec => []VerdictIInv
<1>1. VerdictInit => VerdictIInv
  BY VerdictInitially
<1>2. VerdictIInv /\ [VerdictNext]_verdictVars => VerdictIInv'
  <2> SUFFICES ASSUME VerdictIInv, [VerdictNext]_verdictVars PROVE VerdictIInv'
    OBVIOUS
  <2>1. CASE Executed
    BY <2>1, ExecutedKeeps
  <2>2. CASE JudgeNotDue \/ JudgeRemembers \/ JudgeExhausted
    BY <2>2, UnaskedKeeps
  <2>3. CASE AskJudge
    BY <2>3, AskJudgeKeeps
  <2>4. CASE JudgeAnswers \/ JudgeThrows \/ JudgeTimesOut
    BY <2>4, JudgedKeeps
  <2>5. CASE Validated
    BY <2>5, ValidatedKeeps
  <2>6. CASE GuardRefuses \/ GuardPasses \/ Delivered
    BY <2>6, StoppingKeeps
  <2>7. CASE UNCHANGED verdictVars
    BY <2>7 DEF verdictVars, VerdictIInv, VerdictTypeOK, BudgetCounts, OneRetry, FaultsAreFound,
       DecidedByFindings, Error
  <2> QED
    BY <2>1, <2>2, <2>3, <2>4, <2>5, <2>6, <2>7 DEF VerdictNext, VerdictStep
<1> QED
  BY <1>1, <1>2, PTL DEF VerdictSpec

(* An answer of the model's is delivered only where nothing failed and       *)
(* nobody found an error; a judge that is out of budget, late or failing     *)
(* decides nothing and is asked no more often than its budget says; an       *)
(* attempt is repeated once; and every claim has its evidence.               *)
THEOREM VerdictIsSound == VerdictSpec => []VerdictSound
<1>1. VerdictIInv => VerdictSound
  <2> SUFFICES ASSUME VerdictIInv PROVE VerdictSound
    OBVIOUS
  <2>1. findings \in Seq(Findings) /\ remains \in Remains
    BY DEF VerdictIInv, VerdictTypeOK
  <2>2. /\ ReduceOutcome(Answered(findings)) = ReduceOutcome(findings)
        /\ Answered(findings) = <<>> <=> ReduceOutcome(findings) = "pass"
        /\ ReduceOutcome(findings) = "pass" =>
              \A i \in DOMAIN findings : findings[i].severity \in {"info", "warning"}
    BY <2>1, OutcomeOf, OutcomeOfAnswered
  <2>3. ASSUME text \in {"draft", "synthesis"}
        PROVE  /\ "failed" \notin ToSet(remains.steps) /\ remains.result # "partial"
               /\ Answered(findings) = <<>>
    <3>1. judgeStage = "delivered" /\ judged = "pass" /\ judged = ReduceOutcome(findings)
      BY <2>3 DEF VerdictIInv, DecidedByFindings
    <3>2. \A i \in DOMAIN findings : ~ Error(findings[i])
      BY <2>2, <3>1 DEF Error
    <3> QED
      BY <2>2, <3>1, <3>2 DEF VerdictIInv, FaultsAreFound
  <2>4. ASSUME judgeStage \in {"stopping", "outputting", "delivered"}
        PROVE  /\ judged = "pass" <=> Answered(findings) = <<>>
               /\ judged = ReduceOutcome(Answered(findings))
    BY <2>2, <2>4 DEF VerdictIInv, DecidedByFindings
  <2>5. asked.validation <= MaxJudgeCalls /\ (kept => asked.turn <= MaxJudgeCalls)
    <3>1. asked.validation \in Nat /\ asked.turn \in Nat /\ MaxJudgeCalls \in Nat
      BY JudgeAssumption DEF VerdictIInv, VerdictTypeOK
    <3> QED
      BY <3>1 DEF VerdictIInv, BudgetCounts
  <2>6. tried > 0 /\ judgeStage \notin {"stopping", "outputting", "delivered", "failed"} =>
          judged = "retry-turn" /\ tried = 1
    BY DEF VerdictIInv, OneRetry
  <2>7. \A c \in Claims(remains) : Supported(c, remains)
    BY ClaimsAreSupported
  <2> QED
    BY <2>3, <2>4, <2>5, <2>6, <2>7 DEF VerdictSound
<1> QED
  BY <1>1, VerdictInvariant, PTL

(* Every reachable state of validation has its types.                      *)
THEOREM VerdictTypes == VerdictSpec => []VerdictTypeOK
<1>1. VerdictIInv => VerdictTypeOK
  BY DEF VerdictIInv
<1> QED
  BY <1>1, VerdictInvariant, PTL

-----------------------------------------------------------------------------
(* Boxes of chunks: the outbox, a queue, and what was told.                  *)

(* An index is a number that the length bounds.                              *)
LEMMA IndicesAre ==
  ASSUME NEW S, NEW w \in Seq(S)
  PROVE  /\ Len(w) \in Nat /\ DOMAIN w = 1 .. Len(w) /\ DOMAIN w \subseteq Nat \ {0}
         /\ \A i \in DOMAIN w : i <= Len(w) /\ w[i] \in S
         /\ \A i \in Nat \ {0} : i <= Len(w) => i \in DOMAIN w
<1>1. Len(w) \in Nat /\ DOMAIN w = 1 .. Len(w)
  BY LenProperties
<1>2. \A i \in DOMAIN w : w[i] \in S
  BY <1>1, ElementOfSeq
<1> QED
  BY <1>1, <1>2

(* Nothing is in an empty box.                                               *)
LEMMA EmptyBox ==
  /\ DOMAIN <<>> = {} /\ Once(<<>>)
  /\ \A t, c : ~ Has(<<>>, t, c)
  /\ \A c, d : Before(<<>>, c, d)
  /\ \A list, a : Recorded(<<>>, list, a)
<1>1. DOMAIN <<>> = {}
  OBVIOUS
<1> QED
  BY <1>1 DEF Once, Has, Before, Recorded

(* What is in a box with one chunk more.                                     *)
LEMMA HasAppend ==
  ASSUME NEW S, NEW w \in Seq(S), NEW e \in S
  PROVE  \A t, c : Has(Append(w, e), t, c) <=> Has(w, t, c) \/ (e.type = t /\ e.call = c)
<1> DEFINE v == Append(w, e)
           n == Len(w) + 1
<1>1. /\ \A i : i \in DOMAIN v <=> i \in DOMAIN w \/ i = n
      /\ \A i \in DOMAIN w : v[i] = w[i]
      /\ v[n] = e
  BY AppendAt
<1> HIDE DEF v, n
<1>2. \A t, c : Has(v, t, c) <=> Has(w, t, c) \/ (e.type = t /\ e.call = c)
  BY <1>1 DEF Has
<1> QED
  BY <1>2 DEF v

(* What is in a box is its head or behind it.                                *)
LEMMA HasTail ==
  ASSUME NEW S, NEW w \in Seq(S), w # <<>>
  PROVE  /\ Head(w) \in S
         /\ \A t, c : Has(w, t, c) <=> Has(Tail(w), t, c) \/ (Head(w).type = t /\ Head(w).call = c)
<1> DEFINE v == Tail(w)
           e == Head(w)
<1>1. /\ e \in S /\ 1 \in DOMAIN w /\ e = w[1]
      /\ \A i \in DOMAIN v : i + 1 \in DOMAIN w /\ v[i] = w[i + 1]
      /\ \A i \in DOMAIN w : i # 1 => i - 1 \in DOMAIN v /\ v[i - 1] = w[i]
  BY TailAt
<1> HIDE DEF v, e
<1>2. ASSUME NEW t, NEW c PROVE Has(w, t, c) <=> Has(v, t, c) \/ (e.type = t /\ e.call = c)
  <2>1. ASSUME Has(w, t, c) PROVE Has(v, t, c) \/ (e.type = t /\ e.call = c)
    BY <1>1, <2>1 DEF Has
  <2>2. ASSUME Has(v, t, c) PROVE Has(w, t, c)
    BY <1>1, <2>2 DEF Has
  <2>3. ASSUME e.type = t /\ e.call = c PROVE Has(w, t, c)
    BY <1>1, <2>3 DEF Has
  <2> QED
    BY <2>1, <2>2, <2>3
<1> QED
  BY <1>1, <1>2 DEF v, e

(* What is in two boxes in a row.                                            *)
LEMMA HasConcat ==
  ASSUME NEW S, NEW v \in Seq(S), NEW w \in Seq(S)
  PROVE  \A t, c : Has(v \o w, t, c) <=> Has(v, t, c) \/ Has(w, t, c)
<1> DEFINE u == v \o w
<1>1. /\ \A i \in DOMAIN u :
            \/ i \in DOMAIN v /\ u[i] = v[i]
            \/ i - Len(v) \in DOMAIN w /\ u[i] = w[i - Len(v)]
      /\ \A i \in DOMAIN v : i \in DOMAIN u /\ u[i] = v[i]
      /\ \A i \in DOMAIN w : Len(v) + i \in DOMAIN u /\ u[Len(v) + i] = w[i]
  BY ConcatAt
<1> HIDE DEF u
<1>2. \A t, c : Has(u, t, c) <=> Has(v, t, c) \/ Has(w, t, c)
  BY <1>1 DEF Has
<1> QED
  BY <1>2 DEF u

-----------------------------------------------------------------------------
(* Nothing twice, with one chunk more that is new if it is about a call.     *)
LEMMA OnceAppend ==
  ASSUME NEW S, NEW w \in Seq(S), NEW e \in S, Once(w),
         e.type \in CallTypes => ~ Has(w, e.type, e.call)
  PROVE  Once(Append(w, e))
<1> DEFINE v == Append(w, e)
           n == Len(w) + 1
<1>1. /\ \A i : i \in DOMAIN v <=> i \in DOMAIN w \/ i = n
      /\ \A i \in DOMAIN w : v[i] = w[i]
      /\ v[n] = e
  BY AppendAt
<1> HIDE DEF v, n
<1>2. ASSUME NEW i \in DOMAIN v, NEW j \in DOMAIN v,
             v[i].type \in CallTypes, v[i].type = v[j].type, v[i].call = v[j].call
      PROVE  i = j
  <2>1. CASE i \in DOMAIN w /\ j \in DOMAIN w
    BY <1>1, <1>2, <2>1 DEF Once
  <2>2. CASE i \in DOMAIN w /\ j = n
    BY <1>1, <1>2, <2>2 DEF Has
  <2>3. CASE i = n /\ j \in DOMAIN w
    BY <1>1, <1>2, <2>3 DEF Has
  <2> QED
    BY <1>1, <2>1, <2>2, <2>3
<1> QED
  BY <1>2 DEF v, Once

(* Nothing twice without the head, nor the head once more.                   *)
LEMMA OnceTail ==
  ASSUME NEW S, NEW w \in Seq(S), w # <<>>, Once(w)
  PROVE  /\ Once(Tail(w))
         /\ Head(w).type \in CallTypes => ~ Has(Tail(w), Head(w).type, Head(w).call)
<1> DEFINE v == Tail(w)
           e == Head(w)
<1>1. /\ 1 \in DOMAIN w /\ e = w[1] /\ DOMAIN v \subseteq Nat \ {0}
      /\ \A i \in DOMAIN v : i + 1 \in DOMAIN w /\ v[i] = w[i + 1]
  BY TailAt
<1> HIDE DEF v, e
<1>2. ASSUME NEW i \in DOMAIN v, NEW j \in DOMAIN v,
             v[i].type \in CallTypes, v[i].type = v[j].type, v[i].call = v[j].call
      PROVE  i = j
  <2>1. i + 1 = j + 1
    BY <1>1, <1>2 DEF Once
  <2> QED
    BY <1>1, <2>1
<1>3. ASSUME NEW i \in DOMAIN v, v[i].type \in CallTypes, v[i].type = e.type, v[i].call = e.call
      PROVE  FALSE
  <2>1. i + 1 = 1
    BY <1>1, <1>3 DEF Once
  <2>2. i \in Nat \ {0}
    BY <1>1
  <2> QED
    BY <2>1, <2>2
<1> QED
  BY <1>2, <1>3 DEF v, e, Once, Has

(* Nothing twice in two boxes that have nothing in common.                   *)
LEMMA OnceConcat ==
  ASSUME NEW S, NEW v \in Seq(S), NEW w \in Seq(S), Once(v), Once(w),
         \A t \in CallTypes : \A c : ~ (Has(v, t, c) /\ Has(w, t, c))
  PROVE  Once(v \o w)
<1> DEFINE u == v \o w
<1>1. /\ Len(v) \in Nat
      /\ \A i \in DOMAIN u :
            \/ i \in DOMAIN v /\ u[i] = v[i]
            \/ i - Len(v) \in DOMAIN w /\ u[i] = w[i - Len(v)] /\ i \in Nat
  BY ConcatAt
<1> HIDE DEF u
<1>2. ASSUME NEW i \in DOMAIN u, NEW j \in DOMAIN u,
             u[i].type \in CallTypes, u[i].type = u[j].type, u[i].call = u[j].call
      PROVE  i = j
  <2>1. CASE i \in DOMAIN v /\ u[i] = v[i]
    <3>1. Has(v, u[i].type, u[i].call)
      BY <2>1 DEF Has
    <3>2. CASE j \in DOMAIN v /\ u[j] = v[j]
      BY <1>2, <2>1, <3>2 DEF Once
    <3>3. CASE j - Len(v) \in DOMAIN w /\ u[j] = w[j - Len(v)]
      <4>1. Has(w, u[i].type, u[i].call)
        BY <1>2, <3>3 DEF Has
      <4> QED
        BY <1>2, <3>1, <4>1
    <3> QED
      BY <1>1, <3>2, <3>3
  <2>2. CASE i - Len(v) \in DOMAIN w /\ u[i] = w[i - Len(v)] /\ i \in Nat
    <3>1. Has(w, u[i].type, u[i].call)
      BY <2>2 DEF Has
    <3>2. CASE j \in DOMAIN v /\ u[j] = v[j]
      <4>1. Has(v, u[i].type, u[i].call)
        BY <1>2, <3>2 DEF Has
      <4> QED
        BY <1>2, <3>1, <4>1
    <3>3. CASE j - Len(v) \in DOMAIN w /\ u[j] = w[j - Len(v)] /\ j \in Nat
      <4>1. i - Len(v) = j - Len(v)
        BY <1>2, <2>2, <3>3 DEF Once
      <4> QED
        BY <1>1, <2>2, <3>3, <4>1
    <3> QED
      BY <1>1, <3>2, <3>3
  <2> QED
    BY <1>1, <2>1, <2>2
<1> QED
  BY <1>2 DEF u, Once

-----------------------------------------------------------------------------
(* The order of two ends: one that is not there comes behind any other, and  *)
(* one that is there has the other before it.                                *)
LEMMA BeforeIs ==
  ASSUME NEW w, NEW c, NEW d
  PROVE  /\ ~ Has(w, "end", d) => Before(w, c, d)
         /\ Before(w, c, d) /\ Has(w, "end", d) => Has(w, "end", c)
BY DEF Has, Before

(* The order with one chunk more.                                            *)
LEMMA BeforeAppend ==
  ASSUME NEW S, NEW w \in Seq(S), NEW e \in S
  PROVE  \A c, d : Before(w, c, d) /\ (e.type = "end" /\ e.call = d => Has(w, "end", c))
                     => Before(Append(w, e), c, d)
<1> DEFINE v == Append(w, e)
           n == Len(w) + 1
<1>1. /\ \A i : i \in DOMAIN v <=> i \in DOMAIN w \/ i = n
      /\ \A i \in DOMAIN w : v[i] = w[i] /\ i < n
      /\ v[n] = e
  BY AppendAt
<1> HIDE DEF v, n
<1>2. \A c, d : Before(w, c, d) /\ (e.type = "end" /\ e.call = d => Has(w, "end", c))
                  => Before(v, c, d)
  BY <1>1 DEF Has, Before
<1> QED
  BY <1>2 DEF v

(* The order behind the head: an end at the head has none before it.         *)
LEMMA BeforeTail ==
  ASSUME NEW S, NEW w \in Seq(S), w # <<>>
  PROVE  \A c, d : Before(w, c, d) =>
            /\ ~ (Head(w).type = "end" /\ Head(w).call = d)
            /\ (Head(w).type = "end" /\ Head(w).call = c) \/ Before(Tail(w), c, d)
<1> DEFINE v == Tail(w)
           e == Head(w)
<1>1. /\ 1 \in DOMAIN w /\ e = w[1] /\ DOMAIN v \subseteq Nat \ {0} /\ DOMAIN w \subseteq Nat \ {0}
      /\ \A i \in DOMAIN v : i + 1 \in DOMAIN w /\ v[i] = w[i + 1]
      /\ \A i \in DOMAIN w : i # 1 => i - 1 \in DOMAIN v /\ v[i - 1] = w[i]
  BY TailAt
<1> HIDE DEF v, e
<1> SUFFICES ASSUME NEW c, NEW d, Before(w, c, d)
             PROVE  /\ ~ (e.type = "end" /\ e.call = d)
                    /\ (e.type = "end" /\ e.call = c) \/ Before(v, c, d)
  BY DEF v, e
<1>2. ASSUME e.type = "end" /\ e.call = d PROVE FALSE
  <2>1. PICK i \in DOMAIN w : i < 1
    BY <1>1, <1>2 DEF Before
  <2>2. i \in Nat \ {0}
    BY <1>1
  <2> QED
    BY <2>1, <2>2
<1>3. ASSUME ~ (e.type = "end" /\ e.call = c),
             NEW j \in DOMAIN v, v[j].type = "end" /\ v[j].call = d
      PROVE  \E i \in DOMAIN v : i < j /\ v[i].type = "end" /\ v[i].call = c
  <2>1. j + 1 \in DOMAIN w /\ w[j + 1].type = "end" /\ w[j + 1].call = d
    BY <1>1, <1>3
  <2>2. PICK i \in DOMAIN w : i < j + 1 /\ w[i].type = "end" /\ w[i].call = c
    BY <2>1 DEF Before
  <2>3. i # 1
    BY <1>1, <1>3, <2>2
  <2>4. i - 1 \in DOMAIN v /\ v[i - 1] = w[i]
    BY <1>1, <2>3
  <2>5. i \in Nat /\ j \in Nat
    BY <1>1
  <2>6. i - 1 < j
    BY <2>2, <2>5
  <2> QED
    BY <2>2, <2>4, <2>6
<1> QED
  BY <1>2, <1>3 DEF Before

(* The order in front of a box without ends.                                 *)
LEMMA BeforeConcat ==
  ASSUME NEW S, NEW v \in Seq(S), NEW w \in Seq(S), \A c : ~ Has(w, "end", c)
  PROVE  \A c, d : Before(v, c, d) => Before(v \o w, c, d)
<1> DEFINE u == v \o w
<1>1. /\ \A i \in DOMAIN u :
            \/ i \in DOMAIN v /\ u[i] = v[i]
            \/ i - Len(v) \in DOMAIN w /\ u[i] = w[i - Len(v)]
      /\ \A i \in DOMAIN v : i \in DOMAIN u /\ u[i] = v[i]
  BY ConcatAt
<1> HIDE DEF u
<1>2. \A i \in DOMAIN u : u[i].type = "end" => i \in DOMAIN v /\ u[i] = v[i]
  BY <1>1 DEF Has
<1>3. \A c, d : Before(v, c, d) => Before(u, c, d)
  BY <1>1, <1>2 DEF Before
<1> QED
  BY <1>3 DEF u

-----------------------------------------------------------------------------
(* The records of a box with one chunk more, on a list with one more.        *)
LEMMA RecordedAppend ==
  ASSUME NEW S, NEW w \in Seq(S), NEW e \in S, NEW T, NEW list \in Seq(T), NEW r \in T
  PROVE  /\ \A a : Recorded(w, list, a) => Recorded(w, Append(list, r), a)
         /\ \A a : Recorded(w, list, a) /\ (e.type # "end" \/ e.call[1] # a)
                     => Recorded(Append(w, e), list, a)
         /\ \A a : Recorded(w, list, a) /\ r = <<e.call, e.ok>>
                     => Recorded(Append(w, e), Append(list, r), a)
<1> DEFINE v == Append(w, e)
           n == Len(w) + 1
           more == Append(list, r)
           m == Len(list) + 1
<1>1. /\ \A i : i \in DOMAIN v <=> i \in DOMAIN w \/ i = n
      /\ \A i \in DOMAIN w : v[i] = w[i]
      /\ v[n] = e
  BY AppendAt
<1>2. /\ \A i : i \in DOMAIN more <=> i \in DOMAIN list \/ i = m
      /\ \A i \in DOMAIN list : more[i] = list[i]
      /\ more[m] = r
  BY AppendAt
<1> HIDE DEF v, n, more, m
<1>3. \A a : Recorded(w, list, a) => Recorded(w, more, a)
  BY <1>2 DEF Recorded
<1>4. \A a : Recorded(w, list, a) /\ (e.type # "end" \/ e.call[1] # a) => Recorded(v, list, a)
  BY <1>1 DEF Recorded
<1>5. ASSUME NEW a, Recorded(w, list, a), r = <<e.call, e.ok>>
      PROVE  Recorded(v, more, a)
  <2>1. Recorded(w, more, a)
    BY <1>3, <1>5
  <2> QED
    BY <1>1, <1>2, <1>5, <2>1 DEF Recorded
<1> QED
  BY <1>3, <1>4, <1>5 DEF v, more

(* The records of what is behind the head, and of the head.                  *)
LEMMA RecordedTail ==
  ASSUME NEW S, NEW w \in Seq(S), w # <<>>, NEW list, NEW a, Recorded(w, list, a)
  PROVE  /\ Recorded(Tail(w), list, a)
         /\ Head(w).type = "end" /\ Head(w).call[1] = a =>
               \E p \in DOMAIN list : list[p] = <<Head(w).call, Head(w).ok>>
<1> DEFINE v == Tail(w)
           e == Head(w)
<1>1. /\ 1 \in DOMAIN w /\ e = w[1]
      /\ \A i \in DOMAIN v : i + 1 \in DOMAIN w /\ v[i] = w[i + 1]
  BY TailAt
<1> HIDE DEF v, e
<1>2. Recorded(v, list, a)
  BY <1>1 DEF Recorded
<1>3. e.type = "end" /\ e.call[1] = a => \E p \in DOMAIN list : list[p] = <<e.call, e.ok>>
  BY <1>1 DEF Recorded
<1> QED
  BY <1>2, <1>3 DEF v, e

(* A chunk that is recorded may be told.                                     *)
LEMMA RecordedToo ==
  ASSUME NEW S, NEW w \in Seq(S), NEW e \in S, NEW list, NEW a, Recorded(w, list, a),
         e.type = "end" /\ e.call[1] = a => \E p \in DOMAIN list : list[p] = <<e.call, e.ok>>
  PROVE  Recorded(Append(w, e), list, a)
<1> DEFINE v == Append(w, e)
           n == Len(w) + 1
<1>1. /\ \A i : i \in DOMAIN v <=> i \in DOMAIN w \/ i = n
      /\ \A i \in DOMAIN w : v[i] = w[i]
      /\ v[n] = e
  BY AppendAt
<1> HIDE DEF v, n
<1>2. Recorded(v, list, a)
  BY <1>1 DEF Recorded
<1> QED
  BY <1>2 DEF v

(* A box without ends adds nothing to record.                                *)
LEMMA RecordedConcat ==
  ASSUME NEW S, NEW v \in Seq(S), NEW w \in Seq(S), \A c : ~ Has(w, "end", c),
         NEW list, NEW a, Recorded(v, list, a)
  PROVE  Recorded(v \o w, list, a)
<1> DEFINE u == v \o w
<1>1. \A i \in DOMAIN u :
            \/ i \in DOMAIN v /\ u[i] = v[i]
            \/ i - Len(v) \in DOMAIN w /\ u[i] = w[i - Len(v)]
  BY ConcatAt
<1> HIDE DEF u
<1>2. \A i \in DOMAIN u : u[i].type = "end" => i \in DOMAIN v /\ u[i] = v[i]
  BY <1>1 DEF Has
<1>3. Recorded(u, list, a)
  BY <1>2 DEF Recorded
<1> QED
  BY <1>3 DEF u

(* Nothing is recorded where nothing has ended.                              *)
LEMMA RecordedNone ==
  ASSUME NEW w, NEW list, NEW a, \A c : Has(w, "end", c) => c[1] # a
  PROVE  Recorded(w, list, a)
BY DEF Recorded, Has

-----------------------------------------------------------------------------
(* A listing of a finite set holds its elements, each of them once.          *)
LEMMA ListingOf ==
  ASSUME NEW S, IsFiniteSet(S)
  PROVE  SetToSeq(S) \in Seq(S) /\ ToSet(SetToSeq(S)) = S /\ IsInjective(SetToSeq(S))
<1> DEFINE D == 1 .. Cardinality(S)
<1>1. Cardinality(S) \in Nat /\ ExistsBijection(D, S)
  BY FS_CardinalityType
<1>2. PICK f : f \in Bijection(D, S)
  BY <1>1 DEF ExistsBijection
<1>3. f \in [D -> S] /\ IsInjective(f)
  BY <1>2 DEF Bijection, Injection, IsInjective
<1>4. SetToSeq(S) \in [D -> S] /\ IsInjective(SetToSeq(S))
  BY <1>3 DEF SetToSeq
<1> DEFINE s == SetToSeq(S)
<1> HIDE DEF s
<1>5. s \in SetToSeqs(S)
  <2>1. s \in [D -> S] /\ IsInjective(s)
    BY <1>4 DEF s
  <2> QED
    BY <2>1 DEF SetToSeqs, IsInjective
<1>6. s \in Seq(S) /\ ToSet(s) = S /\ IsInjective(s)
  BY <1>5, ListingIsQueue
<1> QED
  BY <1>6 DEF s

(* The calls of a turn are finitely many.                                    *)
LEMMA CallsFinite == IsFiniteSet(CallIds)
<1>1. MaxTurnRetries \in Int /\ MaxCalls \in Int
  BY TurnAssumption
<1>2. IsFiniteSet(0 .. MaxTurnRetries) /\ IsFiniteSet(1 .. MaxCalls)
  BY <1>1, FS_Interval
<1> QED
  BY <1>2, FS_Product DEF CallIds, Attempts, Calls

(* The seals of a box: one for each call it leaves open, and nothing else.   *)
LEMMA SealsAre ==
  ASSUME NEW box
  PROVE  /\ Seals(box) \in Seq(Chunks) /\ Once(Seals(box))
         /\ \A i \in DOMAIN Seals(box) :
               Seals(box)[i].type = "sealed" /\ Seals(box)[i].call \in Unclosed(box)
         /\ \A t, c : Has(Seals(box), t, c) <=> t = "sealed" /\ c \in Unclosed(box)
<1> DEFINE U == Unclosed(box)
           T == {Chunk("sealed", c, FALSE) : c \in U}
           s == SetToSeq(T)
<1>1. U \subseteq CallIds
  BY DEF Unclosed
<1>2. Seals(box) = s
  BY DEF Seals
<1> HIDE DEF U
<1>3. IsFiniteSet(T)
  <2>1. IsFiniteSet(U)
    BY <1>1, CallsFinite, FS_Subset
  <2> DEFINE f == [c \in U |-> Chunk("sealed", c, FALSE)]
  <2>2. f \in Surjection(U, T)
    BY DEF Surjection
  <2> QED
    BY <2>1, <2>2, FS_Surjection
<1>4. T \subseteq Chunks
  <2>1. ASSUME NEW c \in CallIds PROVE Chunk("sealed", c, FALSE) \in Chunks
    <3>1. "sealed" \in CallTypes /\ FALSE \in BOOLEAN
      BY DEF CallTypes
    <3> QED
      BY <3>1 DEF Chunks, Chunk
  <2> QED
    BY <1>1, <2>1
<1>5. \A e \in T : e.type = "sealed" /\ e.call \in U /\ e = Chunk("sealed", e.call, FALSE)
  BY DEF Chunk
<1>6. \A c \in U : Chunk("sealed", c, FALSE) \in T
  OBVIOUS
<1>7. \A c : Chunk("sealed", c, FALSE).type = "sealed" /\ Chunk("sealed", c, FALSE).call = c
  BY DEF Chunk
<1> HIDE DEF T
<1>8. s \in Seq(T) /\ ToSet(s) = T /\ IsInjective(s)
  BY <1>3, ListingOf
<1> HIDE DEF s
<1>9. \A i \in DOMAIN s : s[i] \in T
  BY <1>8 DEF ToSet
<1>10. \A e \in T : \E i \in DOMAIN s : s[i] = e
  BY <1>8 DEF ToSet
<1>11. s \in Seq(Chunks)
  <2>1. Seq(T) \subseteq Seq(Chunks)
    BY <1>4, Z3
  <2> QED
    BY <1>8, <2>1
<1>12. Once(s)
  <2>1. ASSUME NEW i \in DOMAIN s, NEW j \in DOMAIN s, s[i].call = s[j].call PROVE i = j
    <3>1. s[i] = s[j]
      BY <1>5, <1>9, <2>1
    <3> QED
      BY <1>8, <3>1 DEF IsInjective
  <2> QED
    BY <2>1 DEF Once
<1>13. ASSUME NEW t, NEW c PROVE Has(s, t, c) <=> t = "sealed" /\ c \in U
  <2>1. Has(s, t, c) => t = "sealed" /\ c \in U
    BY <1>5, <1>9 DEF Has
  <2>2. ASSUME t = "sealed", c \in U PROVE Has(s, t, c)
    <3>1. PICK i \in DOMAIN s : s[i] = Chunk("sealed", c, FALSE)
      BY <1>6, <1>10, <2>2
    <3> QED
      BY <1>7, <2>2, <3>1 DEF Has
  <2> QED
    BY <2>1, <2>2
<1> QED
  BY <1>2, <1>5, <1>9, <1>11, <1>12, <1>13 DEF U

(* What a call is that the outbox leaves open.                               *)
LEMMA UnclosedAre ==
  ASSUME TurnTypeOK, TurnFollows, NEW c \in Unclosed(outbox)
  PROVE  /\ c \in CallIds /\ stage[c] = "open"
         /\ Has(outbox, "start", c) /\ ~ Has(outbox, "end", c) /\ ~ Has(outbox, "sealed", c)
         /\ ~ Has(told, "end", c) /\ ~ Has(told, "sealed", c)
<1>1. /\ c \in CallIds /\ Has(outbox, "start", c)
      /\ ~ Has(outbox, "end", c) /\ ~ Has(outbox, "sealed", c)
  BY DEF Unclosed
<1>2. stage[c] = "open"
  <2>1. stage[c] # "none"
    BY <1>1 DEF TurnFollows, ChunksFollow, CallTypes
  <2>2. stage[c] # "closed"
    BY <1>1 DEF TurnFollows, ChunksFollow
  <2> QED
    BY <1>1, <2>1, <2>2 DEF TurnTypeOK
<1>3. ~ Has(told, "end", c)
  BY <1>1, <1>2 DEF TurnFollows, ChunksFollow
<1>4. ~ Has(told, "sealed", c)
  BY <1>1 DEF TurnFollows, SealsFollow
<1> QED
  BY <1>1, <1>2, <1>3, <1>4

-----------------------------------------------------------------------------
(* The pieces of a call's name.                                              *)
LEMMA CallIs ==
  ASSUME NEW c \in CallIds
  PROVE  /\ c[1] \in Attempts /\ c[2] \in Calls /\ c = <<c[1], c[2]>>
         /\ c[1] \in Nat
BY TurnAssumption DEF CallIds, Attempts

(* A chunk about a call, as the code makes it, is a chunk; it may be told.   *)
LEMMA ChunkIs ==
  ASSUME NEW type \in CallTypes, NEW c \in CallIds, NEW ok \in BOOLEAN
  PROVE  /\ Chunk(type, c, ok) \in Chunks
         /\ Chunk(type, c, ok).type = type /\ Chunk(type, c, ok).call = c
         /\ Chunk(type, c, ok).ok = ok
BY DEF Chunk, Chunks

(* Two in a row.                                                             *)
LEMMA PairIs == ASSUME NEW S, NEW d \in S, NEW e \in S PROVE <<d, e>> \in Seq(S)
<1>1. <<d, e>> \in [1 .. 2 -> S]
  OBVIOUS
<1> QED
  BY <1>1, SeqDef

(* A mark is about no call.                                                  *)
LEMMA MarkIs ==
  ASSUME NEW type \in Marks, NEW ok \in BOOLEAN
  PROVE  /\ Chunk(type, NoCall, ok) \in ToldChunks
         /\ Chunk(type, NoCall, ok).type = type /\ type \notin CallTypes
         /\ Chunk(type, NoCall, ok).ok = ok
<1>1. Chunk(type, NoCall, ok) \in [type : Marks, call : {NoCall}, ok : BOOLEAN]
  BY DEF Chunk
<1>2. type \notin CallTypes
  BY DEF Marks, CallTypes
<1> QED
  BY <1>1, <1>2 DEF ToldChunks, Chunk

(* A chunk that is queued is the end mark or about a call; so is one that is *)
(* told.                                                                     *)
LEMMA ChunksAre ==
  /\ \A e \in Chunks : e.type \in CallTypes /\ e.call \in CallIds /\ e.ok \in BOOLEAN
  /\ Chunks \subseteq ToldChunks
  /\ \A e \in ToldChunks : e.type \in CallTypes => e \in Chunks
  /\ End.type = "end-of-stream" /\ End.type \notin CallTypes
  /\ Seq(Chunks) \subseteq Seq(ToldChunks) /\ Seq(Chunks) \subseteq Seq(Chunks \cup {End})
<1>1. \A e \in Chunks : e.type \in CallTypes /\ e.call \in CallIds /\ e.ok \in BOOLEAN
  BY DEF Chunks
<1>2. Chunks \subseteq ToldChunks
  BY DEF ToldChunks
<1>3. \A e \in ToldChunks : e.type \in CallTypes => e \in Chunks
  <2>1. \A e \in [type : Marks, call : {NoCall}, ok : BOOLEAN] : e.type \notin CallTypes
    BY DEF Marks, CallTypes
  <2> QED
    BY <2>1 DEF ToldChunks
<1>4. End.type = "end-of-stream" /\ End.type \notin CallTypes
  BY DEF End, Chunk, CallTypes
<1>5. Seq(Chunks) \subseteq Seq(ToldChunks)
  BY <1>2, Z3
<1>6. Seq(Chunks) \subseteq Seq(Chunks \cup {End})
  BY Z3
<1> QED
  BY <1>1, <1>2, <1>3, <1>4, <1>5, <1>6

-----------------------------------------------------------------------------
(* A turn starts with locals of their types.                                 *)
LEMMA TurnInitTypes == TurnInit => TurnTypeOK
<1> SUFFICES ASSUME TurnInit PROVE TurnTypeOK
  OBVIOUS
<1>1. 0 \in Attempts
  BY TurnAssumption DEF Attempts
<1>2. /\ <<>> \in Seq(Chunks \cup {End}) /\ <<>> \in Seq(Chunks) /\ <<>> \in Seq(ToldChunks)
      /\ <<>> \in Seq(CallIds \X BOOLEAN)
  OBVIOUS
<1>3. queue \in [Attempts -> Seq(Chunks \cup {End})]
  BY <1>2 DEF TurnInit
<1>4. /\ loop \in [Attempts -> {"idle", "running", "returned", "left"}]
      /\ stage \in [CallIds -> {"none", "open", "closed"}]
  BY DEF TurnInit
<1>5. /\ outbox \in Seq(Chunks) /\ told \in Seq(ToldChunks)
      /\ records \in Seq(CallIds \X BOOLEAN) /\ toolCalls \in Seq(CallIds \X BOOLEAN)
  BY <1>2, Zenon DEF TurnInit
<1>6. /\ at = "setup" /\ attempt \in Attempts /\ streaming \in BOOLEAN
      /\ cursor \in Nat \ {0} /\ limit \in Nat
      /\ answer = "none" /\ step = "none" /\ verdict = "none"
  BY <1>1 DEF TurnInit
<1> QED
  BY <1>3, <1>4, <1>5, <1>6 DEF TurnTypeOK

(* What a tool loop says goes to the outbox and, of a stream, to its queue.  *)
LEMMA EmitIs ==
  ASSUME TurnTypeOK, NEW a \in Attempts, NEW e \in Chunks, Emit(a, e)
  PROVE  /\ outbox' = Append(outbox, e) /\ outbox' \in Seq(Chunks)
         /\ queue' \in [Attempts -> Seq(Chunks \cup {End})]
         /\ \A b \in Attempts : queue'[b] = IF streaming /\ b = a THEN Append(queue[b], e)
                                                                  ELSE queue[b]
         /\ \A t, c : Has(outbox', t, c) <=> Has(outbox, t, c) \/ (e.type = t /\ e.call = c)
         /\ \A b \in Attempts : \A t, c : Has(queue[b], t, c) => Has(queue'[b], t, c)
         /\ \A b \in Attempts : \A t, c :
               Has(queue'[b], t, c) => Has(queue[b], t, c) \/ (e.type = t /\ e.call = c)
         /\ streaming => Has(queue'[a], e.type, e.call)
<1>1. outbox' = Append(outbox, e)
  BY DEF Emit
<1>2. outbox' \in Seq(Chunks)
  BY <1>1 DEF TurnTypeOK
<1>3. \A b \in Attempts : queue[b] \in Seq(Chunks \cup {End})
  BY DEF TurnTypeOK
<1>4. Append(queue[a], e) \in Seq(Chunks \cup {End})
  BY <1>3, AppendProperties
<1>5. queue' \in [Attempts -> Seq(Chunks \cup {End})]
  BY <1>4 DEF TurnTypeOK, Emit
<1>6. \A b \in Attempts : queue'[b] = IF streaming /\ b = a THEN Append(queue[b], e)
                                                            ELSE queue[b]
  BY DEF TurnTypeOK, Emit
<1>7. \A t, c : Has(outbox', t, c) <=> Has(outbox, t, c) \/ (e.type = t /\ e.call = c)
  BY <1>1, HasAppend DEF TurnTypeOK
<1>8. ASSUME NEW b \in Attempts
      PROVE  /\ \A t, c : Has(queue[b], t, c) => Has(queue'[b], t, c)
             /\ \A t, c : Has(queue'[b], t, c) => Has(queue[b], t, c) \/ (e.type = t /\ e.call = c)
             /\ streaming /\ b = a => Has(queue'[b], e.type, e.call)
  <2>1. \A t, c : Has(Append(queue[b], e), t, c) <=> Has(queue[b], t, c)
                                                     \/ (e.type = t /\ e.call = c)
    <3>1. e \in Chunks \cup {End}
      OBVIOUS
    <3> QED
      BY <1>3, <3>1, HasAppend
  <2> QED
    BY <1>6, <2>1
<1>9. streaming => Has(queue'[a], e.type, e.call)
  BY <1>8
<1> QED
  BY <1>1, <1>2, <1>5, <1>6, <1>7, <1>8, <1>9

(* The step of a tool loop keeps the types.                                  *)
LEMMA LoopTypes ==
  ASSUME TurnTypeOK, NEW a \in Attempts,
         \/ Reported(a)
         \/ \E c \in Calls : CallStarts(a, c) \/ CallEnds(a, c)
  PROVE  TurnTypeOK'
<1>1. ASSUME Reported(a) PROVE TurnTypeOK'
  <2>1. PICK how \in {"returned", "left"},
             status \in {"ready", "partial", "failed", "skipped"} : Report(a, how, status)
    BY <1>1 DEF Reported, LoopReturns, LoopLeft, LoopCancelled
  <2>2. Append(queue[a], End) \in Seq(Chunks \cup {End})
    BY DEF TurnTypeOK
  <2>3. queue' \in [Attempts -> Seq(Chunks \cup {End})]
    BY <2>1, <2>2 DEF TurnTypeOK, Report
  <2>4. loop' \in [Attempts -> {"idle", "running", "returned", "left"}]
    BY <2>1 DEF TurnTypeOK, Report
  <2> QED
    BY <2>1, <2>3, <2>4 DEF TurnTypeOK, Report, flushVars, answerVars
<1>2. ASSUME NEW k \in Calls, CallStarts(a, k) PROVE TurnTypeOK'
  <2>1. <<a, k>> \in CallIds
    BY DEF CallIds
  <2>2. Chunk("start", <<a, k>>, TRUE) \in Chunks
    BY <2>1, ChunkIs DEF CallTypes
  <2>3. outbox' \in Seq(Chunks) /\ queue' \in [Attempts -> Seq(Chunks \cup {End})]
    BY <1>2, <2>2, EmitIs DEF CallStarts
  <2>4. stage' \in [CallIds -> {"none", "open", "closed"}]
    BY <1>2 DEF TurnTypeOK, CallStarts
  <2> QED
    BY <1>2, <2>3, <2>4 DEF TurnTypeOK, CallStarts, flushVars, answerVars
<1>3. ASSUME NEW k \in Calls, CallEnds(a, k) PROVE TurnTypeOK'
  <2>1. <<a, k>> \in CallIds
    BY DEF CallIds
  <2>2. PICK ok \in BOOLEAN :
             /\ Emit(a, Chunk("end", <<a, k>>, ok))
             /\ records' = Append(records, <<<<a, k>>, ok>>)
    BY <1>3 DEF CallEnds
  <2>3. Chunk("end", <<a, k>>, ok) \in Chunks
    BY <2>1, ChunkIs DEF CallTypes
  <2>4. outbox' \in Seq(Chunks) /\ queue' \in [Attempts -> Seq(Chunks \cup {End})]
    BY <2>2, <2>3, EmitIs
  <2>5. records' \in Seq(CallIds \X BOOLEAN)
    <3>1. <<<<a, k>>, ok>> \in CallIds \X BOOLEAN
      BY <2>1
    <3> QED
      BY <2>2, <3>1, AppendProperties DEF TurnTypeOK
  <2>6. stage' \in [CallIds -> {"none", "open", "closed"}]
    BY <1>3 DEF TurnTypeOK, CallEnds
  <2> QED
    BY <1>3, <2>4, <2>5, <2>6 DEF TurnTypeOK, CallEnds, flushVars, answerVars
<1> QED
  BY <1>1, <1>2, <1>3

(* So does the step of the turn.                                             *)
LEMMA TurnStepTypes ==
  ASSUME TurnTypeOK, at # "ended" => TurnFollows, TurnStep
  PROVE  TurnTypeOK'
<1> USE DEF workVars, flushVars, answerVars
<1>1. CASE TurnStart
  BY <1>1 DEF TurnTypeOK, TurnStart
<1>2. CASE BeginAttempt
  <2>1. loop' \in [Attempts -> {"idle", "running", "returned", "left"}]
    BY <1>2 DEF TurnTypeOK, BeginAttempt
  <2>2. outbox' \in Seq(Chunks) /\ records' \in Seq(CallIds \X BOOLEAN)
        /\ toolCalls' \in Seq(CallIds \X BOOLEAN)
    BY <1>2 DEF BeginAttempt
  <2> QED
    BY <1>2, <2>1, <2>2 DEF TurnTypeOK, BeginAttempt
<1>3. CASE Deliver
  <2>1. queue[attempt] \in Seq(Chunks \cup {End}) /\ queue[attempt] # <<>>
    BY <1>3 DEF TurnTypeOK, Deliver
  <2>2. Tail(queue[attempt]) \in Seq(Chunks \cup {End}) /\ Head(queue[attempt]) \in Chunks \cup {End}
    BY <2>1, HeadTailProperties
  <2>3. queue' \in [Attempts -> Seq(Chunks \cup {End})]
    BY <1>3, <2>2 DEF TurnTypeOK, Deliver
  <2>4. CASE Head(queue[attempt]) = End
    BY <1>3, <2>3, <2>4 DEF TurnTypeOK, Deliver
  <2>5. CASE Head(queue[attempt]) # End
    <3>1. Head(queue[attempt]) \in ToldChunks
      BY <2>2, <2>5, ChunksAre
    <3>2. told' \in Seq(ToldChunks)
      <4>1. told' = Append(told, Head(queue[attempt])) /\ told \in Seq(ToldChunks)
        BY <1>3, <2>5 DEF TurnTypeOK, Deliver
      <4> QED
        BY <3>1, <4>1, AppendProperties
    <3> QED
      BY <1>3, <2>3, <2>5, <3>2 DEF TurnTypeOK, Deliver
  <2> QED
    BY <2>4, <2>5
<1>4. CASE Await
  BY <1>4 DEF TurnTypeOK, Await
<1>5. CASE FlushStarts
  <2>1. outbox' \in Seq(Chunks)
    BY <1>5, SealsAre, ConcatProperties DEF TurnTypeOK, FlushStarts
  <2>2. Len(outbox) \in Nat
    BY LenProperties DEF TurnTypeOK
  <2>3. cursor' \in Nat \ {0}
    BY <1>5, <2>2 DEF FlushStarts
  <2>4. Len(outbox') \in Nat
    BY <2>1, LenProperties
  <2> QED
    BY <1>5, <2>1, <2>3, <2>4 DEF TurnTypeOK, FlushStarts
<1>6. CASE FlushYields
  <2>1. cursor \in Nat \ {0} /\ cursor + 1 \in Nat \ {0}
    BY DEF TurnTypeOK
  <2>2. outbox \in Seq(Chunks) /\ told \in Seq(ToldChunks) /\ Len(outbox) \in Nat
    BY LenProperties DEF TurnTypeOK
  <2>3. cursor <= Len(outbox)
    <3>1. limit \in Nat /\ limit <= Len(outbox)
      BY <1>6 DEF TurnTypeOK, FlushYields, TurnFollows, SealsFlushed, Flushed
    <3> QED
      BY <1>6, <2>1, <2>2, <3>1 DEF FlushYields, FlushLeft
  <2>4. outbox[cursor] \in ToldChunks
    BY <2>1, <2>2, <2>3, ChunksAre, IndicesAre
  <2>5. told' \in Seq(ToldChunks)
    <3>1. told' = Append(told, outbox[cursor])
      BY <1>6 DEF FlushYields
    <3> QED
      BY <2>2, <2>4, <3>1, AppendProperties
  <2> QED
    BY <1>6, <2>1, <2>5 DEF TurnTypeOK, FlushYields
<1>7. CASE FlushEnds
  <2>1. toolCalls' \in Seq(CallIds \X BOOLEAN)
    BY <1>7, ConcatProperties DEF TurnTypeOK, FlushEnds
  <2> QED
    BY <1>7, <2>1 DEF TurnTypeOK, FlushEnds
<1>8. CASE Validate
  <2>1. PICK v \in Verdicts :
          /\ verdict' = v
          /\ IF Retries(v) THEN at' = "attempt" /\ attempt' = attempt + 1 /\ UNCHANGED told
                ELSE /\ at' = "stopping" /\ UNCHANGED attempt
                     /\ told' = Append(told, Chunk("turnStop", NoCall, TRUE))
    BY <1>8 DEF Validate
  <2>2. verdict' \in {"pass", "retry", "reject"}
    BY <2>1 DEF Verdicts
  <2>3. CASE Retries(v)
    <3>1. attempt' \in Attempts
      BY <2>1, <2>3, TurnAssumption DEF Retries, TurnTypeOK, Attempts
    <3> QED
      BY <1>8, <2>1, <2>2, <2>3, <3>1 DEF TurnTypeOK, Validate
  <2>4. CASE ~ Retries(v)
    <3>1. Chunk("turnStop", NoCall, TRUE) \in ToldChunks
      BY MarkIs DEF Marks
    <3>2. told' = Append(told, Chunk("turnStop", NoCall, TRUE)) /\ told \in Seq(ToldChunks)
      BY <2>1, <2>4 DEF TurnTypeOK
    <3>3. told' \in Seq(ToldChunks)
      BY <3>1, <3>2, AppendProperties
    <3> QED
      BY <1>8, <2>1, <2>2, <2>4, <3>3 DEF TurnTypeOK, Validate
  <2> QED
    BY <2>3, <2>4
<1>9. CASE YieldDone
  <2>1. Chunk(TurnOutcome, NoCall, TRUE) \in ToldChunks
    <3>1. TurnOutcome \in Marks
      BY DEF TurnOutcome, Marks
    <3> QED
      BY <3>1, MarkIs
  <2>2. told' \in Seq(ToldChunks)
    BY <1>9, <2>1, AppendProperties DEF TurnTypeOK, YieldDone
  <2>3. answer' \in {"none", "draft", "results", "fallback"}
    BY <1>9 DEF YieldDone, OutputText
  <2> QED
    BY <1>9, <2>2, <2>3 DEF TurnTypeOK, YieldDone
<1>10. CASE PhaseThrows
  <2>1. outbox' \in Seq(Chunks) /\ Seals(outbox) \in Seq(Chunks)
    BY <1>10, SealsAre, ConcatProperties DEF TurnTypeOK, PhaseThrows
  <2>2. Len(outbox') \in Nat
    BY <2>1, LenProperties
  <2>3. Chunk("error", NoCall, FALSE) \in ToldChunks /\ Chunk("failed", NoCall, FALSE) \in ToldChunks
    BY MarkIs DEF Marks
  <2>4. <<Chunk("error", NoCall, FALSE), Chunk("failed", NoCall, FALSE)>> \in Seq(ToldChunks)
    BY <2>3, PairIs
  <2>5. (IF streaming THEN Seals(outbox) ELSE outbox') \in Seq(ToldChunks)
    BY <2>1, ChunksAre
  <2>6. told' \in Seq(ToldChunks)
    <3>1. told \o (IF streaming THEN Seals(outbox) ELSE outbox') \in Seq(ToldChunks)
      BY <2>5, ConcatProperties DEF TurnTypeOK
    <3> QED
      BY <1>10, <2>4, <3>1, ConcatProperties DEF PhaseThrows
  <2> QED
    BY <1>10, <2>1, <2>2, <2>6 DEF TurnTypeOK, PhaseThrows
<1> QED
  BY <1>1, <1>2, <1>3, <1>4, <1>5, <1>6, <1>7, <1>8, <1>9, <1>10 DEF TurnStep

-----------------------------------------------------------------------------
(* A turn in which nothing has happened.                                     *)
Fresh ==
    /\ at \in {"setup", "attempt"} /\ attempt = 0 /\ answer = "none"
    /\ \A b \in Attempts : loop[b] = "idle" /\ queue[b] = <<>>
    /\ \A c \in CallIds : stage[c] = "none"
    /\ outbox = <<>> /\ records = <<>> /\ toolCalls = <<>> /\ told = <<>>

(* Nothing that has not happened is out of order.                            *)
LEMMA FreshFollows == TurnTypeOK /\ Fresh => TurnFollows
<1> SUFFICES ASSUME TurnTypeOK, Fresh PROVE TurnFollows
  OBVIOUS
<1>1. \A b \in Attempts : ~ (b < 0)
  BY TurnAssumption DEF Attempts
<1>2. \A b \in Attempts, k \in Calls : <<b, k>> \in CallIds
  BY DEF CallIds
<1>3. \A c \in CallIds : c[1] \in Attempts
  BY CallIs
<1>4. attempt \in Attempts
  BY DEF TurnTypeOK
<1> USE EmptyBox
<1>5. SetupFollows
  BY DEF Fresh, SetupFollows
<1>6. LoopsFollow
  BY <1>1, <1>2 DEF Fresh, LoopsFollow, AfterExecution
<1>7. ChunksFollow
  BY <1>3 DEF Fresh, ChunksFollow
<1>8. QueuesFollow
  BY DEF Fresh, QueuesFollow, AfterExecution
<1>9. ToldOnce
  BY <1>3 DEF Fresh, ToldOnce
<1>10. SealsFollow
  BY DEF Fresh, SealsFollow
<1>11. SealsFlushed
  BY DEF Fresh, SealsFlushed, Flushed
<1>12. OutboxFlushed
  BY DEF Fresh, OutboxFlushed, Flushed
<1>13. EndsRecorded
  BY <1>4 DEF Fresh, EndsRecorded
<1>14. EndsInOrder
  BY DEF Fresh, EndsInOrder
<1>15. MetadataFollows
  BY DEF Fresh, MetadataFollows
<1>16. EndFollows
  BY DEF Fresh, EndFollows
<1> QED
  BY <1>5, <1>6, <1>7, <1>8, <1>9, <1>10, <1>11, <1>12, <1>13, <1>14, <1>15, <1>16 DEF TurnFollows

(* So it is as a turn begins,                                                *)
LEMMA InitFollows == TurnInit => TurnFollows
<1>1. TurnInit => Fresh
  BY DEF TurnInit, Fresh
<1> QED
  BY <1>1, TurnInitTypes, FreshFollows

(* and as its first attempt is due.                                          *)
LEMMA TurnStartKeeps ==
  ASSUME TurnTypeOK, TurnTypeOK', TurnFollows, TurnStart
  PROVE  TurnFollows'
<1>1. Fresh'
  <2>1. /\ at = "setup" /\ at' = "attempt" /\ attempt' = attempt
        /\ loop' = loop /\ stage' = stage /\ queue' = queue /\ outbox' = outbox
        /\ records' = records /\ toolCalls' = toolCalls /\ answer' = answer /\ told' = told
    BY DEF TurnStart, workVars, flushVars, answerVars
  <2>2. /\ attempt = 0 /\ outbox = <<>> /\ records = <<>> /\ toolCalls = <<>> /\ told = <<>>
        /\ \A b \in Attempts : queue[b] = <<>>
    BY <2>1 DEF TurnFollows, SetupFollows
  <2>3. \A b \in Attempts : loop[b] = "idle"
    <3>1. \A b \in Attempts : b > 0 \/ b = 0
      BY TurnAssumption DEF Attempts
    <3> QED
      BY <2>1, <2>2, <3>1 DEF TurnFollows, LoopsFollow
  <2>4. ASSUME NEW c \in CallIds PROVE stage[c] = "none"
    <3>1. c[1] \in Attempts /\ c[2] \in Calls /\ c = <<c[1], c[2]>>
      BY CallIs
    <3>2. stage[<<c[1], c[2]>>] = "none"
      BY <2>3, <3>1 DEF TurnFollows, LoopsFollow
    <3> QED
      BY <3>1, <3>2
  <2>5. answer = "none"
    BY DEF TurnFollows, EndFollows
  <2> QED
    BY <2>1, <2>2, <2>3, <2>4, <2>5 DEF Fresh
<1>2. (TurnTypeOK /\ Fresh => TurnFollows)'
  BY FreshFollows, PTL
<1> QED
  BY <1>1, <1>2

-----------------------------------------------------------------------------
(* Nothing was said of the calls of a loop that is idle.                     *)
LEMMA IdleSilent ==
  ASSUME TurnTypeOK, TurnFollows, NEW c \in CallIds, loop[c[1]] = "idle"
  PROVE  /\ stage[c] = "none"
         /\ \A t \in CallTypes :
               ~ Has(outbox, t, c) /\ ~ Has(told, t, c) /\ ~ Has(queue[c[1]], t, c)
         /\ \A p \in DOMAIN records : records[p][1] # c
<1>1. c[1] \in Attempts /\ c[2] \in Calls /\ c = <<c[1], c[2]>>
  BY CallIs
<1>2. stage[<<c[1], c[2]>>] = "none"
  BY <1>1 DEF TurnFollows, LoopsFollow
<1>3. stage[c] = "none"
  BY <1>1, <1>2
<1> QED
  BY <1>3 DEF TurnFollows, ChunksFollow

(* The queue of a loop that is idle is empty.                                *)
LEMMA IdleQueueEmpty ==
  ASSUME TurnTypeOK, TurnFollows, NEW b \in Attempts, loop[b] = "idle"
  PROVE  queue[b] = <<>>
<1>1. queue[b] \in Seq(Chunks \cup {End})
  BY DEF TurnTypeOK
<1>2. \A i \in DOMAIN queue[b] : queue[b][i].type \in {"start", "end"} /\ queue[b][i].call[1] = b
  BY DEF TurnFollows, QueuesFollow
<1>3. ASSUME NEW i \in DOMAIN queue[b] PROVE FALSE
  <2>1. queue[b][i] \in Chunks
    <3>1. queue[b][i] \in Chunks \cup {End} /\ queue[b][i].type \in {"start", "end"}
      BY <1>1, <1>2, IndicesAre
    <3> QED
      BY <3>1, ChunksAre
  <2>2. queue[b][i].call \in CallIds /\ queue[b][i].type \in CallTypes /\ queue[b][i].call[1] = b
    BY <1>2, <2>1, ChunksAre
  <2>3. Has(queue[b], queue[b][i].type, queue[b][i].call)
    BY DEF Has
  <2> QED
    BY <2>2, <2>3, IdleSilent
<1>4. 1 \notin DOMAIN queue[b]
  BY <1>3
<1> QED
  BY <1>1, <1>4, TailAt

(* A chunk that is there is about a call whose stage says so.                *)
LEMMA SaidOfCalls ==
  ASSUME TurnTypeOK, TurnFollows, NEW c \in CallIds, NEW t \in CallTypes,
         Has(outbox, t, c) \/ Has(told, t, c) \/ Has(queue[c[1]], t, c)
  PROVE  stage[c] # "none" /\ (t = "end" => stage[c] = "closed")
BY DEF TurnFollows, ChunksFollow

(* A record is about a call that is closed.                                  *)
LEMMA RecordedClosed ==
  ASSUME TurnTypeOK, TurnFollows, NEW p \in DOMAIN records
  PROVE  /\ records[p][1] \in CallIds /\ records[p][2] \in BOOLEAN
         /\ records[p] = <<records[p][1], records[p][2]>>
         /\ stage[records[p][1]] = "closed"
<1>1. records[p] \in CallIds \X BOOLEAN
  BY IndicesAre DEF TurnTypeOK
<1>2. stage[records[p][1]] = "closed"
  BY <1>1 DEF TurnFollows, ChunksFollow
<1> QED
  BY <1>1, <1>2

(* An attempt begins with empty buckets and a loop of its own.               *)
LEMMA BeginAttemptKeeps ==
  ASSUME TurnTypeOK, TurnTypeOK', TurnFollows, BeginAttempt
  PROVE  TurnFollows'
<1>1. /\ at = "attempt" /\ at' = "executing" /\ step' = "none" /\ attempt' = attempt
      /\ streaming' = streaming /\ stage' = stage /\ queue' = queue /\ answer' = answer
      /\ told' = told /\ outbox' = <<>> /\ records' = <<>> /\ toolCalls' = <<>>
      /\ verdict' = verdict /\ cursor' = cursor /\ limit' = limit
  BY DEF BeginAttempt, flushVars
<1>2. attempt \in Attempts /\ loop[attempt] = "idle"
  BY <1>1 DEF TurnTypeOK, TurnFollows, LoopsFollow
<1>3. \A b \in Attempts : loop'[b] = IF b = attempt THEN "running" ELSE loop[b]
  BY DEF TurnTypeOK, BeginAttempt
<1>4. ASSUME NEW c \in CallIds, c[1] = attempt
      PROVE  /\ stage[c] = "none"
             /\ \A t \in CallTypes : ~ Has(told, t, c) /\ ~ Has(queue[c[1]], t, c)
  BY <1>2, <1>4, IdleSilent
<1>5. queue[attempt] = <<>>
  BY <1>2, IdleQueueEmpty
<1> USE EmptyBox
<1>6. SetupFollows'
  BY <1>1 DEF SetupFollows
<1>7. LoopsFollow'
  <2>1. \A k \in Calls : <<attempt, k>> \in CallIds /\ <<attempt, k>>[1] = attempt
    BY <1>2 DEF CallIds
  <2>2. \A k \in Calls : stage[<<attempt, k>>] = "none"
    BY <1>4, <2>1
  <2>3. attempt \in Nat /\ \A b \in Attempts : b \in Nat
    BY <1>2 DEF Attempts
  <2> QED
    BY <1>1, <1>2, <1>3, <2>2, <2>3 DEF TurnFollows, LoopsFollow, AfterExecution
<1>8. ChunksFollow'
  BY <1>1, <1>4 DEF TurnFollows, ChunksFollow
<1>9. QueuesFollow'
  <2>1. ASSUME NEW b \in Attempts
        PROVE  /\ streaming \/ queue[b] = <<>>
               /\ \A i \in DOMAIN queue[b] :
                     \/ /\ queue[b][i] = End /\ loop'[b] \in {"returned", "left"}
                        /\ loop'[b] = "returned" => i = Len(queue[b])
                     \/ queue[b][i].type \in {"start", "end"} /\ queue[b][i].call[1] = b
    <3>1. CASE b = attempt
      BY <1>5, <3>1
    <3>2. CASE b # attempt
      BY <1>3, <3>2 DEF TurnFollows, QueuesFollow
    <3> QED
      BY <3>1, <3>2
  <2> QED
    BY <1>1, <2>1 DEF QueuesFollow, AfterExecution
<1>10. ToldOnce'
  BY <1>1 DEF TurnFollows, ToldOnce
<1>11. SealsFollow'
  <2>1. ASSUME NEW c \in CallIds, Has(told, "sealed", c)
        PROVE  loop'[c[1]] = "left" /\ c[1] # attempt
    <3>1. c[1] \in Attempts /\ c[1] # attempt
      BY <1>4, <2>1, CallIs DEF CallTypes
    <3> QED
      BY <1>3, <2>1, <3>1 DEF TurnFollows, SealsFollow
  <2> QED
    BY <1>1, <2>1 DEF SealsFollow
<1>12. SealsFlushed'
  BY <1>1 DEF SealsFlushed, Flushed
<1>13. OutboxFlushed'
  BY <1>1 DEF OutboxFlushed, Flushed
<1>14. EndsRecorded'
  <2>1. Recorded(told, <<>>, attempt)
    <3>1. ASSUME NEW i \in DOMAIN told, told[i].type = "end", told[i].call[1] = attempt PROVE FALSE
      <4>1. told[i] \in Chunks
        <5>1. told[i] \in ToldChunks
          BY IndicesAre DEF TurnTypeOK
        <5> QED
          BY <3>1, <5>1, ChunksAre DEF CallTypes
      <4>2. told[i].call \in CallIds /\ Has(told, "end", told[i].call)
        BY <3>1, <4>1, ChunksAre DEF Has
      <4> QED
        BY <1>4, <3>1, <4>2 DEF CallTypes
    <3> QED
      BY <3>1 DEF Recorded
  <2>2. \A c \in CallIds : ~ (c[1] = attempt /\ stage[c] = "closed")
    BY <1>4
  <2> QED
    BY <1>1, <1>5, <2>1, <2>2 DEF EndsRecorded
<1>15. EndsInOrder'
  BY <1>1 DEF EndsInOrder
<1>16. MetadataFollows'
  BY <1>1 DEF MetadataFollows
<1>17. EndFollows'
  BY <1>1 DEF TurnFollows, EndFollows, Is
<1> QED
  BY <1>6, <1>7, <1>8, <1>9, <1>10, <1>11, <1>12, <1>13, <1>14, <1>15, <1>16, <1>17 DEF TurnFollows

-----------------------------------------------------------------------------
(* A chunk of a call that a tool loop says: what the outbox and the queue of *)
(* its attempt become.                                                       *)
LEMMA SaidAt ==
  ASSUME TurnTypeOK, NEW a \in Attempts, NEW e \in Chunks, Emit(a, e)
  PROVE  /\ Len(outbox) \in Nat /\ Len(outbox') = Len(outbox) + 1
         /\ DOMAIN outbox \subseteq Nat \ {0}
         /\ \A i : i \in DOMAIN outbox' <=> i \in DOMAIN outbox \/ i = Len(outbox) + 1
         /\ \A i \in DOMAIN outbox : outbox'[i] = outbox[i]
         /\ \A i \in Nat \ {0} : i <= Len(outbox) => i \in DOMAIN outbox
         /\ outbox'[Len(outbox) + 1] = e
<1>1. outbox \in Seq(Chunks) /\ outbox' = Append(outbox, e)
  BY DEF TurnTypeOK, Emit
<1>2. \A i \in Nat \ {0} : i <= Len(outbox) => i \in DOMAIN outbox
  BY <1>1, IndicesAre
<1> QED
  BY <1>1, <1>2, AppendAt

(* The queues stay in order: a chunk of a loop that has not returned.        *)
LEMMA EmitKeepsQueues ==
  ASSUME TurnTypeOK, TurnFollows, NEW a \in Attempts, NEW e \in Chunks, Emit(a, e),
         e.type \in {"start", "end"}, e.call[1] = a, loop[a] # "returned",
         loop' = loop, at' = at, attempt' = attempt, streaming' = streaming
  PROVE  QueuesFollow'
<1>1. \A b \in Attempts : queue'[b] = IF streaming /\ b = a THEN Append(queue[b], e)
                                                            ELSE queue[b]
  BY EmitIs
<1>2. ASSUME NEW b \in Attempts
      PROVE  /\ streaming \/ queue'[b] = <<>>
             /\ \A i \in DOMAIN queue'[b] :
                   \/ /\ queue'[b][i] = End /\ loop[b] \in {"returned", "left"}
                      /\ loop[b] = "returned" => i = Len(queue'[b])
                   \/ queue'[b][i].type \in {"start", "end"} /\ queue'[b][i].call[1] = b
  <2>1. CASE streaming /\ b = a
    <3>1. queue[b] \in Seq(Chunks \cup {End}) /\ e \in Chunks \cup {End}
      BY DEF TurnTypeOK
    <3>2. queue'[b] = Append(queue[b], e)
      BY <1>1, <2>1
    <3>3. /\ \A i : i \in DOMAIN queue'[b] <=> i \in DOMAIN queue[b] \/ i = Len(queue[b]) + 1
          /\ \A i \in DOMAIN queue[b] : queue'[b][i] = queue[b][i]
          /\ queue'[b][Len(queue[b]) + 1] = e
      BY <3>1, <3>2, AppendAt
    <3>4. \A i \in DOMAIN queue[b] :
             \/ queue[b][i] = End /\ loop[b] \in {"returned", "left"}
             \/ queue[b][i].type \in {"start", "end"} /\ queue[b][i].call[1] = b
      BY DEF TurnFollows, QueuesFollow
    <3> QED
      BY <2>1, <3>3, <3>4
  <2>2. CASE ~ (streaming /\ b = a)
    <3>1. queue'[b] = queue[b]
      BY <1>1, <2>2
    <3> QED
      BY <3>1 DEF TurnFollows, QueuesFollow
  <2> QED
    BY <2>1, <2>2
<1>3. at \in AfterExecution /\ loop[attempt] = "returned" => queue'[attempt] = <<>>
  <2>1. attempt \in Attempts
    BY DEF TurnTypeOK
  <2>2. loop[attempt] = "returned" => queue'[attempt] = queue[attempt]
    BY <1>1, <2>1
  <2> QED
    BY <2>2 DEF TurnFollows, QueuesFollow
<1> QED
  BY <1>2, <1>3 DEF QueuesFollow

(* Nothing is said twice: a chunk that is new in the outbox, in what was     *)
(* told and in the queue.                                                    *)
LEMMA EmitKeepsOnce ==
  ASSUME TurnTypeOK, TurnFollows, NEW a \in Attempts, NEW e \in Chunks, Emit(a, e),
         e.call[1] = a, ~ Has(outbox, e.type, e.call), ~ Has(told, e.type, e.call),
         ~ Has(queue[a], e.type, e.call), told' = told, streaming' = streaming
  PROVE  ToldOnce'
<1>1. outbox' = Append(outbox, e)
      /\ \A b \in Attempts : queue'[b] = IF streaming /\ b = a THEN Append(queue[b], e)
                                                               ELSE queue[b]
  BY EmitIs
<1>2. \A b \in Attempts : \A t, c :
         Has(queue'[b], t, c) <=> \/ Has(queue[b], t, c)
                                  \/ streaming /\ b = a /\ e.type = t /\ e.call = c
  <2> TAKE b \in Attempts
  <2>1. /\ queue'[b] = IF streaming /\ b = a THEN Append(queue[b], e) ELSE queue[b]
        /\ queue[b] \in Seq(Chunks \cup {End}) /\ e \in Chunks \cup {End}
    BY <1>1 DEF TurnTypeOK
  <2>2. \A t, c : Has(Append(queue[b], e), t, c) <=> Has(queue[b], t, c)
                                                     \/ (e.type = t /\ e.call = c)
    BY <2>1, HasAppend
  <2> QED
    BY <2>1, <2>2
<1>3. Once(outbox')
  BY <1>1, OnceAppend DEF TurnTypeOK, TurnFollows, ToldOnce
<1>4. ASSUME NEW b \in Attempts PROVE Once(queue'[b])
  <2>1. Once(queue[b]) /\ queue[b] \in Seq(Chunks \cup {End}) /\ e \in Chunks \cup {End}
    BY DEF TurnTypeOK, TurnFollows, ToldOnce
  <2>2. ~ Has(queue[a], e.type, e.call) /\ b = a => Once(Append(queue[b], e))
    BY <2>1, OnceAppend
  <2> QED
    BY <1>1, <2>1, <2>2
<1>5. streaming => \A c \in CallIds :
          /\ \A t \in {"start", "end"} : Has(told, t, c) => ~ Has(queue'[c[1]], t, c)
          /\ ~ (Has(told, "end", c) /\ Has(told, "sealed", c))
  <2> SUFFICES ASSUME streaming, NEW c \in CallIds
               PROVE  /\ \A t \in {"start", "end"} : Has(told, t, c) => ~ Has(queue'[c[1]], t, c)
                      /\ ~ (Has(told, "end", c) /\ Has(told, "sealed", c))
    OBVIOUS
  <2>1. c[1] \in Attempts
    BY CallIs
  <2>2. /\ \A t \in {"start", "end"} : Has(told, t, c) => ~ Has(queue[c[1]], t, c)
        /\ ~ (Has(told, "end", c) /\ Has(told, "sealed", c))
    BY DEF TurnFollows, ToldOnce
  <2> QED
    BY <1>2, <2>1, <2>2
<1> QED
  BY <1>3, <1>4, <1>5 DEF TurnFollows, ToldOnce

(* The flush in progress is not disturbed by what a loop adds behind it.     *)
LEMMA EmitKeepsFlush ==
  ASSUME TurnTypeOK, TurnFollows, NEW a \in Attempts, NEW e \in Chunks, Emit(a, e),
         ~ Has(told, e.type, e.call), e.type = "start" => e.ok,
         told' = told, streaming' = streaming, at' = at, attempt' = attempt,
         cursor' = cursor, limit' = limit
  PROVE  SealsFlushed' /\ OutboxFlushed'
<1>1. /\ Len(outbox) \in Nat /\ Len(outbox') = Len(outbox) + 1
      /\ DOMAIN outbox \subseteq Nat \ {0}
      /\ \A i : i \in DOMAIN outbox' <=> i \in DOMAIN outbox \/ i = Len(outbox) + 1
      /\ \A i \in DOMAIN outbox : outbox'[i] = outbox[i]
      /\ \A i \in Nat \ {0} : i <= Len(outbox) => i \in DOMAIN outbox
      /\ outbox'[Len(outbox) + 1] = e
  BY SaidAt
<1>2. cursor \in Nat \ {0} /\ limit \in Nat /\ attempt \in Attempts
  BY DEF TurnTypeOK
<1>3. \A i \in Nat \ {0} : i <= Len(outbox) => outbox'[i] = outbox[i]
  BY <1>1
<1>4. \A c : Has(queue[attempt], "end", c) => Has(queue'[attempt], "end", c)
  BY <1>2, EmitIs
<1>5. ASSUME at \in Flushed
      PROVE  /\ limit <= Len(outbox) /\ \A i \in 1 .. limit : outbox'[i] = outbox[i]
             /\ \A i \in cursor .. limit : i \in 1 .. limit
  <2>1. limit <= Len(outbox)
    BY <1>5 DEF TurnFollows, SealsFlushed
  <2>2. \A i \in 1 .. limit : i \in Nat \ {0} /\ i <= Len(outbox)
    BY <1>1, <1>2, <2>1
  <2>3. \A i \in cursor .. limit : i \in 1 .. limit
    BY <1>2
  <2> QED
    BY <1>3, <2>1, <2>2, <2>3
<1>6. SealsFlushed'
  <2>1. at \in Flushed => limit <= Len(outbox')
    BY <1>1, <1>2, <1>5
  <2>2. at \in {"validating", "stopping"} => cursor > limit
    BY DEF TurnFollows, SealsFlushed
  <2>3. ASSUME at \in Flushed, streaming, NEW i \in cursor .. limit
        PROVE  /\ outbox'[i].type = "sealed"
               /\ ~ Has(told, "sealed", outbox'[i].call) /\ ~ Has(told, "end", outbox'[i].call)
    BY <1>5, <2>3 DEF TurnFollows, SealsFlushed
  <2>4. ASSUME at \in Flushed, streaming, NEW c \in CallIds, c[1] = attempt, Has(told, "start", c)
        PROVE  \/ Has(told, "end", c) \/ Has(told, "sealed", c) \/ Has(queue'[attempt], "end", c)
               \/ \E i \in cursor .. limit : outbox'[i].type = "sealed" /\ outbox'[i].call = c
    <3>1. \/ Has(told, "end", c) \/ Has(told, "sealed", c) \/ Has(queue[attempt], "end", c)
          \/ \E i \in cursor .. limit : outbox[i].type = "sealed" /\ outbox[i].call = c
      BY <2>4 DEF TurnFollows, SealsFlushed
    <3>2. ASSUME NEW i \in cursor .. limit, outbox[i].type = "sealed" /\ outbox[i].call = c
          PROVE  outbox'[i].type = "sealed" /\ outbox'[i].call = c
      <4>1. outbox'[i] = outbox[i]
        BY <1>5, <2>4
      <4> QED
        BY <3>2, <4>1
    <3>3. CASE \E i \in cursor .. limit : outbox[i].type = "sealed" /\ outbox[i].call = c
      BY <3>2, <3>3
    <3>4. Has(queue[attempt], "end", c) => Has(queue'[attempt], "end", c)
      BY <1>4
    <3> QED
      BY <3>1, <3>3, <3>4, Zenon
  <2> QED
    BY <2>1, <2>2, <2>3, <2>4 DEF SealsFlushed
<1>7. OutboxFlushed'
  <2>1. ASSUME at \in Flushed, ~ streaming
        PROVE  /\ cursor <= Len(outbox') + 1
               /\ \A i \in 1 .. cursor - 1 : Has(told, outbox'[i].type, outbox'[i].call)
               /\ \A i \in 1 .. limit : outbox'[i].type = "start" =>
                     \E j \in 1 .. limit : outbox'[j].call = outbox'[i].call
                                           /\ outbox'[j].type \in Ends
    <3>1. /\ cursor <= Len(outbox) + 1
          /\ \A i \in 1 .. cursor - 1 : Has(told, outbox[i].type, outbox[i].call)
          /\ \A i \in 1 .. limit : outbox[i].type = "start" =>
                \E j \in 1 .. limit : outbox[j].call = outbox[i].call /\ outbox[j].type \in Ends
      BY <2>1 DEF TurnFollows, OutboxFlushed
    <3>2. \A i \in 1 .. cursor - 1 : i \in Nat \ {0} /\ i <= Len(outbox)
      BY <1>1, <1>2, <3>1
    <3>3. cursor <= Len(outbox') + 1
      BY <1>1, <1>2, <3>1
    <3>4. \A i \in 1 .. cursor - 1 : Has(told, outbox'[i].type, outbox'[i].call)
      BY <1>3, <3>1, <3>2
    <3> QED
      BY <1>5, <2>1, <3>1, <3>3, <3>4
  <2>2. ASSUME ~ streaming, NEW i \in DOMAIN outbox', Has(told, outbox'[i].type, outbox'[i].call)
        PROVE  i < cursor /\ at \notin {"executing", "executed"}
    <3>1. i \in DOMAIN outbox /\ outbox'[i] = outbox[i]
      BY <1>1, <2>2
    <3> QED
      BY <2>2, <3>1 DEF TurnFollows, OutboxFlushed
  <2>3. \A i \in DOMAIN outbox' : outbox'[i].type = "start" => outbox'[i].ok
    BY <1>1 DEF TurnFollows, OutboxFlushed
  <2> QED
    BY <2>1, <2>2, <2>3 DEF OutboxFlushed
<1> QED
  BY <1>6, <1>7

-----------------------------------------------------------------------------
(* A call starts.                                                            *)
LEMMA CallStartsKeeps ==
  ASSUME TurnTypeOK, TurnTypeOK', TurnFollows, NEW a \in Attempts, NEW k \in Calls,
         CallStarts(a, k)
  PROVE  TurnFollows'
<1> DEFINE x == <<a, k>>
           e == Chunk("start", x, TRUE)
<1>1. x \in CallIds /\ x[1] = a
  BY DEF CallIds
<1>2. e \in Chunks /\ e.type = "start" /\ e.call = x /\ e.ok = TRUE
  <2>1. "start" \in CallTypes /\ TRUE \in BOOLEAN
    BY DEF CallTypes
  <2> QED
    BY <1>1, <2>1, ChunkIs
<1>3. /\ stage[x] = "none" /\ loop[a] \in {"running", "left"} /\ at # "ended" /\ Emit(a, e)
      /\ streaming' = streaming /\ at' = at /\ attempt' = attempt /\ loop' = loop
      /\ records' = records /\ step' = step /\ cursor' = cursor /\ limit' = limit
      /\ toolCalls' = toolCalls /\ verdict' = verdict /\ answer' = answer /\ told' = told
  BY DEF CallStarts, Loops, flushVars, answerVars
<1>4. \A c \in CallIds : stage'[c] = IF c = x THEN "open" ELSE stage[c]
  BY <1>1 DEF TurnTypeOK, CallStarts
<1>5. \A b \in Attempts, n \in Calls : <<b, n>> \in CallIds
  BY DEF CallIds
<1>6. \A c \in CallIds : c[1] \in Attempts
  BY CallIs
<1>7. attempt \in Attempts
  BY DEF TurnTypeOK
<1> HIDE DEF x, e
<1>8. /\ outbox' = Append(outbox, e) /\ outbox \in Seq(Chunks)
      /\ \A b \in Attempts : queue'[b] = IF streaming /\ b = a THEN Append(queue[b], e)
                                                               ELSE queue[b]
  BY <1>2, <1>3, EmitIs DEF TurnTypeOK
<1>9. \A t, c : Has(outbox', t, c) <=> Has(outbox, t, c) \/ (t = "start" /\ c = x)
  BY <1>2, <1>3, EmitIs
<1>10. \A b \in Attempts : \A t, c :
          Has(queue'[b], t, c) => Has(queue[b], t, c) \/ (t = "start" /\ c = x)
  <2>1. \A b \in Attempts : \A t, c :
           Has(queue'[b], t, c) => Has(queue[b], t, c) \/ (e.type = t /\ e.call = c)
    BY <1>2, <1>3, EmitIs, Zenon
  <2> QED
    BY <1>2, <2>1, Zenon
<1>11. \A b \in Attempts : \A t, c : Has(queue[b], t, c) => Has(queue'[b], t, c)
  BY <1>2, <1>3, EmitIs
<1>12. \A t \in CallTypes : ~ Has(outbox, t, x) /\ ~ Has(told, t, x) /\ ~ Has(queue[a], t, x)
  BY <1>1, <1>3 DEF TurnFollows, ChunksFollow
<1>13. SetupFollows'
  <2>1. at = "setup" => loop[a] = "idle"
    <3>1. \A b \in Attempts : b > 0 \/ b = 0
      BY TurnAssumption DEF Attempts
    <3> QED
      BY <3>1 DEF TurnFollows, LoopsFollow, SetupFollows
  <2> QED
    BY <1>3, <2>1 DEF SetupFollows
<1>14. LoopsFollow'
  <2>1. \A b \in Attempts, n \in Calls : stage'[<<b, n>>] # stage[<<b, n>>] => b = a
    BY <1>1, <1>4, <1>5 DEF x
  <2>2. loop[a] # "idle" /\ loop[a] # "returned"
    BY <1>3
  <2> QED
    BY <1>3, <2>1, <2>2 DEF TurnFollows, LoopsFollow
<1>15. ChunksFollow'
  <2> SUFFICES ASSUME NEW c \in CallIds
               PROVE  /\ stage'[c] = "none" => \A t \in CallTypes :
                            ~ Has(outbox', t, c) /\ ~ Has(told', t, c) /\ ~ Has(queue'[c[1]], t, c)
                      /\ stage'[c] # "closed" =>
                            /\ ~ Has(outbox', "end", c) /\ ~ Has(told', "end", c)
                            /\ ~ Has(queue'[c[1]], "end", c)
                            /\ \A p \in DOMAIN records' : records'[p][1] # c
                      /\ stage'[c] # "none" /\ c[1] = attempt' => Has(outbox', "start", c)
                      /\ stage'[c] = "closed" /\ Has(outbox', "start", c) => Has(outbox', "end", c)
                      /\ stage'[c] = "closed" /\ streaming' =>
                            Has(told', "end", c) \/ Has(queue'[c[1]], "end", c)
    BY DEF ChunksFollow
  <2>1. /\ stage[c] = "none" => \A t \in CallTypes :
              ~ Has(outbox, t, c) /\ ~ Has(told, t, c) /\ ~ Has(queue[c[1]], t, c)
        /\ stage[c] # "closed" =>
              /\ ~ Has(outbox, "end", c) /\ ~ Has(told, "end", c) /\ ~ Has(queue[c[1]], "end", c)
              /\ \A p \in DOMAIN records : records[p][1] # c
        /\ stage[c] # "none" /\ c[1] = attempt => Has(outbox, "start", c)
        /\ stage[c] = "closed" /\ Has(outbox, "start", c) => Has(outbox, "end", c)
        /\ stage[c] = "closed" /\ streaming => Has(told, "end", c) \/ Has(queue[c[1]], "end", c)
    BY DEF TurnFollows, ChunksFollow
  <2>2. CASE c = x
    BY <1>3, <1>4, <1>6, <1>9, <1>10, <2>1, <2>2
  <2>3. CASE c # x
    BY <1>3, <1>4, <1>6, <1>9, <1>10, <1>11, <2>1, <2>3
  <2> QED
    BY <2>2, <2>3
<1>16. QueuesFollow'
  BY <1>1, <1>2, <1>3, EmitKeepsQueues
<1>17. ToldOnce'
  BY <1>1, <1>2, <1>3, <1>12, EmitKeepsOnce DEF CallTypes
<1>18. SealsFollow'
  <2> SUFFICES ASSUME NEW c \in CallIds
               PROVE  /\ Has(outbox', "sealed", c) => Has(outbox', "start", c)
                      /\ Has(told, "sealed", c) /\ Has(outbox', "start", c)
                            => Has(outbox', "sealed", c)
                      /\ Has(told, "sealed", c) \/ Has(outbox', "sealed", c) =>
                            loop[c[1]] = "left" /\ (c[1] = attempt => at \in Flushed)
    BY <1>3 DEF SealsFollow
  <2>1. /\ Has(outbox, "sealed", c) => Has(outbox, "start", c)
        /\ Has(told, "sealed", c) /\ Has(outbox, "start", c) => Has(outbox, "sealed", c)
        /\ Has(told, "sealed", c) \/ Has(outbox, "sealed", c) =>
              loop[c[1]] = "left" /\ (c[1] = attempt => at \in Flushed)
    BY DEF TurnFollows, SealsFollow
  <2>2. ~ Has(told, "sealed", x)
    BY <1>12 DEF CallTypes
  <2> QED
    BY <1>9, <2>1, <2>2
<1>19. SealsFlushed' /\ OutboxFlushed'
  <2>1. ~ Has(told, e.type, e.call)
    BY <1>2, <1>12 DEF CallTypes
  <2>2. e.type = "start" => e.ok
    BY <1>2
  <2> QED
    BY <1>2, <1>3, <2>1, <2>2, EmitKeepsFlush
<1>20. EndsRecorded'
  <2>1. Recorded(outbox', records, attempt)
    <3>1. Recorded(outbox, records, attempt)
      BY DEF TurnFollows, EndsRecorded
    <3>2. ~ (e.type = "end")
      BY <1>2
    <3> QED
      BY <1>2, <1>8, <3>1, <3>2, RecordedToo
  <2>2. Recorded(queue'[attempt], records, attempt)
    <3>1. Recorded(queue[attempt], records, attempt)
      BY DEF TurnFollows, EndsRecorded
    <3>2. ~ (e.type = "end")
      BY <1>2
    <3>3. queue[attempt] \in Seq(Chunks \cup {End}) /\ e \in Chunks \cup {End}
      BY <1>2, <1>7 DEF TurnTypeOK
    <3>4. Recorded(Append(queue[attempt], e), records, attempt)
      BY <3>1, <3>2, <3>3, RecordedToo
    <3> QED
      BY <1>7, <1>8, <3>1, <3>4
  <2>3. \A c \in CallIds : stage'[c] = "closed" => stage[c] = "closed"
    BY <1>4
  <2> QED
    BY <1>3, <2>1, <2>2, <2>3 DEF TurnFollows, EndsRecorded
<1>21. EndsInOrder'
  <2> SUFFICES ASSUME NEW p \in DOMAIN records, NEW q \in DOMAIN records,
                      p < q, records[p][1][1] = attempt, records[q][1][1] = attempt
               PROVE  /\ Before(told, records[p][1], records[q][1])
                      /\ streaming => \/ Has(told, "end", records[p][1])
                                      \/ Before(queue'[attempt], records[p][1], records[q][1])
                      /\ ~ streaming => Before(outbox', records[p][1], records[q][1])
    BY <1>3 DEF EndsInOrder
  <2>1. /\ Before(told, records[p][1], records[q][1])
        /\ streaming => \/ Has(told, "end", records[p][1])
                        \/ Before(queue[attempt], records[p][1], records[q][1])
        /\ ~ streaming => Before(outbox, records[p][1], records[q][1])
    BY DEF TurnFollows, EndsInOrder
  <2>2. \A c, d : Before(outbox, c, d) => Before(outbox', c, d)
    <3>1. ~ (e.type = "end")
      BY <1>2
    <3> QED
      BY <1>2, <1>8, <3>1, BeforeAppend
  <2>3. \A c, d : Before(queue[attempt], c, d) => Before(queue'[attempt], c, d)
    <3>1. ~ (e.type = "end")
      BY <1>2
    <3>2. queue[attempt] \in Seq(Chunks \cup {End}) /\ e \in Chunks \cup {End}
      BY <1>2, <1>7 DEF TurnTypeOK
    <3>3. \A c, d : Before(queue[attempt], c, d) => Before(Append(queue[attempt], e), c, d)
      BY <3>1, <3>2, BeforeAppend
    <3> QED
      BY <1>7, <1>8, <3>3
  <2> QED
    BY <2>1, <2>2, <2>3
<1>22. MetadataFollows'
  BY <1>3 DEF TurnFollows, MetadataFollows
<1>23. EndFollows'
  BY <1>3 DEF TurnFollows, EndFollows, Is
<1> QED
  BY <1>13, <1>14, <1>15, <1>16, <1>17, <1>18, <1>19, <1>20, <1>21, <1>22, <1>23 DEF TurnFollows

(* A call ends, and is recorded.                                             *)
LEMMA CallEndsKeeps ==
  ASSUME TurnTypeOK, TurnTypeOK', TurnFollows, NEW a \in Attempts, NEW k \in Calls,
         CallEnds(a, k)
  PROVE  TurnFollows'
<1> DEFINE x == <<a, k>>
<1>1. PICK ok \in BOOLEAN :
          /\ Emit(a, Chunk("end", x, ok))
          /\ records' = Append(records, <<x, ok>>)
  BY DEF CallEnds
<1> DEFINE e == Chunk("end", x, ok)
           r == <<x, ok>>
<1>2. x \in CallIds /\ x[1] = a
  BY DEF CallIds
<1>3. e \in Chunks /\ e.type = "end" /\ e.call = x /\ e.ok = ok
  BY <1>2, ChunkIs DEF CallTypes
<1>4. /\ stage[x] = "open" /\ loop[a] \in {"running", "left"} /\ at # "ended" /\ Emit(a, e)
      /\ streaming' = streaming /\ at' = at /\ attempt' = attempt /\ loop' = loop
      /\ step' = step /\ cursor' = cursor /\ limit' = limit
      /\ toolCalls' = toolCalls /\ verdict' = verdict /\ answer' = answer /\ told' = told
  BY <1>1 DEF CallEnds, Loops, flushVars, answerVars
<1>5. \A c \in CallIds : stage'[c] = IF c = x THEN "closed" ELSE stage[c]
  BY <1>2 DEF TurnTypeOK, CallEnds
<1>6. \A b \in Attempts, n \in Calls : <<b, n>> \in CallIds
  BY DEF CallIds
<1>7. \A c \in CallIds : c[1] \in Attempts
  BY CallIs
<1>8. attempt \in Attempts
  BY DEF TurnTypeOK
<1>9. r = <<e.call, e.ok>> /\ r[1] = x /\ r \in CallIds \X BOOLEAN
  BY <1>2, <1>3
<1>10. /\ Len(records) \in Nat /\ DOMAIN records \subseteq Nat \ {0}
       /\ \A p : p \in DOMAIN records' <=> p \in DOMAIN records \/ p = Len(records) + 1
       /\ \A p \in DOMAIN records : records'[p] = records[p] /\ p < Len(records) + 1
       /\ records'[Len(records) + 1] = r
       /\ Len(records') = Len(records) + 1
  <2>1. records' = Append(records, r) /\ records \in Seq(CallIds \X BOOLEAN)
    BY <1>1 DEF TurnTypeOK
  <2> HIDE DEF r
  <2> QED
    BY <1>9, <2>1, AppendAt
<1> HIDE DEF x, e, r
<1>11. /\ outbox' = Append(outbox, e) /\ outbox \in Seq(Chunks)
       /\ \A b \in Attempts : queue'[b] = IF streaming /\ b = a THEN Append(queue[b], e)
                                                                ELSE queue[b]
  BY <1>3, <1>4, EmitIs DEF TurnTypeOK
<1>12. \A t, c : Has(outbox', t, c) <=> Has(outbox, t, c) \/ (t = "end" /\ c = x)
  BY <1>3, <1>4, EmitIs
<1>13. \A b \in Attempts : \A t, c :
          Has(queue'[b], t, c) => Has(queue[b], t, c) \/ (t = "end" /\ c = x)
  <2>1. \A b \in Attempts : \A t, c :
           Has(queue'[b], t, c) => Has(queue[b], t, c) \/ (e.type = t /\ e.call = c)
    BY <1>3, <1>4, EmitIs, Zenon
  <2> QED
    BY <1>3, <2>1, Zenon
<1>14. /\ \A b \in Attempts : \A t, c : Has(queue[b], t, c) => Has(queue'[b], t, c)
       /\ streaming => Has(queue'[a], "end", x)
  <2>1. /\ \A b \in Attempts : \A t, c : Has(queue[b], t, c) => Has(queue'[b], t, c)
        /\ streaming => Has(queue'[a], e.type, e.call)
    BY <1>3, <1>4, EmitIs, Zenon
  <2> QED
    BY <1>3, <2>1
<1>15. /\ ~ Has(outbox, "end", x) /\ ~ Has(told, "end", x) /\ ~ Has(queue[a], "end", x)
       /\ \A p \in DOMAIN records : records[p][1] # x
  BY <1>2, <1>4 DEF TurnFollows, ChunksFollow
<1>16. SetupFollows'
  <2>1. at = "setup" => loop[a] = "idle"
    <3>1. \A b \in Attempts : b > 0 \/ b = 0
      BY TurnAssumption DEF Attempts
    <3> QED
      BY <3>1 DEF TurnFollows, LoopsFollow, SetupFollows
  <2> QED
    BY <1>4, <2>1 DEF SetupFollows
<1>17. LoopsFollow'
  <2>1. \A b \in Attempts, n \in Calls :
           stage'[<<b, n>>] = stage[<<b, n>>] \/ (b = a /\ stage'[<<b, n>>] = "closed")
    BY <1>2, <1>5, <1>6 DEF x
  <2>2. loop[a] # "idle" /\ loop[a] # "returned"
    BY <1>4
  <2> QED
    BY <1>4, <2>1, <2>2 DEF TurnFollows, LoopsFollow
<1>18. ChunksFollow'
  <2> SUFFICES ASSUME NEW c \in CallIds
               PROVE  /\ stage'[c] = "none" => \A t \in CallTypes :
                            ~ Has(outbox', t, c) /\ ~ Has(told', t, c) /\ ~ Has(queue'[c[1]], t, c)
                      /\ stage'[c] # "closed" =>
                            /\ ~ Has(outbox', "end", c) /\ ~ Has(told', "end", c)
                            /\ ~ Has(queue'[c[1]], "end", c)
                            /\ \A p \in DOMAIN records' : records'[p][1] # c
                      /\ stage'[c] # "none" /\ c[1] = attempt' => Has(outbox', "start", c)
                      /\ stage'[c] = "closed" /\ Has(outbox', "start", c) => Has(outbox', "end", c)
                      /\ stage'[c] = "closed" /\ streaming' =>
                            Has(told', "end", c) \/ Has(queue'[c[1]], "end", c)
    BY DEF ChunksFollow
  <2>1. /\ stage[c] = "none" => \A t \in CallTypes :
              ~ Has(outbox, t, c) /\ ~ Has(told, t, c) /\ ~ Has(queue[c[1]], t, c)
        /\ stage[c] # "closed" =>
              /\ ~ Has(outbox, "end", c) /\ ~ Has(told, "end", c) /\ ~ Has(queue[c[1]], "end", c)
              /\ \A p \in DOMAIN records : records[p][1] # c
        /\ stage[c] # "none" /\ c[1] = attempt => Has(outbox, "start", c)
        /\ stage[c] = "closed" /\ Has(outbox, "start", c) => Has(outbox, "end", c)
        /\ stage[c] = "closed" /\ streaming => Has(told, "end", c) \/ Has(queue[c[1]], "end", c)
    BY DEF TurnFollows, ChunksFollow
  <2>2. CASE c = x
    <3>1. stage'[c] = "closed" /\ stage[c] = "open" /\ c[1] = a
      BY <1>2, <1>4, <1>5, <2>2
    <3> QED
      BY <1>4, <1>12, <1>14, <2>1, <2>2, <3>1
  <2>3. CASE c # x
    <3>1. stage'[c] = stage[c] /\ c[1] \in Attempts
      BY <1>5, <1>7, <2>3
    <3>2. \A t : Has(outbox', t, c) <=> Has(outbox, t, c)
      BY <1>12, <2>3
    <3>3. \A t : Has(queue'[c[1]], t, c) <=> Has(queue[c[1]], t, c)
      BY <1>13, <1>14, <2>3, <3>1
    <3>4. (\A p \in DOMAIN records : records[p][1] # c) => \A p \in DOMAIN records' : records'[p][1] # c
      BY <1>9, <1>10, <2>3
    <3> QED
      BY <1>4, <2>1, <3>1, <3>2, <3>3, <3>4
  <2> QED
    BY <2>2, <2>3
<1>19. QueuesFollow'
  BY <1>2, <1>3, <1>4, EmitKeepsQueues
<1>20. ToldOnce'
  BY <1>2, <1>3, <1>4, <1>15, EmitKeepsOnce
<1>21. SealsFollow'
  BY <1>4, <1>12 DEF TurnFollows, SealsFollow
<1>22. SealsFlushed' /\ OutboxFlushed'
  <2>1. ~ Has(told, e.type, e.call)
    BY <1>3, <1>15
  <2>2. e.type = "start" => e.ok
    BY <1>3
  <2> QED
    BY <1>3, <1>4, <2>1, <2>2, EmitKeepsFlush
<1>23. EndsRecorded'
  <2>1. /\ Recorded(told, records, attempt) /\ Recorded(outbox, records, attempt)
        /\ Recorded(queue[attempt], records, attempt)
    BY DEF TurnFollows, EndsRecorded
  <2>2. records \in Seq(CallIds \X BOOLEAN) /\ told \in Seq(ToldChunks) /\ e \in ToldChunks
    BY <1>3, ChunksAre DEF TurnTypeOK
  <2>3. queue[attempt] \in Seq(Chunks \cup {End}) /\ e \in Chunks \cup {End}
    BY <1>3, <1>8 DEF TurnTypeOK
  <2>4. records' = Append(records, r)
    BY <1>1 DEF r
  <2>5. Recorded(told, records', attempt)
    BY <1>9, <2>1, <2>2, <2>4, RecordedAppend
  <2>6. Recorded(outbox', records', attempt)
    BY <1>3, <1>9, <1>11, <2>1, <2>2, <2>4, RecordedAppend
  <2>7. Recorded(queue'[attempt], records', attempt)
    <3>1. Recorded(queue[attempt], records', attempt)
      BY <1>9, <2>1, <2>2, <2>3, <2>4, RecordedAppend
    <3>2. Recorded(Append(queue[attempt], e), records', attempt)
      BY <1>9, <2>1, <2>2, <2>3, <2>4, RecordedAppend
    <3> QED
      BY <1>8, <1>11, <3>1, <3>2
  <2>8. \A p, q \in DOMAIN records' : records'[p][1] = records'[q][1] => p = q
    BY <1>9, <1>10, <1>15 DEF TurnFollows, EndsRecorded
  <2>9. ASSUME NEW c \in CallIds, c[1] = attempt, stage'[c] = "closed"
        PROVE  \E p \in DOMAIN records' : records'[p][1] = c
    <3>1. CASE c = x
      BY <1>9, <1>10, <3>1
    <3>2. CASE c # x
      BY <1>5, <1>10, <2>9, <3>2 DEF TurnFollows, EndsRecorded
    <3> QED
      BY <3>1, <3>2
  <2> QED
    BY <1>4, <2>5, <2>6, <2>7, <2>8, <2>9 DEF EndsRecorded
<1>24. EndsInOrder'
  <2> SUFFICES ASSUME NEW p \in DOMAIN records', NEW q \in DOMAIN records',
                      p < q, records'[p][1][1] = attempt, records'[q][1][1] = attempt
               PROVE  /\ Before(told, records'[p][1], records'[q][1])
                      /\ streaming => \/ Has(told, "end", records'[p][1])
                                      \/ Before(queue'[attempt], records'[p][1], records'[q][1])
                      /\ ~ streaming => Before(outbox', records'[p][1], records'[q][1])
    BY <1>4 DEF EndsInOrder
  <2>1. p \in DOMAIN records
    <3>1. p \in Nat /\ q \in Nat /\ q <= Len(records) + 1
      BY <1>10
    <3>2. p # Len(records) + 1
      BY <1>10, <3>1
    <3> QED
      BY <1>10, <3>2
  <2> DEFINE c == records[p][1]
  <2>2. records'[p][1] = c /\ c \in CallIds /\ c # x /\ c[1] = attempt /\ stage[c] = "closed"
    BY <1>10, <1>15, <2>1, RecordedClosed
  <2> HIDE DEF c
  <2>3. \A d, f : Before(outbox, d, f) /\ (f = x => Has(outbox, "end", d)) => Before(outbox', d, f)
    BY <1>3, <1>11, BeforeAppend
  <2>4. \A d, f : Before(queue[attempt], d, f) /\ (f = x => Has(queue[attempt], "end", d))
                    => Before(queue'[attempt], d, f)
    <3>1. queue[attempt] \in Seq(Chunks \cup {End}) /\ e \in Chunks \cup {End}
      BY <1>3, <1>8 DEF TurnTypeOK
    <3>2. \A d, f : Before(queue[attempt], d, f) /\ (e.type = "end" /\ e.call = f
                        => Has(queue[attempt], "end", d)) => Before(Append(queue[attempt], e), d, f)
      BY <3>1, BeforeAppend
    <3> QED
      BY <1>3, <1>8, <1>11, <3>2
  <2>5. CASE q \in DOMAIN records
    <3> DEFINE d == records[q][1]
    <3>1. records'[q][1] = d /\ d # x
      BY <1>10, <1>15, <2>5
    <3>2. /\ Before(told, c, d)
          /\ streaming => Has(told, "end", c) \/ Before(queue[attempt], c, d)
          /\ ~ streaming => Before(outbox, c, d)
      BY <1>10, <2>1, <2>5 DEF c, TurnFollows, EndsInOrder
    <3> HIDE DEF d
    <3> QED
      BY <2>2, <2>3, <2>4, <3>1, <3>2
  <2>6. CASE q = Len(records) + 1
    <3>1. records'[q][1] = x /\ a = attempt
      BY <1>2, <1>9, <1>10, <2>6
    <3>2. Before(told, c, x) /\ Before(outbox, c, x) /\ Before(queue[attempt], c, x)
      BY <1>15, <3>1, BeforeIs
    <3>3. Has(outbox, "end", c)
      BY <2>2 DEF TurnFollows, ChunksFollow
    <3>4. streaming => Has(told, "end", c) \/ Has(queue[attempt], "end", c)
      BY <2>2 DEF TurnFollows, ChunksFollow
    <3> QED
      BY <2>2, <2>3, <2>4, <3>1, <3>2, <3>3, <3>4
  <2> QED
    BY <1>10, <2>5, <2>6
<1>25. MetadataFollows'
  <2>1. at \in {"executing", "executed", "flushing"} => toolCalls = <<>>
    BY DEF TurnFollows, MetadataFollows
  <2>2. ASSUME at \in {"validating", "stopping"}
        PROVE  /\ Len(toolCalls) <= Len(records')
               /\ \A p \in DOMAIN toolCalls : toolCalls[p] = records'[p]
               /\ loop[attempt] = "returned" =>
                     \A p \in DOMAIN records' : records'[p][1][1] = attempt =>
                        p <= Len(toolCalls) /\ Has(told, "end", records'[p][1])
    <3>1. /\ Len(toolCalls) <= Len(records)
          /\ \A p \in DOMAIN toolCalls : toolCalls[p] = records[p]
          /\ loop[attempt] = "returned" =>
                \A p \in DOMAIN records : records[p][1][1] = attempt =>
                   p <= Len(toolCalls) /\ Has(told, "end", records[p][1])
      BY <2>2 DEF TurnFollows, MetadataFollows
    <3>2. Len(toolCalls) \in Nat /\ \A p \in DOMAIN toolCalls : p \in Nat \ {0} /\ p <= Len(toolCalls)
      BY IndicesAre DEF TurnTypeOK
    <3>3. Len(toolCalls) <= Len(records')
      BY <1>10, <3>1, <3>2
    <3>4. \A p \in Nat \ {0} : p <= Len(records) => p \in DOMAIN records
      BY IndicesAre DEF TurnTypeOK
    <3>5. \A p \in DOMAIN toolCalls : p \in DOMAIN records
      BY <1>10, <3>1, <3>2, <3>4
    <3>6. \A p \in DOMAIN toolCalls : toolCalls[p] = records'[p]
      BY <1>10, <3>1, <3>5
    <3>7. loop[attempt] = "returned" => a # attempt
      BY <1>4
    <3> QED
      BY <1>2, <1>9, <1>10, <3>1, <3>3, <3>6, <3>7
  <2> QED
    BY <1>4, <2>1, <2>2 DEF MetadataFollows
<1>26. EndFollows'
  BY <1>4 DEF TurnFollows, EndFollows, Is
<1> QED
  BY <1>16, <1>17, <1>18, <1>19, <1>20, <1>21, <1>22, <1>23, <1>24, <1>25, <1>26 DEF TurnFollows

-----------------------------------------------------------------------------
(* The scheduler reports the task of an attempt.                             *)
LEMMA ReportedKeeps ==
  ASSUME TurnTypeOK, TurnTypeOK', TurnFollows, NEW a \in Attempts, Reported(a)
  PROVE  TurnFollows'
<1>1. PICK how \in {"returned", "left"}, status \in {"ready", "partial", "failed", "skipped"} :
          /\ Report(a, how, status)
          /\ how = "returned" => \A k \in Calls : stage[<<a, k>>] # "open"
          /\ status \in {"ready", "partial", "skipped"} => how = "returned"
  BY DEF Reported, LoopReturns, LoopLeft, LoopCancelled
<1>2. /\ a = attempt /\ at = "executing" /\ at' = "executing" /\ loop[a] = "running"
      /\ streaming' = streaming /\ attempt' = attempt /\ stage' = stage /\ outbox' = outbox
      /\ records' = records /\ step' = status /\ cursor' = cursor /\ limit' = limit
      /\ toolCalls' = toolCalls /\ verdict' = verdict /\ answer' = answer /\ told' = told
  BY <1>1 DEF Report, flushVars, answerVars
<1>3. \A b \in Attempts : loop'[b] = IF b = a THEN how ELSE loop[b]
  BY <1>1 DEF TurnTypeOK, Report
<1>4. \A b \in Attempts : queue'[b] = IF streaming /\ b = a THEN Append(queue[b], End) ELSE queue[b]
  BY <1>1 DEF TurnTypeOK, Report
<1>5. \A b \in Attempts : queue[b] \in Seq(Chunks \cup {End}) /\ End \in Chunks \cup {End}
  BY DEF TurnTypeOK
<1>6. \A c \in CallIds : c[1] \in Attempts
  BY CallIs
<1>7. \A b \in Attempts : \A t \in CallTypes : \A c : Has(queue'[b], t, c) <=> Has(queue[b], t, c)
  <2> TAKE b \in Attempts
  <2>1. \A t, c : Has(Append(queue[b], End), t, c) <=> Has(queue[b], t, c)
                                                       \/ (End.type = t /\ End.call = c)
    BY <1>5, HasAppend
  <2> QED
    BY <1>4, <2>1, ChunksAre
<1>8. SetupFollows'
  BY <1>2 DEF SetupFollows
<1>9. LoopsFollow'
  <2>1. \A b \in Attempts : b \in Nat
    BY DEF Attempts
  <2>2. how \in {"returned", "left"} /\ status # "none"
    OBVIOUS
  <2> QED
    BY <1>1, <1>2, <1>3, <2>1, <2>2 DEF TurnFollows, LoopsFollow, AfterExecution
<1>10. ChunksFollow'
  <2>1. "end" \in CallTypes
    BY DEF CallTypes
  <2> QED
    BY <1>2, <1>6, <1>7, <2>1 DEF TurnFollows, ChunksFollow
<1>11. QueuesFollow'
  <2>1. ASSUME NEW b \in Attempts
        PROVE  /\ streaming \/ queue'[b] = <<>>
               /\ \A i \in DOMAIN queue'[b] :
                     \/ /\ queue'[b][i] = End /\ loop'[b] \in {"returned", "left"}
                        /\ loop'[b] = "returned" => i = Len(queue'[b])
                     \/ queue'[b][i].type \in {"start", "end"} /\ queue'[b][i].call[1] = b
    <3>1. CASE streaming /\ b = a
      <4>1. queue'[b] = Append(queue[b], End)
        BY <1>4, <3>1
      <4>2. /\ \A i : i \in DOMAIN queue'[b] <=> i \in DOMAIN queue[b] \/ i = Len(queue[b]) + 1
            /\ \A i \in DOMAIN queue[b] : queue'[b][i] = queue[b][i]
            /\ queue'[b][Len(queue[b]) + 1] = End /\ Len(queue'[b]) = Len(queue[b]) + 1
        BY <1>5, <4>1, AppendAt
      <4>3. \A i \in DOMAIN queue[b] : queue[b][i].type \in {"start", "end"}
                                       /\ queue[b][i].call[1] = b
        BY <1>2, <3>1 DEF TurnFollows, QueuesFollow
      <4>4. loop'[b] \in {"returned", "left"}
        BY <1>3, <3>1
      <4> QED
        BY <3>1, <4>2, <4>3, <4>4
    <3>2. CASE ~ streaming /\ b = a
      <4>1. queue'[b] = queue[b] /\ queue[b] = <<>>
        BY <1>4, <3>2 DEF TurnFollows, QueuesFollow
      <4> QED
        BY <4>1, EmptyBox
    <3>3. CASE b # a
      <4>1. queue'[b] = queue[b] /\ loop'[b] = loop[b]
        BY <1>3, <1>4, <3>3
      <4> QED
        BY <4>1 DEF TurnFollows, QueuesFollow
    <3> QED
      BY <3>1, <3>2, <3>3
  <2> QED
    BY <1>2, <2>1 DEF QueuesFollow, AfterExecution
<1>12. ToldOnce'
  <2>1. ASSUME NEW b \in Attempts PROVE Once(queue'[b])
    <3>1. Once(queue[b])
      BY DEF TurnFollows, ToldOnce
    <3>2. Once(Append(queue[b], End))
      BY <1>5, <3>1, OnceAppend, ChunksAre
    <3> QED
      BY <1>4, <3>1, <3>2
  <2>2. \A t \in {"start", "end"} : t \in CallTypes
    BY DEF CallTypes
  <2> QED
    BY <1>2, <1>6, <1>7, <2>1, <2>2 DEF TurnFollows, ToldOnce
<1>13. SealsFollow'
  <2>1. ASSUME NEW c \in CallIds, Has(told, "sealed", c) \/ Has(outbox, "sealed", c)
        PROVE  loop'[c[1]] = "left" /\ c[1] # attempt
    <3>1. loop[c[1]] = "left"
      BY <2>1 DEF TurnFollows, SealsFollow
    <3> QED
      BY <1>2, <1>3, <1>6, <3>1
  <2> QED
    BY <1>2, <2>1 DEF TurnFollows, SealsFollow
<1>14. SealsFlushed' /\ OutboxFlushed'
  BY <1>2 DEF TurnFollows, SealsFlushed, OutboxFlushed, Flushed
<1>15. attempt \in Attempts
  BY DEF TurnTypeOK
<1>16. EndsRecorded'
  <2>1. Recorded(queue'[attempt], records, attempt)
    <3>1. Recorded(queue[attempt], records, attempt)
      BY DEF TurnFollows, EndsRecorded
    <3>2. ~ (End.type = "end")
      BY ChunksAre
    <3>3. Recorded(Append(queue[attempt], End), records, attempt)
      BY <1>5, <1>15, <3>1, <3>2, RecordedToo
    <3> QED
      BY <1>4, <1>15, <3>1, <3>3
  <2> QED
    BY <1>2, <2>1 DEF TurnFollows, EndsRecorded
<1>17. EndsInOrder'
  <2>1. \A c, d : Before(queue[attempt], c, d) => Before(queue'[attempt], c, d)
    <3>1. ~ (End.type = "end")
      BY ChunksAre
    <3>2. \A c, d : Before(queue[attempt], c, d) => Before(Append(queue[attempt], End), c, d)
      BY <1>5, <1>15, <3>1, BeforeAppend
    <3> QED
      BY <1>4, <1>15, <3>2
  <2> QED
    BY <1>2, <2>1 DEF TurnFollows, EndsInOrder
<1>18. MetadataFollows'
  BY <1>2 DEF TurnFollows, MetadataFollows
<1>19. EndFollows'
  BY <1>2 DEF TurnFollows, EndFollows, Is
<1> QED
  BY <1>8, <1>9, <1>10, <1>11, <1>12, <1>13, <1>14, <1>16, <1>17, <1>18, <1>19 DEF TurnFollows

(* A turn that does not stream awaits its task.                              *)
LEMMA AwaitKeeps ==
  ASSUME TurnTypeOK, TurnTypeOK', TurnFollows, Await
  PROVE  TurnFollows'
<1>1. /\ at = "executing" /\ at' = "executed" /\ ~ streaming /\ step # "none"
      /\ streaming' = streaming /\ attempt' = attempt /\ loop' = loop /\ stage' = stage
      /\ queue' = queue /\ outbox' = outbox /\ records' = records /\ step' = step
      /\ cursor' = cursor /\ limit' = limit
      /\ toolCalls' = toolCalls /\ verdict' = verdict /\ answer' = answer /\ told' = told
  BY DEF Await, workVars, flushVars, answerVars
<1>2. attempt \in Attempts /\ loop[attempt] \in {"idle", "running", "returned", "left"}
  BY DEF TurnTypeOK
<1>3. SetupFollows'
  BY <1>1 DEF SetupFollows
<1>4. LoopsFollow'
  BY <1>1, <1>2 DEF TurnFollows, LoopsFollow, AfterExecution
<1>5. ChunksFollow'
  BY <1>1 DEF TurnFollows, ChunksFollow
<1>6. QueuesFollow'
  <2>1. queue[attempt] = <<>>
    BY <1>1, <1>2 DEF TurnFollows, QueuesFollow
  <2> QED
    BY <1>1, <2>1 DEF TurnFollows, QueuesFollow
<1>7. ToldOnce'
  BY <1>1 DEF TurnFollows, ToldOnce
<1>8. SealsFollow'
  BY <1>1 DEF TurnFollows, SealsFollow, Flushed
<1>9. SealsFlushed'
  BY <1>1 DEF SealsFlushed, Flushed
<1>10. OutboxFlushed'
  BY <1>1 DEF TurnFollows, OutboxFlushed, Flushed
<1>11. EndsRecorded' /\ EndsInOrder'
  BY <1>1 DEF TurnFollows, EndsRecorded, EndsInOrder
<1>12. MetadataFollows'
  BY <1>1 DEF TurnFollows, MetadataFollows
<1>13. EndFollows'
  BY <1>1 DEF TurnFollows, EndFollows, Is
<1> QED
  BY <1>3, <1>4, <1>5, <1>6, <1>7, <1>8, <1>9, <1>10, <1>11, <1>12, <1>13 DEF TurnFollows

-----------------------------------------------------------------------------
(* What the consumer of a stream is handed comes from the queue.             *)
LEMMA DeliverKeeps ==
  ASSUME TurnTypeOK, TurnTypeOK', TurnFollows, Deliver
  PROVE  TurnFollows'
<1> DEFINE w == queue[attempt]
           e == Head(w)
<1>1. /\ at = "executing" /\ streaming /\ w # <<>>
      /\ streaming' = streaming /\ attempt' = attempt /\ loop' = loop /\ stage' = stage
      /\ outbox' = outbox /\ records' = records /\ step' = step
      /\ cursor' = cursor /\ limit' = limit
      /\ toolCalls' = toolCalls /\ verdict' = verdict /\ answer' = answer
      /\ e = End => at' = "executed" /\ told' = told
      /\ e # End => at' = at /\ told' = Append(told, e)
  BY DEF Deliver, flushVars, answerVars
<1>2. attempt \in Attempts /\ w \in Seq(Chunks \cup {End}) /\ loop[attempt] # "idle"
      /\ loop[attempt] \in {"idle", "running", "returned", "left"}
  BY <1>1 DEF TurnTypeOK, TurnFollows, LoopsFollow
<1>3. \A b \in Attempts : queue'[b] = IF b = attempt THEN Tail(w) ELSE queue[b]
  BY DEF TurnTypeOK, Deliver
<1>4. \A c \in CallIds : c[1] \in Attempts
  BY CallIs
<1>5. told \in Seq(ToldChunks)
  BY DEF TurnTypeOK
<1>6. /\ 1 \in DOMAIN w /\ e = w[1]
      /\ \/ /\ e = End /\ loop[attempt] \in {"returned", "left"}
            /\ loop[attempt] = "returned" => Len(w) = 1
         \/ e # End /\ e.type \in {"start", "end"} /\ e.call[1] = attempt
  <2>1. 1 \in DOMAIN w /\ e = w[1]
    BY <1>1, <1>2, TailAt
  <2>2. \/ /\ w[1] = End /\ loop[attempt] \in {"returned", "left"}
           /\ loop[attempt] = "returned" => 1 = Len(w)
        \/ w[1].type \in {"start", "end"} /\ w[1].call[1] = attempt
    BY <1>2, <2>1 DEF TurnFollows, QueuesFollow
  <2>3. e.type \in {"start", "end"} => e # End
    BY ChunksAre
  <2> QED
    BY <2>1, <2>2, <2>3
<1>7. /\ Tail(w) \in Seq(Chunks \cup {End}) /\ e \in Chunks \cup {End}
      /\ \A i \in DOMAIN Tail(w) : i + 1 \in DOMAIN w /\ Tail(w)[i] = w[i + 1]
      /\ DOMAIN Tail(w) \subseteq Nat \ {0} /\ Len(Tail(w)) = Len(w) - 1 /\ Len(w) \in Nat
  BY <1>1, <1>2, TailAt, HeadTailProperties, LenProperties
<1>8. \A t, c : Has(w, t, c) <=> Has(Tail(w), t, c) \/ (e.type = t /\ e.call = c)
  BY <1>1, <1>2, HasTail
<1>9. Recorded(w, records, attempt)
  BY DEF TurnFollows, EndsRecorded
<1>10. /\ Recorded(Tail(w), records, attempt)
       /\ e.type = "end" /\ e.call[1] = attempt =>
             \E p \in DOMAIN records : records[p] = <<e.call, e.ok>>
  BY <1>1, <1>2, <1>9, RecordedTail
<1>11. /\ Once(Tail(w))
       /\ e.type \in CallTypes => ~ Has(Tail(w), e.type, e.call)
  <2>1. Once(w)
    BY <1>2 DEF TurnFollows, ToldOnce
  <2> QED
    BY <1>1, <1>2, <2>1, OnceTail
<1>12. \A c, d : Before(w, c, d) => /\ ~ (e.type = "end" /\ e.call = d)
                                    /\ (e.type = "end" /\ e.call = c) \/ Before(Tail(w), c, d)
  BY <1>1, <1>2, BeforeTail
<1>13. e # End => /\ e \in Chunks /\ e \in ToldChunks /\ e.call \in CallIds /\ e.type \in CallTypes
                  /\ e.type # "sealed" /\ e.call[1] = attempt /\ e.type \in {"start", "end"}
  BY <1>6, <1>7, ChunksAre
<1>14. \A b \in Attempts : \A i \in DOMAIN queue'[b] :
          \/ /\ queue'[b][i] = End /\ loop[b] \in {"returned", "left"}
             /\ loop[b] = "returned" => i = Len(queue'[b])
          \/ queue'[b][i].type \in {"start", "end"} /\ queue'[b][i].call[1] = b
  <2> TAKE b \in Attempts
  <2>1. CASE b = attempt
    <3> SUFFICES ASSUME NEW i \in DOMAIN Tail(w)
                 PROVE  \/ /\ Tail(w)[i] = End /\ loop[b] \in {"returned", "left"}
                           /\ loop[b] = "returned" => i = Len(Tail(w))
                        \/ Tail(w)[i].type \in {"start", "end"} /\ Tail(w)[i].call[1] = b
      BY <1>3, <2>1
    <3>1. i + 1 \in DOMAIN w /\ Tail(w)[i] = w[i + 1] /\ i \in Nat
      BY <1>7
    <3>2. \/ /\ w[i + 1] = End /\ loop[b] \in {"returned", "left"}
             /\ loop[b] = "returned" => i + 1 = Len(w)
          \/ w[i + 1].type \in {"start", "end"} /\ w[i + 1].call[1] = b
      BY <1>2, <2>1, <3>1 DEF TurnFollows, QueuesFollow
    <3>3. i + 1 = Len(w) => i = Len(Tail(w))
      BY <1>7, <3>1
    <3> QED
      BY <3>1, <3>2, <3>3
  <2>2. CASE b # attempt
    BY <1>3, <2>2 DEF TurnFollows, QueuesFollow
  <2> QED
    BY <2>1, <2>2
<1> HIDE DEF w, e
<1>15. SetupFollows' /\ SealsFlushed'
  BY <1>1, <1>6 DEF SetupFollows, SealsFlushed, Flushed
<1>16. OutboxFlushed'
  BY <1>1, <1>6 DEF TurnFollows, OutboxFlushed, Flushed
<1>17. CASE e = End
  <2>1. at' = "executed" /\ told' = told /\ loop[attempt] \in {"returned", "left"}
    BY <1>1, <1>6, <1>17
  <2>2. \A b \in Attempts : \A t \in CallTypes : \A c : Has(queue'[b], t, c) <=> Has(queue[b], t, c)
    BY <1>3, <1>8, <1>17, ChunksAre DEF w
  <2>3. LoopsFollow'
    BY <1>1, <2>1 DEF TurnFollows, LoopsFollow, AfterExecution
  <2>4. ChunksFollow'
    <3>1. "end" \in CallTypes
      BY DEF CallTypes
    <3> QED
      BY <1>1, <1>4, <2>1, <2>2, <3>1 DEF TurnFollows, ChunksFollow
  <2>5. QueuesFollow'
    <3>1. loop[attempt] = "returned" => queue'[attempt] = <<>>
      <4>1. loop[attempt] = "returned" => Len(Tail(w)) = 0
        BY <1>6, <1>7, <1>17, ChunksAre
      <4> QED
        BY <1>2, <1>3, <1>7, <4>1, EmptySeq
    <3> QED
      BY <1>1, <1>14, <3>1 DEF QueuesFollow
  <2>6. ToldOnce'
    <3>1. \A b \in Attempts : Once(queue'[b])
      BY <1>3, <1>11 DEF TurnFollows, ToldOnce
    <3>2. \A t \in {"start", "end"} : t \in CallTypes
      BY DEF CallTypes
    <3> QED
      BY <1>1, <1>4, <2>1, <2>2, <3>1, <3>2 DEF TurnFollows, ToldOnce
  <2>7. SealsFollow'
    BY <1>1, <2>1 DEF TurnFollows, SealsFollow, Flushed
  <2>8. EndsRecorded'
    BY <1>1, <1>2, <1>3, <1>10, <2>1 DEF TurnFollows, EndsRecorded
  <2>9. EndsInOrder'
    <3>1. \A c, d : Before(w, c, d) => Before(queue'[attempt], c, d)
      <4>1. e.type # "end"
        BY <1>17, ChunksAre
      <4> QED
        BY <1>2, <1>3, <1>12, <4>1
    <3> QED
      BY <1>1, <2>1, <3>1 DEF TurnFollows, EndsInOrder, w
  <2>10. MetadataFollows'
    BY <1>1, <2>1 DEF TurnFollows, MetadataFollows
  <2>11. EndFollows'
    BY <1>1, <2>1 DEF TurnFollows, EndFollows, Is
  <2> QED
    BY <1>15, <1>16, <2>3, <2>4, <2>5, <2>6, <2>7, <2>8, <2>9, <2>10, <2>11 DEF TurnFollows
<1>18. CASE e # End
  <2>1. /\ at' = at /\ told' = Append(told, e) /\ e \in ToldChunks
        /\ e.call \in CallIds /\ e.type \in CallTypes /\ e.type # "sealed"
        /\ e.call[1] = attempt /\ e.type \in {"start", "end"}
    BY <1>1, <1>13, <1>18
  <2>2. \A t, c : Has(told', t, c) <=> Has(told, t, c) \/ (e.type = t /\ e.call = c)
    BY <1>5, <2>1, HasAppend
  <2>3. \A b \in Attempts : \A t, c : Has(queue'[b], t, c) => Has(queue[b], t, c)
    BY <1>3, <1>8 DEF w
  <2>4. \A b \in Attempts : \A t, c : Has(queue[b], t, c) =>
            Has(queue'[b], t, c) \/ (e.type = t /\ e.call = c)
    BY <1>3, <1>8 DEF w
  <2>5. Has(queue[e.call[1]], e.type, e.call)
    BY <1>8, <2>1 DEF w
  <2>6. LoopsFollow'
    BY <1>1, <2>1 DEF TurnFollows, LoopsFollow, AfterExecution
  <2>7. ChunksFollow'
    <3> SUFFICES ASSUME NEW c \in CallIds
                 PROVE  /\ stage[c] = "none" => \A t \in CallTypes :
                              ~ Has(outbox, t, c) /\ ~ Has(told', t, c) /\ ~ Has(queue'[c[1]], t, c)
                        /\ stage[c] # "closed" =>
                              /\ ~ Has(outbox, "end", c) /\ ~ Has(told', "end", c)
                              /\ ~ Has(queue'[c[1]], "end", c)
                              /\ \A p \in DOMAIN records : records[p][1] # c
                        /\ stage[c] # "none" /\ c[1] = attempt => Has(outbox, "start", c)
                        /\ stage[c] = "closed" /\ Has(outbox, "start", c) => Has(outbox, "end", c)
                        /\ stage[c] = "closed" /\ streaming =>
                              Has(told', "end", c) \/ Has(queue'[c[1]], "end", c)
      BY <1>1 DEF ChunksFollow
    <3>1. c[1] \in Attempts
      BY <1>4
    <3>2. /\ stage[c] = "none" => \A t \in CallTypes :
                ~ Has(outbox, t, c) /\ ~ Has(told, t, c) /\ ~ Has(queue[c[1]], t, c)
          /\ stage[c] # "closed" =>
                /\ ~ Has(outbox, "end", c) /\ ~ Has(told, "end", c) /\ ~ Has(queue[c[1]], "end", c)
                /\ \A p \in DOMAIN records : records[p][1] # c
          /\ stage[c] # "none" /\ c[1] = attempt => Has(outbox, "start", c)
          /\ stage[c] = "closed" /\ Has(outbox, "start", c) => Has(outbox, "end", c)
          /\ stage[c] = "closed" /\ streaming => Has(told, "end", c) \/ Has(queue[c[1]], "end", c)
      BY DEF TurnFollows, ChunksFollow
    <3>3. e.call = c => Has(queue[c[1]], e.type, c)
      BY <2>5
    <3>4. stage[c] = "none" => \A t \in CallTypes :
             ~ Has(told', t, c) /\ ~ Has(queue'[c[1]], t, c)
      <4> SUFFICES ASSUME stage[c] = "none", NEW t \in CallTypes
                   PROVE  ~ Has(told', t, c) /\ ~ Has(queue'[c[1]], t, c)
        OBVIOUS
      <4>1. e.call # c
        BY <2>1, <3>2, <3>3
      <4> QED
        BY <2>2, <2>3, <3>1, <3>2, <4>1
    <3>5. stage[c] # "closed" => ~ Has(told', "end", c) /\ ~ Has(queue'[c[1]], "end", c)
      BY <2>2, <2>3, <3>1, <3>2, <3>3
    <3>6. stage[c] = "closed" /\ streaming => Has(told', "end", c) \/ Has(queue'[c[1]], "end", c)
      BY <2>2, <2>4, <3>1, <3>2
    <3> QED
      BY <1>1, <3>2, <3>4, <3>5, <3>6
  <2>8. QueuesFollow'
    <3>1. \A b \in Attempts : streaming \/ queue'[b] = <<>>
      BY <1>1
    <3> QED
      BY <1>1, <1>14, <2>1, <3>1 DEF QueuesFollow, AfterExecution
  <2>9. ToldOnce'
    <3>1. \A b \in Attempts : Once(queue'[b])
      BY <1>3, <1>11 DEF TurnFollows, ToldOnce
    <3>2. ~ Has(told, e.type, e.call)
      BY <1>1, <2>1, <2>5 DEF TurnFollows, ToldOnce
    <3>3. Once(told')
      BY <1>5, <2>1, <3>2, OnceAppend DEF TurnFollows, ToldOnce
    <3>4. ASSUME NEW c \in CallIds, NEW t \in {"start", "end"}, Has(told', t, c)
          PROVE  ~ Has(queue'[c[1]], t, c)
      <4>1. c[1] \in Attempts
        BY <1>4
      <4>2. CASE Has(told, t, c)
        BY <1>1, <2>3, <4>1, <4>2 DEF TurnFollows, ToldOnce
      <4>3. CASE e.type = t /\ e.call = c
        BY <1>2, <1>3, <1>11, <2>1, <4>3
      <4> QED
        BY <2>2, <3>4, <4>2, <4>3
    <3>5. ASSUME NEW c \in CallIds, Has(told', "end", c), Has(told', "sealed", c) PROVE FALSE
      <4>1. Has(told, "sealed", c)
        BY <2>1, <2>2, <3>5
      <4>2. c[1] # attempt
        BY <1>1, <4>1 DEF TurnFollows, SealsFollow, Flushed
      <4>3. Has(told, "end", c)
        BY <2>1, <2>2, <3>5, <4>2
      <4> QED
        BY <1>1, <4>1, <4>3 DEF TurnFollows, ToldOnce
    <3> QED
      BY <1>1, <3>1, <3>3, <3>4, <3>5 DEF TurnFollows, ToldOnce
  <2>10. SealsFollow'
    BY <1>1, <2>1, <2>2 DEF TurnFollows, SealsFollow
  <2>11. EndsRecorded'
    <3>1. Recorded(told, records, attempt)
      BY DEF TurnFollows, EndsRecorded
    <3>2. Recorded(told', records, attempt)
      BY <1>5, <1>10, <2>1, <3>1, RecordedToo
    <3> QED
      BY <1>1, <1>2, <1>3, <1>10, <2>1, <3>2 DEF TurnFollows, EndsRecorded
  <2>12. EndsInOrder'
    <3> SUFFICES ASSUME NEW p \in DOMAIN records, NEW q \in DOMAIN records,
                        p < q, records[p][1][1] = attempt, records[q][1][1] = attempt
                 PROVE  /\ Before(told', records[p][1], records[q][1])
                        /\ \/ Has(told', "end", records[p][1])
                           \/ Before(queue'[attempt], records[p][1], records[q][1])
      BY <1>1 DEF EndsInOrder
    <3> DEFINE c == records[p][1]
               d == records[q][1]
    <3>1. Before(told, c, d) /\ (Has(told, "end", c) \/ Before(w, c, d))
      BY <1>1 DEF TurnFollows, EndsInOrder, w
    <3> HIDE DEF c, d
    <3>2. queue'[attempt] = Tail(w)
      BY <1>2, <1>3
    <3>3. e.type = "end" /\ e.call = d => Has(told, "end", c)
      BY <1>12, <3>1
    <3>4. Before(told', c, d)
      BY <1>5, <2>1, <3>1, <3>3, BeforeAppend
    <3>5. Has(told', "end", c) \/ Before(queue'[attempt], c, d)
      BY <1>12, <2>2, <3>1, <3>2
    <3> QED
      BY <3>4, <3>5 DEF c, d
  <2>13. MetadataFollows'
    BY <1>1, <2>1 DEF TurnFollows, MetadataFollows
  <2>14. EndFollows'
    <3>1. /\ \A i : i \in DOMAIN told' <=> i \in DOMAIN told \/ i = Len(told) + 1
          /\ \A i \in DOMAIN told : told'[i] = told[i]
          /\ told'[Len(told) + 1] = e
      BY <1>5, <2>1, AppendAt
    <3> QED
      BY <1>1, <2>1, <3>1 DEF TurnFollows, EndFollows, Is, Final
  <2> QED
    BY <1>15, <1>16, <2>6, <2>7, <2>8, <2>9, <2>10, <2>11, <2>12, <2>13, <2>14 DEF TurnFollows
<1> QED
  BY <1>17, <1>18

-----------------------------------------------------------------------------
(* What execution has left open is sealed.                                   *)
LEMMA FlushStartsKeeps ==
  ASSUME TurnTypeOK, TurnTypeOK', TurnFollows, FlushStarts
  PROVE  TurnFollows'
<1> DEFINE s == Seals(outbox)
           U == Unclosed(outbox)
           n == Len(outbox)
<1>1. /\ at = "executed" /\ at' = "flushing" /\ outbox' = outbox \o s
      /\ cursor' = (IF streaming THEN n + 1 ELSE 1) /\ limit' = Len(outbox')
      /\ streaming' = streaming /\ attempt' = attempt /\ loop' = loop /\ stage' = stage
      /\ queue' = queue /\ records' = records /\ step' = step
      /\ toolCalls' = toolCalls /\ verdict' = verdict /\ answer' = answer /\ told' = told
  BY DEF FlushStarts, answerVars
<1>2. /\ outbox \in Seq(Chunks) /\ s \in Seq(Chunks) /\ attempt \in Attempts
      /\ queue[attempt] \in Seq(Chunks \cup {End}) /\ limit' \in Nat
      /\ outbox' \in Seq(Chunks)
  BY SealsAre DEF TurnTypeOK
<1>3. /\ \A i \in DOMAIN s : s[i].type = "sealed" /\ s[i].call \in U
      /\ \A t, c : Has(s, t, c) <=> t = "sealed" /\ c \in U
      /\ Once(s)
  BY SealsAre
<1>4. \A c \in U : /\ c \in CallIds /\ stage[c] = "open"
                   /\ Has(outbox, "start", c) /\ ~ Has(outbox, "end", c)
                   /\ ~ Has(outbox, "sealed", c)
                   /\ ~ Has(told, "end", c) /\ ~ Has(told, "sealed", c)
  BY UnclosedAre
<1>5. \A c \in CallIds : Has(outbox, "start", c) =>
         c \in U \/ Has(outbox, "end", c) \/ Has(outbox, "sealed", c)
  BY DEF Unclosed
<1>6. ASSUME NEW c \in U PROVE loop[c[1]] = "left"
  <2>1. c \in CallIds /\ stage[c] = "open"
    BY <1>4
  <2>2. c[1] \in Attempts /\ c[2] \in Calls /\ c = <<c[1], c[2]>>
    BY <2>1, CallIs
  <2>3. stage[<<c[1], c[2]>>] = "open"
    BY <2>1, <2>2
  <2>4. loop[c[1]] # "idle" /\ loop[c[1]] # "returned"
    BY <2>2, <2>3 DEF TurnFollows, LoopsFollow
  <2>5. c[1] > attempt \/ c[1] = attempt \/ c[1] < attempt
    BY <1>2, <2>2 DEF Attempts
  <2> QED
    BY <1>1, <2>2, <2>4, <2>5 DEF TurnFollows, LoopsFollow, AfterExecution
<1>7. \A c \in CallIds : c[1] \in Attempts
  BY CallIs
<1> HIDE DEF s, U
<1>8. \A t, c : Has(outbox', t, c) <=> Has(outbox, t, c) \/ (t = "sealed" /\ c \in U)
  <2>1. \A t, c : Has(outbox \o s, t, c) <=> Has(outbox, t, c) \/ Has(s, t, c)
    BY <1>2, HasConcat
  <2> QED
    BY <1>1, <1>3, <2>1
<1>9. /\ n \in Nat /\ DOMAIN outbox \subseteq Nat \ {0} /\ DOMAIN s \subseteq Nat \ {0}
      /\ \A i \in DOMAIN outbox : i <= n /\ i \in DOMAIN outbox' /\ outbox'[i] = outbox[i]
      /\ \A i \in DOMAIN outbox' :
            \/ i \in DOMAIN outbox /\ outbox'[i] = outbox[i]
            \/ i - n \in DOMAIN s /\ outbox'[i] = s[i - n] /\ i > n /\ i \notin DOMAIN outbox
      /\ \A i \in DOMAIN s : n + i \in DOMAIN outbox' /\ outbox'[n + i] = s[i]
  <2>1. /\ n \in Nat /\ DOMAIN outbox \subseteq Nat \ {0} /\ DOMAIN s \subseteq Nat \ {0}
        /\ \A i \in DOMAIN outbox : i <= n
        /\ \A i \in DOMAIN (outbox \o s) :
              \/ i \in DOMAIN outbox /\ (outbox \o s)[i] = outbox[i]
              \/ /\ i - n \in DOMAIN s /\ (outbox \o s)[i] = s[i - n]
                 /\ i > n /\ i \notin DOMAIN outbox
        /\ \A i \in DOMAIN outbox : i \in DOMAIN (outbox \o s) /\ (outbox \o s)[i] = outbox[i]
        /\ \A i \in DOMAIN s : n + i \in DOMAIN (outbox \o s) /\ (outbox \o s)[n + i] = s[i]
    BY <1>2, ConcatAt
  <2> QED
    BY <1>1, <2>1
<1>10. DOMAIN outbox' = 1 .. limit' /\ limit' \in Nat
  BY <1>1, <1>2, LenProperties
<1>11. DOMAIN outbox = 1 .. n
  BY <1>2, LenProperties
<1> HIDE DEF n
<1>12. SetupFollows'
  BY <1>1 DEF SetupFollows
<1>13. LoopsFollow'
  BY <1>1 DEF TurnFollows, LoopsFollow, AfterExecution
<1>14. ChunksFollow'
  <2> SUFFICES ASSUME NEW c \in CallIds
               PROVE  /\ stage[c] = "none" => \A t \in CallTypes :
                            ~ Has(outbox', t, c) /\ ~ Has(told, t, c) /\ ~ Has(queue[c[1]], t, c)
                      /\ stage[c] # "closed" =>
                            /\ ~ Has(outbox', "end", c) /\ ~ Has(told, "end", c)
                            /\ ~ Has(queue[c[1]], "end", c)
                            /\ \A p \in DOMAIN records : records[p][1] # c
                      /\ stage[c] # "none" /\ c[1] = attempt => Has(outbox', "start", c)
                      /\ stage[c] = "closed" /\ Has(outbox', "start", c) => Has(outbox', "end", c)
                      /\ stage[c] = "closed" /\ streaming =>
                            Has(told, "end", c) \/ Has(queue[c[1]], "end", c)
    BY <1>1 DEF ChunksFollow
  <2>1. /\ stage[c] = "none" => \A t \in CallTypes :
              ~ Has(outbox, t, c) /\ ~ Has(told, t, c) /\ ~ Has(queue[c[1]], t, c)
        /\ stage[c] # "closed" =>
              /\ ~ Has(outbox, "end", c) /\ ~ Has(told, "end", c) /\ ~ Has(queue[c[1]], "end", c)
              /\ \A p \in DOMAIN records : records[p][1] # c
        /\ stage[c] # "none" /\ c[1] = attempt => Has(outbox, "start", c)
        /\ stage[c] = "closed" /\ Has(outbox, "start", c) => Has(outbox, "end", c)
        /\ stage[c] = "closed" /\ streaming => Has(told, "end", c) \/ Has(queue[c[1]], "end", c)
    BY DEF TurnFollows, ChunksFollow
  <2>2. stage[c] = "none" => c \notin U
    BY <1>4
  <2> QED
    BY <1>8, <2>1, <2>2
<1>15. QueuesFollow'
  BY <1>1 DEF TurnFollows, QueuesFollow, AfterExecution
<1>16. ToldOnce'
  <2>1. \A t \in CallTypes : \A c : ~ (Has(outbox, t, c) /\ Has(s, t, c))
    BY <1>3, <1>4
  <2>2. Once(outbox')
    BY <1>1, <1>2, <1>3, <2>1, OnceConcat DEF TurnFollows, ToldOnce
  <2> QED
    BY <1>1, <2>2 DEF TurnFollows, ToldOnce
<1>17. SealsFollow'
  <2> SUFFICES ASSUME NEW c \in CallIds
               PROVE  /\ Has(outbox', "sealed", c) => Has(outbox', "start", c)
                      /\ Has(told, "sealed", c) /\ Has(outbox', "start", c)
                            => Has(outbox', "sealed", c)
                      /\ Has(told, "sealed", c) \/ Has(outbox', "sealed", c) => loop[c[1]] = "left"
    BY <1>1 DEF SealsFollow, Flushed
  <2>1. /\ Has(outbox, "sealed", c) => Has(outbox, "start", c)
        /\ Has(told, "sealed", c) /\ Has(outbox, "start", c) => Has(outbox, "sealed", c)
        /\ Has(told, "sealed", c) \/ Has(outbox, "sealed", c) => loop[c[1]] = "left"
    BY DEF TurnFollows, SealsFollow
  <2> QED
    BY <1>4, <1>6, <1>8, <2>1
<1>18. SealsFlushed'
  <2>1. limit' <= Len(outbox')
    BY <1>1, <1>10
  <2>2. ASSUME streaming, NEW i \in cursor' .. limit'
        PROVE  /\ outbox'[i].type = "sealed"
               /\ ~ Has(told, "sealed", outbox'[i].call) /\ ~ Has(told, "end", outbox'[i].call)
    <3>1. i \in DOMAIN outbox' /\ i > n
      BY <1>1, <1>9, <1>10, <2>2
    <3>2. i \notin DOMAIN outbox
      BY <1>9, <1>11, <3>1
    <3>3. i - n \in DOMAIN s /\ outbox'[i] = s[i - n]
      BY <1>9, <3>1, <3>2
    <3> QED
      BY <1>3, <1>4, <3>3
  <2>3. ASSUME streaming, NEW c \in CallIds, c[1] = attempt, Has(told, "start", c)
        PROVE  \/ Has(told, "end", c) \/ Has(told, "sealed", c) \/ Has(queue[attempt], "end", c)
               \/ \E i \in cursor' .. limit' : outbox'[i].type = "sealed" /\ outbox'[i].call = c
    <3>1. stage[c] # "none" /\ Has(outbox, "start", c)
      BY <2>3, SaidOfCalls DEF TurnFollows, ChunksFollow, CallTypes
    <3>2. CASE stage[c] = "closed"
      BY <2>3, <3>2 DEF TurnFollows, ChunksFollow
    <3>3. CASE stage[c] # "closed"
      <4>1. ~ Has(outbox, "end", c)
        BY <3>3 DEF TurnFollows, ChunksFollow
      <4>2. ~ Has(outbox, "sealed", c)
        BY <1>1, <2>3 DEF TurnFollows, SealsFollow, Flushed
      <4>3. Has(s, "sealed", c)
        BY <1>3, <1>5, <3>1, <4>1, <4>2
      <4>4. PICK j \in DOMAIN s : s[j].type = "sealed" /\ s[j].call = c
        BY <4>3 DEF Has
      <4>5. n + j \in DOMAIN outbox' /\ outbox'[n + j] = s[j] /\ j \in Nat \ {0}
        BY <1>9
      <4>6. n + j \in cursor' .. limit'
        BY <1>1, <1>9, <1>10, <2>3, <4>5
      <4> QED
        BY <4>4, <4>5, <4>6
    <3> QED
      BY <3>2, <3>3
  <2> QED
    BY <1>1, <2>1, <2>2, <2>3 DEF SealsFlushed, Flushed
<1>19. OutboxFlushed'
  <2>1. ASSUME ~ streaming
        PROVE  /\ cursor' <= Len(outbox') + 1
               /\ \A i \in 1 .. cursor' - 1 : Has(told, outbox'[i].type, outbox'[i].call)
    <3>1. cursor' = 1
      BY <1>1, <2>1
    <3>2. Len(outbox') \in Nat
      BY <1>1, <1>10
    <3> QED
      BY <3>1, <3>2
  <2>2. ASSUME ~ streaming, NEW i \in 1 .. limit', outbox'[i].type = "start"
        PROVE  \E j \in 1 .. limit' : outbox'[j].call = outbox'[i].call /\ outbox'[j].type \in Ends
    <3>1. i \in DOMAIN outbox /\ outbox'[i] = outbox[i]
      BY <1>3, <1>9, <1>10, <2>2
    <3> DEFINE c == outbox[i].call
    <3>2. c \in CallIds /\ Has(outbox, "start", c)
      BY <1>2, <2>2, <3>1, IndicesAre, ChunksAre DEF Has
    <3>3. Has(outbox', "end", c) \/ Has(outbox', "sealed", c)
      BY <1>5, <1>8, <3>2
    <3> HIDE DEF c
    <3>4. PICK j \in DOMAIN outbox' : outbox'[j].call = c /\ outbox'[j].type \in Ends
      BY <3>3 DEF Has, Ends
    <3> QED
      BY <1>10, <3>1, <3>4 DEF c
  <2>3. ASSUME ~ streaming, NEW i \in DOMAIN outbox', Has(told, outbox'[i].type, outbox'[i].call)
        PROVE  FALSE
    <3>1. CASE i \in DOMAIN outbox /\ outbox'[i] = outbox[i]
      BY <1>1, <2>3, <3>1 DEF TurnFollows, OutboxFlushed
    <3>2. CASE i - n \in DOMAIN s /\ outbox'[i] = s[i - n]
      BY <1>3, <1>4, <2>3, <3>2
    <3> QED
      BY <1>9, <3>1, <3>2
  <2>4. \A i \in DOMAIN outbox' : outbox'[i].type = "start" => outbox'[i].ok
    BY <1>3, <1>9 DEF TurnFollows, OutboxFlushed
  <2> QED
    BY <1>1, <2>1, <2>2, <2>3, <2>4 DEF OutboxFlushed
<1>20. EndsRecorded'
  <2>1. Recorded(outbox, records, attempt) /\ \A c : ~ Has(s, "end", c)
    BY <1>3 DEF TurnFollows, EndsRecorded
  <2>2. Recorded(outbox', records, attempt)
    BY <1>1, <1>2, <2>1, RecordedConcat
  <2> QED
    BY <1>1, <2>2 DEF TurnFollows, EndsRecorded
<1>21. EndsInOrder'
  <2>1. \A c : ~ Has(s, "end", c)
    BY <1>3
  <2>2. \A c, d : Before(outbox, c, d) => Before(outbox', c, d)
    BY <1>1, <1>2, <2>1, BeforeConcat
  <2> QED
    BY <1>1, <2>2 DEF TurnFollows, EndsInOrder
<1>22. MetadataFollows'
  BY <1>1 DEF TurnFollows, MetadataFollows
<1>23. EndFollows'
  BY <1>1 DEF TurnFollows, EndFollows, Is
<1> QED
  BY <1>12, <1>13, <1>14, <1>15, <1>16, <1>17, <1>18, <1>19, <1>20, <1>21, <1>22, <1>23 DEF TurnFollows

-----------------------------------------------------------------------------
(* What the flush still has to tell lies in the outbox.                      *)
LEMMA CursorIs ==
  ASSUME TurnTypeOK, TurnFollows, at = "flushing", FlushLeft
  PROVE  /\ cursor \in DOMAIN outbox /\ cursor \in Nat \ {0} /\ limit \in Nat
         /\ DOMAIN outbox = 1 .. Len(outbox) /\ Len(outbox) \in Nat /\ cursor <= Len(outbox)
         /\ limit <= Len(outbox) /\ (streaming => cursor <= limit)
<1>1. limit <= Len(outbox)
  BY DEF TurnFollows, SealsFlushed, Flushed
<1>2. DOMAIN outbox = 1 .. Len(outbox) /\ Len(outbox) \in Nat
      /\ cursor \in Nat \ {0} /\ limit \in Nat
  BY IndicesAre DEF TurnTypeOK
<1>3. streaming => cursor <= limit
  BY DEF FlushLeft
<1>4. ~ streaming => cursor <= Len(outbox)
  BY DEF FlushLeft
<1>5. cursor <= Len(outbox)
  BY <1>1, <1>2, <1>3, <1>4
<1> QED
  BY <1>1, <1>2, <1>3, <1>5

(* The flush tells one more.                                                 *)
LEMMA FlushYieldsKeeps ==
  ASSUME TurnTypeOK, TurnTypeOK', TurnFollows, FlushYields
  PROVE  TurnFollows'
<1> DEFINE e == outbox[cursor]
<1>1. /\ at = "flushing" /\ FlushLeft /\ told' = Append(told, e) /\ cursor' = cursor + 1
      /\ streaming' = streaming /\ at' = at /\ attempt' = attempt /\ loop' = loop
      /\ stage' = stage /\ queue' = queue /\ outbox' = outbox /\ records' = records
      /\ step' = step /\ limit' = limit /\ toolCalls' = toolCalls /\ verdict' = verdict
      /\ answer' = answer
  BY DEF FlushYields, workVars, answerVars
<1>2. /\ cursor \in DOMAIN outbox /\ cursor \in Nat \ {0} /\ limit \in Nat
      /\ DOMAIN outbox = 1 .. Len(outbox) /\ Len(outbox) \in Nat /\ cursor <= Len(outbox)
      /\ limit <= Len(outbox) /\ (streaming => cursor <= limit)
  BY <1>1, CursorIs
<1>3. /\ e \in Chunks /\ e.type \in CallTypes /\ e.call \in CallIds /\ e \in ToldChunks
      /\ Has(outbox, e.type, e.call) /\ outbox \in Seq(Chunks) /\ told \in Seq(ToldChunks)
  BY <1>2, IndicesAre, ChunksAre DEF TurnTypeOK, Has
<1>4. /\ streaming => /\ e.type = "sealed"
                      /\ ~ Has(told, "sealed", e.call) /\ ~ Has(told, "end", e.call)
      /\ ~ Has(told, e.type, e.call)
  <2>1. CASE streaming
    <3>1. cursor \in cursor .. limit
      BY <1>2, <2>1
    <3>2. e.type = "sealed" /\ ~ Has(told, "sealed", e.call) /\ ~ Has(told, "end", e.call)
      BY <1>1, <2>1, <3>1 DEF TurnFollows, SealsFlushed, Flushed
    <3> QED
      BY <3>2
  <2>2. CASE ~ streaming
    <3>1. Has(told, e.type, e.call) => cursor < cursor
      BY <1>2, <2>2 DEF TurnFollows, OutboxFlushed
    <3> QED
      BY <1>2, <2>2, <3>1
  <2> QED
    BY <2>1, <2>2
<1>5. \A i \in DOMAIN outbox : outbox[i].type = e.type /\ outbox[i].call = e.call => i = cursor
  BY <1>2, <1>3 DEF TurnFollows, ToldOnce, Once
<1>6. \A t, c : Has(told', t, c) <=> Has(told, t, c) \/ (e.type = t /\ e.call = c)
  BY <1>1, <1>3, HasAppend
<1> HIDE DEF e
<1>7. SetupFollows'
  BY <1>1 DEF SetupFollows
<1>8. LoopsFollow'
  BY <1>1 DEF TurnFollows, LoopsFollow
<1>9. ChunksFollow'
  <2> SUFFICES ASSUME NEW c \in CallIds
               PROVE  /\ stage[c] = "none" => \A t \in CallTypes : ~ Has(told', t, c)
                      /\ stage[c] # "closed" => ~ Has(told', "end", c)
    BY <1>1, <1>6 DEF TurnFollows, ChunksFollow
  <2>1. /\ stage[c] = "none" => \A t \in CallTypes : ~ Has(outbox, t, c) /\ ~ Has(told, t, c)
        /\ stage[c] # "closed" => ~ Has(outbox, "end", c) /\ ~ Has(told, "end", c)
    BY DEF TurnFollows, ChunksFollow
  <2> QED
    BY <1>3, <1>6, <2>1
<1>10. QueuesFollow'
  BY <1>1 DEF TurnFollows, QueuesFollow
<1>11. ToldOnce'
  <2>1. Once(told')
    BY <1>1, <1>3, <1>4, OnceAppend DEF TurnFollows, ToldOnce
  <2>2. ASSUME streaming, NEW c \in CallIds
        PROVE  /\ \A t \in {"start", "end"} : Has(told', t, c) => ~ Has(queue[c[1]], t, c)
               /\ ~ (Has(told', "end", c) /\ Has(told', "sealed", c))
    <3>1. /\ \A t \in {"start", "end"} : Has(told, t, c) => ~ Has(queue[c[1]], t, c)
          /\ ~ (Has(told, "end", c) /\ Has(told, "sealed", c))
      BY <2>2 DEF TurnFollows, ToldOnce
    <3> QED
      BY <1>4, <1>6, <2>2, <3>1
  <2> QED
    BY <1>1, <2>1, <2>2 DEF TurnFollows, ToldOnce
<1>12. SealsFollow'
  <2> SUFFICES ASSUME NEW c \in CallIds
               PROVE  /\ Has(told', "sealed", c) /\ Has(outbox, "start", c)
                            => Has(outbox, "sealed", c)
                      /\ Has(told', "sealed", c) =>
                            loop[c[1]] = "left" /\ (c[1] = attempt => at \in Flushed)
    BY <1>1 DEF TurnFollows, SealsFollow
  <2> QED
    BY <1>3, <1>6 DEF TurnFollows, SealsFollow
<1>13. SealsFlushed'
  <2>1. ASSUME streaming, NEW i \in cursor + 1 .. limit
        PROVE  /\ outbox[i].type = "sealed"
               /\ ~ Has(told', "sealed", outbox[i].call) /\ ~ Has(told', "end", outbox[i].call)
    <3>1. i \in cursor .. limit /\ i # cursor /\ i \in DOMAIN outbox
      BY <1>2
    <3>2. /\ outbox[i].type = "sealed"
          /\ ~ Has(told, "sealed", outbox[i].call) /\ ~ Has(told, "end", outbox[i].call)
      BY <1>1, <2>1, <3>1 DEF TurnFollows, SealsFlushed, Flushed
    <3> QED
      BY <1>4, <1>5, <1>6, <2>1, <3>1, <3>2
  <2>2. ASSUME streaming, NEW c \in CallIds, c[1] = attempt, Has(told', "start", c)
        PROVE  \/ Has(told', "end", c) \/ Has(told', "sealed", c) \/ Has(queue[attempt], "end", c)
               \/ \E i \in cursor + 1 .. limit : outbox[i].type = "sealed" /\ outbox[i].call = c
    <3>1. Has(told, "start", c)
      BY <1>4, <1>6, <2>2
    <3>2. \/ Has(told, "end", c) \/ Has(told, "sealed", c) \/ Has(queue[attempt], "end", c)
          \/ \E i \in cursor .. limit : outbox[i].type = "sealed" /\ outbox[i].call = c
      BY <1>1, <2>2, <3>1 DEF TurnFollows, SealsFlushed, Flushed
    <3>3. ASSUME NEW i \in cursor .. limit, outbox[i].type = "sealed", outbox[i].call = c
          PROVE  Has(told', "sealed", c)
                 \/ \E j \in cursor + 1 .. limit : outbox[j].type = "sealed" /\ outbox[j].call = c
      <4>1. i = cursor \/ i \in cursor + 1 .. limit
        BY <1>2
      <4> QED
        BY <1>6, <3>3, <4>1 DEF e
    <3> QED
      BY <1>6, <3>2, <3>3
  <2> QED
    BY <1>1, <1>2, <2>1, <2>2 DEF SealsFlushed
<1>14. OutboxFlushed'
  <2>1. ASSUME ~ streaming
        PROVE  /\ cursor + 1 <= Len(outbox) + 1
               /\ \A i \in 1 .. (cursor + 1) - 1 : Has(told', outbox[i].type, outbox[i].call)
               /\ \A i \in 1 .. limit : outbox[i].type = "start" =>
                     \E j \in 1 .. limit : outbox[j].call = outbox[i].call /\ outbox[j].type \in Ends
    <3>1. /\ \A i \in 1 .. cursor - 1 : Has(told, outbox[i].type, outbox[i].call)
          /\ \A i \in 1 .. limit : outbox[i].type = "start" =>
                \E j \in 1 .. limit : outbox[j].call = outbox[i].call /\ outbox[j].type \in Ends
      BY <1>1, <2>1 DEF TurnFollows, OutboxFlushed, Flushed
    <3>2. ASSUME NEW i \in 1 .. (cursor + 1) - 1 PROVE Has(told', outbox[i].type, outbox[i].call)
      <4>1. i = cursor \/ i \in 1 .. cursor - 1
        BY <1>2
      <4> QED
        BY <1>6, <3>1, <4>1 DEF e
    <3>3. cursor + 1 <= Len(outbox) + 1
      BY <1>2
    <3> QED
      BY <3>1, <3>2, <3>3
  <2>2. ASSUME ~ streaming, NEW i \in DOMAIN outbox, Has(told', outbox[i].type, outbox[i].call)
        PROVE  i < cursor + 1
    <3>1. CASE Has(told, outbox[i].type, outbox[i].call)
      <4>1. i < cursor
        BY <2>2, <3>1 DEF TurnFollows, OutboxFlushed
      <4> QED
        BY <1>2, <4>1
    <3>2. CASE e.type = outbox[i].type /\ e.call = outbox[i].call
      BY <1>2, <1>5, <3>2
    <3> QED
      BY <1>6, <2>2, <3>1, <3>2
  <2>3. \A i \in DOMAIN outbox : outbox[i].type = "start" => outbox[i].ok
    BY DEF TurnFollows, OutboxFlushed
  <2> QED
    BY <1>1, <2>1, <2>2, <2>3 DEF OutboxFlushed
<1>15. EndsRecorded'
  <2>1. Recorded(told, records, attempt) /\ Recorded(outbox, records, attempt)
    BY DEF TurnFollows, EndsRecorded
  <2>2. e.type = "end" /\ e.call[1] = attempt =>
           \E p \in DOMAIN records : records[p] = <<e.call, e.ok>>
    BY <1>2, <2>1 DEF Recorded, e
  <2>3. Recorded(told', records, attempt)
    BY <1>1, <1>3, <2>1, <2>2, RecordedToo
  <2> QED
    BY <1>1, <2>3 DEF TurnFollows, EndsRecorded
<1>16. EndsInOrder'
  <2> SUFFICES ASSUME NEW p \in DOMAIN records, NEW q \in DOMAIN records,
                      p < q, records[p][1][1] = attempt, records[q][1][1] = attempt
               PROVE  /\ Before(told', records[p][1], records[q][1])
                      /\ streaming => \/ Has(told', "end", records[p][1])
                                      \/ Before(queue[attempt], records[p][1], records[q][1])
                      /\ ~ streaming => Before(outbox, records[p][1], records[q][1])
    BY <1>1 DEF EndsInOrder
  <2> DEFINE c == records[p][1]
             d == records[q][1]
  <2>1. /\ Before(told, c, d)
        /\ streaming => Has(told, "end", c) \/ Before(queue[attempt], c, d)
        /\ ~ streaming => Before(outbox, c, d)
    BY DEF TurnFollows, EndsInOrder
  <2> HIDE DEF c, d
  <2>2. ASSUME e.type = "end", e.call = d PROVE Has(told, "end", c)
    <3>1. ~ streaming
      BY <1>4, <2>2
    <3>2. PICK i \in DOMAIN outbox : i < cursor /\ outbox[i].type = "end" /\ outbox[i].call = c
      BY <1>2, <2>1, <2>2, <3>1 DEF Before, e
    <3>3. i \in 1 .. cursor - 1
      BY <1>2, <3>2
    <3>4. Has(told, outbox[i].type, outbox[i].call)
      BY <1>1, <3>1, <3>3 DEF TurnFollows, OutboxFlushed, Flushed
    <3> QED
      BY <3>2, <3>4
  <2>3. Before(told', c, d)
    BY <1>1, <1>3, <2>1, <2>2, BeforeAppend
  <2> QED
    BY <1>6, <2>1, <2>3 DEF c, d
<1>17. MetadataFollows'
  BY <1>1 DEF TurnFollows, MetadataFollows
<1>18. EndFollows'
  <2>1. /\ \A i : i \in DOMAIN told' <=> i \in DOMAIN told \/ i = Len(told) + 1
        /\ \A i \in DOMAIN told : told'[i] = told[i]
        /\ told'[Len(told) + 1] = e
    BY <1>1, <1>3, AppendAt
  <2> QED
    BY <1>1, <1>3, <2>1 DEF TurnFollows, EndFollows, Is, Final, CallTypes
<1> QED
  BY <1>7, <1>8, <1>9, <1>10, <1>11, <1>12, <1>13, <1>14, <1>15, <1>16, <1>17, <1>18 DEF TurnFollows

(* The flush over, the records become metadata.                              *)
LEMMA FlushEndsKeeps ==
  ASSUME TurnTypeOK, TurnTypeOK', TurnFollows, FlushEnds
  PROVE  TurnFollows'
<1>1. /\ at = "flushing" /\ ~ FlushLeft /\ at' = "validating" /\ toolCalls' = toolCalls \o records
      /\ streaming' = streaming /\ attempt' = attempt /\ loop' = loop
      /\ stage' = stage /\ queue' = queue /\ outbox' = outbox /\ records' = records
      /\ step' = step /\ cursor' = cursor /\ limit' = limit /\ verdict' = verdict
      /\ answer' = answer /\ told' = told
  BY DEF FlushEnds, workVars, flushVars
<1>2. toolCalls' = records
  <2>1. toolCalls = <<>> /\ records \in Seq(CallIds \X BOOLEAN)
    BY <1>1 DEF TurnTypeOK, TurnFollows, MetadataFollows
  <2> QED
    BY <1>1, <2>1
<1>3. /\ cursor \in Nat \ {0} /\ limit \in Nat /\ limit <= Len(outbox) /\ Len(outbox) \in Nat
      /\ \A i \in DOMAIN outbox : i \in Nat \ {0} /\ i <= Len(outbox)
  BY <1>1, IndicesAre DEF TurnTypeOK, TurnFollows, SealsFlushed, Flushed
<1>4. cursor > limit /\ (~ streaming => cursor > Len(outbox))
  BY <1>1, <1>3 DEF FlushLeft
<1>5. SetupFollows'
  BY <1>1 DEF SetupFollows
<1>6. LoopsFollow'
  BY <1>1 DEF TurnFollows, LoopsFollow, AfterExecution
<1>7. ChunksFollow'
  BY <1>1 DEF TurnFollows, ChunksFollow
<1>8. QueuesFollow'
  BY <1>1 DEF TurnFollows, QueuesFollow, AfterExecution
<1>9. ToldOnce'
  BY <1>1 DEF TurnFollows, ToldOnce
<1>10. SealsFollow'
  BY <1>1 DEF TurnFollows, SealsFollow, Flushed
<1>11. SealsFlushed'
  BY <1>1, <1>3, <1>4 DEF TurnFollows, SealsFlushed, Flushed
<1>12. OutboxFlushed'
  BY <1>1 DEF TurnFollows, OutboxFlushed, Flushed
<1>13. EndsRecorded' /\ EndsInOrder'
  BY <1>1 DEF TurnFollows, EndsRecorded, EndsInOrder
<1>14. MetadataFollows'
  <2>1. Len(records) <= Len(records) /\ \A p \in DOMAIN records : p <= Len(records)
    BY IndicesAre DEF TurnTypeOK
  <2>2. ASSUME loop[attempt] = "returned", NEW p \in DOMAIN records, records[p][1][1] = attempt
        PROVE  Has(told, "end", records[p][1])
    <3> DEFINE c == records[p][1]
    <3>1. c \in CallIds /\ stage[c] = "closed" /\ c[1] = attempt
      BY <2>2, RecordedClosed
    <3> HIDE DEF c
    <3>2. CASE streaming
      <4>1. queue[attempt] = <<>>
        BY <1>1, <2>2 DEF TurnFollows, QueuesFollow, AfterExecution
      <4>2. Has(told, "end", c) \/ Has(queue[attempt], "end", c)
        BY <3>1, <3>2 DEF TurnFollows, ChunksFollow
      <4>3. ~ Has(queue[attempt], "end", c)
        BY <4>1, EmptyBox
      <4> QED
        BY <4>2, <4>3 DEF c
    <3>3. CASE ~ streaming
      <4>1. Has(outbox, "end", c)
        BY <3>1 DEF TurnFollows, ChunksFollow
      <4>2. PICK i \in DOMAIN outbox : outbox[i].type = "end" /\ outbox[i].call = c
        BY <4>1 DEF Has
      <4>3. i \in 1 .. cursor - 1
        BY <1>3, <1>4, <3>3
      <4>4. Has(told, outbox[i].type, outbox[i].call)
        BY <1>1, <3>3, <4>3 DEF TurnFollows, OutboxFlushed, Flushed
      <4> QED
        BY <4>2, <4>4 DEF c
    <3> QED
      BY <3>2, <3>3
  <2> QED
    BY <1>1, <1>2, <2>1, <2>2 DEF MetadataFollows
<1>15. EndFollows'
  BY <1>1 DEF TurnFollows, EndFollows, Is
<1> QED
  BY <1>5, <1>6, <1>7, <1>8, <1>9, <1>10, <1>11, <1>12, <1>13, <1>14, <1>15 DEF TurnFollows

-----------------------------------------------------------------------------
(* A verdict: another attempt is due, or the turn is about to stop.          *)
LEMMA ValidateKeeps ==
  ASSUME TurnTypeOK, TurnTypeOK', TurnFollows, Validate
  PROVE  TurnFollows'
<1>1. PICK v \in Verdicts :
          /\ verdict' = v
          /\ IF Retries(v) THEN at' = "attempt" /\ attempt' = attempt + 1 /\ UNCHANGED told
                ELSE /\ at' = "stopping" /\ UNCHANGED attempt
                     /\ told' = Append(told, Chunk("turnStop", NoCall, TRUE))
  BY DEF Validate
<1>2. /\ at = "validating"
      /\ streaming' = streaming /\ loop' = loop /\ stage' = stage /\ queue' = queue
      /\ outbox' = outbox /\ records' = records /\ step' = step /\ cursor' = cursor
      /\ limit' = limit /\ toolCalls' = toolCalls /\ answer' = answer
  BY DEF Validate, workVars, flushVars
<1>3. attempt \in Attempts /\ attempt' \in Attempts /\ \A b \in Attempts : b \in Nat
  BY DEF TurnTypeOK, Attempts
<1>4. \A c \in CallIds : c[1] \in Attempts
  BY CallIs
<1>5. CASE Retries(v)
  <2>1. at' = "attempt" /\ attempt' = attempt + 1 /\ told' = told
    BY <1>1, <1>5
  <2>2. loop[attempt'] = "idle"
    BY <1>2, <1>3, <2>1 DEF TurnFollows, LoopsFollow
  <2>3. ASSUME NEW c \in CallIds, c[1] = attempt'
        PROVE  /\ stage[c] = "none"
               /\ \A t \in CallTypes :
                     ~ Has(outbox, t, c) /\ ~ Has(told, t, c) /\ ~ Has(queue[c[1]], t, c)
               /\ \A p \in DOMAIN records : records[p][1] # c
    BY <2>2, <2>3, IdleSilent
  <2>4. SetupFollows'
    BY <2>1 DEF SetupFollows
  <2>5. LoopsFollow'
    <3>1. \A b \in Attempts : /\ b > attempt + 1 \/ b = attempt + 1 => b > attempt
                              /\ b < attempt + 1 => b < attempt \/ b = attempt
      BY <1>3
    <3> QED
      BY <1>2, <1>3, <2>1, <3>1 DEF TurnFollows, LoopsFollow, AfterExecution
  <2>6. ChunksFollow'
    BY <1>2, <2>1, <2>3 DEF TurnFollows, ChunksFollow
  <2>7. QueuesFollow'
    BY <1>2, <2>1 DEF TurnFollows, QueuesFollow, AfterExecution
  <2>8. ToldOnce'
    BY <1>2, <2>1 DEF TurnFollows, ToldOnce
  <2>9. SealsFollow'
    <3>1. "sealed" \in CallTypes
      BY DEF CallTypes
    <3> QED
      BY <1>2, <2>1, <2>3, <3>1 DEF TurnFollows, SealsFollow
  <2>10. SealsFlushed'
    BY <2>1 DEF SealsFlushed, Flushed
  <2>11. OutboxFlushed'
    BY <1>2, <2>1 DEF TurnFollows, OutboxFlushed, Flushed
  <2>12. EndsRecorded'
    <3>1. ASSUME NEW c, c \in CallIds,
                 Has(told, "end", c) \/ Has(outbox, "end", c) \/ Has(queue[attempt'], "end", c)
          PROVE  c[1] # attempt'
      BY <2>3, <3>1 DEF CallTypes
    <3>2. ASSUME NEW box, NEW S, box \in Seq(S), S \subseteq ToldChunks \cup {End},
                 \A c \in CallIds : Has(box, "end", c) => c[1] # attempt'
          PROVE  Recorded(box, records, attempt')
      <4>1. ASSUME NEW i \in DOMAIN box, box[i].type = "end", box[i].call[1] = attempt'
            PROVE  FALSE
        <5>1. box[i] \in ToldChunks \cup {End}
          BY <3>2, IndicesAre
        <5>2. box[i] \in Chunks
          BY <4>1, <5>1, ChunksAre DEF CallTypes
        <5>3. box[i].call \in CallIds /\ Has(box, "end", box[i].call)
          BY <4>1, <5>2, ChunksAre DEF Has
        <5> QED
          BY <3>2, <4>1, <5>3
      <4> QED
        BY <4>1 DEF Recorded
    <3>3. /\ told \in Seq(ToldChunks) /\ outbox \in Seq(Chunks)
          /\ queue[attempt'] \in Seq(Chunks \cup {End})
          /\ Chunks \subseteq ToldChunks \cup {End} /\ ToldChunks \subseteq ToldChunks \cup {End}
          /\ Chunks \cup {End} \subseteq ToldChunks \cup {End}
      BY <1>3, ChunksAre DEF TurnTypeOK
    <3>4. Recorded(told, records, attempt')
      BY <3>1, <3>2, <3>3
    <3>5. Recorded(outbox, records, attempt')
      BY <3>1, <3>2, <3>3
    <3>6. Recorded(queue[attempt'], records, attempt')
      BY <3>1, <3>2, <3>3
    <3>7. \A c \in CallIds : ~ (c[1] = attempt' /\ stage[c] = "closed")
      BY <2>3
    <3> QED
      BY <1>2, <2>1, <3>4, <3>5, <3>6, <3>7 DEF TurnFollows, EndsRecorded
  <2>13. EndsInOrder'
    <3>1. \A p \in DOMAIN records : records[p][1][1] # attempt'
      BY <2>3, RecordedClosed
    <3> QED
      BY <1>2, <3>1 DEF EndsInOrder
  <2>14. MetadataFollows'
    BY <2>1 DEF MetadataFollows
  <2>15. EndFollows'
    BY <1>2, <2>1 DEF TurnFollows, EndFollows, Is
  <2> QED
    BY <2>4, <2>5, <2>6, <2>7, <2>8, <2>9, <2>10, <2>11, <2>12, <2>13, <2>14, <2>15 DEF TurnFollows
<1>6. CASE ~ Retries(v)
  <2> DEFINE e == Chunk("turnStop", NoCall, TRUE)
  <2>1. at' = "stopping" /\ attempt' = attempt /\ told' = Append(told, e)
    BY <1>1, <1>6
  <2>2. "turnStop" \in Marks /\ TRUE \in BOOLEAN
    BY DEF Marks
  <2>3. e \in ToldChunks /\ e.type = "turnStop" /\ e.type \notin CallTypes
    BY <2>2, MarkIs
  <2>4. told \in Seq(ToldChunks)
    BY DEF TurnTypeOK
  <2> HIDE DEF e
  <2>5. \A t, c : Has(told', t, c) <=> Has(told, t, c) \/ (e.type = t /\ e.call = c)
    BY <2>1, <2>3, <2>4, HasAppend
  <2>6. \A t \in CallTypes : \A c : Has(told', t, c) <=> Has(told, t, c)
    BY <2>3, <2>5
  <2>7. \A t \in {"start", "end", "sealed"} : \A c : Has(told', t, c) <=> Has(told, t, c)
    BY <2>6 DEF CallTypes
  <2>8. SetupFollows'
    BY <2>1 DEF SetupFollows
  <2>9. LoopsFollow'
    BY <1>2, <2>1 DEF TurnFollows, LoopsFollow, AfterExecution
  <2>10. ChunksFollow'
    BY <1>2, <2>1, <2>6, <2>7 DEF TurnFollows, ChunksFollow
  <2>11. QueuesFollow'
    BY <1>2, <2>1 DEF TurnFollows, QueuesFollow, AfterExecution
  <2>12. ToldOnce'
    <3>1. Once(told')
      BY <2>1, <2>3, <2>4, OnceAppend DEF TurnFollows, ToldOnce
    <3> QED
      BY <1>2, <2>7, <3>1 DEF TurnFollows, ToldOnce
  <2>13. SealsFollow'
    BY <1>2, <2>1, <2>7 DEF TurnFollows, SealsFollow, Flushed
  <2>14. SealsFlushed'
    BY <1>2, <2>1, <2>7 DEF TurnFollows, SealsFlushed, Flushed
  <2>15. OutboxFlushed'
    <3>1. \A i \in DOMAIN outbox : outbox[i].type \in CallTypes
      BY IndicesAre, ChunksAre DEF TurnTypeOK
    <3>2. \A i \in DOMAIN outbox : Has(told', outbox[i].type, outbox[i].call)
                                    <=> Has(told, outbox[i].type, outbox[i].call)
      BY <2>6, <3>1
    <3>3. \A i, c : Has(told, outbox[i].type, c) => Has(told', outbox[i].type, c)
      BY <2>5
    <3> QED
      BY <1>2, <2>1, <3>2, <3>3 DEF TurnFollows, OutboxFlushed, Flushed
  <2>16. EndsRecorded'
    <3>1. Recorded(told, records, attempt)
      BY DEF TurnFollows, EndsRecorded
    <3>2. ~ (e.type = "end")
      BY <2>3
    <3>3. Recorded(told', records, attempt)
      BY <2>1, <2>3, <2>4, <3>1, <3>2, RecordedToo
    <3> QED
      BY <1>2, <2>1, <3>3 DEF TurnFollows, EndsRecorded
  <2>17. EndsInOrder'
    <3>1. ~ (e.type = "end")
      BY <2>3
    <3>2. \A c, d : Before(told, c, d) => Before(told', c, d)
      BY <2>1, <2>3, <2>4, <3>1, BeforeAppend
    <3> QED
      BY <1>2, <2>1, <2>7, <3>2 DEF TurnFollows, EndsInOrder
  <2>18. MetadataFollows'
    BY <1>2, <2>1, <2>7 DEF TurnFollows, MetadataFollows
  <2>19. EndFollows'
    <3>1. /\ \A i : i \in DOMAIN told' <=> i \in DOMAIN told \/ i = Len(told) + 1
          /\ \A i \in DOMAIN told : told'[i] = told[i]
          /\ told'[Len(told) + 1] = e
      BY <2>1, <2>3, <2>4, AppendAt
    <3>2. \A i \in DOMAIN told' : ~ (told'[i].type \in Final)
      BY <2>3, <3>1 DEF TurnFollows, EndFollows, Is, Final
    <3>3. v = "pass" => step \in {"ready", "skipped"}
      BY <1>1 DEF Verdicts
    <3>4. answer' = "none"
      BY <1>2 DEF TurnFollows, EndFollows
    <3> QED
      BY <1>1, <1>2, <2>1, <3>2, <3>3, <3>4 DEF EndFollows, Is
  <2> QED
    BY <2>8, <2>9, <2>10, <2>11, <2>12, <2>13, <2>14, <2>15, <2>16, <2>17, <2>18, <2>19 DEF TurnFollows
<1> QED
  BY <1>5, <1>6

-----------------------------------------------------------------------------
(* At most one.                                                              *)
LEMMA AtMostOne ==
  ASSUME NEW T, \A i, j \in T : i = j
  PROVE  Cardinality(T) <= 1
<1>1. CASE T = {}
  BY <1>1, FS_EmptySet
<1>2. CASE T # {}
  <2>1. PICK x \in T : TRUE
    BY <1>2
  <2>2. T = {x}
    BY <2>1
  <2>3. Cardinality({x}) = 1
    BY FS_Singleton
  <2>4. Cardinality(T) = 1
    BY <2>2, <2>3, Zenon
  <2> QED
    BY <2>4
<1> QED
  BY <1>1, <1>2

(* The places at which a call was told of.                                   *)
LEMMA PlacesAre ==
  \A c : /\ Places(c, {"start"}) # {} <=> Has(told, "start", c)
         /\ Places(c, Ends) # {} <=> Has(told, "end", c) \/ Has(told, "sealed", c)
         /\ Once(told) => Cardinality(Places(c, {"start"})) <= 1
         /\ Once(told) /\ ~ (Has(told, "end", c) /\ Has(told, "sealed", c)) =>
               Cardinality(Places(c, Ends)) <= 1
<1> TAKE c
<1>1. Places(c, {"start"}) # {} <=> Has(told, "start", c)
  BY DEF Places, Is, Has
<1>2. Places(c, Ends) # {} <=> Has(told, "end", c) \/ Has(told, "sealed", c)
  BY DEF Places, Is, Has, Ends
<1>3. ASSUME Once(told) PROVE Cardinality(Places(c, {"start"})) <= 1
  <2>1. \A i, j \in Places(c, {"start"}) : i = j
    BY <1>3 DEF Places, Is, Once, CallTypes
  <2> QED
    BY <2>1, AtMostOne
<1>4. ASSUME Once(told), ~ (Has(told, "end", c) /\ Has(told, "sealed", c))
      PROVE  Cardinality(Places(c, Ends)) <= 1
  <2>1. \A i, j \in Places(c, Ends) : told[i].type = told[j].type
    BY <1>4 DEF Places, Is, Has, Ends
  <2>2. \A i, j \in Places(c, Ends) : i = j
    BY <1>4, <2>1 DEF Places, Is, Once, CallTypes, Ends
  <2> QED
    BY <2>2, AtMostOne
<1> QED
  BY <1>1, <1>2, <1>3, <1>4

(* After the flush, a call of the attempt that was told to start was told to *)
(* end, unless its end came too late for the queue or its start for the      *)
(* flush.                                                                    *)
LEMMA FlushedTold ==
  ASSUME TurnTypeOK, TurnFollows, at \in {"validating", "stopping"},
         NEW c \in CallIds, c[1] = attempt, Has(told, "start", c)
  PROVE  \/ Has(told, "end", c) \/ Has(told, "sealed", c)
         \/ streaming /\ Has(queue[attempt], "end", c)
         \/ ~ streaming /\ \E i \in DOMAIN outbox :
                                 i > limit /\ outbox[i] = Chunk("start", c, TRUE)
<1>1. /\ cursor \in Nat \ {0} /\ limit \in Nat /\ cursor > limit /\ limit <= Len(outbox)
      /\ outbox \in Seq(Chunks)
  BY DEF TurnTypeOK, TurnFollows, SealsFlushed, Flushed
<1>2. CASE streaming
  <2>1. \/ Has(told, "end", c) \/ Has(told, "sealed", c) \/ Has(queue[attempt], "end", c)
        \/ \E i \in cursor .. limit : outbox[i].type = "sealed" /\ outbox[i].call = c
    BY <1>2 DEF TurnFollows, SealsFlushed, Flushed
  <2>2. cursor .. limit = {}
    BY <1>1
  <2> QED
    BY <1>2, <2>1, <2>2
<1>3. CASE ~ streaming
  <2>1. Has(outbox, "start", c)
    <3>1. stage[c] # "none"
      BY SaidOfCalls DEF CallTypes
    <3> QED
      BY <3>1 DEF TurnFollows, ChunksFollow
  <2>2. PICK i \in DOMAIN outbox : outbox[i].type = "start" /\ outbox[i].call = c
    BY <2>1 DEF Has
  <2>3. i \in Nat \ {0} /\ outbox[i] \in Chunks /\ outbox[i].ok
    BY <1>1, <2>2, IndicesAre DEF TurnFollows, OutboxFlushed
  <2>4. CASE i > limit
    <3>1. outbox[i] = Chunk("start", c, TRUE)
      <4>1. outbox[i].ok = TRUE
        BY <2>3 DEF Chunks
      <4> QED
        BY <2>2, <2>3, <4>1 DEF Chunks, Chunk
    <3> QED
      BY <1>3, <2>4, <3>1
  <2>5. CASE ~ (i > limit)
    <3>1. i \in 1 .. limit
      BY <1>1, <2>3, <2>5
    <3>2. PICK j \in 1 .. limit : outbox[j].call = c /\ outbox[j].type \in Ends
      BY <1>3, <2>2, <3>1 DEF TurnFollows, OutboxFlushed, Flushed
    <3>3. j \in 1 .. cursor - 1
      BY <1>1
    <3>4. Has(told, outbox[j].type, outbox[j].call)
      BY <1>3, <3>3 DEF TurnFollows, OutboxFlushed, Flushed
    <3> QED
      BY <3>2, <3>4 DEF Ends
  <2> QED
    BY <2>4, <2>5
<1> QED
  BY <1>2, <1>3

(* Until the turn has ended, its parts give what is promised.                *)
LEMMA LivePromises == TurnTypeOK /\ TurnFollows /\ at # "ended" => StreamTold /\ HonestOutcome
<1> SUFFICES ASSUME TurnTypeOK, TurnFollows, at # "ended" PROVE StreamTold /\ HonestOutcome
  OBVIOUS
<1>1. answer = "none" /\ \A i \in DOMAIN told : ~ Is(i, Final)
  BY DEF TurnFollows, EndFollows
<1>2. \A t \in Final : ~ Told({t})
  <2> SUFFICES ASSUME NEW t \in Final, Told({t}) PROVE FALSE
    OBVIOUS
  <2>1. told \in Seq(ToldChunks) /\ told # <<>>
    BY DEF TurnTypeOK, Told
  <2>2. Len(told) \in DOMAIN told
    BY <2>1, EmptySeq, LenProperties
  <2>3. told[Len(told)].type \in Final
    BY DEF Told, Last
  <2> QED
    BY <1>1, <2>2, <2>3 DEF Is
<1>3. ~ Told({"failed"}) /\ ~ Told({"completed"})
  BY <1>2 DEF Final
<1>4. HonestOutcome
  BY <1>1, <1>3 DEF HonestOutcome
<1>5. ASSUME at \in {"validating", "ended"}, NEW c \in {attempt} \X Calls,
             Places(c, {"start"}) # {}
      PROVE  \/ Places(c, Ends) # {}
             \/ streaming /\ \E chunk \in ToSet(queue[attempt]) :
                                    chunk.type = "end" /\ chunk.call = c
             \/ ~ streaming /\ \E i \in DOMAIN outbox :
                                    i > limit /\ outbox[i] = Chunk("start", c, TRUE)
  <2>1. c \in CallIds /\ c[1] = attempt
    BY DEF TurnTypeOK, CallIds
  <2>2. Has(told, "start", c)
    BY <1>5, PlacesAre
  <2>3. at \in {"validating", "stopping"}
    BY <1>5
  <2>4. Has(queue[attempt], "end", c) =>
           \E chunk \in ToSet(queue[attempt]) : chunk.type = "end" /\ chunk.call = c
    BY DEF Has, ToSet
  <2>5. \/ Has(told, "end", c) \/ Has(told, "sealed", c)
        \/ streaming /\ Has(queue[attempt], "end", c)
        \/ ~ streaming /\ \E i \in DOMAIN outbox :
                                i > limit /\ outbox[i] = Chunk("start", c, TRUE)
    BY <2>1, <2>2, <2>3, FlushedTold
  <2> QED
    BY <2>4, <2>5, PlacesAre
<1>6. ASSUME NEW c \in CallIds
      PROVE  /\ Cardinality(Places(c, {"start"})) <= 1
             /\ streaming => Cardinality(Places(c, Ends)) <= 1
  <2>1. Once(told) /\ (streaming => ~ (Has(told, "end", c) /\ Has(told, "sealed", c)))
    BY DEF TurnFollows, ToldOnce
  <2> QED
    BY <2>1, PlacesAre
<1> QED
  BY <1>1, <1>3, <1>4, <1>5, <1>6 DEF StreamTold

-----------------------------------------------------------------------------
(* The done chunk: the outcome is what the metadata and the verdict say, and *)
(* the consumer has seen the ends it rests on.                               *)
LEMMA YieldDonePromises ==
  ASSUME TurnTypeOK, TurnTypeOK', TurnFollows, YieldDone
  PROVE  StreamTold' /\ HonestOutcome'
<1> DEFINE e == Chunk(TurnOutcome, NoCall, TRUE)
           n == Len(told) + 1
<1>1. /\ at = "stopping" /\ at' = "ended" /\ answer' = OutputText /\ told' = Append(told, e)
      /\ streaming' = streaming /\ attempt' = attempt /\ loop' = loop /\ stage' = stage
      /\ queue' = queue /\ outbox' = outbox /\ records' = records /\ step' = step
      /\ cursor' = cursor /\ limit' = limit /\ toolCalls' = toolCalls /\ verdict' = verdict
  BY DEF YieldDone, workVars, flushVars
<1>2. TurnOutcome \in Marks /\ TurnOutcome \in {"degraded", "completed"} /\ TRUE \in BOOLEAN
  BY DEF TurnOutcome, Marks
<1>3. e \in ToldChunks /\ e.type = TurnOutcome /\ e.type \notin CallTypes
  BY <1>2, MarkIs
<1>4. told \in Seq(ToldChunks) /\ told' \in Seq(ToldChunks) /\ attempt \in Attempts
  BY DEF TurnTypeOK
<1> HIDE DEF e
<1>5. \A t, c : Has(told', t, c) <=> Has(told, t, c) \/ (e.type = t /\ e.call = c)
  BY <1>1, <1>3, <1>4, HasAppend
<1>6. \A t \in {"start", "end", "sealed"} : \A c : Has(told', t, c) <=> Has(told, t, c)
  BY <1>3, <1>5 DEF CallTypes
<1>7. /\ n \in Nat /\ Len(told') = n
      /\ \A i : i \in DOMAIN told' <=> i \in DOMAIN told \/ i = n
      /\ \A i \in DOMAIN told : told'[i] = told[i] /\ i < n
      /\ told'[n] = e /\ DOMAIN told \subseteq Nat \ {0}
  BY <1>1, <1>3, <1>4, AppendAt
<1> HIDE DEF n
<1>8. \A i \in DOMAIN told : told[i].type \notin Final
  BY DEF TurnFollows, EndFollows, Is
<1>9. (\A c : /\ Places(c, {"start"}) # {} <=> Has(told, "start", c)
              /\ Places(c, Ends) # {} <=> Has(told, "end", c) \/ Has(told, "sealed", c)
              /\ Once(told) => Cardinality(Places(c, {"start"})) <= 1
              /\ Once(told) /\ ~ (Has(told, "end", c) /\ Has(told, "sealed", c)) =>
                    Cardinality(Places(c, Ends)) <= 1)'
  BY PlacesAre, PTL
<1>10. Once(told')
  BY <1>1, <1>3, <1>4, OnceAppend DEF TurnFollows, ToldOnce
<1>11. Last(told') = e
  BY <1>7 DEF Last
<1>12. Told({"failed"})' = FALSE
  BY <1>2, <1>3, <1>11 DEF Told
<1>13. StreamTold'
  <2>1. \A i \in DOMAIN told' : told'[i].type \in Final => i = Len(told')
    BY <1>7, <1>8
  <2>2. ASSUME NEW c \in {attempt} \X Calls, Has(told', "start", c)
        PROVE  \/ Has(told', "end", c) \/ Has(told', "sealed", c)
               \/ streaming /\ \E chunk \in ToSet(queue[attempt]) :
                                      chunk.type = "end" /\ chunk.call = c
               \/ ~ streaming /\ \E i \in DOMAIN outbox :
                                      i > limit /\ outbox[i] = Chunk("start", c, TRUE)
    <3>1. c \in CallIds /\ c[1] = attempt /\ Has(told, "start", c)
      BY <1>4, <1>6, <2>2 DEF CallIds
    <3>2. \/ Has(told, "end", c) \/ Has(told, "sealed", c)
          \/ streaming /\ Has(queue[attempt], "end", c)
          \/ ~ streaming /\ \E i \in DOMAIN outbox :
                                  i > limit /\ outbox[i] = Chunk("start", c, TRUE)
      BY <1>1, <3>1, FlushedTold
    <3>3. Has(queue[attempt], "end", c) =>
             \E chunk \in ToSet(queue[attempt]) : chunk.type = "end" /\ chunk.call = c
      BY DEF Has, ToSet
    <3> QED
      BY <1>6, <3>2, <3>3
  <2>3. ASSUME NEW c \in CallIds
        PROVE  streaming => ~ (Has(told', "end", c) /\ Has(told', "sealed", c))
    BY <1>6 DEF TurnFollows, ToldOnce
  <2> QED
    BY <1>1, <1>9, <1>10, <1>12, <2>1, <2>2, <2>3 DEF StreamTold, Is
<1>14. HonestOutcome'
  <2>1. answer' = "draft" => verdict = "pass" /\ step = "ready"
    BY <1>1 DEF OutputText, Passing
  <2>2. CASE TurnOutcome = "degraded"
    <3>1. ~ Told({"completed"})'
      BY <1>3, <1>11, <2>2 DEF Told
    <3> QED
      BY <1>1, <2>1, <3>1 DEF HonestOutcome
  <2>3. CASE TurnOutcome = "completed"
    <3>1. verdict = "pass" /\ ~ Unresolved(toolCalls)
      BY <2>3 DEF TurnOutcome, Passing
    <3>2. step \in {"ready", "skipped"}
      BY <1>1, <3>1 DEF TurnFollows, EndFollows
    <3>3. answer' = IF step = "skipped" THEN "results" ELSE "draft"
      BY <1>1, <3>1, <3>2 DEF OutputText, Passing
    <3>4. loop[attempt] = "returned"
      BY <1>1, <3>2 DEF TurnFollows, LoopsFollow, AfterExecution
    <3>5. ASSUME NEW i \in DOMAIN told', told'[i].type \in Ends, told'[i].call[1] = attempt,
                 ~ told'[i].ok
          PROVE  /\ told'[i].type # "sealed"
                 /\ \/ \E j \in DOMAIN told' : j > i /\ told'[j].type = "end" /\ told'[j].ok
                    \/ \E r \in ToSet(toolCalls) : r[1][1] < attempt /\ r[2]
      <4>1. i \in DOMAIN told /\ told'[i] = told[i]
        BY <1>3, <1>7, <3>5 DEF Ends, CallTypes
      <4> DEFINE c == told[i].call
      <4>2. c \in CallIds /\ told[i] \in Chunks /\ Has(told, told[i].type, c) /\ c[1] = attempt
        <5>1. told[i] \in ToldChunks /\ told[i].type \in CallTypes
          BY <1>4, <3>5, <4>1, IndicesAre DEF Ends, CallTypes
        <5> QED
          BY <3>5, <4>1, <5>1, ChunksAre DEF Has
      <4>3. told[i].type # "sealed"
        BY <3>4, <4>2 DEF TurnFollows, SealsFollow
      <4>4. told[i].type = "end"
        BY <3>5, <4>1, <4>3 DEF Ends
      <4>5. PICK p \in DOMAIN records : records[p] = <<c, told[i].ok>>
        BY <4>1, <4>2, <4>4 DEF TurnFollows, EndsRecorded, Recorded
      <4>6. records[p][1] = c /\ ~ records[p][2]
        BY <3>5, <4>1, <4>5
      <4>7. /\ Len(toolCalls) <= Len(records) /\ Len(toolCalls) \in Nat /\ Len(records) \in Nat
            /\ \A q \in DOMAIN toolCalls : toolCalls[q] = records[q] /\ q \in Nat \ {0}
                                           /\ q <= Len(toolCalls)
            /\ \A q \in Nat \ {0} : q <= Len(toolCalls) => q \in DOMAIN toolCalls
            /\ \A q \in Nat \ {0} : q <= Len(records) => q \in DOMAIN records
            /\ DOMAIN records \subseteq Nat \ {0}
        BY <1>1, IndicesAre DEF TurnTypeOK, TurnFollows, MetadataFollows
      <4>8. p \in DOMAIN toolCalls /\ toolCalls[p] = records[p] /\ p \in Nat \ {0}
        <5>1. p <= Len(toolCalls)
          BY <1>1, <3>4, <4>2, <4>6 DEF TurnFollows, MetadataFollows
        <5> QED
          BY <4>7, <5>1
      <4>9. PICK q \in DOMAIN toolCalls : q > p /\ toolCalls[q][2]
        BY <3>1, <4>6, <4>8 DEF Unresolved
      <4>10. q \in DOMAIN records /\ toolCalls[q] = records[q] /\ p < q
        BY <4>7, <4>8, <4>9
      <4> DEFINE d == records[q][1]
      <4>11. d \in CallIds /\ stage[d] = "closed" /\ records[q] = <<d, records[q][2]>>
             /\ records[q][2] \in BOOLEAN
        BY <4>10, RecordedClosed
      <4>12. d[1] \in Attempts /\ (d[1] < attempt \/ d[1] = attempt \/ d[1] > attempt)
        BY <1>4, <4>11, CallIs DEF Attempts
      <4>13. CASE d[1] < attempt
        <5>1. toolCalls[q] \in ToSet(toolCalls)
          BY DEF ToSet
        <5>2. toolCalls[q][1][1] < attempt /\ toolCalls[q][2]
          BY <4>9, <4>10, <4>13
        <5> QED
          BY <4>1, <4>3, <5>1, <5>2
      <4>14. CASE d[1] = attempt
        <5>1. Has(told, "end", d)
          BY <1>1, <3>4, <4>10, <4>14 DEF TurnFollows, MetadataFollows
        <5>2. PICK j \in DOMAIN told : told[j].type = "end" /\ told[j].call = d
          BY <5>1 DEF Has
        <5>3. Before(told, c, d)
          <6>1. records[p][1][1] = attempt /\ records[q][1][1] = attempt
            BY <4>2, <4>6, <4>14
          <6>2. Before(told, records[p][1], records[q][1])
            BY <4>10, <6>1 DEF TurnFollows, EndsInOrder
          <6> QED
            BY <4>6, <6>2
        <5>4. PICK m \in DOMAIN told : m < j /\ told[m].type = "end" /\ told[m].call = c
          BY <5>2, <5>3 DEF Before
        <5>5. m = i
          BY <4>1, <4>4, <5>4 DEF TurnFollows, ToldOnce, Once, CallTypes
        <5>6. told[j].ok
          <6>1. PICK o \in DOMAIN records : records[o] = <<d, told[j].ok>>
            BY <4>14, <5>2 DEF TurnFollows, EndsRecorded, Recorded
          <6>2. records[o][1] = records[q][1]
            BY <6>1
          <6>3. o = q
            BY <4>10, <6>2 DEF TurnFollows, EndsRecorded
          <6>4. records[q][2] = told[j].ok
            BY <6>1, <6>3
          <6> QED
            BY <4>9, <4>10, <6>4
        <5>7. j \in DOMAIN told' /\ told'[j] = told[j] /\ j > i
          BY <1>7, <5>4, <5>5
        <5> QED
          BY <4>1, <4>3, <5>2, <5>6, <5>7
      <4>15. CASE d[1] > attempt
        <5>1. loop[d[1]] = "idle"
          BY <4>12, <4>15 DEF TurnFollows, LoopsFollow
        <5> QED
          BY <4>11, <5>1, IdleSilent
      <4> QED
        BY <4>12, <4>13, <4>14, <4>15
    <3> QED
      BY <1>1, <2>1, <3>1, <3>3, <3>5 DEF HonestOutcome, Is
  <2> QED
    BY <1>2, <2>2, <2>3
<1> QED
  BY <1>13, <1>14

(* A turn that fails: what is open is sealed, and the failure is told last.  *)
LEMMA PhaseThrowsPromises ==
  ASSUME TurnTypeOK, TurnTypeOK', TurnFollows, PhaseThrows
  PROVE  StreamTold' /\ HonestOutcome'
<1> DEFINE s == Seals(outbox)
           U == Unclosed(outbox)
           flushed == IF streaming THEN s ELSE outbox'
           err == Chunk("error", NoCall, FALSE)
           fail == Chunk("failed", NoCall, FALSE)
           before == told \o flushed
           tail == <<err, fail>>
<1>1. /\ at \in {"setup", "attempt", "executed", "validating", "stopping"} /\ at' = "ended"
      /\ outbox' = outbox \o s /\ limit' = Len(outbox')
      /\ told' = before \o tail
      /\ streaming' = streaming /\ attempt' = attempt /\ queue' = queue /\ answer' = answer
  BY DEF PhaseThrows, answerVars
<1>2. /\ outbox \in Seq(Chunks) /\ s \in Seq(Chunks) /\ attempt \in Attempts
      /\ outbox' \in Seq(Chunks) /\ told \in Seq(ToldChunks) /\ streaming \in BOOLEAN
  BY SealsAre DEF TurnTypeOK
<1>3. flushed \in Seq(ToldChunks) /\ before \in Seq(ToldChunks)
  <2>1. flushed \in Seq(ToldChunks)
    BY <1>2, ChunksAre
  <2> HIDE DEF flushed
  <2> QED
    BY <1>2, <2>1, ConcatProperties
<1>4. /\ \A i \in DOMAIN s : s[i].type = "sealed" /\ s[i].call \in U
      /\ \A t, c : Has(s, t, c) <=> t = "sealed" /\ c \in U
      /\ Once(s)
  BY SealsAre
<1>5. \A c \in U : /\ c \in CallIds /\ ~ Has(told, "end", c) /\ ~ Has(told, "sealed", c)
  BY UnclosedAre
<1>6. \A c \in CallIds : Has(outbox, "start", c) =>
         c \in U \/ Has(outbox, "end", c) \/ Has(outbox, "sealed", c)
  BY DEF Unclosed
<1>7. /\ err \in ToldChunks /\ fail \in ToldChunks /\ err.type = "error" /\ fail.type = "failed"
      /\ tail \in Seq(ToldChunks)
  <2>1. "error" \in Marks /\ "failed" \in Marks /\ FALSE \in BOOLEAN
    BY DEF Marks
  <2>2. /\ err \in ToldChunks /\ fail \in ToldChunks /\ err.type = "error" /\ fail.type = "failed"
    BY <2>1, MarkIs
  <2> QED
    BY <2>2, PairIs
<1>8. DOMAIN tail = {1, 2} /\ tail[1] = err /\ tail[2] = fail
  OBVIOUS
<1> HIDE DEF s, U, err, fail
<1>9. \A t, c : Has(outbox', t, c) <=> Has(outbox, t, c) \/ (t = "sealed" /\ c \in U)
  <2>1. \A t, c : Has(outbox \o s, t, c) <=> Has(outbox, t, c) \/ Has(s, t, c)
    BY <1>2, HasConcat
  <2> QED
    BY <1>1, <1>4, <2>1
<1>10. /\ streaming => \A t, c : Has(flushed, t, c) <=> t = "sealed" /\ c \in U
       /\ ~ streaming => \A t, c : Has(flushed, t, c) <=>
                                      Has(outbox, t, c) \/ (t = "sealed" /\ c \in U)
  BY <1>4, <1>9
<1>11. \A i \in DOMAIN flushed : flushed[i].type \in CallTypes
  <2>1. \A i \in DOMAIN s : s[i].type \in CallTypes
    BY <1>2, IndicesAre, ChunksAre
  <2>2. \A i \in DOMAIN outbox' : outbox'[i].type \in CallTypes
    BY <1>2, IndicesAre, ChunksAre
  <2> QED
    BY <2>1, <2>2
<1>12. streaming => flushed = s
  OBVIOUS
<1> HIDE DEF flushed
<1>13. \A t, c : Has(before, t, c) <=> Has(told, t, c) \/ Has(flushed, t, c)
  BY <1>2, <1>3, HasConcat
<1>14. \A i \in DOMAIN before :
          \/ i \in DOMAIN told /\ before[i] = told[i]
          \/ i - Len(told) \in DOMAIN flushed /\ before[i] = flushed[i - Len(told)]
  BY <1>2, <1>3, ConcatAt
<1> HIDE DEF before
<1>15. \A t, c : Has(tail, t, c) => t \in {"error", "failed"}
  BY <1>7, <1>8 DEF Has
<1> HIDE DEF tail
<1>16. \A t \in CallTypes : \A c : Has(told', t, c) <=> Has(told, t, c) \/ Has(flushed, t, c)
  <2>1. \A t, c : Has(told', t, c) <=> Has(before, t, c) \/ Has(tail, t, c)
    BY <1>1, <1>3, <1>7, HasConcat
  <2>2. \A t \in CallTypes : t \notin {"error", "failed"}
    BY DEF CallTypes
  <2> QED
    BY <1>13, <1>15, <2>1, <2>2
<1> DEFINE n == Len(before)
<1>17. /\ n \in Nat /\ DOMAIN before \subseteq Nat \ {0}
       /\ \A i \in DOMAIN told' :
             \/ i \in DOMAIN before /\ told'[i] = before[i] /\ i <= n
             \/ i = n + 1 /\ told'[i] = err
             \/ i = n + 2 /\ told'[i] = fail
       /\ told'[n + 1] = err /\ told'[n + 2] = fail /\ Len(told') = n + 2 /\ told' # <<>>
  <2>1. /\ n \in Nat /\ DOMAIN before \subseteq Nat \ {0} /\ DOMAIN tail \subseteq Nat \ {0}
        /\ \A i \in DOMAIN before : i <= n
        /\ \A i \in DOMAIN (before \o tail) :
              \/ i \in DOMAIN before /\ (before \o tail)[i] = before[i]
              \/ i - n \in DOMAIN tail /\ (before \o tail)[i] = tail[i - n] /\ i > n /\ i \in Nat
        /\ \A i \in DOMAIN tail : /\ n + i \in DOMAIN (before \o tail)
                                  /\ (before \o tail)[n + i] = tail[i]
    <3> HIDE DEF n
    <3>1. Len(before) = n
      BY DEF n
    <3> QED
      BY <1>3, <1>7, <3>1, ConcatAt
  <2>2. Len(tail) = 2
    BY DEF tail
  <2>3. Len(told') = n + 2
    <3>1. Len(before \o tail) = Len(before) + Len(tail)
      BY <1>3, <1>7, ConcatProperties
    <3>2. told' = before \o tail
      BY <1>1
    <3> QED
      BY <2>2, <3>1, <3>2
  <2>4. told'[n + 1] = err /\ told'[n + 2] = fail /\ told' # <<>>
    <3>1. 1 \in DOMAIN tail /\ 2 \in DOMAIN tail
      BY <1>8 DEF tail
    <3>2. tail[1] = err /\ tail[2] = fail
      BY DEF tail
    <3>3. told' # <<>>
      BY <1>1, <2>1, <3>1, EmptyBox
    <3> QED
      BY <1>1, <2>1, <3>1, <3>2, <3>3
  <2>5. ASSUME NEW i \in DOMAIN told'
        PROVE  \/ i \in DOMAIN before /\ told'[i] = before[i] /\ i <= n
               \/ i = n + 1 /\ told'[i] = err
               \/ i = n + 2 /\ told'[i] = fail
    <3>1. CASE i \in DOMAIN before /\ told'[i] = before[i]
      BY <2>1, <3>1
    <3>2. CASE i - n \in DOMAIN tail /\ i \in Nat
      <4>1. i - n = 1 \/ i - n = 2
        BY <1>8, <3>2 DEF tail
      <4>2. i = n + 1 \/ i = n + 2
        BY <2>1, <3>2, <4>1
      <4> QED
        BY <2>4, <4>2
    <3> QED
      BY <1>1, <2>1, <3>1, <3>2
  <2> QED
    BY <2>1, <2>3, <2>4, <2>5
<1> HIDE DEF n
<1>18. Last(told') = fail
  BY <1>17 DEF Last
<1>19. (\A c : /\ Places(c, {"start"}) # {} <=> Has(told, "start", c)
               /\ Places(c, Ends) # {} <=> Has(told, "end", c) \/ Has(told, "sealed", c)
               /\ Once(told) => Cardinality(Places(c, {"start"})) <= 1
               /\ Once(told) /\ ~ (Has(told, "end", c) /\ Has(told, "sealed", c)) =>
                     Cardinality(Places(c, Ends)) <= 1)'
  BY PlacesAre, PTL
<1>20. \A i \in DOMAIN told' : told'[i].type \in Final => i = Len(told')
  <2>1. \A i \in DOMAIN before : before[i].type \notin Final
    <3>1. \A i \in DOMAIN told : told[i].type \notin Final
      BY DEF TurnFollows, EndFollows, Is
    <3>2. \A t \in CallTypes : t \notin Final
      BY DEF CallTypes, Final
    <3> QED
      BY <1>11, <1>14, <3>1, <3>2
  <2>2. err.type \notin Final
    BY <1>7 DEF Final
  <2> QED
    BY <1>17, <2>1, <2>2
<1>21. told'[Len(told') - 1].type = "error"
  BY <1>7, <1>17
<1>22. ASSUME NEW c \in {attempt} \X Calls, Has(told', "start", c)
       PROVE  \/ Has(told', "end", c) \/ Has(told', "sealed", c)
              \/ streaming /\ \E chunk \in ToSet(queue[attempt]) :
                                     chunk.type = "end" /\ chunk.call = c
  <2>1. c \in CallIds /\ c[1] = attempt
    BY <1>2 DEF CallIds
  <2>2. "start" \in CallTypes /\ "end" \in CallTypes /\ "sealed" \in CallTypes
    BY DEF CallTypes
  <2>3. Has(told, "start", c) \/ (~ streaming /\ Has(outbox, "start", c))
    BY <1>2, <1>10, <1>16, <1>22, <2>2
  <2>4. stage[c] # "none"
    BY <2>1, <2>2, <2>3, SaidOfCalls
  <2>5. Has(outbox, "start", c)
    BY <2>1, <2>4 DEF TurnFollows, ChunksFollow
  <2>6. c \in U \/ Has(outbox, "end", c) \/ Has(outbox, "sealed", c)
    BY <1>6, <2>1, <2>5
  <2>7. CASE c \in U
    BY <1>2, <1>10, <1>16, <2>2, <2>7
  <2>8. CASE ~ streaming /\ (Has(outbox, "end", c) \/ Has(outbox, "sealed", c))
    BY <1>10, <1>16, <2>2, <2>8
  <2>9. Has(queue[attempt], "end", c) =>
           \E chunk \in ToSet(queue[attempt]) : chunk.type = "end" /\ chunk.call = c
    BY DEF Has, ToSet
  <2>10. CASE streaming /\ Has(outbox, "end", c)
    <3>1. stage[c] = "closed"
      BY <2>1, <2>2, <2>10, SaidOfCalls
    <3>2. Has(told, "end", c) \/ Has(queue[attempt], "end", c)
      BY <2>1, <2>10, <3>1 DEF TurnFollows, ChunksFollow
    <3> QED
      BY <1>16, <2>2, <2>9, <2>10, <3>2
  <2>11. CASE streaming /\ Has(outbox, "sealed", c)
    <3>1. at \in {"validating", "stopping"}
      BY <1>1, <2>1, <2>11 DEF TurnFollows, SealsFollow, Flushed
    <3>2. Has(told, "start", c)
      BY <2>3, <2>11
    <3>3. Has(told, "end", c) \/ Has(told, "sealed", c) \/ Has(queue[attempt], "end", c)
      BY <2>1, <2>11, <3>1, <3>2, FlushedTold
    <3> QED
      BY <1>16, <2>2, <2>9, <2>11, <3>3
  <2> QED
    BY <1>2, <2>6, <2>7, <2>8, <2>10, <2>11
<1>23. ASSUME streaming
       PROVE  /\ Once(told')
              /\ \A c \in CallIds : ~ (Has(told', "end", c) /\ Has(told', "sealed", c))
  <2>1. Once(told) /\ \A c \in CallIds : ~ (Has(told, "end", c) /\ Has(told, "sealed", c))
    BY <1>23 DEF TurnFollows, ToldOnce
  <2>2. \A t, c : Has(flushed, t, c) <=> t = "sealed" /\ c \in U
    BY <1>10, <1>23
  <2>3. Once(flushed)
    BY <1>4, <1>12, <1>23
  <2>4. \A t \in CallTypes : \A c : ~ (Has(told, t, c) /\ Has(flushed, t, c))
    BY <1>5, <2>2
  <2>5. Once(before)
    BY <1>2, <1>3, <2>1, <2>3, <2>4, OnceConcat DEF before
  <2>6. Once(tail)
    <3>1. \A i \in DOMAIN tail : tail[i].type \notin CallTypes
      <4>1. \A i \in DOMAIN tail : Has(tail, tail[i].type, tail[i].call)
        BY DEF Has
      <4> QED
        BY <1>15, <4>1 DEF CallTypes
    <3> QED
      BY <3>1 DEF Once
  <2>7. \A t \in CallTypes : \A c : ~ (Has(before, t, c) /\ Has(tail, t, c))
    BY <1>15 DEF CallTypes
  <2>8. Once(told')
    BY <1>1, <1>3, <1>7, <2>5, <2>6, <2>7, OnceConcat
  <2>9. \A c \in CallIds : ~ (Has(told', "end", c) /\ Has(told', "sealed", c))
    BY <1>5, <1>16, <2>1, <2>2 DEF CallTypes
  <2> QED
    BY <2>8, <2>9
<1>24. StreamTold'
  <2>1. Told({"failed"})'
    BY <1>7, <1>17, <1>18 DEF Told
  <2> QED
    BY <1>1, <1>19, <1>20, <1>21, <1>22, <1>23, <2>1 DEF StreamTold, Is
<1>25. HonestOutcome'
  <2>1. answer' = "none"
    BY <1>1 DEF TurnFollows, EndFollows
  <2>2. ~ Told({"completed"})'
    BY <1>7, <1>18 DEF Told
  <2> QED
    BY <2>1, <2>2 DEF HonestOutcome
<1> QED
  BY <1>24, <1>25

-----------------------------------------------------------------------------
(* Every step of the turn and of its tool loops keeps the invariant.         *)
LEMMA TurnStepKeeps == TurnIInv /\ [TurnNext]_turnVars => TurnIInv'
<1> SUFFICES ASSUME TurnIInv, [TurnNext]_turnVars PROVE TurnIInv'
  OBVIOUS
<1>1. TurnTypeOK /\ StreamTold /\ HonestOutcome /\ (at # "ended" => TurnFollows)
  BY DEF TurnIInv
<1>2. (TurnTypeOK /\ TurnFollows /\ at # "ended" => StreamTold /\ HonestOutcome)'
  BY LivePromises, PTL
<1>3. ASSUME TurnTypeOK', TurnFollows', at' # "ended" PROVE TurnIInv'
  BY <1>2, <1>3 DEF TurnIInv
<1>4. ASSUME TurnTypeOK', StreamTold', HonestOutcome', at' = "ended" PROVE TurnIInv'
  BY <1>4 DEF TurnIInv
<1>5. CASE UNCHANGED turnVars
  <2>1. /\ streaming' = streaming /\ at' = at /\ attempt' = attempt /\ loop' = loop
        /\ stage' = stage /\ queue' = queue /\ outbox' = outbox /\ records' = records
        /\ cursor' = cursor /\ limit' = limit /\ step' = step /\ toolCalls' = toolCalls
        /\ verdict' = verdict /\ answer' = answer /\ told' = told
    BY <1>5 DEF turnVars
  <2>2. TurnTypeOK' = TurnTypeOK
    BY <2>1 DEF TurnTypeOK
  <2>3. StreamTold' = StreamTold
    BY <2>1 DEF StreamTold, Told, Is, Places
  <2>4. HonestOutcome' = HonestOutcome
    BY <2>1 DEF HonestOutcome, Told, Is
  <2>5. TurnFollows' = TurnFollows
    <3>1. SetupFollows' = SetupFollows /\ LoopsFollow' = LoopsFollow
      BY <2>1 DEF SetupFollows, LoopsFollow
    <3>2. ChunksFollow' = ChunksFollow /\ QueuesFollow' = QueuesFollow
      BY <2>1 DEF ChunksFollow, QueuesFollow
    <3>3. ToldOnce' = ToldOnce /\ SealsFollow' = SealsFollow
      BY <2>1 DEF ToldOnce, SealsFollow
    <3>4. SealsFlushed' = SealsFlushed /\ OutboxFlushed' = OutboxFlushed
      BY <2>1 DEF SealsFlushed, OutboxFlushed
    <3>5. EndsRecorded' = EndsRecorded /\ EndsInOrder' = EndsInOrder
      BY <2>1 DEF EndsRecorded, EndsInOrder
    <3>6. MetadataFollows' = MetadataFollows /\ EndFollows' = EndFollows
      BY <2>1 DEF MetadataFollows, EndFollows, Is
    <3> QED
      BY <3>1, <3>2, <3>3, <3>4, <3>5, <3>6 DEF TurnFollows
  <2> QED
    BY <1>1, <2>1, <2>2, <2>3, <2>4, <2>5 DEF TurnIInv
<1>6. CASE TurnStep
  <2>1. TurnTypeOK'
    BY <1>1, <1>6, TurnStepTypes
  <2>2. at # "ended"
    BY <1>6 DEF TurnStep, TurnStart, BeginAttempt, Deliver, Await, FlushStarts, FlushYields,
                FlushEnds, Validate, YieldDone, PhaseThrows
  <2>3. TurnFollows
    BY <1>1, <2>2
  <2>4. CASE TurnStart
    <3>1. TurnFollows' /\ at' # "ended"
      BY <1>1, <2>1, <2>3, <2>4, TurnStartKeeps DEF TurnStart
    <3> QED
      BY <1>3, <2>1, <3>1
  <2>5. CASE BeginAttempt
    <3>1. TurnFollows' /\ at' # "ended"
      BY <1>1, <2>1, <2>3, <2>5, BeginAttemptKeeps DEF BeginAttempt
    <3> QED
      BY <1>3, <2>1, <3>1
  <2>6. CASE Deliver
    <3>1. TurnFollows' /\ at' # "ended"
      BY <1>1, <2>1, <2>3, <2>6, DeliverKeeps DEF Deliver
    <3> QED
      BY <1>3, <2>1, <3>1
  <2>7. CASE Await
    <3>1. TurnFollows' /\ at' # "ended"
      BY <1>1, <2>1, <2>3, <2>7, AwaitKeeps DEF Await
    <3> QED
      BY <1>3, <2>1, <3>1
  <2>8. CASE FlushStarts
    <3>1. TurnFollows' /\ at' # "ended"
      BY <1>1, <2>1, <2>3, <2>8, FlushStartsKeeps DEF FlushStarts
    <3> QED
      BY <1>3, <2>1, <3>1
  <2>9. CASE FlushYields
    <3>1. TurnFollows' /\ at' # "ended"
      BY <1>1, <2>1, <2>3, <2>9, FlushYieldsKeeps DEF FlushYields
    <3> QED
      BY <1>3, <2>1, <3>1
  <2>10. CASE FlushEnds
    <3>1. TurnFollows' /\ at' # "ended"
      BY <1>1, <2>1, <2>3, <2>10, FlushEndsKeeps DEF FlushEnds
    <3> QED
      BY <1>3, <2>1, <3>1
  <2>11. CASE Validate
    <3>1. at' # "ended"
      BY <2>11 DEF Validate
    <3>2. TurnFollows'
      BY <1>1, <2>1, <2>3, <2>11, ValidateKeeps
    <3> QED
      BY <1>3, <2>1, <3>1, <3>2
  <2>12. CASE YieldDone
    <3>1. StreamTold' /\ HonestOutcome' /\ at' = "ended"
      BY <1>1, <2>1, <2>3, <2>12, YieldDonePromises DEF YieldDone
    <3> QED
      BY <1>4, <2>1, <3>1
  <2>13. CASE PhaseThrows
    <3>1. StreamTold' /\ HonestOutcome' /\ at' = "ended"
      BY <1>1, <2>1, <2>3, <2>13, PhaseThrowsPromises DEF PhaseThrows
    <3> QED
      BY <1>4, <2>1, <3>1
  <2> QED
    BY <1>6, <2>4, <2>5, <2>6, <2>7, <2>8, <2>9, <2>10, <2>11, <2>12, <2>13 DEF TurnStep
<1>7. ASSUME NEW a \in Attempts, Reported(a) \/ \E c \in Calls : CallStarts(a, c) \/ CallEnds(a, c)
      PROVE  TurnIInv'
  <2>1. TurnTypeOK'
    BY <1>1, <1>7, LoopTypes
  <2>2. CASE Reported(a)
    <3>1. at # "ended" /\ at' # "ended"
      BY <2>2 DEF Reported, LoopReturns, LoopLeft, LoopCancelled, Report
    <3>2. TurnFollows'
      BY <1>1, <2>1, <2>2, <3>1, ReportedKeeps
    <3> QED
      BY <1>3, <2>1, <3>1, <3>2
  <2>3. ASSUME NEW c \in Calls, CallStarts(a, c) PROVE TurnIInv'
    <3>1. at # "ended" /\ at' # "ended"
      BY <2>3 DEF CallStarts, Loops
    <3>2. TurnFollows'
      BY <1>1, <2>1, <2>3, <3>1, CallStartsKeeps
    <3> QED
      BY <1>3, <2>1, <3>1, <3>2
  <2>4. ASSUME NEW c \in Calls, CallEnds(a, c) PROVE TurnIInv'
    <3>1. at # "ended" /\ at' # "ended"
      BY <2>4 DEF CallEnds, Loops
    <3>2. TurnFollows'
      BY <1>1, <2>1, <2>4, <3>1, CallEndsKeeps
    <3> QED
      BY <1>3, <2>1, <3>1, <3>2
  <2> QED
    BY <1>7, <2>2, <2>3, <2>4
<1> QED
  BY <1>5, <1>6, <1>7 DEF TurnNext

(* The inductive invariant of a turn holds for any number of calls and of    *)
(* retries.                                                                  *)
THEOREM TurnInvariant == TurnSpec => []TurnIInv
<1>1. TurnInit => TurnIInv
  <2> SUFFICES ASSUME TurnInit PROVE TurnIInv
    OBVIOUS
  <2>1. TurnTypeOK /\ TurnFollows /\ at # "ended"
    BY TurnInitTypes, InitFollows DEF TurnInit
  <2> QED
    BY <2>1, LivePromises DEF TurnIInv
<1> QED
  BY <1>1, TurnStepKeeps, PTL DEF TurnSpec

(* What the consumer of a stream is promised, on every path through a turn:  *)
(* the stream ends with one final chunk, every call that was told to start   *)
(* was told to end, and nothing is told twice.                               *)
THEOREM StreamIsTold == TurnSpec => []StreamTold
<1>1. TurnIInv => StreamTold
  BY DEF TurnIInv
<1> QED
  BY <1>1, TurnInvariant, PTL

(* A turn is reported completed only if validation passed it and every       *)
(* failure of a tool the consumer saw was made good.                         *)
THEOREM OutcomeIsHonest == TurnSpec => []HonestOutcome
<1>1. TurnIInv => HonestOutcome
  BY DEF TurnIInv
<1> QED
  BY <1>1, TurnInvariant, PTL

(* Every reachable state of a turn has its types.                          *)
THEOREM TurnTypes == TurnSpec => []TurnTypeOK
<1>1. TurnIInv => TurnTypeOK
  BY DEF TurnIInv
<1> QED
  BY <1>1, TurnInvariant, PTL

=============================================================================
