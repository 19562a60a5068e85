----------------------------- MODULE QueueLemmas ----------------------------
(***************************************************************************)
(* Facts about queues, the sequences without repetitions by which the      *)
(* modules represent the arrays and maps the code keeps in arrival order:  *)
(* what each operation does to the set of elements, and that it introduces *)
(* no repetition; about filter and find; and about those that come before  *)
(* an element in an order.                                                 *)
(***************************************************************************)
EXTENDS Filtering, SequencesExt, TLAPS, FiniteSetTheorems, SequenceTheorems

(* A sequence without its element at k.                                      *)
LEMMA RemoveAtProperties ==
  ASSUME NEW S, NEW w \in Seq(S), NEW k \in DOMAIN w
  PROVE  /\ RemoveAt(w, k) \in Seq(S)
         /\ Len(RemoveAt(w, k)) = Len(w) - 1
         /\ \A i \in 1 .. Len(w) - 1 :
               RemoveAt(w, k)[i] = IF i < k THEN w[i] ELSE w[i + 1]
<1>1. Len(w) \in Nat /\ k \in 1 .. Len(w)
  BY LenProperties
<1>2. \A i \in 1 .. Len(w) : w[i] \in S
  BY ElementOfSeq
<1> DEFINE front == SubSeq(w, 1, k - 1)
           back == SubSeq(w, k + 1, Len(w))
<1>3. /\ front \in Seq(S)
      /\ Len(front) = k - 1
      /\ \A i \in 1 .. k - 1 : front[i] = w[i]
  <2>1. \A i \in 1 .. k - 1 : w[i] \in S
    BY <1>1, <1>2
  <2>2. /\ SubSeq(w, 1, k - 1) \in Seq(S)
        /\ Len(SubSeq(w, 1, k - 1)) = IF 1 <= k - 1 THEN k - 1 - 1 + 1 ELSE 0
        /\ \A i \in 1 .. (k - 1) - 1 + 1 : SubSeq(w, 1, k - 1)[i] = w[1 + i - 1]
    BY <1>1, <2>1, SubSeqProperties
  <2> QED
    BY <1>1, <2>2
<1>4. /\ back \in Seq(S)
      /\ Len(back) = Len(w) - k
      /\ \A i \in 1 .. Len(w) - k : back[i] = w[k + i]
  <2>1. \A i \in k + 1 .. Len(w) : w[i] \in S
    BY <1>1, <1>2
  <2>2. /\ SubSeq(w, k + 1, Len(w)) \in Seq(S)
        /\ Len(SubSeq(w, k + 1, Len(w))) =
              IF k + 1 <= Len(w) THEN Len(w) - (k + 1) + 1 ELSE 0
        /\ \A i \in 1 .. Len(w) - (k + 1) + 1 :
              SubSeq(w, k + 1, Len(w))[i] = w[(k + 1) + i - 1]
    BY <1>1, <2>1, SubSeqProperties
  <2> QED
    BY <1>1, <2>2
<1>5. RemoveAt(w, k) = front \o back
  BY DEF RemoveAt
<1> HIDE DEF front, back
<1>6. /\ front \o back \in Seq(S)
      /\ Len(front \o back) = Len(front) + Len(back)
      /\ \A i \in 1 .. Len(front) + Len(back) :
            (front \o back)[i] = IF i <= Len(front) THEN front[i]
                                 ELSE back[i - Len(front)]
  BY <1>3, <1>4, ConcatProperties
<1>7. ASSUME NEW i \in 1 .. Len(w) - 1
      PROVE  (front \o back)[i] = IF i < k THEN w[i] ELSE w[i + 1]
  <2>1. i \in 1 .. Len(front) + Len(back)
    BY <1>1, <1>3, <1>4
  <2>2. CASE i < k
    BY <1>1, <1>3, <1>6, <2>1, <2>2
  <2>3. CASE ~ (i < k)
    <3>1. i - (k - 1) \in 1 .. Len(w) - k /\ k + (i - (k - 1)) = i + 1
      BY <1>1, <2>3
    <3>2. back[i - (k - 1)] = w[i + 1]
      BY <1>4, <3>1
    <3> QED
      BY <1>1, <1>3, <1>6, <2>1, <2>3, <3>2
  <2> QED
    BY <2>2, <2>3
<1>8. Len(front) + Len(back) = Len(w) - 1
  BY <1>1, <1>3, <1>4
<1> QED
  BY <1>5, <1>6, <1>7, <1>8

(* Taking an element out of a sequence without repetitions.                  *)
LEMMA RemovalKeepsQueue ==
  ASSUME NEW S, NEW w \in Seq(S), IsInjective(w), NEW k \in DOMAIN w
  PROVE  /\ RemoveAt(w, k) \in Seq(S)
         /\ ToSet(RemoveAt(w, k)) = ToSet(w) \ {w[k]}
         /\ IsInjective(RemoveAt(w, k))
<1>1. Len(w) \in Nat /\ DOMAIN w = 1 .. Len(w) /\ k \in 1 .. Len(w)
  BY LenProperties
<1> DEFINE v == RemoveAt(w, k)
<1>2. /\ v \in Seq(S)
      /\ Len(v) = Len(w) - 1
      /\ \A i \in 1 .. Len(w) - 1 : v[i] = IF i < k THEN w[i] ELSE w[i + 1]
  BY RemoveAtProperties
<1> HIDE DEF v
<1>3. DOMAIN v = 1 .. Len(w) - 1
  BY <1>2, LenProperties
<1>4. \A i, j \in 1 .. Len(w) : w[i] = w[j] => i = j
  BY <1>1 DEF IsInjective
<1>5. ASSUME NEW i \in 1 .. Len(w) - 1
      PROVE  \E j \in 1 .. Len(w) : j # k /\ v[i] = w[j]
                                  /\ j = IF i < k THEN i ELSE i + 1
  <2>1. CASE i < k
    <3>1. i \in 1 .. Len(w) /\ i # k
      BY <1>1, <2>1
    <3> QED
      BY <1>2, <2>1, <3>1
  <2>2. CASE ~ (i < k)
    <3>1. i + 1 \in 1 .. Len(w) /\ i + 1 # k
      BY <1>1, <2>2
    <3> QED
      BY <1>2, <2>2, <3>1
  <2> QED
    BY <2>1, <2>2
<1>6. ASSUME NEW j \in 1 .. Len(w), j # k
      PROVE  \E i \in 1 .. Len(w) - 1 : v[i] = w[j]
  <2>1. CASE j < k
    <3>1. j \in 1 .. Len(w) - 1
      BY <1>1, <2>1
    <3> QED
      BY <1>2, <2>1, <3>1
  <2>2. CASE ~ (j < k)
    <3>1. j - 1 \in 1 .. Len(w) - 1 /\ ~ (j - 1 < k) /\ (j - 1) + 1 = j
      BY <1>1, <1>6, <2>2
    <3> QED
      BY <1>2, <3>1
  <2> QED
    BY <2>1, <2>2
<1>7. IsInjective(v)
  <2> SUFFICES ASSUME NEW i \in 1 .. Len(w) - 1, NEW j \in 1 .. Len(w) - 1, v[i] = v[j]
               PROVE  i = j
    BY <1>3 DEF IsInjective
  <2>1. PICK m \in 1 .. Len(w) : v[i] = w[m] /\ m = IF i < k THEN i ELSE i + 1
    BY <1>5
  <2>2. PICK n \in 1 .. Len(w) : v[j] = w[n] /\ n = IF j < k THEN j ELSE j + 1
    BY <1>5
  <2>3. m = n
    BY <1>4, <2>1, <2>2
  <2> QED
    BY <1>1, <2>1, <2>2, <2>3
<1>8. ToSet(v) = ToSet(w) \ {w[k]}
  <2>1. ASSUME NEW e \in ToSet(v) PROVE e \in ToSet(w) \ {w[k]}
    <3>1. PICK i \in 1 .. Len(w) - 1 : e = v[i]
      BY <1>3 DEF ToSet
    <3>2. PICK j \in 1 .. Len(w) : j # k /\ e = w[j]
      BY <1>5, <3>1
    <3> QED
      BY <1>1, <1>4, <3>2 DEF ToSet
  <2>2. ASSUME NEW e \in ToSet(w) \ {w[k]} PROVE e \in ToSet(v)
    <3>1. PICK j \in 1 .. Len(w) : j # k /\ e = w[j]
      BY <1>1 DEF ToSet
    <3>2. PICK i \in 1 .. Len(w) - 1 : e = v[i]
      BY <1>6, <3>1
    <3> QED
      BY <1>3, <3>2 DEF ToSet
  <2> QED
    BY <2>1, <2>2
<1> QED
  BY <1>2, <1>7, <1>8 DEF v

(* Appending a newcomer.                                                     *)
LEMMA AppendKeepsQueue ==
  ASSUME NEW S, NEW w \in Seq(S), IsInjective(w), NEW e \in S \ ToSet(w)
  PROVE  /\ Append(w, e) \in Seq(S)
         /\ ToSet(Append(w, e)) = ToSet(w) \cup {e}
         /\ IsInjective(Append(w, e))
<1> DEFINE v == Append(w, e)
<1>1. /\ v \in Seq(S) /\ Len(w) \in Nat
      /\ DOMAIN w = 1 .. Len(w) /\ DOMAIN v = 1 .. Len(w) + 1
      /\ \A i \in 1 .. Len(w) : v[i] = w[i]
      /\ v[Len(w) + 1] = e
  BY AppendProperties, LenProperties
<1> HIDE DEF v
<1>2. \A i \in 1 .. Len(w) : w[i] # e
  BY <1>1 DEF ToSet
<1>3. ToSet(v) = ToSet(w) \cup {e}
  <2>1. \A i \in DOMAIN v : i \in 1 .. Len(w) \/ i = Len(w) + 1
    BY <1>1
  <2>2. 1 .. Len(w) \subseteq DOMAIN v /\ Len(w) + 1 \in DOMAIN v
    BY <1>1
  <2> QED
    BY <1>1, <2>1, <2>2 DEF ToSet
<1>4. IsInjective(v)
  BY <1>1, <1>2 DEF IsInjective
<1> QED
  BY <1>1, <1>3, <1>4 DEF v

(* Taking the first element away.                                            *)
LEMMA TailKeepsQueue ==
  ASSUME NEW S, NEW w \in Seq(S), IsInjective(w), w # <<>>
  PROVE  /\ Tail(w) \in Seq(S)
         /\ ToSet(Tail(w)) = ToSet(w) \ {Head(w)}
         /\ IsInjective(Tail(w))
         /\ Head(w) \in S /\ Head(w) \in ToSet(w) /\ Head(w) = w[1]
<1> DEFINE v == Tail(w)
<1>1. /\ Len(w) \in Nat \ {0} /\ DOMAIN w = 1 .. Len(w) /\ Head(w) = w[1]
      /\ Head(w) \in S
  BY EmptySeq, LenProperties, HeadTailProperties
<1>2. /\ v \in Seq(S) /\ DOMAIN v = 1 .. Len(w) - 1
      /\ \A i \in 1 .. Len(w) - 1 : v[i] = w[i + 1]
  BY HeadTailProperties, LenProperties
<1> HIDE DEF v
<1>3. \A i, j \in 1 .. Len(w) : w[i] = w[j] => i = j
  BY <1>1 DEF IsInjective
<1>4. \A i \in 1 .. Len(w) - 1 : i + 1 \in 1 .. Len(w) /\ i + 1 # 1
  BY <1>1
<1>5. \A j \in 1 .. Len(w) : j # 1 => j - 1 \in 1 .. Len(w) - 1 /\ (j - 1) + 1 = j
  BY <1>1
<1>6. ToSet(v) = ToSet(w) \ {w[1]}
  <2>1. ASSUME NEW e \in ToSet(v) PROVE e \in ToSet(w) \ {w[1]}
    <3>1. PICK i \in 1 .. Len(w) - 1 : e = w[i + 1]
      BY <1>2 DEF ToSet
    <3>2. 1 \in 1 .. Len(w)
      BY <1>1
    <3> QED
      BY <1>1, <1>3, <1>4, <3>1, <3>2 DEF ToSet
  <2>2. ASSUME NEW e \in ToSet(w) \ {w[1]} PROVE e \in ToSet(v)
    <3>1. PICK j \in 1 .. Len(w) : j # 1 /\ e = w[j]
      BY <1>1 DEF ToSet
    <3>2. v[j - 1] = e
      BY <1>2, <1>5, <3>1
    <3> QED
      BY <1>2, <1>5, <3>1, <3>2 DEF ToSet
  <2> QED
    BY <2>1, <2>2
<1>7. IsInjective(v)
  <2> SUFFICES ASSUME NEW i \in 1 .. Len(w) - 1, NEW j \in 1 .. Len(w) - 1, v[i] = v[j]
               PROVE  i = j
    BY <1>2 DEF IsInjective
  <2>1. i + 1 = j + 1
    BY <1>2, <1>3, <1>4
  <2> QED
    BY <1>1, <2>1
<1>8. Head(w) \in ToSet(w)
  BY <1>1 DEF ToSet
<1> QED
  BY <1>1, <1>2, <1>6, <1>7, <1>8 DEF v

(* Taking the first n elements away.                                         *)
LEMMA DropKeepsQueue ==
  ASSUME NEW S, NEW w \in Seq(S), IsInjective(w), NEW n \in 0 .. Len(w)
  PROVE  /\ SubSeq(w, n + 1, Len(w)) \in Seq(S)
         /\ ToSet(SubSeq(w, n + 1, Len(w))) = ToSet(w) \ {w[i] : i \in 1 .. n}
         /\ IsInjective(SubSeq(w, n + 1, Len(w)))
<1>1. Len(w) \in Nat /\ DOMAIN w = 1 .. Len(w) /\ n \in Nat /\ n <= Len(w)
  BY LenProperties
<1> DEFINE v == SubSeq(w, n + 1, Len(w))
<1>2. /\ v \in Seq(S) /\ DOMAIN v = 1 .. Len(w) - n
      /\ \A i \in 1 .. Len(w) - n : v[i] = w[n + i]
  <2>1. \A i \in n + 1 .. Len(w) : w[i] \in S
    BY <1>1, ElementOfSeq
  <2>2. /\ v \in Seq(S)
        /\ Len(v) = IF n + 1 <= Len(w) THEN Len(w) - (n + 1) + 1 ELSE 0
        /\ \A i \in 1 .. Len(w) - (n + 1) + 1 : v[i] = w[(n + 1) + i - 1]
    BY <1>1, <2>1, SubSeqProperties
  <2> HIDE DEF v
  <2>3. Len(v) = Len(w) - n
    <3>1. ASSUME NEW l \in Nat, n <= l
          PROVE  (IF n + 1 <= l THEN l - (n + 1) + 1 ELSE 0) = l - n
      BY <1>1, <3>1
    <3> QED
      BY <1>1, <2>2, <3>1
  <2>4. \A i \in 1 .. Len(w) - n : i \in 1 .. Len(w) - (n + 1) + 1 /\ (n + 1) + i - 1 = n + i
    BY <1>1
  <2> QED
    BY <2>2, <2>3, <2>4, LenProperties
<1> HIDE DEF v
<1>3. \A i, j \in 1 .. Len(w) : w[i] = w[j] => i = j
  BY <1>1 DEF IsInjective
<1>4. \A i \in 1 .. Len(w) - n : n + i \in 1 .. Len(w)
  BY <1>1
<1>5. IsInjective(v)
  <2> SUFFICES ASSUME NEW i \in 1 .. Len(w) - n, NEW j \in 1 .. Len(w) - n, v[i] = v[j]
               PROVE  i = j
    BY <1>2 DEF IsInjective
  <2>1. n + i = n + j
    BY <1>2, <1>3, <1>4
  <2> QED
    BY <1>1, <2>1
<1>6. ToSet(v) = ToSet(w) \ {w[i] : i \in 1 .. n}
  <2>1. ASSUME NEW e \in ToSet(v) PROVE e \in ToSet(w) \ {w[i] : i \in 1 .. n}
    <3>1. PICK i \in 1 .. Len(w) - n : e = w[n + i]
      BY <1>2 DEF ToSet
    <3>2. \A j \in 1 .. n : j \in 1 .. Len(w) /\ j # n + i
      BY <1>1
    <3>3. \A j \in 1 .. n : w[j] # e
      BY <1>3, <1>4, <3>1, <3>2
    <3> QED
      BY <1>1, <1>4, <3>1, <3>3 DEF ToSet
  <2>2. ASSUME NEW e \in ToSet(w) \ {w[i] : i \in 1 .. n} PROVE e \in ToSet(v)
    <3>1. PICK j \in 1 .. Len(w) : e = w[j]
      BY <1>1 DEF ToSet
    <3>2. ~ (j \in 1 .. n)
      BY <2>2, <3>1
    <3>3. j - n \in 1 .. Len(w) - n /\ n + (j - n) = j
      BY <1>1, <3>2
    <3>4. v[j - n] = e
      BY <1>2, <3>1, <3>3
    <3> QED
      BY <1>2, <3>3, <3>4 DEF ToSet
  <2> QED
    BY <2>1, <2>2
<1> QED
  BY <1>2, <1>5, <1>6 DEF v

(* Appending a queue that has no element in common.                          *)
LEMMA ConcatKeepsQueue ==
  ASSUME NEW S, NEW w \in Seq(S), IsInjective(w), NEW x \in Seq(S), IsInjective(x),
         ToSet(w) \cap ToSet(x) = {}
  PROVE  /\ w \o x \in Seq(S)
         /\ ToSet(w \o x) = ToSet(w) \cup ToSet(x)
         /\ IsInjective(w \o x)
<1>1. /\ Len(w) \in Nat /\ DOMAIN w = 1 .. Len(w)
      /\ Len(x) \in Nat /\ DOMAIN x = 1 .. Len(x)
  BY LenProperties
<1> DEFINE v == w \o x
<1>2. /\ v \in Seq(S) /\ DOMAIN v = 1 .. Len(w) + Len(x)
      /\ \A i \in 1 .. Len(w) + Len(x) :
            v[i] = IF i <= Len(w) THEN w[i] ELSE x[i - Len(w)]
  BY ConcatProperties, LenProperties
<1> HIDE DEF v
<1>3. \A i \in 1 .. Len(w) : i \in 1 .. Len(w) + Len(x) /\ v[i] = w[i]
  BY <1>1, <1>2
<1>4. \A i \in 1 .. Len(x) : Len(w) + i \in 1 .. Len(w) + Len(x) /\ v[Len(w) + i] = x[i]
  <2> TAKE i \in 1 .. Len(x)
  <2>1. Len(w) + i \in 1 .. Len(w) + Len(x) /\ ~ (Len(w) + i <= Len(w))
        /\ (Len(w) + i) - Len(w) = i
    BY <1>1
  <2> QED
    BY <1>2, <2>1
<1>5. ASSUME NEW i \in 1 .. Len(w) + Len(x)
      PROVE  \/ i \in 1 .. Len(w) /\ v[i] = w[i]
             \/ i - Len(w) \in 1 .. Len(x) /\ v[i] = x[i - Len(w)]
  <2>1. CASE i <= Len(w)
    <3>1. i \in 1 .. Len(w)
      BY <1>1, <2>1
    <3> QED
      BY <1>3, <3>1
  <2>2. CASE ~ (i <= Len(w))
    <3>1. i - Len(w) \in 1 .. Len(x)
      BY <1>1, <2>2
    <3> QED
      BY <1>2, <2>2, <3>1
  <2> QED
    BY <2>1, <2>2
<1>6. \A i \in 1 .. Len(w), j \in 1 .. Len(x) : w[i] # x[j]
  BY <1>1 DEF ToSet
<1>7. IsInjective(v)
  <2> SUFFICES ASSUME NEW i \in 1 .. Len(w) + Len(x), NEW j \in 1 .. Len(w) + Len(x),
                      v[i] = v[j]
               PROVE  i = j
    BY <1>2 DEF IsInjective
  <2>1. CASE i \in 1 .. Len(w) /\ j \in 1 .. Len(w)
    BY <1>1, <1>3, <2>1 DEF IsInjective
  <2>2. CASE i - Len(w) \in 1 .. Len(x) /\ j - Len(w) \in 1 .. Len(x)
    <3>1. ~ (i \in 1 .. Len(w)) /\ ~ (j \in 1 .. Len(w))
      BY <1>1, <2>2
    <3>2. x[i - Len(w)] = x[j - Len(w)]
      BY <1>5, <3>1
    <3>3. i - Len(w) = j - Len(w)
      BY <1>1, <2>2, <3>2 DEF IsInjective
    <3> QED
      BY <1>1, <3>3
  <2>3. CASE i \in 1 .. Len(w) /\ j - Len(w) \in 1 .. Len(x)
    <3>1. ~ (j \in 1 .. Len(w))
      BY <1>1, <2>3
    <3> QED
      BY <1>3, <1>5, <1>6, <2>3, <3>1
  <2>4. CASE i - Len(w) \in 1 .. Len(x) /\ j \in 1 .. Len(w)
    <3>1. ~ (i \in 1 .. Len(w))
      BY <1>1, <2>4
    <3> QED
      BY <1>3, <1>5, <1>6, <2>4, <3>1
  <2> QED
    BY <1>5, <2>1, <2>2, <2>3, <2>4
<1>8. ToSet(v) = ToSet(w) \cup ToSet(x)
  <2>1. ASSUME NEW e \in ToSet(v) PROVE e \in ToSet(w) \cup ToSet(x)
    <3>1. PICK i \in 1 .. Len(w) + Len(x) : e = v[i]
      BY <1>2 DEF ToSet
    <3> QED
      BY <1>1, <1>5, <3>1 DEF ToSet
  <2>2. ASSUME NEW e \in ToSet(w) PROVE e \in ToSet(v)
    <3>1. PICK i \in 1 .. Len(w) : e = w[i]
      BY <1>1 DEF ToSet
    <3> QED
      BY <1>2, <1>3, <3>1 DEF ToSet
  <2>3. ASSUME NEW e \in ToSet(x) PROVE e \in ToSet(v)
    <3>1. PICK i \in 1 .. Len(x) : e = x[i]
      BY <1>1 DEF ToSet
    <3> QED
      BY <1>2, <1>4, <3>1 DEF ToSet
  <2> QED
    BY <2>1, <2>2, <2>3
<1> QED
  BY <1>2, <1>7, <1>8 DEF v

(* A queue has as many elements as its set.                                  *)
LEMMA QueueLength ==
  ASSUME NEW S, NEW w \in Seq(S), IsInjective(w)
  PROVE  IsFiniteSet(ToSet(w)) /\ Cardinality(ToSet(w)) = Len(w) /\ Len(w) \in Nat
<1>1. Len(w) \in Nat /\ DOMAIN w = 1 .. Len(w) /\ w \in [1 .. Len(w) -> S]
  BY LenProperties
<1>2. w \in [1 .. Len(w) -> ToSet(w)]
  BY <1>1 DEF ToSet
<1>3. w \in Surjection(1 .. Len(w), ToSet(w))
  BY <1>1, <1>2 DEF Surjection, ToSet
<1>4. w \in Injection(1 .. Len(w), ToSet(w))
  BY <1>2 DEF Injection
<1>5. IsFiniteSet(1 .. Len(w)) /\ Cardinality(1 .. Len(w)) = Len(w)
  BY <1>1, FS_Interval
<1> QED
  BY <1>1, <1>3, <1>4, <1>5, FS_Surjection

(* A listing of a finite set is a queue of its elements.                     *)
LEMMA ListingIsQueue ==
  ASSUME NEW S, IsFiniteSet(S), NEW s \in SetToSeqs(S)
  PROVE  s \in Seq(S) /\ ToSet(s) = S /\ IsInjective(s)
<1> DEFINE D == 1 .. Cardinality(S)
<1>1. s \in [D -> S] /\ IsInjective(s)
  BY DEF SetToSeqs, IsInjective
<1>2. Cardinality(S) \in Nat
  BY FS_CardinalityType
<1>3. IsFiniteSet(D) /\ Cardinality(D) = Cardinality(S)
  BY <1>2, FS_Interval
<1>4. s \in Injection(D, S)
  BY <1>1 DEF Injection
<1>5. s \in Surjection(D, S)
  BY <1>3, <1>4, FS_Injection
<1>6. s \in Seq(S)
  BY <1>1, <1>2, SeqDef
<1>7. ToSet(s) = S
  BY <1>5 DEF Surjection, ToSet
<1> QED
  BY <1>1, <1>6, <1>7

-----------------------------------------------------------------------------
(* A set of numbers has a least one.                                         *)
LEMMA LeastOf ==
  ASSUME NEW T \in SUBSET Nat, T # {}
  PROVE  \E x \in T : \A y \in T : x <= y
<1> DEFINE R == OpToRel(<, Nat)
<1>1. IsWellFoundedOn(R, Nat)
  BY NatLessThanWellFounded
<1>2. \A x, y \in Nat : <<y, x>> \in R <=> y < x
  BY DEF OpToRel
<1> HIDE DEF R
<1>3. PICK x \in T : \A y \in T : ~ (<<y, x>> \in R)
  BY <1>1, WFMin
<1>4. ASSUME NEW y \in T PROVE x <= y
  <2>1. ~ (y < x) /\ x \in Nat /\ y \in Nat
    BY <1>2, <1>3
  <2> QED
    BY <2>1
<1> QED
  BY <1>4

(* A sequence with the stretch from a to b - 1 replaced by one element.      *)
Replaced(w, a, b, e) == SubSeq(w, 1, a - 1) \o <<e>> \o SubSeq(w, b, Len(w))

(* Its elements.                                                             *)
LEMMA ReplaceStretch ==
  ASSUME NEW S, NEW w \in Seq(S), NEW e \in S,
         NEW a \in 1 .. Len(w), NEW b \in a + 1 .. Len(w) + 1
  PROVE  /\ Replaced(w, a, b, e) \in Seq(S)
         /\ Len(Replaced(w, a, b, e)) = a + (Len(w) - b + 1)
         /\ \A i \in 1 .. a - 1 : Replaced(w, a, b, e)[i] = w[i]
         /\ Replaced(w, a, b, e)[a] = e
         /\ \A i \in a + 1 .. a + (Len(w) - b + 1) :
               Replaced(w, a, b, e)[i] = w[i + (b - a - 1)]
<1> DEFINE v == Replaced(w, a, b, e)
<1>1. Len(w) \in Nat /\ a \in Nat \ {0} /\ b \in Nat /\ a <= Len(w) /\ a < b
      /\ b <= Len(w) + 1
  BY LenProperties
<1>2. \A i \in 1 .. Len(w) : w[i] \in S
  BY <1>1, ElementOfSeq
<1> DEFINE front == SubSeq(w, 1, a - 1)
           back == SubSeq(w, b, Len(w))
<1>3. /\ front \in Seq(S) /\ Len(front) = a - 1
      /\ \A i \in 1 .. a - 1 : front[i] = w[i]
  <2>1. \A i \in 1 .. a - 1 : w[i] \in S
    BY <1>1, <1>2
  <2>2. /\ front \in Seq(S)
        /\ Len(front) = IF 1 <= a - 1 THEN a - 1 - 1 + 1 ELSE 0
        /\ \A i \in 1 .. (a - 1) - 1 + 1 : front[i] = w[1 + i - 1]
    BY <1>1, <2>1, SubSeqProperties
  <2> HIDE DEF front
  <2> QED
    BY <1>1, <2>2
<1>4. /\ back \in Seq(S) /\ Len(back) = Len(w) - b + 1
      /\ \A i \in 1 .. Len(w) - b + 1 : back[i] = w[b + i - 1]
  <2>1. \A i \in b .. Len(w) : w[i] \in S
    BY <1>1, <1>2
  <2>2. /\ back \in Seq(S)
        /\ Len(back) = IF b <= Len(w) THEN Len(w) - b + 1 ELSE 0
        /\ \A i \in 1 .. Len(w) - b + 1 : back[i] = w[b + i - 1]
    BY <1>1, <2>1, SubSeqProperties
  <2>3. ASSUME NEW l \in Nat, b <= l + 1
        PROVE  (IF b <= l THEN l - b + 1 ELSE 0) = l - b + 1
    BY <1>1, <2>3
  <2> HIDE DEF back
  <2> QED
    BY <1>1, <2>2, <2>3
<1> HIDE DEF front, back
<1> DEFINE head == front \o <<e>>
<1>5. /\ head \in Seq(S) /\ Len(head) = a
      /\ \A i \in 1 .. a - 1 : head[i] = w[i]
      /\ head[a] = e
  <2>1. head = Append(front, e)
    BY <1>3, AppendIsConcat
  <2>2. /\ Append(front, e) \in Seq(S) /\ Len(Append(front, e)) = Len(front) + 1
        /\ \A i \in 1 .. Len(front) : Append(front, e)[i] = front[i]
        /\ Append(front, e)[Len(front) + 1] = e
    BY <1>3, AppendProperties
  <2> HIDE DEF head
  <2>3. Len(front) + 1 = a
    BY <1>1, <1>3
  <2> QED
    BY <1>3, <2>1, <2>2, <2>3
<1>6. v = head \o back
  BY DEF front, back, Replaced
<1> HIDE DEF head, v
<1>7. /\ head \o back \in Seq(S)
      /\ Len(head \o back) = Len(head) + Len(back)
      /\ \A i \in 1 .. Len(head) + Len(back) :
            (head \o back)[i] = IF i <= Len(head) THEN head[i] ELSE back[i - Len(head)]
  BY <1>4, <1>5, ConcatProperties
<1>8. Len(v) = a + (Len(w) - b + 1)
  BY <1>4, <1>5, <1>6, <1>7
<1>9. \A i \in 1 .. a : v[i] = head[i]
  <2> TAKE i \in 1 .. a
  <2>1. i \in 1 .. Len(head) + Len(back) /\ i <= Len(head)
    BY <1>1, <1>4, <1>5
  <2> QED
    BY <1>6, <1>7, <2>1
<1>10. ASSUME NEW i \in a + 1 .. Len(v) PROVE v[i] = w[i + (b - a - 1)]
  <2>1. i \in 1 .. Len(head) + Len(back) /\ ~ (i <= Len(head))
        /\ i - Len(head) \in 1 .. Len(w) - b + 1
        /\ b + (i - Len(head)) - 1 = i + (b - a - 1)
    <3>1. Len(head) = a /\ Len(back) = Len(w) - b + 1 /\ Len(v) = a + (Len(w) - b + 1)
      BY <1>4, <1>5, <1>8
    <3>2. ASSUME NEW l \in Nat, b <= l + 1, i \in a + 1 .. a + (l - b + 1)
          PROVE  /\ i \in 1 .. a + (l - b + 1) /\ ~ (i <= a)
                 /\ i - a \in 1 .. l - b + 1
                 /\ b + (i - a) - 1 = i + (b - a - 1)
      BY <1>1, <3>2
    <3> QED
      BY <1>1, <3>1, <3>2
  <2>2. v[i] = back[i - Len(head)]
    BY <1>6, <1>7, <2>1
  <2>3. back[i - Len(head)] = w[b + (i - Len(head)) - 1]
    BY <1>4, <2>1
  <2> QED
    BY <2>1, <2>2, <2>3
<1>11. (\A i \in 1 .. a - 1 : v[i] = w[i]) /\ v[a] = e
  <2>1. (\A i \in 1 .. a - 1 : i \in 1 .. a) /\ a \in 1 .. a
    BY <1>1
  <2> QED
    BY <1>5, <1>9, <2>1
<1> QED
  <2>1. v \in Seq(S)
    BY <1>6, <1>7
  <2>2. \A i \in a + 1 .. Len(v) : v[i] = w[i + (b - a - 1)]
    BY <1>10
  <2> QED
    BY <2>1, <2>2, <1>8, <1>11 DEF v

-----------------------------------------------------------------------------
(* filter and find: what is kept is kept in order, what is found is found    *)
(* first.                                                                    *)

(* The hits of a sequence are finitely many of its indices.                  *)
LEMMA HitsAreIndices ==
  ASSUME NEW S, NEW w \in Seq(S), NEW T
  PROVE  /\ Hits(w, T) \subseteq 1 .. Len(w) /\ Len(w) \in Nat
         /\ IsFiniteSet(Hits(w, T)) /\ Cardinality(Hits(w, T)) \in Nat
<1>1. Len(w) \in Nat /\ DOMAIN w = 1 .. Len(w)
  BY LenProperties
<1>2. Hits(w, T) \in SUBSET (1 .. Len(w))
  BY <1>1 DEF Hits
<1>3. IsFiniteSet(1 .. Len(w))
  BY <1>1, FS_Interval
<1> QED
  BY <1>1, <1>2, <1>3, FS_Subset, FS_CardinalityType

(* The place of a hit among the hits: a number from 1 on, greater for the    *)
(* later one.                                                                *)
LEMMA HitsCountUp ==
  ASSUME NEW S, NEW w \in Seq(S), NEW T
  PROVE  /\ \A i \in Hits(w, T) :
               Cardinality(HitsUpTo(w, T, i)) \in 1 .. Cardinality(Hits(w, T))
         /\ \A i, j \in Hits(w, T) : i < j =>
               Cardinality(HitsUpTo(w, T, i)) < Cardinality(HitsUpTo(w, T, j))
<1> DEFINE H == Hits(w, T)
           U(i) == HitsUpTo(w, T, i)
<1>1. H \subseteq 1 .. Len(w) /\ Len(w) \in Nat /\ IsFiniteSet(H) /\ Cardinality(H) \in Nat
  BY HitsAreIndices
<1>2. ASSUME NEW i \in H
      PROVE  /\ U(i) \in SUBSET H /\ IsFiniteSet(U(i)) /\ i \in U(i)
             /\ Cardinality(U(i)) \in Nat /\ Cardinality(U(i)) <= Cardinality(H)
  <2>1. U(i) \in SUBSET H /\ i \in U(i)
    BY <1>1 DEF HitsUpTo
  <2> QED
    BY <1>1, <2>1, FS_Subset, FS_CardinalityType
<1>3. ASSUME NEW i \in H PROVE Cardinality(U(i)) \in 1 .. Cardinality(H)
  <2>1. Cardinality(U(i)) # 0
    BY <1>2, FS_EmptySet
  <2> QED
    BY <1>1, <1>2, <2>1
<1>4. ASSUME NEW i \in H, NEW j \in H, i < j PROVE Cardinality(U(i)) < Cardinality(U(j))
  <2>1. U(i) \in SUBSET U(j) /\ j \notin U(i) /\ j \in U(j)
    BY <1>1, <1>4 DEF HitsUpTo
  <2>2. Cardinality(U(i)) <= Cardinality(U(j)) /\ Cardinality(U(j)) # Cardinality(U(i))
    BY <1>2, <2>1, FS_Subset
  <2> QED
    BY <1>2, <2>2
<1> QED
  BY <1>3, <1>4

(* What filter gives: the elements in T, each of them, in order.             *)
LEMMA KeptProperties ==
  ASSUME NEW S, NEW w \in Seq(S), NEW T
  PROVE  /\ Kept(w, T) \in Seq(S) /\ DOMAIN Kept(w, T) = 1 .. Len(Kept(w, T))
         /\ \E g \in [DOMAIN Kept(w, T) -> DOMAIN w] :
               /\ \A n \in DOMAIN Kept(w, T) : Kept(w, T)[n] = w[g[n]] /\ w[g[n]] \in T
               /\ \A m, n \in DOMAIN Kept(w, T) : m < n => g[m] < g[n]
               /\ \A i \in DOMAIN w : w[i] \in T => \E n \in DOMAIN Kept(w, T) : g[n] = i
<1> DEFINE H == Hits(w, T)
           C == Cardinality(H)
           R(i) == Cardinality(HitsUpTo(w, T, i))
           r == [i \in H |-> R(i)]
           v == Kept(w, T)
<1>1. H \subseteq 1 .. Len(w) /\ Len(w) \in Nat /\ IsFiniteSet(H) /\ C \in Nat
  BY HitsAreIndices
<1>2. (\A i \in H : R(i) \in 1 .. C) /\ \A i, j \in H : i < j => R(i) < R(j)
  BY HitsCountUp
<1>3. DOMAIN w = 1 .. Len(w) /\ \A i \in 1 .. Len(w) : w[i] \in S
  BY LenProperties, ElementOfSeq
<1>4. \A i \in H : i \in DOMAIN w /\ w[i] \in T
  BY DEF Hits
<1>5. \A i \in DOMAIN w : w[i] \in T => i \in H
  BY DEF Hits
<1>6. v = [n \in 1 .. C |-> w[CHOOSE i \in H : R(i) = n]]
  BY DEF Kept
<1> HIDE DEF H, R, v
<1>7. \A i, j \in H : R(i) = R(j) => i = j
  <2> SUFFICES ASSUME NEW i \in H, NEW j \in H, i # j PROVE R(i) # R(j)
    OBVIOUS
  <2>1. i < j \/ j < i
    BY <1>1
  <2>2. R(i) \in Nat /\ R(j) \in Nat
    BY <1>2
  <2> QED
    BY <1>2, <2>1, <2>2
<1>8. r \in Injection(H, 1 .. C)
  <2>1. r \in [H -> 1 .. C] /\ \A i \in H : r[i] = R(i)
    BY <1>2
  <2> QED
    BY <1>7, <2>1 DEF Injection, IsInjective
<1>9. IsFiniteSet(1 .. C) /\ Cardinality(1 .. C) = C
  BY <1>1, FS_Interval
<1>10. r \in Surjection(H, 1 .. C)
  BY <1>8, <1>9, FS_Injection
<1>11. \A n \in 1 .. C : \E i \in H : R(i) = n
  BY <1>10 DEF Surjection
<1> DEFINE g == [n \in 1 .. C |-> CHOOSE i \in H : R(i) = n]
<1>12. \A n \in 1 .. C : g[n] \in H /\ R(g[n]) = n
  BY <1>11
<1>13. \A n \in 1 .. C : v[n] = w[g[n]]
  BY <1>6
<1>14. DOMAIN g = 1 .. C
  OBVIOUS
<1> HIDE DEF g
<1>15. v \in Seq(S) /\ Len(v) = C /\ DOMAIN v = 1 .. C
  <2>1. \A n \in 1 .. C : w[g[n]] \in S
    BY <1>1, <1>3, <1>12
  <2>2. v \in [1 .. C -> S]
    BY <1>6, <1>13, <2>1
  <2>3. v \in Seq(S)
    BY <1>1, <2>2, SeqDef
  <2>4. DOMAIN v = 1 .. Len(v) /\ Len(v) \in Nat
    BY <2>3, LenProperties
  <2> QED
    BY <1>1, <2>2, <2>3, <2>4
<1>16. g \in [DOMAIN v -> DOMAIN w]
  <2>1. \A n \in 1 .. C : g[n] \in DOMAIN w
    BY <1>4, <1>12
  <2> QED
    BY <1>14, <1>15, <2>1 DEF g
<1>17. \A m, n \in 1 .. C : m < n => g[m] < g[n]
  <2> SUFFICES ASSUME NEW m \in 1 .. C, NEW n \in 1 .. C, m < n PROVE g[m] < g[n]
    OBVIOUS
  <2>1. g[m] \in Nat /\ g[n] \in Nat
    <3>1. g[m] \in 1 .. Len(w) /\ g[n] \in 1 .. Len(w)
      BY <1>1, <1>12
    <3> QED
      BY <3>1
  <2>2. ~ (R(g[n]) < R(g[m])) /\ R(g[m]) # R(g[n])
    BY <1>1, <1>12
  <2>3. ~ (g[n] < g[m]) /\ g[m] # g[n]
    BY <1>2, <1>12, <2>2
  <2> QED
    BY <2>1, <2>3
<1>18. \A i \in DOMAIN w : w[i] \in T => \E n \in 1 .. C : g[n] = i
  <2> SUFFICES ASSUME NEW i \in H PROVE \E n \in 1 .. C : g[n] = i
    BY <1>5
  <2>1. R(i) \in 1 .. C
    BY <1>2
  <2>2. g[R(i)] = i
    BY <1>7, <1>12, <2>1
  <2> QED
    BY <2>1, <2>2
<1>19. /\ \A n \in DOMAIN v : v[n] = w[g[n]] /\ w[g[n]] \in T
       /\ \A m, n \in DOMAIN v : m < n => g[m] < g[n]
       /\ \A i \in DOMAIN w : w[i] \in T => \E n \in DOMAIN v : g[n] = i
  BY <1>4, <1>12, <1>13, <1>15, <1>17, <1>18
<1>20. v \in Seq(S) /\ DOMAIN v = 1 .. Len(v)
  BY <1>15
<1>21. \E f \in [DOMAIN v -> DOMAIN w] :
         /\ \A n \in DOMAIN v : v[n] = w[f[n]] /\ w[f[n]] \in T
         /\ \A m, n \in DOMAIN v : m < n => f[m] < f[n]
         /\ \A i \in DOMAIN w : w[i] \in T => \E n \in DOMAIN v : f[n] = i
  BY <1>16, <1>19
<1> QED
  BY <1>20, <1>21 DEF v

(* What find gives: the first element in T.                                  *)
LEMMA FirstOfProperties ==
  ASSUME NEW S, NEW w \in Seq(S), NEW T, \E i \in DOMAIN w : w[i] \in T
  PROVE  \E i \in DOMAIN w : /\ w[i] \in T /\ FirstOf(w, T) = w[i]
                             /\ \A j \in DOMAIN w : w[j] \in T => i <= j
<1> DEFINE H == Hits(w, T)
<1>1. H \in SUBSET Nat /\ H # {}
  BY HitsAreIndices DEF Hits
<1>2. \E i \in H : \A j \in H : i <= j
  BY <1>1, LeastOf
<1> DEFINE m == CHOOSE i \in H : \A j \in H : i <= j
<1>3. m \in H /\ \A j \in H : m <= j
  BY <1>2
<1>4. FirstOf(w, T) = w[m]
  BY DEF FirstOf
<1> HIDE DEF m
<1>5. \A i : i \in H <=> i \in DOMAIN w /\ w[i] \in T
  BY DEF Hits
<1> QED
  BY <1>3, <1>4, <1>5

(* What filter leaves of a list has the same elements in the set.            *)
LEMMA KeptElements ==
  ASSUME NEW S, NEW w \in Seq(S), NEW T
  PROVE  ToSet(Kept(w, T)) = ToSet(w) \cap T
<1> DEFINE v == Kept(w, T)
<1>0. /\ v \in Seq(S) /\ DOMAIN v = 1 .. Len(v)
      /\ \E g \in [DOMAIN v -> DOMAIN w] :
            /\ \A n \in DOMAIN v : v[n] = w[g[n]] /\ w[g[n]] \in T
            /\ \A m, n \in DOMAIN v : m < n => g[m] < g[n]
            /\ \A i \in DOMAIN w : w[i] \in T => \E n \in DOMAIN v : g[n] = i
  BY KeptProperties
<1> HIDE DEF v
<1>1. PICK g \in [DOMAIN v -> DOMAIN w] :
        /\ \A n \in DOMAIN v : v[n] = w[g[n]] /\ w[g[n]] \in T
        /\ \A i \in DOMAIN w : w[i] \in T => \E n \in DOMAIN v : g[n] = i
  BY <1>0
<1>2. \A n \in DOMAIN v : v[n] \in ToSet(w) \cap T
  BY <1>1 DEF ToSet
<1>3. \A i \in DOMAIN w : w[i] \in T => \E n \in DOMAIN v : v[n] = w[i]
  BY <1>1
<1>4. ToSet(v) = ToSet(w) \cap T
  BY <1>2, <1>3 DEF ToSet
<1> QED
  BY <1>4 DEF v

(* What filter leaves is no longer, and shorter if something is left out.    *)
LEMMA KeptIsShorter ==
  ASSUME NEW S, NEW w \in Seq(S), NEW T
  PROVE  /\ Len(Kept(w, T)) \in Nat /\ Len(w) \in Nat /\ Len(Kept(w, T)) <= Len(w)
         /\ (\E i \in DOMAIN w : w[i] \notin T) => Len(Kept(w, T)) < Len(w)
<1> DEFINE v == Kept(w, T)
<1>1. /\ v \in Seq(S)
      /\ \E g \in [DOMAIN v -> DOMAIN w] :
            /\ \A n \in DOMAIN v : v[n] = w[g[n]] /\ w[g[n]] \in T
            /\ \A m, n \in DOMAIN v : m < n => g[m] < g[n]
            /\ \A i \in DOMAIN w : w[i] \in T => \E n \in DOMAIN v : g[n] = i
  BY KeptProperties
<1> HIDE DEF v
<1>2. PICK g \in [DOMAIN v -> DOMAIN w] :
            /\ \A n \in DOMAIN v : w[g[n]] \in T
            /\ \A m, n \in DOMAIN v : m < n => g[m] < g[n]
  BY <1>1
<1>3. /\ DOMAIN v = 1 .. Len(v) /\ Len(v) \in Nat
      /\ DOMAIN w = 1 .. Len(w) /\ Len(w) \in Nat
  BY <1>1, LenProperties
<1>4. g \in Injection(1 .. Len(v), 1 .. Len(w))
  <2>1. ASSUME NEW m \in 1 .. Len(v), NEW n \in 1 .. Len(v), g[m] = g[n] PROVE m = n
    <3>1. g[m] \in 1 .. Len(w) /\ g[n] \in 1 .. Len(w)
      BY <1>2, <1>3
    <3>2. ~ (g[m] < g[n]) /\ ~ (g[n] < g[m])
      BY <2>1, <3>1
    <3>3. ~ (m < n) /\ ~ (n < m)
      BY <1>2, <1>3, <3>2
    <3> QED
      BY <3>3
  <2> QED
    BY <1>2, <1>3, <2>1 DEF Injection, IsInjective
<1>5. /\ IsFiniteSet(1 .. Len(v)) /\ Cardinality(1 .. Len(v)) = Len(v)
      /\ IsFiniteSet(1 .. Len(w)) /\ Cardinality(1 .. Len(w)) = Len(w)
  <2>1. ASSUME NEW n \in Nat PROVE IsFiniteSet(1 .. n) /\ Cardinality(1 .. n) = n
    BY FS_Interval
  <2> QED
    BY <1>3, <2>1
<1>6. Len(v) <= Len(w) /\ (Len(v) = Len(w) <=> g \in Surjection(1 .. Len(v), 1 .. Len(w)))
  BY <1>4, <1>5, FS_Injection
<1>7. Len(v) <= Len(w)
  BY <1>6
<1>8. ASSUME NEW i \in DOMAIN w, w[i] \notin T PROVE Len(v) < Len(w)
  <2>1. \A n \in 1 .. Len(v) : g[n] # i
    BY <1>2, <1>3, <1>8
  <2>2. g \notin Surjection(1 .. Len(v), 1 .. Len(w))
    BY <1>3, <2>1 DEF Surjection
  <2>3. Len(v) # Len(w)
    BY <1>6, <2>2
  <2>4. Len(v) \in Nat /\ Len(w) \in Nat
    BY <1>3
  <2> QED
    BY <1>7, <2>3, <2>4
<1> QED
  BY <1>3, <1>7, <1>8 DEF v

-----------------------------------------------------------------------------
(* Orders of the elements of a set.                                          *)

(* A strict order of all.                                                    *)
StrictOrder(B, S) ==
    /\ B \in SUBSET (S \X S)
    /\ \A t \in S : <<t, t>> \notin B
    /\ \A t, u \in S : t # u => <<t, u>> \in B \/ <<u, t>> \in B
    /\ \A t, u, v \in S : <<t, u>> \in B /\ <<u, v>> \in B => <<t, v>> \in B

(* What comes before an element in it is counted, and so those with fewer    *)
(* than k before them are k at most.                                         *)
LEMMA FewAreBest ==
  ASSUME NEW S, IsFiniteSet(S), NEW k \in Nat, NEW B, StrictOrder(B, S)
  PROVE  Cardinality({t \in S : Cardinality({u \in S : <<u, t>> \in B}) < k}) <= k
<1> DEFINE before(t) == {u \in S : <<u, t>> \in B}
           best == {t \in S : Cardinality(before(t)) < k}
<1>1. \A t \in S : IsFiniteSet(before(t)) /\ Cardinality(before(t)) \in Nat
  BY FS_Subset, FS_CardinalityType
<1>2. ASSUME NEW t \in S, NEW u \in S, <<t, u>> \in B
      PROVE  Cardinality(before(t)) < Cardinality(before(u))
  <2>1. before(t) \subseteq before(u) /\ t \in before(u) /\ t \notin before(t)
    BY <1>2 DEF StrictOrder
  <2>2. /\ Cardinality(before(t)) <= Cardinality(before(u))
        /\ Cardinality(before(t)) # Cardinality(before(u))
    BY <1>1, <2>1, FS_Subset
  <2> QED
    BY <1>1, <2>2
<1> DEFINE count == [t \in S |-> Cardinality(before(t))]
<1>3. count \in [S -> Nat] /\ best = {t \in S : count[t] < k}
  BY <1>1
<1>4. \A t, u \in S : <<t, u>> \in B => count[t] < count[u]
  BY <1>2
<1> HIDE DEF count
<1>5. ASSUME NEW t \in S, NEW u \in S, count[t] = count[u] PROVE t = u
  <2>1. ~ count[t] < count[u] /\ ~ count[u] < count[t]
    BY <1>3, <1>5
  <2> QED
    BY <1>4, <2>1 DEF StrictOrder
<1> DEFINE rank == [t \in best |-> count[t]]
<1> HIDE DEF best
<1>6. rank \in [best -> 0 .. k - 1]
  BY <1>3
<1>7. rank \in Injection(best, 0 .. k - 1)
  BY <1>3, <1>5, <1>6 DEF Injection, IsInjective
<1>8. 0 \in Int /\ k - 1 \in Int
  OBVIOUS
<1>9. IsFiniteSet(0 .. k - 1) /\ Cardinality(0 .. k - 1) <= k
  <2>1. Cardinality(0 .. k - 1) = IF 0 > k - 1 THEN 0 ELSE (k - 1) - 0 + 1
    BY <1>8, FS_Interval
  <2>2. (IF 0 > k - 1 THEN 0 ELSE (k - 1) - 0 + 1) <= k
    OBVIOUS
  <2> QED
    BY <1>8, <2>1, <2>2, FS_Interval
<1>10. Cardinality(best) <= Cardinality(0 .. k - 1) /\ IsFiniteSet(best)
  BY <1>7, <1>9, FS_Injection
<1>11. Cardinality(best) \in Nat /\ Cardinality(0 .. k - 1) \in Nat
  BY <1>9, <1>10, FS_CardinalityType
<1>12. Cardinality(best) <= k
  BY <1>9, <1>10, <1>11
<1> QED
  BY <1>12 DEF best

(* A partial order, strict, of a finite set: some element has none before it. *)
PartialOrder(B, S) ==
    /\ \A t \in S : <<t, t>> \notin B
    /\ \A t, u, v \in S : <<t, u>> \in B /\ <<u, v>> \in B => <<t, v>> \in B

(* A finite set has an element that none comes before.                       *)
LEMMA SomeIsFirst ==
  ASSUME NEW S, IsFiniteSet(S), S # {}, NEW B, PartialOrder(B, S)
  PROVE  \E m \in S : \A t \in S : <<t, m>> \notin B
<1> DEFINE before(t) == {u \in S : <<u, t>> \in B}
           counts == {Cardinality(before(t)) : t \in S}
<1>1. \A t \in S : IsFiniteSet(before(t)) /\ Cardinality(before(t)) \in Nat
  BY FS_Subset, FS_CardinalityType
<1>2. ASSUME NEW t \in S, NEW u \in S, <<t, u>> \in B
      PROVE  Cardinality(before(t)) < Cardinality(before(u))
  <2>1. before(t) \subseteq before(u) /\ t \in before(u) /\ t \notin before(t)
    BY <1>2 DEF PartialOrder
  <2>2. /\ Cardinality(before(t)) <= Cardinality(before(u))
        /\ Cardinality(before(t)) # Cardinality(before(u))
    BY <1>1, <2>1, FS_Subset
  <2> QED
    BY <1>1, <2>2
<1>3. counts \in SUBSET Nat /\ counts # {}
  BY <1>1
<1>4. \E x \in counts : \A y \in counts : x <= y
  BY <1>3, LeastOf
<1>5. PICK m \in S : \A t \in S : Cardinality(before(m)) <= Cardinality(before(t))
  BY <1>4
<1>6. ASSUME NEW t \in S PROVE <<t, m>> \notin B
  <2>1. Cardinality(before(m)) <= Cardinality(before(t))
    BY <1>5
  <2>2. ~ (Cardinality(before(t)) < Cardinality(before(m)))
    BY <1>1, <2>1
  <2> QED
    BY <1>2, <2>2
<1> QED
  BY <1>6
=============================================================================
