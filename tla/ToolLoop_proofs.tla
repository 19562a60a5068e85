--------------------------- MODULE ToolLoop_proofs --------------------------
(***************************************************************************)
(* Proofs about the agentic loop, for every batch of calls the model may   *)
(* answer with and every limit on steps, workers and recoveries.           *)
(*                                                                         *)
(* Four independent parts: the conversation is a sequence of whole rounds  *)
(* (RoundsWhole), which a compaction keeps because it takes a round away   *)
(* as a whole; what is sent and recorded of a call follows its stage       *)
(* (CallsFollow); the depth of the clock counts the open approvals         *)
(* (ClockCounts); and the ways the loop ends (EndsFollow).                 *)
(*                                                                         *)
(* Then what the loop may be given and what may refuse it: the selection   *)
(* and the offer of tools follow from what the contributions mark          *)
(* (MarksFollow, StagesFollow), and what a check missed from the moves of  *)
(* the list of policies (WalkFollows).                                     *)
(***************************************************************************)
EXTENDS ToolLoop, ToolAdmission, QueueLemmas

(* The fields of a message.                                                  *)
LEMMA MessageFields ==
  /\ \A r, s, n : /\ Message(r, s, n).role = r
                  /\ Message(r, s, n).step = s
                  /\ Message(r, s, n).call = n
  /\ \A r \in {"assistant", "tool", "system"}, s \in 1 .. MaxSteps, n \in Nat :
        Message(r, s, n) \in Messages
  /\ \A m \in Messages : /\ m.role \in {"assistant", "tool", "system"}
                         /\ m.step \in 1 .. MaxSteps /\ m.call \in Nat
BY DEF Message, Messages

(* A compaction takes the first round with calls away, from its assistant    *)
(* message to the last of its tool messages.                                 *)
LEMMA CompactedCases ==
  ASSUME NEW conv \in Seq(Messages)
  PROVE  \/ Compacted(conv) = conv
         \/ \E a \in 1 .. Len(conv), b \in 1 .. Len(conv) + 1 :
               /\ conv[a].role = "assistant" /\ conv[a].call > 0
               /\ \A i \in 1 .. a - 1 : ~ (conv[i].role = "assistant" /\ conv[i].call > 0)
               /\ a < b
               /\ \A m \in a + 1 .. b - 1 : conv[m].role = "tool"
               /\ b <= Len(conv) => conv[b].role # "tool"
               /\ Compacted(conv) = Replaced(conv, a, b, Message("system", conv[a].step, 0))
<1> DEFINE rounds == {i \in DOMAIN conv : conv[i].role = "assistant" /\ conv[i].call > 0}
           first == CHOOSE i \in rounds : \A j \in rounds : i <= j
           Behind(j) == /\ j <= Len(conv) => conv[j].role # "tool"
                        /\ \A m \in first + 1 .. j - 1 : conv[m].role = "tool"
           next == CHOOSE j \in first + 1 .. Len(conv) + 1 : Behind(j)
<1>1. Len(conv) \in Nat /\ DOMAIN conv = 1 .. Len(conv)
  BY LenProperties
<1>2. CASE rounds = {}
  BY <1>2 DEF Compacted
<1>3. CASE rounds # {}
  <2>1. Compacted(conv) = Replaced(conv, first, next, Message("system", conv[first].step, 0))
    BY <1>3, Zenon DEF Compacted, Replaced
  <2>2. first \in rounds /\ \A j \in rounds : first <= j
    <3>1. rounds \in SUBSET Nat
      BY <1>1
    <3> HIDE DEF rounds
    <3>2. \E i \in rounds : \A j \in rounds : i <= j
      BY <1>3, <3>1, LeastOf
    <3> QED
      BY <3>2
  <2>3. first \in 1 .. Len(conv)
    BY <1>1, <2>2
  <2>4. \A i \in 1 .. first - 1 : ~ (conv[i].role = "assistant" /\ conv[i].call > 0)
    <3>1. \A i \in 1 .. first - 1 : i \in DOMAIN conv /\ ~ (first <= i)
      <4> HIDE DEF first
      <4> QED
        BY <1>1, <2>3
    <3>2. \A i \in 1 .. first - 1 : i \notin rounds
      <4> HIDE DEF first, rounds
      <4> QED
        BY <2>2, <3>1
    <3> HIDE DEF first
    <3> QED
      BY <3>1, <3>2
  <2>5. conv[first].role = "assistant" /\ conv[first].call > 0
    <3> HIDE DEF first
    <3> QED
      BY <2>2
  <2> HIDE DEF first, rounds
  <2>6. \E j \in first + 1 .. Len(conv) + 1 : Behind(j)
    <3> DEFINE T == {j \in first + 1 .. Len(conv) + 1 :
                        j <= Len(conv) => conv[j].role # "tool"}
    <3>1. T \in SUBSET Nat
      BY <1>1, <2>3
    <3>2. Len(conv) + 1 \in T
      BY <1>1, <2>3
    <3>3. \A j \in T : /\ j \in first + 1 .. Len(conv) + 1
                       /\ j <= Len(conv) => conv[j].role # "tool"
      OBVIOUS
    <3>4. \A m \in first + 1 .. Len(conv) : m \notin T => conv[m].role = "tool"
      BY <1>1, <2>3
    <3> HIDE DEF T
    <3>5. PICK j \in T : \A k \in T : j <= k
      BY <3>1, <3>2, LeastOf
    <3>6. ASSUME NEW m \in first + 1 .. j - 1 PROVE conv[m].role = "tool"
      <4>1. m \in first + 1 .. Len(conv) /\ ~ (j <= m)
        BY <1>1, <2>3, <3>3
      <4> QED
        BY <3>4, <3>5, <4>1
    <3> QED
      BY <3>3, <3>6
  <2>7. next \in first + 1 .. Len(conv) + 1 /\ Behind(next)
    <3> HIDE DEF Behind
    <3> QED
      BY <2>6
  <2>8. next \in 1 .. Len(conv) + 1 /\ first < next
    <3> HIDE DEF next
    <3> QED
      BY <1>1, <2>3, <2>7
  <2> HIDE DEF next
  <2>9. /\ next <= Len(conv) => conv[next].role # "tool"
        /\ \A m \in first + 1 .. next - 1 : conv[m].role = "tool"
    BY <2>7
  <2> QED
    BY <2>1, <2>3, <2>4, <2>5, <2>8, <2>9
<1> QED
  BY <1>2, <1>3

(* So it leaves whole rounds behind, and an answered conversation.           *)
LEMMA CompactedWhole ==
  ASSUME NEW conv \in Seq(Messages), Whole(conv), ~ Awaits(conv)
  PROVE  Compacted(conv) \in Seq(Messages) /\ Whole(Compacted(conv))
         /\ ~ Awaits(Compacted(conv))
<1>1. CASE Compacted(conv) = conv
  BY <1>1
<1>2. CASE Compacted(conv) # conv
  <2>1. PICK a \in 1 .. Len(conv), b \in 1 .. Len(conv) + 1 :
               /\ conv[a].role = "assistant" /\ conv[a].call > 0
               /\ \A i \in 1 .. a - 1 : ~ (conv[i].role = "assistant" /\ conv[i].call > 0)
               /\ a < b
               /\ \A m \in a + 1 .. b - 1 : conv[m].role = "tool"
               /\ b <= Len(conv) => conv[b].role # "tool"
               /\ Compacted(conv) = Replaced(conv, a, b, Message("system", conv[a].step, 0))
    BY <1>2, CompactedCases
  <2> DEFINE v == Compacted(conv)
             note == Message("system", conv[a].step, 0)
             d == b - a - 1
  <2>2. /\ Len(conv) \in Nat /\ DOMAIN conv = 1 .. Len(conv)
        /\ a \in Nat \ {0} /\ b \in Nat /\ d \in Nat /\ a <= Len(conv)
        /\ \A i \in 1 .. Len(conv) : conv[i] \in Messages
    BY <2>1, LenProperties, ElementOfSeq
  <2>3. note \in Messages /\ note.role = "system"
    BY <2>2, MessageFields
  <2>4. /\ v \in Seq(Messages)
        /\ Len(v) = a + (Len(conv) - b + 1)
        /\ \A i \in 1 .. a - 1 : v[i] = conv[i]
        /\ v[a] = note
        /\ \A i \in a + 1 .. Len(v) : v[i] = conv[i + d]
    <3>1. b \in a + 1 .. Len(conv) + 1
      BY <2>1, <2>2
    <3>2. v = Replaced(conv, a, b, note)
      BY <2>1
    <3> HIDE DEF v, note
    <3>3. /\ Replaced(conv, a, b, note) \in Seq(Messages)
          /\ Len(Replaced(conv, a, b, note)) = a + (Len(conv) - b + 1)
          /\ \A i \in 1 .. a - 1 : Replaced(conv, a, b, note)[i] = conv[i]
          /\ Replaced(conv, a, b, note)[a] = note
          /\ \A i \in a + 1 .. a + (Len(conv) - b + 1) :
                Replaced(conv, a, b, note)[i] = conv[i + d]
      BY <2>3, <3>1, ReplaceStretch
    <3> QED
      BY <3>2, <3>3
  <2> HIDE DEF v, note
  <2>5. Len(v) \in Nat /\ DOMAIN v = 1 .. Len(v) /\ Len(v) + d = Len(conv) /\ a <= Len(v)
        /\ b = a + 1 + d
    <3>1. Len(v) \in Nat /\ DOMAIN v = 1 .. Len(v)
      BY <2>4, LenProperties
    <3>2. ASSUME NEW l \in Nat, NEW lv \in Nat, lv = a + (l - b + 1), b <= l + 1
          PROVE  lv + d = l /\ a <= lv /\ b = a + 1 + d
      BY <2>1, <2>2, <3>2
    <3>3. b <= Len(conv) + 1
      BY <2>2
    <3> HIDE DEF d
    <3> QED
      BY <2>2, <2>4, <3>1, <3>2, <3>3
  <2> HIDE DEF d
  <2>6. ASSUME NEW k \in 1 .. Len(conv), conv[k].role = "tool"
        PROVE  /\ conv[k].call \in 1 .. k - 1
               /\ conv[k - conv[k].call].role = "assistant"
               /\ conv[k - conv[k].call].step = conv[k].step
               /\ conv[k - conv[k].call].call >= conv[k].call
               /\ \A j \in 1 .. conv[k].call :
                     conv[k - conv[k].call + j] = Message("tool", conv[k].step, j)
    BY <2>2, <2>6 DEF Whole
  <2>7. ASSUME NEW k \in 1 .. Len(conv), conv[k].role = "assistant", conv[k].call > 0,
               k < Len(conv)
        PROVE  \/ conv[k + 1].role = "system"
               \/ \A i \in 1 .. conv[k].call :
                     /\ k + i <= Len(conv)
                     /\ conv[k + i] = Message("tool", conv[k].step, i)
    BY <2>2, <2>7 DEF Whole
  <2>8. ASSUME NEW k \in 1 .. Len(conv), conv[k].role = "tool"
        PROVE  k - conv[k].call \in a .. k - 1
    <3> DEFINE p == k - conv[k].call
    <3>1. /\ conv[k].call \in Nat /\ p \in 1 .. k - 1 /\ p \in 1 .. Len(conv)
          /\ conv[p].role = "assistant" /\ conv[p].call > 0
      <4>1. conv[k].call \in 1 .. k - 1
        BY <2>6, <2>8
      <4>2. p \in 1 .. k - 1 /\ p \in 1 .. Len(conv)
        BY <2>2, <4>1
      <4>3. conv[p].role = "assistant" /\ conv[p].call >= conv[k].call
        BY <2>6, <2>8
      <4>4. conv[p].call \in Nat
        BY <2>2, <4>2, MessageFields
      <4> HIDE DEF p
      <4> QED
        BY <4>1, <4>2, <4>3, <4>4
    <3> HIDE DEF p
    <3>2. ~ (p \in 1 .. a - 1)
      BY <2>1, <3>1
    <3> QED
      BY <2>2, <3>1, <3>2 DEF p
  <2>9. ASSUME NEW k \in a + 1 .. Len(v), v[k].role = "tool"
        PROVE  /\ v[k].call \in 1 .. k - 1
               /\ v[k - v[k].call].role = "assistant"
               /\ v[k - v[k].call].step = v[k].step
               /\ v[k - v[k].call].call >= v[k].call
               /\ \A j \in 1 .. v[k].call :
                     v[k - v[k].call + j] = Message("tool", v[k].step, j)
    <3>1. v[k] = conv[k + d] /\ k + d \in 1 .. Len(conv) /\ k + d \in b .. Len(conv)
      <4>1. v[k] = conv[k + d]
        BY <2>4
      <4>2. ASSUME NEW l \in Nat, NEW lv \in Nat, lv + d = l, k \in a + 1 .. lv
            PROVE  k + d \in 1 .. l /\ k + d \in b .. l
        BY <2>2, <2>5, <4>2
      <4> QED
        BY <2>2, <2>5, <4>1, <4>2
    <3> DEFINE c == conv[k + d].call
    <3>2. /\ c \in 1 .. (k + d) - 1
          /\ (k + d) - c \in a .. (k + d) - 1
          /\ conv[(k + d) - c].role = "assistant"
          /\ conv[(k + d) - c].step = conv[k + d].step
          /\ conv[(k + d) - c].call >= c
          /\ \A j \in 1 .. c : conv[(k + d) - c + j] = Message("tool", conv[k + d].step, j)
      BY <2>6, <2>8, <2>9, <3>1
    <3> HIDE DEF c
    <3>3. (k + d) - c \in b .. Len(conv)
      <4>1. CASE (k + d) - c \in a + 1 .. b - 1
        BY <2>1, <3>2, <4>1
      <4>2. CASE (k + d) - c = a
        <5>1. b - a \in 1 .. c /\ (k + d) - c + (b - a) = b /\ b <= Len(conv)
          BY <2>1, <2>2, <3>1, <3>2, <4>2
        <5>2. conv[b] = Message("tool", conv[k + d].step, b - a)
          BY <3>2, <5>1
        <5>3. conv[b].role = "tool"
          BY <5>2, MessageFields
        <5> QED
          BY <2>1, <5>1, <5>3
      <4>3. ASSUME NEW q \in a .. (k + d) - 1, NEW l \in Nat, k + d \in b .. l
            PROVE  q = a \/ q \in a + 1 .. b - 1 \/ q \in b .. l
        BY <2>2, <4>3
      <4> QED
        BY <2>2, <3>1, <3>2, <4>1, <4>2, <4>3
    <3>4. k - c \in a + 1 .. Len(v) /\ (k - c) + d = (k + d) - c /\ c \in 1 .. k - 1
      BY <2>2, <2>5, <3>2, <3>3
    <3>5. v[k - c] = conv[(k + d) - c]
      BY <2>4, <3>4
    <3>6. ASSUME NEW j \in 1 .. c
          PROVE  v[k - c + j] = conv[(k + d) - c + j]
      <4>1. k - c + j \in a + 1 .. Len(v) /\ (k - c + j) + d = (k + d) - c + j
        BY <2>2, <2>5, <3>4
      <4> QED
        BY <2>4, <4>1
    <3>7. v[k].call = c
      BY <3>1 DEF c
    <3> QED
      BY <3>1, <3>2, <3>4, <3>5, <3>6, <3>7
  <2>10. ASSUME NEW k \in a + 1 .. Len(v), v[k].role = "assistant", v[k].call > 0,
                k < Len(v)
         PROVE  \/ v[k + 1].role = "system"
                \/ \A i \in 1 .. v[k].call :
                      k + i <= Len(v) /\ v[k + i] = Message("tool", v[k].step, i)
    <3>1. v[k] = conv[k + d] /\ k + d \in 1 .. Len(conv) /\ k + d < Len(conv)
      BY <2>2, <2>4, <2>5, <2>10
    <3>2. v[k + 1] = conv[(k + d) + 1]
      <4>1. k + 1 \in a + 1 .. Len(v) /\ (k + 1) + d = (k + d) + 1
        BY <2>2, <2>5, <2>10
      <4> QED
        BY <2>4, <4>1
    <3>3. v[k].call \in Nat
      BY <2>2, <3>1, MessageFields
    <3>4. ASSUME NEW i \in 1 .. v[k].call, (k + d) + i <= Len(conv)
          PROVE  k + i <= Len(v) /\ v[k + i] = conv[(k + d) + i]
      <4>1. k + i \in a + 1 .. Len(v) /\ (k + i) + d = (k + d) + i
        BY <2>2, <2>5, <3>3, <3>4
      <4> QED
        BY <2>4, <4>1
    <3>5. \/ conv[(k + d) + 1].role = "system"
          \/ \A i \in 1 .. v[k].call :
                /\ (k + d) + i <= Len(conv)
                /\ conv[(k + d) + i] = Message("tool", v[k].step, i)
      BY <2>7, <2>10, <3>1
    <3> QED
      BY <3>2, <3>4, <3>5
  <2>11. Whole(v)
    <3>1. \A k \in DOMAIN v : k \in 1 .. a - 1 \/ k = a \/ k \in a + 1 .. Len(v)
      BY <2>2, <2>5
    <3>2. ASSUME NEW k \in 1 .. a - 1
          PROVE  v[k].role # "tool" /\ ~ (v[k].role = "assistant" /\ v[k].call > 0)
      <4>1. k \in 1 .. Len(conv) /\ v[k] = conv[k]
        <5>1. ASSUME NEW l \in Nat, a <= l PROVE k \in 1 .. l
          BY <2>2, <5>1
        <5>2. k \in 1 .. Len(conv)
          BY <2>2, <5>1
        <5>3. v[k] = conv[k]
          BY <2>4, Zenon
        <5> QED
          BY <5>2, <5>3
      <4>2. ~ (k - conv[k].call \in a .. k - 1)
        <5>1. k \in Nat /\ k < a
          BY <2>2
        <5>2. ASSUME NEW x \in a .. k - 1 PROVE FALSE
          <6>1. x \in Int /\ a <= x /\ x <= k - 1
            BY <2>2, <5>1
          <6> QED
            BY <2>2, <5>1, <6>1
        <5> QED
          BY <5>2, Zenon
      <4>3. conv[k].role # "tool"
        BY <2>8, <4>1, <4>2
      <4>4. ~ (conv[k].role = "assistant" /\ conv[k].call > 0)
        BY <2>1, <4>1
      <4> QED
        BY <4>1, <4>3, <4>4
    <3>3. v[a].role = "system"
      BY <2>3, <2>4
    <3>4. ASSUME NEW k \in DOMAIN v, v[k].role = "tool" PROVE k \in a + 1 .. Len(v)
      BY <3>1, <3>2, <3>3, <3>4
    <3>5. ASSUME NEW k \in DOMAIN v, v[k].role = "assistant", v[k].call > 0
          PROVE  k \in a + 1 .. Len(v)
      BY <3>1, <3>2, <3>3, <3>5
    <3> QED
      BY <2>9, <2>10, <3>4, <3>5 DEF Whole
  <2>12. ~ Awaits(v)
    <3>1. CASE Len(v) = a
      <4>1. v[Len(v)].role = "system"
        BY <2>3, <2>4, <3>1
      <4> QED
        BY <4>1 DEF Awaits
    <3>2. CASE Len(v) # a
      <4>1. Len(v) \in a + 1 .. Len(v)
        <5>1. ASSUME NEW lv \in Nat, a <= lv, lv # a PROVE lv \in a + 1 .. lv
          BY <2>2, <5>1
        <5> QED
          BY <2>5, <3>2, <5>1
      <4>2. v[Len(v)] = conv[Len(conv)]
        BY <2>4, <2>5, <4>1
      <4>3. conv # <<>>
        BY <2>2, EmptySeq
      <4> QED
        BY <4>2, <4>3 DEF Awaits
    <3> QED
      BY <3>1, <3>2
  <2> QED
    BY <2>4, <2>11, <2>12 DEF v
<1> QED
  BY <1>1, <1>2

(* Appending a message that is not a tool's: behind calls that still await   *)
(* their results, a system message only.                                     *)
LEMMA AppendWhole ==
  ASSUME NEW conv \in Seq(Messages), Whole(conv), NEW m \in Messages, m.role # "tool",
         Awaits(conv) => m.role = "system"
  PROVE  /\ Append(conv, m) \in Seq(Messages) /\ Whole(Append(conv, m))
         /\ Awaits(Append(conv, m)) <=> (m.role = "assistant" /\ m.call > 0)
         /\ Append(conv, m) # <<>>
         /\ Len(Append(conv, m)) = Len(conv) + 1
         /\ Append(conv, m)[Len(Append(conv, m))] = m
<1> DEFINE v == Append(conv, m)
<1>1. Len(conv) \in Nat /\ DOMAIN conv = 1 .. Len(conv)
  BY LenProperties
<1>2. /\ v \in Seq(Messages) /\ Len(v) = Len(conv) + 1
      /\ \A i \in 1 .. Len(conv) : v[i] = conv[i]
      /\ v[Len(conv) + 1] = m /\ v # <<>>
  BY AppendProperties
<1>3. DOMAIN v = 1 .. Len(conv) + 1
  BY <1>2, LenProperties
<1> HIDE DEF v
<1>4. Awaits(v) <=> (m.role = "assistant" /\ m.call > 0)
  BY <1>2 DEF Awaits
<1>5. ASSUME NEW k \in DOMAIN v, v[k].role = "tool"
      PROVE  /\ v[k].call \in 1 .. k - 1
             /\ v[k - v[k].call].role = "assistant"
             /\ v[k - v[k].call].step = v[k].step
             /\ v[k - v[k].call].call >= v[k].call
             /\ \A j \in 1 .. v[k].call : v[k - v[k].call + j] = Message("tool", v[k].step, j)
  <2>1. k \in 1 .. Len(conv) /\ v[k] = conv[k]
    <3>1. k # Len(conv) + 1
      BY <1>2, <1>5
    <3> QED
      BY <1>1, <1>2, <1>3, <3>1
  <2>2. /\ conv[k].call \in 1 .. k - 1
        /\ conv[k - conv[k].call].role = "assistant"
        /\ conv[k - conv[k].call].step = conv[k].step
        /\ conv[k - conv[k].call].call >= conv[k].call
        /\ \A j \in 1 .. conv[k].call :
              conv[k - conv[k].call + j] = Message("tool", conv[k].step, j)
    BY <1>1, <1>5, <2>1 DEF Whole
  <2>3. k - conv[k].call \in 1 .. Len(conv)
    BY <1>1, <2>1, <2>2
  <2>4. \A j \in 1 .. conv[k].call : k - conv[k].call + j \in 1 .. Len(conv)
    BY <1>1, <2>1, <2>2
  <2> QED
    BY <1>2, <2>1, <2>2, <2>3, <2>4
<1>6. ASSUME NEW k \in DOMAIN v, v[k].role = "assistant", v[k].call > 0, k < Len(v)
      PROVE  \/ v[k + 1].role = "system"
             \/ \A i \in 1 .. v[k].call :
                   k + i <= Len(v) /\ v[k + i] = Message("tool", v[k].step, i)
  <2>1. k \in 1 .. Len(conv) /\ v[k] = conv[k]
    BY <1>1, <1>2, <1>3, <1>6
  <2>2. CASE k = Len(conv)
    <3>1. conv # <<>>
      BY <1>1, <2>1, EmptySeq
    <3>2. Awaits(conv)
      BY <1>6, <2>1, <2>2, <3>1 DEF Awaits
    <3> QED
      BY <1>2, <2>2, <3>2
  <2>3. CASE k < Len(conv)
    <3>1. \/ conv[k + 1].role = "system"
          \/ \A i \in 1 .. conv[k].call :
                k + i <= Len(conv) /\ conv[k + i] = Message("tool", conv[k].step, i)
      BY <1>1, <1>6, <2>1, <2>3 DEF Whole
    <3>2. k + 1 \in 1 .. Len(conv)
      BY <1>1, <2>1, <2>3
    <3>3. conv[k].call \in Nat
      BY <2>1, ElementOfSeq, MessageFields
    <3>4. \A i \in 1 .. conv[k].call :
             k + i <= Len(conv) => k + i \in 1 .. Len(conv) /\ k + i <= Len(v)
      BY <1>1, <1>2, <2>1, <3>3
    <3> QED
      BY <1>2, <2>1, <3>1, <3>2, <3>4
  <2> QED
    BY <1>1, <2>1, <2>2, <2>3
<1>7. Whole(v)
  BY <1>5, <1>6 DEF Whole
<1> QED
  BY <1>2, <1>4, <1>7 DEF v

(* Answering the calls that await their results, in their order.             *)
LEMMA ResultsWhole ==
  ASSUME NEW conv \in Seq(Messages), Whole(conv), conv # <<>>, NEW n \in Nat \ {0},
         NEW s \in 1 .. MaxSteps, conv[Len(conv)] = Message("assistant", s, n),
         NEW t, t = [i \in 1 .. n |-> Message("tool", s, i)]
  PROVE  conv \o t \in Seq(Messages) /\ Whole(conv \o t) /\ ~ Awaits(conv \o t)
<1> DEFINE v == conv \o t
           l == Len(conv)
<1>1. l \in Nat \ {0} /\ DOMAIN conv = 1 .. l
  BY LenProperties, EmptySeq
<1>2. t \in Seq(Messages) /\ Len(t) = n /\ \A i \in 1 .. n : t[i] = Message("tool", s, i)
  <2>1. t \in [1 .. n -> Messages]
    BY MessageFields
  <2>2. t \in Seq(Messages)
    BY <2>1, SeqDef
  <2> QED
    BY <2>1, <2>2, LenProperties
<1>3. /\ v \in Seq(Messages) /\ Len(v) = l + n
      /\ \A i \in 1 .. l + n : v[i] = IF i <= l THEN conv[i] ELSE t[i - l]
  BY <1>2, ConcatProperties
<1>4. DOMAIN v = 1 .. l + n
  BY <1>3, LenProperties
<1> HIDE DEF v, l
<1>5. \A i \in 1 .. l : v[i] = conv[i] /\ i \in 1 .. l + n
  BY <1>1, <1>3
<1>6. ASSUME NEW i \in 1 .. n
      PROVE  l + i \in 1 .. l + n /\ v[l + i] = Message("tool", s, i)
  <2>1. l + i \in 1 .. l + n /\ ~ (l + i <= l) /\ (l + i) - l = i
    BY <1>1
  <2> QED
    BY <1>2, <1>3, <2>1
<1>7. conv[l] = Message("assistant", s, n)
  BY DEF l
<1>8. ASSUME NEW k \in DOMAIN v, v[k].role = "tool"
      PROVE  /\ v[k].call \in 1 .. k - 1
             /\ v[k - v[k].call].role = "assistant"
             /\ v[k - v[k].call].step = v[k].step
             /\ v[k - v[k].call].call >= v[k].call
             /\ \A j \in 1 .. v[k].call : v[k - v[k].call + j] = Message("tool", v[k].step, j)
  <2>1. CASE k \in 1 .. l
    <3>1. v[k] = conv[k]
      BY <1>5, <2>1
    <3>2. /\ conv[k].call \in 1 .. k - 1
          /\ conv[k - conv[k].call].role = "assistant"
          /\ conv[k - conv[k].call].step = conv[k].step
          /\ conv[k - conv[k].call].call >= conv[k].call
          /\ \A j \in 1 .. conv[k].call :
                conv[k - conv[k].call + j] = Message("tool", conv[k].step, j)
      BY <1>1, <1>8, <2>1, <3>1 DEF Whole
    <3>3. k - conv[k].call \in 1 .. l
      BY <1>1, <2>1, <3>2
    <3>4. \A j \in 1 .. conv[k].call : k - conv[k].call + j \in 1 .. l
      BY <1>1, <2>1, <3>2
    <3> QED
      BY <1>5, <3>1, <3>2, <3>3, <3>4
  <2>2. CASE ~ (k \in 1 .. l)
    <3>1. k - l \in 1 .. n /\ l + (k - l) = k
      BY <1>1, <1>4, <2>2
    <3>2. v[k] = Message("tool", s, k - l)
      BY <1>6, <3>1
    <3>3. v[k].call = k - l /\ v[k].step = s
      BY <3>2, MessageFields
    <3>4. k - v[k].call = l /\ k - l \in 1 .. k - 1 /\ l \in 1 .. l
      BY <1>1, <1>4, <3>1, <3>3
    <3>5. v[l].role = "assistant" /\ v[l].step = s /\ v[l].call = n
      BY <1>5, <1>7, <3>4, MessageFields
    <3>6. \A j \in 1 .. k - l : j \in 1 .. n
      BY <3>1
    <3>7. \A j \in 1 .. k - l : v[l + j] = Message("tool", s, j)
      BY <1>6, <3>6
    <3>8. n >= k - l
      BY <3>1
    <3> QED
      BY <3>3, <3>4, <3>5, <3>7, <3>8
  <2> QED
    BY <2>1, <2>2
<1>9. ASSUME NEW k \in DOMAIN v, v[k].role = "assistant", v[k].call > 0, k < Len(v)
      PROVE  \/ v[k + 1].role = "system"
             \/ \A i \in 1 .. v[k].call :
                   k + i <= Len(v) /\ v[k + i] = Message("tool", v[k].step, i)
  <2>1. k \in 1 .. l
    <3>1. CASE ~ (k \in 1 .. l)
      <4>1. k - l \in 1 .. n /\ l + (k - l) = k
        BY <1>1, <1>4, <3>1
      <4>2. v[k].role = "tool"
        BY <1>6, <4>1, MessageFields
      <4> QED
        BY <1>9, <4>2
    <3> QED
      BY <3>1
  <2>2. v[k] = conv[k]
    BY <1>5, <2>1
  <2>3. CASE k = l
    <3>1. v[k].call = n /\ v[k].step = s
      BY <1>7, <2>2, <2>3, MessageFields
    <3>2. \A i \in 1 .. n : k + i <= Len(v) /\ v[k + i] = Message("tool", s, i)
      BY <1>1, <1>3, <1>6, <2>3
    <3> QED
      BY <3>1, <3>2
  <2>4. CASE k < l
    <3>1. \/ conv[k + 1].role = "system"
          \/ \A i \in 1 .. conv[k].call :
                k + i <= l /\ conv[k + i] = Message("tool", conv[k].step, i)
      BY <1>1, <1>9, <2>1, <2>2, <2>4 DEF Whole, l
    <3>2. k + 1 \in 1 .. l
      BY <1>1, <2>1, <2>4
    <3>3. conv[k].call \in Nat
      BY <1>1, <2>1, ElementOfSeq, MessageFields
    <3>4. \A i \in 1 .. conv[k].call :
             k + i <= l => k + i \in 1 .. l /\ k + i <= Len(v)
      BY <1>1, <1>3, <2>1, <3>3
    <3> QED
      BY <1>5, <2>2, <3>1, <3>2, <3>4
  <2> QED
    BY <1>1, <2>1, <2>3, <2>4
<1>10. Whole(v)
  BY <1>8, <1>9 DEF Whole
<1>11. ~ Awaits(v)
  <2>1. n \in 1 .. n
    OBVIOUS
  <2>2. v[Len(v)].role = "tool"
    BY <1>3, <1>6, <2>1, MessageFields
  <2> QED
    BY <2>2 DEF Awaits
<1> QED
  BY <1>3, <1>10, <1>11 DEF v

-----------------------------------------------------------------------------
(* The calls of a batch are numbered from one.                               *)
LEMMA CallsNumbered ==
  ASSUME TypeOK
  PROVE  /\ calls \in Seq(CallKinds) /\ Len(calls) \in Nat
         /\ DOMAIN calls = 1 .. Len(calls) /\ IsFiniteSet(DOMAIN calls)
<1>1. calls \in Seq(CallKinds)
  BY BatchesAssumption DEF TypeOK
<1>2. Len(calls) \in Nat /\ DOMAIN calls = 1 .. Len(calls)
  BY <1>1, LenProperties
<1> QED
  BY <1>1, <1>2, FS_Interval

(* How the loop may end, and what is known of the cause.                     *)
Ended(kinds) ==
    /\ loop' = "done" /\ timer' = TimerEnded
    /\ \/ result' = "threw" /\ cause' \in {"hook", "budget"}
       \/ result' = "threw" /\ cause' = "other" /\ observed = {}
       \/ result' \in kinds /\ cause' = "none"

(* The loop is left between two batches.                                     *)
Exit == Interrupted \/ Exhausted \/ LlmFails \/ LlmHookThrows \/ LlmSpendsBudget

(* Everything but the result stays.                                          *)
LEMMA ExitSteps ==
  ASSUME Exit
  PROVE  /\ loop \in {"top", "llm"} /\ Ended({"partial", "exhausted"})
         /\ UNCHANGED <<convVars, callVars, aborted>>
BY DEF Exit, Interrupted, Exhausted, LlmFails, LlmHookThrows, LlmSpendsBudget, Ends, Fails,
       HookThrows, Throw, Ended

(* An answer without calls to run: a recovery, or the end.                   *)
LEMMA TextSteps ==
  ASSUME LlmAnswersText
  PROVE  /\ loop = "llm"
         /\ UNCHANGED <<step, observed, callVars, aborted>>
         /\ \E n \in {0, 1} :
               \/ /\ RecoveryDue
                  /\ recoveryInjections' = recoveryInjections + 1
                  /\ conversation' = conversation \o <<Message("assistant", step, n),
                                                       Message("system", step, 0)>>
                  /\ loop' = "top"
                  /\ UNCHANGED <<result, cause, timer>>
               \/ /\ ~ RecoveryDue
                  /\ UNCHANGED recoveryInjections
                  /\ conversation' = Append(conversation, Message("assistant", step, n))
                  /\ Ended({"ready", "partial"})
BY DEF LlmAnswersText, Ends, Fails, Throw, Ended

(* The calls go on by themselves.                                            *)
CallGoesOn(i) ==
    \/ PreToolUsePasses(i) \/ PreToolUseDenies(i) \/ UnknownTool(i)
    \/ ToolSettles(i) \/ PostToolUse(i) \/ UserApproves(i) \/ UserDenies(i)

(* They leave the loop alone.                                                *)
LEMMA CallFrame ==
  ASSUME NEW i \in DOMAIN calls, CallGoesOn(i)
  PROVE  UNCHANGED <<loop, convVars, calls, result, cause, aborted>>
BY DEF CallGoesOn, PreToolUsePasses, PreToolUseDenies, UnknownTool, ToolSettles, PostToolUse,
       UserApproves, UserDenies

(* A hook that throws in a call.                                             *)
LEMMA HookFrame ==
  ASSUME NEW i \in DOMAIN calls, CallHookThrows(i)
  PROVE  /\ UNCHANGED <<convVars, calls, outcome, sent, endSays, aborted>>
         /\ stage[i] \in {"pre", "post"}
         /\ stage' = [stage EXCEPT ![i] = "threw"]
         /\ \/ loop = "batch" /\ Ended({})
            \/ loop # "batch" /\ UNCHANGED <<loop, timer, result, cause>>
BY DEF CallHookThrows, HookThrows, Throw, Ended

(* The steps, named.                                                         *)
LEMMA LoopStepCases ==
  ASSUME [Next]_vars
  PROVE  \/ NextStep
         \/ BatchDone
         \/ LlmAnswersText
         \/ LlmAnswersCalls
         \/ Exit
         \/ \E i \in DOMAIN calls : CallGoesOn(i)
         \/ \E i \in DOMAIN calls : CallHookThrows(i)
         \/ Abort
         \/ UNCHANGED vars
BY DEF Next, LoopStep, LlmAnswers, CallStep, PreToolUse, Exit, CallGoesOn

-----------------------------------------------------------------------------
(* The conversation stays a sequence of whole rounds of messages.            *)
LEMMA RoundsStep ==
  ASSUME LoopIInv, [Next]_vars
  PROVE  conversation' \in Seq(Messages) /\ RoundsWhole'
<1> USE DEF RoundsWhole, convVars, callVars
<1>0. TypeOK /\ RoundsWhole /\ CallsFollow /\ conversation \in Seq(Messages)
  BY DEF LoopIInv, TypeOK
<1>1. CASE NextStep
  <2>1. loop = "top" /\ loop' = "llm" /\ conversation' \in {conversation, Compacted(conversation)}
    BY <1>1 DEF NextStep
  <2>2. /\ Compacted(conversation) \in Seq(Messages) /\ Whole(Compacted(conversation))
        /\ ~ Awaits(Compacted(conversation))
    BY <1>0, <2>1, CompactedWhole
  <2>3. CASE conversation' = conversation
    BY <1>0, <2>1, <2>3
  <2>4. CASE conversation' = Compacted(conversation)
    BY <2>1, <2>2, <2>4
  <2> QED
    BY <2>1, <2>3, <2>4
<1>2. CASE BatchDone
  <2>1. /\ loop = "batch" /\ loop' = "top"
        /\ conversation' = conversation \o [i \in DOMAIN calls |-> Message("tool", step, i)]
    BY <1>2 DEF BatchDone
  <2> DEFINE n == Len(calls)
             t == [i \in 1 .. n |-> Message("tool", step, i)]
  <2>2. DOMAIN calls = 1 .. n /\ n \in Nat
    BY <1>0, CallsNumbered
  <2>3. step \in 1 .. MaxSteps
    BY <1>0, <2>1, LimitsAssumption DEF TypeOK, CallsFollow
  <2>4. conversation # <<>> /\ Whole(conversation)
        /\ conversation[Len(conversation)] = Message("assistant", step, n)
    BY <1>0, <2>1
  <2>5. conversation' = conversation \o t
    BY <2>1, <2>2
  <2>6. CASE n = 0
    <3>1. t = <<>>
      BY <2>6
    <3>2. conversation' = conversation
      BY <1>0, <2>5, <3>1, ConcatEmptySeq
    <3>3. conversation[Len(conversation)].call = 0
      BY <2>4, <2>6, MessageFields
    <3>4. ~ Awaits(conversation)
      BY <3>3 DEF Awaits
    <3> QED
      BY <1>0, <2>1, <2>4, <3>2, <3>4
  <2>7. CASE n # 0
    <3>1. n \in Nat \ {0}
      BY <2>2, <2>7
    <3> HIDE DEF n
    <3>2. \A x : x = t => /\ conversation \o x \in Seq(Messages)
                          /\ Whole(conversation \o x) /\ ~ Awaits(conversation \o x)
      BY <1>0, <2>3, <2>4, <3>1, ResultsWhole
    <3> HIDE DEF t
    <3> QED
      BY <2>1, <2>5, <3>2
  <2> QED
    BY <2>6, <2>7
<1>3. CASE LlmAnswersText
  <2>1. loop = "llm" /\ ~ Awaits(conversation) /\ Whole(conversation)
    BY <1>0, <1>3, TextSteps
  <2>2. step \in 1 .. MaxSteps
    BY <1>0, <2>1, LimitsAssumption DEF TypeOK, CallsFollow
  <2>3. PICK n \in {0, 1} :
               \/ /\ conversation' = conversation \o <<Message("assistant", step, n),
                                                       Message("system", step, 0)>>
                  /\ loop' = "top"
               \/ /\ conversation' = Append(conversation, Message("assistant", step, n))
                  /\ loop' = "done"
    BY <1>3, TextSteps DEF Ended
  <2> DEFINE answer == Message("assistant", step, n)
             note == Message("system", step, 0)
  <2>4. /\ answer \in Messages /\ answer.role = "assistant"
        /\ note \in Messages /\ note.role = "system"
    <3>1. n \in Nat /\ 0 \in Nat
      OBVIOUS
    <3> QED
      BY <2>2, <3>1, MessageFields
  <2>5. \/ conversation' = conversation \o <<answer, note>> /\ loop' = "top"
        \/ conversation' = Append(conversation, answer) /\ loop' = "done"
    BY <2>3
  <2> HIDE DEF answer, note
  <2>6. Append(conversation, answer) \in Seq(Messages) /\ Whole(Append(conversation, answer))
    <3>1. answer.role # "tool"
      BY <2>4
    <3> QED
      BY <1>0, <2>1, <2>4, <3>1, AppendWhole
  <2>7. conversation \o <<answer, note>> = Append(Append(conversation, answer), note)
    <3>1. conversation \o <<answer>> = Append(conversation, answer)
      BY <1>0, <2>4, AppendIsConcat
    <3>2. Append(conversation, answer) \o <<note>> = Append(Append(conversation, answer), note)
      BY <2>4, <2>6, AppendIsConcat
    <3>4. <<answer>> \in Seq(Messages) /\ <<note>> \in Seq(Messages)
      BY <2>4
    <3>3. <<answer>> \o <<note>> = <<answer, note>>
      <4> DEFINE v == <<answer>> \o <<note>>
                 u == <<answer, note>>
      <4>1. /\ v \in Seq(Messages) /\ Len(v) = 2
            /\ v[1] = answer /\ v[2] = note
        BY <3>4, ConcatProperties
      <4>2. u \in Seq(Messages) /\ Len(u) = 2 /\ u[1] = answer /\ u[2] = note
        BY <2>4
      <4>3. 1 .. 2 = {1, 2}
        OBVIOUS
      <4> HIDE DEF u, v
      <4>4. v = u
        BY <4>1, <4>2, <4>3, SeqEqual
      <4> QED
        BY <4>4 DEF u, v
    <3>5. (conversation \o <<answer>>) \o <<note>> = conversation \o (<<answer>> \o <<note>>)
      BY <1>0, <3>4, ConcatAssociative
    <3> QED
      BY <3>1, <3>2, <3>3, <3>5
  <2>8. LET v == Append(Append(conversation, answer), note) IN
           v \in Seq(Messages) /\ Whole(v) /\ ~ Awaits(v)
    BY <2>4, <2>6, AppendWhole
  <2> QED
    BY <2>5, <2>6, <2>7, <2>8
<1>4. CASE LlmAnswersCalls
  <2>1. PICK batch \in Batches :
            /\ conversation' = Append(conversation, Message("assistant", step, Len(batch)))
            /\ calls' = batch
    BY <1>4 DEF LlmAnswersCalls
  <2>2. loop = "llm" /\ loop' = "batch" /\ step' = step
    BY <1>4 DEF LlmAnswersCalls
  <2>3. step \in 1 .. MaxSteps
    BY <1>0, <2>2, LimitsAssumption DEF TypeOK, CallsFollow
  <2>4. Len(batch) \in Nat
    BY BatchesAssumption, LenProperties
  <2> DEFINE answer == Message("assistant", step, Len(batch))
  <2>5. answer \in Messages /\ answer.role = "assistant"
    BY <2>3, <2>4, MessageFields
  <2>6. /\ conversation' = Append(conversation, answer)
        /\ answer = Message("assistant", step', Len(calls'))
    BY <2>1, <2>2
  <2> HIDE DEF answer
  <2>7. LET v == Append(conversation, answer) IN
           v \in Seq(Messages) /\ Whole(v) /\ v # <<>> /\ v[Len(v)] = answer
    BY <1>0, <2>2, <2>5, AppendWhole
  <2> QED
    BY <2>2, <2>6, <2>7
<1>5. CASE Exit
  BY <1>0, <1>5, ExitSteps DEF Ended
<1>6. ASSUME NEW i \in DOMAIN calls, CallGoesOn(i)
      PROVE  conversation' \in Seq(Messages) /\ RoundsWhole'
  BY <1>0, <1>6, CallFrame
<1>7. ASSUME NEW i \in DOMAIN calls, CallHookThrows(i)
      PROVE  conversation' \in Seq(Messages) /\ RoundsWhole'
  BY <1>0, <1>7, HookFrame DEF Ended
<1>8. CASE Abort \/ UNCHANGED vars
  BY <1>0, <1>8 DEF Abort, vars
<1> QED
  BY <1>1, <1>2, <1>3, <1>4, <1>5, <1>6, <1>7, <1>8, LoopStepCases

(* A worker that takes the next call moves one queued call, and settles its  *)
(* own.                                                                      *)
LEMMA TakeNextStages ==
  ASSUME TypeOK, NEW i \in DOMAIN calls
  PROVE  /\ TakeNext(i) \in [DOMAIN calls -> Stages]
         /\ TakeNext(i)[i] = "settled"
         /\ \A j \in DOMAIN calls \ {i} :
               TakeNext(i)[j] # stage[j] => stage[j] = "queued" /\ TakeNext(i)[j] = "pre"
BY DEF TypeOK, TakeNext, Stages

(* The types of the loop's own variables.                                    *)
LEMMA LoopTypeStep == LoopIInv /\ [Next]_vars => TypeOK'
<1> SUFFICES ASSUME LoopIInv, [Next]_vars PROVE TypeOK'
  OBVIOUS
<1> USE DEF convVars, callVars
<1>0. TypeOK /\ CallsFollow
  BY DEF LoopIInv
<1>a. conversation' \in Seq(Messages)
  BY RoundsStep
<1>b. TimerEnded \in [active : BOOLEAN, depth : Nat, blocked : BOOLEAN]
  BY DEF TimerEnded
<1>1. CASE NextStep
  BY <1>0, <1>a, <1>1, LimitsAssumption DEF TypeOK, NextStep
<1>2. CASE BatchDone
  <2>1. observed' \subseteq Outcomes \ {"none"}
    <3>1. \A i \in DOMAIN calls : outcome[i] \in Outcomes \ {"none"}
      BY <1>0, <1>2 DEF BatchDone, TypeOK, CallsFollow, CallFollows
    <3> QED
      BY <1>0, <1>2, <3>1 DEF BatchDone, TypeOK
  <2>2. /\ calls' = <<>> /\ stage' = <<>> /\ outcome' = <<>>
        /\ sent' = <<>> /\ endSays' = <<>> /\ loop' = "top"
        /\ UNCHANGED <<step, recoveryInjections, result, cause, aborted, timer>>
    BY <1>2 DEF BatchDone, NoCalls
  <2>3. \A S : <<>> \in [DOMAIN <<>> -> S]
    OBVIOUS
  <2> QED
    BY <1>0, <1>a, <2>1, <2>2, <2>3 DEF TypeOK
<1>3. CASE LlmAnswersText
  <2>1. /\ UNCHANGED <<step, observed, callVars, aborted>>
        /\ \/ RecoveryDue /\ recoveryInjections' = recoveryInjections + 1
              /\ loop' = "top" /\ UNCHANGED <<result, cause, timer>>
           \/ UNCHANGED recoveryInjections /\ Ended({"ready", "partial"})
    BY <1>3, TextSteps
  <2>2. recoveryInjections' \in 0 .. RecoveryRetries
    BY <1>0, <2>1, LimitsAssumption DEF TypeOK, RecoveryDue
  <2> QED
    BY <1>0, <1>a, <1>b, <2>1, <2>2 DEF TypeOK, Ended
<1>4. CASE LlmAnswersCalls
  <2>1. PICK batch \in Batches :
            /\ calls' = batch /\ stage' = FirstCalls(batch)
            /\ outcome' = [i \in DOMAIN batch |-> "none"]
            /\ sent' = [i \in DOMAIN batch |-> "none"]
            /\ endSays' = [i \in DOMAIN batch |-> "none"]
    BY <1>4 DEF LlmAnswersCalls
  <2>2. loop' = "batch"
        /\ UNCHANGED <<step, observed, recoveryInjections, result, cause, aborted, timer>>
    BY <1>4 DEF LlmAnswersCalls
  <2> QED
    BY <1>0, <1>a, <2>1, <2>2 DEF TypeOK, FirstCalls, Stages, Outcomes
<1>5. CASE Exit
  BY <1>0, <1>a, <1>b, <1>5, ExitSteps DEF TypeOK, Ended
<1>6. ASSUME NEW i \in DOMAIN calls, CallGoesOn(i) PROVE TypeOK'
  <2>1. UNCHANGED <<loop, convVars, calls, result, cause, aborted>>
    BY <1>6, CallFrame
  <2>2. /\ stage' \in [DOMAIN calls -> Stages]
        /\ outcome' \in [DOMAIN calls -> Outcomes]
        /\ sent' \in [DOMAIN calls -> {"none", "start", "end"}]
        /\ endSays' \in [DOMAIN calls -> {"none", "ok", "failed"}]
    <3> USE DEF TypeOK, EndSent, Stages, Outcomes
    <3>1. CASE PreToolUsePasses(i)
      <4>1. \/ stage' = [stage EXCEPT ![i] = "approval"]
            \/ stage' = [stage EXCEPT ![i] = "running"]
        BY <3>1 DEF PreToolUsePasses
      <4>2. /\ UNCHANGED outcome
            /\ \/ sent' = [sent EXCEPT ![i] = "start"] /\ UNCHANGED endSays
               \/ UNCHANGED <<sent, endSays>>
               \/ /\ sent' = [sent EXCEPT ![i] = "end"]
                  /\ endSays' = [endSays EXCEPT ![i] = "failed"]
        BY <3>1 DEF PreToolUsePasses
      <4>3. stage' \in [DOMAIN calls -> Stages]
        BY <1>0, <4>1
      <4>4. /\ sent' \in [DOMAIN calls -> {"none", "start", "end"}]
            /\ endSays' \in [DOMAIN calls -> {"none", "ok", "failed"}]
        BY <1>0, <4>2
      <4> QED
        BY <1>0, <4>2, <4>3, <4>4
    <3>2. CASE PreToolUseDenies(i)
      BY <1>0, <3>2, TakeNextStages DEF PreToolUseDenies
    <3>3. CASE UnknownTool(i)
      BY <1>0, <3>3 DEF UnknownTool
    <3>4. CASE ToolSettles(i)
      BY <1>0, <3>4 DEF ToolSettles
    <3>5. CASE PostToolUse(i)
      BY <1>0, <3>5, TakeNextStages DEF PostToolUse
    <3>6. CASE UserApproves(i)
      BY <1>0, <3>6 DEF UserApproves
    <3>7. CASE UserDenies(i)
      BY <1>0, <3>7 DEF UserDenies
    <3> QED
      BY <1>6, <3>1, <3>2, <3>3, <3>4, <3>5, <3>6, <3>7 DEF CallGoesOn
  <2>3. timer' \in [active : BOOLEAN, depth : Nat, blocked : BOOLEAN]
    <3>0. timer \in [active : BOOLEAN, depth : Nat, blocked : BOOLEAN]
      BY <1>0 DEF TypeOK
    <3>1. BeginBlocking(timer) \in [active : BOOLEAN, depth : Nat, blocked : BOOLEAN]
      <4>1. timer.depth + 1 \in Nat
        BY <3>0
      <4>2. CASE timer.active
        BY <3>0, <4>1, <4>2 DEF BeginBlocking
      <4>3. CASE ~ timer.active
        BY <3>0, <4>3 DEF BeginBlocking
      <4> QED
        BY <4>2, <4>3
    <3>2. EndBlocking(timer) \in [active : BOOLEAN, depth : Nat, blocked : BOOLEAN]
      <4>1. (timer.depth > 1) \in BOOLEAN
        OBVIOUS
      <4>2. timer.depth # 0 => timer.depth - 1 \in Nat
        BY <3>0
      <4> QED
        BY <3>0, <4>1, <4>2 DEF EndBlocking
    <3>3. timer' \in {timer, BeginBlocking(timer), EndBlocking(timer)}
      BY <1>6 DEF CallGoesOn, PreToolUsePasses, PreToolUseDenies, UnknownTool, ToolSettles,
                  PostToolUse, UserApproves, UserDenies
    <3> QED
      BY <1>0, <3>1, <3>2, <3>3 DEF TypeOK
  <2> QED
    BY <1>0, <1>a, <2>1, <2>2, <2>3 DEF TypeOK
<1>7. ASSUME NEW i \in DOMAIN calls, CallHookThrows(i) PROVE TypeOK'
  <2>1. stage' \in [DOMAIN calls -> Stages]
    BY <1>0, <1>7, HookFrame DEF TypeOK, Stages
  <2> QED
    BY <1>0, <1>a, <1>b, <1>7, <2>1, HookFrame DEF TypeOK, Ended
<1>8. CASE Abort
  BY <1>0, <1>8 DEF Abort, TypeOK
<1>9. CASE UNCHANGED vars
  BY <1>0, <1>9 DEF vars, TypeOK
<1> QED
  BY <1>1, <1>2, <1>3, <1>4, <1>5, <1>6, <1>7, <1>8, <1>9, LoopStepCases

(* What is sent and recorded goes on following the stages.                   *)
LEMMA CallsStep == LoopIInv /\ [Next]_vars => CallsFollow' /\ EventsAgreeWithRecords'
<1> SUFFICES ASSUME LoopIInv, [Next]_vars PROVE CallsFollow' /\ EventsAgreeWithRecords'
  OBVIOUS
<1> USE DEF convVars, callVars
<1>0. TypeOK /\ CallsFollow /\ EventsAgreeWithRecords
  BY DEF LoopIInv
<1>1. CASE NextStep
  <2>1. /\ loop = "top" /\ loop' = "llm" /\ step' = step + 1 /\ step \in Nat
        /\ UNCHANGED callVars
    BY <1>0, <1>1 DEF NextStep, TypeOK
  <2>2. calls' = <<>> /\ step' >= 1
    BY <1>0, <2>1 DEF CallsFollow
  <2> QED
    BY <2>1, <2>2 DEF CallsFollow, EventsAgreeWithRecords
<1>2. CASE BatchDone
  BY <1>2 DEF BatchDone, NoCalls, CallsFollow, EventsAgreeWithRecords
<1>3. CASE LlmAnswersText
  <2>1. calls' = <<>> /\ loop' \in {"top", "done"}
    BY <1>0, <1>3, TextSteps DEF CallsFollow, Ended
  <2> QED
    BY <2>1 DEF CallsFollow, EventsAgreeWithRecords
<1>4. CASE LlmAnswersCalls
  <2>1. PICK batch \in Batches :
            /\ calls' = batch /\ stage' = FirstCalls(batch)
            /\ outcome' = [i \in DOMAIN batch |-> "none"]
            /\ sent' = [i \in DOMAIN batch |-> "none"]
    BY <1>4 DEF LlmAnswersCalls
  <2>2. loop = "llm" /\ loop' = "batch" /\ step' = step
    BY <1>4 DEF LlmAnswersCalls
  <2>3. \A i \in DOMAIN batch : stage'[i] \in {"pre", "queued"}
    BY <2>1 DEF FirstCalls
  <2> QED
    BY <1>0, <2>1, <2>2, <2>3 DEF CallsFollow, CallFollows, EventsAgreeWithRecords
<1>5. CASE Exit
  <2>1. loop' = "done" /\ calls' = <<>>
    BY <1>0, <1>5, ExitSteps DEF CallsFollow, Ended
  <2> QED
    BY <2>1 DEF CallsFollow, EventsAgreeWithRecords
<1>6. ASSUME NEW i \in DOMAIN calls, CallGoesOn(i)
      PROVE  CallsFollow' /\ EventsAgreeWithRecords'
  <2>1. UNCHANGED <<loop, step, calls>>
    BY <1>6, CallFrame
  <2>2. CallFollows(i) /\ stage[i] # "settled"
    BY <1>0, <1>6
       DEF CallsFollow, CallGoesOn, PreToolUsePasses, PreToolUseDenies, UnknownTool,
           ToolSettles, PostToolUse, UserApproves, UserDenies
  <2>3. ASSUME NEW j \in DOMAIN calls \ {i}
        PROVE  /\ UNCHANGED <<sent[j], endSays[j], outcome[j]>>
               /\ stage'[j] # stage[j] => stage[j] = "queued" /\ stage'[j] = "pre"
    <3>1. UNCHANGED <<sent[j], endSays[j]>>
      BY <1>0, <1>6
         DEF CallGoesOn, PreToolUsePasses, PreToolUseDenies, UnknownTool, ToolSettles,
             PostToolUse, UserApproves, UserDenies, EndSent, TypeOK
    <3>2. UNCHANGED outcome[j]
      BY <1>0, <1>6
         DEF CallGoesOn, PreToolUsePasses, PreToolUseDenies, UnknownTool, ToolSettles,
             PostToolUse, UserApproves, UserDenies, TypeOK
    <3>3. stage'[j] # stage[j] => stage[j] = "queued" /\ stage'[j] = "pre"
      BY <1>0, <1>6, TakeNextStages
         DEF CallGoesOn, PreToolUsePasses, PreToolUseDenies, UnknownTool, ToolSettles,
             PostToolUse, UserApproves, UserDenies, TypeOK
    <3> QED
      BY <3>1, <3>2, <3>3
  <2>4. /\ CallFollows(i)'
        /\ (stage'[i] = "settled" /\ calls[i] # "dispatch") =>
              \/ sent'[i] = "end" /\ endSays'[i] = (IF outcome'[i] = "ok" THEN "ok" ELSE "failed")
              \/ sent'[i] = "none" /\ outcome'[i] = "denied"
    <3> USE DEF TypeOK, CallFollows, EndSent
    <3>1. CASE PreToolUsePasses(i)
      BY <1>0, <2>1, <2>2, <3>1 DEF PreToolUsePasses
    <3>2. CASE PreToolUseDenies(i)
      BY <1>0, <2>1, <2>2, <3>2, TakeNextStages DEF PreToolUseDenies
    <3>3. CASE UnknownTool(i)
      BY <1>0, <2>1, <2>2, <3>3 DEF UnknownTool
    <3>4. CASE ToolSettles(i)
      BY <1>0, <2>1, <2>2, <3>4 DEF ToolSettles
    <3>5. CASE PostToolUse(i)
      BY <1>0, <2>1, <2>2, <3>5, TakeNextStages DEF PostToolUse
    <3>6. CASE UserApproves(i)
      BY <1>0, <2>1, <2>2, <3>6 DEF UserApproves
    <3>7. CASE UserDenies(i)
      BY <1>0, <2>1, <2>2, <3>7 DEF UserDenies
    <3> QED
      BY <1>6, <3>1, <3>2, <3>3, <3>4, <3>5, <3>6, <3>7 DEF CallGoesOn
  <2>5. ASSUME NEW j \in DOMAIN calls \ {i} PROVE CallFollows(j)'
    BY <1>0, <2>1, <2>3 DEF CallsFollow, CallFollows
  <2>6. CallsFollow'
    BY <1>0, <2>1, <2>4, <2>5 DEF CallsFollow
  <2>7. EventsAgreeWithRecords'
    BY <1>0, <2>1, <2>3, <2>4 DEF EventsAgreeWithRecords
  <2> QED
    BY <2>6, <2>7
<1>7. ASSUME NEW i \in DOMAIN calls, CallHookThrows(i)
      PROVE  CallsFollow' /\ EventsAgreeWithRecords'
  <2>1. /\ UNCHANGED <<step, calls, outcome, sent, endSays>>
        /\ stage' = [stage EXCEPT ![i] = "threw"]
        /\ loop' \in {loop, "done"}
    BY <1>7, HookFrame DEF Ended
  <2> QED
    BY <1>0, <2>1 DEF TypeOK, CallsFollow, CallFollows, EventsAgreeWithRecords
<1>8. CASE Abort \/ UNCHANGED vars
  BY <1>0, <1>8 DEF Abort, vars, CallsFollow, CallFollows, EventsAgreeWithRecords
<1> QED
  BY <1>1, <1>2, <1>3, <1>4, <1>5, <1>6, <1>7, <1>8, LoopStepCases

-----------------------------------------------------------------------------
(* The calls whose approval is open.                                         *)
Asked == {i \in DOMAIN calls : stage[i] = "approval"}

(* The clock goes on counting the open approvals: one is opened and closed   *)
(* with each call of the timing control.                                     *)
LEMMA ClockStep == LoopIInv /\ [Next]_vars => ClockCounts'
<1> SUFFICES ASSUME LoopIInv, [Next]_vars PROVE ClockCounts'
  OBVIOUS
<1> USE DEF convVars, callVars
<1>0. /\ TypeOK /\ CallsFollow
      /\ timer.active <=> loop # "done"
      /\ timer.blocked <=> timer.depth > 0
      /\ timer.depth = IF timer.active THEN Cardinality(Asked) ELSE 0
  BY DEF LoopIInv, ClockCounts, Asked
<1>a. /\ timer \in [active : BOOLEAN, depth : Nat, blocked : BOOLEAN]
      /\ IsFiniteSet(Asked) /\ Cardinality(Asked) \in Nat
  <2>1. IsFiniteSet(DOMAIN calls) /\ Asked \in SUBSET DOMAIN calls
    BY <1>0, CallsNumbered DEF Asked
  <2> QED
    BY <1>0, <2>1, FS_Subset, FS_CardinalityType DEF TypeOK
<1>b. ASSUME Asked' = Asked, UNCHANGED timer, loop' = "done" <=> loop = "done"
      PROVE  ClockCounts'
  BY <1>0, <1>b DEF ClockCounts, Asked
<1>c. ASSUME loop' = "done", timer' = TimerEnded PROVE ClockCounts'
  BY <1>c DEF ClockCounts, TimerEnded
<1>1. CASE NextStep
  BY <1>b, <1>1 DEF NextStep, Asked
<1>2. CASE BatchDone
  <2>1. Asked = {} /\ Asked' = {}
    BY <1>2 DEF BatchDone, NoCalls, Asked
  <2> QED
    BY <1>b, <1>2, <2>1 DEF BatchDone
<1>3. CASE LlmAnswersText
  <2>1. CASE loop' = "top" /\ UNCHANGED timer
    BY <1>b, <1>3, <2>1, TextSteps DEF Asked
  <2>2. CASE Ended({"ready", "partial"})
    BY <1>c, <2>2 DEF Ended
  <2> QED
    BY <1>3, <2>1, <2>2, TextSteps
<1>4. CASE LlmAnswersCalls
  <2>1. /\ loop = "llm" /\ loop' = "batch" /\ UNCHANGED timer /\ calls = <<>>
        /\ \E batch \in Batches : calls' = batch /\ stage' = FirstCalls(batch)
    BY <1>0, <1>4 DEF LlmAnswersCalls, CallsFollow
  <2>2. Asked = {} /\ Asked' = {}
    BY <2>1 DEF Asked, FirstCalls
  <2> QED
    BY <1>b, <2>1, <2>2
<1>5. CASE Exit
  BY <1>c, <1>5, ExitSteps DEF Ended
<1>6. ASSUME NEW i \in DOMAIN calls, PreToolUsePasses(i) PROVE ClockCounts'
  <2>1. UNCHANGED <<loop, calls>> /\ stage[i] = "pre"
    BY <1>6 DEF PreToolUsePasses
  <2>2. CASE stage' = [stage EXCEPT ![i] = "running"] /\ UNCHANGED timer
    <3>1. Asked' = Asked
      BY <1>0, <2>1, <2>2 DEF Asked, TypeOK
    <3> QED
      BY <1>b, <2>1, <2>2, <3>1
  <2>3. CASE stage' = [stage EXCEPT ![i] = "approval"] /\ timer' = BeginBlocking(timer)
    <3>1. Asked' = Asked \cup {i} /\ i \notin Asked
      BY <1>0, <2>1, <2>3 DEF Asked, TypeOK
    <3>2. CASE timer.active
      <4>1. Cardinality(Asked') = Cardinality(Asked) + 1
        BY <1>a, <3>1, FS_AddElement
      <4>2. /\ timer'.active /\ timer'.blocked
            /\ timer'.depth = timer.depth + 1
        BY <1>a, <2>3, <3>2 DEF BeginBlocking
      <4>3. timer'.depth = Cardinality(Asked') /\ timer'.depth > 0
        BY <1>0, <1>a, <3>2, <4>1, <4>2
      <4> QED
        BY <1>0, <2>1, <3>2, <4>2, <4>3 DEF ClockCounts, Asked
    <3>3. CASE ~ timer.active
      BY <1>0, <2>1, <2>3, <3>3 DEF BeginBlocking, ClockCounts
    <3> QED
      BY <3>2, <3>3
  <2> QED
    BY <1>6, <2>2, <2>3 DEF PreToolUsePasses
<1>7. ASSUME NEW i \in DOMAIN calls, UserApproves(i) \/ UserDenies(i) PROVE ClockCounts'
  <2>1. /\ UNCHANGED <<loop, calls>> /\ i \in Asked /\ timer' = EndBlocking(timer)
        /\ Asked' = Asked \ {i}
    BY <1>0, <1>7 DEF UserApproves, UserDenies, Asked, TypeOK
  <2>2. CASE timer.active
    <3>1. Cardinality(Asked') = Cardinality(Asked) - 1 /\ Cardinality(Asked) # 0
      BY <1>a, <2>1, FS_RemoveElement, FS_EmptySet
    <3>2. timer.depth # 0 /\ timer.depth = Cardinality(Asked)
      BY <1>0, <2>2, <3>1
    <3>3. /\ timer'.active /\ (timer'.blocked <=> timer.depth > 1)
          /\ timer'.depth = timer.depth - 1
      BY <1>a, <2>1, <2>2, <3>2 DEF EndBlocking
    <3>4. /\ timer'.depth = Cardinality(Asked')
          /\ timer.depth > 1 <=> timer'.depth > 0
      BY <1>a, <3>1, <3>2, <3>3
    <3> QED
      BY <1>0, <2>1, <2>2, <3>3, <3>4 DEF ClockCounts, Asked
  <2>3. CASE ~ timer.active
    <3>1. UNCHANGED timer
      BY <1>0, <2>1, <2>3 DEF EndBlocking
    <3> QED
      BY <1>0, <2>1, <2>3, <3>1 DEF ClockCounts
  <2> QED
    BY <2>2, <2>3
<1>8. ASSUME NEW i \in DOMAIN calls,
             PreToolUseDenies(i) \/ UnknownTool(i) \/ ToolSettles(i) \/ PostToolUse(i)
      PROVE  ClockCounts'
  <2>1. UNCHANGED <<loop, calls, timer>>
    BY <1>8 DEF PreToolUseDenies, UnknownTool, ToolSettles, PostToolUse
  <2>2. /\ stage[i] \in {"pre", "running", "post"}
        /\ stage' = [stage EXCEPT ![i] = "post"] \/ stage' = TakeNext(i)
    BY <1>8 DEF PreToolUseDenies, UnknownTool, ToolSettles, PostToolUse
  <2>3. Asked' = Asked
    <3>1. \A j \in DOMAIN calls : stage'[j] = "approval" <=> stage[j] = "approval"
      <4>1. CASE stage' = [stage EXCEPT ![i] = "post"]
        BY <1>0, <2>2, <4>1 DEF TypeOK
      <4>2. CASE stage' = TakeNext(i)
        BY <1>0, <2>2, <4>2, TakeNextStages
      <4> QED
        BY <2>2, <4>1, <4>2
    <3> QED
      BY <2>1, <3>1 DEF Asked
  <2> QED
    BY <1>b, <2>1, <2>3
<1>9. ASSUME NEW i \in DOMAIN calls, CallHookThrows(i) PROVE ClockCounts'
  <2>1. Asked' = Asked
    BY <1>0, <1>9, HookFrame DEF TypeOK, Asked
  <2>2. CASE Ended({})
    BY <1>c, <2>2 DEF Ended
  <2>3. CASE UNCHANGED <<loop, timer>>
    BY <1>b, <2>1, <2>3
  <2> QED
    BY <1>9, <2>2, <2>3, HookFrame
<1>10. CASE Abort \/ UNCHANGED vars
  BY <1>b, <1>10 DEF Abort, vars, Asked
<1> QED
  BY <1>1, <1>2, <1>3, <1>4, <1>5, <1>6, <1>7, <1>8, <1>9, <1>10, LoopStepCases DEF CallGoesOn

(* The loop ends once, and not without a reason.                             *)
LEMMA EndsStep == LoopIInv /\ [Next]_vars => EndsFollow'
<1> SUFFICES ASSUME LoopIInv, [Next]_vars PROVE EndsFollow'
  OBVIOUS
<1> USE DEF EndsFollow, RecoveryBeforeGivingUp, HadToolFailure, HadToolSuccess, convVars,
            callVars
<1>0. EndsFollow /\ recoveryInjections \in 0 .. RecoveryRetries
  BY DEF LoopIInv, TypeOK
<1>1. CASE NextStep
  BY <1>0, <1>1 DEF NextStep
<1>2. CASE BatchDone
  BY <1>0, <1>2 DEF BatchDone
<1>3. CASE LlmAnswersText
  <2>1. /\ loop = "llm" /\ UNCHANGED observed
        /\ \/ loop' = "top" /\ UNCHANGED <<result, cause>>
           \/ ~ RecoveryDue /\ UNCHANGED recoveryInjections /\ Ended({"ready", "partial"})
    BY <1>3, TextSteps
  <2>2. CASE loop' = "top" /\ UNCHANGED <<result, cause>>
    BY <1>0, <2>1, <2>2
  <2>3. CASE ~ RecoveryDue /\ UNCHANGED recoveryInjections /\ Ended({"ready", "partial"})
    <3>1. RecoveryBeforeGivingUp'
      BY <1>0, <2>1, <2>3, LimitsAssumption DEF RecoveryDue
    <3> QED
      BY <2>1, <2>3, <3>1 DEF Ended
  <2> QED
    BY <2>1, <2>2, <2>3
<1>4. CASE LlmAnswersCalls
  BY <1>0, <1>4 DEF LlmAnswersCalls
<1>5. CASE Exit
  <2>1. /\ Ended({"partial", "exhausted"}) /\ UNCHANGED observed
    BY <1>5, ExitSteps
  <2> QED
    BY <2>1 DEF Ended
<1>6. ASSUME NEW i \in DOMAIN calls, CallGoesOn(i) PROVE EndsFollow'
  BY <1>0, <1>6, CallFrame
<1>7. ASSUME NEW i \in DOMAIN calls, CallHookThrows(i) PROVE EndsFollow'
  BY <1>0, <1>7, HookFrame DEF Ended
<1>8. CASE Abort \/ UNCHANGED vars
  BY <1>0, <1>8 DEF Abort, vars
<1> QED
  BY <1>1, <1>2, <1>3, <1>4, <1>5, <1>6, <1>7, <1>8, LoopStepCases

(* The strengthening holds at first.                                         *)
LEMMA LoopInit == Init => LoopIInv
<1> SUFFICES ASSUME Init PROVE LoopIInv
  OBVIOUS
<1> USE DEF Init
<1>1. conversation = <<>> /\ DOMAIN conversation = {} /\ calls = <<>> /\ DOMAIN calls = {}
  OBVIOUS
<1>2. TypeOK
  <2>1. step \in 0 .. MaxSteps /\ recoveryInjections \in 0 .. RecoveryRetries
    BY LimitsAssumption
  <2>2. conversation \in Seq(Messages)
    BY EmptySeq
  <2>3. calls \in Batches \cup {<<>>}
    OBVIOUS
  <2>4. ASSUME NEW S PROVE <<>> \in [{} -> S]
    OBVIOUS
  <2>5. /\ stage \in [DOMAIN calls -> Stages]
        /\ outcome \in [DOMAIN calls -> Outcomes]
        /\ sent \in [DOMAIN calls -> {"none", "start", "end"}]
        /\ endSays \in [DOMAIN calls -> {"none", "ok", "failed"}]
    BY <1>1, <2>4
  <2>6. timer \in [active : BOOLEAN, depth : Nat, blocked : BOOLEAN]
    OBVIOUS
  <2> QED
    BY <2>1, <2>2, <2>3, <2>5, <2>6 DEF TypeOK
<1>3. RoundsWhole
  BY <1>1 DEF RoundsWhole, Whole, Awaits
<1>4. CallsFollow /\ EventsAgreeWithRecords
  BY <1>1 DEF CallsFollow, EventsAgreeWithRecords
<1>5. ClockCounts
  <2>1. {i \in DOMAIN calls : stage[i] = "approval"} = {}
    BY <1>1
  <2> QED
    BY <2>1, FS_EmptySet DEF ClockCounts
<1>6. EndsFollow
  BY DEF EndsFollow, RecoveryBeforeGivingUp
<1> QED
  BY <1>2, <1>3, <1>4, <1>5, <1>6 DEF LoopIInv

(* The strengthening is inductive.                                           *)
LEMMA LoopStepIInv == LoopIInv /\ [Next]_vars => LoopIInv'
BY LoopTypeStep, RoundsStep, CallsStep, ClockStep, EndsStep DEF LoopIInv

-----------------------------------------------------------------------------
(* The strengthening holds in every reachable state.                         *)
THEOREM LoopInvariant == Spec => []LoopIInv
BY LoopInit, LoopStepIInv, PTL DEF Spec

(* The loop's variables keep their types.                                    *)
THEOREM LoopTypes == Spec => []TypeOK
<1>1. LoopIInv => TypeOK
  BY DEF LoopIInv
<1> QED
  BY <1>1, LoopInvariant, PTL

(* What the model is shown is well-formed for every order in which the       *)
(* workers finish, every number of calls, and after every compaction.        *)
THEOREM ConversationWellFormed == Spec => []ToolMessagesAnswerCalls
<1>1. LoopIInv => ToolMessagesAnswerCalls
  <2> SUFFICES ASSUME LoopIInv, NEW k \in DOMAIN conversation
               PROVE  LET m == conversation[k] IN
                      /\ m.role = "tool" =>
                            /\ k > m.call
                            /\ conversation[k - m.call].role = "assistant"
                            /\ conversation[k - m.call].step = m.step
                            /\ conversation[k - m.call].call >= m.call
                      /\ (m.role = "assistant" /\ m.call > 0 /\ k < Len(conversation)) =>
                            \/ conversation[k + 1].role = "system"
                            \/ \A i \in 1 .. m.call :
                                  /\ k + i <= Len(conversation)
                                  /\ conversation[k + i] = Message("tool", m.step, i)
    BY DEF ToolMessagesAnswerCalls
  <2>1. Whole(conversation) /\ k \in Nat
    <3>1. conversation \in Seq(Messages)
      BY DEF LoopIInv, TypeOK
    <3> QED
      BY <3>1, LenProperties DEF LoopIInv, RoundsWhole
  <2> DEFINE m == conversation[k]
  <2>2. /\ m.role = "tool" =>
              /\ m.call \in 1 .. k - 1
              /\ conversation[k - m.call].role = "assistant"
              /\ conversation[k - m.call].step = m.step
              /\ conversation[k - m.call].call >= m.call
        /\ (m.role = "assistant" /\ m.call > 0 /\ k < Len(conversation)) =>
              \/ conversation[k + 1].role = "system"
              \/ \A i \in 1 .. m.call :
                    k + i <= Len(conversation) /\ conversation[k + i] = Message("tool", m.step, i)
    BY <2>1, Zenon DEF Whole
  <2>3. ASSUME NEW c \in 1 .. k - 1 PROVE k > c
    BY <2>1
  <2>4. m.call \in 1 .. k - 1 => k > m.call
    BY <2>3
  <2> QED
    BY <2>2, <2>4, Zenon
<1> QED
  BY <1>1, LoopInvariant, PTL

(* What the stream said of a call is what the model is told of it.           *)
THEOREM EventsTellRecords == Spec => []EventsAgreeWithRecords
<1>1. LoopIInv => EventsAgreeWithRecords
  BY DEF LoopIInv
<1> QED
  BY <1>1, LoopInvariant, PTL

(* Only the user's time is kept from the loop, however many calls ask at     *)
(* once and in whatever order they are answered.                             *)
THEOREM UserTimeNotCharged == Spec => []UserWaitIsNotCharged
<1>1. LoopIInv => UserWaitIsNotCharged
  <2> SUFFICES ASSUME LoopIInv, timer.active
               PROVE  timer.blocked <=> \E i \in DOMAIN calls : stage[i] = "approval"
    BY DEF UserWaitIsNotCharged
  <2>1. /\ timer.blocked <=> timer.depth > 0
        /\ timer.depth = Cardinality(Asked)
    BY DEF LoopIInv, ClockCounts, Asked
  <2>2. IsFiniteSet(Asked)
    <3>1. IsFiniteSet(DOMAIN calls) /\ Asked \in SUBSET DOMAIN calls
      BY CallsNumbered DEF Asked, LoopIInv
    <3> QED
      BY <3>1, FS_Subset
  <2>3. Cardinality(Asked) \in Nat /\ (Cardinality(Asked) = 0 <=> Asked = {})
    BY <2>2, FS_CardinalityType, FS_EmptySet
  <2>4. timer.blocked <=> Asked # {}
    BY <2>1, <2>3
  <2> QED
    BY <2>4 DEF Asked
<1> QED
  BY <1>1, LoopInvariant, PTL

(* Observations are given up for a hook or the budget only, and failures are *)
(* not taken for an answer before the configured recoveries.                 *)
THEOREM LoopFailsHonestly == Spec => []FailsHonestly
<1>1. LoopIInv => FailsHonestly
  <2> SUFFICES ASSUME LoopIInv PROVE FailsHonestly
    OBVIOUS
  <2>1. EndsFollow /\ cause \in {"none", "hook", "budget", "other"}
    BY DEF LoopIInv, TypeOK
  <2> QED
    BY <2>1 DEF EndsFollow, FailsHonestly, ObservationsSurvive
<1> QED
  BY <1>1, LoopInvariant, PTL

-----------------------------------------------------------------------------
(* The elements of a sequence laid behind another.                           *)
LEMMA ConcatAt ==
  ASSUME NEW S, NEW w \in Seq(S), NEW v \in Seq(S)
  PROVE  /\ w \o v \in Seq(S) /\ Len(w) \in Nat /\ Len(v) \in Nat
         /\ DOMAIN w = 1 .. Len(w) /\ DOMAIN v = 1 .. Len(v)
         /\ DOMAIN (w \o v) = 1 .. Len(w) + Len(v)
         /\ \A i \in DOMAIN w : (w \o v)[i] = w[i]
         /\ \A i \in DOMAIN v : (w \o v)[Len(w) + i] = v[i]
<1>1. /\ w \o v \in Seq(S) /\ Len(w \o v) = Len(w) + Len(v)
      /\ \A i \in 1 .. Len(w) + Len(v) :
            (w \o v)[i] = IF i <= Len(w) THEN w[i] ELSE v[i - Len(w)]
  BY ConcatProperties
<1>2. Len(w) \in Nat /\ Len(v) \in Nat /\ DOMAIN w = 1 .. Len(w) /\ DOMAIN v = 1 .. Len(v)
  BY LenProperties
<1>3. DOMAIN (w \o v) = 1 .. Len(w) + Len(v)
  BY <1>1, LenProperties
<1>4. \A i \in DOMAIN w : (w \o v)[i] = w[i]
  BY <1>1, <1>2
<1>5. ASSUME NEW i \in DOMAIN v PROVE (w \o v)[Len(w) + i] = v[i]
  <2>1. i \in Nat /\ i > 0 /\ i <= Len(v)
    BY <1>2
  <2>2. Len(w) + i \in 1 .. Len(w) + Len(v) /\ ~ (Len(w) + i <= Len(w))
    BY <1>2, <2>1
  <2>3. (Len(w) + i) - Len(w) = i
    BY <1>2, <2>1
  <2> QED
    BY <1>1, <2>2, <2>3
<1> QED
  BY <1>1, <1>2, <1>3, <1>4, <1>5

(* The list of a set has its elements, each of them somewhere.               *)
LEMMA ListOfSet ==
  ASSUME NEW S, IsFiniteSet(S)
  PROVE  SetToSeq(S) \in Seq(S) /\ ToSet(SetToSeq(S)) = S
<1> DEFINE D == 1 .. Cardinality(S)
<1>1. Cardinality(S) \in Nat /\ ExistsBijection(D, S)
  BY FS_CardinalityType
<1>2. PICK g \in Bijection(D, S) : TRUE
  BY <1>1 DEF ExistsBijection
<1>3. g \in [D -> S] /\ \A i, j \in D : g[i] = g[j] => i = j
  BY <1>2 DEF Bijection, Injection, IsInjective
<1>4. \E f \in [D -> S] : IsInjective(f)
  BY <1>3 DEF IsInjective
<1>5. SetToSeq(S) \in [D -> S] /\ IsInjective(SetToSeq(S))
  BY <1>4 DEF SetToSeq
<1>6. SetToSeq(S) \in SetToSeqs(S)
  BY <1>5 DEF SetToSeqs, IsInjective
<1> QED
  BY <1>6, ListingIsQueue

(* A finite set of numbers that is not empty has a largest one.              *)
LEMMA LargestOf ==
  ASSUME NEW T \in SUBSET Nat, T # {}, IsFiniteSet(T)
  PROVE  Max(T) \in T /\ \A y \in T : Max(T) >= y
<1> DEFINE above(x) == {y \in T : y > x}
<1>1. \A x \in T : IsFiniteSet(above(x)) /\ Cardinality(above(x)) \in Nat
  BY FS_Subset, FS_CardinalityType
<1> DEFINE N == {Cardinality(above(x)) : x \in T}
<1>a. N \in SUBSET Nat /\ N # {}
  BY <1>1
<1>b. \A m : m \in N <=> \E x \in T : m = Cardinality(above(x))
  OBVIOUS
<1> HIDE DEF N
<1>2. PICK n \in N : \A m \in N : n <= m
  BY <1>a, LeastOf
<1>3. PICK x \in T : n = Cardinality(above(x))
  BY <1>b, <1>2
<1>4. ASSUME NEW y \in T, y > x PROVE FALSE
  <2>a. x \in Nat /\ y \in Nat /\ \A z \in T : z \in Nat
    OBVIOUS
  <2>b. ~ y > y /\ \A z \in T : z > y => z > x
    BY <1>4, <2>a
  <2>1. above(y) \subseteq above(x) /\ y \in above(x) /\ y \notin above(y)
    BY <1>4, <2>b
  <2>2. Cardinality(above(y)) <= Cardinality(above(x)) /\ Cardinality(above(y)) # Cardinality(above(x))
    BY <1>1, <2>1, FS_Subset
  <2>3. n <= Cardinality(above(y))
    BY <1>2, <1>b
  <2> QED
    BY <1>1, <1>3, <2>2, <2>3
<1>5. \A y \in T : x >= y
  BY <1>4
<1> QED
  BY <1>5 DEF Max

(* And one that need not be finite a smallest one.                           *)
LEMMA SmallestOf ==
  ASSUME NEW T \in SUBSET Nat, T # {}
  PROVE  Min(T) \in T /\ \A y \in T : Min(T) <= y
BY LeastOf DEF Min

(* What a list of contributions marks is what its elements mark.             *)
MarkedIn(list, effect) == {list[i].tool : i \in {j \in DOMAIN list : list[j].effect = effect}}

(* Of two lists one behind the other both mark.                              *)
LEMMA MarkedBoth ==
  ASSUME NEW w \in Seq(Contributions), NEW v \in Seq(Contributions), NEW e
  PROVE  /\ w \o v \in Seq(Contributions)
         /\ MarkedIn(w \o v, e) = MarkedIn(w, e) \cup MarkedIn(v, e)
         /\ MarkedIn(w, e) \subseteq Tools
<1>1. /\ w \o v \in Seq(Contributions) /\ Len(w) \in Nat /\ Len(v) \in Nat
      /\ DOMAIN w = 1 .. Len(w) /\ DOMAIN v = 1 .. Len(v)
      /\ DOMAIN (w \o v) = 1 .. Len(w) + Len(v)
      /\ \A i \in DOMAIN w : (w \o v)[i] = w[i]
      /\ \A i \in DOMAIN v : (w \o v)[Len(w) + i] = v[i]
  BY ConcatAt
<1>2. \A i \in DOMAIN (w \o v) : i \in DOMAIN w \/ \E j \in DOMAIN v : i = Len(w) + j
  <2> SUFFICES ASSUME NEW i \in 1 .. Len(w) + Len(v), i \notin 1 .. Len(w)
               PROVE  \E j \in 1 .. Len(v) : i = Len(w) + j
    BY <1>1
  <2>1. i - Len(w) \in 1 .. Len(v) /\ i = Len(w) + (i - Len(w))
    BY <1>1
  <2> QED
    BY <2>1
<1>3. /\ \A i \in DOMAIN w : i \in DOMAIN (w \o v)
      /\ \A j \in DOMAIN v : Len(w) + j \in DOMAIN (w \o v)
  BY <1>1
<1> DEFINE u == w \o v
<1> HIDE DEF u
<1>4. MarkedIn(u, e) \subseteq MarkedIn(w, e) \cup MarkedIn(v, e)
  BY <1>1, <1>2 DEF MarkedIn, u
<1>5. MarkedIn(w, e) \subseteq MarkedIn(u, e)
  BY <1>1, <1>3 DEF MarkedIn, u
<1>6. MarkedIn(v, e) \subseteq MarkedIn(u, e)
  BY <1>1, <1>3 DEF MarkedIn, u
<1>7. \A i \in DOMAIN w : w[i] \in Contributions
  BY ElementOfSeq, <1>1
<1>8. MarkedIn(w, e) \subseteq Tools
  BY <1>7 DEF MarkedIn, Contributions
<1> QED
  BY <1>1, <1>4, <1>5, <1>6, <1>8 DEF u

(* The list of a set marks what the set does.                                *)
LEMMA ListMarks ==
  ASSUME NEW C \in SUBSET Contributions, IsFiniteSet(C), NEW e
  PROVE  /\ SetToSeq(C) \in Seq(Contributions)
         /\ \A t : t \in MarkedIn(SetToSeq(C), e) <=> \E c \in C : c.effect = e /\ c.tool = t
<1> DEFINE list == SetToSeq(C)
<1>1. list \in Seq(C) /\ ToSet(list) = C
  BY ListOfSet
<1>2. list \in Seq(Contributions)
  BY <1>1, SeqMonotonic
<1> HIDE DEF list
<1>3. \A i \in DOMAIN list : list[i] \in C
  BY <1>1 DEF ToSet
<1>4. \A c \in C : \E i \in DOMAIN list : list[i] = c
  BY <1>1 DEF ToSet
<1>5. \A t : t \in MarkedIn(list, e) <=> \E c \in C : c.effect = e /\ c.tool = t
  BY <1>3, <1>4 DEF MarkedIn
<1> QED
  BY <1>2, <1>5 DEF list

(* A list of contributions, the tools it excludes and those it promotes.      *)
Marks(list, out, in) ==
    list \in Seq(Contributions) /\ MarkedIn(list, "exclude") = out /\ MarkedIn(list, "promote") = in

(* Two lists, one behind the other, mark what both do.                       *)
LEMMA BothMark ==
  ASSUME NEW w, NEW v, NEW out, NEW in, NEW more, NEW others,
         Marks(w, out, in), Marks(v, more, others)
  PROVE  Marks(w \o v, out \cup more, in \cup others)
<1>1. w \in Seq(Contributions) /\ v \in Seq(Contributions)
  BY DEF Marks
<1>2. w \o v \in Seq(Contributions)
  BY <1>1, MarkedBoth
<1>3. MarkedIn(w \o v, "exclude") = MarkedIn(w, "exclude") \cup MarkedIn(v, "exclude")
  BY <1>1, MarkedBoth
<1>4. MarkedIn(w \o v, "promote") = MarkedIn(w, "promote") \cup MarkedIn(v, "promote")
  BY <1>1, MarkedBoth
<1> QED
  BY <1>2, <1>3, <1>4 DEF Marks

(* Contributions of one effect, for the tools of a set.                      *)
LEMMA ContributionsOf ==
  ASSUME NEW names \in SUBSET Tools, NEW C \in SUBSET Contributions, NEW x, IsFiniteSet(C),
         \A c \in C : c.effect = x,
         \A c \in C : c.tool \in names,
         \A t \in names : \E c \in C : c.tool = t
  PROVE  Marks(SetToSeq(C), IF x = "exclude" THEN names ELSE {},
               IF x = "promote" THEN names ELSE {})
<1>1. \A t : t \in MarkedIn(SetToSeq(C), "exclude")
               <=> \E c \in C : c.effect = "exclude" /\ c.tool = t
  BY ListMarks
<1>2. \A t : t \in MarkedIn(SetToSeq(C), "promote")
               <=> \E c \in C : c.effect = "promote" /\ c.tool = t
  BY ListMarks
<1>3. MarkedIn(SetToSeq(C), "exclude") = IF x = "exclude" THEN names ELSE {}
  <2>1. CASE x = "exclude"
    BY <1>1, <2>1
  <2>2. CASE x # "exclude"
    BY <1>1, <2>2
  <2> QED
    BY <2>1, <2>2
<1>4. MarkedIn(SetToSeq(C), "promote") = IF x = "promote" THEN names ELSE {}
  BY <1>2
<1>5. SetToSeq(C) \in Seq(Contributions)
  BY ListMarks
<1> QED
  BY <1>3, <1>4, <1>5 DEF Marks

(* A contribution for every tool of a set, however each is scored.           *)
LEMMA EachProposed ==
  ASSUME NEW names \in SUBSET Tools, NEW score \in [names -> Levels \cup {0, 2, 3}],
         NEW x \in {"exclude", "promote", "score"}
  PROVE  Marks(SetToSeq({Contribution(t, score[t], x) : t \in names}),
               IF x = "exclude" THEN names ELSE {}, IF x = "promote" THEN names ELSE {})
<1> DEFINE proposed == {Contribution(t, score[t], x) : t \in names}
           by == [t \in names |-> Contribution(t, score[t], x)]
<1>1. \A t \in names : by[t].tool = t /\ by[t].effect = x /\ by[t] \in Contributions
  BY DEF Contribution, Contributions
<1>2. by \in Surjection(names, proposed)
  BY DEF Surjection
<1>3. \A c \in proposed : \E t \in names : c = by[t]
  OBVIOUS
<1>4. \A t \in names : by[t] \in proposed
  OBVIOUS
<1> HIDE DEF proposed, by
<1>5. IsFiniteSet(names)
  BY ToolsAssumption, FS_Subset
<1>6. IsFiniteSet(proposed)
  BY <1>2, <1>5, FS_Surjection
<1>7. /\ proposed \in SUBSET Contributions
      /\ \A c \in proposed : c.effect = x
      /\ \A c \in proposed : c.tool \in names
      /\ \A t \in names : \E c \in proposed : c.tool = t
  BY <1>1, <1>3, <1>4
<1>8. Marks(SetToSeq(proposed), IF x = "exclude" THEN names ELSE {},
            IF x = "promote" THEN names ELSE {})
  BY <1>6, <1>7, ContributionsOf
<1> QED
  BY <1>8 DEF proposed

(* A strategy's list has a contribution for every tool of its set.           *)
LEMMA ContributeGives ==
  ASSUME NEW names \in SUBSET Tools, NEW score \in Levels \cup {0, 2, 3},
         NEW x \in {"exclude", "promote", "score"}
  PROVE  Marks(Contribute(names, score, x),
               IF x = "exclude" THEN names ELSE {}, IF x = "promote" THEN names ELSE {})
<1> DEFINE same == [t \in names |-> score]
<1>1. same \in [names -> Levels \cup {0, 2, 3}]
  OBVIOUS
<1>2. {Contribution(t, same[t], x) : t \in names} = {Contribution(t, score, x) : t \in names}
  OBVIOUS
<1> HIDE DEF same
<1>3. Marks(SetToSeq({Contribution(t, same[t], x) : t \in names}),
            IF x = "exclude" THEN names ELSE {}, IF x = "promote" THEN names ELSE {})
  BY <1>1, EachProposed
<1> QED
  BY <1>2, <1>3 DEF Contribute

(* What the host's policy, its rules and the prompt mark.                    *)
LEMMA StrategiesMark ==
  ASSUME NEW out \in SUBSET Tools, NEW in \in SUBSET Tools
  PROVE  /\ Marks(Contribute(out, 0, "exclude") \o Contribute(in, 3, "promote"), out, in)
         /\ Marks(Contribute(in, 3, "promote") \o Contribute(out, 2, "score"), {}, in)
<1>1. Marks(Contribute(out, 0, "exclude"), out, {})
  BY ContributeGives
<1>2. Marks(Contribute(in, 3, "promote"), {}, in)
  BY ContributeGives
<1>3. Marks(Contribute(out, 2, "score"), {}, {})
  BY ContributeGives
<1>4. Marks(Contribute(out, 0, "exclude") \o Contribute(in, 3, "promote"), out \cup {}, {} \cup in)
  BY <1>1, <1>2, BothMark
<1>5. Marks(Contribute(in, 3, "promote") \o Contribute(out, 2, "score"), {} \cup {}, in \cup {})
  BY <1>2, <1>3, BothMark
<1>6. out \cup {} = out /\ {} \cup in = in /\ {} \cup {} = {} /\ in \cup {} = in
  OBVIOUS
<1> QED
  BY <1>4, <1>5, <1>6

(* The types of a turn, and what is among its tools.                         *)
LEMMA TurnTyped ==
  ASSUME turnOf \in Settings
  PROVE  /\ Agent \in SUBSET Tools /\ Excluded \in SUBSET Agent /\ Included \in SUBSET Agent
         /\ \A how, names : Mentioned(names, how) \subseteq names
         /\ turnOf.registry \in SUBSET Tools
         /\ turnOf.deny \in SUBSET Tools /\ turnOf.allow \in SUBSET Tools
         /\ MustShow \subseteq Agent /\ MustShow \cap Out = {} /\ Excluded \subseteq Out
<1>1. /\ turnOf.registry \in SUBSET Tools /\ turnOf.additional \in SUBSET Tools
      /\ turnOf.deny \in SUBSET Tools /\ turnOf.allow \in SUBSET Tools
      /\ turnOf.exclude \in SUBSET Tools /\ turnOf.include \in SUBSET Tools
  BY DEF Settings
<1>2. Agent \in SUBSET Tools
  BY <1>1 DEF Agent
<1> QED
  BY <1>1, <1>2 DEF Excluded, Included, Mentioned, MustShow, Out

(* A turn begins with what the host's policy and the prompt mark.            *)
LEMMA RoutingInitially ==
  ASSUME RoutingInit PROVE RouteIInv
<1>1. turnOf \in Settings
  BY TurnsAssumption DEF RoutingInit
<1>2. CASE turnOf.off
  <2>1. raw = <<>> /\ due = {}
    BY <1>2 DEF RoutingInit
  <2>2. raw \in Seq(Contributions)
    BY <2>1
  <2>3. RoutingTypeOK
    BY <1>1, <2>1, <2>2 DEF RoutingInit, RoutingTypeOK, NoTask, Offering!Names
  <2>4. StagesFollow
    BY DEF RoutingInit, StagesFollow, NoTask
  <2> QED
    BY <1>2, <2>1, <2>3, <2>4 DEF RouteIInv, MarksFollow
<1>3. CASE ~ turnOf.off
  <2> DEFINE exact == Mentioned(Agent, "exact")
             loose == Mentioned(Agent, "loose")
  <2>1. /\ Agent \in SUBSET Tools /\ Excluded \in SUBSET Tools /\ Included \in SUBSET Tools
        /\ exact \in SUBSET Tools /\ loose \in SUBSET Tools
    BY <1>1, TurnTyped
  <2>2. Marks(HostPolicy, Excluded, Included)
    BY <2>1, StrategiesMark DEF HostPolicy
  <2>3. Marks(NameMatch, {}, exact)
    BY <2>1, StrategiesMark DEF NameMatch
  <2>4. Marks(HostPolicy \o NameMatch, Excluded \cup {}, Included \cup exact)
    BY <2>2, <2>3, BothMark
  <2>9. raw = HostPolicy \o NameMatch
    BY <1>3 DEF RoutingInit
  <2>10. /\ raw \in Seq(Contributions)
         /\ MarkedIn(raw, "promote") = Included \cup exact /\ MarkedIn(raw, "exclude") = Excluded
    BY <2>4, <2>9 DEF Marks
  <2>11. Marked("exclude") = Excluded /\ Marked("promote") = Included \cup exact
    BY <2>10 DEF Marked, MarkedIn
  <2>12. RoutingTypeOK
    BY <1>1, <1>3, <2>10 DEF RoutingInit, RoutingTypeOK, NoTask, Offering!Names
  <2>13. StagesFollow
    BY DEF RoutingInit, StagesFollow, NoTask
  <2>14. MarksFollow
    BY <1>3, <2>1, <2>11 DEF RoutingInit, MarksFollow, Out, MustShow, Excluded, Included
  <2> QED
    BY <2>12, <2>13, <2>14 DEF RouteIInv
<1> QED
  BY <1>2, <1>3

(* The list of contributions grows by those of one strategy.                 *)
LEMMA RawGrows ==
  ASSUME RouteIInv, NEW list, NEW out \in SUBSET Agent, NEW in \in SUBSET Agent,
         Marks(list, out, in), raw' = raw \o list
  PROVE  /\ raw' \in Seq(Contributions)
         /\ Marked("exclude")' = Marked("exclude") \cup out
         /\ Marked("promote")' = Marked("promote") \cup in
<1>1. Marks(raw, Marked("exclude"), Marked("promote"))
  BY DEF RouteIInv, RoutingTypeOK, Marks, Marked, MarkedIn
<1>2. Marks(raw \o list, Marked("exclude") \cup out, Marked("promote") \cup in)
  BY <1>1, BothMark
<1>3. Marks(raw', Marked("exclude") \cup out, Marked("promote") \cup in)
  BY <1>2
<1>4. /\ raw' \in Seq(Contributions)
      /\ MarkedIn(raw', "exclude") = Marked("exclude") \cup out
      /\ MarkedIn(raw', "promote") = Marked("promote") \cup in
  BY <1>3 DEF Marks
<1>5. Marked("exclude")' = MarkedIn(raw', "exclude") /\ Marked("promote")' = MarkedIn(raw', "promote")
  BY DEF Marked, MarkedIn
<1> QED
  BY <1>4, <1>5

(* Whichever strategy answers, and whether it does, the marks follow.        *)
LEMMA SettlingKeeps ==
  ASSUME RouteIInv, HostRuleSettles \/ HostRuleFails \/ EmbeddingSettles
  PROVE  RouteIInv'
<1>1. /\ turnOf \in Settings /\ ~ turnOf.off /\ turnOf' = turnOf /\ routeStage' = routeStage
      /\ routeStage = "scoring"
      /\ visible' = visible /\ task' = task /\ offered' = offered
      /\ due' \in SUBSET {"host-rule", "descriptor-embedding"}
  BY DEF RouteIInv, RoutingTypeOK, MarksFollow, StagesFollow, HostRuleSettles, HostRuleFails,
         EmbeddingSettles, Settles
<1>2. /\ Agent \in SUBSET Tools /\ Excluded \in SUBSET Agent
      /\ turnOf.deny \cap Agent \in SUBSET Tools
      /\ (turnOf.allow \ turnOf.deny) \cap Agent \in SUBSET Tools
  BY <1>1, TurnTyped
<1>3. Agent' = Agent /\ Excluded' = Excluded /\ Included' = Included
  BY <1>1 DEF Agent, Excluded, Included
<1>4. StagesFollow'
  BY <1>1, <1>3 DEF RouteIInv, StagesFollow
<1>5. SUFFICES /\ raw' \in Seq(Contributions) /\ denySource' \in {"pending", "read", "failed"}
               /\ denySource' = "pending" <=> "host-rule" \in due'
               /\ Marked("exclude")' = (Out \cap Agent)'
               /\ (Marked("promote") \ Out)' = MustShow'
  BY <1>1, <1>3, <1>4 DEF RouteIInv, RoutingTypeOK, MarksFollow
<1>6. /\ denySource = "pending" <=> "host-rule" \in due
      /\ Marked("exclude") = Out \cap Agent /\ Marked("promote") \ Out = MustShow
  BY <1>1 DEF RouteIInv, MarksFollow
<1>7. \A how : Mentioned(Agent, how)' = Mentioned(Agent, how)
  BY <1>1, <1>3 DEF Mentioned
<1>8. CASE HostRuleSettles
  <2>1. Marks(HostRule, turnOf.deny \cap Agent, (turnOf.allow \ turnOf.deny) \cap Agent)
    BY <1>2, StrategiesMark DEF HostRule
  <2>2. /\ raw' = raw \o HostRule /\ denySource' = "read" /\ denySource = "pending"
        /\ "host-rule" \notin due'
    BY <1>6, <1>8 DEF HostRuleSettles, Settles
  <2>3. /\ raw' \in Seq(Contributions)
        /\ Marked("exclude")' = Marked("exclude") \cup (turnOf.deny \cap Agent)
        /\ Marked("promote")' = Marked("promote") \cup ((turnOf.allow \ turnOf.deny) \cap Agent)
    BY <2>1, <2>2, RawGrows
  <2>4. Out = Excluded /\ Out' = Excluded \cup turnOf.deny
    BY <1>1, <1>3, <2>2 DEF Out
  <2>5. MustShow = (Included \cup Mentioned(Agent, "exact")) \ Out
    BY <2>2 DEF MustShow
  <2>6. MustShow' = (Included \cup Mentioned(Agent, "exact") \cup (turnOf.allow \cap Agent)) \ Out'
    BY <1>1, <1>3, <1>7, <2>2 DEF MustShow
  <2> HIDE DEF Excluded, Included, Agent
  <2>7. Marked("exclude")' = (Out \cap Agent)'
    BY <1>3, <1>6, <2>3, <2>4
  <2>8. (Marked("promote") \ Out)' = MustShow'
    BY <1>6, <2>3, <2>4, <2>5, <2>6
  <2> QED
    BY <2>2, <2>3, <2>7, <2>8
<1>9. CASE HostRuleFails \/ EmbeddingSettles
  <2>1. \E list : /\ Marks(list, {}, {}) /\ raw' = raw \o list
                  /\ \/ denySource' = "failed" /\ denySource = "pending" /\ "host-rule" \notin due'
                     \/ denySource' = denySource /\ ("host-rule" \in due' <=> "host-rule" \in due)
    <3>1. CASE HostRuleFails
      <4>1. Marks(<<>>, {}, {})
        BY DEF Marks, MarkedIn
      <4> QED
        BY <1>6, <3>1, <4>1 DEF HostRuleFails, Settles
    <3>2. CASE EmbeddingSettles
      <4>0. PICK hits \in SUBSET Agent : \E score \in [hits -> Levels] :
               Settles("descriptor-embedding",
                       SetToSeq({Contribution(t, score[t], "score") : t \in hits}))
        BY <3>2 DEF EmbeddingSettles
      <4>1. PICK score \in [hits -> Levels] :
                    Settles("descriptor-embedding",
                            SetToSeq({Contribution(t, score[t], "score") : t \in hits}))
        BY <4>0
      <4>2. hits \in SUBSET Tools /\ score \in [hits -> Levels \cup {0, 2, 3}]
        BY <1>2
      <4>3. Marks(SetToSeq({Contribution(t, score[t], "score") : t \in hits}), {}, {})
        BY <4>2, EachProposed
      <4> QED
        BY <3>2, <4>1, <4>3 DEF EmbeddingSettles, Settles
    <3> QED
      BY <1>9, <3>1, <3>2
  <2>2. PICK list : /\ Marks(list, {}, {}) /\ raw' = raw \o list
                    /\ \/ denySource' = "failed" /\ denySource = "pending" /\ "host-rule" \notin due'
                       \/ denySource' = denySource /\ ("host-rule" \in due' <=> "host-rule" \in due)
    BY <2>1
  <2>3. /\ raw' \in Seq(Contributions)
        /\ Marked("exclude")' = Marked("exclude") \cup {}
        /\ Marked("promote")' = Marked("promote") \cup {}
    BY <2>2, RawGrows
  <2>4. denySource' = "read" <=> denySource = "read"
    BY <2>2
  <2>5. Out' = Out /\ MustShow' = MustShow
    BY <1>1, <1>3, <1>7, <2>4 DEF Out, MustShow
  <2>6. denySource' \in {"pending", "read", "failed"} /\ (denySource' = "pending" <=> "host-rule" \in due')
    BY <1>6, <2>2 DEF RouteIInv, RoutingTypeOK
  <2> HIDE DEF Out, MustShow
  <2> QED
    BY <1>3, <1>6, <2>3, <2>5, <2>6
<1> QED
  BY <1>8, <1>9

(* What is selected are tools of the turn, and none that is excluded.        *)
LEMMA SelectionIs ==
  ASSUME RouteIInv
  PROVE  Selection \subseteq Agent /\ (~ turnOf.off /\ raw # <<>> => Selection \cap Excluded = {})
<1>1. turnOf \in Settings
  BY DEF RouteIInv, RoutingTypeOK
<1>2. Excluded \subseteq Agent /\ Excluded \subseteq Out
  BY <1>1, TurnTyped
<1>3. ~ turnOf.off => Excluded \subseteq Marked("exclude")
  BY <1>2 DEF RouteIInv, MarksFollow
<1>4. \A set, k : Best(set, k) \subseteq set
  BY DEF Best
<1>5. /\ Candidates.promoted = ((ToolsIn(raw) \cap Agent) \ Marked("exclude")) \cap Marked("promote")
      /\ Candidates.ranked = ((ToolsIn(raw) \cap Agent) \ Marked("exclude")) \ Marked("promote")
  BY DEF Candidates
<1>6. turnOf.expand => /\ Expanded(Candidates.promoted) \subseteq Agent
                       /\ Expanded(Candidates.promoted) \cap Excluded = {}
  BY DEF Expanded
<1>7. \/ raw = <<>> /\ Selection = Agent
      \/ raw # <<>> /\ Selection = Candidates.promoted \cup Best(Candidates.ranked, TopK)
                          \cup (IF turnOf.expand THEN Expanded(Candidates.promoted) ELSE {})
  BY DEF Selection
<1>8. Best(Candidates.ranked, TopK) \subseteq Candidates.ranked
  BY <1>4
<1> QED
  BY <1>3, <1>5, <1>6, <1>7, <1>8

(* Nothing is proposed only when nothing is excluded.                        *)
LEMMA NothingMarked ==
  ASSUME RouteIInv, ~ turnOf.off, raw = <<>> PROVE Out \cap Agent = {} /\ MustShow = {}
<1>1. Marked("exclude") = {} /\ Marked("promote") = {}
  BY DEF Marked
<1> QED
  BY <1>1 DEF RouteIInv, MarksFollow

(* The selection is made.                                                    *)
LEMMA SelectKeeps ==
  ASSUME RouteIInv, Select PROVE RouteIInv'
<1>1. /\ turnOf' = turnOf /\ due' = due /\ denySource' = denySource /\ raw' = raw
      /\ task' = task /\ offered' = offered /\ due = {} /\ routeStage' = "selected"
      /\ visible' = Selection
  BY DEF Select
<1>2. Selection \subseteq Agent
  BY SelectionIs
<1>3. /\ Agent' = Agent /\ Excluded' = Excluded /\ Selection' = Selection
      /\ MarksFollow' = MarksFollow
  BY <1>1 DEF Agent, Excluded, Included, Selection, Candidates, ToolsIn, Marked, Best, Before, Score,
              FirstAt, Expanded, MarksFollow, Out, MustShow, Mentioned
<1> QED
  BY <1>1, <1>2, <1>3 DEF RouteIInv, RoutingTypeOK, StagesFollow, Select

(* The task names tools of the turn only, and none that is excluded.         *)
LEMMA RouteKeeps ==
  ASSUME RouteIInv, Route PROVE RouteIInv'
<1>1. /\ turnOf' = turnOf /\ due' = due /\ denySource' = denySource /\ raw' = raw
      /\ visible' = visible /\ offered' = offered /\ routeStage = "selected" /\ routeStage' = "routed"
      /\ task' = IF turnOf.agent THEN [kind |-> "agents", names |-> {}]
                 ELSE [kind |-> "loop", names |-> NamesOfTask]
  BY DEF Route
<1>2. /\ turnOf \in Settings /\ visible = Selection /\ visible \subseteq Agent /\ due = {}
      /\ offered = {} /\ Offering!Names(offered) = {}
  BY <1>1 DEF RouteIInv, RoutingTypeOK, StagesFollow, Offering!Names
<1>3. /\ Agent' = Agent /\ Excluded' = Excluded /\ Selection' = Selection
      /\ MarksFollow' = MarksFollow
  BY <1>1 DEF Agent, Excluded, Included, Selection, Candidates, ToolsIn, Marked, Best, Before, Score,
              FirstAt, Expanded, MarksFollow, Out, MustShow, Mentioned
<1>4. ~ turnOf.off => visible \cap Excluded = {}
  <2>1. Excluded \subseteq Out \cap Agent
    BY <1>2, TurnTyped
  <2> QED
    BY <1>2, <2>1, SelectionIs, NothingMarked
<1>5. \A how : Mentioned(visible, how) \subseteq visible
  BY <1>2, TurnTyped
<1>6. \A names \in SUBSET visible :
         /\ Expanded(names) \subseteq Agent
         /\ ~ turnOf.off => Expanded(names) \cap Excluded = {}
  BY <1>2, <1>4 DEF Expanded
<1>7. NamesOfTask \subseteq Agent /\ (~ turnOf.off => NamesOfTask \cap Excluded = {})
  <2> DEFINE explicit == (turnOf.explicit \cap visible)
                           \cup Mentioned(visible, "exact") \cup Mentioned(visible, "loose")
  <2>1. explicit \in SUBSET visible /\ Included \cap visible \in SUBSET visible
    BY <1>5
  <2>2. \/ NamesOfTask = Expanded(explicit) \/ NamesOfTask = Expanded(Included \cap visible)
        \/ NamesOfTask = {RunShell} /\ RunShell \in visible
        \/ NamesOfTask = {}
    BY DEF NamesOfTask
  <2> HIDE DEF explicit
  <2> QED
    BY <1>2, <1>4, <1>6, <2>1, <2>2
<1>8. Agent \in SUBSET Tools
  BY <1>2, TurnTyped
<1>9. /\ task'.kind \in {"none", "agents", "loop"} /\ task'.names \subseteq Agent
      /\ ~ turnOf.off => task'.names \cap Excluded = {}
  BY <1>1, <1>7
<1>10. Offering!Names(offered)' = {}
  BY <1>1, <1>2 DEF Offering!Names
<1> QED
  BY <1>1, <1>2, <1>3, <1>8, <1>9, <1>10 DEF RouteIInv, RoutingTypeOK, StagesFollow

(* The definitions there are have names of tools or of the engine's own, and *)
(* the filter leaves those a task names.                                     *)
LEMMA OfferedNames ==
  ASSUME NEW prompt, NEW registry \in SUBSET Tools, NEW names,
         Offering!Names(prompt) \subseteq Tools
  PROVE  LET defs == Offering!Offered(prompt, registry, names, {}, 0, 1) IN
         /\ Offering!Names(defs) \subseteq Tools \cup Offering!Internal
         /\ names # {} => Offering!Names(defs) \subseteq names
<1> DEFINE From(defs) == Offering!Filtered(
                            Offering!WithDispatch(Offering!WithInternal(defs), {}, 0, 1), names)
           reg == Offering!Defined(registry, "registry")
<1>1. \A defs : Offering!WithDispatch(Offering!WithInternal(defs), {}, 0, 1)
                   = Offering!WithInternal(defs)
  BY DEF Offering!WithDispatch
<1>2. ASSUME NEW defs, Offering!Names(defs) \subseteq Tools
      PROVE  Offering!Names(Offering!WithInternal(defs)) \subseteq Tools \cup Offering!Internal
  BY <1>2 DEF Offering!WithInternal, Offering!Adding, Offering!Names, Offering!Defined
<1>3. ASSUME NEW defs
      PROVE  /\ Offering!Names(Offering!Filtered(defs, names)) \subseteq Offering!Names(defs)
             /\ names # {} => Offering!Names(Offering!Filtered(defs, names)) \subseteq names
  BY DEF Offering!Names, Offering!Filtered
<1>4. Offering!Names(reg) \subseteq Tools
  BY DEF Offering!Names, Offering!Defined
<1>5. Offering!Offered(prompt, registry, names, {}, 0, 1)
         = IF From(prompt) # {} THEN From(prompt) ELSE From(reg)
  BY DEF Offering!Offered
<1> HIDE DEF reg
<1>6. ASSUME NEW defs, Offering!Names(defs) \subseteq Tools
      PROVE  /\ Offering!Names(From(defs)) \subseteq Tools \cup Offering!Internal
             /\ names # {} => Offering!Names(From(defs)) \subseteq names
  BY <1>1, <1>2, <1>3, <1>6
<1> QED
  BY <1>4, <1>5, <1>6

(* The loop of the task offers.                                              *)
LEMMA LoopOffersKeeps ==
  ASSUME RouteIInv, LoopOffers PROVE RouteIInv'
<1>1. /\ turnOf' = turnOf /\ due' = due /\ denySource' = denySource /\ raw' = raw
      /\ visible' = visible /\ task' = task /\ routeStage = "routed" /\ routeStage' = "offered"
  BY DEF LoopOffers
<1>2. PICK kept \in SUBSET Agent :
         offered' = Offering!Offered(Offering!Defined(kept, "prompt"), turnOf.registry,
                                     task.names, {}, 0, 1)
  BY DEF LoopOffers
<1>3. turnOf \in Settings
  BY DEF RouteIInv, RoutingTypeOK
<1>4. /\ Agent \in SUBSET Tools /\ turnOf.registry \in SUBSET Tools
      /\ Offering!Names(Offering!Defined(kept, "prompt")) \subseteq Tools
  BY <1>3, TurnTyped DEF Offering!Names, Offering!Defined
<1>5. /\ Offering!Names(offered') \subseteq Tools \cup Offering!Internal
      /\ task.names # {} => Offering!Names(offered') \subseteq task.names
  BY <1>2, <1>4, OfferedNames
<1>6. Offering!Names(offered)' = Offering!Names(offered') /\ Offering!Internal' = Offering!Internal
  BY DEF Offering!Names, Offering!Internal
<1>7. /\ Agent' = Agent /\ Excluded' = Excluded /\ Selection' = Selection
      /\ MarksFollow' = MarksFollow
  BY <1>1 DEF Agent, Excluded, Included, Selection, Candidates, ToolsIn, Marked, Best, Before, Score,
              FirstAt, Expanded, MarksFollow, Out, MustShow, Mentioned
<1> QED
  BY <1>1, <1>5, <1>6, <1>7 DEF RouteIInv, RoutingTypeOK, StagesFollow

(* A step of another part leaves the routing as it is.                       *)
LEMMA RoutingStays ==
  ASSUME RouteIInv, UNCHANGED routingVars PROVE RouteIInv'
<1>1. /\ turnOf' = turnOf /\ routeStage' = routeStage /\ due' = due
      /\ denySource' = denySource /\ raw' = raw
      /\ visible' = visible /\ task' = task /\ offered' = offered
  BY DEF routingVars
<1>2. /\ Agent' = Agent /\ Excluded' = Excluded /\ Selection' = Selection
      /\ MarksFollow' = MarksFollow
  BY <1>1 DEF Agent, Excluded, Included, Selection, Candidates, ToolsIn, Marked, Best, Before, Score,
              FirstAt, Expanded, MarksFollow, Out, MustShow, Mentioned
<1>3. Offering!Names(offered)' = Offering!Names(offered) /\ Offering!Internal' = Offering!Internal
  BY <1>1 DEF Offering!Names, Offering!Internal
<1> QED
  BY <1>1, <1>2, <1>3 DEF RouteIInv, RoutingTypeOK, StagesFollow

(* What has been proposed has a best score and a first place, its own.       *)
LEMMA RanksAre ==
  ASSUME raw \in Seq(Contributions), NEW t \in ToolsIn(raw)
  PROVE  /\ Score(t) \in Nat
         /\ FirstAt(t) \in Nat /\ FirstAt(t) \in DOMAIN raw /\ raw[FirstAt(t)].tool = t
<1> DEFINE at == {j \in DOMAIN raw : raw[j].tool = t}
           scores == {raw[i].score : i \in at}
<1>1. /\ Len(raw) \in Nat /\ DOMAIN raw = 1 .. Len(raw)
      /\ \A i \in DOMAIN raw : raw[i] \in Contributions
  BY LenProperties, ElementOfSeq
<1>2. at # {} /\ at \in SUBSET Nat /\ at \subseteq DOMAIN raw
  BY <1>1 DEF ToolsIn
<1>a. Levels \cup {0, 2, 3} \subseteq Nat
  BY RankAssumption
<1>b. \A c \in Contributions : c.score \in Levels \cup {0, 2, 3}
  BY DEF Contributions
<1>3. \A i \in at : raw[i].score \in Nat
  BY <1>1, <1>2, <1>a, <1>b
<1>4. Score(t) = Max(scores) /\ FirstAt(t) = Min(at)
  BY DEF Score, FirstAt
<1>5. \A i \in at : raw[i].tool = t
  OBVIOUS
<1> HIDE DEF at
<1>6. IsFiniteSet(1 .. Len(raw))
  BY <1>1, FS_Interval
<1>7. IsFiniteSet(at)
  BY <1>1, <1>2, <1>6, FS_Subset
<1> DEFINE by == [i \in at |-> raw[i].score]
<1>8. by \in Surjection(at, scores)
  BY DEF Surjection
<1>9. scores # {} /\ scores \in SUBSET Nat
  BY <1>2, <1>3
<1> HIDE DEF by, scores
<1>10. IsFiniteSet(scores)
  BY <1>7, <1>8, FS_Surjection
<1>11. Max(scores) \in Nat
  BY <1>9, <1>10, LargestOf
<1>12. Min(at) \in at
  BY <1>2, SmallestOf
<1> QED
  BY <1>2, <1>4, <1>5, <1>11, <1>12

(* The order by rank is strict, and of any two one comes before the other.   *)
LEMMA RankOrders ==
  ASSUME raw \in Seq(Contributions), NEW S \in SUBSET ToolsIn(raw)
  PROVE  /\ \A t \in S : ~ Before(t, t)
         /\ \A t, u \in S : t # u => Before(t, u) \/ Before(u, t)
         /\ \A t, u, v \in S : Before(t, u) /\ Before(u, v) => Before(t, v)
<1>1. ASSUME NEW t \in S
      PROVE  /\ Score(t) \in Nat
             /\ FirstAt(t) \in Nat /\ raw[FirstAt(t)].tool = t
  BY RanksAre
<1>2. ASSUME NEW t \in S PROVE ~ Before(t, t)
  BY <1>1 DEF Before
<1>3. ASSUME NEW t \in S, NEW u \in S, t # u PROVE Before(t, u) \/ Before(u, t)
  <2>1. FirstAt(t) # FirstAt(u)
    BY <1>1, <1>3
  <2>2. Score(t) \in Nat /\ Score(u) \in Nat /\ FirstAt(t) \in Nat /\ FirstAt(u) \in Nat
    BY <1>1
  <2> QED
    BY <2>1, <2>2 DEF Before
<1>4. ASSUME NEW t \in S, NEW u \in S, NEW v \in S, Before(t, u), Before(u, v)
      PROVE  Before(t, v)
  <2>1. /\ Score(t) \in Nat /\ Score(u) \in Nat /\ Score(v) \in Nat
        /\ FirstAt(t) \in Nat /\ FirstAt(u) \in Nat /\ FirstAt(v) \in Nat
    BY <1>1
  <2> QED
    BY <1>4, <2>1 DEF Before
<1> QED
  BY <1>2, <1>3, <1>4

(* The best are not too many, and what is not among them scores no better.   *)
LEMMA BestAre ==
  ASSUME raw \in Seq(Contributions), NEW S \in SUBSET (ToolsIn(raw) \cap Tools)
  PROVE  /\ IsFiniteSet(Best(S, TopK)) /\ Cardinality(Best(S, TopK)) <= TopK
         /\ \A t \in S \ Best(S, TopK), u \in Best(S, TopK) : Score(t) <= Score(u)
<1>1. IsFiniteSet(S) /\ TopK \in Nat
  BY ToolsAssumption, RankAssumption, FS_Subset
<1> DEFINE order == {p \in S \X S : Before(p[1], p[2])}
<1>2. \A t, u \in S : <<t, u>> \in order <=> Before(t, u)
  OBVIOUS
<1>3. /\ \A t \in S : <<t, t>> \notin order
      /\ \A t, u \in S : t # u => <<t, u>> \in order \/ <<u, t>> \in order
      /\ \A t, u, v \in S : <<t, u>> \in order /\ <<u, v>> \in order => <<t, v>> \in order
  BY <1>2, RankOrders
<1>4. order \in SUBSET (S \X S)
  OBVIOUS
<1> HIDE DEF order
<1>5. \A t \in S : {u \in S : <<u, t>> \in order} = {u \in S : Before(u, t)}
  BY <1>2
<1>6. Best(S, TopK) = {t \in S : Cardinality({u \in S : <<u, t>> \in order}) < TopK}
  BY <1>5 DEF Best
<1>c. StrictOrder(order, S)
  BY <1>3, <1>4 DEF StrictOrder
<1>7. Cardinality({t \in S : Cardinality({u \in S : <<u, t>> \in order}) < TopK}) <= TopK
  BY <1>1, <1>c, FewAreBest
<1>8. IsFiniteSet(Best(S, TopK))
  BY <1>1, FS_Subset DEF Best
<1>9. ASSUME NEW t \in S \ Best(S, TopK), NEW u \in Best(S, TopK) PROVE Score(t) <= Score(u)
  <2>1. u \in S /\ Score(t) \in Nat /\ Score(u) \in Nat
    BY RanksAre DEF Best
  <2>2. SUFFICES ASSUME Score(t) > Score(u) PROVE FALSE
    BY <2>1
  <2>3. Before(t, u)
    BY <2>2 DEF Before
  <2>4. {v \in S : Before(v, t)} \subseteq {v \in S : Before(v, u)}
    BY <2>1, <2>3, RankOrders
  <2> DEFINE ahead == {v \in S : Before(v, t)}
             more == {v \in S : Before(v, u)}
  <2>5. ~ Cardinality(ahead) < TopK /\ Cardinality(more) < TopK
    BY DEF Best
  <2>6. IsFiniteSet(ahead) /\ IsFiniteSet(more)
    BY <1>1, FS_Subset
  <2>7. ahead \subseteq more
    BY <2>4
  <2> HIDE DEF ahead, more
  <2>8. Cardinality(ahead) \in Nat /\ Cardinality(more) \in Nat
    BY <2>6, FS_CardinalityType
  <2>9. Cardinality(ahead) <= Cardinality(more)
    BY <2>6, <2>7, FS_Subset
  <2> QED
    BY <1>1, <2>5, <2>8, <2>9
<1> QED
  BY <1>6, <1>7, <1>8, <1>9

(* What the marks say of the selection.                                      *)
LEMMA SelectionFollows ==
  ASSUME RouteIInv, routeStage \in {"routed", "offered"} PROVE SelectionSound
<1>1. /\ turnOf \in Settings /\ raw \in Seq(Contributions) /\ visible = Selection
  BY DEF RouteIInv, RoutingTypeOK, StagesFollow
<1>2. CASE raw = <<>>
  BY <1>1, <1>2 DEF SelectionSound, Selection
<1>3. CASE raw # <<>>
  <2>1. ~ turnOf.off
    BY <1>3 DEF RouteIInv, MarksFollow
  <2>2. Marked("exclude") = Out \cap Agent /\ Marked("promote") \ Out = MustShow
    BY <2>1 DEF RouteIInv, MarksFollow
  <2>3. /\ Agent \in SUBSET Tools /\ MustShow \subseteq Agent /\ MustShow \cap Out = {}
        /\ Excluded \subseteq Agent
    BY <1>1, TurnTyped
  <2>4. \A e : Marked(e) \subseteq ToolsIn(raw)
    BY DEF Marked, ToolsIn
  <2> DEFINE ranked == (ToolsIn(raw) \cap Agent) \ (Out \cup MustShow)
             also == IF turnOf.expand THEN Expanded(MustShow) ELSE {}
             shown == visible \ (MustShow \cup also)
  <2>5. Candidates.promoted = MustShow
    BY <2>2, <2>3, <2>4 DEF Candidates
  <2>6. Candidates.ranked = ranked
    BY <2>2, <2>3, <2>4 DEF Candidates
  <2>7. visible = MustShow \cup Best(ranked, TopK) \cup also
    BY <1>1, <1>3, <2>5, <2>6 DEF Selection
  <2>8. ranked \in SUBSET (ToolsIn(raw) \cap Tools)
    BY <2>3
  <2>9. visible \cap Excluded = {}
    BY <1>1, <1>3, <2>1, SelectionIs
  <2>10. ~ turnOf.expand => visible \cap Out = {}
    <3>1. Best(ranked, TopK) \subseteq ranked
      BY DEF Best
    <3> QED
      BY <2>3, <2>7, <3>1
  <2> HIDE DEF ranked, also
  <2>11. /\ IsFiniteSet(Best(ranked, TopK)) /\ Cardinality(Best(ranked, TopK)) <= TopK
         /\ \A t \in ranked \ Best(ranked, TopK), u \in Best(ranked, TopK) : Score(t) <= Score(u)
    BY <1>1, <2>8, BestAre
  <2>12. shown \subseteq Best(ranked, TopK)
    BY <2>7
  <2>13. Cardinality(shown) <= TopK
    <3>1. IsFiniteSet(shown) /\ Cardinality(shown) <= Cardinality(Best(ranked, TopK))
      BY <2>11, <2>12, FS_Subset
    <3> HIDE DEF shown
    <3>2. Cardinality(shown) \in Nat /\ Cardinality(Best(ranked, TopK)) \in Nat /\ TopK \in Nat
      BY <2>11, <3>1, FS_CardinalityType, RankAssumption
    <3> QED
      BY <2>11, <3>1, <3>2
  <2>14. \A t \in ranked \ visible, u \in shown : Score(t) <= Score(u)
    BY <2>7, <2>11, <2>12
  <2>15. MustShow \subseteq visible
    BY <2>7
  <2> QED
    BY <1>3, <2>9, <2>10, <2>13, <2>14, <2>15 DEF SelectionSound, ranked, also
<1> QED
  BY <1>2, <1>3

(* What is promised of a routed turn.                                        *)
LEMMA RouteFollows == RouteIInv => RouteSound
<1> SUFFICES ASSUME RouteIInv PROVE RouteSound
  OBVIOUS
<1>1. routeStage \in {"routed", "offered"} => SelectionSound
  BY SelectionFollows
<1>2. /\ task.names \subseteq Agent
      /\ ~ turnOf.off => task.names \cap Excluded = {}
      /\ task.names # {} => Offering!Names(offered) \subseteq task.names
  BY DEF RouteIInv, StagesFollow
<1> QED
  BY <1>1, <1>2 DEF RouteSound

(* Each step of the routing keeps its invariant.                             *)
LEMMA RoutingKeeps ==
  ASSUME RouteIInv, RoutingNext PROVE RouteIInv'
BY SettlingKeeps, SelectKeeps, RouteKeeps, LoopOffersKeeps DEF RoutingNext

-----------------------------------------------------------------------------
(* The checks.  How often a value is in a sequence.                          *)
At(w, p) == {i \in DOMAIN w : w[i] = p}

(* It is there a number of times.                                            *)
LEMMA AtIsFinite ==
  ASSUME NEW S, NEW w \in Seq(S), NEW p
  PROVE  IsFiniteSet(At(w, p)) /\ Cardinality(At(w, p)) \in Nat
<1>1. Len(w) \in Nat /\ DOMAIN w = 1 .. Len(w)
  BY LenProperties
<1>2. IsFiniteSet(1 .. Len(w))
  BY <1>1, FS_Interval
<1>3. At(w, p) \subseteq 1 .. Len(w)
  BY <1>1 DEF At
<1> QED
  BY <1>2, <1>3, FS_Subset, FS_CardinalityType

(* An element more.                                                          *)
LEMMA CountAppend ==
  ASSUME NEW S, NEW w \in Seq(S), NEW x \in S, NEW p
  PROVE  Cardinality(At(Append(w, x), p)) = Cardinality(At(w, p)) + (IF x = p THEN 1 ELSE 0)
<1> DEFINE v == Append(w, x)
           n == Len(w)
<1>1. /\ n \in Nat /\ DOMAIN w = 1 .. n /\ v \in Seq(S) /\ Len(v) = n + 1
      /\ \A i \in 1 .. n : v[i] = w[i]
      /\ v[n + 1] = x
  BY AppendProperties, LenProperties
<1>2. DOMAIN v = 1 .. n + 1
  BY <1>1, LenProperties
<1> HIDE DEF v, n
<1>3. At(v, p) = IF x = p THEN At(w, p) \cup {n + 1} ELSE At(w, p)
  BY <1>1, <1>2 DEF At
<1>4. n + 1 \notin At(w, p)
  BY <1>1 DEF At
<1>5. IsFiniteSet(At(w, p)) /\ Cardinality(At(w, p)) \in Nat
  BY AtIsFinite
<1>6. Cardinality(At(w, p) \cup {n + 1}) = Cardinality(At(w, p)) + 1
  BY <1>4, <1>5, FS_AddElement
<1> QED
  BY <1>3, <1>5, <1>6 DEF v

(* An element less.                                                          *)
LEMMA CountRemoved ==
  ASSUME NEW S, NEW w \in Seq(S), NEW k \in DOMAIN w, NEW p
  PROVE  Cardinality(At(w, p)) = Cardinality(At(RemoveAt(w, k), p)) + (IF w[k] = p THEN 1 ELSE 0)
<1> DEFINE v == RemoveAt(w, k)
           n == Len(w)
           back(i) == IF i < k THEN i ELSE i + 1
           forth(j) == IF j < k THEN j ELSE j - 1
<1>1. /\ n \in Nat /\ DOMAIN w = 1 .. n /\ k \in 1 .. n
      /\ v \in Seq(S) /\ Len(v) = n - 1
      /\ \A i \in 1 .. n - 1 : v[i] = w[back(i)]
  BY RemoveAtProperties, LenProperties
<1>2. DOMAIN v = 1 .. n - 1
  BY <1>1, LenProperties
<1> HIDE DEF v, n
<1>3. /\ \A i \in 1 .. n - 1 : back(i) \in 1 .. n /\ back(i) # k /\ forth(back(i)) = i
      /\ \A j \in 1 .. n : j # k => forth(j) \in 1 .. n - 1 /\ back(forth(j)) = j
  BY <1>1
<1> DEFINE A == At(v, p)
           B == At(w, p) \ {k}
           f == [i \in A |-> back(i)]
<1>4. A \subseteq 1 .. n - 1 /\ B \subseteq 1 .. n
  BY <1>1, <1>2 DEF At
<1>5. \A i \in A : back(i) \in B
  BY <1>1, <1>2, <1>3 DEF At
<1>6. \A j \in B : forth(j) \in A
  BY <1>1, <1>2, <1>3 DEF At
<1> HIDE DEF A, B
<1>7. f \in [A -> B]
  BY <1>5
<1>8. \A i, j \in A : back(i) = back(j) => i = j
  BY <1>1, <1>4
<1>9. \A j \in B : back(forth(j)) = j
  BY <1>1, <1>3, <1>4 DEF B
<1> HIDE DEF back, forth
<1>10. \A j \in B : \E i \in A : f[i] = j
  BY <1>6, <1>9
<1>11. f \in Bijection(A, B)
  BY <1>7, <1>8, <1>10 DEF Bijection, Injection, Surjection, IsInjective
<1>12. ExistsBijection(A, B)
  BY <1>11 DEF ExistsBijection
<1>13. IsFiniteSet(A) /\ Cardinality(A) \in Nat
  BY <1>1, AtIsFinite DEF A
<1>14. Cardinality(B) = Cardinality(A)
  BY <1>12, <1>13, FS_Bijection
<1>15. IsFiniteSet(At(w, p)) /\ Cardinality(At(w, p)) \in Nat
  BY AtIsFinite
<1>16. Cardinality(B) = IF k \in At(w, p) THEN Cardinality(At(w, p)) - 1 ELSE Cardinality(At(w, p))
  BY <1>15, FS_RemoveElement DEF B
<1>17. k \in At(w, p) <=> w[k] = p
  BY DEF At
<1> QED
  BY <1>13, <1>14, <1>15, <1>16, <1>17 DEF A, v

(* Of two sequences, one behind the other.                                   *)
LEMMA CountBoth ==
  ASSUME NEW S, NEW w \in Seq(S), NEW v \in Seq(S), NEW p
  PROVE  Cardinality(At(w \o v, p)) = Cardinality(At(w, p)) + Cardinality(At(v, p))
<1> DEFINE u == w \o v
           n == Len(w)
           m == Len(v)
<1>1. /\ u \in Seq(S) /\ n \in Nat /\ m \in Nat
      /\ DOMAIN w = 1 .. n /\ DOMAIN v = 1 .. m
      /\ DOMAIN u = 1 .. n + m
      /\ \A i \in DOMAIN w : u[i] = w[i]
      /\ \A i \in DOMAIN v : u[n + i] = v[i]
  BY ConcatAt
<1> DEFINE A == At(v, p)
           B == {n + i : i \in A}
           f == [i \in A |-> n + i]
<1> HIDE DEF u, n, m
<1>2. A \subseteq 1 .. m
  BY <1>1 DEF At
<1>3. At(u, p) = At(w, p) \cup B
  <2>1. ASSUME NEW i \in At(u, p) PROVE i \in At(w, p) \cup B
    <3>1. i \in 1 .. n + m /\ u[i] = p
      BY <1>1 DEF At
    <3>2. CASE i \in 1 .. n
      BY <1>1, <3>1, <3>2 DEF At
    <3>3. CASE i \notin 1 .. n
      <4>1. i - n \in 1 .. m /\ i = n + (i - n)
        BY <1>1, <3>1, <3>3
      <4>2. u[n + (i - n)] = v[i - n]
        BY <1>1, <4>1
      <4>3. i - n \in A
        BY <1>1, <3>1, <4>1, <4>2 DEF At
      <4> QED
        BY <4>1, <4>3
    <3> QED
      BY <3>2, <3>3
  <2>2. ASSUME NEW i \in At(w, p) PROVE i \in At(u, p)
    BY <1>1 DEF At
  <2>3. ASSUME NEW i \in A PROVE n + i \in At(u, p)
    BY <1>1 DEF At
  <2> QED
    BY <2>1, <2>2, <2>3
<1>4. At(w, p) \cap B = {}
  BY <1>1, <1>2 DEF At
<1> HIDE DEF A
<1>5. \A i, j \in A : n + i = n + j => i = j
  BY <1>1, <1>2
<1>6. \A j \in B : \E i \in A : f[i] = j
  OBVIOUS
<1>7. f \in [A -> B]
  OBVIOUS
<1> HIDE DEF B
<1>8. f \in Bijection(A, B)
  BY <1>5, <1>6, <1>7 DEF Bijection, Injection, Surjection, IsInjective
<1>9. ExistsBijection(A, B)
  BY <1>8 DEF ExistsBijection
<1>10. IsFiniteSet(A) /\ Cardinality(A) \in Nat
  BY AtIsFinite DEF A
<1>11. IsFiniteSet(B) /\ Cardinality(B) = Cardinality(A)
  BY <1>9, <1>10, FS_Bijection
<1>12. IsFiniteSet(At(w, p)) /\ Cardinality(At(w, p)) \in Nat
  BY AtIsFinite
<1>13. /\ Cardinality(At(w, p) \cup B)
            = Cardinality(At(w, p)) + Cardinality(B) - Cardinality(At(w, p) \cap B)
  BY <1>11, <1>12, FS_Union
<1>14. Cardinality(At(w, p) \cap B) = 0
  BY <1>4, FS_EmptySet
<1> QED
  BY <1>3, <1>10, <1>11, <1>12, <1>13, <1>14 DEF A, u

(* The warnings of what is heard add up.                                     *)
LEMMA WarningsAdd ==
  ASSUME NEW w \in Seq(Severities), NEW v \in Seq(Severities)
  PROVE  Warnings(w \o v) = Warnings(w) + Warnings(v) /\ Warnings(w) \in Nat
<1>1. \A list : Warnings(list) = Cardinality(At(list, "warning"))
  BY DEF Warnings, At
<1> QED
  BY <1>1, CountBoth, AtIsFinite

(* The policies that are in the list.                                        *)
LEMMA ListFinite ==
  ASSUME NEW S, NEW w \in Seq(S)
  PROVE  IsFiniteSet(ToSet(w)) /\ ToSet(w) \subseteq S
<1>1. Len(w) \in Nat /\ DOMAIN w = 1 .. Len(w) /\ \A i \in DOMAIN w : w[i] \in S
  BY LenProperties, ElementOfSeq
<1> DEFINE f == [i \in DOMAIN w |-> w[i]]
<1>2. f \in Surjection(DOMAIN w, ToSet(w))
  BY DEF Surjection, ToSet
<1>3. IsFiniteSet(DOMAIN w)
  BY <1>1, FS_Interval
<1> HIDE DEF f
<1>4. IsFiniteSet(ToSet(w))
  BY <1>2, <1>3, FS_Surjection
<1> QED
  BY <1>1, <1>4 DEF ToSet

(* The policies from a place on.                                             *)
Behind(from) == {policies[i] : i \in {j \in DOMAIN policies : j >= from}}

(* What a check misses from there on is within its moves.                     *)
Missing(k, from) == Cardinality(Missed(k) \ Behind(from)) <= k.shifts

(* The walk goes on to the next policy in scope.                              *)
LEMMA WalkGoesOn ==
  ASSUME policies \in Seq(Policies), NEW from \in Nat \ {0}, NEW k \in CheckStates,
         k.since \subseteq ToSet(policies), Missing(k, from),
         k.asked \subseteq InScope
  PROVE  LET n == Walked(k, from) IN
         /\ n \in CheckStates
         /\ n.at \in {"passed", "asking"} /\ n.heard = k.heard /\ n.told = k.told
         /\ n.error = k.error /\ n.since = k.since /\ n.shifts = k.shifts
         /\ n.asked \subseteq InScope
         /\ n.at = "passed" => Cardinality(Missed(n)) <= n.shifts
         /\ n.at = "asking" => Cardinality(Missed(n) \ Ahead(n)) <= n.shifts
<1> DEFINE ahead == {i \in from .. Len(policies) : policies[i] \in InScope}
           n == Walked(k, from)
           m == Min(ahead)
<1>1. Len(policies) \in Nat /\ DOMAIN policies = 1 .. Len(policies)
  BY LenProperties
<1>2. \A i \in DOMAIN policies : policies[i] \in Policies
  BY ElementOfSeq
<1>3. k.shifts \in Nat /\ IsFiniteSet(k.since)
  BY ListFinite, FS_Subset DEF CheckStates
<1>4. IsFiniteSet(Missed(k) \ Behind(from)) /\ Cardinality(Missed(k) \ Behind(from)) \in Nat
  <2>1. Missed(k) \ Behind(from) \subseteq k.since
    BY DEF Missed
  <2> QED
    BY <1>3, <2>1, FS_Subset, FS_CardinalityType
<1>5. Cardinality(Missed(k) \ Behind(from)) <= k.shifts
  BY DEF Missing
<1>6. \A T : T \subseteq Missed(k) \ Behind(from) => Cardinality(T) <= k.shifts
  <2> SUFFICES ASSUME NEW T, T \subseteq Missed(k) \ Behind(from) PROVE Cardinality(T) <= k.shifts
    OBVIOUS
  <2>1. IsFiniteSet(T) /\ Cardinality(T) <= Cardinality(Missed(k) \ Behind(from))
    BY <1>4, FS_Subset
  <2>2. Cardinality(T) \in Nat
    BY <2>1, FS_CardinalityType
  <2> QED
    BY <1>3, <1>4, <1>5, <2>1, <2>2
<1>7. \A j \in DOMAIN policies : j >= from /\ policies[j] \in InScope => j \in ahead
  BY <1>1
<1>8. CASE ahead = {}
  <2>1. n = [k EXCEPT !.at = "passed"]
    BY <1>8 DEF Walked
  <2>2. /\ n \in CheckStates /\ n.at = "passed" /\ n.heard = k.heard /\ n.told = k.told
        /\ n.error = k.error /\ n.since = k.since /\ n.shifts = k.shifts /\ n.asked = k.asked
    BY <2>1 DEF CheckStates
  <2>3. Missed(n) \subseteq Missed(k) \ Behind(from)
    BY <1>7, <1>8, <2>2 DEF Missed, Behind
  <2>4. Cardinality(Missed(n)) <= k.shifts
    BY <1>6, <2>3
  <2> QED
    BY <2>2, <2>4
<1>9. CASE ahead # {}
  <2>a. ahead \in SUBSET Nat
    BY <1>1
  <2>1. m \in ahead /\ \A j \in ahead : m <= j
    <3> HIDE DEF ahead
    <3> QED
      BY <1>9, <2>a, SmallestOf
  <2>2. m \in DOMAIN policies /\ m \in Nat /\ m >= from /\ policies[m] \in InScope
    BY <1>1, <2>1
  <2>3. n = [k EXCEPT !.at = "asking", !.cursor = m, !.asked = @ \cup {policies[m]}]
    BY <1>9 DEF Walked
  <2>b. policies[m] \in Policies
    BY <1>2, <2>2
  <2> DEFINE p == policies[m]
  <2>c. n = [k EXCEPT !.at = "asking", !.cursor = m, !.asked = @ \cup {p}]
    BY <2>3
  <2> HIDE DEF m, p
  <2>d. m \in Nat /\ p \in Policies
    BY <2>2, <2>b DEF p
  <2>e. n \in CheckStates
    <3>1. /\ k.asked \cup {p} \in SUBSET Policies /\ m \in Nat
          /\ k.heard \in Seq(Severities) /\ k.told \in Nat /\ k.shifts \in Nat
          /\ k.since \in SUBSET Policies
          /\ k.error \in ToSet(Objections) \cup {"none", "policy", "thrown"}
      BY <2>d DEF CheckStates
    <3>2. n = [at |-> "asking", cursor |-> m, heard |-> k.heard, told |-> k.told,
               error |-> k.error, asked |-> k.asked \cup {p}, since |-> k.since,
               shifts |-> k.shifts]
      BY <2>c DEF CheckStates
    <3> HIDE DEF n
    <3> QED
      BY <3>1, <3>2 DEF CheckStates
  <2>4. /\ n \in CheckStates /\ n.at = "asking" /\ n.heard = k.heard /\ n.told = k.told
        /\ n.error = k.error /\ n.since = k.since /\ n.shifts = k.shifts
        /\ n.asked = k.asked \cup {policies[m]} /\ n.cursor = m
    BY <2>c, <2>e DEF CheckStates, p
  <2>5. Missed(n) \ Ahead(n) \subseteq Missed(k) \ Behind(from)
    <3> SUFFICES ASSUME NEW x \in Missed(n) \ Ahead(n), x \in Behind(from) PROVE FALSE
      BY <2>4 DEF Missed
    <3>1. PICK j \in DOMAIN policies : j >= from /\ x = policies[j]
      BY DEF Behind
    <3>2. x \in InScope /\ x # policies[m]
      BY <2>4 DEF Missed
    <3>3. j \in ahead
      BY <1>7, <3>1, <3>2
    <3>4. m <= j /\ j # m
      BY <2>1, <3>1, <3>2, <3>3 DEF m
    <3>5. j > m
      BY <1>1, <2>2, <3>4
    <3> QED
      BY <2>4, <3>1, <3>5 DEF Ahead
  <2>6. Cardinality(Missed(n) \ Ahead(n)) <= k.shifts
    BY <1>6, <2>5
  <2> QED
    BY <2>2, <2>4, <2>6
<1> QED
  BY <1>8, <1>9

(* A policy taken out at or before the place of the walk brings one there at *)
(* most, and one behind it none.                                             *)
LEMMA WalkIsMoved ==
  ASSUME policies \in Seq(Policies), NEW pl \in DOMAIN policies,
         policies' = RemoveAt(policies, pl),
         \A j \in DOMAIN policies : policies[j] = policies[pl] => pl <= j,
         NEW k \in CheckStates, k.since \subseteq ToSet(policies),
         NEW n \in CheckStates, n.cursor = k.cursor, n.asked = k.asked,
         n.since = k.since \cap ToSet(policies'),
         n.shifts = IF pl <= k.cursor THEN k.shifts + 1 ELSE k.shifts,
         Cardinality(Missed(k) \ Ahead(k)) <= k.shifts
  PROVE  Cardinality(Missed(n) \ Ahead(n)') <= n.shifts
<1> DEFINE len == Len(policies)
           old == Missed(k) \ Ahead(k)
           new == Missed(n) \ Ahead(n)'
<1>1. len \in Nat /\ DOMAIN policies = 1 .. len /\ pl \in 1 .. len
  BY LenProperties
<1>2. /\ DOMAIN policies' = 1 .. len - 1
      /\ \A i \in 1 .. len - 1 : policies'[i] = IF i < pl THEN policies[i] ELSE policies[i + 1]
  <2>1. /\ policies' \in Seq(Policies) /\ Len(policies') = len - 1
        /\ \A i \in 1 .. len - 1 : policies'[i] = IF i < pl THEN policies[i] ELSE policies[i + 1]
    BY RemoveAtProperties
  <2> QED
    BY <2>1, LenProperties
<1> HIDE DEF len
<1>3. \A j \in 1 .. len : j < pl => j \in 1 .. len - 1 /\ policies'[j] = policies[j]
  BY <1>1, <1>2
<1>4. \A j \in 1 .. len : j > pl => j - 1 \in 1 .. len - 1 /\ policies'[j - 1] = policies[j]
  BY <1>1, <1>2
<1>5. k.shifts \in Nat /\ k.cursor \in Nat /\ IsFiniteSet(old) /\ Cardinality(old) \in Nat
  <2>1. k.shifts \in Nat /\ k.cursor \in Nat
    BY DEF CheckStates
  <2>2. IsFiniteSet(k.since)
    BY ListFinite, FS_Subset
  <2>3. old \subseteq k.since
    BY DEF Missed
  <2>4. IsFiniteSet(old)
    BY <2>2, <2>3, FS_Subset
  <2> QED
    BY <2>1, <2>4, FS_CardinalityType
<1>6. Missed(n) = Missed(k) \cap ToSet(policies')
  BY DEF Missed
<1>7. Ahead(n)' = {policies'[i] : i \in {j \in 1 .. len - 1 : j > k.cursor}}
  BY <1>2 DEF Ahead
<1>8. CASE pl <= k.cursor
  <2> DEFINE here == k.cursor + 1
  <2>1. \A j \in 1 .. len : j > here => j - 1 \in 1 .. len - 1 /\ j - 1 > k.cursor /\ j > pl
    BY <1>1, <1>5, <1>8
  <2>2. ASSUME NEW j \in 1 .. len, j > here PROVE policies[j] \in Ahead(n)'
    <3>1. j - 1 \in 1 .. len - 1 /\ j - 1 > k.cursor /\ policies'[j - 1] = policies[j]
      BY <1>4, <2>1, <2>2
    <3> QED
      BY <1>7, <3>1
  <2>3. ASSUME NEW x \in new PROVE x \in old \cup {policies[here]}
    <3>1. SUFFICES ASSUME x \in Ahead(k) PROVE x = policies[here]
      BY <1>6
    <3>2. PICK j \in 1 .. len : j > k.cursor /\ x = policies[j]
      BY <1>1, <3>1 DEF Ahead
    <3>3. ~ j > here
      BY <2>2, <3>2
    <3>4. j = here
      BY <1>1, <1>5, <3>2, <3>3
    <3> QED
      BY <3>2, <3>4
  <2>4. n.shifts = k.shifts + 1
    BY <1>8
  <2> DEFINE one == policies[here]
  <2>5. new \subseteq old \cup {one}
    BY <2>3
  <2> HIDE DEF old, new, one
  <2>6. /\ IsFiniteSet(old \cup {one})
        /\ Cardinality(old \cup {one}) = IF one \in old THEN Cardinality(old) ELSE Cardinality(old) + 1
    BY <1>5, FS_AddElement
  <2>7. IsFiniteSet(new) /\ Cardinality(new) <= Cardinality(old \cup {one})
    BY <2>5, <2>6, FS_Subset
  <2>8. Cardinality(new) \in Nat
    BY <2>7, FS_CardinalityType
  <2>9. Cardinality(old) <= k.shifts
    BY DEF old
  <2>10. Cardinality(new) <= k.shifts + 1
    BY <1>5, <2>6, <2>7, <2>8, <2>9
  <2> QED
    BY <2>4, <2>10 DEF new
<1>9. CASE ~ (pl <= k.cursor)
  <2>1. ASSUME NEW j \in 1 .. len, j > k.cursor, j # pl PROVE policies[j] \in Ahead(n)'
    <3>1. CASE j < pl
      BY <1>3, <1>7, <2>1, <3>1
    <3>2. CASE ~ j < pl
      <4>1. j > pl /\ j - 1 > k.cursor
        BY <1>1, <1>5, <1>9, <2>1, <3>2
      <4>2. j - 1 \in 1 .. len - 1 /\ policies'[j - 1] = policies[j]
        BY <1>4, <4>1
      <4> QED
        BY <1>7, <4>1, <4>2
    <3> QED
      BY <3>1, <3>2
  <2>2. ASSUME NEW x \in new PROVE x \in old
    <3>1. SUFFICES ASSUME x \in Ahead(k) PROVE FALSE
      BY <1>6
    <3>2. PICK j \in 1 .. len : j > k.cursor /\ x = policies[j]
      BY <1>1, <3>1 DEF Ahead
    <3>3. x = policies[pl]
      BY <2>1, <3>2
    <3>4. PICK i \in 1 .. len - 1 : x = policies'[i]
      BY <1>2, <1>6 DEF ToSet
    <3>5. CASE i < pl
      <4>1. i \in 1 .. len /\ policies[i] = policies[pl]
        BY <1>1, <1>2, <3>3, <3>4, <3>5
      <4>2. pl <= i
        BY <1>1, <4>1
      <4> QED
        BY <1>1, <3>5, <4>2
    <3>6. CASE ~ i < pl
      <4>1. i > k.cursor
        BY <1>1, <1>5, <1>9, <3>6
      <4> QED
        BY <1>7, <3>4, <4>1
    <3> QED
      BY <3>5, <3>6
  <2>3. n.shifts = k.shifts
    BY <1>9
  <2>4. new \subseteq old
    BY <2>2
  <2> HIDE DEF old, new
  <2>5. IsFiniteSet(new) /\ Cardinality(new) <= Cardinality(old)
    BY <1>5, <2>4, FS_Subset
  <2>6. Cardinality(new) \in Nat
    BY <2>5, FS_CardinalityType
  <2>7. Cardinality(old) <= k.shifts
    BY DEF old
  <2>8. Cardinality(new) <= k.shifts
    BY <1>5, <2>5, <2>6, <2>7
  <2> QED
    BY <2>3, <2>8 DEF new
<1> QED
  BY <1>8, <1>9

(* What the invariant says of one check.                                     *)
CheckFollows(k) ==
    /\ k \in CheckStates /\ k.asked \subseteq InScope
    /\ k.at = "passed" => /\ "error" \notin ToSet(k.heard)
                          /\ Cardinality(Missed(k)) <= k.shifts
    /\ k.error \in ToSet(Objections) => k.asked = {}
    /\ k.told = Warnings(k.heard)
    /\ k.at = "asking" => /\ k.since \subseteq ToSet(policies)
                          /\ Cardinality(Missed(k) \ Ahead(k)) <= k.shifts
    /\ k.at \in {"idle", "admitted"} => k.asked = {}
    /\ k.at \in {"idle", "admitted", "asking"} => k.error = "none"
    /\ k.at # "refused" => "error" \notin ToSet(k.heard)

(* Of a call.                                                                *)
CallFollowsGate(k) ==
    /\ k \in CallStates
    /\ (k.at = "ran" /\ k.tool) => k.refuses = {} \/ (k.refuses = {"approval"} /\ k.approved)
    /\ k.at = "approval" => k.refuses \cap ToSet(Fatal) = {}
    /\ k.at = "refused" => Len(k.told) = 1 \/ ("approval" \in k.refuses /\ k.told = <<>>)
    /\ k.at \in {"idle", "approval"} => k.told = <<>>
    /\ k.at = "approval" => "approval" \in k.refuses

(* Of the policies and the closures.                                         *)
ListsFollow ==
    /\ policies \in Seq(Policies) /\ handles \in Seq([policy : Policies, removed : BOOLEAN])
    /\ Len(policies) <= Len(handles) /\ Len(handles) <= MaxRegistered
    /\ RegistrationsCounted

(* Every check.                                                              *)
EachCheckFollows == check \in [Checks -> CheckStates] /\ \A c \in Checks : CheckFollows(check[c])
(* Every call.                                                               *)
EachCallFollows == call \in [Calls -> CallStates] /\ \A n \in Calls : CallFollowsGate(call[n])

(* These are what the invariant consists of.                                 *)
LEMMA SafetyParts == SafetyIInv <=> ListsFollow /\ EachCheckFollows /\ EachCallFollows
<1>1. ASSUME check \in [Checks -> CheckStates]
      PROVE  PoliciesApplied /\ WalkFollows <=> \A c \in Checks : CheckFollows(check[c])
  BY <1>1 DEF PoliciesApplied, WalkFollows, CheckFollows, Missed
<1>2. ASSUME call \in [Calls -> CallStates]
      PROVE  GateHolds /\ GateFollows <=> \A n \in Calls : CallFollowsGate(call[n])
  BY <1>2 DEF GateHolds, GateFollows, CallFollowsGate
<1> QED
  BY <1>1, <1>2 DEF SafetyIInv, SafetySound, SafetyTypeOK, ListsFollow, EachCheckFollows, EachCallFollows

(* A step of one check.                                                      *)
LEMMA CheckMoves ==
  ASSUME SafetyIInv, NEW c \in Checks, NEW n, CheckFollows(n),
         check' = [check EXCEPT ![c] = n], UNCHANGED <<policies, handles, call>>
  PROVE  SafetyIInv'
<1>1. \A k : CheckFollows(k)' <=> CheckFollows(k)
  BY DEF CheckFollows, Missed, Ahead, Warnings, CheckStates
<1>2. ListsFollow' <=> ListsFollow
  BY DEF ListsFollow, RegistrationsCounted, Places
<1>3. n \in CheckStates
  BY DEF CheckFollows
<1>4. check' \in [Checks -> CheckStates] /\ \A d \in Checks : check'[d] = IF d = c THEN n ELSE check[d]
  BY <1>3, SafetyParts DEF EachCheckFollows, EachCallFollows
<1>5. \A d \in Checks : CheckFollows(check'[d])
  BY <1>4, SafetyParts DEF EachCheckFollows, EachCallFollows
<1>6. \A d \in Checks : CheckFollows(check[d])'
  BY <1>1, <1>5
<1>7. call' \in [Calls -> CallStates] /\ \A m \in Calls : CallFollowsGate(call'[m])
  BY SafetyParts DEF EachCheckFollows, EachCallFollows
<1>8. \A m \in Calls : CallFollowsGate(call[m])'
  BY <1>7 DEF CallFollowsGate, CallStates
<1>9. ListsFollow'
  BY <1>2, SafetyParts DEF EachCheckFollows, EachCallFollows
<1>10. check' \in [Checks -> CheckStates'] /\ call' \in [Calls -> CallStates']
  BY <1>4, <1>7 DEF CheckStates, CallStates
<1>11. EachCheckFollows' /\ EachCallFollows'
  BY <1>6, <1>8, <1>10 DEF EachCheckFollows, EachCallFollows
<1> QED
  BY <1>9, <1>11, SafetyParts, PTL

(* A step of one call.                                                       *)
LEMMA CallMoves ==
  ASSUME SafetyIInv, NEW c \in Calls, NEW n, CallFollowsGate(n),
         call' = [call EXCEPT ![c] = n], UNCHANGED <<policies, handles, check>>
  PROVE  SafetyIInv'
<1>1. \A k : CheckFollows(k)' <=> CheckFollows(k)
  BY DEF CheckFollows, Missed, Ahead, Warnings, CheckStates
<1>2. ListsFollow' <=> ListsFollow
  BY DEF ListsFollow, RegistrationsCounted, Places
<1>3. n \in CallStates
  BY DEF CallFollowsGate
<1>4. call' \in [Calls -> CallStates] /\ \A d \in Calls : call'[d] = IF d = c THEN n ELSE call[d]
  BY <1>3, SafetyParts DEF EachCheckFollows, EachCallFollows
<1>5. \A d \in Calls : CallFollowsGate(call'[d])
  BY <1>4, SafetyParts DEF EachCheckFollows, EachCallFollows
<1>6. \A d \in Calls : CallFollowsGate(call[d])'
  BY <1>5 DEF CallFollowsGate, CallStates
<1>7. check' \in [Checks -> CheckStates] /\ \A m \in Checks : CheckFollows(check'[m])
  BY SafetyParts DEF EachCheckFollows, EachCallFollows
<1>8. \A m \in Checks : CheckFollows(check[m])'
  BY <1>1, <1>7
<1>9. ListsFollow'
  BY <1>2, SafetyParts DEF EachCheckFollows, EachCallFollows
<1>10. check' \in [Checks -> CheckStates'] /\ call' \in [Calls -> CallStates']
  BY <1>4, <1>7 DEF CheckStates, CallStates
<1>11. EachCheckFollows' /\ EachCallFollows'
  BY <1>6, <1>8, <1>10 DEF EachCheckFollows, EachCallFollows
<1> QED
  BY <1>9, <1>11, SafetyParts, PTL

(* The lists of reasons.                                                     *)
LEMMA ReasonsAre ==
  /\ Objections \in Seq(ToSet(Objections))
  /\ ToSet(Objections) = {"size", "depth", "tokens", "time", "calls", "path"}
  /\ Fatal \in Seq(Reasons)
  /\ ToSet(Fatal) = {"allowlist", "denylist", "scope", "no provider"}
<1>1. DOMAIN Objections = 1 .. 6 /\ DOMAIN Fatal = 1 .. 4
  BY DEF Objections, Fatal
<1>2. 1 .. 6 = {1, 2, 3, 4, 5, 6} /\ 1 .. 4 = {1, 2, 3, 4}
  OBVIOUS
<1>3. /\ Objections[1] = "size" /\ Objections[2] = "depth" /\ Objections[3] = "tokens"
      /\ Objections[4] = "time" /\ Objections[5] = "calls" /\ Objections[6] = "path"
  BY DEF Objections
<1>4. /\ Fatal[1] = "allowlist" /\ Fatal[2] = "denylist" /\ Fatal[3] = "scope"
      /\ Fatal[4] = "no provider"
  BY DEF Fatal
<1>5. ToSet(Objections) = {"size", "depth", "tokens", "time", "calls", "path"}
  BY <1>1, <1>2, <1>3 DEF ToSet
<1>6. ToSet(Fatal) = {"allowlist", "denylist", "scope", "no provider"}
  BY <1>1, <1>2, <1>4 DEF ToSet
<1>7. Fatal \in Seq(Reasons)
  BY DEF Fatal, Reasons
<1>8. Objections \in Seq({"size", "depth", "tokens", "time", "calls", "path"})
  BY DEF Objections
<1> QED
  BY <1>5, <1>6, <1>7, <1>8

(* What find gives is an element of the list.                                *)
LEMMA FirstFound ==
  ASSUME NEW S, NEW w \in Seq(S), NEW T, ToSet(w) \cap T # {}
  PROVE  FirstOf(w, T) \in ToSet(w) \cap T
<1>1. Len(w) \in Nat /\ DOMAIN w = 1 .. Len(w)
  BY LenProperties
<1> DEFINE H == Hits(w, T)
<1>2. H \in SUBSET Nat /\ H # {}
  BY <1>1 DEF Hits, ToSet
<1>3. \E i \in H : \A j \in H : i <= j
  BY <1>2, LeastOf
<1> DEFINE m == CHOOSE i \in H : \A j \in H : i <= j
<1>4. m \in H
  BY <1>3
<1>5. FirstOf(w, T) = w[m]
  BY DEF FirstOf
<1> HIDE DEF m
<1> QED
  BY <1>4, <1>5 DEF Hits, ToSet

(* The record of a check.                                                    *)
LEMMA CheckRecord ==
  ASSUME NEW a \in {"idle", "admitted", "asking", "passed", "refused"}, NEW cu \in Nat,
         NEW h \in Seq(Severities), NEW t \in Nat,
         NEW e \in ToSet(Objections) \cup {"none", "policy", "thrown"},
         NEW as \in SUBSET Policies, NEW si \in SUBSET Policies, NEW sh \in Nat
  PROVE  [at |-> a, cursor |-> cu, heard |-> h, told |-> t, error |-> e,
          asked |-> as, since |-> si, shifts |-> sh] \in CheckStates
BY DEF CheckStates

(* A check that has not begun.                                               *)
LEMMA IdleIs ==
  /\ Idle \in CheckStates /\ Idle.cursor = 0 /\ Idle.heard = <<>> /\ Idle.told = 0
  /\ Idle.error = "none" /\ Idle.asked = {} /\ Idle.since = {} /\ Idle.shifts = 0
  /\ Idle.at = "idle"
<1>1. Idle = [at |-> "idle", cursor |-> 0, heard |-> <<>>, told |-> 0, error |-> "none",
              asked |-> {}, since |-> {}, shifts |-> 0]
  BY DEF Idle
<1>2. <<>> \in Seq(Severities) /\ {} \in SUBSET Policies /\ 0 \in Nat
  OBVIOUS
<1>3. Idle \in CheckStates
  BY <1>1, <1>2, CheckRecord
<1> QED
  BY <1>1, <1>3

(* What is heard are the elements of both.                                   *)
LEMMA ConcatMembers ==
  ASSUME NEW S, NEW w \in Seq(S), NEW v \in Seq(S)
  PROVE  ToSet(w \o v) \subseteq ToSet(w) \cup ToSet(v)
<1> DEFINE l == w \o v
<1>1. /\ DOMAIN w = 1 .. Len(w) /\ DOMAIN v = 1 .. Len(v)
      /\ DOMAIN l = 1 .. Len(w) + Len(v)
      /\ Len(w) \in Nat /\ Len(v) \in Nat
      /\ \A i \in DOMAIN w : l[i] = w[i]
      /\ \A i \in DOMAIN v : l[Len(w) + i] = v[i]
  BY ConcatAt
<1> HIDE DEF l
<1>2. ASSUME NEW i \in DOMAIN l PROVE l[i] \in ToSet(w) \cup ToSet(v)
  <2>2. CASE i \in DOMAIN w
    BY <1>1, <2>2 DEF ToSet
  <2>3. CASE i \notin DOMAIN w
    <3>1. i - Len(w) \in DOMAIN v /\ i = Len(w) + (i - Len(w))
      BY <1>1, <2>3
    <3>2. l[i] = v[i - Len(w)]
      BY <1>1, <3>1
    <3> QED
      BY <3>1, <3>2 DEF ToSet
  <2> QED
    BY <2>2, <2>3
<1>3. ToSet(l) \subseteq ToSet(w) \cup ToSet(v)
  BY <1>2 DEF ToSet
<1> QED
  BY <1>3 DEF l

(* The baseline objects to a turn, or admits it.                             *)
LEMMA BaselineKeeps ==
  ASSUME SafetyIInv, NEW c \in Checks, NEW objections \in {{}, {"depth", "path"}},
         NEW marked \in BOOLEAN, Baseline(c, objections, marked)
  PROVE  SafetyIInv'
<1>1. /\ UNCHANGED <<policies, handles, call>>
      /\ check' = [check EXCEPT ![c] =
            IF objections # {}
              THEN [Idle EXCEPT !.at = "refused", !.error = FirstOf(Objections, objections)]
            ELSE [Idle EXCEPT !.at = "admitted", !.told = IF marked THEN 1 ELSE 0,
                              !.heard = IF marked THEN <<"warning">> ELSE <<>>]]
  BY DEF Baseline
<1>2. <<>> \in Seq(Severities) /\ <<"warning">> \in Seq(Severities)
  BY DEF Severities
<1>3. Warnings(<<>>) = 0
  <2>1. {i \in DOMAIN <<>> : <<>>[i] = "warning"} = {}
    OBVIOUS
  <2> QED
    BY <2>1, FS_EmptySet DEF Warnings
<1>4. Warnings(<<"warning">>) = 1
  <2>1. {i \in DOMAIN <<"warning">> : <<"warning">>[i] = "warning"} = {1}
    OBVIOUS
  <2> QED
    BY <2>1, FS_Singleton DEF Warnings
<1>5. "error" \notin ToSet(<<>>) /\ "error" \notin ToSet(<<"warning">>)
  BY DEF ToSet
<1>6. CASE objections # {}
  <2> DEFINE why == FirstOf(Objections, objections)
             n == [Idle EXCEPT !.at = "refused", !.error = why]
  <2>1. ToSet(Objections) \cap objections # {}
    BY <1>6, ReasonsAre
  <2>2. why \in ToSet(Objections)
    BY <2>1, ReasonsAre, FirstFound
  <2> HIDE DEF why
  <2>3. n = [at |-> "refused", cursor |-> 0, heard |-> <<>>, told |-> 0, error |-> why,
             asked |-> {}, since |-> {}, shifts |-> 0]
    <3>1. n = [Idle EXCEPT !.at = "refused", !.error = why]
      OBVIOUS
    <3> HIDE DEF n
    <3> QED
      BY <3>1, IdleIs DEF CheckStates
  <2>4. n \in CheckStates
    <3> HIDE DEF n
    <3> QED
      BY <1>2, <2>2, <2>3, CheckRecord
  <2>5. CheckFollows(n)
    BY <1>3, <1>5, <2>3, <2>4 DEF CheckFollows
  <2>6. check' = [check EXCEPT ![c] = n]
    BY <1>1, <1>6 DEF why
  <2> HIDE DEF n
  <2> QED
    BY <1>1, <2>5, <2>6, CheckMoves
<1>7. CASE objections = {}
  <2> DEFINE list == IF marked THEN <<"warning">> ELSE <<>>
             t == IF marked THEN 1 ELSE 0
             n == [Idle EXCEPT !.at = "admitted", !.told = t, !.heard = list]
  <2>1. list \in Seq(Severities) /\ t \in Nat /\ t = Warnings(list) /\ "error" \notin ToSet(list)
    BY <1>2, <1>3, <1>4, <1>5
  <2>2. check' = [check EXCEPT ![c] = n]
    BY <1>1, <1>7
  <2> HIDE DEF list, t
  <2>3. n = [at |-> "admitted", cursor |-> 0, heard |-> list, told |-> t, error |-> "none",
             asked |-> {}, since |-> {}, shifts |-> 0]
    <3>1. n = [Idle EXCEPT !.at = "admitted", !.told = t, !.heard = list]
      OBVIOUS
    <3> HIDE DEF n
    <3> QED
      BY <3>1, IdleIs DEF CheckStates
  <2>4. n \in CheckStates
    <3> HIDE DEF n
    <3> QED
      BY <2>1, <2>3, CheckRecord
  <2>5. CheckFollows(n)
    BY <2>1, <2>3, <2>4 DEF CheckFollows
  <2> HIDE DEF n
  <2> QED
    BY <1>1, <2>2, <2>5, CheckMoves
<1> QED
  BY <1>6, <1>7

(* The walk begins, with every policy there is before it.                    *)
LEMMA BusinessKeeps ==
  ASSUME SafetyIInv, NEW c \in Checks, Business(c) PROVE SafetyIInv'
<1> DEFINE k == check[c]
           s == ToSet(policies)
           b == [k EXCEPT !.since = s]
           from == 1
           n == Walked(b, from)
<1>1. /\ UNCHANGED <<policies, handles, call>> /\ k.at = "admitted"
      /\ check' = [check EXCEPT ![c] = n]
  BY DEF Business
<1>2. CheckFollows(k) /\ policies \in Seq(Policies)
  BY SafetyParts DEF EachCheckFollows, ListsFollow
<1>3. k \in CheckStates /\ s \in SUBSET Policies
  BY <1>2, ListFinite DEF CheckFollows
<1> HIDE DEF k, s
<1>4. /\ b = [at |-> k.at, cursor |-> k.cursor, heard |-> k.heard, told |-> k.told,
              error |-> k.error, asked |-> k.asked, since |-> s, shifts |-> k.shifts]
      /\ b \in CheckStates
  BY <1>3 DEF CheckStates
<1>5. /\ k.asked = {} /\ k.error = "none" /\ k.told = Warnings(k.heard)
      /\ "error" \notin ToSet(k.heard) /\ k.shifts \in Nat
  BY <1>1, <1>2 DEF CheckFollows, CheckStates
<1>6. Missing(b, 1)
  <2>1. \A i \in DOMAIN policies : i >= 1
    BY <1>2, LenProperties
  <2>2. s \subseteq Behind(1)
    BY <2>1 DEF s, ToSet, Behind
  <2>3. Missed(b) \ Behind(1) = {}
    BY <1>4, <2>2 DEF Missed
  <2>4. Cardinality(Missed(b) \ Behind(1)) = 0
    BY <2>3, FS_EmptySet
  <2> QED
    BY <1>4, <1>5, <2>4 DEF Missing
<1>7. b.since \subseteq ToSet(policies) /\ b.asked \subseteq InScope
  BY <1>4, <1>5 DEF s
<1>a. from \in Nat \ {0} /\ Missing(b, from)
  BY <1>6
<1> HIDE DEF b, from
<1>8. /\ n \in CheckStates
      /\ n.at \in {"passed", "asking"} /\ n.heard = b.heard /\ n.told = b.told
      /\ n.error = b.error /\ n.since = b.since /\ n.shifts = b.shifts
      /\ n.asked \subseteq InScope
      /\ n.at = "passed" => Cardinality(Missed(n)) <= n.shifts
      /\ n.at = "asking" => Cardinality(Missed(n) \ Ahead(n)) <= n.shifts
  BY <1>2, <1>4, <1>a, <1>7, WalkGoesOn
<1> HIDE DEF n
<1>9. CheckFollows(n)
  BY <1>4, <1>5, <1>7, <1>8, ReasonsAre DEF CheckFollows
<1> QED
  BY <1>1, <1>9, CheckMoves

(* A policy answers, and the walk goes on or is over.                        *)
LEMMA AnswersKeeps ==
  ASSUME SafetyIInv, NEW c \in Checks, NEW verdict \in Seq(Severities), Answers(c, verdict)
  PROVE  SafetyIInv'
<1> DEFINE k == check[c]
           l == k.heard \o verdict
           t == k.told + Warnings(verdict)
           b == [k EXCEPT !.heard = l, !.told = t]
<1>1. /\ UNCHANGED <<policies, handles, call>> /\ k.at = "asking"
      /\ check' = [check EXCEPT ![c] =
            IF "error" \in ToSet(verdict) THEN [b EXCEPT !.at = "refused", !.error = "policy"]
            ELSE Walked(b, b.cursor + 1)]
  BY DEF Answers
<1>2. CheckFollows(k) /\ policies \in Seq(Policies)
  BY SafetyParts DEF EachCheckFollows, ListsFollow
<1>3. /\ k \in CheckStates /\ k.heard \in Seq(Severities) /\ k.told = Warnings(k.heard)
      /\ k.asked \subseteq InScope /\ k.error = "none" /\ "error" \notin ToSet(k.heard)
      /\ k.since \subseteq ToSet(policies) /\ Cardinality(Missed(k) \ Ahead(k)) <= k.shifts
      /\ k.cursor \in Nat
  BY <1>1, <1>2 DEF CheckFollows, CheckStates
<1>4. l \in Seq(Severities) /\ t = Warnings(l) /\ t \in Nat
  <2>1. Warnings(l) = Warnings(k.heard) + Warnings(verdict)
    BY <1>3, WarningsAdd
  <2>2. Warnings(k.heard) \in Nat /\ Warnings(verdict) \in Nat
    BY <1>3, WarningsAdd
  <2>3. l \in Seq(Severities)
    BY <1>3, ConcatProperties
  <2> HIDE DEF l
  <2> QED
    BY <1>3, <2>1, <2>2, <2>3
<1>5. ToSet(l) \subseteq ToSet(k.heard) \cup ToSet(verdict)
  BY <1>3, ConcatMembers
<1> HIDE DEF k, l, t
<1>a. b = [at |-> k.at, cursor |-> k.cursor, heard |-> l, told |-> t,
           error |-> k.error, asked |-> k.asked, since |-> k.since, shifts |-> k.shifts]
  <2>1. b = [k EXCEPT !.heard = l, !.told = t]
    OBVIOUS
  <2> HIDE DEF b
  <2> QED
    BY <1>3, <2>1 DEF CheckStates
<1>b. /\ k.at \in {"idle", "admitted", "asking", "passed", "refused"}
      /\ k.error \in ToSet(Objections) \cup {"none", "policy", "thrown"}
      /\ k.asked \in SUBSET Policies /\ k.since \in SUBSET Policies /\ k.shifts \in Nat
  BY <1>3 DEF CheckStates
<1>c. b \in CheckStates
  <2> HIDE DEF b
  <2> QED
    BY <1>3, <1>4, <1>a, <1>b, CheckRecord
<1>6. /\ b = [at |-> k.at, cursor |-> k.cursor, heard |-> l, told |-> t,
              error |-> k.error, asked |-> k.asked, since |-> k.since, shifts |-> k.shifts]
      /\ b \in CheckStates
  BY <1>a, <1>c
<1>7. CASE "error" \in ToSet(verdict)
  <2> DEFINE n == [b EXCEPT !.at = "refused", !.error = "policy"]
  <2>a. n = [at |-> "refused", cursor |-> k.cursor, heard |-> l, told |-> t,
             error |-> "policy", asked |-> k.asked, since |-> k.since, shifts |-> k.shifts]
    <3>1. n = [b EXCEPT !.at = "refused", !.error = "policy"]
      OBVIOUS
    <3>2. b \in CheckStates
      BY <1>6
    <3> HIDE DEF n, b
    <3> QED
      BY <1>a, <3>1, <3>2 DEF CheckStates
  <2>b. n \in CheckStates
    <3> HIDE DEF n
    <3> QED
      BY <1>3, <1>4, <1>b, <2>a, CheckRecord
  <2>1. /\ n = [at |-> "refused", cursor |-> k.cursor, heard |-> l, told |-> t,
                error |-> "policy", asked |-> k.asked, since |-> k.since, shifts |-> k.shifts]
        /\ n \in CheckStates
    BY <2>a, <2>b
  <2>2. check' = [check EXCEPT ![c] = n]
    BY <1>1, <1>7
  <2>3. CheckFollows(n)
    BY <1>3, <1>4, <2>1, ReasonsAre DEF CheckFollows
  <2> HIDE DEF n
  <2> QED
    BY <1>1, <2>2, <2>3, CheckMoves
<1>8. CASE "error" \notin ToSet(verdict)
  <2> DEFINE from == b.cursor + 1
             n == Walked(b, from)
  <2>1. check' = [check EXCEPT ![c] = n]
    BY <1>1, <1>8
  <2>2. from \in Nat \ {0} /\ from = k.cursor + 1
    BY <1>3, <1>6
  <2>3. Missed(b) = Missed(k) /\ Behind(from) = Ahead(k)
    <3>1. \A j \in DOMAIN policies : j >= from <=> j > k.cursor
      BY <1>2, <1>3, <2>2, LenProperties
    <3> QED
      BY <1>6, <3>1 DEF Missed, Behind, Ahead
  <2> HIDE DEF from
  <2>4. Missing(b, from)
    BY <1>3, <1>6, <2>3 DEF Missing
  <2>5. b.since \subseteq ToSet(policies) /\ b.asked \subseteq InScope
    BY <1>3, <1>6
  <2>6. /\ b.heard = l /\ b.told = t /\ b.error = "none" /\ "error" \notin ToSet(l)
    BY <1>3, <1>5, <1>6, <1>8
  <2>b. b \in CheckStates
    BY <1>6
  <2> HIDE DEF b
  <2>7. /\ n \in CheckStates
        /\ n.at \in {"passed", "asking"} /\ n.heard = b.heard /\ n.told = b.told
        /\ n.error = b.error /\ n.since = b.since /\ n.shifts = b.shifts
        /\ n.asked \subseteq InScope
        /\ n.at = "passed" => Cardinality(Missed(n)) <= n.shifts
        /\ n.at = "asking" => Cardinality(Missed(n) \ Ahead(n)) <= n.shifts
    BY <1>2, <2>b, <2>2, <2>4, <2>5, WalkGoesOn
  <2> HIDE DEF n
  <2>8. CheckFollows(n)
    BY <1>4, <2>5, <2>6, <2>7, ReasonsAre DEF CheckFollows
  <2> QED
    BY <1>1, <2>1, <2>8, CheckMoves
<1> QED
  BY <1>7, <1>8

(* A policy throws.                                                          *)
LEMMA ThrowsKeeps ==
  ASSUME SafetyIInv, NEW c \in Checks, Throws(c) PROVE SafetyIInv'
<1> DEFINE k == check[c]
           n == [k EXCEPT !.at = "refused", !.error = "thrown"]
<1>1. CheckFollows(k) /\ check \in [Checks -> CheckStates]
  BY SafetyParts DEF EachCheckFollows
<1>2. /\ UNCHANGED <<policies, handles, call>>
      /\ check' = [check EXCEPT ![c] = n]
  BY <1>1 DEF Throws
<1>3. k \in CheckStates
  BY <1>1 DEF CheckFollows
<1> HIDE DEF k
<1>a. n = [at |-> "refused", cursor |-> k.cursor, heard |-> k.heard, told |-> k.told,
           error |-> "thrown", asked |-> k.asked, since |-> k.since, shifts |-> k.shifts]
  <2>1. n = [k EXCEPT !.at = "refused", !.error = "thrown"]
    OBVIOUS
  <2> HIDE DEF n
  <2> QED
    BY <1>3, <2>1 DEF CheckStates
<1>b. /\ k.cursor \in Nat /\ k.heard \in Seq(Severities) /\ k.told \in Nat
      /\ k.asked \in SUBSET Policies /\ k.since \in SUBSET Policies /\ k.shifts \in Nat
  BY <1>3 DEF CheckStates
<1>c. n \in CheckStates
  <2> HIDE DEF n
  <2> QED
    BY <1>a, <1>b, CheckRecord
<1>4. /\ n = [at |-> "refused", cursor |-> k.cursor, heard |-> k.heard, told |-> k.told,
              error |-> "thrown", asked |-> k.asked, since |-> k.since, shifts |-> k.shifts]
      /\ n \in CheckStates
  BY <1>a, <1>c
<1>5. CheckFollows(n)
  BY <1>1, <1>4, ReasonsAre DEF CheckFollows
<1> HIDE DEF n
<1> QED
  BY <1>2, <1>5, CheckMoves

(* The record of a call at the gate.                                         *)
LEMMA CallRecord ==
  ASSUME NEW a \in {"idle", "approval", "ran", "refused"}, NEW t \in BOOLEAN,
         NEW r \in SUBSET Reasons, NEW l \in Seq(Reasons \cup {"rejected"}), NEW ok \in BOOLEAN
  PROVE  [at |-> a, tool |-> t, refuses |-> r, told |-> l, approved |-> ok] \in CallStates
BY DEF CallStates

(* A refusal is told once, and what nothing but the command speaks against   *)
(* runs if that does not.                                                    *)
LEMMA RefusalTold ==
  ASSUME NEW k \in CallStates, k.told = <<>>, NEW why \in Reasons \cup {"rejected"}
  PROVE  CallFollowsGate(Refused(k, why))
<1> DEFINE n == Refused(k, why)
           l == Append(k.told, why)
<1>1. l \in Seq(Reasons \cup {"rejected"}) /\ Len(l) = 1
  BY DEF CallStates
<1>2. n = [k EXCEPT !.at = "refused", !.told = l]
  BY DEF Refused
<1> HIDE DEF n, l
<1>3. n = [at |-> "refused", tool |-> k.tool, refuses |-> k.refuses, told |-> l,
           approved |-> k.approved]
  BY <1>2 DEF CallStates
<1>4. k.tool \in BOOLEAN /\ k.refuses \in SUBSET Reasons /\ k.approved \in BOOLEAN
  BY DEF CallStates
<1>5. n \in CallStates
  BY <1>1, <1>3, <1>4, CallRecord
<1>6. n.at = "refused" /\ n.told = l
  BY <1>3
<1> QED
  BY <1>1, <1>5, <1>6 DEF CallFollowsGate, n

(* What an approval lets go on, or the list of commands does not.            *)
LEMMA ApprovedFollows ==
  ASSUME NEW k \in CallStates, k.told = <<>>, k.refuses \cap ToSet(Fatal) = {},
         "approval" \in k.refuses => k.approved
  PROVE  CallFollowsGate(Approved(k))
<1>1. CASE "command" \in k.refuses
  <2>1. Approved(k) = Refused(k, "command")
    BY <1>1 DEF Approved
  <2>2. "command" \in Reasons \cup {"rejected"}
    BY DEF Reasons
  <2> QED
    BY <2>1, <2>2, RefusalTold
<1>2. CASE "command" \notin k.refuses
  <2> DEFINE n == Approved(k)
  <2>1. n = [k EXCEPT !.at = "ran"]
    BY <1>2 DEF Approved
  <2> HIDE DEF n
  <2>2. n = [at |-> "ran", tool |-> k.tool, refuses |-> k.refuses, told |-> k.told,
             approved |-> k.approved]
    BY <2>1 DEF CallStates
  <2>3. /\ k.tool \in BOOLEAN /\ k.refuses \in SUBSET Reasons /\ k.approved \in BOOLEAN
        /\ k.told \in Seq(Reasons \cup {"rejected"})
    BY DEF CallStates
  <2>4. n \in CallStates
    BY <2>2, <2>3, CallRecord
  <2>5. k.refuses \subseteq {"approval"}
    BY <1>2, <2>3, ReasonsAre DEF Reasons
  <2>6. k.refuses = {} \/ (k.refuses = {"approval"} /\ k.approved)
    BY <2>5
  <2>7. n.at = "ran" /\ n.refuses = k.refuses /\ n.approved = k.approved
    BY <2>2
  <2> QED
    BY <2>4, <2>6, <2>7 DEF CallFollowsGate, n
<1> QED
  BY <1>1, <1>2

(* A call comes to the gate.                                                 *)
LEMMA GateKeeps ==
  ASSUME SafetyIInv, NEW c \in Calls, NEW isTool \in BOOLEAN, NEW refuses \in SUBSET Reasons,
         Gate(c, isTool, refuses)
  PROVE  SafetyIInv'
<1> DEFINE k == [NoCall EXCEPT !.tool = isTool, !.refuses = refuses]
           n == IF ~ isTool THEN [k EXCEPT !.at = "ran"]
                ELSE IF ToSet(Fatal) \cap refuses # {} THEN Refused(k, FirstOf(Fatal, refuses))
                ELSE IF "approval" \in refuses THEN [k EXCEPT !.at = "approval"]
                ELSE Approved(k)
<1>1. UNCHANGED <<policies, handles, check>> /\ call' = [call EXCEPT ![c] = n]
  BY DEF Gate
<1>3. <<>> \in Seq(Reasons \cup {"rejected"}) /\ {} \in SUBSET Reasons
  OBVIOUS
<1>2. k = [at |-> "idle", tool |-> isTool, refuses |-> refuses, told |-> <<>>, approved |-> FALSE]
  <2>1. k = [NoCall EXCEPT !.tool = isTool, !.refuses = refuses]
    OBVIOUS
  <2>2. NoCall = [at |-> "idle", tool |-> FALSE, refuses |-> {}, told |-> <<>>, approved |-> FALSE]
    BY DEF NoCall
  <2>3. NoCall \in CallStates
    BY <1>3, <2>2, CallRecord
  <2> HIDE DEF k
  <2> QED
    BY <2>1, <2>2, <2>3 DEF CallStates
<1> HIDE DEF k
<1>4. k \in CallStates /\ k.told = <<>> /\ k.refuses = refuses
  BY <1>2, <1>3, CallRecord
<1>5. CASE ~ isTool
  <2>1. n = [k EXCEPT !.at = "ran"]
    BY <1>5
  <2> HIDE DEF n
  <2>2. n = [at |-> "ran", tool |-> isTool, refuses |-> refuses, told |-> <<>>, approved |-> FALSE]
    BY <1>2, <2>1
  <2>3. n \in CallStates
    BY <1>3, <2>2, CallRecord
  <2>4. CallFollowsGate(n)
    BY <1>5, <2>2, <2>3 DEF CallFollowsGate
  <2> QED
    BY <1>1, <2>4, CallMoves
<1>6. CASE isTool /\ ToSet(Fatal) \cap refuses # {}
  <2> DEFINE why == FirstOf(Fatal, refuses)
  <2>1. why \in Reasons \cup {"rejected"}
    BY <1>6, ReasonsAre, FirstFound DEF Reasons
  <2>2. n = Refused(k, why)
    BY <1>6
  <2> HIDE DEF why, n
  <2>3. CallFollowsGate(n)
    BY <1>4, <2>1, <2>2, RefusalTold
  <2> QED
    BY <1>1, <2>3, CallMoves
<1>7. CASE isTool /\ ToSet(Fatal) \cap refuses = {} /\ "approval" \in refuses
  <2>1. n = [k EXCEPT !.at = "approval"]
    BY <1>7
  <2> HIDE DEF n
  <2>2. n = [at |-> "approval", tool |-> isTool, refuses |-> refuses, told |-> <<>>,
             approved |-> FALSE]
    BY <1>2, <2>1
  <2>3. n \in CallStates
    BY <1>3, <2>2, CallRecord
  <2>4. CallFollowsGate(n)
    BY <1>7, <2>2, <2>3 DEF CallFollowsGate
  <2> QED
    BY <1>1, <2>4, CallMoves
<1>8. CASE isTool /\ ToSet(Fatal) \cap refuses = {} /\ "approval" \notin refuses
  <2>1. n = Approved(k)
    BY <1>8
  <2>2. CallFollowsGate(n)
    BY <1>4, <1>8, <2>1, ApprovedFollows
  <2> HIDE DEF n
  <2> QED
    BY <1>1, <2>2, CallMoves
<1> QED
  BY <1>5, <1>6, <1>7, <1>8

(* The approval is given, refused, or not to be had.                         *)
LEMMA DecidesKeeps ==
  ASSUME SafetyIInv, NEW c \in Calls, NEW answer \in {"yes", "no", "throws"}, Decides(c, answer)
  PROVE  SafetyIInv'
<1> DEFINE k == call[c]
           n == CASE answer = "yes" -> Approved([k EXCEPT !.approved = TRUE])
                  [] answer = "no" -> Refused(k, "rejected")
                  [] answer = "throws" -> [k EXCEPT !.at = "refused"]
<1>1. /\ UNCHANGED <<policies, handles, check>> /\ k.at = "approval"
      /\ call' = [call EXCEPT ![c] = n]
  BY DEF Decides
<1>2. CallFollowsGate(k)
  BY SafetyParts DEF EachCallFollows
<1>3. /\ k \in CallStates /\ k.told = <<>> /\ "approval" \in k.refuses
      /\ k.refuses \cap ToSet(Fatal) = {}
  BY <1>1, <1>2 DEF CallFollowsGate
<1>a. /\ k.tool \in BOOLEAN /\ k.refuses \in SUBSET Reasons /\ k.approved \in BOOLEAN
      /\ k.told \in Seq(Reasons \cup {"rejected"})
  BY <1>3 DEF CallStates
<1> HIDE DEF k
<1>4. CASE answer = "yes"
  <2> DEFINE b == [k EXCEPT !.approved = TRUE]
  <2>1. n = Approved(b)
    BY <1>4
  <2>2. b = [k EXCEPT !.approved = TRUE]
    OBVIOUS
  <2> HIDE DEF b, n
  <2>3. b = [at |-> k.at, tool |-> k.tool, refuses |-> k.refuses, told |-> k.told, approved |-> TRUE]
    BY <1>3, <2>2 DEF CallStates
  <2>4. k.at \in {"idle", "approval", "ran", "refused"}
    BY <1>1
  <2>5. b \in CallStates
    BY <1>a, <2>3, <2>4, CallRecord
  <2>6. b.told = <<>> /\ b.refuses \cap ToSet(Fatal) = {} /\ ("approval" \in b.refuses => b.approved)
    BY <1>3, <2>3
  <2>7. CallFollowsGate(n)
    BY <2>1, <2>5, <2>6, ApprovedFollows
  <2> QED
    BY <1>1, <2>7, CallMoves
<1>5. CASE answer = "no"
  <2>1. n = Refused(k, "rejected")
    BY <1>5
  <2> HIDE DEF n
  <2>2. "rejected" \in Reasons \cup {"rejected"}
    OBVIOUS
  <2>3. CallFollowsGate(n)
    BY <1>3, <2>1, <2>2, RefusalTold
  <2> QED
    BY <1>1, <2>3, CallMoves
<1>6. CASE answer = "throws"
  <2>1. n = [k EXCEPT !.at = "refused"]
    BY <1>6
  <2> HIDE DEF n
  <2>2. n = [at |-> "refused", tool |-> k.tool, refuses |-> k.refuses, told |-> k.told,
             approved |-> k.approved]
    BY <1>3, <2>1 DEF CallStates
  <2>3. n \in CallStates
    BY <1>a, <2>2, CallRecord
  <2>4. CallFollowsGate(n)
    BY <1>3, <2>2, <2>3 DEF CallFollowsGate
  <2> QED
    BY <1>1, <2>4, CallMoves
<1> QED
  BY <1>4, <1>5, <1>6

(* Registrations: the closures that have not been called.                    *)
Open(p) == {h \in DOMAIN handles : handles[h].policy = p /\ ~ handles[h].removed}

(* They are finitely many.                                                   *)
LEMMA OpenFinite ==
  ASSUME ListsFollow, NEW p
  PROVE  IsFiniteSet(Open(p)) /\ Cardinality(Open(p)) \in Nat /\ Open(p) \subseteq DOMAIN handles
<1>1. Len(handles) \in Nat /\ DOMAIN handles = 1 .. Len(handles)
  BY LenProperties DEF ListsFollow
<1>2. IsFiniteSet(DOMAIN handles)
  BY <1>1, FS_Interval
<1>3. Open(p) \subseteq DOMAIN handles
  BY DEF Open
<1> QED
  BY <1>2, <1>3, FS_Subset, FS_CardinalityType

(* As many as there are policies in the list, of each.                       *)
OpenCounted == \A p \in Policies : Cardinality(At(policies, p)) = Cardinality(Open(p))

(* The count of the registrations, in these terms.                           *)
LEMMA CountedBy == RegistrationsCounted <=> OpenCounted
BY DEF RegistrationsCounted, OpenCounted, Places, At, Open

(* Of a check that goes on nothing else depends on the list.                 *)
LEMMA CheckStays ==
  ASSUME NEW k, CheckFollows(k),
         k.at = "asking" => /\ k.since \subseteq ToSet(policies')
                            /\ Cardinality(Missed(k) \ Ahead(k)') <= k.shifts
  PROVE  CheckFollows(k)'
BY DEF CheckFollows, Missed, CheckStates, Warnings

(* A policy is registered: what is behind the walk's place stays so.         *)
LEMMA RegistersKeeps ==
  ASSUME SafetyIInv, NEW p \in Policies, Registers(p) PROVE SafetyIInv'
<1>1. /\ policies' = Append(policies, p)
      /\ handles' = Append(handles, [policy |-> p, removed |-> FALSE])
      /\ Len(handles) < MaxRegistered /\ UNCHANGED <<check, call>>
  BY DEF Registers
<1>2. ListsFollow /\ EachCheckFollows /\ EachCallFollows
  BY SafetyParts
<1>3. /\ policies \in Seq(Policies) /\ handles \in Seq([policy : Policies, removed : BOOLEAN])
      /\ Len(policies) \in Nat /\ Len(handles) \in Nat /\ Len(policies) <= Len(handles)
      /\ DOMAIN policies = 1 .. Len(policies) /\ DOMAIN handles = 1 .. Len(handles)
  BY <1>2, LenProperties DEF ListsFollow
<1> DEFINE r == [policy |-> p, removed |-> FALSE]
           n == Len(policies)
           m == Len(handles)
<1>4. r \in [policy : Policies, removed : BOOLEAN] /\ r.policy = p /\ ~ r.removed
  OBVIOUS
<1>5. handles' = Append(handles, r)
  BY <1>1
<1> HIDE DEF r
<1>6. /\ policies' \in Seq(Policies) /\ Len(policies') = n + 1
      /\ \A i \in 1 .. n : policies'[i] = policies[i]
  BY <1>1, <1>3, AppendProperties
<1>7. /\ handles' \in Seq([policy : Policies, removed : BOOLEAN]) /\ Len(handles') = m + 1
      /\ \A i \in 1 .. m : handles'[i] = handles[i]
      /\ handles'[m + 1] = r
  BY <1>3, <1>4, <1>5, AppendProperties
<1>8. DOMAIN policies' = 1 .. n + 1 /\ DOMAIN handles' = 1 .. m + 1
  BY <1>6, <1>7, LenProperties
<1>9. Len(policies') <= Len(handles') /\ Len(handles') <= MaxRegistered
  BY <1>1, <1>3, <1>6, <1>7, RegistrationsAssumption
<1>10. ASSUME NEW q \in Policies PROVE Cardinality(At(policies', q)) = Cardinality(Open(q)')
  <2>1. Cardinality(At(policies', q)) = Cardinality(At(policies, q)) + (IF p = q THEN 1 ELSE 0)
    BY <1>1, <1>3, CountAppend
  <2>2. Open(q)' = IF p = q THEN Open(q) \cup {m + 1} ELSE Open(q)
    BY <1>3, <1>4, <1>7, <1>8 DEF Open
  <2>3. m + 1 \notin Open(q)
    BY <1>3 DEF Open
  <2>4. IsFiniteSet(Open(q)) /\ Cardinality(Open(q)) \in Nat
    BY <1>2, OpenFinite
  <2>5. Cardinality(Open(q) \cup {m + 1}) = Cardinality(Open(q)) + 1
    BY <2>3, <2>4, FS_AddElement
  <2>6. Cardinality(At(policies, q)) = Cardinality(Open(q))
    BY <1>2, CountedBy DEF ListsFollow, OpenCounted
  <2> QED
    BY <2>1, <2>2, <2>4, <2>5, <2>6
<1>11. RegistrationsCounted'
  <2>1. OpenCounted'
    BY <1>10 DEF OpenCounted, At
  <2> QED
    BY <2>1, CountedBy, PTL
<1>12. ListsFollow'
  BY <1>6, <1>7, <1>9, <1>11 DEF ListsFollow
<1>13. ASSUME NEW c \in Checks PROVE CheckFollows(check[c])'
  <2>a. PICK k : k = check[c]
    OBVIOUS
  <2>1. CheckFollows(k) /\ check'[c] = k
    BY <1>1, <1>2, <2>a DEF EachCheckFollows
  <2>2. \A j \in DOMAIN policies : j \in DOMAIN policies' /\ policies'[j] = policies[j]
    BY <1>3, <1>6, <1>8
  <2>3. ToSet(policies) \subseteq ToSet(policies')
    BY <2>2 DEF ToSet
  <2>4. Ahead(k) \subseteq Ahead(k)'
    BY <2>2 DEF Ahead
  <2>5. ASSUME k.at = "asking" PROVE Cardinality(Missed(k) \ Ahead(k)') <= k.shifts
    <3> DEFINE new == Missed(k) \ Ahead(k)'
               old == Missed(k) \ Ahead(k)
    <3>1. /\ k.since \subseteq ToSet(policies) /\ Cardinality(old) <= k.shifts
          /\ k.shifts \in Nat
      BY <2>1, <2>5 DEF CheckFollows, CheckStates
    <3>2. IsFiniteSet(k.since)
      BY <1>3, <3>1, ListFinite, FS_Subset
    <3>3. new \subseteq old /\ old \subseteq k.since
      BY <2>4 DEF Missed
    <3> HIDE DEF new, old
    <3>4. /\ IsFiniteSet(old) /\ IsFiniteSet(new) /\ Cardinality(new) <= Cardinality(old)
      BY <3>2, <3>3, FS_Subset
    <3>5. Cardinality(old) \in Nat /\ Cardinality(new) \in Nat
      BY <3>4, FS_CardinalityType
    <3>6. Cardinality(new) <= k.shifts
      BY <3>1, <3>4, <3>5
    <3> QED
      BY <3>6 DEF new
  <2>6. k.at = "asking" => k.since \subseteq ToSet(policies')
    BY <2>1, <2>3 DEF CheckFollows
  <2>7. CheckFollows(k)'
    BY <2>1, <2>5, <2>6, CheckStays
  <2> QED
    BY <2>1, <2>7
<1>14. EachCheckFollows' /\ EachCallFollows'
  BY <1>1, <1>2, <1>13 DEF EachCheckFollows, EachCallFollows, CheckStates, CallStates, CallFollowsGate
<1> QED
  BY <1>12, <1>14, SafetyParts, PTL

(* A closure that was not called before takes out a policy, one that was     *)
(* called does nothing.                                                      *)
LEMMA PlaceIs ==
  ASSUME ListsFollow, NEW h \in DOMAIN handles
  PROVE  \/ /\ Place(h) = 0 /\ handles[h].removed
         \/ /\ Place(h) # 0 /\ ~ handles[h].removed /\ Place(h) \in DOMAIN policies
            /\ policies[Place(h)] = handles[h].policy
            /\ \A j \in DOMAIN policies : policies[j] = policies[Place(h)] => Place(h) <= j
<1> DEFINE q == handles[h].policy
<1>1. /\ policies \in Seq(Policies) /\ q \in Policies
      /\ Len(policies) \in Nat /\ DOMAIN policies = 1 .. Len(policies)
  <2>1. policies \in Seq(Policies) /\ handles \in Seq([policy : Policies, removed : BOOLEAN])
    BY DEF ListsFollow
  <2>2. handles[h] \in [policy : Policies, removed : BOOLEAN]
    <3>1. h \in 1 .. Len(handles)
      BY <2>1, LenProperties
    <3> QED
      BY <2>1, <3>1, ElementOfSeq
  <2> QED
    BY <2>1, <2>2, LenProperties
<1>2. CASE handles[h].removed
  BY <1>2 DEF Place
<1>3. CASE ~ handles[h].removed
  <2>1. h \in Open(q) /\ IsFiniteSet(Open(q)) /\ Cardinality(Open(q)) \in Nat
    BY <1>3, OpenFinite DEF Open
  <2> HIDE DEF q
  <2>2. Cardinality(Open(q)) # 0
    BY <2>1, FS_EmptySet
  <2>3. Cardinality(At(policies, q)) = Cardinality(Open(q))
    BY <1>1, CountedBy DEF ListsFollow, OpenCounted
  <2>4. At(policies, q) # {}
    BY <2>2, <2>3, FS_EmptySet
  <2>5. Places(q) # {} /\ Places(q) \in SUBSET Nat /\ Places(q) \subseteq DOMAIN policies
    BY <1>1, <2>4 DEF Places, At
  <2>6. Place(h) = Min(Places(q))
    BY <1>3, <2>5 DEF Place, q
  <2>7. Place(h) \in Places(q) /\ \A j \in Places(q) : Place(h) <= j
    BY <2>5, <2>6, SmallestOf
  <2>8. Place(h) \in DOMAIN policies /\ policies[Place(h)] = q
    BY <2>7 DEF Places
  <2>9. Place(h) # 0
    BY <1>1, <2>8
  <2>10. \A j \in DOMAIN policies : policies[j] = q => j \in Places(q)
    BY DEF Places
  <2> QED
    BY <1>3, <2>7, <2>8, <2>9, <2>10 DEF q
<1> QED
  BY <1>2, <1>3

(* Nothing moves.                                                            *)
LEMMA SafetyStays ==
  ASSUME SafetyIInv, UNCHANGED safetyVars PROVE SafetyIInv'
<1>1. policies' = policies /\ handles' = handles /\ check' = check /\ call' = call
  BY DEF safetyVars
<1>2. ListsFollow /\ EachCheckFollows /\ EachCallFollows
  BY SafetyParts
<1>3. ListsFollow'
  BY <1>1, <1>2 DEF ListsFollow, RegistrationsCounted, Places
<1>a. \A k : CheckFollows(k)' <=> CheckFollows(k)
  BY <1>1 DEF CheckFollows, CheckStates, Missed, Ahead, Warnings
<1>b. \A c \in Checks : CheckFollows(check'[c])
  BY <1>1, <1>2 DEF EachCheckFollows
<1>c. \A c \in Checks : CheckFollows(check[c])'
  BY <1>a, <1>b
<1>4. EachCheckFollows'
  BY <1>1, <1>2, <1>c DEF EachCheckFollows, CheckStates
<1>5. EachCallFollows'
  BY <1>1, <1>2 DEF EachCallFollows, CallFollowsGate, CallStates
<1> QED
  BY <1>3, <1>4, <1>5, SafetyParts, PTL

(* A policy is taken out, and with it a closure's claim to one.              *)
LEMMA RemovesKeeps ==
  ASSUME SafetyIInv, NEW h, Removes(h) PROVE SafetyIInv'
<1>1. /\ h \in DOMAIN handles /\ handles' = [handles EXCEPT ![h].removed = TRUE]
      /\ policies' = IF Place(h) = 0 THEN policies ELSE RemoveAt(policies, Place(h))
      /\ check' = [c \in Checks |->
            IF check[c].at # "asking" \/ Place(h) = 0 THEN check[c]
            ELSE [check[c] EXCEPT !.since = @ \cap ToSet(policies'),
                                  !.shifts = IF Place(h) <= check[c].cursor THEN @ + 1 ELSE @]]
      /\ call' = call
  BY DEF Removes
<1>2. ListsFollow /\ EachCheckFollows /\ EachCallFollows
  BY SafetyParts
<1>3. /\ policies \in Seq(Policies) /\ handles \in Seq([policy : Policies, removed : BOOLEAN])
      /\ Len(policies) \in Nat /\ Len(handles) \in Nat /\ Len(policies) <= Len(handles)
      /\ Len(handles) <= MaxRegistered
      /\ DOMAIN policies = 1 .. Len(policies) /\ DOMAIN handles = 1 .. Len(handles)
  BY <1>2, LenProperties DEF ListsFollow
<1>4. /\ check \in [Checks -> CheckStates] /\ \A c \in Checks : CheckFollows(check[c])
  BY <1>2 DEF EachCheckFollows
<1>5. handles[h] \in [policy : Policies, removed : BOOLEAN]
  BY <1>1, <1>3, ElementOfSeq
<1>6. CASE Place(h) = 0
  <2>1. handles[h].removed
    BY <1>1, <1>2, <1>6, PlaceIs
  <2>2. [handles[h] EXCEPT !.removed = TRUE] = handles[h]
    BY <1>5, <2>1
  <2>a. handles \in [1 .. Len(handles) -> [policy : Policies, removed : BOOLEAN]]
    BY <1>3, LenProperties
  <2>b. handles' = [handles EXCEPT ![h] = [handles[h] EXCEPT !.removed = TRUE]]
    BY <1>1
  <2>3. handles' = handles
    BY <1>1, <2>2, <2>a, <2>b
  <2>4. check' = check
    BY <1>1, <1>4, <1>6
  <2> QED
    BY <1>1, <1>6, <2>3, <2>4, SafetyStays DEF safetyVars
<1>7. CASE Place(h) # 0
  <2>a. PICK pl : pl = Place(h)
    OBVIOUS
  <2>1. /\ ~ handles[h].removed /\ pl \in DOMAIN policies /\ pl # 0
        /\ policies[pl] = handles[h].policy
        /\ \A j \in DOMAIN policies : policies[j] = policies[pl] => pl <= j
    BY <1>1, <1>2, <1>7, <2>a, PlaceIs
  <2>2. policies' = RemoveAt(policies, pl)
    BY <1>1, <1>7, <2>a
  <2>3. /\ policies' \in Seq(Policies) /\ Len(policies') = Len(policies) - 1
    BY <1>3, <2>1, <2>2, RemoveAtProperties
  <2>4. /\ handles' \in Seq([policy : Policies, removed : BOOLEAN])
        /\ Len(handles') = Len(handles) /\ DOMAIN handles' = DOMAIN handles
        /\ \A j \in DOMAIN handles : handles'[j] = IF j = h THEN [handles[h] EXCEPT !.removed = TRUE]
                                                   ELSE handles[j]
    <3>1. [handles[h] EXCEPT !.removed = TRUE] \in [policy : Policies, removed : BOOLEAN]
      BY <1>5
    <3> DEFINE r == [handles[h] EXCEPT !.removed = TRUE]
    <3>2. handles' = [handles EXCEPT ![h] = r]
      BY <1>1
    <3> HIDE DEF r
    <3>3. /\ handles' \in Seq([policy : Policies, removed : BOOLEAN])
          /\ Len(handles') = Len(handles)
      <4>1. r \in [policy : Policies, removed : BOOLEAN]
        BY <3>1 DEF r
      <4> DEFINE R == [policy : Policies, removed : BOOLEAN]
      <4>2. handles \in Seq(R) /\ r \in R /\ h \in 1 .. Len(handles)
        BY <1>1, <1>3, <4>1
      <4> HIDE DEF R
      <4>3. [handles EXCEPT ![h] = r] \in Seq(R) /\ Len([handles EXCEPT ![h] = r]) = Len(handles)
        BY <4>2, ExceptSeq
      <4> QED
        BY <3>2, <4>3 DEF R
    <3>4. /\ DOMAIN handles' = DOMAIN handles
          /\ \A j \in DOMAIN handles : handles'[j] = IF j = h THEN r ELSE handles[j]
      BY <1>1, <1>3, <3>2
    <3> QED
      BY <3>3, <3>4 DEF r
  <2>5. ASSUME NEW q \in Policies PROVE Cardinality(At(policies', q)) = Cardinality(Open(q)')
    <3>1. Cardinality(At(policies, q))
             = Cardinality(At(policies', q)) + (IF policies[pl] = q THEN 1 ELSE 0)
      BY <1>3, <2>1, <2>2, CountRemoved
    <3>2. Open(q)' = Open(q) \ {h}
      BY <1>5, <2>4 DEF Open
    <3>3. h \in Open(q) <=> policies[pl] = q
      BY <1>1, <2>1 DEF Open
    <3>4. IsFiniteSet(Open(q)) /\ Cardinality(Open(q)) \in Nat
      BY <1>2, OpenFinite
    <3>5. Cardinality(Open(q) \ {h})
             = IF h \in Open(q) THEN Cardinality(Open(q)) - 1 ELSE Cardinality(Open(q))
      BY <3>4, FS_RemoveElement
    <3>6. Cardinality(At(policies, q)) = Cardinality(Open(q))
      BY <1>2, CountedBy DEF ListsFollow, OpenCounted
    <3>7. Cardinality(At(policies', q)) \in Nat
      BY <2>3, AtIsFinite
    <3> QED
      BY <3>1, <3>2, <3>3, <3>4, <3>5, <3>6, <3>7
  <2>6. RegistrationsCounted'
    <3>1. OpenCounted'
      BY <2>5 DEF OpenCounted, At
    <3> QED
      BY <3>1, CountedBy, PTL
  <2>7. ListsFollow'
    <3>1. Len(policies') <= Len(handles') /\ Len(handles') <= MaxRegistered
      BY <1>3, <2>3, <2>4
    <3> QED
      BY <2>3, <2>4, <2>6, <3>1 DEF ListsFollow
  <2>8. ASSUME NEW c \in Checks PROVE CheckFollows(check[c])'
    <3>a. PICK k : k = check[c]
      OBVIOUS
    <3>1. CheckFollows(k) /\ k \in CheckStates
      BY <1>4, <3>a
    <3>2. check'[c] = IF k.at # "asking" THEN k
                      ELSE [k EXCEPT !.since = @ \cap ToSet(policies'),
                                     !.shifts = IF pl <= k.cursor THEN @ + 1 ELSE @]
      BY <1>1, <1>7, <2>a, <3>a
    <3>3. CASE k.at # "asking"
      <4>1. CheckFollows(k)'
        BY <3>1, <3>3, CheckStays
      <4> QED
        BY <3>2, <3>3, <4>1
    <3>4. CASE k.at = "asking"
      <4> DEFINE s == k.since \cap ToSet(policies')
                 f == IF pl <= k.cursor THEN k.shifts + 1 ELSE k.shifts
                 val == [k EXCEPT !.since = s, !.shifts = f]
      <4>a. PICK n : n = val
        OBVIOUS
      <4>1. check'[c] = n
        BY <3>2, <3>4, <4>a
      <4>2. s \in SUBSET Policies /\ f \in Nat
        BY <3>1 DEF CheckStates
      <4>3. n = [k EXCEPT !.since = s, !.shifts = f]
        BY <4>a
      <4> HIDE DEF s, f, val
      <4>4. n = [at |-> k.at, cursor |-> k.cursor, heard |-> k.heard, told |-> k.told,
                 error |-> k.error, asked |-> k.asked, since |-> s, shifts |-> f]
        BY <3>1, <4>3 DEF CheckStates
      <4>5. /\ k.at \in {"idle", "admitted", "asking", "passed", "refused"} /\ k.cursor \in Nat
            /\ k.heard \in Seq(Severities) /\ k.told \in Nat
            /\ k.error \in ToSet(Objections) \cup {"none", "policy", "thrown"}
            /\ k.asked \in SUBSET Policies
        BY <3>1 DEF CheckStates
      <4>6. n \in CheckStates
        BY <4>2, <4>4, <4>5, CheckRecord
      <4>7. k.since \subseteq ToSet(policies) /\ Cardinality(Missed(k) \ Ahead(k)) <= k.shifts
        BY <3>1, <3>4 DEF CheckFollows
      <4>8. /\ n.cursor = k.cursor /\ n.asked = k.asked /\ n.since = k.since \cap ToSet(policies')
            /\ n.shifts = IF pl <= k.cursor THEN k.shifts + 1 ELSE k.shifts
        BY <4>4 DEF s, f
      <4>9. Cardinality(Missed(n) \ Ahead(n)') <= n.shifts
        BY <1>3, <2>1, <2>2, <3>1, <4>6, <4>7, <4>8, WalkIsMoved
      <4>10. n.since \subseteq ToSet(policies')
        BY <4>8
      <4>11. /\ n.at = "asking" /\ n.error = k.error /\ n.told = k.told /\ n.heard = k.heard
             /\ n.asked = k.asked
        BY <3>4, <4>4
      <4>12. CheckFollows(n)'
        BY <3>1, <3>4, <4>6, <4>9, <4>10, <4>11 DEF CheckFollows, CheckStates, Warnings, Missed
      <4> QED
        BY <4>1, <4>12
    <3> QED
      BY <3>3, <3>4
  <2>9. check' \in [Checks -> CheckStates]
    <3> SUFFICES ASSUME NEW c \in Checks PROVE check'[c] \in CheckStates
      BY <1>1
    <3>1. CheckFollows(check[c])'
      BY <2>8
    <3> QED
      BY <3>1 DEF CheckFollows, CheckStates
  <2>10. EachCheckFollows' /\ EachCallFollows'
    BY <1>1, <1>2, <2>8, <2>9 DEF EachCheckFollows, EachCallFollows, CheckStates, CallStates, CallFollowsGate
  <2> QED
    BY <2>7, <2>10, SafetyParts, PTL
<1> QED
  BY <1>6, <1>7

(* Each step of the checks keeps their invariant.                            *)
LEMMA SafetyKeeps ==
  ASSUME SafetyIInv, SafetyNext PROVE SafetyIInv'
<1>1. \A verdict \in {<<>>, <<"warning">>, <<"warning", "error">>} : verdict \in Seq(Severities)
  <2>1. <<>> \in Seq(Severities) /\ <<"warning">> \in Seq(Severities)
    BY DEF Severities
  <2>2. <<"warning", "error">> \in Seq(Severities)
    BY DEF Severities
  <2> QED
    BY <2>1, <2>2
<1>2. \A refuses \in Refusals : refuses \in SUBSET Reasons
  BY DEF Refusals, Reasons
<1>3. CASE \E p \in Policies : Registers(p)
  BY <1>3, RegistersKeeps
<1>4. CASE \E h \in 1 .. MaxRegistered : Removes(h)
  BY <1>4, RemovesKeeps
<1>5. ASSUME NEW c \in Checks,
             \/ \E objections \in {{}, {"depth", "path"}}, marked \in BOOLEAN :
                   Baseline(c, objections, marked)
             \/ Business(c)
             \/ \E verdict \in {<<>>, <<"warning">>, <<"warning", "error">>} : Answers(c, verdict)
             \/ Throws(c)
      PROVE  SafetyIInv'
  <2>1. CASE \E objections \in {{}, {"depth", "path"}}, marked \in BOOLEAN :
                Baseline(c, objections, marked)
    BY <2>1, BaselineKeeps
  <2>2. CASE Business(c)
    BY <2>2, BusinessKeeps
  <2>3. CASE \E verdict \in {<<>>, <<"warning">>, <<"warning", "error">>} : Answers(c, verdict)
    BY <1>1, <2>3, AnswersKeeps
  <2>4. CASE Throws(c)
    BY <2>4, ThrowsKeeps
  <2> QED
    BY <1>5, <2>1, <2>2, <2>3, <2>4
<1>6. ASSUME NEW n \in Calls,
             \/ \E isTool \in BOOLEAN, refuses \in Refusals : Gate(n, isTool, refuses)
             \/ \E answer \in {"yes", "no", "throws"} : Decides(n, answer)
      PROVE  SafetyIInv'
  <2>1. CASE \E isTool \in BOOLEAN, refuses \in Refusals : Gate(n, isTool, refuses)
    BY <1>2, <2>1, GateKeeps
  <2>2. CASE \E answer \in {"yes", "no", "throws"} : Decides(n, answer)
    BY <2>2, DecidesKeeps
  <2> QED
    BY <1>6, <2>1, <2>2
<1> QED
  BY <1>3, <1>4, <1>5, <1>6 DEF SafetyNext

(* Nothing is registered, checked or called at first.                        *)
LEMMA SafetyInitially ==
  ASSUME SafetyInit PROVE SafetyIInv
<1>1. /\ policies = <<>> /\ handles = <<>>
      /\ check = [c \in Checks |-> Idle] /\ call = [n \in Calls |-> NoCall]
  BY DEF SafetyInit
<1>2. ListsFollow
  <2>1. \A p : Places(p) = {}
    BY <1>1 DEF Places
  <2>2. \A p : {h \in DOMAIN handles : handles[h].policy = p /\ ~ handles[h].removed} = {}
    BY <1>1
  <2>3. RegistrationsCounted
    BY <2>1, <2>2 DEF RegistrationsCounted
  <2>4. Len(policies) = 0 /\ Len(handles) = 0
    BY <1>1
  <2> QED
    BY <1>1, <2>3, <2>4, RegistrationsAssumption DEF ListsFollow
<1>3. EachCheckFollows
  <2>1. Warnings(<<>>) = 0
    <3>1. {i \in DOMAIN <<>> : <<>>[i] = "warning"} = {}
      OBVIOUS
    <3> QED
      BY <3>1, FS_EmptySet DEF Warnings
  <2>2. "error" \notin ToSet(<<>>)
    BY DEF ToSet
  <2>3. CheckFollows(Idle)
    BY <2>1, <2>2, IdleIs DEF CheckFollows
  <2> QED
    BY <1>1, <2>3, IdleIs DEF EachCheckFollows
<1>4. EachCallFollows
  <2>1. NoCall = [at |-> "idle", tool |-> FALSE, refuses |-> {}, told |-> <<>>, approved |-> FALSE]
    BY DEF NoCall
  <2>2. <<>> \in Seq(Reasons \cup {"rejected"}) /\ {} \in SUBSET Reasons
    OBVIOUS
  <2>3. NoCall \in CallStates
    BY <2>1, <2>2, CallRecord
  <2>4. CallFollowsGate(NoCall)
    BY <2>1, <2>3 DEF CallFollowsGate
  <2> QED
    BY <1>1, <2>3, <2>4 DEF EachCallFollows
<1> QED
  BY <1>2, <1>3, <1>4, SafetyParts

(* What is promised of the checks.                                           *)
LEMMA SafetyFollows == SafetyIInv => SafetySound
BY DEF SafetyIInv

(* The invariant of the routing and of the checks, whatever the order of     *)
(* their steps.                                                              *)
THEOREM AdmissionInvariant == AdmissionSpec => []AdmissionIInv
<1>1. AdmissionInit => AdmissionIInv
  BY RoutingInitially, SafetyInitially DEF AdmissionInit, AdmissionIInv
<1>2. AdmissionIInv /\ [AdmissionNext]_admissionVars => AdmissionIInv'
  <2> SUFFICES ASSUME AdmissionIInv, [AdmissionNext]_admissionVars PROVE RouteIInv' /\ SafetyIInv'
    BY DEF AdmissionIInv
  <2>1. RouteIInv /\ SafetyIInv
    BY DEF AdmissionIInv
  <2>2. CASE RoutingNext /\ UNCHANGED safetyVars
    BY <2>1, <2>2, RoutingKeeps, SafetyStays
  <2>3. CASE SafetyNext /\ UNCHANGED routingVars
    BY <2>1, <2>3, SafetyKeeps, RoutingStays
  <2>4. CASE UNCHANGED admissionVars
    <3>1. UNCHANGED routingVars /\ UNCHANGED safetyVars
      BY <2>4 DEF admissionVars
    <3> QED
      BY <2>1, <3>1, RoutingStays, SafetyStays
  <2> QED
    BY <2>2, <2>3, <2>4 DEF AdmissionNext
<1> QED
  BY <1>1, <1>2, PTL DEF AdmissionSpec

(* Every reachable state is of its type.                                     *)
THEOREM AdmissionTypes == AdmissionSpec => [](RoutingTypeOK /\ SafetyTypeOK)
<1>1. AdmissionIInv => RoutingTypeOK /\ SafetyTypeOK
  BY DEF AdmissionIInv, RouteIInv, SafetyIInv
<1> QED
  BY <1>1, AdmissionInvariant, PTL

(* In whatever order the strategies answer and policies come and go: the     *)
(* selection, the task and the offer of a turn follow the host's policy, and *)
(* nothing runs or passes that something speaks against.                     *)
THEOREM ToolsAreAdmitted == AdmissionSpec => []ToolsAdmitted
<1>1. AdmissionIInv => ToolsAdmitted
  BY RouteFollows, SafetyFollows DEF AdmissionIInv, ToolsAdmitted
<1> QED
  BY <1>1, AdmissionInvariant, PTL
=============================================================================
