------------------------------ MODULE Compaction ------------------------------
(***************************************************************************)
(* How a conversation is shortened: HeadMiddleTailCompression.compress,    *)
(* trimEntries and compressEntries of packages/core/src/modules/memory.ts. *)
(*                                                                         *)
(* Abstractions: an entry is a number, given out in the order of the time  *)
(* stamps, and a summary the set of the entries it stands for; a log is in *)
(* the order of its time stamps; a summary by the provider and the text    *)
(* cut off at 2000 characters are the same.                                *)
(***************************************************************************)
EXTENDS Integers, Filtering

Raw(e) == [covers |-> {e}, anchored |-> FALSE]
Summary(es) == [covers |-> es, anchored |-> TRUE]
Covered(log) == UNION {log[i].covers : i \in DOMAIN log}

(* The places of the entries that are not anchored, and a place among them.  *)
Plain(log) == {i \in DOMAIN log : ~ log[i].anchored}
Rank(log, i) == Cardinality({j \in Plain(log) : j <= i})
Verbatim(log) == UNION {log[i].covers : i \in Plain(log)}

(* plain.slice(head, plain.length - tail): an end below zero counts from the *)
(* end of the array.                                                         *)
MiddleEnd(n, tail) == IF n >= tail THEN n - tail ELSE n + (n - tail)

Middle(log, head, tail) ==
    {i \in Plain(log) : Rank(log, i) \in head + 1 .. MiddleEnd(Cardinality(Plain(log)), tail)}

(* What stays: what is anchored, the head, and the tail of the rest; what is *)
(* of both stays twice.                                                      *)
Twice(log) == [k \in 1 .. 2 * Len(log) |-> [at |-> (k + 1) \div 2, again |-> k % 2 = 0]]
Staying(log, head, tail) ==
    LET last == Cardinality(Plain(log)) - tail
    IN [at : {i \in DOMAIN log : i \in Plain(log) => Rank(log, i) <= head}, again : {FALSE}]
         \cup [at : {i \in Plain(log) : Rank(log, i) > last}, again : {TRUE}]

(* They are sorted by time; one summary, made now and so the last, is in the *)
(* place of the middle.                                                      *)
HeadMiddleTail(log, head, tail) ==
    LET stays == Kept(Twice(log), Staying(log, head, tail))
        middle == Middle(log, head, tail)
    IN [k \in DOMAIN stays |-> log[stays[k].at]]
       \o (IF middle = {} THEN <<>>
           ELSE <<Summary(UNION {log[i].covers : i \in middle})>>)

(* A log this short is left alone.                                           *)
Short(log, head, tail) == Len(log) <= head + tail

-----------------------------------------------------------------------------
(* Whatever is anchored and whatever the options: nothing is forgotten, what *)
(* was a summary stays one, and if there are plain entries enough for a head *)
(* and a tail, every entry is there once.  When there are fewer, those which *)
(* are head and tail are there twice.                                        *)
Logs(n) == {[i \in 1 .. k |-> [covers |-> {i}, anchored |-> marks[i]]] :
               k \in 0 .. n, marks \in [1 .. n -> BOOLEAN]}

ShortensTo(log, head, tail) ==
    LET short == HeadMiddleTail(log, head, tail)
        n == Cardinality(Plain(log))
        Copies(e) == Cardinality({i \in DOMAIN short : e \in short[i].covers})
    IN /\ Covered(short) = Covered(log)
       /\ \A i \in DOMAIN log : log[i].anchored => log[i] \in {short[k] : k \in DOMAIN short}
       /\ n >= head + tail =>
            /\ \A i \in DOMAIN log : Copies(i) = 1
            /\ Cardinality(Plain(short)) = head + tail
       /\ n < head + tail =>
            \A i \in DOMAIN log : (Rank(log, i) \in n - tail + 1 .. head /\ ~ log[i].anchored)
                                    => Copies(i) > 1

CompactionSound(n, keeps) ==
    \A log \in Logs(n), head \in keeps, tail \in keeps : ShortensTo(log, head, tail)
=============================================================================
