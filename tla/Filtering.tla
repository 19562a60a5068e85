------------------------------ MODULE Filtering -----------------------------
(***************************************************************************)
(* Array.prototype.filter and find, of the elements in a set.  What they   *)
(* give is said by the indices of the elements, without recursion, so that *)
(* it can be reasoned about.                                               *)
(***************************************************************************)
EXTENDS Naturals, FiniteSets, Sequences

(* The indices of the elements of list that are in T, and those up to i.     *)
Hits(list, T) == {i \in DOMAIN list : list[i] \in T}
HitsUpTo(list, T, i) == {j \in Hits(list, T) : j <= i}

(* filter: the n-th element is the one with n of them up to it.              *)
Kept(list, T) ==
    [n \in 1 .. Cardinality(Hits(list, T)) |->
        list[CHOOSE i \in Hits(list, T) : Cardinality(HitsUpTo(list, T, i)) = n]]

(* find, where some element is in T.                                         *)
FirstOf(list, T) ==
    list[CHOOSE i \in Hits(list, T) : \A j \in Hits(list, T) : i <= j]
=============================================================================
