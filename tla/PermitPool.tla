----------------------------- MODULE PermitPool -----------------------------
(***************************************************************************)
(* What a semaphore of the web-fetch server promises its clients: at most  *)
(* Permits of them hold a permit, a client that finds none waits, and a    *)
(* returned permit goes straight to a waiting client when there is one.    *)
(* The order in which waiting clients are served is not part of it.        *)
(***************************************************************************)
EXTENDS Naturals, FiniteSets

CONSTANTS
    Clients,        \* whoever acquires a permit
    Permits         \* permits of the pool

VARIABLES
    holders,        \* clients holding a permit
    waiting         \* clients waiting for one

poolVars == <<holders, waiting>>

(* Neither set holds anything but clients, and no client is in both.         *)
PoolTypeOK ==
    /\ holders \in SUBSET Clients
    /\ waiting \in SUBSET Clients
    /\ holders \cap waiting = {}
    /\ IsFiniteSet(holders)

Init == holders = {} /\ waiting = {}

Outside(c) == c \in Clients \ (holders \cup waiting)

Take(c) ==
    /\ Outside(c)
    /\ Cardinality(holders) < Permits
    /\ waiting = {}
    /\ holders' = holders \cup {c}
    /\ UNCHANGED waiting

Join(c) ==
    /\ Outside(c)
    /\ Cardinality(holders) = Permits
    /\ waiting' = waiting \cup {c}
    /\ UNCHANGED holders

GiveUp(c) ==
    /\ c \in waiting
    /\ waiting' = waiting \ {c}
    /\ UNCHANGED holders

Return(c) ==
    /\ c \in holders
    /\ waiting = {}
    /\ holders' = holders \ {c}
    /\ UNCHANGED waiting

HandOver(c, d) ==
    /\ c \in holders
    /\ d \in waiting
    /\ holders' = (holders \ {c}) \cup {d}
    /\ waiting' = waiting \ {d}

Next ==
    \/ \E c \in Clients : Take(c) \/ Join(c) \/ GiveUp(c) \/ Return(c)
    \/ \E c, d \in Clients : HandOver(c, d)

Spec == Init /\ [][Next]_poolVars

(* No more permits are out than the pool has.                                *)
PermitsBounded == Cardinality(holders) <= Permits

(* No client waits while a permit is free.                                   *)
NoIdlePermit == waiting # {} => Cardinality(holders) = Permits
=============================================================================
