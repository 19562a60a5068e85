--------------------------- MODULE MCHookRegistry ---------------------------
(* HookRegistry for TLC: two registered handlers are enough for the order and *)
(* the races; the merge is followed two answers further by its property.      *)
EXTENDS HookRegistry
=============================================================================
