------------------------- MODULE MCContactTracker -------------------------
(* Instances of ContactTracker for TLC: objects the gates can always tell   *)
(* apart.                                                                   *)
EXTENDS ContactTracker, TLC

CONSTANTS o1, o2

Apart == {}
Swaps == Permutations(Objects)
=============================================================================
