------------------------ MODULE MCCommandAuthority ------------------------
(* Instances of CommandAuthority for TLC.                                   *)
EXTENDS CommandAuthority

CONSTANTS c1, c2, o1, o2, e1
=============================================================================
