----------------------------- MODULE MCPursuit -----------------------------
(* Instances of Pursuit for TLC.                                            *)
EXTENDS Pursuit

CONSTANTS n1, n2
=============================================================================
