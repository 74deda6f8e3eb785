---------------------------- MODULE MCVideoHub ----------------------------
(* Instances of VideoHub for TLC.                                           *)
EXTENDS VideoHub, TLC

CONSTANTS v1, v2
=============================================================================
