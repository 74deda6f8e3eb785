--------------------------- MODULE MCDeepSidecar ---------------------------
(* Two tool threads beside the slow lane; two words and one that is too     *)
(* long, one word per call.                                                 *)
EXTENDS DeepSidecar
=============================================================================
