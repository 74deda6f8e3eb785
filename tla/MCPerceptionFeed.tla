-------------------------- MODULE MCPerceptionFeed --------------------------
(* A few frames, one camera, the slow lane on a backend whose armed gate    *)
(* was not lifted.                                                          *)
EXTENDS PerceptionFeed
=============================================================================
