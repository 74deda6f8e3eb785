---------------------------- MODULE MCEvalSweep ----------------------------
(* Three cells, the last one broken; two places, two failing calls, a kill. *)
EXTENDS EvalSweep

CONSTANTS cell1, cell2, cell3

MCCells == <<cell1, cell2, cell3>>
=============================================================================
