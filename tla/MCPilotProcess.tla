--------------------------- MODULE MCPilotProcess ---------------------------
(* Two processes that may be started three times between them, three        *)
(* commands.                                                                *)
EXTENDS PilotProcess
=============================================================================
