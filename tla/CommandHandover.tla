------------------------- MODULE CommandHandover --------------------------
(***************************************************************************)
(* How command of the drone changes hands in CommandAuthority.  At any time *)
(* one commander at most is within the reach of a cancel: the holder.  The  *)
(* next holder is granted when there is none, with one exception: the tool  *)
(* call that slipped in while an op handed over to the next op is overtaken *)
(* and flies on, loose.  An op is never loose, and no tool call begins      *)
(* beside another commander.                                                *)
(***************************************************************************)
CONSTANTS Calls, Ops, None

VARIABLES
  holder,   \* the commander a cancel reaches, or None
  loose,    \* the commanders no cancel reaches
  handover  \* an op was preempted by an op that has not begun

Init == holder = None /\ loose = {} /\ handover = FALSE

GrantCall(c) ==
  /\ holder = None /\ loose = {}
  /\ holder' = c
  /\ UNCHANGED <<loose, handover>>

GrantOp(o) ==
  /\ holder = None
  /\ holder' = o
  /\ handover' = FALSE
  /\ UNCHANGED loose

Overtake(o) ==
  /\ handover /\ holder \in Calls
  /\ holder' = o
  /\ loose' = loose \cup {holder}
  /\ handover' = FALSE

(* The holder ends or is cancelled.                                         *)
Revoke ==
  /\ holder # None
  /\ holder' = None
  /\ \/ UNCHANGED handover
     \/ holder \in Ops /\ handover' = TRUE
  /\ UNCHANGED loose

LooseEnds(t) ==
  /\ t \in loose
  /\ loose' = loose \ {t}
  /\ UNCHANGED <<holder, handover>>

Next ==
  \/ \E c \in Calls : GrantCall(c)
  \/ \E o \in Ops : GrantOp(o) \/ Overtake(o)
  \/ Revoke
  \/ \E t \in loose : LooseEnds(t)

command == <<holder, loose, handover>>

Spec == Init /\ [][Next]_command
=============================================================================
