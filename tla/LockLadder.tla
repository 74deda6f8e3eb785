---------------------------- MODULE LockLadder ----------------------------
(***************************************************************************)
(* What the flight layer may rely on when it reads the track state of the   *)
(* contact it flies on: a lock is climbed to by fused ranges in a row, one  *)
(* by one, is given up only through COASTING, and nothing of it outlives    *)
(* the contact's silence.                                                   *)
(***************************************************************************)
EXTENDS Naturals

CONSTANTS
  Contacts,  \* the names a contact may be designated by
  Confirm,   \* fused ranges in a row that make a lock
  Slips,     \* misses in a row that cost one
  None

VARIABLES
  target,    \* the designated contact, or None
  rung,      \* its track state, "none" without a target
  ranges,    \* fused ranges in a row so far, to Confirm
  misses     \* misses since the last range, to Slips

Rungs == {"DESIGNATED", "ACQUIRING", "RANGE_LOCKED", "WORLD_TRACKED"}
Locked == {"RANGE_LOCKED", "WORLD_TRACKED"}

Counted(bound, n) == IF n < bound THEN n + 1 ELSE bound

Select(c) ==
  /\ target' = c
  /\ rung' \in {"DESIGNATED", "LOST"}
  /\ ranges' = 0 /\ misses' = 0

Release ==
  /\ target # None
  /\ target' = None /\ rung' = "none"
  /\ ranges' = 0 /\ misses' = 0

(* The contact is seen, and no range is due.                                *)
Begin ==
  /\ rung = "DESIGNATED"
  /\ rung' = "ACQUIRING"
  /\ UNCHANGED <<target, ranges, misses>>

(* One more fused range.                                                    *)
Range ==
  /\ rung \in Rungs \cup {"COASTING"}
  /\ ranges' = Counted(Confirm, ranges)
  /\ misses' = 0
  /\ rung' = CASE rung \in {"DESIGNATED", "ACQUIRING"} ->
                    IF ranges' = Confirm THEN "RANGE_LOCKED" ELSE "ACQUIRING"
               [] rung = "COASTING" -> "ACQUIRING"
               [] OTHER -> "WORLD_TRACKED"
  /\ UNCHANGED target

(* A look at the contact that yields no range, and does not cost a lock.    *)
Miss ==
  /\ rung \in Rungs \cup {"COASTING"}
  /\ ranges' = 0
  /\ misses' = Counted(Slips, misses)
  /\ rung \in Locked => misses' < Slips
  /\ rung' = IF rung = "DESIGNATED" THEN "ACQUIRING" ELSE rung
  /\ UNCHANGED target

(* Too many misses, or too long a silence.                                  *)
Fall ==
  /\ rung \in Rungs
  /\ rung' = "COASTING"
  /\ ranges' = 0
  /\ misses' \in {misses, Counted(Slips, misses)}
  /\ UNCHANGED target

Lose ==
  /\ rung \in {"DESIGNATED", "COASTING"}
  /\ rung' = "LOST"
  /\ misses' \in {misses, Counted(Slips, misses)}
  /\ UNCHANGED <<target, ranges>>

(* The contact is back under its name.                                      *)
Return ==
  /\ rung = "LOST"
  /\ rung' \in {"DESIGNATED", "ACQUIRING", "COASTING"}
  /\ UNCHANGED <<target, ranges, misses>>

Init == target = None /\ rung = "none" /\ ranges = 0 /\ misses = 0

Next ==
  \/ \E c \in Contacts : Select(c)
  \/ Release \/ Begin \/ Range \/ Miss \/ Fall \/ Lose \/ Return

Spec == Init /\ [][Next]_<<target, rung, ranges, misses>>
=============================================================================
