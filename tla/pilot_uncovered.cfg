\* A turn of the model without an estop: a supervisor that raised, or SIGINT.
SPECIFICATION Spec
CONSTANTS
  Pilots = {pilot1}
  NoPilot = unlocked
  MaxCmd = 1
  MaxStart = 1
INVARIANT
  EstopCoversTurn
CHECK_DEADLOCK FALSE
