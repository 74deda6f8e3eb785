\* The pilot process, started, failing and started again.
SPECIFICATION FairSpec
CONSTANTS
  Pilots = {pilot1, pilot2}
  NoPilot = unlocked
  MaxCmd = 3
  MaxStart = 3
INVARIANTS
  TypeOK
  EachCommandOnce
PROPERTIES
  EstopOrExit
  CommandsBegin
CHECK_DEADLOCK FALSE
