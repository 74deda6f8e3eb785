\* Two names of one class, one building, a loss that fits the duration.
CONSTANTS
  n1 = n1
  n2 = n2
  None = None
  Names = {n1, n2}
  Roofs = {0}
  Alt = 2
  Budget = 2
  Duration = 5
  LostS = 2
  Attempts = 4
\* The module ends with its call.
CHECK_DEADLOCK FALSE
SPECIFICATION FairSpec
INVARIANTS
  TypeOK
  LeavesOffboard
  DesignationFollows
  LostBounded
PROPERTIES
  CallEnds
