\* A pursuit over a building of 5 m at a commanded altitude of 4 m.
CONSTANTS
  n1 = n1
  n2 = n2
  None = None
  Names = {n1, n2}
  Roofs = {0, 5}
  Alt = 4
  Budget = 2
  Duration = 5
  LostS = 2
  Attempts = 4
\* The module ends with its call.
CHECK_DEADLOCK FALSE
SPECIFICATION Spec
INVARIANTS
  AboveRoof
