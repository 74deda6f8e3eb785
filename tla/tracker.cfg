\* Two objects well apart, two names.
CONSTANTS
  o1 = o1
  o2 = o2
  None = None
  Objects = {o1, o2}
  Near <- Apart
  MaxNames = 2
  Coast = 1
  Lost = 2
  RebindWindow = 1
  MaxGap = 1
  ConfirmHits = 2
  SlipN = 2
  Steady = FALSE
SYMMETRY Swaps
SPECIFICATION Spec
INVARIANTS
  TypeOK
  LockHasPosition
PROPERTIES
  ImplementsLadder
  IdentityKept
