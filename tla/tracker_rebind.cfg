\* A candidate whose first hit precedes the drop of its track.
CONSTANTS
  o1 = o1
  o2 = o2
  None = None
  Objects = {o1, o2}
  Near <- Apart
  MaxNames = 2
  Coast = 1
  Lost = 2
  RebindWindow = 2
  MaxGap = 1
  ConfirmHits = 2
  SlipN = 3
  Steady = TRUE
SYMMETRY Swaps
SPECIFICATION Spec
PROPERTIES
  RebindReevaluated
