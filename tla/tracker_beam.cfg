\* The beam while the frame's order of detections changes.
CONSTANTS
  o1 = o1
  o2 = o2
  None = None
  Objects = {o1, o2}
  Near <- Apart
  MaxNames = 2
  Coast = 1
  Lost = 2
  RebindWindow = 2
  MaxGap = 1
  ConfirmHits = 2
  SlipN = 3
  Steady = FALSE
SPECIFICATION Spec
INVARIANTS
  BeamOnDesignated
