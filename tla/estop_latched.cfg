\* The operator submits while an estop that latches is cancelling.
CONSTANTS
  c1 = c1
  c2 = c2
  o1 = o1
  o2 = o2
  e1 = e1
  None = None
  Calls = {c1, c2}
  Ops = {o1, o2}
  Stops = {o2}
  Estops = {e1}
  Landings = {e1}
  Slow = {}
  Overlap = FALSE
  Latched = TRUE
SPECIFICATION Spec
PROPERTIES
  NoSubmissionUnderLatch
