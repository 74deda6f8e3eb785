\* An op preempts an op as a tool call arrives, in the shipped wiring.
CONSTANTS
  c1 = c1
  c2 = c2
  o1 = o1
  o2 = o2
  e1 = e1
  None = None
  Calls = {c1}
  Ops = {o1, o2}
  Stops = {}
  Estops = {e1}
  Landings = {e1}
  Slow = {}
  Overlap = FALSE
  Latched = FALSE
SPECIFICATION Spec
INVARIANTS
  OwnerHoldsSlot
