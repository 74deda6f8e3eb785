\* Parallel tool calls, cleanups slower than 5 s, the estop through the arbiter.
CONSTANTS
  c1 = c1
  c2 = c2
  o1 = o1
  o2 = o2
  e1 = e1
  None = None
  Calls = {c1, c2}
  Ops = {o1, o2}
  Stops = {}
  Estops = {e1}
  Landings = {e1}
  Slow = {c1, o1}
  Overlap = TRUE
  Latched = TRUE
SPECIFICATION FairSpec
INVARIANTS
  LiveOpClosesGate
PROPERTIES
  EstopAnswered
