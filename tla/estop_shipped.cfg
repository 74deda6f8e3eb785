\* The estop as PilotAgent.run wires it, against a tool call.
CONSTANTS
  c1 = c1
  c2 = c2
  o1 = o1
  o2 = o2
  e1 = e1
  None = None
  Calls = {c1, c2}
  Ops = {o1, o2}
  Stops = {o2}
  Estops = {e1}
  Landings = {e1}
  Slow = {}
  Overlap = FALSE
  Latched = FALSE
SPECIFICATION Spec
PROPERTIES
  EstopRejectsTools
