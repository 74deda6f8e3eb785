\* A model that awaits each result, two tasks whose cleanup outlasts the 5 s
\* wait, an estop that latches and may be released at once.
CONSTANTS
  c1 = c1
  c2 = c2
  o1 = o1
  o2 = o2
  e1 = e1
  None = None
  Calls = {c1, c2}
  Ops = {o1, o2}
  Stops = {o2}
  Estops = {e1}
  Landings = {e1}
  Slow = {c1, o1}
  Overlap = FALSE
  Latched = TRUE
SPECIFICATION FairSpec
INVARIANTS
  TypeOK
  LiveOpClosesGate
PROPERTIES
  VictimStaysStopped
  ImplementsHandover
  OpAnswered
  GateReopens
  EstopAnswered
