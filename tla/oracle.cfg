\* Every track of four samples and every check over it.
SPECIFICATION JudgeSpec
CONSTANTS
  car = car
  van = van
  Nowhere = Nowhere
  Points <- MCPoints
  Dist <- MCDist
  Origin = 0
  Movers = {car, van}
  Ticks <- MCTicks
  Tasks <- MCTasks
  MaxAssoc = 1
  MaxSamples = 4
  MaxTime = 3
  MaxCalls = 1
INVARIANTS
  JudgeTypeOK
  OrderingIsExact
  HoldsAreContiguous
  LostFixForgiven
CHECK_DEADLOCK FALSE
