\* What one more sample may change of a verdict.
SPECIFICATION JudgeSpec
CONSTANTS
  car = car
  van = van
  Nowhere = Nowhere
  Points <- MCPoints
  Dist <- MCDist
  Origin = 0
  Movers = {car, van}
  Ticks <- MCTicks
  Tasks <- MCTasks
  MaxAssoc = 1
  MaxSamples = 4
  MaxTime = 3
  MaxCalls = 1
PROPERTY
  VerdictsSettle
CHECK_DEADLOCK FALSE
