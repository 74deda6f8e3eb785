\* The sweep with its retries, its fuse and its drone, killed and run again.
SPECIFICATION FairSpec
CONSTANTS
  cell1 = cell1
  cell2 = cell2
  cell3 = cell3
  Places = {home, field}
  Home = home
  MaxFault = 2
  Cells <- MCCells
  Broken = {cell3}
  Attempts = 2
  FuseLimit = 2
  MaxKill = 1
INVARIANTS
  TypeOK
  GradedAtRest
  ScoredOnce
  RetryAbsorbs
PROPERTY
  EveryCellScored
