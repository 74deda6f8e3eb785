\* A row whose transcript was never written, or was written twice.
SPECIFICATION Spec
CONSTANTS
  cell1 = cell1
  cell2 = cell2
  cell3 = cell3
  Places = {home, field}
  Home = home
  MaxFault = 2
  Cells <- MCCells
  Broken = {cell3}
  Attempts = 2
  FuseLimit = 2
  MaxKill = 1
INVARIANT
  OneTranscript
