\* The perception feed from the camera to the cockpit.
SPECIFICATION FairSpec
CONSTANTS
  Forced = "none"
  Render = "cpu"
  Exempt = {"intel"}
  MaxAge = 1
  MaxFails = 2
  MaxFrame = 3
INVARIANTS
  TypeOK
  FlagIsExact
PROPERTIES
  EachFrameOnce
  SnapshotFollows
