\* The banner of a detector that went down.
SPECIFICATION FairSpec
CONSTANTS
  Forced = "none"
  Render = "cpu"
  Exempt = {"intel"}
  MaxAge = 1
  MaxFails = 3
  MaxFrame = 4
PROPERTY
  KilledDetectorShown
