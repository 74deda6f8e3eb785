\* Two viewers that come and go, a GOP of three units, queues of three.
CONSTANTS
  v1 = v1
  v2 = v2
  Viewers = {v1, v2}
  Gop = 3
  Maxsize = 3
SPECIFICATION FairSpec
INVARIANTS
  TypeOK
  KeyframeInReach
PROPERTIES
  CanvasComesAlive
