\* A viewer that subscribes while a delta is being encoded.
CONSTANTS
  v1 = v1
  v2 = v2
  Viewers = {v1, v2}
  Gop = 3
  Maxsize = 3
SPECIFICATION Spec
INVARIANTS
  NewcomerOwedIdr
