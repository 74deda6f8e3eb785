\* The sidecar and its three callers.
SPECIFICATION FairSpec
CONSTANTS
  Tools = {tool1, tool2}
  Slow = lane
  NoOne = nobody
  Terms = {car, house, longterm}
  ToolMax = 1
  ToolLong = {longterm}
  LaneVocab = {house}
  ServiceMax = 2
  ServiceLong = {longterm}
  MaxOrphans = 1
INVARIANTS
  TypeOK
  OwnVocabulary
  WireAgrees
PROPERTY
  CallsEnd
