\* The slow lane's promise that on-demand calls keep priority.
SPECIFICATION Spec
CONSTANTS
  Tools = {tool1, tool2}
  Slow = lane
  NoOne = nobody
  Terms = {car, house, longterm}
  ToolMax = 1
  ToolLong = {longterm}
  LaneVocab = {house}
  ServiceMax = 2
  ServiceLong = {longterm}
  MaxOrphans = 1
PROPERTY
  OnDemandPriority
