\* The service's cap of prompts falls behind the tools'.
SPECIFICATION Spec
CONSTANTS
  Tools = {tool1, tool2}
  Slow = lane
  NoOne = nobody
  Terms = {car, house, longterm}
  ToolMax = 2
  ToolLong = {longterm}
  LaneVocab = {house}
  ServiceMax = 1
  ServiceLong = {longterm}
  MaxOrphans = 1
INVARIANT
  WireAgrees
