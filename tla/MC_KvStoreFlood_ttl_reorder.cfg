\* A set, its ttl refresh and reordering: the refresh overtakes the value.
CONSTANTS
  NoValue = NoValue
  TtlInfinity <- MCTtlInfinity
  TtlFloor = 1
  Nodes = {1, 2, 3}
  Links <- MCLinks
  FaultyLinks <- MCLinks
  Keys = {k1}
  Payloads = {1}
  MaxSets = 1
  MaxRefresh = 1
  MaxFaults = 1
  MaxFailures = 1
SPECIFICATION Spec
CHECK_DEADLOCK FALSE
INVARIANTS OnlyOriginatedValues
