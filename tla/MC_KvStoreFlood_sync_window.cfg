\* Two sets, no refresh and no loss: convergence fails by the sync window
\* alone.  Quiescence is a legitimate end.
CONSTANTS
  NoValue = NoValue
  TtlInfinity <- MCTtlInfinity
  TtlFloor = 1
  Nodes = {1, 2, 3}
  Links <- MCLinks
  FaultyLinks <- MCLinks
  Keys = {k1}
  Payloads = {1}
  MaxSets = 2
  MaxRefresh = 0
  MaxFaults = 0
  MaxFailures = 1
SPECIFICATION Spec
CHECK_DEADLOCK FALSE
PROPERTIES EventuallyHashesConverged
