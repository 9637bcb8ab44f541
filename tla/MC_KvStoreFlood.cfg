\* One set, one ttl refresh of it and one lost message, on the line 1-2-3.
\* Quiescence is a legitimate end: no set, refresh or message is left.
CONSTANTS
  NoValue = NoValue
  TtlInfinity <- MCTtlInfinity
  TtlFloor = 1
  Nodes = {1, 2, 3}
  Links <- MCLinks
  FaultyLinks <- MCFaultyLinks
  Keys = {k1}
  Payloads = {1}
  MaxSets = 1
  MaxRefresh = 1
  MaxFaults = 1
  MaxFailures = 2
SPECIFICATION Spec
INVARIANTS TypeOK
PROPERTIES ImplementsAbstract EventuallyEstablished DeletedPeerStaysDeleted
CHECK_DEADLOCK FALSE
