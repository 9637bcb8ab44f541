CONSTANTS
  NoValue = NoValue
  TtlInfinity <- MCTtlInfinity
  TtlFloor = 1
  Keys <- MCKeys
  Values <- MCValues
  Subscribers = {s1}
  Params <- MCParams
  QueueCap = 2
  MaxSets = 3

SPECIFICATION Spec

INVARIANTS
  TypeOK
  MirrorConsistent
  StreamDeliversOnlyNews

PROPERTIES
  MonotonicValues
