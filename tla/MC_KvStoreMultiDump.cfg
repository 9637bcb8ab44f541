CONSTANTS
  NoValue = NoValue
  Null = Null
  TtlInfinity <- MCTtlInfinity
  TtlFloor = 1
  Stores = {s1, s2}
  Keys <- MCKeys
  Prefix <- MCPrefix
  Ids <- MCIds
  Expiries = {2, 3}
  TtlThreshold = 2
  TtlDecr = 1
  MaxTime = 2
SPECIFICATION Spec
INVARIANT TypeOK
INVARIANT ResultIsBestOfAnswers
INVARIANT LiveKeysReturned
INVARIANT PublishedTtlsAccepted
\* The client call returns and the bounded clock stops.
CHECK_DEADLOCK FALSE
