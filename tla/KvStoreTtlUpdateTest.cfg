CONSTANTS
  NoValue = NoValue
  TtlInfinity = 0
  TtlFloor = 1
  Client = client

SPECIFICATION Spec

\* The replayed test ends after its last step.
CHECK_DEADLOCK FALSE

INVARIANTS
  TtlRefreshSeenByClient
