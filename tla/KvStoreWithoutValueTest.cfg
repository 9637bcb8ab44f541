\* The node's own modules write up to four key writes at any moment.  The test
\* process ends after its last step.
CONSTANTS
  NoValue = NoValue
  TtlInfinity = 0
  TtlFloor = 1
  Client = client
  QueueCap = 8
  MaxOwnKeys = 4
SPECIFICATION Spec
CHECK_DEADLOCK FALSE
INVARIANTS NoValueSeen
PROPERTIES TestTerminates
