CONSTANTS
  NoValue = NoValue
  TtlInfinity = 0
  TtlFloor = 1
  C1 = c1
  C2 = c2
  QueueCap = 8
  MaxSets = 40
  MaxOwnKeys = 2
SPECIFICATION Spec
\* The test process ends after its last step.
CHECK_DEADLOCK FALSE
INVARIANTS ExpectationsHold
PROPERTIES TestTerminates
