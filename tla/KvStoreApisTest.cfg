\* The node's own modules write up to three keys, into any area, at any
\* moment.  The test process ends after its last step.
CONSTANTS
  NoValue = NoValue
  TtlInfinity = 0
  TtlFloor = 1
  MaxOwnKeys = 3
SPECIFICATION Spec
CHECK_DEADLOCK FALSE
INVARIANTS ExpectationsHold MergeOrderIndependent
