SPECIFICATION Spec
CONSTANTS
  Thresholds <- DefaultThresholds
  Event <- MCEvent
  Provider = {AWS}
  None = None
  NaN = NaN
  BatchSize = 2
CHECK_DEADLOCK FALSE
INVARIANTS
  ReasonNamesSeverity
  SeverityMonotone
  PreassignedIgnored
  OnlyImpactIsRejected
