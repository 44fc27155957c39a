SPECIFICATION Spec
CONSTANTS
  Thresholds <- DefaultThresholds
  Provider = {AWS}
  None = None
  NaN = NaN
  PctSample <- MCPctSample
  EurSample <- MCEurSample
  MaxEvents = 1
CHECK_DEADLOCK FALSE
INVARIANTS
  ClassifierAgrees
