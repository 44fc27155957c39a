SPECIFICATION Spec
CONSTANTS
  Attempt = {a1, a2}
  Overlap = FALSE
  Disorder = 2
  Quality = {TRUE}
  MaxTime = 3
  MaxRows = 3
CHECK_DEADLOCK FALSE
INVARIANTS
  NoRowSlipsThrough
