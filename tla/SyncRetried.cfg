SPECIFICATION Spec
CONSTANTS
  Attempt = {a1, a2}
  Overlap = FALSE
  Disorder = 2
  Quality = {TRUE}
  MaxTime = 4
  MaxRows = 4
SYMMETRY AttemptSymmetry
CHECK_DEADLOCK FALSE
INVARIANTS
  OnlyLateRowsSkipped
  NoRowCopiedTwice
