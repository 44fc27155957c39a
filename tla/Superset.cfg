SPECIFICATION MCSpec
CONSTANTS
  Tables <- MCTables
  Charts <- MCCharts
  Source <- MCSource
  Run = {r1, r2}
  PageSize = 2
  MaxId = 8
  MaxTrouble = 2
CHECK_DEADLOCK FALSE
INVARIANTS
  TypeOK
  NoDuplicates
PROPERTIES
  DoneMeansBuilt
  RerunChangesNothing
  EventuallyDone
