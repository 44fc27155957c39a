SPECIFICATION Spec
CONSTANTS
  Partition = {p1}
  QueueCap = 2
  MaxLog = 2
  MaxFailures = 1
CHECK_DEADLOCK FALSE
INVARIANTS
  OneRowPerIncident
