SPECIFICATION FairSpec
CONSTANTS
  Partition = {p1}
  QueueCap = 3
  MaxLog = 3
  MaxFailures = 2
CHECK_DEADLOCK FALSE
PROPERTIES
  EventuallyCommitted
