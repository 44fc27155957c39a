SPECIFICATION Spec
CONSTANTS
  Partition = {p1, p2}
  QueueCap = 2
  MaxLog = 2
  MaxFailures = 2
SYMMETRY PartitionSymmetry
CHECK_DEADLOCK FALSE
INVARIANTS
  CommittedIsStored
  EnrichedIsAudited
  DuplicatesBounded
  IInv
PROPERTIES
  NeverReappended
  ReplayedAsPlanned
  OversizedNeverCommits
  ImplementsFeed
