SPECIFICATION FairSpec
CONSTANTS
  Topic = {t1, t2}
  Folders = 1
  Tables = 2
  TopicRun = {k1}
  StorageRun = {s1, s2}
  TableRun = {i1, i2}
  MaxActive = 2
  MaxFaults = 1
INVARIANTS
  DoneMeansReady
  OnlyExcusedRunsFail
PROPERTIES
  ImplementsProvision
  Settles
