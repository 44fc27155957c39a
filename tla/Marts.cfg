SPECIFICATION MCSpec
CONSTANTS
  Group <- MCGroup
  Provider <- MCProvider
  Vendor <- MCVendor
  Designated <- MCDesignated
  Trimmed <- MCTrimmed
  Institution <- MCInstitution
  InstitutionOf <- MCInstitutionOf
  Instant <- MCInstant
  Load <- MCLoad
  None = None
  MaxRows = 22
  SingleMax = 2
  SmallMax = 12
  VendorMax = 6
  ReaderMax = 2
CHECK_DEADLOCK FALSE
INVARIANTS
  VerdictExact
  NotBothWithinAndBreached
  BreachesAlerted
  TierAsEnriched
PROPERTIES
  BreachIsForGood
  OpenIncidentsFlagged
  TierNeverFalls
  ReplaysDoNotCount
