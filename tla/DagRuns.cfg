SPECIFICATION FairSpec
CONSTANTS
  Attempt = {a1, a2}
  Overlap = TRUE
  Disorder = 1
  Quality = {TRUE, FALSE}
  MaxTime = 2
  MaxRows = 3
  Retries = 1
  None = None
  MaxFailures = 2
INVARIANTS
  MartsValidated
  RunSeesOneTable
PROPERTIES
  RegisterOnlyGrows
  MartsFrozen
  MartsCatchUp
  MartsOnlyGrow
  ImplementsRegister
