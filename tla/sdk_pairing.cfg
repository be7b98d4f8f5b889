SPECIFICATION FairSpec
CONSTANTS
  Product = {p1}
  MaxPairings = 2
  MaxBuilds = 3
  MaxClears = 1
  MaxRestarts = 1
  MaxFailures = 1
INVARIANTS
  TypeOK
  NoLeakedSession
  PairedSurvives
  SignedInCanSign
PROPERTIES
  PairedSignsIn
CHECK_DEADLOCK FALSE
