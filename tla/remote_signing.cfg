SPECIFICATION FairSpec
CONSTANTS
  Call = {a, b}
  BatchSize = 2
  MaxBuilds = 2
INVARIANTS
  StuckByLateOnly
PROPERTIES
  OwnAnswer
  EveryCallEnds
CHECK_DEADLOCK FALSE
