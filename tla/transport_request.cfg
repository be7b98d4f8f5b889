SPECIFICATION FairSpec
CONSTANTS
  Request = {r}
  MaxHandlers = 1
  MaxBeats = 2
INVARIANTS
  TypeOK
  CodecsConverge
  RefusedIsUnheard
PROPERTIES
  WaitingEnds
  PostedSettles
CHECK_DEADLOCK FALSE
