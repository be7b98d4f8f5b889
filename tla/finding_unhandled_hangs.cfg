SPECIFICATION FairSpec
CONSTANTS
  Request = {r}
  MaxHandlers = 1
  MaxBeats = 1
PROPERTY
  UnhandledIsAnswered
CHECK_DEADLOCK FALSE
