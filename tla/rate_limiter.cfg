SPECIFICATION LimiterFairSpec
CONSTANTS
  Task = {t1, t2, t3, t4, t5}
  MaxRequests = 1
  Interval = 3
  MaxQueued = 3
INVARIANTS
  RateBounded
  QueueServed
PROPERTY
  QueuedIsSettled
CHECK_DEADLOCK FALSE
