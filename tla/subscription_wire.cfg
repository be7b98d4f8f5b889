CONSTANTS
  None = None
  Caller = {a, b}
  Key = {k}
  MaxId = 2
  MaxSends = 1
  MaxThrows = 1
  MayDestroy = TRUE
  ReentrantCleanup = TRUE
SPECIFICATION Spec
CHECK_DEADLOCK FALSE
INVARIANTS
  NoOrphan
  ConsumerServed
  CleanedOnce
PROPERTIES
  EveryListenerReached
  ImplementsLifecycle
