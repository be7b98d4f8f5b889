CONSTANTS
  None = None
  Chain = {c, d}
  Unsupported = {d}
  Follow = {f, g}
  Request = {r, s}
  MaxConnections = 3
  MaxFailures = 1
SPECIFICATION FairSpec
CHECK_DEADLOCK FALSE
INVARIANTS
  RefCounted
  NoForgottenFollow
PROPERTIES
  ChainRequestAnswered
