CONSTANTS
  Host = Host
  Wallet = Wallet
  None = None
  h1 = h1
  h2 = h2
  h3 = h3
  w1 = w1
  Payload = {h1, h2, h3, w1}
  Owner <- BothSend
  Weight <- MixedWeight
  MaxRequestSize = 2
  ExpiryStep = 10
  MaxClock = 0
  MaxRestarts = 0
  MaxFailures = 0
  VerifyOwn = FALSE
  EarlyUse = FALSE
SPECIFICATION FairSpec
CHECK_DEADLOCK FALSE
INVARIANTS
  BatchesFit
  SurfacedOnce
PROPERTY
  EventuallyResolved
