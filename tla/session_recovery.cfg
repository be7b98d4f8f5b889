CONSTANTS
  Host = Host
  Wallet = Wallet
  None = None
  h1 = h1
  h2 = h2
  h3 = h3
  w1 = w1
  Payload = {h1, h2}
  Owner <- HostSends
  Weight <- UnitWeight
  MaxRequestSize = 2
  ExpiryStep = 10
  MaxClock = 1
  MaxRestarts = 1
  MaxFailures = 1
  VerifyOwn = TRUE
  EarlyUse = TRUE
SPECIFICATION Spec
SYMMETRY Alike
CHECK_DEADLOCK FALSE
INVARIANTS
  PromisesAccounted
  AckImpliesReceived
PROPERTIES
  ImplementsDelivery
  SubmissionsSupersede
  BatchRestored
  UnrespondedSurfaced
