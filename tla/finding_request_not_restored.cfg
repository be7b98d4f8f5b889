CONSTANTS
  Host = Host
  Wallet = Wallet
  None = None
  h1 = h1
  h2 = h2
  h3 = h3
  w1 = w1
  Payload = {h1, h2}
  Owner <- HostSends
  Weight <- UnitWeight
  MaxRequestSize = 2
  ExpiryStep = 10
  MaxClock = 0
  MaxRestarts = 1
  MaxFailures = 0
  VerifyOwn = FALSE
  EarlyUse = FALSE
SPECIFICATION Spec
CHECK_DEADLOCK FALSE
PROPERTY
  UnackedRequestRestored
