SPECIFICATION Spec
CONSTANTS
  None = None
  Client = {a, b}
  Follow = {f, g, h}
  Request = {q}
  MaxWire = 2
  Event = {"newBlock", "operationStorageItems", "stop"}
INVARIANTS
  TypeOK
  ListenersAreListed
  BroadcastsStopped
  StopsAreTold
CHECK_DEADLOCK FALSE
