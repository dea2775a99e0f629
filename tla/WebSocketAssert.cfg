SPECIFICATION Spec
CONSTANTS
  Clients = {c1}
  NoClient = NoClient
  Pushers = {main, cef}
  MaxPushes = 1
INVARIANT
  SendAssertHolds
CHECK_DEADLOCK FALSE
