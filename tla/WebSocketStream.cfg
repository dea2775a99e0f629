SPECIFICATION Spec
CONSTANTS
  Clients = {c1, c2}
  NoClient = NoClient
  Pushers = {main, cef}
  MaxPushes = 2
SYMMETRY ClientSymmetry
INVARIANTS
  TypeOK
  StateTracksClient
  NothingMissed
  StreamIsListed
CHECK_DEADLOCK FALSE
