SPECIFICATION ReplaySpec
CONSTANTS
  Cef = cef
  Stragglers = {cef, r1}
  Kinds <- MCPlain
  MaxTime = 1
  MaxLog = 3
  MaxErasures = 2
INVARIANT
  LoadWaitsForReplay
CHECK_DEADLOCK FALSE
