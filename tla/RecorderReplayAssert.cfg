SPECIFICATION Spec
CONSTANTS
  Replays = {}
  Scripts <- MCNoScripts
  MaxTime = 2
  MaxRec = 2
  MaxActions = 4
  MaxPayloads = 0
INVARIANT
  ReplayAssertHolds
