SPECIFICATION Spec
CONSTANTS
  Replays = {r1}
  Scripts <- MCScripts
  MaxTime = 1
  MaxRec = 2
  MaxActions = 3
  MaxPayloads = 0
INVARIANTS
  OneStraggler
  OneStray
  ThreadReplayable
  HookAgreesWithState
PROPERTY
  ImplementsLog
