SPECIFICATION Spec
CONSTANTS
  Messages <- MCKeys
  Foreign <- MCNone
  Live <- MCQuiet
  MaxInput = 2
  MaxScripts = 1
  MaxEvents = 2
INVARIANT
  KeyTransitionKept
