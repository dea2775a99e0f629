SPECIFICATION FairSpec
CONSTANTS
  Replays = {}
  Scripts <- MCScripts
  MaxTime = 0
  MaxRec = 2
  MaxActions = 0
  MaxPayloads = 2
INVARIANTS
  TypeOK
  PayloadOwned
PROPERTIES
  EventsFrozen
  PayloadsHandled
