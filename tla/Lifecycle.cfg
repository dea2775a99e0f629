SPECIFICATION FairSpec
CONSTANTS
  MaxPopups = 2
  MaxCloses = 1
  MaxCloseTasks = 1
INVARIANTS
  TypeOK
  NoGoneBrowserListed
  CalmTabsListed
  CalmLookupRight
  HooksReady
  CalmSweepComplete
PROPERTY
  SpinEnds
CHECK_DEADLOCK FALSE
