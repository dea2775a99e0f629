SPECIFICATION FairSpec
CONSTANTS
  Relock <- MCAny
  MaxPopups = 5
  MaxTimeouts = 5
  MaxCloses = 2
INVARIANTS
  TypeOK
  NoPageShared
  LagBoundedByTimeouts
  PageThere
  BlockedOnlyAfterTimeout
PROPERTIES
  PopupReturnsOrBlocked
  MainReleasedOrBlocked
  ImplementsNotebook
CHECK_DEADLOCK FALSE
