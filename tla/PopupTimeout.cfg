SPECIFICATION FairSpec
CONSTANTS
  Relock <- MCRefused
  MaxPopups = 2
  MaxTimeouts = 1
  MaxCloses = 0
PROPERTY
  PopupReturns
CHECK_DEADLOCK FALSE
