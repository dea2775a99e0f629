SPECIFICATION FairSpec
CONSTANTS
  Cef = cef
  Stragglers = {cef, r1, r2}
  Kinds <- MCAll
  MaxTime = 1
  MaxLog = 3
  MaxErasures = 2
INVARIANTS
  TypeOK
  ReplaySafe
  Pace
  TitleAndIconTell
PROPERTIES
  KeepsLog
  ReplayEnds
CHECK_DEADLOCK FALSE
