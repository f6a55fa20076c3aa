SPECIFICATION FairSpec
CONSTANTS
  MaxBytes = 6
  LineLen = 2
  logsTail = 1
  MaxLines = 5
CHECK_DEADLOCK FALSE
INVARIANTS
  TypeOK
  RecentKept
  Followed
  NoGap
PROPERTIES
  CatchesUp
