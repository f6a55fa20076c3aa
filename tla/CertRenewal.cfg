SPECIFICATION FairSpec
CONSTANTS
  Daemon = Daemon
  Setup = Setup
  None = None
  Partial = Partial
  Marker = Marker
  Former = {f1, f2, f3, f4, f5}
CHECK_DEADLOCK FALSE
INVARIANTS
  TypeOK
  PairMatches
  NoRecordLeft
PROPERTIES
  NeededOnly
  Renews
