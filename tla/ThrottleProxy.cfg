SPECIFICATION FairSpec
CONSTANTS
  c1 = c1
  c2 = c2
  home = home
  Conn <- MCConn
  IP <- MCIP
  SourceIP <- MCSourceIP
  NoLimiter = NoLimiter
  Rate = 4
  Chunk = 1
  Sat = 1
  MaxReads <- MCMaxReads
CHECK_DEADLOCK FALSE
INVARIANTS
  TypeOK
  LimiterShared
  UserCap
PROPERTY
  HandlersEnd
