SPECIFICATION FairSpec
CONSTANTS
  c1 = c1
  c2 = c2
  vless = vless
  Client <- MCClient
  Inbound <- MCInbound
  MaxBytes = 3
  MaxRuns = 2
  LoadMayFail = TRUE
  SaveMayFail = TRUE
  AsService = TRUE
CHECK_DEADLOCK FALSE
INVARIANTS
  TypeOK
  SessionExact
  TotalsAgree
PROPERTIES
  UserLedgerSpec
  InboundLedgerSpec
  Settles
