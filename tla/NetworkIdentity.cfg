SPECIFICATION FairSpec
CONSTANTS
  a = a
  b = b
  c = c
  d = d
  RS = RS
  UK = UK
  DE = DE
  IP <- MCIP
  Label <- MCLabel
  Country <- MCCountry
  NoIP = NoIP
  NoLabel = NoLabel
  PublicIP = NoIP
  DuckDNS = TRUE
CHECK_DEADLOCK FALSE
INVARIANTS
  TypeOK
  DealtWith
PROPERTIES
  DnsFollows
  LabelFollows
