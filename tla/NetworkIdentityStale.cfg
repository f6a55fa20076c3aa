SPECIFICATION FairSpec
CONSTANTS
  a = a
  b = b
  c = c
  d = d
  RS = RS
  UK = UK
  DE = DE
  IP <- MCIP
  Label <- MCLabel
  Country <- MCCountry
  NoIP = NoIP
  NoLabel = NoLabel
  PublicIP = a
  DuckDNS = TRUE
CHECK_DEADLOCK FALSE
PROPERTIES
  DnsKept
