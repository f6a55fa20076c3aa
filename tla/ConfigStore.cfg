SPECIFICATION Spec
CONSTANTS
  u1 = u1
  u2 = u2
  w1 = w1
  w2 = w2
  RS = RS
  UK = UK
  plain = plain
  tuned = tuned
  Client <- MCClient
  Label <- MCLabel
  NoLabel = NoLabel
  Rest <- MCRest
  DefaultRest = plain
  Cli <- OneCli
  Daemon = Daemon
  Absent = Absent
  Empty = Empty
  Garbage = Garbage
  MaxCommands = 2
  MaxRelabels = 2
SYMMETRY ClientSymmetry
CHECK_DEADLOCK FALSE
INVARIANTS
  TypeOK
  Applied
PROPERTY
  ReplacedWhole
