SPECIFICATION Spec
CONSTANTS
  Client = {u1, u2}
  Entries <- MCEntries
  FileLines <- MCFileLines
  Blocks <- MCBlocks
  Bodies <- MCBodies
  Defaults <- MCDefaults
  MaxCommands = 2
SYMMETRY Symmetry
INVARIANTS
  TypeOK
  RoutesMean
  Isolated
PROPERTIES
  FiltersKept
  MissingFileNeverStops
