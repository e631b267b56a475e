SPECIFICATION LibrarySpec
CONSTANTS
  MemSize = 7
  Bytes = {0, 1}
  CHAR = 4
  SHORT = 8
  INT = 16
  Words = {0, 3, 8, 10, 15}
  MaxParts = 2
  Stacks <- MCStacks
INVARIANTS
  MovedExactly
  StringsJoined
  ComparesExact
  FormatShown
CHECK_DEADLOCK FALSE
