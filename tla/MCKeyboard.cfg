SPECIFICATION FairSpec
CONSTANTS
  KEYBUFF_SIZE = 5
  COUNTER = 13
  Keys = {a, b}
  NUL = NUL
  MaxUnread <- DistinctSlots
INVARIANTS
  TypeOK
PROPERTIES
  IsKeyQueue
  KeysArrive
CHECK_DEADLOCK FALSE
