SPECIFICATION Spec
CONSTANTS
  Lines = {0, 1, 14}
  MaxRaised = 2
  LBAs = {0, 1, 2}
  SECTOR_WORDS = 2
  MaxSectors = 2
  UINT8 = 2
  UINT16 = 6
  Junk = Junk
INVARIANTS
  TypeOK
  TransferExact
PROPERTIES
  StoresAsAsked
  RequestsServed
  TransfersReturn
