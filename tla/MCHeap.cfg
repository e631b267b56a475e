SPECIFICATION MSpec
CONSTANTS
  MEM_ADDR_START = 1
  MEM_SIZE = 10
  HEADER_SIZE = 2
  Requests <- SmallRequests
  Stamps <- OneStamp
INVARIANTS
  TypeOK
  WellLinked
  OwnedDisjoint
  Accounted
  Coalesced
  DrainedHeapIsWhole
  RefusedOnlyWhenFull
  HeadersIntact
PROPERTIES
  IsAllocator
  CallReturns
