\* One CPU, every entry point; single pages are requested.
SPECIFICATION FairSpec
CONSTANTS
  CPU = {bsp}
  REQUEST = REQUEST
  LOCK = LOCK
  FREE = FREE
  NoBit = NoBit
  Bit = {REQUEST, LOCK, FREE}
  Entry = {REQUEST, LOCK, FREE}
  Scale = 2
  TotalPages = 7
  MemoryMaps <- MCSevenPages
  KernelPages <- MCKernelPages
  InitialReserve = 1
  Kinds = {"request", "free", "lock", "reserve", "unreserve"}
  Ranges <- MCRanges
  Asks = {1}
  MaxCount = 4
  WordPages = 64
INVARIANTS TypeOK GrantsExclusive FreeNotOverstated NullMeansFull
PROPERTIES RequestReleased
