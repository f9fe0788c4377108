\* Several CPUs request blocks at the same time; nothing is freed.
SPECIFICATION FairSpec
CONSTANTS
  CPU = {c1, c2, c3}
  REQUEST = REQUEST
  LOCK = LOCK
  FREE = FREE
  NoBit = NoBit
  Bit = {REQUEST, LOCK, FREE}
  Entry = {REQUEST}
  Scale = 2
  TotalPages = 6
  MemoryMaps <- MCSixPages
  KernelPages <- MCKernelPages
  InitialReserve = 1
  Kinds = {"request"}
  Ranges <- MCNoRanges
  Asks = {1, 2}
  MaxCount = 0
  WordPages = 64
INVARIANTS MutualExclusion WordIsHeld GrantsExclusive UsedCountsGrants
PROPERTIES ImplementsMutex RequestReleased
