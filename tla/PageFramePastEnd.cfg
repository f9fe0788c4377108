\* One CPU requests blocks until memory runs out.
SPECIFICATION Spec
CONSTANTS
  CPU = {bsp}
  REQUEST = REQUEST
  LOCK = LOCK
  FREE = FREE
  NoBit = NoBit
  Bit = {REQUEST, LOCK, FREE}
  Entry = {REQUEST}
  Scale = 2
  TotalPages = 6
  MemoryMaps <- MCSixPages
  KernelPages <- MCKernelPages
  InitialReserve = 1
  Kinds = {"request"}
  Ranges <- MCNoRanges
  Asks = {1, 2}
  MaxCount = 0
  WordPages = 64
INVARIANT GrantedFramesExist
