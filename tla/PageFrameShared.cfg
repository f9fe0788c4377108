\* Requests and frees at the same time: two entry bits share the word.
SPECIFICATION Spec
CONSTANTS
  CPU = {c1, c2, c3}
  REQUEST = REQUEST
  LOCK = LOCK
  FREE = FREE
  NoBit = NoBit
  Bit = {REQUEST, LOCK, FREE}
  Entry = {REQUEST, FREE}
  Scale = 2
  TotalPages = 6
  MemoryMaps <- MCSixPages
  KernelPages <- MCKernelPages
  InitialReserve = 1
  Kinds = {"request", "free"}
  Ranges <- MCNoRanges
  Asks = {1, 2}
  MaxCount = 0
  WordPages = 64
INVARIANT MutualExclusion
