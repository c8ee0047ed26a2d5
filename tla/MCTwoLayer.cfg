CONSTANTS
  t1 = t1
  t2 = t2
  c1 = c1
  c2 = c2
  Threads <- MCThreads
  Caches <- MCCaches
  CacheOf <- MCCacheOf
  Sizes <- MCSizes
  MaxHeap = 28672
  MaxLive = 2
  NDEBUG = FALSE
SPECIFICATION Spec
CONSTRAINT BlocksBound
INVARIANTS
  TypeOK
  CacheListsConsistent
  BlocksTileHeap
  NoDoubleHandout
