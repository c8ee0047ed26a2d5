\* Three workers and the main thread, two rounds of lock, increment and
\* unlock each: in the Fairness test and in the counters test.
CONSTANTS
  Workers = {w1, w2, w3}
  Main = Main
  Q = Q
  NULL = NULL
  MaxIters = 2
  ReorderStores = FALSE
  LockType = "SpinlockMCS"
  Tests = {"Fairness", "counters"}
SPECIFICATION Spec
INVARIANTS
  TypeOK
  MutualExclusion
  BarrierHolds
  HolderIsHead
  CountersExact
PROPERTIES
  ImplementsQueueLock
  StarvationFree
  AllJoined
