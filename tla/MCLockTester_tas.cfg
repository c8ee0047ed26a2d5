\* The Fairness test's Tester over the test-and-set Spinlock: three workers
\* and main, two rounds each.
CONSTANTS
  Workers = {w1, w2, w3}
  Main = Main
  Q = Q
  NULL = NULL
  MaxIters = 2
  ReorderStores = FALSE
  LockType = "Spinlock"
  Tests = {"Fairness"}
SPECIFICATION Spec
INVARIANTS
  TypeOK
  MutualExclusion
  BarrierHolds
PROPERTIES
  AllJoined
