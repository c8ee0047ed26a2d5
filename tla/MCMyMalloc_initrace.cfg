CONSTANTS
  Threads = {t1, t2}
  Sizes = {1, 480, 500}
  MaxHeap = 700
  MaxLive = 2
  NDEBUG = FALSE
SPECIFICATION Spec
SYMMETRY ThreadSymmetry
INVARIANT
  HeapAccounted
