\* Two threads asking for 1, 480 and 500 bytes: blocks of 48, 512 and
\* 536 bytes, of class 6 and the large class 64.  Two large blocks fit in
\* the heap, so the large list is kept sorted; a 48-byte request splits a
\* large block into 48 and a rest of class 58 or 61.
CONSTANTS
  Threads = {t1, t2}
  Sizes = {1, 480, 500}
  MaxHeap = 1100
  MaxLive = 2
  NDEBUG = FALSE
SPECIFICATION Spec
SYMMETRY ThreadSymmetry
INVARIANTS
  TypeOK
  FreeListsConsistent
  BlocksTileHeap
  NoDoubleHandout
