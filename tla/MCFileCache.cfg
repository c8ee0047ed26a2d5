\* Three one-byte files in a one-byte cache and five loads: two loads
\* racing past the free-space test cache two files, an evict may then skip
\* the pinned one and take the next, and a file is loaded, evicted and
\* loaded again; a third file could overshoot the bound by one more.
CONSTANTS
  th1 = th1
  th2 = th2
  f1 = f1
  f2 = f2
  f3 = f3
  n1 = n1
  n2 = n2
  n3 = n3
  n4 = n4
  n5 = n5
  tail = tail
  NoNode = NoNode
  Threads <- MCThreads
  Files <- ThreeFiles
  Size <- UnitSize3
  MaxSize = 1
  Nodes <- FiveNodes
  SizeTBits = 16

SPECIFICATION Spec

INVARIANTS
  OvercommitBounded
  PinnedNeverFreed
  BytesAccounted
