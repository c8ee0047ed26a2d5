CONSTANTS
  th1 = th1
  th2 = th2
  f1 = f1
  f2 = f2
  f3 = f3
  n1 = n1
  n2 = n2
  n3 = n3
  n4 = n4
  n5 = n5
  tail = tail
  NoNode = NoNode
  Threads <- MCThreads
  Files <- ThreeFiles
  Size <- MixedSize
  MaxSize = 2
  Nodes <- MCNodes
  SizeTBits = 16

SPECIFICATION Spec
INVARIANT
  ListMatchesMap
