CONSTANTS
  Bufs = {b1, b2}
  BlockSize = 2
  MaxBytes = 3
  MaxLen = 2
  Junk = 0
  IterBufs = {b1}
SPECIFICATION Spec
INVARIANT
  ReadableWhenNonEmpty
