\* Two buffers, b1 and b2, for appendFrom; the connection reads its in_
\* buffer, b1, with an Iterator (http_parser).
CONSTANTS
  Bufs = {b1, b2}
  BlockSize = 2
  MaxBytes = 3
  MaxLen = 2
  Junk = 0
  IterBufs = {b1}
SPECIFICATION Spec
INVARIANTS
  TypeOK
  IteratorReadsContent
PROPERTY
  ImplementsByteStream
