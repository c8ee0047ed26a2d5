\* Two workers, so that a read and a write callback of the same socket can
\* run at once; three requests, enough for a response to be appended while
\* another doWrite is flushing; a one-response send buffer, so that EAGAIN
\* and the write latch occur; write errors on, so that a failed doWrite
\* must still release.
CONSTANTS
  Workers = {w1, w2}
  MaxReq = 3
  TxCap = 1
  Kinds = {"good", "bad"}
  WriteErrors = TRUE

SPECIFICATION Spec

INVARIANT TypeOK
INVARIANT SingleReader
INVARIANT SingleWriter
INVARIANT NoUseAfterFree
INVARIANT ResponsesInOrder

PROPERTY ReleasedAfterClose

CHECK_DEADLOCK FALSE
