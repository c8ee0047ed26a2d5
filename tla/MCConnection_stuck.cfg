CONSTANTS
  Workers = {w1, w2}
  MaxReq = 3
  TxCap = 1
  Kinds = {"good"}
  WriteErrors = FALSE

SPECIFICATION Spec

INVARIANT WritingHasWriter

CHECK_DEADLOCK FALSE
