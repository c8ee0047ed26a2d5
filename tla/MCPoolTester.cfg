\* Sequential and StopIssuedInsideThePool build ThreadPoolNormal(1); three
\* Incr tasks are enough for stop() to meet a non-empty queue behind them.
CONSTANTS
  Workers = {w1}
  Incrs = {i1, i2, i3}
  StopTask = stopTask
  NULL = NULL
  TestCases = {"Sequential", "StopIssuedInsideThePool"}
SPECIFICATION Spec
CHECK_DEADLOCK TRUE
INVARIANTS
  TypeOK
  CountedAtCheck
  DeletedPoolIdle
PROPERTIES
  TestReturns
