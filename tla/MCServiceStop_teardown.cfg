CONSTANTS
  NULL = NULL
  Workers = {w1, w2}
  Tasks = {q1, r1, r2}
  QuitTasks = {q1}
  AcceptTasks = {}
  AcceptErrors = FALSE

SPECIFICATION SvcSpec

INVARIANT
  WorkersJoinedAtTeardown
