CONSTANTS
  NULL = NULL
  Workers = {w1, w2}
  Tasks = {q1, a1, r1, r2}
  QuitTasks = {q1}
  AcceptTasks = {a1}
  AcceptErrors = FALSE

SPECIFICATION SvcSpec

INVARIANT
  AcceptorDescriptorLive
