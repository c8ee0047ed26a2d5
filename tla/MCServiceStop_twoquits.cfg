CONSTANTS
  NULL = NULL
  Workers = {w1, w2}
  Tasks = {q1, q2, r1}
  QuitTasks = {q1, q2}
  AcceptTasks = {}
  AcceptErrors = FALSE

SPECIFICATION SvcSpec

PROPERTY
  QuitShutsDown

\* Two /quit requests block each other forever: the violation is reported as
\* the liveness failure it causes rather than as a deadlock.
CHECK_DEADLOCK FALSE
