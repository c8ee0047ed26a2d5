\* ThreadPoolNormal with two workers and three tasks: a task can wait in
\* the queue while both workers run, a running task can add one before or
\* after stop(), and stop() can come from main or from either worker.
CONSTANTS
  NULL = NULL
  Workers = {w1, w2}
  Tasks = {t1, t2, t3}

SPECIFICATION Spec

INVARIANTS
  TypeOK
  ExactlyOnce
  LeftForDestructor

PROPERTIES
  StopTerminates
  EarlyTasksRun
  ImplementsTaskPool
