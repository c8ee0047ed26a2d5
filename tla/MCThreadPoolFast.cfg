\* Three workers and four tasks: enough for a task to wait in the dispatch
\* queue while every worker runs, for a worker to add a task, and for stop()
\* to be called from main or from any worker with tasks queued in front of
\* the NULL tasks, while the other two workers are idle, running or
\* already exited.
CONSTANTS
  NULL = NULL
  Workers = {w1, w2, w3}
  Tasks = {t1, t2, t3, t4}

SPECIFICATION Spec

INVARIANTS
  TypeOK
  ExactlyOnce
  NoIdleWhileQueued

PROPERTIES
  StopTerminates
  EarlyTasksRun
  ImplementsTaskPool
