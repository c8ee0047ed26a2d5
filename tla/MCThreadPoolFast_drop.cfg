CONSTANTS
  NULL = NULL
  Workers = {w1, w2}
  Tasks = {t1, t2, t3}

SPECIFICATION Spec

INVARIANT
  QueuedDroppedAtStop
