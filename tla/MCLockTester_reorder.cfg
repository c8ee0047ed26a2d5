\* lock() with its two plain stores swapped, qnode_->locked = true after
\* previous->next = qnode_, as the comment in spinlock_mcs.hpp allows a
\* compiler to emit them.  CHECK_DEADLOCK is off so that TLC reports the
\* hang as the liveness violation it is.
CONSTANTS
  Workers = {w1, w2, w3}
  Main = Main
  Q = Q
  NULL = NULL
  MaxIters = 2
  ReorderStores = TRUE
  LockType = "SpinlockMCS"
  Tests = {"Fairness"}
SPECIFICATION Spec
PROPERTY
  AllJoined
CHECK_DEADLOCK FALSE
