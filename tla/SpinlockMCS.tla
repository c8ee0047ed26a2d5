----------------------------- MODULE SpinlockMCS ----------------------------
(***************************************************************************)
(* base::SpinlockMCS (src/spinlock_mcs.hpp), the MCS queue lock.  Every    *)
(* thread owns one Node, qnode_, a static __thread pointer: the same Node  *)
(* serves every SpinlockMCS the thread locks.  The Node's fields are       *)
(* locked[t] and next[t]; tail[l] is the tail_ of lock l.  lock() and      *)
(* unlock() are split at each access to shared memory, in the order the    *)
(* source makes them; a spin loop is one step that waits for the value it  *)
(* reads.  Memory is sequentially consistent: x86 keeps stores in order,   *)
(* and ReorderStores says whether the compiler swapped the two plain      *)
(* stores of lock() that the source's comment discusses.                   *)
(*                                                                         *)
(* A call sets pc[t] to its first label and ret[t] to the caller's label   *)
(* to go on at; the last step of the call sets pc[t] to ret[t].            *)
(***************************************************************************)
EXTENDS Naturals, Sequences

CONSTANTS Threads, Locks, NULL, ReorderStores

VARIABLES pc, ret, cur, hasNode, locked, next, previous, tail

mcsVars == <<cur, hasNode, locked, next, previous, tail>>

LockLabels == {"l_new", "l_swap", "l_locked", "l_link", "l_spin"}
UnlockLabels == {"u_test", "u_cas", "u_spin", "u_release"}

\* SpinlockMCS(): tail_(NULL).  No thread has allocated its qnode_ yet.
mcsInit ==
  /\ cur = [t \in Threads |-> NULL]
  /\ hasNode = [t \in Threads |-> FALSE]
  /\ locked = [t \in Threads |-> TRUE]
  /\ next = [t \in Threads |-> NULL]
  /\ previous = [t \in Threads |-> NULL]
  /\ tail = [l \in Locks |-> NULL]

\* The call lock() of lock l by t, to go on at label r.
Lock(t, l, r) ==
  /\ pc' = [pc EXCEPT ![t] = "l_new"]
  /\ ret' = [ret EXCEPT ![t] = r]
  /\ cur' = [cur EXCEPT ![t] = l]

Unlock(t, l, r) ==
  /\ pc' = [pc EXCEPT ![t] = "u_test"]
  /\ ret' = [ret EXCEPT ![t] = r]
  /\ cur' = [cur EXCEPT ![t] = l]

Return(t) == pc' = [pc EXCEPT ![t] = ret[t]]

\* if (qnode_ == NULL) qnode_ = new Node();  qnode_->next = NULL;
\* A new Node is constructed with locked(true), next(NULL).
LockNew(t) ==
  /\ pc[t] = "l_new"
  /\ hasNode' = [hasNode EXCEPT ![t] = TRUE]
  /\ locked' = IF hasNode[t] THEN locked ELSE [locked EXCEPT ![t] = TRUE]
  /\ next' = [next EXCEPT ![t] = NULL]
  /\ pc' = [pc EXCEPT ![t] = "l_swap"]
  /\ UNCHANGED <<ret, cur, previous, tail>>

\* previous = __sync_lock_test_and_set(&tail_, qnode_): with no previous
\* the lock is taken and lock() returns; otherwise the two stores follow,
\* in program order or swapped.
LockSwap(t) ==
  /\ pc[t] = "l_swap"
  /\ previous' = [previous EXCEPT ![t] = tail[cur[t]]]
  /\ tail' = [tail EXCEPT ![cur[t]] = t]
  /\ IF tail[cur[t]] = NULL THEN Return(t)
     ELSE pc' = [pc EXCEPT ![t] = IF ReorderStores THEN "l_link" ELSE "l_locked"]
  /\ UNCHANGED <<ret, cur, hasNode, locked, next>>

\* qnode_->locked = true;
LockSetLocked(t) ==
  /\ pc[t] = "l_locked"
  /\ locked' = [locked EXCEPT ![t] = TRUE]
  /\ pc' = [pc EXCEPT ![t] = IF ReorderStores THEN "l_spin" ELSE "l_link"]
  /\ UNCHANGED <<ret, cur, hasNode, next, previous, tail>>

\* previous->next = qnode_;
LockLink(t) ==
  /\ pc[t] = "l_link"
  /\ next' = [next EXCEPT ![previous[t]] = t]
  /\ pc' = [pc EXCEPT ![t] = IF ReorderStores THEN "l_locked" ELSE "l_spin"]
  /\ UNCHANGED <<ret, cur, hasNode, locked, previous, tail>>

\* while (qnode_->loadLockState()) {}  then the full barrier, and return.
LockSpin(t) ==
  /\ pc[t] = "l_spin"
  /\ ~locked[t]
  /\ Return(t)
  /\ UNCHANGED <<ret, cur, hasNode, locked, next, previous, tail>>

\* if (qnode_->next == NULL) try the CAS, else release the successor.
UnlockTest(t) ==
  /\ pc[t] = "u_test"
  /\ pc' = [pc EXCEPT ![t] = IF next[t] = NULL THEN "u_cas" ELSE "u_release"]
  /\ UNCHANGED <<ret, mcsVars>>

\* if (__sync_bool_compare_and_swap(&tail_, qnode_, NULL)) return;
UnlockCas(t) ==
  /\ pc[t] = "u_cas"
  /\ IF tail[cur[t]] = t
     THEN /\ tail' = [tail EXCEPT ![cur[t]] = NULL]
          /\ Return(t)
     ELSE /\ pc' = [pc EXCEPT ![t] = "u_spin"]
          /\ UNCHANGED tail
  /\ UNCHANGED <<ret, cur, hasNode, locked, next, previous>>

\* while (qnode_->loadNextState() == NULL) {}
UnlockSpin(t) ==
  /\ pc[t] = "u_spin"
  /\ next[t] # NULL
  /\ pc' = [pc EXCEPT ![t] = "u_release"]
  /\ UNCHANGED <<ret, mcsVars>>

\* __sync_lock_release(&qnode_->next->locked);
UnlockRelease(t) ==
  /\ pc[t] = "u_release"
  /\ locked' = [locked EXCEPT ![next[t]] = FALSE]
  /\ Return(t)
  /\ UNCHANGED <<ret, cur, hasNode, next, previous, tail>>

mcsStep(t) ==
  \/ LockNew(t) \/ LockSwap(t) \/ LockSetLocked(t) \/ LockLink(t) \/ LockSpin(t)
  \/ UnlockTest(t) \/ UnlockCas(t) \/ UnlockSpin(t) \/ UnlockRelease(t)

=============================================================================
