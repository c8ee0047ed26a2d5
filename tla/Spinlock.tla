------------------------------ MODULE Spinlock ------------------------------
(***************************************************************************)
(* base::Spinlock (src/spinlock.hpp), the test-and-set lock with backoff.  *)
(* locked_[l] is the flag of lock l.  lock() is split at each access to    *)
(* locked_: the relaxed load of the fast path, its test-and-set, the       *)
(* bounded spin of loads and the test-and-set loop with nanosleep between  *)
(* tries.  The spin reads locked_ at most 1000 times and changes nothing:  *)
(* it is one step that ends it, whether the lock was seen free or the     *)
(* count ran out.  A failed test-and-set writes true over true and a      *)
(* nanosleep changes no state: both are stuttering steps.                  *)
(*                                                                         *)
(* pc and ret follow the call convention of SpinlockMCS.                   *)
(***************************************************************************)
EXTENDS Naturals

CONSTANTS Threads, Locks

VARIABLES pc, ret, cur, locked_

SpinLabels == {"s_fast", "s_tas", "s_spin", "s_sleep"}

\* Spinlock(): locked_(false).
spinInit == locked_ = [l \in Locks |-> FALSE]

\* The call lock() of lock l by t, to go on at label r.
SLock(t, l, r) ==
  /\ pc' = [pc EXCEPT ![t] = "s_fast"]
  /\ ret' = [ret EXCEPT ![t] = r]
  /\ cur' = [cur EXCEPT ![t] = l]

\* The call unlock() of lock l by t, to go on at label r.
SUnlock(t, l, r) ==
  /\ pc' = [pc EXCEPT ![t] = "s_release"]
  /\ ret' = [ret EXCEPT ![t] = r]
  /\ cur' = [cur EXCEPT ![t] = l]

\* if (! loadLockState() && ...: a held lock goes to the spin.
SpinFastLoad(t) ==
  /\ pc[t] = "s_fast"
  /\ pc' = [pc EXCEPT ![t] = IF locked_[cur[t]] THEN "s_spin" ELSE "s_tas"]
  /\ UNCHANGED <<ret, cur, locked_>>

\* ... && !__sync_lock_test_and_set(&locked_, true)) return;
SpinFastTas(t) ==
  /\ pc[t] = "s_tas"
  /\ locked_' = [locked_ EXCEPT ![cur[t]] = TRUE]
  /\ pc' = [pc EXCEPT ![t] = IF locked_[cur[t]] THEN "s_spin" ELSE ret[t]]
  /\ UNCHANGED <<ret, cur>>

\* while ((wait-- > 0) && loadLockState()) {}
SpinWait(t) ==
  /\ pc[t] = "s_spin"
  /\ pc' = [pc EXCEPT ![t] = "s_sleep"]
  /\ UNCHANGED <<ret, cur, locked_>>

\* while (__sync_lock_test_and_set(&locked_, true)) nanosleep(&t, NULL);
\* The try that finds the lock free takes it and lock() returns.
SpinSleepTas(t) ==
  /\ pc[t] = "s_sleep"
  /\ ~locked_[cur[t]]
  /\ locked_' = [locked_ EXCEPT ![cur[t]] = TRUE]
  /\ pc' = [pc EXCEPT ![t] = ret[t]]
  /\ UNCHANGED <<ret, cur>>

\* unlock(): __sync_lock_release(&locked_);
SpinRelease(t) ==
  /\ pc[t] = "s_release"
  /\ locked_' = [locked_ EXCEPT ![cur[t]] = FALSE]
  /\ pc' = [pc EXCEPT ![t] = ret[t]]
  /\ UNCHANGED <<ret, cur>>

spinStep(t) ==
  \/ SpinFastLoad(t) \/ SpinFastTas(t) \/ SpinWait(t) \/ SpinSleepTas(t)
  \/ SpinRelease(t)

=============================================================================
