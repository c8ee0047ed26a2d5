----------------------------- MODULE LockTester -----------------------------
(***************************************************************************)
(* The Fairness test of src/spinlock_mcs_test.cpp: NUM_THREADS workers     *)
(* run Tester<SpinlockMCS>::start, which waits on a Barrier of             *)
(* NUM_THREADS + 1 participants and then, until the tester is stopped,     *)
(* locks the SpinlockMCS q, adds one to its own counter and unlocks.  The  *)
(* main thread waits on the barrier too, stops the tester (the sleep(1)    *)
(* before it is any delay) and joins the workers.  SpinlockMCS and         *)
(* ThreadBarrier are instantiated over the threads' shared pc and ret.     *)
(* Tester is a template over LockType: the test instantiates it with      *)
(* SpinlockMCS, and LockType = "Spinlock" runs the same test over the     *)
(* test-and-set Spinlock s that the test also declares.                   *)
(*                                                                         *)
(* test = "counters" is TEST(Concurrency, counters) of spinlock_test.cpp  *)
(* instead: each LockTester thread runs test(increments) with no barrier, *)
(* MaxIters rounds of lock, ++*counter_ on the one shared counter (a       *)
(* load and a store), ++requests_ and unlock; main joins them all.         *)
(***************************************************************************)
EXTENDS Naturals, FiniteSets, Sequences, SequencesExt

CONSTANTS Workers, Main, Q, NULL, MaxIters, ReorderStores, LockType, Tests

VARIABLES pc, ret, cur, hasNode, locked, next, previous, tail, locked_,
          arrival, departure, counter, counters, stopped, test, shared, tmp

vars == <<pc, ret, cur, hasNode, locked, next, previous, tail, locked_,
          arrival, departure, counter, counters, stopped, test, shared, tmp>>

lockVars == <<cur, hasNode, locked, next, previous, tail, locked_>>
barVars == <<arrival, departure, counter>>
cntVars == <<test, shared, tmp>>

MCS == INSTANCE SpinlockMCS WITH Threads <- Workers, Locks <- {Q}
TAS == INSTANCE Spinlock WITH Threads <- Workers, Locks <- {Q}
Bar == INSTANCE ThreadBarrier WITH NumParticipants <- Cardinality(Workers) + 1

Participants == Workers \cup {Main}
WorkerLabels == {"start", "loop", "inc", "inc_store", "exit"}
MainLabels == {"main_start", "main_stop", "join", "done"}

(* The counters test starts each thread straight in its loop, and main    *)
(* goes on to the joins.                                                   *)
Init ==
  /\ test \in Tests
  /\ pc = [p \in Participants |->
             CASE test = "counters" /\ p = Main -> "join"
               [] test = "counters"             -> "loop"
               [] p = Main                      -> "main_start"
               [] OTHER                         -> "start"]
  /\ ret = [p \in Participants |-> NULL]
  /\ MCS!mcsInit
  /\ TAS!spinInit
  /\ Bar!barrierInit
  /\ counters = [w \in Workers |-> 0]
  /\ stopped = FALSE
  /\ shared = 0
  /\ tmp = [w \in Workers |-> 0]

\* start(pos, l): b_->wait();
Start(w) ==
  /\ pc[w] = "start"
  /\ Bar!Wait(w, "loop")
  /\ UNCHANGED <<lockVars, barVars, counters, stopped, cntVars>>

(* while (! isStopped()) { l->lock(); ... }.  A worker whose counter has   *)
(* reached MaxIters waits for the stop instead of locking again.  In the   *)
(* counters test: while (increments-- > 0) { spin_->lock(); ... }.         *)
Loop(w) ==
  /\ pc[w] = "loop"
  /\ IF IF test = "counters" THEN counters[w] = MaxIters ELSE stopped
     THEN /\ pc' = [pc EXCEPT ![w] = "exit"]
          /\ UNCHANGED <<ret, lockVars>>
     ELSE /\ counters[w] < MaxIters
          /\ IF LockType = "SpinlockMCS" THEN MCS!Lock(w, Q, "inc")
                                         ELSE TAS!SLock(w, Q, "inc")
          /\ UNCHANGED <<hasNode, locked, next, previous, tail, locked_>>
  /\ UNCHANGED <<barVars, counters, stopped, cntVars>>

\* counters_[pos] += 1;  l->unlock();
Inc(w) ==
  /\ pc[w] = "inc" /\ test # "counters"
  /\ counters' = [counters EXCEPT ![w] = @ + 1]
  /\ IF LockType = "SpinlockMCS" THEN MCS!Unlock(w, Q, "loop")
                                 ELSE TAS!SUnlock(w, Q, "loop")
  /\ UNCHANGED <<hasNode, locked, next, previous, tail, locked_, barVars, stopped,
                 cntVars>>

\* LockTester::test: ++*counter_ is a load of the shared counter ...
CountLoad(w) ==
  /\ pc[w] = "inc" /\ test = "counters"
  /\ tmp' = [tmp EXCEPT ![w] = shared]
  /\ pc' = [pc EXCEPT ![w] = "inc_store"]
  /\ UNCHANGED <<ret, lockVars, barVars, counters, stopped, test, shared>>

\* ... and a store of one more; ++requests_; spin_->unlock();
CountStore(w) ==
  /\ pc[w] = "inc_store"
  /\ shared' = tmp[w] + 1
  /\ counters' = [counters EXCEPT ![w] = @ + 1]
  /\ IF LockType = "SpinlockMCS" THEN MCS!Unlock(w, Q, "loop")
                                 ELSE TAS!SUnlock(w, Q, "loop")
  /\ UNCHANGED <<hasNode, locked, next, previous, tail, locked_, barVars, stopped,
                 test, tmp>>

LockStep(w) ==
  /\ \/ MCS!mcsStep(w) /\ UNCHANGED locked_
     \/ TAS!spinStep(w) /\ UNCHANGED <<hasNode, locked, next, previous, tail>>
  /\ UNCHANGED <<barVars, counters, stopped, cntVars>>

BarrierStep(p) ==
  /\ Bar!barrierStep(p)
  /\ UNCHANGED <<lockVars, counters, stopped, cntVars>>

\* b.wait();
MainStart ==
  /\ pc[Main] = "main_start"
  /\ Bar!Wait(Main, "main_stop")
  /\ UNCHANGED <<lockVars, barVars, counters, stopped, cntVars>>

\* sleep(1); tester.stop();
MainStop ==
  /\ pc[Main] = "main_stop"
  /\ stopped' = TRUE
  /\ pc' = [pc EXCEPT ![Main] = "join"]
  /\ UNCHANGED <<ret, lockVars, barVars, counters, cntVars>>

\* pthread_join(tids[i], NULL) for every worker (testers[i]->join()).
MainJoin ==
  /\ pc[Main] = "join"
  /\ \A w \in Workers : pc[w] = "exit"
  /\ pc' = [pc EXCEPT ![Main] = "done"]
  /\ UNCHANGED <<ret, lockVars, barVars, counters, stopped, cntVars>>

Worker(w) == Start(w) \/ Loop(w) \/ Inc(w) \/ CountLoad(w) \/ CountStore(w)
             \/ LockStep(w) \/ BarrierStep(w)

MainThread == MainStart \/ MainStop \/ MainJoin \/ BarrierStep(Main)

\* The test has returned: the process may stop here.
Finished == pc[Main] = "done" /\ UNCHANGED vars

Next == MainThread \/ (\E w \in Workers : Worker(w)) \/ Finished

(* Threads are scheduled by the OS: a thread that can run, spinning ones  *)
(* included, keeps getting the CPU.                                        *)
Spec == Init /\ [][Next]_vars /\ WF_vars(MainThread)
        /\ \A w \in Workers : WF_vars(Worker(w))

-----------------------------------------------------------------------------
TypeOK ==
  /\ pc \in [Participants -> WorkerLabels \cup MainLabels \cup MCS!LockLabels
                              \cup MCS!UnlockLabels \cup Bar!BarrierLabels
                              \cup TAS!SpinLabels \cup {"s_release"}]
  /\ locked_ \in [{Q} -> BOOLEAN]
  /\ tail \in [{Q} -> Workers \cup {NULL}]
  /\ locked \in [Workers -> BOOLEAN]
  /\ next \in [Workers -> Workers \cup {NULL}]
  /\ previous \in [Workers -> Workers \cup {NULL}]
  /\ arrival \in 0..1 /\ departure \in 0..1
  /\ counter \in 0..Cardinality(Participants)
  /\ counters \in [Workers -> 0..MaxIters]
  /\ test \in Tests
  /\ shared \in 0..(Cardinality(Workers) * MaxIters)
  /\ tmp \in [Workers -> 0..(Cardinality(Workers) * MaxIters)]

\* The worker holds q: it returned from lock() and has not finished unlock().
Holds(w) == pc[w] \in {"inc", "inc_store", "s_release"} \cup MCS!UnlockLabels

(* Only one worker at a time adds to its counter or runs unlock(): the    *)
(* swap on tail_ and the hand-over through the successor's locked flag    *)
(* let exactly one thread out of lock(); for Spinlock, the test-and-set   *)
(* that finds locked_ false.                                               *)
MutualExclusion == \A v, w \in Workers : Holds(v) /\ Holds(w) => v = w

(* No participant leaves wait() while another has not yet counted itself  *)
(* in: departure_ is posted only by the last arrival, and a waiter in the *)
(* departure phase passes it on only while counter_ is above 0.           *)
Left(p) == pc[p] \notin {"start", "main_start", "b_arrive", "b_count_in", "b_depart", "b_count_out"}
CountedIn(p) == pc[p] \notin {"start", "main_start", "b_arrive", "b_count_in"}
BarrierHolds == \A p, q \in Participants : Left(p) => CountedIn(q)

(* A waiter is granted q once it has the lock: it is past lock(), or it   *)
(* spins and its predecessor has cleared its locked flag.                  *)
Granted(w) == Holds(w) \/ (pc[w] = "l_spin" /\ ~locked[w])

\* The queue of q: from tail_ back through each waiter's previous to the
\* thread granted the lock.
RECURSIVE ChainTo(_)
ChainTo(w) == IF Granted(w) THEN <<w>> ELSE Append(ChainTo(previous[w]), w)

MCSQueue == IF tail[Q] = NULL THEN <<>> ELSE ChainTo(tail[Q])

(* SpinlockMCS implements a FIFO lock: the swap on tail_ enqueues, the    *)
(* CAS that empties tail_ or the release of the successor dequeues the    *)
(* head, and nothing else changes the queue.  The Fairness test expects   *)
(* the workers' counts to end within 5% of each other because of it.      *)
QL == INSTANCE QueueLock WITH Threads <- Workers, queue <- MCSQueue
ImplementsQueueLock == QL!Spec

\* The holder of q is the head of its queue.
HolderIsHead == \A w \in Workers : Holds(w) => MCSQueue # <<>> /\ Head(MCSQueue) = w

(* Every worker that calls lock() gets q: the test's loop never hangs in  *)
(* lock() or unlock(), and every thread, main included, finishes.          *)
StarvationFree == \A w \in Workers : pc[w] = "l_new" ~> pc[w] = "inc"
AllJoined == <>(pc[Main] = "done")

(* EXPECT_EQ(testers[i]->requests(), incs) and EXPECT_EQ(counter,          *)
(* threads*incs) of the counters test: no increment of the shared counter *)
(* is lost, which needs each load and store pair to run alone under the   *)
(* lock, with the holder's writes seen by the next holder.                 *)
CountersExact ==
  (test = "counters" /\ pc[Main] = "done") =>
    /\ \A w \in Workers : counters[w] = MaxIters
    /\ shared = Cardinality(Workers) * MaxIters

=============================================================================
