------------------------------ MODULE PoolTester ------------------------------
(***************************************************************************)
(* The tests of src/thread_pool_test.cpp over ThreadPoolNormal.  The main  *)
(* thread adds the Incr callback once per element of Incrs (the test adds *)
(* one callback num_repeats times; each addTask call is a distinct queue   *)
(* entry here), then, by test:                                             *)
(*   Sequential: stop(), EXPECT_EQ(counter, num_repeats), delete the pool; *)
(*   StopIssuedInsideThePool: addTask(stop), where the task calls stop()  *)
(*     from the worker and notifies, wait(), EXPECT_EQ, delete;            *)
(*   Concurrency: EXPECT_GT(num_repeats, counter), stop(), EXPECT_EQ,     *)
(*     delete.                                                             *)
(* Counter::Incr is one step: it runs under the Counter's mutex.  A worker *)
(* runs its task's body between ThreadPoolNormal's TakeTask and FinishTask.*)
(***************************************************************************)
EXTENDS Naturals, FiniteSets

CONSTANTS Workers, Incrs, StopTask, NULL, TestCases

VARIABLES queue, task, wpc, lastWorker, stopper, stopPhase, submitted, early,
          ran, test, mpc, counter, bodyDone, notified

poolVars == <<queue, task, wpc, lastWorker, stopper, stopPhase, submitted,
              early, ran>>
testVars == <<test, mpc, counter, bodyDone, notified>>
vars == <<poolVars, testVars>>

P == INSTANCE ThreadPoolNormal WITH Tasks <- Incrs \cup {StopTask}

NumRepeats == Cardinality(Incrs)

Init ==
  /\ P!Init
  /\ test \in TestCases
  /\ mpc = "add"
  /\ counter = 0
  /\ bodyDone = [w \in Workers |-> FALSE]
  /\ notified = FALSE

-----------------------------------------------------------------------------
(* Workers.  Counter::Incr: ++i under the Counter's mutex.                 *)
IncrBody(w) ==
  /\ wpc[w] = "run" /\ task[w] \in Incrs /\ ~bodyDone[w]
  /\ counter' = counter + 1
  /\ bodyDone' = [bodyDone EXCEPT ![w] = TRUE]
  /\ UNCHANGED <<poolVars, test, mpc, notified>>

\* Stopper::stop: p_->stop() from the worker running the task ...
StopBody(w) ==
  /\ wpc[w] = "run" /\ task[w] = StopTask /\ ~bodyDone[w]
  /\ P!Stop(w)
  /\ UNCHANGED testVars

\* ... and n_.notify() once stop() has returned.
Notify(w) ==
  /\ wpc[w] = "run" /\ task[w] = StopTask /\ ~bodyDone[w]
  /\ stopper = w /\ stopPhase = "done"
  /\ notified' = TRUE
  /\ bodyDone' = [bodyDone EXCEPT ![w] = TRUE]
  /\ UNCHANGED <<poolVars, test, mpc, counter>>

\* The task returns to workerLoop.
Finish(w) ==
  /\ bodyDone[w]
  /\ P!FinishTask(w)
  /\ bodyDone' = [bodyDone EXCEPT ![w] = FALSE]
  /\ UNCHANGED <<test, mpc, counter, notified>>

Take(w) == P!TakeTask(w) /\ UNCHANGED testVars

Worker(w) == Take(w) \/ IncrBody(w) \/ StopBody(w) \/ Notify(w) \/ Finish(w)

-----------------------------------------------------------------------------
(* The main thread.  for (...) pool->addTask(task);                         *)
MainAdd ==
  /\ mpc = "add"
  /\ \E t \in Incrs \ submitted :
       /\ P!AddTaskExternal(t)
       /\ mpc' = IF submitted' = Incrs
                 THEN CASE test = "Sequential" -> "stop"
                        [] test = "StopIssuedInsideThePool" -> "add_stop"
                        [] test = "Concurrency" -> "peek"
                 ELSE "add"
  /\ UNCHANGED <<test, counter, bodyDone, notified>>

\* pool->addTask(stop);
MainAddStop ==
  /\ mpc = "add_stop"
  /\ P!AddTaskExternal(StopTask)
  /\ mpc' = "wait"
  /\ UNCHANGED <<test, counter, bodyDone, notified>>

\* stopper->wait();
MainWait ==
  /\ mpc = "wait" /\ notified
  /\ mpc' = "check"
  /\ UNCHANGED <<poolVars, test, counter, bodyDone, notified>>

\* EXPECT_GT(num_repeats, counter.Get()): the read of the counter, which
\* races with the workers' Incr (the test's comment speaks of SlowIncr).
MainPeek ==
  /\ mpc = "peek"
  /\ mpc' = "stop"
  /\ UNCHANGED <<poolVars, test, counter, bodyDone, notified>>

\* pool->stop() from main: the NULL tasks, then the joins.
MainStop ==
  /\ mpc = "stop"
  /\ P!Stop("main")
  /\ mpc' = "joining"
  /\ UNCHANGED <<test, counter, bodyDone, notified>>

MainJoin ==
  /\ mpc = "joining"
  /\ P!StopJoin
  /\ mpc' = "check"
  /\ UNCHANGED <<test, counter, bodyDone, notified>>

\* ~ThreadPoolNormal: pop every task still in dispatch_queue_.
deletePool == queue' = <<>>

\* EXPECT_EQ(counter.Get(), num_repeats); then delete pool and the task.
MainDelete ==
  /\ mpc = "check"
  /\ deletePool
  /\ mpc' = "deleted"
  /\ UNCHANGED <<task, wpc, lastWorker, stopper, stopPhase, submitted, early,
                 ran, test, counter, bodyDone, notified>>

Main == MainAdd \/ MainAddStop \/ MainWait \/ MainPeek \/ MainStop \/ MainJoin
        \/ MainDelete

\* The thread in stop() called from a worker joins the others.
WorkerStopJoin ==
  /\ stopper \in Workers
  /\ P!StopJoin
  /\ UNCHANGED testVars

\* The test has returned and its workers have left.
Finished ==
  /\ mpc = "deleted" /\ \A w \in Workers : wpc[w] = "exited"
  /\ UNCHANGED vars

Next == Main \/ (\E w \in Workers : Worker(w)) \/ WorkerStopJoin \/ Finished

(* Threads that can run get the CPU; a waiter on cv_not_empty_ or on the  *)
(* Notification is woken by the signal it waits for.                       *)
Spec == Init /\ [][Next]_vars /\ WF_vars(Main)
        /\ WF_vars(WorkerStopJoin) /\ \A w \in Workers : WF_vars(Worker(w))

-----------------------------------------------------------------------------
TypeOK ==
  /\ P!TypeOK
  /\ mpc \in {"add", "add_stop", "wait", "peek", "stop", "joining", "check", "deleted"}
  /\ counter \in 0..NumRepeats
  /\ bodyDone \in [Workers -> BOOLEAN]
  /\ notified \in BOOLEAN

(* EXPECT_EQ(counter.Get(), num_repeats): when main reaches the check,    *)
(* every Incr added has run, whether stop() came from main after the adds *)
(* or from a task queued behind them on the one worker.                    *)
CountedAtCheck == mpc = "check" => counter = NumRepeats

(* The pool is deleted while a worker that called stop() itself may still  *)
(* be running: the worker must not touch the pool again, so every worker   *)
(* has left or is inside its last task.                                    *)
DeletedPoolIdle ==
  mpc = "deleted" =>
    \A w \in Workers : wpc[w] = "exited" \/ (wpc[w] = "run" /\ lastWorker[w])

\* Every test returns: stop() and the Notification wait end.
TestReturns == <>(mpc = "deleted")

=============================================================================
