-------------------------- MODULE ThreadPoolNormal --------------------------
(***************************************************************************)
(* base::ThreadPoolNormal (src/thread_pool_normal.cpp): one dispatch_queue_ *)
(* under m_dispatch_, workers waiting on cv_not_empty_ for its front.      *)
(* stop() pushes one NULL task per worker in a single critical section and *)
(* joins every worker but its caller; a caller that is a worker sets its   *)
(* thread-local last_worker_ and leaves after its task, leaving one NULL   *)
(* in the queue for the destructor.                                        *)
(***************************************************************************)
EXTENDS Naturals, Sequences, FiniteSets, Bags, SequencesExt

CONSTANTS
  Workers,      \* the threads in workers_
  Tasks,        \* user callbacks, each handed to addTask at most once
  NULL          \* the NULL task, stop()'s sentinel

ASSUME NULL \notin Tasks /\ Workers # {}

VARIABLES
  queue,        \* dispatch_queue_, front first
  task,         \* the task local of each workerLoop
  wpc,          \* "wait", "run" or "exited"
  lastWorker,   \* the thread-local last_worker_
  stopper,      \* the thread that called stop(): "none", "main" or a worker
  stopPhase,    \* "none", "joining", "done"
  submitted,    \* tasks handed to addTask so far
  early,        \* history: tasks added before stop() was called
  ran           \* bag: how many times each task has been run

vars == <<queue, task, wpc, lastWorker, stopper, stopPhase, submitted, early, ran>>

N == Cardinality(Workers)

NullCount(s) == Cardinality({i \in DOMAIN s : s[i] = NULL})

-----------------------------------------------------------------------------
\* ThreadPoolNormal::addTask: push under m_dispatch_, signal one waiter.
addTask(t) ==
  /\ t \notin submitted
  /\ queue' = Append(queue, t)
  /\ submitted' = submitted \cup {t}
  /\ early' = IF stopPhase = "none" THEN early \cup {t} ELSE early

\* A thread outside the pool adds a task; it stops doing so before stop().
AddTaskExternal(t) ==
  /\ stopPhase = "none"
  /\ addTask(t)
  /\ UNCHANGED <<task, wpc, lastWorker, stopper, stopPhase, ran>>

\* A running task adds a task (it is not blocked inside stop()).
AddTaskFromWorker(w, t) ==
  /\ wpc[w] = "run" /\ (stopper # w \/ stopPhase = "done")
  /\ addTask(t)
  /\ UNCHANGED <<task, wpc, lastWorker, stopper, stopPhase, ran>>

\* Mutant: the front is read but not popped.
TakeTaskNoPop(w) ==
  /\ wpc[w] = "wait" /\ queue # <<>>
  /\ task' = [task EXCEPT ![w] = Head(queue)]
  /\ wpc' = [wpc EXCEPT ![w] = IF Head(queue) = NULL THEN "exited" ELSE "run"]
  /\ UNCHANGED <<queue, lastWorker, stopper, stopPhase, submitted, early, ran>>

\* Mutant: the NULL test is missing and the sentinel is run as a task.
TakeTaskNoNullCheck(w) ==
  /\ wpc[w] = "wait" /\ queue # <<>>
  /\ task' = [task EXCEPT ![w] = Head(queue)]
  /\ queue' = Tail(queue)
  /\ wpc' = [wpc EXCEPT ![w] = "run"]
  /\ UNCHANGED <<lastWorker, stopper, stopPhase, submitted, early, ran>>

(* workerLoop: wait until the queue is not empty, pop its front; a NULL    *)
(* task ends the thread.                                                   *)
TakeTask(w) ==
  /\ wpc[w] = "wait" /\ queue # <<>>
  /\ task' = [task EXCEPT ![w] = Head(queue)]
  /\ queue' = Tail(queue)
  /\ wpc' = [wpc EXCEPT ![w] = IF Head(queue) = NULL THEN "exited" ELSE "run"]
  /\ UNCHANGED <<lastWorker, stopper, stopPhase, submitted, early, ran>>

\* workerLoop: the task returns; a worker flagged last_worker_ leaves.
FinishTask(w) ==
  /\ wpc[w] = "run" /\ (stopper # w \/ stopPhase = "done")
  /\ ran' = ran (+) SetToBag({task[w]})
  /\ wpc' = [wpc EXCEPT ![w] = IF lastWorker[w] THEN "exited" ELSE "wait"]
  /\ UNCHANGED <<queue, task, lastWorker, stopper, stopPhase, submitted, early>>

-----------------------------------------------------------------------------
\* Mutant: one NULL more than there are workers.
StopExtra(c) ==
  /\ stopPhase = "none"
  /\ c = "main" \/ (c \in Workers /\ wpc[c] = "run")
  /\ queue' = queue \o [i \in 1..(N + 1) |-> NULL]
  /\ stopper' = c /\ stopPhase' = "joining"
  /\ UNCHANGED <<task, wpc, lastWorker, submitted, early, ran>>

\* Mutant: one NULL per worker other than the caller.
StopOneShort(c) ==
  /\ stopPhase = "none"
  /\ c = "main" \/ (c \in Workers /\ wpc[c] = "run")
  /\ queue' = queue \o [i \in 1..(N - 1) |-> NULL]
  /\ stopper' = c /\ stopPhase' = "joining"
  /\ UNCHANGED <<task, wpc, lastWorker, submitted, early, ran>>

\* Mutant: the NULL tasks are pushed in front of the queued tasks.
StopNullsFirst(c) ==
  /\ stopPhase = "none"
  /\ c = "main" \/ (c \in Workers /\ wpc[c] = "run")
  /\ queue' = [i \in 1..N |-> NULL] \o queue
  /\ stopper' = c /\ stopPhase' = "joining"
  /\ UNCHANGED <<task, wpc, lastWorker, submitted, early, ran>>

(* ThreadPoolNormal::stop, by the main thread or from inside a running     *)
(* task: N NULL tasks pushed behind the queue under one lock.               *)
Stop(c) ==
  /\ stopPhase = "none"
  /\ c = "main" \/ (c \in Workers /\ wpc[c] = "run")
  /\ queue' = queue \o [i \in 1..N |-> NULL]
  /\ stopper' = c /\ stopPhase' = "joining"
  /\ UNCHANGED <<task, wpc, lastWorker, submitted, early, ran>>

\* pthread_join of every worker but the caller; then last_worker_ is set.
StopJoin ==
  /\ stopPhase = "joining"
  /\ \A x \in Workers \ {stopper} : wpc[x] = "exited"
  /\ stopPhase' = "done"
  /\ lastWorker' = IF stopper \in Workers
                   THEN [lastWorker EXCEPT ![stopper] = TRUE]
                   ELSE lastWorker
  /\ UNCHANGED <<queue, task, wpc, stopper, submitted, early, ran>>

\* Once every thread has left, the pool does nothing more.
Terminated ==
  /\ stopPhase = "done" /\ \A w \in Workers : wpc[w] = "exited"
  /\ UNCHANGED vars

-----------------------------------------------------------------------------
\* The constructor starts the worker threads, each waiting on the queue.
Init ==
  /\ queue = <<>>
  /\ task = [w \in Workers |-> NULL]
  /\ wpc = [w \in Workers |-> "wait"]
  /\ lastWorker = [w \in Workers |-> FALSE]
  /\ stopper = "none" /\ stopPhase = "none"
  /\ submitted = {} /\ early = {} /\ ran = EmptyBag

WorkerStep(w) ==
  \/ TakeTask(w) \/ FinishTask(w)
  \/ \E t \in Tasks : AddTaskFromWorker(w, t)

Next ==
  \/ \E t \in Tasks : AddTaskExternal(t)
  \/ \E w \in Workers : WorkerStep(w)
  \/ \E c \in {"main"} \cup Workers : Stop(c)
  \/ StopJoin
  \/ Terminated

(* Workers wake on cv_not_empty_ (signalled by every push) and run their   *)
(* task to the end; the thread in stop() keeps going until it joins.       *)
Fairness ==
  /\ \A w \in Workers : WF_vars(TakeTask(w) \/ FinishTask(w))
  /\ WF_vars(StopJoin)

Spec == Init /\ [][Next]_vars /\ Fairness

-----------------------------------------------------------------------------
(* Properties                                                               *)

TypeOK ==
  /\ queue \in Seq(Tasks \cup {NULL})
  /\ task \in [Workers -> Tasks \cup {NULL}]
  /\ wpc \in [Workers -> {"wait", "run", "exited"}]
  /\ lastWorker \in [Workers -> BOOLEAN]
  /\ stopper \in {"none", "main"} \cup Workers
  /\ stopPhase \in {"none", "joining", "done"}
  /\ submitted \subseteq Tasks /\ early \subseteq submitted
  /\ IsABag(ran) /\ BagToSet(ran) \subseteq Tasks

\* Where a task can be: in the dispatch queue, running, or run.
Copies(t) ==
  Cardinality({i \in DOMAIN queue : queue[i] = t})
  + Cardinality({w \in Workers : wpc[w] = "run" /\ task[w] = t})
  + CopiesIn(t, ran)

(* A callback handed to addTask is never lost and never run twice, however *)
(* the workers' pops interleave with pushes from outside and from tasks.    *)
ExactlyOnce == \A t \in Tasks : Copies(t) = IF t \in submitted THEN 1 ELSE 0

(* stop() returns and every worker thread leaves, whether stop() was      *)
(* called by the main thread or by a task running on a worker.             *)
StopTerminates ==
  stopPhase # "none" ~> \A w \in Workers : wpc[w] = "exited"

(* ThreadPool::stop "waits for all the workers to finish processing the    *)
(* ongoing tasks": a task added before stop() is run, since the NULL tasks *)
(* are pushed behind it.                                                   *)
EarlyTasksRun == \A t \in Tasks : t \in early ~> CopiesIn(t, ran) = 1

(* What ~ThreadPoolNormal disposes of once everyone has left: one NULL     *)
(* task when a worker called stop() (it never takes its own), none when    *)
(* main did, and exactly the tasks that running workers added after stop() *)
(* (ThreadPool's destructor comment).                                      *)
LeftForDestructor ==
  (stopPhase = "done" /\ \A w \in Workers : wpc[w] = "exited") =>
    /\ NullCount(queue) = IF stopper \in Workers THEN 1 ELSE 0
    /\ Range(queue) \ {NULL} = submitted \ early

(* ThreadPoolNormal implements the ThreadPool contract: a task is pending *)
(* while queued, active while its worker runs it, done once it returned.   *)
TP == INSTANCE TaskPool WITH
        pending <- Range(queue) \ {NULL},
        active  <- [w \in Workers |-> IF wpc[w] = "run" THEN task[w] ELSE NULL],
        done    <- BagToSet(ran),
        NoTask  <- NULL

ImplementsTaskPool == TP!Spec

=============================================================================
