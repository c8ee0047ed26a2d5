--------------------------- MODULE ThreadPoolFast ---------------------------
(***************************************************************************)
(* base::ThreadPoolFast (src/thread_pool_fast.cpp): a free-worker list     *)
(* (workers_, push_front/pop_front), a one-slot mailbox per worker         *)
(* (has_task_, task_ under the worker's mutex), and a FIFO dispatch_queue_ *)
(* used only when no worker is free.  stop() sends one NULL task per       *)
(* worker and joins every worker but the caller; a caller that is itself a *)
(* worker sets its thread-local last_worker_ and leaves after its task.    *)
(*                                                                         *)
(* Every call that takes m_dispatch_ (addTask, queueWorker) is one step;   *)
(* assignTask, nested inside it, is part of that step.  A task is a model  *)
(* value; running it is one step, during which it may add further tasks    *)
(* (a doRead arming its Descriptor) or call stop() (the /quit handler).    *)
(***************************************************************************)
EXTENDS Naturals, Sequences, FiniteSets, Bags, SequencesExt

CONSTANTS
  Workers,      \* the worker threads, workers_tids_
  Tasks,        \* user callbacks, each handed to addTask at most once
  NULL          \* the NULL task, stop()'s sentinel

ASSUME NULL \notin Tasks /\ Workers # {}

VARIABLES
  free,         \* workers_, the free-worker list, front first
  queue,        \* dispatch_queue_, front first
  hasTask,      \* Worker::has_task_
  task,         \* Worker::task_
  wpc,          \* where each worker thread is in workerLoop
  lastWorker,   \* the thread-local last_worker_ of each worker
  stopper,      \* the thread that called stop(): "none", "main" or a worker
  stopPhase,    \* "none", "adding" (the NULL tasks), "joining", "done"
  nulls,        \* NULL tasks added so far by stop()
  submitted,    \* tasks handed to addTask so far
  early,        \* history: tasks added before stop() was called
  queuedAtStop, \* history: tasks in dispatch_queue_ when stop() was called
  ran           \* bag: how many times each task has been run

vars == <<free, queue, hasTask, task, wpc, lastWorker, stopper, stopPhase,
          nulls, submitted, early, queuedAtStop, ran>>

N == Cardinality(Workers)

-----------------------------------------------------------------------------
\* Worker::assignTask: fill the mailbox under the worker's mutex, signal.
assignTask(w, t) ==
  /\ task' = [task EXCEPT ![w] = t]
  /\ hasTask' = [hasTask EXCEPT ![w] = TRUE]

(* ThreadPoolFast::addTask: hand the task to the front free worker through *)
(* its mailbox, or append it to the dispatch queue.                        *)
addTask(t) ==
  IF free # <<>>
  THEN /\ free' = Tail(free)
       /\ assignTask(Head(free), t)
       /\ UNCHANGED queue
  ELSE /\ queue' = Append(queue, t)
       /\ UNCHANGED <<free, task, hasTask>>

\* Mutant: the head of the queue is assigned but not popped.
queueWorkerNoPop(w) ==
  IF queue # <<>>
  THEN /\ task' = [task EXCEPT ![w] = Head(queue)]
       /\ hasTask' = [hasTask EXCEPT ![w] = TRUE]
       /\ UNCHANGED <<queue, free>>
  ELSE /\ free' = <<w>> \o free
       /\ UNCHANGED <<queue, task, hasTask>>

\* Mutant: a finished worker returns to the free list without a look at
\* the dispatch queue.
queueWorkerAlwaysFree(w) ==
  /\ free' = <<w>> \o free
  /\ UNCHANGED <<queue, task, hasTask>>

(* ThreadPoolFast::queueWorker: a worker that finished its task takes the *)
(* head of the dispatch queue, or goes back to the front of the free list. *)
queueWorker(w) ==
  IF queue # <<>>
  THEN /\ assignTask(w, Head(queue))
       /\ queue' = Tail(queue)
       /\ UNCHANGED free
  ELSE /\ free' = <<w>> \o free
       /\ UNCHANGED <<queue, task, hasTask>>

noteSubmit(t) ==
  /\ submitted' = submitted \cup {t}
  /\ early' = IF stopPhase = "none" THEN early \cup {t} ELSE early

-----------------------------------------------------------------------------
\* A thread outside the pool (the reactor, a timer) adds a task. IOManager
\* stops its polling loop before it stops the pool, so this ends at stop().
AddTaskExternal(t) ==
  /\ t \notin submitted /\ stopPhase = "none"
  /\ addTask(t)
  /\ noteSubmit(t)
  /\ UNCHANGED <<wpc, lastWorker, stopper, stopPhase, nulls, queuedAtStop, ran>>

\* A running task adds a task (it is not blocked inside stop()).
AddTaskFromWorker(w, t) ==
  /\ wpc[w] = "run" /\ (stopper # w \/ stopPhase = "done")
  /\ t \notin submitted
  /\ addTask(t)
  /\ noteSubmit(t)
  /\ UNCHANGED <<wpc, lastWorker, stopper, stopPhase, nulls, queuedAtStop, ran>>

\* Mutant: has_task_ is not cleared when the task is taken.
TakeTaskKeepsMailbox(w) ==
  /\ wpc[w] = "wait" /\ hasTask[w]
  /\ wpc' = [wpc EXCEPT ![w] = IF task[w] = NULL THEN "exited" ELSE "run"]
  /\ UNCHANGED <<free, queue, hasTask, task, lastWorker, stopper, stopPhase,
                 nulls, submitted, early, queuedAtStop, ran>>

\* workerLoop: wait for has_task_, clear it; a NULL task ends the thread.
TakeTask(w) ==
  /\ wpc[w] = "wait" /\ hasTask[w]
  /\ hasTask' = [hasTask EXCEPT ![w] = FALSE]
  /\ wpc' = [wpc EXCEPT ![w] = IF task[w] = NULL THEN "exited" ELSE "run"]
  /\ UNCHANGED <<free, queue, task, lastWorker, stopper, stopPhase, nulls,
                 submitted, early, queuedAtStop, ran>>

(* workerLoop: the task returns; a worker flagged last_worker_ by its own  *)
(* stop() call leaves, any other returns to the pool through queueWorker.  *)
FinishTask(w) ==
  /\ wpc[w] = "run" /\ (stopper # w \/ stopPhase = "done")
  /\ ran' = ran (+) SetToBag({task[w]})
  /\ IF lastWorker[w]
     THEN /\ wpc' = [wpc EXCEPT ![w] = "exited"]
          /\ UNCHANGED <<free, queue, task, hasTask>>
     ELSE /\ wpc' = [wpc EXCEPT ![w] = "wait"]
          /\ queueWorker(w)
  /\ UNCHANGED <<lastWorker, stopper, stopPhase, nulls, submitted, early,
                 queuedAtStop>>

-----------------------------------------------------------------------------
(* ThreadPoolFast::stop, called once (IOManager::stop lets one caller      *)
(* through) by the main thread or from inside a running task.              *)
StopBegin(c) ==
  /\ stopPhase = "none"
  /\ c = "main" \/ (c \in Workers /\ wpc[c] = "run")
  /\ stopper' = c /\ stopPhase' = "adding"
  /\ queuedAtStop' = Range(queue)
  /\ UNCHANGED <<free, queue, hasTask, task, wpc, lastWorker, nulls,
                 submitted, early, ran>>

\* Mutant: the NULL loop runs once more than the number of workers.
StopAddNullExtra ==
  /\ stopPhase = "adding"
  /\ addTask(NULL)
  /\ nulls' = nulls + 1
  /\ stopPhase' = IF nulls = N THEN "joining" ELSE "adding"
  /\ UNCHANGED <<wpc, lastWorker, stopper, submitted, early, queuedAtStop, ran>>

\* Mutant: the NULL loop stops one short of the number of workers.
StopAddNullShort ==
  /\ stopPhase = "adding"
  /\ addTask(NULL)
  /\ nulls' = nulls + 1
  /\ stopPhase' = IF nulls + 2 >= N THEN "joining" ELSE "adding"
  /\ UNCHANGED <<wpc, lastWorker, stopper, submitted, early, queuedAtStop, ran>>

\* Mutant: the NULL tasks jump the dispatch queue, so queued tasks are
\* dropped as section 5 of the design describes.
StopAddNullFront ==
  /\ stopPhase = "adding"
  /\ IF free # <<>> THEN addTask(NULL)
     ELSE /\ queue' = <<NULL>> \o queue
          /\ UNCHANGED <<free, task, hasTask>>
  /\ nulls' = nulls + 1
  /\ stopPhase' = IF nulls + 1 = N THEN "joining" ELSE "adding"
  /\ UNCHANGED <<wpc, lastWorker, stopper, submitted, early, queuedAtStop, ran>>

\* One iteration of the loop of addTask(NULL) calls.
StopAddNull ==
  /\ stopPhase = "adding"
  /\ addTask(NULL)
  /\ nulls' = nulls + 1
  /\ stopPhase' = IF nulls + 1 = N THEN "joining" ELSE "adding"
  /\ UNCHANGED <<wpc, lastWorker, stopper, submitted, early, queuedAtStop, ran>>

\* pthread_join of every worker but the caller; then last_worker_ is set.
StopJoin ==
  /\ stopPhase = "joining"
  /\ \A x \in Workers \ {stopper} : wpc[x] = "exited"
  /\ stopPhase' = "done"
  /\ lastWorker' = IF stopper \in Workers
                   THEN [lastWorker EXCEPT ![stopper] = TRUE]
                   ELSE lastWorker
  /\ UNCHANGED <<free, queue, hasTask, task, wpc, stopper, nulls, submitted,
                 early, queuedAtStop, ran>>

\* ~ThreadPoolFast: pop every task still in dispatch_queue_, deleting the
\* once-run ones.
deletePool == queue' = <<>>

\* Once every thread has left, the pool does nothing more.
Terminated ==
  /\ stopPhase = "done" /\ \A w \in Workers : wpc[w] = "exited"
  /\ UNCHANGED vars

-----------------------------------------------------------------------------
(* The constructor: each worker thread is started and queued with          *)
(* queueWorker, so the free list holds them in reverse order.              *)
Init ==
  /\ free \in {s \in [1..N -> Workers] : IsInjective(s)}
  /\ queue = <<>>
  /\ hasTask = [w \in Workers |-> FALSE]
  /\ task = [w \in Workers |-> NULL]
  /\ wpc = [w \in Workers |-> "wait"]
  /\ lastWorker = [w \in Workers |-> FALSE]
  /\ stopper = "none" /\ stopPhase = "none" /\ nulls = 0
  /\ submitted = {} /\ early = {} /\ queuedAtStop = {} /\ ran = EmptyBag

(* Worker::workerLoop: wait for a task, run it, return to the free list; *)
(* a task the worker adds runs inside its loop.                           *)
WorkerStep(w) ==
  \/ TakeTask(w) \/ FinishTask(w)
  \/ \E t \in Tasks : AddTaskFromWorker(w, t)

StopStep == StopAddNull \/ StopJoin

Next ==
  \/ \E t \in Tasks : AddTaskExternal(t)
  \/ \E w \in Workers : WorkerStep(w)
  \/ \E c \in {"main"} \cup Workers : StopBegin(c)
  \/ StopStep
  \/ Terminated

(* A worker thread runs its task to the end and wakes on its condition    *)
(* variable, and the thread in stop() keeps running: all weakly fair.      *)
(* Nobody is obliged to add tasks or to call stop().                       *)
Fairness ==
  /\ \A w \in Workers : WF_vars(TakeTask(w) \/ FinishTask(w))
  /\ WF_vars(StopStep)

Spec == Init /\ [][Next]_vars /\ Fairness

-----------------------------------------------------------------------------
(* Properties                                                               *)

TypeOK ==
  /\ free \in Seq(Workers) /\ queue \in Seq(Tasks \cup {NULL})
  /\ hasTask \in [Workers -> BOOLEAN] /\ task \in [Workers -> Tasks \cup {NULL}]
  /\ wpc \in [Workers -> {"wait", "run", "exited"}]
  /\ lastWorker \in [Workers -> BOOLEAN]
  /\ stopper \in {"none", "main"} \cup Workers
  /\ stopPhase \in {"none", "adding", "joining", "done"} /\ nulls \in 0..N
  /\ submitted \subseteq Tasks /\ early \subseteq submitted
  /\ queuedAtStop \subseteq Tasks \cup {NULL} /\ IsABag(ran)

\* Where a task can be: in the dispatch queue, in a mailbox or running, run.
Copies(t) ==
  Cardinality({i \in DOMAIN queue : queue[i] = t})
  + Cardinality({w \in Workers : task[w] = t /\ (hasTask[w] \/ wpc[w] = "run")})
  + CopiesIn(t, ran)

(* A callback handed to addTask is never lost and never run twice: free  *)
(* list pops, mailbox hand-offs and queueWorker's take of the queue head   *)
(* keep every added task in exactly one place until it has run once.       *)
ExactlyOnce == \A t \in Tasks : Copies(t) = IF t \in submitted THEN 1 ELSE 0

(* The point of the free list: no worker sits idle on its condition        *)
(* variable while a task waits in the dispatch queue.                      *)
NoIdleWhileQueued == queue # <<>> => free = <<>>

(* stop() returns and every worker thread leaves, whether stop() was      *)
(* called by the main thread or by a task running on a worker; no NULL     *)
(* task goes to the caller and no join waits for a thread that stays.      *)
StopTerminates ==
  stopPhase # "none" ~> \A w \in Workers : wpc[w] = "exited"

(* ThreadPool::stop "waits for all the workers to finish processing the    *)
(* ongoing tasks": a task added before stop() was called is run, even if   *)
(* it was still queued then (the NULL tasks queue up behind it).           *)
EarlyTasksRun == \A t \in Tasks : t \in early ~> CopiesIn(t, ran) = 1

(* ThreadPoolFast implements the ThreadPool contract: a task is pending  *)
(* while it waits in the dispatch queue or in a worker's mailbox, active   *)
(* while its worker runs it, done once it returned.  NULL tasks and the    *)
(* free list are invisible to users of the pool.                           *)
TP == INSTANCE TaskPool WITH
        pending <- (Range(queue) \cup {task[w] : w \in {x \in Workers : hasTask[x]}})
                   \ {NULL},
        active  <- [w \in Workers |-> IF wpc[w] = "run" THEN task[w] ELSE NULL],
        done    <- BagToSet(ran),
        NoTask  <- NULL

ImplementsTaskPool == TP!Spec

(* Section 5 of the design: "Pending queued tasks at stop time are dropped *)
(* without execution".                                                     *)
QueuedDroppedAtStop == \A t \in queuedAtStop \cap Tasks : CopiesIn(t, ran) = 0

=============================================================================
