----------------------------- MODULE ServiceStop -----------------------------
(***************************************************************************)
(* Shutting the server down: a /quit request handled on a worker calls     *)
(* IOService::stop (src/io_service.cpp), which closes the acceptors and    *)
(* calls IOManager::stop (src/io_manager.cpp): set stopped_, wait for the *)
(* reactor to leave pollBody (polling_), stop the pool (ThreadPoolFast,    *)
(* whose steps this module reuses), drain the Descriptor GC list.  The     *)
(* main thread runs IOService::start: the reactor loop, then a wait for    *)
(* IOService::stopped_, then main() returns and the destructors of         *)
(* IOService and IOManager run before the process exits (src/server.cpp).  *)
(*                                                                         *)
(* A quit task, after stop() returns, makes readDone return false; doRead  *)
(* breaks and its release() may delete the Connection, whose destructor    *)
(* calls IOManager::delDescriptor.                                         *)
(***************************************************************************)
EXTENDS ThreadPoolFast

CONSTANTS
  QuitTasks,     \* the tasks that are the doRead of a /quit request
  AcceptTasks,   \* the tasks that are a run of Acceptor::doAccept
  AcceptErrors   \* whether accept() may fail with an error other than EAGAIN

ASSUME /\ QuitTasks \subseteq Tasks /\ AcceptTasks \subseteq Tasks
       /\ QuitTasks \cap AcceptTasks = {} /\ AcceptErrors \in BOOLEAN

VARIABLES
  rpc,          \* the main thread: reactor loop, wait in start(), teardown
  polling,      \* IOManager::polling_
  mgrStopped,   \* IOManager::stopped_
  stopReq,      \* IOService::stop_requested_
  svcStopped,   \* IOService::stopped_
  accClosed,    \* Acceptor::close has run: listen_fd_ closed, io_descr_ NULL
  accEdge,      \* this poll round returned the listening socket's edge
  mgrDeleted,   \* ~IOService has deleted the IOManager
  body,         \* where each worker is inside its task
  dispatched    \* history: the callbacks the reactor handed to the pool

svc == <<rpc, polling, mgrStopped, stopReq, svcStopped, accClosed, accEdge, mgrDeleted,
         body, dispatched>>
all == <<vars, svc>>

Bodies == {"none", "svc_stop", "svc_wait", "close_acc", "mgr_stop", "mgr_wait",
           "pool_stop", "gc_drain", "svc_signal", "release", "acc_loop", "acc_rearm",
           "end"}

-----------------------------------------------------------------------------
(* The main thread.                                                         *)

\* IOService::start: startAccept on each acceptor, then IOManager::poll
\* sets polling_ and enters pollBody.
Start ==
  /\ rpc = "init"
  /\ rpc' = "loop" /\ polling' = TRUE
  /\ UNCHANGED <<vars, mgrStopped, stopReq, svcStopped, accClosed, accEdge, mgrDeleted, body, dispatched>>

\* pollBody's loop test: while (!stopped()).
LoopTest ==
  /\ rpc = "loop"
  /\ rpc' = IF mgrStopped THEN "exit" ELSE "round"
  /\ accEdge' = (~mgrStopped /\ ~accClosed)
  /\ UNCHANGED <<vars, polling, mgrStopped, stopReq, svcStopped, accClosed,
                 mgrDeleted, body, dispatched>>

(* One edge of the poll round hands a callback to the pool: addTask, which *)
(* does not look at whether the pool is being stopped.  doAccept needs the *)
(* listening socket's edge from this round's epoll_wait, which may have    *)
(* returned it just before Acceptor::close.                                *)
Dispatch(t) ==
  /\ rpc = "round" /\ t \notin submitted
  /\ t \in AcceptTasks => accEdge
  /\ addTask(t)
  /\ noteSubmit(t)
  /\ dispatched' = dispatched \cup {t}
  /\ UNCHANGED <<wpc, lastWorker, stopper, stopPhase, nulls, queuedAtStop, ran>>
  /\ UNCHANGED <<rpc, polling, mgrStopped, stopReq, svcStopped, accClosed, accEdge,
                 mgrDeleted, body>>

EndRound ==
  /\ rpc = "round"
  /\ rpc' = "loop"
  /\ UNCHANGED <<vars, polling, mgrStopped, stopReq, svcStopped, accClosed, accEdge,
                 mgrDeleted, body, dispatched>>

\* After the loop: polling_ = false and cv_polling_ signalled.
LeavePoll ==
  /\ rpc = "exit"
  /\ rpc' = "wait_stopped" /\ polling' = FALSE
  /\ UNCHANGED <<vars, mgrStopped, stopReq, svcStopped, accClosed, accEdge, mgrDeleted, body, dispatched>>

\* IOService::start waits on cv_stopped_ for stopped_, then returns.
StartReturns ==
  /\ rpc = "wait_stopped" /\ svcStopped
  /\ rpc' = "teardown"
  /\ UNCHANGED <<vars, polling, mgrStopped, stopReq, svcStopped, accClosed, accEdge,
                 mgrDeleted, body, dispatched>>

(* main returns: ~HTTPService, then ~IOService, whose stop() returns at   *)
(* once, deletes the acceptors and the IOManager (its own stop() returns   *)
(* at once, its worker pool and poller are deleted).                       *)
\* ~IOManager: stop() (already stopped), delete worker_pool_ and poller_.
deleteManager == mgrDeleted' = TRUE /\ deletePool

Teardown ==
  /\ rpc = "teardown"
  /\ rpc' = "deleted"
  /\ deleteManager
  /\ UNCHANGED <<free, hasTask, task, wpc, lastWorker, stopper, stopPhase, nulls,
                 submitted, early, queuedAtStop, ran, polling, mgrStopped, stopReq, svcStopped, accClosed, accEdge, body, dispatched>>

\* The process exits; every thread still alive dies with it.
ProcessExit ==
  /\ rpc = "deleted"
  /\ rpc' = "exited"
  /\ UNCHANGED <<vars, polling, mgrStopped, stopReq, svcStopped, accClosed, accEdge,
                 mgrDeleted, body, dispatched>>

-----------------------------------------------------------------------------
(* Workers: the pool's steps, with the body of a quit task in between.     *)

\* "segv": the process died on a NULL dereference.
Alive == rpc \notin {"exited", "segv"}

SvcTakeTask(w) ==
  /\ Alive
  /\ TakeTask(w)
  /\ body' = [body EXCEPT ![w] = CASE task[w] \in QuitTasks   -> "svc_stop"
                                   [] task[w] \in AcceptTasks -> "acc_loop"
                                   [] OTHER                  -> "end"]
  /\ UNCHANGED <<rpc, polling, mgrStopped, stopReq, svcStopped, accClosed, accEdge, mgrDeleted, dispatched>>

SvcFinishTask(w) ==
  /\ Alive /\ body[w] = "end"
  /\ FinishTask(w)
  /\ body' = [body EXCEPT ![w] = "none"]
  /\ UNCHANGED <<rpc, polling, mgrStopped, stopReq, svcStopped, accClosed, accEdge, mgrDeleted, dispatched>>

\* A request handler arms its Descriptor, which may schedule a callback.
SvcAddTask(w, t) ==
  /\ Alive /\ body[w] = "end"
  /\ AddTaskFromWorker(w, t)
  /\ UNCHANGED svc

Step(w, from, to) ==
  /\ Alive /\ body[w] = from
  /\ body' = [body EXCEPT ![w] = to]

(* IOService::stop: one caller goes through; a later one waits on          *)
(* cv_stopped_ until the first has finished.  A worker waiting there has   *)
(* no step out: stopped_ is set only after the pool's stop() has joined    *)
(* every worker but its caller, the waiting one included.  (The wait that  *)
(* does end is main's, in ~IOService, part of Teardown.)                   *)
SvcStop(w) ==
  /\ Step(w, "svc_stop", IF stopReq THEN "svc_wait" ELSE "close_acc")
  /\ stopReq' = TRUE
  /\ UNCHANGED <<vars, rpc, polling, mgrStopped, svcStopped, accClosed, accEdge, mgrDeleted, dispatched>>

\* Acceptor::close on every acceptor.
CloseAcceptors(w) ==
  /\ Step(w, "close_acc", "mgr_stop")
  /\ accClosed' = TRUE
  /\ UNCHANGED <<vars, rpc, polling, mgrStopped, stopReq, svcStopped, accEdge, mgrDeleted,
                 dispatched>>

\* IOManager::stop: set stopped_ (a second call returns at once).
MgrStop(w) ==
  /\ Step(w, "mgr_stop", IF mgrStopped THEN "svc_signal" ELSE "mgr_wait")
  /\ mgrStopped' = TRUE
  /\ UNCHANGED <<vars, rpc, polling, stopReq, svcStopped, accClosed, accEdge, mgrDeleted, dispatched>>

\* Mutant: stop the pool without waiting for the reactor to leave pollBody.
MgrWaitNoPollWait(w) ==
  /\ Step(w, "mgr_wait", "pool_stop")
  /\ StopBegin(w)
  /\ UNCHANGED <<rpc, polling, mgrStopped, stopReq, svcStopped, accClosed, accEdge, mgrDeleted, dispatched>>

\* ... wait on cv_polling_ until the reactor has left, then the pool's stop().
MgrWait(w) ==
  /\ ~polling
  /\ Step(w, "mgr_wait", "pool_stop")
  /\ StopBegin(w)
  /\ UNCHANGED <<rpc, polling, mgrStopped, stopReq, svcStopped, accClosed, accEdge, mgrDeleted, dispatched>>

\* The pool's stop() has returned; deleted_desc_ is drained.
GcDrain(w) ==
  /\ stopPhase = "done"
  /\ Step(w, "pool_stop", "gc_drain")
  /\ UNCHANGED <<vars, rpc, polling, mgrStopped, stopReq, svcStopped, accClosed, accEdge, mgrDeleted, dispatched>>

StopReturnsToService(w) ==
  /\ Step(w, "gc_drain", "svc_signal")
  /\ UNCHANGED <<vars, rpc, polling, mgrStopped, stopReq, svcStopped, accClosed, accEdge, mgrDeleted, dispatched>>

\* Where a stopper goes once stop() returns: doRead's release, or doAccept's loop.
AfterStop(w) == IF task[w] \in AcceptTasks THEN "acc_loop" ELSE "release"

\* Mutant: signal cv_stopped_ without setting stopped_.
SvcSignalNoFlag(w) ==
  /\ Step(w, "svc_signal", AfterStop(w))
  /\ UNCHANGED <<vars, rpc, polling, mgrStopped, stopReq, svcStopped, accClosed, accEdge, mgrDeleted, dispatched>>

\* stopped_ = true; cv_stopped_.signalAll().
SvcSignal(w) ==
  /\ Step(w, "svc_signal", AfterStop(w))
  /\ svcStopped' = TRUE
  /\ UNCHANGED <<vars, rpc, polling, mgrStopped, stopReq, accClosed, accEdge, mgrDeleted, dispatched>>

(* handleRequest returns false, doRead breaks and calls release(); when    *)
(* that was the last reference, ~Connection calls delDescriptor on the     *)
(* IOManager.                                                              *)
QuitRelease(w) ==
  /\ Step(w, "release", "end")
  /\ UNCHANGED <<vars, rpc, polling, mgrStopped, stopReq, svcStopped, accClosed, accEdge, mgrDeleted, dispatched>>

(* Acceptor::doAccept, one turn of its loop: socketAccept on listen_fd_.  *)
(* While the socket is open, accept() may return a client (the callback    *)
(* makes an HTTPServerConnection, or nothing once stopped() is true; no    *)
(* state of this model changes) or EAGAIN, which leads to the re-arm.      *)
AcceptAgain(w) ==
  /\ ~accClosed
  /\ Step(w, "acc_loop", "acc_rearm")
  /\ UNCHANGED <<vars, rpc, polling, mgrStopped, stopReq, svcStopped, accClosed, accEdge,
                 mgrDeleted, dispatched>>

(* accept() fails with EMFILE or the like: acceptConnection(-1) finds     *)
(* stopped() false, logs and calls IOService::stop().                      *)
AcceptError(w) ==
  /\ AcceptErrors /\ ~accClosed /\ ~stopReq
  /\ Step(w, "acc_loop", "svc_stop")
  /\ UNCHANGED <<vars, rpc, polling, mgrStopped, stopReq, svcStopped, accClosed, accEdge,
                 mgrDeleted, dispatched>>

(* accept() fails and acceptConnection returns at once because stopped()  *)
(* is true: on a closed listen_fd_ (EBADF) every turn does this, and the   *)
(* loop never breaks.                                                      *)
AcceptSpin(w) ==
  /\ Alive /\ body[w] = "acc_loop"
  /\ accClosed \/ (AcceptErrors /\ stopReq)
  /\ UNCHANGED all

(* After EAGAIN: io_descr_->readWhenReady(); break.  io_descr_ is read     *)
(* without a lock; Acceptor::close may have set it to NULL meanwhile.      *)
AcceptRearm(w) ==
  /\ Alive /\ body[w] = "acc_rearm"
  /\ IF accClosed
     THEN /\ rpc' = "segv"
          /\ UNCHANGED <<vars, polling, mgrStopped, stopReq, svcStopped, accClosed, accEdge,
                         mgrDeleted, body, dispatched>>
     ELSE /\ body' = [body EXCEPT ![w] = "end"]
          /\ UNCHANGED <<vars, rpc, polling, mgrStopped, stopReq, svcStopped, accClosed,
                         accEdge, mgrDeleted, dispatched>>

-----------------------------------------------------------------------------

SvcInit ==
  /\ Init
  /\ rpc = "init" /\ polling = FALSE /\ mgrStopped = FALSE
  /\ stopReq = FALSE /\ svcStopped = FALSE /\ accClosed = FALSE /\ accEdge = FALSE
  /\ mgrDeleted = FALSE
  /\ body = [w \in Workers |-> "none"]
  /\ dispatched = {}

\* The pool's own stop steps, run by the thread inside ThreadPoolFast::stop.
SvcStopStep == Alive /\ StopStep /\ UNCHANGED svc

BodyStep(w) ==
  \/ SvcStop(w) \/ CloseAcceptors(w) \/ MgrStop(w) \/ MgrWait(w)
  \/ GcDrain(w) \/ StopReturnsToService(w) \/ SvcSignal(w) \/ QuitRelease(w)
  \/ AcceptAgain(w) \/ AcceptError(w) \/ AcceptSpin(w) \/ AcceptRearm(w)

MainStep ==
  \/ Start \/ LoopTest \/ EndRound \/ LeavePoll \/ StartReturns \/ Teardown
  \/ ProcessExit

\* The process is gone.
Exited == rpc \in {"exited", "segv"} /\ UNCHANGED all
(* IOManager::pollBody: the loop test, a round's dispatches, its end and   *)
(* leaving the loop.  An epoll_wait interrupted by a signal makes a round  *)
(* with no edges; any other epoll_wait error calls exit(1), which is left  *)
(* out (it needs a bad epoll descriptor).                                  *)
pollBody == LoopTest \/ (\E t \in Tasks : Dispatch(t)) \/ EndRound \/ LeavePoll

SvcNext ==
  \/ MainStep
  \/ pollBody
  \/ \E w \in Workers : SvcTakeTask(w) \/ SvcFinishTask(w) \/ BodyStep(w)
                        \/ \E t \in Tasks \ (QuitTasks \cup AcceptTasks) : SvcAddTask(w, t)
  \/ SvcStopStep
  \/ Exited

(* Every thread is weakly fair: the reactor's poll times out after 100 ms, *)
(* a worker runs its task on, the stopping thread keeps going until it     *)
(* blocks.  No thread is obliged to dispatch a task.                       *)
SvcFairness ==
  /\ WF_all(MainStep)
  /\ \A w \in Workers : WF_all(SvcTakeTask(w) \/ SvcFinishTask(w) \/ BodyStep(w))
  /\ WF_all(SvcStopStep)

SvcSpec == SvcInit /\ [][SvcNext]_all /\ SvcFairness

-----------------------------------------------------------------------------
(* Properties                                                               *)

SvcTypeOK ==
  /\ TypeOK
  /\ rpc \in {"init", "loop", "round", "exit", "wait_stopped", "teardown",
              "deleted", "exited", "segv"}
  /\ {polling, mgrStopped, stopReq, svcStopped, accClosed, accEdge, mgrDeleted}
       \subseteq BOOLEAN
  /\ body \in [Workers -> Bodies]
  /\ dispatched \subseteq Tasks

(* A /quit request shuts the server down: IOService::start returns and    *)
(* the process exits, whichever worker handles it and whatever the other   *)
(* workers and the reactor are doing meanwhile.                            *)
QuitShutsDown == stopReq ~> rpc = "exited"

(* What IOService::stop does achieve once requested: the process exits,  *)
(* unless a worker is stuck for good, either looping in doAccept on the    *)
(* closed listening socket or waiting in a second stop() for a stopped_    *)
(* that is set only after that worker has been joined.  So these two are  *)
(* the only ways a stop can hang.                                          *)
StopEndsOrWorkerStuck ==
  stopReq ~> \/ rpc \in {"exited", "segv"}
             \/ \E w \in Workers : \/ body[w] = "acc_loop" /\ accClosed
                                 \/ body[w] = "svc_wait"

(* IOManager::stop waits for the reactor to leave pollBody before it      *)
(* stops the pool, "if we didn't do that, the polling loop would keep      *)
(* adding callbacks to the workers": every callback the reactor handed to  *)
(* the pool has run before main tears the service down (one added behind   *)
(* the NULL tasks would never run).  The callbacks that may call stop()   *)
(* themselves, doRead of /quit and doAccept, are still running then.       *)
TasksRunBeforeTeardown ==
  rpc \in {"teardown", "deleted", "exited"} =>
    \A t \in dispatched \ (QuitTasks \cup AcceptTasks) : CopiesIn(t, ran) = 1

(* doAccept re-arms the listening Descriptor through io_descr_, which     *)
(* Acceptor::close sets to NULL on the stopping thread: the process never  *)
(* dereferences it as NULL.                                                *)
AcceptorDescriptorLive == rpc # "segv"

(* ~IOService's comment: "After stop() completed, we can assert that the  *)
(* io_manager's worker pool threads have all joined", so the destructor   *)
(* can delete the IOManager.                                               *)
WorkersJoinedAtTeardown ==
  rpc \in {"teardown", "deleted"} => \A w \in Workers : wpc[w] = "exited"

=============================================================================
