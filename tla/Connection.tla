----------------------------- MODULE Connection -----------------------------
(***************************************************************************)
(* One passive (server-side) base::Connection of the HTTP server, with the *)
(* Descriptor that merges edge-triggered readiness with user requests, the *)
(* reactor thread that dispatches readiness edges (IOManager::pollBody),   *)
(* the worker pool abstracted to a bag of pending tasks, and the peer at   *)
(* the other end of the socket.                                            *)
(*                                                                         *)
(* Sources: src/connection.cpp (startRead, doRead, startWrite, doWrite,    *)
(* acquire/release), src/io_manager.cpp (Descriptor::readWhenReady,        *)
(* writeWhenReady, readIfWaiting, writeIfWaiting, the dispatch loop of     *)
(* pollBody) and src/http_connection.cpp (HTTPServerConnection::readDone   *)
(* and the append to out_ in handleRequest).                               *)
(*                                                                         *)
(* Data is abstracted to whole requests and responses: a request is a     *)
(* record [id, kind]; the response to request i is the number i.  A byte  *)
(* stream position is a position in a sequence of such units.              *)
(***************************************************************************)
EXTENDS Naturals, Sequences, FiniteSets, Bags, BagsExt

CONSTANTS
  Workers,     \* the pool's worker threads
  MaxReq,      \* number of requests the peer sends at most
  TxCap,       \* capacity of the kernel send buffer, in responses
  Kinds,       \* request kinds the peer may send: "good" parses, "bad" does not
  WriteErrors  \* whether write() may fail on a connected peer (ENOBUFS and the like)

ASSUME /\ Workers # {}
       /\ MaxReq \in Nat \ {0}
       /\ TxCap \in Nat \ {0}
       /\ Kinds \subseteq {"good", "bad"} /\ "good" \in Kinds
       /\ WriteErrors \in BOOLEAN

VARIABLES
  \* Connection state (connection.hpp)
  refs,          \* refs_, the reference count
  deleted,       \* the Connection was destroyed by release()
  writing,       \* writing_, guarded by m_write_
  in,            \* in_, requests read but not yet parsed
  out,           \* out_, responses not yet written to the socket
  \* Descriptor state (io_manager.hpp), guarded by Descriptor::m_
  canRead, canWrite, waitingRead, waitingWrite,
  \* worker pool: tasks handed to addTask and not yet picked by a worker
  pending,
  \* per worker: where it is in doRead/doWrite, whether the current doWrite
  \* was called from readDone, and the size snapshot of doWrite
  pc, nested, size,
  \* kernel and peer
  rx,            \* socket receive buffer (requests not yet read)
  txBuf,         \* socket send buffer (responses not yet taken by the peer)
  evRead, evWrite, \* readiness edges queued in epoll, not yet dispatched
  peerClosed,    \* the peer shut the connection down
  sent,          \* requests sent by the peer so far
  delivered,     \* responses the peer has read, in order
  produced,      \* history: responses appended to out_, in order
  \* the reactor thread (IOManager::pollBody) and the Descriptor's lifetime
  rphase,        \* "wait" in epoll_wait, or "events" in the round's event loop
  retRead, retWrite, \* edges this round's epoll_wait returned, not yet handled
  gcList,        \* the Descriptor is on deleted_desc_
  descFreed      \* pollBody has deleted the Descriptor

conn   == <<refs, deleted, writing, in, out>>
desc   == <<canRead, canWrite, waitingRead, waitingWrite>>
worker == <<pending, pc, nested, size>>
env    == <<rx, txBuf, evRead, evWrite, peerClosed, sent, delivered, produced>>
reactor == <<rphase, retRead, retWrite, gcList, descFreed>>
vars   == <<conn, desc, worker, env, reactor>>

PCs == {"idle", "rd_read", "rd_done", "sw_start", "wr_snap", "wr_write",
        "wr_rel", "rd_rel"}
Tasks == {"doRead", "doWrite"}
Request == [id : 1..MaxReq, kind : Kinds]

\* Positions of a worker inside doRead's loop and inside doWrite's loop.
InRead(w)  == pc[w] \in {"rd_read", "rd_done", "sw_start"} \/ (pc[w] \in {"wr_snap", "wr_write", "wr_rel"} /\ nested[w])
InWrite(w) == pc[w] \in {"wr_snap", "wr_write"}

Drop(s, n) == SubSeq(s, n + 1, Len(s))

-----------------------------------------------------------------------------
(* Descriptor: each of these is one call, done under Descriptor::m_, with  *)
(* the addTask that follows the unlock.                                    *)

readWhenReady ==
  IF canRead
  THEN /\ canRead' = FALSE
       /\ pending' = BagAdd(pending, "doRead")
       /\ UNCHANGED waitingRead
  ELSE /\ waitingRead' = TRUE
       /\ UNCHANGED <<canRead, pending>>

writeWhenReady ==
  IF canWrite
  THEN /\ canWrite' = FALSE
       /\ pending' = BagAdd(pending, "doWrite")
       /\ UNCHANGED waitingWrite
  ELSE /\ waitingWrite' = TRUE
       /\ UNCHANGED <<canWrite, pending>>

\* Mutant: the read edge schedules doRead but leaves the latch armed.
readIfWaitingKeepsLatch ==
  IF waitingRead
  THEN /\ pending' = BagAdd(pending, "doRead")
       /\ UNCHANGED <<canRead, waitingRead>>
  ELSE /\ canRead' = TRUE
       /\ UNCHANGED <<waitingRead, pending>>

readIfWaiting ==
  IF waitingRead
  THEN /\ waitingRead' = FALSE
       /\ pending' = BagAdd(pending, "doRead")
       /\ UNCHANGED canRead
  ELSE /\ canRead' = TRUE
       /\ UNCHANGED <<waitingRead, pending>>

writeIfWaiting ==
  IF waitingWrite
  THEN /\ waitingWrite' = FALSE
       /\ pending' = BagAdd(pending, "doWrite")
       /\ UNCHANGED canWrite
  ELSE /\ canWrite' = TRUE
       /\ UNCHANGED <<waitingWrite, pending>>

\* IOManager::delDescriptor: push the Descriptor on deleted_desc_.
delDescriptor == gcList' = TRUE

(* ~Connection: close(client_fd_), which takes the fd out of epoll with   *)
(* the edges it has not reported yet, then delDescriptor(io_desc_).        *)
destroyConnection == delDescriptor

\* Connection::release(): decrement under m_refs_, delete on reaching zero.
release ==
  /\ refs' = refs - 1
  /\ deleted' = (refs - 1 = 0)
  /\ IF refs - 1 = 0 THEN destroyConnection ELSE UNCHANGED gcList

-----------------------------------------------------------------------------
(* The reactor thread, one pollBody round at a time.  DescriptorPoller's   *)
(* poll() retries epoll_wait on EINTR and returns the edges queued for the *)
(* fd, none once ~Connection has closed it.                                *)
PollWait ==
  /\ rphase = "wait"
  /\ retRead' = (evRead /\ ~deleted) /\ retWrite' = (evWrite /\ ~deleted)
  /\ evRead' = FALSE /\ evWrite' = FALSE
  /\ rphase' = "events"
  /\ UNCHANGED <<conn, desc, worker, rx, txBuf, peerClosed, sent, delivered,
                 produced, gcList, descFreed>>

(* The round's event loop: readIfWaiting, then writeIfWaiting, on the      *)
(* Descriptor of each returned event.  An edge returned before the         *)
(* Connection was deleted is still dispatched on its Descriptor.           *)
ReactorRead ==
  /\ rphase = "events" /\ retRead
  /\ retRead' = FALSE
  /\ readIfWaiting
  /\ UNCHANGED <<conn, canWrite, waitingWrite, pc, nested, size, env, rphase,
                 retWrite, gcList, descFreed>>

ReactorWrite ==
  /\ rphase = "events" /\ retWrite /\ ~retRead
  /\ retWrite' = FALSE
  /\ writeIfWaiting
  /\ UNCHANGED <<conn, canRead, waitingRead, pc, nested, size, env, rphase,
                 retRead, gcList, descFreed>>

(* After the event loop: take deleted_desc_ under m_deleted_desc_, empty   *)
(* it, and delete every Descriptor that was on it.                         *)
GcRound ==
  /\ rphase = "events" /\ ~retRead /\ ~retWrite
  /\ descFreed' = (descFreed \/ gcList) /\ gcList' = FALSE
  /\ rphase' = "wait"
  /\ UNCHANGED <<conn, desc, worker, env, retRead, retWrite>>

\* IOManager::pollBody: the whole loop of the reactor thread.
pollBody == PollWait \/ ReactorRead \/ ReactorWrite \/ GcRound

(* A free worker receives a pending task (ThreadPoolFast::addTask or       *)
(* queueWorker) and starts running the callback.                           *)
RunTask(w) ==
  /\ pc[w] = "idle"
  /\ \E t \in BagToSet(pending) :
       /\ pending' = BagRemove(pending, t)
       /\ pc' = [pc EXCEPT ![w] = IF t = "doRead" THEN "rd_read" ELSE "wr_snap"]
  /\ UNCHANGED <<conn, desc, nested, size, env>>
  /\ UNCHANGED reactor

-----------------------------------------------------------------------------
(* Connection::doRead                                                       *)

\* socketRead returned some of the bytes in the receive buffer.
ReadData(w) ==
  /\ pc[w] = "rd_read" /\ rx # <<>>
  /\ \E n \in 1..Len(rx) :
       /\ in' = in \o SubSeq(rx, 1, n)
       /\ rx' = Drop(rx, n)
  /\ pc' = [pc EXCEPT ![w] = "rd_done"]
  /\ UNCHANGED <<refs, deleted, writing, out, desc, pending, nested, size,
                 txBuf, evRead, evWrite, peerClosed, sent, delivered, produced>>
  /\ UNCHANGED reactor

\* Mutant: EAGAIN re-arms the read latch without acquire().
ReadAgainNoAcquire(w) ==
  /\ pc[w] = "rd_read" /\ rx = <<>> /\ ~peerClosed
  /\ readWhenReady
  /\ pc' = [pc EXCEPT ![w] = "rd_rel"]
  /\ UNCHANGED <<refs, deleted, writing, in, out, canWrite, waitingWrite, nested, size, env>>
  /\ UNCHANGED reactor

\* EAGAIN: acquire(), readWhenReady(), break.
ReadAgain(w) ==
  /\ pc[w] = "rd_read" /\ rx = <<>> /\ ~peerClosed
  /\ refs' = refs + 1
  /\ readWhenReady
  /\ pc' = [pc EXCEPT ![w] = "rd_rel"]
  /\ UNCHANGED <<deleted, writing, in, out, canWrite, waitingWrite, nested, size, env>>
  /\ UNCHANGED reactor

\* read() returned 0: the peer closed the socket; break.
ReadEOF(w) ==
  /\ pc[w] = "rd_read" /\ rx = <<>> /\ peerClosed
  /\ pc' = [pc EXCEPT ![w] = "rd_rel"]
  /\ UNCHANGED <<conn, desc, pending, nested, size, env>>
  /\ UNCHANGED reactor

(* HTTPServerConnection::handleRequest for a request that is not /quit:   *)
(* the response (stats, file or 503) is appended to out_ under m_write_,   *)
(* then startWrite() is called (the next step of the worker).              *)
handleRequest(r) ==
  /\ out' = Append(out, r.id)
  /\ produced' = Append(produced, r.id)

(* HTTPServerConnection::readDone, one turn of its parse loop. An empty    *)
(* in_ makes the parser ask for more input (return true, keep reading); a  *)
(* malformed request makes readDone return false and doRead break; a good  *)
(* request is consumed and handleRequest appends its response to out_      *)
(* under m_write_, then calls startWrite.                                  *)
ReadDone(w) ==
  /\ pc[w] = "rd_done"
  /\ \/ /\ in = <<>>
        /\ pc' = [pc EXCEPT ![w] = "rd_read"]
        /\ UNCHANGED <<in, out, produced>>
     \/ /\ in # <<>> /\ Head(in).kind = "bad"
        /\ pc' = [pc EXCEPT ![w] = "rd_rel"]
        /\ UNCHANGED <<in, out, produced>>
     \/ /\ in # <<>> /\ Head(in).kind = "good"
        /\ in' = Tail(in)
        /\ handleRequest(Head(in))
        /\ pc' = [pc EXCEPT ![w] = "sw_start"]
  /\ UNCHANGED <<refs, deleted, writing, desc, pending, nested, size,
                 rx, txBuf, evRead, evWrite, peerClosed, sent, delivered>>
  /\ UNCHANGED reactor

\* Mutant: startWrite runs doWrite without acquire().
StartWriteNoAcquire(w) ==
  /\ pc[w] = "sw_start"
  /\ IF writing
     THEN /\ pc' = [pc EXCEPT ![w] = "rd_done"]
          /\ UNCHANGED <<writing, nested>>
     ELSE /\ writing' = TRUE
          /\ nested' = [nested EXCEPT ![w] = TRUE]
          /\ pc' = [pc EXCEPT ![w] = "wr_snap"]
  /\ UNCHANGED <<refs, deleted, in, out, desc, pending, size, env>>
  /\ UNCHANGED reactor

\* Mutant: startWrite without the writing_ test.
StartWriteUnchecked(w) ==
  /\ pc[w] = "sw_start"
  /\ writing' = TRUE
  /\ refs' = refs + 1
  /\ nested' = [nested EXCEPT ![w] = TRUE]
  /\ pc' = [pc EXCEPT ![w] = "wr_snap"]
  /\ UNCHANGED <<deleted, in, out, desc, pending, size, env>>
  /\ UNCHANGED reactor

\* Connection::startWrite: return if a write is already ongoing; otherwise
\* set writing_, acquire() and run doWrite on this thread.
StartWrite(w) ==
  /\ pc[w] = "sw_start"
  /\ IF writing
     THEN /\ pc' = [pc EXCEPT ![w] = "rd_done"]
          /\ UNCHANGED <<writing, refs, nested>>
     ELSE /\ writing' = TRUE
          /\ refs' = refs + 1
          /\ nested' = [nested EXCEPT ![w] = TRUE]
          /\ pc' = [pc EXCEPT ![w] = "wr_snap"]
  /\ UNCHANGED <<deleted, in, out, desc, pending, size, env>>
  /\ UNCHANGED reactor

-----------------------------------------------------------------------------
(* Connection::doWrite                                                      *)

\* Under m_write_: size = out_.readSize().
WriteSnapshot(w) ==
  /\ pc[w] = "wr_snap"
  /\ size' = [size EXCEPT ![w] = Len(out)]
  /\ pc' = [pc EXCEPT ![w] = "wr_write"]
  /\ UNCHANGED <<conn, desc, pending, nested, env>>
  /\ UNCHANGED reactor

\* Mutant: the written bytes are sent but out_.consume() is forgotten.
writtenNoConsume(n) ==
  /\ txBuf' = txBuf \o SubSeq(out, 1, n)
  /\ UNCHANGED out

\* socketWrite() moved n responses into the send buffer; out_.consume(n).
written(n) ==
  /\ txBuf' = txBuf \o SubSeq(out, 1, n)
  /\ out' = Drop(out, n)

(* socketWrite(size) and the handling of its result under m_write_. A      *)
(* zero-byte write returns 0 and is taken for "Closing on write"; a write  *)
(* to a shut-down peer fails (EPIPE), and so, when WriteErrors, may one to *)
(* a connected peer ("Error on write"): both break with writing_ still     *)
(* set.  A full send buffer gives EAGAIN.                                   *)
WriteSocket(w) ==
  /\ pc[w] = "wr_write"
  /\ LET space == TxCap - Len(txBuf)
         n     == IF size[w] < space THEN size[w] ELSE space
     IN \/ /\ size[w] = 0
           /\ pc' = [pc EXCEPT ![w] = "wr_rel"]
           /\ UNCHANGED <<refs, writing, out, desc, pending, txBuf>>
        \/ /\ size[w] > 0 /\ peerClosed
           /\ pc' = [pc EXCEPT ![w] = "wr_rel"]
           /\ UNCHANGED <<refs, writing, out, desc, pending, txBuf>>
        \/ /\ size[w] > 0 /\ ~peerClosed /\ WriteErrors
           /\ pc' = [pc EXCEPT ![w] = "wr_rel"]
           /\ UNCHANGED <<refs, writing, out, desc, pending, txBuf>>
        \/ /\ size[w] > 0 /\ ~peerClosed /\ space = 0
           /\ refs' = refs + 1
           /\ writeWhenReady
           /\ pc' = [pc EXCEPT ![w] = "wr_rel"]
           /\ UNCHANGED <<writing, out, canRead, waitingRead, txBuf>>
        \/ /\ size[w] > 0 /\ ~peerClosed /\ space > 0
           /\ written(n)
           /\ IF size[w] = n /\ Len(out) = n
              THEN /\ writing' = FALSE
                   /\ pc' = [pc EXCEPT ![w] = "wr_rel"]
              ELSE /\ pc' = [pc EXCEPT ![w] = "wr_snap"]
                   /\ UNCHANGED writing
           /\ UNCHANGED <<refs, desc, pending>>
  /\ UNCHANGED <<deleted, in, nested, size, rx, evRead, evWrite, peerClosed,
                 sent, delivered, produced>>
  /\ UNCHANGED reactor

\* Mutant: doWrite returns without its release().
WriteReleaseLeaks(w) ==
  /\ pc[w] = "wr_rel"
  /\ pc' = [pc EXCEPT ![w] = IF nested[w] THEN "rd_done" ELSE "idle"]
  /\ nested' = [nested EXCEPT ![w] = FALSE]
  /\ UNCHANGED <<refs, deleted, writing, in, out, desc, pending, size, env>>
  /\ UNCHANGED reactor

\* The release() at the end of doWrite; a doWrite called from startWrite
\* returns into readDone's loop.
WriteRelease(w) ==
  /\ pc[w] = "wr_rel"
  /\ release
  /\ pc' = [pc EXCEPT ![w] = IF nested[w] THEN "rd_done" ELSE "idle"]
  /\ nested' = [nested EXCEPT ![w] = FALSE]
  /\ UNCHANGED <<writing, in, out, desc, pending, size, env>>
  /\ UNCHANGED <<rphase, retRead, retWrite, descFreed>>

\* The release() at the end of doRead.
ReadRelease(w) ==
  /\ pc[w] = "rd_rel"
  /\ release
  /\ pc' = [pc EXCEPT ![w] = "idle"]
  /\ UNCHANGED <<writing, in, out, desc, pending, nested, size, env>>
  /\ UNCHANGED <<rphase, retRead, retWrite, descFreed>>

-----------------------------------------------------------------------------
(* The peer and the kernel. Edges are the least edge-triggered epoll       *)
(* promises: EPOLLIN when the receive buffer goes from empty to non-empty, *)
(* EPOLLOUT when the send buffer goes from full to not full, both on       *)
(* hang-up. peerClosed is the peer's reset: read() then gives 0 or an     *)
(* error and write() EPIPE. Once ~Connection has closed the fd, epoll      *)
(* reports nothing new for it.                                             *)

PeerSend ==
  /\ ~peerClosed /\ Len(sent) < MaxReq
  /\ \E k \in Kinds :
       LET r == [id |-> Len(sent) + 1, kind |-> k]
       IN /\ rx' = Append(rx, r)
          /\ sent' = Append(sent, r)
  /\ evRead' = (evRead \/ (rx = <<>> /\ ~deleted))
  /\ UNCHANGED <<conn, desc, worker, txBuf, evWrite, peerClosed, delivered, produced>>
  /\ UNCHANGED reactor

PeerReceive ==
  /\ ~peerClosed /\ txBuf # <<>>
  /\ delivered' = Append(delivered, Head(txBuf))
  /\ txBuf' = Tail(txBuf)
  /\ evWrite' = (evWrite \/ (Len(txBuf) = TxCap /\ ~deleted))
  /\ UNCHANGED <<conn, desc, worker, rx, evRead, peerClosed, sent, produced>>
  /\ UNCHANGED reactor

PeerClose ==
  /\ ~peerClosed
  /\ peerClosed' = TRUE
  /\ evRead' = (evRead \/ ~deleted) /\ evWrite' = (evWrite \/ ~deleted)
  /\ UNCHANGED <<conn, desc, worker, rx, txBuf, sent, delivered, produced>>
  /\ UNCHANGED reactor

-----------------------------------------------------------------------------
(* The state right after the HTTPServerConnection constructor: the         *)
(* Descriptor is registered (epoll reports the fresh socket writable) and  *)
(* startRead() has acquired one reference and armed the read latch.        *)
\* Descriptor::Descriptor: no readiness latched, no upcall waiting.
newDescriptor == canRead = FALSE /\ canWrite = FALSE /\ waitingWrite = FALSE

\* The constructor's startRead() has set waiting_read_ and taken a reference.
Init ==
  /\ refs = 1 /\ deleted = FALSE /\ writing = FALSE
  /\ in = <<>> /\ out = <<>>
  /\ newDescriptor /\ waitingRead = TRUE
  /\ pending = EmptyBag
  /\ pc = [w \in Workers |-> "idle"]
  /\ nested = [w \in Workers |-> FALSE]
  /\ size = [w \in Workers |-> 0]
  /\ rx = <<>> /\ txBuf = <<>>
  /\ evRead = FALSE /\ evWrite = TRUE
  /\ peerClosed = FALSE
  /\ sent = <<>> /\ delivered = <<>> /\ produced = <<>>
  /\ rphase = "wait" /\ retRead = FALSE /\ retWrite = FALSE
  /\ gcList = FALSE /\ descFreed = FALSE

(* Connection::doRead, each turn of its loop.  socketRead retries a read  *)
(* interrupted by a signal (EINTR), which changes nothing: a step is the   *)
(* read that returned.                                                     *)
doRead(w) ==
  \/ ReadData(w) \/ ReadAgain(w) \/ ReadEOF(w) \/ ReadDone(w) \/ ReadRelease(w)

\* Connection::doWrite, with socketWrite's EINTR retry likewise invisible.
doWrite(w) == WriteSnapshot(w) \/ WriteSocket(w) \/ WriteRelease(w)

WorkerStep(w) == RunTask(w) \/ doRead(w) \/ StartWrite(w) \/ doWrite(w)

Next ==
  \/ pollBody
  \/ \E w \in Workers : WorkerStep(w)
  \/ PeerSend \/ PeerReceive \/ PeerClose

(* The reactor polls every 100 ms and a worker runs its callback to the    *)
(* end, so both are weakly fair; the peer keeps reading its socket, but    *)
(* need not send or close.                                                 *)
Fairness ==
  /\ WF_vars(pollBody)
  /\ \A w \in Workers : WF_vars(WorkerStep(w))
  /\ WF_vars(PeerReceive)

Spec == Init /\ [][Next]_vars /\ Fairness

-----------------------------------------------------------------------------
(* Properties                                                               *)

TypeOK ==
  /\ refs \in Nat /\ deleted \in BOOLEAN /\ writing \in BOOLEAN
  /\ in \in Seq(Request) /\ out \in Seq(1..MaxReq)
  /\ {canRead, canWrite, waitingRead, waitingWrite} \subseteq BOOLEAN
  /\ IsABag(pending) /\ BagToSet(pending) \subseteq Tasks
  /\ pc \in [Workers -> PCs] /\ nested \in [Workers -> BOOLEAN]
  /\ size \in [Workers -> 0..MaxReq]
  /\ rx \in Seq(Request) /\ txBuf \in Seq(1..MaxReq)
  /\ peerClosed \in BOOLEAN
  /\ rphase \in {"wait", "events"}
  /\ {retRead, retWrite, gcList, descFreed} \subseteq BOOLEAN

\* The doWrite loops of the write path: running, queued, or armed.
WriteLoops == Cardinality({w \in Workers : InWrite(w)})
              + CopiesIn("doWrite", pending) + (IF waitingWrite THEN 1 ELSE 0)

(* The comment in connection.hpp: "There's only one outstanding read      *)
(* operation". However readiness edges, EAGAIN re-arms and scheduling      *)
(* interleave, doRead is never running twice, nor running while queued or  *)
(* armed again.                                                            *)
SingleReader ==
  Cardinality({w \in Workers : InRead(w)})
  + CopiesIn("doRead", pending) + (IF waitingRead THEN 1 ELSE 0) <= 1

(* writing_ admits a single doWrite loop (startWrite from readDone, or the *)
(* write callback after EAGAIN): two loops would send out_ twice.          *)
SingleWriter == WriteLoops <= 1 /\ (WriteLoops = 1 => writing)

(* The reference count protects the Connection: once release() has       *)
(* deleted it, no doRead/doWrite runs on it, none is queued in the pool,   *)
(* and no Descriptor latch is armed to schedule one.                       *)
NoUseAfterFree ==
  deleted => /\ \A w \in Workers : pc[w] = "idle"
             /\ pending = EmptyBag
             /\ ~waitingRead /\ ~waitingWrite

(* Bytes reach the peer exactly once and in the order handleRequest        *)
(* produced them: what the peer read, then the send buffer, then out_,     *)
(* spell out every response ever appended.                                 *)
ResponsesInOrder == delivered \o txBuf \o out = produced

(* Every continuation that still holds a reference is released: once the  *)
(* peer has closed the socket, the Connection is eventually deleted (no    *)
(* reference leaks, no stalled callback).                                  *)
ReleasedAfterClose == peerClosed ~> deleted

(* While the peer is connected, writing_ means a write is in progress: a  *)
(* doWrite loop is running, queued, or armed on the Descriptor. Otherwise  *)
(* every later startWrite() returns early and no response is sent again.   *)
WritingHasWriter == (writing /\ ~peerClosed) => WriteLoops = 1

=============================================================================
