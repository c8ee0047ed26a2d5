# TLA+ models of the MCP server and its runtime

This directory holds TLA+ specifications of the concurrent parts of the
repository under `src/`, the TLC configurations that check them, and
`PROJECT.json`, the machine-readable index (components, runs, mutants, the map
from every definition to the source lines it models, findings, and hazards).

## The system

`server.cpp` builds an `IOService` with N worker threads and an `HTTPService`,
then calls `IOService::start()`, which runs the reactor loop on the main
thread until a `/quit` request stops it.

* **Reactor** (`IOManager::pollBody`, `io_manager.cpp`). An edge-triggered
  epoll loop (`DescriptorPoller`). For each readiness edge it calls
  `Descriptor::readIfWaiting` / `writeIfWaiting`. It also moves due timers to
  the pool and frees Descriptors queued by `delDescriptor`.
* **Descriptor** (`io_manager.cpp`). Two latches per direction under
  `Descriptor::m_`: `can_read_` remembers an edge that nobody waited for, and
  `waiting_read_` remembers a request that had no edge yet. Whichever side
  arrives second hands the callback to the pool.
* **Worker pool** (`ThreadPoolFast`). A free-worker list, a one-slot mailbox
  per worker, and a FIFO dispatch queue used only when every worker is busy.
  `stop()` sends one NULL task per worker. `ThreadPoolNormal` is the plain
  alternative with a shared queue.
* **Connection** (`connection.cpp`, with `HTTPServerConnection` in
  `http_connection.cpp`). A reference-counted session:
  * `doRead` loops on the socket and calls `readDone`, which parses
    requests off the front of `in_` with `Parser::parseRequest`
    (`http_parser.cpp`: 0 parsed, +1 need more input, -1 malformed),
    consumes each and calls `handleRequest`, which appends a response to
    `out_` and calls `startWrite`.
  * `startWrite`/`doWrite` drain `out_` under the `writing_` flag.
  * Each scheduled continuation holds a reference; the last `release()`
    deletes the Connection.
* **HTTPClientConnection** (`http_connection.cpp`). It is the client side
  of the same Connection.
  * `connect` runs `startConnect`/`doConnect` and then calls the user's
    connect callback.
  * `asyncSend` queues a response callback and writes the request.
  * Its `readDone` parses responses with `Parser::parseResponse` and
    hands each to the callback at the front of the queue.
* **Acceptor / HTTPService / IOService stop**. `doAccept` loops on
  `accept` until EAGAIN and re-arms its descriptor; on any other error it
  calls the service's `stop()`. `IOService::stop` closes the acceptors,
  stops the reactor, then stops the pool. It can be called from a worker
  (the `/quit` handler, or an accept error).
* **FileCache**, **RequestStats**, **Buffer**. These are the data structures
  the handlers use: a pinned LRU-less file cache under a rwlock, a ring of
  per-thread request counters, and the chunked byte buffer behind `in_`
  and `out_`.
* **Allocators** (`myAlloc_1Layer`, `myAlloc_2Layer_lock`). These are a
  separate memory-allocation project in the same tree.
* **Spinlocks and the thread barrier** (`spinlock_mcs.hpp`, `spinlock.hpp`,
  `thread_barrier.hpp`). They are synchronisation primitives that the
  tests and benchmarks use, `spinlock_mcs_test.cpp` among them.

## Modules

| Module | Models | Source |
|---|---|---|
| `Connection` | One server connection, its Descriptor latches, the reactor's dispatch of its edges, the pool as a bag of pending callbacks, and the peer/kernel. | `connection.cpp`, `io_manager.cpp` (Descriptor, pollBody), `http_connection.cpp` (readDone, handleRequest) |
| `ThreadPoolFast` | The fast pool: free list, mailboxes, dispatch queue, `stop()` from main or from a worker, and `last_worker_`. | `thread_pool_fast.cpp` |
| `ThreadPoolNormal` | The plain pool: one queue under `m_dispatch_`, `stop()` pushing N NULL tasks. | `thread_pool_normal.cpp` |
| `TaskPool` | The ThreadPool contract: a task is pending, then active on one worker, then done. Both pools refine it. | `thread_pool.hpp` |
| `ServiceStop` | Shutdown: `/quit` on a worker, `IOService::stop`, `IOManager::stop`, the reactor loop and main's teardown. It extends `ThreadPoolFast` and reuses its pool steps. | `io_service.cpp`, `io_manager.cpp` (pollBody, stop), `server.cpp` |
| `FileCache` | `pin`/`load`/`evict`/`unpin` of two threads on the map, the list from `tail_`, pin counts and `bytes_used_`. | `file_cache.cpp` |
| `RequestStats` | `finishedRequest` on each worker's slot ring against a concurrent `getStats`, one field access per step. | `request_stats.cpp`, `request_stats.hpp` |
| `Buffer` | The chunked byte buffer: chunks, sizes, `wpos_`/`rpos_`, every call, and the Iterator. | `buffer.cpp`, `buffer.hpp` |
| `ByteStream` | What a Buffer promises: a FIFO of bytes per buffer. `Buffer` refines it. | `buffer.hpp` (header comments) |
| `FreeLists` | The 65 size-class lists both allocators keep: `insertFreeBlock` (front, or sorted in the large class), `rmFromFreeLs` (head, or first fit in the large class) and the search for a larger class. | `myAlloc_1Layer/MyMalloc.cpp` (the two-layer copies are the same code) |
| `MyMalloc` | The one-layer allocator: the first-call CAS and `initialize()`, `allocateObject` (fast path, search, split, sbrk), `freeObject`, and malloc/free/realloc from several threads. | `myAlloc_1Layer/MyMalloc.cpp`, `MyMalloc.hpp` |
| `TwoLayer` | The two-layer allocator: the central heap of 4096-byte grains, per-thread caches of 8-byte grains that take pages from it, both CASes and `initialize()`s, the routing of malloc at 16 KiB and of free on `objectSize`, and realloc. | `myAlloc_2Layer_lock/heap_alloc.cpp`, `thread_cache.cpp` and their headers |
| `HttpParser` | `Parser::parseRequest`, `Parser::parseResponse` and their helpers as operators over `in_`'s bytes. It has no variables. | `http_parser.cpp`, `buffer.hpp` (Iterator) |
| `HttpExchange` | An `HTTPClientConnection` and an `HTTPServerConnection` on one TCP connection. It covers the client's connect, `asyncSend` and the synchronous `send()`, the server's `readDone`/`handleRequest` and the client's `readDone`/`handleResponse`, with both byte streams split into reads. | `http_connection.cpp`, `connection.cpp` (startConnect, doConnect, doRead), `http_request.cpp` (toBuffer) |
| `Spinlock` | The test-and-set lock with backoff: `locked_`, and `lock()` split at every access to it. | `spinlock.hpp` |
| `SpinlockMCS` | The MCS queue lock: each thread's `qnode_` (its `locked` and `next`), `tail_`, and `lock()`/`unlock()` split at every shared access. | `spinlock_mcs.hpp` |
| `ThreadBarrier` | `Barrier::wait()`: the arrival and departure semaphores and `counter_`. | `thread_barrier.hpp` |
| `QueueLock` | What a FIFO lock promises: a queue in order of arrival, whose head holds the lock. `SpinlockMCS` refines it. | (the Fairness test's expectation) |
| `LockTester` | Two lock tests. In the Fairness test, workers wait on the barrier and then lock, count and unlock in a loop, and a main thread waits, stops and joins them. In the counters test, workers load and store a shared counter under the lock and main joins them. | `spinlock_mcs_test.cpp`, `spinlock_test.cpp` |
| `PoolTester` | The `Basics` tests of the plain pool: a main thread that adds the `Incr` callbacks, stops the pool (from main, or from a task that calls `stop()` and notifies), checks the counter and deletes the pool. | `thread_pool_test.cpp` |
| `MC*` | Model values and bounds for TLC. | |

### Connection

Variables mirror the code:
* `refs` is `refs_`, `writing` is `writing_`, and `out`/`in` are `out_`/`in_`.
* `canRead`, `canWrite`, `waitingRead` and `waitingWrite` are the Descriptor
  latches.
* `pending` is the bag of callbacks handed to `addTask` and not yet picked.
* `pc[w]` is each worker's position in `doRead`/`doWrite`.
* `nested[w]` marks a `doWrite` called from `startWrite` inside `readDone`.
* `size[w]` is doWrite's snapshot of `out_.readSize()`.

The peer and kernel are `rx`, `txBuf` (send buffer of capacity `TxCap`),
the queued epoll edges `evRead` and `evWrite`, and `peerClosed` (a reset).

Data is abstract:
* A request is `[id, kind]`, and `kind` is "good" or "bad" (the parser's
  0 or -1).
* The response to request `i` is `i`.
* Byte positions become positions in those sequences.

Each step is one critical section or one system call of the code:
* `ReadData` / `ReadAgain` (EAGAIN: acquire and re-arm) / `ReadEOF`;
* `ReadDone` (one turn of readDone's loop, with handleRequest's append);
* `StartWrite`;
* `WriteSnapshot` (the size under `m_write_`);
* `WriteSocket` (the write and the handling of its result under
  `m_write_`: zero bytes, EPIPE, EAGAIN, partial or full write, and, when
  the constant `WriteErrors` is true, a write error on a connected peer
  such as ENOBUFS, which breaks the loop with `writing_` still set);
* `WriteRelease` and `ReadRelease` (the `release()` at the end of each loop).

The reactor runs `pollBody` one round at a time (`rphase`):
* `PollWait` is `DescriptorPoller::poll`. It moves the queued edges into
  `retRead`/`retWrite`. Epoll queues EPOLLIN when the receive buffer
  becomes non-empty, EPOLLOUT when the send buffer stops being full, and
  both on reset. It returns none once `~Connection` has closed the fd.
* `ReactorRead` and `ReactorWrite` are the event loop: `readIfWaiting`,
  then `writeIfWaiting`, for each returned edge. An edge returned before
  the Connection was deleted is still dispatched on its Descriptor.
* `GcRound` takes `deleted_desc_` and deletes the Descriptors on it
  (`descFreed`).
The last `release()` runs `~Connection` (`destroyConnection`), which
closes the fd and calls `delDescriptor` (`gcList`).

`Init` is the state right after the `HTTPServerConnection` constructor:
`startRead` has taken one reference and armed `waiting_read_`, and epoll
reports the fresh socket writable.

### ThreadPoolFast and TaskPool

Each call that holds `m_dispatch_` (`addTask`, `queueWorker`, with the
nested `assignTask`) is one step. A worker's wait on its condition variable
is `TakeTask`. Running a task is `FinishTask`; during the run the task may
add tasks (`AddTaskFromWorker`) or call `stop()` (`StopBegin` with a worker
as caller, which is what `/quit` does). `stop()` is three steps:
`StopBegin`, one `StopAddNull` per worker, and `StopJoin` once every other
worker has exited, which also sets the caller's `last_worker_`.

`ThreadPoolFast` defines `TP == INSTANCE TaskPool WITH ...`:
* pending = user tasks in the dispatch queue or in a full mailbox;
* active = the task each running worker executes;
* done = the tasks run.

`ImplementsTaskPool == TP!Spec` is checked as a PROPERTY, so every step of
the fast pool is a step of the contract, or leaves the contract's state
unchanged. The contract's fairness (a started task finishes) is implied as
well.

### ThreadPoolNormal

The queue is `queue`. Each worker has a `task` local and `wpc` (waiting,
running or exited). `lastWorker` is the thread-local `last_worker_`.
`stop()` is `Stop(c)`, which pushes N NULL tasks behind the queue in one
critical section, and `StopJoin`, which joins every worker but the caller.
The history `early` records the tasks added before `stop()`, and the bag
`ran` counts the runs of each task. Its refinement mapping to `TaskPool` is
the same as the fast pool's.

### PoolTester

`PoolTester` instantiates `ThreadPoolNormal` with the `Incr` tasks and the
`Stopper` task. `test` picks the test case. `mpc` is where the main thread
is, `counter` is the `Counter`, and `bodyDone[w]` says whether worker `w`
has run the body of its current task. `notified` is the `Notification`.
* The worker steps are `Take` (the pool's `TakeTask`), `IncrBody`
  (`Counter::Incr`, one step under the counter's mutex), `StopBody`
  (`Stopper::stop` calling the pool's `stop()`), `Notify` and `Finish`
  (the pool's `FinishTask`). `WorkerStopJoin` is that `stop()` joining the
  other workers.
* The main steps are `MainAdd` (one `addTask` per element of `Incrs`),
  `MainAddStop`, `MainWait`, `MainPeek` (the read for `EXPECT_GT`),
  `MainStop` and `MainJoin` (the pool's `stop()`) and `MainDelete`.
  `MainDelete` is the `EXPECT_EQ` and then `delete pool`, whose destructor
  empties `dispatch_queue_` (`deletePool`).

### HttpParser

`HttpParser` holds the parser as operators over a byte sequence.
* `in_` is a plain sequence, and a position is the Iterator's
  `bytes_read_`. This is sound because the `buffer` run shows that Buffer
  is a FIFO of bytes and that its Iterator reads them in order.
* `eob`, `getChar` and `next` are the Iterator's. `getChar` at the end of
  `in_` reads the byte after the last one written. Nobody wrote that
  memory, so it is a byte `junk` chosen by the caller. `next()` at the
  end does nothing, as `slowNext` finds no byte to step over.
* Each parser step returns `[x, p, v]`:
  * `x` is "ok", "incomplete" (`IncompleteInput`) or "error"
    (`ErrorInRequest`);
  * `p` is the position after the step;
  * `v` is what the step read.
* `parseRequest` runs the calls of its `try` block, listed in
  `RequestSteps`, with `parseSteps`. The first step that throws ends the
  block. `parseHeaders` is the request's loop over lines up to an empty one.
* `parseResponse` reads a status line, then header lines up to an empty
  one (`parseResponseHeaders`), then `contentSize` bytes of body. While
  fewer bytes remain, it returns IncompleteInput.
  * A line that contains `Content-Length:` anywhere sets `contentSize` from
    the text at the line's 16th byte (`contentSizeOf`). That is the number
    when the header starts the line.
  * The header text is the byte `L`, and its number is one digit byte.

### HttpExchange

**Bytes and requests.**
* A byte is a string such as `x`, a space, `/`, CR, LF, `L` or a digit.
  These are the only distinctions the two parsers make.
* The client's requests are `Request::toBuffer` of `x /<addr> x`, followed
  by `\r\n\r\n`.
* An address is empty, `x`, or `q`, which stands for `quit`.

**Responses.** The server answers as `handleRequest` does:
* The empty address is opened as `index.html`.
* A file in `Files` gives a 200 (status line `o`) with the file as its body.
* Any other address gives a 503 (`e`) with a fixed HTML page.
* Each response is the status line, one stand-in header line,
  `Content-Length`, the empty line and the body.
* `quit` writes nothing and ends the server's loop.
* Each side's `out_` and `writing_` are variables (`cout`/`cwriting`,
  `sout`/`swriting`). `startWrite` is modelled as `Connection::startWrite`
  is: it appends to `out_`, returns at once when `writing_` is already set,
  and otherwise runs `doWrite`, which moves `out_` into the peer's socket.
* With `WriteErrors`, that `doWrite` may fail instead. Then `writing_`
  stays set and `out_` keeps its bytes, as the code leaves them. Every
  later `startWrite` of that side only appends, so nothing more it writes
  reaches the peer. The send buffer is unbounded, so EAGAIN and the
  zero-byte write, which the `Connection` model covers, are left out.

**Connect.** `AsyncConnectStopped` is `HTTPService::asyncConnect` finding
the IOService stopped. It returns before making the connection, so
`connect_cb_` is never called. Otherwise the client's connect has four
outcomes, from `startConnect` and `doConnect`:
* `StartConnectNoSocket`: `socket()` fails. `startConnect` returns, and
  `connect_cb_` is never called.
* `StartConnectFails`: `connect()` fails at once. `connDone` calls the
  callback, and the release deletes the Connection.
* `StartConnectPending`: EINPROGRESS. The writable edge later runs
  `DoConnectFails` or `DoConnectOk`. `DoConnectOk` sets up the read and
  write upcalls, starts reading and calls the callback.
* `StartConnectAtOnce`: `connect()` succeeds at once. `doConnect` calls
  `setUpCalls` on a NULL `io_desc_`, and the client ends "crashed".

**HTTPService::connect.** `user` is the thread in `HTTPService::connect`,
which runs `asyncConnect` with `connectInternal` as `connect_cb_` and then
waits on a Notification. `ConnectReturns` is `connectInternal`'s
`notify()` ending that wait: it is enabled once `connectCb` is set.
`FairSpec` adds weak fairness on the connect steps (startConnect runs
inside `connect()`, doConnect is the IOManager's upcall on the writable
edge) and on `ConnectReturns`.

**Sending.** `asyncSend` queues the next callback number in `cbs`
(`response_cbs_`) and calls `startWrite` with the request's bytes, which
may fail as described above. It is one step because
both happen under `m_response_`, which `handleResponse` also takes.
* `AsyncSend` is `asyncSend` from any other thread.
* `Send` is the synchronous `send()` on the thread `connect()` returned
  to. It runs `asyncSend` with `receiveInternal` as the callback, then
  waits on a Notification (`user = "sending"`, `waitsFor` the request).
* `SendReturns` is `receiveInternal`'s `notify()` ending that wait. It is
  enabled once `handleResponse` has handed that request's callback a
  response.

**Fairness of `FairSpec`.** Beyond the connect steps and the two
Notification wake-ups, the reads of both sides are weakly fair: bytes in
a socket make epoll report the edge, and the pool runs `doRead`, which
reads until EAGAIN. This fairness is written out as
`<>[]ServerCanRead => []<><<ServerReads>>_vars`, which is
`WF_vars(ServerReads)` with ENABLED replaced by the state predicate it
equals. TLC's ENABLED over the recursive `readDone` does not finish.
`PeerGone /\ ClientReadEnds` is weakly fair too: once the server
connection has stopped reading, its `release()` closes the socket (or the
process exits after `/quit`). The client's `read()` then returns 0 after
the bytes already sent. Nothing obliges a read to fail, a peer to close
or a user to send.

**Reading.**
* `ServerRead(k, junk, f)` and `ClientRead(k, junk)` are one turn of each
  side's `doRead` loop with `bytes_read = k`. They append the next `k`
  bytes to that side's `in_` and run its `readDone` to its end:
  * the server's parses requests and calls `handleRequest`, whose
    `startWrite` fails for the `f`-th request of the turn (0: none);
  * the client's parses responses and calls `handleResponse`, which pops
    the front callback and hands it the response (`delivered`). It stops
    early when the iterator is at the end of `in_`.
* On -1 the loop ends with "error".
* `ServerReadEnds` and `ClientReadEnds` are `read()` returning 0 or failing.
* EAGAIN re-arms the descriptor without changing anything here, so it is
  left out.

### ServiceStop

`ServiceStop` extends `ThreadPoolFast` and adds the rest of the service.
* The main thread's `rpc` covers `Start`, `LoopTest`, `Dispatch`
  (pollBody hands a callback to `addTask`), `EndRound`, `LeavePoll`,
  `StartReturns` (the wait on `cv_stopped_`), `Teardown` (`~IOService`
  deleting the IOManager, whose `deleteManager` deletes the pool, and
  `~ThreadPoolFast` empties the queue) and `ProcessExit`. `pollBody` is
  the loop test, the dispatches, the round's end and leaving the loop.
* A worker running a quit task steps through `body[w]`:
  * `SvcStop`: the first caller goes on, and a later one waits on
    `cv_stopped_`.
  * `CloseAcceptors`.
  * `MgrStop` sets `stopped_`.
  * `MgrWait` waits on `polling_`, then runs the pool's own stop steps.
  * `GcDrain`.
  * `SvcSignal` sets `stopped_` and signals.
  * `QuitRelease`: doRead's `release()`, whose `~Connection` calls
    `delDescriptor` on the IOManager.
* A worker running an accept task (`AcceptTasks`, dispatched only when
  the round's `epoll_wait` saw the listening socket: `accEdge`) steps
  through `acc_loop`:
  * `AcceptAgain`: `accept` returns EAGAIN, go to the re-arm.
  * `AcceptError` (when `AcceptErrors`): another error before any stop,
    the worker calls `stop()` itself and then returns to the loop.
  * `AcceptSpin`: the descriptor is closed (EBADF), or the error repeats
    while a stop is running: `doAccept` loops forever without changing
    anything.
  * `AcceptRearm`: `io_manager_->setReadCallback` through `io_descr_`,
    which `close()` has already set to NULL if the acceptor was closed
    meanwhile: `rpc = "segv"`.
* `dispatched` is a history of the callbacks the reactor handed to the
  pool.

### FileCache

* The map is `map`, and the list is `next` from the sentinel `tail`, with
  `head`. Node objects are model values from a bounded set, allocated by
  `load`.
* `pinCount`, `bytesUsed` and the bag `frees` (deletions per Node) track
  the rest of the cache.
* `pc[t]` is each thread's place in pin/load/unpin. The steps are:
  * `PinLookup` (read lock; a hit or a miss);
  * `OpenFails`, `SpaceCheck` (the unlocked test of `bytes_used_`), `Evict`
    (write lock; its loop is the RECURSIVE `evictLoop`, with
    `bytes_to_evict` a `size_t` of `SizeTBits` bits), `ReadFails`,
    `Insert` or `Duplicate` (write lock), and `Account` (the
    `fetch_and_add` after the unlock);
  * `Unpin`, with its two FATAL cases, and `Destroy` (`~FileCache`).
* File contents are abstracted to sizes.

### RequestStats

Each worker's ring is `basePos`, `baseTick` and `val`. `FinishedRequest`
is the slot test. It is followed by the steps of `finishedRequest` in code
order: `ZeroAll` or `ZeroRange` (the zeroing loops), `SetBasePos`,
`SetBaseTick` and `Increment`.

`getStats`, run by one reader racing the workers, is a separate sequence
of steps, one field read each:
* `StatsBegin` reads `now`.
* `StatsThread` does the unsigned skip test `now - base_tick >
  ticksPerSecond` (wrapping at `2^TickBits`).
* `StatsSlot` and `StatsCheck` form the walk, which rereads `base_pos`.
* `StatsEnd` and `StatsReturn` finish the call.

The clock is `clock`, advanced by `Tick`. Two history variables hold the
ground truth the properties need:
* `done` holds the ticks of the requests each worker finished.
* `overtaken` holds the workers that moved to a slot later than the
  reader's `now` during the call.

### Buffer and ByteStream

Each buffer `buf[b]` is a record:
* `chunks` holds the chunk contents, each `BlockSize` bytes, with 0-based
  chunk `i` stored at `chunks[i+1]`.
* `sizes` is `sizes_`.
* `w` and `r` are `wpos_` and `rpos_`.

Bytes are numbers, and the producer writes 1, 2, 3, ... in order. A fresh
chunk holds `Junk`, which stands for uninitialised memory.

Every call is one step: `Write` (`write`), `Advance` (a `read()` into
`writePtr()` and `advance`), `Reserve`, `Consume`, `AppendFrom`, `CopyFrom`,
and the Iterator steps `IterBegin`, `IterNext` (fast path while
`budget_ > 1`, else `slowNext`) and `IterConsume` (readDone's
`consume(it.bytesRead())`). A call that changes a buffer invalidates its
iterator. The loops of `write`, `consume` and `copyFrom` are RECURSIVE
operators over the record. Two outcomes stop the model through `halt`:
* the `LOG(FATAL)` of `appendFrom`/`copyFrom` on a consumed other;
* positions left pointing past the last chunk, which is undefined
  behaviour.

`ByteStream` is the contract: a sequence of bytes per buffer, and each call
appends, drops from the front, moves or copies. `call` records the call
and its argument, so the contract can follow it.

`Buffer` defines `BS == INSTANCE ByteStream WITH stream <- Content(...)`,
where `Content` reads the bytes from `rpos_` to the end of each chunk's
size. `ImplementsByteStream == BS!Spec` is checked as a PROPERTY.

### SpinlockMCS, Spinlock, ThreadBarrier, QueueLock and LockTester

`SpinlockMCS` keeps the fields of each thread's Node, `locked[t]` and
`next[t]`, because `qnode_` is one `static __thread` pointer per thread.
It also keeps `tail[l]` and the local `previous[t]`.

* `lock()` has these steps:
  1. `LockNew`: allocate the Node on first use, and set `next = NULL`.
  2. `LockSwap`: `__sync_lock_test_and_set` on `tail_`. If it returns
     NULL, `lock()` returns.
  3. `LockSetLocked`: `locked = true`.
  4. `LockLink`: `previous->next = qnode_`.
  5. `LockSpin`: wait until `locked` is false.
* `unlock()` has these steps:
  1. `UnlockTest`: test `next`.
  2. `UnlockCas`: the CAS of `tail_` back to NULL.
  3. `UnlockSpin`: wait for `next`.
  4. `UnlockRelease`: clear the successor's `locked`.

A spin loop is one step that is enabled once the value it waits for is
there. Memory is sequentially consistent. `ReorderStores` swaps steps 3
and 4 of `lock()`. The comment in the source says a compiler may do
that, since no barrier separates the two stores.

`Spinlock` keeps `locked_`. `lock()` has these steps:
1. `SpinFastLoad`: the relaxed load of the fast path. A held lock goes to
   the spin.
2. `SpinFastTas`: the test-and-set. If it finds the lock free, `lock()`
   returns; otherwise it goes to the spin.
3. `SpinWait`: the spin of at most 1000 loads. The loads change nothing,
   so the spin is one step that ends it, whether it saw the lock free or
   ran out of count.
4. `SpinSleepTas`: the test-and-set loop. A failed try and its
   `nanosleep` change no state, so they are stuttering steps; the step is
   the try that finds the lock free.
`unlock()` is `SpinRelease`.

`ThreadBarrier` keeps the two semaphores and `counter_`. `wait()` has four
steps:
1. `sem_wait(arrival_)`.
2. Count in, then post `arrival_`, or `departure_` for the last thread.
3. `sem_wait(departure_)`.
4. Count out, then post `departure_`, or `arrival_` when `counter_`
   reaches 0.

Both modules use a call convention: a call sets the thread's `pc` to its
first label and `ret` to the caller's label.

`LockTester` composes the two with `INSTANCE`, as `TEST(Concurrency,
Fairness)` does. The workers run `Tester<SpinlockMCS>::start`. The main
thread waits on the barrier, calls `stop()` (`sleep(1)` is any delay) and
joins. The refinement mapping `MCSQueue` rebuilds the lock's queue.
It walks back from `tail_` through each waiter's `previous` to the
granted thread: the one past `lock()`, or spinning with `locked` cleared.
`Tester` is a template over the lock type: the constant `LockType` runs
the same test over `SpinlockMCS` (what the test does) or `Spinlock` (the
`Spinlock s` the test declares and never uses).

The constant `Tests` also lets `LockTester` run `TEST(Concurrency,
counters)` of `spinlock_test.cpp`. In that test no barrier is used: main
goes straight to the joins. Each worker does `MaxIters` rounds of lock,
`++*counter_` and unlock. The increment is two steps, `CountLoad`
(`tmp[w]` takes `shared`) and `CountStore`, which writes `tmp[w] + 1` and
then calls `unlock()`. A lock that let two holders overlap would lose an
increment, and `CountersExact` would catch it.

### MyMalloc

A block is named by the address of its header, counted from the start of
the heap; `hdr` maps it to its `ObjHeader` (`_objectSize` in bytes and
`_flags`). Footers always mirror headers, so they are not kept apart.
`freels[i]` is the list `freels_[i]`, front first, holding header
addresses. `heapSize` is `_heapSize`, which is also the heap's break,
since only this allocator calls sbrk. `live` is the set of blocks malloc
returned and nobody freed yet: it is what the program holds.

`allocateObject` is split where the code lets other threads in:
* `Malloc` is the check of `_initialized`. If it is set, or another thread
  won the CAS, the allocation runs at once. Otherwise this thread wins the
  CAS and goes to `init`.
* `Initialize` is `initialize()`, which empties every list outside the
  lock.
* `AllocAfterInit` is the CAS winner's allocation.

The allocation itself, the locked section plus the header write, is one
step, because the block is private to the caller once it is off the lists.
It is built from these operators:
* `fastPath`: the size's own class, with first fit on the large class.
* `firstNonEmpty` and `splitFrom`: a larger class, split when the rest is at
  least 48 bytes.
* `fromOS`: sbrk.

`Free` is `free`, and realloc is `Malloc` with an old block that `FreeOld`
frees afterwards. The constant `NDEBUG` says whether the build compiles
the `assert(insertFreeBlock(...))` statements away. When the heap would
pass `MaxHeap`, sbrk fails. Its `(void*)-1` is then used as a block, which
crashes the process: that is the `Halted` state.

### TwoLayer

The same naming as MyMalloc: `hdr` holds every header, central or cached,
`cfl` is the central `freels_`, `tfl[c]` the lists of cache `c`, `brk` the
break and `heapSize` the central `_heapSize`. `CacheOf` is
`pthread_self() % NUMOFTHREADCACHES`. `centHeapSet` says whether
`initialize()` has run its `setCentralHeap` loop; `cinit[c]` is the cache's
`_initialized`.

The central and the cache `allocateObject` are written as operators on a
record `st` (the lists, the headers, `_heapSize`, the break, and the block
being handed out) so that the cache's call into the central heap,
`getMemoryFromCentHeap`, is one function applied inside the other, as in
the code. `reassign` is the cache's "if the actual size for 'mem' is larger
than totalSize, reassign". `Apply` commits the result, or halts the process
when sbrk fails or a NULL `_cent_heap` is dereferenced.

The steps are the points where other threads get in:
* `Malloc` is assignMalloc's check and CAS on the central `_initialized`,
  followed at once by the routing when no initialisation is needed; the
  cache's own CAS may send the thread to `TInit`.
* `CentInit` is `Allocator::initialize()`, unlocked; `Route` is the rest of
  the winner's assignMalloc.
* `TInit` is `ThreadCache::initialize()`; `TAlloc` the rest of the winner's
  cache allocation.
* `Free` is `free()`, routed on `objectSize(ptr) % 16384`; `FreeOld` is
  realloc's `Allocator::TheAllocator.freeObject(ptr)`.

A central block is a multiple of 4096 bytes, and `objectSize` is that less
the 32 bytes of header and footer, never a multiple of 16384. So `free()`
sends every block to the freeing thread's cache, and pages never go back to
the central heap. The model keeps this routing; the `twolayer` run shows the
caches stay consistent under it.

## Runs

| Run | Expect | What it shows |
|---|---|---|
| `connection` | pass | Properties checked: `SingleReader`, `SingleWriter`, `NoUseAfterFree`, `ResponsesInOrder` (what the peer read, the send buffer and `out_` spell out exactly the responses produced) and `ReleasedAfterClose` (`peerClosed ~> deleted`: no reference leaks, no stall). The interleavings checked are the reader's startWrite against the write callback after EAGAIN, edges arriving while a loop runs, the peer resetting at any point, the Connection deleted in the middle of a poll round, and write errors on a connected peer, after which the failed loop must still release. |
| `connection_writing_stuck` | violation | `WritingHasWriter`: while the peer is connected, `writing_` implies a write loop that is running, queued or armed. TLC finds the zero-length write: the reader appends a response and reaches startWrite just as the write loop sends it and clears `writing_`. The reader's own doWrite then snapshots size 0, `write()` returns 0, and the loop breaks as if the socket were closed, leaving `writing_` set. |
| `pool_fast` | pass | `ExactlyOnce` (every added task is in exactly one place: queue, mailbox, running, or run once), `NoIdleWhileQueued`, `StopTerminates` (stop from main or from a worker returns and all threads leave), `EarlyTasksRun` (tasks added before stop() are run) and `ImplementsTaskPool`. |
| `http_exchange` | pass | A client connects and sends two requests, each with `asyncSend` from some thread or with the synchronous `send()`, and both sides read 1 to 16 bytes at a time. `AddressesServedInOrder`: the server's `handleRequest` sees the addresses in the order they were sent, none skipped, repeated or misread, so every `consume(bytesRead())` lands on the next request. `NothingLeftBehind`: while the server reads, the request after the last one handled has not fully arrived, so `readDone` never waits for input with a whole request in `in_`. `SendCompletes` (under `FairSpec`): a synchronous `send()` returns once its response has come back, behind requests other threads pipelined, unless the connection ends first or a side's `doWrite` has failed, leaving `writing_` set and bytes in `out_` that no later `startWrite` sends. Both sides' writes may fail, and `index.html` is empty, so a response is 13 bytes. Whether a response reaches the right callback is not checked here: with an empty body it does not always (`MCHttpExchange_emptybody.cfg`). Nothing calls the callbacks left in `response_cbs_` when the client's `doRead` stops, so a `send()` of `/quit`, or one overtaken by a reset, waits for good. |
| `service_stop` | pass | With one `/quit`, one accept callback (whose `accept` may fail) and two ordinary callbacks: `StopEndsOrWorkerStuck` (after a stop request, either the process exits or crashes, or some worker is stuck in the EBADF spin or in the second `stop()`'s wait: no other hang) and `TasksRunBeforeTeardown` (every ordinary callback the reactor handed to the pool has run before the teardown, thanks to the wait on `polling_`). |
| `service_accept_spin` | violation | `QuitShutsDown`: an accept callback running when `/quit` closes the acceptor meets EBADF, which `doAccept` neither handles nor leaves the loop for; the pool's `stop()` then joins a worker that never returns, and `start()` never returns. |
| `cache` | pass | `OvercommitBounded` (the unlocked free-space test overshoots `max_size_` by at most one file per other thread), `PinnedNeverFreed` (with unpin never hitting its FATALs) and `BytesAccounted`, for two threads on three one-byte files in a one-byte cache, with five loads (two racing loads cache two files; an evict then skips a pinned Node and takes the next). With one-byte files every evict removes one Node, so `ListMatchesMap` is not checked here: the adjacent eviction, which needs two Nodes evicted by one call, breaks it (`cache_evict_adjacent`), and a later evict or `~FileCache` then deletes the extracted Node a second time. |
| `cache_evict_adjacent` | violation | `ListMatchesMap`: evicting two adjacent unpinned Nodes in one call unlinks the second from the already extracted first, so `tail_` keeps pointing at a deleted Node. |
| `stats` | pass | `StatsNoOvercount` (getStats never returns more than the requests within the ring's reach of `now`) and `RecentRequestsReported` (every request of the last second, less one slot, is counted, except for a worker that moved past `now` during the call). |
| `buffer` | pass | `ImplementsByteStream` (every call sequence on two buffers does what a FIFO does, across full, reused and dropped chunks) and `IteratorReadsContent` (an iterator begun where `rpos_` is not parked reads the bytes in order, and `eob()` holds exactly at the end). |
| `mymalloc` | pass | `FreeListsConsistent` (what `checkALL` asserts: every listed block is free, filed under its size, on one list once, and the large list is sorted), `BlocksTileHeap` (walking headers by `_objectSize` from the heap start visits every block and ends at the break) and `NoDoubleHandout` (no block the program holds is on a list), for two threads calling malloc, free and realloc, the first-call race included. |
| `twolayer` | pass | `CacheListsConsistent` (the caches' lists: every listed block free, filed under its 8-byte class, listed once, the large class sorted), `BlocksTileHeap` and `NoDoubleHandout`, for two threads on two caches calling malloc, free and realloc of 1 and 17000 bytes. Both CAS races, the cache's fast path on a whole page from the central heap, its split of that page, central blocks and blocks freed by the other thread are all reached. |

### Further configurations

Each of these cfgs but four checks one property that TLC shows violated.
They document a divergence that the runs above do not repeat.
`MCThreadPoolNormal.cfg`, `MCPoolTester.cfg`, `MCLockTester.cfg` and
`MCLockTester_tas.cfg` pass. They check code the server does not use.

| Cfg | Property | What TLC shows |
|---|---|---|
| `MCThreadPoolFast_drop.cfg` | `QueuedDroppedAtStop` | The design says tasks queued at `stop()` are dropped; the code runs them. |
| `MCServiceStop_teardown.cfg` | `WorkersJoinedAtTeardown` | The `/quit` worker is never joined: it still runs `release()` and `~Connection` (`delDescriptor`) when `~IOService` deletes the IOManager, contrary to `~IOService`'s comment. |
| `MCFileCache_wrap.cfg` | `EvictFailsOnlyShort` | Evicting a Node larger than the bytes asked for wraps `bytes_to_evict`; evict frees it and still reports failure. |
| `MCFileCache_overcommit.cfg` | `WithinMaxSize` | Two loads pass the unlocked space test together and grow the cache past `max_size_` (by one file, within `OvercommitBounded`). |
| `MCRequestStats_slotedge.cfg` | `UnexpiredSlotsCounted` | A request at exactly `base_tick + kTicksPerSlot` stays in the old slot, which expires a slot early. |
| `MCRequestStats_boundary.cfg` | `ExpiredSlotNotCounted` | At `now - base_tick == ticksPerSecond` the walk goes all the way round and counts a slot from the previous second. |
| `MCRequestStats_stalenow.cfg` | `RecentRequestsReportedAllThreads` | A worker that enters a new slot after getStats read `now` makes `now - base_tick` wrap, and its whole last second is dropped. |
| `MCMyMalloc_initrace.cfg` | `HeapAccounted` | Thread 1 wins the CAS; thread 2 mallocs and frees a block; thread 1's `initialize()` then empties the lists, and the block is never reused. |
| `MCMyMalloc_ndebug.cfg` | `HeapAccounted` | Built with NDEBUG, `assert(insertFreeBlock(...))` is compiled away: a freed block never reaches a list. |
| `MCBuffer_stall.cfg` | `ReadableWhenNonEmpty` | `advance()` may leave `wpos_` at the end of a full chunk. After a consume of everything, the next `write` or `copyFrom` starts a new chunk without moving `rpos_`, so `readSize()` is 0 while bytes are buffered (what doWrite meets on `out_` after a file response that fills its chunk exactly). |
| `MCServiceStop_acceptnull.cfg` | `AcceptorDescriptorLive` | An accept callback gets EAGAIN; `/quit` closes the acceptor, setting `io_descr_` to NULL; the callback's re-arm then dereferences it. |
| `MCThreadPoolNormal.cfg` | all of the pool's properties (passes) | The same questions as `pool_fast` for `ThreadPoolNormal`, plus `LeftForDestructor`: once every thread has left, the queue holds exactly one NULL when a worker called `stop()` (none when main did) and the tasks added after `stop()`. The server does not use this pool, only the benchmark and its test do, so this cfg is not one of the runs. |
| `MCServiceStop_twoquits.cfg` | `QuitShutsDown` | Two `/quit` requests on two workers: the second waits on `cv_stopped_`, and the first joins it inside the pool's `stop()` before `stopped_` is set. The server hangs. |
| `MCTwoLayer_realloc.cfg` | `CentralListsConsistent` | malloc(1) gets a whole page from the central heap; free puts it in the cache; malloc(1) splits 48 bytes off it; realloc frees those 48 bytes with the central `freeObject`, into central class 0 among pages. |
| `MCTwoLayer_crash.cfg` | `CentHeapSetBeforeUse` | A thread that loses the central CAS goes to its cache before the winner's `initialize()` has set `_cent_heap`, and dereferences NULL in `getMemoryFromCentHeap`. |
| `MCTwoLayer_heap.cfg` | `HeapAccounted` | Thread 1 mallocs 17000 bytes, a 20480-byte block of the central heap, and frees it. `free()` sends to the central heap only sizes that are a multiple of 16 KiB, so the block is filed in cache c1, which was never initialised. `print` skips caches that are not initialised and reports "Equal? N"; the cache's `initialize()` would also empty its lists on first use. |
| `MCBuffer_bytecount.cfg` | `ByteCountExact` | `appendFrom` into a consumed buffer moves `rpos_` to chunk 1 without dropping chunk 0, and `byteCount()` counts bytes twice. |
| `MCPoolTester.cfg` | `TypeOK`, `CountedAtCheck`, `DeletedPoolIdle`, `TestReturns` (passes) | One worker and three `Incr` tasks, in `Sequential` and `StopIssuedInsideThePool`. `CountedAtCheck`: when main reaches `EXPECT_EQ`, every `Incr` has run, whether main stopped the pool or a task queued behind the `Incr`s did. `DeletedPoolIdle`: when the pool is deleted, every worker has left or is the one that called `stop()`, still inside its last task. `TestReturns`: both tests return. 326 states. `Concurrency` is not in this cfg: its `EXPECT_GT` depends on timing only (see the hazards). |
| `MCLockTester.cfg` | all of the tester's properties (passes) | Three workers, two lock rounds each, and the main thread, in the Fairness and the counters tests. `MutualExclusion` and `HolderIsHead` hold. `CountersExact`: when main has joined the workers in the counters test, each worker counted `MaxIters` rounds and the shared counter holds their sum. `BarrierHolds`: no thread leaves `wait()` before every participant has counted itself in. `ImplementsQueueLock`: `SpinlockMCS` is a FIFO lock (the swap enqueues; the CAS or the hand-over dequeues the head), which is the fairness the test expects. `StarvationFree` and `AllJoined` hold under weak fairness. 309,877 states. Only tests and benchmarks use these locks, so this cfg is not one of the runs. |
| `MCLockTester_tas.cfg` | `TypeOK`, `MutualExclusion`, `BarrierHolds`, `AllJoined` (passes) | The same test over the test-and-set `Spinlock`: mutual exclusion holds and every thread finishes under weak fairness. 16,729 states. The lock is not FIFO, so the queue properties are not checked here. |
| `MCLockTester_reorder.cfg` | `AllJoined` | With the stores of `lock()` swapped: the waiter links itself behind its predecessor, the predecessor unlocks and clears the waiter's `locked`, and then the waiter's own `locked = true` lands. It spins for ever, and main never joins it. The `__sync_synchronize` commented out in the source is what would forbid this order. |
| `MCHttpExchange_connect.cfg` | `ConnectCompletes` | `socket()` fails: `startConnect` returns with `in_error_` set, `connDone` never runs, and the thread in `HTTPService::connect` waits for ever, although `http_connection.hpp` says the connect callback is always issued. |
| `MCHttpExchange_emptybody.cfg` | `ResponsesMatchCallbacks` | With an empty `index.html`, a client read that ends on the final `\r` of a response, followed by a stray LF, completes the response a byte early (`http_parser.cpp:123`). The real `\n` then starts the next status line, so a callback gets a response other than the one the server wrote. |

Every property of a passing run has a mutant in `PROJECT.json`: a plausible
bug in the mapped definition that TLC shows breaks the property. Examples are
a latch not reset, a missing acquire or release, consume forgotten, the head
of the dispatch queue not popped, and one NULL too few or too many.

## Bounds

* **`MCConnection.cfg`** (checked on `Connection`, with model values): 2 workers, `MaxReq = 3` requests of kinds
  {good, bad}, `TxCap = 1` and `WriteErrors = TRUE`. This gives 217,496
  states in about 15 seconds. One
  response fills the send buffer, so EAGAIN and the write callback occur.
  Three requests let a response be appended while a write loop is running
  and the reader reach startWrite while the writer flushes. Two workers are
  enough for the reader and writer to run in parallel. A third worker adds
  no new kind of interleaving, because the latches let at most one read
  loop and one write loop exist.
* **`MCThreadPoolFast.cfg`** (checked on `ThreadPoolFast`, with model values): 3 workers and 4 tasks (229,038 states, about 45
  seconds). This is enough for a task to queue while every worker runs,
  for a running task to add one, and for `stop()` to be called with a task
  queued in front of the NULLs, by main or by any worker, while the other
  two are idle, running or already gone. With a single worker, a stop from the worker
  itself leaves nobody to run the queued tasks: `EarlyTasksRun` holds only
  for two or more workers, which is what the server uses.
* **`MCThreadPoolNormal.cfg`** (checked on `ThreadPoolNormal`, with model
  values): 2 workers and 3 tasks.
* **`MCHttpExchange`**: two requests, each for one of three addresses
  (9 pairs). Requests are 9 or 10 bytes and responses 13 or 14. Reads are
  1 to 16 bytes on each side, each request is sent by `asyncSend` or by
  `send()`, and any `doWrite` run by `startWrite` on either side may fail
  (57,296 states, about 2 minutes with the liveness check).
  * 16 bytes are enough for one read to bring the end of one message and
    the whole of the next, so both `readDone` loops must go round.
  * Every split point is reached, including the ones between `\r` and `\n`.
  * The run's `index.html` (`MCFilesEmpty`) is empty and `x` is not a
    file, so both a 200 with no body and a 503 are parsed. The empty body
    is the case where a stray LF after a final `\r` misframes the
    response stream (the hazard at `http_parser.cpp:123`); the run's
    properties hold there too. `MCFiles` (a one-byte file) is kept for the
    `connect` cfg.
  * The stray byte is LF or anything else, which is every case, because
    `getChar`'s result is only compared with `\n`.
  * A failed write is tried at every `startWrite` that would call
    `doWrite`: a request's on the client, any request of a server read's
    turn on the server.
* **`MCServiceStop.cfg`** (checked on `ServiceStop`, with model values): 3 workers and four callbacks: one quit task, one
  accept task and two ordinary ones (95,604 states). With three workers a
  request callback can run while one worker is in `doAccept` and another
  is stopping the service. The reactor can
  dispatch an ordinary callback before, during and after the stop, and the
  accept callback can be in any step of its loop when the acceptor is
  closed. The `twoquits` cfg has two quit tasks, one per worker, which is
  the least that shows the hang; it and `teardown` leave the acceptor out.
* **`MCFileCache`**: 2 threads, 3 files of one byte, `max_size_ = 1`, 5
  Node objects (five loads, since a Node is never reused) and a 16-bit
  `size_t` (2,781,221 states, about 45 seconds). A second file is cached
  only when two loads pass the unlocked space test together, so the
  overshoot `OvercommitBounded` allows is reached, and with three files a
  load that skipped the test could overshoot by one more, which its
  mutant does. With two files cached every miss has to evict, and an evict
  may skip a pinned Node and take the one behind it. Pins, evictions,
  duplicate loads, unpins and reloads after an eviction all interleave.
  The module's `TypeOK` is not checked by this run; the other cfgs keep 3
  Nodes.
  The adjacent-eviction cfg needs three files, two of one byte and one of
  two bytes in a two-byte cache, so that one evict removes two neighbours.
* **`MCRequestStats*.cfg`** (checked on `RequestStats` itself): 1 worker, 3 slots of 2 ticks (`ticksPerSecond = 6`),
  a clock up to 12 ticks, 3 requests and an 8-bit tick counter. Twelve
  ticks take the ring round twice, so a slot is zeroed one at a time, all
  at once, or not at all, and a thread can be more than a second old. One
  worker keeps the run under a minute: with two, the run took 12 minutes
  (88M states), and the workers do not share any state that getStats
  reads.
* **`MCBuffer.cfg`** (checked on `Buffer`, with model values): 2 buffers, `BlockSize = 2`, 3 bytes written in all, at
  most 2 bytes in two buffers together for `copyFrom`, and an iterator on
  one buffer (the connection reads only `in_` with an iterator). Three bytes
  over two-byte chunks cross a chunk boundary, fill a chunk exactly and
  leave one over. `copyFrom` still copies two chunks, one byte plus an
  empty chunk left by `reserve`. The run reaches 569,320 states in about a
  minute.

* **`MCMyMalloc.cfg`** (checked on `MyMalloc`, with `ThreadSymmetry`): 2 threads asking for 1, 480 and 500 bytes (blocks of
  48, 512 and 536 bytes), at most 2 blocks held, and `MaxHeap = 1100`. Two
  large blocks fit, so the large list holds two and is kept sorted, and
  first fit can miss. A 48-byte request splits a large block into a 48-byte
  block and a rest of class 58 or 61. The CAS race happens on the first
  call. The run reaches 45,583 states. With a 136-byte size added, it
  passes 2 million states without finishing. Under these bounds no split
  leaves less than 48 bytes, so `splitFrom`'s cannot-split branch is never
  taken.

* **`MCTwoLayer`**: 2 threads on 2 caches, sizes 1 (a 48-byte cache
  block) and 17000 (above the 16 KiB threshold: a 20480-byte central
  block), at most 2 blocks held, `MaxHeap = 28672` (seven pages) and at
  most 5 headers in the heap (`BlocksBound`, a state constraint). Without
  that constraint, blocks freed into the other thread's cache keep being
  split and the state space has no useful end. Five headers are enough for
  a page split in both caches with a 17000-byte block beside them. The run
  reaches 315,935 states in under two minutes. Both threads on one cache
  would exercise the cache's CAS race instead of the cross-cache frees;
  the cache CAS is the same code as the central one, which is raced here.
* **`MCLockTester.cfg`** (checked on `LockTester` itself, with the workers as
  model values): three workers, so that two can queue behind a
  holder and the FIFO order means something, and `MaxIters = 2` lock
  rounds each, so that a worker can come back and queue behind one that
  is still waiting. A worker that has used its rounds waits for `stop()`.
  Both tests together give 309,877 states in about a minute.
* **`MCPoolTester.cfg`**: one worker, so that the stop task runs after the
  `Incr`s queued before it and `EXPECT_EQ` is right to expect all of them.
  Three `Incr`s, so that some may still be queued when `stop()` is called.

## Fairness

* Workers, the reactor and the thread in `stop()` are weakly fair. A worker
  runs its callback to the end. The reactor wakes at least every 100 ms
  (`DescriptorPoller::poll`); in `Connection` its whole round, `pollBody`,
  is one weakly fair action. `stop()` keeps running until it blocks in
  `pthread_join`.
* The peer keeps reading its socket (`WF PeerReceive`) but is never obliged
  to send or to close.
* Nobody is obliged to add tasks or to call `stop()`.
* In `LockTester` every thread is weakly fair, the spinning ones included.
  Threads are OS threads, and a busy-waiting thread keeps being scheduled.
  A semaphore waiter could lose its post to another thread for ever under
  weak fairness. Each thread passes the barrier only once, so that cannot
  go on for ever.
  For `Spinlock` the same holds for the test-and-set loop: a waiter can
  lose the free lock to another worker every time. In the model the
  workers stop competing after `MaxIters` rounds or at `stop()`, and in the
  test `stop()` comes after a second, so the loser gets the lock then; the
  lock's starvation is not a property checked here.
* In `PoolTester`, main and every worker are weakly fair. The
  `Notification` and `cv_not_empty_` waiters are woken by the signal they
  wait for.
* In `HttpExchange` the connect steps, both Notification wake-ups and
  both sides' reads are weakly fair (see its section).
* `FileCache`, `RequestStats`, `Buffer`, `MyMalloc` and `TwoLayer` are checked for safety only.
  Their specs have no fairness, so none is assumed.

`MCConnection.cfg` does not check deadlock: after the peer closes and the
Connection is deleted, nothing more happens for that connection. Liveness
(`ReleasedAfterClose`) is what rules out a stall before that point. The pool
checks deadlock, and its only terminal state, all threads gone after stop,
is an explicit `Terminated` step. In the same way:
* `ServiceStop` ends in `Exited`, after the process exits;
* `HttpExchange` turns deadlock checking off. Once both `doRead` loops
  have ended (a read error or EOF, a parse error, or `/quit`), or the
  connect failed or crashed, nothing more happens on that connection;
* `FileCache` ends in `Stopped`, after `~FileCache` or a FATAL;
* `Buffer` ends in `Halted`, after a FATAL or undefined behaviour;
* `MyMalloc` and `TwoLayer` end in `Halted`, after sbrk fails (or, in
  `TwoLayer`, a NULL `_cent_heap` is used);
* `LockTester` ends in `Finished`, after main has joined the workers;
* `PoolTester` ends in `Finished`, after the pool is deleted and its
  workers have left.

The `twoquits` cfg turns deadlock checking off, because the hang it shows
is a liveness failure, `QuitShutsDown`. (The EBADF spin of `acceptspin`
is not a deadlock: `AcceptSpin` is always enabled.) `MCServiceStop.cfg`
turns it off too: an accept error followed by `/quit` reaches the same
double-`stop()` hang, where every thread waits. `StopEndsOrWorkerStuck`
names that wait and the EBADF spin as the only ways a stop may fail to end,
so any other stuck state is still reported.

## Not modelled, and why

* Logging, the signal handler, the child process and the thread and
  thread-local wrappers are OS plumbing. In `Connection` parsing is
  abstracted to a request being good or malformed; `HttpParser` and
  `HttpExchange` model the parse itself.
* In `HttpExchange` the following are left out:
  * the response headers other than `Content-Length`, which are one
    stand-in line;
  * `headerRemainder`;
  * the `/stats` page, which is `RequestStats`' business;
  * a bounded send buffer: a `doWrite` either moves all of `out_` or
    fails, so EAGAIN, short writes and the zero-byte write (the
    `Connection` model's) do not occur here, and the write upcall that
    resumes a write loop is not modelled;
  * a write failing in a later turn of a loop it already started, since
    the first `doWrite` moves everything.
  `DoConnectOk` is one step: `setUpCalls` replaces upcalls that nothing
  else runs yet.
* Write errors on a live peer are modelled by `WriteErrors`, but their
  cause (ENOBUFS and the like) is not. Nor is `pollBody`'s `exit(1)` on an `epoll_wait` error other than EINTR, which
  needs a bad epoll descriptor.
* Tests and benchmarks are drivers, not part of the system.
* In `FileCache`, the statistics counters (`pin_total_` and the like) are
  never read back, so they are left out.
* In `Buffer`, `end()` and the Iterator comparison operators have no
  caller in the server. `reserve` of more than `BlockSize` returns false
  without changing anything, so it is left out as well.
* In `MyMalloc`, `initialize()` is one step, although its loop of stores
  races with a concurrent locked section. Either order of a whole step is
  covered, but a list emptied halfway is not. The statistics and `print`
  only report. `checkFreeLsConsist` and `checkALL` are operators of the
  module. `FreeListsConsistent` holds them in every state, not only at exit.
* In `TwoLayer`, the same holds for both `initialize()`s. The statistics
  counters and calloc are left out. `print`'s comparison of `_heapSize`
  with the sum of the free lists is an operator, which `HeapAccounted`
  checks. Both `checkALL`s (with
  `nodeConsistent`, the asserts the two `checkFreeLsConsist` loops share)
  are operators, and the two list properties hold them in every state. `sbrk_alloc.cpp`
  and `page_map.hpp` are tcmalloc helpers that nothing calls.
* The divergences in the table of further cfgs are each shown by their
  own cfg rather than a run. Where a weaker statement still holds around
  the defect, a run checks it: `OvercommitBounded` for the unlocked space
  test, `RecentRequestsReported` and `StatsNoOvercount` for the slot edge,
  `ImplementsByteStream` for the two Buffer defects, `NoDoubleHandout`
  and `BlocksTileHeap` for MyMalloc's initialisation race and TwoLayer's
  realloc, `TasksRunBeforeTeardown` for the unjoined `/quit` worker. The
  failed `socket()` and the immediate `connect()`
  (`connection.cpp:87`, `:110`), the NULL `io_descr_` in `doAccept`, the
  wrap of `bytes_to_evict` and the NDEBUG build have no such statement:
  their result is a missing callback, a crash or a refused load, which is
  the violation itself.
* In `Spinlock`, the spin count and `nanosleep` only change timing. In
  `ThreadBarrier`, the semaphore names and the failure of `sem_open` are
  left out.

## Plan

Done: Connection; ThreadPoolFast and ThreadPoolNormal, both refining
TaskPool; ServiceStop with the acceptor; HttpParser and HttpExchange (server and client); FileCache;
RequestStats; Buffer, refining ByteStream; MyMalloc and TwoLayer over
FreeLists; SpinlockMCS, refining QueueLock, Spinlock and ThreadBarrier in
LockTester, with the Fairness and counters tests; the Basics tests of
the plain pool in PoolTester; HTTPService::connect's wait for the connect
callback in HttpExchange; `Connection::~Connection`, the Descriptor GC
list and the poll round in Connection; the synchronous `send()` and
`asyncConnect`'s early return in HttpExchange.

Left: the Concurrency test of the plain pool; the test drivers
of `connection_test.cpp` and `buffer_test.cpp`.
