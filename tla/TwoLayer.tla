------------------------------ MODULE TwoLayer ------------------------------
(***************************************************************************)
(* The two-layer allocator of src/myAlloc_2Layer_lock.  The central heap   *)
(* (heap_alloc.cpp, Allocator) hands out blocks of whole 4096-byte pages   *)
(* from sbrk, filed in free lists of class size / 4096.  Each of the       *)
(* NUMOFTHREADCACHES thread caches (thread_cache.cpp, ThreadCache) files   *)
(* blocks by size / 8 and takes a block from the central heap when its     *)
(* lists cannot serve a request.  assignMalloc sends a request above       *)
(* 16 KiB to the central heap and any other to cache pthread_self() % 17;  *)
(* free routes by the block's size, realloc always frees centrally.        *)
(*                                                                         *)
(* All blocks live in one address space: hdr maps a header address to the *)
(* ObjHeader last written there, whichever heap wrote it.  Each locked     *)
(* section with its header write is one step (the cache's section includes *)
(* the nested central allocation); the two lazy initialisations, which run *)
(* outside any lock, are steps of their own.                               *)
(***************************************************************************)
EXTENDS FreeLists

CONSTANTS
  Threads,     \* threads calling malloc, free and realloc
  Caches,      \* the thread caches they reach
  CacheOf,     \* pthread_self() % NUMOFTHREADCACHES for each thread
  Sizes,       \* the byte counts they ask for
  MaxHeap,     \* bound on the bytes taken from sbrk
  MaxLive,     \* bound on the blocks handed out and not yet freed
  NDEBUG       \* the build defines NDEBUG: assert() does not evaluate its argument

ASSUME /\ CacheOf \in [Threads -> Caches]
       /\ Sizes \subseteq Nat \ {0}
       /\ NDEBUG \in BOOLEAN

BASICALLOCSIZE == 4096
CENTHEAPALLOCTHRESHOLD == 16384

VARIABLES
  initialized, \* the central heap's _initialized
  centHeapSet, \* every cache's _cent_heap has been set by Allocator::initialize
  cinit,       \* each cache's _initialized
  cfl,         \* the central freels_
  tfl,         \* each cache's freels_
  hdr,         \* the ObjHeader at every block address
  heapSize,    \* the central _heapSize
  brk,         \* the program break that sbrk moves
  live,        \* the blocks malloc returned and nobody freed yet
  pc,          \* "idle", "cinit", "route", "tinit", "talloc", "free_old"
  req,         \* the size a thread is allocating, while it initialises
  old,         \* realloc's old block, freed after the new one is allocated
  halted       \* why the process died: "" (it runs), "sbrk" failed, or a cache
               \* called through a "null_cent_heap"

vars == <<initialized, centHeapSet, cinit, cfl, tfl, hdr, heapSize, brk,
          live, pc, req, old, halted>>

EmptyLists == [i \in 0..LastClass |-> <<>>]

-----------------------------------------------------------------------------
(* Allocation works on a record st = [cfl, tfl, h, heap, brk, blk, size,  *)
(* crash]: the central lists, the lists of the cache in use, the headers,  *)
(* _heapSize and the break, and the block handed out with its size.       *)

(* Allocator and ThreadCache each have their own insertFreeBlock and     *)
(* rmFromFreeLs, the same code as the one-layer allocator's: FreeLists'   *)
(* operators.                                                              *)
centInsertFreeBlock(fl, h, a, pos) == insertFreeBlock(fl, h, a, pos)
centRmFromFreeLs(fl, h, pos, totsize) == rmFromFreeLs(fl, h, pos, totsize)
cacheInsertFreeBlock(fl, h, a, pos) == insertFreeBlock(fl, h, a, pos)
cacheRmFromFreeLs(fl, h, pos, totsize) == rmFromFreeLs(fl, h, pos, totsize)

\* The statement assert(insertFreeBlock(...)): gone when NDEBUG is defined.
centAssertInsert(fl, h, a, pos) ==
  IF NDEBUG THEN fl ELSE centInsertFreeBlock(fl, h, a, pos)
cacheAssertInsert(fl, h, a, pos) ==
  IF NDEBUG THEN fl ELSE cacheInsertFreeBlock(fl, h, a, pos)

\* Allocator::allocateObject: (size + 32 + 4095) & ~4095, at least 48.
centTotalSize(size) ==
  LET t == (size + 2 * HDR + BASICALLOCSIZE - 1)
           - ((size + 2 * HDR + BASICALLOCSIZE - 1) % BASICALLOCSIZE)
  IN IF t < 48 THEN 48 ELSE t

\* Mutant: the 48-byte minimum is forgotten.
cacheTotalSizeNoMin(size) ==
  (size + 2 * HDR + 7) - ((size + 2 * HDR + 7) % 8)

\* ThreadCache::allocateObject: (size + 32 + 7) & ~7, at least 48.
cacheTotalSize(size) ==
  LET t == (size + 2 * HDR + 7) - ((size + 2 * HDR + 7) % 8)
  IN IF t < 48 THEN 48 ELSE t

\* Allocator::getMemoryFromOS: _heapSize += size; sbrk(size) returns the old break.
getMemoryFromOS(st, ts) ==
  [st EXCEPT !.heap = @ + ts, !.brk = @ + ts, !.blk = st.brk, !.size = ts]

\* Allocator's split of a larger central block from class j.
centSplit(st, j, ts) ==
  LET r    == centRmFromFreeLs(st.cfl, st.h, j, j * BASICALLOCSIZE)
      real == st.h[r.node].size
      rest == r.node + ts
      h2   == (rest :> [size |-> real - ts, flags |-> ObjFree]) @@ st.h
  IN IF real >= ts + NODE + 2 * HDR
     THEN [st EXCEPT !.h = h2, !.blk = r.node, !.size = ts,
                     !.cfl = centAssertInsert(r.fl, h2, rest, (real - ts) \div BASICALLOCSIZE)]
     ELSE [st EXCEPT !.cfl = r.fl, !.blk = r.node, !.size = real]

\* ThreadCache's split of a larger cached block from class j.
cacheSplit(st, j, ts) ==
  LET r    == cacheRmFromFreeLs(st.tfl, st.h, j, j * 8)
      real == st.h[r.node].size
      rest == r.node + ts
      h2   == (rest :> [size |-> real - ts, flags |-> ObjFree]) @@ st.h
  IN IF real >= ts + NODE + 2 * HDR
     THEN [st EXCEPT !.h = h2, !.blk = r.node, !.size = ts,
                     !.tfl = cacheAssertInsert(r.fl, h2, rest, (real - ts) \div 8)]
     ELSE [st EXCEPT !.tfl = r.fl, !.blk = r.node, !.size = real]

\* The header and footer written after the lock.
writeHeader(st) ==
  [st EXCEPT !.h = (st.blk :> [size |-> st.size, flags |-> ObjAllocated]) @@ st.h]

\* Allocator::allocateObject(size).
centAllocateObject(st, size) ==
  LET ts    == centTotalSize(size)
      index == clip(ts \div BASICALLOCSIZE)
      fast  == centRmFromFreeLs(st.cfl, st.h, ts \div BASICALLOCSIZE, ts)
      j     == firstNonEmpty(st.cfl, index + 1)
  IN writeHeader(
       IF st.cfl[index] # <<>>
       THEN IF fast.node # NULL
            THEN [st EXCEPT !.cfl = fast.fl, !.blk = fast.node,
                            !.size = IF st.h[fast.node].size > ts THEN st.h[fast.node].size ELSE ts]
            ELSE getMemoryFromOS(st, ts)
       ELSE IF j = NUMOFSIZECLASSES THEN getMemoryFromOS(st, ts)
       ELSE centSplit(st, j, ts))

(* ThreadCache::getMemoryFromCentHeap: the central allocateObject of     *)
(* totalSize bytes, taken whole.  A _cent_heap still NULL (the cache was  *)
(* reached before Allocator::initialize set it) crashes the process.      *)
getMemoryFromCentHeap(st, ts) ==
  IF st.centSet THEN centAllocateObject(st, ts) ELSE [st EXCEPT !.crash = TRUE]

\* Mutant: a block from the central heap keeps totalSize, not its page size.
reassignNone(st, ts) == [st EXCEPT !.size = ts]

\* "If the actual size for 'mem' is larger than totalSize, reassign".
reassign(st, ts) ==
  [st EXCEPT !.size = IF ~st.crash /\ st.h[st.blk].size > ts THEN st.h[st.blk].size ELSE ts]

\* ThreadCache::allocateObject(size) after its initialisation check.
cacheAllocateObject(st, size) ==
  LET ts    == cacheTotalSize(size)
      index == clip(ts \div 8)
      fast  == cacheRmFromFreeLs(st.tfl, st.h, ts \div 8, ts)
      j     == firstNonEmpty(st.tfl, index + 1)
  IN writeHeader(
       IF st.tfl[index] # <<>>
       THEN IF fast.node # NULL
            THEN reassign([st EXCEPT !.tfl = fast.fl, !.blk = fast.node], ts)
            ELSE reassign(getMemoryFromCentHeap(st, ts), ts)
       ELSE IF j = NUMOFSIZECLASSES THEN reassign(getMemoryFromCentHeap(st, ts), ts)
       ELSE cacheSplit(st, j, ts))

-----------------------------------------------------------------------------
(* Steps of a thread.                                                       *)

Start(c) == [cfl |-> cfl, tfl |-> tfl[c], h |-> hdr, heap |-> heapSize, brk |-> brk,
             blk |-> NULL, size |-> 0, crash |-> FALSE, centSet |-> centHeapSet]

\* Where the thread goes once its allocation is done.
Done(t) == IF old'[t] = NULL THEN "idle" ELSE "free_old"

\* The outcome of an allocation on cache c: new state, or the process dies.
Apply(t, c, st) ==
  IF st.crash \/ st.brk > MaxHeap
  THEN /\ halted' = IF st.crash THEN "null_cent_heap" ELSE "sbrk"
       /\ UNCHANGED <<cfl, tfl, hdr, heapSize, brk, live, pc, req, cinit>>
  ELSE /\ cfl' = st.cfl
       /\ tfl' = [tfl EXCEPT ![c] = st.tfl]
       /\ hdr' = st.h
       /\ heapSize' = st.heap
       /\ brk' = st.brk
       /\ live' = live \cup {st.blk}
       /\ pc' = [pc EXCEPT ![t] = Done(t)]
       /\ req' = [req EXCEPT ![t] = 0]
       /\ halted' = ""
       /\ UNCHANGED cinit

(* assignMalloc after its initialisation check: above the threshold the   *)
(* central heap, else the thread's cache, whose own CAS may send the       *)
(* thread to initialise it first.                                          *)
assignMalloc(t, size) ==
  LET c == CacheOf[t] IN
  \/ /\ size > CENTHEAPALLOCTHRESHOLD
     /\ Apply(t, c, centAllocateObject(Start(c), size))
  \/ /\ size <= CENTHEAPALLOCTHRESHOLD /\ cinit[c]
     /\ Apply(t, c, cacheAllocateObject(Start(c), size))
  \/ /\ size <= CENTHEAPALLOCTHRESHOLD /\ ~cinit[c]
     /\ cinit' = [cinit EXCEPT ![c] = TRUE]
     /\ pc' = [pc EXCEPT ![t] = "tinit"]
     /\ req' = [req EXCEPT ![t] = size]
     /\ UNCHANGED <<cfl, tfl, hdr, heapSize, brk, live, halted>>

\* Allocator::freeObject: below 48 bytes nothing; else mark free, file by size / 4096.
centFreeObject(a) ==
  LET ts == hdr[a].size
  IN IF ts < NODE + 2 * HDR
     THEN UNCHANGED <<hdr, cfl, tfl>>
     ELSE /\ hdr' = [hdr EXCEPT ![a].flags = ObjFree]
          /\ cfl' = centAssertInsert(cfl, hdr', a, ts \div BASICALLOCSIZE)
          /\ UNCHANGED tfl

\* Mutant: the cache files a freed block by the central grain.
cacheFreeObjectPageClass(c, a) ==
  LET ts == hdr[a].size
  IN IF ts < NODE + 2 * HDR
     THEN UNCHANGED <<hdr, cfl, tfl>>
     ELSE /\ hdr' = [hdr EXCEPT ![a].flags = ObjFree]
          /\ tfl' = [tfl EXCEPT ![c] = cacheAssertInsert(@, hdr', a, ts \div BASICALLOCSIZE)]
          /\ UNCHANGED cfl

\* ThreadCache::freeObject on cache c: the same, filed by size / 8.
cacheFreeObject(c, a) ==
  LET ts == hdr[a].size
  IN IF ts < NODE + 2 * HDR
     THEN UNCHANGED <<hdr, cfl, tfl>>
     ELSE /\ hdr' = [hdr EXCEPT ![a].flags = ObjFree]
          /\ tfl' = [tfl EXCEPT ![c] = cacheAssertInsert(@, hdr', a, ts \div 8)]
          /\ UNCHANGED cfl

(* malloc(size), or realloc(ptr, size) with old the block it frees after: *)
(* assignMalloc's CAS on the central _initialized, then the routing.      *)
Malloc(t, size, o) ==
  /\ pc[t] = "idle"
  /\ Cardinality(live) < MaxLive
  /\ old' = [old EXCEPT ![t] = o]
  /\ \/ /\ ~initialized
        /\ initialized' = TRUE
        /\ pc' = [pc EXCEPT ![t] = "cinit"]
        /\ req' = [req EXCEPT ![t] = size]
        /\ UNCHANGED <<cinit, cfl, tfl, hdr, heapSize, brk, live, halted>>
     \/ /\ initialized
        /\ assignMalloc(t, size)
        /\ UNCHANGED initialized
  /\ UNCHANGED centHeapSet

(* Allocator::initialize, run by the CAS winner without the lock: empty   *)
(* central lists, _heapSize = 0, and every cache's _cent_heap set.         *)
CentInit(t) ==
  /\ pc[t] = "cinit"
  /\ cfl' = EmptyLists
  /\ heapSize' = 0
  /\ centHeapSet' = TRUE
  /\ pc' = [pc EXCEPT ![t] = "route"]
  /\ UNCHANGED <<initialized, cinit, tfl, hdr, brk, live, req, old, halted>>

\* The rest of the central CAS winner's assignMalloc.
Route(t) ==
  /\ pc[t] = "route"
  /\ UNCHANGED <<old, initialized, centHeapSet>>
  /\ assignMalloc(t, req[t])

\* ThreadCache::initialize, run by the winner of the cache's CAS: its lists emptied.
TInit(t) ==
  /\ pc[t] = "tinit"
  /\ tfl' = [tfl EXCEPT ![CacheOf[t]] = EmptyLists]
  /\ pc' = [pc EXCEPT ![t] = "talloc"]
  /\ UNCHANGED <<initialized, centHeapSet, cinit, cfl, hdr, heapSize, brk, live, req, old, halted>>

\* The rest of the cache CAS winner's ThreadCache::allocateObject.
TAlloc(t) ==
  /\ pc[t] = "talloc"
  /\ UNCHANGED <<old, initialized, centHeapSet>>
  /\ Apply(t, CacheOf[t], cacheAllocateObject(Start(CacheOf[t]), req[t]))

\* Allocator::objectSize: _objectSize less the header and the footer.
objectSize(a) == hdr[a].size - 2 * HDR

(* free(ptr): to the central heap when objectSize(ptr) is a multiple of   *)
(* 16 KiB, else to the freeing thread's cache.                             *)
Free(t, a) ==
  /\ pc[t] = "idle"
  /\ live' = live \ {a}
  /\ IF objectSize(a) % CENTHEAPALLOCTHRESHOLD = 0
     THEN centFreeObject(a)
     ELSE cacheFreeObject(CacheOf[t], a)
  /\ UNCHANGED <<initialized, centHeapSet, cinit, heapSize, brk, pc, req, old, halted>>

\* realloc's Allocator::TheAllocator.freeObject(ptr) of the old block.
FreeOld(t) ==
  /\ pc[t] = "free_old"
  /\ live' = live \ {old[t]}
  /\ centFreeObject(old[t])
  /\ pc' = [pc EXCEPT ![t] = "idle"]
  /\ old' = [old EXCEPT ![t] = NULL]
  /\ UNCHANGED <<initialized, centHeapSet, cinit, heapSize, brk, req, halted>>

\* The process has died; nothing runs any more.
Halted ==
  /\ halted # ""
  /\ UNCHANGED vars

Init ==
  /\ initialized = FALSE
  /\ centHeapSet = FALSE
  /\ cinit = [c \in Caches |-> FALSE]
  /\ cfl = EmptyLists
  /\ tfl = [c \in Caches |-> EmptyLists]
  /\ hdr = <<>>
  /\ heapSize = 0
  /\ brk = 0
  /\ live = {}
  /\ pc = [t \in Threads |-> "idle"]
  /\ req = [t \in Threads |-> 0]
  /\ old = [t \in Threads |-> NULL]
  /\ halted = ""

Held == {old[u] : u \in Threads}

Next ==
  \/ Halted
  \/ halted = "" /\ \E t \in Threads :
       \/ \E size \in Sizes :
            \/ Malloc(t, size, NULL)
            \/ \E a \in live \ Held : Malloc(t, size, a)
       \/ CentInit(t)
       \/ Route(t)
       \/ TInit(t)
       \/ TAlloc(t)
       \/ \E a \in live \ Held : Free(t, a)
       \/ FreeOld(t)

Spec == Init /\ [][Next]_vars

-----------------------------------------------------------------------------
(* Properties.                                                              *)

Listed(fl) == UNION {Range(fl[i]) : i \in 0..LastClass}

AllLists == {cfl} \cup {tfl[c] : c \in Caches}

AllListed == Listed(cfl) \cup UNION {Listed(tfl[c]) : c \in Caches}

\* Allocator::getFreeNodeSize: the _objectSize in the node's header.
getFreeNodeSize(a) == hdr[a].size

\* Allocator::sumFreeListSize: every node of every list, walked in order.
sumFreeListSize(fl) ==
  MapThenSumSet(LAMBDA i : FoldSeq(LAMBDA a, acc : acc + getFreeNodeSize(a),
                                   0, fl[i]),
                0..LastClass)

\* ThreadCache::sumFreeListSize, the same walk over a cache's freels_.
cacheSumFreeListSize(fl) == sumFreeListSize(fl)

(* Allocator::print's "Equal?": _heapSize against the central lists and   *)
(* the lists of every cache whose isInitialized() holds.                   *)
print ==
  heapSize = sumFreeListSize(cfl)
             + MapThenSumSet(LAMBDA c : cacheSumFreeListSize(tfl[c]),
                             {c \in Caches : cinit[c]})

Entries(fl) == MapThenSumSet(LAMBDA i : Len(fl[i]), 0..LastClass)

TypeOK ==
  /\ initialized \in BOOLEAN /\ centHeapSet \in BOOLEAN
  /\ cinit \in [Caches -> BOOLEAN]
  /\ cfl \in [0..LastClass -> Seq(Nat)]
  /\ tfl \in [Caches -> [0..LastClass -> Seq(Nat)]]
  /\ \A a \in DOMAIN hdr : /\ hdr[a].flags \in {ObjFree, ObjAllocated}
                           /\ hdr[a].size >= NODE + 2 * HDR
                           /\ hdr[a].size % 8 = 0
  /\ brk \in 0..MaxHeap /\ heapSize \in 0..brk
  /\ live \subseteq DOMAIN hdr /\ AllListed \subseteq DOMAIN hdr
  /\ pc \in [Threads -> {"idle", "cinit", "route", "tinit", "talloc", "free_old"}]
  /\ old \in [Threads -> live \cup {NULL}]
  /\ halted \in {"", "sbrk", "null_cent_heap"}

(* The asserts both checkFreeLsConsist loops make of the k-th block of   *)
(* list index in fl, for a class grain g: marked free, exactly index * g   *)
(* bytes below the last class, at least that on it and no smaller than the *)
(* block before it (prenodesize).  Footers mirror headers, and             *)
(* checkDualLnkList's prev_ links are the order of the sequence.           *)
nodeConsistent(fl, index, k, g) ==
  LET b == fl[index][k] IN
  /\ hdr[b].flags = ObjFree
  /\ IF index <= NUMOFSIZECLASSES - 2 THEN hdr[b].size = index * g
     ELSE /\ hdr[b].size >= index * g
          /\ k > 1 => hdr[fl[index][k - 1]].size <= hdr[b].size

\* Allocator::checkFreeLsConsist also asserts totsize % BASICALLOCSIZE = 0.
checkFreeLsConsist(index) ==
  \A k \in DOMAIN cfl[index] :
    /\ hdr[cfl[index][k]].size % BASICALLOCSIZE = 0
    /\ nodeConsistent(cfl, index, k, BASICALLOCSIZE)

checkALL == \A i \in 0..LastClass : checkFreeLsConsist(i)

\* ThreadCache::checkFreeLsConsist and checkALL of cache c: grain 8.
cacheCheckFreeLsConsist(c, index) ==
  \A k \in DOMAIN tfl[c][index] : nodeConsistent(tfl[c], index, k, 8)

cacheCheckALL(c) == \A i \in 0..LastClass : cacheCheckFreeLsConsist(c, i)

(* Every thread cache's lists pass its checkALL: whatever reaches a cache  *)
(* (its own frees, split rests, central pages freed by their size, blocks  *)
(* another thread allocated) is filed under its size / 8.                  *)
CacheListsConsistent ==
  \A c \in Caches : cacheCheckALL(c)

(* The central lists pass Allocator::checkALL, which the at-exit handler   *)
(* runs: only whole pages, each under its size / 4096.                     *)
CentralListsConsistent == checkALL

(* The boundary tags hold in the shared address space: walking headers    *)
(* from the heap start by _objectSize visits every block and ends at the   *)
(* break, across central pages, pages handed whole to a cache and the     *)
(* blocks a cache split them into.                                         *)
BlocksTileHeap ==
  LET RECURSIVE walk(_)
      walk(a) == IF a = brk THEN {}
                 ELSE IF a > brk \/ a \notin DOMAIN hdr THEN {NULL}
                 ELSE {a} \cup walk(a + hdr[a].size)
  IN walk(0) = DOMAIN hdr

(* No block the program holds is on any list, and no block is on two      *)
(* lists (of the central heap and the caches) or twice on one, however     *)
(* malloc, free and realloc on two threads and their caches interleave.    *)
NoDoubleHandout ==
  /\ live \cap AllListed = {}
  /\ \A a \in live : hdr[a].flags = ObjAllocated
  /\ Entries(cfl) + MapThenSumSet(LAMBDA c : Entries(tfl[c]), Caches)
       = Cardinality(AllListed)

(* print's "Equal?" check at exit: once nothing is held and no call is in  *)
(* progress, _heapSize equals the bytes on the central and cache lists.    *)
HeapAccounted ==
  (live = {} /\ \A t \in Threads : pc[t] = "idle") => print

(* A thread that lost the central CAS, or came after it, never reaches a  *)
(* thread cache whose _cent_heap the winner's initialize() has not set:   *)
(* the cache's first page would come from NULL->allocateObject.            *)
CentHeapSetBeforeUse ==
  halted # "null_cent_heap"

====
