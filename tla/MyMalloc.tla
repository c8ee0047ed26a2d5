------------------------------ MODULE MyMalloc ------------------------------
(***************************************************************************)
(* The one-layer allocator (src/myAlloc_1Layer/MyMalloc.cpp): 65 segregated *)
(* free lists freels_[i] of blocks of i * 8 bytes, the last one holding     *)
(* every block of 512 bytes or more in non-decreasing size; blocks split on *)
(* allocation and never coalesce; memory comes from sbrk.  Each block has a *)
(* 16-byte ObjHeader (and a footer that mirrors it); a block is named by    *)
(* the address of its header, relative to the start of the heap.            *)
(*                                                                         *)
(* The critical section of allocateObject and of freeObject under _m, with *)
(* the header writes that follow it on memory no other thread can reach,   *)
(* is one step; the lazy initialisation, which runs outside the lock, is   *)
(* its own step.                                                           *)
(***************************************************************************)
EXTENDS FreeLists

CONSTANTS
  Threads,     \* threads calling malloc, free and realloc
  Sizes,       \* the byte counts they ask for
  MaxHeap,     \* bound on the bytes taken from sbrk
  MaxLive,     \* bound on the blocks handed out and not yet freed
  NDEBUG       \* the build defines NDEBUG: assert() does not evaluate its argument

ASSUME Sizes \subseteq Nat \ {0} /\ NDEBUG \in BOOLEAN

VARIABLES
  initialized, \* _initialized
  freels,      \* freels_: class -> the header addresses on its list, front first
  hdr,         \* the ObjHeader of every block: address -> [size, flags]
  heapSize,    \* _heapSize, which is also the heap's break
  live,        \* the blocks malloc returned and nobody freed yet
  pc,          \* "idle", "init" (won the CAS), "alloc" (after initialize), "free_old"
  req,         \* the size a thread is allocating
  old,         \* realloc's old block, freed after the new one is allocated
  halted       \* sbrk failed: its (void*)-1 was used as a block and the process died

vars == <<initialized, freels, hdr, heapSize, live, pc, req, old, halted>>

-----------------------------------------------------------------------------
(* Helpers, named as in the code.                                           *)

\* Mutant: the 48-byte minimum is forgotten.
totalSizeNoMin(size) ==
  (size + 2 * HDR + 7) - ((size + 2 * HDR + 7) % 8)

\* (size + 2 * sizeof(ObjHeader) + 7) & ~7, at least 48.
totalSizeOf(size) ==
  LET t == (size + 2 * HDR + 7) - ((size + 2 * HDR + 7) % 8)
  IN IF t < 48 THEN 48 ELSE t

\* The statement assert(insertFreeBlock(...)): gone when NDEBUG is defined.
assertInsert(fl, h, a, pos) ==
  IF NDEBUG THEN fl ELSE insertFreeBlock(fl, h, a, pos)

\* getMemoryFromOS: _heapSize += size; sbrk(size) returns the old break.
fromOS(st, ts) ==
  [st EXCEPT !.heap = @ + ts, !.blk = st.heap, !.size = ts]

(* The larger block taken from class j: split off a free rest of         *)
(* realSize - totalSize bytes when that leaves room for a free node,       *)
(* else give the whole block and make totalSize its size.                  *)
splitFrom(st, j, ts) ==
  LET r    == rmFromFreeLs(st.fl, st.h, j, j * 8)
      real == st.h[r.node].size
      rest == r.node + ts
      h2   == (rest :> [size |-> real - ts, flags |-> ObjFree]) @@ st.h
  IN IF real >= ts + NODE + 2 * HDR
     THEN [st EXCEPT !.h = h2, !.fl = assertInsert(r.fl, h2, rest, (real - ts) \div 8),
                     !.blk = r.node, !.size = ts]
     ELSE [st EXCEPT !.fl = r.fl, !.blk = r.node, !.size = real]

\* Mutant: a larger block from the fast path keeps totalSize as its size.
fastPathNoReassign(st, ts) ==
  LET fast == rmFromFreeLs(st.fl, st.h, ts \div 8, ts)
  IN IF fast.node # NULL
     THEN [st EXCEPT !.fl = fast.fl, !.blk = fast.node, !.size = ts]
     ELSE fromOS(st, ts)

(* The size's own class is not empty: take its first block (for the large  *)
(* class, the first big enough, whose larger size becomes totalSize), or   *)
(* go to the OS when no large block fits.                                  *)
fastPath(st, ts) ==
  LET fast == rmFromFreeLs(st.fl, st.h, ts \div 8, ts)
  IN IF fast.node # NULL
     THEN [st EXCEPT !.fl = fast.fl, !.blk = fast.node,
                     !.size = IF st.h[fast.node].size > ts THEN st.h[fast.node].size ELSE ts]
     ELSE fromOS(st, ts)

(* The locked part of allocateObject on st = [fl, h, heap, blk, size]:    *)
(* the size's own class, else a larger class, else the OS.  blk and size  *)
(* are the block handed out and the totalSize written into its header.    *)
allocLocked(st, ts) ==
  LET index == clip(ts \div 8)
      j     == firstNonEmpty(st.fl, index + 1)
  IN IF st.fl[index] # <<>> THEN fastPath(st, ts)
     ELSE IF j = NUMOFSIZECLASSES THEN fromOS(st, ts)
     ELSE splitFrom(st, j, ts)

-----------------------------------------------------------------------------
(* One thread's call.  Malloc is malloc() and the first half of realloc(): *)
(* allocateObject either finds _initialized set (or loses the CAS) and     *)
(* allocates at once, or wins the CAS and must first run initialize().     *)

\* allocateObject after the initialisation check: the locked part and the header write.
allocateObject(t, size) ==
  LET ts == totalSizeOf(size)
      st == allocLocked([fl |-> freels, h |-> hdr, heap |-> heapSize,
                         blk |-> NULL, size |-> 0], ts)
  IN IF st.heap > MaxHeap
     THEN /\ halted' = TRUE
          /\ UNCHANGED <<freels, hdr, heapSize, live>>
     ELSE /\ halted' = FALSE
     /\ freels' = st.fl
     /\ hdr' = [a \in DOMAIN st.h \cup {st.blk} |->
                  IF a = st.blk THEN [size |-> st.size, flags |-> ObjAllocated]
                  ELSE st.h[a]]
     /\ heapSize' = st.heap
     /\ live' = live \cup {st.blk}

\* freeObject: below 48 bytes nothing happens; else mark it free and list it.
freeObject(a) ==
  LET ts == hdr[a].size
  IN /\ live' = live \ {a}
     /\ IF ts < NODE + 2 * HDR
        THEN UNCHANGED <<hdr, freels>>
        ELSE /\ hdr' = [hdr EXCEPT ![a].flags = ObjFree]
             /\ freels' = assertInsert(freels, hdr', a, ts \div 8)

\* malloc(size), or realloc(ptr, size) with old the block it will free after.
Malloc(t, size, o) ==
  /\ pc[t] = "idle"
  /\ Cardinality(live) < MaxLive
  /\ \/ /\ initialized
        /\ allocateObject(t, size)
        /\ pc' = [pc EXCEPT ![t] = IF o = NULL THEN "idle" ELSE "free_old"]
        /\ UNCHANGED initialized
     \/ /\ ~initialized
        /\ initialized' = TRUE
        /\ pc' = [pc EXCEPT ![t] = "init"]
        /\ UNCHANGED <<freels, hdr, heapSize, live, halted>>
  /\ req' = [req EXCEPT ![t] = IF initialized THEN 0 ELSE size]
  /\ old' = [old EXCEPT ![t] = o]

\* initialize(), run by the CAS winner without the lock: every list emptied.
Initialize(t) ==
  /\ pc[t] = "init"
  /\ freels' = [i \in 0..LastClass |-> <<>>]
  /\ pc' = [pc EXCEPT ![t] = "alloc"]
  /\ UNCHANGED <<initialized, hdr, heapSize, live, req, old, halted>>

\* The rest of the CAS winner's allocateObject.
AllocAfterInit(t) ==
  /\ pc[t] = "alloc"
  /\ allocateObject(t, req[t])
  /\ pc' = [pc EXCEPT ![t] = IF old[t] = NULL THEN "idle" ELSE "free_old"]
  /\ req' = [req EXCEPT ![t] = 0]
  /\ UNCHANGED <<initialized, old>>

\* free(ptr) of a block this program holds.
Free(t, a) ==
  /\ pc[t] = "idle"
  /\ freeObject(a)
  /\ UNCHANGED <<initialized, heapSize, pc, req, old, halted>>

\* realloc's freeObject(ptr) of the old block, after the copy.
FreeOld(t) ==
  /\ pc[t] = "free_old"
  /\ freeObject(old[t])
  /\ pc' = [pc EXCEPT ![t] = "idle"]
  /\ old' = [old EXCEPT ![t] = NULL]
  /\ UNCHANGED <<initialized, heapSize, req, halted>>

Init ==
  /\ initialized = FALSE
  /\ freels = [i \in 0..LastClass |-> <<>>]
  /\ hdr = <<>>
  /\ heapSize = 0
  /\ live = {}
  /\ pc = [t \in Threads |-> "idle"]
  /\ req = [t \in Threads |-> 0]
  /\ old = [t \in Threads |-> NULL]
  /\ halted = FALSE

\* The process has died; nothing runs any more.
Halted ==
  /\ halted
  /\ UNCHANGED vars

Next ==
  \/ Halted
  \/ ~halted /\ \E t \in Threads :
       \/ \E size \in Sizes :
            \/ Malloc(t, size, NULL)
            \/ \E a \in live \ {old[u] : u \in Threads} : Malloc(t, size, a)
       \/ Initialize(t)
       \/ AllocAfterInit(t)
       \/ \E a \in live \ {old[u] : u \in Threads} : Free(t, a)
       \/ FreeOld(t)

Spec == Init /\ [][Next]_vars

-----------------------------------------------------------------------------
(* Properties.                                                              *)

Listed == UNION {Range(freels[i]) : i \in 0..LastClass}

\* Allocator::getFreeNodeSize: the _objectSize in the node's header.
getFreeNodeSize(a) == hdr[a].size

\* Allocator::sumFreeListSize: every node of every list, walked in order.
sumFreeListSize ==
  MapThenSumSet(LAMBDA i : FoldSeq(LAMBDA a, acc : acc + getFreeNodeSize(a),
                                   0, freels[i]),
                0..LastClass)

Header == [size : Nat, flags : {ObjFree, ObjAllocated}]

TypeOK ==
  /\ initialized \in BOOLEAN
  /\ freels \in [0..LastClass -> Seq(Nat)]
  /\ \A a \in DOMAIN hdr : hdr[a] \in Header /\ hdr[a].size >= NODE + 2 * HDR
                           /\ hdr[a].size % 8 = 0
  /\ heapSize \in 0..MaxHeap
  /\ live \subseteq DOMAIN hdr /\ Listed \subseteq DOMAIN hdr
  /\ pc \in [Threads -> {"idle", "init", "alloc", "free_old"}]
  /\ old \in [Threads -> live \cup {NULL}]
  /\ halted \in BOOLEAN

(* checkFreeLsConsist(index): every block on list index is marked free,   *)
(* of exactly index * 8 bytes below the last class and at least that on    *)
(* it.  Footers mirror headers here, so the footer asserts are the header  *)
(* ones; checkDualLnkList's prev_ links are the order of the sequence.     *)
checkFreeLsConsist(index) ==
  \A k \in DOMAIN freels[index] :
    /\ hdr[freels[index][k]].flags = ObjFree
    /\ IF index <= NUMOFSIZECLASSES - 2 THEN hdr[freels[index][k]].size = index * 8
       ELSE hdr[freels[index][k]].size >= index * 8

checkALL == \A i \in 0..LastClass : checkFreeLsConsist(i)

(* What checkALL asserts at exit, and what rmFromFreeLs relies on beyond   *)
(* it: the large list is in non-decreasing size and no block is on two     *)
(* lists or twice on one.  Splits, frees and the fast path all file blocks *)
(* by their size; a remainder filed under the wrong class, or a large      *)
(* block put in front of smaller ones, breaks it.                          *)
FreeListsConsistent ==
  /\ checkALL
  /\ \A k \in DOMAIN freels[LastClass] :
       k > 1 => hdr[freels[LastClass][k - 1]].size <= hdr[freels[LastClass][k]].size
  /\ MapThenSumSet(LAMBDA i : Len(freels[i]), 0..LastClass) = Cardinality(Listed)

(* The boundary tags hold: walking the headers from the start of the heap *)
(* by their _objectSize visits every block and ends exactly at the break.  *)
(* A header written with the wrong size after a split, or after giving a   *)
(* larger block whole, makes the next header land inside a block.         *)
BlocksTileHeap ==
  LET RECURSIVE walk(_)
      walk(a) == IF a = heapSize THEN {}
                 ELSE IF a > heapSize \/ a \notin DOMAIN hdr THEN {NULL}
                 ELSE {a} \cup walk(a + hdr[a].size)
  IN walk(0) = DOMAIN hdr

(* malloc never hands out memory that is in use: no block the program     *)
(* holds is still on a free list, whichever path (own class, split of a   *)
(* larger one, the OS) allocated it and however frees and reallocs of two *)
(* threads interleave.                                                     *)
NoDoubleHandout ==
  /\ live \cap Listed = {}
  /\ \A a \in live : hdr[a].flags = ObjAllocated

(* No memory leaks: when no call is in progress, every byte taken from     *)
(* sbrk is either held by the program or on a free list for reuse.         *)
HeapAccounted ==
  (\A t \in Threads : pc[t] = "idle") =>
    heapSize = sumFreeListSize + MapThenSumSet(LAMBDA a : hdr[a].size, live)

\* Every thread runs the same code on the one Allocator: threads are
\* interchangeable.
ThreadSymmetry == Permutations(Threads)

====
