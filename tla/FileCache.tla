------------------------------ MODULE FileCache ------------------------------
(***************************************************************************)
(* base::FileCache (src/file_cache.cpp): cache_map_ from file names to     *)
(* Nodes, the Nodes also chained in a singly linked FIFO list from the     *)
(* sentinel tail_ to head_, under the reader-writer lock rw_m_; pin counts *)
(* and bytes_used_ are changed with atomic fetch-and-add.                  *)
(*                                                                         *)
(* Threads call pin(file) and later unpin(handle).  A miss loads the file *)
(* without any lock, checks the free space without the lock, evicts under *)
(* the write lock if needed, and hangs the new Node under the write lock.  *)
(* Each critical section and each atomic operation is one step.  File     *)
(* contents are abstracted away; a file is a model value with a size.      *)
(***************************************************************************)
EXTENDS Naturals, Integers, Sequences, FiniteSets, Bags, BagsExt, Functions,
        FiniteSetsExt

CONSTANTS
  Threads,      \* threads calling pin/unpin
  Files,        \* file names
  Size,         \* Size[f]: st_size of file f
  MaxSize,      \* max_size_
  Nodes,        \* the Node objects the run may allocate (a bound)
  tail,         \* &tail_, the sentinel
  NoNode,       \* NULL
  SizeTBits     \* width of size_t in the model

ASSUME /\ Size \in [Files -> Nat \ {0}] /\ MaxSize \in Nat
       /\ tail \notin Nodes /\ NoNode \notin Nodes \cup {tail}

SizeT == 2^SizeTBits

VARIABLES
  map,          \* cache_map_: file -> Node, or NoNode
  next,         \* Node::next, for the Nodes and tail_
  head,         \* head_
  pinCount,     \* Node::pin_count
  name,         \* Node::file_name of each allocated Node
  bytesUsed,    \* bytes_used_
  allocated,    \* Nodes created by load so far
  frees,        \* bag: how many times each Node was deleted
  pc,           \* where each thread is in pin/load/unpin
  fileOf,       \* the file each thread is pinning
  nodeOf,       \* the Node a thread loads, or has pinned through a hit
  fatal,        \* a LOG(FATAL) ended the process
  destroyed     \* ~FileCache has run

vars == <<map, next, head, pinCount, name, bytesUsed, allocated, frees, pc,
          fileOf, nodeOf, fatal, destroyed>>

NodeSize(n) == Size[name[n]]

\* The Nodes reachable from tail_, in list order.
RECURSIVE chainFrom(_, _)
chainFrom(n, k) ==
  IF next[n] = NoNode \/ k = 0 THEN <<>>
  ELSE <<next[n]>> \o chainFrom(next[n], k - 1)

List == chainFrom(tail, Cardinality(Nodes) + 1)

Running == ~fatal /\ ~destroyed

\* Nodes some thread is about to create; the bound counts them as taken.
Reserved == {nodeOf[t] : t \in {x \in Threads : pc[x] \in {"open", "evict", "read"}}}

-----------------------------------------------------------------------------
(* pin(): the short path under the read lock.  A hit increments the pin   *)
(* count while the lock keeps eviction out; a miss goes on to load().      *)
PinLookup(t, f) ==
  /\ Running /\ pc[t] = "idle"
  /\ fileOf' = [fileOf EXCEPT ![t] = f]
  /\ IF map[f] # NoNode
     THEN /\ pinCount' = [pinCount EXCEPT ![map[f]] = @ + 1]
          /\ nodeOf' = [nodeOf EXCEPT ![t] = map[f]]
          /\ pc' = [pc EXCEPT ![t] = "pinned"]
     ELSE /\ Nodes \ (allocated \cup Reserved) # {}
          /\ nodeOf' = [nodeOf EXCEPT ![t] = CHOOSE n \in Nodes \ (allocated \cup Reserved) : TRUE]
          /\ pc' = [pc EXCEPT ![t] = "open"]
          /\ UNCHANGED pinCount
  /\ UNCHANGED <<map, next, head, name, bytesUsed, allocated, frees, fatal, destroyed>>

\* load(): open() fails; pin returns 0 with errno.
OpenFails(t) ==
  /\ Running /\ pc[t] = "open"
  /\ pc' = [pc EXCEPT ![t] = "idle"]
  /\ UNCHANGED <<map, next, head, pinCount, name, bytesUsed, allocated, frees,
                 fileOf, nodeOf, fatal, destroyed>>

\* Mutant: the free-space test is left out; every load goes on to read.
SpaceCheckSkipped(t) ==
  /\ Running /\ pc[t] = "open"
  /\ pc' = [pc EXCEPT ![t] = "read"]
  /\ UNCHANGED <<map, next, head, pinCount, name, bytesUsed, allocated, frees,
                 fileOf, nodeOf, fatal, destroyed>>

\* load(): fstat, and the free-space test on bytes_used_ without the lock.
SpaceCheck(t) ==
  /\ Running /\ pc[t] = "open"
  /\ pc' = [pc EXCEPT ![t] = IF MaxSize - bytesUsed < Size[fileOf[t]]
                             THEN "evict" ELSE "read"]
  /\ UNCHANGED <<map, next, head, pinCount, name, bytesUsed, allocated, frees,
                 fileOf, nodeOf, fatal, destroyed>>


(* nodeExtract(node, prev): unlink node after prev, moving head_ back if  *)
(* node was the head.  (Its FATAL check, node == prev or prev == NULL,     *)
(* cannot fire: prev starts at &tail_ and then follows curr.)  st is the   *)
(* state evict's loop works on.                                            *)
nodeExtract(n, prev, st) ==
  [st EXCEPT !.head = IF @ = n THEN prev ELSE @,
             !.next = [@ EXCEPT ![prev] = st.next[n]]]

(* The body of evict's loop for an unpinned curr: count its bytes (the    *)
(* size_t bytes_to_evict wraps below zero), erase its name from the map,   *)
(* queue it for deletion and unlink it.                                    *)
evictNode(n, prev, st) ==
  nodeExtract(n, prev,
    [st EXCEPT !.evicted = @ + NodeSize(n),
               !.need = (@ - NodeSize(n)) % SizeT,
               !.map = [@ EXCEPT ![name[n]] = NoNode],
               !.gone = @ \cup {n}])

\* Mutant: the pin count is not looked at.
evictableAlways(n) == TRUE

\* if (curr->pin_count == 0)
evictable(n) ==
  pinCount[n] = 0

(* while ((bytes_to_evict > 0) && (curr != NULL)): after each Node, prev  *)
(* becomes curr, whether curr was extracted or not.                        *)
RECURSIVE evictLoop(_, _, _)
evictLoop(curr, prev, st) ==
  IF st.need = 0 \/ curr = NoNode THEN st
  ELSE LET st2 == IF evictable(curr) THEN evictNode(curr, prev, st) ELSE st
       IN  evictLoop(st2.next[curr], curr, st2)

\* Mutant: bytes_used_ is not decreased by the bytes evicted.
EvictKeepsBytes(t) ==
  /\ Running /\ pc[t] = "evict"
  /\ LET r == evictLoop(next[tail], tail,
                [next |-> next, head |-> head, map |-> map, gone |-> {},
                 need |-> Size[fileOf[t]], evicted |-> 0])
     IN IF head = tail
        THEN /\ pc' = [pc EXCEPT ![t] = "idle"]
             /\ UNCHANGED <<map, next, head, frees>>
        ELSE /\ map' = r.map /\ next' = r.next /\ head' = r.head
             /\ frees' = frees (+) SetToBag(r.gone)
             /\ pc' = [pc EXCEPT ![t] = IF r.need = 0 THEN "read" ELSE "idle"]
  /\ UNCHANGED <<bytesUsed, pinCount, name, allocated, fileOf, nodeOf, fatal, destroyed>>

(* evict(st_size) under the write lock: nothing to evict when the list is *)
(* empty; otherwise walk it, subtract the bytes evicted from bytes_used_,  *)
(* unlock and delete the extracted Nodes.  It succeeds when                *)
(* bytes_to_evict <= 0, i.e. is 0; on failure pin returns 0, error 0.      *)
Evict(t) ==
  /\ Running /\ pc[t] = "evict"
  /\ LET r == evictLoop(next[tail], tail,
                [next |-> next, head |-> head, map |-> map, gone |-> {},
                 need |-> Size[fileOf[t]], evicted |-> 0])
     IN IF head = tail
        THEN /\ pc' = [pc EXCEPT ![t] = "idle"]
             /\ UNCHANGED <<map, next, head, bytesUsed, frees>>
        ELSE /\ map' = r.map /\ next' = r.next /\ head' = r.head
             /\ bytesUsed' = bytesUsed - r.evicted
             /\ frees' = frees (+) SetToBag(r.gone)
             /\ pc' = [pc EXCEPT ![t] = IF r.need = 0 THEN "read" ELSE "idle"]
  /\ UNCHANGED <<pinCount, name, allocated, fileOf, nodeOf, fatal, destroyed>>

\* load(): read() fails; the new Buffer is deleted and pin returns errno.
ReadFails(t) ==
  /\ Running /\ pc[t] = "read"
  /\ pc' = [pc EXCEPT ![t] = "idle"]
  /\ UNCHANGED <<map, next, head, pinCount, name, bytesUsed, allocated, frees,
                 fileOf, nodeOf, fatal, destroyed>>

\* nodeInsert: append after head_ and make the Node the head.
nodeInsert(n) ==
  /\ next' = [next EXCEPT ![head] = n, ![n] = NoNode]
  /\ head' = n

\* Mutant: the new Node keeps the constructor's pin_count of 0.
InsertUnpinned(t) ==
  /\ Running /\ pc[t] = "read"
  /\ LET n == nodeOf[t]
         f == fileOf[t]
     IN /\ allocated' = allocated \cup {n}
        /\ name' = name @@ (n :> f)
        /\ IF map[f] = NoNode
           THEN /\ map' = [map EXCEPT ![f] = n]
                /\ nodeInsert(n)
                /\ pc' = [pc EXCEPT ![t] = "account"]
           ELSE /\ pc' = [pc EXCEPT ![t] = "duplicate"]
                /\ UNCHANGED <<map, next, head>>
  /\ UNCHANGED <<pinCount, bytesUsed, frees, fileOf, nodeOf, fatal, destroyed>>

(* load(): the file is read; a Node with pin_count 1 is created and, under *)
(* the write lock, inserted in the map and the list unless another load   *)
(* of the same file got there first.                                       *)
Insert(t) ==
  /\ Running /\ pc[t] = "read"
  /\ LET n == nodeOf[t]
         f == fileOf[t]
     IN /\ allocated' = allocated \cup {n}
        /\ name' = name @@ (n :> f)
        /\ pinCount' = [pinCount EXCEPT ![n] = 1]
        /\ IF map[f] = NoNode
           THEN /\ map' = [map EXCEPT ![f] = n]
                /\ nodeInsert(n)
                /\ pc' = [pc EXCEPT ![t] = "account"]
           ELSE /\ pc' = [pc EXCEPT ![t] = "duplicate"]
                /\ UNCHANGED <<map, next, head>>
  /\ UNCHANGED <<bytesUsed, frees, fileOf, nodeOf, fatal, destroyed>>

\* After the unlock: bytes_used_ += st_size; pin returns the handle.
Account(t) ==
  /\ Running /\ pc[t] = "account"
  /\ bytesUsed' = bytesUsed + Size[fileOf[t]]
  /\ pc' = [pc EXCEPT ![t] = "pinned"]
  /\ UNCHANGED <<map, next, head, pinCount, name, allocated, frees, fileOf,
                 nodeOf, fatal, destroyed>>

\* After the unlock, a duplicate load deletes its Node; pin returns 0.
Duplicate(t) ==
  /\ Running /\ pc[t] = "duplicate"
  /\ frees' = frees (+) SetToBag({nodeOf[t]})
  /\ pc' = [pc EXCEPT ![t] = "idle"]
  /\ UNCHANGED <<map, next, head, pinCount, name, bytesUsed, allocated, fileOf,
                 nodeOf, fatal, destroyed>>

(* load(): open, the space test, evict when short (a failed evict counts  *)
(* the pin as failed and returns 0), read, then hang the Node or drop it.  *)
Load(t) ==
  \/ OpenFails(t) \/ SpaceCheck(t) \/ Evict(t) \/ ReadFails(t) \/ Insert(t)
  \/ Account(t) \/ Duplicate(t)

(* unpin(h) under the read lock: the handle points at the Node's name,    *)
(* which is looked up again; a name not in the map, or a pin count that   *)
(* was already 0 before the decrement, is a LOG(FATAL), which exits.       *)
Unpin(t) ==
  /\ Running /\ pc[t] = "pinned"
  /\ LET n == map[fileOf[t]]
     IN IF n = NoNode
        THEN /\ fatal' = TRUE
             /\ UNCHANGED pinCount
        ELSE /\ pinCount' = [pinCount EXCEPT ![n] = @ - 1]
             /\ fatal' = (pinCount[n] = 0)
  /\ pc' = [pc EXCEPT ![t] = "idle"]
  /\ UNCHANGED <<map, next, head, name, bytesUsed, allocated, frees, fileOf,
                 nodeOf, destroyed>>

(* ~FileCache, once no thread uses the cache: delete every Node on the    *)
(* list from tail_.next on.                                                *)
Destroy ==
  /\ Running /\ \A t \in Threads : pc[t] = "idle"
  /\ destroyed' = TRUE
  /\ frees' = frees (+) SetToBag(Range(List))
  /\ UNCHANGED <<map, next, head, pinCount, name, bytesUsed, allocated, pc,
                 fileOf, nodeOf, fatal>>

\* The process has exited, or the cache is gone.
Stopped == ~Running /\ UNCHANGED vars

-----------------------------------------------------------------------------
\* The constructor: an empty map, head_ = &tail_, bytes_used_ = 0.
Init ==
  /\ map = [f \in Files |-> NoNode]
  /\ next = [n \in Nodes \cup {tail} |-> NoNode]
  /\ head = tail
  /\ pinCount = [n \in Nodes |-> 0]
  /\ name = <<>>
  /\ bytesUsed = 0 /\ allocated = {} /\ frees = EmptyBag
  /\ pc = [t \in Threads |-> "idle"]
  /\ fileOf = [t \in Threads |-> CHOOSE f \in Files : TRUE]
  /\ nodeOf = [t \in Threads |-> NoNode]
  /\ fatal = FALSE /\ destroyed = FALSE

(* A thread is FileTester::test of file_cache_test.cpp: it pins a file    *)
(* drawn from Files, and when the pin succeeded it unpins it (the check of *)
(* the Buffer's bytes is left out with the contents).                      *)
ThreadStep(t) ==
  \/ \E f \in Files : PinLookup(t, f)
  \/ Load(t)
  \/ Unpin(t)

Next ==
  \/ \E t \in Threads : ThreadStep(t)
  \/ Destroy
  \/ Stopped

Spec == Init /\ [][Next]_vars

-----------------------------------------------------------------------------
(* Properties                                                               *)

TypeOK ==
  /\ map \in [Files -> Nodes \cup {NoNode}]
  /\ next \in [Nodes \cup {tail} -> Nodes \cup {NoNode}]
  /\ head \in Nodes \cup {tail}
  /\ pinCount \in [Nodes -> Nat]
  /\ allocated \subseteq Nodes /\ name \in [allocated -> Files]
  /\ bytesUsed \in Int /\ IsABag(frees)
  /\ pc \in [Threads -> {"idle", "open", "evict", "read", "account",
                         "duplicate", "pinned"}]
  /\ fileOf \in [Threads -> Files] /\ nodeOf \in [Threads -> Nodes \cup {NoNode}]
  /\ fatal \in BOOLEAN /\ destroyed \in BOOLEAN

Cached == {map[f] : f \in Files} \ {NoNode}

(* The list from tail_ and cache_map_ agree after every critical section  *)
(* of pin, load, evict and unpin: the list holds exactly the cached Nodes, *)
(* once each, none of them deleted, and head_ is its last Node.            *)
ListMatchesMap ==
  Running =>
    /\ Range(List) = Cached /\ IsInjective(List)
    /\ head = IF List = <<>> THEN tail ELSE List[Len(List)]
    /\ \A n \in Range(List) : CopiesIn(n, frees) = 0

(* A Node some thread holds pinned, through a hit or its own load, is     *)
(* never deleted and stays the one cached under its name: the pin taken    *)
(* under the read lock keeps evict off it.  So unpin() never hits one of   *)
(* its LOG(FATAL) cases: the name is still cached and the count positive.  *)
PinnedNeverFreed ==
  /\ ~fatal
  /\ \A t \in Threads : pc[t] \in {"account", "pinned"} =>
       /\ CopiesIn(nodeOf[t], frees) = 0
       /\ map[fileOf[t]] = nodeOf[t]

(* bytes_used_ counts the cached Nodes: it equals their total size, less   *)
(* the loads that inserted a Node and have not yet added its size.         *)
BytesAccounted ==
  bytesUsed + MapThenSumSet(LAMBDA t : Size[fileOf[t]], {t \in Threads : pc[t] = "account"})
    = MapThenSumSet(NodeSize, Cached)

(* The header: "The sum of all Buffer's stored in the map never exceeds   *)
(* the size determined for the cache".                                     *)
WithinMaxSize == MapThenSumSet(NodeSize, Cached) <= MaxSize

(* How far the unlocked free-space test of load (file_cache.cpp:115) can  *)
(* overshoot max_size_: each of the other threads may pass the test on the *)
(* same free bytes, or on a bytes_used_ its own Account has not yet raised,*)
(* so the cached files exceed max_size_ by at most one file per other      *)
(* thread, never more, however long the pins, evicts and loads go on.      *)
OvercommitBounded ==
  MapThenSumSet(NodeSize, Cached)
    <= MaxSize + (Cardinality(Threads) - 1) * Max({Size[f] : f \in Files})

(* evict's result, bytes_to_evict <= 0, says whether it freed the bytes *)
(* asked for: a non-empty cache reports failure only when the unpinned    *)
(* Nodes it evicted add up to less than the file's size.                   *)
EvictFailsOnlyShort ==
  [][\A t \in Threads :
       (pc[t] = "evict" /\ pc'[t] = "idle" /\ head # tail)
         => bytesUsed - bytesUsed' < Size[fileOf[t]]]_vars

=============================================================================
