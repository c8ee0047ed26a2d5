----------------------------- MODULE FreeLists -----------------------------
(***************************************************************************)
(* The segregated free lists shared, line for line, by the allocators of   *)
(* src/myAlloc_1Layer (MyMalloc.cpp) and src/myAlloc_2Layer_lock           *)
(* (heap_alloc.cpp, thread_cache.cpp): NUMOFSIZECLASSES doubly linked      *)
(* lists freels_[i], the last one kept in non-decreasing block size.  A    *)
(* list is a sequence of header addresses, front first, and h maps a       *)
(* header address to its ObjHeader.  The size class of a block is computed *)
(* by the caller (size / 8 or size / 4096), so nothing here depends on the *)
(* grain.                                                                  *)
(***************************************************************************)
EXTENDS Naturals, Sequences, SequencesExt, FiniteSets, FiniteSetsExt

NUMOFSIZECLASSES == 65
LastClass == NUMOFSIZECLASSES - 1
HDR  == 16     \* sizeof(ObjHeader) on LP64: int, padding, size_t
NODE == 16     \* sizeof(DualLnkNode)
ObjFree == 0
ObjAllocated == 1
NULL == -1

clip(pos) == IF pos > LastClass THEN LastClass ELSE pos

\* Mutant: the large list is not kept sorted.
insertFreeBlockFront(fl, h, a, pos) ==
  [fl EXCEPT ![clip(pos)] = <<a>> \o @]

(* insertFreeBlock: a block of the large class goes before the first one  *)
(* at least as large; every other class is a stack.                       *)
insertFreeBlock(fl, h, a, pos) ==
  LET p == clip(pos)
      i == SelectInSeq(fl[p], LAMBDA b : h[b].size >= h[a].size)
  IN IF p = LastClass /\ fl[p] # <<>>
     THEN [fl EXCEPT ![p] = IF i = 0 THEN Append(@, a) ELSE InsertAt(@, i, a)]
     ELSE [fl EXCEPT ![p] = <<a>> \o @]

\* Mutant: the node is returned but left on its list.
rmFromFreeLsKeep(fl, h, pos, totsize) ==
  LET p == clip(pos)
      i == IF p = LastClass THEN SelectInSeq(fl[p], LAMBDA b : h[b].size >= totsize) ELSE 1
  IN IF fl[p] = <<>> \/ i = 0 THEN [fl |-> fl, node |-> NULL]
     ELSE [fl |-> fl, node |-> fl[p][i]]

(* rmFromFreeLs: the first block of the class, or for the large class the  *)
(* first one of at least totsize bytes; NULL if there is none.            *)
rmFromFreeLs(fl, h, pos, totsize) ==
  LET p == clip(pos)
      i == IF p = LastClass THEN SelectInSeq(fl[p], LAMBDA b : h[b].size >= totsize) ELSE 1
  IN IF fl[p] = <<>> \/ i = 0 THEN [fl |-> fl, node |-> NULL]
     ELSE [fl |-> [fl EXCEPT ![p] = RemoveAt(@, i)], node |-> fl[p][i]]

\* The first non-empty class above index, or NUMOFSIZECLASSES.
firstNonEmpty(fl, index) ==
  LET C == {j \in index..LastClass : fl[j] # <<>>}
  IN IF C = {} THEN NUMOFSIZECLASSES ELSE Min(C)

====
