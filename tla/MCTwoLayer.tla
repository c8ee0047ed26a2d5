----------------------------- MODULE MCTwoLayer -----------------------------
(* Two threads on two different caches (pthread_self() % 17 differs), each *)
(* asking for 1 byte (a 48-byte cache block, the first one a whole 4096-   *)
(* byte page) or 17000 bytes (a 20480-byte central block).                 *)
EXTENDS TwoLayer, TLC

CONSTANTS t1, t2, c1, c2

MCThreads == {t1, t2}
MCCaches == {c1, c2}
MCCacheOf == (t1 :> c1) @@ (t2 :> c2)
MCSizes == {1, 17000}

(* A freed block goes to the freeing thread's cache, so 48-byte blocks can *)
(* move from one cache to the other and make it split page after page.    *)
(* MaxBlocks bounds how many block headers the heap holds.                 *)
MaxBlocks == 5
BlocksBound == Cardinality(DOMAIN hdr) <= MaxBlocks
====
