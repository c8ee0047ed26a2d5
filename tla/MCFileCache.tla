---------------------------- MODULE MCFileCache ----------------------------
(* FileCache with two threads, two or three files and three or five Nodes: *)
(* enough for two concurrent loads of one file, an eviction by one thread  *)
(* while the other holds a pin, and a file reloaded after its eviction.    *)
EXTENDS FileCache

CONSTANTS th1, th2, f1, f2, f3, n1, n2, n3, n4, n5

MCThreads == {th1, th2}
TwoFiles == {f1, f2}
ThreeFiles == {f1, f2, f3}
MCNodes == {n1, n2, n3}
FiveNodes == {n1, n2, n3, n4, n5}

\* Every file one byte, the cache one byte: each miss on a full cache evicts.
UnitSize == [f \in TwoFiles |-> 1]

\* Three one-byte files in a two-byte cache: two are cached at once.
UnitSize3 == [f \in ThreeFiles |-> 1]

\* Two small files and one as large as the cache.
MixedSize == (f1 :> 1) @@ (f2 :> 1) @@ (f3 :> 2)

\* A cached file larger than the next one asked for.
LargeSmall == (f1 :> 2) @@ (f2 :> 1)
=============================================================================
