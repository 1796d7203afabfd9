------------------------------- MODULE MCHeap -------------------------------
(***************************************************************************)
(* A process heap scaled down: a header of one unit, a heap of ten, and   *)
(* requests of one, two and four units -- enough for several live blocks, *)
(* splits with and without room for a new header, and runs of three free *)
(* blocks.                                                                 *)
(***************************************************************************)
EXTENDS Heap

MCHeapSize   == 10
MCHeaderSize == 1
MCRequests   == {1, 2, 4}
=============================================================================
