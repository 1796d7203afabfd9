------------------------------- MODULE Heap --------------------------------
(***************************************************************************)
(* The first-fit block allocator of src/kernel/src/mem/heap.cpp, used for *)
(* the kernel heap (kmalloc/kfree) and for every process heap             *)
(* (SYSCALL_MALLOC/SYSCALL_FREE).                                         *)
(*                                                                         *)
(* Memory is modelled by the block headers written into it: hdr[a] is the *)
(* heap_block_t that lies at address a, if one was ever written there.    *)
(* Headers left behind by a merge stay in memory, as in the code.  The    *)
(* chain of blocks is what heap_malloc walks: from the heap's start,      *)
(* following next.  Addresses, sizes and the header size are in one      *)
(* scaled unit.                                                            *)
(***************************************************************************)
EXTENDS Integers, Sequences, FiniteSets, SequencesExt

CONSTANTS
  HeapSize,     \* heap->size
  HeaderSize,   \* sizeof(heap_block_t)
  Requests      \* sizes a caller may pass to heap_malloc

ASSUME /\ HeaderSize \in 1..4
       /\ HeapSize \in (HeaderSize + 1)..32
       /\ Requests \subseteq 1..HeapSize

Base  == 0                       \* heap->addr
Null  == -1                      \* NULL
Addrs == Base..(Base + HeapSize - 1)
NoHdr == [next |-> Null, free |-> 0, size |-> 0]   \* never a block's header

VARIABLES
  hdr,         \* the heap_block_t at each address
  live,        \* pointers returned by heap_malloc and not yet freed -> size asked
  lastFailed   \* the size of the last heap_malloc that returned NULL, or 0

vars == <<hdr, live, lastFailed>>

-----------------------------------------------------------------------------
(* heap_init: one free block spanning the heap.                            *)

HeapInit ==
  [a \in Addrs |-> IF a = Base
                   THEN [next |-> Null, free |-> 1, size |-> HeapSize]
                   ELSE NoHdr]

\* The chain of blocks reachable from the heap's start (at most one per
\* address, so a corrupt cycle cannot make it infinite).
RECURSIVE ChainFrom(_, _, _)
ChainFrom(h, b, fuel) ==
  IF b = Null \/ fuel = 0 THEN <<>>
  ELSE <<b>> \o ChainFrom(h, h[b].next, fuel - 1)

Chain == ChainFrom(hdr, Base, HeapSize)

-----------------------------------------------------------------------------
(* heap_malloc, one iteration of its loop per call of MallocFrom: merge   *)
(* the block with its successor if both are free, take it if it is free   *)
(* and large enough (splitting off the rest when a header and one byte   *)
(* fit), otherwise move on.  The merges stay even when NULL is returned. *)

\* Mutant: the freed neighbour is unlinked but its size is not added.
MergeNextDropsSize(h, b) ==
  LET nx == h[b].next
  IN  IF h[b].free = 1 /\ nx # Null /\ h[nx].free = 1
      THEN [h EXCEPT ![b].next = h[nx].next]
      ELSE h

\* Mutant: the absorbed neighbour's header is counted a second time.
MergeNextAddsHeader(h, b) ==
  LET nx == h[b].next
  IN  IF h[b].free = 1 /\ nx # Null /\ h[nx].free = 1
      THEN [h EXCEPT ![b].size = @ + h[nx].size + HeaderSize,
                     ![b].next = h[nx].next]
      ELSE h

\* Merge with the next block if both are free (heap.cpp:43-46).
MergeNext(h, b) ==
  LET nx == h[b].next
  IN  IF h[b].free = 1 /\ nx # Null /\ h[nx].free = 1
      THEN [h EXCEPT ![b].size = @ + h[nx].size, ![b].next = h[nx].next]
      ELSE h

\* Mutant: the new block is placed right after the payload, as if the
\* allocated block had no header.
SplitBlockNoHeader(h, b, need) ==
  IF h[b].size > need + HeaderSize
  THEN [h EXCEPT ![b + need - HeaderSize] =
                   [next |-> h[b].next, free |-> 1,
                    size |-> h[b].size - need + HeaderSize],
                 ![b].next = b + need - HeaderSize, ![b].size = need]
  ELSE h

\* Split block b after need units if a header and one more unit fit
\* (heap.cpp:54-62).
SplitBlock(h, b, need) ==
  IF h[b].size > need + HeaderSize
  THEN [h EXCEPT ![b + need] = [next |-> h[b].next, free |-> 1,
                                size |-> h[b].size - need],
                 ![b].next = b + need, ![b].size = need]
  ELSE h

\* Mutant: the block is marked used only when it was split.
TakeBlockOnlyWhenSplit(h, b, need) ==
  IF h[b].size > need + HeaderSize
  THEN [SplitBlock(h, b, need) EXCEPT ![b].free = 0]
  ELSE h

\* Take block b for a request of need units, header included
\* (heap.cpp:49-64).
TakeBlock(h, b, need) == [SplitBlock(h, b, need) EXCEPT ![b].free = 0]

RECURSIVE MallocFrom(_, _, _, _)
MallocFrom(h, b, need, fuel) ==
  IF b = Null \/ fuel = 0 THEN [heap |-> h, ptr |-> Null]
  ELSE LET h1 == MergeNext(h, b)
       IN  IF h1[b].free = 1 /\ h1[b].size >= need
           THEN [heap |-> TakeBlock(h1, b, need), ptr |-> b + HeaderSize]
           ELSE MallocFrom(h1, h1[b].next, need, fuel - 1)

\* heap_malloc(heap, size)
HeapMalloc(h, size) == MallocFrom(h, Base, size + HeaderSize, HeapSize)

\* heap_free(heap, ptr): ignore pointers outside [addr, addr + size],
\* else mark the header in front of ptr free.
HeapFree(h, p) ==
  IF p < Base \/ p > Base + HeapSize THEN h
  ELSE [h EXCEPT ![p - HeaderSize].free = 1]

-----------------------------------------------------------------------------
(* A caller of the allocator: any request size, and free of any pointer  *)
(* it holds.                                                               *)

Init ==
  /\ hdr = HeapInit
  /\ live = [p \in {} |-> 0]
  /\ lastFailed = 0

Malloc(n) ==
  LET r == HeapMalloc(hdr, n)
  IN  /\ hdr' = r.heap
      /\ IF r.ptr = Null
         THEN /\ live' = live
              /\ lastFailed' = n
         ELSE /\ live' = [p \in DOMAIN live \cup {r.ptr} |->
                            IF p = r.ptr THEN n ELSE live[p]]
              /\ lastFailed' = 0

Free(p) ==
  /\ hdr' = HeapFree(hdr, p)
  /\ live' = [q \in DOMAIN live \ {p} |-> live[q]]
  /\ lastFailed' = 0

Next ==
  \/ \E n \in Requests : Malloc(n)
  \/ \E p \in DOMAIN live : Free(p)

Spec == Init /\ [][Next]_vars

-----------------------------------------------------------------------------
(* Properties.                                                             *)

TypeOK ==
  /\ hdr \in [Addrs -> [next : Addrs \cup {Null}, free : {0, 1},
                        size : 0..HeapSize]]
  /\ DOMAIN live \subseteq (Base + HeaderSize)..(Base + HeapSize)
  /\ \A p \in DOMAIN live : live[p] \in Requests
  /\ lastFailed \in Requests \cup {0}

\* The blocks malloc walks tile the heap: each starts where the previous
\* one ends and the last ends at the heap's end (merge and split in
\* heap_malloc must both keep next and size in step).
ChainTilesHeap ==
  LET c == Chain
  IN  /\ Len(c) >= 1 /\ c[1] = Base
      /\ hdr[c[Len(c)]].next = Null
      /\ c[Len(c)] + hdr[c[Len(c)]].size = Base + HeapSize
      /\ \A i \in 1..(Len(c) - 1) : c[i] + hdr[c[i]].size = c[i + 1]

\* A block of the chain is in use exactly when a caller holds the pointer
\* behind its header, and that block is large enough for the request.
LiveBlocksAllocated ==
  /\ {p - HeaderSize : p \in DOMAIN live} =
       {b \in ToSet(Chain) : hdr[b].free = 0}
  /\ \A p \in DOMAIN live : hdr[p - HeaderSize].size >= live[p] + HeaderSize

\* The free space of the chain, as runs of adjacent free blocks.
FreeRunFrom(i) ==
  LET c == Chain
      run(j) == \A k \in i..j : hdr[c[k]].free = 1
      js == {j \in i..Len(c) : run(j)}
  IN  IF js = {} THEN 0
      ELSE LET j == Max(js)
           IN  (c[j] + hdr[c[j]].size) - c[i]

LargestFreeRun == Max({0} \cup {FreeRunFrom(i) : i \in 1..Len(Chain)})

\* heap_malloc returns NULL only when no run of adjacent free blocks can
\* hold the request: "if two adjacent blocks are free, merge them into
\* one larger block" (heap.cpp:42).
MallocFailsOnlyWhenFull ==
  lastFailed # 0 => LargestFreeRun < lastFailed + HeaderSize

\* The allocator seen from its callers: a set of disjoint live intervals.
Abstract == INSTANCE AbstractHeap
  WITH allocated <- {<<p, live[p]>> : p \in DOMAIN live}

\* heap_malloc refines a textbook allocator: it hands out an interval
\* inside the heap that overlaps no interval a caller still holds, and
\* heap_free gives back exactly the interval freed.
RefinesAbstractHeap == Abstract!Spec
=============================================================================
