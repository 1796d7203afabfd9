---------------------------- MODULE AbstractHeap ----------------------------
(***************************************************************************)
(* What a memory allocator promises its callers, and nothing about how:   *)
(* an allocation is an interval of the heap, live intervals never         *)
(* overlap, an allocation may always fail, and a free returns one live    *)
(* interval.                                                               *)
(***************************************************************************)
EXTENDS Integers

CONSTANTS HeapSize, Requests

VARIABLE allocated   \* set of <<address, length>> held by callers

Base == 0

Interval(a) == a[1]..(a[1] + a[2] - 1)

InHeap(a) == Interval(a) \subseteq Base..(Base + HeapSize - 1)

Disjoint(a, b) == Interval(a) \cap Interval(b) = {}

Init == allocated = {}

Allocate ==
  \E n \in Requests, p \in Base..(Base + HeapSize - 1) :
    /\ InHeap(<<p, n>>)
    /\ \A b \in allocated : Disjoint(<<p, n>>, b)
    /\ allocated' = allocated \cup {<<p, n>>}

Release == \E a \in allocated : allocated' = allocated \ {a}

Next == Allocate \/ Release

Spec == Init /\ [][Next]_allocated
=============================================================================
