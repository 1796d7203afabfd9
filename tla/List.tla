-------------------------------- MODULE List --------------------------------
(***************************************************************************)
(* The doubly linked list of src/kernel/src/processes/list.cpp, which     *)
(* holds the scheduler's queues and each PCB's open_files.  A list is the *)
(* sequence of the data pointers met walking from first along next; the   *)
(* node structure (first, last, prev, next, size) is what encodes it.     *)
(* The only place the encoding shows through is list_remove of a list's   *)
(* sole node: first becomes NULL while last keeps the freed node, and     *)
(* every operation tests first before it reads last, so that stale last  *)
(* never changes what an operation does.  Data are compared by identity *)
(* (curr->data == data), except in list_contains, which takes a compare  *)
(* function.  A node whose kmalloc fails is silently not added; the       *)
(* kernel heap is far larger than the lists and that failure is left out.*)
(***************************************************************************)
EXTENDS Sequences, SequencesExt

\* list_add_first: a new node before the first.
ListAddFirst(l, d) == <<d>> \o l

\* list_add_last: a new node after the last.
ListAddLast(l, d) == Append(l, d)

\* list_remove(list, index): nothing for an index past the end, else the
\* node reached by index steps from first is unlinked and freed.
ListRemove(l, index) ==
  IF index >= Len(l) THEN l ELSE RemoveAt(l, index + 1)

\* list_remove_data: the first node holding exactly this pointer goes.
ListRemoveData(l, d) == RemoveFirst(l, d)

\* list_contains with a compare function that is equality on what the
\* model keeps: comparePcb (scheduler.cpp:38) on PCB addresses, and
\* filename_cmp (syscalls.cpp:86, strcmp) on file names.
ListContains(l, d) == \E i \in 1..Len(l) : d = l[i]

\* list_get: the data of node index, or null for an index out of range.
ListGet(l, index, null) ==
  IF index < 0 \/ index >= Len(l) THEN null ELSE l[index + 1]
=============================================================================
