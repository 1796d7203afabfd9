--------------------------- MODULE MCAddressSpace ---------------------------
(***************************************************************************)
(* Three PCBs, page tables of two entries, one heap table, and the image *)
(* of one LOAD segment of exactly one page at the start of a table: the  *)
(* inclusive end p_vaddr + p_filesz makes allocate_segment map two pages  *)
(* of the table, and the copy unmaps only the one pages_needed counts,   *)
(* so the other stays in the kernel's view.  34 physical frames make a   *)
(* bitmap of two words whose last holds 2 frames, so paging_init's tail  *)
(* lock leaves bit 29 of it (frame 61) as its only free bit.  With 3     *)
(* frames locked at boot, 30 are free: three processes of ten frames     *)
(* each fit, and the third takes frame 61.  The frames and kernel pages  *)
(* unmap_process leaves behind make repeated creation run out of them   *)
(* and reach the allocator's panic.                                       *)
(***************************************************************************)
EXTENDS AddressSpace, TLC

CONSTANTS p1, p2, p3

MCProcs        == {p1, p2, p3}
MCNumFrames    == 34
MCBootUsed     == 3
MCEntries      == 2
MCKernelTables == 14
MCHeapTables   == 1
MCImagePages   == <<2>>
MCImageCopied  == 1

Symmetry == Permutations(MCProcs)
=============================================================================
