---------------------------- MODULE AddressSpace ----------------------------
(***************************************************************************)
(* Physical frames and the kernel's page tables (src/kernel/src/mem/      *)
(* paging.cpp), and the building and tearing down of a process's address *)
(* space (create_process_virtual_addr_space and unmap_process of          *)
(* src/kernel/src/processes/process.cpp, with the page consumption of     *)
(* load_elf_file).                                                         *)
(*                                                                         *)
(* Every page a process needs is first allocated in the KERNEL's address  *)
(* space with allocate_page(1): the page directory, every page table, and *)
(* every ELF data page.  The kernel's tables in the scanned range (indices *)
(* 2..767) are kpt; a kernel slot is a pair <<table index, entry>>.       *)
(* Frames are the indices of the frame bitmap; frames is the set of the  *)
(* bits that are 1 (used or locked).  Sizes                               *)
(* are scaled: Entries pages per table, HeapTables heap tables.           *)
(***************************************************************************)
EXTENDS Integers, Sequences, FiniteSets, SequencesExt

CONSTANTS
  NumFrames,      \* physical_frames: RAM minus the kernel image, in frames
  BootUsed,       \* frames in use after paging_init (kernel, kernel heap, file store)
  Entries,        \* PAGE_TABLE_ENTRIES
  KernelTables,   \* page-table indices allocate_page(user) scans (2..767)
  HeapTables,     \* page tables of the process heap (PROCESS_HEAP_*_PAGE_TABLE)
  ImagePages,     \* pages load_elf_file maps per table of the image, in order
  ImageCopied,    \* how many of them the copy loop unmaps from the kernel's view
  Procs           \* PCB slots

ASSUME /\ NumFrames >= 1
       /\ BootUsed \in 0..NumFrames
       /\ ImagePages \in Seq(1..Entries)
       /\ ImageCopied \in 1..SumFunction(ImagePages)   \* pages_needed >= 1

\* frames_bitmap_size: one 32-bit word per 32 frames, rounded up.
BitmapSize == NumFrames \div 32 + (IF NumFrames % 32 # 0 THEN 1 ELSE 0)

\* The frame indices allocate_frame scans: every bit of every word.
Frames == 0..(32 * BitmapSize - 1)

Free   == -1                               \* physical_page_addr == 0xFFFFF
Ents   == 0..(Entries - 1)
KIdx   == 2..(KernelTables + 1)
Slots  == KIdx \X Ents
NoSlot == <<0, 0>>                         \* a page directory that does not exist

\* A kernel page table: absent (page_table_addr == 0xFFFFF) or its entries.
NoTable == [present |-> FALSE, pages |-> [j \in Ents |-> Free]]

VARIABLES
  frames,   \* the used frames (the frame bitmap)
  kpt,      \* kernel page tables over KIdx
  pdir,     \* kernel slot holding each process's page directory, or NoSlot
  tables,   \* pcb->page_tables: <<kernel slot of the table, frames it maps>>
  halted    \* _panic() was reached

vars == <<frames, kpt, pdir, tables, halted>>

Live == {p \in Procs : pdir[p] # NoSlot}

\* The frame behind a kernel slot.
FrameOf(k, s) == k[s[1]].pages[s[2]]

-----------------------------------------------------------------------------
(* paging.cpp, as operators on a record r with fields frames, kpt and    *)
(* halted, and ret for the value a function returns.  After a panic      *)
(* nothing changes.                                                        *)

\* Mutant: exhaustion does not panic; the index past the bitmap is
\* handed out.
AllocateFrameNoPanic(r) ==
  IF r.halted THEN r
  ELSE IF Frames \ r.frames = {}
       THEN [r EXCEPT !.frames = @ \cup {32 * BitmapSize},
                      !.ret = 32 * BitmapSize]
       ELSE LET f == Min(Frames \ r.frames)
            IN  [r EXCEPT !.frames = @ \cup {f}, !.ret = f]

\* Mutant: the frame's bit is not set in the bitmap.
AllocateFrameNoMark(r) ==
  IF r.halted THEN r
  ELSE IF Frames \ r.frames = {} THEN [r EXCEPT !.halted = TRUE]
       ELSE [r EXCEPT !.ret = Min(Frames \ r.frames)]

\* allocate_frame: the lowest free frame, or _panic().
AllocateFrame(r) ==
  IF r.halted THEN r
  ELSE IF Frames \ r.frames = {} THEN [r EXCEPT !.halted = TRUE]
       ELSE LET f == Min(Frames \ r.frames)
            IN  [r EXCEPT !.frames = @ \cup {f}, !.ret = f]

\* allocate_page_table(i, user) for a kernel table: a fresh table whose
\* entries are all unmapped.
AllocatePageTable(r, i) ==
  IF r.kpt[i].present THEN r
  ELSE [r EXCEPT !.kpt[i] = [present |-> TRUE, pages |-> [j \in Ents |-> Free]]]

\* allocate_page(i, j, user): take a frame first, then map it unless the
\* page is mapped already.
AllocatePageAt(r, i, j) ==
  LET a == AllocateFrame(r)
      b == AllocatePageTable(a, i)
  IN  IF a.halted THEN a
      ELSE IF b.kpt[i].pages[j] # Free THEN [b EXCEPT !.ret = <<i, j>>]
      ELSE [b EXCEPT !.kpt[i].pages[j] = a.ret, !.ret = <<i, j>>]

\* allocate_page(user): the first unmapped entry of the first table with
\* one, creating the first absent table on the way; _panic() if none.
AllocateNextFreePage(r) ==
  IF r.halted THEN r
  ELSE LET usable(i) == ~r.kpt[i].present \/ \E j \in Ents : r.kpt[i].pages[j] = Free
           cand == {i \in KIdx : usable(i)}
       IN  IF cand = {} THEN [r EXCEPT !.halted = TRUE]
           ELSE LET i == Min(cand)
                IN  IF ~r.kpt[i].present
                    THEN AllocatePageAt(AllocatePageTable(r, i), i, 0)
                    ELSE AllocatePageAt(r, i,
                           Min({j \in Ents : r.kpt[i].pages[j] = Free}))

\* unmap_page(virtual_addr) of a kernel slot: free its frame and clear
\* the entry.
UnmapPage(r, s) ==
  IF FrameOf(r.kpt, s) = Free THEN r
  ELSE [r EXCEPT !.frames = @ \ {FrameOf(r.kpt, s)},
                 !.kpt[s[1]].pages[s[2]] = Free]

\* n calls of allocate_frame; ret is the set of frames taken.
RECURSIVE AllocateFrames(_, _, _)
AllocateFrames(r, n, acc) ==
  IF n = 0 \/ r.halted THEN [r EXCEPT !.ret = acc]
  ELSE LET a == AllocateFrame(r) IN AllocateFrames(a, n - 1, acc \cup {a.ret})
-----------------------------------------------------------------------------
(* process.cpp: building an address space.  The record also carries the   *)
(* directory slot (dir) and the page_tables list (tabs) being built.      *)

\* allocate_page_dir: one kernel page for the directory.
AllocatePageDir(r) ==
  LET a == AllocateNextFreePage(r) IN [a EXCEPT !.dir = a.ret]

\* A page table page with n fresh frames in it, appended to page_tables
\* (allocate_stack_page, and one iteration of allocate_heap_pages).
AllocateFullTable(r, n) ==
  LET a == AllocateNextFreePage(r)
      b == AllocateFrames(a, n, {})
  IN  [b EXCEPT !.tabs = Append(@, <<a.ret, b.ret>>)]

\* allocate_page(1) n times; ret is the sequence of kernel slots taken.
RECURSIVE AllocateDataPages(_, _, _)
AllocateDataPages(r, n, acc) ==
  IF n = 0 \/ r.halted THEN [r EXCEPT !.ret = acc]
  ELSE LET a == AllocateNextFreePage(r)
       IN  AllocateDataPages(a, n - 1, Append(acc, a.ret))

\* One table of the image (elf_loader.cpp:53-100): a page for the table,
\* then a kernel page per data page, whose frame the table maps.
LoadImageTable(r, n) ==
  LET a == AllocateNextFreePage(r)
      b == AllocateDataPages(a, n, <<>>)
  IN  [b EXCEPT !.tabs  = Append(@, <<a.ret, {FrameOf(b.kpt, s) : s \in ToSet(b.ret)}>>),
                !.ret   = r.ret \o b.ret]

RECURSIVE LoadImageTables(_, _)
LoadImageTables(r, t) ==
  IF t > Len(ImagePages) \/ r.halted THEN r
  ELSE LoadImageTables(LoadImageTable(r, ImagePages[t]), t + 1)

\* load_elf_file's page use: the image's tables and data pages, then the
\* copied pages leave the kernel's view (their frames stay in use).
LoadElfFile(r) ==
  LET a == LoadImageTables([r EXCEPT !.ret = <<>>], 1)
      copied == {a.ret[k] : k \in 1..Min({ImageCopied, Len(a.ret)})}
  IN  IF a.halted THEN a
      ELSE [a EXCEPT !.kpt = [i \in KIdx |->
              [present |-> a.kpt[i].present,
               pages   |-> [j \in Ents |-> IF <<i, j>> \in copied THEN Free
                                         ELSE a.kpt[i].pages[j]]]]]

RECURSIVE AllocateHeapPages(_, _)
AllocateHeapPages(r, n) ==
  IF n = 0 THEN r ELSE AllocateHeapPages(AllocateFullTable(r, Entries), n - 1)

\* create_process_virtual_addr_space, in the order of process.cpp:106-112.
CreateAddressSpace(r) ==
  AllocateHeapPages(LoadElfFile(AllocateFullTable(AllocatePageDir(r), Entries)),
                    HeapTables)

\* unmap_process: free every frame the process's page tables map
\* (kfree of the table pointer is a no-op, the pointer is outside the
\* kernel heap), then unmap the page directory's page.
UnmapProcess(r, dir, tabs) ==
  UnmapPage([r EXCEPT !.frames = @ \ UNION {t[2] : t \in ToSet(tabs)}], dir)

-----------------------------------------------------------------------------
(* paging_init: the first 4 MB are locked, and the bits of the last word  *)
(* past physical_frames are meant to be.  The code sets that word to      *)
(* ~(1 << (31 - physical_frames % 32)): every bit but one, counting from  *)
(* the least significant bit, which is the order allocate_frame scans.   *)

BootFrames == 0..(BootUsed - 1)

TailLocked ==
  IF NumFrames % 32 = 0 THEN {}
  ELSE {f \in Frames : /\ f \div 32 = BitmapSize - 1
                       /\ f % 32 # 31 - (NumFrames % 32)}

LockedAtBoot == BootFrames \cup TailLocked

Init ==
  /\ frames = LockedAtBoot
  /\ kpt = [i \in KIdx |-> NoTable]
  /\ pdir = [p \in Procs |-> NoSlot]
  /\ tables = [p \in Procs |-> <<>>]
  /\ halted = FALSE

State == [frames |-> frames, kpt |-> kpt, halted |-> halted, ret |-> 0,
          dir |-> NoSlot, tabs |-> <<>>]

\* create_process_virtual_addr_space for PCB p (its process_count check
\* never fails: the count is never incremented).  A panic stops the
\* machine where it is.
Create(p) ==
  /\ ~halted
  /\ p \notin Live
  /\ LET r == CreateAddressSpace(State)
     IN  IF r.halted
         THEN halted' = TRUE /\ UNCHANGED <<frames, kpt, pdir, tables>>
         ELSE /\ frames' = r.frames
              /\ kpt' = r.kpt
              /\ pdir' = [pdir EXCEPT ![p] = r.dir]
              /\ tables' = [tables EXCEPT ![p] = r.tabs]
              /\ halted' = FALSE

\* kill_process's unmap_process for PCB p.
Kill(p) ==
  /\ ~halted
  /\ p \in Live
  /\ LET r == UnmapProcess(State, pdir[p], tables[p])
     IN  /\ frames' = r.frames
         /\ kpt' = r.kpt
         /\ pdir' = [pdir EXCEPT ![p] = NoSlot]
         /\ tables' = [tables EXCEPT ![p] = <<>>]
         /\ UNCHANGED halted

Halted == halted /\ UNCHANGED vars

Next ==
  \/ \E p \in Procs : Create(p) \/ Kill(p)
  \/ Halted

Spec == Init /\ [][Next]_vars

-----------------------------------------------------------------------------
(* Properties.                                                             *)

\* How many page-table entries, of the kernel's tables and of the live
\* processes' tables, reference frame f.
RefCount(f) ==
  Cardinality({s \in Slots : kpt[s[1]].present /\ FrameOf(kpt, s) = f})
  + Cardinality(UNION {{<<q, t>> : t \in {u \in DOMAIN tables[q] :
                                           f \in tables[q][u][2]}} : q \in Live})

TypeOK ==
  /\ frames \subseteq Frames
  /\ kpt \in [KIdx -> [present : BOOLEAN, pages : [Ents -> Frames \cup {Free}]]]
  /\ pdir \in [Procs -> Slots \cup {NoSlot}]
  /\ \A p \in Procs : \A t \in DOMAIN tables[p] :
       tables[p][t][1] \in Slots /\ tables[p][t][2] \subseteq Frames
  /\ halted \in BOOLEAN

\* The frames behind PCB p's address space: its page directory's page,
\* its page tables' pages, and the frames those tables map.
SpaceFrames(p) ==
  {FrameOf(kpt, pdir[p])} \cup {FrameOf(kpt, t[1]) : t \in ToSet(tables[p])}
  \cup UNION {t[2] : t \in ToSet(tables[p])}

\* No frame backs two live address spaces, and every frame a live one
\* uses is marked used (spec 8: no index allocate_frame returns is
\* occupied).  Creations and kills interleave; unmap_process frees the
\* frames a dead process's tables map while the kernel keeps the entries
\* of its table pages and of the image page the loader did not copy, and
\* allocate_frame hands the freed frames to the next process.
NoFrameInTwoSpaces ==
  \A p \in Live :
    /\ SpaceFrames(p) \subseteq frames
    /\ \A q \in Live \ {p} : SpaceFrames(p) \cap SpaceFrames(q) = {}

\* Once every process has exited, the frames and the kernel's pages are
\* as they were at boot: unmap_process releases "every owned page table
\* and its backing frames" (spec 4.5).
AddressSpaceReclaimed ==
  Live = {} =>
    /\ frames = LockedAtBoot
    /\ \A s \in Slots : FrameOf(kpt, s) = Free
=============================================================================
