----------------------------- MODULE ElfLoader ------------------------------
(***************************************************************************)
(* load_elf_file and allocate_segment of                                  *)
(* src/kernel/src/processes/elf_loader.cpp: for each LOAD program header, *)
(* map the pages of [p_vaddr, p_vaddr + p_filesz] into the new process's  *)
(* page directory, creating a page table per new table index or reusing  *)
(* one, copy the segment's bytes into the fresh pages page by page, and   *)
(* unmap the copied pages from the kernel's view.                          *)
(*                                                                         *)
(* Sizes are scaled: PageSize bytes per page (FRAME_SIZE) and Entries     *)
(* pages per table (PAGE_TABLE_ENTRIES).  A page table is named by the    *)
(* directory index it was created for; the stack table, created before   *)
(* the loader runs, is StackTable.  A frame is named by the order in      *)
(* which the loader allocated it.  A byte of the image is <<s, o>>: byte *)
(* o of the file data of program header s.                                *)
(***************************************************************************)
EXTENDS Integers, Sequences, FiniteSets, SequencesExt

CONSTANTS
  PageSize,     \* FRAME_SIZE
  Entries,      \* PAGE_TABLE_ENTRIES
  StackTable,   \* PROCESS_STACK_PAGE_TABLE
  Programs      \* the program-header tables a loaded image may have

PtLoad == 1                               \* p_type of a LOAD segment

\* Mutant: the page index is not masked to the table (& 0x3FF dropped).
PageOfAddrUnmasked(a) == a \div PageSize

\* start_virt_addr >> 22 and (start_virt_addr >> 12) & 0x3FF
TableOfAddr(a) == a \div (PageSize * Entries)
PageOfAddr(a)  == (a \div PageSize) % Entries

\* Mutant: a remainder is not given a page of its own.
PagesNeededTruncated(filesz) == filesz \div PageSize

\* pages_needed of allocate_segment: a whole page per FRAME_SIZE bytes,
\* one more for a remainder.
PagesNeeded(filesz) ==
  filesz \div PageSize + (IF filesz % PageSize # 0 THEN 1 ELSE 0)

\* The pages of table i the inner loop of allocate_segment maps, for a
\* segment whose first page is (tS, pS) and whose end address falls in
\* page (tE, pE).
PagesOfTable(i, tS, pS, tE, pE) ==
  (IF i = tS THEN pS ELSE 0)..(IF i = tE THEN pE ELSE Entries - 1)

\* The state allocate_segment changes: pcb->page_tables, the loader's
\* page_table_indexes, the entries written into page tables (table, page)
\* -> frame, the frames still mapped in the kernel's view, the bytes
\* written into each frame, the number of frames taken, and whether the
\* copy dereferenced the empty data_pages list.
InitialState ==
  [pageTables |-> <<StackTable>>, indexes |-> <<>>, pte |-> <<>>,
   kmapped |-> {}, data |-> <<>>, frames |-> 0, fault |-> FALSE]

\* Mutant: a seen index reuses the FIRST table of pcb->page_tables
\* (list_get(..., 0)) instead of the last.
MapTableReusesFirst(r, i, tS, pS, tE, pE) ==
  LET seen  == i \in ToSet(r.st.indexes)
      tbl   == IF seen THEN Head(r.st.pageTables) ELSE i
      js    == PagesOfTable(i, tS, pS, tE, pE)
      first == r.st.frames + 1
      fr(j) == first + j - (IF i = tS THEN pS ELSE 0)
  IN  [st |-> [r.st EXCEPT
                 !.pageTables = IF seen THEN @ ELSE Append(@, i),
                 !.indexes    = IF seen THEN @ ELSE Append(@, i),
                 !.pte        = [k \in {<<tbl, j>> : j \in js} |-> fr(k[2])]
                                @@ @,
                 !.kmapped    = @ \cup {fr(j) : j \in js},
                 !.frames     = @ + Cardinality(js)],
       dataPages |-> r.dataPages \o [n \in 1..Cardinality(js) |-> first + n - 1]]

\* One iteration of the outer loop (elf_loader.cpp:53-101) for table i:
\* reuse the LAST table of pcb->page_tables if index i was seen before,
\* else create a table for i; then take one page per entry of the range
\* with allocate_page(1), remember it in data_pages, and write its frame
\* into the table.
MapTable(r, i, tS, pS, tE, pE) ==
  LET seen  == i \in ToSet(r.st.indexes)
      tbl   == IF seen THEN Last(r.st.pageTables) ELSE i
      js    == PagesOfTable(i, tS, pS, tE, pE)
      first == r.st.frames + 1
      fr(j) == first + j - (IF i = tS THEN pS ELSE 0)
  IN  [st |-> [r.st EXCEPT
                 !.pageTables = IF seen THEN @ ELSE Append(@, i),
                 !.indexes    = IF seen THEN @ ELSE Append(@, i),
                 !.pte        = [k \in {<<tbl, j>> : j \in js} |-> fr(k[2])]
                                @@ @,
                 !.kmapped    = @ \cup {fr(j) : j \in js},
                 !.frames     = @ + Cardinality(js)],
       dataPages |-> r.dataPages \o [n \in 1..Cardinality(js) |-> first + n - 1]]

RECURSIVE MapTables(_, _, _, _, _, _)
MapTables(r, i, tS, pS, tE, pE) ==
  IF i > tE THEN r
  ELSE MapTables(MapTable(r, i, tS, pS, tE, pE), i + 1, tS, pS, tE, pE)

\* Mutant: the last page is copied but not unmapped from the kernel's
\* view (elf_loader.cpp:132-137 left out).
CopySegmentKeepsLast(st, dp, s, filesz) ==
  LET n   == PagesNeeded(filesz)
      rem == filesz % PageSize
      len(k) == IF k < n THEN PageSize ELSE rem
      bytes(k) == [o \in 0..(len(k) - 1) |-> <<s, (k - 1) * PageSize + o>>]
  IN  IF n = 0 \/ n > Len(dp) THEN [st EXCEPT !.fault = TRUE]
      ELSE [st EXCEPT
              !.data    = [f \in {dp[k] : k \in 1..n} |->
                             bytes(CHOOSE k \in 1..n : dp[k] = f)] @@ @,
              !.kmapped = @ \ {dp[k] : k \in 1..(n - 1)}]

\* The copy loop and the last-page copy (elf_loader.cpp:102-139): the
\* first pages_needed - 1 pages of data_pages get a whole page of file
\* data each, the next one gets remainder bytes, and each of these is
\* unmapped from the kernel's view.  A copy that runs past the end of
\* data_pages dereferences list_get's NULL; with pages_needed = 0 the
\* unsigned bound pages_needed - 1 wraps and the loop does exactly that.
CopySegment(st, dp, s, filesz) ==
  LET n   == PagesNeeded(filesz)
      rem == filesz % PageSize
      len(k) == IF k < n THEN PageSize ELSE rem
      bytes(k) == [o \in 0..(len(k) - 1) |-> <<s, (k - 1) * PageSize + o>>]
  IN  IF n = 0 \/ n > Len(dp) THEN [st EXCEPT !.fault = TRUE]
      ELSE [st EXCEPT
              !.data    = [f \in {dp[k] : k \in 1..n} |->
                             bytes(CHOOSE k \in 1..n : dp[k] = f)] @@ @,
              !.kmapped = @ \ {dp[k] : k \in 1..n}]

\* Mutant: the end address is taken one byte further still.
AllocateSegmentPastEnd(st, s, seg) ==
  LET start == seg.vaddr
      end   == seg.vaddr + seg.filesz + 1
      r     == MapTables([st |-> st, dataPages |-> <<>>],
                         TableOfAddr(start), TableOfAddr(start),
                         PageOfAddr(start), TableOfAddr(end), PageOfAddr(end))
  IN  CopySegment(r.st, r.dataPages, s, seg.filesz)

\* allocate_segment(p_vaddr, p_vaddr + p_filesz, ...) for header s.
AllocateSegment(st, s, seg) ==
  LET start == seg.vaddr
      end   == seg.vaddr + seg.filesz
      r     == MapTables([st |-> st, dataPages |-> <<>>],
                         TableOfAddr(start), TableOfAddr(start),
                         PageOfAddr(start), TableOfAddr(end), PageOfAddr(end))
  IN  CopySegment(r.st, r.dataPages, s, seg.filesz)

\* One iteration of the program-header loop of load_elf_file
\* (elf_loader.cpp:163-176): LOAD segments are allocated, others skipped.
LoadHeader(st, s, seg) ==
  IF seg.type = PtLoad THEN AllocateSegment(st, s, seg) ELSE st

-----------------------------------------------------------------------------
(* The loader run on one image, one program header per step.             *)

VARIABLES prog, next, st

vars == <<prog, next, st>>

Init ==
  /\ prog \in Programs
  /\ next = 1
  /\ st = InitialState

LoadNextHeader ==
  /\ next <= Len(prog)
  /\ ~st.fault
  /\ st' = LoadHeader(st, next, prog[next])
  /\ next' = next + 1
  /\ UNCHANGED prog

Next == LoadNextHeader

Spec == Init /\ [][Next]_vars

Done == next > Len(prog) /\ ~st.fault

-----------------------------------------------------------------------------
(* What the process sees once the image is loaded.                        *)

\* The directory entry of table index i points at the table created for
\* i (elf_loader.cpp:78); virtual page (i, j) is backed by that table's
\* entry j.
MappedPages == {k \in DOMAIN st.pte : k[1] \in ToSet(st.indexes)}

\* The virtual pages the file data of the LOAD headers covers.
LoadHeaders == {s \in DOMAIN prog : prog[s].type = PtLoad}

SegmentPages(seg) ==
  {<<TableOfAddr(a), PageOfAddr(a)>> : a \in seg.vaddr..(seg.vaddr + seg.filesz - 1)}

CoveredPages == UNION {SegmentPages(prog[s]) : s \in LoadHeaders}

\* The byte the process reads at virtual address a, or <<>> if none.
ByteAt(a) ==
  LET k == <<TableOfAddr(a), PageOfAddr(a)>>
      o == a % PageSize
  IN  IF k \in MappedPages /\ st.pte[k] \in DOMAIN st.data
         /\ o \in DOMAIN st.data[st.pte[k]]
      THEN st.data[st.pte[k]][o] ELSE <<>>

-----------------------------------------------------------------------------
(* Properties.                                                             *)

TypeOK ==
  /\ next \in 1..(Len(prog) + 1)
  /\ st.pageTables \in Seq(Nat)
  /\ ToSet(st.indexes) \subseteq ToSet(st.pageTables)
  /\ st.kmapped \subseteq 1..st.frames
  /\ \A k \in DOMAIN st.pte : st.pte[k] \in 1..st.frames /\ k[2] \in 0..(Entries - 1)
  /\ st.fault \in BOOLEAN

\* Once loaded, every byte of every LOAD segment's file data is at its
\* virtual address p_vaddr + o in the process's address space: the
\* pages are mapped in the right tables and the copy loop filled them
\* (spec 4.3: "copy the segment's file bytes into the newly mapped pages").
SegmentBytesLoaded ==
  Done => \A s \in LoadHeaders :
            \A o \in 0..(prog[s].filesz - 1) : ByteAt(prog[s].vaddr + o) = <<s, o>>

\* Every virtual page holding file data is mapped in the process's
\* directory (the reuse of a table for an index seen before must pick
\* that index's table).
EverySegmentPageMapped ==
  Done => CoveredPages \subseteq MappedPages

\* The loader maps exactly the pages the segments span, no more (spec
\* 7: a segment "spanning 2 pages ... maps exactly" those pages).
NoPageBeyondSegments ==
  Done => MappedPages \subseteq CoveredPages

\* Every frame the loader took ends up referenced by exactly one entry
\* of the process's tables and is no longer mapped in the kernel's view
\* (spec 2: exactly one page-table entry references an occupied frame).
FramesHaveOneOwner ==
  Done => /\ st.kmapped = {}
          /\ \A f \in 1..st.frames :
               Cardinality({k \in DOMAIN st.pte : st.pte[k] = f}) = 1
=============================================================================
