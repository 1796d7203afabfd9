---------------------------- MODULE MCElfLoader -----------------------------
(***************************************************************************)
(* The loader on the image of spec 8's scenario, scaled: two-byte pages   *)
(* and two pages per table.  A read-execute LOAD segment of one page at   *)
(* address 0, and a read-write one of two pages at address 6, the last    *)
(* page of table 1, so that it straddles the boundary to table 2.  The    *)
(* spec expects exactly three pages mapped, each with its own frame,      *)
(* holding the segments' bytes.                                           *)
(***************************************************************************)
EXTENDS ElfLoader

MCPageSize   == 2
MCEntries    == 2
MCStackTable == 7

Seg(t, v, f) == [type |-> t, vaddr |-> v, filesz |-> f]

SpecScenario == {<<Seg(PtLoad, 0, 2), Seg(PtLoad, 6, 4)>>}
=============================================================================
