---------------------------- MODULE PageEntries ----------------------------
(***************************************************************************)
(* The entries of the lowest page tables, seen as one table per process    *)
(* from pages to entries (sys/mm/vmmgr_virtual.c, sys/mm/vmmgr_pte.c).     *)
(* AddressSpaces works on such tables; PageTables shows that the four      *)
(* levels the processor walks behave like one.                             *)
(***************************************************************************)
EXTENDS Integers

CONSTANTS Page,
          PagesPerTable      \* pages of one page table (512)

NoEntry == [frame |-> -1, present |-> FALSE, writable |-> FALSE, cow |-> FALSE]

(* The pages whose entries share a page table with that of pg. *)
TableOf(pg) == {q \in Page : q \div PagesPerTable = pg \div PagesPerTable}

(* set_page_entry only adds attributes: the COW bit of the entry stays. *)
set_page_entry(e, f) == [e EXCEPT !.frame = f, !.present = TRUE, !.writable = TRUE]

(* pt_entry_del_attrib and pt_entry_add_attrib, as copy_page_table uses them *)
Protected(e) == [e EXCEPT !.writable = FALSE, !.cow = TRUE]

copy_page_table_none(table) == table \* mutant: nothing is write protected

(* What copy_page_table leaves in the parent and in the child: every entry *)
(* of every page table that exists, absent pages included.                 *)
copy_page_table(table) ==
    [pg \in Page |->
        IF \E q \in TableOf(pg) : table[q].present THEN Protected(table[pg]) ELSE table[pg]]
=============================================================================
