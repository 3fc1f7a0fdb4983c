----------------------------- MODULE FlatTables -----------------------------
(***************************************************************************)
(* What page tables are for: a table of its own for every process, from    *)
(* pages to entries.  Mapping a page changes one entry of one process,     *)
(* fork makes an equal table, exec starts an empty one.                    *)
(***************************************************************************)
EXTENDS Integers

CONSTANTS Proc, First, Page, PagesPerTable,
          Image          \* the pages of a program

VARIABLE pt              \* [Proc -> [Page -> entry]]

INSTANCE PageEntries

Empty == [pg \in Page |-> NoEntry]
InUse == {pt[p][pg].frame : p \in Proc, pg \in Page}

IsProgram(table) ==
    /\ \A pg \in Page \ Image : table[pg] = NoEntry
    /\ \A pg \in Image : table[pg] = set_page_entry(NoEntry, table[pg].frame)
    /\ \A a, b \in Image : table[a].frame = table[b].frame => a = b

Init ==
    /\ IsProgram(pt[First])
    /\ pt = [p \in Proc |-> IF p = First THEN pt[First] ELSE Empty]

Fork(p, q) ==
    LET table == pt[p]
    IN  /\ table # Empty /\ pt[q] = Empty
        /\ pt' = [pt EXCEPT ![p] = copy_page_table(table), ![q] = copy_page_table(table)]

Exec(p) ==
    LET new == pt'[p]
    IN  /\ pt' = [pt EXCEPT ![p] = new]
        /\ IsProgram(new)
        /\ {new[pg].frame : pg \in Image} \cap InUse = {}

Map(p) ==
    LET old == pt[p]
        new == pt'[p]
    IN  /\ pt' = [pt EXCEPT ![p] = new]
        /\ \E pg \in Page : /\ new = [old EXCEPT ![pg] = set_page_entry(@, new[pg].frame)]
                            /\ new[pg].frame \notin InUse

Next ==
    /\ pt' # pt
    /\ \E p \in Proc : Exec(p) \/ Map(p) \/ \E q \in Proc : Fork(p, q)

Spec == Init /\ [][Next]_pt
=============================================================================
