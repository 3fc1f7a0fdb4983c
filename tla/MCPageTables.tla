---------------------------- MODULE MCPageTables ----------------------------
EXTENDS PageTables, TLC

(* Code and heap, each in a page table of its own; the heap can grow down. *)
Areas == <<4, 2>>

NothingLeft == NoEntry
SomethingLeft == [frame |-> 1, present |-> TRUE, writable |-> TRUE, cow |-> FALSE]

Symmetry == Permutations(Proc \ {First})
=============================================================================
