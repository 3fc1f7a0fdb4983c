-------------------------- MODULE MCAddressSpaces --------------------------
(* Instances of AddressSpaces for TLC.  The heap is page 2, the segment of  *)
(* the program page 6 and the stack page 9, in tables of two pages; pages  *)
(* 4 and 5 have no table.                                                  *)
EXTENDS AddressSpaces, TLC

(* The processes that do not exist yet are interchangeable. *)
Symmetry == Permutations(Proc \ {First})

(* Writes to the heap, below the stack, and where nothing is mapped. *)
Everywhere == {<<2, "middle">>, <<8, "end">>, <<4, "middle">>}
(* Writes below the stack *)
BelowStack == {<<8, "end">>}
(* Writes to the first byte of the heap *)
HeapStart == {<<2, "start">>}
(* Writes next to the program, in its page table *)
BesideProgram == {<<6, "middle">>, <<7, "middle">>}
=============================================================================
