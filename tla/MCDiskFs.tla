------------------------------ MODULE MCDiskFs ------------------------------
(* Instances of DiskFs for TLC: two strings of different length, a seek    *)
(* backwards (read moves forwards).                                        *)
EXTENDS DiskFs, TLC

MCTexts == {[txt |-> "short", len |-> 1], [txt |-> "long", len |-> 3]}
MCSeeks == {-1}
Symmetry == Permutations(Names)    \* no operation tells file names apart
=============================================================================
