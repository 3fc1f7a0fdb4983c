SPECIFICATION Spec
SYMMETRY Symmetry
CONSTANTS
    Radix = 4
    Program <- Areas
    Growth = {1}
    Proc = {p1, p2, p3}
    First = p1
    Start = start
    Leftover <- NothingLeft
    MaxTables = 24
    MaxFrames = 4
INVARIANTS NoStaleWrite KernelEverywhere
PROPERTY TablesAreFlat
