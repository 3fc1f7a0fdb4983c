\* A division by zero stops the machine.
CHECK_DEADLOCK FALSE
SPECIFICATION Spec
CONSTANTS
    Names = {f1, f2, f3}
    Dirs = {d1}
    Texts <- MCTexts
    Seeks <- MCSeeks
    Counts = {1}
    InodeCount = 5
    PerSector = 3
    NBlocks = 9
    UIntModulus = 32
    NoName = NoName
SYMMETRY Symmetry
INVARIANTS TypeOK BlocksExclusive NamedFilesOnDisk LastWriteStays
