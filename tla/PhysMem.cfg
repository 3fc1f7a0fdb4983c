SPECIFICATION Spec
CONSTANTS
    IntBits = 2
    TotalBlocks = 20
    Reserved = 2
    SyncFrom = 1
    KernelBlocks = 6
    TableBlocks = 1
    PhysFree = 1
    Sizes = {2, 3}
    PageArgs = {0, 1, 3}
    MaxPages = 6
INVARIANTS TypeOK NoDoubleAllocation KernelUntouched
PROPERTY BumpFresh
