\* Bounds, or the death of all processes, end every behaviour.
CHECK_DEADLOCK FALSE
SPECIFICATION Spec
SYMMETRY Symmetry
CONSTANTS
    Proc = {p1, p2, p3}
    First = p1
    Value = {"a"}
    HeapPage = 2
    CodePage = 6
    StackPage = 9
    PagesPerTable = 2
    MaxPage = 9
    StackLimit = 2
    Touched <- Everywhere
    MaxFrames = 7
    MaxNodes = 7
INVARIANTS TypeOK SharedIsReadOnly
PROPERTY MemoryIsPrivate
