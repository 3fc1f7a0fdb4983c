\* After cd has left the tree the kernel faults and stops.
CHECK_DEADLOCK FALSE
SPECIFICATION Spec
CONSTANTS
    Proc = {p1, p2}
    Archives <- AllArchives
    BlockSize = 2
    Trailer = 2
    DataHeaders <- DataAsHeader
    NodesPerPage = 3
INVARIANTS OthersAreListed FilesOpenUpToFull ReadsWhatItOpened
