\* A faulting handler stops the machine.
CHECK_DEADLOCK FALSE
SPECIFICATION FairSpec
CONSTANTS
    Proc = {p1, p2}
    BufSize = 4
    OneAtATime = TRUE
    KeyModes = {TRUE, FALSE}
INVARIANTS NeverBusyAlone LineIsPrefix
PROPERTY EnterEndsRead
