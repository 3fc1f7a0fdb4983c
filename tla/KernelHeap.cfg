\* The bounds end every behaviour.
CHECK_DEADLOCK FALSE
SPECIFICATION Spec
CONSTANTS
    PageUnits = 12
    SizeLimit = 32
    Requests = {1, 4, 13, 31, 32}
    MaxBlocks = 6
    MaxHeld = 3
INVARIANTS TypeOK BlocksAligned HeldAtMostTwice
