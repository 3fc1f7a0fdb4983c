SPECIFICATION Spec
CONSTANTS
    LastSector = 1
    Offset = {0}
    Data = {0, 1}
    Length = {2}
    Zeros = 0
    NCS = 2
    PortType <- DriveAtFirstPort
    Line = {0, 8}
    TimerLine = 0
    KeyboardLine = 1
    TickModulus = 4
    HourModulus = 2
    TicksPerSecond = 3
    SecondsPerMinute = 2
    MinutesPerHour = 1
    Base = 2
    MaxTicks = 4
INVARIANT ClockFollowsTicks
PROPERTIES DiskIsSectors EveryRequestReturns EveryLineServed
