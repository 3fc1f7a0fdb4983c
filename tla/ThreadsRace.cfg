SPECIFICATION RaceSpec
CONSTANTS
  MaxThreads = 4
  SleepTimes = {1}
  TicksPerSecond = 2
  Calls = {"trap"}
  LastInFirstOut = TRUE
INVARIANT NoThreadLost
CHECK_DEADLOCK FALSE
