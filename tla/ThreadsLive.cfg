SPECIFICATION FairWaitSpec
CONSTANTS
  MaxThreads = 5
  SleepTimes = {1}
  TicksPerSecond = 1
  Calls = {"sleep", "wait", "fork", "exit", "fault"}
  LastInFirstOut = TRUE
INVARIANT NeverCrashes
PROPERTY WaitSound
PROPERTY EveryThreadRuns
PROPERTY ShellWaitReturns
