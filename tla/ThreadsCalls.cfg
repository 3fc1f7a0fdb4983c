SPECIFICATION Spec
CONSTANTS
  MaxThreads = 4
  SleepTimes = {1, 2}
  TicksPerSecond = 2
  Calls = {"trap", "sleep", "wait", "read", "fork", "exec", "exit", "fault"}
  LastInFirstOut = TRUE
INVARIANT TypeOK
INVARIANT RunQueueSound
INVARIANT DeadNeverRun
INVARIANT NeverPanics
INVARIANT PtableSound
