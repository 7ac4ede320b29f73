SPECIFICATION Spec
CONSTANTS
  NPROC = 2
  NCPU = 1
  MaxPid = 3
  BoostTicks = 3
  Slice <- MCSlice
  KillPids = {}
  SleepChans <- MCIoOnly
INVARIANT QueuedOnce
