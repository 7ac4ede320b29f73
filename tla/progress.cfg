SPECIFICATION FairSpec
CONSTANTS
  NPROC = 2
  NCPU = 1
  MaxPid = 2
  BoostTicks = 3
  Slice <- MCSlice
  KillPids = {0, 1, 2}
  SleepChans <- MCChans
PROPERTIES
  LockReleased
  ClockWakesSleepers
  TopLevelServed
