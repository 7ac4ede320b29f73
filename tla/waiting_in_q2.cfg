SPECIFICATION FairSpec
CONSTANTS
  NPROC = 2
  NCPU = 1
  MaxPid = 2
  BoostTicks = 3
  Slice <- MCSlice
  KillPids = {}
  SleepChans <- MCTicksOnly
PROPERTY WaitingInQ2Boosted
