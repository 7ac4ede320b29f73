SPECIFICATION Spec
CONSTANTS
  NPROC = 3
  NCPU = 1
  MaxPid = 3
  BoostTicks = 3
  Slice <- MCSlice
  KillPids = {2}
  SleepChans <- MCIoOnly
INVARIANTS
  WaitNotMissed
  QueuesPartitionFirstLife
  HighestPriorityFirstLife
PROPERTY
  LevelsFollowRule
