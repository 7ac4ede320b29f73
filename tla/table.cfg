SPECIFICATION Spec
CONSTANTS
  NPROC = 2
  NCPU = 2
  MaxPid = 3
  BoostTicks = 3
  Slice <- MCSlice
  KillPids = {0, 2}
  SleepChans <- MCChans
INVARIANTS
  OneCpuPerProcess TableInv QueueInv
