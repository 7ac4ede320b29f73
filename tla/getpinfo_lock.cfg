SPECIFICATION KernelSpec
CONSTANTS
  Procs = {p0, p1}
  InitProc = p0
  Memory = 160
  PGSIZE = 8
  KERNBASE = 32
  NPTENTRIES = 2
  NKPT = 2
  MAXARG = 1
  ADDR = 64
  Programs <- MCPrograms
  Increments <- MCIncrements
  Readers = {p, q}
  INPUT_BUF = 3
  Width = 6
  Letters = {"a"}
  Newline = "n"
  CtrlD = "D"
  CtrlU = "U"
  Backspace = "B"
  CtrlP = "P"
  ReadSizes = {2}
  COLS = 2
  ROWS = 2
  CPUs = {c0, c1}
  NoCpu = NoCpu
  Calls <- InfoCalls
  Handlers <- MCHandlers
  Tasks = {t0, t1}
  Processors = {c0}
  SliceOf <- MCSlices
  BoostAfter = 2
  NSCHEDSTATS = 3
  MaxClock = 3
  MaxLives = 1
  Parts = {"locks"}
INVARIANT NoSpinCycle
CHECK_DEADLOCK FALSE
