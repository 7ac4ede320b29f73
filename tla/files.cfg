SPECIFICATION Spec
CONSTANTS
  Procs = {p0, p1}
  InitProc = p0
  NFILE = 3
  NOFILE = 2
  PIPESIZE = 1
  Width = 2
  Pages = {g0}
  Bytes = {x}
  Sizes = {2}
  NoProc = NoProc
  NoPage = NoPage
INVARIANTS RefsCounted EndsMatchFiles PipeSleepersBlocked
CHECK_DEADLOCK FALSE
