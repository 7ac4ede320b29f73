SPECIFICATION FairSpec
CONSTANTS
  Procs = {p0, p1, p2}
  Blocks = {b0, b1, b2}
  Values = {v0}
  MAXOPBLOCKS = 1
  LOGSIZE = 2
  size = 2
  NoBlock = NoBlock
  NoValue = NoValue
INVARIANTS NoOverrun CommitsAlone
PROPERTIES SleeperWoken
