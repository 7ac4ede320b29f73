SPECIFICATION StorageSpec
CONSTANTS
  Procs = {p0, p1}
  Clients = {p0, p1}
  DiskBlocks = {k0, k1, k2}
  Values = {v0, v1}
  Contents = {v0, v1}
  Bufs = {b0, b1}
  MaxPinned = 1
  Blocks = {h0, h1}
  MAXOPBLOCKS = 2
  LOGSIZE = 4
  size = 4
  NoProc = NoProc
  NoBlock = NoBlock
  NoDiskBlock = NoBlock
  NoBuf = NoBuf
  NoValue = NoValue
SYMMETRY Sym
INVARIANTS RequestsOwned BuffersAccounted DurableWhenQuiet
PROPERTIES BlocksAreRegisters AtomicOps
